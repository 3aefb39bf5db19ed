-------------------------------- MODULE Report --------------------------------
(***************************************************************************)
(* What a report shows of the observations and the findings of a scan: the *)
(* Markdown and the PDF file (shared/report.ts, worker/pdf), the posture   *)
(* tables (shared/report-presentation.ts) and the remediation playbook     *)
(* (shared/remediation). "in" is the input of buildFindings; text, order   *)
(* and layout are left out.                                                *)
(***************************************************************************)
EXTENDS Sequences, FiniteSets, Findings

-------------------------------------------------------------------------------
\* The playbook

\* The entries with the effort of their generic variant.
HostEntries == {<<"open-port", "S">>, <<"open-db-port", "M">>, <<"open-ssh", "S">>}
HeaderEntries == {<<"missing-headers", "S">>, <<"server-banner", "S">>, <<"powered-by", "S">>}
TlsEntries == {<<"cert-expired", "S">>, <<"cert-expiring", "S">>, <<"tls-legacy", "M">>, <<"self-signed", "S">>}
SoftwareEntries == {<<"tech-versions", "M">>, <<"wordpress", "M">>, <<"vuln-generic", "M">>, <<"cve-package", "M">>}
ExposureEntries == {<<"exposed-paths", "M">>, <<"archived-exposure", "M">>, <<"leaked-url-credentials", "M">>,
                    <<"insecure-cookie", "S">>}
EmailEntries == {<<"dmarc-missing", "S">>, <<"dmarc-none", "S">>, <<"spf-missing", "S">>,
                 <<"spf-permissive", "S">>, <<"mx-starttls", "S">>, <<"mta-sts", "S">>}
WebTrustEntries == {<<"hsts-missing", "S">>, <<"csp-weak", "M">>, <<"mixed-content", "S">>,
                    <<"missing-sri", "S">>, <<"robots-disclosure", "S">>, <<"security-txt", "S">>}
DomainEntries == {<<"caa-missing", "S">>, <<"dkim-missing", "S">>, <<"dnssec-missing", "M">>}
PhpEntries == {<<"php2shell", "S">>}
Entries == UNION {HostEntries, HeaderEntries, TlsEntries, SoftwareEntries, ExposureEntries, EmailEntries,
                  WebTrustEntries, DomainEntries, PhpEntries}
Playbooks == [key \in {e[1] : e \in Entries} |-> CHOOSE effort \in {"S", "M"} : <<key, effort>> \in Entries]

\* nginx wins over Apache; a WordPress site without either counts as Apache.
DetectWebStack(in) ==
    LET names == in.saw["whatweb"] \cup (in.saw["http"] \cap Banners)
    IN  IF "nginx" \in names THEN "nginx"
        ELSE IF "apache" \in names \/ "wordpress" \in in.saw["whatweb"] THEN "apache"
        ELSE "generic"

\* The variants of a stack differ in effort for one entry.
GetVariant(key, stack) == IF key = "tls-legacy" /\ stack # "generic" THEN "S" ELSE Playbooks[key]

CollectPlaybook(in, findings) ==
    {[finding |-> f, effort |-> GetVariant(f.key, DetectWebStack(in))] :
        f \in {g \in findings : g.key \in DOMAIN Playbooks}}

\* The windows of the roadmap, each with its items. Mutant: no critical ones.
RoadmapForHigh(items) ==
    LET actionable == {i \in items : i.finding.severity # "informational"}
        urgent == {i \in actionable : i.finding.severity = "high"}
    IN  <<{i \in urgent : i.effort = "S"},
          {i \in urgent : i.effort # "S"},
          {i \in actionable : i.finding.severity = "medium"},
          {i \in actionable : i.finding.severity = "low"}>>
RoadmapFor(items) ==
    LET actionable == {i \in items : i.finding.severity # "informational"}
        urgent == {i \in actionable : i.finding.severity \in {"critical", "high"}}
    IN  <<{i \in urgent : i.effort = "S"},
          {i \in urgent : i.effort # "S"},
          {i \in actionable : i.finding.severity = "medium"},
          {i \in actionable : i.finding.severity = "low"}>>

PlaybookEnabled(modules) == \E i \in DOMAIN modules : modules[i] = "remediation-playbook"

\* The same section in both files: entries and roadmap, or only a teaser.
PlaybookSection(in, findings, modules) ==
    IF PlaybookEnabled(modules) THEN RoadmapFor(CollectPlaybook(in, findings)) ELSE <<>>

-------------------------------------------------------------------------------
\* The validation matrix

\* The tools of a finding's notes, by the first word of the note. Mutant: a tool
\* is missing.
ConflictToolsFewer == {"nuclei", "httpx", "feroxbuster", "waybackurls"}
ConflictTools == {"nuclei", "httpx", "testssl", "feroxbuster", "waybackurls"}
ConflictingToolsFor(f) == f.disagree \cap ConflictTools

\* A cell: a source, a tool that ran and disagrees, or blank.
Cell(f, conflicting, t) == CASE t \in f.sources -> "yes" [] t \in conflicting \ f.sources -> "no" [] OTHER -> ""

RenderValidationMatrix(findings) ==
    LET used == UNION {f.sources \cup ConflictingToolsFor(f) : f \in findings}
    IN  [f \in findings |-> [t \in used |-> Cell(f, ConflictingToolsFor(f), t)]]

\* In the PDF the first word of a note must be the id of a column: the notes of
\* Nuclei and testssl begin with "Nuclei" and "testssl.sh".
RenderMatrix(findings) ==
    LET used == UNION {f.sources : f \in findings}
    IN  [f \in findings |-> [t \in used |-> Cell(f, f.disagree \cap {"httpx"} \cap used, t)]]

-------------------------------------------------------------------------------
\* The sections of the technical appendix, as pairs <<tool, what it says>>

Says(in, t) == <<t, IF t \in in.err THEN "error" ELSE "data">>
IfSeen(in, tools, shown) == When(\E t \in tools : in.saw[t] # {}, {<<t, "data">> : t \in shown})
IfGot(in, tools) == {Says(in, t) : t \in tools \cap in.got}

PortsAndTechnologies(in) == {<<"nmap", "data">>} \cup IfSeen(in, {"whatweb"}, {"whatweb"})
HttpSections(in) == IfGot(in, {"http", "httpx"})
TlsSections(in) == IfGot(in, {"tls", "testssl"})
WordPressSection(in) == {<<"wpscan", "data">>}
DnsSections(in) ==
    IfSeen(in, {"subfinder"}, {"subfinder"}) \cup IfSeen(in, {"dnsx"}, {"dnsx"}) \cup IfGot(in, {"email", "rdap"})
FoundSections(in) ==
    IfSeen(in, {"nuclei", "retire"}, {"nuclei", "retire"}) \cup IfSeen(in, {"feroxbuster"}, {"feroxbuster"})
    \cup IfSeen(in, {"waybackurls"}, {"waybackurls"}) \cup IfSeen(in, {"osv"}, {"osv"})
WebTrustSections(in) == IfGot(in, {"crawl-rules", "security-txt", "page-recon", "header-posture"})
DomainSections(in) == IfGot(in, {"dns-hardening", "dnssec", "ip-intel"})

RenderMarkdown(in) ==
    UNION {PortsAndTechnologies(in), HttpSections(in), TlsSections(in), WordPressSection(in), DnsSections(in),
           FoundSections(in), WebTrustSections(in), DomainSections(in)}

\* The PDF has the WordPress section only when WordPress was detected, and says
\* of an error only in these sections.
PdfErrors == {"http", "httpx", "testssl", "rdap", "page-recon", "crawl-rules"}
PdfGot(in, tools) == {<<t, IF t \in in.err \cap PdfErrors THEN "error" ELSE "data">> : t \in tools \cap in.got}
PdfObserved(in) ==
    UNION {PortsAndTechnologies(in), PdfGot(in, {"http", "httpx", "tls", "testssl"}),
           When(Saw(in, "whatweb", "wordpress"), {<<"wpscan", "data">>}),
           IfSeen(in, {"subfinder"}, {"subfinder"}), IfSeen(in, {"dnsx"}, {"dnsx"})}
PdfFound(in) ==
    PdfGot(in, {"email", "rdap", "crawl-rules", "security-txt", "page-recon", "header-posture", "dns-hardening",
                "dnssec", "ip-intel"}) \cup FoundSections(in)
RenderAppendix(in) == PdfObserved(in) \cup PdfFound(in)

\* The card of the certificate says what went wrong, the appendix does not.
TlsCard(in) == IfGot(in, {"tls"})

-------------------------------------------------------------------------------
\* The posture tables of the PDF: the checks that are shown as failed

HttpPosture(in) ==
    When("header-posture" \in in.got,
         When(Saw(in, "header-posture", "no hsts"), {"HSTS"})
         \cup When(Saw(in, "header-posture", "no csp header"), {"CSP"}))

DnsEmailPosture(in) ==
    When(Answered(in, "email"),
         When(Saw(in, "email", "no spf"), {"SPF"}) \cup When(Saw(in, "email", "no dmarc"), {"DMARC"})
         \cup When(Saw(in, "email", "no starttls"), {"MX STARTTLS"}))

===============================================================================
