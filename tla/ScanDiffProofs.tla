-------------------------- MODULE ScanDiffProofs --------------------------
(***************************************************************************)
(* Proofs about buildFindings, the reports and the difference of two scans *)
(* for any observations of any tools: the catalogue of the playbook has an *)
(* entry for every finding that asks for action, the windows of the        *)
(* roadmap share them out, both files show the evidence of every finding,  *)
(* and what is shown as new, changed or resolved is so, as far as no tool  *)
(* behind the finding saw less than it should.                             *)
(***************************************************************************)
EXTENDS ScanDiff, SequenceLemmas, FiniteSetTheorems, TLAPS

Severities == {"critical", "high", "medium", "low", "informational"}

\* A finding above informational has an entry in the catalogue.
Planned(f) ==
    /\ f.severity \in Severities
    /\ f.severity # "informational" => f.key \in DOMAIN Playbooks

Keys == {"open-port", "open-db-port", "open-ssh", "missing-headers", "server-banner", "powered-by", "cert-expired",
         "cert-expiring", "tls-legacy", "self-signed", "tech-versions", "wordpress", "vuln-generic", "cve-package",
         "exposed-paths", "archived-exposure", "leaked-url-credentials", "insecure-cookie", "dmarc-missing",
         "dmarc-none", "spf-missing", "spf-permissive", "mx-starttls", "mta-sts", "hsts-missing", "csp-weak",
         "mixed-content", "missing-sri", "robots-disclosure", "security-txt", "caa-missing", "dkim-missing",
         "dnssec-missing", "php2shell"}

\* Each of these keys has an entry.
LEMMA EntryKeys == Keys \subseteq DOMAIN Playbooks
<1>1. ASSUME NEW k, NEW e, <<k, e>> \in Entries PROVE k \in DOMAIN Playbooks
  BY <1>1 DEF Playbooks
<1>2. ASSUME NEW k \in Keys PROVE \E e \in {"S", "M"} : <<k, e>> \in Entries
  BY <1>2 DEF Keys, Entries, HostEntries, HeaderEntries, TlsEntries, SoftwareEntries, ExposureEntries, EmailEntries,
              WebTrustEntries, DomainEntries, PhpEntries
<1> QED
  BY <1>1, <1>2

-----------------------------------------------------------------------------
(* Findings by a table *)

\* The finding of a row has the key and the severity of the row.
LEMMA TablePlanned ==
    ASSUME NEW in
    PROVE  \A tool, rows : (\A r \in rows : Planned(r)) => \A f \in ByTable(in, tool, rows) : Planned(f)
<1> SUFFICES ASSUME NEW tool, NEW rows, \A r \in rows : Planned(r), NEW f \in ByTable(in, tool, rows)
             PROVE  Planned(f)
  OBVIOUS
<1>1. PICK r \in {x \in rows : Saw(in, tool, x.fact)} :
        f = Single(r.category, r.severity, r.title, "", r.at, r.key, tool)
  BY Zenon DEF ByTable
<1>2. f.key = r.key /\ f.severity = r.severity
  BY <1>1 DEF Single
<1> QED
  BY <1>1, <1>2 DEF Planned

\* The headers as graded.
LEMMA PostureKeys ==
    ASSUME NEW in
    PROVE  \A f \in PostureFindings(in) : Planned(f)
<1>1. ASSUME NEW f \in HstsFindings(in) PROVE Planned(f)
  <2>1. /\ Planned(Row("no hsts", "misconfiguration", "low", "no HSTS", "url", "hsts-missing"))
        /\ Planned(Row("weak hsts", "misconfiguration", "low", "weak HSTS", "url", "hsts-missing"))
    BY EntryKeys DEF Planned, Keys, Severities, Row
  <2> QED
    BY <2>1, TablePlanned DEF HstsFindings
<1>2. ASSUME NEW f \in CspFindings(in) PROVE Planned(f)
  <2>1. /\ Planned(Row("no csp header", "misconfiguration", "low", "no CSP", "url", "csp-weak"))
        /\ Planned(Row("csp report-only", "informational", "informational", "CSP report-only", "url", "csp-weak"))
        /\ Planned(Row("weak csp", "misconfiguration", "low", "weak CSP", "url", "csp-weak"))
    BY EntryKeys DEF Planned, Keys, Severities, Row
  <2> QED
    BY <2>1, TablePlanned DEF CspFindings
<1>3. ASSUME NEW f \in PostureCookieFindings(in) PROVE Planned(f)
  <2>1. /\ Planned(Row("no samesite", "misconfiguration", "low", "no SameSite", "url", "insecure-cookie"))
        /\ Planned(Row("insecure cookie", "misconfiguration", "medium", "insecure cookie", "url", "insecure-cookie"))
    BY EntryKeys DEF Planned, Keys, Severities, Row
  <2> QED
    BY <2>1, TablePlanned DEF PostureCookieFindings, When
<1> QED
  BY <1>1, <1>2, <1>3 DEF PostureFindings

\* The page, the rules for crawlers and security.txt.
LEMMA WebTrustKeys ==
    ASSUME NEW in
    PROVE  \A f \in UNION {PageFindings(in), RobotsFindings(in),
                          SecurityTxtFindings(in)} : Planned(f)
<1>1. ASSUME NEW f \in PageFindings(in) PROVE Planned(f)
  <2>1. /\ Planned(Row("mixed content", "misconfiguration", "medium", "mixed content", "url", "mixed-content"))
        /\ Planned(Row("no sri", "misconfiguration", "low", "no SRI", "url", "missing-sri"))
    BY EntryKeys DEF Planned, Keys, Severities, Row
  <2> QED
    BY <2>1, TablePlanned DEF PageFindings
<1>2. ASSUME NEW f \in RobotsFindings(in) PROVE Planned(f)
  <2>1. /\ Planned(Row("robots /admin", "exposure", "informational", "robots disclosure", "robots", "robots-disclosure"))
    BY EntryKeys DEF Planned, Keys, Severities, Row
  <2> QED
    BY <2>1, TablePlanned DEF RobotsFindings
<1>3. ASSUME NEW f \in SecurityTxtFindings(in) PROVE Planned(f)
  <2>1. /\ Planned(Row("no security.txt", "informational", "informational", "no security.txt", "security.txt", "security-txt"))
    BY EntryKeys DEF Planned, Keys, Severities, Row
  <2> QED
    BY <2>1, TablePlanned DEF SecurityTxtFindings
<1> QED
  BY <1>1, <1>2, <1>3

\* The domain and its address.
LEMMA DomainKeys ==
    ASSUME NEW in
    PROVE  \A f \in UNION {DnsHardeningFindings(in), DnssecFindings(in),
                          IpIntelFindings(in)} : Planned(f)
<1>1. ASSUME NEW f \in DnsHardeningFindings(in) PROVE Planned(f)
  <2>1. /\ Planned(Row("no caa", "misconfiguration", "low", "no CAA", "domain", "caa-missing"))
        /\ Planned(Row("no dkim", "misconfiguration", "medium", "no DKIM", "domain", "dkim-missing"))
        /\ Planned(Row("dmarc p=none", "misconfiguration", "medium", "DMARC p=none", "domain", "dmarc-none"))
    BY EntryKeys DEF Planned, Keys, Severities, Row
  <2> QED
    BY <2>1, TablePlanned DEF DnsHardeningFindings, When
<1>2. ASSUME NEW f \in DnssecFindings(in) PROVE Planned(f)
  <2>1. /\ Planned(Row("unsigned", "misconfiguration", "low", "no DNSSEC", "host", "dnssec-missing"))
    BY EntryKeys DEF Planned, Keys, Severities, Row
  <2> QED
    BY <2>1, TablePlanned DEF DnssecFindings
<1>3. ASSUME NEW f \in IpIntelFindings(in) PROVE Planned(f)
  <2>1. /\ Planned(Row("hosted", "informational", "informational", "infrastructure", "host", ""))
    BY EntryKeys DEF Planned, Keys, Severities, Row
  <2> QED
    BY <2>1, TablePlanned DEF IpIntelFindings
<1> QED
  BY <1>1, <1>2, <1>3

\* The mail of the domain.
LEMMA EmailKeys ==
    ASSUME NEW in
    PROVE  \A f \in EmailFindings(in) : Planned(f)
<1>1. ASSUME NEW f \in SpfFindings(in) PROVE Planned(f)
  <2>1. /\ Planned(Row("no spf", "misconfiguration", "medium", "no SPF", "domain", "spf-missing"))
        /\ Planned(Row("many spf", "misconfiguration", "medium", "multiple SPF", "domain", "spf-permissive"))
        /\ Planned(Row("spf all", "misconfiguration", "medium", "SPF allows any", "domain", "spf-permissive"))
    BY EntryKeys DEF Planned, Keys, Severities, Row
  <2> QED
    BY <2>1, TablePlanned DEF SpfFindings, When
<1>2. ASSUME NEW f \in StarttlsFindings(in) PROVE Planned(f)
  <2>1. /\ Planned(Row("no starttls", "exposure", "medium", "no STARTTLS", "domain", "mx-starttls"))
        /\ Planned(Row("starttls error", "informational", "informational", "STARTTLS probe failed", "domain", ""))
    BY EntryKeys DEF Planned, Keys, Severities, Row
  <2> QED
    BY <2>1, TablePlanned DEF StarttlsFindings
<1>3. ASSUME NEW f \in MailPolicyFindings(in) PROVE Planned(f)
  <2>1. /\ Planned(Row("no mta-sts", "misconfiguration", "low", "no MTA-STS", "domain", "mta-sts"))
        /\ Planned(Row("no tls-rpt", "misconfiguration", "low", "no TLS-RPT", "domain", "mta-sts"))
    BY EntryKeys DEF Planned, Keys, Severities, Row
  <2> QED
    BY <2>1, TablePlanned DEF MailPolicyFindings, When
<1>4. ASSUME NEW f \in DmarcFindings(in) PROVE Planned(f)
  <2>1. \A severity \in {"high", "medium"} : \A arg :
          Planned(Single("misconfiguration", severity, "no DMARC", arg, "domain", "dmarc-missing", "email"))
    BY EntryKeys DEF Planned, Keys, Severities, Single
  <2>2. \A title : Planned(Single("misconfiguration", "medium", title, "", "domain", "dmarc-none", "email"))
    BY EntryKeys DEF Planned, Keys, Severities, Single
  <2> QED
    BY <2>1, <2>2 DEF DmarcFindings, When
<1> QED
  BY <1>1, <1>2, <1>3, <1>4 DEF EmailFindings

-----------------------------------------------------------------------------
(* Findings that several tools may see *)

\* The ports and the answers to HTTP requests.
LEMMA HttpKeys ==
    ASSUME NEW in
    PROVE  \A f \in UNION {PortFindings(in), HeaderFindings(in), BannerFindings(in),
                          PoweredByFindings(in), CookieFindings(in), HttpErrorFindings(in)} : Planned(f)
<1>1. ASSUME NEW f \in PortFindings(in) PROVE Planned(f)
  BY EntryKeys DEF PortFindings, When, Planned, Keys, Severities, Single, Corroborated, PortFinding
<1>2. ASSUME NEW f \in HeaderFindings(in) PROVE Planned(f)
  BY EntryKeys DEF HeaderFindings, When, Planned, Keys, Severities, Single, Corroborated
<1>3. ASSUME NEW f \in BannerFindings(in) PROVE Planned(f)
  BY EntryKeys DEF BannerFindings, When, Planned, Keys, Severities, Single, Corroborated
<1>4. ASSUME NEW f \in PoweredByFindings(in) PROVE Planned(f)
  BY EntryKeys DEF PoweredByFindings, When, Planned, Keys, Severities, Single, Corroborated
<1>5. ASSUME NEW f \in CookieFindings(in) PROVE Planned(f)
  <2>1. f = Single("misconfiguration", "medium", "insecure cookie", "", "url", "insecure-cookie", "httpx")
    BY DEF CookieFindings, When
  <2> QED
    BY <2>1, EntryKeys DEF Planned, Keys, Severities, Single
<1>6. ASSUME NEW f \in HttpErrorFindings(in) PROVE Planned(f)
  <2>1. f = Single("informational", "informational", "HTTP check failed", "", "target", "", "http")
    BY DEF HttpErrorFindings, When
  <2> QED
    BY <2>1 DEF Planned, Severities, Single
<1> QED
  BY <1>1, <1>2, <1>3, <1>4, <1>5, <1>6

\* The certificate and the protocols.
LEMMA TlsKeys ==
    ASSUME NEW in
    PROVE  \A f \in UNION {TlsErrorFindings(in), ExpiredFindings(in), ExpiringFindings(in),
                          LegacyFindings(in), SelfSignedFindings(in), WeaknessFindings(in)} : Planned(f)
<1>1. ASSUME NEW f \in TlsErrorFindings(in) PROVE Planned(f)
  <2>1. f = Single("informational", "informational", "TLS check failed", "", "tls", "", "tls")
    BY DEF TlsErrorFindings, When
  <2> QED
    BY <2>1 DEF Planned, Severities, Single
<1>2. ASSUME NEW f \in ExpiredFindings(in) PROVE Planned(f)
  BY EntryKeys DEF ExpiredFindings, When, Planned, Keys, Severities, Single, Corroborated
<1>3. ASSUME NEW f \in ExpiringFindings(in) PROVE Planned(f)
  BY EntryKeys DEF ExpiringFindings, When, Planned, Keys, Severities, Single, Corroborated
<1>4. ASSUME NEW f \in LegacyFindings(in) PROVE Planned(f)
  BY EntryKeys DEF LegacyFindings, When, Planned, Keys, Severities, Single, Corroborated
<1>5. ASSUME NEW f \in SelfSignedFindings(in) PROVE Planned(f)
  BY EntryKeys DEF SelfSignedFindings, When, Planned, Keys, Severities, Single, Corroborated
<1>6. ASSUME NEW f \in WeaknessFindings(in) PROVE Planned(f)
  BY EntryKeys DEF WeaknessFindings, WeaknessSeverity, When, Planned, Keys, Severities, Single, Corroborated
<1> QED
  BY <1>1, <1>2, <1>3, <1>4, <1>5, <1>6

\* The software that runs there, and its weaknesses.
LEMMA SoftwareKeys ==
    ASSUME NEW in
    PROVE  \A f \in UNION {TechnologyFindings(in), PhpFindings(in), WordPressFindings(in),
                          VulnerabilityFindings(in), CveFindings(in)} : Planned(f)
<1>1. ASSUME NEW f \in TechnologyFindings(in) PROVE Planned(f)
  BY EntryKeys DEF TechnologyFindings, When, Planned, Keys, Severities, Single, Corroborated
<1>2. ASSUME NEW f \in PhpFindings(in) PROVE Planned(f)
  BY EntryKeys DEF PhpFindings, When, Planned, Keys, Severities, Single, Corroborated
<1>3. ASSUME NEW f \in WordPressFindings(in) PROVE Planned(f)
  BY EntryKeys DEF WordPressFindings, When, Planned, Keys, Severities, Single, Corroborated
<1>4. ASSUME NEW f \in VulnerabilityFindings(in) PROVE Planned(f)
  <2>1. \A v : Planned(Single("vulnerability", NucleiSeverity(v), "nuclei template", v, "matched", "vuln-generic",
                             "nuclei"))
    BY EntryKeys DEF Planned, Keys, Severities, Single, NucleiSeverity
  <2>2. CASE f \in {Corroborated(Single("vulnerability", "medium", "vulnerable component", v, "target", "vuln-generic", "retire"),
                                When(Saw(in, "osv", v), {"osv"}), {}) : v \in in.saw["retire"]}
    BY <2>2, EntryKeys DEF Planned, Keys, Severities, Single, Corroborated
  <2>3. CASE f \in {Single("vulnerability", NucleiSeverity(v), "nuclei template", v, "matched", "vuln-generic", "nuclei") :
                      v \in in.saw["nuclei"]}
    BY <2>1, <2>3
  <2> QED
    BY <2>2, <2>3 DEF VulnerabilityFindings
<1>5. ASSUME NEW f \in CveFindings(in) PROVE Planned(f)
  BY EntryKeys DEF CveFindings, When, Planned, Keys, Severities, Single, Corroborated
<1> QED
  BY <1>1, <1>2, <1>3, <1>4, <1>5

\* The paths found and the paths archived.
LEMMA PathKeys ==
    ASSUME NEW in
    PROVE  \A f \in UNION {PathFindings(in),
                          ArchivedFindings(in)} : Planned(f)
<1>1. ASSUME NEW f \in PathFindings(in) PROVE Planned(f)
  BY EntryKeys DEF PathFindings, When, Planned, Keys, Severities, Single, Corroborated
<1>2. ASSUME NEW f \in ArchivedFindings(in) PROVE Planned(f)
  <2>1. \A arg : Planned(Single("exposure", "critical", "archived credentials", arg, "host", "leaked-url-credentials",
                               "waybackurls"))
    BY EntryKeys DEF Planned, Keys, Severities, Single
  <2>2. \A severity \in {"high", "medium", "low"} : \A arg, agree :
          Planned(Corroborated(Single("exposure", severity, "archived sensitive paths", arg, "host", "archived-exposure",
                                      "waybackurls"), agree, {}))
    BY EntryKeys DEF Planned, Keys, Severities, Single, Corroborated
  <2> QED
    BY <2>1, <2>2 DEF ArchivedFindings, When
<1> QED
  BY <1>1, <1>2

-----------------------------------------------------------------------------
(* The roadmap *)

\* Every finding above informational has an entry in the catalogue.
LEMMA FindingsPlanned ==
    ASSUME NEW in
    PROVE  \A f \in BuildFindings(in) : Planned(f)
BY PostureKeys, WebTrustKeys, DomainKeys, EmailKeys, HttpKeys, TlsKeys, SoftwareKeys, PathKeys DEF BuildFindings

ReportPlanned == \A f \in report.findings : Planned(f)

\* A scan leaves a report of planned findings.
LEMMA ReportStep == ReportPlanned /\ [Next]_vars => ReportPlanned'
<1> SUFFICES ASSUME ReportPlanned, [Next]_vars PROVE ReportPlanned'
  OBVIOUS
<1>1. CASE Next
  <2>1. PICK in : \E findings \in {BuildFindings(in)} : \E modules :
          report' = [in |-> in, findings |-> findings, modules |-> modules]
    BY <1>1 DEF Next, Scan
  <2>2. report'.findings = BuildFindings(in)
    BY <2>1
  <2> QED
    BY <2>2, FindingsPlanned DEF ReportPlanned
<1>2. CASE UNCHANGED vars
  BY <1>2 DEF vars, ReportPlanned
<1> QED
  BY <1>1, <1>2

\* The item of a finding is in the window of its severity and in no other.
LEMMA WindowOf ==
    ASSUME NEW items, NEW i \in items, i.finding.severity \in Severities \ {"informational"}
    PROVE  \E w \in 1..4 :
              /\ \A v \in 1..4 : i \in RoadmapFor(items)[v] <=> v = w
              /\ i.finding.severity \in {"critical", "high"} => w \in 1..2
<1>1. CASE i.finding.severity \in {"critical", "high"} /\ i.effort = "S"
  BY <1>1 DEF RoadmapFor
<1>2. CASE i.finding.severity \in {"critical", "high"} /\ i.effort # "S"
  BY <1>2 DEF RoadmapFor
<1>3. CASE i.finding.severity = "medium"
  BY <1>3 DEF RoadmapFor
<1>4. CASE i.finding.severity = "low"
  BY <1>4 DEF RoadmapFor
<1> QED
  BY <1>1, <1>2, <1>3, <1>4 DEF Severities

\* With the playbook module every finding above informational stands in one window
\* of the roadmap, whatever the tools observed and whichever of them failed.
THEOREM RoadmapIsComplete == Spec => []RoadmapComplete
<1>1. Init => ReportPlanned
  BY DEF Init, NoReport, ReportPlanned
<1>2. ReportPlanned => RoadmapComplete
  <2> SUFFICES ASSUME ReportPlanned, PlaybookEnabled(report.modules),
                      NEW f \in report.findings, f.severity # "informational"
               PROVE  LET windows == PlaybookSection(report.in, report.findings, report.modules)
                          in(w) == \E i \in windows[w] : i.finding = f
                      IN  /\ Cardinality({w \in 1..4 : in(w)}) = 1
                          /\ f.severity \in {"critical", "high"} => in(1) \/ in(2)
    BY DEF RoadmapComplete
  <2> DEFINE items == CollectPlaybook(report.in, report.findings)
             item == [finding |-> f, effort |-> GetVariant(f.key, DetectWebStack(report.in))]
             windows == RoadmapFor(items)
             holds(n) == \E i \in windows[n] : i.finding = f
  <2>1. f.severity \in Severities \ {"informational"} /\ f.key \in DOMAIN Playbooks
    BY DEF ReportPlanned, Planned
  <2>2. item \in items /\ \A i \in items : i.finding = f => i = item
    BY <2>1 DEF CollectPlaybook
  <2>3. \A w \in 1..4 : windows[w] \subseteq items
    BY DEF RoadmapFor
  <2>4. \A w \in 1..4 : holds(w) <=> item \in windows[w]
    <3> HIDE DEF items, windows
    <3> QED
      BY <2>2, <2>3
  <2>5. \E w \in 1..4 : /\ \A v \in 1..4 : item \in windows[v] <=> v = w
                        /\ f.severity \in {"critical", "high"} => w \in 1..2
    BY <2>1, <2>2, WindowOf
  <2> HIDE DEF item, windows
  <2>w. PICK w \in 1..4 : /\ \A v \in 1..4 : (item \in windows[v]) <=> (v = w)
                          /\ f.severity \in {"critical", "high"} => w \in 1..2
    BY <2>5
  <2>6. \A v \in 1..4 : holds(v) <=> v = w
    <3> TAKE v \in 1..4
    <3>1. holds(v) <=> item \in windows[v]
      BY <2>4
    <3>2. item \in windows[v] <=> v = w
      BY <2>w
    <3> QED
      BY <3>1, <3>2
  <2>7. Cardinality({v \in 1..4 : holds(v)}) = 1
    <3>1. {v \in 1..4 : holds(v)} = {w}
      <4> HIDE DEF holds
      <4> QED
        BY <2>6
    <3> QED
      BY <3>1, FS_Singleton
  <2>8. f.severity \in {"critical", "high"} => holds(1) \/ holds(2)
    <3>1. f.severity \in {"critical", "high"} => w = 1 \/ w = 2
      BY <2>w
    <3> HIDE DEF holds
    <3> QED
      BY <2>6, <3>1
  <2>9. PlaybookSection(report.in, report.findings, report.modules) = windows
    BY DEF PlaybookSection, windows
  <2> QED
    BY <2>7, <2>8, <2>9
<1> QED
  BY <1>1, <1>2, ReportStep, PTL DEF Spec


-----------------------------------------------------------------------------
(* What the tools deliver *)

\* The tools whose results may carry an error.
Failing == {"http", "httpx", "tls", "testssl", "rdap", "crawl-rules", "security-txt", "page-recon", "dnssec",
            "ip-intel"}

\* Facts and errors come with a result.
Delivers(t, r) ==
    /\ r.err => r.got /\ t \in Failing
    /\ r.saw # {} => r.got

\* Every kind of result there is keeps to that.
LEMMA ResultsDeliver ==
    /\ \A t : Delivers(t, Nothing)
    /\ \A t, saw : Delivers(t, Data(saw))
    /\ \A t, saw : t \in Failing => Delivers(t, Error(saw))
    /\ \A t, ok, saw : Delivers(t, Result(TRUE, FALSE, ok, saw))
    /\ \A t, ok, saw : t \in Failing => Delivers(t, Result(TRUE, TRUE, ok, saw))
    /\ \A t, ok : Delivers(t, Result(FALSE, FALSE, ok, {}))
BY DEF Delivers, Nothing, Data, Error, Result

\* So do the parsers and checks that tell one failure from another.
LEMMA ParsersDeliver ==
    \A facts, how :
        /\ Delivers("httpx", ParseHttpxJsonl(facts, how))
        /\ Delivers("testssl", ParseTestsslJson(facts, how))
        /\ Delivers("crawl-rules", CrawlRules(facts, how))
        /\ Delivers("security-txt", SecurityTxtLookup(facts, how))
<1> USE DEF Delivers, Nothing, Data, Error, Result, Failing
<1>1. \A facts, how : Delivers("httpx", ParseHttpxJsonl(facts, how))
  BY DEF ParseHttpxJsonl
<1>2. \A facts, how : Delivers("testssl", ParseTestsslJson(facts, how))
  BY DEF ParseTestsslJson
<1>3. \A facts, how : Delivers("crawl-rules", CrawlRules(facts, how))
  BY DEF CrawlRules
<1>4. \A facts, how : Delivers("security-txt", SecurityTxtLookup(facts, how))
  BY DEF SecurityTxtLookup
<1> QED
  BY <1>1, <1>2, <1>3, <1>4

\* So does every step of every scan, whatever fails.
LEMMA CheckDelivers ==
    ASSUME NEW in, NEW t \in Tools, NEW plan, NEW at, NEW trouble
    PROVE  Delivers(t, Check(in, t, plan, at, trouble))
<1> DEFINE facts == FactsOf(at, t)
           how == IF trouble.tool = t THEN trouble.how ELSE ""
           r == Check(in, t, plan, at, trouble)
<1> USE ResultsDeliver
<1>1. CASE how = "dies" /\ t # "testssl"
  BY <1>1 DEF Check
<1>2. CASE ~(how = "dies" /\ t # "testssl")
  <2>1. CASE t = "nmap"
    BY <1>2, <2>1 DEF Check, NmapStep, Failing
  <2>2. CASE t = "whatweb"
    BY <1>2, <2>2 DEF Check, WhatwebStep, Failing
  <2>3. CASE t = "http"
    BY <1>2, <2>3 DEF Check, HttpCheck, Failing
  <2>4. CASE t = "tls"
    BY <1>2, <2>4 DEF Check, TlsCheck, Failing
  <2>5. CASE t = "wpscan"
    BY <1>2, <2>5 DEF Check, ParseWpscanJson, Failing
  <2>6. CASE t = "subfinder"
    BY <1>2, <2>6 DEF Check, LineStep, Failing
  <2>7. CASE t = "dnsx"
    BY <1>2, <2>7 DEF Check, DnsRecordLookup, Failing
  <2>8. CASE t = "rdap"
    BY <1>2, <2>8 DEF Check, RdapLookup, Failing
  <2>9. CASE t = "email"
    BY <1>2, <2>9 DEF Check, EmailPosture, Failing
  <2>10. CASE t = "nuclei"
    BY <1>2, <2>10 DEF Check, NucleiStep, Failing
  <2>11. CASE t = "retire"
    BY <1>2, <2>11 DEF Check, RetireStep, Failing
  <2>12. CASE t = "httpx"
    BY <1>2, <2>12, ParsersDeliver DEF Check
  <2>13. CASE t = "testssl"
    BY <1>2, <2>13, ParsersDeliver DEF Check
  <2>14. CASE t = "feroxbuster"
    BY <1>2, <2>14 DEF Check, LineStep, Failing
  <2>15. CASE t = "waybackurls"
    BY <1>2, <2>15 DEF Check, LineStep, Failing
  <2>16. CASE t = "osv"
    BY <1>2, <2>16 DEF Check, OsvLookup, Failing
  <2>17. CASE t = "crawl-rules"
    BY <1>2, <2>17, ParsersDeliver DEF Check
  <2>18. CASE t = "security-txt"
    BY <1>2, <2>18, ParsersDeliver DEF Check
  <2>19. CASE t = "page-recon"
    BY <1>2, <2>19 DEF Check, PageRecon, Failing
  <2>20. CASE t = "header-posture"
    BY <1>2, <2>20 DEF Check, HeaderPosture, Failing
  <2>21. CASE t = "dns-hardening"
    BY <1>2, <2>21 DEF Check, DnsHardeningLookup, Failing
  <2>22. CASE t = "dnssec"
    BY <1>2, <2>22 DEF Check, DnssecLookup, Failing
  <2>23. CASE t = "ip-intel"
    BY <1>2, <2>23 DEF Check, IpIntelLookup, Failing
  <2> QED
    BY <2>1, <2>2, <2>3, <2>4, <2>5, <2>6, <2>7, <2>8, <2>9, <2>10, <2>11, <2>12, <2>13, <2>14, <2>15, <2>16, <2>17,
       <2>18, <2>19, <2>20, <2>21, <2>22, <2>23 DEF Tools
<1> QED
  BY <1>1, <1>2

\* What buildFindings is given is a record of these parts, and what a tool saw
\* or failed with came with its result.
Sights == Tools \cup {"live"}

Delivered(in) ==
    \E ok, got, err, ran, saw :
        /\ in = Input(ok, got, err, ran, saw)
        /\ saw = [t \in Sights |-> saw[t]]
        /\ err \subseteq got \cap Failing
        /\ \A t \in Tools : saw[t] # {} => t \in got

\* The parts of such a record.
LEMMA InputParts ==
    \A ok, got, err, ran, saw :
        /\ Input(ok, got, err, ran, saw).ok = ok
        /\ Input(ok, got, err, ran, saw).got = got
        /\ Input(ok, got, err, ran, saw).err = err
        /\ Input(ok, got, err, ran, saw).ran = ran
        /\ Input(ok, got, err, ran, saw).saw = saw
BY DEF Input

\* An input made of such parts is delivered.
LEMMA DeliveredIf ==
    \A ok, got, err, ran, saw :
        /\ saw = [t \in Sights |-> saw[t]]
        /\ err \subseteq got \cap Failing
        /\ \A t \in Tools : saw[t] # {} => t \in got
        => Delivered(Input(ok, got, err, ran, saw))
BY Zenon DEF Delivered

\* A step that runs on a delivered input leaves one.
LEMMA StepDelivers ==
    ASSUME NEW in, Delivered(in), NEW t \in Tools, NEW plan, NEW at, NEW trouble
    PROVE  Delivered(Step(in, t, plan, at, trouble))
<1>1. PICK ok, got, err, ran, saw :
        /\ in = Input(ok, got, err, ran, saw)
        /\ saw = [u \in Sights |-> saw[u]]
        /\ err \subseteq got \cap Failing
        /\ \A u \in Tools : saw[u] # {} => u \in got
  BY DEF Delivered
<1> DEFINE r == Check(in, t, plan, at, trouble)
           ok2 == IF r.ok THEN in.ok \cup {t} ELSE in.ok
           got2 == IF r.got THEN in.got \cup {t} ELSE in.got
           err2 == IF r.err THEN in.err \cup {t} ELSE in.err
           saw1 == [in.saw EXCEPT ![t] = r.saw]
           saw2 == IF t = "waybackurls" THEN [saw1 EXCEPT !["live"] = VerifyLive(r.saw, at, trouble)] ELSE saw1
<1>2. Delivers(t, r)
  BY CheckDelivers
<1>3. Step(in, t, plan, at, trouble) = Input(ok2, got2, err2, in.ran, saw2)
  BY DEF Step
<1>4. /\ in.ok = ok /\ in.got = got /\ in.err = err /\ in.saw = saw
  BY <1>1, InputParts
<1> HIDE DEF r
<1>5. "live" \notin Tools
  BY DEF Tools
<1>6. saw1 = [u \in Sights |-> saw1[u]] /\ \A u \in Sights : saw1[u] = IF u = t THEN r.saw ELSE saw[u]
  BY <1>1, <1>4 DEF Sights
<1> HIDE DEF saw1
<1>7. saw2 = [u \in Sights |-> saw2[u]] /\ \A u \in Tools : saw2[u] = IF u = t THEN r.saw ELSE saw[u]
  BY <1>5, <1>6 DEF Sights
<1> HIDE DEF saw2
<1>8. err2 \subseteq got2 \cap Failing
  BY <1>1, <1>2, <1>4 DEF Delivers
<1>9. \A u \in Tools : saw2[u] # {} => u \in got2
  BY <1>1, <1>2, <1>4, <1>7 DEF Delivers
<1> HIDE DEF ok2, got2, err2
<1> HIDE DEF Delivered
<1> QED
  BY <1>3, <1>7, <1>8, <1>9, DeliveredIf

\* So does the conditional WPScan.
LEMMA WpscanDelivers ==
    ASSUME NEW in, Delivered(in), NEW plan, NEW at, NEW trouble
    PROVE  Delivered(RunConditionalWpscan(in, plan, at, trouble))
<1> DEFINE after == Step(in, "wpscan", plan, at, trouble)
           ok2 == IF "wpscan" \in after.got THEN after.ok ELSE after.ok \ {"wpscan"}
           last == Input(ok2, after.got, after.err, TRUE, after.saw)
<1>1. Delivered(after)
  BY StepDelivers DEF Tools
<1>2. RunConditionalWpscan(in, plan, at, trouble) \in {in, last}
  BY DEF RunConditionalWpscan
<1> HIDE DEF after
<1>3. PICK ok, got, err, ran, saw :
        /\ after = Input(ok, got, err, ran, saw)
        /\ saw = [u \in Sights |-> saw[u]]
        /\ err \subseteq got \cap Failing
        /\ \A u \in Tools : saw[u] # {} => u \in got
  BY <1>1 DEF Delivered
<1> HIDE DEF ok2
<1>4. after.got = got /\ after.err = err /\ after.saw = saw
  BY <1>3, InputParts
<1>5. Delivered(last)
  BY <1>3, <1>4, DeliveredIf
<1> QED
  BY <1>2, <1>5

-----------------------------------------------------------------------------
(* The steps of a scan *)

\* The function by which FlattenSeq joins sequences.
JoinedBy(g, seqs, n) == g = [i \in 1..n |-> IF i = 1 THEN seqs[i] ELSE g[i - 1] \o seqs[i]]

\* There is such a function for every length.
LEMMA JoinedExists ==
    ASSUME NEW seqs
    PROVE  \A n \in Nat : \E g : JoinedBy(g, seqs, n)
<1> DEFINE T == {n \in Nat : \E g : JoinedBy(g, seqs, n)}
<1>1. 0 \in T
  <2> DEFINE g == [i \in 1..0 |-> <<>>]
  <2>1. JoinedBy(g, seqs, 0)
    BY DEF JoinedBy
  <2> QED
    BY <2>1
<1>2. \A n \in Nat : n \in T => n + 1 \in T
  <2> SUFFICES ASSUME NEW n \in Nat, NEW g, JoinedBy(g, seqs, n)
               PROVE  \E h : JoinedBy(h, seqs, n + 1)
    OBVIOUS
  <2> DEFINE last == IF n = 0 THEN seqs[1] ELSE g[n] \o seqs[n + 1]
             h == [i \in 1..(n + 1) |-> IF i = n + 1 THEN last ELSE g[i]]
  <2>1. \A i \in 1..n : g[i] = IF i = 1 THEN seqs[i] ELSE g[i - 1] \o seqs[i]
    BY DEF JoinedBy
  <2>2. \A i \in 1..(n + 1) : h[i] = IF i = 1 THEN seqs[i] ELSE h[i - 1] \o seqs[i]
    <3> SUFFICES ASSUME NEW i \in 1..(n + 1)
                 PROVE  h[i] = IF i = 1 THEN seqs[i] ELSE h[i - 1] \o seqs[i]
      OBVIOUS
    <3>1. CASE i = n + 1 /\ i = 1
      BY <3>1
    <3>2. CASE i = n + 1 /\ i # 1
      <4>1. n \in 1..(n + 1) /\ n # n + 1 /\ i - 1 = n /\ n # 0
        BY <3>2
      <4>2. h[i - 1] = g[n] /\ h[i] = g[n] \o seqs[i]
        BY <3>2, <4>1
      <4> HIDE DEF h
      <4> QED
        BY <3>2, <4>2
    <3>3. CASE i # n + 1 /\ i # 1
      <4>1. i \in 1..n /\ i - 1 \in 1..(n + 1) /\ i - 1 # n + 1
        BY <3>3
      <4>2. h[i] = g[i] /\ h[i - 1] = g[i - 1]
        BY <3>3, <4>1
      <4> HIDE DEF h
      <4> QED
        BY <2>1, <3>3, <4>1, <4>2
    <3>4. CASE i # n + 1 /\ i = 1
      <4>1. i \in 1..n /\ h[i] = g[i]
        BY <3>4
      <4> HIDE DEF h
      <4> QED
        BY <2>1, <3>4, <4>1
    <3> QED
      BY <3>1, <3>2, <3>3, <3>4
  <2>3. h = [i \in 1..(n + 1) |-> h[i]]
    OBVIOUS
  <2> HIDE DEF h
  <2>4. JoinedBy(h, seqs, n + 1)
    BY <2>2, <2>3 DEF JoinedBy
  <2> QED
    BY <2>4
<1> HIDE DEF T
<1>3. \A n \in Nat : n \in T
  BY <1>1, <1>2, SetInduction
<1> QED
  BY <1>3 DEF T

\* Sequences of a set that is closed under concatenation are joined to one of it.
LEMMA FlattenClosed ==
    ASSUME NEW C, <<>> \in C, \A s, t \in C : s \o t \in C, NEW n \in Nat, NEW seqs \in [1..n -> C]
    PROVE  FlattenSeq(seqs) \in C
<1>1. Len(seqs) = n /\ seqs \in Seq(C)
  OBVIOUS
<1>2. CASE n = 0
  <2>1. seqs = <<>>
    BY <1>1, <1>2, EmptySeq
  <2> QED
    BY <1>1, <1>2, <2>1 DEF FlattenSeq
<1>3. CASE n # 0
  <2> DEFINE c == CHOOSE g : JoinedBy(g, seqs, n)
  <2>1. JoinedBy(c, seqs, n)
    BY JoinedExists
  <2>2. FlattenSeq(seqs) = c[n]
    BY <1>1, <1>3 DEF FlattenSeq, JoinedBy
  <2> HIDE DEF c
  <2>3. \A i \in 1..n : c[i] = IF i = 1 THEN seqs[i] ELSE c[i - 1] \o seqs[i]
    BY <2>1 DEF JoinedBy
  <2> DEFINE T == {i \in Nat : i \in 1..n => c[i] \in C}
  <2>4. 0 \in T
    OBVIOUS
  <2>5. \A i \in Nat : i \in T => i + 1 \in T
    <3> SUFFICES ASSUME NEW i \in Nat, i \in T, i + 1 \in 1..n
                 PROVE  c[i + 1] \in C
      OBVIOUS
    <3>1. seqs[i + 1] \in C
      OBVIOUS
    <3>2. CASE i = 0
      BY <2>3, <3>1, <3>2
    <3>3. CASE i # 0
      <4>1. i \in 1..n /\ c[i] \in C /\ i + 1 # 1 /\ (i + 1) - 1 = i
        BY <3>3
      <4>2. c[i + 1] = c[i] \o seqs[i + 1]
        BY <2>3, <4>1
      <4> QED
        BY <3>1, <4>1, <4>2
    <3> QED
      BY <3>2, <3>3
  <2> HIDE DEF T
  <2>6. n \in T
    BY <2>4, <2>5, SetInduction
  <2> QED
    BY <1>3, <2>2, <2>6 DEF T
<1> QED
  BY <1>2, <1>3

\* A module adds steps of tools.
LEMMA ModuleToolsType ==
    /\ DOMAIN ModuleTools = {"asset-discovery", "vuln-scan", "tls-hardening", "content-discovery", "cve-context",
                             "remediation-playbook", "web-trust", "domain-hardening", "infra-intel"}
    /\ \A id \in DOMAIN ModuleTools : ModuleTools[id] \in Seq(Tools)
<1>1. /\ <<"subfinder", "dnsx", "rdap", "email">> \in Seq(Tools)
      /\ <<"nuclei", "retire", "httpx">> \in Seq(Tools)
      /\ <<"testssl">> \in Seq(Tools)
      /\ <<"feroxbuster", "waybackurls">> \in Seq(Tools)
      /\ <<"osv">> \in Seq(Tools)
      /\ <<>> \in Seq(Tools)
      /\ <<"crawl-rules", "security-txt", "page-recon", "header-posture">> \in Seq(Tools)
      /\ <<"dns-hardening", "dnssec">> \in Seq(Tools)
      /\ <<"ip-intel">> \in Seq(Tools)
  BY DEF Tools
<1> QED
  BY <1>1 DEF ModuleTools

\* The steps of a plan are steps of tools.
LEMMA StepsType ==
    ASSUME NEW plan \in Plans \cup {FullPlan}
    PROVE  Steps(plan) \in Seq(Tools)
<1>1. ExpandProfile(plan) \in Seq(Tools)
  <2>1. <<"nmap", "whatweb", "http", "tls", "wpscan">> \in Seq(Tools)
    BY DEF Tools
  <2> QED
    BY <2>1, KeepElements DEF ExpandProfile
<1>2. ExpandModules(plan) \in Seq(Tools)
  <2>1. plan.modules \in Seq(DOMAIN ModuleTools)
    BY PlansKnown
  <2> DEFINE n == Len(plan.modules)
             seqs == [i \in 1..n |-> ModuleTools[plan.modules[i]]]
  <2>2. n \in Nat /\ \A i \in 1..n : plan.modules[i] \in DOMAIN ModuleTools
    BY <2>1, LenProperties, ElementOfSeq
  <2> HIDE DEF n
  <2>3. seqs \in [1..n -> Seq(Tools)]
    BY <2>2, ModuleToolsType
  <2>4. ExpandModules(plan) = FlattenSeq(seqs)
    BY DEF ExpandModules, n
  <2> HIDE DEF seqs
  <2> QED
    <3> DEFINE C == Seq(Tools)
    <3>1. <<>> \in C /\ \A s, t \in C : s \o t \in C
      BY EmptySeq, ConcatProperties
    <3> HIDE DEF C
    <3>2. seqs \in [1..n -> C]
      BY <2>3 DEF C
    <3>3. FlattenSeq(seqs) \in C
      BY <2>2, <3>1, <3>2, FlattenClosed
    <3> QED
      BY <2>4, <3>3 DEF C
<1> QED
  BY <1>1, <1>2 DEF Steps

\* The function by which RunSteps runs the first n steps.
RunBy(g, steps, plan, at, trouble, n) ==
    g = [i \in 0..n |-> IF i = 0 THEN NoReport.in ELSE Step(g[i - 1], steps[i], plan, at, trouble)]

\* There is such a function for every number of steps.
LEMMA RunExists ==
    ASSUME NEW steps, NEW plan, NEW at, NEW trouble
    PROVE  \A n \in Nat : \E g : RunBy(g, steps, plan, at, trouble, n)
<1> DEFINE T == {n \in Nat : \E g : RunBy(g, steps, plan, at, trouble, n)}
           next(in, i) == Step(in, steps[i], plan, at, trouble)
           first == NoReport.in
<1>0. \A g, n : RunBy(g, steps, plan, at, trouble, n) <=> g = [i \in 0..n |-> IF i = 0 THEN first ELSE next(g[i - 1], i)]
  BY DEF RunBy
<1> HIDE DEF next, first
<1>1. 0 \in T
  <2> DEFINE g == [i \in 0..0 |-> first]
  <2>1. g = [i \in 0..0 |-> IF i = 0 THEN first ELSE next(g[i - 1], i)]
    OBVIOUS
  <2> HIDE DEF g
  <2> QED
    BY <1>0, <2>1
<1>2. \A n \in Nat : n \in T => n + 1 \in T
  <2> SUFFICES ASSUME NEW n \in Nat, NEW g, RunBy(g, steps, plan, at, trouble, n)
               PROVE  \E h : RunBy(h, steps, plan, at, trouble, n + 1)
    OBVIOUS
  <2> DEFINE h == [i \in 0..(n + 1) |-> IF i = n + 1 THEN next(g[n], i) ELSE g[i]]
  <2>1. \A i \in 0..n : g[i] = IF i = 0 THEN first ELSE next(g[i - 1], i)
    BY <1>0
  <2>2. \A i \in 0..(n + 1) : h[i] = IF i = 0 THEN first ELSE next(h[i - 1], i)
    <3> SUFFICES ASSUME NEW i \in 0..(n + 1)
                 PROVE  h[i] = IF i = 0 THEN first ELSE next(h[i - 1], i)
      OBVIOUS
    <3>1. CASE i = n + 1
      <4>1. n \in 0..(n + 1) /\ n # n + 1 /\ i # 0 /\ i - 1 = n
        BY <3>1
      <4>2. h[i - 1] = g[n]
        BY <4>1
      <4> QED
        BY <3>1, <4>1, <4>2
    <3>2. CASE i = 0
      <4>1. i # n + 1 /\ i \in 0..n
        BY <3>2
      <4> QED
        BY <2>1, <3>2, <4>1
    <3>3. CASE i # 0 /\ i # n + 1
      <4>1. i \in 0..n /\ i - 1 \in 0..(n + 1) /\ i - 1 # n + 1
        BY <3>3
      <4>2. h[i] = g[i] /\ h[i - 1] = g[i - 1]
        BY <3>3, <4>1
      <4> HIDE DEF h
      <4> QED
        BY <2>1, <3>3, <4>1, <4>2
    <3> QED
      BY <3>1, <3>2, <3>3
  <2>3. h = [i \in 0..(n + 1) |-> h[i]]
    OBVIOUS
  <2> HIDE DEF h
  <2>4. h = [i \in 0..(n + 1) |-> IF i = 0 THEN first ELSE next(h[i - 1], i)]
    BY <2>2, <2>3
  <2> QED
    BY <1>0, <2>4
<1> HIDE DEF T
<1>3. \A n \in Nat : n \in T
  BY <1>1, <1>2, SetInduction
<1> QED
  BY <1>3 DEF T

\* Before the first step nothing is delivered.
LEMMA NothingDelivered == Delivered(NoReport.in)
<1> DEFINE saw == [t \in Sights |-> {}]
<1>1. NoReport.in = Input({}, {}, {}, FALSE, saw)
  BY DEF NoReport, Sights
<1>2. saw = [t \in Sights |-> saw[t]] /\ \A t \in Tools : saw[t] # {} => t \in {}
  BY DEF Sights
<1>3. {} \subseteq {} \cap Failing
  OBVIOUS
<1> HIDE DEF saw
<1>4. Delivered(Input({}, {}, {}, FALSE, saw))
  BY <1>2, <1>3, DeliveredIf
<1> QED
  BY <1>1, <1>4

\* What buildFindings is given of a scan is delivered.
LEMMA ObserveDelivers ==
    ASSUME NEW plan \in Plans \cup {FullPlan}, NEW at, NEW trouble
    PROVE  Delivered(Observe(plan, at, trouble))
<1>1. PICK n \in Nat : n = Len(Steps(plan)) /\ \A i \in 1..n : Steps(plan)[i] \in Tools
  BY StepsType, LenProperties, ElementOfSeq
<1> DEFINE c == CHOOSE g : RunBy(g, Steps(plan), plan, at, trouble, n)
<1>2. RunBy(c, Steps(plan), plan, at, trouble, n)
  BY RunExists
<1>3. RunSteps(plan, at, trouble) = c[n]
  BY <1>1 DEF RunSteps, RunBy
<1> HIDE DEF c
<1> DEFINE T == {i \in Nat : i <= n => Delivered(c[i])}
<1>4. 0 \in T
  <2>1. c[0] = NoReport.in
    BY <1>2 DEF RunBy
  <2> QED
    BY <2>1, NothingDelivered
<1>5. \A i \in Nat : i \in T => i + 1 \in T
  <2> SUFFICES ASSUME NEW i \in Nat, i \in T, i + 1 <= n
               PROVE  Delivered(c[i + 1])
    OBVIOUS
  <2>1. i <= n /\ i + 1 \in 0..n /\ i + 1 \in 1..n /\ i + 1 # 0 /\ (i + 1) - 1 = i
    OBVIOUS
  <2>2. c[i + 1] = Step(c[i], Steps(plan)[i + 1], plan, at, trouble)
    BY <1>2, <2>1 DEF RunBy
  <2>3. Delivered(c[i]) /\ Steps(plan)[i + 1] \in Tools
    BY <1>1, <2>1
  <2> QED
    BY <2>2, <2>3, StepDelivers
<1> HIDE DEF T
<1>6. n \in T
  BY <1>4, <1>5, SetInduction
<1>7. Delivered(RunSteps(plan, at, trouble))
  BY <1>3, <1>6 DEF T
<1> QED
  BY <1>7, WpscanDelivers DEF Observe

-----------------------------------------------------------------------------
(* What supports a finding is shown *)

\* The tools whose result has a section even when it says nothing.
Sectioned == {"http", "httpx", "tls", "testssl", "email", "rdap", "crawl-rules", "security-txt", "page-recon",
              "header-posture", "dns-hardening", "dnssec", "ip-intel"}

\* The tool has a section in both files, or is the feroxbuster of an archived path.
Evident(in, t) ==
    \/ t = "nmap"
    \/ t \in Sectioned /\ t \in in.got
    \/ t \in Listing \cup {"whatweb"} /\ in.saw[t] # {}
    \/ t = "wpscan" /\ Saw(in, "whatweb", "wordpress")
    \/ t = "feroxbuster" /\ in.saw[t] = {}

\* All that supports the finding is evident, and what disagrees has a note.
Supported(in, f) ==
    /\ \A t \in f.sources : Evident(in, t)
    /\ f.disagree \subseteq {"httpx", "nuclei", "testssl"}

\* A tool that saw something is evident, and so is one that answered.
LEMMA SeenEvident ==
    ASSUME NEW in, Delivered(in)
    PROVE  /\ \A t \in Tools \ {"wpscan"} : in.saw[t] # {} => Evident(in, t)
           /\ \A t \in Sectioned : t \in in.got => Evident(in, t)
<1>1. \A t \in Tools : in.saw[t] # {} => t \in in.got
  BY InputParts DEF Delivered
<1>2. Tools \ {"wpscan"} \subseteq {"nmap", "whatweb"} \cup Sectioned \cup Listing
  BY DEF Tools, Sectioned, Listing
<1> QED
  BY <1>1, <1>2 DEF Evident

\* A finding of one tool is supported when that tool is evident.
LEMMA SingleSupported ==
    ASSUME NEW in, NEW tool, Evident(in, tool)
    PROVE  \A category, severity, title, arg, at, key :
              Supported(in, Single(category, severity, title, arg, at, key, tool))
BY DEF Supported, Single

\* A tool that agrees or disagrees is added.
LEMMA CorroboratedSupported ==
    ASSUME NEW in, NEW tool, Evident(in, tool), NEW agree, \A t \in agree : Evident(in, t),
           NEW disagree \in SUBSET {"httpx", "nuclei", "testssl"}
    PROVE  \A category, severity, title, arg, at, key :
              Supported(in, Corroborated(Single(category, severity, title, arg, at, key, tool), agree, disagree))
<1> SUFFICES ASSUME NEW category, NEW severity, NEW title, NEW arg, NEW at, NEW key
             PROVE  Supported(in, Corroborated(Single(category, severity, title, arg, at, key, tool), agree, disagree))
  OBVIOUS
<1> DEFINE f == Corroborated(Single(category, severity, title, arg, at, key, tool), agree, disagree)
<1>1. f.sources = {tool} \cup agree /\ f.disagree = disagree
  BY DEF Corroborated, Single
<1> HIDE DEF f
<1>2. Supported(in, f)
  BY <1>1 DEF Supported
<1> QED
  BY <1>2 DEF f

\* A table has findings of facts that its tool saw.
LEMMA TableSupported ==
    ASSUME NEW in, Delivered(in), NEW tool \in Tools \ {"wpscan"}
    PROVE  \A rows : \A f \in ByTable(in, tool, rows) : Supported(in, f)
<1> SUFFICES ASSUME NEW rows, NEW f \in ByTable(in, tool, rows)
             PROVE  Supported(in, f)
  OBVIOUS
<1>1. PICK r \in {x \in rows : Saw(in, tool, x.fact)} :
        f = Single(r.category, r.severity, r.title, "", r.at, r.key, tool)
  BY Zenon DEF ByTable
<1>2. in.saw[tool] # {}
  BY DEF ByTable, Saw
<1>3. Evident(in, tool)
  BY <1>2, SeenEvident
<1> QED
  BY <1>1, <1>3, SingleSupported

\* The headers, the page, the rules for crawlers, the domain and the mail.
LEMMA TablesSupported ==
    ASSUME NEW in, Delivered(in)
    PROVE  \A f \in UNION {PostureFindings(in), PageFindings(in), RobotsFindings(in), SecurityTxtFindings(in),
                           DnsHardeningFindings(in), DnssecFindings(in), IpIntelFindings(in), SpfFindings(in),
                           StarttlsFindings(in), MailPolicyFindings(in)} : Supported(in, f)
<1>1. {"header-posture", "page-recon", "crawl-rules", "security-txt", "dns-hardening", "dnssec", "ip-intel", "email"}
         \subseteq Tools \ {"wpscan"}
  BY DEF Tools
<1>2. \A tool \in Tools \ {"wpscan"} : \A rows : \A f \in ByTable(in, tool, rows) : Supported(in, f)
  BY TableSupported
<1>3. ASSUME NEW f \in HstsFindings(in) PROVE Supported(in, f)
  BY <1>1, <1>2 DEF HstsFindings
<1>4. ASSUME NEW f \in CspFindings(in) PROVE Supported(in, f)
  BY <1>1, <1>2 DEF CspFindings
<1>5. ASSUME NEW f \in PostureCookieFindings(in) PROVE Supported(in, f)
  BY <1>1, <1>2 DEF PostureCookieFindings
<1>6. ASSUME NEW f \in PageFindings(in) PROVE Supported(in, f)
  BY <1>1, <1>2 DEF PageFindings
<1>7. ASSUME NEW f \in RobotsFindings(in) PROVE Supported(in, f)
  BY <1>1, <1>2 DEF RobotsFindings
<1>8. ASSUME NEW f \in SecurityTxtFindings(in) PROVE Supported(in, f)
  BY <1>1, <1>2 DEF SecurityTxtFindings
<1>9. ASSUME NEW f \in DnsHardeningFindings(in) PROVE Supported(in, f)
  BY <1>1, <1>2 DEF DnsHardeningFindings
<1>10. ASSUME NEW f \in DnssecFindings(in) PROVE Supported(in, f)
  BY <1>1, <1>2 DEF DnssecFindings
<1>11. ASSUME NEW f \in IpIntelFindings(in) PROVE Supported(in, f)
  BY <1>1, <1>2 DEF IpIntelFindings
<1>12. ASSUME NEW f \in SpfFindings(in) PROVE Supported(in, f)
  BY <1>1, <1>2 DEF SpfFindings
<1>13. ASSUME NEW f \in StarttlsFindings(in) PROVE Supported(in, f)
  BY <1>1, <1>2 DEF StarttlsFindings
<1>14. ASSUME NEW f \in MailPolicyFindings(in) PROVE Supported(in, f)
  BY <1>1, <1>2 DEF MailPolicyFindings
<1> QED
  BY <1>3, <1>4, <1>5, <1>6, <1>7, <1>8, <1>9, <1>10, <1>11, <1>12, <1>13, <1>14 DEF PostureFindings


\* What a delivered input says of its parts.
LEMMA DeliveredParts ==
    ASSUME NEW in, Delivered(in)
    PROVE  /\ in.err \subseteq in.got \cap Failing
           /\ \A t \in Tools : in.saw[t] # {} => t \in in.got
BY InputParts DEF Delivered

\* The ports and the answers to HTTP requests.
LEMMA HttpSupported ==
    ASSUME NEW in, Delivered(in)
    PROVE  \A f \in UNION {PortFindings(in), HeaderFindings(in), BannerFindings(in), PoweredByFindings(in),
                           CookieFindings(in), HttpErrorFindings(in)} : Supported(in, f)
<1>1. \A t \in {"http", "tls", "httpx"} : Answered(in, t) => Evident(in, t)
  BY SeenEvident DEF Answered, Sectioned
<1>2. Evident(in, "nmap")
  BY DEF Evident
<1>3. ASSUME NEW f \in PortFindings(in) PROVE Supported(in, f)
  <2>1. PICK p \in in.saw["nmap"] \cap Ports : f = PortFinding(in, p)
    BY DEF PortFindings
  <2> DEFINE agree == When(p = "80" /\ Answered(in, "http"), {"http"})
                      \cup When(p = "443" /\ Answered(in, "tls"), {"tls"})
                      \cup When(p \in {"80", "443"} /\ Answered(in, "httpx"), {"httpx"})
  <2>2. \A t \in agree : Evident(in, t)
    BY <1>1 DEF When
  <2>3. f = Corroborated(Single("exposure",
                    IF p \in DatabasePorts THEN "medium" ELSE IF p = "22" THEN "low" ELSE "informational",
                    "open port", p, "port",
                    IF p \in DatabasePorts THEN "open-db-port" ELSE IF p = "22" THEN "open-ssh" ELSE "open-port",
                    "nmap"), agree, {})
    BY <2>1 DEF PortFinding
  <2> HIDE DEF agree
  <2> QED
    BY <1>2, <2>2, <2>3, CorroboratedSupported
<1>4. ASSUME NEW f \in HeaderFindings(in) PROVE Supported(in, f)
  <2> DEFINE agrees == in.saw["http"] \cap Headers \subseteq in.saw["httpx"]
             agree == When(Answered(in, "httpx") /\ agrees, {"httpx"})
             disagree == When(Answered(in, "httpx") /\ ~agrees, {"httpx"})
  <2>1. /\ Answered(in, "http")
        /\ f = Corroborated(Single("misconfiguration", "low", "missing headers", "", "url", "missing-headers", "http"),
                            agree, disagree)
    BY DEF HeaderFindings, When
  <2>2. \A t \in agree : Evident(in, t)
    BY <1>1 DEF When
  <2>3. disagree \in SUBSET {"httpx", "nuclei", "testssl"}
    BY DEF When
  <2> HIDE DEF agree, disagree
  <2> QED
    BY <1>1, <2>1, <2>2, <2>3, CorroboratedSupported
<1>5. ASSUME NEW f \in BannerFindings(in) PROVE Supported(in, f)
  <2>1. PICK b \in When(Answered(in, "http"), in.saw["http"] \cap Banners) :
          f = Corroborated(Single("informational", "informational", "server banner", "", "url", "server-banner", "http"),
                  When(Answered(in, "httpx") /\ Saw(in, "httpx", b), {"httpx"}),
                  When(Answered(in, "httpx") /\ in.saw["httpx"] \cap Banners \notin {{}, {b}}, {"httpx"}))
    BY DEF BannerFindings
  <2> DEFINE agree == When(Answered(in, "httpx") /\ Saw(in, "httpx", b), {"httpx"})
             disagree == When(Answered(in, "httpx") /\ in.saw["httpx"] \cap Banners \notin {{}, {b}}, {"httpx"})
  <2>2. Answered(in, "http")
    BY <2>1 DEF When
  <2>3. \A t \in agree : Evident(in, t)
    BY <1>1 DEF When
  <2>4. disagree \in SUBSET {"httpx", "nuclei", "testssl"}
    BY DEF When
  <2>5. f = Corroborated(Single("informational", "informational", "server banner", "", "url", "server-banner", "http"),
                         agree, disagree)
    BY <2>1
  <2> HIDE DEF agree, disagree
  <2> QED
    BY <1>1, <2>2, <2>3, <2>4, <2>5, CorroboratedSupported
<1>6. ASSUME NEW f \in PoweredByFindings(in) PROVE Supported(in, f)
  <2> DEFINE tells == {"powered-by"} \cup PhpFacts
             agree == When(Answered(in, "httpx") /\ in.saw["httpx"] \cap tells # {}, {"httpx"})
  <2>1. /\ Answered(in, "http")
        /\ f = Corroborated(Single("informational", "informational", "powered by", "", "url", "powered-by", "http"),
                            agree, {})
    BY DEF PoweredByFindings, When
  <2>2. \A t \in agree : Evident(in, t)
    BY <1>1 DEF When
  <2> HIDE DEF agree
  <2> QED
    BY <1>1, <2>1, <2>2, CorroboratedSupported
<1>7. ASSUME NEW f \in CookieFindings(in) PROVE Supported(in, f)
  <2>1. /\ Answered(in, "httpx")
        /\ f = Single("misconfiguration", "medium", "insecure cookie", "", "url", "insecure-cookie", "httpx")
    BY DEF CookieFindings, When
  <2> QED
    BY <1>1, <2>1, SingleSupported
<1>8. ASSUME NEW f \in HttpErrorFindings(in) PROVE Supported(in, f)
  <2>1. /\ "http" \in in.err
        /\ f = Single("informational", "informational", "HTTP check failed", "", "target", "", "http")
    BY DEF HttpErrorFindings, When
  <2>2. Evident(in, "http")
    BY <2>1, DeliveredParts, SeenEvident DEF Sectioned
  <2> QED
    BY <2>1, <2>2, SingleSupported
<1> QED
  BY <1>3, <1>4, <1>5, <1>6, <1>7, <1>8

\* The certificate and the protocols.
LEMMA TlsSupported ==
    ASSUME NEW in, Delivered(in)
    PROVE  \A f \in UNION {TlsErrorFindings(in), ExpiredFindings(in), ExpiringFindings(in), LegacyFindings(in),
                           SelfSignedFindings(in), WeaknessFindings(in)} : Supported(in, f)
<1>1. \A t \in {"tls", "nuclei", "testssl"} : \A fact : Saw(in, t, fact) => Evident(in, t)
  BY SeenEvident DEF Saw, Tools
<1>2. Answered(in, "httpx") => Evident(in, "httpx")
  BY SeenEvident DEF Answered, Sectioned
<1>3. ASSUME NEW f \in TlsErrorFindings(in) PROVE Supported(in, f)
  <2>1. /\ "tls" \in in.err
        /\ f = Single("informational", "informational", "TLS check failed", "", "tls", "", "tls")
    BY DEF TlsErrorFindings, When
  <2>2. Evident(in, "tls")
    BY <2>1, DeliveredParts, SeenEvident DEF Sectioned
  <2> QED
    BY <2>1, <2>2, SingleSupported
<1>4. ASSUME NEW f \in ExpiredFindings(in) PROVE Supported(in, f)
  <2> DEFINE agree == {t \in {"nuclei", "testssl"} : Saw(in, t, "expired")}
             disagree == {t \in {"nuclei", "testssl"} : ~Saw(in, t, "expired") /\ t \in in.ok}
  <2>1. /\ Saw(in, "tls", "expired")
        /\ f = Corroborated(Single("misconfiguration", "high", "certificate expired", "", "tls", "cert-expired", "tls"), agree, disagree)
    BY DEF ExpiredFindings, When
  <2>2. \A t \in agree : Evident(in, t)
    BY <1>1, <1>2 DEF When
  <2>3. disagree \in SUBSET {"httpx", "nuclei", "testssl"}
    OBVIOUS
  <2> HIDE DEF agree, disagree
  <2> QED
    BY <1>1, <2>1, <2>2, <2>3, CorroboratedSupported
<1>5. ASSUME NEW f \in ExpiringFindings(in) PROVE Supported(in, f)
  <2> DEFINE agree == When(Answered(in, "httpx") /\ Saw(in, "httpx", "certificate date"), {"httpx"})
  <2>1. /\ Saw(in, "tls", "expiring")
        /\ f = Corroborated(Single("misconfiguration", "medium", "certificate expires soon", "", "tls", "cert-expiring", "tls"), agree, {})
    BY DEF ExpiringFindings, When
  <2>2. \A t \in agree : Evident(in, t)
    BY <1>1, <1>2 DEF When
  <2> HIDE DEF agree
  <2> QED
    BY <1>1, <2>1, <2>2, CorroboratedSupported
<1>6. ASSUME NEW f \in LegacyFindings(in) PROVE Supported(in, f)
  <2> DEFINE agree == {t \in {"nuclei", "testssl"} : Saw(in, t, "tls10")}
  <2>1. /\ Saw(in, "tls", "tls10")
        /\ f = Corroborated(Single("outdated-technology", "high", "outdated TLS", "", "tls", "tls-legacy", "tls"), agree, {})
    BY DEF LegacyFindings, When
  <2>2. \A t \in agree : Evident(in, t)
    BY <1>1, <1>2 DEF When
  <2> HIDE DEF agree
  <2> QED
    BY <1>1, <2>1, <2>2, CorroboratedSupported
<1>7. ASSUME NEW f \in SelfSignedFindings(in) PROVE Supported(in, f)
  <2> DEFINE agree == {t \in {"nuclei", "testssl"} : Saw(in, t, "self-signed")}
  <2>1. /\ Saw(in, "tls", "self-signed")
        /\ f = Corroborated(Single("informational", "low", "self-signed", "", "tls", "self-signed", "tls"), agree, {})
    BY DEF SelfSignedFindings, When
  <2>2. \A t \in agree : Evident(in, t)
    BY <1>1, <1>2 DEF When
  <2> HIDE DEF agree
  <2> QED
    BY <1>1, <2>1, <2>2, CorroboratedSupported
<1>8. ASSUME NEW f \in WeaknessFindings(in) PROVE Supported(in, f)
  <2>1. PICK w \in in.saw["testssl"] :
          f = Corroborated(Single("misconfiguration", WeaknessSeverity(w), "TLS weakness", w, "tls", "tls-legacy", "testssl"),
                           When(Saw(in, "nuclei", w), {"nuclei"}), {})
    BY DEF WeaknessFindings
  <2> DEFINE agree == When(Saw(in, "nuclei", w), {"nuclei"})
  <2>2. \A t \in agree : Evident(in, t)
    BY <1>1 DEF When
  <2>3. Evident(in, "testssl")
    BY <1>1 DEF Saw
  <2> HIDE DEF agree
  <2> QED
    BY <2>1, <2>2, <2>3, CorroboratedSupported DEF agree
<1> QED
  BY <1>3, <1>4, <1>5, <1>6, <1>7, <1>8

\* The software that runs there, and its weaknesses.
LEMMA SoftwareSupported ==
    ASSUME NEW in, Delivered(in)
    PROVE  \A f \in UNION {TechnologyFindings(in), PhpFindings(in), WordPressFindings(in), VulnerabilityFindings(in),
                           CveFindings(in)} : Supported(in, f)
<1>1. \A t \in Tools \ {"wpscan"} : in.saw[t] # {} => Evident(in, t)
  BY SeenEvident
<1>2. Answered(in, "httpx") => Evident(in, "httpx")
  BY SeenEvident DEF Answered, Sectioned
<1>t. {"whatweb", "http", "httpx", "nuclei", "retire", "osv"} \subseteq Tools \ {"wpscan"}
  BY DEF Tools
<1>3. ASSUME NEW f \in TechnologyFindings(in) PROVE Supported(in, f)
  <2> DEFINE agree == When(Answered(in, "httpx") /\ in.saw["whatweb"] \cap in.saw["httpx"] # {}, {"httpx"})
                      \cup When(in.saw["whatweb"] \cap in.saw["nmap"] # {}, {"nmap"})
  <2>1. /\ in.saw["whatweb"] # {}
        /\ f = Corroborated(Single("informational", "informational", "technologies", "", "target", "tech-versions",
                                   "whatweb"), agree, {})
    BY DEF TechnologyFindings, When
  <2>2. \A t \in agree : Evident(in, t)
    BY <1>2 DEF When, Evident
  <2> HIDE DEF agree
  <2> QED
    BY <1>1, <1>t, <2>1, <2>2, CorroboratedSupported
<1>4. ASSUME NEW f \in PhpFindings(in) PROVE Supported(in, f)
  <2> DEFINE seen(g) == Corroborated([g EXCEPT !.sources = PhpSources(in)], {}, {})
             old == Single("vulnerability", "critical", "PHP2Shell", PhpDetected(in), "target", "php2shell", "http")
             hidden == Single("vulnerability", "medium", "PHP version unknown", "", "target", "php2shell", "http")
  <2>1. f.sources = PhpSources(in) /\ f.disagree = {}
    <3>1. seen(old).sources = PhpSources(in) /\ seen(old).disagree = {}
      BY DEF Corroborated, Single
    <3>2. seen(hidden).sources = PhpSources(in) /\ seen(hidden).disagree = {}
      BY DEF Corroborated, Single
    <3>3. f = seen(IF EvaluatePhpAdvisory(Release(PhpDetected(in))) = "vulnerable" THEN old ELSE hidden)
      BY Zenon DEF PhpFindings, When
    <3> HIDE DEF seen, old, hidden
    <3> QED
      BY <3>1, <3>2, <3>3
  <2>2. \A t \in PhpSources(in) : Evident(in, t)
    BY <1>1, <1>t DEF PhpSources
  <2> QED
    BY <2>1, <2>2 DEF Supported
<1>5. ASSUME NEW f \in WordPressFindings(in) PROVE Supported(in, f)
  <2> DEFINE agree == When(in.ran /\ Answered(in, "wpscan"), {"wpscan"})
                      \cup When(Answered(in, "httpx") /\ Saw(in, "httpx", "wordpress"), {"httpx"})
  <2>1. /\ Saw(in, "whatweb", "wordpress")
        /\ f = Corroborated(Single("wordpress", "informational", "WordPress detected", "", "target", "wordpress",
                                   "whatweb"), agree, {})
    BY DEF WordPressFindings, When
  <2>2. \A t \in agree : Evident(in, t)
    BY <1>2, <2>1 DEF When, Evident
  <2>3. Evident(in, "whatweb")
    BY <1>1, <1>t, <2>1 DEF Saw
  <2> HIDE DEF agree
  <2> QED
    BY <2>1, <2>2, <2>3, CorroboratedSupported
<1>6. ASSUME NEW f \in VulnerabilityFindings(in) PROVE Supported(in, f)
  <2>1. CASE \E v \in in.saw["nuclei"] :
               f = Single("vulnerability", NucleiSeverity(v), "nuclei template", v, "matched", "vuln-generic", "nuclei")
    <3>1. Evident(in, "nuclei")
      BY <1>1, <1>t, <2>1
    <3> QED
      BY <2>1, <3>1, SingleSupported
  <2>2. CASE \E v \in in.saw["retire"] :
               f = Corroborated(Single("vulnerability", "medium", "vulnerable component", v, "target", "vuln-generic",
                                       "retire"), When(Saw(in, "osv", v), {"osv"}), {})
    <3>1. PICK v \in in.saw["retire"] :
               f = Corroborated(Single("vulnerability", "medium", "vulnerable component", v, "target", "vuln-generic",
                                       "retire"), When(Saw(in, "osv", v), {"osv"}), {})
      BY <2>2
    <3> DEFINE agree == When(Saw(in, "osv", v), {"osv"})
    <3>2. \A t \in agree : Evident(in, t)
      BY <1>1, <1>t DEF When, Saw
    <3>3. Evident(in, "retire")
      BY <1>1, <1>t
    <3> HIDE DEF agree
    <3> QED
      BY <3>1, <3>2, <3>3, CorroboratedSupported DEF agree
  <2> QED
    BY <2>1, <2>2 DEF VulnerabilityFindings
<1>7. ASSUME NEW f \in CveFindings(in) PROVE Supported(in, f)
  <2>1. PICK c \in in.saw["osv"] :
          f = Corroborated(Single("outdated-technology", "high", "known CVEs", c, "target", "cve-package", "osv"),
                           When(Saw(in, "whatweb", c) /\ c \notin PackageNamedDifferently, {"whatweb"}), {})
    BY DEF CveFindings
  <2> DEFINE agree == When(Saw(in, "whatweb", c) /\ c \notin PackageNamedDifferently, {"whatweb"})
  <2>2. \A t \in agree : Evident(in, t)
    BY <1>1, <1>t DEF When, Saw
  <2>3. Evident(in, "osv")
    BY <1>1, <1>t
  <2> HIDE DEF agree
  <2> QED
    BY <2>1, <2>2, <2>3, CorroboratedSupported DEF agree
<1> QED
  BY <1>3, <1>4, <1>5, <1>6, <1>7

\* The paths found, the paths archived and the policy of the mail.
LEMMA PathSupported ==
    ASSUME NEW in, Delivered(in)
    PROVE  \A f \in UNION {PathFindings(in), ArchivedFindings(in), DmarcFindings(in)} : Supported(in, f)
<1>1. \A t \in {"waybackurls", "feroxbuster", "email"} : in.saw[t] # {} => Evident(in, t)
  BY SeenEvident DEF Tools
<1>2. Evident(in, "feroxbuster")
  BY <1>1 DEF Evident
<1>3. ASSUME NEW f \in PathFindings(in) PROVE Supported(in, f)
  <2> DEFINE paths == in.saw["feroxbuster"] \ {"/forbidden"}
             archived == paths \cap in.saw["waybackurls"]
             agree == When(archived # {} /\ "waybackurls" \in in.ok, {"waybackurls"})
  <2>1. f = Corroborated(Single("exposure", IF archived # {} THEN "medium" ELSE "informational",
                                "discoverable paths", ToString(Cardinality(paths)), "target", "exposed-paths",
                                "feroxbuster"), agree, {})
    BY DEF PathFindings, When
  <2>2. \A t \in agree : Evident(in, t)
    BY <1>1 DEF When
  <2> HIDE DEF paths, archived, agree
  <2> QED
    BY <1>2, <2>1, <2>2, CorroboratedSupported
<1>4. ASSUME NEW f \in ArchivedFindings(in) PROVE Supported(in, f)
  <2> DEFINE sensitive == in.saw["waybackurls"] \cap SensitivePaths
             live == sensitive \cap in.saw["live"]
             credentials == in.saw["waybackurls"] \cap CredentialPaths
             agree == When(live # {} /\ "feroxbuster" \in in.ok, {"feroxbuster"})
             severity == IF live # {} THEN "high" ELSE IF Cardinality(sensitive) > 3 THEN "medium" ELSE "low"
  <2>1. \/ /\ sensitive # {}
           /\ f = Corroborated(Single("exposure", severity, "archived sensitive paths",
                                      ToString(Cardinality(sensitive)), "host", "archived-exposure", "waybackurls"),
                               agree, {})
        \/ /\ credentials # {}
           /\ f = Single("exposure", "critical", "archived credentials", ToString(Cardinality(credentials)), "host",
                         "leaked-url-credentials", "waybackurls")
    BY DEF ArchivedFindings, When
  <2>2. \A t \in agree : Evident(in, t)
    BY <1>2 DEF When
  <2>3. Evident(in, "waybackurls")
    BY <1>1, <2>1
  <2> HIDE DEF sensitive, live, credentials, agree, severity
  <2> QED
    BY <2>1, <2>2, <2>3, CorroboratedSupported, SingleSupported
<1>5. ASSUME NEW f \in DmarcFindings(in) PROVE Supported(in, f)
  <2>1. /\ in.saw["email"] # {}
        /\ \E severity, title, arg, key : f = Single("misconfiguration", severity, title, arg, "domain", key, "email")
    <3>1. CASE f \in When(Saw(in, "email", "no dmarc"),
                 {Single("misconfiguration", IF Saw(in, "email", "mx") THEN "high" ELSE "medium", "no DMARC",
                         IF Saw(in, "email", "mx") THEN "mx" ELSE "", "domain", "dmarc-missing", "email")})
      BY <3>1, Zenon DEF When, Saw
    <3>2. CASE f \in When(~Saw(in, "email", "no dmarc") /\ Saw(in, "email", "dmarc p=none"),
                 {Single("misconfiguration", "medium", "DMARC p=none", "", "domain", "dmarc-none", "email")})
      BY <3>2, Zenon DEF When, Saw
    <3>3. CASE f \in When(~Saw(in, "email", "no dmarc") /\ ~Saw(in, "email", "dmarc p=none")
                           /\ Saw(in, "email", "no rua"),
                 {Single("misconfiguration", "medium", "DMARC without rua", "", "domain", "dmarc-none", "email")})
      BY <3>3, Zenon DEF When, Saw
    <3> QED
      BY <3>1, <3>2, <3>3, Zenon DEF DmarcFindings
  <2> QED
    BY <1>1, <2>1, SingleSupported
<1> QED
  BY <1>3, <1>4, <1>5

\* Every finding is supported by evidence.
LEMMA FindingsSupported ==
    ASSUME NEW in, Delivered(in)
    PROVE  \A f \in BuildFindings(in) : Supported(in, f)
BY TablesSupported, HttpSupported, TlsSupported, SoftwareSupported, PathSupported DEF BuildFindings, EmailFindings

-----------------------------------------------------------------------------
(* Both files show the evidence *)

\* What is evident has a section in both files.
LEMMA EvidentShown ==
    ASSUME NEW in, NEW t, Evident(in, t)
    PROVE  \/ /\ \E s \in RenderMarkdown(in) : s[1] = t
              /\ \E s \in RenderAppendix(in) \cup TlsCard(in) : s[1] = t
           \/ t = "feroxbuster" /\ in.saw[t] = {}
<1>1. CASE t = "nmap"
  <2> DEFINE s == <<"nmap", "data">>
  <2>1. s[1] = t
    BY <1>1
  <2>2. s \in RenderMarkdown(in) /\ s \in RenderAppendix(in)
    BY DEF RenderMarkdown, RenderAppendix, PdfObserved, PortsAndTechnologies
  <2> HIDE DEF s
  <2> QED
    BY <2>1, <2>2
<1>2. CASE t \in Sectioned /\ t \in in.got
  <2> DEFINE s == Says(in, t)
             p == <<t, IF t \in in.err \cap PdfErrors THEN "error" ELSE "data">>
  <2>1. s[1] = t /\ p[1] = t
    BY DEF Says
  <2>2. s \in RenderMarkdown(in)
    BY <1>2 DEF Sectioned, RenderMarkdown, HttpSections, TlsSections, DnsSections, WebTrustSections, DomainSections, IfGot
  <2>3. p \in RenderAppendix(in)
    BY <1>2 DEF Sectioned, RenderAppendix, PdfObserved, PdfFound, PdfGot
  <2> HIDE DEF s, p
  <2> QED
    BY <2>1, <2>2, <2>3
<1>3. CASE t \in Listing \cup {"whatweb"} /\ in.saw[t] # {}
  <2> DEFINE s == <<t, "data">>
  <2>1. s[1] = t
    OBVIOUS
  <2>2. s \in PortsAndTechnologies(in) \cup IfSeen(in, {"subfinder"}, {"subfinder"})
             \cup IfSeen(in, {"dnsx"}, {"dnsx"}) \cup FoundSections(in)
    BY <1>3 DEF Listing, PortsAndTechnologies, FoundSections, IfSeen, When
  <2> HIDE DEF s
  <2>3. s \in RenderMarkdown(in) /\ s \in RenderAppendix(in)
    BY <2>2 DEF RenderMarkdown, DnsSections, RenderAppendix, PdfObserved, PdfFound
  <2> QED
    BY <2>1, <2>3
<1>4. CASE t = "wpscan" /\ Saw(in, "whatweb", "wordpress")
  <2> DEFINE s == <<"wpscan", "data">>
  <2>1. s[1] = t
    BY <1>4
  <2>2. s \in RenderMarkdown(in)
    BY DEF RenderMarkdown, WordPressSection
  <2>3. s \in RenderAppendix(in)
    BY <1>4 DEF RenderAppendix, PdfObserved, When
  <2> HIDE DEF s
  <2> QED
    BY <2>1, <2>2, <2>3
<1> QED
  BY <1>1, <1>2, <1>3, <1>4 DEF Evident

\* The Markdown appendix names every check that failed.
LEMMA FailureShown ==
    ASSUME NEW in, Delivered(in), NEW t \in in.err
    PROVE  <<t, "error">> \in RenderMarkdown(in)
<1>1. t \in in.got /\ t \in Failing
  BY DeliveredParts
<1>2. Says(in, t) = <<t, "error">>
  BY DEF Says
<1>3. Says(in, t) \in RenderMarkdown(in)
  BY <1>1 DEF Failing, RenderMarkdown, HttpSections, TlsSections, DnsSections, WebTrustSections, DomainSections, IfGot
<1> QED
  BY <1>2, <1>3

\* The cells of both matrices say who supports a finding and who disagrees.
LEMMA MatrixShows ==
    ASSUME NEW findings, NEW f \in findings, f.disagree \subseteq {"httpx", "nuclei", "testssl"}
    PROVE  LET marks(m, mark) == {t \in DOMAIN m[f] : m[f][t] = mark}
               matrix == RenderValidationMatrix(findings)
           IN  /\ f.sources = marks(matrix, "yes")
               /\ f.sources = marks(RenderMatrix(findings), "yes")
               /\ f.disagree \ f.sources \subseteq marks(matrix, "no")
<1>1. ConflictingToolsFor(f) = f.disagree
  BY DEF ConflictingToolsFor, ConflictTools
<1>2. \A conflicting, t :
        /\ Cell(f, conflicting, t) = "yes" <=> t \in f.sources
        /\ t \in conflicting \ f.sources => Cell(f, conflicting, t) = "no"
  BY DEF Cell
<1> DEFINE used == UNION {g.sources \cup ConflictingToolsFor(g) : g \in findings}
           cells == UNION {g.sources : g \in findings}
           row == [t \in used |-> Cell(f, ConflictingToolsFor(f), t)]
           pdf == [t \in cells |-> Cell(f, f.disagree \cap {"httpx"} \cap cells, t)]
<1>3. RenderValidationMatrix(findings)[f] = row
  BY DEF RenderValidationMatrix
<1>4. RenderMatrix(findings)[f] = pdf
  BY DEF RenderMatrix
<1>5. f.sources \cup f.disagree \subseteq used /\ f.sources \subseteq cells
  BY <1>1
<1> HIDE DEF used, cells
<1>6. /\ DOMAIN row = used /\ \A t \in used : row[t] = Cell(f, ConflictingToolsFor(f), t)
      /\ DOMAIN pdf = cells /\ \A t \in cells : pdf[t] = Cell(f, f.disagree \cap {"httpx"} \cap cells, t)
  OBVIOUS
<1> HIDE DEF row, pdf
<1>7. f.sources = {t \in DOMAIN row : row[t] = "yes"}
  BY <1>2, <1>5, <1>6
<1>8. f.sources = {t \in DOMAIN pdf : pdf[t] = "yes"}
  BY <1>2, <1>5, <1>6
<1>9. f.disagree \ f.sources \subseteq {t \in DOMAIN row : row[t] = "no"}
  BY <1>1, <1>2, <1>5, <1>6
<1> QED
  BY <1>3, <1>4, <1>7, <1>8, <1>9

\* A row of a table whose fact was seen is a finding.
LEMMA RowFound ==
    ASSUME NEW in
    PROVE  \A tool, rows : \A r \in rows :
              Saw(in, tool, r.fact) => \E f \in ByTable(in, tool, rows) : f.title = r.title
<1> SUFFICES ASSUME NEW tool, NEW rows, NEW r \in rows, Saw(in, tool, r.fact)
             PROVE  \E f \in ByTable(in, tool, rows) : f.title = r.title
  OBVIOUS
<1> DEFINE f == Single(r.category, r.severity, r.title, "", r.at, r.key, tool)
<1>1. f \in ByTable(in, tool, rows)
  BY DEF ByTable
<1>2. f.title = r.title
  BY DEF Single
<1> HIDE DEF f
<1> QED
  BY <1>1, <1>2

\* No check of the posture tables fails without a finding that says so.
LEMMA PostureReported ==
    ASSUME NEW in
    PROVE  LET titles == {f.title : f \in BuildFindings(in)}
           IN  /\ "HSTS" \in HttpPosture(in) => "no HSTS" \in titles
               /\ "CSP" \in HttpPosture(in) => "no CSP" \in titles
               /\ "DMARC" \in DnsEmailPosture(in) => "no DMARC" \in titles
               /\ "SPF" \in DnsEmailPosture(in) /\ Saw(in, "email", "mx") => "no SPF" \in titles
               /\ "MX STARTTLS" \in DnsEmailPosture(in) => "no STARTTLS" \in titles
<1>0. \A tool, rows : \A r \in rows :
         Saw(in, tool, r.fact) => \E f \in ByTable(in, tool, rows) : f.title = r.title
  BY RowFound
<1>1. "HSTS" \in HttpPosture(in) => \E f \in HstsFindings(in) : f.title = "no HSTS"
  <2> SUFFICES ASSUME "HSTS" \in HttpPosture(in)
               PROVE  \E f \in HstsFindings(in) : f.title = "no HSTS"
    OBVIOUS
  <2> DEFINE r == Row("no hsts", "misconfiguration", "low", "no HSTS", "url", "hsts-missing")
             rows == {r, Row("weak hsts", "misconfiguration", "low", "weak HSTS", "url", "hsts-missing")}
  <2>1. Saw(in, "header-posture", r.fact) /\ r.title = "no HSTS"
    BY DEF HttpPosture, When, Row
  <2>2. r \in rows
    OBVIOUS
  <2>3. ByTable(in, "header-posture", rows) \subseteq HstsFindings(in)
    BY DEF HstsFindings
  <2> HIDE DEF r, rows
  <2>4. \E f \in ByTable(in, "header-posture", rows) : f.title = r.title
    BY <1>0, <2>1, <2>2
  <2> QED
    BY <2>1, <2>3, <2>4
<1>2. "CSP" \in HttpPosture(in) => \E f \in CspFindings(in) : f.title = "no CSP"
  <2> SUFFICES ASSUME "CSP" \in HttpPosture(in)
               PROVE  \E f \in CspFindings(in) : f.title = "no CSP"
    OBVIOUS
  <2> DEFINE r == Row("no csp header", "misconfiguration", "low", "no CSP", "url", "csp-weak")
             rows == {r, Row("csp report-only", "informational", "informational", "CSP report-only", "url", "csp-weak"),
                      Row("weak csp", "misconfiguration", "low", "weak CSP", "url", "csp-weak")}
  <2>1. Saw(in, "header-posture", r.fact) /\ r.title = "no CSP"
    BY DEF HttpPosture, When, Row
  <2>2. r \in rows
    OBVIOUS
  <2>3. ByTable(in, "header-posture", rows) \subseteq CspFindings(in)
    BY DEF CspFindings
  <2> HIDE DEF r, rows
  <2>4. \E f \in ByTable(in, "header-posture", rows) : f.title = r.title
    BY <1>0, <2>1, <2>2
  <2> QED
    BY <2>1, <2>3, <2>4
<1>3. "DMARC" \in DnsEmailPosture(in) => \E f \in DmarcFindings(in) : f.title = "no DMARC"
  <2> SUFFICES ASSUME "DMARC" \in DnsEmailPosture(in)
               PROVE  \E f \in DmarcFindings(in) : f.title = "no DMARC"
    OBVIOUS
  <2> DEFINE severity == IF Saw(in, "email", "mx") THEN "high" ELSE "medium"
             arg == IF Saw(in, "email", "mx") THEN "mx" ELSE ""
             f == Single("misconfiguration", severity, "no DMARC", arg, "domain", "dmarc-missing", "email")
  <2>1. Saw(in, "email", "no dmarc")
    BY DEF DnsEmailPosture, When
  <2>2. f \in DmarcFindings(in)
    BY <2>1 DEF DmarcFindings, When
  <2>3. f.title = "no DMARC"
    BY DEF Single
  <2> HIDE DEF f
  <2> QED
    BY <2>2, <2>3
<1>4. "SPF" \in DnsEmailPosture(in) /\ Saw(in, "email", "mx") => \E f \in SpfFindings(in) : f.title = "no SPF"
  <2> SUFFICES ASSUME "SPF" \in DnsEmailPosture(in) /\ Saw(in, "email", "mx")
               PROVE  \E f \in SpfFindings(in) : f.title = "no SPF"
    OBVIOUS
  <2> DEFINE r == Row("no spf", "misconfiguration", "medium", "no SPF", "domain", "spf-missing")
             rows == When(Saw(in, "email", "mx"), {r})
  <2>1. Saw(in, "email", r.fact) /\ r.title = "no SPF"
    BY DEF DnsEmailPosture, When, Row
  <2>2. r \in rows
    BY DEF When
  <2>3. ByTable(in, "email", rows) \subseteq SpfFindings(in)
    BY DEF SpfFindings, When
  <2> HIDE DEF r, rows
  <2>4. \E f \in ByTable(in, "email", rows) : f.title = r.title
    BY <1>0, <2>1, <2>2
  <2> QED
    BY <2>1, <2>3, <2>4
<1>5. "MX STARTTLS" \in DnsEmailPosture(in) => \E f \in StarttlsFindings(in) : f.title = "no STARTTLS"
  <2> SUFFICES ASSUME "MX STARTTLS" \in DnsEmailPosture(in)
               PROVE  \E f \in StarttlsFindings(in) : f.title = "no STARTTLS"
    OBVIOUS
  <2> DEFINE r == Row("no starttls", "exposure", "medium", "no STARTTLS", "domain", "mx-starttls")
             rows == {r, Row("starttls error", "informational", "informational", "STARTTLS probe failed", "domain", "")}
  <2>1. Saw(in, "email", r.fact) /\ r.title = "no STARTTLS"
    BY DEF DnsEmailPosture, When, Row
  <2>2. r \in rows
    OBVIOUS
  <2>3. ByTable(in, "email", rows) \subseteq StarttlsFindings(in)
    BY DEF StarttlsFindings
  <2> HIDE DEF r, rows
  <2>4. \E f \in ByTable(in, "email", rows) : f.title = r.title
    BY <1>0, <2>1, <2>2
  <2> QED
    BY <2>1, <2>3, <2>4
<1>6. UNION {HstsFindings(in), CspFindings(in), DmarcFindings(in), SpfFindings(in), StarttlsFindings(in)}
         \subseteq BuildFindings(in)
  BY DEF BuildFindings, EmailFindings, PostureFindings
<1> QED
  BY <1>1, <1>2, <1>3, <1>4, <1>5, <1>6

\* The report is the one of an input that the tools delivered.
ReportDelivered ==
    /\ Delivered(report.in)
    /\ report.findings = BuildFindings(report.in) \/ report = NoReport

\* A scan leaves such a report.
LEMMA DeliveredStep == ReportDelivered /\ [Next]_vars => ReportDelivered'
<1> SUFFICES ASSUME ReportDelivered, [Next]_vars PROVE ReportDelivered'
  OBVIOUS
<1>1. CASE Next
  <2>1. PICK plan \in Plans :
          \E trouble, at : \E in \in {Observe(plan, at, trouble)} : \E findings \in {BuildFindings(in)} :
             report' = [in |-> in, findings |-> findings, modules |-> plan.modules]
    BY <1>1 DEF Next, Scan
  <2>2. PICK trouble, at : \E in \in {Observe(plan, at, trouble)} : \E findings \in {BuildFindings(in)} :
             report' = [in |-> in, findings |-> findings, modules |-> plan.modules]
    BY <2>1
  <2> DEFINE in == Observe(plan, at, trouble)
  <2>3. report' = [in |-> in, findings |-> BuildFindings(in), modules |-> plan.modules]
    BY <2>2
  <2>4. Delivered(in)
    BY ObserveDelivers
  <2> HIDE DEF in
  <2> QED
    BY <2>3, <2>4 DEF ReportDelivered
<1>2. CASE UNCHANGED vars
  BY <1>2 DEF vars, ReportDelivered
<1> QED
  BY <1>1, <1>2

\* Both files show the evidence of every finding and of every failure, whatever
\* the tools observed and whichever of them failed: what buildFindings takes for
\* a source or for a disagreement has a column, a mark and a section in the
\* renderers, which read the observations on their own.
THEOREM EvidenceIsShown == Spec => []EvidenceShown
<1>1. Init => ReportDelivered
  BY NothingDelivered DEF Init, ReportDelivered
<1>2. ReportDelivered => EvidenceShown
  <2> SUFFICES ASSUME ReportDelivered PROVE EvidenceShown
    OBVIOUS
  <2> DEFINE in == report.in
             findings == report.findings
             titles == {f.title : f \in findings}
  <2>1. Delivered(in)
    BY DEF ReportDelivered
  <2>2. ASSUME NEW f \in findings
        PROVE  Supported(in, f)
    <3>1. CASE findings = BuildFindings(in)
      BY <2>1, <3>1, FindingsSupported
    <3>2. CASE report = NoReport
      BY <3>2 DEF NoReport
    <3> QED
      BY <3>1, <3>2 DEF ReportDelivered
  <2>3. /\ "HSTS" \in HttpPosture(in) => "no HSTS" \in titles
        /\ "CSP" \in HttpPosture(in) => "no CSP" \in titles
        /\ "DMARC" \in DnsEmailPosture(in) => "no DMARC" \in titles
        /\ "SPF" \in DnsEmailPosture(in) /\ Saw(in, "email", "mx") => "no SPF" \in titles
        /\ "MX STARTTLS" \in DnsEmailPosture(in) => "no STARTTLS" \in titles
    <3>1. CASE findings = BuildFindings(in)
      BY <3>1, PostureReported
    <3>2. CASE report = NoReport
      <4>1. in.got = {}
        BY <3>2, InputParts DEF NoReport
      <4> QED
        BY <4>1 DEF HttpPosture, DnsEmailPosture, When, Answered
    <3> QED
      BY <3>1, <3>2 DEF ReportDelivered
  <2>4. \A t \in in.err : <<t, "error">> \in RenderMarkdown(in)
    BY <2>1, FailureShown
  <2>5. ASSUME NEW f \in findings, NEW t \in f.sources
        PROVE  \/ /\ \E s \in RenderMarkdown(in) : s[1] = t
                  /\ \E s \in RenderAppendix(in) \cup TlsCard(in) : s[1] = t
               \/ t = "feroxbuster" /\ in.saw[t] = {}
    BY <2>2, EvidentShown DEF Supported
  <2>6. ASSUME NEW f \in findings
        PROVE  LET marks(m, mark) == {t \in DOMAIN m[f] : m[f][t] = mark}
                   matrix == RenderValidationMatrix(findings)
               IN  /\ f.sources = marks(matrix, "yes")
                   /\ f.sources = marks(RenderMatrix(findings), "yes")
                   /\ f.disagree \ f.sources \subseteq marks(matrix, "no")
    BY <2>2, MatrixShows DEF Supported
  <2> QED
    BY <2>3, <2>4, <2>5, <2>6 DEF EvidenceShown
<1> QED
  BY <1>1, <1>2, DeliveredStep, PTL DEF Spec

-----------------------------------------------------------------------------
(* What a finding depends on *)

\* What buildFindings reads of a tool is the same in two inputs.
Alike(a, b, t) ==
    /\ a.saw[t] = b.saw[t]
    /\ t \in a.got <=> t \in b.got
    /\ t \in a.err <=> t \in b.err
    /\ t = "waybackurls" => a.saw["live"] = b.saw["live"]

\* What two scans tell a finding apart by.
Mark(f) == [print |-> Fingerprint(f), severity |-> f.severity]

\* The tools that decide, by its title, whether a finding is reported and how
\* severe it is, as long as the email check and httpx have delivered.
HttpTitles == {"missing headers", "server banner", "powered by", "HTTP check failed"}
TlsTitles == {"TLS check failed", "certificate expired", "certificate expires soon", "outdated TLS", "self-signed"}
PhpTitles == {"PHP2Shell", "PHP version unknown"}
WhatwebTitles == {"technologies", "WordPress detected"}
ArchiveTitles == {"archived sensitive paths", "archived credentials"}
EmailTitles == {"no DMARC", "DMARC p=none", "DMARC without rua", "no SPF", "multiple SPF", "SPF allows any", "no STARTTLS",
                "STARTTLS probe failed", "no MTA-STS", "no TLS-RPT"}
HeaderTitles == {"no HSTS", "weak HSTS", "no CSP", "CSP report-only", "weak CSP", "no SameSite"}
PageTitles == {"mixed content", "no SRI"}
DomainTitles == {"no CAA", "no DKIM"}

Behind(title) ==
    CASE title = "open port" -> {"nmap"}
      [] title \in HttpTitles -> {"http"}
      [] title = "insecure cookie" -> {"http", "httpx"}
      [] title \in TlsTitles -> {"tls"}
      [] title = "TLS weakness" -> {"testssl"}
      [] title \in PhpTitles -> {"whatweb", "http", "httpx"}
      [] title \in WhatwebTitles -> {"whatweb"}
      [] title = "nuclei template" -> {"nuclei"}
      [] title = "vulnerable component" -> {"retire"}
      [] title = "discoverable paths" -> {"feroxbuster", "waybackurls"}
      [] title \in ArchiveTitles -> {"waybackurls"}
      [] title \in EmailTitles -> {"email"}
      [] title = "known CVEs" -> {"osv", "whatweb"}
      [] title \in HeaderTitles -> {"header-posture", "page-recon"}
      [] title \in PageTitles -> {"page-recon"}
      [] title = "robots disclosure" -> {"crawl-rules"}
      [] title = "no security.txt" -> {"security-txt"}
      [] title \in DomainTitles -> {"dns-hardening"}
      [] title = "no DNSSEC" -> {"dnssec"}
      [] title = "infrastructure" -> {"ip-intel"}
      [] OTHER -> {}

\* The tools that a plan can name; WPScan, which is added, decides no finding.
Plannable == Tools \ {"wpscan"}

\* Enough of the input a is in b for the finding to be made of b as well.
Complete(a) == "httpx" \in a.got /\ Answered(a, "email")
Sufficient(a, b, f) ==
    \/ \A t \in Upstream(f) \cap Plannable : Alike(a, b, t)
    \/ Complete(a) /\ \A t \in Behind(f.title) : Alike(a, b, t)

\* The findings A of the input a are those that B has of b, where that is so.
CarriedOne(f, B, a, b) ==
    /\ Behind(f.title) \subseteq Upstream(f)
    /\ Sufficient(a, b, f) => \E g \in B : Mark(g) = Mark(f)
Carried(A, B, a, b) == \A f \in A : CarriedOne(f, B, a, b)

\* What identifies a finding, its key and the tool that reports it.
Built(f, category, severity, title, arg, at, key, tool) ==
    /\ f.title = title /\ f.arg = arg /\ f.severity = severity
    /\ f.key = key /\ tool \in f.sources
    /\ Mark(f) = [print |-> [category |-> category, title |-> title, arg |-> arg, at |-> at], severity |-> severity]

\* The tools that agree or disagree do not change what identifies a finding.
LEMMA SinglesBuilt ==
    \A category, severity, title, arg, at, key, tool :
        Built(Single(category, severity, title, arg, at, key, tool), category, severity, title, arg, at, key, tool)
BY DEF Built, Single, Mark, Fingerprint

\* Nor do they in a corroborated finding.
LEMMA CorroboratedBuilt ==
    \A category, severity, title, arg, at, key, tool, agree, disagree :
        Built(Corroborated(Single(category, severity, title, arg, at, key, tool), agree, disagree),
              category, severity, title, arg, at, key, tool)
<1> SUFFICES ASSUME NEW category, NEW severity, NEW title, NEW arg, NEW at, NEW key, NEW tool, NEW agree, NEW disagree
             PROVE  Built(Corroborated(Single(category, severity, title, arg, at, key, tool), agree, disagree),
                          category, severity, title, arg, at, key, tool)
  OBVIOUS
<1> DEFINE f == Corroborated(Single(category, severity, title, arg, at, key, tool), agree, disagree)
<1>1. /\ f.category = category /\ f.severity = severity /\ f.title = title /\ f.arg = arg /\ f.at = at
      /\ f.key = key /\ f.sources = {tool} \cup agree
  BY DEF Corroborated, Single
<1> HIDE DEF f
<1>2. Built(f, category, severity, title, arg, at, key, tool)
  BY <1>1 DEF Built, Mark, Fingerprint
<1> QED
  BY <1>2 DEF f

\* A tool that reports a finding is upstream of it with all that feeds the tool.
LEMMA FeedsUpstream ==
    ASSUME NEW f, NEW tool \in f.sources
    PROVE  {tool} \cup Feeds(tool) \subseteq Upstream(f)
BY DEF Upstream

\* Behind a title are tools that a plan can name.
LEMMA BehindPlannable == \A title : Behind(title) \subseteq Plannable
<1>1. {"nmap", "http", "httpx", "tls", "testssl", "whatweb", "nuclei", "retire", "feroxbuster", "waybackurls", "email",
       "osv", "header-posture", "page-recon", "crawl-rules", "security-txt", "dns-hardening", "dnssec", "ip-intel"}
         \subseteq Plannable
  BY DEF Plannable, Tools
<1> QED
  BY <1>1, Zenon DEF Behind

\* One finding is carried over when the tools behind its title suffice for it.
LEMMA BuiltCarried ==
    ASSUME NEW a, NEW b, NEW B, NEW f, NEW category, NEW severity, NEW title, NEW arg, NEW at, NEW key, NEW tool,
           Built(f, category, severity, title, arg, at, key, tool),
           Behind(title) \subseteq {tool} \cup Feeds(tool),
           (\A t \in Behind(title) : Alike(a, b, t))
              => \E g \in B : Built(g, category, severity, title, arg, at, key, tool)
    PROVE  CarriedOne(f, B, a, b)
<1>1. Behind(title) \subseteq Upstream(f) /\ f.title = title
  BY FeedsUpstream DEF Built
<1>2. Sufficient(a, b, f) => \A t \in Behind(title) : Alike(a, b, t)
  BY <1>1, BehindPlannable DEF Sufficient
<1>3. Sufficient(a, b, f) => \E g \in B : Mark(g) = Mark(f)
  BY <1>2 DEF Built
<1> QED
  BY <1>1, <1>3 DEF CarriedOne

\* The findings of a table are carried over if the other one has its rows.
LEMMA TableCarried ==
    ASSUME NEW a, NEW b, NEW tool, NEW rows, NEW others,
           \A r \in rows : tool \in Behind(r.title) /\ Behind(r.title) \subseteq {tool} \cup Feeds(tool),
           Alike(a, b, tool) => rows \subseteq others
    PROVE  Carried(ByTable(a, tool, rows), ByTable(b, tool, others), a, b)
<1> SUFFICES ASSUME NEW f \in ByTable(a, tool, rows)
             PROVE  CarriedOne(f, ByTable(b, tool, others), a, b)
  BY DEF Carried
<1>1. PICK r \in {x \in rows : Saw(a, tool, x.fact)} :
        f = Single(r.category, r.severity, r.title, "", r.at, r.key, tool)
  BY Zenon DEF ByTable
<1>2. Alike(a, b, tool) => r \in others /\ Saw(b, tool, r.fact)
  BY DEF Alike, Saw
<1>3. Alike(a, b, tool) => f \in ByTable(b, tool, others)
  BY <1>1, <1>2 DEF ByTable
<1>4. Built(f, r.category, r.severity, r.title, "", r.at, r.key, tool)
  BY <1>1, SinglesBuilt
<1>5. tool \in Behind(r.title) /\ Behind(r.title) \subseteq {tool} \cup Feeds(tool)
  OBVIOUS
<1> QED
  BY <1>3, <1>4, <1>5, BuiltCarried

\* What is behind the titles, and that it is upstream of whoever reports them.
LEMMA BehindTitles ==
    /\ Behind("open port") = {"nmap"}
    /\ \A title \in HttpTitles : Behind(title) = {"http"}
    /\ Behind("insecure cookie") = {"http", "httpx"}
    /\ \A title \in TlsTitles : Behind(title) = {"tls"}
    /\ Behind("TLS weakness") = {"testssl"}
    /\ \A title \in PhpTitles : Behind(title) = {"whatweb", "http", "httpx"}
    /\ \A title \in WhatwebTitles : Behind(title) = {"whatweb"}
    /\ Behind("nuclei template") = {"nuclei"}
    /\ Behind("vulnerable component") = {"retire"}
    /\ Behind("discoverable paths") = {"feroxbuster", "waybackurls"}
    /\ \A title \in ArchiveTitles : Behind(title) = {"waybackurls"}
    /\ \A title \in EmailTitles : Behind(title) = {"email"}
    /\ Behind("known CVEs") = {"osv", "whatweb"}
    /\ \A title \in HeaderTitles : Behind(title) = {"header-posture", "page-recon"}
    /\ \A title \in PageTitles : Behind(title) = {"page-recon"}
    /\ Behind("robots disclosure") = {"crawl-rules"}
    /\ Behind("no security.txt") = {"security-txt"}
    /\ \A title \in DomainTitles : Behind(title) = {"dns-hardening"}
    /\ Behind("no DNSSEC") = {"dnssec"}
    /\ Behind("infrastructure") = {"ip-intel"}
BY DEF Behind, HttpTitles, TlsTitles, PhpTitles, WhatwebTitles, ArchiveTitles, EmailTitles, HeaderTitles, PageTitles,
       DomainTitles

\* The findings of a part of a rule are carried over to the whole.
LEMMA CarriedInto ==
    ASSUME NEW A, NEW B, NEW C, NEW a, NEW b, Carried(A, B, a, b), B \subseteq C
    PROVE  Carried(A, C, a, b)
BY DEF Carried, CarriedOne

\* The title of a row is one of a set.
Titled(r, titles) == r.title \in titles

\* The tool decides with those that feed it what is reported under the title.
Decides(tool, title) == tool \in Behind(title) /\ Behind(title) \subseteq {tool} \cup Feeds(tool)

\* A table of titles that one tool decides is carried over.
LEMMA TitlesCarried ==
    ASSUME NEW a, NEW b, NEW tool, NEW titles,
           \A title \in titles : Decides(tool, title)
    PROVE  \A rows : (\A r \in rows : Titled(r, titles))
              => \A f \in ByTable(a, tool, rows) : CarriedOne(f, ByTable(b, tool, rows), a, b)
BY TableCarried DEF Titled, Carried, Decides

\* The findings of the tables that one tool decides.
LEMMA TablesCarried ==
    ASSUME NEW a, NEW b
    PROVE  /\ Carried(HstsFindings(a), HstsFindings(b), a, b)
           /\ Carried(CspFindings(a), CspFindings(b), a, b)
           /\ Carried(PageFindings(a), PageFindings(b), a, b)
           /\ Carried(RobotsFindings(a), RobotsFindings(b), a, b)
           /\ Carried(SecurityTxtFindings(a), SecurityTxtFindings(b), a, b)
           /\ Carried(DnssecFindings(a), DnssecFindings(b), a, b)
           /\ Carried(IpIntelFindings(a), IpIntelFindings(b), a, b)
           /\ Carried(StarttlsFindings(a), StarttlsFindings(b), a, b)
<1> DEFINE Table(tool, titles) ==
             \A rows : (\A r \in rows : Titled(r, titles))
                => \A f \in ByTable(a, tool, rows) : CarriedOne(f, ByTable(b, tool, rows), a, b)
<1>1. /\ \A title \in HeaderTitles : Decides("header-posture", title)
      /\ \A title \in PageTitles : Decides("page-recon", title)
      /\ \A title \in EmailTitles : Decides("email", title)
      /\ \A title \in {"robots disclosure"} : Decides("crawl-rules", title)
      /\ \A title \in {"no security.txt"} : Decides("security-txt", title)
      /\ \A title \in {"no DNSSEC"} : Decides("dnssec", title)
      /\ \A title \in {"infrastructure"} : Decides("ip-intel", title)
  <2>1. \A tool, title : Behind(title) = {tool} => Decides(tool, title)
    BY DEF Decides
  <2>2. \A title : Behind(title) = {"header-posture", "page-recon"} => Decides("header-posture", title)
    BY DEF Decides, Feeds
  <2>3. \A title \in HeaderTitles : Behind(title) = {"header-posture", "page-recon"}
    BY BehindTitles
  <2>4. /\ \A title \in PageTitles : Behind(title) = {"page-recon"}
        /\ \A title \in EmailTitles : Behind(title) = {"email"}
    BY BehindTitles
  <2>5. /\ Behind("robots disclosure") = {"crawl-rules"} /\ Behind("no security.txt") = {"security-txt"}
        /\ Behind("no DNSSEC") = {"dnssec"} /\ Behind("infrastructure") = {"ip-intel"}
    BY BehindTitles
  <2> QED
    BY <2>1, <2>2, <2>3, <2>4, <2>5
<1>2. Table("header-posture", HeaderTitles)
  BY <1>1, TitlesCarried
<1>3. Table("page-recon", PageTitles)
  BY <1>1, TitlesCarried
<1>4. Table("crawl-rules", {"robots disclosure"}) /\ Table("security-txt", {"no security.txt"})
  BY <1>1, TitlesCarried
<1>5. Table("dnssec", {"no DNSSEC"}) /\ Table("ip-intel", {"infrastructure"})
  BY <1>1, TitlesCarried
<1>6. Table("email", EmailTitles)
  BY <1>1, TitlesCarried
<1>7. ASSUME NEW f \in HstsFindings(a) PROVE CarriedOne(f, HstsFindings(b), a, b)
  <2>1. /\ Titled(Row("no hsts", "misconfiguration", "low", "no HSTS", "url", "hsts-missing"), HeaderTitles)
        /\ Titled(Row("weak hsts", "misconfiguration", "low", "weak HSTS", "url", "hsts-missing"), HeaderTitles)
    BY DEF Titled, Row, HeaderTitles
  <2> QED
    BY <1>2, <2>1 DEF HstsFindings
<1>8. ASSUME NEW f \in CspFindings(a) PROVE CarriedOne(f, CspFindings(b), a, b)
  <2>1. /\ Titled(Row("no csp header", "misconfiguration", "low", "no CSP", "url", "csp-weak"), HeaderTitles)
        /\ Titled(Row("csp report-only", "informational", "informational", "CSP report-only", "url", "csp-weak"), HeaderTitles)
        /\ Titled(Row("weak csp", "misconfiguration", "low", "weak CSP", "url", "csp-weak"), HeaderTitles)
    BY DEF Titled, Row, HeaderTitles
  <2> QED
    BY <1>2, <2>1 DEF CspFindings
<1>9. ASSUME NEW f \in PageFindings(a) PROVE CarriedOne(f, PageFindings(b), a, b)
  <2>1. /\ Titled(Row("mixed content", "misconfiguration", "medium", "mixed content", "url", "mixed-content"), PageTitles)
        /\ Titled(Row("no sri", "misconfiguration", "low", "no SRI", "url", "missing-sri"), PageTitles)
    BY DEF Titled, Row, PageTitles
  <2> QED
    BY <1>3, <2>1 DEF PageFindings
<1>10. ASSUME NEW f \in RobotsFindings(a) PROVE CarriedOne(f, RobotsFindings(b), a, b)
  <2>1. Titled(Row("robots /admin", "exposure", "informational", "robots disclosure", "robots", "robots-disclosure"),
               {"robots disclosure"})
    BY DEF Titled, Row
  <2> QED
    BY <1>4, <2>1 DEF RobotsFindings
<1>11. ASSUME NEW f \in SecurityTxtFindings(a) PROVE CarriedOne(f, SecurityTxtFindings(b), a, b)
  <2>1. Titled(Row("no security.txt", "informational", "informational", "no security.txt", "security.txt", "security-txt"),
               {"no security.txt"})
    BY DEF Titled, Row
  <2> QED
    BY <1>4, <2>1 DEF SecurityTxtFindings
<1>12. ASSUME NEW f \in DnssecFindings(a) PROVE CarriedOne(f, DnssecFindings(b), a, b)
  <2>1. Titled(Row("unsigned", "misconfiguration", "low", "no DNSSEC", "host", "dnssec-missing"), {"no DNSSEC"})
    BY DEF Titled, Row
  <2> QED
    BY <1>5, <2>1 DEF DnssecFindings
<1>13. ASSUME NEW f \in IpIntelFindings(a) PROVE CarriedOne(f, IpIntelFindings(b), a, b)
  <2>1. Titled(Row("hosted", "informational", "informational", "infrastructure", "host", ""), {"infrastructure"})
    BY DEF Titled, Row
  <2> QED
    BY <1>5, <2>1 DEF IpIntelFindings
<1>14. ASSUME NEW f \in StarttlsFindings(a) PROVE CarriedOne(f, StarttlsFindings(b), a, b)
  <2>1. /\ Titled(Row("no starttls", "exposure", "medium", "no STARTTLS", "domain", "mx-starttls"), EmailTitles)
        /\ Titled(Row("starttls error", "informational", "informational", "STARTTLS probe failed", "domain", ""), EmailTitles)
    BY DEF Titled, Row, EmailTitles
  <2> QED
    BY <1>6, <2>1 DEF StarttlsFindings
<1> QED
  BY <1>7, <1>8, <1>9, <1>10, <1>11, <1>12, <1>13, <1>14 DEF Carried

\* The rows of a table that are there on a condition are carried over with it.
LEMMA RowsCarried ==
    ASSUME NEW a, NEW b, NEW tool, NEW titles, \A title \in titles : Decides(tool, title),
           NEW rows, NEW others, \A r \in rows : Titled(r, titles), Alike(a, b, tool) => rows \subseteq others
    PROVE  \A f \in ByTable(a, tool, rows) : CarriedOne(f, ByTable(b, tool, others), a, b)
BY TableCarried DEF Titled, Carried, Decides

\* A finding of one tool is carried over when what decides it makes b have it.
LEMMA SingleCarried ==
    ASSUME NEW a, NEW b, NEW B, NEW f, NEW category, NEW severity, NEW title, NEW arg, NEW at, NEW key, NEW tool,
           f = Single(category, severity, title, arg, at, key, tool), Decides(tool, title),
           (\A t \in Behind(title) : Alike(a, b, t)) => f \in B
    PROVE  CarriedOne(f, B, a, b)
<1>1. Built(f, category, severity, title, arg, at, key, tool)
  BY SinglesBuilt
<1>2. Behind(title) \subseteq {tool} \cup Feeds(tool)
  BY DEF Decides
<1> QED
  BY <1>1, <1>2, BuiltCarried

\* So is one that others may support.
LEMMA CorroboratedCarried ==
    ASSUME NEW a, NEW b, NEW B, NEW f, NEW category, NEW severity, NEW title, NEW arg, NEW at, NEW key, NEW tool,
           NEW agree, NEW disagree,
           f = Corroborated(Single(category, severity, title, arg, at, key, tool), agree, disagree), Decides(tool, title),
           (\A t \in Behind(title) : Alike(a, b, t))
              => \E yes, no : Corroborated(Single(category, severity, title, arg, at, key, tool), yes, no) \in B
    PROVE  CarriedOne(f, B, a, b)
<1>1. Built(f, category, severity, title, arg, at, key, tool)
  BY CorroboratedBuilt
<1>2. Behind(title) \subseteq {tool} \cup Feeds(tool)
  BY DEF Decides
<1>3. (\A t \in Behind(title) : Alike(a, b, t)) => \E g \in B : Built(g, category, severity, title, arg, at, key, tool)
  BY CorroboratedBuilt
<1> QED
  BY <1>1, <1>2, <1>3, BuiltCarried

\* Who decides the other titles.
LEMMA Deciders ==
    /\ Decides("nmap", "open port")
    /\ \A title \in HttpTitles : Decides("http", title)
    /\ Decides("httpx", "insecure cookie")
    /\ \A title \in TlsTitles : Decides("tls", title)
    /\ Decides("testssl", "TLS weakness")
    /\ \A title \in WhatwebTitles : Decides("whatweb", title)
    /\ Decides("nuclei", "nuclei template")
    /\ Decides("retire", "vulnerable component")
    /\ Decides("feroxbuster", "discoverable paths")
    /\ \A title \in ArchiveTitles : Decides("waybackurls", title)
    /\ \A title \in EmailTitles : Decides("email", title)
    /\ Decides("osv", "known CVEs")
    /\ \A title \in HeaderTitles : Decides("header-posture", title)
    /\ \A title \in DomainTitles : Decides("dns-hardening", title)
<1>1. \A tool, title : Behind(title) = {tool} => Decides(tool, title)
  BY DEF Decides
<1>2. \A title : Behind(title) = {"http", "httpx"} => Decides("httpx", title)
  BY DEF Decides, Feeds
<1>3. \A title : Behind(title) = {"feroxbuster", "waybackurls"} => Decides("feroxbuster", title)
  BY DEF Decides, Feeds
<1>4. \A title : Behind(title) = {"osv", "whatweb"} => Decides("osv", title)
  BY DEF Decides, Feeds
<1>5. \A title : Behind(title) = {"header-posture", "page-recon"} => Decides("header-posture", title)
  BY DEF Decides, Feeds
<1>6. /\ Behind("open port") = {"nmap"} /\ Behind("insecure cookie") = {"http", "httpx"}
      /\ Behind("TLS weakness") = {"testssl"} /\ Behind("nuclei template") = {"nuclei"}
      /\ Behind("vulnerable component") = {"retire"} /\ Behind("discoverable paths") = {"feroxbuster", "waybackurls"}
      /\ Behind("known CVEs") = {"osv", "whatweb"}
  BY BehindTitles
<1>7. /\ \A title \in HttpTitles : Behind(title) = {"http"}
      /\ \A title \in TlsTitles : Behind(title) = {"tls"}
      /\ \A title \in WhatwebTitles : Behind(title) = {"whatweb"}
      /\ \A title \in ArchiveTitles : Behind(title) = {"waybackurls"}
      /\ \A title \in EmailTitles : Behind(title) = {"email"}
      /\ \A title \in DomainTitles : Behind(title) = {"dns-hardening"}
  BY BehindTitles
<1>8. \A title \in HeaderTitles : Decides("header-posture", title)
  BY <1>5, BehindTitles
<1>9. /\ Decides("nmap", "open port") /\ Decides("httpx", "insecure cookie") /\ Decides("testssl", "TLS weakness")
      /\ Decides("nuclei", "nuclei template") /\ Decides("retire", "vulnerable component")
      /\ Decides("feroxbuster", "discoverable paths") /\ Decides("osv", "known CVEs")
  BY <1>1, <1>2, <1>3, <1>4, <1>6
<1>10. /\ \A title \in HttpTitles : Decides("http", title)
       /\ \A title \in TlsTitles : Decides("tls", title)
       /\ \A title \in WhatwebTitles : Decides("whatweb", title)
       /\ \A title \in ArchiveTitles : Decides("waybackurls", title)
       /\ \A title \in EmailTitles : Decides("email", title)
       /\ \A title \in DomainTitles : Decides("dns-hardening", title)
  BY <1>1, <1>7
<1> QED
  BY <1>8, <1>9, <1>10

\* The mail of the domain.
LEMMA EmailCarried ==
    ASSUME NEW a, NEW b
    PROVE  /\ Carried(SpfFindings(a), SpfFindings(b), a, b)
           /\ Carried(MailPolicyFindings(a), MailPolicyFindings(b), a, b)
           /\ Carried(DmarcFindings(a), DmarcFindings(b), a, b)
<1>1. \A title \in EmailTitles : Decides("email", title) /\ Behind(title) = {"email"}
  BY Deciders, BehindTitles
<1>2. Alike(a, b, "email") => a.saw["email"] = b.saw["email"]
  BY DEF Alike
<1>3. ASSUME NEW f \in SpfFindings(a) PROVE CarriedOne(f, SpfFindings(b), a, b)
  <2> DEFINE spf == {Row("no spf", "misconfiguration", "medium", "no SPF", "domain", "spf-missing")}
             rows == {Row("many spf", "misconfiguration", "medium", "multiple SPF", "domain", "spf-permissive"),
                      Row("spf all", "misconfiguration", "medium", "SPF allows any", "domain", "spf-permissive")}
             on(in) == When(Saw(in, "email", "mx"), spf)
  <2>0. /\ Titled(Row("no spf", "misconfiguration", "medium", "no SPF", "domain", "spf-missing"), EmailTitles)
        /\ Titled(Row("many spf", "misconfiguration", "medium", "multiple SPF", "domain", "spf-permissive"), EmailTitles)
        /\ Titled(Row("spf all", "misconfiguration", "medium", "SPF allows any", "domain", "spf-permissive"), EmailTitles)
    BY DEF Titled, Row, EmailTitles
  <2>1. \A r \in spf \cup rows : Titled(r, EmailTitles)
    BY <2>0
  <2>2. \A in : SpfFindings(in) = ByTable(in, "email", on(in)) \cup ByTable(in, "email", rows)
    BY DEF SpfFindings
  <2> HIDE DEF spf, rows
  <2>3. Alike(a, b, "email") => on(a) \subseteq on(b)
    BY <1>2 DEF When, Saw
  <2>4. \A r \in on(a) : Titled(r, EmailTitles)
    BY <2>1 DEF When
  <2> HIDE DEF on
  <2>5. \A g \in ByTable(a, "email", on(a)) : CarriedOne(g, ByTable(b, "email", on(b)), a, b)
    BY <1>1, <2>3, <2>4, RowsCarried
  <2>6. \A g \in ByTable(a, "email", rows) : CarriedOne(g, ByTable(b, "email", rows), a, b)
    BY <1>1, <2>1, RowsCarried
  <2> QED
    BY <2>2, <2>5, <2>6 DEF CarriedOne
<1>4. ASSUME NEW f \in MailPolicyFindings(a) PROVE CarriedOne(f, MailPolicyFindings(b), a, b)
  <2> DEFINE rows == {Row("no mta-sts", "misconfiguration", "low", "no MTA-STS", "domain", "mta-sts"),
                      Row("no tls-rpt", "misconfiguration", "low", "no TLS-RPT", "domain", "mta-sts")}
             on(in) == When(Saw(in, "email", "mx"), rows)
  <2>0. /\ Titled(Row("no mta-sts", "misconfiguration", "low", "no MTA-STS", "domain", "mta-sts"), EmailTitles)
        /\ Titled(Row("no tls-rpt", "misconfiguration", "low", "no TLS-RPT", "domain", "mta-sts"), EmailTitles)
    BY DEF Titled, Row, EmailTitles
  <2>1. \A r \in rows : Titled(r, EmailTitles)
    BY <2>0
  <2>2. \A in : MailPolicyFindings(in) = ByTable(in, "email", on(in))
    BY DEF MailPolicyFindings
  <2> HIDE DEF rows
  <2>3. Alike(a, b, "email") => on(a) \subseteq on(b)
    BY <1>2 DEF When, Saw
  <2>4. \A r \in on(a) : Titled(r, EmailTitles)
    BY <2>1 DEF When
  <2> HIDE DEF on
  <2>5. \A g \in ByTable(a, "email", on(a)) : CarriedOne(g, ByTable(b, "email", on(b)), a, b)
    BY <1>1, <2>3, <2>4, RowsCarried
  <2> QED
    BY <2>2, <2>5
<1>5. ASSUME NEW f \in DmarcFindings(a) PROVE CarriedOne(f, DmarcFindings(b), a, b)
  <2>1. "no DMARC" \in EmailTitles /\ "DMARC p=none" \in EmailTitles /\ "DMARC without rua" \in EmailTitles
    BY DEF EmailTitles
  <2>2. \E severity, title, arg, key :
          /\ title \in EmailTitles
          /\ f = Single("misconfiguration", severity, title, arg, "domain", key, "email")
    <3>1. CASE f \in When(Saw(a, "email", "no dmarc"),
                 {Single("misconfiguration", IF Saw(a, "email", "mx") THEN "high" ELSE "medium", "no DMARC",
                         IF Saw(a, "email", "mx") THEN "mx" ELSE "", "domain", "dmarc-missing", "email")})
      <4>1. f = Single("misconfiguration", IF Saw(a, "email", "mx") THEN "high" ELSE "medium", "no DMARC",
                       IF Saw(a, "email", "mx") THEN "mx" ELSE "", "domain", "dmarc-missing", "email")
        BY <3>1, Zenon DEF When
      <4> QED
        BY <2>1, <4>1, Zenon
    <3>2. CASE f \in When(~Saw(a, "email", "no dmarc") /\ Saw(a, "email", "dmarc p=none"),
                 {Single("misconfiguration", "medium", "DMARC p=none", "", "domain", "dmarc-none", "email")})
      BY <2>1, <3>2, Zenon DEF When
    <3>3. CASE f \in When(~Saw(a, "email", "no dmarc") /\ ~Saw(a, "email", "dmarc p=none") /\ Saw(a, "email", "no rua"),
                 {Single("misconfiguration", "medium", "DMARC without rua", "", "domain", "dmarc-none", "email")})
      BY <2>1, <3>3, Zenon DEF When
    <3> QED
      BY <3>1, <3>2, <3>3, Zenon DEF DmarcFindings
  <2>3. Alike(a, b, "email") => f \in DmarcFindings(b)
    BY <1>2, Zenon DEF DmarcFindings, Saw
  <2> QED
    BY <1>1, <2>2, <2>3, SingleCarried
<1> QED
  BY <1>3, <1>4, <1>5 DEF Carried

\* The ports and the answers to HTTP requests.
LEMMA HttpCarried ==
    ASSUME NEW a, NEW b
    PROVE  /\ Carried(PortFindings(a), PortFindings(b), a, b)
           /\ Carried(HeaderFindings(a), HeaderFindings(b), a, b)
           /\ Carried(BannerFindings(a), BannerFindings(b), a, b)
           /\ Carried(PoweredByFindings(a), PoweredByFindings(b), a, b)
           /\ Carried(CookieFindings(a), CookieFindings(b), a, b)
           /\ Carried(HttpErrorFindings(a), HttpErrorFindings(b), a, b)
<1>1. \A title \in HttpTitles : Decides("http", title) /\ "http" \in Behind(title)
  BY Deciders DEF Decides
<1>2. /\ "missing headers" \in HttpTitles /\ "server banner" \in HttpTitles
      /\ "powered by" \in HttpTitles /\ "HTTP check failed" \in HttpTitles
  BY DEF HttpTitles
<1>3. \A t : Alike(a, b, t) => /\ a.saw[t] = b.saw[t] /\ (t \in a.err <=> t \in b.err)
                               /\ Answered(a, t) <=> Answered(b, t)
  BY DEF Alike, Answered
<1>4. ASSUME NEW f \in PortFindings(a) PROVE CarriedOne(f, PortFindings(b), a, b)
  <2>1. PICK p \in a.saw["nmap"] \cap Ports : f = PortFinding(a, p)
    BY DEF PortFindings
  <2> DEFINE agree(in) == When(p = "80" /\ Answered(in, "http"), {"http"})
                          \cup When(p = "443" /\ Answered(in, "tls"), {"tls"})
                          \cup When(p \in {"80", "443"} /\ Answered(in, "httpx"), {"httpx"})
             severity == IF p \in DatabasePorts THEN "medium" ELSE IF p = "22" THEN "low" ELSE "informational"
             key == IF p \in DatabasePorts THEN "open-db-port" ELSE IF p = "22" THEN "open-ssh" ELSE "open-port"
  <2>2. \A in : PortFinding(in, p)
                  = Corroborated(Single("exposure", severity, "open port", p, "port", key, "nmap"), agree(in), {})
    BY DEF PortFinding
  <2> HIDE DEF agree, severity, key
  <2>3. Decides("nmap", "open port") /\ "nmap" \in Behind("open port")
    BY Deciders DEF Decides
  <2>4. Alike(a, b, "nmap") => PortFinding(b, p) \in PortFindings(b)
    BY <1>3 DEF PortFindings
  <2> QED
    BY <2>1, <2>2, <2>3, <2>4, CorroboratedCarried
<1>5. ASSUME NEW f \in HeaderFindings(a) PROVE CarriedOne(f, HeaderFindings(b), a, b)
  <2> DEFINE agrees(in) == in.saw["http"] \cap Headers \subseteq in.saw["httpx"]
             agree(in) == When(Answered(in, "httpx") /\ agrees(in), {"httpx"})
             disagree(in) == When(Answered(in, "httpx") /\ ~agrees(in), {"httpx"})
             finding(in) == Corroborated(
               Single("misconfiguration", "low", "missing headers", "", "url", "missing-headers", "http"),
               agree(in), disagree(in))
             found(in) == Answered(in, "http") /\ in.saw["http"] \cap Headers # {}
  <2>1. \A in : HeaderFindings(in) = When(found(in), {finding(in)})
    BY DEF HeaderFindings
  <2>2. Alike(a, b, "http") => (found(a) <=> found(b))
    BY <1>3
  <2> HIDE DEF agree, disagree, found
  <2>3. found(a) /\ f = finding(a)
    BY <2>1, Zenon DEF When
  <2>4. found(b) => finding(b) \in HeaderFindings(b)
    BY <2>1, Zenon DEF When
  <2> QED
    BY <1>1, <1>2, <2>2, <2>3, <2>4, CorroboratedCarried
<1>6. ASSUME NEW f \in BannerFindings(a) PROVE CarriedOne(f, BannerFindings(b), a, b)
  <2> DEFINE agree(in, n) == When(Answered(in, "httpx") /\ Saw(in, "httpx", n), {"httpx"})
             disagree(in, n) == When(Answered(in, "httpx") /\ in.saw["httpx"] \cap Banners \notin {{}, {n}}, {"httpx"})
             finding(in, n) == Corroborated(
               Single("informational", "informational", "server banner", "", "url", "server-banner", "http"),
               agree(in, n), disagree(in, n))
             found(in) == When(Answered(in, "http"), in.saw["http"] \cap Banners)
  <2>1. \A in : BannerFindings(in) = {finding(in, n) : n \in found(in)}
    BY DEF BannerFindings
  <2>2. Alike(a, b, "http") => found(a) = found(b)
    BY <1>3 DEF When
  <2> HIDE DEF agree, disagree, found
  <2>3. PICK n \in found(a) : f = finding(a, n)
    BY <2>1
  <2>4. n \in found(b) => finding(b, n) \in BannerFindings(b)
    BY <2>1
  <2> QED
    BY <1>1, <1>2, <2>2, <2>3, <2>4, CorroboratedCarried
<1>7. ASSUME NEW f \in PoweredByFindings(a) PROVE CarriedOne(f, PoweredByFindings(b), a, b)
  <2> DEFINE tells == {"powered-by"} \cup PhpFacts
             agree(in) == When(Answered(in, "httpx") /\ in.saw["httpx"] \cap tells # {}, {"httpx"})
             finding(in) == Corroborated(
               Single("informational", "informational", "powered by", "", "url", "powered-by", "http"), agree(in), {})
             found(in) == Answered(in, "http") /\ in.saw["http"] \cap tells # {}
  <2>1. \A in : PoweredByFindings(in) = When(found(in), {finding(in)})
    BY DEF PoweredByFindings
  <2> HIDE DEF tells
  <2>2. Alike(a, b, "http") => (found(a) <=> found(b))
    BY <1>3
  <2> HIDE DEF agree, found
  <2>3. found(a) /\ f = finding(a)
    BY <2>1, Zenon DEF When
  <2>4. found(b) => finding(b) \in PoweredByFindings(b)
    BY <2>1, Zenon DEF When
  <2> QED
    BY <1>1, <1>2, <2>2, <2>3, <2>4, CorroboratedCarried
<1>8. ASSUME NEW f \in CookieFindings(a) PROVE CarriedOne(f, CookieFindings(b), a, b)
  <2>1. f = Single("misconfiguration", "medium", "insecure cookie", "", "url", "insecure-cookie", "httpx")
    BY Zenon DEF CookieFindings, When
  <2>2. Decides("httpx", "insecure cookie") /\ Behind("insecure cookie") = {"http", "httpx"}
    BY Deciders, BehindTitles
  <2>3. Alike(a, b, "http") /\ Alike(a, b, "httpx") => f \in CookieFindings(b)
    BY <1>3 DEF CookieFindings, When, Saw
  <2> QED
    BY <2>1, <2>2, <2>3, SingleCarried
<1>9. ASSUME NEW f \in HttpErrorFindings(a) PROVE CarriedOne(f, HttpErrorFindings(b), a, b)
  <2>1. f = Single("informational", "informational", "HTTP check failed", "", "target", "", "http")
    BY Zenon DEF HttpErrorFindings, When
  <2>2. Alike(a, b, "http") => f \in HttpErrorFindings(b)
    BY <1>3, Zenon DEF HttpErrorFindings, When
  <2> QED
    BY <1>1, <1>2, <2>1, <2>2, SingleCarried
<1> QED
  BY <1>4, <1>5, <1>6, <1>7, <1>8, <1>9 DEF Carried

\* The certificate and the protocols.
LEMMA TlsCarried ==
    ASSUME NEW a, NEW b
    PROVE  /\ Carried(TlsErrorFindings(a), TlsErrorFindings(b), a, b)
           /\ Carried(ExpiredFindings(a), ExpiredFindings(b), a, b)
           /\ Carried(ExpiringFindings(a), ExpiringFindings(b), a, b)
           /\ Carried(LegacyFindings(a), LegacyFindings(b), a, b)
           /\ Carried(SelfSignedFindings(a), SelfSignedFindings(b), a, b)
           /\ Carried(WeaknessFindings(a), WeaknessFindings(b), a, b)
<1>1. \A title \in TlsTitles : Decides("tls", title) /\ "tls" \in Behind(title)
  BY Deciders DEF Decides
<1>2. /\ "TLS check failed" \in TlsTitles /\ "certificate expired" \in TlsTitles
      /\ "certificate expires soon" \in TlsTitles /\ "outdated TLS" \in TlsTitles /\ "self-signed" \in TlsTitles
  BY DEF TlsTitles
<1>3. \A t : Alike(a, b, t) => /\ a.saw[t] = b.saw[t] /\ (t \in a.err <=> t \in b.err)
                               /\ \A fact : Saw(a, t, fact) <=> Saw(b, t, fact)
  BY DEF Alike, Saw
<1>4. ASSUME NEW f \in TlsErrorFindings(a) PROVE CarriedOne(f, TlsErrorFindings(b), a, b)
  <2>1. f = Single("informational", "informational", "TLS check failed", "", "tls", "", "tls")
    BY Zenon DEF TlsErrorFindings, When
  <2>2. Alike(a, b, "tls") => f \in TlsErrorFindings(b)
    BY <1>3, Zenon DEF TlsErrorFindings, When
  <2> QED
    BY <1>1, <1>2, <2>1, <2>2, SingleCarried
<1>5. ASSUME NEW f \in ExpiredFindings(a) PROVE CarriedOne(f, ExpiredFindings(b), a, b)
  <2> DEFINE agree(in) == {t \in {"nuclei", "testssl"} : Saw(in, t, "expired")}
             disagree(in) == {t \in {"nuclei", "testssl"} : ~Saw(in, t, "expired") /\ t \in in.ok}
             finding(in) == Corroborated(
               Single("misconfiguration", "high", "certificate expired", "", "tls", "cert-expired", "tls"),
               agree(in), disagree(in))
  <2>1. \A in : ExpiredFindings(in) = When(Saw(in, "tls", "expired"), {finding(in)})
    BY DEF ExpiredFindings
  <2> HIDE DEF agree, disagree
  <2>2. Saw(a, "tls", "expired") /\ f = finding(a)
    BY <2>1, Zenon DEF When
  <2>3. Saw(b, "tls", "expired") => finding(b) \in ExpiredFindings(b)
    BY <2>1, Zenon DEF When
  <2> QED
    BY <1>1, <1>2, <1>3, <2>2, <2>3, CorroboratedCarried
<1>6. ASSUME NEW f \in ExpiringFindings(a) PROVE CarriedOne(f, ExpiringFindings(b), a, b)
  <2> DEFINE agree(in) == When(Answered(in, "httpx") /\ Saw(in, "httpx", "certificate date"), {"httpx"})
             finding(in) == Corroborated(
               Single("misconfiguration", "medium", "certificate expires soon", "", "tls", "cert-expiring", "tls"),
               agree(in), {})
             found(in) == Saw(in, "tls", "expiring") /\ ~Saw(in, "tls", "expired")
  <2>1. \A in : ExpiringFindings(in) = When(found(in), {finding(in)})
    BY DEF ExpiringFindings
  <2>2. Alike(a, b, "tls") => (found(a) <=> found(b))
    BY <1>3
  <2> HIDE DEF agree, found
  <2>3. found(a) /\ f = finding(a)
    BY <2>1, Zenon DEF When
  <2>4. found(b) => finding(b) \in ExpiringFindings(b)
    BY <2>1, Zenon DEF When
  <2> QED
    BY <1>1, <1>2, <2>2, <2>3, <2>4, CorroboratedCarried
<1>7. ASSUME NEW f \in LegacyFindings(a) PROVE CarriedOne(f, LegacyFindings(b), a, b)
  <2> DEFINE agree(in) == {t \in {"nuclei", "testssl"} : Saw(in, t, "tls10")}
             finding(in) == Corroborated(
               Single("outdated-technology", "high", "outdated TLS", "", "tls", "tls-legacy", "tls"), agree(in), {})
  <2>1. \A in : LegacyFindings(in) = When(Saw(in, "tls", "tls10"), {finding(in)})
    BY DEF LegacyFindings
  <2> HIDE DEF agree
  <2>2. Saw(a, "tls", "tls10") /\ f = finding(a)
    BY <2>1, Zenon DEF When
  <2>3. Saw(b, "tls", "tls10") => finding(b) \in LegacyFindings(b)
    BY <2>1, Zenon DEF When
  <2> QED
    BY <1>1, <1>2, <1>3, <2>2, <2>3, CorroboratedCarried
<1>8. ASSUME NEW f \in SelfSignedFindings(a) PROVE CarriedOne(f, SelfSignedFindings(b), a, b)
  <2> DEFINE agree(in) == {t \in {"nuclei", "testssl"} : Saw(in, t, "self-signed")}
             finding(in) == Corroborated(
               Single("informational", "low", "self-signed", "", "tls", "self-signed", "tls"), agree(in), {})
  <2>1. \A in : SelfSignedFindings(in) = When(Saw(in, "tls", "self-signed"), {finding(in)})
    BY DEF SelfSignedFindings
  <2> HIDE DEF agree
  <2>2. Saw(a, "tls", "self-signed") /\ f = finding(a)
    BY <2>1, Zenon DEF When
  <2>3. Saw(b, "tls", "self-signed") => finding(b) \in SelfSignedFindings(b)
    BY <2>1, Zenon DEF When
  <2> QED
    BY <1>1, <1>2, <1>3, <2>2, <2>3, CorroboratedCarried
<1>9. ASSUME NEW f \in WeaknessFindings(a) PROVE CarriedOne(f, WeaknessFindings(b), a, b)
  <2> DEFINE agree(in, w) == When(Saw(in, "nuclei", w), {"nuclei"})
             finding(in, w) == Corroborated(
               Single("misconfiguration", WeaknessSeverity(w), "TLS weakness", w, "tls", "tls-legacy", "testssl"),
               agree(in, w), {})
  <2>1. \A in : WeaknessFindings(in) = {finding(in, w) : w \in in.saw["testssl"]}
    BY DEF WeaknessFindings
  <2> HIDE DEF agree
  <2>2. PICK w \in a.saw["testssl"] : f = finding(a, w)
    BY <2>1
  <2>3. w \in b.saw["testssl"] => finding(b, w) \in WeaknessFindings(b)
    BY <2>1
  <2>4. Decides("testssl", "TLS weakness") /\ "testssl" \in Behind("TLS weakness")
    BY Deciders DEF Decides
  <2> QED
    BY <1>3, <2>2, <2>3, <2>4, CorroboratedCarried
<1> QED
  BY <1>4, <1>5, <1>6, <1>7, <1>8, <1>9 DEF Carried

\* The software that runs there, and its weaknesses.
LEMMA SoftwareCarried ==
    ASSUME NEW a, NEW b
    PROVE  /\ Carried(TechnologyFindings(a), TechnologyFindings(b), a, b)
           /\ Carried(WordPressFindings(a), WordPressFindings(b), a, b)
           /\ Carried(VulnerabilityFindings(a), VulnerabilityFindings(b), a, b)
           /\ Carried(CveFindings(a), CveFindings(b), a, b)
<1>1. \A title \in WhatwebTitles : Decides("whatweb", title) /\ "whatweb" \in Behind(title)
  BY Deciders DEF Decides
<1>2. "technologies" \in WhatwebTitles /\ "WordPress detected" \in WhatwebTitles
  BY DEF WhatwebTitles
<1>3. \A t : Alike(a, b, t) => a.saw[t] = b.saw[t] /\ \A fact : Saw(a, t, fact) <=> Saw(b, t, fact)
  BY DEF Alike, Saw
<1>4. ASSUME NEW f \in TechnologyFindings(a) PROVE CarriedOne(f, TechnologyFindings(b), a, b)
  <2> DEFINE agree(in) == When(Answered(in, "httpx") /\ in.saw["whatweb"] \cap in.saw["httpx"] # {}, {"httpx"})
                          \cup When(in.saw["whatweb"] \cap in.saw["nmap"] # {}, {"nmap"})
             finding(in) == Corroborated(
               Single("informational", "informational", "technologies", "", "target", "tech-versions", "whatweb"),
               agree(in), {})
  <2>1. \A in : TechnologyFindings(in) = When(in.saw["whatweb"] # {}, {finding(in)})
    BY DEF TechnologyFindings
  <2> HIDE DEF agree
  <2>2. a.saw["whatweb"] # {} /\ f = finding(a)
    BY <2>1, Zenon DEF When
  <2>3. b.saw["whatweb"] # {} => finding(b) \in TechnologyFindings(b)
    BY <2>1, Zenon DEF When
  <2> QED
    BY <1>1, <1>2, <1>3, <2>2, <2>3, CorroboratedCarried
<1>5. ASSUME NEW f \in WordPressFindings(a) PROVE CarriedOne(f, WordPressFindings(b), a, b)
  <2> DEFINE agree(in) == When(in.ran /\ Answered(in, "wpscan"), {"wpscan"})
                          \cup When(Answered(in, "httpx") /\ Saw(in, "httpx", "wordpress"), {"httpx"})
             finding(in) == Corroborated(
               Single("wordpress", "informational", "WordPress detected", "", "target", "wordpress", "whatweb"),
               agree(in), {})
  <2>1. \A in : WordPressFindings(in) = When(Saw(in, "whatweb", "wordpress"), {finding(in)})
    BY DEF WordPressFindings
  <2> HIDE DEF agree
  <2>2. Saw(a, "whatweb", "wordpress") /\ f = finding(a)
    BY <2>1, Zenon DEF When
  <2>3. Saw(b, "whatweb", "wordpress") => finding(b) \in WordPressFindings(b)
    BY <2>1, Zenon DEF When
  <2> QED
    BY <1>1, <1>2, <1>3, <2>2, <2>3, CorroboratedCarried
<1>6. ASSUME NEW f \in VulnerabilityFindings(a) PROVE CarriedOne(f, VulnerabilityFindings(b), a, b)
  <2> DEFINE nuclei(v) == Single("vulnerability", NucleiSeverity(v), "nuclei template", v, "matched", "vuln-generic", "nuclei")
             agree(in, v) == When(Saw(in, "osv", v), {"osv"})
             retire(in, v) == Corroborated(
               Single("vulnerability", "medium", "vulnerable component", v, "target", "vuln-generic", "retire"),
               agree(in, v), {})
  <2>1. \A in : VulnerabilityFindings(in) = {nuclei(v) : v \in in.saw["nuclei"]}
                                            \cup {retire(in, v) : v \in in.saw["retire"]}
    BY DEF VulnerabilityFindings
  <2> HIDE DEF agree
  <2>2. /\ Decides("nuclei", "nuclei template") /\ "nuclei" \in Behind("nuclei template")
        /\ Decides("retire", "vulnerable component") /\ "retire" \in Behind("vulnerable component")
    BY Deciders DEF Decides
  <2>3. ASSUME NEW v \in a.saw["nuclei"], f = nuclei(v) PROVE CarriedOne(f, VulnerabilityFindings(b), a, b)
    <3>1. v \in b.saw["nuclei"] => nuclei(v) \in VulnerabilityFindings(b)
      BY <2>1
    <3> QED
      BY <1>3, <2>2, <2>3, <3>1, SingleCarried
  <2>4. ASSUME NEW v \in a.saw["retire"], f = retire(a, v) PROVE CarriedOne(f, VulnerabilityFindings(b), a, b)
    <3>1. v \in b.saw["retire"] => retire(b, v) \in VulnerabilityFindings(b)
      BY <2>1
    <3> QED
      BY <1>3, <2>2, <2>4, <3>1, CorroboratedCarried
  <2> QED
    BY <2>1, <2>3, <2>4
<1>7. ASSUME NEW f \in CveFindings(a) PROVE CarriedOne(f, CveFindings(b), a, b)
  <2> DEFINE agree(in, c) == When(Saw(in, "whatweb", c) /\ c \notin PackageNamedDifferently, {"whatweb"})
             finding(in, c) == Corroborated(
               Single("outdated-technology", "high", "known CVEs", c, "target", "cve-package", "osv"), agree(in, c), {})
  <2>1. \A in : CveFindings(in) = {finding(in, c) : c \in in.saw["osv"]}
    BY DEF CveFindings
  <2> HIDE DEF agree
  <2>2. PICK c \in a.saw["osv"] : f = finding(a, c)
    BY <2>1
  <2>3. c \in b.saw["osv"] => finding(b, c) \in CveFindings(b)
    BY <2>1
  <2>4. Decides("osv", "known CVEs") /\ "osv" \in Behind("known CVEs")
    BY Deciders DEF Decides
  <2> QED
    BY <1>3, <2>2, <2>3, <2>4, CorroboratedCarried
<1> QED
  BY <1>4, <1>5, <1>6, <1>7 DEF Carried

\* The paths found and the paths archived.
LEMMA PathCarried ==
    ASSUME NEW a, NEW b
    PROVE  /\ Carried(PathFindings(a), PathFindings(b), a, b)
           /\ Carried(ArchivedFindings(a), ArchivedFindings(b), a, b)
<1>1. \A title \in ArchiveTitles : Decides("waybackurls", title) /\ "waybackurls" \in Behind(title)
  BY Deciders DEF Decides
<1>2. "archived sensitive paths" \in ArchiveTitles /\ "archived credentials" \in ArchiveTitles
  BY DEF ArchiveTitles
<1>3. ASSUME NEW f \in PathFindings(a) PROVE CarriedOne(f, PathFindings(b), a, b)
  <2> DEFINE paths(in) == in.saw["feroxbuster"] \ {"/forbidden"}
             archived(in) == paths(in) \cap in.saw["waybackurls"]
             agree(in) == When(archived(in) # {} /\ "waybackurls" \in in.ok, {"waybackurls"})
             severity(in) == IF archived(in) # {} THEN "medium" ELSE "informational"
             number(in) == ToString(Cardinality(paths(in)))
             finding(in) == Corroborated(Single("exposure", severity(in), "discoverable paths", number(in), "target",
                                                "exposed-paths", "feroxbuster"), agree(in), {})
  <2>1. \A in : PathFindings(in) = When(paths(in) # {}, {finding(in)})
    BY DEF PathFindings
  <2>2. Decides("feroxbuster", "discoverable paths") /\ Behind("discoverable paths") = {"feroxbuster", "waybackurls"}
    BY Deciders, BehindTitles
  <2>3. Alike(a, b, "feroxbuster") /\ Alike(a, b, "waybackurls")
          => paths(a) = paths(b) /\ severity(a) = severity(b) /\ number(a) = number(b)
    BY DEF Alike
  <2> HIDE DEF agree, severity, number, paths
  <2>4. paths(a) # {} /\ f = finding(a)
    BY <2>1, Zenon DEF When
  <2>5. paths(b) # {} => finding(b) \in PathFindings(b)
    BY <2>1, Zenon DEF When
  <2> QED
    BY <2>2, <2>3, <2>4, <2>5, CorroboratedCarried
<1>4. ASSUME NEW f \in ArchivedFindings(a) PROVE CarriedOne(f, ArchivedFindings(b), a, b)
  <2> DEFINE sensitive(in) == in.saw["waybackurls"] \cap SensitivePaths
             live(in) == sensitive(in) \cap in.saw["live"]
             credentials(in) == in.saw["waybackurls"] \cap CredentialPaths
             agree(in) == When(live(in) # {} /\ "feroxbuster" \in in.ok, {"feroxbuster"})
             severity(in) == IF live(in) # {} THEN "high" ELSE IF Cardinality(sensitive(in)) > 3 THEN "medium" ELSE "low"
             number(in) == ToString(Cardinality(sensitive(in)))
             archived(in) == Corroborated(Single("exposure", severity(in), "archived sensitive paths", number(in), "host",
                                                 "archived-exposure", "waybackurls"), agree(in), {})
             tokens(in) == ToString(Cardinality(credentials(in)))
             leaked(in) == Single("exposure", "critical", "archived credentials", tokens(in), "host",
                                  "leaked-url-credentials", "waybackurls")
  <2>1. \A in : ArchivedFindings(in) = When(sensitive(in) # {}, {archived(in)}) \cup When(credentials(in) # {}, {leaked(in)})
    BY DEF ArchivedFindings
  <2>2. Alike(a, b, "waybackurls") => /\ sensitive(a) = sensitive(b) /\ severity(a) = severity(b) /\ number(a) = number(b)
                                      /\ credentials(a) = credentials(b) /\ tokens(a) = tokens(b)
    BY DEF Alike
  <2> HIDE DEF agree, severity, number, tokens, sensitive, credentials
  <2>3. \/ sensitive(a) # {} /\ f = archived(a)
        \/ credentials(a) # {} /\ f = leaked(a)
    BY <2>1, Zenon DEF When
  <2>4. /\ sensitive(b) # {} => archived(b) \in ArchivedFindings(b)
        /\ credentials(b) # {} => leaked(b) \in ArchivedFindings(b)
    BY <2>1, Zenon DEF When
  <2>5. CASE sensitive(a) # {} /\ f = archived(a)
    BY <1>1, <1>2, <2>2, <2>4, <2>5, CorroboratedCarried
  <2>6. CASE credentials(a) # {} /\ f = leaked(a)
    BY <1>1, <1>2, <2>2, <2>4, <2>6, SingleCarried
  <2> QED
    BY <2>3, <2>5, <2>6
<1> QED
  BY <1>3, <1>4 DEF Carried

\* A table of two parts has the findings of both.
LEMMA TableParts ==
    \A in, tool, rows, others :
        ByTable(in, tool, rows \cup others) = ByTable(in, tool, rows) \cup ByTable(in, tool, others)
BY DEF ByTable

\* Two tools step in for another one that delivered nothing, which a complete
\* scan is never in need of.
LEMMA StandInsCarried ==
    ASSUME NEW a, NEW b
    PROVE  /\ Carried(PostureCookieFindings(a), PostureCookieFindings(b), a, b)
           /\ Carried(DnsHardeningFindings(a), DnsHardeningFindings(b), a, b)
<1> DEFINE samesite == Row("no samesite", "misconfiguration", "low", "no SameSite", "url", "insecure-cookie")
           cookie == Row("insecure cookie", "misconfiguration", "medium", "insecure cookie", "url", "insecure-cookie")
           hardening == {Row("no caa", "misconfiguration", "low", "no CAA", "domain", "caa-missing"),
                         Row("no dkim", "misconfiguration", "medium", "no DKIM", "domain", "dkim-missing")}
           dmarc == Row("dmarc p=none", "misconfiguration", "medium", "DMARC p=none", "domain", "dmarc-none")
           weak == Single("misconfiguration", "medium", "insecure cookie", "", "url", "insecure-cookie", "header-posture")
           none == Single("misconfiguration", "medium", "DMARC p=none", "", "domain", "dmarc-none", "dns-hardening")
<1>1. \A in : /\ PostureCookieFindings(in) = ByTable(in, "header-posture", {samesite})
                                             \cup ByTable(in, "header-posture", When("httpx" \notin in.got, {cookie}))
              /\ DnsHardeningFindings(in) = ByTable(in, "dns-hardening", hardening)
                                            \cup ByTable(in, "dns-hardening", When(~Answered(in, "email"), {dmarc}))
  <2>1. \A in : /\ PostureCookieFindings(in)
                     = ByTable(in, "header-posture", {samesite} \cup When("httpx" \notin in.got, {cookie}))
                /\ DnsHardeningFindings(in)
                     = ByTable(in, "dns-hardening", hardening \cup When(~Answered(in, "email"), {dmarc}))
    BY DEF PostureCookieFindings, DnsHardeningFindings
  <2> HIDE DEF samesite, cookie, hardening, dmarc
  <2> QED
    <3> TAKE in
    <3> DEFINE cookies == When("httpx" \notin in.got, {cookie})
               dmarcs == When(~Answered(in, "email"), {dmarc})
    <3>1. /\ PostureCookieFindings(in) = ByTable(in, "header-posture", {samesite} \cup cookies)
          /\ DnsHardeningFindings(in) = ByTable(in, "dns-hardening", hardening \cup dmarcs)
      BY <2>1
    <3> HIDE DEF cookies, dmarcs
    <3>2. PostureCookieFindings(in) = ByTable(in, "header-posture", {samesite}) \cup ByTable(in, "header-posture", cookies)
      BY <3>1, TableParts
    <3>3. DnsHardeningFindings(in) = ByTable(in, "dns-hardening", hardening) \cup ByTable(in, "dns-hardening", dmarcs)
      BY <3>1, TableParts
    <3> QED
      BY <3>2, <3>3 DEF cookies, dmarcs
<1>2. \A in, f : f \in ByTable(in, "header-posture", When("httpx" \notin in.got, {cookie}))
                   <=> "httpx" \notin in.got /\ Saw(in, "header-posture", "insecure cookie") /\ f = weak
  <2>1. /\ cookie.fact = "insecure cookie"
        /\ weak = Single(cookie.category, cookie.severity, cookie.title, "", cookie.at, cookie.key, "header-posture")
    BY DEF Row
  <2> HIDE DEF cookie, weak
  <2> QED
    BY <2>1 DEF ByTable, When
<1>3. \A in, f : f \in ByTable(in, "dns-hardening", When(~Answered(in, "email"), {dmarc}))
                   <=> ~Answered(in, "email") /\ Saw(in, "dns-hardening", "dmarc p=none") /\ f = none
  <2>1. /\ dmarc.fact = "dmarc p=none"
        /\ none = Single(dmarc.category, dmarc.severity, dmarc.title, "", dmarc.at, dmarc.key, "dns-hardening")
    BY DEF Row
  <2> HIDE DEF dmarc, none
  <2> QED
    BY <2>1 DEF ByTable, When
<1>4. /\ Titled(samesite, HeaderTitles) /\ \A r \in hardening : Titled(r, DomainTitles)
  <2>1. /\ Titled(samesite, HeaderTitles)
        /\ Titled(Row("no caa", "misconfiguration", "low", "no CAA", "domain", "caa-missing"), DomainTitles)
        /\ Titled(Row("no dkim", "misconfiguration", "medium", "no DKIM", "domain", "dkim-missing"), DomainTitles)
    BY DEF Titled, Row, HeaderTitles, DomainTitles
  <2> QED
    BY <2>1
<1>5. /\ \A title \in HeaderTitles : Decides("header-posture", title)
      /\ \A title \in DomainTitles : Decides("dns-hardening", title)
  BY Deciders
<1>6. /\ weak.title = "insecure cookie" /\ "header-posture" \in Upstream(weak)
      /\ {"http", "httpx"} \subseteq Upstream(weak)
  <2>1. weak.title = "insecure cookie" /\ weak.key = "insecure-cookie" /\ weak.sources = {"header-posture"}
    BY DEF Single
  <2> HIDE DEF weak
  <2>2. {"http", "httpx"} \subseteq When(weak.key = "insecure-cookie", {"http", "httpx"})
    BY <2>1 DEF When
  <2> QED
    BY <2>1, <2>2 DEF Upstream
<1>7. /\ none.title = "DMARC p=none" /\ "dns-hardening" \in Upstream(none) /\ "email" \in Upstream(none)
  <2>1. none.title = "DMARC p=none" /\ none.sources = {"dns-hardening"} /\ Feeds("dns-hardening") = {"email"}
    BY DEF Single, Feeds
  <2> HIDE DEF none
  <2> QED
    BY <2>1 DEF Upstream
<1>8. Behind("insecure cookie") = {"http", "httpx"} /\ Behind("DMARC p=none") = {"email"}
  BY BehindTitles DEF EmailTitles
<1>9. {"header-posture", "httpx", "dns-hardening", "email"} \subseteq Plannable
  BY DEF Plannable, Tools
<1> HIDE DEF samesite, cookie, hardening, dmarc, weak, none
<1>10. ASSUME NEW f \in ByTable(a, "header-posture", {samesite})
       PROVE  CarriedOne(f, ByTable(b, "header-posture", {samesite}), a, b)
  BY <1>4, <1>5, RowsCarried
<1>11. ASSUME NEW f \in ByTable(a, "dns-hardening", hardening)
       PROVE  CarriedOne(f, ByTable(b, "dns-hardening", hardening), a, b)
  BY <1>4, <1>5, RowsCarried
<1>12. ASSUME "httpx" \notin a.got, Saw(a, "header-posture", "insecure cookie")
       PROVE  CarriedOne(weak, PostureCookieFindings(b), a, b)
  <2>1. Sufficient(a, b, weak) => Alike(a, b, "httpx") /\ Alike(a, b, "header-posture")
    BY <1>6, <1>9, <1>12 DEF Sufficient, Complete
  <2>2. Sufficient(a, b, weak) => "httpx" \notin b.got /\ Saw(b, "header-posture", "insecure cookie")
    BY <1>12, <2>1 DEF Alike, Saw
  <2>3. Sufficient(a, b, weak) => weak \in PostureCookieFindings(b)
    BY <1>1, <1>2, <2>2
  <2> QED
    BY <1>6, <1>8, <2>3 DEF CarriedOne
<1>13. ASSUME ~Answered(a, "email"), Saw(a, "dns-hardening", "dmarc p=none")
       PROVE  CarriedOne(none, DnsHardeningFindings(b), a, b)
  <2>1. Sufficient(a, b, none) => Alike(a, b, "email") /\ Alike(a, b, "dns-hardening")
    BY <1>7, <1>9, <1>13 DEF Sufficient, Complete
  <2>2. Sufficient(a, b, none) => ~Answered(b, "email") /\ Saw(b, "dns-hardening", "dmarc p=none")
    BY <1>13, <2>1 DEF Alike, Saw, Answered
  <2>3. Sufficient(a, b, none) => none \in DnsHardeningFindings(b)
    BY <1>1, <1>3, <2>2
  <2> QED
    BY <1>7, <1>8, <2>3 DEF CarriedOne
<1>14. ASSUME NEW f \in PostureCookieFindings(a) PROVE CarriedOne(f, PostureCookieFindings(b), a, b)
  <2>1. CASE f \in ByTable(a, "header-posture", {samesite})
    BY <1>1, <1>10, <2>1 DEF CarriedOne
  <2>2. CASE f \in ByTable(a, "header-posture", When("httpx" \notin a.got, {cookie}))
    <3>1. "httpx" \notin a.got /\ Saw(a, "header-posture", "insecure cookie") /\ f = weak
      BY <1>2, <2>2, Zenon
    <3> QED
      BY <1>12, <3>1
  <2> QED
    BY <1>1, <2>1, <2>2
<1>15. ASSUME NEW f \in DnsHardeningFindings(a) PROVE CarriedOne(f, DnsHardeningFindings(b), a, b)
  <2>1. CASE f \in ByTable(a, "dns-hardening", hardening)
    BY <1>1, <1>11, <2>1 DEF CarriedOne
  <2>2. CASE f \in ByTable(a, "dns-hardening", When(~Answered(a, "email"), {dmarc}))
    <3>1. ~Answered(a, "email") /\ Saw(a, "dns-hardening", "dmarc p=none") /\ f = none
      BY <1>3, <2>2, Zenon
    <3> QED
      BY <1>13, <3>1
  <2> QED
    BY <1>1, <2>1, <2>2
<1> QED
  BY <1>14, <1>15 DEF Carried

\* The release of PHP hangs on the tools that can see it.
LEMMA PhpCarried ==
    ASSUME NEW a, NEW b
    PROVE  Carried(PhpFindings(a), PhpFindings(b), a, b)
<1> DEFINE seers == {"whatweb", "http", "httpx"}
           order == <<"whatweb", "http", "httpx">>
           same == \A t \in seers : a.saw[t] = b.saw[t]
<1>1. same => PhpSources(a) = PhpSources(b)
  BY DEF PhpSources
<1>2. same => PhpDetected(a) = PhpDetected(b)
  <2> DEFINE known(in) == {i \in 1..3 : \E fact \in in.saw[order[i]] \cap PhpFacts : Release(fact) # <<>>}
             first(K) == CHOOSE i \in K : \A j \in K : i <= j
             told(S) == CHOOSE fact \in S \cap PhpFacts : Release(fact) # <<>>
             php(K, S) == IF K = {} THEN "php" ELSE told(S)
  <2>1. \A in : PhpDetected(in) = php(known(in), in.saw[order[first(known(in))]])
    BY DEF PhpDetected
  <2>2. \A i \in 1..3 : order[i] \in seers
    OBVIOUS
  <2>3. same => known(a) = known(b)
    <3> HIDE DEF order
    <3> QED
      BY <2>2
  <2>4. \A K \in SUBSET (1..3) : K # {} => first(K) \in 1..3
    <3> SUFFICES ASSUME NEW K \in SUBSET (1..3), K # {} PROVE \E i \in K : \A j \in K : i <= j
      OBVIOUS
    <3>1. CASE 1 \in K
      BY <3>1
    <3>2. CASE 1 \notin K /\ 2 \in K
      BY <3>2
    <3>3. CASE 1 \notin K /\ 2 \notin K
      <4>1. \A k \in K : k = 3
        BY <3>3
      <4>2. 3 \in K
        BY <4>1
      <4> QED
        BY <4>1, <4>2
    <3> QED
      BY <3>1, <3>2, <3>3
  <2>5. known(a) \in SUBSET (1..3)
    OBVIOUS
  <2>6. php({}, a.saw[order[first({})]]) = php({}, b.saw[order[first({})]])
    OBVIOUS
  <2> HIDE DEF known, first, php, order
  <2>7. same /\ known(a) # {} => a.saw[order[first(known(a))]] = b.saw[order[first(known(a))]]
    BY <2>2, <2>4, <2>5
  <2> QED
    BY <2>1, <2>3, <2>6, <2>7
<1> DEFINE state(in) == EvaluatePhpAdvisory(Release(PhpDetected(in)))
           base(in) == IF state(in) = "vulnerable"
                       THEN Single("vulnerability", "critical", "PHP2Shell", PhpDetected(in), "target", "php2shell", "http")
                       ELSE Single("vulnerability", "medium", "PHP version unknown", "", "target", "php2shell", "http")
           finding(in) == Corroborated([base(in) EXCEPT !.sources = PhpSources(in)], {}, {})
           found(in) == PhpSources(in) # {} /\ state(in) # "fixed"
<1>3. \A in : PhpFindings(in) = When(found(in), {finding(in)})
  BY DEF PhpFindings
<1>4. \A t \in seers : Alike(a, b, t) => a.saw[t] = b.saw[t]
  BY DEF Alike
<1>5. finding(a).key = "php2shell" /\ finding(a).title \in PhpTitles
  <2> DEFINE some(severity, title, arg) ==
               Corroborated([Single("vulnerability", severity, title, arg, "target", "php2shell", "http")
                               EXCEPT !.sources = PhpSources(a)], {}, {})
  <2>1. \A severity, title, arg : /\ some(severity, title, arg).key = "php2shell"
                                  /\ some(severity, title, arg).title = title
    BY DEF Corroborated, Single
  <2>2. \E severity, arg : \E title \in PhpTitles : finding(a) = some(severity, title, arg)
    <3>1. CASE state(a) = "vulnerable"
      <4>1. "PHP2Shell" \in PhpTitles
        BY DEF PhpTitles
      <4>2. finding(a) = some("critical", "PHP2Shell", PhpDetected(a))
        BY <3>1
      <4> HIDE DEF finding, some
      <4> QED
        BY <4>1, <4>2, Zenon
    <3>2. CASE state(a) # "vulnerable"
      <4>1. "PHP version unknown" \in PhpTitles
        BY DEF PhpTitles
      <4>2. finding(a) = some("medium", "PHP version unknown", "")
        BY <3>2, Zenon
      <4> HIDE DEF finding, some
      <4> QED
        BY <4>1, <4>2, Zenon
    <3> QED
      BY <3>1, <3>2
  <2> HIDE DEF some, finding
  <2> QED
    BY <2>1, <2>2
<1>6. same => finding(a) = finding(b) /\ (found(a) <=> found(b))
  BY <1>1, <1>2
<1>7. \A title \in PhpTitles : Behind(title) = seers
  BY BehindTitles
<1>8. seers \subseteq Plannable
  BY DEF Plannable, Tools
<1> HIDE DEF finding, found, state, base
<1> SUFFICES ASSUME NEW f \in PhpFindings(a)
             PROVE  CarriedOne(f, PhpFindings(b), a, b)
  BY DEF Carried
<1>9. found(a) /\ f = finding(a)
  BY <1>3, Zenon DEF When
<1>10. seers \subseteq Upstream(f)
  <2>1. seers = When(f.key = "php2shell", {"whatweb", "http", "httpx"})
    BY <1>5, <1>9 DEF When
  <2> HIDE DEF seers
  <2> QED
    BY <2>1 DEF Upstream
<1>11. Behind(f.title) = seers
  BY <1>5, <1>7, <1>9
<1> HIDE DEF seers
<1>12. Sufficient(a, b, f) => same
  BY <1>4, <1>8, <1>10, <1>11 DEF Sufficient
<1>13. found(b) => finding(b) \in PhpFindings(b)
  BY <1>3, Zenon DEF When
<1> QED
  BY <1>6, <1>9, <1>10, <1>11, <1>12, <1>13 DEF CarriedOne

\* Every finding is carried over by the tools that decide it: what buildFindings
\* reports from some tools does not hang on the failure of others.
LEMMA FindingsCarried ==
    ASSUME NEW a, NEW b
    PROVE  Carried(BuildFindings(a), BuildFindings(b), a, b)
<1> DEFINE into(A) == Carried(A, BuildFindings(b), a, b)
<1>1. \A A, B : Carried(A, B, a, b) /\ B \subseteq BuildFindings(b) => into(A)
  BY CarriedInto
<1>2. \A A, B : into(A) /\ into(B) => into(A \cup B)
  BY DEF Carried
<1>3. into(PortFindings(a)) /\ into(HeaderFindings(a)) /\ into(BannerFindings(a)) /\ into(PoweredByFindings(a))
  <2>1. UNION {PortFindings(b), HeaderFindings(b), BannerFindings(b), PoweredByFindings(b)} \subseteq BuildFindings(b)
    BY DEF BuildFindings
  <2> QED
    BY <1>1, <2>1, HttpCarried
<1>4. into(CookieFindings(a)) /\ into(HttpErrorFindings(a)) /\ into(TlsErrorFindings(a)) /\ into(ExpiredFindings(a))
  <2>1. UNION {CookieFindings(b), HttpErrorFindings(b), TlsErrorFindings(b), ExpiredFindings(b)} \subseteq BuildFindings(b)
    BY DEF BuildFindings
  <2> QED
    BY <1>1, <2>1, HttpCarried, TlsCarried
<1>5. into(ExpiringFindings(a)) /\ into(LegacyFindings(a)) /\ into(SelfSignedFindings(a)) /\ into(WeaknessFindings(a))
  <2>1. UNION {ExpiringFindings(b), LegacyFindings(b), SelfSignedFindings(b), WeaknessFindings(b)} \subseteq BuildFindings(b)
    BY DEF BuildFindings
  <2> QED
    BY <1>1, <2>1, TlsCarried
<1>6. into(TechnologyFindings(a)) /\ into(PhpFindings(a)) /\ into(WordPressFindings(a)) /\ into(VulnerabilityFindings(a))
  <2>1. UNION {TechnologyFindings(b), PhpFindings(b), WordPressFindings(b), VulnerabilityFindings(b)} \subseteq BuildFindings(b)
    BY DEF BuildFindings
  <2> QED
    BY <1>1, <2>1, SoftwareCarried, PhpCarried
<1>7. into(PathFindings(a)) /\ into(ArchivedFindings(a)) /\ into(CveFindings(a)) /\ into(PageFindings(a))
  <2>1. UNION {PathFindings(b), ArchivedFindings(b), CveFindings(b), PageFindings(b)} \subseteq BuildFindings(b)
    BY DEF BuildFindings
  <2> QED
    BY <1>1, <2>1, PathCarried, SoftwareCarried, TablesCarried
<1>8. into(RobotsFindings(a)) /\ into(SecurityTxtFindings(a)) /\ into(DnssecFindings(a)) /\ into(IpIntelFindings(a))
  <2>1. UNION {RobotsFindings(b), SecurityTxtFindings(b), DnssecFindings(b), IpIntelFindings(b)} \subseteq BuildFindings(b)
    BY DEF BuildFindings
  <2> QED
    BY <1>1, <2>1, TablesCarried
<1>9. into(EmailFindings(a))
  <2>1. UNION {DmarcFindings(b), SpfFindings(b), StarttlsFindings(b), MailPolicyFindings(b)} \subseteq BuildFindings(b)
    BY DEF BuildFindings, EmailFindings
  <2>2. into(DmarcFindings(a)) /\ into(SpfFindings(a)) /\ into(StarttlsFindings(a)) /\ into(MailPolicyFindings(a))
    BY <1>1, <2>1, EmailCarried, TablesCarried
  <2> QED
    BY <2>2 DEF EmailFindings, Carried
<1>10. into(PostureFindings(a)) /\ into(DnsHardeningFindings(a))
  <2>1. UNION {HstsFindings(b), CspFindings(b), PostureCookieFindings(b), DnsHardeningFindings(b)} \subseteq BuildFindings(b)
    BY DEF BuildFindings, PostureFindings
  <2>2. into(HstsFindings(a)) /\ into(CspFindings(a)) /\ into(PostureCookieFindings(a)) /\ into(DnsHardeningFindings(a))
    BY <1>1, <2>1, StandInsCarried, TablesCarried
  <2> QED
    BY <2>2 DEF PostureFindings, Carried
<1> QED
  BY <1>3, <1>4, <1>5, <1>6, <1>7, <1>8, <1>9, <1>10 DEF BuildFindings, Carried

-----------------------------------------------------------------------------
(* How severe a finding is *)

InformationalTitles == {"server banner", "powered by", "HTTP check failed", "TLS check failed", "technologies",
                        "WordPress detected", "STARTTLS probe failed", "CSP report-only", "robots disclosure",
                        "no security.txt", "infrastructure"}
LowTitles == {"missing headers", "self-signed", "no MTA-STS", "no TLS-RPT", "no HSTS", "weak HSTS", "no CSP", "weak CSP",
              "no SameSite", "no SRI", "no CAA", "no DNSSEC"}
MediumTitles == {"insecure cookie", "certificate expires soon", "vulnerable component", "DMARC p=none",
                 "DMARC without rua", "no SPF", "multiple SPF", "SPF allows any", "no STARTTLS", "mixed content", "no DKIM"}
HighTitles == {"certificate expired", "outdated TLS", "known CVEs"}

\* The severity hangs on the title, on its part that varies, and for the paths
\* on what was observed.
PortSeverity(p) == IF p \in DatabasePorts THEN "medium" ELSE IF p = "22" THEN "low" ELSE "informational"
PhpSeverity(title) == IF title = "PHP2Shell" THEN "critical" ELSE "medium"
PathSeverity(in) ==
    IF (in.saw["feroxbuster"] \ {"/forbidden"}) \cap in.saw["waybackurls"] # {} THEN "medium" ELSE "informational"
ArchiveSeverity(in) ==
    LET sensitive == in.saw["waybackurls"] \cap SensitivePaths
    IN  IF sensitive \cap in.saw["live"] # {} THEN "high" ELSE IF Cardinality(sensitive) > 3 THEN "medium" ELSE "low"
SeverityOf(in, title, arg) ==
    CASE title \in InformationalTitles -> "informational"
      [] title \in LowTitles -> "low"
      [] title \in MediumTitles -> "medium"
      [] title \in HighTitles -> "high"
      [] title \in PhpTitles -> PhpSeverity(title)
      [] title = "archived credentials" -> "critical"
      [] title = "open port" -> PortSeverity(arg)
      [] title = "TLS weakness" -> WeaknessSeverity(arg)
      [] title = "nuclei template" -> NucleiSeverity(arg)
      [] title = "no DMARC" -> IF arg = "mx" THEN "high" ELSE "medium"
      [] title = "discoverable paths" -> PathSeverity(in)
      [] title = "archived sensitive paths" -> ArchiveSeverity(in)

Graded(in, f) == f.severity = SeverityOf(in, f.title, f.arg)
Fixed(title, severity) == \A in, arg : SeverityOf(in, title, arg) = severity

\* What the definition says of each title.
LEMMA SeveritiesFixed ==
    /\ \A title \in InformationalTitles : Fixed(title, "informational")
    /\ \A title \in LowTitles : Fixed(title, "low")
    /\ \A title \in MediumTitles : Fixed(title, "medium")
    /\ \A title \in HighTitles : Fixed(title, "high")
    /\ \A title \in PhpTitles : Fixed(title, PhpSeverity(title))
    /\ Fixed("archived credentials", "critical")
<1> DEFINE single == {"archived credentials", "open port", "TLS weakness", "nuclei template", "no DMARC",
                      "discoverable paths", "archived sensitive paths"}
<1>1. \A title \in PhpTitles : title \notin UNION {InformationalTitles, LowTitles, MediumTitles, HighTitles, single}
  BY DEF InformationalTitles, LowTitles, MediumTitles, HighTitles, PhpTitles
<1>2. \A title \in HighTitles : title \notin UNION {InformationalTitles, LowTitles, MediumTitles, single}
  BY DEF InformationalTitles, LowTitles, MediumTitles, HighTitles
<1>3. \A title \in MediumTitles : title \notin UNION {InformationalTitles, LowTitles, single}
  BY DEF InformationalTitles, LowTitles, MediumTitles
<1>4. \A title \in LowTitles : title \notin UNION {InformationalTitles, single}
  BY DEF InformationalTitles, LowTitles
<1>5. \A title \in InformationalTitles : title \notin single
  BY DEF InformationalTitles
<1>6. ASSUME NEW title \in InformationalTitles PROVE Fixed(title, "informational")
  BY <1>1, <1>2, <1>3, <1>4, <1>5 DEF Fixed, SeverityOf
<1>7. ASSUME NEW title \in LowTitles PROVE Fixed(title, "low")
  BY <1>1, <1>2, <1>3, <1>4 DEF Fixed, SeverityOf
<1>8. ASSUME NEW title \in MediumTitles PROVE Fixed(title, "medium")
  BY <1>1, <1>2, <1>3 DEF Fixed, SeverityOf
<1>9. ASSUME NEW title \in HighTitles PROVE Fixed(title, "high")
  BY <1>1, <1>2 DEF Fixed, SeverityOf
<1>10. ASSUME NEW title \in PhpTitles PROVE Fixed(title, PhpSeverity(title))
  BY <1>1 DEF Fixed, SeverityOf
<1>11. Fixed("archived credentials", "critical")
  BY <1>1, <1>2, <1>3, <1>4, <1>5 DEF Fixed, SeverityOf
<1> QED
  BY <1>6, <1>7, <1>8, <1>9, <1>10, <1>11

\* What it says of the titles whose severity varies.
LEMMA SeveritiesVary ==
    \A in, arg :
      /\ SeverityOf(in, "open port", arg) = PortSeverity(arg)
      /\ SeverityOf(in, "TLS weakness", arg) = WeaknessSeverity(arg)
      /\ SeverityOf(in, "nuclei template", arg) = NucleiSeverity(arg)
      /\ SeverityOf(in, "no DMARC", arg) = IF arg = "mx" THEN "high" ELSE "medium"
      /\ SeverityOf(in, "discoverable paths", arg) = PathSeverity(in)
      /\ SeverityOf(in, "archived sensitive paths", arg) = ArchiveSeverity(in)
BY DEF SeverityOf, InformationalTitles, LowTitles, MediumTitles, HighTitles, PhpTitles

\* A row whose title has one severity, the one of the row.
FixedRow(r) == Fixed(r.title, r.severity)

\* A row of a table is fixed when its title is.
LEMMA RowsFixed ==
    \A fact, category, severity, title, at, key :
        Fixed(title, severity) => FixedRow(Row(fact, category, severity, title, at, key))
BY DEF FixedRow, Row

\* The findings of such rows are graded, and so is what says its severity.
LEMMA TableGraded ==
    ASSUME NEW in
    PROVE  \A tool, rows : (\A r \in rows : FixedRow(r)) => \A f \in ByTable(in, tool, rows) : Graded(in, f)
<1> SUFFICES ASSUME NEW tool, NEW rows, \A r \in rows : FixedRow(r), NEW f \in ByTable(in, tool, rows)
             PROVE  Graded(in, f)
  OBVIOUS
<1>1. PICK r \in {x \in rows : Saw(in, tool, x.fact)} :
        f = Single(r.category, r.severity, r.title, "", r.at, r.key, tool)
  BY Zenon DEF ByTable
<1>2. f.title = r.title /\ f.severity = r.severity /\ f.arg = ""
  BY <1>1 DEF Single
<1>3. FixedRow(r)
  OBVIOUS
<1> QED
  BY <1>2, <1>3 DEF FixedRow, Fixed, Graded

\* A finding is graded when it is built with the severity of its title.
LEMMA SingleGraded ==
    \A in, category, severity, title, arg, at, key, tool :
        severity = SeverityOf(in, title, arg) => Graded(in, Single(category, severity, title, arg, at, key, tool))
BY DEF Graded, Single

\* Corroboration does not change the severity.
LEMMA CorroboratedGraded ==
    \A in, category, severity, title, arg, at, key, tool, agree, disagree :
        severity = SeverityOf(in, title, arg)
          => Graded(in, Corroborated(Single(category, severity, title, arg, at, key, tool), agree, disagree))
BY CorroboratedBuilt DEF Graded, Built

\* The headers as graded.
LEMMA PostureGraded ==
    ASSUME NEW in
    PROVE  \A f \in UNION {HstsFindings(in), CspFindings(in), PostureCookieFindings(in)} : Graded(in, f)
<1>1. ASSUME NEW f \in HstsFindings(in) PROVE Graded(in, f)
  <2>1. Fixed("no HSTS", "low") /\ Fixed("weak HSTS", "low")
    BY SeveritiesFixed DEF LowTitles
  <2>2. /\ FixedRow(Row("no hsts", "misconfiguration", "low", "no HSTS", "url", "hsts-missing"))
        /\ FixedRow(Row("weak hsts", "misconfiguration", "low", "weak HSTS", "url", "hsts-missing"))
    BY <2>1, RowsFixed
  <2> QED
    BY <2>2, TableGraded DEF HstsFindings
<1>2. ASSUME NEW f \in CspFindings(in) PROVE Graded(in, f)
  <2>1. Fixed("CSP report-only", "informational") /\ Fixed("no CSP", "low") /\ Fixed("weak CSP", "low")
    BY SeveritiesFixed DEF InformationalTitles, LowTitles
  <2>2. /\ FixedRow(Row("no csp header", "misconfiguration", "low", "no CSP", "url", "csp-weak"))
        /\ FixedRow(Row("csp report-only", "informational", "informational", "CSP report-only", "url", "csp-weak"))
        /\ FixedRow(Row("weak csp", "misconfiguration", "low", "weak CSP", "url", "csp-weak"))
    BY <2>1, RowsFixed
  <2> QED
    BY <2>2, TableGraded DEF CspFindings
<1>3. ASSUME NEW f \in PostureCookieFindings(in) PROVE Graded(in, f)
  <2>1. Fixed("insecure cookie", "medium") /\ Fixed("no SameSite", "low")
    BY SeveritiesFixed DEF LowTitles, MediumTitles
  <2>2. /\ FixedRow(Row("no samesite", "misconfiguration", "low", "no SameSite", "url", "insecure-cookie"))
        /\ FixedRow(Row("insecure cookie", "misconfiguration", "medium", "insecure cookie", "url", "insecure-cookie"))
    BY <2>1, RowsFixed
  <2> QED
    BY <2>2, TableGraded DEF PostureCookieFindings, When
<1> QED
  BY <1>1, <1>2, <1>3

\* The page, the rules for crawlers, security.txt, the domain and its address.
LEMMA WebTrustGraded ==
    ASSUME NEW in
    PROVE  \A f \in UNION {PageFindings(in), RobotsFindings(in), SecurityTxtFindings(in),
                            DnsHardeningFindings(in), DnssecFindings(in), IpIntelFindings(in)} : Graded(in, f)
<1>1. ASSUME NEW f \in PageFindings(in) PROVE Graded(in, f)
  <2>1. Fixed("mixed content", "medium") /\ Fixed("no SRI", "low")
    BY SeveritiesFixed DEF LowTitles, MediumTitles
  <2>2. /\ FixedRow(Row("mixed content", "misconfiguration", "medium", "mixed content", "url", "mixed-content"))
        /\ FixedRow(Row("no sri", "misconfiguration", "low", "no SRI", "url", "missing-sri"))
    BY <2>1, RowsFixed
  <2> QED
    BY <2>2, TableGraded DEF PageFindings
<1>2. ASSUME NEW f \in RobotsFindings(in) PROVE Graded(in, f)
  <2>1. Fixed("robots disclosure", "informational")
    BY SeveritiesFixed DEF InformationalTitles
  <2>2. /\ FixedRow(Row("robots /admin", "exposure", "informational", "robots disclosure", "robots", "robots-disclosure"))
    BY <2>1, RowsFixed
  <2> QED
    BY <2>2, TableGraded DEF RobotsFindings
<1>3. ASSUME NEW f \in SecurityTxtFindings(in) PROVE Graded(in, f)
  <2>1. Fixed("no security.txt", "informational")
    BY SeveritiesFixed DEF InformationalTitles
  <2>2. /\ FixedRow(Row("no security.txt", "informational", "informational", "no security.txt", "security.txt", "security-txt"))
    BY <2>1, RowsFixed
  <2> QED
    BY <2>2, TableGraded DEF SecurityTxtFindings
<1>4. ASSUME NEW f \in DnsHardeningFindings(in) PROVE Graded(in, f)
  <2>1. Fixed("DMARC p=none", "medium") /\ Fixed("no CAA", "low") /\ Fixed("no DKIM", "medium")
    BY SeveritiesFixed DEF LowTitles, MediumTitles
  <2>2. /\ FixedRow(Row("no caa", "misconfiguration", "low", "no CAA", "domain", "caa-missing"))
        /\ FixedRow(Row("no dkim", "misconfiguration", "medium", "no DKIM", "domain", "dkim-missing"))
        /\ FixedRow(Row("dmarc p=none", "misconfiguration", "medium", "DMARC p=none", "domain", "dmarc-none"))
    BY <2>1, RowsFixed
  <2> QED
    BY <2>2, TableGraded DEF DnsHardeningFindings, When
<1>5. ASSUME NEW f \in DnssecFindings(in) PROVE Graded(in, f)
  <2>1. Fixed("no DNSSEC", "low")
    BY SeveritiesFixed DEF LowTitles
  <2>2. /\ FixedRow(Row("unsigned", "misconfiguration", "low", "no DNSSEC", "host", "dnssec-missing"))
    BY <2>1, RowsFixed
  <2> QED
    BY <2>2, TableGraded DEF DnssecFindings
<1>6. ASSUME NEW f \in IpIntelFindings(in) PROVE Graded(in, f)
  <2>1. Fixed("infrastructure", "informational")
    BY SeveritiesFixed DEF InformationalTitles
  <2>2. /\ FixedRow(Row("hosted", "informational", "informational", "infrastructure", "host", ""))
    BY <2>1, RowsFixed
  <2> QED
    BY <2>2, TableGraded DEF IpIntelFindings
<1> QED
  BY <1>1, <1>2, <1>3, <1>4, <1>5, <1>6

\* The mail of the domain.
LEMMA EmailGraded ==
    ASSUME NEW in
    PROVE  \A f \in UNION {SpfFindings(in), StarttlsFindings(in), MailPolicyFindings(in), DmarcFindings(in)} : Graded(in, f)
<1>1. ASSUME NEW f \in SpfFindings(in) PROVE Graded(in, f)
  <2>1. Fixed("SPF allows any", "medium") /\ Fixed("multiple SPF", "medium") /\ Fixed("no SPF", "medium")
    BY SeveritiesFixed DEF MediumTitles
  <2>2. /\ FixedRow(Row("no spf", "misconfiguration", "medium", "no SPF", "domain", "spf-missing"))
        /\ FixedRow(Row("many spf", "misconfiguration", "medium", "multiple SPF", "domain", "spf-permissive"))
        /\ FixedRow(Row("spf all", "misconfiguration", "medium", "SPF allows any", "domain", "spf-permissive"))
    BY <2>1, RowsFixed
  <2> QED
    BY <2>2, TableGraded DEF SpfFindings, When
<1>2. ASSUME NEW f \in StarttlsFindings(in) PROVE Graded(in, f)
  <2>1. Fixed("STARTTLS probe failed", "informational") /\ Fixed("no STARTTLS", "medium")
    BY SeveritiesFixed DEF InformationalTitles, MediumTitles
  <2>2. /\ FixedRow(Row("no starttls", "exposure", "medium", "no STARTTLS", "domain", "mx-starttls"))
        /\ FixedRow(Row("starttls error", "informational", "informational", "STARTTLS probe failed", "domain", ""))
    BY <2>1, RowsFixed
  <2> QED
    BY <2>2, TableGraded DEF StarttlsFindings
<1>3. ASSUME NEW f \in MailPolicyFindings(in) PROVE Graded(in, f)
  <2>1. Fixed("no MTA-STS", "low") /\ Fixed("no TLS-RPT", "low")
    BY SeveritiesFixed DEF LowTitles
  <2>2. /\ FixedRow(Row("no mta-sts", "misconfiguration", "low", "no MTA-STS", "domain", "mta-sts"))
        /\ FixedRow(Row("no tls-rpt", "misconfiguration", "low", "no TLS-RPT", "domain", "mta-sts"))
    BY <2>1, RowsFixed
  <2> QED
    BY <2>2, TableGraded DEF MailPolicyFindings, When
<1>4. ASSUME NEW f \in DmarcFindings(in) PROVE Graded(in, f)
  <2>1. Fixed("DMARC p=none", "medium") /\ Fixed("DMARC without rua", "medium")
    BY SeveritiesFixed DEF MediumTitles
  <2>2. /\ SeverityOf(in, "no DMARC", "mx") = "high" /\ SeverityOf(in, "no DMARC", "") = "medium"
    BY SeveritiesVary
  <2>3. CASE f = Single("misconfiguration", IF Saw(in, "email", "mx") THEN "high" ELSE "medium", "no DMARC",
                        IF Saw(in, "email", "mx") THEN "mx" ELSE "", "domain", "dmarc-missing", "email")
    BY <2>2, <2>3, SingleGraded
  <2>4. CASE f = Single("misconfiguration", "medium", "DMARC p=none", "", "domain", "dmarc-none", "email")
    BY <2>1, <2>4, SingleGraded DEF Fixed
  <2>5. CASE f = Single("misconfiguration", "medium", "DMARC without rua", "", "domain", "dmarc-none", "email")
    BY <2>1, <2>5, SingleGraded DEF Fixed
  <2> QED
    BY <2>3, <2>4, <2>5, Zenon DEF DmarcFindings, When, Saw
<1> QED
  BY <1>1, <1>2, <1>3, <1>4

\* The ports and the answers to HTTP requests.
LEMMA HttpGraded ==
    ASSUME NEW in
    PROVE  \A f \in UNION {PortFindings(in), HeaderFindings(in), BannerFindings(in),
                            PoweredByFindings(in), CookieFindings(in), HttpErrorFindings(in)} : Graded(in, f)
<1>1. ASSUME NEW f \in PortFindings(in) PROVE Graded(in, f)
  <2>1. PICK p \in in.saw["nmap"] \cap Ports : f = PortFinding(in, p)
    BY DEF PortFindings
  <2>2. \E key, agree :
         f = Corroborated(Single("exposure", PortSeverity(p), "open port", p, "port", key, "nmap"), agree, {})
    BY <2>1 DEF PortFinding, PortSeverity
  <2> QED
    BY <2>2, SeveritiesVary, CorroboratedGraded
<1>2. ASSUME NEW f \in HeaderFindings(in) PROVE Graded(in, f)
  <2>1. Fixed("missing headers", "low")
    BY SeveritiesFixed DEF LowTitles
  <2>2. \E agree, disagree :
         f = Corroborated(Single("misconfiguration", "low", "missing headers", "", "url", "missing-headers", "http"), agree, disagree)
    BY DEF HeaderFindings, When
  <2> QED
    BY <2>1, <2>2, CorroboratedGraded DEF Fixed
<1>3. ASSUME NEW f \in BannerFindings(in) PROVE Graded(in, f)
  <2>1. Fixed("server banner", "informational")
    BY SeveritiesFixed DEF InformationalTitles
  <2>2. \E agree, disagree :
         f = Corroborated(Single("informational", "informational", "server banner", "", "url", "server-banner", "http"), agree, disagree)
    BY DEF BannerFindings, When
  <2> QED
    BY <2>1, <2>2, CorroboratedGraded DEF Fixed
<1>4. ASSUME NEW f \in PoweredByFindings(in) PROVE Graded(in, f)
  <2>1. Fixed("powered by", "informational")
    BY SeveritiesFixed DEF InformationalTitles
  <2>2. \E agree, disagree :
         f = Corroborated(Single("informational", "informational", "powered by", "", "url", "powered-by", "http"), agree, disagree)
    BY DEF PoweredByFindings, When
  <2> QED
    BY <2>1, <2>2, CorroboratedGraded DEF Fixed
<1>5. ASSUME NEW f \in CookieFindings(in) PROVE Graded(in, f)
  <2>1. Fixed("insecure cookie", "medium")
    BY SeveritiesFixed DEF MediumTitles
  <2>2. f = Single("misconfiguration", "medium", "insecure cookie", "", "url", "insecure-cookie", "httpx")
    BY Zenon DEF CookieFindings, When
  <2> QED
    BY <2>1, <2>2, SingleGraded DEF Fixed
<1>6. ASSUME NEW f \in HttpErrorFindings(in) PROVE Graded(in, f)
  <2>1. Fixed("HTTP check failed", "informational")
    BY SeveritiesFixed DEF InformationalTitles
  <2>2. f = Single("informational", "informational", "HTTP check failed", "", "target", "", "http")
    BY Zenon DEF HttpErrorFindings, When
  <2> QED
    BY <2>1, <2>2, SingleGraded DEF Fixed
<1> QED
  BY <1>1, <1>2, <1>3, <1>4, <1>5, <1>6

\* The certificate and the protocols.
LEMMA TlsGraded ==
    ASSUME NEW in
    PROVE  \A f \in UNION {TlsErrorFindings(in), ExpiredFindings(in), ExpiringFindings(in),
                            LegacyFindings(in), SelfSignedFindings(in), WeaknessFindings(in)} : Graded(in, f)
<1>1. ASSUME NEW f \in TlsErrorFindings(in) PROVE Graded(in, f)
  <2>1. Fixed("TLS check failed", "informational")
    BY SeveritiesFixed DEF InformationalTitles
  <2>2. f = Single("informational", "informational", "TLS check failed", "", "tls", "", "tls")
    BY Zenon DEF TlsErrorFindings, When
  <2> QED
    BY <2>1, <2>2, SingleGraded DEF Fixed
<1>2. ASSUME NEW f \in ExpiredFindings(in) PROVE Graded(in, f)
  <2>1. Fixed("certificate expired", "high")
    BY SeveritiesFixed DEF HighTitles
  <2>2. \E agree, disagree :
         f = Corroborated(Single("misconfiguration", "high", "certificate expired", "", "tls", "cert-expired", "tls"), agree, disagree)
    BY DEF ExpiredFindings, When
  <2> QED
    BY <2>1, <2>2, CorroboratedGraded DEF Fixed
<1>3. ASSUME NEW f \in ExpiringFindings(in) PROVE Graded(in, f)
  <2>1. Fixed("certificate expires soon", "medium")
    BY SeveritiesFixed DEF MediumTitles
  <2>2. \E agree, disagree :
         f = Corroborated(Single("misconfiguration", "medium", "certificate expires soon", "", "tls", "cert-expiring", "tls"), agree, disagree)
    BY DEF ExpiringFindings, When
  <2> QED
    BY <2>1, <2>2, CorroboratedGraded DEF Fixed
<1>4. ASSUME NEW f \in LegacyFindings(in) PROVE Graded(in, f)
  <2>1. Fixed("outdated TLS", "high")
    BY SeveritiesFixed DEF HighTitles
  <2>2. \E agree, disagree :
         f = Corroborated(Single("outdated-technology", "high", "outdated TLS", "", "tls", "tls-legacy", "tls"), agree, disagree)
    BY DEF LegacyFindings, When
  <2> QED
    BY <2>1, <2>2, CorroboratedGraded DEF Fixed
<1>5. ASSUME NEW f \in SelfSignedFindings(in) PROVE Graded(in, f)
  <2>1. Fixed("self-signed", "low")
    BY SeveritiesFixed DEF LowTitles
  <2>2. \E agree, disagree :
         f = Corroborated(Single("informational", "low", "self-signed", "", "tls", "self-signed", "tls"), agree, disagree)
    BY DEF SelfSignedFindings, When
  <2> QED
    BY <2>1, <2>2, CorroboratedGraded DEF Fixed
<1>6. ASSUME NEW f \in WeaknessFindings(in) PROVE Graded(in, f)
  <2>1. \E w, agree : f = Corroborated(
          Single("misconfiguration", WeaknessSeverity(w), "TLS weakness", w, "tls", "tls-legacy", "testssl"), agree, {})
    BY DEF WeaknessFindings
  <2> QED
    BY <2>1, SeveritiesVary, CorroboratedGraded
<1> QED
  BY <1>1, <1>2, <1>3, <1>4, <1>5, <1>6

\* The software that runs there, and its weaknesses.
LEMMA SoftwareGraded ==
    ASSUME NEW in
    PROVE  \A f \in UNION {TechnologyFindings(in), WordPressFindings(in), VulnerabilityFindings(in),
                            CveFindings(in), PhpFindings(in)} : Graded(in, f)
<1>1. ASSUME NEW f \in TechnologyFindings(in) PROVE Graded(in, f)
  <2>1. Fixed("technologies", "informational")
    BY SeveritiesFixed DEF InformationalTitles
  <2>2. \E agree, disagree :
         f = Corroborated(Single("informational", "informational", "technologies", "", "target", "tech-versions", "whatweb"), agree, disagree)
    BY DEF TechnologyFindings, When
  <2> QED
    BY <2>1, <2>2, CorroboratedGraded DEF Fixed
<1>2. ASSUME NEW f \in WordPressFindings(in) PROVE Graded(in, f)
  <2>1. Fixed("WordPress detected", "informational")
    BY SeveritiesFixed DEF InformationalTitles
  <2>2. \E agree, disagree :
         f = Corroborated(Single("wordpress", "informational", "WordPress detected", "", "target", "wordpress", "whatweb"), agree, disagree)
    BY DEF WordPressFindings, When
  <2> QED
    BY <2>1, <2>2, CorroboratedGraded DEF Fixed
<1>3. ASSUME NEW f \in VulnerabilityFindings(in) PROVE Graded(in, f)
  <2>1. Fixed("vulnerable component", "medium")
    BY SeveritiesFixed DEF MediumTitles
  <2>2. CASE \E v : f = Single("vulnerability", NucleiSeverity(v), "nuclei template", v, "matched", "vuln-generic", "nuclei")
    BY <2>2, SeveritiesVary, SingleGraded
  <2>3. CASE \E v, agree : f = Corroborated(
            Single("vulnerability", "medium", "vulnerable component", v, "target", "vuln-generic", "retire"), agree, {})
    BY <2>1, <2>3, CorroboratedGraded DEF Fixed
  <2> QED
    BY <2>2, <2>3 DEF VulnerabilityFindings
<1>4. ASSUME NEW f \in CveFindings(in) PROVE Graded(in, f)
  <2>1. Fixed("known CVEs", "high")
    BY SeveritiesFixed DEF HighTitles
  <2>2. \E c, agree : f = Corroborated(
          Single("outdated-technology", "high", "known CVEs", c, "target", "cve-package", "osv"), agree, {})
    BY DEF CveFindings
  <2> QED
    BY <2>1, <2>2, CorroboratedGraded DEF Fixed
<1>5. ASSUME NEW f \in PhpFindings(in) PROVE Graded(in, f)
  <2> DEFINE some(severity, title, arg) ==
               Corroborated([Single("vulnerability", severity, title, arg, "target", "php2shell", "http")
                               EXCEPT !.sources = PhpSources(in)], {}, {})
             php == PhpDetected(in)
             state == EvaluatePhpAdvisory(Release(php))
             finding == Corroborated([IF state = "vulnerable"
                          THEN Single("vulnerability", "critical", "PHP2Shell", php, "target", "php2shell", "http")
                          ELSE Single("vulnerability", "medium", "PHP version unknown", "", "target", "php2shell", "http")
                            EXCEPT !.sources = PhpSources(in)], {}, {})
  <2>1. \A severity, title, arg : /\ some(severity, title, arg).severity = severity
                                  /\ some(severity, title, arg).title = title
    BY DEF Corroborated, Single
  <2>2. f = finding
    BY Zenon DEF PhpFindings, When
  <2>3. \/ finding = some("critical", "PHP2Shell", php)
        \/ finding = some("medium", "PHP version unknown", "")
    OBVIOUS
  <2>4. /\ "PHP2Shell" \in PhpTitles /\ PhpSeverity("PHP2Shell") = "critical"
        /\ "PHP version unknown" \in PhpTitles /\ PhpSeverity("PHP version unknown") = "medium"
    BY DEF PhpTitles, PhpSeverity
  <2> HIDE DEF some, finding
  <2>5. PICK title \in PhpTitles : \E arg : f = some(PhpSeverity(title), title, arg)
    BY <2>2, <2>3, <2>4, Zenon
  <2>6. f.severity = PhpSeverity(title) /\ f.title = title
    BY <2>1, <2>5
  <2>7. Fixed(title, PhpSeverity(title))
    BY SeveritiesFixed
  <2> QED
    BY <2>6, <2>7 DEF Graded, Fixed
<1> QED
  BY <1>1, <1>2, <1>3, <1>4, <1>5

\* The paths found and the paths archived.
LEMMA PathGraded ==
    ASSUME NEW in
    PROVE  \A f \in UNION {PathFindings(in), ArchivedFindings(in)} : Graded(in, f)
<1>1. ASSUME NEW f \in PathFindings(in) PROVE Graded(in, f)
  <2>1. \E arg, agree : f = Corroborated(
          Single("exposure", PathSeverity(in), "discoverable paths", arg, "target", "exposed-paths", "feroxbuster"), agree, {})
    BY DEF PathFindings, PathSeverity, When
  <2> QED
    BY <2>1, SeveritiesVary, CorroboratedGraded
<1>2. ASSUME NEW f \in ArchivedFindings(in) PROVE Graded(in, f)
  <2>1. Fixed("archived credentials", "critical")
    BY SeveritiesFixed
  <2>2. CASE \E arg, agree :
         f = Corroborated(Single("exposure", ArchiveSeverity(in), "archived sensitive paths", arg, "host",
                                                    "archived-exposure", "waybackurls"), agree, {})
    BY <2>2, SeveritiesVary, CorroboratedGraded
  <2>3. CASE \E arg : f = Single("exposure", "critical", "archived credentials", arg, "host", "leaked-url-credentials",
                                 "waybackurls")
    BY <2>1, <2>3, SingleGraded DEF Fixed
  <2> QED
    BY <2>2, <2>3 DEF ArchivedFindings, ArchiveSeverity, When
<1> QED
  BY <1>1, <1>2

\* Every finding is as severe as its title, what varies of it and the input say.
LEMMA FindingsGraded ==
    ASSUME NEW in
    PROVE  \A f \in BuildFindings(in) : Graded(in, f)
BY PostureGraded, WebTrustGraded, EmailGraded, HttpGraded, TlsGraded, SoftwareGraded, PathGraded
   DEF BuildFindings, PostureFindings, EmailFindings

-----------------------------------------------------------------------------
(* The order of the steps *)

\* The tools of a profile; the modules have the others.
ProfileTools == {"nmap", "whatweb", "http", "tls", "wpscan"}

\* The headers are graded after the page was fetched.
PageFirst(s) == \A i \in 1..Len(s) : s[i] = "header-posture" => \E j \in 1..(i - 1) : s[j] = "page-recon"

\* Sequences of the tools of modules, in that order.
ModuleSeqs == {s \in Seq(Tools \ ProfileTools) : PageFirst(s)}

\* Every module has its tools in that order.
LEMMA ModulesOrdered == \A id \in DOMAIN ModuleTools : ModuleTools[id] \in ModuleSeqs
<1>1. \A s \in Seq(Tools \ ProfileTools) : (\A i \in 1..Len(s) : s[i] # "header-posture") => s \in ModuleSeqs
  BY DEF ModuleSeqs, PageFirst
<1>2. /\ <<"subfinder", "dnsx", "rdap", "email">> \in Seq(Tools \ ProfileTools)
      /\ <<"nuclei", "retire", "httpx">> \in Seq(Tools \ ProfileTools)
      /\ <<"testssl">> \in Seq(Tools \ ProfileTools)
      /\ <<"feroxbuster", "waybackurls">> \in Seq(Tools \ ProfileTools)
      /\ <<"osv">> \in Seq(Tools \ ProfileTools)
      /\ <<>> \in Seq(Tools \ ProfileTools)
      /\ <<"crawl-rules", "security-txt", "page-recon", "header-posture">> \in Seq(Tools \ ProfileTools)
      /\ <<"dns-hardening", "dnssec">> \in Seq(Tools \ ProfileTools)
      /\ <<"ip-intel">> \in Seq(Tools \ ProfileTools)
  BY DEF Tools, ProfileTools
<1>3. /\ <<"subfinder", "dnsx", "rdap", "email">> \in ModuleSeqs
      /\ <<"nuclei", "retire", "httpx">> \in ModuleSeqs
      /\ <<"testssl">> \in ModuleSeqs
      /\ <<"feroxbuster", "waybackurls">> \in ModuleSeqs
      /\ <<"osv">> \in ModuleSeqs
      /\ <<>> \in ModuleSeqs
      /\ <<"dns-hardening", "dnssec">> \in ModuleSeqs
      /\ <<"ip-intel">> \in ModuleSeqs
  <2>1. <<"subfinder", "dnsx", "rdap", "email">> \in ModuleSeqs
    <3> DEFINE s == <<"subfinder", "dnsx", "rdap", "email">>
    <3>1. s \in Seq(Tools \ ProfileTools)
      BY <1>2
    <3>2. \A i \in 1..Len(s) : s[i] # "header-posture"
      OBVIOUS
    <3> HIDE DEF s
    <3>3. s \in ModuleSeqs
      BY <1>1, <3>1, <3>2
    <3> QED
      BY <3>3 DEF s
  <2>2. <<"nuclei", "retire", "httpx">> \in ModuleSeqs
    <3> DEFINE s == <<"nuclei", "retire", "httpx">>
    <3>1. s \in Seq(Tools \ ProfileTools)
      BY <1>2
    <3>2. \A i \in 1..Len(s) : s[i] # "header-posture"
      OBVIOUS
    <3> HIDE DEF s
    <3>3. s \in ModuleSeqs
      BY <1>1, <3>1, <3>2
    <3> QED
      BY <3>3 DEF s
  <2>3. <<"testssl">> \in ModuleSeqs
    <3> DEFINE s == <<"testssl">>
    <3>1. s \in Seq(Tools \ ProfileTools)
      BY <1>2
    <3>2. \A i \in 1..Len(s) : s[i] # "header-posture"
      OBVIOUS
    <3> HIDE DEF s
    <3>3. s \in ModuleSeqs
      BY <1>1, <3>1, <3>2
    <3> QED
      BY <3>3 DEF s
  <2>4. <<"feroxbuster", "waybackurls">> \in ModuleSeqs
    <3> DEFINE s == <<"feroxbuster", "waybackurls">>
    <3>1. s \in Seq(Tools \ ProfileTools)
      BY <1>2
    <3>2. \A i \in 1..Len(s) : s[i] # "header-posture"
      OBVIOUS
    <3> HIDE DEF s
    <3>3. s \in ModuleSeqs
      BY <1>1, <3>1, <3>2
    <3> QED
      BY <3>3 DEF s
  <2>5. <<"osv">> \in ModuleSeqs
    <3> DEFINE s == <<"osv">>
    <3>1. s \in Seq(Tools \ ProfileTools)
      BY <1>2
    <3>2. \A i \in 1..Len(s) : s[i] # "header-posture"
      OBVIOUS
    <3> HIDE DEF s
    <3>3. s \in ModuleSeqs
      BY <1>1, <3>1, <3>2
    <3> QED
      BY <3>3 DEF s
  <2>6. <<>> \in ModuleSeqs
    <3> DEFINE s == <<>>
    <3>1. s \in Seq(Tools \ ProfileTools)
      BY <1>2
    <3>2. \A i \in 1..Len(s) : s[i] # "header-posture"
      OBVIOUS
    <3> HIDE DEF s
    <3>3. s \in ModuleSeqs
      BY <1>1, <3>1, <3>2
    <3> QED
      BY <3>3 DEF s
  <2>7. <<"dns-hardening", "dnssec">> \in ModuleSeqs
    <3> DEFINE s == <<"dns-hardening", "dnssec">>
    <3>1. s \in Seq(Tools \ ProfileTools)
      BY <1>2
    <3>2. \A i \in 1..Len(s) : s[i] # "header-posture"
      OBVIOUS
    <3> HIDE DEF s
    <3>3. s \in ModuleSeqs
      BY <1>1, <3>1, <3>2
    <3> QED
      BY <3>3 DEF s
  <2>8. <<"ip-intel">> \in ModuleSeqs
    <3> DEFINE s == <<"ip-intel">>
    <3>1. s \in Seq(Tools \ ProfileTools)
      BY <1>2
    <3>2. \A i \in 1..Len(s) : s[i] # "header-posture"
      OBVIOUS
    <3> HIDE DEF s
    <3>3. s \in ModuleSeqs
      BY <1>1, <3>1, <3>2
    <3> QED
      BY <3>3 DEF s
  <2> QED
    BY <2>1, <2>2, <2>3, <2>4, <2>5, <2>6, <2>7, <2>8
<1>4. <<"crawl-rules", "security-txt", "page-recon", "header-posture">> \in ModuleSeqs
  <2> DEFINE s == <<"crawl-rules", "security-txt", "page-recon", "header-posture">>
  <2>1. Len(s) = 4 /\ s[1] = "crawl-rules" /\ s[2] = "security-txt" /\ s[3] = "page-recon"
    OBVIOUS
  <2>2. s \in Seq(Tools \ ProfileTools)
    BY <1>2
  <2> HIDE DEF s
  <2>3. \A i \in 1..Len(s) : s[i] = "header-posture" => 3 \in 1..(i - 1)
    BY <2>1
  <2> QED
    BY <2>1, <2>2, <2>3 DEF ModuleSeqs, PageFirst, s
<1> HIDE DEF ModuleSeqs
<1> QED
  BY <1>3, <1>4 DEF ModuleTools

\* Two such sequences one after the other are one.
LEMMA ModuleSeqsConcat == \A s, t \in ModuleSeqs : s \o t \in ModuleSeqs
<1> SUFFICES ASSUME NEW s \in ModuleSeqs, NEW t \in ModuleSeqs PROVE s \o t \in ModuleSeqs
  OBVIOUS
<1> DEFINE S == Tools \ ProfileTools
           u == s \o t
<1>1. s \in Seq(S) /\ t \in Seq(S) /\ PageFirst(s) /\ PageFirst(t)
  BY DEF ModuleSeqs
<1> HIDE DEF S
<1>2. /\ u \in Seq(S) /\ Len(u) = Len(s) + Len(t) /\ Len(s) \in Nat /\ Len(t) \in Nat
      /\ \A i \in 1..Len(u) : u[i] = IF i <= Len(s) THEN s[i] ELSE t[i - Len(s)]
  BY <1>1, ConcatProperties, LenProperties
<1> HIDE DEF u
<1>3. ASSUME NEW i \in 1..Len(u), u[i] = "header-posture" PROVE \E j \in 1..(i - 1) : u[j] = "page-recon"
  <2>1. CASE i <= Len(s)
    <3>1. i \in 1..Len(s) /\ s[i] = "header-posture"
      BY <1>2, <1>3, <2>1
    <3>2. PICK j \in 1..(i - 1) : s[j] = "page-recon"
      BY <1>1, <3>1 DEF PageFirst
    <3>3. j \in 1..Len(u) /\ j <= Len(s)
      BY <1>2, <3>1
    <3> QED
      BY <1>2, <3>2, <3>3
  <2>2. CASE ~(i <= Len(s))
    <3>1. i - Len(s) \in 1..Len(t) /\ t[i - Len(s)] = "header-posture"
      BY <1>2, <1>3, <2>2
    <3>2. PICK j \in 1..(i - Len(s) - 1) : t[j] = "page-recon"
      BY <1>1, <3>1 DEF PageFirst
    <3>3. /\ j + Len(s) \in 1..Len(u) /\ ~(j + Len(s) <= Len(s)) /\ (j + Len(s)) - Len(s) = j
          /\ j + Len(s) \in 1..(i - 1)
      BY <1>2, <3>1
    <3>4. u[j + Len(s)] = "page-recon"
      BY <1>2, <3>2, <3>3
    <3> QED
      BY <3>3, <3>4
  <2> QED
    BY <2>1, <2>2
<1>4. PageFirst(u)
  BY <1>3 DEF PageFirst
<1> QED
  BY <1>2, <1>4 DEF ModuleSeqs, S, u

\* In every plan WhatWeb comes before the lookup of its packages and the page
\* before the headers.
LEMMA StepsOrdered ==
    ASSUME NEW plan \in Plans \cup {FullPlan}
    PROVE  LET s == Steps(plan)
           IN  \A i \in 1..Len(s) :
                  /\ s[i] = "header-posture" => \E j \in 1..(i - 1) : s[j] = "page-recon"
                  /\ s[i] = "osv" /\ "whatweb" \in ToSet(s) => \E j \in 1..(i - 1) : s[j] = "whatweb"
<1> DEFINE p == ExpandProfile(plan)
           m == ExpandModules(plan)
           s == Steps(plan)
<1>1. p \in Seq(ProfileTools)
  <2>1. <<"nmap", "whatweb", "http", "tls", "wpscan">> \in Seq(ProfileTools)
    BY DEF ProfileTools
  <2> QED
    BY <2>1, KeepElements DEF ExpandProfile
<1>2. m \in ModuleSeqs
  <2>1. plan.modules \in Seq(DOMAIN ModuleTools)
    BY PlansKnown
  <2> DEFINE n == Len(plan.modules)
             seqs == [i \in 1..n |-> ModuleTools[plan.modules[i]]]
  <2>2. n \in Nat /\ \A i \in 1..n : plan.modules[i] \in DOMAIN ModuleTools
    BY <2>1, LenProperties, ElementOfSeq
  <2> HIDE DEF n
  <2>3. seqs \in [1..n -> ModuleSeqs]
    BY <2>2, ModulesOrdered
  <2>4. m = FlattenSeq(seqs)
    BY DEF ExpandModules, n
  <2>5. <<>> \in ModuleSeqs
    BY EmptySeq DEF ModuleSeqs, PageFirst
  <2> HIDE DEF seqs
  <2> QED
    BY <2>2, <2>3, <2>4, <2>5, ModuleSeqsConcat, FlattenClosed
<1>3. s = p \o m
  BY DEF Steps
<1> HIDE DEF p, m
<1> DEFINE S == Tools \cup ProfileTools
<1>4. p \in Seq(S) /\ m \in Seq(S)
  BY <1>1, <1>2 DEF ModuleSeqs
<1>5. /\ s \in Seq(S) /\ Len(s) = Len(p) + Len(m) /\ Len(p) \in Nat /\ Len(m) \in Nat
      /\ \A i \in 1..Len(s) : s[i] = IF i <= Len(p) THEN p[i] ELSE m[i - Len(p)]
  BY <1>3, <1>4, ConcatProperties, LenProperties
<1>6. (\A i \in 1..Len(p) : p[i] \in ProfileTools) /\ (\A i \in 1..Len(m) : m[i] \in Tools \ ProfileTools) /\ PageFirst(m)
  BY <1>1, <1>2, ElementOfSeq DEF ModuleSeqs
<1>7. "header-posture" \notin ProfileTools /\ "osv" \notin ProfileTools /\ "whatweb" \in ProfileTools
  BY DEF ProfileTools
<1> HIDE DEF S, s
<1>8. ASSUME NEW i \in 1..Len(s), s[i] = "header-posture" PROVE \E j \in 1..(i - 1) : s[j] = "page-recon"
  <2>1. ~(i <= Len(p))
    BY <1>5, <1>6, <1>7, <1>8
  <2>2. i - Len(p) \in 1..Len(m) /\ m[i - Len(p)] = "header-posture"
    BY <1>5, <1>8, <2>1
  <2>3. PICK j \in 1..(i - Len(p) - 1) : m[j] = "page-recon"
    BY <1>6, <2>2 DEF PageFirst
  <2>4. /\ j + Len(p) \in 1..Len(s) /\ ~(j + Len(p) <= Len(p)) /\ (j + Len(p)) - Len(p) = j
        /\ j + Len(p) \in 1..(i - 1)
    BY <1>5, <2>2
  <2>5. s[j + Len(p)] = "page-recon"
    BY <1>5, <2>3, <2>4
  <2> QED
    BY <2>4, <2>5
<1>9. ASSUME NEW i \in 1..Len(s), s[i] = "osv", "whatweb" \in ToSet(s) PROVE \E j \in 1..(i - 1) : s[j] = "whatweb"
  <2>1. ~(i <= Len(p))
    BY <1>5, <1>6, <1>7, <1>9
  <2>2. PICK j \in 1..Len(s) : s[j] = "whatweb"
    BY <1>5, <1>9, LenProperties DEF ToSet
  <2>3. j <= Len(p)
    <3> SUFFICES ASSUME ~(j <= Len(p)) PROVE FALSE
      BY <1>5
    <3>1. j - Len(p) \in 1..Len(m) /\ m[j - Len(p)] = "whatweb"
      BY <1>5, <2>2
    <3> QED
      BY <1>6, <1>7, <3>1
  <2> QED
    BY <1>5, <2>1, <2>2, <2>3
<1> QED
  BY <1>8, <1>9 DEF s

-----------------------------------------------------------------------------
(* What a tool sees that nothing hampers *)

Sees(plan, at, t) ==
    LET facts == FactsOf(at, t)
    IN  CASE t = "nmap" -> InScope(plan, facts)
          [] t = "email" -> EmailPosture(facts, "").saw
          [] t = "osv" -> facts \cap FactsOf(at, "whatweb")
          [] OTHER -> facts

\* The tool has delivered all that it sees of the site.
Faithful(in, plan, at, t) ==
    /\ t \in in.got /\ t \notin in.err /\ in.saw[t] = Sees(plan, at, t)
    /\ t = "waybackurls" => in.saw["live"] = Sees(plan, at, t) \cap FactsOf(at, "live")

\* The planned tools that nothing hampers, nor those that they rest on.
Sighted(plan, trouble) ==
    {t \in Plannable : /\ t \notin Hampered(plan, trouble)
                       /\ t = "osv" => "whatweb" \notin Hampered(plan, trouble)
                       /\ t = "header-posture" => "page-recon" \notin Hampered(plan, trouble)}

\* The scan has what the tool rests on.
Ready(in, plan, at, t) ==
    /\ t = "osv" => Faithful(in, plan, at, "whatweb")
    /\ t = "header-posture" => Faithful(in, plan, at, "page-recon")

\* A result without an error.
LEMMA ResultParts ==
    /\ \A saw : Data(saw).got /\ ~Data(saw).err /\ Data(saw).saw = saw
    /\ \A ok, saw : LET r == Result(TRUE, FALSE, ok, saw) IN r.got /\ ~r.err /\ r.saw = saw
BY DEF Data, Result

\* A tool that is not in trouble delivers what it sees.
LEMMA CheckFaithful ==
    ASSUME NEW in, NEW plan, NEW at, NEW trouble, NEW t \in Plannable, trouble.tool # t, Ready(in, plan, at, t)
    PROVE  LET r == Check(in, t, plan, at, trouble)
           IN  r.got /\ ~r.err /\ r.saw = Sees(plan, at, t)
<1> DEFINE facts == FactsOf(at, t)
           how == IF trouble.tool = t THEN trouble.how ELSE ""
           r == Check(in, t, plan, at, trouble)
           good == r.got /\ ~r.err /\ r.saw = Sees(plan, at, t)
<1>1. how = ""
  OBVIOUS
<1> USE <1>1, ResultParts
<1>2. CASE t = "nmap"
  BY <1>2 DEF Check, NmapStep, ParseNmapGrepable, Sees
<1>3. CASE t = "whatweb"
  BY <1>3 DEF Check, WhatwebStep, ParseWhatwebJson, Sees
<1>4. CASE t = "http"
  BY <1>4 DEF Check, HttpCheck, Sees
<1>5. CASE t = "tls"
  BY <1>5 DEF Check, TlsCheck, Sees
<1>6. CASE t = "subfinder"
  BY <1>6 DEF Check, LineStep, ParseSubfinderJson, WholeLines, Sees
<1>7. CASE t = "dnsx"
  BY <1>7 DEF Check, DnsRecordLookup, Sees
<1>8. CASE t = "rdap"
  BY <1>8 DEF Check, RdapLookup, Sees
<1>9. CASE t = "email"
  <2>1. \A f : EmailPosture(f, "").got /\ ~EmailPosture(f, "").err
    BY DEF EmailPosture
  <2>2. r = EmailPosture(facts, "")
    BY <1>9 DEF Check
  <2> QED
    BY <1>9, <2>1, <2>2 DEF Sees
<1>10. CASE t = "nuclei"
  BY <1>10 DEF Check, NucleiStep, ParseNucleiJsonl, WholeLines, Sees
<1>11. CASE t = "retire"
  BY <1>11 DEF Check, RetireStep, ParseRetireJson, Sees
<1>12. CASE t = "httpx"
  BY <1>12 DEF Check, ParseHttpxJsonl, Sees
<1>13. CASE t = "testssl"
  BY <1>13 DEF Check, ParseTestsslJson, Sees
<1>14. CASE t = "feroxbuster"
  BY <1>14 DEF Check, LineStep, ParseFeroxJson, WholeLines, Sees
<1>15. CASE t = "waybackurls"
  BY <1>15 DEF Check, LineStep, ParseWaybackUrls, WholeLines, Sees
<1>16. CASE t = "osv"
  <2>1. in.saw["whatweb"] = FactsOf(at, "whatweb")
    BY <1>16 DEF Ready, Faithful, Sees
  <2> QED
    BY <1>16, <2>1 DEF Check, OsvLookup, Sees
<1>17. CASE t = "crawl-rules"
  BY <1>17 DEF Check, CrawlRules, Sees
<1>18. CASE t = "security-txt"
  BY <1>18 DEF Check, SecurityTxtLookup, Sees
<1>19. CASE t = "page-recon"
  BY <1>19 DEF Check, PageRecon, Sees
<1>20. CASE t = "header-posture"
  <2>1. "page-recon" \in in.got \ in.err
    BY <1>20 DEF Ready, Faithful
  <2> QED
    BY <1>20, <2>1 DEF Check, HeaderPosture, Sees
<1>21. CASE t = "dns-hardening"
  BY <1>21 DEF Check, DnsHardeningLookup, Sees
<1>22. CASE t = "dnssec"
  BY <1>22 DEF Check, DnssecLookup, Sees
<1>23. CASE t = "ip-intel"
  BY <1>23 DEF Check, IpIntelLookup, Sees
<1> QED
  BY <1>2, <1>3, <1>4, <1>5, <1>6, <1>7, <1>8, <1>9, <1>10, <1>11, <1>12, <1>13, <1>14, <1>15, <1>16, <1>17, <1>18,
     <1>19, <1>20, <1>21, <1>22, <1>23 DEF Plannable, Tools

\* What one step does to what the tools have delivered.
LEMMA StepFaithful ==
    ASSUME NEW in, Delivered(in), NEW plan, NEW at, NEW trouble, NEW u \in Tools, NEW t \in Plannable
    PROVE  LET next == Step(in, u, plan, at, trouble)
           IN  /\ u # t => /\ t \in next.err => t \in in.err
                           /\ Faithful(in, plan, at, t) => Faithful(next, plan, at, t)
               /\ u = t /\ trouble.tool # t /\ Ready(in, plan, at, t) /\ t \notin in.err
                    => Faithful(next, plan, at, t)
<1>1. PICK ok, got, err, ran, saw :
        /\ in = Input(ok, got, err, ran, saw)
        /\ saw = [s \in Sights |-> saw[s]]
  BY DEF Delivered
<1> DEFINE r == Check(in, u, plan, at, trouble)
           ok2 == IF r.ok THEN in.ok \cup {u} ELSE in.ok
           got2 == IF r.got THEN in.got \cup {u} ELSE in.got
           err2 == IF r.err THEN in.err \cup {u} ELSE in.err
           saw1 == [in.saw EXCEPT ![u] = r.saw]
           live == VerifyLive(r.saw, at, trouble)
           saw2 == IF u = "waybackurls" THEN [saw1 EXCEPT !["live"] = live] ELSE saw1
           next == Step(in, u, plan, at, trouble)
<1>2. next = Input(ok2, got2, err2, in.ran, saw2)
  BY DEF Step
<1>3. /\ in.got = got /\ in.err = err /\ in.saw = saw
      /\ next.got = got2 /\ next.err = err2 /\ next.saw = saw2
  BY <1>1, <1>2, InputParts
<1>4. u = t /\ trouble.tool # t /\ Ready(in, plan, at, t) => r.got /\ ~r.err /\ r.saw = Sees(plan, at, t)
  BY CheckFaithful
<1> HIDE DEF r
<1>5. t \in Tools /\ "live" \notin Tools
  BY DEF Plannable, Tools
<1>6. saw1 = [s \in Sights |-> saw1[s]] /\ \A s \in Sights : saw1[s] = IF s = u THEN r.saw ELSE saw[s]
  BY <1>1, <1>3 DEF Sights
<1> HIDE DEF saw1, live
<1>7. /\ \A s \in Tools : saw2[s] = IF s = u THEN r.saw ELSE saw[s]
      /\ saw2["live"] = IF u = "waybackurls" THEN live ELSE saw["live"]
  BY <1>5, <1>6 DEF Sights
<1> HIDE DEF saw2, next, ok2
<1>8. ASSUME u # t PROVE /\ t \in next.err => t \in in.err
                         /\ Faithful(in, plan, at, t) => Faithful(next, plan, at, t)
  BY <1>3, <1>5, <1>7, <1>8 DEF Faithful
<1>9. ASSUME u = t, trouble.tool # t, Ready(in, plan, at, t), t \notin in.err
      PROVE  Faithful(next, plan, at, t)
  BY <1>3, <1>4, <1>5, <1>7, <1>9 DEF Faithful, live, VerifyLive, When
<1> QED
  BY <1>8, <1>9 DEF next

\* The conditional WPScan adds its own record only.
LEMMA WpscanFaithful ==
    ASSUME NEW in, Delivered(in), NEW plan, NEW at, NEW trouble, NEW t \in Plannable, Faithful(in, plan, at, t)
    PROVE  Faithful(RunConditionalWpscan(in, plan, at, trouble), plan, at, t)
<1> DEFINE after == Step(in, "wpscan", plan, at, trouble)
           ok2 == IF "wpscan" \in after.got THEN after.ok ELSE after.ok \ {"wpscan"}
           last == Input(ok2, after.got, after.err, TRUE, after.saw)
<1>1. "wpscan" \in Tools /\ "wpscan" # t
  BY DEF Plannable, Tools
<1>2. Faithful(after, plan, at, t)
  BY <1>1, StepFaithful
<1>3. RunConditionalWpscan(in, plan, at, trouble) \in {in, last}
  BY DEF RunConditionalWpscan
<1> HIDE DEF after, ok2
<1>4. last.got = after.got /\ last.err = after.err /\ last.saw = after.saw
  BY DEF Input
<1> HIDE DEF last
<1>5. Faithful(last, plan, at, t)
  BY <1>2, <1>4 DEF Faithful
<1> QED
  BY <1>3, <1>5

\* When the steps are done every planned tool that nothing hampers has delivered
\* what it sees.
LEMMA ObserveFaithful ==
    ASSUME NEW plan \in Plans \cup {FullPlan}, NEW at, NEW trouble
    PROVE  \A t \in Sighted(plan, trouble) : Faithful(Observe(plan, at, trouble), plan, at, t)
<1>1. PICK n \in Nat : n = Len(Steps(plan)) /\ \A i \in 1..n : Steps(plan)[i] \in Tools
  BY StepsType, LenProperties, ElementOfSeq
<1> DEFINE c == CHOOSE g : RunBy(g, Steps(plan), plan, at, trouble, n)
           s == Steps(plan)
           Sharp == Sighted(plan, trouble)
<1>2. RunBy(c, s, plan, at, trouble, n)
  BY RunExists
<1>3. RunSteps(plan, at, trouble) = c[n]
  BY <1>1 DEF RunSteps, RunBy
<1> HIDE DEF c, s
<1>4. c[0] = NoReport.in /\ \A i \in Nat : i + 1 <= n => c[i + 1] = Step(c[i], s[i + 1], plan, at, trouble)
  <2>1. c[0] = NoReport.in
    BY <1>2 DEF RunBy
  <2>2. ASSUME NEW i \in Nat, i + 1 <= n PROVE c[i + 1] = Step(c[i], s[i + 1], plan, at, trouble)
    <3>1. i + 1 \in 0..n /\ i + 1 # 0 /\ (i + 1) - 1 = i
      BY <2>2
    <3> QED
      BY <1>2, <3>1 DEF RunBy
  <2> QED
    BY <2>1, <2>2
<1> USE DEF s
\* All that is sighted is planned, healthy and rests on what is sighted.
<1>5. \A t \in Sharp : /\ t \in Plannable /\ trouble.tool # t /\ t \in ToSet(s)
                       /\ t = "osv" => "whatweb" \in Sharp
                       /\ t = "header-posture" => "page-recon" \in Sharp
  <2>1. ASSUME NEW t \in Plannable, t \notin Hampered(plan, trouble)
        PROVE  trouble.tool # t /\ t \in ToSet(s)
    BY <2>1 DEF Hampered, Plannable
  <2>2. "whatweb" \in Plannable /\ "page-recon" \in Plannable
    BY DEF Plannable, Tools
  <2> QED
    BY <2>1, <2>2 DEF Sighted
<1>6. \A i \in 1..n : /\ s[i] = "header-posture" => \E j \in 1..(i - 1) : s[j] = "page-recon"
                      /\ s[i] = "osv" /\ "whatweb" \in ToSet(s) => \E j \in 1..(i - 1) : s[j] = "whatweb"
  BY <1>1, StepsOrdered
<1>7. \A t \in ToSet(s) : \E j \in 1..n : s[j] = t
  BY <1>1, StepsType, LenProperties DEF ToSet
<1> HIDE DEF Sharp, s
<1> DEFINE done(i, t) == \E j \in 1..i : s[j] = t
           I(i) == /\ Delivered(c[i])
                   /\ \A t \in Sharp : t \notin c[i].err /\ (done(i, t) => Faithful(c[i], plan, at, t))
           T == {i \in Nat : i <= n => I(i)}
<1>8. 0 \in T
  <2>1. Delivered(c[0])
    BY <1>4, NothingDelivered
  <2>2. NoReport.in = Input({}, {}, {}, FALSE, [t \in Tools \cup {"live"} |-> {}])
    BY DEF NoReport
  <2>3. NoReport.in.err = {}
    BY <2>2 DEF Input
  <2>4. c[0].err = {}
    BY <1>4, <2>3
  <2>5. \A t \in Sharp : ~done(0, t)
    OBVIOUS
  <2> HIDE DEF done
  <2> QED
    BY <2>1, <2>4, <2>5
<1>9. \A i \in Nat : i \in T => i + 1 \in T
  <2> SUFFICES ASSUME NEW i \in Nat, I(i), i + 1 <= n
               PROVE  I(i + 1)
    OBVIOUS
  <2> DEFINE u == s[i + 1]
  <2>1. i + 1 \in 1..n /\ (i + 1) - 1 = i
    OBVIOUS
  <2>2. u \in Tools /\ c[i + 1] = Step(c[i], u, plan, at, trouble)
    BY <1>1, <1>4, <2>1 DEF s
  <2>3. Delivered(c[i + 1])
    BY <2>2, StepDelivers
  <2>4. ASSUME NEW t \in Sharp
        PROVE  t \notin c[i + 1].err /\ (done(i + 1, t) => Faithful(c[i + 1], plan, at, t))
    <3>1. CASE u = t
      <4>1. Ready(c[i], plan, at, t)
        <5>1. t = "osv" => done(i, "whatweb")
          BY <1>5, <1>6, <2>1, <3>1
        <5>2. t = "header-posture" => done(i, "page-recon")
          BY <1>6, <2>1, <3>1
        <5> QED
          BY <1>5, <5>1, <5>2 DEF Ready
      <4>2. Faithful(c[i + 1], plan, at, t)
        BY <1>5, <2>2, <3>1, <4>1, StepFaithful
      <4> QED
        BY <4>2 DEF Faithful
    <3>2. CASE u # t
      <4>1. done(i + 1, t) => done(i, t)
        BY <3>2
      <4> QED
        BY <1>5, <2>2, <3>2, <4>1, StepFaithful
    <3> QED
      BY <3>1, <3>2
  <2> QED
    BY <2>3, <2>4
<1> HIDE DEF T
<1>10. n \in T
  BY <1>8, <1>9, SetInduction
<1>11. I(n)
  BY <1>10 DEF T
<1> SUFFICES ASSUME NEW t \in Sharp
             PROVE  Faithful(Observe(plan, at, trouble), plan, at, t)
  BY DEF Sharp
<1>12. Faithful(c[n], plan, at, t)
  BY <1>5, <1>7, <1>11
<1> QED
  BY <1>3, <1>5, <1>11, <1>12, WpscanFaithful DEF Observe

\* Two scans of one site give buildFindings the same of a tool that sees as much
\* in both of them.
LEMMA ObserveAlike ==
    ASSUME NEW plan \in Plans \cup {FullPlan}, NEW at, NEW trouble, NEW t \in Sighted(plan, trouble)
    PROVE  Alike(Observe(plan, at, trouble), Observe(FullPlan, at, Healthy), t)
<1>1. t \in Plannable /\ (t = "nmap" => PortScope(plan) = PortScope(FullPlan))
  BY DEF Sighted, Hampered, When
<1>2. Plannable \subseteq Sighted(FullPlan, Healthy)
  <2>1. ASSUME NEW u \in Plannable PROVE u \notin Hampered(FullPlan, Healthy)
    <3>1. u \in Tools /\ u # "wpscan" /\ u # ""
      BY DEF Plannable, Tools
    <3>2. u \in ToSet(Steps(FullPlan))
      BY <3>1, FullPlanRunsAll
    <3>3. Healthy.tool = ""
      BY DEF Healthy
    <3> QED
      BY <3>1, <3>2, <3>3 DEF Hampered, When
  <2>2. "whatweb" \in Plannable /\ "page-recon" \in Plannable
    BY DEF Plannable, Tools
  <2> QED
    BY <2>1, <2>2 DEF Sighted
<1>3. Sees(plan, at, t) = Sees(FullPlan, at, t)
  BY <1>1 DEF Sees, InScope
<1>4. Faithful(Observe(plan, at, trouble), plan, at, t) /\ Faithful(Observe(FullPlan, at, Healthy), FullPlan, at, t)
  BY <1>1, <1>2, ObserveFaithful
<1> QED
  BY <1>3, <1>4 DEF Faithful, Alike

\* The full scan of a site is complete.
LEMMA FullComplete ==
    ASSUME NEW at
    PROVE  Complete(Observe(FullPlan, at, Healthy))
<1>1. {"httpx", "email"} \subseteq Sighted(FullPlan, Healthy)
  <2>1. {"httpx", "email"} \subseteq ToSet(Steps(FullPlan)) /\ {"httpx", "email"} \subseteq Plannable
    BY FullPlanRunsAll DEF Tools, Plannable
  <2>2. Healthy.tool = ""
    BY DEF Healthy
  <2>3. \A t \in {"httpx", "email"} : t \notin Hampered(FullPlan, Healthy)
    BY <2>1, <2>2 DEF Hampered, When
  <2> QED
    BY <2>1, <2>3 DEF Sighted
<1>2. \A t \in {"httpx", "email"} : Faithful(Observe(FullPlan, at, Healthy), FullPlan, at, t)
  BY <1>1, ObserveFaithful
<1> QED
  BY <1>2 DEF Faithful, Complete, Answered

-----------------------------------------------------------------------------
(* The difference of two scans *)

\* The row that a scan leaves in the history.
ScanRow(plan, at, trouble) ==
    LET in == Observe(plan, at, trouble)
    IN  [rows |-> FindingsDetail(BuildFindings(in)), ok |-> in.ok, truth |-> Truth[at],
         hampered |-> Hampered(plan, trouble)]

Sites == UNION {SitesOf(p) : p \in Pools}
Troubles == {Healthy} \cup UNION {p[2] : p \in Pools}
ScanRows == {ScanRow(plan, at, trouble) : plan \in Plans, at \in Sites, trouble \in Troubles}

\* All rows of the history are those of scans.
HistoryScanned == pool \in Pools /\ history \in Seq(ScanRows)

\* What a row of an event keeps of a finding.
RowOf(r, f) ==
    /\ r.print = Fingerprint(f) /\ r.severity = f.severity
    /\ r.sources = f.sources /\ r.key = f.key

\* The rows of an event are one for each fingerprint of the findings.
LEMMA DetailRows ==
    ASSUME NEW findings
    PROVE  /\ \A r \in FindingsDetail(findings) : \E f \in findings : RowOf(r, f)
           /\ \A f \in findings : \E r \in FindingsDetail(findings) : r.print = Fingerprint(f)
           /\ \A r, q \in FindingsDetail(findings) : r.print = q.print => r = q
<1> DEFINE first(print) == CHOOSE g \in findings : Fingerprint(g) = print
           row(print) == [print |-> print, severity |-> first(print).severity,
                          sources |-> first(print).sources, key |-> first(print).key]
           prints == {Fingerprint(g) : g \in findings}
<1>1. FindingsDetail(findings) = {row(print) : print \in prints}
  BY DEF FindingsDetail
<1>2. \A print \in prints : first(print) \in findings /\ Fingerprint(first(print)) = print
  OBVIOUS
<1> HIDE DEF first
<1>3. \A print \in prints : RowOf(row(print), first(print))
  BY <1>2 DEF RowOf
<1>4. \A print : row(print).print = print
  OBVIOUS
<1> HIDE DEF row
<1>5. \A f \in findings : Fingerprint(f) \in prints
  OBVIOUS
<1> HIDE DEF prints
<1> QED
  BY <1>1, <1>2, <1>3, <1>4, <1>5

\* A row has the tools behind it that its finding has.
LEMMA RowUpstream ==
    ASSUME NEW r, NEW f, RowOf(r, f)
    PROVE  Upstream(r) = Upstream(f)
BY DEF RowOf, Upstream

\* Findings of one print have the same title and subject.
LEMMA SamePrint ==
    \A f, g : Fingerprint(f) = Fingerprint(g) => f.title = g.title /\ f.arg = g.arg
<1> SUFFICES ASSUME NEW f, NEW g, Fingerprint(f) = Fingerprint(g)
             PROVE  f.title = g.title /\ f.arg = g.arg
  OBVIOUS
<1>1. \A h : Fingerprint(h).title = h.title /\ Fingerprint(h).arg = h.arg
  BY DEF Fingerprint
<1> QED
  BY <1>1, Zenon

\* Equal marks are equal prints and severities.
LEMMA SameMark ==
    \A f, g : Mark(f) = Mark(g) => Fingerprint(f) = Fingerprint(g) /\ f.severity = g.severity
<1>1. \A h : Mark(h).print = Fingerprint(h) /\ Mark(h).severity = h.severity
  BY DEF Mark
<1> QED
  BY <1>1

\* buildFindings gives findings of one print the same severity.
LEMMA OneSeverity ==
    ASSUME NEW in, NEW f \in BuildFindings(in), NEW g \in BuildFindings(in), Fingerprint(f) = Fingerprint(g)
    PROVE  f.severity = g.severity
BY FindingsGraded, SamePrint DEF Graded

\* When no tool upstream of a finding is hampered the planned ones are sighted.
LEMMA UpstreamSighted ==
    ASSUME NEW r, NEW plan, NEW trouble, Hampered(plan, trouble) \cap Upstream(r) = {}
    PROVE  Upstream(r) \cap Plannable \subseteq Sighted(plan, trouble)
<1>1. \A t \in r.sources : Feeds(t) \subseteq Upstream(r)
  BY DEF Upstream
<1>2. \A t, u : u \in Feeds(t) => u \notin {"osv", "header-posture"}
  BY DEF Feeds
<1>3. /\ \A u \in When(r.key = "php2shell", {"whatweb", "http", "httpx"}) : u \notin {"osv", "header-posture"}
      /\ \A u \in When(r.key = "insecure-cookie", {"http", "httpx"}) : u \notin {"osv", "header-posture"}
  BY DEF When
<1>4. \A u \in Upstream(r) \cap {"osv", "header-posture"} : u \in r.sources
  BY <1>2, <1>3 DEF Upstream
<1>5. "whatweb" \in Feeds("osv") /\ "page-recon" \in Feeds("header-posture")
  BY DEF Feeds
<1>6. /\ "osv" \in Upstream(r) => "whatweb" \in Upstream(r)
      /\ "header-posture" \in Upstream(r) => "page-recon" \in Upstream(r)
  BY <1>1, <1>4, <1>5
<1> QED
  BY <1>6 DEF Sighted

\* The truth about a site are the marks of what the full scan finds.
LEMMA TruthMarks ==
    ASSUME NEW at \in Sites
    PROVE  Truth[at] = {Mark(f) : f \in BuildFindings(Observe(FullPlan, at, Healthy))}
BY DEF Truth, Sites, Mark

\* A finding that nothing hampers is true of the site: what buildFindings makes
\* of its tools is what it makes of them in the full scan.
LEMMA FoundIsTrue ==
    ASSUME NEW row \in ScanRows, NEW r \in row.rows, ~Blurred(r, row)
    PROVE  HasSeverity(r, row)
<1>1. PICK plan \in Plans, at \in Sites, trouble \in Troubles : row = ScanRow(plan, at, trouble)
  BY DEF ScanRows
<1> DEFINE in == Observe(plan, at, trouble)
           full == Observe(FullPlan, at, Healthy)
<1>2. row.rows = FindingsDetail(BuildFindings(in)) /\ row.truth = Truth[at] /\ row.hampered = Hampered(plan, trouble)
  BY <1>1 DEF ScanRow
<1>3. PICK f \in BuildFindings(in) : RowOf(r, f)
  BY <1>2, DetailRows
<1>4. Upstream(f) \cap Plannable \subseteq Sighted(plan, trouble)
  <2>1. Hampered(plan, trouble) \cap Upstream(f) = {}
    BY <1>2, <1>3, RowUpstream DEF Blurred
  <2> QED
    BY <2>1, UpstreamSighted
<1>5. \A t \in Upstream(f) \cap Plannable : Alike(in, full, t)
  BY <1>4, ObserveAlike
<1> HIDE DEF in, full
<1>6. Sufficient(in, full, f)
  BY <1>5 DEF Sufficient
<1>7. PICK g \in BuildFindings(full) : Mark(g) = Mark(f)
  BY <1>6, FindingsCarried DEF Carried, CarriedOne
<1>8. Mark(f) \in row.truth
  BY <1>2, <1>7, TruthMarks DEF full
<1>9. Mark(f) = [print |-> r.print, severity |-> r.severity]
  BY <1>3 DEF Mark, RowOf
<1> QED
  BY <1>8, <1>9 DEF HasSeverity

\* What another scan found is found when it is true of the site and no tool
\* behind it is hampered, and as severe as it is.
LEMMA TrueIsFound ==
    ASSUME NEW other \in ScanRows, NEW r \in other.rows, NEW row \in ScanRows, ~Blurred(r, row),
           NEW m \in row.truth, m.print = r.print
    PROVE  /\ r.print \in Prints(row)
           /\ \A q \in row.rows : q.print = r.print => q.severity = m.severity
<1>1. PICK plan \in Plans, at \in Sites, trouble \in Troubles : row = ScanRow(plan, at, trouble)
  BY DEF ScanRows
<1>2. PICK in0 : other.rows = FindingsDetail(BuildFindings(in0))
  <2>1. PICK plan0 \in Plans, at0 \in Sites, trouble0 \in Troubles : other = ScanRow(plan0, at0, trouble0)
    BY DEF ScanRows
  <2> QED
    BY <2>1 DEF ScanRow
<1> DEFINE in == Observe(plan, at, trouble)
           full == Observe(FullPlan, at, Healthy)
<1>3. row.rows = FindingsDetail(BuildFindings(in)) /\ row.truth = Truth[at] /\ row.hampered = Hampered(plan, trouble)
  BY <1>1 DEF ScanRow
<1>4. PICK f \in BuildFindings(in0) : RowOf(r, f)
  BY <1>2, DetailRows
<1>5. PICK g \in BuildFindings(full) : m = Mark(g)
  BY <1>3, TruthMarks
<1>6. Upstream(f) \cap Plannable \subseteq Sighted(plan, trouble)
  <2>1. Hampered(plan, trouble) \cap Upstream(f) = {}
    BY <1>3, <1>4, RowUpstream DEF Blurred
  <2> QED
    BY <2>1, UpstreamSighted
<1>7. \A t \in Upstream(f) \cap Plannable : Alike(in, full, t)
  BY <1>6, ObserveAlike
<1>8. Complete(full)
  BY FullComplete
<1> HIDE DEF in, full
<1>9. Mark(g).print = Fingerprint(g) /\ Mark(g).severity = g.severity
  BY DEF Mark
<1>10. Fingerprint(g) = Fingerprint(f)
  BY <1>4, <1>5, <1>9 DEF RowOf
<1>11. g.title = f.title
  BY <1>10, SamePrint
<1>12. Behind(g.title) \subseteq Upstream(f) \cap Plannable
  <2>1. Behind(f.title) \subseteq Upstream(f)
    BY FindingsCarried DEF Carried, CarriedOne
  <2> QED
    BY <1>11, <2>1, BehindPlannable
<1>13. \A t \in Behind(g.title) : Alike(full, in, t)
  BY <1>7, <1>12 DEF Alike
<1>14. Sufficient(full, in, g)
  BY <1>8, <1>13 DEF Sufficient
<1>15. PICK h \in BuildFindings(in) : Mark(h) = Mark(g)
  BY <1>14, FindingsCarried DEF Carried, CarriedOne
<1>16. Fingerprint(h) = Fingerprint(g) /\ h.severity = g.severity
  BY <1>15, SameMark
<1>17. r.print \in Prints(row)
  <2>1. PICK q \in row.rows : q.print = Fingerprint(h)
    BY <1>3, DetailRows
  <2>2. q.print = r.print
    BY <1>4, <1>10, <1>16, <2>1 DEF RowOf
  <2> QED
    BY <2>1, <2>2 DEF Prints
<1>18. ASSUME NEW q \in row.rows, q.print = r.print
       PROVE  q.severity = m.severity
  <2>1. PICK k \in BuildFindings(in) : RowOf(q, k)
    BY <1>3, DetailRows
  <2>2. Fingerprint(k) = Fingerprint(h)
    BY <1>4, <1>10, <1>16, <1>18, <2>1 DEF RowOf
  <2>3. k.severity = h.severity
    BY <2>2, OneSeverity
  <2> QED
    BY <1>5, <1>9, <1>16, <2>1, <2>3 DEF RowOf
<1> QED
  BY <1>17, <1>18

\* Every step adds the row of a scan.
LEMMA HistoryStep == HistoryScanned /\ [Next]_vars => HistoryScanned'
<1> SUFFICES ASSUME HistoryScanned, [Next]_vars PROVE HistoryScanned'
  OBVIOUS
<1>1. CASE Next
  <2>1. PICK plan \in Plans : \E trouble \in {Healthy} \cup pool[2] : Scan(plan, trouble)
    BY <1>1 DEF Next
  <2>2. PICK trouble \in {Healthy} \cup pool[2] : Scan(plan, trouble)
    BY <2>1
  <2>3. PICK at \in SitesOf(pool) :
          /\ \E in \in {Observe(plan, at, trouble)} : \E findings \in {BuildFindings(in)} :
                history' = Append(history, [rows |-> FindingsDetail(findings), ok |-> in.ok,
                                            truth |-> Truth[at], hampered |-> Hampered(plan, trouble)])
          /\ pool' = pool
    BY <2>2 DEF Scan
  <2>4. history' = Append(history, ScanRow(plan, at, trouble))
    BY <2>3 DEF ScanRow
  <2>5. at \in Sites /\ trouble \in Troubles
    BY <2>2, <2>3 DEF HistoryScanned, Sites, Troubles
  <2>6. ScanRow(plan, at, trouble) \in ScanRows
    BY <2>5 DEF ScanRows
  <2> QED
    BY <2>3, <2>4, <2>6, AppendProperties DEF HistoryScanned
<1>2. CASE UNCHANGED vars
  BY <1>2 DEF vars, HistoryScanned
<1> QED
  BY <1>1, <1>2

\* The last two rows are those of scans.
LEMMA LastScanned ==
    ASSUME HistoryScanned, HasPrevious
    PROVE  Latest \in ScanRows /\ Previous \in ScanRows
<1>1. Len(history) \in Nat /\ \A i \in 1..Len(history) : history[i] \in ScanRows
  BY LenProperties, ElementOfSeq DEF HistoryScanned
<1> QED
  BY <1>1 DEF HasPrevious, Latest, Previous

\* The rows of the history are those of scans in every state.
LEMMA HistoryIsScanned == Spec => []HistoryScanned
<1>1. Init => HistoryScanned
  BY EmptySeq DEF Init, HistoryScanned
<1> QED
  BY <1>1, HistoryStep, PTL DEF Spec

\* A finding that computeScanDiff shows as resolved is gone from the site, unless
\* a tool behind it saw less than it should without a failure of a source:
\* with the sources unharmed the latest scan would have found it.
THEOREM ResolvedAreGone == Spec => []ResolvedIsGone
<1>1. ASSUME HistoryScanned, HasPrevious, NEW r \in ResolvedFindings, IsTrue(r, Latest)
      PROVE  \E t \in Latest.hampered \cap Upstream(r) : t \in Latest.ok \/ t \notin r.sources
  <2>1. Latest \in ScanRows /\ Previous \in ScanRows
    BY <1>1, LastScanned
  <2>2. r \in Previous.rows /\ r.print \notin Prints(Latest) /\ ~Unavailable(r)
    BY DEF ResolvedFindings, NotAssessed, Missing
  <2>3. PICK m \in Latest.truth : m.print = r.print
    BY <1>1 DEF IsTrue
  <2>4. Blurred(r, Latest)
    BY <2>1, <2>2, <2>3, TrueIsFound
  <2>5. PICK t \in Latest.hampered \cap Upstream(r) : TRUE
    BY <2>4 DEF Blurred
  <2>6. t \in r.sources => t \in Latest.ok
    BY <2>2 DEF Unavailable
  <2> QED
    BY <2>5, <2>6
<1>2. HistoryScanned => ResolvedIsGone
  BY <1>1 DEF ResolvedIsGone
<1> QED
  BY <1>2, HistoryIsScanned, PTL

\* A finding is shown as new, or with another severity, only because of the site
\* or because a tool behind it did not see everything in one of the two scans:
\* no other tool decides whether buildFindings reports it, or how severe it is.
THEOREM ReportsAreReal == Spec => []ReportedIsReal
<1>1. ASSUME HistoryScanned, HasPrevious
      PROVE  Latest \in ScanRows /\ Previous \in ScanRows
  BY <1>1, LastScanned
<1>2. ASSUME HistoryScanned, HasPrevious, NEW r \in Latest.rows
      PROVE  HasSeverity(r, Latest) \/ Blurred(r, Latest)
  BY <1>1, <1>2, FoundIsTrue
<1>3. ASSUME NEW r, NEW row, HasSeverity(r, row)
      PROVE  \E m \in row.truth : m.print = r.print /\ m.severity = r.severity
  <2> DEFINE m == [print |-> r.print, severity |-> r.severity]
  <2>1. m \in row.truth /\ m.print = r.print /\ m.severity = r.severity
    BY <1>3 DEF HasSeverity
  <2> QED
    BY <2>1
<1>4. ASSUME HistoryScanned, HasPrevious, NEW r \in NewFindings
      PROVE  /\ IsTrue(r, Latest) \/ Blurred(r, Latest)
             /\ IsTrue(r, Previous) => Blurred(r, Previous)
  <2>1. r \in Latest.rows /\ r.print \notin Prints(Previous)
    BY DEF NewFindings
  <2>2. HasSeverity(r, Latest) => IsTrue(r, Latest)
    BY <1>3 DEF IsTrue
  <2>3. ASSUME IsTrue(r, Previous), ~Blurred(r, Previous) PROVE FALSE
    <3>1. PICK m \in Previous.truth : m.print = r.print
      BY <2>3 DEF IsTrue
    <3> QED
      BY <1>1, <1>4, <2>1, <2>3, <3>1, TrueIsFound
  <2> QED
    BY <1>2, <1>4, <2>1, <2>2, <2>3
<1>5. ASSUME HistoryScanned, HasPrevious, NEW r \in SeverityChanges
      PROVE  /\ HasSeverity(r, Latest) \/ Blurred(r, Latest)
             /\ HasSeverity(r, Previous) => Blurred(r, Previous)
  <2>1. PICK p \in Previous.rows : p.print = r.print /\ p.severity # r.severity
    BY DEF SeverityChanges
  <2>2. r \in Latest.rows
    BY DEF SeverityChanges
  <2>3. ASSUME HasSeverity(r, Previous), ~Blurred(r, Previous) PROVE FALSE
    <3>1. PICK m \in Previous.truth : m.print = r.print /\ m.severity = r.severity
      BY <1>3, <2>3
    <3>2. p.severity = m.severity
      BY <1>1, <1>5, <2>1, <2>2, <2>3, <3>1, TrueIsFound
    <3> QED
      BY <2>1, <3>1, <3>2
  <2> QED
    BY <1>2, <1>5, <2>2, <2>3
<1>6. HistoryScanned => ReportedIsReal
  BY <1>4, <1>5 DEF ReportedIsReal
<1> QED
  BY <1>6, HistoryIsScanned, PTL

=============================================================================
