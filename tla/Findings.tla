------------------------------- MODULE Findings -------------------------------
(***************************************************************************)
(* The findings a scan draws from what its tools observed:                 *)
(* buildFindings (worker/findings.ts).                                     *)
(*                                                                         *)
(* An observation is abstracted to the set of facts a tool delivered; a    *)
(* fact two tools can see has one name, so that agreement is membership.   *)
(* What buildFindings is given is a record "in":                           *)
(*   in.ok    the tools whose record says ok (toolOk)                      *)
(*   in.got   the tools that delivered a result object                     *)
(*   in.err   those of them whose object carries an error                  *)
(*   in.ran   whether the conditional WPScan ran (wpscanRan)               *)
(*   in.saw   the facts of each tool; "live" is the re-check of archived   *)
(*            URLs                                                         *)
(* Wording, evidence, confidence and ids are left out. The fingerprint of  *)
(* a finding is its category, title and place; "arg" is the part of the    *)
(* title that varies.                                                      *)
(***************************************************************************)
EXTENDS Integers, FiniteSets, TLC

Answered(in, t) == t \in in.got /\ t \notin in.err
Saw(in, t, fact) == fact \in in.saw[t]
When(condition, S) == {x \in S : condition}

\* A finding that no other tool was asked about.
Single(category, severity, title, arg, at, key, tool) ==
    [category |-> category, severity |-> severity, title |-> title, arg |-> arg, at |-> at,
     key |-> key, sources |-> {tool}, disagree |-> {}, level |-> "single"]

Level(sources, disagree) ==
    IF disagree # {} THEN "conflicting"
    ELSE IF Cardinality(sources) >= 2 THEN "multi" ELSE "single"

\* The same finding with the tools that agree and those that ran and disagree.
Corroborated(f, agree, disagree) ==
    LET sources == f.sources \cup agree
    IN  [f EXCEPT !.sources = sources, !.disagree = disagree, !.level = Level(sources, disagree)]

\* The findings of one tool by a table: a row for each fact.
Row(fact, category, severity, title, at, key) ==
    [fact |-> fact, category |-> category, severity |-> severity, title |-> title, at |-> at, key |-> key]
ByTable(in, tool, rows) ==
    {Single(r.category, r.severity, r.title, "", r.at, r.key, tool) :
        r \in {x \in rows : Saw(in, tool, x.fact)}}

DatabasePorts == {"3306"}
Ports == {"22", "80", "443", "8443"} \cup DatabasePorts

PortFinding(in, p) ==
    LET f == Single("exposure",
                    IF p \in DatabasePorts THEN "medium" ELSE IF p = "22" THEN "low" ELSE "informational",
                    "open port", p, "port",
                    IF p \in DatabasePorts THEN "open-db-port" ELSE IF p = "22" THEN "open-ssh" ELSE "open-port",
                    "nmap")
    IN  Corroborated(f, When(p = "80" /\ Answered(in, "http"), {"http"})
                        \cup When(p = "443" /\ Answered(in, "tls"), {"tls"})
                        \cup When(p \in {"80", "443"} /\ Answered(in, "httpx"), {"httpx"}), {})
PortFindings(in) == {PortFinding(in, p) : p \in in.saw["nmap"] \cap Ports}

Headers == {"no csp header", "no nosniff header"}

\* httpx agrees when it misses all the headers that the HTTP check misses.
HeaderFindings(in) ==
    LET missing == in.saw["http"] \cap Headers
        f == Single("misconfiguration", "low", "missing headers", "", "url", "missing-headers", "http")
        agrees == missing \subseteq in.saw["httpx"]
    IN  When(Answered(in, "http") /\ missing # {},
             {Corroborated(f, When(Answered(in, "httpx") /\ agrees, {"httpx"}),
                              When(Answered(in, "httpx") /\ ~agrees, {"httpx"}))})

Banners == {"nginx", "cloudflare"}

BannerFindings(in) ==
    {Corroborated(Single("informational", "informational", "server banner", "", "url", "server-banner", "http"),
                  When(Answered(in, "httpx") /\ Saw(in, "httpx", b), {"httpx"}),
                  When(Answered(in, "httpx") /\ in.saw["httpx"] \cap Banners \notin {{}, {b}}, {"httpx"})) :
        b \in When(Answered(in, "http"), in.saw["http"] \cap Banners)}

PhpFacts == {"php", "php-7.4.33", "php-8.2.34", "php-8.2.35"}

PoweredByFindings(in) ==
    LET tells == {"powered-by"} \cup PhpFacts
        f == Single("informational", "informational", "powered by", "", "url", "powered-by", "http")
    IN  When(Answered(in, "http") /\ in.saw["http"] \cap tells # {},
             {Corroborated(f, When(Answered(in, "httpx") /\ in.saw["httpx"] \cap tells # {}, {"httpx"}), {})})

\* What httpx says of the cookies is read inside the branch of a successful
\* HTTP check.
CookieFindings(in) ==
    When(Answered(in, "http") /\ Answered(in, "httpx") /\ Saw(in, "httpx", "insecure cookie"),
         {Single("misconfiguration", "medium", "insecure cookie", "", "url", "insecure-cookie", "httpx")})

HttpErrorFindings(in) ==
    When("http" \in in.err,
         {Single("informational", "informational", "HTTP check failed", "", "target", "", "http")})

TlsErrorFindings(in) ==
    When("tls" \in in.err,
         {Single("informational", "informational", "TLS check failed", "", "tls", "", "tls")})

\* Nuclei and testssl that ran without the match count as disagreeing.
ExpiredFindings(in) ==
    When(Saw(in, "tls", "expired"),
         {Corroborated(Single("misconfiguration", "high", "certificate expired", "", "tls", "cert-expired", "tls"),
                       {t \in {"nuclei", "testssl"} : Saw(in, t, "expired")},
                       {t \in {"nuclei", "testssl"} : ~Saw(in, t, "expired") /\ t \in in.ok})})

\* httpx agrees if it has read a certificate's date, whatever the date is.
ExpiringFindings(in) ==
    When(Saw(in, "tls", "expiring") /\ ~Saw(in, "tls", "expired"),
         {Corroborated(Single("misconfiguration", "medium", "certificate expires soon", "", "tls", "cert-expiring", "tls"),
                       When(Answered(in, "httpx") /\ Saw(in, "httpx", "certificate date"), {"httpx"}), {})})

LegacyFindings(in) ==
    When(Saw(in, "tls", "tls10"),
         {Corroborated(Single("outdated-technology", "high", "outdated TLS", "", "tls", "tls-legacy", "tls"),
                       {t \in {"nuclei", "testssl"} : Saw(in, t, "tls10")}, {})})

SelfSignedFindings(in) ==
    When(Saw(in, "tls", "self-signed"),
         {Corroborated(Single("informational", "low", "self-signed", "", "tls", "self-signed", "tls"),
                       {t \in {"nuclei", "testssl"} : Saw(in, t, "self-signed")}, {})})

WeaknessSeverity(w) == IF w \in {"expired", "heartbleed"} THEN "high" ELSE "medium"

WeaknessFindings(in) ==
    {Corroborated(Single("misconfiguration", WeaknessSeverity(w), "TLS weakness", w, "tls", "tls-legacy", "testssl"),
                  When(Saw(in, "nuclei", w), {"nuclei"}), {}) : w \in in.saw["testssl"]}

TechnologyFindings(in) ==
    When(in.saw["whatweb"] # {},
         {Corroborated(Single("informational", "informational", "technologies", "", "target", "tech-versions", "whatweb"),
                       When(Answered(in, "httpx") /\ in.saw["whatweb"] \cap in.saw["httpx"] # {}, {"httpx"})
                       \cup When(in.saw["whatweb"] \cap in.saw["nmap"] # {}, {"nmap"}), {})})

\* The PHP release a fact names; <<>> when the version is hidden.
Release(fact) == CASE fact = "php-7.4.33" -> <<7, 4, 33>> [] fact = "php-8.2.34" -> <<8, 2, 34>>
                   [] fact = "php-8.2.35" -> <<8, 2, 35>> [] OTHER -> <<>>
FixedPatch == (2 :> 35) @@ (3 :> 36) @@ (4 :> 27) @@ (5 :> 12)

EvaluatePhpAdvisory(r) ==
    CASE r = <<>> -> "unknown"
      [] r # <<>> /\ (r[1] < 8 \/ (r[1] = 8 /\ r[2] <= 1)) -> "vulnerable"
      [] r # <<>> /\ r[1] = 8 /\ r[2] \in DOMAIN FixedPatch /\ r[3] < FixedPatch[r[2]] -> "vulnerable"
      [] OTHER -> "fixed"

PhpSources(in) == {t \in {"whatweb", "http", "httpx"} : in.saw[t] \cap PhpFacts # {}}

\* The first candidate with a version; the sources are read in this order.
PhpDetected(in) ==
    LET order == <<"whatweb", "http", "httpx">>
        known == {i \in 1..3 : \E fact \in in.saw[order[i]] \cap PhpFacts : Release(fact) # <<>>}
        first == CHOOSE i \in known : \A j \in known : i <= j
    IN  IF known = {} THEN "php"
        ELSE CHOOSE fact \in in.saw[order[first]] \cap PhpFacts : Release(fact) # <<>>

PhpFindings(in) ==
    LET php == PhpDetected(in)
        state == EvaluatePhpAdvisory(Release(php))
        f == IF state = "vulnerable"
             THEN Single("vulnerability", "critical", "PHP2Shell", php, "target", "php2shell", "http")
             ELSE Single("vulnerability", "medium", "PHP version unknown", "", "target", "php2shell", "http")
    IN  When(PhpSources(in) # {} /\ state # "fixed",
             {Corroborated([f EXCEPT !.sources = PhpSources(in)], {}, {})})

WordPressFindings(in) ==
    When(Saw(in, "whatweb", "wordpress"),
         {Corroborated(Single("wordpress", "informational", "WordPress detected", "", "target", "wordpress", "whatweb"),
                       When(in.ran /\ Answered(in, "wpscan"), {"wpscan"})
                       \cup When(Answered(in, "httpx") /\ Saw(in, "httpx", "wordpress"), {"httpx"}), {})})

\* Facts of Nuclei are templates that matched, facts of Retire.js components.
NucleiSeverity(v) == IF v = "exposed panel" THEN "medium" ELSE IF v = "tls10" THEN "informational" ELSE "low"

VulnerabilityFindings(in) ==
    {Single("vulnerability", NucleiSeverity(v), "nuclei template", v, "matched", "vuln-generic", "nuclei") :
        v \in in.saw["nuclei"]}
    \cup {Corroborated(Single("vulnerability", "medium", "vulnerable component", v, "target", "vuln-generic", "retire"),
                       When(Saw(in, "osv", v), {"osv"}), {}) : v \in in.saw["retire"]}

\* Facts of feroxbuster are the paths that answered 2xx, and "/forbidden".
PathFindings(in) ==
    LET paths == in.saw["feroxbuster"] \ {"/forbidden"}
        archived == paths \cap in.saw["waybackurls"]
    IN  When(paths # {},
             {Corroborated(Single("exposure", IF archived # {} THEN "medium" ELSE "informational",
                                  "discoverable paths", ToString(Cardinality(paths)), "target", "exposed-paths", "feroxbuster"),
                           When(archived # {} /\ "waybackurls" \in in.ok, {"waybackurls"}), {})})

SensitivePaths == {"/.env", "/dump.sql"}
CredentialPaths == {"/login?token"}

ArchivedFindings(in) ==
    LET sensitive == in.saw["waybackurls"] \cap SensitivePaths
        live == sensitive \cap in.saw["live"]
        credentials == in.saw["waybackurls"] \cap CredentialPaths
    IN  When(sensitive # {},
             {Corroborated(Single("exposure",
                                  IF live # {} THEN "high" ELSE IF Cardinality(sensitive) > 3 THEN "medium" ELSE "low",
                                  "archived sensitive paths", ToString(Cardinality(sensitive)), "host",
                                  "archived-exposure", "waybackurls"),
                           When(live # {} /\ "feroxbuster" \in in.ok, {"feroxbuster"}), {})})
        \cup When(credentials # {},
             {Single("exposure", "critical", "archived credentials", ToString(Cardinality(credentials)), "host",
                     "leaked-url-credentials", "waybackurls")})

DmarcFindings(in) ==
    LET saw(fact) == Saw(in, "email", fact)
    IN  When(saw("no dmarc"),
             {Single("misconfiguration", IF saw("mx") THEN "high" ELSE "medium",
                     "no DMARC", IF saw("mx") THEN "mx" ELSE "", "domain", "dmarc-missing", "email")})
        \cup When(~saw("no dmarc") /\ saw("dmarc p=none"),
             {Single("misconfiguration", "medium", "DMARC p=none", "", "domain", "dmarc-none", "email")})
        \cup When(~saw("no dmarc") /\ ~saw("dmarc p=none") /\ saw("no rua"),
             {Single("misconfiguration", "medium", "DMARC without rua", "", "domain", "dmarc-none", "email")})

SpfFindings(in) ==
    ByTable(in, "email", When(Saw(in, "email", "mx"),
        {Row("no spf", "misconfiguration", "medium", "no SPF", "domain", "spf-missing")}))
    \cup ByTable(in, "email",
        {Row("many spf", "misconfiguration", "medium", "multiple SPF", "domain", "spf-permissive"),
         Row("spf all", "misconfiguration", "medium", "SPF allows any", "domain", "spf-permissive")})

StarttlsFindings(in) ==
    ByTable(in, "email",
        {Row("no starttls", "exposure", "medium", "no STARTTLS", "domain", "mx-starttls"),
         Row("starttls error", "informational", "informational", "STARTTLS probe failed", "domain", "")})

MailPolicyFindings(in) ==
    ByTable(in, "email", When(Saw(in, "email", "mx"),
        {Row("no mta-sts", "misconfiguration", "low", "no MTA-STS", "domain", "mta-sts"),
         Row("no tls-rpt", "misconfiguration", "low", "no TLS-RPT", "domain", "mta-sts")}))

EmailFindings(in) ==
    UNION {DmarcFindings(in), SpfFindings(in), StarttlsFindings(in), MailPolicyFindings(in)}

\* WhatWeb counts as a source when its name of the technology contains the name
\* of the package: not for Apache, whose package is httpd (osv.ts:37).
PackageNamedDifferently == {"apache"}

CveFindings(in) ==
    {Corroborated(Single("outdated-technology", "high", "known CVEs", c, "target", "cve-package", "osv"),
                  When(Saw(in, "whatweb", c) /\ c \notin PackageNamedDifferently, {"whatweb"}), {}) :
        c \in in.saw["osv"]}

HstsFindings(in) ==
    ByTable(in, "header-posture",
        {Row("no hsts", "misconfiguration", "low", "no HSTS", "url", "hsts-missing"),
         Row("weak hsts", "misconfiguration", "low", "weak HSTS", "url", "hsts-missing")})

CspFindings(in) ==
    ByTable(in, "header-posture",
        {Row("no csp header", "misconfiguration", "low", "no CSP", "url", "csp-weak"),
         Row("csp report-only", "informational", "informational", "CSP report-only", "url", "csp-weak"),
         Row("weak csp", "misconfiguration", "low", "weak CSP", "url", "csp-weak")})

\* The flags are read here only when httpx delivered nothing at all.
PostureCookieFindings(in) ==
    ByTable(in, "header-posture",
        {Row("no samesite", "misconfiguration", "low", "no SameSite", "url", "insecure-cookie")}
        \cup When("httpx" \notin in.got,
            {Row("insecure cookie", "misconfiguration", "medium", "insecure cookie", "url", "insecure-cookie")}))

PostureFindings(in) == UNION {HstsFindings(in), CspFindings(in), PostureCookieFindings(in)}

PageFindings(in) ==
    ByTable(in, "page-recon",
        {Row("mixed content", "misconfiguration", "medium", "mixed content", "url", "mixed-content"),
         Row("no sri", "misconfiguration", "low", "no SRI", "url", "missing-sri")})

RobotsFindings(in) ==
    ByTable(in, "crawl-rules",
        {Row("robots /admin", "exposure", "informational", "robots disclosure", "robots", "robots-disclosure")})

SecurityTxtFindings(in) ==
    ByTable(in, "security-txt",
        {Row("no security.txt", "informational", "informational", "no security.txt", "security.txt", "security-txt")})

\* A weak DMARC policy is reported here when the email check has no result.
DnsHardeningFindings(in) ==
    ByTable(in, "dns-hardening",
        {Row("no caa", "misconfiguration", "low", "no CAA", "domain", "caa-missing"),
         Row("no dkim", "misconfiguration", "medium", "no DKIM", "domain", "dkim-missing")}
        \cup When(~Answered(in, "email"),
            {Row("dmarc p=none", "misconfiguration", "medium", "DMARC p=none", "domain", "dmarc-none")}))

DnssecFindings(in) ==
    ByTable(in, "dnssec",
        {Row("unsigned", "misconfiguration", "low", "no DNSSEC", "host", "dnssec-missing")})

IpIntelFindings(in) ==
    ByTable(in, "ip-intel",
        {Row("hosted", "informational", "informational", "infrastructure", "host", "")})

BuildFindings(in) == UNION {
    PortFindings(in), HeaderFindings(in), BannerFindings(in), PoweredByFindings(in), CookieFindings(in),
    HttpErrorFindings(in), TlsErrorFindings(in), ExpiredFindings(in), ExpiringFindings(in), LegacyFindings(in),
    SelfSignedFindings(in), WeaknessFindings(in), TechnologyFindings(in), PhpFindings(in), WordPressFindings(in),
    VulnerabilityFindings(in), PathFindings(in), ArchivedFindings(in), EmailFindings(in), CveFindings(in),
    PostureFindings(in), PageFindings(in), RobotsFindings(in), SecurityTxtFindings(in), DnsHardeningFindings(in),
    DnssecFindings(in), IpIntelFindings(in)}

\* Two findings with the same fingerprint are one row of the history. Mutant: an
\* identity that hangs on the tools that agree.
FingerprintByLevel(f) == [category |-> f.category, title |-> f.title, arg |-> f.level, at |-> f.at]
Fingerprint(f) == [category |-> f.category, title |-> f.title, arg |-> f.arg, at |-> f.at]

===============================================================================
