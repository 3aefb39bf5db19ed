-------------------------------- MODULE Checks --------------------------------
(***************************************************************************)
(* What a tool delivers of a site: the in-process checks (http.ts,         *)
(* email-posture.ts, dns-hardening.ts, dnssec.ts, crawl-rules.ts,          *)
(* security-txt.ts, page-recon.ts, header-posture.ts, ip-intel.ts, osv.ts, *)
(* rdap.ts, dnsrecords.ts) and the parsers of the tools' files             *)
(* (parsers.ts), as the steps of processJob use them.                      *)
(*                                                                         *)
(* A site is a set of pairs <<tool, fact>>: what the tool sees when all    *)
(* goes well. A trouble is [tool, how, lost]: what goes wrong in one tool  *)
(* of one scan, and for "cut" the facts whose lines are lost. Every tool   *)
(* may "die": a throw, or no output and an exit code.                      *)
(***************************************************************************)
EXTENDS Sequences, FiniteSets, ScanPlan

Healthy == [tool |-> "", how |-> "", lost |-> {}] \* nothing goes wrong

FactsOf(site, t) == {p[2] : p \in {q \in site : q[1] = t}}

\* got: there is a result object; err: it carries an error; ok: of the record.
Result(got, err, ok, saw) == [got |-> got, err |-> err, ok |-> ok, saw |-> saw]
Data(saw) == Result(TRUE, FALSE, TRUE, saw)
Error(saw) == Result(TRUE, TRUE, FALSE, saw)
Nothing == Result(FALSE, FALSE, FALSE, {})

\* After a failed https request the plain one is read, but the error stays.
HttpCheck(facts, how) ==
    CASE how = "https" -> Error(facts) [] how = "down" -> Error({}) [] OTHER -> Data(facts)

TlsCheck(facts, how) == IF how = "down" THEN Error({}) ELSE Data(facts)

RdapLookup(facts, how) == IF how = "down" THEN Error({}) ELSE Data(facts)

\* Queries that fail leave out their records.
DnsRecordLookup(facts, how) == Data(IF how = "lookups" THEN {} ELSE facts)

\* txtRecords answers a failed lookup with no record.
TxtFacts(facts, how) ==
    IF how = "txt" THEN {"no dmarc", "no spf", "no mta-sts", "no tls-rpt"}
    ELSE facts \ {"mx", "no starttls"}
MxFacts(facts, how) == IF how = "mx" THEN {} ELSE facts \cap {"mx"}
StarttlsFacts(facts, how) ==
    IF MxFacts(facts, how) = {} THEN {}
    ELSE IF how = "smtp" THEN {"starttls error"} ELSE facts \cap {"no starttls"}
EmailPosture(facts, how) ==
    Data(UNION {TxtFacts(facts, how), MxFacts(facts, how), StarttlsFacts(facts, how)})

DnsHardeningLookup(facts, how) ==
    LET dmarc == facts \cap {"dmarc", "dmarc p=none", "no dkim"}
    IN  Data(CASE how = "caa" -> facts \cup {"no caa"}
               [] how = "dkim" -> facts \cup (IF dmarc # {} THEN {"no dkim"} ELSE {})
               [] how = "txt" -> facts \ dmarc
               [] OTHER -> facts)

DnssecLookup(facts, how) == IF how = "doh" THEN Error({}) ELSE Data(facts)

\* Both requests must fail for an error.
CrawlRules(facts, how) ==
    CASE how = "robots" -> Data(facts \ {"robots /admin"})
      [] how = "both" -> Error({})
      [] OTHER -> Data(facts)

\* Of two paths one fails: its error is forgotten only when the other one is found.
SecurityTxtLookup(facts, how) ==
    IF how = "one path" /\ "no security.txt" \in facts THEN Error({}) ELSE Data(facts)

PageRecon(facts, how) == IF how = "down" THEN Error({}) ELSE Data(facts)

\* Graded from the headers that the page fetch of this scan brought.
HeaderPosture(in, facts) ==
    IF "page-recon" \in in.got \ in.err THEN Data(facts) ELSE Nothing

\* The cached geography of an address is not told apart from a fresh one.
IpIntelLookup(facts, how) == IF how = "geo" THEN Error({}) ELSE Data(facts)

\* Asked for the packages that WhatWeb delivered; every failure is an empty list.
OsvLookup(in, facts, how) == Data(IF how = "request" THEN {} ELSE facts \cap in.saw["whatweb"])

\* The parsers of one record a line keep the lines that are whole.
WholeLines(facts, how, lost) == IF how = "cut" THEN facts \ lost ELSE facts
ParseSubfinderJson(facts, how, lost) == WholeLines(facts, how, lost)
ParseNucleiJsonl(facts, how, lost) == WholeLines(facts, how, lost)
ParseFeroxJson(facts, how, lost) == WholeLines(facts, how, lost)
ParseWaybackUrls(facts, how, lost) == WholeLines(facts, how, lost)

\* The parsers of one document deliver all or nothing. "garbled" is a document
\* that cannot be read although the tool exits with 0.
ParseRetireJson(facts, how) == IF how = "garbled" THEN {} ELSE facts
ParseNmapGrepable(facts, how) == IF how = "garbled" THEN {} ELSE facts
ParseWhatwebJson(facts, how) == IF how = "garbled" THEN {} ELSE facts

\* Nmap looks at the ports of its scope.
InScope(plan, facts) == IF PortScope(plan) = "top1000" THEN facts ELSE facts \ {"8443"}
NmapStep(plan, facts, how) == Result(TRUE, FALSE, TRUE, ParseNmapGrepable(InScope(plan, facts), how))

\* A file that WhatWeb wrote counts whatever its exit code, which is recorded.
WhatwebStep(facts, how) == Result(TRUE, FALSE, how # "exits", ParseWhatwebJson(facts, how))

\* With a result the exit code of Nuclei does not count.
NucleiStep(facts, how, lost) ==
    LET matches == ParseNucleiJsonl(facts, how, lost)
    IN  Result(TRUE, FALSE, how # "cut" \/ matches # {}, matches)

RetireStep(facts, how) ==
    IF how = "download" THEN Nothing ELSE Data(ParseRetireJson(facts, how))

\* The object of an unreadable file has an error; the record has the exit code's.
ParseTestsslJson(facts, how) ==
    CASE how = "garbled" -> Result(TRUE, TRUE, TRUE, {}) [] how = "dies" -> Error({}) [] OTHER -> Data(facts)

\* A record with an error is a result, and the step is recorded as ok.
ParseHttpxJsonl(facts, how) ==
    CASE how = "error" -> Result(TRUE, TRUE, TRUE, {}) [] how = "garbled" -> Nothing [] OTHER -> Data(facts)

ParseWpscanJson(facts, how) == IF how = "garbled" THEN Result(FALSE, FALSE, TRUE, {}) ELSE Data(facts)

LineStep(lines, how) == Result(TRUE, FALSE, how # "cut", lines)

\* What one step of processJob delivers.
Check(in, t, plan, site, trouble) ==
    LET facts == FactsOf(site, t)
        how == IF trouble.tool = t THEN trouble.how ELSE ""
        lost == trouble.lost
    IN  IF how = "dies" /\ t # "testssl" THEN Nothing
        ELSE CASE
             t = "nmap" -> NmapStep(plan, facts, how)
          [] t = "whatweb" -> WhatwebStep(facts, how)
          [] t = "http" -> HttpCheck(facts, how)
          [] t = "tls" -> TlsCheck(facts, how)
          [] t = "wpscan" -> ParseWpscanJson(facts, how)
          [] t = "subfinder" -> LineStep(ParseSubfinderJson(facts, how, lost), how)
          [] t = "dnsx" -> DnsRecordLookup(facts, how)
          [] t = "rdap" -> RdapLookup(facts, how)
          [] t = "email" -> EmailPosture(facts, how)
          [] t = "nuclei" -> NucleiStep(facts, how, lost)
          [] t = "retire" -> RetireStep(facts, how)
          [] t = "httpx" -> ParseHttpxJsonl(facts, how)
          [] t = "testssl" -> ParseTestsslJson(facts, how)
          [] t = "feroxbuster" -> LineStep(ParseFeroxJson(facts, how, lost), how)
          [] t = "waybackurls" -> LineStep(ParseWaybackUrls(facts, how, lost), how)
          [] t = "osv" -> OsvLookup(in, facts, how)
          [] t = "crawl-rules" -> CrawlRules(facts, how)
          [] t = "security-txt" -> SecurityTxtLookup(facts, how)
          [] t = "page-recon" -> PageRecon(facts, how)
          [] t = "header-posture" -> HeaderPosture(in, facts)
          [] t = "dns-hardening" -> DnsHardeningLookup(facts, how)
          [] t = "dnssec" -> DnssecLookup(facts, how)
          [] t = "ip-intel" -> IpIntelLookup(facts, how)
===============================================================================
