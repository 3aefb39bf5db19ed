------------------------------- MODULE ScanDiff -------------------------------
(***************************************************************************)
(* The scans of one schedule one after the other, and the difference that  *)
(* is shown between the last two: the steps of processJob                  *)
(* (worker/scanner.ts), buildFindings, buildScanEvent, the rows of the     *)
(* history and computeScanDiff (server/scan-diffs.ts).                     *)
(*                                                                         *)
(* The site changes between the scans; in a scan one tool may be in        *)
(* trouble. "history" are the rows of the completed scans; "truth" and     *)
(* "hampered" in a row are history variables. Scans that fail or are       *)
(* cancelled leave no findings and are in no difference (getPreviousScan): *)
(* they are left out.                                                      *)
(***************************************************************************)
EXTENDS Checks, Report

CONSTANTS
    Plans,    \* the plans a scan may have
    FullPlan, \* the plan whose scope holds those of all others
    Pools,    \* pairs <<items, troubles>>: an item is a set of pairs <<tool, fact>>
    MaxScans  \* bound: the scans of a behaviour

\* The request names modules there are (createJobSchema).
ASSUME PlansKnown == \A plan \in Plans \cup {FullPlan} : plan.modules \in Seq(DOMAIN ModuleTools)

\* The full plan has a step of every tool, but for WPScan, which processJob adds.
ASSUME FullPlanRunsAll == Tools \ {"wpscan"} \subseteq ToSet(Steps(FullPlan))

VARIABLES
    pool,    \* the element of Pools of this behaviour
    site,    \* the set of pairs <<tool, fact>> that hold
    history, \* the rows of the completed scans, in order
    report   \* the report of the last of them

vars == <<pool, site, history, report>>

SitesOf(p) == {UNION items : items \in SUBSET p[1]}

\* What buildFindings is given (Findings).
Input(ok, got, err, ran, saw) == [ok |-> ok, got |-> got, err |-> err, ran |-> ran, saw |-> saw]

NoReport == [in |-> Input({}, {}, {}, FALSE, [t \in Tools \cup {"live"} |-> {}]), findings |-> {}, modules |-> <<>>]

\* The live re-check of archived URLs skips those whose request fails, and takes
\* the first 15 only: no trouble of the step, which is recorded as ok.
VerifyLive(urls, at, trouble) ==
    (urls \cap FactsOf(at, "live"))
    \ When(trouble.tool = "waybackurls" /\ trouble.how = "unchecked", trouble.lost)

\* The step of one tool adds its record and its observation.
Step(in, t, plan, at, trouble) ==
    LET r == Check(in, t, plan, at, trouble)
        saw == [in.saw EXCEPT ![t] = r.saw]
        live == VerifyLive(r.saw, at, trouble)
    IN  Input(IF r.ok THEN in.ok \cup {t} ELSE in.ok,
              IF r.got THEN in.got \cup {t} ELSE in.got,
              IF r.err THEN in.err \cup {t} ELSE in.err,
              in.ran,
              IF t = "waybackurls" THEN [saw EXCEPT !["live"] = live] ELSE saw)

RunSteps(plan, at, trouble) ==
    LET steps == Steps(plan)
        after[n \in 0..Len(steps)] ==
            IF n = 0 THEN NoReport.in ELSE Step(after[n - 1], steps[n], plan, at, trouble)
    IN  after[Len(steps)]

\* WPScan is added when WordPress was seen and it was not planned; the record
\* of an unreadable file is then a failed one.
RunConditionalWpscan(in, plan, at, trouble) ==
    IF "wordpress" \in in.saw["whatweb"] /\ "wpscan" \notin ToSet(Steps(plan))
    THEN LET after == Step(in, "wpscan", plan, at, trouble)
             ok == IF "wpscan" \in after.got THEN after.ok ELSE after.ok \ {"wpscan"}
         IN  Input(ok, after.got, after.err, TRUE, after.saw)
    ELSE in

Observe(plan, at, trouble) == RunConditionalWpscan(RunSteps(plan, at, trouble), plan, at, trouble)

\* The compact findings of an event: the first of each fingerprint.  (At most 500
\* are sent; no site of the model comes near.)
FindingsDetail(findings) ==
    {LET f == CHOOSE g \in findings : Fingerprint(g) = print
     IN  [print |-> print, severity |-> f.severity, sources |-> f.sources, key |-> f.key] :
        print \in {Fingerprint(g) : g \in findings}}

\* What a scan of all that can be planned finds when nothing goes wrong.
Truth == [at \in UNION {SitesOf(p) : p \in Pools} |->
            {[print |-> Fingerprint(f), severity |-> f.severity] : f \in BuildFindings(Observe(FullPlan, at, Healthy))}]

\* The tools that did not see all they should: in trouble, not run, or with a
\* narrower scope. WPScan needs no plan.
Hampered(plan, trouble) ==
    {trouble.tool} \cup (Tools \ (ToSet(Steps(plan)) \cup {"wpscan"}))
    \cup When(PortScope(plan) # PortScope(FullPlan), {"nmap"})

-------------------------------------------------------------------------------
\* Reading the rows (server/scans.ts, server/scan-diffs.ts)

Latest == history[Len(history)]
HasPrevious == Len(history) >= 2
Previous == history[Len(history) - 1]

Prints(row) == {r.print : r \in row.rows}
NewFindings == {r \in Latest.rows : r.print \notin Prints(Previous)}
Missing == {r \in Previous.rows : r.print \notin Prints(Latest)}
\* Mutant: only when all of the tools failed.
UnavailableAll(r) == r.sources # {} /\ r.sources \cap Latest.ok = {}
Unavailable(r) == r.sources # {} /\ \E t \in r.sources : t \notin Latest.ok
NotAssessed == {r \in Missing : Unavailable(r)}
ResolvedFindings == Missing \ NotAssessed
SeverityChanges ==
    {r \in Latest.rows : \E p \in Previous.rows : p.print = r.print /\ p.severity # r.severity}

-------------------------------------------------------------------------------
Init == /\ pool \in Pools
        /\ site \in SitesOf(pool)
        /\ history = <<>> /\ report = NoReport

\* The site is by now "at"; the scan sees it as far as its troubles let it.
Scan(plan, trouble) ==
    \E at \in SitesOf(pool) :
        /\ Len(history) < MaxScans
        /\ trouble.tool \in ToSet(Steps(plan)) \cup {"", "wpscan"}
        /\ trouble.lost \subseteq FactsOf(at, trouble.tool)
        /\ \E in \in {Observe(plan, at, trouble)} : \E findings \in {BuildFindings(in)} :
            /\ report' = [in |-> in, findings |-> findings, modules |-> plan.modules]
            /\ history' = Append(history, [rows |-> FindingsDetail(findings), ok |-> in.ok,
                                           truth |-> Truth[at], hampered |-> Hampered(plan, trouble)])
        /\ site' = at
        /\ UNCHANGED pool

Next == \E plan \in Plans, trouble \in {Healthy} \cup pool[2] : Scan(plan, trouble)

Spec == Init /\ [][Next]_vars

-------------------------------------------------------------------------------
\* The tools whose results decide what a finding says.
Feeds(t) == CASE t \in {"osv", "wpscan"} -> {"whatweb"}
              [] t = "header-posture" -> {"page-recon", "httpx"}
              [] t = "httpx" -> {"http"}
              [] t = "dns-hardening" -> {"email"}
              [] t = "feroxbuster" -> {"waybackurls"}
              [] OTHER -> {}
Upstream(r) == r.sources \cup (UNION {Feeds(t) : t \in r.sources})
               \cup When(r.key = "php2shell", {"whatweb", "http", "httpx"})
               \cup When(r.key = "insecure-cookie", {"http", "httpx"})
IsTrue(r, row) == r.print \in {x.print : x \in row.truth}
HasSeverity(r, row) == [print |-> r.print, severity |-> r.severity] \in row.truth
Blurred(r, row) == row.hampered \cap Upstream(r) # {}

\* A finding is shown as resolved only when it is gone from the site, or when a
\* tool that saw less than it should was recorded as ok or is no source of the
\* finding: a failed tool of several that saw it is enough for "not assessed"
\* (scan-diffs.ts:67-72).
ResolvedIsGone ==
    HasPrevious =>
        \A r \in ResolvedFindings :
            \/ ~IsTrue(r, Latest)
            \/ \E t \in Latest.hampered \cap Upstream(r) : t \in Latest.ok \/ t \notin r.sources

\* A finding is shown as new, or with another severity, only because of the site
\* or because a tool behind it did not see everything in one of the two scans:
\* what buildFindings reports from a tool does not hang on the failure of others.
ReportedIsReal ==
    HasPrevious =>
        /\ \A r \in NewFindings :
            /\ IsTrue(r, Latest) \/ Blurred(r, Latest)
            /\ IsTrue(r, Previous) => Blurred(r, Previous)
        /\ \A r \in SeverityChanges :
            /\ HasSeverity(r, Latest) \/ Blurred(r, Latest)
            /\ HasSeverity(r, Previous) => Blurred(r, Previous)

\* The comment of computeScanDiff (scan-diffs.ts:33-35): "Findings missing because
\* a tool failed or did not run are classified as not assessed rather than
\* resolved." It says more than the code does: see diff_resolved.
FailedIsNotResolved ==
    HasPrevious =>
        \A r \in ResolvedFindings :
            IsTrue(r, Latest) => Upstream(r) \cap Latest.hampered \subseteq Latest.ok

\* With the playbook module every finding above informational has an entry of the
\* catalogue and stands in exactly one window of the roadmap, the critical and
\* high ones in the first two weeks (playbook.ts:16-62).
RoadmapComplete ==
    LET windows == PlaybookSection(report.in, report.findings, report.modules)
        in(w, f) == \E i \in windows[w] : i.finding = f
    IN  PlaybookEnabled(report.modules) =>
            \A f \in {g \in report.findings : g.severity # "informational"} :
                /\ Cardinality({w \in 1..4 : in(w, f)}) = 1
                /\ f.severity \in {"critical", "high"} => in(1, f) \/ in(2, f)

\* The tools that list what they find, and nothing else.
Listing == {"subfinder", "dnsx", "nuclei", "retire", "osv", "feroxbuster", "waybackurls"}

\* types.ts:85 says of the tools that support a finding: "Tools whose independent
\* observations agree with this finding." Violated: feroxbuster supports live
\* archived paths when it ran, without having found any (findings.ts:563).
SupportIsObserved ==
    \A f \in report.findings : \A t \in f.sources \cap Listing : report.in.saw[t] # {}

\* Both files show the evidence: a source of a finding has a column and a section,
\* feroxbuster apart where it found nothing (see SupportIsObserved),
\* the Markdown matrix marks each tool that disagrees and its appendix names each
\* check that failed, and no check of the PDF's posture tables fails without a
\* finding that says so (SPF of a host without mail servers apart).
EvidenceShown ==
    LET in == report.in
        markdown == RenderMarkdown(in)
        pdf == RenderAppendix(in) \cup TlsCard(in)
        matrix == RenderValidationMatrix(report.findings)
        titles == {f.title : f \in report.findings}
        shown(sections, t) == \E s \in sections : s[1] = t
        marks(m, f, mark) == {t \in DOMAIN m[f] : m[f][t] = mark}
    IN  /\ \A f \in report.findings :
            /\ \A t \in f.sources : \/ shown(markdown, t) /\ shown(pdf, t)
                                    \/ t = "feroxbuster" /\ in.saw[t] = {}
            /\ f.sources = marks(matrix, f, "yes") /\ f.sources = marks(RenderMatrix(report.findings), f, "yes")
            /\ f.disagree \ f.sources \subseteq marks(matrix, f, "no")
        /\ \A t \in in.err : <<t, "error">> \in markdown
        /\ "HSTS" \in HttpPosture(in) => "no HSTS" \in titles
        /\ "CSP" \in HttpPosture(in) => "no CSP" \in titles
        /\ "DMARC" \in DnsEmailPosture(in) => "no DMARC" \in titles
        /\ "SPF" \in DnsEmailPosture(in) /\ Saw(in, "email", "mx") => "no SPF" \in titles
        /\ "MX STARTTLS" \in DnsEmailPosture(in) => "no STARTTLS" \in titles
===============================================================================
