---------------------------- MODULE ScanJobProofs ----------------------------
(***************************************************************************)
(* Proofs about ScanJob, for any plan, any number of downloads and         *)
(* crashes, and any limits.                                                *)
(***************************************************************************)
EXTENDS ScanJob, TLAPS

\* The plan is finite, and ages are counted up to a limit.
LEMMA JobLimits == Len(Plan) \in Nat /\ TTL \in Nat /\ PdfLimit \in Nat
BY JobConstants

-----------------------------------------------------------------------------
(* A stop reaches the tools, and a cancellation is heeded *)

\* A job cancelled before its report was begun ends at the next top of the loop:
\* until then it can begin one more tool, and it reaches neither WPScan nor the
\* rendering.
StopInvariant ==
    /\ StopReachesChild
    /\ CancelHeeded
    /\ late \in Nat
    /\ status = "cancelled" /\ phase \in Running => aborted
    /\ late # 0 => phase \in {"tool", "settled", "lost"} /\ (phase = "tool" => status = "cancelled")
    /\ cancelledIn # "never" =>
          /\ phase \in Running => status = "cancelled"
          /\ phase \in {"wpscan", "render"} => cancelledIn \in {"wpscan", "render"}
    /\ status # "none" => phase # "new"
    /\ status \in {"none", "queued"} => cancelledIn = "never"
    /\ phase \in {"new", "resolving", "refused", "queued"} => cancelledIn = "never"
    /\ status = "running" => cancelledIn = "never" /\ phase \in Running \cup {"lost"}

\* The job's code returns: nothing runs any more, and a completed job was not
\* cancelled, or too late.
LEMMA SettleStops ==
    ASSUME StopInvariant, NEW st \in Finished, Settle(st),
           st = "completed" => cancelledIn \in {"never", "wpscan", "render"}
    PROVE  StopInvariant'
<1>1. /\ phase' = "settled" /\ status' = st /\ child' = "none"
      /\ aborted' = aborted /\ cancelledIn' = cancelledIn /\ late' = late
  BY DEF Settle, histVars
<1>2. StopReachesChild' /\ CancelHeeded' /\ late' \in Nat
  BY <1>1 DEF StopInvariant, StopReachesChild, CancelHeeded
<1> QED
  BY <1>1, <1>2 DEF StopInvariant, Running, Finished

LEMMA GiveUpStops == StopInvariant /\ GiveUp => StopInvariant'
<1>1. {"cancelled", "failed"} \subseteq Finished
  BY DEF Finished
<1> QED
  BY <1>1, SettleStops DEF GiveUp

\* The report begins at the end of the steps of a job that was not cancelled, or
\* after WPScan.
LEMMA RenderStops ==
    ASSUME StopInvariant, BeginRender, phase \in Running, late = 0,
           cancelledIn \in {"never", "wpscan", "render"}
    PROVE  StopInvariant'
<1>1. CASE dir
  BY <1>1 DEF BeginRender, histVars, StopInvariant, StopReachesChild, CancelHeeded, Running
<1>2. CASE ~dir
  BY <1>2, GiveUpStops DEF BeginRender
<1> QED
  BY <1>1, <1>2

\* The top of the loop lets only a job go on that was not cancelled.
LEMMA NextStepStops ==
    ASSUME StopInvariant, NEW detected, NextStep(detected), phase \in Running
    PROVE  StopInvariant'
<1>1. CASE status = "cancelled"
  BY <1>1, GiveUpStops DEF NextStep
<1>2. CASE status # "cancelled"
  <2>1. cancelledIn = "never" /\ late = 0
    BY <1>2 DEF StopInvariant, Running
  <2>2. CASE BeginStep
    BY <1>2, <2>1, <2>2 DEF BeginStep, histVars, StopInvariant, StopReachesChild, CancelHeeded, Running
  <2>3. CASE BeginWpscan
    BY <1>2, <2>1, <2>3 DEF BeginWpscan, Spawn, StopInvariant, StopReachesChild, CancelHeeded, Running
  <2>4. CASE BeginRender
    BY <2>1, <2>4, RenderStops
  <2> QED
    BY <1>2, <2>2, <2>3, <2>4 DEF NextStep
<1> QED
  BY <1>1, <1>2

LEMMA StopStep == StopInvariant /\ [Next]_vars => StopInvariant'
<1> SUFFICES ASSUME StopInvariant, [Next]_vars PROVE StopInvariant'
  OBVIOUS
<1>a. ASSUME UNCHANGED <<phase, status, aborted, child, histVars>> PROVE StopInvariant'
  BY <1>a DEF StopInvariant, StopReachesChild, CancelHeeded, histVars
<1>1. CASE Create \/ Refuse \/ Enqueue \/ Start
  BY <1>1 DEF Create, Refuse, Enqueue, Start, histVars, StopInvariant, StopReachesChild, CancelHeeded, Running
<1>2. CASE CancelQueued \/ CancelledBeforeTools
  <2>1. "cancelled" \in Finished
    BY DEF Finished
  <2> QED
    BY <1>2, <2>1, SettleStops DEF CancelQueued, CancelledBeforeTools
<1>3. CASE CancelRunning
  BY <1>3 DEF CancelRunning, Abort, StopInvariant, StopReachesChild, CancelHeeded, Running
<1>4. CASE ScanTimeout
  BY <1>4 DEF ScanTimeout, Abort, histVars, StopInvariant, StopReachesChild, CancelHeeded, Running
<1>5. CASE RevalidationFails \/ StepRefused \/ RenderFails
  BY <1>5, GiveUpStops DEF RevalidationFails, StepRefused, RenderFails
<1>6. CASE Revalidate
  BY <1>6 DEF Revalidate, histVars, StopInvariant, StopReachesChild, CancelHeeded, Running
<1>7. CASE VersionsCaptured
  BY <1>7, NextStepStops DEF VersionsCaptured, Running
<1>8. ASSUME NEW detected, RecordStep(detected), phase \in Running PROVE StopInvariant'
  BY <1>8, NextStepStops DEF RecordStep
<1>9. CASE StepValidated
  BY <1>9 DEF StepValidated, Spawn, StopInvariant, StopReachesChild, CancelHeeded, Running
<1>10. CASE InProcessEnds \/ VerifyEnds
  BY <1>8, <1>10 DEF InProcessEnds, VerifyEnds, Running
<1>11. CASE DownloadEnds
  <2>1. CASE RecordStep(FALSE)
    BY <1>8, <1>11, <2>1 DEF DownloadEnds, Running
  <2>2. CASE phase' = "tool" /\ Spawn /\ UNCHANGED <<status, aborted, cancelledIn>>
    BY <1>11, <2>2 DEF DownloadEnds, Spawn, StopInvariant, StopReachesChild, CancelHeeded, Running
  <2> QED
    BY <1>11, <2>1, <2>2 DEF DownloadEnds
<1>12. CASE ChildExits \/ ChildKilled \/ ChildReleased
  <2>1. ASSUME NEW tool, StepOutput(tool), phase = "tool" PROVE StopInvariant'
    <3>1. ASSUME NEW detected, RecordStep(detected) PROVE StopInvariant'
      BY <1>8, <2>1, <3>1 DEF Running
    <3>2. CASE ~aborted /\ phase' = "verify" /\ child' = "none" /\ UNCHANGED <<status, aborted, histVars>>
      BY <2>1, <3>2 DEF histVars, StopInvariant, StopReachesChild, CancelHeeded, Running
    <3> QED
      BY <2>1, <3>1, <3>2 DEF StepOutput
  <2>2. CASE WpscanOutput /\ phase = "wpscan"
    <3>1. late = 0 /\ cancelledIn \in {"never", "wpscan", "render"} /\ phase \in Running
      BY <2>2 DEF StopInvariant, Running
    <3> QED
      BY <2>2, <3>1, RenderStops DEF WpscanOutput
  <2> QED
    BY <1>12, <2>1, <2>2 DEF ChildExits, ChildKilled, ChildReleased, ToolOver
<1>13. CASE RenderDone
  <2>1. "completed" \in Finished /\ cancelledIn \in {"never", "wpscan", "render"}
    BY <1>13 DEF RenderDone, StopInvariant, Finished
  <2> QED
    BY <1>13, <2>1, SettleStops DEF RenderDone
<1>14. CASE StepTimeout
  BY <1>14 DEF StepTimeout, histVars, StopInvariant, StopReachesChild, CancelHeeded
<1>15. CASE ChildWrites \/ StrayEnds \/ Tick \/ Sweep \/ Restart
  BY <1>a, <1>15 DEF ChildWrites, StrayEnds, Tick, Sweep, Restart
<1>16. CASE Crash
  BY <1>16 DEF Crash, histVars, StopInvariant, StopReachesChild, CancelHeeded, Running
<1>17. ASSUME NEW r \in Readers, Download(r) \/ Open(r) \/ Deliver(r) \/ Cut(r) PROVE StopInvariant'
  BY <1>a, <1>17 DEF Download, Open, Deliver, Cut, jobVars
<1>18. CASE UNCHANGED vars
  BY <1>a, <1>18 DEF vars
<1> QED
  BY <1>1, <1>2, <1>3, <1>4, <1>5, <1>6, <1>7, <1>9, <1>10, <1>11, <1>12, <1>13, <1>14, <1>15, <1>16, <1>17, <1>18
     DEF Next, Bounded

LEMMA StopInvariantHolds == Spec => []StopInvariant
<1>1. Init => StopInvariant
  BY DEF Init, StopInvariant, StopReachesChild, CancelHeeded, Running
<1> QED
  BY <1>1, StopStep, PTL DEF Spec

\* Once the scan is stopped no step's tool is waited for, and after its user's
\* cancellation at most one more is begun, whatever the plan.
THEOREM StopsReachEveryTool == Spec => []StopReachesChild
<1>1. StopInvariant => StopReachesChild
  BY DEF StopInvariant
<1> QED
  BY <1>1, StopInvariantHolds, PTL

\* A cancelled job ends as completed only if all its steps were done when it was
\* cancelled.
THEOREM CancellationsAreHeeded == Spec => []CancelHeeded
<1>1. StopInvariant => CancelHeeded
  BY DEF StopInvariant
<1> QED
  BY <1>1, StopInvariantHolds, PTL

-----------------------------------------------------------------------------
(* The steps and their records *)

\* How far the job is: which step is under way, and how many have left a record.
Course ==
    /\ phase \in {"new", "resolving", "refused", "queued", "revalidate", "versions"} =>
          step = 0 /\ records = 0
    /\ phase \in {"validating", "download", "tool", "verify"} => step > 0 /\ records = step - 1
    /\ phase = "wpscan" => step = Len(Plan) /\ records = Len(Plan) /\ WpscanDue(wordpress)
    /\ phase = "render" =>
          /\ step = Len(Plan)
          /\ records \in IF WpscanDue(wordpress) THEN {Len(Plan), Len(Plan) + 1} ELSE {Len(Plan)}
    /\ artifacts => phase = "settled" /\ status = "completed"
    /\ phase = "new" => status = "none"
    /\ registered /\ status = "running" => phase \in Running

JobInvariant == TypeOK /\ Course /\ ReportIsComplete

\* What a spawn changes.
LEMMA SpawnType ==
    ASSUME TypeOK, Spawn
    PROVE  child' \in Children /\ strays' \in Nat /\ late' \in Nat
BY DEF TypeOK, Spawn, Children

\* What is left of the directory.
LEMMA RemoveDirType ==
    ASSUME TypeOK, RemoveDir
    PROVE  dir' \in BOOLEAN /\ files' = {} /\ dirAge' \in 0..(TTL + 1) /\ strays' \in Nat
<1>1. dir' \in BOOLEAN /\ files' = {}
  BY DEF TypeOK, RemoveDir
<1>2. (dirAge' = dirAge /\ strays' = strays) \/ (strays > 0 /\ dirAge' = 0 /\ strays' = strays - 1)
  BY DEF RemoveDir
<1>3. dirAge \in 0..(TTL + 1) /\ strays \in Nat
  BY DEF TypeOK
<1>4. dirAge' \in 0..(TTL + 1) /\ strays' \in Nat
  BY <1>2, <1>3, JobLimits
<1> QED
  BY <1>1, <1>4

\* A run that ends without a report.
LEMMA GiveUpCourse ==
    ASSUME JobInvariant, GiveUp, artifacts = FALSE,
           step' \in 0..Len(Plan), records' \in 0..(Len(Plan) + 1), wordpress' \in BOOLEAN
    PROVE  JobInvariant'
<1> USE JobLimits
<1>1. /\ phase' = "settled" /\ status' \in Finished /\ child' = "none"
      /\ doneAge' \in 0..(TTL + 1) /\ artifacts' = FALSE
      /\ UNCHANGED <<procVars, registered, aborted, histVars, readVars>>
  BY DEF GiveUp, Settle, JobInvariant, TypeOK, Finished
<1>a. dir' \in BOOLEAN /\ files' = {} /\ dirAge' \in 0..(TTL + 1) /\ strays' \in Nat
  BY RemoveDirType DEF GiveUp, JobInvariant
<1>2. TypeOK'
  BY <1>1, <1>a DEF JobInvariant, TypeOK, procVars, histVars, readVars, Phases, Children, Finished
<1>3. Course'
  BY <1>1 DEF Course, Finished
<1>4. ReportIsComplete'
  BY <1>1 DEF ReportIsComplete
<1> QED
  BY <1>2, <1>3, <1>4 DEF JobInvariant

\* After the last step, and after WPScan, the report is made.
LEMMA BeginRenderType ==
    ASSUME JobInvariant, BeginRender, dir,
           step' \in 0..Len(Plan), records' \in 0..(Len(Plan) + 1), wordpress' \in BOOLEAN
    PROVE  TypeOK'
<1> USE JobLimits
<1>1. /\ phase' = "render" /\ child' = "none" /\ files' = {"markdown"} /\ dirAge' = 0
      /\ UNCHANGED <<procVars, status, registered, aborted, histVars, dir, strays, artifacts, doneAge, readVars>>
  BY DEF BeginRender
<1> QED
  BY <1>1 DEF JobInvariant, TypeOK, procVars, histVars, readVars, Phases, Children, Running, Formats

LEMMA BeginRenderCourse ==
    ASSUME JobInvariant, BeginRender, artifacts = FALSE, step = Len(Plan), step' = step,
           wordpress' \in BOOLEAN,
           records' \in IF WpscanDue(wordpress') THEN {Len(Plan), Len(Plan) + 1} ELSE {Len(Plan)}
    PROVE  JobInvariant'
<1> USE JobLimits
<1>1. step' \in 0..Len(Plan) /\ records' \in 0..(Len(Plan) + 1)
  OBVIOUS
<1>2. CASE dir
  <2>1. /\ phase' = "render" /\ child' = "none" /\ files' = {"markdown"} /\ dirAge' = 0 /\ artifacts' = FALSE
        /\ UNCHANGED <<procVars, status, registered, aborted, histVars, dir, strays, doneAge, readVars>>
    BY <1>2 DEF BeginRender
  <2>2. TypeOK'
    BY <1>1, <1>2, BeginRenderType
  <2>3. WpscanDue(wordpress)' <=> WpscanDue(wordpress')
    BY DEF WpscanDue
  <2>4. Course'
    BY <1>1, <2>1, <2>3 DEF Course, Running
  <2> QED
    BY <2>1, <2>2, <2>4 DEF JobInvariant, ReportIsComplete
<1>3. CASE ~dir
  <2>1. GiveUp
    BY <1>3 DEF BeginRender
  <2> QED
    BY <1>1, <2>1, GiveUpCourse
<1> QED
  BY <1>2, <1>3

\* After a step with its record the job goes on, or ends without a report.
LEMMA NextStepCourse ==
    ASSUME JobInvariant, NEW detected \in BOOLEAN, NextStep(detected),
           phase \in {"versions", "download", "tool", "verify"},
           records' = step, wordpress' = detected
    PROVE  JobInvariant'
<1> USE JobLimits
<1>1. step \in 0..Len(Plan) /\ artifacts = FALSE
  BY DEF JobInvariant, TypeOK, Course
<1>2. CASE status = "cancelled"
  <2>1. GiveUp /\ step' \in 0..Len(Plan)
    BY <1>1, <1>2 DEF NextStep
  <2>2. records' \in 0..(Len(Plan) + 1) /\ wordpress' \in BOOLEAN
    BY <1>1
  <2> QED
    BY <1>1, <2>1, <2>2, GiveUpCourse
<1>3. CASE status # "cancelled" /\ step < Len(Plan)
  BY <1>1, <1>3 DEF NextStep, BeginStep, JobInvariant, TypeOK, Course, ReportIsComplete,
                    procVars, histVars, dirVars, readVars, Phases, Children, Running
<1>4. CASE status # "cancelled" /\ ~(step < Len(Plan)) /\ WpscanDue(detected)
  <2>1. /\ phase' = "wpscan" /\ Spawn /\ step' = step /\ step = Len(Plan)
        /\ UNCHANGED <<procVars, status, registered, aborted, cancelledIn, dir, dirAge, files, artifacts,
                       doneAge, readVars>>
    BY <1>1, <1>4 DEF NextStep, BeginWpscan
  <2> QED
    BY <1>1, <1>4, <2>1, SpawnType DEF JobInvariant, TypeOK, Course, ReportIsComplete, WpscanDue,
                    procVars, readVars, Phases, Running
<1>5. CASE status # "cancelled" /\ ~(step < Len(Plan)) /\ ~WpscanDue(detected)
  <2>1. BeginRender /\ step' = step /\ step = Len(Plan)
    BY <1>1, <1>5 DEF NextStep
  <2> QED
    BY <1>1, <1>5, <2>1, BeginRenderCourse
<1> QED
  BY <1>2, <1>3, <1>4, <1>5

\* Every step of the job keeps its course.
LEMMA JobStep == JobInvariant /\ [Next]_vars => JobInvariant'
<1> SUFFICES ASSUME JobInvariant, [Next]_vars PROVE JobInvariant'
  OBVIOUS
<1> USE JobLimits
<1>a. /\ step \in 0..Len(Plan) /\ records \in 0..(Len(Plan) + 1) /\ wordpress \in BOOLEAN
      /\ artifacts \in BOOLEAN /\ (phase # "settled" => artifacts = FALSE)
  BY DEF JobInvariant, TypeOK, Course
<1>1. CASE Create \/ Start
  BY <1>1 DEF Create, Start, JobInvariant, TypeOK, Course, ReportIsComplete, procVars, histVars, reportVars,
              dirVars, readVars, Phases, Children, Running
<1>2. CASE Refuse
  BY <1>2 DEF Refuse, JobInvariant, TypeOK, Course, ReportIsComplete, procVars, histVars, reportVars,
              readVars, Phases, Children, Running
<1>3. CASE Enqueue
  BY <1>3 DEF Enqueue, JobInvariant, TypeOK, Course, ReportIsComplete, procVars, histVars, reportVars,
              readVars, Phases, Children, Running
<1>4. CASE CancelQueued \/ CancelledBeforeTools
  BY <1>a, <1>4 DEF CancelQueued, CancelledBeforeTools, Settle, JobInvariant, TypeOK, Course, ReportIsComplete,
              procVars, histVars, reportVars, dirVars, readVars, Phases, Children, Running, Finished
<1>5. CASE CancelRunning \/ ScanTimeout
  <2>a. child' \in Children /\ strays' \in Nat
    BY <1>5 DEF CancelRunning, ScanTimeout, Abort, JobInvariant, TypeOK, Children
  <2>b. cancelledIn' \in {"never"} \cup Running
    <3>1. CASE CancelRunning
      <4>1. phase \in Running
        BY <3>1 DEF CancelRunning, JobInvariant, Course
      <4> QED
        BY <3>1, <4>1 DEF CancelRunning
    <3>2. CASE ScanTimeout
      BY <3>2 DEF ScanTimeout, histVars, JobInvariant, TypeOK
    <3> QED
      BY <1>5, <3>1, <3>2
  <2>1. /\ aborted' = TRUE
        /\ status' \in {"none", "queued", "running"} \cup Finished /\ doneAge' \in 0..(TTL + 1)
        /\ artifacts => status' = "completed"
        /\ UNCHANGED <<procVars, phase, registered, late, reportVars, dir, dirAge, files, artifacts, readVars>>
    BY <1>5 DEF CancelRunning, ScanTimeout, Abort, JobInvariant, TypeOK, Course, Finished, histVars
  <2>2. TypeOK'
    BY <2>1, <2>a, <2>b DEF JobInvariant, TypeOK, procVars, reportVars, readVars
  <2>3. Course' /\ ReportIsComplete'
    <3>1. phase' = "new" => status' = "none"
      BY <1>5 DEF CancelRunning, ScanTimeout, JobInvariant, Course
    <3>2. registered' /\ status' = "running" => phase' \in Running
      BY <1>5 DEF CancelRunning, ScanTimeout, JobInvariant, Course
    <3> QED
      BY <2>1, <3>1, <3>2 DEF JobInvariant, Course, ReportIsComplete, WpscanDue, reportVars
  <2> QED
    BY <2>2, <2>3 DEF JobInvariant
<1>6. CASE RevalidationFails \/ StepRefused \/ RenderFails
  BY <1>a, <1>6, GiveUpCourse DEF RevalidationFails, StepRefused, RenderFails, reportVars
<1>7. CASE Revalidate
  BY <1>7 DEF Revalidate, JobInvariant, TypeOK, Course, ReportIsComplete, procVars, histVars, reportVars,
              dirVars, readVars, Phases, Children, Running
<1>8. CASE VersionsCaptured
  <2>1. NextStep(wordpress) /\ wordpress' = wordpress /\ records' = step /\ phase = "versions"
    BY <1>8 DEF VersionsCaptured, JobInvariant, Course
  <2> QED
    BY <1>a, <2>1, NextStepCourse
<1>9. ASSUME NEW detected \in BOOLEAN, RecordStep(detected), phase \in {"download", "tool", "verify"}
      PROVE  JobInvariant'
  <2>1. records' = step
    BY <1>a, <1>9 DEF RecordStep, JobInvariant, Course
  <2>2. wordpress' \in BOOLEAN /\ NextStep(wordpress')
    BY <1>9 DEF RecordStep
  <2> QED
    BY <1>9, <2>1, <2>2, NextStepCourse
<1>10. CASE StepValidated
  <2>1. /\ phase = "validating" /\ phase' \in {"download", "tool"} /\ artifacts' = FALSE
        /\ UNCHANGED <<procVars, status, registered, aborted, cancelledIn, reportVars, doneAge, readVars>>
    BY <1>a, <1>10 DEF StepValidated
  <2>2. child' \in Children /\ strays' \in Nat /\ late' \in Nat
    BY <1>10, SpawnType DEF StepValidated, JobInvariant, TypeOK, dirVars
  <2>3. dir' \in BOOLEAN /\ dirAge' \in 0..(TTL + 1) /\ files' \subseteq Formats
    <3>1. (dir' = TRUE /\ dirAge' = 0 /\ files' = files) \/ UNCHANGED <<dir, dirAge, files>>
      BY <1>10 DEF StepValidated, dirVars
    <3>2. dir \in BOOLEAN /\ dirAge \in 0..(TTL + 1) /\ files \subseteq Formats
      BY DEF JobInvariant, TypeOK
    <3>3. dir' \in BOOLEAN /\ files' \subseteq Formats
      BY <3>1, <3>2
    <3>4. dirAge' \in 0..(TTL + 1)
      BY <3>1, <3>2
    <3> QED
      BY <3>3, <3>4
  <2>4. TypeOK'
    BY <2>1, <2>2, <2>3 DEF JobInvariant, TypeOK, procVars, reportVars, readVars, Phases, Running
  <2>5. Course' /\ ReportIsComplete'
    BY <2>1 DEF JobInvariant, Course, ReportIsComplete, reportVars, Running
  <2> QED
    BY <2>4, <2>5 DEF JobInvariant
<1>11. ASSUME NEW tool, StepOutput(tool), phase = "tool" PROVE JobInvariant'
  <2>1. CASE /\ phase' = "verify" /\ child' = "none"
             /\ UNCHANGED <<procVars, status, registered, aborted, histVars, reportVars, dirVars,
                            artifacts, doneAge, readVars>>
    BY <1>11, <2>1 DEF JobInvariant, TypeOK, Course, ReportIsComplete, procVars, histVars, reportVars, dirVars,
              readVars, Phases, Children, Running
  <2> QED
    BY <1>9, <1>11, <2>1 DEF StepOutput
<1>12. CASE DownloadEnds
  <2>1. CASE /\ phase' = "tool" /\ Spawn
             /\ UNCHANGED <<procVars, status, registered, aborted, cancelledIn, reportVars, dir,
                            dirAge, files, artifacts, doneAge, readVars>>
    <3>1. child' \in Children /\ strays' \in Nat /\ late' \in Nat
      BY <2>1, SpawnType DEF JobInvariant
    <3> QED
      BY <1>12, <2>1, <3>1 DEF DownloadEnds, JobInvariant, TypeOK, Course, ReportIsComplete, procVars,
                reportVars, readVars, Phases, Running
  <2> QED
    BY <1>9, <1>12, <2>1 DEF DownloadEnds
<1>13. CASE InProcessEnds \/ VerifyEnds
  BY <1>9, <1>13 DEF InProcessEnds, VerifyEnds
<1>14. CASE WpscanOutput /\ phase = "wpscan"
  <2>1. /\ step = Len(Plan) /\ step' = step /\ wordpress' = wordpress /\ BeginRender
        /\ records' \in {Len(Plan), Len(Plan) + 1} /\ WpscanDue(wordpress)
    BY <1>14 DEF WpscanOutput, JobInvariant, Course
  <2>2. WpscanDue(wordpress')
    BY <2>1 DEF WpscanDue
  <2> QED
    BY <1>a, <1>14, <2>1, <2>2, BeginRenderCourse
<1>15. CASE ChildExits \/ ChildKilled \/ ChildReleased
  BY <1>11, <1>14, <1>15 DEF ChildExits, ChildKilled, ChildReleased, ToolOver
<1>16. CASE RenderDone
  <2>1. /\ phase' = "settled" /\ status' = "completed" /\ child' = "none" /\ artifacts' = TRUE
        /\ doneAge' = 0 /\ files' = Formats /\ phase = "render"
        /\ UNCHANGED <<procVars, registered, aborted, histVars, readVars, dir, dirAge, strays, reportVars>>
    BY <1>16 DEF RenderDone, Settle
  <2>2. WpscanDue(wordpress)' <=> WpscanDue(wordpress)
    BY <2>1 DEF WpscanDue, reportVars
  <2>3. TypeOK'
    BY <2>1 DEF JobInvariant, TypeOK, procVars, histVars, readVars, reportVars, Phases, Children, Finished
  <2>4. Course' /\ ReportIsComplete'
    BY <2>1, <2>2 DEF JobInvariant, Course, ReportIsComplete, reportVars
  <2> QED
    BY <2>3, <2>4 DEF JobInvariant
<1>17. CASE StepTimeout
  BY <1>17 DEF StepTimeout, JobInvariant, TypeOK, Course, ReportIsComplete, procVars, histVars, reportVars, dirVars,
               readVars, Children
<1>18. CASE ChildWrites \/ StrayEnds
  <2>1. dirAge' \in 0..(TTL + 1) /\ strays' \in Nat
    BY <1>18 DEF ChildWrites, StrayEnds, JobInvariant, TypeOK
  <2>2. UNCHANGED <<procVars, phase, status, registered, aborted, child, histVars, reportVars, dir, files,
                    artifacts, doneAge, readVars>>
    BY <1>18 DEF ChildWrites, StrayEnds
  <2> QED
    BY <2>1, <2>2 DEF JobInvariant, TypeOK, Course, ReportIsComplete, procVars, histVars, reportVars, readVars
<1>19. CASE Tick
  <2>1. dirAge' \in 0..(TTL + 1) /\ doneAge' \in 0..(TTL + 1)
    BY <1>19 DEF Tick, Older, JobInvariant, TypeOK
  <2> QED
    BY <1>19, <2>1 DEF Tick, JobInvariant, TypeOK, Course, ReportIsComplete, procVars, histVars, reportVars, readVars
<1>20. CASE Sweep
  <2>1. registered' \in BOOLEAN
    BY <1>20 DEF Sweep, JobInvariant, TypeOK
  <2>2. dir' \in BOOLEAN /\ files' \subseteq Formats /\ dirAge' \in 0..(TTL + 1) /\ strays' \in Nat
    <3>1. CASE RemoveDir
      BY <3>1, RemoveDirType DEF JobInvariant
    <3>2. CASE UNCHANGED dirVars
      BY <3>2 DEF dirVars, JobInvariant, TypeOK
    <3> QED
      BY <1>20, <3>1, <3>2 DEF Sweep
  <2> QED
    BY <1>20, <2>1, <2>2 DEF Sweep, JobInvariant, TypeOK, Course, ReportIsComplete, procVars, histVars, reportVars, readVars
<1>21. CASE Crash
  <2>1. readers' \in [Readers -> ReaderStates]
    BY <1>21 DEF Crash, JobInvariant, TypeOK, ReaderStates
  <2>2. phase' \in {"new", "lost"} /\ (phase' = "new" => phase = "new")
    BY <1>21 DEF Crash
  <2>3. up' = FALSE /\ crashes' \in 0..MaxCrashes
    BY <1>21, JobConstants DEF Crash, JobInvariant, TypeOK
  <2> QED
    BY <1>21, <2>1, <2>2, <2>3 DEF Crash, JobInvariant, TypeOK, Course, ReportIsComplete, histVars, reportVars,
               Phases, Children, Running
<1>22. CASE Restart
  BY <1>22 DEF Restart, JobInvariant, TypeOK, Course, ReportIsComplete, histVars, reportVars, dirVars, readVars
<1>23. ASSUME NEW r \in Readers, Download(r) \/ Open(r) \/ Deliver(r) \/ Cut(r) PROVE JobInvariant'
  <2>1. readers' \in [Readers -> ReaderStates]
    BY <1>23 DEF Download, Open, Deliver, Cut, JobInvariant, TypeOK, ReaderStates
  <2>2. delivered' \subseteq Formats /\ files' \subseteq Formats /\ dirAge' \in 0..(TTL + 1) /\ dir' = dir
    BY <1>23 DEF Download, Open, Deliver, Cut, JobInvariant, TypeOK, dirVars
  <2>a. strays' \in Nat
    BY <1>23 DEF Download, Open, Deliver, Cut, JobInvariant, TypeOK, dirVars
  <2>3. UNCHANGED jobVars
    BY <1>23 DEF Download, Open, Deliver, Cut
  <2> QED
    BY <2>1, <2>2, <2>3, <2>a DEF jobVars, JobInvariant, TypeOK, Course, ReportIsComplete, procVars, histVars, reportVars
<1>24. CASE UNCHANGED vars
  BY <1>24 DEF vars, JobInvariant, TypeOK, Course, ReportIsComplete, procVars, histVars, reportVars, dirVars, readVars
<1> QED
  BY <1>1, <1>2, <1>3, <1>4, <1>5, <1>6, <1>7, <1>8, <1>10, <1>12, <1>13, <1>15, <1>16, <1>17, <1>18, <1>19, <1>20,
     <1>21, <1>22, <1>23, <1>24 DEF Next, Bounded

LEMMA JobInvariantHolds == Spec => []JobInvariant
<1>1. Init => JobInvariant
  <2> SUFFICES ASSUME Init PROVE JobInvariant
    OBVIOUS
  <2>1. readers \in [Readers -> ReaderStates]
    BY DEF Init, ReaderStates
  <2>2. /\ crashes \in 0..MaxCrashes /\ step \in 0..Len(Plan) /\ records \in 0..(Len(Plan) + 1)
        /\ dirAge \in 0..(TTL + 1) /\ doneAge \in 0..(TTL + 1)
    BY JobLimits, JobConstants DEF Init
  <2>3. TypeOK
    BY <2>1, <2>2 DEF Init, TypeOK, Phases, Children
  <2>4. Course /\ ReportIsComplete
    BY DEF Init, Course, ReportIsComplete
  <2> QED
    BY <2>3, <2>4 DEF JobInvariant
<1> QED
  BY <1>1, JobStep, PTL DEF Spec

\* Every variable keeps its type; in particular no step leaves two records.
THEOREM JobTypeCorrect == Spec => []TypeOK
<1>1. JobInvariant => TypeOK
  BY DEF JobInvariant
<1> QED
  BY <1>1, JobInvariantHolds, PTL

\* A report that can be fetched has a record of every step of the plan.
THEOREM ReportsAreComplete == Spec => []ReportIsComplete
<1>1. JobInvariant => ReportIsComplete
  BY DEF JobInvariant
<1> QED
  BY <1>1, JobInvariantHolds, PTL

-----------------------------------------------------------------------------
(* The artifacts *)

\* While the PDF renders the directory is young, and afterwards not older than the
\* job is finished plus that time: a sweep that takes it comes when the retention
\* is over.
Retention ==
    /\ phase = "render" /\ dir => dirAge <= PdfLimit
    /\ phase = "render" /\ "markdown" \in files => dir
    /\ artifacts =>
          /\ dir => dirAge <= doneAge + PdfLimit
          /\ doneAge + PdfLimit <= TTL => dir /\ Formats \subseteq files \cup delivered

LEMMA RetentionStep == JobInvariant /\ Retention /\ [Next]_vars => Retention'
<1> SUFFICES ASSUME JobInvariant, Retention, [Next]_vars PROVE Retention'
  OBVIOUS
<1> USE JobLimits
<1>a. /\ dirAge \in 0..(TTL + 1) /\ doneAge \in 0..(TTL + 1)
      /\ (artifacts => phase = "settled" /\ status = "completed")
  BY DEF JobInvariant, TypeOK, Course
<1>b. artifacts \in BOOLEAN /\ dir \in BOOLEAN /\ registered \in BOOLEAN
  BY DEF JobInvariant, TypeOK
<1>c. ASSUME ~artifacts', phase' # "render" PROVE Retention'
  BY <1>c DEF Retention
<1>d. ASSUME UNCHANGED <<phase, artifacts, registered, dirVars, doneAge, delivered>> PROVE Retention'
  BY <1>d DEF Retention, dirVars
<1>1. CASE Create \/ Refuse \/ Enqueue \/ Start \/ Revalidate
  BY <1>a, <1>c, <1>1 DEF Create, Refuse, Enqueue, Start, Revalidate
<1>2. CASE CancelQueued \/ CancelledBeforeTools
  BY <1>a, <1>c, <1>2 DEF CancelQueued, CancelledBeforeTools, Settle
<1>3. CASE CancelRunning \/ ScanTimeout
  <2>1. UNCHANGED <<phase, artifacts, dir, dirAge, files, delivered>> /\ (artifacts => doneAge' = doneAge)
    BY <1>a, <1>3 DEF CancelRunning, ScanTimeout, readVars, Running
  <2> QED
    BY <1>a, <2>1 DEF Retention
<1>e. ASSUME GiveUp, phase # "settled" PROVE Retention'
  BY <1>a, <1>c, <1>e DEF GiveUp, Settle
<1>f. ASSUME BeginRender, phase # "settled" PROVE Retention'
  <2>1. CASE dir
    BY <1>a, <1>f, <2>1 DEF BeginRender, Retention
  <2> QED
    BY <1>e, <1>f, <2>1 DEF BeginRender
<1>g. ASSUME NEW detected, NextStep(detected), phase # "settled" PROVE Retention'
  BY <1>a, <1>c, <1>e, <1>f, <1>g DEF NextStep, BeginStep, BeginWpscan
<1>h. ASSUME NEW detected, RecordStep(detected), phase # "settled" PROVE Retention'
  <2>1. NextStep(wordpress')
    BY <1>h DEF RecordStep
  <2> QED
    BY <1>g, <1>h, <2>1
<1>4. CASE RevalidationFails \/ StepRefused \/ RenderFails
  BY <1>e, <1>4 DEF RevalidationFails, StepRefused, RenderFails
<1>5. CASE VersionsCaptured
  BY <1>g, <1>5 DEF VersionsCaptured
<1>6. CASE StepValidated
  BY <1>a, <1>c, <1>6 DEF StepValidated
<1>7. CASE InProcessEnds \/ VerifyEnds \/ DownloadEnds
  BY <1>a, <1>c, <1>h, <1>7 DEF InProcessEnds, VerifyEnds, DownloadEnds
<1>8. CASE ChildExits \/ ChildKilled \/ ChildReleased
  <2>1. ASSUME NEW tool, StepOutput(tool), phase = "tool" PROVE Retention'
    BY <1>a, <1>c, <1>h, <2>1 DEF StepOutput
  <2>2. CASE WpscanOutput /\ phase = "wpscan"
    BY <1>f, <2>2 DEF WpscanOutput
  <2> QED
    BY <1>8, <2>1, <2>2 DEF ChildExits, ChildKilled, ChildReleased, ToolOver
<1>9. CASE RenderDone
  <2>1. /\ phase = "render" /\ "markdown" \in files /\ phase' = "settled" /\ files' = Formats
        /\ dir' = dir /\ dirAge' = dirAge
    BY <1>9 DEF RenderDone, Settle
  <2>2. doneAge' = 0
    BY <1>9 DEF RenderDone, Settle
  <2> QED
    BY <1>a, <2>1, <2>2 DEF Retention
<1>10. CASE StepTimeout
  BY <1>d, <1>10 DEF StepTimeout, readVars
<1>11. CASE ChildWrites \/ StrayEnds
  <2>1. UNCHANGED <<phase, artifacts, dir, files, doneAge, delivered>>
    BY <1>11 DEF ChildWrites, StrayEnds, readVars
  <2>2. dirAge' \in {0, dirAge}
    BY <1>11 DEF ChildWrites, StrayEnds
  <2> QED
    BY <1>a, <2>1, <2>2 DEF Retention
<1>12. CASE Tick
  <2>1. UNCHANGED <<phase, status, registered, dir, files, artifacts, delivered>>
    BY <1>12 DEF Tick, readVars
  <2>2. dir => dirAge' <= TTL + 1 /\ dirAge' <= dirAge + 1
    BY <1>a, <1>12 DEF Tick, Older
  <2>3. artifacts => doneAge' \in Nat /\ doneAge' >= doneAge /\ (doneAge' > TTL \/ doneAge' = doneAge + 1)
    BY <1>a, <1>12 DEF Tick, Older, Finished
  <2>4. phase = "render" /\ dir => dirAge' <= PdfLimit
    BY <1>a, <1>12 DEF Tick, Older
  <2>5. dir => dirAge' \in Nat
    BY <1>a, <1>12 DEF Tick, Older
  <2> QED
    BY <1>a, <2>1, <2>2, <2>3, <2>4, <2>5 DEF Retention
<1>13. CASE Sweep
  <2>1. UNCHANGED <<phase, artifacts, doneAge, delivered>>
    BY <1>13 DEF Sweep, readVars
  <2>2. CASE dirAge > TTL
    <3>1. files' = {} /\ (dir' => dir /\ dirAge' = 0)
      BY <1>13, <2>2 DEF Sweep, RemoveDir
    <3>2. artifacts /\ dir => ~(doneAge + PdfLimit <= TTL)
      BY <1>a, <2>2 DEF Retention
    <3>3. artifacts => ~(doneAge + PdfLimit <= TTL) \/ dir
      BY DEF Retention
    <3> QED
      BY <1>a, <2>1, <3>1, <3>2, <3>3 DEF Retention
  <2>3. CASE ~(dirAge > TTL)
    BY <1>13, <2>1, <2>3 DEF Sweep, dirVars, Retention
  <2> QED
    BY <2>2, <2>3
<1>14. CASE Crash
  BY <1>c, <1>14 DEF Crash
<1>15. CASE Restart
  BY <1>d, <1>15 DEF Restart, readVars
<1>16. ASSUME NEW r \in Readers, Download(r) \/ Open(r) \/ Cut(r) PROVE Retention'
  BY <1>d, <1>16 DEF Download, Open, Cut, jobVars
<1>17. ASSUME NEW r \in Readers, Deliver(r) PROVE Retention'
  <2>1. PICK f \in Formats : /\ delivered' = delivered \cup {f} /\ files' = files \ {f}
                             /\ dirAge' = IF f \in files THEN 0 ELSE dirAge
    BY <1>17 DEF Deliver
  <2>2. UNCHANGED <<phase, artifacts, registered, doneAge, dir>>
    BY <1>17 DEF Deliver, jobVars
  <2> QED
    BY <1>a, <2>1, <2>2 DEF Retention
<1>18. CASE UNCHANGED vars
  BY <1>d, <1>18 DEF vars, readVars
<1> QED
  BY <1>1, <1>2, <1>3, <1>4, <1>5, <1>6, <1>7, <1>8, <1>9, <1>10, <1>11, <1>12, <1>13, <1>14, <1>15, <1>16, <1>17,
     <1>18 DEF Next, Bounded

\* An artifact of a completed job is there, or somebody has it, until the retention
\* less the time a PDF may take is over: for any limits, and whatever downloads and
\* sweeps come in between.
THEOREM ArtifactsAreKept == Spec => []RetainedUntilDelivered
<1>1. Init => Retention
  BY DEF Init, Retention
<1>2. JobInvariant /\ Retention => RetainedUntilDelivered
  <2> SUFFICES ASSUME JobInvariant, Retention, registered, artifacts, doneAge + PdfLimit <= TTL
               PROVE  Formats \subseteq files \cup delivered
    BY DEF RetainedUntilDelivered
  <2>1. doneAge \in Nat
    BY JobLimits DEF JobInvariant, TypeOK
  <2> QED
    BY <2>1, JobLimits DEF Retention
<1> QED
  BY <1>1, <1>2, JobInvariantHolds, RetentionStep, PTL DEF Spec
=============================================================================
