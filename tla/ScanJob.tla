------------------------------- MODULE ScanJob -------------------------------
(***************************************************************************)
(* One scan job in detail (worker/scanner.ts, worker/runner.ts and the     *)
(* artifact handler of worker/index.ts): its steps and their subprocesses, *)
(* its directory, its two artifacts, the downloads that consume them and   *)
(* the sweep that ages everything out.  ScanQueue has many jobs and one    *)
(* await per phase; this module has one job and every await of processJob. *)
(*                                                                         *)
(* Time is kept as two ages in units of the artifact TTL's minutes, which  *)
(* stop growing once they exceed the TTL.  A resolution of the target is   *)
(* its outcome: it lets the job go on, or it does not.  Whether an entry   *)
(* of validatedTargets is there to compare it with is ScanQueue's subject. *)
(***************************************************************************)
EXTENDS Integers, Sequences

CONSTANTS
    Plan,       \* the tools of the profile's and the modules' steps, in order
    Readers,    \* download requests
    TTL,        \* ARTIFACT_TTL_MINUTES
    PdfLimit,   \* the 60 s limit of the PDF rendering, in the same unit
    MaxCrashes  \* bound: how often the worker process dies

ASSUME JobConstants ==
    /\ Plan \in Seq(STRING)
    /\ TTL \in Nat
    /\ PdfLimit \in Nat
    /\ MaxCrashes \in Nat

VARIABLES
    up,          \* is the worker process running?
    crashes,     \* how often it died
    phase,       \* the await at which the job's code is suspended
    status,      \* job.status
    registered,  \* is the job in the queue's registry?
    aborted,     \* has the job's AbortController fired?
    child,       \* the subprocess the job's code waits for
    step,        \* index of the step under way
    records,     \* how many entries toolResults has
    wordpress,   \* observations.wordpressDetected
    dir,         \* does the job's directory exist?
    dirAge,      \* how long ago its mtime was
    files,       \* the artifacts in it
    strays,      \* tools nobody waits for that may still create a file there
    artifacts,   \* is job.artifacts (and job.report) set?
    doneAge,     \* how long ago job.finishedAt was
    readers,     \* the state of every download
    delivered,   \* history: artifacts that some download received whole
    cancelledIn, \* history: the await at which the running job was cancelled
    late         \* history: how many tools were spawned after that

procVars   == <<up, crashes>>
histVars   == <<cancelledIn, late>>
reportVars == <<step, records, wordpress>>
dirVars    == <<dir, dirAge, files, strays>>
readVars   == <<readers, delivered>>
vars == <<procVars, phase, status, registered, aborted, child, histVars, reportVars,
          dirVars, artifacts, doneAge, readVars>>

Formats  == {"markdown", "pdf"}
Finished == {"completed", "failed", "cancelled"}

\* Tools that run as a subprocess; the others run inside the worker.
Subprocess == {"nmap", "whatweb", "wpscan", "nuclei", "subfinder", "testssl", "retire",
               "feroxbuster", "httpx", "waybackurls"}

\* A probe asks a tool for its version.  A tool that is stopping was told to end,
\* and its end is waited for; one that is released is not waited for.
Children == {"none", "probe", "running", "stopping", "released"}

\* The awaits of processJob.
Running == {"revalidate", "versions", "validating", "download", "tool", "verify", "wpscan",
            "render"}
Phases  == {"new", "resolving", "refused", "queued", "settled", "lost"} \cup Running

\* A download is over when it was delivered, refused or cut.
Idle == <<"idle">>
Over == <<"over">>
ReaderStates == {Idle, Over} \cup ({"opening", "streaming"} \X Formats)

-----------------------------------------------------------------------------
Init ==
    /\ up = TRUE /\ crashes = 0
    /\ phase = "new" /\ status = "none" /\ registered = FALSE
    /\ aborted = FALSE /\ child = "none"
    /\ step = 0 /\ records = 0 /\ wordpress = FALSE
    /\ dir = FALSE /\ dirAge = 0 /\ files = {} /\ strays = 0
    /\ artifacts = FALSE /\ doneAge = 0
    /\ readers = [r \in Readers |-> Idle]
    /\ delivered = {} /\ cancelledIn = "never" /\ late = 0

\* rmSync with its errors ignored: the directory goes with everything in it,
\* unless a tool creates a file there meanwhile.
RemoveDir ==
    /\ files' = {}
    /\ \/ dir' = FALSE /\ UNCHANGED <<dirAge, strays>>
       \/ /\ dir /\ strays > 0
          /\ dir' = TRUE /\ dirAge' = 0 /\ strays' = strays - 1

\* processJob returns with the given status, and onFinish follows.
Settle(st) ==
    /\ phase' = "settled"
    /\ status' = st
    /\ doneAge' = IF status = "cancelled" /\ st = "cancelled" THEN doneAge ELSE 0
    /\ child' = "none"
    /\ UNCHANGED <<procVars, registered, aborted, histVars, readVars>>

\* A run that ends without a report: the fatal error, the catch block and the
\* checks for cancellation all remove the directory.  A cancelled job stays so.
GiveUp ==
    /\ Settle(IF status = "cancelled" THEN "cancelled" ELSE "failed")
    /\ RemoveDir
    /\ UNCHANGED artifacts

-----------------------------------------------------------------------------
(* Acceptance *)

\* createJob awaits the first resolution.
Create ==
    /\ up
    /\ phase = "new"
    /\ phase' = "resolving"
    /\ UNCHANGED <<procVars, status, registered, aborted, child, histVars, reportVars, dirVars,
                   artifacts, doneAge, readVars>>

\* The target is rejected, the queue is full, or the plan cannot be made: only
\* in the last case is the directory left behind.
Refuse ==
    /\ up
    /\ phase = "resolving"
    /\ phase' = "refused"
    /\ dir' \in BOOLEAN
    /\ dirAge' = 0
    /\ UNCHANGED <<procVars, status, registered, aborted, child, histVars, reportVars, files,
                   strays, artifacts, doneAge, readVars>>

\* The job's directory is made and the job queued.
Enqueue ==
    /\ up
    /\ phase = "resolving"
    /\ phase' = "queued" /\ status' = "queued" /\ registered' = TRUE
    /\ dir' = TRUE /\ dirAge' = 0
    /\ UNCHANGED <<procVars, aborted, child, histVars, reportVars, files, strays, artifacts,
                   doneAge, readVars>>

\* drain takes the job from the queue.
Start ==
    /\ up
    /\ phase = "queued"
    /\ phase' = "revalidate" /\ status' = "running"
    /\ UNCHANGED <<procVars, registered, aborted, child, histVars, reportVars, dirVars, artifacts,
                   doneAge, readVars>>

\* cancelJob of a waiting job: it leaves the queue, its directory stays.
CancelQueued ==
    /\ up
    /\ phase = "queued"
    /\ Settle("cancelled")
    /\ UNCHANGED <<dirVars, artifacts, reportVars>>

\* The abort signal ends the await of a step's tool at once; the tool's group is
\* told to stop, and killed after a grace period.  A probe takes no signal.
Abort ==
    /\ aborted' = TRUE
    /\ IF child \in {"running", "stopping"}
       THEN child' = "released" /\ strays' = strays + 1
       ELSE UNCHANGED <<child, strays>>

\* cancelJob of a running job.
CancelRunning ==
    /\ up
    /\ registered /\ status = "running"
    /\ status' = "cancelled" /\ doneAge' = 0
    /\ cancelledIn' = phase
    /\ Abort
    /\ UNCHANGED <<procVars, phase, registered, late, reportVars, dir, dirAge, files, artifacts,
                   readVars>>

\* The timer of the whole scan fires, or the worker begins to shut down.
ScanTimeout ==
    /\ up
    /\ phase \in Running /\ ~aborted
    /\ Abort
    /\ UNCHANGED <<procVars, phase, status, registered, histVars, reportVars, dir, dirAge, files,
                   artifacts, doneAge, readVars>>

-----------------------------------------------------------------------------
(* processJob up to its steps *)

\* The first resolution fails, is blocked, or names an address the acceptance did
\* not, if an entry of it is there.
RevalidationFails ==
    /\ up
    /\ phase = "revalidate"
    /\ GiveUp
    /\ UNCHANGED reportVars

\* The job was cancelled meanwhile: the only return that leaves the directory.
CancelledBeforeTools ==
    /\ up
    /\ phase = "revalidate" /\ status = "cancelled"
    /\ Settle("cancelled")
    /\ UNCHANGED <<dirVars, artifacts, reportVars>>

\* The target is let through, and the first of the version probes begins.
Revalidate ==
    /\ up
    /\ phase = "revalidate" /\ status = "running"
    /\ phase' = "versions" /\ child' = "probe"
    /\ UNCHANGED <<procVars, status, registered, aborted, histVars, reportVars, dirVars, artifacts,
                   doneAge, readVars>>

\* runTool spawns the tool of a step.  If the signal has already fired, the await
\* ends at once: the tool itself gets a SIGTERM, but no listener and no timer is
\* left to kill its group.
Spawn ==
    /\ IF aborted THEN child' = "released" /\ strays' = strays + 1
                  ELSE child' = "running" /\ UNCHANGED strays
    /\ late' = IF status = "cancelled" THEN late + 1 ELSE late

\* WordPress was detected and no step of the plan runs WPScan.
WpscanDue(detected) == detected /\ ~\E i \in DOMAIN Plan : Plan[i] = "wpscan"

\* The findings and the report are built and written in Markdown, and the PDF
\* begins to render.
BeginRender ==
    IF dir THEN /\ phase' = "render"
                /\ files' = {"markdown"} /\ dirAge' = 0
                /\ child' = "none"
                /\ UNCHANGED <<procVars, status, registered, aborted, histVars, dir, strays,
                               artifacts, doneAge, readVars>>
           ELSE GiveUp

\* The next step of the plan begins, with a resolution of the target.
BeginStep ==
    /\ step' = step + 1 /\ phase' = "validating" /\ child' = "none"
    /\ UNCHANGED <<procVars, status, registered, aborted, histVars, dirVars, artifacts, doneAge,
                   readVars>>

\* The conditional WPScan begins.
BeginWpscan ==
    /\ phase' = "wpscan" /\ Spawn
    /\ UNCHANGED <<procVars, status, registered, aborted, cancelledIn, step, dir, dirAge, files,
                   artifacts, doneAge, readVars>>

\* Mutant: a cancellation is looked for between the steps, not after the last.
NextStepOnward(detected) ==
    IF step < Len(Plan) /\ status = "cancelled" THEN GiveUp /\ UNCHANGED step
    ELSE IF step < Len(Plan) THEN BeginStep
    ELSE IF WpscanDue(detected) THEN BeginWpscan
    ELSE BeginRender /\ UNCHANGED step

\* Mutant: a cancellation is looked for after the last step only.
NextStepAtEnd(detected) ==
    IF step < Len(Plan) THEN BeginStep
    ELSE IF status = "cancelled" THEN GiveUp /\ UNCHANGED step
    ELSE IF WpscanDue(detected) THEN BeginWpscan
    ELSE BeginRender /\ UNCHANGED step

\* The top of the step loop, and what follows its end: the job is found cancelled,
\* or the next step begins, or WPScan follows a detected WordPress, or the report
\* is made.
NextStep(detected) ==
    IF status = "cancelled" THEN GiveUp /\ UNCHANGED step
    ELSE IF step < Len(Plan) THEN BeginStep
    ELSE IF WpscanDue(detected) THEN BeginWpscan
    ELSE BeginRender /\ UNCHANGED step

\* captureVersions has asked one tool after the other, up to eight of them, each
\* for as long as it took or until its own timer: never failing, and whatever
\* became of the scan meanwhile.
VersionsCaptured ==
    /\ up
    /\ phase = "versions"
    /\ NextStep(wordpress)
    /\ UNCHANGED <<records, wordpress>>

-----------------------------------------------------------------------------
(* The steps *)

\* Mutant: the loop ends, but no fatal error is noted.
StepRefusedQuietly ==
    /\ up
    /\ phase = "validating"
    /\ BeginRender
    /\ UNCHANGED reportVars

\* The answer is empty, blocked, or new: the loop ends with a fatal error.
StepRefused ==
    /\ up
    /\ phase = "validating"
    /\ GiveUp
    /\ UNCHANGED reportVars

\* The tool is let through.  A subprocess is spawned at once; retire first
\* downloads scripts into the directory, which it makes if it is gone.
StepValidated ==
    /\ up
    /\ phase = "validating"
    /\ \/ /\ Plan[step] = "retire"
          /\ phase' = "download" /\ dir' = TRUE /\ dirAge' = 0
          /\ UNCHANGED <<child, files, strays, late>>
       \/ /\ Plan[step] \in Subprocess \ {"retire"}
          /\ phase' = "tool" /\ Spawn
          /\ UNCHANGED <<dir, dirAge, files>>
       \/ /\ Plan[step] \notin Subprocess
          /\ phase' = "tool"
          /\ UNCHANGED <<child, dirVars, late>>
    /\ UNCHANGED <<procVars, status, registered, aborted, cancelledIn, reportVars, artifacts,
                   doneAge, readVars>>

\* Mutant: a failure is recorded where it occurs and again after the step.
RecordStepTwice(detected) ==
    /\ records' \in {records + 1, records + 2}
    /\ wordpress' = (wordpress \/ detected)
    /\ NextStep(wordpress')

\* The step's record, a success or a failure, goes into toolResults.
RecordStep(detected) ==
    /\ records' = records + 1
    /\ wordpress' = (wordpress \/ detected)
    /\ NextStep(wordpress')

\* A step inside the worker returns.
InProcessEnds ==
    /\ up
    /\ phase = "tool" /\ Plan[step] \notin Subprocess
    /\ RecordStep(FALSE)

\* The scripts for retire are there, or there is nothing to examine.
DownloadEnds ==
    /\ up
    /\ phase = "download"
    /\ \/ RecordStep(FALSE)
       \/ /\ phase' = "tool" /\ Spawn
          /\ UNCHANGED <<procVars, status, registered, aborted, cancelledIn, reportVars, dir,
                         dirAge, files, artifacts, doneAge, readVars>>

\* The await of a step's tool is over; WhatWeb's output may name WordPress.  URLs
\* from the archive are first probed, unless there are none or the scan is being
\* stopped.
StepOutput(tool) ==
    \/ RecordStep(FALSE)
    \/ tool = "whatweb" /\ RecordStep(TRUE)
    \/ /\ tool = "waybackurls" /\ ~aborted
       /\ phase' = "verify" /\ child' = "none"
       /\ UNCHANGED <<procVars, status, registered, aborted, histVars, reportVars, dirVars,
                      artifacts, doneAge, readVars>>

VerifyEnds ==
    /\ up
    /\ phase = "verify"
    /\ RecordStep(FALSE)

\* WPScan's record follows, unless it ended in an exception.
\* Nothing checks for cancellation between here and the report.
WpscanOutput ==
    /\ records' \in {records, records + 1}
    /\ BeginRender
    /\ UNCHANGED <<step, wordpress>>

\* The await of a tool is over: what it has written by then is parsed, whatever
\* its end was.
ToolOver ==
    \/ phase = "tool" /\ StepOutput(Plan[step])
    \/ phase = "wpscan" /\ WpscanOutput

\* The child exits by itself, with code zero or not.
ChildExits ==
    /\ up
    /\ child = "running"
    /\ ToolOver

\* The timer of the step fires: SIGTERM to the process group.
StepTimeout ==
    /\ up
    /\ child = "running"
    /\ child' = "stopping"
    /\ UNCHANGED <<procVars, phase, status, registered, aborted, histVars, reportVars, dirVars,
                   artifacts, doneAge, readVars>>

\* Mutant: no SIGKILL follows, and the tool ignores the SIGTERM.
ChildIgnores ==
    /\ up
    /\ child = "stopping"
    /\ child' = "running"
    /\ UNCHANGED <<procVars, phase, status, registered, aborted, histVars, reportVars, dirVars,
                   artifacts, doneAge, readVars>>

\* SIGTERM, or SIGKILL after the grace period, ends the group.
ChildKilled ==
    /\ up
    /\ child = "stopping"
    /\ ToolOver

\* The abort ends the await.
ChildReleased ==
    /\ up
    /\ child = "released"
    /\ ToolOver

\* The child creates a file in the directory.
ChildWrites ==
    /\ up
    /\ child \in {"running", "stopping"} /\ dir
    /\ dirAge' = 0
    /\ UNCHANGED <<procVars, phase, status, registered, aborted, child, histVars, reportVars, dir,
                   files, strays, artifacts, doneAge, readVars>>

\* A tool nobody waits for creates its file, if the directory is there, or ends.
StrayEnds ==
    /\ up
    /\ strays > 0 /\ strays' = strays - 1
    /\ dirAge' \in IF dir THEN {0, dirAge} ELSE {dirAge}
    /\ UNCHANGED <<procVars, phase, status, registered, aborted, child, histVars, reportVars, dir,
                   files, artifacts, doneAge, readVars>>

\* The PDF is complete and both files can be measured: the job is completed,
\* even if it was cancelled while the PDF rendered.
RenderDone ==
    /\ up
    /\ phase = "render" /\ "markdown" \in files
    /\ Settle("completed")
    /\ artifacts' = TRUE
    /\ files' = Formats
    /\ UNCHANGED <<dir, dirAge, strays, reportVars>>

\* Rendering fails or exceeds its limit, or the files are gone.
RenderFails ==
    /\ up
    /\ phase = "render"
    /\ GiveUp
    /\ UNCHANGED reportVars

-----------------------------------------------------------------------------
(* Downloads: GET /jobs/:id/artifacts/:format *)

jobVars == <<procVars, phase, status, registered, aborted, child, histVars, reportVars,
             artifacts, doneAge>>

\* The file is found and the head of the answer sent, or the answer is 409.
Download(r) ==
    /\ up
    /\ readers[r] = Idle
    /\ \E f \in Formats :
          readers' = [readers EXCEPT ![r] =
              IF registered /\ artifacts /\ f \in files THEN <<"opening", f>> ELSE Over]
    /\ UNCHANGED <<jobVars, dirVars, delivered>>

\* createReadStream opens the file later: it may be gone, which cuts the answer.
Open(r) ==
    /\ up
    /\ \E f \in Formats :
          /\ readers[r] = <<"opening", f>>
          /\ readers' = [readers EXCEPT ![r] = IF f \in files THEN <<"streaming", f>> ELSE Over]
    /\ UNCHANGED <<jobVars, dirVars, delivered>>

\* The answer is complete, and the artifact is deleted.
Deliver(r) ==
    /\ up
    /\ \E f \in Formats :
          /\ readers[r] = <<"streaming", f>>
          /\ delivered' = delivered \cup {f}
          /\ files' = files \ {f}
          /\ dirAge' = IF f \in files THEN 0 ELSE dirAge
    /\ readers' = [readers EXCEPT ![r] = Over]
    /\ UNCHANGED <<jobVars, dir, strays>>

\* Mutant: the artifact is deleted when the answer closes, complete or not.
CutDeletes(r) ==
    /\ \E f \in Formats :
          /\ readers[r] \in {<<"opening", f>>, <<"streaming", f>>}
          /\ files' = files \ {f}
    /\ readers' = [readers EXCEPT ![r] = Over]
    /\ UNCHANGED <<jobVars, dir, dirAge, strays, delivered>>

\* The connection breaks: the artifact stays for another try.
Cut(r) ==
    /\ readers[r] \notin {Idle, Over}
    /\ readers' = [readers EXCEPT ![r] = Over]
    /\ UNCHANGED <<jobVars, dirVars, delivered>>

-----------------------------------------------------------------------------
(* Time, the sweep, crashes *)

Older(age) == IF age > TTL THEN age ELSE age + 1

\* One unit of time.  The timer of the PDF does not let a rendering exceed it.
Tick ==
    /\ ~(phase = "render" /\ dirAge >= PdfLimit)
    /\ dirAge' = IF dir THEN Older(dirAge) ELSE dirAge
    /\ doneAge' = IF status \in Finished THEN Older(doneAge) ELSE doneAge
    /\ UNCHANGED <<procVars, phase, status, registered, aborted, child, histVars, reportVars, dir,
                   files, strays, artifacts, readVars>>

\* Mutant: the sweep looks for the directories of the jobs it knows.
SweepKnown ==
    /\ up
    /\ registered' = (registered /\ ~(status \in Finished /\ doneAge > TTL))
    /\ IF dirAge > TTL /\ registered THEN RemoveDir ELSE UNCHANGED dirVars
    /\ UNCHANGED <<procVars, phase, status, aborted, child, histVars, reportVars, artifacts,
                   doneAge, readVars>>

\* sweepArtifacts: forget a job that finished long ago, and remove a directory
\* that has not changed for as long, whosever it is.
Sweep ==
    /\ up
    /\ registered' = (registered /\ ~(status \in Finished /\ doneAge > TTL))
    /\ IF dirAge > TTL THEN RemoveDir ELSE UNCHANGED dirVars
    /\ UNCHANGED <<procVars, phase, status, aborted, child, histVars, reportVars, artifacts,
                   doneAge, readVars>>

\* The worker's container dies: everything but the directory was in its memory.
Crash ==
    /\ up /\ crashes < MaxCrashes
    /\ up' = FALSE /\ crashes' = crashes + 1
    /\ phase' = IF phase = "new" THEN "new" ELSE "lost"
    /\ registered' = FALSE /\ artifacts' = FALSE /\ child' = "none"
    /\ readers' = [r \in Readers |-> IF readers[r] = Idle THEN Idle ELSE Over]
    /\ strays' = 0
    /\ UNCHANGED <<status, aborted, histVars, reportVars, dir, dirAge, files, doneAge, delivered>>

Restart ==
    /\ ~up
    /\ up' = TRUE
    /\ UNCHANGED <<crashes, phase, status, registered, aborted, child, histVars, reportVars,
                   dirVars, artifacts, doneAge, readVars>>

-----------------------------------------------------------------------------
\* What the worker's own timers bring to an end, whatever the tools do.
Bounded ==
    \/ RevalidationFails \/ CancelledBeforeTools \/ Revalidate \/ VersionsCaptured
    \/ StepRefused \/ StepValidated \/ InProcessEnds \/ DownloadEnds \/ VerifyEnds
    \/ StepTimeout \/ ChildKilled \/ ChildReleased
    \/ RenderDone \/ RenderFails

Next ==
    \/ Create \/ Refuse \/ Enqueue \/ Start
    \/ CancelQueued \/ CancelRunning \/ ScanTimeout
    \/ Bounded \/ ChildExits \/ ChildWrites \/ StrayEnds
    \/ \E r \in Readers : Download(r) \/ Open(r) \/ Deliver(r) \/ Cut(r)
    \/ Tick \/ Sweep \/ Crash \/ Restart

Spec == Init /\ [][Next]_vars

\* Every await of the worker has a limit of its own; a tool need not end, and a
\* queued job need not start.  The sweep and the container's restart recur.
FairSpec ==
    /\ Spec
    /\ WF_vars(Bounded) /\ WF_vars(Tick) /\ WF_vars(Sweep) /\ WF_vars(Restart)

-----------------------------------------------------------------------------
TypeOK ==
    /\ up \in BOOLEAN /\ crashes \in 0..MaxCrashes
    /\ phase \in Phases
    /\ status \in {"none", "queued", "running"} \cup Finished
    /\ registered \in BOOLEAN /\ aborted \in BOOLEAN
    /\ child \in Children
    /\ step \in 0..Len(Plan)
    /\ records \in 0..(Len(Plan) + 1) /\ wordpress \in BOOLEAN
    /\ dir \in BOOLEAN /\ dirAge \in 0..(TTL + 1) /\ files \subseteq Formats
    /\ strays \in Nat
    /\ artifacts \in BOOLEAN /\ doneAge \in 0..(TTL + 1)
    /\ readers \in [Readers -> ReaderStates]
    /\ delivered \subseteq Formats
    /\ cancelledIn \in {"never"} \cup Running /\ late \in Nat

\* Once the scan is stopped, by its user, its time limit or a shutdown, the worker
\* waits for no step's tool any more, not even for one that starts afterwards; and
\* after its user's cancellation at most one more is begun, at whichever of its
\* awaits the job was cancelled.  (A version probe takes no signal and is waited
\* for, and the time limit does not end the loop: the tools of all the steps left
\* are begun and released.)
StopReachesChild ==
    /\ aborted => child \notin {"running", "stopping"}
    /\ late <= 1

\* A cancellation is overruled only by a report under way: a job that ends as
\* completed though it was cancelled had all its steps done by then.
CancelHeeded == status = "completed" => cancelledIn \in {"never", "wpscan", "render"}

\* A report that can be fetched accounts for every step of the plan, and for
\* WPScan if it ran to an end: no cancellation, stop or vanished file made it
\* skip one.
ReportIsComplete ==
    artifacts =>
        /\ step = Len(Plan)
        /\ records \in IF WpscanDue(wordpress) THEN {Len(Plan), Len(Plan) + 1} ELSE {Len(Plan)}

\* While the registry knows a completed job and its retention is not over
\* (less the time a PDF may take), an artifact is missing only because somebody
\* received it: broken downloads, two downloads at once and sweeps included.
RetainedUntilDelivered ==
    registered /\ artifacts /\ doneAge + PdfLimit <= TTL => Formats \subseteq files \cup delivered

\* A running job settles even if no tool ever ends by itself.
JobSettles == (phase \in Running) ~> (phase \notin Running)

\* No directory stays for ever: whatever became of its job, its downloads and
\* the process that made it.
DirectoryGoes == dir ~> ~dir

=============================================================================
