------------------------------ MODULE ScanQueue ------------------------------
(***************************************************************************)
(* The worker's in-memory scan queue (worker/queue.ts) together with the   *)
(* part of ScannerService (worker/scanner.ts) that creates, runs, cancels, *)
(* sweeps and shuts down its jobs.                                         *)
(*                                                                         *)
(* The worker is one Node process: code between two awaits is atomic, and  *)
(* so is a promise chain that only runs microtasks.  Each action below is  *)
(* one such stretch, from the event that wakes it to the next await.       *)
(* `phase' names the await at which a job is suspended; the other          *)
(* variables carry the names of the fields they stand for.                 *)
(*                                                                         *)
(* ALLOW_INTERNAL_TARGETS is false, as production requires, so every job   *)
(* is resolved and validated before it is enqueued.                        *)
(***************************************************************************)
EXTENDS Integers, FiniteSets, SequencesExt, Filter

CONSTANTS
    Jobs,           \* the job ids crypto.randomUUID() hands out
    MaxConcurrent,  \* MAX_CONCURRENT_SCANS
    MaxQueue        \* MAX_QUEUE

\* intEnv accepts any non-negative integer, zero included.
ASSUME ConstantsAssumption ==
    /\ IsFiniteSet(Jobs)
    /\ MaxConcurrent \in Nat
    /\ MaxQueue \in Nat

VARIABLES
    registry,          \* ScanQueue.registry: the ids the API can look up
    pending,           \* ScanQueue.pending
    active,            \* ScanQueue.active
    cancelled,         \* ScanQueue.cancelled
    status,            \* job.status
    phase,             \* the await at which the job's code is suspended
    validatedTargets,  \* ids with an entry in ScannerService.validatedTargets
    aborts,            \* ids with an entry in ScannerService.aborts
    aborted,           \* those of them whose abort signal has fired
    notifications,     \* ScannerService.notifications: events being posted
    mode,              \* how far the process is in its shutdown
    accepted,          \* history: the accepted ids, in order of acceptance
    finishes           \* history: how often onFinish ran for each job

queueVars   == <<registry, pending, active, cancelled>>
serviceVars == <<validatedTargets, aborts, aborted, notifications>>
vars == <<queueVars, serviceVars, status, phase, mode, accepted, finishes>>

Status == {"none", "queued", "running", "completed", "failed", "cancelled"}

\* The awaits of processJob: 602, 610, 663 and the tool calls, 996, 1100.
ProcessPhases == {"revalidate", "versions", "steps", "wpscan", "render"}

Phase == {"new", "resolving", "refused", "queued", "settled"} \cup ProcessPhases

Finished == {"completed", "failed", "cancelled"}

\* Jobs whose processJob promise is still open.
InFlight == {j \in Jobs : phase[j] \in ProcessPhases}

\* Jobs that queue.add accepted and that have not yet gone through onFinish.
Unfinished == {j \in Jobs : phase[j] = "queued"} \cup InFlight

\* The HTTP server answers until server.close, which comes after stop().
Serving == mode \in {"up", "stopping"}
Alive   == mode # "exited"

-----------------------------------------------------------------------------
Init ==
    /\ registry = {}
    /\ pending = <<>>
    /\ active = 0
    /\ cancelled = {}
    /\ status = [j \in Jobs |-> "none"]
    /\ phase = [j \in Jobs |-> "new"]
    /\ validatedTargets = {}
    /\ aborts = {}
    /\ aborted = {}
    /\ notifications = {}
    /\ mode = "up"
    /\ accepted = <<>>
    /\ finishes = [j \in Jobs |-> 0]

\* Mutant: a full queue takes one more.
HasRoomForOneMore == active + Len(pending) <= MaxConcurrent + MaxQueue

\* queue.add accepts while running and waiting jobs leave room.
HasRoom == active + Len(pending) < MaxConcurrent + MaxQueue

\* How many jobs the loop of drain starts, given pending = p and active = a.
StartCount(p, a) ==
    IF a >= MaxConcurrent THEN 0
    ELSE IF MaxConcurrent - a <= Len(p) THEN MaxConcurrent - a ELSE Len(p)

\* Mutant: drain pops the newest job instead of shifting the oldest.
DrainNewestFirst(p, a, st, ph, ab) ==
    LET k == StartCount(p, a)
        started == {p[i] : i \in (Len(p) - k + 1)..Len(p)}
    IN  /\ pending' = SubSeq(p, 1, Len(p) - k)
        /\ active' = a + k
        /\ status' = [x \in Jobs |-> IF x \in started THEN "running" ELSE st[x]]
        /\ phase' = [x \in Jobs |-> IF x \in started THEN "revalidate" ELSE ph[x]]
        /\ aborts' = ab \cup started

\* drain(), run on pending = p, active = a, statuses st, phases ph and abort
\* controllers ab: shift jobs off the front while a slot is free; each runs
\* processJob up to its first await, which registers its controller.  The two
\* `continue' branches of the loop (a cancelled or unregistered id in pending)
\* are unreachable: see the invariant PendingIsLive.
Drain(p, a, st, ph, ab) ==
    LET k == StartCount(p, a)
        started == {p[i] : i \in 1..k}
    IN  /\ pending' = SubSeq(p, k + 1, Len(p))
        /\ active' = a + k
        /\ status' = [x \in Jobs |-> IF x \in started THEN "running" ELSE st[x]]
        /\ phase' = [x \in Jobs |-> IF x \in started THEN "revalidate" ELSE ph[x]]
        /\ aborts' = ab \cup started

\* The onFinish callback for the jobs in S: build and post the scan event,
\* then forget the resolution made at acceptance.
OnFinish(S) ==
    /\ notifications' = notifications \cup S
    /\ validatedTargets' = validatedTargets \ S
    /\ finishes' = [j \in Jobs |-> IF j \in S THEN finishes[j] + 1 ELSE finishes[j]]

-----------------------------------------------------------------------------
(* POST /jobs *)

\* createJob suspends on resolveAndValidate.
CreateJob(j) ==
    /\ Serving
    /\ phase[j] = "new"
    /\ phase' = [phase EXCEPT ![j] = "resolving"]
    /\ UNCHANGED <<queueVars, serviceVars, status, mode, accepted, finishes>>

\* The target does not resolve or resolves to a blocked address.
RejectTarget(j) ==
    /\ Alive
    /\ phase[j] = "resolving"
    /\ phase' = [phase EXCEPT ![j] = "refused"]
    /\ UNCHANGED <<queueVars, serviceVars, status, mode, accepted, finishes>>

\* The target is valid but enqueue throws: queue.add returns false because the
\* queue is full, or the job's directory or plan cannot be made.  The entry put
\* in validatedTargets just before is not taken back.
EnqueueFails(j) ==
    /\ Alive
    /\ phase[j] = "resolving"
    /\ phase' = [phase EXCEPT ![j] = "refused"]
    /\ validatedTargets' = validatedTargets \cup {j}
    /\ UNCHANGED <<queueVars, aborts, aborted, notifications, status, mode, accepted, finishes>>

\* The target is valid and queue.add registers, pushes and drains.
AcceptJob(j) ==
    /\ Alive
    /\ phase[j] = "resolving"
    /\ HasRoom
    /\ registry' = registry \cup {j}
    /\ validatedTargets' = validatedTargets \cup {j}
    /\ accepted' = Append(accepted, j)
    /\ Drain(Append(pending, j), active,
             [status EXCEPT ![j] = "queued"], [phase EXCEPT ![j] = "queued"], aborts)
    /\ UNCHANGED <<cancelled, aborted, notifications, mode, finishes>>

-----------------------------------------------------------------------------
(* POST /jobs/:id/cancel *)

\* Mutant: the id is only marked, and stays in pending for drain to skip.
CancelQueuedLazily(j) ==
    /\ Serving
    /\ j \in registry
    /\ status[j] = "queued"
    /\ j \notin cancelled
    /\ cancelled' = cancelled \cup {j}
    /\ status' = [status EXCEPT ![j] = "cancelled"]
    /\ phase' = [phase EXCEPT ![j] = "settled"]
    /\ OnFinish({j})
    /\ UNCHANGED <<registry, pending, active, aborts, aborted, mode, accepted>>

\* cancelJob of a job that is still queued: ScanQueue.cancelQueued.
CancelQueued(j) ==
    /\ Serving
    /\ j \in registry
    /\ status[j] = "queued"
    /\ j \notin cancelled
    /\ cancelled' = cancelled \cup {j}
    /\ \E i \in 1..Len(pending) :
          /\ pending[i] = j
          /\ Drain(RemoveAt(pending, i), active,
                   [status EXCEPT ![j] = "cancelled"], [phase EXCEPT ![j] = "settled"], aborts)
    /\ OnFinish({j})
    /\ UNCHANGED <<registry, aborted, mode, accepted>>

\* Mutant: cancelling reports the job at once, and the end of the job again.
CancelRunningReports(j) ==
    /\ Serving
    /\ j \in registry
    /\ status[j] = "running"
    /\ status' = [status EXCEPT ![j] = "cancelled"]
    /\ aborted' = IF j \in aborts THEN aborted \cup {j} ELSE aborted
    /\ OnFinish({j})
    /\ UNCHANGED <<queueVars, phase, aborts, mode, accepted>>

\* Mutant: the status changes but the tools run on.
CancelRunningNoAbort(j) ==
    /\ Serving
    /\ j \in registry
    /\ status[j] = "running"
    /\ status' = [status EXCEPT ![j] = "cancelled"]
    /\ UNCHANGED <<queueVars, serviceVars, phase, mode, accepted, finishes>>

\* Mutant: a finished job can be cancelled.
CancelRunningUnguarded(j) ==
    /\ Serving
    /\ j \in registry
    /\ status[j] \in {"running", "completed", "failed"}
    /\ status' = [status EXCEPT ![j] = "cancelled"]
    /\ aborted' = IF j \in aborts THEN aborted \cup {j} ELSE aborted
    /\ UNCHANGED <<queueVars, phase, validatedTargets, aborts, notifications, mode, accepted, finishes>>

\* cancelJob of a running job: the status changes at once, the processing
\* only notices at its next check.
CancelRunning(j) ==
    /\ Serving
    /\ j \in registry
    /\ status[j] = "running"
    /\ status' = [status EXCEPT ![j] = "cancelled"]
    /\ aborted' = IF j \in aborts THEN aborted \cup {j} ELSE aborted
    /\ UNCHANGED <<queueVars, phase, validatedTargets, aborts, notifications, mode, accepted, finishes>>

-----------------------------------------------------------------------------
(* processJob *)

\* Mutant: the slot of a cancelled job is not given back.
SettleLeaksSlot(j, st) ==
    /\ Drain(pending, IF st = "cancelled" THEN active ELSE active - 1,
             [status EXCEPT ![j] = IF st = "running" THEN "completed" ELSE st],
             [phase EXCEPT ![j] = "settled"], aborts \ {j})
    /\ cancelled' = cancelled \ {j}
    /\ aborted' = aborted \ {j}
    /\ OnFinish({j})
    /\ UNCHANGED <<registry, mode, accepted>>

\* Mutant: the slot is given back but nobody is started on it.
SettleWithoutDrain(j, st) ==
    /\ active' = active - 1
    /\ status' = [status EXCEPT ![j] = IF st = "running" THEN "completed" ELSE st]
    /\ phase' = [phase EXCEPT ![j] = "settled"]
    /\ aborts' = aborts \ {j}
    /\ cancelled' = cancelled \ {j}
    /\ aborted' = aborted \ {j}
    /\ OnFinish({j})
    /\ UNCHANGED <<registry, pending, mode, accepted>>

\* processJob returns or throws with job.status = st, and the then, catch and
\* finally handlers of drain follow without another await.
Settle(j, st) ==
    /\ Drain(pending, active - 1,
             [status EXCEPT ![j] = IF st = "running" THEN "completed" ELSE st],
             [phase EXCEPT ![j] = "settled"], aborts \ {j})
    /\ cancelled' = cancelled \ {j}
    /\ aborted' = aborted \ {j}
    /\ OnFinish({j})
    /\ UNCHANGED <<registry, mode, accepted>>

\* The catch block of processJob: a cancelled job stays cancelled.
FailedUnlessCancelled(j) == IF status[j] = "cancelled" THEN "cancelled" ELSE "failed"

Advance(j, to) ==
    /\ phase' = [phase EXCEPT ![j] = to]
    /\ UNCHANGED <<queueVars, serviceVars, status, mode, accepted, finishes>>

\* An await rejects, or a synchronous call throws, anywhere in the try block;
\* a target that fails its revalidation before a step ends the same way.
ProcessThrows(j) ==
    /\ Alive
    /\ phase[j] \in ProcessPhases
    /\ Settle(j, FailedUnlessCancelled(j))

\* The checks of isJobCancelled: after the first revalidation, at the top of
\* every step and after the last one.  There is none after that.
StopAtCheck(j) ==
    /\ Alive
    /\ phase[j] \in {"revalidate", "versions", "steps"}
    /\ status[j] = "cancelled"
    /\ Settle(j, "cancelled")

Revalidated(j) ==
    /\ Alive
    /\ phase[j] = "revalidate"
    /\ status[j] # "cancelled"
    /\ Advance(j, "versions")

VersionsCaptured(j) ==
    /\ Alive
    /\ phase[j] = "versions"
    /\ status[j] # "cancelled"
    /\ Advance(j, "steps")

\* All steps ran.  WPScan follows when the steps detected WordPress.
StepsDone(j) ==
    /\ Alive
    /\ phase[j] = "steps"
    /\ status[j] # "cancelled"
    /\ \E next \in {"wpscan", "render"} : Advance(j, next)

WpscanDone(j) ==
    /\ Alive
    /\ phase[j] = "wpscan"
    /\ Advance(j, "render")

\* The report is stored and the status assigned, whatever it was.
RenderDone(j) ==
    /\ Alive
    /\ phase[j] = "render"
    /\ Settle(j, "completed")

\* The timer armed at the start of processJob aborts the controller; the loop
\* over the steps goes on with an aborted signal.
ScanTimeout(j) ==
    /\ Alive
    /\ j \in aborts \ aborted
    /\ aborted' = aborted \cup {j}
    /\ UNCHANGED <<queueVars, validatedTargets, aborts, notifications, status, phase, mode, accepted, finishes>>

-----------------------------------------------------------------------------
(* Notifications, the TTL sweep and shutdown *)

\* notifyScanEvent gives up or is answered.
NotificationDone(j) ==
    /\ Alive
    /\ j \in notifications
    /\ notifications' = notifications \ {j}
    /\ UNCHANGED <<queueVars, validatedTargets, aborts, aborted, status, phase, mode, accepted, finishes>>

\* One tick of the TTL timer evicts the jobs in S, those whose finishedAt has
\* passed the cutoff.  finishedAt is set with the status, so a job cancelled
\* while it runs can be evicted before its processing ends.
SweepArtifacts(S) ==
    /\ mode = "up"
    /\ S # {}
    /\ registry' = registry \ S
    /\ UNCHANGED <<pending, active, cancelled, serviceVars, status, phase, mode, accepted, finishes>>

Evictable == {j \in registry : status[j] \notin {"running", "queued"}}

\* stop(): clear the sweep timer, cancel all that is queued, abort all that is
\* running.  pending empties before drain could start one of its jobs, since
\* every slot is taken while it is not empty (WorkConserving).
Stop ==
    /\ mode = "up"
    /\ mode' = "stopping"
    /\ LET queued == ToSet(pending)
       IN  /\ pending' = <<>>
           /\ cancelled' = cancelled \cup queued
           /\ status' = [j \in Jobs |-> IF j \in queued THEN "cancelled" ELSE status[j]]
           /\ phase' = [j \in Jobs |-> IF j \in queued THEN "settled" ELSE phase[j]]
           /\ OnFinish(queued)
    /\ aborted' = aborted \cup aborts
    /\ UNCHANGED <<registry, active, aborts, accepted>>

\* Mutant: stop() only waits for the line and the posted events.
StopDrainedEarly ==
    /\ mode = "stopping"
    /\ pending = <<>>
    /\ notifications = {}
    /\ mode' = "drained"
    /\ UNCHANGED <<queueVars, serviceVars, status, phase, accepted, finishes>>

\* The polling loop of stop() finds nothing active and nothing being posted.
StopDrained ==
    /\ mode = "stopping"
    /\ active = 0
    /\ notifications = {}
    /\ mode' = "drained"
    /\ UNCHANGED <<queueVars, serviceVars, status, phase, accepted, finishes>>

\* The polling loop of stop() reaches its deadline.
StopDeadline ==
    /\ mode = "stopping"
    /\ active # 0 \/ notifications # {}
    /\ mode' = "abandoned"
    /\ UNCHANGED <<queueVars, serviceVars, status, phase, accepted, finishes>>

\* server.close called back, or the five seconds after it are over.
Exit ==
    /\ mode \in {"drained", "abandoned"}
    /\ mode' = "exited"
    /\ UNCHANGED <<queueVars, serviceVars, status, phase, accepted, finishes>>

-----------------------------------------------------------------------------
\* One step of the worker's own code for job j.
Process(j) ==
    \/ ProcessThrows(j)
    \/ StopAtCheck(j)
    \/ Revalidated(j)
    \/ VersionsCaptured(j)
    \/ StepsDone(j)
    \/ WpscanDone(j)
    \/ RenderDone(j)

Next ==
    \/ \E j \in Jobs :
          \/ CreateJob(j)
          \/ RejectTarget(j)
          \/ EnqueueFails(j)
          \/ AcceptJob(j)
          \/ CancelQueued(j)
          \/ CancelRunning(j)
          \/ Process(j)
          \/ ScanTimeout(j)
          \/ NotificationDone(j)
    \/ \E S \in SUBSET Evictable : SweepArtifacts(S)
    \/ Stop
    \/ StopDrained
    \/ StopDeadline
    \/ Exit

Spec == Init /\ [][Next]_vars

\* Every await of processJob is bounded (DNS and tool timeouts, the kill of the
\* tool's process group, the race against the PDF timer), and so is the posting
\* of an event: three attempts of five seconds.  Nothing is assumed of the
\* users, of the sweep or of the signal that stops the worker.
Fairness == \A j \in Jobs : WF_vars(Process(j)) /\ WF_vars(NotificationDone(j))

FairSpec == Spec /\ Fairness

-----------------------------------------------------------------------------
TypeOK ==
    /\ registry \in SUBSET Jobs
    /\ pending \in Seq(Jobs)
    /\ active \in Nat
    /\ cancelled \in SUBSET Jobs
    /\ status \in [Jobs -> Status]
    /\ phase \in [Jobs -> Phase]
    /\ validatedTargets \in SUBSET Jobs
    /\ aborts \in SUBSET Jobs
    /\ aborted \in SUBSET Jobs
    /\ notifications \in SUBSET Jobs
    /\ mode \in {"up", "stopping", "drained", "abandoned", "exited"}
    /\ accepted \in Seq(Jobs)
    /\ finishes \in [Jobs -> Nat]

\* The counter that guards the concurrency limit is exactly the number of
\* processJob promises still open (queue.ts:95, 114), so no path that settles
\* a job leaks or double-frees a slot.
ActiveIsInFlight == active = Cardinality(InFlight)

\* At most MAX_CONCURRENT_SCANS run and at most MAX_QUEUE more wait, whatever
\* the order of arrivals, cancellations and completions (queue.ts:39, 87).
WithinLimits ==
    /\ active <= MaxConcurrent
    /\ active + Len(pending) <= MaxConcurrent + MaxQueue

\* No job waits while a slot is free: every path that frees a slot or queues a
\* job drains (queue.ts:44, 82, 117).
WorkConserving == pending # <<>> => active = MaxConcurrent

\* pending lists each queued job once, and only registered jobs that nobody
\* has cancelled: the `continue' branches of drain are never taken.
PendingIsLive ==
    /\ IsInjective(pending)
    /\ ToSet(pending) = {j \in Jobs : phase[j] = "queued"}
    /\ \A j \in ToSet(pending) : j \in registry \ cancelled /\ status[j] = "queued"

\* onFinish runs for an accepted job exactly when it leaves the queue's hands,
\* and never twice: the web service gets one scan event per job even when a
\* cancellation races the end of the scan.
ReportedOnce ==
    \A j \in Jobs : finishes[j] = IF phase[j] = "settled" THEN 1 ELSE 0

\* A running job can always be aborted, and the abort signal of a cancelled job
\* that is still being processed has fired: cancelJob finds the controller
\* (scanner.ts:548) at any point of the processing.
CancelReachesTools ==
    /\ aborts = InFlight
    /\ \A j \in InFlight : status[j] = "cancelled" => j \in aborted

\* The rebinding check of processJob (scanner.ts:603) finds the resolution made
\* at acceptance: nothing drops it while the job waits.
PriorResolutionKept == Unfinished \subseteq validatedTargets

\* The status the API shows agrees with how far the job's code has come, and
\* the set of cancelled ids only ever holds jobs the queue is done with.
StatusFitsPhase ==
    \A j \in Jobs :
        /\ phase[j] \in {"new", "resolving", "refused"} => status[j] = "none"
        /\ phase[j] = "queued" => status[j] = "queued"
        /\ phase[j] \in ProcessPhases => status[j] \in {"running", "cancelled"}
        /\ phase[j] = "settled" => status[j] \in Finished
        /\ j \in cancelled => phase[j] = "settled"

\* The inductive invariant behind the theorems of ScanQueueProofs.
QueueInvariant ==
    /\ TypeOK
    /\ StatusFitsPhase
    /\ ActiveIsInFlight
    /\ WithinLimits
    /\ WorkConserving
    /\ PendingIsLive
    /\ ReportedOnce
    /\ CancelReachesTools
    /\ PriorResolutionKept

\* A completed or failed job keeps its status, and a job never returns to an
\* earlier stage of its life.
NoResurrection ==
    [][\A j \in Jobs :
        /\ status[j] \in {"completed", "failed"} => status'[j] = status[j]
        /\ status[j] = "cancelled" => status'[j] \in Finished
        /\ status[j] = "running" => status'[j] # "queued"]_status

\* When stop() returns before its deadline no accepted job is waiting or being
\* processed, even those accepted after the signal: the server still answers
\* while stop() polls (scanner.ts:337).
DrainedMeansDone ==
    [][mode' = "drained" /\ mode # "drained" => Unfinished = {}]_mode

\* Every accepted job is eventually reported, unless the process exits.
EveryJobReported ==
    \A j \in Jobs : (j \in Unfinished) ~> (phase[j] = "settled" \/ mode = "exited")

\* The unfinished jobs in the order in which they were accepted.
Line == Keep(accepted, Unfinished)

\* Nobody overtakes: those in progress were accepted before those who wait, and
\* these wait in the order of their acceptance, whatever was cancelled in
\* between (queue.ts:43, 88).
LineInvariant ==
    /\ IsInjective(accepted)
    /\ ToSet(accepted) = Unfinished \cup {j \in Jobs : phase[j] = "settled"}
    /\ Line = Keep(accepted, InFlight) \o pending

\* The worker viewed as a first-in first-out pool with MaxConcurrent servers.
Pool == INSTANCE FifoPool WITH
            Capacity <- MaxConcurrent + MaxQueue,
            Servers  <- MaxConcurrent,
            line     <- Line,
            running  <- InFlight,
            reports  <- finishes

\* The queue implements the pool.
ImplementsPool == Pool!Spec
=============================================================================
