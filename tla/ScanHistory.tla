----------------------------- MODULE ScanHistory -----------------------------
(***************************************************************************)
(* One user's scan history: the rows of the web service's scans table      *)
(* (server/scans.ts) as the POST and GET handlers, the cancel handler, the *)
(* hourly maintenance, account deletion and the worker's scan events       *)
(* change them, while requests, replies and events are delayed, lost or    *)
(* repeated and either process restarts.                                   *)
(*                                                                         *)
(* A handler is atomic between two awaits.  The worker is seen from the    *)
(* outside: ScanQueue models what it does with a job.  A scan stands for   *)
(* the request that asks for it, the job and the row.                      *)
(***************************************************************************)
EXTENDS Integers, FiniteSets

CONSTANTS
    Scans,        \* the scans the user asks for
    MaxActive,    \* MAX_ACTIVE_SCANS_PER_USER
    MaxAttempts   \* the attempts of notifyScanEvent

ASSUME HistoryAssumption ==
    /\ IsFiniteSet(Scans)
    /\ MaxActive \in Nat
    /\ MaxAttempts \in Nat

VARIABLES
    request,    \* where the POST handler of a scan is
    todo,       \* active scans the handler has yet to look up in the worker
    carried,    \* requests to create a job, on their way to the worker
    replied,    \* replies with a job id, on their way back
    job,        \* the job in the worker's registry
    outcome,    \* the status its scan event carries
    notifying,  \* jobs whose notifyScanEvent is in its loop
    attempts,   \* attempts that loop has made
    copies,     \* copies of the event that may still arrive
    row,        \* the status of the row in the scans table
    stale,      \* rows older than STALE_SCAN_AFTER_MS
    user,       \* the row in the users table
    applied     \* history: scans whose event has been applied

webVars    == <<request, todo, row, stale, user>>
netVars    == <<carried, replied, copies>>
workerVars == <<job, outcome, notifying, attempts>>
vars == <<webVars, netVars, workerVars, applied>>

Outcomes == {"completed", "failed", "cancelled"}

Init ==
    /\ request = [s \in Scans |-> "idle"]
    /\ todo = [s \in Scans |-> {}]
    /\ carried = {}
    /\ replied = {}
    /\ job = [s \in Scans |-> "absent"]
    /\ outcome = [s \in Scans |-> "none"]
    /\ notifying = {}
    /\ attempts = [s \in Scans |-> 0]
    /\ copies = [s \in Scans |-> 0]
    /\ row = [s \in Scans |-> "none"]
    /\ stale = {}
    /\ user = "active"
    /\ applied = {}

\* Rows in status queued.  No event carries the status running, so the web
\* service never stores it.
Open(r) == {s \in Scans : r[s] = "queued"}

\* What countActiveScans counts and listActiveScans lists.
Active(r) == Open(r) \ stale

\* Mutant: the row fails whatever its status.
FailAlways(S) == [s \in Scans |-> IF s \in S /\ row[s] # "none" THEN "failed" ELSE row[s]]

\* The guarded update of markScanFailed and failStaleScans.
Fail(S) == [s \in Scans |-> IF s \in S \cap Open(row) THEN "failed" ELSE row[s]]

-----------------------------------------------------------------------------
(* POST /api/scan *)

\* failStaleScans, countActiveScans and, at the limit, listActiveScans.
CheckLimit(s) ==
    /\ request[s] = "idle"
    /\ user = "active"
    /\ row' = Fail(stale)
    /\ LET open == Active(row')
       IN  IF Cardinality(open) < MaxActive
           THEN /\ request' = [request EXCEPT ![s] = "admitted"]
                /\ UNCHANGED todo
           ELSE /\ request' = [request EXCEPT ![s] = "reconciling"]
                /\ todo' = [todo EXCEPT ![s] = open]
    /\ UNCHANGED <<stale, user, netVars, workerVars, applied>>

\* One turn of the loop over the active scans: t is looked up in the worker and
\* failed if the worker does not know it.  The worker may not answer, too.
Reconcile(s, t) ==
    /\ request[s] = "reconciling"
    /\ t \in todo[s]
    /\ todo' = [todo EXCEPT ![s] = @ \ {t}]
    /\ \/ row' = row
       \/ job[t] = "gone" /\ row' = Fail({t})
    /\ UNCHANGED <<request, stale, user, netVars, workerVars, applied>>

\* The second count.
Recount(s) ==
    /\ request[s] = "reconciling"
    /\ todo[s] = {}
    /\ request' = [request EXCEPT ![s] =
                     IF Cardinality(Active(row)) < MaxActive THEN "admitted" ELSE "ended"]
    /\ UNCHANGED <<todo, row, stale, user, netVars, workerVars, applied>>

\* The body is read, and createScan sends the request.
SendCreate(s) ==
    /\ request[s] = "admitted"
    /\ request' = [request EXCEPT ![s] = "posted"]
    /\ carried' = carried \cup {s}
    /\ UNCHANGED <<todo, row, stale, user, replied, copies, workerVars, applied>>

\* The body is refused, or the worker refuses the job, or the fifteen seconds
\* of the request are over: nothing is recorded.
RequestFails(s) ==
    /\ request[s] \in {"admitted", "posted"}
    /\ request' = [request EXCEPT ![s] = "ended"]
    /\ UNCHANGED <<todo, row, stale, user, netVars, workerVars, applied>>

\* Mutant: a conflicting row goes back to queued.
RecordQueuedAnyway(s) ==
    row' = IF user = "active" THEN [row EXCEPT ![s] = "queued"] ELSE row

\* recordScanQueued.  A row that the event has put there keeps its status; a
\* failed write (the user no longer exists) is ignored.
RecordQueued(s) ==
    row' = IF user = "active" /\ row[s] = "none"
           THEN [row EXCEPT ![s] = "queued"] ELSE row

\* The reply arrives in time.
GetReply(s) ==
    /\ request[s] = "posted"
    /\ s \in replied
    /\ replied' = replied \ {s}
    /\ request' = [request EXCEPT ![s] = "ended"]
    /\ RecordQueued(s)
    /\ UNCHANGED <<todo, stale, user, carried, copies, workerVars, applied>>

-----------------------------------------------------------------------------
(* The other handlers of the web service *)

\* GET /api/scan/:id and POST /api/scan/:id/cancel find the row and get a 404
\* from the worker.
WorkerLostIt(s) ==
    /\ user = "active"
    /\ row[s] # "none"
    /\ job[s] = "gone"
    /\ row' = Fail({s})
    /\ UNCHANGED <<request, todo, stale, user, netVars, workerVars, applied>>

\* STALE_SCAN_AFTER_MS pass.  A job may be queued longer than that: with one
\* slot and three places in the queue, three scans of ten minutes run first.
Age(s) ==
    /\ row[s] # "none"
    /\ s \notin stale
    /\ stale' = stale \cup {s}
    /\ UNCHANGED <<request, todo, row, user, netVars, workerVars, applied>>

\* Mutant: only rows in status running are taken for abandoned.
FailStaleRunning ==
    /\ row' = [s \in Scans |-> IF s \in stale /\ row[s] = "running" THEN "failed" ELSE row[s]]
    /\ UNCHANGED <<request, todo, stale, user, netVars, workerVars, applied>>

\* The hourly tick of runScheduledMaintenance.
FailStaleScans ==
    /\ row' = Fail(stale)
    /\ UNCHANGED <<request, todo, stale, user, netVars, workerVars, applied>>

\* purgeUser: history and account go in one transaction.  Handlers that passed
\* the session check before go on.
DeleteUser ==
    /\ user = "active"
    /\ user' = "deleted"
    /\ row' = [s \in Scans |-> "none"]
    /\ stale' = {}
    /\ UNCHANGED <<request, todo, netVars, workerVars, applied>>

\* The handlers die with the process.
WebRestart ==
    /\ request' = [s \in Scans |-> IF request[s] = "idle" THEN "idle" ELSE "ended"]
    /\ todo' = [s \in Scans |-> {}]
    /\ UNCHANGED <<row, stale, user, netVars, workerVars, applied>>

-----------------------------------------------------------------------------
(* The worker *)

\* createJob accepts, though the web service may have stopped waiting.
Accept(s) ==
    /\ s \in carried
    /\ carried' = carried \ {s}
    /\ replied' = replied \cup {s}
    /\ job' = [job EXCEPT ![s] = "live"]
    /\ UNCHANGED <<copies, webVars, outcome, notifying, attempts, applied>>

\* createJob refuses, or the request never arrives.
Drop(s) ==
    /\ s \in carried
    /\ carried' = carried \ {s}
    /\ UNCHANGED <<replied, copies, webVars, workerVars, applied>>

\* onFinish: the event is built and notifyScanEvent enters its loop.
Finish(s, o) ==
    /\ job[s] = "live"
    /\ job' = [job EXCEPT ![s] = "finished"]
    /\ outcome' = [outcome EXCEPT ![s] = o]
    /\ notifying' = notifying \cup {s}
    /\ UNCHANGED <<attempts, netVars, webVars, applied>>

\* The next turn of the loop posts the event.
PostEvent(s) ==
    /\ s \in notifying
    /\ attempts[s] < MaxAttempts
    /\ attempts' = [attempts EXCEPT ![s] = @ + 1]
    /\ copies' = [copies EXCEPT ![s] = @ + 1]
    /\ UNCHANGED <<job, outcome, notifying, carried, replied, webVars, applied>>

\* The last attempt failed, too.
GiveUp(s) ==
    /\ s \in notifying
    /\ attempts[s] = MaxAttempts
    /\ notifying' = notifying \ {s}
    /\ UNCHANGED <<job, outcome, attempts, netVars, webVars, applied>>

\* The sweep evicts the finished job.
Evict(s) ==
    /\ job[s] = "finished"
    /\ job' = [job EXCEPT ![s] = "gone"]
    /\ UNCHANGED <<outcome, notifying, attempts, netVars, webVars, applied>>

\* All state is in memory.  Events already sent may still arrive.
WorkerRestart ==
    /\ job' = [s \in Scans |-> IF job[s] = "absent" THEN "absent" ELSE "gone"]
    /\ notifying' = {}
    /\ UNCHANGED <<outcome, attempts, netVars, webVars, applied>>

-----------------------------------------------------------------------------
(* POST /api/internal/scan-events *)

\* Mutant: the standalone row drops its reference to the user.
ApplyEventOrphaned(s) ==
    /\ row' = [row EXCEPT ![s] = outcome[s]]
    /\ applied' = applied \cup {s}

\* Mutant: every event is taken for a completion.
ApplyEventCompleted(s) ==
    /\ row[s] # "none" \/ user = "active"
    /\ row' = [row EXCEPT ![s] = "completed"]
    /\ applied' = applied \cup {s}

\* applyScanEvent: update the row, or insert one.  The insertion fails when the
\* user it names no longer exists.
ApplyEvent(s) ==
    /\ row[s] # "none" \/ user = "active"
    /\ row' = [row EXCEPT ![s] = outcome[s]]
    /\ applied' = applied \cup {s}

\* A copy of the event is handled.  notifyScanEvent ends with the ok that it
\* hears; it does not hear one that comes after its five seconds.
Deliver(s) ==
    /\ copies[s] > 0
    /\ copies' = [copies EXCEPT ![s] = @ - 1]
    /\ ApplyEvent(s)
    /\ notifying' \in {notifying, notifying \ {s}}
    /\ UNCHANGED <<request, todo, stale, user, carried, replied, job, outcome, attempts>>

\* The event is larger than the handler reads or does not fit its schema: it is
\* answered with 400, and notifyScanEvent does not try again.
RefuseEvent(s) ==
    /\ copies[s] > 0
    /\ copies' = [copies EXCEPT ![s] = @ - 1]
    /\ notifying' = notifying \ {s}
    /\ UNCHANGED <<carried, replied, webVars, job, outcome, attempts, applied>>

\* A copy is lost on the way, or its transaction fails and is rolled back.
LoseEvent(s) ==
    /\ copies[s] > 0
    /\ copies' = [copies EXCEPT ![s] = @ - 1]
    /\ UNCHANGED <<carried, replied, webVars, workerVars, applied>>

-----------------------------------------------------------------------------
Notify(s) == PostEvent(s) \/ GiveUp(s)

Next ==
    \/ \E s \in Scans :
          \/ CheckLimit(s)
          \/ \E t \in Scans : Reconcile(s, t)
          \/ Recount(s)
          \/ SendCreate(s)
          \/ RequestFails(s)
          \/ GetReply(s)
          \/ WorkerLostIt(s)
          \/ Age(s)
          \/ Accept(s)
          \/ Drop(s)
          \/ \E o \in Outcomes : Finish(s, o)
          \/ Notify(s)
          \/ Evict(s)
          \/ Deliver(s)
          \/ RefuseEvent(s)
          \/ LoseEvent(s)
    \/ FailStaleScans
    \/ DeleteUser
    \/ WebRestart
    \/ WorkerRestart

Spec == Init /\ [][Next]_vars

\* Time passes, the maintenance ticks every hour and the loop of notifyScanEvent
\* is bounded.  Nothing is assumed of the network or of the worker's jobs.
Fairness ==
    /\ WF_vars(FailStaleScans)
    /\ \A s \in Scans : WF_vars(Age(s)) /\ WF_vars(Notify(s))

FairSpec == Spec /\ Fairness

-----------------------------------------------------------------------------
TypeOK ==
    /\ request \in [Scans -> {"idle", "reconciling", "admitted", "posted", "ended"}]
    /\ todo \in [Scans -> SUBSET Scans]
    /\ carried \in SUBSET Scans
    /\ replied \in SUBSET Scans
    /\ job \in [Scans -> {"absent", "live", "finished", "gone"}]
    /\ outcome \in [Scans -> Outcomes \cup {"none"}]
    /\ notifying \in SUBSET Scans
    /\ attempts \in [Scans -> 0..MaxAttempts]
    /\ copies \in [Scans -> 0..MaxAttempts]
    /\ row \in [Scans -> Outcomes \cup {"none", "queued"}]
    /\ stale \in SUBSET Scans
    /\ user \in {"active", "deleted"}
    /\ applied \in SUBSET Scans

\* Once the worker's event has been applied its outcome stays in the history:
\* the stale sweep, a 404 from the worker, a late recordScanQueued and repeated
\* events leave it alone (scans.ts:121, 295, 310).
AppliedIsFinal ==
    user = "active" => \A s \in applied : row[s] = outcome[s]

\* The history shows a scan as completed or cancelled only if the worker said so.
ShownIsTrue ==
    \A s \in Scans : row[s] \in {"completed", "cancelled"} => row[s] = outcome[s]

\* No reply, event or sweep brings a deleted user's scans back: the standalone
\* insertion (scans.ts:201) names the user and fails.
DeletedStaysDeleted ==
    user = "deleted" => \A s \in Scans : row[s] = "none"

\* A request is posted once and a job starts once: until the request arrives
\* there is no job, until the job ends there is no event, and an event says how
\* it ended.
OneJobPerRequest ==
    \A s \in Scans :
        /\ request[s] \in {"idle", "reconciling", "admitted"} => s \notin carried /\ job[s] = "absent"
        /\ s \in carried => job[s] = "absent"
        /\ job[s] \in {"absent", "live"} => outcome[s] = "none"
        /\ s \in notifying \cup applied \/ copies[s] > 0 => outcome[s] \in Outcomes
        /\ copies[s] <= attempts[s]

\* The inductive invariant behind the theorems of ScanHistoryProofs.
HistoryInvariant ==
    /\ TypeOK
    /\ OneJobPerRequest
    /\ AppliedIsFinal
    /\ ShownIsTrue
    /\ DeletedStaysDeleted

\* A closed row is never open again, even when the reply to the creation is
\* handled after the event (scans.ts:121).
ClosedStaysClosed ==
    [][\A s \in Scans : row[s] \in Outcomes => row'[s] # "queued"]_row

\* Lost events and restarts leave no row open for ever.
OpenRowsClose == \A s \in Scans : row[s] = "queued" ~> row[s] # "queued"

=============================================================================
