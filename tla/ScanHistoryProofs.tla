-------------------------- MODULE ScanHistoryProofs --------------------------
(***************************************************************************)
(* Proofs about ScanHistory, for any number of scans, any limit and any    *)
(* number of attempts.                                                     *)
(***************************************************************************)
EXTENDS ScanHistory, TLAPS

\* The guarded update closes open rows only, and only as failed.
LEMMA FailProperties ==
    ASSUME HistoryInvariant, NEW S \in SUBSET Scans
    PROVE  /\ Fail(S) \in [Scans -> Outcomes \cup {"none", "queued"}]
           /\ \A s \in Scans : Fail(S)[s] = row[s] \/ (row[s] = "queued" /\ Fail(S)[s] = "failed")
<1>1. row \in [Scans -> Outcomes \cup {"none", "queued"}]
  BY DEF HistoryInvariant, TypeOK
<1>2. "failed" \in Outcomes
  BY DEF Outcomes
<1>3. \A s \in Scans : Fail(S)[s] = IF s \in S /\ row[s] = "queued" THEN "failed" ELSE row[s]
  BY DEF Fail, Open
<1>4. Fail(S) \in [Scans -> Outcomes \cup {"none", "queued"}]
  BY <1>1, <1>2 DEF Fail
<1> QED
  BY <1>3, <1>4

\* A step that fails open rows at most, and moves the handler of a scan that has
\* not been asked for yet without asking.
LEMMA FailPreserves ==
    ASSUME HistoryInvariant, NEW S \in SUBSET Scans,
           row' \in {row, Fail(S)},
           request' \in [Scans -> {"idle", "reconciling", "admitted", "posted", "ended"}],
           \A s \in Scans : request'[s] \in {"idle", "reconciling", "admitted"}
                              => request[s] \in {"idle", "reconciling", "admitted"},
           todo' \in [Scans -> SUBSET Scans],
           stale' \in SUBSET Scans,
           UNCHANGED <<user, netVars, workerVars, applied>>
    PROVE  HistoryInvariant'
<1>1. /\ row' \in [Scans -> Outcomes \cup {"none", "queued"}]
      /\ \A s \in Scans : row'[s] = row[s] \/ (row[s] = "queued" /\ row'[s] = "failed")
  BY FailProperties DEF HistoryInvariant, TypeOK
<1>2. TypeOK'
  BY <1>1 DEF HistoryInvariant, TypeOK, netVars, workerVars
<1>3. OneJobPerRequest'
  BY DEF HistoryInvariant, OneJobPerRequest, netVars, workerVars
<1>4. AppliedIsFinal'
  <2> SUFFICES ASSUME user = "active", NEW s \in applied
               PROVE  row'[s] = outcome[s]
    BY DEF AppliedIsFinal, workerVars
  <2>1. s \in Scans /\ row[s] = outcome[s] /\ outcome[s] \in Outcomes
    BY DEF HistoryInvariant, TypeOK, OneJobPerRequest, AppliedIsFinal
  <2> QED
    BY <1>1, <2>1 DEF Outcomes
<1>5. ShownIsTrue' /\ DeletedStaysDeleted'
  BY <1>1 DEF HistoryInvariant, ShownIsTrue, DeletedStaysDeleted, workerVars
<1> QED
  BY <1>2, <1>3, <1>4, <1>5 DEF HistoryInvariant

\* The handlers and the maintenance of the web service but for the ones below.
LEMMA WebPreserves ==
    ASSUME HistoryInvariant,
           \/ \E s \in Scans : \/ CheckLimit(s) \/ Recount(s) \/ RequestFails(s)
                               \/ WorkerLostIt(s) \/ Age(s)
                               \/ \E t \in Scans : Reconcile(s, t)
           \/ FailStaleScans
           \/ WebRestart
    PROVE  HistoryInvariant'
<1> USE DEF HistoryInvariant, TypeOK
<1>1. ASSUME NEW s \in Scans, CheckLimit(s) PROVE HistoryInvariant'
  <2>1. Active(row') \subseteq Scans
    BY DEF Active, Open
  <2> QED
    BY <1>1, <2>1, FailPreserves DEF CheckLimit
<1>2. ASSUME NEW s \in Scans, Recount(s) PROVE HistoryInvariant'
  BY <1>2, FailPreserves DEF Recount
<1>3. ASSUME NEW s \in Scans, RequestFails(s) PROVE HistoryInvariant'
  BY <1>3, FailPreserves DEF RequestFails
<1>4. ASSUME NEW s \in Scans, WorkerLostIt(s) PROVE HistoryInvariant'
  <2>1. row' = Fail({s}) /\ UNCHANGED <<request, todo, stale, user, netVars, workerVars, applied>>
    BY <1>4 DEF WorkerLostIt
  <2>2. {s} \in SUBSET Scans
    OBVIOUS
  <2> QED
    BY <2>1, <2>2, FailPreserves
<1>5. ASSUME NEW s \in Scans, Age(s) PROVE HistoryInvariant'
  BY <1>5, FailPreserves DEF Age
<1>6. ASSUME NEW s \in Scans, NEW t \in Scans, Reconcile(s, t) PROVE HistoryInvariant'
  <2>1. /\ todo' = [todo EXCEPT ![s] = @ \ {t}]
        /\ row' \in {row, Fail({t})}
        /\ UNCHANGED <<request, stale, user, netVars, workerVars, applied>>
    BY <1>6 DEF Reconcile
  <2>2. todo' \in [Scans -> SUBSET Scans]
    BY <2>1
  <2>3. {t} \in SUBSET Scans
    OBVIOUS
  <2> QED
    BY <2>1, <2>2, <2>3, FailPreserves
<1>7. CASE FailStaleScans
  BY <1>7, FailPreserves DEF FailStaleScans
<1>8. CASE WebRestart
  <2>1. /\ request' = [s \in Scans |-> IF request[s] = "idle" THEN "idle" ELSE "ended"]
        /\ todo' = [s \in Scans |-> {}]
        /\ UNCHANGED <<row, stale, user, netVars, workerVars, applied>>
    BY <1>8 DEF WebRestart
  <2>2. /\ request' \in [Scans -> {"idle", "reconciling", "admitted", "posted", "ended"}]
        /\ \A s \in Scans : request'[s] \in {"idle", "reconciling", "admitted"}
                              => request[s] \in {"idle", "reconciling", "admitted"}
        /\ todo' \in [Scans -> SUBSET Scans]
        /\ row' \in {row, Fail({})} /\ stale' \in SUBSET Scans
    BY <2>1
  <2> QED
    BY <2>1, <2>2, FailPreserves
<1> QED
  BY <1>1, <1>2, <1>3, <1>4, <1>5, <1>6, <1>7, <1>8

\* The creation of a job: the request is carried once, so Accept finds no job.
LEMMA CreationPreserves ==
    ASSUME HistoryInvariant, NEW s \in Scans,
           SendCreate(s) \/ GetReply(s) \/ Accept(s) \/ Drop(s)
    PROVE  HistoryInvariant'
<1> USE DEF HistoryInvariant, TypeOK
<1>1. CASE SendCreate(s)
  BY <1>1 DEF SendCreate, OneJobPerRequest, AppliedIsFinal, ShownIsTrue, DeletedStaysDeleted, workerVars
<1>2. CASE GetReply(s)
  <2>1. row' = row \/ (user = "active" /\ row[s] = "none" /\ row' = [row EXCEPT ![s] = "queued"])
    BY <1>2 DEF GetReply, RecordQueued
  <2>2. /\ request' = [request EXCEPT ![s] = "ended"] /\ replied' = replied \ {s}
        /\ UNCHANGED <<todo, stale, user, carried, copies, workerVars, applied>>
    BY <1>2 DEF GetReply
  <2>3. TypeOK'
    BY <2>1, <2>2 DEF workerVars
  <2>4. OneJobPerRequest'
    BY <2>2 DEF OneJobPerRequest, workerVars
  <2>5. AppliedIsFinal'
    BY <2>1, <2>2 DEF AppliedIsFinal, OneJobPerRequest, Outcomes, workerVars
  <2>6. ShownIsTrue' /\ DeletedStaysDeleted'
    BY <2>1, <2>2 DEF ShownIsTrue, DeletedStaysDeleted, workerVars
  <2> QED
    BY <2>3, <2>4, <2>5, <2>6
<1>3. CASE Accept(s)
  BY <1>3 DEF Accept, OneJobPerRequest, AppliedIsFinal, ShownIsTrue, DeletedStaysDeleted, webVars
<1>4. CASE Drop(s)
  BY <1>4 DEF Drop, OneJobPerRequest, AppliedIsFinal, ShownIsTrue, DeletedStaysDeleted, webVars, workerVars
<1> QED
  BY <1>1, <1>2, <1>3, <1>4

\* The end of a job and the loop of notifyScanEvent.
LEMMA WorkerPreserves ==
    ASSUME HistoryInvariant,
           \/ \E s \in Scans : \/ \E o \in Outcomes : Finish(s, o)
                               \/ PostEvent(s) \/ GiveUp(s) \/ Evict(s)
           \/ WorkerRestart
    PROVE  HistoryInvariant'
<1> USE DEF HistoryInvariant, TypeOK
<1>1. ASSUME NEW s \in Scans, NEW o \in Outcomes, Finish(s, o) PROVE HistoryInvariant'
  <2>1. outcome[s] = "none" /\ s \notin applied /\ row[s] \notin {"completed", "cancelled"}
    BY <1>1 DEF Finish, OneJobPerRequest, ShownIsTrue, Outcomes
  <2>2. /\ job' = [job EXCEPT ![s] = "finished"]
        /\ outcome' = [outcome EXCEPT ![s] = o]
        /\ notifying' = notifying \cup {s}
        /\ UNCHANGED <<attempts, netVars, webVars, applied>>
    BY <1>1 DEF Finish
  <2>3. TypeOK' /\ AppliedIsFinal' /\ ShownIsTrue' /\ DeletedStaysDeleted'
    BY <2>1, <2>2 DEF AppliedIsFinal, ShownIsTrue, DeletedStaysDeleted, netVars, webVars
  <2>4. OneJobPerRequest'
    BY <1>1, <2>2 DEF Finish, OneJobPerRequest, netVars, webVars
  <2> QED
    BY <2>3, <2>4
<1>2. ASSUME NEW s \in Scans, PostEvent(s) PROVE HistoryInvariant'
  <2>1. copies[s] <= attempts[s] /\ attempts[s] < MaxAttempts /\ outcome[s] \in Outcomes
    BY <1>2 DEF PostEvent, OneJobPerRequest
  <2>2. /\ attempts' = [attempts EXCEPT ![s] = @ + 1]
        /\ copies' = [copies EXCEPT ![s] = @ + 1]
        /\ UNCHANGED <<job, outcome, notifying, carried, replied, webVars, applied>>
    BY <1>2 DEF PostEvent
  <2>3. attempts[s] + 1 \in 0..MaxAttempts /\ copies[s] + 1 \in 0..MaxAttempts
    BY <2>1, HistoryAssumption
  <2>4. attempts' \in [Scans -> 0..MaxAttempts] /\ copies' \in [Scans -> 0..MaxAttempts]
    BY <2>2, <2>3
  <2>5. TypeOK' /\ AppliedIsFinal' /\ ShownIsTrue' /\ DeletedStaysDeleted'
    BY <2>2, <2>4 DEF AppliedIsFinal, ShownIsTrue, DeletedStaysDeleted, webVars
  <2>6. OneJobPerRequest'
    <3> SUFFICES ASSUME NEW x \in Scans
                 PROVE  /\ request'[x] \in {"idle", "reconciling", "admitted"}
                              => x \notin carried' /\ job'[x] = "absent"
                        /\ x \in carried' => job'[x] = "absent"
                        /\ job'[x] \in {"absent", "live"} => outcome'[x] = "none"
                        /\ x \in notifying' \cup applied' \/ copies'[x] > 0 => outcome'[x] \in Outcomes
                        /\ copies'[x] <= attempts'[x]
      BY DEF OneJobPerRequest
    <3>1. CASE x = s
      BY <2>1, <2>2, <3>1 DEF OneJobPerRequest, webVars
    <3>2. CASE x # s
      BY <2>2, <3>2 DEF OneJobPerRequest, webVars
    <3> QED
      BY <3>1, <3>2
  <2> QED
    BY <2>5, <2>6
<1>3. ASSUME NEW s \in Scans, GiveUp(s) \/ Evict(s) PROVE HistoryInvariant'
  BY <1>3 DEF GiveUp, Evict, OneJobPerRequest, AppliedIsFinal, ShownIsTrue, DeletedStaysDeleted,
              webVars, netVars
<1>4. CASE WorkerRestart
  BY <1>4 DEF WorkerRestart, OneJobPerRequest, AppliedIsFinal, ShownIsTrue, DeletedStaysDeleted,
              webVars, netVars
<1> QED
  BY <1>1, <1>2, <1>3, <1>4

\* The arrival or the loss of a copy of the event, and the user's deletion.
LEMMA ArrivalPreserves ==
    ASSUME HistoryInvariant,
           \/ \E s \in Scans : Deliver(s) \/ RefuseEvent(s) \/ LoseEvent(s)
           \/ DeleteUser
    PROVE  HistoryInvariant'
<1> USE DEF HistoryInvariant, TypeOK
<1>1. ASSUME NEW s \in Scans, Deliver(s) \/ RefuseEvent(s) \/ LoseEvent(s)
      PROVE  /\ copies' \in [Scans -> 0..MaxAttempts]
             /\ \A x \in Scans : copies'[x] <= copies[x]
  <2>1. copies[s] > 0 /\ copies' = [copies EXCEPT ![s] = @ - 1]
    BY <1>1 DEF Deliver, RefuseEvent, LoseEvent
  <2>2. copies[s] - 1 \in 0..MaxAttempts
    BY <2>1, HistoryAssumption
  <2> QED
    BY <2>1, <2>2
<1>2. ASSUME NEW s \in Scans, Deliver(s) PROVE HistoryInvariant'
  <2>1. /\ outcome[s] \in Outcomes
        /\ row[s] # "none" \/ user = "active"
        /\ row' = [row EXCEPT ![s] = outcome[s]]
        /\ applied' = applied \cup {s}
        /\ notifying' \in {notifying, notifying \ {s}}
        /\ UNCHANGED <<request, todo, stale, user, carried, replied, job, outcome, attempts>>
    BY <1>2 DEF Deliver, ApplyEvent, OneJobPerRequest
  <2>2. user = "active"
    BY <2>1 DEF DeletedStaysDeleted
  <2>3. TypeOK'
    BY <1>1, <1>2, <2>1
  <2>4. OneJobPerRequest'
    BY <1>1, <1>2, <2>1, HistoryAssumption DEF OneJobPerRequest
  <2>5. AppliedIsFinal' /\ ShownIsTrue' /\ DeletedStaysDeleted'
    BY <2>1, <2>2 DEF AppliedIsFinal, ShownIsTrue, DeletedStaysDeleted
  <2> QED
    BY <2>3, <2>4, <2>5
<1>3. ASSUME NEW s \in Scans, RefuseEvent(s) \/ LoseEvent(s) PROVE HistoryInvariant'
  <2>1. /\ notifying' \in {notifying, notifying \ {s}}
        /\ UNCHANGED <<carried, replied, webVars, job, outcome, attempts, applied>>
    BY <1>3 DEF RefuseEvent, LoseEvent, workerVars
  <2>2. TypeOK' /\ AppliedIsFinal' /\ ShownIsTrue' /\ DeletedStaysDeleted'
    BY <1>1, <1>3, <2>1 DEF AppliedIsFinal, ShownIsTrue, DeletedStaysDeleted, webVars
  <2>3. OneJobPerRequest'
    BY <1>1, <1>3, <2>1, HistoryAssumption DEF OneJobPerRequest, webVars
  <2> QED
    BY <2>2, <2>3
<1>4. CASE DeleteUser
  BY <1>4 DEF DeleteUser, OneJobPerRequest, AppliedIsFinal, ShownIsTrue, DeletedStaysDeleted,
              netVars, workerVars
<1> QED
  BY <1>2, <1>3, <1>4

\* The empty history satisfies the invariant.
LEMMA InitHistory == Init => HistoryInvariant
  BY HistoryAssumption
  DEF Init, HistoryInvariant, TypeOK, OneJobPerRequest, AppliedIsFinal, ShownIsTrue, DeletedStaysDeleted,
      Outcomes

\* The invariant is inductive.
LEMMA NextHistory == HistoryInvariant /\ [Next]_vars => HistoryInvariant'
<1> SUFFICES ASSUME HistoryInvariant, [Next]_vars PROVE HistoryInvariant'
  OBVIOUS
<1>1. CASE UNCHANGED vars
  BY <1>1 DEF vars, webVars, netVars, workerVars, HistoryInvariant, TypeOK, OneJobPerRequest,
              AppliedIsFinal, ShownIsTrue, DeletedStaysDeleted
<1>2. CASE Next
  BY <1>2, WebPreserves, CreationPreserves, WorkerPreserves, ArrivalPreserves DEF Next, Notify
<1> QED
  BY <1>1, <1>2

\* The history keeps its types, keeps what the worker reported, shows no success
\* the worker did not report and nothing of a deleted user, whatever is delayed,
\* lost, repeated or restarted.
THEOREM HistoryInvariantHolds == Spec => []HistoryInvariant
  BY InitHistory, NextHistory, PTL DEF Spec

\* A reported outcome is final.
THEOREM ReportedOutcomeStays == Spec => []AppliedIsFinal
<1>1. HistoryInvariant => AppliedIsFinal
  BY DEF HistoryInvariant
<1> QED
  BY <1>1, HistoryInvariantHolds, PTL

\* Only true successes are shown, and nothing of a deleted user.
THEOREM HistoryIsTruthful == Spec => [](ShownIsTrue /\ DeletedStaysDeleted)
<1>1. HistoryInvariant => ShownIsTrue /\ DeletedStaysDeleted
  BY DEF HistoryInvariant
<1> QED
  BY <1>1, HistoryInvariantHolds, PTL

\* No step reopens a closed row.
THEOREM ClosedRowsStayClosed == Spec => ClosedStaysClosed
<1>1. HistoryInvariant /\ [Next]_vars
        => [\A s \in Scans : row[s] \in Outcomes => row'[s] # "queued"]_row
  <2> SUFFICES ASSUME HistoryInvariant, [Next]_vars, row' # row, NEW s \in Scans, row[s] \in Outcomes
               PROVE  row'[s] # "queued"
    OBVIOUS
  <2>1. row \in [Scans -> Outcomes \cup {"none", "queued"}]
    BY DEF HistoryInvariant, TypeOK
  <2>2. CASE \E x \in Scans : Deliver(x)
    BY <2>1, <2>2 DEF Deliver, ApplyEvent, HistoryInvariant, OneJobPerRequest, Outcomes
  <2>3. CASE \E x \in Scans : GetReply(x)
    BY <2>1, <2>3 DEF GetReply, RecordQueued, Outcomes
  <2>4. CASE DeleteUser
    BY <2>4 DEF DeleteUser
  <2>5. CASE \E S \in SUBSET Scans : row' = Fail(S)
    BY <2>5, FailProperties DEF Outcomes
  <2>6. \/ \E x \in Scans : Deliver(x) \/ GetReply(x)
        \/ DeleteUser
        \/ \E S \in SUBSET Scans : row' = Fail(S)
    BY DEF Next, CheckLimit, Reconcile, Recount, SendCreate, RequestFails, WorkerLostIt, Age, Accept,
           Drop, Finish, Notify, PostEvent, GiveUp, Evict, RefuseEvent, LoseEvent, FailStaleScans, WebRestart,
           WorkerRestart, vars, webVars, netVars, workerVars, HistoryInvariant, TypeOK
  <2> QED
    BY <2>2, <2>3, <2>4, <2>5, <2>6
<1>2. Spec => [][Next]_vars
  BY PTL DEF Spec
<1> QED
  BY <1>1, <1>2, HistoryInvariantHolds, PTL DEF ClosedStaysClosed
=============================================================================
