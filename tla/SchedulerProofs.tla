--------------------------- MODULE SchedulerProofs ---------------------------
(***************************************************************************)
(* Proofs about Scheduler, for any number of schedules and instances, any  *)
(* period, and any lease that outlasts a tick of the dispatcher.           *)
(***************************************************************************)
EXTENDS Scheduler, FiniteSetTheorems, TLAPS

\* The elements of a sequence, and of one with an element more.
LEMMA SeqElement ==
    ASSUME NEW S, NEW q \in Seq(S), NEW j \in 1..Len(q)
    PROVE  q[j] \in S
OBVIOUS

LEMMA SeqAppend ==
    ASSUME NEW S, NEW q \in Seq(S), NEW e \in S
    PROVE  /\ Len(q) \in Nat /\ Len(Append(q, e)) = Len(q) + 1
           /\ Append(q, e)[Len(q) + 1] = e
           /\ \A j \in 1..Len(q) : Append(q, e)[j] = q[j]
OBVIOUS

\* A scan has been started for a schedule and a time.
LEMMA StartedTypes ==
    ASSUME TypeOK, NEW j \in 1..Len(started)
    PROVE  started[j].schedule \in Schedules /\ started[j].slot \in Nat
<1>1. started \in Seq([schedule : Schedules, slot : Nat])
  BY DEF TypeOK
<1>2. started[j] \in [schedule : Schedules, slot : Nat]
  BY <1>1, SeqElement
<1> QED
  BY <1>2

\* The next run lies in the future.
LEMMA NextRunIsLater ==
    ASSUME NEW timing \in Timings, NEW from \in Nat
    PROVE  ComputeNextRun(timing, from) \in Nat /\ ComputeNextRun(timing, from) > from
<1>1. Period \in Nat \ {0}
  BY SchedulerAssumption
<1>2. (timing - from - 1) % Period \in 0..(Period - 1)
  BY <1>1 DEF Timings
<1> QED
  BY <1>1, <1>2 DEF ComputeNextRun

\* What listDueScheduleIds answers is a sequence of schedules.
LEMMA DueListsType == \A q \in DueLists(clock) : q \in Seq(Schedules)
<1> DEFINE D == {s \in Schedules : IsDue(s, clock)}
           n == IF Cardinality(D) < Batch THEN Cardinality(D) ELSE Batch
<1>1. Cardinality(D) \in Nat
  BY SchedulerAssumption, FS_Subset, FS_CardinalityType
<1>2. n \in Nat
  BY <1>1, SchedulerAssumption
<1>3. \A q \in DueLists(clock) : q \in [1..n -> D]
  BY DEF DueLists
<1> HIDE DEF n
<1> QED
  BY <1>2, <1>3

\* Every update of the table keeps the type of its rows.
LEMMA RowUpdates ==
    ASSUME row \in [Schedules -> RowType], NEW s \in Schedules
    PROVE  /\ \A next \in Nat : [row EXCEPT ![s].nextRun = next] \in [Schedules -> RowType]
           /\ \A next \in Nat, j \in Scans \cup {NoScan} :
                 [row EXCEPT ![s].nextRun = next, ![s].lastScan = j] \in [Schedules -> RowType]
           /\ [row EXCEPT ![s].enabled = FALSE] \in [Schedules -> RowType]
           /\ \A p \in PatchType :
                 [row EXCEPT ![s].timing = p.timing, ![s].enabled = p.enabled,
                             ![s].nextRun = p.nextRun] \in [Schedules -> RowType]
           /\ \A j \in Scans \cup {NoScan} :
                 [row EXCEPT ![s].lastAlert = j] \in [Schedules -> RowType]
<1>1. row[s] \in RowType
  OBVIOUS
<1>2. \A next \in Nat : [row[s] EXCEPT !.nextRun = next] \in RowType
  BY <1>1 DEF RowType
<1>3. \A next \in Nat, j \in Scans \cup {NoScan} :
         [row[s] EXCEPT !.nextRun = next, !.lastScan = j] \in RowType
  BY <1>1 DEF RowType
<1>4. [row[s] EXCEPT !.enabled = FALSE] \in RowType
  BY <1>1 DEF RowType
<1>5. \A p \in PatchType :
         [row[s] EXCEPT !.timing = p.timing, !.enabled = p.enabled, !.nextRun = p.nextRun] \in RowType
  BY <1>1 DEF RowType, PatchType
<1>7. \A j \in Scans \cup {NoScan} : [row[s] EXCEPT !.lastAlert = j] \in RowType
  BY <1>1 DEF RowType
<1> QED
  BY <1>2, <1>3, <1>4, <1>5, <1>7

LEMMA InitType == Init => TypeOK
<1> SUFFICES ASSUME Init PROVE TypeOK
  OBVIOUS
<1>1. PICK timing \in [Schedules -> Timings] :
         /\ row = [s \in Schedules |->
                     [enabled |-> TRUE, nextRun |-> ComputeNextRun(timing[s], 0),
                      timing |-> timing[s], lastScan |-> NoScan, lastAlert |-> NoScan]]
         /\ slot = [s \in Schedules |-> ComputeNextRun(timing[s], 0)]
  BY DEF Init
<1>2. \A s \in Schedules : ComputeNextRun(timing[s], 0) \in Nat
  BY <1>1, NextRunIsLater
<1>3. row \in [Schedules -> RowType] /\ slot \in [Schedules -> Nat]
  BY <1>1, <1>2 DEF RowType
<1> QED
  BY <1>3, SchedulerAssumption DEF Init, TypeOK, Scans, NoScan, Dispatching

\* Every step keeps the types, and an instance that records a scan has one.
LEMMA NextType == TypeOK /\ [Next]_vars => TypeOK'
<1> SUFFICES ASSUME TypeOK, [Next]_vars PROVE TypeOK'
  OBVIOUS
<1> USE SchedulerAssumption
<1> USE DEF TypeOK, tickVars, alertVars, patchVars
<1>a. \A i \in Instances : tick[i] \in Nat /\ tick[i] + Lease \in Nat
  OBVIOUS
<1>b. row \in [Schedules -> RowType]
  OBVIOUS
<1>c. \A i \in Instances : stage[i] \notin {"idle", "loop"} =>
         copy[i].id \in Schedules /\ copy[i].timing \in Timings
  BY DEF CopyType
<1>d. \A s : stale \cup Overtaken(s) \in SUBSET Instances
  BY DEF Overtaken
<1>1. ASSUME NEW i \in Instances, ListDue(i) PROVE TypeOK'
  BY <1>1, DueListsType DEF ListDue
<1>2. ASSUME NEW i \in Instances, ReadSchedule(i) PROVE TypeOK'
  <2>1. /\ stage[i] = "loop" /\ due[i] # <<>> /\ due' = [due EXCEPT ![i] = Tail(@)]
        /\ UNCHANGED <<clock, edits, present, row, tick, got, started, history, alertVars,
                       slot, lost, overwritten, patch, stale>>
    BY <1>2 DEF ReadSchedule
  <2>2. Head(due[i]) \in Schedules /\ Tail(due[i]) \in Seq(Schedules)
    BY <2>1
  <2>3. \/ UNCHANGED <<stage, copy>>
        \/ /\ stage' = [stage EXCEPT ![i] = "claim"]
           /\ \E c \in CopyType : copy' = [copy EXCEPT ![i] = c]
    BY <1>2, <2>2 DEF ReadSchedule, RowType, CopyType
  <2>4. CASE UNCHANGED <<stage, copy>>
    BY <2>1, <2>2, <2>4
  <2>5. ASSUME NEW c \in CopyType, copy' = [copy EXCEPT ![i] = c],
               stage' = [stage EXCEPT ![i] = "claim"]
        PROVE  TypeOK'
    BY <2>1, <2>2, <2>5 DEF Dispatching
  <2> QED
    BY <2>3, <2>4, <2>5
<1>3. ASSUME NEW i \in Instances, EndTick(i) PROVE TypeOK'
  BY <1>3 DEF EndTick
<1>4. ASSUME NEW i \in Instances, Claim(i) PROVE TypeOK'
  <2>1. row' \in [Schedules -> RowType]
    <3>1. \/ row' = [row EXCEPT ![copy[i].id].nextRun = tick[i] + Lease]
          \/ row' = row
      BY <1>4 DEF Claim
    <3>2. copy[i].id \in Schedules
      BY <1>4, <1>c DEF Claim
    <3>3. \A next \in Nat : [row EXCEPT ![copy[i].id].nextRun = next] \in [Schedules -> RowType]
      BY <3>2, <1>b, RowUpdates, Zenon
    <3>4. CASE row' = [row EXCEPT ![copy[i].id].nextRun = tick[i] + Lease]
      BY <3>3, <3>4, <1>a, Zenon
    <3>5. CASE row' = row
      BY <3>5, <1>b
    <3> QED
      BY <3>1, <3>4, <3>5
  <2>2. /\ stage[i] = "claim"
        /\ \/ stage' = [stage EXCEPT ![i] = "check"] /\ UNCHANGED copy
           \/ stage' = [stage EXCEPT ![i] = "loop"] /\ copy' = [copy EXCEPT ![i] = NoCopy]
        /\ stale' \in SUBSET Instances
        /\ UNCHANGED <<clock, edits, present, tick, due, got, started, history, alertVars,
                       slot, lost, overwritten, patch>>
    BY <1>4, <1>d DEF Claim
  <2> QED
    BY <2>1, <2>2 DEF Dispatching
<1>5. ASSUME NEW i \in Instances,
             OwnerNotInOrder(i) \/ LimitReached(i) \/ SendCreate(i)
      PROVE  TypeOK'
  BY <1>5 DEF OwnerNotInOrder, LimitReached, SendCreate, Dispatching
<1>6. ASSUME NEW i \in Instances, Accept(i) PROVE TypeOK'
  <2>1. copy[i].id \in Schedules /\ slot[copy[i].id] \in Nat
    BY <1>6 DEF Accept, CopyType
  <2>2. /\ started' \in Seq([schedule : Schedules, slot : Nat])
        /\ Len(started') = Len(started) + 1 /\ Len(started') <= MaxScans
    BY <1>6, <2>1 DEF Accept
  <2>3. Len(started) + 1 \in Scans /\ Len(started) + 1 # NoScan
    BY <1>6 DEF Accept, Scans, NoScan
  <2>4. /\ stage[i] = "posted" /\ got' = [got EXCEPT ![i] = Len(started) + 1]
        /\ UNCHANGED <<clock, edits, present, row, tickVars, history, alertVars, slot, lost, overwritten, patch, stale>>
    BY <1>6 DEF Accept
  <2> QED
    BY <2>2, <2>3, <2>4
<1>7. ASSUME NEW i \in Instances, Refuse(i) \/ GetReply(i) PROVE TypeOK'
  BY <1>7 DEF Refuse, GetReply, Dispatching
<1>8. ASSUME NEW i \in Instances, TimeOut(i) PROVE TypeOK'
  BY <1>8 DEF TimeOut, Dispatching
<1>9. ASSUME NEW i \in Instances, RecordScan(i) PROVE TypeOK'
  BY <1>9 DEF RecordScan, CopyType, Dispatching
<1>10. ASSUME NEW i \in Instances, MarkRun(i) PROVE TypeOK'
  <2>1. copy[i] \in CopyType /\ got[i] \in Scans
    BY <1>10 DEF MarkRun
  <2>2. ComputeNextRun(copy[i].timing, tick[i]) \in Nat
    BY <1>10, <1>a, <1>c, NextRunIsLater DEF MarkRun
  <2>3. row' \in [Schedules -> RowType]
    <3>1. \/ row' = [row EXCEPT ![copy[i].id].nextRun = ComputeNextRun(copy[i].timing, tick[i]),
                              ![copy[i].id].lastScan = got[i]]
          \/ row' = row
      BY <1>10 DEF MarkRun
    <3>2. copy[i].id \in Schedules /\ got[i] \in Scans \cup {NoScan}
      BY <1>10, <1>c, <2>1 DEF MarkRun
    <3>3. CASE row' = [row EXCEPT ![copy[i].id].nextRun = ComputeNextRun(copy[i].timing, tick[i]),
                                  ![copy[i].id].lastScan = got[i]]
      <4>1. [row EXCEPT ![copy[i].id].nextRun = ComputeNextRun(copy[i].timing, tick[i]),
                        ![copy[i].id].lastScan = got[i]] \in [Schedules -> RowType]
        <5>1. \A next \in Nat, j \in Scans \cup {NoScan} :
                 [row EXCEPT ![copy[i].id].nextRun = next, ![copy[i].id].lastScan = j]
                    \in [Schedules -> RowType]
          BY <3>2, <1>b, RowUpdates, Zenon
        <5> QED
          BY <5>1, <3>2, <2>2, Zenon
      <4> QED
        BY <3>3, <4>1, Zenon
    <3>4. CASE row' = row
      BY <3>4, <1>b
    <3> QED
      BY <3>1, <3>3, <3>4
  <2>4. slot' \in [Schedules -> Nat]
    BY <1>10, <2>1, <2>2 DEF MarkRun
  <2>5. /\ EndTurn(i) /\ stale' \in SUBSET Instances
        /\ UNCHANGED <<clock, edits, present, tick, due, started, history, alertVars, lost,
                       overwritten, patch>>
    BY <1>10, <1>d DEF MarkRun
  <2> QED
    BY <2>3, <2>4, <2>5 DEF EndTurn
<1>11. ASSUME NEW i \in Instances, Defer(i) PROVE TypeOK'
  <2>1. row' \in [Schedules -> RowType]
    <3>1. \/ row' = [row EXCEPT ![copy[i].id].nextRun = tick[i] + Lease]
          \/ row' = row
      BY <1>11 DEF Defer
    <3>2. copy[i].id \in Schedules
      BY <1>11, <1>c DEF Defer
    <3>3. \A next \in Nat : [row EXCEPT ![copy[i].id].nextRun = next] \in [Schedules -> RowType]
      BY <3>2, <1>b, RowUpdates, Zenon
    <3>4. CASE row' = [row EXCEPT ![copy[i].id].nextRun = tick[i] + Lease]
      BY <3>3, <3>4, <1>a, Zenon
    <3>5. CASE row' = row
      BY <3>5, <1>b
    <3> QED
      BY <3>1, <3>4, <3>5
  <2>2. /\ EndTurn(i) /\ stale' \in SUBSET Instances
        /\ UNCHANGED <<clock, edits, present, tick, due, started, history, alertVars, slot,
                       lost, overwritten, patch>>
    BY <1>11, <1>d DEF Defer
  <2> QED
    BY <2>1, <2>2 DEF EndTurn
<1>12. ASSUME NEW i \in Instances, Pause(i) PROVE TypeOK'
  <2>1. row' \in [Schedules -> RowType]
    <3>1. row' = [row EXCEPT ![copy[i].id].enabled = FALSE] \/ row' = row
      BY <1>12 DEF Pause
    <3>2. copy[i].id \in Schedules
      BY <1>12, <1>c DEF Pause
    <3>3. [row EXCEPT ![copy[i].id].enabled = FALSE] \in [Schedules -> RowType]
      BY <3>2, <1>b, RowUpdates, Zenon
    <3> QED
      BY <3>1, <3>3, <1>b, Zenon
  <2>2. EndTurn(i) /\ UNCHANGED <<clock, edits, present, tick, due, started, history,
                                  alertVars, slot, lost, overwritten, patch, stale>>
    BY <1>12 DEF Pause
  <2> QED
    BY <2>1, <2>2 DEF EndTurn
<1>13. ASSUME NEW i \in Instances, Crash(i) PROVE TypeOK'
  BY <1>13 DEF Crash
<1>14. ASSUME NEW i \in Instances, NEW s \in Schedules, NEW timing \in Timings,
              NEW enabled \in BOOLEAN, ReadForUpdate(i, s, timing, enabled)
       PROVE  TypeOK'
  <2>1. ComputeNextRun(timing, clock) \in Nat
    <3>1. clock \in Nat
      OBVIOUS
    <3> QED
      BY <3>1, NextRunIsLater
  <2>2. row[s].nextRun \in Nat /\ slot[s] \in Nat
    BY DEF RowType
  <2>3. PICK next \in Nat, time \in Nat :
           patch' = [patch EXCEPT ![i] = [id |-> s, timing |-> timing, enabled |-> enabled,
                                          nextRun |-> next, slot |-> time]]
    BY <1>14, <2>1, <2>2 DEF ReadForUpdate
  <2>4. [id |-> s, timing |-> timing, enabled |-> enabled, nextRun |-> next, slot |-> time] \in PatchType
    BY DEF PatchType
  <2>5. patch' \in [Instances -> PatchType \cup {NoPatch}]
    BY <2>3, <2>4
  <2>6. /\ edits' \in 0..MaxEdits /\ stale' \in SUBSET Instances
        /\ UNCHANGED <<clock, present, row, tickVars, got, started, history, alertVars, slot,
                       lost, overwritten>>
    BY <1>14 DEF ReadForUpdate
  <2> QED
    BY <2>5, <2>6
<1>20. ASSUME NEW i \in Instances, WriteBack(i) PROVE TypeOK'
  <2> DEFINE p == patch[i]
  <2>1. /\ p \in PatchType /\ p.id \in Schedules /\ p.slot \in Nat
        /\ patch' \in [Instances -> PatchType \cup {NoPatch}]
    BY <1>20 DEF WriteBack, PatchType
  <2>2. /\ row' \in [Schedules -> RowType] /\ slot' \in [Schedules -> Nat]
        /\ stale' \in SUBSET Instances /\ overwritten' \in SUBSET Schedules
    <3>1. CASE UNCHANGED <<row, slot, stale, overwritten>>
      BY <3>1
    <3>2. CASE /\ row' = [row EXCEPT ![p.id].timing = p.timing, ![p.id].enabled = p.enabled,
                                     ![p.id].nextRun = p.nextRun]
               /\ slot' = [slot EXCEPT ![p.id] = p.slot]
               /\ stale' = stale \cup Overtaken(p.id)
               /\ overwritten' \in {overwritten, overwritten \cup {p.id}}
      <4>1. row' \in [Schedules -> RowType]
        <5>1. \A q \in PatchType :
                 [row EXCEPT ![p.id].timing = q.timing, ![p.id].enabled = q.enabled,
                             ![p.id].nextRun = q.nextRun] \in [Schedules -> RowType]
          BY <2>1, <1>b, RowUpdates, Zenon
        <5> QED
          BY <5>1, <2>1, <3>2, Zenon
      <4> QED
        BY <4>1, <2>1, <3>2, <1>d
    <3> QED
      BY <1>20, <3>1, <3>2 DEF WriteBack
  <2>3. UNCHANGED <<clock, edits, present, tickVars, got, started, history, alertVars, lost>>
    BY <1>20 DEF WriteBack
  <2> QED
    BY <2>1, <2>2, <2>3
<1>15. ASSUME NEW s \in Schedules, DeleteSchedule(s) PROVE TypeOK'
  BY <1>15 DEF DeleteSchedule
<1>16. CASE Advance
  BY <1>16 DEF Advance
<1>17. ASSUME NEW j \in Scans, HandleEvent(j) PROVE TypeOK'
  <2>1. handled' \in [Scans -> 0..MaxCopies] /\ handled'[j] \in 1..MaxCopies
    BY <1>17 DEF HandleEvent
  <2>2. mailing' \in SUBSET AlertType
    BY <1>17, <2>1 DEF HandleEvent, ScheduleOf, AlertType
  <2>3. history' \in [Scans -> Schedules \cup {"absent", "unlinked"}]
    BY <1>17 DEF HandleEvent
  <2>4. UNCHANGED <<clock, edits, present, row, tickVars, got, started, mailed, slot, lost, overwritten, patch, stale>>
    BY <1>17 DEF HandleEvent
  <2> QED
    BY <2>1, <2>2, <2>3, <2>4
<1>18. ASSUME NEW m \in mailing, MailSent(m) \/ MailFails(m) PROVE TypeOK'
  <2>1. m \in AlertType /\ m.scan \in Scans
    BY DEF AlertType
  <2>2. row' \in [Schedules -> RowType]
    <3>1. row' = row \/ (/\ row' = [row EXCEPT ![m.schedule].lastAlert = m.scan]
                         /\ m.schedule \in Schedules)
      BY <1>18 DEF MailSent, MailFails
    <3>2. m.schedule \in Schedules =>
             [row EXCEPT ![m.schedule].lastAlert = m.scan] \in [Schedules -> RowType]
      BY <2>1, <1>b, RowUpdates, Zenon
    <3> QED
      BY <3>1, <3>2, <1>b, Zenon
  <2>3. /\ mailing' \in SUBSET AlertType /\ mailed' \in SUBSET AlertType
        /\ UNCHANGED <<clock, edits, present, tickVars, got, started, history, handled, slot,
                       lost, overwritten, patch, stale>>
    BY <1>18, <2>1 DEF MailSent, MailFails
  <2> QED
    BY <2>2, <2>3
<1>19. CASE UNCHANGED vars
  BY <1>19 DEF vars
<1> HIDE DEF TypeOK, tickVars, alertVars, patchVars
<1> QED
  BY <1>1, <1>2, <1>3, <1>4, <1>5, <1>6, <1>7, <1>8, <1>9, <1>10, <1>11, <1>12, <1>13,
     <1>14, <1>15, <1>16, <1>17, <1>18, <1>19, <1>20 DEF Next, Dispatch

\* The dispatcher's stages, the schedules and the scans stay of their types.
THEOREM SchedulerTypeCorrect == Spec => []TypeOK
  BY InitType, NextType, PTL DEF Spec

\* A step that begins no dispatch and leaves the lease of a held schedule alone.
LEMMA LeaseFrame ==
    ASSUME LeaseInvariant, TypeOK',
           overwritten \subseteq overwritten',
           \A i \in Instances :
              stage'[i] # "idle" => tick'[i] <= clock' /\ clock' <= tick'[i] + MaxTick,
           \A i \in Instances, s \in Schedules :
              Holds(i, s)' => Holds(i, s) /\ tick'[i] = tick[i],
           \A i \in Instances, s \in Schedules \ overwritten' :
              Holds(i, s)' => row'[s].nextRun = row[s].nextRun
    PROVE  LeaseInvariant'
<1>1. \A i \in Instances, s \in Schedules \ overwritten' :
         Holds(i, s)' => row'[s].nextRun = tick'[i] + Lease
  BY DEF LeaseInvariant
<1>2. OneHolder'
  BY DEF LeaseInvariant, OneHolder
<1> QED
  BY <1>1, <1>2 DEF LeaseInvariant

\* The lease of a schedule that is held is never taken over: it ends after the
\* tick that holds it, and only its holder writes the row.
LEMMA NextLease == LeaseInvariant /\ [Next]_vars => LeaseInvariant'
<1> SUFFICES ASSUME LeaseInvariant, [Next]_vars PROVE LeaseInvariant'
  OBVIOUS
<1> USE SchedulerAssumption
<1> USE DEF tickVars, alertVars, patchVars
<1>a. TypeOK
  BY DEF LeaseInvariant
<1>b. TypeOK'
  BY <1>a, NextType
<1>c. /\ row \in [Schedules -> RowType] /\ clock \in Nat
      /\ tick \in [Instances -> Nat]
      /\ stage \in [Instances -> Dispatching \cup {"idle", "loop", "claim"}]
      /\ copy \in [Instances -> CopyType \cup {NoCopy}]
      /\ \A i \in Instances : stage[i] \notin {"idle", "loop"} => copy[i].id \in Schedules
  BY <1>a DEF TypeOK, CopyType
<1>d. /\ \A i \in Instances :
            stage[i] # "idle" => tick[i] <= clock /\ clock <= tick[i] + MaxTick
      /\ \A i \in Instances, s \in Schedules \ overwritten :
            Holds(i, s) => row[s].nextRun = tick[i] + Lease
      /\ OneHolder
  BY DEF LeaseInvariant
<1>1. ASSUME NEW i \in Instances, ListDue(i) PROVE LeaseInvariant'
  <2>1. /\ stage[i] = "idle" /\ stage' = [stage EXCEPT ![i] = "loop"]
        /\ tick' = [tick EXCEPT ![i] = clock]
        /\ UNCHANGED <<clock, row, copy, overwritten>>
    BY <1>1 DEF ListDue
  <2>2. \A k \in Instances, s \in Schedules : Holds(k, s)' => Holds(k, s) /\ tick'[k] = tick[k]
    BY <2>1, <1>c DEF Holds, Dispatching
  <2> QED
    BY <1>b, <1>c, <1>d, <2>1, <2>2, LeaseFrame
<1>2. ASSUME NEW i \in Instances,
             \/ ReadSchedule(i) \/ OwnerNotInOrder(i) \/ LimitReached(i) \/ SendCreate(i)
             \/ Accept(i) \/ Refuse(i) \/ TimeOut(i) \/ GetReply(i) \/ RecordScan(i)
      PROVE  LeaseInvariant'
  <2>1. UNCHANGED <<clock, row, tick, overwritten>>
    BY <1>2 DEF ReadSchedule, OwnerNotInOrder, LimitReached, SendCreate, Accept, Refuse,
       TimeOut, GetReply, RecordScan
  <2>2. \A k \in Instances : stage'[k] # "idle" => stage[k] # "idle"
    BY <1>2, <1>c DEF ReadSchedule, OwnerNotInOrder, LimitReached, SendCreate, Accept, Refuse,
       TimeOut, GetReply, RecordScan
  <2>3. \A k \in Instances, s \in Schedules : Holds(k, s)' => Holds(k, s)
    <3>1. CASE ReadSchedule(i)
      <4>1. /\ stage[i] = "loop"
            /\ \/ /\ stage' = [stage EXCEPT ![i] = "claim"]
                  /\ \E c : copy' = [copy EXCEPT ![i] = c]
               \/ stage' = stage /\ copy' = copy
        BY <3>1 DEF ReadSchedule
      <4> QED
        BY <4>1, <1>c DEF Holds, Dispatching
    <3>2. CASE ~ReadSchedule(i)
      <4>1. /\ copy' = copy /\ stage[i] \in Dispatching
            /\ \E st : stage' = [stage EXCEPT ![i] = st]
        <5>1. CASE Accept(i)
          BY <5>1, <1>c DEF Accept, Dispatching, tickVars
        <5>2. CASE OwnerNotInOrder(i) \/ LimitReached(i) \/ SendCreate(i)
          BY <5>2 DEF OwnerNotInOrder, LimitReached, SendCreate, Dispatching
        <5>3. CASE Refuse(i) \/ TimeOut(i) \/ GetReply(i) \/ RecordScan(i)
          BY <5>3 DEF Refuse, TimeOut, GetReply, RecordScan, Dispatching
        <5> QED
          BY <1>2, <3>2, <5>1, <5>2, <5>3
      <4> QED
        BY <4>1, <1>c DEF Holds, Dispatching
    <3> QED
      BY <3>1, <3>2
  <2> QED
    BY <1>b, <1>c, <1>d, <2>1, <2>2, <2>3, LeaseFrame
<1>3. ASSUME NEW i \in Instances, EndTick(i) \/ Crash(i) PROVE LeaseInvariant'
  <2>1. /\ stage' = [stage EXCEPT ![i] = "idle"] /\ tick' = [tick EXCEPT ![i] = 0]
        /\ copy' \in {copy, [copy EXCEPT ![i] = NoCopy]}
        /\ UNCHANGED <<clock, row, overwritten>>
    BY <1>3 DEF EndTick, Crash
  <2>2. \A k \in Instances, s \in Schedules : Holds(k, s)' => Holds(k, s) /\ tick'[k] = tick[k]
    BY <2>1, <1>c DEF Holds, Dispatching
  <2>3. \A k \in Instances : stage'[k] # "idle" => stage[k] # "idle" /\ tick'[k] = tick[k]
    BY <2>1, <1>c
  <2> QED
    BY <1>b, <1>c, <1>d, <2>1, <2>2, <2>3, LeaseFrame
<1>4. ASSUME NEW i \in Instances, MarkRun(i) \/ Defer(i) \/ Pause(i) PROVE LeaseInvariant'
  <2>1. /\ stage[i] \in Dispatching /\ EndTurn(i)
        /\ UNCHANGED <<clock, tick, overwritten>>
    BY <1>4 DEF MarkRun, Defer, Pause, Dispatching
  <2>2. \A k \in Instances, s \in Schedules : Holds(k, s)' => Holds(k, s) /\ k # i
    BY <2>1, <1>c DEF EndTurn, Holds, Dispatching
  <2>3. \A k \in Instances : stage'[k] # "idle" => stage[k] # "idle"
    BY <2>1, <1>c DEF EndTurn, Dispatching
  <2>4. \A s \in Schedules : s # copy[i].id => row'[s] = row[s]
    BY <1>4, <1>c DEF MarkRun, Defer, Pause, RowType
  <2>5. \A k \in Instances, s \in Schedules \ overwritten : Holds(k, s)' => s # copy[i].id
    BY <2>1, <2>2, <1>d DEF Holds, OneHolder
  <2> QED
    BY <1>b, <1>c, <1>d, <2>1, <2>2, <2>3, <2>4, <2>5, LeaseFrame
<1>5. ASSUME NEW i \in Instances, Claim(i) PROVE LeaseInvariant'
  <2> DEFINE s == copy[i].id
  <2>1. /\ stage[i] = "claim" /\ s \in Schedules
        /\ UNCHANGED <<clock, tick, overwritten>>
    BY <1>5, <1>c DEF Claim
  <2>2. CASE ~MayClaim(i, s)
    <3>1. /\ stage' = [stage EXCEPT ![i] = "loop"] /\ copy' = [copy EXCEPT ![i] = NoCopy]
          /\ row' = row
      BY <1>5, <2>2 DEF Claim
    <3>2. /\ \A k \in Instances, u \in Schedules : Holds(k, u)' => Holds(k, u)
          /\ \A k \in Instances : stage'[k] # "idle" => stage[k] # "idle"
      BY <2>1, <3>1, <1>c DEF Holds, Dispatching
    <3> QED
      BY <1>b, <1>c, <1>d, <2>1, <3>1, <3>2, LeaseFrame
  <2>3. CASE MayClaim(i, s)
    <3>1. /\ stage' = [stage EXCEPT ![i] = "check"] /\ copy' = copy
          /\ row' = [row EXCEPT ![s].nextRun = tick[i] + Lease]
          /\ row[s].nextRun <= tick[i]
      BY <1>5, <2>3 DEF Claim, MayClaim, IsDue
    <3>2. /\ row'[s].nextRun = tick[i] + Lease
          /\ \A u \in Schedules : u # s => row'[u] = row[u]
      BY <2>1, <3>1, <1>c DEF RowType
    <3>3. \A k \in Instances, u \in Schedules : Holds(k, u)' <=> Holds(k, u) \/ (k = i /\ u = s)
      BY <2>1, <3>1, <1>c DEF Holds, Dispatching
    <3>4. s \notin overwritten => \A k \in Instances : ~Holds(k, s)
      <4> SUFFICES ASSUME s \notin overwritten, NEW k \in Instances, Holds(k, s) PROVE FALSE
        OBVIOUS
      <4>1. row[s].nextRun = tick[k] + Lease
        BY <2>1, <1>d
      <4>2. clock <= tick[k] + MaxTick /\ tick[i] <= clock
        BY <2>1, <1>d DEF Holds, Dispatching
      <4> QED
        BY <3>1, <4>1, <4>2, <1>c
    <3>5. \A k \in Instances : stage'[k] # "idle" => stage[k] # "idle"
      BY <2>1, <3>1, <1>c
    <3>6. \A k \in Instances, u \in Schedules \ overwritten :
             Holds(k, u)' => row'[u].nextRun = tick[k] + Lease
      BY <3>2, <3>3, <3>4, <1>d
    <3>7. OneHolder'
      BY <2>1, <3>3, <3>4, <1>d DEF OneHolder
    <3> QED
      BY <1>b, <1>d, <2>1, <3>5, <3>6, <3>7 DEF LeaseInvariant
  <2> QED
    BY <2>2, <2>3
<1>6. ASSUME NEW i \in Instances, WriteBack(i) PROVE LeaseInvariant'
  <2> DEFINE p == patch[i]
  <2>1. UNCHANGED <<clock, stage, tick, copy>> /\ overwritten \subseteq overwritten'
    BY <1>6 DEF WriteBack
  <2>2. \A k \in Instances, u \in Schedules : Holds(k, u)' <=> Holds(k, u)
    BY <2>1 DEF Holds
  <2>3. CASE row' = row
    BY <1>b, <1>d, <2>1, <2>2, <2>3, LeaseFrame
  <2>4. CASE row' # row
    <3>1. /\ row' = [row EXCEPT ![p.id].timing = p.timing, ![p.id].enabled = p.enabled,
                               ![p.id].nextRun = p.nextRun]
          /\ p.id \notin overwritten' => ~(Held(p.id) /\ Retimes(p))
      BY <1>6, <2>4 DEF WriteBack
    <3>2. \A u \in Schedules : row'[u].nextRun = IF u = p.id THEN p.nextRun ELSE row[u].nextRun
      BY <3>1, <1>c DEF RowType
    <3>3. \A k \in Instances, u \in Schedules \ overwritten' :
             Holds(k, u)' => row'[u].nextRun = row[u].nextRun
      BY <2>2, <3>1, <3>2 DEF Held, Retimes
    <3> QED
      BY <1>b, <1>d, <2>1, <2>2, <3>3, LeaseFrame
  <2> QED
    BY <2>3, <2>4
<1>7. CASE Advance
  <2>1. /\ UNCHANGED <<row, stage, tick, copy, overwritten>> /\ clock' = clock + 1
        /\ \A i \in Instances : stage[i] # "idle" => clock < tick[i] + MaxTick
    BY <1>7 DEF Advance
  <2>2. \A k \in Instances, u \in Schedules : Holds(k, u)' <=> Holds(k, u)
    BY <2>1 DEF Holds
  <2>3. \A k \in Instances : stage'[k] # "idle" => tick'[k] <= clock' /\ clock' <= tick'[k] + MaxTick
    BY <2>1, <1>c, <1>d
  <2> QED
    BY <1>b, <2>1, <2>2, <2>3, LeaseFrame
<1>8. ASSUME \/ \E s \in Schedules : DeleteSchedule(s)
             \/ \E i \in Instances, s \in Schedules, timing \in Timings, enabled \in BOOLEAN :
                   ReadForUpdate(i, s, timing, enabled)
             \/ \E j \in Scans : HandleEvent(j)
             \/ \E m \in mailing : MailFails(m)
             \/ UNCHANGED vars
      PROVE  LeaseInvariant'
  <2>1. UNCHANGED <<clock, row, stage, tick, copy, overwritten>>
    BY <1>8 DEF DeleteSchedule, ReadForUpdate, HandleEvent, MailFails, vars
  <2>2. \A k \in Instances, u \in Schedules : Holds(k, u)' <=> Holds(k, u)
    BY <2>1 DEF Holds
  <2> QED
    BY <1>b, <1>d, <2>1, <2>2, LeaseFrame
<1>9. ASSUME NEW m \in mailing, MailSent(m) PROVE LeaseInvariant'
  <2>1. UNCHANGED <<clock, stage, tick, copy, overwritten>>
    BY <1>9 DEF MailSent
  <2>2. \A k \in Instances, u \in Schedules : Holds(k, u)' <=> Holds(k, u)
    BY <2>1 DEF Holds
  <2>3. \A u \in Schedules : row'[u].nextRun = row[u].nextRun
    BY <1>9, <1>c DEF MailSent, RowType
  <2> QED
    BY <1>b, <1>d, <2>1, <2>2, <2>3, LeaseFrame
<1> QED
  BY <1>1, <1>2, <1>3, <1>4, <1>5, <1>6, <1>7, <1>8, <1>9 DEF Next, Dispatch

\* No two instances dispatch a schedule at a time, however many there are, unless
\* its owner sets a new time during a dispatch: the conditional update and a lease
\* longer than a tick suffice.
THEOREM HoldersAreAlone == Spec => []OneHolder
<1>1. Init => LeaseInvariant
  BY InitType DEF Init, LeaseInvariant, OneHolder, Holds, Dispatching
<1>2. LeaseInvariant => OneHolder
  BY DEF LeaseInvariant
<1> QED
  BY <1>1, <1>2, NextLease, PTL DEF Spec

\* Only a claim begins a dispatch.
LEMMA OnlyClaimsBegin ==
    ASSUME TypeOK, [Next]_vars, \A i \in Instances : ~Claim(i)
    PROVE  \A i \in Instances, s \in Schedules : Holds(i, s)' => Holds(i, s)
<1> DEFINE Begins == \E i \in Instances, s \in Schedules : Holds(i, s)' /\ ~Holds(i, s)
<1>a. /\ stage \in [Instances -> Dispatching \cup {"idle", "loop", "claim"}]
      /\ copy \in [Instances -> CopyType \cup {NoCopy}]
  BY DEF TypeOK
<1>1. ASSUME NEW i \in Instances,
             \/ ListDue(i) \/ ReadSchedule(i) \/ EndTick(i) \/ Crash(i)
             \/ OwnerNotInOrder(i) \/ LimitReached(i) \/ SendCreate(i) \/ Refuse(i)
      PROVE  ~Begins
  BY <1>1, <1>a DEF ListDue, ReadSchedule, EndTick, Crash, OwnerNotInOrder, LimitReached,
     SendCreate, Refuse, Holds, Dispatching
<1>2. ASSUME NEW i \in Instances,
             \/ Accept(i) \/ TimeOut(i) \/ GetReply(i) \/ RecordScan(i)
             \/ MarkRun(i) \/ Defer(i) \/ Pause(i)
      PROVE  ~Begins
  BY <1>2, <1>a DEF Accept, TimeOut, GetReply, RecordScan, MarkRun, Defer, Pause, EndTurn,
     Holds, Dispatching, tickVars
<1>3. ASSUME \/ \E s \in Schedules : DeleteSchedule(s)
             \/ \E i \in Instances, s \in Schedules, timing \in Timings, enabled \in BOOLEAN :
                   ReadForUpdate(i, s, timing, enabled)
             \/ \E i \in Instances : WriteBack(i)
             \/ Advance
             \/ \E j \in Scans : HandleEvent(j)
             \/ \E m \in mailing : MailSent(m) \/ MailFails(m)
             \/ UNCHANGED vars
      PROVE  ~Begins
  BY <1>3 DEF DeleteSchedule, ReadForUpdate, WriteBack, Advance, HandleEvent, MailSent, MailFails,
     vars, tickVars, Holds
<1> QED
  BY <1>1, <1>2, <1>3 DEF Next, Dispatch

\* One step does not begin to dispatch what is paused or deleted.
LEMMA QuietStep ==
    ASSUME TypeOK, [Next]_vars, NEW s \in Schedules,
           ~(s \in present /\ row[s].enabled), ~Held(s)
    PROVE  ~Held(s)'
<1> SUFFICES ASSUME NEW i \in Instances, Holds(i, s)'
             PROVE  FALSE
  BY DEF Held
<1>1. ASSUME NEW k \in Instances, Claim(k) PROVE FALSE
  BY <1>1 DEF TypeOK, Claim, MayClaim, IsDue, Held, Holds, Dispatching
<1> QED
  BY <1>1, OnlyClaimsBegin DEF Held

\* What is paused or deleted while nobody dispatches it is dispatched by nobody.
THEOREM PausedNeverStarts == Spec => PausedStaysQuiet
<1>1. TypeOK /\ [Next]_vars =>
         \A s \in Schedules : ~(s \in present /\ row[s].enabled) /\ ~Held(s) => ~Held(s)'
  BY QuietStep
<1> QED
  BY <1>1, SchedulerTypeCorrect, PTL DEF Spec, PausedStaysQuiet

\* A deleted schedule that nobody dispatches stays so.
LEMMA DeletedStaysQuiet ==
    ASSUME TypeOK, [Next]_vars, NEW s \in Schedules, s \notin present, ~Held(s)
    PROVE  s \notin present' /\ ~Held(s)'
<1>1. present' \subseteq present
  <2> USE DEF tickVars, alertVars, patchVars
  <2>1. ASSUME NEW i \in Instances, Dispatch(i) PROVE present' = present
    BY <2>1 DEF Dispatch, ListDue, ReadSchedule, EndTick, Claim, OwnerNotInOrder, LimitReached,
       SendCreate, TimeOut, GetReply, RecordScan, MarkRun, Defer, Pause
  <2>2. ASSUME NEW i \in Instances,
               \/ Accept(i) \/ Refuse(i) \/ Crash(i) \/ WriteBack(i)
               \/ \E u \in Schedules, timing \in Timings, enabled \in BOOLEAN :
                     ReadForUpdate(i, u, timing, enabled)
        PROVE  present' = present
    BY <2>2 DEF Accept, Refuse, Crash, WriteBack, ReadForUpdate
  <2>3. ASSUME \/ \E u \in Schedules : DeleteSchedule(u)
               \/ Advance
               \/ \E j \in Scans : HandleEvent(j)
               \/ \E m \in mailing : MailSent(m) \/ MailFails(m)
               \/ UNCHANGED vars
        PROVE  present' \subseteq present
    BY <2>3 DEF DeleteSchedule, Advance, HandleEvent, MailSent, MailFails, vars
  <2> QED
    BY <2>1, <2>2, <2>3 DEF Next
<1> QED
  BY <1>1, QuietStep

\* A step that starts no scan: regular times do not shrink, a holder stays beyond
\* the regular time, and a scan started for a time that stays keeps its holder.
LEMMA SlotFrame ==
    ASSUME SlotInvariant, LeaseInvariant', [Next]_vars,
           started' = started, lost \subseteq lost', overwritten \subseteq overwritten', clock <= clock',
           \A s \in Schedules \ overwritten' :
              /\ slot[s] <= slot'[s]
              /\ slot'[s] <= row'[s].nextRun
              /\ \A i \in Instances : Holds(i, s)' => slot'[s] <= tick'[i],
           \A s \in Schedules \ overwritten', i \in Instances :
              slot'[s] = slot[s] /\ Holds(i, s) /\ got[i] # NoScan =>
                 \/ Holds(i, s)' /\ got'[i] = got[i]
                 \/ got[i] \in lost'
                 \/ s \notin present' /\ ~Held(s)'
    PROVE  SlotInvariant'
<1>a. TypeOK /\ TypeOK'
  BY DEF SlotInvariant, LeaseInvariant
<1>b. /\ clock \in Nat /\ clock' \in Nat
      /\ slot \in [Schedules -> Nat] /\ slot' \in [Schedules -> Nat]
      /\ \A j \in 1..Len(started) : started[j].schedule \in Schedules /\ started[j].slot \in Nat
  <2>1. \A j \in 1..Len(started) : started[j].schedule \in Schedules /\ started[j].slot \in Nat
    BY <1>a, StartedTypes
  <2>2. clock \in Nat /\ clock' \in Nat
    BY <1>a, SchedulerAssumption DEF TypeOK
  <2>3. slot \in [Schedules -> Nat] /\ slot' \in [Schedules -> Nat]
    BY <1>a DEF TypeOK
  <2> QED
    BY <2>1, <2>2, <2>3
<1>1. ASSUME NEW j \in 1..Len(started), started[j].schedule \notin overwritten'
      PROVE  LET s == started[j].schedule
             IN  /\ started[j].slot <= slot'[s]
                 /\ started[j].slot <= clock'
                 /\ started[j].slot = slot'[s] /\ j \notin lost' =>
                       \/ \E i \in Instances : Holds(i, s)' /\ got'[i] = j
                       \/ s \notin present' /\ ~Held(s)'
  <2> DEFINE s == started[j].schedule
  <2>1. /\ s \in Schedules \ overwritten' /\ s \notin overwritten
        /\ started[j].slot <= slot[s] /\ started[j].slot <= clock
        /\ started[j].slot = slot[s] /\ j \notin lost =>
              \/ \E i \in Instances : Holds(i, s) /\ got[i] = j
              \/ s \notin present /\ ~Held(s)
    BY <1>1, <1>b DEF SlotInvariant
  <2>2. slot[s] <= slot'[s] /\ slot[s] \in Nat /\ slot'[s] \in Nat /\ started[j].slot \in Nat
    BY <2>1, <1>b
  <2>3. started[j].slot <= slot'[s] /\ started[j].slot <= clock'
    BY <2>1, <2>2, <1>b
  <2>4. ASSUME started[j].slot = slot'[s], j \notin lost'
        PROVE  \/ \E i \in Instances : Holds(i, s)' /\ got'[i] = j
               \/ s \notin present' /\ ~Held(s)'
    <3>1. started[j].slot = slot[s] /\ slot'[s] = slot[s] /\ j \notin lost
      BY <2>1, <2>2, <2>4
    <3>2. CASE \E i \in Instances : Holds(i, s) /\ got[i] = j
      BY <2>1, <2>4, <3>1, <3>2 DEF NoScan
    <3>3. CASE s \notin present /\ ~Held(s)
      BY <1>a, <2>1, <3>3, DeletedStaysQuiet
    <3> QED
      BY <2>1, <3>1, <3>2, <3>3
  <2> QED
    BY <2>3, <2>4
<1>2. OneScanPerSlot'
  BY DEF SlotInvariant, OneScanPerSlot
<1> QED
  BY <1>1, <1>2 DEF SlotInvariant

\* A step that leaves the row of every patch that is not overtaken alone, begins no
\* dispatch of its schedule, and starts a scan of it only for a holder.
LEMMA PatchFrame ==
    ASSUME TypeOK, TypeOK', PatchInvariant, overwritten \subseteq overwritten',
           \A k \in Instances \ stale' : patch'[k] # NoPatch =>
              /\ k \notin stale /\ patch'[k] = patch[k]
              /\ patch[k].id \notin overwritten' =>
                    /\ row'[patch[k].id].nextRun = row[patch[k].id].nextRun
                    /\ slot'[patch[k].id] = slot[patch[k].id]
                    /\ \A i \in Instances :
                          Holds(i, patch[k].id)' => Holds(i, patch[k].id) /\ tick'[i] = tick[i]
                    /\ \A j \in 1..Len(started') :
                          started'[j].schedule = patch[k].id =>
                             \/ j \in 1..Len(started) /\ started'[j] = started[j]
                             \/ \E i \in Instances :
                                   Holds(i, patch[k].id) /\ started'[j].slot <= tick[i]
    PROVE  PatchInvariant'
<1> SUFFICES ASSUME NEW k \in Instances \ stale', patch'[k] # NoPatch,
                    patch'[k].id \notin overwritten', Retimes(patch[k])
             PROVE  /\ patch[k].nextRun = patch[k].slot
                    /\ \A i \in Instances : Holds(i, patch[k].id)' => tick'[i] < patch[k].slot
                    /\ \A j \in 1..Len(started') :
                          started'[j].schedule = patch[k].id => started'[j].slot < patch[k].slot
  BY DEF PatchInvariant, Retimes
<1> DEFINE p == patch[k]
<1>1. /\ k \notin stale /\ patch'[k] = p /\ p # NoPatch
      /\ p.id \notin overwritten' /\ p.id \notin overwritten
  OBVIOUS
<1>2. p.slot \in Nat /\ p.id \in Schedules
  BY <1>1 DEF TypeOK, PatchType
<1>3. /\ p.nextRun = p.slot
      /\ \A i \in Instances : Holds(i, p.id) => tick[i] < p.slot
      /\ \A j \in 1..Len(started) : started[j].schedule = p.id => started[j].slot < p.slot
  BY <1>1 DEF PatchInvariant
<1>4. \A i \in Instances : tick[i] \in Nat
  BY SchedulerAssumption DEF TypeOK
<1>5. \A j \in 1..Len(started') : started'[j].slot \in Nat
  <2>1. started' \in Seq([schedule : Schedules, slot : Nat])
    BY DEF TypeOK
  <2>2. \A j \in 1..Len(started') : started'[j] \in [schedule : Schedules, slot : Nat]
    BY <2>1, SeqElement
  <2> QED
    BY <2>2
<1>6. \A i \in Instances : Holds(i, p.id)' => tick'[i] < p.slot
  BY <1>1, <1>3
<1>7. ASSUME NEW j \in 1..Len(started'), started'[j].schedule = p.id
      PROVE  started'[j].slot < p.slot
  <2>1. CASE j \in 1..Len(started) /\ started'[j] = started[j]
    BY <2>1, <1>3, <1>7
  <2>2. ASSUME NEW i \in Instances, Holds(i, p.id), started'[j].slot <= tick[i]
        PROVE  started'[j].slot < p.slot
    BY <2>2, <1>2, <1>3, <1>4, <1>5
  <2> QED
    BY <1>1, <1>7, <2>1, <2>2
<1> QED
  BY <1>3, <1>6, <1>7

\* Whoever writes the times of a row overtakes the patches that read it before.
LEMMA NextPatch == SlotInvariant /\ PatchInvariant /\ [Next]_vars => PatchInvariant'
<1> SUFFICES ASSUME SlotInvariant, PatchInvariant, [Next]_vars PROVE PatchInvariant'
  OBVIOUS
<1> USE DEF tickVars, alertVars, patchVars
<1>a. TypeOK /\ TypeOK'
  BY NextType DEF SlotInvariant, LeaseInvariant
<1>b. /\ row \in [Schedules -> RowType] /\ slot \in [Schedules -> Nat] /\ clock \in Nat
      /\ tick \in [Instances -> Nat]
      /\ stage \in [Instances -> Dispatching \cup {"idle", "loop", "claim"}]
      /\ copy \in [Instances -> CopyType \cup {NoCopy}]
      /\ patch \in [Instances -> PatchType \cup {NoPatch}]
      /\ \A i \in Instances : stage[i] \notin {"idle", "loop"} => copy[i].id \in Schedules
      /\ \A i \in Instances : patch[i] # NoPatch => patch[i].id \in Schedules
  BY <1>a, SchedulerAssumption DEF TypeOK, CopyType, PatchType
<1>1. ASSUME NEW i \in Instances,
             \/ ListDue(i) \/ ReadSchedule(i) \/ EndTick(i) \/ OwnerNotInOrder(i)
             \/ LimitReached(i) \/ SendCreate(i) \/ Refuse(i) \/ TimeOut(i) \/ GetReply(i)
             \/ RecordScan(i) \/ Pause(i) \/ Crash(i)
      PROVE  PatchInvariant'
  <2>1. /\ UNCHANGED <<started, slot, stale, overwritten>>
        /\ \A k \in Instances : patch'[k] # NoPatch => patch'[k] = patch[k]
    BY <1>1, <1>b DEF ListDue, ReadSchedule, EndTick, OwnerNotInOrder, LimitReached, SendCreate,
       Refuse, TimeOut, GetReply, RecordScan, Pause, Crash
  <2>2. \A u \in Schedules : row'[u].nextRun = row[u].nextRun
    <3>1. \/ row' = row \/ Pause(i)
      BY <1>1 DEF ListDue, ReadSchedule, EndTick, OwnerNotInOrder, LimitReached, SendCreate,
         Refuse, TimeOut, GetReply, RecordScan, Crash
    <3>2. CASE Pause(i)
      BY <3>2, <1>b DEF Pause, RowType
    <3> QED
      BY <3>1, <3>2
  <2>3. \A k \in Instances, u \in Schedules : Holds(k, u)' => Holds(k, u) /\ tick'[k] = tick[k]
    <3>1. CASE ListDue(i) \/ ReadSchedule(i) \/ EndTick(i) \/ Crash(i)
      BY <3>1, <1>b DEF ListDue, ReadSchedule, EndTick, Crash, Holds, Dispatching
    <3>2. CASE \/ OwnerNotInOrder(i) \/ LimitReached(i) \/ SendCreate(i) \/ Refuse(i) \/ TimeOut(i)
               \/ GetReply(i) \/ RecordScan(i) \/ Pause(i)
      BY <3>2, <1>b DEF OwnerNotInOrder, LimitReached, SendCreate, Refuse, TimeOut, GetReply,
         RecordScan, Pause, EndTurn, Holds, Dispatching
    <3> QED
      BY <1>1, <3>1, <3>2
  <2> QED
    BY <1>a, <1>b, <2>1, <2>2, <2>3, PatchFrame
<1>2. ASSUME NEW i \in Instances, Claim(i) \/ MarkRun(i) \/ Defer(i) PROVE PatchInvariant'
  <2>0. PICK u \in Schedules : u = copy[i].id
    BY <1>2, <1>b DEF Claim, MarkRun, Defer
  <2>1. UNCHANGED <<tick, started, overwritten, patch>> /\ stale \subseteq stale'
    BY <1>2 DEF Claim, MarkRun, Defer
  <2>2. \/ \A k \in Instances : patch[k].id = u => k \in stale'
        \/ UNCHANGED <<row, slot>> /\ \A k \in Instances, s \in Schedules : Holds(k, s)' => Holds(k, s)
    BY <1>2, <2>0, <1>b DEF Claim, MarkRun, Defer, Overtaken, Holds, Dispatching
  <2>3. \A s \in Schedules \ {u} :
           /\ row'[s] = row[s] /\ slot'[s] = slot[s]
           /\ \A k \in Instances : Holds(k, s)' => Holds(k, s)
    BY <1>2, <2>0, <1>b DEF Claim, MarkRun, Defer, EndTurn, RowType, Holds, Dispatching
  <2> QED
    BY <1>a, <1>b, <2>1, <2>2, <2>3, PatchFrame
<1>3. ASSUME NEW i \in Instances, Accept(i) PROVE PatchInvariant'
  <2>0. PICK u \in Schedules : u = copy[i].id
    BY <1>3, <1>b DEF Accept
  <2> DEFINE scan == [schedule |-> u, slot |-> slot[u]]
  <2>1. /\ UNCHANGED <<row, slot, stage, tick, copy, patch, stale, overwritten>>
        /\ started' = Append(started, scan) /\ Holds(i, u)
    BY <1>3, <2>0 DEF Accept, Holds, Dispatching
  <2>2. /\ Len(started) \in Nat /\ Len(started') = Len(started) + 1
        /\ started'[Len(started) + 1] = scan
        /\ \A j \in 1..Len(started) : started'[j] = started[j]
    <3>1. started \in Seq([schedule : Schedules, slot : Nat])
      BY <1>a DEF TypeOK
    <3>2. scan \in [schedule : Schedules, slot : Nat]
      BY <1>b
    <3> QED
      BY <2>1, <3>1, <3>2, SeqAppend
  <2>3. u \notin overwritten => slot[u] <= tick[i]
    BY <2>1 DEF SlotInvariant
  <2>4. \A k \in Instances, s \in Schedules : Holds(k, s)' <=> Holds(k, s)
    BY <2>1 DEF Holds
  <2>5. ASSUME NEW j \in 1..Len(started'), started'[j].schedule \notin overwritten
        PROVE  \/ j \in 1..Len(started) /\ started'[j] = started[j]
               \/ Holds(i, started'[j].schedule) /\ started'[j].slot <= tick[i]
    <3>1. CASE j \in 1..Len(started)
      BY <2>2, <3>1
    <3>2. CASE j = Len(started) + 1
      BY <2>1, <2>2, <2>3, <2>5, <3>2
    <3> QED
      BY <2>2, <3>1, <3>2
  <2> QED
    BY <1>a, <1>b, <2>1, <2>4, <2>5, PatchFrame
<1>4. ASSUME NEW i \in Instances, WriteBack(i) PROVE PatchInvariant'
  <2> DEFINE p == patch[i]
  <2>1. /\ UNCHANGED <<tick, stage, copy, started>>
        /\ stale \subseteq stale' /\ overwritten \subseteq overwritten'
        /\ \A k \in Instances : patch'[k] # NoPatch => patch'[k] = patch[k]
    BY <1>4, <1>b DEF WriteBack
  <2>2. \A k \in Instances, s \in Schedules : Holds(k, s)' <=> Holds(k, s)
    BY <2>1 DEF Holds
  <2>3. /\ p.id \in Schedules
        /\ \/ UNCHANGED <<row, slot>>
           \/ \A k \in Instances : patch[k].id = p.id => k \in stale'
    BY <1>4, <1>b DEF WriteBack, Overtaken
  <2>4. \A s \in Schedules \ {p.id} : row'[s] = row[s] /\ slot'[s] = slot[s]
    BY <1>4, <1>b, <2>3 DEF WriteBack, RowType
  <2> QED
    BY <1>a, <1>b, <2>1, <2>2, <2>3, <2>4, PatchFrame
<1>5. ASSUME NEW i \in Instances, NEW s \in Schedules, NEW timing \in Timings,
             NEW enabled \in BOOLEAN, ReadForUpdate(i, s, timing, enabled)
      PROVE  PatchInvariant'
  <2>1. /\ UNCHANGED <<row, slot, stage, tick, copy, started, overwritten>>
        /\ stale' = stale \ {i}
        /\ \A k \in Instances \ {i} : patch'[k] = patch[k]
    BY <1>5, <1>b DEF ReadForUpdate
  <2>3. PICK q \in PatchType :
           /\ patch'[i] = q /\ q.id = s
           /\ \/ q.nextRun = row[s].nextRun /\ q.slot = slot[s]
              \/ q.nextRun = ComputeNextRun(timing, clock) /\ q.slot = ComputeNextRun(timing, clock)
    <3>1. patch'[i] \in PatchType
      BY <1>a, <1>5, <1>b DEF ReadForUpdate, TypeOK, NoPatch
    <3>2. /\ patch'[i].id = s
          /\ \/ patch'[i].nextRun = row[s].nextRun /\ patch'[i].slot = slot[s]
             \/ /\ patch'[i].nextRun = ComputeNextRun(timing, clock)
                /\ patch'[i].slot = ComputeNextRun(timing, clock)
      BY <1>5, <1>b DEF ReadForUpdate
    <3> QED
      BY <3>1, <3>2
  <2>4. ComputeNextRun(timing, clock) \in Nat /\ ComputeNextRun(timing, clock) > clock
    BY <1>b, NextRunIsLater
  <2>5. ASSUME q.nextRun = ComputeNextRun(timing, clock), q.slot = ComputeNextRun(timing, clock),
               s \notin overwritten
        PROVE  /\ \A k \in Instances : Holds(k, s) => tick[k] < q.slot
               /\ \A j \in 1..Len(started) : started[j].schedule = s => started[j].slot < q.slot
    <3>1. ASSUME NEW k \in Instances, Holds(k, s) PROVE tick[k] < q.slot
      <4>1. tick[k] <= clock /\ tick[k] \in Nat
        BY <1>b, <3>1 DEF SlotInvariant, LeaseInvariant, Holds, Dispatching
      <4> QED
        BY <1>b, <2>4, <2>5, <4>1
    <3>2. ASSUME NEW j \in 1..Len(started), started[j].schedule = s PROVE started[j].slot < q.slot
      <4>1. started[j].slot <= clock /\ started[j].slot \in Nat
        BY <1>a, <2>5, <3>2, StartedTypes DEF SlotInvariant
      <4> QED
        BY <1>b, <2>4, <2>5, <4>1
    <3> QED
      BY <3>1, <3>2
  <2>6. ASSUME NEW k \in Instances \ stale', patch'[k] # NoPatch,
               patch'[k].id \notin overwritten', Retimes(patch'[k])
        PROVE  LET p == patch'[k]
               IN  /\ p.nextRun = p.slot
                   /\ \A n \in Instances : Holds(n, p.id) => tick[n] < p.slot
                   /\ \A j \in 1..Len(started) : started[j].schedule = p.id => started[j].slot < p.slot
    <3>1. CASE k = i
      <4>1. q.nextRun = ComputeNextRun(timing, clock) /\ q.slot = ComputeNextRun(timing, clock)
        BY <2>3, <2>6, <3>1 DEF Retimes
      <4> QED
        BY <2>1, <2>3, <2>5, <2>6, <3>1, <4>1
    <3>2. CASE k # i
      <4>1. /\ patch'[k] = patch[k] /\ k \in Instances \ stale
            /\ patch[k].id \notin overwritten /\ Retimes(patch[k])
        BY <2>1, <2>6, <3>2
      <4> QED
        BY <2>6, <4>1 DEF PatchInvariant
    <3> QED
      BY <3>1, <3>2
  <2> QED
    BY <2>1, <2>6 DEF PatchInvariant, Retimes, Holds
<1>6. ASSUME \/ Advance
             \/ \E s \in Schedules : DeleteSchedule(s)
             \/ \E j \in Scans : HandleEvent(j)
             \/ \E m \in mailing : MailSent(m) \/ MailFails(m)
             \/ UNCHANGED vars
      PROVE  PatchInvariant'
  <2>1. UNCHANGED <<stage, tick, copy, slot, started, overwritten, patch, stale>>
    BY <1>6 DEF Advance, DeleteSchedule, HandleEvent, MailSent, MailFails, vars
  <2>2. \A k \in Instances, u \in Schedules : Holds(k, u)' <=> Holds(k, u)
    BY <2>1 DEF Holds
  <2>3. \A u \in Schedules : row'[u].nextRun = row[u].nextRun
    <3>1. ASSUME NEW m \in mailing, MailSent(m)
          PROVE  \A u \in Schedules : row'[u].nextRun = row[u].nextRun
      BY <3>1, <1>b DEF MailSent, RowType
    <3>2. ~(\E m \in mailing : MailSent(m)) => row' = row
      BY <1>6 DEF Advance, DeleteSchedule, HandleEvent, MailFails, vars
    <3> QED
      BY <3>1, <3>2
  <2> QED
    BY <1>a, <1>b, <2>1, <2>2, <2>3, PatchFrame
<1> QED
  BY <1>1, <1>2, <1>3, <1>4, <1>5, <1>6 DEF Next, Dispatch

\* A scan is started for a regular time that has come, and the next one that is
\* set lies later: that is how a time is not served twice.
LEMMA NextSlot == SlotInvariant /\ PatchInvariant /\ [Next]_vars => SlotInvariant'
<1> SUFFICES ASSUME SlotInvariant, PatchInvariant, [Next]_vars PROVE SlotInvariant'
  OBVIOUS
<1> USE DEF tickVars, alertVars, patchVars
<1>a. LeaseInvariant /\ LeaseInvariant'
  BY NextLease DEF SlotInvariant
<1>b. TypeOK /\ TypeOK'
  BY <1>a DEF LeaseInvariant
<1>c. /\ row \in [Schedules -> RowType] /\ slot \in [Schedules -> Nat]
      /\ got \in [Instances -> Scans \cup {NoScan}]
      /\ stage \in [Instances -> Dispatching \cup {"idle", "loop", "claim"}]
      /\ copy \in [Instances -> CopyType \cup {NoCopy}]
      /\ \A i \in Instances : stage[i] \notin {"idle", "loop"} => copy[i] \in CopyType
      /\ \A i \in Instances : stage[i] \notin {"posted", "record", "mark"} => got[i] = NoScan
  BY <1>b DEF TypeOK
<1>d. /\ clock \in Nat /\ tick \in [Instances -> Nat] /\ Lease \in Nat
      /\ \A i \in Instances : tick[i] + Lease \in Nat /\ tick[i] <= tick[i] + Lease
  BY <1>b, SchedulerAssumption DEF TypeOK
<1>e. /\ \A s \in Schedules \ overwritten :
            /\ slot[s] <= row[s].nextRun
            /\ \A i \in Instances : Holds(i, s) => slot[s] <= tick[i]
      /\ OneHolder
      /\ \A s \in Schedules : slot[s] \in Nat /\ slot[s] <= slot[s]
  BY <1>a, <1>c DEF SlotInvariant, LeaseInvariant
<1>1. ASSUME UNCHANGED <<slot, started, lost, overwritten, got>>, clock <= clock',
             \A s \in Schedules : row'[s].nextRun = row[s].nextRun,
             \A i \in Instances, s \in Schedules :
                Holds(i, s)' <=> Holds(i, s),
             \A i \in Instances, s \in Schedules : Holds(i, s) => tick'[i] = tick[i]
      PROVE  SlotInvariant'
  BY <1>1, <1>a, <1>e, SlotFrame
<1>2. ASSUME NEW i \in Instances,
             \/ ListDue(i) \/ ReadSchedule(i) \/ EndTick(i)
             \/ OwnerNotInOrder(i) \/ LimitReached(i) \/ SendCreate(i)
      PROVE  SlotInvariant'
  <2>1. /\ UNCHANGED <<clock, row, slot, started, lost, overwritten, got>>
        /\ \A k \in Instances : k # i => tick'[k] = tick[k] /\ stage'[k] = stage[k] /\ copy'[k] = copy[k]
        /\ stage[i] \in Dispatching => tick' = tick
    BY <1>2, <1>c, <1>d DEF ListDue, ReadSchedule, EndTick, OwnerNotInOrder, LimitReached, SendCreate,
       Dispatching
  <2>2. \A s \in Schedules : Holds(i, s)' <=> Holds(i, s)
    BY <1>2, <1>c DEF ListDue, ReadSchedule, EndTick, OwnerNotInOrder, LimitReached, SendCreate,
       Holds, Dispatching
  <2> QED
    BY <1>1, <1>d, <2>1, <2>2 DEF Holds
<1>3. ASSUME NEW i \in Instances, Refuse(i) \/ GetReply(i) \/ RecordScan(i)
      PROVE  SlotInvariant'
  <2>1. /\ UNCHANGED <<clock, row, tick, copy, slot, started, lost, overwritten, got>>
        /\ \A s \in Schedules, k \in Instances : Holds(k, s)' <=> Holds(k, s)
    BY <1>3, <1>c DEF Refuse, GetReply, RecordScan, Holds, Dispatching
  <2> QED
    BY <1>1, <1>d, <2>1
<1>4. ASSUME NEW i \in Instances, TimeOut(i) PROVE SlotInvariant'
  <2>1. /\ UNCHANGED <<clock, row, tick, copy, slot, started, overwritten>>
        /\ lost' = lost \cup ({got[i]} \ {NoScan})
        /\ \A k \in Instances : k # i => got'[k] = got[k]
        /\ \A s \in Schedules, k \in Instances : Holds(k, s)' <=> Holds(k, s)
    BY <1>4, <1>c DEF TimeOut, Holds, Dispatching
  <2> QED
    BY <1>a, <1>d, <1>e, <2>1, SlotFrame
<1>5. ASSUME NEW i \in Instances, Crash(i) PROVE SlotInvariant'
  <2>1. /\ UNCHANGED <<clock, row, slot, started, overwritten>>
        /\ lost' = lost \cup ({got[i]} \ {NoScan})
        /\ \A k \in Instances : k # i => got'[k] = got[k] /\ tick'[k] = tick[k]
        /\ \A s \in Schedules, k \in Instances : Holds(k, s)' <=> Holds(k, s) /\ k # i
    BY <1>5, <1>c, <1>d DEF Crash, Holds, Dispatching
  <2> QED
    BY <1>a, <1>d, <1>e, <2>1, SlotFrame
<1>6. ASSUME NEW i \in Instances, MarkRun(i) \/ Defer(i) \/ Pause(i) PROVE SlotInvariant'
  <2> DEFINE next == ComputeNextRun(copy[i].timing, tick[i])
  <2>0. PICK u \in Schedules : u = copy[i].id
    BY <1>6, <1>c DEF MarkRun, Defer, Pause, CopyType
  <2>1. /\ UNCHANGED <<clock, tick, started, lost, overwritten>>
        /\ \A k \in Instances : k # i => got'[k] = got[k]
        /\ \A s \in Schedules, k \in Instances : Holds(k, s)' <=> Holds(k, s) /\ k # i
        /\ Holds(i, u)
    BY <1>6, <2>0, <1>c DEF MarkRun, Defer, Pause, EndTurn, Holds, Dispatching
  <2>2. \A s \in Schedules : s # u => row'[s] = row[s] /\ slot'[s] = slot[s]
    BY <1>6, <2>0, <1>c DEF MarkRun, Defer, Pause, RowType
  <2>3. u \notin overwritten => slot[u] <= tick[i] /\ \A k \in Instances : ~Holds(k, u)'
    BY <2>1, <1>e DEF OneHolder
  <2>4. next \in Nat /\ next > tick[i]
    BY <1>6, <1>c, <1>d, NextRunIsLater DEF MarkRun, Defer, Pause, CopyType
  <2>5. u \notin overwritten => slot[u] <= slot'[u] /\ slot'[u] <= row'[u].nextRun
    <3> SUFFICES ASSUME u \notin overwritten
                 PROVE  slot[u] <= slot'[u] /\ slot'[u] <= row'[u].nextRun
      OBVIOUS
    <3>1. slot[u] <= tick[i] /\ slot[u] <= row[u].nextRun /\ slot[u] \in Nat
      BY <2>1, <2>3, <1>e
    <3>2. CASE MarkRun(i) /\ u \in present
      <4>1. row'[u].nextRun = next /\ slot'[u] = next
        BY <3>2, <2>0, <1>c DEF MarkRun, RowType
      <4> QED
        BY <4>1, <3>1, <2>4, <1>d
    <3>3. CASE ~(MarkRun(i) /\ u \in present)
      <4>1. slot'[u] = slot[u] /\ row'[u].nextRun \in {row[u].nextRun, tick[i] + Lease}
        BY <1>6, <3>3, <2>0, <1>c DEF MarkRun, Defer, Pause, RowType
      <4> QED
        BY <4>1, <3>1, <1>d
    <3> QED
      BY <3>2, <3>3
  <2>6. ASSUME NEW s \in Schedules \ overwritten, NEW k \in Instances,
               slot'[s] = slot[s], Holds(k, s), got[k] # NoScan
        PROVE  (Holds(k, s)' /\ got'[k] = got[k]) \/ (s \notin present' /\ ~Held(s)')
    <3>1. CASE k # i
      BY <2>1, <2>6, <3>1
    <3>2. CASE k = i
      <4>1. s = u /\ MarkRun(i)
        BY <1>6, <2>0, <2>6, <3>2, <1>c DEF Holds, Defer, Pause
      <4>2. u \notin present
        <5> SUFFICES ASSUME u \in present PROVE FALSE
          OBVIOUS
        <5>1. slot'[u] = next
          BY <4>1, <2>0, <1>c DEF MarkRun
        <5> QED
          BY <5>1, <4>1, <2>3, <2>4, <2>6, <1>c, <1>d
      <4>3. u \notin present' /\ ~Held(u)'
        BY <4>1, <4>2, <2>3 DEF MarkRun, Held
      <4> QED
        BY <4>1, <4>3
    <3> QED
      BY <3>1, <3>2
  <2>7. \A s \in Schedules \ overwritten' :
           /\ slot[s] <= slot'[s]
           /\ slot'[s] <= row'[s].nextRun
           /\ \A k \in Instances : Holds(k, s)' => slot'[s] <= tick'[k]
    BY <2>1, <2>2, <2>3, <2>5, <1>e
  <2> HIDE DEF next
  <2> QED
    BY <1>a, <1>d, <2>1, <2>6, <2>7, SlotFrame
<1>7. ASSUME NEW i \in Instances, Claim(i) PROVE SlotInvariant'
  <2>0. PICK u \in Schedules : u = copy[i].id
    BY <1>7, <1>c DEF Claim, CopyType
  <2>1. UNCHANGED <<clock, tick, slot, started, lost, overwritten, got>>
    BY <1>7 DEF Claim
  <2>2. \A s \in Schedules, k \in Instances :
           Holds(k, s)' <=> Holds(k, s) \/ (MayClaim(i, u) /\ k = i /\ s = u)
    BY <1>7, <2>0, <1>c DEF Claim, Holds, Dispatching
  <2>3. CASE ~MayClaim(i, u)
    <3>1. row' = row
      BY <1>7, <2>0, <2>3 DEF Claim
    <3> QED
      BY <3>1, <2>1, <2>2, <2>3, <1>1, <1>d
  <2>4. CASE MayClaim(i, u)
    <3>1. /\ row'[u].nextRun = tick[i] + Lease /\ row[u].nextRun <= tick[i]
          /\ \A s \in Schedules : s # u => row'[s] = row[s]
      BY <1>7, <2>0, <2>4, <1>c DEF Claim, MayClaim, IsDue, RowType
    <3>2. u \notin overwritten => slot[u] <= tick[i]
      <4>1. row[u].nextRun \in Nat
        BY <2>1, <1>c DEF RowType
      <4> QED
        BY <3>1, <4>1, <2>1, <1>d, <1>e
    <3>3. u \notin overwritten => slot[u] <= row'[u].nextRun
      BY <3>1, <3>2, <2>1, <1>d, <1>e
    <3>4. \A s \in Schedules \ overwritten' :
             /\ slot[s] <= slot'[s]
             /\ slot'[s] <= row'[s].nextRun
             /\ \A k \in Instances : Holds(k, s)' => slot'[s] <= tick'[k]
      BY <2>1, <2>2, <3>1, <3>2, <3>3, <1>e
    <3> QED
      BY <1>a, <1>d, <2>1, <2>2, <3>4, SlotFrame
  <2> QED
    BY <2>3, <2>4
<1>8. ASSUME NEW i \in Instances, WriteBack(i) PROVE SlotInvariant'
  <2> DEFINE p == patch[i]
             s == p.id
  <2>1. /\ UNCHANGED <<clock, present, stage, tick, copy, got, started, lost>>
        /\ overwritten \subseteq overwritten' /\ p # NoPatch
    BY <1>8 DEF WriteBack
  <2>2. \A k \in Instances, u \in Schedules : Holds(k, u)' <=> Holds(k, u)
    BY <2>1 DEF Holds
  <2>6. p \in PatchType /\ s \in Schedules /\ p.slot \in Nat /\ p.nextRun \in Nat
    BY <2>1, <1>b DEF TypeOK, PatchType
  <2>3. \A u \in Schedules : u # s => row'[u] = row[u] /\ slot'[u] = slot[u]
    BY <1>8, <2>6, <1>c DEF WriteBack, RowType
  <2>7. ASSUME row' # row \/ slot' # slot
        PROVE  /\ row'[s].nextRun = p.nextRun /\ slot'[s] = p.slot
               /\ s \notin overwritten' => i \notin stale /\ ~(Held(s) /\ Retimes(p))
    BY <1>8, <2>6, <2>7, <1>c DEF WriteBack, RowType
  <2>4. CASE s \in overwritten' \/ (row'[s].nextRun = row[s].nextRun /\ slot'[s] = slot[s])
    <3>1. \A u \in Schedules \ overwritten' : row'[u].nextRun = row[u].nextRun /\ slot'[u] = slot[u]
      BY <2>3, <2>4
    <3> QED
      BY <1>a, <1>d, <1>e, <2>1, <2>2, <3>1, SlotFrame
  <2>5. CASE s \notin overwritten' /\ ~(row'[s].nextRun = row[s].nextRun /\ slot'[s] = slot[s])
    <3>1. /\ row'[s].nextRun = p.nextRun /\ slot'[s] = p.slot
          /\ i \notin stale /\ Retimes(p) /\ ~Held(s)
      BY <2>5, <2>7 DEF Retimes
    <3>2. /\ p.nextRun = p.slot
          /\ \A j \in 1..Len(started) : started[j].schedule = s => started[j].slot < p.slot
      BY <2>1, <2>5, <3>1 DEF PatchInvariant
    <3>3. \A k \in Instances : ~Holds(k, s)
      BY <3>1 DEF Held
    <3> HIDE DEF s
    <3>4. ASSUME NEW j \in 1..Len(started), started[j].schedule = s, s \notin overwritten'
          PROVE  started[j].slot <= clock /\ started[j].slot < slot'[s]
      BY <2>1, <3>1, <3>2, <3>4 DEF SlotInvariant
    <3>5. \A u \in Schedules \ overwritten' :
             /\ slot'[u] <= row'[u].nextRun
             /\ \A k \in Instances : Holds(k, u)' => slot'[u] <= tick'[k]
      BY <2>1, <2>2, <2>3, <2>6, <3>1, <3>2, <3>3, <1>e
    <3>6. present' = present
      BY <2>1
    <3>7. ASSUME NEW j \in 1..Len(started), NEW u \in Schedules, u = started[j].schedule,
                 u \notin overwritten'
          PROVE  /\ started[j].slot <= slot'[u]
                 /\ started[j].slot <= clock
                 /\ started[j].slot = slot'[u] /\ j \notin lost =>
                       \/ \E k \in Instances : Holds(k, u)' /\ got[k] = j
                       \/ u \notin present' /\ ~Held(u)'
      <4>1. CASE u = s
        <5>1. started[j].slot \in Nat /\ slot'[s] \in Nat
          BY <1>b, <2>6, <3>1, StartedTypes
        <5>2. started[j].slot <= clock /\ started[j].slot < slot'[s]
          BY <3>4, <3>7, <4>1
        <5> QED
          BY <4>1, <5>1, <5>2
      <4>2. CASE u # s
        <5>1. u \notin overwritten /\ slot'[u] = slot[u]
          BY <3>7, <4>2, <2>1, <2>3
        <5>2. Held(u)' <=> Held(u)
          BY <2>2 DEF Held
        <5>3. /\ started[j].slot <= slot[u]
              /\ started[j].slot <= clock
              /\ started[j].slot = slot[u] /\ j \notin lost =>
                    \/ \E k \in Instances : Holds(k, u) /\ got[k] = j
                    \/ u \notin present /\ ~Held(u)
          BY <3>7, <5>1 DEF SlotInvariant
        <5> QED
          BY <5>1, <5>2, <5>3, <2>2, <3>6
      <4> QED
        BY <4>1, <4>2
    <3>9. \A j \in 1..Len(started) : started[j].schedule \in Schedules
      BY <1>b, StartedTypes
    <3>8. OneScanPerSlot'
      BY <2>1 DEF SlotInvariant, OneScanPerSlot
    <3> QED
      BY <1>a, <2>1, <3>5, <3>7, <3>8, <3>9 DEF SlotInvariant
  <2> QED
    BY <2>4, <2>5
<1>9. ASSUME \/ \E s \in Schedules : DeleteSchedule(s)
             \/ \E i \in Instances, s \in Schedules, timing \in Timings, enabled \in BOOLEAN :
                   ReadForUpdate(i, s, timing, enabled)
      PROVE  SlotInvariant'
  <2>1. /\ UNCHANGED <<clock, row, stage, tick, copy, got, slot, started, lost, overwritten>>
        /\ \A u \in Schedules, k \in Instances : Holds(k, u)' <=> Holds(k, u)
    BY <1>9 DEF DeleteSchedule, ReadForUpdate, Holds
  <2> QED
    BY <1>1, <1>d, <2>1
<1>10. CASE Advance
  <2>1. /\ UNCHANGED <<row, stage, tick, copy, got, slot, started, lost, overwritten>>
        /\ clock' = clock + 1
        /\ \A u \in Schedules, k \in Instances : Holds(k, u)' <=> Holds(k, u)
    BY <1>10 DEF Advance, Holds
  <2> QED
    BY <1>1, <1>d, <2>1
<1>11. ASSUME \/ \E j \in Scans : HandleEvent(j)
              \/ \E m \in mailing : MailSent(m) \/ MailFails(m)
              \/ UNCHANGED vars
       PROVE  SlotInvariant'
  <2>1. /\ UNCHANGED <<clock, stage, tick, copy, got, slot, started, lost, overwritten>>
        /\ \A u \in Schedules, k \in Instances : Holds(k, u)' <=> Holds(k, u)
    BY <1>11 DEF HandleEvent, MailSent, MailFails, vars, Holds
  <2>2. \A u \in Schedules : row'[u].nextRun = row[u].nextRun
    <3>1. ASSUME NEW m \in mailing, MailSent(m)
          PROVE  \A u \in Schedules : row'[u].nextRun = row[u].nextRun
      BY <3>1, <1>c DEF MailSent, RowType
    <3>2. ~(\E m \in mailing : MailSent(m)) => row' = row
      BY <1>11 DEF HandleEvent, MailFails, vars
    <3> QED
      BY <3>1, <3>2
  <2> QED
    BY <1>1, <1>d, <2>1, <2>2
<1>12. ASSUME NEW i \in Instances, Accept(i) PROVE SlotInvariant'
  <2>0. PICK u \in Schedules : u = copy[i].id
    BY <1>12, <1>c DEF Accept, CopyType
  <2> DEFINE n == Len(started)
             scan == [schedule |-> u, slot |-> slot[u]]
  <2>1. /\ UNCHANGED <<clock, present, row, stage, tick, copy, slot, lost, overwritten>>
        /\ got[i] = NoScan /\ got' = [got EXCEPT ![i] = n + 1]
        /\ started' = Append(started, scan)
        /\ Holds(i, u)
    BY <1>12, <2>0, <1>c DEF Accept, Holds, Dispatching
  <2>2. \A s \in Schedules, k \in Instances : Holds(k, s)' <=> Holds(k, s)
    BY <2>1 DEF Holds
  <2>3. /\ n \in Nat /\ Len(started') = n + 1 /\ started'[n + 1] = scan
        /\ \A j \in 1..n : started'[j] = started[j] /\ started[j].schedule \in Schedules
    <3>1. started \in Seq([schedule : Schedules, slot : Nat])
      BY <1>b DEF TypeOK
    <3>2. scan \in [schedule : Schedules, slot : Nat]
      BY <1>c
    <3>3. \A j \in 1..n : started[j].schedule \in Schedules
      BY <1>b, StartedTypes
    <3> QED
      BY <2>1, <3>1, <3>2, <3>3, SeqAppend
  <2>4. ASSUME u \notin overwritten
        PROVE  /\ slot[u] <= clock
               /\ \A j \in 1..n : started[j] = scan => j \in lost
    <3>1. slot[u] <= clock
      <4>1. slot[u] <= tick[i] /\ tick[i] <= clock
        BY <2>1, <2>4, <1>a, <1>e DEF LeaseInvariant, Holds, Dispatching
      <4> QED
        BY <4>1, <2>1, <1>c, <1>d
    <3>2. ASSUME NEW j \in 1..n, started[j] = scan, j \notin lost PROVE FALSE
      <4>1. started[j].schedule = u /\ started[j].slot = slot[u]
        BY <3>2
      <4>2. \/ \E k \in Instances : Holds(k, u) /\ got[k] = j
            \/ u \notin present /\ ~Held(u)
        BY <2>4, <3>2, <4>1 DEF SlotInvariant
      <4>3. ASSUME NEW k \in Instances, Holds(k, u), got[k] = j PROVE FALSE
        <5>1. k = i
          BY <2>1, <2>4, <4>3, <1>e DEF OneHolder
        <5> QED
          BY <5>1, <4>3, <2>1, <2>3, <3>2 DEF NoScan
      <4> QED
        BY <4>2, <4>3, <2>1 DEF Held
    <3> QED
      BY <3>1, <3>2
  <2> HIDE DEF n
  <2>5. ASSUME NEW j \in 1..(n + 1), NEW s \in Schedules, s = started'[j].schedule, s \notin overwritten
        PROVE  /\ started'[j].slot <= slot[s]
               /\ started'[j].slot <= clock
               /\ started'[j].slot = slot[s] /\ j \notin lost =>
                     \/ \E k \in Instances : Holds(k, s)' /\ got'[k] = j
                     \/ s \notin present /\ ~Held(s)'
    <3>1. CASE j = n + 1
      <4>1. s = u /\ started'[j].slot = slot[u]
        BY <3>1, <2>3, <2>5
      <4>2. Holds(i, u)' /\ got'[i] = j
        BY <3>1, <2>1, <2>2, <1>c
      <4> QED
        BY <4>1, <4>2, <2>4, <2>5, <1>e
    <3>2. CASE j # n + 1
      <4>1. j \in 1..n /\ started'[j] = started[j] /\ started[j].schedule = s
        BY <3>2, <2>3, <2>5
      <4>2. \A k \in Instances : got[k] = j => got'[k] = j
        BY <4>1, <2>1, <2>3, <1>c DEF NoScan
      <4>3. Held(s)' <=> Held(s)
        BY <2>2 DEF Held
      <4>4. /\ started[j].slot <= slot[s]
            /\ started[j].slot <= clock
            /\ started[j].slot = slot[s] /\ j \notin lost =>
                  \/ \E k \in Instances : Holds(k, s) /\ got[k] = j
                  \/ s \notin present /\ ~Held(s)
        BY <4>1, <2>5 DEF SlotInvariant, n
      <4> QED
        BY <4>1, <4>2, <4>3, <4>4, <2>2
    <3> QED
      BY <3>1, <3>2
  <2>8. \A j \in 1..(n + 1) : started'[j].schedule \in Schedules
    BY <2>3
  <2>6. OneScanPerSlot'
    <3> SUFFICES ASSUME NEW j \in 1..(n + 1), NEW k \in 1..(n + 1), started'[j] = started'[k],
                        j \notin lost, k \notin lost, started'[j].schedule \notin overwritten
                 PROVE  j = k
      BY <2>1, <2>3 DEF OneScanPerSlot
    <3>1. CASE j \in 1..n /\ k \in 1..n
      BY <3>1, <2>3 DEF SlotInvariant, OneScanPerSlot, n
    <3>2. CASE j = n + 1 /\ k \in 1..n
      BY <3>2, <2>3, <2>4
    <3>3. CASE k = n + 1 /\ j \in 1..n
      BY <3>3, <2>3, <2>4
    <3> QED
      BY <2>3, <3>1, <3>2, <3>3
  <2>7. \A s \in Schedules \ overwritten' :
           /\ slot'[s] <= row'[s].nextRun
           /\ \A k \in Instances : Holds(k, s)' => slot'[s] <= tick'[k]
    BY <2>1, <2>2, <1>e
  <2> QED
    BY <1>a, <2>1, <2>3, <2>5, <2>6, <2>7, <2>8 DEF SlotInvariant
<1> QED
  BY <1>2, <1>3, <1>4, <1>5, <1>6, <1>7, <1>8, <1>9, <1>10, <1>11, <1>12 DEF Next, Dispatch

\* A schedule is dispatched once for each of its regular times, with any number of
\* instances and any number of retries, unless the answer of the worker is lost or
\* the owner sets a new time during a dispatch.
THEOREM SlotsServedOnce == Spec => []OneScanPerSlot
<1>1. Init => SlotInvariant /\ PatchInvariant
  <2> SUFFICES ASSUME Init PROVE SlotInvariant /\ PatchInvariant
    OBVIOUS
  <2>1. LeaseInvariant
    BY InitType DEF Init, LeaseInvariant, OneHolder, Holds, Dispatching
  <2>2. \A s \in Schedules : slot[s] = row[s].nextRun /\ slot[s] \in Nat
    <3>1. slot \in [Schedules -> Nat]
      BY <2>1 DEF LeaseInvariant, TypeOK
    <3> QED
      BY <3>1 DEF Init
  <2>3. started = <<>> /\ \A i \in Instances, s \in Schedules : ~Holds(i, s)
    BY DEF Init, Holds, Dispatching
  <2> QED
    BY <2>1, <2>2, <2>3 DEF SlotInvariant, OneScanPerSlot, PatchInvariant, Init
<1>2. SlotInvariant => OneScanPerSlot
  BY DEF SlotInvariant
<1> QED
  BY <1>1, <1>2, NextSlot, NextPatch, PTL DEF Spec

-----------------------------------------------------------------------------
(* Alerts *)

\* Which fields an update of the table changes.
LEMMA RowsKept ==
    ASSUME row \in [Schedules -> RowType], NEW s \in Schedules, NEW next,
           \/ row' = row
           \/ row' = [row EXCEPT ![s].nextRun = next]
           \/ row' = [row EXCEPT ![s].enabled = FALSE]
    PROVE  \A u \in Schedules : row'[u].lastScan = row[u].lastScan /\ row'[u].lastAlert = row[u].lastAlert
BY DEF RowType

LEMMA PatchWritten ==
    ASSUME row \in [Schedules -> RowType], NEW s \in Schedules, NEW p,
           row' = [row EXCEPT ![s].timing = p.timing, ![s].enabled = p.enabled,
                              ![s].nextRun = p.nextRun]
    PROVE  \A u \in Schedules : row'[u].lastScan = row[u].lastScan /\ row'[u].lastAlert = row[u].lastAlert
BY DEF RowType

LEMMA AlertMarked ==
    ASSUME row \in [Schedules -> RowType], NEW s \in Schedules, NEW j,
           row' = [row EXCEPT ![s].lastAlert = j]
    PROVE  \A u \in Schedules : /\ row'[u].lastScan = row[u].lastScan
                                /\ row'[u].lastAlert = IF u = s THEN j ELSE row[u].lastAlert
BY DEF RowType

StartedBy(j, s) == j \in 1..Len(started) /\ started[j].schedule = s

\* Everything that names a scan names the schedule that started it.
OriginInvariant ==
    /\ \A i \in Instances : got[i] # NoScan => StartedBy(got[i], copy[i].id)
    /\ \A j \in Scans : history[j] \in Schedules => StartedBy(j, history[j])
    /\ \A s \in Schedules : row[s].lastScan # NoScan => StartedBy(row[s].lastScan, s)
    /\ \A m \in mailing \cup mailed : StartedBy(m.scan, m.schedule)
    /\ \A s \in Schedules :
          row[s].lastAlert # NoScan =>
             \E m \in mailed : m.scan = row[s].lastAlert /\ m.schedule = s

\* A step that names no scan anew.
LEMMA OriginFrame ==
    ASSUME OriginInvariant, started' = started,
           \A i \in Instances : got'[i] = NoScan \/ (got'[i] = got[i] /\ copy'[i] = copy[i]),
           \A j \in Scans : history'[j] \in Schedules => history'[j] = history[j],
           \A s \in Schedules : row'[s].lastScan = row[s].lastScan /\ row'[s].lastAlert = row[s].lastAlert,
           mailing' \subseteq mailing, mailed' = mailed
    PROVE  OriginInvariant'
<1>1. \A j, s : StartedBy(j, s)' <=> StartedBy(j, s)
  BY DEF StartedBy
<1> HIDE DEF StartedBy
<1> QED
  BY <1>1 DEF OriginInvariant

LEMMA NextOrigin == TypeOK /\ OriginInvariant /\ [Next]_vars => OriginInvariant'
<1> SUFFICES ASSUME TypeOK, OriginInvariant, [Next]_vars PROVE OriginInvariant'
  OBVIOUS
<1> USE DEF tickVars, alertVars, patchVars
<1>a. /\ row \in [Schedules -> RowType] /\ history \in [Scans -> Schedules \cup {"absent", "unlinked"}]
      /\ got \in [Instances -> Scans \cup {NoScan}]
      /\ copy \in [Instances -> CopyType \cup {NoCopy}]
      /\ started \in Seq([schedule : Schedules, slot : Nat]) /\ Len(started) \in Nat
      /\ mailing \in SUBSET AlertType
      /\ \A i \in Instances : stage[i] \notin {"posted", "record", "mark"} => got[i] = NoScan
      /\ \A i \in Instances : stage[i] \notin {"idle", "loop"} => copy[i] \in CopyType
  BY DEF TypeOK
<1>b. "absent" \notin Schedules /\ "unlinked" \notin Schedules
  BY SchedulerAssumption
<1>1. ASSUME NEW i \in Instances,
             ListDue(i) \/ EndTick(i) \/ OwnerNotInOrder(i) \/ LimitReached(i) \/ SendCreate(i)
               \/ Refuse(i) \/ GetReply(i)
      PROVE  OriginInvariant'
  BY <1>1, OriginFrame
  DEF ListDue, EndTick, OwnerNotInOrder, LimitReached, SendCreate, Refuse, GetReply
<1>2. ASSUME NEW i \in Instances, ReadSchedule(i) PROVE OriginInvariant'
  <2>1. \A k \in Instances : got'[k] = NoScan \/ (got'[k] = got[k] /\ copy'[k] = copy[k])
    BY <1>2, <1>a DEF ReadSchedule
  <2> QED
    BY <1>2, <2>1, OriginFrame DEF ReadSchedule
<1>3. ASSUME NEW i \in Instances, Claim(i) PROVE OriginInvariant'
  <2>1. \A k \in Instances : got'[k] = NoScan \/ (got'[k] = got[k] /\ copy'[k] = copy[k])
    BY <1>3, <1>a DEF Claim
  <2>2. \A s \in Schedules : row'[s].lastScan = row[s].lastScan /\ row'[s].lastAlert = row[s].lastAlert
    <3>1. copy[i].id \in Schedules
      BY <1>3, <1>a DEF Claim, CopyType
    <3>2. row' = row \/ row' = [row EXCEPT ![copy[i].id].nextRun = tick[i] + Lease]
      BY <1>3, Zenon DEF Claim
    <3> QED
      BY <1>a, <3>1, <3>2, RowsKept
  <2> QED
    BY <1>3, <2>1, <2>2, OriginFrame DEF Claim
<1>4. ASSUME NEW i \in Instances, TimeOut(i) \/ Crash(i) PROVE OriginInvariant'
  <2>1. \A k \in Instances : got'[k] = NoScan \/ (got'[k] = got[k] /\ copy'[k] = copy[k])
    BY <1>4, <1>a DEF TimeOut, Crash
  <2> QED
    BY <1>4, <2>1, OriginFrame DEF TimeOut, Crash
<1>5. ASSUME NEW i \in Instances, Accept(i) PROVE OriginInvariant'
  <2> DEFINE n == Len(started)
  <2>1. copy[i] \in CopyType /\ copy[i].id \in Schedules
    BY <1>5, <1>a DEF Accept, CopyType
  <2>2. started' = Append(started, [schedule |-> copy[i].id, slot |-> slot[copy[i].id]])
        /\ [schedule |-> copy[i].id, slot |-> slot[copy[i].id]] \in [schedule : Schedules, slot : Nat]
    BY <1>5, <2>1 DEF Accept, TypeOK
  <2>3. /\ Len(started') = n + 1 /\ started'[n + 1].schedule = copy[i].id
        /\ \A j \in 1..n : started'[j] = started[j]
    BY <2>2, <1>a, SeqAppend
  <2>4. /\ \A j, s : StartedBy(j, s) => j \in 1..Len(started') /\ started'[j].schedule = s
        /\ n + 1 \in 1..Len(started')
    BY <2>3, <1>a DEF StartedBy
  <2>5. /\ got'[i] = n + 1 /\ copy' = copy
        /\ \A k \in Instances \ {i} : got'[k] = got[k]
        /\ UNCHANGED <<history, row, mailing, mailed>>
    BY <1>5, <1>a DEF Accept
  <2> HIDE DEF n
  <2>6. \A k \in Instances : got'[k] # NoScan => StartedBy(got[k], copy[k].id)'
    <3>1. got'[i] \in 1..Len(started') /\ started'[got'[i]].schedule = copy'[i].id
      BY <2>3, <2>4, <2>5
    <3>2. ASSUME NEW k \in Instances \ {i}, got'[k] # NoScan
          PROVE  got'[k] \in 1..Len(started') /\ started'[got'[k]].schedule = copy'[k].id
      BY <2>4, <2>5, <3>2 DEF OriginInvariant
    <3> QED
      BY <3>1, <3>2 DEF StartedBy
  <2>7. /\ \A j \in Scans : history'[j] \in Schedules => StartedBy(j, history[j])'
        /\ \A s \in Schedules : row'[s].lastScan # NoScan => StartedBy(row[s].lastScan, s)'
        /\ \A m \in mailing' \cup mailed' : StartedBy(m.scan, m.schedule)'
    <3>1. /\ \A j \in Scans : history[j] \in Schedules => StartedBy(j, history[j])
          /\ \A s \in Schedules : row[s].lastScan # NoScan => StartedBy(row[s].lastScan, s)
          /\ \A m \in mailing \cup mailed : StartedBy(m.scan, m.schedule)
      BY DEF OriginInvariant
    <3> QED
      BY <2>4, <2>5, <3>1 DEF StartedBy
  <2>8. \A s \in Schedules :
           row'[s].lastAlert # NoScan =>
             \E m \in mailed' : m.scan = row'[s].lastAlert /\ m.schedule = s
    BY <2>5 DEF OriginInvariant
  <2> QED
    BY <2>6, <2>7, <2>8 DEF OriginInvariant
<1>6. ASSUME NEW i \in Instances, RecordScan(i) PROVE OriginInvariant'
  <2>1. \A j \in Scans : history'[j] = history[j]
                           \/ (j = got[i] /\ history'[j] = copy[i].id /\ got[i] # NoScan)
    <3>1. history' = history \/ history' = [history EXCEPT ![got[i]] = copy[i].id]
      BY <1>6 DEF RecordScan
    <3>2. \A j \in Scans : history'[j] = history[j] \/ (j = got[i] /\ history'[j] = copy[i].id)
      BY <3>1, <1>a
    <3>3. \A j \in Scans : j # NoScan
      BY DEF Scans, NoScan
    <3> QED
      BY <3>2, <3>3
  <2>2. UNCHANGED <<started, got, copy, row, mailing, mailed>>
    BY <1>6 DEF RecordScan
  <2>3. \A j, s : StartedBy(j, s)' <=> StartedBy(j, s)
    BY <2>2 DEF StartedBy
  <2> QED
    BY <2>1, <2>2, <2>3 DEF OriginInvariant
<1>7. ASSUME NEW i \in Instances, MarkRun(i) PROVE OriginInvariant'
  <2>1. copy[i].id \in Schedules /\ copy[i].timing \in Timings
    BY <1>7, <1>a DEF MarkRun, CopyType
  <2>2. \A s \in Schedules :
           /\ row'[s].lastAlert = row[s].lastAlert
           /\ row'[s].lastScan = row[s].lastScan \/ (s = copy[i].id /\ row'[s].lastScan = got[i])
    <3>1. \/ row' = row
          \/ row' = [row EXCEPT ![copy[i].id].nextRun = ComputeNextRun(copy[i].timing, tick[i]),
                                ![copy[i].id].lastScan = got[i]]
      BY <1>7, Zenon DEF MarkRun
    <3> QED
      <4>1. CASE row' = row
        BY <4>1
      <4>2. CASE row' = [row EXCEPT ![copy[i].id].nextRun = ComputeNextRun(copy[i].timing, tick[i]),
                                    ![copy[i].id].lastScan = got[i]]
        <5>1. PICK u \in Schedules, next \in {ComputeNextRun(copy[i].timing, tick[i])},
                   j \in {got[i]} :
                 /\ u = copy[i].id
                 /\ row' = [row EXCEPT ![u].nextRun = next, ![u].lastScan = j]
          BY <2>1, <4>2, Zenon
        <5>2. row \in [Schedules -> RowType] /\ row' = [row EXCEPT ![u].nextRun = next, ![u].lastScan = j]
          BY <1>a, <5>1
        <5>3. \A s \in Schedules : /\ row'[s].lastAlert = row[s].lastAlert
                                   /\ row'[s].lastScan = IF s = u THEN j ELSE row[s].lastScan
          BY <5>2 DEF RowType
        <5> QED
          BY <5>1, <5>3
      <4> QED
        BY <3>1, <4>1, <4>2
  <2>3. \A k \in Instances : got'[k] = NoScan \/ (got'[k] = got[k] /\ copy'[k] = copy[k])
    BY <1>7, <1>a DEF MarkRun, EndTurn
  <2>4. UNCHANGED <<started, history, mailing, mailed>>
    BY <1>7 DEF MarkRun
  <2>5. \A j, s : StartedBy(j, s)' <=> StartedBy(j, s)
    BY <2>4 DEF StartedBy
  <2> QED
    BY <2>2, <2>3, <2>4, <2>5 DEF OriginInvariant
<1>8. ASSUME NEW i \in Instances, Defer(i) \/ Pause(i) PROVE OriginInvariant'
  <2>1. \A s \in Schedules : row'[s].lastScan = row[s].lastScan /\ row'[s].lastAlert = row[s].lastAlert
    <3>1. copy[i].id \in Schedules
      BY <1>8, <1>a DEF Defer, Pause, CopyType
    <3>2. \/ row' = row
          \/ row' = [row EXCEPT ![copy[i].id].nextRun = tick[i] + Lease]
          \/ row' = [row EXCEPT ![copy[i].id].enabled = FALSE]
      BY <1>8, Zenon DEF Defer, Pause
    <3> QED
      BY <1>a, <3>1, <3>2, RowsKept
  <2>2. \A k \in Instances : got'[k] = NoScan \/ (got'[k] = got[k] /\ copy'[k] = copy[k])
    BY <1>8, <1>a DEF Defer, Pause, EndTurn
  <2> QED
    BY <1>8, <2>1, <2>2, OriginFrame DEF Defer, Pause
<1>9. ASSUME NEW i \in Instances, WriteBack(i) PROVE OriginInvariant'
  <2> DEFINE p == patch[i]
  <2>1. \A s \in Schedules : row'[s].lastScan = row[s].lastScan /\ row'[s].lastAlert = row[s].lastAlert
    <3>1. \/ row' = row
          \/ row' = [row EXCEPT ![p.id].timing = p.timing, ![p.id].enabled = p.enabled,
                                ![p.id].nextRun = p.nextRun]
      BY <1>9 DEF WriteBack
    <3>2. p.id \in Schedules
      BY <1>9 DEF WriteBack, TypeOK, PatchType
    <3>3. CASE row' # row
      BY <1>a, <3>1, <3>2, <3>3, PatchWritten
    <3> QED
      BY <3>3
  <2> QED
    BY <1>9, <2>1, OriginFrame DEF WriteBack
<1>15. ASSUME NEW i \in Instances, NEW s \in Schedules, NEW timing \in Timings,
              NEW enabled \in BOOLEAN, ReadForUpdate(i, s, timing, enabled)
       PROVE  OriginInvariant'
  BY <1>15, OriginFrame DEF ReadForUpdate
<1>10. ASSUME NEW s \in Schedules, DeleteSchedule(s) PROVE OriginInvariant'
  <2>1. \A j \in Scans : history'[j] \in Schedules => history'[j] = history[j]
    BY <1>10, <1>a, <1>b DEF DeleteSchedule
  <2> QED
    BY <1>10, <2>1, OriginFrame DEF DeleteSchedule
<1>11. CASE Advance \/ UNCHANGED vars
  BY <1>11, OriginFrame DEF Advance, vars
<1>12. ASSUME NEW j \in Scans, HandleEvent(j) PROVE OriginInvariant'
  <2>1. \A k \in Scans : history'[k] \in Schedules => history'[k] = history[k]
    BY <1>12, <1>a, <1>b DEF HandleEvent
  <2>2. UNCHANGED <<started, got, copy, row, mailed>> /\ j \in 1..Len(started)
    BY <1>12 DEF HandleEvent
  <2>3. ASSUME NEW s \in ScheduleOf(j, history'), mailing' = mailing \cup {[scan |-> j, schedule |-> s, copy |-> handled'[j]]}
        PROVE  OriginInvariant'
    <3>1. s \in Schedules /\ StartedBy(j, s)
      <4>1. s \in Schedules /\ (history'[j] = s \/ row[s].lastScan = j)
        BY DEF ScheduleOf, TypeOK
      <4>2. j # NoScan
        BY DEF Scans, NoScan
      <4> QED
        BY <4>1, <4>2, <2>1 DEF OriginInvariant
    <3>2. \A k, t : StartedBy(k, t)' <=> StartedBy(k, t)
      BY <2>2 DEF StartedBy
    <3> QED
      BY <2>1, <2>2, <2>3, <3>1, <3>2 DEF OriginInvariant
  <2>4. CASE mailing' = mailing
    BY <2>1, <2>2, <2>4, OriginFrame
  <2> QED
    BY <1>12, <2>3, <2>4 DEF HandleEvent
<1>13. ASSUME NEW m \in mailing, MailSent(m) PROVE OriginInvariant'
  <2>1. m.schedule \in Schedules /\ m.scan \in Scans
    BY <1>a DEF AlertType
  <2>2. \A s \in Schedules :
           /\ row'[s].lastScan = row[s].lastScan
           /\ row'[s].lastAlert = row[s].lastAlert \/ (s = m.schedule /\ row'[s].lastAlert = m.scan)
    <3>1. row' = row \/ row' = [row EXCEPT ![m.schedule].lastAlert = m.scan]
      BY <1>13 DEF MailSent
    <3> QED
      <4>1. CASE row' = row
        BY <4>1
      <4>2. CASE row' = [row EXCEPT ![m.schedule].lastAlert = m.scan]
        BY <1>a, <2>1, <4>2, AlertMarked
      <4> QED
        BY <3>1, <4>1, <4>2
  <2>3. UNCHANGED <<started, got, copy, history>> /\ mailing' \subseteq mailing /\ mailed' = mailed \cup {m}
    BY <1>13 DEF MailSent
  <2>4. \A j, s : StartedBy(j, s)' <=> StartedBy(j, s)
    BY <2>3 DEF StartedBy
  <2> QED
    BY <2>2, <2>3, <2>4 DEF OriginInvariant
<1>14. ASSUME NEW m \in mailing, MailFails(m) PROVE OriginInvariant'
  BY <1>14, OriginFrame DEF MailFails
<1> QED
  BY <1>1, <1>2, <1>3, <1>4, <1>5, <1>6, <1>7, <1>8, <1>9, <1>10, <1>11, <1>12, <1>13, <1>14,
     <1>15
  DEF Next, Dispatch

\* No schedule carries the mark of an alert that was not sent, or that was about a
\* scan another schedule started, though the schedule may change or go meanwhile.
THEOREM AlertsWereSent == Spec => []AlertWasSent
<1>1. ASSUME Init PROVE OriginInvariant
  <2>1. /\ \A i \in Instances : got[i] = NoScan
        /\ \A j \in Scans : history[j] \notin Schedules
        /\ mailing \cup mailed = {}
    BY <1>1, SchedulerAssumption, Zenon DEF Init
  <2>2. \A s \in Schedules : row[s].lastScan = NoScan /\ row[s].lastAlert = NoScan
    BY <1>1 DEF Init
  <2> QED
    BY <2>1, <2>2 DEF OriginInvariant
<1>2. OriginInvariant => AlertWasSent
  BY DEF OriginInvariant, AlertWasSent, StartedBy
<1> QED
  BY <1>1, <1>2, NextOrigin, SchedulerTypeCorrect, PTL DEF Spec
=============================================================================
