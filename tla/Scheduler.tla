------------------------------ MODULE Scheduler ------------------------------
(***************************************************************************)
(* Recurring scans: the rows of scheduled_scans as the dispatchers of      *)
(* several web instances (server/scheduler.ts), the owner's requests       *)
(* (server/schedules.ts) and the alerts of finished scans                  *)
(* (server/schedule-alerts.ts) read and write them.                        *)
(*                                                                         *)
(* An instance dispatches its due schedules one after the other; between   *)
(* two statements of its loop another instance, the owner or the worker    *)
(* may act.  Time is a clock all instances share.  A regular time of a     *)
(* schedule, daily or weekly, is one congruent to its timing modulo        *)
(* Period.  A scan is its place in the sequence started.                   *)
(*                                                                         *)
(* The statements of one instance run one after the other, but an update   *)
(* by the owner is two of them, a SELECT and an UPDATE of every column:    *)
(* what another instance writes in between is undone.                      *)
(***************************************************************************)
EXTENDS Integers, Sequences, FiniteSets

CONSTANTS
    Schedules,
    Instances,   \* the web processes
    Batch,       \* how many due schedules a tick lists
    Period,      \* a day or a week
    Lease,       \* RETRY_LEASE_MS
    MaxTick,     \* bound: how long a tick of the dispatcher takes
    MaxClock,    \* bound: the time at which the model stops
    MaxEdits,    \* bound: changes the owner makes
    MaxScans,    \* bound: scans the worker accepts
    MaxCopies    \* bound: copies of a scan event that are handled

\* A tick makes at most ten requests of at most fifteen seconds.
ASSUME SchedulerAssumption ==
    /\ IsFiniteSet(Schedules)
    /\ {"absent", "unlinked", "none"} \cap Schedules = {}
    /\ Batch \in Nat \ {0}
    /\ Period \in Nat \ {0}
    /\ Lease \in Nat
    /\ MaxTick \in Nat
    /\ MaxTick < Lease
    /\ MaxClock \in Nat
    /\ MaxEdits \in Nat
    /\ MaxScans \in Nat
    /\ MaxCopies \in Nat

VARIABLES
    clock,
    edits,     \* bound: changes the owner has made
    present,   \* schedules whose row exists
    row,       \* enabled, nextRun, timing, lastScan and lastAlert of the rows
    stage,     \* where the dispatcher of an instance is
    tick,      \* the time its tick began
    due,       \* schedules the tick has yet to take up
    copy,      \* the schedule it holds, with the timing it has read
    got,       \* the scan the worker has accepted for it
    started,   \* the scans the worker has accepted
    handled,   \* copies of its event that have been handled
    history,   \* the schedule a row of the scans table names
    mailing,   \* alerts being sent
    mailed,    \* alerts sent
    patch,     \* the columns an update of the owner has made up and not yet written
    stale,     \* history: instances whose patch another writer of next_run_at overtook
    slot,      \* history: the regular time a schedule was last set to
    lost,      \* history: scans whose creation was not recorded with the schedule
    overwritten  \* history: schedules whose owner's update undid what another
                 \* instance wrote, or set a new time during a dispatch

tickVars  == <<stage, tick, due, copy>>
alertVars == <<handled, mailing, mailed>>
patchVars == <<patch, stale>>
vars == <<clock, edits, present, row, tickVars, got, started, history, alertVars,
          slot, lost, overwritten, patchVars>>

Scans   == 1..MaxScans
NoScan  == 0
NoCopy  == [id |-> "none", timing |-> 0]
NoPatch == [id |-> "none"]
Timings == 0..(Period - 1)

\* Mutant: a regular time that is now is taken again.
ComputeNextRunFromNow(timing, from) == from + ((timing - from) % Period)

\* The first regular time after from.
ComputeNextRun(timing, from) == from + 1 + ((timing - from - 1) % Period)

Init ==
    /\ clock = 0
    /\ edits = 0
    /\ present = Schedules
    /\ \E timing \in [Schedules -> Timings] :
          /\ row = [s \in Schedules |->
                      [enabled |-> TRUE, nextRun |-> ComputeNextRun(timing[s], 0),
                       timing |-> timing[s], lastScan |-> NoScan, lastAlert |-> NoScan]]
          /\ slot = [s \in Schedules |-> ComputeNextRun(timing[s], 0)]
    /\ stage = [i \in Instances |-> "idle"]
    /\ tick = [i \in Instances |-> 0]
    /\ due = [i \in Instances |-> <<>>]
    /\ copy = [i \in Instances |-> NoCopy]
    /\ got = [i \in Instances |-> NoScan]
    /\ started = <<>>
    /\ handled = [j \in Scans |-> 0]
    /\ history = [j \in Scans |-> "absent"]
    /\ mailing = {}
    /\ mailed = {}
    /\ lost = {}
    /\ overwritten = {}
    /\ patch = [i \in Instances |-> NoPatch]
    /\ stale = {}

IsDue(s, now) == s \in present /\ row[s].enabled /\ row[s].nextRun <= now

\* The stages between a successful claim and the end of the dispatch.
Dispatching == {"check", "posted", "record", "mark", "deferring", "pausing"}

Holds(i, s) == stage[i] \in Dispatching /\ copy[i].id = s
Held(s) == \E i \in Instances : Holds(i, s)

\* next_run_at of s is written: who has read the row before and has yet to write
\* it back will undo that.
Overtaken(s) == {k \in Instances : patch[k].id = s}

-----------------------------------------------------------------------------
(* runDueScheduledScans *)

\* The answers of listDueScheduleIds: the first Batch due schedules, earliest first.
DueLists(now) ==
    LET D == {s \in Schedules : IsDue(s, now)}
        n == IF Cardinality(D) < Batch THEN Cardinality(D) ELSE Batch
    IN  {q \in [1..n -> D] :
            /\ \A k, l \in 1..n : k < l => q[k] # q[l] /\ row[q[k]].nextRun <= row[q[l]].nextRun
            /\ \A k \in 1..n : \A s \in D \ {q[l] : l \in 1..n} : row[q[k]].nextRun <= row[s].nextRun}

\* The timer fires and the previous tick is over.
ListDue(i) ==
    /\ stage[i] = "idle"
    /\ \E s \in Schedules : IsDue(s, clock)
    /\ stage' = [stage EXCEPT ![i] = "loop"]
    /\ tick' = [tick EXCEPT ![i] = clock]
    /\ \E q \in DueLists(clock) : due' = [due EXCEPT ![i] = q]
    /\ UNCHANGED <<clock, edits, present, row, copy, got, started, history, alertVars,
                   slot, lost, overwritten, patchVars>>

\* getSchedule: a schedule deleted or paused by now is passed over.
ReadSchedule(i) ==
    /\ stage[i] = "loop"
    /\ due[i] # <<>>
    /\ due' = [due EXCEPT ![i] = Tail(@)]
    /\ LET s == Head(due[i])
       IN  IF s \in present /\ row[s].enabled
           THEN /\ stage' = [stage EXCEPT ![i] = "claim"]
                /\ copy' = [copy EXCEPT ![i] = [id |-> s, timing |-> row[s].timing]]
           ELSE UNCHANGED <<stage, copy>>
    /\ UNCHANGED <<clock, edits, present, row, tick, got, started, history, alertVars,
                   slot, lost, overwritten, patchVars>>

\* Mutant: the flag running is not reset.
EndTickRunning(i) ==
    /\ stage[i] = "loop"
    /\ due[i] = <<>>
    /\ UNCHANGED vars

\* The loop is over.
EndTick(i) ==
    /\ stage[i] = "loop"
    /\ due[i] = <<>>
    /\ stage' = [stage EXCEPT ![i] = "idle"]
    /\ tick' = [tick EXCEPT ![i] = 0]
    /\ UNCHANGED <<clock, edits, present, row, due, copy, got, started, history, alertVars,
                   slot, lost, overwritten, patchVars>>

\* Mutant: the schedule that was read is claimed whatever its row says now.
MayClaimUnconditional(i, s) == s \in present /\ row[s].enabled

\* Mutant: the update does not ask whether the schedule is enabled.
MayClaimPaused(i, s) == s \in present /\ row[s].nextRun <= tick[i]

\* The condition of the update in claimDueSchedule.
MayClaim(i, s) == IsDue(s, tick[i])

\* claimDueSchedule: the row is due a lease from now, or somebody else has it.
Claim(i) ==
    /\ stage[i] = "claim"
    /\ LET s == copy[i].id
       IN  IF MayClaim(i, s)
           THEN /\ stage' = [stage EXCEPT ![i] = "check"]
                /\ row' = [row EXCEPT ![s].nextRun = tick[i] + Lease]
                /\ stale' = stale \cup Overtaken(s)
                /\ UNCHANGED copy
           ELSE /\ stage' = [stage EXCEPT ![i] = "loop"]
                /\ copy' = [copy EXCEPT ![i] = NoCopy]
                /\ UNCHANGED <<row, stale>>
    /\ UNCHANGED <<clock, edits, present, tick, due, got, started, history, alertVars,
                   slot, lost, overwritten, patch>>

\* The end of one turn of the loop.
EndTurn(i) ==
    /\ stage' = [stage EXCEPT ![i] = "loop"]
    /\ copy' = [copy EXCEPT ![i] = NoCopy]
    /\ got' = [got EXCEPT ![i] = NoScan]

\* The owner's account, Premium or a module is gone: the schedule will be paused.
OwnerNotInOrder(i) ==
    /\ stage[i] = "check"
    /\ stage' = [stage EXCEPT ![i] = "pausing"]
    /\ UNCHANGED <<clock, edits, present, row, tick, due, copy, got, started, history,
                   alertVars, slot, lost, overwritten, patchVars>>

\* The owner's other scans reach MAX_ACTIVE_SCANS_PER_USER.
LimitReached(i) ==
    /\ stage[i] = "check"
    /\ stage' = [stage EXCEPT ![i] = "deferring"]
    /\ UNCHANGED <<clock, edits, present, row, tick, due, copy, got, started, history,
                   alertVars, slot, lost, overwritten, patchVars>>

\* The account is in order, and createScan sends the request.
SendCreate(i) ==
    /\ stage[i] = "check"
    /\ stage' = [stage EXCEPT ![i] = "posted"]
    /\ UNCHANGED <<clock, edits, present, row, tick, due, copy, got, started, history,
                   alertVars, slot, lost, overwritten, patchVars>>

\* The worker accepts.  An acceptance after the fifteen seconds is the same as one
\* whose answer is late: until its event comes nobody knows of the scan.
Accept(i) ==
    /\ stage[i] = "posted"
    /\ got[i] = NoScan
    /\ Len(started) < MaxScans
    /\ started' = Append(started, [schedule |-> copy[i].id, slot |-> slot[copy[i].id]])
    /\ got' = [got EXCEPT ![i] = Len(started) + 1]
    /\ UNCHANGED <<clock, edits, present, row, tickVars, history, alertVars, slot, lost, overwritten, patchVars>>

\* The worker refuses: for the target or a module, or for now.
Refuse(i) ==
    /\ patch[i] = NoPatch
    /\ stage[i] = "posted"
    /\ got[i] = NoScan
    /\ \E next \in {"pausing", "deferring"} : stage' = [stage EXCEPT ![i] = next]
    /\ UNCHANGED <<clock, edits, present, row, tick, due, copy, got, started, history,
                   alertVars, slot, lost, overwritten, patchVars>>

\* The fifteen seconds are over, whether the worker has accepted or not.
TimeOut(i) ==
    /\ stage[i] = "posted"
    /\ stage' = [stage EXCEPT ![i] = "deferring"]
    /\ lost' = lost \cup ({got[i]} \ {NoScan})
    /\ got' = [got EXCEPT ![i] = NoScan]
    /\ UNCHANGED <<clock, edits, present, row, tick, due, copy, started, history, alertVars,
                   slot, overwritten, patchVars>>

\* Mutant: a refusal is taken for an acceptance.
GetReplyAlways(i) ==
    /\ stage[i] = "posted"
    /\ stage' = [stage EXCEPT ![i] = "record"]
    /\ UNCHANGED <<clock, edits, present, row, tick, due, copy, got, started, history,
                   alertVars, slot, lost, overwritten, patchVars>>

\* The reply arrives in time.
GetReply(i) ==
    /\ stage[i] = "posted"
    /\ got[i] # NoScan
    /\ stage' = [stage EXCEPT ![i] = "record"]
    /\ UNCHANGED <<clock, edits, present, row, tick, due, copy, got, started, history,
                   alertVars, slot, lost, overwritten, patchVars>>

\* recordScanQueued with the id of the schedule.  When the schedule no longer
\* exists the foreign key fails; that error and any other is only logged.
RecordScan(i) ==
    /\ stage[i] = "record"
    /\ stage' = [stage EXCEPT ![i] = "mark"]
    /\ \/ /\ copy[i].id \in present
          /\ history' = [history EXCEPT ![got[i]] = copy[i].id]
       \/ UNCHANGED history
    /\ UNCHANGED <<clock, edits, present, row, tick, due, copy, got, started, alertVars,
                   slot, lost, overwritten, patchVars>>

\* markScheduleRun, from the timing that was read and the time the tick began.
MarkRun(i) ==
    /\ stage[i] = "mark"
    /\ LET s == copy[i].id
           next == ComputeNextRun(copy[i].timing, tick[i])
       IN  IF s \in present
           THEN /\ row' = [row EXCEPT ![s].nextRun = next, ![s].lastScan = got[i]]
                /\ slot' = [slot EXCEPT ![s] = next]
           ELSE UNCHANGED <<row, slot>>
    /\ stale' = stale \cup Overtaken(copy[i].id)
    /\ EndTurn(i)
    /\ UNCHANGED <<clock, edits, present, tick, due, started, history, alertVars,
                   lost, overwritten, patch>>

\* markScheduleError.
Defer(i) ==
    /\ stage[i] = "deferring"
    /\ LET s == copy[i].id
       IN  row' = IF s \in present THEN [row EXCEPT ![s].nextRun = tick[i] + Lease] ELSE row
    /\ stale' = stale \cup Overtaken(copy[i].id)
    /\ EndTurn(i)
    /\ UNCHANGED <<clock, edits, present, tick, due, started, history, alertVars,
                   slot, lost, overwritten, patch>>

\* setScheduleEnabled.
Pause(i) ==
    /\ stage[i] = "pausing"
    /\ LET s == copy[i].id
       IN  row' = IF s \in present THEN [row EXCEPT ![s].enabled = FALSE] ELSE row
    /\ EndTurn(i)
    /\ UNCHANGED <<clock, edits, present, tick, due, started, history, alertVars,
                   slot, lost, overwritten, patchVars>>

\* The process dies, or a statement throws: the schedule keeps its lease.  Before
\* the claim nothing has changed that lasts, and the tick begins anew.
Crash(i) ==
    /\ stage[i] \in Dispatching
    /\ stage' = [stage EXCEPT ![i] = "idle"]
    /\ tick' = [tick EXCEPT ![i] = 0]
    /\ due' = [due EXCEPT ![i] = <<>>]
    /\ copy' = [copy EXCEPT ![i] = NoCopy]
    /\ got' = [got EXCEPT ![i] = NoScan]
    /\ lost' = lost \cup ({got[i]} \ {NoScan})
    /\ patch' = [patch EXCEPT ![i] = NoPatch]
    /\ UNCHANGED <<clock, edits, present, row, started, history, alertVars, slot, stale,
                   overwritten>>

-----------------------------------------------------------------------------
(* The owner, and time *)

\* PATCH /api/schedules/:id: updateSchedule of an instance reads the row and makes
\* up every column from it, whatever the owner changes, be it the alerts alone.  The
\* next run is computed when the timing of an enabled schedule changes or when it is
\* enabled again; otherwise it is the one that was read.
ReadForUpdate(i, s, timing, enabled) ==
    /\ patch[i] = NoPatch
    /\ edits < MaxEdits
    /\ edits' = edits + 1
    /\ s \in present
    /\ LET times == IF enabled /\ (timing # row[s].timing \/ ~row[s].enabled)
                    THEN [nextRun |-> ComputeNextRun(timing, clock),
                          slot    |-> ComputeNextRun(timing, clock)]
                    ELSE [nextRun |-> row[s].nextRun, slot |-> slot[s]]
       IN  patch' = [patch EXCEPT ![i] =
                       [id |-> s, timing |-> timing, enabled |-> enabled,
                        nextRun |-> times.nextRun, slot |-> times.slot]]
    /\ stale' = stale \ {i}
    /\ UNCHANGED <<clock, present, row, tickVars, got, started, history, alertVars,
                   slot, lost, overwritten>>

\* A patch sets another time than the row has.
Retimes(p) == p.nextRun # row[p.id].nextRun \/ p.slot # slot[p.id]

\* The UPDATE of updateSchedule, without a condition on what the row says by now.
\* It finds no row when the schedule was deleted, and it may throw.
WriteBack(i) ==
    /\ patch[i] # NoPatch
    /\ patch' = [patch EXCEPT ![i] = NoPatch]
    /\ LET p == patch[i]
       IN  \/ /\ p.id \in present
              /\ row' = [row EXCEPT ![p.id].timing = p.timing, ![p.id].enabled = p.enabled,
                                    ![p.id].nextRun = p.nextRun]
              /\ slot' = [slot EXCEPT ![p.id] = p.slot]
              /\ stale' = stale \cup Overtaken(p.id)
              /\ overwritten' = IF \/ i \in stale
                                   \/ Held(p.id) /\ Retimes(p)
                                THEN overwritten \cup {p.id} ELSE overwritten
           \/ UNCHANGED <<row, slot, stale, overwritten>>
    /\ UNCHANGED <<clock, edits, present, tickVars, got, started, history, alertVars, lost>>

\* DELETE /api/schedules/:id.  The rows of its scans keep no reference to it.
DeleteSchedule(s) ==
    /\ edits < MaxEdits
    /\ edits' = edits + 1
    /\ s \in present
    /\ present' = present \ {s}
    /\ history' = [j \in Scans |-> IF history[j] = s THEN "unlinked" ELSE history[j]]
    /\ UNCHANGED <<clock, row, tickVars, got, started, alertVars, slot, lost, overwritten, patchVars>>

\* A tick is over within MaxTick.
Advance ==
    /\ clock < MaxClock
    /\ \A i \in Instances : stage[i] # "idle" => clock < tick[i] + MaxTick
    /\ clock' = clock + 1
    /\ UNCHANGED <<edits, present, row, tickVars, got, started, history, alertVars,
                   slot, lost, overwritten, patchVars>>

-----------------------------------------------------------------------------
(* Scan events and alerts *)

\* The schedules maybeSendScheduleAlert finds for a scan: the one its row names,
\* or the one that last ran it.
ScheduleOf(j, h) ==
    {s \in present : h[j] = s \/ (h[j] = "unlinked" /\ row[s].lastScan = j)}

\* A copy of the event: applyScanEvent inserts the row if there is none, and
\* maybeSendScheduleAlert runs to where it sends the mail, if the change is worth
\* one and mail is configured.
HandleEvent(j) ==
    /\ j \in 1..Len(started)
    /\ handled[j] < MaxCopies
    /\ handled' = [handled EXCEPT ![j] = @ + 1]
    /\ history' = [history EXCEPT ![j] = IF @ = "absent" THEN "unlinked" ELSE @]
    /\ \/ UNCHANGED mailing
       \/ \E s \in ScheduleOf(j, history') :
             /\ row[s].lastAlert # j
             /\ mailing' = mailing \cup {[scan |-> j, schedule |-> s, copy |-> handled'[j]]}
    /\ UNCHANGED <<clock, edits, present, row, tickVars, got, started, mailed,
                   slot, lost, overwritten, patchVars>>

\* The mail is sent, and recordScheduleAlert writes that down.
MailSent(m) ==
    /\ mailing' = mailing \ {m}
    /\ mailed' = mailed \cup {m}
    /\ row' = IF m.schedule \in present
              THEN [row EXCEPT ![m.schedule].lastAlert = m.scan] ELSE row
    /\ UNCHANGED <<clock, edits, present, tickVars, got, started, history, handled,
                   slot, lost, overwritten, patchVars>>

\* Mutant: the alert is written down before it is sent.
MailFailsRecorded(m) ==
    /\ mailing' = mailing \ {m}
    /\ row' = [row EXCEPT ![m.schedule].lastAlert = m.scan]
    /\ UNCHANGED <<clock, edits, present, tickVars, got, started, history, handled, mailed,
                   slot, lost, overwritten, patchVars>>

\* The mail cannot be sent, or the process dies.
MailFails(m) ==
    /\ mailing' = mailing \ {m}
    /\ UNCHANGED <<clock, edits, present, row, tickVars, got, started, history, handled,
                   mailed, slot, lost, overwritten, patchVars>>

-----------------------------------------------------------------------------
\* A step the dispatcher takes by itself, while no update of the owner is under way
\* in the same process.
Dispatch(i) ==
    /\ patch[i] = NoPatch
    /\ \/ ListDue(i)
       \/ ReadSchedule(i)
       \/ EndTick(i)
       \/ Claim(i)
       \/ OwnerNotInOrder(i)
       \/ LimitReached(i)
       \/ SendCreate(i)
       \/ TimeOut(i)
       \/ GetReply(i)
       \/ RecordScan(i)
       \/ MarkRun(i)
       \/ Defer(i)
       \/ Pause(i)

Next ==
    \/ \E i \in Instances :
          \/ Dispatch(i) \/ Accept(i) \/ Refuse(i) \/ Crash(i)
          \/ \E s \in Schedules, timing \in Timings, enabled \in BOOLEAN :
                ReadForUpdate(i, s, timing, enabled)
          \/ WriteBack(i)
    \/ \E s \in Schedules : DeleteSchedule(s)
    \/ Advance
    \/ \E j \in Scans : HandleEvent(j)
    \/ \E m \in mailing : MailSent(m) \/ MailFails(m)

Spec == Init /\ [][Next]_vars

\* The timers fire, the dispatchers go on and an update that has begun ends.  Nothing
\* is assumed of the worker, the mail or the owner.
FairSpec == Spec /\ \A i \in Instances : WF_vars(Dispatch(i)) /\ WF_vars(WriteBack(i))

-----------------------------------------------------------------------------
RowType ==
    [enabled : BOOLEAN, nextRun : Nat, timing : Timings, lastScan : Scans \cup {NoScan},
     lastAlert : Scans \cup {NoScan}]

CopyType == [id : Schedules, timing : Timings]

PatchType ==
    [id : Schedules, timing : Timings, enabled : BOOLEAN, nextRun : Nat, slot : Nat]

AlertType == [scan : Scans, schedule : Schedules, copy : 1..MaxCopies]

TypeOK ==
    /\ clock \in 0..MaxClock
    /\ edits \in 0..MaxEdits
    /\ present \in SUBSET Schedules
    /\ row \in [Schedules -> RowType]
    /\ stage \in [Instances -> Dispatching \cup {"idle", "loop", "claim"}]
    /\ tick \in [Instances -> 0..MaxClock]
    /\ due \in [Instances -> Seq(Schedules)]
    /\ copy \in [Instances -> CopyType \cup {NoCopy}]
    /\ got \in [Instances -> Scans \cup {NoScan}]
    /\ started \in Seq([schedule : Schedules, slot : Nat])
    /\ Len(started) <= MaxScans
    /\ handled \in [Scans -> 0..MaxCopies]
    /\ history \in [Scans -> Schedules \cup {"absent", "unlinked"}]
    /\ mailing \in SUBSET AlertType
    /\ mailed \in SUBSET AlertType
    /\ slot \in [Schedules -> Nat]
    /\ lost \in SUBSET Scans
    /\ patch \in [Instances -> PatchType \cup {NoPatch}]
    /\ stale \in SUBSET Instances
    /\ overwritten \in SUBSET Schedules
    /\ \A i \in Instances :
          /\ IF stage[i] \in {"idle", "loop"} THEN copy[i] = NoCopy ELSE copy[i] \in CopyType
          /\ stage[i] \in {"record", "mark"} => got[i] # NoScan
          /\ stage[i] \notin {"posted", "record", "mark"} => got[i] = NoScan

\* scheduler.ts:127, "Each due row is claimed atomically with a short retry lease":
\* no two instances dispatch one schedule at a time.  Left out are the schedules
\* whose owner's update wrote over what another instance wrote between its two
\* statements, or set a new time during a dispatch (schedules.ts:202-243): that undoes
\* a claim.
OneHolder ==
    \A s \in Schedules \ overwritten : \A i, k \in Instances :
        Holds(i, s) /\ Holds(k, s) => i = k

\* A schedule is dispatched once for each of its regular times, however often it
\* was retried and whichever instance did it, and an update of the owner that nobody
\* writes across, of the alerts or the timing, does not make a time due again.  A
\* second scan for one time follows only an answer that was lost (scheduler.ts:90,
\* 154) or one of the updates OneHolder leaves out.
OneScanPerSlot ==
    \A j, k \in 1..Len(started) :
        /\ started[j] = started[k]
        /\ j \notin lost /\ k \notin lost
        /\ started[j].schedule \notin overwritten
        => j = k

\* An alert is written down only when it has been sent, and for the schedule that
\* started the scan: one that fails may be tried with the next copy of the event
\* (schedule-alerts.ts:120).
AlertWasSent ==
    \A s \in Schedules :
        LET j == row[s].lastAlert
        IN  j # NoScan => /\ \E m \in mailed : m.scan = j /\ m.schedule = s
                          /\ started[j].schedule = s

\* The lease outlasts the tick: whoever holds a schedule keeps it from being due
\* until the tick is over.
LeaseInvariant ==
    /\ TypeOK
    /\ \A i \in Instances :
          stage[i] # "idle" => tick[i] <= clock /\ clock <= tick[i] + MaxTick
    /\ \A i \in Instances, s \in Schedules \ overwritten :
          Holds(i, s) => row[s].nextRun = tick[i] + Lease
    /\ OneHolder

\* A patch that nobody has overtaken keeps the times of the row, or sets a regular
\* time beyond those any scan was started or is being dispatched for.
PatchInvariant ==
    \A k \in Instances \ stale : patch[k] # NoPatch =>
        LET p == patch[k]
        IN  \/ p.id \in overwritten
            \/ ~Retimes(p)
            \/ /\ p.nextRun = p.slot
               /\ \A i \in Instances : Holds(i, p.id) => tick[i] < p.slot
               /\ \A j \in 1..Len(started) :
                     started[j].schedule = p.id => started[j].slot < p.slot

\* The regular times of a schedule only grow: a scan that was started for the
\* current one is being dispatched, lost, or the last of a deleted schedule.
SlotInvariant ==
    /\ LeaseInvariant
    /\ \A s \in Schedules \ overwritten :
          /\ slot[s] <= row[s].nextRun
          /\ \A i \in Instances : Holds(i, s) => slot[s] <= tick[i]
    /\ \A j \in 1..Len(started) :
          LET s == started[j].schedule
          IN  s \notin overwritten =>
                /\ started[j].slot <= slot[s]
                /\ started[j].slot <= clock
                /\ started[j].slot = slot[s] /\ j \notin lost =>
                      \/ \E i \in Instances : Holds(i, s) /\ got[i] = j
                      \/ s \notin present /\ ~Held(s)
    /\ OneScanPerSlot

\* What is paused or deleted, and not being dispatched, is not dispatched by an
\* instance that listed or read it before (scheduler.ts:142).
PausedStaysQuiet ==
    [][\A s \in Schedules :
        ~(s \in present /\ row[s].enabled) /\ ~Held(s) => ~Held(s)']_vars

\* A due schedule is taken up: run, deferred or paused.  Refusals, lost answers,
\* crashes and a tick that fails leave none behind for ever.
DueIsServed == \A s \in Schedules : IsDue(s, clock) ~> ~IsDue(s, clock)

=============================================================================
