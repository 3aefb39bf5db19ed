----------------------------- MODULE BillingProofs -----------------------------
(***************************************************************************)
(* Proofs about Billing, for any subscriptions, any number of requests at a *)
(* time and any bounds.                                                     *)
(***************************************************************************)
EXTENDS Billing, SequenceTheorems, TLAPS

LEMMA BillingLimits ==
    MaxVersion \in Nat \ {0} /\ MaxDuplicates \in Nat /\ MaxCrashes \in Nat /\ None \notin Subs
BY BillingConstants

LEMMA ThreeStatuses == Statuses = {"active", "past_due", "canceled"} /\ ActiveStatuses \subseteq Statuses
BY DEF Statuses, ActiveStatuses

-----------------------------------------------------------------------------
(* Events *)

\* Stripe has every subscription an event is about, and the requests under way
\* handle events there are.
Known ==
    /\ \A i \in 1..Len(events) : /\ stripe[events[i].sub].status \in Statuses
                                 /\ stripe[events[i].sub].version >= 1
    /\ \A d \in Slots : slots[d] # Idle => slots[d].event \in 1..Len(events)

StripeType ==
    [status: Statuses \cup {None}, version: 0..MaxVersion, customer: Customers]

\* A change at Stripe adds events about the subscription that changed.
LEMMA ChangesType ==
    ASSUME TypeOK, Known, NEW s \in Subs, NEW state \in StripeType, NEW kinds \in Seq(Kinds),
           state.status \in Statuses, state.version = stripe[s].version,
           Changes(s, state, kinds), slots' = slots
    PROVE  /\ stripe' \in [Subs -> StripeType]
           /\ events' \in Seq(EventType)
           /\ Known'
<1> USE BillingLimits
<1> DEFINE more == [i \in 1..Len(kinds) |-> Event(kinds[i], s, state.status, state.version + 1)]
<1>1. state.version + 1 \in 1..MaxVersion /\ stripe[s].version < MaxVersion
  BY DEF Changes, StripeType
<1>2. more \in Seq(EventType) /\ Len(more) = Len(kinds)
  <2>1. \A i \in 1..Len(kinds) : Event(kinds[i], s, state.status, state.version + 1) \in EventType
    BY <1>1 DEF Event, EventType
  <2> QED
    BY <2>1
<1>3. \A i \in 1..Len(more) : more[i].sub = s
  BY <1>2 DEF Event
<1>4. events' = events \o more /\ events \in Seq(EventType)
  BY DEF Changes, TypeOK
<1> HIDE DEF more
<1>5. /\ events' \in Seq(EventType) /\ Len(events') = Len(events) + Len(more)
      /\ \A i \in 1..Len(events) : events'[i] = events[i]
      /\ \A i \in 1..Len(events') : i \notin 1..Len(events) => events'[i].sub = s
  BY <1>2, <1>3, <1>4
<1>6. [state EXCEPT !.version = @ + 1] \in StripeType
  BY <1>1 DEF StripeType
<1>7. stripe' \in [Subs -> StripeType]
  BY <1>6 DEF Changes, TypeOK, StripeType
<1>8. /\ stripe'[s].status \in Statuses /\ stripe'[s].version >= 1
      /\ \A t \in Subs \ {s} : stripe'[t] = stripe[t]
  <2>1. stripe' = [stripe EXCEPT ![s] = [state EXCEPT !.version = @ + 1]] /\ stripe \in [Subs -> StripeType]
    BY DEF Changes, TypeOK, StripeType
  <2>2. [state EXCEPT !.version = @ + 1].status = state.status
        /\ [state EXCEPT !.version = @ + 1].version = state.version + 1
    BY DEF StripeType
  <2> QED
    BY <1>1, <2>1, <2>2
<1>9. \A i \in 1..Len(events) : events[i].sub \in Subs
  <2>1. \A i \in 1..Len(events) : events[i] \in EventType
    BY <1>4, ElementOfSeq
  <2> QED
    BY <2>1 DEF EventType
<1>10. \A i \in 1..Len(events') : stripe'[events'[i].sub].status \in Statuses
                                   /\ stripe'[events'[i].sub].version >= 1
  BY <1>5, <1>8, <1>9 DEF Known
<1>11. \A d \in Slots : slots'[d] # Idle => slots'[d].event \in 1..Len(events')
  BY <1>2, <1>4, <1>5 DEF Known
<1> QED
  BY <1>5, <1>7, <1>10, <1>11 DEF Known

\* The row of an event does not change what the event says.
SameEvents(log) ==
    /\ log \in Seq(EventType) /\ Len(log) = Len(events)
    /\ \A i \in 1..Len(events) : log[i].sub = events[i].sub

LEMMA AnsweredType ==
    ASSUME NEW log, SameEvents(log), NEW i \in 1..Len(events), NEW row \in {None, "ok", "error"}
    PROVE  SameEvents(Answered(log, i, row))
<1>1. log[i] \in EventType /\ i \in 1..Len(log)
  BY DEF SameEvents
<1>2. CASE log[i].row # None
  BY <1>2 DEF Answered
<1>3. CASE log[i].row = None
  <2> DEFINE b == log[i].acked \/ row = "ok"
             e == [log[i] EXCEPT !.row = row, !.acked = b]
  <2>1. b \in BOOLEAN
    OBVIOUS
  <2>2. ASSUME NEW t \in EventType, NEW a \in BOOLEAN
        PROVE  /\ [t EXCEPT !.row = row, !.acked = a] \in EventType
               /\ [t EXCEPT !.row = row, !.acked = a].sub = t.sub
    BY DEF EventType
  <2> HIDE DEF b
  <2>3. e \in EventType /\ e.sub = log[i].sub
    BY <1>1, <2>1, <2>2
  <2>4. Answered(log, i, row) = [log EXCEPT ![i] = e]
    BY <1>1, <1>3, Zenon DEF Answered, b
  <2> HIDE DEF e
  <2> QED
    BY <1>1, <2>3, <2>4 DEF SameEvents
<1> QED
  BY <1>2, <1>3

LEMMA BegunType ==
    ASSUME TypeOK, NEW i \in 1..Len(events)
    PROVE  SameEvents(Begun(i)) /\ SameEvents(events)
<1>1. events[i] \in EventType /\ events \in Seq(EventType)
  BY DEF TypeOK
<1>2. [events[i] EXCEPT !.row = None] \in EventType /\ [events[i] EXCEPT !.row = None].sub = events[i].sub
  BY <1>1 DEF EventType
<1>3. Begun(i) = [events EXCEPT ![i] = [events[i] EXCEPT !.row = None]]
  BY Zenon DEF Begun
<1> QED
  BY <1>1, <1>2, <1>3 DEF SameEvents

\* A step of a request: the events stay those they are.
LEMMA KnownFrame ==
    ASSUME Known, stripe' = stripe, SameEvents(events'),
           \A d \in Slots : slots'[d] # Idle => slots'[d].event \in 1..Len(events)
    PROVE  Known' /\ events' \in Seq(EventType)
BY DEF Known, SameEvents

-----------------------------------------------------------------------------
(* What the handlers write *)

LEMMA AllStatements == Complete \in 0..Complete /\ Complete = 3
BY DEF Complete

LEMMA ApplyType ==
    ASSUME TypeOK, NEW s \in Subs, NEW st \in Statuses, NEW v \in 1..MaxVersion,
           NEW k \in 0..Complete, Apply(s, st, v, k)
    PROVE  /\ rows' \in [Subs -> Statuses \cup {None}] /\ order' \in Seq(Subs)
           /\ customer' \in Customers /\ entitled' \in Subs \cup {None}
           /\ written' \in [Subs -> 0..MaxVersion] /\ applied' \in [Subs -> 0..MaxVersion]
           /\ overtaken' \in BOOLEAN
<1> USE BillingLimits
<1>1. CASE FindsUser(s)
  <2>1. rows' \in [Subs -> Statuses \cup {None}]
    BY <1>1 DEF Apply, TypeOK
  <2>2. order' \in Seq(Subs)
    <3>1. order' = Append(order, s) \/ order' = order
      BY <1>1, Zenon DEF Apply
    <3>2. order \in Seq(Subs)
      BY DEF TypeOK
    <3> QED
      BY <3>1, <3>2
  <2>3. customer' \in Customers
    BY <1>1 DEF Apply, TypeOK
  <2>4. entitled' \in Subs \cup {None}
    BY <1>1 DEF Apply, Entitlement, TypeOK
  <2>5. written' \in [Subs -> 0..MaxVersion] /\ applied' \in [Subs -> 0..MaxVersion]
    <3>1. /\ written' = [written EXCEPT ![s] = IF k >= 1 /\ v > written[s] THEN v ELSE written[s]]
          /\ applied' = [applied EXCEPT ![s] = IF k >= 3 /\ v > applied[s] THEN v ELSE applied[s]]
      BY <1>1, Zenon DEF Apply
    <3>2. written \in [Subs -> 0..MaxVersion] /\ applied \in [Subs -> 0..MaxVersion]
      BY DEF TypeOK
    <3> QED
      BY <3>1, <3>2
  <2>6. overtaken' \in BOOLEAN
    BY <1>1, Zenon DEF Apply
  <2> QED
    BY <2>1, <2>2, <2>3, <2>4, <2>5, <2>6
<1>2. CASE ~FindsUser(s)
  BY <1>2 DEF Apply, TypeOK, billingVars, historyVars
<1> QED
  BY <1>1, <1>2

LEMMA SlotRow ==
    ASSUME TypeOK, NEW d \in Slots
    PROVE  /\ slots[d].at = "retrieving" => slots[d] # Idle /\ slots[d].event \in Nat
           /\ slots[d].at = "applying" =>
                /\ slots[d] # Idle /\ slots[d].event \in Nat
                /\ slots[d].status \in Statuses /\ slots[d].version \in 1..MaxVersion
<1>1. slots[d] \in SlotType
  BY DEF TypeOK
<1>2. CASE slots[d] = Idle
  BY <1>2 DEF Idle
<1>3. CASE slots[d] # Idle
  BY <1>1, <1>3 DEF SlotType
<1> QED
  BY <1>2, <1>3

LEMMA NewSlots ==
    /\ Idle \in SlotType
    /\ \A i \in Nat : /\ [at |-> "retrieving", event |-> i] \in SlotType
                      /\ \A st \in Statuses, v \in 1..MaxVersion :
                            [at |-> "applying", event |-> i, status |-> st, version |-> v] \in SlotType
BY DEF SlotType

LEMMA StripeRow ==
    ASSUME TypeOK, NEW s \in Subs
    PROVE  stripe[s] \in StripeType
BY DEF TypeOK, StripeType

LEMMA EventSub ==
    ASSUME TypeOK, NEW i \in 1..Len(events)
    PROVE  /\ events[i] \in EventType /\ events[i].sub \in Subs
           /\ events[i].status \in Statuses /\ events[i].version \in 1..MaxVersion
<1>1. events[i] \in EventType
  BY ElementOfSeq DEF TypeOK
<1> QED
  BY <1>1 DEF EventType

-----------------------------------------------------------------------------
(* Types *)

\* A state of a subscription that differs in the status and the customer.
Follows(t, n, st) == n \in StripeType /\ n.status = st /\ n.version = t.version

LEMMA FollowingState ==
    ASSUME NEW t \in StripeType, NEW st \in Statuses, NEW c \in Customers
    PROVE  /\ Follows(t, [t EXCEPT !.status = st], st)
           /\ Follows(t, [t EXCEPT !.status = st, !.customer = c], st)
BY DEF Follows, StripeType

LEMMA StripeStep ==
    ASSUME TypeOK, Known, NEW s \in Subs,
           Subscribe(s) \/ PaymentFails(s) \/ PaymentMade(s) \/ Ends(s)
    PROVE  TypeOK' /\ Known'
<1>1. stripe[s] \in StripeType
  BY StripeRow
<1>2. ASSUME NEW st \in Statuses, NEW c \in Customers
      PROVE  /\ Follows(stripe[s], [stripe[s] EXCEPT !.status = st], st)
             /\ Follows(stripe[s], [stripe[s] EXCEPT !.status = st, !.customer = c], st)
  BY <1>1, FollowingState
<1>3. /\ "active" \in Statuses /\ "past_due" \in Statuses /\ "canceled" \in Statuses
      /\ <<"subscription">> \in Seq(Kinds) /\ <<"subscription", "checkout">> \in Seq(Kinds)
      /\ <<"invoice", "subscription">> \in Seq(Kinds)
  BY ThreeStatuses DEF Kinds
<1>4. slots' = slots
  BY DEF Subscribe, PaymentFails, PaymentMade, Ends, requestVars
<1>5. stripe' \in [Subs -> StripeType] /\ events' \in Seq(EventType) /\ Known'
  <2>1. CASE Subscribe(s)
    <3>1. PICK c \in {s} \cup ({customer} \ {None}) :
             Changes(s, [stripe[s] EXCEPT !.status = "active", !.customer = c],
                     <<"subscription", "checkout">>)
      BY <2>1 DEF Subscribe
    <3>2. c \in Customers
      BY DEF Customers, TypeOK
    <3> DEFINE n == [stripe[s] EXCEPT !.status = "active", !.customer = c]
    <3>3. n \in StripeType /\ n.status \in Statuses /\ n.version = stripe[s].version
      BY <1>2, <1>3, <3>2 DEF Follows
    <3>4. PICK kinds \in Seq(Kinds) : Changes(s, n, kinds)
      BY <1>3, <3>1
    <3> HIDE DEF n
    <3> QED
      BY <1>4, <3>3, <3>4, ChangesType
  <2>2. None \in Customers
    BY DEF Customers
  <2>3. CASE PaymentFails(s)
    BY <1>2, <1>3, <1>4, <2>2, <2>3, ChangesType DEF PaymentFails, Follows
  <2>4. CASE PaymentMade(s)
    <3> DEFINE n == [stripe[s] EXCEPT !.status = "active"]
    <3>1. n \in StripeType /\ n.status \in Statuses /\ n.version = stripe[s].version
      BY <1>2, <1>3, <2>2 DEF Follows
    <3>2. PICK kinds \in Seq(Kinds) : Changes(s, n, kinds)
      BY <1>3, <2>4 DEF PaymentMade
    <3> HIDE DEF n
    <3> QED
      BY <1>4, <3>1, <3>2, ChangesType
  <2>5. CASE Ends(s)
    BY <1>2, <1>3, <1>4, <2>2, <2>5, ChangesType DEF Ends, Follows
  <2> QED
    BY <2>1, <2>3, <2>4, <2>5
<1>6. UNCHANGED <<requestVars, billingVars, user, boundVars, historyVars>>
  BY DEF Subscribe, PaymentFails, PaymentMade, Ends
<1> QED
  BY <1>5, <1>6 DEF TypeOK, StripeType, requestVars, billingVars, boundVars, historyVars

LEMMA DeliveryStep ==
    ASSUME TypeOK, Known, NEW i \in 1..Len(events), Delivery(i)
    PROVE  TypeOK' /\ Known'
<1> USE BillingLimits
<1> USE DEF requestVars, billingVars, boundVars, historyVars
<1>2. i \in Nat /\ Len(events) \in Nat
  BY DEF TypeOK
<1>3. duplicates' \in 0..MaxDuplicates
  <2>1. MayDeliver(i)
    BY DEF Delivery, Acknowledge, HandlePayload, BeginRetrieve
  <2> QED
    BY <2>1 DEF MayDeliver, TypeOK
<1>4. CASE Acknowledge(i)
  <2>1. [events[i] EXCEPT !.acked = TRUE] \in EventType /\ [events[i] EXCEPT !.acked = TRUE].sub = events[i].sub
    BY EventSub DEF EventType
  <2>2. SameEvents(events')
    BY <1>4, <2>1 DEF Acknowledge, SameEvents, TypeOK
  <2>3. Known' /\ events' \in Seq(EventType)
    BY <1>4, <2>2, KnownFrame DEF Acknowledge, Known
  <2> QED
    BY <1>3, <1>4, <2>3 DEF Acknowledge, TypeOK
<1>5. CASE HandlePayload(i)
  <2>1. SameEvents(events')
    BY <1>5, BegunType, AnsweredType DEF HandlePayload
  <2>2. Known' /\ events' \in Seq(EventType)
    BY <1>5, <2>1, KnownFrame DEF HandlePayload, Known
  <2>3. /\ rows' \in [Subs -> Statuses \cup {None}] /\ order' \in Seq(Subs)
        /\ customer' \in Customers /\ entitled' \in Subs \cup {None}
        /\ written' \in [Subs -> 0..MaxVersion] /\ applied' \in [Subs -> 0..MaxVersion]
        /\ overtaken' \in BOOLEAN
    BY <1>5, EventSub, ApplyType, AllStatements DEF HandlePayload
  <2> QED
    BY <1>3, <1>5, <2>2, <2>3 DEF HandlePayload, TypeOK
<1>6. ASSUME NEW d \in Slots, BeginRetrieve(d, i)
      PROVE  TypeOK' /\ Known'
  <2>1. SameEvents(events')
    BY <1>6, BegunType DEF BeginRetrieve
  <2>2. slots' \in [Slots -> SlotType]
    BY <1>2, <1>6, NewSlots DEF BeginRetrieve, TypeOK
  <2>3. \A c \in Slots : slots'[c] # Idle => slots'[c].event \in 1..Len(events)
    BY <1>6 DEF BeginRetrieve, TypeOK, Known
  <2>4. Known' /\ events' \in Seq(EventType)
    BY <1>6, <2>1, <2>3, KnownFrame DEF BeginRetrieve
  <2>5. customer' \in Customers
    BY <1>6, EventSub DEF BeginRetrieve, TypeOK
  <2> QED
    BY <1>3, <1>6, <2>2, <2>4, <2>5 DEF BeginRetrieve, TypeOK
<1> QED
  BY <1>4, <1>5, <1>6 DEF Delivery

\* A handler that ends before its last statement.
LEMMA InterruptedType ==
    ASSUME TypeOK, Known, stripe' = stripe, NEW i \in 1..Len(events), NEW log, SameEvents(log),
           NEW others \in [Slots -> SlotType],
           \A d \in Slots : others[d] # Idle => others[d].event \in 1..Len(events),
           Interrupted(i, log, others)
    PROVE  /\ Known' /\ events' \in Seq(EventType) /\ slots' \in [Slots -> SlotType]
           /\ asking' \in Subs \cup {None} /\ crashes' \in 0..MaxCrashes
<1> USE BillingLimits
<1>1. SameEvents(Answered(log, i, FailureRow(i)))
  BY AnsweredType DEF FailureRow
<1>2. SameEvents(events')
  BY <1>1 DEF Interrupted
<1>3. /\ slots' \in [Slots -> SlotType]
      /\ \A d \in Slots : slots'[d] # Idle => slots'[d].event \in 1..Len(events)
  BY NewSlots DEF Interrupted
<1>4. Known' /\ events' \in Seq(EventType)
  BY <1>2, <1>3, KnownFrame
<1>5. asking' \in Subs \cup {None} /\ crashes' \in 0..MaxCrashes
  BY DEF Interrupted, TypeOK
<1> QED
  BY <1>3, <1>4, <1>5

LEMMA DeliveryInterruptedStep ==
    ASSUME TypeOK, Known, NEW i \in 1..Len(events), DeliveryInterrupted(i)
    PROVE  TypeOK' /\ Known'
<1> USE BillingLimits
<1>1. /\ Known' /\ events' \in Seq(EventType) /\ slots' \in [Slots -> SlotType]
      /\ asking' \in Subs \cup {None} /\ crashes' \in 0..MaxCrashes
  <2>1. SameEvents(Begun(i))
    BY BegunType
  <2>2. /\ slots \in [Slots -> SlotType]
        /\ \A d \in Slots : slots[d] # Idle => slots[d].event \in 1..Len(events)
    BY DEF TypeOK, Known
  <2>3. stripe' = stripe /\ Interrupted(i, Begun(i), slots)
    BY DEF DeliveryInterrupted
  <2> QED
    BY <2>1, <2>2, <2>3, InterruptedType
<1>2. duplicates' \in 0..MaxDuplicates
  BY DEF DeliveryInterrupted, MayDeliver, TypeOK
<1>3. /\ rows' \in [Subs -> Statuses \cup {None}] /\ order' \in Seq(Subs)
      /\ customer' \in Customers /\ entitled' \in Subs \cup {None}
      /\ written' \in [Subs -> 0..MaxVersion] /\ applied' \in [Subs -> 0..MaxVersion]
      /\ overtaken' \in BOOLEAN
  BY EventSub, ApplyType DEF DeliveryInterrupted
<1> QED
  BY <1>1, <1>2, <1>3 DEF DeliveryInterrupted, TypeOK

LEMMA ApplyInterruptedStep ==
    ASSUME TypeOK, Known, NEW d \in Slots, ApplyInterrupted(d)
    PROVE  TypeOK' /\ Known'
<1> USE BillingLimits
<1> DEFINE i == slots[d].event
           others == [slots EXCEPT ![d] = Idle]
<1>1. /\ slots[d].at = "applying" /\ i \in 1..Len(events)
      /\ slots[d].status \in Statuses /\ slots[d].version \in 1..MaxVersion
  BY SlotRow DEF ApplyInterrupted, Known
<1>2. /\ Known' /\ events' \in Seq(EventType) /\ slots' \in [Slots -> SlotType]
      /\ asking' \in Subs \cup {None} /\ crashes' \in 0..MaxCrashes
  <2>1. SameEvents(events)
    BY <1>1, BegunType
  <2>2. /\ others \in [Slots -> SlotType]
        /\ \A c \in Slots : others[c] # Idle => others[c].event \in 1..Len(events)
    BY NewSlots DEF TypeOK, Known
  <2>3. stripe' = stripe /\ Interrupted(i, events, others)
    BY DEF ApplyInterrupted
  <2> HIDE DEF i, others
  <2> QED
    BY <1>1, <2>1, <2>2, <2>3, InterruptedType
<1>3. /\ rows' \in [Subs -> Statuses \cup {None}] /\ order' \in Seq(Subs)
      /\ customer' \in Customers /\ entitled' \in Subs \cup {None}
      /\ written' \in [Subs -> 0..MaxVersion] /\ applied' \in [Subs -> 0..MaxVersion]
      /\ overtaken' \in BOOLEAN
  BY <1>1, EventSub, ApplyType DEF ApplyInterrupted
<1> QED
  BY <1>2, <1>3 DEF ApplyInterrupted, TypeOK

LEMMA HandlerStep ==
    ASSUME TypeOK, Known, NEW d \in Slots, Handler(d)
    PROVE  TypeOK' /\ Known'
<1> USE BillingLimits
<1> USE DEF requestVars, billingVars, boundVars, historyVars
<1>1. slots[d] # Idle /\ slots[d].event \in 1..Len(events)
  BY SlotRow DEF Handler, Retrieved, RetrieveFails, ApplyRetrieved, Known
<1> DEFINE i == slots[d].event
<1>2. CASE Retrieved(d)
  <2>1. stripe[events[i].sub].status \in Statuses /\ stripe[events[i].sub].version \in 1..MaxVersion
    <3>1. stripe[events[i].sub].status \in Statuses /\ stripe[events[i].sub].version >= 1
      BY <1>1 DEF Known
    <3>2. stripe[events[i].sub].version \in 0..MaxVersion
      BY <1>1, EventSub, StripeRow DEF StripeType
    <3> QED
      BY <3>1, <3>2
  <2>2. slots' \in [Slots -> SlotType]
    <3>1. slots' = [slots EXCEPT ![d] = [at |-> "applying", event |-> i,
             status |-> stripe[events[i].sub].status, version |-> stripe[events[i].sub].version]]
      BY <1>2, Zenon DEF Retrieved
    <3>2. slots \in [Slots -> SlotType] /\ i \in Nat
      BY <1>1 DEF TypeOK
    <3> QED
      BY <2>1, <3>1, <3>2, NewSlots
  <2>3. \A c \in Slots : slots'[c] # Idle => slots'[c].event \in 1..Len(events)
    BY <1>1, <1>2 DEF Retrieved, TypeOK, Known
  <2>4. Known'
    BY <1>2, <2>3, BegunType, KnownFrame DEF Retrieved, Known
  <2> QED
    BY <1>2, <2>2, <2>4 DEF Retrieved, TypeOK
<1>3. CASE RetrieveFails(d)
  <2>1. SameEvents(events')
    BY <1>1, <1>3, BegunType, AnsweredType DEF RetrieveFails, FailureRow
  <2>2. slots' \in [Slots -> SlotType]
    BY <1>3, NewSlots DEF RetrieveFails, TypeOK
  <2>3. \A c \in Slots : slots'[c] # Idle => slots'[c].event \in 1..Len(events)
    BY <1>3 DEF RetrieveFails, TypeOK, Known
  <2>4. Known' /\ events' \in Seq(EventType)
    BY <1>3, <2>1, <2>3, KnownFrame DEF RetrieveFails
  <2> QED
    BY <1>3, <2>2, <2>4 DEF RetrieveFails, TypeOK
<1>4. CASE ApplyRetrieved(d)
  <2>1. SameEvents(events')
    BY <1>1, <1>4, BegunType, AnsweredType DEF ApplyRetrieved
  <2>2. slots' \in [Slots -> SlotType]
    BY <1>4, NewSlots DEF ApplyRetrieved, TypeOK
  <2>3. \A c \in Slots : slots'[c] # Idle => slots'[c].event \in 1..Len(events)
    BY <1>4 DEF ApplyRetrieved, TypeOK, Known
  <2>4. Known' /\ events' \in Seq(EventType)
    BY <1>4, <2>1, <2>3, KnownFrame DEF ApplyRetrieved
  <2>5. /\ rows' \in [Subs -> Statuses \cup {None}] /\ order' \in Seq(Subs)
        /\ customer' \in Customers /\ entitled' \in Subs \cup {None}
        /\ written' \in [Subs -> 0..MaxVersion] /\ applied' \in [Subs -> 0..MaxVersion]
        /\ overtaken' \in BOOLEAN
    BY <1>1, <1>4, EventSub, SlotRow, ApplyType, AllStatements DEF ApplyRetrieved
  <2> QED
    BY <1>4, <2>2, <2>4, <2>5 DEF ApplyRetrieved, TypeOK
<1> QED
  BY <1>2, <1>3, <1>4 DEF Handler

\* The account goes: nothing of it is left.
LEMMA PurgeType ==
    ASSUME TypeOK, Purge
    PROVE  /\ rows' \in [Subs -> Statuses \cup {None}] /\ order' \in Seq(Subs)
           /\ customer' \in Customers /\ entitled' \in Subs \cup {None}
           /\ user' \in {"active", "deletion_pending", "gone"}
BY DEF Purge, Customers

LEMMA AccountStep ==
    ASSUME TypeOK, Known, Account
    PROVE  TypeOK' /\ Known'
<1> USE DEF requestVars, billingVars, boundVars, historyVars
<1>1. CASE RequestDeletion
  <2>1. Known'
    BY <1>1 DEF RequestDeletion, Known
  <2>2. CASE /\ \E k \in 1..Len(order) : LatestActive(k) /\ asking' = order[k]
             /\ UNCHANGED <<billingVars, user>>
    <3>1. asking' \in Subs
      BY <2>2, ElementOfSeq DEF TypeOK
    <3>2. UNCHANGED <<stripe, events, slots, rows, order, entitled, customer, user, duplicates, crashes,
                    written, applied, overtaken>>
      BY <1>1, <2>2 DEF RequestDeletion
    <3> QED
      BY <2>1, <3>1, <3>2 DEF TypeOK
  <2>3. CASE Purge /\ asking' = asking
    BY <1>1, <2>1, <2>3, PurgeType DEF RequestDeletion, TypeOK
  <2> QED
    BY <1>1, <2>2, <2>3 DEF RequestDeletion
<1>2. CASE CancelFails
  BY <1>2 DEF CancelFails, TypeOK, Known
<1>3. CASE CancelDone
  <2>1. asking \in Subs /\ stripe[asking] \in StripeType /\ stripe[asking].status \in Statuses
    BY <1>3, StripeRow, ThreeStatuses DEF CancelDone, TypeOK
  <2>2. stripe' \in [Subs -> StripeType] /\ events' \in Seq(EventType) /\ Known'
    <3>1. PICK kinds \in Seq(Kinds) : Changes(asking, stripe[asking], kinds)
      <4>1. <<"subscription">> \in Seq(Kinds)
        BY DEF Kinds
      <4> QED
        BY <1>3, <4>1 DEF CancelDone
    <3>2. slots' = slots
      BY <1>3 DEF CancelDone
    <3> QED
      BY <2>1, <3>1, <3>2, ChangesType
  <2>3. user' \in {"active", "deletion_pending", "gone"} /\ asking' \in Subs \cup {None}
    BY <1>3 DEF CancelDone, TypeOK
  <2> QED
    BY <1>3, <2>2, <2>3 DEF CancelDone, TypeOK, StripeType
<1>4. CASE Visit
  <2>1. Known'
    BY <1>4 DEF Visit, Known
  <2> QED
    BY <1>4, <2>1, PurgeType DEF Visit, TypeOK
<1>5. CASE Reactivate
  BY <1>5 DEF Reactivate, TypeOK, Known
<1> QED
  BY <1>1, <1>2, <1>3, <1>4, <1>5 DEF Account

LEMMA BillingStep == TypeOK /\ Known /\ [Next]_vars => TypeOK' /\ Known'
<1> SUFFICES ASSUME TypeOK, Known, [Next]_vars PROVE TypeOK' /\ Known'
  OBVIOUS
<1> USE DEF requestVars, billingVars, boundVars, historyVars
<1>1. CASE StripeChanges
  BY <1>1, StripeStep DEF StripeChanges
<1>2. CASE Crash
  <2>1. slots' \in [Slots -> SlotType] /\ \A d \in Slots : slots'[d] = Idle
    BY <1>2, NewSlots DEF Crash
  <2>2. Known'
    BY <1>2, <2>1 DEF Crash, Known
  <2>3. crashes' \in 0..MaxCrashes
    BY <1>2, BillingLimits DEF Crash, TypeOK
  <2> QED
    BY <1>2, <2>1, <2>2, <2>3 DEF Crash, TypeOK
<1>3. CASE UNCHANGED vars
  BY <1>3 DEF vars, TypeOK, Known
<1> QED
  BY <1>1, <1>2, <1>3, DeliveryStep, DeliveryInterruptedStep, HandlerStep, ApplyInterruptedStep,
     AccountStep DEF Next

LEMMA BillingInit == Init => TypeOK /\ Known
<1> SUFFICES ASSUME Init PROVE TypeOK /\ Known
  OBVIOUS
<1>1. [status |-> None, version |-> 0, customer |-> None] \in StripeType
  BY BillingLimits DEF StripeType, Customers
<1>2. stripe \in [Subs -> StripeType] /\ slots \in [Slots -> SlotType]
  BY <1>1, NewSlots DEF Init
<1>3. events = <<>> /\ events \in Seq(EventType) /\ order \in Seq(Subs) /\ Known
  BY DEF Init, Known
<1>4. /\ rows \in [Subs -> Statuses \cup {None}]
      /\ written \in [Subs -> 0..MaxVersion] /\ applied \in [Subs -> 0..MaxVersion]
  BY BillingLimits DEF Init
<1>5. duplicates \in 0..MaxDuplicates /\ crashes \in 0..MaxCrashes
  BY BillingLimits DEF Init
<1> QED
  BY <1>2, <1>3, <1>4, <1>5 DEF Init, TypeOK, StripeType, Customers

\* Every record keeps its type: a request knows the event it handles, and what
\* Stripe answers is a status.
THEOREM BillingTypeCorrect == Spec => []TypeOK
<1>1. Spec => [](TypeOK /\ Known)
  BY BillingInit, BillingStep, PTL DEF Spec
<1> QED
  BY <1>1, PTL

-----------------------------------------------------------------------------
(* What deletion leaves *)

\* The user is not found any more, and the customer of another is none.
LEMMA GoneStep == TypeOK /\ Known /\ GoneLeavesNothing /\ [Next]_vars => GoneLeavesNothing'
<1> SUFFICES ASSUME TypeOK, Known, GoneLeavesNothing, [Next]_vars PROVE GoneLeavesNothing'
  OBVIOUS
<1>1. ASSUME NEW s \in Subs, NEW st, NEW v, NEW k, Apply(s, st, v, k), user' = user PROVE GoneLeavesNothing'
  <2>1. CASE user = "gone"
    BY <1>1, <2>1 DEF Apply, FindsUser, billingVars, GoneLeavesNothing
  <2>2. CASE user # "gone"
    BY <1>1, <2>2 DEF GoneLeavesNothing
  <2> QED
    BY <2>1, <2>2
<1>2. ASSUME Purge PROVE GoneLeavesNothing'
  BY <1>2 DEF Purge, GoneLeavesNothing
<1>3. ASSUME user' = user \/ user' # "gone", rows' = rows, entitled' = entitled PROVE GoneLeavesNothing'
  BY <1>3 DEF GoneLeavesNothing
<1>4. ASSUME NEW i \in 1..Len(events), Delivery(i) PROVE GoneLeavesNothing'
  BY <1>1, <1>3, <1>4, EventSub DEF Delivery, Acknowledge, HandlePayload, BeginRetrieve, billingVars
<1>5. ASSUME NEW d \in Slots, Handler(d) PROVE GoneLeavesNothing'
  <2>1. CASE ApplyRetrieved(d)
    <3>1. slots[d].event \in 1..Len(events)
      BY <2>1, SlotRow DEF ApplyRetrieved, Known
    <3> QED
      BY <1>1, <2>1, <3>1, EventSub DEF ApplyRetrieved
  <2>2. CASE Retrieved(d) \/ RetrieveFails(d)
    BY <1>3, <2>2 DEF Retrieved, RetrieveFails, billingVars
  <2> QED
    BY <1>5, <2>1, <2>2 DEF Handler
<1>9. ASSUME NEW i \in 1..Len(events), DeliveryInterrupted(i) PROVE GoneLeavesNothing'
  BY <1>1, <1>9, EventSub DEF DeliveryInterrupted
<1>10. ASSUME NEW d \in Slots, ApplyInterrupted(d) PROVE GoneLeavesNothing'
  <2>1. slots[d].event \in 1..Len(events)
    BY <1>10, SlotRow DEF ApplyInterrupted, Known
  <2> QED
    BY <1>1, <1>10, <2>1, EventSub DEF ApplyInterrupted
<1>6. CASE Account
  <2>1. CASE Purge
    BY <1>2, <2>1
  <2>2. CASE rows' = rows /\ entitled' = entitled /\ (user' = user \/ user' # "gone")
    BY <1>3, <2>2
  <2> QED
    BY <1>6, <2>1, <2>2
    DEF Account, RequestDeletion, CancelFails, CancelDone, Visit, Reactivate, billingVars
<1>7. CASE StripeChanges
  BY <1>3, <1>7 DEF StripeChanges, Subscribe, PaymentFails, PaymentMade, Ends, billingVars
<1>8. CASE Crash \/ UNCHANGED vars
  BY <1>3, <1>8 DEF Crash, vars, billingVars
<1> QED
  BY <1>4, <1>5, <1>6, <1>7, <1>8, <1>9, <1>10 DEF Next

\* No request that was under way when the account was deleted brings a row or an
\* entitlement of it back.
THEOREM GoneStaysEmpty == Spec => []GoneLeavesNothing
<1>1. Init => GoneLeavesNothing
  BY DEF Init, GoneLeavesNothing
<1>2. Init => TypeOK /\ Known
  BY BillingInit
<1>3. TypeOK /\ Known /\ GoneLeavesNothing /\ [Next]_vars => (TypeOK /\ Known /\ GoneLeavesNothing)'
  BY BillingStep, GoneStep
<1> QED
  BY <1>1, <1>2, <1>3, PTL DEF Spec

-----------------------------------------------------------------------------
(* Access follows payment *)

\* A change at Stripe: the state of s is the next one, and new events tell so,
\* one of a kind that carries the state and, for a new subscription, one of
\* its checkout.
Grown(s) ==
    /\ Len(events) \in Nat /\ Len(events') \in Nat
    /\ \A i \in 1..Len(events) : i \in 1..Len(events') /\ events'[i] = events[i]
    /\ \A i \in (1..Len(events')) \ (1..Len(events)) :
          /\ events'[i].sub = s /\ events'[i].status = stripe'[s].status
          /\ events'[i].version = stripe'[s].version
          /\ ~events'[i].acked /\ events'[i].row = None

Moves(s) ==
    /\ Grown(s)
    /\ stripe'[s].version = stripe[s].version + 1
    /\ stripe'[s].status # None /\ stripe'[s].customer # None
    /\ stripe[s].status # None => stripe'[s].customer = stripe[s].customer
    /\ \A t \in Subs \ {s} : stripe'[t] = stripe[t]
    /\ \E i \in (1..Len(events')) \ (1..Len(events)) : events'[i].kind = "subscription"
    /\ stripe[s].status # None
          \/ \E i \in (1..Len(events')) \ (1..Len(events)) : events'[i].kind = "checkout"
    /\ UNCHANGED <<slots, rows, entitled, customer, historyVars>>

LEMMA ChangesMove ==
    ASSUME TypeOK, NEW s \in Subs, NEW state \in StripeType, NEW kinds \in Seq(Kinds),
           state.status \in Statuses, state.version = stripe[s].version,
           Changes(s, state, kinds)
    PROVE  /\ Grown(s)
           /\ \A k \in 1..Len(kinds) : \E i \in (1..Len(events')) \ (1..Len(events)) :
                 events'[i].kind = kinds[k]
           /\ stripe'[s].version = stripe[s].version + 1
           /\ stripe'[s].status = state.status /\ stripe'[s].customer = state.customer
           /\ \A t \in Subs \ {s} : stripe'[t] = stripe[t]
<1> USE BillingLimits
<1> DEFINE n == Len(events)
           more == [i \in 1..Len(kinds) |-> Event(kinds[i], s, state.status, state.version + 1)]
<1>1. /\ stripe[s].version < MaxVersion
      /\ stripe' = [stripe EXCEPT ![s] = [state EXCEPT !.version = @ + 1]]
      /\ events' = events \o more
      /\ events \in Seq(EventType) /\ stripe \in [Subs -> StripeType]
  BY DEF Changes, TypeOK, StripeType
<1>2. [state EXCEPT !.version = @ + 1].status = state.status
      /\ [state EXCEPT !.version = @ + 1].version = state.version + 1
      /\ [state EXCEPT !.version = @ + 1].customer = state.customer
  BY DEF StripeType
<1>3. /\ stripe'[s].version = stripe[s].version + 1
      /\ stripe'[s].status = state.status /\ stripe'[s].customer = state.customer
      /\ \A t \in Subs \ {s} : stripe'[t] = stripe[t]
  BY <1>1, <1>2
<1>4. state.version + 1 \in 1..MaxVersion
  BY <1>1 DEF StripeType
<1>5. /\ more \in Seq(EventType) /\ Len(more) = Len(kinds) /\ Len(kinds) \in Nat
      /\ \A k \in 1..Len(kinds) :
            /\ more[k].sub = s /\ more[k].status = state.status /\ more[k].version = state.version + 1
            /\ ~more[k].acked /\ more[k].row = None /\ more[k].kind = kinds[k]
  <2>1. \A k \in 1..Len(kinds) : Event(kinds[k], s, state.status, state.version + 1) \in EventType
    BY <1>4 DEF Event, EventType
  <2>2. more \in Seq(EventType) /\ Len(more) = Len(kinds) /\ Len(kinds) \in Nat
    BY <2>1
  <2> QED
    BY <2>2 DEF Event
<1> HIDE DEF more
<1>6. /\ n \in Nat /\ Len(events') = n + Len(kinds)
      /\ \A i \in 1..n : events'[i] = events[i]
      /\ \A k \in 1..Len(kinds) : events'[n + k] = more[k]
  <2>1. /\ Len(events \o more) = Len(events) + Len(more)
        /\ \A i \in 1..(Len(events) + Len(more)) :
              (events \o more)[i] = IF i <= Len(events) THEN events[i] ELSE more[i - Len(events)]
    <3>1. events \in Seq(EventType) /\ more \in Seq(EventType)
      BY <1>1, <1>5
    <3> QED
      BY <3>1, ConcatProperties
  <2>2. n \in Nat
    BY <1>1, LenProperties
  <2> QED
    BY <1>1, <1>5, <2>1, <2>2
<1> HIDE DEF n
<1>7. \A i \in (1..Len(events')) \ (1..n) : i - n \in 1..Len(kinds) /\ events'[i] = more[i - n]
  <2> SUFFICES ASSUME NEW i \in (1..Len(events')) \ (1..n)
               PROVE  i - n \in 1..Len(kinds) /\ events'[i] = more[i - n]
    OBVIOUS
  <2>1. i - n \in 1..Len(kinds) /\ n + (i - n) = i
    BY <1>5, <1>6
  <2> QED
    BY <1>6, <2>1
<1>8. \A k \in 1..Len(kinds) : n + k \in (1..Len(events')) \ (1..n) /\ events'[n + k].kind = kinds[k]
  BY <1>5, <1>6
<1>9. Grown(s)
  <2>1. Len(events') \in Nat /\ \A i \in 1..n : i \in 1..Len(events')
    BY <1>5, <1>6
  <2>2. \A i \in (1..Len(events')) \ (1..n) :
           /\ events'[i].sub = s /\ events'[i].status = stripe'[s].status
           /\ events'[i].version = stripe'[s].version
           /\ ~events'[i].acked /\ events'[i].row = None
    BY <1>3, <1>5, <1>7
  <2> QED
    BY <1>6, <2>1, <2>2 DEF Grown, n
<1> QED
  BY <1>3, <1>8, <1>9 DEF n

\* The steps of Stripe, and the request that marks a subscription to end.
Tells(kinds, k) == \E i \in 1..Len(kinds) : kinds[i] = k

LEMMA ToldKinds ==
    /\ <<"subscription">> \in Seq(Kinds) /\ <<"subscription", "checkout">> \in Seq(Kinds)
    /\ <<"invoice", "subscription">> \in Seq(Kinds)
    /\ Tells(<<"subscription">>, "subscription")
    /\ Tells(<<"subscription", "checkout">>, "subscription")
    /\ Tells(<<"subscription", "checkout">>, "checkout")
    /\ Tells(<<"invoice", "subscription">>, "subscription")
<1>1. <<"subscription">>[1] = "subscription" /\ Len(<<"subscription">>) = 1 /\ 1 \in 1..1
  OBVIOUS
<1>2. /\ \A a, b : Len(<<a, b>>) = 2 /\ <<a, b>>[1] = a /\ <<a, b>>[2] = b
      /\ 1 \in 1..2 /\ 2 \in 1..2
  OBVIOUS
<1>3. Tells(<<"subscription">>, "subscription")
  BY <1>1 DEF Tells
<1>4. ASSUME NEW a, NEW b
      PROVE  Tells(<<a, b>>, a) /\ Tells(<<a, b>>, b)
  BY <1>2 DEF Tells
<1> QED
  BY <1>3, <1>4 DEF Kinds

LEMMA StripeMoves ==
    ASSUME TypeOK, EventsTrue, StripeChanges \/ CancelDone
    PROVE  (\E s \in Subs : Moves(s)) /\ (user' = "gone" <=> user = "gone")
<1> USE BillingLimits, ThreeStatuses
<1>1. "active" \in Statuses /\ "past_due" \in Statuses /\ "canceled" \in Statuses
  OBVIOUS
<1>2. ASSUME NEW s \in Subs, NEW state \in StripeType, NEW kinds \in Seq(Kinds),
             state.status \in Statuses, state.version = stripe[s].version, state.customer # None,
             Changes(s, state, kinds),
             Tells(kinds, "subscription"),
             \/ stripe[s].status = None /\ Tells(kinds, "checkout")
             \/ stripe[s].status # None /\ state.customer = stripe[s].customer,
             UNCHANGED <<slots, billingVars, historyVars>>
      PROVE  Moves(s)
  <2>1. /\ Grown(s)
        /\ \A k \in 1..Len(kinds) : \E i \in (1..Len(events')) \ (1..Len(events)) :
              events'[i].kind = kinds[k]
        /\ stripe'[s].version = stripe[s].version + 1
        /\ stripe'[s].status = state.status /\ stripe'[s].customer = state.customer
        /\ \A t \in Subs \ {s} : stripe'[t] = stripe[t]
    BY <1>2, ChangesMove
  <2>2. None \notin Statuses
    BY DEF None
  <2> QED
    BY <1>2, <2>1, <2>2 DEF Moves, Tells, billingVars
<1>3. ASSUME NEW s \in Subs, NEW st \in Statuses, NEW c \in Customers
      PROVE  /\ Follows(stripe[s], [stripe[s] EXCEPT !.status = st], st)
             /\ [stripe[s] EXCEPT !.status = st].customer = stripe[s].customer
             /\ Follows(stripe[s], [stripe[s] EXCEPT !.status = st, !.customer = c], st)
             /\ [stripe[s] EXCEPT !.status = st, !.customer = c].customer = c
  <2>1. stripe[s] \in StripeType
    BY StripeRow
  <2> QED
    BY <2>1, FollowingState DEF StripeType
<1>4. ASSUME NEW s \in Subs, Subscribe(s)
      PROVE  Moves(s)
  <2>1. PICK c \in {s} \cup ({customer} \ {None}) :
           Changes(s, [stripe[s] EXCEPT !.status = "active", !.customer = c],
                   <<"subscription", "checkout">>)
    BY <1>4 DEF Subscribe
  <2>2. c \in Customers /\ c # None
    BY DEF Customers, TypeOK
  <2> DEFINE m == [stripe[s] EXCEPT !.status = "active", !.customer = c]
  <2>3. m \in StripeType /\ m.status \in Statuses /\ m.version = stripe[s].version /\ m.customer # None
    <3>1. Follows(stripe[s], m, "active") /\ m.customer = c
      BY <1>1, <1>3, <2>2
    <3> HIDE DEF m
    <3> QED
      BY <1>1, <2>2, <3>1 DEF Follows
  <2>4. PICK kinds \in Seq(Kinds) :
           /\ Changes(s, m, kinds)
           /\ Tells(kinds, "subscription")
           /\ Tells(kinds, "checkout")
    BY <2>1, ToldKinds
  <2> HIDE DEF m
  <2>5. stripe[s].status = None /\ UNCHANGED <<slots, billingVars, historyVars>>
    BY <1>4 DEF Subscribe, requestVars
  <2> QED
    BY <1>2, <2>3, <2>4, <2>5
<1>5. ASSUME NEW s \in Subs, PaymentFails(s) \/ PaymentMade(s) \/ Ends(s)
      PROVE  Moves(s)
  <2>1. stripe[s].status \in ActiveStatuses /\ UNCHANGED <<slots, billingVars, historyVars>>
    BY <1>5 DEF PaymentFails, PaymentMade, Ends, requestVars, ActiveStatuses
  <2>2. stripe[s].status # None /\ stripe[s].customer # None
    BY <2>1 DEF EventsTrue, None
  <2>3. PICK st \in Statuses, kinds \in Seq(Kinds) :
           /\ Changes(s, [stripe[s] EXCEPT !.status = st], kinds)
           /\ Tells(kinds, "subscription")
    BY <1>1, <1>5, ToldKinds DEF PaymentFails, PaymentMade, Ends
  <2> DEFINE n == [stripe[s] EXCEPT !.status = st]
  <2>4. n \in StripeType /\ n.status \in Statuses /\ n.version = stripe[s].version
        /\ n.customer = stripe[s].customer
    <3>1. None \in Customers
      BY DEF Customers
    <3> QED
      <4>1. Follows(stripe[s], n, st) /\ n.customer = stripe[s].customer
        BY <1>3, <3>1
      <4> HIDE DEF n
      <4> QED
        BY <4>1 DEF Follows
  <2> HIDE DEF n
  <2>5. Changes(s, n, kinds) /\ n.customer # None
    BY <2>2, <2>3, <2>4 DEF n
  <2> QED
    BY <1>2, <2>1, <2>2, <2>3, <2>4, <2>5
<1>6. ASSUME CancelDone
      PROVE  Moves(asking)
  <2>1. asking \in Subs /\ stripe[asking].status \in ActiveStatuses
        /\ Changes(asking, stripe[asking], <<"subscription">>)
        /\ UNCHANGED <<slots, billingVars, historyVars>>
    BY <1>6 DEF CancelDone, TypeOK
  <2>2. stripe[asking].status # None /\ stripe[asking].customer # None /\ stripe[asking] \in StripeType
    BY <2>1, StripeRow DEF EventsTrue, None
  <2> QED
    BY <1>2, <2>1, <2>2, ToldKinds
<1>7. user' = "gone" <=> user = "gone"
  BY DEF StripeChanges, Subscribe, PaymentFails, PaymentMade, Ends, CancelDone
<1>8. CancelDone => asking \in Subs
  BY DEF CancelDone, TypeOK
<1> QED
  BY <1>4, <1>5, <1>6, <1>7, <1>8 DEF StripeChanges

LEMMA MovesKeepAccess ==
    ASSUME TypeOK, AccessInvariant, NEW s \in Subs, Moves(s), user' = "gone" <=> user = "gone"
    PROVE  AccessInvariant'
<1> USE DEF Moves
<1>1. /\ Len(events) \in Nat /\ Len(events') \in Nat
      /\ \A i \in 1..Len(events) : i \in 1..Len(events') /\ events'[i] = events[i]
      /\ \A i \in 1..Len(events') : i \notin 1..Len(events) =>
            /\ events'[i].sub = s /\ events'[i].status = stripe'[s].status
            /\ events'[i].version = stripe'[s].version
            /\ ~events'[i].acked /\ events'[i].row = None
  BY DEF Grown
<1>2. EventsTrue /\ AnswersTrue
  BY DEF AccessInvariant
<1>3. /\ \A i \in 1..Len(events) : events[i].sub \in Subs /\ events[i].version \in Nat
      /\ \A t \in Subs : /\ stripe[t].version \in Nat /\ stripe'[t].version \in Nat
                         /\ written[t] \in Nat /\ applied[t] \in Nat
      /\ \A d \in Slots : slots[d].at = "applying" => slots[d] # Idle /\ slots[d].version \in Nat
  <2>1. \A t \in Subs : stripe[t].version \in Nat /\ written[t] \in Nat /\ applied[t] \in Nat
    BY BillingLimits DEF TypeOK
  <2>2. \A t \in Subs : stripe'[t].version \in Nat
    BY <2>1
  <2> QED
    BY <2>1, <2>2, EventSub, SlotRow, BillingLimits
<1>4. \A t \in Subs :
        /\ stripe[t].version <= stripe'[t].version
        /\ stripe'[t].version = stripe[t].version => stripe'[t] = stripe[t]
        /\ stripe[t].status # None => stripe'[t].status # None
        /\ stripe'[t].version # stripe[t].version => t = s
  <2>1. \A t \in Subs \ {s} : stripe'[t] = stripe[t]
    OBVIOUS
  <2>2. stripe'[s].version = stripe[s].version + 1 /\ stripe'[s].status # None
    OBVIOUS
  <2> QED
    BY <1>3, <2>1, <2>2
<1>5. EventsTrue'
  <2>1. \A t \in Subs : IF stripe'[t].status = None
                        THEN stripe'[t].version = 0 /\ stripe'[t].customer = None
                        ELSE stripe'[t].version # 0 /\ stripe'[t].customer # None
    <3> SUFFICES ASSUME NEW t \in Subs
                 PROVE  IF stripe'[t].status = None
                        THEN stripe'[t].version = 0 /\ stripe'[t].customer = None
                        ELSE stripe'[t].version # 0 /\ stripe'[t].customer # None
      OBVIOUS
    <3>1. CASE t = s
      BY <1>3, <3>1
    <3>2. CASE t # s
      BY <1>2, <3>2 DEF EventsTrue
    <3> QED
      BY <3>1, <3>2
  <2>2. \A i \in 1..Len(events') :
          /\ stripe'[events'[i].sub].status # None
          /\ events'[i].version <= stripe'[events'[i].sub].version
          /\ events'[i].version = stripe'[events'[i].sub].version
               => events'[i].status = stripe'[events'[i].sub].status
          /\ events'[i].row = "ok" => events'[i].acked
    <3>1. ASSUME NEW i \in 1..Len(events)
          PROVE  /\ stripe'[events[i].sub].status # None
                 /\ events[i].version <= stripe'[events[i].sub].version
                 /\ events[i].version = stripe'[events[i].sub].version
                      => events[i].status = stripe'[events[i].sub].status
                 /\ events[i].row = "ok" => events[i].acked
      <4> DEFINE t == events[i].sub
                 v == events[i].version
      <4>1. t \in Subs /\ v \in Nat
        BY <1>3
      <4>2. /\ stripe[t].status # None /\ v <= stripe[t].version
            /\ v = stripe[t].version => events[i].status = stripe[t].status
            /\ events[i].row = "ok" => events[i].acked
        BY <1>2 DEF EventsTrue
      <4> HIDE DEF t, v
      <4>3. stripe'[t].status # None /\ v <= stripe'[t].version
            /\ (v = stripe'[t].version => events[i].status = stripe'[t].status)
        <5>1. stripe[t].version \in Nat /\ stripe'[t].version \in Nat
          BY <1>3, <4>1
        <5> QED
          BY <1>4, <4>1, <4>2, <5>1
      <4> QED
        BY <4>2, <4>3 DEF t, v
    <3>2. stripe'[s].version <= stripe'[s].version /\ None # "ok"
      BY <1>3 DEF None
    <3> QED
      BY <1>1, <3>1, <3>2
  <2>3. ASSUME NEW t \in Subs, stripe'[t].status # None
        PROVE  /\ \E i \in 1..Len(events') :
                     events'[i].sub = t /\ events'[i].kind = "subscription"
                     /\ events'[i].version = stripe'[t].version
               /\ \E i \in 1..Len(events') : events'[i].sub = t /\ events'[i].kind = "checkout"
    <3>1. CASE t # s
      <4>1. stripe'[t] = stripe[t]
        BY <3>1
      <4> QED
        BY <1>1, <1>2, <2>3, <4>1 DEF EventsTrue
    <3>2. CASE t = s
      <4>1. \E i \in 1..Len(events') : events'[i].sub = s /\ events'[i].kind = "checkout"
        BY <1>1, <1>2 DEF EventsTrue
      <4> QED
        BY <1>1, <3>2, <4>1
    <3> QED
      BY <3>1, <3>2
  <2>4. ASSUME NEW i \in 1..Len(events'), NEW j \in 1..Len(events'),
               events'[j].sub = events'[i].sub, events'[j].version = events'[i].version
        PROVE  events'[j].status = events'[i].status
    <3>1. ASSUME NEW k \in 1..Len(events), events'[k].sub = s
          PROVE  events'[k].version # stripe'[s].version
      <4>1. events[k].version \in Nat /\ events[k].version <= stripe[s].version
        BY <1>1, <1>2, <1>3, <3>1 DEF EventsTrue
      <4> QED
        BY <1>1, <1>3, <4>1
    <3>2. CASE i \in 1..Len(events) /\ j \in 1..Len(events)
      BY <1>1, <1>2, <2>4, <3>2 DEF EventsTrue
    <3>3. CASE i \notin 1..Len(events) /\ j \notin 1..Len(events)
      BY <1>1, <3>3
    <3>4. CASE i \in 1..Len(events) /\ j \notin 1..Len(events)
      BY <1>1, <2>4, <3>1, <3>4
    <3>5. CASE i \notin 1..Len(events) /\ j \in 1..Len(events)
      BY <1>1, <2>4, <3>1, <3>5
    <3> QED
      BY <3>2, <3>3, <3>4, <3>5
  <2> QED
    BY <2>1, <2>2, <2>3, <2>4 DEF EventsTrue
<1>6. AnswersTrue'
  <2>1. ASSUME NEW d \in Slots, slots[d] # Idle
        PROVE  /\ slots[d].event \in 1..Len(events')
               /\ events'[slots[d].event] = events[slots[d].event]
               /\ events[slots[d].event].kind # "subscription"
    BY <1>1, <1>2, <2>1 DEF AnswersTrue
  <2>2. ASSUME NEW d \in Slots, slots[d].at = "applying"
        PROVE  \E j \in 1..Len(events') : /\ events'[j].sub = events'[slots[d].event].sub
                                          /\ events'[j].version = slots[d].version
                                          /\ events'[j].status = slots[d].status
    <3>1. events'[slots[d].event] = events[slots[d].event]
      BY <1>3, <2>1, <2>2
    <3>2. PICK j \in 1..Len(events) : /\ events[j].sub = events[slots[d].event].sub
                                      /\ events[j].version = slots[d].version
                                      /\ events[j].status = slots[d].status
      BY <1>2, <2>2 DEF AnswersTrue
    <3> QED
      BY <1>1, <3>1, <3>2
  <2> QED
    BY <2>1, <2>2 DEF AnswersTrue
<1>7. ASSUME user' # "gone"
      PROVE  RowsTrue'
  <2>1. RowsTrue
    BY <1>7 DEF AccessInvariant
  <2> SUFFICES ASSUME NEW t \in Subs
               PROVE  /\ applied[t] <= written[t] /\ written[t] <= stripe'[t].version
                      /\ rows[t] = None <=> written[t] = 0
                      /\ ~overtaken => \A i \in 1..Len(events') :
                            events'[i].sub = t /\ events'[i].version = written[t]
                               => events'[i].status = rows[t]
    BY DEF RowsTrue, historyVars
  <2>2. written[t] \in Nat /\ stripe[t].version \in Nat /\ stripe'[t].version \in Nat
    BY <1>3
  <2>3. /\ applied[t] <= written[t] /\ written[t] <= stripe[t].version
        /\ rows[t] = None <=> written[t] = 0
        /\ ~overtaken => \A i \in 1..Len(events) :
              events[i].sub = t /\ events[i].version = written[t] => events[i].status = rows[t]
    BY <2>1 DEF RowsTrue
  <2>4. ASSUME NEW i \in 1..Len(events'), i \notin 1..Len(events), events'[i].sub = t
        PROVE  events'[i].version # written[t]
    <3>1. t = s /\ events'[i].version = stripe[s].version + 1
      BY <1>1, <2>4
    <3> QED
      BY <2>2, <2>3, <3>1
  <2> QED
    BY <1>1, <1>4, <2>2, <2>3, <2>4
<1>8. ASSUME user' # "gone", NEW u \in Subs, OnlySubscription(u)'
      PROVE  Followed(u)'
  <2>1. u = s /\ OnlySubscription(s)
    BY <1>4, <1>8 DEF OnlySubscription
  <2>2. Followed(s) /\ RowsTrue
    BY <1>8, <2>1 DEF AccessInvariant
  <2>3. \A i \in 1..Len(events') : events'[i].acked => i \in 1..Len(events) /\ events'[i] = events[i]
    BY <1>1
  <2>4. \A d \in Slots : slots[d] # Idle => /\ slots[d].event \in 1..Len(events)
                                            /\ events'[slots[d].event] = events[slots[d].event]
    BY <1>1, <1>2 DEF AnswersTrue
  <2>5. CASE stripe[s].status # None
    <3>1. /\ customer \in {None, stripe'[s].customer}
          /\ written[s] # 0 => customer = stripe'[s].customer
          /\ ~overtaken /\ applied[s] = written[s] => (rows[s] \in ActiveStatuses <=> entitled = s)
      BY <2>2, <2>5 DEF Followed
    <3>2. \A d \in Slots :
             slots[d] # Idle /\ events'[slots[d].event].kind = "checkout"
                => customer = stripe'[s].customer
      BY <2>2, <2>4, <2>5 DEF Followed
    <3>3. \A c \in 1..Len(events') : events'[c].kind = "checkout" /\ events'[c].acked
             => /\ customer = stripe'[s].customer
                /\ \A i \in 1..Len(events') : events'[i].kind = "subscription" /\ events'[i].acked
                      => events'[i].version <= applied[s]
      BY <2>2, <2>3, <2>5 DEF Followed, Acked
    <3>4. \A d \in Slots :
             slots[d].at = "applying" /\ events'[slots[d].event].kind = "checkout"
                => \A i \in 1..Len(events') : events'[i].kind = "subscription" /\ events'[i].acked
                      => events'[i].version <= slots[d].version \/ events'[i].version <= applied[s]
      BY <1>3, <2>2, <2>3, <2>4 DEF Followed, Acked
    <3> QED
      BY <2>1, <3>1, <3>2, <3>3, <3>4 DEF Followed, Acked, historyVars
  <2>6. CASE stripe[s].status = None
    <3>1. 1..Len(events) = {} /\ \A d \in Slots : slots[d] = Idle
      <4>1. \A i \in 1..Len(events) : FALSE
        BY <1>2, <1>3, <2>1, <2>6 DEF EventsTrue, OnlySubscription
      <4> QED
        BY <1>2, <4>1 DEF AnswersTrue
    <3>2. stripe[s].customer = None /\ stripe[s].version = 0
      BY <1>2, <2>6 DEF EventsTrue
    <3>3. customer = None /\ written[s] = 0
      BY <1>3, <2>2, <3>2 DEF Followed, RowsTrue
    <3>4. \A d \in Slots : ~(slots[d].at = "applying")
      BY <1>3, <3>1
    <3>5. ~overtaken /\ applied[s] = written[s] => (rows[s] \in ActiveStatuses <=> entitled = s)
      BY <2>2 DEF Followed
    <3>6. \A i \in 1..Len(events') : ~events'[i].acked
      BY <2>3, <3>1
    <3> QED
      BY <2>1, <3>1, <3>3, <3>4, <3>5, <3>6 DEF Followed, Acked, historyVars
  <2> QED
    BY <2>1, <2>5, <2>6
<1> QED
  BY <1>5, <1>6, <1>7, <1>8 DEF AccessInvariant

\* The log of events after a step of a request: only the events in I, one at
\* most, are answered by it.
Answers(log, I) ==
    /\ Len(log) = Len(events)
    /\ \A k \in 1..Len(events) :
          /\ log[k].kind = events[k].kind /\ log[k].sub = events[k].sub
          /\ log[k].status = events[k].status /\ log[k].version = events[k].version
          /\ log[k].row = "ok" => log[k].acked
          /\ log[k].acked => Acked(k) \/ k \in I

LEMMA BegunAnswers ==
    ASSUME TypeOK, EventsTrue, NEW i \in 1..Len(events)
    PROVE  /\ Answers(events, {}) /\ events \in Seq(EventType)
           /\ Answers(Begun(i), {}) /\ Begun(i) \in Seq(EventType)
<1>1. events \in Seq(EventType) /\ \A k \in 1..Len(events) : events[k] \in EventType
  BY EventSub DEF TypeOK
<1>2. Answers(events, {})
  BY DEF Answers, EventsTrue, Acked
<1>3. /\ [events[i] EXCEPT !.row = None] \in EventType
      /\ [events[i] EXCEPT !.row = None].kind = events[i].kind
      /\ [events[i] EXCEPT !.row = None].sub = events[i].sub
      /\ [events[i] EXCEPT !.row = None].status = events[i].status
      /\ [events[i] EXCEPT !.row = None].version = events[i].version
      /\ [events[i] EXCEPT !.row = None].row = None
      /\ [events[i] EXCEPT !.row = None].acked = events[i].acked
  BY <1>1 DEF EventType
<1> DEFINE n == [events[i] EXCEPT !.row = None]
<1>4. Begun(i) = [events EXCEPT ![i] = n]
  BY Zenon DEF Begun
<1>5. None # "ok"
  BY DEF None
<1> HIDE DEF n
<1>6. n \in EventType /\ n.kind = events[i].kind /\ n.sub = events[i].sub
      /\ n.status = events[i].status /\ n.version = events[i].version
      /\ n.row = None /\ n.acked = events[i].acked
  BY <1>3 DEF n
<1>7. /\ Begun(i) \in Seq(EventType) /\ Len(Begun(i)) = Len(events)
      /\ Begun(i)[i] = n /\ \A k \in 1..Len(events) : k # i => Begun(i)[k] = events[k]
  BY <1>1, <1>4, <1>6
<1>8. Answers(Begun(i), {})
  BY <1>2, <1>5, <1>6, <1>7 DEF Answers, Acked
<1> QED
  BY <1>1, <1>2, <1>7, <1>8

LEMMA AnsweredAnswers ==
    ASSUME NEW log \in Seq(EventType), Answers(log, {}), NEW i \in 1..Len(events),
           NEW row \in {None, "ok", "error"}
    PROVE  Answers(Answered(log, i, row), IF row = "ok" THEN {i} ELSE {})
<1>1. log[i] \in EventType /\ i \in 1..Len(log) /\ Len(log) = Len(events)
  BY ElementOfSeq DEF Answers
<1>2. CASE log[i].row # None
  BY <1>2 DEF Answered, Answers
<1>3. CASE log[i].row = None
  <2> DEFINE b == log[i].acked \/ row = "ok"
             e == [log[i] EXCEPT !.row = row, !.acked = b]
  <2>1. b \in BOOLEAN /\ (b => log[i].acked \/ row = "ok") /\ (row = "ok" => b)
    OBVIOUS
  <2>2. Answered(log, i, row) = [log EXCEPT ![i] = e]
    BY <1>1, <1>3, Zenon DEF Answered
  <2>6. ASSUME NEW t \in EventType, NEW a \in BOOLEAN
        PROVE  LET n == [t EXCEPT !.row = row, !.acked = a]
               IN  /\ n.kind = t.kind /\ n.sub = t.sub /\ n.status = t.status
                   /\ n.version = t.version /\ n.row = row /\ n.acked = a
    BY DEF EventType
  <2> HIDE DEF b
  <2>3. /\ e.kind = log[i].kind /\ e.sub = log[i].sub /\ e.status = log[i].status
        /\ e.version = log[i].version /\ e.row = row /\ e.acked = b
    BY <1>1, <2>1, <2>6
  <2> HIDE DEF e
  <2>4. /\ Len(Answered(log, i, row)) = Len(events) /\ Answered(log, i, row)[i] = e
        /\ \A k \in 1..Len(events) : k # i => Answered(log, i, row)[k] = log[k]
    BY <1>1, <2>2
  <2>5. /\ e.row = "ok" => e.acked
        /\ e.acked => Acked(i) \/ row = "ok"
    BY <1>1, <2>1, <2>3 DEF Answers
  <2> QED
    BY <2>3, <2>4, <2>5 DEF Answers
<1> QED
  BY <1>2, <1>3

\* What the events tell does not depend on their answers.
LEMMA AnswersKeepEvents ==
    ASSUME EventsTrue, stripe' = stripe, NEW I, Answers(events', I)
    PROVE  EventsTrue'
<1>1. /\ 1..Len(events') = 1..Len(events)
      /\ \A k \in 1..Len(events) :
            /\ events'[k].kind = events[k].kind /\ events'[k].sub = events[k].sub
            /\ events'[k].status = events[k].status /\ events'[k].version = events[k].version
            /\ events'[k].row = "ok" => events'[k].acked
  BY DEF Answers
<1> QED
  BY <1>1 DEF EventsTrue

\* A step of a request lets the only subscription be followed, if what it takes
\* down is not lost.
LEMMA RequestFollows ==
    ASSUME TypeOK, EventsTrue, AnswersTrue, AnswersTrue', stripe' = stripe,
           NEW s \in Subs, OnlySubscription(s), Followed(s),
           NEW I \in SUBSET (1..Len(events)), \A a, b \in I : a = b,
           Answers(events', I),
           customer' \in {customer, stripe[s].customer},
           applied'[s] \in Nat, applied[s] <= applied'[s],
           written'[s] # 0 => written[s] # 0 \/ customer' = stripe[s].customer,
           ~overtaken' /\ applied'[s] = written'[s] => (rows'[s] \in ActiveStatuses <=> entitled' = s),
           \A d \in Slots : slots'[d] # Idle =>
              \/ slots'[d] = slots[d]
              \/ /\ events[slots'[d].event].kind = "checkout" => customer' = stripe[s].customer
                 /\ slots'[d].at = "applying" => slots'[d].version = stripe[s].version,
           \A i \in I :
              /\ events[i].kind = "subscription" =>
                    (customer = stripe[s].customer => events[i].version <= applied'[s])
              /\ events[i].kind = "checkout" =>
                    /\ customer' = stripe[s].customer
                    /\ \A k \in 1..Len(events) : events[k].kind = "subscription" /\ Acked(k)
                          => events[k].version <= applied'[s]
    PROVE  Followed(s)'
<1>1. /\ Len(events') = Len(events)
      /\ \A k \in 1..Len(events) :
            /\ events'[k].kind = events[k].kind /\ events'[k].sub = events[k].sub
            /\ events'[k].version = events[k].version
            /\ events'[k].acked => Acked(k) \/ k \in I
  BY DEF Answers
<1>2. /\ \A i \in 1..Len(events) : events[i].sub = s /\ events[i].version \in Nat
                                   /\ events[i].version <= stripe[s].version
      /\ applied[s] \in Nat /\ stripe[s].version \in Nat
  <2>1. \A i \in 1..Len(events) : events[i].sub = s
    BY EventSub DEF EventsTrue, OnlySubscription
  <2> QED
    BY <2>1, EventSub, BillingLimits DEF EventsTrue, TypeOK
<1>3. \A d \in Slots : slots'[d].at = "applying" => slots'[d] # Idle
  BY DEF Idle
<1>4. \A d \in Slots : /\ slots'[d] # Idle => slots'[d].event \in 1..Len(events)
                       /\ slots[d] # Idle => slots[d].event \in 1..Len(events)
  BY <1>1 DEF AnswersTrue
<1>5. /\ customer' \in {None, stripe[s].customer}
      /\ customer = stripe[s].customer => customer' = stripe[s].customer
      /\ written'[s] # 0 => customer' = stripe[s].customer
  BY DEF Followed
<1>6. \A d \in Slots :
         slots'[d] # Idle /\ events[slots'[d].event].kind = "checkout"
            => customer' = stripe[s].customer
  BY <1>5 DEF Followed
<1>7. ASSUME NEW c \in 1..Len(events), events[c].kind = "checkout", events'[c].acked,
             NEW i \in 1..Len(events), events[i].kind = "subscription", events'[i].acked
      PROVE  events[i].version <= applied'[s]
  <2>1. CASE Acked(c)
    <3>1. customer = stripe[s].customer
      BY <1>7, <2>1 DEF Followed
    <3>2. CASE Acked(i)
      <4>1. events[i].version <= applied[s]
        BY <1>7, <2>1, <3>2 DEF Followed
      <4> QED
        BY <1>2, <4>1
    <3>3. CASE i \in I
      BY <1>7, <3>1, <3>3
    <3> QED
      BY <1>1, <1>7, <3>2, <3>3
  <2>2. CASE c \in I
    <3>1. Acked(i)
      BY <1>1, <1>7, <2>2
    <3> QED
      BY <1>7, <2>2, <3>1
  <2> QED
    BY <1>1, <1>7, <2>1, <2>2
<1>8. ASSUME NEW c \in 1..Len(events), events[c].kind = "checkout", events'[c].acked
      PROVE  customer' = stripe[s].customer
  BY <1>1, <1>5, <1>8 DEF Followed
<1>9. ASSUME NEW d \in Slots, slots'[d].at = "applying",
             events[slots'[d].event].kind = "checkout",
             NEW i \in 1..Len(events), events[i].kind = "subscription", events'[i].acked
      PROVE  events[i].version <= slots'[d].version \/ events[i].version <= applied'[s]
  <2>1. CASE slots'[d] = slots[d]
    <3>1. slots[d] # Idle /\ customer = stripe[s].customer
      BY <1>3, <1>9, <2>1 DEF Followed
    <3>2. CASE Acked(i)
      <4>1. events[i].version <= slots[d].version \/ events[i].version <= applied[s]
        BY <1>9, <2>1, <3>2 DEF Followed
      <4> QED
        BY <1>2, <2>1, <4>1
    <3>3. CASE i \in I
      BY <1>9, <3>1, <3>3
    <3> QED
      BY <1>1, <1>9, <3>2, <3>3
  <2>2. CASE slots'[d] # slots[d]
    BY <1>2, <1>3, <1>9, <2>2
  <2> QED
    BY <2>1, <2>2
<1>10. \A c \in 1..Len(events') : events'[c].kind = "checkout" /\ events'[c].acked
         => /\ customer' = stripe[s].customer
            /\ \A i \in 1..Len(events') : events'[i].kind = "subscription" /\ events'[i].acked
                  => events'[i].version <= applied'[s]
  BY <1>1, <1>7, <1>8
<1>11. \A d \in Slots :
          slots'[d].at = "applying" /\ events'[slots'[d].event].kind = "checkout"
             => \A i \in 1..Len(events') : events'[i].kind = "subscription" /\ events'[i].acked
                   => events'[i].version <= slots'[d].version \/ events'[i].version <= applied'[s]
  BY <1>1, <1>3, <1>4, <1>9
<1>12. \A d \in Slots :
          slots'[d] # Idle /\ events'[slots'[d].event].kind = "checkout"
             => customer' = stripe[s].customer
  BY <1>1, <1>4, <1>6
<1> QED
  BY <1>5, <1>10, <1>11, <1>12 DEF Followed, Acked

\* The user of the only subscription is found by its customer alone.
LEMMA FoundByCustomer ==
    ASSUME TypeOK, EventsTrue, RowsTrue, NEW s \in Subs, OnlySubscription(s), Followed(s), FindsUser(s)
    PROVE  customer = stripe[s].customer
<1>1. ASSUME NEW t \in Subs, rows[t] # None
      PROVE  t = s /\ written[s] # 0
  <2>1. written[t] # 0 /\ written[t] <= stripe[t].version
    BY <1>1 DEF RowsTrue
  <2>2. written[t] \in Nat /\ stripe[t].version \in Nat
    BY BillingLimits DEF TypeOK
  <2>3. stripe[t].version # 0
    BY <2>1, <2>2
  <2>4. stripe[t].status # None
    BY <2>3 DEF EventsTrue
  <2> QED
    BY <2>1, <2>4 DEF OnlySubscription
<1> QED
  BY <1>1 DEF FindsUser, Followed

\* What the first k statements write down of a state that an event reports: the
\* newest state known, and all of it once the customer is known and k is complete.
LEMMA ApplyFollows ==
    ASSUME TypeOK, EventsTrue, RowsTrue, stripe' = stripe,
           NEW I, Answers(events', I),
           NEW j \in 1..Len(events), NEW s \in Subs, events[j].sub = s,
           NEW st \in Statuses, events[j].status = st,
           NEW v \in 1..MaxVersion, events[j].version = v,
           NEW k \in 0..Complete, Apply(s, st, v, k)
    PROVE  /\ RowsTrue'
           /\ OnlySubscription(s) /\ Followed(s) /\ user # "gone" =>
                 /\ customer' = customer
                 /\ applied'[s] \in Nat /\ applied[s] <= applied'[s]
                 /\ written'[s] # 0 => customer' = stripe[s].customer
                 /\ ~overtaken' /\ applied'[s] = written'[s]
                       => (rows'[s] \in ActiveStatuses <=> entitled' = s)
                 /\ customer = stripe[s].customer /\ k = Complete => v <= applied'[s]
<1> USE BillingLimits, AllStatements
<1>1. /\ rows \in [Subs -> Statuses \cup {None}] /\ overtaken \in BOOLEAN
      /\ written \in [Subs -> 0..MaxVersion] /\ applied \in [Subs -> 0..MaxVersion]
      /\ written[s] \in Nat /\ applied[s] \in Nat /\ v \in Nat /\ v # 0
      /\ stripe[s].version \in Nat /\ k \in {0, 1, 2, 3}
      /\ None \notin Statuses
  <2>1. None \notin Statuses
    BY DEF Statuses, ActiveStatuses, None
  <2>2. stripe[s].version \in Nat
    BY StripeRow DEF StripeType
  <2>3. k \in {0, 1, 2, 3}
    OBVIOUS
  <2>4. /\ rows \in [Subs -> Statuses \cup {None}] /\ overtaken \in BOOLEAN
        /\ written \in [Subs -> 0..MaxVersion] /\ applied \in [Subs -> 0..MaxVersion]
    BY DEF TypeOK
  <2>5. written[s] \in Nat /\ applied[s] \in Nat /\ v \in Nat /\ v # 0
    BY <2>4
  <2> QED
    BY <2>1, <2>2, <2>3, <2>4, <2>5
<1>2. /\ applied[s] <= written[s] /\ written[s] <= stripe[s].version
      /\ rows[s] = None <=> written[s] = 0
      /\ ~overtaken => \A i \in 1..Len(events) :
            events[i].sub = s /\ events[i].version = written[s] => events[i].status = rows[s]
  BY DEF RowsTrue
<1>3. /\ v <= stripe[s].version
      /\ \A i \in 1..Len(events) : events[i].sub = s /\ events[i].version = v => events[i].status = st
  BY DEF EventsTrue
<1>4. /\ 1..Len(events') = 1..Len(events)
      /\ \A i \in 1..Len(events) :
            /\ events'[i].sub = events[i].sub /\ events'[i].status = events[i].status
            /\ events'[i].version = events[i].version
  BY DEF Answers
<1>5. CASE FindsUser(s) /\ k # 0
  <2>1. /\ rows' = [rows EXCEPT ![s] = st]
        /\ customer' = IF k >= 2 THEN stripe[s].customer ELSE customer
        /\ entitled' = IF k >= 3 THEN Entitlement(s, st) ELSE entitled
        /\ overtaken' = (overtaken \/ (k >= 1 /\ v < written[s]))
        /\ written' = [written EXCEPT ![s] = IF k >= 1 /\ v > written[s] THEN v ELSE written[s]]
        /\ applied' = [applied EXCEPT ![s] = IF k >= 3 /\ v > applied[s] THEN v ELSE applied[s]]
    <3>1. k >= 1
      BY <1>1, <1>5
    <3> QED
      BY <1>5, <3>1, Zenon DEF Apply
  <2>2. k >= 1
    BY <1>1, <1>5
  <2>3. ~overtaken' => ~overtaken /\ ~(v < written[s])
    BY <2>1, <2>2, Zenon
  <2>4. /\ rows'[s] = st /\ st # None
        /\ written'[s] = IF v > written[s] THEN v ELSE written[s]
        /\ applied'[s] = IF k >= 3 /\ v > applied[s] THEN v ELSE applied[s]
        /\ \A t \in Subs \ {s} : /\ rows'[t] = rows[t] /\ written'[t] = written[t]
                                 /\ applied'[t] = applied[t]
    BY <1>1, <2>1, <2>2
  <2>5. /\ applied'[s] \in Nat /\ applied[s] <= applied'[s] /\ applied'[s] <= written'[s]
        /\ written'[s] <= stripe[s].version /\ written'[s] # 0
        /\ k = Complete => v <= applied'[s]
    BY <1>1, <1>2, <1>3, <2>4
  <2>6. ~overtaken' => written'[s] = v
    BY <1>1, <2>3, <2>4
  <2>7. RowsTrue'
    <3>1. /\ applied'[s] <= written'[s] /\ written'[s] <= stripe'[s].version
          /\ rows'[s] = None <=> written'[s] = 0
          /\ ~overtaken' => \A i \in 1..Len(events') :
                events'[i].sub = s /\ events'[i].version = written'[s] => events'[i].status = rows'[s]
      BY <1>3, <1>4, <2>4, <2>5, <2>6
    <3>2. \A t \in Subs \ {s} :
            /\ applied'[t] <= written'[t] /\ written'[t] <= stripe'[t].version
            /\ rows'[t] = None <=> written'[t] = 0
            /\ ~overtaken' => \A i \in 1..Len(events') :
                  events'[i].sub = t /\ events'[i].version = written'[t]
                     => events'[i].status = rows'[t]
      BY <1>4, <2>3, <2>4 DEF RowsTrue
    <3> QED
      BY <3>1, <3>2 DEF RowsTrue
  <2>8. ASSUME OnlySubscription(s), Followed(s)
        PROVE  customer = stripe[s].customer /\ customer' = customer
    BY <1>5, <2>1, <2>8, FoundByCustomer
  <2>9. ASSUME Followed(s), ~overtaken', applied'[s] = written'[s]
        PROVE  rows'[s] \in ActiveStatuses <=> entitled' = s
    <3>1. CASE k = 3
      <4>1. entitled' = IF st \in ActiveStatuses THEN s ELSE None
        BY <2>1, <3>1 DEF Entitlement
      <4> QED
        BY <2>4, <4>1
    <3>2. CASE k # 3
      <4>1. entitled' = entitled /\ applied'[s] = applied[s]
        BY <1>1, <2>1, <2>4, <3>2
      <4>2. applied[s] = written[s] /\ written[s] = v
        BY <1>1, <1>2, <2>3, <2>4, <2>6, <2>9, <4>1
      <4>3. rows[s] = st
        BY <1>2, <2>3, <2>9, <4>2
      <4> QED
        BY <2>3, <2>4, <2>9, <4>1, <4>2, <4>3 DEF Followed
    <3> QED
      BY <3>1, <3>2
  <2> QED
    BY <2>5, <2>7, <2>8, <2>9
<1>6. CASE ~FindsUser(s) \/ k = 0
  <2>1. UNCHANGED <<rows, entitled, customer, written, applied, overtaken>>
    <3>1. CASE ~FindsUser(s)
      BY <3>1 DEF Apply, billingVars, historyVars
    <3>2. CASE FindsUser(s) /\ k = 0
      <4>1. ~(k >= 1) /\ ~(k >= 2) /\ ~(k >= 3)
        BY <3>2
      <4>2. /\ UNCHANGED <<rows, entitled, customer>>
            /\ overtaken' = (overtaken \/ FALSE)
            /\ written' = [written EXCEPT ![s] = written[s]]
            /\ applied' = [applied EXCEPT ![s] = applied[s]]
        BY <3>2, <4>1, Zenon DEF Apply
      <4> QED
        BY <1>1, <4>2
    <3> QED
      BY <1>6, <3>1, <3>2
  <2>2. user # "gone" /\ k = Complete => customer # stripe[s].customer
    BY <1>6 DEF FindsUser
  <2>3. RowsTrue'
    BY <1>4, <2>1 DEF RowsTrue
  <2> QED
    BY <1>1, <2>1, <2>2, <2>3 DEF Followed
<1> QED
  BY <1>5, <1>6

\* A request that asks Stripe, or has its answer of this moment.
Asks(d) ==
    /\ slots'[d].event \in 1..Len(events) /\ events[slots'[d].event].kind # "subscription"
    /\ LET e == events[slots'[d].event]
       IN  \/ /\ slots'[d].at = "retrieving"
              /\ e.kind = "checkout" /\ user # "gone" => customer' = stripe[e.sub].customer
           \/ /\ slots'[d].at = "applying"
              /\ slots'[d].status = stripe[e.sub].status
              /\ slots'[d].version = stripe[e.sub].version
              /\ slots[d] # Idle /\ slots[d].event = slots'[d].event

LEMMA AnswersStayTrue ==
    ASSUME TypeOK, EventsTrue, AnswersTrue, stripe' = stripe, NEW I, Answers(events', I),
           \A d \in Slots : slots'[d] \in {slots[d], Idle} \/ Asks(d)
    PROVE  AnswersTrue'
<1>1. /\ Len(events') = Len(events)
      /\ \A k \in 1..Len(events) :
            /\ events'[k].kind = events[k].kind /\ events'[k].sub = events[k].sub
            /\ events'[k].status = events[k].status /\ events'[k].version = events[k].version
  BY DEF Answers
<1>2. ASSUME NEW d \in Slots, slots'[d] # Idle
      PROVE  /\ slots'[d].event \in 1..Len(events)
             /\ events[slots'[d].event].kind # "subscription"
             /\ slots'[d].at = "applying" =>
                   \E j \in 1..Len(events) : /\ events[j].sub = events[slots'[d].event].sub
                                             /\ events[j].version = slots'[d].version
                                             /\ events[j].status = slots'[d].status
  <2>1. CASE slots'[d] = slots[d]
    BY <1>2, <2>1 DEF AnswersTrue
  <2>2. CASE Asks(d)
    <3>1. slots'[d].event \in 1..Len(events) /\ events[slots'[d].event].kind # "subscription"
      BY <2>2 DEF Asks
    <3> DEFINE s == events[slots'[d].event].sub
    <3>2. s \in Subs /\ stripe[s].status # None
      BY <3>1, EventSub DEF EventsTrue
    <3>3. PICK j \in 1..Len(events) : events[j].sub = s /\ events[j].version = stripe[s].version
      BY <3>2 DEF EventsTrue
    <3>4. events[j].status = stripe[s].status
      BY <3>3 DEF EventsTrue
    <3> QED
      BY <2>2, <3>1, <3>3, <3>4 DEF Asks
  <2> QED
    BY <1>2, <2>1, <2>2
<1>3. \A d \in Slots : slots'[d].at = "applying" => slots'[d] # Idle
  BY DEF Idle
<1> QED
  BY <1>1, <1>2, <1>3 DEF AnswersTrue

\* The only subscription is the one every event is about.
LEMMA OnlyOne ==
    ASSUME TypeOK, EventsTrue, NEW s \in Subs, OnlySubscription(s), NEW i \in 1..Len(events)
    PROVE  events[i].sub = s
BY EventSub DEF EventsTrue, OnlySubscription

\* A step of a request that writes nothing of a subscription down.
LEMMA QuietRequest ==
    ASSUME TypeOK, AccessInvariant, stripe' = stripe, user' = user,
           UNCHANGED <<rows, entitled, historyVars>>,
           NEW I \in SUBSET (1..Len(events)), \A a, b \in I : a = b,
           Answers(events', I), \A i \in I : events[i].kind = "invoice",
           customer' = customer \/ \E i \in 1..Len(events) : customer' = stripe[events[i].sub].customer,
           \A d \in Slots : slots'[d] \in {slots[d], Idle} \/ Asks(d)
    PROVE  AccessInvariant'
<1>1. EventsTrue /\ AnswersTrue
  BY DEF AccessInvariant
<1>2. EventsTrue'
  BY <1>1, AnswersKeepEvents
<1>3. AnswersTrue'
  BY <1>1, AnswersStayTrue
<1>4. ASSUME user # "gone"
      PROVE  RowsTrue'
  <2>1. /\ 1..Len(events') = 1..Len(events)
        /\ \A k \in 1..Len(events) :
              /\ events'[k].sub = events[k].sub /\ events'[k].status = events[k].status
              /\ events'[k].version = events[k].version
    BY DEF Answers
  <2> QED
    BY <1>4, <2>1 DEF AccessInvariant, RowsTrue, historyVars
<1>5. ASSUME user # "gone", NEW s \in Subs, OnlySubscription(s)
      PROVE  Followed(s)'
  <2>1. Followed(s)
    BY <1>5 DEF AccessInvariant
  <2>2. \A i \in 1..Len(events) : events[i].sub = s
    BY <1>1, <1>5, OnlyOne
  <2>3. customer' \in {customer, stripe[s].customer}
    BY <2>2
  <2>4. applied'[s] \in Nat /\ applied[s] <= applied'[s] /\ applied'[s] = applied[s]
    BY BillingLimits DEF TypeOK, historyVars
  <2>5. /\ ~overtaken' /\ applied'[s] = written'[s] => (rows'[s] \in ActiveStatuses <=> entitled' = s)
        /\ written'[s] # 0 => written[s] # 0
    BY <2>1 DEF Followed, historyVars
  <2>6. ASSUME NEW d \in Slots, slots'[d] # Idle, slots'[d] # slots[d]
        PROVE  /\ events[slots'[d].event].kind = "checkout" => customer' = stripe[s].customer
               /\ slots'[d].at = "applying" => slots'[d].version = stripe[s].version
    <3>1. Asks(d)
      BY <2>6
    <3>2. slots'[d].event \in 1..Len(events) /\ events[slots'[d].event].sub = s
      BY <2>2, <3>1 DEF Asks
    <3>3. CASE slots'[d].at = "retrieving"
      BY <1>5, <3>1, <3>2, <3>3 DEF Asks
    <3>4. CASE slots'[d].at # "retrieving"
      <4>1. /\ slots'[d].version = stripe[s].version
            /\ slots[d] # Idle /\ slots[d].event = slots'[d].event
        BY <3>1, <3>2, <3>4 DEF Asks
      <4>2. events[slots[d].event].kind = "checkout" => customer = stripe[s].customer
        BY <2>1, <4>1 DEF Followed
      <4> QED
        BY <2>3, <4>1, <4>2
    <3> QED
      BY <3>3, <3>4
  <2> QED
    BY <1>1, <1>3, <1>5, <2>1, <2>3, <2>4, <2>5, <2>6, RequestFollows
<1> QED
  BY <1>2, <1>3, <1>4, <1>5 DEF AccessInvariant, OnlySubscription

\* A request that writes down what it was told, or the first of it, and is answered
\* if that was all; for an invoice it is answered in any case.
LEMMA ApplyingRequest ==
    ASSUME TypeOK, AccessInvariant, stripe' = stripe, user' = user,
           NEW i \in 1..Len(events), NEW s \in Subs, s = events[i].sub,
           NEW st \in Statuses, NEW v \in 1..MaxVersion,
           \E j \in 1..Len(events) :
              events[j].sub = s /\ events[j].status = st /\ events[j].version = v,
           NEW k \in 0..Complete, Apply(s, st, v, k),
           NEW I \in SUBSET {i}, Answers(events', I),
           I = {} \/ k = Complete \/ events[i].kind = "invoice",
           \A d \in Slots : slots'[d] \in {slots[d], Idle},
           events[i].kind = "subscription" => v = events[i].version,
           events[i].kind = "checkout" /\ I # {} =>
              \E d \in Slots : /\ slots[d].at = "applying" /\ slots[d] # Idle
                               /\ slots[d].event = i /\ slots[d].version = v
    PROVE  AccessInvariant'
<1>1. EventsTrue /\ AnswersTrue
  BY DEF AccessInvariant
<1>2. EventsTrue'
  BY <1>1, AnswersKeepEvents
<1>3. AnswersTrue'
  BY <1>1, AnswersStayTrue
<1>4. PICK j \in 1..Len(events) : events[j].sub = s /\ events[j].status = st /\ events[j].version = v
  OBVIOUS
<1>5. ASSUME user # "gone"
      PROVE  /\ RowsTrue'
             /\ OnlySubscription(s) => Followed(s)'
  <2>1. RowsTrue
    BY <1>5 DEF AccessInvariant
  <2>2. /\ RowsTrue'
        /\ OnlySubscription(s) /\ Followed(s) /\ user # "gone" =>
              /\ customer' = customer
              /\ applied'[s] \in Nat /\ applied[s] <= applied'[s]
              /\ written'[s] # 0 => customer' = stripe[s].customer
              /\ ~overtaken' /\ applied'[s] = written'[s]
                    => (rows'[s] \in ActiveStatuses <=> entitled' = s)
              /\ customer = stripe[s].customer /\ k = Complete => v <= applied'[s]
    BY <1>1, <1>4, <2>1, ApplyFollows
  <2>3. ASSUME OnlySubscription(s)
        PROVE  Followed(s)'
    <3>1. Followed(s)
      BY <1>5, <2>3 DEF AccessInvariant
    <3>2. /\ customer' = customer
          /\ applied'[s] \in Nat /\ applied[s] <= applied'[s]
          /\ written'[s] # 0 => customer' = stripe[s].customer
          /\ ~overtaken' /\ applied'[s] = written'[s]
                => (rows'[s] \in ActiveStatuses <=> entitled' = s)
          /\ customer = stripe[s].customer /\ k = Complete => v <= applied'[s]
      BY <1>5, <2>2, <2>3, <3>1
    <3>3. ASSUME events[i].kind = "checkout", I # {}
          PROVE  /\ customer' = stripe[s].customer
                 /\ \A n \in 1..Len(events) : events[n].kind = "subscription" /\ Acked(n)
                       => events[n].version <= applied'[s]
      <4>1. PICK d \in Slots : /\ slots[d].at = "applying" /\ slots[d] # Idle
                               /\ slots[d].event = i /\ slots[d].version = v
        BY <3>3
      <4>2. customer = stripe[s].customer
        BY <3>1, <3>3, <4>1 DEF Followed
      <4>4. k = Complete
        BY <3>3
      <4>3. ASSUME NEW n \in 1..Len(events), events[n].kind = "subscription", Acked(n)
            PROVE  events[n].version <= applied'[s]
        <5>1. events[n].version <= v \/ events[n].version <= applied[s]
          BY <3>1, <3>3, <4>1, <4>3 DEF Followed
        <5>3. events[n].version \in 1..MaxVersion
          BY EventSub
        <5>2. events[n].version \in Nat /\ v \in Nat /\ applied[s] \in Nat
          <6>1. events[n].version \in Nat /\ v \in Nat
            BY <5>3, BillingLimits
          <6>2. applied \in [Subs -> 0..MaxVersion]
            BY DEF TypeOK
          <6> QED
            BY <6>1, <6>2, BillingLimits
        <5> QED
          BY <3>2, <4>2, <4>4, <5>1, <5>2
      <4> QED
        BY <3>2, <4>2, <4>3
    <3>4. \A d \in Slots : slots'[d] # Idle => slots'[d] = slots[d]
      OBVIOUS
    <3>5. events[i].kind = "subscription" /\ I # {} =>
             (customer = stripe[s].customer => events[i].version <= applied'[s])
      BY <3>2
    <3>6. /\ I \in SUBSET (1..Len(events)) /\ \A a, b \in I : a = b
          /\ \A n \in I : n = i /\ I # {}
      OBVIOUS
    <3> QED
      BY <1>1, <1>3, <2>3, <3>1, <3>2, <3>3, <3>4, <3>5, <3>6, RequestFollows
  <2> QED
    BY <2>2, <2>3
<1>6. \A u \in Subs : OnlySubscription(u) => u = s
  BY <1>1, OnlyOne
<1> QED
  BY <1>2, <1>3, <1>5, <1>6 DEF AccessInvariant, OnlySubscription

LEMMA DeliveryKeepsAccess ==
    ASSUME TypeOK, AccessInvariant, NEW i \in 1..Len(events), Delivery(i)
    PROVE  AccessInvariant'
<1> USE BillingLimits DEF requestVars, billingVars, historyVars
<1>2. EventsTrue /\ AnswersTrue
  BY DEF AccessInvariant
<1>3. /\ Answers(Begun(i), {}) /\ Begun(i) \in Seq(EventType)
      /\ events[i] \in EventType /\ events \in Seq(EventType)
  BY <1>2, BegunAnswers, EventSub
<1>4. CASE Acknowledge(i)
  <2>1. events[i].row = "ok" /\ Acked(i)
    BY <1>2, <1>4 DEF Acknowledge, Processed, EventsTrue, Acked
  <2>2. Answers(events', {})
    <3>1. events' = [events EXCEPT ![i].acked = TRUE]
      BY <1>4 DEF Acknowledge
    <3>2. ASSUME NEW e \in EventType
          PROVE  LET n == [e EXCEPT !.acked = TRUE]
                 IN  /\ n.kind = e.kind /\ n.sub = e.sub /\ n.status = e.status
                     /\ n.version = e.version /\ n.row = e.row /\ n.acked
      BY DEF EventType
    <3> DEFINE n == [events[i] EXCEPT !.acked = TRUE]
    <3>3. events' = [events EXCEPT ![i] = n]
      BY <3>1, Zenon
    <3>4. /\ n.kind = events[i].kind /\ n.sub = events[i].sub /\ n.status = events[i].status
          /\ n.version = events[i].version /\ n.row = events[i].row /\ n.acked
      BY <1>3, <3>2
    <3> HIDE DEF n
    <3>5. /\ Len(events') = Len(events) /\ events'[i] = n
          /\ \A k \in 1..Len(events) : k # i => events'[k] = events[k]
      BY <1>3, <3>3
    <3>6. \A k \in 1..Len(events) : events[k].row = "ok" => Acked(k)
      BY <1>2 DEF EventsTrue, Acked
    <3> QED
      BY <2>1, <3>4, <3>5, <3>6 DEF Answers, Acked
  <2>3. /\ {} \in SUBSET (1..Len(events)) /\ \A a, b \in {} : a = b
        /\ \A k \in {} : events[k].kind = "invoice"
    OBVIOUS
  <2>4. /\ stripe' = stripe /\ user' = user /\ UNCHANGED <<rows, entitled, historyVars>>
        /\ customer' = customer /\ slots' = slots
    BY <1>4 DEF Acknowledge
  <2> QED
    BY <2>2, <2>3, <2>4, QuietRequest
<1>5. CASE HandlePayload(i)
  <2> DEFINE s == events[i].sub
  <2>1. /\ s \in Subs /\ events[i].status \in Statuses /\ events[i].version \in 1..MaxVersion
    BY EventSub
  <2>2. Answers(Answered(Begun(i), i, "ok"), {i})
    BY <1>3, AnsweredAnswers
  <2>3. /\ stripe' = stripe /\ user' = user /\ slots' = slots
        /\ events[i].kind = "subscription" /\ Apply(s, events[i].status, events[i].version, Complete)
        /\ events' = Answered(Begun(i), i, "ok")
    BY <1>5 DEF HandlePayload
  <2>4. Answers(events', {i})
    BY <2>2, <2>3
  <2> HIDE DEF s
  <2> QED
    BY <2>1, <2>3, <2>4, AllStatements, ApplyingRequest DEF s
<1>6. ASSUME NEW d \in Slots, BeginRetrieve(d, i)
      PROVE  AccessInvariant'
  <2>1. /\ stripe' = stripe /\ user' = user /\ UNCHANGED <<rows, entitled, historyVars>>
        /\ events' = Begun(i) /\ events[i].kind # "subscription"
        /\ customer' = IF events[i].kind = "checkout" /\ user # "gone"
                       THEN stripe[events[i].sub].customer ELSE customer
        /\ slots' = [slots EXCEPT ![d] = [at |-> "retrieving", event |-> i]]
    BY <1>6 DEF BeginRetrieve
  <2>2. \A c \in Slots : slots'[c] \in {slots[c], Idle} \/ Asks(c)
    <3>1. slots'[d].at = "retrieving" /\ slots'[d].event = i
          /\ \A c \in Slots \ {d} : slots'[c] = slots[c]
      BY <2>1 DEF TypeOK
    <3>2. Asks(d)
      BY <2>1, <3>1 DEF Asks
    <3> QED
      BY <3>1, <3>2
  <2>3. /\ {} \in SUBSET (1..Len(events)) /\ \A a, b \in {} : a = b
        /\ \A k \in {} : events[k].kind = "invoice"
    OBVIOUS
  <2>4. Answers(events', {})
    BY <1>3, <2>1
  <2> QED
    BY <2>1, <2>2, <2>3, <2>4, QuietRequest
<1> QED
  BY <1>4, <1>5, <1>6 DEF Delivery

LEMMA HandlerKeepsAccess ==
    ASSUME TypeOK, AccessInvariant, NEW d \in Slots, Handler(d)
    PROVE  AccessInvariant'
<1> USE BillingLimits DEF requestVars, billingVars, historyVars
<1> DEFINE i == slots[d].event
           s == events[i].sub
<1>1. EventsTrue /\ AnswersTrue
  BY DEF AccessInvariant
<1>2. /\ slots[d] # Idle /\ i \in 1..Len(events) /\ events[i].kind # "subscription"
      /\ s \in Subs
  <2>1. slots[d].at \in {"retrieving", "applying"}
    BY DEF Handler, Retrieved, RetrieveFails, ApplyRetrieved
  <2>2. slots[d] # Idle
    BY <2>1 DEF Idle
  <2> QED
    BY <1>1, <2>2, EventSub DEF AnswersTrue
<1>3. /\ Answers(events, {}) /\ events \in Seq(EventType) /\ events[i] \in EventType
      /\ \A row \in {"ok", "error"} :
            Answers(Answered(events, i, row), IF row = "ok" THEN {i} ELSE {})
  BY <1>1, <1>2, BegunAnswers, AnsweredAnswers, EventSub
<1>4. /\ {} \in SUBSET (1..Len(events)) /\ \A a, b \in {} : a = b
      /\ \A k \in {} : events[k].kind = "invoice"
  OBVIOUS
<1>5. CASE Retrieved(d)
  <2>1. /\ stripe' = stripe /\ user' = user /\ UNCHANGED <<rows, entitled, historyVars>>
        /\ events' = events /\ customer' = customer
        /\ slots' = [slots EXCEPT ![d] = [at |-> "applying", event |-> i,
                        status |-> stripe[s].status, version |-> stripe[s].version]]
    BY <1>5 DEF Retrieved
  <2>2. \A c \in Slots : slots'[c] \in {slots[c], Idle} \/ Asks(c)
    <3>1. /\ slots'[d].at = "applying" /\ slots'[d].event = i
          /\ slots'[d].status = stripe[s].status /\ slots'[d].version = stripe[s].version
          /\ \A c \in Slots \ {d} : slots'[c] = slots[c]
      BY <2>1 DEF TypeOK
    <3>2. Asks(d)
      BY <1>2, <3>1 DEF Asks
    <3> QED
      BY <3>1, <3>2
  <2>3. Answers(events', {})
    BY <1>3, <2>1
  <2> QED
    BY <1>4, <2>1, <2>2, <2>3, QuietRequest
<1>6. CASE RetrieveFails(d)
  <2>1. /\ stripe' = stripe /\ user' = user /\ UNCHANGED <<rows, entitled, historyVars>>
        /\ customer' = customer /\ slots' = [slots EXCEPT ![d] = Idle]
        /\ events' = Answered(events, i, IF events[i].kind = "invoice" THEN "ok" ELSE "error")
    BY <1>6 DEF RetrieveFails, FailureRow
  <2>2. \A c \in Slots : slots'[c] \in {slots[c], Idle}
    BY <2>1 DEF TypeOK
  <2>3. CASE events[i].kind = "invoice"
    <3> DEFINE I == {i}
    <3>1. /\ I \in SUBSET (1..Len(events)) /\ \A a, b \in I : a = b
          /\ \A k \in I : events[k].kind = "invoice"
      BY <1>2, <2>3
    <3>2. Answers(events', I)
      BY <1>3, <2>1, <2>3
    <3> HIDE DEF I
    <3> QED
      BY <2>1, <2>2, <3>1, <3>2, QuietRequest
  <2>4. CASE events[i].kind # "invoice"
    <3>1. Answers(events', {})
      BY <1>3, <2>1, <2>4
    <3> QED
      BY <1>4, <2>1, <2>2, <3>1, QuietRequest
  <2> QED
    BY <2>3, <2>4
<1>7. CASE ApplyRetrieved(d)
  <2>1. /\ stripe' = stripe /\ user' = user /\ slots' = [slots EXCEPT ![d] = Idle]
        /\ slots[d].at = "applying" /\ Apply(s, slots[d].status, slots[d].version, Complete)
        /\ events' = Answered(events, i, "ok")
    BY <1>7 DEF ApplyRetrieved
  <2>2. \A c \in Slots : slots'[c] \in {slots[c], Idle}
    BY <2>1 DEF TypeOK
  <2>3. /\ slots[d].status \in Statuses /\ slots[d].version \in 1..MaxVersion
        /\ \E j \in 1..Len(events) : /\ events[j].sub = s /\ events[j].status = slots[d].status
                                     /\ events[j].version = slots[d].version
    <3>1. slots[d].status \in Statuses /\ slots[d].version \in 1..MaxVersion
      BY <2>1, SlotRow
    <3> QED
      BY <1>1, <2>1, <3>1 DEF AnswersTrue
  <2>4. Answers(events', {i})
    BY <1>3, <2>1
  <2> HIDE DEF i, s
  <2> QED
    <3> DEFINE I == {i}
    <3>1. I \in SUBSET {i} /\ Answers(events', I)
      BY <2>4
    <3>2. s = events[i].sub /\ i = slots[d].event
      BY DEF i, s
    <3>3. PICK st \in Statuses, v \in 1..MaxVersion : st = slots[d].status /\ v = slots[d].version
      BY <2>3
    <3>4. \E c \in Slots : /\ slots[c].at = "applying" /\ slots[c] # Idle
                           /\ slots[c].event = i /\ slots[c].version = v
      BY <1>2, <2>1, <3>2, <3>3
    <3>7. PICK k \in 0..Complete : k = Complete
      BY AllStatements
    <3>5. Apply(s, st, v, k)
      BY <2>1, <3>3, <3>7
    <3>6. \E j \in 1..Len(events) :
             events[j].sub = s /\ events[j].status = st /\ events[j].version = v
      BY <2>3, <3>3
    <3> HIDE DEF I
    <3> QED
      BY <1>2, <2>1, <2>2, <3>1, <3>2, <3>4, <3>5, <3>6, <3>7, ApplyingRequest
<1> QED
  BY <1>5, <1>6, <1>7 DEF Handler

\* A handler that ends before its last statement: the event is answered only if
\* the error is ignored.
LEMMA InterruptedAnswers ==
    ASSUME TypeOK, NEW i \in 1..Len(events), NEW log \in Seq(EventType), Answers(log, {}),
           NEW others, \A d \in Slots : others[d] \in {slots[d], Idle},
           Interrupted(i, log, others)
    PROVE  /\ \A d \in Slots : slots'[d] \in {slots[d], Idle}
           /\ \E I \in SUBSET {i} : Answers(events', I) /\ (I = {} \/ events[i].kind = "invoice")
<1>1. \A d \in Slots : slots'[d] \in {slots[d], Idle}
  BY DEF Interrupted
<1>2. CASE events' = log
  <2>1. {} \in SUBSET {i} /\ Answers(events', {})
    BY <1>2
  <2> QED
    BY <1>1, <2>1
<1>3. CASE events' = Answered(log, i, FailureRow(i)) /\ events[i].kind = "invoice"
  <2>1. FailureRow(i) = "ok"
    BY <1>3 DEF FailureRow
  <2>2. Answers(events', {i})
    BY <1>3, <2>1, AnsweredAnswers
  <2> QED
    BY <1>1, <1>3, <2>2
<1>4. CASE events' = Answered(log, i, FailureRow(i)) /\ events[i].kind # "invoice"
  <2>1. FailureRow(i) = "error"
    BY <1>4 DEF FailureRow
  <2>2. Answers(events', {})
    BY <1>4, <2>1, AnsweredAnswers
  <2> QED
    BY <1>1, <2>2
<1> QED
  BY <1>1, <1>2, <1>3, <1>4 DEF Interrupted

LEMMA InterruptedKeepsAccess ==
    ASSUME TypeOK, AccessInvariant,
           \/ \E i \in 1..Len(events) : DeliveryInterrupted(i)
           \/ \E d \in Slots : ApplyInterrupted(d)
    PROVE  AccessInvariant'
<1> USE DEF requestVars, billingVars, historyVars
<1>1. EventsTrue /\ AnswersTrue
  BY DEF AccessInvariant
<1>2. ASSUME NEW i \in 1..Len(events), DeliveryInterrupted(i)
      PROVE  AccessInvariant'
  <2> DEFINE s == events[i].sub
  <2>1. /\ stripe' = stripe /\ user' = user /\ Interrupted(i, Begun(i), slots)
    BY <1>2 DEF DeliveryInterrupted
  <2>2. PICK k \in 0..Complete : Apply(s, events[i].status, events[i].version, k)
    BY <1>2 DEF DeliveryInterrupted
  <2>3. s \in Subs /\ events[i].status \in Statuses /\ events[i].version \in 1..MaxVersion
    BY EventSub
  <2>4. PICK I \in SUBSET {i} : Answers(events', I) /\ (I = {} \/ events[i].kind = "invoice")
    BY <1>1, <2>1, BegunAnswers, InterruptedAnswers
  <2>5. \A d \in Slots : slots'[d] \in {slots[d], Idle}
    BY <1>1, <2>1, BegunAnswers, InterruptedAnswers
  <2>6. \E j \in 1..Len(events) : /\ events[j].sub = s /\ events[j].status = events[i].status
                                   /\ events[j].version = events[i].version
    OBVIOUS
  <2>7. ~(events[i].kind = "checkout" /\ I # {})
    BY <2>4
  <2> HIDE DEF s
  <2> QED
    BY <2>1, <2>2, <2>3, <2>4, <2>5, <2>6, <2>7, ApplyingRequest DEF s
<1>3. ASSUME NEW d \in Slots, ApplyInterrupted(d)
      PROVE  AccessInvariant'
  <2> DEFINE i == slots[d].event
             s == events[i].sub
             others == [slots EXCEPT ![d] = Idle]
  <2>1. /\ stripe' = stripe /\ user' = user /\ Interrupted(i, events, others)
        /\ slots[d].at = "applying"
    BY <1>3 DEF ApplyInterrupted
  <2>2. PICK k \in 0..Complete : Apply(s, slots[d].status, slots[d].version, k)
    BY <1>3 DEF ApplyInterrupted
  <2>3. /\ slots[d] # Idle /\ i \in 1..Len(events) /\ events[i].kind # "subscription" /\ s \in Subs
        /\ slots[d].status \in Statuses /\ slots[d].version \in 1..MaxVersion
    <3>1. slots[d] # Idle /\ slots[d].status \in Statuses /\ slots[d].version \in 1..MaxVersion
      BY <2>1, SlotRow
    <3> QED
      BY <1>1, <3>1, EventSub DEF AnswersTrue
  <2>4. \A c \in Slots : others[c] \in {slots[c], Idle}
    BY DEF TypeOK
  <2>5. \E j \in 1..Len(events) : /\ events[j].sub = s /\ events[j].status = slots[d].status
                                   /\ events[j].version = slots[d].version
    BY <1>1, <2>1 DEF AnswersTrue
  <2> HIDE DEF i, s, others
  <2>6. PICK I \in SUBSET {i} : Answers(events', I) /\ (I = {} \/ events[i].kind = "invoice")
    BY <1>1, <2>1, <2>3, <2>4, BegunAnswers, InterruptedAnswers
  <2>7. \A c \in Slots : slots'[c] \in {slots[c], Idle}
    BY <1>1, <2>1, <2>3, <2>4, BegunAnswers, InterruptedAnswers
  <2>8. ~(events[i].kind = "checkout" /\ I # {})
    BY <2>6
  <2>9. s = events[i].sub
    BY DEF s
  <2> QED
    BY <2>1, <2>2, <2>3, <2>5, <2>6, <2>7, <2>8, <2>9, ApplyingRequest
<1> QED
  BY <1>2, <1>3

LEMMA AccountKeepsAccess ==
    ASSUME TypeOK, AccessInvariant, Account \/ Crash \/ UNCHANGED vars
    PROVE  AccessInvariant'
<1> USE DEF requestVars, billingVars, boundVars, historyVars
<1>1. EventsTrue /\ AnswersTrue
  BY DEF AccessInvariant
<1>2. ASSUME Purge, UNCHANGED <<stripe, events, slots>>
      PROVE  AccessInvariant'
  BY <1>1, <1>2 DEF Purge, AccessInvariant, EventsTrue, AnswersTrue
<1>3. ASSUME UNCHANGED <<stripe, events, slots, billingVars, historyVars>>,
             user' # "gone" => user # "gone"
      PROVE  AccessInvariant'
  <2>1. EventsTrue' /\ AnswersTrue'
    BY <1>1, <1>3 DEF EventsTrue, AnswersTrue
  <2>2. ASSUME user' # "gone"
        PROVE  RowsTrue' /\ \A s \in Subs : OnlySubscription(s)' => Followed(s)'
    BY <1>3, <2>2 DEF AccessInvariant, RowsTrue, OnlySubscription, Followed, Acked
  <2> QED
    BY <2>1, <2>2 DEF AccessInvariant
<1>4. CASE Crash
  <2>1. /\ stripe' = stripe /\ user' = user /\ UNCHANGED <<rows, entitled, historyVars>>
        /\ events' = events /\ customer' = customer /\ \A d \in Slots : slots'[d] = Idle
    BY <1>4 DEF Crash
  <2>2. Answers(events', {})
    BY <1>1, <2>1 DEF Answers, EventsTrue, Acked
  <2>3. /\ {} \in SUBSET (1..Len(events)) /\ \A a, b \in {} : a = b
        /\ \A k \in {} : events[k].kind = "invoice"
    OBVIOUS
  <2> QED
    BY <2>1, <2>2, <2>3, QuietRequest
<1>5. CASE CancelDone
  BY <1>1, <1>5, StripeMoves, MovesKeepAccess
<1>6. CASE RequestDeletion
  BY <1>2, <1>3, <1>6 DEF RequestDeletion
<1>7. CASE CancelFails \/ Reactivate \/ UNCHANGED vars
  BY <1>3, <1>7 DEF CancelFails, Reactivate, vars
<1>8. CASE Visit
  BY <1>2, <1>8 DEF Visit
<1> QED
  BY <1>4, <1>5, <1>6, <1>7, <1>8 DEF Account

LEMMA AccessStep == TypeOK /\ AccessInvariant /\ [Next]_vars => AccessInvariant'
<1> SUFFICES ASSUME TypeOK, AccessInvariant, [Next]_vars PROVE AccessInvariant'
  OBVIOUS
<1>1. CASE StripeChanges
  BY <1>1, StripeMoves, MovesKeepAccess DEF AccessInvariant
<1> QED
  BY <1>1, DeliveryKeepsAccess, InterruptedKeepsAccess, HandlerKeepsAccess, AccountKeepsAccess DEF Next

LEMMA AccessInit == Init => AccessInvariant
<1> SUFFICES ASSUME Init PROVE AccessInvariant
  OBVIOUS
<1>1. /\ \A s \in Subs : /\ stripe[s].status = None /\ stripe[s].version = 0
                         /\ stripe[s].customer = None
                         /\ rows[s] = None /\ written[s] = 0 /\ applied[s] = 0
      /\ Len(events) = 0 /\ 1..Len(events) = {} /\ entitled = None /\ customer = None
      /\ \A d \in Slots : slots[d] = Idle /\ slots[d].at # "applying"
  BY DEF Init, Idle
<1>2. EventsTrue /\ AnswersTrue
  BY <1>1 DEF EventsTrue, AnswersTrue
<1>3. RowsTrue
  BY <1>1 DEF RowsTrue
<1>4. ASSUME NEW s \in Subs
      PROVE  Followed(s)
  <2>1. None \notin ActiveStatuses /\ None # s
    BY BillingLimits DEF ActiveStatuses, None
  <2> QED
    BY <1>1, <2>1 DEF Followed, Acked
<1> QED
  BY <1>2, <1>3, <1>4 DEF AccessInvariant

\* When every event of the only subscription is answered, the customer is known
\* and the newest state was written down to the end.
LEMMA AllWritten ==
    ASSUME TypeOK, AccessInvariant, ~overtaken, user # "gone",
           NEW s \in Subs, OnlySubscription(s),
           \A i \in 1..Len(events) : events[i].sub = s => events[i].acked
    PROVE  /\ rows[s] \in ActiveStatuses <=> entitled = s
           /\ rows[s] = stripe[s].status
<1>1. EventsTrue /\ AnswersTrue /\ RowsTrue /\ Followed(s)
  BY DEF AccessInvariant
<1>2. /\ written[s] \in Nat /\ applied[s] \in Nat /\ stripe[s].version \in Nat
      /\ applied[s] <= written[s] /\ written[s] <= stripe[s].version
  BY <1>1, BillingLimits DEF TypeOK, RowsTrue
<1>3. CASE stripe[s].status = None
  <2>1. stripe[s].version = 0
    BY <1>1, <1>3 DEF EventsTrue
  <2>2. applied[s] = written[s] /\ written[s] = 0
    BY <1>2, <2>1
  <2> QED
    BY <1>1, <1>3, <2>2 DEF Followed, RowsTrue
<1>4. CASE stripe[s].status # None
  <2>1. PICK c \in 1..Len(events) : events[c].sub = s /\ events[c].kind = "checkout"
    BY <1>1, <1>4 DEF EventsTrue
  <2>2. PICK i \in 1..Len(events) : /\ events[i].sub = s /\ events[i].kind = "subscription"
                                    /\ events[i].version = stripe[s].version
    BY <1>1, <1>4 DEF EventsTrue
  <2>3. Acked(c) /\ Acked(i)
    BY <2>1, <2>2 DEF Acked
  <2>4. stripe[s].version <= applied[s]
    BY <1>1, <2>1, <2>2, <2>3 DEF Followed
  <2>5. applied[s] = written[s] /\ written[s] = stripe[s].version
    BY <1>2, <2>4
  <2>6. rows[s] = events[i].status
    BY <1>1, <2>2, <2>5 DEF RowsTrue
  <2>7. events[i].status = stripe[s].status
    BY <1>1, <2>2 DEF EventsTrue
  <2> QED
    BY <1>1, <2>5, <2>6, <2>7 DEF Followed
<1> QED
  BY <1>3, <1>4

\* What the events, the answers under way and the records know of each other,
\* from the first event to the deletion of the account, though every statement of
\* a handler is committed by itself and may be its last.
THEOREM AccessIsFollowed == Spec => []BillingInvariant
<1>1. Init => TypeOK /\ Known /\ AccessInvariant
  BY BillingInit, AccessInit
<1>2. TypeOK /\ Known /\ AccessInvariant /\ [Next]_vars => (TypeOK /\ Known /\ AccessInvariant)'
  BY BillingStep, AccessStep
<1>3. TypeOK /\ AccessInvariant => BillingInvariant
  BY DEF BillingInvariant
<1> QED
  BY <1>1, <1>2, <1>3, PTL DEF Spec

\* A row and an entitlement torn apart by a crash or an error between their
\* statements are brought together again: while they disagree about the only
\* subscription, Stripe still has an event of it to deliver.
THEOREM EntitlementsAreBacked == Spec => []EntitlementBacked
<1>1. BillingInvariant => EntitlementBacked
  BY AllWritten DEF BillingInvariant, EntitlementBacked
<1> QED
  BY <1>1, AccessIsFollowed, PTL

\* With one subscription the user has Premium exactly while it is paid, once every
\* event was answered and no older state was written over a newer one: no order,
\* repetition, failure or crash of the deliveries loses a payment or its end.
THEOREM PremiumFollowsPayment == Spec => []SettledAccess
<1>1. BillingInvariant => SettledAccess
  BY AllWritten DEF BillingInvariant, SettledAccess, Settled, Paid
<1> QED
  BY <1>1, AccessIsFollowed, PTL
================================================================================
