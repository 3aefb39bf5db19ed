------------------------------- MODULE Billing -------------------------------
(***************************************************************************)
(* What one user pays for and what the user gets (server/billing/stripe.ts, *)
(* entitlements.ts, account.ts and the webhook handler).  Stripe changes    *)
(* subscriptions and reports each change by an event, delivered until it is *)
(* answered with 200, in any order, sometimes twice at a time.  Handlers    *)
(* ask Stripe for the state of a subscription and write it down when the    *)
(* answer comes; meanwhile the account may be deleted.  What an admin grants *)
(* is an entitlement of another source, which nothing here touches.         *)
(*                                                                         *)
(* There is one web process (docker-compose.yml), so nothing else of it     *)
(* runs between two awaits of a handler.  But its statements are not a      *)
(* transaction: each is committed by itself, and when the process dies or a *)
(* statement throws, those before it stay.                                  *)
(***************************************************************************)
EXTENDS Integers, Sequences, FiniteSets

CONSTANTS
    Subs,          \* subscriptions the user may come to have at Stripe
    Slots,         \* requests of the webhook handler that wait at a time
    MaxVersion,    \* bound: how often the state of a subscription changes
    MaxDuplicates, \* bound: deliveries beyond the one Stripe waits for
    MaxCrashes     \* bound: how often the web service dies or a statement throws

None == "none"

ASSUME BillingConstants ==
    /\ IsFiniteSet(Subs) /\ None \notin Subs
    /\ IsFiniteSet(Slots)
    /\ MaxVersion \in Nat \ {0}
    /\ MaxDuplicates \in Nat
    /\ MaxCrashes \in Nat

VARIABLES
    stripe,      \* Stripe's state of every subscription
    events,      \* the events so far, with the webhook_events row of each
    slots,       \* the requests of the webhook handler
    rows,        \* the status in the subscriptions table
    order,       \* the subscriptions in that table, in order of their id
    entitled,    \* the subscription the active stripe entitlement names
    user,        \* users.status ("active" stands for "disabled" too), or "gone"
    customer,    \* users.stripe_customer_id
    asking,      \* the subscription a deletion request is cancelling
    duplicates, crashes,
    written,     \* history: the newest state of each subscription in its row
    applied,     \* history: the newest one in both the row and the entitlement
    overtaken    \* history: was an older state written over a newer one?

requestVars == <<slots, asking>>
billingVars == <<rows, order, entitled, customer>>
boundVars   == <<duplicates, crashes>>
historyVars == <<written, applied, overtaken>>
vars == <<stripe, events, requestVars, billingVars, user, boundVars, historyVars>>

\* ACTIVE_STATUSES, without "trialing", which is handled like "active".
ActiveStatuses == {"active", "past_due"}
Statuses == ActiveStatuses \cup {"canceled"}

Kinds == {"checkout", "subscription", "invoice"}

\* A customer is named after the subscription it was created for.
Customers == Subs \cup {None}

Event(kind, s, status, version) ==
    [kind |-> kind, sub |-> s, status |-> status, version |-> version,
     row |-> None, acked |-> FALSE]

EventType ==
    [kind: Kinds, sub: Subs, status: Statuses, version: 1..MaxVersion,
     row: {None, "ok", "error"}, acked: BOOLEAN]

Idle == [at |-> "idle"]
SlotType ==
    {Idle} \cup [at: {"retrieving"}, event: Nat]
           \cup [at: {"applying"}, event: Nat, status: Statuses, version: 1..MaxVersion]

Init ==
    /\ stripe = [s \in Subs |-> [status |-> None, version |-> 0, customer |-> None]]
    /\ events = <<>>
    /\ slots = [d \in Slots |-> Idle]
    /\ rows = [s \in Subs |-> None] /\ order = <<>> /\ entitled = None
    /\ user = "active" /\ customer = None
    /\ asking = None
    /\ duplicates = 0 /\ crashes = 0
    /\ written = [s \in Subs |-> 0] /\ applied = [s \in Subs |-> 0] /\ overtaken = FALSE

-----------------------------------------------------------------------------
(* Stripe *)

\* The next state of s, and the events that report it (delivered in any order).
Changes(s, state, kinds) ==
    /\ stripe[s].version < MaxVersion
    /\ stripe' = [stripe EXCEPT ![s] = [state EXCEPT !.version = @ + 1]]
    /\ events' = events \o
         [i \in 1..Len(kinds) |-> Event(kinds[i], s, state.status, state.version + 1)]

\* The checkout session is completed.  Its customer is the one the user had
\* when the session was opened, if any.
Subscribe(s) ==
    /\ stripe[s].status = None
    /\ \E c \in {s} \cup ({customer} \ {None}) :
          Changes(s, [stripe[s] EXCEPT !.status = "active", !.customer = c],
                  <<"subscription", "checkout">>)
    /\ UNCHANGED <<requestVars, billingVars, user, boundVars, historyVars>>

PaymentFails(s) ==
    /\ stripe[s].status = "active"
    /\ Changes(s, [stripe[s] EXCEPT !.status = "past_due"], <<"subscription">>)
    /\ UNCHANGED <<requestVars, billingVars, user, boundVars, historyVars>>

PaymentMade(s) ==
    /\ stripe[s].status = "past_due"
    /\ Changes(s, [stripe[s] EXCEPT !.status = "active"], <<"invoice", "subscription">>)
    /\ UNCHANGED <<requestVars, billingVars, user, boundVars, historyVars>>

Ends(s) ==
    /\ stripe[s].status \in ActiveStatuses
    /\ Changes(s, [stripe[s] EXCEPT !.status = "canceled"], <<"subscription">>)
    /\ UNCHANGED <<requestVars, billingVars, user, boundVars, historyVars>>

-----------------------------------------------------------------------------
(* applySubscriptionState *)

\* findUserIdForSubscription: by the row, by a row of the same customer, by the
\* customer of the user.
FindsUser(s) ==
    /\ user # "gone"
    /\ \/ rows[s] # None
       \/ \E t \in Subs : rows[t] # None /\ stripe[t].customer = stripe[s].customer
       \/ customer = stripe[s].customer

\* grantEntitlement names the subscription; revokeEntitlement looks at no name.
Entitlement(s, status) == IF status \in ActiveStatuses THEN s ELSE None

\* The statements that write a state down: the upsert of the row, the customer,
\* the grant or the revocation.
Complete == 3

\* The first k of them are committed.  With an unknown user there are none.
Apply(s, status, version, k) ==
    IF FindsUser(s)
    THEN /\ rows' = IF k >= 1 THEN [rows EXCEPT ![s] = status] ELSE rows
         /\ order' = IF k >= 1 /\ rows[s] = None THEN Append(order, s) ELSE order
         /\ customer' = IF k >= 2 THEN stripe[s].customer ELSE customer
         /\ entitled' = IF k >= 3 THEN Entitlement(s, status) ELSE entitled
         /\ overtaken' = (overtaken \/ (k >= 1 /\ version < written[s]))
         /\ written' = [written EXCEPT ![s] = IF k >= 1 /\ version > @ THEN version ELSE @]
         /\ applied' = [applied EXCEPT ![s] = IF k >= 3 /\ version > @ THEN version ELSE @]
    ELSE UNCHANGED <<billingVars, historyVars>>

-----------------------------------------------------------------------------
(* The webhook handler *)

\* Mutant: an event that was tried counts as processed.
ProcessedOrTried(i) == events[i].row # None

\* webhook_events has a row without an error: the event is answered at once.
Processed(i) == events[i].row = "ok"

\* Mutant: the row of the failed attempt stays.
BegunKeepsRow(i) == events

\* The row a failed attempt left is deleted before the next one.
Begun(i) == [events EXCEPT ![i].row = None]

\* Insert the row after the handler: it must not be there.  A second delivery
\* may have inserted it meanwhile; the insertion in the catch block then fails
\* as well and the request is answered with 500 and leaves no trace.
Answered(log, i, row) ==
    IF log[i].row # None THEN log
    ELSE [log EXCEPT ![i].row = row, ![i].acked = @ \/ row = "ok"]

Handling(d, i) == slots[d] # Idle /\ slots[d].event = i

\* Stripe waits for one answer at a time, but it may give up waiting, and it
\* may deliver what was answered already.
MayDeliver(i) ==
    IF ~events[i].acked /\ ~\E d \in Slots : Handling(d, i)
    THEN UNCHANGED duplicates
    ELSE /\ duplicates < MaxDuplicates
         /\ duplicates' = duplicates + 1

Acknowledge(i) ==
    /\ MayDeliver(i)
    /\ Processed(i)
    /\ events' = [events EXCEPT ![i].acked = TRUE]
    /\ UNCHANGED <<stripe, requestVars, billingVars, user, crashes, historyVars>>

\* customer.subscription.*: the payload is applied at once.
HandlePayload(i) ==
    /\ MayDeliver(i)
    /\ ~Processed(i)
    /\ events[i].kind = "subscription"
    /\ Apply(events[i].sub, events[i].status, events[i].version, Complete)
    /\ events' = Answered(Begun(i), i, "ok")
    /\ UNCHANGED <<stripe, requestVars, user, crashes>>

\* checkout.session.completed and invoice.paid ask Stripe; the former takes over
\* the customer first.
BeginRetrieve(d, i) ==
    /\ slots[d] = Idle
    /\ MayDeliver(i)
    /\ ~Processed(i)
    /\ events[i].kind # "subscription"
    /\ customer' = IF events[i].kind = "checkout" /\ user # "gone"
                   THEN stripe[events[i].sub].customer ELSE customer
    /\ slots' = [slots EXCEPT ![d] = [at |-> "retrieving", event |-> i]]
    /\ events' = Begun(i)
    /\ UNCHANGED <<stripe, asking, rows, order, entitled, user, crashes, historyVars>>

\* Stripe answers with the state of this moment.
Retrieved(d) ==
    /\ slots[d].at = "retrieving"
    /\ LET i == slots[d].event
           s == events[i].sub
       IN  slots' = [slots EXCEPT ![d] = [at |-> "applying", event |-> i,
                        status |-> stripe[s].status, version |-> stripe[s].version]]
    /\ UNCHANGED <<stripe, events, asking, billingVars, user, boundVars, historyVars>>

\* Mutant: an error in the handler is not written down.
FailureRowOk(i) == "ok"

\* The catch block writes the error down and Stripe will retry; for an invoice
\* the error is ignored.
FailureRow(i) == IF events[i].kind = "invoice" THEN "ok" ELSE "error"

RetrieveFails(d) ==
    /\ slots[d].at = "retrieving"
    /\ LET i == slots[d].event
       IN  events' = Answered(events, i, FailureRow(i))
    /\ slots' = [slots EXCEPT ![d] = Idle]
    /\ UNCHANGED <<stripe, asking, billingVars, user, boundVars, historyVars>>

ApplyRetrieved(d) ==
    /\ slots[d].at = "applying"
    /\ LET i == slots[d].event
       IN  /\ Apply(events[i].sub, slots[d].status, slots[d].version, Complete)
           /\ events' = Answered(events, i, "ok")
    /\ slots' = [slots EXCEPT ![d] = Idle]
    /\ UNCHANGED <<stripe, asking, user, boundVars>>

\* A handler ends before its last statement: the process dies, and with it every
\* other request, or the statement throws and the catch block answers, which
\* leaves the other requests as they are.
Interrupted(i, log, others) ==
    /\ crashes < MaxCrashes
    /\ crashes' = crashes + 1
    /\ \/ /\ events' = log
          /\ slots' = [d \in Slots |-> Idle]
          /\ asking' = None
       \/ /\ events' = Answered(log, i, FailureRow(i))
          /\ slots' = others
          /\ UNCHANGED asking

\* Before anything was written, or in the middle of a payload.
DeliveryInterrupted(i) ==
    /\ MayDeliver(i)
    /\ ~Processed(i)
    /\ \E k \in 0..Complete :
          /\ events[i].kind # "subscription" => k = 0
          /\ Apply(events[i].sub, events[i].status, events[i].version, k)
    /\ Interrupted(i, Begun(i), slots)
    /\ UNCHANGED <<stripe, user>>

\* In the middle of what Stripe answered.
ApplyInterrupted(d) ==
    /\ slots[d].at = "applying"
    /\ LET i == slots[d].event
       IN  /\ \E k \in 0..Complete :
                 Apply(events[i].sub, slots[d].status, slots[d].version, k)
           /\ Interrupted(i, events, [slots EXCEPT ![d] = Idle])
    /\ UNCHANGED <<stripe, user, duplicates>>

-----------------------------------------------------------------------------
(* The account *)

HasActive == \E s \in Subs : rows[s] \in ActiveStatuses

\* cancelSubscriptionAtPeriodEnd takes the active row with the highest id.
LatestActive(k) ==
    /\ rows[order[k]] \in ActiveStatuses
    /\ \A j \in k + 1..Len(order) : rows[order[j]] \notin ActiveStatuses

\* Mutant: the foreign keys are not enforced.
PurgeUserOnly ==
    /\ user' = "gone"
    /\ UNCHANGED billingVars

\* hardDeleteUser: the foreign keys take the rows of the other tables along.
Purge ==
    /\ user' = "gone"
    /\ rows' = [s \in Subs |-> None] /\ order' = <<>>
    /\ entitled' = None /\ customer' = None

\* requestAccountDeletion: with an active subscription Stripe is asked to
\* cancel it, otherwise the account goes at once.
RequestDeletion ==
    /\ user # "gone" /\ asking = None
    /\ \/ /\ \E k \in 1..Len(order) : LatestActive(k) /\ asking' = order[k]
          /\ UNCHANGED <<billingVars, user>>
       \/ /\ ~HasActive
          /\ Purge
          /\ UNCHANGED asking
    /\ UNCHANGED <<stripe, events, slots, boundVars, historyVars>>

\* The update throws: the request ends with nothing written.
CancelFails ==
    /\ asking # None
    /\ asking' = None
    /\ UNCHANGED <<stripe, events, slots, billingVars, user, boundVars, historyVars>>

\* Stripe marks the subscription to end with its period (it stays active until
\* then), reports that, and the account is marked.  A subscription that has
\* ended meanwhile cannot be updated.
CancelDone ==
    /\ asking # None
    /\ stripe[asking].status \in ActiveStatuses
    /\ Changes(asking, stripe[asking], <<"subscription">>)
    /\ asking' = None
    /\ user' = IF user = "gone" THEN user ELSE "deletion_pending"
    /\ UNCHANGED <<slots, billingVars, boundVars, historyVars>>

\* Mutant: the deletion waits until no subscription is on record.
VisitWithoutRows ==
    /\ user = "deletion_pending"
    /\ \A s \in Subs : rows[s] = None
    /\ Purge
    /\ UNCHANGED <<stripe, events, requestVars, boundVars, historyVars>>

\* completeDeletionIfDue, called when the user looks at the account.
Visit ==
    /\ user = "deletion_pending"
    /\ ~HasActive
    /\ Purge
    /\ UNCHANGED <<stripe, events, requestVars, boundVars, historyVars>>

\* An admin's PATCH sets the status, whatever it was.
Reactivate ==
    /\ user # "gone"
    /\ user' = "active"
    /\ UNCHANGED <<stripe, events, requestVars, billingVars, boundVars, historyVars>>

\* The web service dies while its requests wait: what they were doing is lost.
Crash ==
    /\ crashes < MaxCrashes
    /\ crashes' = crashes + 1
    /\ slots' = [d \in Slots |-> Idle]
    /\ asking' = None
    /\ UNCHANGED <<stripe, events, billingVars, user, duplicates, historyVars>>

-----------------------------------------------------------------------------
StripeChanges ==
    \E s \in Subs : Subscribe(s) \/ PaymentFails(s) \/ PaymentMade(s) \/ Ends(s)

Delivery(i) ==
    Acknowledge(i) \/ HandlePayload(i) \/ \E d \in Slots : BeginRetrieve(d, i)

Handler(d) == Retrieved(d) \/ RetrieveFails(d) \/ ApplyRetrieved(d)

Account ==
    RequestDeletion \/ CancelFails \/ CancelDone \/ Visit \/ Reactivate

Next ==
    \/ StripeChanges
    \/ \E i \in 1..Len(events) : Delivery(i) \/ DeliveryInterrupted(i)
    \/ \E d \in Slots : Handler(d) \/ ApplyInterrupted(d)
    \/ Account
    \/ Crash

Spec == Init /\ [][Next]_vars

\* Stripe delivers something while anything is unanswered, and its API does not
\* fail for ever; the user looks at the account from time to time.
FairSpec ==
    /\ Spec
    /\ WF_vars(\E i \in 1..Len(events) : ~events[i].acked /\ Delivery(i))
    /\ SF_vars(\E d \in Slots : Retrieved(d))
    /\ \A d \in Slots : WF_vars(Handler(d))
    /\ WF_vars(Visit)

-----------------------------------------------------------------------------
(* Properties *)

TypeOK ==
    /\ stripe \in [Subs -> [status: Statuses \cup {None}, version: 0..MaxVersion,
                            customer: Customers]]
    /\ events \in Seq(EventType)
    /\ slots \in [Slots -> SlotType]
    /\ rows \in [Subs -> Statuses \cup {None}]
    /\ order \in Seq(Subs)
    /\ entitled \in Subs \cup {None}
    /\ user \in {"active", "deletion_pending", "gone"}
    /\ customer \in Customers
    /\ asking \in Subs \cup {None}
    /\ duplicates \in 0..MaxDuplicates
    /\ crashes \in 0..MaxCrashes
    /\ written \in [Subs -> 0..MaxVersion]
    /\ applied \in [Subs -> 0..MaxVersion]
    /\ overtaken \in BOOLEAN

\* Every event was answered with 200 and no request is under way.
Settled ==
    /\ \A i \in 1..Len(events) : events[i].acked
    /\ \A d \in Slots : slots[d] = Idle

Paid(s) == stripe[s].status \in ActiveStatuses

OnlySubscription(s) == \A t \in Subs : stripe[t].status # None => t = s

\* The subscriptions table and the entitlement are two records of one fact, written
\* by two statements: with one subscription they disagree only while Stripe will
\* still deliver an event of it, so that a write torn by a crash or by an error is
\* always made good.  Only an older state written over a newer one can break that.
EntitlementBacked ==
    ~overtaken /\ user # "gone"
      => \A s \in Subs : OnlySubscription(s) =>
            \/ rows[s] \in ActiveStatuses <=> entitled = s
            \/ \E i \in 1..Len(events) : events[i].sub = s /\ ~events[i].acked

\* With one subscription the user has Premium exactly while Stripe is paid, once
\* the events are in: failed, repeated and concurrent deliveries lose nothing.
\* Only an older state written over a newer one can break that.
SettledAccess ==
    Settled /\ ~overtaken /\ user # "gone"
      => \A s \in Subs : OnlySubscription(s) => (entitled = s <=> Paid(s))

\* The events tell of Stripe's states, the newest of them included, and an
\* event on record without an error was answered.
EventsTrue ==
    /\ \A s \in Subs : IF stripe[s].status = None
                       THEN stripe[s].version = 0 /\ stripe[s].customer = None
                       ELSE stripe[s].version # 0 /\ stripe[s].customer # None
    /\ \A i \in 1..Len(events) :
          LET e == events[i]
          IN  /\ stripe[e.sub].status # None
              /\ e.version <= stripe[e.sub].version
              /\ e.version = stripe[e.sub].version => e.status = stripe[e.sub].status
              /\ e.row = "ok" => e.acked
              /\ \A j \in 1..Len(events) :
                    events[j].sub = e.sub /\ events[j].version = e.version
                      => events[j].status = e.status
    /\ \A s \in Subs : stripe[s].status # None =>
          /\ \E i \in 1..Len(events) :
                events[i].sub = s /\ events[i].kind = "subscription"
                /\ events[i].version = stripe[s].version
          /\ \E i \in 1..Len(events) : events[i].sub = s /\ events[i].kind = "checkout"

\* So do the answers that requests hold, each of an event there is.
AnswersTrue ==
    \A d \in Slots :
        /\ slots[d] # Idle => /\ slots[d].event \in 1..Len(events)
                              /\ events[slots[d].event].kind # "subscription"
        /\ slots[d].at = "applying" =>
              \E j \in 1..Len(events) : /\ events[j].sub = events[slots[d].event].sub
                                        /\ events[j].version = slots[d].version
                                        /\ events[j].status = slots[d].status

\* What is on record of a subscription, as long as the account is there.
RowsTrue ==
    \A s \in Subs :
        /\ applied[s] <= written[s] /\ written[s] <= stripe[s].version
        /\ rows[s] = None <=> written[s] = 0
        /\ ~overtaken => \A i \in 1..Len(events) :
              events[i].sub = s /\ events[i].version = written[s] => events[i].status = rows[s]

Acked(i) == events[i].acked

\* The only subscription s: until the checkout names its customer the user is
\* not found and events of s are answered without effect; the checkout then asks
\* for a state that is not older than those, and from there on nothing is lost.  A
\* row the entitlement has yet to follow holds a state that is still unanswered.
Followed(s) ==
    /\ customer \in {None, stripe[s].customer}
    /\ written[s] # 0 => customer = stripe[s].customer
    /\ ~overtaken /\ applied[s] = written[s] => (rows[s] \in ActiveStatuses <=> entitled = s)
    /\ \A d \in Slots :
          slots[d] # Idle /\ events[slots[d].event].kind = "checkout"
             => customer = stripe[s].customer
    /\ \A c \in 1..Len(events) : events[c].kind = "checkout" /\ Acked(c)
          => /\ customer = stripe[s].customer
             /\ \A i \in 1..Len(events) : events[i].kind = "subscription" /\ Acked(i)
                   => events[i].version <= applied[s]
    /\ \A d \in Slots :
          slots[d].at = "applying" /\ events[slots[d].event].kind = "checkout"
             => \A i \in 1..Len(events) : events[i].kind = "subscription" /\ Acked(i)
                   => events[i].version <= slots[d].version \/ events[i].version <= applied[s]

\* What it takes for SettledAccess to hold.
AccessInvariant ==
    /\ EventsTrue
    /\ AnswersTrue
    /\ user # "gone" =>
          /\ RowsTrue
          /\ \A s \in Subs : OnlySubscription(s) => Followed(s)

\* The types, and what the events, the answers under way and the records know
\* of each other from the first event to the deletion of the account.
BillingInvariant == TypeOK /\ AccessInvariant

\* README.md:281: in hosted mode, "Premium is granted by an active Stripe
\* subscription".  Violated: the end of one subscription revokes the
\* entitlement that another, still paid, has granted.
PayingIsPremium ==
    Settled /\ ~overtaken /\ user # "gone" /\ (\E s \in Subs : Paid(s))
      => entitled # None

\* Requests that began before the account was deleted bring nothing of it back.
GoneLeavesNothing ==
    user = "gone" => /\ \A s \in Subs : rows[s] = None
                     /\ entitled = None

\* Every event is answered with 200 in the end: neither the row of a failed
\* attempt nor a second delivery blocks it.
EventsAnswered == []<>(\A i \in 1..Len(events) : events[i].acked)

\* An account marked for deletion is deleted once its subscriptions have ended
\* and the user looks again, unless an admin sets its status or an older state
\* was written over the end.
PendingDeletes ==
    (user = "deletion_pending" /\ \A s \in Subs : ~Paid(s))
      ~> (user # "deletion_pending" \/ overtaken)

=============================================================================
