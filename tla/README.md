# SiteDig in TLA+

SiteDig scans web sites: a Next.js web service with an SQLite database takes
requests from users and from its scheduler, a separate worker runs the scans and
reports back. This directory models the parts of it whose correctness depends on
the order of things, and the rules by which a scan's observations become
findings, differences and reports: modules that follow `src/` handler by handler,
TLC configurations that check them on small instances, and proofs for TLAPS.

Paths below are relative to `src/src/` unless they begin with `src/`; `README.md:N`
with a line number is the repository's own README.

## The system

| Part | State | Operations | What is hard |
|---|---|---|---|
| Scan queue (`worker/queue.ts`) | registry, pending line, slot counter, cancelled ids, all in memory | add, drain, cancelQueued, cancelAllQueued, evictFinishedBefore | slots and line stay right whatever races the end of a job |
| Scanner service (`worker/scanner.ts`) | resolutions made at acceptance, abort controllers, events being posted, job directories | createJob, cancelJob, processJob, notifyScanEvent, sweepArtifacts, stop | a status read before an await and written after it; shutdown with jobs still arriving |
| Targets and tools (`worker/dns.ts`, `runner.ts`, checks) | subprocesses | resolve, compare, run, kill | answers that change between two steps; tools that never end |
| Worker API (`worker/index.ts`) | none of its own | create, status, cancel, report, artifact download, shutdown | single-use downloads that overlap |
| Plans (`shared/profiles.ts`, `modules.ts`) | none | expand a profile and modules into steps | the same tool under different scopes |
| Parsers and findings (`worker/parsers.ts`, `findings.ts`, checks) | none | observe, corroborate, report | one tool's failure changes what is said of another |
| Reports (`shared/report*.ts`, `shared/remediation`, `worker/pdf`) | none | sections, matrix, roadmap, posture tables | two files that must tell the same story |
| Scan history (`server/scans.ts`) | rows of `scans` with tools and findings | recordScanQueued, applyScanEvent, markScanFailed, failStaleScans, counts, retention | events early, late, twice or never; restarts of either side |
| Scan handlers (`app/api/scan`, `app/api/internal`, `app/lib/worker-client.ts`) | requests suspended between awaits | POST with limit and reconcile loop, status, cancel, event | the limit is counted before the awaits and recorded after them |
| Scheduler (`server/scheduler.ts`, `schedules.ts`) | `scheduled_scans`: enabled, next run, last scan, last error | tick, claim with a lease, dispatch, pause; the owner's edits | retries after a timeout, several web instances, edits during a dispatch |
| Alerts and differences (`server/schedule-alerts.ts`, `scan-diffs.ts`) | last alerted scan | maybeSendScheduleAlert, computeScanDiff | what is missing: gone, or only not looked at? |
| Billing (`server/billing/stripe.ts`, `entitlements.ts`) | subscriptions, entitlements, webhook events | webhook handler, grant, revoke | webhooks out of order, twice, of replaced subscriptions |
| Sessions and authentication (`server/auth`, `server/email/tokens.ts`) | sessions, login challenges, tokens | login, second factor, reset, sweep | requests that go on with a row read before an await |
| Account (`server/account.ts`) | user status | request and complete a deletion | deletion with scans and a subscription under way |
| Maintenance and digest (`server/digest.ts`, `settings.ts`) | lock and last-run rows | hourly tick | a lock that expires while it is held |
| Interface (`app/**/*.tsx`) | page state | polling | not modelled |

The web service calls the worker over HTTP (create, status, cancel, report,
download). The worker calls back with one scan event per job, at best effort.
The database belongs to the web service alone; the worker keeps everything in
memory and loses it at a restart by design (`worker/queue.ts:12`).

`PROJECT.json` lists every component with its sources and status, and under
`hazards` each place where an order, a crash or a boundary could break something
that a test would hardly reach, with the properties that watch over it.

## The modules

The modules fall into two groups that meet in `ScanJob` and `ScanDiff`: protocols
between processes, and the analysis of one scan.

| Module | Models | Checked by | Proved in |
|---|---|---|---|
| `ScanQueue`, `FifoPool`, `Filter` | the worker with many jobs; what its queue promises | `MCScanQueue` | `ScanQueueProofs` |
| `ScanJob` | one job with every await, its tools, files and downloads | `MCScanJob` | `ScanJobProofs` |
| `ScanHistory` | the web service's rows of one user, the network and the worker from outside | `MCScanHistory` | `ScanHistoryProofs` |
| `Scheduler` | recurring scans on several web instances, and alerts | `MCScheduler` | `SchedulerProofs` |
| `Billing` | one user's subscriptions, entitlement and deletion | `MCBilling` | `BillingProofs` |
| `SignIn` | one user's logins, challenges, sessions, resets | `MCSignIn` | `SignInProofs` |
| `ScanPlan`, `Checks`, `Findings`, `Report`, `ScanDiff` | the steps of a plan, what each delivers, the findings, the two files, the difference of two scans | `MCScanDiff` | `ScanDiffProofs` |
| `SequenceLemmas` | nothing: induction over numbers and sequences, and the lemmas of `Filter` | | itself |

**`ScanQueue`** is the worker: the whole of `queue.ts` and the control of
`scanner.ts` around it. Node runs one callback at a time, so the code between two
awaits is one action, and a promise chain that only runs microtasks is part of
the action that settles it. `phase` says at which await the code of a job is
suspended; the other variables have the names of the fields. `Settle` is the end
of `processJob` with the `then`, `catch` and `finally` handlers of `drain`,
including the next `drain`; `Drain` is the loop that starts jobs. `CreateJob` to
`AcceptJob` are the two stretches of `createJob` around its DNS lookup;
`CancelQueued` and `CancelRunning` the two branches of `cancelJob`;
`SweepArtifacts` evicts any set of finished jobs, which stands for any clock;
`Stop`, `StopDrained`, `StopDeadline` and `Exit` are the shutdown. `accepted`
and `finishes` are history variables, read by properties only.

**`FifoPool`** is what the queue promises, in two actions: one line in order of
arrival, whose first `Servers` members are being served, nobody admitted beyond
the capacity, each customer reported once when leaving. `ScanQueue!Pool` is the
refinement mapping: the line is the accepted jobs that have not gone through
`onFinish`, in order of acceptance. `Filter` has the one operator on sequences these
modules need, written so that proofs can unfold it.

**`ScanJob`** opens up one of those phases. The job goes through `Create`, `Enqueue`
and `Start`. A resolution of the target is its outcome: `Revalidate` and `StepValidated`
let the job go on, `RevalidationFails` and `StepRefused` end it, for whatever reason
(`resolveAndValidate`, `assertNoRebinding`); that the entry of `validatedTargets` is there
to compare the first one with is `PriorResolutionKept` of `ScanQueue`. `Revalidate` starts
the version probes, subprocesses that take no signal. A step is a subprocess (`Spawn`,
`ChildExits`, `StepTimeout`, `ChildKilled`, `ChildReleased`: `runTool` in `runner.ts`) or an
in-process check (`InProcessEnds`). `CancelRunning` and `ScanTimeout`, which is also the
abort by a shutdown, fire the signal at any await (`Abort`): the await of a running tool
ends at once, and a tool spawned afterwards is not waited for either. `strays` counts the
tools nobody waits for any more; one may still create a file (`StrayEnds`), even while the
directory is being removed (`RemoveDir`). After the steps come WPScan, if WhatWeb saw WordPress and the plan had none,
and the PDF (`BeginRender`, `RenderDone`, `RenderFails`). `files` is what lies in the
job's directory, `readers` the downloads (`Download`, `Open`, `Deliver`, `Cut`), of
which the first delivered one deletes its file. `Sweep` is `sweepArtifacts` with its
two ages, of the job's end and of the directory. `Crash` loses all but the directory. `cancelledIn` and `late` are history variables: the
await at which the running job was cancelled, and how many tools were spawned after that.
`status`, `phase` and the settlement of the job are those of `ScanQueue`, in which an
await of `processJob` may end in any of the ways seen here.

**`ScanHistory`** is the web service's side for one user: the status of each row in
`scans`, the POST handler cut at its awaits (`CheckLimit`, `Reconcile`, `Recount`,
`SendCreate`, `GetReply`, `RequestFails`), the 404 branch of the status and cancel
handlers, the hourly sweep, the deletion of the account, restarts of both services,
and the worker seen from outside: it accepts, finishes, forgets and posts its event
up to three times. Requests, replies and event copies sit in `carried`, `replied`
and `copies` until they arrive or are lost. A row is stale or not; `Age` may make
any row stale at any time, because a row is dated when the scan is queued and a
scan may wait. No event carries `running`, so rows are only ever queued or closed.
`ScanQueue` justifies what `ScanHistory` assumes of the worker: one event per job
(`ReportedOnce`), and an end to each job.

**`Scheduler`** is recurring scans: the rows of `scheduled_scans`, the dispatchers of
several web instances on them, the owner's edits and the alerts. `stage` says where the
loop of `runDueScheduledScans` stands in an instance. Statements of the loop are separate
actions even where no await lies between them, because the instances are processes of
their own on one database. `clock` is the time all of them read; `tick` is the `now` the
loop took at its start, from which leases and next runs are counted. A timing is the
remainder of a regular time modulo `Period`, which covers daily and weekly schedules
alike; `ComputeNextRun` is the first such time after another. The owner's requests are
`DeleteSchedule` and an update in two statements, as in `updateSchedule`: `ReadForUpdate`
makes up every column from the row it reads (`patch`), also when the alerts alone change, and
`WriteBack` writes them all, whatever the row says by then. Within one process nothing runs
between the two, so the dispatcher of that instance waits; another instance does not.
`HandleEvent`, `MailSent` and `MailFails` are
the scan event handler up to and after the mail. Whether the account is in order, the
limit reached, the worker willing or a change worth an alert is a free choice. `slot`,
`lost`, `stale` and `overwritten` are history variables for the properties: the regular time
a row was last set to, the scans whose creation nobody recorded, the instances whose read
of a row another writer has overtaken, and the schedules where an update was written back
nevertheless, or set a new time during a dispatch. What it sees of the worker (accept or refuse, then events) is
what `ScanQueue` and `ScanHistory` say of it.

**`Billing`** has Stripe on one side, which changes the state of subscriptions and reports
each change by an event until that is answered with 200, and the user on the other.
`HandlePayload` is a delivery whose payload is applied at once, `BeginRetrieve` one that
asks Stripe first; `Retrieved`, `RetrieveFails` and `ApplyRetrieved` are the rest of that
handler. `Begun` and `Answered` are what happens to the row in `webhook_events`: a failed
attempt leaves a row that the next one replaces, and a second delivery that finds a row
inserted meanwhile fails in the `catch` block too. `Apply` is `applySubscriptionState` with
the look-up of the user: its statements, the row, the customer and the entitlement, are
committed one by one, and `k` says how many were. One web process runs them without a pause
(`docker-compose.yml`; `HandlePayload`, `ApplyRetrieved`), but it may die, or a statement throw,
after any of them (`DeliveryInterrupted`, `ApplyInterrupted`), and also between the handler
and the record of the event. `written` and `applied`, history variables, are the newest
states that reached the row and that were written to the end. `RequestDeletion`, `CancelDone`,
`Visit` and `Purge` are `account.ts`. Statuses other than `active`, `past_due` and
`canceled` behave like one of these.

**`SignIn`** is one user's way to a session and out of it. Requests that check or hash a
password are suspended at that await with the row they have read (`BeginLogin`,
`FinishLogin`; `BeginReset`, `FinishReset`); everything else is one statement or a
transaction and one action. Challenges count their attempts (`WrongCode`, `RightCode`,
`LockOut`, `Resend`); what expires in minutes may expire at any moment, sessions age in
days (`Day`) between two runs of the sweep. `Disable`, `Enable` and `Delete` are an
admin's requests or the deletion of the account. `failed`, `signIns`, and in the rows
`password` and `late`, are history variables.

**`ScanPlan`** expands a profile and modules into the steps of `processJob`.
**`Checks`** says what each step delivers of a site: a site is a set of pairs of a tool and
a fact, and `trouble` is one tool of one scan that dies, answers with an error, writes
half a file or fails in one of its lookups; each operator is the error handling of one
check or parser. **`Findings`** has every rule of `buildFindings`, by what it reads, whom
it corroborates, how severe it is and which remediation it names. **`Report`** is what the
Markdown and the PDF file show of them: the catalogue and the roadmap, the validation
matrices, the sections and what they say of a failed check, and the posture tables.
**`ScanDiff`** runs the steps (`Observe`), keeps the rows of a scan (`FindingsDetail`) and
compares the last two as `computeScanDiff` does. `truth` in a row is what a scan without
any trouble by the widest plan would have found, `hampered` the tools that saw less.

**`MC*`** modules only give the constants their values. The operators under a comment
that begins with "Mutant" are not part of the model. Each is a version of the definition
it stands before with a plausible bug, and shows that the property named in
`PROJECT.json` notices that bug.

## The runs

| Run | Instance | Shows |
|---|---|---|
| `queue_safety` | 4 jobs, 2 slots, 1 place in the queue | `ActiveIsInFlight`, `WithinLimits`, `ReportedOnce`, `CancelReachesTools`, `QueueInvariant` |
| `queue_live` | 3 jobs, 1 slot, 2 places, with fairness | `ImplementsPool`, `NoResurrection`, `DrainedMeansDone`, `EveryJobReported` |
| `history` | 2 scans, limit 1, 2 attempts, with fairness | `AppliedIsFinal`, `ShownIsTrue`, `HistoryInvariant`, `ClosedStaysClosed`, `OpenRowsClose` |
| `sched_claims` | 1 schedule, 2 instances, 2 scans, 1 update, clock to 5 | `OneHolder`, `OneScanPerSlot`, `PausedStaysQuiet` |
| `sched_served` | 2 schedules, 1 instance, 1 scan, 1 copy of its event, 1 update, clock to 3, with fairness | `AlertWasSent`, `DueIsServed` |
| `job` | 4 steps, 2 downloads, 1 crash, with fairness | `StopReachesChild`, `CancelHeeded`, `ReportIsComplete`, `RetainedUntilDelivered`, `JobSettles`, `DirectoryGoes` |
| `billing` | 1 subscription, 2 requests at a time, 3 changes, 1 duplicate, 1 crash or error at any statement, with fairness | `EntitlementBacked`, `SettledAccess`, `BillingInvariant`, `GoneLeavesNothing`, `EventsAnswered`, `PendingDeletes` |
| `billing_two_subs` | 2 subscriptions | **violated**: `PayingIsPremium` |
| `sign_in` | 2 requests, 2 challenges, 1 session, 2 attempts, 1 reset | `ChallengesHold`, `ResetSignsOut`, `SessionsEnd` |
| `analysis` | 2 scans, 2 plans, 12 pools of facts and troubles | `ResolvedIsGone`, `ReportedIsReal`, `RoadmapComplete`, `EvidenceShown` |
| `diff_resolved` | the pool of installed software | **violated**: `FailedIsNotResolved` |
| `support_observed` | a pool of archived paths | **violated**: `SupportIsObserved` |

*Queue.* The slot counter is the number of open `processJob` promises; the limits hold;
`onFinish` runs once per job; a running job can be aborted and a cancelled one has been.
`QueueInvariant` adds that nobody waits beside a free slot, that the line holds exactly
the queued jobs, once, none cancelled, so that the two `continue` branches of `drain` are
dead, that the resolution made at acceptance survives until it is compared, and that the
status agrees with how far the code has come. `ImplementsPool` says that jobs are admitted,
served and leave as in a first-in first-out pool, whatever is cancelled in between.
`NoResurrection` is about statuses, `DrainedMeansDone` about a shutdown that ends before its
deadline.

*History.* What the worker reported stays (`AppliedIsFinal`); no success is shown that the
worker did not report (`ShownIsTrue`); `HistoryInvariant` adds that nothing of a deleted
user comes back and that one request makes one job. No row stays open for ever
(`OpenRowsClose`).

*Scheduler.* Two instances never dispatch one schedule at a time (`OneHolder`); whichever
instances retried it and however often, each regular time of a schedule has one scan whose
answer arrived (`OneScanPerSlot`). Both leave out a schedule once an update of its owner has
written over what another instance wrote after the update had read the row, or has set a
new time during a dispatch; an update that nobody writes across, in whichever order it
meets claims, runs and retries, is covered. Nothing starts for a paused or deleted schedule, listed or read before or not; a
due schedule is run, deferred or paused; an alert is written down only for a mail that was
sent, and only with the schedule that ran the scan.

*Job.* Once the scan is stopped no step's tool is waited for, not even one spawned after
the signal, and after its user's cancellation at most one more is begun, at whichever await
the job was (`StopReachesChild`); a cancelled job ends as completed only when all its steps were
done by then (`CancelHeeded`); a report that can be fetched has a record of every step; until
its time is over an artifact is missing only because somebody received it; a running job
settles even if no tool ever ends by itself; no directory stays for ever, crashes and files of
left-over tools included. The run has 176,062 distinct states.

*Billing.* With one subscription, its row and the entitlement disagree only while an event
of it is unanswered, so a write torn by a crash or an error is made good by a delivery
(`EntitlementBacked`); Premium is what Stripe says, once all events are in; a deleted account
stays empty; each event is answered in the end; a marked account goes when its user looks and
nothing is paid any more. `BillingInvariant` is why the first two hold: until the checkout has
named the customer, events of the subscription are answered without effect, and the checkout
then asks for a state not older than those; a state that was not written to the end is
still unanswered. `EntitlementBacked`, `SettledAccess` and `PendingDeletes` leave out the case
that an older state was written over a newer one, which the code allows (below).

*Sign-in.* A challenge compares at most `MFA_MAX_ATTEMPTS` wrong codes however often a code
is sent again, opens one session, and is the only open one; after a reset only a login
that had read the row before can still open a session by the old password; a session is
accepted for at most a day past its expiry.

*Analysis.* `ResolvedIsGone`: a finding is shown as resolved only if it is gone from the
site, or if the tool that missed it was recorded as ok or is no source of it; the second
half is the weakness `diff_resolved` shows. `ReportedIsReal`: a finding is new, or has
another severity, only because of the site or of a tool behind that finding (`Upstream`).
`RoadmapComplete`: every finding above informational has an entry in the catalogue and one
window. `EvidenceShown`: both files have a section and a mark for every source, and the
Markdown one for every disagreement and failure; it leaves out the one source that
`support_observed` shows to have seen nothing.

### Bounds

`queue_safety` has four jobs for a capacity of three, two slots and one place: the fewest with
which one is refused, or two arrivals race for the last place, while two run side by side.
Its 887,476 states are told apart without `accepted` (`VIEW WithoutOrder`): no action reads
that history, and of the invariants only its type does. `queue_live`, which is about the
order, keeps it, with three jobs for one slot and a line of two.

Two scans are the fewest with which the reconcile loop of one request meets the row of
another, and a limit of one makes it run. Two attempts, of
the code's three, are the fewest with which an event is sent again and a copy of it arrives
late; what the run checks of safety is proved for any number of either.

The clock of the scheduler counts in units of a lease's half: `Lease` 2 and `MaxTick` 1
keep the order of the code's times, a tick of at most ten requests of fifteen seconds
being over before a lease of fifteen minutes is. `Period` 3 has the next regular time
after the end of the lease, as a day is. A clock up to 5 sees a regular time, a deferral,
its retry and the next regular time; one update, of any columns, lies across all of them;
two scans are the fewest that could be one too many. The instances are interchangeable
(`SYMMETRY`). `sched_served` has two schedules and a `Batch` of one, so that one waits for a
later tick; up to 3 a schedule that is due at 1 is deferred and due again. It also has the
events and alerts, which the claims do not read, with a second schedule they could be
mistaken for.

The plan of `job` has a step of each kind: in-process, a subprocess, one that checks its
output with further requests, one that downloads first; WPScan may follow. `TTL` 2 and
`PdfLimit` 1 let a directory be older or younger than its job's end. Two downloads are the
fewest that overlap.

Three changes take a subscription from active to past due and back, or to its end; two
requests of the handler are the fewest in which two deliveries of one event race; one crash
or error falls at every statement. Two attempts of a code, an expiry of two days and an idle limit of one keep the order of the
code's numbers. Two requests let a login and a reset overlap, or two logins.

`analysis` takes the facts in pools: each pool joins those that some rule relates, with the
troubles of the tools that see them, and a behaviour has one pool. Findings of different
pools share no tool rule but through `http`, `httpx` and `email`, whose failures are in every
pool where they matter. The two plans differ in profile, scope and modules. Two scans are what a
difference has.

Ids, scans, requests and challenges are interchangeable and the invariants treat them
alike, so the safety runs of `ScanQueue`, `Scheduler` and `SignIn` use symmetry; runs with
liveness or with the order of the line do not. Deadlock is not checked: each model may come
to rest (all jobs done, the process exited, no more requests, changes or days).

### Fairness

`ScanQueue`: weak fairness of the steps of `processJob` and of `notifyScanEvent`. Each
await there is bounded: DNS and fetches by timeouts, tools by the timer that kills their
process group, the PDF by a race against sixty seconds, an event by three attempts of
five seconds. Nothing is assumed of users, of the sweep or of signals.

`ScanJob` assumes less and shows where that bound comes from: weak fairness of `Bounded`,
which holds the steps the worker's own timers end, and not `ChildExits`. Time passes, the
sweep recurs (`scanner.ts` sets its interval at the start), and the container is restarted
after a crash. Nothing is assumed of tools, users, downloads, or of the start of the job.

`ScanHistory`: the hourly maintenance runs, time passes, and the loop of
`notifyScanEvent`, bounded by its counter, goes on. Nothing is assumed of the network,
nor of the jobs: `OpenRowsClose` holds if every event is lost.

`Scheduler`: the dispatcher of each instance goes on, since its timer fires every five
minutes (`instrumentation.ts:38`) and its only await has a timeout (`worker-client.ts:61`); an
update that has read a row writes it back or throws.
Nothing is assumed of the worker, the mails, the owner or the clock.

`Billing`: Stripe goes on delivering while any event is unanswered, its API does not fail
for ever (strong fairness of some request getting its answer, an assumption about Stripe),
each handler goes on, and the user looks at the account from time to time, which only `PendingDeletes` needs.

## What the code does not keep

Three runs are violated, each against a sentence of the repository:

* `PayingIsPremium`. `revokeEntitlement` looks at no subscription: the end of one takes away
  the Premium that another, still paid, has granted (`server/billing/stripe.ts:113`,
  `README.md:281`).
* `FailedIsNotResolved`. `computeScanDiff` looks at the records of a finding's sources. When
  WhatWeb fails, the package lookup has no packages and is recorded as ok: known CVEs are
  shown as resolved (`server/scan-diffs.ts:34` and `:67`).
* `SupportIsObserved`. feroxbuster counts as a source of archived paths that still answer when
  its record says ok, whatever it found (`worker/findings.ts:563`); `shared/types.ts:85` calls
  these tools those "whose independent observations agree". When it found nothing, the matrix
  marks a tool that has no section in either file.

The models contain the following steps as well, and no property forbids them:

* After its last check (`worker/scanner.ts:977`) `processJob` awaits WPScan and the PDF and then
  assigns `completed` (`:1118`): a cancellation in between is shown and then taken back.
* WPScan begins without a new resolution, though the comment at `worker/scanner.ts:660` speaks
  of every tool.
* A refused job leaves its entry in `validatedTargets`, and if the plan could not be made its
  directory until the sweep (`worker/scanner.ts:467`, `:517`).
* The sweep takes a directory by its age alone (`worker/scanner.ts:1333`), so also that of a job
  that waits or runs; `README.md:231` speaks of finished artifacts.
* `failStaleScans` goes by the age of the row (`server/scans.ts:310`): a scan that waits for
  others may be failed while the worker holds it. Its event puts that right, unless lost.
* The POST handler counts, awaits and records (`app/api/scan/route.ts:35`): parallel requests
  see the same count. Requests whose reply comes after fifteen seconds are never recorded
  and not counted either.
* An answer that takes more than fifteen seconds defers a schedule whose scan has started, so
  the retry starts another (`lost` in `Scheduler`).
* `updateSchedule` reads a row and later writes every column of it, `next_run_at` and `enabled`
  included, without a transaction or a condition (`server/schedules.ts:202` to `:243`). With
  several web instances, a PATCH of the alerts alone undoes a claim, a run or a pause that
  another instance wrote in between: a second instance may take the schedule, or the same
  regular time comes due again (`overwritten` in `Scheduler`), although
  `server/scheduler.ts:126` says "so multiple web instances cannot run the same schedule".
  Within one process a new time that the owner sets during a dispatch takes the claim's
  place, and `markScheduleRun`, which counts from the timing read before the worker was
  called, overwrites it.
* A tool spawned when the signal has already fired gets execa's SIGTERM, but no listener and
  no timer is left to end its process group (`worker/runner.ts:151`), and the version probes
  take no signal (`:189`); the comment at `worker/runner.ts:74` says "so the whole process
  group can be killed on timeout or cancellation (prevents orphaned scanners)". After the time limit, or at a
  shutdown, the loop goes through all the steps left and begins a tool for each, as only a
  cancellation ends it (`worker/scanner.ts:656`).
* A left-over tool that creates a file while `rmSync` runs makes the removal fail, silently: the
  directory stays until the sweep (`RemoveDir`).
* `maybeSendScheduleAlert` reads the last alerted scan, awaits the mail and then writes
  (`server/schedule-alerts.ts:91` to `:121`): two copies of one event send two mails.
* The statements of `applySubscriptionState` are no transaction: a crash after the row
  (`server/billing/stripe.ts:102`) leaves the old entitlement until the event comes again.
* Subscription payloads are applied in the order they come: an older state may overwrite a
  newer one (`overtaken` in `Billing`). A deletion cancels the latest active subscription only,
  and is completed when the user looks again.
* A login that has read the row before a reset ended opens a session afterwards (`late` in
  `SignIn`). `getSessionUser` compares `expires_at` without selecting it
  (`server/auth/sessions.ts:56`), so that the sweep alone ends a session in use.
* A plain HTTP answer after a failed HTTPS one leaves the error of the first. Failed lookups of
  OSV, mail and DNS records look like empty answers. A port outside the scope of a narrower
  plan looks resolved. The PDF matrix shows no disagreement of Nuclei and testssl, whose notes
  begin with other words than its columns, and its posture table says "Not set" of headers
  that no request has shown.

## What is proved

For every value of the constants that the named assumptions allow: finite sets, natural
numbers, for the scheduler `MaxTick < Lease`, and for the analysis that a plan names modules
there are and that the full plan has a step of every tool but WPScan.

What is recursive is written as a recursive function, and a proof about it is an induction
over its argument. The induction theorems of the library take a predicate, which no prover
here can instantiate; **`SequenceLemmas`** states induction over a *set* instead (a set with
zero and the successor of each member holds every number: otherwise the rest would have a
least member), and proofs put the set of the numbers, or sequences, that satisfy their goal.
That a recursive function exists, that it is unique on a prefix, and what `Keep` returns for
an appended sequence are lemmas by that induction.

**`ScanQueueProofs`**: `Spec => []QueueInvariant`, and from it `TypeCorrect`,
`SlotsNeverDrift`, `LimitsHold`, `FinishedOnce`, `GuardsStayArmed`; the action properties
`LivesGoForward` (`NoResurrection`) and `ShutdownIsComplete` (`DrainedMeansDone`, assuming a
slot: without one the code takes a full line for a drained worker, as `active` is zero from
the start). None of the conjuncts of `QueueInvariant` is inductive alone. That the counter is
right after `Settle` needs that only jobs in a processing phase settle and that `Drain` starts
jobs that are not yet in one, which is `PendingIsLive`; `PendingIsLive` needs
`StatusFitsPhase`, for a cancelled id to be gone from the line, and `WorkConserving`, for
`Stop` to find no slot free for the jobs it is cancelling. The proof first treats `Drain` on
its own and then each group of actions. `LivesGoForward` says of each action what may become
of a status (`MayBecome`), given that the line holds queued jobs only.

`LineNeverOvertaken` and `QueueImplementsPool`: `Spec => []LineInvariant` (those in progress
were accepted before those who wait, and these wait in that order) and `Spec =>
ImplementsPool`. The invariant relates the history of acceptance to the two places a job may
be in: the accepted jobs, less those reported, are those in progress followed by `pending`.
`Drain` moves the head of `pending` to the end of the first part, and nothing else moves a
job from one to the other. With it every action is shown to be an arrival, a departure or a
stutter of `FifoPool`, `Settle` being a departure although it starts other jobs at once.

**`ScanHistoryProofs`**: `Spec => []HistoryInvariant`, and from it `ReportedOutcomeStays` and
`HistoryIsTruthful`; `ClosedRowsStayClosed`. The invariant adds `OneJobPerRequest`: an outcome,
once set, is the outcome for ever because the job cannot start again, and an event cannot
arrive before there is one. `Fail`, the guarded update behind four writers, is treated once.

**`SchedulerProofs`**: `SchedulerTypeCorrect`, `HoldersAreAlone`, `SlotsServedOnce`,
`PausedNeverStarts`, `AlertsWereSent`. `LeaseInvariant` says that whoever holds a schedule took
it at the beginning of its tick and that the row is due a lease after that, so that nobody can
claim it while the tick lasts. It speaks of the schedules outside `overwritten`, and an
update needs `PatchInvariant`: what an update has made up and nobody has overtaken keeps the
times of the row, or sets one beyond every time a scan was started for. `SlotInvariant` adds that the regular times of a row only grow
and that a scan of the current one is still being dispatched, is lost, or is the last of a
deleted schedule. `OriginInvariant` follows a scan from the instance that started it through
the history and the mails to the alert: each names the schedule that started it. What an
action does to leases, slots and origins is told once (`LeaseFrame`, `SlotFrame`,
`OriginFrame`, `PatchFrame`), and the actions that fit the frame are shown to.

**`ScanJobProofs`**: `StopsReachEveryTool` and `CancellationsAreHeeded` come from one invariant,
`StopInvariant`: a cancelled job that is still being processed has been aborted; a tool begun
after the cancellation is that of the step under way, since the loop looks at the status
before the next; and WPScan or the PDF is under way in a cancelled job only if the
cancellation came there. `NextStep`, which every await of a step leads to, is treated once.
`JobTypeCorrect` and `ReportsAreComplete` come from `JobInvariant`, in which `Course` says for
every phase how many steps have left a record; only `BeginRender` leads to a report, and it
comes after the last one. `ArtifactsAreKept` adds `Retention`: while the PDF renders the
directory is younger than its limit, afterwards it is at most that much older than the job's
end, so a sweep that takes it comes when the time is over.

**`SignInProofs`**: `SignInTypeCorrect`; `SessionsAreFinite` by `AgeInvariant` (a day begins only
after a sweep, and after a sweep no session is past its expiry); `ChallengesAreBounded` by
`ChallengeInvariant` (wrong codes are among the attempts counted, an unused challenge has opened
nothing); `ResetEndsTheRest` by `OldProofs`, the property extended to the requests under way.

**`BillingProofs`**: `BillingTypeCorrect` with `Known` (every event is about a subscription that
exists, every request about an event that exists), and `GoneStaysEmpty`. `AccessIsFollowed`
(`BillingInvariant`) and, from it, `EntitlementsAreBacked` and `PremiumFollowsPayment`
(`SettledAccess`), for any number of requests, duplicates and crashes or errors at any
statement. Both look at states in which all of a subscription is answered, so the invariant
has to say what is on the way in every other: that events and the answers requests hold
tell of states Stripe was in (`EventsTrue`, `AnswersTrue`), that the row is one of these
(`RowsTrue`), and for an only subscription (`Followed`) that a checkout answered, or about to
be, has named the customer, and that no event answered before then was newer than what the
checkout has written to the end or is about to. The row and the entitlement are asked to agree
only when what reached the row (`written`) is what was written to the end (`applied`); between
the statements they need not. `ApplyFollows` treats every number of statements at once, and
`InterruptedAnswers` the two ways in which a handler ends early. `AllWritten` joins these:
when the events of the subscription are answered, the newest state was written to the end.

**`ScanDiffProofs`**: `RoadmapIsComplete`, for any site, plans and troubles. `FindingsPlanned`
goes through all the rules of `buildFindings` and shows that a finding of any of them is
informational or has a key of the catalogue; `WindowOf` that an item is in the window of
its severity and in no other.

`EvidenceIsShown` (`EvidenceShown`), for any site, plans and troubles. It ties three parts of the
code that read the observations independently. `CheckDelivers` goes through the checks and
parsers: facts and errors come with a result, and errors only from ten tools. `ObserveDelivers`
carries that through the steps of any plan and the conditional WPScan, by induction over the
steps (`Delivered`). `FindingsSupported` goes through the rules of `buildFindings`: a source is
evident, in that it answered, or saw something, or is one of the named exceptions, and only
httpx, Nuclei and testssl ever disagree. `EvidentShown`, `FailureShown`, `MatrixShows` and
`PostureReported` go through the renderers: what is evident, failed or disagrees is shown. The
proof turned up the exception of `support_observed`, for which the runs had had no pool.

`ResolvedAreGone` (`ResolvedIsGone`) and `ReportsAreReal` (`ReportedIsReal`), for any pool of
facts and troubles, any plans and any number of scans: the answer to the question a difference
raises, whether the site has changed or the scan has only looked less well. Both compare what
one scan found with what another one should have, so the argument is about two runs of
`buildFindings`. It has four parts.

* *Locality.* `Behind` names for every title the tools that decide whether a finding of that
  title is reported. `FindingsCarried` goes through all the rules: those tools are upstream of
  the finding, and if two inputs are alike (`Alike`: same observation, result and error) in all
  that is upstream of a finding of the one, a finding with the same fingerprint and severity is
  made of the other. If the first input has the results of httpx and of the e-mail check
  (`Complete`), it is enough that they are alike in `Behind`: then nobody stands in for these
  two, as the header grading does for insecure cookies and DNS hardening for DMARC. Both cases
  are needed, as the full scan may have had more tools agree with a finding than the scan whose
  row is compared, and the row names only its own.
* *One severity.* `FindingsGraded`: the severity of a finding is a function (`SeverityOf`) of
  its title, its subject and what the scan saw, so that findings of one fingerprint agree in it,
  and the row that stands for them in the event does not depend on which of them comes first.
* *Sighted tools.* `ObserveFaithful`: a planned tool that is not hampered, and rests on none
  that is, has delivered at the end all it sees of the site; by induction over the steps, with
  `CheckFaithful` going through the checks and parsers. OSV needs WhatWeb's result and the
  header grading that of page-recon, so `StepsOrdered` shows, for any modules in any order,
  that these run first. Hence such a tool is alike in any two scans of one site
  (`ObserveAlike`), also in the full one that defines `truth`.
* *The difference.* The invariant is `HistoryScanned`: every row comes of some plan, trouble and
  state of the site. From it `FoundIsTrue` (a finding nothing upstream of which is hampered is
  in `truth`, with its severity) and `TrueIsFound` (what another scan found, and is still true,
  is found, as severe, unless something upstream is hampered); the two properties combine these
  with what `computeScanDiff` does with the rows.

The proofs assume that plans name modules there are (`PlansKnown`) and that the full plan runs
every tool but WPScan (`FullPlanRunsAll`), which defines what "full" means; TLC evaluates both.
The run `analysis` reaches differences of every kind, new, resolved and with another severity,
so the theorems are not about empty ones.

Model-checked only: the properties under fairness (`EveryJobReported`, `OpenRowsClose`,
`DueIsServed`, `JobSettles`, `DirectoryGoes`, `EventsAnswered`, `PendingDeletes`), which are
beyond the prover. Every other property of a passing run has a theorem.

## Not modelled

* Wording, evidence, confidence, order and layout of findings and reports; the risk score and
  the rule that makes a change worth a mail, which `Scheduler` leaves to chance.
* `ALLOW_INTERNAL_TARGETS`, which production forbids, and a worker without `WEB_BASE_URL`,
  which posts no events. The addresses a name resolves to, the block lists and their
  comparison: a resolution is its outcome. Redirects and pinned connections of `safe-fetch`
  are I/O.
* The retention sweep of old history, and rows read by the interface and by admins; analytics.
* Caps on sizes: the 500 findings of a scan event (`worker/scanner.ts:368`), the 15 archived URLs
  that are requested again (`:111`), the output of a tool.
* Rate limits, registration, e-mail verification, the arithmetic of one-time codes, recovery
  codes apart from their use as a right code.
* Premium granted by an admin, trials, which are handled like active subscriptions.
* The digest: its lock and its last-run date are two rows of settings without a promise to check.
* In `Scheduler`: errors of the database but for those that end a tick (`Crash`); the limit on
  the number of schedules; their deletion with their owner.
* Configuration, database, audit log, mail and logging: start-up, I/O and wording. The models
  take from it that `intEnv` accepts zero limits, that foreign keys are enforced and that a
  transaction is atomic.
* The interface: pages that poll the API, with no state that outlives them.

## What could come next

The digest's lock, the limit on schedules and the retention sweep as actions of the modules
that hold their tables; one composition of `ScanJob` with `ScanHistory` in which the event
carries the findings that `ScanDiff` compares.
