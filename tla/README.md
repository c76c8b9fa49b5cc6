# QuietPilot in TLA+

QuietPilot reads a user's Gmail, proposes Cases, and writes one calendar event per Case after the user approves the
exact plan. It runs as a mobile app, a control API (Lambda and DynamoDB), queue consumers (SQS and Lambda), an agent
runtime (AgentCore) and Google. What is hard in it is between the parts: every record is written optimistically by
several invocations, every message may come twice, and an agent call may go on after the worker that made it is gone.

This directory holds the TLA+ modules that model these parts from the source, the TLC configurations that check them
on small instances, and proofs for every value of the constants. `PROJECT.json` maps every definition to the lines it
stands for. `src/` below is the repository.

## 1. Inventory

`cp` is `src/services/control-api/src/quietpilot_control_api`, `wk` is `src/services/worker/src/quietpilot_worker`,
`ag` is `src/services/agent/src/quietpilot_agent`.

| Part | Code | State it keeps | Operations | Module |
|---|---|---|---|---|
| Case preparation | `cp/workspace.py`, `wk/case_jobs.py` | CASE META (status, version, plan pointers), PLAN#v, evidence, jobs in the queue | create, message, retry, load, agent call, `write_plan`, compensation of a failed send | `CaseState`, `CasePreparation` |
| Decisions and approvals | `cp/workspace.py`, `cp/calendar_approval.py` | APPROVAL#, ids in META | stop, defer, approve and its replay, retry of the execution | `CaseDecisions` |
| Calendar execution | `wk/calendar_execution.py`, `wk/google_jobs.py`, `ag/google_calendar.py` | ACTION#operation (status, attempt, owner, lease), the calendar event | load and validate, block, promote, claim, GET/POST/read-back, finish | `CalendarExecution`, `CalendarCase` |
| Idempotency gate | `wk/idempotency.py`, `wk/consumer.py` | one record per dedupe key, with a lease and an expiry | put, load, reclaim, mark, batch failures, dead-letter queue | `IdempotencyGate` |
| Push registry | `cp/notifications.py`, `wk/notifications.py` | registry, device and binding items of users, devices and tokens | register, unregister, disable a device that is gone | `PushRegistry` |
| Notification outbox | `wk/notifications.py`, `wk/consumer.py` | NOTIFICATION# events, wake-ups in the queue | inspect, claim, list, permit, send, disable, finish | `NotificationOutbox` |
| Google connection | `cp/connections.py`, `cp/calendar_connection.py`, `wk/mail_jobs.py` | CONNECTION#google(-calendar), OAUTH# and RETURN# flows, the grants AgentCore holds | authorize, complete, set up, recover, disconnect, revoke, confirm the calendar | `GoogleConnection` |
| Google maintenance | `wk/google_maintenance.py`, `wk/google_jobs.py` | watch and connection records of all users | find a lost grant, compare the history; renew watches | in `GoogleConnection` and `MailScan`; watches not modelled |
| Mail scan | `cp/mail.py`, `wk/mail_jobs.py`, `wk/google_connection_store.py` | MAIL_INTERESTS#google, MAIL_RESULT#, the Gmail cursor and its claim | request, edit the profile, page, history sync, fail, publish results | `MailScan` |
| Suggestions | `cp/suggestions.py`, `cp/workspace.py`, `wk/google_connection_store.py` | CANDIDATE#, SUPPRESSION# | refresh, hide, reduce, undo, convert into a Case | `Suggestions` |
| Routines | `cp/routines.py`, `wk/routines.py` | ROUTINE#, ROUTINE_DISPATCH# | propose, activate, pause, match, create a Case, send, acknowledge | `Routines` |
| Ingress | `src/services/ingress` | RETURN# items | Pub/Sub push to one message, OAuth return to a one-time code | what it adds is in `GoogleConnection` (Consent) and `MailScan` (Notify) |
| Google connector | `ag/google_connector.py` | none between calls | pages of the mailbox, syncs of the history, tokens | its answers to pages and syncs are definitions of `MailScan`; the rest is the environment |
| Agent runtime and algorithms, model clients | `ag/` | none between calls | graph, repair loop, planner, interest and source policies | the environment: an answer, a failure or a timeout |
| App | `src/apps/mobile/src` | owner, scope and sequence of the calls in flight | sign in and out, registration, loading | the environment: calls at any time |
| Routing, infra, scripts, contracts, prototype, screens | `cp/handlers.py`, `src/infra`, `src/scripts`, ... | none of the product's state | parsing, deployment, layout | not modelled |

How they interact: the API writes META and its satellites with DynamoDB transactions, then sends one SQS message. The
consumer receives it (at least once, up to five times), claims the dedupe key in the gate, and calls a processor. A
processor reads, calls the agent or Google, and writes again under the conditions of what it read. Worker results that
need the user's attention put an item into the outbox in the same transaction, and a wake-up in the queue; the
dispatcher reads the push registry that the app's calls to the API write.

What is hard, and what must hold:

- *A read before a call and a write after it.* Between them the user stops, replans, disconnects, or another worker
  takes over. A claim must be authorised when it happens, a result must not undo a user's decision, and the Case and its
  execution record must tell the same.
- *Agent calls that outlive their worker* (a 90 s read timeout in `google_jobs.py:321`, whatever AgentCore still
  does): one event per Case nevertheless, and no result that was not seen.
- *Leases.* The execution lease (150 s), the gate's lease and the outbox's lease bring back work of the dead and
  must not let two of the living do it.
- *At-least-once delivery*, failed sends, five receives and then the dead-letter queue: what was accepted arrives.
- *Tokens that change hands*: an app that signs in another user on the same phone, while calls of the former are in
  flight or retry. A push must not reach a device its user does not list.
- *Cursors, epochs and revisions.* A setup, a revocation or a scan page that was begun for another connection or profile
  must change nothing of the present one; two syncs that overlap, or one that covers a part, may leave no mail between
  them. A sync whose cursor is too old for Gmail does skip mails, by design (`docs/hackathon-build/spec.md:688`, "bounded
  full sync, update baseline").
- *The user against the refresh.* Suggestions are rewritten by pages that were analysed minutes ago, while the user hides,
  regroups and converts them, and routines convert on their own.

`PROJECT.json` lists each hazard at its line with the properties that cover it, and why where none does yet.

## 2. The Case: `CaseState`, `CasePreparation`, `CaseDecisions`, `CalendarExecution`, `CalendarCase`

`CaseState` declares the records and `Init`; the three others hold the actions of one program each, and `CalendarCase`
composes them, states the properties and the fairness. `MCCalendarCase` adds the symmetry of workers.

| State | In the code |
|---|---|
| `meta` | CASE META: status, version, current and requested plan, approved operation and approval |
| `plans`, `evidence` | PLAN#v with the evidence revision it was built from; how many evidence items the Case has |
| `approvals`, `expired`, `ended` | APPROVAL# with the expected Case version and the connection's epoch; the hour of an approval; event ends in the past |
| `link` | CONNECTION#google and CONNECTION#google-calendar: status, epoch, epoch the calendar was confirmed for |
| `jobs`, `drafts`, `undispatched` | DIRECT_REQUEST_RECEIVED messages; agent calls that prepare a plan; versions whose send failed |
| `messages`, `sent` | ACTION_EXECUTE_REQUESTED messages with the receives they have left |
| `exec` | ACTION#operation: status, attempt, owner, and whether its lease runs |
| `event`, `orphans` | the user's calendar; agent calls nobody waits for |
| `pc`, `job`, `snap`, `result` | each Lambda invocation: where it is, what it holds, what it read, what its call reported |

Choices a reader should know:

- **API handlers are one step.** They read, then write under a condition on META's version and on the connection;
  a change between makes the write fail without effect. The same holds for the worker's several reads: each of its
  transactions checks the version again. Between the worker's read, its transaction, its agent call (GET, POST,
  read-back are separate) and its finish, anything may happen.
- **Names.** A plan is its version: the hash, the operation id and the event id are functions of it. An approval is
  its operation and the version it expected. Every user request carries the expected version, so a stale one does
  nothing; `MayAct` bounds the version at which users still act.
- **The link.** OFF stands for CONNECTING, ERROR, REVOKING and DISCONNECTED; an epoch stands for an epoch and the account
  it was confirmed with. The connection comes back (`Reconnect`) with a new epoch or, because `setup`
  (mail_jobs.py:188) compares status and epoch but not the error code, with a former one; `ConfirmCalendar` then binds the
  calendar to the connected epoch. Nothing in the Case depends on an epoch never returning. `GoogleConnection` has the connection's own steps.
- **Failures.** `Happenings` says what a run lets happen: `crash`, `loss` of a send, `timeout` of an agent call (which
  becomes an orphan that may still write), `overrun` of the lease by a living worker, `edit` of the event by the user,
  `disconnect`, `reconnect`, `expiry`, `end`. Store errors in finish have the effect of a crash. The lease outlasts the Lambda's
  timeout, so only `overrun` lets two workers act on one claim.
- **Delivery.** A message that raised comes back after the visibility timeout (720 s), which outlasts the 150 s lease
  that it may have found, and is lost to the dead-letter queue after `MaxReceives`. The gate is seen through: one
  worker at a time holds a message. `IdempotencyGate` shows why that is right.

Properties (`CalendarCase.tla`): `TypeOK`; `AtMostOneEvent`, `ExecutionPinsPlan`, `CompletedIsVerified`,
`CaseMirrorsExecution`, `OneLiveClaim`; action properties `VerifiedIsFinal`, `ClaimIsAuthorized`, `UserDecisionWins`;
liveness `PlanArrives`, `ExecutionSettles`; and `KeepsPromise`: the Case implements `OnceApprovedEvent`, the promise
without queues, leases or workers, where a plan starts only if approved, at most one starts, only its event is
written, and only a written event is verified. The refinement maps the approvals to `approved`, the claimed plan to
`started`, the calendar to `written` and SUCCEEDED to `verified`.

## 3. The gate: `IdempotencyGate`

One event, that is, one dedupe key with several messages. `record` is its item, `queue` and `dead` the messages,
`pc`, `held`, `token` the invocations. PutClaim/PutRefused are the conditional put, `LoadRecord` the read after a
refusal, `Reclaim` the takeover of a failed or abandoned record, `MarkCompleted`/`MarkFailed` the two conditional
updates; `Defer` is a record the batch has no time for (`consumer.py:115`), which costs it a receive. A lock token is
the number of the claim. Two times are assumptions: the lease outlives the invocation that took it (it is set to the
remaining time and 30 s), and the record outlives the messages sent before its last update (seven days against the
queue's four). Not modelled: a different payload under the same key, which raises without a change; the redrive of
the dead-letter queue.

Properties: `OneProcessor` (one living invocation processes), `NotAgain` (no message sent before a completion leads to
processing again), `EventServed` (a message in the queue is followed by a completion, while fewer receives fail than
it has).

## 4. Pushes: `PushRegistry`, `NotificationOutbox`

`PushRegistry` has the items of all users: `registry` (version and devices), `device` (token, binding id, enabled) and
`binding` (per token: user, device, id). A call reads the registry, then the device, then the bindings, each in its own step,
and writes in one transaction under the conditions of all it read; a lost transaction is retried while the scope it
read has not changed. `overtaken` and `revoked` are history: the calls over which another one took effect.
`DeviceGone` is the worker's answer to DeviceNotRegistered. Binding ids are fresh numbers.

`NotificationOutbox` extends it with one event of one owner and its wake-ups: `Inspect` and `Claim` (a lease of its
own), `List` the devices, then per device `Permit` (the last read before the send), `Send`, `DisableDevice`, and
`Finish`; a dispatcher that finds another's lease raises. Dispatchers are not assumed to be serialised by the gate:
the module shows more than is needed. The event's expiry (30 days) is left out.

Properties: `BindingHasDevice` (a token that pushes may be sent to belongs to a device that its owner lists),
`NoOvertakenWrite`, `RevocationWins`; `OneSendPerDevice`, `OutcomeIsHonest`, `PermitIsCurrent`, `OutcomeIsFinal`,
`EventFinishes`.

## 5. The connection: `GoogleConnection`

One user's connection, with the API calls (`Calls`) and the workers (`Workers`) that act on it in steps.

| State | In the code |
|---|---|
| `conn` | CONNECTION#google: status, epoch (`mail_connection_id`), error code, account, Gmail scope, the revocation it waits for |
| `calendar` | CONNECTION#google-calendar: the epoch and the account it was confirmed for |
| `flows` | OAUTH# and RETURN# items: purpose, the mailbox it was asked for, the account the user chose |
| `job`, `recovery` | MAIL_INTERESTS#google: the mail request of each kind; the setup that a failed request began again |
| `grants` | what AgentCore Identity holds: outside the table, each call to it a step |
| `messages`, `unsent` | setup, revocation and mail messages with their receives; the names whose send failed |
| `pc`/`call`, `at`/`work` | what a call, a worker has read and where it is |
| `overtaken` | history: the workers over whose work the user's call wrote `conn` |

An API call is split at every call of AgentCore: `BeginAuthorize`, `Authorize`, `AskConsent` or `StartScan`; `BeginComplete`,
`Identify`, `CompleteFlow`, `CompleteReturn`; `BeginCalendar`, `AskCalendar`, `Confirm`, `Attach`. A worker's job is split at
its call and at each of its writes: `Take`, `InvokeSetup`, `Setup`, `EnsureJob`, `SendJob`; `Revoke`, `RevokeComplete`;
`RecoverSetup`; `Answer`, `AuthorizationRequired`. A send may fail after the write that preceded it, a Lambda may die at
any step, and the user may take the grant back at Google (`GrantLost`). What is simplified: one calendar consent of an
epoch; a mail request that waits is queued once; recommendations are answered in one step (a scan is `MailScan`).

Properties: `OvertakenWorkLoses` (what a worker began before the user authorized, rescanned or disconnected changes
nothing of the connection that is there), `CalendarOfLiveMailbox`, `SetupIsCarried` and `RevocationIsCarried` (a connection
that waits is waited for by a message or a worker, unless its message was never sent: nobody else ends these statuses).

## 6. The mail scan: `MailScan`

One user's scan. Mails are numbered by Gmail's history and a page of a scan by its step. `scan` is the scan of the
interests item (status, id, profile version, epoch, step, the next work's message), `results` the MAIL_RESULT# items,
`conn` the epoch, cursor and history claim, `profile` the interests' version. The API's request, profile edit, dispatch
and results are `RequestScan`/`RequestAgain`/`RequestResume`, `SaveProfile`, `Dispatch` with `FailRequest`, and
`BeginResults`, `QueryResults`, `Publish`. The worker takes a message (`Take`), sends a stored page's successor again
(`Replay`), claims the history (`Claim`), calls the agent (`Analyse`), writes the page, the scan and the cursor in one
transaction (`Store`), sends the next message (`SendNext`), and records a failure in two steps (`ReadFailed`,
`RecordFailure`). A connection's setup makes sure of a scan (`EnsureScan`); if its scan's message cannot be sent it records
the failure too, under the connection it was a setup of.

`ClaimExpires` may happen at any time: an over-approximation of the lease (150 s), which a worker (120 s) does not outlive.
The gate is left out, so a job runs twice more often than in the code. Watches, and what a mail means, are not modelled.

What the agent answers is `Answers`, from the connector. A page comes with Gmail's head, read before the list. A sync
answers with the history's range (`HistoryAnswers`: all of it, or the part that fits in its pages, with a continuation) or,
when Gmail knows its cursor no more, with `RecentAnswers`: the `BOUNDED_FULL_SYNC` of `ag/google_connector.py:639`, the
newest `MaxRecent` mails of the last seven days with the present head, and no continuation. The worker takes both alike
and moves the cursor, so mails older than those few are never analysed for this scan. Gmail may call any cursor too old, so
the model lets it answer so to every sync. `Mails` marks what such a sync read as "recent" and what lies between the
cursors otherwise as "passed"; like "mail" for a followed history these marks are history for the property, the code
stores results and not ranges. Which mode a sync had (`last_sync_mode`) is only shown, and left out.

Two conditions of the write of a sync exclude each other's overlap: the claim with the cursor (`Claimed`), and the scan's
step, which was read before the claim and which every store raises. Either alone keeps `HistoryHasNoGap`, so dropping one
is no fault that a property could show; its mutant drops both.

Properties: `HistoryHasNoGap` (every mail between the head the first page was read at and the cursor was analysed for
this scan, or passed over by a sync whose cursor was too old; and no sync that followed the history analysed a mail beyond the
cursor, which the next one would analyse again), `StoredForCurrentProfile`, `PublishedIsCurrent` (a page of results made of four reads is what there is when it
is published), `WaitingIsCarried` (a scan that waits has a message, a worker that holds one or is about to send it, or a call).

## 7. Suggestions and routines: `Suggestions`, `Routines`

| State | In the code |
|---|---|
| `mail`, `scans` | the connection and the interests as a whole: epoch, profile, whether there is a scan and for which connection |
| `suggestion`, `suppression` | CANDIDATE# (status, version, group, scan); SUPPRESSION# of each group (active, source, version) |
| `cases`, `messages` | META of the Cases made of suggestions; their plan jobs |
| `source`, `routine`, `markers` | the completed Case a routine was made from; ROUTINE#; ROUTINE_DISPATCH# |
| `pc`/`call`, `at`/`work` | what a call, a worker has read |

`Suggestions` has the refresh of a page (`Refresh` reads the suggestion and its old group's rule, `Store` writes,
`StoreAgain` reads again after a conflict), the user's decisions (`HideOnce`; `BeginReduce` and `Reduce`, whose second write
has no condition; `Undo`) and `convert_candidates` (`BeginConvert`, `Convert`, `Dispatch`). `Routines` extends it with
the API's `Propose`, `Activate`, `Pause` and the worker's `Match`, `Create`, `Send`, `Acknowledge`, and `Recover` of a
marker that a dead worker left.

Choices: a page has one suggestion (a larger page's transaction has the conditions of each of its own). A scan id
stands for the profile and the connection it was made for. Activation and proposal have all they read as their condition and are one
step. Every suggestion matches the routine's sender and type: which do is an algorithm of the agent. A marker, and a
suggestion, are a visit of the worker each. `MaxDecisions` bounds what the user does, not what workers do; failed sends
are not bounded. `Init` has a proposed routine, as a completed Case leaves behind. The mails "before" an activation are
those of all that was found, and any others.

Properties: `OneCasePerSuggestion`, `PreparedIsCarried` (a routine's Case has a marker or a job until it has a plan: nobody
else sends it), `RefreshRespectsUser` (no refresh brings back what was hidden or converted, or frees what a rule hides),
`RoutineStaysInBounds` (when a routine makes a Case, it may: at that moment, not when it read).

## 8. Runs

| Run | Instance | States | Shows |
|---|---|---|---|
| CaseExecution | 2 workers, 1 plan, versions to 6, 2 sends, 2 receives; crash, timeout, edit, loss, expiry | 2.8 M | TypeOK, CompletedIsVerified, OneLiveClaim, UserDecisionWins, KeepsPromise |
| CaseOverrun | the same; overrun, timeout, end | 1.1 M | CaseMirrorsExecution, VerifiedIsFinal |
| CaseReplanning | 1 worker, 2 plans, versions to 7, 2 epochs, 2 sends, 1 receive; disconnect, reconnect, loss | 5.5 M | AtMostOneEvent, ExecutionPinsPlan, ClaimIsAuthorized |
| CaseSettles | 1 worker, 2 plans, versions to 5, 2 receives, fair; disconnect | 265 k | ExecutionSettles, PlanArrives |
| GateServes | 2 invocations, 3 messages, 3 receives, 3 failures, fair | 144 k | TypeOK, OneProcessor, NotAgain, EventServed |
| PushRegistration | 2 users, 2 devices, 2 tokens, 2 calls at a time, 4 in all, 2 tries, 1 device slot | 2.0 M | PushTypeOK, BindingHasDevice, NoOvertakenWrite |
| PushRevocation | the same, 3 calls | violated | RevocationWins (section 11) |
| PushDelivery | 2 dispatchers, 1 device, 2 messages, 3 receives, 2 crashes, fair | 71 k | TypeOK, OneSendPerDevice, OutcomeIsFinal, EventFinishes |
| PushFanOut | 2 users, 2 devices, 2 dispatchers, 2 registry calls | 2.2 M | OutcomeIsHonest, PermitIsCurrent |
| GoogleConnection | 2 accounts, 1 call, 2 workers, scans, names to 3, 2 receives, 1 loss | 4.4 M | TypeOK, SetupIsCarried, RevocationIsCarried, OvertakenWorkLoses, CalendarOfLiveMailbox |
| MailScan | `MCMailScan`: 1 call, 2 workers, 2 pages, 1 request, 2 receives; 3 events of 2 mails, 2 edits, 1 loss | 4.7 M | TypeOK, HistoryHasNoGap, WaitingIsCarried, StoredForCurrentProfile, PublishedIsCurrent |
| Intake | `MCRoutines`: 2 suggestions, 2 groups, 1 key, 1 call, 2 workers, 3 decisions, 2 routines | 4.5 M | TypeOK, OneCasePerSuggestion, PreparedIsCarried, RefreshRespectsUser, RoutineStaysInBounds |

Bounds. Users' actions, sends, receives, epochs and crashes are capped by constants named `Max...`; every cap is a
guard, so a bounded system stops and `CHECK_DEADLOCK` is off in every run (a user may also simply do nothing more).
Two workers are what exclusion needs: every condition in the code compares one's own record with one other's. Two
plans are what supersession and pinning need, three messages what a gate needs to have one before, during and after a
completion. Versions to 6 allow create, plan, approve, claim, result and one more decision, or create, message, plan and approve
of the second plan; the seventh leaves room for a deferral of the first, so that both plans can have been approved. Two
receives let a message come back once after a failure and then go to the dead-letter queue; three let it meet a lease, and
then fail. One loss is what separates "carried" from "lost": with as many losses
as receives a message ends in the dead-letter queue, and the properties about carrying say so in their condition. Three names of
`GoogleConnection` are an authorization, a disconnection and an authorization again, or a setup and its recovery. `MailScan`
bounds mails, edits and losses each and together (`MaxEvents`), since one question needs two mails and another two edits, but
none needs both: an edit (without interests there is no scan) and two mails are a sync of a part and one of the rest, two
syncs that overlap with different ends, and a recovery that reads the newest mail (`MaxRecent`) and passes one over; two edits and
a mail are what a page or a sync of an old profile needs to meet a newer one; two edits and a loss, or one of each, what a
scan that waits needs to be dropped. A worker that stands still while its claim runs out does all that a dead one leaves undone. Three
decisions let a user reduce, undo and convert, or edit the profile under a routine that was activated. Symmetry of workers, users, devices and tokens is used only where no liveness is checked.

Two runs leave a case to the proofs. `CaseReplanning` has one worker and neither crash nor timeout, so that a late
agent call, a retry and a second worker lead to no second event (`AtMostOneEvent`) rests there on the theorem `OneEvent`;
`CaseExecution`, which has them, has one plan. `Intake` has one key and one call: two conversions under different keys are
covered by the theorem `OneCaseEach`. Outside both is one join: `Plan` of `Routines` consumes a job and plans in one step, so `PreparedIsCarried` says
nothing of a job that ends in the dead-letter queue (section 12).

Each property of a passing run has a mutant in `PROJECT.json`, a plausible bug in a mapped definition (a dropped
condition, an off-by-one, a missing lease check) under which TLC finds the property violated by the same
configuration. The mutated forms stand before the definitions in the modules, each marked as a mutant.

## 9. Fairness

Weak fairness only, and only of what the platform does: SQS delivers what it holds (`BeginDraft`, `SkipJob`, the
consuming actions), an invocation goes on or ends within its timeout (the worker actions, `WritePlan`, `Works`,
`DispatcherWorks`), and leases run out. Nothing is assumed of the user, of Google, of a failed send or of the agent's
answer. `ExecutionSettles` therefore asks that some message or worker is still there for the operation: after the
last receive, or when the only message was lost, the user's retry is the code's way out and no fairness brings it.
`CaseSettles` lets the connection go and not come
back: one that flaps can use up the receives of an execution's message, which is the case excluded. `EventServed` holds while fewer than `MaxReceives - 1` receives fail. Crashes have no fairness, and are bounded.
`GoogleConnection`, `MailScan` and `Routines` state no fairness: what waits there is shown to be carried, which is the safety
part of arriving; that it arrives would need assumptions on Google's and the agent's answers that the code does not make.

## 10. Proofs

For every number of workers, plans, users, devices, tokens, calls and messages, and every value of the bounds.
Assumptions are the named ones of the constants (`BoundsAssumption`, `GateAssumption`, `PushAssumption`,
`OutboxAssumption`, `ConnectionAssumption`, `ScanAssumption`, `SuggestionAssumption`, `RoutineAssumption`), and
`NoneAssumption` of `MailScan` (no message is `None`); TLC evaluates them in the runs.

`CalendarCaseProofs`. The checked invariants are not inductive: what a worker will write depends on what it read. `IInv`
adds to `TypeOK`

  - `Holding`: a busy worker holds a message of a plan;
  - `Reading`: what a worker read was an active Case of its operation, at the stored version or an earlier one;
  - `Validated`: what a worker about to claim read passed the checks of `_validate`, so that equality at the
    transaction carries them over;
  - `Traced`, `Verified`: every event, orphan and claiming worker goes back to a claimed record, and every verified
    or reported completion to a written event;
  - `Undisturbed`: the owner of a running Case sees it as its claim left it;
  - `Leased`: while leases outlast workers, a claimed operation is leased to its claimant;
  - `Pointed`: a Case that runs or ended has the plan it is about;

and the checked invariants it needs: `ExecutionPinsPlan`, `CaseMirrorsExecution`, `CompletedIsVerified`.

From `IInv` follow `TypeCorrect`, `PlanIsPinned`, `OneEvent` (by pinning: two events are two claimed plans, both
current), `CompletionVerified`, `Mirrored`, `OneClaim`, and the action properties `VerifiedStays`,
`ClaimsAreAuthorized`, `DecisionsWin`. `PromiseKept` shows the refinement: each step of `CalendarCase` is a step of
`OnceApprovedEvent` or a stutter, with pinning giving that the started plan is unique.
`NewestIsCurrent`: however the drafts of several requests complete, META names the newest plan that was stored. With it
`JobsAreKept`: no step deletes the message of a plan's job while the plan is awaited, the safety half of `PlanArrives`.

`IdempotencyGateProofs`. `Owned`: the token of a living claim is the record's own and its lease runs, hence
`GateIsExclusive`. `Counted` (sent numbers and the stamp of the last update are ordered) and `FreshUnlessDone` (after a
completion every processing is for a later message) give `GateIsFinal`. `DeadForCause` is the safety half of `EventServed`: a
message is in the dead-letter queue only if its event was completed after it was sent, is being processed, or
`MaxReceives - 1` receives failed. Its invariant (`AInv`) keeps accounts: what a message has spent is at most the failures
there were, and one (`Grace`) for a record that was being deleted when it came; a message that waits out a claim that may
still complete is one ahead (`Promised`), and one that has not met the claim that failed is one behind (`Due`). A message
meets a claim once, since its visibility timeout outlasts the lease, so waiting for others never costs it its turn.

`PushRegistryProofs`. Binding ids are fresh, so a replaced record never again equals what a call read (`DeviceRead`,
`BindingRead`, `ScopeRead`), and every write raises the registry's version (`ListRead`). `Slotted` gives the device
limit, `Beaten` that an overtaken call can no longer pass its conditions: `RegistryTypes`, `NoStrayBinding`,
`OvertakenLose`.

`NotificationOutboxProofs`. PENDING never comes back, so one dispatcher at most ever sends (`Single`, `Unclaimed`); it goes
through its list once (`Unsent`) and has counted all answers there are (`Counting`) until an outcome is stored
(`Concluded`): `SentOnce`, `OutcomeHonest`, `OutcomeFinal`. `RegistryRefined` shows that the outbox's steps on the registry
are the registry's own, so `PushRegistryProofs`' invariant holds beside it; with `RecordRead` (a record with the id that was
read has the token that was read) it gives `PermitCurrent`.

`RoutinesProofs`. A suggestion's version rises with every write, so an equal version is an equal suggestion (`SignalRead`);
profiles and scans are never named twice, so equal names are equal mails (`MailRead`, `Counted`); only a suggestion in the
list enters a Case and none returns to it (`OneCasePerSuggestion` is inductive with that); what a routine read was its to
prepare (`MatchRead`), and equality at its transaction carries it over: `InBounds`. `SentRead` (who acknowledges saw the job
sent or the plan there) gives `Carried`. `UserRespected` follows from `SignalRead` and the rule that was read with it.
`WithinLimit` counts the routines.

`GoogleConnectionProofs`. Epochs and revocations are named once, and a mail request never moves to an epoch that is gone
(`Named`, `Moved`), so what an overtaken worker read never again equals what is there (`WorkInv`): `TheUserWins`.
`CalendarCurrent` follows from the transaction's own condition. Of two more theorems the hypothesis is `MaxLosses <
MaxReceives`: an awaited message has lost a receive only to a loss of the environment (`Enough`), because a setup that
fails without one ends the status that was waited for (`Doing`); so it always has one left, and `CInv` gives
`SetupCarried` and `RevocationCarried`. Without the hypothesis both are false: that is the hazard of a message in the
dead-letter queue, which the code has.

`MailScanProofs`. A scan is named once, and each page raises its step, so an equal step is an equal set of results
(`CallInv`); a job's scan is of the connection it read (`WorkInv`), and a sync moves the cursor from where its own
analysis began. Of the connector it needs only the shape of its answers (`AnswerShape`: none is behind its start or ahead of
the head, and one that followed the history has every mail between), so the records of a sync cover its range (`Covers`).
With that the checked `HistoryHasNoGap` is inductive: `NoGap`, and beside it `StoredCurrent` and `PublishedCurrent`.

`WaitingCarried` says that a scan that waits is carried, by an invariant of its own (`CInv`) on top of `IInv`. `Placed`: a
page's message names a scan there was, and of the present scan no version but its own and no step ahead of it. `Enough`:
it has lost a receive only to a failure or a death. `Kept`: a waiting scan that has a page stores its successor's message,
so whoever takes an earlier page's message sends that one again. `Carried` is the property with the worker's reads put in:
who holds a page of the step there is, who records a failure under the scan's own name, or who forwards. `Asked`: until its connection's setup has come,
or something failed, a configured profile has its scan. The hypotheses are `MaxLosses < MaxReceives` (an awaited message is
not yet in the dead-letter queue) and `MaxEpochs <= 1 \/ MaxLosses <= 1`: one connection, or one failure. TLC shows why,
with two of each: a setup of the first connection is still between its two reads when the user disconnects and connects
again, and the second connection's scan fails; the old setup then makes the new scan, since `ensure_job` reads the epoch
that is there (`wk/mail_jobs.py:378`); its send is refused, it records the failure under the epoch it began with, which
`fail` drops, and its own message comes back as stale. That scan waits until the user asks again. It is the same hazard
as that of a message in the dead-letter queue: nobody but the user repeats what no message carries.

Every invariant and every action property that a passing run checks is a theorem for all values of the constants. Where
a run had to keep a bound small the theorem has none: `CaseReplanning` has one evidence item and one receive,
`ClaimsAreAuthorized` and `PlanIsPinned` have any number.

Only model-checked: the liveness properties (`ExecutionSettles`, `PlanArrives`, `EventServed`, `EventFinishes`), which
are out of the prover's reach. What is proved beside them is that nothing they wait for gets lost: `JobsAreKept`,
`DeadForCause`.

## 11. Findings

**`RevocationWins`** (PushRevocation). A registration that lost its transaction retries if the scope it read is unchanged.
Unregistering a device that the worker had already disabled changes the registry's version and not the scope
(`cp/notifications.py:87`), so a registration in flight takes effect after it; the test at
`src/services/control-api/tests/test_notifications.py:252` names the opposite. `NoOvertakenWrite` is the part that holds, for
every instance: over a newer registration, and over the unregistration of a live device, no retry goes through.

Two disagreements that one step shows are hazards of `PROJECT.json` rather than runs: `transition_case`
(`cp/workspace.py:1051`) checks the version and not the status, where `docs/hackathon-build/spec.md:375` says "`COMPLETED` and
`STOPPED` are terminal."; and a stored page whose next message cannot be sent again is recorded as a failed scan
(`wk/mail_jobs.py:1138`).

## 12. Not modelled

- *Agent runtime, algorithms and model clients* (`ag/`). They keep no state between calls and their results are
  proposals that the callers validate again; the modules let a call answer with any proposal the callers tell apart, fail or
  time out. The Google connector's answers to pages and syncs, with those of a cursor that is too old, are the definitions
  of section 6; what a mail says, and which evidence of it is kept, is left out. The planner, the interest
  profiles and the source policies are text and time arithmetic over unbounded inputs: what is checkable of them
  (that a plan is of the current evidence, that a calendar event is read back) is a property of the callers. The calendar
  connector is the exception: its GET, POST and read-back are steps of `CalendarExecution`.
- *The app* (sign-in, notifications, workspace, screens). Its calls reach the API in any order and number in the modules.
  That a signed-out phone has unregistered, and that stale answers are not shown, are properties of its controllers alone.
- *Ingress.* Its signature and token checks are cryptography; after them it stores a return or sends a message, which are
  steps of the modules.
- *Watch renewal and the loop over all accounts* (`wk/google_maintenance.py`): one user's connection is modelled. *The former
  processor in `wk/google_jobs.py`* that handles the retired job kinds is not sent to any more.
- *Routing, infrastructure, scripts, contracts, prototype*: no state of the product. Timeouts and receives that the
  infrastructure sets are the timing assumptions above.

What is left to do: a composition of `Routines` with `CasePreparation` (their join is one
action, `Plan`); the notification controller of the app above `PushRegistry`, which would settle the hazard of a token that
came back without its binding.
