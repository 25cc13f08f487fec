# TLA+ verification of veridian-analytics-engine

The repository is a web-analytics engine: a browser SDK that records sessions, an API (NestJS over
ClickHouse) that ingests, enriches, attributes and re-exports events, and a small bridge service that
connects it to the Veridian hub, Google Search Console and VoIP providers. This directory holds TLA+
modules for the parts of it whose correctness depends on the order in which things happen, the TLC
configurations that check them on small instances, and TLAPS proofs of the results that matter most.

Paths below are relative to the repository root.

## 1. Inventory

### 1.1 Ingestion (api/src/events)

| Part | State | Operations | Hard behaviour |
|---|---|---|---|
| `EventBufferService` | per-workspace buffer, flush timer, `flushingWorkspaces`, `droppedEvents` | `add`, `addBatch`, `flush`, timer callback, `onModuleDestroy` | events arrive while an insert is awaited; failed inserts are merged back; shutdown races an insert |
| `SessionPayloadHandler` | 60 s workspace cache | `handle`, cache invalidation on settings/filters events, `activateWorkspace` | a read that started before an invalidation writes the cache after it; one payload is cumulative, so its events are sent again and again |
| `IdentityStitchService` | 5-minute `recentlyStitched` cache | `scheduleStitch`, `stitch` | optimistic mark before the asynchronous work, removed only if it throws |

The handler calls the buffer (`addBatch`) and then emits `event.tracked`, which the webhook dispatcher
turns into deliveries. Correct means: no event accepted is lost, repeated or reordered before ClickHouse
has it; what is dropped under back-pressure is the oldest and is counted; a workspace that was deactivated
stops ingesting.

### 1.2 Filters and backfill (api/src/filters)

`BackfillService` keeps a row per task in `backfill_tasks` (ReplacingMergeTree: the last inserted row of a
task wins), the running processors and the pending `setTimeout` handles in memory. `BackfillProcessor`
rewrites the partitions of a workspace with ClickHouse mutations, serialised by a per-workspace lock and
bounded by a global semaphore. Operations: `startBackfill`, the spawned task, progress and status writes,
`cancelTask`, shutdown, stale recovery at start-up. Hard: whole-row writes of two actors on one task
(cancel against progress), check-then-insert of the single active task, a crash between the row and the
work, a timed-out semaphore request that is granted later. Correct means: only a whole
backfill looks complete, a cancellation that reached the processor is heeded, every task comes to an end, and
no mutation slot is invented or lost (section 5 lists what of this the code does not keep).

### 1.3 Webhooks (api/src/webhooks)

Definitions and deliveries are whole rows in ReplacingMergeTree tables (an edit of a definition rewrites the row it
read; the model takes such an edit as one step). The dispatcher enqueues a delivery
per matching webhook; one leader process drains the queue every ten seconds, posts, and rewrites the
delivery row (`success`, `retrying` with back-off, `failed`, `gave_up`). The Twenty CRM connector batches a
webhook's deliveries under a request budget. Hard: a crash between the POST and the row, definitions edited
or deleted while a delivery waits, attempts counted at the boundary, every heartbeat re-emitting every
event. Correct means: success is recorded only for what the endpoint accepted, no POST is repeated
without a reason (a counted attempt, a crash, a manual retry) and none is skipped, every delivery settles.

### 1.4 Scheduled reports (api/src/subscriptions)

A row per subscription; the scheduler reads the due ones every fifteen minutes, checks each again, renders and mails
it, and writes `last_sent_at/next_send_at` or counts a failure (five disable it). User operations (create,
update, pause, resume, delete) rewrite the same row. Hard: read-modify-write of the row across the seconds
a report takes, two schedulers, a failure after the mail went out.

### 1.5 Browser SDK (sdk/src)

`StaminadsSDK` (visibility, focus, freeze, unload, heartbeat timers), `SessionState` (page views with durations, the
current page, a snapshot in sessionStorage), `Sender` (fetch, beacon, an offline queue in localStorage shared by the
tabs of a site, or in the memory of a tab whose localStorage failed). Hard: browser lifecycle events in any order,
several tabs on one queue, unload at any point, answers that are lost after the request was received. Correct means:
active time is never counted twice or carried from page to page, a visible active page has a live timer, a payload is
sent, queued, expired or cut by the cap but never just gone, and the server sees one twice only for a reason.

### 1.6 Workspaces, members, invitations (api/src/{workspaces,filters,members,invitations,users,api-keys})

Rows for workspaces, memberships, invitations, users, API keys. Operations are read-check-insert sequences with no
transaction, over tables in which the newest version of a row wins and `ALTER TABLE ... DELETE` runs later. Hard: two
requests between each other's check and insert (last owner leaving, one invitation accepted twice), merges of settings
from a row read before, a removal that names the version it read. Correct means: a workspace keeps an owner, a removed
member stays out, a revoked invitation stays revoked, a write based on the newest row is the newest row.

### 1.7 Platform administration (api/src/admin-platform)

Machine-to-machine verbs. `provisionTenant` is a saga over account, database, workspace, membership, task and API key,
with a hand-written compensation; `setLayout` and `updateWorkspaceSettings` merge into the workspace row. Hard: every
statement may fail before or after it took effect, the compensation too; retries meet rows whose deletion is accepted
and not yet run; two calls search for a free slug at once. Correct means: "rolled back" leaves nothing, a tenant that
was handed out stays whole, every call is answered.

### 1.8 Integrations

Google Search Console sync (`api/src/gsc`, `veridian-bridge/src/gsc`), VoIP call sync (`api/src/voip`,
`veridian-bridge/src/voip`), assistant (LLM tool loop and rate limiter), SMTP and mail, hub provisioning
(`veridian-bridge/src/hub`). Hard: overlapping cron runs, partial failure of one credential, idempotent
re-pulls, replay windows.

### 1.9 Storage and pure computation

Migrations (versioned, run once at start-up), query building with its result cache, filter compilation and evaluation,
channel derivation, date ranges, geo lookup, report rendering. Mostly pure functions over strings and SQL.

The console (React UI), demo data generators, deployment files and scripts are not modelled.

## 2. Plan

The parts whose promise is about data that may be lost, repeated or overwritten come first; parts that only
compute or only forward come last or stay out.

Done: ingestion from the workspace cache to the buffer against an abstract log; the backfill tasks and their mutation
slots; the webhook queue and its Twenty connector; the report subscriptions; members and invitations; tenant
provisioning; the SDK's page, heartbeat and sender; proofs of every safety property of these modules (section 6).

Proofs next: with each new model its invariants; nothing of the present ones is left but what is out of the prover's
reach.

Models next: the analytics result cache and its index of keys (cleared by `backfill.completed` while a query is under
way), the identity stitch mark, the Search Console sync, the VoIP sync over `EventBuffer`, the assistant's limits, the
migration lock.

One run per module: its safety and liveness share an instance, and properties that say one thing together are one
conjunction of named parts.

## 3. Modules and the code they stand for

One action is what the code does between two awaits; whatever may run in between is another action. Rows in
ClickHouse are ReplacingMergeTree rows: a write inserts a whole row, the newest one counts, and a handler that
writes a row it read earlier does so from its copy. The precise lines are in `PROJECT.json` ("map").

| Module | Code | State | Actions |
|---|---|---|---|
| `EventLog` | abstract | per workspace a log and the fate of its settled prefix | append, settle the next ones |
| `EventBuffer` | `events/event-buffer.service.ts` | `buffer`, `timer`, `flushing`, `inflight`, `droppedEvents`; callers; shutdown stage | `BeginBatch`/`Add`/`EndBatch` (`addBatch`, `add`), `TimerFires`, `InsertSucceeds`/`InsertFails` (the two ends of `flush`), `Destroy` |
| `WorkspaceIngest` | `session-payload.handler.ts`, `workspaces.service.ts`, `filters.service.ts`, the layout and settings verbs of `admin-platform.service.ts`, `update-workspace.dto.ts` | newest row versions, the 60 s cache, writes and payloads under way, clock | the edits (read, land, announce), `activateIfInitializing`, delete, the payload (cache hit or load, judge, buffer, activate), merge of versions, tick |
| `BackfillTasks` | `filters/backfill/backfill.service.ts`, `backfill.processor.ts` | row, in-memory copy, place of each task, `lock` per workspace, chunks done and to do, what `cancelTask()` and the shutdown hook have read | start (check, insert, spawn), lock, count, chunks, verdict, close (also with a lost answer), cancel (read, write), crash, shutdown (read, write), restart with recovery |
| `MutationSlots` | `acquireMutationSlot` in `backfill.processor.ts` | semaphore permits and queue, unfinished mutations | pre-check, acquire, timeout, post-check, submit, wait |
| `WebhookQueue` | `webhook-dispatcher`, `webhook-delivery-worker`, `webhooks.controller`, `webhooks.service` | rows with attempt and order, the worker's batch, the handlers' copies | dispatch, test, manual retry, edit, tick, deliver, send, record, crash |
| `TwentyFlush` | `connectors/twenty-connector.service.ts`, `twenty-client.ts` (batch), `twenty-budget.ts`, the worker's group flush | rows, classification of a batch, tokens of a window that is renewed, identity cache, what the CRM holds | tick, refuse, take a token, resolve, drop, throw, post (failed, accepted, answered as a duplicate, dry), patch, record, abort; persons imported and deleted, dry run ended |
| `Subscriptions` | `subscriptions/*.service.ts`, its controller and scheduler | rows, runners' and requests' copies, clock | create, edits, send now, `findDue`, re-fetch, send, mark sent, mark failed, abort |
| `Membership` | `members.service.ts`, `invitations.service.ts`, the guard and permissions they pass | versions of each membership with their doom, invitations, requests and what they have read | role change, removal, leaving, transfer of ownership; invite, resend, revoke, accept (find the user, look again, insert one, join, write back); a failure anywhere; expiry, merge, mutation |
| `TenantProvisioning` | `provisionTenant` and its compensation, `create`/`delete` of `workspaces.service.ts`, parts of `users.service.ts` and `api-keys.service.ts` | calls, accounts, rows and the doomed among them, databases | one per statement, each of which may fail before or after its effect; the compensation; a mutation |
| `SdkPage` | `sdk/src/sdk.ts`, `core/session-state.ts` | document, focus, heartbeat record, the handle and the timers it lost, page views, snapshot | one per browser event, API call or timer; reload after a discard |
| `SdkSender` | `sdk/src/transport/sender.ts`, `storage/storage.ts` (constructor, get, set) | the queue in localStorage, per tab the queue in its memory and the step between read and write, requests under way | send, beacon, enqueue (read, write), flush, answers, failures, timeouts, closing a tab, the connection, a failing localStorage |

`MC*` modules only add symmetry sets and constant definitions. What each model leaves out:

- Events carry an identity and nothing else. Whether an insert whose answer was lost had been written is a
  choice of `InsertFails`. Duplicate inserts of one event are told apart by ClickHouse's `dedup_token`, so
  `stored` is a set.
- In `WorkspaceIngest` a workspace row is its status, its filters and one layout; the other settings keys are merged
  and written the same way. The enrichment of an event is a pure mapping and is left out. `EventBuffer` is where its
  `buffer` step leads. What `workspaces.update` and `updateWorkspaceSettings` may be called with is the constant
  `Updates`; in the instance it covers all four statuses, with and without settings, an order of an undefined widget
  and an empty layout.
- The mutations of a chunk are one step between its two progress rows; whichever of them fails, `Throws` ends the task.
  An insert that throws may have taken effect, wherever a task row is written.
- The filter, transform and mapping engines of webhooks contribute an outcome. One process drains the queue
  (the leader, `docs/runbooks/webhook-worker-single-leader.md`). An edit of a webhook definition is one step.
- A calendar is a clock of slots; `calculateNextSendAt` yields some later slot.
- In `Membership` the role `editor`, which no check tells from its neighbours, is left out; mails are not modelled. A
  user is an account, for an address; `Fails` ends a request wherever it is, which with the write made or not made
  before covers every statement that throws. An account is taken to stay once it was created.
- In `TenantProvisioning` the SQL of the tables is one step, and the numbers forwarded to the bridge have no effect
  here.
- `SdkPage` is one tab; goals and custom dimensions only mark the state as changed. `SdkSender` takes a payload as a
  number. Parallel tabs are taken to interleave between a read and a write of localStorage. A `setItem()` or `getItem()`
  that throws moves the tab to its memory until it is closed, as `storage.ts` does, and leaves localStorage as it was.

## 4. Runs

| Run | Instance | Question | States |
|---|---|---|---|
| `event_buffer` | 2 workspaces, 2 callers, 3 events, flush at 2, retained 2 | `SingleFlight`, `Pipeline` (nothing lost, repeated or reordered), `RetentionKept`, `RequeuedHasTimer`, `ShutdownFlushesIdle`, refinement of `EventLog`, `Progress` | 211 k |
| `ingest` | 2 edits, 1 payload, 1 filter, 1 widget, 4 updates, TTL 2, 1 fault | `JudgementIsFresh` (how old a row a payload may be judged by), `LayoutKept` (which writes can break a layout), `UncontendedWriteIsSeen`, `ReactivatedByOverlap`, `Activated` | 1.4 M |
| `backfill` | 2 tasks of 1 workspace, 3 days in chunks of 2, 1 crash or shutdown | `CompletedIsWhole`, `LockWorks`, `TerminalOverwrites`, `TasksSettle` | 332 k |
| `mutation_slots` | 3 processors, 2 permits, limit 2, 6 acquires | `PermitsAccounted`, `OvershootBounded`, `ServedUnlessLeaked` | 4.5 k |
| `webhooks` | 2 deliveries, 2 hooks of which one unreadable, 2 attempts, 1 upset (manual retry, edit, failed write or crash) | `SuccessWasAccepted`, `AttemptsAccounted`, `Settles` unless an unreadable delivery is queued | 697 k |
| `twenty` | 3 deliveries (1, 2 and no activities) of 1 person, batch 2, budget 2, 2 minutes, 2 attempts, 1 fault (crash, failed write, deleted person) | `TimelineHolds`, `DrainWithinBudget`, `TwentySettles` unless the secret is unreadable | 516 k |
| `subscriptions` | 1 subscription, 2 runs, 1 request, 1 edit, 2 failures, 1 abort, limit 2 | `ServedBelowLimit`, `ActiveIsScheduled`, `FailuresExplain` (a second mail needs a failure or two runs that crossed), `DueIsHandled` where the scheduler is on | 458 k |
| `members` | the founder, an address that may get 2 accounts, 1 invitation, 2 concurrent requests, 4 requests in all | `OwnerKept`, `RemovalSticks` (nor is a removed user let in by a spent invitation), `RevocationHolds` | 2.1 M |
| `members_owner` | 2 users, 2 invitations, one request at a time, 7 requests | finding, below | - |
| `provisioning` | 2 calls, 2 addresses, 1 name with 2 slugs, 2 faults | `RolledBackIsClean`, `ProvisionedIsWhole`, `TwinsOverlapped`, `Answers` | 595 k |
| `sdk_page` | 4 ticks, 4 events, 2 page views, two heartbeat tiers, a cap of 3 | `DurationWithinStay`, `HeartbeatSound` | 1.8 M |
| `sdk_sender` | 2 tabs, 3 payloads, a queue of 2, 3 changes of the environment (connection, failed or late request, failed storage, closed tab) | `NothingVanishes`, `RepeatsAreExplained` (a repeat needs a lost answer, a failed write or a race) | 2.3 M |

Why the bounds suffice. The interesting cases need two actors on one row and one failure at every point: the runs have
them. In `event_buffer` the buffer fills past its threshold during an insert and the retention cap overflows (3 events
against 2 retained); two workspaces show that a flush of one leaves the other alone. In `ingest` two edits and an
activation meet on one row; the clock's reading is capped, so that later writes tie on `updated_at`, while cache
entries go on ageing past their TTL. In `backfill` the last chunk is shorter than the others (3 days by 2), which is
where an off-by-one would show. Two attempts reach first, last and exhausted attempt; a limit of two failures reaches
below, at and past the limit. In `twenty` the deliveries of one and of two activities do not fit into one batch of
two, the two activities of one delivery can be written by half, and a budget of two runs dry in the middle of a flush,
whose minute may end there (`MaxMinutes`). In `members` four requests are enough to invite, accept, remove and come
back, or for two owners to leave at once. In `provisioning` two faults fail a step and its compensation, and two calls
are a call with its retry or two at once. In `sdk_page` four ticks cross both tiers and the cap. In `sdk_sender` a
third payload overflows the queue of two and two tabs flush it at once; with three changes a tab queues offline, comes
back and fails to clear the queue, which the other tab then sends. Counters (`MaxEvents`, `MaxFaults`, `MaxUpsets`,
`MaxEdits`, `MaxAborts`, `MaxThrown`, `MaxRestarts`, `MaxAcquires`, `MaxOps`, `MaxMade`, `MaxFlips`, `MaxNow`,
`MaxClock`) bound only what the environment may do, never a step the code is bound to take. Deadlock is not an error
in these runs, since a behaviour that has used up its inputs stops; that nothing hangs is stated as liveness instead.

Symmetry is used in safety runs only, over values the configuration does not tell apart.

Several properties exempt what is known to go wrong under a race, and say so in their statement: history variables
(`raced`, `rejoined`, `spent`, `crossed`, `met`, `missed`, `spoilt`, `behind`) record that two requests overlapped on
stale reads, or that a statement failed at a point the code does not repair. Such a property shows that the race is
the only way; which races there are is in section 5.

Fairness, weak everywhere, on what the platform promises: armed timers and cron jobs fire, a promise that is being
awaited settles (ClickHouse, fetch and SMTP clients have timeouts), a killed process is started again by its
supervisor, ClickHouse merges parts and runs accepted mutations, time passes. No fairness on users, new events,
crashes, shutdowns or the success of a request, and none on the timeouts of `mutation_slots`, whose queue must move
without them: `Activated` assumes that payloads keep being accepted in its own premise. What may fail is bounded by
attempts or by the failure limit, as in the code, or by `MaxFaults`. The SDK runs and `members` are safety only:
nothing obliges a browser to be online again, or a user to act.

## 5. Findings

One run ends in a counterexample to a sentence of the repository.

- `members_owner`: "workspace must always have at least one owner" (`api/src/members/members.service.ts:256`). With
  requests one at a time: an invitation expires, a second one is sent to the same address (`findPendingByEmail` passes
  over the expired one), `resend()` renews the first. The invitee joins by one, becomes the owner by a transfer, and
  accepts the other: `accept()` writes a membership with the invited role over the sole owner's.

Definitions that state other sentences of the repository, which the code does not keep either. They are not part of a
run; adding the name to the configuration of its module shows a counterexample.

- `WorkspaceIngest.OrderIsResolvable`: "an `order` entry that names neither is a 400"
  (`admin-platform.service.ts:1287-1288`). `setLayout()` keeps this; `updateWorkspaceSettings()` and
  `workspaces.update` replace the whole layout, widgets dropped, with an order nobody looks at
  (`update-workspace.dto.ts:111-123`). `LayoutKept` shows that nothing else breaks a layout, except a write that had
  read one broken before.
- `EventBuffer.PendingIsFlushed`: "2 seconds elapsed with pending events" triggers a flush
  (`docs/data-flow-architecture.md:285`). A timer that fires during an insert is spent on `flush()`'s early return and
  only the first event of a buffer arms another, so events can wait until the next threshold or shutdown.
- `BackfillTasks.OneBackfillAtATime`: "only ONE backfill per workspace at a time"
  (`docs/data-flow-architecture.md:1049`). Two tasks that waited for the same one both enter when it leaves; it takes
  three tasks. What the lock does keep is `LockWorks`, proved.
- `MutationSlots.PermitsComeBack`: "Release semaphore IMMEDIATELY after check" (`backfill.processor.ts:537`). A waiter
  that timed out is still served, and its permit never returns. `PermitsAccounted` shows that this is the only
  way a permit is lost.
- `WebhookQueue.OthersSettle`: the worker "pushes each ready row to its destination". An unreadable secret throws
  outside `sendOne()`'s `try`, the row stays first in the queue, and every tick ends there.
- `TwentyFlush.DuplicateIsNoOp`: "Duplicate of an already-written deterministic id → replay no-op (exactly-once)"
  (`twenty-client.ts:184-185`). The error is about the batch: when an earlier POST was written by half and its answer
  lost, the retry is answered as a duplicate and every delivery of the batch becomes a success, whether Twenty wrote
  its activities or not. `TimelineHolds` says that such a loss, or a dry run, is the only way to an untrue success.
  Whether Twenty writes a batch by half is not known from this repository; the run lets it.
- `Subscriptions.OneMailPerSlot`: "Re-fetch to check if another instance already processed this"
  (`subscription-scheduler.service.ts:59`). Two runs that both look before either writes mail one slot twice, with no
  failure. `FailuresExplain` shows that a repetition without a failure needs two runs with the report in hand at once.
- `Membership.OneAccountEach`: "Email already exists" (`users.service.ts:72`). Two acceptances for one new address (or
  two requests that create it) both look before either inserts, and the address has two accounts, each with a
  membership and a password of its own; `findByEmail()` then answers with either.
- `TenantProvisioning.LeavesNoGhost`: the comment of the catch (`admin-platform.service.ts:287-291`) has a retry reuse
  the slug. A failure inside `create()` leaves `workspaceCreated` unset, so that rows already written are not unwound
  (one call and one fault suffice).
- `SdkPage.FocusTimeIsReported`: "Focus time measured with millisecond precision". `flushOnce()` forgets the current
  page at the first blur and nothing sets it again; `resumeHeartbeat()` drops the running time of a page that was
  active already.

Met while modelling and visible in the same state spaces: `add()` does not enforce the retention cap its constant is
documented with, only a failed flush does; shutdown does not wait for an insert already under way; two `startBackfill`
calls can both pass the check for an active task; the shutdown hook and `cancelTask()` turn a task that completed
after their read into a cancelled one, and a lost answer to the first status write turns it into a failed one
(`TerminalOverwrites` says that nothing else does); an interrupted task that is younger than the stale threshold stays
as it is after a restart; chunks longer than a day rewrite only the first day's partition; the hard limit on mutations
is overrun by as many as there are processors between check and submit (`OvershootBounded` is the bound that holds); a
manual retry can read a row that becomes `success` before it writes; the Twenty budget is per drain, so a minute of
six drains has six budgets, and its "sliding-minute" window (`twenty-budget.ts:2`) is a fixed one, so that two budgets
can be spent around its end; a person deleted in Twenty is written to while the cache answers; a secret that cannot be
read throws outside every `try` of the group flush, so that at every tick its deliveries, and the groups behind them,
wait; a `markSent()` or an edit that read before a delete brings the subscription back; a `markFailed()` that throws
ends the run for the subscriptions behind it.

Ingestion: an update of the status alone is not announced to the handler's cache, so a suspended workspace ingests
until its entry expires; an activation that read before a suspension overwrites it. Members: a second removal counts
an owner whose DELETE is accepted and not yet run; a role change that lands after a DELETE brings the member back; an
invitation accepted twice gives two rows, and removing one lets the other surface; an invitation whose second insert
failed, or that a `resend()` wrote back while it was being accepted, is pending after its user joined. Provisioning:
two calls with one business name can share an identifier, and the compensation of one deletes the workspace of the
other; a failure of the reset token leaves a whole tenant behind a 500, and the retry is answered 409. SDK: a payload
that is flushed later may carry older durations than one already received; a payload queued by a timeout waits for an
`online` event that need not come; a failed `setItem()` moves a tab to its memory and leaves the old queue in
localStorage, so that another tab, or this one when loaded again, sends it a second time, and what is only in that
memory is lost with the tab.

Hazards in parts that have no module: `markSynced()` writes a property held since before a sync
(`api/src/gsc/gsc.repository.ts:134`); the hourly reset moves the time the daily reset is measured from
(`api/src/assistant/lib/rate-limiter.ts:57`); the migration lock is taken over after a timeout whether or not its
holder is alive (`api/src/migrations/migrations.service.ts:202`); a query tracked or stored while `backfill.completed`
clears the analytics cache (`api/src/analytics/analytics.service.ts:868`).

## 6. Proofs

For every value of the constants that satisfies the module's named assumption:

| Module | Theorem | Statement |
|---|---|---|
| `EventBufferProofs` | `TypeCorrect`, `SingleFlightHolds` | types; an insert is under way exactly for the members of `flushingWorkspaces`, and is awaited at most once |
| | `PipelineHolds` | accepted = settled, in flight, buffered, in order |
| | `BufferImplementsEventLog` | `Spec => EL!Spec` |
| | `RequeuedNeverStranded`, `RetentionAlwaysKept` | a failed batch always has its timer; it stays within its bound, and what the bound costs is counted |
| | `ShutdownAlwaysFlushesIdle` | what shutdown owed to idle workspaces is settled when it ends |
| `WorkspaceIngestProofs` | `TypeCorrect` | types of rows, cache, writes and payloads under way |
| | `JudgementAlwaysFresh` | how old a row a payload may be judged by |
| | `UncontendedWritesAreSeen`, `ReactivatedOnlyByOverlap`, `LayoutAlwaysKept` | action properties: a write from the newest row is what is read next; a suspended workspace comes back only by an edit that says so or by an overlap; a layout breaks only by a settings update or by an overlap |
| `BackfillTasksProofs` | `TypeCorrect`, `LockWorksHolds`, `CompletedHolds` | types; no dead lock entry, and entry after the holder left; completed is whole |
| | `SlotPermitsAccounted`, `SlotOvershootBounded` | of `MutationSlots`: no permit is invented or counted twice; ClickHouse is overrun by fewer mutations than there are backfills |
| | `TerminalRowsStay` | action property: who may replace a final row |
| | `CancelAlwaysHeeded` | after a cancellation inside the loop no row ever says completed (the safety part of `TasksSettle`) |
| `WebhookQueueProofs` | `TypeCorrect`, `SuccessAlwaysAccepted`, `AttemptsAlwaysAccounted` | types; success was accepted; every POST has its attempt or its excuse, and none is skipped |
| | `TwentyTypeCorrect`, `DrainWithinBudgetHolds`, `TimelineHoldsAlways` | of `TwentyFlush`: types; calls within a budget per minute begun; delivered means on the timeline, up to a dry run or a lost and repeated batch |
| `SubscriptionsProofs` | `TypeCorrect`, `ServedBelowLimitHolds`, `ActiveIsScheduledHolds` | types, failure limit, schedule |
| | `FailuresAlwaysExplain` | disabled for a reason; a slot mailed again only after a failure or by runs that crossed |
| `TenantProvisioningProofs` | `TypeCorrect`, `TwinsAlwaysOverlapped` | types; twin accounts come from overlapping calls |
| | `ProvisionedStaysWhole`, `RolledBackLeavesNothing` | the two ends of the saga, up to the overlaps and failures the properties name |
| `SdkProofs` | `HeartbeatAlwaysSound`, `DurationAlwaysWithinStay` | the heartbeat beats while it should and stops at the cap; no duration exceeds the stay |
| | `NothingEverVanishes`, `RepeatsAlwaysExplained` | of `SdkSender`: a payload is received, held or given up for a reason; it is received again only where the tab could not know, or a failed write left it in localStorage, or two tabs raced |
| `MembershipProofs` | `AnOwnerIsKept`, `TheRemovedStayOut` | an owner is left, and who was removed stays out and is not let in by a spent invitation, unless a write rested on a read that was overtaken or a member joined twice |
| | `RevocationIsFinal` | an invitation revoked in peace stays revoked |

Components that work together share a module of proofs, which extends both: `MutationSlots` with `BackfillTasks`,
`TwentyFlush` with `WebhookQueue`, `SdkSender` with `SdkPage`. So that it can, the second of each pair has names of
its own where both would use one (`SlotsSpec`, `TwentySpec`, `SenderSpec`, ...); they share no constant and no
variable, and each theorem is about one specification.

The assumptions are the ones the modules declare, and TLC evaluates them in every run: sizes, limits and bounds are
natural numbers (positive where the code's constant is), the sets a configuration relates are related that way, a
value that stands for "nothing" is none of the others (no user, no invitation and no row of one in `Membership`, no
number, no step of a write and no reason in `SdkSender`), and the overlapping runs of the report job are finitely
many. No proof uses the size of a bound.

*EventBuffer.* `SingleFlight` is inductive over the types. `Pipeline` needs it: a flush may take the buffer only
because nothing is in flight. Four `Pipeline...` lemmas say what one step does to four sequences (an event pushed, the
buffer sent, the batch stored, the batch put back and cut) and carry all sequence reasoning. `PipelineIsLog` shows
that the refinement mapping's log, read off the buffers, equals what was accepted; each step is then an append, a
settlement or a stutter. `RequeuedHasTimer` alone is not inductive: `RequeuedInv` adds that a requeued buffer is not
empty, for `flush()` of an empty one would clear the timer and send nothing. `ShutdownInv` says where an event is that
shutdown has not seen settled: in an insert the hook awaits. `RetentionKept` is a count: `Lost` is the set of events
that are neither held nor stored, and only a failed insert that exceeds the cap enlarges it, by at most as many events
as it adds to `droppedEvents`.

*WorkspaceIngest.* The past enters the table and the cache only through what a request holds between two awaits, so
both invariants speak of that. `WriteInv`: a write under way has a row newer than the one it was merged from, active
only for a reason, and with a layout that resolves if the row it read had one and nobody skipped the check; versions
in view carry the same time. The three action properties follow from it. `FreshInv`: the row of a load under way has
been out of the table no longer than the load has lasted, and if an announced change replaced it, that was during the
load.

*BackfillTasks.* Four layers. `Typed` adds to `TypeOK` which tasks have a workspace. `QueueInv` adds to the two lock
properties that a task is waited for only once it has entered, so it cannot enter after its waiter. `ChunkInv` adds
that inside the loop every chunk is done or to do and that a verdict in memory is as true as the row written from it,
since crash, shutdown and cancellation may fall between the two. `StatusInv` ties the last row to the place of its
task: over a completed or failed row its own task may write at most "failed", while it closes, and whoever else holds
a copy of the row found it open.

*MutationSlots.* `WaitersWait`: whoever stands in the line of the semaphore and has not timed out is waiting, and
stands there once, so a permit that is handed over makes one holder more. `PermitBook` is the count of the permits.
`MutationBook` counts the mutations that run together with the processors that have passed the check and will submit
one: the check lets a processor pass only below the limit, and each processor adds at most one.

*WebhookQueue.* The worker acts on a batch that may be older than the rows. `Entry` says what an entry still knows,
however old: the attempts before its own were made, and no more POSTs than these and the excused ones (`spare`)
happened. `RowInv` and `RowPosts` say the same of the rows, `LineInv` that a delivery waits at one place only and
while it is unsettled; the sequence lemmas at the start carry the moves within the queue.

*TwentyFlush.* `BudgetInv` adds the tokens that are left to the calls made: with a new window both sides grow by a
budget. `TimelineHolds` is the conjunction of three invariants. `RowsInv`: the outcomes of the flush, which the rows
are written from, are true of the CRM up to a dry run or a duplicate answer. `LossInv`: a flush is about unsettled
rows only (`FlushIsDue`), and as long as nothing was lost the CRM has only what a row or an outcome says
(`HeardOfAll`); so a batch answered as a duplicate has met an activity whose writing was lost. `PersonsInv`: cache and
batch are about persons known when asked.

*Subscriptions.* `SoundInv`: not only the rows but every copy held by a runner or a request is sound (active means
scheduled; served means below the limit), because that copy is what will be written. `SentSound`, `FailedSound` and
`EditedSound` show that each writer maps a sound copy to a sound row. `FailuresExplain` needs two counts and, for
reports nobody crossed, `CalmInv`. An exception is pending until `markFailed()` records it or the run dies.
`CountInv`: the failures in a row, or in a copy of it, and the pending exceptions together never exceed the exceptions
thrown; so a stale copy can lose failures but not invent them. `MailInv`: the mails of a slot and the runs that may
still mail it never exceed the number of runs times the rounds, one round and one more for every crash and every
exception that is no longer pending. A mail uses up a run that was ready; only a recorded failure or a crash puts a
slot back, and it opens a round for all of them. `CalmInv`: a report that no run took up while another had it in hand
is in one hand at a time, and unless that run is between the mail and `markSent()`, every mail of the slot the row is
at has a failure to its account; so the re-fetch lets no second mail through without one.

*TenantProvisioning.* Two calls have met or one ended before the other began (`MeetInv`). `TwinInv` follows what a call
has seen of its address. `SagaInv` says, for a call that met no other on its identifier, what it has built at each
statement and what its compensation has taken down, and that a tenant handed out is nobody else's target: a call that
deletes by identifier met it or had found the identifier free.

*SdkPage.* `PageInv` reads the counters as intervals: active time was collected before the running stretch began
(`Counted`), and the time being counted, together with the entry time of the page it will be credited to, does not
reach past the stretch's start (`Fits`). The same holds of the snapshot in sessionStorage, which a reload puts back.
The handlers are compositions of a few heartbeat and session operators; the lemmas say what each of these keeps.

*SdkSender.* `Typed` says besides types what a tab holds at each of its steps. A tab's queue is `Stored(t)`, in
localStorage or in its memory. `AloneInv`: until two tabs race, one tab at a time is between its read and its write of
localStorage, and what a tab has read is what is in its queue. `OnceInv`: until then a payload that no failed write
left `behind` is in one place only, in localStorage, in one list of one tab, or on its way. From this `FoundInv`
(`NothingVanishes` without the readings of the queue, which prove nothing when they are thrown away) and `CountInv`,
which adds to `RepeatsAreExplained`, again up to `behind`, that of a payload with an unreceived copy even the last
arrival was one the tab did not learn of: it may be sent again. Each handler is shown to move payloads between the
queue, one tab and the network; `OnceMoved`, `FoundMoved`, `FreshMoved` and `CountMoved` say once what such a move
keeps.

*Membership.* `ClosedInv`: nobody is at work on an invitation that was revoked, or recorded as accepted, in peace.
`PeaceInv` holds until a write rests on a read that was overtaken or a member joins twice: the versions of a
membership have one id and are doomed exactly when the user was taken out (`RowsOK`), an owner is left who was not
(`OwnerStays`), and a request that nobody has overtaken knows what is true of the rows it will write (`CleanOK`), the
second owner included that `count` saw.

`Undoomed` (Membership) and `Unexpired` (SdkSender) filter a sequence by a recursive function. Its existence and what
it returns are shown by taking the least length for which they fail, with the well-foundedness of the naturals from
the library, since the induction theorems themselves cannot be instantiated.

The strengthened invariants were checked by TLC on the constants of the runs before they were proved.

Only model-checked: liveness (`Progress`, `Activated`, `TasksSettle`, `ServedUnlessLeaked`, `Settles`,
`TwentySettles`, `DueIsHandled`, `Answers`), since fairness and ENABLED are outside the prover's reach. `TasksSettle`
is proved in its safety half (`CancelAlwaysHeeded`).

## 7. Not modelled

`PROJECT.json` lists every part with the reason. In short: identity stitching, the Search Console and VoIP syncs, the
analytics cache, the rate limiter and the migration lock are next (section 2); sessions, password resets and
SSO tokens are read-check-insert pairs over single rows; channel derivation, filter
evaluation, query building and report rendering are functions over strings and SQL whose reference is ClickHouse itself;
mail, SMTP, geo and audit are I/O; the bridge repeats the engine's syncs over another database; the console, a
third of the repository's code, keeps no state the server relies on. Most of the rest is schemas, DTOs, SQL and
one-read-one-write handlers, so the modules stand for a small share of the repository's lines: the ones whose order of
execution matters most.
