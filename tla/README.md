# A TLA+ verification of ReplyX

ReplyX is a multi-tenant helpdesk: a NestJS API (`src/apps/api`) that runs as API processes
(HTTP, Socket.IO gateways) and worker processes (outbox relay, BullMQ workers, repeatable jobs)
over PostgreSQL and Redis, and a React web application (`src/apps/web`). This directory models
the protocols that hold the system together and the services built on them, checks them with TLC
on small instances, and proves the safety of all of them for every instance with TLAPS. Paths
below are relative to `src/`; `api/` stands for `apps/api/src/`, `kernel/` for
`apps/api/src/platform-kernel/`.

## 1. Inventory

| Component | State it keeps | Operations | Hard behaviour | What makes it correct |
|---|---|---|---|---|
| Transactional outbox and relay (`kernel/outbox`) | `outbox_events` (id, seq, published_at, streams), an advisory lock, process memory (leader, running, wakeRequested) | append, tryLead, wake, publishBatch, emit, pruneIfDue, stepDown, shutdown | two processes that both believe they lead, crash between enqueue, commit and emit, ids out of commit order, pruning under readers | dense numbers, emit after commit, jobs before publish, every committed event published |
| Event jobs (`kernel/jobs`) | BullMQ jobs in Redis, `processed_events`, the dead-letter queue | enqueueEvent, process (claim, handle, commit), retry, onFailed | stalled jobs run twice, retries, job ids freed again, rows pruned | effects once per consumer and event; nothing lost silently |
| Realtime delivery (`kernel/realtime`, `apps/web/src/data/socket.ts`) | rooms, the client's cursor (sessionStorage), held events, the query cache | connect, subscribe, sync, live envelopes, resync, snapshot fetch | reconnects, late acks, replays, torn snapshots, late emits | in order, and everything up to the cursor shown |
| Ticket state machine (`api/tickets/state-machine.ts`) | none (pure) | transition, initialState | timers against states | timers match the state |
| Conversation routing (`api/messaging/customer-message-router.ts`) | `tickets`, `messages`, per-customer advisory lock | accept, target, create, closeExpired, applyMessage | staff transactions between its statements, retries, grace period | one active ticket, no lost or doubled message |
| Ticket lifecycle (`api/tickets`) | `tickets` (state, timers, merged_into_id) | update, publish reply, merge, split, move, delete, staff-started | takes other locks than routing does | no merge chains, timers match |
| Ticket sweeper (`api/tickets/sweeper.job.ts`) | reminder_notified_at | scan, peek, claim | several sweeps with stale clocks | one reminder per date, nothing closed for a reason that is gone, no starvation |
| SLA (`api/sla`) | `ticket_sla`, `sla_events` | consumer, recompute, re-application of edited policies, sweep | events out of order, changes without one, sweep against recompute, edits whose re-application fails | the row converges on the ticket; a breach is announced, once |
| Automation (`api/routing/automation`) | `automation_runs`, rule depth | consumer, run job, sweep | rules that trigger rules, a check made before the lock, jobs that stall | one reply per trigger, chains that end |
| Notifications (`api/notifications`) | `notification_deliveries`, Redis digest counters | scheduler, digest job | Redis writes inside a transaction that retries | what was counted has a digest to come |
| Webhooks (`api/integrations/webhooks`) | `webhook_deliveries`, the endpoint, the tenant's status | consumer, delivery job, sweep | leases, slow endpoints, crash between commit and enqueue, endpoints switched off, rows deleted by age | one sender, one chain of attempts, an end |
| Attachments (`api/attachments`) | `attachments`, two storage areas | upload, scan, link, download, purge | storage changes before the commit | clean means scanned and there; a retry can finish what a failure left |
| Identity (`api/identity`) | `sessions`, Redis session cache, lockout window, the session's sockets | sign in, authenticate, revoke, lock out, invite, expiry sweep | cache written after the purge, sockets joined after the revocation | a revoked session stops working, its sockets close |
| Authorization (`api/authorization`) | roles, grants, access version, cached access | effectiveAccess, role changes, access.changed | cached access, rooms joined before the change | withdrawn access is withdrawn |
| AI assistant (`api/ai`) | `ai_turns`, `ai_ticket_state`, drafts, runs | turn (read, think, write), take-over, hand-back, drafts, routing | seconds between read and write, with no lock | one answer per message, none over a person or after a stop, none forgotten |
| Knowledge (`api/ai/knowledge`) | `ai_policy_documents`, `_versions`, `_chunks` | add a version, index job, remove | versions embedded side by side, waits for the scan, deletion meanwhile | the newest good text is the one searched; no version stays unfinished |
| Tenancy (`api/tenancy`) | tenants, settings, support access, retention runs | provision, suspend, grant support access, purge | daily batch jobs | tenant isolation, retention bounds |
| View counts (`api/views`) | counts in Redis, a throttle window, timers in each worker | count, invalidate, hint, refetch | throttled hints, caching against invalidation | the last change of a burst is seen |
| View administration, presence, search, audit, tags, macros, groups, customers, dashboard, satisfaction | their tables and caches | reads and single-transaction writes | little | mostly the database's constraints |

How they interact: a service changes its tables and appends events to the outbox in one
transaction; the relay publishes them, adds a job per interested consumer and emits envelopes to
rooms through Redis; the gateways of the API processes hold the sockets; consumers run in the
workers, each in a transaction with its claim. The customer's advisory lock and ticket row locks
are what the ticket services share. `PROJECT.json` lists 40 hazards at their lines, with the
property that covers each, or why none does yet.

## 2. Modules

| Module | Models | Extends / uses |
|---|---|---|
| `EventLog` | the abstract promise of the outbox: rows are written, published with dense numbers, pruned, but for the newest | – |
| `OutboxRelay` | `kernel/outbox/relay.ts` and `outbox.service.ts` in every worker | instances `EventLog` |
| `OutboxRelayProofs` | its theorems | `OutboxRelay`, TLAPS |
| `EventJobs` | `kernel/jobs`: queue, runs, claims, dead letters, with the rows of `outbox_events` left free | – |
| `EventJobsProofs` | its theorems | `EventJobs`, TLAPS |
| `EventDelivery` | the abstract promise of relay and jobs together: what a consumer may rely on | – |
| `EventPipeline` | the two together, over one table and one set of processes | `OutboxRelay`, instances `EventJobs`, `EventDelivery` |
| `EventPipelineProofs` | its theorems | `EventPipeline`, both proof modules |
| `RealtimeSync` | a customer's browser: relay emits, gateway, `sync.handler.ts`, `socket.ts`, the fetched thread | – |
| `RealtimeSyncProofs` | its theorems | `RealtimeSync`, TLAPS, the library's theorems on well-founded orders and finite sets |
| `TicketStateMachine` | `state-machine.ts` as operators | – |
| `ConversationRouting` | one customer's tickets under routing, staff transactions and sweeps | `TicketStateMachine` |
| `ConversationRoutingProofs` | its theorems | `ConversationRouting`, TLAPS |
| `AttachmentScan` | one file: upload, scan, promotion, purge | – |
| `WebhookDelivery` | one event's deliveries to an endpoint | – |
| `SlaTimers` | one ticket's SLA: consumer, re-application, sweep | – |
| `AiTurns` | the assistant on one ticket | – |
| `PolicyIndex` | the versions of one policy document and their index jobs | – |
| `AutomationRuns` | rules on one ticket, triggered by events, by time and by each other | – |
| `NotificationDigest` | one recipient's digest: counter, job, expiry | – |
| `Sessions` | one session, its cache and a socket opened with it | – |
| `ViewCounts` | one viewer's count: cache, hints, client | – |
| `OutgoingServices` | webhooks and digests side by side, with constants and variables of their own | instances `WebhookDelivery` (`Hook`), `NotificationDigest` (`Digest`) |
| `FileServices` | files and policy documents | instances `AttachmentScan` (`Scan`), `PolicyIndex` (`Index`) |
| `TicketServices` | what happens on a ticket beside its messages | instances `AiTurns` (`Ai`), `AutomationRuns` (`Automation`), `SlaTimers` (`Sla`) |
| `BrowserServices` | what a browser is served from a cache | instances `Sessions` (`Session`), `ViewCounts` (`Views`) |
| `BoundaryProofs` | theorems about webhooks, digests, sessions, view counts, files and policy documents | `OutgoingServices`, `BrowserServices`, `FileServices`, TLAPS |
| `TicketServiceProofs` | theorems about the assistant, rules and SLA timers | `TicketServices`, TLAPS |
| `MCServices` | the nine services, `EventJobs` and `OutboxRelay` side by side | `EventJobs`, the four groups, instances `OutboxRelay` |
| `ServicesProofs` | its theorems | `MCServices`, the proof modules of its parts |
| other `MC*` | constants that a .cfg cannot write, and symmetry | the module they name |

### OutboxRelay

`pc[w]` is where `drain()` is: `select` and `lock` are the two halves of `SELECT ... FOR UPDATE`
(its snapshot, and the rows it holds after waiting), `max`, `update`, `enqueue` the statements
that follow, `emit` the loop after the commit, `prune` the end. `leader`, `again` (wakeRequested)
and `status` (stopped) are the class's fields; `lock` is the advisory lock in the server, which
can be lost while `leader` is still true. `seq` changes at `Commit`, when others see it; the
unique index shows as `UniqueViolation` and `Contended`. `Fail`, `CommitUnanswered`, `LoseLock`,
`Crash` and `Shutdown` are the failures, each counted by `MaxFaults`. `RetentionOutlastsTx` is
the one assumption about time: no publishing transaction stays open for the 7 days a published
event is kept. `Prune` deletes any published rows but the newest: the cutoff is on `published_at`,
which two processes that both publish need not write in the order of their numbers. The
constants' assumptions are `RelayAssumption`.

### EventJobs and EventPipeline

A job is its id (consumer, event). `step[s]` is how far the run in slot `s` is, and `mine[s]`
whether it still holds the job's BullMQ lock: `Stall` takes it away from a run that goes on, so
two runs of one job overlap. `Claimed` and `ClaimPending` are the primary key of
`processed_events`. `Handle` commits the claim and the effects together. A job that failed for
good is in `dead` when `onFailed` copied it and in `unburied` when it did not (a crash, a failing
add, or the stall limit, where `onFailed` returns early). `EventPipeline` adds the relay: the
rows jobs read are `written \ pruned`, `Enqueue` is `Add`, and a crash takes the relay and the
runs of a process together.

`EventDelivery` says what remains of all this when no relay, lock, queue or run is looked at: a
consumer hears of committed events, before they are published and not anew afterwards; its effects
are committed once; a job goes away only with its effects committed, or fails for good where it
can be seen; and an event is published only when each of its consumers is cared for. The
refinement mapping is `Published` (rows with a number), `Pending` (jobs waiting or active) and
`Failed` (in `dead` or `unburied`, or with a run that is about to copy it): a job fails when its
run gives up on it, not when the copy is made.

### RealtimeSync

One customer, the stream `conversation`, one page at a time. `link` and `wire` are the Socket.IO
connection (in order until it drops; dropping rejects the pending ack). `srv`, `minSeq` and
`maxSeq` are the server's `sync` between its two transactions. `cursor`, `applied`, `syncing`,
`held` and `syncFrom` are the client's; `view`, `loaded`, `fetch`, `items` and `streamSeq` are
the query and its request, whose two statements are two steps; a request that fails
(`FetchFails`), once or with all its retries, leaves the thread invalidated (`wanted`), to be asked
for again. `pruned` are any rows but the newest. `excused` is a ghost: it names,
event by event, the gap that kept an event from this browser. `Gaps` lists the six that exist:
`unsent` (relay died before the emit), `late` (a smaller number emitted after a larger one),
`pruned` (pruned between a sync's bounds and its replay, or from the middle of the log), `unsynced` (emitted before the first
join), `swallowed` (a resync while the first fetch is on its way), `torn` (snapshot and streamSeq
disagree). `NoUnknownGap` says there is no seventh.

### TicketStateMachine and ConversationRouting

`ticket[t]` is a row: state, `pending` (pending_until), `autoClose` (auto_close_at), whether
resolved_at and closed_at are set, `merged` (merged_into_id) and `notified`
(reminder_notified_at). A send is split where another transaction can commit: `Begin` (the
customer's lock and the first SELECT's snapshot), `PickActive`, `PickLatest` (the second SELECT),
`Commit`; between a SELECT's snapshot and its lock the row may change, and is re-checked. Staff
transactions (`Update`, `Reply`, `Merge`, `Split`, `StaffStart`, `Move`, `Delete`) take their
locks, re-read and write in one step. A sweep is `Scan`, `Peek`, `Claim` or `Skip`, with the time
it started at. `byStaff` and `reminded` are ghosts for `OneActive` and `RemindOnce`.
Simplifications: a staff transaction is atomic, so `SKIP LOCKED` shows only against a send's
row; the clocks of the processes agree; which of several active tickets was updated last is left
open; `after_close_behavior` is left open, per send.

### The services, and MCServices

These nine share no state with each other: each is a consumer or a job on top of `EventJobs`, or a
part of the API. `MCServices` therefore checks them in one run: `focus` names the component a
behaviour is about, the others stay in an initial state, so the states of the components add up
instead of multiplying. It extends `EventJobs` and the four groups; a cfg's `Components` says
which of the components a run is about. A group gives its components their constants and
variables and names the properties that runs check and theorems prove, so that both speak of the
same definitions. Where a module says that a job is retried, its steps are those
of `EventJobs`: a run throws and is retried after its attempts allow, dies, or loses the job's
lock and goes on beside its successor.

* **AttachmentScan.** `upload` is how far `upload()` is (file, then row), `stored` the areas that
  hold the file, `pc[r]` how far the scan in run `r` is, and `tx` the runs whose transaction is
  open. `Copy` and `Remove` are the two halves of the S3 adapter's `promote`. A run may lose its
  transaction and only notice at `Mark`. `Purge` is the retention of a ticket.
* **WebhookDelivery.** `row[a]` and `due[a]` are status and `next_attempt_at` of attempt `a`,
  `queued[a]` its delivery jobs. A worker `Claim`s a due row by moving its due time past the
  request's timeout, `Send`s, `Store`s the outcome with the row of the next attempt, and then
  `Enqueue`s it; `Fail` is an error or its death at any of these. `left` is the request's timeout,
  which is shorter than the lease: that a live worker stores within it is what the code relies on.
  `Age` says that an attempt's row is past the 30 days' retention, which may happen to one that has
  long been overdue (in a suspended tenant, say), is being sent, or has its outcome; `Sweep`
  deletes any of those in the transaction that reads what is overdue, whatever their status. A
  row that is not yet due is never that old.
* **SlaTimers.** `ticket` is what a recompute reads, `run["event"]` and `run["reset"]` a recompute
  and a re-application that hold the advisory lock with what they read; `sla` is the row, `recorded`
  `sla_events`. `Emit(at)` is the sweep on the claimed row, with a clock that may be `SweepLag` old.
  `behind` marks a re-application that failed and no event since. A policy's minutes may be `None`
  (the target is not set) or `Never` (its business hours do not have that many): `Store` then
  leaves the row as it is, with the event handled (`Unusable`). `MoveMessage` changes since when
  the customer waits without an event; `moved` marks that until the next recompute begins. When a
  policy is deleted its rows go with it at once; the model has them removed or recomputed by the
  re-application that follows.
* **AiTurns.** `history` is the order in which customers, staff and the assistant wrote, and of
  take-overs, hand-backs and hand-offs. `Read`, `Think`, `Write` are the three parts of a turn;
  the write looks again at everything the read decided (`Still`). `waiting[n]` are turn jobs with
  `n` attempts made, `owed` the messages a turn was queued for.
* **PolicyIndex.** A version is its place in the order of creation. `run[r]` is an index job's run
  with what it read (the file's scan status, its polls, its attempts); `Swap` is the transaction
  after the embedding, which looks again at deletion, status and order. `Delay` is the wait for the
  scan, which uses no attempt. `lost` are the versions whose job ended where the code cannot mark
  them: the marking itself failed on the last attempt, or BullMQ gave the job up as stalled.
* **AutomationRuns.** A ticket is one value; a rule has a trigger, the values it matches and the
  value it sets. `events[i]` has its actor and its cause, from which the depth of a chain follows.
  `Period` is the waiting period of a time rule: since a person's last change, or (`quiet`) since
  `updated_at`, which a rule's own run moves, so that it may run again.
  `Check` is `hasRun`, made before the lock; `Apply` the actions and their record; `Refuse` and
  `RecordRefusal` the refused action whose run is recorded in another transaction.
* **NotificationDigest.** `count` and `expires` are the Redis counter and its time to live, `step[e]`
  how far the consumer's run of message `e` is (increment, expiry, job, commit), `sender[s]` the
  digest job. `stranded` and `dropped` are ghosts for the two ways a digest is lost for good.
* **Sessions.** `row` and `cache` are the session and its entry, with the ticks they have left;
  `lookup[l]` is an `authenticate()` between its statements, for a request, a handshake or the
  expiry sweep. `Revoke`, `EndRevocation` and `Control` are the purge, the commit with its second
  purge, and the control message; `Join` is the socket entering its session's room.
* **ViewCounts.** A count is the set of changes it has seen. `step[e]` is the consumer's run of a
  change (drop the cached count, throttle, commit), `timer` and `flushing` the trailing hints of
  the workers, `request[q]` a `GET /views/counts` between its count and its write to the cache,
  `current` the one whose answer the client waits for. One view stands for all.

## 3. What is checked

| Run | Instance | States | Shows |
|---|---|---|---|
| `relay` | 3 events, 2 workers, batches of 2, 2 faults | 1,196,852 | `SeqDense`, `EmitAfterCommit`, `JobsBeforePublish`, and `LogSpec`: the relay implements `EventLog` |
| `pipeline` | 1 event, 1 consumer, 2 processes with a slot each, 2 attempts, 1 stall, 1 fault, fair | 252,710 | `ExactlyOnce`, `NothingForgotten`, `EventuallySettled`, and `DeliverySpec`: the pipeline implements `EventDelivery` |
| `sync` | 2 events, 2 relays, replay limit 1, 2 faults, fair | 469,967 | `NoUnknownGap`, `InOrder`, `EventuallySeen` |
| `sync_crash`, `sync_first`, `sync_snapshot` | 2 events, 1 relay, at most 1 fault | – | violated: three statements of the repository (section 5) |
| `routing` | 3 tickets, 1 message sent and retried, 2 ticks | 81,557 | `TimersMatchState`, `NoSendConflict`, `OneActive`, `NoMergeChains`, `LandsOnLive` |
| `sweep` | 2 tickets, 1 message, 2 sweepers, 2 ticks, fair | 151,096 | `RemindOnce`, `ClaimsWhatItPeeked`, `SweptEventually` |
| `services` | eleven components, below | 842,279 | `ServicesTypeOK` and the safety of each, below |
| `services_live` | relay, webhooks, SLA, assistant, sessions, fair | 94,389 | `EventuallyPublished`, `EventuallyFinal`, `BreachSaid`, `OwedIsPaid`, `OverIsClosed` |
| `assistant_next`, `digest_lost` | as in `services`, smaller | – | violated: two statements of the repository (section 5) |

What `services` says of each component, under its retries, crashes and races:

| Component | Property | Promise |
|---|---|---|
| event jobs | `AddedIsKept` | a job that was added is never gone: a skipped run completes it only when another run's effects are committed |
| attachments | `CleanIsScanned` | a file marked clean was scanned clean and is where downloads look, unless a purge failed after deleting it |
| | `UsesUpAttempts` | a scan uses up its attempts only with no file left |
| webhooks | `OneSender` | an attempt is never sent by two workers at once |
| | `OneAlive` | one chain of attempts, one of them pending |
| | `EventuallyFinal` | it comes to an end in an active tenant, or is past the retention and deleted, although jobs are lost |
| SLA | `Converged` | with every event handled and every edit re-applied the row fits the ticket, in whatever order, but for what a skipped calendar or a moved message leaves behind |
| | `SaidOnce`, `BreachSaid` | a breach is announced, once |
| assistant | `AnswersInPlace` | nobody's message stands between a customer's and the answer to it, and there is one answer |
| | `SilentWhenStopped` | no answer between a take-over or hand-off and the hand-back |
| | `OwedIsPaid` | what a turn was queued for is answered, drafted or handed off |
| knowledge | `NewestServed` | what is searched is the newest good version, alone, and nothing after a deletion; a version ends with its job |
| automation | `RepliesOnce`, `ChainsEnd` | a rule replies once for a trigger; chains of rules end |
| digests | `BurstHasJob` | what was counted has a digest to come, unless a job was never added or used up its attempts |
| sessions | `RevokedStops` | a revoked session is accepted no longer than a cache entry lives |
| | `OverIsClosed` | a socket does not outlive its session for good |
| view counts | `ShowsLatest` | with nothing under way the viewer sees the count as it is, unless a trailing hint was lost or an old count cached |

Why these bounds are enough. Two workers are what a double leadership needs; three events in
batches of two give a full and a partial batch, a second batch over a pruned first one, and an id
below those published; two faults give a lost lock and a crash in one behaviour. One event in the
pipeline suffices because jobs of different ids share nothing; two slots in two processes make a
zombie and its successor, and the event jobs of `services` have three. Two events make a gap
possible (the second moves the cursor past the first), and a replay limit of one makes a resync.
Three tickets make a chain of merges, two routers a request and its retry. Larger instances were
checked by hand: `EventJobs` with two jobs (2.7 million states), `RealtimeSync` with three events
and one fault, so that the middle of the log can be pruned (3.1 million), `ConversationRouting` with
three tickets, two routers and a sweeper (1.2 million), and with three ticks and two sweepers (1.6
million).

In `services` each component has what its hazards need. A scan has two runs, three attempts, a
stall and two faults: a lost transaction and a zombie. A webhook has two attempts, two workers and
a queue of one job per attempt: a retry, and the sweep beside a live job, and either attempt may
pass the retention. An SLA has two changes, six definitions of a policy (short, long, without two
of the targets, and each target out of reach), and a fault: an edit, or a message moved, between an
event's read and its write. The
assistant has three entries of people, two runs and an incident: a question, an intervention and
another question. The index has two versions, two runs and a stall: an older and a newer text, and
two runs of one. Rules come in three rulebooks: two that trigger each other, and one that an event
triggers with one that a clock does, since a person's last change or since the last update; the
clock acts until the second event, which may be a rule's. A digest has two messages, two senders and two faults; a session two lookups and a
fault; view counts two changes, two requests, one worker and a fault. Behaviours of view counts
are not followed past a lost hint or an old count in the cache, which `ShowsLatest` excuses for
good. Larger instances, checked by hand one component at a time: automation with depth 3 (125,325
states) and with a third period (463,386), SLA with three changes (1.6 million), webhooks with three
attempts and a fault (622,532),
digests with three messages (3.4 million), sessions with an idle window of three (86,165), the
assistant's liveness with three entries (63,817), the relay's with two faults (87,692), the index
with two faults (9.4 million), view counts with two workers (1.4 million).

The cfgs that say `CHECK_DEADLOCK FALSE` describe systems that may stop: all events of the bound
are published, seen and handled, people and faults have acted as often as the bound lets them, and
the clock is at its bound.

Fairness. `OutboxRelay`: a supervised process restarts, a worker without a leader retries every
5 s (`LEADER_RETRY_MS`), a leader polls (`POLL_MS`), a dead connection raises an error event, a
drain goes on; all weak, since each stays enabled until it happens. `EventPipeline` adds: a
worker's slots take waiting jobs and finish what they run, and BullMQ's stalled check finds jobs
without a holder; a run that is still going on is not assumed to stall. `RealtimeSync`: relays
emit, Socket.IO reconnects, requests are answered. `ConversationRouting`: a transaction that has
its locks goes on, and the repeatable job runs on; `Claim` and `Commit` are strongly fair, because
a lock they wait for is free again and again. `MCServices` (its
comment lists them): the webhook sweep is a repeatable job, workers take queued deliveries and
finish them, and time goes on; the SLA sweep goes on with a clock that is up to date now and then;
event jobs and turn jobs of the assistant are run; time goes on for sessions, the expiry sweep
runs, and a lookup is answered. All of these are weak. No fairness is assumed for faults, users or
staff.

Each property is paired in `PROJECT.json` with a mutant, a plausible bug in the code, that breaks
it under the run's own configuration. The type invariants of `OutboxRelay`,
`ConversationRouting` and `RealtimeSync` are left to their proofs, in the instances of their runs;
`services` evaluates the others', and its relay's.

## 4. What is proved

TLAPS checks, for every value of the constants:

* **OutboxRelayProofs.** `TypeCorrect`, `SeqIsDense`, `EmitsFollowCommits`,
  `JobsPrecedePublishing` and `RelayImplementsLog`, from `RelayAssumption`. `SeqDense` alone is
  not inductive: the number read by `ReadMax` may be stale when the UPDATE runs. `Inv` adds what a
  transaction knows in each phase: its locked rows are distinct, unpublished and nobody else's
  (`BatchInv`); once it has read `max(seq)`, every number below `first` is given, and no deleted
  event has one from `first` on (`ReadInv`); once its UPDATE went through, every number given is
  below `first` and no other transaction is at that point, which is what the unique index ensures
  (`NumberInv`); and every deleted event has a number below a retained one's, as `max(seq)` would go
  back otherwise (`PruneInv`). `ReadInv` is where `RetentionOutlastsTx` is needed.
* **EventJobsProofs.** `JobsTypeCorrect`, `EffectsOnce`, `JobsKept`, from `JobsAssumption`, for
  any behaviour of the rows. (`JobsKept` is `AddedIsKept` of the run `services`; `EffectsOnce` is
  the property `ExactlyOnce` that `pipeline` checks, for the jobs alone.) `JobsInv` adds that at
  most one run holds a job's lock, that only active jobs are held, that at most one run of a job
  is past its claim, and that a claimed job is not yet in `processed_events`.
* **EventPipelineProofs.** `PipelineRunsRelay` shows that the pipeline is a behaviour of the
  relay, so the relay's invariants hold in it; `PipelineExactlyOnce` and `PipelineJobsTyped` carry
  the jobs' over; `PipelineForgetsNothing` joins the two: a published event has its jobs added
  (`JobsBeforePublish`), and a job that was added is accounted for, also after its id was freed.
  `PipelineKeepsPromise` is the refinement of `EventDelivery`, for any number of faults: each step
  of the pipeline is one of its steps or leaves `written`, `Published`, `Pending`, `effects` and
  `Failed` alone. Beside the invariants above it needs two facts (`SourceInv`): what a transaction
  has still to add are jobs of its own batch, whose rows are committed and unpublished as long as
  it is open (`BatchInv`), and no queue holds a job of an event that is not committed. That a job
  is settled only for committed effects is `KeptInv` of the jobs: a run that skips has found the
  claim of a committed transaction. That a batch is published only when all its consumers are
  cared for is `AddedInv`, about jobs some of which may be over by the commit.

* **ConversationRoutingProofs.** `RoutingTypeCorrect`, `TimersAgree`, `SendsExclude`,
  `SendsOpenOne`, `MergesStayFlat`, `RemindsOnce`, `ClaimsArePeeked` and `MessagesLandOnLive`, from
  `RoutingAssumption`, for any number of tickets, messages, requests and sweeps. One invariant,
  `IInv`, carries them all. `OneActive` needs `SeenInv`: an active ticket that the send's snapshot
  missed is the staff's doing, since another send would have needed the customer's lock; and
  `SeenInv` needs `MergeInv` across a deletion, which unmerges tickets: an active one among them
  was reopened by staff. `SendInv` says that the ticket a send has locked is still there when it
  writes. `RemindOnce` needs that a row reminded of is not due for that date (`RemindInv`), and
  `ClaimsWhatItPeeked` that no transaction makes a row due for a time already past
  (`NoneComesDue`, a fact about steps, proved beside the invariant of each action). The lemmas
  `TransitionFits` and `TransitionNotDue` state what the ticket state machine contributes.

* **RealtimeSyncProofs.** `SyncIsTyped`, `AppliedInOrder` and `GapsAreKnown`, from
  `SyncAssumption`, for any number of events, relays and faults and any replay limit. Types need
  `Base`: `mine` is a set of numbers up to `last` and so has a largest one (`LargestIsThere`, by
  the library's theorem on well-founded orders), an answer on the wire is the only one of its
  connection, and while a sync is under way nothing was applied past the cursor it sent; the last
  of these is what `InOrder` needs. For `NoUnknownGap` the question is what keeps an event from
  being lost while client and server disagree. An event behind the cursor is `Safe`: shown, in a
  named gap, or to be shown or found torn by the fetch under way (`PassedInv`). One that is ahead
  of it and not safe is `Owed`, and `Follows(n)` says of those newer than `n` that they are held,
  on the wire or not yet emitted, and that nothing newer stands before them on the wire or was
  held without them. `Follows(0)` holds while the client is live (`LiveInv`), `Follows(maxSeq)`
  once a sync has its bounds (`BoundedInv`); when it is answered the rest is before the answer on
  the wire, unless that tells the client to fetch again (`AnsweredInv`); `OpeningInv` is what a
  connection has before the client handles it. Steps that would break one of these put the event
  into one of the six gaps.
* **BoundaryProofs.** For any number of workers, messages, lookups, requests and faults:
  *Webhooks*: `NeverSentTwiceAtOnce` and `OneChain`. A job that sends has claimed its attempt for
  longer than its request may take, from `Timeout < Lease`, unless the row was deleted meanwhile
  (`LeaseInv`); then the attempt was the last of its chain and nothing may follow it (`CutAt`).
  No two workers send anything of one event (`AloneInv`), only a failed attempt below the limit is
  followed by another (`RetryInv`), and a deleted endpoint has no rows (`GoneInv`). *Digests*: `BurstsAreTold`. A counter that was started has a job to come, and each
  counted message has one or is covered by the mail being sent (`BurstInv`, `UntoldInv`), unless
  one of the two known ways to lose it was taken. *Sessions*: `RevokedIsRefused`. Each tick a dead
  session is accepted has cost the entry one of its own (`EntryInv`), and a lookup that will write
  an entry keeps the ticks from being counted (`HeldInv`). *View counts*: `ViewerSeesLatest`. The
  cached count has seen every change it was dropped for (`CacheInv`, `DroppedInv`), and the client
  shows a change whose hint is behind it, or waits for a request that will see it (`NoticeInv`).
  *Attachments*: `CleanFilesWereScanned`, and `AttemptsOutlastFailures`, which assumes fewer
  failures than attempts, as the instance of `services` has it. Beside what a run found out
  (`VerdictInv`) and who holds the job, the second needs an account: each attempt used up, each
  run that is bound to fail, and each straggler that may still move the file, has cost a failure
  of its own (`BudgetInv`). *Policy documents*: `NewestVersionIsServed`. At most one version is
  active and what was superseded has a newer one above it (`ServedInv`), what a run has read of
  its version still holds when it acts (`IndexRunInv`), and a version without a job has ended
  (`IndexJobInv`). `SearchGoesForward` is an action property from the same invariant: no step
  moves the search to an older version, reopens a version that was closed or gave way, or brings
  anything back after a deletion.
* **TicketServiceProofs.** *Assistant*: `NobodyIsTalkedOver` and `StoppedMeansSilent`, for any
  number of turns at once. What was answered is of a turn that is over (`AnsweredInv`), and the
  row says that the assistant is stopped as long as the history does (`StoppedInv`): the write's
  second look at the row is enough. *Automation*: `OneReplyForATrigger` and `RuleChainsEnd`, for
  any rules. An event that a rule caused is one link further than the event behind it, and that is
  not of the same rule (`DepthInv`, `RuleJobsInv`); the depth the code keeps is the numbering that
  `ChainsEnd` asks for. *SLA*: `AnnouncedOnce` and `RecomputesConverge`. Whoever read facts that
  are no longer the ticket's leaves an event, or an edit to be re-applied, behind him, but for
  a message moved since; a ticket that is done has no targets once its events are handled
  (`DoneInv`). What a recompute skips of the facts it read, the ticket's own facts and the policy
  then say too (`SkippedFor`), so that `Skipped` covers every row that was left as it was.

* **ServicesProofs.** `ServicesSpec` runs each component as its own module does: for each of the
  eleven, `ServicesSpec => X!Spec`, since a step of the run is a step of the component in focus
  and leaves the others alone. For the relay `RP` is `OutboxRelayProofs` under the run's names,
  and `SameRelay` compares the two instances action by action. Therefore what is proved of a
  component holds in the run: `ServicesKeepPromises` lists the safety properties of `services`,
  and `ServicesTyped` is its `ServicesTypeOK`. The types of most components are conjuncts of their
  invariants. Those that are not have lemmas of their own: what a lookup or a socket may hold
  (`SessionTyped`), where a notifier's runs and timers are (`ViewTyped`), that every job, record
  and reply of a rule is of a run whose id the queue was given (`RulesTyped`), and for the
  assistant (`AssistantTyped`) that the history does not grow beyond one entry past its bound:
  what the assistant would answer next it has answered (`LengthInv`).

Each of these invariants was checked by TLC on the instance of its run before it was proved.

Only model-checked: everything about liveness, which is beyond the prover (`EventuallyPublished`,
`EventuallySettled`, `EventuallySeen`, `SweptEventually`, `EventuallyFinal`, `BreachSaid`,
`OwedIsPaid`, `OverIsClosed`). Every safety property that a passing run checks is proved; the five
statements that a run refutes have their counterexamples there.

## 5. Where the repository says otherwise

* `sync_crash`: `kernel/outbox/relay.ts:48` says that a crash between commit and emit loses only
  the live emit, which the next `sync` replays. When another event of the stream arrives first,
  the cursor is past the lost one and it is not replayed.
* `sync_first`: `socket.ts:187` says that the seeded cursor makes the next reconnect replay only
  what came after the snapshot. What is emitted between the snapshot and the first join is lost,
  since the first connection of a page has no cursor and does not sync.
* `sync_snapshot`: `apps/web/src/data/conversation.ts:75` says that the snapshot is current up to
  `streamSeq`. The two are read by separate statements at READ COMMITTED.

In these three the next refetch of the thread shows the event; until then the page does not.

* `assistant_next`: `api/ai/assistant/ai-takeover.service.ts:35` says of a hand-back that the
  assistant "answers from the next customer message, never the old ones". A turn job that waited
  or was retried meanwhile answers the message from before the take-over.
* `digest_lost`: `api/notifications/channels/channel-scheduler.ts:23-25` says that a failing
  transaction costs at worst a count one too high. A failure between the counter's increment and
  the job leaves the burst, and what follows while the counter lives, without any digest.

Met while reading, and without a run: `specs/001-multi-tenant-helpdesk/data-model.md:461` says
that every transition writes `ticket.state_changed`, but the router's own transitions, the
sweeper's and a reply's append no such event; `data-model.md:455` says that leaving `resolved`
clears both timers, but `state-machine.ts` keeps `resolved_at` when a resolved ticket is closed.
Also:

* `api/attachments/scan.job.ts:22-26` says that a blocked file shows as blocked. An infected file
  is deleted before the commit; if that commit fails the retries find no file, use up their
  attempts, and it stays pending (the case `UsesUpAttempts` allows).
* `api/sla/sla-reapply.service.ts:21-22` leaves a failed re-application to the ticket's next event,
  but `sla-timers.ts:107-111` keeps a resolution target that is there, so that one does not follow
  (the case `Converged` leaves out of what it says of the resolution).
* `api/sla/sla-recompute.service.ts:45` says that events processed late or out of order converge on
  the same row. Two things keep the row off the facts with every event handled, until the next one:
  a moved message, which `api/sla/sla.consumer.ts:50-51` says is no trigger, leaves the
  next-response target of either ticket as it was; and business hours that a target cannot be
  computed on make `sla-recompute.service.ts:99-105` skip the ticket for good, the event handled
  and every target as it was, also those it could compute (`moved` and `Skipped` in `Converged`).
* `api/integrations/webhooks/webhook-sweep.job.ts:20-25` says that the sweep recovers attempts held
  while the tenant was suspended. Line 70 and `webhooks.repository.ts:263-275` delete those older
  than 30 days whatever their status, in the same transaction: after a longer suspension a pending
  attempt is deleted unsent, with its endpoint on (`Expired` in `EventuallyFinal`). The sweep
  queues it once, in vain, unless the job runs before the deletion commits; a batch limit may
  leave the row to the next sweep.
* `api/sla/sla-sweep.ts:93` announces a first-response breach from the row alone: when the SLA
  consumer lags, one may be announced although the reply came in time.
* A staff reply stops the assistant only when its event is handled, and then closes whatever draft
  is open, a newer one included (`StaffReplySeen`).
* `api/routing/automation/automation-run.job.ts:83` reads `hasRun` before the ticket's lock and
  line 101 does not look at what `recordRun` answers: when a job stalls, its actions may be applied
  twice. `RepliesOnce` holds because the message writer has a key of its own.
* `api/ai/knowledge/policy-index.job.ts:156` says that a version never stays "processing". It does
  when the mark fails with the last attempt, or the job is given up as stalled (`lost`).
* `api/views/counts-notifier.ts:27` says that a refetch can't cache the old counts again. A request
  that counted before the change and writes after the invalidation does, and the refetch is then
  answered from it, for up to 30 s (`stale`); and line 33 names a crash as what loses a trailing
  hint, where a failing `flush` (line 103) loses it too.

## 6. Not modelled, and the plan

Next, in this order:

1. the staff gateway: ticket rooms and group rooms against access changes, with the access version
   and the cached access of `api/authorization` (hazards at `gateway.ts:184` and `:156`);
2. lockout and invitations; linking of attachments; the offline reply email, whose marker has the
   digest counter's shape; routing by the assistant; spending limits of `ai_runs`.

Left out: request plumbing (HTTP, CSRF, pagination, rate limits, mail, encryption, logging),
repositories and row-level security, which are construction of SQL; administrative data (groups,
tags, macros, views, settings, search, dashboard, audit), single transactions whose rules are
database constraints; the compilation of conditions and the choice of a group for a new ticket,
which are functions of one row; the user interface, and the generated clients in
`apps/web/src/api/generated`, apart from the realtime client; model providers and prompts;
presence and typing, which are hints that expire; and tenancy's daily jobs. Most of the
repository's lines are of these kinds, so the share of lines the models stand for is small.
