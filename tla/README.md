# Verification of MeshCore Control Bridge

TLA+ models, TLC configurations and TLAPS proofs for the bridge in
`src/meshcore_control` (paths below are relative to that directory unless they
start with `docs/`, `meshcore-control-bridge/` or `CHANGELOG.md`).

## 1. The system

One asyncio process connects a MeshCore LoRa channel, reached through Home
Assistant, with one private Telegram chat. Texts are forwarded both ways;
commands (`!estado`, `!bridge`, ...) are executed and answered on the side they
came from. The process runs two long-lived tasks and, optionally, a third:

| task | started by | loop |
|---|---|---|
| bridge task | `main._run_services` | `BridgeService.run_forever` (`app.py`): `transport.receive`, `process_message` |
| polling task | `main._run_services` | `TelegramFoundationService.run` (`telegram/service.py`): `getUpdates`, `process_update`, persist the offset |
| health events | `HomeAssistantHealthEventPublisher.start` | waits for a change or a heartbeat, fires an event in Home Assistant |

When one of the first two ends with an exception, `_run_services` cancels the
others, closes the transport and re-raises: the process ends. The Supervisor or
compose (`restart: unless-stopped`) starts it again.

### Components

| component | state | operations | interacts with |
|---|---|---|---|
| Telegram polling (`telegram/service.py`) | position in the loop, backoff; rows `activated` and `last_update_id`, table `telegram_update_deduplication` | `initialize`, `poll_once`, `process_update`, `_process_command_update`, `_process_forward_update` | Bot API, telegram.db, router, transport, health |
| Forwarder mesh → Telegram (`telegram/service.py`) | rate limiter | `forward_normal_text`, `_consume_pending_echo` | called by `BridgeService`; Bot API; telegram.db |
| Pending records (`telegram/store.py`) | table `telegram_bridge_pending` | `create_bridge_record`, `consume_pending_echo` | both tasks |
| Bridge service (`app.py`) | closed flag | `process_message`, `run_forever`, `close` | transport, deduplicator, limiter, router, audit flow, forwarder |
| Deduplicator (`security/deduplication.py`) | table `deduplication_keys` | `seen_or_store` | audit.db |
| Rate limiter (`security/rate_limit.py`) | a deque of times per sender | `allow` | bridge service, both forwarding directions |
| Router and parser (`commands/`) | none; a registry | `handle`, `parse_command` | authorizer, plugins, audit flow |
| Authorization (`auth/`) | users and room policies | `allows_room`, `require_message` | router, bridge service |
| Audit flow (`storage/audit_flow.py`, `repositories.py`, `normalized_audit.py`) | audit trail per message, tables of audit.db | `message_received`, `command_parsed`, `command_authorization`, `command_execution`, `response_sent`, `response_failed`, `message_ignored` | audit.db |
| Write transactions (`storage/database.py`) | the transaction of a connection | `write_transaction`, `_write_savepoint` | every writer of audit.db and telegram.db |
| Health state (`bridge_health.py`) | states, counters, runtime overrides under a lock | setters, `snapshot`, `write_healthcheck`, `_after_change` | every component; healthcheck file; publisher |
| Health publisher (`homeassistant_health_events.py`) | changed event, critical flag, last fingerprint | `start`, `notify`, `run`, `publish_if_needed`, `stop` | health state, Home Assistant |
| WebSocket client (`adapters/homeassistant_ws.py`) | command ids, pending futures, event queue, reader task | `events`, `call_service`, `fire_event`, `_reader_loop` | Home Assistant |
| MeshCore transport (`transport/homeassistant_meshcore.py`) | event iterator, entry id | `receive`, `send`, `close` | WebSocket client, health |
| Token file, audit key, migration (`telegram/token.py`, `normalized_audit.py`, `telegram/database.py`) | files and tables | at start | file system, both databases |
| Lifecycle (`main.py`) | the tasks | `amain`, `_run_services` | everything |
| Configuration (`homeassistant_app.py`, `config.py`) | none; two loaders of one `AppConfig` | `load_homeassistant_app_config`, `load_config`, `_validate` | main, transport, authorizer |
| Plugins, REST client, diagnostics, adapters | none that outlives a call | | |

### What is hard

* The two tasks share `telegram_bridge_pending` and interleave at every await:
  an echo may be read between a send and the record of it.
* The process may be killed between any two commits: the update, its
  deduplication row, its effects and its offset are separate transactions and
  requests.
* Every request may be carried out and still fail for the caller.
* SQLite locks surface as exceptions in some callers and are swallowed in
  others.
* Rows expire while the events they guard against are still possible.
* The health changes while its publisher sleeps or waits for Home Assistant, and
  an event that failed may still be fired.
* A connection drops with events on the wire, in the queue and in the reader's
  hand, and a request's answer may come late or never.
* A start may meet what a killed one left in `/data`, or a second process.

### What makes it correct

* Polling: every update is handled or knowingly given up, in order; the offset
  never overtakes or moves back; a redelivery is not handled twice within the
  window; nothing is redelivered for ever.
* Forwarding: no echo returns to Telegram, and no message of a user is taken
  for an echo unless a forward of the same text pays for it.
* Rate limiter: never more than the limit in any window, never a denial below it.
* Write transactions: atomic calls, an outcome the caller can rely on, no
  transaction left open, an end to every call.
* Commands: repeats run only a window apart, nothing runs or is answered that
  was not let through, the audit log tells what ran and what was answered, in
  causal order, and the override in force is one it explains.
* Health: no change is forgotten; at rest the healthcheck file and Home Assistant
  tell the health of the bridge; in the end they do, whatever failed.
* Event stream: what has been read is delivered once and in order, or given up
  with its connection; a loss is followed by a new subscription or by the end of
  the process; every request ends.
* Configuration: what runs passes every rule; who may run commands is who is
  listed; the two loaders mean the same.
* Start and end: one audit key, a whole token, no state taken back; every start
  serves or ends; a failed task ends the process and leaves nothing running.

## 2. Modules

| module | models | state ↔ code |
|---|---|---|
| `TelegramPolling` | the polling task, its rows in telegram.db, the Bot API queue (external), kills and restarts | `pc` is the point of `run`/`poll_once`/`process_update` the task is at (one value per await or commit); `current`, `batchEnd` the loop over `updates`; `activated`, `lastUpdateId`, `dedup` the rows; `kinds`, `forgotten` the Bot API; `handledAt`, `lost`, `settled` history |
| `UpdateDelivery` | what polling promises: numbered updates handled in order, apart, or given up, then retired | abstract |
| `EchoBridge` | `_process_forward_update`, `forward_normal_text`, `telegram_bridge_pending`, Home Assistant and the mesh (external) | `tg`, `mc` where the two tasks are; `status`, `expiresAt` the row of each forward; `asked`, `onAir`, `reported`, `heard` the mesh; `read` the position of `receive` |
| `CommandFlow` | `process_message`, the deduplicator, `CommandRouter.handle`, `!bridge` overrides, the answer, the audit trail, cancellation and restarts | `at` where each of the two tasks is with its message, `running` who has the thread; `cur`, `trail`, `result` the local variables; `expiresAt`, `legacyUntil` the rows of `deduplication_keys` under the present and the former keys; `events`, `commands` the audit tables; `override` one runtime override; `acceptedAt`, `ran`, `sent`, `lost`, `boot` history |
| `RateLimiter` | `RateLimiter.allow` | the deque of `s` is `allowed[s]` from index `first[s]` on |
| `WriteTransaction` | `write_transaction`, `_write_savepoint`, `_rollback_quietly` | `pc`, `attempt` per connection, `nested` where `connection.in_transaction` made the call a nested one; `holder`, `foreign`, `staged`, `saved`, `stored` SQLite (external); `spoiled` history: the calls in which a rollback failed or that met its transaction |
| `AtomicWrites` | what `write_transaction` promises: a call takes effect in one step, once and for ever, or not at all, and its caller is told which; of a spoiled call only that its rows appear in one step and stay | abstract |
| `HealthEvents` | `BridgeHealthState`, the healthcheck file, `HomeAssistantHealthEventPublisher`, Home Assistant's template sensors (external) | `health` the state, `file` what the file tells; `pc` where `run` is; `marks` the scheduled `_mark_changed` calls; `changed`, `critical`, `due` the event, the flag and the timer; `sent`, `published` fingerprints; `shown`, `late` Home Assistant; `disturbed`, `fileBehind` history |
| `HaEventStream` | `HomeAssistantWebSocketClient`, `receive` of the MeshCore transport, Home Assistant and the network (external) | `pc` where `receive` and `events()` are; `link`, `request`, `wire` the connection; `reader`, `held`, `queue`, `future` the reader task; `command` the one-off requests, each with its own connection; `got`, `taken`, `staleIdles` history |
| `EventFeed` | what `events()` promises: while subscribed every event joins a feed and leaves it in order; a break may take the newest ones | abstract |
| `Configuration` | the two loaders, `_validate`, `_authorized_users`, `_room_policies`, the sender ids of the transport | `form`, `env` the saved options and the environment; `running` what each loader made of them |
| `Startup` | the files in `/data`, `amain`, `_run_services` | `keyFile`, `tokenFile`, `tmp`, `rows` the files and the migrated tables; per pid `pc`, `memory` (local variables), `tasks` |
| `*Proofs` | theorems about the module of that name | |
| `MC_*` | constants and symmetry for TLC | |

How the actions of `TelegramPolling` follow the code: `Start`,
`DropPendingUpdates`, `MarkActivated` are `run` and `initialize`; `Poll`,
`ReceiveUpdates` are `get_updates`; `AcceptUpdate`, `DuplicateUpdate`,
`DedupFails` are `_seen_or_store_update`; `IgnoreUpdate`, `HandleCommand`,
`Reply`, `ForwardText`, `Confirm` are the branches of `process_update`, each
split where the code awaits Telegram; `PersistOffset`, `PersistFails` are the
end of the loop of `poll_once`. The `*Fails` and `*Aborts` actions tell apart
the exceptions that are caught where they occur, those `run` retries after a
pause, and those nobody catches, which end the process (`Stop`). Between two
commits of telegram.db nothing durable changes, so a `Kill` at each value of
`pc` covers a kill at each line.

In `EchoBridge` a send is one `AskToSend` and one answer (`SendAccepted`,
`SendAcceptedUnrecorded`, `SendFailed`); the mesh may transmit between them,
after them, or never, and may report the transmission at any time while the
subscription is up, marked as outgoing or not. The reading of an event and the
lookup of its echo have no await between them and are one step. A text is a
model value with its normal form. Equal texts have equal sizes, so the
`size_bytes` column is left out.

`CommandFlow` has one action per commit to audit.db, since the process may be
killed between any two, but a task keeps the thread (`GoesOn`) until the code
awaits: a handler, a forward, a send, the next message (`Awaits`, `Resumes`). So
two messages interleave where the code lets them, and nowhere else; a write that
fails is a disjunct of the action that writes. What it leaves out: Telegram is
enabled, so there is a forwarder, and `main.py` always passes an audit flow, with
the normalized audit enabled (the legacy-only branch is not modelled); the three
override targets are independent, so there is one, and `!bridge reset`, which
logs an event per target, logs one; the rate limiter's verdict is a choice;
a handler that only reads is `"query"`, whether it awaits Home Assistant or not;
a text for `_process_command_update` is always a command, for `_safe_command_text`
makes `!unknown` of a name it does not know; health counters belong to
`HealthEvents`. A text is what it parses to, an identity what the deduplicator
hashes. The events of forwarded texts have their
own chain and are not in `events`.

`WriteTransaction` runs, in each call, an operation of the shape the tests use:
a row, a nested call with two rows, a row. A failing statement raises a lock
error or another one, and the operation may swallow an error of the nested call.
A rollback is a statement too: `RollbackQuietly` and `InnerFails` may fail on top
of the first error, which the code swallows (`storage/database.py:278-282`,
`:316-320`). Then the transaction stays open, or SQLite has given it up. A retry
meets it at `BEGIN IMMEDIATE` (`BeginWithin`); the next call finds
`connection.in_transaction`, takes itself for a nested one (`Call`, `Release`) and
commits nothing; without a transaction the rest of an operation runs in autocommit
mode (`WriteAlone`). Such calls are `spoiled`; the properties say what holds of
all others, that nothing else spoils a call, and that calls are as good as before
once the transaction is closed (`Restart`).

In `HealthEvents` a setter is one step (`CallSetter`, all of them through
`Change`): it has no await, so that only the order of its three effects matters,
and the write of the file may fail. `RunMarks` is `_mark_changed`, which
`call_soon_threadsafe` puts off to a later turn of the loop. `Wake`,
`CoalesceOver`, `HeartbeatDue` and `Heartbeat` are the branches of `run`;
`Publish` is `publish_if_needed` up to its await, `Published` and `PublishFails`
the rest. The event of a failed publication may be fired later (`DeliverLate`).
`Stop`, `Cancelled`, `Close` and `Kill` end the process. A health record has one
field per thing that is told: uptime and activity times, which no fingerprint
has or which move with a counter, are left out, and `failure` stands for the
last failure with its reason and counters.

In `HaEventStream` the reader (`Read`, `PutHeld`, `ReaderFails`) and the
generator (`Connect` ... `Subscribed`, `Turn`, `Get`, `IdleTimeout`) are two
tasks over one queue; the bridge's calls of `receive` drive the second. An event
is its number, of one of three kinds. The frames of a dropped connection that
have arrived can still be read; those behind them are lost. `Commanding` is
`_simple_command` with every way it can end.

In `Configuration` a form is a function from paths to raw values, as JSON or
YAML give them; a loader is a predicate (what it accepts) and a function (the
`AppConfig` it makes). A text keeps only what a rule asks of it: its letters in
lower case, case, blanks at the ends, scope, control characters and length. So
`str()`, `int()`, `bool()`, `strip()` and `lower()` do to a value what Python
does to one of its kind.

In `Startup` one action is one change of a file in `/data`, with `Kill` and
`StartFails` between any two; a slot is a pid, two slots are two processes on
one `/data`. `Notice` is `asyncio.wait` with FIRST_EXCEPTION, `Gathered` the
`gather` after it, then the `finally` clause in its order. `Interrupt` is SIGINT
at whichever await `main` is at.

## 3. Runs

| run | shows | bounds |
|---|---|---|
| `polling` | `OffsetCoversResolved`; `InOrder`; `OffsetNeverMovesBack`; `HandledApart`; `DeliverySpec` (refinement of `UpdateDelivery`); `EventuallyConfirmed` | 3 updates, batches of 2, window 2, time 3, 2 faults: a batch that is cut short, a second one, an update behind both, rows that expire while their update is unconfirmed, a failed write and a kill |
| `skipped` | counterexample, see section 6 | 2 updates, 1 fault |
| `echo` | `OneMessagePerForward`; `TakenInWindow`; `RecordedEchoBlocked` | 2 forwards, 3 messages, time 4, window 2, 1 fault: two equal texts, their echoes and a user's message in between, rows expiring before and after |
| `race`, `spaced` | counterexamples | no fault at all |
| `commands` | `RunsApart`; `DropsOnlyRepeats`; `OnlyAccepted`; `AuditTellsRuns`; `CausalChain`; `ResponsesTold`; `OverrideExplained`; `EveryMessageEnds` | 2 messages of 13 kinds, window 1, time 3, 1 fault: a repeat inside and after the window, next to a row of an earlier version; both tasks at once; a lost event in either chain; a kill or a cancellation in any step of a command |
| `limiter` | `RateBound`; `DeniedWithReason` | 2 senders, limit 2, window 2, 4 requests, time 6: the window slides over each sender's requests twice |
| `transaction` | `AtomicCalls`; `NoTransactionLeftOpen`; `WritesSpec` (refinement of `AtomicWrites`); `EveryCallEnds` | 2 connections, 2 calls, 2 retries, 3 faults: a failed statement, its failed rollback, and one more in the retry or in the next call; a connection left in a transaction beside another writer; rows that are lost with it, or stored without it |
| `health` | `NothingForgotten`; `CopiesAgree`; `EventuallyShown` | 2 changes, 1 fault: a change during a pause or a publication, another that takes it back; a failed publication whose event is fired over a newer one, a skipped write of the file, a restart of Home Assistant, a kill. One override, one database and one counter: the setters do the same to each |
| `stream` | `OneStaleIdle`; `FeedSpec` (refinement of `EventFeed`); `QueuedIsTaken`; `Resumes`; `EveryCommandEnds` | 3 events and a queue of 1: one in the queue, one in the reader's hand, one behind; the request for the entries, before the stream starts; 2 faults on either connection |
| `config` | `RunningIsValid`; `AccessAsListed`; `LoadersAgree` | the shipped options or options with a sender, two settings saved out of 112, over 31 paths (each parser's kinds, bounds and neighbours), 3 environments, both loaders |
| `startup` | `OneKey`; `TokenWhole`; `EndsClean`; `StateKept`; `StartEnds`; `FailureEnds` | 2 pids, 2 starts, 2 tokens, 1 fault: two processes at once, or a second start after a kill, an I/O error, a failed task or SIGINT at any step. A second fault exceeds the time of a run; the theorems hold for any number |

No run checks a type invariant: for every module with proofs it is the theorem
`TypeCorrect`. `NothingLostInside` of
`HaEventStream`, the part of the way from the socket to `receive`, is
inside what `FeedSpec` covers end to end; it is a theorem (`EventsKept`).

Three runs check a refinement. `DeliverySpec` hides the storage and the faults of
polling. `WritesSpec` hides locks, attempts, savepoints and rollbacks: what is
left of a writer is whether it is in a call (`busy`), what is stored and what its
caller was told. `FeedSpec` hides the connection: the pending events of the feed
are those in the queue, then the one in the reader's hand, then those on the
wire, without the subscription's result that precedes them (`AfterResult`).

Deadlock is checked in the runs of `TelegramPolling`, `HealthEvents` and
`Configuration`, whose services always have a step. `EchoBridge`, `CommandFlow`,
`RateLimiter`, `WriteTransaction` and `HaEventStream` stop when the bounds
withhold further input or the process has ended, `Startup` when its processes
have; their configurations say so. Symmetry is used for the senders of
`limiter`, a safety run.

Each module holds, next to the definitions they change, the mutants its
properties are known to detect: a dropped reset, an off-by-one, a forgotten
rollback, a row that is not marked, a flag cleared too late, a reader that ends
quietly. No specification uses them.

### Fairness

`TelegramPolling!FairSpec` asks for weak fairness of the service as a whole: the
event loop runs the task, every await returns (all requests have timeouts), and
a process that has ended is started again, by the Supervisor or compose. Nothing
is asked of users, of the clock or of faults; faults are finite by `MaxFaults`,
which stands for "eventually no fault for long enough".
`CommandFlow!FairSpec` asks for strong fairness of each task's steps: the event
loop resumes every task that is ready in turn (a task is often not ready, because
the other has the thread, hence strong), and handlers, forwards and sends have
timeouts. It asks that `_run_services` carries out a shutdown it has begun, and
not that messages arrive or that a process is started again.
`HealthEvents!FairSpec` asks for weak fairness of the publisher's steps: the loop
runs what is scheduled, timers fire, and Home Assistant handles what it is sent
and answers. It does not ask that publications succeed (failures are finite by
`MaxFaults`), that anything changes or that a process is started.
`HaEventStream!FairSpec` asks for weak fairness of the reader, of the steps of
`events()` and `receive`, and of each request: tasks and timers run, and Home
Assistant accepts a subscription. It need not answer a request; then
`CommandTimesOut` does. It asks for no event.
`Startup!FairSpec` asks for weak fairness of the steps of each process: its code
goes on. It asks for no start, failure or kill, and not that `asyncio.wait`
returns while nothing has failed.
`Configuration` has no liveness: a loader is one step.
`WriteTransaction!FairSpec` asks for weak fairness of each writer's steps, and of
nothing else: the file may stay locked by somebody else for ever.

## 4. Proofs

Every theorem is proved for all values of the constants under the named
assumption of its module (`BoundsAssumption`, `ParametersAssumption`,
`LimitsAssumption`, `WritersAssumption`: numbers are natural, windows, batches and
queues not empty where the code has them so; `NothingAssumption` of `HealthEvents`
and the last part of `BoundsAssumption` of `Startup`: "nothing" is no event, token
or key). `FormsAssumption` of `Configuration` says what a file can hold: it is a
tree, as JSON and YAML are (nothing lies below a path that has a value); the two
command prefixes are texts (`str(1,4)` in the App's schema,
`meshcore-control-bridge/config.yaml:78` and `:137`; empty ones are allowed here,
as the schema is not part of the loaders); and what `str()` makes of a
`pubkey_prefix` is a text. It asks nothing of any other value.

* `TelegramPollingProofs`: `TypeCorrect`, `OffsetCorrect`, `OrderCorrect`,
  `WindowCorrect`, `OffsetMonotone`, `Implementation`. `InOrder` and
  `OffsetCoversResolved` are not inductive: that nobody is overtaken depends on
  the queue. The invariant adds that a deduplication row expires exactly a window
  after its update was handled (`DedupInv`), that everything before the update
  at hand is resolved and the cursor is ahead of the stored offset
  (`CursorInv`), that what Telegram forgot is resolved (`ResolvedInv`), and that
  nothing is handled before activation (`ActivationInv`). From it each step maps
  to a step of `UpdateDelivery` or to a stutter.
* `EchoBridgeProofs`: `TypeCorrect`, `EchoesPaidFor`, `TakenInTime`,
  `EchoStopped`. The invariant ties a row's status and expiry to the time its
  acceptance was recorded and to the message that used it (`RowInv`), says that a
  forward under way has no record yet (`SendingInv`), that messages are used only
  once read (`ReadInv`), and that an echo carries its forward's text
  (`OriginInv`).
* `CommandFlowProofs`: `TypeCorrect`, `RepeatsApart`, `DropsJustified`,
  `NothingUnaccepted`, `ChainKept`, `ResponsesTrue`, `AuditTrue`, `OverrideTrue`. The type
  invariant includes `AtMessage` (a task in the middle of something has a message
  of its own whose word leads there), without which the record of an event is not
  typed. `RunsApart` needs `RowsKept`: the row of every accepted message is there
  until its window is over, and the message now before the deduplicator is
  younger than every accepted one. `DropsOnlyRepeats`, its converse, says that a
  message is dropped only for a row of an earlier version or for an equal message,
  a window ago at most, that was served: it ran, was refused by the limiter, had
  nothing to run, or its process was killed. It needs that a row is always that of
  an accepted message (`Rows`) and that an accepted one was served unless the mesh
  task is just deciding on it (`Served`). `OnlyAccepted` needs `Admission`: the message
  past the deduplicator was let through. The lemma `QuietSteps` says once for all
  actions but `Receive` and `Accept` that they leave these facts alone.

  The four audit theorems are about what the log says after any interleaving of
  the two tasks, lost events, cancellations and kills. Their actions are first
  sorted by what they do to the log and to a task (`Silent`, `Writes`, `Calls`,
  `StageMoves`, `SwitchMoves`, `Forgets`; the lemma `StepKinds`), so that each
  invariant is shown for a handful of kinds and not for every action.
  - `Trails` says that what a task remembers of the log is true: the latest event
    and the `message.received` of its message, or none where the log has none.
    With it `CausalChain` is proved in its constructive form (`Chained`: the cause
    of an event is the latest before it of its message).
  - `Stages` says of a task at each step of a command what has happened and what
    cannot have: a handler is only running for a message that counts as run,
    after it the message has run exactly where its result is no refusal, the
    execution is not logged before its step, no response is logged while the task
    still has the message, and what it calls answered was sent. `ResponsesTold`
    and `AuditTellsRuns` are inductive together with it.
  - `Switched` says that between the change of the override and its record the
    task keeps the thread, the sender is an admin and the override is the one its
    word asks for. `OverrideExplained` is not inductive without it, for the switch
    and its record are two steps.
* `RateLimiterProofs`: `TypeCorrect`, `RateBounded`, `DenialsJustified`. The times
  of a sender never decrease (`Chronological`) and what was popped had expired
  (`PoppedExpired`).
* `WriteTransactionProofs`: `TypeCorrect`, `CallsAreAtomic`, `TransactionsEnd`, for
  any number of failed statements and rollbacks. The invariant says what a call
  that is not spoiled holds and has staged at each of its points (`SoundInv`), what
  is stored and reported of each call (`CallInv`), and how far a spoiled one may
  have strayed (`SpoiltInv`). `WritesImplemented`: with this
  invariant every step maps to one of `AtomicWrites` or to a stutter. `Commit` is
  the step that takes effect, for what is staged then is the call's rows, with or
  without those of its nested call, and nothing of the call is stored yet
  (`CommitImplements`); an attempt that fails is hidden while it is retried and
  the end of the call when it is not (`AttemptImplements`).

* `HealthEventsProofs`: `TypeCorrect`, `ChangesAnnounced`, `CopiesCorrect`.
  `NothingForgotten` needs the same of a publication under way: what differs from
  the event that is sent is announced (`Announced`). `CopiesAgree` is the harder
  one, for a publication is skipped when its fingerprint was *acknowledged*
  before, while other events, unacknowledged ones, may have been fired since.
  The argument: every attempt that fails counts a failure in the health, so that
  the fingerprints acknowledged before it never recur (`FailuresGrow`), and what
  is acknowledged and still current is shown (`Acknowledged`). `FileFollows` says
  the same of the file.
* `HaEventStreamProofs`: `TypeCorrect`, `EventsKept`, `StaleIdleOnce`. The first
  needs that a running reader has nothing in hand and that no reader outlives
  its connection (`HandShape`), and that what is on the wire, queued or held is a
  number of an event that was fired (`EventsKnown`); the sequence lemmas
  `MoveHead` and `AppendLast` move an event from one place to the next. The
  second is `IdleShape`: after a stale idle timeout the generator is at the turn
  that sees the failure. `FeedImplemented`: the connections of `events()`
  implement `EventFeed`. It needs one more invariant, `FramesShape`: a connection
  that is not subscribed yet has brought nothing, so that a feed starts empty, and
  only the first frame of one that is may be a result, so that reading it hides
  nothing. `FeedStep` is shown action by action: a read, a put and a result leave
  the pending events as they are (`ReadFeeds`, `PutFeeds`), `Take` delivers the
  first of them, a drop is a prefix of them (`ResultCut`, `CutOfConcat`), and a
  pause that is over starts a new feed.
* `StartupProofs`: `TypeCorrect`, `KeyShared`, `TokenCorrect`, `EndsCorrect`,
  `StateNeverTakenBack`, for any number of pids and starts. `TokenSteps` says what
  a process has read and written at each step of its start (a temporary file that
  is about to replace the token holds the import of its own process, since no
  other has its name), `TaskSteps` which tasks may run at each step of its end.
* `StartupProofs` also holds the theorems about `Configuration`, which `main.py`
  loads first (hence the names `ConfInit`, `ConfNext` and `ConfSpec`): `RunsValid`,
  `AccessTrue`, `LoadersTrue`, for any options, environments and event prefixes.
  The invariant `ConfIInv` keeps the file a tree while options are saved
  (`FormWhole`), and ties each running loader to what it read. `RunsValid` rests
  on `AppValid`: the App's own checks entail every rule of `_validate`, the
  delicate case being a section that is null or empty, whose readers see defaults
  only because a tree has nothing below it (`NothingBelow`). `AccessTrue` rests on
  `ListedUsers`: two entries whose prefixes differ in case, blanks or scope are one
  key of the dictionary, and its value is the last entry's. `LoadersTrue` goes
  through the fields; the command prefixes agree only because the standalone
  loader refuses an empty one (`SamePrefix`).

The leaves of the proofs are small: each is proved in a fifth of the time the
provers are given (`tlapm --stretch 0.2`), so that the proofs do not depend on a
fast or an idle machine.

Every invariant, action property and refinement that a passing run checks is
stated by a theorem. Only model-checked: the liveness properties (`EventuallyConfirmed`,
`EveryCallEnds`, `EveryMessageEnds`, `EventuallyShown`, `QueuedIsTaken`, `Resumes`,
`EveryCommandEnds`, `StartEnds`, `FailureEnds`), which rest on fairness and are
outside the proof system's reach; and the counterexamples.

## 5. Plan

Done, in this order: polling, echo prevention, rate limiter, write transactions,
commands, health events, event stream, configuration, start and end, and the
proofs of their safety properties and of the three refinements. Next:

1. Truncation to a byte limit (`telegram/service.py`, `app.py`) as functions over
   sequences of character widths, against a reference definition.
2. The building of normalized audit events (`normalized_audit.py`): which fields
   an outcome requires.
3. Composition: `EchoBridge` with `TelegramPolling`, so that a redelivered update
   is forwarded again.
4. A clock that steps back.

## 6. Where documents and code disagree

Shown by runs:

* `skipped`: `docs/telegram-meshcore-bridge.md:694`, "Offset persists only after
  an update is processed or intentionally ignored." The deduplication row is
  committed first; after a kill the redelivered update is a duplicate, and its
  offset is stored.
* `race`: `docs/telegram-meshcore-bridge.md:676`, "Real bridge echo is blocked and
  consumes one pending bridge record." The record is created when the send call
  returns, and the echo may be faster.
* `spaced`: `meshcore-control-bridge/DOCS.md:762-765`: a forwarded text observed
  back "consumes that pending record". The record holds the rendered text, the
  lookup the squeezed one: a prefix with two spaces in a row, which the
  configuration accepts, makes them differ for ever.

Met while modelling, and part of the models' behaviour, without a run of their
own:

* `docs/telegram-meshcore-bridge.md:695`, "Crash before offset persistence is made
  safe by deduplication": a deduplication row lives for an hour, an unconfirmed
  update for longer. `HandledApart` claims the window only.
* `CHANGELOG.md:391`, "Prevent `database is locked` errors from crashing the Home
  Assistant App": the audit of a command's response is not guarded in the polling
  task (`HandleCommand` and `Reply` of `TelegramPolling` may end the process).
* `meshcore-control-bridge/DOCS.md:349-351`, "audit database failures do not stop
  MeshCore or Telegram forwarding": the audit events are guarded, the
  deduplication key in the same database is not; its failure ends the bridge task
  and the process (`CommandFlow`).
* `adapters/homeassistant_ws.py:125` logs "disconnected; reconnecting", but
  `websockets.connect` is outside the handler: a refused connection ends the
  bridge task and the process (`ConnectFails` of `HaEventStream`, excepted by
  `Resumes`). So does an event whose `channel_idx` is not a number.
* Events that were queued when the reader fails are dropped with its connection
  (`QueuedIsTaken` excepts them): a turn looks at the reader before the queue.
* `on_idle` may mark the bridge as connected after its reader has failed, once
  (`OneStaleIdle`).
* The publisher has no pause after a failed publication: the failure is a
  critical change, which is published at once (`PublishFails`).
* `meshcore-control-bridge/DOCS.md:286-287`, "the App will not execute commands
  until you configure at least one sender": the shipped options turn
  `allow_unidentified_readonly_testing` on (`meshcore-control-bridge/config.yaml:74`),
  and then events without a prefix run readonly commands. `AccessAsListed` counts
  that as listed.
* The two loaders differ where `LoadersAgree` excepts them: the default of
  `message_prefix` ("TG: " or none), an empty `bot_token_file`, the key `commands`
  of a forwarding limit. They also accept different files: the App's takes floats
  and booleans as integers and an unset section (null or an empty text) as its
  defaults; `config.py` takes user
  ids as they are written, so that an upper-case prefix never matches a sender.
  Both read the text "false" of a file as true
  where they do not insist on a boolean.
* `docs/telegram-meshcore-bridge.md:691`, "No SQLite transaction remains open across
  an awaited network call": so it is while rollbacks succeed
  (`NoTransactionLeftOpen` excepts the calls in which one failed). One that fails
  is swallowed (`storage/database.py:278-282`, `:316-320`), and from then on the
  calls of that connection return although nothing is committed, and all other
  writers are locked out, until the process starts again.
* An accepted forward whose record cannot be written stays without one
  (`SendAcceptedUnrecorded`): its echo is forwarded back. `RecordedEchoBlocked`
  claims recorded forwards only.
* Nothing compares `telegram.meshcore_channel_index` with `channel_index`.
* A temporary token file left by a kill makes the next import with the same pid
  fail, until the file is removed or the import is dropped (`CreateTemporary`).
* SIGTERM has no handler: a stopped container is a killed process.

## 7. What is not modelled

* Message contents beyond equality and normal form, hashes (taken to be
  injective), logging and response texts.
* Rendering and truncation of texts (`telegram/service.py`, `app.py`): the models
  use sets of texts; see the plan.
* The content rules of normalized audit events (`normalized_audit.py`): data
  validation without state. Their insertion is in `CommandFlow`.
* The wall clock only moves forward. So the hazard of a clock that steps
  (`telegram/store.py:74`) has no property.
* Commands from Telegram are not rate limited (`telegram/service.py:575`): there is
  no promise to check. The retry pauses of `write_transaction`
  (`storage/database.py:267`) block the event loop: time spent is not modelled,
  only that the call ends.
* The plugins for home and network and the REST client: one request and a text,
  no state.
* File permissions and the format of a token.
* `commands/confirmation.py`, which nothing calls; `adapters/mqtt.py`,
  `adapters/servers/*`, `transport/meshcore.py`: placeholders.
* Diagnostics, logging, packaging, scripts.
