--------------------------- MODULE TelegramPolling ---------------------------
(***************************************************************************)
(* Long polling of the Telegram Bot API: TelegramFoundationService.run,    *)
(* initialize, poll_once and process_update (telegram/service.py), the     *)
(* rows of telegram.db they depend on (telegram/store.py) and the queue of *)
(* unconfirmed updates that the Bot API keeps (external, modelled from how *)
(* telegram/client.py uses it).                                            *)
(*                                                                         *)
(* The polling task awaits the network at several points; the process may  *)
(* be killed between any two commits, and it ends by itself on every       *)
(* exception that run() does not catch.  telegram.db survives.             *)
(***************************************************************************)
EXTENDS Naturals, Sequences, FiniteSets

CONSTANTS MaxUpdates,  \* bound: how many updates users ever send
          BatchLimit,  \* most updates in one getUpdates answer (100)
          Window,      \* TELEGRAM_UPDATE_DEDUP_WINDOW_SECONDS
          MaxTime,     \* bound: last value of the clock
          MaxFaults    \* bound: kills, failed requests and failed writes

ASSUME BoundsAssumption ==
  /\ MaxUpdates \in Nat
  /\ BatchLimit \in Nat \ {0}
  /\ Window \in Nat \ {0}
  /\ MaxTime \in Nat
  /\ MaxFaults \in Nat

VARIABLES
  kinds,        \* the updates sent so far, in order: what each one is
  forgotten,    \* Bot API: updates 1..forgotten are confirmed or dropped
  activated,    \* telegram_state "activated"
  lastUpdateId, \* telegram_state "last_update_id", 0 for no row
  dedup,        \* telegram_update_deduplication: expires_at, 0 for no row
  pc,           \* where the polling task is
  current,      \* the update process_update is given
  batchEnd,     \* the last update of the batch getUpdates returned
  stopReason,   \* what ended the process that is down
  now,          \* the wall clock
  faults,       \* faults so far
  handledAt,    \* history: when each update last passed deduplication, 0 never
  lost,         \* history: updates dropped without being handled
  settled       \* history: updates whose process_update returned a decision
                \* other than "duplicate"

server  == <<kinds, forgotten>>
stored  == <<activated, lastUpdateId, dedup>>
task    == <<pc, current, batchEnd, stopReason>>
history == <<handledAt, lost, settled>>
vars    == <<server, stored, task, now, faults, history>>

Updates == 1..MaxUpdates
arrived == Len(kinds)

(* How an update leaves _classify: a command, a text to forward, or one of  *)
(* the reasons that end in telegram.update.ignored (edited, unauthorized,   *)
(* unsupported or empty).                                                   *)
Kinds == {"command", "text", "ignored"}

Resolved(u) == handledAt[u] # 0 \/ u \in lost

Init ==
  /\ kinds = <<>>
  /\ forgotten = 0
  /\ activated = FALSE
  /\ lastUpdateId = 0
  /\ dedup = [u \in Updates |-> 0]
  /\ pc = "down"
  /\ current = 0
  /\ batchEnd = 0
  /\ stopReason = "none"
  /\ now = 1
  /\ faults = 0
  /\ handledAt = [u \in Updates |-> 0]
  /\ lost = {}
  /\ settled = {}

-----------------------------------------------------------------------------
(* The environment: users, the clock, faults. *)

Send(k) ==
  /\ arrived < MaxUpdates
  /\ kinds' = Append(kinds, k)
  /\ UNCHANGED <<forgotten, stored, task, now, faults, history>>

Tick ==
  /\ now < MaxTime
  /\ now' = now + 1
  /\ UNCHANGED <<server, stored, task, faults, history>>

Fault ==
  /\ faults < MaxFaults
  /\ faults' = faults + 1

(* The polling task is gone, and with it what it had in memory: main ends   *)
(* the whole process when one of its services ends with an exception.       *)
Stop(reason) ==
  /\ pc' = "down"
  /\ current' = 0
  /\ batchEnd' = 0
  /\ stopReason' = reason

(* The process is killed, or its tasks are cancelled, at any point. *)
Kill ==
  /\ pc # "down"
  /\ Fault
  /\ Stop("killed")
  /\ UNCHANGED <<server, stored, now, history>>

-----------------------------------------------------------------------------
(* run and initialize *)

Goto(label) ==
  /\ pc' = label
  /\ UNCHANGED <<current, batchEnd, stopReason>>

(* Mutant of Start: the activation row is not consulted. *)
StartDropsAgain ==
  /\ pc = "down"
  /\ pc' = "dropping"
  /\ stopReason' = "none"
  /\ UNCHANGED <<server, stored, current, batchEnd, now, faults, history>>

(* A new process: initialize looks at the activation row first. *)
Start ==
  /\ pc = "down"
  /\ pc' = IF activated THEN "idle" ELSE "dropping"
  /\ stopReason' = "none"
  /\ UNCHANGED <<server, stored, current, batchEnd, now, faults, history>>

DropBacklog ==
  /\ forgotten' = arrived
  /\ lost' = lost \union (forgotten + 1)..arrived
  /\ UNCHANGED <<kinds, handledAt, settled>>

(* deleteWebhook(drop_pending_updates=True) is answered. *)
DropPendingUpdates ==
  /\ pc = "dropping"
  /\ DropBacklog
  /\ Goto("marking")
  /\ UNCHANGED <<stored, now, faults>>

(* It fails, before or after the Bot API acted on it: initialize is outside *)
(* run's try, so the exception ends the process.                            *)
DropPendingFails ==
  /\ pc = "dropping"
  /\ Fault
  /\ DropBacklog \/ UNCHANGED <<server, history>>
  /\ Stop("api")
  /\ UNCHANGED <<stored, now>>

MarkActivated ==
  /\ pc = "marking"
  /\ activated' = TRUE
  /\ Goto("idle")
  /\ UNCHANGED <<server, lastUpdateId, dedup, now, faults, history>>

(* The write still meets a lock after its retries, and run does not catch   *)
(* sqlite3 errors.                                                          *)
MarkActivatedFails ==
  /\ pc = "marking"
  /\ Fault
  /\ Stop("locked")
  /\ UNCHANGED <<server, stored, now, history>>

-----------------------------------------------------------------------------
(* poll_once: the request *)

(* Mutants of Offset: one update is skipped; none is ever sent. *)
OffsetSkipsOne == IF lastUpdateId = 0 THEN 0 ELSE lastUpdateId + 2
OffsetNeverSent == 0

(* The offset of getUpdates.  Without a row no offset is sent, and 0 stands *)
(* for that: it confirms nothing.                                           *)
Offset == IF lastUpdateId = 0 THEN 0 ELSE lastUpdateId + 1

(* The Bot API forgets every update below the offset of a request. *)
ConfirmedBy(offset) == IF offset > forgotten + 1 THEN offset - 1 ELSE forgotten

Poll ==
  /\ pc = "idle"
  /\ Goto("polling")
  /\ UNCHANGED <<server, stored, now, faults, history>>

(* Reading last_update_id raises: not caught by run. *)
PollReadFails ==
  /\ pc = "idle"
  /\ Fault
  /\ Stop("unreadable")
  /\ UNCHANGED <<server, stored, now, history>>

(* The answer of getUpdates: the unconfirmed updates, oldest first; none    *)
(* after a long poll with nothing to report.                                *)
ReceiveUpdates ==
  /\ pc = "polling"
  /\ LET confirmed == ConfirmedBy(Offset)
         last == IF arrived > confirmed + BatchLimit
                 THEN confirmed + BatchLimit ELSE arrived
     IN /\ forgotten' = confirmed
        /\ \/ /\ last > confirmed
              /\ pc' = "update"
              /\ current' = confirmed + 1
              /\ batchEnd' = last
              /\ UNCHANGED stopReason
           \/ /\ last = confirmed
              /\ Goto("idle")
  /\ UNCHANGED <<kinds, stored, now, faults, history>>

(* A rate limit, an API error or a transport error, before or after the Bot *)
(* API saw the request: run waits and polls again.                          *)
PollFails ==
  /\ pc = "polling"
  /\ Fault
  /\ forgotten' \in {forgotten, ConfirmedBy(Offset)}
  /\ Goto("backoff")
  /\ UNCHANGED <<kinds, stored, now, history>>

BackoffOver ==
  /\ pc = "backoff"
  /\ Goto("idle")
  /\ UNCHANGED <<server, stored, now, faults, history>>

(* HTTP 409, another consumer polls the same bot: run raises.  An answer    *)
(* that is not JSON raises ValueError, which run does not catch.            *)
PollAborts ==
  /\ pc = "polling"
  /\ Fault
  /\ Stop("conflict") \/ Stop("garbled")
  /\ UNCHANGED <<server, stored, now, history>>

-----------------------------------------------------------------------------
(* process_update *)

(* Mutant of Unexpired: rows are deleted one clock unit early. *)
ExpiredEarly == [u \in Updates |-> IF dedup[u] <= now + 1 THEN 0 ELSE dedup[u]]

(* DELETE ... WHERE expires_at <= now *)
Unexpired == [u \in Updates |-> IF dedup[u] <= now THEN 0 ELSE dedup[u]]

(* seen_or_store_update returns False: the update's row is new. *)
AcceptUpdate ==
  /\ pc = "update"
  /\ Unexpired[current] = 0
  /\ dedup' = [Unexpired EXCEPT ![current] = now + Window]
  /\ handledAt' = [handledAt EXCEPT ![current] = now]
  /\ Goto("classify")
  /\ UNCHANGED <<server, activated, lastUpdateId, now, faults, lost, settled>>

(* Mutant of DuplicateUpdate: poll_once returns without storing the offset. *)
DuplicateNotPersisted ==
  /\ pc = "update"
  /\ Unexpired[current] # 0
  /\ dedup' = Unexpired
  /\ Goto("idle")
  /\ UNCHANGED <<server, activated, lastUpdateId, now, faults, history>>

(* It returns True: IntegrityError, the decision is "duplicate". *)
DuplicateUpdate ==
  /\ pc = "update"
  /\ Unexpired[current] # 0
  /\ dedup' = Unexpired
  /\ Goto("persist")
  /\ UNCHANGED <<server, activated, lastUpdateId, now, faults, history>>

(* It raises: _seen_or_store_update turns that into "duplicate". *)
DedupFails ==
  /\ pc = "update"
  /\ Fault
  /\ lost' = lost \union {current}
  /\ Goto("persist")
  /\ UNCHANGED <<server, stored, now, handledAt, settled>>

(* process_update returns a decision on the current update. *)
Settle ==
  /\ settled' = settled \union {current}
  /\ Goto("persist")
  /\ UNCHANGED <<handledAt, lost>>

(* Anything but text from the authorized user is audited and left alone. *)
IgnoreUpdate ==
  /\ pc = "classify"
  /\ kinds[current] = "ignored"
  /\ Settle
  /\ UNCHANGED <<server, stored, now, faults>>

(* A command runs through CommandRouter.handle, which returns a response. *)
HandleCommand ==
  /\ pc = "classify"
  /\ kinds[current] = "command"
  /\ Goto("reply")
  /\ UNCHANGED <<server, stored, now, faults, history>>

(* _send_command_response: the answer reaches Telegram, or fails in one of  *)
(* the ways _process_command_update swallows; the audit write succeeds.     *)
Reply ==
  /\ pc = "reply"
  /\ Settle
  /\ UNCHANGED <<server, stored, now, faults>>

(* The same two errors are not among them. *)
ReplyAborts ==
  /\ pc = "reply"
  /\ Fault
  /\ Stop("conflict") \/ Stop("garbled")
  /\ UNCHANGED <<server, stored, now, history>>

(* audit_flow.response_sent or response_failed meets a lock: nobody catches *)
(* the error.                                                               *)
ReplyAuditFails ==
  /\ pc = "reply"
  /\ Fault
  /\ Stop("locked")
  /\ UNCHANGED <<server, stored, now, history>>

(* _process_forward_update: whatever became of the text (forwarded, failed, *)
(* dropped, disabled, rate limited), the user is told or not.               *)
ForwardText ==
  /\ pc = "classify"
  /\ kinds[current] = "text"
  /\ \/ Settle
     \/ Goto("confirm") /\ UNCHANGED history
  /\ UNCHANGED <<server, stored, now, faults>>

(* _send_forward_confirmation swallows every Telegram error, a conflict too. *)
Confirm ==
  /\ pc = "confirm"
  /\ Settle
  /\ UNCHANGED <<server, stored, now, faults>>

ConfirmAborts ==
  /\ pc = "confirm"
  /\ Fault
  /\ Stop("garbled")
  /\ UNCHANGED <<server, stored, now, history>>

-----------------------------------------------------------------------------
(* poll_once: the offset, after each update of the batch *)

NextUpdate ==
  \/ /\ current < batchEnd
     /\ pc' = "update"
     /\ current' = current + 1
     /\ UNCHANGED <<batchEnd, stopReason>>
  \/ /\ current = batchEnd
     /\ Goto("idle")

(* Mutant of PersistOffset: the batch's last update is stored at once. *)
PersistBatchEnd ==
  /\ pc = "persist"
  /\ lastUpdateId' = batchEnd
  /\ NextUpdate
  /\ UNCHANGED <<server, activated, dedup, now, faults, history>>

PersistOffset ==
  /\ pc = "persist"
  /\ lastUpdateId' = current
  /\ NextUpdate
  /\ UNCHANGED <<server, activated, dedup, now, faults, history>>

(* The error is logged and the batch goes on. *)
PersistFails ==
  /\ pc = "persist"
  /\ Fault
  /\ NextUpdate
  /\ UNCHANGED <<server, stored, now, history>>

-----------------------------------------------------------------------------
Environment == (\E k \in Kinds : Send(k)) \/ Tick \/ Kill

Startup == Start \/ DropPendingUpdates \/ DropPendingFails \/ MarkActivated
             \/ MarkActivatedFails

Polling == Poll \/ PollReadFails \/ ReceiveUpdates \/ PollFails \/ BackoffOver
             \/ PollAborts

Processing == AcceptUpdate \/ DuplicateUpdate \/ DedupFails \/ IgnoreUpdate
                \/ HandleCommand \/ Reply \/ ReplyAborts \/ ReplyAuditFails
                \/ ForwardText \/ Confirm
                \/ ConfirmAborts

Persisting == PersistOffset \/ PersistFails

Service == Startup \/ Polling \/ Processing \/ Persisting

Next == Environment \/ Service

Spec == Init /\ [][Next]_vars

(* The event loop keeps running the task, the network answers, and a        *)
(* process that has ended is started again.                                 *)
FairSpec == Spec /\ WF_vars(Service)

-----------------------------------------------------------------------------
TypeOK ==
  /\ kinds \in Seq(Kinds) /\ Len(kinds) <= MaxUpdates
  /\ forgotten \in 0..arrived
  /\ activated \in BOOLEAN
  /\ lastUpdateId \in 0..arrived
  /\ dedup \in [Updates -> Nat]
  /\ pc \in {"down", "dropping", "marking", "idle", "polling", "backoff",
             "update", "classify", "reply", "confirm", "persist"}
  /\ current \in 0..arrived
  /\ batchEnd \in 0..arrived
  /\ stopReason \in {"none", "killed", "api", "unreadable",
                    "locked", "conflict", "garbled"}
  /\ now \in Nat \ {0}
  /\ faults \in Nat
  /\ handledAt \in [Updates -> Nat]
  /\ lost \subseteq Updates
  /\ settled \subseteq Updates

(* Where the offset has passed, no update is unaccounted for: poll_once     *)
(* stores last_update_id after each update whatever process_update did, and *)
(* a batch may have been cut short by a crash, so this needs every update   *)
(* up to the stored one to have passed deduplication or to be known lost.   *)
OffsetCoversResolved == \A u \in 1..lastUpdateId : Resolved(u)

(* Updates are taken in the order Telegram numbered them, across batches,   *)
(* retries and restarts: none passes deduplication before its predecessors. *)
InOrder ==
  \A u \in Updates : handledAt[u] # 0 => \A v \in 1..(u - 1) : Resolved(v)

(* persist_last_update_id overwrites the stored offset unconditionally;     *)
(* still it never moves back, whatever is redelivered.                      *)
OffsetNeverMovesBack == [][lastUpdateId' >= lastUpdateId]_vars

(* A redelivered update passes deduplication again only when a full         *)
(* deduplication window has gone by since the previous time.                *)
HandledApart ==
  [][\A u \in Updates :
       handledAt[u] # 0 /\ handledAt'[u] # handledAt[u]
         => now >= handledAt[u] + Window]_vars

(* Every update is confirmed to Telegram in the end, handled or not: no     *)
(* update is redelivered for ever, and none blocks those behind it.         *)
EventuallyConfirmed ==
  \A u \in Updates : (u <= arrived) ~> (u <= forgotten)

(* poll_once with its storage and restarts implements UpdateDelivery. *)
Delivery == INSTANCE UpdateDelivery WITH retired <- forgotten

DeliverySpec == Delivery!Spec

-----------------------------------------------------------------------------
(* A statement of the repository that the code does not live up to. *)

(* docs/telegram-meshcore-bridge.md: "Offset persists only after an update  *)
(* is processed or intentionally ignored."                                  *)
OffsetOnlyAfterProcessing == 1..lastUpdateId \subseteq settled \union lost
=============================================================================
