------------------------------ MODULE CommandFlow ------------------------------
(***************************************************************************)
(* The way of a message through the bridge: process_message of app.py,     *)
(* the deduplicator, CommandRouter.handle, the runtime overrides of        *)
(* "!bridge", the answer and the audit trail that is written on the way.   *)
(* The bridge task serves the mesh; the polling task brings commands from  *)
(* Telegram to the same router (_process_command_update).                  *)
(*                                                                         *)
(* Both tasks run in one thread: a task that has started keeps it until it *)
(* awaits a handler, a forward or a send.  Every commit to audit.db is a   *)
(* step of its own, since the process may be killed between any two.       *)
(***************************************************************************)
EXTENDS Naturals, Sequences, FiniteSets

CONSTANTS Identities,   \* what a deduplication key is the hash of
          Rooms,        \* room ids
          Senders,      \* sender ids
          Users,        \* authorized users: sender id -> role
          Policies,     \* room policies: room id -> policy
          Requests,     \* the messages that may arrive
          Stored,       \* identities an earlier version stored at time 0
          Window,       \* deduplication window_seconds
          MaxReceived,  \* bound: messages received
          MaxTime,      \* bound: last value of the clock
          MaxFaults     \* bound: kills, failed writes and failed sends

Tasks == {"mesh", "telegram"}

readonly == 1
admin == 4
Roles == readonly..admin

(* What a text parses to: no command, a name nobody registered, a handler   *)
(* that only reads, or "!bridge <target> on", "... off" and "!bridge reset".*)
Switches == {"on", "off", "reset"}
Words == {"text", "unknown", "query"} \union Switches

Request == [task : Tasks, identity : Identities, channel : BOOLEAN,
            room : Rooms, sender : Senders, word : Words]

RoomPolicy == [enabled : BOOLEAN, minimum_role : Roles, allow_commands : BOOLEAN]

(* From Telegram only commands reach the router: _safe_command_text makes    *)
(* "!unknown" of whatever else it meets.                                    *)
ASSUME ParametersAssumption ==
  /\ Requests \subseteq Request
  /\ \A r \in Requests : r.task = "telegram" => r.word # "text"
  /\ DOMAIN Users \subseteq Senders
  /\ Users \in [DOMAIN Users -> Roles]
  /\ DOMAIN Policies \subseteq Rooms
  /\ Policies \in [DOMAIN Policies -> RoomPolicy]
  /\ Stored \subseteq Identities
  /\ Window \in Nat \ {0}
  /\ MaxReceived \in Nat
  /\ MaxTime \in Nat
  /\ MaxFaults \in Nat

VARIABLES
  at,          \* where each task is
  running,     \* the task that has the thread, or "none"
  received,    \* the messages received, in order: a message is its place here
  cur,         \* the message each task is at
  trail,       \* the AuditTrail of that message: event ids, 0 for None
  result,      \* result and error of the command each task is at
  expiresAt,   \* deduplication_keys: expires_at of an identity's row, or 0
  legacyUntil, \* the same for the keys an earlier version stored
  events,      \* normalized_audit_events: an event id is a place here
  commands,    \* command_executions: the messages with a row
  override,    \* the runtime override of one direction
  now,         \* the wall clock
  faults,      \* faults so far
  acceptedAt,  \* history: when a message passed the deduplicator, 0 never
  ran,         \* history: messages whose handler was called
  sent,        \* history: messages whose answer was transmitted
  lost,        \* history: messages that lost an audit event
  boot         \* history: how many messages earlier processes received

thread  == <<at, running>>
local   == <<cur, trail, result>>
keys    == <<expiresAt, legacyUntil>>
audit   == <<events, commands>>
history == <<acceptedAt, ran, sent, boot>>
vars    == <<thread, received, local, keys, audit, override, now, faults,
             history, lost>>

Messages == 1..MaxReceived

NoTrail == [received_event_id |-> 0, latest_event_id |-> 0]

Init ==
  /\ at = [t \in Tasks |-> "down"]
  /\ running = "none"
  /\ received = <<>>
  /\ cur = [t \in Tasks |-> 0]
  /\ trail = [t \in Tasks |-> NoTrail]
  /\ result = [t \in Tasks |-> "ignored"]
  /\ expiresAt = [k \in Identities |-> 0]
  /\ legacyUntil = [k \in Identities |-> IF k \in Stored THEN Window ELSE 0]
  /\ events = <<>>
  /\ commands = {}
  /\ override = "configured"
  /\ now = 1
  /\ faults = 0
  /\ acceptedAt = [m \in Messages |-> 0]
  /\ ran = {}
  /\ sent = {}
  /\ lost = {}
  /\ boot = 0

-----------------------------------------------------------------------------
(* Authorization *)

AllowsRoom(r) ==
  \/ DOMAIN Policies = {}
  \/ /\ r.room \in DOMAIN Policies
     /\ Policies[r.room].enabled
     /\ Policies[r.room].allow_commands

(* Every command is registered with minimum_role readonly. *)
RequireMessage(r, minimum) ==
  /\ AllowsRoom(r)
  /\ r.sender \in DOMAIN Users
  /\ Users[r.sender] >= minimum
  /\ r.room \in DOMAIN Policies => Users[r.sender] >= Policies[r.room].minimum_role

-----------------------------------------------------------------------------
(* Audit events *)

Fault ==
  /\ faults < MaxFaults
  /\ faults' = faults + 1

Cur(t) == received[cur[t]]

Event(t, type, what, cause) ==
  [type |-> type, what |-> what, correlation |-> cur[t], causation |-> cause]

(* Mutant of Insert: the trail keeps its latest event. *)
InsertWithoutChild(t, event) ==
  /\ events' = Append(events, event)
  /\ UNCHANGED <<trail, faults, lost>>

(* insert_event commits, and AuditTrail.child takes the new event id. *)
Insert(t, event) ==
  /\ events' = Append(events, event)
  /\ trail' = [trail EXCEPT ![t].latest_event_id = Len(events)']
  /\ UNCHANGED <<faults, lost>>

(* The write raises, and the caller logs that and goes on. *)
Lose(t) ==
  /\ Fault
  /\ lost' = lost \union {cur[t]}
  /\ UNCHANGED <<events, trail>>

Record(t, type, what) ==
  Insert(t, Event(t, type, what, trail[t].latest_event_id)) \/ Lose(t)

RecordIgnored(t, reason) ==
  Insert(t, Event(t, "message.ignored", reason, trail[t].received_event_id)) \/ Lose(t)

(* The task goes on to a place without or with an await in between. *)
GoesOn(t, place) ==
  /\ running = t
  /\ at' = [at EXCEPT ![t] = place]
  /\ UNCHANGED running

Awaits(t, place) ==
  /\ running = t
  /\ at' = [at EXCEPT ![t] = place]
  /\ running' = "none"

Resumes(t, place) ==
  /\ running = "none"
  /\ at' = [at EXCEPT ![t] = place]
  /\ running' = t

-----------------------------------------------------------------------------
(* process_message up to the router *)

(* receive returns a message, or getUpdates a command: message.received *)
Receive(r) ==
  LET t == r.task IN
  /\ at[t] = "idle"
  /\ Len(received) < MaxReceived
  /\ received' = Append(received, r)
  /\ cur' = [cur EXCEPT ![t] = Len(received)']
  /\ \/ /\ events' = Append(events, [type |-> "message.received", what |-> "none",
                                     correlation |-> Len(received)', causation |-> 0])
        /\ trail' = [trail EXCEPT ![t] = [received_event_id |-> Len(events)',
                                          latest_event_id |-> Len(events)']]
        /\ UNCHANGED <<faults, lost>>
     \/ /\ Fault
        /\ lost' = lost \union {Len(received)'}
        /\ trail' = [trail EXCEPT ![t] = NoTrail]
        /\ UNCHANGED events
  /\ result' = [result EXCEPT ![t] = "ignored"]
  /\ Resumes(t, IF t = "mesh" THEN "received" ELSE "parsing")
  /\ UNCHANGED <<keys, commands, override, now, history>>

(* Another channel, or a room that is not allowed. *)
Refuse ==
  /\ at["mesh"] = "received"
  /\ \/ ~Cur("mesh").channel /\ RecordIgnored("mesh", "wrong_channel")
     \/ /\ Cur("mesh").channel
        /\ ~AllowsRoom(Cur("mesh"))
        /\ RecordIgnored("mesh", "room_not_allowed")
  /\ Awaits("mesh", "idle")
  /\ UNCHANGED <<received, cur, result, keys, commands, override, now, history>>

(* Mutant of Admitted: the room is not asked about. *)
AdmittedFromAnyRoom ==
  /\ at["mesh"] = "received"
  /\ Cur("mesh").channel

Admitted ==
  /\ at["mesh"] = "received"
  /\ Cur("mesh").channel
  /\ AllowsRoom(Cur("mesh"))

(* Mutant of Purged: a row is gone at its expires_at. *)
PurgedEarly(table) == [k \in Identities |-> IF table[k] <= now THEN 0 ELSE table[k]]

(* DELETE FROM deduplication_keys WHERE expires_at < now *)
Purged(table) == [k \in Identities |-> IF table[k] < now THEN 0 ELSE table[k]]

Seen(k) == Purged(expiresAt)[k] # 0 \/ Purged(legacyUntil)[k] # 0

Duplicate ==
  /\ Admitted
  /\ Seen(Cur("mesh").identity)
  /\ expiresAt' = Purged(expiresAt)
  /\ legacyUntil' = Purged(legacyUntil)
  /\ GoesOn("mesh", "duplicate")
  /\ UNCHANGED <<received, local, audit, override, now, faults, history, lost>>

(* The key is stored; the rate limiter, RateLimiter.tla, lets it pass or not.*)
Accept(place) ==
  /\ Admitted
  /\ ~Seen(Cur("mesh").identity)
  /\ expiresAt' = [Purged(expiresAt) EXCEPT ![Cur("mesh").identity] = now + Window]
  /\ legacyUntil' = Purged(legacyUntil)
  /\ acceptedAt' = [acceptedAt EXCEPT ![cur["mesh"]] = now]
  /\ GoesOn("mesh", place)
  /\ UNCHANGED <<received, local, audit, override, now, faults, ran, sent, lost, boot>>

(* Mutant of DeduplicateFails: the key was stored before the error. *)
DeduplicateFailsLate ==
  /\ Admitted
  /\ Fault
  /\ expiresAt' = [expiresAt EXCEPT ![Cur("mesh").identity] = now + Window]
  /\ Awaits("mesh", "failed")
  /\ UNCHANGED <<received, local, legacyUntil, audit, override, now, history, lost>>

(* seen_or_store raises: nothing catches it up to run_forever. *)
DeduplicateFails ==
  /\ Admitted
  /\ Fault
  /\ Awaits("mesh", "failed")
  /\ UNCHANGED <<received, local, keys, audit, override, now, history, lost>>

IgnoreDuplicate ==
  /\ at["mesh"] = "duplicate"
  /\ RecordIgnored("mesh", "duplicate")
  /\ Awaits("mesh", "idle")
  /\ UNCHANGED <<received, cur, result, keys, commands, override, now, history>>

(* "Rate limit." is sent. *)
IgnoreLimited ==
  /\ at["mesh"] = "limited"
  /\ RecordIgnored("mesh", "rate_limited")
  /\ Awaits("mesh", "sending")
  /\ UNCHANGED <<received, cur, result, keys, commands, override, now, history>>

-----------------------------------------------------------------------------
(* CommandRouter.handle.  An AuditTrail is changed in place, so app.py,     *)
(* the router and the handler all append to one chain.                      *)

(* _parse_result; the empty name of a quoted nothing, "malformed", goes the *)
(* way of an unknown one.                                                   *)
ParseResult(word) ==
  IF word = "text" THEN "not_a_command"
  ELSE IF word = "unknown" THEN "unknown" ELSE "recognized"

AfterParse == [not_a_command |-> "plain", unknown |-> "executed",
               recognized |-> "authorizing"]

Parse(t) ==
  /\ at[t] = "parsing"
  /\ Record(t, "command.parsed", ParseResult(Cur(t).word))
  /\ GoesOn(t, AfterParse[ParseResult(Cur(t).word)])
  /\ result' = [result EXCEPT ![t] = IF Cur(t).word = "unknown" THEN "unknown" ELSE @]
  /\ UNCHANGED <<received, cur, keys, commands, override, now, history>>

Deny(t) ==
  /\ at[t] = "authorizing"
  /\ ~RequireMessage(Cur(t), readonly)
  /\ Record(t, "command.authorization", "denied")
  /\ result' = [result EXCEPT ![t] = "unauthorized"]
  /\ GoesOn(t, "executed")
  /\ UNCHANGED <<received, cur, keys, commands, override, now, history>>

(* The handler is called.  One that only reads awaits Home Assistant. *)
Allow(t) ==
  /\ at[t] = "authorizing"
  /\ RequireMessage(Cur(t), readonly)
  /\ Record(t, "command.authorization", "allowed")
  /\ ran' = ran \union {cur[t]}
  /\ IF Cur(t).word = "query" THEN Awaits(t, "handler") ELSE GoesOn(t, "requesting")
  /\ UNCHANGED <<received, cur, result, keys, commands, override, now,
                 acceptedAt, sent, boot>>

HandlerEnds(t) ==
  /\ at[t] = "handler"
  /\ result' \in {[result EXCEPT ![t] = r] : r \in {"succeeded", "failed"}}
  /\ Resumes(t, "executed")
  /\ UNCHANGED <<received, cur, trail, keys, audit, override, now, faults, history, lost>>

(* Mutant of WriteExecution: two transactions. *)
WriteExecutionTwice(t) ==
  /\ commands' = commands \union {cur[t]}
  /\ \/ Insert(t, Event(t, "command.execution", result[t], trail[t].latest_event_id))
     \/ Lose(t)

(* The finally of handle: the legacy rows and the event in one transaction. *)
WriteExecution(t) ==
  \/ /\ Insert(t, Event(t, "command.execution", result[t], trail[t].latest_event_id))
     /\ commands' = commands \union {cur[t]}
  \/ /\ Lose(t)
     /\ UNCHANGED commands

(* Mutant of RecordExecution: the task keeps the thread while it sends. *)
RecordExecutionBlocks(t) ==
  /\ at[t] = "executed"
  /\ WriteExecution(t)
  /\ GoesOn(t, "sending")
  /\ UNCHANGED <<received, cur, result, keys, override, now, history>>

RecordExecution(t) ==
  /\ at[t] = "executed"
  /\ WriteExecution(t)
  /\ Awaits(t, "sending")
  /\ UNCHANGED <<received, cur, result, keys, override, now, history>>

-----------------------------------------------------------------------------
(* The handler of "!bridge" with arguments *)

RecordRequested(t) ==
  /\ at[t] = "requesting"
  /\ Record(t, "override.requested", Cur(t).word)
  /\ GoesOn(t, "switching")
  /\ UNCHANGED <<received, cur, result, keys, commands, override, now, history>>

DenyOverride(t) ==
  /\ at[t] = "switching"
  /\ Users[Cur(t).sender] < admin
  /\ Record(t, "override.denied", Cur(t).word)
  /\ result' = [result EXCEPT ![t] = "succeeded"]
  /\ GoesOn(t, "executed")
  /\ UNCHANGED <<received, cur, keys, commands, override, now, history>>

(* set_runtime_override and reset_runtime_overrides *)
Override(word) == IF word = "reset" THEN "configured" ELSE word

SetOverride(t) ==
  /\ at[t] = "switching"
  /\ Users[Cur(t).sender] >= admin
  /\ override' = Override(Cur(t).word)
  /\ GoesOn(t, "switched")
  /\ UNCHANGED <<received, local, keys, audit, now, faults, history, lost>>

RecordApplied(t) ==
  /\ at[t] = "switched"
  /\ Record(t, "override.applied", Cur(t).word)
  /\ result' = [result EXCEPT ![t] = "succeeded"]
  /\ GoesOn(t, "executed")
  /\ UNCHANGED <<received, cur, keys, commands, override, now, history>>

-----------------------------------------------------------------------------
(* Texts that are no commands *)

IgnoreUnregistered ==
  /\ at["mesh"] = "plain"
  /\ ~RequireMessage(Cur("mesh"), readonly)
  /\ RecordIgnored("mesh", "sender_not_registered")
  /\ Awaits("mesh", "idle")
  /\ UNCHANGED <<received, cur, result, keys, commands, override, now, history>>

(* forward_normal_text, whose own steps are in EchoBridge.tla *)
Forward ==
  /\ at["mesh"] = "plain"
  /\ RequireMessage(Cur("mesh"), readonly)
  /\ Awaits("mesh", "forwarding")
  /\ UNCHANGED <<received, local, keys, audit, override, now, faults, history, lost>>

ForwardHandled ==
  /\ at["mesh"] = "forwarding"
  /\ at' = [at EXCEPT !["mesh"] = "idle"]
  /\ UNCHANGED <<running, received, local, keys, audit, override, now, faults, history, lost>>

ForwardNotHandled ==
  /\ at["mesh"] = "forwarding"
  /\ Resumes("mesh", "unhandled")
  /\ UNCHANGED <<received, local, keys, audit, override, now, faults, history, lost>>

IgnoreUnhandled ==
  /\ at["mesh"] = "unhandled"
  /\ RecordIgnored("mesh", "not_a_command")
  /\ Awaits("mesh", "idle")
  /\ UNCHANGED <<received, cur, result, keys, commands, override, now, history>>

-----------------------------------------------------------------------------
(* The answer *)

SendAccepted(t) ==
  /\ at[t] = "sending"
  /\ sent' = sent \union {cur[t]}
  /\ Resumes(t, "answered")
  /\ UNCHANGED <<received, local, keys, audit, override, now, faults, lost,
                 acceptedAt, ran, boot>>

(* Mutant of SendFails: the error is taken for an answer. *)
SendFailsUnnoticed(t) ==
  /\ at[t] = "sending"
  /\ Fault
  /\ sent' \in {sent, sent \union {cur[t]}}
  /\ Resumes(t, "answered")
  /\ UNCHANGED <<received, local, keys, audit, override, now, lost,
                 acceptedAt, ran, boot>>

(* The send raises; the answer may have been transmitted all the same.      *)
(* HTTP 409 from Telegram leaves _process_command_update.                   *)
SendFails(t) ==
  /\ at[t] = "sending"
  /\ Fault
  /\ \/ /\ sent' \in {sent, sent \union {cur[t]}}
        /\ Resumes(t, "unanswered")
     \/ /\ t = "telegram"
        /\ Resumes(t, "conflict")
        /\ UNCHANGED sent
  /\ UNCHANGED <<received, local, keys, audit, override, now, lost,
                 acceptedAt, ran, boot>>

(* response_sent and response_failed.  app.py goes on when the write fails; *)
(* _send_command_response lets sqlite3.Error end the polling task.          *)
RecordResponse(t) ==
  /\ at[t] \in {"answered", "unanswered", "conflict"}
  /\ LET type == IF at[t] = "answered" THEN "response.sent" ELSE "response.failed" IN
     \/ /\ Insert(t, Event(t, type, "none", trail[t].latest_event_id))
        /\ Awaits(t, IF at[t] = "conflict" THEN "failed" ELSE "idle")
     \/ /\ Lose(t)
        /\ Awaits(t, IF t = "telegram" THEN "failed" ELSE "idle")
  /\ UNCHANGED <<received, cur, result, keys, commands, override, now, history>>

-----------------------------------------------------------------------------
(* The process: _run_services *)

(* The other task is cancelled at its await.  CancelledError passes through *)
(* handle, whose finally records the execution with the result so far.      *)
Cancel(t) ==
  /\ \E u \in Tasks : at[u] = "failed"
  /\ running = "none"
  /\ at' = [at EXCEPT ![t] = "failed"]
  /\ \/ /\ at[t] \in {"idle", "forwarding"}
        /\ UNCHANGED <<trail, audit, faults, sent, lost>>
     \/ /\ at[t] = "sending"
        /\ sent' \in {sent, sent \union {cur[t]}}
        /\ UNCHANGED <<trail, audit, faults, lost>>
     \/ /\ at[t] = "handler"
        /\ WriteExecution(t)
        /\ UNCHANGED sent
  /\ UNCHANGED <<running, received, cur, result, keys, override, now,
                 acceptedAt, ran, boot>>

(* Mutant of Down: the override is kept on disk. *)
DownKeepsOverride ==
  /\ at' = [t \in Tasks |-> "down"]
  /\ running' = "none"
  /\ cur' = [t \in Tasks |-> 0]
  /\ trail' = [t \in Tasks |-> NoTrail]
  /\ result' = [t \in Tasks |-> "ignored"]
  /\ UNCHANGED override
  /\ boot' = Len(received)

(* What a process holds in memory is gone. *)
Down ==
  /\ at' = [t \in Tasks |-> "down"]
  /\ running' = "none"
  /\ cur' = [t \in Tasks |-> 0]
  /\ trail' = [t \in Tasks |-> NoTrail]
  /\ result' = [t \in Tasks |-> "ignored"]
  /\ override' = "configured"
  /\ boot' = Len(received)

End ==
  /\ \A t \in Tasks : at[t] = "failed"
  /\ Down
  /\ UNCHANGED <<received, keys, audit, now, faults, acceptedAt, ran, sent, lost>>

(* The process is killed; an answer on its way may be transmitted. *)
Kill ==
  /\ \E t \in Tasks : at[t] # "down"
  /\ Fault
  /\ \E S \in SUBSET {t \in Tasks : at[t] = "sending"} :
       sent' = sent \union {cur[t] : t \in S}
  /\ Down
  /\ UNCHANGED <<received, keys, audit, now, acceptedAt, ran, lost>>

Start ==
  /\ \A t \in Tasks : at[t] = "down"
  /\ at' = [t \in Tasks |-> "idle"]
  /\ UNCHANGED <<running, received, local, keys, audit, override, now, faults,
                 history, lost>>

Tick ==
  /\ now < MaxTime
  /\ now' = now + 1
  /\ UNCHANGED <<thread, received, local, keys, audit, override, faults, history, lost>>

-----------------------------------------------------------------------------
MeshTask ==
  \/ Refuse
  \/ Duplicate
  \/ \E place \in {"parsing", "limited"} : Accept(place)
  \/ DeduplicateFails
  \/ IgnoreDuplicate
  \/ IgnoreLimited
  \/ IgnoreUnregistered
  \/ Forward
  \/ ForwardHandled
  \/ ForwardNotHandled
  \/ IgnoreUnhandled

Router(t) ==
  \/ Parse(t)
  \/ Deny(t)
  \/ Allow(t)
  \/ HandlerEnds(t)
  \/ RecordRequested(t)
  \/ DenyOverride(t)
  \/ SetOverride(t)
  \/ RecordApplied(t)
  \/ RecordExecution(t)

Answer(t) ==
  \/ SendAccepted(t)
  \/ SendFails(t)
  \/ RecordResponse(t)

TaskStep(t) ==
  \/ t = "mesh" /\ MeshTask
  \/ Router(t)
  \/ Answer(t)

Shutdown ==
  \/ \E t \in Tasks : Cancel(t)
  \/ End

Next ==
  \/ \E r \in Requests : Receive(r)
  \/ \E t \in Tasks : TaskStep(t)
  \/ Shutdown
  \/ Kill
  \/ Start
  \/ Tick

Spec == Init /\ [][Next]_vars

(* The event loop serves every task that is ready, in turn, and handlers,   *)
(* forwards and sends have timeouts.  Nothing makes messages arrive.        *)
Fairness ==
  /\ \A t \in Tasks : SF_vars(TaskStep(t))
  /\ WF_vars(Shutdown)

FairSpec == Spec /\ Fairness

-----------------------------------------------------------------------------
Places ==
  {"down", "idle", "received", "duplicate", "limited", "parsing", "authorizing",
   "handler", "requesting", "switching", "switched", "executed", "plain",
   "forwarding", "unhandled", "sending", "answered", "unanswered", "conflict",
   "failed"}

Results == {"ignored", "unknown", "unauthorized", "succeeded", "failed"}

EventTypes ==
  {"message.received", "message.ignored", "command.parsed",
   "command.authorization", "override.requested", "override.denied",
   "override.applied", "command.execution", "response.sent", "response.failed"}

(* IGNORE_REASONS, parse results, AUTHORIZATION_RESULTS, COMMAND_RESULTS and  *)
(* what was asked of "!bridge".                                              *)
Details ==
  {"none", "wrong_channel", "room_not_allowed", "duplicate", "rate_limited",
   "not_a_command", "sender_not_registered", "recognized", "allowed", "denied"}
    \union Results \union Words

Known == 1..Len(received)
EventIds == 1..Len(events)

AuditEvent == [type : EventTypes, what : Details, correlation : Known, causation : Nat]

ThreadType ==
  /\ at \in [Tasks -> Places]
  /\ running \in Tasks \union {"none"}

MessageType ==
  /\ received \in Seq(Requests) /\ Len(received) <= MaxReceived
  /\ cur \in [Tasks -> 0..Len(received)]
  /\ result \in [Tasks -> Results]
  /\ override \in {"configured", "on", "off"}
  /\ ran \subseteq Known
  /\ sent \subseteq Known
  /\ boot \in 0..Len(received)

AuditType ==
  /\ trail \in [Tasks -> [received_event_id : Nat, latest_event_id : Nat]]
  /\ events \in Seq(AuditEvent)
  /\ commands \subseteq Known
  /\ lost \subseteq Known
  /\ faults \in Nat

DeduplicationType ==
  /\ expiresAt \in [Identities -> Nat]
  /\ legacyUntil \in [Identities -> Nat]
  /\ acceptedAt \in [Messages -> Nat]
  /\ now \in Nat \ {0}

(* A task that is at a place of a message has a message of its own. *)
AtMessage ==
  \A t \in Tasks : at[t] \notin {"down", "idle", "failed"} =>
    /\ cur[t] # 0
    /\ received[cur[t]].task = t
    /\ at[t] = "authorizing" => received[cur[t]].word \in Switches \union {"query"}
    /\ at[t] \in {"requesting", "switching", "switched"} =>
         received[cur[t]].word \in Switches

(* Every variable keeps its range, and no task is at a step of the router   *)
(* that the word of its message does not lead to.                           *)
TypeOK ==
  /\ ThreadType
  /\ MessageType
  /\ AuditType
  /\ DeduplicationType
  /\ AtMessage

(* Repeats of one message reach the router, and with it a handler, only     *)
(* more than the window apart, whatever is read, killed and restarted in    *)
(* between; rows stored under the keys of an earlier version count too.     *)
RunsApart ==
  \A n \in Messages : acceptedAt[n] # 0 =>
    /\ received[n].identity \in Stored => acceptedAt[n] > Window
    /\ \A m \in 1..n-1 :
         acceptedAt[m] # 0 /\ received[m].identity = received[n].identity =>
           acceptedAt[n] > acceptedAt[m] + Window

(* A message is dropped as a repeat only of one like it that passed the     *)
(* deduplicator within the window and was served to its end: its handler    *)
(* was called, unless it is no command the sender may give or was over the  *)
(* rate limit.  Only when the process has ended since may a repeat be       *)
(* dropped although nothing ran, as its key outlives the process.           *)
NothingToRun(r) == r.word \in {"text", "unknown"} \/ ~RequireMessage(r, readonly)

Limited(n) ==
  \/ n \in lost
  \/ \E e \in EventIds : events[e].what = "rate_limited" /\ events[e].correlation = n

RepeatOf(m, n) ==
  /\ received[n].identity = received[m].identity
  /\ acceptedAt[n] # 0
  /\ now <= acceptedAt[n] + Window
  /\ n <= boot \/ n \in ran \/ NothingToRun(received[n]) \/ Limited(n)

DropsOnlyRepeats ==
  [][at["mesh"] = "received" /\ at'["mesh"] = "duplicate" =>
       \/ Cur("mesh").identity \in Stored /\ now <= Window
       \/ \E n \in 1..cur["mesh"]-1 : RepeatOf(cur["mesh"], n)]_vars

(* What is answered and what is run was let through: nothing on another     *)
(* channel or in a room that is not allowed, no duplicate, and no handler   *)
(* for a sender without the role.                                           *)
OnlyAccepted ==
  /\ \A m \in sent \union ran : received[m].task = "mesh" =>
       acceptedAt[m] # 0 /\ received[m].channel /\ AllowsRoom(received[m])
  /\ \A m \in ran : RequireMessage(received[m], readonly)

(* The audit log tells what was run: a handler that was called has its      *)
(* "allowed", unless the log lost an event of that message; an execution    *)
(* that succeeded or failed was one; the legacy table agrees with the log.  *)
AuditTellsRuns ==
  /\ \A m \in ran \ lost : \E e \in EventIds :
       /\ events[e].type = "command.authorization"
       /\ events[e].what = "allowed"
       /\ events[e].correlation = m
  /\ \A e \in EventIds :
       events[e].type = "command.execution" =>
         /\ events[e].what \notin {"unknown", "unauthorized"}
              <=> events[e].correlation \in ran
         /\ events[e].correlation \in commands
  /\ \A m \in commands : \E e \in EventIds :
       events[e].type = "command.execution" /\ events[e].correlation = m

(* The events of a message form a chain: each is caused by the one before   *)
(* it in the log, and message.ignored by message.received; never by an      *)
(* event of another message, though two tasks write to one log.             *)
Earlier(e) == {d \in 1..e-1 : events[d].correlation = events[e].correlation}

CausalChain ==
  \A e \in EventIds :
    events[e].causation =
      LET parents == IF events[e].type = "message.ignored"
                     THEN {d \in Earlier(e) : events[d].type = "message.received"}
                     ELSE Earlier(e)
      IN IF parents = {} THEN 0 ELSE CHOOSE d \in parents : \A c \in parents : c <= d

(* A response event says what became of the answer: at most one of them,    *)
(* and response.sent only for an answer that was transmitted.               *)
ResponsesTold ==
  \A e \in EventIds : events[e].type \in {"response.sent", "response.failed"} =>
    /\ events[e].type = "response.sent" => events[e].correlation \in sent
    /\ \A d \in Earlier(e) :
         events[d].type \notin {"response.sent", "response.failed"}

(* The override in force is the last one that this process logged as        *)
(* applied, and only an admin's; a restart returns to the configuration.    *)
Applied == {e \in EventIds : /\ events[e].type = "override.applied"
                             /\ events[e].correlation > boot}

LostSwitch ==
  \E m \in ran \intersect lost : m > boot /\ received[m].word \in Switches

OverrideExplained ==
  /\ \A e \in Applied : Users[received[events[e].correlation].sender] = admin
  /\ \/ LostSwitch
     \/ \E t \in Tasks : at[t] = "switched" /\ override = Override(Cur(t).word)
     \/ Applied = {} /\ override = "configured"
     \/ \E e \in Applied : /\ \A d \in Applied : d <= e
                          /\ override = Override(events[e].what)

(* Every message that was read comes to an end: the task is idle again, or  *)
(* the process is down.                                                     *)
EveryMessageEnds ==
  \A t \in Tasks : at[t] \notin {"idle", "down"} ~> at[t] \in {"idle", "down"}
=============================================================================
