--------------------------- MODULE CommandFlowProofs ---------------------------
EXTENDS CommandFlow, TLAPS

-----------------------------------------------------------------------------
(* Types.  The first lemmas are about the parts that actions share: writing *)
(* an audit event, losing one, and moving a task.                           *)
LEMMA InsertType ==
  ASSUME TypeOK, received' = received, commands' = commands, NEW t \in Tasks,
         NEW event \in AuditEvent, Insert(t, event)
  PROVE  AuditType'
  <1>1. events' = Append(events, event) /\ faults' = faults /\ lost' = lost
    BY DEF Insert
  <1>2. events' \in Seq(AuditEvent) /\ Len(events') \in Nat
    BY <1>1 DEF TypeOK, AuditType
  <1>3. trail' \in [Tasks -> [received_event_id : Nat, latest_event_id : Nat]]
    BY <1>2 DEF Insert, TypeOK, AuditType
  <1>4. AuditEvent' = AuditEvent /\ Known' = Known
    BY DEF AuditEvent, Known
  <1> QED BY <1>1, <1>2, <1>3, <1>4 DEF TypeOK, AuditType

(* A lost event belongs to a message that was received. *)
LEMMA LoseType ==
  ASSUME TypeOK, received' = received, commands' = commands, NEW t \in Tasks, cur[t] # 0, Lose(t)
  PROVE  AuditType'
  <1>1. AuditEvent' = AuditEvent /\ Known' = Known
    BY DEF AuditEvent, Known
  <1>2. cur[t] \in Known
    BY DEF TypeOK, MessageType, Known
  <1> QED BY <1>1, <1>2 DEF TypeOK, AuditType, Lose, Fault

(* A child event of the trail, written or lost, keeps the audit variables typed. *)
LEMMA RecordType ==
  ASSUME TypeOK, received' = received, commands' = commands, NEW t \in Tasks, cur[t] # 0,
         NEW type \in EventTypes, NEW what \in Details, Record(t, type, what)
  PROVE  AuditType'
  <1>1. Event(t, type, what, trail[t].latest_event_id) \in AuditEvent
    BY DEF Event, AuditEvent, TypeOK, AuditType, MessageType, Known
  <1>2. CASE Insert(t, Event(t, type, what, trail[t].latest_event_id))
    BY <1>1, <1>2, InsertType
  <1>3. CASE Lose(t)
    BY <1>3, LoseType
  <1> QED BY <1>2, <1>3 DEF Record

(* So does message.ignored. *)
LEMMA RecordIgnoredType ==
  ASSUME TypeOK, received' = received, commands' = commands, NEW t \in Tasks, cur[t] # 0,
         NEW reason \in Details, RecordIgnored(t, reason)
  PROVE  AuditType'
  <1>1. Event(t, "message.ignored", reason, trail[t].received_event_id) \in AuditEvent
    BY DEF Event, AuditEvent, TypeOK, AuditType, MessageType, Known, EventTypes
  <1>2. CASE Insert(t, Event(t, "message.ignored", reason, trail[t].received_event_id))
    BY <1>1, <1>2, InsertType
  <1>3. CASE Lose(t)
    BY <1>3, LoseType
  <1> QED BY <1>2, <1>3 DEF RecordIgnored
(* A task that goes on with its message, to a place its word leads to. *)
LEMMA MoveType ==
  ASSUME TypeOK, NEW t \in Tasks, NEW place \in Places,
         at' = [at EXCEPT ![t] = place], running' \in {running, t, "none"},
         received' = received, cur' = cur,
         at[t] \notin {"down", "idle", "failed"} \/ place \in {"idle", "failed"},
         place = "authorizing" => received[cur[t]].word \in Switches \union {"query"},
         place \in {"requesting", "switching", "switched"} =>
           received[cur[t]].word \in Switches
  PROVE  ThreadType' /\ AtMessage'
  <1>1. ThreadType'
    BY DEF TypeOK, ThreadType
  <1>2. AtMessage'
    BY DEF TypeOK, ThreadType, AtMessage
  <1> QED BY <1>1, <1>2

(* The one transaction of command.execution and the command table. *)
LEMMA ExecutionType ==
  ASSUME TypeOK, received' = received, NEW t \in Tasks, cur[t] # 0, WriteExecution(t)
  PROVE  AuditType'
  <1>1. cur[t] \in Known /\ Known' = Known
    BY DEF TypeOK, MessageType, Known
  <1>2. commands' \subseteq Known
    BY <1>1 DEF WriteExecution, TypeOK, AuditType
  <1>3. CASE Insert(t, Event(t, "command.execution", result[t], trail[t].latest_event_id))
    <2>1. Event(t, "command.execution", result[t], trail[t].latest_event_id) \in AuditEvent
      BY <1>1 DEF Event, AuditEvent, TypeOK, AuditType, MessageType, EventTypes, Details
    <2>2. events' = Append(events, Event(t, "command.execution", result[t],
                                         trail[t].latest_event_id))
          /\ faults' = faults /\ lost' = lost
      BY <1>3 DEF Insert
    <2>3. events' \in Seq(AuditEvent) /\ Len(events') \in Nat
      BY <2>1, <2>2 DEF TypeOK, AuditType
    <2>4. trail' \in [Tasks -> [received_event_id : Nat, latest_event_id : Nat]]
      BY <1>3, <2>3 DEF Insert, TypeOK, AuditType
    <2>5. AuditEvent' = AuditEvent
      BY DEF AuditEvent, Known
    <2> QED BY <1>1, <1>2, <2>2, <2>3, <2>4, <2>5 DEF TypeOK, AuditType
  <1>4. CASE Lose(t)
    <2>1. AuditEvent' = AuditEvent
      BY DEF AuditEvent, Known
    <2> QED BY <1>1, <1>2, <1>4, <2>1 DEF TypeOK, AuditType, Lose, Fault
  <1> QED BY <1>3, <1>4 DEF WriteExecution

(* The actions that end with message.ignored. *)
LEMMA IgnoreTypes ==
  ASSUME TypeOK
  PROVE  Refuse \/ IgnoreDuplicate \/ IgnoreLimited \/ IgnoreUnregistered \/ IgnoreUnhandled => TypeOK'
  <1>1. ASSUME Refuse PROVE TypeOK'
    <2>1. "mesh" \in Tasks /\ cur["mesh"] # 0 /\ received' = received /\ commands' = commands
      BY <1>1 DEF Refuse, TypeOK, AtMessage, Tasks
    <2>2. AuditType'
      BY <1>1, <2>1, RecordIgnoredType DEF Details, Refuse
    <2>3. ThreadType' /\ AtMessage'
      BY <1>1, <2>1, MoveType DEF Refuse, Awaits, Places
    <2>4. MessageType' /\ DeduplicationType'
      BY <1>1, <2>1 DEF Refuse, TypeOK, MessageType, DeduplicationType, keys, history, Known
    <2> QED BY <2>2, <2>3, <2>4 DEF TypeOK
  <1>2. ASSUME IgnoreDuplicate PROVE TypeOK'
    <2>1. "mesh" \in Tasks /\ cur["mesh"] # 0 /\ received' = received /\ commands' = commands
      BY <1>2 DEF IgnoreDuplicate, TypeOK, AtMessage, Tasks
    <2>2. AuditType'
      BY <1>2, <2>1, RecordIgnoredType DEF Details, IgnoreDuplicate
    <2>3. ThreadType' /\ AtMessage'
      BY <1>2, <2>1, MoveType DEF IgnoreDuplicate, Awaits, Places
    <2>4. MessageType' /\ DeduplicationType'
      BY <1>2, <2>1 DEF IgnoreDuplicate, TypeOK, MessageType, DeduplicationType, keys, history, Known
    <2> QED BY <2>2, <2>3, <2>4 DEF TypeOK
  <1>3. ASSUME IgnoreLimited PROVE TypeOK'
    <2>1. "mesh" \in Tasks /\ cur["mesh"] # 0 /\ received' = received /\ commands' = commands
      BY <1>3 DEF IgnoreLimited, TypeOK, AtMessage, Tasks
    <2>2. AuditType'
      BY <1>3, <2>1, RecordIgnoredType DEF Details, IgnoreLimited
    <2>3. ThreadType' /\ AtMessage'
      BY <1>3, <2>1, MoveType DEF IgnoreLimited, Awaits, Places
    <2>4. MessageType' /\ DeduplicationType'
      BY <1>3, <2>1 DEF IgnoreLimited, TypeOK, MessageType, DeduplicationType, keys, history, Known
    <2> QED BY <2>2, <2>3, <2>4 DEF TypeOK
  <1>4. ASSUME IgnoreUnregistered PROVE TypeOK'
    <2>1. "mesh" \in Tasks /\ cur["mesh"] # 0 /\ received' = received /\ commands' = commands
      BY <1>4 DEF IgnoreUnregistered, TypeOK, AtMessage, Tasks
    <2>2. AuditType'
      BY <1>4, <2>1, RecordIgnoredType DEF Details, IgnoreUnregistered
    <2>3. ThreadType' /\ AtMessage'
      BY <1>4, <2>1, MoveType DEF IgnoreUnregistered, Awaits, Places
    <2>4. MessageType' /\ DeduplicationType'
      BY <1>4, <2>1 DEF IgnoreUnregistered, TypeOK, MessageType, DeduplicationType, keys, history, Known
    <2> QED BY <2>2, <2>3, <2>4 DEF TypeOK
  <1>5. ASSUME IgnoreUnhandled PROVE TypeOK'
    <2>1. "mesh" \in Tasks /\ cur["mesh"] # 0 /\ received' = received /\ commands' = commands
      BY <1>5 DEF IgnoreUnhandled, TypeOK, AtMessage, Tasks
    <2>2. AuditType'
      BY <1>5, <2>1, RecordIgnoredType DEF Details, IgnoreUnhandled
    <2>3. ThreadType' /\ AtMessage'
      BY <1>5, <2>1, MoveType DEF IgnoreUnhandled, Awaits, Places
    <2>4. MessageType' /\ DeduplicationType'
      BY <1>5, <2>1 DEF IgnoreUnhandled, TypeOK, MessageType, DeduplicationType, keys, history, Known
    <2> QED BY <2>2, <2>3, <2>4 DEF TypeOK
  <1> QED BY <1>1, <1>2, <1>3, <1>4, <1>5
(* The actions of the bridge task that write no event. *)
LEMMA SilentTypes ==
  ASSUME TypeOK
  PROVE  Duplicate \/ DeduplicateFails \/ Forward \/ ForwardHandled
         \/ ForwardNotHandled => TypeOK'
  <1>1. ASSUME Duplicate PROVE TypeOK'
    <2>1. "mesh" \in Tasks /\ at["mesh"] \notin {"down", "idle", "failed"}
      BY <1>1 DEF Duplicate, Admitted, Tasks
    <2>2. ThreadType' /\ AtMessage'
      BY <1>1, <2>1, MoveType DEF Duplicate, Admitted, GoesOn, Places, local
    <2>3. MessageType' /\ AuditType' /\ DeduplicationType'
      BY <1>1 DEF Duplicate, Admitted, Purged, TypeOK, MessageType, AuditType, AuditEvent,
            DeduplicationType, keys, audit, local, history, Known
    <2> QED BY <2>2, <2>3 DEF TypeOK
  <1>2. ASSUME DeduplicateFails PROVE TypeOK'
    <2>1. "mesh" \in Tasks /\ at["mesh"] \notin {"down", "idle", "failed"}
      BY <1>2 DEF DeduplicateFails, Admitted, Fault, Tasks
    <2>2. ThreadType' /\ AtMessage'
      BY <1>2, <2>1, MoveType DEF DeduplicateFails, Admitted, Fault, Awaits, Places, local
    <2>3. MessageType' /\ AuditType' /\ DeduplicationType'
      BY <1>2 DEF DeduplicateFails, Admitted, Fault, TypeOK, MessageType, AuditType, AuditEvent,
            DeduplicationType, keys, audit, local, history, Known
    <2> QED BY <2>2, <2>3 DEF TypeOK
  <1>3. ASSUME Forward PROVE TypeOK'
    <2>1. "mesh" \in Tasks /\ at["mesh"] \notin {"down", "idle", "failed"}
      BY <1>3 DEF Forward, Tasks
    <2>2. ThreadType' /\ AtMessage'
      BY <1>3, <2>1, MoveType DEF Forward, Awaits, Places, local
    <2>3. MessageType' /\ AuditType' /\ DeduplicationType'
      BY <1>3 DEF Forward, TypeOK, MessageType, AuditType, AuditEvent,
            DeduplicationType, keys, audit, local, history, Known
    <2> QED BY <2>2, <2>3 DEF TypeOK
  <1>4. ASSUME ForwardHandled PROVE TypeOK'
    <2>1. "mesh" \in Tasks /\ at["mesh"] \notin {"down", "idle", "failed"}
      BY <1>4 DEF ForwardHandled, Tasks
    <2>2. ThreadType' /\ AtMessage'
      BY <1>4, <2>1, MoveType DEF ForwardHandled, Places, local
    <2>3. MessageType' /\ AuditType' /\ DeduplicationType'
      BY <1>4 DEF ForwardHandled, TypeOK, MessageType, AuditType, AuditEvent,
            DeduplicationType, keys, audit, local, history, Known
    <2> QED BY <2>2, <2>3 DEF TypeOK
  <1>5. ASSUME ForwardNotHandled PROVE TypeOK'
    <2>1. "mesh" \in Tasks /\ at["mesh"] \notin {"down", "idle", "failed"}
      BY <1>5 DEF ForwardNotHandled, Tasks
    <2>2. ThreadType' /\ AtMessage'
      BY <1>5, <2>1, MoveType DEF ForwardNotHandled, Resumes, Places, local
    <2>3. MessageType' /\ AuditType' /\ DeduplicationType'
      BY <1>5 DEF ForwardNotHandled, TypeOK, MessageType, AuditType, AuditEvent,
            DeduplicationType, keys, audit, local, history, Known
    <2> QED BY <2>2, <2>3 DEF TypeOK
  <1> QED BY <1>1, <1>2, <1>3, <1>4, <1>5

(* What was received is a request. *)
LEMMA RequestWords == \A m \in Known : TypeOK => received[m] \in Request
  BY ParametersAssumption DEF TypeOK, MessageType, Known

(* A task that is at work has a message, one that was received. *)
LEMMA Working ==
  ASSUME TypeOK, NEW t \in Tasks, at[t] \notin {"down", "idle", "failed"}
  PROVE  cur[t] # 0 /\ cur[t] \in Known
  BY DEF TypeOK, AtMessage, MessageType, Known

(* The actions of the router and of "!bridge". *)
LEMMA RouterTypes ==
  ASSUME TypeOK, NEW t \in Tasks, Router(t)
  PROVE  TypeOK'
  <1>1. ASSUME Parse(t) PROVE TypeOK'
    <2>1. t \in Tasks /\ cur[t] # 0 /\ cur[t] \in Known /\ received' = received /\ cur' = cur
          /\ commands' = commands
      BY <1>1, Working DEF Parse
    <2>2. AuditType'
      <3>1. ParseResult(Cur(t).word) \in Details
        BY DEF ParseResult, Details, Results
      <3> QED BY <1>1, <2>1, <3>1, RecordType DEF Parse, EventTypes
    <2>3. ThreadType' /\ AtMessage'
      <3>1. received[cur[t]].word \in Words
        BY <2>1, RequestWords DEF Request
      <3> QED BY <1>1, <2>1, <3>1, MoveType DEF Parse, AfterParse, ParseResult, Cur, Words, GoesOn, Places
    <2>4. MessageType' /\ DeduplicationType'
      BY <1>1, <2>1 DEF Parse, TypeOK, MessageType, DeduplicationType, keys, history, Known,
            Results
    <2> QED BY <2>2, <2>3, <2>4 DEF TypeOK
  <1>2. ASSUME Deny(t) PROVE TypeOK'
    <2>1. t \in Tasks /\ cur[t] # 0 /\ cur[t] \in Known /\ received' = received /\ cur' = cur
          /\ commands' = commands
      BY <1>2, Working DEF Deny
    <2>2. AuditType'
      BY <1>2, <2>1, RecordType DEF Deny, EventTypes, Details
    <2>3. ThreadType' /\ AtMessage'
      BY <1>2, <2>1, MoveType DEF Deny, GoesOn, Awaits, Places
    <2>4. MessageType' /\ DeduplicationType'
      BY <1>2, <2>1 DEF Deny, TypeOK, MessageType, DeduplicationType, keys, history, Known,
            Results
    <2> QED BY <2>2, <2>3, <2>4 DEF TypeOK
  <1>3. ASSUME Allow(t) PROVE TypeOK'
    <2>1. t \in Tasks /\ cur[t] # 0 /\ cur[t] \in Known /\ received' = received /\ cur' = cur
          /\ commands' = commands
      BY <1>3, Working DEF Allow
    <2>2. AuditType'
      BY <1>3, <2>1, RecordType DEF Allow, EventTypes, Details
    <2>3. ThreadType' /\ AtMessage'
      BY <1>3, <2>1, MoveType DEF Allow, TypeOK, AtMessage, Switches, Cur, GoesOn, Awaits, Places
    <2>4. MessageType' /\ DeduplicationType'
      BY <1>3, <2>1 DEF Allow, TypeOK, MessageType, DeduplicationType, keys, history, Known,
            Results
    <2> QED BY <2>2, <2>3, <2>4 DEF TypeOK
  <1>4. ASSUME HandlerEnds(t) PROVE TypeOK'
    <2>1. ThreadType' /\ AtMessage'
      BY <1>4, MoveType DEF HandlerEnds, Resumes, Places
    <2>2. MessageType' /\ AuditType' /\ DeduplicationType'
      BY <1>4 DEF HandlerEnds, TypeOK, MessageType, AuditType, AuditEvent,
            DeduplicationType, keys, audit, history, Known, Results
    <2> QED BY <2>1, <2>2 DEF TypeOK
  <1>5. ASSUME RecordRequested(t) PROVE TypeOK'
    <2>1. t \in Tasks /\ cur[t] # 0 /\ cur[t] \in Known /\ received' = received /\ cur' = cur
          /\ commands' = commands
      BY <1>5, Working DEF RecordRequested
    <2>2. AuditType'
      BY <1>5, <2>1, RecordType, RequestWords DEF RecordRequested, EventTypes, Details, Cur, Words, Request
    <2>3. ThreadType' /\ AtMessage'
      BY <1>5, <2>1, MoveType DEF RecordRequested, TypeOK, AtMessage, Switches, Cur, GoesOn, Awaits, Places
    <2>4. MessageType' /\ DeduplicationType'
      BY <1>5, <2>1 DEF RecordRequested, TypeOK, MessageType, DeduplicationType, keys, history, Known,
            Results
    <2> QED BY <2>2, <2>3, <2>4 DEF TypeOK
  <1>6. ASSUME DenyOverride(t) PROVE TypeOK'
    <2>1. t \in Tasks /\ cur[t] # 0 /\ cur[t] \in Known /\ received' = received /\ cur' = cur
          /\ commands' = commands
      BY <1>6, Working DEF DenyOverride
    <2>2. AuditType'
      BY <1>6, <2>1, RecordType, RequestWords DEF DenyOverride, EventTypes, Details, Cur, Words, Request
    <2>3. ThreadType' /\ AtMessage'
      BY <1>6, <2>1, MoveType DEF DenyOverride, GoesOn, Awaits, Places
    <2>4. MessageType' /\ DeduplicationType'
      BY <1>6, <2>1 DEF DenyOverride, TypeOK, MessageType, DeduplicationType, keys, history, Known,
            Results
    <2> QED BY <2>2, <2>3, <2>4 DEF TypeOK
  <1>7. ASSUME SetOverride(t) PROVE TypeOK'
    <2>1. ThreadType' /\ AtMessage'
      BY <1>7, MoveType DEF SetOverride, TypeOK, AtMessage,  GoesOn, Places, local
    <2>2. Override(Cur(t).word) \in {"configured", "on", "off"}
      BY <1>7 DEF SetOverride, Override, Cur, TypeOK, AtMessage, Switches
    <2>3. MessageType' /\ AuditType' /\ DeduplicationType'
      BY <1>7, <2>2 DEF SetOverride, TypeOK, MessageType, AuditType, AuditEvent,
            DeduplicationType, keys, audit, local, history, Known
    <2> QED BY <2>1, <2>3 DEF TypeOK
  <1>8. ASSUME RecordApplied(t) PROVE TypeOK'
    <2>1. t \in Tasks /\ cur[t] # 0 /\ cur[t] \in Known /\ received' = received /\ cur' = cur
          /\ commands' = commands
      BY <1>8, Working DEF RecordApplied
    <2>2. AuditType'
      BY <1>8, <2>1, RecordType, RequestWords DEF RecordApplied, EventTypes, Details, Cur, Words, Request
    <2>3. ThreadType' /\ AtMessage'
      BY <1>8, <2>1, MoveType DEF RecordApplied, GoesOn, Awaits, Places
    <2>4. MessageType' /\ DeduplicationType'
      BY <1>8, <2>1 DEF RecordApplied, TypeOK, MessageType, DeduplicationType, keys, history, Known,
            Results
    <2> QED BY <2>2, <2>3, <2>4 DEF TypeOK
  <1>9. ASSUME RecordExecution(t) PROVE TypeOK'
    <2>1. t \in Tasks /\ cur[t] # 0 /\ received' = received /\ cur' = cur
      BY <1>9 DEF RecordExecution, TypeOK, AtMessage
    <2>2. AuditType'
      BY <1>9, <2>1, ExecutionType DEF RecordExecution
    <2>3. ThreadType' /\ AtMessage'
      BY <1>9, <2>1, MoveType DEF RecordExecution, Awaits, Places
    <2>4. MessageType' /\ DeduplicationType'
      BY <1>9, <2>1 DEF RecordExecution, TypeOK, MessageType, DeduplicationType, keys,
            history, Known
    <2> QED BY <2>2, <2>3, <2>4 DEF TypeOK
  <1> QED BY <1>1, <1>2, <1>3, <1>4, <1>5, <1>6, <1>7, <1>8, <1>9 DEF Router

(* The actions of an answer. *)
LEMMA AnswerTypes ==
  ASSUME TypeOK, NEW t \in Tasks, Answer(t)
  PROVE  TypeOK'
  <1>1. ASSUME SendAccepted(t) PROVE TypeOK'
    <2>1. ThreadType' /\ AtMessage'
      BY <1>1, MoveType DEF SendAccepted, Resumes, Places, local
    <2>2. cur[t] \in Known
      BY <1>1, Working DEF SendAccepted
    <2>3. MessageType' /\ AuditType' /\ DeduplicationType'
      BY <1>1, <2>2 DEF SendAccepted, TypeOK, MessageType, AuditType, AuditEvent,
            DeduplicationType, keys, audit, local, Known
    <2> QED BY <2>1, <2>3 DEF TypeOK
  <1>2. ASSUME SendFails(t) PROVE TypeOK'
    <2>1. ThreadType' /\ AtMessage'
      BY <1>2, MoveType DEF SendFails, Resumes, Places, local
    <2>2. cur[t] \in Known
      BY <1>2, Working DEF SendFails
    <2>3. MessageType' /\ AuditType' /\ DeduplicationType'
      <3>1. sent' \subseteq Known /\ faults' \in Nat
        BY <1>2, <2>2 DEF SendFails, Fault, TypeOK, MessageType, AuditType
      <3> QED BY <1>2, <3>1 DEF SendFails, TypeOK, MessageType, AuditType, AuditEvent,
            DeduplicationType, keys, audit, local, Known
    <2> QED BY <2>1, <2>3 DEF TypeOK
  <1>3. ASSUME RecordResponse(t) PROVE TypeOK'
    <2>1. cur[t] # 0 /\ received' = received /\ cur' = cur /\ commands' = commands
      BY <1>3 DEF RecordResponse, TypeOK, AtMessage
    <2>2. AuditType'
      <3> DEFINE type == IF at[t] = "answered" THEN "response.sent" ELSE "response.failed"
      <3>1. Record(t, type, "none")
        BY <1>3 DEF RecordResponse, Record
      <3>2. type \in EventTypes /\ "none" \in Details
        BY DEF EventTypes, Details
      <3> HIDE DEF type
      <3> QED BY <2>1, <3>1, <3>2, RecordType
    <2>3. ThreadType' /\ AtMessage'
      BY <1>3, <2>1, MoveType DEF RecordResponse, Awaits, Places
    <2>4. MessageType' /\ DeduplicationType'
      BY <1>3, <2>1 DEF RecordResponse, TypeOK, MessageType, DeduplicationType, keys,
            history, Known
    <2> QED BY <2>2, <2>3, <2>4 DEF TypeOK
  <1> QED BY <1>1, <1>2, <1>3 DEF Answer

(* Accept writes the two tables and the history of acceptances. *)
LEMMA AcceptType ==
  ASSUME TypeOK, NEW place \in {"parsing", "limited"}, Accept(place)
  PROVE  TypeOK'
  <1>1. "mesh" \in Tasks /\ cur["mesh"] \in Messages /\ Cur("mesh").identity \in Identities
    <2>1. "mesh" \in Tasks /\ cur["mesh"] \in Known
      BY DEF Accept, Admitted, TypeOK, AtMessage, MessageType, Known, Tasks
    <2>2. received[cur["mesh"]] \in Request
      BY <2>1, RequestWords
    <2> QED BY <2>1, <2>2, ParametersAssumption DEF Cur, Request, Messages, Known, TypeOK, MessageType
  <1>2. ThreadType' /\ AtMessage'
    BY <1>1, MoveType DEF Accept, Admitted, GoesOn, Places, local
  <1>3. DeduplicationType'
    <2>1. expiresAt' \in [Identities -> Nat] /\ legacyUntil' \in [Identities -> Nat]
      BY <1>1, ParametersAssumption DEF Accept, Purged, TypeOK, DeduplicationType
    <2> QED BY <1>1, <2>1 DEF Accept, TypeOK, DeduplicationType
  <1>4. MessageType' /\ AuditType'
    BY DEF Accept, TypeOK, MessageType, AuditType, AuditEvent, audit, local, Known
  <1> QED BY <1>2, <1>3, <1>4 DEF TypeOK

(* Receive is the one action that makes the messages more. *)
LEMMA ReceiveType ==
  ASSUME TypeOK, NEW r \in Requests, Receive(r)
  PROVE  TypeOK'
  <1> DEFINE t == r.task
  <1>1. t \in Tasks /\ r \in Request
    BY ParametersAssumption DEF Request
  <1>2. /\ received' \in Seq(Requests) /\ Len(received') = Len(received) + 1
        /\ Len(received') <= MaxReceived /\ Len(received) \in Nat
        /\ received'[Len(received')] = r
        /\ \A m \in Known : received'[m] = received[m]
    BY ParametersAssumption DEF Receive, TypeOK, MessageType, Known
  <1>3. Known \subseteq Known' /\ Len(received') \in Known'
    BY <1>2 DEF Known
  <1>4. cur' = [cur EXCEPT ![t] = Len(received')]
    BY DEF Receive
  <1>5. at' = [at EXCEPT ![t] = IF t = "mesh" THEN "received" ELSE "parsing"] /\ running' = t
    BY DEF Receive, Resumes
  <1>6. ThreadType'
    BY <1>1, <1>5 DEF TypeOK, ThreadType, Places
  <1>7. MessageType'
    <2>1. cur' \in [Tasks -> 0..Len(received')]
      BY <1>1, <1>2, <1>4 DEF TypeOK, MessageType
    <2>2. result' \in [Tasks -> Results] /\ override' = override
          /\ ran' = ran /\ sent' = sent /\ boot' = boot
      BY <1>1 DEF Receive, Results, history, TypeOK, MessageType
    <2> QED BY <1>2, <1>3, <2>1, <2>2 DEF TypeOK, MessageType
  <1>8. AuditType'
    <2>1. AuditEvent \subseteq AuditEvent'
      BY <1>3 DEF AuditEvent
    <2>2. events' \in Seq(AuditEvent')
      <3> DEFINE e == [type |-> "message.received", what |-> "none",
                       correlation |-> Len(received'), causation |-> 0]
      <3>1. e \in AuditEvent'
        BY <1>3 DEF AuditEvent, EventTypes, Details
      <3>2. events \in Seq(AuditEvent')
        BY <2>1 DEF TypeOK, AuditType
      <3>3. events' = Append(events, e) \/ events' = events
        BY DEF Receive
      <3> QED BY <3>1, <3>2, <3>3
    <2>3. trail' \in [Tasks -> [received_event_id : Nat, latest_event_id : Nat]]
      <3>1. Len(events') \in Nat
        BY <2>2
      <3>2. \E x \in [received_event_id : Nat, latest_event_id : Nat] :
               trail' = [trail EXCEPT ![t] = x]
        BY <3>1 DEF Receive, NoTrail
      <3> HIDE DEF t
      <3> QED BY <1>1, <3>2 DEF TypeOK, AuditType
    <2>4. lost' \subseteq Known' /\ faults' \in Nat /\ commands' \subseteq Known'
      BY <1>3 DEF Receive, Fault, TypeOK, AuditType
    <2> QED BY <2>2, <2>3, <2>4 DEF AuditType
  <1>9. DeduplicationType'
    BY DEF Receive, keys, history, TypeOK, DeduplicationType
  <1>10. AtMessage'
    <2> SUFFICES ASSUME NEW u \in Tasks, at'[u] \notin {"down", "idle", "failed"}
                 PROVE  /\ cur'[u] # 0 /\ received'[cur'[u]].task = u
                        /\ at'[u] = "authorizing" =>
                             received'[cur'[u]].word \in Switches \union {"query"}
                        /\ at'[u] \in {"requesting", "switching", "switched"} =>
                             received'[cur'[u]].word \in Switches
      BY DEF AtMessage
    <2>1. CASE u = t
      BY <1>1, <1>2, <1>4, <1>5, <2>1 DEF TypeOK, ThreadType, MessageType
    <2>2. CASE u # t
      <3>1. at'[u] = at[u] /\ cur'[u] = cur[u]
        BY <1>1, <1>4, <1>5, <2>2 DEF TypeOK, ThreadType, MessageType
      <3>2. cur[u] \in Known
        BY <3>1 DEF TypeOK, AtMessage, MessageType, Known
      <3> QED BY <1>2, <3>1, <3>2 DEF TypeOK, AtMessage
    <2> QED BY <2>1, <2>2
  <1> QED BY <1>6, <1>7, <1>8, <1>9, <1>10 DEF TypeOK

(* What is left when the process has ended. *)
LEMMA DownType ==
  ASSUME TypeOK, Down, received' = received, ran' = ran, sent' \subseteq Known
  PROVE  ThreadType' /\ MessageType' /\ AtMessage'
         /\ trail' \in [Tasks -> [received_event_id : Nat, latest_event_id : Nat]]
  BY DEF Down, TypeOK, ThreadType, MessageType, AtMessage, NoTrail, Places, Known, Results

(* The actions of the process and of the clock. *)
LEMMA ProcessTypes ==
  ASSUME TypeOK, Shutdown \/ Kill \/ Start \/ Tick
  PROVE  TypeOK'
  <1>1. ASSUME NEW t \in Tasks, Cancel(t) PROVE TypeOK'
    <2>1. received' = received /\ cur' = cur
      BY <1>1 DEF Cancel
    <2>2. ThreadType' /\ AtMessage'
      BY <1>1, <2>1, MoveType DEF Cancel, Places
    <2>3. AuditType' /\ sent' \subseteq Known
      <3>1. CASE at[t] \in {"idle", "forwarding"}
        BY <1>1, <2>1, <3>1 DEF Cancel, TypeOK, AuditType, AuditEvent, MessageType, audit, Known
      <3>2. CASE at[t] = "sending"
        <4>1. cur[t] \in Known
          BY <3>2 DEF TypeOK, MessageType, AtMessage, Known
        <4>2. sent' \in {sent, sent \union {cur[t]}} /\ UNCHANGED <<trail, audit, faults, lost>>
          BY <1>1, <3>2 DEF Cancel
        <4> QED BY <2>1, <4>1, <4>2 DEF TypeOK, AuditType, AuditEvent, MessageType, audit, Known
      <3>3. CASE at[t] = "handler"
        BY <1>1, <2>1, <3>3, ExecutionType DEF Cancel, TypeOK, AtMessage, MessageType
      <3> QED BY <1>1, <3>1, <3>2, <3>3 DEF Cancel
    <2>4. MessageType' /\ DeduplicationType'
      BY <1>1, <2>1, <2>3 DEF Cancel, TypeOK, MessageType, DeduplicationType, keys, Known
    <2> QED BY <2>2, <2>3, <2>4 DEF TypeOK
  <1>2. ASSUME End PROVE TypeOK'
    <2>1. received' = received /\ ran' = ran /\ sent' \subseteq Known /\ Down
      BY <1>2 DEF End, TypeOK, MessageType
    <2> QED BY <1>2, <2>1, DownType DEF End, TypeOK, AuditType, AuditEvent,
              DeduplicationType, keys, audit, Known
  <1>3. ASSUME Kill PROVE TypeOK'
    <2>1. received' = received /\ ran' = ran /\ sent' \subseteq Known /\ Down
      <3>1. \A t \in Tasks : at[t] = "sending" => cur[t] \in Known
        BY DEF TypeOK, MessageType, AtMessage, Known
      <3> QED BY <1>3, <3>1 DEF Kill, TypeOK, MessageType
    <2> QED BY <1>3, <2>1, DownType DEF Kill, Fault, TypeOK, AuditType, AuditEvent,
              DeduplicationType, keys, audit, Known
  <1>4. ASSUME Start PROVE TypeOK'
    BY <1>4 DEF Start, TypeOK, ThreadType, MessageType, AuditType, AuditEvent, AtMessage,
         DeduplicationType, keys, audit, local, history, Known, Places
  <1>5. ASSUME Tick PROVE TypeOK'
    BY <1>5 DEF Tick, TypeOK, ThreadType, MessageType, AuditType, AuditEvent, AtMessage,
         DeduplicationType, thread, keys, audit, local, history, Known
  <1> QED BY <1>1, <1>2, <1>3, <1>4, <1>5 DEF Shutdown

(* Init and Next keep the types. *)
LEMMA InitType == Init => TypeOK
  BY ParametersAssumption DEF Init, TypeOK, ThreadType, MessageType, AuditType, AuditEvent,
     AtMessage, DeduplicationType, NoTrail, Known, Places, Results, Messages

(* One case per group of actions. *)
LEMMA NextType == TypeOK /\ [Next]_vars => TypeOK'
  <1> SUFFICES ASSUME TypeOK, [Next]_vars PROVE TypeOK'
    OBVIOUS
  <1>1. CASE \E r \in Requests : Receive(r)
    BY <1>1, ReceiveType
  <1>2. ASSUME NEW t \in Tasks, TaskStep(t) PROVE TypeOK'
    BY <1>2, IgnoreTypes, SilentTypes, AcceptType, RouterTypes, AnswerTypes
       DEF TaskStep, MeshTask
  <1>3. CASE Shutdown \/ Kill \/ Start \/ Tick
    BY <1>3, ProcessTypes
  <1>4. CASE UNCHANGED vars
    BY <1>4 DEF vars, TypeOK, ThreadType, MessageType, AuditType, AuditEvent, AtMessage,
         DeduplicationType, thread, keys, audit, local, history, Known
  <1> QED BY <1>1, <1>2, <1>3, <1>4 DEF Next

(* Every variable keeps its range, whatever is received, lost and killed,   *)
(* and tasks are only where their message leads them.                       *)
THEOREM TypeCorrect == Spec => []TypeOK
  BY InitType, NextType, PTL DEF Spec

-----------------------------------------------------------------------------
(* Every step but Receive and Accept leaves the messages and what was       *)
(* accepted alone, runs and answers only what is at its place for that, and *)
(* takes no task past the deduplicator.                                     *)
Before == {"down", "idle", "failed", "received", "duplicate"}

Quiet ==
  /\ received' = received
  /\ acceptedAt' = acceptedAt
  /\ \/ now' = now /\ expiresAt' = expiresAt /\ legacyUntil' = legacyUntil
     \/ now' = now /\ expiresAt' = Purged(expiresAt) /\ legacyUntil' = Purged(legacyUntil)
     \/ now' = now + 1 /\ expiresAt' = expiresAt /\ legacyUntil' = legacyUntil
  /\ \A t \in Tasks : at'[t] \notin Before => at[t] \notin Before /\ cur'[t] = cur[t]
  /\ at'["mesh"] = "received" => at["mesh"] = "received" /\ cur' = cur
  /\ \A m \in sent' : m \in sent \/ \E t \in Tasks : at[t] = "sending" /\ m = cur[t]
  /\ \A m \in ran' : m \in ran \/ \E t \in Tasks :
       at[t] = "authorizing" /\ RequireMessage(received[m], readonly) /\ m = cur[t]

(* Every step is quiet, but for those two. *)
LEMMA QuietSteps ==
  ASSUME TypeOK, [Next]_vars
  PROVE  \/ Quiet
         \/ \E r \in Requests : Receive(r)
         \/ \E place \in {"parsing", "limited"} : Accept(place)
  <1> USE DEF Before, Quiet, TypeOK, ThreadType, MessageType, Tasks, GoesOn, Awaits, Resumes,
              keys, audit, local, history, thread
  <1>1. ASSUME Refuse \/ Duplicate \/ DeduplicateFails \/ IgnoreDuplicate \/ IgnoreLimited
        PROVE  Quiet
    BY <1>1 DEF Refuse, Duplicate, DeduplicateFails, IgnoreDuplicate, IgnoreLimited, Admitted
  <1>2. ASSUME IgnoreUnregistered \/ Forward \/ ForwardHandled \/ ForwardNotHandled
               \/ IgnoreUnhandled
        PROVE  Quiet
    BY <1>2 DEF IgnoreUnregistered, Forward, ForwardHandled, ForwardNotHandled,
       IgnoreUnhandled
  <1>3. ASSUME NEW t \in Tasks, Router(t) PROVE Quiet
    <2>1. ASSUME Parse(t) PROVE Quiet
      <3>1. AfterParse[ParseResult(Cur(t).word)] \in {"plain", "executed", "authorizing"}
        BY DEF AfterParse, ParseResult
      <3> QED BY <2>1, <3>1 DEF Parse
    <2>2. ASSUME Deny(t) PROVE Quiet
      BY <2>2 DEF Deny
    <2>3. ASSUME Allow(t) PROVE Quiet
      BY <2>3 DEF Allow, Cur
    <2>4. ASSUME HandlerEnds(t) PROVE Quiet
      BY <2>4 DEF HandlerEnds
    <2>5. ASSUME RecordRequested(t) PROVE Quiet
      BY <2>5 DEF RecordRequested
    <2>6. ASSUME DenyOverride(t) PROVE Quiet
      BY <2>6 DEF DenyOverride
    <2>7. ASSUME SetOverride(t) PROVE Quiet
      BY <2>7 DEF SetOverride
    <2>8. ASSUME RecordApplied(t) PROVE Quiet
      BY <2>8 DEF RecordApplied
    <2>9. ASSUME RecordExecution(t) PROVE Quiet
      BY <2>9 DEF RecordExecution
    <2> QED BY <1>3, <2>1, <2>2, <2>3, <2>4, <2>5, <2>6, <2>7, <2>8, <2>9 DEF Router
  <1>4. ASSUME NEW t \in Tasks, Answer(t) PROVE Quiet
    <2>1. ASSUME SendAccepted(t) PROVE Quiet
      BY <2>1 DEF SendAccepted
    <2>2. ASSUME SendFails(t) PROVE Quiet
      BY <2>2 DEF SendFails
    <2>3. ASSUME RecordResponse(t) PROVE Quiet
      BY <2>3 DEF RecordResponse
    <2> QED BY <1>4, <2>1, <2>2, <2>3 DEF Answer
  <1>5. ASSUME End \/ Kill \/ Start \/ Tick \/ \E t \in Tasks : Cancel(t) PROVE Quiet
    <2>1. ASSUME NEW t \in Tasks, Cancel(t) PROVE Quiet
      BY <2>1 DEF Cancel
    <2>2. ASSUME End PROVE Quiet
      BY <2>2 DEF End, Down
    <2>3. ASSUME Kill PROVE Quiet
      BY <2>3 DEF Kill, Down
    <2>4. ASSUME Start PROVE Quiet
      BY <2>4 DEF Start
    <2>5. ASSUME Tick PROVE Quiet
      BY <2>5 DEF Tick
    <2> QED BY <1>5, <2>1, <2>2, <2>3, <2>4, <2>5
  <1>6. ASSUME UNCHANGED vars PROVE Quiet
    BY <1>6 DEF vars
  <1> QED BY ONLY <1>1, <1>2, <1>3, <1>4, <1>5, <1>6, [Next]_vars
       DEF Next, TaskStep, MeshTask, Shutdown


-----------------------------------------------------------------------------
(* The row of an accepted message is there until its window is over, and    *)
(* so is the row an earlier version stored; a message that the deduplicator *)
(* has still to see is younger than every accepted one.                     *)
RowsKept ==
  /\ \A m \in Messages : acceptedAt[m] # 0 =>
       /\ m \in Known
       /\ acceptedAt[m] <= now
       /\ now <= acceptedAt[m] + Window =>
            expiresAt[received[m].identity] >= acceptedAt[m] + Window
  /\ \A k \in Stored : now <= Window => legacyUntil[k] = Window
  /\ at["mesh"] = "received" =>
       \A m \in Messages : acceptedAt[m] # 0 => m < cur["mesh"]

(* Receive appends one message and moves its task to it. *)
LEMMA ReceiveAppends ==
  ASSUME TypeOK, NEW r \in Requests, Receive(r)
  PROVE  /\ \A m \in Known : m \in Known' /\ received'[m] = received[m]
         /\ Len(received') = Len(received) + 1 /\ Len(received) \in Nat
         /\ received'[Len(received')] = r
         /\ cur' = [cur EXCEPT ![r.task] = Len(received')]
         /\ at' = [at EXCEPT ![r.task] = IF r.task = "mesh" THEN "received" ELSE "parsing"]
         /\ r.task \in Tasks /\ r \in Request
         /\ UNCHANGED <<now, expiresAt, legacyUntil, acceptedAt, ran, sent>>
  BY ParametersAssumption
     DEF Receive, Resumes, Request, TypeOK, MessageType, Known, keys, history

(* What Accept finds of the message, and what it writes. *)
LEMMA AcceptFacts ==
  ASSUME TypeOK, NEW place \in {"parsing", "limited"}, Accept(place)
  PROVE  /\ "mesh" \in Tasks /\ at["mesh"] = "received" /\ cur["mesh"] \in Known
         /\ received[cur["mesh"]].identity \in Identities
         /\ received[cur["mesh"]].channel /\ AllowsRoom(received[cur["mesh"]])
         /\ at' = [at EXCEPT !["mesh"] = place]
         /\ acceptedAt' = [acceptedAt EXCEPT ![cur["mesh"]] = now]
         /\ UNCHANGED <<received, cur, now, ran, sent>>
  <1>1. "mesh" \in Tasks /\ cur["mesh"] \in Known
    BY DEF Accept, Admitted, TypeOK, AtMessage, MessageType, Known, Tasks
  <1>2. received[cur["mesh"]] \in Request
    BY <1>1, RequestWords
  <1> QED BY <1>1, <1>2 DEF Accept, Admitted, Cur, GoesOn, Request, local

(* RowsKept and RunsApart are inductive together. *)
LEMMA RunsApartStep ==
  ASSUME TypeOK, RowsKept, RunsApart, [Next]_vars
  PROVE  RowsKept' /\ RunsApart'
  <1>1. CASE Quiet
    <2>1. RunsApart'
      BY <1>1 DEF Quiet, RunsApart
    <2>2. ASSUME NEW m \in Messages, acceptedAt'[m] # 0
          PROVE  /\ m \in Known'
                 /\ acceptedAt'[m] <= now'
                 /\ now' <= acceptedAt'[m] + Window =>
                      expiresAt'[received'[m].identity] >= acceptedAt'[m] + Window
      <3>1. m \in Known /\ received[m].identity \in Identities
        BY <1>1, <2>2, RequestWords DEF Quiet, RowsKept, Request
      <3>2. /\ acceptedAt[m] \in Nat /\ Window \in Nat /\ now \in Nat /\ now' \in {now, now + 1}
            /\ expiresAt[received[m].identity] \in Nat
        BY <1>1, <3>1, ParametersAssumption DEF Quiet, TypeOK, DeduplicationType
      <3>3. /\ acceptedAt'[m] = acceptedAt[m] /\ received' = received /\ Known' = Known
            /\ acceptedAt[m] <= now
            /\ now <= acceptedAt[m] + Window =>
                 expiresAt[received[m].identity] >= acceptedAt[m] + Window
        BY <1>1, <2>2 DEF Quiet, RowsKept, Known
      <3>4. \/ expiresAt'[received[m].identity] = expiresAt[received[m].identity]
            \/ /\ now' = now /\ expiresAt[received[m].identity] < now
            BY <1>1, <3>1 DEF Quiet, Purged
      <3> QED BY <3>1, <3>2, <3>3, <3>4
    <2>3. ASSUME NEW k \in Stored, now' <= Window PROVE legacyUntil'[k] = Window
      BY <1>1, <2>3, ParametersAssumption
         DEF Quiet, RowsKept, Purged, TypeOK, DeduplicationType
    <2>4. at'["mesh"] = "received" =>
            \A m \in Messages : acceptedAt'[m] # 0 => m < cur'["mesh"]
      BY <1>1 DEF Quiet, RowsKept
    <2> QED BY <2>1, <2>2, <2>3, <2>4 DEF RowsKept
  <1>2. ASSUME NEW r \in Requests, Receive(r) PROVE RowsKept' /\ RunsApart'
    <2>1. RunsApart'
      <3>1. \A m \in Messages : acceptedAt[m] # 0 => received'[m] = received[m]
        BY <1>2, ReceiveAppends DEF RowsKept
      <3>2. \A n \in Messages : \A m \in 1..n-1 : m \in Messages
        BY ParametersAssumption DEF Messages
      <3>3. acceptedAt' = acceptedAt
        BY <1>2, ReceiveAppends
      <3> SUFFICES ASSUME NEW n \in Messages, acceptedAt[n] # 0
                   PROVE  /\ received'[n].identity \in Stored => acceptedAt[n] > Window
                          /\ \A m \in 1..n-1 :
                               acceptedAt[m] # 0 /\ received'[m].identity = received'[n].identity
                                 => acceptedAt[n] > acceptedAt[m] + Window
        BY <3>3 DEF RunsApart
      <3> QED BY <3>1, <3>2 DEF RunsApart
    <2>2. RowsKept'
      <3>1. /\ \A m \in Known : m \in Known' /\ received'[m] = received[m]
            /\ UNCHANGED <<now, expiresAt, legacyUntil, acceptedAt>>
        BY <1>2, ReceiveAppends
      <3>2. \A m \in Messages : acceptedAt'[m] # 0 =>
              /\ m \in Known'
              /\ acceptedAt'[m] <= now'
              /\ now' <= acceptedAt'[m] + Window =>
                   expiresAt'[received'[m].identity] >= acceptedAt'[m] + Window
        BY <3>1 DEF RowsKept
      <3>3. \A k \in Stored : now' <= Window => legacyUntil'[k] = Window
        BY <3>1 DEF RowsKept
      <3>4. ASSUME at'["mesh"] = "received", NEW m \in Messages, acceptedAt'[m] # 0
            PROVE  m < cur'["mesh"]
        <4>1. m \in Known
          BY <3>1, <3>4 DEF RowsKept
        <4>2. CASE r.task = "mesh"
          <5>1. cur'["mesh"] = Len(received) + 1 /\ Len(received) \in Nat
            BY <1>2, <4>2, ReceiveAppends DEF TypeOK, MessageType
          <5> QED BY <4>1, <5>1 DEF Known
        <4>3. CASE r.task # "mesh"
          <5>1. at'["mesh"] = at["mesh"] /\ cur'["mesh"] = cur["mesh"]
            BY <1>2, <4>3, ReceiveAppends DEF TypeOK, ThreadType, MessageType, Tasks
          <5> QED BY <3>1, <3>4, <5>1 DEF RowsKept
        <4> QED BY <4>2, <4>3
      <3> QED BY <3>2, <3>3, <3>4 DEF RowsKept
    <2> QED BY <2>1, <2>2
  <1>3. ASSUME NEW place \in {"parsing", "limited"}, Accept(place)
        PROVE  RowsKept' /\ RunsApart'
    <2> DEFINE n == cur["mesh"]
               k == received[n].identity
    <2>1. n \in Messages /\ n \in Known /\ k \in Identities
      <3>1. n \in Known /\ k \in Identities
        BY <1>3, AcceptFacts
      <3>2. Len(received) \in Nat /\ Len(received) <= MaxReceived
        BY DEF TypeOK, MessageType
      <3> QED BY <3>1, <3>2, ParametersAssumption DEF Known, Messages
    <2>2. Purged(expiresAt)[k] = 0 /\ Purged(legacyUntil)[k] = 0
      BY <1>3 DEF Accept, Seen, Cur
    <2>3. expiresAt' = [Purged(expiresAt) EXCEPT ![k] = now + Window]
          /\ legacyUntil' = Purged(legacyUntil)
      BY <1>3 DEF Accept, Cur
    <2>4. ASSUME NEW m \in Messages, acceptedAt[m] # 0, received[m].identity = k
          PROVE  now > acceptedAt[m] + Window
      BY <2>1, <2>2, <2>4, ParametersAssumption
         DEF RowsKept, Purged, TypeOK, DeduplicationType
    <2>5. k \in Stored => now > Window
      BY <2>1, <2>2, ParametersAssumption DEF RowsKept, Purged, TypeOK, DeduplicationType
    <2>6. RunsApart'
      <3> SUFFICES ASSUME NEW i \in Messages, acceptedAt'[i] # 0
                   PROVE  /\ received'[i].identity \in Stored => acceptedAt'[i] > Window
                          /\ \A m \in 1..i-1 :
                               acceptedAt'[m] # 0 /\ received'[m].identity = received'[i].identity
                                 => acceptedAt'[i] > acceptedAt'[m] + Window
        BY DEF RunsApart
      <3>1. acceptedAt' = [acceptedAt EXCEPT ![n] = now] /\ received' = received
        BY <1>3, AcceptFacts
      <3>2. \A m \in Messages : acceptedAt[m] # 0 => m < n
        BY <1>3, AcceptFacts DEF RowsKept
      <3>3. CASE i = n
        <4>1. acceptedAt'[n] = now /\ now \in Nat
          BY <2>1, <3>1 DEF TypeOK, DeduplicationType
        <4>2. \A m \in 1..n-1 : m \in Messages /\ acceptedAt'[m] = acceptedAt[m]
          BY <2>1, <3>1, ParametersAssumption DEF TypeOK, DeduplicationType, Messages
        <4> QED BY <2>4, <2>5, <3>1, <3>3, <4>1, <4>2
      <3>4. CASE i # n
        BY <2>1, <3>1, <3>2, <3>4 DEF RunsApart, TypeOK, DeduplicationType, Messages
      <3> QED BY <3>3, <3>4
    <2>7. RowsKept'
      <3>1. acceptedAt' = [acceptedAt EXCEPT ![n] = now] /\ received' = received /\ now' = now
            /\ at'["mesh"] # "received"
        BY <1>3, AcceptFacts DEF TypeOK, ThreadType
      <3>2. ASSUME NEW m \in Messages, acceptedAt'[m] # 0
            PROVE  /\ m \in Known'
                   /\ acceptedAt'[m] <= now'
                   /\ now' <= acceptedAt'[m] + Window =>
                        expiresAt'[received'[m].identity] >= acceptedAt'[m] + Window
        <4>1. m \in Known /\ received[m].identity \in Identities
          BY <2>1, <3>1, <3>2, RequestWords DEF RowsKept, Request, TypeOK, DeduplicationType
        <4>2. CASE m = n
          BY <2>1, <2>3, <3>1, <4>1, <4>2, ParametersAssumption
             DEF Purged, TypeOK, DeduplicationType, Known
        <4>3. CASE m # n
          <5>1. acceptedAt'[m] = acceptedAt[m] /\ acceptedAt[m] \in Nat /\ now \in Nat
            BY <3>1, <4>3 DEF TypeOK, DeduplicationType
          <5>2. received[m].identity = k => now > acceptedAt[m] + Window
            BY <2>4, <3>2, <5>1
          <5>3. received[m].identity # k =>
                  expiresAt'[received[m].identity] = Purged(expiresAt)[received[m].identity]
            BY <2>1, <2>3, <4>1 DEF Purged
          <5>4. acceptedAt[m] <= now
                /\ (now <= acceptedAt[m] + Window =>
                      expiresAt[received[m].identity] >= acceptedAt[m] + Window)
            BY <3>2, <5>1 DEF RowsKept
          <5> QED BY <3>1, <4>1, <5>1, <5>2, <5>3, <5>4, ParametersAssumption
                  DEF Purged, TypeOK, DeduplicationType, Known
        <4> QED BY <4>2, <4>3
      <3>3. ASSUME NEW s \in Stored, now' <= Window PROVE legacyUntil'[s] = Window
        BY <2>3, <3>1, <3>3, ParametersAssumption
           DEF RowsKept, Purged, TypeOK, DeduplicationType
      <3> QED BY <3>1, <3>2, <3>3 DEF RowsKept
    <2> QED BY <2>6, <2>7
  <1> QED BY <1>1, <1>2, <1>3, QuietSteps

(* Repeats are handled more than the window apart: the row of a message is  *)
(* committed before its handler runs, and only rows that are past their     *)
(* time are deleted.                                                        *)
THEOREM RepeatsApart == Spec => []RunsApart
  <1>1. Init => RowsKept /\ RunsApart
    BY ParametersAssumption DEF Init, RowsKept, RunsApart
  <1>2. TypeOK /\ RowsKept /\ RunsApart /\ [Next]_vars => (RowsKept /\ RunsApart)'
    BY RunsApartStep
  <1> QED BY <1>1, <1>2, TypeCorrect, PTL DEF Spec

-----------------------------------------------------------------------------
(* The mesh message that is past the deduplicator was let through by the    *)
(* checks before it; messages and rows do not change afterwards.            *)
LetThrough(m) == acceptedAt[m] # 0 /\ received[m].channel /\ AllowsRoom(received[m])

Admission == at["mesh"] \notin Before => LetThrough(cur["mesh"])

(* Admission and OnlyAccepted are inductive together. *)
LEMMA OnlyAcceptedStep ==
  ASSUME TypeOK, Admission, OnlyAccepted, [Next]_vars
  PROVE  Admission' /\ OnlyAccepted'
  <1> DEFINE Sound(m) == received[m].task = "mesh" => LetThrough(m)
  <1>1. \A t \in Tasks : at[t] \notin Before => cur[t] \in Known /\ Sound(cur[t])
    <2> SUFFICES ASSUME NEW t \in Tasks, at[t] \notin Before
                 PROVE  cur[t] \in Known /\ Sound(cur[t])
      OBVIOUS
    <2>1. cur[t] \in Known /\ received[cur[t]].task = t
      BY DEF TypeOK, AtMessage, MessageType, Known, Before
    <2> QED BY <2>1 DEF Admission, Tasks
  <1>2. CASE Quiet
    <2>1. Admission'
      BY <1>2 DEF Quiet, Admission, LetThrough, AllowsRoom, Tasks
    <2>2. \A m \in sent' \union ran' : Sound(m)
      BY <1>1, <1>2 DEF Quiet, OnlyAccepted, LetThrough, Before
    <2>3. \A m \in ran' : RequireMessage(received[m], readonly)
      BY <1>2 DEF Quiet, OnlyAccepted
    <2>4. received' = received /\ acceptedAt' = acceptedAt
      BY <1>2 DEF Quiet
    <2> QED BY <2>1, <2>2, <2>3, <2>4
            DEF OnlyAccepted, LetThrough, AllowsRoom, RequireMessage
  <1>3. ASSUME NEW r \in Requests, Receive(r) PROVE Admission' /\ OnlyAccepted'
    <2>1. /\ \A m \in Known : received'[m] = received[m]
          /\ UNCHANGED <<acceptedAt, ran, sent>>
          /\ cur' = [cur EXCEPT ![r.task] = Len(received')]
          /\ at' = [at EXCEPT ![r.task] = IF r.task = "mesh" THEN "received" ELSE "parsing"]
          /\ r.task \in Tasks
      BY <1>3, ReceiveAppends
    <2>2. Admission'
      <3>1. CASE r.task = "mesh"
        BY <2>1, <3>1 DEF Admission, Before, TypeOK, ThreadType
      <3>2. CASE r.task # "mesh"
        <4>1. at'["mesh"] = at["mesh"] /\ cur'["mesh"] = cur["mesh"]
          BY <2>1, <3>2 DEF TypeOK, ThreadType, MessageType, Tasks
        <4>2. at["mesh"] \notin Before => cur["mesh"] \in Known
          BY <1>1 DEF Tasks
        <4> QED BY <2>1, <4>1, <4>2 DEF Admission, LetThrough, AllowsRoom
      <3> QED BY <3>1, <3>2
    <2>3. sent \subseteq Known /\ ran \subseteq Known
      BY DEF TypeOK, MessageType
    <2> QED BY <2>1, <2>2, <2>3 DEF OnlyAccepted, AllowsRoom, RequireMessage
  <1>4. ASSUME NEW place \in {"parsing", "limited"}, Accept(place)
        PROVE  Admission' /\ OnlyAccepted'
    <2>1. /\ received' = received /\ cur' = cur /\ ran' = ran /\ sent' = sent
          /\ acceptedAt' = [acceptedAt EXCEPT ![cur["mesh"]] = now]
          /\ received[cur["mesh"]].channel /\ AllowsRoom(received[cur["mesh"]])
          /\ cur["mesh"] \in Known
      BY <1>4, AcceptFacts
    <2>2. Known \subseteq Messages
      BY ParametersAssumption DEF TypeOK, MessageType, Known, Messages
    <2>3. now # 0 /\ \A m \in Messages : acceptedAt[m] # 0 => acceptedAt'[m] # 0
      BY <2>1 DEF TypeOK, DeduplicationType
    <2>4. acceptedAt'[cur["mesh"]] # 0
      BY <2>1, <2>2, <2>3 DEF TypeOK, DeduplicationType
    <2>5. Admission'
      BY <2>1, <2>4 DEF Admission, LetThrough, AllowsRoom
    <2>6. sent \subseteq Messages /\ ran \subseteq Messages
      BY <2>2 DEF TypeOK, MessageType
    <2> QED BY <2>1, <2>3, <2>5, <2>6 DEF OnlyAccepted, AllowsRoom, RequireMessage
  <1> QED BY <1>2, <1>3, <1>4, QuietSteps

(* What is answered and what is run was let through by the channel and room *)
(* checks and the deduplicator, and handlers run for authorized senders     *)
(* only: the answer is sent and the handler called long after the checks,   *)
(* while the other task receives and restarts come in between.              *)
THEOREM NothingUnaccepted == Spec => []OnlyAccepted
  <1>1. Init => Admission /\ OnlyAccepted
    BY DEF Init, Admission, OnlyAccepted, Before, Tasks
  <1>2. TypeOK /\ Admission /\ OnlyAccepted /\ [Next]_vars => (Admission /\ OnlyAccepted)'
    BY OnlyAcceptedStep
  <1> QED BY <1>1, <1>2, TypeCorrect, PTL DEF Spec

-----------------------------------------------------------------------------
(* The log and the tasks together.  What a task is about to write follows   *)
(* from its place: a message that has not reached its handler has not run,  *)
(* one whose execution is still to be recorded has no such event, and one   *)
(* that a task is at has no response.                                       *)
Active(t) == at[t] \notin {"down", "idle", "failed"}

Unrun == {"received", "duplicate", "limited", "parsing", "authorizing", "plain",
          "forwarding", "unhandled"}
Handling == {"handler", "requesting", "switching", "switched"}
Undone == Unrun \union Handling \union {"executed"}
Refused == {"unknown", "unauthorized"}
Responses == {"response.sent", "response.failed"}

Logged(m, types) ==
  \E e \in EventIds : events[e].type \in types /\ events[e].correlation = m

Stage(t) ==
  /\ at[t] \in Unrun => cur[t] \notin ran /\ result[t] = "ignored"
  /\ at[t] \in Handling => cur[t] \in ran /\ result[t] = "ignored"
  /\ at[t] = "executed" => (result[t] \notin Refused <=> cur[t] \in ran)
  /\ at[t] \in Undone => ~Logged(cur[t], {"command.execution"})
  /\ Active(t) => ~Logged(cur[t], Responses) /\ cur[t] > boot
  /\ at[t] = "answered" => cur[t] \in sent

Stages == \A t \in Tasks : Stage(t)

(* A switched override is not yet logged; its task has kept the thread.     *)
Switched ==
  \A t \in Tasks : at[t] = "switched" =>
    /\ running = t
    /\ override = Override(Cur(t).word)
    /\ Users[Cur(t).sender] = admin

(* The trail of a message holds its latest event and its message.received,  *)
(* or None when the log has none.                                           *)
Own(m) == {d \in EventIds : events[d].correlation = m}
Received(S) == {d \in S : events[d].type = "message.received"}

IsLatest(d, S) == IF S = {} THEN d = 0 ELSE d \in S /\ \A c \in S : c <= d

Trails ==
  \A t \in Tasks : cur[t] # 0 =>
    /\ received[cur[t]].task = t
    /\ IsLatest(trail[t].latest_event_id, Own(cur[t]))
    /\ IsLatest(trail[t].received_event_id, Received(Own(cur[t])))

-----------------------------------------------------------------------------
(* The kinds of steps.  A task writes an event of its message, chained to   *)
(* its trail, or nothing; a message is received; or the process ends.       *)
Writes(t, type, what) ==
  /\ type \in EventTypes \ {"message.received"}
  /\ what \in Details
  /\ Active(t)
  /\ cur[t] # 0
  /\ Insert(t, Event(t, type, what, IF type = "message.ignored"
                                    THEN trail[t].received_event_id
                                    ELSE trail[t].latest_event_id))
  /\ IF type = "command.execution"
     THEN /\ at[t] \in {"executed", "handler"} /\ at'[t] \notin Undone
          /\ what = result[t]
          /\ commands' = commands \union {cur[t]}
     ELSE commands' = commands
  /\ type \in Responses => ~Active(t)'
  /\ type = "response.sent" => at[t] = "answered"
  /\ type = "override.applied" => at[t] = "switched" /\ what = Cur(t).word

Silent == UNCHANGED <<events, trail, commands>>

(* The handler is called, and the log told so. *)
Calls(t) ==
  /\ at[t] = "authorizing" /\ at'[t] \in Handling
  /\ cur[t] \in ran'
  /\ cur[t] \in lost' \/ Writes(t, "command.authorization", "allowed")

(* How a task gets to the places of Stage. *)
StageMoves(t) ==
  /\ Active(t)' => Active(t)
  /\ at'[t] \in Unrun => at[t] \in Unrun /\ result'[t] = result[t]
  /\ at'[t] \in Handling => result'[t] = result[t] /\ (at[t] \in Handling \/ Calls(t))
  /\ at'[t] = "executed" =>
       \/ at[t] = "executed" /\ result'[t] = result[t]
       \/ at[t] \in Unrun /\ result'[t] \in Refused
       \/ at[t] \in Handling /\ result'[t] \notin Refused
  /\ at'[t] = "answered" => at[t] = "answered" \/ cur[t] \in sent'

Moves ==
  /\ UNCHANGED <<received, cur, boot>>
  /\ sent \subseteq sent' /\ lost \subseteq lost' /\ ran \subseteq ran'
  /\ \A m \in ran' : m \in ran \/ \E t \in Tasks : Calls(t) /\ m = cur[t]
  /\ \A t \in Tasks : StageMoves(t)

(* The override is set, and the task that set it logs that next. *)
Sets(t) ==
  /\ at[t] = "switching" /\ at'[t] = "switched"
  /\ running = t /\ running' = t
  /\ override' = Override(Cur(t).word)
  /\ Users[Cur(t).sender] >= admin

SwitchMoves ==
  /\ override' = override \/ \E t \in Tasks : Sets(t)
  /\ \A t \in Tasks : at'[t] = "switched" =>
       Sets(t) \/ (at[t] = "switched" /\ (running = t => running' = t))
  /\ \A t \in Tasks : at[t] = "switched" =>
       at'[t] = "switched" \/ cur[t] \in lost' \/ Writes(t, "override.applied", Cur(t).word)

Forgets == Down /\ UNCHANGED <<events, commands, received, ran, lost>> /\ sent \subseteq sent'

(* A task that stays away from the places where handlers, executions and    *)
(* answers begin moves like this.                                           *)
LEMMA PlainMoves ==
  ASSUME TypeOK, NEW t \in Tasks, NEW place \in Places,
         at' = [at EXCEPT ![t] = place], running' \in {running, t, "none"},
         running \in {t, "none"} \/ running' = running,
         UNCHANGED <<received, cur, boot, ran, override>>,
         sent \subseteq sent', lost \subseteq lost',
         \A u \in Tasks \ {t} : result'[u] = result[u],
         Active(t) \/ place \in {"idle", "failed", "down"},
         place \in Unrun => at[t] \in Unrun /\ result'[t] = result[t],
         place \in Handling => result'[t] = result[t] /\ at[t] \in Handling /\ place # "switched",
         place = "executed" => \/ at[t] \in Unrun /\ result'[t] \in Refused
                               \/ at[t] \in Handling /\ result'[t] \notin Refused,
         place = "answered" => cur[t] \in sent',
         at[t] = "switched" => cur[t] \in lost' \/ Writes(t, "override.applied", Cur(t).word)
  PROVE  Moves /\ SwitchMoves
  <1>1. \A u \in Tasks : at'[u] = IF u = t THEN place ELSE at[u]
    BY DEF TypeOK, ThreadType
  <1>2. \A u \in Tasks : StageMoves(u)
    BY <1>1 DEF StageMoves, Active
  <1>3. SwitchMoves
    <2>1. \A u \in Tasks : at'[u] = "switched" =>
            at[u] = "switched" /\ (running = u => running' = u)
      BY <1>1 DEF Handling, Tasks
    <2>2. \A u \in Tasks : at[u] = "switched" =>
            \/ at'[u] = "switched"
            \/ cur[u] \in lost'
            \/ Writes(u, "override.applied", Cur(u).word)
      BY <1>1
    <2> QED BY <2>1, <2>2 DEF SwitchMoves
  <1> QED BY <1>2, <1>3 DEF Moves

(* message.ignored is written or lost at the end of the message. *)
LEMMA IgnoreSteps ==
  ASSUME TypeOK
  PROVE  Refuse \/ IgnoreDuplicate \/ IgnoreLimited \/ IgnoreUnregistered \/ IgnoreUnhandled =>
           /\ Moves /\ SwitchMoves
           /\ Silent \/ \E reason \in Details : Writes("mesh", "message.ignored", reason)
  <1> USE DEF TypeOK, ThreadType
  <1>1. ASSUME Refuse
        PROVE  /\ Moves /\ SwitchMoves
               /\ Silent \/ \E reason \in Details : Writes("mesh", "message.ignored", reason)
    <2>1. /\ "mesh" \in Tasks /\ cur["mesh"] # 0 /\ Active("mesh") /\ at["mesh"] # "switched"
          /\ commands' = commands /\ lost \subseteq lost'
          /\ \E reason \in Details : RecordIgnored("mesh", reason)
      BY <1>1 DEF Refuse, RecordIgnored, Insert, Lose, AtMessage, Active, Tasks, Details
    <2>2. Moves /\ SwitchMoves
      BY <1>1, <2>1, PlainMoves DEF Refuse, Awaits, history, Places, Unrun, Handling
    <2>3. Silent \/ \E reason \in Details : Writes("mesh", "message.ignored", reason)
      BY <2>1 DEF RecordIgnored, Lose, Silent, Writes, EventTypes, Responses
    <2> QED BY <2>2, <2>3
  <1>2. ASSUME IgnoreDuplicate
        PROVE  /\ Moves /\ SwitchMoves
               /\ Silent \/ \E reason \in Details : Writes("mesh", "message.ignored", reason)
    <2>1. /\ "mesh" \in Tasks /\ cur["mesh"] # 0 /\ Active("mesh") /\ at["mesh"] # "switched"
          /\ commands' = commands /\ lost \subseteq lost'
          /\ \E reason \in Details : RecordIgnored("mesh", reason)
      BY <1>2 DEF IgnoreDuplicate, RecordIgnored, Insert, Lose, AtMessage, Active, Tasks, Details
    <2>2. Moves /\ SwitchMoves
      BY <1>2, <2>1, PlainMoves DEF IgnoreDuplicate, Awaits, history, Places, Unrun, Handling
    <2>3. Silent \/ \E reason \in Details : Writes("mesh", "message.ignored", reason)
      BY <2>1 DEF RecordIgnored, Lose, Silent, Writes, EventTypes, Responses
    <2> QED BY <2>2, <2>3
  <1>3. ASSUME IgnoreLimited
        PROVE  /\ Moves /\ SwitchMoves
               /\ Silent \/ \E reason \in Details : Writes("mesh", "message.ignored", reason)
    <2>1. /\ "mesh" \in Tasks /\ cur["mesh"] # 0 /\ Active("mesh") /\ at["mesh"] # "switched"
          /\ commands' = commands /\ lost \subseteq lost'
          /\ \E reason \in Details : RecordIgnored("mesh", reason)
      BY <1>3 DEF IgnoreLimited, RecordIgnored, Insert, Lose, AtMessage, Active, Tasks, Details
    <2>2. Moves /\ SwitchMoves
      BY <1>3, <2>1, PlainMoves DEF IgnoreLimited, Awaits, history, Places, Unrun, Handling
    <2>3. Silent \/ \E reason \in Details : Writes("mesh", "message.ignored", reason)
      BY <2>1 DEF RecordIgnored, Lose, Silent, Writes, EventTypes, Responses
    <2> QED BY <2>2, <2>3
  <1>4. ASSUME IgnoreUnregistered
        PROVE  /\ Moves /\ SwitchMoves
               /\ Silent \/ \E reason \in Details : Writes("mesh", "message.ignored", reason)
    <2>1. /\ "mesh" \in Tasks /\ cur["mesh"] # 0 /\ Active("mesh") /\ at["mesh"] # "switched"
          /\ commands' = commands /\ lost \subseteq lost'
          /\ \E reason \in Details : RecordIgnored("mesh", reason)
      BY <1>4 DEF IgnoreUnregistered, RecordIgnored, Insert, Lose, AtMessage, Active, Tasks, Details
    <2>2. Moves /\ SwitchMoves
      BY <1>4, <2>1, PlainMoves DEF IgnoreUnregistered, Awaits, history, Places, Unrun, Handling
    <2>3. Silent \/ \E reason \in Details : Writes("mesh", "message.ignored", reason)
      BY <2>1 DEF RecordIgnored, Lose, Silent, Writes, EventTypes, Responses
    <2> QED BY <2>2, <2>3
  <1>5. ASSUME IgnoreUnhandled
        PROVE  /\ Moves /\ SwitchMoves
               /\ Silent \/ \E reason \in Details : Writes("mesh", "message.ignored", reason)
    <2>1. /\ "mesh" \in Tasks /\ cur["mesh"] # 0 /\ Active("mesh") /\ at["mesh"] # "switched"
          /\ commands' = commands /\ lost \subseteq lost'
          /\ \E reason \in Details : RecordIgnored("mesh", reason)
      BY <1>5 DEF IgnoreUnhandled, RecordIgnored, Insert, Lose, AtMessage, Active, Tasks, Details
    <2>2. Moves /\ SwitchMoves
      BY <1>5, <2>1, PlainMoves DEF IgnoreUnhandled, Awaits, history, Places, Unrun, Handling
    <2>3. Silent \/ \E reason \in Details : Writes("mesh", "message.ignored", reason)
      BY <2>1 DEF RecordIgnored, Lose, Silent, Writes, EventTypes, Responses
    <2> QED BY <2>2, <2>3
  <1> QED BY <1>1, <1>2, <1>3, <1>4, <1>5

(* The steps that leave the log alone. *)
LEMMA SilentSteps ==
  ASSUME TypeOK
  PROVE  Duplicate \/ (\E place \in {"parsing", "limited"} : Accept(place)) \/ DeduplicateFails
         \/ Forward \/ ForwardHandled \/ ForwardNotHandled =>
           Moves /\ SwitchMoves /\ Silent
  <1> USE DEF TypeOK, ThreadType
  <1>1. ASSUME NEW place \in {"parsing", "limited"}, Accept(place) PROVE Moves /\ SwitchMoves /\ Silent
    <2>1. "mesh" \in Tasks /\ Active("mesh") /\ at["mesh"] \in Unrun /\ place \in Places
      BY <1>1 DEF Accept, Admitted, Active, Unrun, Tasks, Places
    <2> QED BY <1>1, <2>1, PlainMoves
            DEF Accept, Admitted, GoesOn, local, audit, Unrun, Handling, Silent
  <1>2. ASSUME Duplicate PROVE Moves /\ SwitchMoves /\ Silent
    <2>1. "mesh" \in Tasks /\ Active("mesh") /\ at["mesh"] \in Unrun
      BY <1>2 DEF Duplicate, Admitted, Active, Unrun, Tasks
    <2> QED BY <1>2, <2>1, PlainMoves
            DEF Duplicate, Admitted, GoesOn, local, audit, history, Places, Unrun, Handling, Silent
  <1>3. ASSUME DeduplicateFails PROVE Moves /\ SwitchMoves /\ Silent
    <2>1. "mesh" \in Tasks /\ Active("mesh") /\ at["mesh"] \in Unrun
      BY <1>3 DEF DeduplicateFails, Admitted, Active, Unrun, Tasks
    <2> QED BY <1>3, <2>1, PlainMoves
            DEF DeduplicateFails, Admitted, Fault, Awaits, local, audit, history, Places, Unrun, Handling, Silent
  <1>4. ASSUME Forward PROVE Moves /\ SwitchMoves /\ Silent
    <2>1. "mesh" \in Tasks /\ Active("mesh") /\ at["mesh"] \in Unrun
      BY <1>4 DEF Forward, Active, Unrun, Tasks
    <2> QED BY <1>4, <2>1, PlainMoves
            DEF Forward, Awaits, local, audit, history, Places, Unrun, Handling, Silent
  <1>5. ASSUME ForwardHandled PROVE Moves /\ SwitchMoves /\ Silent
    <2>1. "mesh" \in Tasks /\ Active("mesh") /\ at["mesh"] \in Unrun
      BY <1>5 DEF ForwardHandled, Active, Unrun, Tasks
    <2> QED BY <1>5, <2>1, PlainMoves
            DEF ForwardHandled, local, audit, history, Places, Unrun, Handling, Silent
  <1>6. ASSUME ForwardNotHandled PROVE Moves /\ SwitchMoves /\ Silent
    <2>1. "mesh" \in Tasks /\ Active("mesh") /\ at["mesh"] \in Unrun
      BY <1>6 DEF ForwardNotHandled, Active, Unrun, Tasks
    <2> QED BY <1>6, <2>1, PlainMoves
            DEF ForwardNotHandled, Resumes, local, audit, history, Places, Unrun, Handling, Silent
  <1> QED BY <1>1, <1>2, <1>3, <1>4, <1>5, <1>6

(* A child event that its place allows is written or lost. *)
LEMMA RecordWrites ==
  ASSUME NEW t \in Tasks, NEW type \in EventTypes \ {"message.received", "message.ignored",
                                                    "command.execution"},
         NEW what \in Details, Record(t, type, what), Active(t), cur[t] # 0,
         commands' = commands,
         type \in Responses => ~Active(t)',
         type = "response.sent" => at[t] = "answered",
         type = "override.applied" => at[t] = "switched" /\ what = Cur(t).word
  PROVE  /\ lost \subseteq lost'
         /\ \/ Writes(t, type, what)
            \/ cur[t] \in lost' /\ Silent
  BY DEF Record, Insert, Lose, Writes, Silent

(* So is the execution. *)
LEMMA ExecutionWrites ==
  ASSUME TypeOK, NEW t \in Tasks, WriteExecution(t), at[t] \in {"executed", "handler"}, cur[t] # 0,
         at'[t] \notin Undone
  PROVE  /\ lost \subseteq lost'
         /\ \/ Writes(t, "command.execution", result[t])
            \/ Silent
  <1>1. result[t] \in Details
    BY DEF TypeOK, MessageType, Details
  <1>2. CASE Insert(t, Event(t, "command.execution", result[t], trail[t].latest_event_id))
             /\ commands' = commands \union {cur[t]}
    BY <1>1, <1>2 DEF Insert, Writes, Active, EventTypes, Responses
  <1>3. CASE Lose(t) /\ UNCHANGED commands
    BY <1>3 DEF Lose, Silent
  <1> QED BY <1>2, <1>3 DEF WriteExecution

(* The steps of the router and of the handlers. *)
LEMMA RouterSteps ==
  ASSUME TypeOK, NEW t \in Tasks, Router(t)
  PROVE  /\ Moves /\ SwitchMoves
         /\ Silent \/ \E type \in EventTypes, what \in Details : Writes(t, type, what)
  <1> DEFINE Goal == /\ Moves /\ SwitchMoves
                     /\ Silent \/ \E type \in EventTypes, what \in Details : Writes(t, type, what)
  <1> HIDE DEF Goal
  <1>a. at \in [Tasks -> Places] /\ result \in [Tasks -> Results] /\ t \in Tasks
    BY DEF TypeOK, ThreadType, MessageType
  <1>b. at[t] \notin {"down", "idle", "failed"} => Active(t) /\ cur[t] # 0 /\ cur[t] \in Known
    BY DEF TypeOK, AtMessage, MessageType, Active, Known
  <1>c. at[t] \notin {"down", "idle", "failed"} => Cur(t).word \in Details
    BY <1>b, RequestWords DEF Cur, Request, Details
  <1>1. ASSUME Parse(t) PROVE Goal
    <2>1. ParseResult(Cur(t).word) \in Details
      BY DEF ParseResult, Details, Results
    <2>2. lost \subseteq lost' /\ (Writes(t, "command.parsed", ParseResult(Cur(t).word)) \/ Silent)
      BY <1>1, <1>a, <1>b, <2>1, RecordWrites DEF Parse, EventTypes, Responses
    <2> DEFINE place == AfterParse[ParseResult(Cur(t).word)]
    <2>3. place \in {"plain", "executed", "authorizing"}
          /\ (place = "executed" => Cur(t).word = "unknown")
          /\ (Cur(t).word = "unknown" => place = "executed")
      BY DEF AfterParse, ParseResult
    <2>4. result'[t] = IF Cur(t).word = "unknown" THEN "unknown" ELSE result[t]
      BY <1>1, <1>a DEF Parse
    <2>5. at' = [at EXCEPT ![t] = place] /\ running = t /\ running' = running
      BY <1>1 DEF Parse, GoesOn
    <2>6. \A u \in Tasks \ {t} : result'[u] = result[u]
      BY <1>1, <1>a DEF Parse
    <2>7. UNCHANGED <<received, cur, boot, ran, override, sent>> /\ at[t] = "parsing"
      BY <1>1 DEF Parse, history
    <2> HIDE DEF place
    <2>8. Moves /\ SwitchMoves
      BY <1>b, <2>2, <2>3, <2>4, <2>5, <2>6, <2>7, PlainMoves
         DEF Places, Unrun, Handling, Refused
    <2> QED BY <2>1, <2>2, <2>8 DEF Goal, EventTypes
  <1>2. ASSUME Deny(t) PROVE Goal
    <2>1. lost \subseteq lost' /\ (Writes(t, "command.authorization", "denied") \/ Silent)
      BY <1>2, <1>b, RecordWrites DEF Deny, EventTypes, Details, Responses
    <2>2. Moves /\ SwitchMoves
      BY <1>2, <1>a, <1>b, <2>1, PlainMoves
         DEF Deny, GoesOn, history, Places, Unrun, Handling, Refused
    <2> QED BY <2>1, <2>2 DEF Goal, EventTypes, Details
  <1>3. ASSUME Allow(t) PROVE Goal
    <2>1. /\ lost \subseteq lost'
          /\ \/ Writes(t, "command.authorization", "allowed")
             \/ cur[t] \in lost' /\ Silent
      BY <1>3, <1>b, RecordWrites DEF Allow, EventTypes, Details, Responses
    <2>2. /\ at[t] = "authorizing" /\ ran' = ran \union {cur[t]}
          /\ UNCHANGED <<received, cur, result, override, sent, boot>>
          /\ \E place \in {"handler", "requesting"} : at' = [at EXCEPT ![t] = place]
          /\ running = t /\ running' \in {t, "none"}
      BY <1>3 DEF Allow, Awaits, GoesOn
    <2>3. \A u \in Tasks : at'[u] = at[u] \/ (u = t /\ at'[u] \in {"handler", "requesting"})
      BY <1>a, <2>2
    <2>4. Calls(t)
      BY <1>a, <2>1, <2>2 DEF Calls, Handling
    <2>5. \A u \in Tasks : StageMoves(u)
      BY <1>b, <2>2, <2>3, <2>4 DEF StageMoves, Active, Unrun, Handling
    <2>6. Moves
      BY <2>1, <2>2, <2>4, <2>5 DEF Moves
    <2>7. SwitchMoves
      BY <2>2, <2>3, <1>a DEF SwitchMoves, Tasks
    <2> QED BY <2>1, <2>6, <2>7 DEF Goal, EventTypes, Details
  <1>4. ASSUME HandlerEnds(t) PROVE Goal
    <2>1. Moves /\ SwitchMoves
      BY <1>4, <1>a, <1>b, PlainMoves
         DEF HandlerEnds, Resumes, history, Places, Unrun, Handling, Refused
    <2> QED BY <1>4, <2>1 DEF Goal, HandlerEnds, Silent, audit
  <1>5. ASSUME RecordRequested(t) PROVE Goal
    <2>1. lost \subseteq lost' /\ (Writes(t, "override.requested", Cur(t).word) \/ Silent)
      BY <1>5, <1>b, <1>c, RecordWrites DEF RecordRequested, EventTypes, Responses
    <2>2. Moves /\ SwitchMoves
      BY <1>5, <1>a, <1>b, <2>1, PlainMoves
         DEF RecordRequested, GoesOn, history, Places, Unrun, Handling
    <2> QED BY <1>5, <1>c, <2>1, <2>2 DEF Goal, EventTypes, RecordRequested
  <1>6. ASSUME DenyOverride(t) PROVE Goal
    <2>1. lost \subseteq lost' /\ (Writes(t, "override.denied", Cur(t).word) \/ Silent)
      BY <1>6, <1>b, <1>c, RecordWrites DEF DenyOverride, EventTypes, Responses
    <2>2. Moves /\ SwitchMoves
      BY <1>6, <1>a, <1>b, <2>1, PlainMoves
         DEF DenyOverride, GoesOn, history, Places, Unrun, Handling, Refused
    <2> QED BY <1>6, <1>c, <2>1, <2>2 DEF Goal, EventTypes, DenyOverride
  <1>7. ASSUME SetOverride(t) PROVE Goal
    <2>1. Sets(t) /\ UNCHANGED <<received, cur, boot, ran, sent, lost, result>> /\ Silent
          /\ at' = [at EXCEPT ![t] = "switched"]
      BY <1>7, <1>a DEF SetOverride, Sets, GoesOn, local, audit, history, Silent
    <2>2. \A u \in Tasks : at'[u] = at[u] \/ (u = t /\ at'[u] = "switched" /\ at[u] = "switching")
      BY <1>a, <2>1 DEF Sets
    <2>3. Moves
      BY <1>a, <2>1, <2>2 DEF Moves, StageMoves, Active, Unrun, Handling
    <2>4. SwitchMoves
      BY <2>1, <2>2 DEF SwitchMoves, Sets
    <2> QED BY <2>1, <2>3, <2>4 DEF Goal
  <1>8. ASSUME RecordApplied(t) PROVE Goal
    <2>1. /\ lost \subseteq lost'
          /\ \/ Writes(t, "override.applied", Cur(t).word)
             \/ cur[t] \in lost' /\ Silent
      BY <1>8, <1>b, <1>c, RecordWrites DEF RecordApplied, EventTypes, Responses
    <2>2. Moves /\ SwitchMoves
      BY <1>8, <1>a, <1>b, <2>1, PlainMoves
         DEF RecordApplied, GoesOn, history, Places, Unrun, Handling, Refused
    <2> QED BY <1>8, <1>c, <2>1, <2>2 DEF Goal, EventTypes, RecordApplied
  <1>9. ASSUME RecordExecution(t) PROVE Goal
    <2>1. at'[t] = "sending"
      BY <1>9, <1>a DEF RecordExecution, Awaits
    <2>2. lost \subseteq lost' /\ (Writes(t, "command.execution", result[t]) \/ Silent)
      BY <1>9, <1>b, <2>1, ExecutionWrites DEF RecordExecution, Undone, Unrun, Handling
    <2>3. Moves /\ SwitchMoves
      BY <1>9, <1>a, <1>b, <2>2, PlainMoves
         DEF RecordExecution, Awaits, history, Places, Unrun, Handling
    <2>4. result[t] \in Details
      BY <1>a DEF Details
    <2> QED BY <2>2, <2>3, <2>4 DEF Goal, EventTypes
  <1> QED BY <1>1, <1>2, <1>3, <1>4, <1>5, <1>6, <1>7, <1>8, <1>9 DEF Router, Goal

(* The steps of an answer. *)
LEMMA AnswerSteps ==
  ASSUME TypeOK, NEW t \in Tasks, Answer(t)
  PROVE  /\ Moves /\ SwitchMoves
         /\ Silent \/ \E type \in EventTypes, what \in Details : Writes(t, type, what)
  <1>a. at \in [Tasks -> Places]
    BY DEF TypeOK, ThreadType
  <1>b. at[t] \notin {"down", "idle", "failed"} => Active(t) /\ cur[t] # 0
    BY DEF TypeOK, AtMessage, Active
  <1>1. CASE SendAccepted(t)
    <2>1. Moves /\ SwitchMoves
      BY <1>1, <1>a, <1>b, PlainMoves
         DEF SendAccepted, Resumes, local, Places, Unrun, Handling
    <2> QED BY <1>1, <2>1 DEF SendAccepted, Silent, local, audit
  <1>2. CASE SendFails(t)
    <2>1. Moves /\ SwitchMoves
      BY <1>2, <1>a, <1>b, PlainMoves
         DEF SendFails, Resumes, local, Places, Unrun, Handling
    <2> QED BY <1>2, <2>1 DEF SendFails, Silent, local, audit
  <1>3. CASE RecordResponse(t)
    <2> DEFINE type == IF at[t] = "answered" THEN "response.sent" ELSE "response.failed"
    <2>1. Record(t, type, "none") /\ commands' = commands /\ Active(t) /\ cur[t] # 0
          /\ \E place \in {"idle", "failed"} : at' = [at EXCEPT ![t] = place]
          /\ running = t /\ running' = "none"
      BY <1>3, <1>b DEF RecordResponse, Record, Awaits
    <2>2. type \in Responses /\ (type = "response.sent" => at[t] = "answered")
      BY DEF Responses
    <2>3. at'[t] \in {"idle", "failed"}
      BY <1>a, <2>1
    <2> HIDE DEF type
    <2>4. lost \subseteq lost' /\ (Writes(t, type, "none") \/ Silent)
      BY <2>1, <2>2, <2>3, RecordWrites DEF Responses, EventTypes, Details, Active
    <2>5. Moves /\ SwitchMoves
      <3>1. UNCHANGED <<received, cur, boot, ran, sent, override, result>> /\ at[t] # "switched"
        BY <1>3 DEF RecordResponse, history
      <3> QED BY <2>1, <2>4, <3>1, PlainMoves DEF Places, Unrun, Handling
    <2> QED BY <2>2, <2>4, <2>5 DEF Responses, EventTypes, Details
  <1> QED BY <1>1, <1>2, <1>3 DEF Answer

(* A task that is cancelled. *)
LEMMA CancelSteps ==
  ASSUME TypeOK, NEW t \in Tasks, Cancel(t)
  PROVE  /\ Moves /\ SwitchMoves
         /\ Silent \/ \E type \in EventTypes, what \in Details : Writes(t, type, what)
  <1>1. at' = [at EXCEPT ![t] = "failed"] /\ at'[t] = "failed" /\ at[t] # "switched"
        /\ running = "none" /\ running' = running
        /\ UNCHANGED <<received, cur, boot, ran, override, result>>
    BY DEF Cancel, TypeOK, ThreadType
  <1>2. CASE at[t] \in {"idle", "forwarding", "sending"}
    <2>1. Silent /\ lost' = lost /\ sent \subseteq sent'
      BY <1>2 DEF Cancel, Silent, audit
    <2> QED BY <1>1, <2>1, PlainMoves DEF Places, Unrun, Handling
  <1>3. CASE at[t] = "handler"
    <2>1. WriteExecution(t) /\ sent' = sent /\ cur[t] # 0
      BY <1>3 DEF Cancel, TypeOK, AtMessage
    <2>2. lost \subseteq lost' /\ (Writes(t, "command.execution", result[t]) \/ Silent)
      BY <1>1, <1>3, <2>1, ExecutionWrites DEF Undone, Unrun, Handling
    <2>3. Moves /\ SwitchMoves
      BY <1>1, <1>3, <2>1, <2>2, PlainMoves DEF Places, Unrun, Handling, Active
    <2> QED BY <2>2, <2>3 DEF EventTypes, Details, TypeOK, MessageType
  <1> QED BY <1>2, <1>3 DEF Cancel

(* Every step is one of those kinds. *)
LEMMA StepKinds ==
  ASSUME TypeOK, [Next]_vars
  PROVE  \/ /\ Moves /\ SwitchMoves
            /\ \/ Silent
               \/ \E t \in Tasks, type \in EventTypes, what \in Details : Writes(t, type, what)
         \/ \E r \in Requests : Receive(r)
         \/ Forgets
  <1> DEFINE Works == /\ Moves /\ SwitchMoves
                      /\ \/ Silent
                         \/ \E t \in Tasks, type \in EventTypes, what \in Details :
                              Writes(t, type, what)
  <1> HIDE DEF Works
  <1> SUFFICES Works \/ (\E r \in Requests : Receive(r)) \/ Forgets
    BY DEF Works
  <1>1. ASSUME NEW t \in Tasks, TaskStep(t) PROVE Works
    <2>1. CASE Router(t)
      BY <2>1, RouterSteps DEF Works
    <2>2. CASE Answer(t)
      BY <2>2, AnswerSteps DEF Works
    <2>3. CASE MeshTask
      <3>1. "mesh" \in Tasks /\ "message.ignored" \in EventTypes
        BY DEF Tasks, EventTypes
      <3> QED BY <2>3, <3>1, IgnoreSteps, SilentSteps DEF MeshTask, Works
    <2> QED BY <1>1, <2>1, <2>2, <2>3 DEF TaskStep
  <1>2. ASSUME NEW t \in Tasks, Cancel(t) PROVE Works
    BY <1>2, CancelSteps DEF Works
  <1>3. CASE End \/ Kill
    BY <1>3 DEF End, Kill, Forgets, audit
  <1>4. CASE Start
    <2>1. \A t \in Tasks : at'[t] = "idle" /\ at[t] = "down"
      BY <1>4 DEF Start
    <2> QED BY <1>4, <2>1 DEF Works, Start, local, audit, history, Moves, SwitchMoves, StageMoves,
            Silent, Active, Unrun, Handling
  <1>5. CASE Tick \/ UNCHANGED vars
    BY <1>5 DEF Works, Tick, vars, thread, local, audit, history, Moves, SwitchMoves, StageMoves, Silent,
       Active
  <1> QED BY <1>1, <1>2, <1>3, <1>4, <1>5 DEF Next, Shutdown

-----------------------------------------------------------------------------
(* What an appended event changes of the log. *)
LEMMA Appended ==
  ASSUME TypeOK, NEW event, events' = Append(events, event)
  PROVE  /\ Len(events) + 1 \in Nat /\ Len(events') = Len(events) + 1
         /\ EventIds' = EventIds \union {Len(events) + 1}
         /\ Len(events) + 1 \notin EventIds
         /\ \A e \in EventIds : e < Len(events) + 1 /\ e \in Nat /\ events'[e] = events[e]
         /\ events'[Len(events) + 1] = event
  BY DEF TypeOK, AuditType, EventIds

LEMMA OwnAppended ==
  ASSUME TypeOK, NEW event, events' = Append(events, event), NEW m, NEW types
  PROVE  /\ Own(m)' = IF event.correlation = m THEN Own(m) \union {Len(events) + 1} ELSE Own(m)
         /\ Received(Own(m))' = IF event.correlation = m /\ event.type = "message.received"
                                THEN Received(Own(m)) \union {Len(events) + 1}
                                ELSE Received(Own(m))
         /\ Logged(m, types)' <=> \/ Logged(m, types)
                                  \/ event.type \in types /\ event.correlation = m
  <1>1. Own(m)' = IF event.correlation = m THEN Own(m) \union {Len(events) + 1} ELSE Own(m)
    BY Appended DEF Own
  <1>2. Received(Own(m))' = IF event.correlation = m /\ event.type = "message.received"
                            THEN Received(Own(m)) \union {Len(events) + 1}
                            ELSE Received(Own(m))
    <2>1. /\ \A d \in Own(m) : events'[d] = events[d]
          /\ events'[Len(events) + 1] = event
      BY Appended DEF Own
    <2>2. Received(Own(m))' = {d \in Own(m)' : events'[d].type = "message.received"}
      BY DEF Received
    <2>3. Received(Own(m)) = {d \in Own(m) : events[d].type = "message.received"}
      BY DEF Received
    <2>4. CASE event.correlation # m
      BY <1>1, <2>1, <2>2, <2>3, <2>4
    <2>5. CASE event.correlation = m
      <3>1. Own(m)' = Own(m) \union {Len(events) + 1}
        BY <1>1, <2>5
      <3>2. CASE event.type = "message.received"
        BY <2>1, <2>2, <2>3, <2>5, <3>1, <3>2
      <3>3. CASE event.type # "message.received"
        BY <2>1, <2>2, <2>3, <3>1, <3>3
      <3> QED BY <3>2, <3>3
    <2> QED BY <2>4, <2>5
  <1>3. Logged(m, types)' <=> \/ Logged(m, types)
                              \/ event.type \in types /\ event.correlation = m
    BY Appended DEF Logged
  <1> QED BY <1>1, <1>2, <1>3

(* The parents of an old event stay; those of the new one are the events of *)
(* its message so far.                                                      *)
LEMMA EarlierAppended ==
  ASSUME TypeOK, NEW event, events' = Append(events, event), NEW n, n = Len(events) + 1
  PROVE  /\ \A e \in EventIds : /\ Earlier(e)' = Earlier(e)
                                /\ Received(Earlier(e))' = Received(Earlier(e))
         /\ Earlier(n)' = Own(event.correlation)
         /\ Received(Earlier(n))' = Received(Own(event.correlation))
  <1>1. \A e \in EventIds : \A d \in 1..e-1 : d \in EventIds
    BY DEF EventIds, TypeOK, AuditType
  <1>2. 1..n-1 = EventIds /\ n \notin EventIds
    BY DEF EventIds, TypeOK, AuditType
  <1>3. \A e \in EventIds : Earlier(e)' = Earlier(e)
    BY <1>1, Appended DEF Earlier
  <1>4. Earlier(n)' = Own(event.correlation)
    BY <1>2, Appended DEF Earlier, Own
  <1>5. \A e \in EventIds : Received(Earlier(e))' = Received(Earlier(e))
    BY <1>1, Appended DEF Earlier, Received
  <1>6. Received(Earlier(n))' = Received(Own(event.correlation))
    BY <1>2, Appended DEF Earlier, Own, Received
  <1> QED BY <1>3, <1>4, <1>5, <1>6

(* What Receive does to the log and to its task. *)
LEMMA ReceiveLogs ==
  ASSUME TypeOK, NEW r \in Requests, Receive(r)
  PROVE  /\ \/ \E event : /\ events' = Append(events, event)
                          /\ event.type = "message.received"
                          /\ event.correlation = Len(received')
                          /\ event.causation = 0
                          /\ trail'[r.task] = [received_event_id |-> Len(events'),
                                               latest_event_id |-> Len(events')]
            \/ events' = events /\ trail'[r.task] = NoTrail
         /\ \A u \in Tasks \ {r.task} : trail'[u] = trail[u] /\ result'[u] = result[u]
         /\ result'[r.task] = "ignored"
         /\ lost \subseteq lost'
         /\ UNCHANGED <<commands, override, ran, sent, boot>>
         /\ running = "none"
  <1>1. r.task \in Tasks /\ trail \in [Tasks -> [received_event_id : Nat, latest_event_id : Nat]]
        /\ result \in [Tasks -> Results]
    BY ReceiveAppends DEF TypeOK, AuditType, MessageType
  <1> QED BY <1>1 DEF Receive, Resumes, history

(* No event is of a message that is not received yet. *)
LEMMA NothingAhead ==
  ASSUME TypeOK
  PROVE  \A e \in EventIds : /\ events[e].correlation \in Known
                             /\ events[e].correlation <= Len(received)
                             /\ events[e].correlation # Len(received) + 1
  <1>1. \A e \in EventIds : events[e] \in AuditEvent
    BY DEF TypeOK, AuditType, EventIds
  <1>2. Len(received) \in Nat
    BY DEF TypeOK, MessageType
  <1> QED BY <1>1, <1>2 DEF AuditEvent, Known

(* The latest of a set is what CausalChain chooses. *)
LEMMA LatestChosen ==
  ASSUME NEW S \in SUBSET Nat, NEW d, IsLatest(d, S)
  PROVE  d = IF S = {} THEN 0 ELSE CHOOSE x \in S : \A c \in S : c <= x
  <1> DEFINE latest == CHOOSE x \in S : \A c \in S : c <= x
  <1> SUFFICES d = IF S = {} THEN 0 ELSE latest
    OBVIOUS
  <1>1. S # {} => d \in S /\ \A c \in S : c <= d
    BY DEF IsLatest
  <1>2. S # {} => latest \in S /\ \A c \in S : c <= latest
    BY <1>1
  <1> HIDE DEF latest
  <1>3. CASE S = {}
    BY <1>3 DEF IsLatest
  <1>4. CASE S # {}
    <2>1. d <= latest /\ latest <= d /\ d \in Nat /\ latest \in Nat
      BY <1>1, <1>2, <1>4
    <2>2. d = latest
      BY <2>1
    <2> QED BY <1>4, <2>2
  <1> QED BY <1>3, <1>4

(* CausalChain, with the latest parent as a relation. *)
Parents(e) == IF events[e].type = "message.ignored" THEN Received(Earlier(e)) ELSE Earlier(e)

Chained == \A e \in EventIds : IsLatest(events[e].causation, Parents(e))

LEMMA ChainedSuffices == TypeOK /\ Chained => CausalChain
  <1> SUFFICES ASSUME TypeOK, Chained, NEW e \in EventIds
               PROVE  events[e].causation =
                        IF Parents(e) = {} THEN 0
                        ELSE CHOOSE d \in Parents(e) : \A c \in Parents(e) : c <= d
    BY DEF CausalChain, Parents, Received
  <1>1. Parents(e) \in SUBSET Nat
    BY DEF Parents, Received, Earlier, EventIds, TypeOK, AuditType
  <1>2. IsLatest(events[e].causation, Parents(e))
    BY DEF Chained
  <1> QED BY <1>1, <1>2, LatestChosen

(* The trails and the chain are inductive together. *)
LEMMA ChainStep ==
  ASSUME TypeOK, Trails, Chained, [Next]_vars
  PROVE  Trails' /\ Chained'
  <1>1. CASE Moves /\ Silent
    <2>1. events' = events /\ trail' = trail /\ received' = received /\ cur' = cur
      BY <1>1 DEF Moves, Silent
    <2>2. Trails'
      BY <2>1 DEF Trails, IsLatest, Own, Received, EventIds
    <2>3. Chained'
      BY <2>1 DEF Chained, IsLatest, Received, Parents, Earlier, EventIds
    <2> QED BY <2>2, <2>3
  <1>2. ASSUME Moves, NEW t \in Tasks, NEW type \in EventTypes, NEW what \in Details,
               Writes(t, type, what)
        PROVE  Trails' /\ Chained'
    <2> DEFINE cause == IF type = "message.ignored" THEN trail[t].received_event_id
                                                    ELSE trail[t].latest_event_id
               event == Event(t, type, what, cause)
    <2> PICK n \in Nat : n = Len(events) + 1
      BY DEF TypeOK, AuditType
    <2>1. /\ events' = Append(events, event) /\ trail' = [trail EXCEPT ![t].latest_event_id = Len(events)']
          /\ type # "message.received" /\ cur[t] # 0
          /\ UNCHANGED <<received, cur>>
      BY <1>2 DEF Writes, Insert, Moves
    <2>2. event.type = type /\ event.correlation = cur[t] /\ event.causation = cause
      BY DEF Event
    <2> HIDE DEF event
    <2>3. /\ trail'[t].latest_event_id = n
          /\ trail'[t].received_event_id = trail[t].received_event_id
          /\ \A u \in Tasks \ {t} : trail'[u] = trail[u]
      BY <2>1, Appended DEF TypeOK, AuditType
    <2>4. Trails'
      <3> SUFFICES ASSUME NEW u \in Tasks, cur[u] # 0
                   PROVE  /\ received[cur[u]].task = u
                          /\ IsLatest(trail'[u].latest_event_id, Own(cur[u])')
                          /\ IsLatest(trail'[u].received_event_id, Received(Own(cur[u]))')
        BY <2>1 DEF Trails, IsLatest, Own, Received, EventIds
      <3>1. CASE u = t
        <4>1. Own(cur[t])' = Own(cur[t]) \union {n} /\ Received(Own(cur[t]))' = Received(Own(cur[t]))
          BY <2>1, <2>2, OwnAppended DEF Own
        <4>2. Own(cur[t]) \subseteq EventIds
          BY DEF Own
        <4>3. IsLatest(trail'[t].latest_event_id, Own(cur[t])')
          BY <2>3, <4>1, <4>2, Appended, <2>1 DEF IsLatest
        <4>4. received[cur[t]].task = t
              /\ IsLatest(trail[t].received_event_id, Received(Own(cur[t])))
          BY <2>1 DEF Trails
        <4> QED BY <2>3, <3>1, <4>1, <4>3, <4>4
      <3>2. CASE u # t
        <4>1. received[cur[u]].task = u /\ received[cur[t]].task = t
              /\ IsLatest(trail[u].latest_event_id, Own(cur[u]))
              /\ IsLatest(trail[u].received_event_id, Received(Own(cur[u])))
          BY <2>1 DEF Trails
        <4>2. Own(cur[u])' = Own(cur[u]) /\ Received(Own(cur[u]))' = Received(Own(cur[u]))
          BY <2>1, <2>2, <3>2, <4>1, OwnAppended
        <4> QED BY <2>3, <3>2, <4>1, <4>2
      <3> QED BY <3>1, <3>2
    <2>5. Chained'
      <3>1. ASSUME NEW e \in EventIds PROVE IsLatest(events'[e].causation, Parents(e)')
        <4>1. events'[e] = events[e] /\ Parents(e)' = Parents(e)
          BY <2>1, Appended, EarlierAppended DEF Parents
        <4> QED BY <4>1 DEF Chained
      <3>2. IsLatest(events'[n].causation, Parents(n)')
        <4>1. events'[n] = event
          BY <2>1, Appended
        <4>2. CASE type = "message.ignored"
          <5>1. Received(Earlier(n))' = Received(Own(cur[t]))
            BY <2>1, <2>2, EarlierAppended
          <5> QED BY <2>1, <2>2, <4>1, <4>2, <5>1 DEF Parents, Trails
        <4>3. CASE type # "message.ignored"
          <5>1. Earlier(n)' = Own(cur[t])
            BY <2>1, <2>2, EarlierAppended
          <5> QED BY <2>1, <2>2, <4>1, <4>3, <5>1 DEF Parents, Trails
        <4> QED BY <4>2, <4>3
      <3>3. EventIds' = EventIds \union {n}
        BY <2>1, Appended
      <3> QED BY <3>1, <3>2, <3>3 DEF Chained, IsLatest
    <2> QED BY <2>4, <2>5
  <1>3. ASSUME NEW r \in Requests, Receive(r) PROVE Trails' /\ Chained'
    <2> PICK m \in Nat : m = Len(received')
      BY <1>3, ReceiveAppends
    <2>1. /\ r.task \in Tasks /\ received'[m] = r /\ m = Len(received) + 1 /\ Len(received) \in Nat
          /\ cur' = [cur EXCEPT ![r.task] = m]
          /\ \A k \in Known : received'[k] = received[k]
      BY <1>3, ReceiveAppends
    <2>2. cur'[r.task] = m /\ \A u \in Tasks \ {r.task} : cur'[u] = cur[u] /\ cur[u] \in 0..Len(received)
      BY <2>1 DEF TypeOK, MessageType
    <2>3. Own(m) = {} /\ Received(Own(m)) = {}
      BY <2>1, NothingAhead DEF Own, Received
    <2>4. ASSUME NEW u \in Tasks \ {r.task}, cur[u] # 0
          PROVE  cur[u] \in Known /\ cur[u] # m /\ received'[cur[u]].task = u
      BY <2>1, <2>2, <2>4 DEF Known, Trails
    <2>5. \A u \in Tasks \ {r.task} : trail'[u] = trail[u]
      BY <1>3, ReceiveLogs
    <2> DEFINE OwnNext(k) == {d \in EventIds' : events'[d].correlation = k}
               ReceivedNext(k) == {d \in OwnNext(k) : events'[d].type = "message.received"}
    <2>6. ASSUME IsLatest(trail'[r.task].latest_event_id, OwnNext(m)),
                 IsLatest(trail'[r.task].received_event_id, ReceivedNext(m)),
                 \A k : k # m => OwnNext(k) = Own(k) /\ ReceivedNext(k) = Received(Own(k))
          PROVE  Trails'
      <3> SUFFICES ASSUME NEW u \in Tasks, cur'[u] # 0
                   PROVE  /\ received'[cur'[u]].task = u
                          /\ IsLatest(trail'[u].latest_event_id, OwnNext(cur'[u]))
                          /\ IsLatest(trail'[u].received_event_id, ReceivedNext(cur'[u]))
        BY DEF Trails, IsLatest, Own, Received
      <3> HIDE DEF OwnNext, ReceivedNext
      <3>1. CASE u = r.task
        BY <2>1, <2>2, <2>6, <3>1
      <3>2. CASE u # r.task
        <4>1. cur'[u] = cur[u] /\ trail'[u] = trail[u] /\ cur[u] # 0
          BY <2>2, <2>5, <3>2
        <4>2. cur[u] # m /\ received'[cur[u]].task = u
          BY <2>4, <3>2, <4>1
        <4> QED BY <2>6, <4>1, <4>2 DEF Trails
      <3> QED BY <3>1, <3>2
    <2>a. \A k : OwnNext(k) = Own(k)' /\ ReceivedNext(k) = Received(Own(k))'
      BY DEF Own, Received
    <2> HIDE DEF OwnNext, ReceivedNext
    <2>7. CASE events' = events /\ trail'[r.task] = NoTrail
      <3>1. \A k : Own(k)' = Own(k) /\ Received(Own(k))' = Received(Own(k))
        BY <2>7 DEF Own, Received, EventIds
      <3>2. Chained'
        BY <2>7 DEF Chained, IsLatest, Received, Parents, Earlier, EventIds
      <3>3. Trails'
        <4>1. /\ OwnNext(m) = {} /\ ReceivedNext(m) = {}
              /\ \A k : k # m => OwnNext(k) = Own(k) /\ ReceivedNext(k) = Received(Own(k))
          BY <2>3, <2>a, <3>1
        <4>2. IsLatest(trail'[r.task].latest_event_id, OwnNext(m))
              /\ IsLatest(trail'[r.task].received_event_id, ReceivedNext(m))
          BY <2>7, <4>1 DEF IsLatest, NoTrail
        <4> QED BY <2>6, <4>1, <4>2
      <3> QED BY <3>2, <3>3
    <2>8. ASSUME NEW event, events' = Append(events, event), event.type = "message.received",
                 event.correlation = m, event.causation = 0,
                 trail'[r.task] = [received_event_id |-> Len(events'),
                                   latest_event_id |-> Len(events')]
          PROVE  Trails' /\ Chained'
      <3> PICK n \in Nat : n = Len(events) + 1
        BY DEF TypeOK, AuditType
      <3>1. Own(m)' = {n} /\ Received(Own(m))' = {n}
        BY <2>3, <2>8, OwnAppended
      <3>2. \A k : k # m => Own(k)' = Own(k) /\ Received(Own(k))' = Received(Own(k))
        BY <2>8, OwnAppended
      <3>3. Trails'
        <4>1. /\ OwnNext(m) = {n} /\ ReceivedNext(m) = {n}
              /\ \A k : k # m => OwnNext(k) = Own(k) /\ ReceivedNext(k) = Received(Own(k))
          BY <2>a, <3>1, <3>2
        <4>2. IsLatest(trail'[r.task].latest_event_id, OwnNext(m))
              /\ IsLatest(trail'[r.task].received_event_id, ReceivedNext(m))
          BY <2>8, <4>1, Appended DEF IsLatest
        <4> QED BY <2>6, <4>1, <4>2
      <3>4. ASSUME NEW e \in EventIds PROVE IsLatest(events'[e].causation, Parents(e)')
        <4>1. events'[e] = events[e] /\ Parents(e)' = Parents(e)
          BY <2>8, Appended, EarlierAppended DEF Parents
        <4> QED BY <4>1 DEF Chained
      <3>5. IsLatest(events'[n].causation, Parents(n)')
        <4>1. events'[n] = event
          BY <2>8, Appended
        <4>2. Parents(n)' = {}
          BY <2>3, <2>8, <4>1, EarlierAppended DEF Parents
        <4> QED BY <2>8, <4>1, <4>2 DEF IsLatest
      <3>6. EventIds' = EventIds \union {n}
        BY <2>8, Appended
      <3> QED BY <3>3, <3>4, <3>5, <3>6 DEF Chained, IsLatest
    <2> QED BY <1>3, <2>1, <2>7, <2>8, ReceiveLogs
  <1>4. CASE Forgets
    <2>1. events' = events /\ cur' = [t \in Tasks |-> 0]
      BY <1>4 DEF Forgets, Down
    <2>2. Trails'
      BY <2>1 DEF Trails
    <2>3. EventIds' = EventIds
      BY <2>1 DEF EventIds
    <2>4. ASSUME NEW e \in EventIds PROVE IsLatest(events'[e].causation, Parents(e)')
      <3>1. Parents(e)' = Parents(e)
        BY <2>1 DEF Parents, Received, Earlier
      <3> QED BY <2>1, <3>1 DEF Chained
    <2>5. Chained'
      BY <2>3, <2>4 DEF Chained, IsLatest
    <2> QED BY <2>2, <2>5
  <1> QED BY <1>1, <1>2, <1>3, <1>4, StepKinds

(* The events of a message form one chain, in the order of the log, though  *)
(* two tasks write to it and writes are lost: a trail holds the latest      *)
(* event of its message at every moment.                                    *)
THEOREM ChainKept == Spec => []CausalChain
  <1>1. Init => Trails /\ Chained
    BY DEF Init, Trails, Chained, EventIds
  <1>2. TypeOK /\ Trails /\ Chained /\ [Next]_vars => (Trails /\ Chained)'
    BY ChainStep
  <1> QED BY <1>1, <1>2, ChainedSuffices, TypeCorrect, PTL DEF Spec

-----------------------------------------------------------------------------
(* No two tasks are at one message. *)
LEMMA MessagesApart ==
  ASSUME TypeOK, Trails
  PROVE  /\ \A t, u \in Tasks : cur[t] # 0 /\ cur[u] = cur[t] => u = t
         /\ \A t \in Tasks : Active(t) => cur[t] # 0 /\ cur[t] \in Known
  BY DEF TypeOK, AtMessage, MessageType, Active, Trails, Known

(* The log never changes but at its end. *)
LEMMA LogKept ==
  ASSUME TypeOK, [Next]_vars
  PROVE  \A e \in EventIds : e \in EventIds' /\ events'[e] = events[e]
  <1>1. CASE events' = events
    BY <1>1 DEF EventIds
  <1>2. ASSUME NEW event, events' = Append(events, event)
        PROVE  \A e \in EventIds : e \in EventIds' /\ events'[e] = events[e]
    BY <1>2, Appended
  <1>3. ASSUME NEW t, NEW type, NEW what, Writes(t, type, what)
        PROVE  \E event : events' = Append(events, event)
    BY <1>3 DEF Writes, Insert
  <1>4. \A r \in Requests : Receive(r) => events' = events \/ \E event : events' = Append(events, event)
    BY ReceiveLogs
  <1> QED BY <1>1, <1>2, <1>3, <1>4, StepKinds DEF Silent, Forgets

(* What working tasks add to the log, of a message and of some types. *)
LEMMA LoggedNext ==
  ASSUME TypeOK, NEW m, NEW types,
         \/ Silent
         \/ \E t \in Tasks, type \in EventTypes, what \in Details : Writes(t, type, what)
  PROVE  Logged(m, types)' =>
           \/ Logged(m, types)
           \/ \E t \in Tasks, type \in types, what \in Details : Writes(t, type, what) /\ m = cur[t]
  <1>1. CASE Silent
    BY <1>1 DEF Silent, Logged, EventIds
  <1>2. ASSUME NEW t \in Tasks, NEW type \in EventTypes, NEW what \in Details,
               Writes(t, type, what)
        PROVE  Logged(m, types)' => Logged(m, types) \/ (type \in types /\ m = cur[t])
    <2> DEFINE cause == IF type = "message.ignored" THEN trail[t].received_event_id
                                                    ELSE trail[t].latest_event_id
               event == Event(t, type, what, cause)
    <2>1. events' = Append(events, event) /\ event.type = type /\ event.correlation = cur[t]
      BY <1>2 DEF Writes, Insert, Event
    <2> HIDE DEF event
    <2> QED BY <2>1, OwnAppended
  <1> QED BY <1>1, <1>2

(* Which messages start to run. *)
LEMMA Called ==
  ASSUME TypeOK, Trails, Moves, NEW t \in Tasks, Active(t), at'[t] \notin Handling
  PROVE  cur[t] \in ran' <=> cur[t] \in ran
  BY MessagesApart DEF Moves, Calls, Active

(* A receiving task starts at the first place of its message. *)
LEMMA ReceivedStage ==
  ASSUME TypeOK, Stages, NEW r \in Requests, Receive(r)
  PROVE  Stages'
  <1> PICK m \in Nat : m = Len(received')
    BY ReceiveAppends
  <1>1. /\ r.task \in Tasks /\ m = Len(received) + 1 /\ Len(received) \in Nat
        /\ cur' = [cur EXCEPT ![r.task] = m]
        /\ at' = [at EXCEPT ![r.task] = IF r.task = "mesh" THEN "received" ELSE "parsing"]
        /\ UNCHANGED <<ran, sent, boot>>
        /\ result'[r.task] = "ignored"
        /\ \A u \in Tasks \ {r.task} : result'[u] = result[u]
    BY ReceiveAppends, ReceiveLogs
  <1>2. /\ cur'[r.task] = m /\ at'[r.task] \in {"received", "parsing"}
        /\ \A u \in Tasks \ {r.task} : cur'[u] = cur[u] /\ at'[u] = at[u]
    BY <1>1 DEF TypeOK, MessageType, ThreadType
  <1> DEFINE After(k, types) == \E e \in EventIds' : events'[e].type \in types
                                                     /\ events'[e].correlation = k
  <1>3. ASSUME NEW k, NEW types, "message.received" \notin types, After(k, types)
        PROVE  Logged(k, types)
    <2>1. After(k, types) <=> Logged(k, types)'
      BY DEF Logged
    <2>2. CASE events' = events
      BY <1>3, <2>2 DEF Logged, EventIds
    <2>3. ASSUME NEW event, events' = Append(events, event), event.type = "message.received"
          PROVE  Logged(k, types)
      BY <1>3, <2>1, <2>3, OwnAppended
    <2> QED BY <2>2, <2>3, ReceiveLogs
  <1>4. \A types : ~Logged(m, types)
    BY <1>1, NothingAhead DEF Logged
  <1>5. m \notin ran /\ m \notin sent /\ m > boot
    BY <1>1 DEF TypeOK, MessageType, Known
  <1> HIDE DEF After
  <1> SUFFICES ASSUME NEW t \in Tasks
               PROVE  /\ at'[t] \in Unrun => cur'[t] \notin ran /\ result'[t] = "ignored"
                      /\ at'[t] \in Handling => cur'[t] \in ran /\ result'[t] = "ignored"
                      /\ at'[t] = "executed" => (result'[t] \notin Refused <=> cur'[t] \in ran)
                      /\ at'[t] \in Undone => ~After(cur'[t], {"command.execution"})
                      /\ at'[t] \notin {"down", "idle", "failed"} =>
                           ~After(cur'[t], Responses) /\ cur'[t] > boot
                      /\ at'[t] = "answered" => cur'[t] \in sent
    BY <1>1 DEF Stages, Stage, Active, Logged, After
  <1>6. CASE t = r.task
    BY <1>2, <1>1, <1>3, <1>4, <1>5, <1>6 DEF Unrun, Handling, Responses
  <1>7. CASE t # r.task
    <2>1. cur'[t] = cur[t] /\ at'[t] = at[t] /\ result'[t] = result[t]
      BY <1>1, <1>2, <1>7
    <2> QED BY <1>3, <2>1 DEF Stages, Stage, Active, Responses
  <1> QED BY <1>6, <1>7

(* Stages is inductive, given that the tasks' messages are distinct. *)
LEMMA StagesStep ==
  ASSUME TypeOK, Trails, Stages, [Next]_vars
  PROVE  Stages'
  <1>1. ASSUME Moves,
               \/ Silent
               \/ \E t \in Tasks, type \in EventTypes, what \in Details : Writes(t, type, what)
        PROVE  Stages'
    <2> SUFFICES ASSUME NEW t \in Tasks PROVE Stage(t)'
      BY DEF Stages
    <2>1. StageMoves(t) /\ UNCHANGED <<received, cur, boot>> /\ sent \subseteq sent'
      BY <1>1 DEF Moves
    <2> PICK m : m = cur[t]
      OBVIOUS
    <2>2. cur'[t] = m
      BY <2>1
    <2>3. at'[t] \in Unrun => cur'[t] \notin ran' /\ result'[t] = "ignored"
      BY <1>1, <2>1, Called DEF Stages, Stage, StageMoves, Unrun, Handling, Active
    <2>4. at'[t] \in Handling => cur'[t] \in ran' /\ result'[t] = "ignored"
      BY <1>1, <2>1 DEF Stages, Stage, StageMoves, Unrun, Calls, Moves
    <2>5. at'[t] = "executed" => (result'[t] \notin Refused <=> cur'[t] \in ran')
      <3> SUFFICES ASSUME at'[t] = "executed"
                   PROVE  result'[t] \notin Refused <=> cur[t] \in ran'
        BY <2>1
      <3>1. cur[t] \in ran' <=> cur[t] \in ran
        BY <1>1, <2>1, Called DEF StageMoves, Handling, Active
      <3> QED BY <2>1, <3>1 DEF Stages, Stage, StageMoves, Refused
    <2>6. at'[t] \in Undone => ~Logged(m, {"command.execution"})'
      <3> SUFFICES ASSUME at'[t] \in Undone, Logged(m, {"command.execution"})' PROVE FALSE
        OBVIOUS
      <3>1. at[t] \in Undone /\ Active(t)
        BY <2>1 DEF StageMoves, Calls, Undone, Unrun, Handling, Active
      <3>2. PICK u \in Tasks, what \in Details : Writes(u, "command.execution", what) /\ m = cur[u]
        BY <1>1, <3>1, LoggedNext DEF Stages, Stage
      <3>3. u = t
        BY <3>1, <3>2, MessagesApart
      <3> QED BY <3>2, <3>3 DEF Writes
    <2>7. Active(t)' => ~Logged(m, Responses)' /\ cur'[t] > boot'
      <3> SUFFICES ASSUME Active(t)' PROVE ~Logged(m, Responses)' /\ cur[t] > boot
        BY <2>1
      <3>1. Active(t) /\ ~Logged(m, Responses) /\ cur[t] > boot
        BY <2>1 DEF StageMoves, Stages, Stage
      <3>2. ASSUME Logged(m, Responses)' PROVE FALSE
        <4>1. PICK u \in Tasks, type \in Responses, what \in Details :
                     Writes(u, type, what) /\ m = cur[u]
          BY <1>1, <3>1, <3>2, LoggedNext
        <4>2. u = t
          BY <3>1, <4>1, MessagesApart
        <4> QED BY <4>1, <4>2 DEF Writes
      <3> QED BY <3>1, <3>2
    <2>8. at'[t] = "answered" => cur'[t] \in sent'
      BY <2>1 DEF StageMoves, Stages, Stage
    <2> QED BY <2>2, <2>3, <2>4, <2>5, <2>6, <2>7, <2>8 DEF Stage, Logged
  <1>2. CASE Forgets
    <2>1. \A t \in Tasks : at'[t] = "down"
      BY <1>2 DEF Forgets, Down
    <2> QED BY <2>1 DEF Stages, Stage, Active, Unrun, Handling, Undone
  <1> QED BY <1>1, <1>2, ReceivedStage, StepKinds

(* What the acts of a task, a message or an end of the process append. *)
LEMMA NewEvent ==
  ASSUME TypeOK, [Next]_vars, NEW e \in EventIds', e \notin EventIds
  PROVE  /\ e = Len(events) + 1
         /\ \/ events'[e].type = "message.received"
            \/ \E t \in Tasks, type \in EventTypes, what \in Details :
                 /\ Moves /\ Writes(t, type, what)
                 /\ events'[e].type = type /\ events'[e].what = what
                 /\ events'[e].correlation = cur[t]
                 /\ Earlier(e)' = Own(cur[t])
  <1>1. ASSUME NEW event, events' = Append(events, event)
        PROVE  /\ e = Len(events) + 1 /\ events'[e] = event
               /\ Earlier(e)' = Own(event.correlation)
    <2>1. e = Len(events) + 1 /\ events'[e] = event
      BY <1>1, Appended
    <2> QED BY <1>1, <2>1, EarlierAppended
  <1>2. ASSUME Moves, NEW t \in Tasks, NEW type \in EventTypes, NEW what \in Details,
               Writes(t, type, what)
        PROVE  /\ e = Len(events) + 1
               /\ events'[e].type = type /\ events'[e].what = what
               /\ events'[e].correlation = cur[t]
               /\ Earlier(e)' = Own(cur[t])
    <2> DEFINE cause == IF type = "message.ignored" THEN trail[t].received_event_id
                                                    ELSE trail[t].latest_event_id
               event == Event(t, type, what, cause)
    <2>1. events' = Append(events, event) /\ event.type = type /\ event.what = what
          /\ event.correlation = cur[t]
      BY <1>2 DEF Writes, Insert, Event
    <2> HIDE DEF event
    <2> QED BY <1>1, <2>1
  <1>3. events' # events
    BY DEF EventIds
  <1>4. ASSUME NEW r \in Requests, Receive(r)
        PROVE  e = Len(events) + 1 /\ events'[e].type = "message.received"
    BY <1>1, <1>3, <1>4, ReceiveLogs
  <1> QED BY <1>2, <1>3, <1>4, StepKinds DEF Silent, Forgets

(* ResponsesTold is inductive, given the stages of the tasks. *)
LEMMA ResponsesStep ==
  ASSUME TypeOK, Stages, ResponsesTold, [Next]_vars
  PROVE  ResponsesTold'
  <1>1. sent \subseteq sent'
    BY StepKinds, ReceiveLogs DEF Moves, Forgets
  <1>2. ASSUME NEW e \in EventIds, events[e].type \in Responses
        PROVE  /\ events[e].type = "response.sent" => events[e].correlation \in sent'
               /\ \A d \in Earlier(e)' : events'[d].type \notin Responses
    <2>1. \A d \in 1..e-1 : d \in EventIds
      BY DEF EventIds, TypeOK, AuditType
    <2>2. \A d \in Earlier(e)' : d \in Earlier(e) /\ events'[d] = events[d]
      BY <2>1, LogKept DEF Earlier
    <2> QED BY <1>1, <1>2, <2>2 DEF ResponsesTold, Responses
  <1>3. ASSUME NEW e \in EventIds', e \notin EventIds, events'[e].type \in Responses
        PROVE  /\ events'[e].type = "response.sent" => events'[e].correlation \in sent'
               /\ \A d \in Earlier(e)' : events'[d].type \notin Responses
    <2>1. PICK t \in Tasks, type \in EventTypes, what \in Details :
            /\ Moves /\ Writes(t, type, what)
            /\ events'[e].type = type /\ events'[e].correlation = cur[t]
            /\ Earlier(e)' = Own(cur[t])
      BY <1>3, NewEvent DEF Responses
    <2>2. ~Logged(cur[t], Responses) /\ (at[t] = "answered" => cur[t] \in sent)
      BY <2>1 DEF Writes, Stages, Stage
    <2>3. \A d \in Own(cur[t]) : events'[d].type \notin Responses
      BY <2>2, LogKept DEF Own, Logged
    <2> QED BY <1>1, <2>1, <2>2, <2>3 DEF Writes
  <1> QED BY <1>2, <1>3, LogKept DEF ResponsesTold, Responses

(* AuditTellsRuns is inductive, given the stages of the tasks. *)
LEMMA AuditStep ==
  ASSUME TypeOK, Trails, Stages, AuditTellsRuns, [Next]_vars
  PROVE  AuditTellsRuns'
  <1> DEFINE Allowed(e, m) == /\ events[e].type = "command.authorization"
                              /\ events[e].what = "allowed"
                              /\ events[e].correlation = m
  <1>1. /\ ran \subseteq ran' /\ lost \subseteq lost'
        /\ \A m \in ran' : m \in ran \/ \E t \in Tasks : Calls(t) /\ m = cur[t]
    BY StepKinds, ReceiveLogs DEF Moves, Forgets
  <1>2. /\ commands \subseteq commands'
        /\ \A m \in commands' : m \in commands \/ \E t \in Tasks, what \in Details :
             Writes(t, "command.execution", what) /\ m = cur[t]
    <2>1. ASSUME NEW t \in Tasks, NEW type \in EventTypes, NEW what \in Details, Writes(t, type, what)
          PROVE  \/ commands' = commands
                 \/ type = "command.execution" /\ commands' = commands \union {cur[t]}
      BY <2>1 DEF Writes
    <2> QED BY <2>1, StepKinds, ReceiveLogs DEF Silent, Forgets
  <1>3. ASSUME NEW t \in Tasks, NEW type \in EventTypes, NEW what \in Details, Writes(t, type, what)
        PROVE  \E e \in EventIds' : /\ events'[e].type = type /\ events'[e].what = what
                                    /\ events'[e].correlation = cur[t]
    <2> DEFINE cause == IF type = "message.ignored" THEN trail[t].received_event_id
                                                    ELSE trail[t].latest_event_id
               event == Event(t, type, what, cause)
    <2>1. events' = Append(events, event) /\ event.type = type /\ event.what = what
          /\ event.correlation = cur[t]
      BY <1>3 DEF Writes, Insert, Event
    <2> HIDE DEF event
    <2> QED BY <2>1, Appended
  <1>4. \A m \in ran' \ lost' : \E e \in EventIds' : Allowed(e, m)'
    <2> SUFFICES ASSUME NEW m \in ran' \ lost' PROVE \E e \in EventIds' : Allowed(e, m)'
      OBVIOUS
    <2>1. CASE m \in ran
      <3>1. m \in ran \ lost
        BY <1>1, <2>1
      <3>2. \E e \in EventIds : Allowed(e, m)
        BY <3>1 DEF AuditTellsRuns
      <3> QED BY <3>2, LogKept
    <2>2. CASE m \notin ran
      <3>1. PICK t \in Tasks : Writes(t, "command.authorization", "allowed") /\ m = cur[t]
        BY <1>1, <2>2 DEF Calls
      <3> QED BY <1>3, <3>1 DEF EventTypes, Details
    <2> QED BY <2>1, <2>2
  <1>5. ASSUME NEW e \in EventIds', events'[e].type = "command.execution"
        PROVE  /\ events'[e].what \notin Refused <=> events'[e].correlation \in ran'
               /\ events'[e].correlation \in commands'
    <2>1. CASE e \in EventIds
      <3>1. events'[e] = events[e]
        BY <2>1, LogKept
      <3>2. ASSUME NEW t \in Tasks, Calls(t) PROVE cur[t] # events[e].correlation
        <4>1. ~Logged(cur[t], {"command.execution"})
          BY <3>2 DEF Calls, Stages, Stage, Undone, Unrun
        <4> QED BY <1>5, <2>1, <3>1, <4>1 DEF Logged
      <3>3. events[e].correlation \in ran' <=> events[e].correlation \in ran
        BY <1>1, <3>2
      <3>4. /\ events[e].what \notin Refused <=> events[e].correlation \in ran
            /\ events[e].correlation \in commands
        BY <1>5, <2>1, <3>1 DEF AuditTellsRuns, Refused
      <3> QED BY <1>2, <3>1, <3>3, <3>4
    <2>2. CASE e \notin EventIds
      <3>1. PICK t \in Tasks, what \in Details :
              /\ Moves /\ Writes(t, "command.execution", what)
              /\ events'[e].what = what /\ events'[e].correlation = cur[t]
        BY <1>5, <2>2, NewEvent
      <3>2. at[t] \in {"executed", "handler"} /\ Active(t) /\ what = result[t]
            /\ at'[t] \notin Handling /\ cur[t] \in commands'
        BY <3>1 DEF Writes, Undone
      <3>3. cur[t] \in ran' <=> cur[t] \in ran
        BY <3>1, <3>2, Called
      <3>4. what \notin Refused <=> cur[t] \in ran
        BY <3>2 DEF Stages, Stage, Handling, Refused
      <3> QED BY <3>1, <3>2, <3>3, <3>4
    <2> QED BY <2>1, <2>2
  <1>6. ASSUME NEW m \in commands'
        PROVE  \E e \in EventIds' : events'[e].type = "command.execution"
                                    /\ events'[e].correlation = m
    <2>1. CASE m \in commands
      BY <2>1, LogKept DEF AuditTellsRuns
    <2>2. CASE m \notin commands
      BY <1>2, <1>3, <2>2 DEF EventTypes
    <2> QED BY <2>1, <2>2
  <1> QED BY <1>4, <1>5, <1>6 DEF AuditTellsRuns, Refused

(* Where the tasks stand and what the log holds of their messages. *)
LEMMA StagesKept == Spec => [](Trails /\ Chained /\ Stages)
  <1>1. Init => Trails /\ Chained /\ Stages
    BY DEF Init, Trails, Chained, EventIds, Stages, Stage, Active, Unrun, Handling, Undone
  <1>2. TypeOK /\ Trails /\ Chained /\ Stages /\ [Next]_vars => (Trails /\ Chained /\ Stages)'
    BY ChainStep, StagesStep
  <1> QED BY <1>1, <1>2, TypeCorrect, PTL DEF Spec

(* A message has at most one response event, and response.sent only when    *)
(* the answer was transmitted: kills, cancellations and failed sends of two *)
(* tasks leave a response out but never tell one twice or too early.        *)
THEOREM ResponsesTrue == Spec => []ResponsesTold
  <1>1. Init => ResponsesTold
    BY DEF Init, ResponsesTold, EventIds
  <1>2. TypeOK /\ Stages /\ ResponsesTold /\ [Next]_vars => ResponsesTold'
    BY ResponsesStep
  <1> QED BY <1>1, <1>2, TypeCorrect, StagesKept, PTL DEF Spec

(* The audit log tells what was run: every handler that was called has its  *)
(* "allowed" event, unless a write was lost; executions that were not       *)
(* refused are exactly those of messages that ran; and the legacy table     *)
(* holds the messages that have an execution event.                         *)
THEOREM AuditTrue == Spec => []AuditTellsRuns
  <1>1. Init => AuditTellsRuns
    BY DEF Init, AuditTellsRuns, EventIds
  <1>2. TypeOK /\ Trails /\ Stages /\ AuditTellsRuns /\ [Next]_vars => AuditTellsRuns'
    BY AuditStep
  <1> QED BY <1>1, <1>2, TypeCorrect, StagesKept, PTL DEF Spec

-----------------------------------------------------------------------------
(* The override.  A handler that runs is of an authorized user. *)
LEMMA HandledUsers ==
  ASSUME TypeOK, Stages, OnlyAccepted
  PROVE  \A t \in Tasks : at[t] \in Handling =>
           Users[Cur(t).sender] \in Roles /\ cur[t] \in ran /\ cur[t] > boot
  <1> SUFFICES ASSUME NEW t \in Tasks, at[t] \in Handling
               PROVE  Users[Cur(t).sender] \in Roles /\ cur[t] \in ran /\ cur[t] > boot
    OBVIOUS
  <1>1. cur[t] \in ran /\ cur[t] > boot
    BY DEF Stages, Stage, Handling, Active
  <1>2. Cur(t).sender \in DOMAIN Users
    BY <1>1 DEF OnlyAccepted, RequireMessage, Cur
  <1> QED BY <1>1, <1>2, ParametersAssumption

(* Switched is inductive: the task keeps the thread. *)
LEMMA SwitchedStep ==
  ASSUME TypeOK, Stages, OnlyAccepted, Switched, [Next]_vars
  PROVE  Switched'
  <1>1. ASSUME Moves, SwitchMoves PROVE Switched'
    <2> SUFFICES ASSUME NEW t \in Tasks, at'[t] = "switched"
                 PROVE  /\ running' = t
                        /\ override' = Override(Cur(t).word)
                        /\ Users[Cur(t).sender] = admin
      BY <1>1 DEF Switched, Moves, Cur
    <2>1. CASE Sets(t)
      <3>1. Users[Cur(t).sender] \in Roles
        BY <2>1, HandledUsers DEF Sets, Handling
      <3> QED BY <2>1, <3>1 DEF Sets, Roles, readonly, admin
    <2>2. CASE at[t] = "switched" /\ (running = t => running' = t)
      <3>1. ~\E u \in Tasks : Sets(u)
        BY <2>2 DEF Switched, Sets
      <3> QED BY <1>1, <2>2, <3>1 DEF Switched, SwitchMoves
    <2> QED BY <1>1, <2>1, <2>2 DEF SwitchMoves
  <1>2. ASSUME NEW r \in Requests, Receive(r) PROVE Switched'
    <2>1. running = "none" /\ \A t \in Tasks : at'[t] = "switched" => at[t] = "switched"
      BY <1>2, ReceiveLogs, ReceiveAppends DEF TypeOK, ThreadType
    <2> QED BY <2>1 DEF Switched, Tasks
  <1>3. CASE Forgets
    BY <1>3 DEF Forgets, Down, Switched
  <1> QED BY <1>1, <1>2, <1>3, StepKinds

(* What became applied: only what a switched task wrote. *)
LEMMA NewlyApplied ==
  ASSUME TypeOK, [Next]_vars, boot' = boot, NEW e
  PROVE  e \in Applied' <=>
           \/ e \in Applied
           \/ /\ e \in EventIds' /\ e = Len(events) + 1
              /\ \E t \in Tasks : /\ Writes(t, "override.applied", Cur(t).word)
                                  /\ events'[e].type = "override.applied"
                                  /\ events'[e].what = Cur(t).word
                                  /\ events'[e].correlation = cur[t] /\ cur[t] > boot
  <1>1. CASE e \in EventIds
    <2>1. e \in EventIds' /\ events'[e] = events[e] /\ e # Len(events) + 1
      BY <1>1, LogKept DEF EventIds, TypeOK, AuditType
    <2> QED BY <1>1, <2>1 DEF Applied
  <1>2. CASE e \in EventIds' /\ e \notin EventIds
    <2>1. e = Len(events) + 1
      BY <1>2, NewEvent
    <2>2. ASSUME events'[e].type = "override.applied"
          PROVE  \E t \in Tasks : /\ Writes(t, "override.applied", Cur(t).word)
                                  /\ events'[e].what = Cur(t).word
                                  /\ events'[e].correlation = cur[t]
      <3>1. PICK t \in Tasks, what \in Details :
              /\ Writes(t, "override.applied", what)
              /\ events'[e].what = what
              /\ events'[e].correlation = cur[t]
        BY <1>2, <2>2, NewEvent
      <3>2. what = Cur(t).word
        BY <3>1 DEF Writes
      <3> QED BY <3>1, <3>2
    <2> QED BY <1>2, <2>1, <2>2 DEF Applied
  <1>3. CASE e \notin EventIds' /\ e \notin EventIds
    BY <1>3 DEF Applied
  <1> QED BY <1>1, <1>2, <1>3

(* OverrideExplained is inductive, given the stages and Switched. *)
LEMMA OverrideStep ==
  ASSUME TypeOK, Stages, OnlyAccepted, Switched, OverrideExplained, [Next]_vars
  PROVE  OverrideExplained'
  <1> DEFINE Explained == \/ LostSwitch
                          \/ \E t \in Tasks : at[t] = "switched" /\ override = Override(Cur(t).word)
                          \/ Applied = {} /\ override = "configured"
                          \/ \E e \in Applied : /\ \A d \in Applied : d <= e
                                               /\ override = Override(events[e].what)
             ByAdmins == \A e \in Applied : Users[received[events[e].correlation].sender] = admin
  <1>a. Explained /\ ByAdmins
    BY DEF OverrideExplained
  <1>b. Switched'
    BY SwitchedStep
  <1>c. \A e \in Applied : e \in EventIds /\ e \in Nat /\ events'[e] = events[e]
                           /\ events[e].correlation \in Known
    BY LogKept, NothingAhead DEF Applied, EventIds
  <1>1. ASSUME Moves, SwitchMoves,
               \/ Silent
               \/ \E t \in Tasks, type \in EventTypes, what \in Details : Writes(t, type, what)
        PROVE  Explained' /\ ByAdmins'
    <2>1. UNCHANGED <<received, cur, boot>> /\ ran \subseteq ran' /\ lost \subseteq lost'
      BY <1>1 DEF Moves
    <2>2. ByAdmins'
      <3> SUFFICES ASSUME NEW e \in Applied'
                   PROVE  Users[received[events'[e].correlation].sender] = admin
        BY <2>1
      <3>1. CASE e \in Applied
        BY <1>a, <1>c, <3>1
      <3>2. CASE e \notin Applied
        <4>1. PICK t \in Tasks : /\ Writes(t, "override.applied", Cur(t).word)
                                 /\ events'[e].correlation = cur[t]
          BY <2>1, <3>2, NewlyApplied
        <4> QED BY <4>1 DEF Writes, Switched, Cur
      <3> QED BY <3>1, <3>2
    <2>3. ASSUME LostSwitch PROVE Explained'
      BY <2>1, <2>3 DEF LostSwitch
    <2>4. ASSUME NEW t \in Tasks, at'[t] = "switched" PROVE Explained'
      BY <1>b, <2>4 DEF Switched
    <2>5. ASSUME NEW t \in Tasks, at[t] = "switched", at'[t] # "switched" PROVE Explained'
      <3>1. cur[t] \in ran /\ cur[t] > boot /\ Cur(t).word \in Switches
            /\ override = Override(Cur(t).word) /\ running = t
        BY <2>5, HandledUsers DEF Handling, Switched, TypeOK, AtMessage, Cur
      <3>2. CASE cur[t] \in lost'
        BY <2>1, <3>1, <3>2 DEF LostSwitch, Cur
      <3>3. CASE Writes(t, "override.applied", Cur(t).word)
        <4>1. override' = override
          BY <1>1, <2>5, <3>1 DEF SwitchMoves, Sets
        <4> PICK e \in Nat : e = Len(events) + 1
          BY DEF TypeOK, AuditType
        <4>2. e \in EventIds' /\ e \notin EventIds /\ \A d \in EventIds : d < e /\ d \in Nat
          BY <3>3, Appended DEF Writes, Insert
        <4>3. events'[e].type = "override.applied" /\ events'[e].what = Cur(t).word
              /\ events'[e].correlation = cur[t]
          BY <3>3, Appended DEF Writes, Insert, Event
        <4>4. e \in Applied' /\ \A d \in Applied' : d = e \/ d \in Applied
          BY <2>1, <3>1, <3>3, <4>2, <4>3, NewlyApplied
        <4>5. \A d \in Applied' : d <= e
          BY <1>c, <4>2, <4>4
        <4> QED BY <3>1, <4>1, <4>3, <4>4, <4>5
      <3> QED BY <1>1, <2>5, <3>2, <3>3 DEF SwitchMoves
    <2>6. ASSUME ~LostSwitch, \A t \in Tasks : at[t] # "switched" /\ at'[t] # "switched"
          PROVE  Explained'
      <3>1. override' = override
        BY <1>1, <2>6 DEF SwitchMoves, Sets
      <3>2. \A e : e \in Applied' <=> e \in Applied
        BY <2>1, <2>6, NewlyApplied DEF Writes
      <3>3. Applied' = Applied
        BY <3>2
      <3> QED BY <1>a, <1>c, <2>6, <3>1, <3>3
    <2> QED BY <2>2, <2>3, <2>4, <2>5, <2>6
  <1>2. ASSUME NEW r \in Requests, Receive(r) PROVE Explained' /\ ByAdmins'
    <2>1. /\ \A m \in Known : received'[m] = received[m]
          /\ UNCHANGED <<override, ran, boot>> /\ lost \subseteq lost' /\ running = "none"
      BY <1>2, ReceiveAppends, ReceiveLogs
    <2>2. \A t \in Tasks : at[t] # "switched"
      BY <2>1 DEF Switched, Tasks
    <2>3. \A e : e \in Applied' <=> e \in Applied
      BY <2>1, <2>2, NewlyApplied DEF Writes
    <2>4. Applied' = Applied
      BY <2>3
    <2>5. LostSwitch => LostSwitch'
      BY <2>1 DEF LostSwitch, TypeOK, MessageType
    <2> QED BY <1>a, <1>c, <2>1, <2>2, <2>4, <2>5
  <1>3. ASSUME Forgets PROVE Explained' /\ ByAdmins'
    <2>1. events' = events /\ boot' = Len(received) /\ override' = "configured"
      BY <1>3 DEF Forgets, Down
    <2>2. Applied' = {}
      BY <2>1, NothingAhead DEF Applied, EventIds, Known, TypeOK, MessageType
    <2> QED BY <2>1, <2>2
  <1>4. Explained' /\ ByAdmins'
    BY <1>1, <1>2, <1>3, StepKinds
  <1> QED BY <1>4 DEF OverrideExplained

(* The override in force is explained by the log of this process, whose     *)
(* last override.applied named it, unless a write was lost or that event is *)
(* the next thing its task does; and only admins are behind it.             *)
THEOREM OverrideTrue == Spec => []OverrideExplained
  <1>1. Init => Switched /\ OverrideExplained
    BY DEF Init, Switched, OverrideExplained, Applied, EventIds
  <1>2. TypeOK /\ Stages /\ OnlyAccepted /\ Switched /\ OverrideExplained /\ [Next]_vars
          => (Switched /\ OverrideExplained)'
    BY SwitchedStep, OverrideStep
  <1> QED BY <1>1, <1>2, TypeCorrect, NothingUnaccepted, StagesKept, PTL DEF Spec

-----------------------------------------------------------------------------
(* Dropped repeats.  A row of the deduplicator is that of an accepted       *)
(* message or of an earlier version; and an accepted message was served,    *)
(* unless the mesh task is just deciding on it.                             *)
Deciding == {"limited", "parsing", "authorizing"}

Settled(n) == n <= boot \/ n \in ran \/ NothingToRun(received[n]) \/ Limited(n)

Rows ==
  /\ \A k \in Identities : legacyUntil[k] # 0 => k \in Stored /\ legacyUntil[k] <= Window
  /\ \A k \in Identities : expiresAt[k] # 0 => \E n \in Messages :
       /\ acceptedAt[n] # 0
       /\ received[n].identity = k
       /\ expiresAt[k] = acceptedAt[n] + Window

Served ==
  \A n \in Messages : acceptedAt[n] # 0 =>
    Settled(n) \/ (n = cur["mesh"] /\ at["mesh"] \in Deciding)

(* Where the mesh task goes from the deduplicator and from a decision. *)
LEMMA MeshSteps ==
  ASSUME TypeOK, [Next]_vars, at["mesh"] \in Deciding \union {"received"}
  PROVE  \/ at'["mesh"] = at["mesh"] /\ cur'["mesh"] = cur["mesh"]
         \/ at["mesh"] = "received" /\ at'["mesh"] \notin Deciding \union {"duplicate"}
         \/ at["mesh"] = "received" /\ Duplicate
         \/ \E place \in {"parsing", "limited"} : Accept(place)
         \/ IgnoreLimited
         \/ Parse("mesh") \/ Deny("mesh") \/ Allow("mesh")
         \/ boot' = Len(received) /\ at'["mesh"] = "down"
  <1> DEFINE Stays == at'["mesh"] = at["mesh"] /\ cur'["mesh"] = cur["mesh"]
             Turns == at["mesh"] = "received" /\ at'["mesh"] \notin Deciding \union {"duplicate"}
             Falls == boot' = Len(received) /\ at'["mesh"] = "down"
  <1>0. "mesh" \in Tasks /\ at["mesh"] \in {"limited", "parsing", "authorizing", "received"}
        /\ at \in [Tasks -> Places] /\ DOMAIN cur = Tasks
    BY DEF TypeOK, ThreadType, MessageType, Tasks, Deciding
  <1>1. ASSUME NEW r \in Requests, Receive(r) PROVE Stays
    <2>1. r.task # "mesh"
      BY <1>0, <1>1 DEF Receive
    <2> QED BY <1>0, <1>1, <2>1 DEF Receive, Resumes
  <1>2. ASSUME NEW t \in Tasks, t # "mesh", Router(t) \/ Answer(t) PROVE Stays
    <2>1. cur' = cur /\ \A u \in Tasks \ {t} : at'[u] = at[u]
      BY <1>0, <1>2 DEF Router, Parse, Deny, Allow, HandlerEnds, RecordRequested, DenyOverride,
            SetOverride, RecordApplied, RecordExecution, Answer, SendAccepted, SendFails,
            RecordResponse, GoesOn, Awaits, Resumes, local
    <2> QED BY <1>0, <1>2, <2>1
  <1>3. Router("mesh") => Parse("mesh") \/ Deny("mesh") \/ Allow("mesh")
    BY <1>0 DEF Router, HandlerEnds, RecordRequested, DenyOverride, SetOverride, RecordApplied,
          RecordExecution
  <1>4. ~Answer("mesh")
    BY <1>0 DEF Answer, SendAccepted, SendFails, RecordResponse
  <1>5. MeshTask => \/ Turns \/ IgnoreLimited
                    \/ at["mesh"] = "received" /\ Duplicate
                    \/ \E place \in {"parsing", "limited"} : Accept(place)
    BY <1>0 DEF MeshTask, Refuse, Duplicate, DeduplicateFails, IgnoreDuplicate,
          IgnoreUnregistered, Forward, ForwardHandled, ForwardNotHandled, IgnoreUnhandled,
          Admitted, Awaits, Deciding
  <1>6. ASSUME NEW t \in Tasks, Cancel(t) PROVE Stays
    <2>1. t # "mesh"
      BY <1>0, <1>6 DEF Cancel
    <2> QED BY <1>0, <1>6, <2>1 DEF Cancel
  <1>7. End \/ Kill => Falls
    BY <1>0 DEF End, Kill, Down
  <1>8. ~Start /\ (Tick \/ UNCHANGED vars => Stays)
    BY <1>0 DEF Start, Tick, vars, thread, local
  <1>9. \A t \in Tasks : TaskStep(t) =>
          \/ t # "mesh" /\ (Router(t) \/ Answer(t))
          \/ MeshTask \/ Router("mesh") \/ Answer("mesh")
    BY DEF TaskStep
  <1> HIDE DEF Stays, Turns, Falls
  <1>10. \/ Stays \/ Turns \/ Falls \/ IgnoreLimited
         \/ at["mesh"] = "received" /\ Duplicate
         \/ Parse("mesh") \/ Deny("mesh") \/ Allow("mesh")
         \/ \E place \in {"parsing", "limited"} : Accept(place)
    BY ONLY <1>1, <1>2, <1>3, <1>4, <1>5, <1>6, <1>7, <1>8, <1>9, [Next]_vars DEF Next, Shutdown
  <1> QED BY <1>10 DEF Stays, Turns, Falls

(* What a message has come to is not undone. *)
LEMMA SettledKept ==
  ASSUME TypeOK, [Next]_vars, NEW n \in Known, Settled(n)
  PROVE  Settled(n)'
  <1>1. received'[n] = received[n]
    BY StepKinds, ReceiveAppends DEF Moves, Forgets
  <1>2. boot' = boot \/ boot' = Len(received)
    BY StepKinds, ReceiveLogs DEF Moves, Forgets, Down
  <1>3. ran \subseteq ran' /\ lost \subseteq lost'
    BY StepKinds, ReceiveLogs DEF Moves, Forgets
  <1>4. n <= boot => n <= boot'
    BY <1>2 DEF TypeOK, MessageType, Known
  <1>5. Limited(n) => Limited(n)'
    BY <1>3, LogKept DEF Limited
  <1>6. NothingToRun(received[n]) => NothingToRun(received[n])'
    BY <1>1 DEF NothingToRun, RequireMessage, AllowsRoom
  <1> QED BY <1>3, <1>4, <1>5, <1>6 DEF Settled

(* A decision settles the message: it is over the limit, no command, not    *)
(* allowed, or its handler is called.                                       *)
LEMMA Decisions ==
  ASSUME TypeOK, [Next]_vars, NEW n \in Known, n = cur["mesh"], at["mesh"] \in Deciding
  PROVE  Settled(n)' \/ (n = cur'["mesh"] /\ at'["mesh"] \in Deciding)
  <1>0. "mesh" \in Tasks /\ at["mesh"] # "received" /\ at \in [Tasks -> Places]
    BY DEF TypeOK, ThreadType, Tasks, Deciding
  <1>1. CASE IgnoreLimited
    <2>1. Limited(n)'
      <3>1. CASE Lose("mesh")
        BY <3>1 DEF Lose, Limited
      <3>2. ASSUME NEW cause, Insert("mesh", Event("mesh", "message.ignored", "rate_limited", cause))
            PROVE  Limited(n)'
        <4> DEFINE event == Event("mesh", "message.ignored", "rate_limited", cause)
        <4>1. events' = Append(events, event) /\ event.what = "rate_limited"
              /\ event.correlation = n
          BY <3>2 DEF Insert, Event
        <4> HIDE DEF event
        <4>2. Len(events) + 1 \in EventIds' /\ events'[Len(events) + 1] = event
          BY <4>1, Appended
        <4> QED BY <4>1, <4>2 DEF Limited
      <3> QED BY <1>1, <3>1, <3>2 DEF IgnoreLimited, RecordIgnored
    <2> QED BY <2>1 DEF Settled
  <1>2. CASE Parse("mesh")
    <2>1. received' = received /\ cur' = cur /\ received[n].word \in Words
      BY <1>2, RequestWords DEF Parse, Request
    <2>2. CASE received[n].word \in {"text", "unknown"}
      BY <2>1, <2>2 DEF Settled, NothingToRun
    <2>3. CASE received[n].word \notin {"text", "unknown"}
      <3>1. at'["mesh"] = "authorizing"
        BY <1>0, <1>2, <2>3 DEF Parse, GoesOn, AfterParse, ParseResult, Cur
      <3> QED BY <2>1, <3>1 DEF Deciding
    <2> QED BY <2>2, <2>3
  <1>3. CASE Deny("mesh")
    <2>1. received' = received /\ ~RequireMessage(received[n], readonly)
      BY <1>3 DEF Deny, Cur
    <2> QED BY <2>1 DEF Settled, NothingToRun, RequireMessage, AllowsRoom
  <1>4. CASE Allow("mesh")
    BY <1>4 DEF Allow, Settled
  <1>5. CASE boot' = Len(received)
    BY <1>5 DEF Settled, Known, TypeOK, MessageType
  <1>6. ~\E place \in {"parsing", "limited"} : Accept(place)
    BY <1>0 DEF Accept, Admitted
  <1> QED BY <1>0, <1>1, <1>2, <1>3, <1>4, <1>5, <1>6, MeshSteps

(* Served is inductive: a message is accepted into a decision. *)
LEMMA ServedStep ==
  ASSUME TypeOK, RowsKept, Served, [Next]_vars
  PROVE  Served'
  <1>1. ASSUME NEW n \in Messages, acceptedAt[n] # 0
        PROVE  Settled(n)' \/ (n = cur'["mesh"] /\ at'["mesh"] \in Deciding)
    <2>1. n \in Known
      BY <1>1 DEF RowsKept
    <2> QED BY <1>1, <2>1, SettledKept, Decisions DEF Served
  <1>2. ASSUME NEW place \in {"parsing", "limited"}, Accept(place)
        PROVE  Served'
    <2>1. /\ "mesh" \in Tasks /\ at' = [at EXCEPT !["mesh"] = place] /\ cur' = cur
          /\ acceptedAt' = [acceptedAt EXCEPT ![cur["mesh"]] = now]
      BY <1>2, AcceptFacts
    <2>2. at'["mesh"] \in Deciding
      BY <2>1 DEF TypeOK, ThreadType, Deciding
    <2>3. \A n \in Messages : acceptedAt'[n] # 0 => acceptedAt[n] # 0 \/ n = cur["mesh"]
      BY <2>1 DEF TypeOK, DeduplicationType
    <2> QED BY <1>1, <2>1, <2>2, <2>3 DEF Served
  <1>3. CASE acceptedAt' = acceptedAt
    BY <1>1, <1>3 DEF Served
  <1> QED BY <1>2, <1>3, QuietSteps, ReceiveAppends DEF Quiet

(* Rows are inductive: only Accept stores one. *)
LEMMA RowsStep ==
  ASSUME TypeOK, RowsKept, Rows, [Next]_vars
  PROVE  Rows'
  <1> DEFINE Row(n, k) == acceptedAt[n] # 0 /\ received[n].identity = k
                          /\ expiresAt[k] = acceptedAt[n] + Window
             Remains(k) == \E n \in Messages : /\ acceptedAt'[n] # 0
                                               /\ received'[n].identity = k
                                               /\ expiresAt[k] = acceptedAt'[n] + Window
  <1>1. /\ \A m \in Known : received'[m] = received[m]
        /\ \A n \in Messages : acceptedAt[n] # 0 => acceptedAt'[n] = acceptedAt[n]
    <2>1. CASE Quiet
      BY <2>1 DEF Quiet
    <2>2. ASSUME NEW place \in {"parsing", "limited"}, Accept(place)
          PROVE  /\ received' = received
                 /\ \A n \in Messages : acceptedAt[n] # 0 => acceptedAt'[n] = acceptedAt[n]
      <3>1. \A n \in Messages : acceptedAt[n] # 0 => n < cur["mesh"] /\ n # cur["mesh"]
        BY <2>2, AcceptFacts, ParametersAssumption DEF RowsKept, Messages, Known
      <3> QED BY <2>2, <3>1, AcceptFacts DEF TypeOK, DeduplicationType
    <2> QED BY <2>1, <2>2, QuietSteps, ReceiveAppends
  <1>2. ASSUME NEW k \in Identities, expiresAt[k] # 0 PROVE Remains(k)
    <2>1. PICK n \in Messages : Row(n, k)
      BY <1>2 DEF Rows
    <2>2. n \in Known
      BY <2>1 DEF RowsKept
    <2> QED BY <1>1, <2>1, <2>2
  <1>3. \A k \in Identities :
          /\ legacyUntil'[k] \in {0, legacyUntil[k]}
          /\ \/ expiresAt'[k] \in {0, expiresAt[k]}
             \/ \E n \in Messages : /\ acceptedAt'[n] # 0
                                    /\ received'[n].identity = k
                                    /\ expiresAt'[k] = acceptedAt'[n] + Window
    <2>1. CASE Quiet
      BY <2>1 DEF Quiet, Purged
    <2>2. ASSUME NEW place \in {"parsing", "limited"}, Accept(place), NEW k \in Identities
          PROVE  /\ legacyUntil'[k] \in {0, legacyUntil[k]}
                 /\ \/ expiresAt'[k] \in {0, expiresAt[k]}
                    \/ \E n \in Messages : /\ acceptedAt'[n] # 0
                                           /\ received'[n].identity = k
                                           /\ expiresAt'[k] = acceptedAt'[n] + Window
      <3>1. /\ cur["mesh"] \in Messages /\ now \in Nat \ {0} /\ received' = received
            /\ acceptedAt' = [acceptedAt EXCEPT ![cur["mesh"]] = now]
        <4>1. cur["mesh"] \in Known /\ UNCHANGED received
              /\ acceptedAt' = [acceptedAt EXCEPT ![cur["mesh"]] = now]
          BY <2>2, AcceptFacts
        <4>2. Len(received) \in Nat /\ Len(received) <= MaxReceived /\ now \in Nat \ {0}
          BY DEF TypeOK, MessageType, DeduplicationType
        <4> QED BY <4>1, <4>2, ParametersAssumption DEF Known, Messages
      <3>2. acceptedAt'[cur["mesh"]] = now
        BY <3>1 DEF TypeOK, DeduplicationType
      <3>3. /\ legacyUntil' = Purged(legacyUntil)
            /\ expiresAt' = [Purged(expiresAt) EXCEPT ![received[cur["mesh"]].identity] = now + Window]
        BY <2>2 DEF Accept, Cur
      <3>4. CASE k = received[cur["mesh"]].identity
        <4>1. expiresAt'[k] = now + Window
          BY <3>3, <3>4 DEF Purged
        <4> QED BY <3>1, <3>2, <3>3, <3>4, <4>1 DEF Purged
      <3>5. CASE k # received[cur["mesh"]].identity
        BY <3>3, <3>5 DEF Purged
      <3> QED BY <3>4, <3>5
    <2> QED BY <2>1, <2>2, QuietSteps, ReceiveAppends
  <1>4. ASSUME NEW k \in Identities, legacyUntil'[k] # 0
        PROVE  k \in Stored /\ legacyUntil'[k] <= Window
    BY <1>3, <1>4 DEF Rows
  <1>5. ASSUME NEW k \in Identities, expiresAt'[k] # 0
        PROVE  \E n \in Messages : /\ acceptedAt'[n] # 0
                                   /\ received'[n].identity = k
                                   /\ expiresAt'[k] = acceptedAt'[n] + Window
    BY <1>2, <1>3, <1>5
  <1> QED BY <1>4, <1>5 DEF Rows

(* What is dropped as a repeat is one. *)
LEMMA DropStep ==
  ASSUME TypeOK, RowsKept, Rows, Served, [Next]_vars,
         at["mesh"] = "received", at'["mesh"] = "duplicate"
  PROVE  \/ Cur("mesh").identity \in Stored /\ now <= Window
         \/ \E n \in 1..cur["mesh"]-1 : RepeatOf(cur["mesh"], n)
  <1>1. Duplicate
    <2>1. /\ ~IgnoreLimited
          /\ ~(Parse("mesh") \/ Deny("mesh") \/ Allow("mesh"))
          /\ ~\E place \in {"parsing", "limited"} : Accept(place)
      BY AcceptFacts DEF IgnoreLimited, Parse, Deny, Allow, TypeOK, ThreadType
    <2> QED BY <2>1, MeshSteps
  <1> DEFINE m == cur["mesh"]
             k == received[m].identity
  <1>2. k \in Identities /\ m \in Nat
    BY RequestWords DEF TypeOK, AtMessage, MessageType, Known, Request, Tasks
  <1>3. Purged(expiresAt)[k] # 0 \/ Purged(legacyUntil)[k] # 0
    BY <1>1 DEF Duplicate, Seen, Cur
  <1>4. now \in Nat \ {0} /\ expiresAt[k] \in Nat /\ legacyUntil[k] \in Nat /\ Window \in Nat
    BY <1>2, ParametersAssumption DEF TypeOK, DeduplicationType
  <1>5. \/ expiresAt[k] # 0 /\ now <= expiresAt[k]
        \/ legacyUntil[k] # 0 /\ now <= legacyUntil[k]
    BY <1>2, <1>3, <1>4 DEF Purged
  <1>6. CASE legacyUntil[k] # 0 /\ now <= legacyUntil[k]
    BY <1>2, <1>4, <1>6 DEF Rows, Cur
  <1>7. CASE expiresAt[k] # 0 /\ now <= expiresAt[k]
    <2>1. PICK n \in Messages : /\ acceptedAt[n] # 0 /\ received[n].identity = k
                                /\ expiresAt[k] = acceptedAt[n] + Window
      BY <1>2, <1>7 DEF Rows
    <2>2. n < m /\ Settled(n)
      BY <2>1 DEF RowsKept, Served, Deciding
    <2>3. n \in 1..m-1
      BY <1>2, <2>2, ParametersAssumption DEF Messages
    <2>4. RepeatOf(m, n)
      BY <1>7, <2>1, <2>2 DEF RepeatOf, Settled
    <2> QED BY <2>3, <2>4
  <1> QED BY <1>5, <1>6, <1>7

(* A message is dropped as a repeat only of one like it that was served, or *)
(* that an earlier process accepted: a call of the deduplicator that raised *)
(* has stored no key, and none outlives its window.                         *)
THEOREM DropsJustified == Spec => DropsOnlyRepeats
  <1>1. Init => RowsKept /\ RunsApart /\ Rows /\ Served
    BY ParametersAssumption DEF Init, RowsKept, RunsApart, Rows, Served
  <1>2. TypeOK /\ RowsKept /\ RunsApart /\ Rows /\ Served /\ [Next]_vars
          => (RowsKept /\ RunsApart /\ Rows /\ Served)'
    BY RunsApartStep, RowsStep, ServedStep
  <1>3. TypeOK /\ RowsKept /\ Rows /\ Served /\ [Next]_vars =>
          [at["mesh"] = "received" /\ at'["mesh"] = "duplicate" =>
             \/ Cur("mesh").identity \in Stored /\ now <= Window
             \/ \E n \in 1..cur["mesh"]-1 : RepeatOf(cur["mesh"], n)]_vars
    BY DropStep
  <1> QED BY <1>1, <1>2, <1>3, TypeCorrect, PTL DEF Spec, DropsOnlyRepeats
=============================================================================
