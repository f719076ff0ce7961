---------------------------- MODULE HaEventStream ----------------------------
(***************************************************************************)
(* How messages come from Home Assistant and requests go to it:            *)
(* HomeAssistantWebSocketClient (adapters/homeassistant_ws.py) and the     *)
(* receiving side of HomeAssistantMeshCoreTransport                        *)
(* (transport/homeassistant_meshcore.py).                                  *)
(*                                                                         *)
(* events() holds one connection: a reader task puts events into a bounded *)
(* queue, and the generator, driven by the bridge's calls of receive,      *)
(* takes them out.  Every other request opens a connection of its own.     *)
(***************************************************************************)
EXTENDS Naturals, Sequences

CONSTANTS Commands,   \* the one-off requests, "entries" among them
          MaxEvents,  \* bound: events Home Assistant fires
          QueueSize,  \* event_queue's maxsize (1000)
          MaxFaults   \* bound: dropped connections, refusals, bad frames

ASSUME BoundsAssumption ==
  /\ MaxEvents \in Nat /\ MaxFaults \in Nat
  /\ QueueSize \in Nat \ {0}
  /\ "entries" \in Commands

VARIABLES
  fired,      \* the kinds of the events Home Assistant has fired, in order
  link,       \* events()' connection: "none", "open" or "dropped"
  request,    \* the subscription: "none", "sent" or "accepted"
  wire,       \* frames on their way to the client: event numbers, 0 a result
  reader,     \* _reader_loop: "none", "running", "blocked" in put or "failed"
  held,       \* the events the blocked reader has in hand
  queue,      \* event_queue
  future,     \* the subscription's future: "none", "waiting", "set", "failed"
  pc,         \* where receive and events() are
  entry,      \* _resolved_entry_id is known
  connected,  \* what the transport's marks told the bridge health
  command,    \* the one-off requests
  faults,     \* faults so far
  got,        \* history: events read from this connection
  taken,      \* history: events taken out of this connection's queue
  staleIdles  \* history: on_idle calls since this connection's reader failed

stream  == <<link, request, wire, reader, held, queue, future, got, taken,
             staleIdles>>
vars    == <<fired, stream, pc, entry, connected, command, faults>>

(* _event_to_inbound: a message, an event that is not one (another type,    *)
(* outgoing, another channel, empty or without a sender), or one whose      *)
(* channel_idx is not a number.                                             *)
Kinds == {"message", "ignored", "malformed"}

Idle == [at |-> "idle", link |-> "none", request |-> "none",
         reply |-> "none", outcome |-> "none"]

Fault == faults < MaxFaults /\ faults' = faults + 1

Init ==
  /\ fired = <<>>
  /\ link = "none" /\ request = "none" /\ wire = <<>>
  /\ reader = "none" /\ held = <<>> /\ queue = <<>> /\ future = "none"
  /\ got = <<>> /\ taken = <<>> /\ staleIdles = 0
  /\ pc = "processing"
  /\ entry \in BOOLEAN
  /\ connected = FALSE
  /\ command = [c \in Commands |-> Idle]
  /\ faults = 0

-----------------------------------------------------------------------------
(* Home Assistant and the network. *)

(* An event reaches the connections that are subscribed when it is fired. *)
Fire(kind) ==
  /\ Len(fired) < MaxEvents
  /\ fired' = Append(fired, kind)
  /\ wire' = IF link = "open" /\ request = "accepted"
             THEN Append(wire, Len(fired) + 1) ELSE wire
  /\ UNCHANGED <<link, request, reader, held, queue, future, got, taken,
                 staleIdles, pc, entry, connected, command, faults>>

AcceptSubscription ==
  /\ link = "open" /\ request = "sent"
  /\ request' = "accepted"
  /\ wire' = Append(wire, 0)
  /\ UNCHANGED <<fired, link, reader, held, queue, future, got, taken,
                 staleIdles, pc, entry, connected, command, faults>>

(* The connection drops; what has arrived can still be read. *)
Drop ==
  /\ link = "open"
  /\ Fault
  /\ link' = "dropped"
  /\ \E n \in 0..Len(wire) : wire' = SubSeq(wire, 1, n)
  /\ UNCHANGED <<fired, request, reader, held, queue, future, got, taken,
                 staleIdles, pc, entry, connected, command>>

-----------------------------------------------------------------------------
(* _reader_loop and _queue_event. *)

(* A result goes to the future that waits for it, or to nobody. *)
ReadResult ==
  /\ Head(wire) = 0
  /\ future' = IF future = "waiting" THEN "set" ELSE future
  /\ UNCHANGED <<reader, held, queue, got>>

(* Mutant of ReadEvent: an event that finds the queue full is skipped. *)
ReadEventDropped ==
  /\ Head(wire) # 0
  /\ IF Len(queue) < QueueSize
     THEN queue' = Append(queue, Head(wire)) /\ got' = Append(got, Head(wire))
     ELSE UNCHANGED <<queue, got>>
  /\ UNCHANGED <<reader, held, future>>

ReadEvent ==
  /\ Head(wire) # 0
  /\ got' = Append(got, Head(wire))
  /\ IF Len(queue) < QueueSize
     THEN queue' = Append(queue, Head(wire)) /\ UNCHANGED <<reader, held>>
     ELSE held' = <<Head(wire)>> /\ reader' = "blocked" /\ UNCHANGED queue
  /\ UNCHANGED future

Read ==
  /\ reader = "running" /\ wire # <<>>
  /\ ReadResult \/ ReadEvent
  /\ wire' = Tail(wire)
  /\ UNCHANGED <<fired, link, request, taken, staleIdles, pc, entry, connected,
                 command, faults>>

(* Mutant of PutHeld: a full queue makes room by dropping its oldest event. *)
PutDropsOldest ==
  /\ reader = "blocked"
  /\ queue' = Append(SubSeq(queue, 2, Len(queue)), held[1])
  /\ held' = <<>>
  /\ reader' = "running"
  /\ UNCHANGED <<fired, link, request, wire, future, got, taken, staleIdles, pc,
                 entry, connected, command, faults>>

PutHeld ==
  /\ reader = "blocked" /\ Len(queue) < QueueSize
  /\ queue' = queue \o held
  /\ held' = <<>>
  /\ reader' = "running"
  /\ UNCHANGED <<fired, link, request, wire, future, got, taken, staleIdles, pc,
                 entry, connected, command, faults>>

(* _fail_pending: every future that is not done fails. *)
Failed(f) == IF f = "waiting" THEN "failed" ELSE f

(* Mutant of ReaderFails: the exception is swallowed and the task ends. *)
ReaderEndsQuietly ==
  /\ \/ reader = "blocked" /\ Len(queue) = QueueSize /\ UNCHANGED faults
     \/ reader = "running" /\ link = "dropped" /\ wire = <<>> /\ UNCHANGED faults
     \/ reader = "running" /\ wire # <<>> /\ Fault
  /\ reader' = "none"
  /\ future' = Failed(future)
  /\ UNCHANGED <<fired, link, request, wire, held, queue, got, taken,
                 staleIdles, pc, entry, connected, command>>

(* The reader fails when the queue stays full for a second, when the        *)
(* connection is closed and read out, or at a frame that is too large or    *)
(* not a JSON object.                                                       *)
ReaderFails ==
  /\ \/ reader = "blocked" /\ Len(queue) = QueueSize /\ UNCHANGED faults
     \/ reader = "running" /\ link = "dropped" /\ wire = <<>> /\ UNCHANGED faults
     \/ reader = "running" /\ wire # <<>> /\ Fault
  /\ reader' = "failed"
  /\ future' = Failed(future)
  /\ UNCHANGED <<fired, link, request, wire, held, queue, got, taken,
                 staleIdles, pc, entry, connected, command>>

-----------------------------------------------------------------------------
(* events(): from a connection to the next. *)

(* An exception leaves receive and run_forever, whose finally closes the    *)
(* transport.                                                               *)
Ended == pc' = "ended" /\ connected' = FALSE

(* websockets.connect raises outside the handler of events(), so that the   *)
(* exception leaves events() too.                                           *)
ConnectFails ==
  /\ pc = "connecting"
  /\ Fault
  /\ Ended
  /\ UNCHANGED <<fired, stream, entry, command>>

Connect ==
  /\ pc = "connecting"
  /\ link' = "open"
  /\ pc' = "authenticating"
  /\ UNCHANGED <<fired, request, wire, reader, held, queue, future, got, taken,
                 staleIdles, entry, connected, command, faults>>

(* The reader starts, and the subscription is sent without an await between *)
(* its future and the frame.                                                *)
Authenticate ==
  /\ pc = "authenticating" /\ link = "open"
  /\ connected' = TRUE
  /\ reader' = "running"
  /\ future' = "waiting"
  /\ request' = "sent"
  /\ pc' = "subscribing"
  /\ UNCHANGED <<fired, link, wire, held, queue, got, taken, staleIdles, entry,
                 command, faults>>

(* The handler of events(): the health is told, then a pause of a second. *)
Disconnected == pc' = "pausing" /\ connected' = FALSE

(* Home Assistant closes the connection, or does not ask for, answer or     *)
(* accept the authentication.                                               *)
AuthenticationFails ==
  /\ pc = "authenticating"
  /\ IF link = "open" THEN Fault ELSE UNCHANGED faults
  /\ Disconnected
  /\ UNCHANGED <<fired, stream, entry, command>>

Subscribed ==
  /\ pc = "subscribing" /\ future = "set"
  /\ future' = "none"
  /\ connected' = TRUE
  /\ pc' = "top"
  /\ UNCHANGED <<fired, link, request, wire, reader, held, queue, got, taken,
                 staleIdles, entry, command, faults>>

(* The reader failed the future, or there was no result in time; then a     *)
(* result that comes later finds no future.                                 *)
SubscriptionFails ==
  /\ pc = "subscribing"
  /\ \/ future = "failed" /\ UNCHANGED faults
     \/ future = "waiting" /\ Fault
  /\ future' = "none"
  /\ Disconnected
  /\ UNCHANGED <<fired, link, request, wire, reader, held, queue, got, taken,
                 staleIdles, entry, command>>

(* After the pause the reader is cancelled, and the connection is left with *)
(* whatever its queue still holds.                                          *)
PauseOver ==
  /\ pc = "pausing"
  /\ link' = "none" /\ request' = "none" /\ wire' = <<>>
  /\ reader' = "none" /\ held' = <<>> /\ queue' = <<>> /\ future' = "none"
  /\ got' = <<>> /\ taken' = <<>> /\ staleIdles' = 0
  /\ pc' = "connecting"
  /\ UNCHANGED <<fired, entry, connected, command, faults>>

(* receive is given an event: it returns a message, takes the next event,   *)
(* or raises ValueError, which ends the bridge task.                        *)
Take ==
  /\ taken' = Append(taken, Head(queue))
  /\ queue' = Tail(queue)
  /\ \/ fired[Head(queue)] = "message" /\ pc' = "processing" /\ UNCHANGED connected
     \/ fired[Head(queue)] = "ignored" /\ pc' = "top" /\ UNCHANGED connected
     \/ fired[Head(queue)] = "malformed" /\ Ended

(* Mutant of Turn: a reader that has ended is not looked at. *)
TurnIgnoresReader ==
  /\ pc = "top"
  /\ IF queue # <<>> THEN Take
     ELSE pc' = "getting" /\ UNCHANGED <<taken, queue, connected>>
  /\ UNCHANGED <<fired, link, request, wire, reader, held, future, got,
                 staleIdles, entry, command, faults>>

(* A turn of the loop: a reader that has failed comes before what it left   *)
(* in the queue.                                                            *)
Turn ==
  /\ pc = "top"
  /\ IF reader = "failed" THEN Disconnected /\ UNCHANGED <<taken, queue>>
     ELSE IF queue # <<>> THEN Take
     ELSE pc' = "getting" /\ UNCHANGED <<taken, queue, connected>>
  /\ UNCHANGED <<fired, link, request, wire, reader, held, future, got,
                 staleIdles, entry, command, faults>>

Get ==
  /\ pc = "getting" /\ queue # <<>>
  /\ Take
  /\ UNCHANGED <<fired, link, request, wire, reader, held, future, got,
                 staleIdles, entry, command, faults>>

(* No event for timeout_seconds: on_idle marks the bridge as connected,     *)
(* whatever became of the reader meanwhile.                                 *)
IdleTimeout ==
  /\ pc = "getting" /\ queue = <<>>
  /\ connected' = TRUE
  /\ staleIdles' = IF reader = "failed" THEN staleIdles + 1 ELSE staleIdles
  /\ pc' = "top"
  /\ UNCHANGED <<fired, link, request, wire, reader, held, queue, future, got,
                 taken, entry, command, faults>>

-----------------------------------------------------------------------------
(* receive, and _ensure_entry_id before it. *)

(* The generator starts with a connection, or goes on after its yield. *)
Resume == pc' = IF link = "none" THEN "connecting" ELSE "top"

Receive ==
  /\ pc = "processing"
  /\ IF entry
     THEN Resume /\ UNCHANGED command
     ELSE pc' = "asking" /\ command' = [command EXCEPT !["entries"] = Idle]
  /\ UNCHANGED <<fired, stream, entry, connected, faults>>

(* get_config_entries: one entry is remembered, none is left open, several  *)
(* end the bridge task, and so does a request that fails.                   *)
EntriesAnswered ==
  /\ pc = "asking" /\ command["entries"].at = "done"
  /\ \/ /\ command["entries"].outcome = "result"
        /\ \E found \in {0, 1, 2} :
             /\ entry' = (found = 1)
             /\ IF found = 2 THEN Fault /\ Ended
                             ELSE Resume /\ UNCHANGED <<connected, faults>>
     \/ /\ command["entries"].outcome = "error"
        /\ Ended
        /\ UNCHANGED <<entry, faults>>
  /\ UNCHANGED <<fired, stream, command>>

(* The bridge task is cancelled: the reader is cancelled with it. *)
Cancel ==
  /\ pc # "ended"
  /\ Fault
  /\ Ended
  /\ reader' = "none"
  /\ UNCHANGED <<fired, link, request, wire, held, queue, future, got, taken,
                 staleIdles, entry, command>>

-----------------------------------------------------------------------------
(* _simple_command: a connection for one request. *)

Others == <<fired, stream, pc, entry, connected>>

CommandDone(c, outcome) ==
  command' = [command EXCEPT ![c].at = "done", ![c].outcome = outcome,
                             ![c].link = "none"]

CommandConnects(c) ==
  /\ command[c].at = "idle"
  /\ c = "entries" => pc = "asking"
  /\ \/ /\ command' = [command EXCEPT ![c].at = "authenticating",
                                      ![c].link = "open"]
        /\ UNCHANGED faults
     \/ Fault /\ CommandDone(c, "error")
  /\ UNCHANGED Others

(* auth_ok: the reader starts and the request is sent. *)
CommandSent(c) ==
  /\ command[c].at = "authenticating" /\ command[c].link = "open"
  /\ command' = [command EXCEPT ![c].at = "waiting", ![c].request = "sent"]
  /\ UNCHANGED <<Others, faults>>

CommandRefused(c) ==
  /\ command[c].at = "authenticating"
  /\ IF command[c].link = "open" THEN Fault ELSE UNCHANGED faults
  /\ CommandDone(c, "error")
  /\ UNCHANGED Others

(* Home Assistant carries the request out, maybe after its connection was   *)
(* given up; then nobody hears of it.                                       *)
Execute(c) ==
  /\ command[c].request = "sent"
  /\ \E reply \in {"result", "error"} :
       command' = [command EXCEPT
         ![c].request = "executed",
         ![c].reply = IF command[c].link = "open" THEN reply ELSE "none"]
  /\ UNCHANGED <<Others, faults>>

CommandDrops(c) ==
  /\ command[c].link = "open"
  /\ Fault
  /\ \E reply \in {command[c].reply, "none"} :
       command' = [command EXCEPT ![c].link = "dropped", ![c].reply = reply]
  /\ UNCHANGED Others

(* The reader reads the reply, and the future is set. *)
CommandAnswered(c) ==
  /\ command[c].at = "waiting" /\ command[c].reply # "none"
  /\ CommandDone(c, command[c].reply)
  /\ UNCHANGED <<Others, faults>>

(* The reader finds the connection closed and fails the future. *)
CommandLost(c) ==
  /\ command[c].at = "waiting"
  /\ command[c].link = "dropped" /\ command[c].reply = "none"
  /\ CommandDone(c, "error")
  /\ UNCHANGED <<Others, faults>>

(* Mutant of CommandTimesOut: the wait for a result has no timeout. *)
CommandWaits(c) == FALSE /\ UNCHANGED vars

CommandTimesOut(c) ==
  /\ command[c].at = "waiting"
  /\ CommandDone(c, "error")
  /\ UNCHANGED <<Others, faults>>

-----------------------------------------------------------------------------
Reading == Read \/ PutHeld \/ ReaderFails

Connecting ==
  \/ Connect \/ ConnectFails \/ Authenticate \/ AuthenticationFails
  \/ Subscribed \/ SubscriptionFails \/ PauseOver

Taking == Turn \/ Get \/ IdleTimeout \/ Receive \/ EntriesAnswered

Commanding(c) ==
  \/ CommandConnects(c) \/ CommandSent(c) \/ CommandRefused(c)
  \/ CommandAnswered(c) \/ CommandLost(c) \/ CommandTimesOut(c)

Next ==
  \/ \E kind \in Kinds : Fire(kind)
  \/ AcceptSubscription \/ Drop \/ Cancel
  \/ Reading \/ Connecting \/ Taking
  \/ \E c \in Commands : Commanding(c) \/ Execute(c) \/ CommandDrops(c)

Spec == Init /\ [][Next]_vars

(* The event loop runs the tasks and their timers; Home Assistant accepts   *)
(* connections and subscriptions, but need not answer a request.            *)
FairSpec ==
  /\ Spec
  /\ WF_vars(Read) /\ WF_vars(PutHeld) /\ WF_vars(ReaderFails)
  /\ WF_vars(Connect) /\ WF_vars(Authenticate) /\ WF_vars(AuthenticationFails)
  /\ WF_vars(AcceptSubscription) /\ WF_vars(Subscribed)
  /\ WF_vars(SubscriptionFails) /\ WF_vars(PauseOver)
  /\ WF_vars(Taking)
  /\ \A c \in Commands : WF_vars(Commanding(c))

-----------------------------------------------------------------------------
(* Properties. *)

(* Every variable holds a value of its kind. *)
StreamOK ==
  /\ link \in {"none", "open", "dropped"}
  /\ request \in {"none", "sent", "accepted"}
  /\ wire \in Seq(0..MaxEvents)
  /\ reader \in {"none", "running", "blocked", "failed"}
  /\ held \in Seq(1..MaxEvents) /\ Len(held) <= 1
  /\ queue \in Seq(1..MaxEvents) /\ Len(queue) <= QueueSize
  /\ future \in {"none", "waiting", "set", "failed"}
  /\ got \in Seq(1..MaxEvents) /\ taken \in Seq(1..MaxEvents)
CommandRecords ==
  [at : {"idle", "authenticating", "waiting", "done"},
   link : {"none", "open", "dropped"},
   request : {"none", "sent", "executed"},
   reply : {"none", "result", "error"},
   outcome : {"none", "result", "error"}]
CommandOK == command \in [Commands -> CommandRecords]
TypeOK ==
  /\ fired \in Seq(Kinds) /\ Len(fired) <= MaxEvents
  /\ StreamOK /\ CommandOK
  /\ pc \in {"processing", "asking", "connecting", "authenticating",
             "subscribing", "top", "getting", "pausing", "ended"}
  /\ entry \in BOOLEAN /\ connected \in BOOLEAN
  /\ staleIdles \in Nat /\ faults \in 0..MaxFaults

(* Between the socket and receive no event is lost, doubled or passed by    *)
(* another, however full the queue was: what was read from a connection is  *)
(* what was taken out, what is queued and what the reader has in hand, in   *)
(* this order (_queue_event, events).                                       *)
NothingLostInside == got = taken \o queue \o held

(* The bridge may be called connected after its reader failed, by an idle   *)
(* timeout, but once only: the next turn of the loop sees the failure       *)
(* (events, _mark_subscribed).                                              *)
OneStaleIdle == staleIdles <= 1

(* From Home Assistant to receive, over the network, the reader, the queue  *)
(* and the generator, the events of a connection implement EventFeed: none  *)
(* that was fired while subscribed is skipped, doubled or overtaken, and    *)
(* only the newest are lost with a connection.  The result of the           *)
(* subscription comes before them on the wire (_send_command, events).      *)
AfterResult(frames) ==
  IF frames # <<>> /\ Head(frames) = 0 THEN Tail(frames) ELSE frames

Feed == INSTANCE EventFeed
          WITH subscribed <- link = "open" /\ request = "accepted",
               pending <- queue \o held \o AfterResult(wire)

FeedSpec == Feed!Spec

(* An event in the queue is taken, unless the reader fails or the process   *)
(* ends first: only then may what is queued be left behind (events).        *)
QueuedIsTaken ==
  \A n \in 1..MaxEvents :
    (\E i \in 1..Len(queue) : queue[i] = n) ~>
      \/ \E i \in 1..Len(taken) : taken[i] = n
      \/ reader \notin {"running", "blocked"} \/ pc = "ended"

(* After every loss the bridge is subscribed again, unless the process has  *)
(* ended: by a connection that was refused, a request for the entries that  *)
(* failed or was ambiguous, a malformed event, or a cancellation (events,   *)
(* receive).                                                                *)
Listening == link = "open" /\ request = "accepted" /\ reader = "running"
Resumes == []<>(Listening \/ pc = "ended")

(* Every request ends with a result or an error, though Home Assistant may  *)
(* never answer (_wait_for_result, _fail_pending).                          *)
EveryCommandEnds ==
  \A c \in Commands : (command[c].at # "idle") ~> (command[c].at = "done")
=============================================================================
