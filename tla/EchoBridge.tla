------------------------------ MODULE EchoBridge ------------------------------
(***************************************************************************)
(* Loop prevention between the two directions of the bridge.  The polling  *)
(* task forwards Telegram texts to the mesh and records each one in        *)
(* telegram_bridge_pending (_process_forward_update in                     *)
(* telegram/service.py); the bridge task reads what the mesh reports and   *)
(* asks that table whether a message is an echo before it forwards it to   *)
(* Telegram (process_message in app.py, MeshCoreToTelegramForwarder).      *)
(*                                                                         *)
(* The two tasks interleave at their awaits.  Home Assistant and the mesh  *)
(* behind it are external: they transmit a text they were asked to send,   *)
(* answer the request, and report the transmission back, in any order.     *)
(***************************************************************************)
EXTENDS Naturals, Sequences, FiniteSets

CONSTANTS Texts,       \* texts as they appear on the mesh
          Rendered,    \* the texts render_meshcore_forward_message returns
          Normalized,  \* _normalized_bridge_text: spaces squeezed and stripped
          Window,      \* BRIDGE_PENDING_WINDOW_SECONDS
          MaxForwards, \* bound: texts forwarded to the mesh
          MaxMessages, \* bound: messages the mesh reports
          MaxTime,     \* bound: last value of the clock
          MaxFaults    \* bound: kills, failed requests and failed writes

ASSUME ParametersAssumption ==
  /\ Rendered \subseteq Texts
  /\ Normalized \in [Texts -> Texts]
  /\ \A t \in Texts : Normalized[Normalized[t]] = Normalized[t]
  /\ Window \in Nat \ {0}
  /\ MaxForwards \in Nat
  /\ MaxMessages \in Nat
  /\ MaxTime \in Nat
  /\ MaxFaults \in Nat

VARIABLES
  asked,      \* the texts the polling task asked to send, in order
  onAir,      \* external: the forwards that were transmitted
  reported,   \* external: the forwards whose transmission was reported
  heard,      \* the messages the mesh reported, in order
  status,     \* telegram_bridge_pending: status of a forward's row
  expiresAt,  \* telegram_bridge_pending: expires_at of that row
  tg,         \* where the polling task is
  mc,         \* where the bridge task is
  read,       \* how many reported messages are read, or gone
  now,        \* the wall clock
  faults,     \* faults so far
  recordedAt, \* history: when a forward's acceptance was recorded, 0 never
  takenBy,    \* history: the row that passed a message off as an echo, or 0
  toTelegram  \* history: messages that reached Telegram

mesh    == <<asked, onAir, reported, heard>>
rows    == <<status, expiresAt>>
tasks   == <<tg, mc, read>>
history == <<recordedAt, takenBy, toTelegram>>
vars    == <<mesh, rows, tasks, now, faults, history>>

Forwards == 1..MaxForwards
Messages == 1..MaxMessages

(* What becomes of a reported message before the forwarder looks for an     *)
(* echo: the transport or the forwarder sees it marked as outgoing,         *)
(* process_message or the forwarder's switch refuses it, or it goes on.     *)
Classes == {"outgoing", "refused", "text"}

Statuses == {"none", "accepted_by_meshcore_transport", "observed_echo", "failed"}

Init ==
  /\ asked = <<>>
  /\ onAir = {}
  /\ reported = {}
  /\ heard = <<>>
  /\ status = [f \in Forwards |-> "none"]
  /\ expiresAt = [f \in Forwards |-> 0]
  /\ tg = "down"
  /\ mc = "down"
  /\ read = 0
  /\ now = 1
  /\ faults = 0
  /\ recordedAt = [f \in Forwards |-> 0]
  /\ takenBy = [m \in Messages |-> 0]
  /\ toTelegram = {}

-----------------------------------------------------------------------------
(* The environment *)

Fault ==
  /\ faults < MaxFaults
  /\ faults' = faults + 1

Tick ==
  /\ now < MaxTime
  /\ now' = now + 1
  /\ UNCHANGED <<mesh, rows, tasks, faults, history>>

(* The mesh transmits a text it was asked to send, perhaps after the        *)
(* request for it has timed out.                                            *)
Transmit(f) ==
  /\ f \in 1..Len(asked)
  /\ f \notin onAir
  /\ onAir' = onAir \union {f}
  /\ UNCHANGED <<asked, reported, heard, rows, tasks, now, faults, history>>

(* A meshcore_message event while the subscription is up. *)
Report(text, origin, class) ==
  /\ mc # "down"
  /\ Len(heard) < MaxMessages
  /\ heard' = Append(heard, [text |-> text, origin |-> origin, class |-> class])
  /\ UNCHANGED <<asked, onAir, rows, tasks, now, faults, history>>

(* The bridge's own transmission is reported, marked as outgoing or not. *)
Echo(f, class) ==
  /\ f \in onAir \ reported
  /\ reported' = reported \union {f}
  /\ Report(asked[f], f, class)

(* Somebody on the mesh sends a text of their own. *)
Say(text, class) ==
  /\ UNCHANGED reported
  /\ Report(text, 0, class)

(* Mutant of Kill: the pending records live in memory. *)
KillForgetsRows ==
  /\ tg # "down"
  /\ Fault
  /\ tg' = "down"
  /\ mc' = "down"
  /\ read' = Len(heard)
  /\ status' = [f \in Forwards |-> "none"]
  /\ UNCHANGED <<mesh, expiresAt, now, history>>

(* The process ends at any point: both tasks go, and with them the events   *)
(* in the queue.  A request to Telegram under way may have been carried out.*)
Kill ==
  /\ tg # "down"
  /\ Fault
  /\ tg' = "down"
  /\ mc' = "down"
  /\ read' = Len(heard)
  /\ \/ UNCHANGED toTelegram
     \/ mc = "sending" /\ toTelegram' = toTelegram \union {read}
  /\ UNCHANGED <<mesh, rows, now, recordedAt, takenBy>>

Start ==
  /\ tg = "down"
  /\ tg' = "idle"
  /\ mc' = "waiting"
  /\ UNCHANGED <<mesh, rows, read, now, faults, history>>

-----------------------------------------------------------------------------
(* telegram_bridge_pending *)

(* Mutant of Expired: rows never expire. *)
ExpiredNever(f) == FALSE

Expired(f) == expiresAt[f] <= now

(* DELETE FROM telegram_bridge_pending WHERE expires_at <= now *)
Purged == [f \in Forwards |-> IF Expired(f) THEN "none" ELSE status[f]]

(* create_bridge_record for the forward the polling task is at *)
CreateRecord(newStatus) ==
  /\ status' = [Purged EXCEPT ![Len(asked)] = newStatus]
  /\ expiresAt' = [expiresAt EXCEPT ![Len(asked)] = now + Window]

(* The rows consume_pending_echo selects for a message, and the one of them *)
(* that it takes: ORDER BY created_at LIMIT 1.                              *)
Matching(m) ==
  {f \in Forwards : /\ status[f] = "accepted_by_meshcore_transport"
                    /\ ~Expired(f)
                    /\ asked[f] = Normalized[heard[m].text]}

Oldest(S) == {f \in S : \A g \in S : expiresAt[f] <= expiresAt[g]}

(* Records of dropped texts and of messages to Telegram never match an echo *)
(* and are left out; writing one purges the table, unless the write fails.  *)
RecordOther ==
  /\ status' \in {status, Purged}
  /\ UNCHANGED expiresAt

-----------------------------------------------------------------------------
(* The polling task: _process_forward_update *)

(* Forwarding is off, or nothing is left to send, or the rate limit is      *)
(* reached.                                                                 *)
DropForward ==
  /\ tg = "idle"
  /\ RecordOther
  /\ UNCHANGED <<mesh, tasks, now, faults, history>>

(* A text that is switched on, not empty and within its rate limit. *)
AskToSend(text) ==
  /\ tg = "idle"
  /\ Len(asked) < MaxForwards
  /\ asked' = Append(asked, text)
  /\ tg' = "sending"
  /\ UNCHANGED <<onAir, reported, heard, rows, mc, read, now, faults, history>>

(* Home Assistant answers the service call; the acceptance is recorded. *)
SendAccepted ==
  /\ tg = "sending"
  /\ Len(asked) \in onAir
  /\ CreateRecord("accepted_by_meshcore_transport")
  /\ recordedAt' = [recordedAt EXCEPT ![Len(asked)] = now]
  /\ tg' = "idle"
  /\ UNCHANGED <<mesh, mc, read, now, faults, takenBy, toTelegram>>

(* It answers, and the write fails: _safe_create_bridge_record logs that.   *)
SendAcceptedUnrecorded ==
  /\ tg = "sending"
  /\ Len(asked) \in onAir
  /\ Fault
  /\ tg' = "idle"
  /\ UNCHANGED <<mesh, rows, mc, read, now, history>>

(* The call raises, by an error or a timeout, whatever Home Assistant did   *)
(* or will do with the request.  The failure is recorded if it can be.      *)
SendFailed ==
  /\ tg = "sending"
  /\ Fault
  /\ CreateRecord("failed") \/ UNCHANGED rows
  /\ tg' = "idle"
  /\ UNCHANGED <<mesh, mc, read, now, history>>

-----------------------------------------------------------------------------
(* The bridge task: receive, process_message and forward_normal_text *)

(* receive returns the next event. *)
Receive ==
  /\ mc = "waiting"
  /\ read < Len(heard)
  /\ read' = read + 1

(* The event is marked as outgoing or refused before an echo is looked for. *)
Ignore ==
  /\ Receive
  /\ heard[read'].class # "text"
  /\ RecordOther
  /\ UNCHANGED <<mesh, tg, mc, now, faults, history>>

(* Mutant of ConsumeEcho: the row is not marked. *)
ConsumeEchoUnmarked ==
  /\ Receive
  /\ heard[read'].class = "text"
  /\ \E f \in Oldest(Matching(read')) :
       /\ status' = Purged
       /\ takenBy' = [takenBy EXCEPT ![read'] = f]
  /\ UNCHANGED <<mesh, expiresAt, tg, mc, now, faults, recordedAt, toTelegram>>

(* consume_pending_echo finds a row: the message goes no further. *)
ConsumeEcho ==
  /\ Receive
  /\ heard[read'].class = "text"
  /\ \E f \in Oldest(Matching(read')) :
       /\ status' = [Purged EXCEPT ![f] = "observed_echo"]
       /\ takenBy' = [takenBy EXCEPT ![read'] = f]
  /\ UNCHANGED <<mesh, expiresAt, tg, mc, now, faults, recordedAt, toTelegram>>

(* It raises: the forwarder takes that for an echo. *)
ConsumeFails ==
  /\ Receive
  /\ heard[read'].class = "text"
  /\ Fault
  /\ UNCHANGED <<mesh, rows, tg, mc, now, history>>

(* It finds none.  The message is sent to Telegram, or the rate limit of    *)
(* its sender drops it.                                                     *)
NoEcho ==
  /\ Receive
  /\ heard[read'].class = "text"
  /\ Matching(read') = {}
  /\ status' = Purged
  /\ mc' \in {"sending", "waiting"}
  /\ UNCHANGED <<mesh, expiresAt, tg, now, faults, history>>

TelegramAccepts ==
  /\ mc = "sending"
  /\ toTelegram' = toTelegram \union {read}
  /\ RecordOther
  /\ mc' = "waiting"
  /\ UNCHANGED <<mesh, tg, read, now, faults, recordedAt, takenBy>>

(* Every error of the request is recorded and the next message is read; it  *)
(* may have reached Telegram all the same.                                  *)
TelegramFails ==
  /\ mc = "sending"
  /\ Fault
  /\ toTelegram' \in {toTelegram, toTelegram \union {read}}
  /\ RecordOther
  /\ mc' = "waiting"
  /\ UNCHANGED <<mesh, tg, read, now, recordedAt, takenBy>>

-----------------------------------------------------------------------------
Environment ==
  \/ Tick
  \/ \E f \in Forwards : Transmit(f)
  \/ \E f \in Forwards, class \in {"outgoing", "text"} : Echo(f, class)
  \/ \E text \in Texts, class \in {"refused", "text"} : Say(text, class)
  \/ Kill
  \/ Start

PollingTask ==
  \/ DropForward
  \/ \E text \in Rendered : AskToSend(text)
  \/ SendAccepted
  \/ SendAcceptedUnrecorded
  \/ SendFailed

BridgeTask ==
  \/ Ignore
  \/ ConsumeEcho
  \/ ConsumeFails
  \/ NoEcho
  \/ TelegramAccepts
  \/ TelegramFails

Next == Environment \/ PollingTask \/ BridgeTask

Spec == Init /\ [][Next]_vars

-----------------------------------------------------------------------------
MessageType == [text : Texts, origin : 0..MaxForwards, class : Classes]

TypeOK ==
  /\ asked \in Seq(Texts) /\ Len(asked) <= MaxForwards
  /\ onAir \subseteq 1..Len(asked)
  /\ reported \subseteq onAir
  /\ heard \in Seq(MessageType) /\ Len(heard) <= MaxMessages
  /\ status \in [Forwards -> Statuses]
  /\ expiresAt \in [Forwards -> Nat]
  /\ tg \in {"down", "idle", "sending"}
  /\ tg = "sending" => Len(asked) > 0
  /\ mc \in {"down", "waiting", "sending"}
  /\ read \in 0..Len(heard)
  /\ mc = "sending" => read > 0
  /\ now \in Nat \ {0}
  /\ faults \in Nat
  /\ recordedAt \in [Forwards -> Nat]
  /\ takenBy \in [Messages -> 0..MaxForwards]
  /\ toTelegram \subseteq Messages

(* A message of the mesh is passed off as an echo only in exchange for a    *)
(* text that Home Assistant accepted: the same text, one message for each   *)
(* accepted forward, whatever the interleaving, the failures and restarts.  *)
OneMessagePerForward ==
  \A m \in Messages : takenBy[m] # 0 =>
    /\ recordedAt[takenBy[m]] # 0
    /\ asked[takenBy[m]] = Normalized[heard[m].text]
    /\ \A n \in Messages : takenBy[n] = takenBy[m] => n = m

(* No message is passed off as an echo once the window of the forward it is *)
(* charged to is over: users may repeat the bridge's words after that.      *)
TakenInWindow ==
  [][\A m \in Messages : takenBy'[m] # takenBy[m] =>
       now < recordedAt[takenBy'[m]] + Window]_vars

(* The forward whose echo starts on its way to Telegram in this step is f.  *)
EchoPasses(f) ==
  /\ mc = "waiting" /\ mc' = "sending"
  /\ heard[read'].origin = f

(* Why an echo may pass: its forward was not recorded when it was read, the *)
(* window was over, or another message with that text had used the record.  *)
Unprotected(f) ==
  \/ recordedAt[f] = 0
  \/ now >= recordedAt[f] + Window
  \/ \E m \in Messages : takenBy[m] = f

(* A recorded echo never returns to Telegram, across restarts of the        *)
(* process too, when the text that was recorded is its own normal form.     *)
RecordedEchoBlocked ==
  [][\A f \in Forwards :
       EchoPasses(f) /\ Normalized[asked[f]] = asked[f] => Unprotected(f)]_vars

-----------------------------------------------------------------------------
(* Statements of the repository that the code does not live up to. *)

(* docs/telegram-meshcore-bridge.md: "Real bridge echo is blocked and       *)
(* consumes one pending bridge record."                                     *)
EchoBlocked == \A m \in toTelegram : heard[m].origin = 0

(* meshcore-control-bridge/DOCS.md: text forwarded to MeshCore "is recorded *)
(* as pending; if the same transport message is later observed back from    *)
(* MeshCore, the App consumes that pending record and does not echo the     *)
(* text back to Telegram" - with any prefix the configuration accepts.      *)
PendingEchoConsumed ==
  [][\A f \in Forwards : EchoPasses(f) => Unprotected(f)]_vars
=============================================================================
