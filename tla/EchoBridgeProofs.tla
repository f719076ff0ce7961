--------------------------- MODULE EchoBridgeProofs ---------------------------
(***************************************************************************)
(* Proofs about EchoBridge for any texts, any normal form of texts, any    *)
(* window, and any number of forwards, messages, faults and restarts.      *)
(***************************************************************************)
EXTENDS EchoBridge, TLAPS

Accepted == "accepted_by_meshcore_transport"

(* What the table knows of a forward, against what happened to it: a row    *)
(* that can still match belongs to a recorded forward no message has used,  *)
(* and a recorded forward has such a row until its window is over or a      *)
(* message uses it.                                                         *)
RowInv ==
  \A f \in Forwards :
    /\ status[f] = Accepted =>
         recordedAt[f] # 0 /\ \A m \in Messages : takenBy[m] # f
    /\ recordedAt[f] # 0 => f <= Len(asked) /\ expiresAt[f] = recordedAt[f] + Window
    /\ recordedAt[f] # 0 /\ now < expiresAt[f] /\ (\A m \in Messages : takenBy[m] # f)
         => status[f] = Accepted

(* The forward under way is not recorded yet. *)
SendingInv == tg = "sending" => recordedAt[Len(asked)] = 0

(* Only messages that were read have used a row. *)
ReadInv == \A m \in Messages : takenBy[m] # 0 => m <= read

IInv == TypeOK /\ RowInv /\ SendingInv /\ ReadInv /\ OneMessagePerForward

-----------------------------------------------------------------------------
(* Before the first process starts. *)
LEMMA InitInv == Init => IInv
<1> SUFFICES ASSUME Init PROVE IInv
  OBVIOUS
<1>1. Len(asked) = 0 /\ Len(heard) = 0 /\ asked \in Seq(Texts) /\ heard \in Seq(MessageType)
  BY DEF Init
<1>2. TypeOK
  BY <1>1, ParametersAssumption DEF TypeOK, Init, Statuses
<1>3. RowInv /\ SendingInv /\ ReadInv /\ OneMessagePerForward
  BY DEF Init, RowInv, SendingInv, ReadInv, OneMessagePerForward, Accepted
<1>4. QED
  BY <1>2, <1>3 DEF IInv

(* Purging changes no row but to "none". *)
LEMMA PurgedType ==
  ASSUME TypeOK
  PROVE  Purged \in [Forwards -> Statuses]
  BY DEF TypeOK, Purged, Statuses

(* create_bridge_record writes a row of the table. *)
LEMMA CreateRecordType ==
  ASSUME TypeOK, NEW s \in Statuses, CreateRecord(s)
  PROVE  status' \in [Forwards -> Statuses] /\ expiresAt' \in [Forwards -> Nat]
<1>1. Purged \in [Forwards -> Statuses]
  BY PurgedType
<1>2. status' \in [Forwards -> Statuses]
  BY <1>1 DEF CreateRecord
<1>3. now + Window \in Nat
  BY ParametersAssumption DEF TypeOK
<1>4. expiresAt' \in [Forwards -> Nat]
  BY <1>3 DEF CreateRecord, TypeOK
<1>5. QED
  BY <1>2, <1>4

(* What users and the mesh do keeps the types. *)
LEMMA EnvironmentType == ASSUME TypeOK, Environment PROVE TypeOK'
<1>1. CASE Tick
  BY <1>1 DEF TypeOK, Tick, mesh, rows, tasks, history
<1>2. ASSUME NEW f \in Forwards, Transmit(f) PROVE TypeOK'
  BY <1>2 DEF TypeOK, Transmit, rows, tasks, history
<1>3. ASSUME NEW text \in Texts, NEW origin \in 0..MaxForwards, NEW class \in Classes,
             Report(text, origin, class),
             reported' \subseteq onAir
      PROVE  TypeOK'
  <2> DEFINE message == [text |-> text, origin |-> origin, class |-> class]
  <2>1. message \in MessageType
    BY DEF MessageType
  <2>2. heard' = Append(heard, message)
    BY <1>3 DEF Report
  <2>3. heard' \in Seq(MessageType) /\ Len(heard') = Len(heard) + 1
    BY <2>1, <2>2 DEF TypeOK
  <2>4. Len(heard') <= MaxMessages
    BY <2>3, <1>3, ParametersAssumption DEF Report, TypeOK
  <2>5. read' \in 0..Len(heard')
    BY <2>3, <1>3 DEF Report, TypeOK, tasks
  <2>6. QED
    BY <2>3, <2>4, <2>5, <1>3 DEF Report, TypeOK, rows, tasks, history
<1>4. ASSUME NEW f \in Forwards, NEW class \in {"outgoing", "text"}, Echo(f, class)
      PROVE  TypeOK'
  <2>1. f \in 1..Len(asked) /\ f \in 0..MaxForwards
    BY <1>4, ParametersAssumption DEF Echo, TypeOK, Forwards
  <2>2. asked[f] \in Texts
    BY <2>1 DEF TypeOK
  <2>3. class \in Classes
    BY DEF Classes
  <2>4. reported' \subseteq onAir
    BY <1>4 DEF Echo, TypeOK
  <2>5. Report(asked[f], f, class)
    BY <1>4 DEF Echo
  <2>6. QED
    BY <2>1, <2>2, <2>3, <2>4, <2>5, <1>3
<1>5. ASSUME NEW text \in Texts, NEW class \in {"refused", "text"}, Say(text, class)
      PROVE  TypeOK'
  <2>1. class \in Classes /\ 0 \in 0..MaxForwards
    BY ParametersAssumption DEF Classes
  <2>2. Report(text, 0, class) /\ reported' \subseteq onAir
    BY <1>5 DEF Say, TypeOK
  <2>3. QED
    BY <2>1, <2>2, <1>3
<1>6. CASE Kill
  <2>1. mc = "sending" => read \in Messages
    BY ParametersAssumption DEF TypeOK, Messages
  <2>2. toTelegram' \subseteq Messages
    BY <1>6, <2>1 DEF TypeOK, Kill
  <2>3. QED
    BY <1>6, <2>2 DEF TypeOK, Kill, Fault, mesh, rows
<1>7. CASE Start
  BY <1>7 DEF TypeOK, Start, mesh, rows, history
<1>8. QED
  BY <1>1, <1>2, <1>4, <1>5, <1>6, <1>7 DEF Environment

(* So does the polling task. *)
LEMMA PollingType == ASSUME TypeOK, PollingTask PROVE TypeOK'
<1>1. ASSUME NEW text \in Rendered, AskToSend(text) PROVE TypeOK'
  <2>1. text \in Texts
    BY ParametersAssumption
  <2>2. asked' \in Seq(Texts) /\ Len(asked') = Len(asked) + 1
    BY <1>1, <2>1 DEF AskToSend, TypeOK
  <2>3. Len(asked') <= MaxForwards
    BY <1>1, <2>2, ParametersAssumption DEF AskToSend, TypeOK
  <2>4. onAir' \subseteq 1..Len(asked')
    BY <1>1, <2>2 DEF AskToSend, TypeOK
  <2>5. QED
    BY <1>1, <2>2, <2>3, <2>4 DEF AskToSend, TypeOK, rows, history
<1>2. CASE SendAccepted
  <2>1. status' \in [Forwards -> Statuses] /\ expiresAt' \in [Forwards -> Nat]
    BY <1>2, CreateRecordType DEF SendAccepted, Statuses
  <2>2. recordedAt' \in [Forwards -> Nat]
    BY <1>2 DEF SendAccepted, TypeOK
  <2>3. QED
    BY <1>2, <2>1, <2>2 DEF SendAccepted, TypeOK, mesh
<1>3. CASE SendAcceptedUnrecorded
  BY <1>3 DEF SendAcceptedUnrecorded, TypeOK, Fault, mesh, rows, history
<1>4. CASE SendFailed
  <2>1. status' \in [Forwards -> Statuses] /\ expiresAt' \in [Forwards -> Nat]
    <3>1. CASE CreateRecord("failed")
      BY <3>1, CreateRecordType DEF Statuses
    <3>2. CASE UNCHANGED rows
      BY <3>2 DEF rows, TypeOK
    <3>3. QED
      BY <1>4, <3>1, <3>2 DEF SendFailed
  <2>2. QED
    BY <1>4, <2>1 DEF SendFailed, TypeOK, Fault, mesh, history
<1>5. CASE DropForward
  BY <1>5, PurgedType DEF DropForward, RecordOther, TypeOK, mesh, tasks, history
<1>6. QED
  BY <1>1, <1>2, <1>3, <1>4, <1>5 DEF PollingTask

(* A message is read after the ones before it. *)
LEMMA ReceiveType ==
  ASSUME TypeOK, Receive
  PROVE  /\ read' \in 0..Len(heard) /\ read' > 0 /\ read' > read
         /\ read' \in Messages
  BY ParametersAssumption DEF TypeOK, Receive, Messages

(* So does the bridge task. *)
LEMMA BridgeType == ASSUME TypeOK, BridgeTask PROVE TypeOK'
<1>1. Purged \in [Forwards -> Statuses]
  BY PurgedType
<1>2. mc = "sending" => read \in Messages
  BY ParametersAssumption DEF TypeOK, Messages
<1>3. CASE Ignore
  <2>1. read' \in 0..Len(heard) /\ read' > 0
    BY <1>3, ReceiveType DEF Ignore
  <2>2. QED
    BY <1>1, <1>3, <2>1 DEF Ignore, RecordOther, TypeOK, mesh, history
<1>4. CASE ConsumeEcho
  <2>1. read' \in 0..Len(heard) /\ read' > 0
    BY <1>4, ReceiveType DEF ConsumeEcho
  <2>2. PICK f \in Oldest(Matching(read')) :
          /\ status' = [Purged EXCEPT ![f] = "observed_echo"]
          /\ takenBy' = [takenBy EXCEPT ![read'] = f]
    BY <1>4 DEF ConsumeEcho
  <2>3. f \in Forwards /\ f \in 0..MaxForwards
    BY <2>2, ParametersAssumption DEF Oldest, Matching, Forwards
  <2>4. status' \in [Forwards -> Statuses] /\ takenBy' \in [Messages -> 0..MaxForwards]
    BY <1>1, <2>2, <2>3 DEF TypeOK, Statuses
  <2>5. QED
    BY <1>4, <2>1, <2>4 DEF ConsumeEcho, TypeOK, mesh
<1>5. CASE ConsumeFails
  <2>1. read' \in 0..Len(heard) /\ read' > 0
    BY <1>5, ReceiveType DEF ConsumeFails
  <2>2. QED
    BY <1>5, <2>1 DEF ConsumeFails, Fault, TypeOK, mesh, rows, history
<1>6. CASE NoEcho
  <2>1. read' \in 0..Len(heard) /\ read' > 0
    BY <1>6, ReceiveType DEF NoEcho
  <2>2. QED
    BY <1>1, <1>6, <2>1 DEF NoEcho, TypeOK, mesh, history
<1>7. CASE TelegramAccepts
  BY <1>1, <1>2, <1>7 DEF TelegramAccepts, RecordOther, TypeOK, mesh
<1>8. CASE TelegramFails
  BY <1>1, <1>2, <1>8 DEF TelegramFails, RecordOther, Fault, TypeOK, mesh
<1>9. QED
  BY <1>3, <1>4, <1>5, <1>6, <1>7, <1>8 DEF BridgeTask

(* Every step keeps the types. *)
LEMMA TypeStep == ASSUME TypeOK, Next PROVE TypeOK'
  BY EnvironmentType, PollingType, BridgeType DEF Next

-----------------------------------------------------------------------------
(* A step that at most purges the table, and starts no forward. *)
LEMMA KeepsRows ==
  ASSUME IInv, TypeOK',
         UNCHANGED <<asked, expiresAt, recordedAt, takenBy>>,
         status' \in {status, Purged},
         now' >= now,
         tg' = "sending" => tg = "sending",
         read' >= read,
         \A m \in 1..Len(heard) : heard'[m] = heard[m]
  PROVE  IInv'
<1>1. \A f \in Forwards :
        /\ status'[f] \in {status[f], "none"}
        /\ now < expiresAt[f] => status'[f] = status[f]
  BY DEF Purged, Expired, IInv, TypeOK
<1>2. RowInv'
  <2>1. ASSUME NEW f \in Forwards
        PROVE  /\ status'[f] = Accepted => status[f] = Accepted
               /\ now' < expiresAt[f] => now < expiresAt[f]
    BY <1>1 DEF Accepted, IInv, TypeOK
  <2>2. QED
    BY <1>1, <2>1 DEF RowInv, IInv
<1>3. SendingInv' /\ ReadInv'
  <2>1. SendingInv'
    BY DEF IInv, SendingInv
  <2>2. read \in Nat /\ read' \in Nat /\ Messages \subseteq Nat
    BY DEF IInv, TypeOK, Messages
  <2>3. ASSUME NEW m \in Messages, takenBy'[m] # 0 PROVE m <= read'
    BY <2>2, <2>3 DEF IInv, ReadInv
  <2>4. QED
    BY <2>1, <2>3 DEF ReadInv
<1>4. OneMessagePerForward'
  <2>1. \A m \in Messages : takenBy[m] # 0 => heard'[m] = heard[m]
    BY ParametersAssumption DEF IInv, ReadInv, TypeOK, Messages
  <2>2. QED
    BY <2>1 DEF IInv, OneMessagePerForward
<1>5. QED
  BY <1>2, <1>3, <1>4 DEF IInv

(* The environment touches no row. *)
LEMMA EnvironmentInv == ASSUME IInv, Environment PROVE IInv'
<1>1. TypeOK'
  BY EnvironmentType DEF IInv
<1>2. CASE Tick
  BY <1>1, <1>2, KeepsRows DEF Tick, IInv, TypeOK, mesh, rows, tasks, history
<1>3. ASSUME NEW f \in Forwards, Transmit(f) PROVE IInv'
  <2>1. UNCHANGED <<asked, heard, rows, tasks, now, history>>
    BY <1>3 DEF Transmit
  <2>2. read' >= read /\ now' >= now
    BY <2>1 DEF IInv, TypeOK, tasks
  <2>3. QED
    BY <1>1, <2>1, <2>2, KeepsRows DEF rows, tasks, history
<1>4. ASSUME NEW text, NEW origin, NEW class, Report(text, origin, class) PROVE IInv'
  <2>1. \A m \in 1..Len(heard) : heard'[m] = heard[m]
    BY <1>4 DEF Report, IInv, TypeOK
  <2>2. QED
    BY <1>1, <1>4, <2>1, KeepsRows DEF Report, IInv, TypeOK, rows, tasks, history
<1>5. CASE Kill
  <2>1. read' >= read /\ now' >= now
    BY <1>5 DEF Kill, IInv, TypeOK
  <2>2. UNCHANGED <<asked, heard, status, expiresAt, recordedAt, takenBy>> /\ tg' = "down"
    BY <1>5 DEF Kill, mesh, rows
  <2>3. QED
    BY <1>1, <2>1, <2>2, KeepsRows
<1>6. CASE Start
  BY <1>1, <1>6, KeepsRows DEF Start, IInv, TypeOK, mesh, rows, history
<1>7. QED
  BY <1>2, <1>3, <1>4, <1>5, <1>6 DEF Environment, Echo, Say

(* CreateRecord on the forward under way changes no other row but by        *)
(* purging it.                                                              *)
LEMMA CreateRecordRows ==
  ASSUME TypeOK, tg = "sending", NEW s \in Statuses, CreateRecord(s)
  PROVE  /\ Len(asked) \in Forwards
         /\ status'[Len(asked)] = s
         /\ expiresAt'[Len(asked)] = now + Window
         /\ \A f \in Forwards \ {Len(asked)} :
              /\ status'[f] \in {status[f], "none"}
              /\ now < expiresAt[f] => status'[f] = status[f]
              /\ expiresAt'[f] = expiresAt[f]
<1>1. Len(asked) \in Forwards
  BY ParametersAssumption DEF TypeOK, Forwards
<1>2. QED
  BY <1>1 DEF TypeOK, CreateRecord, Purged, Expired

(* A forward is recorded, at most once, while no message can have used it. *)
LEMMA PollingInv == ASSUME IInv, PollingTask PROVE IInv'
<1>1. TypeOK /\ TypeOK'
  BY PollingType DEF IInv
<1>2. Len(asked) \in Nat /\ now \in Nat /\ now # 0 /\ Window \in Nat
  BY <1>1, ParametersAssumption DEF TypeOK
<1>3. ASSUME NEW text \in Rendered, AskToSend(text) PROVE IInv'
  <2>1. /\ Len(asked') = Len(asked) + 1
        /\ \A f \in 1..Len(asked) : asked'[f] = asked[f]
    BY <1>1, <1>3, ParametersAssumption DEF AskToSend, TypeOK
  <2>2. UNCHANGED <<heard, status, expiresAt, recordedAt, takenBy, read, now>>
    BY <1>3 DEF AskToSend, rows, history
  <2>3. \A f \in Forwards : recordedAt[f] # 0 => f \in 1..Len(asked)
    BY <1>1, ParametersAssumption DEF IInv, RowInv, TypeOK, Forwards
  <2>4. RowInv'
    <3>1. \A f \in Forwards : f <= Len(asked) => f <= Len(asked')
      BY <1>2, <2>1 DEF Forwards
    <3>2. QED
      BY <2>2, <3>1 DEF IInv, RowInv
  <2>5. SendingInv'
    <3>1. Len(asked') \in Forwards
      BY <1>1, <1>2, <2>1, ParametersAssumption DEF TypeOK, Forwards
    <3>2. Len(asked') \notin 1..Len(asked)
      BY <1>2, <2>1
    <3>3. QED
      BY <2>2, <2>3, <3>1, <3>2 DEF SendingInv
  <2>6. ReadInv'
    BY <2>2 DEF IInv, ReadInv
  <2>7. OneMessagePerForward'
    <3>1. ASSUME NEW m \in Messages, takenBy[m] # 0
          PROVE  takenBy[m] \in Forwards
      BY <1>1, <3>1, ParametersAssumption DEF TypeOK, Forwards
    <3>2. \A m \in Messages : takenBy[m] # 0 => asked'[takenBy[m]] = asked[takenBy[m]]
      BY <2>1, <2>3, <3>1 DEF IInv, OneMessagePerForward
    <3>3. QED
      BY <2>2, <3>2 DEF IInv, OneMessagePerForward
  <2>8. QED
    BY <1>1, <2>4, <2>5, <2>6, <2>7 DEF IInv
<1>4. CASE SendAccepted
  <2> DEFINE g == Len(asked)
  <2>1. /\ g \in Forwards
        /\ status'[g] = Accepted
        /\ expiresAt'[g] = now + Window
        /\ \A f \in Forwards \ {g} :
             /\ status'[f] \in {status[f], "none"}
             /\ now < expiresAt[f] => status'[f] = status[f]
             /\ expiresAt'[f] = expiresAt[f]
    BY <1>1, <1>4, CreateRecordRows DEF SendAccepted, Statuses, Accepted
  <2>2. /\ recordedAt'[g] = now
        /\ \A f \in Forwards \ {g} : recordedAt'[f] = recordedAt[f]
    BY <1>1, <1>4, <2>1 DEF SendAccepted, TypeOK
  <2>3. UNCHANGED <<asked, heard, takenBy, read, now>> /\ tg' = "idle"
    BY <1>4 DEF SendAccepted, mesh
  <2>4. recordedAt[g] = 0
    BY <1>4 DEF IInv, SendingInv, SendAccepted
  <2>5. \A m \in Messages : takenBy[m] # g
    BY <2>1, <2>4 DEF IInv, OneMessagePerForward, Forwards
  <2>6. RowInv'
    <3>1. ASSUME NEW f \in Forwards, f = g
          PROVE  /\ status'[f] = Accepted => recordedAt'[f] # 0 /\ \A m \in Messages : takenBy'[m] # f
                 /\ f <= Len(asked') /\ expiresAt'[f] = recordedAt'[f] + Window
      BY <1>2, <2>1, <2>2, <2>3, <2>5, <3>1
    <3>2. ASSUME NEW f \in Forwards \ {g}
          PROVE  /\ status'[f] = Accepted => status[f] = Accepted
                 /\ now < expiresAt[f] => status'[f] = status[f]
                 /\ expiresAt'[f] = expiresAt[f] /\ recordedAt'[f] = recordedAt[f]
      BY <2>1, <2>2 DEF Accepted
    <3>3. QED
      BY <2>1, <2>3, <3>1, <3>2 DEF IInv, RowInv
  <2>7. SendingInv' /\ ReadInv'
    BY <2>3 DEF IInv, SendingInv, ReadInv
  <2>8. OneMessagePerForward'
    <3>1. ASSUME NEW m \in Messages, takenBy[m] # 0
          PROVE  takenBy[m] \in Forwards \ {g}
      BY <1>1, <2>5, <3>1, ParametersAssumption DEF TypeOK, Forwards
    <3>2. QED
      BY <2>2, <2>3, <3>1 DEF IInv, OneMessagePerForward
  <2>9. QED
    BY <1>1, <2>6, <2>7, <2>8 DEF IInv
<1>5. CASE SendAcceptedUnrecorded
  BY <1>1, <1>2, <1>5, KeepsRows DEF SendAcceptedUnrecorded, TypeOK, mesh, rows, history
<1>6. CASE SendFailed
  <2>1. UNCHANGED <<asked, heard, recordedAt, takenBy, read, now>> /\ tg' = "idle"
    BY <1>6 DEF SendFailed, mesh, history
  <2>2. CASE UNCHANGED rows
    BY <1>1, <1>2, <2>1, <2>2, KeepsRows DEF TypeOK, rows
  <2>3. CASE CreateRecord("failed")
    <3> DEFINE g == Len(asked)
    <3>1. /\ g \in Forwards
          /\ status'[g] = "failed"
          /\ \A f \in Forwards \ {g} :
               /\ status'[f] \in {status[f], "none"}
               /\ now < expiresAt[f] => status'[f] = status[f]
               /\ expiresAt'[f] = expiresAt[f]
      BY <1>1, <1>6, <2>3, CreateRecordRows DEF SendFailed, Statuses
    <3>2. recordedAt[g] = 0
      BY <1>6 DEF IInv, SendingInv, SendFailed
    <3>3. RowInv'
      <4>1. ASSUME NEW f \in Forwards \ {g}
            PROVE  /\ status'[f] = Accepted => status[f] = Accepted
                   /\ now < expiresAt[f] => status'[f] = status[f]
                   /\ expiresAt'[f] = expiresAt[f]
        BY <3>1 DEF Accepted
      <4>2. status'[g] # Accepted /\ recordedAt'[g] = 0
        BY <2>1, <3>1, <3>2 DEF Accepted
      <4>3. QED
        BY <2>1, <4>1, <4>2 DEF IInv, RowInv
    <3>4. SendingInv' /\ ReadInv' /\ OneMessagePerForward'
      BY <2>1 DEF IInv, SendingInv, ReadInv, OneMessagePerForward
    <3>5. QED
      BY <1>1, <3>3, <3>4 DEF IInv
  <2>4. QED
    BY <1>6, <2>2, <2>3 DEF SendFailed
<1>7. CASE DropForward
  <2>1. read \in Nat
    BY <1>1 DEF TypeOK
  <2>2. QED
    BY <1>1, <1>2, <1>7, <2>1, KeepsRows DEF DropForward, RecordOther, mesh, tasks, history
<1>8. QED
  BY <1>3, <1>4, <1>5, <1>6, <1>7 DEF PollingTask

(* A row is used by the message that is being read, and by no other. *)
LEMMA ConsumeInv == ASSUME IInv, ConsumeEcho PROVE IInv'
<1>1. TypeOK /\ TypeOK'
  BY BridgeType DEF IInv, BridgeTask
<1> DEFINE m0 == read'
<1>2. m0 \in Messages /\ m0 > read /\ m0 # 0
  BY <1>1, ReceiveType DEF ConsumeEcho, Messages
<1>3. PICK g \in Oldest(Matching(m0)) :
        /\ status' = [Purged EXCEPT ![g] = "observed_echo"]
        /\ takenBy' = [takenBy EXCEPT ![m0] = g]
  BY DEF ConsumeEcho
<1>4. /\ g \in Forwards /\ status[g] = Accepted /\ now < expiresAt[g]
      /\ asked[g] = Normalized[heard[m0].text]
  <2>1. g \in Forwards /\ status[g] = Accepted /\ ~Expired(g)
        /\ asked[g] = Normalized[heard[m0].text]
    BY <1>3 DEF Oldest, Matching, Accepted
  <2>2. expiresAt[g] \in Nat /\ now \in Nat
    BY <1>1, <2>1 DEF TypeOK
  <2>3. QED
    BY <2>1, <2>2 DEF Expired
<1>5. UNCHANGED <<asked, heard, expiresAt, recordedAt, tg, now>>
  BY DEF ConsumeEcho, mesh
<1>6. recordedAt[g] # 0 /\ \A m \in Messages : takenBy[m] # g
  BY <1>4 DEF IInv, RowInv
<1>7. /\ status'[g] = "observed_echo"
      /\ \A f \in Forwards \ {g} :
           /\ status'[f] \in {status[f], "none"}
           /\ now < expiresAt[f] => status'[f] = status[f]
  <2>1. g \in Forwards /\ status' = [Purged EXCEPT ![g] = "observed_echo"]
    BY <1>3, <1>4
  <2>2. DOMAIN Purged = Forwards
    BY DEF Purged
  <2>3. \A f \in Forwards \ {g} : status'[f] = Purged[f]
    BY <2>1, <2>2
  <2>4. \A f \in Forwards : /\ Purged[f] \in {status[f], "none"}
                            /\ ~ Expired(f) => Purged[f] = status[f]
    BY DEF Purged
  <2>5. ASSUME NEW f \in Forwards, now < expiresAt[f] PROVE ~ Expired(f)
    <3>1. now \in Nat /\ expiresAt[f] \in Nat
      BY <1>1 DEF TypeOK
    <3>2. QED
      BY <2>5, <3>1 DEF Expired
  <2>6. QED
    BY <2>1, <2>2, <2>3, <2>4, <2>5
<1>8. takenBy[m0] = 0
  <2>1. m0 \in Nat /\ read \in Nat
    BY <1>1, <1>2 DEF TypeOK, Messages
  <2>2. QED
    BY <1>2, <2>1 DEF IInv, ReadInv
<1>9. /\ takenBy'[m0] = g
      /\ \A m \in Messages \ {m0} : takenBy'[m] = takenBy[m]
  BY <1>1, <1>2, <1>3 DEF TypeOK
<1>10. RowInv'
  <2>1. ASSUME NEW f \in Forwards \ {g}
        PROVE  /\ status'[f] = Accepted => status[f] = Accepted
               /\ now < expiresAt[f] => status'[f] = status[f]
               /\ (\A m \in Messages : takenBy[m] # f) <=> (\A m \in Messages : takenBy'[m] # f)
    <3>1. f # g /\ f # 0
      BY DEF Forwards
    <3>2. QED
      BY <1>7, <1>8, <1>9, <3>1 DEF Accepted
  <2>2. status'[g] # Accepted /\ ~ \A m \in Messages : takenBy'[m] # g
    BY <1>2, <1>7, <1>9 DEF Accepted
  <2>3. QED
    BY <1>5, <2>1, <2>2 DEF IInv, RowInv
<1>11. SendingInv'
  BY <1>5 DEF IInv, SendingInv
<1>12. ReadInv'
  <2>1. read' \in Nat /\ read \in Nat /\ Messages \subseteq Nat
    BY <1>1, <1>2 DEF TypeOK, Messages
  <2>2. QED
    BY <1>2, <1>9, <2>1 DEF IInv, ReadInv
<1>13. OneMessagePerForward'
  BY <1>4, <1>5, <1>6, <1>8, <1>9 DEF IInv, OneMessagePerForward
<1>14. QED
  BY <1>1, <1>10, <1>11, <1>12, <1>13 DEF IInv

(* The other steps of the bridge task at most purge the table. *)
LEMMA BridgeInv == ASSUME IInv, BridgeTask PROVE IInv'
<1>1. TypeOK /\ TypeOK'
  BY BridgeType DEF IInv
<1>2. now \in Nat /\ read \in Nat
  BY <1>1 DEF TypeOK
<1>3. Receive => read' >= read
  BY <1>2 DEF Receive
<1>4. CASE Ignore
  BY <1>1, <1>2, <1>3, <1>4, KeepsRows DEF Ignore, RecordOther, mesh, history
<1>5. CASE ConsumeFails
  BY <1>1, <1>2, <1>3, <1>5, KeepsRows DEF ConsumeFails, mesh, rows, history
<1>6. CASE NoEcho
  BY <1>1, <1>2, <1>3, <1>6, KeepsRows DEF NoEcho, mesh, history
<1>7. CASE TelegramAccepts
  BY <1>1, <1>2, <1>7, KeepsRows DEF TelegramAccepts, RecordOther, mesh
<1>8. CASE TelegramFails
  BY <1>1, <1>2, <1>8, KeepsRows DEF TelegramFails, RecordOther, mesh
<1>9. QED
  BY <1>4, <1>5, <1>6, <1>7, <1>8, ConsumeInv DEF BridgeTask

(* Every step of the system preserves the inductive invariant. *)
LEMMA StepInv == IInv /\ [Next]_vars => IInv'
<1> SUFFICES ASSUME IInv, [Next]_vars PROVE IInv'
  OBVIOUS
<1>1. CASE UNCHANGED vars
  BY <1>1 DEF vars, mesh, rows, tasks, history, IInv, TypeOK, RowInv, SendingInv,
     ReadInv, OneMessagePerForward
<1>2. QED
  BY <1>1, EnvironmentInv, PollingInv, BridgeInv DEF Next

-----------------------------------------------------------------------------
(* The inductive invariant holds in every reachable state: the lemmas above *)
(* for the first state and for one step.                                    *)
THEOREM Invariance == Spec => []IInv
  BY InitInv, StepInv, PTL DEF Spec

(* Every variable keeps its type; in particular the bridge task is never at *)
(* a message the mesh did not report.                                       *)
THEOREM TypeCorrect == Spec => []TypeOK
<1>1. IInv => TypeOK
  BY DEF IInv
<1>2. QED
  BY <1>1, Invariance, PTL

(* No more messages are passed off as echoes of a text than Home Assistant  *)
(* accepted forwards of it: each is charged to a forward of its own.        *)
THEOREM EchoesPaidFor == Spec => []OneMessagePerForward
<1>1. IInv => OneMessagePerForward
  BY DEF IInv
<1>2. QED
  BY <1>1, Invariance, PTL

(* Only ConsumeEcho charges a message to a forward, and only to a live row. *)
LEMMA TakenStep ==
  ASSUME IInv, [Next]_vars, NEW m \in Messages, takenBy'[m] # takenBy[m]
  PROVE  now < recordedAt[takenBy'[m]] + Window
<1>1. ConsumeEcho
  BY DEF Next, vars, Environment, PollingTask, BridgeTask, history, Tick, Transmit,
     Echo, Say, Report, Kill, Start, DropForward, AskToSend, SendAccepted, SendAcceptedUnrecorded,
     SendFailed, Ignore, ConsumeFails, NoEcho, TelegramAccepts, TelegramFails
<1>2. PICK g \in Oldest(Matching(read')) : takenBy' = [takenBy EXCEPT ![read'] = g]
  BY <1>1 DEF ConsumeEcho
<1>3. g \in Forwards /\ status[g] = Accepted /\ ~Expired(g)
  BY <1>2 DEF Oldest, Matching, Accepted
<1>4. takenBy'[m] = g
  BY <1>2 DEF IInv, TypeOK
<1>5. expiresAt[g] = recordedAt[g] + Window
  BY <1>3 DEF IInv, RowInv
<1>6. expiresAt[g] \in Nat /\ now \in Nat
  BY <1>3 DEF IInv, TypeOK
<1>7. QED
  BY <1>3, <1>4, <1>5, <1>6 DEF Expired

(* A message is passed off as an echo only within the window of the forward *)
(* it is charged to.                                                        *)
THEOREM TakenInTime == Spec => TakenInWindow
<1>1. IInv /\ [Next]_vars
        => [\A m \in Messages : takenBy'[m] # takenBy[m] =>
              now < recordedAt[takenBy'[m]] + Window]_vars
  BY TakenStep
<1>2. QED
  BY <1>1, Invariance, PTL DEF Spec, TakenInWindow

(* An echo passes only by NoEcho, when no live row carries its text.        *)
LEMMA PassStep ==
  ASSUME IInv, [Next]_vars, NEW f \in Forwards, EchoPasses(f),
         Normalized[asked[f]] = asked[f], heard[read'].text = asked[f]
  PROVE  Unprotected(f)
<1>1. NoEcho
  BY DEF Next, vars, Environment, PollingTask, BridgeTask, tasks, EchoPasses, Tick,
     Transmit, Echo, Say, Report, Kill, Start, DropForward, AskToSend, SendAccepted,
     SendAcceptedUnrecorded, SendFailed, Ignore, ConsumeEcho, ConsumeFails,
     TelegramAccepts, TelegramFails
<1>2. ~(status[f] = Accepted /\ ~Expired(f))
  BY <1>1 DEF NoEcho, Matching, Accepted
<1>3. expiresAt[f] \in Nat /\ now \in Nat
  BY DEF IInv, TypeOK
<1>4. SUFFICES ASSUME recordedAt[f] # 0, \A m \in Messages : takenBy[m] # f
               PROVE  now >= recordedAt[f] + Window
  BY DEF Unprotected
<1>5. expiresAt[f] = recordedAt[f] + Window
  BY <1>4 DEF IInv, RowInv
<1>6. now < expiresAt[f] => status[f] = Accepted
  BY <1>4 DEF IInv, RowInv
<1>7. QED
  BY <1>2, <1>3, <1>5, <1>6 DEF Expired

(* A reported echo carries the text of its forward. *)
OriginInv ==
  \A m \in 1..Len(heard) : heard[m].origin # 0 =>
    heard[m].origin \in 1..Len(asked) /\ heard[m].text = asked[heard[m].origin]

(* Texts once asked for, and messages once reported, are never rewritten.   *)
LEMMA OriginStep == TypeOK /\ OriginInv /\ [Next]_vars => OriginInv'
<1> SUFFICES ASSUME TypeOK, OriginInv, [Next]_vars PROVE OriginInv'
  OBVIOUS
<1>1. ASSUME NEW text \in Rendered, AskToSend(text) PROVE OriginInv'
  <2>1. /\ Len(asked') = Len(asked) + 1
        /\ \A f \in 1..Len(asked) : f \in 1..Len(asked') /\ asked'[f] = asked[f]
    BY <1>1, ParametersAssumption DEF AskToSend, TypeOK
  <2>2. QED
    BY <1>1, <2>1 DEF AskToSend, OriginInv
<1>2. ASSUME NEW text, NEW origin, NEW class, Report(text, origin, class),
             origin # 0 => origin \in 1..Len(asked) /\ text = asked[origin]
      PROVE  OriginInv'
  <2> DEFINE message == [text |-> text, origin |-> origin, class |-> class]
  <2>1. /\ \A m \in 1..Len(heard) : heard'[m] = heard[m]
        /\ heard'[Len(heard) + 1] = message
        /\ Len(heard') = Len(heard) + 1
        /\ asked' = asked
    BY <1>2 DEF Report, TypeOK
  <2>2. \A m \in 1..Len(heard') : m \in 1..Len(heard) \/ m = Len(heard) + 1
    BY <2>1 DEF TypeOK
  <2>3. message.text = text /\ message.origin = origin
    OBVIOUS
  <2>4. QED
    BY <1>2, <2>1, <2>2, <2>3 DEF OriginInv
<1>3. ASSUME NEW f \in Forwards, NEW class \in {"outgoing", "text"}, Echo(f, class)
      PROVE  OriginInv'
  <2>1. f \in 1..Len(asked)
    BY <1>3 DEF Echo, TypeOK
  <2>2. Report(asked[f], f, class)
    BY <1>3 DEF Echo
  <2>3. QED
    BY <1>2, <2>1, <2>2
<1>4. ASSUME NEW text \in Texts, NEW class \in {"refused", "text"}, Say(text, class)
      PROVE  OriginInv'
  BY <1>2, <1>4 DEF Say
<1>5. CASE UNCHANGED <<asked, heard>>
  BY <1>5 DEF OriginInv
<1>6. QED
  BY <1>1, <1>3, <1>4, <1>5 DEF Next, vars, mesh, Environment, PollingTask, BridgeTask,
     Tick, Transmit, Kill, Start, DropForward, SendAccepted, SendAcceptedUnrecorded, SendFailed,
     Ignore, ConsumeEcho, ConsumeFails, NoEcho, TelegramAccepts, TelegramFails

(* Echoes are told apart by the text they carry in every reachable state. *)
LEMMA OriginInvariance == Spec => []OriginInv
<1>1. Init => OriginInv
  BY DEF Init, OriginInv
<1>2. QED
  BY <1>1, OriginStep, TypeCorrect, PTL DEF Spec

(* A recorded echo whose text is its own normal form never returns to       *)
(* Telegram while its row is its own, through any failures and restarts.    *)
THEOREM EchoStopped == Spec => RecordedEchoBlocked
<1>1. IInv /\ OriginInv /\ [Next]_vars
        => [\A f \in Forwards :
              EchoPasses(f) /\ Normalized[asked[f]] = asked[f] => Unprotected(f)]_vars
  <2> SUFFICES ASSUME IInv, OriginInv, Next, NEW f \in Forwards, EchoPasses(f),
                      Normalized[asked[f]] = asked[f]
               PROVE  Unprotected(f)
    OBVIOUS
  <2>1. BridgeTask /\ Receive
    BY DEF Next, Environment, PollingTask, BridgeTask, tasks, EchoPasses, Tick, Transmit,
       Echo, Say, Report, Kill, Start, DropForward, AskToSend, SendAccepted, SendAcceptedUnrecorded,
       SendFailed, Ignore, ConsumeEcho, ConsumeFails, NoEcho, TelegramAccepts,
       TelegramFails
  <2>2. read' \in 1..Len(heard)
    BY <2>1, ReceiveType DEF IInv
  <2>3. f # 0
    BY DEF Forwards
  <2>4. heard[read'].text = asked[f]
    BY <2>2, <2>3 DEF OriginInv, EchoPasses
  <2>5. QED
    BY <2>4, PassStep
<1>2. QED
  BY <1>1, Invariance, OriginInvariance, PTL DEF Spec, RecordedEchoBlocked
===============================================================================
