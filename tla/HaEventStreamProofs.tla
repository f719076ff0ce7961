------------------------ MODULE HaEventStreamProofs -------------------------
(***************************************************************************)
(* Proofs about HaEventStream for any number of events, faults and         *)
(* requests, and a queue of any size.                                      *)
(***************************************************************************)
EXTENDS HaEventStream, SequenceTheorems, TLAPS

(* Events on their way are events that were fired. *)
EventsKnown ==
  /\ wire \in Seq(0..Len(fired))
  /\ queue \in Seq(1..Len(fired))
  /\ held \in Seq(1..Len(fired))

(* A reader that goes on has nothing in hand, and there is none before a    *)
(* connection is authenticated.                                             *)
HandShape ==
  /\ reader = "running" => held = <<>>
  /\ link = "none" \/ pc \in {"connecting", "authenticating"} =>
       held = <<>> /\ reader \notin {"running", "blocked"}

(* After a stale idle timeout the failure is seen next. *)
IdleShape ==
  staleIdles # 0 =>
    /\ staleIdles = 1
    /\ pc = "ended" \/ (pc \in {"top", "pausing"} /\ reader = "failed")

IInv == TypeOK /\ NothingLostInside /\ EventsKnown /\ HandShape /\ IdleShape

-----------------------------------------------------------------------------
(* Sequences: what moves from one to the next keeps its place. *)
LEMMA MoveHead ==
  ASSUME NEW S, NEW s \in Seq(S), NEW t \in Seq(S), NEW u \in Seq(S), t # <<>>
  PROVE  /\ Append(s, Head(t)) \in Seq(S) /\ Tail(t) \in Seq(S)
         /\ Len(Tail(t)) = Len(t) - 1
         /\ Append(s, Head(t)) \o Tail(t) \o u = s \o t \o u
<1>1. /\ Head(t) \in S /\ Tail(t) \in Seq(S) /\ Len(Tail(t)) = Len(t) - 1
      /\ \A i \in 1 .. Len(Tail(t)) : Tail(t)[i] = t[i + 1]
  BY HeadTailProperties
<1>2. <<Head(t)>> \in Seq(S) /\ Append(s, Head(t)) \in Seq(S)
  BY <1>1, AppendProperties
<1>3. Append(s, Head(t)) = s \o <<Head(t)>>
  BY <1>1, AppendIsConcat
<1>4. (s \o <<Head(t)>>) \o Tail(t) = s \o (<<Head(t)>> \o Tail(t))
  BY <1>1, <1>2, ConcatAssociative
<1>5. <<Head(t)>> \o Tail(t) = t
  <2>1. /\ <<Head(t)>> \o Tail(t) \in Seq(S)
        /\ Len(<<Head(t)>> \o Tail(t)) = 1 + Len(Tail(t))
        /\ \A i \in 1 .. 1 + Len(Tail(t)) : (<<Head(t)>> \o Tail(t))[i] =
             IF i <= 1 THEN <<Head(t)>>[i] ELSE Tail(t)[i - 1]
    <3>1. Len(<<Head(t)>>) = 1
      OBVIOUS
    <3>2. QED
      BY <1>1, <1>2, <3>1, ConcatProperties
  <2>2. Len(t) \in Nat \ {0}
    BY EmptySeq
  <2>3. \A i \in 1 .. Len(t) : (<<Head(t)>> \o Tail(t))[i] = t[i]
    BY <1>1, <2>1, <2>2
  <2>4. QED
    BY <1>1, <2>1, <2>2, <2>3, SeqEqual
<1>6. QED
  BY <1>1, <1>2, <1>3, <1>4, <1>5

LEMMA AppendLast ==
  ASSUME NEW S, NEW s \in Seq(S), NEW t \in Seq(S), NEW e \in S
  PROVE  /\ Append(s \o t, e) = s \o Append(t, e)
         /\ Append(s \o t, e) = s \o t \o <<e>>
<1>1. s \o t \in Seq(S) /\ <<e>> \in Seq(S)
  BY ConcatProperties
<1>2. Append(s \o t, e) = (s \o t) \o <<e>> /\ Append(t, e) = t \o <<e>>
  BY <1>1, AppendIsConcat
<1>3. QED
  BY <1>1, <1>2, ConcatAssociative

LEMMA SeqWider ==
  ASSUME NEW m \in Nat, NEW n \in Nat, m <= n
  PROVE  Seq(0..m) \subseteq Seq(0..n) /\ Seq(1..m) \subseteq Seq(1..n)
<1>1. 0..m \subseteq 0..n /\ 1..m \subseteq 1..n
  OBVIOUS
<1>2. QED
  BY <1>1, SeqMonotonic

(* Events that are known are within the bound. *)
LEMMA Known ==
  ASSUME IInv
  PROVE  /\ Len(fired) \in 0..MaxEvents
         /\ Seq(0..Len(fired)) \subseteq Seq(0..MaxEvents)
         /\ Seq(1..Len(fired)) \subseteq Seq(1..MaxEvents)
<1>1. Len(fired) \in Nat /\ Len(fired) <= MaxEvents /\ MaxEvents \in Nat
  BY BoundsAssumption, LenProperties DEF IInv, TypeOK
<1>2. QED
  BY <1>1, SeqWider

LEMMA InitInv == Init => IInv
<1> SUFFICES ASSUME Init PROVE IInv
  OBVIOUS
<1>1. /\ fired = <<>> /\ wire = <<>> /\ queue = <<>> /\ held = <<>>
      /\ got = <<>> /\ taken = <<>>
  BY DEF Init
<1>2. /\ fired \in Seq(Kinds) /\ Len(fired) = 0
      /\ wire \in Seq(0..MaxEvents) /\ wire \in Seq(0..Len(fired))
      /\ queue \in Seq(1..MaxEvents) /\ queue \in Seq(1..Len(fired)) /\ Len(queue) = 0
      /\ held \in Seq(1..MaxEvents) /\ held \in Seq(1..Len(fired)) /\ Len(held) = 0
      /\ got \in Seq(1..MaxEvents) /\ taken \in Seq(1..MaxEvents)
  BY <1>1, EmptySeq
<1>3. CommandOK
  BY DEF Init, Idle, CommandOK, CommandRecords
<1>4. entry \in BOOLEAN /\ connected \in BOOLEAN
  BY Zenon DEF Init
<1>5. StreamOK
  BY <1>2, BoundsAssumption DEF Init, StreamOK
<1>6. TypeOK
  BY <1>2, <1>3, <1>4, <1>5, BoundsAssumption DEF Init, TypeOK
<1>7. NothingLostInside
  BY <1>1, <1>2, ConcatEmptySeq DEF NothingLostInside
<1>8. EventsKnown /\ HandShape /\ IdleShape
  BY <1>1, <1>2 DEF Init, EventsKnown, HandShape, IdleShape
<1>9. QED
  BY <1>6, <1>7, <1>8 DEF IInv

-----------------------------------------------------------------------------
(* A step that leaves the events of the connection alone. *)
LEMMA EventsAlone ==
  ASSUME IInv,
         fired' = fired, link' = link, wire' = wire, held' = held, queue' = queue,
         got' = got, taken' = taken, staleIdles' = staleIdles,
         reader' \in {reader, "none"},
         pc' \in {"processing", "asking", "connecting", "authenticating",
                  "subscribing", "top", "getting", "pausing", "ended"},
         request' \in {"none", "sent", "accepted"},
         future' \in {"none", "waiting", "set", "failed"},
         entry' \in BOOLEAN, connected' \in BOOLEAN, CommandOK', faults' \in 0..MaxFaults,
         pc' \in {"connecting", "authenticating"} => pc' = pc \/ link = "none",
         pc' = "ended" \/ (pc' = pc /\ reader' = reader) \/ staleIdles = 0
  PROVE  IInv'
<1>1. StreamOK'
  BY DEF IInv, TypeOK, StreamOK
<1>2. TypeOK'
  BY <1>1 DEF IInv, TypeOK
<1>3. NothingLostInside' /\ EventsKnown'
  BY DEF IInv, NothingLostInside, EventsKnown
<1>4. HandShape' /\ IdleShape'
  BY DEF IInv, HandShape, IdleShape
<1>5. QED
  BY <1>2, <1>3, <1>4 DEF IInv

(* An event is fired, and reaches a connection that is subscribed. *)
LEMMA FireInv == ASSUME IInv, NEW kind \in Kinds, Fire(kind) PROVE IInv'
<1>1. /\ Len(fired) < MaxEvents /\ fired' = Append(fired, kind)
      /\ wire' = wire \/ wire' = Append(wire, Len(fired) + 1)
      /\ link' = link /\ request' = request /\ reader' = reader /\ held' = held
      /\ queue' = queue /\ future' = future /\ got' = got /\ taken' = taken
      /\ staleIdles' = staleIdles /\ pc' = pc /\ entry' = entry
      /\ connected' = connected /\ command' = command /\ faults' = faults
  BY DEF Fire
<1>2. fired \in Seq(Kinds) /\ Len(fired) \in Nat /\ MaxEvents \in Nat
  BY BoundsAssumption, LenProperties DEF IInv, TypeOK
<1>3. fired' \in Seq(Kinds) /\ Len(fired') = Len(fired) + 1
  BY <1>1, <1>2, AppendProperties
<1>4. /\ Seq(0..Len(fired)) \subseteq Seq(0..Len(fired'))
      /\ Seq(1..Len(fired)) \subseteq Seq(1..Len(fired'))
      /\ Seq(0..Len(fired')) \subseteq Seq(0..MaxEvents)
      /\ Len(fired') \in Nat /\ Len(fired') <= MaxEvents
  BY <1>1, <1>2, <1>3, SeqWider
<1>5. EventsKnown'
  <2>1. wire \in Seq(0..Len(fired')) /\ queue \in Seq(1..Len(fired'))
        /\ held \in Seq(1..Len(fired'))
    BY <1>4 DEF IInv, EventsKnown
  <2>2. Append(wire, Len(fired) + 1) \in Seq(0..Len(fired'))
    BY <1>2, <1>3, <1>4, <2>1, AppendProperties
  <2>3. QED
    BY <1>1, <2>1, <2>2 DEF EventsKnown
<1>6. StreamOK' /\ CommandOK'
  BY <1>1, <1>4, <1>5 DEF IInv, TypeOK, StreamOK, CommandOK, EventsKnown
<1>7. TypeOK'
  BY <1>1, <1>3, <1>4, <1>6 DEF IInv, TypeOK
<1>8. NothingLostInside' /\ HandShape' /\ IdleShape'
  BY <1>1 DEF IInv, NothingLostInside, HandShape, IdleShape
<1>9. QED
  BY <1>5, <1>7, <1>8 DEF IInv

LEMMA AcceptSubscriptionInv == ASSUME IInv, AcceptSubscription PROVE IInv'
<1>1. /\ request' = "accepted" /\ wire' = Append(wire, 0)
      /\ fired' = fired /\ link' = link /\ reader' = reader /\ held' = held
      /\ queue' = queue /\ future' = future /\ got' = got /\ taken' = taken
      /\ staleIdles' = staleIdles /\ pc' = pc /\ entry' = entry
      /\ connected' = connected /\ command' = command /\ faults' = faults
  BY DEF AcceptSubscription
<1>2. wire' \in Seq(0..Len(fired))
  <2>1. 0 \in 0..Len(fired) /\ wire \in Seq(0..Len(fired))
    BY Known DEF IInv, EventsKnown
  <2>2. QED
    BY <1>1, <2>1, AppendProperties
<1>3. StreamOK' /\ CommandOK'
  BY <1>1, <1>2, Known DEF IInv, TypeOK, StreamOK, CommandOK
<1>4. TypeOK'
  BY <1>1, <1>3 DEF IInv, TypeOK
<1>5. NothingLostInside' /\ EventsKnown' /\ HandShape' /\ IdleShape'
  BY <1>1, <1>2 DEF IInv, NothingLostInside, EventsKnown, HandShape, IdleShape
<1>6. QED
  BY <1>4, <1>5 DEF IInv

LEMMA DropInv == ASSUME IInv, Drop PROVE IInv'
<1>1. /\ link = "open" /\ link' = "dropped" /\ faults < MaxFaults /\ faults' = faults + 1
      /\ fired' = fired /\ request' = request /\ reader' = reader /\ held' = held
      /\ queue' = queue /\ future' = future /\ got' = got /\ taken' = taken
      /\ staleIdles' = staleIdles /\ pc' = pc /\ entry' = entry
      /\ connected' = connected /\ command' = command
  BY DEF Drop, Fault
<1>2. PICK n \in 0..Len(wire) : wire' = SubSeq(wire, 1, n)
  BY DEF Drop
<1>3. wire' \in Seq(0..Len(fired))
  <2>1. wire \in Seq(0..Len(fired)) /\ Len(wire) \in Nat
    BY LenProperties DEF IInv, EventsKnown
  <2>2. \A i \in 1..n : wire[i] \in 0..Len(fired)
    BY <2>1, ElementOfSeq
  <2>3. n \in Int /\ 1 \in Int
    BY <2>1
  <2>4. QED
    BY <1>2, <2>2, <2>3, SubSeqProperties
<1>4. StreamOK' /\ CommandOK'
  BY <1>1, <1>3, Known DEF IInv, TypeOK, StreamOK, CommandOK
<1>5. faults' \in 0..MaxFaults
  BY <1>1, BoundsAssumption DEF IInv, TypeOK
<1>6. TypeOK'
  BY <1>1, <1>4, <1>5 DEF IInv, TypeOK
<1>7. NothingLostInside' /\ EventsKnown' /\ HandShape' /\ IdleShape'
  BY <1>1, <1>3 DEF IInv, NothingLostInside, EventsKnown, HandShape, IdleShape
<1>8. QED
  BY <1>6, <1>7 DEF IInv

(* A frame is read: a result, or an event that is queued or kept in hand. *)
LEMMA ReadInv == ASSUME IInv, Read PROVE IInv'
<1>1. /\ reader = "running" /\ wire # <<>> /\ wire' = Tail(wire)
      /\ fired' = fired /\ link' = link /\ request' = request /\ taken' = taken
      /\ staleIdles' = staleIdles /\ pc' = pc /\ entry' = entry
      /\ connected' = connected /\ command' = command /\ faults' = faults
  BY DEF Read
<1>2. Head(wire) \in 0..Len(fired) /\ wire' \in Seq(0..Len(fired))
  BY <1>1, HeadTailProperties DEF IInv, EventsKnown
<1>3. wire' \in Seq(0..MaxEvents)
  BY <1>2, Known
<1>4. held = <<>> /\ link # "none" /\ pc \notin {"connecting", "authenticating"}
  BY <1>1 DEF IInv, HandShape
<1>5. IdleShape'
  BY <1>1 DEF IInv, IdleShape
<1>6. CASE ReadResult
  <2>1. /\ future' \in {"set", future} /\ reader' = reader /\ held' = held
        /\ queue' = queue /\ got' = got
    BY <1>6 DEF ReadResult
  <2>2. StreamOK' /\ CommandOK'
    BY <1>1, <1>3, <2>1 DEF IInv, TypeOK, StreamOK, CommandOK
  <2>3. TypeOK'
    BY <1>1, <2>2 DEF IInv, TypeOK
  <2>4. NothingLostInside' /\ EventsKnown' /\ HandShape'
    BY <1>1, <1>2, <2>1 DEF IInv, NothingLostInside, EventsKnown, HandShape
  <2>5. QED
    BY <1>5, <2>3, <2>4 DEF IInv
<1>7. CASE ReadEvent
  <2> DEFINE e == Head(wire)
  <2>1. e \in 1..Len(fired) /\ e \in 1..MaxEvents
    <3>1. e # 0
      BY <1>7 DEF ReadEvent
    <3>2. Len(fired) \in Nat /\ MaxEvents \in Nat /\ Len(fired) <= MaxEvents
      BY BoundsAssumption, LenProperties DEF IInv, TypeOK
    <3>3. e \in 0..Len(fired)
      BY <1>2
    <3> HIDE DEF e
    <3>4. QED
      BY <3>1, <3>2, <3>3
  <2>2. got' = Append(got, e) /\ future' = future
    BY <1>7 DEF ReadEvent
  <2>3. /\ got \in Seq(1..MaxEvents) /\ taken \in Seq(1..MaxEvents)
        /\ queue \in Seq(1..MaxEvents) /\ queue \in Seq(1..Len(fired))
        /\ Len(queue) \in Nat
    BY LenProperties DEF IInv, TypeOK, StreamOK, EventsKnown
  <2>4. got = taken \o queue
    <3>1. taken \o queue \in Seq(1..MaxEvents)
      BY <2>3, ConcatProperties
    <3>2. QED
      BY <1>4, <3>1, ConcatEmptySeq DEF IInv, NothingLostInside
  <2>5. got' \in Seq(1..MaxEvents)
    BY <2>1, <2>2, <2>3, AppendProperties
  <2> HIDE DEF e
  <2>6. CASE Len(queue) < QueueSize /\ queue' = Append(queue, e)
             /\ reader' = reader /\ held' = held
    <3>1. /\ queue' \in Seq(1..MaxEvents) /\ queue' \in Seq(1..Len(fired))
          /\ Len(queue') <= QueueSize
      BY <2>1, <2>3, <2>6, AppendProperties, BoundsAssumption
    <3>2. got' = taken \o queue'
      <4>1. Append(taken \o queue, e) = taken \o Append(queue, e)
        <5>1. taken \in Seq(1..MaxEvents) /\ queue \in Seq(1..MaxEvents)
          BY <2>3
        <5>2. QED
          BY <2>1, <5>1, AppendLast
      <4>2. QED
        BY <2>2, <2>4, <2>6, <4>1
    <3>3. taken \o queue' \in Seq(1..MaxEvents)
      BY <2>3, <3>1, ConcatProperties
    <3>4. NothingLostInside'
      BY <1>1, <1>4, <2>6, <3>2, <3>3, ConcatEmptySeq DEF NothingLostInside
    <3>5. StreamOK' /\ CommandOK'
      BY <1>1, <1>3, <2>2, <2>5, <2>6, <3>1 DEF IInv, TypeOK, StreamOK, CommandOK
    <3>6. TypeOK'
      BY <1>1, <3>5 DEF IInv, TypeOK
    <3>7. EventsKnown' /\ HandShape'
      BY <1>1, <1>2, <1>4, <2>6, <3>1 DEF IInv, EventsKnown, HandShape
    <3>8. QED
      BY <1>5, <3>4, <3>6, <3>7 DEF IInv
  <2>7. CASE held' = <<e>> /\ reader' = "blocked" /\ queue' = queue
    <3>1. <<e>> \in Seq(1..MaxEvents) /\ <<e>> \in Seq(1..Len(fired)) /\ Len(<<e>>) = 1
      BY <2>1
    <3>2. got' = taken \o queue \o <<e>>
      <4>1. Append(taken \o queue, e) = taken \o queue \o <<e>>
        BY <2>1, <2>3, AppendLast
      <4>2. QED
        BY <2>2, <2>4, <4>1
    <3>3. NothingLostInside'
      BY <1>1, <2>7, <3>2 DEF NothingLostInside
    <3>4. StreamOK' /\ CommandOK'
      BY <1>1, <1>3, <2>2, <2>5, <2>7, <3>1 DEF IInv, TypeOK, StreamOK, CommandOK
    <3>5. TypeOK'
      BY <1>1, <3>4 DEF IInv, TypeOK
    <3>6. EventsKnown' /\ HandShape'
      BY <1>1, <1>2, <1>4, <2>7, <3>1 DEF IInv, EventsKnown, HandShape
    <3>7. IdleShape'
      BY <1>1, <2>7 DEF IInv, IdleShape
    <3>8. QED
      BY <3>3, <3>5, <3>6, <3>7 DEF IInv
  <2>8. QED
    BY <1>7, <2>6, <2>7 DEF ReadEvent, e
<1>8. QED
  BY <1>6, <1>7 DEF Read

(* What the reader had in hand is queued. *)
LEMMA PutHeldInv == ASSUME IInv, PutHeld PROVE IInv'
<1>1. /\ reader = "blocked" /\ Len(queue) < QueueSize
      /\ queue' = queue \o held /\ held' = <<>> /\ reader' = "running"
      /\ fired' = fired /\ link' = link /\ request' = request /\ wire' = wire
      /\ future' = future /\ got' = got /\ taken' = taken
      /\ staleIdles' = staleIdles /\ pc' = pc /\ entry' = entry
      /\ connected' = connected /\ command' = command /\ faults' = faults
  BY DEF PutHeld
<1>2. /\ taken \in Seq(1..MaxEvents) /\ queue \in Seq(1..MaxEvents)
      /\ held \in Seq(1..MaxEvents) /\ Len(held) <= 1
      /\ queue \in Seq(1..Len(fired)) /\ held \in Seq(1..Len(fired))
  BY DEF IInv, TypeOK, StreamOK, EventsKnown
<1>3. /\ queue' \in Seq(1..MaxEvents) /\ queue' \in Seq(1..Len(fired))
      /\ Len(queue') = Len(queue) + Len(held)
  BY <1>1, <1>2, ConcatProperties
<1>4. Len(queue) \in Nat /\ Len(held) \in Nat
  BY <1>2, LenProperties
<1>5. Len(queue') <= QueueSize
  BY <1>1, <1>2, <1>3, <1>4, BoundsAssumption
<1>6. /\ held' \in Seq(1..MaxEvents) /\ held' \in Seq(1..Len(fired)) /\ Len(held') <= 1
  BY <1>1, EmptySeq
<1>7. NothingLostInside'
  <2>1. taken \o queue \o held = taken \o (queue \o held)
    BY <1>2, ConcatAssociative
  <2>2. taken \o queue' \in Seq(1..MaxEvents)
    BY <1>2, <1>3, ConcatProperties
  <2>3. taken \o queue' \o <<>> = taken \o queue'
    BY <2>2, ConcatEmptySeq
  <2>4. QED
    BY <1>1, <2>1, <2>3 DEF IInv, NothingLostInside
<1>8. StreamOK' /\ CommandOK'
  BY <1>1, <1>3, <1>5, <1>6 DEF IInv, TypeOK, StreamOK, CommandOK
<1>9. TypeOK'
  BY <1>1, <1>8 DEF IInv, TypeOK
<1>10. EventsKnown' /\ HandShape' /\ IdleShape'
  BY <1>1, <1>3, <1>6 DEF IInv, EventsKnown, HandShape, IdleShape
<1>11. QED
  BY <1>7, <1>9, <1>10 DEF IInv

LEMMA ReaderFailsInv == ASSUME IInv, ReaderFails PROVE IInv'
<1>1. /\ reader \in {"running", "blocked"} /\ reader' = "failed"
      /\ future' \in {future, "failed"}
      /\ fired' = fired /\ link' = link /\ request' = request /\ wire' = wire
      /\ held' = held /\ queue' = queue /\ got' = got /\ taken' = taken
      /\ staleIdles' = staleIdles /\ pc' = pc /\ entry' = entry
      /\ connected' = connected /\ command' = command
  BY DEF ReaderFails, Failed
<1>2. faults' \in 0..MaxFaults
  <2>1. faults' = faults \/ (faults < MaxFaults /\ faults' = faults + 1)
    BY DEF ReaderFails, Fault
  <2>2. QED
    BY <2>1, BoundsAssumption DEF IInv, TypeOK
<1>3. StreamOK' /\ CommandOK'
  BY <1>1 DEF IInv, TypeOK, StreamOK, CommandOK
<1>4. TypeOK'
  BY <1>1, <1>2, <1>3 DEF IInv, TypeOK
<1>5. NothingLostInside' /\ EventsKnown' /\ HandShape' /\ IdleShape'
  BY <1>1 DEF IInv, NothingLostInside, EventsKnown, HandShape, IdleShape
<1>6. QED
  BY <1>4, <1>5 DEF IInv

-----------------------------------------------------------------------------
(* A fault is counted within its bound. *)
LEMMA FaultCounted ==
  ASSUME IInv, faults' = faults \/ (faults < MaxFaults /\ faults' = faults + 1)
  PROVE  faults' \in 0..MaxFaults
BY BoundsAssumption DEF IInv, TypeOK

(* Steps of events() that leave the events of the connection alone. *)
LEMMA ConnectingInv ==
  ASSUME IInv,
         \/ ConnectFails \/ AuthenticationFails \/ Subscribed \/ SubscriptionFails
         \/ Cancel
  PROVE  IInv'
<1>1. /\ fired' = fired /\ link' = link /\ wire' = wire /\ held' = held
      /\ queue' = queue /\ got' = got /\ taken' = taken
      /\ staleIdles' = staleIdles /\ command' = command
      /\ request' = request /\ entry' = entry
  BY DEF ConnectFails, AuthenticationFails, Subscribed, SubscriptionFails, Cancel, stream
<1>2. /\ reader' \in {reader, "none"} /\ future' \in {future, "none"}
      /\ pc' \in {"ended", "pausing", "top"}
      /\ pc' = "ended" \/ (pc \in {"authenticating", "subscribing"})
  BY DEF ConnectFails, AuthenticationFails, Subscribed, SubscriptionFails, Cancel,
     stream, Disconnected, Ended
<1>3. connected' \in BOOLEAN
  <2>1. connected \in BOOLEAN
    BY DEF IInv, TypeOK
  <2>2. QED
    BY <2>1, Zenon DEF ConnectFails, AuthenticationFails, Subscribed, SubscriptionFails,
       Cancel, Disconnected, Ended
<1>4. faults' \in 0..MaxFaults
  <2>1. faults' = faults \/ (faults < MaxFaults /\ faults' = faults + 1)
    BY DEF ConnectFails, AuthenticationFails, Subscribed, SubscriptionFails, Cancel, Fault
  <2>2. QED
    BY <2>1, FaultCounted
<1>5. CommandOK'
  BY <1>1 DEF IInv, TypeOK, CommandOK
<1>6. pc' = "ended" \/ staleIdles = 0
  BY <1>2 DEF IInv, IdleShape
<1>7. /\ request' \in {"none", "sent", "accepted"}
      /\ future' \in {"none", "waiting", "set", "failed"}
      /\ entry' \in BOOLEAN
  BY <1>1, <1>2 DEF IInv, TypeOK, StreamOK
<1>8. QED
  BY <1>1, <1>2, <1>3, <1>4, <1>5, <1>6, <1>7, EventsAlone

(* receive starts or goes on, after the entries if they are not known. *)
LEMMA ReceivingInv == ASSUME IInv, Receive \/ EntriesAnswered PROVE IInv'
<1>1. /\ fired' = fired /\ link' = link /\ wire' = wire /\ held' = held
      /\ queue' = queue /\ got' = got /\ taken' = taken /\ reader' = reader
      /\ staleIdles' = staleIdles /\ request' = request /\ future' = future
  BY DEF Receive, EntriesAnswered, stream
<1>2. /\ pc' \in {"connecting", "top", "asking", "ended"}
      /\ pc' = "connecting" => link = "none"
      /\ pc \in {"processing", "asking"}
  BY DEF Receive, EntriesAnswered, Resume, Ended
<1>3. entry' \in BOOLEAN
  <2>1. entry \in BOOLEAN
    BY DEF IInv, TypeOK
  <2>2. CASE entry' = entry
    BY <2>1, <2>2
  <2>3. CASE \E found \in {0, 1, 2} : entry' = (found = 1)
    BY <2>3, Zenon
  <2>4. QED
    BY <2>2, <2>3 DEF Receive, EntriesAnswered
<1>4. faults' \in 0..MaxFaults
  <2>1. faults' = faults \/ (faults < MaxFaults /\ faults' = faults + 1)
    BY DEF Receive, EntriesAnswered, Fault
  <2>2. QED
    BY <2>1, FaultCounted
<1>5. CommandOK'
  <2>1. command' = command \/ command' = [command EXCEPT !["entries"] = Idle]
    BY DEF Receive, EntriesAnswered
  <2>2. QED
    BY <2>1 DEF IInv, TypeOK, CommandOK, CommandRecords, Idle
<1>6. staleIdles = 0
  BY <1>2 DEF IInv, IdleShape
<1>7. /\ request' \in {"none", "sent", "accepted"}
      /\ future' \in {"none", "waiting", "set", "failed"}
      /\ connected' \in BOOLEAN
  <2>1. connected \in BOOLEAN
    BY DEF IInv, TypeOK
  <2>2. connected' \in BOOLEAN
    BY <2>1, Zenon DEF Receive, EntriesAnswered, Ended
  <2>3. QED
    BY <1>1, <2>2 DEF IInv, TypeOK, StreamOK
<1>8. QED
  BY <1>1, <1>2, <1>3, <1>4, <1>5, <1>6, <1>7, EventsAlone

(* A step of a one-off request touches nothing else. *)
LEMMA CommandInv ==
  ASSUME IInv, NEW c \in Commands, Commanding(c) \/ Execute(c) \/ CommandDrops(c)
  PROVE  IInv'
<1>1. /\ fired' = fired /\ link' = link /\ wire' = wire /\ held' = held
      /\ queue' = queue /\ got' = got /\ taken' = taken /\ reader' = reader
      /\ staleIdles' = staleIdles /\ request' = request /\ future' = future
      /\ pc' = pc /\ entry' = entry /\ connected' = connected
  BY DEF Commanding, CommandConnects, CommandSent, CommandRefused, CommandAnswered,
     CommandLost, CommandTimesOut, Execute, CommandDrops, Others, stream
<1>2. faults' \in 0..MaxFaults
  <2>1. faults' = faults \/ (faults < MaxFaults /\ faults' = faults + 1)
    BY DEF Commanding, CommandConnects, CommandSent, CommandRefused, CommandAnswered,
       CommandLost, CommandTimesOut, Execute, CommandDrops, Fault
  <2>2. QED
    BY <2>1, FaultCounted
<1>3. CommandOK'
  <2>1. /\ command \in [Commands -> CommandRecords]
        /\ command[c] \in CommandRecords /\ command[c].reply \in {"none", "result", "error"}
    BY DEF IInv, TypeOK, CommandOK, CommandRecords
  <2>2. ASSUME NEW r \in CommandRecords, command' = [command EXCEPT ![c] = r]
        PROVE  CommandOK'
    BY <2>1, <2>2 DEF CommandOK
  <2>3. ASSUME NEW outcome \in {"none", "result", "error"}, CommandDone(c, outcome)
        PROVE  CommandOK'
    <3> DEFINE r == [command[c] EXCEPT !.at = "done", !.outcome = outcome, !.link = "none"]
    <3>1. r \in CommandRecords
      BY <2>1 DEF CommandRecords
    <3>2. command' = [command EXCEPT ![c] = r]
      BY <2>3 DEF CommandDone
    <3> HIDE DEF r
    <3>3. QED
      BY <2>2, <3>1, <3>2
  <2>4. CASE CommandConnects(c) \/ CommandRefused(c) \/ CommandLost(c) \/ CommandTimesOut(c)
    <3>1. CASE CommandDone(c, "error")
      BY <2>3, <3>1
    <3>2. CASE command' = [command EXCEPT ![c].at = "authenticating", ![c].link = "open"]
      BY <2>1, <3>2 DEF CommandOK, CommandRecords
    <3>3. QED
      BY <2>4, <3>1, <3>2 DEF CommandConnects, CommandRefused, CommandLost, CommandTimesOut
  <2>5. CASE CommandSent(c)
    BY <2>1, <2>5 DEF CommandOK, CommandRecords, CommandSent
  <2>6. CASE CommandAnswered(c)
    BY <2>1, <2>3, <2>6 DEF CommandAnswered
  <2>7. CASE Execute(c)
    <3>1. PICK reply \in {"none", "result", "error"} :
            command' = [command EXCEPT ![c].request = "executed", ![c].reply = reply]
      BY <2>7 DEF Execute
    <3> DEFINE r == [command[c] EXCEPT !.request = "executed", !.reply = reply]
    <3>2. r \in CommandRecords
      BY <2>1 DEF CommandRecords
    <3>3. command' = [command EXCEPT ![c] = r]
      BY <3>1
    <3> HIDE DEF r
    <3>4. QED
      BY <2>2, <3>2, <3>3
  <2>8. CASE CommandDrops(c)
    <3>1. PICK reply \in {"none", "result", "error"} :
            command' = [command EXCEPT ![c].link = "dropped", ![c].reply = reply]
      BY <2>1, <2>8 DEF CommandDrops
    <3> DEFINE r == [command[c] EXCEPT !.link = "dropped", !.reply = reply]
    <3>2. r \in CommandRecords
      BY <2>1 DEF CommandRecords
    <3>3. command' = [command EXCEPT ![c] = r]
      BY <3>1
    <3> HIDE DEF r
    <3>4. QED
      BY <2>2, <3>2, <3>3
  <2>9. QED
    BY <2>4, <2>5, <2>6, <2>7, <2>8 DEF Commanding
<1>4. /\ request' \in {"none", "sent", "accepted"}
      /\ future' \in {"none", "waiting", "set", "failed"}
      /\ entry' \in BOOLEAN /\ connected' \in BOOLEAN
      /\ pc' \in {"processing", "asking", "connecting", "authenticating",
                  "subscribing", "top", "getting", "pausing", "ended"}
  BY <1>1 DEF IInv, TypeOK, StreamOK
<1>5. QED
  BY <1>1, <1>2, <1>3, <1>4, EventsAlone

-----------------------------------------------------------------------------
LEMMA ConnectInv == ASSUME IInv, Connect PROVE IInv'
<1>1. /\ pc = "connecting" /\ pc' = "authenticating" /\ link' = "open"
      /\ fired' = fired /\ wire' = wire /\ held' = held /\ queue' = queue
      /\ got' = got /\ taken' = taken /\ reader' = reader
      /\ staleIdles' = staleIdles /\ request' = request /\ future' = future
      /\ entry' = entry /\ connected' = connected /\ command' = command
      /\ faults' = faults
  BY DEF Connect
<1>2. StreamOK' /\ CommandOK'
  BY <1>1 DEF IInv, TypeOK, StreamOK, CommandOK
<1>3. TypeOK'
  BY <1>1, <1>2 DEF IInv, TypeOK
<1>4. NothingLostInside' /\ EventsKnown' /\ HandShape' /\ IdleShape'
  BY <1>1 DEF IInv, NothingLostInside, EventsKnown, HandShape, IdleShape
<1>5. QED
  BY <1>3, <1>4 DEF IInv

LEMMA AuthenticateInv == ASSUME IInv, Authenticate PROVE IInv'
<1>1. /\ pc = "authenticating" /\ link = "open" /\ pc' = "subscribing" /\ link' = link
      /\ fired' = fired /\ wire' = wire /\ held' = held /\ queue' = queue
      /\ got' = got /\ taken' = taken /\ reader' = "running"
      /\ staleIdles' = staleIdles /\ request' = "sent" /\ future' = "waiting"
      /\ entry' = entry /\ command' = command /\ faults' = faults
  BY DEF Authenticate
<1>2. connected' \in BOOLEAN
  BY Zenon DEF Authenticate
<1>3. StreamOK' /\ CommandOK'
  BY <1>1 DEF IInv, TypeOK, StreamOK, CommandOK
<1>4. TypeOK'
  BY <1>1, <1>2, <1>3 DEF IInv, TypeOK
<1>5. NothingLostInside' /\ EventsKnown' /\ HandShape' /\ IdleShape'
  BY <1>1 DEF IInv, NothingLostInside, EventsKnown, HandShape, IdleShape
<1>6. QED
  BY <1>4, <1>5 DEF IInv

(* The connection is left with everything that came by it. *)
LEMMA PauseOverInv == ASSUME IInv, PauseOver PROVE IInv'
<1>1. /\ pc' = "connecting" /\ link' = "none" /\ request' = "none" /\ wire' = <<>>
      /\ reader' = "none" /\ held' = <<>> /\ queue' = <<>> /\ future' = "none"
      /\ got' = <<>> /\ taken' = <<>> /\ staleIdles' = 0
      /\ fired' = fired /\ entry' = entry /\ connected' = connected
      /\ command' = command /\ faults' = faults
  BY DEF PauseOver
<1>2. /\ wire' \in Seq(0..MaxEvents) /\ wire' \in Seq(0..Len(fired))
      /\ queue' \in Seq(1..MaxEvents) /\ queue' \in Seq(1..Len(fired)) /\ Len(queue') = 0
      /\ held' \in Seq(1..MaxEvents) /\ held' \in Seq(1..Len(fired)) /\ Len(held') = 0
      /\ got' \in Seq(1..MaxEvents) /\ taken' \in Seq(1..MaxEvents)
  BY <1>1, EmptySeq
<1>3. StreamOK' /\ CommandOK'
  BY <1>1, <1>2, BoundsAssumption DEF IInv, TypeOK, StreamOK, CommandOK
<1>4. TypeOK'
  BY <1>1, <1>3 DEF IInv, TypeOK
<1>5. NothingLostInside'
  BY <1>1, <1>2, ConcatEmptySeq DEF NothingLostInside
<1>6. EventsKnown' /\ HandShape' /\ IdleShape'
  BY <1>1, <1>2 DEF EventsKnown, HandShape, IdleShape
<1>7. QED
  BY <1>4, <1>5, <1>6 DEF IInv

(* An event is taken out of the queue. *)
LEMMA TakeInv ==
  ASSUME IInv, Take, queue # <<>>, reader # "failed" \/ pc = "getting", pc \in {"top", "getting"},
         fired' = fired, link' = link, request' = request, wire' = wire,
         reader' = reader, held' = held, future' = future, got' = got,
         staleIdles' = staleIdles, entry' = entry, command' = command, faults' = faults
  PROVE  IInv'
<1>1. /\ taken' = Append(taken, Head(queue)) /\ queue' = Tail(queue)
  BY DEF Take
<1>2. /\ taken \in Seq(1..MaxEvents) /\ queue \in Seq(1..MaxEvents)
      /\ held \in Seq(1..MaxEvents) /\ queue \in Seq(1..Len(fired))
      /\ Len(queue) <= QueueSize
  BY DEF IInv, TypeOK, StreamOK, EventsKnown
<1>3. /\ taken' \in Seq(1..MaxEvents) /\ queue' \in Seq(1..MaxEvents)
      /\ Len(queue') = Len(queue) - 1
      /\ taken' \o queue' \o held = taken \o queue \o held
  <2> DEFINE E == 1..MaxEvents
  <2>1. taken \in Seq(E) /\ queue \in Seq(E) /\ held \in Seq(E)
    BY <1>2
  <2> HIDE DEF E
  <2>2. /\ Append(taken, Head(queue)) \in Seq(E) /\ Tail(queue) \in Seq(E)
        /\ Len(Tail(queue)) = Len(queue) - 1
        /\ Append(taken, Head(queue)) \o Tail(queue) \o held = taken \o queue \o held
    BY <2>1, MoveHead
  <2>3. QED
    BY <1>1, <2>2 DEF E
<1>4. queue' \in Seq(1..Len(fired)) /\ Head(queue) \in 1..Len(fired)
  BY <1>1, <1>2, HeadTailProperties
<1>5. pc' \in {"processing", "top", "ended"}
  <2>1. fired[Head(queue)] \in Kinds
    BY <1>4, ElementOfSeq DEF IInv, TypeOK
  <2>2. QED
    BY <2>1 DEF Take, Kinds, Ended
<1>6. Len(queue') <= QueueSize
  <2>1. Len(queue) \in Nat
    BY <1>2, LenProperties
  <2>2. QED
    BY <1>2, <1>3, <2>1, BoundsAssumption
<1>7. StreamOK' /\ CommandOK'
  BY <1>3, <1>6 DEF IInv, TypeOK, StreamOK, CommandOK
<1>8. TypeOK'
  <2>1. connected \in BOOLEAN
    BY DEF IInv, TypeOK
  <2>2. connected' \in BOOLEAN
    BY <2>1, Zenon DEF Take, Ended
  <2>3. QED
    BY <1>1, <1>5, <1>7, <2>2 DEF IInv, TypeOK
<1>9. NothingLostInside'
  BY <1>3 DEF IInv, NothingLostInside
<1>10. EventsKnown' /\ HandShape'
  BY <1>4, <1>5 DEF IInv, EventsKnown, HandShape
<1>11. IdleShape'
  BY <1>5 DEF IInv, IdleShape
<1>12. QED
  BY <1>8, <1>9, <1>10, <1>11 DEF IInv

LEMMA TurnInv == ASSUME IInv, Turn PROVE IInv'
<1>1. /\ pc = "top"
      /\ fired' = fired /\ link' = link /\ request' = request /\ wire' = wire
      /\ reader' = reader /\ held' = held /\ future' = future /\ got' = got
      /\ staleIdles' = staleIdles /\ entry' = entry /\ command' = command
      /\ faults' = faults
  BY DEF Turn
<1>2. CASE reader # "failed" /\ queue # <<>> /\ Take
  BY <1>1, <1>2, TakeInv
<1>3. CASE /\ taken' = taken /\ queue' = queue
           /\ \/ reader = "failed" /\ Disconnected
              \/ reader # "failed" /\ pc' = "getting" /\ connected' = connected
  <2>1. pc' \in {"pausing", "getting"} /\ (pc' = "getting" => reader # "failed")
    BY <1>3 DEF Disconnected
  <2>2. connected' \in BOOLEAN
    <3>1. connected \in BOOLEAN
      BY DEF IInv, TypeOK
    <3>2. QED
      BY <1>3, <3>1, Zenon DEF Disconnected
  <2>3. StreamOK' /\ CommandOK'
    BY <1>1, <1>3 DEF IInv, TypeOK, StreamOK, CommandOK
  <2>4. TypeOK'
    BY <1>1, <2>1, <2>2, <2>3 DEF IInv, TypeOK
  <2>5. NothingLostInside' /\ EventsKnown' /\ HandShape' /\ IdleShape'
    BY <1>1, <1>3, <2>1 DEF IInv, NothingLostInside, EventsKnown, HandShape, IdleShape
  <2>6. QED
    BY <2>4, <2>5 DEF IInv
<1>4. QED
  BY <1>2, <1>3 DEF Turn

LEMMA GetInv == ASSUME IInv, Get PROVE IInv'
<1>1. /\ pc = "getting" /\ queue # <<>> /\ Take
      /\ fired' = fired /\ link' = link /\ request' = request /\ wire' = wire
      /\ reader' = reader /\ held' = held /\ future' = future /\ got' = got
      /\ staleIdles' = staleIdles /\ entry' = entry /\ command' = command
      /\ faults' = faults
  BY DEF Get
<1>2. QED
  BY <1>1, TakeInv

(* No event in time. *)
LEMMA IdleTimeoutInv == ASSUME IInv, IdleTimeout PROVE IInv'
<1>1. /\ pc = "getting" /\ pc' = "top"
      /\ staleIdles' = IF reader = "failed" THEN staleIdles + 1 ELSE staleIdles
      /\ fired' = fired /\ link' = link /\ request' = request /\ wire' = wire
      /\ reader' = reader /\ held' = held /\ queue' = queue /\ future' = future
      /\ got' = got /\ taken' = taken /\ entry' = entry /\ command' = command
      /\ faults' = faults
  BY DEF IdleTimeout
<1>2. connected' \in BOOLEAN
  BY Zenon DEF IdleTimeout
<1>3. staleIdles = 0
  BY <1>1 DEF IInv, IdleShape
<1>4. staleIdles' \in Nat /\ staleIdles' <= 1 /\ (staleIdles' # 0 => reader = "failed")
  BY <1>1, <1>3
<1>5. StreamOK' /\ CommandOK'
  BY <1>1 DEF IInv, TypeOK, StreamOK, CommandOK
<1>6. TypeOK'
  BY <1>1, <1>2, <1>4, <1>5 DEF IInv, TypeOK
<1>7. NothingLostInside' /\ EventsKnown' /\ HandShape' /\ IdleShape'
  BY <1>1, <1>4 DEF IInv, NothingLostInside, EventsKnown, HandShape, IdleShape
<1>8. QED
  BY <1>6, <1>7 DEF IInv

-----------------------------------------------------------------------------
LEMMA NextInv == IInv /\ [Next]_vars => IInv'
<1> SUFFICES ASSUME IInv, [Next]_vars PROVE IInv'
  OBVIOUS
<1>1. ASSUME NEW kind \in Kinds, Fire(kind) PROVE IInv'
  BY <1>1, FireInv
<1>2. ASSUME AcceptSubscription \/ Drop \/ Cancel PROVE IInv'
  BY <1>2, AcceptSubscriptionInv, DropInv, ConnectingInv
<1>3. ASSUME Reading PROVE IInv'
  BY <1>3, ReadInv, PutHeldInv, ReaderFailsInv DEF Reading
<1>4. ASSUME Connecting PROVE IInv'
  BY <1>4, ConnectInv, AuthenticateInv, ConnectingInv, PauseOverInv DEF Connecting
<1>5. ASSUME Taking PROVE IInv'
  BY <1>5, TurnInv, GetInv, IdleTimeoutInv, ReceivingInv DEF Taking
<1>6. ASSUME NEW c \in Commands, Commanding(c) \/ Execute(c) \/ CommandDrops(c) PROVE IInv'
  BY <1>6, CommandInv
<1>7. ASSUME UNCHANGED vars PROVE IInv'
  <2>1. /\ fired' = fired /\ link' = link /\ request' = request /\ wire' = wire
        /\ reader' = reader /\ held' = held /\ queue' = queue /\ future' = future
        /\ got' = got /\ taken' = taken /\ staleIdles' = staleIdles /\ pc' = pc
        /\ entry' = entry /\ connected' = connected /\ command' = command
        /\ faults' = faults
    BY <1>7 DEF vars, stream
  <2>2. TypeOK'
    BY <2>1 DEF IInv, TypeOK, StreamOK, CommandOK
  <2>3. NothingLostInside' /\ EventsKnown' /\ HandShape' /\ IdleShape'
    BY <2>1 DEF IInv, NothingLostInside, EventsKnown, HandShape, IdleShape
  <2>4. QED
    BY <2>2, <2>3 DEF IInv
<1>8. QED
  BY <1>1, <1>2, <1>3, <1>4, <1>5, <1>6, <1>7 DEF Next

LEMMA Invariance == Spec => []IInv
<1>1. Init => IInv
  BY InitInv
<1>2. IInv /\ [Next]_vars => IInv'
  BY NextInv
<1>3. QED
  BY <1>1, <1>2, PTL DEF Spec

(* Every variable keeps its range; in particular the event queue never      *)
(* holds more than QueueSize events (events, _queue_event).                 *)
THEOREM TypeCorrect == Spec => []TypeOK
<1>1. IInv => TypeOK
  BY DEF IInv
<1>2. QED
  BY <1>1, Invariance, PTL

(* Between the socket and receive no event of a connection is lost, doubled *)
(* or passed by another, for a queue of any size (_queue_event, events).    *)
THEOREM EventsKept == Spec => []NothingLostInside
<1>1. IInv => NothingLostInside
  BY DEF IInv
<1>2. QED
  BY <1>1, Invariance, PTL

(* After its reader failed a connection is called connected by at most one  *)
(* idle timeout, however long nothing arrives (events, _mark_subscribed).   *)
THEOREM StaleIdleOnce == Spec => []OneStaleIdle
<1>1. IInv => OneStaleIdle
  BY DEF IInv, IdleShape, OneStaleIdle
<1>2. QED
  BY <1>1, Invariance, PTL
-----------------------------------------------------------------------------
(* More about sequences: heads and cuts of a concatenation. *)
LEMMA HeadOfConcat ==
  ASSUME NEW S, NEW s \in Seq(S), NEW t \in Seq(S), s # <<>>
  PROVE  /\ s \o t # <<>>
         /\ Head(s \o t) = Head(s)
         /\ Tail(s \o t) = Tail(s) \o t
<1>1. /\ Len(s) \in Nat \ {0} /\ Len(t) \in Nat
      /\ Head(s) \in S /\ Tail(s) \in Seq(S) /\ Len(Tail(s)) = Len(s) - 1
      /\ \A i \in 1..Len(Tail(s)) : Tail(s)[i] = s[i + 1]
  BY EmptySeq, LenProperties, HeadTailProperties
<1>2. /\ s \o t \in Seq(S) /\ Len(s \o t) = Len(s) + Len(t)
      /\ \A i \in 1..Len(s) + Len(t) :
           (s \o t)[i] = IF i <= Len(s) THEN s[i] ELSE t[i - Len(s)]
  BY ConcatProperties
<1>3. s \o t # <<>>
  BY <1>1, ConcatEqualIffEmpty
<1>4. Head(s \o t) = Head(s)
  <2>1. Head(s \o t) = (s \o t)[1] /\ Head(s) = s[1]
    OBVIOUS
  <2>2. QED
    BY <1>1, <1>2, <2>1
<1>5. /\ Tail(s \o t) \in Seq(S) /\ Len(Tail(s \o t)) = Len(s) + Len(t) - 1
      /\ \A i \in 1..Len(Tail(s \o t)) : Tail(s \o t)[i] = (s \o t)[i + 1]
  BY <1>2, <1>3, HeadTailProperties
<1>6. /\ Tail(s) \o t \in Seq(S) /\ Len(Tail(s) \o t) = Len(s) - 1 + Len(t)
      /\ \A i \in 1..Len(s) - 1 + Len(t) :
           (Tail(s) \o t)[i] = IF i <= Len(s) - 1 THEN Tail(s)[i] ELSE t[i - (Len(s) - 1)]
  BY <1>1, ConcatProperties
<1>7. ASSUME NEW i \in 1..Len(Tail(s \o t))
      PROVE  Tail(s \o t)[i] = (Tail(s) \o t)[i]
  <2>1. /\ i \in Nat /\ i + 1 \in 1..Len(s) + Len(t) /\ i \in 1..Len(s) - 1 + Len(t)
        /\ i + 1 - Len(s) = i - (Len(s) - 1)
    BY <1>1, <1>5
  <2>2. Tail(s \o t)[i] = IF i + 1 <= Len(s) THEN s[i + 1] ELSE t[i + 1 - Len(s)]
    BY <1>2, <1>5, <2>1
  <2>3. CASE i + 1 <= Len(s)
    <3>1. i <= Len(s) - 1 /\ i \in 1..Len(Tail(s))
      BY <1>1, <2>1, <2>3
    <3>2. QED
      BY <1>1, <1>6, <2>1, <2>2, <2>3, <3>1
  <2>4. CASE ~ (i + 1 <= Len(s))
    <3>1. ~ (i <= Len(s) - 1)
      BY <1>1, <2>1, <2>4
    <3>2. QED
      BY <1>6, <2>1, <2>2, <2>4, <3>1
  <2>5. QED
    BY <2>3, <2>4
<1>8. Tail(s \o t) = Tail(s) \o t
  BY <1>1, <1>5, <1>6, <1>7, SeqEqual
<1>9. QED
  BY <1>3, <1>4, <1>8

LEMMA CutOfConcat ==
  ASSUME NEW S, NEW s \in Seq(S), NEW t \in Seq(S), NEW k \in 0..Len(t)
  PROVE  s \o SubSeq(t, 1, k) = SubSeq(s \o t, 1, Len(s) + k)
<1>1. Len(s) \in Nat /\ Len(t) \in Nat /\ k \in Nat /\ k <= Len(t)
  BY LenProperties
<1>2. /\ s \o t \in Seq(S) /\ Len(s \o t) = Len(s) + Len(t)
      /\ \A i \in 1..Len(s) + Len(t) :
           (s \o t)[i] = IF i <= Len(s) THEN s[i] ELSE t[i - Len(s)]
  BY ConcatProperties
<1> DEFINE c == SubSeq(t, 1, k)
           d == SubSeq(s \o t, 1, Len(s) + k)
<1>3. c \in Seq(S) /\ Len(c) = k /\ \A i \in 1..k : c[i] = t[i]
  <2>1. \A i \in 1..k : t[i] \in S
    BY <1>1, ElementOfSeq
  <2>2. /\ c \in Seq(S) /\ Len(c) = IF 1 <= k THEN k - 1 + 1 ELSE 0
        /\ \A i \in 1..k - 1 + 1 : c[i] = t[1 + i - 1]
    BY <1>1, <2>1, SubSeqProperties
  <2> HIDE DEF c
  <2>3. QED
    BY <1>1, <2>2
<1>4. d \in Seq(S) /\ Len(d) = Len(s) + k /\ \A i \in 1..Len(s) + k : d[i] = (s \o t)[i]
  <2> DEFINE n == Len(s) + k
             u == s \o t
  <2>1. n \in Nat /\ n <= Len(u)
    BY <1>1, <1>2
  <2>2. u \in Seq(S) /\ Len(u) \in Nat
    BY <1>1, <1>2
  <2> HIDE DEF n, u
  <2>3. \A i \in 1..n : u[i] \in S
    BY <2>1, <2>2, ElementOfSeq
  <2>4. /\ SubSeq(u, 1, n) \in Seq(S) /\ Len(SubSeq(u, 1, n)) = IF 1 <= n THEN n - 1 + 1 ELSE 0
        /\ \A i \in 1..n - 1 + 1 : SubSeq(u, 1, n)[i] = u[1 + i - 1]
    BY <2>1, <2>3, SubSeqProperties
  <2>5. /\ SubSeq(u, 1, n) \in Seq(S) /\ Len(SubSeq(u, 1, n)) = n
        /\ \A i \in 1..n : SubSeq(u, 1, n)[i] = u[i]
    BY <2>1, <2>4
  <2>6. QED
    BY <2>5 DEF n, u
<1> HIDE DEF c, d
<1>5. /\ s \o c \in Seq(S) /\ Len(s \o c) = Len(s) + k
      /\ \A i \in 1..Len(s) + k : (s \o c)[i] = IF i <= Len(s) THEN s[i] ELSE c[i - Len(s)]
  BY <1>3, ConcatProperties
<1>6. ASSUME NEW i \in 1..Len(s \o c) PROVE (s \o c)[i] = d[i]
  <2>1. i \in Nat /\ i \in 1..Len(s) + k /\ i \in 1..Len(s) + Len(t)
    BY <1>1, <1>5
  <2>2. d[i] = IF i <= Len(s) THEN s[i] ELSE t[i - Len(s)]
    BY <1>2, <1>4, <2>1
  <2>3. ~ (i <= Len(s)) => i - Len(s) \in 1..k
    BY <1>1, <2>1
  <2>4. QED
    BY <1>3, <1>5, <2>1, <2>2, <2>3
<1>7. s \o c = d
  BY <1>4, <1>5, <1>6, SeqEqual
<1>8. QED
  BY <1>7 DEF c, d

(* What follows the result on the wire when a frame is added, read or lost. *)
LEMMA ResultAppend ==
  ASSUME NEW s \in Seq(Nat), NEW x \in Nat \ {0}
  PROVE  AfterResult(Append(s, x)) = Append(AfterResult(s), x)
<1>1. /\ Append(s, x) # <<>>
      /\ Head(Append(s, x)) = IF s = <<>> THEN x ELSE Head(s)
      /\ Tail(Append(s, x)) = IF s = <<>> THEN <<>> ELSE Append(Tail(s), x)
  BY AppendProperties, HeadTailAppend
<1>2. QED
  BY <1>1 DEF AfterResult

LEMMA ResultRead ==
  ASSUME NEW s \in Seq(Nat), s # <<>>, \A i \in 1..Len(s) : i # 1 => s[i] # 0
  PROVE  /\ Head(s) = 0 => AfterResult(s) = Tail(s)
         /\ Head(s) # 0 => AfterResult(s) = s
         /\ AfterResult(Tail(s)) = Tail(s)
<1>1. Len(s) \in Nat \ {0}
  BY EmptySeq
<1>2. /\ Tail(s) \in Seq(Nat) /\ Len(Tail(s)) = Len(s) - 1
      /\ \A i \in 1..Len(Tail(s)) : Tail(s)[i] = s[i + 1]
  BY HeadTailProperties
<1>3. ASSUME Tail(s) # <<>> PROVE Head(Tail(s)) # 0
  <2>1. Len(Tail(s)) \in Nat \ {0}
    BY <1>2, <1>3, EmptySeq
  <2>2. Tail(s)[1] = s[2] /\ 2 \in 1..Len(s)
    BY <1>1, <1>2, <2>1
  <2>3. \A t : Head(t) = t[1]
    OBVIOUS
  <2>4. 2 # 1 => s[2] # 0
    BY <2>2
  <2>5. QED
    BY <2>2, <2>3, <2>4
<1>4. QED
  BY <1>3 DEF AfterResult

LEMMA ResultCut ==
  ASSUME NEW s \in Seq(Nat), NEW n \in 0..Len(s)
  PROVE  \E k \in 0..Len(AfterResult(s)) :
           AfterResult(SubSeq(s, 1, n)) = SubSeq(AfterResult(s), 1, k)
<1>1. Len(s) \in Nat /\ n \in Nat
  BY LenProperties
<1>2. AfterResult(s) \in Seq(Nat) /\ Len(AfterResult(s)) \in Nat
  <2>1. AfterResult(s) \in Seq(Nat)
    BY HeadTailProperties DEF AfterResult
  <2>2. QED
    BY <2>1, LenProperties
<1>3. CASE n = 0
  <2>1. SubSeq(s, 1, n) = <<>> /\ SubSeq(AfterResult(s), 1, 0) = <<>>
    BY <1>3, SubSeqEmpty
  <2>2. QED
    BY <1>2, <2>1 DEF AfterResult
<1>4. CASE n # 0
  <2>1. s # <<>> /\ 1 \in 1..Len(s) /\ n \in 1..Len(s)
    BY <1>1, <1>4, EmptySeq
  <2>2. /\ Head(SubSeq(s, 1, n)) = s[1] /\ Tail(SubSeq(s, 1, n)) = SubSeq(s, 1 + 1, n)
        /\ SubSeq(s, 1, n) # <<>>
    <3>1. /\ Head(SubSeq(s, 1, n)) = s[1] /\ Tail(SubSeq(s, 1, n)) = SubSeq(s, 1 + 1, n)
      BY <2>1, HeadTailOfSubSeq
    <3>2. SubSeq(s, 1, n) = <<s[1]>> \o SubSeq(s, 1 + 1, n)
      BY <2>1, SubSeqRecursiveFirst
    <3>3. \A i \in 1..n : s[i] \in Nat
      BY <1>1, <2>1, ElementOfSeq
    <3>4. Len(SubSeq(s, 1, n)) = IF 1 <= n THEN n - 1 + 1 ELSE 0
      BY <1>1, <3>3, SubSeqProperties
    <3>5. Len(SubSeq(s, 1, n)) # 0
      BY <1>1, <1>4, <3>4
    <3>6. QED
      BY <3>1, <3>5, EmptySeq
  <2>3. Head(s) = s[1]
    OBVIOUS
  <2>4. CASE s[1] # 0
    <3>1. AfterResult(s) = s /\ AfterResult(SubSeq(s, 1, n)) = SubSeq(s, 1, n)
      BY <2>2, <2>3, <2>4 DEF AfterResult
    <3>2. QED
      BY <3>1
  <2>5. CASE s[1] = 0
    <3>1. /\ AfterResult(s) = Tail(s) /\ Len(Tail(s)) = Len(s) - 1
          /\ AfterResult(SubSeq(s, 1, n)) = SubSeq(s, 2, n)
      <4>1. AfterResult(s) = Tail(s) /\ Len(Tail(s)) = Len(s) - 1
        BY <2>1, <2>3, <2>5, HeadTailProperties DEF AfterResult
      <4>2. AfterResult(SubSeq(s, 1, n)) = SubSeq(s, 1 + 1, n)
        BY <2>2, <2>5 DEF AfterResult
      <4>3. 1 + 1 = 2
        OBVIOUS
      <4>4. QED
        BY <4>1, <4>2, <4>3
    <3>2. n - 1 \in 0..Len(s) - 1
      BY <1>1, <2>1
    <3>3. SubSeq(s, 2, n) = SubSeq(Tail(s), 1, n - 1)
      <4>1. CASE n = 1
        <5>1. SubSeq(s, 2, n) = <<>> /\ SubSeq(Tail(s), 1, n - 1) = <<>>
          BY <4>1, SubSeqEmpty
        <5>2. QED
          BY <5>1
      <4>2. CASE n # 1
        <5>1. Tail(s) = SubSeq(s, 2, Len(s))
          BY <2>1, TailIsSubSeq
        <5>2. /\ 2 \in 1..Len(s) /\ Len(s) \in 1..Len(s)
              /\ 1 \in 1..(Len(s) - 2 + 1) /\ n - 1 \in 1..(Len(s) - 2 + 1)
              /\ 2 + 1 - 1 = 2 /\ 2 + (n - 1) - 1 = n
          BY <1>1, <2>1, <4>2
        <5>3. SubSeq(SubSeq(s, 2, Len(s)), 1, n - 1) = SubSeq(s, 2 + 1 - 1, 2 + (n - 1) - 1)
          BY <5>2, SubSeqOfSubSeq
        <5>4. QED
          BY <5>1, <5>2, <5>3
      <4>3. QED
        BY <4>1, <4>2
    <3>4. QED
      BY <3>1, <3>2, <3>3
  <2>6. QED
    BY <2>4, <2>5
<1>5. QED
  BY <1>3, <1>4

-----------------------------------------------------------------------------
(* What the refinement needs beyond IInv: a connection that is not yet      *)
(* subscribed has brought nothing, and only the first frame of one that is  *)
(* may be a result.                                                         *)
FramesShape ==
  /\ link = "none" \/ pc \in {"connecting", "authenticating"} => request = "none"
  /\ request # "accepted" => wire = <<>> /\ got = <<>>
  /\ \A i \in 1..Len(wire) : i # 1 => wire[i] # 0

(* The feed that the events of the connection make. *)
Listens == link = "open" /\ request = "accepted"
Pending == queue \o held \o AfterResult(wire)

LEMMA Numbers ==
  ASSUME IInv
  PROVE  /\ wire \in Seq(Nat) /\ queue \in Seq(Nat) /\ held \in Seq(Nat)
         /\ taken \in Seq(Nat) /\ got \in Seq(Nat)
         /\ AfterResult(wire) \in Seq(Nat) /\ queue \o held \in Seq(Nat)
         /\ Pending \in Seq(Nat)
<1>1. 0..MaxEvents \subseteq Nat /\ 1..MaxEvents \subseteq Nat
  BY BoundsAssumption
<1>2. Seq(0..MaxEvents) \subseteq Seq(Nat) /\ Seq(1..MaxEvents) \subseteq Seq(Nat)
  BY <1>1, SeqMonotonic
<1>3. /\ wire \in Seq(Nat) /\ queue \in Seq(Nat) /\ held \in Seq(Nat)
      /\ taken \in Seq(Nat) /\ got \in Seq(Nat)
  BY <1>2 DEF IInv, TypeOK, StreamOK
<1>4. AfterResult(wire) \in Seq(Nat)
  BY <1>3, HeadTailProperties DEF AfterResult
<1>5. queue \o held \in Seq(Nat)
  BY <1>3, ConcatProperties
<1>6. (queue \o held) \o AfterResult(wire) \in Seq(Nat)
  BY <1>4, <1>5, ConcatProperties
<1>7. QED
  BY <1>3, <1>4, <1>5, <1>6 DEF Pending

(* Frames that keep the shape when one is added, read or lost. *)
LEMMA ShapeAppend ==
  ASSUME NEW s \in Seq(Nat), NEW x \in Nat, x # 0 \/ s = <<>>,
         \A i \in 1..Len(s) : i # 1 => s[i] # 0
  PROVE  \A i \in 1..Len(Append(s, x)) : i # 1 => Append(s, x)[i] # 0
<1>1. /\ Len(s) \in Nat /\ Len(Append(s, x)) = Len(s) + 1
      /\ \A i \in 1..Len(s) : Append(s, x)[i] = s[i]
      /\ Append(s, x)[Len(s) + 1] = x
  BY LenProperties, AppendProperties
<1>2. s = <<>> => Len(s) = 0
  BY EmptySeq
<1>3. ASSUME NEW i \in 1..Len(Append(s, x)), i # 1 PROVE Append(s, x)[i] # 0
  <2>1. CASE i = Len(s) + 1
    BY <1>1, <1>2, <1>3, <2>1
  <2>2. CASE i # Len(s) + 1
    <3>1. i \in 1..Len(s)
      BY <1>1, <2>2
    <3>2. QED
      BY <1>1, <1>3, <3>1
  <2>3. QED
    BY <2>1, <2>2
<1>4. QED
  BY <1>3

LEMMA ShapeTail ==
  ASSUME NEW s \in Seq(Nat), s # <<>>, \A i \in 1..Len(s) : i # 1 => s[i] # 0
  PROVE  \A i \in 1..Len(Tail(s)) : i # 1 => Tail(s)[i] # 0
<1>1. /\ Len(Tail(s)) = Len(s) - 1 /\ Len(s) \in Nat
      /\ \A i \in 1..Len(Tail(s)) : Tail(s)[i] = s[i + 1]
  BY LenProperties, HeadTailProperties
<1>2. ASSUME NEW i \in 1..Len(Tail(s)) PROVE Tail(s)[i] # 0
  <2>1. i + 1 \in 1..Len(s) /\ i + 1 # 1
    BY <1>1
  <2>2. s[i + 1] # 0
    BY <2>1
  <2>3. QED
    BY <1>1, <2>2
<1>3. QED
  BY <1>2

LEMMA ShapeCut ==
  ASSUME NEW s \in Seq(Nat), NEW n \in 0..Len(s),
         \A i \in 1..Len(s) : i # 1 => s[i] # 0
  PROVE  /\ \A i \in 1..Len(SubSeq(s, 1, n)) : i # 1 => SubSeq(s, 1, n)[i] # 0
         /\ s = <<>> => SubSeq(s, 1, n) = <<>>
<1> DEFINE c == SubSeq(s, 1, n)
<1>1. Len(s) \in Nat /\ n \in Nat /\ n <= Len(s)
  BY LenProperties
<1>2. \A i \in 1..n : s[i] \in Nat
  BY <1>1, ElementOfSeq
<1>3. /\ Len(c) = IF 1 <= n THEN n - 1 + 1 ELSE 0
      /\ \A i \in 1..n - 1 + 1 : c[i] = s[1 + i - 1]
      /\ c \in Seq(Nat)
  BY <1>1, <1>2, SubSeqProperties
<1> HIDE DEF c
<1>4. c \in Seq(Nat) /\ Len(c) = n /\ \A i \in 1..n : c[i] = s[i]
  BY <1>1, <1>3
<1>5. \A i \in 1..Len(c) : i # 1 => c[i] # 0
  BY <1>1, <1>4
<1>6. s = <<>> => c = <<>>
  <2>1. s = <<>> => Len(s) = 0
    BY EmptySeq
  <2>2. Len(c) = 0 => c = <<>>
    BY <1>4, EmptySeq
  <2>3. QED
    BY <1>1, <1>4, <2>1, <2>2
<1>7. QED
  BY <1>5, <1>6 DEF c

LEMMA FramesInit == Init => FramesShape
<1> SUFFICES ASSUME Init PROVE FramesShape
  OBVIOUS
<1>1. /\ request = "none" /\ wire = <<>> /\ got = <<>>
  BY DEF Init
<1>2. Len(wire) = 0
  BY <1>1, EmptySeq
<1>3. \A i \in 1..Len(wire) : i # 1 => wire[i] # 0
  BY <1>2
<1>4. QED
  BY <1>1, <1>3 DEF FramesShape

(* A step that leaves the frames and the request alone. *)
LEMMA FramesAlone ==
  ASSUME FramesShape, UNCHANGED <<link, request, wire, got>>,
         pc' \in {"connecting", "authenticating"} => pc' = pc \/ link = "none"
  PROVE  FramesShape'
<1>1. link' = link /\ request' = request /\ wire' = wire /\ got' = got
  OBVIOUS
<1>2. QED
  BY <1>1 DEF FramesShape

-----------------------------------------------------------------------------
(* Every step keeps the shape of the frames, and is one of the feed or      *)
(* hidden from it.                                                          *)
FeedStep == FramesShape' /\ (Feed!Next \/ UNCHANGED Feed!vars)

LEMMA Hidden ==
  ASSUME fired' = fired, Listens' <=> Listens, Pending' = Pending, taken' = taken
  PROVE  UNCHANGED Feed!vars
<1>1. (link = "open" /\ request = "accepted")' <=> (link = "open" /\ request = "accepted")
  BY DEF Listens
<1>2. (link = "open" /\ request = "accepted")' = (link = "open" /\ request = "accepted")
  BY <1>1, Zenon
<1>3. (queue \o held \o AfterResult(wire))' = queue \o held \o AfterResult(wire)
  BY DEF Pending
<1>4. QED
  BY <1>2, <1>3 DEF Feed!vars

(* Steps that touch neither the connection nor its events. *)
LEMMA AloneFeeds ==
  ASSUME FramesShape, UNCHANGED <<fired, link, request, wire, held, queue, got, taken>>,
         pc' \in {"connecting", "authenticating"} => pc' = pc \/ link = "none"
  PROVE  FeedStep
<1>1. fired' = fired /\ link' = link /\ request' = request /\ wire' = wire
      /\ held' = held /\ queue' = queue /\ got' = got /\ taken' = taken
  OBVIOUS
<1>2. FramesShape'
  BY <1>1, FramesAlone
<1>3. (Listens' <=> Listens) /\ Pending' = Pending
  BY <1>1 DEF Listens, Pending, AfterResult
<1>4. QED
  BY <1>1, <1>2, <1>3, Hidden DEF FeedStep

LEMMA FireFeeds ==
  ASSUME IInv, FramesShape, NEW kind \in Kinds, Fire(kind)
  PROVE  FeedStep
<1>1. /\ Len(fired) < MaxEvents /\ fired' = Append(fired, kind)
      /\ wire' = IF Listens THEN Append(wire, Len(fired) + 1) ELSE wire
      /\ link' = link /\ request' = request /\ held' = held /\ queue' = queue
      /\ got' = got /\ taken' = taken /\ pc' = pc
  BY DEF Fire, Listens
<1>2. Len(fired) + 1 \in Nat \ {0}
  BY LenProperties DEF IInv, TypeOK
<1>3. wire \in Seq(Nat) /\ AfterResult(wire) \in Seq(Nat) /\ queue \o held \in Seq(Nat)
  BY Numbers
<1>4. FramesShape'
  <2>1. CASE Listens
    <3>1. wire' = Append(wire, Len(fired) + 1) /\ request = "accepted" /\ link = "open"
      BY <1>1, <2>1 DEF Listens
    <3>2. \A i \in 1..Len(wire) : i # 1 => wire[i] # 0
      BY DEF FramesShape
    <3>3. \A i \in 1..Len(wire') : i # 1 => wire'[i] # 0
      <4> DEFINE x == Len(fired) + 1
      <4>1. x \in Nat /\ x # 0 /\ wire' = Append(wire, x)
        BY <1>2, <3>1
      <4> HIDE DEF x
      <4>2. \A i \in 1..Len(Append(wire, x)) : i # 1 => Append(wire, x)[i] # 0
        BY <1>3, <3>2, <4>1, ShapeAppend
      <4>3. QED
        BY <4>1, <4>2
    <3>4. QED
      BY <1>1, <3>1, <3>3 DEF FramesShape
  <2>2. CASE ~Listens
    <3>1. wire' = wire
      BY <1>1, <2>2
    <3>2. QED
      BY <1>1, <3>1, FramesAlone
  <2>3. QED
    BY <2>1, <2>2
<1>5. Listens' <=> Listens
  BY <1>1 DEF Listens
<1>6. Pending' = IF Listens THEN Append(Pending, Len(fired) + 1) ELSE Pending
  <2>1. CASE Listens
    <3> DEFINE x == Len(fired) + 1
    <3>1. x \in Nat \ {0} /\ wire' = Append(wire, x)
      BY <1>1, <1>2, <2>1
    <3> HIDE DEF x
    <3>2. AfterResult(Append(wire, x)) = Append(AfterResult(wire), x)
      BY <1>3, <3>1, ResultAppend
    <3>3. Append((queue \o held) \o AfterResult(wire), x) = (queue \o held) \o Append(AfterResult(wire), x)
      <4> DEFINE S == Nat
      <4>1. AfterResult(wire) \in Seq(S) /\ queue \o held \in Seq(S) /\ x \in S
        BY <1>3, <3>1
      <4> HIDE DEF S
      <4>2. QED
        BY <4>1, AppendLast
    <3>4. AfterResult(wire)' = AfterResult(Append(wire, x))
      BY <3>1 DEF AfterResult
    <3>5. Pending' = Append(Pending, x)
      BY <1>1, <3>2, <3>3, <3>4 DEF Pending
    <3>6. QED
      BY <2>1, <3>5 DEF x
  <2>2. CASE ~Listens
    BY <1>1, <2>2 DEF Pending, AfterResult
  <2>3. QED
    BY <2>1, <2>2
<1>7. Feed!Fire(kind)
  <2>1. (link = "open" /\ request = "accepted")' = (link = "open" /\ request = "accepted")
    <3>1. (link = "open" /\ request = "accepted")' <=> (link = "open" /\ request = "accepted")
      BY <1>5 DEF Listens
    <3>2. QED
      BY <3>1, Zenon
  <2>2. (queue \o held \o AfterResult(wire))'
          = IF link = "open" /\ request = "accepted"
            THEN Append(queue \o held \o AfterResult(wire), Len(fired) + 1)
            ELSE queue \o held \o AfterResult(wire)
    BY <1>6 DEF Pending, Listens
  <2>3. QED
    BY <1>1, <2>1, <2>2 DEF Feed!Fire
<1>8. QED
  BY <1>4, <1>7 DEF FeedStep, Feed!Next

LEMMA AcceptFeeds ==
  ASSUME IInv, FramesShape, AcceptSubscription
  PROVE  FeedStep
<1>1. /\ link = "open" /\ request = "sent" /\ request' = "accepted"
      /\ wire' = Append(wire, 0) /\ fired' = fired /\ link' = link /\ held' = held
      /\ queue' = queue /\ got' = got /\ taken' = taken /\ pc' = pc
  BY DEF AcceptSubscription
<1>2. wire = <<>> /\ got = <<>>
  BY <1>1 DEF FramesShape
<1>3. wire' = <<0>>
  BY <1>1, <1>2
<1>4. taken = <<>> /\ queue = <<>> /\ held = <<>>
  <2>1. /\ taken \in Seq(Nat) /\ queue \in Seq(Nat) /\ held \in Seq(Nat)
    BY Numbers
  <2>2. taken \o queue \in Seq(Nat)
    BY <2>1, ConcatProperties
  <2>3. taken \o queue \o held = <<>>
    BY <1>2 DEF IInv, NothingLostInside
  <2>4. taken \o queue = <<>> /\ held = <<>>
    BY <2>1, <2>2, <2>3, ConcatEqualIffEmpty
  <2>5. QED
    BY <2>1, <2>4, ConcatEqualIffEmpty
<1>5. FramesShape'
  <2>1. Len(<<0>>) = 1
    OBVIOUS
  <2>2. \A i \in 1..Len(wire') : i = 1
    BY <1>3, <2>1
  <2>3. QED
    BY <1>1, <2>2 DEF FramesShape
<1>6. AfterResult(wire) = <<>> /\ AfterResult(wire)' = <<>>
  <2>1. <<0>> # <<>> /\ Head(<<0>>) = 0 /\ Tail(<<0>>) = <<>>
    OBVIOUS
  <2>2. QED
    BY <1>2, <1>3, <2>1 DEF AfterResult
<1>7. /\ queue \o held \o AfterResult(wire) = <<>>
      /\ (queue \o held \o AfterResult(wire))' = <<>>
  BY <1>1, <1>4, <1>6, ConcatEmptySeq
<1>8. /\ ~(link = "open" /\ request = "accepted")
      /\ (link = "open" /\ request = "accepted")' = TRUE
  BY <1>1
<1>9. Feed!Subscribe
  BY <1>1, <1>4, <1>7, <1>8 DEF Feed!Subscribe
<1>10. QED
  BY <1>5, <1>9 DEF FeedStep, Feed!Next

LEMMA DropFeeds ==
  ASSUME IInv, FramesShape, Drop
  PROVE  FeedStep
<1>1. /\ link = "open" /\ link' = "dropped" /\ fired' = fired /\ request' = request
      /\ held' = held /\ queue' = queue /\ got' = got /\ taken' = taken /\ pc' = pc
  BY DEF Drop
<1>2. PICK n \in 0..Len(wire) : wire' = SubSeq(wire, 1, n)
  BY DEF Drop
<1>3. wire \in Seq(Nat) /\ AfterResult(wire) \in Seq(Nat) /\ queue \o held \in Seq(Nat)
  BY Numbers
<1>4. /\ \A i \in 1..Len(wire') : i # 1 => wire'[i] # 0
      /\ wire = <<>> => wire' = <<>>
  <2>1. \A i \in 1..Len(wire) : i # 1 => wire[i] # 0
    BY DEF FramesShape
  <2>2. QED
    BY <1>2, <1>3, <2>1, ShapeCut
<1>5. FramesShape'
  BY <1>1, <1>4 DEF FramesShape
<1>6. CASE request = "accepted"
  <2>1. PICK k \in 0..Len(AfterResult(wire)) :
          AfterResult(SubSeq(wire, 1, n)) = SubSeq(AfterResult(wire), 1, k)
    BY <1>3, ResultCut
  <2> DEFINE a == AfterResult(wire)
             b == queue \o held
  <2>2. /\ a \in Seq(Nat) /\ b \in Seq(Nat) /\ k \in 0..Len(a)
        /\ AfterResult(wire)' = SubSeq(a, 1, k)
        /\ (queue \o held)' = b
    BY <1>1, <1>2, <1>3, <2>1 DEF AfterResult
  <2>3. /\ queue \o held \o AfterResult(wire) = b \o a
        /\ (queue \o held \o AfterResult(wire))' = b \o SubSeq(a, 1, k)
    BY <2>2
  <2> HIDE DEF a, b
  <2>4. b \o SubSeq(a, 1, k) = SubSeq(b \o a, 1, Len(b) + k)
    BY <2>2, CutOfConcat
  <2>5. Len(b) + k \in 0..Len(b \o a)
    <3>1. Len(b \o a) = Len(b) + Len(a) /\ Len(b) \in Nat /\ Len(a) \in Nat
      BY <2>2, ConcatProperties, LenProperties
    <3>2. QED
      BY <2>2, <3>1
  <2>6. \E m \in 0..Len(queue \o held \o AfterResult(wire)) :
           (queue \o held \o AfterResult(wire))'
             = SubSeq(queue \o held \o AfterResult(wire), 1, m)
    BY <2>3, <2>4, <2>5
  <2>7. /\ link = "open" /\ request = "accepted"
        /\ (link = "open" /\ request = "accepted")' = FALSE
    BY <1>1, <1>6
  <2>8. Feed!Break
    BY <1>1, <2>6, <2>7 DEF Feed!Break
  <2>9. QED
    BY <1>5, <2>8 DEF FeedStep, Feed!Next
<1>7. CASE request # "accepted"
  <2>1. wire' = wire
    BY <1>4, <1>7 DEF FramesShape
  <2>2. (Listens' <=> Listens) /\ Pending' = Pending
    BY <1>1, <1>7, <2>1 DEF Listens, Pending, AfterResult
  <2>3. QED
    BY <1>1, <1>5, <2>2, Hidden DEF FeedStep
<1>8. QED
  BY <1>6, <1>7

LEMMA ReadFeeds ==
  ASSUME IInv, FramesShape, Read
  PROVE  FeedStep
<1>1. /\ reader = "running" /\ wire # <<>> /\ wire' = Tail(wire)
      /\ fired' = fired /\ link' = link /\ request' = request /\ taken' = taken
      /\ pc' = pc
  BY DEF Read
<1>2. held = <<>> /\ request = "accepted" /\ link # "none"
      /\ pc \notin {"connecting", "authenticating"}
  BY <1>1 DEF IInv, HandShape, FramesShape
<1>3. wire \in Seq(Nat) /\ queue \in Seq(Nat)
  BY Numbers
<1>4. \A i \in 1..Len(wire) : i # 1 => wire[i] # 0
  BY DEF FramesShape
<1>5. FramesShape'
  <2>1. \A i \in 1..Len(wire') : i # 1 => wire'[i] # 0
    BY <1>1, <1>3, <1>4, ShapeTail
  <2>2. QED
    BY <1>1, <1>2, <2>1 DEF FramesShape
<1>6. /\ Head(wire) = 0 => AfterResult(wire) = Tail(wire)
      /\ Head(wire) # 0 => AfterResult(wire) = wire
      /\ AfterResult(Tail(wire)) = Tail(wire)
  BY <1>1, <1>3, <1>4, ResultRead
<1>7. AfterResult(wire)' = Tail(wire)
  BY <1>1, <1>6 DEF AfterResult
<1>8. Head(wire) \in Nat /\ Tail(wire) \in Seq(Nat) /\ <<Head(wire)>> \in Seq(Nat)
  BY <1>1, <1>3, HeadTailProperties
<1>9. Pending = queue \o AfterResult(wire)
  BY <1>2, <1>3, ConcatEmptySeq DEF Pending
<1>10. Pending' = Pending
  <2>1. CASE ReadResult
    <3>1. Head(wire) = 0 /\ held' = held /\ queue' = queue
      BY <2>1 DEF ReadResult
    <3>2. Pending' = queue \o Tail(wire)
      BY <1>2, <1>3, <1>7, <3>1, ConcatEmptySeq DEF Pending
    <3>3. QED
      BY <1>6, <1>9, <3>1, <3>2
  <2>2. CASE ReadEvent
    <3> DEFINE e == Head(wire)
               t == Tail(wire)
    <3>1. /\ Head(wire) # 0
          /\ Len(queue) < QueueSize => queue' = Append(queue, Head(wire)) /\ held' = held
          /\ ~(Len(queue) < QueueSize) => queue' = queue /\ held' = <<Head(wire)>>
      BY <2>2 DEF ReadEvent
    <3>2. Pending = queue \o wire
      BY <1>6, <1>9, <3>1
    <3>3. e \in Nat /\ t \in Seq(Nat) /\ <<e>> \in Seq(Nat) /\ AfterResult(wire)' = t
      BY <1>7, <1>8
    <3>4. Append(queue, e) \o t = queue \o wire
      <4>1. <<>> \in Seq(Nat)
        BY EmptySeq
      <4>2. Append(queue, e) \o t \o <<>> = queue \o wire \o <<>>
        BY <1>1, <1>3, <4>1, MoveHead
      <4>3. Append(queue, e) \o t \in Seq(Nat) /\ queue \o wire \in Seq(Nat)
        BY <1>3, <3>3, AppendProperties, ConcatProperties
      <4>4. QED
        BY <4>2, <4>3, ConcatEmptySeq
    <3>5. Append(queue, e) = queue \o <<e>>
      BY <1>3, <3>3, AppendIsConcat
    <3> HIDE DEF e, t
    <3>6. CASE Len(queue) < QueueSize
      <4> queue' = Append(queue, e) /\ held' = held
        BY <3>1, <3>6 DEF e
      <4>1. Append(queue, e) \in Seq(Nat)
        BY <1>3, <3>3, AppendProperties
      <4>2. Append(queue, e) \o <<>> = Append(queue, e)
        BY <4>1, ConcatEmptySeq
      <4>3. Pending' = Append(queue, e) \o <<>> \o t
        BY <1>2, <3>3 DEF Pending
      <4>4. QED
        BY <3>2, <3>4, <4>2, <4>3
    <3>7. CASE ~(Len(queue) < QueueSize)
      <4> queue' = queue /\ held' = <<e>>
        BY <3>1, <3>7 DEF e
      <4>1. Pending' = queue \o <<e>> \o t
        BY <3>3 DEF Pending
      <4>2. QED
        BY <3>2, <3>4, <3>5, <4>1
    <3>8. QED
      BY <3>6, <3>7
  <2>3. QED
    BY <2>1, <2>2 DEF Read
<1>11. Listens' <=> Listens
  BY <1>1 DEF Listens
<1>12. QED
  BY <1>1, <1>5, <1>10, <1>11, Hidden DEF FeedStep

LEMMA PutFeeds ==
  ASSUME IInv, FramesShape, PutHeld
  PROVE  FeedStep
<1>1. /\ queue' = queue \o held /\ held' = <<>> /\ fired' = fired /\ link' = link
      /\ request' = request /\ wire' = wire /\ got' = got /\ taken' = taken /\ pc' = pc
  BY DEF PutHeld
<1>2. FramesShape'
  BY <1>1, FramesAlone
<1>3. queue \o held \in Seq(Nat)
  BY Numbers
<1>4. (queue \o held) \o <<>> = queue \o held
  BY <1>3, ConcatEmptySeq
<1>5. (Listens' <=> Listens) /\ Pending' = Pending
  BY <1>1, <1>4 DEF Listens, Pending, AfterResult
<1>6. QED
  BY <1>1, <1>2, <1>5, Hidden DEF FeedStep

(* An event is taken out of the queue. *)
LEMMA TakeFeeds ==
  ASSUME IInv, FramesShape, Take, queue # <<>>, pc \in {"top", "getting"},
         UNCHANGED <<fired, link, request, wire, held, got>>
  PROVE  FeedStep
<1>1. /\ taken' = Append(taken, Head(queue)) /\ queue' = Tail(queue)
      /\ fired' = fired /\ link' = link /\ request' = request /\ wire' = wire
      /\ held' = held /\ got' = got
  BY DEF Take
<1>2. /\ queue \in Seq(Nat) /\ held \in Seq(Nat) /\ AfterResult(wire) \in Seq(Nat)
      /\ queue \o held \in Seq(Nat)
  BY Numbers
<1>3. pc' \notin {"connecting", "authenticating"}
  <2>1. Head(queue) \in 1..Len(fired)
    BY HeadTailProperties DEF IInv, EventsKnown
  <2>2. fired[Head(queue)] \in Kinds
    BY <2>1, ElementOfSeq DEF IInv, TypeOK
  <2>3. pc' \in {"processing", "top", "ended"}
    BY <2>2 DEF Take, Kinds, Ended
  <2>4. QED
    BY <2>3
<1>4. FramesShape'
  BY <1>1, <1>3, FramesAlone
<1> DEFINE a == AfterResult(wire)
           b == queue \o held
<1>5. /\ b # <<>> /\ Head(b) = Head(queue) /\ Tail(b) = Tail(queue) \o held
      /\ a \in Seq(Nat) /\ b \in Seq(Nat)
  BY <1>2, HeadOfConcat
<1>6. (queue \o held \o AfterResult(wire))' = Tail(b) \o a
  BY <1>1, <1>5 DEF AfterResult
<1>7. queue \o held \o AfterResult(wire) = b \o a
  OBVIOUS
<1> HIDE DEF a, b
<1>8. b \o a # <<>> /\ Head(b \o a) = Head(b) /\ Tail(b \o a) = Tail(b) \o a
  BY <1>5, HeadOfConcat
<1>9. (link = "open" /\ request = "accepted")' = (link = "open" /\ request = "accepted")
  BY <1>1
<1>10. Feed!Deliver
  BY <1>1, <1>5, <1>6, <1>7, <1>8, <1>9 DEF Feed!Deliver
<1>11. QED
  BY <1>4, <1>10 DEF FeedStep, Feed!Next

LEMMA TakingFeeds ==
  ASSUME IInv, FramesShape, Taking
  PROVE  FeedStep
<1>1. CASE Turn
  <2>1. pc = "top" /\ UNCHANGED <<fired, link, request, wire, held, got>>
    BY <1>1 DEF Turn
  <2>2. CASE queue # <<>> /\ Take
    BY <2>1, <2>2, TakeFeeds
  <2>3. CASE pc' \in {"pausing", "getting"} /\ UNCHANGED <<taken, queue>>
    BY <2>1, <2>3, AloneFeeds
  <2>4. QED
    BY <1>1, <2>2, <2>3 DEF Turn, Disconnected
<1>2. CASE Get
  <2>1. /\ pc = "getting" /\ queue # <<>> /\ Take
        /\ UNCHANGED <<fired, link, request, wire, held, got>>
    BY <1>2 DEF Get
  <2>2. QED
    BY <2>1, TakeFeeds
<1>3. CASE IdleTimeout
  <2>1. pc' = "top" /\ UNCHANGED <<fired, link, request, wire, held, queue, got, taken>>
    BY <1>3 DEF IdleTimeout
  <2>2. QED
    BY <2>1, AloneFeeds
<1>4. CASE Receive \/ EntriesAnswered
  <2>1. UNCHANGED <<fired, link, request, wire, held, queue, got, taken>>
    BY <1>4 DEF Receive, EntriesAnswered, stream
  <2>2. pc' \in {"connecting", "authenticating"} => link = "none"
    BY <1>4 DEF Receive, EntriesAnswered, Resume, Ended
  <2>3. QED
    BY <2>1, <2>2, AloneFeeds
<1>5. QED
  BY <1>1, <1>2, <1>3, <1>4 DEF Taking

(* A new connection, and the end of one. *)
LEMMA ConnectFeeds ==
  ASSUME IInv, FramesShape, Connect \/ Authenticate
  PROVE  FeedStep
<1>1. /\ fired' = fired /\ wire' = wire /\ held' = held /\ queue' = queue
      /\ got' = got /\ taken' = taken
  BY DEF Connect, Authenticate
<1>2. request = "none" /\ request' \in {"none", "sent"}
      /\ pc' # "connecting" /\ link' # "none"
      /\ (pc' = "authenticating" => request' = "none")
  BY DEF Connect, Authenticate, FramesShape
<1>3. FramesShape'
  BY <1>1, <1>2 DEF FramesShape
<1>4. (Listens' <=> Listens) /\ Pending' = Pending
  BY <1>1, <1>2 DEF Listens, Pending, AfterResult
<1>5. QED
  BY <1>1, <1>3, <1>4, Hidden DEF FeedStep

LEMMA PauseFeeds ==
  ASSUME PauseOver
  PROVE  FeedStep
<1>1. /\ link' = "none" /\ request' = "none" /\ wire' = <<>> /\ held' = <<>>
      /\ queue' = <<>> /\ got' = <<>> /\ taken' = <<>> /\ fired' = fired
  BY DEF PauseOver
<1>2. FramesShape'
  <2>1. Len(wire') = 0
    BY <1>1, EmptySeq
  <2>2. \A i \in 1..Len(wire') : i # 1 => wire'[i] # 0
    BY <2>1
  <2>3. QED
    BY <1>1, <2>2 DEF FramesShape
<1>3. (queue \o held \o AfterResult(wire))' = <<>>
  <2>1. <<>> \o <<>> \o <<>> = <<>>
    <3>1. <<>> \in Seq(Nat)
      BY EmptySeq
    <3>2. <<>> \o <<>> = <<>>
      BY <3>1, ConcatEmptySeq
    <3>3. QED
      BY <3>2
  <2>2. AfterResult(wire)' = <<>>
    BY <1>1 DEF AfterResult
  <2>3. QED
    BY <1>1, <2>1, <2>2
<1>4. (link = "open" /\ request = "accepted")' = FALSE
  BY <1>1
<1>5. Feed!Reset
  BY <1>1, <1>3, <1>4 DEF Feed!Reset
<1>6. QED
  BY <1>2, <1>5 DEF FeedStep, Feed!Next

(* The other steps leave the events of the connection where they are. *)
LEMMA OthersFeed ==
  ASSUME FramesShape,
         \/ ReaderFails \/ ConnectFails \/ AuthenticationFails \/ Subscribed
         \/ SubscriptionFails \/ Cancel \/ UNCHANGED vars
         \/ \E c \in Commands : Commanding(c) \/ Execute(c) \/ CommandDrops(c)
  PROVE  FeedStep
<1>1. CASE ReaderFails
  <2>1. UNCHANGED <<fired, link, request, wire, held, queue, got, taken>> /\ pc' = pc
    BY <1>1 DEF ReaderFails
  <2>2. QED
    BY <2>1, AloneFeeds
<1>2. CASE ConnectFails \/ AuthenticationFails
  <2>1. UNCHANGED <<fired, link, request, wire, held, queue, got, taken>>
        /\ pc' \in {"ended", "pausing"}
    BY <1>2 DEF ConnectFails, AuthenticationFails, Disconnected, Ended, stream
  <2>2. QED
    BY <2>1, AloneFeeds
<1>3. CASE Subscribed \/ SubscriptionFails \/ Cancel
  <2>1. UNCHANGED <<fired, link, request, wire, held, queue, got, taken>>
        /\ pc' \in {"top", "pausing", "ended"}
    BY <1>3 DEF Subscribed, SubscriptionFails, Cancel, Disconnected, Ended
  <2>2. QED
    BY <2>1, AloneFeeds
<1>4. CASE UNCHANGED vars
  <2>1. UNCHANGED <<fired, link, request, wire, held, queue, got, taken>> /\ pc' = pc
    BY <1>4 DEF vars, stream
  <2>2. QED
    BY <2>1, AloneFeeds
<1>5. ASSUME NEW c \in Commands, Commanding(c) \/ Execute(c) \/ CommandDrops(c)
      PROVE  FeedStep
  <2>1. UNCHANGED Others
    BY <1>5 DEF Commanding, CommandConnects, CommandSent, CommandRefused,
                CommandAnswered, CommandLost, CommandTimesOut, Execute, CommandDrops
  <2>2. UNCHANGED <<fired, link, request, wire, held, queue, got, taken>> /\ pc' = pc
    BY <2>1 DEF Others, stream
  <2>3. QED
    BY <2>2, AloneFeeds
<1>6. QED
  BY <1>1, <1>2, <1>3, <1>4, <1>5

LEMMA StepFeeds == IInv /\ FramesShape /\ [Next]_vars => FeedStep
<1> SUFFICES ASSUME IInv, FramesShape, [Next]_vars PROVE FeedStep
  OBVIOUS
<1>1. CASE \E kind \in Kinds : Fire(kind)
  BY <1>1, FireFeeds
<1>2. CASE AcceptSubscription \/ Drop
  BY <1>2, AcceptFeeds, DropFeeds
<1>3. CASE Read \/ PutHeld
  BY <1>3, ReadFeeds, PutFeeds
<1>4. CASE Taking
  BY <1>4, TakingFeeds
<1>5. CASE Connect \/ Authenticate \/ PauseOver
  BY <1>5, ConnectFeeds, PauseFeeds
<1>6. QED
  BY <1>1, <1>2, <1>3, <1>4, <1>5, OthersFeed DEF Next, Reading, Connecting

(* However frames, connections and faults interleave, no event that was     *)
(* fired while subscribed is skipped, doubled or overtaken on its way to    *)
(* receive: the connections of events() implement EventFeed.                *)
THEOREM FeedImplemented == Spec => FeedSpec
<1>1. Init => FramesShape /\ Feed!Init
  <2> SUFFICES ASSUME Init PROVE FramesShape /\ Feed!Init
    OBVIOUS
  <2>1. /\ fired = <<>> /\ link = "none" /\ wire = <<>> /\ held = <<>>
        /\ queue = <<>> /\ taken = <<>>
    BY DEF Init
  <2>2. queue \o held \o AfterResult(wire) = <<>>
    <3>1. <<>> \in Seq(Nat)
      BY EmptySeq
    <3>2. <<>> \o <<>> = <<>>
      BY <3>1, ConcatEmptySeq
    <3>3. AfterResult(wire) = <<>>
      BY <2>1 DEF AfterResult
    <3>4. QED
      BY <2>1, <3>2, <3>3
  <2>3. (link = "open" /\ request = "accepted") = FALSE
    BY <2>1
  <2>4. Feed!Init
    BY <2>1, <2>2, <2>3 DEF Feed!Init
  <2>5. QED
    BY <2>4, FramesInit
<1>2. IInv /\ FramesShape /\ [Next]_vars => FramesShape' /\ [Feed!Next]_(Feed!vars)
  BY StepFeeds DEF FeedStep
<1>3. QED
  BY <1>1, <1>2, Invariance, PTL DEF Spec, FeedSpec, Feed!Spec
===============================================================================
