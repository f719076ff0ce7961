------------------------------ MODULE EventFeed ------------------------------
(***************************************************************************)
(* What the connections to Home Assistant promise about its events, with   *)
(* no frames, no reader, no queue and no hand-over between them.           *)
(*                                                                         *)
(* Events are numbered in the order they are fired.  While a subscription  *)
(* stands, every event joins the feed; events leave it in order, one at a  *)
(* time.  A break of the connection ends the subscription and may take the *)
(* newest events with it.  Only a reset, which starts a new feed, discards *)
(* what is left.                                                           *)
(***************************************************************************)
EXTENDS Naturals, Sequences

CONSTANTS Kinds,     \* what kinds of events there are
          MaxEvents  \* how many are ever fired

VARIABLES fired,      \* the kinds of the events, in order
          subscribed, \* an event that is fired now joins the feed
          pending,    \* the events of the feed that have not been taken
          taken       \* the events that were taken out of this feed

vars == <<fired, subscribed, pending, taken>>

Init ==
  /\ fired = <<>>
  /\ subscribed = FALSE
  /\ pending = <<>>
  /\ taken = <<>>

Fire(kind) ==
  /\ Len(fired) < MaxEvents
  /\ fired' = Append(fired, kind)
  /\ pending' = IF subscribed THEN Append(pending, Len(fired) + 1) ELSE pending
  /\ UNCHANGED <<subscribed, taken>>

(* A feed starts with nothing in it. *)
Subscribe ==
  /\ ~subscribed
  /\ pending = <<>> /\ taken = <<>>
  /\ subscribed' = TRUE
  /\ UNCHANGED <<fired, pending, taken>>

Break ==
  /\ subscribed
  /\ subscribed' = FALSE
  /\ \E n \in 0..Len(pending) : pending' = SubSeq(pending, 1, n)
  /\ UNCHANGED <<fired, taken>>

Deliver ==
  /\ pending # <<>>
  /\ taken' = Append(taken, Head(pending))
  /\ pending' = Tail(pending)
  /\ UNCHANGED <<fired, subscribed>>

Reset ==
  /\ subscribed' = FALSE
  /\ pending' = <<>> /\ taken' = <<>>
  /\ UNCHANGED fired

Next == (\E kind \in Kinds : Fire(kind)) \/ Subscribe \/ Break \/ Deliver \/ Reset

Spec == Init /\ [][Next]_vars
=============================================================================
