--------------------------- MODULE UpdateDelivery ---------------------------
(***************************************************************************)
(* What the Telegram side of the bridge promises about the updates of its  *)
(* bot, with no polling, no batches, no storage and no crashes.            *)
(*                                                                         *)
(* Updates are numbered in the order they arrive.  Each one is handled,    *)
(* or given up, and only then retired (Telegram forgets it).  Updates are  *)
(* handled in order, never before the bridge has been activated, and an    *)
(* update that is handled again (its retirement was delayed) is handled at *)
(* least Window clock units after the previous time.  Backlog may be       *)
(* discarded only before the first activation has been recorded.           *)
(***************************************************************************)
EXTENDS Naturals

CONSTANTS MaxUpdates,  \* how many updates ever arrive
          Window,      \* how long a handled update is remembered
          MaxTime      \* last value of the clock

VARIABLES arrived,     \* updates 1..arrived exist
          retired,     \* updates 1..retired are forgotten
          activated,   \* the first activation is recorded
          handledAt,   \* when each update was last handled, 0 if never
          lost,        \* updates given up or discarded without being handled
          now          \* the clock

vars == <<arrived, retired, activated, handledAt, lost, now>>

Updates == 1..MaxUpdates

Resolved(u) == handledAt[u] # 0 \/ u \in lost

Init ==
  /\ arrived = 0
  /\ retired = 0
  /\ activated = FALSE
  /\ handledAt = [u \in Updates |-> 0]
  /\ lost = {}
  /\ now = 1

Arrive ==
  /\ arrived < MaxUpdates
  /\ arrived' = arrived + 1
  /\ UNCHANGED <<retired, activated, handledAt, lost, now>>

Tick ==
  /\ now < MaxTime
  /\ now' = now + 1
  /\ UNCHANGED <<arrived, retired, activated, handledAt, lost>>

(* The backlog found at the first activation is dropped unread. *)
Discard ==
  /\ ~activated
  /\ retired' = arrived
  /\ lost' = lost \union (retired + 1)..arrived
  /\ UNCHANGED <<arrived, activated, handledAt, now>>

Activate ==
  /\ ~activated
  /\ activated' = TRUE
  /\ UNCHANGED <<arrived, retired, handledAt, lost, now>>

Handle(u) ==
  /\ activated
  /\ u \in (retired + 1)..arrived
  /\ \A v \in 1..(u - 1) : Resolved(v)
  /\ handledAt[u] # 0 => now >= handledAt[u] + Window
  /\ handledAt' = [handledAt EXCEPT ![u] = now]
  /\ UNCHANGED <<arrived, retired, activated, lost, now>>

GiveUp(u) ==
  /\ activated
  /\ u \in (retired + 1)..arrived
  /\ lost' = lost \union {u}
  /\ UNCHANGED <<arrived, retired, activated, handledAt, now>>

Retire(n) ==
  /\ n \in (retired + 1)..arrived
  /\ \A u \in (retired + 1)..n : Resolved(u)
  /\ retired' = n
  /\ UNCHANGED <<arrived, activated, handledAt, lost, now>>

Next ==
  \/ Arrive
  \/ Tick
  \/ Discard
  \/ Activate
  \/ \E u \in Updates : Handle(u) \/ GiveUp(u) \/ Retire(u)

Spec == Init /\ [][Next]_vars
=============================================================================
