----------------------------- MODULE RateLimiter -----------------------------
(***************************************************************************)
(* security/rate_limit.py: the sliding window that limits the commands and *)
(* the forwarded texts of each sender (BridgeService, both directions of   *)
(* the bridge).  The deque of a sender holds the times of its last allowed *)
(* requests; here it is the tail, from index first[s] on, of the list of   *)
(* all of them.                                                            *)
(***************************************************************************)
EXTENDS Naturals, Sequences

CONSTANTS Senders,
          NoSender,    \* the empty sender_id
          MaxCommands, \* max_commands
          Window,      \* window_seconds
          MaxRequests, \* bound: requests of each sender
          MaxTime      \* bound: last value of the clock

ASSUME LimitsAssumption ==
  /\ NoSender \notin Senders
  /\ MaxCommands \in Nat
  /\ Window \in Nat
  /\ MaxRequests \in Nat
  /\ MaxTime \in Nat

VARIABLES
  now,     \* time.monotonic()
  allowed, \* the times of the requests that were allowed, per sender
  first,   \* where the deque _events[sender_id] starts in them
  denied   \* how many requests were denied, per sender

vars == <<now, allowed, first, denied>>

Init ==
  /\ now = 0
  /\ allowed = [s \in Senders |-> <<>>]
  /\ first = [s \in Senders |-> 1]
  /\ denied = [s \in Senders \union {NoSender} |-> 0]

Tick ==
  /\ now < MaxTime
  /\ now' = now + 1
  /\ UNCHANGED <<allowed, first, denied>>

(* Mutants of Expired: the boundary belongs to the next window; nothing is  *)
(* ever popped.                                                             *)
ExpiredAtBoundary(t) == now >= t + Window
ExpiredNever(t) == FALSE

(* now - events[0] > self.window_seconds *)
Expired(t) == now > t + Window

(* popleft has removed the expired head of the deque, and no more: it now   *)
(* starts at k.                                                             *)
PrunedTo(s, k) ==
  /\ k \in first[s]..(Len(allowed[s]) + 1)
  /\ \A i \in first[s]..(k - 1) : Expired(allowed[s][i])
  /\ k <= Len(allowed[s]) => ~Expired(allowed[s][k])

(* len(events) of the deque that starts at k *)
Held(s, k) == Len(allowed[s]) + 1 - k

Prune(s, k) ==
  /\ Len(allowed[s]) + denied[s] < MaxRequests
  /\ PrunedTo(s, k)
  /\ first' = [first EXCEPT ![s] = k]
  /\ UNCHANGED now

Allow(s) ==
  \E k \in 1..(Len(allowed[s]) + 1) :
    /\ Prune(s, k)
    /\ Held(s, k) < MaxCommands
    /\ allowed' = [allowed EXCEPT ![s] = Append(@, now)]
    /\ UNCHANGED denied

Deny(s) ==
  \E k \in 1..(Len(allowed[s]) + 1) :
    /\ Prune(s, k)
    /\ Held(s, k) >= MaxCommands
    /\ denied' = [denied EXCEPT ![s] = @ + 1]
    /\ UNCHANGED allowed

(* if not sender_id: return False *)
DenyUnnamed ==
  /\ denied[NoSender] < MaxRequests
  /\ denied' = [denied EXCEPT ![NoSender] = @ + 1]
  /\ UNCHANGED <<now, allowed, first>>

Next == Tick \/ DenyUnnamed \/ \E s \in Senders : Allow(s) \/ Deny(s)

Spec == Init /\ [][Next]_vars

-----------------------------------------------------------------------------
(* The deque never holds more entries than the limit. *)
TypeOK ==
  /\ now \in Nat
  /\ allowed \in [Senders -> Seq(Nat)]
  /\ first \in [Senders -> Nat \ {0}]
  /\ denied \in [Senders \union {NoSender} -> Nat]
  /\ \A s \in Senders : /\ first[s] <= Len(allowed[s]) + 1
                        /\ Len(allowed[s]) + 1 <= first[s] + MaxCommands

(* No window of time, wherever it starts, contains more than max_commands   *)
(* allowed requests of a sender: the first and the last of max_commands + 1 *)
(* consecutive ones are more than window_seconds apart.                     *)
RateBound ==
  \A s \in Senders : \A i \in 1..Len(allowed[s]) :
    i + MaxCommands <= Len(allowed[s])
      => allowed[s][i + MaxCommands] > allowed[s][i] + Window

(* A request is denied only when the sender really used up its limit within *)
(* the last window: denied requests and other senders do not count.         *)
DeniedWithReason ==
  [][\A s \in Senders : denied'[s] # denied[s] =>
       /\ MaxCommands <= Len(allowed[s])
       /\ \A i \in 1..Len(allowed[s]) :
            i + MaxCommands > Len(allowed[s]) => now <= allowed[s][i] + Window]_vars
=============================================================================
