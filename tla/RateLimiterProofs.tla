-------------------------- MODULE RateLimiterProofs --------------------------
(***************************************************************************)
(* Proofs about RateLimiter for any limit, window and set of senders.      *)
(***************************************************************************)
EXTENDS RateLimiter, TLAPS

(* Requests are listed in the order of the monotonic clock. *)
Chronological ==
  \A s \in Senders : \A i \in 1..Len(allowed[s]) :
    /\ allowed[s][i] <= now
    /\ \A j \in 1..Len(allowed[s]) : i <= j => allowed[s][i] <= allowed[s][j]

(* What is before the deque has expired. *)
PoppedExpired ==
  \A s \in Senders : \A i \in 1..Len(allowed[s]) : i < first[s] => Expired(allowed[s][i])

IInv == TypeOK /\ Chronological /\ PoppedExpired /\ RateBound

-----------------------------------------------------------------------------
(* Before the first request. *)
LEMMA InitInv == Init => IInv
<1> SUFFICES ASSUME Init PROVE IInv
  OBVIOUS
<1>1. \A s \in Senders : allowed[s] = <<>> /\ Len(allowed[s]) = 0 /\ allowed[s] \in Seq(Nat)
  <2>1. \A s \in Senders : allowed[s] = <<>>
    BY DEF Init
  <2>2. <<>> \in Seq(Nat) /\ Len(<<>>) = 0
    OBVIOUS
  <2>3. QED
    BY <2>1, <2>2
<1>2. TypeOK
  BY <1>1, LimitsAssumption DEF Init, TypeOK
<1>3. Chronological /\ PoppedExpired /\ RateBound
  BY <1>1 DEF Chronological, PoppedExpired, RateBound
<1>4. QED
  BY <1>2, <1>3 DEF IInv

(* What the deque of a pruned sender says about all its requests. *)
LEMMA PrunedDeque ==
  ASSUME IInv, NEW s \in Senders, NEW k \in 1..(Len(allowed[s]) + 1), Prune(s, k)
  PROVE  /\ first[s] <= k /\ k \in Nat \ {0} /\ Len(allowed[s]) + 1 <= k + MaxCommands
         /\ \A i \in 1..Len(allowed[s]) : i < k => Expired(allowed[s][i])
         /\ \A i \in 1..Len(allowed[s]) : k <= i => ~Expired(allowed[s][i])
<1>1. /\ Len(allowed[s]) \in Nat /\ first[s] \in Nat /\ k \in Nat \ {0} /\ now \in Nat
      /\ allowed[s] \in Seq(Nat)
  BY DEF IInv, TypeOK
<1>2. first[s] <= k /\ Len(allowed[s]) + 1 <= k + MaxCommands
  BY <1>1, LimitsAssumption DEF Prune, PrunedTo, IInv, TypeOK
<1>3. ASSUME NEW i \in 1..Len(allowed[s]), i < k PROVE Expired(allowed[s][i])
  <2>1. CASE i < first[s]
    BY <2>1 DEF IInv, PoppedExpired
  <2>2. CASE i >= first[s]
    BY <1>1, <1>3, <2>2 DEF Prune, PrunedTo
  <2>3. QED
    BY <1>1, <2>1, <2>2
<1>4. ASSUME NEW i \in 1..Len(allowed[s]), k <= i PROVE ~Expired(allowed[s][i])
  <2>1. k \in 1..Len(allowed[s])
    BY <1>1, <1>4
  <2>2. ~Expired(allowed[s][k])
    BY <1>1, <2>1 DEF Prune, PrunedTo
  <2>3. allowed[s][k] <= allowed[s][i]
    BY <1>4, <2>1 DEF IInv, Chronological
  <2>4. allowed[s][k] \in Nat /\ allowed[s][i] \in Nat
    BY <1>1, <2>1
  <2>5. QED
    <3>1. now <= allowed[s][k] + Window /\ Window \in Nat
      BY <1>1, <2>2, <2>4, LimitsAssumption DEF Expired
    <3>2. \A a, b, c, d \in Nat : a <= b + d /\ b <= c => ~ (a > c + d)
      OBVIOUS
    <3>3. now \in Nat
      BY <1>1
    <3>4. QED
      BY <2>3, <2>4, <3>1, <3>2, <3>3 DEF Expired
<1>5. QED
  BY <1>1, <1>2, <1>3, <1>4

(* Time passes: what has expired stays so. *)
LEMMA TickInv == ASSUME IInv, Tick PROVE IInv'
<1>1. now \in Nat /\ now' = now + 1 /\ UNCHANGED <<allowed, first, denied>>
  BY DEF IInv, TypeOK, Tick
<1>2. TypeOK' /\ RateBound'
  BY <1>1 DEF IInv, TypeOK, RateBound
<1>3. \A s \in Senders : \A i \in 1..Len(allowed[s]) : allowed[s][i] \in Nat
  BY DEF IInv, TypeOK
<1>4. Chronological'
  BY <1>1, <1>3 DEF IInv, Chronological
<1>5. PoppedExpired'
  BY <1>1, <1>3, LimitsAssumption DEF IInv, PoppedExpired, Expired
<1>6. QED
  BY <1>2, <1>4, <1>5 DEF IInv

(* An allowed request joins the deque; max_commands before it, one has left. *)
LEMMA AllowInv == ASSUME IInv, NEW s \in Senders, Allow(s) PROVE IInv'
<1> DEFINE n == Len(allowed[s])
<1>1. PICK k \in 1..(n + 1) :
        /\ Prune(s, k)
        /\ Held(s, k) < MaxCommands
        /\ allowed' = [allowed EXCEPT ![s] = Append(@, now)]
        /\ UNCHANGED denied
  BY DEF Allow
<1>2. /\ first[s] <= k /\ k \in Nat \ {0} /\ k <= n + 1
      /\ \A i \in 1..n : i < k => Expired(allowed[s][i])
  BY <1>1, PrunedDeque DEF IInv, TypeOK
<1>3. first' = [first EXCEPT ![s] = k] /\ now' = now
  BY <1>1 DEF Prune
<1>4. n \in Nat /\ now \in Nat /\ allowed[s] \in Seq(Nat) /\ MaxCommands \in Nat /\ Window \in Nat
  BY LimitsAssumption DEF IInv, TypeOK
<1>5. /\ allowed'[s] \in Seq(Nat)
      /\ Len(allowed'[s]) = n + 1
      /\ allowed'[s][n + 1] = now
      /\ \A i \in 1..n : allowed'[s][i] = allowed[s][i]
  BY <1>1, <1>4 DEF IInv, TypeOK
<1>6. \A r \in Senders \ {s} : allowed'[r] = allowed[r] /\ first'[r] = first[r]
  BY <1>1, <1>3 DEF IInv, TypeOK
<1>7. first'[s] = k
  BY <1>3 DEF IInv, TypeOK
<1>8. n + 1 < k + MaxCommands
  BY <1>1, <1>4 DEF Held
<1>9. TypeOK'
  <2>1. allowed' \in [Senders -> Seq(Nat)]
    BY <1>1, <1>4 DEF IInv, TypeOK
  <2>2. first' \in [Senders -> Nat \ {0}]
    BY <1>2, <1>3 DEF IInv, TypeOK
  <2>3. first'[s] <= Len(allowed'[s]) + 1 /\ Len(allowed'[s]) + 1 <= first'[s] + MaxCommands
    BY <1>2, <1>4, <1>5, <1>7, <1>8
  <2>4. \A r \in Senders : /\ first'[r] <= Len(allowed'[r]) + 1
                           /\ Len(allowed'[r]) + 1 <= first'[r] + MaxCommands
    BY <2>3, <1>6 DEF IInv, TypeOK
  <2>5. QED
    BY <1>1, <1>3, <2>1, <2>2, <2>4 DEF IInv, TypeOK
<1>10. \A i \in 1..(n + 1) : i \in 1..n \/ i = n + 1
  BY <1>4
<1>11. Chronological'
  <2>1. ASSUME NEW i \in 1..(n + 1)
        PROVE  /\ allowed'[s][i] <= now
               /\ \A j \in 1..(n + 1) : i <= j => allowed'[s][i] <= allowed'[s][j]
    <3>1. \A m \in 1..n : allowed[s][m] <= now
      BY DEF IInv, Chronological
    <3>2. CASE i \in 1..n
      BY <1>4, <1>5, <1>10, <3>1, <3>2 DEF IInv, Chronological
    <3>3. CASE i = n + 1
      BY <1>4, <1>5, <3>3
    <3>4. QED
      BY <1>10, <3>2, <3>3
  <2>2. QED
    BY <1>3, <1>5, <1>6, <2>1 DEF IInv, Chronological
<1>12. PoppedExpired'
  <2>1. ASSUME NEW i \in 1..(n + 1), i < k PROVE Expired(allowed'[s][i])
    <3>1. i \in 1..n
      BY <1>2, <1>4, <2>1
    <3>2. QED
      BY <1>2, <1>5, <2>1, <3>1
  <2>2. QED
    BY <1>3, <1>5, <1>6, <1>7, <2>1 DEF IInv, PoppedExpired, Expired
<1>13. RateBound'
  <2>1. ASSUME NEW i \in 1..(n + 1), i + MaxCommands <= n + 1
        PROVE  allowed'[s][i + MaxCommands] > allowed'[s][i] + Window
    <3>1. CASE i + MaxCommands = n + 1
      <4>1. i < k
        BY <1>4, <1>2, <1>8, <3>1
      <4>2. i \in 1..n
        BY <1>2, <1>4, <4>1
      <4>3. Expired(allowed[s][i])
        BY <1>2, <4>1, <4>2
      <4>4. QED
        BY <1>5, <3>1, <4>2, <4>3 DEF Expired
    <3>2. CASE i + MaxCommands <= n
      <4>1. i \in 1..n /\ i + MaxCommands \in 1..n
        BY <1>4, <3>2
      <4>2. QED
        BY <1>5, <3>2, <4>1 DEF IInv, RateBound
    <3>3. QED
      BY <1>4, <2>1, <3>1, <3>2
  <2>2. QED
    BY <1>5, <1>6, <2>1 DEF IInv, RateBound
<1>14. QED
  BY <1>9, <1>11, <1>12, <1>13 DEF IInv

(* A denied request leaves the pruned deque, and no trace in it. *)
LEMMA DenyInv == ASSUME IInv, NEW s \in Senders, Deny(s) PROVE IInv'
<1>1. PICK k \in 1..(Len(allowed[s]) + 1) :
        /\ Prune(s, k)
        /\ denied' = [denied EXCEPT ![s] = @ + 1]
        /\ UNCHANGED allowed
  BY DEF Deny
<1>2. /\ k \in Nat \ {0} /\ Len(allowed[s]) + 1 <= k + MaxCommands
      /\ \A i \in 1..Len(allowed[s]) : i < k => Expired(allowed[s][i])
  BY <1>1, PrunedDeque
<1>3. first' = [first EXCEPT ![s] = k] /\ now' = now
  BY <1>1 DEF Prune
<1>4. k <= Len(allowed[s]) + 1
  BY DEF IInv, TypeOK
<1>5. TypeOK'
  <2>1. first' \in [Senders -> Nat \ {0}] /\ denied' \in [Senders \union {NoSender} -> Nat]
    BY <1>1, <1>2, <1>3 DEF IInv, TypeOK
  <2>2. \A r \in Senders : /\ first'[r] <= Len(allowed[r]) + 1
                           /\ Len(allowed[r]) + 1 <= first'[r] + MaxCommands
    BY <1>2, <1>3, <1>4 DEF IInv, TypeOK
  <2>3. QED
    BY <1>1, <1>3, <2>1, <2>2 DEF IInv, TypeOK
<1>6. Chronological' /\ RateBound'
  BY <1>1, <1>3 DEF IInv, Chronological, RateBound
<1>7. PoppedExpired'
  BY <1>1, <1>2, <1>3 DEF IInv, TypeOK, PoppedExpired, Expired
<1>8. QED
  BY <1>5, <1>6, <1>7 DEF IInv

(* Every step of the limiter preserves the inductive invariant. *)
LEMMA StepInv == IInv /\ [Next]_vars => IInv'
<1> SUFFICES ASSUME IInv, [Next]_vars PROVE IInv'
  OBVIOUS
<1>1. CASE UNCHANGED vars
  BY <1>1 DEF vars, IInv, TypeOK, Chronological, PoppedExpired, RateBound, Expired
<1>2. CASE DenyUnnamed
  BY <1>2 DEF DenyUnnamed, IInv, TypeOK, Chronological, PoppedExpired, RateBound, Expired
<1>3. QED
  BY <1>1, <1>2, TickInv, AllowInv, DenyInv DEF Next

-----------------------------------------------------------------------------
(* The inductive invariant holds in every reachable state. *)
THEOREM Invariance == Spec => []IInv
  BY InitInv, StepInv, PTL DEF Spec

(* The deque of a sender never outgrows the limit. *)
THEOREM TypeCorrect == Spec => []TypeOK
<1>1. IInv => TypeOK
  BY DEF IInv
<1>2. QED
  BY <1>1, Invariance, PTL

(* No sender is allowed more than max_commands requests in any window. *)
THEOREM RateBounded == Spec => []RateBound
<1>1. IInv => RateBound
  BY DEF IInv
<1>2. QED
  BY <1>1, Invariance, PTL

(* A sender is denied only after max_commands allowed requests of its own,  *)
(* all of them within the last window.                                      *)
THEOREM DenialsJustified == Spec => DeniedWithReason
<1>1. IInv /\ [Next]_vars
        => [\A s \in Senders : denied'[s] # denied[s] =>
              /\ MaxCommands <= Len(allowed[s])
              /\ \A i \in 1..Len(allowed[s]) :
                   i + MaxCommands > Len(allowed[s]) => now <= allowed[s][i] + Window]_vars
  <2> SUFFICES ASSUME IInv, Next, NEW s \in Senders, denied'[s] # denied[s]
               PROVE  /\ MaxCommands <= Len(allowed[s])
                      /\ \A i \in 1..Len(allowed[s]) :
                           i + MaxCommands > Len(allowed[s])
                             => now <= allowed[s][i] + Window
    OBVIOUS
  <2>1. Deny(s)
    <3>1. denied \in [Senders \union {NoSender} -> Nat] /\ s # NoSender
      BY LimitsAssumption DEF IInv, TypeOK
    <3>2. ~ Tick /\ \A r \in Senders : ~ Allow(r)
      BY DEF Tick, Allow
    <3>3. ~ DenyUnnamed
      BY <3>1 DEF DenyUnnamed
    <3>4. \A r \in Senders : Deny(r) => r = s
      BY <3>1 DEF Deny
    <3>5. QED
      BY <3>2, <3>3, <3>4 DEF Next
  <2>2. PICK k \in 1..(Len(allowed[s]) + 1) : Prune(s, k) /\ Held(s, k) >= MaxCommands
    BY <2>1 DEF Deny
  <2>3. /\ k \in Nat \ {0} /\ Len(allowed[s]) + 1 <= k + MaxCommands
        /\ \A i \in 1..Len(allowed[s]) : k <= i => ~Expired(allowed[s][i])
    BY <2>2, PrunedDeque
  <2>4. /\ Len(allowed[s]) \in Nat /\ MaxCommands \in Nat /\ Window \in Nat /\ now \in Nat
        /\ \A i \in 1..Len(allowed[s]) : allowed[s][i] \in Nat
    BY LimitsAssumption DEF IInv, TypeOK
  <2>5. Len(allowed[s]) + 1 >= k + MaxCommands
    BY <2>2, <2>3, <2>4 DEF Held
  <2>6. \A i \in 1..Len(allowed[s]) : i + MaxCommands > Len(allowed[s]) => k <= i
    BY <2>3, <2>4, <2>5
  <2>7. QED
    <3>1. MaxCommands <= Len(allowed[s])
      <4>1. /\ Len(allowed[s]) \in Nat /\ MaxCommands \in Nat /\ k \in Nat
            /\ Len(allowed[s]) + 1 >= k + MaxCommands /\ k # 0
        BY <2>3, <2>4, <2>5
      <4>2. \A a, b, c \in Nat : a + 1 >= c + b /\ c # 0 => b <= a
        OBVIOUS
      <4>3. QED
        BY <4>1, <4>2
    <3>2. ASSUME NEW i \in 1..Len(allowed[s]), i + MaxCommands > Len(allowed[s])
          PROVE  now <= allowed[s][i] + Window
      <4>1. k <= i
        BY <2>6, <3>2
      <4>2. ~ (now > allowed[s][i] + Window)
        BY <2>3, <4>1 DEF Expired
      <4>3. allowed[s][i] \in Nat
        BY <2>4
      <4>4. QED
        BY <2>4, <4>2, <4>3
    <3>3. QED
      BY <3>1, <3>2
<1>2. QED
  BY <1>1, Invariance, PTL DEF Spec, DeniedWithReason
=============================================================================
