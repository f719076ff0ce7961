------------------------ MODULE WriteTransactionProofs ------------------------
(***************************************************************************)
(* Proofs about WriteTransaction for any set of writers, any number of     *)
(* retries, calls and faults, failed rollbacks among them.                 *)
(***************************************************************************)
EXTENDS WriteTransaction, TLAPS

InTransaction == {"before", "inner", "after", "commit"}
InAttempt == {"begin"} \union InTransaction
InCall == {"backoff", "return"} \union InAttempt
Results == {"returned", "raised", "killed"}

(* What the open transaction of a writer holds, by where the writer is. *)
StagedInv(w) ==
  /\ pc[w] = "before" => staged[w] = {}
  /\ pc[w] = "inner" => staged[w] = {"before"} /\ saved[w] = {"before"}
  /\ pc[w] = "after" => staged[w] \in {{"before"}, {"before"} \union Inner}
  /\ pc[w] = "commit" => staged[w] \in {Rows, {"before", "after"}}

(* A writer in a call that is not spoiled has a transaction when it should, *)
(* and it is its own.                                                       *)
SoundInv(w) ==
  <<w, call[w]>> \notin spoiled =>
    /\ w \in holder <=> pc[w] \in InTransaction
    /\ pc[w] # "idle" => w \notin nested
    /\ StagedInv(w)

(* A nested call is spoiled, and a transaction that is gone holds nothing. *)
SpoiltInv(w) ==
  /\ pc[w] \in {"before", "inner"} => w \in holder
  /\ pc[w] \in {"after", "commit"} /\ w \notin holder => staged[w] = {}

(* The call writer w is in has no row before its commit, whether spoiled or *)
(* not, but for the row stored without a transaction.                       *)
NoRowYet(w) ==
  \/ pc[w] \in {"begin", "backoff", "before", "inner", "after"}
  \/ pc[w] = "commit" /\ w \in holder

(* A call not begun has no trace; one that has not ended has no outcome;    *)
(* and AtomicCalls.                                                         *)
CallInv(w, c) ==
  /\ c > call[w] =>
       RowsOf(w, c) = {} /\ outcome[w][c] = "open" /\ <<w, c>> \notin spoiled
  /\ c = call[w] /\ pc[w] # "idle" => outcome[w][c] = "open"
  /\ c = call[w] /\ NoRowYet(w) => RowsOf(w, c) = {}
  /\ <<w, c>> \notin spoiled =>
       /\ RowsOf(w, c) \in {{}, Rows, {"before", "after"}}
       /\ outcome[w][c] = "raised" => RowsOf(w, c) = {}
       /\ outcome[w][c] = "returned" => RowsOf(w, c) # {}
       /\ c = call[w] /\ pc[w] = "return" => RowsOf(w, c) # {}

WriterInv(w) == SoundInv(w) /\ SpoiltInv(w) /\ \A c \in Calls : CallInv(w, c)

IInv == TypeOK /\ \A w \in Writers : WriterInv(w)

-----------------------------------------------------------------------------
(* Before the first call. *)
LEMMA InitInv == Init => IInv
<1> SUFFICES ASSUME Init PROVE IInv
  OBVIOUS
<1>1. TypeOK
  <2>1. foreign \in BOOLEAN
    BY Zenon DEF Init
  <2>2. faults \in 0..MaxFaults
    BY WritersAssumption DEF Init
  <2>3. QED
    BY <2>1, <2>2, WritersAssumption DEF Init, TypeOK
<1>2. ASSUME NEW w \in Writers PROVE WriterInv(w)
  <2>1. \A c \in Calls : RowsOf(w, c) = {} /\ outcome[w][c] = "open"
    BY DEF Init, RowsOf
  <2>2. pc[w] = "idle" /\ holder = {} /\ spoiled = {}
    BY DEF Init
  <2>3. SoundInv(w) /\ SpoiltInv(w)
    BY <2>2 DEF SoundInv, SpoiltInv, StagedInv, InTransaction
  <2>4. \A c \in Calls : CallInv(w, c)
    BY <2>1, <2>2 DEF CallInv
  <2>5. QED
    BY <2>3, <2>4 DEF WriterInv
<1>3. QED
  BY <1>1, <1>2 DEF IInv

(* The call a writer is in has a number. *)
LEMMA CurrentCall ==
  ASSUME TypeOK, NEW w \in Writers, pc[w] # "idle"
  PROVE  call[w] \in Calls
  BY WritersAssumption DEF TypeOK, Calls

(* A step of one writer leaves the others as they were. *)
Others(w) ==
  \A v \in Writers \ {w} :
    /\ pc'[v] = pc[v] /\ call'[v] = call[v]
    /\ staged'[v] = staged[v] /\ saved'[v] = saved[v]
    /\ outcome'[v] = outcome[v]
    /\ v \in holder' <=> v \in holder
    /\ v \in nested' <=> v \in nested
    /\ \A c \in Nat : <<v, c>> \in spoiled' <=> <<v, c>> \in spoiled
    /\ \A c \in Calls : RowsOf(v, c)' = RowsOf(v, c)

(* Then only its own part of the invariant is at stake. *)
LEMMA OneAtATime ==
  ASSUME IInv, NEW w \in Writers, TypeOK', Others(w), WriterInv(w)'
  PROVE  IInv'
<1>1. ASSUME NEW v \in Writers \ {w} PROVE WriterInv(v)'
  <2>1. WriterInv(v) /\ call[v] \in Nat
    BY DEF IInv, TypeOK
  <2>2. SoundInv(v)' /\ SpoiltInv(v)'
    BY <2>1 DEF Others, WriterInv, SoundInv, SpoiltInv, StagedInv
  <2>3. ASSUME NEW c \in Calls PROVE CallInv(v, c)'
    <3>1. c \in Nat
      BY DEF Calls
    <3>2. QED
      BY <2>1, <3>1 DEF Others, WriterInv, CallInv, NoRowYet
  <2>4. QED
    BY <2>2, <2>3 DEF WriterInv
<1>2. QED
  BY <1>1 DEF IInv

(* While nothing is committed, every call keeps its rows. *)
LEMMA SameRows ==
  ASSUME UNCHANGED stored
  PROVE  \A w \in Writers, c \in Calls : RowsOf(w, c)' = RowsOf(w, c)
  BY DEF RowsOf

(* What a step of writer w in its call may do to the rest of the state. *)
OwnStep(w) ==
  /\ \A v \in Writers \ {w} : v \in holder' <=> v \in holder
  /\ holder' \subseteq Writers
  /\ \E rows \in SUBSET Rows :
       /\ staged' \in {staged, [staged EXCEPT ![w] = rows]}
       /\ saved' \in {saved, [saved EXCEPT ![w] = rows]}
  /\ spoiled' \in {spoiled, spoiled \union {<<w, call[w]>>}}
  /\ attempt' \in [Writers -> 0..Retries]
  /\ faults' \in 0..MaxFaults
  /\ UNCHANGED <<call, nested, foreign>>

LEMMA OwnStepTypes ==
  ASSUME TypeOK, NEW w \in Writers, pc[w] # "idle", OwnStep(w)
  PROVE  /\ staged' \in [Writers -> SUBSET Rows]
         /\ saved' \in [Writers -> SUBSET Rows]
         /\ spoiled' \subseteq Writers \X Calls
         /\ \A v \in Writers \ {w} :
              /\ staged'[v] = staged[v] /\ saved'[v] = saved[v]
              /\ \A c \in Nat : <<v, c>> \in spoiled' <=> <<v, c>> \in spoiled
         /\ \A c \in Nat : c # call[w] => (<<w, c>> \in spoiled' <=> <<w, c>> \in spoiled)
         /\ \A c \in Nat : <<w, c>> \in spoiled => <<w, c>> \in spoiled'
<1>1. call[w] \in Calls
  BY CurrentCall
<1>2. PICK rows \in SUBSET Rows :
        /\ staged' \in {staged, [staged EXCEPT ![w] = rows]}
        /\ saved' \in {saved, [saved EXCEPT ![w] = rows]}
  BY DEF OwnStep
<1>3. /\ staged' \in [Writers -> SUBSET Rows]
      /\ saved' \in [Writers -> SUBSET Rows]
      /\ \A v \in Writers \ {w} : staged'[v] = staged[v] /\ saved'[v] = saved[v]
  BY <1>2 DEF TypeOK
<1>4. spoiled' \in {spoiled, spoiled \union {<<w, call[w]>>}}
  BY DEF OwnStep
<1>5. spoiled' \subseteq Writers \X Calls
  BY <1>1, <1>4 DEF TypeOK
<1>6. QED
  BY <1>3, <1>4, <1>5

(* A step inside a call: no row is stored, and the call goes on. *)
LEMMA MoveInv ==
  ASSUME IInv, NEW w \in Writers, NEW label \in InCall,
         pc[w] # "idle", pc' = [pc EXCEPT ![w] = label],
         OwnStep(w), UNCHANGED <<stored, outcome>>,
         SoundInv(w)', SpoiltInv(w)', NoRowYet(w)' => NoRowYet(w),
         label = "return" => <<w, call[w]>> \in spoiled
  PROVE  IInv'
<1>1. TypeOK /\ WriterInv(w) /\ call[w] \in Calls /\ call[w] \in Nat
  BY CurrentCall DEF IInv, Calls
<1>2. call' = call /\ nested' = nested /\ foreign' = foreign /\ faults' \in 0..MaxFaults
      /\ attempt' \in [Writers -> 0..Retries] /\ holder' \subseteq Writers
  BY DEF OwnStep
<1>3. pc' \in [Writers -> {"idle", "begin", "backoff", "before", "inner", "after",
                           "commit", "return"}]
      /\ pc'[w] = label /\ \A v \in Writers \ {w} : pc'[v] = pc[v]
  BY <1>1 DEF TypeOK, InCall, InAttempt, InTransaction
<1>4. TypeOK'
  <2>1. \A v \in Writers : pc'[v] # "idle" => call'[v] > 0
    BY <1>1, <1>2, <1>3 DEF TypeOK, Calls
  <2>2. QED
    BY <1>1, <1>2, <1>3, <2>1, OwnStepTypes DEF TypeOK
<1>5. \A v \in Writers, c \in Calls : RowsOf(v, c)' = RowsOf(v, c)
  BY SameRows
<1>6. Others(w)
  BY <1>1, <1>2, <1>3, <1>5, OwnStepTypes DEF Others, OwnStep
<1>7. ASSUME NEW c \in Calls PROVE CallInv(w, c)'
  <2>1. /\ c \in Nat /\ RowsOf(w, c)' = RowsOf(w, c) /\ outcome'[w][c] = outcome[w][c]
        /\ CallInv(w, c)
    BY <1>1, <1>5 DEF Calls, WriterInv
  <2>2. /\ c > call[w] => (<<w, c>> \in spoiled' <=> <<w, c>> \in spoiled)
        /\ <<w, c>> \in spoiled => <<w, c>> \in spoiled'
    BY <1>1, <2>1, OwnStepTypes
  <2>3. QED
    BY <1>2, <1>3, <2>1, <2>2 DEF CallInv
<1>8. QED
  BY <1>4, <1>6, <1>7, OneAtATime DEF WriterInv

(* A call ends. *)
LEMMA EndInv ==
  ASSUME IInv, NEW w \in Writers, NEW result \in Results,
         pc[w] # "idle", Ends(w, result), OwnStep(w), UNCHANGED stored,
         <<w, call[w]>> \notin spoiled' => w \notin holder',
         \A c \in Calls : c = call[w] /\ <<w, c>> \notin spoiled' =>
            /\ result = "raised" => RowsOf(w, c) = {}
            /\ result = "returned" => RowsOf(w, c) # {}
  PROVE  IInv'
<1>1. TypeOK /\ WriterInv(w) /\ call[w] \in Calls /\ call[w] \in Nat
  BY CurrentCall DEF IInv, Calls
<1>2. call' = call /\ nested' = nested /\ foreign' = foreign /\ faults' \in 0..MaxFaults
      /\ attempt' \in [Writers -> 0..Retries] /\ holder' \subseteq Writers
  BY DEF OwnStep
<1>3. pc' = [pc EXCEPT ![w] = "idle"] /\ outcome' = [outcome EXCEPT ![w][call[w]] = result]
  BY DEF Ends, Goto
<1>4. /\ pc' \in [Writers -> {"idle", "begin", "backoff", "before", "inner", "after",
                              "commit", "return"}]
      /\ pc'[w] = "idle" /\ \A v \in Writers \ {w} : pc'[v] = pc[v]
  BY <1>1, <1>3 DEF TypeOK
<1>5. /\ outcome' \in [Writers -> [Calls -> {"open", "returned", "raised", "killed"}]]
      /\ outcome'[w][call[w]] = result
      /\ \A c \in Calls \ {call[w]} : outcome'[w][c] = outcome[w][c]
      /\ \A v \in Writers \ {w} : outcome'[v] = outcome[v]
  BY <1>1, <1>3 DEF TypeOK, Results
<1>6. TypeOK'
  <2>1. \A v \in Writers : pc'[v] # "idle" => call'[v] > 0
    BY <1>1, <1>2, <1>4 DEF TypeOK
  <2>2. QED
    BY <1>1, <1>2, <1>4, <1>5, <2>1, OwnStepTypes DEF TypeOK
<1>7. \A v \in Writers, c \in Calls : RowsOf(v, c)' = RowsOf(v, c)
  BY SameRows
<1>8. Others(w)
  BY <1>1, <1>2, <1>4, <1>5, <1>7, OwnStepTypes DEF Others, OwnStep
<1>9. ASSUME NEW c \in Calls PROVE CallInv(w, c)'
  <2>1. c \in Nat /\ RowsOf(w, c)' = RowsOf(w, c) /\ CallInv(w, c)
    BY <1>1, <1>7 DEF Calls, WriterInv
  <2>2. /\ c # call[w] => (<<w, c>> \in spoiled' <=> <<w, c>> \in spoiled)
        /\ <<w, c>> \in spoiled => <<w, c>> \in spoiled'
    BY <1>1, <2>1, OwnStepTypes
  <2>3. CASE c = call[w]
    <3>1. pc'[w] = "idle" /\ ~NoRowYet(w)' /\ call'[w] = call[w] /\ ~(c > call[w])
      BY <1>1, <1>2, <1>4, <2>3 DEF NoRowYet
    <3>2. outcome'[w][c] = result
      BY <1>5, <2>3
    <3>3. <<w, c>> \notin spoiled' =>
            /\ <<w, c>> \notin spoiled
            /\ result = "raised" => RowsOf(w, c) = {}
            /\ result = "returned" => RowsOf(w, c) # {}
      BY <2>2, <2>3
    <3>4. QED
      BY <2>1, <2>3, <3>1, <3>2, <3>3 DEF CallInv
  <2>4. CASE c # call[w]
    BY <1>2, <1>4, <1>5, <2>1, <2>2, <2>4 DEF CallInv, NoRowYet
  <2>5. QED
    BY <2>3, <2>4
<1>10. SoundInv(w)' /\ SpoiltInv(w)'
  BY <1>2, <1>4 DEF SoundInv, SpoiltInv, StagedInv, InTransaction
<1>11. QED
  BY <1>6, <1>8, <1>9, <1>10, OneAtATime DEF WriterInv

-----------------------------------------------------------------------------
(* The end of an attempt *)

LEMMA FaultType ==
  ASSUME TypeOK, NEW n \in Nat, Fault(n)
  PROVE  faults' \in 0..MaxFaults
  BY WritersAssumption DEF TypeOK, Fault

(* The row of a call that is not spoiled appears with its commit. *)
LEMMA SoundIsUnwritten ==
  ASSUME IInv, NEW w \in Writers, pc[w] \in InAttempt, <<w, call[w]>> \notin spoiled
  PROVE  NoRowYet(w)
  BY DEF IInv, WriterInv, SoundInv, NoRowYet, InAttempt, InTransaction

(* Whether the rollback succeeds or not, a call that is not spoiled by it   *)
(* has no transaction any more.                                             *)
LEMMA RollbackSteps ==
  ASSUME IInv, NEW w \in Writers, NEW n \in Nat, RollbackQuietly(w, n)
  PROVE  /\ \A v \in Writers \ {w} : v \in holder' <=> v \in holder
         /\ holder' \subseteq Writers
         /\ staged' \in {staged, [staged EXCEPT ![w] = {}]}
         /\ spoiled' \in {spoiled, spoiled \union {<<w, call[w]>>}}
         /\ faults' \in 0..MaxFaults
         /\ <<w, call[w]>> \notin spoiled' => w \notin holder'
<1>1. TypeOK
  BY DEF IInv
<1>2. CASE Rollback(w) /\ Fault(n) /\ UNCHANGED spoiled
  BY <1>1, <1>2, FaultType DEF Rollback, TypeOK
<1>3. CASE w \in holder /\ Fault(n + 1) /\ Spoil(w) /\ UNCHANGED <<holder, staged>>
  <2>1. faults' \in 0..MaxFaults
    BY <1>1, <1>3, FaultType
  <2>2. QED
    BY <1>1, <1>3, <2>1 DEF Spoil, TypeOK
<1>4. QED
  BY <1>2, <1>3 DEF RollbackQuietly

LEMMA RetryTypes ==
  ASSUME TypeOK, NEW w \in Writers, RetryOrRaise(w)
  PROVE  /\ attempt' \in [Writers -> 0..Retries]
         /\ \/ pc' = [pc EXCEPT ![w] = "backoff"] /\ UNCHANGED outcome
            \/ Ends(w, "raised")
<1>1. CASE /\ attempt[w] < Retries
           /\ attempt' = [attempt EXCEPT ![w] = @ + 1]
           /\ Goto(w, "backoff")
           /\ UNCHANGED outcome
  <2>1. attempt[w] + 1 \in 0..Retries
    BY <1>1, WritersAssumption DEF TypeOK
  <2>2. attempt' \in [Writers -> 0..Retries]
    BY <1>1, <2>1 DEF TypeOK
  <2>3. QED
    BY <1>1, <2>2 DEF Goto
<1>2. CASE Ends(w, "raised") /\ UNCHANGED attempt
  BY <1>2 DEF TypeOK
<1>3. QED
  BY <1>1, <1>2 DEF RetryOrRaise

(* Either handler: the writer tries again, or reports a call that left no   *)
(* row unless it is spoiled.                                                *)
LEMMA FailsInv ==
  ASSUME IInv, NEW w \in Writers, NEW error \in Errors, NEW n \in Nat,
         AttemptFails(w, error, n), pc[w] \in InAttempt,
         error = "locked" /\ w \notin nested => NoRowYet(w)
  PROVE  IInv'
<1>1. TypeOK /\ WriterInv(w) /\ pc[w] # "idle" /\ call[w] \in Calls
  BY CurrentCall DEF IInv, InAttempt, InTransaction
<1>2. UNCHANGED <<call, nested, foreign, saved, stored>>
  BY DEF AttemptFails
<1>3. \A c \in Calls : c = call[w] /\ <<w, c>> \notin spoiled => RowsOf(w, c) = {}
  BY <1>1, SoundIsUnwritten DEF WriterInv, CallInv
<1>4. ASSUME Ends(w, "raised"), OwnStep(w),
             <<w, call[w]>> \notin spoiled' => w \notin holder'
      PROVE  IInv'
  <2>1. \A c \in Calls : <<w, c>> \notin spoiled' => <<w, c>> \notin spoiled
    BY <1>4 DEF OwnStep
  <2>2. "raised" \in Results
    BY DEF Results
  <2>3. QED
    BY <1>1, <1>2, <1>3, <1>4, <2>1, <2>2, EndInv
<1>5. CASE w \notin nested
  <2>1. RollbackQuietly(w, n)
    BY <1>5 DEF AttemptFails
  <2>2. attempt' \in [Writers -> 0..Retries]
    BY <1>1, <1>5, RetryTypes DEF AttemptFails, TypeOK
  <2>3. OwnStep(w)
    <3>1. {} \in SUBSET Rows /\ staged' \in {staged, [staged EXCEPT ![w] = {}]}
      BY <2>1, RollbackSteps
    <3>2. QED
      BY <1>2, <2>1, <2>2, <3>1, RollbackSteps DEF OwnStep
  <2>4. <<w, call[w]>> \notin spoiled' => w \notin holder'
    BY <2>1, RollbackSteps
  <2>5. CASE pc' = [pc EXCEPT ![w] = "backoff"] /\ UNCHANGED outcome /\ error = "locked"
    <3>1. pc'[w] = "backoff" /\ call' = call /\ nested' = nested
      BY <1>1, <1>2, <2>5 DEF TypeOK
    <3>2. SoundInv(w)' /\ SpoiltInv(w)'
      BY <1>5, <2>4, <3>1 DEF SoundInv, SpoiltInv, StagedInv, InTransaction
    <3>3. "backoff" \in InCall
      BY DEF InCall
    <3>4. QED
      BY <1>1, <1>2, <1>5, <2>3, <2>5, <3>2, <3>3, MoveInv
  <2>6. CASE Ends(w, "raised")
    BY <1>4, <2>3, <2>4, <2>6
  <2>7. QED
    BY <1>1, <1>5, <2>5, <2>6, RetryTypes DEF AttemptFails
<1>6. CASE w \in nested
  <2>1. /\ Fault(n) /\ holder' \in {holder, holder \ {w}} /\ Ends(w, "raised")
        /\ UNCHANGED <<attempt, staged, spoiled>>
    BY <1>6 DEF AttemptFails
  <2>2. OwnStep(w)
    <3>1. faults' \in 0..MaxFaults
      BY <1>1, <2>1, FaultType
    <3>2. {} \in SUBSET Rows
      OBVIOUS
    <3>3. QED
      BY <1>1, <1>2, <2>1, <3>1, <3>2 DEF OwnStep, TypeOK
  <2>3. <<w, call[w]>> \in spoiled'
    BY <1>1, <1>6, <2>1 DEF WriterInv, SoundInv
  <2>4. QED
    BY <1>4, <2>1, <2>2, <2>3
<1>7. QED
  BY <1>5, <1>6

-----------------------------------------------------------------------------
(* A call begins: it has no rows and no outcome yet. *)
LEMMA CallStart == ASSUME IInv, NEW w \in Writers, Call(w) PROVE IInv'
<1> DEFINE next == call[w] + 1
<1>1. TypeOK /\ WriterInv(w) /\ call[w] \in Nat /\ next \in Calls /\ next \in Nat
  <2>1. TypeOK /\ WriterInv(w) /\ call[w] < MaxCalls
    BY DEF IInv, Call
  <2>2. call[w] \in Nat
    BY <2>1 DEF TypeOK
  <2>3. QED
    BY <2>1, <2>2, WritersAssumption DEF Calls
<1>2. \E label \in {"begin", "before"} :
        /\ pc' = [pc EXCEPT ![w] = label]
        /\ label = "begin" =>
             w \notin holder /\ nested' = nested \ {w} /\ UNCHANGED spoiled
        /\ label = "before" =>
             /\ w \in holder /\ nested' = nested \union {w}
             /\ spoiled' = spoiled \union {<<w, next>>}
  BY DEF Call, Goto
<1>3. PICK label \in {"begin", "before"} :
        /\ pc' = [pc EXCEPT ![w] = label]
        /\ label = "begin" =>
             w \notin holder /\ nested' = nested \ {w} /\ UNCHANGED spoiled
        /\ label = "before" =>
             /\ w \in holder /\ nested' = nested \union {w}
             /\ spoiled' = spoiled \union {<<w, next>>}
  BY <1>2
<1>4. /\ call' = [call EXCEPT ![w] = next] /\ attempt' = [attempt EXCEPT ![w] = 0]
      /\ UNCHANGED <<holder, foreign, staged, saved, stored, outcome, faults>>
  BY DEF Call
<1> HIDE DEF next
<1>5. /\ pc' \in [Writers -> {"idle", "begin", "backoff", "before", "inner", "after",
                              "commit", "return"}]
      /\ pc'[w] = label /\ \A v \in Writers \ {w} : pc'[v] = pc[v]
  BY <1>1, <1>3 DEF TypeOK
<1>6. /\ call' \in [Writers -> 0..MaxCalls] /\ attempt' \in [Writers -> 0..Retries]
      /\ call'[w] = next /\ \A v \in Writers \ {w} : call'[v] = call[v]
  BY <1>1, <1>4, WritersAssumption DEF TypeOK, Calls
<1>7. nested' \subseteq Writers /\ \A v \in Writers \ {w} : v \in nested' <=> v \in nested
  BY <1>1, <1>3 DEF TypeOK
<1>8. /\ spoiled' \subseteq Writers \X Calls
      /\ \A v \in Writers \ {w}, c \in Nat : <<v, c>> \in spoiled' <=> <<v, c>> \in spoiled
      /\ \A c \in Nat : c # next => (<<w, c>> \in spoiled' <=> <<w, c>> \in spoiled)
      /\ label = "before" => <<w, next>> \in spoiled'
      /\ <<w, next>> \in spoiled => <<w, next>> \in spoiled'
  BY <1>1, <1>3 DEF TypeOK
<1>9. TypeOK'
  <2>1. next > 0
    BY <1>1 DEF Calls
  <2>2. \A v \in Writers \ {w} : pc[v] # "idle" => call[v] > 0
    BY <1>1 DEF TypeOK
  <2>3. \A v \in Writers : pc'[v] # "idle" => call'[v] > 0
    BY <1>5, <1>6, <2>1, <2>2
  <2>4. QED
    BY <1>1, <1>4, <1>5, <1>6, <1>7, <1>8, <2>3 DEF TypeOK
<1>10. \A v \in Writers, c \in Calls : RowsOf(v, c)' = RowsOf(v, c)
  BY <1>4, SameRows
<1>11. Others(w)
  BY <1>4, <1>5, <1>6, <1>7, <1>8, <1>10 DEF Others
<1>12. call[w] < next /\ \A c \in Calls : c > next => c > call[w] /\ c # next
  BY <1>1 DEF Calls, next
<1>13. ASSUME NEW c \in Calls PROVE CallInv(w, c)'
  <2>1. /\ c \in Nat /\ RowsOf(w, c)' = RowsOf(w, c) /\ outcome'[w][c] = outcome[w][c]
        /\ CallInv(w, c)
    BY <1>1, <1>4, <1>10 DEF Calls, WriterInv
  <2>2. c > next => RowsOf(w, c) = {} /\ outcome[w][c] = "open" /\ <<w, c>> \notin spoiled'
    BY <1>8, <1>12, <2>1 DEF CallInv
  <2>3. c = next => RowsOf(w, c) = {} /\ outcome[w][c] = "open"
    BY <1>1, <1>12, <2>1 DEF CallInv
  <2>4. <<w, c>> \notin spoiled' => <<w, c>> \notin spoiled
    BY <1>8, <2>1
  <2>5. pc'[w] # "return" /\ call'[w] = next
    BY <1>5, <1>6
  <2>6. QED
    BY <2>1, <2>2, <2>3, <2>4, <2>5 DEF CallInv
<1>14. SoundInv(w)' /\ SpoiltInv(w)'
  BY <1>3, <1>4, <1>5, <1>6, <1>8 DEF SoundInv, SpoiltInv, StagedInv, InTransaction
<1>15. QED
  BY <1>9, <1>11, <1>13, <1>14, OneAtATime DEF WriterInv

(* The steps before the commit: SoundInv is about what they stage. *)
LEMMA MovesInv ==
  ASSUME IInv, NEW w \in Writers,
         Begin(w) \/ BackoffOver(w) \/ WriteBefore(w) \/ WriteInner(w) \/ WriteAfter(w)
  PROVE  IInv'
<1>1. TypeOK /\ WriterInv(w) /\ SoundInv(w) /\ SpoiltInv(w)
  BY DEF IInv, WriterInv
<1>2. faults \in 0..MaxFaults /\ attempt \in [Writers -> 0..Retries]
      /\ holder \subseteq Writers /\ staged \in [Writers -> SUBSET Rows]
  BY <1>1 DEF TypeOK
<1>3. CASE Begin(w)
  <2>1. /\ pc[w] = "begin" /\ holder = {} /\ holder' = {w}
        /\ staged' = [staged EXCEPT ![w] = {}] /\ pc' = [pc EXCEPT ![w] = "before"]
        /\ UNCHANGED <<call, attempt, nested, foreign, saved, stored, outcome, spoiled, faults>>
    BY <1>3 DEF Begin, Goto
  <2>2. pc'[w] = "before" /\ staged'[w] = {}
    BY <1>1, <2>1 DEF TypeOK
  <2>3. OwnStep(w)
    <3>1. {} \in SUBSET Rows
      OBVIOUS
    <3>2. QED
      BY <1>2, <2>1, <3>1 DEF OwnStep
  <2>4. SoundInv(w)' /\ SpoiltInv(w)' /\ NoRowYet(w)
    BY <1>1, <2>1, <2>2 DEF SoundInv, SpoiltInv, StagedInv, NoRowYet, InTransaction
  <2>5. "before" \in InCall
    BY DEF InCall, InAttempt, InTransaction
  <2>6. QED
    BY <2>1, <2>3, <2>4, <2>5, MoveInv
<1>4. CASE BackoffOver(w)
  <2>1. /\ pc[w] = "backoff" /\ pc' = [pc EXCEPT ![w] = "begin"]
        /\ UNCHANGED <<call, attempt, nested, holder, foreign, staged, saved, stored,
                       outcome, spoiled, faults>>
    BY <1>4 DEF BackoffOver, Goto
  <2>2. pc'[w] = "begin"
    BY <1>1, <2>1 DEF TypeOK
  <2>3. OwnStep(w)
    BY <1>2, <2>1 DEF OwnStep
  <2>4. SoundInv(w)' /\ SpoiltInv(w)' /\ NoRowYet(w)
    BY <1>1, <2>1, <2>2 DEF SoundInv, SpoiltInv, StagedInv, NoRowYet, InTransaction
  <2>5. "begin" \in InCall
    BY DEF InCall, InAttempt
  <2>6. QED
    BY <2>1, <2>3, <2>4, <2>5, MoveInv
<1>5. CASE WriteBefore(w)
  <2> DEFINE rows == staged[w] \union {"before"}
  <2>1. /\ pc[w] = "before" /\ pc' = [pc EXCEPT ![w] = "inner"]
        /\ staged' = [staged EXCEPT ![w] = rows] /\ saved' = [saved EXCEPT ![w] = staged'[w]]
        /\ UNCHANGED <<call, attempt, nested, holder, foreign, stored, outcome, spoiled, faults>>
    BY <1>5 DEF WriteBefore, Goto, Write
  <2>2. rows \in SUBSET Rows
    BY <1>2 DEF Rows
  <2>3. pc'[w] = "inner" /\ staged'[w] = rows /\ saved'[w] = rows
    BY <1>1, <2>1 DEF TypeOK
  <2>4. OwnStep(w)
    BY <1>2, <2>1, <2>2, <2>3 DEF OwnStep
  <2>5. SoundInv(w)' /\ SpoiltInv(w)' /\ NoRowYet(w)
    BY <1>1, <2>1, <2>3 DEF SoundInv, SpoiltInv, StagedInv, NoRowYet, InTransaction
  <2>6. "inner" \in InCall
    BY DEF InCall, InAttempt, InTransaction
  <2>7. QED
    BY <2>1, <2>4, <2>5, <2>6, MoveInv
<1>6. CASE WriteInner(w)
  <2> DEFINE rows == staged[w] \union Inner
  <2>1. /\ pc[w] = "inner" /\ pc' = [pc EXCEPT ![w] = "after"]
        /\ staged' = [staged EXCEPT ![w] = rows]
        /\ UNCHANGED <<call, attempt, nested, holder, foreign, saved, stored, outcome,
                       spoiled, faults>>
    BY <1>6 DEF WriteInner, Goto, Write
  <2>2. rows \in SUBSET Rows
    BY <1>2 DEF Rows, Inner
  <2>3. pc'[w] = "after" /\ staged'[w] = rows
    BY <1>1, <2>1 DEF TypeOK
  <2>4. OwnStep(w)
    BY <1>2, <2>1, <2>2 DEF OwnStep
  <2>5. SoundInv(w)' /\ SpoiltInv(w)' /\ NoRowYet(w)
    BY <1>1, <2>1, <2>3 DEF SoundInv, SpoiltInv, StagedInv, NoRowYet, InTransaction
  <2>6. "after" \in InCall
    BY DEF InCall, InAttempt, InTransaction
  <2>7. QED
    BY <2>1, <2>4, <2>5, <2>6, MoveInv
<1>7. CASE WriteAfter(w)
  <2> DEFINE rows == staged[w] \union {"after"}
  <2>1. /\ pc[w] = "after" /\ w \in holder /\ pc' = [pc EXCEPT ![w] = "commit"]
        /\ staged' = [staged EXCEPT ![w] = rows]
        /\ UNCHANGED <<call, attempt, nested, holder, foreign, saved, stored, outcome,
                       spoiled, faults>>
    BY <1>7 DEF WriteAfter, Goto, Write
  <2>2. rows \in SUBSET Rows
    BY <1>2 DEF Rows
  <2>3. pc'[w] = "commit" /\ staged'[w] = rows
    BY <1>1, <2>1 DEF TypeOK
  <2>4. OwnStep(w)
    BY <1>2, <2>1, <2>2 DEF OwnStep
  <2>5. SpoiltInv(w)' /\ NoRowYet(w)
    BY <2>1, <2>3 DEF SpoiltInv, NoRowYet
  <2>6. SoundInv(w)'
    <3>1. staged[w] \in {{"before"}, {"before"} \union Inner} => rows \in {Rows, {"before", "after"}}
      BY DEF Rows, Inner
    <3>2. QED
      BY <1>1, <2>1, <2>3, <3>1 DEF SoundInv, StagedInv, InTransaction
  <2>7. "commit" \in InCall
    BY DEF InCall, InAttempt, InTransaction
  <2>8. QED
    BY <2>1, <2>4, <2>5, <2>6, <2>7, MoveInv
<1>8. QED
  BY <1>3, <1>4, <1>5, <1>6, <1>7

(* Failures, in the operation or of what should undo them. *)
LEMMA FailuresInv ==
  ASSUME IInv, NEW w \in Writers,
         \/ BeginLocked(w) \/ BeginWithin(w) \/ InnerFails(w) \/ OperationFails(w)
  PROVE  IInv'
<1>1. TypeOK /\ SoundInv(w) /\ SpoiltInv(w) /\ 0 \in Nat /\ 1 \in Nat
  BY DEF IInv, WriterInv
<1>2. CASE BeginLocked(w) \/ BeginWithin(w)
  <2>1. pc[w] = "begin" /\ \E error \in Errors : AttemptFails(w, error, 0)
    BY <1>2 DEF BeginLocked, BeginWithin, Errors
  <2>2. pc[w] \in InAttempt /\ NoRowYet(w)
    BY <2>1 DEF InAttempt, NoRowYet
  <2>3. QED
    BY <1>1, <2>1, <2>2, FailsInv
<1>3. CASE OperationFails(w)
  <2>1. /\ pc[w] \in {"before", "after", "commit"} /\ (pc[w] = "commit" => w \in holder)
        /\ \E error \in Errors : AttemptFails(w, error, 1)
    BY <1>3 DEF OperationFails
  <2>2. pc[w] \in InAttempt /\ NoRowYet(w)
    BY <2>1 DEF InAttempt, InTransaction, NoRowYet
  <2>3. QED
    BY <1>1, <2>1, <2>2, FailsInv
<1>4. CASE InnerFails(w)
  <2>1. pc[w] = "inner" /\ pc[w] \in InAttempt /\ NoRowYet(w)
    BY <1>4 DEF InnerFails, InAttempt, InTransaction, NoRowYet
  <2>2. ASSUME NEW rows \in SUBSET Rows, staged' = [staged EXCEPT ![w] = rows],
               Goto(w, "after"),
               holder' \in {holder, holder \ {w}}, w \notin holder' => rows = {},
               spoiled' \in {spoiled, spoiled \union {<<w, call[w]>>}},
               <<w, call[w]>> \notin spoiled' => w \in holder' /\ rows = {"before"},
               faults' \in 0..MaxFaults,
               UNCHANGED <<call, attempt, nested, foreign, saved, stored, outcome>>
        PROVE  IInv'
    <3>1. pc' = [pc EXCEPT ![w] = "after"] /\ pc'[w] = "after" /\ staged'[w] = rows
      BY <1>1, <2>2 DEF Goto, TypeOK
    <3>2. OwnStep(w)
      BY <1>1, <2>2 DEF OwnStep, TypeOK
    <3>3. SpoiltInv(w)'
      BY <2>2, <3>1 DEF SpoiltInv
    <3>4. SoundInv(w)'
      BY <1>1, <2>1, <2>2, <3>1 DEF SoundInv, StagedInv, InTransaction
    <3>5. "after" \in InCall
      BY DEF InCall, InAttempt, InTransaction
    <3>6. QED
      BY <2>1, <2>2, <3>1, <3>2, <3>3, <3>4, <3>5, MoveInv
  <2>3. CASE /\ Fault(1) /\ staged' = [staged EXCEPT ![w] = saved[w]] /\ Goto(w, "after")
             /\ UNCHANGED <<call, attempt, nested, holder, foreign, saved, stored, outcome,
                            spoiled>>
    <3>1. faults' \in 0..MaxFaults /\ saved[w] \in SUBSET Rows
      BY <1>1, <2>3, FaultType DEF TypeOK
    <3>2. <<w, call[w]>> \notin spoiled => saved[w] = {"before"}
      BY <1>1, <2>1 DEF SoundInv, StagedInv
    <3>3. w \in holder
      BY <1>1, <2>1 DEF SpoiltInv
    <3>4. QED
      BY <2>2, <2>3, <3>1, <3>2, <3>3
  <2>4. CASE /\ Fault(2) /\ Write(w, {"first"}) /\ UNCHANGED holder
             /\ Spoil(w) /\ Goto(w, "after")
             /\ UNCHANGED <<call, attempt, nested, foreign, saved, stored, outcome>>
    <3> DEFINE rows == staged[w] \union {"first"}
    <3>1. faults' \in 0..MaxFaults /\ rows \in SUBSET Rows
      BY <1>1, <2>4, FaultType DEF TypeOK, Rows
    <3>2. staged' = [staged EXCEPT ![w] = rows]
      BY <2>4 DEF Write
    <3>3. w \in holder
      BY <1>1, <2>1 DEF SpoiltInv
    <3> HIDE DEF rows
    <3>4. QED
      BY <2>2, <2>4, <3>1, <3>2, <3>3 DEF Spoil
  <2>5. CASE /\ Fault(1) /\ Rollback(w) /\ Spoil(w) /\ Goto(w, "after")
             /\ UNCHANGED <<call, attempt, nested, foreign, saved, stored, outcome>>
    <3>1. faults' \in 0..MaxFaults /\ {} \in SUBSET Rows
      BY <1>1, <2>5, FaultType
    <3>2. QED
      BY <2>2, <2>5, <3>1 DEF Spoil, Rollback
  <2>6. CASE \E error \in Errors : AttemptFails(w, error, 1)
    BY <1>1, <2>1, <2>6, FailsInv
  <2>7. QED
    BY <1>4, <2>3, <2>4, <2>5, <2>6 DEF InnerFails
<1>5. QED
  BY <1>2, <1>3, <1>4

-----------------------------------------------------------------------------
(* Rows are stored *)

(* Rows of the current call appear, by its commit or without a transaction: *)
(* all that a sound call has staged, and it has nothing stored yet.         *)
LEMMA StoreInv ==
  ASSUME IInv, NEW w \in Writers, NEW label \in {"commit", "return"},
         NEW rows \in SUBSET Rows,
         pc[w] \in {"after", "commit"}, pc' = [pc EXCEPT ![w] = label],
         stored' = stored \union {<<w, call[w], row>> : row \in rows},
         OwnStep(w), UNCHANGED <<outcome, spoiled>>,
         w \notin holder', SpoiltInv(w)',
         <<w, call[w]>> \notin spoiled =>
           label = "return" /\ NoRowYet(w) /\ rows \in {Rows, {"before", "after"}}
  PROVE  IInv'
<1>1. TypeOK /\ WriterInv(w) /\ call[w] \in Calls /\ call[w] \in Nat
  BY CurrentCall DEF IInv, Calls
<1>2. call' = call /\ nested' = nested /\ foreign' = foreign /\ faults' \in 0..MaxFaults
      /\ attempt' \in [Writers -> 0..Retries] /\ holder' \subseteq Writers
  BY DEF OwnStep
<1>3. /\ pc' \in [Writers -> {"idle", "begin", "backoff", "before", "inner", "after",
                              "commit", "return"}]
      /\ pc'[w] = label /\ \A v \in Writers \ {w} : pc'[v] = pc[v]
  BY <1>1 DEF TypeOK
<1>4. stored' \subseteq Writers \X Calls \X Rows
  BY <1>1 DEF TypeOK
<1>5. TypeOK'
  <2>1. \A v \in Writers : pc'[v] # "idle" => call'[v] > 0
    BY <1>1, <1>2, <1>3 DEF TypeOK, Calls
  <2>2. pc[w] # "idle"
    OBVIOUS
  <2>3. /\ staged' \in [Writers -> SUBSET Rows] /\ saved' \in [Writers -> SUBSET Rows]
        /\ spoiled' \subseteq Writers \X Calls
    BY <1>1, <2>2, OwnStepTypes
  <2>4. QED
    BY <1>1, <1>2, <1>3, <1>4, <2>1, <2>3 DEF TypeOK
<1>6. \A v \in Writers, c \in Calls :
        ~(v = w /\ c = call[w]) => RowsOf(v, c)' = RowsOf(v, c)
  BY DEF RowsOf
<1>7. \A c \in Calls : c = call[w] => RowsOf(w, c)' = RowsOf(w, c) \union rows
  BY DEF RowsOf
<1>8. Others(w)
  <2>1. pc[w] # "idle"
    OBVIOUS
  <2>2. \A v \in Writers \ {w} :
          /\ staged'[v] = staged[v] /\ saved'[v] = saved[v]
          /\ \A c \in Nat : <<v, c>> \in spoiled' <=> <<v, c>> \in spoiled
    BY <1>1, <2>1, OwnStepTypes
  <2>3. \A v \in Writers \ {w} : v \in holder' <=> v \in holder
    BY DEF OwnStep
  <2>4. \A v \in Writers \ {w}, c \in Calls : RowsOf(v, c)' = RowsOf(v, c)
    BY <1>6
  <2>5. QED
    BY <1>2, <1>3, <2>2, <2>3, <2>4 DEF Others
<1>9. ASSUME NEW c \in Calls PROVE CallInv(w, c)'
  <2>1. c \in Nat /\ CallInv(w, c)
    BY <1>1 DEF Calls, WriterInv
  <2>2. CASE c = call[w]
    <3>1. RowsOf(w, c)' = RowsOf(w, c) \union rows /\ ~(c > call[w]) /\ outcome[w][c] = "open"
      BY <1>1, <1>7, <2>1, <2>2 DEF CallInv
    <3>2. ~NoRowYet(w)'
      BY <1>3 DEF NoRowYet
    <3>3. <<w, c>> \notin spoiled => RowsOf(w, c)' = rows /\ rows # {}
      BY <2>1, <2>2, <3>1 DEF CallInv, Rows
    <3>4. QED
      BY <1>2, <1>3, <2>2, <3>1, <3>2, <3>3 DEF CallInv
  <2>3. CASE c # call[w]
    <3>1. RowsOf(w, c)' = RowsOf(w, c)
      BY <1>6, <2>3
    <3>2. QED
      BY <1>2, <2>1, <2>3, <3>1 DEF CallInv
  <2>4. QED
    BY <2>2, <2>3
<1>10. SoundInv(w)'
  BY <1>1, <1>2, <1>3 DEF SoundInv, StagedInv, InTransaction, WriterInv
<1>11. QED
  BY <1>5, <1>8, <1>9, <1>10, OneAtATime DEF WriterInv

(* What a writer about to commit has staged. *)
LEMMA BeforeCommit ==
  ASSUME IInv, NEW w \in Writers, pc[w] = "commit"
  PROVE  /\ staged[w] \in SUBSET Rows
         /\ staged[w] # {} => NoRowYet(w)
         /\ <<w, call[w]>> \notin spoiled =>
              NoRowYet(w) /\ staged[w] \in {Rows, {"before", "after"}} /\ w \notin nested
<1>1. TypeOK /\ SoundInv(w) /\ SpoiltInv(w)
  BY DEF IInv, WriterInv
<1>2. staged[w] \in SUBSET Rows
  BY <1>1 DEF TypeOK
<1>3. QED
  BY <1>1, <1>2 DEF SoundInv, SpoiltInv, StagedInv, NoRowYet, InTransaction

LEMMA CommitInv == ASSUME IInv, NEW w \in Writers, Commit(w) PROVE IInv'
<1>1. TypeOK /\ pc[w] = "commit" /\ "return" \in {"commit", "return"}
  BY DEF IInv, Commit
<1>2. /\ pc' = [pc EXCEPT ![w] = "return"] /\ staged' = [staged EXCEPT ![w] = {}]
      /\ holder' = holder \ {w}
      /\ stored' = stored \union {<<w, call[w], row>> : row \in staged[w]}
      /\ UNCHANGED <<call, attempt, nested, foreign, saved, outcome, spoiled, faults>>
  BY DEF Commit, Goto
<1>3. OwnStep(w)
  <2>1. {} \in SUBSET Rows
    OBVIOUS
  <2>2. QED
    BY <1>1, <1>2, <2>1 DEF OwnStep, TypeOK
<1>4. pc'[w] = "return"
  BY <1>1, <1>2 DEF TypeOK
<1>5. SpoiltInv(w)'
  BY <1>4 DEF SpoiltInv
<1> DEFINE rows == staged[w]
<1>6. /\ rows \in SUBSET Rows
      /\ <<w, call[w]>> \notin spoiled => NoRowYet(w) /\ rows \in {Rows, {"before", "after"}}
      /\ stored' = stored \union {<<w, call[w], row>> : row \in rows}
  BY <1>1, <1>2, BeforeCommit
<1> HIDE DEF rows
<1>7. QED
  BY <1>1, <1>2, <1>3, <1>5, <1>6, StoreInv

LEMMA AloneInv == ASSUME IInv, NEW w \in Writers, WriteAlone(w) PROVE IInv'
<1>1. TypeOK /\ SoundInv(w) /\ SpoiltInv(w) /\ pc[w] = "after" /\ w \notin holder /\ 0 \in Nat
  BY DEF IInv, WriterInv, WriteAlone
<1>2. <<w, call[w]>> \in spoiled /\ staged[w] = {} /\ NoRowYet(w) /\ pc[w] \in InAttempt
  BY <1>1 DEF SoundInv, SpoiltInv, NoRowYet, InAttempt, InTransaction
<1>3. CASE AttemptFails(w, "locked", 0)
  BY <1>1, <1>2, <1>3, FailsInv DEF Errors
<1>4. CASE /\ stored' = stored \union {<<w, call[w], "after">>} /\ Goto(w, "commit")
           /\ UNCHANGED <<call, attempt, nested, holder, foreign, staged, saved, outcome,
                          spoiled, faults>>
  <2>1. pc' = [pc EXCEPT ![w] = "commit"] /\ pc'[w] = "commit"
    BY <1>1, <1>4 DEF Goto, TypeOK
  <2>2. OwnStep(w)
    BY <1>1, <1>4 DEF OwnStep, TypeOK
  <2>3. SpoiltInv(w)'
    BY <1>2, <1>4, <2>1 DEF SpoiltInv
  <2>4. {"after"} \in SUBSET Rows /\ "commit" \in {"commit", "return"}
    BY DEF Rows
  <2>5. stored' = stored \union {<<w, call[w], row>> : row \in {"after"}}
    BY <1>4
  <2>6. QED
    BY <1>1, <1>2, <1>4, <2>1, <2>2, <2>3, <2>4, <2>5, StoreInv
<1>5. QED
  BY <1>3, <1>4 DEF WriteAlone

-----------------------------------------------------------------------------
(* The call returns; nested, it may have lost its savepoint. *)
LEMMA ReleaseInv == ASSUME IInv, NEW w \in Writers, Release(w) PROVE IInv'
<1>1. TypeOK /\ SoundInv(w) /\ SpoiltInv(w) /\ pc[w] = "commit" /\ w \in nested /\ 0 \in Nat
  BY DEF IInv, WriterInv, Release
<1>2. <<w, call[w]>> \in spoiled /\ pc[w] \in InAttempt
  BY <1>1 DEF SoundInv, InAttempt, InTransaction
<1>3. CASE AttemptFails(w, "other", 0)
  BY <1>1, <1>2, <1>3, FailsInv DEF Errors
<1>4. CASE /\ Goto(w, "return")
           /\ UNCHANGED <<call, attempt, nested, holder, foreign, staged, saved, stored,
                          outcome, spoiled, faults>>
  <2>1. pc' = [pc EXCEPT ![w] = "return"] /\ pc'[w] = "return"
    BY <1>1, <1>4 DEF Goto, TypeOK
  <2>2. OwnStep(w)
    BY <1>1, <1>4 DEF OwnStep, TypeOK
  <2>3. SoundInv(w)' /\ SpoiltInv(w)' /\ ~NoRowYet(w)'
    BY <1>2, <1>4, <2>1 DEF SoundInv, SpoiltInv, NoRowYet
  <2>4. "return" \in InCall
    BY DEF InCall
  <2>5. QED
    BY <1>1, <1>2, <1>4, <2>1, <2>2, <2>3, <2>4, MoveInv
<1>5. QED
  BY <1>3, <1>4 DEF Release

LEMMA ReturnInv == ASSUME IInv, NEW w \in Writers, Return(w) PROVE IInv'
<1>1. /\ TypeOK /\ SoundInv(w) /\ pc[w] = "return" /\ Ends(w, "returned")
      /\ UNCHANGED <<call, attempt, nested, holder, foreign, staged, saved, stored, spoiled,
                     faults>>
  BY DEF IInv, WriterInv, Return
<1>2. OwnStep(w)
  BY <1>1 DEF OwnStep, TypeOK
<1>3. <<w, call[w]>> \notin spoiled => w \notin holder
  BY <1>1 DEF SoundInv, InTransaction
<1>4. \A c \in Calls : c = call[w] /\ <<w, c>> \notin spoiled => RowsOf(w, c) # {}
  BY <1>1 DEF IInv, WriterInv, CallInv
<1>5. "returned" \in Results
  BY DEF Results
<1>6. QED
  BY <1>1, <1>2, <1>3, <1>4, <1>5, EndInv

(* A killed writer leaves the rows of the call as they were: none before    *)
(* the commit, all after it.                                                *)
LEMMA KillInv == ASSUME IInv, NEW w \in Writers, Kill(w) PROVE IInv'
<1>1. /\ TypeOK /\ pc[w] # "idle" /\ Fault(1) /\ Rollback(w) /\ Ends(w, "killed")
      /\ UNCHANGED <<call, attempt, nested, foreign, saved, stored, spoiled>>
  BY DEF IInv, Kill
<1>2. faults' \in 0..MaxFaults /\ {} \in SUBSET Rows
  BY <1>1, FaultType
<1>3. OwnStep(w)
  BY <1>1, <1>2 DEF OwnStep, Rollback, TypeOK
<1>4. w \notin holder' /\ "killed" \in Results
  BY <1>1 DEF Rollback, Results
<1>5. QED
  BY <1>1, <1>3, <1>4, EndInv

(* A restart closes the transaction a spoiled call left open. *)
LEMMA RestartInv == ASSUME IInv, NEW w \in Writers, Restart(w) PROVE IInv'
<1>1. /\ TypeOK /\ WriterInv(w) /\ pc[w] = "idle"
      /\ holder' = holder \ {w} /\ staged' = [staged EXCEPT ![w] = {}]
      /\ UNCHANGED <<pc, call, attempt, nested, foreign, saved, stored, outcome, spoiled,
                     faults>>
  BY DEF IInv, Restart, Rollback
<1>2. TypeOK'
  BY <1>1 DEF TypeOK
<1>3. \A v \in Writers, c \in Calls : RowsOf(v, c)' = RowsOf(v, c)
  BY <1>1, SameRows
<1>4. Others(w)
  BY <1>1, <1>3 DEF Others, TypeOK
<1>5. \A c \in Calls : CallInv(w, c)'
  BY <1>1, <1>3 DEF WriterInv, CallInv, NoRowYet
<1>6. SoundInv(w)' /\ SpoiltInv(w)'
  BY <1>1 DEF SoundInv, SpoiltInv, StagedInv, InTransaction
<1>7. QED
  BY <1>2, <1>4, <1>5, <1>6, OneAtATime DEF WriterInv

(* What no row and no writer sees. *)
LEMMA UnseenInv ==
  ASSUME IInv, foreign' \in BOOLEAN,
         UNCHANGED <<pc, call, attempt, nested, holder, staged, saved, stored, outcome,
                     spoiled, faults>>
  PROVE  IInv'
<1>1. TypeOK'
  BY DEF IInv, TypeOK
<1>2. \A w \in Writers : WriterInv(w)'
  BY DEF IInv, WriterInv, SoundInv, SpoiltInv, StagedInv, CallInv, NoRowYet, RowsOf
<1>3. QED
  BY <1>1, <1>2 DEF IInv

(* Every step preserves the inductive invariant. *)
LEMMA StepInv == IInv /\ [Next]_vars => IInv'
<1> SUFFICES ASSUME IInv, [Next]_vars PROVE IInv'
  OBVIOUS
<1>1. CASE UNCHANGED vars
  <2>1. foreign' \in BOOLEAN
    BY <1>1 DEF vars, IInv, TypeOK
  <2>2. QED
    BY <1>1, <2>1, UnseenInv DEF vars
<1>2. CASE ForeignLock
  <2>1. foreign' \in BOOLEAN
    BY <1>2, Zenon DEF ForeignLock
  <2>2. QED
    BY <1>2, <2>1, UnseenInv DEF ForeignLock
<1>3. ASSUME NEW w \in Writers, Step(w) PROVE IInv'
  BY <1>3, MovesInv, FailuresInv, AloneInv, CommitInv, ReleaseInv, ReturnInv DEF Step
<1>4. QED
  BY <1>1, <1>2, <1>3, CallStart, KillInv, RestartInv DEF Next

-----------------------------------------------------------------------------
(* The inductive invariant holds in every reachable state. *)
THEOREM Invariance == Spec => []IInv
  BY InitInv, StepInv, PTL DEF Spec

(* No call makes more attempts than it may, and no row is stored that no    *)
(* operation wrote.                                                         *)
THEOREM TypeCorrect == Spec => []TypeOK
<1>1. IInv => TypeOK
  BY DEF IInv
<1>2. QED
  BY <1>1, Invariance, PTL

(* Every call in which no rollback failed, and that found no transaction    *)
(* open, is stored whole or not at all, and its caller is told which, with  *)
(* any number of retries, kills and nested failures.                        *)
THEOREM CallsAreAtomic == Spec => []AtomicCalls
<1>1. IInv => AtomicCalls
  BY DEF IInv, WriterInv, CallInv, AtomicCalls
<1>2. QED
  BY <1>1, Invariance, PTL

(* Every call leaves its connection outside a transaction, unless one of    *)
(* its rollbacks failed or it was inside one already.                       *)
THEOREM TransactionsEnd == Spec => []NoTransactionLeftOpen
<1>1. IInv => NoTransactionLeftOpen
  BY DEF IInv, WriterInv, SoundInv, InTransaction, NoTransactionLeftOpen
<1>2. QED
  BY <1>1, Invariance, PTL

-----------------------------------------------------------------------------
(* WriteTransaction implements AtomicWrites. *)
Busy == {w \in Writers : pc[w] # "idle"}

LEMMA BusyWriters ==
  ASSUME TypeOK, NEW w \in Writers, NEW label, Goto(w, label)
  PROVE  /\ label = "idle" => Busy' = Busy \ {w}
         /\ label # "idle" => Busy' = Busy \union {w}
         /\ w \in Busy <=> pc[w] # "idle"
<1>1. pc'[w] = label /\ \A v \in Writers \ {w} : pc'[v] = pc[v]
  BY DEF TypeOK, Goto
<1>2. QED
  BY <1>1 DEF Busy

(* A call takes effect when its rows are there. *)
LEMMA EffectIsRows ==
  ASSUME NEW w
  PROVE  Writes!Effective(w) <=> RowsOf(w, call[w]) # {}
BY DEF Writes!Effective, RowsOf

LEMMA Unseen ==
  ASSUME Busy' = Busy, UNCHANGED <<call, stored, outcome, spoiled>>
  PROVE  UNCHANGED Writes!vars
BY DEF Writes!vars, Busy

(* What a call has stored by now, if it is not spoiled. *)
LEMMA SoundRows ==
  ASSUME IInv, NEW w \in Writers, pc[w] # "idle"
  PROVE  /\ NoRowYet(w) => RowsOf(w, call[w]) = {}
         /\ pc[w] = "return" /\ <<w, call[w]>> \notin spoiled => RowsOf(w, call[w]) # {}
<1>1. TypeOK
  BY DEF IInv
<1>2. call[w] \in Calls
  BY <1>1, CurrentCall
<1>3. CallInv(w, call[w])
  BY <1>2 DEF IInv, WriterInv
<1>4. QED
  BY <1>3 DEF CallInv

LEMMA CallEnds ==
  ASSUME TypeOK, NEW w \in Writers, NEW result \in Results,
         pc[w] # "idle", Ends(w, result), UNCHANGED <<call, stored>>,
         spoiled' \in {spoiled, spoiled \union {<<w, call[w]>>}},
         <<w, call[w]>> \notin spoiled' =>
           /\ result = "returned" => RowsOf(w, call[w]) # {}
           /\ result = "raised" => RowsOf(w, call[w]) = {}
  PROVE  Writes!Next
<1>1. Goto(w, "idle") /\ outcome' = [outcome EXCEPT ![w][call[w]] = result]
  BY DEF Ends
<1>2. w \in Busy /\ Busy' = Busy \ {w}
  BY <1>1, BusyWriters
<1>3. Writes!End(w, result)
  BY <1>1, <1>2, EffectIsRows DEF Writes!End, Writes!MaySpoil, Busy
<1>4. QED
  BY <1>3 DEF Writes!Next, Results

(* A step inside the call that stores nothing, but may spoil the call. *)
LEMMA MoveImplements ==
  ASSUME TypeOK, NEW w \in Writers, NEW label \in InCall, pc[w] # "idle", Goto(w, label),
         UNCHANGED <<call, stored, outcome>>,
         spoiled' \in {spoiled, spoiled \union {<<w, call[w]>>}}
  PROVE  Writes!Next
<1>1. label # "idle"
  BY DEF InCall, InAttempt, InTransaction
<1>2. w \in Busy /\ Busy' = Busy
  BY <1>1, BusyWriters
<1>3. Writes!Spoil(w)
  BY <1>2 DEF Writes!Spoil, Writes!MaySpoil, Busy
<1>4. QED
  BY <1>3 DEF Writes!Next

(* The end of an attempt. *)
LEMMA AttemptImplements ==
  ASSUME IInv, NEW w \in Writers, NEW error \in Errors, NEW n \in Nat,
         pc[w] \in InAttempt, AttemptFails(w, error, n)
  PROVE  Writes!Next
<1>1. TypeOK /\ pc[w] # "idle" /\ UNCHANGED <<call, stored>>
  BY DEF IInv, InAttempt, InTransaction, AttemptFails
<1>2. spoiled' \in {spoiled, spoiled \union {<<w, call[w]>>}}
  BY RollbackSteps DEF AttemptFails
<1>3. <<w, call[w]>> \notin spoiled' => RowsOf(w, call[w]) = {}
  BY <1>1, <1>2, SoundIsUnwritten, SoundRows
<1>4. CASE Ends(w, "raised")
  BY <1>1, <1>2, <1>3, <1>4, CallEnds DEF Results
<1>5. CASE Goto(w, "backoff") /\ UNCHANGED outcome
  BY <1>1, <1>2, <1>5, MoveImplements DEF InCall
<1>6. QED
  BY <1>4, <1>5 DEF AttemptFails, RetryOrRaise

(* The rows appear. *)
LEMMA CommitImplements ==
  ASSUME IInv, NEW w \in Writers, Commit(w)
  PROVE  Writes!Next \/ UNCHANGED Writes!vars
<1>1. /\ TypeOK /\ pc[w] = "commit" /\ Goto(w, "return") /\ UNCHANGED <<call, outcome, spoiled>>
      /\ stored' = stored \union {<<w, call[w], row>> : row \in staged[w]}
  BY DEF IInv, Commit
<1>2. /\ staged[w] \in SUBSET Rows /\ (staged[w] # {} => NoRowYet(w))
      /\ <<w, call[w]>> \notin spoiled => staged[w] \in {Rows, {"before", "after"}}
  BY <1>1, BeforeCommit
<1>3. {"before", "after"} = Rows \ Inner
  BY DEF Rows, Inner
<1>4. w \in Busy /\ Busy' = Busy
  BY <1>1, BusyWriters
<1>5. CASE staged[w] = {}
  BY <1>1, <1>4, <1>5, Unseen
<1>6. CASE staged[w] # {}
  <2>1. ~Writes!Effective(w)
    BY <1>1, <1>2, <1>6, SoundRows, EffectIsRows
  <2>2. Writes!TakeEffect(w)
    BY <1>1, <1>2, <1>3, <1>4, <2>1 DEF Writes!TakeEffect, Busy
  <2>3. QED
    BY <2>2 DEF Writes!Next
<1>7. QED
  BY <1>5, <1>6

LEMMA AloneImplements ==
  ASSUME IInv, NEW w \in Writers, WriteAlone(w)
  PROVE  Writes!Next
<1>1. TypeOK /\ SoundInv(w) /\ pc[w] = "after" /\ w \notin holder /\ 0 \in Nat
  BY DEF IInv, WriterInv, WriteAlone
<1>2. <<w, call[w]>> \in spoiled /\ NoRowYet(w) /\ pc[w] \in InAttempt
  BY <1>1 DEF SoundInv, NoRowYet, InAttempt, InTransaction
<1>3. CASE AttemptFails(w, "locked", 0)
  BY <1>1, <1>2, <1>3, AttemptImplements DEF Errors
<1>4. CASE /\ stored' = stored \union {<<w, call[w], "after">>} /\ Goto(w, "commit")
           /\ UNCHANGED <<call, outcome, spoiled>>
  <2>1. w \in Busy /\ Busy' = Busy
    BY <1>1, <1>4, BusyWriters
  <2>2. ~Writes!Effective(w)
    BY <1>1, <1>2, SoundRows, EffectIsRows
  <2>3. {"after"} \in SUBSET Rows
        /\ stored' = stored \union {<<w, call[w], row>> : row \in {"after"}}
    BY <1>4 DEF Rows
  <2>4. Writes!TakeEffect(w)
    BY <1>2, <1>4, <2>1, <2>2, <2>3 DEF Writes!TakeEffect, Busy
  <2>5. QED
    BY <2>4 DEF Writes!Next
<1>5. QED
  BY <1>3, <1>4 DEF WriteAlone

LEMMA CallImplements ==
  ASSUME IInv, NEW w \in Writers, Call(w)
  PROVE  Writes!Next
<1>1. /\ TypeOK /\ SoundInv(w) /\ pc[w] = "idle" /\ call[w] < MaxCalls
      /\ call' = [call EXCEPT ![w] = @ + 1] /\ UNCHANGED <<stored, outcome>>
      /\ Goto(w, "begin") \/ Goto(w, "before")
  BY DEF IInv, WriterInv, Call
<1>2. w \notin Busy /\ Busy' = Busy \union {w}
  BY <1>1, BusyWriters
<1>3. \/ UNCHANGED spoiled
      \/ <<w, call[w]>> \in spoiled /\ spoiled' = spoiled \union {<<w, call[w] + 1>>}
  BY <1>1 DEF Call, SoundInv, InTransaction
<1>4. Writes!Call(w)
  BY <1>1, <1>2, <1>3 DEF Writes!Call, Busy
<1>5. QED
  BY <1>4 DEF Writes!Next

(* The steps between. *)
LEMMA WritingImplements ==
  ASSUME IInv, NEW w \in Writers,
         Begin(w) \/ BackoffOver(w) \/ WriteBefore(w) \/ WriteInner(w) \/ WriteAfter(w)
  PROVE  Writes!Next
<1>1. /\ TypeOK /\ pc[w] # "idle" /\ UNCHANGED <<call, stored, outcome, spoiled>>
      /\ \E label \in {"before", "begin", "inner", "after", "commit"} : Goto(w, label)
  BY DEF IInv, Begin, BackoffOver, WriteBefore, WriteInner, WriteAfter
<1>2. QED
  BY <1>1, MoveImplements DEF InCall, InAttempt, InTransaction

LEMMA FailureImplements ==
  ASSUME IInv, NEW w \in Writers,
         \/ BeginLocked(w) \/ BeginWithin(w) \/ InnerFails(w) \/ OperationFails(w) \/ Release(w)
  PROVE  Writes!Next
<1>1. TypeOK /\ 0 \in Nat /\ 1 \in Nat
  BY DEF IInv
<1>2. CASE pc[w] \in InAttempt /\ \E error \in Errors, n \in {0, 1} : AttemptFails(w, error, n)
  BY <1>1, <1>2, AttemptImplements
<1>3. CASE BeginLocked(w) \/ BeginWithin(w) \/ OperationFails(w)
  BY <1>2, <1>3 DEF BeginLocked, BeginWithin, OperationFails, Errors, InAttempt, InTransaction
<1>4. CASE InnerFails(w)
  <2>1. pc[w] = "inner" /\ pc[w] # "idle" /\ pc[w] \in InAttempt /\ "after" \in InCall
    BY <1>4 DEF InnerFails, InCall, InAttempt, InTransaction
  <2>2. CASE Goto(w, "after") /\ UNCHANGED <<call, stored, outcome>>
             /\ spoiled' \in {spoiled, spoiled \union {<<w, call[w]>>}}
    BY <1>1, <2>1, <2>2, MoveImplements
  <2>3. QED
    BY <1>2, <1>4, <2>1, <2>2 DEF InnerFails, Spoil
<1>5. CASE Release(w)
  <2>1. pc[w] = "commit" /\ pc[w] # "idle" /\ pc[w] \in InAttempt /\ "return" \in InCall
    BY <1>5 DEF Release, InCall, InAttempt, InTransaction
  <2>2. CASE Goto(w, "return") /\ UNCHANGED <<call, stored, outcome, spoiled>>
    BY <1>1, <2>1, <2>2, MoveImplements
  <2>3. QED
    BY <1>2, <1>5, <2>1, <2>2 DEF Release, Errors
<1>6. QED
  BY <1>3, <1>4, <1>5

LEMMA EndImplements ==
  ASSUME IInv, NEW w \in Writers, Return(w) \/ Kill(w)
  PROVE  Writes!Next
<1>1. TypeOK
  BY DEF IInv
<1>2. CASE Return(w)
  <2>1. pc[w] = "return" /\ pc[w] # "idle" /\ Ends(w, "returned") /\ "returned" \in Results
        /\ UNCHANGED <<call, stored, spoiled>>
    BY <1>2 DEF Return, Results
  <2>2. QED
    BY <1>1, <2>1, SoundRows, CallEnds
<1>3. CASE Kill(w)
  BY <1>1, <1>3, CallEnds DEF Kill, Results
<1>4. QED
  BY <1>2, <1>3

LEMMA StepImplements == IInv /\ [Next]_vars => [Writes!Next]_(Writes!vars)
<1> SUFFICES ASSUME IInv, [Next]_vars PROVE Writes!Next \/ UNCHANGED Writes!vars
  OBVIOUS
<1>1. CASE UNCHANGED vars \/ ForeignLock \/ \E w \in Writers : Restart(w)
  <2>1. UNCHANGED <<pc, call, stored, outcome, spoiled>>
    BY <1>1 DEF vars, ForeignLock, Restart
  <2>2. QED
    BY <2>1, Unseen DEF Busy
<1>2. ASSUME NEW w \in Writers, Call(w) \/ Step(w) \/ Kill(w)
      PROVE  Writes!Next \/ UNCHANGED Writes!vars
  BY <1>2, CallImplements, WritingImplements, FailureImplements, CommitImplements,
     AloneImplements, EndImplements DEF Step
<1>3. QED
  BY <1>1, <1>2 DEF Next

(* However often a call is tried, and whatever fails or is killed, it takes *)
(* effect in one step, at most once and for ever, and unless one of its own *)
(* rollbacks failed or it found a transaction open, whole or not at all and *)
(* with its caller told the truth: write_transaction implements             *)
(* AtomicWrites.                                                            *)
THEOREM WritesImplemented == Spec => WritesSpec
<1>1. Init => Writes!Init
  BY DEF Init, Writes!Init, Calls, Writes!Calls
<1>2. IInv /\ [Next]_vars => [Writes!Next]_(Writes!vars)
  BY StepImplements
<1>3. QED
  BY <1>1, <1>2, Invariance, PTL DEF Spec, WritesSpec, Writes!Spec
===============================================================================
