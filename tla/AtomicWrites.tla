----------------------------- MODULE AtomicWrites -----------------------------
(***************************************************************************)
(* What write_transaction promises its callers, with no locks, no retries, *)
(* no savepoints and no open transactions: a call of a writer takes effect *)
(* in one step, once and for ever, with or without the rows of its nested  *)
(* call; or not at all.  Its caller is told which, unless it is killed.    *)
(* A call may be spoiled by something that fails in it, and then the next  *)
(* one too: such a call takes effect once at most, in any of its rows, and *)
(* its caller may be told anything.                                        *)
(***************************************************************************)
EXTENDS Naturals

CONSTANTS Writers,
          MaxCalls,  \* how many calls each writer makes
          Rows,      \* the rows of a call
          Inner      \* those of its nested call

VARIABLES busy,    \* the writers that are in a call
          call,    \* how many calls each writer has begun
          stored,  \* the rows that are in the database, by writer and call
          outcome, \* how each call ended
          spoiled  \* the calls of which less is promised

vars == <<busy, call, stored, outcome, spoiled>>

Calls == 1..MaxCalls

Effective(w) == \E row \in Rows : <<w, call[w], row>> \in stored

Init ==
  /\ busy = {}
  /\ call = [w \in Writers |-> 0]
  /\ stored = {}
  /\ outcome = [w \in Writers |-> [c \in Calls |-> "open"]]
  /\ spoiled = {}

Call(w) ==
  /\ w \notin busy /\ call[w] < MaxCalls
  /\ busy' = busy \union {w}
  /\ call' = [call EXCEPT ![w] = @ + 1]
  /\ \/ UNCHANGED spoiled
     \/ <<w, call[w]>> \in spoiled /\ spoiled' = spoiled \union {<<w, call[w] + 1>>}
  /\ UNCHANGED <<stored, outcome>>

MaySpoil(w) == spoiled' \in {spoiled, spoiled \union {<<w, call[w]>>}}

Spoil(w) ==
  /\ w \in busy
  /\ MaySpoil(w)
  /\ UNCHANGED <<busy, call, stored, outcome>>

TakeEffect(w) ==
  /\ w \in busy /\ ~Effective(w)
  /\ \E rows \in SUBSET Rows :
       /\ <<w, call[w]>> \notin spoiled => rows \in {Rows, Rows \ Inner}
       /\ stored' = stored \union {<<w, call[w], row>> : row \in rows}
  /\ UNCHANGED <<busy, call, outcome, spoiled>>

End(w, result) ==
  /\ w \in busy
  /\ MaySpoil(w)
  /\ <<w, call[w]>> \notin spoiled' =>
       /\ result = "returned" => Effective(w)
       /\ result = "raised" => ~Effective(w)
  /\ busy' = busy \ {w}
  /\ outcome' = [outcome EXCEPT ![w][call[w]] = result]
  /\ UNCHANGED <<call, stored>>

Next ==
  \E w \in Writers :
    \/ Call(w)
    \/ Spoil(w)
    \/ TakeEffect(w)
    \/ \E result \in {"returned", "raised", "killed"} : End(w, result)

Spec == Init /\ [][Next]_vars
=============================================================================
