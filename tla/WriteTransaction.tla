--------------------------- MODULE WriteTransaction ---------------------------
(***************************************************************************)
(* storage/database.py: write_transaction and _write_savepoint, by which   *)
(* every row of audit.db and telegram.db is written.  A writer is a        *)
(* connection to one database file, in this process or in another.  Each   *)
(* call runs an operation that writes a row, makes a nested call that      *)
(* writes two more, and writes a last one, as the tests do.  The operation *)
(* may let an error of the nested call pass, or swallow it.  A rollback may *)
(* fail as any statement may, and the code goes on without it.  SQLite     *)
(* itself (locks, journal, savepoints) is external, and so is whoever else *)
(* locks the file.                                                         *)
(***************************************************************************)
EXTENDS Naturals, FiniteSets

CONSTANTS Writers,
          Retries,  \* SQLITE_WRITE_RETRIES
          MaxCalls, \* bound: calls of each writer
          MaxFaults \* bound: statements that fail, and kills

ASSUME WritersAssumption ==
  /\ Retries \in Nat
  /\ MaxCalls \in Nat
  /\ MaxFaults \in Nat

VARIABLES
  pc,      \* where each writer is
  call,    \* how many calls it has begun
  attempt, \* attempts that met a lock, in this call
  nested,  \* the writers whose call is nested in a transaction left open
  holder,  \* external: the writers with a transaction, at most one
  foreign, \* external: somebody else has one
  staged,  \* external: the rows written in the open transaction
  saved,   \* external: the rows it had at the savepoint
  stored,  \* external: the committed rows, by writer, call and row
  outcome, \* history: how each call ended
  spoiled, \* history: the calls in which a rollback failed, or nested as above
  faults   \* faults so far

vars == <<pc, call, attempt, nested, holder, foreign, staged, saved, stored, outcome,
          spoiled, faults>>

Calls == 1..MaxCalls
Rows == {"before", "first", "second", "after"}
Inner == {"first", "second"}

Init ==
  /\ pc = [w \in Writers |-> "idle"]
  /\ call = [w \in Writers |-> 0]
  /\ attempt = [w \in Writers |-> 0]
  /\ nested = {}
  /\ holder = {}
  /\ foreign = FALSE
  /\ staged = [w \in Writers |-> {}]
  /\ saved = [w \in Writers |-> {}]
  /\ stored = {}
  /\ outcome = [w \in Writers |-> [c \in Calls |-> "open"]]
  /\ spoiled = {}
  /\ faults = 0

Goto(w, label) == pc' = [pc EXCEPT ![w] = label]

(* n statements fail in this step. *)
Fault(n) ==
  /\ faults + n <= MaxFaults
  /\ faults' = faults + n

Spoil(w) == spoiled' = spoiled \union {<<w, call[w]>>}

Ends(w, result) ==
  /\ Goto(w, "idle")
  /\ outcome' = [outcome EXCEPT ![w][call[w]] = result]

(* A call that finds its connection in a transaction takes itself for a     *)
(* nested one: its rows wait for a commit that nobody will make.            *)
Call(w) ==
  /\ pc[w] = "idle"
  /\ call[w] < MaxCalls
  /\ call' = [call EXCEPT ![w] = @ + 1]
  /\ attempt' = [attempt EXCEPT ![w] = 0]
  /\ \/ /\ w \notin holder
        /\ Goto(w, "begin")
        /\ nested' = nested \ {w}
        /\ UNCHANGED spoiled
     \/ /\ w \in holder
        /\ Goto(w, "before")
        /\ nested' = nested \union {w}
        /\ spoiled' = spoiled \union {<<w, call[w] + 1>>}
  /\ UNCHANGED <<holder, foreign, staged, saved, stored, outcome, faults>>

(* A tool, a backup or a second instance locks the file, for any time. *)
ForeignLock ==
  /\ holder = {}
  /\ foreign' = ~foreign
  /\ UNCHANGED <<pc, call, attempt, nested, holder, staged, saved, stored, outcome,
                 spoiled, faults>>

-----------------------------------------------------------------------------
(* The end of an attempt *)

(* Mutant of Rollback: the transaction stays open. *)
RollbackForgotten(w) == UNCHANGED <<holder, staged>>

Rollback(w) ==
  /\ holder' = holder \ {w}
  /\ staged' = [staged EXCEPT ![w] = {}]

(* _rollback_quietly, after n failures: it may fail itself, and then the    *)
(* transaction stays open.                                                  *)
RollbackQuietly(w, n) ==
  \/ /\ Rollback(w)
     /\ Fault(n)
     /\ UNCHANGED spoiled
  \/ /\ w \in holder
     /\ Fault(n + 1)
     /\ Spoil(w)
     /\ UNCHANGED <<holder, staged>>

(* Mutant of RetryOrRaise: the attempts are not counted. *)
RetryForever(w) ==
  /\ Goto(w, "backoff")
  /\ UNCHANGED <<attempt, outcome>>

(* A lock is retried after a pause while attempts are left. *)
RetryOrRaise(w) ==
  \/ /\ attempt[w] < Retries
     /\ attempt' = [attempt EXCEPT ![w] = @ + 1]
     /\ Goto(w, "backoff")
     /\ UNCHANGED outcome
  \/ /\ attempt[w] >= Retries
     /\ Ends(w, "raised")
     /\ UNCHANGED attempt

(* The exception handler of write_transaction, after n failures; or that of *)
(* _write_savepoint, which goes back to its savepoint where it can, leaves  *)
(* the transaction around it to others and tries nothing again.  SQLite may *)
(* have given that transaction up; either way nobody commits what is staged.*)
AttemptFails(w, error, n) ==
  /\ \/ /\ w \notin nested
        /\ RollbackQuietly(w, n)
        /\ \/ error = "locked" /\ RetryOrRaise(w)
           \/ error = "other" /\ Ends(w, "raised") /\ UNCHANGED attempt
     \/ /\ w \in nested
        /\ Fault(n)
        /\ holder' \in {holder, holder \ {w}}
        /\ Ends(w, "raised")
        /\ UNCHANGED <<attempt, staged, spoiled>>
  /\ UNCHANGED <<call, nested, foreign, saved, stored>>

Errors == {"locked", "other"}

-----------------------------------------------------------------------------
(* BEGIN IMMEDIATE *)

Begin(w) ==
  /\ pc[w] = "begin"
  /\ holder = {} /\ ~foreign
  /\ holder' = {w}
  /\ staged' = [staged EXCEPT ![w] = {}]
  /\ Goto(w, "before")
  /\ UNCHANGED <<call, attempt, nested, foreign, saved, stored, outcome, spoiled, faults>>

(* Another connection holds the lock for longer than the busy timeout. *)
BeginLocked(w) ==
  /\ pc[w] = "begin"
  /\ w \notin holder
  /\ holder # {} \/ foreign
  /\ AttemptFails(w, "locked", 0)

(* Its own transaction is still open, as the rollback before a retry failed.*)
BeginWithin(w) ==
  /\ pc[w] = "begin"
  /\ w \in holder
  /\ AttemptFails(w, "other", 0)

BackoffOver(w) ==
  /\ pc[w] = "backoff"
  /\ Goto(w, "begin")
  /\ UNCHANGED <<call, attempt, nested, holder, foreign, staged, saved, stored, outcome,
                 spoiled, faults>>

-----------------------------------------------------------------------------
(* The operation *)

Write(w, rows) == staged' = [staged EXCEPT ![w] = @ \union rows]

(* The first row, and the savepoint of the nested call. *)
WriteBefore(w) ==
  /\ pc[w] = "before"
  /\ Write(w, {"before"})
  /\ saved' = [saved EXCEPT ![w] = staged'[w]]
  /\ Goto(w, "inner")
  /\ UNCHANGED <<call, attempt, nested, holder, foreign, stored, outcome, spoiled, faults>>

(* Mutant of WriteInner: the nested call commits what was written so far. *)
InnerCommits(w) ==
  /\ pc[w] = "inner"
  /\ stored' = stored \union
       {<<w, call[w], row>> : row \in staged[w] \union Inner}
  /\ staged' = [staged EXCEPT ![w] = {}]
  /\ Goto(w, "after")
  /\ UNCHANGED <<call, attempt, nested, holder, foreign, saved, outcome, spoiled, faults>>

(* The nested operation writes and its savepoint is released. *)
WriteInner(w) ==
  /\ pc[w] = "inner"
  /\ Write(w, Inner)
  /\ Goto(w, "after")
  /\ UNCHANGED <<call, attempt, nested, holder, foreign, saved, stored, outcome, spoiled,
                 faults>>

(* Mutant of InnerFails: the savepoint is released, not rolled back to. *)
InnerKept(w) ==
  /\ pc[w] = "inner"
  /\ Fault(1)
  /\ Write(w, {"first"})
  /\ Goto(w, "after")
  /\ UNCHANGED <<call, attempt, nested, holder, foreign, saved, stored, outcome, spoiled>>

(* It fails before its last row is written: ROLLBACK TO SAVEPOINT.  That    *)
(* may fail too, with the row still there, or because SQLite has given the  *)
(* transaction up.  The operation swallows the error and goes on, or lets   *)
(* it pass, and then the whole transaction is rolled back.                  *)
InnerFails(w) ==
  /\ pc[w] = "inner"
  /\ \/ /\ Fault(1)
        /\ staged' = [staged EXCEPT ![w] = saved[w]]
        /\ Goto(w, "after")
        /\ UNCHANGED <<call, attempt, nested, holder, foreign, saved, stored, outcome,
                       spoiled>>
     \/ /\ \/ Fault(2) /\ Write(w, {"first"}) /\ UNCHANGED holder
           \/ Fault(1) /\ Rollback(w)
        /\ Spoil(w)
        /\ Goto(w, "after")
        /\ UNCHANGED <<call, attempt, nested, foreign, saved, stored, outcome>>
     \/ \E error \in Errors : AttemptFails(w, error, 1)

WriteAfter(w) ==
  /\ pc[w] = "after"
  /\ w \in holder
  /\ Write(w, {"after"})
  /\ Goto(w, "commit")
  /\ UNCHANGED <<call, attempt, nested, holder, foreign, saved, stored, outcome, spoiled,
                 faults>>

(* The transaction is gone: the connection is in autocommit mode, and the   *)
(* last row is stored by itself, unless somebody holds the lock.            *)
WriteAlone(w) ==
  /\ pc[w] = "after"
  /\ w \notin holder
  /\ \/ /\ holder = {} /\ ~foreign
        /\ stored' = stored \union {<<w, call[w], "after">>}
        /\ Goto(w, "commit")
        /\ UNCHANGED <<call, attempt, nested, holder, foreign, staged, saved, outcome,
                       spoiled, faults>>
     \/ /\ holder # {} \/ foreign
        /\ AttemptFails(w, "locked", 0)

(* A statement of the operation, or the commit itself, fails. *)
OperationFails(w) ==
  /\ pc[w] \in {"before", "after", "commit"}
  /\ pc[w] = "commit" => w \in holder
  /\ \E error \in Errors : AttemptFails(w, error, 1)

(* With no transaction it stores nothing, and does not fail. *)
Commit(w) ==
  /\ pc[w] = "commit"
  /\ w \notin nested
  /\ stored' = stored \union {<<w, call[w], row>> : row \in staged[w]}
  /\ holder' = holder \ {w}
  /\ staged' = [staged EXCEPT ![w] = {}]
  /\ Goto(w, "return")
  /\ UNCHANGED <<call, attempt, nested, foreign, saved, outcome, spoiled, faults>>

(* A nested call commits nothing; it fails when its savepoint is gone. *)
Release(w) ==
  /\ pc[w] = "commit"
  /\ w \in nested
  /\ \/ /\ w \in holder
        /\ Goto(w, "return")
        /\ UNCHANGED <<call, attempt, nested, holder, foreign, staged, saved, stored,
                       outcome, spoiled, faults>>
     \/ /\ w \notin holder
        /\ AttemptFails(w, "other", 0)

(* write_transaction returns the result of the operation. *)
Return(w) ==
  /\ pc[w] = "return"
  /\ Ends(w, "returned")
  /\ UNCHANGED <<call, attempt, nested, holder, foreign, staged, saved, stored, spoiled,
                 faults>>

(* The writer's process is killed; SQLite forgets what it had not committed.*)
Kill(w) ==
  /\ pc[w] # "idle"
  /\ Fault(1)
  /\ Rollback(w)
  /\ Ends(w, "killed")
  /\ UNCHANGED <<call, attempt, nested, foreign, saved, stored, spoiled>>

(* Between two calls it ends and starts again; this closes what was left    *)
(* open.                                                                    *)
Restart(w) ==
  /\ pc[w] = "idle"
  /\ w \in holder
  /\ Rollback(w)
  /\ UNCHANGED <<pc, call, attempt, nested, foreign, saved, stored, outcome, spoiled,
                 faults>>

-----------------------------------------------------------------------------
Step(w) ==
  \/ Begin(w)
  \/ BeginLocked(w)
  \/ BeginWithin(w)
  \/ BackoffOver(w)
  \/ WriteBefore(w)
  \/ WriteInner(w)
  \/ InnerFails(w)
  \/ WriteAfter(w)
  \/ WriteAlone(w)
  \/ OperationFails(w)
  \/ Commit(w)
  \/ Release(w)
  \/ Return(w)

Next == ForeignLock \/ \E w \in Writers : Call(w) \/ Step(w) \/ Kill(w) \/ Restart(w)

Spec == Init /\ [][Next]_vars

(* Every writer that is in a call is scheduled. *)
FairSpec == Spec /\ \A w \in Writers : WF_vars(Step(w))

-----------------------------------------------------------------------------
TypeOK ==
  /\ pc \in [Writers -> {"idle", "begin", "backoff", "before", "inner", "after",
                         "commit", "return"}]
  /\ call \in [Writers -> 0..MaxCalls]
  /\ \A w \in Writers : pc[w] # "idle" => call[w] > 0
  /\ attempt \in [Writers -> 0..Retries]
  /\ nested \subseteq Writers
  /\ holder \subseteq Writers
  /\ foreign \in BOOLEAN
  /\ staged \in [Writers -> SUBSET Rows]
  /\ saved \in [Writers -> SUBSET Rows]
  /\ stored \subseteq Writers \X Calls \X Rows
  /\ outcome \in [Writers -> [Calls -> {"open", "returned", "raised", "killed"}]]
  /\ spoiled \subseteq Writers \X Calls
  /\ faults \in 0..MaxFaults

RowsOf(w, c) == {row \in Rows : <<w, c, row>> \in stored}

(* A call is stored as a whole or not at all, whatever its attempts met; a  *)
(* nested call that failed is missing as a whole; and the caller knows      *)
(* which: what raised left nothing behind, what returned is there.  This    *)
(* holds of every call in which no rollback failed, unless a transaction    *)
(* was open when it began.                                                  *)
AtomicCalls ==
  \A w \in Writers, c \in Calls :
    <<w, c>> \notin spoiled =>
      /\ RowsOf(w, c) \in {{}, Rows, {"before", "after"}}
      /\ outcome[w][c] = "raised" => RowsOf(w, c) = {}
      /\ outcome[w][c] = "returned" => RowsOf(w, c) # {}

(* No call leaves its connection inside a transaction, where the next one   *)
(* takes itself for a nested call and commits nothing: only a rollback that *)
(* fails does, and then the transaction is that of the calls so spoiled.    *)
(* No other call is nested, none runs without a transaction of its own, and *)
(* once the transaction is closed the calls are as good as before.          *)
NoTransactionLeftOpen ==
  \A w \in Writers :
    <<w, call[w]>> \notin spoiled =>
      /\ w \in holder <=> pc[w] \in {"before", "inner", "after", "commit"}
      /\ pc[w] # "idle" => w \notin nested

(* Attempts, retries, savepoints and rollbacks implement AtomicWrites: the  *)
(* rows of a call appear in one step, at most once however often it was     *)
(* tried, and stay; no caller hears of an effect that did not happen, or    *)
(* hears that nothing happened when it did.  Of a spoiled call only the     *)
(* first part is promised; and a call is spoiled by what fails in it, or by *)
(* its predecessor.                                                         *)
Writes == INSTANCE AtomicWrites WITH busy <- {w \in Writers : pc[w] # "idle"}

WritesSpec == Writes!Spec

(* However long others hold the lock, every call ends: the retries are      *)
(* bounded, and so is the time the event loop is blocked in them.  It does  *)
(* so with a transaction left open too, which locks out all the others.     *)
EveryCallEnds == \A w \in Writers : (pc[w] # "idle") ~> (pc[w] = "idle")
=============================================================================
