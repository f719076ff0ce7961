------------------------------ MODULE Startup --------------------------------
(***************************************************************************)
(* From the start of a process to its end: the files in /data that a start *)
(* reads and writes (normalized_audit.py, telegram/token.py,               *)
(* telegram/database.py) and the tasks it then runs (main.py).             *)
(*                                                                         *)
(* A process has a slot, which stands for its pid: in a container every    *)
(* start gets the same one.  Two slots are two processes on one /data.     *)
(***************************************************************************)
EXTENDS Naturals, FiniteSets

CONSTANTS Slots,      \* pids
          Tokens,     \* bot tokens
          None,       \* no token, no key, no error
          MaxStarts,  \* bound: processes started
          MaxFaults   \* bound: kills, I/O errors and interrupts

ASSUME BoundsAssumption ==
  /\ MaxStarts \in Nat /\ MaxFaults \in Nat
  /\ None \notin Tokens /\ None \notin Nat
  /\ None \notin {"bridge", "telegram", "interrupt"}

VARIABLES
  keyFile,   \* /data/audit.key
  tokenFile, \* the file named by bot_token_file
  tmp,       \* .<token file>.<pid>.tmp of each pid
  rows,      \* telegram.db: 0 absent, 1 as in audit.db, 2 changed since
  starts,    \* processes started; also the source of fresh keys
  faults,    \* faults so far
  pc,        \* where each process is
  memory,    \* what each process has read
  tasks      \* its tasks

files == <<keyFile, tokenFile, tmp, rows>>
vars  == <<files, starts, faults, pc, memory, tasks>>

(* The two kinds of rows that change: telegram_state, and records that are  *)
(* deleted when they expire.                                                *)
RowKinds  == {"state", "record"}
TaskNames == {"bridge", "telegram", "publisher"}
Awaited   == {"bridge", "telegram"}

(* What ends _run_services: the error of a task, or an interrupt. *)
Causes == Awaited \cup {"interrupt"}

Memories ==
  [key : 0..MaxStarts \cup {None}, new : 0..MaxStarts \cup {None},
   token : Tokens \cup {None}, import : Tokens \cup {None}, first : Causes \cup {None}]
Outcomes == {"none", "running", "failed", "cancelled", "returned"}

NoMemory == [key |-> None, new |-> None, token |-> None, import |-> None, first |-> None]
NoTasks  == [t \in TaskNames |-> "none"]

Starting == {"key", "new key", "databases", "token", "create", "write", "replace",
             "migrate", "run"}
Serving  == {"serve", "gather", "stop publisher", "cancel", "close"}

Fault == faults < MaxFaults /\ faults' = faults + 1

Init ==
  /\ keyFile = None /\ tokenFile = None
  /\ tmp = [p \in Slots |-> None]
  /\ rows = [k \in RowKinds |-> 0]
  /\ starts = 0 /\ faults = 0
  /\ pc = [p \in Slots |-> "down"]
  /\ memory = [p \in Slots |-> NoMemory]
  /\ tasks = [p \in Slots |-> NoTasks]

-----------------------------------------------------------------------------
(* Steps of one process. *)

Goes(p, from, to) == pc[p] = from /\ pc' = [pc EXCEPT ![p] = to]
Keeps(p, field, value) == memory' = [memory EXCEPT ![p][field] = value]

(* amain up to the audit settings.  The options are read here, once; what   *)
(* they say is chosen where it is used.                                     *)
Launch(p) ==
  /\ starts < MaxStarts
  /\ pc[p] \in {"down", "ended"} /\ pc' = [pc EXCEPT ![p] = "key"]
  /\ memory' = [memory EXCEPT ![p] = NoMemory]
  /\ starts' = starts + 1
  /\ tasks' = [tasks EXCEPT ![p] = NoTasks]
  /\ UNCHANGED <<files, faults>>

(* load_or_create_app_audit_key: only a file that is not there is created. *)
ReadKey(p) ==
  /\ \/ keyFile # None /\ Goes(p, "key", "databases") /\ Keeps(p, "key", keyFile)
     \/ keyFile = None /\ Goes(p, "key", "new key") /\ Keeps(p, "new", starts)
  /\ UNCHANGED <<files, starts, faults, tasks>>

(* Mutant of PublishKey: os.replace in the place of os.link. *)
PublishKeyOver(p) ==
  /\ Goes(p, "new key", "databases")
  /\ keyFile' = memory[p].new
  /\ Keeps(p, "key", memory[p].new)
  /\ UNCHANGED <<tokenFile, tmp, rows, starts, faults, tasks>>

(* _create_app_audit_key: os.link publishes the key unless another process *)
(* has; then the published one is loaded.                                  *)
PublishKey(p) ==
  /\ Goes(p, "new key", "databases")
  /\ keyFile' = IF keyFile = None THEN memory[p].new ELSE keyFile
  /\ Keeps(p, "key", keyFile')
  /\ UNCHANGED <<tokenFile, tmp, rows, starts, faults, tasks>>

(* build_service opens audit.db; _build_telegram_services goes on only with *)
(* Telegram enabled.                                                        *)
OpenDatabases(p) ==
  /\ \E telegram \in BOOLEAN : Goes(p, "databases", IF telegram THEN "token" ELSE "run")
  /\ UNCHANGED <<files, starts, faults, memory, tasks>>

(* load_or_import_token without a token to import; a missing file is an     *)
(* error.                                                                   *)
ReadToken(p) ==
  /\ Goes(p, "token", IF tokenFile = None THEN "ended" ELSE "migrate")
  /\ Keeps(p, "token", tokenFile)
  /\ UNCHANGED <<files, starts, faults, tasks>>

ImportToken(p) ==
  /\ Goes(p, "token", "create")
  /\ \E t \in Tokens : Keeps(p, "import", t)
  /\ UNCHANGED <<files, starts, faults, tasks>>

(* Mutant of CreateTemporary: it waits until a leftover is gone. *)
CreateTemporaryWaits(p) ==
  /\ tmp[p] = None /\ Goes(p, "create", "write")
  /\ tmp' = [tmp EXCEPT ![p] = "partial"]
  /\ UNCHANGED <<keyFile, tokenFile, rows, starts, faults, memory, tasks>>

(* O_EXCL: with a leftover of the same pid the start fails. *)
CreateTemporary(p) ==
  /\ \/ /\ tmp[p] = None /\ Goes(p, "create", "write")
        /\ tmp' = [tmp EXCEPT ![p] = "partial"]
     \/ tmp[p] # None /\ Goes(p, "create", "ended") /\ UNCHANGED tmp
  /\ UNCHANGED <<keyFile, tokenFile, rows, starts, faults, memory, tasks>>

WriteTemporary(p) ==
  /\ Goes(p, "write", "replace")
  /\ tmp' = [tmp EXCEPT ![p] = memory[p].import]
  /\ UNCHANGED <<keyFile, tokenFile, rows, starts, faults, memory, tasks>>

(* Mutant of ReplaceToken: the file is replaced before it is written. *)
ReplaceTokenEarly(p) ==
  /\ pc[p] \in {"write", "replace"} /\ pc' = [pc EXCEPT ![p] = "migrate"]
  /\ tokenFile' = tmp[p] /\ tmp' = [tmp EXCEPT ![p] = None]
  /\ Keeps(p, "token", memory[p].import)
  /\ UNCHANGED <<keyFile, rows, starts, faults, tasks>>

ReplaceToken(p) ==
  /\ Goes(p, "replace", "migrate")
  /\ tokenFile' = tmp[p] /\ tmp' = [tmp EXCEPT ![p] = None]
  /\ Keeps(p, "token", memory[p].import)
  /\ UNCHANGED <<keyFile, rows, starts, faults, tasks>>

(* Mutant of Migrated: INSERT OR REPLACE. *)
MigratedOver(k) == 1

(* INSERT OR IGNORE of a row of audit.db. *)
Migrated(k) == IF rows[k] = 0 THEN 1 ELSE rows[k]

(* migrate_telegram_tables, one write transaction at every start. *)
Migrate(p) ==
  /\ Goes(p, "migrate", "run")
  /\ rows' = [k \in RowKinds |-> Migrated(k)]
  /\ UNCHANGED <<keyFile, tokenFile, tmp, starts, faults, memory, tasks>>

(* _run_services starts the tasks. *)
RunServices(p) ==
  /\ Goes(p, "run", "serve")
  /\ \E publisher \in {"running", "none"} :
       tasks' = [tasks EXCEPT ![p] =
         [bridge    |-> "running",
          telegram  |-> IF memory[p].token # None THEN "running" ELSE "none",
          publisher |-> publisher]]
  /\ UNCHANGED <<files, starts, faults, memory>>

(* An error of a file or a database while starting.  An error of a          *)
(* directory's fsync comes after the file is in place, and one of os.write  *)
(* or os.fsync leaves the temporary file behind.                            *)
StartFails(p) ==
  /\ pc[p] \in Starting \ {"run"}
  /\ Fault
  /\ pc' = [pc EXCEPT ![p] = "ended"]
  /\ keyFile' \in IF pc[p] = "new key" /\ keyFile = None
                  THEN {None, memory[p].new} ELSE {keyFile}
  /\ tokenFile' \in IF pc[p] = "replace" THEN {tokenFile, tmp[p]} ELSE {tokenFile}
  /\ tmp' = IF pc[p] = "replace" THEN [tmp EXCEPT ![p] = None] ELSE tmp
  /\ UNCHANGED <<rows, starts, memory, tasks>>

-----------------------------------------------------------------------------
(* Running and shutting down. *)

Ends(ts, p, outcome) == [t \in TaskNames |-> IF t \in ts /\ tasks[p][t] = "running"
                                             THEN outcome ELSE tasks[p][t]]
Alone(p) == tasks[p].telegram = "none" /\ tasks[p].publisher = "none"

(* The Telegram service changes its rows, and the expired ones go. *)
ChangeRow(p, k) ==
  /\ pc[p] \in Serving /\ tasks[p].telegram = "running"
  /\ rows' = [rows EXCEPT ![k] = 2]
  /\ UNCHANGED <<keyFile, tokenFile, tmp, starts, faults, pc, memory, tasks>>

RecordExpires(p) ==
  /\ pc[p] \in Serving /\ tasks[p].telegram = "running"
  /\ rows' = [rows EXCEPT !["record"] = 0]
  /\ UNCHANGED <<keyFile, tokenFile, tmp, starts, faults, pc, memory, tasks>>

(* An exception leaves run_forever or the Telegram service's run. *)
TaskFails(p, t) ==
  /\ pc[p] \in Serving /\ tasks[p][t] = "running"
  /\ Fault
  /\ tasks' = [tasks EXCEPT ![p][t] = "failed"]
  /\ UNCHANGED <<files, starts, pc, memory>>

(* Mutant of Noticed: asyncio.wait for all the tasks. *)
NoticedWhenAllEnd(p) == \A t \in Awaited : tasks[p][t] # "running"

Noticed(p) == \E t \in Awaited : tasks[p][t] = "failed"

(* Mutant of Notice: the exception is not looked at. *)
NoticeUntold(p) ==
  /\ Noticed(p)
  /\ Goes(p, "serve", IF Alone(p) THEN "ended" ELSE "gather")
  /\ UNCHANGED <<files, starts, faults, memory, tasks>>

(* asyncio.wait returns at the first exception; the others are cancelled.   *)
(* A bridge that runs alone is awaited as it is.                            *)
Notice(p) ==
  /\ Noticed(p)
  /\ Goes(p, "serve", IF Alone(p) THEN "ended" ELSE "gather")
  /\ \E t \in Awaited : tasks[p][t] = "failed" /\ Keeps(p, "first", t)
  /\ UNCHANGED <<files, starts, faults, tasks>>

(* gather waits for the cancelled tasks; then telegram_service.stop(). *)
Gathered(p) ==
  /\ Goes(p, "gather", "stop publisher")
  /\ tasks' = [tasks EXCEPT ![p] = Ends(Awaited, p, "cancelled")]
  /\ UNCHANGED <<files, starts, faults, memory>>

(* SIGINT cancels main where it waits: then the finally clause runs, with   *)
(* the tasks still running.  In the finally clause it skips the rest, and   *)
(* asyncio.run cancels what is left.  Either way CancelledError leaves      *)
(* _run_services in the place of first_exception.                           *)
Interrupt(p) ==
  /\ Fault
  /\ IF Alone(p) \/ pc[p] \in {"stop publisher", "cancel", "close"}
     THEN /\ pc[p] \in Serving /\ pc' = [pc EXCEPT ![p] = "ended"]
          /\ tasks' = [tasks EXCEPT ![p] = Ends(TaskNames, p, "cancelled")]
     ELSE /\ pc[p] \in {"serve", "gather"} /\ pc' = [pc EXCEPT ![p] = "stop publisher"]
          /\ UNCHANGED tasks
  /\ Keeps(p, "first", "interrupt")
  /\ UNCHANGED <<files, starts>>

(* telegram_service.stop() asks run to return. *)
TelegramReturns(p) ==
  /\ pc[p] \in {"stop publisher", "cancel"} /\ tasks[p].telegram = "running"
  /\ tasks' = [tasks EXCEPT ![p].telegram = "returned"]
  /\ UNCHANGED <<files, starts, faults, pc, memory>>

(* Mutant of StopPublisher: only the flag is set, as for the Telegram        *)
(* service.                                                                  *)
StopPublisherAsks(p) ==
  /\ Goes(p, "stop publisher", "cancel")
  /\ UNCHANGED <<files, starts, faults, memory, tasks>>

(* health_event_publisher.stop() cancels its task and awaits it. *)
StopPublisher(p) ==
  /\ Goes(p, "stop publisher", "cancel")
  /\ tasks' = [tasks EXCEPT ![p] = Ends({"publisher"}, p, "cancelled")]
  /\ UNCHANGED <<files, starts, faults, memory>>

CancelTasks(p) ==
  /\ Goes(p, "cancel", "close")
  /\ tasks' = [tasks EXCEPT ![p] = Ends(Awaited, p, "cancelled")]
  /\ UNCHANGED <<files, starts, faults, memory>>

(* bridge_service.close(), which run_forever has called, then the exception *)
(* is raised again.                                                         *)
CloseBridge(p) ==
  /\ Goes(p, "close", "ended")
  /\ UNCHANGED <<files, starts, faults, memory, tasks>>

(* SIGTERM has no handler: a stopped container is a killed process. *)
Kill(p) ==
  /\ pc[p] \notin {"down", "ended"}
  /\ Fault
  /\ pc' = [pc EXCEPT ![p] = "down"]
  /\ memory' = [memory EXCEPT ![p] = NoMemory]
  /\ tasks' = [tasks EXCEPT ![p] = NoTasks]
  /\ UNCHANGED <<files, starts>>

Starts(p) ==
  \/ ReadKey(p) \/ PublishKey(p) \/ OpenDatabases(p)
  \/ ReadToken(p) \/ ImportToken(p) \/ CreateTemporary(p) \/ WriteTemporary(p)
  \/ ReplaceToken(p) \/ Migrate(p) \/ RunServices(p)

Stops(p) ==
  \/ Notice(p) \/ Gathered(p) \/ StopPublisher(p) \/ CancelTasks(p) \/ CloseBridge(p)

Next ==
  \/ \E p \in Slots :
       \/ Launch(p) \/ Starts(p) \/ StartFails(p)
       \/ Stops(p) \/ Interrupt(p) \/ TelegramReturns(p) \/ Kill(p)
       \/ RecordExpires(p)
       \/ \E k \in RowKinds : ChangeRow(p, k)
       \/ \E t \in Awaited : TaskFails(p, t)

Spec == Init /\ [][Next]_vars

(* A process that can go on does.  That it is started, fails or is killed   *)
(* is nobody's duty.                                                        *)
FairSpec == Spec /\ \A p \in Slots : WF_vars(Starts(p)) /\ WF_vars(Stops(p))

-----------------------------------------------------------------------------
(* Properties. *)

TypeOK ==
  /\ keyFile \in 0..MaxStarts \cup {None}
  /\ tokenFile \in Tokens \cup {None}
  /\ tmp \in [Slots -> Tokens \cup {None, "partial"}]
  /\ rows \in [RowKinds -> 0..2]
  /\ starts \in 0..MaxStarts /\ faults \in 0..MaxFaults
  /\ pc \in [Slots -> Starting \cup Serving \cup {"down", "ended"}]
  /\ memory \in [Slots -> Memories]
  /\ tasks \in [Slots -> [TaskNames -> Outcomes]]

(* Whoever creates it, and whatever fails in between: a process that has an *)
(* audit key has the published one, so that the references of two processes *)
(* and of two runs agree (_create_app_audit_key, "we load and validate the  *)
(* published key").                                                         *)
OneKey == \A p \in Slots : memory[p].key # None => memory[p].key = keyFile

(* The token file holds a whole token whenever a process may read it, and a *)
(* process that goes on to serve Telegram has a token: the one it was told  *)
(* to import, if any (_write_token_atomic, load_or_import_token).           *)
TokenWhole ==
  /\ tokenFile \in Tokens \cup {None}
  /\ \A p \in Slots :
       /\ pc[p] = "migrate" => memory[p].token # None
       /\ memory[p].token # None /\ memory[p].import # None =>
            memory[p].token = memory[p].import

(* No start takes the Telegram state back to what audit.db held, and only   *)
(* an expired record may come back (migrate_telegram_tables at every start).*)
StateKept == [][rows'["state"] >= rows["state"]
                /\ (rows["record"] = 2 => rows'["record"] # 1)]_rows

(* A process that ended by itself left no task behind, and tells why: it    *)
(* names a task that failed, and when one has failed it never ends without  *)
(* an error, unless an interrupt overtook it (_run_services,                *)
(* _first_task_exception).                                                  *)
EndsClean ==
  \A p \in Slots : pc[p] = "ended" =>
    /\ \A t \in TaskNames : tasks[p][t] # "running"
    /\ memory[p].first \in Awaited => tasks[p][memory[p].first] = "failed"
    /\ memory[p].first = None => \A t \in Awaited : tasks[p][t] # "failed"

(* Every start comes to serve or to an end: also beside a second process,   *)
(* and with what an earlier one left in /data.                              *)
StartEnds ==
  \A p \in Slots : pc[p] \in Starting ~> pc[p] \in {"serve", "ended", "down"}

(* When one of the two tasks fails the process ends, for the other is       *)
(* cancelled: a bridge without Telegram polling does not stay (_run_services).*)
FailureEnds ==
  \A p \in Slots :
    (\E t \in Awaited : tasks[p][t] = "failed") ~> pc[p] \in {"ended", "down"}
=============================================================================
