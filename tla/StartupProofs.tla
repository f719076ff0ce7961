---------------------------- MODULE StartupProofs ----------------------------
(***************************************************************************)
(* Proofs about Startup for any number of processes on one /data, of       *)
(* tokens, starts and faults; and about Configuration, which main.py reads *)
(* before any of it, for any options and environments.                     *)
(***************************************************************************)
EXTENDS Startup, Configuration, TLAPS

(* What a process knows of the token, from step to step. *)
TokenSteps ==
  \A p \in Slots :
    /\ pc[p] \in {"key", "new key", "databases", "token"} => memory[p].import = None
    /\ pc[p] \in {"create", "write", "replace"} => memory[p].import \in Tokens
    /\ pc[p] \in Starting \ {"migrate", "run"} => memory[p].token = None
    /\ pc[p] = "replace" => tmp[p] = memory[p].import

(* Tasks run from serving to the step that stops them, the failure that is  *)
(* told is one that happened, and where none is told none has happened or   *)
(* it will still be noticed.                                                *)
TaskSteps ==
  \A p \in Slots :
    /\ pc[p] \in Starting \cup {"close"} => \A t \in TaskNames : tasks[p][t] # "running"
    /\ pc[p] = "cancel" => tasks[p].publisher # "running"
    /\ pc[p] \in Starting => memory[p].first = None
    /\ memory[p].first \in Awaited => tasks[p][memory[p].first] = "failed"
    /\ memory[p].first = None =>
         \/ pc[p] \in {"down", "serve"}
         \/ /\ pc[p] \in Starting \cup {"ended"}
            /\ \A t \in Awaited : tasks[p][t] # "failed"

IInv == TypeOK /\ OneKey /\ TokenWhole /\ EndsClean /\ TokenSteps /\ TaskSteps

-----------------------------------------------------------------------------
(* What a process remembers in one field. *)
LEMMA KeepsField ==
  ASSUME memory \in [Slots -> Memories], NEW p \in Slots, NEW m \in Memories,
         memory' = [memory EXCEPT ![p] = m]
  PROVE  /\ memory' \in [Slots -> Memories]
         /\ memory'[p] = m
         /\ \A q \in Slots \ {p} : memory'[q] = memory[q]
OBVIOUS

(* What Keeps does to the fields the invariant speaks of. *)
LEMMA KeepsKey ==
  ASSUME memory \in [Slots -> Memories], NEW p \in Slots, NEW v \in 0..MaxStarts \cup {None},
         Keeps(p, "key", v)
  PROVE  /\ memory' \in [Slots -> Memories]
         /\ memory'[p].key = v /\ memory'[p].token = memory[p].token
         /\ memory'[p].import = memory[p].import /\ memory'[p].first = memory[p].first
         /\ \A q \in Slots \ {p} : memory'[q] = memory[q]
<1> DEFINE m == [memory[p] EXCEPT !.key = v]
<1>1. memory[p] \in Memories
  OBVIOUS
<1>2. m \in Memories
  BY <1>1 DEF Memories
<1>3. /\ m.key = v /\ m.token = memory[p].token
      /\ m.import = memory[p].import /\ m.first = memory[p].first
  BY <1>1 DEF Memories
<1>4. memory' = [memory EXCEPT ![p] = m]
  BY DEF Keeps
<1> HIDE DEF m
<1>5. QED
  BY <1>2, <1>3, <1>4, KeepsField

LEMMA KeepsNew ==
  ASSUME memory \in [Slots -> Memories], NEW p \in Slots, NEW v \in 0..MaxStarts \cup {None},
         Keeps(p, "new", v)
  PROVE  /\ memory' \in [Slots -> Memories]
         /\ memory'[p].key = memory[p].key /\ memory'[p].token = memory[p].token
         /\ memory'[p].import = memory[p].import /\ memory'[p].first = memory[p].first
         /\ \A q \in Slots \ {p} : memory'[q] = memory[q]
<1> DEFINE m == [memory[p] EXCEPT !.new = v]
<1>1. memory[p] \in Memories
  OBVIOUS
<1>2. m \in Memories
  BY <1>1 DEF Memories
<1>3. /\ m.key = memory[p].key /\ m.token = memory[p].token
      /\ m.import = memory[p].import /\ m.first = memory[p].first
  BY <1>1 DEF Memories
<1>4. memory' = [memory EXCEPT ![p] = m]
  BY DEF Keeps
<1> HIDE DEF m
<1>5. QED
  BY <1>2, <1>3, <1>4, KeepsField

LEMMA KeepsToken ==
  ASSUME memory \in [Slots -> Memories], NEW p \in Slots, NEW v \in Tokens \cup {None},
         Keeps(p, "token", v)
  PROVE  /\ memory' \in [Slots -> Memories]
         /\ memory'[p].key = memory[p].key /\ memory'[p].token = v
         /\ memory'[p].import = memory[p].import /\ memory'[p].first = memory[p].first
         /\ \A q \in Slots \ {p} : memory'[q] = memory[q]
<1> DEFINE m == [memory[p] EXCEPT !.token = v]
<1>1. memory[p] \in Memories
  OBVIOUS
<1>2. m \in Memories
  BY <1>1 DEF Memories
<1>3. /\ m.key = memory[p].key /\ m.token = v
      /\ m.import = memory[p].import /\ m.first = memory[p].first
  BY <1>1 DEF Memories
<1>4. memory' = [memory EXCEPT ![p] = m]
  BY DEF Keeps
<1> HIDE DEF m
<1>5. QED
  BY <1>2, <1>3, <1>4, KeepsField

LEMMA KeepsImport ==
  ASSUME memory \in [Slots -> Memories], NEW p \in Slots, NEW v \in Tokens \cup {None},
         Keeps(p, "import", v)
  PROVE  /\ memory' \in [Slots -> Memories]
         /\ memory'[p].key = memory[p].key /\ memory'[p].token = memory[p].token
         /\ memory'[p].import = v /\ memory'[p].first = memory[p].first
         /\ \A q \in Slots \ {p} : memory'[q] = memory[q]
<1> DEFINE m == [memory[p] EXCEPT !.import = v]
<1>1. memory[p] \in Memories
  OBVIOUS
<1>2. m \in Memories
  BY <1>1 DEF Memories
<1>3. /\ m.key = memory[p].key /\ m.token = memory[p].token
      /\ m.import = v /\ m.first = memory[p].first
  BY <1>1 DEF Memories
<1>4. memory' = [memory EXCEPT ![p] = m]
  BY DEF Keeps
<1> HIDE DEF m
<1>5. QED
  BY <1>2, <1>3, <1>4, KeepsField

LEMMA KeepsFirst ==
  ASSUME memory \in [Slots -> Memories], NEW p \in Slots, NEW v \in Causes \cup {None},
         Keeps(p, "first", v)
  PROVE  /\ memory' \in [Slots -> Memories]
         /\ memory'[p].key = memory[p].key /\ memory'[p].token = memory[p].token
         /\ memory'[p].import = memory[p].import /\ memory'[p].first = v
         /\ \A q \in Slots \ {p} : memory'[q] = memory[q]
<1> DEFINE m == [memory[p] EXCEPT !.first = v]
<1>1. memory[p] \in Memories
  OBVIOUS
<1>2. m \in Memories
  BY <1>1 DEF Memories
<1>3. /\ m.key = memory[p].key /\ m.token = memory[p].token
      /\ m.import = memory[p].import /\ m.first = v
  BY <1>1 DEF Memories
<1>4. memory' = [memory EXCEPT ![p] = m]
  BY DEF Keeps
<1> HIDE DEF m
<1>5. QED
  BY <1>2, <1>3, <1>4, KeepsField

(* What a step has to show of the process that takes it: of its key and     *)
(* its token, and of its tasks.                                             *)
LEMMA TokenHolds ==
  ASSUME IInv, NEW p \in Slots,
         keyFile # None => keyFile' = keyFile,
         tokenFile' \in Tokens \cup {None},
         \A q \in Slots \ {p} : pc'[q] = pc[q] /\ memory'[q] = memory[q] /\ tmp'[q] = tmp[q],
         memory'[p].key # None => memory'[p].key = keyFile',
         pc'[p] = "migrate" => memory'[p].token # None,
         memory'[p].token # None /\ memory'[p].import # None =>
           memory'[p].token = memory'[p].import,
         pc'[p] \in {"key", "new key", "databases", "token"} => memory'[p].import = None,
         pc'[p] \in {"create", "write", "replace"} => memory'[p].import \in Tokens,
         pc'[p] \in Starting \ {"migrate", "run"} => memory'[p].token = None,
         pc'[p] = "replace" => tmp'[p] = memory'[p].import
  PROVE  OneKey' /\ TokenWhole' /\ TokenSteps'
<1>1. OneKey'
  BY DEF IInv, OneKey
<1>2. TokenWhole'
  BY DEF IInv, TokenWhole
<1>3. TokenSteps'
  BY DEF IInv, TokenSteps
<1>4. QED
  BY <1>1, <1>2, <1>3

LEMMA TasksHold ==
  ASSUME IInv, NEW p \in Slots,
         \A q \in Slots \ {p} : /\ pc'[q] = pc[q]
                               /\ memory'[q].first = memory[q].first
                               /\ tasks'[q] = tasks[q],
         pc'[p] \in Starting \cup {"close", "ended"} =>
           \A t \in TaskNames : tasks'[p][t] # "running",
         pc'[p] = "cancel" => tasks'[p].publisher # "running",
         pc'[p] \in Starting => memory'[p].first = None,
         memory'[p].first \in Awaited => tasks'[p][memory'[p].first] = "failed",
         memory'[p].first = None =>
           \/ pc'[p] \in {"down", "serve"}
           \/ /\ pc'[p] \in Starting \cup {"ended"}
              /\ \A t \in Awaited : tasks'[p][t] # "failed"
  PROVE  EndsClean' /\ TaskSteps'
<1>1. EndsClean'
  <2>1. ASSUME pc'[p] = "ended", memory'[p].first = None
        PROVE  \A t \in Awaited : tasks'[p][t] # "failed"
    BY <2>1
  <2>2. QED
    BY <2>1 DEF IInv, EndsClean
<1>2. TaskSteps'
  BY DEF IInv, TaskSteps
<1>3. QED
  BY <1>1, <1>2

(* A step of a start leaves the tasks alone. *)
LEMMA StartStepTasks ==
  ASSUME IInv, NEW p \in Slots, pc[p] \in Starting, pc'[p] \in Starting \cup {"ended"},
         tasks' = tasks, memory'[p].first = memory[p].first,
         \A q \in Slots \ {p} : pc'[q] = pc[q] /\ memory'[q] = memory[q]
  PROVE  EndsClean' /\ TaskSteps'
<1>1. /\ \A t \in TaskNames : tasks[p][t] # "running"
      /\ memory[p].first = None
  BY DEF IInv, TaskSteps
<1>2. pc[p] \notin {"down", "serve"} /\ pc'[p] # "cancel"
  BY DEF Starting
<1>3. \A t \in Awaited : tasks[p][t] # "failed"
  BY <1>1, <1>2 DEF IInv, TaskSteps
<1>4. None \notin Awaited
  BY BoundsAssumption DEF Awaited
<1>5. QED
  BY <1>1, <1>2, <1>3, <1>4, TasksHold

(* A process that stops has a reason to. *)
LEMMA ToldOrServing ==
  ASSUME IInv, NEW p \in Slots, pc[p] \in Serving, memory[p].first = None
  PROVE  pc[p] = "serve"
BY DEF IInv, TaskSteps, Serving, Starting

(* A step of a process that serves or stops leaves key and token alone. *)
LEMMA ServeStepFiles ==
  ASSUME IInv, NEW p \in Slots, pc[p] \in Serving, pc'[p] \in Serving \cup {"ended"},
         keyFile' = keyFile, tokenFile' = tokenFile, tmp' = tmp,
         \A q \in Slots : /\ memory'[q].key = memory[q].key
                          /\ memory'[q].token = memory[q].token
                          /\ memory'[q].import = memory[q].import,
         \A q \in Slots \ {p} : pc'[q] = pc[q]
  PROVE  OneKey' /\ TokenWhole' /\ TokenSteps'
<1>1. /\ pc[p] \notin Starting \ {"migrate", "run"} /\ pc'[p] \notin Starting
      /\ Starting \cap {"key", "new key", "databases", "token", "create", "write", "replace",
                       "migrate"}
           = {"key", "new key", "databases", "token", "create", "write", "replace", "migrate"}
  BY DEF Serving, Starting
<1>2. OneKey'
  BY DEF IInv, OneKey
<1>3. TokenWhole'
  BY <1>1 DEF IInv, TokenWhole
<1>4. TokenSteps'
  <2>1. ASSUME NEW q \in Slots \ {p}
        PROVE  /\ pc'[q] \in {"key", "new key", "databases", "token"} => memory'[q].import = None
               /\ pc'[q] \in {"create", "write", "replace"} => memory'[q].import \in Tokens
               /\ pc'[q] \in Starting \ {"migrate", "run"} => memory'[q].token = None
               /\ pc'[q] = "replace" => tmp'[q] = memory'[q].import
    BY <2>1 DEF IInv, TokenSteps
  <2>2. /\ pc'[p] \notin {"key", "new key", "databases", "token"}
        /\ pc'[p] \notin {"create", "write", "replace"} /\ pc'[p] # "replace"
    BY DEF Serving
  <2>3. QED
    BY <1>1, <2>1, <2>2 DEF TokenSteps
<1>5. QED
  BY <1>2, <1>3, <1>4

-----------------------------------------------------------------------------
LEMMA InitInv == Init => IInv
<1> SUFFICES ASSUME Init PROVE IInv
  OBVIOUS
<1>1. TypeOK
  BY BoundsAssumption DEF Init, TypeOK, NoMemory, NoTasks, Memories, Outcomes
<1>2. OneKey /\ TokenWhole /\ TokenSteps
  BY DEF Init, NoMemory, OneKey, TokenWhole, TokenSteps, Starting
<1>3. EndsClean /\ TaskSteps
  BY BoundsAssumption DEF Init, NoMemory, NoTasks, EndsClean, TaskSteps, Starting, Awaited
<1>4. QED
  BY <1>1, <1>2, <1>3 DEF IInv

(* A process that is launched knows nothing yet. *)
LEMMA LaunchInv == ASSUME IInv, NEW p \in Slots, Launch(p) PROVE IInv'
<1>1. NoMemory \in Memories /\ NoTasks \in [TaskNames -> Outcomes]
  BY DEF NoMemory, NoTasks, Memories, Outcomes
<1>2. /\ pc' = [pc EXCEPT ![p] = "key"] /\ pc[p] \in {"down", "ended"}
      /\ memory' = [memory EXCEPT ![p] = NoMemory]
      /\ tasks' = [tasks EXCEPT ![p] = NoTasks]
      /\ starts' = starts + 1 /\ starts < MaxStarts
      /\ keyFile' = keyFile /\ tokenFile' = tokenFile /\ tmp' = tmp /\ rows' = rows
      /\ faults' = faults
  BY DEF Launch, files
<1>3. TypeOK'
  <2>1. starts' \in 0..MaxStarts
    BY <1>2, BoundsAssumption DEF IInv, TypeOK
  <2>2. QED
    BY <1>1, <1>2, <2>1 DEF IInv, TypeOK, Starting
<1>4. /\ pc'[p] = "key"
      /\ memory'[p].key = None /\ memory'[p].token = None /\ memory'[p].import = None
      /\ memory'[p].first = None
      /\ \A t \in TaskNames : tasks'[p][t] = "none"
  <2>1. pc'[p] = "key" /\ memory'[p] = NoMemory /\ tasks'[p] = NoTasks
    BY <1>2 DEF IInv, TypeOK
  <2>2. QED
    BY <2>1 DEF NoMemory, NoTasks
<1>5. \A q \in Slots \ {p} :
        pc'[q] = pc[q] /\ memory'[q] = memory[q] /\ tasks'[q] = tasks[q] /\ tmp'[q] = tmp[q]
  BY <1>2 DEF IInv, TypeOK
<1>6. OneKey' /\ TokenWhole' /\ TokenSteps'
  <2>1. tokenFile' \in Tokens \cup {None} /\ keyFile' = keyFile
    BY <1>2 DEF IInv, TypeOK
  <2>2. QED
    BY <1>4, <1>5, <2>1, TokenHolds
<1>7. EndsClean' /\ TaskSteps'
  <2>1. /\ tasks'[p].publisher # "running"
        /\ \A t \in Awaited : tasks'[p][t] # "failed"
    BY <1>4 DEF TaskNames, Awaited
  <2>2. None \notin Awaited
    BY BoundsAssumption DEF Awaited
  <2>3. QED
    BY <1>4, <1>5, <2>1, <2>2, TasksHold DEF Starting
<1>8. QED
  BY <1>3, <1>6, <1>7 DEF IInv

(* The published key is read, or a new one is made. *)
LEMMA ReadKeyInv == ASSUME IInv, NEW p \in Slots, ReadKey(p) PROVE IInv'
<1>1. /\ pc[p] = "key" /\ pc' \in {[pc EXCEPT ![p] = "databases"], [pc EXCEPT ![p] = "new key"]}
      /\ tasks' = tasks /\ starts' = starts /\ faults' = faults
      /\ keyFile' = keyFile /\ tokenFile' = tokenFile /\ tmp' = tmp /\ rows' = rows
  BY DEF ReadKey, Goes, files
<1>2. /\ memory \in [Slots -> Memories]
      /\ starts \in 0..MaxStarts \cup {None} /\ keyFile \in 0..MaxStarts \cup {None}
  BY DEF IInv, TypeOK
<1>3. /\ memory' \in [Slots -> Memories]
      /\ memory'[p].key \in {memory[p].key, keyFile} /\ memory'[p].first = memory[p].first
      /\ memory'[p].token = memory[p].token /\ memory'[p].import = memory[p].import
      /\ \A q \in Slots \ {p} : memory'[q] = memory[q]
  <2>1. CASE Keeps(p, "key", keyFile)
    BY <1>2, <2>1, KeepsKey
  <2>2. CASE Keeps(p, "new", starts)
    BY <1>2, <2>2, KeepsNew
  <2>3. QED
    BY <2>1, <2>2 DEF ReadKey
<1>4. /\ pc'[p] \in {"databases", "new key"}
      /\ \A q \in Slots \ {p} : pc'[q] = pc[q]
  BY <1>1 DEF IInv, TypeOK
<1>5. TypeOK'
  BY <1>1, <1>3 DEF IInv, TypeOK, Starting
<1>6. OneKey' /\ TokenWhole' /\ TokenSteps'
  <2>1. tokenFile' \in Tokens \cup {None} /\ tmp' = tmp
    BY <1>1, <1>3, <1>4 DEF IInv, TypeOK
  <2>2. memory[p].key # None => memory[p].key = keyFile
    BY DEF IInv, OneKey
  <2>3. memory[p].import = None /\ memory[p].token = None
    BY <1>1 DEF IInv, TokenSteps, Starting
  <2>4. QED
    BY <1>1, <1>3, <1>4, <2>1, <2>2, <2>3, TokenHolds DEF Starting
<1>7. EndsClean' /\ TaskSteps'
  BY <1>1, <1>3, <1>4, StartStepTasks DEF Starting
<1>8. QED
  BY <1>5, <1>6, <1>7 DEF IInv

(* The first key to be published is everybody's. *)
LEMMA PublishKeyInv == ASSUME IInv, NEW p \in Slots, PublishKey(p) PROVE IInv'
<1>1. /\ pc[p] = "new key" /\ pc' = [pc EXCEPT ![p] = "databases"]
      /\ keyFile' = IF keyFile = None THEN memory[p].new ELSE keyFile
      /\ tokenFile' = tokenFile /\ tmp' = tmp /\ rows' = rows
      /\ tasks' = tasks /\ starts' = starts /\ faults' = faults
  BY DEF PublishKey, Goes
<1>2. keyFile' \in 0..MaxStarts \cup {None}
  BY <1>1 DEF IInv, TypeOK, Memories
<1>3. /\ memory \in [Slots -> Memories] /\ keyFile' \in 0..MaxStarts \cup {None}
      /\ Keeps(p, "key", keyFile')
  BY <1>2 DEF PublishKey, IInv, TypeOK
<1>4. /\ memory' \in [Slots -> Memories]
      /\ memory'[p].key = keyFile' /\ memory'[p].first = memory[p].first
      /\ memory'[p].token = memory[p].token /\ memory'[p].import = memory[p].import
      /\ \A q \in Slots \ {p} : memory'[q] = memory[q]
  BY <1>3, KeepsKey
<1>5. pc'[p] = "databases" /\ \A q \in Slots \ {p} : pc'[q] = pc[q]
  BY <1>1 DEF IInv, TypeOK
<1>6. TypeOK'
  BY <1>1, <1>2, <1>4 DEF IInv, TypeOK, Starting
<1>7. OneKey'
  BY <1>1, <1>4 DEF IInv, OneKey
<1>8. OneKey' /\ TokenWhole' /\ TokenSteps'
  <2>1. /\ memory[p].import = None /\ memory[p].token = None
        /\ tokenFile \in Tokens \cup {None}
    BY <1>1 DEF IInv, TypeOK, TokenSteps, Starting
  <2>2. keyFile # None => keyFile' = keyFile
    BY <1>1
  <2>3. QED
    BY <1>1, <1>4, <1>5, <2>1, <2>2, TokenHolds
<1>9. EndsClean' /\ TaskSteps'
  BY <1>1, <1>4, <1>5, StartStepTasks DEF Starting
<1>10. QED
  BY <1>6, <1>7, <1>8, <1>9 DEF IInv

(* Both databases are open. *)
LEMMA OpenDatabasesInv == ASSUME IInv, NEW p \in Slots, OpenDatabases(p) PROVE IInv'
<1>1. /\ pc[p] = "databases" /\ pc' \in {[pc EXCEPT ![p] = "token"], [pc EXCEPT ![p] = "run"]}
      /\ memory' = memory /\ tasks' = tasks /\ starts' = starts /\ faults' = faults
      /\ keyFile' = keyFile /\ tokenFile' = tokenFile
      /\ tmp' = tmp
      /\ rows' = rows
  BY DEF OpenDatabases, Goes, files
<1>2. /\ pc'[p] \in {"token", "run"}
      /\ \A q \in Slots \ {p} : pc'[q] = pc[q]
  BY <1>1 DEF IInv, TypeOK
<1>3. TypeOK'
  BY <1>1 DEF IInv, TypeOK, Starting, Memories
<1>4. OneKey' /\ TokenWhole' /\ TokenSteps'
  BY <1>1, <1>2 DEF IInv, TypeOK, OneKey, TokenWhole, TokenSteps, Starting
<1>5. EndsClean' /\ TaskSteps'
  BY <1>1, <1>2, StartStepTasks DEF Starting
<1>6. QED
  BY <1>3, <1>4, <1>5 DEF IInv

(* A token is read as it is in the file, or there is none. *)
LEMMA ReadTokenInv == ASSUME IInv, NEW p \in Slots, ReadToken(p) PROVE IInv'
<1>1. /\ pc[p] = "token"
      /\ pc' = [pc EXCEPT ![p] = IF tokenFile = None THEN "ended" ELSE "migrate"]
      /\ tasks' = tasks /\ starts' = starts /\ faults' = faults
      /\ keyFile' = keyFile /\ tokenFile' = tokenFile /\ tmp' = tmp /\ rows' = rows
  BY DEF ReadToken, Goes, files
<1>2. /\ memory \in [Slots -> Memories] /\ tokenFile \in Tokens \cup {None}
      /\ Keeps(p, "token", tokenFile)
  BY DEF ReadToken, IInv, TypeOK
<1>3. /\ memory' \in [Slots -> Memories]
      /\ memory'[p].key = memory[p].key /\ memory'[p].first = memory[p].first
      /\ memory'[p].token = tokenFile /\ memory'[p].import = memory[p].import
      /\ \A q \in Slots \ {p} : memory'[q] = memory[q]
  BY <1>2, KeepsToken
<1>4. /\ pc'[p] = IF tokenFile = None THEN "ended" ELSE "migrate"
      /\ \A q \in Slots \ {p} : pc'[q] = pc[q]
  BY <1>1 DEF IInv, TypeOK
<1>5. TypeOK'
  BY <1>1, <1>3 DEF IInv, TypeOK, Starting
<1>6. OneKey' /\ TokenWhole' /\ TokenSteps'
  <2>1. tokenFile' \in Tokens \cup {None} /\ tmp' = tmp
    BY <1>1, <1>3, <1>4 DEF IInv, TypeOK
  <2>2. QED
    <3>1. memory[p].import = None /\ (memory[p].key # None => memory[p].key = keyFile)
      BY <1>1 DEF IInv, OneKey, TokenSteps
    <3>2. pc'[p] \in {"ended", "migrate"} /\ (pc'[p] = "migrate" => tokenFile # None)
      BY <1>4
    <3>3. /\ memory'[p].key # None => memory'[p].key = keyFile'
          /\ memory'[p].import = None
          /\ pc'[p] = "migrate" => memory'[p].token # None
      BY <1>1, <1>3, <3>1, <3>2
    <3>4. /\ pc'[p] \notin Starting \ {"migrate", "run"}
          /\ pc'[p] \notin {"create", "write", "replace"}
          /\ pc'[p] # "replace"
      BY <3>2 DEF Starting
    <3>5. \A q \in Slots \ {p} : pc'[q] = pc[q] /\ memory'[q] = memory[q] /\ tmp'[q] = tmp[q]
      BY <1>3, <1>4, <2>1
    <3>6. QED
      BY <1>1, <2>1, <3>3, <3>4, <3>5, TokenHolds
<1>7. EndsClean' /\ TaskSteps'
  BY <1>1, <1>3, <1>4, StartStepTasks DEF Starting
<1>8. QED
  BY <1>5, <1>6, <1>7 DEF IInv

(* A token is to be imported. *)
LEMMA ImportTokenInv == ASSUME IInv, NEW p \in Slots, ImportToken(p) PROVE IInv'
<1>1. PICK t \in Tokens : Keeps(p, "import", t)
  BY DEF ImportToken
<1>2. /\ pc[p] = "token" /\ pc' = [pc EXCEPT ![p] = "create"]
      /\ tasks' = tasks /\ starts' = starts /\ faults' = faults
      /\ keyFile' = keyFile /\ tokenFile' = tokenFile /\ tmp' = tmp /\ rows' = rows
  BY DEF ImportToken, Goes, files
<1>3. /\ memory \in [Slots -> Memories] /\ t \in Tokens \cup {None}
      /\ Keeps(p, "import", t)
  BY <1>1 DEF IInv, TypeOK
<1>4. /\ memory' \in [Slots -> Memories]
      /\ memory'[p].key = memory[p].key /\ memory'[p].first = memory[p].first
      /\ memory'[p].token = memory[p].token /\ memory'[p].import = t
      /\ \A q \in Slots \ {p} : memory'[q] = memory[q]
  BY <1>3, KeepsImport
<1>5. pc'[p] = "create" /\ \A q \in Slots \ {p} : pc'[q] = pc[q]
  BY <1>2 DEF IInv, TypeOK
<1>6. TypeOK'
  BY <1>2, <1>4 DEF IInv, TypeOK, Starting
<1>7. memory[p].token = None
  BY <1>2 DEF IInv, TokenSteps, Starting
<1>8. OneKey' /\ TokenWhole' /\ TokenSteps'
  <2>1. tokenFile' \in Tokens \cup {None} /\ tmp' = tmp
    BY <1>2, <1>4, <1>5, <1>7 DEF IInv, TypeOK
  <2>2. QED
    <3>1. memory'[p].key # None => memory'[p].key = keyFile'
      BY <1>2, <1>4 DEF IInv, OneKey
    <3>2. memory'[p].token = None
      BY <1>4, <1>7
    <3>3. QED
      BY <1>2, <1>4, <1>5, <2>1, <3>1, <3>2, TokenHolds
<1>9. EndsClean' /\ TaskSteps'
  BY <1>2, <1>4, <1>5, StartStepTasks DEF Starting
<1>10. QED
  BY <1>6, <1>8, <1>9 DEF IInv

(* The temporary file is created, or a leftover is in the way. *)
LEMMA CreateTemporaryInv == ASSUME IInv, NEW p \in Slots, CreateTemporary(p) PROVE IInv'
<1>1. /\ pc[p] = "create" /\ pc' \in {[pc EXCEPT ![p] = "write"], [pc EXCEPT ![p] = "ended"]}
      /\ memory' = memory /\ tasks' = tasks /\ starts' = starts /\ faults' = faults
      /\ keyFile' = keyFile /\ tokenFile' = tokenFile
      /\ tmp' \in {tmp, [tmp EXCEPT ![p] = "partial"]}
      /\ rows' = rows
  BY DEF CreateTemporary, Goes
<1>2. /\ pc'[p] \in {"write", "ended"}
      /\ \A q \in Slots \ {p} : pc'[q] = pc[q]
  BY <1>1 DEF IInv, TypeOK
<1>3. TypeOK'
  BY <1>1 DEF IInv, TypeOK, Starting, Memories
<1>4. OneKey' /\ TokenWhole' /\ TokenSteps'
  <2>1. /\ memory[p].import \in Tokens /\ memory[p].token = None
        /\ memory[p].key # None => memory[p].key = keyFile
    BY <1>1 DEF IInv, OneKey, TokenSteps, Starting
  <2>2. /\ tokenFile' \in Tokens \cup {None}
        /\ \A q \in Slots \ {p} : tmp'[q] = tmp[q]
    BY <1>1 DEF IInv, TypeOK
  <2>3. pc'[p] \notin {"key", "new key", "databases", "token", "migrate", "replace"}
    BY <1>2
  <2>4. QED
    BY <1>1, <1>2, <2>1, <2>2, <2>3, TokenHolds
<1>5. EndsClean' /\ TaskSteps'
  BY <1>1, <1>2, StartStepTasks DEF Starting
<1>6. QED
  BY <1>3, <1>4, <1>5 DEF IInv

(* The temporary file holds the token. *)
LEMMA WriteTemporaryInv == ASSUME IInv, NEW p \in Slots, WriteTemporary(p) PROVE IInv'
<1>1. /\ pc[p] = "write" /\ pc' \in {[pc EXCEPT ![p] = "replace"]}
      /\ memory' = memory /\ tasks' = tasks /\ starts' = starts /\ faults' = faults
      /\ keyFile' = keyFile /\ tokenFile' = tokenFile
      /\ tmp' = [tmp EXCEPT ![p] = memory[p].import]
      /\ rows' = rows
  BY DEF WriteTemporary, Goes
<1>2. /\ pc'[p] \in {"replace"}
      /\ \A q \in Slots \ {p} : pc'[q] = pc[q]
  BY <1>1 DEF IInv, TypeOK
<1>3. TypeOK'
  BY <1>1 DEF IInv, TypeOK, Starting, Memories
<1>4. OneKey' /\ TokenWhole' /\ TokenSteps'
  BY <1>1, <1>2 DEF IInv, TypeOK, OneKey, TokenWhole, TokenSteps, Starting
<1>5. EndsClean' /\ TaskSteps'
  BY <1>1, <1>2, StartStepTasks DEF Starting
<1>6. QED
  BY <1>3, <1>4, <1>5 DEF IInv

(* The token file is replaced by a whole one. *)
LEMMA ReplaceTokenInv == ASSUME IInv, NEW p \in Slots, ReplaceToken(p) PROVE IInv'
<1>1. /\ pc[p] = "replace" /\ pc' = [pc EXCEPT ![p] = "migrate"]
      /\ tasks' = tasks /\ starts' = starts /\ faults' = faults
      /\ keyFile' = keyFile /\ rows' = rows
      /\ tokenFile' = tmp[p] /\ tmp' = [tmp EXCEPT ![p] = None]
  BY DEF ReplaceToken, Goes
<1>2. tmp[p] = memory[p].import /\ memory[p].import \in Tokens
  BY <1>1 DEF IInv, TokenSteps, Starting
<1>3. /\ memory \in [Slots -> Memories] /\ memory[p].import \in Tokens \cup {None}
      /\ Keeps(p, "token", memory[p].import)
  BY <1>2 DEF ReplaceToken, IInv, TypeOK
<1>4. /\ memory' \in [Slots -> Memories]
      /\ memory'[p].key = memory[p].key /\ memory'[p].first = memory[p].first
      /\ memory'[p].token = memory[p].import /\ memory'[p].import = memory[p].import
      /\ \A q \in Slots \ {p} : memory'[q] = memory[q]
  BY <1>3, KeepsToken
<1>5. /\ pc'[p] = "migrate" /\ tmp'[p] = None
      /\ \A q \in Slots \ {p} : pc'[q] = pc[q] /\ tmp'[q] = tmp[q]
  BY <1>1 DEF IInv, TypeOK
<1>6. TypeOK'
  BY <1>1, <1>2, <1>4 DEF IInv, TypeOK, Starting
<1>7. OneKey' /\ TokenWhole' /\ TokenSteps'
  <2>1. None \notin Tokens
    BY BoundsAssumption
  <2>2. memory'[p].key # None => memory'[p].key = keyFile'
    BY <1>1, <1>4 DEF IInv, OneKey
  <2>3. QED
    BY <1>1, <1>2, <1>4, <1>5, <2>1, <2>2, TokenHolds DEF Starting
<1>8. EndsClean' /\ TaskSteps'
  BY <1>1, <1>4, <1>5, StartStepTasks DEF Starting
<1>9. QED
  BY <1>6, <1>7, <1>8 DEF IInv

(* The tables are migrated. *)
LEMMA MigrateInv == ASSUME IInv, NEW p \in Slots, Migrate(p) PROVE IInv'
<1>1. /\ pc[p] = "migrate" /\ pc' \in {[pc EXCEPT ![p] = "run"]}
      /\ memory' = memory /\ tasks' = tasks /\ starts' = starts /\ faults' = faults
      /\ keyFile' = keyFile /\ tokenFile' = tokenFile
      /\ tmp' = tmp
      /\ rows' = [k \in RowKinds |-> Migrated(k)]
  BY DEF Migrate, Goes
<1>2. /\ pc'[p] \in {"run"}
      /\ \A q \in Slots \ {p} : pc'[q] = pc[q]
  BY <1>1 DEF IInv, TypeOK
<1>3. TypeOK'
  <2>1. rows' \in [RowKinds -> 0..2]
    BY <1>1 DEF IInv, TypeOK, Migrated
  <2>2. QED
    BY <1>1, <2>1 DEF IInv, TypeOK, Starting
<1>4. OneKey' /\ TokenWhole' /\ TokenSteps'
  BY <1>1, <1>2 DEF IInv, TypeOK, OneKey, TokenWhole, TokenSteps, Starting
<1>5. EndsClean' /\ TaskSteps'
  BY <1>1, <1>2, StartStepTasks DEF Starting
<1>6. QED
  BY <1>3, <1>4, <1>5 DEF IInv

(* The tasks are started, none has failed. *)
LEMMA RunServicesInv == ASSUME IInv, NEW p \in Slots, RunServices(p) PROVE IInv'
<1>1. PICK publisher \in {"running", "none"} :
        tasks' = [tasks EXCEPT ![p] =
          [bridge    |-> "running",
           telegram  |-> IF memory[p].token # None THEN "running" ELSE "none",
           publisher |-> publisher]]
  BY DEF RunServices
<1>2. /\ pc[p] = "run" /\ pc' = [pc EXCEPT ![p] = "serve"]
      /\ memory' = memory /\ starts' = starts /\ faults' = faults
      /\ keyFile' = keyFile /\ tokenFile' = tokenFile /\ tmp' = tmp /\ rows' = rows
  BY DEF RunServices, Goes, files
<1>3. tasks' \in [Slots -> [TaskNames -> Outcomes]]
  <2>1. [bridge    |-> "running",
         telegram  |-> IF memory[p].token # None THEN "running" ELSE "none",
         publisher |-> publisher] \in [TaskNames -> Outcomes]
    BY DEF TaskNames, Outcomes
  <2>2. QED
    BY <1>1, <2>1 DEF IInv, TypeOK
<1>4. /\ pc'[p] = "serve"
      /\ \A q \in Slots \ {p} : pc'[q] = pc[q] /\ tasks'[q] = tasks[q]
  BY <1>1, <1>2 DEF IInv, TypeOK
<1>5. TypeOK'
  BY <1>2, <1>3 DEF IInv, TypeOK, Serving
<1>6. OneKey' /\ TokenWhole' /\ TokenSteps'
  BY <1>2, <1>4 DEF IInv, OneKey, TokenWhole, TokenSteps, Starting
<1>7. memory[p].first = None
  BY <1>2 DEF IInv, TaskSteps, Starting
<1>8. EndsClean' /\ TaskSteps'
  <2>1. memory'[p].first = None
    BY <1>2, <1>7
  <2>2. pc'[p] \notin Starting \cup {"close", "ended"} /\ pc'[p] # "cancel"
    BY <1>4 DEF Starting
  <2>3. \A q \in Slots \ {p} : memory'[q].first = memory[q].first
    BY <1>2
  <2>4. None \notin Awaited
    BY BoundsAssumption DEF Awaited
  <2>5. QED
    BY <1>4, <2>1, <2>2, <2>3, <2>4, TasksHold
<1>9. QED
  BY <1>5, <1>6, <1>8 DEF IInv

(* A start fails. *)
LEMMA StartFailsInv == ASSUME IInv, NEW p \in Slots, StartFails(p) PROVE IInv'
<1>1. /\ pc[p] \in Starting \ {"run"} /\ pc' = [pc EXCEPT ![p] = "ended"]
      /\ memory' = memory /\ tasks' = tasks /\ starts' = starts /\ rows' = rows
      /\ faults < MaxFaults /\ faults' = faults + 1
      /\ keyFile' \in {keyFile, memory[p].new} /\ (keyFile # None => keyFile' = keyFile)
      /\ tokenFile' \in {tokenFile, tmp[p]} /\ (pc[p] # "replace" => tokenFile' = tokenFile)
      /\ tmp' \in {tmp, [tmp EXCEPT ![p] = None]}
  BY DEF StartFails, Fault
<1>2. pc[p] = "replace" => tmp[p] \in Tokens
  BY DEF IInv, TokenSteps, Starting
<1>3. /\ pc'[p] = "ended"
      /\ \A q \in Slots \ {p} : pc'[q] = pc[q] /\ tmp'[q] = tmp[q]
  BY <1>1 DEF IInv, TypeOK
<1>4. TypeOK'
  <2>1. keyFile' \in 0..MaxStarts \cup {None}
    BY <1>1 DEF IInv, TypeOK, Memories
  <2>2. tokenFile' \in Tokens \cup {None}
    BY <1>1, <1>2 DEF IInv, TypeOK
  <2>3. faults' \in 0..MaxFaults
    BY <1>1, BoundsAssumption DEF IInv, TypeOK
  <2>4. QED
    BY <1>1, <2>1, <2>2, <2>3 DEF IInv, TypeOK
<1>5. OneKey' /\ TokenWhole' /\ TokenSteps'
  BY <1>1, <1>2, <1>3 DEF IInv, TypeOK, OneKey, TokenWhole, TokenSteps, Starting
<1>6. EndsClean' /\ TaskSteps'
  BY <1>1, <1>3, StartStepTasks
<1>7. QED
  BY <1>4, <1>5, <1>6 DEF IInv

(* The service changes a row. *)
LEMMA ChangeRowInv == ASSUME IInv, NEW p \in Slots, NEW k \in RowKinds, ChangeRow(p, k) PROVE IInv'
<1>1. /\ pc' = pc /\ memory' = memory /\ tasks' = tasks /\ starts' = starts /\ faults' = faults
      /\ keyFile' = keyFile /\ tokenFile' = tokenFile /\ tmp' = tmp
      /\ rows' = [rows EXCEPT ![k] = 2]
  BY DEF ChangeRow
<1>2. TypeOK'
  BY <1>1 DEF IInv, TypeOK, RowKinds
<1>3. OneKey' /\ TokenWhole' /\ TokenSteps'
  BY <1>1 DEF IInv, OneKey, TokenWhole, TokenSteps, Starting
<1>4. EndsClean' /\ TaskSteps'
  BY <1>1 DEF IInv, EndsClean, TaskSteps
<1>5. QED
  BY <1>2, <1>3, <1>4 DEF IInv

(* A record expires. *)
LEMMA RecordExpiresInv == ASSUME IInv, NEW p \in Slots, RecordExpires(p) PROVE IInv'
<1>1. /\ pc' = pc /\ memory' = memory /\ tasks' = tasks /\ starts' = starts /\ faults' = faults
      /\ keyFile' = keyFile /\ tokenFile' = tokenFile /\ tmp' = tmp
      /\ rows' = [rows EXCEPT !["record"] = 0]
  BY DEF RecordExpires
<1>2. TypeOK'
  BY <1>1 DEF IInv, TypeOK, RowKinds
<1>3. OneKey' /\ TokenWhole' /\ TokenSteps'
  BY <1>1 DEF IInv, OneKey, TokenWhole, TokenSteps, Starting
<1>4. EndsClean' /\ TaskSteps'
  BY <1>1 DEF IInv, EndsClean, TaskSteps
<1>5. QED
  BY <1>2, <1>3, <1>4 DEF IInv

(* A task fails; the first failure stays what it was. *)
LEMMA TaskFailsInv == ASSUME IInv, NEW p \in Slots, NEW t \in Awaited, TaskFails(p, t) PROVE IInv'
<1>1. /\ pc[p] \in Serving /\ tasks[p][t] = "running"
      /\ pc' = pc /\ memory' = memory /\ starts' = starts
      /\ keyFile' = keyFile /\ tokenFile' = tokenFile /\ tmp' = tmp /\ rows' = rows
      /\ faults < MaxFaults /\ faults' = faults + 1
      /\ tasks' = [tasks EXCEPT ![p][t] = "failed"]
  BY DEF TaskFails, files, Fault, Serving
<1>2. TypeOK'
  BY <1>1, BoundsAssumption DEF IInv, TypeOK, TaskNames, Awaited, Outcomes
<1>3. OneKey' /\ TokenWhole' /\ TokenSteps'
  BY <1>1 DEF IInv, OneKey, TokenWhole, TokenSteps, Starting
<1>4. EndsClean' /\ TaskSteps'
  <2>1. /\ \A u \in TaskNames : u # t => tasks'[p][u] = tasks[p][u]
        /\ tasks'[p][t] = "failed"
        /\ \A q \in Slots \ {p} : tasks'[q] = tasks[q]
    BY <1>1 DEF IInv, TypeOK, TaskNames, Awaited
  <2>2. pc[p] = "cancel" => tasks'[p].publisher # "running"
    BY <1>1, <2>1 DEF IInv, TaskSteps, TaskNames, Awaited
  <2>3. pc[p] = "close" => \A u \in TaskNames : tasks'[p][u] # "running"
    BY <1>1, <2>1 DEF IInv, TaskSteps, TaskNames, Awaited
  <2>4. memory[p].first \in Awaited => tasks'[p][memory[p].first] = "failed"
    <3>1. memory[p].first \in Awaited => /\ memory[p].first \in TaskNames
                                         /\ tasks[p][memory[p].first] = "failed"
      BY DEF IInv, TaskSteps, TaskNames, Awaited
    <3>2. QED
      BY <1>1, <2>1, <3>1
  <2>5. memory[p].first = None => pc[p] = "serve"
    BY <1>1, ToldOrServing DEF Serving
  <2>6. QED
    BY <1>1, <2>1, <2>2, <2>3, <2>4, <2>5, TasksHold DEF Starting, Serving
<1>5. QED
  BY <1>2, <1>3, <1>4 DEF IInv

(* The stopped Telegram service returns. *)
LEMMA TelegramReturnsInv == ASSUME IInv, NEW p \in Slots, TelegramReturns(p) PROVE IInv'
<1>1. /\ pc[p] \in {"stop publisher", "cancel"} /\ tasks[p].telegram = "running"
      /\ pc' = pc /\ memory' = memory /\ starts' = starts
      /\ keyFile' = keyFile /\ tokenFile' = tokenFile /\ tmp' = tmp /\ rows' = rows
      /\ faults' = faults
      /\ tasks' = [tasks EXCEPT ![p].telegram = "returned"]
  BY DEF TelegramReturns, files, Fault, Serving
<1>2. TypeOK'
  BY <1>1, BoundsAssumption DEF IInv, TypeOK, TaskNames, Awaited, Outcomes
<1>3. OneKey' /\ TokenWhole' /\ TokenSteps'
  BY <1>1 DEF IInv, OneKey, TokenWhole, TokenSteps, Starting
<1>4. EndsClean' /\ TaskSteps'
  <2>1. /\ \A u \in TaskNames : u # "telegram" => tasks'[p][u] = tasks[p][u]
        /\ tasks'[p]["telegram"] = "returned"
        /\ \A q \in Slots \ {p} : tasks'[q] = tasks[q]
    BY <1>1 DEF IInv, TypeOK, TaskNames, Awaited
  <2>2. pc[p] = "cancel" => tasks'[p].publisher # "running"
    BY <1>1, <2>1 DEF IInv, TaskSteps, TaskNames, Awaited
  <2>3. pc[p] = "close" => \A u \in TaskNames : tasks'[p][u] # "running"
    BY <1>1, <2>1 DEF IInv, TaskSteps, TaskNames, Awaited
  <2>4. memory[p].first \in Awaited => tasks'[p][memory[p].first] = "failed"
    <3>1. memory[p].first \in Awaited => /\ memory[p].first \in TaskNames
                                         /\ tasks[p][memory[p].first] = "failed"
      BY DEF IInv, TaskSteps, TaskNames, Awaited
    <3>2. QED
      BY <1>1, <2>1, <3>1
  <2>5. memory[p].first = None => pc[p] = "serve"
    BY <1>1, ToldOrServing DEF Serving
  <2>6. QED
    BY <1>1, <2>1, <2>2, <2>3, <2>4, <2>5, TasksHold DEF Starting, Serving
<1>5. QED
  BY <1>2, <1>3, <1>4 DEF IInv

(* The first failure is noticed. *)
LEMMA NoticeInv == ASSUME IInv, NEW p \in Slots, Notice(p) PROVE IInv'
<1>1. PICK t \in Awaited : tasks[p][t] = "failed" /\ Keeps(p, "first", t)
  BY DEF Notice
<1>2. /\ pc[p] = "serve" /\ pc' = [pc EXCEPT ![p] = IF Alone(p) THEN "ended" ELSE "gather"]
      /\ tasks' = tasks /\ starts' = starts /\ faults' = faults
      /\ keyFile' = keyFile /\ tokenFile' = tokenFile /\ tmp' = tmp /\ rows' = rows
  BY DEF Notice, Goes, files
<1>3. /\ memory \in [Slots -> Memories] /\ t \in Causes \cup {None}
      /\ Keeps(p, "first", t)
  BY <1>1 DEF IInv, TypeOK, Causes
<1>4. /\ memory' \in [Slots -> Memories]
      /\ memory'[p].key = memory[p].key /\ memory'[p].first = t
      /\ memory'[p].token = memory[p].token /\ memory'[p].import = memory[p].import
      /\ \A q \in Slots \ {p} : memory'[q] = memory[q]
  BY <1>3, KeepsFirst
<1>5. /\ pc'[p] = IF Alone(p) THEN "ended" ELSE "gather"
      /\ \A q \in Slots \ {p} : pc'[q] = pc[q]
  BY <1>2 DEF IInv, TypeOK
<1>6. TypeOK'
  BY <1>2, <1>4 DEF IInv, TypeOK, Serving
<1>7. OneKey' /\ TokenWhole' /\ TokenSteps'
  BY <1>2, <1>4, <1>5, ServeStepFiles DEF Serving
<1>8. Alone(p) => \A u \in TaskNames : tasks[p][u] # "running"
  BY <1>1 DEF Alone, Awaited, TaskNames
<1>9. EndsClean' /\ TaskSteps'
  <2>1. pc'[p] \in {"ended", "gather"} /\ (pc'[p] = "ended" => Alone(p))
    BY <1>5
  <2>2. memory'[p].first = t /\ tasks'[p][t] = "failed" /\ t # None
    BY <1>1, <1>2, <1>4, BoundsAssumption DEF Awaited
  <2>3. QED
    BY <1>2, <1>4, <1>5, <1>8, <2>1, <2>2, TasksHold DEF Starting
<1>10. QED
  BY <1>6, <1>7, <1>9 DEF IInv

(* The tasks in ts are cancelled, the others and the first failure stay. *)
LEMMA CancelEffect ==
  ASSUME IInv, NEW p \in Slots, NEW ts \in SUBSET TaskNames,
         tasks' = [tasks EXCEPT ![p] = Ends(ts, p, "cancelled")]
  PROVE  /\ tasks' \in [Slots -> [TaskNames -> Outcomes]]
         /\ \A q \in Slots \ {p} : tasks'[q] = tasks[q]
         /\ \A t \in ts : tasks'[p][t] # "running"
         /\ \A t \in TaskNames : tasks[p][t] # "running" => tasks'[p][t] = tasks[p][t]
<1>1. Ends(ts, p, "cancelled") \in [TaskNames -> Outcomes]
  BY DEF Ends, IInv, TypeOK, Outcomes
<1>2. tasks'[p] = Ends(ts, p, "cancelled")
  BY DEF IInv, TypeOK
<1>3. QED
  BY <1>1, <1>2 DEF Ends, IInv, TypeOK

(* The cancelled tasks have ended. *)
LEMMA GatheredInv == ASSUME IInv, NEW p \in Slots, Gathered(p) PROVE IInv'
<1>1. /\ pc[p] = "gather" /\ pc' = [pc EXCEPT ![p] = "stop publisher"]
      /\ memory' = memory /\ starts' = starts /\ faults' = faults
      /\ keyFile' = keyFile /\ tokenFile' = tokenFile /\ tmp' = tmp /\ rows' = rows
      /\ tasks' = [tasks EXCEPT ![p] = Ends(Awaited, p, "cancelled")]
  BY DEF Gathered, Goes, files
<1>2. Awaited \in SUBSET TaskNames
  BY DEF TaskNames, Awaited
<1>3. /\ tasks' \in [Slots -> [TaskNames -> Outcomes]]
      /\ \A q \in Slots \ {p} : tasks'[q] = tasks[q]
      /\ \A t \in Awaited : tasks'[p][t] # "running"
      /\ \A t \in TaskNames : tasks[p][t] # "running" => tasks'[p][t] = tasks[p][t]
  BY <1>1, <1>2, CancelEffect
<1>4. pc'[p] = "stop publisher" /\ \A q \in Slots \ {p} : pc'[q] = pc[q]
  BY <1>1 DEF IInv, TypeOK
<1>5. TypeOK'
  BY <1>1, <1>3 DEF IInv, TypeOK, Serving
<1>6. OneKey' /\ TokenWhole' /\ TokenSteps'
  BY <1>1, <1>4, ServeStepFiles DEF Serving
<1>7. /\ memory[p].first \in Awaited =>
           memory[p].first \in TaskNames /\ tasks[p][memory[p].first] = "failed"
      /\ memory[p].first # None
  BY <1>1, ToldOrServing DEF IInv, TaskSteps, TaskNames, Awaited, Serving
<1>8. EndsClean' /\ TaskSteps'
  <2>1. pc'[p] = "cancel" => tasks'[p].publisher # "running"
    BY <1>1, <1>3, <1>4 DEF IInv, TaskSteps
  <2>2. pc'[p] = "close" => \A t \in TaskNames : tasks'[p][t] # "running"
    BY <1>1, <1>3, <1>4 DEF IInv, TaskSteps, TaskNames, Awaited
  <2>3. QED
    BY <1>1, <1>3, <1>4, <1>7, <2>1, <2>2, TasksHold DEF Starting
<1>9. QED
  BY <1>5, <1>6, <1>8 DEF IInv

(* The publisher has ended. *)
LEMMA StopPublisherInv == ASSUME IInv, NEW p \in Slots, StopPublisher(p) PROVE IInv'
<1>1. /\ pc[p] = "stop publisher" /\ pc' = [pc EXCEPT ![p] = "cancel"]
      /\ memory' = memory /\ starts' = starts /\ faults' = faults
      /\ keyFile' = keyFile /\ tokenFile' = tokenFile /\ tmp' = tmp /\ rows' = rows
      /\ tasks' = [tasks EXCEPT ![p] = Ends({"publisher"}, p, "cancelled")]
  BY DEF StopPublisher, Goes, files
<1>2. {"publisher"} \in SUBSET TaskNames
  BY DEF TaskNames, Awaited
<1>3. /\ tasks' \in [Slots -> [TaskNames -> Outcomes]]
      /\ \A q \in Slots \ {p} : tasks'[q] = tasks[q]
      /\ \A t \in {"publisher"} : tasks'[p][t] # "running"
      /\ \A t \in TaskNames : tasks[p][t] # "running" => tasks'[p][t] = tasks[p][t]
  BY <1>1, <1>2, CancelEffect
<1>4. pc'[p] = "cancel" /\ \A q \in Slots \ {p} : pc'[q] = pc[q]
  BY <1>1 DEF IInv, TypeOK
<1>5. TypeOK'
  BY <1>1, <1>3 DEF IInv, TypeOK, Serving
<1>6. OneKey' /\ TokenWhole' /\ TokenSteps'
  BY <1>1, <1>4, ServeStepFiles DEF Serving
<1>7. /\ memory[p].first \in Awaited =>
           memory[p].first \in TaskNames /\ tasks[p][memory[p].first] = "failed"
      /\ memory[p].first # None
  BY <1>1, ToldOrServing DEF IInv, TaskSteps, TaskNames, Awaited, Serving
<1>8. EndsClean' /\ TaskSteps'
  <2>1. pc'[p] = "cancel" => tasks'[p].publisher # "running"
    BY <1>1, <1>3, <1>4 DEF IInv, TaskSteps
  <2>2. pc'[p] = "close" => \A t \in TaskNames : tasks'[p][t] # "running"
    BY <1>1, <1>3, <1>4 DEF IInv, TaskSteps, TaskNames, Awaited
  <2>3. QED
    BY <1>1, <1>3, <1>4, <1>7, <2>1, <2>2, TasksHold DEF Starting
<1>9. QED
  BY <1>5, <1>6, <1>8 DEF IInv

(* All tasks have ended. *)
LEMMA CancelTasksInv == ASSUME IInv, NEW p \in Slots, CancelTasks(p) PROVE IInv'
<1>1. /\ pc[p] = "cancel" /\ pc' = [pc EXCEPT ![p] = "close"]
      /\ memory' = memory /\ starts' = starts /\ faults' = faults
      /\ keyFile' = keyFile /\ tokenFile' = tokenFile /\ tmp' = tmp /\ rows' = rows
      /\ tasks' = [tasks EXCEPT ![p] = Ends(Awaited, p, "cancelled")]
  BY DEF CancelTasks, Goes, files
<1>2. Awaited \in SUBSET TaskNames
  BY DEF TaskNames, Awaited
<1>3. /\ tasks' \in [Slots -> [TaskNames -> Outcomes]]
      /\ \A q \in Slots \ {p} : tasks'[q] = tasks[q]
      /\ \A t \in Awaited : tasks'[p][t] # "running"
      /\ \A t \in TaskNames : tasks[p][t] # "running" => tasks'[p][t] = tasks[p][t]
  BY <1>1, <1>2, CancelEffect
<1>4. pc'[p] = "close" /\ \A q \in Slots \ {p} : pc'[q] = pc[q]
  BY <1>1 DEF IInv, TypeOK
<1>5. TypeOK'
  BY <1>1, <1>3 DEF IInv, TypeOK, Serving
<1>6. OneKey' /\ TokenWhole' /\ TokenSteps'
  BY <1>1, <1>4, ServeStepFiles DEF Serving
<1>7. /\ memory[p].first \in Awaited =>
           memory[p].first \in TaskNames /\ tasks[p][memory[p].first] = "failed"
      /\ memory[p].first # None
  BY <1>1, ToldOrServing DEF IInv, TaskSteps, TaskNames, Awaited, Serving
<1>8. EndsClean' /\ TaskSteps'
  <2>1. pc'[p] = "cancel" => tasks'[p].publisher # "running"
    BY <1>1, <1>3, <1>4 DEF IInv, TaskSteps
  <2>2. pc'[p] = "close" => \A t \in TaskNames : tasks'[p][t] # "running"
    BY <1>1, <1>3, <1>4 DEF IInv, TaskSteps, TaskNames, Awaited
  <2>3. QED
    BY <1>1, <1>3, <1>4, <1>7, <2>1, <2>2, TasksHold DEF Starting
<1>9. QED
  BY <1>5, <1>6, <1>8 DEF IInv

(* The process ends. *)
LEMMA CloseBridgeInv == ASSUME IInv, NEW p \in Slots, CloseBridge(p) PROVE IInv'
<1>1. /\ pc[p] = "close" /\ pc' = [pc EXCEPT ![p] = "ended"]
      /\ memory' = memory /\ tasks' = tasks /\ starts' = starts /\ faults' = faults
      /\ keyFile' = keyFile /\ tokenFile' = tokenFile /\ tmp' = tmp /\ rows' = rows
  BY DEF CloseBridge, Goes, files
<1>2. pc'[p] = "ended" /\ \A q \in Slots \ {p} : pc'[q] = pc[q]
  BY <1>1 DEF IInv, TypeOK
<1>3. TypeOK'
  BY <1>1 DEF IInv, TypeOK
<1>4. OneKey' /\ TokenWhole' /\ TokenSteps'
  BY <1>1, <1>2, ServeStepFiles DEF Serving
<1>5. EndsClean' /\ TaskSteps'
  <2>1. memory[p].first # None
    BY <1>1, ToldOrServing DEF Serving
  <2>2. /\ \A t \in TaskNames : tasks[p][t] # "running"
        /\ memory[p].first \in Awaited => tasks[p][memory[p].first] = "failed"
    BY <1>1 DEF IInv, TaskSteps
  <2>3. QED
    BY <1>1, <1>2, <2>1, <2>2, TasksHold DEF Starting
<1>6. QED
  BY <1>3, <1>4, <1>5 DEF IInv

(* SIGINT ends the process, or sends it to the finally clause. *)
LEMMA InterruptInv == ASSUME IInv, NEW p \in Slots, Interrupt(p) PROVE IInv'
<1>1. /\ pc[p] \in Serving /\ faults < MaxFaults /\ faults' = faults + 1
      /\ Keeps(p, "first", "interrupt")
      /\ starts' = starts /\ keyFile' = keyFile /\ tokenFile' = tokenFile
      /\ tmp' = tmp /\ rows' = rows
      /\ \/ /\ pc' = [pc EXCEPT ![p] = "ended"]
            /\ tasks' = [tasks EXCEPT ![p] = Ends(TaskNames, p, "cancelled")]
         \/ pc' = [pc EXCEPT ![p] = "stop publisher"] /\ tasks' = tasks
  BY DEF Interrupt, Fault, files, Serving
<1>2. /\ memory' \in [Slots -> Memories]
      /\ memory'[p].key = memory[p].key /\ memory'[p].first = "interrupt"
      /\ memory'[p].token = memory[p].token /\ memory'[p].import = memory[p].import
      /\ \A q \in Slots \ {p} : memory'[q] = memory[q]
  <2>1. memory \in [Slots -> Memories] /\ "interrupt" \in Causes \cup {None}
    BY DEF IInv, TypeOK, Causes
  <2>2. QED
    BY <1>1, <2>1, KeepsFirst
<1>3. /\ pc'[p] \in {"ended", "stop publisher"}
      /\ \A q \in Slots \ {p} : pc'[q] = pc[q]
  BY <1>1 DEF IInv, TypeOK
<1>4. OneKey' /\ TokenWhole' /\ TokenSteps'
  BY <1>1, <1>2, <1>3, ServeStepFiles DEF Serving
<1>5. /\ tasks' \in [Slots -> [TaskNames -> Outcomes]]
      /\ \A q \in Slots \ {p} : tasks'[q] = tasks[q]
      /\ pc'[p] = "ended" => \A t \in TaskNames : tasks'[p][t] # "running"
      /\ \A t \in TaskNames : tasks[p][t] # "running" => tasks'[p][t] = tasks[p][t]
  <2>1. CASE tasks' = [tasks EXCEPT ![p] = Ends(TaskNames, p, "cancelled")]
    BY <2>1, CancelEffect
  <2>2. CASE pc' = [pc EXCEPT ![p] = "stop publisher"] /\ tasks' = tasks
    BY <2>2 DEF IInv, TypeOK
  <2>3. QED
    BY <1>1, <2>1, <2>2
<1>6. TypeOK'
  <2>1. faults' \in 0..MaxFaults
    <3>1. faults < MaxFaults /\ faults' = faults + 1
      BY <1>1
    <3>2. QED
      BY <3>1, BoundsAssumption DEF IInv, TypeOK
  <2>2. pc' \in [Slots -> Starting \cup Serving \cup {"down", "ended"}]
    BY <1>1 DEF IInv, TypeOK, Serving
  <2>3. QED
    BY <1>1, <1>2, <1>5, <2>1, <2>2 DEF IInv, TypeOK
<1>7. EndsClean' /\ TaskSteps'
  <2>1. "interrupt" \notin Awaited \cup {None}
    BY BoundsAssumption DEF Awaited
  <2>2. QED
    BY <1>1, <1>2, <1>3, <1>5, <2>1, TasksHold DEF Starting
<1>8. QED
  BY <1>4, <1>6, <1>7 DEF IInv

(* A killed process remembers nothing, and leaves the files as they are. *)
LEMMA KillInv == ASSUME IInv, NEW p \in Slots, Kill(p) PROVE IInv'
<1>1. NoMemory \in Memories /\ NoTasks \in [TaskNames -> Outcomes]
  BY DEF NoMemory, NoTasks, Memories, Outcomes
<1>2. /\ pc' = [pc EXCEPT ![p] = "down"]
      /\ memory' = [memory EXCEPT ![p] = NoMemory]
      /\ tasks' = [tasks EXCEPT ![p] = NoTasks]
      /\ faults < MaxFaults /\ faults' = faults + 1 /\ starts' = starts
      /\ keyFile' = keyFile /\ tokenFile' = tokenFile /\ tmp' = tmp /\ rows' = rows
  BY DEF Kill, Fault, files
<1>3. TypeOK'
  <2>1. faults' \in 0..MaxFaults
    BY <1>2, BoundsAssumption DEF IInv, TypeOK
  <2>2. QED
    BY <1>1, <1>2, <2>1 DEF IInv, TypeOK
<1>4. /\ pc'[p] = "down"
      /\ memory'[p].key = None /\ memory'[p].token = None /\ memory'[p].import = None
      /\ memory'[p].first = None
      /\ \A t \in TaskNames : tasks'[p][t] = "none"
  <2>1. pc'[p] = "down" /\ memory'[p] = NoMemory /\ tasks'[p] = NoTasks
    BY <1>2 DEF IInv, TypeOK
  <2>2. QED
    BY <2>1 DEF NoMemory, NoTasks
<1>5. \A q \in Slots \ {p} :
        pc'[q] = pc[q] /\ memory'[q] = memory[q] /\ tasks'[q] = tasks[q] /\ tmp'[q] = tmp[q]
  BY <1>2 DEF IInv, TypeOK
<1>6. OneKey' /\ TokenWhole' /\ TokenSteps'
  <2>1. tokenFile' \in Tokens \cup {None} /\ keyFile' = keyFile
    BY <1>2 DEF IInv, TypeOK
  <2>2. QED
    BY <1>4, <1>5, <2>1, TokenHolds
<1>7. EndsClean' /\ TaskSteps'
  <2>1. /\ tasks'[p].publisher # "running"
        /\ \A t \in Awaited : tasks'[p][t] # "failed"
    BY <1>4 DEF TaskNames, Awaited
  <2>2. None \notin Awaited
    BY BoundsAssumption DEF Awaited
  <2>3. QED
    BY <1>4, <1>5, <2>1, <2>2, TasksHold DEF Starting
<1>8. QED
  BY <1>3, <1>6, <1>7 DEF IInv

-----------------------------------------------------------------------------
LEMMA NextInv == IInv /\ [Next]_vars => IInv'
<1> SUFFICES ASSUME IInv, [Next]_vars PROVE IInv'
  OBVIOUS
<1>1. ASSUME NEW p \in Slots, Launch(p) PROVE IInv'
  BY <1>1, LaunchInv
<1>2. ASSUME NEW p \in Slots, ReadKey(p) PROVE IInv'
  BY <1>2, ReadKeyInv
<1>3. ASSUME NEW p \in Slots, PublishKey(p) PROVE IInv'
  BY <1>3, PublishKeyInv
<1>4. ASSUME NEW p \in Slots, OpenDatabases(p) PROVE IInv'
  BY <1>4, OpenDatabasesInv
<1>5. ASSUME NEW p \in Slots, ReadToken(p) PROVE IInv'
  BY <1>5, ReadTokenInv
<1>6. ASSUME NEW p \in Slots, ImportToken(p) PROVE IInv'
  BY <1>6, ImportTokenInv
<1>7. ASSUME NEW p \in Slots, CreateTemporary(p) PROVE IInv'
  BY <1>7, CreateTemporaryInv
<1>8. ASSUME NEW p \in Slots, WriteTemporary(p) PROVE IInv'
  BY <1>8, WriteTemporaryInv
<1>9. ASSUME NEW p \in Slots, ReplaceToken(p) PROVE IInv'
  BY <1>9, ReplaceTokenInv
<1>10. ASSUME NEW p \in Slots, Migrate(p) PROVE IInv'
  BY <1>10, MigrateInv
<1>11. ASSUME NEW p \in Slots, RunServices(p) PROVE IInv'
  BY <1>11, RunServicesInv
<1>12. ASSUME NEW p \in Slots, StartFails(p) PROVE IInv'
  BY <1>12, StartFailsInv
<1>13. ASSUME NEW p \in Slots, Notice(p) PROVE IInv'
  BY <1>13, NoticeInv
<1>14. ASSUME NEW p \in Slots, Gathered(p) PROVE IInv'
  BY <1>14, GatheredInv
<1>15. ASSUME NEW p \in Slots, StopPublisher(p) PROVE IInv'
  BY <1>15, StopPublisherInv
<1>16. ASSUME NEW p \in Slots, CancelTasks(p) PROVE IInv'
  BY <1>16, CancelTasksInv
<1>17. ASSUME NEW p \in Slots, CloseBridge(p) PROVE IInv'
  BY <1>17, CloseBridgeInv
<1>18. ASSUME NEW p \in Slots, Interrupt(p) PROVE IInv'
  BY <1>18, InterruptInv
<1>19. ASSUME NEW p \in Slots, TelegramReturns(p) PROVE IInv'
  BY <1>19, TelegramReturnsInv
<1>20. ASSUME NEW p \in Slots, Kill(p) PROVE IInv'
  BY <1>20, KillInv
<1>21. ASSUME NEW p \in Slots, RecordExpires(p) PROVE IInv'
  BY <1>21, RecordExpiresInv
<1>22. ASSUME NEW p \in Slots, NEW k \in RowKinds, ChangeRow(p, k) PROVE IInv'
  BY <1>22, ChangeRowInv
<1>23. ASSUME NEW p \in Slots, NEW t \in Awaited, TaskFails(p, t) PROVE IInv'
  BY <1>23, TaskFailsInv
<1>24. CASE UNCHANGED vars
  <2>1. TypeOK'
    BY <1>24 DEF vars, files, IInv, TypeOK
  <2>2. OneKey' /\ TokenWhole'
    BY <1>24 DEF vars, files, IInv, OneKey, TokenWhole
  <2>3. TokenSteps'
    BY <1>24 DEF vars, files, IInv, TokenSteps
  <2>4. EndsClean' /\ TaskSteps'
    BY <1>24 DEF vars, files, IInv, EndsClean, TaskSteps
  <2>5. QED
    BY <2>1, <2>2, <2>3, <2>4 DEF IInv
<1>25. QED
  BY <1>1, <1>2, <1>3, <1>4, <1>5, <1>6, <1>7, <1>8, <1>9, <1>10, <1>11, <1>12, <1>13, <1>14, <1>15, <1>16, <1>17, <1>18, <1>19, <1>20, <1>21, <1>22, <1>23, <1>24 DEF Next, Starts, Stops

-----------------------------------------------------------------------------
LEMMA Invariance == Spec => []IInv
<1>1. Init => IInv
  BY InitInv
<1>2. IInv /\ [Next]_vars => IInv'
  BY NextInv
<1>3. QED
  BY <1>1, <1>2, PTL DEF Spec

(* Every variable keeps its range, for any number of processes, starts and  *)
(* faults.                                                                  *)
THEOREM TypeCorrect == Spec => []TypeOK
<1>1. IInv => TypeOK
  BY DEF IInv
<1>2. QED
  BY <1>1, Invariance, PTL

(* All processes that ever have an audit key have the same one, whichever   *)
(* of them created it and whatever failed (_create_app_audit_key).          *)
THEOREM KeyShared == Spec => []OneKey
<1>1. IInv => OneKey
  BY DEF IInv
<1>2. QED
  BY <1>1, Invariance, PTL

(* No process, however it was interrupted, leaves a token file that is not  *)
(* whole, and none serves with another token than the one it was given      *)
(* (_write_token_atomic).                                                   *)
THEOREM TokenCorrect == Spec => []TokenWhole
<1>1. IInv => TokenWhole
  BY DEF IInv
<1>2. QED
  BY <1>1, Invariance, PTL

(* A process that ends by itself leaves no task behind, and tells a failure *)
(* that happened whenever one has, unless it was interrupted                *)
(* (_run_services).                                                         *)
THEOREM EndsCorrect == Spec => []EndsClean
<1>1. IInv => EndsClean
  BY DEF IInv
<1>2. QED
  BY <1>1, Invariance, PTL

(* No step of any process takes the Telegram state back to what audit.db    *)
(* held (migrate_telegram_tables).                                          *)
THEOREM StateNeverTakenBack == Spec => StateKept
<1>1. ASSUME TypeOK, [Next]_vars
      PROVE  [/\ rows'["state"] >= rows["state"]
              /\ rows["record"] = 2 => rows'["record"] # 1]_rows
  <2>1. \A k \in RowKinds : rows[k] \in 0..2
    BY <1>1 DEF TypeOK
  <2>2. ASSUME NEW p \in Slots, Migrate(p)
        PROVE  rows'["state"] >= rows["state"] /\ (rows["record"] = 2 => rows'["record"] # 1)
    BY <1>1, <2>1, <2>2 DEF Migrate, Migrated, RowKinds
  <2>3. ASSUME NEW p \in Slots, NEW k \in RowKinds, ChangeRow(p, k)
        PROVE  rows'["state"] >= rows["state"] /\ (rows["record"] = 2 => rows'["record"] # 1)
    BY <1>1, <2>1, <2>3 DEF ChangeRow, RowKinds, TypeOK
  <2>4. ASSUME NEW p \in Slots, RecordExpires(p)
        PROVE  rows'["state"] >= rows["state"] /\ (rows["record"] = 2 => rows'["record"] # 1)
    BY <1>1, <2>1, <2>4 DEF RecordExpires, RowKinds, TypeOK
  <2>5. ASSUME NEW p \in Slots,
               \/ Launch(p) \/ (Starts(p) /\ ~Migrate(p)) \/ StartFails(p)
               \/ Stops(p) \/ Interrupt(p) \/ TelegramReturns(p) \/ Kill(p)
               \/ \E t \in Awaited : TaskFails(p, t)
        PROVE  rows' = rows
    BY <2>5 DEF Launch, Starts, StartFails, Stops, Interrupt, TelegramReturns, Kill,
       TaskFails, ReadKey, PublishKey, OpenDatabases, ReadToken, ImportToken,
       CreateTemporary, WriteTemporary, ReplaceToken, RunServices, Notice, Gathered,
       StopPublisher, CancelTasks, CloseBridge, files
  <2>6. CASE UNCHANGED vars
    BY <2>6 DEF vars, files
  <2>7. QED
    BY <1>1, <2>2, <2>3, <2>4, <2>5, <2>6 DEF Next
<1>2. QED
  BY <1>1, TypeCorrect, PTL DEF Spec, StateKept

-----------------------------------------------------------------------------
(* Configuration. *)

(* The file is a tree and legible, as FormsAssumption has the first one and *)
(* every saved option.                                                      *)
FormWhole == IsTree(form) /\ \A p \in DOMAIN form : Legible(p, form[p])

(* What every state satisfies: the file is whole, and a loader that runs has *)
(* read what the file and the environment still hold.                       *)
ConfIInv ==
  /\ FormWhole
  /\ running["app"].at = "up" =>
       AppAccepts(form) /\ running["app"].config = AppConfig(form)
  /\ running["standalone"].at = "up" =>
       StandaloneAccepts(form, env) /\ running["standalone"].config = Config(form, env)
  /\ running = [l \in Loaders |-> running[l]]

(* A saved option takes the place of what is above and below it, so that    *)
(* the tree stays one.                                                      *)
LEMMA SaveKeeps ==
  ASSUME NEW path, NEW value, FormWhole, Legible(path, value), Save(path, value)
  PROVE  FormWhole'
  <1> DEFINE kept == {p \in DOMAIN form : ~Prefixed(path, p) /\ ~Prefixed(p, path)}
  <1>1. form' = [p \in kept \cup {path} |-> IF p = path THEN value ELSE form[p]]
    BY DEF Save
  <1>2. DOMAIN form' = kept \cup {path}
    BY <1>1
  <1>3. /\ path \in DOMAIN form' /\ form'[path] = value
        /\ \A p \in DOMAIN form' \ {path} :
             p \in DOMAIN form /\ form'[p] = form[p] /\ ~Prefixed(path, p) /\ ~Prefixed(p, path)
    BY <1>1
  <1>4. (\A p, q \in DOMAIN form : Prefixed(p, q) => p = q)
    BY DEF FormWhole, IsTree
  <1>5. \A p, q \in DOMAIN form' : Prefixed(p, q) => p = q
    BY <1>3, <1>4
  <1>6. \A p \in DOMAIN form' : Legible(p, form'[p])
    BY <1>3 DEF FormWhole
  <1> QED
    BY <1>5, <1>6 DEF FormWhole, IsTree

(* Every step keeps the invariant: saving waits until both loaders are      *)
(* down.                                                                    *)
LEMMA ConfStep == ConfIInv /\ [ConfNext]_confVars => ConfIInv'
  <1> SUFFICES ASSUME ConfIInv, [ConfNext]_confVars PROVE ConfIInv'
    OBVIOUS
  <1>1. CASE \E edit \in OptionEdits : Save(edit[1], edit[2])
    <2>1. PICK edit \in OptionEdits : Save(edit[1], edit[2])
      BY <1>1
    <2>2. FormWhole'
      BY <2>1, SaveKeeps, FormsAssumption DEF ConfIInv
    <2>3. /\ running' = running /\ env' = env
          /\ running["app"] = Down /\ running["standalone"] = Down
      BY <2>1 DEF Save, Loaders
    <2> QED
      BY <2>2, <2>3 DEF ConfIInv, Down, Loaders
  <1>2. CASE StartApp
    <2>1. form' = form /\ env' = env /\ FormWhole'
      BY <1>2 DEF StartApp, ConfIInv, FormWhole
    <2>2. PICK token \in BOOLEAN :
            running' = [running EXCEPT !["app"] =
              IF token /\ AppAccepts(form) THEN Up(AppConfig(form)) ELSE Refused]
      BY <1>2 DEF StartApp
    <2>3. running'["standalone"] = running["standalone"]
      BY <2>2 DEF ConfIInv, Loaders
    <2>4. /\ running'["app"] = IF token /\ AppAccepts(form) THEN Up(AppConfig(form)) ELSE Refused
          /\ running' = [l \in Loaders |-> running'[l]]
      BY <2>2 DEF ConfIInv, Loaders
    <2> QED
      BY <2>1, <2>3, <2>4 DEF ConfIInv, Up, Refused
  <1>3. CASE StartStandalone
    <2>1. form' = form /\ env' = env /\ FormWhole'
      BY <1>3 DEF StartStandalone, ConfIInv, FormWhole
    <2>2. running' = [running EXCEPT !["standalone"] =
            IF StandaloneAccepts(form, env) THEN Up(Config(form, env)) ELSE Refused]
      BY <1>3 DEF StartStandalone
    <2>3. running'["app"] = running["app"]
      BY <2>2 DEF ConfIInv, Loaders
    <2>4. /\ running'["standalone"] =
               IF StandaloneAccepts(form, env) THEN Up(Config(form, env)) ELSE Refused
          /\ running' = [l \in Loaders |-> running'[l]]
      BY <2>2 DEF ConfIInv, Loaders
    <2> QED
      BY <2>1, <2>3, <2>4 DEF ConfIInv, Up, Refused
  <1>4. CASE \E l \in Loaders : Stop(l)
    <2>1. PICK l \in Loaders : Stop(l)
      BY <1>4
    <2>2. form' = form /\ env' = env /\ FormWhole'
      BY <2>1 DEF Stop, ConfIInv, FormWhole
    <2>3. running' = [running EXCEPT ![l] = Down]
      BY <2>1 DEF Stop
    <2>4. /\ running' = [k \in Loaders |-> running'[k]]
          /\ \A k \in Loaders : running'[k] = Down \/ running'[k] = running[k]
      BY <2>3 DEF ConfIInv
    <2>5. \A k \in Loaders : running'[k].at = "up" => running'[k] = running[k]
      BY <2>4 DEF Down
    <2> QED
      BY <2>2, <2>4, <2>5 DEF ConfIInv, Loaders
  <1>5. CASE UNCHANGED confVars
    BY <1>5 DEF confVars, ConfIInv, FormWhole
  <1> QED
    BY <1>1, <1>2, <1>3, <1>4, <1>5 DEF ConfNext

(* The invariant holds in every state.                                      *)
LEMMA ConfInvariant == ConfSpec => []ConfIInv
  <1>1. ConfInit => ConfIInv
    BY FormsAssumption DEF ConfInit, ConfIInv, FormWhole, Down, Loaders
  <1> QED
    BY <1>1, ConfStep, PTL DEF ConfSpec

-----------------------------------------------------------------------------
(* A section's path leads to those of its keys.                             *)
LEMMA Inside ==
  ASSUME NEW s, NEW n, NEW k
  PROVE  /\ Prefixed(<<s>>, <<s, k>>) /\ <<s>> # <<s, k>>
         /\ Prefixed(<<s>>, <<s, n, k>>) /\ <<s>> # <<s, n, k>>
BY DEF Prefixed

(* A section that is written and unset (null or an empty text) has no keys  *)
(* below it, so that its readers see defaults only.                         *)
LEMMA NothingBelow ==
  ASSUME NEW f, IsTree(f), NEW s, IsUnset(f, <<s>>)
  PROVE  /\ \A k : <<s, k>> \notin DOMAIN f
         /\ \A n, k : <<s, n, k>> \notin DOMAIN f
  <1>1. <<s>> \in DOMAIN f
    BY DEF IsUnset, Get, Unset, Object
  <1>2. ASSUME NEW k PROVE <<s, k>> \notin DOMAIN f
    BY <1>1, Inside DEF IsTree
  <1>3. ASSUME NEW n, NEW k PROVE <<s, n, k>> \notin DOMAIN f
    BY <1>1, Inside DEF IsTree
  <1> QED
    BY <1>2, <1>3

(* str(value or "!") of a text is never empty.                              *)
LEMMA PrefixGiven ==
  ASSUME NEW f, NEW path, NEW default, default = Str(Exclamation),
         path \in DOMAIN f => f[path].kind = "text"
  PROVE  OrElse(Get(f, path, default), Exclamation).length > 0
  <1>1. Exclamation.length > 0 /\ Str(Exclamation).kind = "text"
    BY DEF Exclamation, Word, Str
  <1> DEFINE v == Get(f, path, default)
  <1>2. v.kind = "text"
    BY <1>1 DEF Get
  <1>3. Truthy(v) <=> v.text.length > 0
    BY <1>2 DEF Truthy
  <1> QED
    BY <1>1, <1>3 DEF OrElse

(* What _validate asks of the section telegram.                            *)
TelegramValidated(t) ==
  /\ t.channel >= 1 /\ t.prefix.length > 0
  /\ t.meshLength >= 1 /\ t.telegramLength >= 1
  /\ \A name \in LimitNames : t.limits[name].messages >= 1 /\ t.limits[name].window >= 1
  /\ t.enabled => t.chat.length > 0 /\ t.user.length > 0

(* _parse_telegram of the App checks what _validate would, defaults         *)
(* included.                                                                *)
LEMMA TelegramValid ==
  ASSUME NEW f, IsTree(f), AppTelegramOk(f),
         \A p \in DOMAIN f : Legible(p, f[p])
  PROVE  TelegramValidated(AppTelegram(f))
  <1> DEFINE t       == AppTelegram(f)
             channel == Telegram(f, "meshcore_channel_index", Num(1))
             mesh    == Telegram(f, "max_meshcore_message_length", Num(180))
             long    == Telegram(f, "max_telegram_message_length", Num(3900))
             enabled == Telegram(f, "enabled", Flag(FALSE))
             chat    == Strip(OrEmpty(Telegram(f, "allowed_private_chat_id", Str(Empty))))
             user    == Strip(OrEmpty(Telegram(f, "allowed_user_id", Str(Empty))))
  <1>1. t.enabled <=> Truthy(enabled)
    BY Zenon DEF AppTelegram
  <1>2. t.channel = channel.n /\ t.meshLength = mesh.n /\ t.telegramLength = long.n
    BY DEF AppTelegram
  <1>3. t.chat = chat /\ t.user = user
    BY DEF AppTelegram
  <1>4. \A name \in LimitNames : /\ t.limits[name].messages = AppMessages(f, name).n
                                 /\ t.limits[name].window = Window(f, name).n
    BY DEF AppTelegram
  <1>5. t.prefix.length > 0
    <2>1. t.prefix = OrElse(Get(f, <<"telegram", "command_prefix">>, Str(Exclamation)), Exclamation)
      BY DEF AppTelegram, Telegram, Exclamation
    <2> QED
      BY <2>1, PrefixGiven DEF Legible
  <1>6. CASE IsUnset(f, <<"telegram">>)
    <2>1. \A k : <<"telegram", k>> \notin DOMAIN f
      BY <1>6, NothingBelow
    <2>2. channel = Num(1) /\ mesh = Num(180) /\ long = Num(3900)
      BY <2>1 DEF Telegram, Get
    <2>3. enabled = Flag(FALSE)
      BY <2>1 DEF Telegram, Get
    <2>4. \A name : AppMessages(f, name) = Num(DefaultMessages(name)) /\ Window(f, name) = Num(60)
      BY <1>6, NothingBelow DEF AppMessages, Window, LimitPath, Get
    <2>5. \A i : Num(i).n = i
      BY DEF Num
    <2>6. \A name : DefaultMessages(name) >= 1
      BY DEF DefaultMessages
    <2>7. ~Truthy(Flag(FALSE))
      BY DEF Truthy, Flag
    <2>8. ~t.enabled
      <3> HIDE DEF t, enabled
      <3> QED
        BY <1>1, <2>3, <2>7
    <2> HIDE DEF t, channel, mesh, long
    <2>9. TelegramValidated(t)
      BY <1>2, <1>4, <1>5, <2>2, <2>4, <2>5, <2>6, <2>8 DEF TelegramValidated
    <2> QED
      BY <2>9 DEF t
  <1>7. CASE ~IsUnset(f, <<"telegram">>)
    <2>1. AppTelegramFieldsOk(f)
      BY <1>7 DEF AppTelegramOk
    <2>2. Positive(channel) /\ Positive(mesh) /\ Positive(long)
      BY <2>1 DEF AppTelegramFieldsOk, AppChannelOk
    <2>3. \A name \in LimitNames : Positive(AppMessages(f, name)) /\ Positive(Window(f, name))
      <3>1. \A name \in LimitNames : LimitOk(f, name)
        BY <2>1 DEF AppTelegramFieldsOk
      <3> QED
        BY <3>1 DEF LimitOk
    <2>4. Truthy(enabled) => chat.length > 0 /\ user.length > 0
      BY <2>1 DEF AppTelegramFieldsOk, IdsOk
    <2>5. \A v : Positive(v) => v.n >= 1
      BY DEF Positive
    <2> HIDE DEF t, channel, mesh, long, enabled, chat, user
    <2>6. TelegramValidated(t)
      BY <1>1, <1>2, <1>3, <1>4, <1>5, <2>2, <2>3, <2>4, <2>5 DEF TelegramValidated
    <2> QED
      BY <2>6 DEF t
  <1> QED
    BY <1>6, <1>7

(* So does its _parse_health.                                               *)
LEMMA HealthValid ==
  ASSUME NEW f, IsTree(f), AppHealthOk(f)
  PROVE  InHeartbeatRange(Health(f).heartbeat)
  <1>1. Health(f).heartbeat = Heartbeat(f).n
    BY DEF Health
  <1>2. CASE IsUnset(f, <<"health">>)
    <2>1. Heartbeat(f) = Num(60)
      BY <1>2, NothingBelow DEF Heartbeat, Get
    <2> QED
      BY <1>1, <2>1 DEF Num, InHeartbeatRange
  <1>3. CASE ~IsUnset(f, <<"health">>)
    BY <1>1, <1>3 DEF AppHealthOk
  <1> QED
    BY <1>2, <1>3

(* Whatever the App's loader accepts would pass _validate.                  *)
LEMMA AppValid ==
  ASSUME NEW f, IsTree(f), AppAccepts(f),
         \A p \in DOMAIN f : Legible(p, f[p])
  PROVE  Valid(AppConfig(f))
  <1> DEFINE c == AppConfig(f)
  <1>1. /\ c.prefix = OrElse(Get(f, <<"command_prefix">>, Str(Exclamation)), Exclamation)
        /\ c.transport = "homeassistant" /\ c.eventTypes = {"meshcore_message"}
        /\ c.channel = Channel(f).n
        /\ c.url = Word("http", 22) /\ c.token = Word("supervisor", 40)
        /\ c.telegram = AppTelegram(f) /\ c.health = Health(f)
        /\ c.limit = [commands |-> Commands(f).n, window |-> CommandWindow(f).n]
    BY DEF AppConfig
  <1>2. c.prefix.length > 0
    BY <1>1, PrefixGiven DEF Legible
  <1>3. c.channel >= 1 /\ c.limit.commands >= 1 /\ c.limit.window >= 1
    BY <1>1 DEF AppAccepts, AppChannelOk, Positive
  <1>4. /\ c.url.length = 22 /\ c.url.word = "http" /\ c.token.length = 40
    BY <1>1 DEF Word
  <1>5. TelegramValidated(c.telegram)
    BY <1>1, TelegramValid DEF AppAccepts
  <1>6. InHeartbeatRange(c.health.heartbeat)
    BY <1>1, HealthValid DEF AppAccepts
  <1>7. c.transport = "homeassistant" /\ "meshcore_message" \in c.eventTypes
    BY <1>1
  <1> HIDE DEF c
  <1>8. Valid(c)
    BY <1>2, <1>3, <1>4, <1>5, <1>6, <1>7 DEF Valid, TelegramValidated
  <1> QED
    BY <1>8 DEF c

(* RunningIsValid for any options, environments and order of saves and      *)
(* starts: config.py never validates what the App's loader returns          *)
(* (config.py:638), and has no need to.                                     *)
THEOREM RunsValid == ConfSpec => []RunningIsValid
  <1>1. ConfIInv => RunningIsValid
    BY AppValid DEF ConfIInv, FormWhole, RunningIsValid, StandaloneAccepts, Loaders
  <1> QED
    BY <1>1, ConfInvariant, PTL

(* The prefixes of accepted senders are texts.                              *)
LEMMA SenderTexts ==
  ASSUME NEW f, AppSendersOk(f), \A p \in DOMAIN f : Legible(p, f[p]),
         NEW i \in DOMAIN Senders(f).items
  PROVE  Prefix(Senders(f).items[i]) \in AnyText
  <1>1. Senders(f).kind = "list" /\ Senders(f).items[i].kind = "object"
    BY DEF AppSendersOk
  <1>2. CASE <<"authorized_senders">> \in DOMAIN f
    <2>1. Senders(f) = f[<<"authorized_senders">>]
      BY <1>2 DEF Senders, Get
    <2>2. Legible(<<"authorized_senders">>, Senders(f))
      BY <1>2, <2>1
    <2> QED
      BY <1>1, <2>2 DEF Legible
  <1>3. CASE <<"authorized_senders">> \notin DOMAIN f
    <2>1. Senders(f).items = <<>>
      BY <1>3 DEF Senders, Get, List
    <2> QED
      BY <2>1
  <1> QED
    BY <1>2, <1>3

(* strip and lower change no letter, and the scope is written anew.         *)
LEMMA SenderKeys ==
  ASSUME NEW item, Prefix(item) \in AnyText
  PROVE  AppSenderId(item) = SenderId(Prefix(item))
  <1> DEFINE t == Prefix(item)
  <1>1. Strip(t).word = t.word /\ DOMAIN Strip(t) = DOMAIN t /\ "upper" \in DOMAIN t /\ "word" \in DOMAIN t
    BY DEF Strip, AnyText
  <1>2. Lower(Strip(t)).word = t.word
    BY <1>1 DEF Lower
  <1> HIDE DEF t
  <1> QED
    BY <1>2 DEF AppSenderId, SenderId, t

(* The entries of f for one word, as ListedRole counts them. *)
Entries(f, w) == {i \in DOMAIN Senders(f).items : Prefix(Senders(f).items[i]).word = w}

(* The dictionary of users, entry by entry: a word has the role of its last *)
(* entry, and the unidentified sender one in testing mode only.             *)
LEMMA ListedUsers ==
  ASSUME NEW f, AppSendersOk(f), \A p \in DOMAIN f : Legible(p, f[p]), NEW t
  PROVE  /\ SenderId(t) \in DOMAIN AppUsers(f) <=> Entries(f, t.word) # {}
         /\ Entries(f, t.word) # {} =>
              AppUsers(f)[SenderId(t)] = ItemRole(Senders(f).items[Last(Entries(f, t.word))])
         /\ TestingSender \in DOMAIN AppUsers(f) <=> Testing(f)
         /\ Testing(f) => AppUsers(f)[TestingSender] = "readonly"
  <1> DEFINE items == Senders(f).items
             listed == LastOf(items, AppSenderId, ItemRole)
             users == AppUsers(f)
  <1>1. \A i \in DOMAIN items : AppSenderId(items[i]) = SenderId(Prefix(items[i]))
    BY SenderTexts, SenderKeys
  <1>2. \A a, b : SenderId(a) = SenderId(b) <=> a.word = b.word
    BY DEF SenderId, Id
  <1>3. \A a : SenderId(a) # TestingSender
    BY DEF SenderId, TestingSender, Id
  <1>4. DOMAIN listed = {AppSenderId(items[i]) : i \in DOMAIN items}
    BY DEF LastOf
  <1>5. \A k \in DOMAIN listed :
          listed[k] = ItemRole(items[Last({i \in DOMAIN items : AppSenderId(items[i]) = k})])
    BY DEF LastOf
  <1>6. DOMAIN users = DOMAIN listed \cup (IF Testing(f) THEN {TestingSender} ELSE {})
    BY DEF AppUsers
  <1>7. \A k \in DOMAIN users : users[k] = IF k = TestingSender THEN "readonly" ELSE listed[k]
    BY DEF AppUsers
  <1>8. {i \in DOMAIN items : AppSenderId(items[i]) = SenderId(t)} = Entries(f, t.word)
    BY <1>1, <1>2 DEF Entries
  <1>9. SenderId(t) \in DOMAIN listed <=> Entries(f, t.word) # {}
    BY <1>4, <1>8
  <1>10. TestingSender \notin DOMAIN listed
    BY <1>1, <1>3, <1>4
  <1> HIDE DEF items, listed, users
  <1>11. /\ SenderId(t) \in DOMAIN users <=> Entries(f, t.word) # {}
         /\ TestingSender \in DOMAIN users <=> Testing(f)
    BY <1>3, <1>6, <1>9, <1>10
  <1>12. Testing(f) => users[TestingSender] = "readonly"
    BY <1>7, <1>11
  <1>13. Entries(f, t.word) # {} => users[SenderId(t)] = ItemRole(items[Last(Entries(f, t.word))])
    BY <1>3, <1>5, <1>7, <1>8, <1>9, <1>11
  <1> QED
    BY <1>11, <1>12, <1>13 DEF users, items

(* An event of the running App gets the role the options list for it.       *)
LEMMA AppAccess ==
  ASSUME NEW f, AppAccepts(f), \A p \in DOMAIN f : Legible(p, f[p]),
         NEW t \in AnyText
  PROVE  MeshRole(AppConfig(f), t) = ListedRole(f, t)
  <1> DEFINE c == AppConfig(f)
  <1>1. /\ c.transport = "homeassistant" /\ c.users = AppUsers(f)
        /\ c.requireStable <=> ~Testing(f)
        /\ c.allowWithoutSender <=> Testing(f)
    BY Zenon DEF AppConfig
  <1>2. SenderId(Lower(t)) = SenderId(t)
    BY DEF AnyText, Lower, SenderId
  <1>3. /\ SenderId(t) # TelegramSender /\ TestingSender # TelegramSender
    BY DEF SenderId, TelegramSender, TestingSender, Id
  <1> HIDE DEF c
  <1>4. <<"homeassistant", c.channel>> \in Rooms(c)
    BY <1>1 DEF Rooms
  <1>5. \A id : id # TelegramSender =>
          /\ id \in DOMAIN Users(c) <=> id \in DOMAIN c.users
          /\ id \in DOMAIN c.users => Users(c)[id] = c.users[id]
    BY DEF Users
  <1>6. \A id : id # TelegramSender =>
          RoleIn(c, <<"homeassistant", c.channel>>, id) =
            IF id \in DOMAIN c.users THEN c.users[id] ELSE "none"
    BY <1>4, <1>5 DEF RoleIn
  <1>7. AppSendersOk(f)
    BY DEF AppAccepts
  <1>8. CASE ~Stable(t) /\ ~Testing(f)
    <2>1. MeshRole(c, t) = "none"
      BY <1>1, <1>8 DEF MeshRole
    <2>2. ListedRole(f, t) = "none"
      BY <1>8 DEF ListedRole
    <2> QED
      BY <2>1, <2>2 DEF c
  <1>9. CASE ~Stable(t) /\ Testing(f)
    <2>1. EventSender(c, t) = TestingSender
      BY <1>1, <1>9 DEF EventSender
    <2>2. MeshRole(c, t) = RoleIn(c, <<"homeassistant", c.channel>>, TestingSender)
      BY <1>1, <1>9, <2>1 DEF MeshRole
    <2>3. MeshRole(c, t) = "readonly"
      BY <1>1, <1>3, <1>6, <1>7, <1>9, <2>2, ListedUsers
    <2>4. ListedRole(f, t) = "readonly"
      BY <1>9 DEF ListedRole
    <2> QED
      BY <2>3, <2>4 DEF c
  <1>10. CASE Stable(t)
    <2>1. EventSender(c, t) = SenderId(t)
      BY <1>2, <1>10 DEF EventSender
    <2>2. MeshRole(c, t) = RoleIn(c, <<"homeassistant", c.channel>>, SenderId(t))
      BY <1>10, <2>1 DEF MeshRole
    <2>3. MeshRole(c, t) = IF SenderId(t) \in DOMAIN AppUsers(f)
                           THEN AppUsers(f)[SenderId(t)] ELSE "none"
      BY <1>1, <1>3, <1>6, <2>2
    <2>4. ListedRole(f, t) = IF Entries(f, t.word) = {} THEN "none"
                             ELSE ItemRole(Senders(f).items[Last(Entries(f, t.word))])
      BY <1>10 DEF ListedRole, Entries
    <2>5. MeshRole(c, t) = ListedRole(f, t)
      BY <1>7, <2>3, <2>4, ListedUsers
    <2> QED
      BY <2>5 DEF c
  <1> QED
    BY <1>8, <1>9, <1>10

(* The Telegram user has a role exactly while the bridge is enabled.        *)
LEMMA TelegramAccess ==
  ASSUME NEW f
  PROVE  TelegramRole(AppConfig(f)) =
           IF AppConfig(f).telegram.enabled THEN AppConfig(f).telegram.role ELSE "none"
  <1> DEFINE c == AppConfig(f)
  <1>1. c.transport = "homeassistant"
    BY DEF AppConfig
  <1> HIDE DEF c
  <1>2. CASE c.telegram.enabled
    <2>1. <<"telegram", 0>> \in Rooms(c)
      BY <1>2 DEF Rooms
    <2>2. TelegramSender \in DOMAIN Users(c) /\ Users(c)[TelegramSender] = c.telegram.role
      BY <1>2 DEF Users
    <2> QED
      BY <1>2, <2>1, <2>2 DEF TelegramRole, RoleIn, c
  <1>3. CASE ~c.telegram.enabled
    <2>1. <<"telegram", 0>> \notin Rooms(c)
      BY <1>1, <1>3 DEF Rooms
    <2> QED
      BY <1>3, <2>1 DEF TelegramRole, RoleIn, c
  <1> QED
    BY <1>2, <1>3

(* AccessAsListed for any options, any senders and any pubkey_prefix of an  *)
(* event: from options.json to the authorizer, who may run commands is what *)
(* is written.                                                              *)
THEOREM AccessTrue == ConfSpec => []AccessAsListed
  <1>1. ASSUME ConfIInv PROVE AccessAsListed
    <2> SUFFICES ASSUME running["app"].at = "up"
                 PROVE  /\ \A t \in Prefixes : MeshRole(running["app"].config, t) = ListedRole(form, t)
                        /\ TelegramRole(running["app"].config) =
                             IF running["app"].config.telegram.enabled
                             THEN running["app"].config.telegram.role ELSE "none"
      BY DEF AccessAsListed
    <2>1. running["app"].config = AppConfig(form) /\ AppAccepts(form)
      BY <1>1 DEF ConfIInv
    <2>2. \A t \in Prefixes : MeshRole(AppConfig(form), t) = ListedRole(form, t)
      BY <1>1, <2>1, AppAccess, FormsAssumption DEF ConfIInv, FormWhole
    <2> QED
      BY <2>1, <2>2, TelegramAccess
  <1> QED
    BY <1>1, ConfInvariant, PTL

(* An environment that names only the transport. *)
OnlyTransport(e) == \A p \in DOMAIN e : p[1] \in {"transport", "homeassistant"}

(* It leaves every other setting to the file.                               *)
LEMMA NotOverridden ==
  ASSUME NEW e, OnlyTransport(e), NEW s, s \notin {"transport", "homeassistant"}
  PROVE  /\ <<s>> \notin DOMAIN e
         /\ \A k : <<s, k>> \notin DOMAIN e
         /\ \A n, k : <<s, n, k>> \notin DOMAIN e
BY DEF OnlyTransport

(* A setting the environment does not name is read from the file.           *)
LEMMA SettingRead ==
  ASSUME NEW f, NEW e, NEW path, path \notin DOMAIN e, NEW default
  PROVE  /\ Setting(f, e, path, default) = Get(f, path, default)
         /\ Switch(f, e, path, default) = Truthy(Get(f, path, default))
  <1>1. Setting(f, e, path, default) = Get(f, path, default)
    BY DEF Setting, Get
  <1>2. Switch(f, e, path, default) = Truthy(Get(f, path, default))
    BY Zenon DEF Switch
  <1> QED
    BY <1>1, <1>2, Zenon

(* So are those of the section telegram.                                    *)
LEMMA TelegramRead ==
  ASSUME NEW f, NEW e, OnlyTransport(e), NEW key, NEW default
  PROVE  /\ TelegramSetting(f, e, key, default) = Telegram(f, key, default)
         /\ TelegramSwitch(f, e, key, default) = Truthy(Telegram(f, key, default))
  <1>1. <<"telegram", key>> \notin DOMAIN e
    BY NotOverridden
  <1> QED
    BY <1>1, SettingRead, Zenon DEF TelegramSetting, TelegramSwitch, Telegram

(* Without the key "commands" both loaders read a forwarding limit alike.   *)
LEMMA LimitRead ==
  ASSUME NEW f, NEW e, OnlyTransport(e), NEW name,
         LimitPath(name, "commands") \notin DOMAIN f
  PROVE  /\ Messages(f, e, name) = AppMessages(f, name)
         /\ EnvWindow(f, e, name) = Window(f, name)
  <1>1. \A key : LimitPath(name, key) \notin DOMAIN e
    BY NotOverridden DEF LimitPath
  <1>2. Get(f, LimitPath(name, "commands"), Num(DefaultMessages(name))) = Num(DefaultMessages(name))
    BY DEF Get
  <1> QED
    BY <1>1, <1>2, SettingRead DEF Messages, AppMessages, EnvWindow, Window

(* What both loaders read with the same defaults.                           *)
LEMMA SameSections ==
  ASSUME NEW f, NEW e, OnlyTransport(e)
  PROVE  /\ AppConfig(f).channel = Config(f, e).channel
         /\ AppConfig(f).weather = Config(f, e).weather
         /\ AppConfig(f).home = Config(f, e).home
         /\ AppConfig(f).health = Config(f, e).health
         /\ AppConfig(f).limit = Config(f, e).limit
  <1> DEFINE a == AppConfig(f)
             c == Config(f, e)
  <1>1. /\ EnvChannel(f, e) = Channel(f)
        /\ EnvHeartbeat(f, e) = Heartbeat(f)
        /\ EnvCommands(f, e) = Commands(f)
        /\ EnvCommandWindow(f, e) = CommandWindow(f)
    <2>1. EnvChannel(f, e) = Channel(f) /\ EnvHeartbeat(f, e) = Heartbeat(f)
      BY NotOverridden, SettingRead DEF EnvChannel, Channel, EnvHeartbeat, Heartbeat
    <2>2. EnvCommands(f, e) = Commands(f) /\ EnvCommandWindow(f, e) = CommandWindow(f)
      BY NotOverridden, SettingRead
         DEF EnvCommands, Commands, EnvCommandWindow, CommandWindow
    <2> QED BY <2>1, <2>2
  <1>2. a.channel = c.channel
    BY <1>1 DEF AppConfig, Config
  <1>3. a.weather = c.weather /\ a.home = c.home
    BY DEF AppConfig, Config
  <1>4. a.health = c.health
    BY <1>1 DEF AppConfig, Config, Health
  <1>5. a.limit = c.limit
    BY <1>1 DEF AppConfig, Config
  <1> QED
    BY <1>2, <1>3, <1>4, <1>5

(* The command prefix, which only the App replaces when it is empty: the    *)
(* standalone loader does not start with an empty one.                      *)
LEMMA SamePrefix ==
  ASSUME NEW f, NEW e, OnlyTransport(e), \A p \in DOMAIN f : Legible(p, f[p]),
         StandaloneAccepts(f, e)
  PROVE  AppConfig(f).prefix = Config(f, e).prefix
  <1> DEFINE v == Get(f, <<"command_prefix">>, Str(Exclamation))
  <1>1. AppConfig(f).prefix = OrElse(v, Exclamation)
    BY DEF AppConfig
  <1>2. Config(f, e).prefix = v.text
    BY NotOverridden, SettingRead DEF Config
  <1>3. v.kind = "text"
    BY DEF Get, Str, Legible
  <1>4. v.text.length > 0
    BY <1>2 DEF StandaloneAccepts, Valid
  <1> HIDE DEF v
  <1> QED
    BY <1>1, <1>2, <1>3, <1>4 DEF OrElse, Truthy

(* The fields of TelegramConfig.                                            *)
TelegramKeys ==
  {"enabled", "import", "tokenFile", "chat", "user", "role", "channel", "toTelegram",
   "toMesh", "prefix", "meshLength", "telegramLength", "toMeshPrefix",
   "toTelegramPrefix", "confirmation", "limits"}

(* The section telegram, field by field.                                    *)
LEMMA SameTelegram ==
  ASSUME NEW f, NEW e, OnlyTransport(e)
  PROVE  \A key \in DOMAIN AppTelegram(f) \ ReadApart(f) :
           AppTelegram(f)[key] = TelegramConfig(f, e)[key]
  <1> DEFINE a == AppTelegram(f)
             c == TelegramConfig(f, e)
  <1>1. DOMAIN a = TelegramKeys
    BY DEF AppTelegram, TelegramKeys
  <1>2. /\ a.enabled = c.enabled /\ a.toTelegram = c.toTelegram /\ a.toMesh = c.toMesh
    <2> DEFINE enabled    == Telegram(f, "enabled", Flag(FALSE))
               toTelegram == Telegram(f, "forward_meshcore_to_telegram", Flag(TRUE))
               toMesh     == Telegram(f, "forward_telegram_to_meshcore", Flag(TRUE))
    <2>1. /\ a.enabled = Truthy(enabled) /\ a.toTelegram = Truthy(toTelegram)
          /\ a.toMesh = Truthy(toMesh)
      <3>1. a.enabled = Truthy(enabled)
        BY ZenonT(30) DEF AppTelegram
      <3>2. a.toTelegram = Truthy(toTelegram)
        BY ZenonT(30) DEF AppTelegram
      <3>3. a.toMesh = Truthy(toMesh)
        BY ZenonT(30) DEF AppTelegram
      <3> QED BY <3>1, <3>2, <3>3, Zenon
    <2>2. /\ c.enabled = TelegramSwitch(f, e, "enabled", Flag(FALSE))
          /\ c.toTelegram = TelegramSwitch(f, e, "forward_meshcore_to_telegram", Flag(TRUE))
          /\ c.toMesh = TelegramSwitch(f, e, "forward_telegram_to_meshcore", Flag(TRUE))
      <3>1. c.enabled = TelegramSwitch(f, e, "enabled", Flag(FALSE))
        BY ZenonT(30) DEF TelegramConfig
      <3>2. c.toTelegram = TelegramSwitch(f, e, "forward_meshcore_to_telegram", Flag(TRUE))
        BY ZenonT(30) DEF TelegramConfig
      <3>3. c.toMesh = TelegramSwitch(f, e, "forward_telegram_to_meshcore", Flag(TRUE))
        BY ZenonT(30) DEF TelegramConfig
      <3> QED BY <3>1, <3>2, <3>3, Zenon
    <2>3. /\ TelegramSwitch(f, e, "enabled", Flag(FALSE)) = Truthy(enabled)
          /\ TelegramSwitch(f, e, "forward_meshcore_to_telegram", Flag(TRUE)) = Truthy(toTelegram)
          /\ TelegramSwitch(f, e, "forward_telegram_to_meshcore", Flag(TRUE)) = Truthy(toMesh)
      BY TelegramRead, Zenon
    <2> QED
      BY <2>1, <2>2, <2>3, Zenon
  <1>3. /\ a.import = c.import /\ a.toTelegramPrefix = c.toTelegramPrefix
        /\ a.confirmation = c.confirmation
    BY DEF AppTelegram, TelegramConfig
  <1>4. a.prefix = c.prefix
    BY DEF AppTelegram, TelegramConfig, Exclamation
  <1>5. /\ a.chat = c.chat /\ a.user = c.user /\ a.role = c.role /\ a.channel = c.channel
    <2>1. a.chat = c.chat /\ a.user = c.user
      BY TelegramRead DEF AppTelegram, TelegramConfig
    <2>2. a.role = c.role
      BY TelegramRead DEF AppTelegram, TelegramConfig
    <2>3. a.channel = c.channel
      BY TelegramRead DEF AppTelegram, TelegramConfig
    <2> QED BY <2>1, <2>2, <2>3
  <1>6. a.meshLength = c.meshLength /\ a.telegramLength = c.telegramLength
    BY TelegramRead DEF AppTelegram, TelegramConfig
  <1>7. ASSUME "toMeshPrefix" \notin ReadApart(f) PROVE a.toMeshPrefix = c.toMeshPrefix
    <2>1. <<"telegram", "message_prefix">> \in DOMAIN f
      BY <1>7 DEF ReadApart
    <2> QED
      BY <2>1 DEF AppTelegram, TelegramConfig, Telegram, Get
  <1>8. ASSUME "tokenFile" \notin ReadApart(f) PROVE a.tokenFile = c.tokenFile
    <2> DEFINE v == Telegram(f, "bot_token_file", Str(Word("token", 23)))
    <2>1. Truthy(Telegram(f, "bot_token_file", Flag(TRUE)))
      BY <1>8 DEF ReadApart
    <2>2. Truthy(Str(Word("token", 23)))
      BY DEF Truthy, Str, Word
    <2>3. Truthy(v)
      BY <2>1, <2>2 DEF Telegram, Get
    <2>4. a.tokenFile = OrEmpty(v) /\ c.tokenFile = OrElse(v, Word("token", 23))
      BY TelegramRead DEF AppTelegram, TelegramConfig
    <2> HIDE DEF a, c, v
    <2> QED
      BY <2>3, <2>4 DEF OrEmpty, OrElse
  <1>9. ASSUME "limits" \notin ReadApart(f) PROVE a.limits = c.limits
    <2>1. \A name \in LimitNames : LimitPath(name, "commands") \notin DOMAIN f
      BY <1>9 DEF ReadApart
    <2>2. \A name \in LimitNames : /\ Messages(f, e, name) = AppMessages(f, name)
                                   /\ EnvWindow(f, e, name) = Window(f, name)
      BY <2>1, LimitRead
    <2> QED
      BY <2>2 DEF AppTelegram, TelegramConfig
  <1> HIDE DEF a, c
  <1>10. ASSUME NEW key \in TelegramKeys \ ReadApart(f) PROVE a[key] = c[key]
    BY <1>2, <1>3, <1>4, <1>5, <1>6, <1>7, <1>8, <1>9, <1>10 DEF TelegramKeys
  <1> QED
    BY <1>1, <1>10 DEF a, c

(* The App strips the aliases that the standalone loader keeps.             *)
LEMMA SameStatus ==
  ASSUME NEW f
  PROVE  DOMAIN AppStatus(f) \subseteq {Strip(alias) : alias \in DOMAIN Status(f)}
  <1> DEFINE items == StatusEntities(f).items
             alias(item) == Get(item.fields, "alias", Str(Empty)).text
  <1>1. DOMAIN AppStatus(f) = {StatusText(items[i], "alias") : i \in DOMAIN items}
    BY DEF AppStatus, LastOf
  <1>2. DOMAIN Status(f) = {alias(items[i]) : i \in DOMAIN items}
    BY DEF Status, LastOf
  <1>3. \A i : StatusText(items[i], "alias") = Strip(alias(items[i]))
    BY DEF StatusText
  <1> HIDE DEF items, alias
  <1> QED
    BY <1>1, <1>2, <1>3

(* LoadersAgree for any settings: moving an installation from the App to a  *)
(* standalone process changes nothing but what ReadApart names.             *)
THEOREM LoadersTrue == ConfSpec => []LoadersAgree
  <1>1. ASSUME ConfIInv PROVE LoadersAgree
    <2> DEFINE a == running["app"].config
               c == running["standalone"].config
    <2> SUFFICES ASSUME \A l \in Loaders : running[l].at = "up",
                        \A p \in DOMAIN env : p[1] \in {"transport", "homeassistant"}
                 PROVE  /\ \A key \in {"prefix", "channel", "weather", "home", "health", "limit"} :
                             a[key] = c[key]
                        /\ \A key \in DOMAIN a.telegram \ ReadApart(form) :
                             a.telegram[key] = c.telegram[key]
                        /\ DOMAIN a.status \subseteq {Strip(alias) : alias \in DOMAIN c.status}
      BY DEF LoadersAgree
    <2>1. a = AppConfig(form) /\ c = Config(form, env) /\ StandaloneAccepts(form, env)
      BY <1>1 DEF ConfIInv, Loaders
    <2>2. OnlyTransport(env)
      BY DEF OnlyTransport
    <2> HIDE DEF a, c
    <2>3. a.prefix = c.prefix
      BY <1>1, <2>1, <2>2, SamePrefix DEF ConfIInv, FormWhole
    <2>4. /\ a.channel = c.channel /\ a.weather = c.weather /\ a.home = c.home
          /\ a.health = c.health /\ a.limit = c.limit
      BY <2>1, <2>2, SameSections
    <2>5. a.telegram = AppTelegram(form) /\ c.telegram = TelegramConfig(form, env)
      BY <2>1 DEF AppConfig, Config
    <2>6. a.status = AppStatus(form) /\ c.status = Status(form)
      BY <2>1 DEF AppConfig, Config
    <2>7. \A key \in DOMAIN a.telegram \ ReadApart(form) : a.telegram[key] = c.telegram[key]
      BY <2>2, <2>5, SameTelegram
    <2>8. DOMAIN a.status \subseteq {Strip(alias) : alias \in DOMAIN c.status}
      BY <2>6, SameStatus
    <2> QED
      BY <2>3, <2>4, <2>7, <2>8
  <1> QED
    BY <1>1, ConfInvariant, PTL
=============================================================================
