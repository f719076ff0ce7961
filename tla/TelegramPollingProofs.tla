------------------------ MODULE TelegramPollingProofs ------------------------
(***************************************************************************)
(* Proofs about TelegramPolling for any number of updates, any batch size, *)
(* any deduplication window and any number of faults.                      *)
(***************************************************************************)
EXTENDS TelegramPolling, TLAPS

(* The polling task holds a batch it has not finished. *)
InBatch == {"update", "classify", "reply", "confirm", "persist"}

(* What a row of the deduplication table, or its absence, says of the last  *)
(* time its update was handled.                                             *)
DedupInv ==
  \A u \in Updates :
    /\ dedup[u] # 0 => handledAt[u] # 0
    /\ handledAt[u] # 0 =>
         \/ dedup[u] = handledAt[u] + Window
         \/ dedup[u] = 0 /\ now >= handledAt[u] + Window

(* The task never looks at an update that Telegram has forgotten or that    *)
(* the stored offset has passed.                                            *)
CursorInv ==
  pc \in InBatch =>
    /\ current \in (forgotten + 1)..batchEnd
    /\ lastUpdateId < current

(* Nothing before the cursor, the offset or Telegram's own mark is          *)
(* unaccounted for.                                                         *)
ResolvedInv ==
  /\ \A u \in 1..forgotten : Resolved(u)
  /\ OffsetCoversResolved
  /\ pc \in InBatch => \A u \in 1..(current - 1) : Resolved(u)
  /\ pc \in InBatch \ {"update"} => Resolved(current)
  /\ InOrder

(* Until the first activation is stored nothing is polled. *)
ActivationInv ==
  /\ pc \in {"dropping", "marking"} => ~activated
  /\ ~activated => pc \in {"down", "dropping", "marking"} /\ lastUpdateId = 0

IInv == TypeOK /\ DedupInv /\ CursorInv /\ ResolvedInv /\ ActivationInv

-----------------------------------------------------------------------------
(* What never changes except by Send. *)
LEMMA SameQueue == UNCHANGED kinds => arrived' = arrived
  BY DEF arrived

(* The queue of updates has a length, within the bound. *)
LEMMA QueueLength ==
  ASSUME TypeOK
  PROVE  arrived \in Nat /\ arrived <= MaxUpdates
  BY DEF TypeOK, arrived

(* Before the first process starts. *)
LEMMA InitInv == Init => IInv
<1> SUFFICES ASSUME Init PROVE IInv
  OBVIOUS
<1>1. kinds \in Seq(Kinds) /\ Len(kinds) = 0 /\ arrived = 0
  BY DEF Init, arrived
<1>2. TypeOK
  <2>1. Len(kinds) <= MaxUpdates
    BY <1>1, BoundsAssumption
  <2>2. forgotten \in 0..arrived /\ lastUpdateId \in 0..arrived
          /\ current \in 0..arrived /\ batchEnd \in 0..arrived
    BY <1>1 DEF Init
  <2>3. dedup \in [Updates -> Nat] /\ handledAt \in [Updates -> Nat]
    BY DEF Init
  <2>4. activated \in BOOLEAN
    BY Zenon DEF Init
  <2>5. now \in Nat \ {0} /\ faults \in Nat
    BY DEF Init
  <2>6. /\ pc = "down" /\ stopReason = "none"
        /\ lost \subseteq Updates /\ settled \subseteq Updates
    BY DEF Init
  <2>7. QED
    BY <1>1, <2>1, <2>2, <2>3, <2>4, <2>5, <2>6 DEF TypeOK
<1>3. DedupInv /\ CursorInv /\ ActivationInv
  BY DEF Init, DedupInv, CursorInv, ActivationInv, InBatch, Updates
<1>4. ResolvedInv
  BY DEF Init, ResolvedInv, OffsetCoversResolved, InOrder, InBatch, Updates
<1>5. QED
  BY <1>2, <1>3, <1>4 DEF IInv

(* A step that ends the process, or returns to a point of run with no batch *)
(* in hand, and leaves the queue, the stored rows and the history alone.    *)
LEMMA LeavesBatch ==
  ASSUME IInv,
         pc' \in {"down", "idle", "backoff"},
         pc' # "down" => activated,
         current' \in 0..arrived, batchEnd' \in 0..arrived,
         stopReason' \in {"none", "killed", "api", "unreadable", "locked",
                          "conflict", "garbled"},
         faults' \in Nat,
         UNCHANGED <<server, stored, now, history>>
  PROVE  IInv'
<1> USE DEF IInv, server, stored, history
<1>1. arrived' = arrived
  BY SameQueue
<1>2. TypeOK'
  BY <1>1 DEF TypeOK, arrived
<1>3. DedupInv' /\ CursorInv' /\ ActivationInv'
  BY DEF DedupInv, CursorInv, ActivationInv, InBatch
<1>4. ResolvedInv'
  BY DEF ResolvedInv, OffsetCoversResolved, InOrder, InBatch, Resolved
<1>5. QED
  BY <1>2, <1>3, <1>4

(* Every step on which the process ends. *)
LEMMA StopInv ==
  ASSUME IInv, NEW reason, Stop(reason),
         reason \in {"killed", "api", "unreadable", "locked", "conflict", "garbled"},
         faults' \in Nat, UNCHANGED <<server, stored, now, history>>
  PROVE  IInv'
<1>1. arrived \in Nat
  BY QueueLength DEF IInv
<1>2. QED
  BY <1>1, LeavesBatch DEF Stop

(* The task moves between two points of the same update, or records a       *)
(* decision on it: only pc, settled, faults and lost change.                *)
LEMMA SameUpdate ==
  ASSUME IInv,
         pc \in InBatch, pc' \in InBatch \ {"update"},
         Resolved(current)',
         faults' \in Nat,
         settled' \in {settled, settled \union {current}},
         lost' \in {lost, lost \union {current}},
         UNCHANGED <<server, stored, current, batchEnd, stopReason, now, handledAt>>
  PROVE  IInv'
<1> USE DEF IInv, server, stored
<1>1. arrived' = arrived /\ arrived \in Nat /\ arrived <= MaxUpdates
  BY SameQueue, QueueLength
<1>2. current \in Updates
  BY <1>1, BoundsAssumption DEF TypeOK, CursorInv, Updates
<1>3. TypeOK'
  BY <1>1, <1>2 DEF TypeOK, InBatch
<1>4. DedupInv' /\ CursorInv' /\ ActivationInv'
  BY DEF DedupInv, CursorInv, ActivationInv, InBatch
<1>5. \A u \in Updates : Resolved(u) => Resolved(u)'
  BY DEF Resolved
<1>6. ResolvedInv'
  BY <1>1, <1>2, <1>5 DEF ResolvedInv, OffsetCoversResolved, InOrder, Resolved, TypeOK,
                          InBatch, Updates
<1>7. QED
  BY <1>3, <1>4, <1>6

(* A user's message joins the end of the queue: nothing earlier is renumbered. *)
LEMMA SendInv == ASSUME IInv, NEW k \in Kinds, Send(k) PROVE IInv'
<1> USE DEF IInv, Send, stored, task, history
<1>1. arrived \in Nat /\ arrived < MaxUpdates
  BY QueueLength
<1>2. /\ kinds' \in Seq(Kinds)
      /\ Len(kinds') = Len(kinds) + 1
      /\ arrived' = arrived + 1
  BY DEF TypeOK, arrived
<1>3. TypeOK'
  BY <1>1, <1>2, BoundsAssumption DEF TypeOK, arrived
<1>4. DedupInv' /\ CursorInv' /\ ActivationInv'
  BY DEF DedupInv, CursorInv, ActivationInv, InBatch
<1>5. ResolvedInv'
  BY DEF ResolvedInv, OffsetCoversResolved, InOrder, Resolved, InBatch
<1>6. QED
  BY <1>3, <1>4, <1>5

(* The clock moves and no row changes: expired rows stay until the next read. *)
LEMMA TickInv == ASSUME IInv, Tick PROVE IInv'
<1> USE DEF IInv, Tick, server, stored, task, history
<1>1. arrived' = arrived
  BY SameQueue
<1>2. TypeOK'
  BY <1>1 DEF TypeOK
<1>3. DedupInv'
  BY BoundsAssumption DEF DedupInv, TypeOK, Updates
<1>4. CursorInv' /\ ActivationInv'
  BY DEF CursorInv, ActivationInv
<1>5. ResolvedInv'
  BY DEF ResolvedInv, OffsetCoversResolved, InOrder, Resolved
<1>6. QED
  BY <1>2, <1>3, <1>4, <1>5

(* The backlog is dropped while nothing is activated. *)
LEMMA DropInv ==
  ASSUME IInv, DropBacklog, pc = "dropping", pc' \in {"down", "marking"},
         current' \in 0..arrived, batchEnd' \in 0..arrived,
         stopReason' \in {stopReason, "api"}, faults' \in Nat,
         UNCHANGED <<stored, now>>
  PROVE  IInv'
<1> USE DEF IInv, DropBacklog, stored
<1>1. arrived' = arrived /\ arrived \in Nat /\ arrived <= MaxUpdates
  BY SameQueue, QueueLength
<1>2. TypeOK'
  BY <1>1, BoundsAssumption DEF TypeOK, Updates
<1>3. DedupInv' /\ CursorInv' /\ ActivationInv'
  BY DEF DedupInv, CursorInv, ActivationInv, InBatch
<1>4. \A u \in 1..arrived : Resolved(u)'
  BY <1>1 DEF Resolved, TypeOK, ResolvedInv
<1>5. \A u \in Updates : handledAt'[u] # 0 => \A v \in 1..(u - 1) : Resolved(v)'
  BY <1>1 DEF ResolvedInv, InOrder, Resolved
<1>6. ResolvedInv'
  BY <1>1, <1>4, <1>5 DEF ResolvedInv, OffsetCoversResolved, InOrder, Resolved, TypeOK, InBatch
<1>7. QED
  BY <1>2, <1>3, <1>6

(* initialize: the activation row and the backlog. *)
LEMMA StartupInv == ASSUME IInv, Startup PROVE IInv'
<1>0. arrived \in Nat /\ faults \in Nat
  BY QueueLength DEF IInv, TypeOK
<1>1. CASE Start
  <2>1. CASE activated
    BY <1>0, <1>1, <2>1, LeavesBatch DEF Start, IInv, TypeOK
  <2>2. CASE ~activated
    BY <1>1, <2>2 DEF Start, IInv, TypeOK, DedupInv, CursorInv, ResolvedInv, ActivationInv,
       OffsetCoversResolved, InOrder, Resolved, InBatch, arrived, server, stored, history
  <2>3. QED
    BY <2>1, <2>2
<1>2. CASE DropPendingUpdates
  BY <1>2, DropInv DEF DropPendingUpdates, Goto, IInv, TypeOK
<1>3. CASE DropPendingFails
  <2>1. CASE DropBacklog
    BY <1>0, <1>3, <2>1, DropInv DEF DropPendingFails, Fault, Stop
  <2>2. CASE UNCHANGED <<server, history>>
    BY <1>0, <1>3, <2>2, StopInv DEF DropPendingFails, Fault
  <2>3. QED
    BY <1>3, <2>1, <2>2 DEF DropPendingFails
<1>4. CASE MarkActivated
  BY <1>4 DEF MarkActivated, Goto, IInv, TypeOK, DedupInv, CursorInv, ResolvedInv,
     ActivationInv, OffsetCoversResolved, InOrder, Resolved, InBatch, arrived, server, history
<1>5. CASE MarkActivatedFails
  BY <1>0, <1>5, StopInv DEF MarkActivatedFails, Fault
<1>6. QED
  BY <1>1, <1>2, <1>3, <1>4, <1>5 DEF Startup

(* What a request confirms has been resolved before. *)
LEMMA ConfirmedResolved ==
  ASSUME IInv
  PROVE  /\ ConfirmedBy(Offset) \in forgotten..arrived
         /\ lastUpdateId <= ConfirmedBy(Offset)
         /\ \A u \in 1..ConfirmedBy(Offset) : Resolved(u)
<1>1. arrived \in Nat
  BY QueueLength DEF IInv
<1>2. forgotten \in 0..arrived /\ lastUpdateId \in 0..arrived
  BY DEF IInv, TypeOK
<1>3. /\ ConfirmedBy(Offset) \in {forgotten, lastUpdateId}
      /\ ConfirmedBy(Offset) >= forgotten
      /\ ConfirmedBy(Offset) >= lastUpdateId
  BY <1>1, <1>2 DEF ConfirmedBy, Offset
<1>4. QED
  BY <1>1, <1>2, <1>3 DEF IInv, ResolvedInv, OffsetCoversResolved

(* The Bot API may forget more while the task holds no batch. *)
LEMMA PollingInv == ASSUME IInv, Polling PROVE IInv'
<1>0. arrived \in Nat /\ faults \in Nat
  BY QueueLength DEF IInv, TypeOK
<1>1. CASE Poll
  BY <1>1 DEF Poll, Goto, IInv, TypeOK, DedupInv, CursorInv, ResolvedInv, ActivationInv,
     OffsetCoversResolved, InOrder, Resolved, InBatch, arrived, server, stored, history
<1>2. CASE PollReadFails
  BY <1>0, <1>2, StopInv DEF PollReadFails, Fault
<1>3. CASE PollAborts
  BY <1>0, <1>3, StopInv DEF PollAborts, Fault
<1>4. CASE BackoffOver
  BY <1>4, LeavesBatch DEF BackoffOver, Goto, IInv, TypeOK, ActivationInv
<1>5. CASE PollFails
  <2> USE DEF IInv, PollFails, Goto, Fault, stored, history
  <2>1. /\ arrived' = arrived
        /\ forgotten' \in 0..arrived
        /\ \A u \in 1..forgotten' : Resolved(u)
    BY <1>0, <1>5, ConfirmedResolved, SameQueue DEF TypeOK, ResolvedInv
  <2>2. TypeOK'
    BY <1>5, <2>1 DEF TypeOK
  <2>3. DedupInv' /\ CursorInv' /\ ActivationInv'
    BY <1>5 DEF DedupInv, CursorInv, ActivationInv, InBatch
  <2>4. ResolvedInv'
    BY <1>5, <2>1 DEF ResolvedInv, OffsetCoversResolved, InOrder, Resolved, InBatch
  <2>5. QED
    BY <2>2, <2>3, <2>4
<1>6. CASE ReceiveUpdates
  <2> USE DEF IInv, stored, history
  <2> DEFINE confirmed == ConfirmedBy(Offset)
  <2>1. /\ arrived' = arrived
        /\ forgotten' = confirmed
        /\ confirmed \in 0..arrived
        /\ lastUpdateId <= confirmed
        /\ \A u \in 1..confirmed : Resolved(u)
    BY <1>0, <1>6, ConfirmedResolved, SameQueue DEF ReceiveUpdates, TypeOK
  <2>2. \/ /\ pc' = "update"
           /\ current' = confirmed + 1
           /\ batchEnd' \in (confirmed + 1)..arrived
           /\ stopReason' = stopReason
        \/ /\ pc' = "idle"
           /\ UNCHANGED <<current, batchEnd, stopReason>>
    BY <1>0, <1>6, <2>1, BoundsAssumption DEF ReceiveUpdates, Goto
  <2>3. UNCHANGED <<kinds, activated, lastUpdateId, dedup, now, faults,
                    handledAt, lost, settled>>
    BY <1>6 DEF ReceiveUpdates
  <2>4. pc = "polling"
    BY <1>6 DEF ReceiveUpdates
  <2> HIDE DEF confirmed
  <2>5. TypeOK'
    BY <1>0, <2>1, <2>2, <2>3 DEF TypeOK
  <2>6. DedupInv' /\ ActivationInv'
    BY <2>2, <2>3, <2>4 DEF DedupInv, ActivationInv
  <2>7. CursorInv'
    BY <1>0, <2>1, <2>2, <2>3 DEF CursorInv, InBatch, TypeOK
  <2>8. ResolvedInv'
    BY <1>0, <2>1, <2>2, <2>3 DEF ResolvedInv, OffsetCoversResolved, InOrder, Resolved, InBatch
  <2>9. QED
    BY <2>5, <2>6, <2>7, <2>8
<1>7. QED
  BY <1>1, <1>2, <1>3, <1>4, <1>5, <1>6 DEF Polling

(* The update at the cursor has a number, and a place in the table. *)
LEMMA CurrentIsUpdate ==
  ASSUME IInv, pc \in InBatch
  PROVE  /\ arrived \in Nat /\ arrived <= MaxUpdates /\ faults \in Nat
         /\ current \in Updates /\ current \in 1..arrived
         /\ batchEnd \in Nat /\ current <= batchEnd /\ batchEnd <= arrived
<1>1. arrived \in Nat /\ arrived <= MaxUpdates
  BY QueueLength DEF IInv
<1>2. QED
  BY <1>1, BoundsAssumption DEF IInv, TypeOK, CursorInv, Updates

(* seen_or_store_update deletes what has expired, and only that. *)
LEMMA UnexpiredRows ==
  ASSUME IInv
  PROVE  /\ Unexpired \in [Updates -> Nat]
         /\ \A u \in Updates :
              /\ Unexpired[u] # 0 => handledAt[u] # 0
              /\ handledAt[u] # 0 =>
                   \/ Unexpired[u] = handledAt[u] + Window
                   \/ Unexpired[u] = 0 /\ now >= handledAt[u] + Window
<1>1. Unexpired \in [Updates -> Nat]
  BY DEF Unexpired, IInv, TypeOK
<1>2. ASSUME NEW u \in Updates, handledAt[u] # 0
      PROVE  \/ Unexpired[u] = handledAt[u] + Window
             \/ Unexpired[u] = 0 /\ now >= handledAt[u] + Window
  <2>1. handledAt[u] \in Nat /\ dedup[u] \in Nat /\ now \in Nat
    BY DEF IInv, TypeOK
  <2>2. Unexpired[u] = IF dedup[u] <= now THEN 0 ELSE dedup[u]
    BY DEF Unexpired
  <2>3. QED
    BY <1>2, <2>1, <2>2, BoundsAssumption DEF IInv, DedupInv
<1>3. \A u \in Updates : Unexpired[u] # 0 => handledAt[u] # 0
  BY DEF Unexpired, IInv, DedupInv
<1>4. QED
  BY <1>1, <1>2, <1>3

(* seen_or_store_update returns False on the update at the cursor. *)
LEMMA AcceptInv == ASSUME IInv, AcceptUpdate PROVE IInv'
<1> USE DEF IInv, AcceptUpdate, Goto, server
<1>0. pc \in InBatch /\ pc = "update" /\ pc' = "classify"
  BY DEF InBatch
<1>1. /\ arrived' = arrived /\ arrived \in Nat /\ arrived <= MaxUpdates
      /\ current \in Updates /\ current \in 1..arrived
  BY <1>0, SameQueue, CurrentIsUpdate
<1>2. /\ dedup' \in [Updates -> Nat]
      /\ handledAt' \in [Updates -> Nat]
      /\ handledAt'[current] = now /\ now \in Nat \ {0}
      /\ dedup'[current] = now + Window
      /\ \A u \in Updates \ {current} :
           handledAt'[u] = handledAt[u] /\ dedup'[u] = Unexpired[u]
  BY <1>1, UnexpiredRows, BoundsAssumption DEF TypeOK
<1>3. UNCHANGED <<kinds, forgotten, activated, lastUpdateId, current, batchEnd, stopReason,
                  now, faults, lost, settled>>
  OBVIOUS
<1>4. TypeOK'
  BY <1>0, <1>1, <1>2, <1>3 DEF TypeOK
<1>5. DedupInv'
  BY <1>2, <1>3, UnexpiredRows DEF DedupInv
<1>6. CursorInv' /\ ActivationInv'
  BY <1>0, <1>3 DEF CursorInv, ActivationInv, InBatch
<1>7. \A u \in Updates : Resolved(u) => Resolved(u)'
  BY <1>2, <1>3 DEF Resolved
<1>8. Resolved(current)'
  BY <1>2, <1>3 DEF Resolved
<1>9. \A u \in 1..(current - 1) : Resolved(u) /\ Resolved(u)' /\ u \in Updates
  BY <1>0, <1>1, <1>7, BoundsAssumption DEF ResolvedInv, Updates
<1>10. /\ \A u \in 1..forgotten : Resolved(u)'
       /\ \A u \in 1..lastUpdateId : Resolved(u)'
  BY <1>1, <1>7, BoundsAssumption DEF ResolvedInv, OffsetCoversResolved, TypeOK, Updates
<1>11. InOrder'
  <2>1. ASSUME NEW u \in Updates, handledAt'[u] # 0, NEW v \in 1..(u - 1)
        PROVE  Resolved(v)'
    <3>1. v \in Updates
      BY BoundsAssumption DEF Updates
    <3>2. CASE u = current
      BY <1>9, <3>2
    <3>3. CASE u # current
      BY <1>2, <1>7, <2>1, <3>1, <3>3 DEF ResolvedInv, InOrder
    <3>4. QED
      BY <3>2, <3>3
  <2>2. QED
    BY <2>1 DEF InOrder, Updates
<1>12. ResolvedInv'
  BY <1>3, <1>8, <1>9, <1>10, <1>11 DEF ResolvedInv, OffsetCoversResolved
<1>13. QED
  BY <1>4, <1>5, <1>6, <1>12

(* It returns True: an unexpired row shows that the update was handled. *)
LEMMA DuplicateInv == ASSUME IInv, DuplicateUpdate PROVE IInv'
<1> USE DEF IInv, DuplicateUpdate, Goto, server, history
<1>0. pc \in InBatch /\ pc = "update" /\ pc' = "persist"
  BY DEF InBatch
<1>1. arrived' = arrived /\ current \in Updates /\ current \in 1..arrived
  BY <1>0, SameQueue, CurrentIsUpdate
<1>2. Resolved(current)
  BY <1>1, UnexpiredRows DEF Resolved
<1>3. TypeOK'
  BY <1>1, UnexpiredRows DEF TypeOK
<1>4. DedupInv'
  BY UnexpiredRows DEF DedupInv
<1>5. CursorInv' /\ ActivationInv'
  BY DEF CursorInv, ActivationInv, InBatch
<1>6. ResolvedInv'
  BY <1>0, <1>2 DEF ResolvedInv, OffsetCoversResolved, InOrder, Resolved, InBatch
<1>7. QED
  BY <1>3, <1>4, <1>5, <1>6

(* The steps of process_update. *)
LEMMA ProcessingInv == ASSUME IInv, Processing PROVE IInv'
<1> USE DEF InBatch
<1>0. arrived \in Nat /\ faults \in Nat
  BY QueueLength DEF IInv, TypeOK
<1>1. CASE AcceptUpdate
  BY <1>1, AcceptInv
<1>2. CASE DuplicateUpdate
  BY <1>2, DuplicateInv
<1>3. CASE DedupFails
  BY <1>0, <1>3, SameUpdate DEF DedupFails, Fault, Goto, Resolved
<1>4. ASSUME pc \in {"classify", "reply", "confirm"} PROVE Resolved(current)
  BY <1>4 DEF IInv, ResolvedInv
<1>5. ASSUME pc \in {"classify", "reply", "confirm"}, Settle,
             UNCHANGED <<server, stored, now, faults>>
      PROVE  IInv'
  BY <1>0, <1>4, <1>5, SameUpdate DEF Settle, Goto, Resolved
<1>6. CASE IgnoreUpdate
  BY <1>5, <1>6 DEF IgnoreUpdate
<1>7. CASE HandleCommand
  BY <1>0, <1>4, <1>7, SameUpdate DEF HandleCommand, Goto, history, Resolved
<1>8. CASE Reply
  BY <1>5, <1>8 DEF Reply
<1>9. CASE ReplyAborts
  BY <1>0, <1>9, StopInv DEF ReplyAborts, Fault
<1>10. CASE ReplyAuditFails
  BY <1>0, <1>10, StopInv DEF ReplyAuditFails, Fault
<1>11. CASE ForwardText
  <2>1. CASE Settle
    BY <1>5, <1>11, <2>1 DEF ForwardText
  <2>2. CASE Goto("confirm") /\ UNCHANGED history
    BY <1>0, <1>4, <1>11, <2>2, SameUpdate DEF ForwardText, Goto, history, Resolved
  <2>3. QED
    BY <1>11, <2>1, <2>2 DEF ForwardText
<1>12. CASE Confirm
  BY <1>5, <1>12 DEF Confirm
<1>13. CASE ConfirmAborts
  BY <1>0, <1>13, StopInv DEF ConfirmAborts, Fault
<1>14. QED
  BY <1>1, <1>2, <1>3, <1>6, <1>7, <1>8, <1>9, <1>10, <1>11, <1>12, <1>13 DEF Processing

(* The cursor moves on, whether or not the offset has been written. *)
LEMMA PersistingInv == ASSUME IInv, Persisting PROVE IInv'
<1> USE DEF IInv, server, history
<1>0. pc = "persist" /\ pc \in InBatch
  BY DEF Persisting, PersistOffset, PersistFails, InBatch
<1>1. /\ arrived' = arrived /\ arrived \in Nat /\ arrived <= MaxUpdates
      /\ current \in 1..arrived /\ batchEnd \in Nat /\ current <= batchEnd
      /\ batchEnd <= arrived
  BY <1>0, SameQueue, CurrentIsUpdate DEF Persisting, PersistOffset, PersistFails
<1>2. \/ /\ pc' = "update" /\ current' = current + 1 /\ current < batchEnd
         /\ batchEnd' = batchEnd /\ stopReason' = stopReason
      \/ /\ pc' = "idle"
         /\ UNCHANGED <<current, batchEnd, stopReason>>
  BY DEF Persisting, PersistOffset, PersistFails, NextUpdate, Goto
<1>3. /\ lastUpdateId' \in {lastUpdateId, current}
      /\ faults' \in Nat
      /\ UNCHANGED <<kinds, forgotten, activated, dedup, now, handledAt, lost, settled>>
  BY DEF Persisting, PersistOffset, PersistFails, Fault, TypeOK, stored
<1>4. TypeOK'
  BY <1>1, <1>2, <1>3 DEF TypeOK
<1>5. DedupInv'
  BY <1>3 DEF DedupInv
<1>6. activated
  BY <1>0 DEF ActivationInv
<1>7. CursorInv' /\ ActivationInv'
  BY <1>0, <1>1, <1>2, <1>3, <1>6 DEF CursorInv, ActivationInv, InBatch, TypeOK
<1>8. \A u \in 1..current : Resolved(u)
  BY <1>0, <1>1 DEF ResolvedInv, InBatch
<1>9. \A u : Resolved(u)' <=> Resolved(u)
  BY <1>3 DEF Resolved
<1>10. ResolvedInv'
  BY <1>1, <1>2, <1>3, <1>8, <1>9 DEF ResolvedInv, OffsetCoversResolved, InOrder, InBatch
<1>11. QED
  BY <1>4, <1>5, <1>7, <1>10

(* Every step of the system preserves the inductive invariant. *)
LEMMA StepInv == IInv /\ [Next]_vars => IInv'
<1> SUFFICES ASSUME IInv, [Next]_vars PROVE IInv'
  OBVIOUS
<1>0. arrived \in Nat /\ faults \in Nat
  BY QueueLength DEF IInv, TypeOK
<1>1. CASE \E k \in Kinds : Send(k)
  BY <1>1, SendInv
<1>2. CASE Tick
  BY <1>2, TickInv
<1>3. CASE Kill
  BY <1>0, <1>3, StopInv DEF Kill, Fault
<1>4. CASE Startup
  BY <1>4, StartupInv
<1>5. CASE Polling
  BY <1>5, PollingInv
<1>6. CASE Processing
  BY <1>6, ProcessingInv
<1>7. CASE Persisting
  BY <1>7, PersistingInv
<1>8. CASE UNCHANGED vars
  BY <1>8 DEF vars, server, stored, task, history, IInv, TypeOK, DedupInv, CursorInv,
     ResolvedInv, ActivationInv, OffsetCoversResolved, InOrder, Resolved, InBatch, arrived
<1>9. QED
  BY <1>1, <1>2, <1>3, <1>4, <1>5, <1>6, <1>7, <1>8 DEF Next, Environment, Service

-----------------------------------------------------------------------------
(* The inductive invariant holds in every reachable state: the lemmas above *)
(* for the first state and for one step.                                    *)
THEOREM Invariance == Spec => []IInv
  BY InitInv, StepInv, PTL DEF Spec

(* Every variable keeps its type; in particular the cursor of the batch     *)
(* loop never leaves the updates that exist.                                *)
THEOREM TypeCorrect == Spec => []TypeOK
<1>1. IInv => TypeOK
  BY DEF IInv
<1>2. QED
  BY <1>1, Invariance, PTL

(* The stored offset never passes an update that was neither handled nor    *)
(* recorded as lost.                                                        *)
THEOREM OffsetCorrect == Spec => []OffsetCoversResolved
<1>1. IInv => OffsetCoversResolved
  BY DEF IInv, ResolvedInv
<1>2. QED
  BY <1>1, Invariance, PTL

(* Updates are first handled in Telegram's order. *)
THEOREM OrderCorrect == Spec => []InOrder
<1>1. IInv => InOrder
  BY DEF IInv, ResolvedInv
<1>2. QED
  BY <1>1, Invariance, PTL

(* Only AcceptUpdate writes the history of handling. *)
LEMMA HandledAtStep ==
  ASSUME [Next]_vars, handledAt' # handledAt
  PROVE  AcceptUpdate
  BY DEF Next, Environment, Service, Startup, Polling, Processing, Persisting, vars, history,
     Send, Tick, Kill, Start, DropPendingUpdates, DropPendingFails, DropBacklog,
     MarkActivated, MarkActivatedFails, Poll, PollReadFails, ReceiveUpdates, PollFails,
     BackoffOver, PollAborts, DuplicateUpdate, DedupFails, IgnoreUpdate, HandleCommand,
     Reply, ReplyAborts, ReplyAuditFails, ForwardText, Confirm, ConfirmAborts, Settle,
     PersistOffset, PersistFails

(* Two times the same update passes deduplication are a full window apart,  *)
(* whatever crashes, lost writes and redeliveries lie between them.         *)
THEOREM WindowCorrect == Spec => HandledApart
<1>1. ASSUME IInv, [Next]_vars,
             NEW u \in Updates, handledAt[u] # 0, handledAt'[u] # handledAt[u]
      PROVE  now >= handledAt[u] + Window
  <2>1. AcceptUpdate
    BY <1>1, HandledAtStep
  <2>2. u = current /\ Unexpired[current] = 0
    BY <1>1, <2>1 DEF AcceptUpdate, IInv, TypeOK
  <2>3. QED
    BY <1>1, <2>2, UnexpiredRows, BoundsAssumption DEF IInv, TypeOK
<1>2. IInv /\ [Next]_vars =>
        [\A u \in Updates :
           handledAt[u] # 0 /\ handledAt'[u] # handledAt[u]
             => now >= handledAt[u] + Window]_vars
  BY <1>1
<1>3. QED
  BY <1>2, Invariance, PTL DEF Spec, HandledApart

(* Only PersistOffset writes the offset. *)
LEMMA OffsetStep ==
  ASSUME [Next]_vars, lastUpdateId' # lastUpdateId
  PROVE  PersistOffset
  BY DEF Next, Environment, Service, Startup, Polling, Processing, Persisting, vars, stored,
     Send, Tick, Kill, Start, DropPendingUpdates, DropPendingFails,
     MarkActivated, MarkActivatedFails, Poll, PollReadFails, ReceiveUpdates, PollFails,
     BackoffOver, PollAborts, AcceptUpdate, DuplicateUpdate, DedupFails, IgnoreUpdate,
     HandleCommand, Reply, ReplyAborts, ReplyAuditFails, ForwardText, Confirm, ConfirmAborts,
     PersistFails

(* The unconditional write of the offset never moves it back. *)
THEOREM OffsetMonotone == Spec => OffsetNeverMovesBack
<1>1. ASSUME IInv, [Next]_vars PROVE lastUpdateId' >= lastUpdateId
  <2>1. lastUpdateId \in Nat
    BY <1>1, QueueLength DEF IInv, TypeOK
  <2>2. CASE lastUpdateId' = lastUpdateId
    BY <2>1, <2>2
  <2>3. CASE lastUpdateId' # lastUpdateId
    <3>1. PersistOffset
      BY <1>1, <2>3, OffsetStep
    <3>2. pc \in InBatch /\ lastUpdateId' = current
      BY <3>1 DEF PersistOffset, InBatch
    <3>3. lastUpdateId < current /\ current \in Nat
      BY <1>1, <3>2, CurrentIsUpdate DEF IInv, CursorInv
    <3>4. QED
      BY <2>1, <3>2, <3>3
  <2>4. QED
    BY <2>2, <2>3
<1>2. IInv /\ [Next]_vars => [lastUpdateId' >= lastUpdateId]_vars
  BY <1>1
<1>3. QED
  BY <1>2, Invariance, PTL DEF Spec, OffsetNeverMovesBack

-----------------------------------------------------------------------------
(* A step that none of the variables of UpdateDelivery sees. *)
LEMMA InvisibleStep ==
  ASSUME UNCHANGED <<kinds, forgotten, activated, handledAt, lost, now>>
  PROVE  UNCHANGED Delivery!vars
  BY SameQueue DEF Delivery!vars

(* The first state of polling is a first state of UpdateDelivery. *)
LEMMA DeliveryInit == Init => Delivery!Init
<1> SUFFICES ASSUME Init PROVE Delivery!Init
  OBVIOUS
<1>1. arrived = 0
  BY DEF Init, arrived
<1>2. QED
  BY <1>1 DEF Init, Delivery!Init, Delivery!Updates, Updates

(* A request whose offset is ahead of what the Bot API knows retires the    *)
(* updates in between; all of them have been resolved.                      *)
LEMMA ConfirmIsRetire ==
  ASSUME IInv, forgotten' = ConfirmedBy(Offset),
         UNCHANGED <<kinds, activated, handledAt, lost, now>>
  PROVE  [Delivery!Next]_(Delivery!vars)
<1>1. arrived' = arrived /\ arrived \in Nat /\ arrived <= MaxUpdates /\ forgotten \in Nat
  BY SameQueue, QueueLength DEF IInv, TypeOK
<1>2. CASE forgotten' = forgotten
  BY <1>2, InvisibleStep
<1>3. CASE forgotten' # forgotten
  <2>1. /\ forgotten' \in (forgotten + 1)..arrived
        /\ \A u \in (forgotten + 1)..forgotten' : Resolved(u)
    BY <1>1, <1>3, ConfirmedResolved
  <2>2. Delivery!Retire(forgotten')
    BY <1>1, <2>1 DEF Delivery!Retire, Delivery!Resolved, Resolved
  <2>3. forgotten' \in Delivery!Updates
    BY <1>1, <2>1, BoundsAssumption DEF Delivery!Updates
  <2>4. QED
    BY <2>2, <2>3 DEF Delivery!Next
<1>4. QED
  BY <1>2, <1>3

(* Each step of polling is a step of UpdateDelivery, or stutters there. *)
LEMMA DeliveryStep == IInv /\ [Next]_vars => [Delivery!Next]_(Delivery!vars)
<1> SUFFICES ASSUME IInv, [Next]_vars PROVE [Delivery!Next]_(Delivery!vars)
  OBVIOUS
<1> USE DEF server, stored, history
<1>0. arrived \in Nat /\ arrived <= MaxUpdates /\ forgotten \in Nat /\ lastUpdateId \in Nat
  BY QueueLength DEF IInv, TypeOK
<1>1. ASSUME NEW k \in Kinds, Send(k) PROVE Delivery!Next
  <2>1. arrived' = arrived + 1 /\ arrived < MaxUpdates
    BY <1>1 DEF Send, arrived, IInv, TypeOK
  <2>2. QED
    BY <1>1, <2>1 DEF Send, Delivery!Next, Delivery!Arrive
<1>2. CASE Tick
  BY <1>2, SameQueue DEF Tick, Delivery!Next, Delivery!Tick
<1>3. ASSUME DropBacklog, pc = "dropping", UNCHANGED <<stored, now>>
      PROVE  Delivery!Next
  BY <1>3, SameQueue DEF DropBacklog, IInv, ActivationInv, Delivery!Next, Delivery!Discard
<1>4. CASE DropPendingUpdates
  BY <1>3, <1>4 DEF DropPendingUpdates
<1>5. CASE DropPendingFails
  BY <1>3, <1>5, InvisibleStep DEF DropPendingFails
<1>6. CASE MarkActivated
  BY <1>6, SameQueue DEF MarkActivated, IInv, ActivationInv, Delivery!Next, Delivery!Activate
<1>7. CASE ReceiveUpdates
  BY <1>7, ConfirmIsRetire DEF ReceiveUpdates
<1>8. CASE PollFails
  BY <1>8, ConfirmIsRetire, InvisibleStep DEF PollFails
<1>9. pc = "update" => /\ activated
                       /\ current \in (forgotten + 1)..arrived
                       /\ current \in Updates
                       /\ \A v \in 1..(current - 1) : Resolved(v)
  BY <1>0, CurrentIsUpdate DEF InBatch, IInv, ActivationInv, CursorInv, ResolvedInv
<1>10. CASE AcceptUpdate
  <2>1. handledAt[current] # 0 => now >= handledAt[current] + Window
    BY <1>9, <1>10, UnexpiredRows, BoundsAssumption DEF AcceptUpdate, IInv, TypeOK
  <2>2. Delivery!Handle(current)
    BY <1>9, <1>10, <2>1, SameQueue DEF AcceptUpdate, Delivery!Handle, Delivery!Resolved,
       Resolved
  <2>3. QED
    BY <1>9, <1>10, <2>2 DEF AcceptUpdate, Delivery!Next, Delivery!Updates, Updates
<1>11. CASE DedupFails
  <2>1. Delivery!GiveUp(current)
    BY <1>9, <1>11, SameQueue DEF DedupFails, Delivery!GiveUp
  <2>2. QED
    BY <1>9, <1>11, <2>1 DEF DedupFails, Delivery!Next, Delivery!Updates, Updates
<1>12. CASE UNCHANGED <<kinds, forgotten, activated, handledAt, lost, now>>
  BY <1>12, InvisibleStep
<1>13. CASE Kill \/ Start \/ MarkActivatedFails \/ Poll \/ PollReadFails \/ BackoffOver
              \/ PollAborts \/ Persisting
  BY <1>12, <1>13 DEF Kill, Start, MarkActivatedFails, Poll, PollReadFails, BackoffOver,
     PollAborts, Persisting, PersistOffset, PersistFails
<1>14. CASE DuplicateUpdate \/ IgnoreUpdate \/ HandleCommand \/ Reply \/ ReplyAborts
              \/ ReplyAuditFails \/ ForwardText \/ Confirm \/ ConfirmAborts
  BY <1>12, <1>14 DEF DuplicateUpdate, IgnoreUpdate, HandleCommand, Reply, ReplyAborts,
     ReplyAuditFails, ForwardText, Confirm, ConfirmAborts, Settle
<1>15. CASE UNCHANGED vars
  BY <1>12, <1>15 DEF vars
<1>16. QED
  BY <1>1, <1>2, <1>4, <1>5, <1>6, <1>7, <1>8, <1>10, <1>11, <1>13, <1>14, <1>15
     DEF Next, Environment, Service, Startup, Polling, Processing

(* Polling, deduplication and offset, with every failure between them,      *)
(* implement the abstract delivery of updates.                              *)
THEOREM Implementation == Spec => DeliverySpec
  BY DeliveryInit, DeliveryStep, Invariance, PTL DEF Spec, DeliverySpec, Delivery!Spec
=============================================================================
