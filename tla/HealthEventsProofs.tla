------------------------- MODULE HealthEventsProofs -------------------------
(***************************************************************************)
(* Proofs about HealthEvents for any number of targets, databases,         *)
(* counters, changes and faults.                                           *)
(***************************************************************************)
EXTENDS HealthEvents, TLAPS

(* The file holds the health as it is, unless its last write was skipped. *)
FileFollows == process # "down" => fileBehind \/ file = health

(* Which parts of the publisher's task are in use. *)
TaskShape ==
  /\ process = "down" => pc = "none" /\ published = Nothing
  /\ process = "running" => pc # "none"
  /\ pc # "publishing" => ~delivered /\ sent = Nothing
  /\ pc = "publishing" => sent \in Fingerprints

(* An event tells of no failure that the health does not know of.  With     *)
(* this a publication that failed makes all earlier ones stale.             *)
FailuresGrow ==
  /\ published # Nothing => published.failure <= health.failure
  /\ sent # Nothing => sent.failure <= health.failure

(* What was acknowledged and is not stale is still shown. *)
Acknowledged ==
  process = "running" =>
    /\ pc = "publishing" /\ delivered => shown = sent \/ disturbed
    /\ published # Nothing /\ published.failure = health.failure =>
         shown = published \/ disturbed \/ (pc = "publishing" /\ delivered)

(* A change that is not published yet is announced. *)
Announced ==
  process = "running" =>
    /\ pc = "waiting" /\ published # Fingerprint(health) =>
         changed \/ marks # {} \/ due
    /\ pc = "publishing" /\ sent # Fingerprint(health) => changed \/ marks # {}

IInv == TypeOK /\ FileFollows /\ TaskShape /\ FailuresGrow /\ Acknowledged /\ Announced

-----------------------------------------------------------------------------
(* An event tells the failures of the health. *)
LEMMA FingerprintShape ==
  ASSUME NEW h \in HealthRecords
  PROVE  /\ Fingerprint(h) \in Fingerprints
         /\ Fingerprint(h) # Nothing
         /\ Fingerprint(h).failure = h.failure
<1>1. TelegramState(h) \in {"connected", "degraded", "enabled"}
  BY DEF HealthRecords, Polling, TelegramState
<1>2. Fingerprint(h) \in Fingerprints /\ Fingerprint(h).failure = h.failure
  BY <1>1 DEF Fingerprint, HealthRecords, Fingerprints
<1>3. QED
  BY <1>2, NothingAssumption

LEMMA ConfiguredShape == Configured \in HealthRecords
BY DEF Configured, HealthRecords, Polling

LEMMA FailureRecordedShape ==
  ASSUME NEW h \in HealthRecords
  PROVE  FailureRecorded(h) \in HealthRecords /\ FailureRecorded(h).failure = h.failure + 1
BY DEF FailureRecorded, HealthRecords

(* A write of the healthcheck file. *)
LEMMA WriteShape ==
  ASSUME TypeOK, NEW h \in HealthRecords, WriteHealthcheck(h)
  PROVE  /\ file' \in HealthRecords /\ fileBehind' \in BOOLEAN
         /\ fileBehind' \/ file' = h
         /\ faults' \in 0..MaxFaults
<1>1. CASE file' = h /\ fileBehind' = FALSE /\ faults' = faults
  BY <1>1 DEF TypeOK
<1>2. CASE faults < MaxFaults /\ faults' = faults + 1 /\ fileBehind' = TRUE /\ file' = file
  BY <1>2, BoundsAssumption DEF TypeOK, StateOK
<1>3. QED
  BY <1>1, <1>2 DEF WriteHealthcheck

-----------------------------------------------------------------------------
LEMMA InitInv == Init => IInv
<1> SUFFICES ASSUME Init PROVE IInv
  OBVIOUS
<1>1. TypeOK
  <2>1. health \in HealthRecords /\ file \in HealthRecords /\ changes \in 0..MaxChanges
    BY ConfiguredShape, BoundsAssumption DEF Init
  <2>2. fileBehind \in BOOLEAN
    BY Zenon DEF Init
  <2>3. changed \in BOOLEAN /\ critical \in BOOLEAN /\ due \in BOOLEAN
    BY Zenon DEF Init
  <2>4. delivered \in BOOLEAN /\ disturbed \in BOOLEAN
    BY Zenon DEF Init
  <2>5. faults \in 0..MaxFaults
    BY BoundsAssumption DEF Init
  <2>6. QED
    BY <2>1, <2>2, <2>3, <2>4, <2>5 DEF Init, TypeOK, StateOK, TaskOK, RemoteOK
<1>2. FileFollows /\ TaskShape /\ FailuresGrow /\ Acknowledged /\ Announced
  BY DEF Init, FileFollows, TaskShape, FailuresGrow, Acknowledged, Announced
<1>3. QED
  BY <1>1, <1>2 DEF IInv

(* A setter changes the health and announces it: the failures it tells of   *)
(* do not become fewer.                                                     *)
LEMMA ChangeInv ==
  ASSUME IInv, NEW h \in HealthRecords, h.failure >= health.failure, Change(h),
         process # "down", changes' \in 0..MaxChanges,
         process' = process, pc' = pc, changed' = changed, critical' = critical,
         due' = due, sent' = sent, delivered' = delivered, published' = published,
         shown' = shown, late' = late, disturbed' = disturbed
  PROVE  IInv'
<1>1. /\ health' = h /\ WriteHealthcheck(h)
      /\ marks' = IF process = "running"
                  THEN marks \cup {CriticalTransition(health, h)} ELSE marks
  BY DEF Change, Notify
<1>2. /\ file' \in HealthRecords /\ fileBehind' \in BOOLEAN
      /\ fileBehind' \/ file' = h
      /\ faults' \in 0..MaxFaults
  BY <1>1, WriteShape DEF IInv
<1>3. CriticalTransition(health, h) \in BOOLEAN
  BY DEF CriticalTransition
<1>4. marks' \subseteq BOOLEAN /\ (process = "running" => marks' # {})
  BY <1>1, <1>3 DEF IInv, TypeOK, TaskOK
<1>5. TypeOK'
  BY <1>1, <1>2, <1>4 DEF IInv, TypeOK, StateOK, TaskOK, RemoteOK
<1>6. FileFollows' /\ TaskShape'
  BY <1>1, <1>2 DEF IInv, FileFollows, TaskShape
<1>7. health.failure \in Nat /\ h.failure \in Nat
  BY DEF IInv, TypeOK, StateOK, HealthRecords
<1>8. /\ published # Nothing => published.failure \in Nat
      /\ sent # Nothing => sent.failure \in Nat
  BY DEF IInv, TypeOK, TaskOK, Fingerprints
<1>9. FailuresGrow'
  BY <1>1, <1>7, <1>8 DEF IInv, FailuresGrow
<1>10. published # Nothing /\ published.failure = h.failure =>
         published.failure = health.failure
  BY <1>7, <1>8 DEF IInv, FailuresGrow
<1>11. Acknowledged'
  BY <1>1, <1>10 DEF IInv, Acknowledged
<1>12. Announced'
  BY <1>4 DEF Announced
<1>13. QED
  BY <1>5, <1>6, <1>9, <1>11, <1>12 DEF IInv

LEMMA CallSetterInv == ASSUME IInv, CallSetter PROVE IInv'
<1>1. /\ process # "down" /\ changes' \in 0..MaxChanges
      /\ process' = process /\ pc' = pc /\ changed' = changed /\ critical' = critical
      /\ due' = due /\ sent' = sent /\ delivered' = delivered /\ published' = published
      /\ shown' = shown /\ late' = late /\ disturbed' = disturbed
  <2>1. changes < MaxChanges /\ changes' = changes + 1 /\ changes \in 0..MaxChanges
    BY DEF CallSetter, IInv, TypeOK, StateOK
  <2>2. changes' \in 0..MaxChanges
    BY <2>1, BoundsAssumption
  <2>3. QED
    BY <2>2 DEF CallSetter, remote
<1>2. health \in HealthRecords /\ health.failure \in Nat
  BY DEF IInv, TypeOK, StateOK, HealthRecords
<1>3. ASSUME NEW s \in {"connected", "disconnected"}, SetMeshcoreConnected(s) PROVE IInv'
  <2>1. /\ [health EXCEPT !.meshcore = s] \in HealthRecords
        /\ [health EXCEPT !.meshcore = s].failure >= health.failure
    BY <1>2 DEF HealthRecords
  <2>2. QED
    BY <1>1, <1>3, <2>1, ChangeInv DEF SetMeshcoreConnected
<1>4. ASSUME NEW s \in Polling, SetTelegramPolling(s) PROVE IInv'
  <2>1. /\ [health EXCEPT !.telegram = s] \in HealthRecords
        /\ [health EXCEPT !.telegram = s].failure >= health.failure
    BY <1>2 DEF HealthRecords
  <2>2. QED
    BY <1>1, <1>4, <2>1, ChangeInv DEF SetTelegramPolling
<1>5. ASSUME NEW t \in Targets, NEW v \in {"on", "off"}, SetRuntimeOverride(t, v) PROVE IInv'
  <2>1. /\ [health EXCEPT !.override[t] = v] \in HealthRecords
        /\ [health EXCEPT !.override[t] = v].failure >= health.failure
    BY <1>2 DEF HealthRecords
  <2>2. QED
    BY <1>1, <1>5, <2>1, ChangeInv DEF SetRuntimeOverride
<1>6. ASSUME ResetRuntimeOverrides PROVE IInv'
  <2>1. /\ [health EXCEPT !.override = [t \in Targets |-> "none"]] \in HealthRecords
        /\ [health EXCEPT !.override = [t \in Targets |-> "none"]].failure >= health.failure
    BY <1>2 DEF HealthRecords
  <2>2. QED
    BY <1>1, <1>6, <2>1, ChangeInv DEF ResetRuntimeOverrides
<1>7. ASSUME NEW c \in Counters, RecordDone(c) PROVE IInv'
  <2>1. /\ [health EXCEPT !.done[c] = @ + 1] \in HealthRecords
        /\ [health EXCEPT !.done[c] = @ + 1].failure >= health.failure
    BY <1>2 DEF HealthRecords
  <2>2. QED
    BY <1>1, <1>7, <2>1, ChangeInv DEF RecordDone
<1>8. ASSUME RecordFailure PROVE IInv'
  <2>1. FailureRecorded(health) \in HealthRecords /\ FailureRecorded(health).failure >= health.failure
    BY <1>2, FailureRecordedShape
  <2>2. QED
    BY <1>1, <1>8, <2>1, ChangeInv DEF RecordFailure
<1>9. ASSUME NEW d \in Databases, SetDbHealth(d, "degraded") PROVE IInv'
  <2>1. /\ [health EXCEPT !.db[d] = "degraded"] \in HealthRecords
        /\ [health EXCEPT !.db[d] = "degraded"].failure = health.failure
    BY <1>2 DEF HealthRecords
  <2>2. PICK h \in HealthRecords :
          h = [health EXCEPT !.db[d] = "degraded"] /\ h.failure = health.failure
    BY <2>1
  <2>3. FailureRecorded(h) \in HealthRecords /\ FailureRecorded(h).failure >= health.failure
    <3>1. FailureRecorded(h) \in HealthRecords /\ FailureRecorded(h).failure = h.failure + 1
      BY FailureRecordedShape
    <3>2. h.failure = health.failure
      BY <2>2
    <3>3. QED
      BY <1>2, <3>1, <3>2
  <2>4. Change(FailureRecorded(h))
    BY <1>9, <2>2 DEF SetDbHealth
  <2>5. QED
    BY <1>1, <2>3, <2>4, ChangeInv
<1>10. QED
  BY <1>3, <1>4, <1>5, <1>6, <1>7, <1>8, <1>9 DEF CallSetter

(* What is scheduled runs. *)
LEMMA RunMarksInv == ASSUME IInv, RunMarks PROVE IInv'
<1>1. /\ marks' = {} /\ health' = health /\ file' = file /\ fileBehind' = fileBehind
      /\ changes' = changes /\ process' = process /\ pc' = pc /\ due' = due
      /\ sent' = sent /\ delivered' = delivered /\ published' = published
      /\ shown' = shown /\ late' = late /\ disturbed' = disturbed /\ faults' = faults
  BY DEF RunMarks, state, remote
<1>2. /\ process = "running" => changed' = TRUE
      /\ changed' \in BOOLEAN /\ critical' \in BOOLEAN
  BY Zenon DEF RunMarks, IInv, TypeOK, TaskOK
<1>3. TypeOK'
  BY <1>1, <1>2 DEF IInv, TypeOK, StateOK, TaskOK, RemoteOK
<1>4. FileFollows' /\ TaskShape' /\ FailuresGrow' /\ Acknowledged'
  BY <1>1 DEF IInv, FileFollows, TaskShape, FailuresGrow, Acknowledged
<1>5. Announced'
  BY <1>1, <1>2 DEF Announced
<1>6. QED
  BY <1>3, <1>4, <1>5 DEF IInv

(* A snapshot is taken: it is published, or it has been before. *)
LEMMA PublishInv ==
  ASSUME IInv, NEW force \in BOOLEAN, Publish(force), pc \in {"waiting", "coalescing"},
         changed' \in BOOLEAN, critical' \in BOOLEAN,
         health' = health, file' = file, fileBehind' = fileBehind, changes' = changes,
         process' = process, marks' = marks, published' = published,
         shown' = shown, late' = late, disturbed' = disturbed, faults' = faults
  PROVE  IInv'
<1>1. /\ Fingerprint(health) \in Fingerprints /\ Fingerprint(health) # Nothing
      /\ Fingerprint(health).failure = health.failure /\ health.failure \in Nat
  BY FingerprintShape DEF IInv, TypeOK, StateOK, HealthRecords
<1>2. ~delivered /\ sent = Nothing
  BY DEF IInv, TaskShape
<1>3. CASE published = Fingerprint(health) /\ pc' = "waiting" /\ due' = FALSE
           /\ sent' = sent /\ delivered' = delivered
  <2>1. due' \in BOOLEAN
    BY <1>3, Zenon
  <2>2. TypeOK'
    BY <1>3, <2>1 DEF IInv, TypeOK, StateOK, TaskOK, RemoteOK
  <2>3. TaskShape' /\ FileFollows' /\ FailuresGrow'
    BY <1>2, <1>3 DEF IInv, TaskShape, FileFollows, FailuresGrow
  <2>4. Acknowledged' /\ Announced'
    BY <1>2, <1>3 DEF IInv, Acknowledged, Announced, Fingerprint, TelegramState
  <2>5. QED
    BY <2>2, <2>3, <2>4 DEF IInv
<1>4. CASE pc' = "publishing" /\ sent' = Fingerprint(health) /\ due' = due
           /\ delivered' = delivered
  <2>1. TypeOK'
    BY <1>1, <1>4 DEF IInv, TypeOK, StateOK, TaskOK, RemoteOK
  <2>2. TaskShape' /\ FileFollows'
    BY <1>1, <1>4 DEF IInv, TaskShape, FileFollows
  <2>3. FailuresGrow'
    BY <1>1, <1>4 DEF IInv, FailuresGrow
  <2>4. Acknowledged' /\ Announced'
    BY <1>2, <1>4 DEF IInv, Acknowledged, Announced, Fingerprint, TelegramState
  <2>5. QED
    BY <2>1, <2>2, <2>3, <2>4 DEF IInv
<1>5. QED
  BY <1>3, <1>4 DEF Publish

(* The task wakes up: it publishes, or pauses first. *)
LEMMA WakeInv == ASSUME IInv, Wake PROVE IInv'
<1>1. /\ pc = "waiting" /\ health' = health /\ file' = file /\ fileBehind' = fileBehind
      /\ changes' = changes /\ process' = process /\ marks' = marks
      /\ published' = published /\ shown' = shown /\ late' = late
      /\ disturbed' = disturbed /\ faults' = faults
  BY DEF Wake, state, remote
<1>2. changed' \in BOOLEAN /\ critical' \in BOOLEAN
  BY Zenon DEF Wake
<1>3. CASE Publish(TRUE)
  BY <1>1, <1>2, <1>3, PublishInv
<1>4. CASE pc' = "coalescing" /\ due' = due /\ sent' = sent /\ delivered' = delivered
  <2>1. TypeOK'
    BY <1>1, <1>2, <1>4 DEF IInv, TypeOK, StateOK, TaskOK, RemoteOK
  <2>2. FileFollows' /\ TaskShape' /\ FailuresGrow' /\ Acknowledged' /\ Announced'
    BY <1>1, <1>4 DEF IInv, FileFollows, TaskShape, FailuresGrow, Acknowledged, Announced
  <2>3. QED
    BY <2>1, <2>2 DEF IInv
<1>5. QED
  BY <1>3, <1>4 DEF Wake

LEMMA CoalesceOverInv == ASSUME IInv, CoalesceOver PROVE IInv'
<1>1. /\ pc = "coalescing" /\ health' = health /\ file' = file /\ fileBehind' = fileBehind
      /\ changes' = changes /\ process' = process /\ marks' = marks
      /\ published' = published /\ shown' = shown /\ late' = late
      /\ disturbed' = disturbed /\ faults' = faults /\ Publish(FALSE)
  BY DEF CoalesceOver, state, remote
<1>2. changed' \in BOOLEAN /\ critical' \in BOOLEAN
  BY Zenon DEF CoalesceOver, IInv, TypeOK, TaskOK
<1>3. QED
  BY <1>1, <1>2, PublishInv

LEMMA HeartbeatInv == ASSUME IInv, Heartbeat PROVE IInv'
<1>1. /\ pc = "waiting" /\ health' = health /\ file' = file /\ fileBehind' = fileBehind
      /\ changes' = changes /\ process' = process /\ marks' = marks
      /\ published' = published /\ shown' = shown /\ late' = late
      /\ disturbed' = disturbed /\ faults' = faults /\ Publish(TRUE)
  BY DEF Heartbeat, state, remote
<1>2. changed' \in BOOLEAN /\ critical' \in BOOLEAN
  BY Zenon DEF Heartbeat, IInv, TypeOK, TaskOK
<1>3. QED
  BY <1>1, <1>2, PublishInv

LEMMA HeartbeatDueInv == ASSUME IInv, HeartbeatDue PROVE IInv'
<1>1. /\ health' = health /\ file' = file /\ fileBehind' = fileBehind
      /\ changes' = changes /\ process' = process /\ pc' = pc /\ marks' = marks
      /\ changed' = changed /\ critical' = critical /\ sent' = sent
      /\ delivered' = delivered /\ published' = published /\ shown' = shown
      /\ late' = late /\ disturbed' = disturbed /\ faults' = faults
  BY DEF HeartbeatDue, state, remote
<1>2. due' = TRUE /\ pc = "waiting"
  BY DEF HeartbeatDue
<1>3. due' \in BOOLEAN
  BY <1>2, Zenon
<1>4. TypeOK'
  BY <1>1, <1>3 DEF IInv, TypeOK, StateOK, TaskOK, RemoteOK
<1>5. FileFollows' /\ TaskShape' /\ FailuresGrow' /\ Acknowledged' /\ Announced'
  BY <1>1, <1>2 DEF IInv, FileFollows, TaskShape, FailuresGrow, Acknowledged, Announced
<1>6. QED
  BY <1>4, <1>5 DEF IInv

(* Home Assistant fires the event. *)
LEMMA DeliverInv == ASSUME IInv, Deliver PROVE IInv'
<1>1. /\ health' = health /\ file' = file /\ fileBehind' = fileBehind
      /\ changes' = changes /\ process' = process /\ pc' = pc /\ marks' = marks
      /\ changed' = changed /\ critical' = critical /\ due' = due /\ sent' = sent
      /\ published' = published /\ late' = late /\ faults' = faults
      /\ shown' = sent /\ pc = "publishing"
  BY DEF Deliver, state
<1>2. delivered' = TRUE /\ disturbed' = FALSE
  BY DEF Deliver
<1>3. delivered' \in BOOLEAN /\ disturbed' \in BOOLEAN
  BY <1>2, Zenon
<1>4. TypeOK'
  BY <1>1, <1>3 DEF IInv, TypeOK, StateOK, TaskOK, RemoteOK
<1>5. FileFollows' /\ TaskShape' /\ FailuresGrow'
  BY <1>1 DEF IInv, FileFollows, TaskShape, FailuresGrow
<1>6. Acknowledged'
  BY <1>1, <1>2 DEF Acknowledged
<1>7. Announced'
  BY <1>1 DEF IInv, Announced, Fingerprint, TelegramState
<1>8. QED
  BY <1>4, <1>5, <1>6, <1>7 DEF IInv

(* The event is acknowledged. *)
LEMMA PublishedInv == ASSUME IInv, Published PROVE IInv'
<1>1. /\ health' = health /\ file' = file /\ fileBehind' = fileBehind
      /\ changes' = changes /\ process' = process /\ marks' = marks
      /\ changed' = changed /\ critical' = critical /\ shown' = shown
      /\ late' = late /\ disturbed' = disturbed /\ faults' = faults
      /\ published' = sent /\ pc' = "waiting" /\ sent' = Nothing /\ pc = "publishing"
  BY DEF Published, PublicationOver, state, remote
<1>2. delivered /\ delivered' = FALSE /\ due' = FALSE
  BY DEF Published, PublicationOver
<1>3. delivered' \in BOOLEAN /\ due' \in BOOLEAN
  BY <1>2, Zenon
<1>4. sent \in Fingerprints
  BY <1>1 DEF IInv, TaskShape
<1>5. TypeOK'
  BY <1>1, <1>3, <1>4 DEF IInv, TypeOK, StateOK, TaskOK, RemoteOK
<1>6. process # "down"
  BY <1>1 DEF IInv, TaskShape
<1>7. FileFollows' /\ TaskShape' /\ FailuresGrow'
  BY <1>1, <1>2, <1>6 DEF IInv, FileFollows, TaskShape, FailuresGrow
<1>8. Acknowledged' /\ Announced'
  BY <1>1, <1>2 DEF IInv, Acknowledged, Announced, Fingerprint, TelegramState
<1>9. QED
  BY <1>5, <1>7, <1>8 DEF IInv

(* The publication fails, which is one more failure to tell of. *)
LEMMA PublishFailsInv == ASSUME IInv, PublishFails PROVE IInv'
<1>1. /\ changes' = changes /\ process' = process /\ changed' = changed
      /\ critical' = critical /\ published' = published /\ shown' = shown
      /\ disturbed' = disturbed /\ pc = "publishing" /\ pc' = "waiting"
      /\ sent' = Nothing /\ health' = FailureRecorded(health)
      /\ faults < MaxFaults /\ faults' = faults + 1
  BY DEF PublishFails, PublicationOver
<1>2. delivered' = FALSE /\ due' = FALSE /\ delivered' \in BOOLEAN /\ due' \in BOOLEAN
  BY Zenon DEF PublishFails, PublicationOver
<1>3. /\ health' \in HealthRecords /\ health.failure \in Nat
      /\ health'.failure = health.failure + 1
  BY <1>1, FailureRecordedShape DEF IInv, TypeOK, StateOK, HealthRecords
<1>4. file' \in HealthRecords /\ fileBehind' \in BOOLEAN /\ (fileBehind' \/ file' = health')
  <2>1. CASE file' = health' /\ fileBehind' = FALSE
    BY <1>3, <2>1
  <2>2. CASE fileBehind' = TRUE /\ file' = file
    BY <2>2 DEF IInv, TypeOK, StateOK
  <2>3. QED
    BY <2>1, <2>2 DEF PublishFails
<1>5. late' \subseteq Fingerprints
  BY <1>1 DEF PublishFails, GiveUp, IInv, TypeOK, RemoteOK, TaskShape
<1>6. marks' \subseteq BOOLEAN /\ (process = "running" => marks' # {})
  BY DEF PublishFails, Notify, IInv, TypeOK, TaskOK
<1>7. faults' \in 0..MaxFaults
  BY <1>1, BoundsAssumption DEF IInv, TypeOK
<1>8. TypeOK'
  BY <1>1, <1>2, <1>3, <1>4, <1>5, <1>6, <1>7 DEF IInv, TypeOK, StateOK, TaskOK, RemoteOK
<1>9. process # "down"
  BY <1>1 DEF IInv, TaskShape
<1>10. FileFollows' /\ TaskShape'
  BY <1>1, <1>2, <1>4, <1>9 DEF FileFollows, TaskShape
<1>11. published # Nothing => published.failure \in Nat /\ published.failure < health'.failure
  BY <1>3 DEF IInv, TypeOK, TaskOK, Fingerprints, FailuresGrow
<1>12. FailuresGrow' /\ Acknowledged'
  BY <1>1, <1>2, <1>3, <1>11 DEF FailuresGrow, Acknowledged
<1>13. Announced'
  BY <1>1, <1>6 DEF Announced
<1>14. QED
  BY <1>8, <1>10, <1>12, <1>13 DEF IInv

(* What is shown changes behind the publisher's back. *)
LEMMA DisturbedInv == ASSUME IInv, DeliverLate \/ HomeAssistantRestarts PROVE IInv'
<1>1. /\ health' = health /\ file' = file /\ fileBehind' = fileBehind
      /\ changes' = changes /\ process' = process /\ pc' = pc /\ marks' = marks
      /\ changed' = changed /\ critical' = critical /\ due' = due /\ sent' = sent
      /\ delivered' = delivered /\ published' = published /\ disturbed' = TRUE
  BY DEF DeliverLate, HomeAssistantRestarts, state, task
<1>2. disturbed' \in BOOLEAN
  BY <1>1, Zenon
<1>3. shown' \in Fingerprints \cup {Nothing} /\ late' \subseteq Fingerprints
  BY DEF DeliverLate, HomeAssistantRestarts, IInv, TypeOK, RemoteOK
<1>4. faults' \in 0..MaxFaults
  BY BoundsAssumption DEF DeliverLate, HomeAssistantRestarts, IInv, TypeOK
<1>5. TypeOK'
  BY <1>1, <1>2, <1>3, <1>4 DEF IInv, TypeOK, StateOK, TaskOK, RemoteOK
<1>6. FileFollows' /\ TaskShape' /\ FailuresGrow'
  BY <1>1 DEF IInv, FileFollows, TaskShape, FailuresGrow
<1>7. Acknowledged'
  BY <1>1 DEF Acknowledged
<1>8. Announced'
  BY <1>1 DEF IInv, Announced, Fingerprint, TelegramState
<1>9. QED
  BY <1>5, <1>6, <1>7, <1>8 DEF IInv

-----------------------------------------------------------------------------
(* What an ended process leaves: nothing in its memory, and no claim on     *)
(* what Home Assistant shows.                                               *)
LEMMA EndedInv ==
  ASSUME IInv, ProcessEnds, changes' = changes,
         file' \in HealthRecords, fileBehind' \in BOOLEAN, faults' \in 0..MaxFaults,
         shown' = shown, disturbed' = disturbed, late' \subseteq Fingerprints
  PROVE  IInv'
<1>1. /\ process' = "down" /\ health' = Configured /\ pc' = "none" /\ marks' = {}
      /\ sent' = Nothing /\ published' = Nothing
  BY DEF ProcessEnds
<1>2. /\ changed' \in BOOLEAN /\ critical' \in BOOLEAN /\ due' \in BOOLEAN
      /\ delivered' \in BOOLEAN /\ ~delivered'
  BY Zenon DEF ProcessEnds
<1>3. TypeOK'
  BY <1>1, <1>2, ConfiguredShape DEF IInv, TypeOK, StateOK, TaskOK, RemoteOK
<1>4. FileFollows' /\ TaskShape' /\ FailuresGrow' /\ Acknowledged' /\ Announced'
  BY <1>1, <1>2 DEF FileFollows, TaskShape, FailuresGrow, Acknowledged, Announced
<1>5. QED
  BY <1>3, <1>4 DEF IInv

LEMMA KillInv == ASSUME IInv, Kill PROVE IInv'
<1>1. /\ ProcessEnds /\ changes' = changes /\ file' = file /\ fileBehind' = fileBehind
      /\ shown' = shown /\ disturbed' = disturbed
      /\ faults < MaxFaults /\ faults' = faults + 1
  BY DEF Kill
<1>2. late' \subseteq Fingerprints
  BY DEF Kill, GiveUp, IInv, TypeOK, RemoteOK, TaskShape
<1>3. faults' \in 0..MaxFaults
  BY <1>1, BoundsAssumption DEF IInv, TypeOK
<1>4. file' \in HealthRecords /\ fileBehind' \in BOOLEAN
  BY <1>1 DEF IInv, TypeOK, StateOK
<1>5. QED
  BY <1>1, <1>2, <1>3, <1>4, EndedInv

LEMMA CloseInv == ASSUME IInv, Close PROVE IInv'
<1>1. /\ ProcessEnds /\ changes' = changes /\ shown' = shown /\ late' = late
      /\ disturbed' = disturbed
      /\ WriteHealthcheck([health EXCEPT !.meshcore = "disconnected"])
  BY DEF Close, remote
<1>2. [health EXCEPT !.meshcore = "disconnected"] \in HealthRecords
  BY DEF IInv, TypeOK, StateOK, HealthRecords
<1>3. file' \in HealthRecords /\ fileBehind' \in BOOLEAN /\ faults' \in 0..MaxFaults
  BY <1>1, <1>2, WriteShape DEF IInv
<1>4. late' \subseteq Fingerprints
  BY <1>1 DEF IInv, TypeOK, RemoteOK
<1>5. QED
  BY <1>1, <1>3, <1>4, EndedInv

(* A process starts: a heartbeat is due at once. *)
LEMMA StartInv == ASSUME IInv, Start PROVE IInv'
<1>1. /\ process = "down" /\ health' = Configured /\ process' = "running"
      /\ pc' = "waiting" /\ marks' = {TRUE} /\ due' = TRUE /\ changes' = changes
      /\ changed' = changed /\ critical' = critical /\ sent' = sent
      /\ delivered' = delivered /\ published' = published /\ shown' = shown
      /\ late' = late /\ disturbed' = disturbed /\ WriteHealthcheck(Configured)
  BY DEF Start, remote
<1>2. /\ file' \in HealthRecords /\ fileBehind' \in BOOLEAN
      /\ fileBehind' \/ file' = Configured
      /\ faults' \in 0..MaxFaults
  BY <1>1, ConfiguredShape, WriteShape DEF IInv
<1>3. due' \in BOOLEAN /\ marks' \subseteq BOOLEAN
  <2>1. due' \in BOOLEAN
    BY <1>1, Zenon
  <2>2. TRUE \in BOOLEAN
    BY Zenon
  <2>3. QED
    BY <1>1, <2>1, <2>2
<1>4. TypeOK'
  BY <1>1, <1>2, <1>3, ConfiguredShape DEF IInv, TypeOK, StateOK, TaskOK, RemoteOK
<1>5. published = Nothing /\ sent = Nothing /\ ~delivered
  BY <1>1 DEF IInv, TaskShape
<1>6. FileFollows' /\ TaskShape' /\ FailuresGrow' /\ Acknowledged' /\ Announced'
  BY <1>1, <1>2, <1>5 DEF FileFollows, TaskShape, FailuresGrow, Acknowledged, Announced
<1>7. QED
  BY <1>4, <1>6 DEF IInv

LEMMA StopInv == ASSUME IInv, Stop PROVE IInv'
<1>1. /\ health' = health /\ file' = file /\ fileBehind' = fileBehind /\ pc' = pc
      /\ marks' = marks /\ critical' = critical /\ due' = due /\ sent' = sent
      /\ delivered' = delivered /\ published' = published /\ shown' = shown
      /\ late' = late /\ disturbed' = disturbed /\ faults' = faults
      /\ process = "running" /\ process' = "stopping"
      /\ changes < MaxChanges /\ changes' = changes + 1
  BY DEF Stop, remote
<1>2. changed' \in BOOLEAN
  BY Zenon DEF Stop
<1>3. changes' \in 0..MaxChanges
  BY <1>1, BoundsAssumption DEF IInv, TypeOK, StateOK
<1>4. TypeOK'
  BY <1>1, <1>2, <1>3 DEF IInv, TypeOK, StateOK, TaskOK, RemoteOK
<1>5. FileFollows' /\ TaskShape' /\ FailuresGrow' /\ Acknowledged' /\ Announced'
  BY <1>1 DEF IInv, FileFollows, TaskShape, FailuresGrow, Acknowledged, Announced
<1>6. QED
  BY <1>4, <1>5 DEF IInv

LEMMA CancelledInv == ASSUME IInv, Cancelled PROVE IInv'
<1>1. /\ health' = health /\ file' = file /\ fileBehind' = fileBehind
      /\ changes' = changes /\ process' = process /\ marks' = marks
      /\ changed' = changed /\ critical' = critical /\ due' = due
      /\ published' = published /\ shown' = shown /\ disturbed' = disturbed
      /\ faults' = faults
      /\ process = "stopping" /\ pc' = "none" /\ sent' = Nothing
  BY DEF Cancelled, state
<1>2. delivered' \in BOOLEAN /\ ~delivered'
  BY Zenon DEF Cancelled
<1>3. late' \subseteq Fingerprints
  BY DEF Cancelled, GiveUp, IInv, TypeOK, RemoteOK, TaskShape
<1>4. TypeOK'
  BY <1>1, <1>2, <1>3 DEF IInv, TypeOK, StateOK, TaskOK, RemoteOK
<1>5. FileFollows' /\ TaskShape' /\ FailuresGrow' /\ Acknowledged' /\ Announced'
  BY <1>1, <1>2 DEF IInv, FileFollows, TaskShape, FailuresGrow, Acknowledged, Announced
<1>6. QED
  BY <1>4, <1>5 DEF IInv

-----------------------------------------------------------------------------
LEMMA NextInv == IInv /\ [Next]_vars => IInv'
<1> SUFFICES ASSUME IInv, [Next]_vars PROVE IInv'
  OBVIOUS
<1>1. ASSUME CallSetter \/ RunMarks \/ Wake \/ CoalesceOver PROVE IInv'
  BY <1>1, CallSetterInv, RunMarksInv, WakeInv, CoalesceOverInv
<1>2. ASSUME HeartbeatDue \/ Heartbeat \/ Deliver \/ Published \/ PublishFails PROVE IInv'
  BY <1>2, HeartbeatDueInv, HeartbeatInv, DeliverInv, PublishedInv, PublishFailsInv
<1>3. ASSUME DeliverLate \/ HomeAssistantRestarts PROVE IInv'
  BY <1>3, DisturbedInv
<1>4. ASSUME Start \/ Stop \/ Cancelled \/ Close \/ Kill PROVE IInv'
  BY <1>4, StartInv, StopInv, CancelledInv, CloseInv, KillInv
<1>5. ASSUME UNCHANGED vars PROVE IInv'
  <2>1. /\ health' = health /\ file' = file /\ fileBehind' = fileBehind
        /\ changes' = changes /\ process' = process /\ pc' = pc /\ marks' = marks
        /\ changed' = changed /\ critical' = critical /\ due' = due /\ sent' = sent
        /\ delivered' = delivered /\ published' = published /\ shown' = shown
        /\ late' = late /\ disturbed' = disturbed /\ faults' = faults
    BY <1>5 DEF vars, state, task, remote
  <2>2. TypeOK'
    BY <2>1 DEF IInv, TypeOK, StateOK, TaskOK, RemoteOK
  <2>3. FileFollows' /\ TaskShape' /\ FailuresGrow' /\ Acknowledged'
    BY <2>1 DEF IInv, FileFollows, TaskShape, FailuresGrow, Acknowledged
  <2>4. Announced'
    BY <2>1 DEF IInv, Announced, Fingerprint, TelegramState
  <2>5. QED
    BY <2>2, <2>3, <2>4 DEF IInv
<1>6. QED
  BY <1>1, <1>2, <1>3, <1>4, <1>5 DEF Next

LEMMA Invariance == Spec => []IInv
<1>1. Init => IInv
  BY InitInv
<1>2. IInv /\ [Next]_vars => IInv'
  BY NextInv
<1>3. QED
  BY <1>1, <1>2, PTL DEF Spec

(* Every variable keeps its range: in particular an event is always a       *)
(* health's fingerprint, and the bounds hold (BridgeHealthState,            *)
(* HomeAssistantHealthEventPublisher).                                      *)
THEOREM TypeCorrect == Spec => []TypeOK
<1>1. IInv => TypeOK
  BY DEF IInv
<1>2. QED
  BY <1>1, Invariance, PTL

(* No change is forgotten, whatever changed while the publisher slept or    *)
(* waited for Home Assistant (run, publish_if_needed).                      *)
THEOREM ChangesAnnounced == Spec => []NothingForgotten
<1>1. IInv => NothingForgotten
  BY DEF IInv, Announced, NothingForgotten
<1>2. QED
  BY <1>1, Invariance, PTL

(* At rest Home Assistant and the healthcheck file tell the health of the   *)
(* bridge: skipping a fingerprint that was published before is safe even    *)
(* after events that were fired and not answered (publish_if_needed).       *)
THEOREM CopiesCorrect == Spec => []CopiesAgree
<1>1. IInv => CopiesAgree
  <2> SUFFICES ASSUME IInv, AtRest
               PROVE  shown = Fingerprint(health) /\ (fileBehind \/ file = health)
    BY DEF CopiesAgree
  <2>1. published = Fingerprint(health)
    BY DEF IInv, Announced, AtRest
  <2>2. published # Nothing /\ published.failure = health.failure
    BY <2>1, FingerprintShape DEF IInv, TypeOK, StateOK
  <2>3. shown = published
    BY <2>2 DEF IInv, Acknowledged, AtRest
  <2>4. QED
    BY <2>1, <2>3 DEF IInv, FileFollows, AtRest
<1>2. QED
  BY <1>1, Invariance, PTL

=============================================================================
