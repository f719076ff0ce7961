---------------------------- MODULE HealthEvents ----------------------------
(***************************************************************************)
(* The health of the bridge and its two copies: BridgeHealthState          *)
(* (bridge_health.py), the healthcheck file it rewrites at every change,   *)
(* and the Home Assistant events of HomeAssistantHealthEventPublisher      *)
(* (homeassistant_health_events.py), from which Home Assistant's template  *)
(* sensors take what they show.                                            *)
(*                                                                         *)
(* The setters run in the event loop between two awaits, so each is one    *)
(* step.  Their callback only schedules _mark_changed, which runs in a     *)
(* later turn of the loop; the publisher's task sleeps and awaits the      *)
(* network in between.                                                     *)
(***************************************************************************)
EXTENDS Naturals

CONSTANTS Targets,    \* the forwarding options that have a runtime override
          Databases,  \* the databases that have a health ("audit", "telegram")
          Counters,   \* the counters of work done
          Nothing,    \* no event published or shown yet
          MaxChanges, \* bound: calls of setters, and requests to stop
          MaxFaults   \* bound: failed writes and events, kills, HA restarts

ASSUME BoundsAssumption == MaxChanges \in Nat /\ MaxFaults \in Nat

VARIABLES
  health,      \* BridgeHealthState
  file,        \* the health the healthcheck file tells
  fileBehind,  \* history: the last write of the file was skipped
  process,     \* "down", "running" or "stopping" (from publisher.stop on)
  pc,          \* where HomeAssistantHealthEventPublisher.run is
  marks,       \* the arguments of the _mark_changed calls that are scheduled
  changed,     \* _changed is set
  critical,    \* _critical
  due,         \* next_heartbeat has passed
  sent,        \* fingerprint of the event fire_event is sending
  delivered,   \* Home Assistant has fired that event
  published,   \* _published_fingerprint
  shown,       \* Home Assistant: the fingerprint of the last event fired
  late,        \* events given up on that may still be fired
  disturbed,   \* history: what is shown changed behind the publisher's back
  changes,     \* calls of setters and requests to stop so far
  faults       \* faults so far

state  == <<health, file, fileBehind, changes>>
task   == <<pc, marks, changed, critical, due, sent, delivered, published>>
remote == <<shown, late, disturbed>>
vars   == <<state, process, task, remote, faults>>

Polling == {"connected", "degraded", "disconnected"}

(* What a snapshot holds that changes: uptime_seconds is left out of the    *)
(* fingerprint, last_activity moves with the counters, and "failure" stands *)
(* for last_failure, its reason and the counters of failures.               *)
HealthRecords ==
  [meshcore : {"connected", "disconnected"}, telegram : Polling,
   db : [Databases -> {"ok", "degraded"}],
   override : [Targets -> {"none", "on", "off"}],
   done : [Counters -> Nat], failure : Nat]

(* What an event tells of it. *)
Fingerprints ==
  [meshcore : {"connected", "disconnected"},
   telegram : {"connected", "degraded", "enabled"},
   db : [Databases -> {"ok", "degraded"}],
   override : [Targets -> {"none", "on", "off"}],
   done : [Counters -> Nat], failure : Nat]

ASSUME NothingAssumption == Nothing \notin Fingerprints

(* configure: a process starts with Telegram enabled, nothing connected, no *)
(* override and both databases "ok".                                        *)
Configured ==
  [meshcore |-> "disconnected", telegram |-> "disconnected",
   db |-> [d \in Databases |-> "ok"], override |-> [t \in Targets |-> "none"],
   done |-> [c \in Counters |-> 0], failure |-> 0]

Status(h) ==
  IF \/ h.meshcore = "disconnected"
     \/ h.telegram = "degraded"
     \/ \E d \in Databases : h.db[d] = "degraded"
  THEN "degraded" ELSE "ok"

CriticalTransition(previous, h) ==
  \/ Status(h) # Status(previous)
  \/ h.meshcore = "disconnected" /\ previous.meshcore # "disconnected"
  \/ h.telegram \in {"degraded", "disconnected"} /\ h.telegram # previous.telegram
  \/ h.failure # previous.failure

(* event_fingerprint: the payload shows a polling state "disconnected" as   *)
(* "enabled".                                                               *)
TelegramState(h) ==
  IF h.telegram = "disconnected" THEN "enabled" ELSE h.telegram

Fingerprint(h) == [h EXCEPT !.telegram = TelegramState(h)]

Init ==
  /\ health = Configured /\ file = Configured /\ fileBehind = FALSE
  /\ process = "down" /\ pc = "none"
  /\ marks = {} /\ changed = FALSE /\ critical = FALSE /\ due = FALSE
  /\ sent = Nothing /\ delivered = FALSE /\ published = Nothing
  /\ shown = Nothing /\ late = {} /\ disturbed = FALSE
  /\ changes = 0 /\ faults = 0

-----------------------------------------------------------------------------
(* The setters. *)

(* write_healthcheck: the new file replaces the old one, or an OSError      *)
(* leaves the old one.                                                      *)
WriteHealthcheck(h) ==
  \/ file' = h /\ fileBehind' = FALSE /\ UNCHANGED faults
  \/ /\ faults < MaxFaults
     /\ faults' = faults + 1
     /\ fileBehind' = TRUE
     /\ UNCHANGED file

(* notify: the callback is set from start to stop. *)
Notify(isCritical) ==
  marks' = IF process = "running" THEN marks \cup {isCritical} ELSE marks

(* Mutant of Change: the file is written before the state is changed. *)
WrittenBeforeChange(h) ==
  /\ health' = h
  /\ WriteHealthcheck(health)
  /\ Notify(CriticalTransition(health, h))

(* _after_change: the file first, then the callback. *)
Change(h) ==
  /\ health' = h
  /\ WriteHealthcheck(h)
  /\ Notify(CriticalTransition(health, h))

FailureRecorded(h) == [h EXCEPT !.failure = @ + 1]

SetMeshcoreConnected(s) == Change([health EXCEPT !.meshcore = s])

SetTelegramPolling(s) == Change([health EXCEPT !.telegram = s])

SetRuntimeOverride(t, v) == Change([health EXCEPT !.override[t] = v])

ResetRuntimeOverrides ==
  Change([health EXCEPT !.override = [t \in Targets |-> "none"]])

(* record_command_processed, and record_tg_to_mc and record_mc_to_tg of a   *)
(* success.                                                                 *)
RecordDone(c) == Change([health EXCEPT !.done[c] = @ + 1])

(* record_failure, and record_tg_to_mc and record_mc_to_tg of a failure. *)
RecordFailure == Change(FailureRecorded(health))

SetDbHealth(d, s) ==
  LET h == [health EXCEPT !.db[d] = s]
  IN  Change(IF s = "degraded" THEN FailureRecorded(h) ELSE h)

(* The bridge and Telegram tasks call them.  They are over when the         *)
(* publisher is stopped, unless it is amain itself that was cancelled.  No  *)
(* caller sets a database's health back to "ok".                            *)
CallSetter ==
  /\ process # "down"
  /\ changes < MaxChanges
  /\ changes' = changes + 1
  /\ \/ \E s \in {"connected", "disconnected"} : SetMeshcoreConnected(s)
     \/ \E s \in Polling : SetTelegramPolling(s)
     \/ \E t \in Targets, v \in {"on", "off"} : SetRuntimeOverride(t, v)
     \/ ResetRuntimeOverrides
     \/ \E c \in Counters : RecordDone(c)
     \/ RecordFailure
     \/ \E d \in Databases : SetDbHealth(d, "degraded")
  /\ UNCHANGED <<process, pc, changed, critical, due, sent, delivered,
                 published, remote>>

-----------------------------------------------------------------------------
(* The publisher. *)

(* _mark_changed.  What is scheduled runs in one turn of the loop, before    *)
(* the task that it wakes.                                                  *)
RunMarks ==
  /\ process # "down" /\ marks # {}
  /\ marks' = {}
  /\ IF process = "running"
     THEN changed' = TRUE /\ critical' = (critical \/ TRUE \in marks)
     ELSE UNCHANGED <<changed, critical>>
  /\ UNCHANGED <<state, process, pc, due, sent, delivered, published, remote,
                 faults>>

(* publish_if_needed up to its await; a skipped publication sets the next   *)
(* heartbeat and goes back to waiting.                                      *)
Publish(force) ==
  LET fingerprint == Fingerprint(health)
  IN  IF ~force /\ fingerprint = published
      THEN pc' = "waiting" /\ due' = FALSE /\ UNCHANGED <<sent, delivered>>
      ELSE /\ pc' = "publishing"
           /\ sent' = fingerprint
           /\ UNCHANGED <<due, delivered>>

(* wait_for returns: the marks so far are taken; without a critical one the *)
(* task sleeps for coalesce_seconds.                                        *)
Wake ==
  /\ pc = "waiting" /\ changed /\ ~due
  /\ changed' = FALSE
  /\ critical' = FALSE
  /\ IF critical
     THEN Publish(TRUE)
     ELSE pc' = "coalescing" /\ UNCHANGED <<due, sent, delivered>>
  /\ UNCHANGED <<state, process, marks, published, remote, faults>>

(* The pause is over: the marks that came meanwhile are covered by the      *)
(* snapshot taken now, though one that was critical leaves _critical set.   *)
CoalesceOver ==
  /\ pc = "coalescing"
  /\ changed' = FALSE
  /\ Publish(FALSE)
  /\ UNCHANGED <<state, process, marks, critical, published, remote, faults>>

HeartbeatDue ==
  /\ pc = "waiting" /\ ~due
  /\ due' = TRUE
  /\ UNCHANGED <<state, process, pc, marks, changed, critical, sent, delivered,
                 published, remote, faults>>

(* Mutant of Heartbeat: what was published before is not sent again. *)
HeartbeatSkipsDuplicates ==
  /\ pc = "waiting" /\ due
  /\ Publish(FALSE)
  /\ UNCHANGED <<state, process, marks, changed, critical, published, remote,
                 faults>>

(* wait_for times out: the heartbeat publishes whatever was shown before. *)
Heartbeat ==
  /\ pc = "waiting" /\ due
  /\ Publish(TRUE)
  /\ UNCHANGED <<state, process, marks, changed, critical, published, remote,
                 faults>>

(* Home Assistant fires the event; its template sensors show it. *)
Deliver ==
  /\ pc = "publishing" /\ ~delivered
  /\ delivered' = TRUE
  /\ shown' = sent
  /\ disturbed' = FALSE
  /\ UNCHANGED <<state, process, pc, marks, changed, critical, due, sent,
                 published, late, faults>>

PublicationOver ==
  pc' = "waiting" /\ due' = FALSE /\ sent' = Nothing /\ delivered' = FALSE

(* Mutant of Published: _changed is cleared after the event, not before it. *)
ClearedAfterPublication ==
  /\ pc = "publishing" /\ delivered
  /\ published' = sent
  /\ changed' = FALSE
  /\ PublicationOver
  /\ UNCHANGED <<state, process, marks, critical, remote, faults>>

(* fire_event returns. *)
Published ==
  /\ pc = "publishing" /\ delivered
  /\ published' = sent
  /\ PublicationOver
  /\ UNCHANGED <<state, process, marks, changed, critical, remote, faults>>

(* An event that was sent and not answered may still be fired, after the    *)
(* connection was given up.                                                 *)
GiveUp ==
  late' \in IF delivered THEN {late} ELSE {late, late \cup {sent}}

(* fire_event raises: the failure is recorded, a critical change, so the    *)
(* next attempt follows at once.                                            *)
PublishFails ==
  /\ pc = "publishing"
  /\ faults < MaxFaults
  /\ faults' = faults + 1
  /\ GiveUp
  /\ health' = FailureRecorded(health)
  /\ \/ file' = health' /\ fileBehind' = FALSE
     \/ fileBehind' = TRUE /\ UNCHANGED file
  /\ Notify(TRUE)
  /\ PublicationOver
  /\ UNCHANGED <<changes, process, changed, critical, published, shown,
                 disturbed>>

DeliverLate ==
  /\ \E event \in late : shown' = event /\ late' = late \ {event}
  /\ disturbed' = TRUE
  /\ UNCHANGED <<state, process, task, faults>>

HomeAssistantRestarts ==
  /\ faults < MaxFaults
  /\ faults' = faults + 1
  /\ shown' = Nothing
  /\ disturbed' = TRUE
  /\ UNCHANGED <<state, process, task, late>>

-----------------------------------------------------------------------------
(* The process: amain creates and configures the health, which writes the   *)
(* file before there is a callback, and starts the publisher: its first     *)
(* wait has no time left and its first mark is critical.                    *)

Start ==
  /\ process = "down"
  /\ health' = Configured
  /\ WriteHealthcheck(Configured)
  /\ process' = "running"
  /\ pc' = "waiting"
  /\ marks' = {TRUE}
  /\ due' = TRUE
  /\ UNCHANGED <<changes, changed, critical, sent, delivered, published, remote>>

(* The memory of the process is gone, and what was in flight may arrive. *)
ProcessEnds ==
  /\ process' = "down"
  /\ health' = Configured
  /\ pc' = "none" /\ marks' = {}
  /\ changed' = FALSE /\ critical' = FALSE /\ due' = FALSE
  /\ sent' = Nothing /\ delivered' = FALSE /\ published' = Nothing

(* stop: no callback any more, and the task is cancelled at its await. *)
Stop ==
  /\ process = "running"
  /\ changes < MaxChanges
  /\ changes' = changes + 1
  /\ process' = "stopping"
  /\ changed' = TRUE
  /\ UNCHANGED <<health, file, fileBehind, pc, marks, critical, due, sent,
                 delivered, published, remote, faults>>

Cancelled ==
  /\ process = "stopping" /\ pc # "none"
  /\ IF pc = "publishing" THEN GiveUp ELSE UNCHANGED late
  /\ pc' = "none" /\ sent' = Nothing /\ delivered' = FALSE
  /\ UNCHANGED <<state, process, marks, changed, critical, due, published,
                 shown, disturbed, faults>>

(* bridge_service.close after publisher.stop: the transport is marked as    *)
(* disconnected in the file, and nobody is told.                            *)
Close ==
  /\ process = "stopping" /\ pc = "none"
  /\ WriteHealthcheck([health EXCEPT !.meshcore = "disconnected"])
  /\ ProcessEnds
  /\ UNCHANGED <<changes, remote>>

(* The process is killed.  On its way through a setter that is before or    *)
(* after the step: os.replace leaves the old file or the new one.           *)
Kill ==
  /\ process # "down"
  /\ faults < MaxFaults
  /\ faults' = faults + 1
  /\ IF pc = "publishing" THEN GiveUp ELSE UNCHANGED late
  /\ ProcessEnds
  /\ UNCHANGED <<file, fileBehind, changes, shown, disturbed>>

Next ==
  \/ CallSetter \/ RunMarks \/ Wake \/ CoalesceOver
  \/ HeartbeatDue \/ Heartbeat \/ Deliver \/ Published \/ PublishFails
  \/ DeliverLate \/ HomeAssistantRestarts
  \/ Start \/ Stop \/ Cancelled \/ Close \/ Kill

Spec == Init /\ [][Next]_vars

(* The loop runs what is scheduled and timers fire; Home Assistant handles  *)
(* the events it is sent and answers.                                       *)
FairSpec ==
  /\ Spec
  /\ WF_vars(RunMarks) /\ WF_vars(Wake) /\ WF_vars(CoalesceOver)
  /\ WF_vars(HeartbeatDue) /\ WF_vars(Heartbeat)
  /\ WF_vars(Deliver) /\ WF_vars(Published) /\ WF_vars(DeliverLate)
  /\ WF_vars(Cancelled) /\ WF_vars(Close)

-----------------------------------------------------------------------------
(* Properties. *)

(* Every variable holds a value of its kind. *)
StateOK ==
  /\ health \in HealthRecords /\ file \in HealthRecords
  /\ fileBehind \in BOOLEAN /\ changes \in 0..MaxChanges
TaskOK ==
  /\ pc \in {"none", "waiting", "coalescing", "publishing"}
  /\ marks \subseteq BOOLEAN
  /\ changed \in BOOLEAN /\ critical \in BOOLEAN /\ due \in BOOLEAN
  /\ sent \in Fingerprints \cup {Nothing} /\ delivered \in BOOLEAN
  /\ published \in Fingerprints \cup {Nothing}
RemoteOK ==
  /\ shown \in Fingerprints \cup {Nothing}
  /\ late \subseteq Fingerprints
  /\ disturbed \in BOOLEAN
TypeOK ==
  /\ StateOK /\ TaskOK /\ RemoteOK
  /\ process \in {"down", "running", "stopping"}
  /\ faults \in 0..MaxFaults

(* No change is forgotten: while the publisher waits, a health that differs *)
(* from the one it published last is announced by a scheduled mark, by      *)
(* _changed or by a heartbeat that is due, whatever changed while it slept  *)
(* or while fire_event was awaited (run, publish_if_needed).                *)
NothingForgotten ==
  process = "running" /\ pc = "waiting" /\ published # Fingerprint(health) =>
    changed \/ marks # {} \/ due

(* At rest the copies agree: when nothing is announced, Home Assistant      *)
(* shows the health of the bridge, and so does the file unless its last     *)
(* write was skipped.  A publication that is skipped because its            *)
(* fingerprint was published before is part of this: it relies on what was  *)
(* acknowledged still being shown, in spite of events that were fired       *)
(* without an answer (write_healthcheck, publish_if_needed).                *)
AtRest ==
  /\ process = "running" /\ pc = "waiting"
  /\ ~changed /\ marks = {} /\ ~due /\ ~disturbed
CopiesAgree ==
  AtRest => shown = Fingerprint(health) /\ (fileBehind \/ file = health)

(* While the process runs, Home Assistant ends up showing the health of the *)
(* bridge, after failed publications, events fired too late and restarts of *)
(* Home Assistant alike.  The latter two are repaired by heartbeats only.   *)
EventuallyShown ==
  <>[](process = "running") => <>[](shown = Fingerprint(health))

=============================================================================
