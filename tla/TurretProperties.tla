---------------------------- MODULE TurretProperties ----------------------------
(***************************************************************************)
(* What the turret of homework_13 has to keep, whatever the order in which *)
(* its three nodes run and their messages arrive.                          *)
(***************************************************************************)
EXTENDS Turret

StatusMessage == [ready : BOOLEAN, count : 0 .. MaxTriggers]

(* Every variable has its type; a track that has published nothing since   *)
(* it began has no open hit window (target_track_simulation.hpp:66-70).    *)
TypeOK ==
  /\ actuator_state \in ActuatorState
  /\ ready \in BOOLEAN /\ reload_timer = ~ ready
  /\ trigger_count \in 0 .. MaxTriggers
  /\ track \in TrackState
  /\ track.hit_window_open => track.has_published_sample
  /\ target_topic \in Seq(Sample)
  /\ controller_status \in Seq(StatusMessage) /\ publisher_status \in Seq(StatusMessage)
  /\ requests \in Nat
  /\ links \in SUBSET Links
  /\ ended \in Nat

(* A shot ends at most one drone: the count of a status is published again *)
(* and again, and apply_actuator_status must act on it once                *)
(* (target_track_simulation.hpp:81-94).  The counts on their way lie       *)
(* between what the publisher has seen and what the actuator has, in order.*)
HitsAreShots ==
  /\ ended <= track.last_trigger_count
  /\ track.last_trigger_count <= trigger_count
  /\ \A i \in DOMAIN publisher_status :
       publisher_status[i].count \in track.last_trigger_count .. trigger_count
  /\ \A i, j \in DOMAIN publisher_status :
       i < j => publisher_status[i].count <= publisher_status[j].count

(* What a node believes once every status on its way has been handled.     *)
EventualView(view, topic) == IF topic = << >> THEN view ELSE topic[Len(topic)].ready

(* A node that takes the actuator for ready while it reloads, or the       *)
(* publisher for reloading while it is ready, has the correction on its    *)
(* way (actuator_node.cpp:82, 94; turret_controller_node.cpp:237).  The    *)
(* publisher may miss a reload only while it is not discovered.            *)
StaleViewsAreCorrected ==
  /\ ~ ready => ~ EventualView(actuator_state = "READY", controller_status)
  /\ ready => EventualView(track.actuator_ready, publisher_status)

-------------------------------------------------------------------------------
(* The turret keeps shooting: a lost status, or a view that is out of      *)
(* date, never leaves the controller waiting for an actuator that is ready *)
(* (actuator_node.cpp:50, 94; turret_controller_node.cpp:218, 237).        *)
KeepsShooting == <>(trigger_count = MaxTriggers)

-------------------------------------------------------------------------------
(* homework_13/README.md:638-639: during RELOADING the trigger service is  *)
(* not called again.  Violated: a READY status published before a request  *)
(* was served overwrites the kReloading on_target has set for itself.      *)
NoRequestWhileReloading == [][requests' > requests => ready]_vars
================================================================================
