------------------------------ MODULE ActuatorNode ------------------------------
(***************************************************************************)
(* The actuator: class ActuatorModel and the node around it.  A trigger is *)
(* accepted when ready; it starts a one-shot reload timer.                 *)
(***************************************************************************)
EXTENDS Integers

VARIABLES
  ready,           (* ready_                                  *)
  trigger_count,   (* trigger_count_                          *)
  reload_timer     (* TRUE while the reload timer is running  *)

actuatorVars == <<ready, trigger_count, reload_timer>>

ActuatorInit == ready = TRUE /\ trigger_count = 0 /\ reload_timer = FALSE

(* What publish_status publishes, after the step. *)
CurrentStatus == [ready |-> ready, count |-> trigger_count]

(* on_trigger, accepted: the status is published before the timer starts,  *)
(* in the same callback.                                                   *)
AcceptTrigger ==
  /\ ready
  /\ trigger_count' = trigger_count + 1
  /\ ready' = FALSE
  /\ reload_timer' = TRUE

(* on_trigger, rejected: nothing is published. *)
RejectTrigger ==
  /\ ~ ready
  /\ UNCHANGED actuatorVars

(* The reload timer fires once. *)
Reloaded ==
  /\ reload_timer
  /\ ready' = TRUE
  /\ reload_timer' = FALSE
  /\ UNCHANGED trigger_count
================================================================================
