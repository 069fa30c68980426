---------------------------- MODULE TurretController ----------------------------
(***************************************************************************)
(* The turret controller: for every target sample it decides whether to    *)
(* track and whether to fire, from the sample and its own copy of the      *)
(* actuator's state.  The copy is set when a request is sent, and          *)
(* overwritten by every status that arrives.                               *)
(***************************************************************************)
EXTENDS TrackSimulation

VARIABLE actuator_state   (* what the controller believes: READY or RELOADING *)

ActuatorState == {"READY", "RELOADING"}

ControllerInit == actuator_state = "READY"

evaluate_target(s) ==
  IF ~ s.visible          THEN "NONE"
  ELSE IF ~ s.confident   THEN "LOW_CONFIDENCE"
  ELSE "LOCKED"

decide_trigger(s, state) ==
  IF s.range = "far"                THEN "SKIP"
  ELSE IF state = "RELOADING"       THEN "RELOADING"
  ELSE "REQUESTED"

(* evaluate_turret, as far as another node acts on it: a target that is   *)
(* not locked is neither aimed nor shot at.                                *)
should_trigger(s) ==
  /\ evaluate_target(s) = "LOCKED"
  /\ decide_trigger(s, actuator_state) = "REQUESTED"

(* on_target that ends without a request: nothing to shoot at, or the      *)
(* service has not been discovered.                                        *)
ObserveTarget(s, service_is_ready) ==
  /\ ~ should_trigger(s) \/ ~ service_is_ready
  /\ UNCHANGED actuator_state

(* on_target that sends a request.  Whatever the answer is, it changes     *)
(* nothing in the controller.                                              *)
RequestTrigger(s, service_is_ready) ==
  /\ should_trigger(s)
  /\ service_is_ready
  /\ actuator_state' = "RELOADING"

on_actuator_status(ready) ==
  actuator_state' = IF ready THEN "READY" ELSE "RELOADING"
================================================================================
