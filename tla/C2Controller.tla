------------------------------ MODULE C2Controller ------------------------------
(***************************************************************************)
(* The arbiter: C2Controller::tick, called for ever by main.  A tick reads *)
(* the link's atomics, follows them with its own state, and lets at most   *)
(* one waypoint through.  Telemetry callbacks run between its steps.       *)
(***************************************************************************)
EXTENDS FcLink

VARIABLES
  state, healthcheck_written, hold_sent_in_state,
  pc,                (* where the thread is in tick                      *)
  waypoint,          (* the waypoint in hand                             *)
  datagrams,         (* the socket: waypoints from auto_stub             *)
  healthcheck_file   (* HEALTHCHECK_PATH exists                          *)

implVars == <<state, healthcheck_written, hold_sent_in_state>>

C2State == {"DISARMED", "ARMED_HOLD", "ARMED_GUIDED", "ARMED_MANUAL"}

Step == {"health", "armed", "mode", "hold", "receive", "start", "forward", "down"}

None      == "none"
Malformed == "malformed"   (* a datagram that does not parse as a waypoint *)

ControllerStarts ==
  /\ state' = "DISARMED"
  /\ healthcheck_written' = FALSE
  /\ hold_sent_in_state' = FALSE

transition_KeepsHold(next) ==   \* mutant: hold_sent_in_state is not reset
  state' = next /\ UNCHANGED hold_sent_in_state

transition_ManualLatched(next) ==   \* mutant: only disarming leaves ARMED_MANUAL
  /\ state' = IF state = "ARMED_MANUAL" /\ next # "DISARMED" THEN state ELSE next
  /\ hold_sent_in_state' = (hold_sent_in_state /\ state' = state)

transition(next) ==
  /\ state' = next
  /\ hold_sent_in_state' = (hold_sent_in_state /\ next = state)

CheckHealth ==
  /\ pc = "health" /\ pc' = "armed"
  /\ healthcheck_file' = (healthcheck_file \/ connected)
  /\ healthcheck_written' = (healthcheck_written \/ connected)
  /\ UNCHANGED <<state, hold_sent_in_state, waypoint, datagrams>>

ReadArmed_NoTransition ==   \* mutant: the state is left alone when disarmed
  /\ pc = "armed"
  /\ pc' = IF armed THEN "mode" ELSE "receive"
  /\ UNCHANGED <<implVars, waypoint, datagrams, healthcheck_file>>

ReadArmed ==
  /\ pc = "armed"
  /\ IF armed THEN pc' = "mode"    /\ UNCHANGED <<state, hold_sent_in_state>>
              ELSE pc' = "receive" /\ transition("DISARMED")
  /\ UNCHANGED <<healthcheck_written, waypoint, datagrams, healthcheck_file>>

StateFor(m) == CASE m = "Guided" -> "ARMED_GUIDED"
                 [] m = "Manual" -> "ARMED_MANUAL"
                 [] OTHER        -> "ARMED_HOLD"

HoldIsDue == state = "ARMED_HOLD" /\ ~ hold_sent_in_state

ReadMode ==
  /\ pc = "mode"
  /\ transition(StateFor(mode))
  /\ pc' = IF HoldIsDue' THEN "hold" ELSE "receive"
  /\ UNCHANGED <<healthcheck_written, waypoint, datagrams, healthcheck_file>>

SendHold(received) ==
  /\ pc = "hold" /\ pc' = "receive"
  /\ hold(received)
  /\ hold_sent_in_state' = TRUE
  /\ UNCHANGED <<state, healthcheck_written, waypoint, datagrams, healthcheck_file>>

(* receive_waypoint without a waypoint to forward: nothing there, or the   *)
(* waypoint is blocked.                                                    *)
ReceiveNothing ==
  /\ pc = "receive" /\ datagrams = << >>
  /\ pc' = "health"
  /\ UNCHANGED <<implVars, waypoint, datagrams, healthcheck_file>>

BlockWaypoint_KeepsIt ==   \* mutant: a blocked waypoint stays in hand
  /\ pc = "receive" /\ datagrams # << >> /\ Head(datagrams) # Malformed
  /\ state # "ARMED_GUIDED"
  /\ pc' = "health"
  /\ waypoint' = Head(datagrams)
  /\ datagrams' = Tail(datagrams)
  /\ UNCHANGED <<implVars, healthcheck_file>>

BlockWaypoint ==
  /\ pc = "receive" /\ datagrams # << >> /\ Head(datagrams) # Malformed
  /\ state # "ARMED_GUIDED"
  /\ pc' = "health"
  /\ datagrams' = Tail(datagrams)
  /\ UNCHANGED <<implVars, waypoint, healthcheck_file>>

AcceptWaypoint ==
  /\ pc = "receive" /\ datagrams # << >> /\ Head(datagrams) # Malformed
  /\ state = "ARMED_GUIDED"
  /\ waypoint' = Head(datagrams)
  /\ datagrams' = Tail(datagrams)
  /\ pc' = IF offboard_started THEN "forward" ELSE "start"
  /\ UNCHANGED <<implVars, healthcheck_file>>

(* The parser throws and nothing catches: the process ends, its socket     *)
(* with it.                                                                *)
ReceiveThrows ==
  /\ pc = "receive" /\ datagrams # << >> /\ Head(datagrams) = Malformed
  /\ pc' = "down"
  /\ datagrams' = << >>
  /\ UNCHANGED <<implVars, waypoint, healthcheck_file>>

StartsForwarding(received) ==
  /\ pc = "start" /\ pc' = "forward"
  /\ StartOffboard(received)
  /\ UNCHANGED <<implVars, waypoint, datagrams, healthcheck_file>>

Forwards ==
  /\ pc = "forward" /\ pc' = "health"
  /\ SendPosition(waypoint)
  /\ waypoint' = None
  /\ UNCHANGED <<implVars, datagrams, healthcheck_file>>
================================================================================
