------------------------------ MODULE C2Properties ------------------------------
(***************************************************************************)
(* What the arbiter has to keep while pilot, telemetry and auto_stub act   *)
(* whenever they like.                                                     *)
(***************************************************************************)
EXTENDS C2Service

Positions == Waypoints \cup {Home, None}

(* Every variable has its type, and a waypoint is in hand exactly while it *)
(* is being forwarded (c2_controller.cpp:118-129).                         *)
TypeOK ==
  /\ connected \in BOOLEAN /\ armed \in BOOLEAN /\ mode \in FlightMode
  /\ offboard_started \in BOOLEAN
  /\ callbacks \in Seq(Callback)
  /\ fc_armed \in BOOLEAN /\ fc_mode \in FcMode /\ fc_position \in Positions
  /\ state \in C2State /\ healthcheck_written \in BOOLEAN /\ hold_sent_in_state \in BOOLEAN
  /\ pc \in Step
  /\ waypoint \in Waypoints \cup {None}
  /\ waypoint # None <=> pc \in {"start", "forward"}
  /\ datagrams \in Seq(Waypoints \cup {Malformed})
  /\ healthcheck_file \in BOOLEAN
  /\ stub_waypoint \in Waypoints
  /\ seen \subseteq {"armed", "Guided"}

(* One hold for each stay in ARMED_HOLD, sent before anything else is done *)
(* there, and none in another state (c2_controller.cpp:67-78, 113-116).    *)
OneHoldPerStay ==
  /\ holds = IF state = "ARMED_HOLD" /\ hold_sent_in_state THEN 1 ELSE 0
  /\ state = "ARMED_HOLD" /\ pc # "hold" => holds = 1

(* A waypoint is only forwarded in a tick during which telemetry said both *)
(* armed and Guided, if perhaps not together                               *)
(* (c2_controller.cpp:94-100, 124-128; fc_link.cpp:60-76).                 *)
ForwardsOnWhatWasSeen ==
  pc \in {"start", "forward"} =>
    state = "ARMED_GUIDED" /\ seen = {"armed", "Guided"}

(* A process takes the flight controller out of the pilot's mode at most   *)
(* once, with its first waypoint (fc_link.cpp:90-97).                      *)
TakesOverAtMostOnce == takeovers <= IF offboard_started THEN 1 ELSE 0

-------------------------------------------------------------------------------
(* Whatever the pilot settles on, so that armed state and mode change no   *)
(* more, the arbiter follows (c2_controller.cpp:94-111, fc_link.cpp:60-76).*)
FollowsThePilot ==
  <>[][FALSE]_<<fc_armed, fc_mode>>
    => <>[](pc # "down" /\ state = IF fc_armed THEN StateFor(fc_mode) ELSE "DISARMED")

(* Back in guided mode the rover is sent to the present waypoint of        *)
(* auto_stub, whatever happened before (homework_12/qgc/README.md:42).     *)
CurrentWaypointReached ==
  <>[](fc_armed /\ fc_mode = "Guided") /\ <>[][FALSE]_stub_waypoint
    => <>[](fc_position = stub_waypoint)

-------------------------------------------------------------------------------
(* edge/c2/src/fc_link.hpp:52-53: the first heartbeat is the signal for    *)
(* /tmp/c2_healthy.  Violated: the file survives a restart of the service, *)
(* and nothing removes it.                                                 *)
HealthyMeansConnected == healthcheck_file => connected
================================================================================
