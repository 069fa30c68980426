------------------------------- MODULE C2Service -------------------------------
(***************************************************************************)
(* The on-board stack: the arbiter, the flight controller with the pilot   *)
(* behind it, and auto_stub sending its current waypoint again and again.  *)
(***************************************************************************)
EXTENDS C2Controller

CONSTANTS
  PilotModes,      (* the modes the pilot selects                         *)
  Waypoints,       (* the waypoints of the route                          *)
  MaxHeartbeats,   (* bound: heartbeats waiting for their callbacks       *)
  MaxDatagrams,    (* bound: datagrams in the socket                      *)
  MaxMalformed     (* bound: datagrams that do not parse                  *)

ASSUME BoundsAssumption ==
  /\ PilotModes \subseteq FcMode /\ PilotModes # {}
  /\ Waypoints # {} /\ Waypoints \cap {Home, None, Malformed} = {}
  /\ MaxHeartbeats \in Nat \ {0} /\ MaxDatagrams \in Nat \ {0} /\ MaxMalformed \in Nat

VARIABLES
  stub_waypoint,   (* what auto_stub sends at present                     *)
  malformed,       (* history: datagrams sent that do not parse           *)
  seen,            (* history: what telemetry said since the tick began   *)
  holds,           (* history: holds sent since the state was entered     *)
  takeovers        (* history: how often the process changed the mode to  *)
                   (* Guided by itself                                    *)

c2Vars  == <<implVars, pc, waypoint, datagrams, healthcheck_file>>
history == <<malformed, seen, holds, takeovers>>
vars    == <<telemetryVars, offboard_started, fcVars, c2Vars, stub_waypoint, history>>

Init ==
  /\ connected = FALSE /\ armed = FALSE /\ mode = "Unknown"
  /\ offboard_started = FALSE /\ callbacks = << >>
  /\ fc_armed \in BOOLEAN /\ fc_mode \in PilotModes /\ fc_position = None
  /\ state = "DISARMED" /\ healthcheck_written = FALSE /\ hold_sent_in_state = FALSE
  /\ pc = "health" /\ waypoint = None /\ datagrams = << >> /\ healthcheck_file = FALSE
  /\ stub_waypoint \in Waypoints
  /\ malformed = 0 /\ seen = {} /\ holds = 0 /\ takeovers = 0

-------------------------------------------------------------------------------
(* The thread that ticks.  Its steps update the history. *)

(* What the atomics say, of what a waypoint needs. *)
Telemetry == {f \in {"armed", "Guided"} : IF f = "armed" THEN armed ELSE mode = "Guided"}

TickReads ==
  /\ CheckHealth \/ ReadArmed \/ ReadMode
  /\ seen' = IF pc = "health" THEN Telemetry ELSE seen
  /\ holds' = IF state' = state THEN holds ELSE 0
  /\ UNCHANGED <<telemetryVars, offboard_started, fcVars, stub_waypoint, malformed, takeovers>>

TickHolds ==
  /\ \E received \in BOOLEAN : SendHold(received)
  /\ holds' = holds + 1
  /\ UNCHANGED <<telemetryVars, offboard_started, stub_waypoint, malformed, seen, takeovers>>

TickGoesOn ==
  /\ ReceiveNothing \/ BlockWaypoint \/ AcceptWaypoint \/ ReceiveThrows
  /\ UNCHANGED <<telemetryVars, offboard_started, fcVars, stub_waypoint, history>>

TickStartsOffboard ==
  /\ \E received \in BOOLEAN : StartsForwarding(received)
  /\ takeovers' = IF fc_mode' # fc_mode THEN takeovers + 1 ELSE takeovers
  /\ UNCHANGED <<telemetryVars, stub_waypoint, malformed, seen, holds>>

TickForwards ==
  /\ Forwards
  /\ UNCHANGED <<telemetryVars, stub_waypoint, history>>

tick == TickReads \/ TickHolds \/ TickGoesOn \/ TickStartsOffboard \/ TickForwards

(* Docker restarts the service.  The container keeps its files.            *)
Restarts ==
  /\ pc = "down" /\ pc' = "health"
  /\ FcLinkStarts
  /\ ControllerStarts
  /\ waypoint' = None
  /\ seen' = {} /\ holds' = 0 /\ takeovers' = 0
  /\ UNCHANGED <<fcVars, datagrams, healthcheck_file, stub_waypoint, malformed>>

-------------------------------------------------------------------------------
(* The thread of the telemetry callbacks. *)

TelemetryCallback ==
  /\ pc # "down"
  /\ OnArmed \/ OnFlightMode
  /\ seen' = seen \cup Telemetry'
  /\ UNCHANGED <<offboard_started, fcVars, c2Vars, stub_waypoint, malformed, holds, takeovers>>

ReceiveHeartbeat ==
  /\ pc # "down"
  /\ Len(callbacks) <= 2 * (MaxHeartbeats - 1)
  /\ Heartbeat
  /\ UNCHANGED <<connected, armed, mode, offboard_started, fcVars, c2Vars, stub_waypoint, history>>

-------------------------------------------------------------------------------
(* The pilot, and auto_stub.  A waypoint sent while nobody listens, or     *)
(* while the socket is full, is lost.                                      *)

PilotActs ==
  /\ \/ fc_armed' = ~ fc_armed /\ UNCHANGED fc_mode
     \/ fc_mode' \in PilotModes /\ UNCHANGED fc_armed
  /\ UNCHANGED <<fc_position, telemetryVars, offboard_started, c2Vars, stub_waypoint, history>>

StubSends ==
  /\ pc # "down" /\ Len(datagrams) < MaxDatagrams
  /\ datagrams' = Append(datagrams, stub_waypoint)
  /\ UNCHANGED <<telemetryVars, offboard_started, fcVars, implVars, pc, waypoint,
                 healthcheck_file, stub_waypoint, history>>

StubSendsMalformed ==
  /\ pc # "down" /\ Len(datagrams) < MaxDatagrams /\ malformed < MaxMalformed
  /\ datagrams' = Append(datagrams, Malformed)
  /\ malformed' = malformed + 1
  /\ UNCHANGED <<telemetryVars, offboard_started, fcVars, implVars, pc, waypoint,
                 healthcheck_file, stub_waypoint, seen, holds, takeovers>>

StubMovesOn ==
  /\ stub_waypoint' \in Waypoints \ {stub_waypoint}
  /\ UNCHANGED <<telemetryVars, offboard_started, fcVars, c2Vars, history>>

-------------------------------------------------------------------------------
Next ==
  \/ tick \/ Restarts
  \/ TelemetryCallback \/ ReceiveHeartbeat
  \/ PilotActs \/ StubSends \/ StubSendsMalformed \/ StubMovesOn

(* Both threads run, Docker restarts the service, heartbeats keep coming   *)
(* and so do waypoints.  The pilot owes nothing.  (Every step of tick and  *)
(* every restart changes pc, and only one of them is ever possible.)       *)
Fairness ==
  /\ WF_pc(tick \/ Restarts)
  /\ WF_callbacks(TelemetryCallback) /\ WF_callbacks(ReceiveHeartbeat)
  /\ WF_datagrams(StubSends)

Spec == Init /\ [][Next]_vars /\ Fairness
================================================================================
