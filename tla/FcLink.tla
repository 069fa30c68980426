--------------------------------- MODULE FcLink ---------------------------------
(***************************************************************************)
(* The link to the flight controller: what telemetry callbacks write and   *)
(* the arbiter's thread reads, and the commands it sends.  Armed state and *)
(* flight mode are two atomics, written by two callbacks.                  *)
(***************************************************************************)
EXTENDS Sequences, Naturals

VARIABLES
  connected, armed, mode,   (* the atomics                               *)
  offboard_started,
  callbacks,                (* telemetry waiting for its callback        *)
  fc_armed, fc_mode,        (* the flight controller itself              *)
  fc_position               (* the position it was last sent to          *)

telemetryVars == <<connected, armed, mode, callbacks>>
fcVars        == <<fc_armed, fc_mode, fc_position>>

FlightMode == {"Unknown", "Manual", "Hold", "Guided"}

(* What the flight controller can be in; "Other" stands for its modes that *)
(* the link has no name for, such as Auto.                                 *)
FcMode == {"Manual", "Hold", "Guided", "Other"}

(* Where set_position_ned({}) sends it.                                    *)
Home == "home"

(* The constructor.                                                        *)
FcLinkStarts ==
  /\ connected' = FALSE /\ armed' = FALSE /\ mode' = "Unknown"
  /\ offboard_started' = FALSE
  /\ callbacks' = << >>

-------------------------------------------------------------------------------
(* Telemetry. *)

Callback == [kind : {"armed"}, armed : BOOLEAN] \cup [kind : {"mode"}, mode : FcMode]

(* A heartbeat carries both facts; each goes to its own subscription.      *)
Heartbeat ==
  callbacks' = callbacks \o << [kind |-> "armed", armed |-> fc_armed],
                               [kind |-> "mode",  mode  |-> fc_mode] >>

(* subscribe_armed.  Its three writes are one step: mode is only read after *)
(* armed was read as TRUE, and a tick that sees connected before armed only *)
(* writes the healthcheck file a tick earlier.                              *)
OnArmed ==
  /\ callbacks # << >> /\ Head(callbacks).kind = "armed"
  /\ connected' = TRUE
  /\ armed' = Head(callbacks).armed
  /\ mode' = IF armed' THEN mode ELSE "Unknown"
  /\ callbacks' = Tail(callbacks)

mapped_NoManual(m) ==   \* mutant: the case of Manual is missing
  IF m \in FlightMode \ {"Manual"} THEN m ELSE "Unknown"

mapped(m) == IF m \in FlightMode THEN m ELSE "Unknown"

(* subscribe_flight_mode.                                                  *)
OnFlightMode ==
  /\ callbacks # << >> /\ Head(callbacks).kind = "mode"
  /\ mode' = mapped(Head(callbacks).mode)
  /\ callbacks' = Tail(callbacks)
  /\ UNCHANGED <<connected, armed>>

-------------------------------------------------------------------------------
(* Commands.  None of their results is looked at.                          *)

(* hold(), which may not get through.                                      *)
hold(received) ==
  /\ fc_mode' = IF received THEN "Hold" ELSE fc_mode
  /\ UNCHANGED <<fc_armed, fc_position>>

(* A position only counts in guided mode.                                  *)
set_position_ned(p) == fc_position' = IF fc_armed /\ fc_mode' = "Guided" THEN p ELSE fc_position

(* The beginning of go_to_ned: the offboard session is started once.       *)
StartOffboard_EveryTime(received) ==   \* mutant: offboard_started is not set
  /\ ~ offboard_started
  /\ fc_mode' = IF received THEN "Guided" ELSE fc_mode
  /\ set_position_ned(Home)
  /\ UNCHANGED <<fc_armed, offboard_started>>

StartOffboard(received) ==
  /\ ~ offboard_started
  /\ fc_mode' = IF received THEN "Guided" ELSE fc_mode
  /\ set_position_ned(Home)
  /\ offboard_started' = TRUE
  /\ UNCHANGED fc_armed

(* Its end.                                                                *)
SendPosition(p) ==
  /\ UNCHANGED <<fc_armed, fc_mode, offboard_started>>
  /\ set_position_ned(p)
================================================================================
