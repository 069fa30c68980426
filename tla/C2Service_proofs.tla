---------------------------- MODULE C2Service_proofs ----------------------------
(***************************************************************************)
(* Theorems about the arbiter: its safety properties hold for every route, *)
(* every choice of pilot modes and every bound.                            *)
(***************************************************************************)
EXTENDS C2Properties, TLAPS

(* Holds are counted by the flag, the flag is only set in ARMED_HOLD, and  *)
(* the one place where ARMED_HOLD is without it is just before the hold.   *)
HoldsCounted ==
  /\ holds = IF hold_sent_in_state THEN 1 ELSE 0
  /\ hold_sent_in_state => state = "ARMED_HOLD"
  /\ pc = "hold" <=> state = "ARMED_HOLD" /\ ~ hold_sent_in_state

(* In a tick, seen is at least what the atomics say, and at least what the *)
(* tick concluded from them.                                               *)
SeenCovers ==
  /\ pc \notin {"health", "down"} => Telemetry \subseteq seen
  /\ pc = "mode" => "armed" \in seen
  /\ pc \in {"receive", "start", "forward"} /\ state = "ARMED_GUIDED"
       => seen = {"armed", "Guided"}
  /\ pc \in {"start", "forward"} => state = "ARMED_GUIDED"

(* Offboard mode is started by a process that has not started it.          *)
TakeoverCounted ==
  /\ takeovers \in Nat
  /\ TakesOverAtMostOnce
  /\ pc = "start" => ~ offboard_started

IInv == TypeOK /\ HoldsCounted /\ SeenCovers /\ TakeoverCounted

-------------------------------------------------------------------------------
(* What a callback delivers has its type (fc_link.cpp:60-76). *)
LEMMA CallbackType ==
  ASSUME callbacks \in Seq(Callback), callbacks # << >>
  PROVE  /\ Head(callbacks).kind = "armed" => Head(callbacks).armed \in BOOLEAN
         /\ Tail(callbacks) \in Seq(Callback)
<1>1. Head(callbacks) \in Callback /\ Tail(callbacks) \in Seq(Callback)
  OBVIOUS
<1>2. ASSUME NEW c \in Callback, c.kind = "armed" PROVE c.armed \in BOOLEAN
  BY <1>2 DEF Callback
<1>. QED  BY <1>1, <1>2

(* The mode the link stores is one it has a name for (fc_link.cpp:68-74).  *)
LEMMA MappedType == \A m : mapped(m) \in FlightMode
  BY DEF mapped, FlightMode

(* A transition goes where it is told (c2_controller.cpp:67-78).           *)
LEMMA StateForType == \A m : StateFor(m) \in C2State \ {"DISARMED"}
  BY DEF StateFor, C2State

(* One waiting datagram is a waypoint or malformed, and the rest are, too  *)
(* (c2_controller.cpp:53-65).                                              *)
LEMMA DatagramType ==
  ASSUME datagrams \in Seq(Waypoints \cup {Malformed}), datagrams # << >>
  PROVE  /\ Head(datagrams) # Malformed => Head(datagrams) \in Waypoints
         /\ Tail(datagrams) \in Seq(Waypoints \cup {Malformed})
  OBVIOUS

(* A heartbeat adds two callbacks.                                         *)
LEMMA HeartbeatType ==
  ASSUME callbacks \in Seq(Callback), fc_armed \in BOOLEAN, fc_mode \in FcMode
  PROVE  callbacks \o << [kind |-> "armed", armed |-> fc_armed],
                         [kind |-> "mode",  mode  |-> fc_mode] >> \in Seq(Callback)
<1>1. [kind |-> "armed", armed |-> fc_armed] \in Callback
  BY DEF Callback
<1>2. [kind |-> "mode", mode |-> fc_mode] \in Callback
  BY DEF Callback
<1>. QED  BY <1>1, <1>2

-------------------------------------------------------------------------------
(* Every initial state satisfies the invariant. *)
LEMMA InitIInv == Init => IInv
<1>. SUFFICES ASSUME Init PROVE IInv
  OBVIOUS
<1>. USE BoundsAssumption
<1>1. callbacks \in Seq(Callback) /\ datagrams \in Seq(Waypoints \cup {Malformed})
  BY DEF Init
<1>2. TypeOK
  BY <1>1 DEF Init, TypeOK, FlightMode, Positions, C2State, Step
<1>3. HoldsCounted /\ SeenCovers /\ TakeoverCounted
  BY DEF Init, HoldsCounted, SeenCovers, TakeoverCounted, TakesOverAtMostOnce, Telemetry
<1>. QED  BY <1>2, <1>3 DEF IInv

(* CheckHealth, ReadArmed and ReadMode preserve it. *)
LEMMA ReadsIInv == IInv /\ TickReads => IInv'
<1>. SUFFICES ASSUME IInv, TickReads PROVE IInv'
  OBVIOUS
<1>. USE DEF TickReads
<1>1. CASE CheckHealth
  <2>1. TypeOK'
    BY <1>1, BoundsAssumption DEF CheckHealth, IInv, TypeOK, telemetryVars, fcVars, implVars,
       Step, Telemetry
  <2>2. HoldsCounted' /\ SeenCovers' /\ TakeoverCounted'
    BY <1>1 DEF CheckHealth, IInv, TypeOK, HoldsCounted, SeenCovers, TakeoverCounted,
       TakesOverAtMostOnce, telemetryVars, fcVars, implVars, Telemetry
  <2>. QED  BY <2>1, <2>2 DEF IInv
<1>2. CASE ReadArmed
  <2>1. TypeOK'
    BY <1>2, BoundsAssumption DEF ReadArmed, transition, IInv, TypeOK, telemetryVars, fcVars,
       implVars, Step, C2State
  <2>2. HoldsCounted'
    BY <1>2 DEF ReadArmed, transition, IInv, TypeOK, HoldsCounted, implVars
  <2>3. SeenCovers' /\ TakeoverCounted'
    BY <1>2 DEF ReadArmed, transition, IInv, TypeOK, SeenCovers, TakeoverCounted,
       TakesOverAtMostOnce, telemetryVars, fcVars, implVars, Telemetry
  <2>. QED  BY <2>1, <2>2, <2>3 DEF IInv
<1>3. CASE ReadMode
  <2>0. StateFor(mode) \in C2State \ {"DISARMED"}
    BY StateForType
  <2>1. TypeOK'
    BY <1>3, <2>0, BoundsAssumption DEF ReadMode, transition, IInv, TypeOK, telemetryVars, fcVars,
       implVars, Step, C2State
  <2>2. HoldsCounted'
    BY <1>3, <2>0 DEF ReadMode, HoldIsDue, transition, IInv, TypeOK, HoldsCounted, implVars, C2State
  <2>3. SeenCovers' /\ TakeoverCounted'
    BY <1>3 DEF ReadMode, HoldIsDue, transition, StateFor, IInv, TypeOK, SeenCovers, TakeoverCounted,
       TakesOverAtMostOnce, telemetryVars, fcVars, implVars, Telemetry
  <2>. QED  BY <2>1, <2>2, <2>3 DEF IInv
<1>. QED  BY <1>1, <1>2, <1>3

(* So does the hold. *)
LEMMA HoldsIInv == IInv /\ TickHolds => IInv'
<1>. SUFFICES ASSUME IInv, NEW received \in BOOLEAN, SendHold(received),
                     holds' = holds + 1,
                     UNCHANGED <<telemetryVars, offboard_started, stub_waypoint, malformed, seen, takeovers>>
              PROVE  IInv'
  BY DEF TickHolds
<1>. USE DEF SendHold, hold
<1>1. TypeOK'
  BY BoundsAssumption DEF IInv, TypeOK, telemetryVars, Step, FcMode
<1>2. HoldsCounted'
  BY DEF IInv, TypeOK, HoldsCounted
<1>3. SeenCovers' /\ TakeoverCounted'
  BY DEF IInv, TypeOK, SeenCovers, HoldsCounted, TakeoverCounted, TakesOverAtMostOnce, telemetryVars, Telemetry
<1>. QED  BY <1>1, <1>2, <1>3 DEF IInv

(* So does whatever the socket gives. *)
LEMMA GoesOnIInv == IInv /\ TickGoesOn => IInv'
<1>. SUFFICES ASSUME IInv, TickGoesOn PROVE IInv'
  OBVIOUS
<1>0. datagrams # << >> =>
        /\ Head(datagrams) # Malformed => Head(datagrams) \in Waypoints
        /\ Tail(datagrams) \in Seq(Waypoints \cup {Malformed})
  BY DatagramType DEF IInv, TypeOK
<1>1. << >> \in Seq(Waypoints \cup {Malformed})
  OBVIOUS
<1>. USE DEF TickGoesOn, ReceiveNothing, BlockWaypoint, AcceptWaypoint, ReceiveThrows
<1>2. TypeOK'
  BY <1>0, <1>1, BoundsAssumption DEF IInv, TypeOK, telemetryVars, fcVars, implVars, history, Step
<1>3. HoldsCounted'
  BY DEF IInv, TypeOK, HoldsCounted, implVars, history
<1>4. SeenCovers' /\ TakeoverCounted'
  BY DEF IInv, TypeOK, SeenCovers, TakeoverCounted, TakesOverAtMostOnce, implVars, history,
     telemetryVars, Telemetry
<1>. QED  BY <1>2, <1>3, <1>4 DEF IInv

(* So do the two halves of forwarding. *)
LEMMA StartsIInv == IInv /\ TickStartsOffboard => IInv'
<1>. SUFFICES ASSUME IInv, NEW received \in BOOLEAN, StartsForwarding(received),
                     takeovers' = IF fc_mode' # fc_mode THEN takeovers + 1 ELSE takeovers,
                     UNCHANGED <<telemetryVars, stub_waypoint, malformed, seen, holds>>
              PROVE  IInv'
  BY DEF TickStartsOffboard
<1>. USE DEF StartsForwarding, StartOffboard
<1>1. TypeOK'
  BY BoundsAssumption DEF set_position_ned, IInv, TypeOK, telemetryVars, implVars, Step, FcMode, Positions
<1>2. HoldsCounted' /\ SeenCovers'
  BY DEF IInv, TypeOK, HoldsCounted, SeenCovers, implVars, telemetryVars, Telemetry
<1>3. TakeoverCounted'
  BY DEF IInv, TypeOK, TakeoverCounted, TakesOverAtMostOnce
<1>. QED  BY <1>1, <1>2, <1>3 DEF IInv

LEMMA ForwardsIInv == IInv /\ TickForwards => IInv'
<1>. SUFFICES ASSUME IInv, TickForwards PROVE IInv'
  OBVIOUS
<1>. USE DEF TickForwards, Forwards, SendPosition
<1>1. TypeOK'
  BY BoundsAssumption DEF set_position_ned, IInv, TypeOK, telemetryVars, implVars, history, Step, Positions
<1>2. HoldsCounted' /\ SeenCovers' /\ TakeoverCounted'
  BY DEF IInv, TypeOK, HoldsCounted, SeenCovers, TakeoverCounted, TakesOverAtMostOnce, implVars,
     history, telemetryVars, Telemetry
<1>. QED  BY <1>1, <1>2 DEF IInv

(* And a new process. *)
LEMMA RestartsIInv == IInv /\ Restarts => IInv'
<1>. SUFFICES ASSUME IInv, Restarts PROVE IInv'
  OBVIOUS
<1>0. << >> \in Seq(Callback)
  OBVIOUS
<1>. USE DEF Restarts, FcLinkStarts, ControllerStarts
<1>1. TypeOK'
  BY <1>0, BoundsAssumption DEF IInv, TypeOK, fcVars, FlightMode, C2State, Step
<1>2. HoldsCounted' /\ SeenCovers' /\ TakeoverCounted'
  BY DEF HoldsCounted, SeenCovers, TakeoverCounted, TakesOverAtMostOnce
<1>. QED  BY <1>1, <1>2 DEF IInv

(* A telemetry callback in the middle of a tick adds to what was seen. *)
LEMMA CallbackIInv == IInv /\ TelemetryCallback => IInv'
<1>. SUFFICES ASSUME IInv, TelemetryCallback PROVE IInv'
  OBVIOUS
<1>0. /\ callbacks # << >>
      /\ Head(callbacks).kind = "armed" => Head(callbacks).armed \in BOOLEAN
      /\ Tail(callbacks) \in Seq(Callback)
  BY CallbackType DEF TelemetryCallback, OnArmed, OnFlightMode, IInv, TypeOK
<1>1. connected' \in BOOLEAN /\ armed' \in BOOLEAN /\ mode' \in FlightMode /\ callbacks' \in Seq(Callback)
  <2>1. CASE OnArmed
    BY <1>0, <2>1 DEF OnArmed, IInv, TypeOK, FlightMode
  <2>2. CASE OnFlightMode
    BY <1>0, <2>2, MappedType DEF OnFlightMode, IInv, TypeOK
  <2>. QED  BY <2>1, <2>2 DEF TelemetryCallback
<1>2. seen' = seen \cup Telemetry' /\ Telemetry' \subseteq {"armed", "Guided"}
  BY DEF TelemetryCallback, Telemetry
<1>3. UNCHANGED <<offboard_started, fcVars, c2Vars, stub_waypoint, malformed, holds, takeovers>>
  BY DEF TelemetryCallback
<1>4. TypeOK'
  BY <1>1, <1>2, <1>3 DEF IInv, TypeOK, fcVars, c2Vars, implVars
<1>5. HoldsCounted' /\ TakeoverCounted'
  BY <1>3 DEF IInv, HoldsCounted, TakeoverCounted, TakesOverAtMostOnce, c2Vars, implVars
<1>6. SeenCovers'
  <2>1. pc' = pc /\ state' = state
    BY <1>3 DEF c2Vars, implVars
  <2>. HIDE DEF Telemetry
  <2>. QED  BY <1>2, <2>1 DEF IInv, TypeOK, SeenCovers
<1>. QED  BY <1>4, <1>5, <1>6 DEF IInv

(* The others do not touch what the invariant relates. *)
LEMMA OthersIInv ==
  IInv /\ (ReceiveHeartbeat \/ PilotActs \/ StubSends \/ StubSendsMalformed \/ StubMovesOn) => IInv'
<1>. SUFFICES ASSUME IInv,
                     ReceiveHeartbeat \/ PilotActs \/ StubSends \/ StubSendsMalformed \/ StubMovesOn
              PROVE  IInv'
  OBVIOUS
<1>1. TypeOK'
  <2>1. CASE ReceiveHeartbeat
    <3>1. callbacks' \in Seq(Callback)
      BY <2>1, HeartbeatType DEF ReceiveHeartbeat, Heartbeat, IInv, TypeOK
    <3>. QED  BY <2>1, <3>1 DEF ReceiveHeartbeat, IInv, TypeOK, fcVars, c2Vars, implVars, history
  <2>2. CASE PilotActs
    BY <2>2, BoundsAssumption DEF PilotActs, IInv, TypeOK, telemetryVars, c2Vars, implVars, history
  <2>3. CASE StubSends
    <3>1. datagrams' \in Seq(Waypoints \cup {Malformed})
      BY <2>3 DEF StubSends, IInv, TypeOK
    <3>. QED  BY <2>3, <3>1 DEF StubSends, IInv, TypeOK, telemetryVars, fcVars, implVars, history
  <2>4. CASE StubSendsMalformed
    <3>1. datagrams' \in Seq(Waypoints \cup {Malformed})
      BY <2>4 DEF StubSendsMalformed, IInv, TypeOK
    <3>. QED  BY <2>4, <3>1 DEF StubSendsMalformed, IInv, TypeOK, telemetryVars, fcVars, implVars
  <2>5. CASE StubMovesOn
    BY <2>5 DEF StubMovesOn, IInv, TypeOK, telemetryVars, fcVars, c2Vars, implVars, history
  <2>. QED  BY <2>1, <2>2, <2>3, <2>4, <2>5
<1>2. UNCHANGED <<armed, mode, offboard_started, implVars, pc, seen, holds, takeovers>>
  BY DEF ReceiveHeartbeat, PilotActs, StubSends, StubSendsMalformed, StubMovesOn, telemetryVars,
     c2Vars, history
<1>3. HoldsCounted' /\ SeenCovers' /\ TakeoverCounted'
  BY <1>2 DEF IInv, HoldsCounted, SeenCovers, TakeoverCounted, TakesOverAtMostOnce, Telemetry, implVars
<1>. QED  BY <1>1, <1>3 DEF IInv

(* A stuttering step. *)
LEMMA StutterIInv == IInv /\ UNCHANGED vars => IInv'
  BY DEF vars, telemetryVars, fcVars, c2Vars, implVars, history, IInv, TypeOK, HoldsCounted,
     SeenCovers, TakeoverCounted, TakesOverAtMostOnce, Telemetry

-------------------------------------------------------------------------------
(* The invariant holds whatever pilot, telemetry and auto_stub do between  *)
(* the steps of a tick (c2_controller.cpp:88-132).                         *)
THEOREM Invariance == Spec => []IInv
<1>1. Init => IInv
  BY InitIInv
<1>2. IInv /\ [Next]_vars => IInv'
  BY ReadsIInv, HoldsIInv, GoesOnIInv, StartsIInv, ForwardsIInv, RestartsIInv, CallbackIInv,
     OthersIInv, StutterIInv DEF Next, tick
<1>. QED  BY <1>1, <1>2, PTL DEF Spec

(* Arbiter and link keep their types. *)
THEOREM TypeCorrect == Spec => []TypeOK
<1>1. IInv => TypeOK
  BY DEF IInv
<1>. QED  BY <1>1, Invariance, PTL

(* hold() is called once for each stay in ARMED_HOLD, before anything else *)
(* is done there (c2_controller.cpp:113-116).                              *)
THEOREM HoldOnce == Spec => []OneHoldPerStay
<1>1. IInv => OneHoldPerStay
  BY DEF IInv, HoldsCounted, OneHoldPerStay
<1>. QED  BY <1>1, Invariance, PTL

(* Nothing is forwarded in a tick during which telemetry did not say both  *)
(* armed and Guided (c2_controller.cpp:124-128).                           *)
THEOREM ForwardsSeen == Spec => []ForwardsOnWhatWasSeen
<1>1. IInv => ForwardsOnWhatWasSeen
  BY DEF IInv, SeenCovers, ForwardsOnWhatWasSeen
<1>. QED  BY <1>1, Invariance, PTL

(* A process takes over at most once (fc_link.cpp:90-97). *)
THEOREM TakeoverOnce == Spec => []TakesOverAtMostOnce
<1>1. IInv => TakesOverAtMostOnce
  BY DEF IInv, TakeoverCounted
<1>. QED  BY <1>1, Invariance, PTL
================================================================================
