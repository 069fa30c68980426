--------------------------------- MODULE Turret ---------------------------------
(***************************************************************************)
(* The turret: the track publisher, the controller and the actuator with   *)
(* the topics and the service between them.  All topics are reliable and   *)
(* volatile: a message is lost when its subscriber has not been discovered *)
(* yet, and otherwise delivered in order, some time later.                 *)
(***************************************************************************)
EXTENDS TurretController, ActuatorNode

CONSTANTS
  MaxTriggers,   (* bound: triggers the actuator accepts                  *)
  MaxInFlight    (* bound: messages on their way when a timer publishes   *)

ASSUME BoundsAssumption == {MaxTriggers, MaxInFlight} \subseteq Nat \ {0}

VARIABLES
  track,              (* the TargetTrackSimulation object                 *)
  target_topic,       (* samples on their way to the controller           *)
  controller_status,  (* statuses on their way to the controller          *)
  publisher_status,   (* statuses on their way to the track publisher     *)
  requests,           (* trigger requests on their way: a number          *)
  links,              (* the links discovered so far                      *)
  ended               (* history: tracks ended because of a trigger       *)

topics == <<target_topic, controller_status, publisher_status, requests>>
vars   == <<actuator_state, actuatorVars, track, topics, links, ended>>

(* target samples, the two subscriptions of the status, the service *)
Links == {"target", "controller_status", "publisher_status", "service"}

(* The status published by the actuator's constructor precedes discovery.  *)
Init ==
  /\ ControllerInit
  /\ ActuatorInit
  /\ track = NewTrack
  /\ target_topic = << >> /\ controller_status = << >> /\ publisher_status = << >>
  /\ requests = 0
  /\ links = {}
  /\ ended = 0

Publish(topic, link, message) == IF link \in links THEN Append(topic, message) ELSE topic

publish_status_ChangesOnly ==   \* mutant: the rising edge is not published
  IF ready' THEN UNCHANGED <<controller_status, publisher_status>>
  ELSE /\ controller_status' = Publish(controller_status, "controller_status", CurrentStatus')
       /\ publisher_status'  = Publish(publisher_status, "publisher_status", CurrentStatus')

publish_status ==
  /\ controller_status' = Publish(controller_status, "controller_status", CurrentStatus')
  /\ publisher_status'  = Publish(publisher_status, "publisher_status", CurrentStatus')

-------------------------------------------------------------------------------
(* The actuator. *)

ActuatorAccepts ==
  /\ requests > 0
  /\ trigger_count < MaxTriggers
  /\ AcceptTrigger
  /\ publish_status
  /\ requests' = requests - 1
  /\ UNCHANGED <<actuator_state, track, target_topic, links, ended>>

ActuatorRejects ==
  /\ requests > 0
  /\ RejectTrigger
  /\ requests' = requests - 1
  /\ UNCHANGED <<actuator_state, track, target_topic, controller_status, publisher_status, links, ended>>

ActuatorReloaded ==
  /\ Reloaded
  /\ publish_status
  /\ UNCHANGED <<actuator_state, track, target_topic, requests, links, ended>>

(* The periodic status. *)
StatusTick_Silent ==   \* mutant: the status timer publishes nothing
  UNCHANGED vars

StatusTick ==
  /\ Len(controller_status) < MaxInFlight /\ Len(publisher_status) < MaxInFlight
  /\ UNCHANGED actuatorVars
  /\ publish_status
  /\ UNCHANGED <<actuator_state, track, target_topic, requests, links, ended>>

-------------------------------------------------------------------------------
(* The track publisher. *)

publish_next_target ==
  /\ ~ finished(track.next_index)
  /\ Len(target_topic) < MaxInFlight /\ requests < MaxInFlight
  /\ track' = next_target(track)
  /\ target_topic' = Publish(target_topic, "target", SampleAt(track.next_index))
  /\ UNCHANGED <<actuator_state, actuatorVars, controller_status, publisher_status, requests, links, ended>>

PublisherReceivesStatus ==
  /\ publisher_status # << >>
  /\ LET s == Head(publisher_status) IN
       /\ track' = apply_actuator_status(track, s.ready, s.count)
       /\ ended' = IF EndsTrack(track, s.count) THEN ended + 1 ELSE ended
  /\ publisher_status' = Tail(publisher_status)
  /\ UNCHANGED <<actuator_state, actuatorVars, target_topic, controller_status, requests, links>>

-------------------------------------------------------------------------------
(* The controller. *)

ControllerObserves ==
  /\ target_topic # << >>
  /\ ObserveTarget(Head(target_topic), "service" \in links)
  /\ target_topic' = Tail(target_topic)
  /\ UNCHANGED <<actuatorVars, track, controller_status, publisher_status, requests, links, ended>>

ControllerRequests ==
  /\ target_topic # << >>
  /\ RequestTrigger(Head(target_topic), "service" \in links)
  /\ target_topic' = Tail(target_topic)
  /\ requests' = requests + 1
  /\ UNCHANGED <<actuatorVars, track, controller_status, publisher_status, links, ended>>

ControllerReceivesStatus ==
  /\ controller_status # << >>
  /\ on_actuator_status(Head(controller_status).ready)
  /\ controller_status' = Tail(controller_status)
  /\ UNCHANGED <<actuatorVars, track, target_topic, publisher_status, requests, links, ended>>

(* Discovery completes for one more link. *)
Discover(l) ==
  /\ l \notin links
  /\ links' = links \cup {l}
  /\ UNCHANGED <<actuator_state, actuatorVars, track, topics, ended>>

-------------------------------------------------------------------------------
Next ==
  \/ ActuatorAccepts \/ ActuatorRejects \/ ActuatorReloaded \/ StatusTick
  \/ publish_next_target \/ PublisherReceivesStatus
  \/ ControllerObserves \/ ControllerRequests \/ ControllerReceivesStatus
  \/ \E l \in Links : Discover(l)

(* The executors keep spinning, their timers keep firing, reliable topics  *)
(* deliver and discovery completes.                                        *)
Fairness ==
  /\ WF_vars(ActuatorAccepts \/ ActuatorRejects)
  /\ WF_vars(ActuatorReloaded)
  /\ WF_vars(StatusTick)
  /\ WF_vars(publish_next_target)
  /\ WF_vars(PublisherReceivesStatus)
  /\ WF_vars(ControllerObserves \/ ControllerRequests)
  /\ WF_vars(ControllerReceivesStatus)
  /\ \A l \in Links : WF_vars(Discover(l))

Spec == Init /\ [][Next]_vars /\ Fairness
================================================================================
