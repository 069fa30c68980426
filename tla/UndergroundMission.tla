--------------------------- MODULE UndergroundMission ---------------------------
(***************************************************************************)
(* The three nodes of the underground mission and the topics and the       *)
(* service between them: the world, the mission explorer and the payload.  *)
(* Callbacks of different nodes interleave; every message is a step of its *)
(* own behind its publication.                                             *)
(*                                                                         *)
(* State topics are reliable, latched and KeepLast(1): a sample may be     *)
(* overtaken by a newer one, the newest one is always delivered.  Event    *)
(* topics are reliable FIFOs but volatile: what is published before the    *)
(* subscriber is discovered is lost.                                       *)
(***************************************************************************)
EXTENDS UndergroundWorldNode, MissionExplorer

CONSTANTS
  InitialLinks,   (* the links discovered before any node acts     *)
  MaxRestarts     (* bound: restarts of the explorer               *)

(* Publisher-subscriber and client-server pairs that have to be discovered: *)
(* explorer -> world moves, explorer -> payload service, payload -> world.  *)
Links == {"move", "service", "enemy_down"}
ExplorerLinks == {"move", "service"}

ASSUME MissionAssumption == InitialLinks \subseteq Links /\ MaxRestarts \in Nat

VARIABLES
  scan_topic, result_topic,              (* samples on their way to the explorer *)
  move_topic, enemy_down_topic,          (* events on their way to the world     *)
  trigger_requests, trigger_responses,   (* the payload service                  *)
  links,                                 (* the links discovered so far          *)
  lost,                                  (* history: some message was lost       *)
  restarts                               (* restarts of the explorer so far      *)

stateTopics == <<scan_topic, result_topic>>
service     == <<trigger_requests, trigger_responses>>
network     == <<stateTopics, move_topic, enemy_down_topic, service, links, lost, restarts>>
vars        == <<worldVars, explorerVars, network>>

Init ==
  /\ WorldInit
  /\ ExplorerInit
  /\ scan_topic = << >> /\ result_topic = << >>
  /\ move_topic = << >> /\ enemy_down_topic = << >>
  /\ trigger_requests = << >> /\ trigger_responses = << >>
  /\ links = InitialLinks
  /\ lost = FALSE
  /\ restarts = 0

(* KeepLast(1) at the writer and at the reader: two samples at most are    *)
(* held between a publication and its callback.                            *)
Latch(topic, sample) ==
  IF Len(topic) < 2 THEN Append(topic, sample) ELSE <<topic[2], sample>>

After(topic, k) == SubSeq(topic, k + 1, Len(topic))

(* What publish_state publishes. *)
Broadcast ==
  /\ scan_topic'   = Latch(scan_topic, published'[1].scan)
  /\ result_topic' = Latch(result_topic, published'[1].result)

-------------------------------------------------------------------------------
(* The world node. *)

WorldStarts ==
  /\ InitialPublish
  /\ Broadcast
  /\ UNCHANGED <<explorerVars, move_topic, enemy_down_topic, service, links, lost, restarts>>

WorldReceivesMove ==
  /\ move_topic # << >>
  /\ on_move(Head(move_topic))
  /\ move_topic' = Tail(move_topic)
  /\ UNCHANGED <<explorerVars, stateTopics, enemy_down_topic, service, links, lost, restarts>>

WorldCommitsMove ==
  /\ CommitMove
  /\ Broadcast
  /\ UNCHANGED <<explorerVars, move_topic, enemy_down_topic, service, links, lost, restarts>>

WorldDropsMoves ==
  /\ DropMoves
  /\ UNCHANGED <<explorerVars, network>>

WorldReceivesEnemyDown ==
  /\ enemy_down_topic # << >>
  /\ on_enemy_down(Head(enemy_down_topic), Head(enemy_down_topic))
  /\ enemy_down_topic' = Tail(enemy_down_topic)
  /\ Broadcast
  /\ UNCHANGED <<explorerVars, move_topic, service, links, lost, restarts>>

(* The payload node: every request is reported as a hit and accepted. *)
PayloadTriggers ==
  /\ trigger_requests # << >>
  /\ trigger_requests' = Tail(trigger_requests)
  /\ trigger_responses' = Append(trigger_responses, TRUE)
  /\ IF "enemy_down" \in links
     THEN /\ enemy_down_topic' = Append(enemy_down_topic, Head(trigger_requests))
          /\ UNCHANGED lost
     ELSE /\ lost' = TRUE
          /\ UNCHANGED enemy_down_topic
  /\ UNCHANGED <<worldVars, explorerVars, stateTopics, move_topic, links, restarts>>

-------------------------------------------------------------------------------
(* The mission explorer. *)

ExplorerReceivesScan ==
  /\ \E k \in 1 .. Len(scan_topic) :
       /\ on_local_scan(scan_topic[k])
       /\ scan_topic' = After(scan_topic, k)
  /\ UNCHANGED <<worldVars, result_topic, move_topic, enemy_down_topic, service, links, lost, restarts>>

ExplorerReceivesResult ==
  /\ \E k \in 1 .. Len(result_topic) :
       /\ on_result(result_topic[k])
       /\ result_topic' = After(result_topic, k)
  /\ UNCHANGED <<worldVars, scan_topic, move_topic, enemy_down_topic, service, links, lost, restarts>>

ExplorerReceivesResponse ==
  /\ trigger_responses # << >>
  /\ on_response(Head(trigger_responses))
  /\ trigger_responses' = Tail(trigger_responses)
  /\ UNCHANGED <<worldVars, stateTopics, move_topic, enemy_down_topic, trigger_requests, links, lost, restarts>>

TickWithoutMessage ==
  /\ \/ TickDone
     \/ TickFailed
     \/ TickPending
     \/ "service" \notin links /\ TickServiceNotReady
     \/ TickExhausted
  /\ UNCHANGED <<worldVars, network>>

TickTriggers ==
  /\ "service" \in links
  /\ \E c \in visible_contacts :
       /\ TickEngage(c)
       /\ trigger_requests' = Append(trigger_requests, c)
  /\ UNCHANGED <<worldVars, stateTopics, move_topic, enemy_down_topic, trigger_responses, links, lost, restarts>>

TickMoves ==
  /\ \E d \in Direction :
       /\ TickMove(d)
       /\ IF "move" \in links
          THEN move_topic' = Append(move_topic, d) /\ UNCHANGED lost
          ELSE lost' = TRUE /\ UNCHANGED move_topic
  /\ UNCHANGED <<worldVars, stateTopics, enemy_down_topic, service, links, restarts>>

control_tick == TickWithoutMessage \/ TickTriggers \/ TickMoves

LatchedScan_Volatile == << >>   \* mutant: the scan topic is not transient local

(* What a late subscriber of the two state topics finds. *)
LatchedScan   == [i \in 1 .. Len(published) |-> published[i].scan]
LatchedResult == [i \in 1 .. Len(published) |-> published[i].result]

(* The explorer process is restarted: it starts empty, finds the latched   *)
(* samples waiting, and has to be discovered again.  Its answers are lost; *)
(* events it had sent may still arrive or not.                             *)
ExplorerRestarts ==
  /\ restarts < MaxRestarts
  /\ restarts' = restarts + 1
  /\ current_position' = [x |-> 0, y |-> 0]
  /\ known_cells' = << >>
  /\ active_contacts' = {} /\ processed_contacts' = {} /\ visible_contacts' = {}
  /\ pending_contact' = {}
  /\ latest_result' = ""
  /\ unacted_scan' = FALSE
  /\ status' = "NONE"
  /\ scan_topic' = LatchedScan
  /\ result_topic' = LatchedResult
  /\ move_topic' \in {move_topic, << >>}
  /\ trigger_requests' \in {trigger_requests, << >>}
  /\ lost' = (lost \/ move_topic' # move_topic \/ trigger_requests' # trigger_requests)
  /\ trigger_responses' = << >>
  /\ links' = InitialLinks \cup (links \ ExplorerLinks)
  /\ UNCHANGED <<worldVars, enemy_down_topic>>

(* Discovery completes for one more link. *)
Discover(l) ==
  /\ l \notin links
  /\ links' = links \cup {l}
  /\ UNCHANGED <<worldVars, explorerVars, stateTopics, move_topic, enemy_down_topic, service, lost, restarts>>

-------------------------------------------------------------------------------
Next ==
  \/ WorldStarts \/ WorldReceivesMove \/ WorldCommitsMove \/ WorldDropsMoves
  \/ WorldReceivesEnemyDown
  \/ PayloadTriggers
  \/ ExplorerReceivesScan \/ ExplorerReceivesResult \/ ExplorerReceivesResponse
  \/ control_tick
  \/ ExplorerRestarts
  \/ \E l \in Links : Discover(l)

(* Every executor keeps spinning and its timers keep firing, reliable      *)
(* transport delivers, and discovery completes.  Restarts are not fair.    *)
Fairness ==
  /\ WF_vars(WorldStarts)
  /\ WF_vars(WorldReceivesMove)
  /\ WF_vars(WorldCommitsMove \/ WorldDropsMoves)
  /\ WF_vars(WorldReceivesEnemyDown)
  /\ WF_vars(PayloadTriggers)
  /\ WF_vars(ExplorerReceivesScan)
  /\ WF_vars(ExplorerReceivesResult)
  /\ WF_vars(ExplorerReceivesResponse)
  /\ WF_vars(control_tick)
  /\ \A l \in Links : WF_vars(Discover(l))

Spec == Init /\ [][Next]_vars /\ Fairness
================================================================================
