----------------------------- MODULE WorldContract -----------------------------
(***************************************************************************)
(* The world node facing a student about whom nothing is known: any        *)
(* direction, known or not, and any hit report may arrive at any time,     *)
(* before the start-up publication and after the end included.  This is    *)
(* the setting of provided_world_contract_test.cpp with the interleavings  *)
(* of the three callbacks added.                                           *)
(***************************************************************************)
EXTENDS UndergroundWorldNode

CONSTANTS
  Commands,         (* the direction values that may arrive               *)
  Reports,          (* the cells a hit report may name                    *)
  MaxPendingMoves,  (* bound: moves waiting in pending_moves              *)
  MaxBadTriggers    (* bound: rejected hit reports                        *)

ASSUME BoundsAssumption ==
  /\ Commands \subseteq Nat
  /\ MaxPendingMoves \in Nat
  /\ MaxBadTriggers \in Nat

StudentMoves(d) ==
  /\ Len(pending_moves) < MaxPendingMoves
  /\ on_move(d)

StudentReports(c, p) ==
  /\ world.invalid_triggers + world.duplicate_triggers < MaxBadTriggers
  /\ on_enemy_down(c, p)

Next ==
  \/ InitialPublish
  \/ \E d \in Commands : StudentMoves(d)
  \/ \E c, p \in Reports : StudentReports(c, p)
  \/ commit_next_move

(* The executor keeps serving the one-shot and the periodic timer. *)
Fairness ==
  /\ WF_worldVars(InitialPublish)
  /\ WF_worldVars(commit_next_move)

Spec == WorldInit /\ [][Next]_worldVars /\ Fairness

-------------------------------------------------------------------------------
(* Every variable, and the latched sample, has the type its C++            *)
(* declaration gives it.                                                   *)
TypeOK ==
  /\ world \in WorldState
  /\ pending_moves \in Seq(Commands)
  /\ initial_timer \in BOOLEAN
  /\ published # NotPublished =>
       /\ Len(published) = 1
       /\ published[1].result \in Outcome
       /\ published[1].scan.robot \in Cells

(* No change of the world is silent: the latched samples are those of the  *)
(* object as it is now, and publishing them again would change neither the *)
(* object nor the samples.  Before the first publication nothing happened. *)
(* (publish_state is called last in every handler that changes the world.) *)
PublishedIsCurrent ==
  IF published = NotPublished
    THEN world = NewWorld /\ initial_timer
    ELSE /\ published = <<SnapshotOf(world)>>
         /\ make_scan(world) = world

(* The budget counts every committed command and is never overrun; a       *)
(* mission is failed only by exhausting it.                                *)
BudgetRespected ==
  /\ world.steps_taken + world.invalid_moves <= world.total_commands
  /\ world.total_commands <= MaxSteps
  /\ result(world) = "FAILED_MAX_STEPS" => world.total_commands = MaxSteps

(* Contacts counted as down were counted as seen, although a hit report    *)
(* may precede the first scan.                                             *)
DownWereSeen == world.contacts_down \subseteq world.contacts_seen

(* The robot never enters a wall or the cell of an active contact.         *)
RobotOnFreeCell ==
  /\ is_passable(world.robot)
  /\ ~ active_contact_at(world, world.robot)

(* Both together: moves and hits, in whatever order, keep the robot, the   *)
(* contacts and the counts consistent (world_model.cpp:115-128, 132-172).  *)
SoundWorld == DownWereSeen /\ RobotOnFreeCell

(* A published SUCCESS is earned: result() compares sizes, and equal sizes *)
(* do mean that every passable cell was seen and every contact is down.    *)
SuccessIsEarned ==
  published # NotPublished /\ published[1].result = "SUCCESS"
    => /\ world.visible_passable_cells = PassableCells
       /\ world.contacts_down = contacts

(* Once the mission is terminal nothing of the world changes any more,     *)
(* whatever still arrives.                                                 *)
TerminalIsFinal == [][terminal(world) => UNCHANGED world]_worldVars

(* Queued moves never stay queued for ever: bad commands are charged too,  *)
(* so a flood of them ends the mission and the queue is dropped.           *)
QueueDrains == pending_moves # <<>> ~> pending_moves = <<>>

(* Whatever the student sends, what the world publishes is a mission as    *)
(* Mission.tla promises it.                                                *)
ImplementsMission == AbstractMission!Spec
===============================================================================
