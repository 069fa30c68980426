--------------------------- MODULE Underground_proofs ---------------------------
(***************************************************************************)
(* The parts of the underground mission, each by itself.                   *)
(*                                                                         *)
(* The world node's promises for every scenario the loader accepts, every  *)
(* budget and every student.  The argument: publish_state is called last   *)
(* in every handler that changes the world, and make_scan is idempotent,   *)
(* so the object is always one that a further make_scan leaves alone; once *)
(* it is terminal every handler reduces to such a make_scan.               *)
(*                                                                         *)
(* The planner's answers on every map that can be revealed of a room of    *)
(* any size: an instance of what UndergroundLemmas shows of every map.     *)
(***************************************************************************)
EXTENDS WorldContract, PlannerCheck, UndergroundLemmas

-------------------------------------------------------------------------------
(* The inductive invariant and the steps. *)

IInv ==
  /\ TypeOK
  /\ WorldInv
  /\ published = NotPublished => initial_timer

(* The head and the tail of a queue that is not empty. *)
LEMMA QueueFacts ==
  ASSUME NEW q \in Seq(Commands), q # <<>>
  PROVE  Head(q) \in Commands /\ Tail(q) \in Seq(Commands)
OBVIOUS

(* Every step of the node is one of these as far as the world goes. *)
LEMMA NextIsWorldStep ==
  ASSUME TypeOK, [Next]_worldVars
  PROVE  WorldSteps /\ (published' = NotPublished => UNCHANGED initial_timer)
<1>1. CASE InitialPublish
  BY <1>1 DEF InitialPublish, publish_state, WorldSteps, NotPublished
<1>2. CASE \E d \in Commands : StudentMoves(d)
  BY <1>2 DEF StudentMoves, on_move, WorldSteps
<1>3. ASSUME NEW c \in Reports, NEW p \in Reports, StudentReports(c, p)
      PROVE  WorldSteps /\ (published' = NotPublished => UNCHANGED initial_timer)
  <2>1. publish_state(apply_enemy_down(world, c, p)) /\ UNCHANGED initial_timer
    BY <1>3 DEF StudentReports, on_enemy_down
  <2>2. terminal(world) => apply_enemy_down(world, c, p) = world
    BY DEF apply_enemy_down
  <2>3. QED  BY <2>1, <2>2 DEF WorldSteps
<1>4. CASE commit_next_move
  <2>1. CASE DropMoves
    BY <2>1 DEF DropMoves, WorldSteps
  <2>2. CASE CommitMove
    <3>1. Head(pending_moves) \in Commands
      BY <2>2, QueueFacts DEF CommitMove, TypeOK
    <3>2. Head(pending_moves) \in Nat
      BY <3>1, BoundsAssumption
    <3>3. QED  BY <2>2, <3>2 DEF CommitMove, WorldSteps
  <2>3. QED  BY <1>4, <2>1, <2>2 DEF commit_next_move
<1>5. CASE UNCHANGED worldVars
  BY <1>5 DEF worldVars, WorldSteps
<1>6. QED  BY <1>1, <1>2, <1>3, <1>4, <1>5 DEF Next

(* The initial state satisfies the invariant. *)
LEMMA InitIInv == WorldInit => IInv
<1> SUFFICES ASSUME WorldInit PROVE IInv
  OBVIOUS
<1>1. world = NewWorld /\ pending_moves = <<>> /\ initial_timer = TRUE /\ published = NotPublished
  BY DEF WorldInit
<1>2. TypeOK
  BY <1>1, NewWorldFacts DEF TypeOK
<1>3. QED  BY <1>1, <1>2, InitWorldInv DEF IInv

(* Every step keeps the queue and the timer well-typed. *)
LEMMA QueueType ==
  ASSUME TypeOK, [Next]_worldVars
  PROVE  pending_moves' \in Seq(Commands) /\ initial_timer' \in BOOLEAN
<1>1. CASE InitialPublish
  BY <1>1 DEF InitialPublish, TypeOK
<1>2. CASE \E d \in Commands : StudentMoves(d)
  BY <1>2 DEF StudentMoves, on_move, TypeOK
<1>3. CASE \E c, p \in Reports : StudentReports(c, p)
  BY <1>3 DEF StudentReports, on_enemy_down, TypeOK
<1>4. CASE commit_next_move
  <2>1. CASE DropMoves
    BY <2>1 DEF DropMoves, TypeOK
  <2>2. CASE CommitMove
    BY <2>2, QueueFacts DEF CommitMove, TypeOK
  <2>3. QED  BY <1>4, <2>1, <2>2 DEF commit_next_move
<1>5. CASE UNCHANGED worldVars
  BY <1>5 DEF worldVars, TypeOK
<1>6. QED  BY <1>1, <1>2, <1>3, <1>4, <1>5 DEF Next

(* What is latched has its type because it is the snapshot of the object. *)
LEMMA LatchedType ==
  ASSUME WorldInv, published # NotPublished
  PROVE  Len(published) = 1 /\ published[1].result \in Outcome /\ published[1].scan.robot \in Cells
<1>1. published = <<SnapshotOf(world)>> /\ world \in WorldState
  BY DEF WorldInv
<1>2. SnapshotOf(world).result \in Outcome /\ SnapshotOf(world).scan.robot \in Cells
  BY <1>1 DEF SnapshotOf, ScanOf, result, Outcome, WorldState
<1>3. QED  BY <1>1, <1>2

(* Every step preserves the invariant. *)
LEMMA NextIInv == IInv /\ [Next]_worldVars => IInv'
<1> SUFFICES ASSUME IInv, [Next]_worldVars PROVE IInv'
  OBVIOUS
<1>1. pending_moves' \in Seq(Commands) /\ initial_timer' \in BOOLEAN
  BY QueueType DEF IInv
<1>2. WorldSteps /\ (published' = NotPublished => UNCHANGED initial_timer)
  BY NextIsWorldStep DEF IInv
<1>3. WorldInv'
  BY <1>2, StepWorldInv DEF IInv
<1>4. TypeOK'
  <2>1. ASSUME published' # NotPublished
        PROVE  /\ Len(published') = 1 /\ published'[1].result \in Outcome
               /\ published'[1].scan.robot \in Cells
    <3>1. WorldInv' /\ (published # NotPublished)'
      BY <1>3, <2>1 DEF NotPublished
    <3>2. (Len(published) = 1 /\ published[1].result \in Outcome /\ published[1].scan.robot \in Cells)'
      BY <3>1, LatchedType, PTL
    <3>3. QED  BY <3>2
  <2>2. world' \in WorldState
    BY <1>3 DEF WorldInv
  <2>3. QED  BY <1>1, <2>1, <2>2 DEF TypeOK
<1>5. published' = NotPublished => initial_timer'
  <2>1. published' = NotPublished => published = NotPublished
    BY <1>2, PublishFacts, MoveFacts, TriggerFacts DEF WorldSteps, publish_state, NotPublished
  <2>2. QED  BY <1>2, <2>1 DEF IInv
<1>6. QED  BY <1>3, <1>4, <1>5 DEF IInv

(* The invariant holds of every scenario, budget and student. *)
THEOREM Invariance == Spec => []IInv
BY InitIInv, NextIInv, PTL DEF Spec

(* The variables keep their types. *)
THEOREM TypeCorrect == Spec => []TypeOK
<1>1. IInv => TypeOK
  BY DEF IInv
<1>2. QED  BY <1>1, Invariance, PTL

(* No change of the world is ever silent: what is latched is always the    *)
(* snapshot of the object as it is.                                        *)
THEOREM NothingUnpublished == Spec => []PublishedIsCurrent
<1>1. IInv => PublishedIsCurrent
  BY DEF IInv, WorldInv, PublishedIsCurrent
<1>2. QED  BY <1>1, Invariance, PTL

(* No student overruns the budget, and only a spent budget fails a mission. *)
THEOREM BudgetHolds == Spec => []BudgetRespected
<1>1. IInv => BudgetRespected
  BY FailedMeansSpent DEF IInv, WorldInv, Sound, BudgetRespected
<1>2. QED  BY <1>1, Invariance, PTL

(* No sequence of commands and reports takes the robot into a wall or an   *)
(* active contact, and what is down has been counted as seen.              *)
THEOREM WorldSound == Spec => []SoundWorld
<1>1. IInv => SoundWorld
  BY DEF IInv, WorldInv, Sound, SoundWorld, DownWereSeen, RobotOnFreeCell
<1>2. QED  BY <1>1, Invariance, PTL

-------------------------------------------------------------------------------
(* The outcome. *)

(* SUCCESS is only ever published for a mission that is complete. *)
THEOREM SuccessSound == Spec => []SuccessIsEarned
<1>1. IInv => SuccessIsEarned
  <2> SUFFICES ASSUME IInv, published # NotPublished, published[1].result = "SUCCESS"
               PROVE  /\ world.visible_passable_cells = PassableCells
                      /\ world.contacts_down = contacts
    BY DEF SuccessIsEarned
  <2>1. result(world) = "SUCCESS"
    BY AnnouncedIsResult DEF AnnouncedOutcome, IInv
  <2>2. QED  BY <2>1, ResultFacts DEF IInv, WorldInv
<1>2. QED  BY <1>1, Invariance, PTL

(* Nothing that arrives after the end, in whatever order, changes the world. *)
THEOREM EndIsFinal == Spec => TerminalIsFinal
<1>1. IInv /\ [Next]_worldVars => [terminal(world) => UNCHANGED world]_worldVars
  BY NextIsWorldStep, TerminalStep DEF IInv
<1>2. QED  BY <1>1, Invariance, PTL DEF Spec, TerminalIsFinal

-------------------------------------------------------------------------------
(* The refinement. *)

(* The world node implements Mission.tla for every scenario and student. *)
THEOREM Refinement == Spec => ImplementsMission
<1>1. WorldInit => AbstractMission!Init
  BY InitRefines
<1>2. IInv /\ [Next]_worldVars
        => [AbstractMission!Progress]_<<world.visible_passable_cells, world.contacts_down,
                                        AnnouncedOutcome>>
  BY NextIsWorldStep, StepRefines DEF IInv
<1>3. QED
  BY <1>1, <1>2, Invariance, PTL DEF Spec, ImplementsMission, AbstractMission!Spec

-------------------------------------------------------------------------------
(* The planner. *)

(* Only cells of the walled room are ever revealed.                        *)
RoomInv ==
  /\ from \in Room
  /\ DOMAIN known \subseteq Room \cup Walls

LEMMA InitRoomInv == RoomInit => RoomInv
BY RoomAssumption DEF RoomInit, RoomInv, Room

LEMMA NextRoomInv == RoomInv /\ [RoomNext]_roomVars => RoomInv'
BY DEF RoomInv, RoomNext, Reveal, roomVars

(* There are finitely many of them.                                        *)
LEMMA RoomFacts ==
  /\ Room \cup Walls \subseteq Positions
  /\ IsFiniteSet(Room \cup Walls)
<1>1. Columns \in Int /\ Rows \in Int
  BY RoomAssumption
<1>2. IsFiniteSet(0 .. Columns + 1) /\ IsFiniteSet(0 .. Rows + 1)
  BY <1>1, FS_Interval
<1>3. IsFiniteSet([x : 0 .. Columns + 1, y : 0 .. Rows + 1])
  BY <1>2, RectangleFinite
<1>4. Room \cup Walls \subseteq [x : 0 .. Columns + 1, y : 0 .. Rows + 1]
  BY <1>1 DEF Room, Walls
<1>5. Room \cup Walls \subseteq Positions
  BY <1>1 DEF Room, Walls, Positions
<1>6. QED  BY <1>3, <1>4, <1>5, FS_Subset

(* mission_explorer.cpp plans a step on a shortest path to a frontier in a *)
(* room of any size, with any number of contacts, from any cell of it.     *)
THEOREM PlanIsAlwaysNearest == RoomSpec => []PlanIsNearestFrontier
<1>1. RoomInv => PlanIsNearestFrontier
  BY RoomFacts, FS_Subset, PlansNearestFrontier DEF RoomInv, PlanIsNearestFrontier
<1>2. QED  BY <1>1, InitRoomInv, NextRoomInv, PTL DEF RoomSpec
===============================================================================
