------------------------- MODULE UndergroundWorldNode -------------------------
(***************************************************************************)
(* The callbacks of the ROS 2 node that owns the world.  One executor runs *)
(* them one at a time, so each is one action, the publications it makes    *)
(* included.  The three state topics (scan, metrics, result) are published *)
(* together and latched (KeepLast(1), transient local): "published" is the *)
(* latest set of samples.                                                  *)
(***************************************************************************)
EXTENDS WorldModel

VARIABLES
  world,            (* the WorldModel object                                 *)
  pending_moves,    (* moves received and not committed yet, a FIFO          *)
  initial_timer,    (* TRUE until the one-shot start-up publication happened *)
  published         (* <<>>, or a sequence holding the latched snapshot      *)

worldVars == <<world, pending_moves, initial_timer, published>>

(* An unpublished topic has no sample. *)
NotPublished == <<>>

WorldInit ==
  /\ world = NewWorld
  /\ pending_moves = <<>>
  /\ initial_timer = TRUE
  /\ published = NotPublished

(* publish_state() called when the object is w. *)
publish_state_BeforeScan(w) ==   \* mutant: result and metrics precede make_scan
  /\ world' = make_scan(w)
  /\ published' = <<SnapshotOf(w)>>

publish_state(w) ==
  /\ world' = make_scan(w)
  /\ published' = <<SnapshotOf(world')>>

InitialPublish ==
  /\ initial_timer
  /\ initial_timer' = FALSE
  /\ publish_state(world)
  /\ UNCHANGED pending_moves

on_move(d) ==
  /\ pending_moves' = Append(pending_moves, d)
  /\ UNCHANGED <<world, initial_timer, published>>

on_enemy_down(c, p) ==
  /\ publish_state(apply_enemy_down(world, c, p))
  /\ UNCHANGED <<pending_moves, initial_timer>>

(* The commit timer with moves queued and the mission finished: the queue  *)
(* is dropped and nothing is published.                                    *)
DropMoves ==
  /\ pending_moves # <<>>
  /\ terminal(world)
  /\ pending_moves' = <<>>
  /\ UNCHANGED <<world, initial_timer, published>>

(* The commit timer with moves queued and the mission running. *)
CommitMove ==
  /\ pending_moves # <<>>
  /\ ~ terminal(world)
  /\ pending_moves' = Tail(pending_moves)
  /\ publish_state(apply_move(world, Head(pending_moves)))
  /\ UNCHANGED initial_timer

commit_next_move == DropMoves \/ CommitMove

-------------------------------------------------------------------------------
(* Seen from the result topic the node is the abstract mission of          *)
(* Mission.tla.                                                            *)
AnnouncedOutcome ==
  IF published = NotPublished THEN "RUNNING" ELSE published[1].result

AbstractMission ==
  INSTANCE Mission WITH AllCells    <- PassableCells,
                        AllContacts <- contacts,
                        covered     <- world.visible_passable_cells,
                        down        <- world.contacts_down,
                        outcome     <- AnnouncedOutcome
===============================================================================
