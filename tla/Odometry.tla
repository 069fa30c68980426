-------------------------------- MODULE Odometry --------------------------------
(***************************************************************************)
(* ugv_odometry of homework_04: the pose of a four-wheeled vehicle from    *)
(* the ticks of its wheels.                                                *)
(*                                                                         *)
(* The wheelbase is one metre (so its test for zero never holds), and      *)
(* every length is a multiple of a quarter of distance_per_tick: headings  *)
(* are counted in quarters of the angle one tick turns, distances in       *)
(* quarters of a tick.  A cosine is not a whole number, so a position is   *)
(* kept as the formal sum it is computed by: for each heading the distance *)
(* travelled along it.  Rounding is left out.                              *)
(*                                                                         *)
(* The stream is read five numbers at a time, wherever the lines end; the  *)
(* next five are any of Readings, or the stream ends there: at its end or  *)
(* at five that are not all numbers.  The timestamp is only printed.       *)
(***************************************************************************)
EXTENDS Integers, Sequences

CONSTANTS
  Readings,      (* the readings a log may have                            *)
  MaxReadings    (* bound: readings                                        *)

Ticks == [fl : Int, fr : Int, bl : Int, br : Int]

ASSUME OdometryAssumption ==
  /\ Readings \subseteq Ticks
  /\ MaxReadings \in Nat

VARIABLES
  phase,       (* "opening", "starting", "reading", "exited"               *)
  prev,        (* prev_fl_ticks, prev_fr_ticks, prev_bl_ticks, prev_br_ticks *)
  pose,        (* theta, and for x and y the distance along each heading   *)
  readings,    (* history: the readings so far                             *)
  poses,       (* history: the pose at each of them; from the second on    *)
               (* they are what is printed                                 *)
  exit_code    (* of the process; -1 while it runs                         *)

vars == <<phase, prev, pose, readings, poses, exit_code>>

NoTicks == [fl |-> 0, fr |-> 0, bl |-> 0, br |-> 0]
AtStart == [theta |-> 0, position |-> << >>]

Init ==
  /\ phase = "opening"
  /\ prev = NoTicks
  /\ pose = AtStart
  /\ readings = << >>
  /\ poses = << >>
  /\ exit_code = -1

Exit(code) ==
  /\ phase' = "exited" /\ exit_code' = code
  /\ UNCHANGED <<prev, pose, readings, poses>>

(* No argument, or a file that does not open for reading and writing. *)
CannotOpen == phase = "opening" /\ Exit(1)

Open ==
  /\ phase = "opening"
  /\ phase' = "starting"
  /\ UNCHANGED <<prev, pose, readings, poses, exit_code>>

(* The first reading is where the vehicle starts; without one the log has  *)
(* an invalid format.                                                      *)
FirstReading(r) ==
  /\ phase = "starting"
  /\ phase' = "reading"
  /\ prev' = r
  /\ readings' = << r >>
  /\ poses' = << pose >>
  /\ UNCHANGED <<pose, exit_code>>

InvalidFormat == phase = "starting" /\ Exit(1)

(* The distance of the middle of the vehicle, and twice its turn: d and    *)
(* d_theta of the code, in quarters of a tick.                             *)
Distance(from, to) == (to.fl - from.fl) + (to.fr - from.fr) + (to.bl - from.bl) + (to.br - from.br)
Turn(from, to)     == 2 * ((to.fr - from.fr) + (to.br - from.br) - (to.fl - from.fl) - (to.bl - from.bl))

Along(pos, heading) == IF heading \in DOMAIN pos THEN pos[heading] ELSE 0

Advance(pos, heading, d) ==
  [h \in DOMAIN pos \cup {heading} |-> Along(pos, h) + (IF h = heading THEN d ELSE 0)]

Moved_ByTheOldHeading(p, from, to) ==   \* mutant: the turn is left out of the heading
  [theta    |-> p.theta + Turn(from, to),
   position |-> Advance(p.position, p.theta, Distance(from, to))]

(* The vehicle moves along the heading in the middle of its turn.          *)
Moved(p, from, to) ==
  [theta    |-> p.theta + Turn(from, to),
   position |-> Advance(p.position, p.theta + Turn(from, to) \div 2, Distance(from, to))]

NextReading(r) ==
  /\ phase = "reading"
  /\ Len(readings) < MaxReadings
  /\ pose' = Moved(pose, prev, r)
  /\ prev' = r
  /\ readings' = Append(readings, r)
  /\ poses' = Append(poses, pose')
  /\ UNCHANGED <<phase, exit_code>>

(* The end of the file, and whatever cannot be read: a success either way. *)
EndOfReadings == phase = "reading" /\ Exit(0)

Next ==
  \/ CannotOpen \/ Open \/ InvalidFormat \/ EndOfReadings
  \/ \E r \in Readings : FirstReading(r) \/ NextReading(r)

Spec == Init /\ [][Next]_vars
================================================================================
