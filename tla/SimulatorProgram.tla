--------------------------- MODULE SimulatorProgram ---------------------------
(***************************************************************************)
(* The program that main.cpp puts together: a MissionProcessor with a      *)
(* TableSolver.  A configuration also has the name of the table file, the  *)
(* altitude and the ammunition.                                            *)
(***************************************************************************)
EXTENDS SimulatorProperties, TableSolver, SequencesExt

CONSTANTS
  Files,      (* name -> table file; each axis has increasing entries     *)
  Queries,    (* <<altitude, mass, drag, lift>> of the configurations     *)
  Garbage     (* what may be in memory outside of an array                *)

ASSUME FilesAssumption ==
  /\ {c.file : c \in Configs} \subseteq DOMAIN Files /\ {c.query : c \in Configs} \subseteq Queries
  /\ \A q \in Queries : \A i \in 1 .. 4 : q[i] \in Int
  /\ Garbage \subseteq [t : Int, hDist : Int]
  /\ \A f \in DOMAIN Files :
       /\ Files[f].results \in Seq([t : Int, hDist : Int])
       /\ \A i \in Dimensions :
            LET axis == Files[f].axes[i]
            IN  /\ axis.entries \in Seq(Int) /\ axis.size = Len(axis.entries) /\ axis.size > 0
                /\ \A j, k \in 1 .. axis.size : j < k => axis.entries[j] < axis.entries[k]

(* What a TableSolver may answer for a configuration. *)
Answers == UNION {
  {[file |-> file, query |-> q,
    result |-> solve(table, q[1], attackSpeed, [mass |-> q[2], drag |-> q[3], lift |-> q[4]], g)] :
      table \in {load(Files[file])}, q \in Queries, g \in Garbage} : file \in DOMAIN Files}

(* The ballistics of a configuration are what the solver that main.cpp     *)
(* gives the processor answers, the others what one with another table may.*)
ASSUME SolverAssumption ==
  \A c \in Configs :
    /\ [file |-> c.file, query |-> c.query, result |-> c.ballistics] \in Answers
    /\ \A r \in c.others : \E file \in DOMAIN Files :
         [file |-> file, query |-> c.query, result |-> r] \in Answers

-------------------------------------------------------------------------------
(* The reference: the values around the query, weighted by their nearness. *)

Clamp(axis, val) ==
  IF val < axis.entries[1] THEN axis.entries[1]
  ELSE IF val > axis.entries[axis.size] THEN axis.entries[axis.size] ELSE val

(* The entries around a value: the value itself, or the next on either     *)
(* side with the distance to the other one as weight.                      *)
Near(axis, val) ==
  LET entries == ToSet(axis.entries)
      below   == CHOOSE e \in entries : e <= val /\ \A o \in entries : o <= val => o <= e
      above   == CHOOSE e \in entries : e >= val /\ \A o \in entries : o >= val => o >= e
  IN  IF below = above THEN {[entry |-> val, weight |-> 1]}
      ELSE {[entry |-> below, weight |-> above - val], [entry |-> above, weight |-> val - below]}

Product(s) == FoldLeft(LAMBDA a, b : a * b, 1, s)

(* What the file says of five entries, zero if it ends before.  Before     *)
(* them come all that are earlier on the first axis in which they differ.  *)
Stated(file, point, field) ==
  LET before(i) == Cardinality({k \in 1 .. file.axes[i].size : file.axes[i].entries[k] < point[i].entry})
      p == 1 + SumFunction([i \in Dimensions |-> before(i) * Product([k \in 1 .. 5 - i |-> file.axes[i + k].size])])
  IN  IF p <= Len(file.results) THEN file.results[p][field] ELSE 0

Weight(point) == Product([i \in Dimensions |-> point[i].weight])

Interpolated(file, q, field) ==
  LET near(i) == Near(file.axes[i], Clamp(file.axes[i], q[i]))
      points  == near(1) \X near(2) \X near(3) \X near(4) \X near(5)
  IN  SumFunction([p \in points |-> Weight(p) * Stated(file, p, field)])
        \div SumFunction([p \in points |-> Weight(p)])

Reference ==
  {[file |-> file, query |-> q,
    result |-> [flightTime |-> Interpolated(Files[file], <<q[1], attackSpeed, q[2], q[3], q[4]>>, "t"),
                horizontalDistance |-> Interpolated(Files[file], <<q[1], attackSpeed, q[2], q[3], q[4]>>, "hDist")]] :
      file \in DOMAIN Files, q \in Queries}

-------------------------------------------------------------------------------
(* A mission always aims by what a table file says of its own ammunition,  *)
(* speed and altitude, at the nearest entries when they lie outside of the *)
(* table, and whatever memory the lookup reads beside an axis of one entry *)
(* (TableSolver.cpp:61-160); only without a solver it has no aim           *)
(* (MissionProcessor.cpp:102, 305-320).                                    *)
AimsByTheTable ==
  LET States(file) == [file |-> file, query |-> config.query, result |-> ballistics] \in Reference
  IN  \/ changes = 0 /\ States(config.file)
      \/ changes > 0 /\ \E file \in DOMAIN Files : States(file)
      \/ changes > 0 /\ ballistics = [flightTime |-> 0, horizontalDistance |-> 0]
================================================================================
