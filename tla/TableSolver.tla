------------------------------ MODULE TableSolver ------------------------------
(***************************************************************************)
(* Class TableSolver: flight time and horizontal distance are read off a   *)
(* table over altitude, speed, mass, drag and lift, with interpolation.    *)
(* Tables and queries are such that every answer is a whole number.        *)
(***************************************************************************)
EXTENDS Integers, Sequences

Dimensions == 1 .. 5    (* Z0, V0, m, d, l                                 *)

Size(axes) == axes[1].size * axes[2].size * axes[3].size * axes[4].size * axes[5].size

(* A file has the axes and then the results.  What a file that is cut      *)
(* short leaves unread stays zero: the failure of load() is only logged.   *)
load(file) ==
  [axes |-> file.axes,
   data |-> [i \in 0 .. Size(file.axes) - 1 |->
               IF i < Len(file.results) THEN file.results[i + 1] ELSE [t |-> 0, hDist |-> 0]]]

(* Where the five coordinates of a cell are in the flat array.             *)
index_DragFirst(table, cell) ==   \* mutant: the last two axes are swapped
  LET n == [i \in Dimensions |-> table.axes[i].size]
  IN  (((cell[1] * n[2] + cell[2]) * n[3] + cell[3]) * n[5] + cell[5]) * n[4] + cell[4]

index(table, cell) ==
  LET n == [i \in Dimensions |-> table.axes[i].size]
  IN  (((cell[1] * n[2] + cell[2]) * n[3] + cell[3]) * n[4] + cell[4]) * n[5] + cell[5]

(* at(): nothing keeps the index inside the array; outside of it there is  *)
(* whatever the memory holds.                                              *)
at(table, cell, garbage) ==
  LET i == index(table, cell)
  IN  IF i \in DOMAIN table.data THEN table.data[i] ELSE garbage

(* std::lower_bound on an axis, counted from zero.                         *)
lower_bound(axis, val) == CHOOSE i \in 0 .. axis.size - 1 :
  /\ axis.entries[i + 1] >= val
  /\ \A j \in 0 .. i - 1 : axis.entries[j + 1] < val

(* The cell a value falls in and where in the cell, as a fraction.         *)
findInterp(val, axis) ==
  LET i     == lower_bound(axis, val) - 1
      front == axis.entries[1]
      back  == axis.entries[axis.size]
  IN  CASE val <= front -> [lo |-> 0, num |-> 0, den |-> 1]
        [] val > front /\ val >= back -> [lo |-> axis.size - 2, num |-> 1, den |-> 1]
        [] OTHER -> [lo  |-> i,
                     num |-> val - axis.entries[i + 1],
                     den |-> axis.entries[i + 2] - axis.entries[i + 1]]

(* a + (b - a) * frac, the division being left to the end of lookup().     *)
lerp(a, b, interp) == a * (interp.den - interp.num) + b * interp.num

(* One field of the result: the corners of the cell, folded along l first  *)
(* and along Z0 last, 32 -> 16 -> 8 -> 4 -> 2 -> 1.                        *)
Bits == UNION {[1 .. n -> {0, 1}] : n \in 0 .. 5}

lookup(table, query, garbage, field) ==
  LET interp == <<findInterp(query[1], table.axes[1]), findInterp(query[2], table.axes[2]),
                  findInterp(query[3], table.axes[3]), findInterp(query[4], table.axes[4]),
                  findInterp(query[5], table.axes[5])>>
      Folded[c \in Bits] ==
        IF Len(c) = 5 THEN at(table, [i \in Dimensions |-> interp[i].lo + c[i]], garbage)[field]
        ELSE lerp(Folded[Append(c, 0)], Folded[Append(c, 1)], interp[Len(c) + 1])
      den == [i \in Dimensions |-> interp[i].den]
  IN  Folded[<< >>] \div (den[1] * den[2] * den[3] * den[4] * den[5])

solve(table, altitude, speed, ammo, garbage) ==
  LET query == <<altitude, speed, ammo.mass, ammo.drag, ammo.lift>>
  IN  [flightTime         |-> lookup(table, query, garbage, "t"),
       horizontalDistance |-> lookup(table, query, garbage, "hDist")]
================================================================================
