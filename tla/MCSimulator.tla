------------------------------ MODULE MCSimulator ------------------------------
(***************************************************************************)
(* Two targets on a line.  Speed, acceleration path and hit radius are in  *)
(* the proportion of data/config/config-1-base.json, a step being 1/3 s.   *)
(* The tables have the axes of data/ballistics/ballistic_table.txt with    *)
(* fewer entries.                                                          *)
(***************************************************************************)
EXTENDS SimulatorProgram

Axis(entries) == [size |-> Len(entries), entries |-> entries]

Table(speeds, lifts, length) ==
  [axes    |-> <<Axis(<<60, 70, 80>>), Axis(speeds), Axis(<<2, 6>>), Axis(<<1, 5>>), Axis(lifts)>>,
   results |-> [k \in 1 .. length |-> [t     |-> 8 * (((k \div 2) + (k \div 5)) % 2),
                                       hDist |-> 8 * ((5 * k + (k \div 3) + 2) % 6)]]]

(* The speed on an entry, between two, and beyond; an axis of one entry; a *)
(* file cut short. *)
MCFiles ==
  [base      |-> Table(<<12, 20>>, <<0, 4>>, 48),
   between   |-> Table(<<8, 16>>, <<0, 4>>, 48),
   one_lift  |-> Table(<<4, 8>>, <<0>>, 24),
   cut_short |-> Table(<<4, 12>>, <<0, 4>>, 40)]

(* On the entries, below, between and beyond them, two coordinates at a    *)
(* time. *)
MCQueries ==
  {q \in {50, 70, 75, 90} \X {4, 6, 7} \X {1, 3, 6} \X {0, 2, 5} :
     Cardinality({i \in 1 .. 4 : q[i] # <<70, 6, 1, 0>>[i]}) <= 2}

MCGarbage == {[t |-> 0, hDist |-> 0], [t |-> 1000, hDist |-> -1000]}

(* What the mission starts with, and what another solver, with another     *)
(* table, may give it. *)
Config(answers, dir, radius, a, targets) ==
  [startPos |-> 0, initialDir |-> dir, hitRadius |-> radius, targetCount |-> 2, targets |-> targets,
   file |-> a.file, query |-> a.query, ballistics |-> a.result,
   others |-> {b.result : b \in {b \in answers : b.query = a.query /\ b.file \in {"one_lift", "cut_short"}}}]

(* Ammunition of the base table, one for each of these distances. *)
Some(answers, distances) ==
  {CHOOSE a \in answers : a.file = "base" /\ a.result.horizontalDistance = d : d \in distances}

AtRestAt(p) == [i \in 0 .. 1 |-> [s \in 0 .. 2 |-> p[i]]]

(* At rest: near and far, on either side, right below the drone. *)
StaticConfigs(answers) ==
  {Config(answers, dir, radius, a, AtRestAt(p)) :
     dir \in Direction, radius \in {0, 12}, a \in Some(answers, {0, 8, 40}),
     p \in [0 .. 1 -> {-110, 0, 72}]}

(* On the move: the ways one sample of three can differ. *)
MovingConfigs(answers) ==
  {Config(answers, dir, 12, a, [i \in 0 .. 1 |-> [s \in 0 .. 2 |-> 50 * p[i] + IF s = q[i] THEN 16 ELSE 0]]) :
     dir \in Direction, a \in Some(answers, {40}), p \in [0 .. 1 -> {-2, 1}], q \in [0 .. 1 -> 0 .. 2]}

(* Every table with every ammunition, and no other solver. *)
TableConfigs(answers) ==
  {[Config(answers, 1, 12, a, AtRestAt([i \in 0 .. 1 |-> 72 - 123 * i])) EXCEPT !.others = {}] : a \in answers}

MCConfigs ==
  UNION {StaticConfigs(answers) \cup MovingConfigs(answers) \cup TableConfigs(answers) : answers \in {Answers}}
================================================================================
