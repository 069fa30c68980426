----------------------------- MODULE Odometry_proofs -----------------------------
(***************************************************************************)
(* For every log, however long: a vehicle that has come back the way it    *)
(* went is reported where it was, and the heading depends on the first and *)
(* the last reading only.                                                  *)
(***************************************************************************)
EXTENDS OdometryProperties, SequenceTheorems, WellFoundedInduction, TLAPS

(* A position is a formal sum over finitely many or many headings. *)
Position == UNION {[D -> Int] : D \in SUBSET Int}
Pose     == [theta : Int, position : Position]

(* Every pose is reached from the one before by the move between their     *)
(* readings; the first is that of the start.                               *)
Chained ==
  /\ poses # << >> => poses[1] = AtStart
  /\ \A i \in 1 .. Len(poses) - 1 : poses[i + 1] = Moved(poses[i], readings[i], readings[i + 1])

IInv ==
  /\ readings \in Seq(Ticks) /\ poses \in Seq(Pose) /\ Len(poses) = Len(readings)
  /\ phase \in {"opening", "starting"} => readings = << >> /\ pose = AtStart
  /\ phase = "reading" =>
       readings # << >> /\ prev = readings[Len(readings)] /\ pose = poses[Len(poses)]
  /\ Chained

-------------------------------------------------------------------------------
(* One move. *)

(* What lies along a heading is a number. *)
LEMMA AlongType ==
  ASSUME NEW pos \in Position, NEW h \in Int
  PROVE  Along(pos, h) \in Int
<1>1. PICK D \in SUBSET Int : pos \in [D -> Int]
  BY DEF Position
<1>2. QED  BY <1>1 DEF Along

(* An advance adds to the one heading and leaves the others alone. *)
LEMMA AdvanceAdds ==
  ASSUME NEW pos \in Position, NEW g \in Int, NEW d \in Int
  PROVE  /\ Advance(pos, g, d) \in Position
         /\ \A h \in Int : Along(Advance(pos, g, d), h) = Along(pos, h) + (IF h = g THEN d ELSE 0)
<1>1. PICK D \in SUBSET Int : pos \in [D -> Int]
  BY DEF Position
<1>2. DOMAIN pos = D
  BY <1>1
<1>3. Advance(pos, g, d) = [h \in D \cup {g} |-> Along(pos, h) + (IF h = g THEN d ELSE 0)]
  BY <1>2 DEF Advance
<1>4. \A h \in D \cup {g} : Along(pos, h) + (IF h = g THEN d ELSE 0) \in Int
  BY AlongType
<1>5. Advance(pos, g, d) \in [D \cup {g} -> Int]
  BY <1>3, <1>4
<1>6. D \cup {g} \in SUBSET Int
  BY <1>1
<1>7. Advance(pos, g, d) \in Position
  BY <1>5, <1>6 DEF Position
<1>8. ASSUME NEW h \in Int
      PROVE  Along(Advance(pos, g, d), h) = Along(pos, h) + (IF h = g THEN d ELSE 0)
  <2>1. CASE h \in D \cup {g}
    BY <2>1, <1>3 DEF Along
  <2>2. CASE h \notin D \cup {g}
    <3>1. Along(Advance(pos, g, d), h) = 0 /\ Along(pos, h) = 0
      BY <2>2, <1>2, <1>3 DEF Along
    <3>2. QED  BY <2>2, <3>1
  <2>3. QED  BY <2>1, <2>2
<1>9. QED  BY <1>7, <1>8

(* Distances and turns are numbers, and turns add up whatever lies between. *)
LEMMA TurnsAddUp ==
  ASSUME NEW a \in Ticks, NEW b \in Ticks, NEW c \in Ticks
  PROVE  /\ Turn(a, b) \in Int /\ Distance(a, b) \in Int /\ Turn(a, b) \div 2 \in Int
         /\ Turn(a, c) = Turn(a, b) + Turn(b, c)
         /\ Turn(a, a) = 0 /\ Distance(a, a) = 0
<1>1. /\ a.fl \in Int /\ a.fr \in Int /\ a.bl \in Int /\ a.br \in Int
      /\ b.fl \in Int /\ b.fr \in Int /\ b.bl \in Int /\ b.br \in Int
      /\ c.fl \in Int /\ c.fr \in Int /\ c.bl \in Int /\ c.br \in Int
  BY DEF Ticks
<1>2. Turn(a, b) \in Int /\ Distance(a, b) \in Int
  BY <1>1 DEF Turn, Distance
<1>3. Turn(a, b) \div 2 \in Int
  BY <1>2
<1>4. Turn(a, c) = Turn(a, b) + Turn(b, c) /\ Turn(a, a) = 0 /\ Distance(a, a) = 0
  BY <1>1 DEF Turn, Distance
<1>5. QED  BY <1>2, <1>3, <1>4

(* A step back is as long as the step out, the other way along the same    *)
(* heading: the middle of the turn is the middle of the turn back.         *)
LEMMA StepBack ==
  ASSUME NEW a \in Ticks, NEW b \in Ticks, NEW before \in Int
  PROVE  /\ before + Turn(a, b) + Turn(b, a) = before
         /\ before + Turn(a, b) + Turn(b, a) \div 2 = before + Turn(a, b) \div 2
         /\ Distance(b, a) = - Distance(a, b)
<1> DEFINE half == (b.fr - a.fr) + (b.br - a.br) - (b.fl - a.fl) - (b.bl - a.bl)
<1>1. /\ a.fl \in Int /\ a.fr \in Int /\ a.bl \in Int /\ a.br \in Int
      /\ b.fl \in Int /\ b.fr \in Int /\ b.bl \in Int /\ b.br \in Int
  BY DEF Ticks
<1>2. half \in Int
  BY <1>1
<1>3. Turn(a, b) = 2 * half /\ Turn(b, a) = 2 * (- half)
  BY <1>1 DEF Turn
<1>4. Distance(b, a) = - Distance(a, b)
  BY <1>1 DEF Distance
<1> HIDE DEF half
<1>5. Turn(a, b) \div 2 = half /\ Turn(b, a) \div 2 = - half
  BY <1>2, <1>3
<1>6. QED  BY <1>2, <1>3, <1>4, <1>5

(* A move yields a pose, the heading turned and the distance added.        *)
LEMMA MoveAdds ==
  ASSUME NEW p \in Pose, NEW a \in Ticks, NEW b \in Ticks
  PROVE  /\ Moved(p, a, b) \in Pose
         /\ Moved(p, a, b).theta = p.theta + Turn(a, b)
         /\ \A h \in Int : Along(Moved(p, a, b).position, h) =
              Along(p.position, h)
                + (IF h = p.theta + Turn(a, b) \div 2 THEN Distance(a, b) ELSE 0)
<1>1. p.theta \in Int /\ p.position \in Position
  BY DEF Pose
<1>2. Turn(a, b) \in Int /\ Distance(a, b) \in Int /\ Turn(a, b) \div 2 \in Int
  BY TurnsAddUp
<1> DEFINE g   == p.theta + Turn(a, b) \div 2
           pos == Advance(p.position, g, Distance(a, b))
<1>3. g \in Int /\ p.theta + Turn(a, b) \in Int
  BY <1>1, <1>2
<1>4. Moved(p, a, b) = [theta |-> p.theta + Turn(a, b), position |-> pos]
  BY DEF Moved
<1> HIDE DEF g
<1>5. pos \in Position /\ \A h \in Int : Along(pos, h) = Along(p.position, h) + (IF h = g THEN Distance(a, b) ELSE 0)
  BY <1>1, <1>2, <1>3, AdvanceAdds
<1> HIDE DEF pos
<1>6. Moved(p, a, b).theta = p.theta + Turn(a, b) /\ Moved(p, a, b).position = pos
  BY <1>4
<1>7. Moved(p, a, b) \in Pose
  BY <1>3, <1>4, <1>5 DEF Pose
<1>8. QED  BY <1>5, <1>6, <1>7 DEF g

-------------------------------------------------------------------------------
(* Poses that cannot be told apart, all headings considered. *)
Same(p, q) == p.theta = q.theta /\ \A h \in Int : Along(p.position, h) = Along(q.position, h)

(* The way there and back: from p over a move, something that ends where   *)
(* it began, and the move back.                                            *)
LEMMA ThereAndBack ==
  ASSUME NEW p \in Pose, NEW q \in Pose, NEW a \in Ticks, NEW b \in Ticks,
         Same(Moved(p, a, b), q)
  PROVE  Same(p, Moved(q, b, a))
<1>1. /\ p.theta \in Int /\ p.position \in Position
      /\ q.theta \in Int /\ q.position \in Position
  BY DEF Pose
<1>2. q.theta = p.theta + Turn(a, b)
  BY MoveAdds DEF Same
<1>3. /\ p.theta + Turn(a, b) + Turn(b, a) = p.theta
      /\ p.theta + Turn(a, b) + Turn(b, a) \div 2 = p.theta + Turn(a, b) \div 2
      /\ Distance(b, a) = - Distance(a, b)
  BY <1>1, StepBack
<1>4. Moved(q, b, a).theta = p.theta
  BY <1>2, <1>3, MoveAdds
<1>5. ASSUME NEW h \in Int
      PROVE  Along(p.position, h) = Along(Moved(q, b, a).position, h)
  <2> DEFINE g == p.theta + Turn(a, b) \div 2
  <2>1. Along(q.position, h) = Along(p.position, h) + (IF h = g THEN Distance(a, b) ELSE 0)
    BY MoveAdds DEF Same
  <2>2. q.theta + Turn(b, a) \div 2 = g
    BY <1>2, <1>3
  <2>3. Along(Moved(q, b, a).position, h) =
          Along(q.position, h) + (IF h = g THEN Distance(b, a) ELSE 0)
    BY <2>2, MoveAdds
  <2>4. Along(p.position, h) \in Int /\ Distance(a, b) \in Int
    BY <1>1, AlongType, TurnsAddUp
  <2> HIDE DEF g
  <2>5. QED  BY <1>3, <2>1, <2>3, <2>4
<1>6. QED  BY <1>4, <1>5 DEF Same

(* A vehicle that stands still stays where it is. *)
LEMMA StandingStill ==
  ASSUME NEW p \in Pose, NEW a \in Ticks
  PROVE  Same(p, Moved(p, a, a))
<1>1. p.theta \in Int /\ p.position \in Position /\ Turn(a, a) = 0 /\ Distance(a, a) = 0
  BY TurnsAddUp DEF Pose
<1>2. Moved(p, a, a).theta = p.theta
  BY <1>1, MoveAdds
<1>3. ASSUME NEW h \in Int  PROVE Along(p.position, h) = Along(Moved(p, a, a).position, h)
  <2>1. Along(p.position, h) \in Int
    BY <1>1, AlongType
  <2>2. Along(Moved(p, a, a).position, h) =
          Along(p.position, h)
            + (IF h = p.theta + Turn(a, a) \div 2 THEN Distance(a, a) ELSE 0)
    BY MoveAdds
  <2>3. QED  BY <1>1, <2>1, <2>2
<1>4. QED  BY <1>2, <1>3 DEF Same

(* A non-empty set of numbers has a least one. *)
LEMMA Least ==
  ASSUME NEW T, T \subseteq Nat, T # {}
  PROVE  \E j \in T : \A k \in T : j <= k
<1>1. PICK j \in T : \A k \in T : ~ (<<k, j>> \in OpToRel(<, Nat))
  BY WFMin, NatLessThanWellFounded
<1>2. OpToRel(<, Nat) = {ss \in Nat \X Nat : ss[1] < ss[2]}
  BY DEF OpToRel
<1>3. ASSUME NEW k \in T  PROVE j <= k
  <2>1. ~ (<<k, j>> \in {ss \in Nat \X Nat : ss[1] < ss[2]})
    BY <1>1, <1>2
  <2>2. QED  BY <2>1
<1>4. QED  BY <1>3

-------------------------------------------------------------------------------
(* The invariant holds at the start. *)
LEMMA InitIInv == Init => IInv
BY DEF Init, IInv, Chained

(* The pose at the start is a pose. *)
LEMMA StartIsPose == AtStart \in Pose
<1>1. << >> \in [{} -> Int]
  OBVIOUS
<1>2. << >> \in Position
  BY <1>1 DEF Position
<1>3. QED  BY <1>2 DEF AtStart, Pose

(* A first reading. *)
LEMMA FirstKeeps ==
  ASSUME IInv, NEW r \in Readings, FirstReading(r)
  PROVE  IInv'
<1>1. r \in Ticks
  BY OdometryAssumption
<1>2. /\ phase' = "reading" /\ prev' = r /\ readings' = << r >>
      /\ poses' = << AtStart >> /\ pose' = AtStart
  BY DEF IInv, FirstReading
<1>3. /\ readings' \in Seq(Ticks) /\ readings' # << >> /\ Len(readings') = 1 /\ readings'[1] = r
      /\ poses' \in Seq(Pose) /\ Len(poses') = 1 /\ poses'[1] = AtStart
  BY <1>1, <1>2, StartIsPose
<1>4. Chained'
  BY <1>3 DEF Chained
<1>5. QED  BY <1>2, <1>3, <1>4 DEF IInv

(* One more reading. *)
LEMMA NextKeeps ==
  ASSUME IInv, NEW r \in Readings, NextReading(r)
  PROVE  IInv'
<1> DEFINE n == Len(readings)
<1>1. r \in Ticks
  BY OdometryAssumption
<1>2. /\ phase = "reading" /\ phase' = "reading" /\ prev' = r
      /\ readings' = Append(readings, r)
      /\ pose' = Moved(pose, prev, r) /\ poses' = Append(poses, Moved(pose, prev, r))
  BY DEF NextReading
<1>3. /\ readings \in Seq(Ticks) /\ poses \in Seq(Pose) /\ Len(poses) = n
      /\ readings # << >> /\ prev = readings[n] /\ pose = poses[n] /\ n \in Nat \ {0}
  BY <1>2 DEF IInv
<1>4. prev \in Ticks /\ pose \in Pose
  BY <1>3
<1>5. Moved(pose, prev, r) \in Pose
  BY <1>1, <1>4, MoveAdds
<1>6. /\ readings' \in Seq(Ticks) /\ Len(readings') = n + 1 /\ readings' # << >>
      /\ readings'[n + 1] = r /\ \A i \in 1 .. n : readings'[i] = readings[i]
  BY <1>1, <1>2, <1>3
<1>7. /\ poses' \in Seq(Pose) /\ Len(poses') = n + 1 /\ poses' # << >>
      /\ poses'[n + 1] = Moved(pose, prev, r) /\ \A i \in 1 .. n : poses'[i] = poses[i]
  BY <1>2, <1>3, <1>5
<1>8. Chained'
  <2>1. poses'[1] = AtStart
    BY <1>3, <1>7 DEF IInv, Chained
  <2>2. ASSUME NEW i \in 1 .. n
        PROVE  poses'[i + 1] = Moved(poses'[i], readings'[i], readings'[i + 1])
    <3>1. CASE i = n
      BY <3>1, <1>3, <1>6, <1>7
    <3>2. CASE i < n
      <4>1. i \in 1 .. Len(poses) - 1 /\ i + 1 \in 1 .. n
        BY <3>2, <1>3
      <4>2. poses[i + 1] = Moved(poses[i], readings[i], readings[i + 1])
        BY <4>1 DEF IInv, Chained
      <4>3. QED  BY <4>1, <4>2, <1>6, <1>7
    <3>3. QED  BY <3>1, <3>2, <1>3
  <2>3. Len(poses') - 1 = n
    BY <1>3, <1>7
  <2>4. QED  BY <2>1, <2>2, <2>3 DEF Chained
<1>9. QED  BY <1>2, <1>6, <1>7, <1>8 DEF IInv

(* Every step keeps the invariant. *)
LEMMA NextIInv == IInv /\ [Next]_vars => IInv'
<1> SUFFICES ASSUME IInv, [Next]_vars  PROVE IInv'
  OBVIOUS
<1>1. CASE CannotOpen \/ InvalidFormat \/ EndOfReadings
  BY <1>1 DEF IInv, Chained, CannotOpen, InvalidFormat, EndOfReadings, Exit
<1>2. CASE Open
  BY <1>2 DEF IInv, Chained, Open
<1>3. CASE \E r \in Readings : FirstReading(r) \/ NextReading(r)
  BY <1>3, FirstKeeps, NextKeeps
<1>4. CASE UNCHANGED vars
  BY <1>4 DEF IInv, Chained, vars
<1>5. QED  BY <1>1, <1>2, <1>3, <1>4 DEF Next

-------------------------------------------------------------------------------
(* What the invariant implies. *)

(* The readings and the poses, one for one. *)
LEMMA OneForOne ==
  ASSUME IInv
  PROVE  /\ Len(readings) \in Nat
         /\ \A i \in 1 .. Len(readings) : readings[i] \in Ticks /\ poses[i] \in Pose
         /\ \A i \in 1 .. Len(readings) - 1 :
              poses[i + 1] = Moved(poses[i], readings[i], readings[i + 1])
BY DEF IInv, Chained

(* The heading, from one reading to the next. *)
LEMMA HeadingFollows == IInv => HeadingTelescopes
<1> SUFFICES ASSUME IInv  PROVE HeadingTelescopes
  OBVIOUS
<1> DEFINE n   == Len(readings)
           Off == {i \in 1 .. n : poses[i].theta # Turn(readings[1], readings[i])}
<1>1. n \in Nat /\ Off \subseteq Nat /\ DOMAIN poses = 1 .. n
  BY OneForOne DEF IInv
<1>2. ASSUME Off # {}  PROVE FALSE
  <2>1. PICK i \in Off : \A k \in Off : i <= k
    BY <1>1, <1>2, Least
  <2>2. i \in 1 .. n /\ poses[i].theta # Turn(readings[1], readings[i])
    BY <2>1
  <2>3. CASE i = 1
    <3>1. poses[1].theta = 0
      <4>1. poses # << >>
        BY <2>2, <2>3, <1>1 DEF IInv
      <4>2. QED  BY <4>1 DEF IInv, Chained, AtStart
    <3>2. Turn(readings[1], readings[1]) = 0
      BY <2>2, <2>3, OneForOne, TurnsAddUp
    <3>3. QED  BY <2>2, <2>3, <3>1, <3>2
  <2>4. CASE i # 1
    <3> DEFINE m == i - 1
    <3>1. m \in 1 .. n - 1 /\ m \in 1 .. n /\ i = m + 1 /\ 1 \in 1 .. n
      BY <2>2, <2>4, <1>1
    <3>2. m \notin Off
      BY <2>1, <3>1
    <3>3. poses[m].theta = Turn(readings[1], readings[m])
      BY <3>1, <3>2
    <3>4. poses[i] = Moved(poses[m], readings[m], readings[i])
      BY <3>1, OneForOne
    <3>5. /\ readings[1] \in Ticks /\ readings[m] \in Ticks /\ readings[i] \in Ticks
          /\ poses[m] \in Pose
      BY <3>1, <2>2, OneForOne
    <3>6. poses[i].theta = poses[m].theta + Turn(readings[m], readings[i])
      <4>1. Moved(poses[m], readings[m], readings[i]).theta =
              poses[m].theta + Turn(readings[m], readings[i])
        BY <3>5, MoveAdds
      <4>2. QED  BY <3>4, <4>1
    <3>7. Turn(readings[1], readings[i]) =
            Turn(readings[1], readings[m]) + Turn(readings[m], readings[i])
      BY <3>5, TurnsAddUp
    <3>8. QED  BY <2>2, <3>3, <3>6, <3>7
  <2>5. QED  BY <2>3, <2>4
<1>3. \A i \in 1 .. n : poses[i].theta = Turn(readings[1], readings[i])
  BY <1>2
<1>4. QED  BY <1>1, <1>3 DEF HeadingTelescopes

(* A stretch that was retraced ends where it began: from its middle        *)
(* outwards, because what lies within it was retraced as well.             *)
LEMMA RetracedEndsWhereItBegan ==
  ASSUME IInv, NEW i \in 1 .. Len(readings), NEW j \in 1 .. Len(readings),
         i <= j, Retraced(i, j)
  PROVE  Same(poses[i], poses[j])
<1> DEFINE n == Len(readings)
           Astray(d) == \E f \in 1 .. n : \E t \in 1 .. n :
                          /\ t = f + d /\ Retraced(f, t)
                          /\ ~ Same(poses[f], poses[t])
           Bad == {d \in Nat : Astray(d)}
<1>1. n \in Nat
  BY OneForOne
<1>2. ASSUME Bad # {}  PROVE FALSE
  <2>1. PICK d \in Bad : \A k \in Bad : d <= k
    BY <1>2, Least
  <2>2. PICK f \in 1 .. n, t \in 1 .. n :
          t = f + d /\ Retraced(f, t) /\ ~ Same(poses[f], poses[t])
    BY <2>1
  <2>3. d \in Nat /\ d = t - f /\ f <= t
    BY <2>1, <2>2
  <2>4. readings[f] = readings[t]
    <3>1. 0 \in 0 .. t - f
      BY <2>3
    <3>2. readings[f + 0] = readings[t - 0]
      BY <2>2, <3>1 DEF Retraced
    <3>3. QED  BY <3>2
  <2>5. CASE d = 0
    <3>1. f = t
      BY <2>3, <2>5
    <3>2. Same(poses[f], poses[t])
      BY <3>1 DEF Same
    <3>3. QED  BY <2>2, <3>2
  <2>6. CASE d = 1
    <3>1. f \in 1 .. n - 1 /\ t = f + 1
      BY <2>2, <2>6, <1>1
    <3>2. poses[t] = Moved(poses[f], readings[f], readings[f])
      BY <3>1, <2>4, OneForOne
    <3>3. Same(poses[f], poses[t])
      BY <3>2, OneForOne, StandingStill
    <3>4. QED  BY <2>2, <3>3
  <2>7. CASE d >= 2
    <3> DEFINE g == f + 1
               s == t - 1
    <3>1. /\ f \in 1 .. n - 1 /\ s \in 1 .. n - 1 /\ t = s + 1
          /\ g \in 1 .. n /\ s \in 1 .. n /\ s = g + (d - 2)
          /\ d - 2 \in Nat /\ s - g = d - 2
      BY <2>2, <2>3, <2>7, <1>1
    <3>2. Retraced(g, s)
      <4>1. ASSUME NEW k \in 0 .. s - g  PROVE readings[g + k] = readings[s - k]
        <5>1. k + 1 \in 0 .. t - f
          BY <2>3, <3>1
        <5>2. readings[f + (k + 1)] = readings[t - (k + 1)]
          BY <2>2, <5>1 DEF Retraced
        <5>3. f + (k + 1) = g + k /\ t - (k + 1) = s - k
          BY <2>2
        <5>4. QED  BY <5>2, <5>3
      <4>2. QED  BY <4>1 DEF Retraced
    <3>3. d - 2 \notin Bad
      <4>1. d - 2 \in Bad => d <= d - 2
        BY <2>1
      <4>2. ~ (d <= d - 2)
        BY <2>3
      <4>3. QED  BY <4>1, <4>2
    <3>4. Same(poses[g], poses[s])
      BY <3>1, <3>2, <3>3
    <3>5. readings[g] = readings[s]
      <4>1. 1 \in 0 .. t - f
        BY <2>3, <2>7
      <4>2. QED  BY <2>2, <4>1 DEF Retraced
    <3>6. /\ poses[g] = Moved(poses[f], readings[f], readings[g])
          /\ poses[t] = Moved(poses[s], readings[g], readings[f])
      BY <3>1, <3>5, <2>4, OneForOne
    <3>7. /\ poses[f] \in Pose /\ poses[s] \in Pose
          /\ readings[f] \in Ticks /\ readings[g] \in Ticks
      BY <3>1, <2>2, OneForOne
    <3>8. Same(Moved(poses[f], readings[f], readings[g]), poses[s])
      BY <3>4, <3>6
    <3>9. Same(poses[f], Moved(poses[s], readings[g], readings[f]))
      BY <3>7, <3>8, ThereAndBack
    <3>10. QED  BY <2>2, <3>6, <3>9
  <2>8. QED  BY <2>3, <2>5, <2>6, <2>7
<1>3. j - i \in Nat /\ j = i + (j - i)
  BY <1>1
<1>4. ASSUME ~ Same(poses[i], poses[j])  PROVE FALSE
  <2>1. Astray(j - i)
    BY <1>3, <1>4
  <2>2. QED  BY <1>2, <1>3, <2>1
<1>5. QED  BY <1>4

(* Both together. *)
LEMMA TruePose == IInv => PoseIsTrue
<1> SUFFICES ASSUME IInv  PROVE PoseIsTrue
  OBVIOUS
<1>1. HeadingTelescopes
  BY HeadingFollows
<1>2. DOMAIN readings = 1 .. Len(readings)
  BY DEF IInv
<1>3. ASSUME NEW i \in DOMAIN readings, NEW j \in DOMAIN readings, i <= j, Retraced(i, j)
      PROVE  SamePose(poses[i], poses[j])
  <2>1. Same(poses[i], poses[j]) /\ poses[i] \in Pose /\ poses[j] \in Pose
    BY <1>2, <1>3, RetracedEndsWhereItBegan, OneForOne
  <2>2. poses[i].position \in Position /\ poses[j].position \in Position
    BY <2>1 DEF Pose
  <2>3. DOMAIN poses[i].position \subseteq Int /\ DOMAIN poses[j].position \subseteq Int
    BY <2>2 DEF Position
  <2>4. QED  BY <2>1, <2>3 DEF Same, SamePose
<1>4. QED  BY <1>1, <1>3 DEF PoseIsTrue

-------------------------------------------------------------------------------
(* The inductive invariant. *)
THEOREM Invariance == Spec => []IInv
<1>1. Init => IInv
  BY InitIInv
<1>2. IInv /\ [Next]_vars => IInv'
  BY NextIInv
<1>3. QED  BY <1>1, <1>2, PTL DEF Spec

(* However long the way: a vehicle that has come back the way it went is   *)
(* reported where it was, and the heading is that of the first and the     *)
(* last reading (main.cpp:63-89).                                          *)
THEOREM PoseIsAlwaysTrue == Spec => []PoseIsTrue
<1>1. IInv => PoseIsTrue
  BY TruePose
<1>2. QED  BY <1>1, Invariance, PTL
================================================================================
