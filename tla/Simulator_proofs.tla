----------------------------- MODULE Simulator_proofs -----------------------------
(***************************************************************************)
(* Theorems about the simulator, for every configuration that flies, every *)
(* number of targets, moving or not: its flags agree, its lock is kept, a  *)
(* mission flown again drops the same, what is dropped in level flight on  *)
(* a target at rest hits it, and a mission aims by the interpolation of a  *)
(* table.                                                                  *)
(***************************************************************************)
EXTENDS SimulatorProgram, FiniteSetTheorems, SequenceTheorems, WellFoundedInduction, TLAPS

(* Quotients and remainders by a positive number. *)
LEMMA Division ==
  ASSUME NEW x \in Int, NEW y \in Nat \ {0}
  PROVE  x \div y \in Int /\ y * (x \div y) <= x /\ x % y \in 0 .. y - 1
  OBVIOUS

LEMMA DistanceType == \A a, b \in Int : Distance(a, b) \in Nat
  BY DEF Distance

LEMMA DirectionType == \A a, b : DirectionTo(a, b) \in Direction
  BY DEF DirectionTo, Direction

(* A product with a direction.                                             *)
LEMMA Directed == \A d \in Direction, x \in Int : d * x \in Int
  BY DEF Direction

(* The floor of a square root is a number (TargetAnalyzer.cpp:91-93).      *)
LEMMA RootType == \A x \in 0 .. attackSpeed * attackSpeed : SquareRoot[x] \in Nat
<1>. SUFFICES ASSUME NEW x \in 0 .. attackSpeed * attackSpeed PROVE SquareRoot[x] \in Nat
  OBVIOUS
<1>. DEFINE S == {r \in 1 .. 100 * attackSpeed : r * r <= 10000 * x}
<1>1. SquareRoot[x] = Cardinality(S)
  BY DEF SquareRoot
<1>2. IsFiniteSet(1 .. 100 * attackSpeed)
  <2>1. 100 * attackSpeed \in Int
    BY ConfigAssumption
  <2>. QED  BY <2>1, FS_Interval
<1>3. IsFiniteSet(S)
  <2>1. S \in SUBSET (1 .. 100 * attackSpeed)
    OBVIOUS
  <2>. HIDE DEF S
  <2>. QED  BY <1>2, <2>1, FS_Subset
<1>. HIDE DEF S
<1>. QED  BY <1>1, <1>3, FS_CardinalityType

(* Estimates are numbers (TargetAnalyzer.cpp:68-96).                       *)
LEMMA TravelTimeType ==
  ASSUME NEW d \in Nat, NEW v \in 0 .. attackSpeed
  PROVE  estimateTravelTime(v)[d] \in Int
<1>. DEFINE missing == attackSpeed * attackSpeed - v * v
            full == missing \div (2 * acceleration)
<1>. USE ConfigAssumption
<1>1. /\ v * v \in Nat /\ attackSpeed * attackSpeed \in Nat
      /\ missing \in Int /\ 2 * acceleration \in Nat \ {0}
  OBVIOUS
<1>. HIDE DEF missing
<1>2. full \in Int /\ (2 * acceleration) * full <= missing
  BY <1>1, Division
<1>. HIDE DEF full
<1>3. ASSUME d <= full PROVE v * v + 2 * acceleration * d \in 0 .. attackSpeed * attackSpeed
  <2>1. (2 * acceleration) * d <= (2 * acceleration) * full /\ (2 * acceleration) * d \in Nat
    BY <1>1, <1>2, <1>3
  <2>2. (2 * acceleration) * d <= missing
    BY <2>1, <1>1, <1>2
  <2>. QED  BY <2>1, <2>2, <1>1 DEF missing
<1>4. ASSUME d <= full
      PROVE  (SquareRoot[v * v + 2 * acceleration * d] - 100 * v) \div acceleration \in Int
  <2>1. SquareRoot[v * v + 2 * acceleration * d] \in Nat
    BY <1>3, <1>4, RootType
  <2>2. SquareRoot[v * v + 2 * acceleration * d] - 100 * v \in Int
    BY <2>1
  <2>. QED  BY <2>2, Division
<1>5. (100 * (attackSpeed - v)) \div acceleration + (100 * (d - full)) \div attackSpeed \in Int
  BY <1>2, Division
<1>6. estimateTravelTime(v)[d] =
        IF d = 0 THEN 0
        ELSE IF d <= full THEN (SquareRoot[v * v + 2 * acceleration * d] - 100 * v) \div acceleration
        ELSE (100 * (attackSpeed - v)) \div acceleration + (100 * (d - full)) \div attackSpeed
  BY Zenon DEF estimateTravelTime, full, missing
<1>. QED  BY <1>4, <1>5, <1>6

LEMMA StopTimeType == \A v \in Nat : StopTime(v) \in Int
  BY Division, ConfigAssumption DEF StopTime

(* A move takes a leg to a leg (TargetAnalyzer.cpp:98-136).                *)
LEMMA MoveType ==
  ASSUME NEW goal \in Int, NEW m \in Leg
  PROVE  estimateTimeToCompleteMove(goal)[m] \in Leg
<1>. DEFINE dir == DirectionTo(m.position, goal)
            far == Distance(m.position, goal)
            needed == IF m.dir # dir THEN StopTime(m.speed) + HalfTurn + estimateTravelTime(0)[far]
                                     ELSE estimateTravelTime(m.speed)[far]
<1>1. /\ m.time \in Int /\ m.speed \in 0 .. attackSpeed /\ m.speed \in Nat
      /\ m.position \in Int /\ attackSpeed \in Nat
  BY ConfigAssumption DEF Leg
<1>2. dir \in Direction /\ far \in Nat
  BY <1>1, DistanceType, DirectionType
<1>. HIDE DEF dir, far
<1>3. needed \in Int
  <2>1. estimateTravelTime(m.speed)[far] \in Int
    BY <1>1, <1>2, TravelTimeType
  <2>2. estimateTravelTime(0)[far] \in Int
    BY <1>1, <1>2, TravelTimeType
  <2>3. StopTime(m.speed) \in Int
    BY <1>1, StopTimeType
  <2>. QED  BY <2>1, <2>2, <2>3, ConfigAssumption
<1>4. estimateTimeToCompleteMove(goal)[m] =
        IF m.position = goal THEN m
        ELSE [time |-> m.time + needed, speed |-> attackSpeed, dir |-> dir, position |-> goal]
  BY Zenon DEF estimateTimeToCompleteMove, dir, far
<1>. HIDE DEF needed
<1>. QED  BY <1>1, <1>2, <1>3, <1>4 DEF Leg

(* What an evaluation looks at in a drone.                                 *)
LEMMA BeforeType ==
  ASSUME NEW d \in Drone, NEW i
  PROVE  BeforeTheMove(d, i) \in Leg
<1>1. /\ d.position \in Int /\ d.currentSpeed \in 0 .. attackSpeed /\ d.currentSpeed \in Nat
      /\ d.currentDir \in Direction /\ d.turnTargetDir \in Direction
      /\ d.turnRemainingTime \in Int
  BY ConfigAssumption DEF Drone
<1>2. 0 \in 0 .. attackSpeed /\ StopTime(d.currentSpeed) \in Int
  BY <1>1, StopTimeType, ConfigAssumption
<1>3. (d.currentSpeed * d.currentSpeed) \div (2 * acceleration) \in Int
  <2>1. d.currentSpeed * d.currentSpeed \in Int /\ 2 * acceleration \in Nat \ {0}
    BY <1>1, ConfigAssumption
  <2>. QED  BY <2>1, Division
<1>4. d.position + d.currentDir * ((d.currentSpeed * d.currentSpeed) \div (2 * acceleration)) \in Int
  <2>1. d.currentDir * ((d.currentSpeed * d.currentSpeed) \div (2 * acceleration)) \in Int
    BY <1>1, <1>3, Directed
  <2>. QED  BY <2>1, <1>1
<1>. DEFINE begins  == [time |-> 0, speed |-> d.currentSpeed, dir |-> d.currentDir, position |-> d.position]
            turned  == [begins EXCEPT !.time = d.turnRemainingTime, !.speed = 0, !.dir = d.turnTargetDir]
            stopped == [begins EXCEPT !.time = StopTime(d.currentSpeed), !.speed = 0,
                          !.position = @ + d.currentDir * ((d.currentSpeed * d.currentSpeed)
                                                             \div (2 * acceleration))]
<1>5. BeforeTheMove(d, i) \in {begins, turned, stopped}
  BY Zenon DEF BeforeTheMove
<1>6. begins \in Leg /\ begins.position = d.position
  BY <1>1 DEF Leg
<1>. HIDE DEF begins
<1>7. turned \in Leg
  BY <1>1, <1>2, <1>6 DEF Leg
<1>8. stopped \in Leg
  BY <1>1, <1>2, <1>4, <1>6 DEF Leg
<1>. HIDE DEF turned, stopped
<1>. QED  BY <1>5, <1>6, <1>7, <1>8

LEMMA PathTimeType ==
  ASSUME NEW d \in Drone, NEW i, NEW path \in Path
  PROVE  estimateTimeToTargetPath(d, i, path) \in Int
<1>. DEFINE start == BeforeTheMove(d, i)
            approach == IF path.needManeuver THEN estimateTimeToCompleteMove(path.maneuverPoint)[start]
                                             ELSE start
<1>1. path.maneuverPoint \in Int /\ path.dropPoint \in Int
  BY DEF Path
<1>2. start \in Leg
  BY BeforeType
<1>. HIDE DEF start
<1>3. approach \in Leg
  BY <1>1, <1>2, MoveType
<1>. HIDE DEF approach
<1>4. estimateTimeToCompleteMove(path.dropPoint)[approach] \in Leg
  BY <1>1, <1>3, MoveType
<1>5. estimateTimeToTargetPath(d, i, path) = estimateTimeToCompleteMove(path.dropPoint)[approach].time
  BY DEF estimateTimeToTargetPath, approach, start
<1>. QED  BY <1>4, <1>5 DEF Leg

(* Drop point and manoeuvre point are points, and the drop point lies as   *)
(* far from the target as asked for (TargetAnalyzer.cpp:203-227).          *)
LEMMA DropPointType ==
  ASSUME NEW drone1 \in Int, NEW h \in Nat, NEW target \in Int
  PROVE  /\ calculateDropPoint(drone1, h)[target] \in Path
         /\ Distance(calculateDropPoint(drone1, h)[target].dropPoint, target) = h
<1>. DEFINE reach == h + accelPath
            need  == reach > Distance(drone1, target)
            point == IF drone1 = target THEN target - reach
                     ELSE target - DirectionTo(drone1, target) * reach
            from  == IF need THEN point ELSE drone1
            drop  == IF from = target THEN from ELSE target - DirectionTo(from, target) * h
<1>1. reach \in Nat \ {0} /\ h \in Int
  BY ConfigAssumption
<1>0. from # target
  BY <1>1 DEF Distance, DirectionTo
<1>. HIDE DEF reach
<1>2. DirectionTo(drone1, target) * reach \in Int
  BY <1>1, DirectionType, Directed
<1>3. point \in Int
  BY <1>1, <1>2
<1>. HIDE DEF point
<1>4. need \in BOOLEAN
  OBVIOUS
<1>. HIDE DEF need
<1>5. from \in Int
  BY <1>3
<1>. HIDE DEF from
<1>6. DirectionTo(from, target) * h \in Int
  BY <1>1, DirectionType, Directed
<1>7. drop \in Int
  BY <1>5, <1>6
<1>9. Distance(drop, target) = h
  BY <1>0, <1>5 DEF Distance, DirectionTo
<1>8. calculateDropPoint(drone1, h)[target] =
        [needManeuver |-> need, maneuverPoint |-> IF need THEN point ELSE 0, dropPoint |-> drop]
  BY Zenon DEF calculateDropPoint, reach, need, point, from, drop
<1>. HIDE DEF drop
<1>. QED  BY <1>3, <1>4, <1>7, <1>8, <1>9 DEF Path

(* A target is somewhere at any time (TargetAnalyzer.cpp:9-54, 199-201).   *)
LEMMA PositionType ==
  ASSUME NEW track \in Track, NEW t \in Nat
  PROVE  interpolateTargetPosition(track, t) \in Int
<1>. DEFINE idx  == (t \div arrayTimeStep) % timeSteps
            next == (idx + 1) % timeSteps
<1>. USE ConfigAssumption
<1>1. idx \in 0 .. timeSteps - 1
  BY Division
<1>. HIDE DEF idx
<1>2. next \in 0 .. timeSteps - 1
  BY <1>1, Division
<1>. HIDE DEF next
<1>3. track[idx] \in Int /\ track[next] \in Int
  BY <1>1, <1>2 DEF Track
<1>4. (track[next] - track[idx]) \div arrayTimeStep \in Int /\ t % arrayTimeStep \in Int
  BY <1>3, Division
<1>5. interpolateTargetPosition(track, t) =
        track[idx] + ((track[next] - track[idx]) \div arrayTimeStep) * (t % arrayTimeStep)
  BY DEF interpolateTargetPosition, idx, next
<1>6. \A x, y \in Int : x * y \in Int
  OBVIOUS
<1>. QED  BY <1>3, <1>4, <1>5, <1>6

LEMMA PredictionType ==
  ASSUME NEW track \in Track, NEW t \in Nat, NEW f \in Nat
  PROVE  predictTargetPosition(track, t, f) \in Int
<1>1. t + arrayTimeStep \in Nat /\ arrayTimeStep \in Nat \ {0}
  BY ConfigAssumption
<1>2. interpolateTargetPosition(track, t) \in Int /\ interpolateTargetPosition(track, t + arrayTimeStep) \in Int
  BY <1>1, PositionType
<1>3. calculateTargetVelocity(track, t) \in Int
  BY <1>1, <1>2, Division DEF calculateTargetVelocity
<1>4. \A x, y \in Int : x * y \in Int
  OBVIOUS
<1>. QED  BY <1>2, <1>3, <1>4 DEF predictTargetPosition

(* An evaluation is of the target it was asked for.                        *)
LEMMA EvaluationType ==
  ASSUME NEW track \in Track, NEW i \in Nat, NEW d \in Drone, NEW t \in Nat,
         NEW solution \in BallisticsResult, NEW returning
  PROVE  /\ evaluateTarget(track, i, d, t, solution, returning) \in BestTargetResult
         /\ evaluateTarget(track, i, d, t, solution, returning).targetIndex = i
         /\ Distance(evaluateTarget(track, i, d, t, solution, returning).dropPoint,
                     evaluateTarget(track, i, d, t, solution, returning).predictedTarget)
              = solution.horizontalDistance
<1>. DEFINE predicted == predictTargetPosition(track, t, solution.flightTime)
            forgo  == returning /\ i = d.currentTargetIndex
            points == calculateDropPoint(d.position, solution.horizontalDistance)[predicted]
            path   == [points EXCEPT !.needManeuver = @ /\ ~ forgo]
            result == [targetIndex |-> i, totalTime |-> estimateTimeToTargetPath(d, i, path),
                       needManeuver |-> path.needManeuver, maneuverPoint |-> path.maneuverPoint,
                       dropPoint |-> path.dropPoint, predictedTarget |-> predicted]
<1>1. solution.flightTime \in Nat /\ solution.horizontalDistance \in Nat /\ d.position \in Int
  BY DEF BallisticsResult, Drone
<1>2. predicted \in Int
  BY <1>1, PredictionType
<1>. HIDE DEF predicted
<1>3. points \in Path /\ Distance(points.dropPoint, predicted) = solution.horizontalDistance
  BY <1>1, <1>2, DropPointType
<1>. HIDE DEF points, forgo
<1>4. path \in Path /\ path.dropPoint = points.dropPoint
  BY <1>3 DEF Path
<1>. HIDE DEF path
<1>5. estimateTimeToTargetPath(d, i, path) \in Int
  BY <1>4, PathTimeType
<1>6. /\ result \in BestTargetResult /\ result.targetIndex = i
      /\ Distance(result.dropPoint, result.predictedTarget) = solution.horizontalDistance
  <2>1. result \in BestTargetResult /\ result.targetIndex = i
    BY <1>2, <1>4, <1>5 DEF BestTargetResult, Path
  <2>2. result.dropPoint = points.dropPoint /\ result.predictedTarget = predicted
    BY <1>4
  <2>. QED  BY <2>1, <2>2, <1>3
<1>7. evaluateTarget(track, i, d, t, solution, returning) = result
  BY <1>2, <1>4, Zenon DEF evaluateTarget, predicted, points, path, forgo
<1>. HIDE DEF result
<1>. QED  BY <1>6, <1>7

-------------------------------------------------------------------------------
(* The selection. *)

(* A non-empty set of numbers has a least one.                             *)
LEMMA Least ==
  ASSUME NEW S, S \subseteq Nat, S # {}
  PROVE  \E j \in S : \A k \in S : j <= k
<1>1. PICK j \in S : \A k \in S : ~ (<<k, j>> \in OpToRel(<, Nat))
  BY WFMin, NatLessThanWellFounded
<1>2. OpToRel(<, Nat) = {p \in Nat \X Nat : p[1] < p[2]}
  BY DEF OpToRel
<1>3. ASSUME NEW k \in S  PROVE j <= k
  <2>1. ~ (<<k, j>> \in {p \in Nat \X Nat : p[1] < p[2]})
    BY <1>1, <1>2
  <2>. QED  BY <2>1
<1>. QED  BY <1>3

(* The first of the fastest exists: were there a first k up to which it    *)
(* does not, it would be k itself, or the one found before k.              *)
LEMMA FastestExists ==
  ASSUME NEW n \in Nat \ {0}, NEW f \in [0 .. n - 1 -> BestTargetResult],
         \A i \in 0 .. n - 1 : f[i].targetIndex = i
  PROVE  \E c \in {f[i] : i \in 0 .. n - 1} : \A e \in {f[i] : i \in 0 .. n - 1} :
            \/ c.totalTime < e.totalTime
            \/ c.totalTime = e.totalTime /\ c.targetIndex <= e.targetIndex
<1>. DEFINE First(j, k) == \A i \in 0 .. k : \/ f[j].totalTime < f[i].totalTime
                                             \/ f[j].totalTime = f[i].totalTime /\ j <= i
            Without == {k \in 0 .. n - 1 : ~ \E j \in 0 .. k : First(j, k)}
<1>1. \A i \in 0 .. n - 1 : f[i].totalTime \in Int
  BY DEF BestTargetResult
<1>2. Without = {}
  <2>. SUFFICES ASSUME Without # {} PROVE FALSE
    OBVIOUS
  <2>1. PICK k \in Without : \A l \in Without : k <= l
    <3>1. Without \subseteq Nat
      OBVIOUS
    <3>. HIDE DEF Without
    <3>. QED  BY <3>1, Least
  <2>2. k \in 0 .. n - 1 /\ ~ \E j \in 0 .. k : First(j, k)
    BY <2>1
  <2>3. k # 0
    <3>1. First(0, 0)
      BY <1>1
    <3>. HIDE DEF First
    <3>. QED  BY <3>1, <2>2
  <2>4. k - 1 \in 0 .. n - 1 /\ k - 1 \notin Without
    <3>1. k - 1 \in 0 .. n - 1 /\ ~ (k <= k - 1)
      BY <2>2, <2>3
    <3>. HIDE DEF Without
    <3>. QED  BY <3>1, <2>1
  <2>5. PICK j \in 0 .. k - 1 : First(j, k - 1)
    <3>. HIDE DEF First
    <3>. QED  BY <2>4
  <2>6. \A i \in 0 .. k : i \in 0 .. k - 1 \/ i = k
    BY <2>2
  <2>7. j \in 0 .. n - 1 /\ j \in 0 .. k /\ j <= k
    BY <2>2, <2>5
  <2>8. CASE f[k].totalTime < f[j].totalTime
    <3>1. First(k, k)
      <4>. SUFFICES ASSUME NEW i \in 0 .. k
                    PROVE  \/ f[k].totalTime < f[i].totalTime
                           \/ f[k].totalTime = f[i].totalTime /\ k <= i
        OBVIOUS
      <4>1. f[k].totalTime \in Int /\ f[j].totalTime \in Int /\ f[i].totalTime \in Int
        BY <1>1, <2>2, <2>7
      <4>2. CASE i = k
        BY <4>1, <4>2, <2>2
      <4>3. CASE i \in 0 .. k - 1
        <5>1. \/ f[j].totalTime < f[i].totalTime
              \/ f[j].totalTime = f[i].totalTime /\ j <= i
          BY <2>5, <4>3, Zenon
        <5>. QED  BY <5>1, <4>1, <2>8, SMTT(20)
      <4>. QED  BY <4>2, <4>3, <2>6
    <3>. HIDE DEF First
    <3>. QED  BY <3>1, <2>2
  <2>9. CASE ~ (f[k].totalTime < f[j].totalTime)
    <3>1. First(j, k)
      <4>. SUFFICES ASSUME NEW i \in 0 .. k
                    PROVE  \/ f[j].totalTime < f[i].totalTime
                           \/ f[j].totalTime = f[i].totalTime /\ j <= i
        OBVIOUS
      <4>1. f[k].totalTime \in Int /\ f[j].totalTime \in Int
        BY <1>1, <2>2, <2>7
      <4>2. CASE i = k
        BY <4>1, <4>2, <2>7, <2>9
      <4>3. CASE i \in 0 .. k - 1
        BY <2>5, <4>3
      <4>. QED  BY <4>2, <4>3, <2>6
    <3>. HIDE DEF First
    <3>. QED  BY <3>1, <2>2, <2>7
  <2>. QED  BY <2>8, <2>9
<1>3. PICK j \in 0 .. n - 1 : First(j, n - 1)
  <2>1. n - 1 \in 0 .. n - 1
    OBVIOUS
  <2>. QED  BY <1>2, <2>1
<1>. QED  BY <1>3

(* What is selected is one of the candidates (TargetAnalyzer.cpp:259-301). *)
LEMMA SelectionType ==
  ASSUME NEW n \in Nat \ {0}, NEW f \in [0 .. n - 1 -> BestTargetResult], NEW current,
         \A i \in 0 .. n - 1 : f[i].targetIndex = i
  PROVE  selectBestTarget(current)[{f[i] : i \in 0 .. n - 1}] \in {f[i] : i \in 0 .. n - 1}
<1>. DEFINE candidates == {f[i] : i \in 0 .. n - 1}
            fastest == CHOOSE c \in candidates : \A e \in candidates :
                         \/ c.totalTime < e.totalTime
                         \/ c.totalTime = e.totalTime /\ c.targetIndex <= e.targetIndex
            kept == {c \in candidates : /\ c.targetIndex = current
                                        /\ fastest.totalTime > c.totalTime - SwitchPrevention}
<1>1. candidates \in SUBSET BestTargetResult
  OBVIOUS
<1>2. \E c \in candidates : \A e \in candidates :
         \/ c.totalTime < e.totalTime
         \/ c.totalTime = e.totalTime /\ c.targetIndex <= e.targetIndex
  BY FastestExists
<1>. HIDE DEF candidates
<1>3. fastest \in candidates
  BY <1>2, Zenon
<1>4. selectBestTarget(current)[candidates] = IF kept = {} THEN fastest ELSE CHOOSE c \in kept : TRUE
  BY <1>1, Zenon DEF selectBestTarget, fastest, kept
<1>5. kept # {} => (CHOOSE c \in kept : TRUE) \in candidates
  <2>1. kept # {} => (CHOOSE c \in kept : TRUE) \in kept
    <3>. HIDE DEF kept
    <3>. QED  BY Zenon
  <2>. QED  BY <2>1
<1>. HIDE DEF fastest, kept
<1>6. selectBestTarget(current)[candidates] \in candidates
  BY <1>3, <1>4, <1>5
<1>. QED  BY <1>6 DEF candidates

-------------------------------------------------------------------------------
(* The states of the drone. *)

(* Speed and turn fit the state.                                           *)
Fits(d) ==
  /\ d.state = "Moving" => d.currentSpeed = attackSpeed
  /\ d.state \in {"Stopped", "Turning"} => d.currentSpeed = 0
  /\ d.state = "Turning" <=> d.turnRemainingTime > 0
  /\ d.state = "Turning" => d.turnTargetDir # d.currentDir

(* What every state owes its caller.                                       *)
Follows(d, e) ==
  e \in Drone /\ Fits(e) /\ e.currentTargetIndex = d.currentTargetIndex

LEMMA MovesOn ==
  ASSUME NEW x \in Int, NEW goal \in Int, NEW most \in Int
  PROVE  moveDroneToPoint(x, goal, most) \in Int
<1>1. DirectionTo(x, goal) * most \in Int
  BY DirectionType, Directed
<1>. QED  BY <1>1 DEF moveDroneToPoint

LEMMA TurningStarts ==
  ASSUME NEW d \in Drone, d.currentSpeed = 0, d.currentDir # d.desiredDir
  PROVE  Follows(d, StartsTurning(d))
<1>1. d.desiredDir \in Direction /\ HalfTurn \in 0 .. HalfTurn /\ HalfTurn > 0
  BY ConfigAssumption DEF Drone
<1>. QED  BY <1>1 DEF StartsTurning, Follows, Fits, Drone

LEMMA StoppedFollows ==
  ASSUME NEW d \in Drone, Fits(d), d.state = "Stopped"
  PROVE  Follows(d, StateStopped(d))
<1>. DEFINE stopped == [d EXCEPT !.currentSpeed = 0]
<1>1. /\ stopped \in Drone /\ stopped.currentSpeed = 0
      /\ stopped.currentDir = d.currentDir /\ stopped.desiredDir = d.desiredDir
      /\ stopped.currentTargetIndex = d.currentTargetIndex
  BY ConfigAssumption DEF Drone
<1>. HIDE DEF stopped
<1>2. CASE d.currentDir # d.desiredDir
  <2>1. Follows(stopped, StartsTurning(stopped))
    BY <1>1, <1>2, TurningStarts
  <2>2. StateStopped(d) = StartsTurning(stopped)
    BY <1>2, Zenon DEF StateStopped, stopped
  <2>. QED  BY <2>1, <2>2, <1>1 DEF Follows
<1>3. CASE d.currentDir = d.desiredDir
  <2>1. StateStopped(d) = [d EXCEPT !.currentSpeed = 0, !.state = "Accelerating"]
    BY <1>3 DEF StateStopped
  <2>. QED  BY <2>1, ConfigAssumption DEF Follows, Fits, Drone
<1>. QED  BY <1>2, <1>3

LEMMA TurningFollows ==
  ASSUME NEW d \in Drone, Fits(d), d.state = "Turning"
  PROVE  Follows(d, StateTurning(d))
<1>1. CASE d.turnRemainingTime <= 100
  <2>1. StateTurning(d) = [d EXCEPT !.currentDir = d.turnTargetDir, !.turnRemainingTime = 0,
                                    !.state = "Accelerating"]
    BY <1>1 DEF StateTurning
  <2>2. d.turnTargetDir \in Direction /\ 0 \in 0 .. HalfTurn
    BY ConfigAssumption DEF Drone
  <2>3. StateTurning(d) \in Drone
    BY <2>1, <2>2 DEF Drone
  <2>4. /\ StateTurning(d).state = "Accelerating" /\ StateTurning(d).turnRemainingTime = 0
        /\ StateTurning(d).currentTargetIndex = d.currentTargetIndex
    BY <2>1 DEF Drone
  <2>. QED  BY <2>3, <2>4 DEF Follows, Fits
<1>2. CASE ~ (d.turnRemainingTime <= 100)
  <2>1. StateTurning(d) = [d EXCEPT !.turnRemainingTime = @ - 100]
    BY <1>2 DEF StateTurning
  <2>2. d.turnRemainingTime \in 0 .. HalfTurn /\ HalfTurn \in Nat
    BY ConfigAssumption DEF Drone
  <2>3. d.turnRemainingTime - 100 \in 0 .. HalfTurn /\ d.turnRemainingTime - 100 > 0
    BY <1>2, <2>2
  <2>. QED  BY <2>1, <2>3 DEF Follows, Fits, Drone
<1>. QED  BY <1>1, <1>2

LEMMA AcceleratingFollows ==
  ASSUME NEW d \in Drone, Fits(d), d.state = "Accelerating", NEW goal \in Int
  PROVE  Follows(d, StateAccelerating(d, goal))
<1>. DEFINE speed == IF d.currentSpeed + acceleration > attackSpeed THEN attackSpeed
                     ELSE d.currentSpeed + acceleration
            place == moveDroneToPoint(d.position, goal, (d.currentSpeed + speed) \div 2)
            state == IF speed = attackSpeed THEN "Moving" ELSE d.state
<1>1. /\ d.position \in Int /\ d.currentSpeed \in 0 .. attackSpeed
      /\ attackSpeed \in Nat /\ acceleration \in Nat
  BY ConfigAssumption DEF Drone
<1>2. speed \in 0 .. attackSpeed
  BY <1>1
<1>3. place \in Int
  <2>1. d.currentSpeed + speed \in Int
    BY <1>1, <1>2
  <2>2. (d.currentSpeed + speed) \div 2 \in Int
    <3>. HIDE DEF speed
    <3>. QED  BY <2>1, Division
  <2>. QED  BY <1>1, <2>2, MovesOn
<1>4. StateAccelerating(d, goal) = [d EXCEPT !.currentSpeed = speed, !.position = place, !.state = state]
  BY Zenon DEF StateAccelerating, speed, place, state
<1>5. state \in {"Moving", "Accelerating"} /\ (state = "Moving" => speed = attackSpeed)
  <2>. HIDE DEF speed
  <2>. QED  OBVIOUS
<1>. HIDE DEF speed, place, state
<1>. QED  BY <1>2, <1>3, <1>4, <1>5 DEF Follows, Fits, Drone

LEMMA MovingFollows ==
  ASSUME NEW d \in Drone, Fits(d), d.state = "Moving", NEW goal \in Int
  PROVE  Follows(d, StateMoving(d, goal))
<1>. DEFINE ready == [d EXCEPT !.turnTargetDir = IF d.currentDir # d.desiredDir THEN d.desiredDir ELSE @]
            place == moveDroneToPoint(ready.position, goal, attackSpeed)
<1>1. ready \in Drone /\ Fits(ready) /\ ready.state = "Moving"
      /\ ready.currentTargetIndex = d.currentTargetIndex
  BY DEF Drone, Fits
<1>2. StateMoving(d, goal) =
        IF d.currentDir # d.desiredDir /\ d.currentSpeed > 0 THEN [ready EXCEPT !.state = "Decelerating"]
        ELSE [ready EXCEPT !.currentSpeed = attackSpeed, !.position = place]
  BY Zenon DEF StateMoving, ready, place
<1>. HIDE DEF ready
<1>3. place \in Int
  BY <1>1, MovesOn, ConfigAssumption DEF Drone
<1>. HIDE DEF place
<1>4. Follows(d, [ready EXCEPT !.state = "Decelerating"])
  BY <1>1 DEF Follows, Fits, Drone
<1>5. Follows(d, [ready EXCEPT !.currentSpeed = attackSpeed, !.position = place])
  BY <1>1, <1>3, ConfigAssumption DEF Follows, Fits, Drone
<1>. QED  BY <1>2, <1>4, <1>5

LEMMA DeceleratingFollows ==
  ASSUME NEW d \in Drone, Fits(d), d.state = "Decelerating"
  PROVE  Follows(d, StateDecelerating(d))
<1>. DEFINE speed == IF d.currentSpeed < acceleration THEN 0 ELSE d.currentSpeed - acceleration
            place == d.position + d.currentDir * ((d.currentSpeed + speed) \div 2)
            moved == [d EXCEPT !.currentSpeed = speed, !.position = place]
<1>1. /\ d.position \in Int /\ d.currentSpeed \in 0 .. attackSpeed /\ d.currentDir \in Direction
      /\ attackSpeed \in Nat /\ acceleration \in Nat
  BY ConfigAssumption DEF Drone
<1>2. speed \in 0 .. attackSpeed
  BY <1>1
<1>3. place \in Int
  <2>1. d.currentSpeed + speed \in Int
    BY <1>1, <1>2
  <2>. HIDE DEF speed
  <2>2. (d.currentSpeed + speed) \div 2 \in Int
    BY <2>1, Division
  <2>3. d.currentDir * ((d.currentSpeed + speed) \div 2) \in Int
    BY <1>1, <2>2, Directed
  <2>. QED  BY <1>1, <2>3
<1>4. StateDecelerating(d) =
        IF speed > 0 THEN moved
        ELSE IF d.currentDir # d.desiredDir THEN StartsTurning(moved)
        ELSE [moved EXCEPT !.turnTargetDir = d.desiredDir, !.turnRemainingTime = 0,
                           !.state = "Accelerating"]
  BY Zenon DEF StateDecelerating, speed, place, moved
<1>. HIDE DEF speed, place
<1>5. /\ moved \in Drone /\ Fits(moved) /\ moved.state = "Decelerating" /\ moved.currentSpeed = speed
      /\ moved.currentDir = d.currentDir /\ moved.desiredDir = d.desiredDir
      /\ moved.currentTargetIndex = d.currentTargetIndex
  BY <1>2, <1>3 DEF Drone, Fits
<1>. HIDE DEF moved
<1>6. CASE speed > 0
  BY <1>4, <1>5, <1>6 DEF Follows
<1>7. CASE speed = 0 /\ d.currentDir # d.desiredDir
  <2>1. Follows(moved, StartsTurning(moved))
    BY <1>5, <1>7, TurningStarts
  <2>. QED  BY <1>4, <1>5, <1>7, <2>1 DEF Follows
<1>8. CASE speed = 0 /\ d.currentDir = d.desiredDir
  <2>1. d.desiredDir \in Direction /\ 0 \in 0 .. HalfTurn
    BY ConfigAssumption DEF Drone
  <2>2. StateDecelerating(d) = [moved EXCEPT !.turnTargetDir = d.desiredDir, !.turnRemainingTime = 0,
                                             !.state = "Accelerating"]
    BY <1>4, <1>8
  <2>3. StateDecelerating(d) \in Drone
    BY <2>1, <2>2, <1>5 DEF Drone
  <2>4. /\ StateDecelerating(d).state = "Accelerating" /\ StateDecelerating(d).turnRemainingTime = 0
        /\ StateDecelerating(d).currentTargetIndex = d.currentTargetIndex
    BY <2>2, <1>5 DEF Drone
  <2>. QED  BY <2>3, <2>4 DEF Follows, Fits
<1>9. speed > 0 \/ speed = 0
  BY <1>1, <1>2
<1>. QED  BY <1>6, <1>7, <1>8, <1>9, Zenon

(* execute() of the state the drone is in (src/states/).                   *)
LEMMA ExecuteFollows ==
  ASSUME NEW d \in Drone, Fits(d), NEW goal \in Int
  PROVE  Follows(d, execute(goal)[d])
<1>1. execute(goal)[d] =
        CASE d.state = "Stopped"      -> StateStopped(d)
          [] d.state = "Turning"      -> StateTurning(d)
          [] d.state = "Accelerating" -> StateAccelerating(d, goal)
          [] d.state = "Moving"       -> StateMoving(d, goal)
          [] d.state = "Decelerating" -> StateDecelerating(d)
  BY Zenon DEF execute
<1>2. d.state \in {"Stopped", "Turning", "Accelerating", "Moving", "Decelerating"}
  BY DEF Drone
<1>. QED  BY <1>1, <1>2, StoppedFollows, TurningFollows, AcceleratingFollows, MovingFollows,
             DeceleratingFollows

-------------------------------------------------------------------------------
(* The invariant. *)

Drop == [target : Int, position : Int, speed : 0 .. attackSpeed, excess : Int, miss : Int]

DropFits(p) == p.speed = attackSpeed /\ p.excess \in - config.hitRadius .. config.hitRadius

IInv ==
  /\ config \in Configs /\ drops \in Seq(Drop) /\ resets \in Nat
  /\ TypeOK
  /\ FlagsAgree
  /\ DropsInRange

(* What the assumptions say of the configuration.                          *)
LEMMA ConfigFacts ==
  ASSUME config \in Configs
  PROVE  /\ config.startPos \in Int /\ config.initialDir \in Direction /\ config.hitRadius \in Nat
         /\ config.targetCount \in Nat \ {0}
         /\ config.targets \in [0 .. config.targetCount - 1 -> Track]
         /\ Targets = 0 .. config.targetCount - 1
         /\ config.ballistics \in BallisticsResult /\ config.others \subseteq BallisticsResult
<1>1. /\ config.startPos \in Int /\ config.initialDir \in Direction /\ config.hitRadius \in Nat
      /\ config.targetCount \in Nat \ {0}
      /\ config.targets \in [0 .. config.targetCount - 1 -> Track]
      /\ config.ballistics \in BallisticsResult /\ config.others \subseteq BallisticsResult
  BY InputsAssumption, Zenon
<1>2. DOMAIN config.targets = 0 .. config.targetCount - 1
  BY <1>1
<1>. QED  BY <1>1, <1>2, Zenon DEF Targets

LEMMA NewDroneFits ==
  ASSUME config \in Configs, NEW desired \in Direction
  PROVE  /\ NewDrone(config, desired) \in Drone /\ Fits(NewDrone(config, desired))
         /\ NewDrone(config, desired).currentTargetIndex = -1
<1>1. config.startPos \in Int /\ config.initialDir \in Direction
  BY ConfigFacts
<1>2. 0 \in 0 .. attackSpeed /\ 0 \in 0 .. HalfTurn /\ -1 \in Int
  BY ConfigAssumption
<1>. QED  BY <1>1, <1>2 DEF NewDrone, Drone, Fits

LEMMA InitIInv == Init => IInv
<1>. SUFFICES ASSUME Init PROVE IInv
  OBVIOUS
<1>1. config \in Configs /\ ballistics \in BallisticsResult
  BY ConfigFacts DEF Init
<1>2. 1 \in Direction
  BY DEF Direction
<1>3. drone \in Drone /\ Fits(drone) /\ drone.currentTargetIndex = -1
  BY <1>1, <1>2, NewDroneFits DEF Init
<1>4. drops = << >> /\ drops \in Seq(Drop) /\ Len(drops) = 0
  BY EmptySeq DEF Init
<1>5. 0 \in 0 .. timeSteps * arrayTimeStep - 1
  BY ConfigAssumption
<1>6. TypeOK
  BY <1>1, <1>3, <1>5 DEF Init, TypeOK, Fits
<1>7. FlagsAgree
  BY <1>3 DEF Init, FlagsAgree
<1>8. DropsInRange
  BY <1>4 DEF DropsInRange
<1>. QED  BY <1>1, <1>4, <1>6, <1>7, <1>8 DEF IInv, Init

(* What step() reads. *)
LEMMA NowFields ==
  /\ Now.config = config /\ Now.ballistics = ballistics /\ Now.drone = drone
  /\ Now.simulationTime = simulationTime /\ Now.targetLocked = targetLocked
  /\ Now.lockedTargetIndex = lockedTargetIndex /\ Now.returningFromManuver = returningFromManuver
  /\ Now.maneuverTargetIndex = maneuverTargetIndex
  BY DEF Now

(* The target step() goes for is one of the mission, the locked one if     *)
(* there is one, and its drop point is as far from it as asked for         *)
(* (MissionProcessor.cpp:148-173).                                         *)
LEMMA BestType ==
  ASSUME IInv
  PROVE  /\ best(Now) \in BestTargetResult /\ best(Now).targetIndex \in Targets
         /\ best(Now) = Evaluated(Now, best(Now).targetIndex)
         /\ targetLocked => best(Now).targetIndex = lockedTargetIndex
         /\ Distance(best(Now).dropPoint, best(Now).predictedTarget) = ballistics.horizontalDistance
<1>1. /\ config \in Configs /\ ballistics \in BallisticsResult /\ drone \in Drone
      /\ simulationTime \in Nat
  BY DEF IInv, TypeOK
<1>2. /\ config.targetCount \in Nat \ {0} /\ config.targets \in [0 .. config.targetCount - 1 -> Track]
      /\ Targets = 0 .. config.targetCount - 1 /\ DOMAIN config.targets = 0 .. config.targetCount - 1
  BY <1>1, ConfigFacts
<1>3. ASSUME NEW i \in Targets
      PROVE  /\ Evaluated(Now, i) \in BestTargetResult /\ Evaluated(Now, i).targetIndex = i
             /\ Distance(Evaluated(Now, i).dropPoint, Evaluated(Now, i).predictedTarget)
                  = ballistics.horizontalDistance
  <2>1. config.targets[i] \in Track /\ i \in Nat
    BY <1>2, <1>3
  <2>. QED  BY NowFields, <1>1, <2>1, EvaluationType DEF Evaluated
<1>4. CASE targetLocked
  <2>1. lockedTargetIndex \in Targets
    BY <1>4 DEF IInv, TypeOK, FlagsAgree
  <2>2. best(Now) = Evaluated(Now, lockedTargetIndex)
    BY NowFields, <1>4 DEF best
  <2>. QED  BY <2>1, <2>2, <1>3
<1>5. CASE ~ targetLocked
  <2>. DEFINE f == [i \in 0 .. config.targetCount - 1 |-> Evaluated(Now, i)]
  <2>1. /\ f \in [0 .. config.targetCount - 1 -> BestTargetResult]
        /\ \A i \in 0 .. config.targetCount - 1 : f[i] = Evaluated(Now, i) /\ f[i].targetIndex = i
    BY <1>2, <1>3
  <2>2. {f[i] : i \in 0 .. config.targetCount - 1} = {Evaluated(Now, i) : i \in DOMAIN config.targets}
    BY <1>2
  <2>. HIDE DEF f
  <2>3. selectBestTarget(drone.currentTargetIndex)[{f[i] : i \in 0 .. config.targetCount - 1}]
          \in {f[i] : i \in 0 .. config.targetCount - 1}
    BY <1>2, <2>1, SelectionType
  <2>4. best(Now) \in {Evaluated(Now, i) : i \in DOMAIN config.targets}
    <3>1. best(Now) = selectBestTarget(drone.currentTargetIndex)
                        [{Evaluated(Now, i) : i \in DOMAIN config.targets}]
      BY NowFields, <1>5, Zenon DEF best, Selected
    <3>. QED  BY <3>1, <2>2, <2>3, Zenon
  <2>5. PICK i \in Targets : best(Now) = Evaluated(Now, i)
    BY <2>4, <1>2
  <2>. QED  BY <2>5, <1>3, <1>5
<1>. QED  BY <1>4, <1>5

(* The flight towards it (MissionProcessor.cpp:199-236).                   *)
LEMMA FlownType ==
  ASSUME IInv, NEW b \in BestTargetResult, b.targetIndex \in Targets
  PROVE  Flown(Now, b) \in Drone /\ Fits(Flown(Now, b)) /\ Flown(Now, b).currentTargetIndex = b.targetIndex
<1>. DEFINE d == [drone EXCEPT !.currentTargetIndex = b.targetIndex, !.desiredDir = desiredDir(Now, b)]
<1>1. drone \in Drone /\ Fits(drone)
  BY DEF IInv, TypeOK, Fits
<1>2. Goal(Now, b) \in Int /\ b.targetIndex \in Int
  BY DEF BestTargetResult, Goal
<1>3. desiredDir(Now, b) \in Direction
  <2>1. drone.desiredDir \in Direction
    BY <1>1 DEF Drone
  <2>. QED  BY NowFields, <2>1, DirectionType DEF desiredDir
<1>4. d \in Drone /\ Fits(d) /\ d.currentTargetIndex = b.targetIndex
  BY <1>1, <1>2, <1>3 DEF Drone, Fits
<1>5. Flown(Now, b) = execute(Goal(Now, b))[d]
  BY NowFields, Zenon DEF Flown
<1>. HIDE DEF d
<1>. QED  BY <1>2, <1>4, <1>5, ExecuteFollows DEF Follows

(* What every step keeps, whether it drops or not.                         *)
LEMMA StepFliesKeeps ==
  ASSUME IInv, NEW b, b = best(Now), StepFlies(Now, b)
  PROVE  /\ config' = config /\ config \in Configs /\ resets' \in Nat /\ Targets' = Targets
         /\ ballistics' \in BallisticsResult /\ ballistics' = ballistics
         /\ drone' \in Drone /\ Fits(drone') /\ drone'.currentTargetIndex = b.targetIndex
         /\ simulationTime' \in 0 .. timeSteps * arrayTimeStep - 1
<1>1. b \in BestTargetResult /\ b.targetIndex \in Targets
  BY BestType
<1>2. drone' = Flown(Now, b)
  BY DEF StepFlies
<1>3. drone' \in Drone /\ Fits(drone') /\ drone'.currentTargetIndex = b.targetIndex
  BY <1>1, <1>2, FlownType
<1>4. simulationTime' \in 0 .. timeSteps * arrayTimeStep - 1
  <2>1. timeSteps * arrayTimeStep \in Nat \ {0} /\ simulationTime + 1 \in Int
    BY ConfigAssumption DEF IInv, TypeOK
  <2>2. (simulationTime + 1) % (timeSteps * arrayTimeStep) \in 0 .. timeSteps * arrayTimeStep - 1
    BY <2>1, Division
  <2>. QED  BY NowFields, <2>2 DEF StepFlies, NextTime
<1>5. config' = config /\ ballistics' = ballistics /\ resets' = resets
  BY DEF StepFlies
<1>6. Targets' = Targets
  BY <1>5 DEF Targets
<1>. QED  BY <1>3, <1>4, <1>5, <1>6 DEF IInv, TypeOK

(* How far the drop is from what it was meant to be: the triangle of the   *)
(* place, the drop point and the target.                                   *)
LEMMA DropType ==
  ASSUME IInv, NEW b, b = best(Now), StepFlies(Now, b), dropNow(Now, b, drone')
  PROVE  DropOf(Now, b, drone') \in Drop /\ DropFits(DropOf(Now, b, drone'))
<1>1. /\ b \in BestTargetResult
      /\ Distance(b.dropPoint, b.predictedTarget) = ballistics.horizontalDistance
  BY BestType
<1>2. drone' \in Drone /\ Fits(drone') /\ ballistics \in BallisticsResult /\ config \in Configs
  BY StepFliesKeeps DEF IInv, TypeOK
<1>. DEFINE h == ballistics.horizontalDistance
            x == drone'.position
            aim == x + drone'.currentDir * h
            excess == Distance(x, b.predictedTarget) - h
            miss == Distance(aim, b.predictedTarget)
<1>3. /\ h \in Nat /\ x \in Int /\ drone'.currentDir \in Direction
      /\ b.targetIndex \in Int /\ b.predictedTarget \in Int /\ b.dropPoint \in Int
      /\ config.hitRadius \in Nat
  BY <1>1, <1>2, ConfigFacts DEF BallisticsResult, Drone, BestTargetResult
<1>4. drone'.currentSpeed = attackSpeed /\ attackSpeed \in 0 .. attackSpeed
  BY <1>2, ConfigAssumption DEF dropNow, Fits
<1>5. Distance(x, b.dropPoint) <= config.hitRadius
  BY NowFields DEF dropNow
<1>6. excess \in Int /\ excess \in - config.hitRadius .. config.hitRadius
  <2>1. \A r, k, t, p \in Int : Distance(p, t) <= r =>
          /\ Distance(p, k) - Distance(t, k) <= r
          /\ Distance(t, k) - Distance(p, k) <= r
    BY DEF Distance
  <2>2. Distance(x, b.predictedTarget) \in Nat
    BY <1>3, DistanceType
  <2>3. /\ Distance(x, b.predictedTarget) - Distance(b.dropPoint, b.predictedTarget) <= config.hitRadius
        /\ Distance(b.dropPoint, b.predictedTarget) - Distance(x, b.predictedTarget) <= config.hitRadius
    <3>. HIDE DEF x
    <3>. QED  BY <2>1, <1>3, <1>5
  <2>. HIDE DEF x, h
  <2>. QED  BY <2>2, <2>3, <1>1, <1>3 DEF h
<1>7. miss \in Int
  <2>1. drone'.currentDir * h \in Int
    BY <1>3, Directed
  <2>2. aim \in Int
    BY <2>1, <1>3
  <2>. HIDE DEF aim
  <2>3. Distance(aim, b.predictedTarget) \in Nat
    BY <2>2, <1>3, DistanceType, Zenon
  <2>. QED  BY <2>3
<1>8. DropOf(Now, b, drone') = [target |-> b.targetIndex, position |-> x, speed |-> drone'.currentSpeed,
                   excess |-> excess, miss |-> miss]
  BY NowFields, Zenon DEF DropOf, x, h, aim, excess, miss
<1>. HIDE DEF x, h, aim, excess, miss
<1>. QED  BY <1>3, <1>4, <1>6, <1>7, <1>8 DEF Drop, DropFits

LEMMA StepDropsKeeps ==
  ASSUME IInv, NEW b, b = best(Now), StepDrops(Now, b)
  PROVE  IInv' /\ Len(drops') = Len(drops) + 1
<1>1. StepFlies(Now, b) /\ dropNow(Now, b, drone') /\ drops' = Append(drops, DropOf(Now, b, drone'))
  BY DEF StepDrops
<1>2. DropOf(Now, b, drone') \in Drop /\ DropFits(DropOf(Now, b, drone'))
  BY <1>1, DropType
<1>3. drops' \in Seq(Drop) /\ Len(drops') = Len(drops) + 1
  BY <1>1, <1>2 DEF IInv
<1>4. config' = config
  BY <1>1 DEF StepFlies
<1>5. DropsInRange'
  <2>. SUFFICES ASSUME NEW k \in 1 .. Len(drops') PROVE DropFits(drops'[k])
    BY <1>4 DEF DropsInRange, DropFits
  <2>1. CASE k = Len(drops) + 1
    BY <2>1, <1>1, <1>2 DEF IInv
  <2>2. CASE k # Len(drops) + 1
    <3>1. k \in 1 .. Len(drops) /\ drops'[k] = drops[k]
      BY <2>2, <1>1, <1>2, <1>3 DEF IInv
    <3>. QED  BY <3>1 DEF IInv, DropsInRange, DropFits
  <2>. QED  BY <2>1, <2>2
<1>6. TypeOK' /\ FlagsAgree'
  <2>1. /\ missionComplete' = TRUE /\ targetLocked' = FALSE /\ lockedTargetIndex' = -1
        /\ returningFromManuver' = FALSE /\ maneuverTargetIndex' = -1
    BY DEF StepDrops
  <2>2. drone'.currentTargetIndex \in Targets'
    BY <1>1, StepFliesKeeps, BestType
  <2>. QED  BY <1>1, <2>1, <2>2, StepFliesKeeps DEF TypeOK, FlagsAgree, Fits
<1>. QED  BY <1>1, <1>3, <1>4, <1>5, <1>6, StepFliesKeeps DEF IInv

LEMMA StepGoesOnKeeps ==
  ASSUME IInv, NEW b, b = best(Now), StepGoesOn(Now, b)
  PROVE  IInv'
<1>1. StepFlies(Now, b) /\ drops' = drops /\ missionComplete' = missionComplete
  BY DEF StepGoesOn
<1>2. b.targetIndex \in Targets /\ (targetLocked => b.targetIndex = lockedTargetIndex)
  BY BestType
<1>3. Targets \subseteq Nat
  BY ConfigFacts DEF IInv
<1>4. /\ targetLocked' = (targetLocked \/ Locks(Now, b))
      /\ lockedTargetIndex' = IF Locks(Now, b) THEN b.targetIndex ELSE lockedTargetIndex
      /\ returningFromManuver' = (Returning(Now, b) \/ atManeuverPoint(Now, b))
      /\ maneuverTargetIndex' = IF headingToManeuver(Now, b) THEN b.targetIndex ELSE maneuverTargetIndex
      /\ headingToManeuver(Now, b) => Locks(Now, b)
      /\ Locks(Now, b) \in BOOLEAN /\ headingToManeuver(Now, b) \in BOOLEAN
      /\ (Returning(Now, b) \/ atManeuverPoint(Now, b)) \in BOOLEAN
  BY Zenon DEF StepGoesOn, headingToManeuver, Locks
<1>5. drone'.currentTargetIndex = b.targetIndex
  BY <1>1, StepFliesKeeps
<1>6. FlagsAgree'
  BY <1>2, <1>3, <1>4, <1>5 DEF IInv, TypeOK, FlagsAgree
<1>7. TypeOK'
  <2>1. /\ targetLocked' \in BOOLEAN /\ returningFromManuver' \in BOOLEAN /\ missionComplete' \in BOOLEAN
        /\ lockedTargetIndex' \in Targets \cup {-1} /\ maneuverTargetIndex' \in Targets \cup {-1}
    BY <1>1, <1>2, <1>4 DEF IInv, TypeOK
  <2>. QED  BY <1>1, <1>2, <1>5, <2>1, StepFliesKeeps DEF TypeOK, Fits
<1>8. DropsInRange' /\ config' = config
  BY <1>1 DEF IInv, DropsInRange, StepFlies
<1>. QED  BY <1>1, <1>6, <1>7, <1>8, StepFliesKeeps DEF IInv

LEMMA NextIInv == IInv /\ [Next]_vars => IInv'
<1>. SUFFICES ASSUME IInv, [Next]_vars PROVE IInv'
  OBVIOUS
<1>1. ASSUME step PROVE IInv'
  <2>1. PICK b \in {best(Now)} : StepDrops(Now, b) \/ StepGoesOn(Now, b)
    BY <1>1 DEF step
  <2>. QED  BY <2>1, StepDropsKeeps, StepGoesOnKeeps
<1>2. ASSUME reset PROVE IInv'
  <2>1. config' = config /\ drops' = drops /\ ballistics' = ballistics /\ resets' = resets + 1
    BY <1>2 DEF reset
  <2>2. drone' \in Drone /\ Fits(drone') /\ drone'.currentTargetIndex = -1
    <3>1. drone.desiredDir \in Direction
      BY DEF IInv, TypeOK, Drone
    <3>. QED  BY <1>2, <3>1, NewDroneFits DEF reset, IInv
  <2>3. 0 \in 0 .. timeSteps * arrayTimeStep - 1
    BY ConfigAssumption
  <2>4. TypeOK' /\ FlagsAgree'
    BY <1>2, <2>1, <2>2, <2>3 DEF reset, IInv, TypeOK, FlagsAgree, Fits, Targets
  <2>. QED  BY <2>1, <2>4 DEF IInv, DropsInRange
<1>3. ASSUME changeSolver PROVE IInv'
  <2>1. ballistics' \in BallisticsResult
    BY <1>3, ConfigFacts DEF changeSolver, IInv, BallisticsResult
  <2>2. UNCHANGED <<config, drone, simulationTime, missionComplete, flags, drops, resets>>
    BY <1>3 DEF changeSolver
  <2>. QED  BY <2>1, <2>2 DEF IInv, TypeOK, FlagsAgree, DropsInRange, flags, Targets
<1>4. ASSUME UNCHANGED vars PROVE IInv'
  BY <1>4 DEF vars, flags, IInv, TypeOK, FlagsAgree, DropsInRange, Targets
<1>. QED  BY <1>1, <1>2, <1>3, <1>4 DEF Next

THEOREM Invariance == Spec => []IInv
  BY InitIInv, NextIInv, PTL DEF Spec

(* The variables keep their types, and the state of the drone its speed    *)
(* and turn (src/states/*.cpp).                                            *)
THEOREM TypeCorrect == Spec => []TypeOK
<1>1. IInv => TypeOK
  BY DEF IInv
<1>. QED  BY <1>1, Invariance, PTL

(* A locked target is the current one, and a manoeuvre belongs to it       *)
(* (MissionProcessor.cpp:175-217).                                         *)
THEOREM FlagsAlwaysAgree == Spec => []FlagsAgree
<1>1. IInv => FlagsAgree
  BY DEF IInv
<1>. QED  BY <1>1, Invariance, PTL

(* Every drop, of targets moving or not, with the solver changed or not,   *)
(* is made at full speed from the distance asked for, up to hitRadius      *)
(* (MissionProcessor.cpp:254-255, TargetAnalyzer.cpp:203-227).             *)
THEOREM DropsAlwaysInRange == Spec => []DropsInRange
<1>1. IInv => DropsInRange
  BY DEF IInv
<1>. QED  BY <1>1, Invariance, PTL

(* A locked target is kept until it is dropped on, or a reset              *)
(* (MissionProcessor.cpp:149-167, 254-273).                                *)
THEOREM LockHolds == Spec => LockIsKept
<1>. DEFINE Kept == targetLocked /\ resets' = resets =>
                      /\ drone'.currentTargetIndex = lockedTargetIndex
                      /\ targetLocked' => lockedTargetIndex' = lockedTargetIndex
                      /\ ~ targetLocked' => missionComplete' /\ Len(drops') = Len(drops) + 1
<1>1. IInv /\ [Next]_vars => [Kept]_vars
  <2>. SUFFICES ASSUME IInv, Next, targetLocked, resets' = resets PROVE Kept
    BY Zenon
  <2>0. drone.currentTargetIndex = lockedTargetIndex
    BY DEF IInv, FlagsAgree
  <2>1. ASSUME NEW b, b = best(Now), StepDrops(Now, b) PROVE Kept
    <3>1. /\ missionComplete' /\ Len(drops') = Len(drops) + 1 /\ targetLocked' = FALSE
          /\ drone'.currentTargetIndex = lockedTargetIndex
      BY <2>1, StepDropsKeeps, StepFliesKeeps, BestType DEF StepDrops
    <3>. QED  BY <3>1
  <2>2. ASSUME NEW b, b = best(Now), StepGoesOn(Now, b) PROVE Kept
    <3>1. drone'.currentTargetIndex = lockedTargetIndex /\ b.targetIndex = lockedTargetIndex
      BY <2>2, StepFliesKeeps, BestType DEF StepGoesOn
    <3>2. targetLocked' /\ lockedTargetIndex' = lockedTargetIndex
      BY <2>2, <3>1 DEF StepGoesOn
    <3>. QED  BY <3>1, <3>2
  <2>3. ASSUME step PROVE Kept
    <3>1. PICK b \in {best(Now)} : StepDrops(Now, b) \/ StepGoesOn(Now, b)
      BY <2>3 DEF step
    <3>. HIDE DEF Kept
    <3>. QED  BY <3>1, <2>1, <2>2
  <2>4. ASSUME reset PROVE Kept
    <3>1. resets' # resets
      BY <2>4 DEF reset, IInv
    <3>. QED  BY <3>1
  <2>5. ASSUME changeSolver PROVE Kept
    <3>1. drone' = drone /\ targetLocked' = targetLocked /\ lockedTargetIndex' = lockedTargetIndex
      BY <2>5 DEF changeSolver, flags
    <3>. QED  BY <3>1, <2>0
  <2>. HIDE DEF Kept
  <2>. QED  BY <2>3, <2>4, <2>5 DEF Next
<1>2. [][Kept]_vars => LockIsKept
  BY PTL DEF LockIsKept
<1>3. Spec => [][Next]_vars
  BY PTL DEF Spec
<1>. QED  BY <1>1, <1>2, <1>3, Invariance, PTL

-------------------------------------------------------------------------------
(* A mission flown again drops the same. *)

(* The step from m, if it does not drop; whether it does, and what.        *)
After(m) ==
  [config |-> m.config, ballistics |-> m.ballistics,
   drone |-> Flown(m, best(m)), simulationTime |-> NextTime(m),
   targetLocked |-> m.targetLocked \/ Locks(m, best(m)),
   lockedTargetIndex |-> IF Locks(m, best(m)) THEN best(m).targetIndex ELSE m.lockedTargetIndex,
   returningFromManuver |-> Returning(m, best(m)) \/ atManeuverPoint(m, best(m)),
   maneuverTargetIndex |-> IF headingToManeuver(m, best(m)) THEN best(m).targetIndex
                           ELSE m.maneuverTargetIndex]

Drops(m)   == dropNow(m, best(m), Flown(m, best(m)))
Dropped(m) == DropOf(m, best(m), Flown(m, best(m)))

(* A mission starts with the desiredDir of the one before.                 *)
Start(c, desired) ==
  [config |-> c, ballistics |-> c.ballistics, drone |-> NewDrone(c, desired), simulationTime |-> 0,
   targetLocked |-> FALSE, lockedTargetIndex |-> -1, returningFromManuver |-> FALSE,
   maneuverTargetIndex |-> -1]

(* f is the first mission of c, as far as n steps. *)
Flight(c, f, n) ==
  /\ f[0] = Start(c, 1)
  /\ \A i \in 0 .. n - 1 : ~ Drops(f[i]) /\ f[i + 1] = After(f[i])

(* There is only one place where it drops. *)
LEMMA OneFlight ==
  ASSUME NEW c, NEW f, NEW g, NEW n \in Nat, NEW k \in Nat,
         Flight(c, f, n), Flight(c, g, k), Drops(f[n]), Drops(g[k])
  PROVE  f[n] = g[k]
<1>. DEFINE Differ == {i \in Nat : i <= n /\ i <= k /\ f[i] # g[i]}
<1>1. Differ = {}
  <2>. SUFFICES ASSUME Differ # {} PROVE FALSE
    OBVIOUS
  <2>1. PICK i \in Differ : \A j \in Differ : i <= j
    <3>1. Differ \subseteq Nat
      OBVIOUS
    <3>. HIDE DEF Differ
    <3>. QED  BY <3>1, Least
  <2>2. i # 0
    BY <2>1 DEF Flight
  <2>3. i - 1 \in Nat /\ i - 1 \in 0 .. n - 1 /\ i - 1 \in 0 .. k - 1 /\ (i - 1) + 1 = i
    BY <2>1, <2>2
  <2>4. f[i - 1] = g[i - 1]
    <3>1. ~ (i <= i - 1)
      BY <2>1
    <3>2. i - 1 \notin Differ
      BY <2>1, <2>3, <3>1
    <3>. QED  BY <2>1, <2>3, <3>2
  <2>5. f[(i - 1) + 1] = After(f[i - 1]) /\ g[(i - 1) + 1] = After(g[i - 1])
    BY <2>3 DEF Flight
  <2>. QED  BY <2>1, <2>3, <2>4, <2>5
<1>2. ~ n < k
  <2>. SUFFICES ASSUME n < k PROVE FALSE
    OBVIOUS
  <2>1. f[n] = g[n] /\ n \in 0 .. k - 1
    BY <1>1
  <2>. QED  BY <2>1 DEF Flight
<1>3. ~ k < n
  <2>. SUFFICES ASSUME k < n PROVE FALSE
    OBVIOUS
  <2>1. f[k] = g[k] /\ k \in 0 .. n - 1
    BY <1>1
  <2>. QED  BY <2>1 DEF Flight
<1>4. n = k
  BY <1>2, <1>3
<1>. QED  BY <1>1, <1>4

(* A flight can be continued. *)
LEMMA FlightGoesOn ==
  ASSUME NEW c, NEW f, NEW n \in Nat, Flight(c, f, n), ~ Drops(f[n])
  PROVE  \E g : Flight(c, g, n + 1) /\ g[n + 1] = After(f[n])
<1>. DEFINE g == [i \in 0 .. n + 1 |-> IF i = n + 1 THEN After(f[n]) ELSE f[i]]
<1>1. g[n + 1] = After(f[n]) /\ \A i \in 0 .. n : g[i] = f[i]
  OBVIOUS
<1>. HIDE DEF g
<1>2. g[0] = Start(c, 1)
  BY <1>1 DEF Flight
<1>3. ASSUME NEW i \in 0 .. (n + 1) - 1
      PROVE  ~ Drops(g[i]) /\ g[i + 1] = After(g[i])
  <2>1. CASE i = n
    BY <1>1, <2>1
  <2>2. CASE i # n
    <3>1. i \in 0 .. n - 1 /\ i \in 0 .. n /\ i + 1 \in 0 .. n
      BY <2>2
    <3>. QED  BY <1>1, <3>1 DEF Flight
  <2>. QED  BY <2>1, <2>2
<1>. QED  BY <1>1, <1>2, <1>3 DEF Flight

(* What step() makes of the processor (MissionProcessor.cpp:140-277).      *)
LEMMA StepFollows ==
  ASSUME NEW b, b = best(Now)
  PROVE  /\ StepGoesOn(Now, b) => Now' = After(Now) /\ ~ Drops(Now)
         /\ StepDrops(Now, b) => Drops(Now) /\ drops' = Append(drops, Dropped(Now))
<1>1. ASSUME StepFlies(Now, b)
      PROVE  /\ drone' = Flown(Now, b) /\ simulationTime' = NextTime(Now)
             /\ config' = config /\ ballistics' = ballistics
  BY <1>1 DEF StepFlies
<1>2. ASSUME StepGoesOn(Now, b)
      PROVE  Now' = After(Now) /\ ~ Drops(Now)
  <2>1. /\ StepFlies(Now, b) /\ ~ dropNow(Now, b, drone')
        /\ targetLocked' = (targetLocked \/ Locks(Now, b))
        /\ lockedTargetIndex' = IF Locks(Now, b) THEN b.targetIndex ELSE lockedTargetIndex
        /\ returningFromManuver' = (Returning(Now, b) \/ atManeuverPoint(Now, b))
        /\ maneuverTargetIndex' = IF headingToManeuver(Now, b) THEN b.targetIndex
                                  ELSE maneuverTargetIndex
    BY <1>2 DEF StepGoesOn
  <2>2. Now' = [config |-> config', ballistics |-> ballistics', drone |-> drone',
                simulationTime |-> simulationTime', targetLocked |-> targetLocked',
                lockedTargetIndex |-> lockedTargetIndex',
                returningFromManuver |-> returningFromManuver',
                maneuverTargetIndex |-> maneuverTargetIndex']
    BY DEF Now
  <2>3. Now' = After(Now)
    BY <1>1, <2>1, <2>2, NowFields, Zenon DEF After
  <2>. QED  BY <1>1, <2>1, <2>3 DEF Drops
<1>3. ASSUME StepDrops(Now, b)
      PROVE  Drops(Now) /\ drops' = Append(drops, Dropped(Now))
  BY <1>1, <1>3 DEF StepDrops, Drops, Dropped
<1>. QED  BY <1>2, <1>3

-------------------------------------------------------------------------------
(* Where the drone stands. *)

(* The direction from x to a target, and to the right when it is there.    *)
Side(x, target) == IF x <= target THEN 1 ELSE -1

(* Drop point and manoeuvre point lie on the drone's side of the target    *)
(* (TargetAnalyzer.cpp:203-227).                                           *)
LEMMA DropPointIs ==
  ASSUME NEW x \in Int, NEW h \in Nat, NEW target \in Int
  PROVE  LET p == calculateDropPoint(x, h)[target] IN
         /\ p.needManeuver <=> Distance(x, target) < h + accelPath
         /\ p.needManeuver => p.maneuverPoint = target - Side(x, target) * (h + accelPath)
         /\ p.dropPoint = target - Side(x, target) * h
<1>. DEFINE reach == h + accelPath
            need  == reach > Distance(x, target)
            point == IF x = target THEN target - reach
                     ELSE target - DirectionTo(x, target) * reach
            from  == IF need THEN point ELSE x
            drop  == IF from = target THEN from ELSE target - DirectionTo(from, target) * h
<1>1. reach \in Nat \ {0} /\ h < reach
  BY ConfigAssumption
<1>2. point = target - Side(x, target) * reach
  BY <1>1 DEF DirectionTo, Side
<1>3. Distance(x, target) \in Nat
  BY DistanceType
<1>4. from # target /\ (from < target <=> x <= target)
  <2>1. CASE need
    BY <1>1, <1>2, <2>1 DEF Side
  <2>2. CASE ~ need
    BY <1>1, <2>2 DEF Distance
  <2>. QED  BY <2>1, <2>2
<1>5. drop = target - Side(x, target) * h
  BY <1>4 DEF DirectionTo, Side
<1>6. calculateDropPoint(x, h)[target] =
        [needManeuver |-> need, maneuverPoint |-> IF need THEN point ELSE 0, dropPoint |-> drop]
  BY Zenon DEF calculateDropPoint, reach, need, point, from, drop
<1>7. need <=> Distance(x, target) < reach
  BY <1>1, <1>3
<1>. HIDE DEF need, point, drop
<1>. QED  BY <1>2, <1>5, <1>6, <1>7

(* What the evaluation of a target says of it (TargetAnalyzer.cpp:229-257).*)
LEMMA EvaluationIs ==
  ASSUME NEW track \in Track, NEW i \in Nat, NEW d \in Drone, NEW t \in Nat,
         NEW solution \in BallisticsResult, NEW returning
  PROVE  LET e == evaluateTarget(track, i, d, t, solution, returning)
             h == solution.horizontalDistance
             x == d.position
         IN  /\ e.predictedTarget = predictTargetPosition(track, t, solution.flightTime)
             /\ e.needManeuver <=> /\ Distance(x, e.predictedTarget) < h + accelPath
                                   /\ ~ (returning /\ i = d.currentTargetIndex)
             /\ e.needManeuver => e.maneuverPoint = e.predictedTarget
                                                      - Side(x, e.predictedTarget) * (h + accelPath)
             /\ e.dropPoint = e.predictedTarget - Side(x, e.predictedTarget) * h
<1>. DEFINE predicted == predictTargetPosition(track, t, solution.flightTime)
            forgo  == returning /\ i = d.currentTargetIndex
            points == calculateDropPoint(d.position, solution.horizontalDistance)[predicted]
            path   == [points EXCEPT !.needManeuver = @ /\ ~ forgo]
            result == [targetIndex |-> i, totalTime |-> estimateTimeToTargetPath(d, i, path),
                       needManeuver |-> path.needManeuver, maneuverPoint |-> path.maneuverPoint,
                       dropPoint |-> path.dropPoint, predictedTarget |-> predicted]
<1>1. solution.flightTime \in Nat /\ solution.horizontalDistance \in Nat /\ d.position \in Int
  BY DEF BallisticsResult, Drone
<1>2. predicted \in Int
  BY <1>1, PredictionType
<1>. HIDE DEF predicted
<1>3. points \in Path
  BY <1>1, <1>2, DropPointType
<1>4. /\ points.needManeuver <=> Distance(d.position, predicted) < solution.horizontalDistance + accelPath
      /\ points.needManeuver => points.maneuverPoint = predicted - Side(d.position, predicted)
                                                         * (solution.horizontalDistance + accelPath)
      /\ points.dropPoint = predicted - Side(d.position, predicted) * solution.horizontalDistance
  BY <1>1, <1>2, DropPointIs
<1>. HIDE DEF points, forgo
<1>5. /\ path \in Path /\ path.dropPoint = points.dropPoint /\ path.maneuverPoint = points.maneuverPoint
      /\ path.needManeuver <=> points.needManeuver /\ ~ forgo
  BY <1>3 DEF Path
<1>. HIDE DEF path
<1>6. evaluateTarget(track, i, d, t, solution, returning) = result
  BY <1>2, <1>5, Zenon DEF evaluateTarget, predicted, points, path, forgo
<1>7. /\ result.predictedTarget = predicted /\ result.needManeuver = path.needManeuver
      /\ result.maneuverPoint = path.maneuverPoint /\ result.dropPoint = path.dropPoint
  OBVIOUS
<1>. HIDE DEF result
<1>8. predicted = predictTargetPosition(track, t, solution.flightTime)
  BY DEF predicted
<1>. QED  BY <1>4, <1>5, <1>6, <1>7, <1>8 DEF forgo

LEMMA BestIs ==
  ASSUME IInv, NEW b, b = best(Now)
  PROVE  LET h == ballistics.horizontalDistance
             x == drone.position
         IN  /\ x \in Int /\ h \in Nat /\ b.predictedTarget \in Int /\ b.targetIndex \in Targets
             /\ config.targets[b.targetIndex] \in Track
             /\ b.predictedTarget = predictTargetPosition(config.targets[b.targetIndex],
                                                          simulationTime, ballistics.flightTime)
             /\ b.needManeuver <=> /\ Distance(x, b.predictedTarget) < h + accelPath
                                   /\ ~ (returningFromManuver /\ b.targetIndex = drone.currentTargetIndex)
             /\ b.needManeuver => b.maneuverPoint = b.predictedTarget
                                                      - Side(x, b.predictedTarget) * (h + accelPath)
             /\ b.dropPoint = b.predictedTarget - Side(x, b.predictedTarget) * h
<1>1. /\ config \in Configs /\ ballistics \in BallisticsResult /\ drone \in Drone
      /\ simulationTime \in Nat
  BY DEF IInv, TypeOK
<1>2. b \in BestTargetResult /\ b.targetIndex \in Targets /\ b = Evaluated(Now, b.targetIndex)
  BY BestType
<1>3. config.targets[b.targetIndex] \in Track /\ b.targetIndex \in Nat
  BY <1>1, <1>2, ConfigFacts
<1>4. b = evaluateTarget(config.targets[b.targetIndex], b.targetIndex, drone, simulationTime, ballistics,
                         returningFromManuver)
  BY <1>2, NowFields DEF Evaluated
<1>5. drone.position \in Int /\ ballistics.horizontalDistance \in Nat /\ b.predictedTarget \in Int
  BY <1>1, <1>2 DEF Drone, BallisticsResult, BestTargetResult
<1>. DEFINE h == ballistics.horizontalDistance
            x == drone.position
<1>6. /\ b.predictedTarget = predictTargetPosition(config.targets[b.targetIndex], simulationTime,
                                                  ballistics.flightTime)
      /\ b.needManeuver <=> /\ Distance(x, b.predictedTarget) < h + accelPath
                            /\ ~ (returningFromManuver /\ b.targetIndex = drone.currentTargetIndex)
      /\ b.needManeuver => b.maneuverPoint = b.predictedTarget - Side(x, b.predictedTarget) * (h + accelPath)
      /\ b.dropPoint = b.predictedTarget - Side(x, b.predictedTarget) * h
  <2>1. LET e == evaluateTarget(config.targets[b.targetIndex], b.targetIndex, drone, simulationTime,
                                ballistics, returningFromManuver)
        IN  /\ e.predictedTarget = predictTargetPosition(config.targets[b.targetIndex], simulationTime,
                                                        ballistics.flightTime)
            /\ e.needManeuver <=> /\ Distance(x, e.predictedTarget) < h + accelPath
                                  /\ ~ (returningFromManuver /\ b.targetIndex = drone.currentTargetIndex)
            /\ e.needManeuver => e.maneuverPoint = e.predictedTarget
                                                     - Side(x, e.predictedTarget) * (h + accelPath)
            /\ e.dropPoint = e.predictedTarget - Side(x, e.predictedTarget) * h
    BY <1>1, <1>3, EvaluationIs
  <2>. QED  BY <1>4, <2>1, Zenon
<1>. QED  BY <1>2, <1>3, <1>5, <1>6, Zenon

(* The hit radius is shorter than the path on which the drone reaches its  *)
(* full speed.                                                             *)
ShortHitRadius == \A c \in Configs : c.hitRadius < accelPath

(* A mission does not start at its first goal. *)
LEMMA StartIsAway ==
  ASSUME IInv, ShortHitRadius, NEW b, b = best(Now),
         ~ returningFromManuver, drone.state = "Stopped"
  PROVE  Goal(Now, b) # drone.position
<1>1. config.hitRadius \in Nat /\ config.hitRadius < accelPath /\ accelPath \in Nat
  BY ConfigFacts, ConfigAssumption DEF IInv, ShortHitRadius
<1>. DEFINE h == ballistics.horizontalDistance
            x == drone.position
            t == b.predictedTarget
            side == Side(x, t)
<1>2. /\ x \in Int /\ h \in Nat /\ t \in Int
      /\ b.needManeuver <=> Distance(x, t) < h + accelPath
      /\ b.needManeuver => b.maneuverPoint = t - side * (h + accelPath)
      /\ b.dropPoint = t - side * h
  BY BestIs
<1>3. /\ needManeuver(Now, b) <=> b.needManeuver
      /\ headingToManeuver(Now, b) <=> b.needManeuver /\ ~ Distance(x, b.maneuverPoint) <= config.hitRadius
  BY NowFields DEF Returning, needManeuver, atManeuverPoint, headingToManeuver
<1>4. Goal(Now, b) = IF headingToManeuver(Now, b) THEN b.maneuverPoint ELSE b.dropPoint
  BY DEF Goal
<1>. HIDE DEF h, x, t
<1>5. CASE headingToManeuver(Now, b)
  <2>1. b.maneuverPoint \in Int /\ ~ Distance(x, b.maneuverPoint) <= config.hitRadius
    BY <1>1, <1>2, <1>3, <1>5 DEF Side
  <2>. QED  BY <1>1, <1>2, <1>4, <1>5, <2>1 DEF Distance, x
<1>6. CASE ~ b.needManeuver
  BY <1>1, <1>2, <1>3, <1>4, <1>6 DEF Distance, Side, x
<1>7. CASE b.needManeuver /\ Distance(x, b.maneuverPoint) <= config.hitRadius
  BY <1>1, <1>2, <1>3, <1>4, <1>7 DEF Distance, Side, x
<1>. QED  BY <1>3, <1>5, <1>6, <1>7

(* An evaluation does not look at desiredDir.                              *)
LEMMA EvaluatedAlike ==
  ASSUME NEW d, NEW e,
         d.state = e.state, d.position = e.position, d.currentSpeed = e.currentSpeed,
         d.currentDir = e.currentDir, d.turnTargetDir = e.turnTargetDir,
         d.turnRemainingTime = e.turnRemainingTime, d.currentTargetIndex = e.currentTargetIndex,
         NEW track, NEW i, NEW t, NEW solution, NEW returning
  PROVE  evaluateTarget(track, i, d, t, solution, returning)
           = evaluateTarget(track, i, e, t, solution, returning)
<1>1. BeforeTheMove(d, i) = BeforeTheMove(e, i)
  BY Zenon DEF BeforeTheMove
<1>2. ASSUME NEW path
      PROVE  estimateTimeToTargetPath(d, i, path) = estimateTimeToTargetPath(e, i, path)
  BY <1>1, Zenon DEF estimateTimeToTargetPath
<1>. DEFINE evaluate(a, predicted) == [path \in Path |->
              [targetIndex     |-> i,
               totalTime       |-> estimateTimeToTargetPath(a, i, path),
               needManeuver    |-> path.needManeuver,
               maneuverPoint   |-> path.maneuverPoint,
               dropPoint       |-> path.dropPoint,
               predictedTarget |-> predicted]]
            forgo(a) == returning /\ i = a.currentTargetIndex
            aim(a) == [predicted \in Int |->
              evaluate(a, predicted)[[calculateDropPoint(a.position, solution.horizontalDistance)[predicted]
                                        EXCEPT !.needManeuver = @ /\ ~ forgo(a)]]]
<1>3. ASSUME NEW predicted
      PROVE  evaluate(d, predicted) = evaluate(e, predicted)
  BY <1>2
<1>4. forgo(d) = forgo(e)
  BY Zenon
<1>. HIDE DEF evaluate, forgo
<1>5. aim(d) = aim(e)
  BY <1>3, <1>4
<1>6. /\ evaluateTarget(track, i, d, t, solution, returning)
           = aim(d)[predictTargetPosition(track, t, solution.flightTime)]
      /\ evaluateTarget(track, i, e, t, solution, returning)
           = aim(e)[predictTargetPosition(track, t, solution.flightTime)]
  BY Zenon DEF evaluateTarget, evaluate, forgo
<1>. HIDE DEF aim
<1>. QED  BY <1>5, <1>6

(* With which desiredDir a mission starts makes no difference              *)
(* (MissionProcessor.cpp:279-303).                                         *)
LEMMA StartsAlike ==
  ASSUME IInv, ShortHitRadius, NEW desired, Now = Start(config, desired)
  PROVE  LET s == Start(config, 1) IN
         /\ After(s) = After(Now) /\ Dropped(s) = Dropped(Now)
         /\ Drops(s) <=> Drops(Now)
<1>. DEFINE s == Start(config, 1)
            b == best(Now)
<1>1. /\ s.config = Now.config /\ s.ballistics = Now.ballistics /\ s.simulationTime = Now.simulationTime
      /\ s.targetLocked = Now.targetLocked /\ s.lockedTargetIndex = Now.lockedTargetIndex
      /\ s.returningFromManuver = Now.returningFromManuver
      /\ s.maneuverTargetIndex = Now.maneuverTargetIndex
      /\ s.drone = NewDrone(config, 1) /\ Now.drone = NewDrone(config, desired)
      /\ ~ returningFromManuver /\ ~ Now.targetLocked
  BY NowFields DEF Start
<1>. HIDE DEF s
<1>2. /\ s.drone.state = Now.drone.state /\ s.drone.position = Now.drone.position
      /\ s.drone.currentSpeed = Now.drone.currentSpeed /\ s.drone.currentDir = Now.drone.currentDir
      /\ s.drone.turnTargetDir = Now.drone.turnTargetDir
      /\ s.drone.turnRemainingTime = Now.drone.turnRemainingTime
      /\ s.drone.currentTargetIndex = Now.drone.currentTargetIndex
      /\ Now.drone.state = "Stopped"
  BY <1>1 DEF NewDrone
<1>3. \A i : Evaluated(s, i) = Evaluated(Now, i)
  BY <1>1, <1>2, EvaluatedAlike DEF Evaluated
<1>4. best(s) = b
  <2>1. {Evaluated(s, i) : i \in DOMAIN s.config.targets} = {Evaluated(Now, i) : i \in DOMAIN Now.config.targets}
    BY <1>1, <1>3
  <2>2. Selected(s) = Selected(Now)
    BY <1>2, <2>1, Zenon DEF Selected
  <2>. QED  BY <1>1, <2>2, Zenon DEF best
<1>. HIDE DEF b
<1>5. /\ Returning(s, b) <=> Returning(Now, b)
      /\ needManeuver(s, b) <=> needManeuver(Now, b)
      /\ atManeuverPoint(s, b) <=> atManeuverPoint(Now, b)
      /\ headingToManeuver(s, b) <=> headingToManeuver(Now, b)
  BY <1>1, <1>2, Zenon DEF Returning, needManeuver, atManeuverPoint, headingToManeuver
<1>6. Goal(s, b) = Goal(Now, b) /\ (Locks(s, b) <=> Locks(Now, b))
  BY <1>1, <1>2, <1>5, Zenon DEF Goal, Locks, InReach
<1>7. Goal(Now, b) # Now.drone.position
  <2>1. drone.state = "Stopped" /\ Now.drone = drone
    BY <1>2, NowFields
  <2>. QED  BY <1>1, <2>1, StartIsAway DEF b
<1>8. desiredDir(s, b) = desiredDir(Now, b)
  BY <1>2, <1>6, <1>7, Zenon DEF desiredDir
<1>9. Flown(s, b) = Flown(Now, b)
  <2>1. [s.drone EXCEPT !.currentTargetIndex = b.targetIndex, !.desiredDir = desiredDir(s, b)]
          = [Now.drone EXCEPT !.currentTargetIndex = b.targetIndex, !.desiredDir = desiredDir(Now, b)]
    <3>. DEFINE fields == {"state", "position", "currentSpeed", "currentDir", "turnTargetDir",
                           "desiredDir", "turnRemainingTime", "currentTargetIndex"}
                e == desiredDir(Now, b)
    <3>1. /\ DOMAIN NewDrone(config, 1) = fields /\ DOMAIN NewDrone(config, desired) = fields
          /\ \A x \in fields \ {"desiredDir"} : NewDrone(config, 1)[x] = NewDrone(config, desired)[x]
      BY DEF NewDrone
    <3>2. ASSUME NEW r, DOMAIN r = fields, NEW target, NEW dir
          PROVE  [r EXCEPT !.currentTargetIndex = target, !.desiredDir = dir]
                   = [x \in fields |-> IF x = "currentTargetIndex" THEN target
                                       ELSE IF x = "desiredDir" THEN dir ELSE r[x]]
      BY <3>2
    <3>. HIDE DEF fields
    <3>3. [x \in fields |-> IF x = "currentTargetIndex" THEN b.targetIndex
                            ELSE IF x = "desiredDir" THEN e ELSE NewDrone(config, 1)[x]]
            = [x \in fields |-> IF x = "currentTargetIndex" THEN b.targetIndex
                                ELSE IF x = "desiredDir" THEN e ELSE NewDrone(config, desired)[x]]
      BY <3>1
    <3>4. e = desiredDir(s, b)
      BY <1>8
    <3>. HIDE DEF e
    <3>5. [NewDrone(config, 1) EXCEPT !.currentTargetIndex = b.targetIndex, !.desiredDir = e]
            = [NewDrone(config, desired) EXCEPT !.currentTargetIndex = b.targetIndex, !.desiredDir = e]
      BY <3>1, <3>2, <3>3, Zenon
    <3>. QED  BY <1>1, <3>4, <3>5, Zenon DEF e
  <2>. QED  BY <1>6, <2>1, Zenon DEF Flown
<1>10. NextTime(s) = NextTime(Now)
  BY <1>1 DEF NextTime
<1>11. Drops(s) <=> Drops(Now)
  BY <1>1, <1>4, <1>5, <1>9, Zenon DEF Drops, dropNow, b
<1>12. Dropped(s) = Dropped(Now)
  BY <1>1, <1>4, <1>9, Zenon DEF Dropped, DropOf, b
<1>13. After(s) = After(Now)
  <2>1. /\ (s.targetLocked \/ Locks(s, best(s))) = (Now.targetLocked \/ Locks(Now, best(Now)))
        /\ (Returning(s, best(s)) \/ atManeuverPoint(s, best(s)))
              = (Returning(Now, best(Now)) \/ atManeuverPoint(Now, best(Now)))
        /\ (IF Locks(s, best(s)) THEN best(s).targetIndex ELSE s.lockedTargetIndex)
              = (IF Locks(Now, best(Now)) THEN best(Now).targetIndex ELSE Now.lockedTargetIndex)
        /\ (IF headingToManeuver(s, best(s)) THEN best(s).targetIndex ELSE s.maneuverTargetIndex)
              = (IF headingToManeuver(Now, best(Now)) THEN best(Now).targetIndex ELSE Now.maneuverTargetIndex)
        /\ Flown(s, best(s)) = Flown(Now, best(Now))
    BY <1>1, <1>4, <1>5, <1>6, <1>9, Zenon DEF b
  <2>. QED  BY <1>1, <1>10, <2>1, Zenon DEF After
<1>. QED  BY <1>11, <1>12, <1>13 DEF s

(* While the solver is the one it started with, the mission is on the way  *)
(* of the first one, or where it started, and every drop was made on that  *)
(* way.                                                                    *)
SameFlight ==
  /\ ballistics = config.ballistics
  /\ ~ missionComplete =>
       \/ \E desired : Now = Start(config, desired)
       \/ \E f : \E n \in Nat : Flight(config, f, n) /\ f[n] = Now
  /\ \A k \in 1 .. Len(drops) :
       \E f : \E n \in Nat : Flight(config, f, n) /\ Drops(f[n]) /\ drops[k] = Dropped(f[n])

FliesTheSame == changes \in Nat /\ (changes = 0 => SameFlight)

(* Where it stands, the first mission stood, or did as well as it.         *)
LEMMA OnTheWay ==
  ASSUME IInv, ShortHitRadius, SameFlight, ~ missionComplete
  PROVE  \E f : \E n \in Nat : /\ Flight(config, f, n)
                               /\ After(f[n]) = After(Now) /\ Dropped(f[n]) = Dropped(Now)
                               /\ Drops(f[n]) <=> Drops(Now)
<1>1. ASSUME NEW desired, Now = Start(config, desired)
      PROVE  \E f : \E n \in Nat : /\ Flight(config, f, n)
                                   /\ After(f[n]) = After(Now) /\ Dropped(f[n]) = Dropped(Now)
                                   /\ Drops(f[n]) <=> Drops(Now)
  <2>. DEFINE f == [i \in 0 .. 0 |-> Start(config, 1)]
  <2>1. f[0] = Start(config, 1)
    OBVIOUS
  <2>2. Flight(config, f, 0) /\ 0 \in Nat
    BY <2>1 DEF Flight
  <2>3. /\ After(f[0]) = After(Now) /\ Dropped(f[0]) = Dropped(Now)
        /\ Drops(f[0]) <=> Drops(Now)
    BY <1>1, <2>1, StartsAlike
  <2>. HIDE DEF f
  <2>. QED  BY <2>2, <2>3
<1>2. ASSUME NEW f, NEW n \in Nat, Flight(config, f, n), f[n] = Now
      PROVE  \E g : \E k \in Nat : /\ Flight(config, g, k)
                                   /\ After(g[k]) = After(Now) /\ Dropped(g[k]) = Dropped(Now)
                                   /\ Drops(g[k]) <=> Drops(Now)
  BY <1>2, Zenon
<1>. QED  BY <1>1, <1>2, Zenon DEF SameFlight

LEMMA SameFlightGoesOn ==
  ASSUME IInv, ShortHitRadius, SameFlight, step
  PROVE  SameFlight'
<1>1. PICK b : b = best(Now) /\ (StepDrops(Now, b) \/ StepGoesOn(Now, b))
  BY DEF step
<1>2. ~ missionComplete /\ config' = config /\ ballistics' = ballistics
  BY <1>1 DEF StepDrops, StepGoesOn, StepFlies, hasNext
<1>3. PICK f : \E n \in Nat : /\ Flight(config, f, n)
                              /\ After(f[n]) = After(Now) /\ Dropped(f[n]) = Dropped(Now)
                              /\ Drops(f[n]) <=> Drops(Now)
  BY <1>2, OnTheWay
<1>4. PICK n \in Nat : /\ Flight(config, f, n)
                       /\ After(f[n]) = After(Now) /\ Dropped(f[n]) = Dropped(Now)
                       /\ Drops(f[n]) <=> Drops(Now)
  BY <1>3
<1>5. ballistics' = config'.ballistics
  BY <1>2 DEF SameFlight
<1>6. CASE StepGoesOn(Now, b)
  <2>1. Now' = After(Now) /\ ~ Drops(Now) /\ drops' = drops
    BY <1>1, <1>6, StepFollows DEF StepGoesOn
  <2>2. PICK g : Flight(config, g, n + 1) /\ g[n + 1] = After(f[n])
    BY <1>4, <2>1, FlightGoesOn
  <2>3. n + 1 \in Nat /\ Flight(config', g, n + 1) /\ g[n + 1] = Now'
    BY <1>2, <1>4, <2>1, <2>2
  <2>4. \E h : \E k \in Nat : Flight(config', h, k) /\ h[k] = Now'
    BY <2>3, Zenon
  <2>. QED  BY <1>2, <1>5, <2>1, <2>4 DEF SameFlight
<1>7. CASE StepDrops(Now, b)
  <2>1. Drops(Now) /\ drops' = Append(drops, Dropped(Now)) /\ missionComplete'
    BY <1>1, <1>7, StepFollows DEF StepDrops
  <2>2. drops \in Seq(Drop) /\ Len(drops') = Len(drops) + 1 /\ Len(drops) \in Nat
    BY <1>1, <1>7, StepDropsKeeps DEF IInv
  <2>3. ASSUME NEW k \in 1 .. Len(drops')
        PROVE  \E h : \E i \in Nat : Flight(config', h, i) /\ Drops(h[i]) /\ drops'[k] = Dropped(h[i])
    <3>1. CASE k = Len(drops) + 1
      <4>1. drops'[k] = Dropped(Now)
        BY <2>1, <2>2, <3>1
      <4>. QED  BY <1>2, <1>4, <2>1, <4>1
    <3>2. CASE k # Len(drops) + 1
      <4>1. k \in 1 .. Len(drops) /\ drops'[k] = drops[k]
        BY <2>1, <2>2, <3>2
      <4>. QED  BY <1>2, <4>1 DEF SameFlight
    <3>. QED  BY <3>1, <3>2
  <2>. QED  BY <1>5, <2>1, <2>3 DEF SameFlight
<1>. QED  BY <1>1, <1>6, <1>7

LEMMA FliesTheSameInvariance ==
  ASSUME ShortHitRadius
  PROVE  Spec => []FliesTheSame
<1>1. Init => FliesTheSame
  <2>. SUFFICES ASSUME Init PROVE FliesTheSame
    OBVIOUS
  <2>1. Now = Start(config, 1) /\ ballistics = config.ballistics /\ changes = 0 /\ drops = << >>
    BY DEF Init, Now, Start
  <2>2. \E desired : Now = Start(config, desired)
    BY <2>1
  <2>. QED  BY <2>1, <2>2 DEF FliesTheSame, SameFlight
<1>2. IInv /\ FliesTheSame /\ [Next]_vars => FliesTheSame'
  <2>. SUFFICES ASSUME IInv, FliesTheSame, [Next]_vars PROVE FliesTheSame'
    OBVIOUS
  <2>1. CASE step
    <3>1. changes' = changes
      BY <2>1 DEF step, StepDrops, StepGoesOn, StepFlies
    <3>. QED  BY <2>1, <3>1, SameFlightGoesOn DEF FliesTheSame
  <2>2. CASE reset
    <3>1. /\ config' = config /\ ballistics' = ballistics /\ drops' = drops /\ changes' = changes
          /\ drone' = NewDrone(config, drone.desiredDir) /\ simulationTime' = 0
          /\ targetLocked' = FALSE /\ lockedTargetIndex' = -1
          /\ returningFromManuver' = FALSE /\ maneuverTargetIndex' = -1
      BY <2>2 DEF reset
    <3>2. ASSUME changes = 0
          PROVE  SameFlight'
      <4>1. SameFlight
        BY <3>2 DEF FliesTheSame
      <4>2. Now' = Start(config', drone.desiredDir)
        BY <3>1, <4>1 DEF Now, Start, SameFlight
      <4>3. \E desired : Now' = Start(config', desired)
        BY <4>2
      <4>. QED  BY <3>1, <4>1, <4>3 DEF SameFlight
    <3>. QED  BY <3>1, <3>2 DEF FliesTheSame
  <2>3. CASE changeSolver
    <3>1. changes' = changes + 1
      BY <2>3 DEF changeSolver
    <3>. QED  BY <3>1 DEF FliesTheSame
  <2>4. CASE UNCHANGED vars
    BY <2>4 DEF vars, flags, FliesTheSame, SameFlight, Now
  <2>. QED  BY <2>1, <2>2, <2>3, <2>4 DEF Next
<1>. QED  BY <1>1, <1>2, Invariance, PTL DEF Spec

(* A mission flown again after reset() drops the same at the same place,   *)
(* although reset() keeps desiredDir, as long as the drone does not start  *)
(* within hitRadius of its first goal (MissionProcessor.cpp:279-303).      *)
THEOREM FliesTheSameAgain ==
  ASSUME ShortHitRadius
  PROVE  Spec => []SameAgain
<1>1. FliesTheSame => SameAgain
  <2>. SUFFICES ASSUME SameFlight, NEW k \in 1 .. Len(drops), NEW l \in 1 .. Len(drops)
                PROVE  drops[k] = drops[l]
    BY DEF FliesTheSame, SameAgain
  <2>. QED  BY OneFlight DEF SameFlight
<1>. QED  BY <1>1, FliesTheSameInvariance, PTL

-------------------------------------------------------------------------------
(* In level flight it hits a target at rest. *)

(* A target at rest stays where it is (TargetAnalyzer.cpp:9-54, 199-201).  *)
LEMMA RestingTarget ==
  ASSUME NEW track \in Track, \A s, t \in DOMAIN track : track[s] = track[t],
         NEW t \in Nat, NEW f \in Nat
  PROVE  predictTargetPosition(track, t, f) = track[0]
<1>. USE ConfigAssumption
<1>1. DOMAIN track = 0 .. timeSteps - 1 /\ 0 \in 0 .. timeSteps - 1 /\ track[0] \in Int
  BY DEF Track
<1>2. ASSUME NEW u \in Nat
      PROVE  interpolateTargetPosition(track, u) = track[0]
  <2>. DEFINE idx  == (u \div arrayTimeStep) % timeSteps
              next == (idx + 1) % timeSteps
  <2>1. idx \in 0 .. timeSteps - 1
    BY Division
  <2>. HIDE DEF idx
  <2>2. next \in 0 .. timeSteps - 1
    BY <2>1, Division
  <2>. HIDE DEF next
  <2>3. track[idx] = track[0] /\ track[next] = track[0]
    BY <1>1, <2>1, <2>2
  <2>4. (track[0] - track[0]) \div arrayTimeStep = 0 /\ u % arrayTimeStep \in Int
    BY <1>1, Division
  <2>5. interpolateTargetPosition(track, u) =
          track[idx] + ((track[next] - track[idx]) \div arrayTimeStep) * (u % arrayTimeStep)
    BY DEF interpolateTargetPosition, idx, next
  <2>. QED  BY <1>1, <2>3, <2>4, <2>5
<1>3. t + arrayTimeStep \in Nat
  OBVIOUS
<1>4. calculateTargetVelocity(track, t) = 0
  <2>1. (track[0] - track[0]) \div arrayTimeStep = 0
    BY <1>1
  <2>. QED  BY <1>2, <1>3, <2>1 DEF calculateTargetVelocity
<1>. QED  BY <1>1, <1>2, <1>4 DEF predictTargetPosition

(* No further than the goal. *)
LEMMA MovesTowards ==
  ASSUME NEW x \in Int, NEW goal \in Int, NEW most \in Nat
  PROVE  LET y == moveDroneToPoint(x, goal, most) IN
         /\ y \in Int
         /\ x <= goal => x <= y /\ y <= goal
         /\ goal <= x => goal <= y /\ y <= x
<1>1. CASE Distance(x, goal) <= most
  BY <1>1 DEF moveDroneToPoint
<1>2. CASE ~ Distance(x, goal) <= most
  BY <1>2 DEF moveDroneToPoint, Distance, DirectionTo
<1>. QED  BY <1>1, <1>2

Between(x, y, goal) ==
  /\ x <= goal => x <= y /\ y <= goal
  /\ goal <= x => goal <= y /\ y <= x

(* Where a step takes the drone (src/states/). *)
LEMMA ExecuteMoves ==
  ASSUME NEW d \in Drone, Fits(d), NEW goal \in Int
  PROVE  LET e == execute(goal)[d] IN
         /\ d.state # "Decelerating" => Between(d.position, e.position, goal)
         /\ d.state = "Moving" /\ e.state = "Moving" => e.currentDir = d.desiredDir
         /\ d.state = "Decelerating" /\ e.state # "Decelerating" =>
              e.state # "Moving" /\ Distance(d.position, e.position) <= acceleration \div 2
<1>. DEFINE e == execute(goal)[d]
<1>1. /\ d.position \in Int /\ d.currentSpeed \in 0 .. attackSpeed /\ attackSpeed \in Nat
      /\ acceleration \in Nat \ {0} /\ d.currentDir \in Direction
      /\ d.state \in {"Stopped", "Turning", "Accelerating", "Moving", "Decelerating"}
  BY ConfigAssumption DEF Drone
<1>2. Between(d.position, d.position, goal)
  BY <1>1 DEF Between
<1>3. CASE d.state = "Stopped"
  <2>1. e = StateStopped(d)
    BY <1>3, Zenon DEF execute
  <2>2. e.position = d.position
    BY <2>1 DEF StateStopped, StartsTurning, Drone
  <2>. QED  BY <1>2, <1>3, <2>2
<1>4. CASE d.state = "Turning"
  <2>1. e = StateTurning(d)
    BY <1>4 DEF execute
  <2>2. e.position = d.position
    BY <2>1 DEF StateTurning, Drone
  <2>. QED  BY <1>2, <1>4, <2>2
<1>5. CASE d.state = "Accelerating"
  <2>. DEFINE speed == IF d.currentSpeed + acceleration > attackSpeed THEN attackSpeed
                       ELSE d.currentSpeed + acceleration
              most == (d.currentSpeed + speed) \div 2
  <2>1. e = StateAccelerating(d, goal)
    BY <1>5 DEF execute
  <2>2. most \in Nat
    BY <1>1
  <2>3. e.position = moveDroneToPoint(d.position, goal, most)
    BY <2>1, Zenon DEF StateAccelerating, Drone, most, speed
  <2>. QED  BY <1>1, <1>5, <2>2, <2>3, MovesTowards DEF Between
<1>6. CASE d.state = "Moving"
  <2>. DEFINE ready == [d EXCEPT !.turnTargetDir = IF d.currentDir # d.desiredDir THEN d.desiredDir ELSE @]
              turns == d.currentDir # d.desiredDir /\ d.currentSpeed > 0
  <2>1. e = StateMoving(d, goal)
    BY <1>6 DEF execute
  <2>2. /\ ready.position = d.position /\ ready.currentDir = d.currentDir /\ ready \in Drone
    BY DEF Drone
  <2>3. e = IF turns THEN [ready EXCEPT !.state = "Decelerating"]
            ELSE [ready EXCEPT !.currentSpeed = attackSpeed,
                               !.position = moveDroneToPoint(ready.position, goal, attackSpeed)]
    BY <2>1, Zenon DEF StateMoving, ready, turns
  <2>. HIDE DEF ready
  <2>4. turns => e.position = d.position /\ e.state = "Decelerating"
    BY <2>2, <2>3 DEF Drone
  <2>5. ~ turns => /\ e.position = moveDroneToPoint(d.position, goal, attackSpeed)
                   /\ e.currentDir = d.desiredDir
    <3>1. ~ turns => d.currentDir = d.desiredDir
      BY <1>1, <1>6, ConfigAssumption DEF Fits
    <3>. QED  BY <2>2, <2>3, <3>1 DEF Drone
  <2>. QED  BY <1>1, <1>2, <1>6, <2>4, <2>5, MovesTowards DEF Between
<1>7. CASE d.state = "Decelerating"
  <2>. DEFINE speed == IF d.currentSpeed < acceleration THEN 0 ELSE d.currentSpeed - acceleration
              moved == [d EXCEPT !.currentSpeed = speed,
                                 !.position = @ + d.currentDir * ((d.currentSpeed + speed) \div 2)]
  <2>1. e = StateDecelerating(d)
    BY <1>7 DEF execute
  <2>2. e = IF speed > 0 THEN moved
            ELSE IF d.currentDir # d.desiredDir THEN StartsTurning(moved)
            ELSE [moved EXCEPT !.turnTargetDir = d.desiredDir, !.turnRemainingTime = 0,
                               !.state = "Accelerating"]
    BY <2>1, Zenon DEF StateDecelerating, speed, moved
  <2>. DEFINE fields == {"state", "position", "currentSpeed", "currentDir", "turnTargetDir",
                         "desiredDir", "turnRemainingTime", "currentTargetIndex"}
  <2>3. /\ moved.state = "Decelerating" /\ DOMAIN moved = fields
        /\ moved.position = d.position + d.currentDir * ((d.currentSpeed + speed) \div 2)
    BY <1>7 DEF Drone
  <2>. HIDE DEF moved, speed
  <2>4. e.state # "Decelerating" => ~ speed > 0 /\ e.position = moved.position /\ e.state # "Moving"
    <3>1. CASE speed > 0
      BY <2>2, <2>3, <3>1
    <3>2. CASE ~ speed > 0 /\ d.currentDir # d.desiredDir
      <4>1. e = [moved EXCEPT !.state = "Turning", !.turnTargetDir = moved.desiredDir,
                              !.turnRemainingTime = HalfTurn]
        BY <2>2, <3>2, Zenon DEF StartsTurning
      <4>. QED  BY <2>3, <3>2, <4>1
    <3>3. CASE ~ speed > 0 /\ d.currentDir = d.desiredDir
      <4>1. e = [moved EXCEPT !.turnTargetDir = d.desiredDir, !.turnRemainingTime = 0,
                              !.state = "Accelerating"]
        BY <2>2, <3>3, Zenon
      <4>. QED  BY <2>3, <3>3, <4>1
    <3>. QED  BY <3>1, <3>2, <3>3
  <2>5. ~ speed > 0 => d.currentSpeed + speed \in 0 .. acceleration
    BY <1>1 DEF speed
  <2>6. ~ speed > 0 => Distance(d.position, moved.position) <= acceleration \div 2
    <3>. DEFINE half == (d.currentSpeed + speed) \div 2
    <3>1. ~ speed > 0 => half \in Nat /\ half <= acceleration \div 2
      BY <1>1, <2>5
    <3>. HIDE DEF half
    <3>2. moved.position = d.position + d.currentDir * half
      BY <2>3 DEF half
    <3>. QED  BY <1>1, <3>1, <3>2 DEF Distance, Direction
  <2>. HIDE DEF e
  <2>. QED  BY <1>7, <2>4, <2>6 DEF e
<1>. QED  BY <1>1, <1>3, <1>4, <1>5, <1>6, <1>7

(* The last moment of braking still ends short of the drop point.          *)
BrakesInTime == \A c \in Configs : c.hitRadius + acceleration \div 2 <= accelPath

(* On the way from a manoeuvre to a target at rest the drone has not       *)
(* passed the drop point, and in level flight it is still ahead of it.     *)
AheadOfDrop ==
  drone.currentTargetIndex \in Targets /\ returningFromManuver =>
    LET away == Distance(drone.position, config.targets[drone.currentTargetIndex][0])
    IN  /\ drone.state # "Decelerating" => away >= ballistics.horizontalDistance
        /\ drone.state = "Moving" => away > ballistics.horizontalDistance

InOrder == changes \in Nat /\ (changes = 0 /\ AtRest => AheadOfDrop)

(* Where step() goes for the drop the drone is far enough from the target, *)
(* or it comes from the manoeuvre (MissionProcessor.cpp:177-213).          *)
LEMMA FarEnough ==
  ASSUME IInv, BrakesInTime, NEW b, b = best(Now), ~ headingToManeuver(Now, b)
  PROVE  \/ Distance(drone.position, b.predictedTarget)
              >= ballistics.horizontalDistance + accelPath - config.hitRadius
         \/ returningFromManuver /\ b.targetIndex = drone.currentTargetIndex /\ ~ atManeuverPoint(Now, b)
<1>. DEFINE h == ballistics.horizontalDistance
            x == drone.position
            t == b.predictedTarget
<1>1. /\ x \in Int /\ h \in Nat /\ t \in Int /\ b.targetIndex \in Targets
      /\ b.needManeuver <=> /\ Distance(x, t) < h + accelPath
                            /\ ~ (returningFromManuver /\ b.targetIndex = drone.currentTargetIndex)
      /\ b.needManeuver => b.maneuverPoint = t - Side(x, t) * (h + accelPath)
  BY BestIs
<1>2. config.hitRadius \in Nat /\ accelPath \in Nat /\ Targets \subseteq Nat
  BY ConfigFacts, ConfigAssumption DEF IInv
<1>3. CASE ~ b.needManeuver
  <2>1. ~ atManeuverPoint(Now, b)
    BY <1>3 DEF atManeuverPoint, needManeuver
  <2>2. Distance(x, t) \in Int
    BY <1>1 DEF Distance
  <2>. HIDE DEF x, t, h
  <2>3. Distance(x, t) < h + accelPath \/ Distance(x, t) >= h + accelPath - config.hitRadius
    BY <1>1, <1>2, <2>2
  <2>. QED  BY <1>1, <1>3, <2>1, <2>3 DEF x, t, h
<1>4. CASE b.needManeuver
  <2>1. ~ Returning(Now, b)
    <3>1. maneuverTargetIndex \in {-1, lockedTargetIndex} /\ -1 \notin Targets
      BY <1>2 DEF IInv, FlagsAgree
    <3>2. targetLocked <=> lockedTargetIndex # -1
      BY DEF IInv, FlagsAgree
    <3>3. targetLocked => drone.currentTargetIndex = lockedTargetIndex
      BY DEF IInv, FlagsAgree
    <3>4. ~ (returningFromManuver /\ b.targetIndex = maneuverTargetIndex)
      BY <1>1, <1>4, <3>1, <3>2, <3>3
    <3>. QED  BY <1>4, <3>4, NowFields DEF Returning
  <2>2. Distance(x, b.maneuverPoint) <= config.hitRadius
    BY <1>4, <2>1, NowFields DEF headingToManeuver, needManeuver, atManeuverPoint
  <2>3. b.maneuverPoint = t - Side(x, t) * (h + accelPath)
    BY <1>1, <1>4
  <2>. HIDE DEF x, t, h
  <2>4. Distance(x, t) >= h + accelPath - config.hitRadius
    BY <1>1, <1>2, <2>2, <2>3 DEF Distance, Side
  <2>. QED  BY <2>4 DEF x, t, h
<1>. QED  BY <1>3, <1>4

(* The step with which execute() is called.                                *)
LEMMA StepMoves ==
  ASSUME IInv, NEW b, b = best(Now), StepFlies(Now, b)
  PROVE  /\ drone.state # "Decelerating" => Between(drone.position, drone'.position, Goal(Now, b))
         /\ drone.state = "Moving" /\ drone'.state = "Moving" => drone'.currentDir = desiredDir(Now, b)
         /\ drone.state = "Decelerating" /\ drone'.state # "Decelerating" =>
              /\ drone'.state # "Moving"
              /\ Distance(drone.position, drone'.position) <= acceleration \div 2
<1>. DEFINE d == [drone EXCEPT !.currentTargetIndex = b.targetIndex, !.desiredDir = desiredDir(Now, b)]
<1>1. drone \in Drone /\ Fits(drone) /\ b \in BestTargetResult
  BY BestType DEF IInv, TypeOK, Fits
<1>2. Goal(Now, b) \in Int /\ b.targetIndex \in Int
  BY <1>1 DEF BestTargetResult, Goal
<1>3. desiredDir(Now, b) \in Direction
  <2>1. drone.desiredDir \in Direction
    BY <1>1 DEF Drone
  <2>. QED  BY NowFields, <2>1, DirectionType DEF desiredDir
<1>4. /\ d \in Drone /\ Fits(d) /\ d.position = drone.position /\ d.state = drone.state
      /\ d.desiredDir = desiredDir(Now, b)
  BY <1>1, <1>2, <1>3 DEF Drone, Fits
<1>5. drone' = execute(Goal(Now, b))[d]
  BY NowFields, Zenon DEF Flown, StepFlies
<1>. HIDE DEF d
<1>. QED  BY <1>2, <1>4, <1>5, ExecuteMoves

(* The target at rest. *)
LEMMA TargetAtRest ==
  ASSUME IInv, AtRest, NEW b, b = best(Now)
  PROVE  b.predictedTarget = config.targets[b.targetIndex][0]
<1>1. /\ b.targetIndex \in Targets /\ config.targets[b.targetIndex] \in Track
      /\ b.predictedTarget = predictTargetPosition(config.targets[b.targetIndex],
                                                   simulationTime, ballistics.flightTime)
  BY BestIs
<1>2. simulationTime \in Nat /\ ballistics.flightTime \in Nat
  BY DEF IInv, TypeOK, BallisticsResult
<1>3. \A s, u \in DOMAIN config.targets[b.targetIndex] :
        config.targets[b.targetIndex][s] = config.targets[b.targetIndex][u]
  BY <1>1 DEF AtRest
<1>. QED  BY <1>1, <1>2, <1>3, RestingTarget

LEMMA StaysAhead ==
  ASSUME IInv, BrakesInTime, AtRest, AheadOfDrop, NEW b, b = best(Now), StepGoesOn(Now, b)
  PROVE  AheadOfDrop'
<1>. DEFINE h == ballistics.horizontalDistance
            x == drone.position
            y == drone'.position
            t == b.predictedTarget
            r == config.hitRadius
<1>1. /\ StepFlies(Now, b) /\ ~ dropNow(Now, b, drone')
      /\ returningFromManuver' = (Returning(Now, b) \/ atManeuverPoint(Now, b))
  BY DEF StepGoesOn
<1>2. /\ config' = config /\ ballistics' = ballistics /\ drone'.currentTargetIndex = b.targetIndex
      /\ y \in Int
  BY <1>1, StepFliesKeeps DEF Drone
<1>. SUFFICES ASSUME returningFromManuver'
              PROVE  /\ drone'.state # "Decelerating" => Distance(y, t) >= h
                     /\ drone'.state = "Moving" => Distance(y, t) > h
  BY <1>2, TargetAtRest DEF AheadOfDrop
<1>3. ~ headingToManeuver(Now, b)
  BY <1>1 DEF headingToManeuver, needManeuver
<1>4. /\ x \in Int /\ h \in Nat /\ t \in Int /\ r \in Nat /\ accelPath \in Nat
      /\ b.targetIndex \in Targets /\ acceleration \div 2 \in Nat /\ r + acceleration \div 2 <= accelPath
      /\ b.dropPoint = t - Side(x, t) * h /\ Goal(Now, b) = b.dropPoint
  <2>1. acceleration \div 2 \in Nat /\ accelPath \in Nat
    BY ConfigAssumption
  <2>. QED  BY <1>3, <2>1, BestIs, ConfigFacts DEF IInv, BrakesInTime, Goal
<1>5. \/ Distance(x, t) >= h + accelPath - r
      \/ returningFromManuver /\ b.targetIndex = drone.currentTargetIndex /\ ~ atManeuverPoint(Now, b)
  BY <1>3, FarEnough
<1>6. CASE drone.state # "Decelerating"
  <2>1. Distance(x, t) >= h
    <3>1. returningFromManuver /\ b.targetIndex = drone.currentTargetIndex => Distance(x, t) >= h
      BY <1>4, <1>6, TargetAtRest DEF AheadOfDrop
    <3>2. Distance(x, t) \in Int
      BY <1>4 DEF Distance
    <3>. HIDE DEF x, t, h, r
    <3>3. Distance(x, t) >= h + accelPath - r => Distance(x, t) >= h
      BY <1>4, <3>2
    <3>. QED  BY <1>5, <3>1, <3>3
  <2>2. Between(x, y, b.dropPoint)
    BY <1>1, <1>4, <1>6, StepMoves
  <2>3. drone'.state = "Moving" => ~ Distance(y, b.dropPoint) <= r
    BY <1>1, <1>3, NowFields DEF dropNow
  <2>. HIDE DEF x, y, t, h, r
  <2>4. Distance(y, t) >= h
    BY <1>2, <1>4, <2>1, <2>2 DEF Distance, Side, Between
  <2>5. ~ Distance(y, b.dropPoint) <= r => Distance(y, t) > h
    BY <1>2, <1>4, <2>1, <2>2 DEF Distance, Side, Between
  <2>. QED  BY <2>3, <2>4, <2>5
<1>7. CASE drone.state = "Decelerating"
  <2>1. atManeuverPoint(Now, b)
    BY <1>1, <1>7, NowFields DEF Returning
  <2>2. drone'.state # "Decelerating" => drone'.state # "Moving" /\ Distance(x, y) <= acceleration \div 2
    BY <1>1, <1>7, StepMoves
  <2>. HIDE DEF x, y, t, h, r
  <2>3. Distance(x, y) <= acceleration \div 2 => Distance(y, t) >= h
    BY <1>2, <1>4, <1>5, <2>1 DEF Distance
  <2>. QED  BY <2>2, <2>3
<1>. QED  BY <1>6, <1>7

LEMMA InOrderInvariance ==
  ASSUME BrakesInTime
  PROVE  Spec => []InOrder
<1>1. Init => InOrder
  BY DEF Init, InOrder, AheadOfDrop
<1>2. IInv /\ InOrder /\ [Next]_vars => InOrder'
  <2>. SUFFICES ASSUME IInv, InOrder, [Next]_vars PROVE InOrder'
    OBVIOUS
  <2>1. CASE step
    <3>1. PICK b : b = best(Now) /\ (StepDrops(Now, b) \/ StepGoesOn(Now, b))
      BY <2>1 DEF step
    <3>2. config' = config /\ changes' = changes
      BY <3>1 DEF StepDrops, StepGoesOn, StepFlies
    <3>3. AtRest' <=> AtRest
      BY <3>2 DEF AtRest, Targets
    <3>4. StepDrops(Now, b) => AheadOfDrop'
      BY DEF StepDrops, AheadOfDrop
    <3>5. AtRest /\ AheadOfDrop /\ StepGoesOn(Now, b) => AheadOfDrop'
      BY <3>1, StaysAhead
    <3>. QED  BY <3>1, <3>2, <3>3, <3>4, <3>5 DEF InOrder
  <2>2. CASE reset
    BY <2>2 DEF reset, InOrder, AheadOfDrop, AtRest, Targets
  <2>3. CASE changeSolver
    <3>1. changes' = changes + 1
      BY <2>3 DEF changeSolver
    <3>. QED  BY <3>1 DEF InOrder
  <2>4. CASE UNCHANGED vars
    BY <2>4 DEF vars, flags, InOrder, AheadOfDrop, AtRest, Targets
  <2>. QED  BY <2>1, <2>2, <2>3, <2>4 DEF Next
<1>. QED  BY <1>1, <1>2, Invariance, PTL DEF Spec

(* Unless the solver was changed, what a drone in level flight drops on a  *)
(* target at rest comes down within hitRadius of it: it is ahead of the    *)
(* drop point, so it flies towards the target, and it drops within         *)
(* hitRadius of that point (StateMoving.cpp:24-54,                         *)
(* MissionProcessor.cpp:177-213, 254-255).                                 *)
THEOREM LevelFlightHits ==
  ASSUME BrakesInTime
  PROVE  Spec => LevelDropsHit
<1>. DEFINE Hits == drops' # drops /\ drone.state = "Moving" /\ changes = 0 /\ AtRest
                      => drops'[Len(drops')].miss <= config.hitRadius
<1>1. IInv /\ InOrder /\ [Next]_vars => [Hits]_vars
  <2>. SUFFICES ASSUME IInv, InOrder, Next, drops' # drops, drone.state = "Moving", changes = 0, AtRest
                PROVE  drops'[Len(drops')].miss <= config.hitRadius
    BY Zenon
  <2>1. PICK b : b = best(Now) /\ StepDrops(Now, b)
    BY DEF Next, step, StepGoesOn, reset, changeSolver
  <2>. DEFINE h == ballistics.horizontalDistance
              x == drone.position
              y == drone'.position
              t == b.predictedTarget
              r == config.hitRadius
              aim == y + drone'.currentDir * h
  <2>2. /\ StepFlies(Now, b) /\ dropNow(Now, b, drone')
        /\ drops' = Append(drops, DropOf(Now, b, drone'))
    BY <2>1 DEF StepDrops
  <2>3. drops'[Len(drops')] = DropOf(Now, b, drone')
    BY <2>2 DEF IInv
  <2>4. DropOf(Now, b, drone').miss = Distance(aim, t)
    BY NowFields DEF DropOf
  <2>5. ~ headingToManeuver(Now, b) /\ drone'.state = "Moving" /\ Distance(y, b.dropPoint) <= r
    BY <2>2, NowFields DEF dropNow
  <2>6. /\ x \in Int /\ h \in Nat /\ t \in Int /\ r \in Nat /\ y \in Int
        /\ b.targetIndex \in Targets /\ acceleration \div 2 \in Nat \ {0} /\ accelPath \in Nat
        /\ r + acceleration \div 2 <= accelPath
        /\ b.dropPoint = t - Side(x, t) * h /\ Goal(Now, b) = b.dropPoint
    <3>1. acceleration \div 2 \in Nat \ {0} /\ accelPath \in Nat
      BY ConfigAssumption
    <3>2. y \in Int
      BY <2>1, <2>2, StepFliesKeeps DEF Drone
    <3>. QED  BY <2>1, <2>5, <3>1, <3>2, BestIs, ConfigFacts DEF IInv, BrakesInTime, Goal
  <2>7. Distance(x, t) > h
    <3>1. returningFromManuver /\ b.targetIndex = drone.currentTargetIndex => Distance(x, t) > h
      BY <2>1, <2>6, TargetAtRest DEF InOrder, AheadOfDrop
    <3>2. Distance(x, t) >= h + accelPath - r
            \/ (returningFromManuver /\ b.targetIndex = drone.currentTargetIndex)
      BY <2>1, <2>5, FarEnough
    <3>3. Distance(x, t) \in Int
      BY <2>6 DEF Distance
    <3>. HIDE DEF x, t, h, r
    <3>4. Distance(x, t) >= h + accelPath - r => Distance(x, t) > h
      BY <2>6, <3>3
    <3>. QED  BY <3>1, <3>2, <3>4
  <2>8. drone'.currentDir = desiredDir(Now, b)
    BY <2>1, <2>2, <2>5, StepMoves
  <2>9. desiredDir(Now, b) = IF b.dropPoint = x THEN drone.desiredDir ELSE DirectionTo(x, b.dropPoint)
    BY <2>6, NowFields DEF desiredDir
  <2>. HIDE DEF x, y, t, h, r
  <2>10. desiredDir(Now, b) = Side(x, t)
    BY <2>6, <2>7, <2>9 DEF Distance, DirectionTo, Side
  <2>11. Distance(aim, t) <= r
    BY <2>5, <2>6, <2>8, <2>10 DEF Distance, Side
  <2>. QED  BY <2>3, <2>4, <2>11 DEF r, t
<1>2. [][Hits]_vars => LevelDropsHit
  BY PTL DEF LevelDropsHit
<1>3. Spec => [][Next]_vars
  BY PTL DEF Spec
<1>. QED  BY <1>1, <1>2, <1>3, Invariance, InOrderInvariance, PTL
-------------------------------------------------------------------------------
(* Folds over finite sets, as functions on their subsets. *)

Small(S, n) == {T \in SUBSET S : Cardinality(T) <= n}

Picks(S, pick)   == \A T \in SUBSET S : T # {} => pick[T] \in T
Closed(S, D, op) == \A x \in S : \A d \in D : op[x][d] \in D

IsFold(S, base, pick, op, g) == g = [T \in SUBSET S |->
  IF T = {} THEN base ELSE op[pick[T]][g[T \ {pick[T]}]]]

(* A sum may begin with any element, and with any part.                    *)
BeginsAnywhere(S, f, g) == \A T \in SUBSET S : \A x \in T : g[T] = f[x] + g[T \ {x}]
Adds(S, g)              == \A A, B \in SUBSET S : A \cap B = {} => g[A \cup B] = g[A] + g[B]

(* The recursion of a fold has a solution, whatever it picks first.        *)
LEMMA FoldExists ==
  ASSUME NEW S, IsFiniteSet(S), NEW D, NEW base \in D,
         NEW pick, Picks(S, pick), NEW op, Closed(S, D, op)
  PROVE  \E g \in [SUBSET S -> D] : IsFold(S, base, pick, op, g)
<1>. USE DEF Picks, Closed
<1>. DEFINE Goes(n)  == \E g \in [Small(S, n) -> D] : \A T \in Small(S, n) :
                          g[T] = IF T = {} THEN base ELSE op[pick[T]][g[T \ {pick[T]}]]
<1>1. ASSUME NEW T \in SUBSET S  PROVE IsFiniteSet(T) /\ Cardinality(T) \in Nat
  BY FS_Subset, FS_CardinalityType
<1>2. ASSUME NEW n \in Nat, NEW T \in Small(S, n + 1), T # {}
      PROVE  pick[T] \in S /\ T \ {pick[T]} \in Small(S, n)
  <2>1. pick[T] \in T /\ T \in SUBSET S /\ Cardinality(T) <= n + 1
    BY <1>2 DEF Small
  <2>2. Cardinality(T \ {pick[T]}) = Cardinality(T) - 1
    BY <1>1, <2>1, FS_RemoveElement
  <2>3. Cardinality(T) \in Nat
    BY <1>1, <2>1
  <2>4. Cardinality(T \ {pick[T]}) <= n
    BY <2>1, <2>2, <2>3
  <2>. QED  BY <2>1, <2>4 DEF Small
<1>3. Goes(0)
  <2>1. ASSUME NEW T \in Small(S, 0)  PROVE T = {}
    <3>1. T \in SUBSET S /\ Cardinality(T) <= 0
      BY <2>1 DEF Small
    <3>2. IsFiniteSet(T) /\ Cardinality(T) = 0
      BY <1>1, <3>1
    <3>. QED  BY <3>2, FS_EmptySet
  <2>2. [T \in Small(S, 0) |-> base] \in [Small(S, 0) -> D]
    OBVIOUS
  <2>. QED  BY <2>1, <2>2
<1>4. ASSUME NEW n \in Nat, Goes(n)  PROVE Goes(n + 1)
  <2>1. PICK g \in [Small(S, n) -> D] : \A T \in Small(S, n) :
               g[T] = IF T = {} THEN base ELSE op[pick[T]][g[T \ {pick[T]}]]
    BY <1>4
  <2>. DEFINE h == [T \in Small(S, n + 1) |->
                      IF T = {} THEN base ELSE op[pick[T]][g[T \ {pick[T]}]]]
  <2>2. \A T \in Small(S, n) : T \in Small(S, n + 1)
    <3>1. ASSUME NEW T \in Small(S, n)  PROVE T \in Small(S, n + 1)
      <4>1. T \in SUBSET S /\ Cardinality(T) <= n
        BY <3>1 DEF Small
      <4>2. Cardinality(T) \in Nat
        BY <1>1, <4>1
      <4>3. Cardinality(T) <= n + 1
        BY <4>1, <4>2
      <4>. QED  BY <4>1, <4>3 DEF Small
    <3>. QED  BY <3>1
  <2>3. h \in [Small(S, n + 1) -> D]
    BY <1>2
  <2>4. \A T \in Small(S, n) : h[T] = g[T]
    BY <2>1, <2>2
  <2>5. \A T \in Small(S, n + 1) : h[T] = IF T = {} THEN base ELSE op[pick[T]][h[T \ {pick[T]}]]
    BY <1>2, <2>4
  <2>. QED  BY <2>3, <2>5
<1>5. Goes(Cardinality(S))
  <2>. HIDE DEF Goes
  <2>. DEFINE Not == {n \in Nat : ~ Goes(n)}
  <2>1. CASE Not = {}
    BY <2>1, <1>1
  <2>2. CASE Not # {}
    <3>1. PICK n \in Not : \A k \in Not : n <= k
      <4>1. Not \subseteq Nat
        OBVIOUS
      <4>. HIDE DEF Not
      <4>. QED  BY <2>2, <4>1, Least
    <3>2. n \in Nat /\ ~ Goes(n)
      BY <3>1
    <3>3. n # 0
      BY <1>3, <3>2
    <3>4. n - 1 \in Nat /\ n - 1 \notin Not
      <4>1. n - 1 \in Nat /\ ~ (n <= n - 1)
        BY <3>2, <3>3
      <4>. HIDE DEF Not
      <4>. QED  BY <3>1, <4>1
    <3>5. Goes(n - 1)
      BY <3>4
    <3>6. Goes((n - 1) + 1) /\ (n - 1) + 1 = n
      BY <1>4, <3>2, <3>4, <3>5
    <3>. QED  BY <3>2, <3>6
  <2>. QED  BY <2>1, <2>2
<1>6. Small(S, Cardinality(S)) = SUBSET S
  <2>1. \A T \in SUBSET S : Cardinality(T) <= Cardinality(S)
    BY FS_Subset
  <2>. QED  BY <2>1 DEF Small
<1>7. PICK g \in [SUBSET S -> D] : \A T \in SUBSET S :
               g[T] = IF T = {} THEN base ELSE op[pick[T]][g[T \ {pick[T]}]]
  BY <1>5, <1>6
<1>8. g = [T \in SUBSET S |-> IF T = {} THEN base ELSE op[pick[T]][g[T \ {pick[T]}]]]
  BY <1>7
<1>. QED  BY <1>8 DEF IsFold

(* A sum does not depend on the order.                                     *)
LEMMA SumIsAny ==
  ASSUME NEW S, IsFiniteSet(S), NEW f \in [S -> Int], NEW g \in [SUBSET S -> Int],
         NEW pick, Picks(S, pick),
         \A T \in SUBSET S : T # {} => g[T] = f[pick[T]] + g[T \ {pick[T]}]
  PROVE  BeginsAnywhere(S, f, g)
<1>. DEFINE AnyFirst(n) == \A T \in SUBSET S : Cardinality(T) = n =>
                             \A x \in T : g[T] = f[x] + g[T \ {x}]
            Not == {n \in Nat : ~ AnyFirst(n)}
<1>1. ASSUME NEW T \in SUBSET S  PROVE IsFiniteSet(T) /\ Cardinality(T) \in Nat
  BY FS_Subset, FS_CardinalityType
<1>2. ASSUME Not # {}  PROVE FALSE
  <2>1. PICK n \in Not : \A k \in Not : n <= k
    <3>1. Not \subseteq Nat
      OBVIOUS
    <3>. HIDE DEF Not
    <3>. QED  BY <1>2, <3>1, Least
  <2>2. PICK T \in SUBSET S : \E x \in T : Cardinality(T) = n /\ g[T] # f[x] + g[T \ {x}]
    BY <2>1
  <2>a. PICK x \in T : Cardinality(T) = n /\ g[T] # f[x] + g[T \ {x}]
    BY <2>2
  <2>. DEFINE c == pick[T]
  <2>3. c \in T /\ T # {} /\ g[T] = f[c] + g[T \ {c}]
    BY <2>a DEF Picks
  <2>4. c # x
    BY <2>a, <2>3
  <2>. HIDE DEF c
  <2>5. n \in Nat /\ n # 0
    <3>1. n \in Nat
      BY <2>1
    <3>2. n # 0
      BY <1>1, <2>a, <2>3, FS_EmptySet
    <3>. QED  BY <3>1, <3>2
  <2>6. n - 1 \in Nat /\ AnyFirst(n - 1)
    <3>1. n - 1 \in Nat /\ n - 1 \notin Not
      <4>1. n - 1 \in Nat /\ ~ (n <= n - 1)
        BY <2>5
      <4>. HIDE DEF Not
      <4>. QED  BY <2>1, <4>1
    <3>. QED  BY <3>1
  <2>7. Cardinality(T \ {c}) = n - 1 /\ Cardinality(T \ {x}) = n - 1
    BY <1>1, <2>a, <2>3, FS_RemoveElement
  <2>8. T \ {c} \in SUBSET S /\ T \ {x} \in SUBSET S /\ (T \ {c}) \ {x} \in SUBSET S
    OBVIOUS
  <2>9. g[T \ {c}] = f[x] + g[(T \ {c}) \ {x}]
    BY <2>a, <2>4, <2>6, <2>7, <2>8
  <2>10. g[T \ {x}] = f[c] + g[(T \ {x}) \ {c}]
    BY <2>a, <2>3, <2>4, <2>6, <2>7, <2>8
  <2>11. (T \ {x}) \ {c} = (T \ {c}) \ {x}
    OBVIOUS
  <2>12. f[x] \in Int /\ f[c] \in Int /\ g[(T \ {c}) \ {x}] \in Int
    BY <2>a, <2>3, <2>8
  <2>13. g[T] = f[c] + (f[x] + g[(T \ {c}) \ {x}]) /\ g[T \ {x}] = f[c] + g[(T \ {c}) \ {x}]
    BY <2>3, <2>9, <2>10, <2>11
  <2>14. ASSUME NEW u \in Int, NEW v \in Int, NEW w \in Int  PROVE u + (v + w) = v + (u + w)
    OBVIOUS
  <2>15. f[c] + (f[x] + g[(T \ {c}) \ {x}]) = f[x] + (f[c] + g[(T \ {c}) \ {x}])
    BY <2>12, <2>14
  <2>. QED  BY <2>a, <2>13, <2>15
<1>. HIDE DEF AnyFirst
<1>3. \A n \in Nat : AnyFirst(n)
  BY <1>2
<1>4. ASSUME NEW T \in SUBSET S  PROVE AnyFirst(Cardinality(T))
  BY <1>1, <1>3
<1>. QED  BY <1>4 DEF AnyFirst, BeginsAnywhere

(* A sum over two sets that do not meet.                                   *)
LEMMA SumOfUnion ==
  ASSUME NEW S, IsFiniteSet(S), NEW f \in [S -> Int], NEW g \in [SUBSET S -> Int], g[{}] = 0,
         BeginsAnywhere(S, f, g)
  PROVE  Adds(S, g)
<1>. DEFINE AddsTo(n) == \A A, B \in SUBSET S : A \cap B = {} /\ Cardinality(B) = n
                         => g[A \cup B] = g[A] + g[B]
            Not == {n \in Nat : ~ AddsTo(n)}
<1>1. ASSUME NEW T \in SUBSET S  PROVE IsFiniteSet(T) /\ Cardinality(T) \in Nat
  BY FS_Subset, FS_CardinalityType
<1>2. ASSUME Not # {}  PROVE FALSE
  <2>1. PICK n \in Not : \A k \in Not : n <= k
    <3>1. Not \subseteq Nat
      OBVIOUS
    <3>. HIDE DEF Not
    <3>. QED  BY <1>2, <3>1, Least
  <2>2. PICK A \in SUBSET S, B \in SUBSET S :
          A \cap B = {} /\ Cardinality(B) = n /\ g[A \cup B] # g[A] + g[B]
    BY <2>1
  <2>3. PICK x \in B : TRUE
    <3>1. ASSUME B = {}  PROVE FALSE
      <4>1. A \cup B = A /\ g[B] = 0 /\ g[A] \in Int
        BY <3>1
      <4>2. ASSUME NEW u \in Int  PROVE u = u + 0
        OBVIOUS
      <4>3. g[A] = g[A] + 0
        BY <4>1, <4>2
      <4>. QED  BY <2>2, <4>1, <4>3
    <3>. QED  BY <3>1
  <2>4. n \in Nat /\ n # 0
    <3>1. n \in Nat
      BY <2>1
    <3>2. n # 0
      BY <1>1, <2>2, <2>3, FS_EmptySet
    <3>. QED  BY <3>1, <3>2
  <2>5. n - 1 \in Nat /\ AddsTo(n - 1)
    <3>1. n - 1 \in Nat /\ n - 1 \notin Not
      <4>1. n - 1 \in Nat /\ ~ (n <= n - 1)
        BY <2>4
      <4>. HIDE DEF Not
      <4>. QED  BY <2>1, <4>1
    <3>. QED  BY <3>1
  <2>6. Cardinality(B \ {x}) = n - 1
    BY <1>1, <2>2, <2>3, FS_RemoveElement
  <2>7. g[A \cup (B \ {x})] = g[A] + g[B \ {x}]
    BY <2>2, <2>5, <2>6
  <2>8. (A \cup B) \ {x} = A \cup (B \ {x}) /\ A \cup B \in SUBSET S /\ x \in A \cup B
    BY <2>2, <2>3
  <2>9. g[A \cup B] = f[x] + g[A \cup (B \ {x})] /\ g[B] = f[x] + g[B \ {x}]
    <3>1. g[A \cup B] = f[x] + g[(A \cup B) \ {x}]
      BY <2>8 DEF BeginsAnywhere
    <3>2. g[B] = f[x] + g[B \ {x}]
      BY <2>3 DEF BeginsAnywhere
    <3>. QED  BY <2>8, <3>1, <3>2
  <2>10. f[x] \in Int /\ g[A] \in Int /\ g[B \ {x}] \in Int
    BY <2>3
  <2>11. ASSUME NEW u \in Int, NEW v \in Int, NEW w \in Int  PROVE u + (v + w) = v + (u + w)
    OBVIOUS
  <2>12. f[x] + (g[A] + g[B \ {x}]) = g[A] + (f[x] + g[B \ {x}])
    BY <2>10, <2>11
  <2>. QED  BY <2>2, <2>7, <2>9, <2>12
<1>. HIDE DEF AddsTo
<1>3. ASSUME NEW n \in Nat, ~ AddsTo(n)  PROVE FALSE
  <2>1. n \in Not
    BY <1>3
  <2>. HIDE DEF Not
  <2>. QED  BY <1>2, <2>1
<1>4. ASSUME NEW T \in SUBSET S  PROVE AddsTo(Cardinality(T))
  <2>. DEFINE n == Cardinality(T)
  <2>1. n \in Nat
    BY <1>1
  <2>. HIDE DEF n
  <2>2. AddsTo(n)
    BY <1>3, <2>1
  <2>. QED  BY <2>2 DEF n
<1>5. ASSUME NEW A \in SUBSET S, NEW B \in SUBSET S, A \cap B = {}  PROVE g[A \cup B] = g[A] + g[B]
  <2>1. AddsTo(Cardinality(B))
    BY <1>4
  <2>. DEFINE n == Cardinality(B)
  <2>2. AddsTo(n) /\ n = Cardinality(B)
    BY <2>1
  <2>. HIDE DEF n
  <2>. QED  BY <1>5, <2>2 DEF AddsTo
<1>. QED  BY <1>5 DEF Adds

(* SumFunction, from the module Functions.                                 *)
IsSum(f, S, g) == g = [s \in SUBSET S |->
  IF s = {} THEN 0 ELSE f[CHOOSE x \in s : TRUE] + g[s \ {CHOOSE x \in s : TRUE}]]

(* The sum is what its recursion gives to the whole domain.                *)
LEMMA SumIs == \A f : SumFunction(f) = (CHOOSE g : IsSum(f, DOMAIN f, g))[DOMAIN f]
  BY DEF SumFunction, SumFunctionOnSet, FoldFunctionOnSet, MapThenFoldSet, IsSum

(* A sum is additive, and over one element it is the value there.          *)
LEMMA SumFacts ==
  ASSUME NEW S, IsFiniteSet(S), NEW f \in [S -> Int]
  PROVE  \E g \in [SUBSET S -> Int] :
           /\ SumFunction(f) = g[S]
           /\ \A x \in S : g[{x}] = f[x]
           /\ Adds(S, g)
<1>. DEFINE pick == [s \in SUBSET S |-> CHOOSE x \in s : TRUE]
            op   == [x \in S |-> [d \in Int |-> f[x] + d]]
<1>1. \A T \in SUBSET S : T # {} => pick[T] \in T
  OBVIOUS
<1>2. \A x \in S : \A d \in Int : op[x][d] = f[x] + d /\ op[x][d] \in Int
  OBVIOUS
<1>3. ASSUME NEW g \in [SUBSET S -> Int], IsFold(S, 0, pick, op, g)
      PROVE  IsSum(f, S, g)
  <2>1. ASSUME NEW T \in SUBSET S, T # {}
        PROVE  op[pick[T]][g[T \ {pick[T]}]] = f[CHOOSE x \in T : TRUE] + g[T \ {CHOOSE x \in T : TRUE}]
    <3>1. pick[T] = (CHOOSE x \in T : TRUE) /\ pick[T] \in S
      BY <1>1, <2>1
    <3>. HIDE DEF pick, op
    <3>2. g[T \ {pick[T]}] \in Int
      OBVIOUS
    <3>3. op[pick[T]][g[T \ {pick[T]}]] = f[pick[T]] + g[T \ {pick[T]}]
      BY <1>2, <3>1, <3>2
    <3>. QED  BY <3>1, <3>3
  <2>. HIDE DEF pick, op
  <2>2. [T \in SUBSET S |-> IF T = {} THEN 0 ELSE op[pick[T]][g[T \ {pick[T]}]]]
        = [T \in SUBSET S |-> IF T = {} THEN 0
                              ELSE f[CHOOSE x \in T : TRUE] + g[T \ {CHOOSE x \in T : TRUE}]]
    BY <2>1
  <2>. QED  BY <1>3, <2>2 DEF IsSum, IsFold
<1>4. \E g \in [SUBSET S -> Int] : IsSum(f, S, g)
  <2>1. 0 \in Int
    OBVIOUS
  <2>. HIDE DEF pick, op
  <2>2. Closed(S, Int, op) /\ Picks(S, pick)
    BY <1>1, <1>2 DEF Closed, Picks
  <2>3. \E g \in [SUBSET S -> Int] : IsFold(S, 0, pick, op, g)
    BY <2>1, <2>2, FoldExists
  <2>. QED  BY <2>3, <1>3
<1>. DEFINE g == CHOOSE g : IsSum(f, S, g)
<1>5. IsSum(f, S, g)
  BY <1>4
<1>6. SumFunction(f) = g[S]
  BY SumIs
<1>. HIDE DEF g, op
<1>7. g \in [SUBSET S -> Int]
  <2>1. PICK h \in [SUBSET S -> Int] : IsSum(f, S, h)
    BY <1>4
  <2>. DEFINE Differ == {n \in Nat : \E T \in SUBSET S : Cardinality(T) = n /\ g[T] # h[T]}
  <2>2. ASSUME NEW T \in SUBSET S  PROVE IsFiniteSet(T) /\ Cardinality(T) \in Nat
    BY FS_Subset, FS_CardinalityType
  <2>3. /\ g = [s \in SUBSET S |-> IF s = {} THEN 0
                                  ELSE f[CHOOSE x \in s : TRUE] + g[s \ {CHOOSE x \in s : TRUE}]]
        /\ h = [s \in SUBSET S |-> IF s = {} THEN 0
                                  ELSE f[CHOOSE x \in s : TRUE] + h[s \ {CHOOSE x \in s : TRUE}]]
    BY <1>5, <2>1 DEF IsSum
  <2>4. ASSUME Differ # {}  PROVE FALSE
    <3>1. PICK n \in Differ : \A k \in Differ : n <= k
      <4>1. Differ \subseteq Nat
        OBVIOUS
      <4>. HIDE DEF Differ
      <4>. QED  BY <2>4, <4>1, Least
    <3>2. PICK T \in SUBSET S : Cardinality(T) = n /\ g[T] # h[T]
      BY <3>1
    <3>3. T # {}
      <4>1. g[{}] = 0 /\ h[{}] = 0
        BY <2>3
      <4>. QED  BY <3>2, <4>1
    <3>. DEFINE c == CHOOSE x \in T : TRUE
                R == T \ {c}
    <3>4. c \in T /\ R \in SUBSET S
      BY <3>3
    <3>5. g[T] = f[c] + g[R] /\ h[T] = f[c] + h[R]
      BY <2>3, <3>3
    <3>6. Cardinality(R) = n - 1
      <4>. HIDE DEF c
      <4>. QED  BY <2>2, <3>2, <3>4, FS_RemoveElement
    <3>. HIDE DEF R, c
    <3>7. n \in Nat
      BY <3>1
    <3>8. Cardinality(R) \in Differ
      BY <2>2, <3>2, <3>4, <3>5
    <3>9. n <= n - 1
      BY <3>1, <3>6, <3>8
    <3>. QED  BY <3>7, <3>9
  <2>5. \A T \in SUBSET S : g[T] = h[T]
    <3>1. ASSUME NEW T \in SUBSET S  PROVE g[T] = h[T]
      <4>1. Cardinality(T) \notin Differ
        <5>. HIDE DEF Differ
        <5>. QED  BY <2>4
      <4>. QED  BY <2>2, <4>1
    <3>. QED  BY <3>1
  <2>6. g = [T \in SUBSET S |-> g[T]]
    BY <2>3
  <2>. QED  BY <2>5, <2>6
<1>8. /\ g[{}] = 0
      /\ \A T \in SUBSET S : T # {} => g[T] = f[pick[T]] + g[T \ {pick[T]}]
  BY <1>5 DEF IsSum
<1>. HIDE DEF pick
<1>9. BeginsAnywhere(S, f, g)
  <2>1. Picks(S, pick)
    BY <1>1 DEF Picks
  <2>. QED  BY <1>7, <1>8, <2>1, SumIsAny
<1>10. Adds(S, g)
  BY <1>7, <1>8, <1>9, SumOfUnion
<1>11. ASSUME NEW x \in S  PROVE g[{x}] = f[x]
  <2>1. g[{x}] = f[x] + g[{x} \ {x}]
    BY <1>9 DEF BeginsAnywhere
  <2>2. {x} \ {x} = {}
    OBVIOUS
  <2>3. f[x] \in Int /\ g[{}] = 0
    BY <1>8
  <2>4. g[{x}] = f[x] + 0
    BY <2>1, <2>2, <2>3
  <2>. QED  BY <2>3, <2>4
<1>. QED  BY <1>6, <1>7, <1>10, <1>11


IsProduct(s, S, g) == g = [T \in SUBSET S |->
  IF T = {} THEN 1 ELSE g[T \ {Max(T)}] * s[Max(T)]]

(* The product is what its recursion gives to the whole domain.            *)
LEMMA ProductIs == \A s : Product(s) = (CHOOSE g : IsProduct(s, DOMAIN s, g))[DOMAIN s]
  BY DEF Product, FoldLeft, MapThenFoldSet, IsProduct

(* What FoldLeft takes last.                                               *)
LEMMA MaxIs ==
  ASSUME NEW n \in Nat, NEW T, T \subseteq 1 .. n, T # {}
  PROVE  Max(T) \in T /\ \A x \in T : Max(T) >= x
<1>. DEFINE left == {n - x : x \in T}
<1>1. \A x \in T : x \in Nat /\ x <= n
  OBVIOUS
<1>2. left \subseteq Nat /\ left # {}
  <2>1. \A x \in T : n - x \in Nat
    BY <1>1
  <2>. QED  BY <2>1
<1>. HIDE DEF left
<1>3. PICK j \in left : \A k \in left : j <= k
  BY <1>2, Least
<1>4. PICK m \in T : j = n - m
  BY <1>3 DEF left
<1>5. ASSUME NEW x \in T  PROVE m >= x
  <2>1. n - m <= n - x
    BY <1>3, <1>4 DEF left
  <2>2. m \in Nat /\ x \in Nat
    BY <1>1
  <2>. QED  BY <2>1, <2>2
<1>. QED  BY <1>5 DEF Max

(* p[k] is the product of the first k of s.                                *)
Multiplies(p, s, n) ==
  p[0] = 1 /\ Product(s) = p[n] /\ \A k \in 1 .. n : p[k] = p[k - 1] * s[k]

(* A product is multiplied up from the first factor on.                    *)
LEMMA ProductFacts ==
  ASSUME NEW n \in Nat, NEW s \in [1 .. n -> Int]
  PROVE  \E p : Multiplies(p, s, n)
<1>. DEFINE S    == 1 .. n
            pick == [T \in SUBSET S |-> Max(T)]
            op   == [x \in S |-> [d \in Int |-> d * s[x]]]
<1>1. Picks(S, pick)
  BY MaxIs DEF Picks
<1>2. \A x \in S : \A d \in Int : op[x][d] = d * s[x]
  OBVIOUS
<1>3. Closed(S, Int, op)
  <2>1. \A a, b \in Int : a * b \in Int
    OBVIOUS
  <2>2. \A x \in S : s[x] \in Int
    OBVIOUS
  <2>. HIDE DEF op, S
  <2>. QED  BY <1>2, <2>1, <2>2 DEF Closed
<1>4. \E g : IsProduct(s, S, g)
  <2>1. IsFiniteSet(S) /\ 1 \in Int
    BY FS_Interval
  <2>2. \A T \in SUBSET S : pick[T] = Max(T)
    OBVIOUS
  <2>. HIDE DEF S, pick, op
  <2>3. PICK g \in [SUBSET S -> Int] : IsFold(S, 1, pick, op, g)
    BY <1>1, <1>3, <2>1, FoldExists
  <2>4. ASSUME NEW T \in SUBSET S, T # {}
        PROVE  op[pick[T]][g[T \ {pick[T]}]] = g[T \ {Max(T)}] * s[Max(T)]
    <3>1. pick[T] \in S /\ pick[T] = Max(T)
      BY <1>1, <2>2, <2>4 DEF Picks
    <3>2. g[T \ {pick[T]}] \in Int
      OBVIOUS
    <3>3. op[pick[T]][g[T \ {pick[T]}]] = g[T \ {pick[T]}] * s[pick[T]]
      BY <1>2, <3>1, <3>2
    <3>. QED  BY <3>1, <3>3
  <2>5. [T \in SUBSET S |-> IF T = {} THEN 1 ELSE op[pick[T]][g[T \ {pick[T]}]]]
        = [T \in SUBSET S |-> IF T = {} THEN 1 ELSE g[T \ {Max(T)}] * s[Max(T)]]
    BY <2>4
  <2>. QED  BY <2>3, <2>5 DEF IsFold, IsProduct
<1>. DEFINE g == CHOOSE g : IsProduct(s, S, g)
<1>5. IsProduct(s, S, g)
  BY <1>4
<1>6. Product(s) = g[S]
  BY ProductIs
<1>. HIDE DEF g, pick, op
<1>. DEFINE p == [k \in 0 .. n |-> g[1 .. k]]
<1>7. \A T \in SUBSET S : g[T] = IF T = {} THEN 1 ELSE g[T \ {Max(T)}] * s[Max(T)]
  <2>. HIDE DEF S
  <2>. QED  BY <1>5 DEF IsProduct
<1>8. p[0] = 1
  <2>1. 1 .. 0 = {} /\ {} \in SUBSET S
    OBVIOUS
  <2>. HIDE DEF S
  <2>2. g[1 .. 0] = 1
    BY <1>7, <2>1
  <2>. QED  BY <2>2
<1>9. p[n] = Product(s)
  BY <1>6
<1>10. ASSUME NEW k \in 1 .. n  PROVE p[k] = p[k - 1] * s[k]
  <2>1. 1 .. k \in SUBSET S /\ 1 .. k # {} /\ k \in 1 .. k /\ k \in Nat
    <3>1. k \in Nat /\ k >= 1 /\ k <= n
      OBVIOUS
    <3>2. \A x \in 1 .. k : x \in 1 .. n
      BY <3>1
    <3>3. k \in 1 .. k
      BY <3>1
    <3>. QED  BY <3>1, <3>2, <3>3
  <2>2. Max(1 .. k) = k
    <3>1. Max(1 .. k) \in 1 .. k /\ Max(1 .. k) >= k
      BY <2>1, MaxIs
    <3>. QED  BY <3>1
  <2>3. (1 .. k) \ {k} = 1 .. k - 1
    BY <2>1
  <2>4. g[1 .. k] = g[1 .. k - 1] * s[k]
    <3>. HIDE DEF S
    <3>1. g[1 .. k] = g[(1 .. k) \ {Max(1 .. k)}] * s[Max(1 .. k)]
      BY <1>7, <2>1
    <3>. QED  BY <2>2, <2>3, <3>1
  <2>5. k \in 0 .. n /\ k - 1 \in 0 .. n
    OBVIOUS
  <2>. HIDE DEF S
  <2>6. p[k] = g[1 .. k] /\ p[k - 1] = g[1 .. k - 1]
    BY <2>5
  <2>. QED  BY <2>4, <2>6
<1>. HIDE DEF p
<1>. QED  BY <1>8, <1>9, <1>10 DEF Multiplies

(* Products of up to five factors.                                         *)
LEMMA ShortProducts ==
  /\ \A s \in [1 .. 0 -> Int] : Product(s) = 1
  /\ \A s \in [1 .. 1 -> Int] : Product(s) = s[1]
  /\ \A s \in [1 .. 2 -> Int] : Product(s) = s[1] * s[2]
  /\ \A s \in [1 .. 3 -> Int] : Product(s) = s[1] * s[2] * s[3]
  /\ \A s \in [1 .. 4 -> Int] : Product(s) = s[1] * s[2] * s[3] * s[4]
  /\ \A s \in [1 .. 5 -> Int] : Product(s) = s[1] * s[2] * s[3] * s[4] * s[5]
<1>1. ASSUME NEW s \in [1 .. 0 -> Int]  PROVE Product(s) = 1
  <2>1. 0 \in Nat
    OBVIOUS
  <2>. QED  BY <2>1, ProductFacts DEF Multiplies
<1>2. ASSUME NEW s \in [1 .. 1 -> Int]  PROVE Product(s) = s[1]
  <2>a. 1 \in Nat
    OBVIOUS
  <2>b. PICK p : Multiplies(p, s, 1)
    BY <2>a, ProductFacts
  <2>1. p[0] = 1 /\ Product(s) = p[1] /\ \A k \in 1 .. 1 : p[k] = p[k - 1] * s[k]
    BY <2>b DEF Multiplies
  <2>2. p[1] = p[0] * s[1] /\ s[1] \in Int
    BY <2>1
  <2>. QED  BY <2>1, <2>2
<1>3. ASSUME NEW s \in [1 .. 2 -> Int]  PROVE Product(s) = s[1] * s[2]
  <2>a. 2 \in Nat
    OBVIOUS
  <2>b. PICK p : Multiplies(p, s, 2)
    BY <2>a, ProductFacts
  <2>1. p[0] = 1 /\ Product(s) = p[2] /\ \A k \in 1 .. 2 : p[k] = p[k - 1] * s[k]
    BY <2>b DEF Multiplies
  <2>2. p[1] = p[0] * s[1] /\ p[2] = p[1] * s[2] /\ s[1] \in Int
    BY <2>1
  <2>3. p[1] = s[1]
    BY <2>1, <2>2
  <2>. QED  BY <2>1, <2>2, <2>3
<1>4. ASSUME NEW s \in [1 .. 3 -> Int]  PROVE Product(s) = s[1] * s[2] * s[3]
  <2>a. 3 \in Nat
    OBVIOUS
  <2>b. PICK p : Multiplies(p, s, 3)
    BY <2>a, ProductFacts
  <2>1. p[0] = 1 /\ Product(s) = p[3] /\ \A k \in 1 .. 3 : p[k] = p[k - 1] * s[k]
    BY <2>b DEF Multiplies
  <2>2. p[1] = p[0] * s[1] /\ p[2] = p[1] * s[2] /\ p[3] = p[2] * s[3] /\ s[1] \in Int
    BY <2>1
  <2>3. p[1] = s[1]
    BY <2>1, <2>2
  <2>. QED  BY <2>1, <2>2, <2>3
<1>5. ASSUME NEW s \in [1 .. 4 -> Int]  PROVE Product(s) = s[1] * s[2] * s[3] * s[4]
  <2>a. 4 \in Nat
    OBVIOUS
  <2>b. PICK p : Multiplies(p, s, 4)
    BY <2>a, ProductFacts
  <2>1. p[0] = 1 /\ Product(s) = p[4] /\ \A k \in 1 .. 4 : p[k] = p[k - 1] * s[k]
    BY <2>b DEF Multiplies
  <2>2. p[1] = p[0] * s[1] /\ p[2] = p[1] * s[2] /\ p[3] = p[2] * s[3] /\ p[4] = p[3] * s[4]
    BY <2>1
  <2>3. p[1] = s[1]
    <3>1. s[1] \in Int
      OBVIOUS
    <3>. QED  BY <2>1, <2>2, <3>1
  <2>. QED  BY <2>1, <2>2, <2>3
<1>6. ASSUME NEW s \in [1 .. 5 -> Int]  PROVE Product(s) = s[1] * s[2] * s[3] * s[4] * s[5]
  <2>a. 5 \in Nat
    OBVIOUS
  <2>b. PICK p : Multiplies(p, s, 5)
    BY <2>a, ProductFacts
  <2>1. p[0] = 1 /\ Product(s) = p[5] /\ \A k \in 1 .. 5 : p[k] = p[k - 1] * s[k]
    BY <2>b DEF Multiplies
  <2>2. /\ p[1] = p[0] * s[1] /\ p[2] = p[1] * s[2] /\ p[3] = p[2] * s[3] /\ p[4] = p[3] * s[4]
        /\ p[5] = p[4] * s[5]
    BY <2>1
  <2>3. p[1] = s[1]
    <3>1. s[1] \in Int
      OBVIOUS
    <3>. QED  BY <2>1, <2>2, <3>1
  <2>. QED  BY <2>1, <2>2, <2>3
<1>. QED  BY <1>1, <1>2, <1>3, <1>4, <1>5, <1>6


-------------------------------------------------------------------------------
(* One axis of a table. *)

IsAxis(axis) ==
  /\ axis.entries \in Seq(Int) /\ axis.size = Len(axis.entries) /\ axis.size > 0
  /\ \A j, k \in 1 .. axis.size : j < k => axis.entries[j] < axis.entries[k]

(* The entries of an axis are numbers that do not decrease.                *)
LEMMA AxisFacts ==
  ASSUME NEW axis, IsAxis(axis)
  PROVE  /\ axis.size \in Nat /\ axis.size > 0
         /\ ToSet(axis.entries) = {axis.entries[k] : k \in 1 .. axis.size}
         /\ \A k \in 1 .. axis.size : axis.entries[k] \in Int
         /\ \A j, k \in 1 .. axis.size : j <= k => axis.entries[j] <= axis.entries[k]
<1>. DEFINE e == axis.entries
            n == axis.size
<1>1. e \in Seq(Int) /\ n = Len(e) /\ n > 0 /\ \A j, k \in 1 .. n : j < k => e[j] < e[k]
  BY DEF IsAxis
<1>. HIDE DEF e, n
<1>2. n \in Nat /\ DOMAIN e = 1 .. n /\ \A k \in 1 .. n : e[k] \in Int
  BY <1>1
<1>3. ToSet(e) = {e[k] : k \in 1 .. n}
  BY <1>2 DEF ToSet
<1>4. ASSUME NEW j \in 1 .. n, NEW k \in 1 .. n, j <= k  PROVE e[j] <= e[k]
  <2>1. CASE j = k
    BY <1>2, <2>1
  <2>2. CASE j < k
    BY <1>1, <1>2, <2>2
  <2>. QED  BY <1>2, <1>4, <2>1, <2>2
<1>. QED  BY <1>1, <1>2, <1>3, <1>4 DEF e, n

(* std::lower_bound finds the first entry that is not below the value.     *)
LEMMA LowerBound ==
  ASSUME NEW axis, IsAxis(axis), NEW v \in Int, v <= axis.entries[axis.size]
  PROVE  /\ lower_bound(axis, v) \in 0 .. axis.size - 1
         /\ axis.entries[lower_bound(axis, v) + 1] >= v
         /\ \A j \in 0 .. lower_bound(axis, v) - 1 : axis.entries[j + 1] < v
<1>. DEFINE e == axis.entries
            n == axis.size
            above == {i \in 0 .. n - 1 : e[i + 1] >= v}
<1>1. n \in Nat /\ n > 0 /\ \A k \in 1 .. n : e[k] \in Int
  BY AxisFacts
<1>2. v <= e[n]
  OBVIOUS
<1>. HIDE DEF e, n
<1>3. n - 1 \in above
  <2>1. n - 1 \in 0 .. n - 1 /\ (n - 1) + 1 = n /\ e[n] >= v
    BY <1>1, <1>2
  <2>. QED  BY <2>1
<1>4. above \subseteq Nat /\ above # {}
  BY <1>3
<1>5. PICK i \in above : \A k \in above : i <= k
  <2>. HIDE DEF above
  <2>. QED  BY <1>4, Least
<1>6. ASSUME NEW j \in 0 .. i - 1  PROVE e[j + 1] < v
  <2>1. i \in 0 .. n - 1
    BY <1>5
  <2>2. j \in 0 .. n - 1 /\ ~ (i <= j) /\ j + 1 \in 1 .. n
    BY <1>1, <2>1
  <2>3. j \notin above
    <3>. HIDE DEF above
    <3>. QED  BY <1>5, <2>2
  <2>4. ~ (e[j + 1] >= v)
    BY <2>2, <2>3
  <2>5. e[j + 1] \in Int
    BY <1>1, <2>2
  <2>. QED  BY <2>4, <2>5
<1>7. i \in 0 .. n - 1 /\ e[i + 1] >= v
  BY <1>5
<1>. HIDE DEF above
<1>8. \E k \in 0 .. n - 1 : e[k + 1] >= v /\ \A j \in 0 .. k - 1 : e[j + 1] < v
  BY <1>6, <1>7
<1>9. lower_bound(axis, v) = CHOOSE k \in 0 .. n - 1 : e[k + 1] >= v /\ \A j \in 0 .. k - 1 : e[j + 1] < v
  BY DEF lower_bound, e, n
<1>10. /\ lower_bound(axis, v) \in 0 .. n - 1
       /\ e[lower_bound(axis, v) + 1] >= v
       /\ \A j \in 0 .. lower_bound(axis, v) - 1 : e[j + 1] < v
  BY <1>8, <1>9
<1>. QED  BY <1>10 DEF e, n

(* What is near an entry, and between two.                                 *)
LEMMA NearAnEntry ==
  ASSUME NEW axis, IsAxis(axis), NEW k \in 1 .. axis.size
  PROVE  Near(axis, axis.entries[k]) = {[entry |-> axis.entries[k], weight |-> 1]}
<1>. DEFINE v == axis.entries[k]
            entries == ToSet(axis.entries)
            below == CHOOSE e \in entries : e <= v /\ \A o \in entries : o <= v => o <= e
            above == CHOOSE e \in entries : e >= v /\ \A o \in entries : o >= v => o >= e
<1>1. v \in Int /\ v \in entries /\ \A o \in entries : o \in Int
  <2>1. entries = {axis.entries[j] : j \in 1 .. axis.size} /\ \A j \in 1 .. axis.size : axis.entries[j] \in Int
    BY AxisFacts
  <2>. HIDE DEF entries
  <2>. QED  BY <2>1
<1>2. Near(axis, v) = IF below = above THEN {[entry |-> v, weight |-> 1]}
        ELSE {[entry |-> below, weight |-> above - v], [entry |-> above, weight |-> v - below]}
  BY DEF Near
<1>. HIDE DEF v, entries
<1>3. v <= v /\ v >= v
  BY <1>1
<1>4. below = v
  <2>1. \E e \in entries : e <= v /\ \A o \in entries : o <= v => o <= e
    BY <1>1, <1>3
  <2>2. below \in entries /\ below <= v /\ \A o \in entries : o <= v => o <= below
    BY <2>1
  <2>. HIDE DEF below
  <2>3. v <= below /\ below \in Int
    BY <1>1, <1>3, <2>2
  <2>. QED  BY <1>1, <2>2, <2>3
<1>5. above = v
  <2>1. \E e \in entries : e >= v /\ \A o \in entries : o >= v => o >= e
    BY <1>1, <1>3
  <2>2. above \in entries /\ above >= v /\ \A o \in entries : o >= v => o >= above
    BY <2>1
  <2>. HIDE DEF above
  <2>3. v >= above /\ above \in Int
    BY <1>1, <1>3, <2>2
  <2>. QED  BY <1>1, <2>2, <2>3
<1>. HIDE DEF below, above
<1>. QED  BY <1>2, <1>4, <1>5 DEF v

(* Two neighbours are near what lies between them.                         *)
LEMMA NearBetween ==
  ASSUME NEW axis, IsAxis(axis), NEW v \in Int, NEW k \in 1 .. axis.size - 1,
         axis.entries[k] < v, v < axis.entries[k + 1]
  PROVE  Near(axis, v) = {[entry |-> axis.entries[k], weight |-> axis.entries[k + 1] - v],
                          [entry |-> axis.entries[k + 1], weight |-> v - axis.entries[k]]}
<1>. DEFINE a == axis.entries[k]
            b == axis.entries[k + 1]
            entries == ToSet(axis.entries)
            below == CHOOSE e \in entries : e <= v /\ \A o \in entries : o <= v => o <= e
            above == CHOOSE e \in entries : e >= v /\ \A o \in entries : o >= v => o >= e
<1>1. k \in 1 .. axis.size /\ k + 1 \in 1 .. axis.size
  BY AxisFacts
<1>2. a \in entries /\ b \in entries /\ \A o \in entries : o \in Int
  <2>1. entries = {axis.entries[j] : j \in 1 .. axis.size} /\ \A j \in 1 .. axis.size : axis.entries[j] \in Int
    BY AxisFacts
  <2>. HIDE DEF entries
  <2>. QED  BY <1>1, <2>1
<1>3. a < v /\ v < b
  OBVIOUS
<1>4. \A o \in entries : o <= a \/ o >= b
  <2>1. ASSUME NEW j \in 1 .. axis.size  PROVE axis.entries[j] <= a \/ axis.entries[j] >= b
    <3>1. axis.size \in Nat
      BY AxisFacts
    <3>2. j <= k \/ k + 1 <= j
      BY <3>1
    <3>3. /\ j <= k => axis.entries[j] <= axis.entries[k]
          /\ k + 1 <= j => axis.entries[k + 1] <= axis.entries[j]
      BY <1>1, AxisFacts
    <3>4. axis.entries[j] \in Int /\ axis.entries[k + 1] \in Int
      BY <1>1, AxisFacts
    <3>. QED  BY <3>2, <3>3, <3>4
  <2>. HIDE DEF a, b
  <2>2. entries = {axis.entries[j] : j \in 1 .. axis.size}
    BY AxisFacts
  <2>. QED  BY <2>1, <2>2
<1>5. Near(axis, v) = IF below = above THEN {[entry |-> v, weight |-> 1]}
        ELSE {[entry |-> below, weight |-> above - v], [entry |-> above, weight |-> v - below]}
  BY DEF Near
<1>. HIDE DEF a, b, entries
<1>6. below = a
  <2>1. a <= v /\ \A o \in entries : o <= v => o <= a
    BY <1>2, <1>3, <1>4
  <2>2. \E e \in entries : e <= v /\ \A o \in entries : o <= v => o <= e
    BY <1>2, <2>1
  <2>3. below \in entries /\ below <= v /\ \A o \in entries : o <= v => o <= below
    BY <2>2
  <2>. HIDE DEF below
  <2>4. a <= below /\ below <= a /\ a \in Int /\ below \in Int
    BY <1>2, <2>1, <2>3
  <2>. QED  BY <2>4
<1>7. above = b
  <2>1. b >= v /\ \A o \in entries : o >= v => o >= b
    BY <1>2, <1>3, <1>4
  <2>2. \E e \in entries : e >= v /\ \A o \in entries : o >= v => o >= e
    BY <1>2, <2>1
  <2>3. above \in entries /\ above >= v /\ \A o \in entries : o >= v => o >= above
    BY <2>2
  <2>. HIDE DEF above
  <2>4. b >= above /\ above >= b /\ b \in Int /\ above \in Int
    BY <1>2, <2>1, <2>3
  <2>. QED  BY <2>4
<1>. HIDE DEF below, above
<1>8. a # b
  BY <1>2, <1>3
<1>. QED  BY <1>5, <1>6, <1>7, <1>8 DEF a, b

(* findInterp reads one entry with the whole weight, at one end of its     *)
(* cell, or both ends with the weights of the reference.                   *)
ReadsOne(axis, interp, near, b) ==
  /\ interp.den \in Nat \ {0} /\ interp.num = b * interp.den
  /\ interp.lo \in Int /\ interp.lo + b \in 0 .. axis.size - 1
  /\ near = {[entry |-> axis.entries[(interp.lo + b) + 1], weight |-> 1]}

ReadsTwo(axis, interp, near) ==
  /\ interp.den \in Nat \ {0} /\ interp.num \in Int
  /\ interp.lo \in 0 .. axis.size - 1 /\ interp.lo + 1 \in 0 .. axis.size - 1
  /\ near = {[entry |-> axis.entries[interp.lo + 1], weight |-> interp.den - interp.num],
             [entry |-> axis.entries[(interp.lo + 1) + 1], weight |-> interp.num]}
  
(* What findInterp reads is what is near the clamped value.                *)
LEMMA InterpFacts ==
  ASSUME NEW axis, IsAxis(axis), NEW v \in Int
  PROVE  \/ ReadsOne(axis, findInterp(v, axis), Near(axis, Clamp(axis, v)), 0)
         \/ ReadsOne(axis, findInterp(v, axis), Near(axis, Clamp(axis, v)), 1)
         \/ ReadsTwo(axis, findInterp(v, axis), Near(axis, Clamp(axis, v)))
<1>. DEFINE front == axis.entries[1]
            back  == axis.entries[axis.size]
            L     == lower_bound(axis, v)
<1>1. /\ axis.size \in Nat /\ axis.size > 0 /\ front \in Int /\ back \in Int /\ front <= back
      /\ \A k \in 1 .. axis.size : axis.entries[k] \in Int
  <2>1. axis.size \in Nat /\ axis.size > 0
    BY AxisFacts
  <2>2. 1 \in 1 .. axis.size /\ axis.size \in 1 .. axis.size /\ 1 <= axis.size
    BY <2>1
  <2>. QED  BY <2>1, <2>2, AxisFacts
<1>2. CASE v <= front
  <2>1. findInterp(v, axis) = [lo |-> 0, num |-> 0, den |-> 1]
    <3>1. ~ (v > front)
      BY <1>1, <1>2
    <3>. QED  BY <1>2, <3>1 DEF findInterp
  <2>2. Clamp(axis, v) = axis.entries[1]
    <3>1. v < front => Clamp(axis, v) = front
      BY DEF Clamp
    <3>2. v = front => Clamp(axis, v) = front
      <4>1. v = front => ~ (v < front) /\ ~ (v > back)
        BY <1>1
      <4>. QED  BY <4>1 DEF Clamp
    <3>. QED  BY <1>1, <1>2, <3>1, <3>2
  <2>3. Near(axis, Clamp(axis, v)) = {[entry |-> axis.entries[1], weight |-> 1]}
    <3>1. 1 \in 1 .. axis.size
      BY <1>1
    <3>. QED  BY <2>2, <3>1, NearAnEntry
  <2>4. ReadsOne(axis, findInterp(v, axis), Near(axis, Clamp(axis, v)), 0)
    <3>1. 0 + 0 \in 0 .. axis.size - 1 /\ (0 + 0) + 1 = 1
      BY <1>1
    <3>. QED  BY <2>1, <2>3, <3>1 DEF ReadsOne
  <2>. QED  BY <2>4
<1>3. CASE v > front /\ v >= back
  <2>1. findInterp(v, axis) = [lo |-> axis.size - 2, num |-> 1, den |-> 1]
    <3>1. ~ (v <= front)
      BY <1>1, <1>3
    <3>. QED  BY <1>3, <3>1 DEF findInterp
  <2>2. Clamp(axis, v) = axis.entries[axis.size]
    <3>1. ~ (v < front)
      BY <1>1, <1>3
    <3>2. v > back \/ v = back
      BY <1>1, <1>3
    <3>. QED  BY <3>1, <3>2 DEF Clamp
  <2>3. Near(axis, Clamp(axis, v)) = {[entry |-> axis.entries[axis.size], weight |-> 1]}
    <3>1. axis.size \in 1 .. axis.size
      BY <1>1
    <3>. QED  BY <2>2, <3>1, NearAnEntry
  <2>4. ReadsOne(axis, findInterp(v, axis), Near(axis, Clamp(axis, v)), 1)
    <3>1. /\ (axis.size - 2) + 1 \in 0 .. axis.size - 1 /\ ((axis.size - 2) + 1) + 1 = axis.size
          /\ axis.size - 2 \in Int
      BY <1>1
    <3>. QED  BY <2>1, <2>3, <3>1 DEF ReadsOne
  <2>. QED  BY <2>4
<1>4. CASE front < v /\ v < back
  <2>1. /\ L \in 0 .. axis.size - 1 /\ axis.entries[L + 1] >= v
        /\ \A j \in 0 .. L - 1 : axis.entries[j + 1] < v
    <3>1. v <= back
      BY <1>1, <1>4
    <3>. QED  BY <3>1, LowerBound
  <2>2. L # 0
    <3>1. ASSUME L = 0  PROVE FALSE
      <4>1. axis.entries[1] >= v
        <5>1. L + 1 = 1
          BY <3>1
        <5>. QED  BY <2>1, <5>1
      <4>. QED  BY <1>1, <1>4, <4>1
    <3>. QED  BY <3>1
  <2>3. Clamp(axis, v) = v
    <3>1. ~ (v < front) /\ ~ (v > back)
      BY <1>1, <1>4
    <3>. QED  BY <3>1 DEF Clamp
  <2>4. findInterp(v, axis) = [lo  |-> L - 1,
                               num |-> v - axis.entries[L - 1 + 1],
                               den |-> axis.entries[L - 1 + 2] - axis.entries[L - 1 + 1]]
    <3>1. ~ (v <= front) /\ ~ (v >= back)
      BY <1>1, <1>4
    <3>. QED  BY <3>1 DEF findInterp
  <2>. HIDE DEF L, front, back
  <2>5. L - 1 + 1 = L /\ L - 1 + 2 = L + 1 /\ L \in 1 .. axis.size - 1 /\ L \in 1 .. axis.size /\ L + 1 \in 1 .. axis.size
    BY <1>1, <2>1, <2>2
  <2>6. axis.entries[L] < v
    <3>1. L - 1 \in 0 .. L - 1
      BY <2>5
    <3>2. axis.entries[(L - 1) + 1] < v
      BY <2>1, <3>1
    <3>. QED  BY <2>5, <3>2
  <2>7. axis.entries[L] \in Int /\ axis.entries[L + 1] \in Int
    BY <1>1, <2>5
  <2>. DEFINE a == axis.entries[L]
              b == axis.entries[L + 1]
  <2>8. findInterp(v, axis) = [lo |-> L - 1, num |-> v - a, den |-> b - a]
    BY <2>4, <2>5
  <2>9. a \in Int /\ b \in Int /\ a < v /\ v <= b
    <3>1. b >= v
      BY <2>1
    <3>2. a < v /\ a \in Int /\ b \in Int
      BY <2>6, <2>7
    <3>. HIDE DEF a, b
    <3>. QED  BY <3>1, <3>2
  <2>10. /\ L - 1 \in 0 .. axis.size - 1 /\ (L - 1) + 1 \in 0 .. axis.size - 1
         /\ ((L - 1) + 1) + 1 = L + 1 /\ L - 1 \in Int
    BY <1>1, <2>5
  <2>11. CASE v = b
    <3>1. Near(axis, Clamp(axis, v)) = {[entry |-> axis.entries[L + 1], weight |-> 1]}
      BY <2>3, <2>5, <2>11, NearAnEntry
    <3>2. b - a \in Nat \ {0} /\ v - a = 1 * (b - a)
      <4>. HIDE DEF a, b
      <4>. QED  BY <2>9, <2>11
    <3>. HIDE DEF a, b
    <3>3. ReadsOne(axis, findInterp(v, axis), Near(axis, Clamp(axis, v)), 1)
      BY <2>8, <2>10, <3>1, <3>2 DEF ReadsOne
    <3>. QED  BY <3>3
  <2>12. CASE v < b
    <3>1. Near(axis, Clamp(axis, v)) = {[entry |-> a, weight |-> b - v], [entry |-> b, weight |-> v - a]}
      BY <2>3, <2>5, <2>6, <2>12, NearBetween
    <3>. DEFINE it == findInterp(v, axis)
    <3>2. it.lo + 1 = L /\ (it.lo + 1) + 1 = L + 1
      BY <2>5, <2>8, <2>10
    <3>3. axis.entries[it.lo + 1] = a /\ axis.entries[(it.lo + 1) + 1] = b
      BY <3>2
    <3>. HIDE DEF a, b
    <3>4. b - v = it.den - it.num /\ v - a = it.num /\ it.den \in Nat \ {0} /\ it.num \in Int
      <4>1. b - v = (b - a) - (v - a) /\ b - a \in Nat \ {0} /\ v - a \in Int
        BY <2>9, <2>12
      <4>. QED  BY <2>8, <4>1
    <3>5. it.lo \in 0 .. axis.size - 1 /\ it.lo + 1 \in 0 .. axis.size - 1
      BY <2>8, <2>10
    <3>. HIDE DEF it
    <3>6. ReadsTwo(axis, it, Near(axis, Clamp(axis, v)))
      BY <3>1, <3>3, <3>4, <3>5 DEF ReadsTwo
    <3>. QED  BY <3>6 DEF it
  <2>. QED  BY <2>9, <2>11, <2>12
<1>. QED  BY <1>1, <1>2, <1>3, <1>4


-------------------------------------------------------------------------------
(* Five axes. *)

Points(near) == near[1] \X near[2] \X near[3] \X near[4] \X near[5]

(* There are finitely many points around a query.                          *)
LEMMA PointsFinite ==
  ASSUME NEW near, \A i \in 1 .. 5 : IsFiniteSet(near[i])
  PROVE  IsFiniteSet(Points(near))
<1>. DEFINE S2 == near[1] \X near[2]
            S3 == S2 \X near[3]
            S4 == S3 \X near[4]
            S5 == S4 \X near[5]
            f  == [x \in S5 |-> <<x[1][1][1][1], x[1][1][1][2], x[1][1][2], x[1][2], x[2]>>]
<1>1. IsFiniteSet(S2)
  BY FS_Product
<1>2. IsFiniteSet(S3)
  <2>. HIDE DEF S2
  <2>. QED  BY <1>1, FS_Product
<1>3. IsFiniteSet(S4)
  <2>. HIDE DEF S3
  <2>. QED  BY <1>2, FS_Product
<1>4. IsFiniteSet(S5)
  <2>. HIDE DEF S4
  <2>. QED  BY <1>3, FS_Product
<1>5. \A p \in Points(near) : \E x \in S5 : f[x] = p
  <2>1. ASSUME NEW p \in Points(near)  PROVE \E x \in S5 : f[x] = p
    <3>1. /\ p = <<p[1], p[2], p[3], p[4], p[5]>>
          /\ p[1] \in near[1] /\ p[2] \in near[2] /\ p[3] \in near[3] /\ p[4] \in near[4] /\ p[5] \in near[5]
      BY DEF Points
    <3>. DEFINE x == <<<<<<<<p[1], p[2]>>, p[3]>>, p[4]>>, p[5]>>
    <3>2. x \in S5
      BY <3>1
    <3>3. f[x] = <<p[1], p[2], p[3], p[4], p[5]>>
      BY <3>2
    <3>. QED  BY <3>1, <3>2, <3>3
  <2>. QED  BY <2>1
<1>6. \A x \in S5 : f[x] \in Points(near)
  BY DEF Points
<1>7. f \in [S5 -> Points(near)]
  <2>. HIDE DEF S5
  <2>1. f = [x \in S5 |-> f[x]]
    OBVIOUS
  <2>. HIDE DEF f
  <2>. QED  BY <1>6, <2>1
<1>. HIDE DEF S5, f
<1>. QED  BY <1>4, <1>5, <1>7, FS_Surjection DEF Surjection

(* The bits of the corner that holds the first k coordinates of a point,   *)
(* and the weight of these.                                                *)
Heads(near, k)   == {a \in [1 .. k -> UNION {near[i] : i \in 1 .. 5}] : \A i \in 1 .. k : a[i] \in near[i]}
Begins(near, k, a)  == {p \in Points(near) : \A i \in 1 .. k : p[i] = a[i]}
BitsOf(bit, k, a)   == [i \in 1 .. k |-> bit[i][a[i]]]
WeightOf(k, a)      == Product([i \in 1 .. k |-> a[i].weight])
Known(near, bit)    == \A i \in 1 .. 5 : \A y \in near[i] : y.weight \in Int /\ bit[i][y] \in {0, 1}
Longer(k, a, x)     == [i \in 1 .. k + 1 |-> IF i = k + 1 THEN x ELSE a[i]]

(* On an axis the weights are those of the reference up to a factor.       *)
Splits(near, interp, scale, bit) ==
  /\ interp.num \in Int /\ interp.den \in Int /\ scale \in Int
  /\ \A x \in near : x.weight \in Int /\ bit[x] \in {0, 1}
  /\ \/ \E x : /\ near = {x} /\ x.weight = 1 /\ scale = interp.den
               /\ (bit[x] = 0 /\ interp.num = 0) \/ (bit[x] = 1 /\ interp.num = interp.den)
     \/ \E x, y : /\ near = {x, y} /\ x # y /\ scale = 1
                  /\ x.weight = interp.den - interp.num /\ y.weight = interp.num
                  /\ bit[x] = 0 /\ bit[y] = 1

Agrees(near, bit, W, K, F0, F1, G) ==
  \A x \in near : (W * x.weight) * (IF bit[x] = 0 THEN F0 ELSE F1) = K * G[x]

IsTotal(near, G, total) ==
  /\ \A x : near = {x} => total = G[x]
  /\ \A x, y : near = {x, y} /\ x # y => total = G[x] + G[y]

(* Folding along one axis keeps the sum, up to the factor.                 *)
LEMMA OneAxis ==
  ASSUME NEW near, NEW interp, NEW scale, NEW bit, Splits(near, interp, scale, bit),
         NEW W \in Int, NEW K \in Int, NEW F0 \in Int, NEW F1 \in Int, NEW G \in [near -> Int],
         Agrees(near, bit, W, K, F0, F1, G), NEW total, IsTotal(near, G, total)
  PROVE  W * lerp(F0, F1, interp) = (scale * K) * total
<1>1. CASE \E x : /\ near = {x} /\ x.weight = 1 /\ scale = interp.den
                  /\ (bit[x] = 0 /\ interp.num = 0) \/ (bit[x] = 1 /\ interp.num = interp.den)
  <2>1. PICK x : /\ near = {x} /\ x.weight = 1 /\ scale = interp.den
                 /\ (bit[x] = 0 /\ interp.num = 0) \/ (bit[x] = 1 /\ interp.num = interp.den)
    BY <1>1
  <2>2. x \in near /\ total = G[x] /\ G[x] \in Int
    BY <2>1 DEF IsTotal
  <2>. DEFINE F == IF bit[x] = 0 THEN F0 ELSE F1
              den == interp.den
  <2>3. (W * 1) * F = K * G[x]
    BY <2>1, <2>2 DEF Agrees
  <2>4. den \in Int
    BY DEF Splits
  <2>5. lerp(F0, F1, interp) = F * den
    <3>1. CASE bit[x] = 0 /\ interp.num = 0
      <4>1. lerp(F0, F1, interp) = F0 * (den - 0) + F1 * 0
        BY <3>1 DEF lerp
      <4>. HIDE DEF den
      <4>2. F0 * (den - 0) + F1 * 0 = F0 * den
        BY <2>4
      <4>. QED  BY <3>1, <4>1, <4>2
    <3>2. CASE bit[x] = 1 /\ interp.num = den
      <4>1. lerp(F0, F1, interp) = F0 * (den - den) + F1 * den
        BY <3>2 DEF lerp
      <4>. HIDE DEF den
      <4>2. F0 * (den - den) + F1 * den = F1 * den
        <5>1. den - den = 0 /\ F0 * 0 = 0 /\ F1 * den \in Int
          BY <2>4
        <5>. QED  BY <5>1
      <4>. QED  BY <3>2, <4>1, <4>2
    <3>. QED  BY <2>1, <3>1, <3>2
  <2>6. F \in Int
    OBVIOUS
  <2>. DEFINE Gx == G[x]
  <2>. HIDE DEF F, den, Gx
  <2>7. W * F = K * Gx
    <3>1. W * 1 = W
      OBVIOUS
    <3>. QED  BY <2>3, <3>1 DEF Gx
  <2>8. W * (F * den) = (W * F) * den
    BY <2>4, <2>6
  <2>9. (K * Gx) * den = (den * K) * Gx
    <3>1. Gx \in Int
      BY <2>2 DEF Gx
    <3>. QED  BY <2>4, <3>1
  <2>. QED  BY <2>1, <2>2, <2>5, <2>7, <2>8, <2>9 DEF Gx, den
<1>2. CASE \E x, y : /\ near = {x, y} /\ x # y /\ scale = 1
                     /\ x.weight = interp.den - interp.num /\ y.weight = interp.num
                     /\ bit[x] = 0 /\ bit[y] = 1
  <2>1. PICK x, y : /\ near = {x, y} /\ x # y /\ scale = 1
                    /\ x.weight = interp.den - interp.num /\ y.weight = interp.num
                    /\ bit[x] = 0 /\ bit[y] = 1
    BY <1>2
  <2>. DEFINE Gx == G[x]
              Gy == G[y]
              u == x.weight
              v == y.weight
  <2>2. x \in near /\ y \in near /\ total = Gx + Gy /\ Gx \in Int /\ Gy \in Int
    BY <2>1 DEF IsTotal
  <2>3. (W * u) * F0 = K * Gx /\ (W * v) * F1 = K * Gy
    <3>1. ~ (bit[y] = 0)
      BY <2>1
    <3>. QED  BY <2>1, <2>2, <3>1 DEF Agrees
  <2>4. u \in Int /\ v \in Int
    BY <2>2 DEF Splits
  <2>5. lerp(F0, F1, interp) = F0 * u + F1 * v
    BY <2>1 DEF lerp
  <2>. HIDE DEF u, v, Gx, Gy
  <2>6. W * (F0 * u + F1 * v) = (W * u) * F0 + (W * v) * F1
    BY <2>4
  <2>7. K * Gx + K * Gy = K * (Gx + Gy)
    BY <2>2
  <2>8. 1 * K = K
    OBVIOUS
  <2>. QED  BY <2>1, <2>2, <2>3, <2>5, <2>6, <2>7, <2>8
<1>. QED  BY <1>1, <1>2 DEF Splits


(* A head that is one coordinate longer.                                   *)
LEMMA LongerFacts ==
  ASSUME NEW near, NEW k \in 0 .. 4, NEW a \in Heads(near, k), NEW x \in near[k + 1]
  PROVE  /\ Longer(k, a, x) \in Heads(near, k + 1)
         /\ Longer(k, a, x)[k + 1] = x
         /\ \A i \in 1 .. k : Longer(k, a, x)[i] = a[i]
<1>. DEFINE all == UNION {near[i] : i \in 1 .. 5}
            l   == Longer(k, a, x)
<1>1. a \in [1 .. k -> all] /\ \A i \in 1 .. k : a[i] \in near[i]
  BY DEF Heads
<1>2. \A i \in 1 .. k + 1 : i = k + 1 \/ i \in 1 .. k
  OBVIOUS
<1>3. k + 1 \in 1 .. 5 /\ k + 1 \in 1 .. k + 1 /\ \A i \in 1 .. k : i \in 1 .. k + 1 /\ i # k + 1
  OBVIOUS
<1>4. x \in all
  BY <1>3
<1>. HIDE DEF all
<1>5. l \in [1 .. k + 1 -> all]
  BY <1>1, <1>2, <1>4 DEF Longer
<1>6. l[k + 1] = x /\ \A i \in 1 .. k : l[i] = a[i]
  BY <1>3 DEF Longer
<1>7. \A i \in 1 .. k + 1 : l[i] \in near[i]
  BY <1>1, <1>2, <1>6
<1>. HIDE DEF l
<1>8. l \in Heads(near, k + 1)
  BY <1>5, <1>7 DEF Heads, all
<1>. QED  BY <1>6, <1>8 DEF l

(* Its weight is that of the head times that of the new one.               *)
LEMMA WeightOfLonger ==
  ASSUME NEW near, NEW k \in 0 .. 4, NEW a \in Heads(near, k), NEW x \in near[k + 1],
         NEW bit, Known(near, bit)
  PROVE  WeightOf(k + 1, Longer(k, a, x)) = WeightOf(k, a) * x.weight
         /\ WeightOf(k, a) \in Int /\ x.weight \in Int
<1>. DEFINE s == [i \in 1 .. k |-> a[i].weight]
            t == [i \in 1 .. k + 1 |-> Longer(k, a, x)[i].weight]
            w == x.weight
<1>1. \A i \in 1 .. k : a[i] \in near[i] /\ i \in 1 .. 5
  BY DEF Heads
<1>2. s \in [1 .. k -> Int]
  BY <1>1 DEF Known
<1>3. w \in Int
  <2>1. k + 1 \in 1 .. 5
    OBVIOUS
  <2>. QED  BY <2>1 DEF Known
<1>4. t[k + 1] = w /\ \A i \in 1 .. k : t[i] = s[i]
  <2>1. k + 1 \in 1 .. k + 1 /\ \A i \in 1 .. k : i \in 1 .. k + 1
    OBVIOUS
  <2>. QED  BY <2>1, LongerFacts
<1>5. \A i \in 1 .. k + 1 : i = k + 1 \/ i \in 1 .. k
  OBVIOUS
<1>6. t \in [1 .. k + 1 -> Int]
  <2>1. t = [i \in 1 .. k + 1 |-> t[i]]
    OBVIOUS
  <2>. HIDE DEF t, s, w
  <2>. QED  BY <1>2, <1>3, <1>4, <1>5, <2>1
<1>7. WeightOf(k, a) = Product(s) /\ WeightOf(k + 1, Longer(k, a, x)) = Product(t)
  BY DEF WeightOf
<1>. HIDE DEF s, t, w
<1>8. Product(t) = Product(s) * w /\ Product(s) \in Int
  <2>1. CASE k = 0
    <3>1. s \in [1 .. 0 -> Int] /\ t \in [1 .. 1 -> Int] /\ t[1] = w
      BY <1>2, <1>4, <1>6, <2>1
    <3>2. Product(s) = 1 /\ Product(t) = t[1]
      BY <3>1, ShortProducts
    <3>. QED  BY <1>3, <3>1, <3>2
  <2>2. CASE k = 1
    <3>1. t \in [1 .. 2 -> Int] /\ s \in [1 .. 1 -> Int] /\ t[2] = w /\ t[1] = s[1] /\ s[1] \in Int
      BY <1>2, <1>4, <1>6, <2>2
    <3>2. Product(s) = s[1] /\ Product(t) = t[1] * t[2]
      BY <3>1, ShortProducts
    <3>. QED  BY <3>1, <3>2
  <2>3. CASE k = 2
    <3>1. /\ t \in [1 .. 3 -> Int] /\ s \in [1 .. 2 -> Int] /\ t[3] = w /\ t[1] = s[1] /\ t[2] = s[2]
          /\ s[1] * s[2] \in Int
      BY <1>2, <1>4, <1>6, <2>3
    <3>2. Product(s) = s[1] * s[2] /\ Product(t) = t[1] * t[2] * t[3]
      BY <3>1, ShortProducts
    <3>. QED  BY <3>1, <3>2
  <2>4. CASE k = 3
    <3>1. /\ t \in [1 .. 4 -> Int] /\ s \in [1 .. 3 -> Int] /\ t[4] = w
          /\ t[1] = s[1] /\ t[2] = s[2] /\ t[3] = s[3] /\ s[1] * s[2] * s[3] \in Int
      BY <1>2, <1>4, <1>6, <2>4
    <3>2. Product(s) = s[1] * s[2] * s[3] /\ Product(t) = t[1] * t[2] * t[3] * t[4]
      BY <3>1, ShortProducts
    <3>. QED  BY <3>1, <3>2
  <2>5. CASE k = 4
    <3>1. /\ t \in [1 .. 5 -> Int] /\ s \in [1 .. 4 -> Int] /\ t[5] = w
          /\ t[1] = s[1] /\ t[2] = s[2] /\ t[3] = s[3] /\ t[4] = s[4] /\ s[1] * s[2] * s[3] * s[4] \in Int
      BY <1>2, <1>4, <1>6, <2>5
    <3>2. Product(s) = s[1] * s[2] * s[3] * s[4] /\ Product(t) = t[1] * t[2] * t[3] * t[4] * t[5]
      BY <3>1, ShortProducts
    <3>. QED  BY <3>1, <3>2
  <2>. QED  BY <2>1, <2>2, <2>3, <2>4, <2>5
<1>. QED  BY <1>3, <1>7, <1>8 DEF w

IsCorner(c, k) == c \in Bits /\ Len(c) = k

(* The bits of a head are a chain that lookup folds.                       *)
LEMMA BitsFacts ==
  ASSUME NEW near, NEW bit, Known(near, bit),
         NEW k \in 0 .. 5, NEW a \in Heads(near, k)
  PROVE  IsCorner(BitsOf(bit, k, a), k)
<1>. DEFINE b == BitsOf(bit, k, a)
<1>1. \A i \in 1 .. k : a[i] \in near[i] /\ i \in 1 .. 5
  BY DEF Heads
<1>2. b \in [1 .. k -> {0, 1}]
  BY <1>1 DEF BitsOf, Known
<1>. HIDE DEF b
<1>3. b \in Seq({0, 1}) /\ Len(b) = k
  BY <1>2
<1>4. b \in Bits
  BY <1>2 DEF Bits
<1>. QED  BY <1>3, <1>4 DEF b, IsCorner

(* Its bits are those of the head and one more.                            *)
LEMMA BitsOfLonger ==
  ASSUME NEW near, NEW bit, Known(near, bit),
         NEW k \in 0 .. 4, NEW a \in Heads(near, k), NEW x \in near[k + 1]
  PROVE  BitsOf(bit, k + 1, Longer(k, a, x)) = Append(BitsOf(bit, k, a), bit[k + 1][x])
<1>. DEFINE b == BitsOf(bit, k, a)
            c == BitsOf(bit, k + 1, Longer(k, a, x))
            z == bit[k + 1][x]
<1>1. k + 1 \in 1 .. k + 1 /\ \A i \in 1 .. k : i \in 1 .. k + 1
  OBVIOUS
<1>2. c[k + 1] = z /\ \A i \in 1 .. k : c[i] = b[i]
  BY <1>1, LongerFacts DEF BitsOf
<1>3. b \in [1 .. k -> {0, 1}]
  <2>1. \A i \in 1 .. k : a[i] \in near[i] /\ i \in 1 .. 5
    BY DEF Heads
  <2>. QED  BY <2>1 DEF BitsOf, Known
<1>4. z \in {0, 1}
  <2>1. k + 1 \in 1 .. 5
    OBVIOUS
  <2>. QED  BY <2>1 DEF Known
<1>5. c = [i \in 1 .. k + 1 |-> c[i]]
  BY DEF BitsOf
<1>. HIDE DEF b, c, z
<1>6. b \in Seq({0, 1}) /\ Len(b) = k
  BY <1>3
<1>7. Append(b, z) = [i \in 1 .. k + 1 |-> IF i = k + 1 THEN z ELSE b[i]]
  <2>1. Append(b, z) \in Seq({0, 1}) /\ Len(Append(b, z)) = k + 1
    BY <1>4, <1>6
  <2>2. \A i \in 1 .. k + 1 : Append(b, z)[i] = IF i = k + 1 THEN z ELSE b[i]
    BY <1>4, <1>6
  <2>. DEFINE l == Append(b, z)
  <2>3. l \in [1 .. Len(l) -> {0, 1}]
    BY <2>1, LenProperties
  <2>4. Len(l) = k + 1
    BY <2>1
  <2>. HIDE DEF l
  <2>5. l = [i \in 1 .. k + 1 |-> l[i]]
    BY <2>3, <2>4
  <2>. QED  BY <2>2, <2>5 DEF l
<1>8. \A i \in 1 .. k + 1 : c[i] = IF i = k + 1 THEN z ELSE b[i]
  <2>1. \A i \in 1 .. k + 1 : i = k + 1 \/ i \in 1 .. k
    OBVIOUS
  <2>2. \A i \in 1 .. k : i # k + 1
    OBVIOUS
  <2>. QED  BY <1>2, <2>1, <2>2
<1>9. c = Append(b, z)
  BY <1>5, <1>7, <1>8
<1>. QED  BY <1>9 DEF b, c, z


(* A chain of less than five bits can be continued.                        *)
LEMMA CornerFacts ==
  ASSUME NEW c \in Bits, Len(c) < 5, NEW b \in {0, 1}
  PROVE  Append(c, b) \in Bits /\ Len(Append(c, b)) = Len(c) + 1
<1>1. PICK n \in 0 .. 5 : c \in [1 .. n -> {0, 1}]
  BY DEF Bits
<1>2. c \in Seq({0, 1}) /\ Len(c) = n
  BY <1>1
<1>. DEFINE l == Append(c, b)
<1>3. l \in Seq({0, 1}) /\ Len(l) = n + 1
  BY <1>2
<1>4. l \in [1 .. Len(l) -> {0, 1}]
  BY <1>3, LenProperties
<1>5. n + 1 \in 0 .. 5
  BY <1>2
<1>. HIDE DEF l
<1>6. l \in [1 .. n + 1 -> {0, 1}]
  BY <1>3, <1>4
<1>7. l \in Bits
  BY <1>5, <1>6 DEF Bits
<1>. QED  BY <1>2, <1>3, <1>7 DEF l

(* The points that begin with it.                                          *)
LEMMA BeginsLonger ==
  ASSUME NEW near, NEW k \in 0 .. 4, NEW a \in Heads(near, k), NEW x \in near[k + 1]
  PROVE  Begins(near, k + 1, Longer(k, a, x)) = {p \in Begins(near, k, a) : p[k + 1] = x}
<1>. DEFINE l == Longer(k, a, x)
<1>1. l[k + 1] = x /\ \A i \in 1 .. k : l[i] = a[i]
  BY LongerFacts
<1>. HIDE DEF l
<1>2. \A i \in 1 .. k + 1 : i = k + 1 \/ i \in 1 .. k
  OBVIOUS
<1>3. k + 1 \in 1 .. k + 1 /\ \A i \in 1 .. k : i \in 1 .. k + 1
  OBVIOUS
<1>4. \A p : (\A i \in 1 .. k + 1 : p[i] = l[i]) <=> (\A i \in 1 .. k : p[i] = a[i]) /\ p[k + 1] = x
  BY <1>1, <1>2, <1>3
<1>5. Begins(near, k + 1, l) = {p \in Begins(near, k, a) : p[k + 1] = x}
  BY <1>4 DEF Begins
<1>. QED  BY <1>5 DEF l

(* A point has a near entry on every axis.                                 *)
LEMMA PointFacts ==
  ASSUME NEW near, NEW p \in Points(near)
  PROVE  /\ \A i \in 1 .. 5 : p[i] \in near[i]
         /\ p = [i \in 1 .. 5 |-> p[i]]
<1>1. /\ p = <<p[1], p[2], p[3], p[4], p[5]>>
      /\ p[1] \in near[1] /\ p[2] \in near[2] /\ p[3] \in near[3] /\ p[4] \in near[4] /\ p[5] \in near[5]
  BY DEF Points
<1>2. \A i \in 1 .. 5 : i = 1 \/ i = 2 \/ i = 3 \/ i = 4 \/ i = 5
  OBVIOUS
<1>3. \A i \in 1 .. 5 : p[i] \in near[i]
  BY <1>1, <1>2
<1>4. <<p[1], p[2], p[3], p[4], p[5]>> = [i \in 1 .. 5 |-> <<p[1], p[2], p[3], p[4], p[5]>>[i]]
  OBVIOUS
<1>5. p = [i \in 1 .. 5 |-> p[i]]
  BY <1>1, <1>4
<1>. QED  BY <1>3, <1>5

(* lookup folds the corners along one axis after the other.                *)
Folds(F, interp) ==
  /\ F \in [Bits -> Int]
  /\ \A c \in Bits : Len(c) < 5 =>
       F[c] = lerp(F[Append(c, 0)], F[Append(c, 1)], interp[Len(c) + 1])

AllSplit(near, interp, scale, bit) == \A i \in 1 .. 5 : Splits(near[i], interp[i], scale[i], bit[i])

Scales(K, scale) ==
  /\ K[5] = 1 /\ \A k \in 0 .. 5 : K[k] \in Int
  /\ \A k \in 0 .. 4 : K[k] = scale[k + 1] * K[k + 1]

SumsUp(near, bit, K, F, g, k) == \A a \in Heads(near, k) :
  WeightOf(k, a) * F[BitsOf(bit, k, a)] = K[k] * g[Begins(near, k, a)]

(* From the heads with k + 1 coordinates to those with k.                  *)
LEMMA FoldStep ==
  ASSUME NEW near, NEW interp, NEW scale, NEW bit, AllSplit(near, interp, scale, bit),
         NEW K, Scales(K, scale), NEW F, Folds(F, interp),
         NEW g \in [SUBSET Points(near) -> Int], Adds(Points(near), g),
         NEW k \in 0 .. 4, SumsUp(near, bit, K, F, g, k + 1)
  PROVE  SumsUp(near, bit, K, F, g, k)
<1>1. Known(near, bit)
  BY DEF AllSplit, Splits, Known
<1>2. k + 1 \in 1 .. 5 /\ k \in 0 .. 5 /\ k + 1 \in 0 .. 5
  OBVIOUS
<1>3. ASSUME NEW a \in Heads(near, k)
      PROVE  WeightOf(k, a) * F[BitsOf(bit, k, a)] = K[k] * g[Begins(near, k, a)]
  <2>. DEFINE c     == BitsOf(bit, k, a)
              W     == WeightOf(k, a)
              F0    == F[Append(c, 0)]
              F1    == F[Append(c, 1)]
              axis  == near[k + 1]
              part  == [x \in axis |-> Begins(near, k + 1, Longer(k, a, x))]
              G     == [x \in axis |-> g[part[x]]]
              whole == Begins(near, k, a)
  <2>1. c \in Bits /\ Len(c) = k
    <3>1. k \in 0 .. 5
      BY <1>2
    <3>2. IsCorner(c, k)
      BY <1>1, <3>1, BitsFacts
    <3>. QED  BY <3>2 DEF IsCorner
  <2>2. F0 \in Int /\ F1 \in Int /\ F[c] = lerp(F0, F1, interp[k + 1])
    <3>1. Len(c) < 5
      BY <2>1
    <3>. HIDE DEF c
    <3>2. Append(c, 0) \in Bits /\ Append(c, 1) \in Bits
      BY <2>1, <3>1, CornerFacts
    <3>. QED  BY <2>1, <3>1, <3>2 DEF Folds
  <2>3. Splits(axis, interp[k + 1], scale[k + 1], bit[k + 1])
    BY <1>2 DEF AllSplit
  <2>4. \A x \in axis : part[x] = {p \in whole : p[k + 1] = x}
    BY BeginsLonger
  <2>5. whole \in SUBSET Points(near) /\ \A p \in whole : p[k + 1] \in axis
    <3>1. whole \subseteq Points(near)
      BY DEF Begins
    <3>. QED  BY <1>2, <3>1, PointFacts
  <2>6. W \in Int
    <3>1. PICK x \in axis : TRUE
      BY <2>3 DEF Splits
    <3>. QED  BY <1>1, <3>1, WeightOfLonger
  <2>7. \A x \in axis : (W * x.weight) * (IF bit[k + 1][x] = 0 THEN F0 ELSE F1) = K[k + 1] * G[x]
    <3>1. ASSUME NEW x \in axis
          PROVE  (W * x.weight) * (IF bit[k + 1][x] = 0 THEN F0 ELSE F1) = K[k + 1] * G[x]
      <4>. DEFINE l == Longer(k, a, x)
      <4>1. l \in Heads(near, k + 1)
        BY LongerFacts
      <4>2. WeightOf(k + 1, l) * F[BitsOf(bit, k + 1, l)] = K[k + 1] * g[Begins(near, k + 1, l)]
        BY <4>1 DEF SumsUp
      <4>3. WeightOf(k + 1, l) = W * x.weight
        BY <1>1, WeightOfLonger
      <4>4. BitsOf(bit, k + 1, l) = Append(c, bit[k + 1][x])
        BY <1>1, BitsOfLonger
      <4>5. G[x] = g[Begins(near, k + 1, l)]
        OBVIOUS
      <4>6. bit[k + 1][x] \in {0, 1}
        BY <1>1, <1>2 DEF Known
      <4>. HIDE DEF l, c, W, G
      <4>7. F[Append(c, bit[k + 1][x])] = IF bit[k + 1][x] = 0 THEN F0 ELSE F1
        BY <4>6
      <4>. HIDE DEF F0, F1
      <4>. QED  BY <4>2, <4>3, <4>4, <4>5, <4>7
    <3>. QED  BY <3>1
  <2>8. G \in [axis -> Int]
    <3>. HIDE DEF whole
    <3>1. \A x \in axis : part[x] \in SUBSET Points(near)
      <4>. HIDE DEF part
      <4>. QED  BY <2>4, <2>5
    <3>. HIDE DEF part
    <3>. QED  BY <3>1
  <2>9. \A x \in axis : G[x] = g[part[x]]
    OBVIOUS
  <2>. HIDE DEF whole, part, G
  <2>10. ASSUME NEW x, axis = {x}  PROVE g[whole] = G[x]
    <3>1. x \in axis /\ \A p \in whole : p[k + 1] = x
      BY <2>5, <2>10
    <3>2. part[x] = whole
      BY <2>4, <3>1
    <3>. QED  BY <2>9, <3>1, <3>2
  <2>11. ASSUME NEW x, NEW y, axis = {x, y} /\ x # y  PROVE g[whole] = G[x] + G[y]
    <3>1. x \in axis /\ y \in axis /\ \A p \in whole : p[k + 1] = x \/ p[k + 1] = y
      BY <2>5, <2>11
    <3>2. part[x] \cup part[y] = whole /\ part[x] \cap part[y] = {}
      BY <2>4, <2>11, <3>1
    <3>3. part[x] \in SUBSET Points(near) /\ part[y] \in SUBSET Points(near)
      BY <2>5, <3>2
    <3>4. g[whole] = g[part[x]] + g[part[y]]
      BY <3>2, <3>3 DEF Adds
    <3>. QED  BY <2>9, <3>1, <3>4
  <2>12. K[k + 1] \in Int /\ K[k] = scale[k + 1] * K[k + 1]
    BY <1>2 DEF Scales
  <2>. HIDE DEF c, W, F0, F1, axis
  <2>13. W * lerp(F0, F1, interp[k + 1]) = (scale[k + 1] * K[k + 1]) * g[whole]
    <3>. DEFINE total == g[whole]
                Kk == K[k + 1]
    <3>1. IsTotal(axis, G, total)
      BY <2>10, <2>11 DEF IsTotal
    <3>2. Agrees(axis, bit[k + 1], W, Kk, F0, F1, G)
      BY <2>7 DEF Agrees
    <3>3. Kk \in Int
      BY <2>12
    <3>. HIDE DEF total, Kk
    <3>4. W * lerp(F0, F1, interp[k + 1]) = (scale[k + 1] * Kk) * total
      BY <2>2, <2>3, <2>6, <2>8, <3>1, <3>2, <3>3, OneAxis
    <3>. QED  BY <3>4 DEF total, Kk
  <2>. QED  BY <2>2, <2>12, <2>13 DEF c, W, whole
<1>. QED  BY <1>3 DEF SumsUp


(* One or two entries are near.                                            *)
LEMMA NearFinite ==
  ASSUME NEW near, NEW interp, NEW scale, NEW bit, Splits(near, interp, scale, bit)
  PROVE  IsFiniteSet(near)
<1>1. \A x : IsFiniteSet({x})
  BY FS_Singleton
<1>2. \A x, y : IsFiniteSet({x, y})
  <2>1. ASSUME NEW x, NEW y  PROVE IsFiniteSet({x, y})
    <3>1. {x, y} = {x} \cup {y}
      OBVIOUS
    <3>2. IsFiniteSet({x} \cup {y})
      BY <1>1, FS_AddElement
    <3>. QED  BY <3>1, <3>2
  <2>. QED  BY <2>1
<1>3. (\E x : near = {x}) \/ (\E x, y : near = {x, y})
  BY DEF Splits
<1>. QED  BY <1>1, <1>2, <1>3

(* A head of all five coordinates is one point.                            *)
LEMMA HeadsArePoints ==
  ASSUME NEW near, NEW a \in Heads(near, 5)
  PROVE  a \in Points(near) /\ Begins(near, 5, a) = {a}
<1>1. a = [i \in 1 .. 5 |-> a[i]] /\ \A i \in 1 .. 5 : a[i] \in near[i]
  BY DEF Heads
<1>2. a \in Points(near)
  <2>1. [i \in 1 .. 5 |-> a[i]] = <<a[1], a[2], a[3], a[4], a[5]>>
    OBVIOUS
  <2>2. a[1] \in near[1] /\ a[2] \in near[2] /\ a[3] \in near[3] /\ a[4] \in near[4] /\ a[5] \in near[5]
    BY <1>1
  <2>3. <<a[1], a[2], a[3], a[4], a[5]>> \in Points(near)
    BY <2>2 DEF Points
  <2>. QED  BY <1>1, <2>1, <2>3
<1>3. ASSUME NEW p \in Begins(near, 5, a)  PROVE p = a
  <2>1. p \in Points(near) /\ \A i \in 1 .. 5 : p[i] = a[i]
    BY DEF Begins
  <2>2. p = [i \in 1 .. 5 |-> p[i]]
    BY <2>1, PointFacts
  <2>3. [i \in 1 .. 5 |-> p[i]] = [i \in 1 .. 5 |-> a[i]]
    BY <2>1
  <2>. QED  BY <1>1, <2>2, <2>3
<1>4. a \in Begins(near, 5, a)
  BY <1>2 DEF Begins
<1>. QED  BY <1>2, <1>3, <1>4

(* The weight of a point is a number.                                      *)
LEMMA WeightType ==
  ASSUME NEW near, NEW bit, Known(near, bit), NEW p \in Points(near)
  PROVE  Weight(p) \in Int /\ Weight(p) = WeightOf(5, p)
<1>. DEFINE s == [i \in 1 .. 5 |-> p[i].weight]
<1>1. s \in [1 .. 5 -> Int]
  BY PointFacts DEF Known
<1>2. Weight(p) = Product(s) /\ WeightOf(5, p) = Product(s)
  BY DEF Weight, WeightOf, Dimensions
<1>. HIDE DEF s
<1>3. Product(s) = s[1] * s[2] * s[3] * s[4] * s[5]
  BY <1>1, ShortProducts
<1>4. \A i \in 1 .. 5 : s[i] \in Int
  BY <1>1
<1>5. s[1] * s[2] * s[3] * s[4] * s[5] \in Int
  BY <1>4
<1>. QED  BY <1>2, <1>3, <1>5

(* Folding the corners of a cell is adding up the points, up to a factor.  *)
Corner(bit, p) == [i \in 1 .. 5 |-> bit[i][p[i]]]

HasValues(near, bit, F, value) ==
  /\ value \in [Points(near) -> Int]
  /\ \A p \in Points(near) : F[Corner(bit, p)] = value[p]

(* Folding all five axes leaves the weighted sum of the corners.           *)
LEMMA FoldIsSum ==
  ASSUME NEW near, NEW interp, NEW scale, NEW bit, AllSplit(near, interp, scale, bit),
         NEW K, Scales(K, scale), NEW F, Folds(F, interp),
         NEW value, HasValues(near, bit, F, value)
  PROVE  LET sum == SumFunction([p \in Points(near) |-> Weight(p) * value[p]])
         IN  F[<< >>] = K[0] * sum /\ sum \in Int
<1>. DEFINE points == Points(near)
            f      == [p \in points |-> Weight(p) * value[p]]
<1>1. Known(near, bit)
  BY DEF AllSplit, Splits, Known
<1>2. IsFiniteSet(points)
  <2>1. \A i \in 1 .. 5 : IsFiniteSet(near[i])
    BY NearFinite DEF AllSplit
  <2>. QED  BY <2>1, PointsFinite
<1>3. \A p \in points : Weight(p) \in Int /\ Weight(p) = WeightOf(5, p)
  BY <1>1, WeightType
<1>4. f \in [points -> Int]
  <2>1. \A p \in points : value[p] \in Int
    BY DEF HasValues
  <2>. HIDE DEF points
  <2>2. \A a, b \in Int : a * b \in Int
    OBVIOUS
  <2>. QED  BY <1>3, <2>1, <2>2
<1>5. \A p \in points : f[p] = Weight(p) * value[p]
  OBVIOUS
<1>. HIDE DEF f
<1>6. PICK g \in [SUBSET points -> Int] :
        SumFunction(f) = g[points] /\ (\A x \in points : g[{x}] = f[x]) /\ Adds(points, g)
  BY <1>2, <1>4, SumFacts
<1>7. SumsUp(near, bit, K, F, g, 5)
  <2>1. ASSUME NEW a \in Heads(near, 5)
        PROVE  WeightOf(5, a) * F[BitsOf(bit, 5, a)] = K[5] * g[Begins(near, 5, a)]
    <3>1. a \in points /\ Begins(near, 5, a) = {a}
      BY HeadsArePoints
    <3>2. F[BitsOf(bit, 5, a)] = value[a]
      BY <3>1 DEF HasValues, BitsOf, Corner
    <3>3. g[Begins(near, 5, a)] = WeightOf(5, a) * value[a]
      <4>. HIDE DEF points
      <4>. QED  BY <1>3, <1>5, <1>6, <3>1
    <3>4. g[Begins(near, 5, a)] \in Int
      <4>1. {a} \in SUBSET points
        BY <3>1
      <4>. QED  BY <1>6, <3>1, <4>1
    <3>5. K[5] = 1
      BY DEF Scales
    <3>6. \A x \in Int : 1 * x = x
      OBVIOUS
    <3>. QED  BY <3>2, <3>3, <3>4, <3>5, <3>6
  <2>. QED  BY <2>1 DEF SumsUp
<1>8. \A k \in 0 .. 4 : SumsUp(near, bit, K, F, g, k + 1) => SumsUp(near, bit, K, F, g, k)
  BY <1>6, FoldStep
<1>9. SumsUp(near, bit, K, F, g, 0)
  <2>1. /\ SumsUp(near, bit, K, F, g, 4 + 1) => SumsUp(near, bit, K, F, g, 4)
        /\ SumsUp(near, bit, K, F, g, 3 + 1) => SumsUp(near, bit, K, F, g, 3)
        /\ SumsUp(near, bit, K, F, g, 2 + 1) => SumsUp(near, bit, K, F, g, 2)
        /\ SumsUp(near, bit, K, F, g, 1 + 1) => SumsUp(near, bit, K, F, g, 1)
        /\ SumsUp(near, bit, K, F, g, 0 + 1) => SumsUp(near, bit, K, F, g, 0)
    BY <1>8
  <2>2. 4 + 1 = 5 /\ 3 + 1 = 4 /\ 2 + 1 = 3 /\ 1 + 1 = 2 /\ 0 + 1 = 1
    OBVIOUS
  <2>. QED  BY <1>7, <2>1, <2>2
<1>10. F[<< >>] = K[0] * g[points]
  <2>. DEFINE a == [i \in 1 .. 0 |-> i]
  <2>1. 1 .. 0 = {}
    OBVIOUS
  <2>2. a \in Heads(near, 0)
    BY <2>1 DEF Heads
  <2>3. BitsOf(bit, 0, a) = << >>
    BY <2>1 DEF BitsOf
  <2>4. WeightOf(0, a) = 1
    <3>1. [i \in 1 .. 0 |-> a[i].weight] \in [1 .. 0 -> Int]
      BY <2>1
    <3>. QED  BY <3>1, ShortProducts DEF WeightOf
  <2>5. Begins(near, 0, a) = points
    BY <2>1 DEF Begins
  <2>6. F[<< >>] \in Int
    <3>1. << >> \in Bits
      <4>1. << >> \in [1 .. 0 -> {0, 1}]
        BY <2>1
      <4>. QED  BY <4>1 DEF Bits
    <3>. QED  BY <3>1 DEF Folds
  <2>. HIDE DEF a, points
  <2>7. 1 * F[<< >>] = K[0] * g[points]
    BY <1>9, <2>2, <2>3, <2>4, <2>5 DEF SumsUp
  <2>. QED  BY <2>6, <2>7
<1>11. g[points] \in Int
  BY <1>6
<1>12. F[<< >>] = K[0] * SumFunction(f) /\ SumFunction(f) \in Int
  BY <1>6, <1>10, <1>11
<1>. QED  BY <1>12 DEF f


-------------------------------------------------------------------------------
(* The recursion of lookup. *)

InterpOf(table, query) ==
  <<findInterp(query[1], table.axes[1]), findInterp(query[2], table.axes[2]),
    findInterp(query[3], table.axes[3]), findInterp(query[4], table.axes[4]),
    findInterp(query[5], table.axes[5])>>

Leaf(table, interp, garbage, field, c) ==
  at(table, [i \in Dimensions |-> interp[i].lo + c[i]], garbage)[field]

IsFolded(F, table, interp, garbage, field) == F = [c \in Bits |->
  IF Len(c) = 5 THEN Leaf(table, interp, garbage, field, c)
  ELSE lerp(F[Append(c, 0)], F[Append(c, 1)], interp[Len(c) + 1])]

(* The function that lookup defines, by a name.                            *)
LEMMA LookupIs ==
  \A table, query, garbage, field :
    LET interp == InterpOf(table, query)
        den == [i \in Dimensions |-> interp[i].den]
    IN  lookup(table, query, garbage, field) =
          (CHOOSE F : IsFolded(F, table, interp, garbage, field))[<< >>]
            \div (den[1] * den[2] * den[3] * den[4] * den[5])
  BY DEF lookup, InterpOf, IsFolded, Leaf

(* What a chain of bits is as long as. *)
LEMMA CornerLength ==
  /\ \A c \in Bits : Len(c) \in 0 .. 5
  /\ \A c \in Bits : Len(c) >= 5 => Len(c) = 5
  /\ \A c \in Bits : Len(c) # 5 => Len(c) < 5
  /\ \A c \in Bits : Len(c) < 5 => Len(c) # 5
  /\ \A c \in Bits : Len(c) >= 0
<1>1. ASSUME NEW c \in Bits  PROVE Len(c) \in 0 .. 5
  <2>1. PICK n \in 0 .. 5 : c \in [1 .. n -> {0, 1}]
    BY DEF Bits
  <2>2. c \in Seq({0, 1}) /\ Len(c) = n
    BY <2>1
  <2>. QED  BY <2>2
<1>2. \A n \in 0 .. 5 : (n >= 5 => n = 5) /\ (n # 5 => n < 5) /\ (n < 5 => n # 5) /\ n >= 0
  OBVIOUS
<1>. QED  BY <1>1, <1>2

(* From the corners, which have five bits, down to none.                   *)
LEMMA FoldedExists ==
  ASSUME NEW table, NEW interp, NEW garbage, NEW field
  PROVE  \E F : IsFolded(F, table, interp, garbage, field)
<1>. DEFINE Leafs == [c \in Bits |-> Leaf(table, interp, garbage, field, c)]
            Again(F) == [c \in Bits |-> IF Len(c) = 5 THEN Leafs[c]
                           ELSE lerp(F[Append(c, 0)], F[Append(c, 1)], interp[Len(c) + 1])]
            Goes(n)  == \E F : F = [c \in Bits |-> F[c]] /\ \A c \in Bits : Len(c) >= n => F[c] = Again(F)[c]
<1>1. \A c \in Bits : Len(c) \in 0 .. 5
  BY CornerLength
<1>2. Goes(5)
  <2>1. \A c \in Bits : Len(c) >= 5 => Len(c) = 5
    BY CornerLength
  <2>2. \A c \in Bits : Len(c) = 5 => Leafs[c] = Again(Leafs)[c]
    OBVIOUS
  <2>3. Leafs = [c \in Bits |-> Leafs[c]]
    OBVIOUS
  <2>. HIDE DEF Leafs, Again
  <2>4. Leafs = [c \in Bits |-> Leafs[c]] /\ \A c \in Bits : Len(c) >= 5 => Leafs[c] = Again(Leafs)[c]
    BY <2>1, <2>2, <2>3
  <2>. QED  BY <2>4
<1>3. ASSUME NEW n \in 0 .. 4, Goes(n + 1)  PROVE Goes(n)
  <2>1. PICK F : F = [c \in Bits |-> F[c]] /\ \A c \in Bits : Len(c) >= n + 1 => F[c] = Again(F)[c]
    BY <1>3
  <2>. DEFINE G == Again(F)
  <2>2. G = [c \in Bits |-> G[c]]
    OBVIOUS
  <2>3. ASSUME NEW c \in Bits, Len(c) >= n  PROVE G[c] = Again(G)[c]
    <3>1. CASE Len(c) = 5
      BY <3>1
    <3>2. CASE Len(c) # 5
      <4>1. Len(c) < 5
        BY CornerLength, <3>2
      <4>2. Append(c, 0) \in Bits /\ Append(c, 1) \in Bits
            /\ Len(Append(c, 0)) = Len(c) + 1 /\ Len(Append(c, 1)) = Len(c) + 1
        BY <4>1, CornerFacts
      <4>3. Len(c) + 1 >= n + 1
        <5>1. Len(c) \in Int /\ n \in Int
          BY <1>1
        <5>. QED  BY <2>3, <5>1
      <4>4. F[Append(c, 0)] = G[Append(c, 0)] /\ F[Append(c, 1)] = G[Append(c, 1)]
        <5>. HIDE DEF Again
        <5>. QED  BY <2>1, <4>2, <4>3
      <4>5. G[c] = lerp(F[Append(c, 0)], F[Append(c, 1)], interp[Len(c) + 1])
        BY <3>2
      <4>. HIDE DEF G
      <4>6. Again(G)[c] = lerp(G[Append(c, 0)], G[Append(c, 1)], interp[Len(c) + 1])
        BY <3>2
      <4>. QED  BY <4>4, <4>5, <4>6
    <3>. QED  BY <3>1, <3>2
  <2>. HIDE DEF G
  <2>. QED  BY <2>2, <2>3
<1>. HIDE DEF Goes
<1>4. Goes(0)
  <2>1. /\ Goes(4 + 1) => Goes(4)
        /\ Goes(3 + 1) => Goes(3)
        /\ Goes(2 + 1) => Goes(2)
        /\ Goes(1 + 1) => Goes(1)
        /\ Goes(0 + 1) => Goes(0)
    <3>1. 4 \in 0 .. 4 /\ 3 \in 0 .. 4 /\ 2 \in 0 .. 4 /\ 1 \in 0 .. 4 /\ 0 \in 0 .. 4
      OBVIOUS
    <3>. QED  BY <1>3, <3>1, Zenon
  <2>2. 4 + 1 = 5 /\ 3 + 1 = 4 /\ 2 + 1 = 3 /\ 1 + 1 = 2 /\ 0 + 1 = 1
    OBVIOUS
  <2>. QED  BY <1>2, <2>1, <2>2, Zenon
<1>5. PICK F : F = [c \in Bits |-> F[c]] /\ \A c \in Bits : Len(c) >= 0 => F[c] = Again(F)[c]
  BY <1>4 DEF Goes
<1>6. \A c \in Bits : F[c] = Again(F)[c]
  <2>. HIDE DEF Again
  <2>. QED  BY CornerLength, <1>5
<1>7. \A c \in Bits : F[c] = IF Len(c) = 5 THEN Leaf(table, interp, garbage, field, c)
                             ELSE lerp(F[Append(c, 0)], F[Append(c, 1)], interp[Len(c) + 1])
  BY <1>6
<1>. HIDE DEF Again, Leafs
<1>8. IsFolded(F, table, interp, garbage, field)
  BY <1>5, <1>7 DEF IsFolded
<1>. QED  BY <1>8

(* It folds numbers, and its corners are the cells it reads.               *)
LEMMA FoldedFolds ==
  ASSUME NEW table, NEW interp, NEW garbage, NEW field,
         \A c \in Bits : Leaf(table, interp, garbage, field, c) \in Int,
         \A i \in 1 .. 5 : interp[i].num \in Int /\ interp[i].den \in Int,
         NEW F, IsFolded(F, table, interp, garbage, field)
  PROVE  /\ Folds(F, interp)
         /\ \A c \in Bits : Len(c) = 5 => F[c] = Leaf(table, interp, garbage, field, c)
<1>1. \A c \in Bits : F[c] = IF Len(c) = 5 THEN Leaf(table, interp, garbage, field, c)
                             ELSE lerp(F[Append(c, 0)], F[Append(c, 1)], interp[Len(c) + 1])
  BY DEF IsFolded
<1>2. F = [c \in Bits |-> F[c]]
  BY DEF IsFolded
<1>3. \A c \in Bits : Len(c) \in 0 .. 5
  BY CornerLength
<1>. DEFINE Typed(n) == \A c \in Bits : Len(c) = n => F[c] \in Int
<1>4. Typed(5)
  BY <1>1
<1>5. ASSUME NEW n \in 0 .. 4, Typed(n + 1)  PROVE Typed(n)
  <2>1. ASSUME NEW c \in Bits, Len(c) = n  PROVE F[c] \in Int
    <3>1. Len(c) < 5 /\ Len(c) # 5 /\ n + 1 \in 1 .. 5
      <4>1. \A m \in 0 .. 4 : m < 5 /\ m # 5 /\ m + 1 \in 1 .. 5
        OBVIOUS
      <4>. QED  BY <2>1, <4>1
    <3>2. Append(c, 0) \in Bits /\ Append(c, 1) \in Bits
          /\ Len(Append(c, 0)) = n + 1 /\ Len(Append(c, 1)) = n + 1
      BY <2>1, <3>1, CornerFacts
    <3>3. F[Append(c, 0)] \in Int /\ F[Append(c, 1)] \in Int
      BY <1>5, <3>2
    <3>. DEFINE a == F[Append(c, 0)]
                b == F[Append(c, 1)]
                it == interp[n + 1]
    <3>4. F[c] = lerp(a, b, it)
      BY <1>1, <2>1, <3>1
    <3>5. it.num \in Int /\ it.den \in Int
      BY <3>1
    <3>. HIDE DEF a, b, it
    <3>6. \A x, y, d, m \in Int : x * (d - m) + y * m \in Int
      OBVIOUS
    <3>7. lerp(a, b, it) \in Int
      BY <3>3, <3>5, <3>6 DEF lerp, a, b
    <3>. QED  BY <3>4, <3>7
  <2>. QED  BY <2>1
<1>6. \A c \in Bits : F[c] \in Int
  <2>1. Typed(5) /\ Typed(4) /\ Typed(3) /\ Typed(2) /\ Typed(1) /\ Typed(0)
    <3>. HIDE DEF Typed
    <3>1. Typed(4)
      <4>1. 4 \in 0 .. 4 /\ 4 + 1 = 5
        OBVIOUS
      <4>. QED  BY <1>4, <1>5, <4>1
    <3>2. Typed(3)
      <4>1. 3 \in 0 .. 4 /\ 3 + 1 = 4
        OBVIOUS
      <4>. QED  BY <3>1, <1>5, <4>1
    <3>3. Typed(2)
      <4>1. 2 \in 0 .. 4 /\ 2 + 1 = 3
        OBVIOUS
      <4>. QED  BY <3>2, <1>5, <4>1
    <3>4. Typed(1)
      <4>1. 1 \in 0 .. 4 /\ 1 + 1 = 2
        OBVIOUS
      <4>. QED  BY <3>3, <1>5, <4>1
    <3>5. Typed(0)
      <4>1. 0 \in 0 .. 4 /\ 0 + 1 = 1
        OBVIOUS
      <4>. QED  BY <3>4, <1>5, <4>1
    <3>. QED  BY <1>4, <3>1, <3>2, <3>3, <3>4, <3>5
  <2>2. \A n \in 0 .. 5 : n = 0 \/ n = 1 \/ n = 2 \/ n = 3 \/ n = 4 \/ n = 5
    OBVIOUS
  <2>. QED  BY <1>3, <2>1, <2>2
<1>7. F \in [Bits -> Int]
  BY <1>2, <1>6
<1>8. \A c \in Bits : Len(c) < 5 => Len(c) # 5
  BY CornerLength
<1>. QED  BY <1>1, <1>7, <1>8 DEF Folds


-------------------------------------------------------------------------------
(* The place of an entry on its axis, counted from zero. *)
Place(axis, entry) == Cardinality({k \in 1 .. axis.size : axis.entries[k] < entry})

(* The k-th entry has k - 1 before it.                                     *)
LEMMA PlaceIs ==
  ASSUME NEW axis, IsAxis(axis), NEW k \in 1 .. axis.size
  PROVE  Place(axis, axis.entries[k]) = k - 1
<1>. DEFINE e == axis.entries
            n == axis.size
            S == {j \in 1 .. n : e[j] < e[k]}
<1>1. /\ n \in Nat /\ k \in 1 .. n
      /\ \A j \in 1 .. n : e[j] \in Int
      /\ \A j, l \in 1 .. n : j <= l => e[j] <= e[l]
      /\ \A j, l \in 1 .. n : j < l => e[j] < e[l]
  BY AxisFacts DEF IsAxis
<1>. HIDE DEF e, n
<1>2. \A j \in 1 .. n : e[j] < e[k] <=> j \in 1 .. k - 1
  <2>1. ASSUME NEW j \in 1 .. n  PROVE e[j] < e[k] <=> j \in 1 .. k - 1
    <3>1. j < k \/ k <= j
      BY <1>1
    <3>2. j < k => e[j] < e[k] /\ j \in 1 .. k - 1
      BY <1>1
    <3>3. k <= j => ~ (e[j] < e[k]) /\ j \notin 1 .. k - 1
      BY <1>1
    <3>. QED  BY <3>1, <3>2, <3>3
  <2>. QED  BY <2>1
<1>3. \A j \in 1 .. k - 1 : j \in 1 .. n
  BY <1>1
<1>4. S = 1 .. k - 1
  BY <1>2, <1>3
<1>5. Cardinality(1 .. k - 1) = k - 1
  <2>1. 1 \in Int /\ k - 1 \in Int /\ (1 > k - 1 => k - 1 = 0) /\ (k - 1) - 1 + 1 = k - 1
    BY <1>1
  <2>. QED  BY <2>1, FS_Interval
<1>. QED  BY <1>4, <1>5 DEF Place, e, n

BitOf(axis, interp, near) == [x \in near |-> Place(axis, x.entry) - interp.lo]
ScaleOf(interp, near)     == IF \E x : near = {x} THEN interp.den ELSE 1

(* What findInterp reads splits the axis, and the bits lead to the places. *)
IsRead(axis, interp, near) ==
  /\ interp.den \in Nat \ {0} /\ ScaleOf(interp, near) \in Nat \ {0}
  /\ \A x \in near : /\ interp.lo + BitOf(axis, interp, near)[x] = Place(axis, x.entry)
                     /\ Place(axis, x.entry) \in 0 .. axis.size - 1
  /\ Splits(near, interp, ScaleOf(interp, near), BitOf(axis, interp, near))

(* It does if one entry has the whole weight,                              *)
LEMMA ReadOne ==
  ASSUME NEW axis, IsAxis(axis), NEW interp, NEW near, NEW b \in {0, 1}, ReadsOne(axis, interp, near, b)
  PROVE  IsRead(axis, interp, near)
<1>. DEFINE bit == BitOf(axis, interp, near)
            j   == interp.lo + b
            x   == [entry |-> axis.entries[j + 1], weight |-> 1]
            den == interp.den
            lo  == interp.lo
<1>1. den \in Nat \ {0} /\ interp.num = b * den /\ lo \in Int /\ j \in 0 .. axis.size - 1 /\ near = {x}
  BY DEF ReadsOne
<1>2. j + 1 \in 1 .. axis.size /\ (j + 1) - 1 = j
  BY <1>1, AxisFacts
<1>3. Place(axis, x.entry) = j
  <2>1. x.entry = axis.entries[j + 1]
    OBVIOUS
  <2>. HIDE DEF x, j
  <2>. QED  BY <1>2, <2>1, PlaceIs
<1>4. bit[x] = b
  <2>1. bit[x] = Place(axis, x.entry) - lo
    BY <1>1 DEF BitOf
  <2>2. j - lo = b
    BY <1>1
  <2>. HIDE DEF bit, x, j, lo
  <2>. QED  BY <1>3, <2>1, <2>2
<1>5. ScaleOf(interp, near) = den
  <2>. HIDE DEF x, j
  <2>. QED  BY <1>1 DEF ScaleOf
<1>6. x.weight = 1
  OBVIOUS
<1>7. (b = 0 => interp.num = 0) /\ (b = 1 => interp.num = den)
  <2>. HIDE DEF den
  <2>. QED  BY <1>1
<1>8. lo + b = j
  OBVIOUS
<1>9. j \in 0 .. axis.size - 1
  BY <1>1
<1>. HIDE DEF x, bit, j
<1>10. Splits(near, interp, den, bit)
  <2>1. interp.num \in Int /\ den \in Int
    BY <1>1, <1>7
  <2>2. \A y \in near : y.weight \in Int /\ bit[y] \in {0, 1}
    BY <1>1, <1>4, <1>6
  <2>3. \E y : /\ near = {y} /\ y.weight = 1 /\ den = interp.den
               /\ (bit[y] = 0 /\ interp.num = 0) \/ (bit[y] = 1 /\ interp.num = interp.den)
    <3>1. (bit[x] = 0 /\ interp.num = 0) \/ (bit[x] = 1 /\ interp.num = interp.den)
      BY <1>4, <1>7
    <3>. QED  BY <1>1, <1>6, <3>1
  <2>. QED  BY <2>1, <2>2, <2>3 DEF Splits
<1>11. \A y \in near : lo + bit[y] = Place(axis, y.entry) /\ Place(axis, y.entry) \in 0 .. axis.size - 1
  BY <1>1, <1>3, <1>4, <1>8, <1>9
<1>12. /\ interp.den \in Nat \ {0} /\ ScaleOf(interp, near) \in Nat \ {0}
       /\ Splits(near, interp, ScaleOf(interp, near), bit)
  BY <1>1, <1>5, <1>10
<1>. QED  BY <1>11, <1>12 DEF IsRead, bit

(* and if two share it,                                                    *)
LEMMA ReadTwo ==
  ASSUME NEW axis, IsAxis(axis), NEW interp, NEW near, ReadsTwo(axis, interp, near)
  PROVE  IsRead(axis, interp, near)
<1>. DEFINE bit == BitOf(axis, interp, near)
            lo  == interp.lo
            x   == [entry |-> axis.entries[lo + 1], weight |-> interp.den - interp.num]
            y   == [entry |-> axis.entries[(lo + 1) + 1], weight |-> interp.num]
            den == interp.den
            num == interp.num
<1>1. /\ den \in Nat \ {0} /\ num \in Int /\ lo \in 0 .. axis.size - 1 /\ lo + 1 \in 0 .. axis.size - 1
      /\ near = {x, y}
  BY DEF ReadsTwo
<1>2. lo + 1 \in 1 .. axis.size /\ (lo + 1) + 1 \in 1 .. axis.size /\ (lo + 1) - 1 = lo /\ ((lo + 1) + 1) - 1 = lo + 1
      /\ lo + 1 < (lo + 1) + 1
  BY <1>1, AxisFacts
<1>3. x.entry = axis.entries[lo + 1] /\ y.entry = axis.entries[(lo + 1) + 1] /\ x.weight = den - num /\ y.weight = num
  OBVIOUS
<1>4. axis.entries[lo + 1] # axis.entries[(lo + 1) + 1]
  <2>1. axis.entries[lo + 1] < axis.entries[(lo + 1) + 1]
    BY <1>2 DEF IsAxis
  <2>2. axis.entries[lo + 1] \in Int /\ axis.entries[(lo + 1) + 1] \in Int
    BY <1>2, AxisFacts
  <2>. QED  BY <2>1, <2>2
<1>. HIDE DEF x, y, lo
<1>5. x # y
  BY <1>3, <1>4
<1>6. Place(axis, x.entry) = lo /\ Place(axis, y.entry) = lo + 1
  BY <1>2, <1>3, PlaceIs
<1>7. bit[x] = 0 /\ bit[y] = 1
  <2>1. bit[x] = Place(axis, x.entry) - lo /\ bit[y] = Place(axis, y.entry) - lo
    BY <1>1 DEF BitOf, lo
  <2>. HIDE DEF bit
  <2>2. lo - lo = 0 /\ (lo + 1) - lo = 1
    BY <1>1
  <2>. QED  BY <1>6, <2>1, <2>2
<1>8. ScaleOf(interp, near) = 1
  BY <1>1, <1>5 DEF ScaleOf
<1>. HIDE DEF bit
<1>9. Splits(near, interp, 1, bit)
  <2>1. interp.num \in Int /\ interp.den \in Int /\ x.weight \in Int /\ y.weight \in Int
    BY <1>1, <1>3
  <2>2. \A z \in near : z.weight \in Int /\ bit[z] \in {0, 1}
    BY <1>1, <1>7, <2>1
  <2>3. \E z, w : /\ near = {z, w} /\ z # w /\ 1 = 1
                  /\ z.weight = interp.den - interp.num /\ w.weight = interp.num
                  /\ bit[z] = 0 /\ bit[w] = 1
    BY <1>1, <1>3, <1>5, <1>7
  <2>. QED  BY <2>1, <2>2, <2>3 DEF Splits
<1>10. \A z \in near : lo + bit[z] = Place(axis, z.entry) /\ Place(axis, z.entry) \in 0 .. axis.size - 1
  <2>1. lo + 0 = lo
    BY <1>1
  <2>. QED  BY <1>1, <1>6, <1>7, <2>1
<1>11. /\ interp.den \in Nat \ {0} /\ ScaleOf(interp, near) \in Nat \ {0}
       /\ Splits(near, interp, ScaleOf(interp, near), bit)
  BY <1>1, <1>8, <1>9
<1>. QED  BY <1>10, <1>11 DEF IsRead, bit, lo

(* so on every axis and for every value.                                   *)
LEMMA AxisIsRead ==
  ASSUME NEW axis, IsAxis(axis), NEW v \in Int
  PROVE  IsRead(axis, findInterp(v, axis), Near(axis, Clamp(axis, v)))
<1>. DEFINE it   == findInterp(v, axis)
            near == Near(axis, Clamp(axis, v))
<1>1. ReadsOne(axis, it, near, 0) \/ ReadsOne(axis, it, near, 1) \/ ReadsTwo(axis, it, near)
  BY InterpFacts
<1>. HIDE DEF it, near
<1>2. IsRead(axis, it, near)
  BY <1>1, ReadOne, ReadTwo
<1>. QED  BY <1>2 DEF it, near


-------------------------------------------------------------------------------
(* What the file says of a point is in the cell of its places. *)

IsFile(file) ==
  /\ file.results \in Seq([t : Int, hDist : Int])
  /\ \A i \in 1 .. 5 : IsAxis(file.axes[i])

(* The sum over the five axes, written out.                                *)
LEMMA SumOfFive ==
  ASSUME NEW f \in [1 .. 5 -> Int]
  PROVE  SumFunction(f) = f[1] + f[2] + f[3] + f[4] + f[5]
<1>. DEFINE S == 1 .. 5
<1>1. IsFiniteSet(S)
  <2>1. 1 \in Int /\ 5 \in Int
    OBVIOUS
  <2>. QED  BY <2>1, FS_Interval
<1>2. PICK g \in [SUBSET S -> Int] :
        SumFunction(f) = g[S] /\ (\A x \in S : g[{x}] = f[x]) /\ Adds(S, g)
  <2>. HIDE DEF S
  <2>1. f \in [S -> Int]
    BY DEF S
  <2>. QED  BY <1>1, <2>1, SumFacts
<1>. DEFINE T2 == {1, 2}
            T3 == {1, 2, 3}
            T4 == {1, 2, 3, 4}
<1>a. {1} \cap {2} = {} /\ T2 \cap {3} = {} /\ T3 \cap {4} = {} /\ T4 \cap {5} = {}
  OBVIOUS
<1>3. /\ {1} \cup {2} = T2 /\ T2 \cup {3} = T3 /\ T3 \cup {4} = T4 /\ T4 \cup {5} = S
  OBVIOUS
<1>4. /\ {1} \in SUBSET S /\ {2} \in SUBSET S /\ {3} \in SUBSET S /\ {4} \in SUBSET S /\ {5} \in SUBSET S
      /\ T2 \in SUBSET S /\ T3 \in SUBSET S /\ T4 \in SUBSET S
  OBVIOUS
<1>5. 1 \in S /\ 2 \in S /\ 3 \in S /\ 4 \in S /\ 5 \in S
  OBVIOUS
<1>. HIDE DEF S, T2, T3, T4
<1>6. \A A, B \in SUBSET S : A \cap B = {} => g[A \cup B] = g[A] + g[B]
  BY <1>2 DEF Adds
<1>7. g[{1} \cup {2}] = g[{1}] + g[{2}]
  BY <1>a, <1>4, <1>6
<1>8. g[T2 \cup {3}] = g[T2] + g[{3}]
  BY <1>a, <1>4, <1>6
<1>9. g[T3 \cup {4}] = g[T3] + g[{4}]
  BY <1>a, <1>4, <1>6
<1>10. g[T4 \cup {5}] = g[T4] + g[{5}]
  BY <1>a, <1>4, <1>6
<1>11. g[{1}] = f[1] /\ g[{2}] = f[2] /\ g[{3}] = f[3] /\ g[{4}] = f[4] /\ g[{5}] = f[5]
  BY <1>2, <1>5
<1>12. g[T2] = f[1] + f[2] /\ g[T3] = g[T2] + f[3] /\ g[T4] = g[T3] + f[4] /\ g[S] = g[T4] + f[5]
  BY <1>3, <1>7, <1>8, <1>9, <1>10, <1>11, Zenon
<1>. QED  BY <1>2, <1>12, Zenon

(* The product of two sizes, and an index into two dimensions.             *)
LEMMA Nested ==
  ASSUME NEW A \in Nat \ {0}, NEW B \in Nat \ {0}, NEW a \in 0 .. A - 1, NEW b \in 0 .. B - 1
  PROVE  A * B \in Nat \ {0} /\ a * B + b \in 0 .. A * B - 1
<1>1. \A x, y \in Nat : x * y \in Nat
  OBVIOUS
<1>2. a * B \in Nat /\ A * B \in Nat
  BY <1>1
<1>3. (A - 1 - a) * B \in Nat
  <2>1. A - 1 - a \in Nat
    OBVIOUS
  <2>. QED  BY <1>1, <2>1
<1>4. (A - 1 - a) * B = A * B - B - a * B
  OBVIOUS
<1>. DEFINE AB == A * B
            aB == a * B
<1>. HIDE DEF AB, aB
<1>5. AB \in Nat /\ aB \in Nat /\ AB - B - aB \in Nat
  BY <1>2, <1>3, <1>4 DEF AB, aB
<1>6. AB \in Nat \ {0} /\ aB + b \in 0 .. AB - 1
  BY <1>5
<1>. QED  BY <1>6 DEF AB, aB

InCell(cell, axes) == \A i \in 1 .. 5 : cell[i] \in 0 .. axes[i].size - 1

(* The index of a cell inside of the table is inside of the array.         *)
LEMMA IndexInside ==
  ASSUME NEW file, IsFile(file), NEW cell, InCell(cell, file.axes)
  PROVE  index(file, cell) \in 0 .. Size(file.axes) - 1 /\ Size(file.axes) \in Nat
<1>. DEFINE n1 == file.axes[1].size
            n2 == file.axes[2].size
            n3 == file.axes[3].size
            n4 == file.axes[4].size
            n5 == file.axes[5].size
            c1 == cell[1]
            c2 == cell[2]
            c3 == cell[3]
            c4 == cell[4]
            c5 == cell[5]
<1>1. n1 \in Nat \ {0} /\ n2 \in Nat \ {0} /\ n3 \in Nat \ {0} /\ n4 \in Nat \ {0} /\ n5 \in Nat \ {0}
  <2>1. \A i \in 1 .. 5 : file.axes[i].size \in Nat /\ file.axes[i].size > 0
    BY AxisFacts DEF IsFile
  <2>2. \A i \in 1 .. 5 : file.axes[i].size \in Nat \ {0}
    BY <2>1
  <2>. QED  BY <2>2
<1>2. c1 \in 0 .. n1 - 1 /\ c2 \in 0 .. n2 - 1 /\ c3 \in 0 .. n3 - 1 /\ c4 \in 0 .. n4 - 1 /\ c5 \in 0 .. n5 - 1
  <2>1. \A i \in 1 .. 5 : cell[i] \in 0 .. file.axes[i].size - 1
    BY DEF InCell
  <2>. QED  BY <2>1
<1>3. index(file, cell) = (((c1 * n2 + c2) * n3 + c3) * n4 + c4) * n5 + c5
  BY DEF index, Dimensions
<1>4. Size(file.axes) = n1 * n2 * n3 * n4 * n5
  BY DEF Size
<1>. HIDE DEF n1, n2, n3, n4, n5, c1, c2, c3, c4, c5
<1>. DEFINE m2 == n1 * n2
            m3 == m2 * n3
            m4 == m3 * n4
            d2 == c1 * n2 + c2
            d3 == d2 * n3 + c3
            d4 == d3 * n4 + c4
<1>5. m2 \in Nat \ {0} /\ d2 \in 0 .. m2 - 1
  BY <1>1, <1>2, Nested
<1>. HIDE DEF m2, d2
<1>6. m3 \in Nat \ {0} /\ d3 \in 0 .. m3 - 1
  BY <1>1, <1>2, <1>5, Nested
<1>. HIDE DEF m3, d3
<1>7. m4 \in Nat \ {0} /\ d4 \in 0 .. m4 - 1
  BY <1>1, <1>2, <1>6, Nested
<1>. HIDE DEF m4, d4
<1>8. m4 * n5 \in Nat \ {0} /\ d4 * n5 + c5 \in 0 .. m4 * n5 - 1
  BY <1>1, <1>2, <1>7, Nested
<1>. QED  BY <1>3, <1>4, <1>8 DEF m2, m3, m4, d2, d3, d4

(* The nested index and the sum of what is before.                         *)
LEMMA Horner ==
  ASSUME NEW c1 \in Int, NEW c2 \in Int, NEW c3 \in Int, NEW c4 \in Int, NEW c5 \in Int,
         NEW n2 \in Int, NEW n3 \in Int, NEW n4 \in Int, NEW n5 \in Int
  PROVE  c1 * (n2 * n3 * n4 * n5) + c2 * (n3 * n4 * n5) + c3 * (n4 * n5) + c4 * n5 + c5
           = (((c1 * n2 + c2) * n3 + c3) * n4 + c4) * n5 + c5
<1>1. (c1 * n2 + c2) * n3 = c1 * (n2 * n3) + c2 * n3
  OBVIOUS
<1>2. (c1 * (n2 * n3) + c2 * n3 + c3) * n4 = c1 * (n2 * n3 * n4) + c2 * (n3 * n4) + c3 * n4
  OBVIOUS
<1>3. (c1 * (n2 * n3 * n4) + c2 * (n3 * n4) + c3 * n4 + c4) * n5
        = c1 * (n2 * n3 * n4 * n5) + c2 * (n3 * n4 * n5) + c3 * (n4 * n5) + c4 * n5
  OBVIOUS
<1>. QED  BY <1>1, <1>2, <1>3

CellOf(file, p) == [i \in 1 .. 5 |-> Place(file.axes[i], p[i].entry)]

(* What the file states is at the index.                                   *)
LEMMA StatedIs ==
  ASSUME NEW file, IsFile(file), NEW p, NEW field, InCell(CellOf(file, p), file.axes)
  PROVE  Stated(file, p, field) =
           IF index(file, CellOf(file, p)) + 1 <= Len(file.results)
           THEN file.results[index(file, CellOf(file, p)) + 1][field] ELSE 0
<1>. DEFINE c    == CellOf(file, p)
            n    == [i \in 1 .. 5 |-> file.axes[i].size]
            s(i) == [k \in 1 .. 5 - i |-> file.axes[i + k].size]
            term == [i \in 1 .. 5 |-> c[i] * Product(s(i))]
<1>1. \A i \in 1 .. 5 : n[i] \in Int /\ c[i] \in Int
  <2>1. \A i \in 1 .. 5 : n[i] \in Nat
    BY AxisFacts DEF IsFile
  <2>2. \A i \in 1 .. 5 : c[i] \in 0 .. n[i] - 1
    <3>1. \A i \in 1 .. 5 : c[i] \in 0 .. file.axes[i].size - 1
      BY DEF InCell
    <3>. HIDE DEF c
    <3>. QED  BY <3>1
  <2>. HIDE DEF n, c
  <2>. QED  BY <2>1, <2>2
<1>2. index(file, c) = (((c[1] * n[2] + c[2]) * n[3] + c[3]) * n[4] + c[4]) * n[5] + c[5]
  BY DEF index, Dimensions
<1>3. Stated(file, p, field) =
        IF 1 + SumFunction(term) <= Len(file.results) THEN file.results[1 + SumFunction(term)][field] ELSE 0
  <2>1. SumFunction(term) = SumFunction([i \in Dimensions |->
          Cardinality({k \in 1 .. file.axes[i].size : file.axes[i].entries[k] < p[i].entry})
            * Product([k \in 1 .. 5 - i |-> file.axes[i + k].size])])
    BY DEF CellOf, Place, Dimensions
  <2>. HIDE DEF term
  <2>. QED  BY <2>1 DEF Stated
<1>4. /\ s(1) \in [1 .. 4 -> Int] /\ s(1)[1] = n[2] /\ s(1)[2] = n[3] /\ s(1)[3] = n[4] /\ s(1)[4] = n[5]
      /\ s(2) \in [1 .. 3 -> Int] /\ s(2)[1] = n[3] /\ s(2)[2] = n[4] /\ s(2)[3] = n[5]
      /\ s(3) \in [1 .. 2 -> Int] /\ s(3)[1] = n[4] /\ s(3)[2] = n[5]
      /\ s(4) \in [1 .. 1 -> Int] /\ s(4)[1] = n[5]
      /\ s(5) \in [1 .. 0 -> Int]
  <2>1. \A i \in 1 .. 5 : \A k \in 1 .. 5 - i : i + k \in 1 .. 5
    OBVIOUS
  <2>2. \A i \in 1 .. 5 : \A k \in 1 .. 5 - i : s(i)[k] = n[i + k]
    BY <2>1
  <2>3. \A i \in 1 .. 5 : s(i) \in [1 .. 5 - i -> Int]
    <3>1. \A i \in 1 .. 5 : \A k \in 1 .. 5 - i : s(i)[k] \in Int
      <4>. HIDE DEF s, n
      <4>. QED  BY <1>1, <2>1, <2>2
    <3>2. \A i \in 1 .. 5 : s(i) = [k \in 1 .. 5 - i |-> s(i)[k]]
      OBVIOUS
    <3>. HIDE DEF s
    <3>. QED  BY <3>1, <3>2
  <2>4. 5 - 1 = 4 /\ 5 - 2 = 3 /\ 5 - 3 = 2 /\ 5 - 4 = 1 /\ 5 - 5 = 0
    OBVIOUS
  <2>. HIDE DEF s, n
  <2>. QED  BY <2>2, <2>3, <2>4
<1>5. /\ Product(s(1)) = n[2] * n[3] * n[4] * n[5]
      /\ Product(s(2)) = n[3] * n[4] * n[5]
      /\ Product(s(3)) = n[4] * n[5]
      /\ Product(s(4)) = n[5]
      /\ Product(s(5)) = 1
  <2>. HIDE DEF s, n
  <2>. QED  BY <1>4, ShortProducts
<1>6. /\ term[1] = c[1] * Product(s(1)) /\ term[2] = c[2] * Product(s(2)) /\ term[3] = c[3] * Product(s(3))
      /\ term[4] = c[4] * Product(s(4)) /\ term[5] = c[5] * Product(s(5))
  <2>. HIDE DEF s, c
  <2>. QED  OBVIOUS
<1>7. term = [i \in 1 .. 5 |-> term[i]]
  OBVIOUS
<1>. HIDE DEF term, s, n, c
<1>8. /\ n[2] \in Int /\ n[3] \in Int /\ n[4] \in Int /\ n[5] \in Int
      /\ c[1] \in Int /\ c[2] \in Int /\ c[3] \in Int /\ c[4] \in Int /\ c[5] \in Int
  BY <1>1
<1>9. /\ term[1] = c[1] * (n[2] * n[3] * n[4] * n[5]) /\ term[2] = c[2] * (n[3] * n[4] * n[5])
      /\ term[3] = c[3] * (n[4] * n[5]) /\ term[4] = c[4] * n[5] /\ term[5] = c[5]
  BY <1>5, <1>6, <1>8
<1>10. term \in [1 .. 5 -> Int]
  <2>1. term[1] \in Int /\ term[2] \in Int /\ term[3] \in Int /\ term[4] \in Int /\ term[5] \in Int
    BY <1>8, <1>9
  <2>2. \A i \in 1 .. 5 : i = 1 \/ i = 2 \/ i = 3 \/ i = 4 \/ i = 5
    OBVIOUS
  <2>3. \A i \in 1 .. 5 : term[i] \in Int
    BY <2>1, <2>2
  <2>. QED  BY <1>7, <2>3
<1>11. SumFunction(term) = term[1] + term[2] + term[3] + term[4] + term[5]
  BY <1>10, SumOfFive
<1>12. SumFunction(term) = index(file, c)
  BY <1>2, <1>8, <1>9, <1>11, Horner
<1>13. 1 + index(file, c) = index(file, c) + 1
  <2>1. index(file, c) \in 0 .. Size(file.axes) - 1 /\ Size(file.axes) \in Nat
    BY IndexInside DEF c
  <2>. QED  BY <2>1
<1>. QED  BY <1>3, <1>12, <1>13 DEF c


-------------------------------------------------------------------------------
(* The lookup of a table is the interpolation of its file. *)

(* A quotient is known by its remainder,                                   *)
LEMMA Quotient ==
  ASSUME NEW x \in Int, NEW y \in Nat \ {0}, NEW q \in Int, NEW r \in 0 .. y - 1, x = q * y + r
  PROVE  x \div y = q
<1>. DEFINE d == x \div y
            m == x % y
<1>1. d \in Int /\ m \in 0 .. y - 1 /\ x = y * d + m
  OBVIOUS
<1>. HIDE DEF d, m
<1>2. (q - d) * y = m - r
  <2>1. (q - d) * y = q * y - y * d
    BY <1>1
  <2>2. q * y \in Int /\ y * d \in Int
    BY <1>1
  <2>. DEFINE qy == q * y
              yd == y * d
  <2>. HIDE DEF qy, yd
  <2>3. qy \in Int /\ yd \in Int /\ x = qy + r /\ x = yd + m
    BY <1>1, <2>2 DEF qy, yd
  <2>4. qy - yd = m - r
    BY <1>1, <2>3
  <2>. QED  BY <2>1, <2>4 DEF qy, yd
<1>3. \A a, b \in Nat : a * b \in Nat
  OBVIOUS
<1>4. ~ (q - d >= 1)
  <2>1. ASSUME q - d >= 1  PROVE FALSE
    <3>1. q - d - 1 \in Nat /\ y \in Nat
      BY <1>1, <2>1
    <3>2. (q - d - 1) * y \in Nat
      BY <1>3, <3>1
    <3>3. (q - d - 1) * y = (q - d) * y - y
      BY <1>1
    <3>4. m - r - y \in Nat
      BY <1>2, <3>2, <3>3
    <3>. QED  BY <1>1, <3>4
  <2>. QED  BY <2>1
<1>5. ~ (d - q >= 1)
  <2>1. ASSUME d - q >= 1  PROVE FALSE
    <3>1. d - q - 1 \in Nat /\ y \in Nat
      BY <1>1, <2>1
    <3>2. (d - q - 1) * y \in Nat
      BY <1>3, <3>1
    <3>3. (d - q - 1) * y = -((q - d) * y) - y
      BY <1>1
    <3>4. -(m - r) - y \in Nat
      BY <1>2, <3>2, <3>3
    <3>. QED  BY <1>1, <3>4
  <2>. QED  BY <2>1
<1>6. d = q
  BY <1>1, <1>4, <1>5
<1>. QED  BY <1>6 DEF d

(* and a common factor cancels.                                            *)
LEMMA Reduced ==
  ASSUME NEW K \in Nat \ {0}, NEW W \in Nat \ {0}, NEW N \in Int
  PROVE  (K * N) \div (K * W) = N \div W
<1>. DEFINE q == N \div W
            r == N % W
<1>1. q \in Int /\ r \in 0 .. W - 1 /\ N = W * q + r
  OBVIOUS
<1>. HIDE DEF q, r
<1>2. K * W \in Nat \ {0} /\ K * N \in Int
  <2>1. \A a, b \in Nat \ {0} : a * b \in Nat \ {0}
    OBVIOUS
  <2>. QED  BY <2>1
<1>3. K * N = q * (K * W) + K * r
  BY <1>1
<1>4. K * r \in 0 .. K * W - 1
  <2>1. \A a, b \in Nat : a * b \in Nat
    OBVIOUS
  <2>2. r \in Nat /\ W - 1 - r \in Nat /\ K \in Nat
    BY <1>1
  <2>3. K * r \in Nat /\ K * (W - 1 - r) \in Nat
    BY <2>1, <2>2
  <2>4. K * (W - 1 - r) = K * W - K - K * r
    BY <1>1
  <2>. DEFINE KW == K * W
              Kr == K * r
  <2>. HIDE DEF KW, Kr
  <2>5. KW \in Nat /\ Kr \in Nat /\ KW - K - Kr \in Nat
    BY <1>2, <2>3, <2>4 DEF KW, Kr
  <2>6. Kr \in 0 .. KW - 1
    BY <2>5
  <2>. QED  BY <2>6 DEF KW, Kr
<1>. DEFINE KN == K * N
            KW == K * W
            Kr == K * r
<1>. HIDE DEF KN, KW, Kr
<1>5. KN \in Int /\ KW \in Nat \ {0} /\ Kr \in 0 .. KW - 1 /\ KN = q * KW + Kr
  BY <1>2, <1>3, <1>4 DEF KN, KW, Kr
<1>6. KN \div KW = q
  BY <1>1, <1>5, Quotient
<1>. QED  BY <1>6 DEF KN, KW, q

(* The product of what five axes contribute.                               *)
LEMMA ScalesExist ==
  ASSUME NEW scale, \A i \in 1 .. 5 : scale[i] \in Nat \ {0}
  PROVE  \E K : /\ Scales(K, scale) /\ K[0] \in Nat \ {0}
                /\ K[0] = scale[1] * scale[2] * scale[3] * scale[4] * scale[5]
<1>. DEFINE a == scale[1]
            b == scale[2]
            c == scale[3]
            d == scale[4]
            e == scale[5]
            K == [k \in 0 .. 5 |->
                    IF k = 5 THEN 1 ELSE IF k = 4 THEN e * 1 ELSE IF k = 3 THEN d * (e * 1)
                    ELSE IF k = 2 THEN c * (d * (e * 1)) ELSE IF k = 1 THEN b * (c * (d * (e * 1)))
                    ELSE a * (b * (c * (d * (e * 1))))]
<1>1. a \in Nat \ {0} /\ b \in Nat \ {0} /\ c \in Nat \ {0} /\ d \in Nat \ {0} /\ e \in Nat \ {0}
  OBVIOUS
<1>2. /\ K[5] = 1 /\ K[4] = e * 1 /\ K[3] = d * (e * 1) /\ K[2] = c * (d * (e * 1))
      /\ K[1] = b * (c * (d * (e * 1))) /\ K[0] = a * (b * (c * (d * (e * 1))))
  <2>. HIDE DEF a, b, c, d, e
  <2>. QED  OBVIOUS
<1>. HIDE DEF K, a, b, c, d, e
<1>3. K[4] = e * K[5] /\ K[3] = d * K[4] /\ K[2] = c * K[3] /\ K[1] = b * K[2] /\ K[0] = a * K[1]
  BY <1>2
<1>. DEFINE Positive(x) == x \in Nat \ {0}
<1>4. ASSUME NEW x, NEW y, NEW z, Positive(x), Positive(y), z = x * y  PROVE Positive(z)
  <2>1. \A i, j \in Nat \ {0} : i * j \in Nat \ {0}
    OBVIOUS
  <2>. QED  BY <1>4, <2>1
<1>5. Positive(a) /\ Positive(b) /\ Positive(c) /\ Positive(d) /\ Positive(e) /\ Positive(K[5])
  BY <1>1, <1>2
<1>. HIDE DEF Positive
<1>6. Positive(K[4])
  BY <1>3, <1>4, <1>5
<1>7. Positive(K[3])
  BY <1>3, <1>4, <1>5, <1>6
<1>8. Positive(K[2])
  BY <1>3, <1>4, <1>5, <1>7
<1>9. Positive(K[1])
  BY <1>3, <1>4, <1>5, <1>8
<1>10. Positive(K[0])
  BY <1>3, <1>4, <1>5, <1>9
<1>. USE DEF Positive
<1>11. K[0] = a * b * c * d * e
  BY <1>1, <1>2
<1>12. \A k \in 0 .. 5 : K[k] \in Int
  <2>1. \A k \in 0 .. 5 : k = 0 \/ k = 1 \/ k = 2 \/ k = 3 \/ k = 4 \/ k = 5
    OBVIOUS
  <2>. QED  BY <1>5, <1>6, <1>7, <1>8, <1>9, <1>10, <2>1
<1>13. \A k \in 0 .. 4 : K[k] = scale[k + 1] * K[k + 1]
  <2>1. \A k \in 0 .. 4 : k = 0 \/ k = 1 \/ k = 2 \/ k = 3 \/ k = 4
    OBVIOUS
  <2>2. 0 + 1 = 1 /\ 1 + 1 = 2 /\ 2 + 1 = 3 /\ 3 + 1 = 4 /\ 4 + 1 = 5
    OBVIOUS
  <2>. QED  BY <1>3, <2>1, <2>2 DEF a, b, c, d, e
<1>14. Scales(K, scale)
  BY <1>2, <1>12, <1>13 DEF Scales
<1>. QED  BY <1>10, <1>11, <1>14 DEF a, b, c, d, e

(* What the denominators of the axes multiply to is folded as well.        *)
LEMMA DenominatorsFold ==
  ASSUME NEW interp, \A i \in 1 .. 5 : interp[i].num \in Int /\ interp[i].den \in Int,
         NEW d, Scales(d, [i \in 1 .. 5 |-> interp[i].den])
  PROVE  Folds([c \in Bits |-> d[Len(c)]], interp)
<1>. DEFINE D == [c \in Bits |-> d[Len(c)]]
<1>1. \A c \in Bits : Len(c) \in 0 .. 5
  BY CornerLength
<1>2. D \in [Bits -> Int]
  BY <1>1 DEF Scales
<1>3. ASSUME NEW c \in Bits, Len(c) < 5
      PROVE  D[c] = lerp(D[Append(c, 0)], D[Append(c, 1)], interp[Len(c) + 1])
  <2>. DEFINE k  == Len(c)
              it == interp[k + 1]
              X  == d[k + 1]
  <2>1. k \in 0 .. 4
    <3>1. \A n \in 0 .. 5 : n < 5 => n \in 0 .. 4
      OBVIOUS
    <3>. QED  BY <1>1, <1>3, <3>1
  <2>2. Append(c, 0) \in Bits /\ Append(c, 1) \in Bits /\ Len(Append(c, 0)) = k + 1 /\ Len(Append(c, 1)) = k + 1
    BY <1>3, CornerFacts
  <2>3. D[Append(c, 0)] = X /\ D[Append(c, 1)] = X /\ D[c] = d[k]
    BY <2>2
  <2>. HIDE DEF D, k
  <2>4. k + 1 \in 1 .. 5 /\ k + 1 \in 0 .. 5
    BY <2>1
  <2>5. d[k] = it.den * X /\ X \in Int
    BY <2>1, <2>4 DEF Scales
  <2>6. it.num \in Int /\ it.den \in Int
    BY <2>4
  <2>. HIDE DEF X, it
  <2>7. X * (it.den - it.num) + X * it.num = it.den * X
    BY <2>5, <2>6
  <2>8. D[c] = lerp(D[Append(c, 0)], D[Append(c, 1)], it)
    BY <2>3, <2>5, <2>7 DEF lerp
  <2>. QED  BY <2>8 DEF it, k
<1>. HIDE DEF D
<1>4. Folds(D, interp)
  BY <1>2, <1>3 DEF Folds
<1>. QED  BY <1>4 DEF D


(* A point is a head of all five coordinates.                              *)
LEMMA PointsAreHeads ==
  ASSUME NEW near, NEW p \in Points(near)
  PROVE  p \in Heads(near, 5)
<1>1. p = [i \in 1 .. 5 |-> p[i]] /\ \A i \in 1 .. 5 : p[i] \in near[i]
  BY PointFacts
<1>. DEFINE all == UNION {near[i] : i \in 1 .. 5}
<1>2. \A i \in 1 .. 5 : p[i] \in all
  BY <1>1
<1>. HIDE DEF all
<1>3. p \in [1 .. 5 -> all]
  BY <1>1, <1>2
<1>. QED  BY <1>1, <1>3 DEF Heads, all

NearOf(file, q)        == [i \in 1 .. 5 |-> Near(file.axes[i], Clamp(file.axes[i], q[i]))]
BitsRead(file, q)      == [i \in 1 .. 5 |-> BitOf(file.axes[i], InterpOf(file, q)[i], NearOf(file, q)[i])]
ScalesRead(file, q)    == [i \in 1 .. 5 |-> ScaleOf(InterpOf(file, q)[i], NearOf(file, q)[i])]
IsQuery(q)             == \A i \in 1 .. 5 : q[i] \in Int

(* Every axis of a query is read as the reference reads it.                *)
LEMMA QueryIsRead ==
  ASSUME NEW file, IsFile(file), NEW q, IsQuery(q)
  PROVE  /\ AllSplit(NearOf(file, q), InterpOf(file, q), ScalesRead(file, q), BitsRead(file, q))
         /\ \A i \in 1 .. 5 : IsRead(file.axes[i], InterpOf(file, q)[i], NearOf(file, q)[i])
<1>. DEFINE it   == InterpOf(file, q)
            near == NearOf(file, q)
<1>1. \A i \in 1 .. 5 : it[i] = findInterp(q[i], file.axes[i])
  <2>1. \A i \in 1 .. 5 : i = 1 \/ i = 2 \/ i = 3 \/ i = 4 \/ i = 5
    OBVIOUS
  <2>2. /\ it[1] = findInterp(q[1], file.axes[1]) /\ it[2] = findInterp(q[2], file.axes[2])
        /\ it[3] = findInterp(q[3], file.axes[3]) /\ it[4] = findInterp(q[4], file.axes[4])
        /\ it[5] = findInterp(q[5], file.axes[5])
    BY DEF InterpOf
  <2>. HIDE DEF it
  <2>. QED  BY <2>1, <2>2
<1>2. \A i \in 1 .. 5 : near[i] = Near(file.axes[i], Clamp(file.axes[i], q[i]))
  BY DEF NearOf
<1>. HIDE DEF it, near
<1>3. ASSUME NEW i \in 1 .. 5  PROVE IsRead(file.axes[i], it[i], near[i])
  <2>1. IsAxis(file.axes[i]) /\ q[i] \in Int
    BY DEF IsFile, IsQuery
  <2>2. IsRead(file.axes[i], findInterp(q[i], file.axes[i]), Near(file.axes[i], Clamp(file.axes[i], q[i])))
    BY <2>1, AxisIsRead
  <2>. QED  BY <1>1, <1>2, <2>2
<1>4. \A i \in 1 .. 5 : /\ ScalesRead(file, q)[i] = ScaleOf(it[i], near[i])
                        /\ BitsRead(file, q)[i] = BitOf(file.axes[i], it[i], near[i])
  BY DEF ScalesRead, BitsRead, it, near
<1>5. AllSplit(near, it, ScalesRead(file, q), BitsRead(file, q))
  BY <1>3, <1>4 DEF AllSplit, IsRead
<1>. QED  BY <1>3, <1>5 DEF it, near

(* Every corner that is read is a number, be it beside the array.          *)
IsField(field) == field = "t" \/ field = "hDist"

LEMMA ReadsType ==
  ASSUME NEW file, IsFile(file), NEW cell, NEW garbage \in [t : Int, hDist : Int], NEW field, IsField(field)
  PROVE  at(load(file), cell, garbage)[field] \in Int
<1>. DEFINE Rec == [t : Int, hDist : Int]
            D   == 0 .. Size(file.axes) - 1
            data == [i \in D |-> IF i < Len(file.results) THEN file.results[i + 1] ELSE [t |-> 0, hDist |-> 0]]
<1>1. \A r \in Rec : r[field] \in Int
  BY DEF IsField
<1>2. file.results \in Seq(Rec)
  BY DEF IsFile
<1>3. [t |-> 0, hDist |-> 0] \in Rec
  OBVIOUS
<1>. HIDE DEF Rec
<1>4. \A i \in D : data[i] \in Rec
  <2>1. ASSUME NEW i \in D  PROVE data[i] \in Rec
    <3>1. i \in Nat
      OBVIOUS
    <3>2. data[i] = IF i < Len(file.results) THEN file.results[i + 1] ELSE [t |-> 0, hDist |-> 0]
      OBVIOUS
    <3>. HIDE DEF D, data
    <3>3. i < Len(file.results) => file.results[i + 1] \in Rec
      <4>1. Len(file.results) \in Nat
        BY <1>2
      <4>2. i < Len(file.results) => i + 1 \in 1 .. Len(file.results)
        BY <3>1, <4>1
      <4>. QED  BY <1>2, <4>2
    <3>. QED  BY <1>3, <3>2, <3>3
  <2>. QED  BY <2>1
<1>5. load(file).data = data /\ DOMAIN data = D
  BY DEF load
<1>. HIDE DEF data, D
<1>6. garbage \in Rec
  BY DEF Rec
<1>7. at(load(file), cell, garbage) \in Rec
  <2>. DEFINE i == index(load(file), cell)
  <2>1. at(load(file), cell, garbage) = IF i \in D THEN data[i] ELSE garbage
    BY <1>5 DEF at
  <2>. HIDE DEF i
  <2>. QED  BY <1>4, <1>6, <2>1
<1>. QED  BY <1>1, <1>7

(* A cell inside of the table is what the file states.                     *)
LEMMA CellIsStated ==
  ASSUME NEW file, IsFile(file), NEW p, NEW garbage, NEW field, IsField(field),
         InCell(CellOf(file, p), file.axes)
  PROVE  at(load(file), CellOf(file, p), garbage)[field] = Stated(file, p, field)
<1>. DEFINE i == index(file, CellOf(file, p))
            size == Size(file.axes)
            n == Len(file.results)
<1>1. i \in 0 .. size - 1 /\ size \in Nat
  BY IndexInside
<1>2. index(load(file), CellOf(file, p)) = i
  BY DEF index, load
<1>3. load(file).data = [k \in 0 .. size - 1 |->
        IF k < n THEN file.results[k + 1] ELSE [t |-> 0, hDist |-> 0]]
  BY DEF load
<1>4. n \in Nat
  BY DEF IsFile
<1>5. Stated(file, p, field) = IF i + 1 <= n THEN file.results[i + 1][field] ELSE 0
  BY StatedIs
<1>. HIDE DEF i, size, n
<1>6. at(load(file), CellOf(file, p), garbage)
        = IF i < n THEN file.results[i + 1] ELSE [t |-> 0, hDist |-> 0]
  BY <1>1, <1>2, <1>3 DEF at
<1>7. i < n <=> i + 1 <= n
  BY <1>1, <1>4
<1>8. [t |-> 0, hDist |-> 0][field] = 0
  BY DEF IsField
<1>. QED  BY <1>5, <1>6, <1>7, <1>8

(* The corner of a point is what the file states of it,                    *)
LEMMA CornerIsStated ==
  ASSUME NEW file, IsFile(file), NEW q, IsQuery(q), NEW garbage, NEW field, IsField(field),
         NEW p \in Points(NearOf(file, q))
  PROVE  LET c == Corner(BitsRead(file, q), p)
         IN  /\ c \in Bits /\ Len(c) = 5
             /\ Leaf(load(file), InterpOf(file, q), garbage, field, c) = Stated(file, p, field)
<1>. DEFINE near == NearOf(file, q)
            it   == InterpOf(file, q)
            bit  == BitsRead(file, q)
            c    == Corner(bit, p)
<1>1. AllSplit(near, it, ScalesRead(file, q), bit) /\ \A i \in 1 .. 5 : IsRead(file.axes[i], it[i], near[i])
  BY QueryIsRead
<1>2. \A i \in 1 .. 5 : bit[i] = BitOf(file.axes[i], it[i], near[i])
  BY DEF BitsRead
<1>. HIDE DEF near, it, bit
<1>3. p \in Points(near)
  BY DEF near
<1>4. c \in Bits /\ Len(c) = 5
  <2>1. Known(near, bit)
    BY <1>1 DEF AllSplit, Splits, Known
  <2>2. 5 \in 0 .. 5
    OBVIOUS
  <2>3. p \in Heads(near, 5)
    BY <1>3, PointsAreHeads
  <2>4. IsCorner(BitsOf(bit, 5, p), 5)
    BY <2>1, <2>2, <2>3, BitsFacts
  <2>. QED  BY <2>4 DEF IsCorner, BitsOf, Corner
<1>5. \A i \in 1 .. 5 : p[i] \in near[i]
  BY <1>3, PointFacts
<1>6. \A i \in 1 .. 5 : /\ it[i].lo + c[i] = Place(file.axes[i], p[i].entry)
                        /\ Place(file.axes[i], p[i].entry) \in 0 .. file.axes[i].size - 1
  <2>1. ASSUME NEW i \in 1 .. 5
        PROVE  /\ it[i].lo + c[i] = Place(file.axes[i], p[i].entry)
               /\ Place(file.axes[i], p[i].entry) \in 0 .. file.axes[i].size - 1
    <3>1. c[i] = bit[i][p[i]]
      BY DEF Corner
    <3>. HIDE DEF c
    <3>2. IsRead(file.axes[i], it[i], near[i]) /\ p[i] \in near[i] /\ bit[i] = BitOf(file.axes[i], it[i], near[i])
      BY <1>1, <1>2, <1>5
    <3>. QED  BY <3>1, <3>2 DEF IsRead
  <2>. QED  BY <2>1
<1>7. InCell(CellOf(file, p), file.axes)
  BY <1>6 DEF InCell, CellOf
<1>8. [i \in Dimensions |-> it[i].lo + c[i]] = CellOf(file, p)
  <2>. HIDE DEF c
  <2>. QED  BY <1>6 DEF CellOf, Dimensions
<1>. HIDE DEF c
<1>9. Leaf(load(file), it, garbage, field, c) = Stated(file, p, field)
  BY <1>7, <1>8, CellIsStated DEF Leaf
<1>. QED  BY <1>4, <1>9 DEF c, it, bit

(* which is a number.                                                      *)
LEMMA StatedType ==
  ASSUME NEW file, IsFile(file), NEW q, IsQuery(q), NEW field, IsField(field),
         NEW p \in Points(NearOf(file, q))
  PROVE  Stated(file, p, field) \in Int
<1>. DEFINE garbage == [t |-> 0, hDist |-> 0]
            c == Corner(BitsRead(file, q), p)
<1>1. garbage \in [t : Int, hDist : Int]
  OBVIOUS
<1>2. Stated(file, p, field) = Leaf(load(file), InterpOf(file, q), garbage, field, c)
  BY CornerIsStated
<1>. HIDE DEF garbage, c
<1>. QED  BY <1>1, <1>2, ReadsType DEF Leaf


(* Both sums have the same factor: lookup is the interpolation.            *)
LEMMA LookupIsInterpolated ==
  ASSUME NEW file, IsFile(file), NEW q, IsQuery(q), NEW garbage \in [t : Int, hDist : Int],
         NEW field, IsField(field)
  PROVE  lookup(load(file), q, garbage, field) = Interpolated(file, q, field)
<1>. DEFINE table == load(file)
            near  == NearOf(file, q)
            it    == InterpOf(file, q)
            scale == ScalesRead(file, q)
            bit   == BitsRead(file, q)
            den   == [i \in 1 .. 5 |-> it[i].den]
            F     == CHOOSE G : IsFolded(G, table, it, garbage, field)
            value == [p \in Points(near) |-> Stated(file, p, field)]
            one   == [p \in Points(near) |-> 1]
            N     == SumFunction([p \in Points(near) |-> Weight(p) * value[p]])
            W     == SumFunction([p \in Points(near) |-> Weight(p) * one[p]])
<1>1. AllSplit(near, it, scale, bit) /\ \A i \in 1 .. 5 : IsRead(file.axes[i], it[i], near[i])
  BY QueryIsRead
<1>2. lookup(table, q, garbage, field) = F[<< >>] \div (den[1] * den[2] * den[3] * den[4] * den[5])
  <2>1. InterpOf(table, q) = it
    BY DEF InterpOf, load
  <2>2. lookup(table, q, garbage, field) =
          (CHOOSE G : IsFolded(G, table, InterpOf(table, q), garbage, field))[<< >>]
            \div (InterpOf(table, q)[1].den * InterpOf(table, q)[2].den * InterpOf(table, q)[3].den
                    * InterpOf(table, q)[4].den * InterpOf(table, q)[5].den)
    BY LookupIs DEF Dimensions
  <2>. HIDE DEF it, table
  <2>. QED  BY <2>1, <2>2
<1>3. Interpolated(file, q, field) = SumFunction([p \in Points(near) |-> Weight(p) * Stated(file, p, field)])
                                       \div SumFunction([p \in Points(near) |-> Weight(p)])
  BY DEF Interpolated, Points, NearOf
<1>4. \A c \in Bits : Leaf(table, it, garbage, field, c) \in Int
  BY ReadsType DEF Leaf
<1>5. \A p \in Points(near) :
        /\ Corner(bit, p) \in Bits /\ Len(Corner(bit, p)) = 5
        /\ Leaf(table, it, garbage, field, Corner(bit, p)) = Stated(file, p, field)
        /\ Stated(file, p, field) \in Int
  BY CornerIsStated, StatedType
<1>6. \A i \in 1 .. 5 : scale[i] = ScaleOf(it[i], near[i])
  BY DEF ScalesRead
<1>. HIDE DEF table, near, it, scale, bit
<1>7. \A i \in 1 .. 5 : /\ it[i].num \in Int /\ it[i].den \in Nat \ {0} /\ scale[i] \in Nat \ {0}
  <2>1. ASSUME NEW axis, NEW interp, NEW n, IsRead(axis, interp, n)
        PROVE  interp.num \in Int /\ interp.den \in Nat \ {0} /\ ScaleOf(interp, n) \in Nat \ {0}
    BY <2>1 DEF IsRead, Splits
  <2>. QED  BY <1>1, <1>6, <2>1
<1>8. IsFolded(F, table, it, garbage, field)
  <2>1. \E G : IsFolded(G, table, it, garbage, field)
    BY FoldedExists
  <2>. QED  BY <2>1
<1>. HIDE DEF F
<1>9. Folds(F, it) /\ \A c \in Bits : Len(c) = 5 => F[c] = Leaf(table, it, garbage, field, c)
  <2>1. \A i \in 1 .. 5 : it[i].num \in Int /\ it[i].den \in Int
    BY <1>7
  <2>. QED  BY <1>4, <1>8, <2>1, FoldedFolds
<1>10. PICK K : Scales(K, scale) /\ K[0] \in Nat \ {0}
  BY <1>7, ScalesExist
<1>11. PICK d : Scales(d, den) /\ d[0] \in Nat \ {0} /\ d[0] = den[1] * den[2] * den[3] * den[4] * den[5]
  <2>1. \A i \in 1 .. 5 : den[i] \in Nat \ {0}
    BY <1>7
  <2>. HIDE DEF den
  <2>. QED  BY <2>1, ScalesExist
<1>12. F[<< >>] = K[0] * N /\ N \in Int
  <2>1. HasValues(near, bit, F, value)
    <3>1. \A p \in Points(near) : value[p] = Stated(file, p, field)
      OBVIOUS
    <3>2. value \in [Points(near) -> Int]
      BY <1>5
    <3>. HIDE DEF value
    <3>. QED  BY <1>5, <1>9, <3>1, <3>2 DEF HasValues
  <2>. HIDE DEF value
  <2>. QED  BY <1>1, <1>9, <1>10, <2>1, FoldIsSum
<1>13. d[0] = K[0] * W /\ W \in Int
  <2>. DEFINE D == [c \in Bits |-> d[Len(c)]]
  <2>1. Folds(D, it)
    <3>1. \A i \in 1 .. 5 : it[i].num \in Int /\ it[i].den \in Int
      BY <1>7
    <3>. QED  BY <1>11, <3>1, DenominatorsFold
  <2>2. D[<< >>] = d[0]
    <3>1. << >> \in Bits /\ Len(<< >>) = 0
      <4>1. << >> \in [1 .. 0 -> {0, 1}]
        OBVIOUS
      <4>. QED  BY <4>1 DEF Bits
    <3>. QED  BY <3>1
  <2>3. HasValues(near, bit, D, one)
    <3>1. \A p \in Points(near) : D[Corner(bit, p)] = d[5]
      BY <1>5
    <3>2. d[5] = 1
      BY <1>11 DEF Scales
    <3>3. one \in [Points(near) -> Int] /\ \A p \in Points(near) : one[p] = 1
      OBVIOUS
    <3>. HIDE DEF D, one
    <3>. QED  BY <3>1, <3>2, <3>3 DEF HasValues
  <2>. HIDE DEF D, one
  <2>4. D[<< >>] = K[0] * W /\ W \in Int
    BY <1>1, <1>10, <2>1, <2>3, FoldIsSum
  <2>. QED  BY <2>2, <2>4
<1>14. /\ SumFunction([p \in Points(near) |-> Weight(p) * Stated(file, p, field)]) = N
       /\ SumFunction([p \in Points(near) |-> Weight(p)]) = W
  <2>1. [p \in Points(near) |-> Weight(p) * Stated(file, p, field)] = [p \in Points(near) |-> Weight(p) * value[p]]
    OBVIOUS
  <2>2. \A p \in Points(near) : Weight(p) * one[p] = Weight(p)
    <3>1. ASSUME NEW p \in Points(near)  PROVE Weight(p) * one[p] = Weight(p)
      <4>1. Known(near, bit)
        BY <1>1 DEF AllSplit, Splits, Known
      <4>2. Weight(p) \in Int /\ one[p] = 1
        BY <4>1, WeightType
      <4>. QED  BY <4>2
    <3>. QED  BY <3>1
  <2>. HIDE DEF value, one
  <2>3. [p \in Points(near) |-> Weight(p)] = [p \in Points(near) |-> Weight(p) * one[p]]
    BY <2>2
  <2>. QED  BY <2>1, <2>3
<1>. HIDE DEF N, W, den
<1>15. W \in Nat \ {0}
  <2>. DEFINE K0 == K[0]
  <2>1. K0 \in Nat \ {0} /\ K0 * W \in Nat \ {0} /\ W \in Int
    BY <1>10, <1>11, <1>13
  <2>. HIDE DEF K0
  <2>2. ASSUME W <= 0  PROVE FALSE
    <3>1. K0 \in Nat /\ -W \in Nat
      BY <2>1, <2>2
    <3>2. \A x, y \in Nat : x * y \in Nat
      OBVIOUS
    <3>3. K0 * (-W) \in Nat
      BY <3>1, <3>2
    <3>4. K0 * (-W) = -(K0 * W)
      BY <2>1
    <3>. QED  BY <2>1, <3>3, <3>4
  <2>. QED  BY <2>1, <2>2
<1>16. (K[0] * N) \div (K[0] * W) = N \div W
  BY <1>10, <1>12, <1>15, Reduced
<1>17. lookup(table, q, garbage, field) = (K[0] * N) \div (K[0] * W)
  BY <1>2, <1>11, <1>12, <1>13
<1>18. Interpolated(file, q, field) = N \div W
  BY <1>3, <1>14
<1>19. lookup(table, q, garbage, field) = Interpolated(file, q, field)
  BY <1>16, <1>17, <1>18
<1>. QED  BY <1>19 DEF table

(* What a TableSolver may answer is what its file says (TableSolver.cpp:   *)
(* 61-160): for every table of five axes, every query and every garbage.   *)
THEOREM SolverInterpolates == Answers \subseteq Reference
<1>. DEFINE Full(q)           == <<q[1], attackSpeed, q[2], q[3], q[4]>>
            Solved(file, q, g) == solve(load(Files[file]), q[1], attackSpeed,
                                        [mass |-> q[2], drag |-> q[3], lift |-> q[4]], g)
            States(file, q)    == [flightTime         |-> Interpolated(Files[file], Full(q), "t"),
                                   horizontalDistance |-> Interpolated(Files[file], Full(q), "hDist")]
<1>1. ASSUME NEW file \in DOMAIN Files, NEW q \in Queries, NEW g \in Garbage
      PROVE  Solved(file, q, g) = States(file, q)
  <2>. DEFINE f    == Files[file]
              full == Full(q)
  <2>1. IsFile(f)
    <3>1. f.results \in Seq([t : Int, hDist : Int])
      BY FilesAssumption
    <3>2. \A i \in Dimensions : IsAxis(f.axes[i])
      BY FilesAssumption DEF IsAxis
    <3>. QED  BY <3>1, <3>2 DEF IsFile, Dimensions
  <2>2. g \in [t : Int, hDist : Int]
    BY FilesAssumption
  <2>3. IsQuery(full)
    <3>1. q[1] \in Int /\ q[2] \in Int /\ q[3] \in Int /\ q[4] \in Int
      BY FilesAssumption
    <3>2. attackSpeed \in Int
      BY ConfigAssumption
    <3>3. \A i \in 1 .. 5 : i = 1 \/ i = 2 \/ i = 3 \/ i = 4 \/ i = 5
      OBVIOUS
    <3>. QED  BY <3>1, <3>2, <3>3 DEF IsQuery
  <2>4. Solved(file, q, g)
          = [flightTime |-> lookup(load(f), full, g, "t"), horizontalDistance |-> lookup(load(f), full, g, "hDist")]
    BY DEF solve
  <2>5. States(file, q) = [flightTime         |-> Interpolated(f, full, "t"),
                           horizontalDistance |-> Interpolated(f, full, "hDist")]
    OBVIOUS
  <2>. HIDE DEF f, full, Solved, States
  <2>6. /\ lookup(load(f), full, g, "t") = Interpolated(f, full, "t")
        /\ lookup(load(f), full, g, "hDist") = Interpolated(f, full, "hDist")
    BY <2>1, <2>2, <2>3, LookupIsInterpolated DEF IsField
  <2>. QED  BY <2>4, <2>5, <2>6
<1>2. Reference = {[file |-> file, query |-> q, result |-> States(file, q)] : file \in DOMAIN Files, q \in Queries}
  BY DEF Reference
<1>3. Answers = UNION {{[file |-> file, query |-> q, result |-> Solved(file, q, g)] : q \in Queries, g \in Garbage} :
                         file \in DOMAIN Files}
  <2>. DEFINE From(file)  == {[file |-> file, query |-> q,
                              result |-> solve(table, q[1], attackSpeed, [mass |-> q[2], drag |-> q[3], lift |-> q[4]], g)] :
                                table \in {load(Files[file])}, q \in Queries, g \in Garbage}
  <2>1. Answers = UNION {From(file) : file \in DOMAIN Files}
    BY DEF Answers
  <2>2. \A file : From(file) = {[file |-> file, query |-> q, result |-> Solved(file, q, g)] : q \in Queries, g \in Garbage}
    OBVIOUS
  <2>. HIDE DEF From, Solved
  <2>. QED  BY <2>1, <2>2
<1>. HIDE DEF Solved, States
<1>. QED  BY <1>1, <1>2, <1>3


(* What a mission aims by: its own solver's answer, or a later solver's.   *)
AimIInv ==
  /\ config \in Configs /\ changes \in Nat
  /\ changes = 0 => ballistics = config.ballistics
  /\ changes > 0 => ballistics \in config.others \cup {[flightTime |-> 0, horizontalDistance |-> 0]}

(* It is only changed by changeSolver (MissionProcessor.cpp:305-320).      *)
LEMMA AimInvariance == Spec => []AimIInv
<1>1. Init => AimIInv
  <2>1. SUFFICES ASSUME Init  PROVE AimIInv
    OBVIOUS
  <2>2. changes \in Nat /\ ~ (changes > 0) /\ config \in Configs /\ ballistics = config.ballistics
    BY <2>1 DEF Init
  <2>. QED  BY <2>2 DEF AimIInv
<1>2. AimIInv /\ [Next]_vars => AimIInv'
  <2>. SUFFICES ASSUME AimIInv, [Next]_vars  PROVE AimIInv'
    OBVIOUS
  <2>1. CASE UNCHANGED <<config, ballistics, changes>>
    BY <2>1 DEF AimIInv
  <2>2. CASE changeSolver
    <3>1. /\ changes \in Nat /\ changes' = changes + 1 /\ config' = config /\ config \in Configs
          /\ ballistics' \in config.others \cup {[flightTime |-> 0, horizontalDistance |-> 0]}
      BY <2>2 DEF changeSolver, AimIInv
    <3>2. changes' \in Nat /\ changes' > 0 /\ changes' # 0
      BY <3>1
    <3>. QED  BY <3>1, <3>2 DEF AimIInv
  <2>3. step => UNCHANGED <<config, ballistics, changes>>
    BY DEF step, StepDrops, StepGoesOn, StepFlies
  <2>4. reset \/ UNCHANGED vars => UNCHANGED <<config, ballistics, changes>>
    BY DEF reset, vars
  <2>. QED  BY <2>1, <2>2, <2>3, <2>4 DEF Next
<1>. QED  BY <1>1, <1>2, PTL DEF Spec

(* AimsByTheTable (MissionProcessor.cpp:102, 305-320; TableSolver.cpp:     *)
(* 61-160) holds in every mission, for all table files, configurations,    *)
(* numbers of solver changes and contents of the memory beside the arrays: *)
(* it aims by the interpolation of a table, or has no solver at all.       *)
THEOREM AimsAlways == Spec => []AimsByTheTable
<1>1. AimIInv => AimsByTheTable
  <2>. SUFFICES ASSUME AimIInv  PROVE AimsByTheTable
    OBVIOUS
  <2>1. config \in Configs /\ changes \in Nat
    BY DEF AimIInv
  <2>2. CASE changes = 0
    <3>1. ballistics = config.ballistics
      BY <2>2 DEF AimIInv
    <3>2. [file |-> config.file, query |-> config.query, result |-> ballistics] \in Answers
      BY <2>1, <3>1, SolverAssumption
    <3>. QED  BY <2>2, <3>2, SolverInterpolates DEF AimsByTheTable
  <2>3. CASE changes > 0
    <3>1. ballistics \in config.others \cup {[flightTime |-> 0, horizontalDistance |-> 0]}
      BY <2>3 DEF AimIInv
    <3>2. CASE ballistics \in config.others
      <4>1. PICK file \in DOMAIN Files :
              [file |-> file, query |-> config.query, result |-> ballistics] \in Answers
        BY <2>1, <3>2, SolverAssumption
      <4>. QED  BY <2>3, <4>1, SolverInterpolates DEF AimsByTheTable
    <3>3. CASE ballistics = [flightTime |-> 0, horizontalDistance |-> 0]
      BY <2>3, <3>3 DEF AimsByTheTable
    <3>. QED  BY <3>1, <3>2, <3>3
  <2>. QED  BY <2>1, <2>2, <2>3
<1>. QED  BY <1>1, AimInvariance, PTL
================================================================================
