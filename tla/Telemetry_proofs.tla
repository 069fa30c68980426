---------------------------- MODULE Telemetry_proofs ----------------------------
(***************************************************************************)
(* Whatever the log and however wide an int: the frames read_frames has    *)
(* accepted follow on one another, although it compares neighbours only,   *)
(* and if its lines fit the buffer the exit code and the summary are those *)
(* of the log.                                                             *)
(*                                                                         *)
(* The second rests on an invariant that ties each frame to the line it    *)
(* was read from (Progress, Ended), and on induction along the frames for  *)
(* what the loop of summarize finds in them.                               *)
(***************************************************************************)
EXTENDS TelemetryProperties, SequenceTheorems, FiniteSetTheorems, WellFoundedInduction, TLAPS

Frame == [timestamp_ms : Int, seq : Int, voltage_v : Int \cup {NaN},
          temperature_c : Int \cup {NaN}, gps_fix : Int, satellites : Int]

(* The frames are frames, and they follow on one another. *)
IInv == frames \in Seq(Frame) /\ FramesFollowOn

(* The narrowing of a long yields a number. *)
LEMMA ParseIntType ==
  ASSUME NEW token \in Token
  PROVE  parse_int(token) \in Int
<1>1. token.value \in Int
  BY DEF Token
<1>2. INT_SPAN \in Nat \ {0} /\ INT_SPAN \div 2 \in Int
  BY TelemetryAssumption
<1>3. (token.value + INT_SPAN \div 2) % INT_SPAN \in Int
  BY <1>1, <1>2
<1>4. QED  BY <1>2, <1>3 DEF parse_int

(* So does the parsing of a double, unless it is a NaN. *)
LEMMA ParseDoubleType ==
  ASSUME NEW token \in Token
  PROVE  parse_double(token) \in Int \cup {NaN}
BY DEF Token, parse_double

(* The fields of a line that parses are tokens. *)
LEMMA FieldsType ==
  ASSUME NEW line \in Lines, Parses(split_line(line))
  PROVE  \A i \in 1 .. 7 : split_line(line)[i] \in Token
<1>1. line \in Line
  BY TelemetryAssumption
<1>2. line.fields \in Seq(Token) /\ Len(line.fields) \in Nat
  BY <1>1 DEF Line
<1> DEFINE last == IF Len(line.fields) < 7 THEN Len(line.fields) ELSE 7
<1>3. last \in Nat
  BY <1>2
<1>4. split_line(line) =
        [i \in 1 .. last |-> IF i = 7 /\ (line.trailing \/ Len(line.fields) > i)
                             THEN Text ELSE line.fields[i]]
  BY DEF split_line, EXPECTED_FIELD_COUNT
<1>5. Len(line.fields) < 7 => last < 7
  OBVIOUS
<1> HIDE DEF last
<1>6. Len(split_line(line)) = 7 /\ DOMAIN split_line(line) = 1 .. last
  BY <1>4 DEF Parses, EXPECTED_FIELD_COUNT
<1>7. last = 7
  BY <1>3, <1>4, <1>6
<1>8. Len(line.fields) >= 7
  BY <1>2, <1>7, <1>5
<1>9. Text \in Token
  BY DEF Text, Token
<1>10. QED  BY <1>2, <1>4, <1>7, <1>8, <1>9

(* A frame that is read is a frame. *)
LEMMA FrameType ==
  ASSUME NEW line \in Lines, Parses(split_line(line))
  PROVE  parse_frame(split_line(line)) \in Frame
<1> DEFINE fields == split_line(line)
<1>1. \A i \in 1 .. 7 : fields[i] \in Token
  BY FieldsType
<1>2. fields[1].value \in Int
  BY <1>1 DEF Token
<1>3. parse_int(fields[2]) \in Int /\ parse_int(fields[6]) \in Int /\ parse_int(fields[7]) \in Int
  BY <1>1, ParseIntType
<1>4. parse_double(fields[3]) \in Int \cup {NaN} /\ parse_double(fields[5]) \in Int \cup {NaN}
  BY <1>1, ParseDoubleType
<1> HIDE DEF fields
<1>5. parse_frame(fields) \in Frame
  BY <1>2, <1>3, <1>4 DEF parse_frame, Frame
<1>6. QED  BY <1>5 DEF fields

-------------------------------------------------------------------------------
(* Counting on from i. *)
LEMMA OneFurther ==
  ASSUME NEW a \in Int, NEW b \in Int, NEW c \in Int, NEW i \in Int, NEW n \in Int,
         b = a + (n - i), c = b + 1
  PROVE  c = a + (n + 1 - i)
OBVIOUS

(* One more frame that follows the last and is in range. *)
LEMMA OneMoreFollows ==
  ASSUME IInv, Len(frames) < MAX_FRAMES, NEW f \in Frame, InRange(f),
         frames # << >> => Follows(frames[Len(frames)], f),
         frames' = Append(frames, f)
  PROVE  IInv'
<1> DEFINE n == Len(frames)
<1>1. n \in Nat /\ frames' \in Seq(Frame) /\ Len(frames') = n + 1
  BY DEF IInv
<1>2. \A i \in 1 .. n : frames'[i] = frames[i] /\ frames[i] \in Frame
  BY DEF IInv
<1>3. frames'[n + 1] = f
  BY DEF IInv
<1>4. DOMAIN frames' = 1 .. n + 1 /\ DOMAIN frames = 1 .. n
  BY <1>1 DEF IInv
<1>5. Len(frames') <= MAX_FRAMES
  BY <1>1, TelemetryAssumption
<1>6. \A i \in 1 .. n + 1 : InRange(frames'[i])
  <2>1. ASSUME NEW i \in 1 .. n + 1  PROVE InRange(frames'[i])
    <3>1. CASE i = n + 1
      BY <1>3, <3>1
    <3>2. CASE i # n + 1
      <4>1. i \in 1 .. n
        BY <3>2, <1>1
      <4>2. InRange(frames[i])
        BY <4>1, <1>4 DEF IInv, FramesFollowOn
      <4>3. QED  BY <4>1, <4>2, <1>2
    <3>3. QED  BY <3>1, <3>2
  <2>2. QED  BY <2>1
<1>7. ASSUME NEW i \in 1 .. n + 1, NEW j \in 1 .. n + 1, i < j
      PROVE  /\ frames'[j].seq = frames'[i].seq + (j - i)
             /\ frames'[j].timestamp_ms - frames'[i].timestamp_ms >= j - i
  <2>1. i \in 1 .. n
    BY <1>1, <1>7
  <2>2. CASE j \in 1 .. n
    BY <2>1, <2>2, <1>2, <1>4, <1>7 DEF IInv, FramesFollowOn
  <2>3. CASE j = n + 1
    <3>1. frames # << >> /\ n \in 1 .. n
      BY <2>1, <1>1
    <3>2. f.seq = frames[n].seq + 1 /\ f.timestamp_ms > frames[n].timestamp_ms
      BY <3>1 DEF Follows
    <3>3. /\ frames[n] \in Frame /\ frames[i] \in Frame
          /\ frames'[i] = frames[i] /\ frames'[j] = f
      BY <2>1, <2>3, <3>1, <1>2, <1>3
    <3>4. /\ frames[n].seq \in Int /\ frames[i].seq \in Int /\ f.seq \in Int
          /\ frames[n].timestamp_ms \in Int /\ frames[i].timestamp_ms \in Int
          /\ f.timestamp_ms \in Int
      BY <3>3 DEF Frame
    <3>5. CASE i = n
      BY <3>2, <3>3, <3>4, <3>5, <2>3, <1>1
    <3>6. CASE i < n
      <4>1. /\ frames[n].seq = frames[i].seq + (n - i)
            /\ frames[n].timestamp_ms - frames[i].timestamp_ms >= n - i
        BY <2>1, <3>1, <3>6, <1>4 DEF IInv, FramesFollowOn
      <4>2. i \in Int /\ n \in Int
        BY <2>1, <1>1
      <4>3. f.seq = frames[i].seq + (n + 1 - i)
        BY <4>1, <4>2, <3>2, <3>4, OneFurther, SMTT(20)
      <4>4. f.timestamp_ms - frames[i].timestamp_ms >= n + 1 - i
        BY <4>1, <4>2, <3>2, <3>4
      <4>5. QED  BY <4>3, <4>4, <3>3, <2>3
    <3>7. QED  BY <2>1, <1>1, <3>5, <3>6
  <2>4. QED  BY <2>2, <2>3, <1>1
<1>8. QED  BY <1>1, <1>4, <1>5, <1>6, <1>7 DEF IInv, FramesFollowOn

(* The invariant holds at the start. *)
LEMMA InitIInv == Init => IInv
BY TelemetryAssumption DEF Init, IInv, FramesFollowOn

(* Every step keeps the invariant. *)
LEMMA NextIInv == IInv /\ [Next]_vars => IInv'
<1> SUFFICES ASSUME IInv, [Next]_vars  PROVE IInv'
  OBVIOUS
<1>1. CASE UNCHANGED frames
  BY <1>1 DEF IInv, FramesFollowOn, InRange
<1>2. ASSUME NEW line \in Lines, AcceptLine(line)  PROVE IInv'
  <2>1. /\ Len(frames) < MAX_FRAMES /\ Parses(split_line(line))
        /\ frames # << >> => Follows(frames[Len(frames)], parse_frame(split_line(line)))
        /\ InRange(parse_frame(split_line(line)))
    BY <1>2 DEF AcceptLine, Acceptable
  <2>2. frames' = Append(frames, parse_frame(split_line(line)))
    BY <1>2 DEF AcceptLine
  <2>3. QED  BY <2>1, <2>2, FrameType, OneMoreFollows
<1>3. UNCHANGED frames \/ \E line \in Lines : AcceptLine(line)
  BY DEF Next, vars, CannotOpen, Open, EndOfFile, LeaveLoop, NoRate, Summarise,
         SkipLine, RejectLine, OverlongLine
<1>4. QED  BY <1>1, <1>2, <1>3

-------------------------------------------------------------------------------
(* The inductive invariant. *)
THEOREM Invariance == Spec => []IInv
<1>1. Init => IInv
  BY InitIInv
<1>2. IInv /\ [Next]_vars => IInv'
  BY NextIInv
<1>3. QED  BY <1>1, <1>2, PTL DEF Spec

(* However the log goes on: no seq is missing between any two frames, the  *)
(* time runs forward, and the frames fit their array (telemetry.cpp:115-   *)
(* 146).                                                                   *)
THEOREM AcceptedFramesFollowOn == Spec => []FramesFollowOn
<1>1. IInv => FramesFollowOn
  BY DEF IInv
<1>2. QED  BY <1>1, Invariance, PTL

-------------------------------------------------------------------------------
(* Recursion along a sequence. *)

(* Induction, with the set of the numbers for which the statement holds. *)
LEMMA SetInduction ==
  ASSUME NEW S, 0 \in S, \A n \in Nat : n \in S => n + 1 \in S
  PROVE  \A n \in Nat : n \in S
<1> SUFFICES ASSUME NEW m \in Nat, m \notin S  PROVE FALSE
  OBVIOUS
<1> DEFINE Without == {n \in Nat : n \notin S}
<1>1. PICK k \in Without : \A n \in Without : ~ (<<n, k>> \in OpToRel(<, Nat))
  <2>1. Without \subseteq Nat /\ Without # {}
    OBVIOUS
  <2> HIDE DEF Without
  <2>2. QED  BY <2>1, WFMin, NatLessThanWellFounded
<1>2. k \in Nat /\ k # 0 /\ k - 1 \in Nat /\ (k - 1) + 1 = k
  OBVIOUS
<1>3. <<k - 1, k>> \in OpToRel(<, Nat)
  BY <1>2 DEF OpToRel
<1>4. k - 1 \in S
  BY <1>1, <1>2, <1>3
<1>5. QED  BY <1>2, <1>4

(* f is defined by recursion along n elements: x0 at first, then what Step *)
(* makes of the value before.                                              *)
IsRecursive(f, n, x0, Step) == f = [i \in 0 .. n |-> IF i = 0 THEN x0 ELSE Step[i][f[i - 1]]]

(* There is such a function. *)
LEMMA RecursionExists ==
  ASSUME NEW n \in Nat, NEW X, NEW x0 \in X, NEW Step \in [1 .. n -> [X -> X]]
  PROVE  \E f : IsRecursive(f, n, x0, Step)
<1> DEFINE Part(f, k) == /\ f \in [0 .. k -> X] /\ f[0] = x0
                         /\ \A i \in 1 .. k : f[i] = Step[i][f[i - 1]]
           S == {k \in Nat : k <= n => \E f : Part(f, k)}
<1>1. 0 \in S
  <2>1. Part([i \in 0 .. 0 |-> x0], 0)
    OBVIOUS
  <2>2. QED  BY <2>1
<1>2. ASSUME NEW k \in Nat, k \in S  PROVE k + 1 \in S
  <2> SUFFICES ASSUME k + 1 <= n  PROVE \E f : Part(f, k + 1)
    OBVIOUS
  <2>1. PICK f : Part(f, k)
    BY <1>2
  <2> DEFINE g == [i \in 0 .. k + 1 |-> IF i = k + 1 THEN Step[k + 1][f[k]] ELSE f[i]]
  <2>2. f[k] \in X /\ Step[k + 1] \in [X -> X]
    BY <2>1
  <2>3. g \in [0 .. k + 1 -> X] /\ g[0] = x0
    BY <2>1, <2>2
  <2>4. ASSUME NEW i \in 1 .. k + 1  PROVE g[i] = Step[i][g[i - 1]]
    <3>1. CASE i = k + 1
      BY <3>1
    <3>2. CASE i # k + 1
      BY <2>1, <3>2
    <3>3. QED  BY <3>1, <3>2
  <2> HIDE DEF g
  <2>5. Part(g, k + 1)
    BY <2>3, <2>4
  <2>6. QED  BY <2>5
<1> HIDE DEF S
<1>3. n \in S
  BY <1>1, <1>2, SetInduction
<1>4. PICK f : Part(f, n)
  BY <1>3 DEF S
<1>5. f = [i \in 0 .. n |-> IF i = 0 THEN x0 ELSE Step[i][f[i - 1]]]
  BY <1>4
<1>6. QED  BY <1>5 DEF IsRecursive

-------------------------------------------------------------------------------
(* The lines of the log that fit. *)

IsFitting(f, ls) ==
  f = [i \in 0 .. Len(ls) |->
         IF i = 0 THEN << >>
         ELSE IF ls[i].length = "fits" THEN Append(f[i - 1], ls[i]) ELSE f[i - 1]]

(* For every log there are such lines. *)
LEMMA FittingExists ==
  ASSUME NEW ls \in Seq(Lines)
  PROVE  \E f : IsFitting(f, ls)
<1> DEFINE X == Seq(Lines)
           Step == [i \in 1 .. Len(ls) |-> [x \in X |-> IF ls[i].length = "fits" THEN Append(x, ls[i]) ELSE x]]
<1>1. Step \in [1 .. Len(ls) -> [X -> X]] /\ << >> \in X /\ Len(ls) \in Nat
  BY ElementOfSeq
<1>2. ASSUME NEW i \in 1 .. Len(ls), NEW x \in X
      PROVE  Step[i][x] = IF ls[i].length = "fits" THEN Append(x, ls[i]) ELSE x
  OBVIOUS
<1>3. PICK f : f = [i \in 0 .. Len(ls) |-> IF i = 0 THEN << >> ELSE Step[i][f[i - 1]]]
  <2> DEFINE n == Len(ls)
             none == << >>
  <2>1. Step \in [1 .. n -> [X -> X]] /\ none \in X /\ n \in Nat
    BY <1>1
  <2> HIDE DEF X, Step, n, none
  <2>2. \E f : IsRecursive(f, n, none, Step)
    BY <2>1, RecursionExists
  <2>3. QED  BY <2>2 DEF n, none, IsRecursive
<1> HIDE DEF X, Step
<1> DEFINE S == {k \in Nat : k <= Len(ls) => f[k] \in X}
<1>4. 0 \in S
  BY <1>1, <1>3
<1>5. ASSUME NEW k \in Nat, k \in S  PROVE k + 1 \in S
  <2>1. k + 1 <= Len(ls) => f[k + 1] = Step[k + 1][f[(k + 1) - 1]] /\ (k + 1) - 1 = k /\ k + 1 \in 1 .. Len(ls)
    BY <1>1, <1>3
  <2>2. QED  BY <1>1, <1>5, <2>1
<1> HIDE DEF S
<1>6. \A k \in Nat : k \in S
  BY <1>4, <1>5, SetInduction
<1>7. \A i \in 1 .. Len(ls) : f[i - 1] \in X
  BY <1>1, <1>6 DEF S
<1>8. IsFitting(f, ls)
  BY <1>2, <1>3, <1>7, SMTT(20) DEF IsFitting
<1>9. QED  BY <1>8

(* They do not depend on what follows. *)
LEMMA FittingOfMore ==
  ASSUME NEW ls \in Seq(Lines), NEW line \in Lines, NEW f, NEW g,
         IsFitting(f, ls), IsFitting(g, Append(ls, line))
  PROVE  g[Len(ls) + 1] = IF line.length = "fits" THEN Append(f[Len(ls)], line) ELSE f[Len(ls)]
<1> DEFINE more == Append(ls, line)
           n == Len(ls)
           S == {k \in Nat : k <= n => f[k] = g[k]}
<1>1. /\ n \in Nat /\ Len(more) = n + 1 /\ more[n + 1] = line
      /\ \A i \in 1 .. n : more[i] = ls[i]
  OBVIOUS
<1> HIDE DEF more, n
<1>2. /\ f[0] = << >> /\ g[0] = << >>
      /\ \A i \in 1 .. n : f[i] = IF ls[i].length = "fits" THEN Append(f[i - 1], ls[i]) ELSE f[i - 1]
      /\ \A i \in 1 .. n + 1 : g[i] = IF more[i].length = "fits" THEN Append(g[i - 1], more[i]) ELSE g[i - 1]
  <2>1. f = [i \in 0 .. n |-> IF i = 0 THEN << >>
                           ELSE IF ls[i].length = "fits" THEN Append(f[i - 1], ls[i]) ELSE f[i - 1]]
    BY DEF IsFitting, n
  <2>2. g = [i \in 0 .. n + 1 |-> IF i = 0 THEN << >>
                               ELSE IF more[i].length = "fits" THEN Append(g[i - 1], more[i]) ELSE g[i - 1]]
    <3>1. g = [i \in 0 .. Len(more) |-> IF i = 0 THEN << >>
                                     ELSE IF more[i].length = "fits" THEN Append(g[i - 1], more[i])
                                     ELSE g[i - 1]]
      BY DEF IsFitting, more
    <3>2. QED  BY <1>1, <3>1
  <2>3. ASSUME NEW i \in 1 .. n
        PROVE  f[i] = IF ls[i].length = "fits" THEN Append(f[i - 1], ls[i]) ELSE f[i - 1]
    <3>1. i \in 0 .. n /\ i # 0
      BY <1>1
    <3>2. QED  BY <2>1, <3>1, Zenon
  <2>4. ASSUME NEW i \in 1 .. n + 1
        PROVE  g[i] = IF more[i].length = "fits" THEN Append(g[i - 1], more[i]) ELSE g[i - 1]
    <3>1. i \in 0 .. n + 1 /\ i # 0
      BY <1>1
    <3>2. QED  BY <2>2, <3>1, Zenon
  <2>5. f[0] = << >> /\ g[0] = << >>
    BY <1>1, <2>1, <2>2
  <2>6. QED  BY <2>3, <2>4, <2>5
<1>3. 0 \in S
  BY <1>2
<1>4. ASSUME NEW k \in Nat, k \in S  PROVE k + 1 \in S
  <2>1. k + 1 <= n => /\ k + 1 \in 1 .. n /\ k + 1 \in 1 .. n + 1 /\ (k + 1) - 1 = k
                      /\ f[k] = g[k] /\ more[k + 1] = ls[k + 1]
    BY <1>1, <1>4
  <2>2. QED  BY <1>2, <2>1
<1> HIDE DEF S
<1>5. n \in S
  BY <1>1, <1>3, <1>4, SetInduction
<1>6. f[n] = g[n] /\ n + 1 \in 1 .. n + 1 /\ (n + 1) - 1 = n
  BY <1>1, <1>5 DEF S
<1>7. QED  BY <1>1, <1>2, <1>6 DEF n

(* Fitting is what its definition says. *)
LEMMA FittingIs ==
  ASSUME lines \in Seq(Lines)
  PROVE  \E f : IsFitting(f, lines) /\ Fitting = f[Len(lines)]
<1> DEFINE f == CHOOSE f : IsFitting(f, lines)
<1>1. IsFitting(f, lines)
  BY FittingExists
<1>2. Fitting = f[Len(lines)]
  BY DEF Fitting, IsFitting
<1> HIDE DEF f
<1>3. QED  BY <1>1, <1>2

(* One more line. *)
LEMMA FittingGrows ==
  ASSUME lines \in Seq(Lines), NEW line \in Lines, lines' = Append(lines, line)
  PROVE  /\ lines' \in Seq(Lines)
         /\ Fitting' = IF line.length = "fits" THEN Append(Fitting, line) ELSE Fitting
<1>1. lines' \in Seq(Lines) /\ Len(lines') = Len(lines) + 1
  OBVIOUS
<1> DEFINE f == CHOOSE f : IsFitting(f, lines)
           g == CHOOSE g : IsFitting(g, Append(lines, line))
<1>2. IsFitting(f, lines) /\ IsFitting(g, Append(lines, line))
  BY <1>1, FittingExists
<1>3. Fitting = f[Len(lines)]
  BY DEF Fitting, IsFitting
<1>4. Fitting' = g[Len(lines')]
  BY DEF Fitting, IsFitting
<1> HIDE DEF f, g
<1>5. QED  BY <1>1, <1>2, <1>3, <1>4, FittingOfMore

(* There are none at the start. *)
LEMMA FittingEmpty == lines = << >> => Fitting = << >>
<1> SUFFICES ASSUME lines = << >>  PROVE Fitting = << >>
  OBVIOUS
<1>1. lines \in Seq(Lines) /\ Len(lines) = 0
  OBVIOUS
<1>2. QED  BY <1>1, FittingIs DEF IsFitting

-------------------------------------------------------------------------------
(* A line is seven numbers exactly when it parses, and then its fields are *)
(* taken as they are (telemetry.cpp:15-87).                                *)
LEMMA ParsesIs ==
  ASSUME NEW line \in Lines
  PROVE  /\ SevenNumbers(line) <=> Parses(split_line(line))
         /\ SevenNumbers(line) => parse_frame(line.fields) = parse_frame(split_line(line))
<1> DEFINE fields == line.fields
           n == Len(fields)
           last == IF n < 7 THEN n ELSE 7
           split == split_line(line)
<1>1. /\ fields \in Seq(Token) /\ n \in Nat /\ line.trailing \in BOOLEAN
  BY TelemetryAssumption DEF Line
<1>2. \A i \in 1 .. n : fields[i].form \in {"whole", "decimal", "nan", "text"}
  <2>1. \A i \in 1 .. n : fields[i] \in Token
    BY <1>1, ElementOfSeq
  <2>2. \A t \in Token : t.form \in {"whole", "decimal", "nan", "text"}
    BY DEF Token
  <2>3. QED  BY <2>1, <2>2
<1>3. split = [i \in 1 .. last |-> IF i = 7 /\ (line.trailing \/ n > i) THEN Text ELSE fields[i]]
  BY DEF split_line, EXPECTED_FIELD_COUNT
<1>4. last \in Nat /\ (last = 7 <=> n >= 7)
  <2> HIDE DEF n
  <2>1. QED  BY <1>1
<1> HIDE DEF last, split
<1>5. Len(split) = last
  BY <1>3, <1>4
<1>6. CASE n = 7 /\ ~ line.trailing
  <2>1. last = 7 /\ \A i \in 1 .. 7 : split[i] = fields[i]
    BY <1>3, <1>4, <1>6
  <2>2. Parses(split) <=> /\ \A i \in {1, 2, 6, 7} : fields[i].form = "whole"
                          /\ \A i \in {3, 4, 5} : fields[i].form # "text"
    BY <2>1, <1>5 DEF Parses, EXPECTED_FIELD_COUNT
  <2>3. SevenNumbers(line) <=> /\ \A i \in 1 .. 7 : i \in 3 .. 5 => fields[i].form \in {"whole", "decimal", "nan"}
                               /\ \A i \in 1 .. 7 : i \notin 3 .. 5 => fields[i].form = "whole"
    BY <1>6 DEF SevenNumbers
  <2>4. parse_frame(split) = parse_frame(fields)
    BY <2>1 DEF parse_frame
  <2> HIDE DEF fields
  <2>5. SevenNumbers(line) <=> Parses(split)
    BY <1>2, <1>6, <2>2, <2>3
  <2>6. QED  BY <2>4, <2>5 DEF fields, split
<1>7. CASE ~ (n = 7 /\ ~ line.trailing)
  <2>1. ~ SevenNumbers(line)
    BY <1>1, <1>7 DEF SevenNumbers
  <2>2. ~ Parses(split)
    <3>1. CASE last # 7
      BY <1>5, <3>1 DEF Parses, EXPECTED_FIELD_COUNT
    <3>2. CASE last = 7
      <4>1. split[7] = Text
        BY <1>1, <1>3, <1>4, <1>7, <3>2
      <4>2. QED  BY <4>1 DEF Parses, Text
    <3>3. QED  BY <3>1, <3>2
  <2>3. QED  BY <2>1, <2>2 DEF split
<1>8. QED  BY <1>6, <1>7

(* Line i of a log is frame i of it.                                       *)
Read(i) == Parses(split_line(Fitting[i])) /\ frames[i] = parse_frame(split_line(Fitting[i]))

(* What the frames have to do with the lines, while the process reads,     *)
(* and what its exit code has to do with both when it ends.                *)
Progress ==
  /\ lines \in Seq(Lines) /\ Fitting \in Seq(Lines)
  /\ phase \in {"opening", "reading", "summarising", "exited"}
  /\ \A i \in 1 .. Len(frames) : Read(i)
  /\ phase = "opening" => lines = << >> /\ frames = << >>
  /\ phase = "summarising" => frames # << >>
  /\ phase # "exited" => summary = << >> /\ exit_code = -1 /\ Len(Fitting) = Len(frames)

Ended ==
  phase = "exited" =>
    \/ /\ exit_code = 1 /\ summary = << >>
       /\ Len(Fitting) = Len(frames) /\ Len(frames) < 2
    \/ /\ exit_code = 1 /\ summary = << >>
       /\ Len(Fitting) = Len(frames) + 1 /\ ~ Acceptable(Fitting[Len(Fitting)])
    \/ /\ exit_code = 0 /\ summary = << summarize(frames) >>
       /\ Len(Fitting) = Len(frames) /\ Len(frames) >= 2

(* Two frames or more take some time. *)
LEMMA TimePasses ==
  ASSUME IInv
  PROVE  /\ Len(frames) >= 2 => ElapsedMs(frames) \in Nat \ {0}
         /\ Len(frames) = 1 => ElapsedMs(frames) = 0
<1>1. Len(frames) \in Nat /\ DOMAIN frames = 1 .. Len(frames)
  BY DEF IInv
<1>2. \A i \in 1 .. Len(frames) : frames[i].timestamp_ms \in Int
  <2>1. \A i \in 1 .. Len(frames) : frames[i] \in Frame
    BY ElementOfSeq DEF IInv
  <2>2. \A f \in Frame : f.timestamp_ms \in Int
    BY DEF Frame
  <2>3. QED  BY <2>1, <2>2
<1>3. CASE Len(frames) >= 2
  <2>1. 1 \in DOMAIN frames /\ Len(frames) \in DOMAIN frames /\ 1 < Len(frames)
    BY <1>1, <1>3
  <2>2. frames[Len(frames)].timestamp_ms - frames[1].timestamp_ms >= Len(frames) - 1
    BY <2>1 DEF IInv, FramesFollowOn
  <2>3. QED  BY <1>1, <1>2, <1>3, <2>1, <2>2 DEF ElapsedMs
<1>4. CASE Len(frames) = 1
  BY <1>1, <1>2, <1>4 DEF ElapsedMs
<1>5. QED  BY <1>3, <1>4

(* The invariant holds at the start. *)
LEMMA InitProgress == Init => Progress /\ Ended
<1> SUFFICES ASSUME Init  PROVE Progress /\ Ended
  OBVIOUS
<1>1. lines = << >> /\ frames = << >> /\ phase = "opening" /\ summary = << >> /\ exit_code = -1
  BY DEF Init
<1>2. Fitting = << >>
  BY <1>1, FittingEmpty
<1>3. QED  BY <1>1, <1>2 DEF Progress, Ended

(* What the frames were read from does not change when lines are added.    *)
LEMMA ReadOn ==
  ASSUME Progress, IInv, NEW line \in Lines, lines' = Append(lines, line)
  PROVE  /\ lines' \in Seq(Lines) /\ Fitting' \in Seq(Lines)
         /\ line.length # "fits" => Fitting' = Fitting
         /\ line.length = "fits" => /\ Len(Fitting') = Len(Fitting) + 1
                                    /\ Fitting'[Len(Fitting) + 1] = line
                                    /\ \A i \in 1 .. Len(Fitting) : Fitting'[i] = Fitting[i]
<1>1. /\ lines' \in Seq(Lines)
      /\ Fitting' = IF line.length = "fits" THEN Append(Fitting, line) ELSE Fitting
  BY FittingGrows DEF Progress
<1> DEFINE old == Fitting
           new == Fitting'
<1>2. old \in Seq(Lines) /\ new = IF line.length = "fits" THEN Append(old, line) ELSE old
  BY <1>1 DEF Progress
<1> HIDE DEF old, new
<1>3. new \in Seq(Lines)
  BY <1>2
<1>4. line.length = "fits" => /\ Len(new) = Len(old) + 1 /\ new[Len(old) + 1] = line
                              /\ \A i \in 1 .. Len(old) : new[i] = old[i]
  BY <1>2
<1>5. QED  BY <1>1, <1>2, <1>3, <1>4 DEF old, new

(* Nothing changes when no line is read. *)
LEMMA Unread == UNCHANGED lines => Fitting' = Fitting
BY DEF Fitting

(* Every step keeps it. *)
LEMMA NextProgress == IInv /\ Progress /\ Ended /\ [Next]_vars => Progress' /\ Ended'
<1> SUFFICES ASSUME IInv, Progress, Ended, [Next]_vars  PROVE Progress' /\ Ended'
  OBVIOUS
<1> DEFINE n == Len(frames)
<1>0. n \in Nat /\ Fitting \in Seq(Lines) /\ Len(Fitting) \in Nat
  BY DEF IInv, Progress
<1>1. ASSUME UNCHANGED <<lines, frames>>
      PROVE  /\ Fitting' = Fitting /\ lines' \in Seq(Lines) /\ Fitting' \in Seq(Lines)
             /\ \A i \in 1 .. Len(frames') : Read(i)'
  <2>1. Fitting' = Fitting
    BY <1>1, Unread
  <2>2. QED  BY <1>1, <2>1 DEF Progress, Read
<1>2. ASSUME UNCHANGED frames, NEW line \in Lines, Reads(line), Len(Fitting) = n
      PROVE  /\ lines' \in Seq(Lines) /\ Fitting' \in Seq(Lines)
             /\ \A i \in 1 .. Len(frames') : Read(i)'
             /\ line.length # "fits" => Len(Fitting') = n
             /\ line.length = "fits" => Len(Fitting') = n + 1 /\ Fitting'[n + 1] = line
  <2>1. lines' = Append(lines, line)
    BY <1>2 DEF Reads
  <2>2. \A i \in 1 .. n : Fitting'[i] = Fitting[i]
    BY <1>2, <2>1, ReadOn
  <2>3. \A i \in 1 .. n : Read(i)'
    BY <1>2, <2>2 DEF Progress, Read
  <2>4. QED  BY <1>2, <2>1, <2>3, ReadOn
<1>3. CASE CannotOpen
  <2>1. /\ phase = "opening" /\ phase' = "exited" /\ exit_code' = 1
        /\ UNCHANGED <<lines, frames, summary>>
    BY <1>3 DEF CannotOpen, Exit
  <2>2. frames = << >> /\ summary = << >> /\ Len(Fitting) = n
    BY <2>1 DEF Progress
  <2>3. QED  BY <1>1, <2>1, <2>2 DEF Progress, Ended
<1>4. CASE Open
  <2>1. /\ phase = "opening" /\ phase' = "reading" /\ UNCHANGED <<lines, frames, summary, exit_code>>
    BY <1>4 DEF Open
  <2>2. QED  BY <1>1, <2>1 DEF Progress, Ended
<1>5. ASSUME NEW line \in Lines, SkipLine(line)  PROVE Progress' /\ Ended'
  <2>1. /\ line.length # "fits" /\ Reads(line) /\ phase = "reading"
        /\ UNCHANGED <<phase, frames, summary, exit_code>>
    BY <1>5 DEF SkipLine, Reads
  <2>2. Len(Fitting) = n
    BY <2>1 DEF Progress
  <2>3. QED  BY <1>2, <2>1, <2>2 DEF Progress, Ended
<1>6. ASSUME NEW line \in Lines, AcceptLine(line)  PROVE Progress' /\ Ended'
  <2>1. /\ line.length = "fits" /\ lines' = Append(lines, line) /\ phase = "reading"
        /\ Parses(split_line(line)) /\ frames' = Append(frames, parse_frame(split_line(line)))
        /\ UNCHANGED <<phase, summary, exit_code>>
    BY <1>6 DEF AcceptLine, Reads, Acceptable
  <2>2. Len(Fitting) = n /\ summary = << >> /\ exit_code = -1
    BY <2>1 DEF Progress
  <2>3. /\ lines' \in Seq(Lines) /\ Fitting' \in Seq(Lines) /\ Len(Fitting') = n + 1
        /\ Fitting'[n + 1] = line /\ \A i \in 1 .. n : Fitting'[i] = Fitting[i]
    BY <2>1, <2>2, ReadOn
  <2>4. /\ Len(frames') = n + 1 /\ frames'[n + 1] = parse_frame(split_line(line))
        /\ \A i \in 1 .. n : frames'[i] = frames[i]
    BY <2>1 DEF IInv
  <2>5. ASSUME NEW i \in 1 .. n + 1  PROVE Read(i)'
    <3>1. CASE i = n + 1
      BY <2>1, <2>3, <2>4, <3>1 DEF Read
    <3>2. CASE i # n + 1
      <4>1. i \in 1 .. n
        BY <1>0, <3>2
      <4>2. QED  BY <2>3, <2>4, <4>1 DEF Progress, Read
    <3>3. QED  BY <3>1, <3>2
  <2>6. QED  BY <2>1, <2>2, <2>3, <2>4, <2>5 DEF Progress, Ended
<1>7. ASSUME NEW line \in Lines, RejectLine(line)  PROVE Progress' /\ Ended'
  <2>1. /\ line.length = "fits" /\ Reads(line) /\ phase = "reading" /\ ~ Acceptable(line)
        /\ phase' = "exited" /\ exit_code' = 1 /\ UNCHANGED <<frames, summary>>
    BY <1>7 DEF RejectLine, Exit, Reads
  <2>2. Len(Fitting) = n /\ summary = << >>
    BY <2>1 DEF Progress
  <2>3. /\ lines' \in Seq(Lines) /\ Fitting' \in Seq(Lines) /\ Len(Fitting') = n + 1
        /\ Fitting'[n + 1] = line /\ \A i \in 1 .. Len(frames') : Read(i)'
    BY <1>2, <2>1, <2>2
  <2>4. ~ Acceptable(Fitting[Len(Fitting)])'
    BY <2>1, <2>3 DEF Acceptable
  <2>5. QED  BY <2>1, <2>2, <2>3, <2>4 DEF Progress, Ended
<1>8. ASSUME LeaveLoop, phase = "reading", lines' \in Seq(Lines), Fitting' \in Seq(Lines),
             \A i \in 1 .. Len(frames') : Read(i)', Len(Fitting') = n
      PROVE  Progress' /\ Ended'
  <2>1. UNCHANGED <<frames, summary>> /\ summary = << >> /\ exit_code = -1
    BY <1>8 DEF LeaveLoop, Progress
  <2>2. CASE frames = << >>
    BY <1>8, <2>1, <2>2 DEF LeaveLoop, Exit, Progress, Ended
  <2>3. CASE frames # << >>
    BY <1>8, <2>1, <2>3 DEF LeaveLoop, Progress, Ended
  <2>4. QED  BY <2>2, <2>3
<1>9. CASE EndOfFile
  <2>1. LeaveLoop /\ phase = "reading" /\ UNCHANGED <<lines, frames>>
    BY <1>9 DEF EndOfFile, LeaveLoop
  <2>2. Len(Fitting) = n
    BY <2>1 DEF Progress
  <2>3. QED  BY <1>1, <1>8, <2>1, <2>2
<1>10. ASSUME NEW line \in Lines, OverlongLine(line)  PROVE Progress' /\ Ended'
  <2>1. LeaveLoop /\ Reads(line) /\ phase = "reading" /\ line.length # "fits" /\ UNCHANGED frames
    BY <1>10 DEF OverlongLine, LeaveLoop, Reads
  <2>2. Len(Fitting) = n
    BY <2>1 DEF Progress
  <2>3. QED  BY <1>2, <1>8, <2>1, <2>2
<1>11. CASE NoRate
  <2>1. /\ phase = "summarising" /\ ElapsedMs(frames) <= 0 /\ phase' = "exited" /\ exit_code' = 1
        /\ UNCHANGED <<lines, frames, summary>>
    BY <1>11 DEF NoRate, Exit
  <2>2. Len(Fitting) = n /\ summary = << >>
    BY <2>1 DEF Progress
  <2>3. n < 2
    BY <1>0, <2>1, TimePasses
  <2>4. QED  BY <1>1, <2>1, <2>2, <2>3 DEF Progress, Ended
<1>12. CASE Summarise
  <2>1. /\ phase = "summarising" /\ ElapsedMs(frames) > 0 /\ phase' = "exited" /\ exit_code' = 0
        /\ summary' = << summarize(frames) >> /\ UNCHANGED <<lines, frames>>
    BY <1>12 DEF Summarise, Exit
  <2>2. Len(Fitting) = n /\ frames # << >>
    BY <2>1 DEF Progress
  <2>3. n >= 2
    <3>1. n # 0
      BY <2>2 DEF IInv
    <3>2. n # 1
      BY <2>1, TimePasses
    <3> HIDE DEF n
    <3>3. QED  BY <1>0, <3>1, <3>2
  <2>4. summary' = << summarize(frames') >>
    BY <2>1
  <2>5. QED  BY <1>1, <2>1, <2>2, <2>3, <2>4 DEF Progress, Ended
<1>13. CASE UNCHANGED vars
  <2>1. UNCHANGED <<phase, lines, frames, summary, exit_code>> /\ Fitting' = Fitting
    BY <1>13, Unread DEF vars
  <2>2. QED  BY <1>1, <2>1 DEF Progress, Ended, Acceptable
<1>14. QED  BY <1>3, <1>4, <1>5, <1>6, <1>7, <1>9, <1>10, <1>11, <1>12, <1>13 DEF Next

-------------------------------------------------------------------------------
(* Which logs are good. *)

Parsed(i) == parse_frame(split_line(Fitting[i]))

(* They are the ones whose lines parse, in range and in order. *)
LEMMA GoodLogIs ==
  ASSUME Fitting \in Seq(Lines)
  PROVE  GoodLog <=> /\ Len(Fitting) \in 2 .. MAX_FRAMES
                     /\ \A i \in 1 .. Len(Fitting) : Parses(split_line(Fitting[i])) /\ InRange(Parsed(i))
                     /\ \A i \in 2 .. Len(Fitting) : Follows(Parsed(i - 1), Parsed(i))
<1> DEFINE n == Len(Fitting)
           f == [i \in DOMAIN Fitting |-> parse_frame(Fitting[i].fields)]
<1>1. DOMAIN Fitting = 1 .. n /\ n \in Nat /\ \A i \in 1 .. n : Fitting[i] \in Lines
  BY ElementOfSeq
<1>2. \A i \in 1 .. n : SevenNumbers(Fitting[i]) <=> Parses(split_line(Fitting[i]))
  BY <1>1, ParsesIs
<1>3. DOMAIN f = 1 .. n /\ \A i \in 1 .. n : SevenNumbers(Fitting[i]) => f[i] = Parsed(i)
  BY <1>1, ParsesIs DEF Parsed
<1>4. GoodLog <=> /\ n \in 2 .. MAX_FRAMES
                  /\ \A i \in 1 .. n : SevenNumbers(Fitting[i])
                  /\ \A i \in 1 .. n : InRange(f[i])
                  /\ \A i \in (1 .. n) \ {1} : Follows(f[i - 1], f[i])
  BY <1>1, <1>3 DEF GoodLog
<1> HIDE DEF f, n
<1>5. /\ (1 .. n) \ {1} = 2 .. n
      /\ \A i \in 2 .. n : i \in 1 .. n /\ i - 1 \in 1 .. n
  BY <1>1
<1>6. ASSUME \A i \in 1 .. n : SevenNumbers(Fitting[i])
      PROVE  /\ \A i \in 1 .. n : InRange(f[i]) <=> InRange(Parsed(i))
             /\ \A i \in 2 .. n : Follows(f[i - 1], f[i]) <=> Follows(Parsed(i - 1), Parsed(i))
  BY <1>3, <1>5, <1>6
<1>7. QED  BY <1>2, <1>4, <1>5, <1>6 DEF n

(* A log that was read to its end is good when it has two frames or more.  *)
LEMMA ReadIsGood ==
  ASSUME IInv, Progress, Len(Fitting) = Len(frames)
  PROVE  GoodLog <=> Len(frames) >= 2
<1> DEFINE n == Len(frames)
<1>1. /\ n \in Nat /\ n <= MAX_FRAMES /\ MAX_FRAMES \in Nat /\ DOMAIN frames = 1 .. n
      /\ Fitting \in Seq(Lines)
  BY TelemetryAssumption DEF IInv, FramesFollowOn, Progress
<1>2. ASSUME NEW i \in 1 .. n
      PROVE  Parses(split_line(Fitting[i])) /\ frames[i] = Parsed(i) /\ InRange(Parsed(i))
  BY <1>1, <1>2 DEF Progress, Read, Parsed, IInv, FramesFollowOn
<1>3. ASSUME NEW i \in 2 .. n
      PROVE  Follows(Parsed(i - 1), Parsed(i))
  <2>1. /\ i - 1 \in 1 .. n /\ i \in 1 .. n /\ i - 1 < i /\ i - (i - 1) = 1
        /\ frames[i - 1] = Parsed(i - 1) /\ frames[i] = Parsed(i)
    BY <1>1, <1>2
  <2>2. /\ frames[i].seq = frames[i - 1].seq + 1
        /\ frames[i].timestamp_ms - frames[i - 1].timestamp_ms >= 1
    BY <1>1, <2>1 DEF IInv, FramesFollowOn
  <2>3. frames[i].timestamp_ms \in Int /\ frames[i - 1].timestamp_ms \in Int
    <3>1. frames[i] \in Frame /\ frames[i - 1] \in Frame
      BY <2>1, ElementOfSeq DEF IInv
    <3>2. QED  BY <3>1 DEF Frame
  <2>4. QED  BY <2>1, <2>2, <2>3 DEF Follows
<1> HIDE DEF n
<1>4. n \in 2 .. MAX_FRAMES <=> n >= 2
  BY <1>1
<1>5. QED  BY <1>1, <1>2, <1>3, <1>4, GoodLogIs DEF n

(* A log with a line that was not accepted is not good.                    *)
LEMMA RejectedIsBad ==
  ASSUME IInv, Progress, Len(Fitting) = Len(frames) + 1, ~ Acceptable(Fitting[Len(Fitting)])
  PROVE  ~ GoodLog
<1> DEFINE n == Len(frames)
<1>1. n \in Nat /\ MAX_FRAMES \in Nat /\ Fitting \in Seq(Lines) /\ Len(Fitting) = n + 1
  BY TelemetryAssumption DEF IInv, Progress
<1> SUFFICES ASSUME GoodLog  PROVE FALSE
  OBVIOUS
<1>2. /\ n + 1 \in 2 .. MAX_FRAMES
      /\ Parses(split_line(Fitting[n + 1])) /\ InRange(Parsed(n + 1))
      /\ Follows(Parsed(n), Parsed(n + 1))
  <2>1. /\ n + 1 \in 2 .. MAX_FRAMES
        /\ \A i \in 1 .. n + 1 : Parses(split_line(Fitting[i])) /\ InRange(Parsed(i))
        /\ \A i \in 2 .. n + 1 : Follows(Parsed(i - 1), Parsed(i))
    BY <1>1, GoodLogIs
  <2> HIDE DEF n
  <2>2. n + 1 \in 1 .. n + 1 /\ n + 1 \in 2 .. n + 1 /\ (n + 1) - 1 = n
    BY <1>1, <2>1
  <2>3. QED  BY <2>1, <2>2
<1>3. n \in 1 .. n /\ n < MAX_FRAMES
  <2> HIDE DEF n
  <2>1. QED  BY <1>1, <1>2
<1>4. frames[n] = Parsed(n)
  BY <1>3 DEF Progress, Read, Parsed
<1>5. Acceptable(Fitting[n + 1])
  BY <1>2, <1>3, <1>4 DEF Acceptable, Parsed
<1>6. QED  BY <1>1, <1>5

-------------------------------------------------------------------------------
(* The summary. *)

(* A quotient is the greatest whole number below. *)
LEMMA Division ==
  ASSUME NEW x \in Int, NEW y \in Nat \ {0}
  PROVE  /\ x \div y \in Int
         /\ (x \div y) * y <= x /\ x < (x \div y + 1) * y
<1>1. x \div y \in Int /\ y * (x \div y) <= x /\ x % y \in 0 .. y - 1 /\ x = y * (x \div y) + (x % y)
  OBVIOUS
<1> DEFINE q == x \div y
<1> HIDE DEF q
<1>2. q * y = y * q /\ (q + 1) * y = y * q + y
  BY <1>1 DEF q
<1>3. QED  BY <1>1, <1>2 DEF q

(* The average is cut off towards zero (telemetry.cpp:186-187).            *)
LEMMA QuotIs ==
  ASSUME NEW total \in Int, NEW n \in Nat \ {0}
  PROVE  LET q == Quot(total, n) IN
         IF total >= 0 THEN q * n <= total /\ total < (q + 1) * n
         ELSE (q - 1) * n < total /\ total <= q * n
<1>1. CASE total >= 0
  BY <1>1, Division DEF Quot
<1>2. CASE ~ total >= 0
  <2> DEFINE p == (- total) \div n
  <2>1. - total \in Int
    OBVIOUS
  <2>2. p \in Int /\ p * n <= - total /\ - total < (p + 1) * n
    BY <2>1, Division
  <2> HIDE DEF p
  <2>3. (- p - 1) * n = - ((p + 1) * n) /\ (- p) * n = - (p * n)
    BY <2>2
  <2>4. (- p - 1) * n < total /\ total <= (- p) * n
    BY <2>2, <2>3
  <2>5. Quot(total, n) = - p
    BY <1>2 DEF Quot, p
  <2>6. QED  BY <1>2, <2>4, <2>5
<1>3. QED  BY <1>1, <1>2

Number == Int \cup {NaN}

Tally == [voltage_min : Number, voltage_max : Number, temperature_sum : Int, low_voltage_frames : Nat]

(* What the loop makes of a tally with the next frame.                     *)
Tallied(t, frame) ==
  [voltage_min        |-> IF Less(frame.voltage_v, t.voltage_min) THEN frame.voltage_v ELSE t.voltage_min,
   voltage_max        |-> IF Less(t.voltage_max, frame.voltage_v) THEN frame.voltage_v ELSE t.voltage_max,
   temperature_sum    |-> t.temperature_sum + frame.temperature_c,
   low_voltage_frames |-> t.low_voltage_frames + IF Less(frame.voltage_v, 44) THEN 1 ELSE 0]

NoFrames(v) ==
  [voltage_min |-> v, voltage_max |-> v, temperature_sum |-> 0, low_voltage_frames |-> 0]

IsFound(f, fs, v) ==
  f = [i \in 0 .. Len(fs) |-> IF i = 0 THEN NoFrames(v) ELSE Tallied(f[i - 1], fs[i])]

(* It is a tally again. *)
LEMMA TalliedType ==
  ASSUME NEW t \in Tally, NEW frame \in Frame, frame.temperature_c \in Int
  PROVE  Tallied(t, frame) \in Tally
<1>1. /\ t.voltage_min \in Number /\ t.voltage_max \in Number /\ t.temperature_sum \in Int
      /\ t.low_voltage_frames \in Nat /\ frame.voltage_v \in Number
  BY DEF Tally, Frame, Number
<1>2. t.low_voltage_frames + (IF Less(frame.voltage_v, 44) THEN 1 ELSE 0) \in Nat
  BY <1>1
<1>3. QED  BY <1>1, <1>2 DEF Tallied, Tally

(* The loop ends with the tally of all frames, each of them counted once.  *)
LEMMA FoundIs ==
  ASSUME NEW fs \in Seq(Frame), \A i \in 1 .. Len(fs) : fs[i].temperature_c \in Int, NEW v \in Number
  PROVE  \E f : /\ Found(fs, v) = f[Len(fs)] /\ f[0] = NoFrames(v)
                /\ \A i \in 0 .. Len(fs) : f[i] \in Tally
                /\ \A i \in 1 .. Len(fs) : f[i] = Tallied(f[i - 1], fs[i])
<1> DEFINE n == Len(fs)
           X == Tally
           x0 == NoFrames(v)
           Step == [i \in 1 .. n |-> [t \in X |-> Tallied(t, fs[i])]]
<1>1. n \in Nat /\ \A i \in 1 .. n : fs[i] \in Frame /\ fs[i].temperature_c \in Int
  BY ElementOfSeq
<1>2. x0 \in X
  BY DEF NoFrames, Tally
<1>3. \A i \in 1 .. n : \A t \in X : Tallied(t, fs[i]) \in X /\ Step[i][t] = Tallied(t, fs[i])
  BY <1>1, TalliedType
<1>4. Step \in [1 .. n -> [X -> X]]
  BY <1>3
<1> HIDE DEF X, x0, Step, n
<1>5. ASSUME NEW f, IsRecursive(f, n, x0, Step)
      PROVE  \A i \in 0 .. n : f[i] \in X
  <2> DEFINE S == {k \in Nat : k <= n => f[k] \in X}
  <2>1. 0 \in S
    BY <1>1, <1>2, <1>5 DEF IsRecursive
  <2>2. ASSUME NEW k \in Nat, k \in S  PROVE k + 1 \in S
    <3>1. k + 1 <= n => /\ f[k + 1] = Step[k + 1][f[k]] /\ k + 1 \in 1 .. n /\ f[k] \in X
      BY <1>1, <1>5, <2>2 DEF IsRecursive
    <3>2. QED  BY <1>3, <3>1
  <2> HIDE DEF S
  <2>3. \A k \in Nat : k \in S
    BY <2>1, <2>2, SetInduction
  <2>4. QED  BY <1>1, <2>3 DEF S
<1>6. PICK g : IsRecursive(g, n, x0, Step)
  BY <1>1, <1>2, <1>4, RecursionExists
<1>7. ASSUME NEW i \in 1 .. n
      PROVE  i \in 0 .. n /\ i # 0 /\ i - 1 \in 0 .. n
  BY <1>1
<1>8. IsFound(g, fs, v)
  <2>1. g = [i \in 0 .. n |-> IF i = 0 THEN x0 ELSE Step[i][g[i - 1]]]
    BY <1>6 DEF IsRecursive
  <2>2. \A i \in 1 .. n : Step[i][g[i - 1]] = Tallied(g[i - 1], fs[i])
    BY <1>3, <1>5, <1>6, <1>7
  <2>3. \A i \in 0 .. n : i = 0 \/ i \in 1 .. n
    BY <1>1
  <2>4. g = [i \in 0 .. n |-> IF i = 0 THEN x0 ELSE Tallied(g[i - 1], fs[i])]
    BY <2>1, <2>2, <2>3
  <2>5. QED  BY <2>4 DEF IsFound, n, x0
<1> DEFINE f == CHOOSE f : IsFound(f, fs, v)
<1>9. IsFound(f, fs, v)
  BY <1>8
<1>10. Found(fs, v) = f[Len(fs)]
  BY DEF Found, IsFound, Tallied, NoFrames
<1> HIDE DEF f
<1>11. f = [i \in 0 .. n |-> IF i = 0 THEN x0 ELSE Tallied(f[i - 1], fs[i])]
  BY <1>9 DEF IsFound, n, x0
<1>12. f[0] = x0 /\ \A i \in 1 .. n : f[i] = Tallied(f[i - 1], fs[i])
  BY <1>1, <1>7, <1>11
<1>13. \A i \in 0 .. n : f[i] \in X
  <2> DEFINE S == {k \in Nat : k <= n => f[k] \in X}
  <2>1. 0 \in S
    BY <1>2, <1>12
  <2>2. ASSUME NEW k \in Nat, k \in S  PROVE k + 1 \in S
    <3>1. k + 1 <= n => /\ f[k + 1] = Tallied(f[k], fs[k + 1]) /\ k + 1 \in 1 .. n /\ f[k] \in X
      <4>1. k + 1 <= n => k + 1 \in 1 .. n /\ (k + 1) - 1 = k
        BY <1>1
      <4>2. QED  BY <1>1, <1>12, <2>2, <4>1
    <3>2. QED  BY <1>3, <3>1
  <2> HIDE DEF S
  <2>3. \A k \in Nat : k \in S
    BY <2>1, <2>2, SetInduction
  <2>4. QED  BY <1>1, <2>3 DEF S
<1>14. QED  BY <1>10, <1>12, <1>13 DEF n, x0, X

-------------------------------------------------------------------------------
(* The loop of summarize over the frames that were read. *)

(* g[i] is what it has found in the first i of them. *)
Tallying(g) ==
  /\ g[0] = NoFrames(frames[1].voltage_v)
  /\ \A i \in 0 .. Len(frames) : g[i] \in Tally
  /\ \A i \in 1 .. Len(frames) : g[i] = Tallied(g[i - 1], frames[i])

(* What the proofs use of the frames. *)
LEMMA FramesAre ==
  ASSUME IInv
  PROVE  /\ Len(frames) \in Nat /\ DOMAIN frames = 1 .. Len(frames) /\ frames \in Seq(Frame)
         /\ \A i \in 1 .. Len(frames) : /\ frames[i] \in Frame /\ frames[i].voltage_v \in Number
                                        /\ frames[i].temperature_c \in Int
<1>1. Len(frames) \in Nat /\ DOMAIN frames = 1 .. Len(frames) /\ frames \in Seq(Frame)
  BY DEF IInv
<1>2. \A i \in 1 .. Len(frames) : frames[i] \in Frame
  BY <1>1, ElementOfSeq
<1>3. \A f \in Frame : f.voltage_v \in Number
  BY DEF Frame, Number
<1>4. \A i \in 1 .. Len(frames) : InRange(frames[i])
  BY <1>1 DEF IInv, FramesFollowOn
<1>5. \A f \in Frame : InRange(f) => f.temperature_c \in Int
  BY DEF InRange
<1>6. QED  BY <1>1, <1>2, <1>3, <1>4, <1>5

(* The sum of the temperatures is that of the loop.                        *)
IsSum(f) ==
  f = [i \in 0 .. Len(frames) |-> IF i = 0 THEN 0 ELSE f[i - 1] + frames[i].temperature_c]

(* The loop's sum is TemperatureSum. *)
LEMMA SumIs ==
  ASSUME IInv, NEW g, Tallying(g)
  PROVE  g[Len(frames)].temperature_sum = TemperatureSum
<1> DEFINE n == Len(frames)
           h == [i \in 0 .. n |-> g[i].temperature_sum]
<1>1. n \in Nat
  BY FramesAre
<1>2. ASSUME NEW i \in 1 .. n
      PROVE  /\ i \in 0 .. n /\ i # 0 /\ i - 1 \in 0 .. n
             /\ g[i].temperature_sum = g[i - 1].temperature_sum + frames[i].temperature_c
  <2>1. g[i] = Tallied(g[i - 1], frames[i])
    BY DEF Tallying
  <2>2. QED  BY <1>1, <2>1 DEF Tallied
<1>3. g[0].temperature_sum = 0
  BY DEF Tallying, NoFrames
<1> HIDE DEF n
<1>4. h = [i \in 0 .. n |-> IF i = 0 THEN 0 ELSE h[i - 1] + frames[i].temperature_c]
  <2>1. ASSUME NEW i \in 0 .. n
        PROVE  h[i] = IF i = 0 THEN 0 ELSE h[i - 1] + frames[i].temperature_c
    <3>1. CASE i = 0
      BY <1>3, <3>1
    <3>2. CASE i # 0
      <4>1. i \in 1 .. n
        BY <1>1, <3>2
      <4>2. QED  BY <1>2, <3>2, <4>1
    <3>3. QED  BY <3>1, <3>2
  <2> HIDE DEF h
  <2>2. h = [i \in 0 .. n |-> h[i]]
    BY DEF h
  <2>3. QED  BY <2>1, <2>2
<1>5. IsSum(h)
  BY <1>4 DEF IsSum, n
<1> DEFINE f == CHOOSE f : IsSum(f)
<1>6. IsSum(f) /\ TemperatureSum = f[n]
  BY <1>5 DEF TemperatureSum, IsSum, n
<1> HIDE DEF f
<1>7. f[0] = 0 /\ \A i \in 1 .. n : f[i] = f[i - 1] + frames[i].temperature_c
  <2>1. f = [i \in 0 .. n |-> IF i = 0 THEN 0 ELSE f[i - 1] + frames[i].temperature_c]
    BY <1>6 DEF IsSum, n
  <2>2. QED  BY <1>1, <1>2, <2>1
<1> DEFINE S == {k \in Nat : k <= n => f[k] = g[k].temperature_sum}
<1>8. 0 \in S
  BY <1>3, <1>7
<1>9. ASSUME NEW k \in Nat, k \in S  PROVE k + 1 \in S
  <2>1. k + 1 <= n => k + 1 \in 1 .. n /\ (k + 1) - 1 = k /\ f[k] = g[k].temperature_sum
    BY <1>1, <1>9
  <2>2. QED  BY <1>2, <1>7, <2>1
<1> HIDE DEF S
<1>10. n \in S
  BY <1>1, <1>8, <1>9, SetInduction
<1>11. QED  BY <1>1, <1>6, <1>10 DEF S, n

(* The frames of low voltage are counted once each.                        *)
LowVoltage(k) == {i \in 1 .. k : Less(frames[i].voltage_v, 44)}

(* Its count is the number of frames of low voltage. *)
LEMMA LowIs ==
  ASSUME IInv, NEW g, Tallying(g)
  PROVE  g[Len(frames)].low_voltage_frames = Cardinality({i \in DOMAIN frames : Less(frames[i].voltage_v, 44)})
<1> DEFINE n == Len(frames)
           S == {k \in Nat : k <= n => /\ IsFiniteSet(LowVoltage(k))
                                       /\ g[k].low_voltage_frames = Cardinality(LowVoltage(k))}
<1>1. n \in Nat /\ DOMAIN frames = 1 .. n
  BY FramesAre
<1>2. 0 \in S
  <2>1. LowVoltage(0) = {}
    BY DEF LowVoltage
  <2>2. g[0].low_voltage_frames = 0
    BY DEF Tallying, NoFrames
  <2>3. QED  BY <2>1, <2>2, FS_EmptySet
<1>3. ASSUME NEW k \in Nat, k \in S  PROVE k + 1 \in S
  <2> SUFFICES ASSUME k + 1 <= n
               PROVE  /\ IsFiniteSet(LowVoltage(k + 1))
                      /\ g[k + 1].low_voltage_frames = Cardinality(LowVoltage(k + 1))
    OBVIOUS
  <2>1. /\ IsFiniteSet(LowVoltage(k)) /\ g[k].low_voltage_frames = Cardinality(LowVoltage(k))
        /\ k + 1 \in 1 .. n /\ (k + 1) - 1 = k /\ k + 1 \notin 1 .. k
    BY <1>1, <1>3
  <2>2. g[k + 1].low_voltage_frames =
          g[k].low_voltage_frames + IF Less(frames[k + 1].voltage_v, 44) THEN 1 ELSE 0
    <3>1. g[k + 1] = Tallied(g[k], frames[k + 1])
      BY <2>1 DEF Tallying
    <3>2. QED  BY <3>1 DEF Tallied
  <2>3. g[k].low_voltage_frames \in Nat
    BY <2>1, FS_CardinalityType
  <2>4. \A i : i \in 1 .. k + 1 <=> i \in 1 .. k \/ i = k + 1
    OBVIOUS
  <2>5. CASE Less(frames[k + 1].voltage_v, 44)
    <3>1. LowVoltage(k + 1) = LowVoltage(k) \cup {k + 1} /\ k + 1 \notin LowVoltage(k)
      BY <2>1, <2>4, <2>5 DEF LowVoltage
    <3>2. QED  BY <2>1, <2>2, <2>5, <3>1, FS_AddElement
  <2>6. CASE ~ Less(frames[k + 1].voltage_v, 44)
    <3>1. LowVoltage(k + 1) = LowVoltage(k)
      BY <2>4, <2>6 DEF LowVoltage
    <3>2. QED  BY <2>1, <2>2, <2>3, <2>6, <3>1
  <2>7. QED  BY <2>5, <2>6
<1> HIDE DEF S
<1>4. n \in S
  BY <1>1, <1>2, <1>3, SetInduction
<1>5. g[n].low_voltage_frames = Cardinality(LowVoltage(n))
  BY <1>1, <1>4 DEF S
<1>6. LowVoltage(n) = {i \in DOMAIN frames : Less(frames[i].voltage_v, 44)}
  BY <1>1 DEF LowVoltage
<1>7. QED  BY <1>5, <1>6

(* The extremes: the loop replaces what it has by what is beyond it.       *)
LEMMA ExtremesAre ==
  ASSUME IInv, frames # << >>, NEW g, Tallying(g)
  PROVE  /\ IsExtreme(g[Len(frames)].voltage_min, Less)
         /\ IsExtreme(g[Len(frames)].voltage_max, Greater)
<1> DEFINE n == Len(frames)
           v(i) == frames[i].voltage_v
           IsMin(k) == /\ \E i \in 1 .. n : g[k].voltage_min = v(i)
                       /\ \A i \in 1 .. k : ~ Less(v(i), g[k].voltage_min)
           IsMax(k) == /\ \E i \in 1 .. n : g[k].voltage_max = v(i)
                       /\ \A i \in 1 .. k : ~ Less(g[k].voltage_max, v(i))
           IsSame(k) == g[k].voltage_min = v(1) /\ g[k].voltage_max = v(1)
           S == {k \in Nat : k <= n => IF v(1) = NaN THEN IsSame(k)
                                       ELSE /\ g[k].voltage_min \in Int /\ g[k].voltage_max \in Int
                                            /\ IsMin(k) /\ IsMax(k)}
<1>1. n \in Nat /\ DOMAIN frames = 1 .. n /\ 1 \in 1 .. n /\ \A i \in 1 .. n : v(i) \in Number
  <2>1. n # 0
    BY DEF IInv
  <2>2. QED  BY <2>1, FramesAre
<1>2. IsSame(0)
  BY DEF Tallying, NoFrames
<1>3. ASSUME NEW i \in 1 .. n
      PROVE  /\ g[i].voltage_min = IF Less(v(i), g[i - 1].voltage_min) THEN v(i) ELSE g[i - 1].voltage_min
             /\ g[i].voltage_max = IF Less(g[i - 1].voltage_max, v(i)) THEN v(i) ELSE g[i - 1].voltage_max
  <2>1. g[i] = Tallied(g[i - 1], frames[i])
    BY DEF Tallying
  <2>2. QED  BY <2>1 DEF Tallied
<1>4. \A i \in 1 .. n : v(i) # NaN => v(i) \in Int
  BY <1>1 DEF Number
<1> HIDE DEF n, v
<1>5. 0 \in S
  BY <1>1, <1>2, <1>4
<1>6. ASSUME NEW k \in Nat, k \in S  PROVE k + 1 \in S
  <2> SUFFICES ASSUME k + 1 <= n
               PROVE  IF v(1) = NaN THEN IsSame(k + 1)
                      ELSE /\ g[k + 1].voltage_min \in Int /\ g[k + 1].voltage_max \in Int
                           /\ IsMin(k + 1) /\ IsMax(k + 1)
    OBVIOUS
  <2>1. /\ k + 1 \in 1 .. n /\ (k + 1) - 1 = k
        /\ \A i : i \in 1 .. k + 1 <=> i \in 1 .. k \/ i = k + 1
    BY <1>1
  <2>2. /\ g[k + 1].voltage_min = IF Less(v(k + 1), g[k].voltage_min) THEN v(k + 1) ELSE g[k].voltage_min
        /\ g[k + 1].voltage_max = IF Less(g[k].voltage_max, v(k + 1)) THEN v(k + 1) ELSE g[k].voltage_max
    BY <1>3, <2>1
  <2>3. CASE v(1) = NaN
    <3>1. IsSame(k)
      BY <1>1, <1>6, <2>3
    <3>2. QED  BY <2>2, <2>3, <3>1 DEF Less
  <2>4. CASE v(1) # NaN
    <3>1. /\ g[k].voltage_min \in Int /\ g[k].voltage_max \in Int /\ IsMin(k) /\ IsMax(k)
      BY <1>1, <1>6, <2>4
    <3>2. v(k + 1) # NaN => v(k + 1) \in Int
      BY <1>4, <2>1
    <3> DEFINE lo == g[k].voltage_min
               hi == g[k].voltage_max
               newLo == g[k + 1].voltage_min
               newHi == g[k + 1].voltage_max
               w == v(k + 1)
    <3>3. /\ lo \in Int /\ hi \in Int /\ (w # NaN => w \in Int)
          /\ newLo = (IF Less(w, lo) THEN w ELSE lo) /\ newHi = (IF Less(hi, w) THEN w ELSE hi)
      BY <2>2, <3>1, <3>2
    <3>4. /\ newLo \in Int /\ newHi \in Int
      BY <3>3 DEF Less
    <3>5. \E i \in 1 .. n : newLo = v(i)
      BY <2>1, <3>1, <3>3
    <3>6. \E i \in 1 .. n : newHi = v(i)
      BY <2>1, <3>1, <3>3
    <3>7. ASSUME NEW i \in 1 .. k + 1  PROVE ~ Less(v(i), newLo) /\ ~ Less(newHi, v(i))
      <4>1. CASE i \in 1 .. k
        <5>1. i \in 1 .. n
          BY <1>1, <2>1, <4>1
        <5>2. v(i) # NaN => v(i) \in Int
          BY <1>4, <5>1
        <5>3. ~ Less(v(i), lo) /\ ~ Less(hi, v(i))
          BY <3>1, <4>1
        <5> HIDE DEF lo, hi, newLo, newHi, w
        <5>4. QED  BY <3>3, <5>2, <5>3, TelemetryAssumption DEF Less
      <4>2. CASE i = k + 1
        <5>1. v(i) = w
          BY <4>2
        <5> HIDE DEF lo, hi, newLo, newHi, w
        <5>2. QED  BY <3>3, <5>1, TelemetryAssumption DEF Less
      <4>3. QED  BY <2>1, <4>1, <4>2
    <3>8. IsMin(k + 1)
      BY <3>5, <3>7
    <3>9. IsMax(k + 1)
      BY <3>6, <3>7
    <3>10. QED  BY <2>4, <3>4, <3>8, <3>9
  <2>5. QED  BY <2>3, <2>4
<1> HIDE DEF S
<1>7. n \in S
  BY <1>1, <1>5, <1>6, SetInduction
<1>8. IF v(1) = NaN THEN IsSame(n) ELSE IsMin(n) /\ IsMax(n)
  BY <1>1, <1>7 DEF S
<1>9. QED  BY <1>1, <1>8 DEF IsExtreme, Greater, n, v

(* The summary of a log that was read to its end. *)
LEMMA SummaryOfTheLog ==
  ASSUME IInv, Len(frames) >= 2, Len(Fitting) = Len(frames)
  PROVE  SummaryIsRight(summarize(frames))
<1> DEFINE n == Len(frames)
<1>1. /\ n \in Nat \ {0} /\ 1 \in 1 .. n /\ frames \in Seq(Frame) /\ frames # << >>
      /\ \A i \in 1 .. n : frames[i].temperature_c \in Int
      /\ frames[1].voltage_v \in Number
  BY FramesAre
<1>2. PICK g : Found(frames, frames[1].voltage_v) = g[n] /\ Tallying(g)
  <2> HIDE DEF n
  <2>1. \E g : /\ Found(frames, frames[1].voltage_v) = g[Len(frames)] /\ g[0] = NoFrames(frames[1].voltage_v)
               /\ \A i \in 0 .. Len(frames) : g[i] \in Tally
               /\ \A i \in 1 .. Len(frames) : g[i] = Tallied(g[i - 1], frames[i])
    BY <1>1, FoundIs DEF n
  <2>2. QED  BY <2>1 DEF Tallying, n
<1> DEFINE s == summarize(frames)
<1>3. /\ s.frames_total = n
      /\ s.voltage_min = g[n].voltage_min /\ s.voltage_max = g[n].voltage_max
      /\ s.temperature_tenths = Quot(5 * g[n].temperature_sum, n)
      /\ s.low_voltage_frames = g[n].low_voltage_frames
      /\ s.frame_rate_hz = ((n - 1) * 1000) \div ElapsedMs(frames)
  BY <1>2 DEF summarize, SummaryOf, compute_frame_rate_hz
<1> HIDE DEF s
<1>4. IsExtreme(s.voltage_min, Less) /\ IsExtreme(s.voltage_max, Greater)
  BY <1>1, <1>2, <1>3, ExtremesAre
<1>5. s.low_voltage_frames = Cardinality({i \in DOMAIN frames : Less(frames[i].voltage_v, 44)})
  BY <1>2, <1>3, LowIs
<1>6. IsAverage(s.temperature_tenths)
  <2>1. g[n].temperature_sum = TemperatureSum /\ g[n] \in Tally
    <3>1. n \in 0 .. n
      BY <1>1
    <3>2. QED  BY <1>2, <3>1, SumIs DEF Tallying
  <2>2. TemperatureSum \in Int
    BY <2>1 DEF Tally
  <2>3. 5 * TemperatureSum \in Int
    BY <2>2
  <2> DEFINE total == 5 * TemperatureSum
             tenths == Quot(total, n)
  <2>4. total \in Int /\ s.temperature_tenths = tenths
    BY <1>3, <2>1, <2>3
  <2> HIDE DEF total, n
  <2>5. IF total >= 0 THEN tenths * n <= total /\ total < (tenths + 1) * n
        ELSE (tenths - 1) * n < total /\ total <= tenths * n
    BY <1>1, <2>4, QuotIs
  <2> HIDE DEF tenths
  <2>6. QED  BY <2>4, <2>5 DEF IsAverage, total, n
<1>7. /\ s.frame_rate_hz * ElapsedMs(frames) <= (n - 1) * 1000
      /\ (s.frame_rate_hz + 1) * ElapsedMs(frames) > (n - 1) * 1000
  <2> DEFINE e == ElapsedMs(frames)
             x == (n - 1) * 1000
             q == x \div e
  <2>1. e \in Nat \ {0} /\ x \in Int /\ s.frame_rate_hz = q
    BY <1>1, <1>3, TimePasses
  <2> HIDE DEF e, x
  <2>2. q \in Int /\ q * e <= x /\ x < (q + 1) * e
    BY <2>1, Division
  <2> HIDE DEF q
  <2>3. (q + 1) * e > x
    <3>1. (q + 1) * e \in Int
      BY <2>1, <2>2
    <3>2. QED  BY <2>1, <2>2, <3>1
  <2>4. s.frame_rate_hz * e <= x /\ (s.frame_rate_hz + 1) * e > x
    BY <2>1, <2>2, <2>3
  <2>5. QED  BY <2>4 DEF e, x
<1>8. QED  BY <1>3, <1>4, <1>5, <1>6, <1>7 DEF SummaryIsRight, s

-------------------------------------------------------------------------------
(* How the process ended decides what it printed and how it exited. *)
LEMMA OutcomeFollows ==
  ASSUME IInv, Progress, Ended
  PROVE  OutcomeIsRight
<1> SUFFICES ASSUME phase = "exited", AllFit
             PROVE  /\ exit_code = 0 <=> GoodLog
                    /\ exit_code = 0 <=> summary # << >>
                    /\ summary # << >> => SummaryIsRight(summary[1])
  BY DEF OutcomeIsRight
<1>1. CASE /\ exit_code = 1 /\ summary = << >>
           /\ Len(Fitting) = Len(frames) /\ Len(frames) < 2
  <2>1. ~ GoodLog
    BY <1>1, ReadIsGood, FramesAre
  <2>2. QED  BY <1>1, <2>1
<1>2. CASE /\ exit_code = 1 /\ summary = << >>
           /\ Len(Fitting) = Len(frames) + 1 /\ ~ Acceptable(Fitting[Len(Fitting)])
  BY <1>2, RejectedIsBad
<1>3. CASE /\ exit_code = 0 /\ summary = << summarize(frames) >>
           /\ Len(Fitting) = Len(frames) /\ Len(frames) >= 2
  <2>1. GoodLog /\ SummaryIsRight(summarize(frames))
    BY <1>3, ReadIsGood, SummaryOfTheLog
  <2>2. summary # << >> /\ summary[1] = summarize(frames)
    BY <1>3
  <2>3. QED  BY <1>3, <2>1, <2>2
<1>4. QED  BY <1>1, <1>2, <1>3 DEF Ended

(* If the lines of the log all fit the buffer, the process exits with 0    *)
(* for a good log and for no other, and then has printed that log's        *)
(* summary: its extremes, its count of low voltages, its average cut off   *)
(* towards zero and its rate rounded down; otherwise it prints none        *)
(* (main.cpp:12-31, telemetry.cpp:98-195).                                 *)
THEOREM TheOutcomeIsRight == Spec => []OutcomeIsRight
<1>1. Init => IInv /\ Progress /\ Ended
  BY InitIInv, InitProgress
<1>2. IInv /\ Progress /\ Ended /\ [Next]_vars => (IInv /\ Progress /\ Ended)'
  BY NextIInv, NextProgress
<1>3. IInv /\ Progress /\ Ended => OutcomeIsRight
  BY OutcomeFollows
<1>4. QED  BY <1>1, <1>2, <1>3, PTL DEF Spec
================================================================================
