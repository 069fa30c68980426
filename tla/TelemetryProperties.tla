-------------------------- MODULE TelemetryProperties --------------------------
(***************************************************************************)
(* What telemetry_check promises: the frames of an accepted log follow on  *)
(* one another, the exit code and the summary are those of the log, and    *)
(* incorrect input fails.                                                  *)
(***************************************************************************)
EXTENDS Telemetry, FiniteSets

(* The checks compare each frame with the one before it only; over the     *)
(* whole log they have to make of it what the summary and compute_frame_   *)
(* rate_hz take for granted: at most MAX_FRAMES frames, no seq missing     *)
(* between any two of them, the time running forward, every value in range *)
(* (telemetry.cpp:115-146).                                                *)
FramesFollowOn ==
  /\ Len(frames) <= MAX_FRAMES
  /\ \A i, j \in DOMAIN frames :
       i < j => /\ frames[j].seq = frames[i].seq + (j - i)
                /\ frames[j].timestamp_ms - frames[i].timestamp_ms >= j - i
  /\ \A i \in DOMAIN frames : InRange(frames[i])

-------------------------------------------------------------------------------
(* The lines that fit the buffer, without the empty ones.                  *)
Fitting ==
  LET fitting[i \in 0 .. Len(lines)] ==
        IF i = 0 THEN << >>
        ELSE IF lines[i].length = "fits" THEN Append(fitting[i - 1], lines[i]) ELSE fitting[i - 1]
  IN  fitting[Len(lines)]

(* A line is seven numbers and nothing more, whole where they must be.     *)
SevenNumbers(line) ==
  /\ Len(line.fields) = 7 /\ ~ line.trailing
  /\ \A i \in 1 .. 7 :
       line.fields[i].form \in IF i \in 3 .. 5 THEN {"whole", "decimal", "nan"} ELSE {"whole"}

(* Every line read fits the buffer. *)
AllFit == \A i \in DOMAIN lines : lines[i].length # "overlong"

(* A log is good when its lines are frames, in range, each following on    *)
(* the one before; seq, gps_fix and satellites count modulo the range of   *)
(* an int.                                                                 *)
GoodLog ==
  /\ Len(Fitting) \in 2 .. MAX_FRAMES
  /\ \A i \in DOMAIN Fitting : SevenNumbers(Fitting[i])
  /\ LET f == [i \in DOMAIN Fitting |-> parse_frame(Fitting[i].fields)] IN
       /\ \A i \in DOMAIN f : InRange(f[i])
       /\ \A i \in DOMAIN f \ {1} : Follows(f[i - 1], f[i])

(* Of the numbers among the voltages the least and the greatest; but when  *)
(* the first is a NaN every comparison with it is false and it stays.      *)
IsExtreme(v, Before(_, _)) ==
  IF frames[1].voltage_v = NaN THEN v = NaN
  ELSE /\ \E i \in DOMAIN frames : frames[i].voltage_v = v
       /\ \A i \in DOMAIN frames : ~ Before(frames[i].voltage_v, v)

Greater(a, b) == Less(b, a)

(* The sum of the temperatures lies between the reported tenths and the    *)
(* next ones away from zero; half degrees are five tenths.                 *)
TemperatureSum ==
  LET sum[i \in 0 .. Len(frames)] == IF i = 0 THEN 0 ELSE sum[i - 1] + frames[i].temperature_c
  IN  sum[Len(frames)]

IsAverage(tenths) ==
  LET n     == Len(frames)
      total == 5 * TemperatureSum
  IN  IF total >= 0 THEN tenths * n <= total /\ total < (tenths + 1) * n
      ELSE (tenths - 1) * n < total /\ total <= tenths * n

SummaryIsRight(s) ==
  /\ s.frames_total = Len(Fitting)
  /\ IsExtreme(s.voltage_min, Less)
  /\ IsExtreme(s.voltage_max, Greater)
  /\ s.low_voltage_frames = Cardinality({i \in DOMAIN frames : Less(frames[i].voltage_v, 44)})
  /\ IsAverage(s.temperature_tenths)
  /\ s.frame_rate_hz * ElapsedMs(frames) <= (Len(frames) - 1) * 1000
  /\ (s.frame_rate_hz + 1) * ElapsedMs(frames) > (Len(frames) - 1) * 1000

(* If its lines all fit the buffer, the process exits with 0 for a good    *)
(* log and for no other, and then has printed the summary of that log; in  *)
(* every other case it prints none (main.cpp:12-31, telemetry.cpp:15-39,   *)
(* 98-195).  A log of one frame has no rate and is rejected.  Of a log     *)
(* with a line that does not fit this says nothing: see                    *)
(* IncorrectInputFails.                                                    *)
OutcomeIsRight ==
  phase = "exited" /\ AllFit =>
    /\ exit_code = 0 <=> GoodLog
    /\ exit_code = 0 <=> summary # << >>
    /\ summary # << >> => SummaryIsRight(summary[1])

-------------------------------------------------------------------------------
(* src/homework_05/README.md:16-18: for incorrect input a short message in *)
(* stderr and a non-zero exit code are expected.  A line that is not seven *)
(* numbers is incorrect.  Violated: getline fails for a line that does not *)
(* fit the buffer as it does at the end of the file, and main summarises   *)
(* the frames before it (telemetry.cpp:108, main.cpp:13-31).               *)
IncorrectInputFails ==
  exit_code = 0 => \A i \in DOMAIN lines : lines[i].length = "empty" \/ SevenNumbers(lines[i])
================================================================================
