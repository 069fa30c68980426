------------------------------- MODULE Telemetry -------------------------------
(***************************************************************************)
(* telemetry_check of homework_05: read_frames takes a log line by line,   *)
(* gives up at the first line it cannot accept, and main summarises what   *)
(* was read.  The log is written by someone else: the next line is any of  *)
(* Lines.                                                                  *)
(*                                                                         *)
(* A line is its fields, whether something follows the last of them, and   *)
(* whether it is empty or too long for the buffer.  A field is a token: a  *)
(* whole number, a decimal (counted in halves), a NaN or other text.       *)
(* Numbers that are parsed as doubles are counted in halves throughout.    *)
(***************************************************************************)
EXTENDS Integers, Sequences

CONSTANTS
  Lines,           (* the lines a log may have                             *)
  NaN,             (* what strtod makes of "nan"                           *)
  INT_SPAN,        (* the number of values of an int: 2^32                 *)
  MAX_FRAMES,      (* MAX_TELEMETRY_FRAMES                                 *)
  MaxLines         (* bound: lines read                                    *)

EXPECTED_FIELD_COUNT == 7

Whole(n)   == [form |-> "whole", value |-> n]
Decimal(h) == [form |-> "decimal", value |-> h]
NotANumber == [form |-> "nan", value |-> 0]
Text       == [form |-> "text", value |-> 0]

Token == [form : {"whole", "decimal", "nan", "text"}, value : Int]
Line  == [length : {"empty", "fits", "overlong"}, fields : Seq(Token), trailing : BOOLEAN]

-------------------------------------------------------------------------------
(* split_line stops behind the seventh field and leaves it unterminated:   *)
(* what follows on the line belongs to it, and makes it text.              *)
split_line_CutsTheRest(line) ==   \* mutant: what follows the last field is ignored
  IF Len(line.fields) <= EXPECTED_FIELD_COUNT THEN line.fields
  ELSE SubSeq(line.fields, 1, EXPECTED_FIELD_COUNT)

split_line(line) ==
  [i \in 1 .. (IF Len(line.fields) < EXPECTED_FIELD_COUNT
               THEN Len(line.fields) ELSE EXPECTED_FIELD_COUNT) |->
     IF i = EXPECTED_FIELD_COUNT /\ (line.trailing \/ Len(line.fields) > i)
     THEN Text ELSE line.fields[i]]

(* A long that is narrowed to an int keeps its low bits. *)
parse_int(token) == ((token.value + INT_SPAN \div 2) % INT_SPAN) - INT_SPAN \div 2

parse_double(token) ==
  CASE token.form = "whole" -> 2 * token.value
    [] token.form = "nan"   -> NaN
    [] OTHER                -> token.value

(* The tokens parse_frame parses as long or int, and those as double. *)
Parses(fields) ==
  /\ Len(fields) = EXPECTED_FIELD_COUNT
  /\ \A i \in {1, 2, 6, 7} : fields[i].form = "whole"
  /\ \A i \in {3, 4, 5} : fields[i].form # "text"

(* No NaN among the temperatures (converting their sum to an int would be  *)
(* undefined), and no seq whose successor is out of an int's range.        *)
ASSUME TelemetryAssumption ==
  /\ Lines \subseteq Line
  /\ \A line \in Lines : LET fields == split_line(line) IN
       Parses(fields) => /\ fields[5].form # "nan"
                         /\ parse_int(fields[2]) < INT_SPAN \div 2 - 1
  /\ NaN \notin Int
  /\ INT_SPAN \in Nat \ {0} /\ INT_SPAN % 2 = 0
  /\ MAX_FRAMES \in Nat \ {0} /\ MaxLines \in Nat

parse_frame(fields) ==
  [timestamp_ms  |-> fields[1].value,
   seq           |-> parse_int(fields[2]),
   voltage_v     |-> parse_double(fields[3]),
   temperature_c |-> parse_double(fields[5]),
   gps_fix       |-> parse_int(fields[6]),
   satellites    |-> parse_int(fields[7])]

(* A comparison with a NaN is false. *)
Less(a, b) == a # NaN /\ b # NaN /\ a < b

(* The checks of a frame against the one before it and against the ranges. *)
Follows_IgnoresSeq(prev, frame) ==   \* mutant: seq may jump
  frame.timestamp_ms > prev.timestamp_ms

Follows(prev, frame) ==
  /\ frame.timestamp_ms > prev.timestamp_ms
  /\ frame.seq = prev.seq + 1

InRange(frame) ==
  /\ ~ (frame.voltage_v # NaN /\ frame.voltage_v <= 0)
  /\ frame.temperature_c \in -80 .. 240
  /\ frame.gps_fix \in {0, 1}
  /\ frame.satellites >= 0

-------------------------------------------------------------------------------
VARIABLES
  phase,       (* "opening", "reading", "summarising", "exited"            *)
  lines,       (* history: the lines read so far                           *)
  frames,      (* frames[0 .. frame_count - 1]                             *)
  summary,     (* the summary printed; << >> for none                      *)
  exit_code    (* of the process; -1 while it runs                         *)

vars == <<phase, lines, frames, summary, exit_code>>

Init ==
  /\ phase = "opening"
  /\ lines = << >>
  /\ frames = << >>
  /\ summary = << >>
  /\ exit_code = -1

Exit(code) == phase' = "exited" /\ exit_code' = code

(* No argument, or a file that does not open. *)
CannotOpen ==
  /\ phase = "opening"
  /\ Exit(1)
  /\ UNCHANGED <<lines, frames, summary>>

Open ==
  /\ phase = "opening"
  /\ phase' = "reading"
  /\ UNCHANGED <<lines, frames, summary, exit_code>>

Reads(line) ==
  /\ phase = "reading"
  /\ Len(lines) < MaxLines
  /\ lines' = Append(lines, line)

SkipLine(line) ==
  /\ line.length = "empty"
  /\ Reads(line)
  /\ UNCHANGED <<phase, frames, summary, exit_code>>

Acceptable(line) ==
  /\ Len(frames) < MAX_FRAMES
  /\ Parses(split_line(line))
  /\ LET frame == parse_frame(split_line(line)) IN
       /\ frames # << >> => Follows(frames[Len(frames)], frame)
       /\ InRange(frame)

AcceptLine(line) ==
  /\ line.length = "fits"
  /\ Reads(line)
  /\ Acceptable(line)
  /\ frames' = Append(frames, parse_frame(split_line(line)))
  /\ UNCHANGED <<phase, summary, exit_code>>

(* The first line that is not accepted ends the program: read_frames       *)
(* returns -1.                                                             *)
RejectLine(line) ==
  /\ line.length = "fits"
  /\ Reads(line)
  /\ ~ Acceptable(line)
  /\ Exit(1)
  /\ UNCHANGED <<frames, summary>>

(* The loop over the lines is left: main reports an empty log itself.      *)
LeaveLoop ==
  /\ IF frames = << >> THEN Exit(1)
     ELSE phase' = "summarising" /\ UNCHANGED exit_code
  /\ UNCHANGED <<frames, summary>>

EndOfFile ==
  /\ phase = "reading"
  /\ LeaveLoop
  /\ UNCHANGED lines

(* A line that does not fit the buffer fails getline like the end of file. *)
OverlongLine(line) ==
  /\ line.length = "overlong"
  /\ Reads(line)
  /\ LeaveLoop

-------------------------------------------------------------------------------
(* Division of ints, which truncates towards zero. *)
Quot(a, b) == IF a >= 0 THEN a \div b ELSE - ((- a) \div b)

ElapsedMs(fs) == fs[Len(fs)].timestamp_ms - fs[1].timestamp_ms

compute_frame_rate_hz(fs) == ((Len(fs) - 1) * 1000) \div ElapsedMs(fs)

(* The loop over the frames, from the voltage it starts with: what it has  *)
(* found in the first i of them.                                           *)
Found(fs, voltage_v) ==
  LET found[i \in 0 .. Len(fs)] ==
        IF i = 0
        THEN [voltage_min |-> voltage_v, voltage_max |-> voltage_v,
              temperature_sum |-> 0, low_voltage_frames |-> 0]
        ELSE LET t == found[i - 1]
                 v == fs[i].voltage_v
             IN  [voltage_min        |-> IF Less(v, t.voltage_min) THEN v ELSE t.voltage_min,
                  voltage_max        |-> IF Less(t.voltage_max, v) THEN v ELSE t.voltage_max,
                  temperature_sum    |-> t.temperature_sum + fs[i].temperature_c,
                  low_voltage_frames |-> t.low_voltage_frames + IF Less(v, 44) THEN 1 ELSE 0]
  IN  found[Len(fs)]

SummaryOf(fs, f) ==
  [frames_total       |-> Len(fs),
   voltage_min        |-> f.voltage_min,
   voltage_max        |-> f.voltage_max,
   temperature_tenths |-> Quot(5 * f.temperature_sum, Len(fs)),
   low_voltage_frames |-> f.low_voltage_frames,
   frame_rate_hz      |-> compute_frame_rate_hz(fs)]

summarize(fs) == SummaryOf(fs, Found(fs, fs[1].voltage_v))

(* The rate of frames that took no time is an error, caught by main.       *)
NoRate ==
  /\ phase = "summarising"
  /\ ElapsedMs(frames) <= 0
  /\ Exit(1)
  /\ UNCHANGED <<lines, frames, summary>>

Summarise ==
  /\ phase = "summarising"
  /\ ElapsedMs(frames) > 0
  /\ summary' = << summarize(frames) >>
  /\ Exit(0)
  /\ UNCHANGED <<lines, frames>>

Next ==
  \/ CannotOpen \/ Open \/ EndOfFile \/ NoRate \/ Summarise
  \/ \E line \in Lines :
       SkipLine(line) \/ AcceptLine(line) \/ RejectLine(line) \/ OverlongLine(line)

Spec == Init /\ [][Next]_vars
================================================================================
