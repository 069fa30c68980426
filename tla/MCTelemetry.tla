------------------------------- MODULE MCTelemetry -------------------------------
EXTENDS TelemetryProperties

Fits(fields) == [length |-> "fits", fields |-> fields, trailing |-> FALSE]

(* A line of seven fields: time, seq, voltage, current, temperature, fix, satellites. *)
Log(t, seq, v, temp, gps, sats) ==
  Fits(<< Whole(t), seq, v, Decimal(7), temp, gps, sats >>)

Good(t, n) == Log(t, Whole(n), Decimal(49), Whole(41), Whole(1), Whole(14))

(* One of each way a line can go right or wrong; ints are of six bits.     *)
MCLines ==
  {Good(0, 1), Good(100, 2), Good(2300, 3), Good(900, 1), Good(0, 3), Good(150, 66),
   Log(1000, Whole(3), Whole(21), Decimal(-81), Whole(0), Whole(0)),
   Log(1000, Whole(3), Whole(22), Decimal(-79), Whole(65), Whole(0)),
   Log(0, Whole(1), NotANumber, Whole(-40), Whole(1), Whole(3)),
   Log(200, Whole(2), NotANumber, Whole(120), Whole(1), Whole(3)),
   Log(300, Whole(2), Decimal(43), Decimal(-79), Whole(1), Whole(64)),
   Log(0, Whole(1), Whole(0), Whole(41), Whole(1), Whole(14)),
   Log(100, Whole(2), Whole(24), Decimal(241), Whole(1), Whole(14)),
   Log(100, Whole(2), Whole(24), Whole(41), Whole(2), Whole(14)),
   Log(100, Whole(2), Whole(24), Whole(41), Whole(1), Whole(-1)),
   Log(100, Decimal(4), Whole(24), Whole(41), Whole(1), Whole(14)),
   Log(100, Whole(2), Text, Whole(41), Whole(1), Whole(14)),
   [Good(100, 2) EXCEPT !.fields = SubSeq(@, 1, 6)],
   [Good(100, 2) EXCEPT !.fields = Append(@, Whole(7))],
   [Good(100, 2) EXCEPT !.trailing = TRUE],
   Fits(<< >>),
   [Fits(<< >>) EXCEPT !.length = "empty"],
   [Fits(<< Text >>) EXCEPT !.length = "overlong"]}
================================================================================
