------------------------------ MODULE TrackLoader ------------------------------
(***************************************************************************)
(* How the track publisher gets its samples: target_track_loader.hpp and   *)
(* load_samples_from_parameter.  A file is whether it opens and its lines; *)
(* of a line only what the loader makes of it is kept: one it skips (a     *)
(* comment, a blank line, anything that mentions "visible"), a bad row     *)
(* (not five columns, or a value that does not parse) or a sample.         *)
(***************************************************************************)
EXTENDS Integers, Sequences, SequencesExt

Skipped == [kind |-> "skipped"]
BadRow  == [kind |-> "bad"]
Row(s)  == [kind |-> "row", sample |-> s]

Loaded(samples, error) == [samples |-> samples, error |-> error]

Gap == [visible |-> FALSE, confident |-> FALSE, range |-> "impact"]

(* The n-th smallest number of a set. *)
Nth(S, n) == CHOOSE i \in S : Cardinality({j \in S : j <= i}) = n

(* The samples of the rows among some lines. *)
Samples_of(lines) ==
  LET rows == {i \in DOMAIN lines : lines[i].kind = "row"}
  IN  [n \in 1 .. Cardinality(rows) |-> lines[Nth(rows, n)].sample]

(* The first bad row ends the reading; so does a file without samples.     *)
load_target_track_csv(file) ==
  LET bad  == {i \in DOMAIN file.lines : file.lines[i].kind = "bad"}
      read == IF bad = {} THEN Samples_of(file.lines)
              ELSE Samples_of(SubSeq(file.lines, 1, Min(bad) - 1))
  IN  IF ~ file.opens THEN Loaded(<< >>, TRUE)
      ELSE Loaded(read, bad # {} \/ read = << >>)

append_track_gap_Never(samples) == samples   \* mutant: files are not separated

append_track_gap(samples) ==
  IF samples # << >> /\ samples[Len(samples)].visible THEN Append(samples, Gap) ELSE samples

(* All files one after the other, or nothing: one that fails fails all.    *)
load_target_track_csv_files(directory, file_names) ==
  LET Append_file(combined, name) ==
        append_track_gap(combined \o load_target_track_csv(directory[name]).samples)
      failed == \E i \in DOMAIN file_names : load_target_track_csv(directory[file_names[i]]).error
  IN  IF failed THEN Loaded(<< >>, TRUE)
      ELSE Loaded(FoldLeft(Append_file, << >>, file_names), file_names = << >>)

default_target_track_files ==
  << "approach_trigger", "far_flyby_no_trigger", "low_confidence_no_trigger", "reload_pressure" >>

(* The built-in track, for an empty track_file: one drone, no gap.         *)
default_target_samples ==
  LET Seen(confident, range) == [visible |-> TRUE, confident |-> confident, range |-> range]
  IN  << Seen(FALSE, "far"), Seen(TRUE, "far"), Seen(TRUE, "far"), Seen(TRUE, "far"),
         Seen(TRUE, "near"), Seen(TRUE, "near") >>

(* An error is thrown out of the node's constructor.                       *)
load_samples_from_parameter(track_file, directory) ==
  CASE track_file = ""    -> Loaded(default_target_samples, FALSE)
    [] track_file = "all" -> load_target_track_csv_files(directory, default_target_track_files)
    [] OTHER              -> load_target_track_csv(directory[track_file])
================================================================================
