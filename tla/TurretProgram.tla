----------------------------- MODULE TurretProgram -----------------------------
(***************************************************************************)
(* The turret as it is launched: the track publisher walks the samples it  *)
(* has loaded from the directory of tracks.  When a file cannot be loaded  *)
(* the publisher's constructor throws and there is no turret to speak of.  *)
(***************************************************************************)
EXTENDS TurretProperties, TrackLoader

CONSTANTS
  TrackFile,   (* the file named by parameter track_file: "", "all" or a name *)
  Directory    (* the files in its directory, by name                     *)

ASSUME ProgramAssumption ==
  /\ \A name \in DOMAIN Directory :
       Directory[name].lines \in Seq({Skipped, BadRow} \cup {Row(s) : s \in Sample})
  /\ TrackFile = "all" =>
       \A i \in DOMAIN default_target_track_files : default_target_track_files[i] \in DOMAIN Directory
  /\ load_samples_from_parameter(TrackFile, Directory) = Loaded(Samples, FALSE)

-------------------------------------------------------------------------------
(* The drones of the files, whatever the loader puts between them: in each *)
(* file a visible row begins one when it is the first or follows a row     *)
(* that is not visible.                                                    *)
BeginsDrone(file) ==
  LET rows    == Samples_of(file.lines)
      visible == {i \in DOMAIN rows : rows[i].visible}
  IN  [n \in 1 .. Cardinality(visible) |->
         LET i == Nth(visible, n) IN i = 1 \/ ~ rows[i - 1].visible]

(* The same for all visible rows of all files, in the order of the files.  *)
DroneMarks ==
  LET Append_marks(marks, name) == marks \o BeginsDrone(Directory[name])
  IN  FoldLeft(Append_marks, << >>, default_target_track_files)

(* The sample after i samples is the first of a drone.                     *)
FirstOfDrone(i) ==
  /\ SampleAt(i).visible
  /\ DroneMarks[Cardinality({j \in 1 .. (i % Len(Samples)) + 1 : Samples[j].visible})]

(* The first sample of the next drone after sample p is the one that is    *)
(* published next.                                                         *)
ContinuesAfter(p) ==
  \E n \in 1 .. Len(Samples) :
    /\ FirstOfDrone(p + n)
    /\ \A m \in 1 .. n - 1 : ~ FirstOfDrone(p + m)
    /\ track'.next_index = Wrapped(p + n)

(* Under track:=all a drone that is shot or gets through is followed by    *)
(* the beginning of the next drone of the files, none skipped and none     *)
(* resumed half way, across the end of a file and of the last file too,    *)
(* although the status arrives some samples after the one that was shot at *)
(* (target_track_loader.hpp:143-169, target_sequence.hpp:50-77,            *)
(* target_track_simulation.hpp:59-70, 85-93).                              *)
NextTrackFollows ==
  [][/\ publish_next_target /\ ~ track'.has_published_sample
          => ContinuesAfter(track.next_index)
     /\ PublisherReceivesStatus /\ ended' > ended
          => ContinuesAfter(track.next_index - 1)]_vars
================================================================================
