-------------------------------- MODULE MCTurret --------------------------------
EXTENDS TurretProgram

Seen(confident, range) == Row([visible |-> TRUE, confident |-> confident, range |-> range])
Away == Row(Gap)

File(lines) == [opens |-> TRUE, lines |-> << Skipped >> \o lines]

(* The provided tracks, a few rows of each: two drones on their way in; one *)
(* that stays far; one not recognised, and its gap; and reload_pressure's   *)
(* three, of which the second comes through.  Three of the files end with   *)
(* their drone in sight.                                                    *)
Tracks ==
  [approach_trigger          |->
     File(<< Seen(TRUE, "near"), Away, Seen(FALSE, "far"), Seen(TRUE, "near") >>),
   far_flyby_no_trigger      |-> File(<< Seen(TRUE, "far") >>),
   low_confidence_no_trigger |-> File(<< Seen(FALSE, "near"), Away >>),
   reload_pressure           |->
     File(<< Seen(TRUE, "near"), Away, Seen(TRUE, "near"), Seen(TRUE, "impact"), Away,
             Skipped, Seen(TRUE, "near") >>)]

(* TLC keeps the value of a definition, not that of a substituted constant. *)
AllLoaded       == load_samples_from_parameter("all", Tracks).samples
ApproachLoaded  == load_samples_from_parameter("approach_trigger", Tracks).samples
AllSamples      == AllLoaded
ApproachSamples == ApproachLoaded
================================================================================
