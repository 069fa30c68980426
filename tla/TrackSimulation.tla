---------------------------- MODULE TrackSimulation ----------------------------
(***************************************************************************)
(* The recorded tracks the turret is exercised with: class TargetSequence, *)
(* a cyclic walk over samples, and class TargetTrackSimulation, which ends *)
(* a track early when its drone was hit or got through.  As in WorldModel  *)
(* an object is a record t and a method an operator on it.                 *)
(*                                                                         *)
(* Of a sample only what is compared with a threshold is kept: whether it  *)
(* is visible, whether its confidence reaches the threshold and in which   *)
(* range it is.  Controller and simulation use the same thresholds.        *)
(***************************************************************************)
EXTENDS Integers, Sequences, FiniteSets

CONSTANTS
  Samples,          (* the samples in the order they are published        *)
  RepeatSequence    (* parameter repeat_sequence                          *)

Sample == [visible : BOOLEAN, confident : BOOLEAN, range : {"far", "near", "impact"}]

ASSUME SamplesAssumption ==
  /\ Samples \in Seq(Sample)
  /\ Samples # << >>
  /\ RepeatSequence \in BOOLEAN

(* next_index_ only matters modulo the size while the sequence repeats. *)
Wrapped(i) == IF RepeatSequence THEN i % Len(Samples) ELSE i

SampleAt(i) == Samples[(i % Len(Samples)) + 1]

finished(i) == ~ RepeatSequence /\ i >= Len(Samples)

(* The first visible sample behind the next gap within one lap; without    *)
(* one, the same place one lap later.                                      *)
skip_to_next_track_AnyVisible(i) ==   \* mutant: passed_gap is not required
  LET stop == i + Len(Samples)
      next == {j \in i .. stop - 1 : SampleAt(j).visible}
  IN  IF next = {} THEN stop ELSE CHOOSE j \in next : \A k \in next : j <= k

skip_to_next_track(i) ==
  LET stop == i + Len(Samples)
      next == {j \in i .. stop - 1 :
                 SampleAt(j).visible /\ \E g \in i .. j - 1 : ~ SampleAt(g).visible}
  IN  IF next = {} THEN stop ELSE CHOOSE j \in next : \A k \in next : j <= k

-------------------------------------------------------------------------------
TrackState == [next_index           : Nat,
               actuator_ready       : BOOLEAN,
               has_published_sample : BOOLEAN,
               hit_window_open      : BOOLEAN,
               last_trigger_count   : Nat]

NewTrack ==
  [next_index           |-> 0,
   actuator_ready       |-> TRUE,
   has_published_sample |-> FALSE,
   hit_window_open      |-> FALSE,
   last_trigger_count   |-> 0]

TrackEnded_StillOpen(t) ==   \* mutant: the hit window is not closed
  [t EXCEPT !.next_index           = Wrapped(skip_to_next_track(@)),
            !.has_published_sample = FALSE]

(* The current track is over. *)
TrackEnded(t) ==
  [t EXCEPT !.next_index           = Wrapped(skip_to_next_track(@)),
            !.has_published_sample = FALSE,
            !.hit_window_open      = FALSE]

Targetable(s) == s.visible /\ s.confident /\ s.range # "far"

(* A drone at the protected zone, as far as the simulation knows while the *)
(* actuator is reloading.                                                  *)
ReachedProtectedZone(t) ==
  /\ SampleAt(t.next_index).visible
  /\ SampleAt(t.next_index).range = "impact"
  /\ ~ t.actuator_ready

(* next_target: the sample it returns is SampleAt(t.next_index). *)
next_target(t) ==
  LET s == SampleAt(t.next_index)
      published ==
        [t EXCEPT !.next_index           = Wrapped(@ + 1),
                  !.has_published_sample = TRUE,
                  !.hit_window_open      = s.visible /\ (@ \/ Targetable(s))]
  IN  IF ReachedProtectedZone(t) THEN TrackEnded(published) ELSE published

(* A status that counts a new trigger ends the track whose hit window is   *)
(* open.                                                                   *)
EndsTrack(t, trigger_count) ==
  /\ trigger_count > t.last_trigger_count
  /\ t.has_published_sample
  /\ t.hit_window_open

apply_actuator_status_ForgetsCount(t, ready, trigger_count) ==   \* mutant: last_trigger_count_ stays
  LET told == [t EXCEPT !.actuator_ready = ready]
  IN  IF EndsTrack(t, trigger_count) THEN TrackEnded(told) ELSE told

apply_actuator_status(t, ready, trigger_count) ==
  LET told == [t EXCEPT !.actuator_ready = ready,
                        !.last_trigger_count =
                           IF trigger_count > @ THEN trigger_count ELSE @]
  IN  IF EndsTrack(t, trigger_count) THEN TrackEnded(told) ELSE told
================================================================================
