----------------------------- MODULE Turret_proofs -----------------------------
(***************************************************************************)
(* The turret for every sequence of samples and every bound: a shot ends   *)
(* at most one drone, stale views of the actuator are on their way to      *)
(* being corrected, and under track:=all the next drone of the files comes *)
(* after each, whatever the files hold.                                    *)
(***************************************************************************)
EXTENDS TurretProgram, WellFoundedInduction, SequenceTheorems,
        FiniteSetTheorems, TLAPS

-------------------------------------------------------------------------------
(* The recorded tracks. *)

(* A non-empty set of numbers has a least one. *)
LEMMA Least ==
  ASSUME NEW T, T \subseteq Nat, T # {}
  PROVE  \E j \in T : \A k \in T : j <= k
<1>1. PICK j \in T : \A k \in T : ~ (<<k, j>> \in OpToRel(<, Nat))
  BY WFMin, NatLessThanWellFounded
<1>2. OpToRel(<, Nat) = {ss \in Nat \X Nat : ss[1] < ss[2]}
  BY DEF OpToRel
<1>3. ASSUME NEW k \in T  PROVE j <= k
  <2>1. ~ (<<k, j>> \in {ss \in Nat \X Nat : ss[1] < ss[2]})
    BY <1>1, <1>2
  <2>2. QED  BY <2>1
<1>4. QED  BY <1>3

(* There is at least one sample. *)
LEMMA SamplesFacts == Samples \in Seq(Sample) /\ Len(Samples) \in Nat \ {0}
BY SamplesAssumption

(* An index stays a number. *)
LEMMA IndexType ==
  ASSUME NEW i \in Nat
  PROVE  Wrapped(i) \in Nat /\ skip_to_next_track(i) \in Nat /\ SampleAt(i) \in Sample
<1>1. i % Len(Samples) \in 0 .. Len(Samples) - 1
  BY SamplesFacts
<1>2. Wrapped(i) \in Nat
  BY <1>1 DEF Wrapped
<1>3. SampleAt(i) \in Sample
  <2>1. (i % Len(Samples)) + 1 \in 1 .. Len(Samples)
    BY <1>1, SamplesFacts
  <2>2. QED  BY <2>1, SamplesFacts DEF SampleAt
<1>4. skip_to_next_track(i) \in Nat
  <2> DEFINE stop == i + Len(Samples)
             next == {j \in i .. stop - 1 :
                        SampleAt(j).visible /\ \E g \in i .. j - 1 : ~ SampleAt(g).visible}
  <2>1. stop \in Nat /\ next \subseteq Nat
    BY SamplesFacts
  <2>2. CASE next = {}
    BY <2>1, <2>2 DEF skip_to_next_track
  <2>3. CASE next # {}
    <3>1. \E j \in next : \A k \in next : j <= k
      BY <2>1, <2>3, Least
    <3>2. (CHOOSE j \in next : \A k \in next : j <= k) \in next
      BY <3>1
    <3>3. skip_to_next_track(i) = CHOOSE j \in next : \A k \in next : j <= k
      BY <2>3 DEF skip_to_next_track
    <3>4. QED  BY <2>1, <3>2, <3>3
  <2>4. QED  BY <2>2, <2>3
<1>5. QED  BY <1>2, <1>3, <1>4

(* The parts of the invariant that concern the track alone. *)
GoodTrack(t) == t \in TrackState /\ (t.hit_window_open => t.has_published_sample)

(* Ending a track changes nothing the actuator told. *)
LEMMA TrackEndedFacts ==
  ASSUME NEW t \in TrackState
  PROVE  /\ GoodTrack(TrackEnded(t))
         /\ TrackEnded(t).actuator_ready = t.actuator_ready
         /\ TrackEnded(t).last_trigger_count = t.last_trigger_count
<1>1. Wrapped(skip_to_next_track(t.next_index)) \in Nat
  BY IndexType DEF TrackState
<1>2. QED  BY <1>1 DEF GoodTrack, TrackEnded, TrackState

(* Neither does publishing a sample. *)
LEMMA NextTargetFacts ==
  ASSUME NEW t \in TrackState
  PROVE  /\ GoodTrack(next_target(t))
         /\ next_target(t).actuator_ready = t.actuator_ready
         /\ next_target(t).last_trigger_count = t.last_trigger_count
<1> DEFINE s == SampleAt(t.next_index)
           published ==
             [t EXCEPT !.next_index           = Wrapped(@ + 1),
                       !.has_published_sample = TRUE,
                       !.hit_window_open      = s.visible /\ (@ \/ Targetable(s))]
<1>1. s \in Sample /\ Wrapped(t.next_index + 1) \in Nat
  BY IndexType DEF TrackState
<1>2. (s.visible /\ (t.hit_window_open \/ Targetable(s))) \in BOOLEAN
  BY <1>1
<1>3. /\ published \in TrackState
      /\ published.actuator_ready = t.actuator_ready
      /\ published.last_trigger_count = t.last_trigger_count
      /\ published.has_published_sample
  BY <1>1, <1>2 DEF TrackState
<1>4. next_target(t) = IF ReachedProtectedZone(t) THEN TrackEnded(published) ELSE published
  BY DEF next_target
<1> HIDE DEF published
<1>5. QED  BY <1>3, <1>4, TrackEndedFacts DEF GoodTrack

(* A status is remembered, the highest count for ever. *)
LEMMA StatusFacts ==
  ASSUME NEW t \in TrackState, GoodTrack(t), NEW r \in BOOLEAN, NEW n \in Nat
  PROVE  /\ GoodTrack(apply_actuator_status(t, r, n))
         /\ apply_actuator_status(t, r, n).actuator_ready = r
         /\ apply_actuator_status(t, r, n).last_trigger_count
              = IF n > t.last_trigger_count THEN n ELSE t.last_trigger_count
<1> DEFINE told == [t EXCEPT !.actuator_ready = r,
                             !.last_trigger_count = IF n > @ THEN n ELSE @]
<1>1. (IF n > t.last_trigger_count THEN n ELSE t.last_trigger_count) \in Nat
  BY DEF TrackState
<1>2. /\ told \in TrackState
      /\ told.actuator_ready = r
      /\ told.last_trigger_count = IF n > t.last_trigger_count THEN n ELSE t.last_trigger_count
      /\ told.has_published_sample = t.has_published_sample
      /\ told.hit_window_open = t.hit_window_open
  BY <1>1 DEF TrackState
<1>3. apply_actuator_status(t, r, n) = IF EndsTrack(t, n) THEN TrackEnded(told) ELSE told
  BY DEF apply_actuator_status
<1> HIDE DEF told
<1>4. QED  BY <1>2, <1>3, TrackEndedFacts DEF GoodTrack

-------------------------------------------------------------------------------
(* The topics of the status. *)

(* The messages of q have counts in order, none outside lo .. hi. *)
InOrder(q, lo, hi) ==
  /\ \A i \in DOMAIN q : q[i].count \in lo .. hi
  /\ \A i, j \in DOMAIN q : i < j => q[i].count <= q[j].count

(* Publishing the present state keeps the order, and on a link that has    *)
(* been discovered it decides what the subscriber will believe.            *)
LEMMA PublishFacts ==
  ASSUME NEW q \in Seq(StatusMessage), NEW l, NEW s \in StatusMessage,
         NEW lo \in Nat, NEW hi \in Nat, hi <= s.count, lo <= hi
  PROVE  /\ Publish(q, l, s) \in Seq(StatusMessage)
         /\ InOrder(q, lo, hi) => InOrder(Publish(q, l, s), lo, s.count)
         /\ \A view : EventualView(view, Publish(q, l, s))
                         = IF l \in links THEN s.ready ELSE EventualView(view, q)
         /\ l \notin links => Publish(q, l, s) = q
<1>1. CASE l \notin links
  BY <1>1 DEF Publish, InOrder, StatusMessage
<1>2. CASE l \in links
  <2> DEFINE r == Append(q, s)
  <2>1. Publish(q, l, s) = r
    BY <1>2 DEF Publish
  <2>2. /\ r \in Seq(StatusMessage) /\ Len(r) = Len(q) + 1 /\ Len(q) \in Nat
        /\ DOMAIN r = 1 .. Len(q) + 1 /\ DOMAIN q = 1 .. Len(q)
        /\ \A i \in 1 .. Len(q) : r[i] = q[i]
        /\ r[Len(q) + 1] = s
    OBVIOUS
  <2>3. s.count \in Nat
    BY DEF StatusMessage
  <2> HIDE DEF r
  <2>4. ASSUME InOrder(q, lo, hi)
        PROVE  \A i \in DOMAIN r : r[i].count \in lo .. s.count
    BY <2>4, <2>2, <2>3 DEF InOrder
  <2>5. ASSUME InOrder(q, lo, hi),
               NEW i \in DOMAIN r, NEW j \in DOMAIN r, i < j
        PROVE  r[i].count <= r[j].count
    <3>1. i \in DOMAIN q
      BY <2>2, <2>5
    <3>2. CASE j \in DOMAIN q
      BY <2>2, <2>5, <3>1, <3>2 DEF InOrder
    <3>3. CASE j = Len(q) + 1
      BY <2>2, <2>3, <2>5, <3>1, <3>3 DEF InOrder
    <3>4. QED  BY <2>2, <3>2, <3>3
  <2>6. r # << >>
    BY <2>2
  <2>7. QED  BY <1>2, <2>1, <2>2, <2>4, <2>5, <2>6 DEF InOrder, EventualView
<1>3. QED  BY <1>1, <1>2

(* Receiving a message does not change what will be believed in the end,   *)
(* and those behind it have counts at least as high.                       *)
LEMMA ReceiveFacts ==
  ASSUME NEW q \in Seq(StatusMessage), q # << >>,
         NEW lo \in Nat, NEW hi \in Nat
  PROVE  /\ Head(q) \in StatusMessage /\ Tail(q) \in Seq(StatusMessage)
         /\ InOrder(q, lo, hi) => /\ Head(q).count \in lo .. hi
                                  /\ InOrder(Tail(q), Head(q).count, hi)
         /\ \A view : EventualView(Head(q).ready, Tail(q)) = EventualView(view, q)
<1> DEFINE r == Tail(q)
<1>1. /\ Head(q) = q[1] /\ 1 \in DOMAIN q /\ Len(q) \in Nat \ {0}
      /\ DOMAIN q = 1 .. Len(q)
      /\ q[1] \in StatusMessage
  OBVIOUS
<1>2. /\ r \in Seq(StatusMessage) /\ Len(r) = Len(q) - 1
      /\ DOMAIN r = 1 .. Len(q) - 1
      /\ \A i \in 1 .. Len(q) - 1 : r[i] = q[i + 1]
  OBVIOUS
<1> HIDE DEF r
<1>3. ASSUME InOrder(q, lo, hi)  PROVE InOrder(r, q[1].count, hi)
  <2>1. \A i \in DOMAIN r : /\ i + 1 \in DOMAIN q /\ i \in Int /\ 1 < i + 1
                            /\ r[i] = q[i + 1]
    BY <1>1, <1>2
  <2>2. \A i \in DOMAIN r : r[i].count \in q[1].count .. hi
    BY <1>1, <1>3, <2>1 DEF InOrder
  <2>3. \A i, j \in DOMAIN r : i < j => r[i].count <= r[j].count
    <3> SUFFICES ASSUME NEW i \in DOMAIN r, NEW j \in DOMAIN r, i < j
                 PROVE  r[i].count <= r[j].count
      OBVIOUS
    <3>1. i + 1 < j + 1
      BY <2>1
    <3>2. QED  BY <1>3, <2>1, <3>1 DEF InOrder
  <2>4. QED  BY <2>2, <2>3 DEF InOrder
<1>4. ASSUME NEW view
      PROVE  EventualView(q[1].ready, r) = EventualView(view, q)
  <2>1. CASE Len(q) = 1
    <3>1. r = << >>
      BY <1>2, <2>1
    <3>2. QED  BY <1>1, <2>1, <3>1 DEF EventualView
  <2>2. CASE Len(q) > 1
    <3>1. r # << >> /\ r[Len(r)] = q[Len(q)]
      BY <1>1, <1>2, <2>2
    <3>2. QED  BY <1>1, <3>1 DEF EventualView
  <2>3. QED  BY <1>1, <2>1, <2>2
<1>5. InOrder(q, lo, hi) => q[1].count \in lo .. hi
  BY <1>1 DEF InOrder
<1>6. QED  BY <1>1, <1>2, <1>3, <1>4, <1>5 DEF r

-------------------------------------------------------------------------------
(* The inductive invariant. *)

(* Nothing arrives on a link before it is discovered: the publisher then   *)
(* takes the actuator for ready, and the controller, once it has sent a    *)
(* request, for reloading.                                                 *)
Undiscovered ==
  /\ "controller_status" \notin links =>
       controller_status = << >> /\ (requests > 0 => actuator_state = "RELOADING")
  /\ "publisher_status" \notin links =>
       publisher_status = << >> /\ track.actuator_ready

IInv == TypeOK /\ HitsAreShots /\ StaleViewsAreCorrected /\ Undiscovered

LEMMA BoundsFacts == MaxTriggers \in Nat \ {0} /\ MaxInFlight \in Nat \ {0}
BY BoundsAssumption

LEMMA InitIInv == Init => IInv
<1> SUFFICES ASSUME Init PROVE IInv
  OBVIOUS
<1> USE BoundsFacts DEF Init, ControllerInit, ActuatorInit
<1>1. NewTrack \in TrackState /\ ~ NewTrack.hit_window_open
      /\ NewTrack.actuator_ready /\ NewTrack.last_trigger_count = 0
  BY DEF NewTrack, TrackState
<1>2. TypeOK
  <2>1. target_topic \in Seq(Sample) /\ controller_status \in Seq(StatusMessage)
        /\ publisher_status \in Seq(StatusMessage)
    BY EmptySeq
  <2>2. actuator_state \in ActuatorState /\ ready \in BOOLEAN /\ reload_timer = ~ ready
    BY DEF ActuatorState
  <2>3. trigger_count \in 0 .. MaxTriggers /\ requests \in Nat /\ ended \in Nat
        /\ links \in SUBSET Links
    OBVIOUS
  <2>4. QED  BY <1>1, <2>1, <2>2, <2>3 DEF TypeOK
<1>3. HitsAreShots
  BY <1>1 DEF HitsAreShots
<1>4. StaleViewsAreCorrected
  BY <1>1 DEF StaleViewsAreCorrected, EventualView
<1>5. Undiscovered
  BY <1>1 DEF Undiscovered
<1>6. QED  BY <1>2, <1>3, <1>4, <1>5 DEF IInv

(* The order of HitsAreShots, as the lemmas above state it. *)
LEMMA HitsFacts ==
  ASSUME TypeOK
  PROVE  HitsAreShots <=> /\ ended <= track.last_trigger_count
                          /\ track.last_trigger_count <= trigger_count
                          /\ InOrder(publisher_status, track.last_trigger_count, trigger_count)
BY DEF HitsAreShots, InOrder

(* A step of the actuator ends with publish_status.                        *)
LEMMA ActuatorPublishes ==
  ASSUME IInv, publish_status, ready' \in BOOLEAN, reload_timer' = ~ ready',
         trigger_count' \in trigger_count .. MaxTriggers,
         requests' \in Nat, requests' <= requests,
         ~ ready' => ~ ready \/ requests > 0,
         UNCHANGED <<actuator_state, track, target_topic, links, ended>>
  PROVE  IInv'
<1> DEFINE s  == [ready |-> ready', count |-> trigger_count']
           lo == track.last_trigger_count
<1>1. /\ trigger_count \in Nat /\ trigger_count' \in Nat /\ trigger_count <= trigger_count'
      /\ s \in StatusMessage /\ lo \in Nat /\ lo <= trigger_count
      /\ InOrder(publisher_status, lo, trigger_count)
  BY BoundsFacts, HitsFacts DEF IInv, TypeOK, StatusMessage, TrackState
<1>2. /\ controller_status' = Publish(controller_status, "controller_status", s)
      /\ publisher_status' = Publish(publisher_status, "publisher_status", s)
  BY DEF publish_status, CurrentStatus
<1> HIDE DEF s, lo
<1>3. s.ready = ready' /\ s.count = trigger_count'
  BY DEF s
<1>4. controller_status \in Seq(StatusMessage) /\ publisher_status \in Seq(StatusMessage)
  BY DEF IInv, TypeOK
<1>5. /\ controller_status' \in Seq(StatusMessage)
      /\ \A view : EventualView(view, controller_status')
            = IF "controller_status" \in links THEN ready' ELSE EventualView(view, controller_status)
      /\ "controller_status" \notin links => controller_status' = controller_status
  BY <1>1, <1>2, <1>3, <1>4, PublishFacts
<1>6. /\ publisher_status' \in Seq(StatusMessage)
      /\ InOrder(publisher_status', lo, trigger_count')
      /\ \A view : EventualView(view, publisher_status')
            = IF "publisher_status" \in links THEN ready' ELSE EventualView(view, publisher_status)
      /\ "publisher_status" \notin links => publisher_status' = publisher_status
  BY <1>1, <1>2, <1>3, <1>4, PublishFacts
<1>7. TypeOK'
  BY <1>1, <1>5, <1>6, BoundsFacts DEF IInv, TypeOK
<1>8. HitsAreShots'
  <2>1. ended' <= track'.last_trigger_count /\ track'.last_trigger_count <= trigger_count'
    BY <1>1 DEF IInv, HitsAreShots, TypeOK, lo
  <2>2. QED  BY <1>6, <2>1 DEF HitsAreShots, InOrder, lo
<1>9. Undiscovered'
  BY <1>5, <1>6 DEF IInv, Undiscovered, TypeOK
<1>10. StaleViewsAreCorrected'
  <2>1. ~ ready' => ~ EventualView(actuator_state' = "READY", controller_status')
    <3>1. CASE "controller_status" \in links
      BY <1>5, <3>1
    <3>2. CASE "controller_status" \notin links
      <4>1. ~ ready' => ~ EventualView(actuator_state = "READY", controller_status)
        <5>1. CASE requests > 0
          BY <3>2, <5>1 DEF IInv, Undiscovered, EventualView
        <5>2. CASE ~ ready
          BY <5>2 DEF IInv, StaleViewsAreCorrected
        <5>3. QED  BY <5>1, <5>2
      <4>2. QED  BY <1>5, <3>2, <4>1
    <3>3. QED  BY <3>1, <3>2
  <2>2. ready' => EventualView(track'.actuator_ready, publisher_status')
    <3>1. CASE "publisher_status" \in links
      BY <1>6, <3>1
    <3>2. CASE "publisher_status" \notin links
      BY <1>6, <3>2 DEF IInv, Undiscovered, EventualView
    <3>3. QED  BY <3>1, <3>2
  <2>3. QED  BY <2>1, <2>2 DEF StaleViewsAreCorrected
<1>11. QED  BY <1>7, <1>8, <1>9, <1>10 DEF IInv

LEMMA ActuatorStep ==
  ASSUME IInv, ActuatorAccepts \/ ActuatorReloaded \/ StatusTick
  PROVE  IInv'
<1>1. trigger_count \in 0 .. MaxTriggers /\ requests \in Nat /\ reload_timer = ~ ready
      /\ ready \in BOOLEAN
  BY DEF IInv, TypeOK
<1>2. CASE ActuatorAccepts
  <2>1. trigger_count' \in trigger_count .. MaxTriggers
    BY <1>1, <1>2, BoundsFacts DEF ActuatorAccepts, AcceptTrigger
  <2>2. requests' \in Nat /\ requests' <= requests /\ requests > 0
    BY <1>1, <1>2 DEF ActuatorAccepts
  <2>3. ready' \in BOOLEAN /\ reload_timer' = ~ ready'
    BY <1>2 DEF ActuatorAccepts, AcceptTrigger
  <2>4. QED  BY <1>2, <2>1, <2>2, <2>3, ActuatorPublishes DEF ActuatorAccepts
<1>3. CASE ActuatorReloaded
  <2>1. trigger_count' \in trigger_count .. MaxTriggers
    BY <1>1, <1>3, BoundsFacts DEF ActuatorReloaded, Reloaded
  <2>2. ready' = TRUE /\ reload_timer' = FALSE /\ requests' = requests
    BY <1>3 DEF ActuatorReloaded, Reloaded
  <2>3. requests' \in Nat /\ requests' <= requests
    BY <1>1, <2>2
  <2>4. ready' \in BOOLEAN /\ reload_timer' = ~ ready' /\ ready'
    BY <2>2
  <2>5. QED  BY <1>3, <2>1, <2>3, <2>4, ActuatorPublishes DEF ActuatorReloaded
<1>4. CASE StatusTick
  <2>1. trigger_count' \in trigger_count .. MaxTriggers
    BY <1>1, <1>4, BoundsFacts DEF StatusTick, actuatorVars
  <2>2. ready' = ready /\ reload_timer' = reload_timer /\ requests' = requests
    BY <1>4 DEF StatusTick, actuatorVars
  <2>3. requests' \in Nat /\ requests' <= requests
    BY <1>1, <2>2
  <2>4. ready' \in BOOLEAN /\ reload_timer' = ~ ready' /\ (~ ready' => ~ ready)
    BY <1>1, <2>2
  <2>5. QED  BY <1>4, <2>1, <2>3, <2>4, ActuatorPublishes DEF StatusTick
<1>5. QED  BY <1>2, <1>3, <1>4

(* Publishing a sample leaves the publisher's view of the actuator alone.  *)
LEMMA TargetStep ==
  ASSUME IInv, publish_next_target
  PROVE  IInv'
<1> USE DEF publish_next_target, actuatorVars
<1>1. track \in TrackState
  BY DEF IInv, TypeOK
<1>2. /\ GoodTrack(track') /\ track'.actuator_ready = track.actuator_ready
      /\ track'.last_trigger_count = track.last_trigger_count
  BY <1>1, NextTargetFacts
<1>3. target_topic' \in Seq(Sample)
  <2>1. SampleAt(track.next_index) \in Sample /\ target_topic \in Seq(Sample)
    BY <1>1, IndexType DEF IInv, TypeOK, TrackState
  <2>2. QED  BY <2>1, AppendProperties DEF Publish
<1>4. TypeOK'
  BY <1>2, <1>3 DEF IInv, TypeOK, GoodTrack
<1>5. HitsAreShots'
  BY <1>2 DEF IInv, HitsAreShots
<1>6. StaleViewsAreCorrected' /\ Undiscovered'
  BY <1>2 DEF IInv, StaleViewsAreCorrected, Undiscovered, EventualView
<1>7. QED  BY <1>4, <1>5, <1>6 DEF IInv

(* After a status its count is the one remembered: a track it ended is     *)
(* paid for by the counts in between.                                      *)
LEMMA PublisherStep ==
  ASSUME IInv, PublisherReceivesStatus
  PROVE  IInv'
<1> DEFINE q == publisher_status
           s == Head(q)
           lo == track.last_trigger_count
<1> USE DEF PublisherReceivesStatus, actuatorVars
<1>1. /\ q \in Seq(StatusMessage) /\ q # << >> /\ track \in TrackState /\ GoodTrack(track)
      /\ lo \in Nat /\ trigger_count \in Nat /\ lo <= trigger_count
      /\ ended \in Nat /\ ended <= lo
      /\ InOrder(q, lo, trigger_count)
  BY BoundsFacts, HitsFacts DEF IInv, TypeOK, GoodTrack, TrackState
<1>2. /\ s \in StatusMessage /\ s.count \in lo .. trigger_count
      /\ Tail(q) \in Seq(StatusMessage) /\ InOrder(Tail(q), s.count, trigger_count)
      /\ \A view : EventualView(s.ready, Tail(q)) = EventualView(view, q)
  BY <1>1, ReceiveFacts
<1>3. s.ready \in BOOLEAN /\ s.count \in Nat
  BY <1>2 DEF StatusMessage
<1>4. /\ track' = apply_actuator_status(track, s.ready, s.count)
      /\ ended' = IF EndsTrack(track, s.count) THEN ended + 1 ELSE ended
      /\ publisher_status' = Tail(q)
  OBVIOUS
<1>5. /\ GoodTrack(track') /\ track'.actuator_ready = s.ready
      /\ track'.last_trigger_count = IF s.count > lo THEN s.count ELSE lo
  BY <1>1, <1>3, <1>4, StatusFacts
<1> HIDE DEF s, q, lo
<1>6. track'.last_trigger_count = s.count
  BY <1>1, <1>2, <1>3, <1>5
<1>7. ended' \in Nat /\ ended' <= s.count
  BY <1>1, <1>2, <1>3, <1>4 DEF EndsTrack, lo
<1>8. TypeOK'
  BY <1>2, <1>4, <1>5, <1>7 DEF IInv, TypeOK, GoodTrack
<1>9. HitsAreShots'
  <2>1. track'.last_trigger_count <= trigger_count' /\ trigger_count' = trigger_count
    BY <1>1, <1>2, <1>6
  <2>2. QED  BY <1>2, <1>4, <1>6, <1>7, <2>1 DEF HitsAreShots, InOrder
<1>10. StaleViewsAreCorrected'
  BY <1>2, <1>4, <1>5 DEF IInv, StaleViewsAreCorrected, EventualView, q
<1>11. Undiscovered'
  BY <1>1, <1>4 DEF IInv, Undiscovered, q
<1>12. QED  BY <1>8, <1>9, <1>10, <1>11 DEF IInv

(* The controller: a request makes it wait, a status overwrites its view.  *)
LEMMA ControllerStep ==
  ASSUME IInv, ControllerObserves \/ ControllerRequests \/ ControllerReceivesStatus
  PROVE  IInv'
<1> USE DEF actuatorVars
<1>1. target_topic \in Seq(Sample) /\ requests \in Nat
      /\ controller_status \in Seq(StatusMessage) /\ actuator_state \in ActuatorState
  BY DEF IInv, TypeOK
<1>2. target_topic # << >> => Tail(target_topic) \in Seq(Sample)
  BY <1>1
<1>3. CASE ControllerObserves
  <2>1. target_topic' \in Seq(Sample) /\ actuator_state' = actuator_state
        /\ UNCHANGED <<actuatorVars, track, controller_status, publisher_status, requests, links, ended>>
    BY <1>2, <1>3 DEF ControllerObserves, ObserveTarget
  <2>2. TypeOK'
    BY <2>1 DEF IInv, TypeOK
  <2>3. HitsAreShots' /\ StaleViewsAreCorrected' /\ Undiscovered'
    BY <2>1 DEF IInv, HitsAreShots, StaleViewsAreCorrected, Undiscovered, EventualView
  <2>4. QED  BY <2>2, <2>3 DEF IInv
<1>4. CASE ControllerRequests
  <2>1. target_topic' \in Seq(Sample) /\ actuator_state' = "RELOADING" /\ requests' = requests + 1
        /\ UNCHANGED <<actuatorVars, track, controller_status, publisher_status, links, ended>>
    BY <1>2, <1>4 DEF ControllerRequests, RequestTrigger
  <2>2. TypeOK'
    BY <1>1, <2>1 DEF IInv, TypeOK, ActuatorState
  <2>3. HitsAreShots' /\ StaleViewsAreCorrected' /\ Undiscovered'
    BY <2>1 DEF IInv, HitsAreShots, StaleViewsAreCorrected, Undiscovered, EventualView
  <2>4. QED  BY <2>2, <2>3 DEF IInv
<1>5. CASE ControllerReceivesStatus
  <2> DEFINE q == controller_status
             s == Head(q)
  <2>1. q # << >> /\ q \in Seq(StatusMessage)
        /\ actuator_state' = (IF s.ready THEN "READY" ELSE "RELOADING")
        /\ controller_status' = Tail(q)
        /\ UNCHANGED <<actuatorVars, track, target_topic, publisher_status, requests, links, ended>>
    BY <1>1, <1>5 DEF ControllerReceivesStatus, on_actuator_status
  <2>2. /\ s \in StatusMessage /\ Tail(q) \in Seq(StatusMessage)
        /\ \A view : EventualView(s.ready, Tail(q)) = EventualView(view, q)
    BY <2>1, ReceiveFacts
  <2>3. s.ready \in BOOLEAN
    BY <2>2 DEF StatusMessage
  <2> HIDE DEF s, q
  <2>4. TypeOK'
    BY <2>1, <2>2 DEF IInv, TypeOK, ActuatorState
  <2>5. HitsAreShots'
    BY <2>1 DEF IInv, HitsAreShots
  <2>6. StaleViewsAreCorrected'
    <3>1. s.ready = (actuator_state' = "READY")
      BY <2>1, <2>3
    <3>2. EventualView(actuator_state' = "READY", controller_status')
            = EventualView(actuator_state = "READY", controller_status)
      BY <2>1, <2>2, <3>1 DEF q
    <3>3. QED  BY <2>1, <3>2 DEF IInv, StaleViewsAreCorrected, EventualView
  <2>7. Undiscovered'
    BY <2>1 DEF IInv, Undiscovered, q
  <2>8. QED  BY <2>4, <2>5, <2>6, <2>7 DEF IInv
<1>6. QED  BY <1>3, <1>4, <1>5

(* A rejected request and a discovery.                                     *)
LEMMA SilentStep ==
  ASSUME IInv, ActuatorRejects \/ \E l \in Links : Discover(l)
  PROVE  IInv'
<1> USE DEF actuatorVars, topics
<1>1. CASE ActuatorRejects
  <2>1. /\ requests \in Nat /\ requests > 0 /\ requests' = requests - 1
        /\ UNCHANGED <<actuator_state, actuatorVars, track, target_topic, controller_status,
                       publisher_status, links, ended>>
    BY <1>1 DEF ActuatorRejects, RejectTrigger, IInv, TypeOK
  <2>2. TypeOK'
    BY <2>1 DEF IInv, TypeOK
  <2>3. HitsAreShots' /\ StaleViewsAreCorrected' /\ Undiscovered'
    BY <2>1 DEF IInv, HitsAreShots, StaleViewsAreCorrected, Undiscovered, EventualView
  <2>4. QED  BY <2>2, <2>3 DEF IInv
<1>2. CASE \E l \in Links : Discover(l)
  <2>1. PICK l \in Links : Discover(l)
    BY <1>2
  <2>2. /\ links' = links \cup {l}
        /\ UNCHANGED <<actuator_state, actuatorVars, track, target_topic, controller_status,
                       publisher_status, requests, ended>>
    BY <2>1 DEF Discover
  <2>3. TypeOK'
    BY <2>2 DEF IInv, TypeOK
  <2>4. HitsAreShots' /\ StaleViewsAreCorrected'
    BY <2>2 DEF IInv, HitsAreShots, StaleViewsAreCorrected, EventualView
  <2>5. Undiscovered'
    BY <2>2 DEF IInv, Undiscovered
  <2>6. QED  BY <2>3, <2>4, <2>5 DEF IInv
<1>3. QED  BY <1>1, <1>2

LEMMA NextIInv == IInv /\ [Next]_vars => IInv'
<1> SUFFICES ASSUME IInv, [Next]_vars PROVE IInv'
  OBVIOUS
<1>1. CASE ActuatorAccepts \/ ActuatorReloaded \/ StatusTick
  BY <1>1, ActuatorStep
<1>2. CASE publish_next_target
  BY <1>2, TargetStep
<1>3. CASE PublisherReceivesStatus
  BY <1>3, PublisherStep
<1>4. CASE ControllerObserves \/ ControllerRequests \/ ControllerReceivesStatus
  BY <1>4, ControllerStep
<1>5. CASE ActuatorRejects \/ \E l \in Links : Discover(l)
  BY <1>5, SilentStep
<1>6. CASE UNCHANGED vars
  <2> USE <1>6 DEF vars, actuatorVars, topics
  <2>1. TypeOK'
    BY DEF IInv, TypeOK
  <2>2. HitsAreShots' /\ StaleViewsAreCorrected' /\ Undiscovered'
    BY DEF IInv, HitsAreShots, StaleViewsAreCorrected, Undiscovered, EventualView
  <2>3. QED  BY <2>1, <2>2 DEF IInv
<1>7. QED  BY <1>1, <1>2, <1>3, <1>4, <1>5, <1>6 DEF Next

-------------------------------------------------------------------------------
(* The theorems. *)

(* The inductive invariant holds for every sequence of samples, played     *)
(* once or for ever, and every bound.                                      *)
THEOREM Invariance == Spec => []IInv
BY InitIInv, NextIInv, PTL DEF Spec

(* The variables of the three nodes keep their types                       *)
(* (target_track_simulation.hpp:66-70, 85-93).                             *)
THEOREM TypeCorrect == Spec => []TypeOK
<1>1. IInv => TypeOK
  BY DEF IInv
<1>2. QED  BY <1>1, Invariance, PTL

(* A shot ends at most one drone, however often its count is published     *)
(* (target_track_simulation.hpp:81-94).                                    *)
THEOREM OneHitPerShot == Spec => []HitsAreShots
<1>1. IInv => HitsAreShots
  BY DEF IInv
<1>2. QED  BY <1>1, Invariance, PTL

(* A controller that takes a reloading actuator for ready has a correction *)
(* on its way, and so has a publisher that takes a ready one for reloading *)
(* (actuator_node.cpp:82, 94; turret_controller_node.cpp:218, 237).        *)
THEOREM ViewsAreCorrected == Spec => []StaleViewsAreCorrected
<1>1. IInv => StaleViewsAreCorrected
  BY DEF IInv
<1>2. QED  BY <1>1, Invariance, PTL

-------------------------------------------------------------------------------
(* Counting. *)

(* Induction over the numbers. *)
LEMMA SetInduction ==
  ASSUME NEW S, 0 \in S, \A n \in Nat : n \in S => n + 1 \in S
  PROVE  Nat \subseteq S
<1> SUFFICES ASSUME Nat \ S # {}  PROVE FALSE
  OBVIOUS
<1>1. PICK m \in Nat \ S : \A k \in Nat \ S : m <= k
  BY Least
<1>2. m # 0 /\ m - 1 \in Nat /\ m - 1 \in S
  BY <1>1
<1>3. QED  BY <1>1, <1>2

(* How many numbers up to k are in S. *)
UpTo(S, k) == {j \in S : j <= k}

LEMMA UpToFacts ==
  ASSUME NEW m \in Nat, NEW S, S \subseteq 1 .. m
  PROVE  /\ IsFiniteSet(S) /\ Cardinality(S) \in Nat
         /\ Cardinality(UpTo(S, 0)) = 0
         /\ UpTo(S, m) = S
         /\ \A k \in Nat :
              /\ Cardinality(UpTo(S, k)) \in Nat
              /\ Cardinality(UpTo(S, k + 1))
                   = Cardinality(UpTo(S, k)) + IF k + 1 \in S THEN 1 ELSE 0
<1>0. \A j \in S : j \in Int /\ 1 <= j /\ j <= m
  OBVIOUS
<1>1. IsFiniteSet(S)
  <2>1. m \in Int /\ 1 \in Int
    OBVIOUS
  <2>2. IsFiniteSet(1 .. m)
    BY <2>1, FS_Interval
  <2>3. QED  BY <2>2, FS_Subset
<1>U. \A k, j : j \in UpTo(S, k) <=> j \in S /\ j <= k
  BY DEF UpTo
<1>2. \A k \in Nat : IsFiniteSet(UpTo(S, k)) /\ Cardinality(UpTo(S, k)) \in Nat
  <2> TAKE k \in Nat
  <2>1. UpTo(S, k) \subseteq S
    BY DEF UpTo
  <2>2. QED  BY <1>1, <2>1, FS_Subset, FS_CardinalityType
<1>3. Cardinality(UpTo(S, 0)) = 0
  <2>1. ASSUME NEW j \in UpTo(S, 0)  PROVE FALSE
    <3>1. j \in S /\ j <= 0
      BY <1>U, <2>1
    <3>2. QED  BY <1>0, <3>1
  <2>2. UpTo(S, 0) = {}
    BY <2>1
  <2>3. QED  BY <2>2, FS_EmptySet
<1>4. UpTo(S, m) = S
  <2>1. \A j : j \in UpTo(S, m) <=> j \in S
    BY <1>0, <1>U
  <2>2. QED  BY <2>1
<1>5. ASSUME NEW k \in Nat
      PROVE  Cardinality(UpTo(S, k + 1)) = Cardinality(UpTo(S, k)) + IF k + 1 \in S THEN 1 ELSE 0
  <2>1. \A j \in S : j <= k + 1 <=> (j <= k \/ j = k + 1)
    BY <1>0
  <2>2. \A j : j \in UpTo(S, k + 1) <=> (j \in UpTo(S, k) \/ (j \in S /\ j = k + 1))
    BY <1>U, <2>1
  <2>3. CASE k + 1 \in S
    <3>1. UpTo(S, k + 1) = UpTo(S, k) \cup {k + 1}
      BY <2>2, <2>3
    <3>2. k + 1 \notin UpTo(S, k)
      <4>1. ~ k + 1 <= k
        OBVIOUS
      <4>2. QED  BY <1>U, <4>1
    <3>3. QED  BY <1>2, <2>3, <3>1, <3>2, FS_AddElement
  <2>4. CASE k + 1 \notin S
    <3>1. UpTo(S, k + 1) = UpTo(S, k)
      BY <2>2, <2>4
    <3>2. QED  BY <1>2, <2>4, <3>1
  <2>5. QED  BY <2>3, <2>4
<1>6. QED  BY <1>1, <1>2, <1>3, <1>4, <1>5, FS_CardinalityType

(* There is an n-th number for every n, and each number is one.            *)
LEMMA NthFacts ==
  ASSUME NEW m \in Nat, NEW S, S \subseteq 1 .. m
  PROVE  /\ \A n \in 1 .. Cardinality(S) : Nth(S, n) \in S /\ Cardinality(UpTo(S, Nth(S, n))) = n
         /\ \A i \in S : /\ Cardinality(UpTo(S, i)) \in 1 .. Cardinality(S)
                         /\ Nth(S, Cardinality(UpTo(S, i))) = i
<1> DEFINE c(k) == Cardinality(UpTo(S, k))
<1>1. /\ Cardinality(S) \in Nat /\ c(0) = 0 /\ c(m) = Cardinality(S)
      /\ \A k \in Nat : c(k) \in Nat /\ c(k + 1) = c(k) + IF k + 1 \in S THEN 1 ELSE 0
  BY UpToFacts
<1> HIDE DEF c
<1>0. \A i \in S : i \in Int
  OBVIOUS
<1>2. ASSUME NEW n \in 1 .. Cardinality(S)
      PROVE  \E i \in S : c(i) = n
  <2> DEFINE T == {k \in Nat : c(k) >= n}
  <2>1. PICK k \in T : \A j \in T : k <= j
    <3>1. m \in T
      BY <1>1
    <3>2. QED  BY <3>1, Least
  <2>2. k # 0 /\ k - 1 \in Nat /\ ~ (c(k - 1) >= n)
    BY <1>1, <2>1
  <2>3. c(k) = c(k - 1) + IF k \in S THEN 1 ELSE 0
    <3>1. (k - 1) + 1 = k
      BY <2>1
    <3>2. QED  BY <1>1, <2>2, <3>1
  <2>4. k \in S /\ c(k) = n
    <3>1. c(k - 1) \in Nat /\ c(k) >= n
      BY <1>1, <2>1, <2>2
    <3>2. QED  BY <2>2, <2>3, <3>1
  <2>5. QED  BY <2>4
<1>3. ASSUME NEW i \in S, NEW k \in Nat  PROVE c(i + k) >= c(i) /\ (k > 0 => c(i - 1) < c(i - 1 + k))
  <2> DEFINE T == {l \in Nat : c(i + l) >= c(i)}
  <2>1. i \in Nat /\ i - 1 \in Nat
    OBVIOUS
  <2>2. 0 \in T
    BY <1>1, <2>1
  <2>3. ASSUME NEW l \in Nat, l \in T  PROVE l + 1 \in T
    <3>1. i + l \in Nat /\ (i + l) + 1 = i + (l + 1)
      BY <2>1
    <3>2. c(i + (l + 1)) >= c(i + l)
      BY <1>1, <3>1
    <3>3. QED  BY <1>1, <2>1, <2>3, <3>1, <3>2
  <2>4. \A l \in Nat : c(i + l) >= c(i)
    <3> HIDE DEF T
    <3>1. Nat \subseteq T
      BY <2>2, <2>3, SetInduction
    <3>2. QED  BY <3>1 DEF T
  <2>5. c(i) = c(i - 1) + 1
    <3>1. (i - 1) + 1 = i
      BY <2>1
    <3>2. QED  BY <1>1, <2>1, <3>1
  <2>6. ASSUME k > 0  PROVE c(i - 1) < c(i - 1 + k)
    <3>1. k - 1 \in Nat /\ i + (k - 1) = i - 1 + k
      BY <2>1, <2>6
    <3>2. c(i - 1 + k) >= c(i)
      BY <2>4, <3>1
    <3>3. QED  BY <1>1, <2>1, <2>5, <3>1, <3>2
  <2>7. QED  BY <2>4, <2>6
<1>4. ASSUME NEW i \in S, NEW j \in S, c(i) = c(j)  PROVE ~ i < j
  <2> SUFFICES ASSUME i < j PROVE FALSE
    OBVIOUS
  <2>1. i \in Nat /\ j - 1 \in Nat /\ j - 1 - i \in Nat
    OBVIOUS
  <2>2. c(j - 1) >= c(i)
    <3>1. i + (j - 1 - i) = j - 1
      BY <2>1
    <3>2. QED  BY <1>3, <2>1, <3>1
  <2>3. c(j) = c(j - 1) + 1
    <3>1. (j - 1) + 1 = j
      BY <2>1
    <3>2. QED  BY <1>1, <2>1, <3>1
  <2>4. QED  BY <1>1, <1>4, <2>1, <2>2, <2>3
<1>5. ASSUME NEW i \in S  PROVE c(i) \in 1 .. Cardinality(S)
  <2>1. i \in Nat /\ i - 1 \in Nat /\ (i - 1) + 1 = i /\ m - i \in Nat /\ i + (m - i) = m
    OBVIOUS
  <2>2. c(i) = c(i - 1) + 1
    BY <1>1, <2>1
  <2>3. c(m) >= c(i)
    BY <1>3, <2>1
  <2>4. QED  BY <1>1, <2>1, <2>2, <2>3
<1>6. \A n : Nth(S, n) = CHOOSE i \in S : c(i) = n
  BY DEF Nth, UpTo, c
<1>7. ASSUME NEW n \in 1 .. Cardinality(S)  PROVE Nth(S, n) \in S /\ c(Nth(S, n)) = n
  BY <1>2, <1>6
<1>8. ASSUME NEW i \in S  PROVE Nth(S, c(i)) = i
  <2>1. Nth(S, c(i)) \in S /\ c(Nth(S, c(i))) = c(i)
    BY <1>5, <1>7
  <2>2. ~ i < Nth(S, c(i)) /\ ~ Nth(S, c(i)) < i
    BY <1>4, <2>1
  <2>3. i \in Int /\ Nth(S, c(i)) \in Int
    BY <1>0, <2>1
  <2>4. QED  BY <2>2, <2>3
<1>9. QED  BY <1>5, <1>7, <1>8 DEF c

-------------------------------------------------------------------------------
(* What the loader reads. *)

LEMMA RowsType ==
  ASSUME NEW lines \in Seq({Skipped, BadRow} \cup {Row(s) : s \in Sample})
  PROVE  Samples_of(lines) \in Seq(Sample)
<1> DEFINE rows == {i \in DOMAIN lines : lines[i].kind = "row"}
<1>1. Len(lines) \in Nat /\ DOMAIN lines = 1 .. Len(lines) /\ rows \subseteq 1 .. Len(lines)
  OBVIOUS
<1>2. ASSUME NEW i \in rows  PROVE lines[i].sample \in Sample
  <2>1. lines[i] \in {Skipped, BadRow} \cup {Row(s) : s \in Sample} /\ lines[i].kind = "row"
    OBVIOUS
  <2>2. PICK s \in Sample : lines[i] = Row(s)
    BY <2>1 DEF Skipped, BadRow
  <2>3. QED  BY <2>2 DEF Row
<1> HIDE DEF rows
<1>3. Cardinality(rows) \in Nat /\ \A n \in 1 .. Cardinality(rows) : Nth(rows, n) \in rows
  BY <1>1, NthFacts, UpToFacts
<1>4. Samples_of(lines) = [n \in 1 .. Cardinality(rows) |-> lines[Nth(rows, n)].sample]
  BY DEF Samples_of, rows
<1>5. QED  BY <1>2, <1>3, <1>4

(* Where a drone is in sight, and how many of these places are up to k.    *)
InSight(s)   == {i \in 1 .. Len(s) : s[i].visible}
Sights(s, k) == Cardinality(UpTo(InSight(s), k))

LEMMA SightsFacts ==
  ASSUME NEW s \in Seq(Sample)
  PROVE  /\ Len(s) \in Nat /\ InSight(s) \subseteq 1 .. Len(s)
         /\ Sights(s, 0) = 0
         /\ Sights(s, Len(s)) = Cardinality(InSight(s))
         /\ \A k \in Nat : /\ Sights(s, k) \in Nat
                           /\ Sights(s, k + 1) = Sights(s, k) + IF k + 1 \in InSight(s) THEN 1 ELSE 0
         /\ \A i \in InSight(s) : /\ Sights(s, i) \in 1 .. Sights(s, Len(s))
                                  /\ Nth(InSight(s), Sights(s, i)) = i
<1>1. Len(s) \in Nat /\ InSight(s) \subseteq 1 .. Len(s)
  BY DEF InSight
<1>2. \A k : Sights(s, k) = Cardinality(UpTo(InSight(s), k))
  BY DEF Sights
<1> DEFINE S == InSight(s)
<1> HIDE DEF S
<1>3. S \subseteq 1 .. Len(s)
  BY <1>1 DEF S
<1>4. /\ Cardinality(UpTo(S, 0)) = 0 /\ UpTo(S, Len(s)) = S
      /\ \A k \in Nat :
           /\ Cardinality(UpTo(S, k)) \in Nat
           /\ Cardinality(UpTo(S, k + 1)) = Cardinality(UpTo(S, k)) + IF k + 1 \in S THEN 1 ELSE 0
  BY <1>1, <1>3, UpToFacts
<1>5. \A i \in S : /\ Cardinality(UpTo(S, i)) \in 1 .. Cardinality(S)
                   /\ Nth(S, Cardinality(UpTo(S, i))) = i
  BY <1>1, <1>3, NthFacts
<1>6. /\ Sights(s, 0) = 0 /\ Sights(s, Len(s)) = Cardinality(S)
      /\ \A k \in Nat : /\ Sights(s, k) \in Nat
                        /\ Sights(s, k + 1) = Sights(s, k) + IF k + 1 \in S THEN 1 ELSE 0
  BY <1>2, <1>4 DEF S
<1>7. \A i \in S : Sights(s, i) \in 1 .. Sights(s, Len(s)) /\ Nth(S, Sights(s, i)) = i
  BY <1>2, <1>5, <1>6 DEF S
<1>8. QED  BY <1>1, <1>6, <1>7 DEF S

(* Sights are counted on over a concatenation.                             *)
LEMMA SightsConcat ==
  ASSUME NEW s \in Seq(Sample), NEW u \in Seq(Sample)
  PROVE  LET t == s \o u IN
         /\ t \in Seq(Sample) /\ Len(t) = Len(s) + Len(u)
         /\ \A i \in 1 .. Len(s) : t[i] = s[i]
         /\ \A i \in 1 .. Len(u) : t[Len(s) + i] = u[i]
         /\ \A k \in 0 .. Len(s) : Sights(t, k) = Sights(s, k)
         /\ \A k \in 0 .. Len(u) : Sights(t, Len(s) + k) = Sights(s, Len(s)) + Sights(u, k)
<1> DEFINE t == s \o u
           m == Len(s)
           n == Len(u)
<1>1. /\ t \in Seq(Sample) /\ Len(t) = m + n /\ m \in Nat /\ n \in Nat
      /\ \A i \in 1 .. m : t[i] = s[i]
      /\ \A i \in 1 .. n : t[m + i] = u[i]
  OBVIOUS
<1> HIDE DEF t, m, n
<1>2. /\ Sights(t, 0) = 0 /\ Sights(s, 0) = 0 /\ Sights(u, 0) = 0
      /\ \A k \in Nat : /\ Sights(t, k) \in Nat /\ Sights(s, k) \in Nat /\ Sights(u, k) \in Nat
                        /\ Sights(t, k + 1) = Sights(t, k) + IF k + 1 \in InSight(t) THEN 1 ELSE 0
                        /\ Sights(s, k + 1) = Sights(s, k) + IF k + 1 \in InSight(s) THEN 1 ELSE 0
                        /\ Sights(u, k + 1) = Sights(u, k) + IF k + 1 \in InSight(u) THEN 1 ELSE 0
  BY <1>1, SightsFacts
<1>3. \A k \in 0 .. m : Sights(t, k) = Sights(s, k)
  <2> DEFINE S == {k \in Nat : k <= m => Sights(t, k) = Sights(s, k)}
  <2>1. 0 \in S
    BY <1>2
  <2>2. ASSUME NEW k \in Nat, k \in S  PROVE k + 1 \in S
    <3> SUFFICES ASSUME k + 1 <= m  PROVE Sights(t, k + 1) = Sights(s, k + 1)
      OBVIOUS
    <3>1. k + 1 \in 1 .. m /\ k + 1 \in 1 .. m + n /\ Sights(t, k) = Sights(s, k)
      BY <1>1, <2>2
    <3>2. k + 1 \in InSight(t) <=> k + 1 \in InSight(s)
      BY <1>1, <3>1 DEF InSight, m
    <3>3. QED  BY <1>2, <3>1, <3>2
  <2> HIDE DEF S
  <2>3. Nat \subseteq S
    BY <2>1, <2>2, SetInduction
  <2>4. QED  BY <1>1, <2>3 DEF S
<1>4. \A k \in 0 .. n : Sights(t, m + k) = Sights(s, m) + Sights(u, k)
  <2> DEFINE S == {k \in Nat : k <= n => Sights(t, m + k) = Sights(s, m) + Sights(u, k)}
  <2>1. 0 \in S
    <3>0. m \in 0 .. m
      BY <1>1
    <3>1. Sights(t, m) = Sights(s, m)
      BY <1>3, <3>0
    <3>2. m + 0 = m /\ Sights(s, m) + 0 = Sights(s, m)
      <4>1. Sights(s, m) \in Nat
        BY <1>1, <1>2
      <4>2. QED  BY <1>1, <4>1
    <3>3. QED  BY <1>2, <3>1, <3>2
  <2>2. ASSUME NEW k \in Nat, k \in S  PROVE k + 1 \in S
    <3> SUFFICES ASSUME k + 1 <= n  PROVE Sights(t, m + (k + 1)) = Sights(s, m) + Sights(u, k + 1)
      OBVIOUS
    <3>1. /\ k + 1 \in 1 .. n /\ m + (k + 1) \in 1 .. m + n /\ m + k \in Nat
          /\ m + (k + 1) = (m + k) + 1
          /\ Sights(t, m + k) = Sights(s, m) + Sights(u, k)
      BY <1>1, <2>2
    <3>2. m + (k + 1) \in InSight(t) <=> k + 1 \in InSight(u)
      BY <1>1, <3>1 DEF InSight, n
    <3>3. /\ Sights(t, (m + k) + 1) = Sights(t, m + k) + IF (m + k) + 1 \in InSight(t) THEN 1 ELSE 0
          /\ Sights(u, k + 1) = Sights(u, k) + IF k + 1 \in InSight(u) THEN 1 ELSE 0
          /\ Sights(s, m) \in Nat /\ Sights(u, k) \in Nat
      BY <1>1, <1>2, <3>1
    <3>4. QED  BY <3>1, <3>2, <3>3
  <2> HIDE DEF S
  <2>3. Nat \subseteq S
    BY <2>1, <2>2, SetInduction
  <2>4. QED  BY <1>1, <2>3 DEF S
<1>5. QED  BY <1>1, <1>3, <1>4 DEF t, m, n

(* marks says of each sight in s whether a drone begins there.             *)
MarksBegins(s, marks) ==
  /\ marks \in Seq(BOOLEAN) /\ Len(marks) = Sights(s, Len(s))
  /\ \A i \in InSight(s) : marks[Sights(s, i)] <=> (i = 1 \/ ~ s[i - 1].visible)

(* The reference does so for a file.                                       *)
LEMMA BeginsDroneFacts ==
  ASSUME NEW file, file.lines \in Seq({Skipped, BadRow} \cup {Row(s) : s \in Sample})
  PROVE  MarksBegins(Samples_of(file.lines), BeginsDrone(file))
<1> DEFINE rows == Samples_of(file.lines)
           Begin(i) == i = 1 \/ ~ rows[i - 1].visible
<1>1. rows \in Seq(Sample)
  BY RowsType
<1>2. {i \in DOMAIN rows : rows[i].visible} = InSight(rows)
  BY <1>1 DEF InSight
<1>3. BeginsDrone(file) = [n \in 1 .. Cardinality(InSight(rows)) |->
                             LET i == Nth(InSight(rows), n) IN i = 1 \/ ~ rows[i - 1].visible]
  BY <1>2 DEF BeginsDrone
<1> HIDE DEF rows
<1>4. /\ Cardinality(InSight(rows)) = Sights(rows, Len(rows)) /\ Sights(rows, Len(rows)) \in Nat
      /\ \A i \in InSight(rows) : /\ Sights(rows, i) \in 1 .. Sights(rows, Len(rows))
                                  /\ Nth(InSight(rows), Sights(rows, i)) = i
  BY <1>1, SightsFacts
<1>5. \A i : Begin(i) \in BOOLEAN
  OBVIOUS
<1>6. BeginsDrone(file) = [n \in 1 .. Sights(rows, Len(rows)) |-> Begin(Nth(InSight(rows), n))]
  BY <1>3, <1>4
<1> HIDE DEF Begin
<1>7. BeginsDrone(file) \in Seq(BOOLEAN) /\ Len(BeginsDrone(file)) = Sights(rows, Len(rows))
  BY <1>4, <1>5, <1>6
<1>8. \A i \in InSight(rows) : BeginsDrone(file)[Sights(rows, i)] = Begin(i)
  BY <1>4, <1>6
<1>9. QED  BY <1>7, <1>8 DEF MarksBegins, rows, Begin

(* What the loader has combined so far, with the marks of its drones: it   *)
(* ends without a drone in sight.                                          *)
Combined(s, marks) ==
  s \in Seq(Sample) /\ MarksBegins(s, marks) /\ (s # << >> => ~ s[Len(s)].visible)

LEMMA EmptyCombined == Combined(<< >>, << >>)
<1>1. << >> \in Seq(Sample) /\ << >> \in Seq(BOOLEAN) /\ Len(<< >>) = 0
  OBVIOUS
<1>2. InSight(<< >>) = {}
  BY <1>1 DEF InSight
<1>3. Sights(<< >>, 0) = 0
  BY <1>1, SightsFacts
<1>4. QED  BY <1>1, <1>2, <1>3 DEF Combined, MarksBegins

(* One more file without the gap.                                          *)
LEMMA FileMarks ==
  ASSUME NEW s, NEW marks, Combined(s, marks), NEW u \in Seq(Sample), NEW b, MarksBegins(u, b)
  PROVE  MarksBegins(s \o u, marks \o b)
<1> DEFINE t == s \o u
           c == marks \o b
           m == Len(s)
           l == Sights(s, m)
<1>1. /\ s \in Seq(Sample) /\ marks \in Seq(BOOLEAN) /\ b \in Seq(BOOLEAN)
      /\ Len(marks) = l /\ Len(b) = Sights(u, Len(u))
  BY DEF Combined, MarksBegins
<1>2. /\ t \in Seq(Sample) /\ Len(t) = m + Len(u)
      /\ \A i \in 1 .. m : t[i] = s[i]
      /\ \A i \in 1 .. Len(u) : t[m + i] = u[i]
      /\ \A k \in 0 .. m : Sights(t, k) = Sights(s, k)
      /\ \A k \in 0 .. Len(u) : Sights(t, m + k) = l + Sights(u, k)
  BY <1>1, SightsConcat
<1>3. /\ c \in Seq(BOOLEAN) /\ Len(c) = l + Len(b) /\ l \in Nat /\ Len(b) \in Nat
      /\ \A i \in 1 .. l : c[i] = marks[i]
      /\ \A i \in 1 .. Len(b) : c[l + i] = b[i]
  <2>1. /\ c \in Seq(BOOLEAN) /\ Len(c) = Len(marks) + Len(b) /\ Len(marks) \in Nat /\ Len(b) \in Nat
        /\ \A i \in 1 .. Len(marks) : c[i] = marks[i]
        /\ \A i \in 1 .. Len(b) : c[Len(marks) + i] = b[i]
    <3> HIDE DEF l
    <3>1. marks \in Seq(BOOLEAN) /\ b \in Seq(BOOLEAN)
      BY <1>1
    <3>2. QED  BY <3>1
  <2>2. QED  BY <1>1, <2>1
<1>4. /\ m \in Nat /\ Len(u) \in Nat
      /\ \A i \in InSight(s) : Sights(s, i) \in 1 .. l
      /\ \A i \in InSight(u) : Sights(u, i) \in 1 .. Len(b)
  BY <1>1, SightsFacts
<1> HIDE DEF t, c, m, l
<1>5. Len(c) = Sights(t, Len(t))
  <2>1. Len(u) \in 0 .. Len(u)
    BY <1>4
  <2>2. QED  BY <1>1, <1>2, <1>3, <2>1
<1>6. ASSUME NEW i \in InSight(t)
      PROVE  c[Sights(t, i)] <=> (i = 1 \/ ~ t[i - 1].visible)
  <2>1. i \in 1 .. m + Len(u) /\ t[i].visible
    BY <1>2, <1>6 DEF InSight
  <2>2. CASE i \in 1 .. m
    <3>1. i \in InSight(s) /\ i \in 0 .. m /\ (i # 1 => i - 1 \in 1 .. m)
      BY <1>2, <1>4, <2>1, <2>2 DEF InSight, m
    <3>2. marks[Sights(s, i)] <=> (i = 1 \/ ~ s[i - 1].visible)
      BY <3>1 DEF Combined, MarksBegins
    <3>3. c[Sights(t, i)] = marks[Sights(s, i)]
      BY <1>2, <1>3, <1>4, <3>1
    <3>4. i # 1 => t[i - 1] = s[i - 1]
      BY <1>2, <3>1
    <3>5. QED  BY <3>2, <3>3, <3>4
  <2>3. CASE i \notin 1 .. m
    <3> DEFINE k == i - m
    <3>1. k \in 1 .. Len(u) /\ k \in 0 .. Len(u) /\ i = m + k
      BY <1>4, <2>1, <2>3
    <3>2. k \in InSight(u)
      BY <1>2, <2>1, <3>1 DEF InSight
    <3>3. b[Sights(u, k)] <=> (k = 1 \/ ~ u[k - 1].visible)
      BY <3>2 DEF MarksBegins
    <3>4. c[Sights(t, i)] = b[Sights(u, k)]
      BY <1>2, <1>3, <1>4, <3>1, <3>2
    <3>5. CASE k = 1
      <4>1. i - 1 = m
        BY <1>4, <3>1, <3>5
      <4>2. CASE m = 0
        BY <1>4, <3>3, <3>4, <3>5, <4>1, <4>2
      <4>3. CASE m # 0
        <5>1. m \in 1 .. m /\ t[m] = s[m]
          BY <1>2, <1>4, <4>3
        <5>2. ~ s[m].visible
          BY <4>3 DEF Combined, m
        <5>3. QED  BY <3>3, <3>4, <3>5, <4>1, <5>1, <5>2
      <4>4. QED  BY <4>2, <4>3
    <3>6. CASE k # 1
      <4>1. k - 1 \in 1 .. Len(u) /\ i - 1 = m + (k - 1) /\ i # 1
        BY <1>4, <3>1, <3>6
      <4>2. t[i - 1] = u[k - 1]
        BY <1>2, <4>1
      <4>3. QED  BY <3>3, <3>4, <3>6, <4>1, <4>2
    <3>7. QED  BY <3>5, <3>6
  <2>4. QED  BY <2>2, <2>3
<1>7. QED  BY <1>3, <1>5, <1>6 DEF MarksBegins, t, c

(* The gap changes no mark, and leaves no drone in sight.                  *)
LEMMA GapCombines ==
  ASSUME NEW t \in Seq(Sample), NEW c, MarksBegins(t, c)
  PROVE  Combined(append_track_gap(t), c)
<1> DEFINE g == append_track_gap(t)
           n == Len(t)
<1>1. CASE ~ (t # << >> /\ t[n].visible)
  <2>1. g = t
    BY <1>1 DEF append_track_gap
  <2>2. QED  BY <1>1, <2>1 DEF Combined
<1>2. CASE t # << >> /\ t[n].visible
  <2> DEFINE e == << Gap >>
  <2>1. Gap \in Sample /\ ~ Gap.visible
    BY DEF Gap, Sample
  <2>2. e \in Seq(Sample) /\ Len(e) = 1 /\ e[1] = Gap
    BY <2>1
  <2>3. g = t \o e
    BY <1>2, <2>1 DEF append_track_gap
  <2> HIDE DEF e, g
  <2>4. /\ g \in Seq(Sample) /\ Len(g) = n + 1 /\ n \in Nat
        /\ \A i \in 1 .. n : g[i] = t[i]
        /\ g[n + 1] = Gap
        /\ \A k \in 0 .. n : Sights(g, k) = Sights(t, k)
    <3>1. /\ g \in Seq(Sample) /\ Len(g) = n + Len(e)
          /\ \A i \in 1 .. n : g[i] = t[i]
          /\ \A i \in 1 .. Len(e) : g[n + i] = e[i]
          /\ \A k \in 0 .. n : Sights(g, k) = Sights(t, k)
      BY <2>2, <2>3, SightsConcat
    <3>2. 1 \in 1 .. Len(e) /\ n \in Nat
      BY <2>2
    <3>3. g[n + 1] = Gap
      BY <2>2, <3>1, <3>2
    <3>4. QED  BY <2>2, <3>1, <3>2, <3>3
  <2>5. InSight(g) = InSight(t) /\ InSight(t) \subseteq 1 .. n
    <3>1. ASSUME NEW i  PROVE i \in InSight(g) <=> i \in InSight(t)
      <4>1. i \in 1 .. n + 1 <=> (i \in 1 .. n \/ i = n + 1)
        BY <2>4
      <4>2. i \in InSight(g) <=> (i \in 1 .. n + 1 /\ g[i].visible)
        BY <2>4 DEF InSight
      <4>3. i \in InSight(t) <=> (i \in 1 .. n /\ t[i].visible)
        BY DEF InSight
      <4>4. QED  BY <2>1, <2>4, <4>1, <4>2, <4>3
    <3>2. QED  BY <3>1 DEF InSight
  <2>6. Sights(g, n + 1) = Sights(t, n)
    <3>1. /\ Sights(g, n + 1) = Sights(g, n) + IF n + 1 \in InSight(g) THEN 1 ELSE 0
          /\ Sights(g, n) \in Nat
      BY <2>4, SightsFacts
    <3>2. n + 1 \notin InSight(g) /\ n \in 0 .. n
      BY <2>4, <2>5
    <3>3. QED  BY <2>4, <3>1, <3>2
  <2>7. ASSUME NEW i \in InSight(g)
        PROVE  c[Sights(g, i)] <=> (i = 1 \/ ~ g[i - 1].visible)
    <3>1. i \in InSight(t) /\ i \in 1 .. n /\ i \in 0 .. n
      BY <2>5
    <3>2. c[Sights(t, i)] <=> (i = 1 \/ ~ t[i - 1].visible)
      BY <3>1 DEF MarksBegins
    <3>3. i # 1 => i - 1 \in 1 .. n
      BY <2>4, <3>1
    <3>4. QED  BY <2>4, <3>1, <3>2, <3>3
  <2>8. c \in Seq(BOOLEAN) /\ Len(c) = Sights(g, Len(g))
    BY <2>4, <2>6 DEF MarksBegins
  <2>9. QED  BY <2>1, <2>4, <2>7, <2>8 DEF Combined, MarksBegins, g
<1>3. QED  BY <1>1, <1>2

(* FoldLeft takes the last name off; the loops over the four files written *)
(* as it does.                                                             *)
Names == default_target_track_files

WithFile(s, name)      == append_track_gap(s \o load_target_track_csv(Directory[name]).samples)
WithMarks(marks, name) == marks \o BeginsDrone(Directory[name])

IsFiles(f) == f = [S \in SUBSET (1 .. 4) |->
                     IF S = {} THEN << >> ELSE WithFile(f[S \ {Max(S)}], Names[Max(S)])]
IsMarks(f) == f = [S \in SUBSET (1 .. 4) |->
                     IF S = {} THEN << >> ELSE WithMarks(f[S \ {Max(S)}], Names[Max(S)])]

LEMMA MaxFacts ==
  ASSUME NEW S, S \subseteq 1 .. 4, S # {}
  PROVE  /\ 4 \in S => Max(S) = 4
         /\ 4 \notin S /\ 3 \in S => Max(S) = 3
         /\ 4 \notin S /\ 3 \notin S /\ 2 \in S => Max(S) = 2
         /\ 4 \notin S /\ 3 \notin S /\ 2 \notin S => Max(S) = 1 /\ 1 \in S
<1>1. \A i \in S : i \in Int /\ (i = 1 \/ i = 2 \/ i = 3 \/ i = 4)
  OBVIOUS
<1>2. ASSUME NEW m \in S, \A i \in S : m >= i  PROVE Max(S) = m
  <2>1. Max(S) \in S /\ \A i \in S : Max(S) >= i
    BY <1>2 DEF Max
  <2>2. Max(S) >= m /\ m >= Max(S)
    BY <1>2, <2>1
  <2>3. m \in Int /\ Max(S) \in Int
    BY <1>1, <2>1
  <2>4. QED  BY <2>2, <2>3
<1>3. ASSUME 4 \in S  PROVE Max(S) = 4
  <2>1. \A i \in S : 4 >= i
    BY <1>1
  <2>2. QED  BY <1>2, <1>3, <2>1
<1>4. ASSUME 4 \notin S, 3 \in S  PROVE Max(S) = 3
  <2>1. \A i \in S : 3 >= i
    BY <1>1, <1>4
  <2>2. QED  BY <1>2, <1>4, <2>1
<1>5. ASSUME 4 \notin S, 3 \notin S, 2 \in S  PROVE Max(S) = 2
  <2>1. \A i \in S : 2 >= i
    BY <1>1, <1>5
  <2>2. QED  BY <1>2, <1>5, <2>1
<1>6. ASSUME 4 \notin S, 3 \notin S, 2 \notin S  PROVE Max(S) = 1 /\ 1 \in S
  <2>1. \A i \in S : i = 1
    BY <1>1, <1>6
  <2>2. 1 \in S
    BY <2>1
  <2>3. \A i \in S : 1 >= i
    BY <2>1
  <2>4. QED  BY <1>2, <2>2, <2>3
<1>7. QED  BY <1>3, <1>4, <1>5, <1>6

(* What the loop over the files computes. *)
LEMMA FilesFold ==
  LET f == CHOOSE f : IsFiles(f) IN
    f[1 .. 4] = WithFile(WithFile(WithFile(WithFile(<< >>, Names[1]), Names[2]), Names[3]), Names[4])
<1> DEFINE A1(S) == IF 1 \in S THEN WithFile(<< >>, Names[1]) ELSE << >>
           A2(S) == IF 2 \in S THEN WithFile(A1(S), Names[2]) ELSE A1(S)
           A3(S) == IF 3 \in S THEN WithFile(A2(S), Names[3]) ELSE A2(S)
           A4(S) == IF 4 \in S THEN WithFile(A3(S), Names[4]) ELSE A3(S)
           h == [S \in SUBSET (1 .. 4) |-> A4(S)]
<1>1. ASSUME NEW S \in SUBSET (1 .. 4)
      PROVE  A4(S) = IF S = {} THEN << >> ELSE WithFile(A4(S \ {Max(S)}), Names[Max(S)])
  <2>1. CASE S = {}
    BY <2>1
  <2>2. CASE S # {}
    <3>1. S \subseteq 1 .. 4
      OBVIOUS
    <3>2. CASE 4 \in S
      <4>1. Max(S) = 4
        BY <2>2, <3>1, <3>2, MaxFacts
      <4> DEFINE R == S \ {4}
      <4>2. /\ 4 \notin R /\ (3 \in R <=> 3 \in S) /\ (2 \in R <=> 2 \in S) /\ (1 \in R <=> 1 \in S)
        OBVIOUS
      <4> HIDE DEF R
      <4>3. A4(R) = A3(S)
        BY <4>2
      <4>4. A4(S) = WithFile(A3(S), Names[4])
        BY <3>2
      <4>5. QED  BY <2>2, <4>1, <4>3, <4>4 DEF R
    <3>3. CASE 4 \notin S /\ 3 \in S
      <4>1. Max(S) = 3
        BY <2>2, <3>1, <3>3, MaxFacts
      <4> DEFINE R == S \ {3}
      <4>2. 4 \notin R /\ 3 \notin R /\ (2 \in R <=> 2 \in S) /\ (1 \in R <=> 1 \in S)
        BY <3>3
      <4> HIDE DEF R
      <4>3. A4(R) = A2(S)
        BY <4>2
      <4>4. A4(S) = WithFile(A2(S), Names[3])
        BY <3>3
      <4>5. QED  BY <2>2, <4>1, <4>3, <4>4 DEF R
    <3>4. CASE 4 \notin S /\ 3 \notin S /\ 2 \in S
      <4>1. Max(S) = 2
        BY <2>2, <3>1, <3>4, MaxFacts
      <4> DEFINE R == S \ {2}
      <4>2. 4 \notin R /\ 3 \notin R /\ 2 \notin R /\ (1 \in R <=> 1 \in S)
        BY <3>4
      <4> HIDE DEF R
      <4>3. A4(R) = A1(S)
        BY <4>2
      <4>4. A4(S) = WithFile(A1(S), Names[2])
        BY <3>4
      <4>5. QED  BY <2>2, <4>1, <4>3, <4>4 DEF R
    <3>5. CASE 4 \notin S /\ 3 \notin S /\ 2 \notin S
      <4>1. Max(S) = 1 /\ 1 \in S
        BY <2>2, <3>1, <3>5, MaxFacts
      <4> DEFINE R == S \ {1}
      <4>2. 4 \notin R /\ 3 \notin R /\ 2 \notin R /\ 1 \notin R
        BY <3>5
      <4> HIDE DEF R
      <4>3. A4(R) = << >>
        BY <4>2
      <4>4. A4(S) = WithFile(<< >>, Names[1])
        BY <3>5, <4>1
      <4>5. QED  BY <2>2, <4>1, <4>3, <4>4 DEF R
    <3>6. QED  BY <3>2, <3>3, <3>4, <3>5
  <2>3. QED  BY <2>1, <2>2
<1> HIDE DEF A1, A2, A3, A4
<1>2. \A S \in SUBSET (1 .. 4) : S \ {Max(S)} \in SUBSET (1 .. 4)
  OBVIOUS
<1>3. IsFiles(h)
  <2>1. \A S \in SUBSET (1 .. 4) : A4(S \ {Max(S)}) = h[S \ {Max(S)}]
    BY <1>2
  <2>2. h = [S \in SUBSET (1 .. 4) |->
               IF S = {} THEN << >> ELSE WithFile(h[S \ {Max(S)}], Names[Max(S)])]
    BY <1>1, <2>1
  <2>3. QED  BY <2>2 DEF IsFiles
<1> HIDE DEF h
<1> DEFINE f == CHOOSE f : IsFiles(f)
<1>4. IsFiles(f)
  BY <1>3
<1> HIDE DEF f
<1>5. \A S \in SUBSET (1 .. 4) :
        f[S] = IF S = {} THEN << >> ELSE WithFile(f[S \ {Max(S)}], Names[Max(S)])
  BY <1>4 DEF IsFiles
<1>6. f[{}] = << >>
  BY <1>5
<1>7. f[{1}] = WithFile(<< >>, Names[1])
  <2>1. {1} \subseteq 1 .. 4 /\ {1} # {} /\ Max({1}) = 1 /\ {1} \ {1} = {}
    BY MaxFacts
  <2>2. QED  BY <1>5, <1>6, <2>1
<1>8. f[{1, 2}] = WithFile(f[{1}], Names[2])
  <2>1. {1, 2} \subseteq 1 .. 4 /\ {1, 2} # {} /\ Max({1, 2}) = 2 /\ {1, 2} \ {2} = {1}
    BY MaxFacts
  <2>2. QED  BY <1>5, <2>1
<1>9. f[{1, 2, 3}] = WithFile(f[{1, 2}], Names[3])
  <2>1. {1, 2, 3} \subseteq 1 .. 4 /\ {1, 2, 3} # {} /\ Max({1, 2, 3}) = 3 /\ {1, 2, 3} \ {3} = {1, 2}
    BY MaxFacts
  <2>2. QED  BY <1>5, <2>1
<1>10. f[1 .. 4] = WithFile(f[{1, 2, 3}], Names[4])
  <2>1. 1 .. 4 # {} /\ Max(1 .. 4) = 4 /\ (1 .. 4) \ {4} = {1, 2, 3}
    BY MaxFacts
  <2>2. QED  BY <1>5, <2>1
<1>11. QED  BY <1>7, <1>8, <1>9, <1>10 DEF f

(* The same for the marks. *)
LEMMA MarksFold ==
  LET f == CHOOSE f : IsMarks(f) IN
    f[1 .. 4] = WithMarks(WithMarks(WithMarks(WithMarks(<< >>, Names[1]), Names[2]), Names[3]), Names[4])
<1> DEFINE A1(S) == IF 1 \in S THEN WithMarks(<< >>, Names[1]) ELSE << >>
           A2(S) == IF 2 \in S THEN WithMarks(A1(S), Names[2]) ELSE A1(S)
           A3(S) == IF 3 \in S THEN WithMarks(A2(S), Names[3]) ELSE A2(S)
           A4(S) == IF 4 \in S THEN WithMarks(A3(S), Names[4]) ELSE A3(S)
           h == [S \in SUBSET (1 .. 4) |-> A4(S)]
<1>1. ASSUME NEW S \in SUBSET (1 .. 4)
      PROVE  A4(S) = IF S = {} THEN << >> ELSE WithMarks(A4(S \ {Max(S)}), Names[Max(S)])
  <2>1. CASE S = {}
    BY <2>1
  <2>2. CASE S # {}
    <3>1. S \subseteq 1 .. 4
      OBVIOUS
    <3>2. CASE 4 \in S
      <4>1. Max(S) = 4
        BY <2>2, <3>1, <3>2, MaxFacts
      <4> DEFINE R == S \ {4}
      <4>2. /\ 4 \notin R /\ (3 \in R <=> 3 \in S) /\ (2 \in R <=> 2 \in S) /\ (1 \in R <=> 1 \in S)
        OBVIOUS
      <4> HIDE DEF R
      <4>3. A4(R) = A3(S)
        BY <4>2
      <4>4. A4(S) = WithMarks(A3(S), Names[4])
        BY <3>2
      <4>5. QED  BY <2>2, <4>1, <4>3, <4>4 DEF R
    <3>3. CASE 4 \notin S /\ 3 \in S
      <4>1. Max(S) = 3
        BY <2>2, <3>1, <3>3, MaxFacts
      <4> DEFINE R == S \ {3}
      <4>2. 4 \notin R /\ 3 \notin R /\ (2 \in R <=> 2 \in S) /\ (1 \in R <=> 1 \in S)
        BY <3>3
      <4> HIDE DEF R
      <4>3. A4(R) = A2(S)
        BY <4>2
      <4>4. A4(S) = WithMarks(A2(S), Names[3])
        BY <3>3
      <4>5. QED  BY <2>2, <4>1, <4>3, <4>4 DEF R
    <3>4. CASE 4 \notin S /\ 3 \notin S /\ 2 \in S
      <4>1. Max(S) = 2
        BY <2>2, <3>1, <3>4, MaxFacts
      <4> DEFINE R == S \ {2}
      <4>2. 4 \notin R /\ 3 \notin R /\ 2 \notin R /\ (1 \in R <=> 1 \in S)
        BY <3>4
      <4> HIDE DEF R
      <4>3. A4(R) = A1(S)
        BY <4>2
      <4>4. A4(S) = WithMarks(A1(S), Names[2])
        BY <3>4
      <4>5. QED  BY <2>2, <4>1, <4>3, <4>4 DEF R
    <3>5. CASE 4 \notin S /\ 3 \notin S /\ 2 \notin S
      <4>1. Max(S) = 1 /\ 1 \in S
        BY <2>2, <3>1, <3>5, MaxFacts
      <4> DEFINE R == S \ {1}
      <4>2. 4 \notin R /\ 3 \notin R /\ 2 \notin R /\ 1 \notin R
        BY <3>5
      <4> HIDE DEF R
      <4>3. A4(R) = << >>
        BY <4>2
      <4>4. A4(S) = WithMarks(<< >>, Names[1])
        BY <3>5, <4>1
      <4>5. QED  BY <2>2, <4>1, <4>3, <4>4 DEF R
    <3>6. QED  BY <3>2, <3>3, <3>4, <3>5
  <2>3. QED  BY <2>1, <2>2
<1> HIDE DEF A1, A2, A3, A4
<1>2. \A S \in SUBSET (1 .. 4) : S \ {Max(S)} \in SUBSET (1 .. 4)
  OBVIOUS
<1>3. IsMarks(h)
  <2>1. \A S \in SUBSET (1 .. 4) : A4(S \ {Max(S)}) = h[S \ {Max(S)}]
    BY <1>2
  <2>2. h = [S \in SUBSET (1 .. 4) |->
               IF S = {} THEN << >> ELSE WithMarks(h[S \ {Max(S)}], Names[Max(S)])]
    BY <1>1, <2>1
  <2>3. QED  BY <2>2 DEF IsMarks
<1> HIDE DEF h
<1> DEFINE f == CHOOSE f : IsMarks(f)
<1>4. IsMarks(f)
  BY <1>3
<1> HIDE DEF f
<1>5. \A S \in SUBSET (1 .. 4) :
        f[S] = IF S = {} THEN << >> ELSE WithMarks(f[S \ {Max(S)}], Names[Max(S)])
  BY <1>4 DEF IsMarks
<1>6. f[{}] = << >>
  BY <1>5
<1>7. f[{1}] = WithMarks(<< >>, Names[1])
  <2>1. {1} \subseteq 1 .. 4 /\ {1} # {} /\ Max({1}) = 1 /\ {1} \ {1} = {}
    BY MaxFacts
  <2>2. QED  BY <1>5, <1>6, <2>1
<1>8. f[{1, 2}] = WithMarks(f[{1}], Names[2])
  <2>1. {1, 2} \subseteq 1 .. 4 /\ {1, 2} # {} /\ Max({1, 2}) = 2 /\ {1, 2} \ {2} = {1}
    BY MaxFacts
  <2>2. QED  BY <1>5, <2>1
<1>9. f[{1, 2, 3}] = WithMarks(f[{1, 2}], Names[3])
  <2>1. {1, 2, 3} \subseteq 1 .. 4 /\ {1, 2, 3} # {} /\ Max({1, 2, 3}) = 3 /\ {1, 2, 3} \ {3} = {1, 2}
    BY MaxFacts
  <2>2. QED  BY <1>5, <2>1
<1>10. f[1 .. 4] = WithMarks(f[{1, 2, 3}], Names[4])
  <2>1. 1 .. 4 # {} /\ Max(1 .. 4) = 4 /\ (1 .. 4) \ {4} = {1, 2, 3}
    BY MaxFacts
  <2>2. QED  BY <1>5, <2>1
<1>11. QED  BY <1>7, <1>8, <1>9, <1>10 DEF f

LEMMA FoldsAre ==
  /\ DroneMarks = (CHOOSE f : IsMarks(f))[1 .. 4]
  /\ load_target_track_csv_files(Directory, Names)
       = IF \E i \in 1 .. 4 : load_target_track_csv(Directory[Names[i]]).error THEN Loaded(<< >>, TRUE)
         ELSE Loaded((CHOOSE f : IsFiles(f))[1 .. 4], FALSE)
<1>1. DOMAIN Names = 1 .. 4 /\ Names # << >>
  BY DEF Names, default_target_track_files
<1>2. DroneMarks = (CHOOSE f : IsMarks(f))[1 .. 4]
  BY <1>1 DEF DroneMarks, FoldLeft, MapThenFoldSet, IsMarks, WithMarks, Names
<1>3. load_target_track_csv_files(Directory, Names)
       = IF \E i \in 1 .. 4 : load_target_track_csv(Directory[Names[i]]).error THEN Loaded(<< >>, TRUE)
         ELSE Loaded((CHOOSE f : IsFiles(f))[1 .. 4], FALSE)
  <2> DEFINE failed == \E i \in DOMAIN Names : load_target_track_csv(Directory[Names[i]]).error
             whole == MapThenFoldSet(
                        LAMBDA name, combined :
                          append_track_gap(combined \o load_target_track_csv(Directory[name]).samples),
                        << >>, LAMBDA i : Names[i], LAMBDA S : Max(S), DOMAIN Names)
  <2>1. load_target_track_csv_files(Directory, Names)
          = IF failed THEN Loaded(<< >>, TRUE) ELSE Loaded(whole, Names = << >>)
    BY DEF load_target_track_csv_files, FoldLeft
  <2>2. failed <=> \E i \in 1 .. 4 : load_target_track_csv(Directory[Names[i]]).error
    BY <1>1
  <2>3. whole = (CHOOSE f : IsFiles(f))[1 .. 4]
    BY <1>1 DEF MapThenFoldSet, IsFiles, WithFile, Names
  <2>4. (Names = << >>) = FALSE
    BY <1>1
  <2> HIDE DEF failed, whole
  <2>5. QED  BY <2>1, <2>2, <2>3, <2>4
<1>4. QED  BY <1>2, <1>3

(* Under track:=all the samples are those of all files, with their marks.  *)
LEMMA AllCombined ==
  ASSUME TrackFile = "all"
  PROVE  Combined(Samples, DroneMarks)
<1> DEFINE files == (CHOOSE f : IsFiles(f))[1 .. 4]
           failed == \E i \in 1 .. 4 : load_target_track_csv(Directory[Names[i]]).error
<1>1. load_target_track_csv_files(Directory, Names) = Loaded(Samples, FALSE)
  BY ProgramAssumption DEF load_samples_from_parameter, Names
<1>2. load_target_track_csv_files(Directory, Names)
        = IF failed THEN Loaded(<< >>, TRUE) ELSE Loaded(files, FALSE)
  BY FoldsAre
<1> HIDE DEF files, failed
<1>3. ~ failed /\ Samples = files
  BY <1>1, <1>2 DEF Loaded
<1>4. ASSUME NEW i \in 1 .. 4, NEW s, NEW marks, Combined(s, marks)
      PROVE  Combined(WithFile(s, Names[i]), WithMarks(marks, Names[i]))
  <2> DEFINE file == Directory[Names[i]]
             u == Samples_of(file.lines)
  <2>1. i \in DOMAIN default_target_track_files
    BY DEF default_target_track_files
  <2>2. file.lines \in Seq({Skipped, BadRow} \cup {Row(r) : r \in Sample})
    BY <2>1, ProgramAssumption DEF Names
  <2> HIDE DEF file
  <2>3. ~ load_target_track_csv(file).error
    BY <1>3 DEF failed, file
  <2>4. load_target_track_csv(file).samples = u
    <3> DEFINE bad  == {j \in DOMAIN file.lines : file.lines[j].kind = "bad"}
               read == IF bad = {} THEN u ELSE Samples_of(SubSeq(file.lines, 1, Min(bad) - 1))
    <3>1. load_target_track_csv(file)
            = IF ~ file.opens THEN Loaded(<< >>, TRUE) ELSE Loaded(read, bad # {} \/ read = << >>)
      BY DEF load_target_track_csv
    <3> HIDE DEF read, bad
    <3>2. /\ \A r, e : Loaded(r, e).error = e /\ Loaded(r, e).samples = r
          /\ file.opens \/ ~ file.opens
      BY DEF Loaded
    <3>3. file.opens
      BY <2>3, <3>1, <3>2
    <3>4. bad = {}
      BY <2>3, <3>1, <3>2, <3>3
    <3>5. QED  BY <3>1, <3>2, <3>3, <3>4 DEF read
  <2>5. u \in Seq(Sample)
    BY <2>2, RowsType
  <2>6. MarksBegins(u, BeginsDrone(file))
    BY <2>2, BeginsDroneFacts
  <2> HIDE DEF u
  <2>7. MarksBegins(s \o u, marks \o BeginsDrone(file)) /\ s \o u \in Seq(Sample)
    BY <1>4, <2>5, <2>6, FileMarks DEF Combined
  <2>8. Combined(append_track_gap(s \o u), marks \o BeginsDrone(file))
    BY <2>7, GapCombines
  <2>9. QED  BY <2>4, <2>8 DEF WithFile, WithMarks, file
<1>5. Combined(WithFile(<< >>, Names[1]), WithMarks(<< >>, Names[1]))
  BY <1>4, EmptyCombined
<1>6. Combined(WithFile(WithFile(<< >>, Names[1]), Names[2]), WithMarks(WithMarks(<< >>, Names[1]), Names[2]))
  BY <1>4, <1>5
<1>7. Combined(WithFile(WithFile(WithFile(<< >>, Names[1]), Names[2]), Names[3]),
               WithMarks(WithMarks(WithMarks(<< >>, Names[1]), Names[2]), Names[3]))
  BY <1>4, <1>6
<1>8. Combined(WithFile(WithFile(WithFile(WithFile(<< >>, Names[1]), Names[2]), Names[3]), Names[4]),
               WithMarks(WithMarks(WithMarks(WithMarks(<< >>, Names[1]), Names[2]), Names[3]), Names[4]))
  BY <1>4, <1>7
<1>9. QED  BY <1>3, <1>8, FilesFold, MarksFold, FoldsAre DEF files

-------------------------------------------------------------------------------
(* The walk over the samples. *)

(* A lap, and the place in it, counted from zero, that an index is for.    *)
Lap      == Len(Samples)
Place(i) == i % Lap

LEMMA LapType == Lap \in Nat \ {0}
BY SamplesAssumption DEF Lap

LEMMA PlaceType ==
  ASSUME NEW i \in Int
  PROVE  /\ Place(i) \in 0 .. Lap - 1 /\ Place(i) \in Int
         /\ \E l \in Int : i = Place(i) + Lap * l
<1>1. /\ Place(i) \in 0 .. Lap - 1 /\ Place(i) \in Int
      /\ i \div Lap \in Int /\ i = Lap * (i \div Lap) + Place(i)
  BY LapType DEF Place
<1>2. Lap * (i \div Lap) \in Int
  BY <1>1, LapType
<1>3. i = Place(i) + Lap * (i \div Lap)
  BY <1>1, <1>2
<1>4. QED  BY <1>1, <1>3

(* Indices that are laps apart are for the same place.                     *)
LEMMA PlaceIs ==
  ASSUME NEW i \in Int, NEW j \in Int, 0 <= j, j < Lap, NEW l \in Int, i = j + Lap * l
  PROVE  Place(i) = j
<1> DEFINE k == Place(i)
<1>1. k \in Int /\ 0 <= k /\ k < Lap
  BY PlaceType, LapType
<1>2. PICK q \in Int : i = k + Lap * q
  BY PlaceType
<1> DEFINE d == q - l
<1> HIDE DEF k
<1>3. d \in Int /\ Lap * d = Lap * q - Lap * l /\ Lap * q \in Int /\ Lap * l \in Int
  BY LapType
<1>4. Lap * d = j - k
  BY <1>1, <1>2, <1>3
<1> HIDE DEF d
<1>5. CASE d >= 1
  <2>1. Lap * d >= Lap
    BY LapType, <1>3, <1>5
  <2>2. QED  BY LapType, <1>1, <1>4, <2>1
<1>6. CASE d <= -1
  <2>1. Lap * d <= - Lap
    BY LapType, <1>3, <1>6
  <2>2. QED  BY LapType, <1>1, <1>4, <2>1
<1>7. CASE d = 0
  <2>1. Lap * d = 0
    BY LapType, <1>7
  <2>2. QED  BY <1>1, <1>4, <2>1 DEF k
<1>8. QED  BY <1>3, <1>5, <1>6, <1>7

LEMMA SamePlace ==
  ASSUME NEW i \in Int, NEW j \in Int, NEW l \in Int, i = j + Lap * l
  PROVE  Place(i) = Place(j)
<1> DEFINE k == Place(j)
<1>1. k \in Int /\ 0 <= k /\ k < Lap
  BY PlaceType, LapType
<1>2. PICK q \in Int : j = k + Lap * q
  BY PlaceType
<1> HIDE DEF k
<1>3. Lap * (q + l) = Lap * q + Lap * l /\ Lap * q \in Int /\ Lap * l \in Int /\ q + l \in Int
  BY LapType
<1>4. i = k + Lap * (q + l)
  BY <1>1, <1>2, <1>3
<1>5. Place(i) = k
  BY <1>1, <1>3, <1>4, PlaceIs
<1>6. QED  BY <1>5 DEF k

(* Equal steps from the same place lead to the same place.                 *)
LEMMA PlaceStep ==
  ASSUME NEW i \in Int, NEW j \in Int, Place(i) = Place(j), NEW d \in Int
  PROVE  Place(i + d) = Place(j + d)
<1> DEFINE k == Place(i)
<1>1. k \in Int
  BY PlaceType
<1>2. PICK a \in Int : i = k + Lap * a
  BY PlaceType
<1>3. PICK b \in Int : j = k + Lap * b
  BY PlaceType
<1> HIDE DEF k
<1>4. /\ Lap * (a - b) = Lap * a - Lap * b /\ Lap * a \in Int /\ Lap * b \in Int
      /\ a - b \in Int /\ i + d \in Int /\ j + d \in Int
  BY LapType
<1>5. i + d = (j + d) + Lap * (a - b)
  BY <1>1, <1>2, <1>3, <1>4
<1>6. QED  BY <1>4, <1>5, SamePlace

LEMMA OneLap ==
  ASSUME NEW i \in Int
  PROVE  Place(i + Lap) = Place(i)
<1>1. i + Lap = i + Lap * 1 /\ i + Lap \in Int /\ 1 \in Int
  BY LapType
<1>2. QED  BY <1>1, SamePlace

(* An index is wrapped to one of the same place.                           *)
LEMMA WrappedPlace ==
  ASSUME NEW i \in Int
  PROVE  /\ Wrapped(i) \in Int /\ Place(Wrapped(i)) = Place(i)
         /\ Wrapped(i) = IF RepeatSequence THEN Place(i) ELSE i
<1>1. Wrapped(i) = IF RepeatSequence THEN Place(i) ELSE i
  BY DEF Wrapped, Place, Lap
<1> DEFINE k == Place(i)
<1>2. k \in Int /\ 0 <= k /\ k < Lap
  BY PlaceType, LapType
<1> HIDE DEF k
<1>3. Place(k) = k
  <2>1. k = k + Lap * 0 /\ 0 \in Int
    BY <1>2, LapType
  <2>2. QED  BY <1>2, <2>1, PlaceIs
<1>4. QED  BY <1>1, <1>2, <1>3 DEF k

LEMMA SampleAtPlace ==
  ASSUME NEW i \in Int
  PROVE  /\ SampleAt(i) = Samples[Place(i) + 1]
         /\ SampleAt(i) \in Sample
<1>1. SampleAt(i) = Samples[Place(i) + 1]
  BY DEF SampleAt, Place, Lap
<1>2. Place(i) \in 0 .. Lap - 1
  BY PlaceType
<1>3. Place(i) + 1 \in 1 .. Lap
  BY <1>2, LapType
<1>4. QED  BY <1>1, <1>3, SamplesAssumption DEF Lap

(* Under track:=all a drone begins where one is in sight after none was.   *)
LEMMA FirstOfDroneFacts ==
  ASSUME TrackFile = "all", NEW i \in Int
  PROVE  FirstOfDrone(i) <=> SampleAt(i).visible /\ ~ SampleAt(i - 1).visible
<1> DEFINE k == Place(i) + 1
<1>1. Combined(Samples, DroneMarks)
  BY AllCombined
<1>2. k \in 1 .. Lap /\ Place(i) \in Int /\ k - 1 = Place(i)
  <2>1. Place(i) \in 0 .. Lap - 1
    BY PlaceType
  <2>2. QED  BY <2>1, LapType
<1>3. {j \in 1 .. k : Samples[j].visible} = UpTo(InSight(Samples), k)
  <2> HIDE DEF k
  <2>1. ASSUME NEW j  PROVE j \in 1 .. k <=> (j \in 1 .. Lap /\ j <= k)
    BY <1>2, LapType
  <2>2. QED  BY <2>1 DEF UpTo, InSight, Lap
<1>4. FirstOfDrone(i) <=> SampleAt(i).visible /\ DroneMarks[Sights(Samples, k)]
  BY <1>3 DEF FirstOfDrone, Place, Lap, Sights
<1>5. Samples[k].visible => k \in InSight(Samples)
  BY <1>2 DEF InSight, Lap
<1>6. Samples[k].visible => (DroneMarks[Sights(Samples, k)] <=> (k = 1 \/ ~ Samples[k - 1].visible))
  BY <1>1, <1>5 DEF Combined, MarksBegins
<1>7. SampleAt(i - 1) = IF k = 1 THEN Samples[Lap] ELSE Samples[k - 1]
  <2>1. PICK a \in Int : i = Place(i) + Lap * a
    BY PlaceType
  <2>2. i = (k - 1) + Lap * a
    BY <1>2, <2>1
  <2> HIDE DEF k
  <2>3. /\ Lap * a \in Int /\ a - 1 \in Int /\ Lap * (a - 1) = Lap * a - Lap /\ i - 1 \in Int
    BY LapType
  <2>4. CASE k = 1
    <3>1. /\ Lap - 1 \in Int /\ 0 <= Lap - 1 /\ Lap - 1 < Lap
          /\ i - 1 = (Lap - 1) + Lap * (a - 1) /\ (Lap - 1) + 1 = Lap
      BY LapType, <2>2, <2>3, <2>4
    <3>2. Place(i - 1) = Lap - 1
      BY <2>3, <3>1, PlaceIs
    <3>3. QED  BY <2>3, <2>4, <3>1, <3>2, SampleAtPlace
  <2>5. CASE k # 1
    <3>1. /\ k - 2 \in Int /\ 0 <= k - 2 /\ k - 2 < Lap
          /\ i - 1 = (k - 2) + Lap * a /\ (k - 2) + 1 = k - 1
      BY LapType, <1>2, <2>2, <2>3, <2>5
    <3>2. Place(i - 1) = k - 2
      BY <2>3, <3>1, PlaceIs
    <3>3. QED  BY <2>3, <2>5, <3>1, <3>2, SampleAtPlace
  <2>6. QED  BY <2>4, <2>5
<1>8. ~ Samples[Lap].visible
  BY <1>1, SamplesAssumption DEF Combined, Lap
<1>9. SampleAt(i) = Samples[k]
  BY SampleAtPlace
<1> HIDE DEF k
<1>10. QED  BY <1>4, <1>6, <1>7, <1>8, <1>9

(* What follows a sample in sight under track:=all: a place without one,   *)
(* before the same sample comes again.                                     *)
LEMMA OutOfSight ==
  ASSUME TrackFile = "all", NEW p \in Int, SampleAt(p).visible
  PROVE  \E g \in p + 1 .. p + Lap - 1 : ~ SampleAt(g).visible
<1> DEFINE k == Place(p)
           g == p + (Lap - 1 - k)
<1>1. ~ Samples[Lap].visible
  BY AllCombined, SamplesAssumption DEF Combined, Lap
<1>2. SampleAt(p) = Samples[k + 1]
  BY SampleAtPlace
<1>3. k \in 0 .. Lap - 1
  BY PlaceType
<1>4. PICK a \in Int : p = k + Lap * a
  BY PlaceType
<1> HIDE DEF k
<1>5. k # Lap - 1
  <2>1. k = Lap - 1 => k + 1 = Lap
    BY LapType
  <2>2. QED  BY <1>1, <1>2, <2>1
<1>6. g \in Int /\ g \in p + 1 .. p + Lap - 1
  BY LapType, <1>3, <1>5
<1>7. /\ g = (Lap - 1) + Lap * a
      /\ Lap - 1 \in Int /\ 0 <= Lap - 1 /\ Lap - 1 < Lap /\ (Lap - 1) + 1 = Lap
  <2>1. Lap * a \in Int
    BY LapType
  <2>2. QED  BY LapType, <1>3, <1>4, <2>1
<1> HIDE DEF g
<1>8. Place(g) = Lap - 1
  BY <1>6, <1>7, PlaceIs
<1>9. SampleAt(g) = Samples[Lap]
  BY <1>6, <1>7, <1>8, SampleAtPlace
<1>10. QED  BY <1>1, <1>6, <1>9

(* The search for the next track finds the first beginning of a drone.     *)
LEMMA SkipFacts ==
  ASSUME TrackFile = "all", NEW p \in Int, p >= -1, SampleAt(p).visible
  PROVE  \E n \in 1 .. Lap :
           /\ FirstOfDrone(p + n)
           /\ \A m \in 1 .. n - 1 : ~ FirstOfDrone(p + m)
           /\ skip_to_next_track(p + 1) = p + n
<1> DEFINE i == p + 1
           stop == i + Lap
           next == {j \in i .. stop - 1 :
                      SampleAt(j).visible /\ \E g \in i .. j - 1 : ~ SampleAt(g).visible}
<1>1. skip_to_next_track(i) = IF next = {} THEN stop ELSE CHOOSE j \in next : \A k \in next : j <= k
  BY DEF skip_to_next_track, Lap
<1>2. i \in Nat /\ stop - 1 = p + Lap /\ stop - 1 \in Int
  BY LapType
<1>3. p + Lap \in next
  <2>1. SampleAt(p + Lap) = SampleAt(p)
    <3>1. p + Lap \in Int /\ Place(p + Lap) = Place(p)
      BY LapType, OneLap
    <3>2. QED  BY <3>1, SampleAtPlace
  <2>2. p + Lap \in i .. stop - 1
    BY LapType, <1>2
  <2>3. \E g \in i .. (p + Lap) - 1 : ~ SampleAt(g).visible
    <3>1. (p + Lap) - 1 = p + Lap - 1
      BY LapType
    <3>2. QED  BY <3>1, OutOfSight
  <2> DEFINE l == p + Lap
  <2>4. /\ SampleAt(l).visible
        /\ l \in i .. stop - 1
        /\ \E g \in i .. l - 1 : ~ SampleAt(g).visible
    <3>1. SampleAt(l).visible
      BY <2>1
    <3>2. l \in i .. stop - 1
      BY <2>2
    <3>3. \E g \in i .. l - 1 : ~ SampleAt(g).visible
      BY <2>3
    <3>4. QED  BY <3>1, <3>2, <3>3
  <2> HIDE DEF l, i, stop
  <2>5. l \in next
    BY <2>4
  <2>6. QED  BY <2>5 DEF l
<1>4. next \subseteq Nat
  BY <1>2
<1> HIDE DEF next
<1> DEFINE j == skip_to_next_track(i)
<1>5. j \in next /\ \A k \in next : j <= k
  <2>1. \E l \in next : \A k \in next : l <= k
    BY <1>3, <1>4, Least
  <2>2. QED  BY <1>1, <1>3, <2>1
<1> HIDE DEF j
<1>6. /\ j \in Int /\ i <= j /\ j <= stop - 1
      /\ SampleAt(j).visible
  BY <1>2, <1>5 DEF next
<1>7. PICK g \in i .. j - 1 : ~ SampleAt(g).visible
  BY <1>5 DEF next
<1>8. ~ SampleAt(j - 1).visible
  <2> SUFFICES ASSUME SampleAt(j - 1).visible  PROVE FALSE
    OBVIOUS
  <2>1. g # j - 1 /\ j - 1 \in Int
    BY <1>6, <1>7
  <2>2. g \in i .. (j - 1) - 1 /\ j - 1 \in i .. stop - 1
    BY <1>2, <1>6, <1>7, <2>1
  <2>3. j - 1 \in next
    BY <1>7, <2>2 DEF next
  <2>4. QED  BY <1>5, <1>6, <2>3
<1>9. FirstOfDrone(j)
  BY <1>6, <1>8, FirstOfDroneFacts
<1>10. ASSUME NEW m \in 1 .. j - p - 1, FirstOfDrone(p + m)
       PROVE  FALSE
  <2>1. p + m \in Int /\ p + m < j /\ i <= p + m
    BY <1>6
  <2>2. SampleAt(p + m).visible /\ ~ SampleAt(p + m - 1).visible
    BY <1>10, <2>1, FirstOfDroneFacts
  <2>3. m # 1
    <3>1. m = 1 => p + m - 1 = p
      OBVIOUS
    <3>2. QED  BY <2>2, <3>1
  <2>4. p + m - 1 \in i .. (p + m) - 1 /\ p + m \in i .. stop - 1
    BY <1>2, <1>6, <2>1, <2>3
  <2>5. p + m \in next
    BY <2>2, <2>4 DEF next
  <2>6. QED  BY <1>5, <1>6, <2>1, <2>5
<1>11. j - p \in 1 .. Lap /\ p + (j - p) = j
  BY LapType, <1>2, <1>6
<1>12. QED  BY <1>9, <1>10, <1>11 DEF j

(* So does it from another index of the same place.                        *)
LEMMA SkipFromPlace ==
  ASSUME TrackFile = "all", NEW p \in Int, SampleAt(p).visible,
         NEW q \in Int, q >= -1, Place(q) = Place(p), RepeatSequence \/ q = p
  PROVE  \E n \in 1 .. Lap :
           /\ FirstOfDrone(p + n)
           /\ \A m \in 1 .. n - 1 : ~ FirstOfDrone(p + m)
           /\ Wrapped(skip_to_next_track(q + 1)) = Wrapped(p + n)
<1>1. SampleAt(q) = SampleAt(p)
  BY SampleAtPlace
<1>2. PICK n \in 1 .. Lap :
      /\ FirstOfDrone(q + n)
      /\ \A m \in 1 .. n - 1 : ~ FirstOfDrone(q + m)
      /\ skip_to_next_track(q + 1) = q + n
  BY <1>1, SkipFacts
<1>3. ASSUME NEW m \in Int
      PROVE  FirstOfDrone(p + m) <=> FirstOfDrone(q + m)
  <2>1. /\ p + m \in Int /\ q + m \in Int
        /\ Place(p + m) = Place(q + m)
    BY PlaceStep
  <2>2. FirstOfDrone(p + m) = FirstOfDrone(q + m)
    BY <2>1, SampleAtPlace DEF FirstOfDrone, Place, Lap
  <2>3. QED  BY <2>2
<1>4. n \in Int /\ p + n \in Int /\ q + n \in Int
  BY <1>2
<1>5. Wrapped(q + n) = Wrapped(p + n)
  <2>1. Place(q + n) = Place(p + n)
    BY <1>4, PlaceStep
  <2>2. QED  BY <1>4, <2>1, WrappedPlace
<1>6. \A m \in 1 .. n - 1 : m \in Int
  OBVIOUS
<1>7. QED  BY <1>2, <1>3, <1>4, <1>5, <1>6

-------------------------------------------------------------------------------
(* A hit window is only open when the sample published last showed a drone.*)
OpenOnSight(t) == t.hit_window_open => SampleAt(t.next_index - 1).visible

LEMMA NextTargetOpens ==
  ASSUME NEW t \in TrackState
  PROVE  /\ OpenOnSight(next_target(t))
         /\ ~ next_target(t).has_published_sample =>
               /\ SampleAt(t.next_index).visible
               /\ next_target(t).next_index = Wrapped(skip_to_next_track(Wrapped(t.next_index + 1)))
<1> DEFINE i == t.next_index
           s == SampleAt(i)
           published ==
             [t EXCEPT !.next_index           = Wrapped(@ + 1),
                       !.has_published_sample = TRUE,
                       !.hit_window_open      = s.visible /\ (@ \/ Targetable(s))]
<1>1. i \in Int /\ i + 1 \in Int /\ (i + 1) + (-1) = i
  BY DEF TrackState
<1>2. Wrapped(i + 1) \in Int /\ Place(Wrapped(i + 1)) = Place(i + 1)
  BY <1>1, WrappedPlace
<1>3. SampleAt(Wrapped(i + 1) - 1) = s
  <2> DEFINE w == Wrapped(i + 1)
  <2> HIDE DEF w
  <2>1. w \in Int /\ w - 1 \in Int /\ w - 1 = w + (-1) /\ -1 \in Int
    BY <1>2 DEF w
  <2>2. Place(w + (-1)) = Place((i + 1) + (-1))
    BY <1>1, <1>2, <2>1, PlaceStep DEF w
  <2>3. Place(w - 1) = Place(i)
    BY <1>1, <2>1, <2>2
  <2>4. QED  BY <1>1, <2>1, <2>3, SampleAtPlace DEF w
<1>4. /\ published.next_index = Wrapped(i + 1)
      /\ published.has_published_sample
      /\ published.hit_window_open => s.visible
  BY DEF TrackState
<1>5. next_target(t) = IF ReachedProtectedZone(t) THEN TrackEnded(published) ELSE published
  BY DEF next_target
<1>6. ReachedProtectedZone(t) => s.visible
  BY DEF ReachedProtectedZone
<1>7. published \in TrackState
  <2>1. s \in Sample /\ Wrapped(i + 1) \in Nat
    BY IndexType DEF TrackState
  <2>2. (s.visible /\ (t.hit_window_open \/ Targetable(s))) \in BOOLEAN
    BY <2>1 DEF Sample
  <2>3. QED  BY <2>1, <2>2 DEF TrackState
<1> HIDE DEF published
<1>8. /\ TrackEnded(published).next_index = Wrapped(skip_to_next_track(published.next_index))
      /\ ~ TrackEnded(published).hit_window_open
  BY <1>7 DEF TrackEnded, TrackState
<1> HIDE DEF s, i
<1>9. CASE ReachedProtectedZone(t)
  BY <1>4, <1>5, <1>6, <1>8, <1>9 DEF OpenOnSight, i, s
<1>10. CASE ~ ReachedProtectedZone(t)
  BY <1>3, <1>4, <1>5, <1>10 DEF OpenOnSight
<1>11. QED  BY <1>9, <1>10

LEMMA StatusOpens ==
  ASSUME NEW t \in TrackState, NEW r \in BOOLEAN, NEW n \in Nat
  PROVE  LET u == apply_actuator_status(t, r, n) IN
         /\ OpenOnSight(t) => OpenOnSight(u)
         /\ EndsTrack(t, n) => u.next_index = Wrapped(skip_to_next_track(t.next_index))
<1> DEFINE told == [t EXCEPT !.actuator_ready = r,
                             !.last_trigger_count = IF n > @ THEN n ELSE @]
           u == apply_actuator_status(t, r, n)
<1>1. (IF n > t.last_trigger_count THEN n ELSE t.last_trigger_count) \in Nat
  BY DEF TrackState
<1>2. /\ told \in TrackState
      /\ told.next_index = t.next_index
      /\ told.hit_window_open = t.hit_window_open
  BY <1>1 DEF TrackState
<1>3. u = IF EndsTrack(t, n) THEN TrackEnded(told) ELSE told
  BY DEF apply_actuator_status
<1> HIDE DEF told, u
<1>4. /\ TrackEnded(told).next_index = Wrapped(skip_to_next_track(told.next_index))
      /\ ~ TrackEnded(told).hit_window_open
  BY <1>2 DEF TrackEnded, TrackState
<1>5. QED  BY <1>2, <1>3, <1>4 DEF OpenOnSight, u

LEMMA TrackMoves ==
  ASSUME IInv, [Next]_vars
  PROVE  \/ track' = track
         \/ publish_next_target /\ track' = next_target(track)
         \/ PublisherReceivesStatus /\ \E r \in BOOLEAN, n \in Nat :
              /\ track' = apply_actuator_status(track, r, n)
              /\ ended' > ended => EndsTrack(track, n)
<1>1. CASE publish_next_target
  BY <1>1 DEF publish_next_target
<1>2. CASE PublisherReceivesStatus
  <2> DEFINE s == Head(publisher_status)
  <2>1. s \in StatusMessage /\ ended \in Nat
    BY <1>2 DEF PublisherReceivesStatus, IInv, TypeOK
  <2>2. s.ready \in BOOLEAN /\ s.count \in Nat
    BY <2>1, BoundsAssumption DEF StatusMessage
  <2>3. /\ track' = apply_actuator_status(track, s.ready, s.count)
        /\ ended' = IF EndsTrack(track, s.count) THEN ended + 1 ELSE ended
    BY <1>2 DEF PublisherReceivesStatus
  <2> HIDE DEF s
  <2>4. ended' > ended => EndsTrack(track, s.count)
    BY <2>1, <2>3
  <2>5. QED  BY <1>2, <2>2, <2>3, <2>4
<1>3. CASE ActuatorAccepts \/ ActuatorRejects \/ ActuatorReloaded \/ StatusTick
  BY <1>3 DEF ActuatorAccepts, ActuatorRejects, ActuatorReloaded, StatusTick
<1>4. CASE ControllerObserves \/ ControllerRequests \/ ControllerReceivesStatus
  BY <1>4 DEF ControllerObserves, ControllerRequests, ControllerReceivesStatus
<1>5. CASE \E l \in Links : Discover(l)
  BY <1>5 DEF Discover
<1>6. CASE UNCHANGED vars
  BY <1>6 DEF vars
<1>7. QED  BY <1>1, <1>2, <1>3, <1>4, <1>5, <1>6 DEF Next

SightInv == IInv /\ OpenOnSight(track)

LEMMA InitSightInv == Init => SightInv
BY InitIInv DEF Init, NewTrack, SightInv, OpenOnSight

LEMMA NextSightInv == SightInv /\ [Next]_vars => SightInv'
<1> SUFFICES ASSUME SightInv, [Next]_vars  PROVE SightInv'
  OBVIOUS
<1>1. IInv /\ track \in TrackState /\ OpenOnSight(track)
  BY DEF SightInv, IInv, TypeOK
<1>2. IInv'
  BY <1>1, NextIInv
<1>3. CASE track' = track
  BY <1>1, <1>2, <1>3 DEF SightInv, OpenOnSight
<1>4. CASE track' = next_target(track)
  <2>1. OpenOnSight(next_target(track))
    BY <1>1, NextTargetOpens
  <2>2. QED  BY <1>2, <1>4, <2>1 DEF SightInv, OpenOnSight
<1>5. ASSUME NEW r \in BOOLEAN, NEW n \in Nat, track' = apply_actuator_status(track, r, n)
      PROVE  SightInv'
  <2>1. OpenOnSight(apply_actuator_status(track, r, n))
    BY <1>1, StatusOpens
  <2>2. QED  BY <1>2, <1>5, <2>1 DEF SightInv, OpenOnSight
<1>6. QED  BY <1>1, <1>3, <1>4, <1>5, TrackMoves

(* Under track:=all a drone that is shot or gets through is followed by    *)
(* the beginning of the next drone of the files, whatever the files hold   *)
(* (target_track_loader.hpp:143-169, target_sequence.hpp:50-77,            *)
(* target_track_simulation.hpp:59-70, 85-93).                              *)
THEOREM NextDroneComes == TrackFile = "all" => (Spec => NextTrackFollows)
<1> SUFFICES ASSUME TrackFile = "all"  PROVE Spec => NextTrackFollows
  OBVIOUS
<1>1. ASSUME SightInv, publish_next_target, ~ track'.has_published_sample
      PROVE  ContinuesAfter(track.next_index)
  <2> DEFINE p == track.next_index
             w == Wrapped(p + 1)
             q == w - 1
  <2>1. track \in TrackState /\ p \in Nat
    BY <1>1 DEF SightInv, IInv, TypeOK, TrackState
  <2>2. track' = next_target(track)
    BY <1>1 DEF publish_next_target
  <2>3. SampleAt(p).visible /\ track'.next_index = Wrapped(skip_to_next_track(w))
    BY <1>1, <2>1, <2>2, NextTargetOpens
  <2> HIDE DEF p
  <2>4. p \in Int /\ p + 1 \in Int /\ (p + 1) + (-1) = p /\ -1 \in Int
    BY <2>1
  <2>5. /\ w \in Int /\ Place(w) = Place(p + 1)
        /\ w = IF RepeatSequence THEN Place(p + 1) ELSE p + 1
    BY <2>4, WrappedPlace
  <2>6. Place(p + 1) >= 0
    <3>1. Place(p + 1) \in 0 .. Lap - 1
      BY <2>4, PlaceType
    <3>2. QED  BY <3>1, LapType
  <2> HIDE DEF w
  <2>7. q \in Int /\ q >= -1 /\ q = w + (-1) /\ q + 1 = w /\ (RepeatSequence \/ q = p)
    BY <2>1, <2>4, <2>5, <2>6
  <2>8. Place(q) = Place(p)
    <3>1. Place(w + (-1)) = Place((p + 1) + (-1))
      BY <2>4, <2>5, PlaceStep
    <3>2. QED  BY <2>4, <2>7, <3>1
  <2> HIDE DEF q
  <2>9. PICK n \in 1 .. Lap :
        /\ FirstOfDrone(p + n)
        /\ \A m \in 1 .. n - 1 : ~ FirstOfDrone(p + m)
        /\ Wrapped(skip_to_next_track(q + 1)) = Wrapped(p + n)
    BY <2>3, <2>4, <2>7, <2>8, SkipFromPlace
  <2>10. track'.next_index = Wrapped(p + n)
    <3>1. q + 1 = w
      BY <2>7
    <3>2. Wrapped(skip_to_next_track(w)) = Wrapped(p + n)
      BY <2>9, <3>1
    <3>3. QED  BY <2>3, <3>2
  <2>11. QED  BY <2>9, <2>10 DEF ContinuesAfter, Lap, p
<1>2. ASSUME SightInv, [Next]_vars, PublisherReceivesStatus, ended' > ended
      PROVE  ContinuesAfter(track.next_index - 1)
  <2>1. track \in TrackState /\ IInv /\ OpenOnSight(track) /\ ended \in Nat
    BY <1>2 DEF SightInv, IInv, TypeOK
  <2> DEFINE s == Head(publisher_status)
             p == track.next_index - 1
  <2>2. s \in StatusMessage
    BY <1>2, <2>1 DEF PublisherReceivesStatus, IInv, TypeOK
  <2>3. s.ready \in BOOLEAN /\ s.count \in Nat
    BY <2>2, BoundsAssumption DEF StatusMessage
  <2>4. /\ track' = apply_actuator_status(track, s.ready, s.count)
        /\ ended' = IF EndsTrack(track, s.count) THEN ended + 1 ELSE ended
    BY <1>2 DEF PublisherReceivesStatus
  <2> HIDE DEF s
  <2>5. EndsTrack(track, s.count)
    BY <1>2, <2>1, <2>4
  <2>6. track'.next_index = Wrapped(skip_to_next_track(track.next_index))
    BY <2>1, <2>3, <2>4, <2>5, StatusOpens
  <2>7. SampleAt(p).visible
    BY <2>1, <2>5 DEF EndsTrack, OpenOnSight
  <2>8. p \in Int /\ p >= -1 /\ p + 1 = track.next_index
    BY <2>1 DEF TrackState
  <2> HIDE DEF p
  <2>9. PICK n \in 1 .. Lap :
        /\ FirstOfDrone(p + n)
        /\ \A m \in 1 .. n - 1 : ~ FirstOfDrone(p + m)
        /\ Wrapped(skip_to_next_track(p + 1)) = Wrapped(p + n)
    BY <2>7, <2>8, SkipFromPlace
  <2>10. track'.next_index = Wrapped(p + n)
    <3>1. p + 1 = track.next_index
      BY <2>8
    <3>2. QED  BY <2>6, <2>9, <3>1
  <2>11. QED  BY <2>9, <2>10 DEF ContinuesAfter, Lap, p
<1>3. SightInv /\ [Next]_vars
        => [/\ publish_next_target /\ ~ track'.has_published_sample
                 => ContinuesAfter(track.next_index)
            /\ PublisherReceivesStatus /\ ended' > ended
                 => ContinuesAfter(track.next_index - 1)]_vars
  BY <1>1, <1>2
<1>4. QED  BY <1>3, InitSightInv, NextSightInv, PTL DEF Spec, NextTrackFollows
================================================================================
