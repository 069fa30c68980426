----------------------------- MODULE Mission_proofs -----------------------------
(***************************************************************************)
(* The three nodes together, for every scenario the loader accepts, every  *)
(* budget and every set of links discovered at first.  With any number of  *)
(* restarts of the explorer its map is true, a FAILED report is right and  *)
(* the world is a mission as promised.  As long as it is not restarted the *)
(* nodes pass one stimulus around, the explorer acts on the present scan,  *)
(* the relay never stops by itself, no command is wasted, and a DONE is    *)
(* right as well.                                                          *)
(***************************************************************************)
EXTENDS MissionProperties, UndergroundLemmas

-------------------------------------------------------------------------------
(* Scans. *)

Scans == {ScanOf(w) : w \in WorldState}

(* The contacts a robot sees as active. *)
ActiveAround(w) == {c \in contacts \cap Window(w.robot) : ~ contact_is_down(w, c)}

(* What a scan says is true of the object it was made of. *)
LEMMA ScanSays ==
  ASSUME NEW w \in WorldState
  PROVE  LET s == ScanOf(w) IN
         /\ s.robot = w.robot
         /\ DOMAIN s.cells = Window(w.robot)
         /\ \A p \in DOMAIN s.cells : s.cells[p] = "#" <=> ~ is_passable(p)
         /\ Reported(s, "x") \subseteq w.contacts_down
         /\ Reported(s, "C") = ActiveAround(w)
<1> DEFINE s == ScanOf(w)
<1>1. s.robot = w.robot /\ DOMAIN s.cells = Window(w.robot)
  BY DEF ScanOf
<1>2. ASSUME NEW p \in Window(w.robot)
      PROVE  /\ s.cells[p] = ObservedKind(w, p)
             /\ s.cells[p] = "#" <=> ~ is_passable(p)
             /\ s.cells[p] = "C" <=> p \in contacts \ w.contacts_down
             /\ s.cells[p] = "x" => p \in w.contacts_down
  <2>1. p \in Cells
    BY <1>2, WindowType
  <2>2. s.cells[p] = ObservedKind(w, p)
    BY <1>2 DEF ScanOf
  <2>3. s.cells[p] = "#" <=> ~ is_passable(p)
    BY <2>1, <2>2, KindFacts DEF PassableCells
  <2>4. s.cells[p] = "x" => p \in w.contacts_down
    <3>1. base_cell(p) # "x"
      BY <2>1, GridAtType DEF base_cell
    <3>2. QED  BY <2>2, <3>1 DEF ObservedKind, contact_is_down
  <2>5. QED  BY <2>1, <2>2, <2>3, <2>4, KindFacts
<1> HIDE DEF s
<1>3. Reported(s, "x") \subseteq w.contacts_down
  BY <1>1, <1>2 DEF Reported
<1>4. Reported(s, "C") = ActiveAround(w)
  BY <1>1, <1>2 DEF Reported, ActiveAround, contact_is_down
<1>5. QED  BY <1>1, <1>2, <1>3, <1>4 DEF s

(* A latched topic holds at most two samples in the order of publication,  *)
(* the newest one last.                                                    *)
LEMMA LatchFacts ==
  ASSUME NEW S, NEW topic \in Seq(S), Len(topic) <= 2, NEW s \in S
  PROVE  LET after == Latch(topic, s) IN
         /\ after \in Seq(S) /\ Len(after) \in 1 .. 2 /\ Len(after) <= Len(topic) + 1
         /\ after[Len(after)] = s
         /\ Len(after) = 2 => Len(topic) > 0 /\ after[1] = topic[Len(topic)]
<1>1. CASE Len(topic) < 2
  <2>1. Latch(topic, s) = Append(topic, s)
    BY <1>1 DEF Latch
  <2>2. Append(topic, s) \in Seq(S) /\ Len(Append(topic, s)) = Len(topic) + 1
    OBVIOUS
  <2>3. /\ Append(topic, s)[Len(topic) + 1] = s
        /\ Len(topic) > 0 => Append(topic, s)[1] = topic[1]
    OBVIOUS
  <2>4. Len(topic) \in Nat
    OBVIOUS
  <2>5. QED  BY <1>1, <2>1, <2>2, <2>3, <2>4
<1>2. CASE Len(topic) = 2
  <2>1. topic[2] \in S
    <3>1. 2 \in 1 .. Len(topic)
      BY <1>2
    <3>2. QED  BY <3>1, ElementOfSeq
  <2>2. <<topic[2], s>> \in Seq(S) /\ Len(<<topic[2], s>>) = 2
    BY <2>1
  <2>3. QED  BY <1>2, <2>2 DEF Latch
<1>3. Len(topic) < 2 \/ Len(topic) = 2
  <2>1. Len(topic) \in Nat /\ Len(topic) <= 2
    OBVIOUS
  <2>2. \A n \in Nat : n <= 2 => n < 2 \/ n = 2
    OBVIOUS
  <2>3. QED  BY <2>1, <2>2
<1>4. QED  BY <1>1, <1>2, <1>3

(* Delivering sample k leaves the later ones. *)
LEMMA AfterFacts ==
  ASSUME NEW S, NEW topic \in Seq(S), NEW k \in 1 .. Len(topic)
  PROVE  /\ After(topic, k) \in Seq(S)
         /\ Len(After(topic, k)) = Len(topic) - k
         /\ \A i \in 1 .. Len(topic) - k : After(topic, k)[i] = topic[k + i]
BY DEF After

-------------------------------------------------------------------------------
(* What the steps do to the world and to the two state topics. *)

(* The queues hold messages. *)
Queues ==
  /\ pending_moves \in Seq(Direction) /\ move_topic \in Seq(Direction)
  /\ trigger_requests \in Seq(Cells) /\ enemy_down_topic \in Seq(Cells)
  /\ trigger_responses \in Seq(BOOLEAN)
  /\ visible_contacts \subseteq Cells

(* The samples on their way were true when they were published, and what   *)
(* the explorer has processed stays processed in all of them.              *)
Samples ==
  /\ scan_topic \in Seq(Scans) /\ Len(scan_topic) <= 2
  /\ \A i \in 1 .. Len(scan_topic) :
       /\ Reported(scan_topic[i], "x") \subseteq world.contacts_down
       /\ Reported(scan_topic[i], "C") \cap processed_contacts = {}
  /\ \A i, j \in 1 .. Len(scan_topic) :
       i < j => Reported(scan_topic[i], "x") \cap Reported(scan_topic[j], "C") = {}

(* The outcome a sample announces is that of the mission. *)
Settled(r) == r \in {"SUCCESS", "FAILED_MAX_STEPS"} => result(world) = r

Results ==
  /\ result_topic \in Seq(Outcome) /\ Len(result_topic) <= 2
  /\ \A i \in 1 .. Len(result_topic) : Settled(result_topic[i])
  /\ Settled(latest_result)
  /\ status = "FAILED" => result(world) = "FAILED_MAX_STEPS"

IInv == WorldInv /\ Queues /\ Samples /\ MapIsTrue /\ Results

(* The world publishes: both samples are those of the object. *)
Publishes ==
  /\ scan_topic' = Latch(scan_topic, ScanOf(world'))
  /\ result_topic' = Latch(result_topic, result(world'))
  /\ UNCHANGED explorerVars

(* Neither the world nor the explorer's map is concerned. *)
Quiet ==
  /\ UNCHANGED <<world, published, scan_topic, result_topic, mapVars, latest_result>>
  /\ status' = "FAILED" => status = "FAILED" \/ latest_result = "FAILED_MAX_STEPS"

(* An empty topic holds no sample. *)
LEMMA NoSample ==
  /\ Len(<< >>) = 0
  /\ \A S : << >> \in Seq(S)
  /\ \A i \in 1 .. Len(<< >>) : FALSE
OBVIOUS

(* The head of a queue is one of its elements, and its tail is a queue. *)
LEMMA HeadTail ==
  ASSUME NEW S, NEW s \in Seq(S), s # << >>
  PROVE  Head(s) \in S /\ Tail(s) \in Seq(S) /\ Len(Tail(s)) = Len(s) - 1
BY HeadTailProperties

(* Whatever the node publishes, the topics get the samples of the object. *)
LEMMA PublishesFacts ==
  ASSUME NEW w, publish_state(w), Broadcast, UNCHANGED explorerVars
  PROVE  Publishes
<1>1. published' = <<SnapshotOf(world')>>
  BY DEF publish_state
<1>2. published'[1].scan = ScanOf(world') /\ published'[1].result = result(world')
  BY <1>1 DEF SnapshotOf
<1>3. QED  BY <1>2 DEF Broadcast, Publishes

(* The steps of the world node. *)
LEMMA WorldNodeSteps ==
  ASSUME Queues,
         WorldStarts \/ WorldReceivesMove \/ WorldCommitsMove \/ WorldDropsMoves
           \/ WorldReceivesEnemyDown
  PROVE  WorldSteps /\ (Publishes \/ Quiet)
<1>1. CASE WorldStarts
  BY <1>1, PublishesFacts DEF WorldStarts, InitialPublish, WorldSteps
<1>2. CASE WorldReceivesMove
  BY <1>2 DEF WorldReceivesMove, on_move, WorldSteps, Quiet, explorerVars, mapVars, stateTopics
<1>3. CASE WorldCommitsMove
  <2>1. Head(pending_moves) \in Nat
    BY <1>3, HeadTail DEF WorldCommitsMove, CommitMove, Queues, Direction, UP, DOWN, LEFT, RIGHT
  <2>2. QED
    BY <1>3, <2>1, PublishesFacts DEF WorldCommitsMove, CommitMove, WorldSteps
<1>4. CASE WorldDropsMoves
  BY <1>4 DEF WorldDropsMoves, DropMoves, WorldSteps, Quiet, explorerVars, mapVars, network,
              stateTopics
<1>5. CASE WorldReceivesEnemyDown
  <2>1. publish_state(world) \/ ~ terminal(world)
    BY <1>5 DEF WorldReceivesEnemyDown, on_enemy_down, apply_enemy_down
  <2>2. QED
    BY <1>5, <2>1, PublishesFacts DEF WorldReceivesEnemyDown, on_enemy_down, WorldSteps
<1>6. QED  BY <1>1, <1>2, <1>3, <1>4, <1>5

(* The other steps leave the world alone. *)
LEMMA OtherSteps ==
  ASSUME \/ PayloadTriggers \/ ExplorerReceivesScan \/ ExplorerReceivesResult
         \/ ExplorerReceivesResponse \/ control_tick \/ ExplorerRestarts
         \/ (\E l \in Links : Discover(l))
  PROVE  UNCHANGED <<world, published>>
BY DEF PayloadTriggers, ExplorerReceivesScan, ExplorerReceivesResult, ExplorerReceivesResponse,
       control_tick, TickWithoutMessage, TickTriggers, TickMoves, ExplorerRestarts, Discover,
       worldVars

(* The steps that concern neither the world nor the explorer's map. *)
LEMMA QuietSteps ==
  ASSUME \/ PayloadTriggers \/ ExplorerReceivesResponse \/ control_tick
         \/ (\E l \in Links : Discover(l))
  PROVE  Quiet
<1>1. CASE PayloadTriggers
  BY <1>1 DEF PayloadTriggers, Quiet, worldVars, explorerVars, mapVars, stateTopics
<1>2. CASE ExplorerReceivesResponse
  BY <1>2 DEF ExplorerReceivesResponse, on_response, Quiet, worldVars, mapVars, stateTopics
<1>3. CASE TickWithoutMessage
  BY <1>3 DEF TickWithoutMessage, TickDone, TickFailed, TickPending, TickServiceNotReady,
              TickExhausted, Acted, Quiet, worldVars, mapVars, network, stateTopics
<1>4. CASE TickTriggers
  BY <1>4 DEF TickTriggers, TickEngage, Acted, Quiet, worldVars, mapVars, stateTopics
<1>5. CASE TickMoves
  BY <1>5 DEF TickMoves, TickMove, Acted, Quiet, worldVars, mapVars, stateTopics
<1>6. CASE \E l \in Links : Discover(l)
  BY <1>6 DEF Discover, Quiet, worldVars, explorerVars, mapVars, stateTopics
<1>7. QED  BY <1>1, <1>2, <1>3, <1>4, <1>5, <1>6 DEF control_tick

-------------------------------------------------------------------------------
(* The invariant is inductive. *)

(* A sample of the scan topic, taken from it by a callback, is a scan. *)
LEMMA SampleIsScan ==
  ASSUME Samples, NEW k \in 1 .. Len(scan_topic)
  PROVE  /\ scan_topic[k] \in Scans
         /\ \A kind : Reported(scan_topic[k], kind) \subseteq Cells
<1>1. scan_topic[k] \in Scans
  BY ElementOfSeq DEF Samples
<1>2. PICK w \in WorldState : scan_topic[k] = ScanOf(w)
  BY <1>1 DEF Scans
<1>3. DOMAIN scan_topic[k].cells \subseteq Cells
  BY <1>2, ScanSays, WindowType
<1>4. QED  BY <1>1, <1>3 DEF Reported

(* Every step leaves messages in the queues. *)
LEMMA NextQueues ==
  ASSUME Queues, Samples, Next
  PROVE  Queues'
<1> USE DEF Queues
<1>1. CASE WorldStarts
  BY <1>1 DEF WorldStarts, InitialPublish, explorerVars, service
<1>2. CASE WorldReceivesMove
  BY <1>2, HeadTail DEF WorldReceivesMove, on_move, explorerVars, service
<1>3. CASE WorldCommitsMove
  BY <1>3, HeadTail DEF WorldCommitsMove, CommitMove, explorerVars, service
<1>4. CASE WorldDropsMoves
  BY <1>4 DEF WorldDropsMoves, DropMoves, explorerVars, network, service
<1>5. CASE WorldReceivesEnemyDown
  BY <1>5, HeadTail DEF WorldReceivesEnemyDown, on_enemy_down, explorerVars, service
<1>6. CASE PayloadTriggers
  <2>1. Tail(trigger_requests) \in Seq(Cells) /\ Head(trigger_requests) \in Cells
    BY <1>6, HeadTail DEF PayloadTriggers
  <2>2. Append(enemy_down_topic, Head(trigger_requests)) \in Seq(Cells)
        /\ Append(trigger_responses, TRUE) \in Seq(BOOLEAN)
    BY <2>1
  <2>3. QED  BY <1>6, <2>1, <2>2 DEF PayloadTriggers, worldVars, explorerVars
<1>7. CASE ExplorerReceivesScan
  <2>1. visible_contacts' \subseteq Cells
    BY <1>7, SampleIsScan DEF ExplorerReceivesScan, on_local_scan, VisibleAfter
  <2>2. QED  BY <1>7, <2>1 DEF ExplorerReceivesScan, worldVars, service
<1>8. CASE ExplorerReceivesResult
  BY <1>8 DEF ExplorerReceivesResult, on_result, worldVars, mapVars, service
<1>9. CASE ExplorerReceivesResponse
  BY <1>9, HeadTail DEF ExplorerReceivesResponse, on_response, worldVars, mapVars
<1>10. CASE TickWithoutMessage
  BY <1>10 DEF TickWithoutMessage, TickDone, TickFailed, TickPending, TickServiceNotReady,
               TickExhausted, Acted, worldVars, mapVars, network, service
<1>11. CASE TickTriggers
  <2>1. PICK c \in visible_contacts : TickEngage(c) /\ trigger_requests' = Append(trigger_requests, c)
    BY <1>11 DEF TickTriggers
  <2>2. trigger_requests' \in Seq(Cells)
    BY <2>1
  <2>3. QED  BY <1>11, <2>1, <2>2 DEF TickTriggers, TickEngage, Acted, worldVars, mapVars
<1>12. CASE TickMoves
  <2>1. PICK d \in Direction : TickMove(d) /\ move_topic' \in {move_topic, Append(move_topic, d)}
    BY <1>12 DEF TickMoves
  <2>2. Append(move_topic, d) \in Seq(Direction)
    OBVIOUS
  <2>3. move_topic' \in Seq(Direction)
    BY <2>1, <2>2
  <2>4. UNCHANGED <<pending_moves, enemy_down_topic, trigger_requests, trigger_responses>>
    BY <1>12 DEF TickMoves, worldVars, service
  <2>5. UNCHANGED visible_contacts
    BY <1>12, QuietSteps DEF control_tick, Quiet, mapVars
  <2>6. QED  BY <2>3, <2>4, <2>5
<1>13. CASE ExplorerRestarts
  <2>1. << >> \in Seq(Direction) /\ << >> \in Seq(Cells) /\ << >> \in Seq(BOOLEAN)
    OBVIOUS
  <2>2. /\ move_topic' \in {move_topic, << >>} /\ trigger_requests' \in {trigger_requests, << >>}
        /\ trigger_responses' = << >> /\ visible_contacts' = {}
        /\ UNCHANGED <<pending_moves, enemy_down_topic>>
    BY <1>13 DEF ExplorerRestarts, worldVars
  <2>3. move_topic' \in Seq(Direction) /\ trigger_requests' \in Seq(Cells)
        /\ trigger_responses' \in Seq(BOOLEAN)
    BY <2>1, <2>2
  <2>4. QED  BY <2>2, <2>3
<1>14. CASE \E l \in Links : Discover(l)
  BY <1>14 DEF Discover, worldVars, explorerVars, service
<1>15. QED
  BY <1>1, <1>2, <1>3, <1>4, <1>5, <1>6, <1>7, <1>8, <1>9, <1>10, <1>11, <1>12, <1>13, <1>14
     DEF Next, control_tick

(* The kinds of steps there are. *)
LEMMA StepKinds ==
  ASSUME Queues, Next
  PROVE  /\ WorldSteps
         /\ Publishes \/ Quiet \/ ExplorerReceivesScan \/ ExplorerReceivesResult \/ ExplorerRestarts
<1>1. UNCHANGED <<world, published>> => WorldSteps
  BY DEF WorldSteps
<1>2. QED  BY <1>1, WorldNodeSteps, OtherSteps, QuietSteps DEF Next

(* The world is never better informed than the next sample: a new scan     *)
(* joins the ones on their way.                                            *)
LEMMA PublishSamples ==
  ASSUME WorldInv, WorldInv', Samples, MapIsTrue, Publishes,
         world.contacts_down \subseteq world'.contacts_down
  PROVE  Samples'
<1> DEFINE s == ScanOf(world')
<1>1. /\ s \in Scans
      /\ Reported(s, "x") \subseteq world'.contacts_down
      /\ Reported(s, "C") \cap world'.contacts_down = {}
  BY ScanSays DEF WorldInv, Scans, ActiveAround, contact_is_down
<1>2. processed_contacts' = processed_contacts /\ processed_contacts \subseteq world'.contacts_down
  BY DEF Publishes, explorerVars, MapIsTrue
<1>3. /\ scan_topic' \in Seq(Scans) /\ Len(scan_topic') \in 1 .. 2
      /\ scan_topic'[Len(scan_topic')] = s
      /\ Len(scan_topic') = 2 => Len(scan_topic) > 0 /\ scan_topic'[1] = scan_topic[Len(scan_topic)]
  BY <1>1, LatchFacts DEF Publishes, Samples
<1> HIDE DEF s
<1>4. ASSUME NEW i \in 1 .. Len(scan_topic'), i # Len(scan_topic')
      PROVE  /\ i = 1 /\ Len(scan_topic') = 2
             /\ Reported(scan_topic'[1], "x") \subseteq world'.contacts_down
             /\ Reported(scan_topic'[1], "C") \cap processed_contacts = {}
  <2>1. i = 1 /\ Len(scan_topic') = 2
    BY <1>3, <1>4
  <2>2. Len(scan_topic) \in 1 .. Len(scan_topic) /\ scan_topic'[1] = scan_topic[Len(scan_topic)]
    BY <1>3, <2>1 DEF Samples
  <2>3. QED  BY <2>1, <2>2 DEF Samples
<1>5. ASSUME NEW i \in 1 .. Len(scan_topic')
      PROVE  /\ Reported(scan_topic'[i], "x") \subseteq world'.contacts_down
             /\ Reported(scan_topic'[i], "C") \cap processed_contacts = {}
  BY <1>1, <1>2, <1>3, <1>4
<1>6. ASSUME NEW i \in 1 .. Len(scan_topic'), NEW j \in 1 .. Len(scan_topic'), i < j
      PROVE  Reported(scan_topic'[i], "x") \cap Reported(scan_topic'[j], "C") = {}
  <2>1. i # Len(scan_topic') /\ j = Len(scan_topic')
    BY <1>3, <1>6
  <2>2. QED  BY <1>1, <1>3, <1>5, <2>1
<1>7. QED  BY <1>2, <1>3, <1>5, <1>6 DEF Samples

(* Taking sample k of the scan topic keeps the others and the map true. *)
LEMMA ReceiveSamples ==
  ASSUME Samples, MapIsTrue, ExplorerReceivesScan, UNCHANGED world
  PROVE  Samples' /\ MapIsTrue'
<1>1. PICK k \in 1 .. Len(scan_topic) :
        on_local_scan(scan_topic[k]) /\ scan_topic' = After(scan_topic, k)
  BY DEF ExplorerReceivesScan
<1> DEFINE s == scan_topic[k]
<1>2. PICK w \in WorldState : s = ScanOf(w)
  BY SampleIsScan DEF Scans
<1>3. /\ \A p \in DOMAIN s.cells : s.cells[p] = "#" <=> ~ is_passable(p)
      /\ Reported(s, "x") \cap Reported(s, "C") = {}
  BY <1>2, ScanSays DEF Reported
<1>4. /\ Reported(s, "x") \subseteq world.contacts_down
      /\ Reported(s, "C") \cap processed_contacts = {}
      /\ processed_contacts' = processed_contacts \cup Reported(s, "x")
  BY <1>1 DEF Samples, on_local_scan
<1>5. Samples'
  <2>1. /\ scan_topic' \in Seq(Scans) /\ Len(scan_topic') = Len(scan_topic) - k
        /\ \A i \in 1 .. Len(scan_topic) - k : scan_topic'[i] = scan_topic[k + i]
    BY <1>1, AfterFacts DEF Samples
  <2>2. ASSUME NEW i \in 1 .. Len(scan_topic')
        PROVE  /\ k + i \in 1 .. Len(scan_topic)
               /\ scan_topic'[i] = scan_topic[k + i] /\ k < k + i
               /\ Reported(scan_topic'[i], "x") \subseteq world.contacts_down
               /\ Reported(scan_topic'[i], "C") \cap processed_contacts' = {}
    <3>1. Len(scan_topic) \in Nat /\ k \in Nat /\ i \in Nat
      BY DEF Samples
    <3>2. k + i \in 1 .. Len(scan_topic) /\ scan_topic'[i] = scan_topic[k + i] /\ k < k + i
      BY <2>1, <3>1
    <3>3. QED  BY <1>4, <3>2 DEF Samples
  <2>3. ASSUME NEW i \in 1 .. Len(scan_topic'), NEW j \in 1 .. Len(scan_topic'), i < j
        PROVE  Reported(scan_topic'[i], "x") \cap Reported(scan_topic'[j], "C") = {}
    <3>1. k + i < k + j
      BY <2>3
    <3>2. QED  BY <2>2, <3>1 DEF Samples
  <2>4. Len(scan_topic') <= 2
    <3>1. \A m \in Nat : \A n \in 1 .. m : m <= 2 => m - n <= 2
      OBVIOUS
    <3>2. QED  BY <2>1, <3>1 DEF Samples
  <2>5. QED  BY <2>1, <2>2, <2>3, <2>4 DEF Samples
<1> HIDE DEF s
<1>6. MapIsTrue'
  <2>1. \A p \in DOMAIN known_cells' : known_cells'[p] = "#" <=> ~ is_passable(p)
    BY <1>1, <1>3 DEF on_local_scan, Merge, MapIsTrue, s
  <2>2. processed_contacts' \subseteq world'.contacts_down
    BY <1>4 DEF MapIsTrue
  <2>3. /\ active_contacts' = (active_contacts \cup Reported(s, "C")) \ processed_contacts'
        /\ visible_contacts' = Reported(s, "C")
    BY <1>1 DEF on_local_scan, ForgetProcessed, VisibleAfter, s
  <2>4. QED  BY <1>3, <1>4, <2>1, <2>2, <2>3 DEF MapIsTrue
<1>7. QED  BY <1>5, <1>6

(* Samples and MapIsTrue concern the world, the map and the scan topic. *)
LEMMA QuietSamples ==
  ASSUME Samples, MapIsTrue, Quiet
  PROVE  Samples' /\ MapIsTrue'
BY DEF Quiet, mapVars, Samples, MapIsTrue

(* A restarted explorer knows nothing and is shown the present world. *)
LEMMA RestartSamples ==
  ASSUME WorldInv, ExplorerRestarts, UNCHANGED <<world, published>>
  PROVE  /\ Samples' /\ MapIsTrue'
         /\ scan_topic' \in {<< >>, <<ScanOf(world)>>}
         /\ result_topic' \in {<< >>, <<result(world)>>}
<1>1. /\ scan_topic' = LatchedScan /\ result_topic' = LatchedResult
      /\ known_cells' = << >> /\ active_contacts' = {} /\ processed_contacts' = {}
      /\ visible_contacts' = {}
  BY DEF ExplorerRestarts
<1>2. LatchedScan \in {<< >>, <<ScanOf(world)>>} /\ LatchedResult \in {<< >>, <<result(world)>>}
  <2>1. CASE published = NotPublished
    BY <2>1 DEF NotPublished, LatchedScan, LatchedResult
  <2>2. CASE published # NotPublished
    <3>1. published = <<SnapshotOf(world)>>
      BY <2>2 DEF WorldInv
    <3>2. Len(published) = 1 /\ published[1].scan = ScanOf(world) /\ published[1].result = result(world)
      BY <3>1 DEF SnapshotOf
    <3>3. QED  BY <3>2 DEF LatchedScan, LatchedResult
  <2>3. QED  BY <2>1, <2>2
<1>3. /\ ScanOf(world) \in Scans
      /\ Reported(ScanOf(world), "x") \subseteq world.contacts_down
  BY ScanSays DEF WorldInv, Scans
<1>4. MapIsTrue'
  BY <1>1 DEF MapIsTrue
<1>5. Samples'
  <2>1. CASE scan_topic' = << >>
    BY <2>1 DEF Samples
  <2>2. CASE scan_topic' = <<ScanOf(world)>>
    <3>1. <<ScanOf(world)>> \in Seq(Scans) /\ Len(<<ScanOf(world)>>) = 1
      BY <1>3
    <3>2. scan_topic' \in Seq(Scans) /\ Len(scan_topic') = 1 /\ scan_topic'[1] = ScanOf(world)
      BY <2>2, <3>1
    <3>3. QED  BY <1>1, <1>3, <3>2 DEF Samples
  <2>3. QED  BY <1>1, <1>2, <2>1, <2>2
<1>6. QED  BY <1>1, <1>2, <1>4, <1>5

(* The outcome of a mission stays. *)
LEMMA OutcomeStays ==
  ASSUME WorldInv, WorldSteps, result(world) # "RUNNING"
  PROVE  result(world') = result(world)
<1>1. world' = world
  BY TerminalStep DEF terminal
<1>2. QED  BY <1>1

(* The results on their way and the report made of them stay true. *)
LEMMA NextResults ==
  ASSUME WorldInv, WorldInv', Queues, Results, Next
  PROVE  Results'
<1> USE DEF Results
<1>1. WorldSteps
  BY StepKinds
<1>2. ASSUME NEW r, Settled(r)
      PROVE  r \in {"SUCCESS", "FAILED_MAX_STEPS"} => result(world') = r
  BY <1>1, <1>2, OutcomeStays DEF Settled
<1>3. status = "FAILED" => result(world') = "FAILED_MAX_STEPS"
  BY <1>1, OutcomeStays
<1>4. CASE Publishes
  <2>1. result(world') \in Outcome
    BY ResultFacts DEF WorldInv
  <2>2. /\ result_topic' \in Seq(Outcome) /\ Len(result_topic') \in 1 .. 2
        /\ result_topic'[Len(result_topic')] = result(world')
        /\ Len(result_topic') = 2
             => Len(result_topic) > 0 /\ result_topic'[1] = result_topic[Len(result_topic)]
    BY <1>4, <2>1, LatchFacts DEF Publishes
  <2>3. ASSUME NEW i \in 1 .. Len(result_topic'),
               result_topic'[i] \in {"SUCCESS", "FAILED_MAX_STEPS"}
        PROVE  result(world') = result_topic'[i]
    <3>1. CASE i = Len(result_topic')
      BY <2>2, <2>3, <3>1
    <3>2. CASE i # Len(result_topic')
      <4>1. i = 1 /\ Len(result_topic') = 2
        BY <2>2, <3>2
      <4>2. Len(result_topic) \in 1 .. Len(result_topic) /\ result_topic'[i] = result_topic[Len(result_topic)]
        BY <2>2, <4>1
      <4>3. QED  BY <1>2, <2>3, <4>2
    <3>3. QED  BY <3>1, <3>2
  <2>4. latest_result' = latest_result /\ status' = status
    BY <1>4 DEF Publishes, explorerVars
  <2>5. QED  BY <1>2, <1>3, <2>2, <2>3, <2>4 DEF Settled
<1>5. CASE Quiet
  BY <1>1, <1>2, <1>3, <1>5 DEF Quiet, Settled
<1>6. CASE ExplorerReceivesScan
  BY <1>1, <1>2, <1>3, <1>6 DEF ExplorerReceivesScan, on_local_scan, Settled
<1>7. CASE ExplorerReceivesResult
  <2>1. PICK k \in 1 .. Len(result_topic) :
          on_result(result_topic[k]) /\ result_topic' = After(result_topic, k)
    BY <1>7 DEF ExplorerReceivesResult
  <2>2. /\ result_topic' \in Seq(Outcome) /\ Len(result_topic') = Len(result_topic) - k
        /\ \A i \in 1 .. Len(result_topic) - k : result_topic'[i] = result_topic[k + i]
    BY <2>1, AfterFacts
  <2>3. Len(result_topic') <= 2
    <3>1. \A m \in Nat : \A n \in 1 .. m : m <= 2 => m - n <= 2
      OBVIOUS
    <3>2. QED  BY <2>2, <3>1
  <2>4. ASSUME NEW i \in 1 .. Len(result_topic')
        PROVE  k + i \in 1 .. Len(result_topic) /\ result_topic'[i] = result_topic[k + i]
    <3>1. Len(result_topic) \in Nat /\ k \in Nat /\ i \in Nat
      OBVIOUS
    <3>2. QED  BY <2>2, <3>1
  <2>5. latest_result' = result_topic[k] /\ status' = status
    BY <2>1 DEF on_result
  <2>6. QED  BY <1>2, <1>3, <2>2, <2>3, <2>4, <2>5 DEF Settled
<1>8. CASE ExplorerRestarts
  <2>1. latest_result' = "" /\ status' = "NONE" /\ UNCHANGED <<world, published>>
    BY <1>8 DEF ExplorerRestarts, worldVars
  <2>2. result_topic' \in {<< >>, <<result(world)>>}
    BY <1>8, <2>1, RestartSamples
  <2>3. result(world) \in Outcome
    BY ResultFacts DEF WorldInv
  <2>4. CASE result_topic' = << >>
    <3>1. result_topic' \in Seq(Outcome)
      BY <2>4, NoSample
    <3>2. Len(result_topic') <= 2
      BY <2>4, NoSample
    <3>3. \A i \in 1 .. Len(result_topic') : FALSE
      BY <2>4, NoSample
    <3>4. latest_result' \notin {"SUCCESS", "FAILED_MAX_STEPS"} /\ status' # "FAILED"
      BY <2>1
    <3>5. QED  BY <3>1, <3>2, <3>3, <3>4 DEF Settled
  <2>5. CASE result_topic' = <<result(world)>>
    <3>1. <<result(world)>> \in Seq(Outcome) /\ Len(<<result(world)>>) = 1
      BY <2>3
    <3>2. result_topic' \in Seq(Outcome) /\ Len(result_topic') = 1 /\ result_topic'[1] = result(world)
      BY <2>5, <3>1
    <3>3. result(world') = result(world)
      BY <2>1
    <3>4. \A i \in 1 .. Len(result_topic') : result_topic'[i] = result(world')
      BY <3>2, <3>3
    <3>5. latest_result' \notin {"SUCCESS", "FAILED_MAX_STEPS"} /\ status' # "FAILED"
      BY <2>1
    <3>6. QED  BY <3>2, <3>4, <3>5 DEF Settled
  <2>6. QED  BY <2>2, <2>4, <2>5
<1>9. QED  BY <1>4, <1>5, <1>6, <1>7, <1>8, StepKinds

(* The nodes start with empty queues and an empty map. *)
LEMMA InitIInv == Init => IInv
<1> SUFFICES ASSUME Init
             PROVE  IInv
  OBVIOUS
<1>1. WorldInv
  BY InitWorldInv DEF Init
<1>2. << >> \in Seq(Direction) /\ << >> \in Seq(Cells) /\ << >> \in Seq(BOOLEAN)
      /\ << >> \in Seq(Scans) /\ << >> \in Seq(Outcome)
  OBVIOUS
<1>3. Queues
  BY <1>2 DEF Init, WorldInit, ExplorerInit, Queues
<1>4. Samples /\ MapIsTrue
  <2>1. scan_topic = << >> /\ known_cells = << >> /\ active_contacts = {}
        /\ processed_contacts = {} /\ visible_contacts = {}
    BY DEF Init, ExplorerInit
  <2>2. Len(scan_topic) = 0 /\ \A i \in 1 .. Len(scan_topic) : FALSE
    BY <2>1, NoSample
  <2>3. Samples
    BY <1>2, <2>1, <2>2 DEF Samples
  <2>4. DOMAIN known_cells = {}
    BY <2>1
  <2>5. QED  BY <2>1, <2>3, <2>4 DEF MapIsTrue
<1>5. Results
  <2>1. result_topic = << >> /\ latest_result = "" /\ status = "NONE"
    BY DEF Init, ExplorerInit
  <2>2. Len(result_topic) = 0 /\ \A i \in 1 .. Len(result_topic) : FALSE
    BY <2>1, NoSample
  <2>3. Settled(latest_result) /\ status # "FAILED"
    BY <2>1 DEF Settled
  <2>4. result_topic \in Seq(Outcome)
    BY <1>2, <2>1
  <2>5. Len(result_topic) <= 2
    BY <2>2
  <2>6. QED  BY <2>2, <2>3, <2>4, <2>5 DEF Results
<1>6. QED  BY <1>1, <1>3, <1>4, <1>5 DEF IInv

(* Every step keeps the invariant. *)
LEMMA NextIInv == IInv /\ [Next]_vars => IInv'
<1> SUFFICES ASSUME IInv, [Next]_vars
             PROVE  IInv'
  OBVIOUS
<1>1. CASE Next
  <2>1. WorldSteps /\ WorldInv'
    BY <1>1, StepKinds, StepWorldInv DEF IInv
  <2>2. world.contacts_down \subseteq world'.contacts_down
    BY <2>1, DownStays DEF IInv
  <2>3. Queues' /\ Results'
    BY <1>1, <2>1, NextQueues, NextResults DEF IInv
  <2>4. Samples' /\ MapIsTrue'
    <3>1. CASE Publishes
      BY <2>1, <2>2, <3>1, PublishSamples DEF IInv, MapIsTrue, Publishes, explorerVars
    <3>2. CASE Quiet
      BY <3>2, QuietSamples DEF IInv
    <3>3. CASE ExplorerReceivesScan
      BY <3>3, OtherSteps, ReceiveSamples DEF IInv
    <3>4. CASE ExplorerReceivesResult
      BY <3>4 DEF IInv, ExplorerReceivesResult, on_result, worldVars, mapVars, Samples, MapIsTrue
    <3>5. CASE ExplorerRestarts
      BY <3>5, OtherSteps, RestartSamples DEF IInv
    <3>6. QED  BY <1>1, <3>1, <3>2, <3>3, <3>4, <3>5, StepKinds DEF IInv
  <2>5. QED  BY <2>1, <2>3, <2>4 DEF IInv
<1>2. CASE UNCHANGED vars
  BY <1>2 DEF vars, worldVars, explorerVars, network, stateTopics, service, IInv, WorldInv, Queues,
              Samples, MapIsTrue, Results, Settled
<1>3. QED  BY <1>1, <1>2

(* The invariant holds whatever is lost, overtaken or restarted. *)
THEOREM Invariance == Spec => []IInv
BY InitIInv, NextIInv, PTL DEF Spec

(* The explorer's map never shows a wall where there is none, nor a        *)
(* contact processed that is not down, whatever is overtaken or restarted. *)
THEOREM MapAlwaysTrue == Spec => []MapIsTrue
<1>1. IInv => MapIsTrue
  BY DEF IInv
<1>2. QED  BY <1>1, Invariance, PTL

(* FAILED is reported only of a mission whose budget is spent unfinished. *)
THEOREM FailureReportIsTrue == Spec => []FailedIsHonest
<1>1. IInv => FailedIsHonest
  BY DEF IInv, Results, FailedIsHonest
<1>2. QED  BY <1>1, Invariance, PTL

(* What the world publishes is a mission as Mission.tla promises it,       *)
(* explorer, payload, late discovery and restarts included.                *)
THEOREM MissionRefinement == Spec => ImplementsMission
<1>1. Init => AbstractMission!Init
  BY InitRefines DEF Init
<1>2. IInv /\ [Next]_vars
        => [AbstractMission!Progress]_<<world.visible_passable_cells, world.contacts_down,
                                        AnnouncedOutcome>>
  <2> SUFFICES ASSUME IInv, [Next]_vars
               PROVE  [AbstractMission!Progress]_<<world.visible_passable_cells,
                                                   world.contacts_down, AnnouncedOutcome>>
    OBVIOUS
  <2>1. WorldSteps
    BY StepKinds DEF IInv, WorldSteps, vars, worldVars
  <2>2. QED  BY <2>1, StepRefines DEF IInv
<1>3. QED
  BY <1>1, <1>2, Invariance, PTL DEF Spec, ImplementsMission, AbstractMission!Spec

-------------------------------------------------------------------------------
(* Without restarts the nodes pass one stimulus around. *)

(* A pending contact is on its way to being reported down, unless the      *)
(* request or the report was lost, or came after the end.                  *)
Served(c) ==
  \/ lost \/ terminal(world)
  \/ trigger_requests = <<c>> \/ enemy_down_topic = <<c>>
  \/ scan_topic # << >> /\ c \notin ActiveAround(world)

ScanIsCurrent == scan_topic # << >> => scan_topic = <<ScanOf(world)>>

Relay ==
  /\ OneStimulus
  /\ ScanIsCurrent
  /\ ActsOnCurrentScan
  /\ \A c \in pending_contact : Served(c)
  /\ NoSilentStall

(* The explorer is told of nothing, and nothing it sent is on its way. *)
Silent ==
  /\ ~ unacted_scan /\ scan_topic = << >>
  /\ move_topic = << >> /\ trigger_requests = << >>

(* A queue of length zero is empty, one of length one holds its head. *)
LEMMA ShortQueue ==
  ASSUME NEW S, NEW q \in Seq(S)
  PROVE  /\ Len(q) \in Nat /\ (Len(q) = 0 <=> q = << >>)
         /\ Len(q) = 1 => q = <<Head(q)>> /\ Tail(q) = << >>
<1>1. Len(q) \in Nat /\ (Len(q) = 0 <=> q = << >>)
  BY EmptySeq, LenProperties
<1>2. ASSUME Len(q) = 1
      PROVE  q = <<Head(q)>> /\ Tail(q) = << >>
  <2>1. q # << >>
    BY <1>1, <1>2
  <2>2. Tail(q) \in Seq(S) /\ Len(Tail(q)) = 0
    BY <1>2, <2>1, HeadTail
  <2>3. q = <<Head(q)>>
    BY <1>2
  <2>4. QED  BY <2>2, <2>3, EmptySeq
<1>3. QED  BY <1>1, <1>2

(* With one stimulus, where it is nothing else is. *)
LEMMA Alone ==
  ASSUME Queues, Samples, OneStimulus
  PROVE  /\ Stimuli \in Nat
         /\ initial_timer => Silent /\ pending_moves = << >> /\ enemy_down_topic = << >>
         /\ pending_moves # << >> =>
              /\ Silent /\ ~ initial_timer /\ Tail(pending_moves) = << >>
              /\ enemy_down_topic = << >>
         /\ unacted_scan =>
              /\ ~ initial_timer /\ pending_moves = << >> /\ scan_topic = << >> /\ move_topic = << >>
              /\ trigger_requests = << >> /\ enemy_down_topic = << >>
         /\ scan_topic # << >> =>
              /\ ~ initial_timer /\ pending_moves = << >> /\ ~ unacted_scan /\ move_topic = << >>
              /\ trigger_requests = << >> /\ enemy_down_topic = << >> /\ Len(scan_topic) = 1
         /\ move_topic # << >> =>
              /\ ~ initial_timer /\ pending_moves = << >> /\ ~ unacted_scan /\ scan_topic = << >>
              /\ trigger_requests = << >> /\ enemy_down_topic = << >>
              /\ Tail(move_topic) = << >>
         /\ trigger_requests # << >> =>
              /\ ~ initial_timer /\ pending_moves = << >> /\ ~ unacted_scan /\ scan_topic = << >>
              /\ move_topic = << >> /\ enemy_down_topic = << >>
              /\ trigger_requests = <<Head(trigger_requests)>> /\ Tail(trigger_requests) = << >>
         /\ enemy_down_topic # << >> =>
              /\ Silent /\ ~ initial_timer /\ pending_moves = << >>
              /\ enemy_down_topic = <<Head(enemy_down_topic)>> /\ Tail(enemy_down_topic) = << >>
<1>1. /\ Len(scan_topic) \in Nat /\ (Len(scan_topic) = 0 <=> scan_topic = << >>)
      /\ Len(move_topic) \in Nat /\ (Len(move_topic) = 0 <=> move_topic = << >>)
      /\ Len(pending_moves) \in Nat /\ (Len(pending_moves) = 0 <=> pending_moves = << >>)
      /\ Len(trigger_requests) \in Nat /\ (Len(trigger_requests) = 0 <=> trigger_requests = << >>)
      /\ Len(enemy_down_topic) \in Nat /\ (Len(enemy_down_topic) = 0 <=> enemy_down_topic = << >>)
  BY ShortQueue DEF Queues, Samples
<1>2. /\ Len(move_topic) = 1 => Tail(move_topic) = << >>
      /\ Len(pending_moves) = 1 => Tail(pending_moves) = << >>
      /\ Len(trigger_requests) = 1 =>
           trigger_requests = <<Head(trigger_requests)>> /\ Tail(trigger_requests) = << >>
      /\ Len(enemy_down_topic) = 1 =>
           enemy_down_topic = <<Head(enemy_down_topic)>> /\ Tail(enemy_down_topic) = << >>
  BY ShortQueue DEF Queues
<1> DEFINE t == One(initial_timer)
           u == One(unacted_scan)
           a == Len(scan_topic)
           b == Len(move_topic)
           c == Len(pending_moves)
           d == Len(trigger_requests)
           e == Len(enemy_down_topic)
<1>3. /\ t \in 0 .. 1 /\ (t = 1 <=> initial_timer)
      /\ u \in 0 .. 1 /\ (u = 1 <=> unacted_scan)
  BY DEF One
<1>4. /\ Stimuli = t + u + a + b + c + d + e /\ Stimuli <= 1
      /\ a \in Nat /\ b \in Nat /\ c \in Nat /\ d \in Nat /\ e \in Nat
  BY <1>1 DEF Stimuli, OneStimulus
<1> HIDE DEF t, u, a, b, c, d, e
<1>5. /\ Stimuli \in Nat
      /\ t = 1 => u = 0 /\ a = 0 /\ b = 0 /\ c = 0 /\ d = 0 /\ e = 0
      /\ u = 1 => t = 0 /\ a = 0 /\ b = 0 /\ c = 0 /\ d = 0 /\ e = 0
      /\ a # 0 => a = 1 /\ t = 0 /\ u = 0 /\ b = 0 /\ c = 0 /\ d = 0 /\ e = 0
      /\ b # 0 => b = 1 /\ t = 0 /\ u = 0 /\ a = 0 /\ c = 0 /\ d = 0 /\ e = 0
      /\ c # 0 => c = 1 /\ t = 0 /\ u = 0 /\ a = 0 /\ b = 0 /\ d = 0 /\ e = 0
      /\ d # 0 => d = 1 /\ t = 0 /\ u = 0 /\ a = 0 /\ b = 0 /\ c = 0 /\ e = 0
      /\ e # 0 => e = 1 /\ t = 0 /\ u = 0 /\ a = 0 /\ b = 0 /\ c = 0 /\ d = 0
  BY <1>3, <1>4
<1>6. ASSUME initial_timer \/ pending_moves # << >>
      PROVE  /\ Silent /\ (initial_timer => pending_moves = << >>)
             /\ pending_moves # << >> => ~ initial_timer /\ Tail(pending_moves) = << >>
             /\ enemy_down_topic = << >>
  BY <1>1, <1>2, <1>3, <1>5, <1>6 DEF Silent, a, b, c, d, e
<1>7. ASSUME unacted_scan
      PROVE  /\ ~ initial_timer /\ pending_moves = << >> /\ scan_topic = << >> /\ move_topic = << >>
             /\ trigger_requests = << >> /\ enemy_down_topic = << >>
  BY <1>1, <1>2, <1>3, <1>5, <1>7 DEF a, b, c, d, e
<1>8. ASSUME scan_topic # << >>
       PROVE  /\ ~ initial_timer /\ pending_moves = << >> /\ ~ unacted_scan /\ move_topic = << >>
              /\ trigger_requests = << >> /\ enemy_down_topic = << >> /\ Len(scan_topic) = 1
  BY <1>1, <1>2, <1>3, <1>5, <1>8 DEF a, b, c, d, e
<1>9. ASSUME move_topic # << >>
       PROVE  /\ ~ initial_timer /\ pending_moves = << >> /\ ~ unacted_scan /\ scan_topic = << >>
              /\ trigger_requests = << >> /\ enemy_down_topic = << >>
              /\ Tail(move_topic) = << >>
  BY <1>1, <1>2, <1>3, <1>5, <1>9 DEF a, b, c, d, e
<1>10. ASSUME trigger_requests # << >>
       PROVE  /\ ~ initial_timer /\ pending_moves = << >> /\ ~ unacted_scan /\ scan_topic = << >>
              /\ move_topic = << >> /\ enemy_down_topic = << >>
              /\ trigger_requests = <<Head(trigger_requests)>> /\ Tail(trigger_requests) = << >>
  BY <1>1, <1>2, <1>3, <1>5, <1>10 DEF a, b, c, d, e
<1>11. ASSUME enemy_down_topic # << >>
       PROVE  /\ Silent /\ ~ initial_timer /\ pending_moves = << >>
              /\ enemy_down_topic = <<Head(enemy_down_topic)>> /\ Tail(enemy_down_topic) = << >>
  BY <1>1, <1>2, <1>3, <1>5, <1>11 DEF Silent, a, b, c, d, e
<1>12. Stimuli \in Nat
  BY <1>5
<1>13. QED  BY <1>6, <1>7, <1>8, <1>9, <1>10, <1>11, <1>12

(* The first message of an empty queue is alone in it. *)
LEMMA FirstMessage ==
  ASSUME NEW x
  PROVE  Append(<< >>, x) = <<x>> /\ Latch(<< >>, x) = <<x>> /\ Len(<<x>>) = 1 /\ <<x>> # << >>
BY DEF Latch

(* A publication is the only stimulus after it when there was no other. *)
LEMMA PublishRelays ==
  ASSUME IInv, Relay, WorldSteps, Publishes, Silent,
         ~ initial_timer', pending_moves' = << >>,
         UNCHANGED <<move_topic, trigger_requests, lost, restarts>>, enemy_down_topic' = << >>,
         \A c \in pending_contact : lost \/ terminal(world) \/ c \notin ActiveAround(world')
  PROVE  Relay'
<1>1. scan_topic' = <<ScanOf(world')>> /\ scan_topic' # << >>
  BY FirstMessage DEF Publishes, Silent
<1>2. ~ unacted_scan' /\ pending_contact' = pending_contact
  BY DEF Publishes, explorerVars, Silent
<1>3. Stimuli' = 1
  <2>1. Len(scan_topic') = 1
    BY <1>1, FirstMessage
  <2>2. Len(move_topic') = 0 /\ Len(pending_moves') = 0 /\ Len(trigger_requests') = 0
        /\ Len(enemy_down_topic') = 0
    BY NoSample DEF Silent
  <2>3. One(initial_timer)' = 0 /\ One(unacted_scan)' = 0
    BY <1>2 DEF One
  <2>4. QED  BY <2>1, <2>2, <2>3 DEF Stimuli
<1>4. terminal(world) => terminal(world')
  <2>1. terminal(world) => world' = world
    BY TerminalStep DEF IInv
  <2>2. QED  BY <2>1
<1>5. \A c \in pending_contact' : Served(c)'
  BY <1>1, <1>2, <1>4 DEF Served
<1>6. ScanIsCurrent' /\ ActsOnCurrentScan'
  BY <1>1, <1>2 DEF Relay, ScanIsCurrent, ActsOnCurrentScan
<1>7. OneStimulus' /\ NoSilentStall'
  BY <1>3 DEF OneStimulus, NoSilentStall
<1>8. QED  BY <1>5, <1>6, <1>7 DEF Relay

(* The contact a hit report is about is not active around the robot when   *)
(* a running world has processed the report.                               *)
LEMMA ReportedIsDown ==
  ASSUME NEW w \in WorldState, NEW c \in Cells, ~ terminal(w)
  PROVE  c \notin ActiveAround(make_scan(apply_enemy_down(w, c, c)))
<1> DEFINE v == apply_enemy_down(w, c, c)
<1>1. v \in WorldState /\ v.robot = w.robot
  BY TriggerFacts
<1>2. w.contacts_down \subseteq v.contacts_down
  BY TriggerFacts
<1>3. make_scan(v).robot = w.robot /\ make_scan(v).contacts_down = v.contacts_down
  BY <1>1, ScanFacts
<1>4. CASE c \notin contacts
  BY <1>4 DEF ActiveAround
<1>5. CASE contact_is_down(w, c)
  BY <1>2, <1>3, <1>5 DEF contact_is_down, ActiveAround
<1>6. CASE ~ is_visible(w, c)
  <2>1. c \notin Window(w.robot)
    BY <1>6 DEF is_visible, Window
  <2>2. QED  BY <1>3, <2>1 DEF ActiveAround
<1>7. CASE c \in contacts /\ ~ contact_is_down(w, c) /\ is_visible(w, c)
  <2>1. v = [w EXCEPT !.contacts_seen = @ \cup {c}, !.contacts_down = @ \cup {c}]
    BY <1>7 DEF apply_enemy_down
  <2>2. c \in v.contacts_down
    BY <2>1 DEF WorldState
  <2>3. QED  BY <1>3, <2>2 DEF ActiveAround, contact_is_down
<1>8. QED  BY <1>4, <1>5, <1>6, <1>7

(* The steps of the world. *)
LEMMA WorldRelays ==
  ASSUME IInv, Relay,
         WorldStarts \/ WorldReceivesMove \/ WorldCommitsMove \/ WorldDropsMoves
           \/ WorldReceivesEnemyDown
  PROVE  Relay'
<1> USE DEF IInv, Relay
<1>1. CASE WorldStarts
  <2>1. initial_timer
    BY <1>1 DEF WorldStarts, InitialPublish
  <2>2. Silent /\ pending_moves = << >> /\ enemy_down_topic = << >>
    BY <2>1, Alone
  <2>3. WorldSteps /\ Publishes
    BY <1>1, PublishesFacts DEF WorldStarts, InitialPublish, WorldSteps
  <2>4. \A c \in pending_contact : lost \/ terminal(world) \/ c \notin ActiveAround(world')
    BY <2>2, FirstMessage DEF Served, Silent
  <2>5. ~ initial_timer' /\ pending_moves' = << >> /\ enemy_down_topic' = << >>
        /\ UNCHANGED <<move_topic, trigger_requests, lost, restarts>>
    BY <1>1, <2>2 DEF WorldStarts, InitialPublish, Silent, service
  <2>6. QED  BY <2>2, <2>3, <2>4, <2>5, PublishRelays
<1>2. CASE WorldReceivesMove
  <2>1. /\ ~ initial_timer /\ pending_moves = << >> /\ ~ unacted_scan /\ scan_topic = << >>
        /\ trigger_requests = << >> /\ enemy_down_topic = << >> /\ Tail(move_topic) = << >>
    BY <1>2, Alone DEF WorldReceivesMove
  <2>2. /\ pending_moves' = <<Head(move_topic)>> /\ move_topic' = << >>
        /\ UNCHANGED <<world, initial_timer, explorerVars, scan_topic, trigger_requests,
                       enemy_down_topic, lost, restarts>>
    BY <1>2, <2>1, FirstMessage DEF WorldReceivesMove, on_move, stateTopics, service
  <2>3. Stimuli' = 1
    <3>1. Len(pending_moves') = 1
      BY <2>2, FirstMessage
    <3>2. Len(move_topic') = 0 /\ Len(scan_topic') = 0 /\ Len(trigger_requests') = 0
          /\ Len(enemy_down_topic') = 0
      BY <2>1, <2>2, NoSample
    <3>3. One(initial_timer)' = 0 /\ One(unacted_scan)' = 0
      BY <2>1, <2>2 DEF One, explorerVars
    <3>4. QED  BY <3>1, <3>2, <3>3 DEF Stimuli
  <2>4. \A c \in pending_contact' : Served(c)'
    BY <2>2 DEF Served, explorerVars
  <2>5. ScanIsCurrent' /\ ActsOnCurrentScan'
    BY <2>1, <2>2 DEF ScanIsCurrent, ActsOnCurrentScan, explorerVars
  <2>6. QED  BY <2>2, <2>3, <2>4, <2>5 DEF OneStimulus, NoSilentStall
<1>3. CASE WorldCommitsMove
  <2>1. pending_moves # << >>
    BY <1>3 DEF WorldCommitsMove, CommitMove
  <2>2. Silent /\ ~ initial_timer /\ Tail(pending_moves) = << >> /\ enemy_down_topic = << >>
    BY <2>1, Alone
  <2>3. WorldSteps
    BY <1>3, WorldNodeSteps
  <2>4. Publishes
    BY <1>3, PublishesFacts DEF WorldCommitsMove, CommitMove
  <2>5. \A c \in pending_contact : lost \/ terminal(world) \/ c \notin ActiveAround(world')
    BY <2>2, FirstMessage DEF Served, Silent
  <2>6. ~ initial_timer' /\ pending_moves' = << >> /\ enemy_down_topic' = << >>
        /\ UNCHANGED <<move_topic, trigger_requests, lost, restarts>>
    BY <1>3, <2>2 DEF WorldCommitsMove, CommitMove, Silent, service
  <2>7. QED  BY <2>2, <2>3, <2>4, <2>5, <2>6, PublishRelays
<1>4. CASE WorldDropsMoves
  <2>1. pending_moves # << >> /\ terminal(world) /\ pending_moves' = << >>
        /\ UNCHANGED <<world, initial_timer, explorerVars, scan_topic, move_topic,
                       trigger_requests, enemy_down_topic, lost, restarts>>
    BY <1>4 DEF WorldDropsMoves, DropMoves, network, stateTopics, service
  <2>2. Silent /\ ~ initial_timer /\ enemy_down_topic = << >>
    BY <2>1, Alone
  <2>3. Stimuli' = 0
    <3>1. Len(pending_moves') = 0 /\ Len(move_topic') = 0 /\ Len(scan_topic') = 0
          /\ Len(trigger_requests') = 0 /\ Len(enemy_down_topic') = 0
      BY <2>1, <2>2, NoSample DEF Silent
    <3>2. One(initial_timer)' = 0 /\ One(unacted_scan)' = 0
      BY <2>1, <2>2 DEF One, explorerVars, Silent
    <3>3. QED  BY <3>1, <3>2 DEF Stimuli
  <2>4. terminal(world')
    BY <2>1
  <2>5. \A c \in pending_contact' : Served(c)'
    BY <2>4 DEF Served
  <2>6. ScanIsCurrent' /\ ActsOnCurrentScan'
    BY <2>1, <2>2 DEF ScanIsCurrent, ActsOnCurrentScan, explorerVars, Silent
  <2>7. QED  BY <2>1, <2>3, <2>4, <2>5, <2>6 DEF OneStimulus, NoSilentStall
<1>5. CASE WorldReceivesEnemyDown
  <2>1. enemy_down_topic # << >>
    BY <1>5 DEF WorldReceivesEnemyDown
  <2> DEFINE h == Head(enemy_down_topic)
  <2>2. /\ Silent /\ ~ initial_timer /\ pending_moves = << >>
        /\ enemy_down_topic = <<h>> /\ Tail(enemy_down_topic) = << >> /\ h \in Cells
    BY <2>1, Alone, HeadTail DEF Queues
  <2>3. WorldSteps
    BY <1>5, WorldNodeSteps
  <2>4. Publishes
    BY <1>5, PublishesFacts DEF WorldReceivesEnemyDown, on_enemy_down
  <2>5. terminal(world) \/ h \notin ActiveAround(world')
    <3>1. world' = make_scan(apply_enemy_down(world, h, h))
      BY <1>5 DEF WorldReceivesEnemyDown, on_enemy_down, publish_state
    <3>2. QED  BY <2>2, <3>1, ReportedIsDown DEF WorldInv
  <2>6. \A c \in pending_contact : lost \/ terminal(world) \/ c \notin ActiveAround(world')
    <3>1. ASSUME NEW c, enemy_down_topic = <<c>>
          PROVE  c = h
      BY <3>1
    <3>2. QED  BY <2>2, <2>5, <3>1, FirstMessage DEF Served, Silent
  <2>7. ~ initial_timer' /\ pending_moves' = << >> /\ enemy_down_topic' = << >>
        /\ UNCHANGED <<move_topic, trigger_requests, lost, restarts>>
    BY <1>5, <2>2 DEF WorldReceivesEnemyDown, on_enemy_down, service
  <2>8. QED  BY <2>2, <2>3, <2>4, <2>6, <2>7, PublishRelays
<1>6. QED  BY <1>1, <1>2, <1>3, <1>4, <1>5

(* What is left alone when no scan and no command is involved. *)
LEMMA FrameRelays ==
  ASSUME Relay, UNCHANGED <<world, scan_topic, current_position, visible_contacts>>,
         unacted_scan' => unacted_scan
  PROVE  ScanIsCurrent' /\ ActsOnCurrentScan'
BY DEF Relay, ScanIsCurrent, ActsOnCurrentScan

(* The payload turns a request into a report, or loses it. *)
LEMMA PayloadRelays ==
  ASSUME IInv, Relay, PayloadTriggers
  PROVE  Relay'
<1> USE DEF IInv, Relay
<1> DEFINE h == Head(trigger_requests)
<1>1. /\ ~ initial_timer /\ pending_moves = << >> /\ ~ unacted_scan /\ scan_topic = << >>
      /\ move_topic = << >> /\ enemy_down_topic = << >>
      /\ trigger_requests = <<h>> /\ Tail(trigger_requests) = << >>
  BY Alone DEF PayloadTriggers
<1>2. /\ trigger_requests' = << >>
      /\ UNCHANGED <<world, initial_timer, pending_moves, explorerVars, scan_topic, move_topic, restarts>>
      /\ \/ enemy_down_topic' = <<h>> /\ lost' = lost
         \/ enemy_down_topic' = << >> /\ lost'
  BY <1>1, FirstMessage DEF PayloadTriggers, worldVars, stateTopics
<1>3. ScanIsCurrent' /\ ActsOnCurrentScan'
  BY <1>1, <1>2, FrameRelays DEF explorerVars
<1>4. \A c \in pending_contact' : Served(c)'
  <2> SUFFICES ASSUME NEW c \in pending_contact'
               PROVE  Served(c)'
    OBVIOUS
  <2>1. Served(c)
    BY <1>2 DEF explorerVars
  <2>2. trigger_requests = <<c>> => c = h
    OBVIOUS
  <2>3. QED  BY <1>1, <1>2, <2>1, <2>2, FirstMessage DEF Served
<1>5. Stimuli' = Len(enemy_down_topic')
  <2>1. Len(move_topic') = 0 /\ Len(pending_moves') = 0 /\ Len(trigger_requests') = 0
        /\ Len(scan_topic') = 0
    BY <1>1, <1>2, NoSample
  <2>2. One(initial_timer)' = 0 /\ One(unacted_scan)' = 0
    BY <1>1, <1>2 DEF One, explorerVars
  <2>3. Len(enemy_down_topic') \in Nat
    BY <1>2, NoSample, FirstMessage
  <2>4. QED  BY <2>1, <2>2, <2>3 DEF Stimuli
<1>6. OneStimulus' /\ NoSilentStall'
  BY <1>2, <1>5, NoSample, FirstMessage DEF OneStimulus, NoSilentStall
<1>7. QED  BY <1>2, <1>3, <1>4, <1>6

(* The explorer takes the only scan there is. *)
LEMMA ScanRelays ==
  ASSUME IInv, Relay, ExplorerReceivesScan
  PROVE  Relay'
<1> USE DEF IInv, Relay
<1>1. PICK k \in 1 .. Len(scan_topic) :
        on_local_scan(scan_topic[k]) /\ scan_topic' = After(scan_topic, k)
  BY DEF ExplorerReceivesScan
<1>2. scan_topic # << >>
  BY <1>1, NoSample
<1>3. /\ ~ initial_timer /\ pending_moves = << >> /\ move_topic = << >>
      /\ trigger_requests = << >> /\ enemy_down_topic = << >> /\ scan_topic = <<ScanOf(world)>>
  BY <1>2, Alone DEF ScanIsCurrent
<1>4. k = 1 /\ scan_topic[k] = ScanOf(world)
  BY <1>1, <1>3, FirstMessage
<1>5. scan_topic' = << >>
  <2>1. Len(scan_topic) = 1
    BY <1>3, FirstMessage
  <2>2. scan_topic' \in Seq(Scans) /\ Len(scan_topic') = Len(scan_topic) - k
    BY <1>1, AfterFacts DEF Samples
  <2>3. Len(scan_topic') = 0
    BY <1>4, <2>1, <2>2
  <2>4. QED  BY <2>2, <2>3, EmptySeq
<1>6. /\ UNCHANGED <<world, initial_timer, pending_moves, move_topic, trigger_requests,
                     enemy_down_topic, lost, restarts>>
  BY DEF ExplorerReceivesScan, worldVars, service
<1>7. /\ current_position' = world.robot /\ visible_contacts' = ActiveAround(world)
      /\ pending_contact' = pending_contact \cap ActiveAround(world)
      /\ unacted_scan' = TRUE
  BY <1>1, <1>4, ScanSays DEF on_local_scan, VisibleAfter, StillVisible, WorldInv
<1>8. ScanIsCurrent' /\ ActsOnCurrentScan'
  BY <1>5, <1>6, <1>7 DEF ScanIsCurrent, ActsOnCurrentScan, ActiveAround
<1>9. \A c \in pending_contact' : Served(c)'
  BY <1>3, <1>6, <1>7, FirstMessage DEF Served
<1>10. Stimuli' = 1
  <2>1. Len(move_topic') = 0 /\ Len(pending_moves') = 0 /\ Len(trigger_requests') = 0
        /\ Len(scan_topic') = 0 /\ Len(enemy_down_topic') = 0
    BY <1>3, <1>5, <1>6, NoSample
  <2>2. One(initial_timer)' = 0 /\ One(unacted_scan)' = 1
    BY <1>3, <1>6, <1>7 DEF One
  <2>3. QED  BY <2>1, <2>2 DEF Stimuli
<1>11. QED  BY <1>6, <1>8, <1>9, <1>10 DEF OneStimulus, NoSilentStall

(* Results, answers and discoveries are no stimuli. *)
LEMMA OthersRelay ==
  ASSUME IInv, Relay,
         ExplorerReceivesResult \/ ExplorerReceivesResponse \/ (\E l \in Links : Discover(l))
  PROVE  Relay'
<1> USE DEF Relay
<1>1. /\ UNCHANGED <<world, initial_timer, pending_moves, scan_topic, move_topic, trigger_requests,
                     enemy_down_topic, lost, restarts, current_position, visible_contacts,
                     unacted_scan, status>>
      /\ pending_contact' \in {pending_contact, {}}
  BY DEF ExplorerReceivesResult, on_result, ExplorerReceivesResponse, on_response, Discover,
         worldVars, stateTopics, service, explorerVars, mapVars
<1>2. ScanIsCurrent' /\ ActsOnCurrentScan'
  BY <1>1, FrameRelays
<1>3. OneStimulus' /\ NoSilentStall'
  BY <1>1 DEF OneStimulus, NoSilentStall, Stimuli, One
<1>4. \A c \in pending_contact' : Served(c)'
  BY <1>1 DEF Served
<1>5. QED  BY <1>1, <1>2, <1>3, <1>4

(* A tick that acts on the scan leaves a message, or the mission is over,  *)
(* or a message was lost.                                                  *)
LEMMA TickRelays ==
  ASSUME IInv, Relay, control_tick
  PROVE  Relay'
<1> USE DEF IInv, Relay
<1>1. unacted_scan
  BY DEF control_tick, TickWithoutMessage, TickDone, TickFailed, TickPending, TickServiceNotReady,
         TickExhausted, TickTriggers, TickEngage, TickMoves, TickMove, Acted
<1>2. /\ ~ initial_timer /\ pending_moves = << >> /\ scan_topic = << >> /\ move_topic = << >>
      /\ trigger_requests = << >> /\ enemy_down_topic = << >>
  BY <1>1, Alone
<1>3. UNCHANGED <<world, published, scan_topic, current_position, visible_contacts, latest_result>>
  BY QuietSteps DEF Quiet, mapVars
<1>4. ScanIsCurrent' /\ ActsOnCurrentScan'
  BY <1>1, <1>3, FrameRelays
<1>5. UNCHANGED <<initial_timer, pending_moves, enemy_down_topic, restarts>>
  BY DEF control_tick, TickWithoutMessage, TickTriggers, TickMoves, worldVars, network
<1>6. Stimuli' = One(unacted_scan)' + Len(move_topic') + Len(trigger_requests')
        \/ ~ (Len(move_topic') \in Nat /\ Len(trigger_requests') \in Nat)
  <2>1. Len(scan_topic') = 0 /\ Len(pending_moves') = 0 /\ Len(enemy_down_topic') = 0
    BY <1>2, <1>3, <1>5, NoSample
  <2>2. One(initial_timer)' = 0 /\ One(unacted_scan)' \in 0 .. 1
    BY <1>2, <1>5 DEF One
  <2>3. QED  BY <2>1, <2>2 DEF Stimuli
<1>7. CASE TickWithoutMessage
  <2>1. UNCHANGED <<move_topic, trigger_requests, lost>>
    BY <1>7 DEF TickWithoutMessage, network, service
  <2>2. Len(move_topic') = 0 /\ Len(trigger_requests') = 0
    BY <1>2, <2>1, NoSample
  <2>3. pending_contact' = pending_contact
    BY <1>7 DEF TickWithoutMessage, TickDone, TickFailed, TickPending, TickServiceNotReady,
                TickExhausted
  <2>4. \A c \in pending_contact' : Served(c)'
    BY <1>3, <1>5, <2>1, <2>3 DEF Served
  <2>5. unacted_scan' \/ status' = "DONE" \/ terminal(world') \/ lost'
    <3>1. CASE TickDone
      BY <3>1 DEF TickDone, Acted
    <3>2. CASE TickFailed
      BY <1>3, <3>2 DEF TickFailed, Results, Settled, terminal
    <3>3. CASE TickPending
      <4>1. PICK c \in pending_contact : Served(c)
        BY <3>3 DEF TickPending
      <4>2. lost \/ terminal(world)
        BY <1>2, <4>1, FirstMessage DEF Served
      <4>3. QED  BY <1>3, <2>1, <4>2
    <3>4. CASE TickServiceNotReady
      BY <1>1, <3>4 DEF TickServiceNotReady
    <3>5. CASE TickExhausted
      BY <3>5 DEF TickExhausted, Acted
    <3>6. QED  BY <1>7, <3>1, <3>2, <3>3, <3>4, <3>5 DEF TickWithoutMessage
  <2>6. Stimuli' = One(unacted_scan)'
    BY <1>6, <2>2 DEF One
  <2>7. OneStimulus' /\ NoSilentStall'
    BY <2>5, <2>6 DEF OneStimulus, NoSilentStall, One
  <2>8. QED  BY <1>4, <1>5, <2>4, <2>7
<1>8. CASE TickTriggers
  <2>1. PICK c : TickEngage(c) /\ trigger_requests' = <<c>> /\ UNCHANGED <<move_topic, lost>>
    BY <1>2, <1>8, FirstMessage DEF TickTriggers
  <2>2. ~ unacted_scan' /\ pending_contact' = {c}
    BY <2>1 DEF TickEngage, Acted
  <2>3. Stimuli' = 1
    BY <1>2, <1>6, <2>1, <2>2, NoSample, FirstMessage DEF One
  <2>4. \A x \in pending_contact' : Served(x)'
    BY <2>1, <2>2 DEF Served
  <2>5. QED  BY <1>4, <1>5, <2>3, <2>4 DEF OneStimulus, NoSilentStall
<1>9. CASE TickMoves
  <2>1. PICK d \in Direction :
          /\ TickMove(d) /\ UNCHANGED trigger_requests
          /\ \/ move_topic' = <<d>> /\ UNCHANGED lost
             \/ move_topic' = << >> /\ lost'
    BY <1>2, <1>9, FirstMessage DEF TickMoves, service
  <2>2. ~ unacted_scan' /\ pending_contact' = {}
    BY <2>1 DEF TickMove, Acted
  <2>3. Stimuli' = Len(move_topic')
    BY <1>2, <1>6, <2>1, <2>2, NoSample, FirstMessage DEF One
  <2>4. OneStimulus' /\ NoSilentStall'
    BY <2>1, <2>3, NoSample, FirstMessage DEF OneStimulus, NoSilentStall
  <2>5. QED  BY <1>4, <1>5, <2>2, <2>4
<1>10. QED  BY <1>7, <1>8, <1>9 DEF control_tick

(* A new system waits for the start-up timer of the world. *)
LEMMA InitRelay == Init => Relay
<1> SUFFICES ASSUME Init
             PROVE  Relay
  OBVIOUS
<1>1. /\ initial_timer = TRUE /\ unacted_scan = FALSE /\ scan_topic = << >> /\ move_topic = << >>
      /\ pending_moves = << >> /\ trigger_requests = << >> /\ enemy_down_topic = << >>
      /\ restarts = 0 /\ pending_contact = {}
  BY DEF Init, WorldInit, ExplorerInit
<1>2. Stimuli = 1
  <2>1. Len(move_topic) = 0 /\ Len(pending_moves) = 0 /\ Len(trigger_requests) = 0
        /\ Len(scan_topic) = 0 /\ Len(enemy_down_topic) = 0
    BY <1>1, NoSample
  <2>2. One(initial_timer) = 1 /\ One(unacted_scan) = 0
    BY <1>1 DEF One
  <2>3. QED  BY <2>1, <2>2 DEF Stimuli
<1>3. QED
  BY <1>1, <1>2 DEF Relay, OneStimulus, NoSilentStall, ScanIsCurrent, ActsOnCurrentScan

(* Every step but a restart passes the stimulus on. *)
LEMMA NextRelay ==
  ASSUME IInv, Relay, Next, ~ ExplorerRestarts
  PROVE  Relay'
BY WorldRelays, PayloadRelays, ScanRelays, OthersRelay, TickRelays DEF Next

(* A restart is counted, and nothing else is. *)
LEMMA RestartsCount ==
  ASSUME restarts \in Nat, Next
  PROVE  /\ restarts' \in Nat
         /\ restarts' = 0 => restarts = 0 /\ ~ ExplorerRestarts
<1>1. CASE ExplorerRestarts
  <2>1. restarts' = restarts + 1
    BY <1>1 DEF ExplorerRestarts
  <2>2. QED  BY <2>1
<1>2. CASE ~ ExplorerRestarts
  <2>1. restarts' = restarts
    BY <1>2 DEF Next, WorldStarts, WorldReceivesMove, WorldCommitsMove, WorldDropsMoves,
                WorldReceivesEnemyDown, PayloadTriggers, ExplorerReceivesScan,
                ExplorerReceivesResult, ExplorerReceivesResponse, control_tick,
                TickWithoutMessage, TickTriggers, TickMoves, Discover, network
  <2>2. QED  BY <1>2, <2>1
<1>3. QED  BY <1>1, <1>2

(* As long as the explorer is not restarted ... *)
Undisturbed == restarts \in Nat /\ (restarts = 0 => Relay)

(* ... this is so in every reachable state. *)
LEMMA RelayInvariance == Spec => []Undisturbed
<1>1. Init => Undisturbed
  BY InitRelay DEF Init, Undisturbed
<1>2. IInv /\ Undisturbed /\ [Next]_vars => Undisturbed'
  <2> SUFFICES ASSUME IInv, Undisturbed, [Next]_vars
               PROVE  Undisturbed'
    OBVIOUS
  <2>1. CASE Next
    BY <2>1, NextRelay, RestartsCount DEF Undisturbed
  <2>2. CASE UNCHANGED vars
    BY <2>2 DEF vars, worldVars, explorerVars, network, stateTopics, service, Undisturbed, Relay,
                OneStimulus, Stimuli, One, ScanIsCurrent, ActsOnCurrentScan, Served, NoSilentStall
  <2>3. QED  BY <2>1, <2>2
<1>3. QED  BY <1>1, <1>2, Invariance, PTL DEF Spec

(* The explorer never has two commands in flight, the world never queues a *)
(* move behind another, and no scan is overwritten before it is taken.     *)
THEOREM OneStimulusAtATime == Spec => [](restarts = 0 => OneStimulus)
<1>1. Undisturbed => (restarts = 0 => OneStimulus)
  BY DEF Undisturbed, Relay
<1>2. QED  BY <1>1, RelayInvariance, PTL

(* control_tick never acts on an outdated scan. *)
THEOREM TicksActOnCurrentScan == Spec => [](restarts = 0 => ActsOnCurrentScan)
<1>1. Undisturbed => (restarts = 0 => ActsOnCurrentScan)
  BY DEF Undisturbed, Relay
<1>2. QED  BY <1>1, RelayInvariance, PTL

(* The relay only stops when the mission is over, the explorer declared    *)
(* itself done, or a message was lost to late discovery.                   *)
THEOREM RelayNeverStalls == Spec => [](restarts = 0 => NoSilentStall)
<1>1. Undisturbed => (restarts = 0 => NoSilentStall)
  BY DEF Undisturbed, Relay
<1>2. QED  BY <1>1, RelayInvariance, PTL

-------------------------------------------------------------------------------
(* Without restarts the explorer wastes nothing and its DONE is honest. *)

(* A set that holds p and with a cell all the passable cells next to it    *)
(* holds what can be reached from p.                                       *)
LEMMA ReachableWithin ==
  ASSUME NEW w, NEW p \in PassableCells, NEW V, p \in V,
         \A q \in PassableCells : \A d \in Direction : Neighbor(q, d) \in V => q \in V
  PROVE  Reachable(w, p) \subseteq V
<1> DEFINE Grow == [near \in SUBSET PassableCells |->
                      near \cup {q \in PassableCells :
                                   /\ ~ active_contact_at(w, q)
                                   /\ \E d \in Direction : Neighbor(q, d) \in near}]
           Order(f) == [n \in Nat |-> IF n = 0 THEN {p} ELSE Grow[f[n - 1]]]
           Ball == CHOOSE f : f = Order(f)
           X == SUBSET PassableCells
           Step == [n \in Nat |-> Grow]
<1>1. Reachable(w, p) = Ball[passable_cell_count]
  BY DEF Reachable
<1>2. ASSUME NEW near \in X
      PROVE  Grow[near] \in X /\ (near \subseteq V => Grow[near] \subseteq V)
  OBVIOUS
<1>3. Step \in [Nat -> [X -> X]] /\ {p} \in X
  BY <1>2
<1>4. \A n \in Nat : Step[n] = Grow
  OBVIOUS
<1> HIDE DEF X, Grow, Step
<1>5. PICK f \in [Nat -> X] : IsRecursive(f, {p}, Step)
  BY <1>3, RecursiveSequence
<1>6. f = Order(f)
  <2>1. f = [n \in Nat |-> IF n = 0 THEN {p} ELSE Step[n][f[n - 1]]]
    BY <1>5 DEF IsRecursive
  <2>2. QED  BY <1>4, <2>1
<1>7. Ball = Order(Ball)
  BY <1>6
<1> HIDE DEF Ball
<1> DEFINE S == {n \in Nat : Ball[n] \in X /\ Ball[n] \subseteq V}
<1>8. 0 \in S
  BY <1>3, <1>7
<1>9. ASSUME NEW n \in Nat, n \in S
      PROVE  n + 1 \in S
  <2>1. n + 1 \in Nat /\ n + 1 # 0 /\ (n + 1) - 1 = n
    OBVIOUS
  <2>2. Ball[n + 1] = Grow[Ball[n]]
    BY <1>7, <2>1
  <2>3. QED  BY <1>2, <1>9, <2>1, <2>2
<1> HIDE DEF S
<1>10. \A n \in Nat : n \in S
  BY <1>8, <1>9, SetInduction
<1>11. QED  BY <1>1, <1>10, CountsFinite DEF S

(* Every neighbour of a passable cell lies in the grid: the scenario is    *)
(* closed by walls.  The loader does not ask for it; the scenario files of *)
(* the repository all are.                                                 *)
Walled == \A p \in PassableCells : \A d \in Direction : Neighbor(p, d) \in Cells

(* What the explorer knows of the map the world has counted as seen, and a *)
(* scan not acted on has shown the robot's surroundings.                   *)
MapIsSeen ==
  /\ initial_timer \/ published # NotPublished
  /\ DOMAIN known_cells \subseteq Cells
  /\ DOMAIN known_cells \cap PassableCells \subseteq world.visible_passable_cells
  /\ unacted_scan => Window(world.robot) \subseteq DOMAIN known_cells

(* The robot never leaves an active contact behind.                        *)
ContactsAreNear ==
  /\ active_contacts \subseteq visible_contacts
  /\ visible_contacts \subseteq contacts \cap Window(world.robot)
  /\ world.contacts_seen \subseteq world.contacts_down \cup Window(world.robot)

(* A move on its way leads to a free cell and away from no contact.        *)
GoodCommand(d) ==
  /\ d \in Direction /\ is_passable(Neighbor(world.robot, d))
  /\ ActiveAround(world) = {} /\ visible_contacts = {}

(* What is on its way to the world is right when it arrives. *)
MessagesAreRight ==
  /\ move_topic # << >> => GoodCommand(Head(move_topic))
  /\ pending_moves # << >> => GoodCommand(Head(pending_moves))
  /\ trigger_requests # << >> => Head(trigger_requests) \in ActiveAround(world)
  /\ enemy_down_topic # << >> => Head(enemy_down_topic) \in ActiveAround(world)

(* Nothing is left to do that can be done. *)
NothingLeft ==
  /\ world.contacts_seen = world.contacts_down
  /\ Walled => Reachable(world, world.robot) \subseteq world.visible_passable_cells

(* DONE is final: nothing moves any more.                                  *)
DoneIsRight ==
  status = "DONE" => result(world) = "SUCCESS" \/ (Stimuli = 0 /\ NothingLeft)

Explores == MapIsSeen /\ ContactsAreNear /\ MessagesAreRight /\ NoWastedCommands /\ DoneIsRight

(* Steps that leave the world and the map alone. *)
LEMMA StillExplores ==
  ASSUME Explores, UNCHANGED <<world, published, initial_timer, mapVars>>,
         unacted_scan' => unacted_scan
  PROVE  MapIsSeen' /\ ContactsAreNear' /\ NoWastedCommands'
BY DEF Explores, mapVars, MapIsSeen, ContactsAreNear, NoWastedCommands

(* A message that arrives at or leaves an empty queue.                     *)
LEMMA FirstHead ==
  ASSUME NEW x
  PROVE  Head(<<x>>) = x /\ Head(Append(<< >>, x)) = x
OBVIOUS

(* As long as there is a stimulus DONE means SUCCESS. *)
LEMMA DoneIsSettled ==
  ASSUME IInv, Explores, Stimuli # 0, WorldSteps, status' = "DONE" => status = "DONE"
  PROVE  DoneIsRight'
<1>1. status = "DONE" => result(world) = "SUCCESS"
  BY DEF Explores, DoneIsRight
<1>2. QED  BY <1>1, OutcomeStays DEF IInv, DoneIsRight

(* A queue that holds a message is a stimulus. *)
LEMMA StimulusExists ==
  ASSUME Queues, Samples,
         \/ initial_timer \/ unacted_scan \/ scan_topic # << >> \/ move_topic # << >>
         \/ pending_moves # << >> \/ trigger_requests # << >> \/ enemy_down_topic # << >>
  PROVE  Stimuli # 0
<1> DEFINE t == One(initial_timer)
           u == One(unacted_scan)
           a == Len(scan_topic)
           b == Len(move_topic)
           c == Len(pending_moves)
           d == Len(trigger_requests)
           e == Len(enemy_down_topic)
<1>1. /\ a \in Nat /\ (a = 0 <=> scan_topic = << >>)
      /\ b \in Nat /\ (b = 0 <=> move_topic = << >>)
      /\ c \in Nat /\ (c = 0 <=> pending_moves = << >>)
      /\ d \in Nat /\ (d = 0 <=> trigger_requests = << >>)
      /\ e \in Nat /\ (e = 0 <=> enemy_down_topic = << >>)
  BY ShortQueue DEF Queues, Samples
<1>2. /\ t \in 0 .. 1 /\ (initial_timer => t = 1)
      /\ u \in 0 .. 1 /\ (unacted_scan => u = 1)
  BY DEF One
<1>3. Stimuli = t + u + a + b + c + d + e
  BY DEF Stimuli
<1>4. t # 0 \/ u # 0 \/ a # 0 \/ b # 0 \/ c # 0 \/ d # 0 \/ e # 0
  BY <1>1, <1>2
<1> HIDE DEF t, u, a, b, c, d, e
<1>5. QED  BY <1>1, <1>2, <1>3, <1>4

(* A publication, when it leaves the robot near the contacts it has seen.  *)
LEMMA PublishExplores ==
  ASSUME IInv, Relay, Explores, WorldSteps, Publishes, Silent, Stimuli # 0,
         NEW w \in WorldState, publish_state(w),
         w.contacts_down \subseteq w.contacts_seen,
         w.contacts_seen \subseteq w.contacts_down \cup Window(w.robot),
         visible_contacts \subseteq contacts \cap Window(w.robot),
         w.total_commands = w.steps_taken, w.invalid_triggers = 0, w.duplicate_triggers = 0,
         ~ initial_timer', pending_moves' = << >>, enemy_down_topic' = << >>,
         UNCHANGED <<move_topic, trigger_requests>>
  PROVE  Explores'
<1>1. /\ world' = make_scan(w) /\ published' # NotPublished
      /\ UNCHANGED explorerVars
  BY PublishFacts DEF Publishes
<1>2. /\ world'.robot = w.robot /\ world'.contacts_down = w.contacts_down
      /\ world'.contacts_seen
           = w.contacts_seen \cup (Window(w.robot) \cap (contacts \ w.contacts_down))
      /\ world'.steps_taken = w.steps_taken /\ world'.total_commands = w.total_commands
      /\ world'.invalid_triggers = w.invalid_triggers
      /\ world'.duplicate_triggers = w.duplicate_triggers
  BY <1>1, ScanFacts
<1>3. MapIsSeen'
  <2>1. world.visible_passable_cells \subseteq world'.visible_passable_cells
    BY CoverageStays DEF IInv
  <2>2. UNCHANGED <<known_cells, unacted_scan>>
    BY <1>1 DEF explorerVars
  <2>3. DOMAIN known_cells \cap PassableCells \subseteq world.visible_passable_cells
        /\ DOMAIN known_cells \subseteq Cells
    BY DEF Explores, MapIsSeen
  <2>4. QED  BY <1>1, <2>1, <2>2, <2>3 DEF MapIsSeen, Silent
<1>4. ContactsAreNear'
  <2>1. UNCHANGED <<active_contacts, visible_contacts>>
    BY <1>1 DEF explorerVars
  <2>2. active_contacts \subseteq visible_contacts
    BY DEF Explores, ContactsAreNear
  <2>3. QED  BY <1>2, <2>1, <2>2 DEF ContactsAreNear
<1>5. MessagesAreRight'
  BY DEF MessagesAreRight, Silent
<1>6. NoWastedCommands'
  BY <1>2 DEF NoWastedCommands
<1>7. DoneIsRight'
  BY <1>1, DoneIsSettled DEF explorerVars
<1>8. QED  BY <1>3, <1>4, <1>5, <1>6, <1>7 DEF Explores

(* A good command takes the robot to the next cell, out of sight of no     *)
(* contact that is still active.                                           *)
LEMMA GoodCommandFacts ==
  ASSUME IInv, Explores, NEW d, GoodCommand(d), ~ terminal(world)
  PROVE  LET w == apply_move(world, d) IN
         /\ w \in WorldState /\ d \in Nat
         /\ w.contacts_down \subseteq w.contacts_seen
         /\ w.contacts_seen \subseteq w.contacts_down
         /\ visible_contacts = {}
         /\ w.total_commands = w.steps_taken
         /\ w.invalid_triggers = 0 /\ w.duplicate_triggers = 0
<1> DEFINE w == apply_move(world, d)
           next == Neighbor(world.robot, d)
<1>1. /\ d \in Direction /\ is_passable(next) /\ ActiveAround(world) = {}
      /\ visible_contacts = {}
  BY DEF GoodCommand
<1>2. d \in Nat
  BY <1>1 DEF Direction, UP, DOWN, LEFT, RIGHT
<1>3. world \in WorldState /\ world.robot \in Cells /\ Sound(world)
  BY DEF IInv, WorldInv, WorldState
<1>4. next \in Window(world.robot)
  <2>1. next \in Cells
    <3>1. Width \in Nat /\ Height \in Nat
      BY ScenarioFacts DEF Width, Height
    <3>2. next \in Positions
      BY <1>1, <1>3, NextToWindow, NeighborIsAround, NeighborFacts DEF Around
    <3>3. QED  BY <1>1, <3>1, <3>2 DEF is_passable, in_bounds, Cells, Positions
  <2>2. QED  BY <1>1, <1>3, <2>1, NextToWindow, NeighborIsAround
<1>5. ~ active_contact_at(world, next)
  BY <1>1, <1>4 DEF ActiveAround, active_contact_at
<1>6. world.contacts_seen \subseteq world.contacts_down
  <2>1. world.contacts_seen \subseteq contacts
    BY <1>3 DEF WorldState
  <2>2. QED
    BY <1>1, <2>1 DEF Explores, ContactsAreNear, ActiveAround, contact_is_down
<1>7. /\ w.steps_taken = world.steps_taken + 1 /\ w.total_commands = world.total_commands + 1
      /\ w.invalid_triggers = world.invalid_triggers
      /\ w.duplicate_triggers = world.duplicate_triggers
      /\ w.contacts_seen = world.contacts_seen /\ w.contacts_down = world.contacts_down
  BY <1>1, <1>3, <1>5, GoodMove
<1>8. w \in WorldState
  BY <1>2, <1>3, MoveFacts
<1> HIDE DEF w
<1>9. QED  BY <1>1, <1>2, <1>3, <1>6, <1>7, <1>8 DEF Sound, Explores, NoWastedCommands, w

(* The steps of the world. *)
LEMMA WorldExplores ==
  ASSUME IInv, Relay, Explores,
         WorldStarts \/ WorldReceivesMove \/ WorldCommitsMove \/ WorldDropsMoves
           \/ WorldReceivesEnemyDown
  PROVE  Explores'
<1>1. /\ Queues /\ Samples /\ OneStimulus
      /\ world \in WorldState /\ Sound(world)
  BY DEF IInv, Relay, WorldInv
<1>2. /\ world.contacts_down \subseteq world.contacts_seen
      /\ world.contacts_seen \subseteq world.contacts_down \cup Window(world.robot)
      /\ visible_contacts \subseteq contacts \cap Window(world.robot)
      /\ world.total_commands = world.steps_taken
      /\ world.invalid_triggers = 0 /\ world.duplicate_triggers = 0
  BY <1>1 DEF Explores, ContactsAreNear, NoWastedCommands, Sound
<1>3. CASE WorldStarts
  <2>1. initial_timer /\ publish_state(world)
    BY <1>3 DEF WorldStarts, InitialPublish
  <2>2. Silent /\ pending_moves = << >> /\ enemy_down_topic = << >> /\ Stimuli # 0
    BY <1>1, <2>1, Alone, StimulusExists
  <2>3. WorldSteps /\ Publishes
    BY <1>3, PublishesFacts DEF WorldStarts, InitialPublish, WorldSteps
  <2>4. ~ initial_timer' /\ pending_moves' = << >> /\ enemy_down_topic' = << >>
        /\ UNCHANGED <<move_topic, trigger_requests>>
    BY <1>3, <2>2 DEF WorldStarts, InitialPublish, service
  <2>5. QED  BY <1>1, <1>2, <2>1, <2>2, <2>3, <2>4, PublishExplores
<1>4. CASE WorldReceivesMove
  <2>1. move_topic # << >>
    BY <1>4 DEF WorldReceivesMove
  <2>2. /\ ~ initial_timer /\ pending_moves = << >> /\ ~ unacted_scan /\ scan_topic = << >>
        /\ trigger_requests = << >> /\ enemy_down_topic = << >> /\ Tail(move_topic) = << >>
    BY <1>1, <2>1, Alone
  <2>3. /\ pending_moves' = <<Head(move_topic)>> /\ move_topic' = << >>
        /\ UNCHANGED <<world, published, initial_timer, explorerVars, trigger_requests,
                       enemy_down_topic>>
    BY <1>4, <2>2, FirstMessage DEF WorldReceivesMove, on_move, service
  <2>4. MapIsSeen' /\ ContactsAreNear' /\ NoWastedCommands'
    BY <2>3, StillExplores DEF explorerVars, mapVars
  <2>5. DoneIsRight'
    <3>1. Stimuli # 0 /\ WorldSteps
      BY <1>1, <1>4, <2>1, StimulusExists, WorldNodeSteps
    <3>2. QED  BY <2>3, <3>1, DoneIsSettled DEF explorerVars
  <2>6. MessagesAreRight'
    <3>1. PICK d : d = Head(move_topic) /\ GoodCommand(d)
      BY <2>1 DEF Explores, MessagesAreRight
    <3>2. GoodCommand(d)'
      BY <2>3, <3>1 DEF GoodCommand, explorerVars
    <3>3. Head(pending_moves') = d
      BY <2>3, <3>1, FirstHead
    <3>4. QED  BY <2>2, <2>3, <3>2, <3>3 DEF MessagesAreRight
  <2>7. QED  BY <2>4, <2>5, <2>6 DEF Explores
<1>5. CASE WorldCommitsMove
  <2> DEFINE d == Head(pending_moves)
             w == apply_move(world, d)
  <2>1. pending_moves # << >> /\ ~ terminal(world) /\ publish_state(w)
    BY <1>5 DEF WorldCommitsMove, CommitMove
  <2>2. /\ Silent /\ ~ initial_timer /\ Tail(pending_moves) = << >> /\ enemy_down_topic = << >>
        /\ Stimuli # 0
    BY <1>1, <2>1, Alone, StimulusExists
  <2>3. WorldSteps /\ Publishes
    BY <1>1, <1>5, WorldNodeSteps, PublishesFacts DEF WorldCommitsMove, CommitMove
  <2>4. GoodCommand(d)
    BY <2>1 DEF Explores, MessagesAreRight
  <2>5. ~ initial_timer' /\ pending_moves' = << >> /\ enemy_down_topic' = << >>
        /\ UNCHANGED <<move_topic, trigger_requests>>
    BY <1>5, <2>2 DEF WorldCommitsMove, CommitMove, service
  <2>6. /\ w \in WorldState
        /\ w.contacts_down \subseteq w.contacts_seen /\ w.contacts_seen \subseteq w.contacts_down
        /\ visible_contacts = {}
        /\ w.total_commands = w.steps_taken
        /\ w.invalid_triggers = 0 /\ w.duplicate_triggers = 0
    BY <2>1, <2>4, GoodCommandFacts
  <2> HIDE DEF w
  <2>7. QED  BY <2>1, <2>2, <2>3, <2>5, <2>6, PublishExplores
<1>6. CASE WorldDropsMoves
  <2>1. pending_moves # << >> /\ pending_moves' = << >>
        /\ UNCHANGED <<world, published, initial_timer, explorerVars, scan_topic, move_topic,
                       trigger_requests, enemy_down_topic>>
    BY <1>6 DEF WorldDropsMoves, DropMoves, network, stateTopics, service
  <2>2. Silent /\ enemy_down_topic = << >>
    BY <1>1, <2>1, Alone
  <2>3. MapIsSeen' /\ ContactsAreNear' /\ NoWastedCommands'
    BY <2>1, StillExplores DEF explorerVars, mapVars
  <2>4. DoneIsRight'
    <3>1. Stimuli # 0 /\ WorldSteps
      BY <1>1, <1>6, <2>1, StimulusExists, WorldNodeSteps
    <3>2. QED  BY <2>1, <3>1, DoneIsSettled DEF explorerVars
  <2>5. MessagesAreRight'
    BY <2>1, <2>2 DEF MessagesAreRight, Silent
  <2>6. QED  BY <2>3, <2>4, <2>5 DEF Explores
<1>7. CASE WorldReceivesEnemyDown
  <2> DEFINE h == Head(enemy_down_topic)
             w == apply_enemy_down(world, h, h)
  <2>1. enemy_down_topic # << >> /\ publish_state(w)
    BY <1>7 DEF WorldReceivesEnemyDown, on_enemy_down
  <2>2. /\ Silent /\ ~ initial_timer /\ pending_moves = << >> /\ Tail(enemy_down_topic) = << >>
        /\ Stimuli # 0
    BY <1>1, <2>1, Alone, StimulusExists
  <2>3. WorldSteps /\ Publishes
    BY <1>1, <1>7, WorldNodeSteps, PublishesFacts DEF WorldReceivesEnemyDown, on_enemy_down
  <2>4. h \in contacts \cap Window(world.robot) /\ ~ contact_is_down(world, h)
    BY <2>1 DEF Explores, MessagesAreRight, ActiveAround
  <2>5. ~ initial_timer' /\ pending_moves' = << >> /\ enemy_down_topic' = << >>
        /\ UNCHANGED <<move_topic, trigger_requests>>
    BY <1>7, <2>2 DEF WorldReceivesEnemyDown, on_enemy_down, service
  <2>6. /\ w \in WorldState /\ w.robot = world.robot
        /\ w.contacts_down \subseteq w.contacts_seen
        /\ w.contacts_seen \subseteq w.contacts_down \cup Window(w.robot)
        /\ w.total_commands = w.steps_taken
        /\ w.invalid_triggers = 0 /\ w.duplicate_triggers = 0
    <3>1. CASE terminal(world)
      <4>1. w = world
        BY <3>1 DEF apply_enemy_down
      <4>2. QED  BY <1>1, <1>2, <4>1
    <3>2. CASE ~ terminal(world)
      <4>1. /\ w.robot = world.robot
            /\ w.steps_taken = world.steps_taken /\ w.total_commands = world.total_commands
            /\ w.invalid_triggers = world.invalid_triggers
            /\ w.duplicate_triggers = world.duplicate_triggers
            /\ w.contacts_seen = world.contacts_seen \cup {h}
            /\ w.contacts_down = world.contacts_down \cup {h}
        BY <1>1, <2>4, <3>2, GoodTrigger
      <4>2. w \in WorldState
        BY <1>1, <3>2, TriggerFacts
      <4> HIDE DEF w
      <4>3. QED  BY <1>2, <4>1, <4>2
    <3>3. QED  BY <3>1, <3>2
  <2> HIDE DEF w
  <2>7. QED  BY <1>2, <2>1, <2>2, <2>3, <2>5, <2>6, PublishExplores
<1>8. QED  BY <1>3, <1>4, <1>5, <1>6, <1>7

(* The payload passes a good request on. *)
LEMMA PayloadExplores ==
  ASSUME IInv, Relay, Explores, PayloadTriggers
  PROVE  Explores'
<1>1. Queues /\ Samples /\ OneStimulus /\ trigger_requests # << >> /\ Stimuli # 0
  BY StimulusExists DEF IInv, Relay, PayloadTriggers
<1>2. PICK h : h = Head(trigger_requests) /\ h \in ActiveAround(world)
  BY <1>1 DEF Explores, MessagesAreRight
<1>3. /\ pending_moves = << >> /\ ~ unacted_scan /\ move_topic = << >> /\ enemy_down_topic = << >>
      /\ Tail(trigger_requests) = << >>
  BY <1>1, Alone
<1>4. /\ trigger_requests' = << >>
      /\ UNCHANGED <<world, published, initial_timer, pending_moves, explorerVars, move_topic>>
      /\ enemy_down_topic' = <<h>> \/ enemy_down_topic' = << >>
  BY <1>2, <1>3, FirstMessage DEF PayloadTriggers, worldVars
<1>5. MapIsSeen' /\ ContactsAreNear' /\ NoWastedCommands'
  BY <1>4, StillExplores DEF explorerVars, mapVars
<1>6. DoneIsRight'
  BY <1>1, <1>4, DoneIsSettled DEF explorerVars, WorldSteps
<1>7. MessagesAreRight'
  <2>1. h \in ActiveAround(world')
    BY <1>2, <1>4
  <2>2. Head(<<h>>) = h
    BY FirstHead
  <2>3. enemy_down_topic' # << >> => Head(enemy_down_topic') \in ActiveAround(world')
    BY <1>4, <2>1, <2>2
  <2>4. QED  BY <1>3, <1>4, <2>3 DEF MessagesAreRight
<1>8. QED  BY <1>5, <1>6, <1>7 DEF Explores

(* The explorer is shown its surroundings: a contact it saw before from    *)
(* where it stands is shown again, active or down.                         *)
LEMMA ScanExplores ==
  ASSUME IInv, Relay, Explores, ExplorerReceivesScan
  PROVE  Explores'
<1>1. /\ Queues /\ Samples /\ OneStimulus /\ ScanIsCurrent /\ MapIsSeen /\ ContactsAreNear
      /\ world \in WorldState /\ world.robot \in Cells
  BY DEF IInv, Relay, Explores, WorldInv, WorldState
<1> DEFINE s == ScanOf(world)
<1>2. PICK k \in 1 .. Len(scan_topic) : on_local_scan(scan_topic[k])
  BY DEF ExplorerReceivesScan
<1>3. scan_topic # << >> /\ Stimuli # 0
  BY <1>1, <1>2, NoSample, StimulusExists
<1>4. /\ ~ initial_timer /\ pending_moves = << >> /\ move_topic = << >>
      /\ trigger_requests = << >> /\ enemy_down_topic = << >> /\ scan_topic = <<s>>
  BY <1>1, <1>3, Alone DEF ScanIsCurrent
<1>5. scan_topic[k] = s
  BY <1>2, <1>4, FirstMessage
<1> HIDE DEF s
<1>6. UNCHANGED <<world, published, initial_timer, pending_moves, move_topic, trigger_requests,
                  enemy_down_topic, status>>
  BY <1>2 DEF ExplorerReceivesScan, on_local_scan, worldVars, service
<1>7. /\ DOMAIN s.cells = Window(world.robot)
      /\ Reported(s, "C") = ActiveAround(world)
  BY <1>1, ScanSays DEF s
<1>8. /\ known_cells' = Merge(s.cells, known_cells)
      /\ visible_contacts' = ActiveAround(world)
      /\ processed_contacts' = processed_contacts \cup Reported(s, "x")
      /\ active_contacts' = (active_contacts \cup ActiveAround(world)) \ processed_contacts'
  BY <1>2, <1>5, <1>7 DEF on_local_scan, VisibleAfter, ForgetProcessed
<1>9. MapIsSeen'
  <2>1. DOMAIN known_cells' = Window(world.robot) \cup DOMAIN known_cells
    BY <1>7, <1>8 DEF Merge
  <2>2. Window(world.robot) \subseteq Cells
    BY WindowType
  <2>3. Window(world.robot) \cap PassableCells \subseteq world.visible_passable_cells
    <3>1. make_scan(world) = world
      BY <1>1, <1>4 DEF MapIsSeen, IInv, WorldInv
    <3>2. QED  BY <1>1, <3>1, ScanFacts
  <2>4. QED  BY <1>1, <1>6, <2>1, <2>2, <2>3 DEF MapIsSeen
<1>10. ContactsAreNear'
  <2>1. ASSUME NEW c \in active_contacts, c \notin ActiveAround(world)
        PROVE  c \in Reported(s, "x")
    <3>1. c \in contacts \cap Window(world.robot)
      BY <1>1 DEF ContactsAreNear
    <3>2. s.cells[c] = "x"
      BY <2>1, <3>1 DEF s, ScanOf, ObservedKind, ActiveAround
    <3>3. QED  BY <1>7, <3>1, <3>2 DEF Reported
  <2>2. active_contacts' \subseteq visible_contacts'
    BY <1>8, <2>1
  <2>3. visible_contacts' \subseteq contacts \cap Window(world.robot)
    BY <1>8 DEF ActiveAround
  <2>4. QED  BY <1>1, <1>6, <2>2, <2>3 DEF ContactsAreNear
<1>11. MessagesAreRight'
  BY <1>4, <1>6 DEF MessagesAreRight
<1>12. NoWastedCommands'
  BY <1>6 DEF NoWastedCommands, Explores
<1>13. DoneIsRight'
  BY <1>3, <1>6, DoneIsSettled DEF WorldSteps
<1>14. QED  BY <1>9, <1>10, <1>11, <1>12, <1>13 DEF Explores

(* Results, answers and discoveries. *)
LEMMA OthersExplore ==
  ASSUME IInv, Relay, Explores,
         ExplorerReceivesResult \/ ExplorerReceivesResponse \/ (\E l \in Links : Discover(l))
  PROVE  Explores'
<1>1. UNCHANGED <<world, published, initial_timer, pending_moves, scan_topic, move_topic,
                  trigger_requests, enemy_down_topic, mapVars, unacted_scan, status>>
  BY DEF ExplorerReceivesResult, on_result, ExplorerReceivesResponse, on_response, Discover,
         worldVars, stateTopics, service, explorerVars, mapVars
<1>2. MapIsSeen' /\ ContactsAreNear' /\ NoWastedCommands'
  BY <1>1, StillExplores
<1>3. MessagesAreRight'
  BY <1>1 DEF MessagesAreRight, Explores, GoodCommand, ActiveAround, mapVars
<1>4. DoneIsRight'
  <2>1. Stimuli' = Stimuli
    BY <1>1 DEF Stimuli, One
  <2>2. NothingLeft' = NothingLeft
    BY <1>1 DEF NothingLeft
  <2>3. QED  BY <1>1, <2>1, <2>2 DEF Explores, DoneIsRight
<1>5. QED  BY <1>2, <1>3, <1>4 DEF Explores

(* What the explorer has before it when it plans: no contact bars a way,   *)
(* and its map is that of the world around it.                             *)
LEMMA PlansOnMap ==
  ASSUME IInv, Relay, Explores, unacted_scan, visible_contacts = {}
  PROVE  /\ ActiveAround(world) = {} /\ active_contacts = {}
         /\ Plan = plan_next_step(known_cells, {}, world.robot)
         /\ world.robot \in Cells /\ world.robot \in Positions
         /\ DOMAIN known_cells \subseteq Positions /\ IsFiniteSet(DOMAIN known_cells)
         /\ \A p \in Cells : is_traversable(known_cells, {}, p)
                               <=> p \in DOMAIN known_cells \cap PassableCells
         /\ \A p : is_traversable(known_cells, {}, p) => p \in Cells
<1>1. /\ current_position = world.robot /\ visible_contacts = ActiveAround(world)
      /\ MapIsTrue /\ MapIsSeen /\ ContactsAreNear /\ world.robot \in Cells
  BY DEF IInv, Relay, ActsOnCurrentScan, ActiveAround, Explores, WorldInv, WorldState
<1>2. active_contacts = {}
  BY <1>1 DEF ContactsAreNear
<1>3. Plan = plan_next_step(known_cells, {}, world.robot)
  <2>1. active_contacts \ processed_contacts = {}
    BY <1>2
  <2>2. QED  BY <1>1, <2>1 DEF Plan
<1>4. DOMAIN known_cells \subseteq Cells
  BY <1>1 DEF MapIsSeen
<1>5. Cells \subseteq Positions
  BY NextToWindow
<1>6. \A p \in DOMAIN known_cells : known_cells[p] = "#" <=> p \notin PassableCells
  BY <1>1, <1>4 DEF MapIsTrue, PassableCells
<1>7. QED
  BY <1>1, <1>2, <1>3, <1>4, <1>5, <1>6, CellsFinite, FS_Subset DEF is_traversable

(* The command for a planned step is good. *)
LEMMA PlanIsGood ==
  ASSUME IInv, Relay, Explores, unacted_scan, visible_contacts = {}, NEW to \in Plan
  PROVE  GoodCommand(direction_from_step(world.robot, to))
<1>1. is_traversable(known_cells, {}, to) /\ to \in Around(world.robot)
  BY PlansOnMap, PlanFacts
<1>2. is_passable(to)
  BY <1>1, PlansOnMap DEF PassableCells
<1>3. QED  BY <1>1, <1>2, PlansOnMap, StepDirection DEF GoodCommand

(* Without a plan nothing is left to explore: the explorer's search is     *)
(* complete and its map closed.                                            *)
LEMMA NoPlanNothingLeft ==
  ASSUME IInv, Relay, Explores, unacted_scan, visible_contacts = {}, Plan = {}
  PROVE  NothingLeft
<1> DEFINE r == world.robot
<1>1. /\ world \in WorldState /\ Sound(world) /\ MapIsSeen /\ ContactsAreNear
      /\ r \in PassableCells /\ r \in Cells
  BY DEF IInv, WorldInv, WorldState, Sound, Explores, PassableCells
<1>2. world.contacts_seen = world.contacts_down
  <2>1. world.contacts_seen \subseteq contacts
    BY <1>1 DEF WorldState
  <2>2. world.contacts_seen \subseteq world.contacts_down
    BY <1>1, <2>1, PlansOnMap DEF ContactsAreNear, ActiveAround, contact_is_down
  <2>3. QED  BY <1>1, <2>2 DEF Sound
<1>3. ASSUME Walled
      PROVE  Reachable(world, r) \subseteq world.visible_passable_cells
  <2>1. Window(r) \subseteq DOMAIN known_cells
    BY <1>1 DEF MapIsSeen
  <2>2. \A i \in 1 .. 4 : cardinal_neighbors(r)[i] \in DOMAIN known_cells
    <3>1. \A d \in Direction : Neighbor(r, d) \in Window(r)
      BY <1>1, <1>3, NextToWindow, NeighborIsAround DEF Walled
    <3>2. UP \in Direction /\ DOWN \in Direction /\ LEFT \in Direction /\ RIGHT \in Direction
      BY DEF Direction
    <3>3. r \in Positions
      BY <1>1, NextToWindow
    <3>4. QED  BY <2>1, <3>1, <3>2, <3>3, DirectionFacts
  <2>3. ~ is_frontier(known_cells, {}, r)
    BY <2>2 DEF is_frontier
  <2>4. PICK V : Explored(known_cells, {}, r, V)
    BY <2>3, PlansOnMap, PlanFacts
  <2>5. is_traversable(known_cells, {}, r)
    BY <1>1, <2>1, NextToWindow, PlansOnMap
  <2>6. \A p \in V : is_traversable(known_cells, {}, p)
    BY <2>4, <2>5 DEF Explored
  <2>7. V \subseteq world.visible_passable_cells
    BY <1>1, <2>6, PlansOnMap DEF MapIsSeen
  <2>8. ASSUME NEW q \in PassableCells, NEW d \in Direction, Neighbor(q, d) \in V
        PROVE  q \in V
    <3> DEFINE p == Neighbor(q, d)
    <3>1. q \in Cells /\ q \in Positions
      BY NextToWindow DEF PassableCells
    <3>2. q \in Around(p)
      BY <3>1, NeighborIsAround
    <3>3. is_traversable(known_cells, {}, p) /\ ~ is_frontier(known_cells, {}, p)
      BY <2>4, <2>6, <2>8 DEF Explored
    <3>4. q \in DOMAIN known_cells
      BY <3>2, <3>3 DEF is_frontier, Around
    <3>5. is_traversable(known_cells, {}, q)
      BY <3>1, <3>4, PlansOnMap
    <3>6. QED  BY <2>4, <2>8, <3>2, <3>5 DEF Explored
  <2>9. r \in V
    BY <2>4 DEF Explored
  <2>10. Reachable(world, r) \subseteq V
    BY <1>1, <2>8, <2>9, ReachableWithin
  <2>11. QED  BY <2>7, <2>10
<1>4. QED  BY <1>2, <1>3 DEF NothingLeft

(* A tick sends a good message, or reports what is so. *)
LEMMA TickExplores ==
  ASSUME IInv, Relay, Explores, control_tick
  PROVE  Explores'
<1>1. unacted_scan /\ (unacted_scan' => unacted_scan)
  BY DEF control_tick, TickWithoutMessage, TickDone, TickFailed, TickPending, TickServiceNotReady,
         TickExhausted, TickTriggers, TickEngage, TickMoves, TickMove, Acted
<1>2. /\ Queues /\ Samples /\ OneStimulus /\ ActsOnCurrentScan /\ Results
      /\ current_position = world.robot /\ visible_contacts = ActiveAround(world)
  BY <1>1 DEF IInv, Relay, ActsOnCurrentScan, ActiveAround
<1>3. /\ ~ initial_timer /\ pending_moves = << >> /\ scan_topic = << >> /\ move_topic = << >>
      /\ trigger_requests = << >> /\ enemy_down_topic = << >> /\ Stimuli # 0
  BY <1>1, <1>2, Alone, StimulusExists
<1>4. UNCHANGED <<world, published, scan_topic, mapVars, latest_result>>
  BY QuietSteps DEF Quiet
<1>5. UNCHANGED <<initial_timer, pending_moves, enemy_down_topic>>
  BY DEF control_tick, TickWithoutMessage, TickTriggers, TickMoves, worldVars, network
<1>6. MapIsSeen' /\ ContactsAreNear' /\ NoWastedCommands'
  BY <1>1, <1>4, <1>5, StillExplores
<1>7. WorldSteps /\ visible_contacts' = visible_contacts
  BY <1>4 DEF WorldSteps, mapVars
<1>8. CASE TickWithoutMessage
  <2>1. move_topic' = << >> /\ trigger_requests' = << >>
    BY <1>3, <1>8 DEF TickWithoutMessage, network, service
  <2>2. MessagesAreRight'
    BY <1>3, <1>5, <2>1 DEF MessagesAreRight
  <2>3. CASE TickDone
    <3>1. result(world') = "SUCCESS"
      BY <1>2, <1>4, <2>3 DEF TickDone, Results, Settled
    <3>2. QED  BY <1>6, <2>2, <3>1 DEF Explores, DoneIsRight
  <2>4. CASE TickFailed \/ TickPending \/ TickServiceNotReady
    <3>1. status' # "DONE"
      BY <2>4 DEF TickFailed, TickPending, TickServiceNotReady, Acted
    <3>2. QED  BY <1>6, <2>2, <3>1 DEF Explores, DoneIsRight
  <2>5. CASE TickExhausted
    <3>1. visible_contacts = {} /\ Plan = {} /\ ~ unacted_scan'
      BY <2>5 DEF TickExhausted, Acted
    <3>2. NothingLeft'
      <4>1. NothingLeft
        BY <1>1, <3>1, NoPlanNothingLeft
      <4>2. QED  BY <1>4, <4>1 DEF NothingLeft
    <3>3. Stimuli' = 0
      <4>1. Len(scan_topic') = 0 /\ Len(pending_moves') = 0 /\ Len(enemy_down_topic') = 0
            /\ Len(move_topic') = 0 /\ Len(trigger_requests') = 0
        BY <1>3, <1>4, <1>5, <2>1, NoSample
      <4>2. One(initial_timer)' = 0 /\ One(unacted_scan)' = 0
        BY <1>3, <1>5, <3>1 DEF One
      <4>3. QED  BY <4>1, <4>2 DEF Stimuli
    <3>4. QED  BY <1>6, <2>2, <3>2, <3>3 DEF Explores, DoneIsRight
  <2>6. QED  BY <1>8, <2>3, <2>4, <2>5 DEF TickWithoutMessage
<1>9. CASE TickTriggers
  <2>1. PICK c : /\ c \in visible_contacts /\ status' # "DONE"
                 /\ trigger_requests' = <<c>> /\ UNCHANGED move_topic
    BY <1>3, <1>9, FirstMessage DEF TickTriggers, TickEngage, Acted
  <2>2. c \in ActiveAround(world') /\ Head(<<c>>) = c
    BY <1>2, <1>4, <2>1, FirstHead
  <2>3. MessagesAreRight'
    BY <1>3, <1>5, <2>1, <2>2 DEF MessagesAreRight
  <2>4. QED  BY <1>6, <2>1, <2>3 DEF Explores, DoneIsRight
<1>10. CASE TickMoves
  <2>1. PICK d : /\ TickMove(d)
                 /\ move_topic' = <<d>> \/ move_topic' = << >>
                 /\ UNCHANGED trigger_requests
    BY <1>3, <1>10, FirstMessage DEF TickMoves, service
  <2>2. /\ visible_contacts = {} /\ status' # "DONE"
        /\ \E to \in Plan : d = direction_from_step(world.robot, to)
    BY <1>2, <2>1 DEF TickMove, Acted
  <2>3. GoodCommand(d)
    BY <1>1, <2>2, PlanIsGood
  <2>4. GoodCommand(d)' /\ Head(<<d>>) = d
    BY <1>4, <1>7, <2>3, FirstHead DEF GoodCommand
  <2>5. MessagesAreRight'
    BY <1>3, <1>5, <2>1, <2>4 DEF MessagesAreRight
  <2>6. QED  BY <1>6, <2>2, <2>5 DEF Explores, DoneIsRight
<1>11. QED  BY <1>8, <1>9, <1>10 DEF control_tick

(* Nothing is known, sent or reported at first. *)
LEMMA InitExplores == Init => Explores
<1> SUFFICES ASSUME Init
             PROVE  Explores
  OBVIOUS
<1>1. /\ initial_timer = TRUE /\ unacted_scan = FALSE /\ move_topic = << >> /\ pending_moves = << >>
      /\ trigger_requests = << >> /\ enemy_down_topic = << >> /\ status = "NONE"
      /\ known_cells = << >> /\ active_contacts = {} /\ visible_contacts = {} /\ world = NewWorld
  BY DEF Init, WorldInit, ExplorerInit
<1>2. DOMAIN known_cells = {}
  BY <1>1
<1>3. QED
  BY <1>1, <1>2 DEF Explores, MapIsSeen, ContactsAreNear, MessagesAreRight, NoWastedCommands,
                    DoneIsRight, NewWorld

(* As long as the explorer is not restarted it explores well. *)
ExploresUndisturbed == restarts = 0 => Explores

LEMMA ExplorationInvariance == Spec => []ExploresUndisturbed
<1>1. IInv /\ Undisturbed /\ ExploresUndisturbed /\ [Next]_vars => ExploresUndisturbed'
  <2> SUFFICES ASSUME IInv, Undisturbed, restarts = 0 => Explores, [Next]_vars, restarts' = 0
               PROVE  Explores'
    BY DEF ExploresUndisturbed
  <2>1. CASE Next
    <3>1. Relay /\ Explores /\ ~ ExplorerRestarts
      BY <2>1, RestartsCount DEF Undisturbed
    <3>2. QED
      BY <2>1, <3>1, WorldExplores, PayloadExplores, ScanExplores, OthersExplore, TickExplores
         DEF Next
  <2>2. CASE UNCHANGED vars
    <3>1. UNCHANGED <<world, published, initial_timer, pending_moves, scan_topic, move_topic,
                      trigger_requests, enemy_down_topic, mapVars, unacted_scan, status, restarts>>
      BY <2>2 DEF vars, worldVars, explorerVars, mapVars, network, stateTopics, service
    <3>2. MapIsSeen' /\ ContactsAreNear' /\ NoWastedCommands'
      BY <3>1, StillExplores
    <3>3. QED
      BY <3>1, <3>2 DEF Explores, MessagesAreRight, GoodCommand, mapVars, DoneIsRight, Stimuli, One,
                        NothingLeft
  <2>3. QED  BY <2>1, <2>2
<1>2. Init => ExploresUndisturbed
  BY InitExplores DEF ExploresUndisturbed
<1>3. QED  BY <1>1, <1>2, Invariance, RelayInvariance, PTL DEF Spec

(* No command into a wall or an active contact, no refused hit report.     *)
THEOREM NothingIsWasted == Spec => [](restarts = 0 => NoWastedCommands)
<1>1. ExploresUndisturbed => (restarts = 0 => NoWastedCommands)
  BY DEF Explores, ExploresUndisturbed
<1>2. QED  BY <1>1, ExplorationInvariance, PTL

(* DONE is reported only of a mission that succeeded, or of one in which   *)
(* every cell that can be walked to was seen and every contact seen is     *)
(* down; FAILED only of a failed one.                                      *)
THEOREM ReportsAreTrue ==
  ASSUME Walled
  PROVE  Spec => []ReportsAreHonest
<1>1. IInv /\ ExploresUndisturbed => ReportsAreHonest
  BY DEF IInv, ExploresUndisturbed, Results, FailedIsHonest, ReportsAreHonest, DoneIsHonest, Explores,
         DoneIsRight, NothingLeft
<1>2. QED  BY <1>1, Invariance, ExplorationInvariance, PTL

-------------------------------------------------------------------------------
(* The plans. *)

(* The explorer's map is one of cells, and it knows where it is.           *)
OnTheMap ==
  /\ current_position \in Positions
  /\ DOMAIN known_cells \subseteq Cells

LEMMA InitOnTheMap == Init => OnTheMap
<1> SUFFICES ASSUME Init
             PROVE  OnTheMap
  OBVIOUS
<1>1. known_cells = << >> /\ current_position = [x |-> 0, y |-> 0]
  BY DEF Init, ExplorerInit
<1>2. DOMAIN << >> = {}
  OBVIOUS
<1>3. QED  BY <1>1, <1>2 DEF OnTheMap, Positions

LEMMA NextOnTheMap == IInv /\ OnTheMap /\ [Next]_vars => OnTheMap'
<1> SUFFICES ASSUME IInv, OnTheMap, [Next]_vars
             PROVE  OnTheMap'
  OBVIOUS
<1>1. CASE UNCHANGED <<current_position, known_cells>>
  BY <1>1 DEF OnTheMap
<1>2. CASE ExplorerReceivesScan
  <2>1. PICK k \in 1 .. Len(scan_topic) : on_local_scan(scan_topic[k])
    BY <1>2 DEF ExplorerReceivesScan
  <2> DEFINE s == scan_topic[k]
  <2>2. PICK w \in WorldState : s = ScanOf(w)
    BY SampleIsScan DEF IInv, Scans
  <2>3. s.robot = w.robot /\ DOMAIN s.cells = Window(w.robot) /\ w.robot \in Cells
    BY <2>2, ScanSays DEF WorldState
  <2>4. Window(w.robot) \subseteq Cells /\ Cells \subseteq Positions
    BY WindowType, NextToWindow
  <2>5. current_position' = s.robot /\ DOMAIN known_cells' = DOMAIN s.cells \cup DOMAIN known_cells
    BY <2>1 DEF on_local_scan, Merge
  <2> HIDE DEF s
  <2>6. QED  BY <2>3, <2>4, <2>5 DEF OnTheMap
<1>3. CASE ExplorerRestarts
  <2>1. known_cells' = << >> /\ current_position' = [x |-> 0, y |-> 0]
    BY <1>3 DEF ExplorerRestarts
  <2>2. DOMAIN << >> = {}
    OBVIOUS
  <2>3. QED  BY <2>1, <2>2 DEF OnTheMap, Positions
<1>4. CASE Next
  <2>1. CASE Publishes
    BY <1>1, <2>1 DEF Publishes, explorerVars
  <2>2. CASE Quiet
    BY <1>1, <2>2 DEF Quiet, mapVars
  <2>3. CASE ExplorerReceivesResult
    BY <1>1, <2>3 DEF ExplorerReceivesResult, on_result, mapVars
  <2>4. QED  BY <1>2, <1>3, <1>4, <2>1, <2>2, <2>3, StepKinds DEF IInv
<1>5. CASE UNCHANGED vars
  BY <1>1, <1>5 DEF vars, explorerVars
<1>6. QED  BY <1>4, <1>5

(* In every state of the mission, restarts and overtaken samples included, *)
(* the step the explorer would take (plan_next_step, mission_explorer.cpp  *)
(* lines 198-254) is on a shortest path over its map to a frontier, and it *)
(* would report DONE only when its map offers none.                        *)
THEOREM HeadsForNearestFrontier ==
  Spec => [](Plan = NearestNeighbor(known_cells, active_contacts \ processed_contacts, current_position))
<1>1. OnTheMap => Plan = NearestNeighbor(known_cells, active_contacts \ processed_contacts, current_position)
  <2> SUFFICES ASSUME OnTheMap
               PROVE  Plan = NearestNeighbor(known_cells, active_contacts \ processed_contacts, current_position)
    OBVIOUS
  <2>1. DOMAIN known_cells \subseteq Positions /\ IsFiniteSet(DOMAIN known_cells)
    BY CellsFinite, FS_Subset, NextToWindow DEF OnTheMap
  <2>2. QED  BY <2>1, PlansNearestFrontier DEF Plan, OnTheMap
<1>2. QED  BY <1>1, InitOnTheMap, NextOnTheMap, Invariance, PTL DEF Spec
================================================================================
