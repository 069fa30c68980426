# Formal models of robodreams-cpp-miltech

TLA+ specifications, TLC model checks and TLAPS proofs for the programs of this
repository. The repository is a collection of independent programs (one directory per
homework) with vendored code, demonstrations and documents around them. The models follow
the source; paths below are relative to the repository root (`src/` in `PROJECT.json`).

## 1. Inventory

### Underground robot mission — `homework_14/robot_ws/src` (modelled)

Three ROS 2 nodes, each a single-threaded executor, solve a grid mission together.

| part | source | state | operations |
| --- | --- | --- | --- |
| scenario and ground truth | `underground_world/src/{scenario_loader,world_model}.cpp` | grid, robot position, counters, contacts seen and down, passable cells seen | `make_scan`, `apply_move`, `apply_enemy_down`, `result`, `terminal`, `snapshot` |
| world node | `underground_world/src/underground_world_node.cpp` | the world object, `pending_moves_`, two timers | `on_move`, `on_enemy_down`, `commit_next_move`, start-up publication, `publish_state` |
| mission explorer | `homework_14_solution/src/mission_explorer.cpp` | known map, three sets of contacts, pending contact, last result, scan counters | `on_local_scan`, result callback, `control_tick` (20 ms), service answer, the planner |
| payload | `homework_14_solution/src/payload_action.cpp` | none | the trigger service: publishes `EnemyDown`, accepts |

Interaction: the world publishes scan, metrics and result on latched `KeepLast(1)` topics;
the explorer answers each scan with one move (`/robot/cmd_move`, volatile), one trigger
request (`/payload/trigger`) or a status report; the payload turns a request into
`/robot/enemy_down`, which makes the world publish again.

Hard behaviour: scan and result travel separately and may be seen at different times; the
explorer must act once per scan; moves queue up behind a commit timer; events published
before discovery completed are lost; the payload accepts whether or not its event reaches
anybody; a restarted explorer finds the latched samples but has lost its map.

Correct means: nothing that arrives, in whatever order, corrupts the world or overruns
its budget; an outcome is final and earned; the three nodes finish a solvable mission
without a wasted command; nothing stalls silently; reports are honest.

### Anti-drone turret — `homework_13/robot_ws/src/antidrone_turret` (modelled)

| part | source | state | operations |
| --- | --- | --- | --- |
| actuator | `actuator_model.hpp`, `actuator_node.cpp` | ready flag, trigger count, one-shot reload timer | trigger service, reload, status at 2 Hz |
| controller | `turret_logic.hpp`, `turret_controller_node.cpp` | its copy of the actuator state | `on_target` (track, fire), `on_actuator_status` |
| track publisher | `target_sequence.hpp`, `target_track_simulation.hpp`, `target_track_publisher_node.cpp` | sample index, hit window, last trigger count, its copy of the actuator's readiness | publish the next sample, `on_actuator_status` |

Before that the publisher loads its samples: `target_track_loader.hpp` reads one track file, or under
`track:=all` the four provided ones, with a gap after a file that ends with its drone in sight
(`append_track_gap`). Two drivers only log the aiming commands. Interaction: samples go to the controller, which
may call the trigger service; the actuator's status goes to the controller and to the
publisher, which ends a drone's track when the trigger count rises, or when the drone reaches the
protected zone while the actuator reloads. All topics are volatile.

Hard behaviour: two nodes keep copies of the actuator's state that statuses overwrite, late or
after having missed some; a count arrives several samples after the sample that was shot at and is
repeated for ever; files are glued together so that drones stay apart. Correct means: a shot ends at most one drone; a wrong copy is on its way to being
corrected; after a drone the next one comes, from its beginning; the turret never stops shooting.

### C2 arbiter — `homework_12/edge/c2/src` (modelled)

| part | source | state | operations |
| --- | --- | --- | --- |
| link to the flight controller | `fc_link.{hpp,cpp}` | atomics `connected`, `armed`, `mode`; `offboard_started` | two telemetry callbacks (MAVSDK's threads), `hold`, `go_to_ned` |
| arbiter | `c2_controller.{hpp,cpp}`, `main.cpp` | `C2State`, `healthcheck_written`, `hold_sent_in_state` | `tick` every 100 ms |
| socket | `udp_socket.hpp` | queued datagrams | non-blocking `recv` |

`tick` reads the atomics, follows them with its four-state machine, sends one hold per stay in
ARMED_HOLD, and forwards at most one waypoint datagram when ARMED_GUIDED. Around it: the flight
controller with the pilot, who changes modes as he likes; `auto_stub`, which sends its current
waypoint again and again without looking at telemetry; Docker, which restarts the service.

Hard behaviour: armed and mode are not read together and may change between test and forwarding;
`offboard_started` is never cleared and no result of a command is looked at; datagrams queue in
the socket; a datagram that does not parse ends the process. Correct means: one hold per stay;
waypoints are forwarded only on what telemetry said; the pilot's mode is taken from him at most
once per process; the arbiter follows whatever the pilot settles on; back in guided mode the
rover is sent to the present waypoint.

### Drone mission simulator — `homework_07` (modelled on a line)

| part | source | state | operations |
| --- | --- | --- | --- |
| target analyser | `src/core/TargetAnalyzer.cpp` | none | position and prediction of a target, drop and manoeuvre point, time estimates, choice of the best target |
| drone states | `src/states/*.cpp` | position, speed, directions, remaining turn | `execute` of Stopped, Turning, Accelerating, Moving, Decelerating |
| mission processor | `src/core/MissionProcessor.cpp`, `src/main.cpp` | the state object, simulation time, `missionComplete`, four flags of lock and manoeuvre, the solver's answer | `init`, `hasNext`, `step`, `reset`, `changeSolver` |
| table solver | `src/providers/TableSolver.cpp` | five axes, two arrays of results | `load`, `solve` (`findInterp`, `lookup`) |
| other providers | `AnalyticalSolver.cpp`, JSON loaders, factory | targets, configuration | not modelled |

`main` calls `step` until `hasNext` is false. A step ranks the targets by the time to their drop
point, keeps the locked one, decides between manoeuvre point and drop point, lets the state of the drone fly,
and drops when the drone is Moving within `hitRadius` of the drop point. The drop point lies at the
solver's `horizontalDistance` before the predicted position of the target. `TableSolver` interpolates
that distance in five dimensions. Sequential, no threads.

Hard behaviour: the points are computed anew in every step while the drone moves; the drone
flies towards its goal in every state but Decelerating, whichever way it points; flags set in one step decide
in a later one; `findInterp` returns border cells for queries beyond an axis, and for an axis of one entry
cells that do not exist, whose weight is zero. Correct means: the drop is made from the right distance at full speed and hits;
a locked target is not switched; flags belong to one target; the loop ends; `reset` restores what `init`
sets.

### Telemetry reader — `homework_05` (modelled)

`main.cpp` and `telemetry.cpp`: `read_frames` takes a log line by line, splits and parses each, checks it
against the frame before it and gives up at the first it cannot accept; `summarize` and `print_summary` follow.
State: the frames so far, then the summary and the exit code. Sequential. Hard behaviour: what
`strtod`, `strtol` and the tokeniser let through (NaN, narrowing to `int`, text after the seventh field),
a line longer than the buffer, averages of negative temperatures. Correct means: neighbouring checks add
up to a log without gaps; the exit code and the summary are those of the log; incorrect input fails.

### UGV odometry — `homework_04` (modelled)

`main.cpp`: the pose of a four-wheeled vehicle, summed up over readings of its wheel counters. State: the
counters of the last reading and the pose. Correct means: nothing is lost or counted twice on
the way, and a way back cancels the way out.

### What remains

`homework_06` (ballistics) is Cardano's formula and trigonometry on floating-point numbers, with no state.
`demos` are independent teaching examples of a few dozen lines; `preps`, `docs`, `cmake` and containers hold no
program logic. `homework_07/include/utils/json.hpp` is a third-party library, 25830 of the repository's 32343
counted lines: whatever is modelled, the share of mapped lines stays small.

## 2. Modules

| module | models | extends |
| --- | --- | --- |
| `Scenario` | a valid scenario, its cells, walls, contacts (`scenario_loader.cpp`) | |
| `WorldModel` | class `WorldModel`: an object is a record, a method an operator | `Scenario` |
| `UndergroundWorldNode` | the callbacks of the world node, one action each | `WorldModel` |
| `Mission` | abstract specification: what a mission promises | |
| `WorldContract` | the world node with an arbitrary student; its properties; refinement of `Mission` | `UndergroundWorldNode` |
| `Planner` | the breadth-first search of the explorer, and the definition of what it should return | |
| `PlannerCheck` | the one against the other on every map that can be revealed of a room | `Planner` |
| `MissionExplorer` | the callbacks of the explorer and the branches of `control_tick` | `Planner` |
| `UndergroundMission` | the three nodes, topics, the service, discovery, restarts | `UndergroundWorldNode`, `MissionExplorer` |
| `MissionProperties` | what the three achieve together | `UndergroundMission` |
| `UndergroundLemmas` | lemmas about the world node and the planner, for the two modules that follow | `UndergroundWorldNode`, `Planner`, TLAPS |
| `Underground_proofs` | theorems about the world node alone and about the planner | `WorldContract`, `PlannerCheck`, `UndergroundLemmas` |
| `Mission_proofs` | theorems about the three nodes | `MissionProperties`, `UndergroundLemmas` |
| `TrackSimulation` | classes `TargetSequence` and `TargetTrackSimulation` | |
| `TurretController` | the callbacks of the controller | `TrackSimulation` |
| `ActuatorNode` | `ActuatorModel` and the callbacks around it | |
| `Turret` | the three nodes, topics, the service, discovery | `TurretController`, `ActuatorNode` |
| `TurretProperties` | what the turret has to keep | `Turret` |
| `TrackLoader` | `target_track_loader.hpp` and `load_samples_from_parameter` | |
| `TurretProgram` | the turret with the samples of its track files | `TurretProperties`, `TrackLoader` |
| `Turret_proofs` | theorems about both | `TurretProgram`, TLAPS |
| `FcLink` | class `FcLink`: telemetry callbacks and commands | |
| `C2Controller` | `C2Controller::tick`, one action per step that reads or writes what others share | `FcLink` |
| `C2Service` | arbiter, link, pilot, `auto_stub`, Docker | `C2Controller` |
| `C2Properties` | what the arbiter has to keep | `C2Service` |
| `C2Service_proofs` | theorems about it | `C2Properties`, TLAPS |
| `TargetAnalyzer` | class `TargetAnalyzer` on a line | |
| `DroneStates` | `execute` of the five states | `TargetAnalyzer` |
| `MissionProcessor` | `init`, `step`, `reset`, `changeSolver` | `DroneStates` |
| `SimulatorProperties` | what a simulated mission has to keep | `MissionProcessor` |
| `TableSolver` | class `TableSolver` | |
| `SimulatorProgram` | missions aimed by a table; a reference definition of the interpolation | `SimulatorProperties`, `TableSolver` |
| `Simulator_proofs` | theorems about both | `SimulatorProgram`, TLAPS |
| `Telemetry` | the telemetry reader | |
| `TelemetryProperties` | which logs are good and what their summary is | `Telemetry` |
| `Telemetry_proofs` | theorems about it | `TelemetryProperties`, TLAPS |
| `Odometry` | the odometry | |
| `OdometryProperties` | what the pose has to be | `Odometry` |
| `Odometry_proofs` | theorems about it | `OdometryProperties`, TLAPS |
| `MC*` | TLC instances: grids, track files, tables, lines, readings | |

Reading guide:

* Methods are operators on records because the handlers chain them: `publish_state(w)` is the
  tail of every handler that changes the world, called with the object the handler made, and
  it changes the object once more (`make_scan` records what it sees) before anything is published.
* A callback is one action: rclcpp's default executor runs callbacks of a node one at a time.
  Callbacks of different nodes interleave.
* A contact is named by its cell. The loader numbers contacts in row-major order and the code
  only compares the numbers, so cell and number are interchangeable.
* `have_scan_`, `scan_sequence_` and `acted_scan_sequence_` are one bit, `unacted_scan`: the code
  only tests whether the two counters differ.
* `published` is the latched sample of the state topics. `scan_topic` and `result_topic` hold what
  is on its way to the explorer: at most two samples (writer and reader keep one each), any of
  which may be the next one delivered, the older ones being overwritten.
* `links` says which publisher-subscriber pairs have been discovered. A volatile message on
  an undiscovered link is lost, and `lost` remembers that for the properties.
* A service client sees the service ready only when discovered (`service_is_ready`).
* `ExplorerRestarts` gives a new explorer process: its memory is gone, the latched samples wait
  for it, its own links have to be discovered again, events it sent may or may not arrive.
* A track sample is three facts: visible, confidence at the threshold, and distance in one of three
  ranges. The thresholds of the controller (`config/sequence.yaml`) and of the track simulation
  (`TargetTrackSimulationConfig`) are the same numbers, so one abstraction serves both.
* `requests` is a number: requests carry nothing the actuator decides on, and the answer changes
  nothing in the controller.
* `pc` says where the arbiter's thread is in `tick`; callbacks, pilot and `auto_stub` act between any
  two of its steps. Steps that read and write nothing shared are folded into their neighbours.
* `seen`, `holds`, `takeovers` and `malformed` are histories for the properties and bounds; no guard
  of the code's steps reads them.
* The simulator's plane is a line: a direction is +1 or -1, so every turn is a half turn, and distances
  are integers because `ConfigAssumption` chooses units in which half an acceleration and the
  tracks' slopes are whole. A step takes one unit of time; estimates, which only rank targets, are in hundredths of
  it and rounded down. Slow turns of a Moving drone, which only exist in the plane, are left out.
* `simulationTime` is kept within one round of the tracks, which the code repeats (`% timeSteps`).
* `Returning` is the value of `returningFromManuver` after the three rules of `step`
  (`MissionProcessor.cpp:177-185`); `atManeuverPoint` may raise it again. A step is a
  function of the record `Now` of what the processor keeps; it computes the best target `b` once, from the
  state before the step. Two flights from one `Now` are the same flight, which is what the proof about `reset` needs.
* `drops` is a history with a record for each drop.
* Tables, queries and the speed are chosen so that every interpolated answer is a whole number; divisions are left to the
  end of `lookup`. Nothing in the code checks that the axes of a table increase, the models assume it.
  `Garbage` is what memory beside an array may hold: an axis of one entry makes `lookup` read it.
* A row of a track file is one the loader skips, a bad one, or a sample.
* A line of a telemetry log is its fields, whether something follows them, and whether it is empty or too long
  for the buffer. Numbers parsed as doubles are counted in halves, and an `int` has `INT_SPAN` values.
* A position of the odometry is the formal sum the code adds up: for each heading the distance
  travelled along it. Headings are counted in quarters of the turn of one tick, distances in quarters of a tick.
* A definition with a suffix such as `make_scan_CountsWalls` marked `\* mutant` is a plausible
  wrong version of the definition it precedes. Nothing uses it; substituting it must break the
  property named in `PROJECT.json`.

## 3. Runs

| run | question | bounds |
| --- | --- | --- |
| `world_contract` | does the world node keep its promises whatever a student sends, whenever? | 3x3 open grid with one contact, budget 5, known and unknown directions, reports for a contact, a free cell and a cell outside, 2 queued moves, 1 rejected report |
| `planner` | does the search return a nearest frontier on every map? | every partial map of a walled 3x3 room with at most one contact, two start cells |
| `small_rooms` | do the three nodes solve the repository's scenario under every interleaving? | `config/small_rooms.yaml` as it is, radius 1, budget 140; the payload service is discovered late |
| `restart` | what survives late discovery and a restart of the explorer at any moment? | two contacts in a row and a walled-off cell, budget 10 so that failures occur, no link discovered at first, one restart |
| `turret` | do three nodes with stale copies of the actuator's state stay consistent? | the four track files, shortened, under `track:=all`, for ever; two shots, timers publish while fewer than two messages are on their way |
| `request_while_reloading` | is the service called while the actuator reloads? (violation) | `approach_trigger` alone, two shots, one message on its way |
| `c2_service` | does the arbiter forward, hold and take over only when it may, does it follow whatever the pilot settles on, and is the rover sent to the present waypoint whatever happened before? | pilot modes Manual and Guided (Hold comes from the arbiter), two waypoints, one heartbeat and one datagram waiting, one malformed datagram |
| `stale_health` | is a healthy service connected? (violation) | one waypoint; a mode without a name as well |
| `simulator` | do lock and flags agree, is every drop in range, does a mission over targets at rest end, does `reset` forget, and is the table interpolated as it should be? | two targets at rest at three places each, before, behind and below the drone, hit radius 0 and 12, distances 0, 8 and 40; two moving ones on every track of three samples with a jitter of 16 around two places; every table with every ammunition, where no other solver comes; four table files, one with an axis of one entry and one cut short; one reset, one change of the solver |
| `telemetry` | is a log whose lines fit the buffer summarised exactly when it is good, and rightly? | 23 lines, one of each way to go right or wrong, up to five in a log; three frames at most; ints of six bits |
| `overlong_line` | does every log with an incorrect line fail? (violation) | as `telemetry` |
| `odometry` | is the pose true however the wheels turn? | seven readings, at rest, straight, turning, backwards, slipping; up to five in a log |

Why the bounds are enough. The world's rules are local: a move is refused because of a wall, the
border or a contact, a hit because of an unknown contact, a wrong position, distance or a repetition;
the 3x3 grid has each, both outcomes are reached, and the budget is spent with accepted, refused and
unknown commands in every order. Two queued moves suffice for a move to wait behind the one
that ends the mission. For any size the proofs take over. The planner sees every map of the room,
so every tie, every dead end and every contact position; its answer depends on the map and
nothing else. The mission runs are bounded by the scenario alone: `OneStimulus` shows that
without restarts the queues never hold more than one element.

In the turret, two shots are the least in which a count can be mistaken for a new one, and two
messages in a topic are the least in which one overtakes a decision while another waits;
`MaxInFlight` bounds the timers only, what a shot or a reload publishes comes on top. The tracks
give a drone of one sample, one that comes through, one that becomes a target half way, one that never does,
and files that end with and without their drone in sight.

In the arbiter's run a heartbeat is two callbacks, so armed and mode are always apart; a datagram in
the socket and one in hand make an old waypoint reach the rover after `auto_stub` moved on; mode Hold
arises from `hold()`, and Unknown when the rover is armed before its mode arrives; that a mode of the pilot's
without a name changes nothing about safety is proved (section 4). A process that restarts once with a malformed datagram shows everything a
restart can: the second restart starts from the same state.

In the simulator speed, acceleration path and hit radius are in the proportion of
`data/config/config-1-base.json` in steps of a third of a second, so that six steps lead to full speed. A target is reached from either
side, from within and from outside the acceleration path, and two targets compete; with 0 as hit radius
only an exact drop counts. Queries lie on the entries of an axis, between, below and beyond them, two axes at a time;
the speed is on an entry, between and beyond. The tracks make the best target change in flight. What does not depend on these numbers
is proved for all of them.

In the telemetry run three frames are the least in which a check of neighbours could miss a gap, and
a fourth good line meets the full buffer; six bits make a number wrap into an accepted one. In the odometry
run five readings are a way of two legs there and back.

The violated runs. `homework_13/README.md` says that the service is not called again during
RELOADING. The controller guards against this with its own `kReloading`, but any READY status
that was published before the request was served resets it (`turret_controller_node.cpp:237`);
with the next target the controller calls again. The actuator rejects the call, so no shot is
miscounted. `StaleViewsAreCorrected` says what does hold: the correction is always on its way.

`fc_link.hpp` names the first heartbeat as the signal for `/tmp/c2_healthy`. `tick` creates the file
then (`c2_controller.cpp:90`), but nothing removes it and a restarted container keeps it:
the new process is reported healthy while it still waits for the autopilot.

`homework_05/README.md:16-18` expects a message in `stderr` and a non-zero exit code for incorrect
input. A line that does not fit the buffer of 256 characters makes `getline` fail, and the loop of `read_frames` ends as it
does at the end of the file (`telemetry.cpp:108`): two good frames followed by such a line of text are summarised, the
exit code is 0, and nothing tells that the rest of the log was not read. `OutcomeIsRight` speaks of logs whose lines fit.

What the runs show beyond their properties:

* Without restarts the three nodes pass one stimulus around (`OneStimulus`). Everything else follows from it:
  scans are never overwritten and the explorer's picture is current when it acts. With the move and hit links
  discovered in time no command is wasted and the mission succeeds; late discovery alone can only stop the relay.
* With a restart this is lost: commands and triggers may be duplicated and a move may run into a wall.
  Safety of the world, truth of the map and honesty of FAILED survive.
* When a robot cannot reach every cell DONE still means what it says (`DoneIsHonest`), unless there was a
  restart. Then it may be wrong: a move sent by the old process can take the robot out of sight of a contact that
  only the new process has seen, and that contact bars its way from then on. TLC finds it in the room `#######`,
  `#..S.C#`, `#######` with scan radius 1 and one restart; `ReportsAreHonest` is stated accordingly.
* `<>(status \in {"DONE", "FAILED"})` does not hold even in the plain setting: when
  `control_tick` runs between the delivery of the final scan and that of the final result, the
  explorer answers the scan with one more command; the finished world drops a move without
  publishing, so no scan comes and the explorer never reports. No document promises the report; the
  properties therefore speak of the end of the mission for the world *or* the explorer.
* Messages lost before discovery stall the mission for good (`lost` in `NoSilentStall` and
  `MissionEnds`): nothing in the code retries a move or a hit report.
* The simulator drops on the state *after* `execute`. A drone that accelerates towards a goal
  behind it flies backwards (the states move it to the goal, not along its direction), and if it reaches full speed within
  `hitRadius` of the drop point it drops pointing away, `aimPoint` being up to twice the distance off.
  `LevelDropsHit` therefore speaks of drones that were Moving before the step. Nothing documented
  excludes the other drops.
* Missions over moving targets need not end: a target that goes to and fro faster than the drone
  approaches makes it brake and turn for ever. `MissionEnds` is checked over targets at rest.
* A track file played alone gets no gap at its end: with `repeat_sequence` the drone in sight there and the one in
  sight at the beginning of the next round count as one. `NextTrackFollows` therefore speaks of `track:=all`.
* The odometry reads five numbers at a time wherever lines end, and ends with success at anything else.
* After `changeSolver` on the last steps a drop is still in range but may miss: the new drop point may lie behind.

Deadlock checking is off where the system may stop: the mission runs end with every node
waiting, the planner run ends with the whole room known, and the simulator, the telemetry reader
and the odometry are programs that end. The turret never stops.

Fairness. `WorldContract` assumes that the executor keeps serving the two timers. `UndergroundMission`
assumes that each node keeps serving each kind of callback (timers fire for ever, the single-threaded executor serves
ready callbacks in turn), that reliable topics deliver and that discovery completes. It does not
assume that restarts happen, nor any order between callbacks. `control_tick` as a whole is weakly
fair, not its branches. `Turret` assumes the same of its three nodes and their timers. `C2Service` assumes that both threads of the service run,
that Docker restarts it, and that heartbeats and waypoints keep coming; the pilot owes nothing, and
a command may fail at every attempt. `CurrentWaypointReached` therefore also says that guided mode needs no second
`start()`: when the pilot is back in it, positions are enough. `MissionProcessor` assumes that `main` keeps
calling `step` while `hasNext` is true. `Telemetry` and `Odometry` assume none.

## 4. Proofs

`Underground_proofs` proves for every scenario satisfying `ScenarioAssumption` (what the loader
accepts), every budget, every set of commands that are numbers and every set of hit reports:

* `Invariance`: `IInv`, the conjunction of `TypeOK`, `WorldInv` (what concerns the world object and what
  is published of it) and the state of the timer, always holds; `TypeCorrect`, `NothingUnpublished`,
  `BudgetHolds` and `WorldSound` follow.
* `SuccessSound`: a published SUCCESS is earned.
* `EndIsFinal`: a finished mission never changes.
* `Refinement`: the node implements `Mission`.

The argument. `EndIsFinal` is the interesting one: handlers of a finished world return early,
but `on_enemy_down` still calls `publish_state`, whose `make_scan` writes to the object. It
writes nothing new because the object was already scanned from where the robot stands, and that
is `make_scan(world) = world`, part of `PublishedIsCurrent`. It is inductive because `make_scan` is
idempotent (`ScanIdempotent`) and is the last thing every changing handler does. Before the first
publication the object is new, and a new object is not terminal since a scenario has a passable
cell, its start (`NewWorldFacts`). `WorldSteps` reduces the four kinds of step to three ways of
publishing an object; `ScanFacts`, `MoveFacts` and `TriggerFacts` say what each method
changes; `Sound` collects the conjuncts that concern the object alone, and each method preserves
it. Comparing sizes is comparing sets (`CompleteFacts`) because the sets only hold cells of the
finite grid. The refinement needs no further invariant.

The proofs rest on `ScenarioAssumption` and `BoundsAssumption` only, both evaluated by TLC in
`world_contract`. The lemmas are in `UndergroundLemmas` because they hold for any
environment of the node, and the next proof needs them too.

The planner. `PlansNearestFrontier` (in `UndergroundLemmas`) says of `plan_next_step`, for every map with finitely many
positions and every set of blocked cells: it returns what `NearestNeighbor` defines without queue, visited set or
parent map. `PlanIsAlwaysNearest` states it as an invariant of a room of any size that is revealed cell by cell
(`PlanIsNearestFrontier`, resting on `RoomAssumption`, evaluated in `planner`), and `HeadsForNearestFrontier`, in
`Mission_proofs`, of the explorer's own map in every reachable state of the mission.

The argument. Give every entry of the queue the rank 4k + a, where k is the number of steps after the first and a
the number (1 to 4) of the first step's direction: shorter paths have smaller ranks, and of two equally short ones the
one that wins the tie. The queue is ordered by rank and no entry is more than 4 ahead of the one being served
(`Ranked`, kept by each round: `RoundRanks`), since an entry queues only cells of a rank 4 higher. An entry really is as far
away as its rank says (`Reached`), and no cell comes later than the shortest path to it asks for (`SearchRanks`, by
induction over the steps of that path). Hence the first frontier in the queue is the one of least rank, which is the nearest
with ties broken in order. That the distances compared are below the number of cells that can be entered (`Far`) follows from
the ranks too: they grow by at most 4 from entry to entry, and a cell is queued once (`FarFacts`).

`Mission_proofs` proves for the three nodes, for every scenario, every budget and every set of links
discovered at first:

* with any number of restarts and lost messages `Invariance`, `MapAlwaysTrue` (`MapIsTrue`),
  `FailureReportIsTrue` (`FailedIsHonest`) and `MissionRefinement`: the composed system implements `Mission`;
* as long as the explorer has not been restarted (`restarts = 0`) `OneStimulusAtATime` (`OneStimulus`),
  `TicksActOnCurrentScan` (`ActsOnCurrentScan`), `RelayNeverStalls` (`NoSilentStall`) and `NothingIsWasted`
  (`NoWastedCommands`);
* `ReportsAreTrue` (`ReportsAreHonest`) for scenarios closed by walls (`Walled`). Every scenario file of the repository
  is; the loader does not demand it, and section 5 says what happens without.

The argument. `StepKinds` sorts the actions into those that publish the world, those that concern neither
world nor map, the two deliveries and the restart, so that each part of the invariant looks at five kinds of step.
`IInv` adds to the map's truth what makes it inductive: a sample on its way was true when published, and stays
true in what the map takes from it because contacts only go down (`Samples`); a sample that still calls a
contact active cannot be older than one that calls it down, so `processed_contacts` and `active_contacts` stay apart even
when a sample is skipped. `Results` says the same of outcomes. The refinement reuses the world node's
`StepRefines`: for `Mission` it does not matter who sends the commands. `Relay`, the invariant without restarts, says
that the one stimulus carries the present state: the scan on its way is the world's (`ScanIsCurrent`), a
contact asked for is the pending one (`Served`). A step that consumes the stimulus puts the next one in its place,
ends the mission or loses a message. `Explores` adds what the explorer has made of it: the cells it knows are cells the
world counts as seen, a contact it knows is in sight, a move on its way is free and leaves no active contact behind
(`ContactsAreNear`), and a trigger asked for is for a contact that can be hit. That DONE is honest needs that a search
that finds nothing has been everywhere: `PlanFacts` says of `plan_next_step` that it returns a traversable neighbour or
else that a set of traversable cells without a frontier is closed around the robot, and `ReachableWithin` that nothing
leads out of such a set between walls. `PlanFacts` is an induction over the rounds of the queue (`Searched`: what has
been queued was reached, each cell once, with its first step). The prover knows neither recursion nor induction over
operators; `RecursiveSequence` shows that the recursive function exists, and `SetInduction` and `Least` replace induction
by sets of numbers. These rest on `ScenarioAssumption` and `MissionAssumption`, evaluated in
`small_rooms` and `restart`.

`Turret_proofs` proves for every sequence of samples, played once or for ever, and every
bound:

* `TypeCorrect`: `TypeOK`. The search of `skip_to_next_track` needs that a set of numbers has a least
  element (`Least`).
* `OneHitPerShot`: `HitsAreShots`. It is inductive because it speaks of the counts on their way as
  well: they lie in order between what the publisher has seen and what the actuator has counted.
* `ViewsAreCorrected`: `StaleViewsAreCorrected`. `EventualView` is what a node believes once its
  topic is empty: receiving a message does not change it (`ReceiveFacts`), publishing on a discovered
  link sets it to the truth (`PublishFacts`). It is not inductive alone: while the link is not
  discovered a shot is only known to the controller because it asked for it (`Undiscovered`).

* `NextDroneComes` (`NextTrackFollows`) for the samples of any four files loaded under `track:=all`. What the loader has
  combined so far ends without a drone in sight, and the marks of its drones are those of the files in order (`Combined`); one more
  file and its gap keep that (`FileMarks`, `GapCombines`), and the loops are unrolled over the four names (`FilesFold`,
  `MarksFold`). So a drone begins exactly where one is in sight after none was, over the end of the samples too
  (`FirstOfDroneFacts`), and that is what the search finds (`SkipFacts`). The state adds one fact: a hit window is only open
  when the sample published last showed a drone (`OpenOnSight`); without it the search could skip one.

These rest on `SamplesAssumption` and `BoundsAssumption` of `Turret` and on `ProgramAssumption`, evaluated in `turret`.

`C2Service_proofs` proves for every route, every choice of pilot modes and every bound
`TypeCorrect`, `HoldOnce` (`OneHoldPerStay`), `ForwardsSeen` (`ForwardsOnWhatWasSeen`) and
`TakeoverOnce` (`TakesOverAtMostOnce`). The invariant `IInv` adds to the types: `HoldsCounted`, the only
place where ARMED_HOLD is without its flag is just before the hold; `SeenCovers`, during a tick
`seen` is at least what the atomics say and at least what the tick has concluded, so that a callback
can only add to it; `TakeoverCounted`, only a process that has not started offboard mode is about to.
They rest on `BoundsAssumption` of `C2Service`, evaluated in `c2_service`.

`Simulator_proofs` proves for every configuration that flies, every number of targets on any
tracks, every solver and any number of resets and changes of the solver:

* `TypeCorrect` (`TypeOK`), `FlagsAlwaysAgree` (`FlagsAgree`), `DropsAlwaysInRange` (`DropsInRange`)
  and `LockHolds` (`LockIsKept`);
* `FliesTheSameAgain` (`SameAgain`) where `hitRadius` is shorter than `accelerationPath` (`ShortHitRadius`);
* `LevelFlightHits` (`LevelDropsHit`) where `hitRadius` and half an acceleration together are no longer than it
  (`BrakesInTime`). In the repository's configuration they are 3 and 10;
* `SolverInterpolates`: what `TableSolver` answers is the interpolation of its file, and with it `AimsAlways`
  (`AimsByTheTable`).

First every estimate is a number and every point an integer (`MoveType`, `PathTimeType`,
`DropPointType`), and a drop point is as far from its target as asked for. The selection returns one
of the candidates since a fastest one exists: `FastestExists` looks at the least index up to which there is
none, the induction a finite choice needs. Each state keeps speed and turn in step with itself
(`ExecuteFollows`). `IInv` is the conjunction of the four invariants with the type of the histories. `FlagsAgree` is
inductive because heading to a manoeuvre point locks in the same step and a lock fixes what is evaluated;
`DropsInRange` is the triangle of place, drop point and target (`DropType`).

`SameAgain`: what `step` does is a function of `Now`, so two flights that start alike drop alike (`OneFlight`), and
`SameFlight` keeps for each drop the flight that led to it. After `reset` one field differs, `desiredDir`, which keeps
its last value. It is set in the first step unless the mission starts at its first goal (`StartIsAway`), and there the
hypothesis is needed: with a hit radius as long as the acceleration path and a moving target whose drop point is the start
TLC finds a second flight that differs.

`LevelDropsHit`: on the way back from a manoeuvre to a target at rest the drone has not passed the drop point, and once it
is Moving it is strictly ahead of it (`AheadOfDrop`). `ExecuteMoves` says how far each state moves and to which side,
`FarEnough` that the manoeuvre point is left only with the acceleration path still ahead. The hypothesis is what
the last moment of braking may add; with longer hit radii TLC finds drops behind the target.

`SolverInterpolates` relates two definitions of one number, for tables of any size whose five axes increase
(`FilesAssumption`), files cut short anywhere, queries inside, outside or on an entry, and whatever is read beside the arrays.
The code numbers entries, finds the cell by `lower_bound`, reads 32 corners by a nested index and folds them axis by axis.
The reference has sets instead: the entries next to the clamped value, all combinations of these as points, and a sum over
the points weighted by their distances.

* On an axis, either one entry has the whole weight, at one end of the cell, or both ends share it (`InterpFacts`, `AxisIsRead`):
  so whatever lies at the other end of a cell beside the table is multiplied by zero.
* The nested index counts what is stored before a cell (`StatedIs`), and the cells with a weight are inside (`IndexInside`).
* `FoldIsSum`, the heart of it: `SumsUp` ties a corner folded down to `k` axes to the sum over the points that begin with
  the corner's `k` entries, and `FoldStep` goes from `k + 1` to `k` since these points part by their next entry (`Adds`).
* Both sides are fractions. The same fold over the denominators shows that they have a common factor (`DenominatorsFold`),
  which cancels before both are rounded down (`Reduced`).

`SumFacts` and `ProductFacts` say what the folds of the community modules compute: that a sum may be split at any subset is
an induction over cardinality, which looks for a least counterexample. `AimIInv` then says whose answer `ballistics` is.

All of them rest on `ConfigAssumption` and `InputsAssumption`, those about the table also on `FilesAssumption` (what a table file is)
and `SolverAssumption` (a configuration's ballistics are answers of a `TableSolver`), all evaluated in `simulator`.

`Telemetry_proofs` proves, for any lines, any width of an `int` and any number of frames:

* `AcceptedFramesFollowOn` (`FramesFollowOn`): the checks compare neighbours, and what they say adds up over any distance.
* `TheOutcomeIsRight` (`OutcomeIsRight`, for logs whose lines fit the buffer). `Progress` ties each frame to the line it was read from and `Ended` says how
  the process can have ended, so that the lines read decide the exit code (`ReadIsGood`, `RejectedIsBad`). Two
  frames in order take some time (`TimePasses`): of the logs that reach `summarize` only those of one frame have no rate. That the
  loop of `summarize` finds the extremes, the sum and the count is an induction along the frames (`ExtremesAre`, `SumIs`,
  `LowIs`); that average and rate are rounded as stated is arithmetic of `\div` (`QuotIs`, `Division`).

They rest on `TelemetryAssumption`, evaluated in `telemetry`. `Odometry_proofs` proves `PoseIsAlwaysTrue` (`PoseIsTrue`) for
any readings: the heading telescopes, and of two mirrored readings the innermost pair has the same pose, then the
next one out, because a step back undoes a step out. The induction looks for the least pair that
fails. It rests on `OdometryAssumption`, evaluated in `odometry`.

Only model-checked: liveness (`QueueDrains`, `MissionSucceeds`, `MissionEnds`, `KeepsShooting`,
`FollowsThePilot`, `CurrentWaypointReached`), and what `restart` shows of the explorer after a restart beyond the theorems above.

## 5. Not modelled

Of the modelled programs: wall-clock durations (timers fire in any order), log texts, reason strings, message field layout,
the YAML reader, restarts of the world or payload process or of the turret's nodes, queues overflowing
(depth 10), the wrap of the 32-bit trigger counter, how long MAVSDK's blocking commands and the wait for
the autopilot take, the setpoint stream MAVSDK keeps up in offboard mode, the turret's two drivers (they log what they
receive), how a track row is told from a comment, real coordinates. Of the simulator:
its plane and its floating-point rounding, configurations that cannot fly (no speed, no acceleration path), failing
`init` and loaders, `simulation.json`, and `AnalyticalSolver`. Of the telemetry reader: a NaN among the
temperatures and a `seq` of `INT_MAX`, which are undefined behaviour and excluded by `TelemetryAssumption`; and the limits of a `long`: a token stands for
what `strtol` returns (`telemetry.cpp:43`), whose saturation there is not modelled, nor is the overflow of the difference of
two timestamps (`telemetry.cpp:89`).

Whole programs: those of section 1 under "What remains". `homework_06` and `AnalyticalSolver` compute
one floating-point result from their inputs; TLC has no reals, and nothing in them is a step.

Grids without a surrounding wall are covered by `world_contract` but not by
the mission runs: there the border cells stay frontiers for ever, and the explorer, standing
on one, may declare itself done early because it then only looks at its four neighbours
(`reconstruct_first_step`); `NearestNeighbor` states exactly that behaviour.

## 6. Plan

Done, in this order: world node and abstract mission, planner, composed mission; the turret; the C2 arbiter; the simulator on a
line; `TableSolver`; the track loader; the telemetry reader; the odometry; the composed mission's theorems; the theorems that
need recursion: the explorer's reports, the simulator's flights, the telemetry summary, the planner's nearest
frontier, the next drone of the track files, the table's interpolation.

Left: the simulator's plane, which needs another abstraction than a line
(arcs flown in slow turns); restarts of the world process, after which the explorer's map is of another world.
