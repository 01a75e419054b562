# A TLA+ development for mg_robot

mg_robot is the ROS 2 software of an outdoor robot that drives a list of
waypoints with Nav2, localises with AMCL, GNSS and odometry, builds its maps with
a 2D GNSS SLAM of its own, and is operated from a web UI. This directory holds
TLA+ modules for the parts of it whose correctness depends on the order of
events, on reused state or on arithmetic at a boundary: the waypoint sequencer
with its Nav2 client, the supervision of AMCL with the gate that lets AMCL's pose
into the filter, the SLAM node, the serial drivers and the obstacle detector, the
behaviour-tree conditions, and the costmap, collision monitor and transform
buffer that the repository builds from its own copies of Nav2 and tf2. TLC checks
the modules on small instances; for every instance TLAPS proves the invariants of
the navigator, the sequencer, the supervision, the SLAM graph, the saved maps, the
bridge, the scan matchers, the costmap filters, the collision monitor and the
transform buffer, and the refinement of the older server. `PROJECT.json` maps every definition
to the lines it models and lists runs, mutants, findings, hazards and theorems.

    tlc -workers 2 -config MCSequencer.cfg MCSequencer
    tlapm SequencerProofs.tla

## 1. The system

| part | state | operations | talks to |
|---|---|---|---|
| **waypoint navigator** `mg_waypoint_navigation/.../navigator.py` | the logical goal (number, callback, plan), the live goal at Nav2 (state, tree, cancelling), a send that waits for the live goal's end | `send_goal`, `cancel`; Nav2's response, result and feedback callbacks; the plan topic | Nav2's `navigate_to_pose` action; the sequencer through a result callback |
| **waypoint sequencer** `fsm.py`, `states.py`, `waypoint_sequencer_node.py` | state, route and index, pause slots, deferred stop, mode, manual goal flag, countdown timer | start, stop, pause/resume per requester, set index, reload, manual goal; timer, executor and result callbacks | navigator (calls under the FSM lock), executor, costmap parameters, services and topics |
| **action executor, costmap switch** `action_executor.py`, `costmap_mode.py` | a thread with the remaining actions; obstacle layers of the global costmap | run actions one after the other, then call back | sequencer |
| **AMCL gate** `generic_publish_controller_node.py` | open or closed; open after a start | `change_publish_state` | arbiter |
| **gate arbiter** `amcl_gate_arbiter/` | the intent of each requester, the value last confirmed by the gate, a pending call | requests, periodic realignment, the gate's answers | gate (async call), waypoint actions, supervisor, UI |
| **localization supervisor** `localization_supervisor/` | five states with run counters, attempts, time-outs; attached; the value last confirmed by the arbiter | a step per period, the arbiter's answers | arbiter (async call), initial pose service, `/speed_limit` |
| **SLAM graph** `slam_gnss_2d`: orchestrator, builders, optimiser, node base, views | keyframes, edges, factors, loop cache and tree, anchor, phase, drawn map, path, markers | frames (skip, initialise, run, fail), map timer, finalise | input, matchers, renderer, TF and topics |
| **SLAM input** ros_adapter, bag_reader, time_series, deskew | odometry and fix buffers; a recording and its cursor | odometry, fix, scan, transform, tick; process one step of a bag; shutdown | graph |
| **scan matchers** multi_res_csm, icp, ndt, csm and their compositions | target, LRU cache of targets, threads' best candidates, shared ICP, last rotation | set target, match, batches of near keyframes | graph |
| **map renderers** counting, overwrite | map bounds, hit and miss counts, threads' partial maps | add a node, redraw all, trajectory filter | graph |
| **saving and preview** save service, data saver, CLI, preview node | files of a map directory, answers under way | save, save PGM, preview, load transform | graph, files |
| **navigation bridge** slam_gnss_nav_bridge_node | last published point, heading base, adoption time | fixes, publish switch, adoption check | EKF |
| **serial drivers** motor driver, wheel odometry | port and its device, error count, last data | commands, emergency stop, publish timer, health check | devices |
| **obstacle detector** `obstacle_detection/` | grid and labels reused between frames | a cloud | costmap, markers |
| **follow-waypoints server** `waypoint_navigator.cpp` | list, index, goal status, failed ids, client futures | goal, preemption, cancel, lifecycle; response and result callbacks | Nav2 |
| **behaviour-tree plugins** `bt_plugins/` | clearance tracker, parameters, last evaluation, committed path | ticks of two conditions and an action, parameter answers, costmaps | Nav2's tree |
| **costmap, denoise layer, filters** `nav2_costmap_2d` | master grid and layers, label trees, masks | two halves of an update, clearing, enabling, lifecycle; windows; filter info and masks | sensors, map server |
| **collision monitor** `nav2_collision_monitor` | polygons, sources, last velocity and stop time | lifecycle, data, polygon and parameter callbacks, command | motors |
| **transform buffer** `tf2/buffer_core.cpp` | caches per frame, pending requests, two locks | set, look up, request, cancel, clear | everybody |
| AMCL watchdog, GNSS initializer | divergence counters, a recovery thread | pose callback, recovery with retries | initializer service |
| driver watchdog | stale topics, restart cooldown | restart | supervisor process |
| map loader, on-arrival actions | names of the loaded maps | load, restore | two map servers |
| system manager, web UI | running containers, connection | start/stop services, reconnect | docker, foxglove bridge |
| monitoring, diagnostics, launch, description, simulation, tools | small counters, configuration | | |

**What is hard.** The sequencer has five kinds of threads (the command group of
the executor, Nav2's callbacks, the countdown timer, the action thread, and the
command that waits for the costmap), two locks (FSM and navigator), and calls
that are deliberately made after a lock was released: result callbacks, the send
to Nav2, cancel requests. Nav2 refuses to preempt a goal by one with another
behaviour tree, so sends have to wait for ends. Results, acceptances and cancels
cross. In localisation three processes keep copies of one intent and are
connected by asynchronous calls without time-outs; each of them can be
restarted alone. The supervisor's machine is sequential, but long: its faults
need many periods of particular measurements. The SLAM node runs in one thread
but keeps the same poses in six places and moves them at every optimisation; its
matcher and renderer start teams of threads. The C++ nodes reuse grids, buffers
and handles from one message to the next, drop or keep results by counters and
time stamps, and cut windows out of larger data.

**What makes each part correct.**

* Navigator: a goal that the caller believes active is always in somebody's
  hands; a waiting send is released; what Nav2 runs is what the navigator tracks;
  a cancel is not forgotten; Nav2 is never asked to preempt across trees.
* Sequencer: a pause holds for everybody who asked for it; parking stops Nav2; a
  deferred stop takes effect and touches no later run; an old countdown or an old
  result does nothing; a manual goal is marked and excludes the sequence; index,
  route and reported trigger wait fit together.
* Gate: a settled arbiter's gate is the conjunction of the intents, and it
  settles; the supervisor's decision is the one the arbiter holds.
* Supervisor: AMCL is cut off exactly during recoveries, lasting anomalies are
  acted on, confirmations are fresh, giving up takes all attempts, the speed
  limit is lifted, good measurements lead back to NORMAL.
* SLAM: every edge and fix is one factor; the copies of the poses agree; the map,
  live or final, is that of the graph; frames hold what was measured at the time
  of the scan; parallel matching gives the sequential result; what is saved is
  what is read back.
* Drivers: what crosses the line is what was sent; a device that is back is used;
  the obstacles published belong to the frame.
* Nav2 and tf2: a windowed update equals a full one; labels join exactly the
  connected cells; a mask is applied where it lies; a stop reaches the motors; a
  verdict is about the present path and map; no waiting request is forgotten.

## 2. Modules

| module | models | builds on |
|---|---|---|
| `WaypointNavigator` | navigator.py; Nav2's action server as the environment | |
| `NavigatorCaller` | any caller of the navigator with the sequence's discipline | WaypointNavigator |
| `WaypointSequencer` | fsm.py, states.py, the node's command group, the executor's thread, costmap_mode.py, composed with the navigator | WaypointNavigator |
| `AmclGate` | gate node, arbiter, the supervisor's calls to it, composed | |
| `SupervisorMachine` | state_machine.py driven by the node's timer | |
| `SlamGraph` | graph_orchestrator, builders, loop closure, isam2_optimizer, anchor_manager, slam_node_base, visualizer | |
| `SlamInput` | ros_adapter, bag_reader, time_series, deskew, the offline node | |
| `CsmMatcher` | multi_res_csm_matcher under the builder's batches of near keyframes | |
| `ScanMatchers` | icp, ndt, csm, coarse-to-fine and the multi-start matchers, component_factory | |
| `MapRenderer` | counting and overwrite renderer, grid_utils, trajectory filter | |
| `SlamFiles` | save service, data saver, save_slam_map_cli, preview node, transform reader | |
| `NavBridge` | slam_gnss_nav_bridge_node | |
| `SerialDrivers` | serial_communicator2, serial_driver_node, motor driver, wheel odometry | |
| `ObstacleDetector` | obstacle_detector and its node | |
| `FollowWaypoints` | waypoint_navigator.cpp, Nav2 as the environment | WaypointList |
| `WaypointList` | what a follow-waypoints server promises (abstract) | |
| `PathClearance` | the two conditions, their monitor, CommitPath | |
| `Costmap` | layered costmap with static, obstacle and inflation layer, lifecycle | |
| `DenoiseLayer` | denoise_layer and image_processing | |
| `CostmapFilters` | speed, keepout and binary filter | |
| `CollisionMonitor` | collision_monitor_node, polygons, sources | |
| `TfBuffer` | BufferCore and TimeCache | |
| `MCNavigator`, `MCSequencer`, `MCAmclGate`, `MCSupervisor`, `MCSlam`, `MCDrivers`, `MCNav2` | instances for TLC | the above |
| `ListLoops` | the loops of the SLAM code over lists: filter, sort | |
| `NavigatorProofs`, `SequencerProofs`, `AmclGateProofs`, `SupervisorAndDriverProofs` (supervisor, serial line), `FollowWaypointsProofs`, `SlamGraphProofs` (graph, bridge, files, matchers), `Nav2Proofs` (collision monitor, filters, transform buffer) | theorems | the above, TLAPS |
| `DataInduction` | lemmas on naturals, folds and lists that the proofs share | `ListLoops`, TLAPS |

Definitions called "mutated form" are plausible mistakes, used to show that the
properties notice them; no specification uses them.

### WaypointNavigator

*State.* `goalId, active, resultCallback, through, planAdopted` are the logical
goal; `liveState, liveBt, liveCanceling, onLiveIdle` are `_live_*` and
`_on_live_idle`. `goals[n]` is the n-th goal handed to Nav2: where it is at the
server (`srv`), where its client callback stands (`cb`), and what that callback
took out of the lock (`res`, `onIdle`). `reports` are results on their way to
the caller; `wire` are requests on their way to Nav2.

*Actions.* A region under the navigator's lock is one action and what follows its
release is another. `ResponseCallback` and `ResultDoneCallback` are the locked
parts of the two callbacks, `Finish` is `_finish`, `RunOnIdle` the trailing
`on_idle()`, `Transmit` the send after `_dispatch` released the lock,
`FeedbackPassed` the passing of a through point, `PlanCallback` the adoption of
a plan. `SendGoal` and `Cancel` are called by the FSM under its own lock. A send
from the FSM reaches the client within the FSM's step; one from `RunOnIdle` is
two steps, so that two threads can send in the other order than they numbered.

*External.* `Nav2Accept`, `Nav2Reject` and `Nav2End` are Nav2's server: it takes
requests in the order they were sent, aborts a running goal that is preempted,
refuses one with another tree, ends goals with any outcome and cancels what it
was asked to cancel. `ServerMayBeGone` lets `wait_for_server` time out while
Nav2 has and is being sent nothing. Requests lost with a dying Nav2, and cancels
by other clients, are not modelled.

*Abstracted.* Poses and plans: whether a plan of the current goal was adopted is
a flag, and passing needs it. Progress and the log are left out.

### WaypointSequencer

*State.* The FSM's attributes under their names. `timerArmed`, `timerFired` and
`timerGeneration` are `CountdownTimer`: a timer that has fired waits for the FSM
lock and can no longer be cancelled. `executing`, `actionsLeft` are the
executor's thread. `manualRequest` is a `navigate_to_pose` between its two
locked regions. `misapplied`, `refused` and `layersStrayed` are history: a result
was applied to a goal it is not about; `_transition` refused; the last switch of the
layers failed or was a manual goal's.

*Actions.* Every command is one action with the early returns as guards; a
refused command changes nothing and is left out. `Receive` is the callback group of
the node. The node leaves it at the default, which is mutually exclusive, so that no
other command is served while `navigate_to_pose` waits for the costmap; the comments at
fsm.py:285 and :292 expect commands to be received meanwhile. `ServesWhileWaiting`
chooses: it is TRUE in `sequencer_commands`, where the second look at the state matters,
and the theorems hold for both. `Transition` includes the clearing of the trigger wait.
`EnterNavigating` includes the case that the server is gone, where the result
callback runs inside `send_goal`. `OnStartingDone` includes the `IndexError` of
an index past the route, which ends the timer's thread. `AdvanceToNext` keeps
the code's order: deferred stop, end, trigger, pause, next goal.

*Abstracted.* A waypoint is whether it is a through point and its action types;
actions that do not touch the sequencer are one type. Durations, topics and logs
are left out.

### AmclGate

*State.* `supAttached, supApplied, supCall` of the supervisor; `wants, applied,
gateCall, gateWasReady` of the arbiter; `gateUp, gateOpen` of the gate. A call is
`none`, in transit as `request` or `response`, or `lost`: its server died and
its future never completes (there is no time-out in the code). `budget` counts
down the bounds.

*Actions.* One per callback, plus crashes and restarts. A requester's restart
drops its future; an arbiter restart drops all intents. `GateStart` waits until
the arbiter's timer has seen the gate gone: a shorter absence is a limit that
`mg_navigation/doc/localization.md:48` documents. `CrashDuringCall` chooses
whether the gate may die with a call open.

### SupervisorMachine

One action, `OnTimer`, per period with any combination of check results (`bad`,
`good`, `na` for None); during a grace period all are `na`. The five `Step...`
operators are the branches of `step()`. Times are numbers of periods since the
event the state waits on and are, like the counters, only compared with
thresholds, so they saturate at `Cap`. `recoveryEnabled` is chosen once at the
start. `speedLimited` is what was last sent to `/speed_limit`; `reinits` and
`last` are history. `even` flips every period, so that "the timer keeps firing"
also covers periods that leave the machine as it was; without it, fairness would
rule out that measurements stay the same for ever, which is the premise of both
liveness properties. How checks are computed and which pose a re-initialisation
uses is numeric and taken as input.

### The SLAM modules

**SlamGraph.** The SLAM node has one executor thread, so a sensor frame is one
step and the methods `process_frame` calls are operators from the records they
read to the records they leave. *State:* the builder's nodes and edges, the
reference map, the loop builder's copy and search tree, the optimiser's pending
and accepted factors, the anchor, the orchestrator's members, the drawn map with
path, markers and published anchor, and the phase. *Actions:* a frame that is no
keyframe, one before the alignment, one after it, one in which the optimiser
throws; the map timer; `finalize`; the exception that `finalize` does not catch.
Poses are a position and the frame it is in; what the numerical code decides (how far
the robot turned, a match converges and by how much it errs, a gate passes, an
optimisation bends the trajectory) is a choice from `Numerics` and `Bends`. A frame is a
keyframe by distance or by rotation; a match that slips along a straight is replaced by
odometry, any other is averaged with it by the two informations; samples for a
re-anchoring are taken a distance apart; an anchor that moved less than the publisher's
step is not published again.

**SlamInput.** The live node's buffers and the recorded bag's readers, up to the
frame that is handed on: nearest odometry, interpolation, the fix of a scan,
deskewing beam by beam, the part of a recording with its margin. Positions are
integers and `Truth(t)` is where the robot is, so what a frame should contain is
known. A `NavPVT` has no time of its own and is stamped when it arrives, so a frame may
hold a position that is as much older than its stamp as the message was late
(`latency`, history).

**CsmMatcher.** One batch of near-link candidates after the other: the LRU cache
of targets, one outer thread per request, a team of threads inside each, coarse
and fine search, the common ICP of poor correlations, and the acceptance in
candidate order. A thread's pass over one heading is a step.

**ScanMatchers.** The other matchers and their compositions with the control of
each call: refusals, iterations and their ends, hypotheses and which one wins.
The outcome of an iteration is a choice.

**MapRenderer.** Both renderers on a line of pixels: growing the grid, adding a
node, redrawing in chunks with several threads, merging, the trajectory mask, the
occupancy with the cap on misses and its truncation. `missRatio` is
`max_miss_ratio`: 0 (no cap), as in `slam_gnss_2d.yaml`, or a cap.

**SlamFiles.** Three processes (SLAM node, CLI, preview) around a map directory:
the save service with a disk that fails, the CLI's time-out, the conversion of
occupancies to grey values and back.

**NavBridge.** Fixes of both kinds on a plane, the smoothed heading on a circle of
`2 * HalfTurn` units, variances with their floors and scales, the lever arm, the
publishing switch, the adoption check. `heading_source: navpvt`, which takes the
receiver's heading, is not modelled; `computed` is the default.

### The driver modules

**SerialDrivers.** Frames with sizes and checksums on a line that shortens,
changes or loses replies; two's complement values; error counting, reopening,
health check, emergency stop (each message is sent, repeated ones too). `Inverted` are
the axes that the odometry node turns round before it publishes. A device that is
plugged in again is a new generation, and a port opened before is open but dead.

**ObstacleDetector.** The grid and labels that live as long as the node, a frame
at a time, with clouds that have no transform or are malformed.

**FollowWaypoints** is the older action server, with its execute thread step by
step, the requests of the other thread between any two of them, and the future
its result callback waits for. **WaypointList** is what such a server promises:
one list at a time, reported as succeeded only when each waypoint of it has been
accounted for once, and never when it was given up. `KeepsItsPromise` is the refinement: `Promise` instantiates
WaypointList with the server's list, index and failures.

### The navigation stack

**PathClearance.** A tick is one step, because `spinSome` runs all callbacks in
it; the clock advances inside the tick. The plane is a line of cells; footprint
cost, resampling of the path, carrot and the turn on the spot are computed on it.
The planner, the servers and lost answers are the environment.

**Costmap.** One row of cells with a static, an obstacle and an inflation layer.
An update is two steps (bounds, then costs), between which layers may be cleared,
fed or reconfigured. Rolling and global costmap are chosen at the start.

**DenoiseLayer.** The labelling pixel by pixel with its union-find, for every
window of some sizes; background is what the code takes for it, 253 included.

**CostmapFilters.** Latched topics: info first, mask later, of another topic, or lost by
a reset. Costmap and mask each have an origin and half a cell as their unit, so that
cells of different size and grids that do not line up are covered. `active` is whether
`start()` was called and the publisher is there, `crashed` that a message was published
without one.

**CollisionMonitor.** Every callback of its node; polygons of four shapes and five
actions, three kinds of sources, quarter turns and integer coordinates. Velocities are
vectors whose speed is a whole number. `params` are the node's declared parameters,
which keep what the operator set over a cleanup and a new configuration.

**TfBuffer.** Steps are the critical sections of `frame_mutex_`; `reqLock` is the
mutex of the requests. A transform is a turn and a shift of a line, so composing
in a wrong order shows.

Where a step computes a large intermediate result, the actions name it with
`\E x \in {...}` and the operators pass it as a parameter: TLC then evaluates
it once.

## 3. Runs

| run | instance | result |
|---|---|---|
| `navigator` | 3 goals, 2 trees, any caller of the sequence's discipline | holds, 2.9 M states |
| `sequencer` | 3 commands, 2 requesters, a through point then a mode switch, failing costmap | holds, 806 k states |
| `sequencer_commands` | 3 commands with manual goals of every mode, failing costmap, trigger route and reloads | holds, 938 k states |
| `sequencer_live` | 4 commands, an action then a plain goal, fair | holds, 209 k states |
| `gate` | 4 changes, 2 gate crashes between calls, 2 failures, a restart of each node, fair | holds, 49 k states |
| `supervisor` | thresholds 1 to 3, 2 attempts, recovery on and off, fair | holds, 5.9 k states |
| `slam` | the seven SLAM modules | holds, 803 k states |
| `drivers` | serial drivers, obstacle detector, follow-waypoints server, fair | holds, 65 k states |
| `nav2` | costmap, denoise layer, filters, conditions, collision monitor, transform buffer | holds, 1.2 M states |
| `stale_result` | one waypoint, 3 commands | **violated** |
| `gate_crash` | one crash with a call open, fair | **violated** |
| `saved_unknown` | the files part of `slam` | **violated** |

`slam`, `drivers` and `nav2` each check several modules that share no variable.
Their MC module has a variable `runs`, chosen at the start from the constant
`Parts`: a behaviour takes the steps of one part and leaves the others in one of
their initial states, so the states are the sum of the parts' and not their
product, and setting `Parts` to one name checks that part alone.

*Why the bounds are enough.* The navigator tracks one live and one logical goal
and one waiting send; three goals give an ending, a waiting and a cancelled or
overtaking one at the same time. Three commands are a start, an interruption and
a reaction to it, against every position of the other threads; the proofs in
section 5 cover any number of commands, goals, keyframes and list entries. The gate's intents are
two Booleans: four changes give a change and a change back of each requester
while calls are open. The supervisor's thresholds keep the order the defaults
have (`0 < suspect < isolate`) and each is reached, missed by one and exceeded.

* `slam`: five keyframes with a gap of three give sequential, mesh and loop edges,
  two loop closures, and an alignment before, at or after the first of them; three
  fixes give an anchor, a prior and a re-anchoring. The numerical code has three
  outcomes: a match that slips along a straight, one in a turn that closes a loop, and a
  frame in which all fails. Steps of 2 are below the keyframe distance, steps of 4 are
  not. The loop builder, of which the matching builder is a part, is explored with GNSS in
  long steps and without GNSS in short ones; the matching builder without GNSS; the
  odometry builder with and without GNSS, drawing only at the end.
  Five matching targets, one of them empty, in a cache that two batches
  overflow, with three threads. Four drawn nodes and one move of them, to both
  sides of the map, two threads. Two matches in a row for what a matcher
  remembers. Two sessions and two calls for what is left of the first. A recording
  of fifteen messages with one late odometry and one cut at either end. Frames do
  not lose a fix once it was received (`FixLoss` is empty). The renderer runs without a
  cap on misses and with one of a half; the bridge moves between three corners, with
  half a turn of twelve units and the default smoothing of 0.6.
* `drivers`: x and y inverted, as `bringup_sensors.launch.py` sets them; two plugs and
  errors one past the threshold; eight clouds that leave
  each other's cells, labels and markers behind; lists of two waypoints, two
  requests, three Nav2 goals, which is a preemption with an old goal under way.
* `nav2`: five cells hold an obstacle, its inflation and a margin; four events
  between updates. Windows up to 3 by 3 and 2 by 4, which is where label trees
  meet, and smaller ones with the costs 100, 253 and 255 too. Five happenings to a filter
  (info, mask, info of another topic, reset, transform), with an info in percent and one
  in metres per second that give the same number, and masks beside the costmap and of
  twice its resolution. Two operations on the collision monitor (configure, activate,
  clean up) and one change of a parameter, after which it may be configured again with
  the same polygons. Six ticks and three costmaps against a clear duration of two. Two
  publishers, which the run takes for symmetric, six transforms with a re-parenting and an
  expiry, two requests.

*Deadlock* is checked for the gate and the supervisor, whose timers never stop.
It is not checked for the others: a robot without further commands, clouds or
plugs stands still.

*Fairness.* `sequencer_live`: threads run; Nav2 answers a request and ends a goal
it was asked to cancel (its action server guarantees both). Nav2 need not end a
goal otherwise, because its recoveries are practically unlimited, and nobody need
send a command. `gate`: timers fire, answers arrive, the gate process is started
in the beginning and again after a crash, by whoever operates the robot (the
launch files do not respawn it; the question asked is what the arbiter does once
the gate is back); no fairness for changes of mind, failures and crashes.
`supervisor`: the timer fires. `drivers`: the two rclcpp timers of a driver keep
firing, and a line to a device that stays and answers is clean when they do; the
premise of `DeviceComesBack` is that the device stays.

### What the runs found

Divergences between code and documentation or comments, each with its run (the
quotations are in `PROJECT.json`):

1. **A late result is applied to the next goal** (`stale_result`). `_finish`
   decides under the lock and calls back after it; a pause and a resume in
   between make the FSM take the old result for the new goal. The same gap lets a
   replaced manual goal's result clear the flag of its successor, after which
   `start()` is accepted while a manual goal runs.
2. **A gate that dies during a call is never realigned** (`gate_crash`), because
   only an answer clears `_pending`.
3. **Unknown cells of a saved map are read back as free** (`saved_unknown`): the
   CLI writes 205, an occupancy of 0.196, and a free threshold of 0.25.

`ParkedIsQuiet`, `ParkedComesToRest` and `SendsOneAtATime` are stated up to
finding 1 (`misapplied`) and are checked without manual goals, because the
overtaking below needs only those to break the first two: a manual goal waits for a
goal with another tree to end; the callback thread that dispatches it has left the
lock and not yet called `send_goal_async` when a third `navigate_to_pose` with the
earlier tree numbers and sends its goal; the waiting one follows untracked, and no
cancel reaches it (16 steps).

Met while modelling, without a run of their own. *Sequencer and localisation:*
goals are numbered under the navigator's lock and sent after it, so two threads
with manual goals in two trees can swap, and Nav2 runs a goal the client has
forgotten; `stop()` in IDLE keeps the pause slots; a start after the end of the
route ends the timer's thread with IndexError; a restarted supervisor or arbiter
forgets the intent and neither side repeats it; `GateArbiter.applied` (diagnostics
only) is True for a moment after a change and a change back.

*SLAM:* loop edges are recognised by an index gap of 15 and a cursor, which needs
`near_links.buffer_size < 15 <= min_node_gap` (`GapsAssumption`);
`apply_optimized_poses` records the pose from before the optimisation as drawn
(graph_orchestrator.cpp:591); the correlative matcher's score grows with the
overlap while loop_closure_builder.cpp:322 refuses scores above a maximum, so that
matcher never closes a loop; after an optimiser exception `finalize` retries the
pending update uncaught; priors from before a re-anchoring keep the old
coordinates; a save without anchor leaves an older `gnss_transform.yaml`
(map_save_service.cpp:65); `SlamDataSaver` reports success on a full disk
(slam_data_saver.cpp:133); near links are saved as loop edges; ReoptimizeNode calls
`shared_from_this` in its constructor (reoptimize_node.cpp:76) and cannot start.

*Drivers:* the emergency stop sends one command and ignores its error; a device
replugged within a second is not noticed by the health check of the motor driver;
a failed `zero_reset` is not retried. A cloud without a transform leaves the last
obstacles standing. The older server can wait for ever in its result callback
(waypoint_navigator.cpp:260), keeps `failed_ids_` after a cancel, and reads the
first pose of an empty list (:167); it is not launched.

*Nav2:* a lost parameter answer is never asked for again by the clearance monitor;
a filter that is reset keeps its mask with default factors; a speed limit whose unit
changes with an equal number is not published again (speed_filter.cpp:234), so the
property accepts the older unit; `deactivate` and `reset` take the publishers away
without waiting for an update, which then publishes through a null pointer
(speed_filter.cpp:240, :260; binary_filter.cpp:233), and so does the reset of a binary
filter that was never started; the keepout loop misses cells at the border of a mask of
another resolution or between the costmap's cells (keepout_filter.cpp:249-273); a
polygon whose `configure()` failed has no parameter callback (polygon.cpp:63); a disabled obstacle
layer leaves its obstacles; `obstacle_layer.cpp:433` stops at the first buffer that
fails; a footprint polygon ignores that the footprint could not be read
(polygon.cpp:181); a source whose transform fails is dropped without a stop; tf2's
`getLatestCommonTime` is called without `frame_mutex_` when a request is added; a
transform that is refused as too old has pruned its cache and tests no request
(cache.cpp:240, section 5).

## 4. Properties and what they are for

Conjunctions are checked as one property; their parts keep their names.

* `GoalsAreAccountedFor` (`ActiveGoalIsCarried`, `WaitingSendHasATrigger`,
  `RunningGoalIsTracked`), `CancelsAreHonoured` (`NeverPreemptsAcrossTrees`,
  `CancelIsNotForgotten`): no goal is lost between the navigator's threads and its
  picture of Nav2 is right, for a caller that sends the next goal after the
  previous one was reported or cancelled; `SendsOneAtATime` shows that the
  sequence is such a caller.
* `FsmIsConsistent` (`PauseHolds`, `NoTransitionRefused`,
  `DeferredStopBelongsToActions`, `NoStrayCountdown`): commands against threads.
* `ParkedIsQuiet`, `ParkedComesToRest`: parking really stops Nav2.
* `LayersFollowMode`: the mode the FSM writes and the layers the executor writes
  agree whenever the sequence navigates, unless the last switch failed or was a manual
  goal's.
* `PositionIsGenuine` (types, `TriggerWaitIsGenuine`, `DrivesToAWaypoint`): route,
  index and reported wait fit. `ManualIsExclusive` (`ManualExcludesSequence`,
  `ManualGoalIsMarked`): while a manual goal is marked the sequence neither counts down
  nor drives, also when a `start()` was served between the two looks at the state, and a
  manual goal that runs is marked unless finding 1 has cleared the mark.
  `PromisesAreKept`: deferred stops happen, waiting sends are released.
* `SettledIsRight`, `GateConverges`, `HeardUnlessRestarted`: three copies of an
  intent agree when things settle, and they settle. What a restarted supervisor or
  arbiter has forgotten nobody repeats; the last one ends there by its premise.
* `RecoveryIsSound` (`DetachedWhileRecovering`, `GivesUpAfterAllAttempts`,
  `SpeedLimitFollowsState`), `AnomaliesAreConfirmed` (`PersistentAnomalyIsActedOn`,
  `ConfirmationsAreFresh`), `LastingMismatchIsHeld`, `HealthyRunRecovers`.
* `FactorsAreUsedOnce` (edges, fixes, well-posedness), `CachesFollowGraph`,
  `FinalMapIsTheGraph`: the graph, its copies and what is published (the anchor up to
  the step below which it is not published again).
* `FramesAreExact`, `InputIsFaithful`: what a frame holds, its fix within the
  allowed difference of the scan (a NavPVT within that and its latency), and that a
  recording is used up exactly.
* `BatchIsFaithful`: parallel matching gives the sequential links, and no pointer
  into the cache dangles. `MatchIsSound`: the answer is the best start's, its
  information was filled in from correspondences (whether the matrix is positive
  definite is numeric; `ndt_matcher.cpp` raises only some of its entries), and the
  rotation either multi-start matcher remembers is that of its last match.
* `MapIsTheGraph`, `ConfirmedWallsStay`: counts are sums over the nodes whatever
  threads and redraws led to them. Where the cap protects it, a confirmed wall is not
  eroded by a scan; without a cap, or with one that does not reach the threshold, a
  wall may turn free only when the passes of the whole graph prevail. The shipped
  `max_miss_ratio: 0.0` is the second case; the code's default 2.0 is a cap.
* `SavedMapIsReadBack`: previews, known cells, and the CLI's exit code.
  `HeadingIsCurrent`: the heading sent has been turned towards the way to the position
  it is sent with, up to what the smoothing leaves; it is not that direction itself.
* `LineIsFaithful` (what is published is what the device gave, with the configured axes
  inverted), `DeviceComesBack`, `ObstaclesAreThisFrames`, `KeepsItsPromise`.
* `MasterIsTheLayers`: the windowed update equals a full one. `DenoiseIsExact`:
  exactly the small groups go, and labels suffice. `UpdatesApplyTheMask`: an update that
  does not crash publishes the limit, unit included, and the state of the robot's cell,
  and marks every cell its loop reaches.
* `ClearanceIsSound`: "clear" is confirmed by maps received since, "blocked" is
  about the path and map of the tick, and the geometry misses no lethal cell.
* `StopIsDelivered`, `OutputIsSafe`: the last gate before the motors.
* `TfIsSound`: no request is forgotten or answered twice, and lookups compose.

## 5. Proofs

All theorems hold for every value of the constants that the named ASSUMEs allow.

**AmclGateProofs.** `TypeCorrect` is by cases on the actions. `GateFollowsArbiter`
(`SettledGateIsRight`, assuming `CrashDuringCall = FALSE`; finding 2 is what
happens otherwise): the property says nothing of a call under way, so `GateInv`
adds that a belief is true until a new call reaches the gate, that an answer
tells the truth, that no call is lost, and that calls and beliefs are about a
gate that has been seen and not lost since. `ArbiterFollowsSupervisor`
(`SettledSupervisorIsRight`): `SupervisorInv` follows a call through request and
response until a restart, and `BudgetInv` says that a restart cannot be undone.
`NodesAgree` puts the three together as `SettledIsRight`.

**SupervisorAndDriverProofs.** `TypeOK` with `StateInv` (which states cut AMCL off, when
the speed limit is in force, and `attempts` equal to the re-initialisations
made) is inductive, with one lemma per branch of `step()`. It yields
`TypeCorrect` and, from `CutOffOnlyForRecovery`, `AllAttemptsAreMade` and
`LimitIsLifted`, `RecoveriesAreSound`. `OnlyFreshConfirmations` and
`NoAnomalyIsIgnored` are inductions of their own on top of it, combined as
`EvidenceIsUsedOnce`. The last needs `ThresholdAssumption`
(`0 < suspect < isolate` for each check, as in `MachineConfig` and
`localization_supervisor.yaml`): with equal thresholds a run could cross both in
one period.

`TheLineIsFaithful` (`LineIsFaithful`) is about the serial line. `OutIsTruth` and
`WheelsAreLimited` together are inductive; the work is in one fact about an
exchange: a reply that `check_error()` accepts arrived as it was sent
(`DamageIsSeen`). A cut reply has the wrong size. A flipped header byte is not the
header's, a flipped body byte moves the checksum by one (`ChecksumSeesAFlip`), and a
flipped checksum no longer fits the body. What then comes out of the decoder is what
went in, because two's complement round trips (`PositionIsRead`, `HeadingIsRead`,
`SpeedIsRead`); the wheel speeds follow from `ClampBounds`, `TruncatedBounds` and
`TurnBounds`. `DriverAssumption` gives readings their widths (32 bits, the
heading 16) and `LimitAssumption` asks for limits whose wheel speeds fit 16 bits:
beyond them the casts of `create_speed_parameter()` (motor_driver_node.cpp:79) are
undefined. The theorem holds for the fault model of the module, a cut and one
flipped byte per reply; two changes that cancel in the sum would pass the code's
checksum as they do the model's.

**NavigatorProofs.** The caller is `NavigatorCaller`: any number of goals, trees and
callbacks, as long as a goal is sent after the previous one was reported or
cancelled. `GoalsAreAccountedFor` and `CancelsAreHonoured` are about the live goal;
inductive is only `NavInv`, which describes all goals at once. `LiveFollowsCallback`
says that `_live_state` is the position of the last goal's callback and that a
cancel request marks the live goal. `ServedInOrder` and `WireIsTheGoals` say that
goals reach Nav2 in the order of their numbers and that behind a goal that has not
ended all later ones are on their way with its tree. `UnsentIsGuarded` is what the
missing lock around `send_goal_async` needs: the goal between lock and send is the
last one, and nobody can send before it. `DispatchedOnce` says that a waiting send
is in one place only (`_on_live_idle` or a callback's local variable).
`NavInvariance` proves it, `GoalsAccountedFor` and `CancelsHonoured` follow.

**SequencerProofs.** `FsmInv` is the conjunction of the FSM's own types,
`PauseHolds`, `DeferredStopBelongsToActions` and `ManualExcludesSequence`, which need
each other. It gives `PausesAreKept`, `TransitionsAreComplete` and
`DeferredStopIsLocal`; `CountdownsAreInvalidated` adds `TimerInv` on the
generations; `FsmStaysConsistent` combines them. None of them depends on what Nav2 or
the navigator does. `ManualGoalsAreExclusive` adds that a manual goal the navigator has
in hand is marked, which is part of `OwnerInv` (below).

*Place* (`PlaceIsGenuine`): `PlaceInv` joins the types of the sequence and of the
navigator (`NavShape`) with the two parts of `PositionIsGenuine`, since a waypoint
has a type only where there is one. *Goals*: `OwnerInv` (an active goal is the
sequence's or a manual one; a report of the current goal means that it is no longer
active) gives `GoalsAreSentOneAtATime`, so the sequence is a caller of the kind
`NavigatorCaller` describes, up to finding 1. *Quiet* (`ParkedStaysQuiet`, assuming
`ManualModes = {}` like its run): `QuietInv` carries `NavInv` into the composed
system and adds that a final report of the current goal means everything at Nav2
has ended. *Layers* (`LayersMatchMode`): what the remaining actions will set is the
mode that is already written, and with no setter left the layers are right
(`LayersInv`). It holds for every configuration, because what a manual goal or a failed
call did to the layers is remembered in `layersStrayed`.

**FollowWaypointsProofs.** `ServerKeepsItsPromise` is the refinement of
`WaypointList` by the server, for lists of every length. The abstract server counts
waypoints that are over; the code has an index, a status and two growing records. The
invariant `FollowInv` ties them: ids are given in order, the list at work is the
current one, a list not started has no records, and the goals and failures of the
current list are exactly those before the index, the goal of the index being the last
one. Each action is then an abstract step or a stutter.

**SlamGraphProofs.** `GraphInvariant` holds between two frames:

* `GraphInv`: edges join existing nodes and their gap tells their kind; the loop
  builder's list and tree and the reference window are copies of the nodes.
* `ModeInv`, `FramesInv`: aligned, optimiser initialised and all poses in the frame of
  the map go together.
* `OptimizerInv`: the factors are the edges, as many and the same ones; both
  cursors stand at the end; the optimiser knows the nodes `1..n`, none both pending
  and estimated.
* `FixesInv`: the stamps of the fixes used differ, and none is later than
  `last_gnss_timestamp_`.
* `ViewInv`, `DrawnInv`: path, markers and `map -> odom` are those of the graph.

The lemmas follow `process_frame` method by method with the facts that hold in
the middle of a frame, where this invariant does not: a keyframe is added
(`Delivered` says which edges are still to be handed over), aligned, handed over
(`AllHandedOver`), re-anchored, constrained by a fix, optimised, drawn. That loop edges
are found by a cursor into a list that is filtered anew each time is sound because
sequential edges and near links have a gap below `LoopGap` and loop edges have not:
this is where `GapsAssumption` enters. Every factor is about known variables because
of `AllHandedOver`, so "key error" is unreachable, and a frame interrupted in the
optimiser ends in a state of the same invariant. `EveryFactorOnce`,
`CopiesFollowGraph` and `FinalMapIsPublished` follow, for every set of outcomes of
the numerical code, every number of keyframes and every builder. `GraphAssumption`
only gives the parameters their kinds.

The same module holds the theorems about what lies around the graph. *Bridge*
(`HeadingStaysCurrent`): whatever has a heading has published, so the two reference
points coincide (`HeadingInv`), and an average on the circle ends no further from the
new direction than the part of half a turn that it leaves (`SmoothedFollows`). *Files* (`SavedMapsAreReadBack`): `ImageIsTheGrid`,
`GraphIsTheSaved` and `AnswerIsReal` say which session each file comes from, and that
an answer heard was given; how the edges are written and read back is a fold, and what
it keeps is proved by induction on the list. *Matchers* (`MatchesAreSound`):
`BestSoFar` describes a call in the middle of its starts, `PhaseFitsMatcher` which
phases belong to which matcher.

**Nav2Proofs.** *Collision monitor* (`StopsReachTheMotors`, `EveryPolygonIsObeyed`).
`MonitorInv` joins the types with `StopIsDelivered`; the work is in the norm of a
velocity (a square is zero only of zero), which the code takes to decide both that it
has stopped and that one velocity is slower than another. `EveryPolygonIsObeyed` is an
induction along the list of polygons: what was decided so far is no faster than the
command and than what each polygon before allows, and a stop, after which polygons are
not even updated, is slower than all of them. It is stated with the code's own point
counts, while the checked `OutputIsSafe` counts by a reference definition of "inside";
the two differ for polygons that cross themselves, which the code accepts, so
`OutputIsSafe` cannot be proved for all polygons.

*Filters* (`FiltersApplyTheMask`). `FiltersInv` says that a message that waits was
really latched, that a fresh keepout mask is there, and that speed limit and state last
published are those the next one is compared with. The rest is arithmetic: which cells
of the window the loop reaches, and that the conversion to a cell of the mask agrees with
where the centre of the cell lies. `FiltersAssumption` only gives masks and costmap their
kinds; resolutions and origins are free.

*Transform buffer* (`RequestsAreServed`). `TfInv` has five parts: `CacheInv` (a cache
has only entries that were sent, newest first), `RequestType`, `LockInv` (who holds which
mutex at which place), `PlacesInv` (a request is in the list, in one thread's results or
with the caller that adds it, in one of them only and unanswered), and `WatchInv`, which
carries `NoRequestIsForgotten`: if nobody is waiting for the mutex of the requests, each
request that can be answered or is too old is still ahead of a thread that tests. It is
inductive because a transform that was accepted makes its publisher wait for that
mutex, and whatever happens without that (a refused transform prunes its cache, `Clear`
empties all) must not make a request answerable. That is the hard part:

* at any time the parents form a forest, and a walk from two frames succeeds exactly
  when both lead to a common frame and every cache on the way has data (`IsTree`,
  `Connected`); the answer is the difference of the two placements in that tree, which
  gives `LookupsCompose`;
* losing parents can only disconnect frames (`LosingParents`);
* a request for the latest time depends on newest entries only, which a pruning keeps
  (`CommonTimeIs`, `LosingTimes`).

`TreeAssumption` is what the tree needs of the publishers: some order of the frames in
which all transforms lead upwards, and one parent of a frame for one stamp. tf2 does not
enforce either. Without the second a pruning can uncover an entry with another parent and
make a waiting request answerable with nobody to test it until the next transform
comes. Re-parenting from stamp to stamp is covered.

**DataInduction.** The library's induction theorems take an operator as a parameter,
which the installed provers cannot instantiate. Here the property is a set of
numbers and the step of a fold is a function, so that induction becomes a
first-order lemma (`InductionUpTo`, `FoldSteps`); it rests on the least element of a
set of naturals (`LeastNatural`). `SelectSeq`, `SortSeq`, `:>` and `@@` are opaque to
the provers, which is why the SLAM modules filter and sort with `ListLoops` and
build maps with `Only` and `Over`.

*Only model-checked:* all liveness properties, because fairness and ENABLED are beyond
the prover (`PromisesAreKept`, `ParkedComesToRest`, `GateConverges`,
`HeardUnlessRestarted`, `LastingMismatchIsHeld`, `HealthyRunRecovers`,
`DeviceComesBack`); of the SLAM `BatchIsFaithful`, `MapIsTheGraph`,
`InputIsFaithful`, `FramesAreExact` and `ConfirmedWallsStay`; of the drivers
`ObstaclesAreThisFrames`; of Nav2 `MasterIsTheLayers`,
`DenoiseIsExact`, `ClearanceIsSound` and `OutputIsSafe` (see above). Most of these
compare what a loop computed with a reference definition, so their proofs need an
induction over the data of each loop first.

## 6. Plan

*Done:* navigator, sequencer, gate with arbiter, supervisor; the SLAM node, the
drivers, the older server with its refinement, the conditions, costmap, filters,
collision monitor and transform buffer; the theorems of section 5.

1. Proofs, in this order: `ConfirmedWallsStay`; `MapIsTheGraph`;
   `MasterIsTheLayers`. The lemmas of DataInduction carry over to their folds.
2. `AmclWatchdog` with the GNSS initializer: the recovery thread against the pose
   callback, retries of calls that were carried out late.
3. `SupervisedGate`: SupervisorMachine composed with AmclGate in place of
   `SupervisorDecides`.
4. `DriverWatchdog`, `MapLoader` with the on-arrival actions, service exclusion in
   the system manager.

## 7. Not modelled

Numeric results (how well a match fits, where an optimisation puts a node, AMCL
and EKF), parsers and file formats beyond what is read back, presentation, launch
files, descriptions, simulation, the Python predecessor of the SLAM, and the parts
of Nav2 and geometry2 that the robot's code only calls. Planned but not written are
the watchdogs, the map loader and the system manager. `PROJECT.json` gives the
reason for every component.
