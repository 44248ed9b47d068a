# A verification project for the AA241x race software

AA241x is a Stanford course in which student aircraft race around two pylons
over Lake Lagunita. The repository is the PX4 flight stack (`src/Firmware`)
with three applications added for the course, a MATLAB study of path planning
(`src/mazsim`), and the students' control laws. This directory holds TLA+
models of the parts that carry the program's own logic and of the parts of the
flight stack the course's flights depend on (the message bus, missions from
the ground station to their storage and into flight, arming and modes), the TLC
runs that check them on small instances, and proofs, checked by TLAPS, that hold
for every value of the constants.

Paths below are relative to `src/Firmware/src` unless they start with `src/`.

## 1. Inventory

| Component | State it keeps | Operations | Talks to |
|---|---|---|---|
| Race referee, `modules/aa241x_mission` | the race (`_in_mission`, `_mission_failed`, start, current and final time), the turn (`_in_turn`, `_turn_num`, `_turn_radians`, `_turn_degrees`), violations, the last two positions, the parameters, the course | one loop, woken by `parameter_update` or `aa241x_local_data`; `check_start`, `check_turn_start`, `turn_accumulate`, `check_violation`, `check_turn_end`, `check_finished`, `check_field_bounds`, `reset_mission` | reads uORB topics, publishes `aa241x_mission_status` |
| High-priority student task, `modules/aa241x_high` | copies of its topics, the controller's globals | one loop woken by attitude; computes `aa241x_local_data`, runs the control law, publishes actuators | publishes to the referee, reads `aa241x_mission_status` and low-priority data |
| Low-priority student task, `modules/aa241x_low` | copies of its topics as globals | one loop; runs the slow law | publishes to the high-priority task |
| Task start and stop, shared by the three | a global pointer; `_control_task`, `_task_running`, `_task_should_exit` | `start`, `stop`, `status`; the destructor's handshake | shell and task, through unlocked fields |
| uORB topic, `modules/uORB` and `drivers/device/cdev.cpp` | a ring of messages and its generation; per subscriber a generation, a rate limit with a timer, a poll waiter | open, close, write, read, check, interval, poll, timer | every publisher and subscriber |
| uORB DeviceMaster and Manager | the nodes of the topics | advertise, node lookup, instances | every task |
| Commander, `modules/commander` | `vehicle_status` (arming, HIL, main and navigation state), `actuator_armed`, conditions, results of checks | arming and main-state transitions, `set_nav_state`, switch to HIL, calibration, reboot | main loop, consoles and a low-priority thread on one status; sets the control mode that the referee judges |
| MAVLink mission protocol, `modules/mavlink/mavlink_mission.cpp` | the active mission and a transfer flag (static, shared by all instances); per instance a transfer and its partner | a handler for each message, `send()` with timeouts and retries, writes of the mission state | ground stations, dataman, publishes `offboard_mission` |
| Data manager, `modules/dataman` | the file of items (or RAM), a work queue, the worker and its exit flag | read, write, clear, restart, start, stop | MAVLink, navigator, geofence |
| Navigator's mission mode, `modules/navigator/mission.cpp` | a copy of the mission state, the current index and item, flags of the first run, reset and feasibility | update, advance, follow jumps, save progress, reset, abort a landing | dataman, MAVLink over `offboard_mission`, commander |
| mazsim | list of targets and of those reached | choose the next target, detect arrival | none (a simulation) |
| Estimators, controllers, drivers, platform layers | filter states, hardware | numerical loops | topics |

What is hard here:

* **Long sequences.** The referee is one loop over twenty members, and each
  function leaves members for a later iteration to find. A race can be started
  by the gate or forced by a parameter, dropped by a mode change, a field
  violation or a reset, and started again, in any phase of a turn.
* **Order inside an iteration.** Accumulate, then violation, then end of turn;
  mode, then field bounds. Nothing but the order of the statements keeps a turn
  from being completed inside the keep-out.
* **Concurrency without locks.** uORB's poll and write share no lock and its
  rate-limit timer fires from an interrupt; shell and task share an object; MAVLink
  instances share static members; three kinds of threads change the arming
  state; the navigator edits under a lock that MAVLink does not take.
* **Stale inputs.** A parameter update wakes the referee without a new position;
  a pre-arm result of up to a second ago stands in for a new one; the navigator
  saves its place in a mission that was replaced.
* **Failure.** Messages are lost, repeated and reordered; writes fail; the power
  fails between a write and its `fsync()`; calibrations fail.
* **Bounds.** A ring that overruns, counters that wrap, an index into an array
  of two pylons, a mission index moved by four rules, a destructor that gives up
  after fifty polls.

What makes each component correct, in one sentence each:

* *referee* - a race counts only while every rule is kept, turns are counted one
  by one and completed only by flying them, and only a race with all its turns
  is timed, from its start;
* *task start and stop* - between commands there is exactly one task at work on
  the object, or none; commands end; an object outlives its task;
* *topic* - subscribers see the messages in order, miss only what was
  overwritten and know how much, and never sleep on an unread one;
* *commander* - no vehicle is armed against its checks, its safety switch or a
  simulation, and a failsafe never needs what was lost;
* *mission protocol* - the stored mission is replaced as a whole or not at all,
  and a transfer always ends;
* *data manager* - what was acknowledged is kept, and nobody waits forever;
* *navigator* - it flies the accepted mission, at the item its index names, and
  never puts an older one back;
* *advertisement* - two publishers of a topic share one node;
* *composition* - what the control law reads is what the referee published.

`PROJECT.json` lists every component with its status, and the hazards with the
line where each bites.

## 2. Plan

1. **Referee** (done): `RaceGeometry`, `LakePolygon`, `AA241xMission`, its
   abstract specification `RaceRules`, proofs.
2. **uORB topic** (done): `uORBDeviceNode`, its abstract specification
   `TopicLog`, proofs.
3. **Task start and stop** (done): `AA241xTask`, proofs.
4. **Missions** (done): `MavlinkMission` with its abstract specification
   `MissionUpload`, proofs; `OffboardMission`, proofs.
5. **Commander** (done in part): `ArmingState`, proofs; `NavState`.
6. **Data manager** (done): `Dataman`, its abstract specification
   `DurableStore`, proofs.
7. **Composition** (open): the high-priority task, the referee and the
   low-priority task over three `TopicLog` topics; that a status read by the
   control law is one the referee published, and not older than the one read
   before. `OffboardMission` over `MissionUpload` instead of its own upload.
8. **Advertisement** (open): `DeviceMaster::ioctl` and `Manager::node_open`
   with two tasks advertising one topic, and the poll set's resizing against
   `poll_notify` from an interrupt.
9. **mazsim** (open): the bookkeeping of targets reached.

## 3. Modules

| Module | Models |
|---|---|
| `RaceGeometry` | `sgnf`, `line_side`, `angular_difference`, the nine-sided lake, the gate |
| `LakePolygon` | the lake as a polygon, by the even-odd rule |
| `AA241xMission` | the referee task |
| `RaceRules` | abstract: what subscribers of the mission status may rely on |
| `AA241xMissionProofs` | theorems about the referee and the field |
| `AA241xTask`, `AA241xTaskProofs` | start and stop of a task, theorems |
| `uORBDeviceNode` | one topic, its publishers and subscribers |
| `TopicLog` | abstract: a topic as a log |
| `uORBDeviceNodeProofs` | theorems about the topic |
| `MavlinkMission` | the vehicle's side of the mission protocol, all instances |
| `MissionUpload` | abstract: what a ground station is promised of the stored mission |
| `MavlinkMissionProofs` | theorems about the protocol |
| `Dataman` | the data manager's calls, queue, worker and card |
| `DurableStore` | abstract: what the tasks that call the data manager are promised |
| `DatamanProofs` | theorems about the data manager |
| `OffboardMission`, `OffboardMissionProofs` | the navigator's mission mode, theorems |
| `ArmingState`, `ArmingStateProofs` | the arming state and its callers, theorems |
| `NavState` | the admission of modes and the choice of the navigation state, theorems |
| `AA241xMissionClaims`, `AA241xTaskClaims`, `MavlinkMissionClaims`, `ArmingStateClaims`, `OffboardMissionClaims` | what comments say that the code does not do |
| `MCAA241xMission`, `MCAA241xTask`, `MCuORBDeviceNode`, `MCMavlinkMission`, `MCDataman`, `MCOffboardMission`, `MCArmingState` | instances for TLC |

Each `...Proofs` and `...Claims` module EXTENDS the module it is about, and each
`MC...` module its claims, or the module itself where there are none.

### AA241xMission

The members of the object are private to the task, so one wake-up of the loop
is one atomic step. Each member function of the C++ class is an operator from
the members before the call to the members after it, and `Iteration` composes
them in the order of `task_main()`. `m` holds the members that
`reset_mission()` resets, under the source's names; `prev_pos` and `cur_pos`
are `_prev_pos` and `_cur_pos`; `auto` is the control mode read in the last
iteration; `now` is `hrt_absolute_time()`.

| Action | Code |
|---|---|
| `DataWake` | `aa241x_local_data` fired: shift the positions, run the body |
| `ParamWake` | `parameter_update` fired alone: the body runs on old positions |
| `ParamAndDataWake` | both fired |
| `Tick` | time passes; a poll that times out only goes round |

Abstractions: positions are whole metres and bearings multiples of 60 degrees,
drawn from a table (`Bearing`) because `atan2f` is a library function;
`turn_degrees` is in the accumulator's units; time is counted in small steps;
the control mode may change in every iteration; `_previous_loop_timestamp`,
debug and log messages and the fields that only copy a topic are left out.

### AA241xTask

`g` is the global pointer, `obj` the objects by address (an address is reused
after a delete), `task` the tasks by identifier (reused too), `shell` the
command that runs. The shell is split at every access to a shared field:
`StartNew`, `Spawn` or `SpawnFail`, `StoreHandle`, `Wait` are `start`; `Stop`,
`Delete`, `Poll`, `Free` are `stop` and the destructor. The task is `Enter`
(the trampoline), `Setup` (to `_task_running = true`), `LoopExit`, `LetGo`
(`_control_task = -1`), `Leave` (`_task_running = false`). `above`, chosen once
at the start, is the one difference between the applications: `aa241x_mission`
(default priority + 20) and `aa241x_high` (maximum - 5) preempt the shell, so
the shell does not run between the task's last two stores; `aa241x_low`
(default - 10) does not.

### uORBDeviceNode

Tasks preempt each other anywhere outside a critical section, so an operation
is split where it leaves one. A write is `BeginWrite` (allocate the buffer),
`Store` (copy and count), `Notify` (walk the poll set); a poll is
`StorePollWaiter`, `PollState`, then `Wake` or `Timeout`; `UpdateDeferred` is
the interval timer's interrupt. `sub[s]` is the `SubscriberData` of a
descriptor together with its poll state, `sent` counts the messages and is not
in the code. Messages are their numbers. The poll set is abstracted to the poll
state of each descriptor; two descriptors in one poll, remote subscribers and
queue resizing are left out.

### MavlinkMission

Every MAVLink instance has a manager: its receiver thread handles messages
(`HandleMission...`, one per message), its main thread runs `send()` (`Send`,
`CheckActiveMission`). The static members `dataman_id`, `count` and
`transfer_in_progress` are shared by all. A handler that writes to the data
manager is split where it waits: it records the write in `call[m]`,
`PerformWrite` does or fails it, and `ItemWritten` or `StateWritten` is the
rest of the handler, with other instances and its own main thread in between.
`Restart` empties the members and loads the stored mission, or no mission when
`dm_read()` fails: `init_offboard_mission()` takes that for an empty storage. The
history variable `misread` records it until the next state is stored. The link is
modelled by letting any message of any partner come at any time: that covers
loss, repetition and reordering. After `Silence` none come, which is what
`TransfersEnd` starts from.

`MissionUpload` has the stored mission, one draft for each link, and `known`,
whether the vehicle read its mission when it started; only while it did not may an
item go over one of the stored mission (`Overwrite`).

Left out: the conversion between MAVLink and stored items, except that some
cannot be converted (`Invalid`); retransmissions, which change nothing in the
vehicle; which item is the current one.

### OffboardMission

The navigator's side. Variables are grouped by task: `stored` and `items` are
the data manager's, `mav`, `uploading` and `pending` MAVLink's, `topic` and
`fresh` the topic's, the rest the navigator's. One turn of the navigator's loop
is `RunActive` or `RunInactive`, which put the calls it has still to make into
`todo`; each call up to its next access to the storage is an action (`Load`,
`Update`, `SaveState`, `ResetMission`, `SetItems`, `Advance`, `AbortLanding`),
and a write it makes later is another (`WriteState`, `WriteJump`), with
`writing` and `held` what it is about to write. `Activate` and `StartMission`
are the commander's and the ground station's requests. MAVLink's side is
`Upload`, `Accept`, `Abandon`, `ClearAll`, `SetCurrent`, then `Publish`.

Abstractions: the vehicle is a fixed wing and no onboard mission is published;
whether a mission is feasible, an item is reached or a landing is aborted is
chosen freely; a jump may name any index, as nothing in the code checks it; an
upload writes its items in one step (they go to the place nobody flies); reading
ahead for setpoints and failing reads are left out, MAVLink's at the start too,
which `MavlinkMission` models;
`dm_lock()` is left out because only the navigator takes it; the jump counters
of a reset are cleared in one step.

### Dataman

A call of a client is `Enter` (if the manager is running), `Enqueue`, `Tell`
(post the worker's semaphore), `Return`. The worker is `Started` (open, erase
what the restart does not keep), `AwaitWork`, `Awake`, `Serve` (the read, write,
clear or restart), `Flush` (`fsync()`), `Answer`, `GoRound`, `Close`, `Leave`.
`Stop` and `StopWakes` are the two steps of `dataman stop`; `PowerFails` may
come between any two. `store` is what a read returns now, `card` what is there
after a power failure. What was written and not flushed may be on the card or
not, sector by sector. `acknowledged` is a history variable: the last write of
a sector, from its answer until something that may change it is enqueued.

`DurableStore` is what a caller may rely on: `Ask`, `Perform`, `Answer`, and no
queue, semaphore or worker; beside them only a start and a power failure touch the
store. A call is performed by the step of the worker that serves it. `Phase` maps
the place of a call to the caller's view of it, and `acknowledged`, a history
variable, is what the callers were told.

Abstractions: a sector is replaced whole or not at all; `fsync()` does what it
promises; the pool of work items and `dm_lock()` are left out; a new start waits
until the old worker has left.

### ArmingState and NavState

`arming_state_transition()` is called by three kinds of threads. A thread
preempts those of lower priority and is not preempted by them, so a transition
of the main loop is one step (`SafetyUpdate`, `ProceedToStandby`, `StickArm`,
`StickDisarm`, `AutoDisarm`, `MissionStart`, `ArmDisarmCommand`,
`InAirRestore`, `SetMode`), and one of a console or of the low-priority thread
is two (`ConsoleRequest`/`ConsoleUpdate`, `RequestStandby`/`EnterStandby`,
`RequestReboot`/`Reboot`): the checks, then the update in a critical section.
A switch to HIL blocks the main loop in the middle (`SetMode`, `HilSwitched`).
`KillSwitch` and `FlightTermination` are the main loop's other writers of
`lockdown`. `Calibrate` to `EnterStandby` are the low-priority thread. `CheckFails`,
`Valid` and `Update` are the two halves of the transition. `problems` is what
the checks would find now and changes freely; `used` records which of the ways
that bypass a check were taken, and is not in the code.

`NavState` has no variables: `MainStateAllowed` and `SetNavState` are the two
functions of `state_machine_helper.cpp` over the same flags, compared by theorem.

### External code

`task_create`, `task_delete`, semaphores and `hrt_call_after` are NuttX; they
are modelled as the code uses them (a task created may run at once; a deleted
task takes no further step; a call in the queue fires once; a post wakes one
waiter).

## 4. Runs

| Run | Instance | Shows |
|---|---|---|
| `race` | seven positions; strict rules, resets, and a forced start where a failed race goes on, switched at any time | the bookkeeping of a turn, that a race that counts is clean, the race clock, that no turn ends in the keep-out, and that the referee implements `RaceRules` |
| `race_begins` | the same, one parameter set | **violated**: a race begins with a turn already completed |
| `task` | two addresses, two identifiers, 50 polls, the task above or below the shell | one task per object, `stop` ends; above the shell an object outlives its task and `start` ends |
| `task_outlived` | as above | **violated**: below the shell an object is deleted before its task's last store |
| `uorb_topic` | two publishers, a rate-limited and a plain subscriber, ring of two, four messages | no lost wake-up, no visible update taken back, the ring holds the newest, the topic is a log, a sleeper wakes |
| `mission` | two instances, ground stations on one link, missions of up to two items of two contents | uploads touch the inactive place, replace the mission whole or not at all unless it was not read at the start, what is accepted is stored, a download is served one mission, transfers end |
| `mission_shared` | ground stations on both links | **violated**: an upload writes over the active mission |
| `navigator` | missions that land and jump far past their end, or jump to themselves; two requests or restarts | the navigator follows the accepted mission, flies the item of its index, puts no older mission back, makes no jump too often, takes every publication |
| `progress_saved` | as above | **violated**: the navigator's progress is written back |
| `storage` | two tasks, two items of one kind, three calls, stops or power failures | what was acknowledged is kept, the data manager implements `DurableStore`, a queued call is answered as long as the worker has not left, and a stop ends |
| `arming` | one console beside the main loop and the low-priority thread | HIL locks the motors unless the kill switch or the end of a termination unlocks them, the safety switch disarms, the pre-arm check decides until a console or a calibration interferes, a healthy vehicle leaves INIT |
| `arming_unchecked` | as above | **violated**: the main loop never arms against the pre-arm check |

Every property of a passing run has a mutant: an operator, placed before the
definition it stands for and commented "Mutant", that changes it as a plausible
bug would. With it in place the run finds the property violated.

### The properties, and what could break them

Referee:

* `TurnBookkeeping` - the accumulator, the two flags of a turn and the published
  degrees agree between iterations, although four functions write them.
* `RacingIsClean` - no order of mode changes, parameter changes and positions
  leaves a race counting in manual mode, off the lake or out of the window.
* `RaceClock` - a forced start, a reset and a dropped race leave one start time.
* `NoTurnEndsInKeepOut` - depends on the order of three calls.
* `KeepsRules` - refinement of `RaceRules`: turns come one at a time, a race is
  timed from its start and only with all its turns, and ends untimed only by
  failing.

Task and topic:

* `OneTaskPerObject`, `ObjectOutlivesTask`, `StartEnds`, `StopEnds` - the
  handshake over three unlocked fields, a failed spawn and a task that hangs.
* `NoLostWakeup` - a publisher between the registration of a waiter, its look
  at the topic and its sleep; `SleeperWakes` says the same over time.
* `StaysUpdated` - a rate-limited subscriber was told and its timer runs again.
* `RingHoldsNewest`, `ImplementsLog` - publishers interleave in `write()`, and a
  subscriber slower than the ring skips and counts.

Missions:

* `WritesInactivePlace`, `StoredIsActive`, `TransferInProgress`,
  `OneMissionPerDownload` - a timeout in the main thread while the receiver waits
  for a write, a failed write, a repeated count, a start that cannot read the
  mission. A download is to see one mission, by its place, length and items.
* `AcceptedIsStored`, `ImplementsUpload`, `TransfersEnd` - lost, repeated and
  reordered messages, failed writes, restarts, a ground station that falls silent.
* `StoredIsAccepted`, `NavigatorFollows` - the navigator saves its place or resets
  a mission that has just been replaced.
* `FliesCurrentItem`, `JumpsBounded`, `PublishedIsTaken` - count, place, index,
  item and jump counters change together although separate calls write them.
* `AcknowledgedIsKept` - power failures between write, `fsync()` and answer.
* `ImplementsStore` - partial failures, restarts, stops and power failures between
  the steps of a call; a call takes effect once, and not after its answer.
* `CallsAndStopsEnd` - a stop while tasks enqueue, one post for several items.

Commander:

* `HilIsLocked` - the lock has three writers, and the arming state and the HIL
  state change separately; only the kill switch and the end of a termination may
  leave a vehicle armed in HIL with its motors unlocked.
* `SafetySwitchDisarms`, `ArmingIsChecked` - threads preempt each
  other between the checks of a transition and its update; results of checks are
  kept for a second.
* `LeavesInit` - a calibration holds the vehicle in INIT by a flag.

### Bounds, and why they are enough

* *Positions and resolution* (`Positions`, `Deg60 = 1`): the referee tells
  positions apart only by gate, front of the gate, bearing sector, keep-out,
  field and altitude window. The course positions go clockwise around both
  pylons, so that two turns of 840 degrees and the finish are reached, and one
  position each is in the gate, in a keep-out, off the lake and on the ground,
  below the window. At 60 degrees a turn takes fifteen sectors, which is enough
  to pass the wrap at 180 degrees twice. The theorems hold for every table and
  resolution.
* *Three parameter sets* (`RefereeParams`): strict; strict with a reset; forced
  start where a failed race goes on. The aircraft changes between them in flight.
* `CountMod = 1`: no property depends on the count of violations. `MaxTime = 2`:
  starts at different times and a positive race time occur.
* `MaxSent = 4` with `QueueSize = 2`: a subscriber can be overrun by two and a
  slot is reused twice. `GenMod = 8` stays above `MaxSent + QueueSize`. The
  first subscriber sets and clears a rate, the second never does.
* `MaxTries = 50` is the code's own. Two addresses and two identifiers let the
  new object lie where the old one was, or elsewhere, while the old task leaves.
* `MavlinkMission`: two items are a first, a last and one out of order;
  `ActionTimeout = 0` lets a timeout come after one tick, before or after any
  message; two instances are one that transfers and one that has to notice it.
* `OffboardMission`: two items are a place before and after; `MaxTries = 2`
  stands for 10, and one mission jumps to itself until it is reached;
  `MaxEvents = 2` gives an upload against another, a clearing or a restart. Two
  values of the announced current item, none and the last.
* `Dataman`: persistence level 1 is the one for which the reason of the reset
  decides; two items of one kind are what a clearing iterates over; three events
  are a write, a power failure or stop, and a call beside them. Starts are not
  counted.
* `ArmingState` has no bound: one console, every subset of three problems.

### Fairness

* `uORBDeviceNode!FairSpec`: a write that has begun goes on, an expired timer
  is served, a poll that has begun looks at the topic, a task whose semaphore was
  posted runs. These are NuttX's scheduler and interrupts. No fairness makes a
  task begin a call, read, or time out: `SleeperWakes` does not rest on the
  poll's timeout.
* `AA241xTask!FairSpec`: a command that was begun goes on, and a task that was
  spawned gets to its loop or, having let go, ends. No fairness makes a task
  react to `_task_should_exit`: `StopEnds` holds of a task stuck in its loop.
* `MavlinkMission!FairSpec`: time passes, the data manager answers, a handler
  that waited goes on, and each instance's main loop calls `send()` at 10 Hz. No
  fairness makes a ground station send anything.
* `OffboardMission!FairSpec`: the navigator's loop turns at least once a second,
  the timeout of its poll, and MAVLink publishes in the call that wrote.
* `Dataman!FairSpec`: the worker, the second half of a stop and each task inside a
  call run when they can. Nothing makes a task call, start or stop. The run does
  not check deadlock: a manager that was stopped may stay so.
* `ArmingState!FairSpec`: every iteration of the main loop passes the test for
  INIT whatever else it does, hence strong fairness of `ProceedToStandby`; the
  switch to HIL ends; time passes.

## 5. Proofs

All theorems hold for every value of the constants that satisfies the modules'
named assumptions, which only give types, exclude zero and keep the markers for
"none" apart from data. Two need more, stated with ASSUME: `Unwrapped` (the
generation count of a topic does not wrap; all theorems about topics) and
`OneLink` (missions are transferred over one link; the theorems about missions
but three). Both are needed: the first by section 6, the second by
`mission_shared`.

**Referee** (`AA241xMissionProofs`). `TurnBookkeeping` and `RacingIsClean` are
statements about single moments, but neither survives a step by itself: a step
needs the types, and the clock needs more than it promises. `RaceClock` speaks of
running races, and a forced start resumes the start time of one that was
dropped. The inductive invariant

    IInv == TypeOK /\ TurnOK(m) /\ ClockOK(m, now) /\ FailedIfStale(m)
                   /\ CleanIn(m, parameters, auto, cur_pos)

therefore says of the start time that it is in the past of idle races too.
Every member function has a lemma (`CheckStartPost`, `TurnAccumulatePost`,
`CheckFieldBoundsPost`, ...) that says which fields it may change and which part of the
invariant it re-establishes; `IterationPost` composes them in the order of the
loop, and the step lemma follows, one case per action.

* `Invariance`, and from it `TypeCorrect`, `TurnIsBookkept`, `CleanRace`,
  `ClockIsRight`: the invariants of `race`.
* `IndexInArray`: `PylonIndexValid`, under the assumption that no parameter set
  has `AAMIS_FSTART = 1`. It is false without it (section 6), so no run with
  forced starts checks it.
* `NoTurnInKeepOut`: the action property, for any radius and course.
* `TurnsAreFlown`: `OpenTurnsComplete`, no iteration completes a turn it did not
  find open, because `check_turn_start()` opens one less than 120 degrees behind
  the start line. It is the other side of `race_begins`: a race begins with a turn
  flown only where a dropped race left one open.
* `Implementation`: `Spec => KeepsRules`. `IterationPost` also says which step of
  the rules an iteration is, and `RaceStepKeepsRules` maps it through the
  refinement mapping.
* `AngularDifferenceWraps`: for a bearing in [-pi, pi] less an angle in
  [-pi, 2pi], one correction is enough and changes the difference by a whole turn.
  The range covers the previous bearings of `turn_accumulate()`, in [-pi, pi], and
  the pylon angles of `build_racecourse()`, in (-pi/2, 3pi/2].

**Field** (`AA241xMissionProofs`). `FieldIsPolygon`: the half-plane tests of
`check_field_bounds()`, with their two groups of edge indices, are the nine-sided
polygon by the even-odd rule, at every whole metre of the plane. Each side of the
polygon is a linear form (`Form`, `Side`, `Edge`), and the rest is arithmetic
about nine of them. It is a fact about constants, so no run states it; with
`RacingIsClean` it gives `CountedInLake`, which speaks of races: one that counts
is flown by the autopilot, inside the polygon and within 5 m of the window.

**Start and stop** (`AA241xTaskProofs`). `OneTaskPerObject` speaks of the
moments between commands; `Phase` says, for each point of a command, where the
task of the current object can be, and `LeavesInTime` that a task above the
shell that is leaving leaves the current object while the destructor polls.
Together with `TypeOK` they are inductive. `StartAndStop` is `OneTaskPerObject`,
for any priorities and numbers of addresses, identifiers and polls; `NoOrphan` is
`ObjectOutlivesTask`, and `StartAwaitsTask` that `start` waits only for a task
that runs or is on its way to say so, which is the safety part of `StartEnds`.
Both speak of tasks above the shell; `task_outlived` shows why.

**Topic** (`uORBDeviceNodeProofs`). The inductive invariant

    IInv == TopicOK /\ BufferOK /\ RingOK /\ SubscribersOK

adds to the properties that the generation is the number of messages, that no
publisher is past its allocation without a buffer, that a ring nothing was
stored in reads as unwritten, and that no subscriber is ahead of the topic.
`LookedAt` is the reason no wake-up is lost: a waiter that looks at the topic
while it has something unread is posted or waits for its timer. `OtherSlot`, that
messages less than a ring apart lie in different slots, is the reason a store
spares the newest ones. Theorems: `TypesStay`, `NewestAreHeld`, `WakeupsAreKept`,
`UpdatesStay` (an action property) and `TopicIsLog` (the refinement: `ReadLogs`
shows that a read is `CopyNext` or `CopyAgain` of the log).

**Mission protocol** (`MavlinkMissionProofs`). Two invariants. `LinksInv` holds
on any number of links: the types, and `OrderOK`, that an upload's items are
written one after the other and its state after the last. From it `TypeCorrect`
and `WholeMissions` (`ActivatedWhenWhole`): whatever the links do to each other's
flag, no manager activates a part of its mission. The rest needs `OneLink`; there
the invariant `IInv` is `TypeOK`, that instances without partners do nothing
(`OthersIdle`), what is true of a manager in each phase of a transfer and of each
write it waits for (`TransferOK`, `ItemCallOK`, `StateCallOK`), and that the static
members name the stored mission, or none if it was misread, whenever no write of
the state is on its way (`Stored`). From it `InactivePlace`, `StoredActive`,
`FlagIsRight`, `OneDownload`, `Accepted`, and `Implementation`: every step is
hidden, or begins, extends, abandons or completes one draft, or empties the
mission, or writes an item over one of a mission that was misread. `OneDownload`
is an action property: while a download lasts, the active mission keeps its place,
its length and its items.

**Navigator** (`OffboardMissionProofs`). `StateInv` relates the copies of the
mission state: what is stored, accepted, published and held by the navigator, and
what a write on its way will store; `ItemInv` is about the items alone. From them
`StoredMission`, `FollowedMission`, `CountedJumps`. `FliesCurrentItem` is true
only between two turns of the loop, and only because of the order of the calls in
a turn. `FlightInv` says so: the ranges (`RangesOK`: an index is at most one
before or past the longest mission or where a jump leads, and one that only a jump
leads to is never stored), the mode (`ModeOK`), that in what is still to be done the items are
set after whatever replaces the mission, and before a reached item or a landing is
looked at (`AgendaOK`), and that an active navigator that is not about to set its
item has an index in the mission and the item of that index, as long as no newer
mission is on its way (`IndexOK`, `ItemOK`). An upload does not disturb this: it
goes to the other place, by `NavigatorFollows`. Theorems: `TypeCorrect`,
`FliesAcceptedItem`.

**Data manager** (`DatamanProofs`). What was acknowledged stays true only if each
work item is served once and for its own caller; and that the worker never sleeps
on an item rests on where each caller is. The inductive invariant

    IInv == StoreOK /\ TaskOK /\ CallsOK /\ QueueOK /\ PostsOK
            /\ ServedOK /\ AcknowledgedIsKept /\ WakeupOK

says that a work item is with its owner, in the queue or with the worker, and in
one of them only (`QueueOK`, `CallsOK`); that a write that succeeded is in the
file, and on the card when it is answered (`ServedOK`); that the posts of the
semaphore, made or to come, are no more than the calls and stops (`PostsOK`); and
that while the worker is away from the queue, an item whose caller has told it, or
a stop that has, left a post (`WakeupOK`). Theorems:

* `TypeCorrect`, and `Durability`, which is `AcknowledgedIsKept`: for any tasks,
  sectors and data, through power failures at any moment, on a card, and through
  every reset the data's persistence is to survive.
* `ErasesWhatIsLost`: the test of `_file_restart()` is the header's table.
* `Wakeful`: `NeverWaitsWithWork`, that the worker does not wait for its semaphore
  while an item waits or a stop is due. It is the safety part of `CallsAndStopsEnd`.
* `Implementation`: `Spec => ImplementsStore`. Every step of the model is hidden
  from the callers or is one step of `DurableStore`.

Of the module's assumptions only `NothingAssumption` is more than a type: it keeps
the marker for "nothing is served" apart from the tasks.

**Commander** (`ArmingStateProofs`, `NavState`). Of the seven arming states only
INIT, STANDBY and ARMED are ever entered; with that, the invariant says what each
call between its checks and its update still relies on. `HilLocked`
(no step but the kill switch's and the end of a termination leaves a vehicle armed
in HIL with its motors unlocked), `SafetySwitch` and `CheckedArming` follow for any
number of consoles, and so do
`DisarmsToStandby` (an armed vehicle is taken to STANDBY and nowhere else) and
`CalibrationEnds` (what holds the vehicle in INIT is up while the low-priority
loop calibrates and at no other time, the safety part of `LeavesInit`). `NavState`
compares two functions for every input: `FailsafeIsSupported` (a failsafe never
needs what was lost) and `AcceptedModeIsFlown` (a mode that was admitted is the
one that is flown while nothing fails).

**Only model-checked**: the liveness properties `SleeperWakes`, `StartEnds` and
`StopEnds`, `TransfersEnd`, `LeavesInit`, `PublishedIsTaken` and
`CallsAndStopsEnd`, since the prover does not reach fairness and ENABLED; and what
the five runs that expect a violation show, which are counterexamples. Of each
liveness property the part that says who still has a step to take is proved:
`WakeupsAreKept`, `StartAwaitsTask` and `StartAndStop`, `FlagIsRight`,
`CalibrationEnds`, `FollowedMission`, `Wakeful`. Every safety property of every
passing run is the statement of a theorem.

## 6. What the models show of the code

Disagreements with a run:

* `race_begins`: when a race is dropped in a turn, only `_turn_num` is reset
  (`aa241x_mission_main.cpp:841`); the open turn is completed by the first iteration
  of the next race. `RaceRules!Begin` says so, by allowing one turn.
* `task_outlived`: `_control_task = -1` is not the task's last store
  (`aa241x_low_main.cpp:883`). With it, a new object at the old address can have
  its `_task_running` cleared by the old task, and `start` then never returns.
* `mission_shared`: a transfer that ends by timeout on one instance takes down
  the flag all instances share (`mavlink_mission.cpp:392`), also when another
  instance is in the middle of an upload.
* `arming_unchecked`: while the sensors fail, the result of the preflight check
  replaces that of the pre-arm check (`state_machine_helper.cpp:166`).
* `progress_saved`: the mission state is written back without the navigator's
  index (`mission.cpp:1211`).

Seen while modelling, without a run of their own. In the referee:

* A wake-up by `parameter_update` alone adds the last arc again (`:812`).
* A finished race that fails afterwards keeps its final time, where the comment
  at `aa241x_mission_main.cpp:927` says it becomes zero.
* `check_violation()` empties `_turn_radians` and not `_turn_degrees` (`:711`).
* The window of a turn start is 2 pi / 3 (`:630`), its comment says pi / 4.
* A forced start flies with `_turn_num = -1`, so the turn functions read
  `_pylon[-1]`, the memory before the array (`:866`). The model reads it as the
  members laid out before it.
* `(_parameters.keepout_radius - 2.5)` is squared (`:709`): a radius below 2.5 m
  has a keep-out again. `_num_violations` is a `uint8_t`. The course is built
  once; changes of its parameters are read and not used.
* The low-priority task polls for 200 ms, its destructor's comment says 100.

In the topic:

* `read()` tests the buffer, not that a message was stored
  (`uORBDevices.cpp:214`), so a copy may deliver memory never written.
* `ORBIOCSETINTERVAL` with 0 deletes the interval record while its timer call
  may be queued (`uORBDevices.cpp:361`).
* After 2^32 messages the generation wraps, and a copy no longer clears the
  update (`:228`); this is what `Unwrapped` excludes.

In the mission protocol (`mavlink_mission.cpp`):

* An announced count of zero is accepted even if the write failed (`:685`); a
  repeated count that differs is ignored (`:705`); items are not checked for
  their sender (`:762`); the main thread toggles `_int_mode` (`:397`).
* Two instances assign the static members in another order than the storage
  was written. CLEAR_ALL and SET_CURRENT on another link ignore the flag. An
  instance stopped in a transfer leaves it up. `send_mission_count` ignores its
  argument.
* A mission state that cannot be read at the start is taken for no mission, as if
  nothing were stored (`:123`, `ret` is a comparison and never negative). The
  navigator reads the state itself and flies the stored mission, and the next
  upload may go to the place that mission is in (`misread`).

In the data manager (`dataman.c`):

* A request enqueued after the last look at the queue waits forever (`:1102`,
  "The work queue is now empty").
* The default `SYS_RESTART_TYPE` 2 is described as "Data does not survive reset";
  nothing is erased for it (`:999`). The result of the erasing is not looked at
  (`:1001`), a read error in it is taken for the end of the file, and so is one
  in `dm_clear()`. The result of `fsync()` is not looked at (`:454`).
* A start beside a worker that has not left reinitialises its queue; `dm_unlock()`
  does nothing once a stop was asked for, and raises the semaphore above one when
  the lock is not held; after a start on RAM the compatibility key is read
  through the old operations.

In the navigator (`mission.cpp`):

* A mission accepted between a read and a write of the mission state is lost
  (history variable `overtaken`): MAVLink does not take `dm_lock()`.
* The reset after a flight clears the stored sequence, and the update that
  follows takes the last publication again, with its index (`:131`).
* A stored `current_seq` of -1 is loaded after a restart and leaves no item to
  fly. Jump counters raised while disarmed are not reset. The write-back of a
  jump may overwrite a newly uploaded item in the same place.
* A mission state that cannot be read makes the navigator write its own copy.
* The index of a jump is not looked at, neither at the upload
  (`mavlink_mission.cpp:978`) nor when it is followed (`mission.cpp:1171`, "we
  should realize this later"): it is realised by having no item at that index, and
  the index stays there until an update or a restart.

In the commander (`commander.cpp`, `state_machine_helper.cpp`):

* `(!hil_state) != HIL_STATE_ON` (`commander.cpp:860`) is an inverted test.
* A reboot comes 100 ms after `is_safe()`, while the main loop may arm; a
  calibration tests INIT and then runs, while the main loop may leave it, so
  calibrating an armed vehicle is possible, and one armed during the end of a
  calibration is disarmed by its transition to STANDBY.
* A kill switch that is off clears the lock of the motors in every iteration with
  a valid remote control (`commander.cpp:2704`), and so does the end of a flight
  termination (`:981`), in HIL too, where `state_machine_helper.cpp:184` says
  "enforce lockdown in HIL". Any transition of the arming state outside HIL clears
  the lock that either of them set. A lock also makes `is_safe()` true, so a reboot
  is accepted of a vehicle that is armed and locked by the kill switch.
* Disarming is refused while the sensors are not initialised. ARMED_ERROR,
  STANDBY_ERROR and REBOOT are never requested.
* In AUTO_MISSION the position is not looked at again; `stay_in_failsafe` keeps
  the old navigation state with `failsafe` false; a lost position is reported as
  lost RC; POSCTL is admitted for a fixed wing with a local position only, and is
  then at once in failsafe.

## 7. Not modelled

* *Course construction* (`build_racecourse`): trigonometry. The
  course is a constant of the model.
* *Debug and log output, the buzzer*: no state that anything reads.
* *Several shells at once*: the boot script and the console use one.
* *The rest of the commander*: detection of lost links and failures, home
  position, battery and geofence actions. It sets the flags `NavState` takes as
  input; most of it compares times and floating-point values.
* *The rest of the navigator*: setpoints, items of other vehicles, the onboard
  mission, loiter, return and landing modes, the geofence.
* *uORB DeviceMaster and Manager, the student tasks, mazsim*: items 7 to 9 of
  the plan.
* *Student control laws, estimators, controllers*: numerical.
* *Drivers, POSIX and QuRT layers, libraries, examples, generated tables*:
  vendor base; the course's applications are built for NuttX only.

The repository is a whole flight stack of some 290 000 lines; the models
translate the parts above, which carry its stateful decisions, and so cover a
small share of its lines.
