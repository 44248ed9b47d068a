--------------------------- MODULE AA241xMission ---------------------------
(***************************************************************************)
(* The race referee task: modules/aa241x_mission/aa241x_mission_main.cpp.  *)
(*                                                                         *)
(* The task sleeps in px4_poll() on parameter_update and                   *)
(* aa241x_local_data, and each wake-up runs the whole loop body of         *)
(* task_main().  Its members are private to the task, so one wake-up is    *)
(* one atomic step here; each member function is an operator from the      *)
(* members before the call to the members after it.                        *)
(***************************************************************************)
EXTENDS RaceGeometry

CONSTANTS
    Positions,      \* aircraft positions [N, E, D] the local data can carry
    Origin,         \* the position _prev_pos is set to at start
    Gate,           \* _start_gate[0..3], built once by build_racecourse()
    Pylon,          \* _pylon: 0 and 1 are the course's; -1 is the memory before
    Bearing,        \* Bearing[pos][i]: atan2f of pos seen from pylon i
    ParamSets,      \* the parameter values parameters_update() can read
    CountMod,       \* 2^8 in the code: _num_violations is a uint8_t
    MaxTime         \* bound on hrt_absolute_time()

\* Members are read for the pylon the aircraft is turning around; -1 is what a
\* forced start reads.
PylonIndex == -1..1

Parameters == [min_alt : Int, max_alt : Int, keepout_radius : Int,
               mis_fail : Int, force_start : Int, mission_restart : Int]

ASSUME CourseAssumption ==
    /\ Positions \subseteq [N : Int, E : Int, D : Int]
    /\ Origin \in Positions
    /\ Gate \in [0..3 -> [N : Int, E : Int]]
    /\ Pylon \in [PylonIndex -> [N : Int, E : Int, angle : Int]]
    /\ Bearing \in [Positions -> [PylonIndex -> -Pi..Pi]]

ASSUME ParamAssumption == ParamSets \subseteq Parameters

ASSUME BoundAssumption == CountMod \in Nat \ {0} /\ MaxTime \in Nat \ {0}

VARIABLES
    m,              \* the members reset_mission() resets
    parameters,     \* _parameters
    auto,           \* _vcontrol_mode.flag_control_auto_enabled
    prev_pos,       \* _prev_pos
    cur_pos,        \* _cur_pos
    now             \* hrt_absolute_time()

vars == <<m, parameters, auto, prev_pos, cur_pos, now>>

-----------------------------------------------------------------------------
\* Members set by the constructor and never changed.
NumOfTurns == 2
ReqTurn == -(14 * Deg60)        \* _req_turn_degrees, -840 degrees

Mission == [in_mission : BOOLEAN, mission_failed : BOOLEAN,
            start_time : Nat, current_time : Int, final_time : Int,
            in_turn : BOOLEAN, just_started_turn : BOOLEAN,
            turn_num : -1..NumOfTurns,
            turn_radians : Int, turn_degrees : Int,
            num_violations : 0..(CountMod - 1), in_violation : BOOLEAN,
            out_of_bounds : BOOLEAN]

\* reset_mission(), and what the constructor sets the same members to.
ResetMission == [in_mission |-> FALSE, mission_failed |-> FALSE,
                 start_time |-> 0, current_time |-> 0, final_time |-> 0,
                 in_turn |-> FALSE, just_started_turn |-> FALSE,
                 turn_num |-> -1, turn_radians |-> 0, turn_degrees |-> 0,
                 num_violations |-> 0, in_violation |-> FALSE,
                 out_of_bounds |-> FALSE]

Alt(pos) == -pos.D

InAltitudeWindow(par, pos) == Alt(pos) > par.min_alt /\ Alt(pos) < par.max_alt

-----------------------------------------------------------------------------
\* Operators whose comment begins with "Mutant" are the model's test: each is
\* the next definition with a bug in it, and stands for it in a run that must
\* then find a property violated.

\* Mutant: the race starts without a turn number.
CheckStartWithoutTurn(s, par, prev, cur, t) ==
    IF InGate(Gate, prev) /\ InAltitudeWindow(par, prev) /\ PastGate(Gate, cur)
    THEN [s EXCEPT !.in_mission = TRUE, !.start_time = t]
    ELSE s

\* Mutant: the race starts without its clock.
CheckStartWithoutClock(s, par, prev, cur, t) ==
    IF InGate(Gate, prev) /\ InAltitudeWindow(par, prev) /\ PastGate(Gate, cur)
    THEN [s EXCEPT !.in_mission = TRUE, !.turn_num = 0]
    ELSE s

\* check_start() and the start time task_main() sets after it.
CheckStart(s, par, prev, cur, t) ==
    IF InGate(Gate, prev) /\ InAltitudeWindow(par, prev) /\ PastGate(Gate, cur)
    THEN [s EXCEPT !.in_mission = TRUE, !.turn_num = 0, !.start_time = t]
    ELSE s

\* Mutant: the finish counts as one more turn.
CheckFinishedAsTurn(s, par, prev, cur) ==
    IF PastGate(Gate, prev) /\ InGate(Gate, cur) /\ InAltitudeWindow(par, cur)
    THEN [s EXCEPT !.in_mission = FALSE, !.turn_num = s.turn_num + 1,
                   !.final_time = s.current_time]
    ELSE s

\* Mutant: the final time is left as it was.
CheckFinishedUntimed(s, par, prev, cur) ==
    IF PastGate(Gate, prev) /\ InGate(Gate, cur) /\ InAltitudeWindow(par, cur)
    THEN [s EXCEPT !.in_mission = FALSE, !.turn_num = -1]
    ELSE s

\* check_finished() and the final time task_main() sets after it.
CheckFinished(s, par, prev, cur) ==
    IF PastGate(Gate, prev) /\ InGate(Gate, cur) /\ InAltitudeWindow(par, cur)
    THEN [s EXCEPT !.in_mission = FALSE, !.turn_num = -1,
                   !.final_time = s.current_time]
    ELSE s

\* check_turn_start(): the aircraft passed the pylon's start line clockwise.
CheckTurnStart(s, prev, cur) ==
    LET angle == Pylon[s.turn_num].angle
        cur_diff == AngularDifference(Bearing[cur][s.turn_num], angle)
        prev_diff == AngularDifference(Bearing[prev][s.turn_num], angle)
    IN  IF cur_diff <= 0 /\ prev_diff >= 0 /\ -cur_diff < 2 * Deg60
        THEN [s EXCEPT !.in_turn = TRUE, !.just_started_turn = TRUE]
        ELSE s

\* turn_accumulate(): add the arc flown since the previous position, or since
\* the start line in the iteration that starts the turn; never above zero.
\* Degrees are radians in another unit, so turn_degrees is turn_radians here.
TurnAccumulate(s, prev, cur) ==
    LET base == IF s.just_started_turn THEN 0 ELSE s.turn_radians
        from == IF s.just_started_turn THEN Pylon[s.turn_num].angle
                                       ELSE Bearing[prev][s.turn_num]
        sum == base + AngularDifference(Bearing[cur][s.turn_num], from)
        turned == IF sum > 0 THEN 0 ELSE sum
    IN  [s EXCEPT !.just_started_turn = FALSE, !.turn_radians = turned,
                  !.turn_degrees = turned]

\* Whether cur is within the keep-out radius of a pylon, less 2.5 m
\* (the comparison of squares is multiplied by four to stay in integers).
InKeepOut(par, i, cur) ==
    4 * ((cur.E - Pylon[i].E) * (cur.E - Pylon[i].E)
            + (cur.N - Pylon[i].N) * (cur.N - Pylon[i].N))
        < (2 * par.keepout_radius - 5) * (2 * par.keepout_radius - 5)

\* check_violation(): entering the keep-out empties the accumulator (but not
\* turn_degrees); leaving it counts one violation.
CheckViolation(s, par, cur) ==
    IF InKeepOut(par, s.turn_num, cur)
    THEN [s EXCEPT !.turn_radians = 0, !.in_violation = TRUE]
    ELSE IF s.in_violation
         THEN [s EXCEPT !.in_violation = FALSE,
                        !.num_violations = (s.num_violations + 1) % CountMod]
         ELSE s

\* Mutant: the accumulator of the completed turn is not emptied.
CheckTurnEndKeepsArc(s) ==
    IF s.turn_radians < ReqTurn
    THEN [s EXCEPT !.in_turn = FALSE, !.turn_num = s.turn_num + 1]
    ELSE s

\* check_turn_end(): more than 840 degrees clockwise end the turn.
CheckTurnEnd(s) ==
    IF s.turn_radians < ReqTurn
    THEN [s EXCEPT !.in_turn = FALSE, !.turn_radians = 0, !.turn_degrees = 0,
                   !.turn_num = s.turn_num + 1]
    ELSE s

\* Mutant: a turn accumulates only from the iteration after its start.
FlyTurnElse(s, par, prev, cur) ==
    IF ~s.in_turn
    THEN CheckTurnStart(s, prev, cur)
    ELSE CheckTurnEnd(CheckViolation(TurnAccumulate(s, prev, cur), par, cur))

\* Mutant: the turn's end is checked before the violation.
FlyTurnEndFirst(s, par, prev, cur) ==
    LET started == IF s.in_turn THEN s ELSE CheckTurnStart(s, prev, cur)
        ended == CheckTurnEnd(TurnAccumulate(started, prev, cur))
    IN  IF ~started.in_turn THEN started
        ELSE IF ended.in_turn THEN CheckViolation(ended, par, cur) ELSE ended

\* The turn branch of task_main(), in its order: a turn that starts
\* accumulates in the same iteration.
FlyTurn(s, par, prev, cur) ==
    LET started == IF s.in_turn THEN s ELSE CheckTurnStart(s, prev, cur)
    IN  IF started.in_turn
        THEN CheckTurnEnd(CheckViolation(TurnAccumulate(started, prev, cur),
                                         par, cur))
        ELSE started

-----------------------------------------------------------------------------
\* Mutant: the force start only keeps a clock, and never starts one.
ForceStartUnclocked(s, par, t) ==
    IF par.force_start = 1 THEN [s EXCEPT !.in_mission = TRUE] ELSE s

\* Mutant: the force start restarts the clock in every iteration.
ForceStartRestarts(s, par, t) ==
    IF par.force_start = 1
    THEN [s EXCEPT !.in_mission = TRUE, !.start_time = t] ELSE s

\* AAMIS_FSTART: force the mission to run, keeping a start time already set.
ForceStart(s, par, t) ==
    IF par.force_start = 1
    THEN [s EXCEPT !.in_mission = TRUE,
                   !.start_time = IF s.start_time = 0 THEN t ELSE s.start_time]
    ELSE s

\* The body task_main() runs in automatic mode.
AutoMode(s, par, prev, cur, t) ==
    LET forced == ForceStart(s, par, t)
        begun == IF forced.in_mission THEN forced
                 ELSE CheckStart(forced, par, prev, cur, t)
        timed == [begun EXCEPT !.current_time = t - begun.start_time]
    IN  IF ~begun.in_mission THEN begun
        ELSE IF begun.turn_num < NumOfTurns THEN FlyTurn(timed, par, prev, cur)
        ELSE CheckFinished(timed, par, prev, cur)

\* Mutant: only a violation that ends the mission is remembered.
FailOnlyEnding(s, par) ==
    [s EXCEPT !.mission_failed = s.mission_failed \/ par.mis_fail = 1,
              !.in_mission = s.in_mission /\ par.mis_fail # 1]

\* What every hard violation does; with mis_fail = 1 it ends the mission.
Fail(s, par) ==
    [s EXCEPT !.mission_failed = TRUE,
              !.in_mission = s.in_mission /\ par.mis_fail # 1]

\* The manual branch of task_main().
ManualMode(s, par) == IF s.in_mission THEN Fail(s, par) ELSE s

\* Mutant: the altitude, too, is checked above 40 m only.
CheckFieldBoundsHighOnly(s, par, cur) ==
    LET lake == IF OffLake(cur) /\ (s.in_mission \/ cur.D < -40)
                THEN [Fail(s, par) EXCEPT !.out_of_bounds = TRUE]
                ELSE [s EXCEPT !.out_of_bounds = FALSE]
    IN  IF lake.in_mission /\ cur.D < -40 /\ Alt(cur) > par.max_alt + 5
        THEN [Fail(lake, par) EXCEPT !.out_of_bounds = TRUE] ELSE lake

\* check_field_bounds(): the lake counts in a mission and above 40 m; the
\* altitude, with a buffer of 5 m, only in a mission, which the lake check
\* may just have ended.
CheckFieldBounds(s, par, cur) ==
    LET offLake == OffLake(cur) /\ (s.in_mission \/ cur.D < -40)
        lake == IF offLake THEN [Fail(s, par) EXCEPT !.out_of_bounds = TRUE]
                           ELSE [s EXCEPT !.out_of_bounds = FALSE]
        offWindow == /\ lake.in_mission
                     /\ \/ Alt(cur) > par.max_alt + 5
                        \/ Alt(cur) < par.min_alt - 5
    IN  IF offWindow THEN [Fail(lake, par) EXCEPT !.out_of_bounds = TRUE]
                     ELSE lake

\* The loop body of task_main() after the subscriptions are read.
Iteration(s, par, isAuto, prev, cur, t) ==
    LET dropped == IF s.in_mission THEN s ELSE [s EXCEPT !.turn_num = -1]
        reset == IF par.mission_restart # 0 THEN ResetMission ELSE dropped
        moded == IF isAuto /\ par.mission_restart = 0
                 THEN AutoMode(reset, par, prev, cur, t)
                 ELSE ManualMode(reset, par)
    IN  CheckFieldBounds(moded, par, cur)

-----------------------------------------------------------------------------
\* The constructor and the part of task_main() before the loop.
Init ==
    /\ m = ResetMission
    /\ parameters \in ParamSets
    /\ auto \in BOOLEAN
    /\ prev_pos = Origin
    /\ cur_pos \in Positions
    /\ now = 1

\* One wake-up: par, prev and cur are what the descriptors that fired
\* brought; the control mode is checked in every iteration.
Wake(par, prev, cur) ==
    /\ parameters' = par
    /\ prev_pos' = prev
    /\ cur_pos' = cur
    /\ auto' \in BOOLEAN
    /\ m' = Iteration(m, par, auto', prev, cur, now)
    /\ UNCHANGED now

\* parameter_update fired alone: the positions of the last wake-up are used.
ParamWake == \E par \in ParamSets : Wake(par, prev_pos, cur_pos)

\* aa241x_local_data fired alone.
DataWake == \E pos \in Positions : Wake(parameters, cur_pos, pos)

\* Both fired.
ParamAndDataWake ==
    \E par \in ParamSets, pos \in Positions : Wake(par, cur_pos, pos)

\* Time passes while the task sleeps; a poll that times out changes nothing.
Tick ==
    /\ now < MaxTime
    /\ now' = now + 1
    /\ UNCHANGED <<m, parameters, auto, prev_pos, cur_pos>>

Next == ParamWake \/ DataWake \/ ParamAndDataWake \/ Tick

Spec == Init /\ [][Next]_vars

-----------------------------------------------------------------------------
(***************************************************************************)
(* Properties.                                                             *)
(***************************************************************************)

\* The members keep the types the header gives them.
TypeOK ==
    /\ m \in Mission
    /\ parameters \in ParamSets
    /\ auto \in BOOLEAN
    /\ prev_pos \in Positions
    /\ cur_pos \in Positions
    /\ now \in 1..MaxTime

\* Between two iterations the turn state is consistent: a turn that has
\* started has been accumulated, the accumulator holds at most 840 degrees
\* clockwise, it is empty outside a turn, a keep-out violation is only open
\* inside a turn, and the published degrees differ from the accumulator only
\* while such a violation has emptied it.  check_turn_start(),
\* turn_accumulate(), check_violation() and check_turn_end() keep this jointly.
TurnBookkeeping ==
    /\ ~m.just_started_turn
    /\ m.turn_radians \in ReqTurn..0
    /\ ~m.in_turn => m.turn_radians = 0 /\ ~m.in_violation
    /\ m.turn_degrees # m.turn_radians => m.in_violation /\ m.turn_radians = 0

\* A race that counts is flown by the autopilot, inside the lake and within
\* 5 m of the altitude window: in any other state the mission is marked as
\* failed, and with AAMIS_MIS_FAIL = 1 it has ended.  The checks of the manual
\* branch and of check_field_bounds() come after everything that can set
\* _in_mission.
RacingIsClean ==
    (m.in_mission /\ (\/ ~auto
                      \/ OffLake(cur_pos)
                      \/ Alt(cur_pos) > parameters.max_alt + 5
                      \/ Alt(cur_pos) < parameters.min_alt - 5))
        => m.mission_failed /\ parameters.mis_fail # 1

\* The race clock: a running race has a start time in the past, its time never
\* runs ahead of the clock, and the status that still shows a turn number after
\* the mission ended is that of a failed mission.
RaceClock ==
    /\ m.in_mission => m.start_time \in 1..now
    /\ m.in_mission => m.current_time \in 0..(now - m.start_time)
    /\ ~m.in_mission /\ m.turn_num # -1 => m.mission_failed

\* The turn functions index _pylon with _turn_num, an array of two: in a
\* mission, the turn number is that of a pylon or of the finish.
PylonIndexValid == m.in_mission => m.turn_num \in 0..NumOfTurns

\* check_violation() runs between turn_accumulate() and check_turn_end(), so
\* no turn is completed by an iteration that finds the aircraft inside the
\* keep-out radius of its pylon.
NoTurnEndsInKeepOut ==
    [][(m.in_mission /\ m'.turn_num = m.turn_num + 1)
        => ~InKeepOut(parameters', m.turn_num, cur_pos')]_vars

\* Only a turn that an earlier iteration opened is completed: a race that begins
\* with a turn flown took over one that a dropped race left open.
OpenTurnsComplete ==
    [][~m.in_turn /\ m'.in_mission
        => m'.turn_num <= IF m.in_mission THEN m.turn_num ELSE 0]_vars

\* The referee keeps the rules of the race.
Rules == INSTANCE RaceRules
            WITH racing <- m.in_mission,
                 turns <- IF m.in_mission /\ m.turn_num > 0 THEN m.turn_num ELSE 0,
                 since <- m.start_time,
                 failed <- m.mission_failed,
                 final_time <- m.final_time

\* Every iteration of task_main() is a step of RaceRules or leaves its state
\* alone: turns are counted one by one, a race is timed from its start and
\* only with all turns complete, and it ends untimed only by failing.
KeepsRules == Rules!Spec
=============================================================================
