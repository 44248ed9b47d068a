------------------------ MODULE AA241xMissionProofs ------------------------
(***************************************************************************)
(* Theorems about the race referee, for every course, every set of         *)
(* positions and parameters, and every angular resolution.                 *)
(***************************************************************************)
EXTENDS AA241xMission, LakePolygon, TLAPS

-----------------------------------------------------------------------------
(***************************************************************************)
(* angular_difference().                                                   *)
(***************************************************************************)

\* angular_difference() of two integers is an integer.
LEMMA AngularDifferenceInt ==
    ASSUME NEW t1 \in Int, NEW t0 \in Int
    PROVE  AngularDifference(t1, t0) \in Int
  BY Deg60Assumption DEF AngularDifference, Pi

\* angular_difference() wraps only once; once is enough for a bearing of atan2f()
\* less another one (turn_accumulate()), in [-pi, pi], or less a pylon's angle of
\* build_racecourse(), in (-pi/2, 3pi/2].
THEOREM AngularDifferenceWraps ==
    ASSUME NEW t1 \in -Pi..Pi, NEW t0 \in -Pi..(2 * Pi)
    PROVE  /\ AngularDifference(t1, t0) \in -Pi..Pi
           /\ \E k \in {-1, 0, 1} :
                 AngularDifference(t1, t0) = t1 - t0 + k * (2 * Pi)
  <1>0. Pi \in Nat /\ t1 - t0 \in Int
    BY Deg60Assumption DEF Pi
  <1>1. CASE t1 - t0 > Pi
    BY <1>0, <1>1 DEF AngularDifference
  <1>2. CASE t1 - t0 < -Pi
    BY <1>0, <1>2 DEF AngularDifference
  <1>3. CASE ~(t1 - t0 > Pi) /\ ~(t1 - t0 < -Pi)
    BY <1>0, <1>3 DEF AngularDifference
  <1> QED
    BY <1>1, <1>2, <1>3

-----------------------------------------------------------------------------
(***************************************************************************)
(* What each member function does to the members: their types, and the     *)
(* fields it may change.                                                   *)
(***************************************************************************)

\* TurnBookkeeping, of any members.
TurnOK(s) ==
    /\ ~s.just_started_turn
    /\ s.turn_radians \in ReqTurn..0
    /\ ~s.in_turn => s.turn_radians = 0 /\ ~s.in_violation
    /\ s.turn_degrees # s.turn_radians => s.in_violation /\ s.turn_radians = 0

LEMMA ResetMissionPost == ResetMission \in Mission
  BY BoundAssumption DEF ResetMission, Mission, NumOfTurns

LEMMA SetTurnNum ==
    ASSUME NEW s \in Mission, NEW n \in -1..NumOfTurns
    PROVE  [s EXCEPT !.turn_num = n] \in Mission
  BY DEF Mission

LEMMA SetRadians ==
    ASSUME NEW s \in Mission, NEW n \in Int
    PROVE  [s EXCEPT !.turn_radians = n] \in Mission
  BY DEF Mission

LEMMA SetDegrees ==
    ASSUME NEW s \in Mission, NEW n \in Int
    PROVE  [s EXCEPT !.turn_degrees = n] \in Mission
  BY DEF Mission

\* check_start() changes nothing unless it starts the mission.
LEMMA CheckStartPost ==
    ASSUME NEW s \in Mission, NEW par, NEW prev, NEW cur, NEW t \in Nat,
           NEW r, r = CheckStart(s, par, prev, cur, t)
    PROVE  /\ r \in Mission
           /\ \/ r = s
              \/ r.in_mission /\ r.turn_num = 0 /\ r.start_time = t
           /\ r.final_time = s.final_time
           /\ r.mission_failed = s.mission_failed
           /\ r.in_turn = s.in_turn
           /\ TurnOK(s) => TurnOK(r)
  <1> DEFINE a == [s EXCEPT !.in_mission = TRUE]
             b == [a EXCEPT !.turn_num = 0]
             c == [b EXCEPT !.start_time = t]
  <1>1. a \in Mission
    BY DEF Mission
  <1>2. b \in Mission
    <2>1. 0 \in -1..NumOfTurns
      BY DEF NumOfTurns
    <2> HIDE DEF a
    <2> QED
      BY <1>1, <2>1, SetTurnNum
  <1>3. c \in Mission
    BY <1>2 DEF Mission
  <1>4. r = s \/ r = c
    BY DEF CheckStart
  <1>5. /\ c.in_mission /\ c.turn_num = 0 /\ c.start_time = t
        /\ c.final_time = s.final_time
        /\ c.mission_failed = s.mission_failed
        /\ c.in_turn = s.in_turn
        /\ TurnOK(s) => TurnOK(c)
    BY DEF Mission, TurnOK
  <1> HIDE DEF c
  <1> QED
    BY <1>3, <1>4, <1>5

\* check_finished() changes nothing unless it ends the mission.
LEMMA CheckFinishedPost ==
    ASSUME NEW s \in Mission, NEW par, NEW prev, NEW cur,
           NEW r, r = CheckFinished(s, par, prev, cur)
    PROVE  /\ r \in Mission
           /\ \/ r = s
              \/ /\ ~r.in_mission /\ r.turn_num = -1
                 /\ r.final_time = s.current_time
           /\ r.start_time = s.start_time
           /\ r.mission_failed = s.mission_failed
           /\ TurnOK(s) => TurnOK(r)
  <1> DEFINE a == [s EXCEPT !.in_mission = FALSE]
             b == [a EXCEPT !.turn_num = -1]
             c == [b EXCEPT !.final_time = s.current_time]
  <1>1. a \in Mission
    BY DEF Mission
  <1>2. b \in Mission
    <2>1. -1 \in -1..NumOfTurns
      BY DEF NumOfTurns
    <2> HIDE DEF a
    <2> QED
      BY <1>1, <2>1, SetTurnNum
  <1>3. c \in Mission
    BY <1>2 DEF Mission
  <1>4. r = s \/ r = c
    BY DEF CheckFinished
  <1>5. /\ ~c.in_mission /\ c.turn_num = -1
        /\ c.final_time = s.current_time
        /\ c.start_time = s.start_time
        /\ c.mission_failed = s.mission_failed
        /\ TurnOK(s) => TurnOK(c)
    BY DEF Mission, TurnOK
  <1> HIDE DEF c
  <1> QED
    BY <1>3, <1>4, <1>5

\* The members that FlyTurn() and what it calls leave alone.
SameMission(r, s) ==
    /\ r.in_mission = s.in_mission
    /\ r.mission_failed = s.mission_failed
    /\ r.start_time = s.start_time
    /\ r.current_time = s.current_time
    /\ r.final_time = s.final_time
    /\ r.out_of_bounds = s.out_of_bounds

\* check_turn_start() may only start a turn, which then is less than 120 degrees
\* behind its start line.
LEMMA CheckTurnStartPost ==
    ASSUME NEW s \in Mission, NEW prev, NEW cur,
           NEW r, r = CheckTurnStart(s, prev, cur)
    PROVE  /\ r \in Mission
           /\ SameMission(r, s)
           /\ r.turn_num = s.turn_num
           /\ r.turn_radians = s.turn_radians
           /\ r.turn_degrees = s.turn_degrees
           /\ r.in_violation = s.in_violation
           /\ r = s \/ (r.in_turn /\ r.just_started_turn)
           /\ r = s \/ -AngularDifference(Bearing[cur][s.turn_num],
                                         Pylon[s.turn_num].angle) < 2 * Deg60
  <1> DEFINE a == [s EXCEPT !.in_turn = TRUE]
             b == [a EXCEPT !.just_started_turn = TRUE]
  <1>1. a \in Mission
    BY DEF Mission
  <1>2. b \in Mission
    BY <1>1 DEF Mission
  <1>3. r = s \/ r = b
    BY DEF CheckTurnStart
  <1>6. r = s \/ -AngularDifference(Bearing[cur][s.turn_num],
                                  Pylon[s.turn_num].angle) < 2 * Deg60
    BY DEF CheckTurnStart
  <1>4. CASE r = s
    BY <1>4 DEF SameMission
  <1>5. CASE r = b
    <2>1. /\ r \in Mission
          /\ SameMission(r, s)
          /\ r.turn_num = s.turn_num
          /\ r.turn_radians = s.turn_radians
          /\ r.turn_degrees = s.turn_degrees
          /\ r.in_violation = s.in_violation
          /\ r.in_turn /\ r.just_started_turn
      BY <1>2, <1>5 DEF SameMission, Mission
    <2> QED
      BY <1>6, <2>1
  <1> QED
    BY <1>3, <1>4, <1>5

\* turn_accumulate() leaves at most zero in the accumulator, and the same in
\* the degrees; a turn that has just started has its first arc only.
LEMMA TurnAccumulatePost ==
    ASSUME NEW s \in Mission, s.turn_num \in PylonIndex,
           NEW prev \in Positions, NEW cur \in Positions,
           NEW r, r = TurnAccumulate(s, prev, cur)
    PROVE  /\ r \in Mission
           /\ SameMission(r, s)
           /\ r.turn_num = s.turn_num
           /\ r.in_turn = s.in_turn
           /\ r.in_violation = s.in_violation
           /\ ~r.just_started_turn
           /\ r.turn_radians <= 0
           /\ r.turn_degrees = r.turn_radians
           /\ s.just_started_turn =>
                \/ r.turn_radians = 0
                \/ r.turn_radians = AngularDifference(Bearing[cur][s.turn_num],
                                                    Pylon[s.turn_num].angle)
  <1> DEFINE base == IF s.just_started_turn THEN 0 ELSE s.turn_radians
             from == IF s.just_started_turn THEN Pylon[s.turn_num].angle
                                            ELSE Bearing[prev][s.turn_num]
             sum == base + AngularDifference(Bearing[cur][s.turn_num], from)
             turned == IF sum > 0 THEN 0 ELSE sum
             a == [s EXCEPT !.just_started_turn = FALSE]
             b == [a EXCEPT !.turn_radians = turned]
             c == [b EXCEPT !.turn_degrees = turned]
  <1>1. Bearing[cur][s.turn_num] \in Int /\ from \in Int
    BY Deg60Assumption, CourseAssumption DEF Pi
  <1>2. base \in Int
    BY DEF Mission
  <1>3. AngularDifference(Bearing[cur][s.turn_num], from) \in Int
    <2> HIDE DEF from
    <2> QED
      BY <1>1, AngularDifferenceInt
  <1>4. turned \in Int /\ turned <= 0
    <2> HIDE DEF base, from
    <2> QED
      BY <1>2, <1>3
  <1>5. r = c
    BY DEF TurnAccumulate
  <1>10. s.just_started_turn =>
           \/ turned = 0
           \/ turned = AngularDifference(Bearing[cur][s.turn_num],
                                        Pylon[s.turn_num].angle)
    <2> SUFFICES ASSUME s.just_started_turn
                 PROVE  \/ turned = 0
                        \/ turned = AngularDifference(Bearing[cur][s.turn_num],
                                                     Pylon[s.turn_num].angle)
      OBVIOUS
    <2>1. base = 0 /\ from = Pylon[s.turn_num].angle
      OBVIOUS
    <2> HIDE DEF base, from
    <2> QED
      BY <1>3, <2>1
  <1> HIDE DEF turned
  <1>6. a \in Mission
    BY DEF Mission
  <1>7. b \in Mission
    BY <1>4, <1>6 DEF Mission
  <1>8. c \in Mission
    BY <1>4, <1>7 DEF Mission
  <1>9. /\ SameMission(c, s)
        /\ c.turn_num = s.turn_num
        /\ c.in_turn = s.in_turn
        /\ c.in_violation = s.in_violation
        /\ ~c.just_started_turn
        /\ c.turn_radians = turned
        /\ c.turn_degrees = turned
    BY DEF SameMission, Mission
  <1> QED
    BY <1>4, <1>5, <1>8, <1>9, <1>10

\* check_violation() only touches the accumulator and the violation.
LEMMA CheckViolationPost ==
    ASSUME NEW s \in Mission, NEW par, NEW cur,
           NEW r, r = CheckViolation(s, par, cur)
    PROVE  /\ r \in Mission
           /\ SameMission(r, s)
           /\ r.turn_num = s.turn_num
           /\ r.in_turn = s.in_turn
           /\ r.just_started_turn = s.just_started_turn
           /\ r.turn_degrees = s.turn_degrees
           /\ IF InKeepOut(par, s.turn_num, cur)
              THEN r.in_violation /\ r.turn_radians = 0
              ELSE ~r.in_violation /\ r.turn_radians = s.turn_radians
  <1> DEFINE count == (s.num_violations + 1) % CountMod
             a == [s EXCEPT !.turn_radians = 0]
             b == [a EXCEPT !.in_violation = TRUE]
             d == [s EXCEPT !.in_violation = FALSE]
             e == [d EXCEPT !.num_violations = count]
  <1>1. count \in 0..(CountMod - 1)
    BY BoundAssumption DEF Mission
  <1> HIDE DEF count
  <1>0. 0 \in Int
    OBVIOUS
  <1>2. a \in Mission /\ d \in Mission
    <2>1. a \in Mission
      BY <1>0, SetRadians
    <2>2. d \in Mission
      BY DEF Mission
    <2> QED
      BY <2>1, <2>2
  <1>3. b \in Mission
    BY <1>2 DEF Mission
  <1>4. e \in Mission
    BY <1>1, <1>2 DEF Mission
  <1>5. CASE InKeepOut(par, s.turn_num, cur)
    <2>1. r = b
      BY <1>5 DEF CheckViolation
    <2>2. /\ SameMission(b, s)
          /\ b.turn_num = s.turn_num
          /\ b.in_turn = s.in_turn
          /\ b.just_started_turn = s.just_started_turn
          /\ b.turn_degrees = s.turn_degrees
          /\ b.in_violation
          /\ b.turn_radians = 0
      BY DEF SameMission, Mission
    <2> QED
      BY <1>3, <1>5, <2>1, <2>2
  <1>6. CASE ~InKeepOut(par, s.turn_num, cur) /\ s.in_violation
    <2>1. r = e
      BY <1>6 DEF CheckViolation, count
    <2>2. /\ SameMission(e, s)
          /\ e.turn_num = s.turn_num
          /\ e.in_turn = s.in_turn
          /\ e.just_started_turn = s.just_started_turn
          /\ e.turn_degrees = s.turn_degrees
          /\ ~e.in_violation
          /\ e.turn_radians = s.turn_radians
      BY DEF SameMission, Mission
    <2> QED
      BY <1>4, <1>6, <2>1, <2>2
  <1>7. CASE ~InKeepOut(par, s.turn_num, cur) /\ ~s.in_violation
    BY <1>7 DEF CheckViolation, SameMission
  <1> QED
    BY <1>5, <1>6, <1>7

\* check_turn_end() ends the turn, or the accumulator is within the requirement.
LEMMA CheckTurnEndPost ==
    ASSUME NEW s \in Mission, s.turn_num \in PylonIndex,
           NEW r, r = CheckTurnEnd(s)
    PROVE  /\ r \in Mission
           /\ SameMission(r, s)
           /\ r.just_started_turn = s.just_started_turn
           /\ r.in_violation = s.in_violation
           /\ IF s.turn_radians < ReqTurn
              THEN /\ r.turn_num = s.turn_num + 1
                   /\ ~r.in_turn
                   /\ r.turn_radians = 0
                   /\ r.turn_degrees = 0
              ELSE r = s
  <1> DEFINE next == s.turn_num + 1
             a == [s EXCEPT !.in_turn = FALSE]
             b == [a EXCEPT !.turn_radians = 0]
             c == [b EXCEPT !.turn_degrees = 0]
             d == [c EXCEPT !.turn_num = next]
  <1>1. next \in -1..NumOfTurns
    BY DEF NumOfTurns, PylonIndex
  <1> HIDE DEF next
  <1>2. a \in Mission
    BY DEF Mission
  <1>0. 0 \in Int
    OBVIOUS
  <1>3. b \in Mission
    <2> HIDE DEF a
    <2> QED
      BY <1>0, <1>2, SetRadians
  <1>4. c \in Mission
    <2> HIDE DEF b
    <2> QED
      BY <1>0, <1>3, SetDegrees
  <1>5. d \in Mission
    <2> HIDE DEF c
    <2> QED
      BY <1>1, <1>4, SetTurnNum
  <1>6. CASE s.turn_radians < ReqTurn
    <2>1. r = d
      BY <1>6 DEF CheckTurnEnd, next
    <2>2. /\ SameMission(d, s)
          /\ d.just_started_turn = s.just_started_turn
          /\ d.in_violation = s.in_violation
          /\ d.turn_num = next
          /\ ~d.in_turn
          /\ d.turn_radians = 0
          /\ d.turn_degrees = 0
      BY DEF SameMission, Mission
    <2> QED
      BY <1>5, <1>6, <2>1, <2>2 DEF next
  <1>7. CASE ~(s.turn_radians < ReqTurn)
    BY <1>7 DEF CheckTurnEnd, SameMission
  <1> QED
    BY <1>6, <1>7

-----------------------------------------------------------------------------
(***************************************************************************)
(* The turn branch, the mission branches and the field bounds.             *)
(***************************************************************************)

LEMMA ReqTurnInt == ReqTurn \in Int /\ ReqTurn <= 0
  BY Deg60Assumption DEF ReqTurn

\* A turn that is flown keeps its bookkeeping, and advances the turn number
\* only outside the keep-out and not in the iteration that starts it.
LEMMA FlyTurnPost ==
    ASSUME NEW s \in Mission, s.turn_num \in PylonIndex, TurnOK(s),
           NEW par, NEW prev \in Positions, NEW cur \in Positions,
           NEW r, r = FlyTurn(s, par, prev, cur)
    PROVE  /\ r \in Mission
           /\ SameMission(r, s)
           /\ TurnOK(r)
           /\ \/ r.turn_num = s.turn_num
              \/ /\ r.turn_num = s.turn_num + 1
                 /\ ~InKeepOut(par, s.turn_num, cur)
                 /\ s.in_turn
  <1> DEFINE started == IF s.in_turn THEN s ELSE CheckTurnStart(s, prev, cur)
             summed == TurnAccumulate(started, prev, cur)
             judged == CheckViolation(summed, par, cur)
             ended == CheckTurnEnd(judged)
  <1>1. /\ started \in Mission
        /\ SameMission(started, s)
        /\ started.turn_num = s.turn_num
        /\ started = s \/ started.in_turn
        /\ ~s.in_turn /\ started.in_turn =>
             /\ started.just_started_turn
             /\ -AngularDifference(Bearing[cur][s.turn_num],
                                  Pylon[s.turn_num].angle) < 2 * Deg60
    BY CheckTurnStartPost DEF SameMission
  <1>2. r = IF started.in_turn THEN ended ELSE started
    BY DEF FlyTurn
  <1> HIDE DEF started
  <1>3. CASE ~started.in_turn
    BY <1>1, <1>2, <1>3
  <1>4. CASE started.in_turn
    <2>1. /\ summed \in Mission
          /\ SameMission(summed, started)
          /\ summed.turn_num = started.turn_num
          /\ summed.in_turn
          /\ ~summed.just_started_turn
          /\ summed.turn_radians <= 0
          /\ summed.turn_degrees = summed.turn_radians
          /\ started.just_started_turn =>
               \/ summed.turn_radians = 0
               \/ summed.turn_radians = AngularDifference(Bearing[cur][s.turn_num],
                                                         Pylon[s.turn_num].angle)
      BY <1>1, <1>4, TurnAccumulatePost
    <2> HIDE DEF summed
    <2>2. /\ judged \in Mission
          /\ SameMission(judged, summed)
          /\ judged.turn_num = summed.turn_num
          /\ judged.in_turn
          /\ ~judged.just_started_turn
          /\ judged.turn_degrees = summed.turn_degrees
          /\ IF InKeepOut(par, summed.turn_num, cur)
             THEN judged.in_violation /\ judged.turn_radians = 0
             ELSE /\ ~judged.in_violation
                  /\ judged.turn_radians = summed.turn_radians
      BY <2>1, CheckViolationPost
    <2> HIDE DEF judged
    <2>3. /\ ended \in Mission
          /\ SameMission(ended, judged)
          /\ ~ended.just_started_turn
          /\ ended.in_violation = judged.in_violation
          /\ IF judged.turn_radians < ReqTurn
             THEN /\ ended.turn_num = judged.turn_num + 1
                  /\ ~ended.in_turn
                  /\ ended.turn_radians = 0
                  /\ ended.turn_degrees = 0
             ELSE ended = judged
      BY <1>1, <2>1, <2>2, CheckTurnEndPost
    <2> HIDE DEF ended
    <2>4. r = ended
      BY <1>2, <1>4
    <2>5. SameMission(ended, s)
      BY <1>1, <2>1, <2>2, <2>3 DEF SameMission
    <2>6. summed.turn_radians \in Int
      BY <2>1 DEF Mission
    <2>7. CASE InKeepOut(par, s.turn_num, cur)
      <3>1. ended = judged
        BY <1>1, <2>1, <2>2, <2>3, <2>7, ReqTurnInt
      <3>2. TurnOK(ended)
        BY <1>1, <2>1, <2>2, <2>7, <3>1, ReqTurnInt DEF TurnOK
      <3> QED
        BY <1>1, <2>1, <2>2, <2>3, <2>4, <2>5, <3>1, <3>2
    <2>8. CASE ~InKeepOut(par, s.turn_num, cur)
      <3>1. TurnOK(ended)
        BY <1>1, <2>1, <2>2, <2>3, <2>6, <2>8, ReqTurnInt DEF TurnOK
      <3>2. ~s.in_turn => ~(judged.turn_radians < ReqTurn)
        <4> DEFINE arc == AngularDifference(Bearing[cur][s.turn_num],
                                            Pylon[s.turn_num].angle)
        <4>1. ~s.in_turn => /\ -arc < 2 * Deg60
                            /\ judged.turn_radians = 0 \/ judged.turn_radians = arc
          BY <1>1, <1>4, <2>1, <2>2, <2>8
        <4>2. arc \in Int
          <5>1. Bearing[cur][s.turn_num] \in Int /\ Pylon[s.turn_num].angle \in Int
            BY Deg60Assumption, CourseAssumption DEF Pi
          <5> QED
            BY <5>1, AngularDifferenceInt
        <4> HIDE DEF arc
        <4> QED
          BY <4>1, <4>2, Deg60Assumption DEF ReqTurn
      <3>3. /\ ended.turn_num = s.turn_num \/ ended.turn_num = s.turn_num + 1
            /\ ended.turn_num = s.turn_num + 1 => ended.turn_num = s.turn_num \/ s.in_turn
        BY <1>1, <2>1, <2>2, <2>3, <3>2
      <3> QED
        BY <1>1, <2>4, <2>5, <2>3, <2>8, <3>1, <3>3
    <2> QED
      BY <2>7, <2>8
  <1> QED
    BY <1>3, <1>4

\* The turn and clock members, which a failure and the field bounds leave alone.
SameTurn(r, s) ==
    /\ r.turn_num = s.turn_num
    /\ r.in_turn = s.in_turn
    /\ r.just_started_turn = s.just_started_turn
    /\ r.turn_radians = s.turn_radians
    /\ r.turn_degrees = s.turn_degrees
    /\ r.in_violation = s.in_violation

SameClock(r, s) ==
    /\ r.start_time = s.start_time
    /\ r.current_time = s.current_time
    /\ r.final_time = s.final_time

LEMMA FailPost ==
    ASSUME NEW s \in Mission, NEW par, NEW r, r = Fail(s, par)
    PROVE  /\ r \in Mission
           /\ SameTurn(r, s)
           /\ SameClock(r, s)
           /\ r.mission_failed
           /\ r.in_mission <=> s.in_mission /\ par.mis_fail # 1
  <1> DEFINE stays == s.in_mission /\ par.mis_fail # 1
             a == [s EXCEPT !.mission_failed = TRUE]
             b == [a EXCEPT !.in_mission = stays]
  <1>1. stays \in BOOLEAN
    OBVIOUS
  <1>2. r = b
    BY DEF Fail
  <1> HIDE DEF stays
  <1>3. a \in Mission
    BY DEF Mission
  <1>4. b \in Mission
    BY <1>1, <1>3 DEF Mission
  <1>5. /\ SameTurn(b, s)
        /\ SameClock(b, s)
        /\ b.mission_failed
        /\ b.in_mission = stays
    BY DEF SameTurn, SameClock, Mission
  <1> QED
    BY <1>2, <1>4, <1>5 DEF stays

LEMMA SetOutOfBounds ==
    ASSUME NEW s \in Mission, NEW b \in BOOLEAN,
           NEW r, r = [s EXCEPT !.out_of_bounds = b]
    PROVE  /\ r \in Mission
           /\ SameTurn(r, s)
           /\ SameClock(r, s)
           /\ r.mission_failed = s.mission_failed
           /\ r.in_mission = s.in_mission
  BY DEF Mission, SameTurn, SameClock

\* What check_field_bounds() tests in a mission.
OutOfField(par, pos) ==
    \/ OffLake(pos)
    \/ Alt(pos) > par.max_alt + 5
    \/ Alt(pos) < par.min_alt - 5

\* check_field_bounds() can only fail the mission, and fails every mission that
\* is out of the field.
LEMMA CheckFieldBoundsPost ==
    ASSUME NEW s \in Mission, NEW par, NEW cur,
           NEW r, r = CheckFieldBounds(s, par, cur)
    PROVE  /\ r \in Mission
           /\ SameTurn(r, s)
           /\ SameClock(r, s)
           /\ s.mission_failed => r.mission_failed
           /\ r.in_mission => s.in_mission
           /\ s.in_mission /\ ~r.in_mission => r.mission_failed
           /\ r.in_mission /\ OutOfField(par, cur)
                => r.mission_failed /\ par.mis_fail # 1
  <1> DEFINE offLake == OffLake(cur) /\ (s.in_mission \/ cur.D < -40)
             lake == IF offLake THEN [Fail(s, par) EXCEPT !.out_of_bounds = TRUE]
                                ELSE [s EXCEPT !.out_of_bounds = FALSE]
             high == \/ Alt(cur) > par.max_alt + 5
                     \/ Alt(cur) < par.min_alt - 5
             window == [Fail(lake, par) EXCEPT !.out_of_bounds = TRUE]
  <1>1. r = IF lake.in_mission /\ high THEN window ELSE lake
    BY DEF CheckFieldBounds
  <1>2. /\ lake \in Mission
        /\ SameTurn(lake, s)
        /\ SameClock(lake, s)
        /\ s.mission_failed => lake.mission_failed
        /\ lake.in_mission => s.in_mission
        /\ s.in_mission /\ ~lake.in_mission => lake.mission_failed
        /\ lake.in_mission /\ OffLake(cur)
             => lake.mission_failed /\ par.mis_fail # 1
    <2>1. CASE offLake
      <3> DEFINE f == Fail(s, par)
      <3>1. /\ f \in Mission
            /\ SameTurn(f, s)
            /\ SameClock(f, s)
            /\ f.mission_failed
            /\ f.in_mission <=> s.in_mission /\ par.mis_fail # 1
        BY FailPost
      <3>2. lake = [f EXCEPT !.out_of_bounds = TRUE]
        BY <2>1
      <3> HIDE DEF f, lake, offLake
      <3>3. /\ lake \in Mission
            /\ SameTurn(lake, f)
            /\ SameClock(lake, f)
            /\ lake.mission_failed = f.mission_failed
            /\ lake.in_mission = f.in_mission
        BY <3>1, <3>2, SetOutOfBounds
      <3> QED
        BY <3>1, <3>3 DEF SameTurn, SameClock
    <2>2. CASE ~offLake
      <3>1. lake = [s EXCEPT !.out_of_bounds = FALSE]
        BY <2>2
      <3>2. s.in_mission => ~OffLake(cur)
        BY <2>2
      <3> HIDE DEF lake, offLake
      <3>3. /\ lake \in Mission
            /\ SameTurn(lake, s)
            /\ SameClock(lake, s)
            /\ lake.mission_failed = s.mission_failed
            /\ lake.in_mission = s.in_mission
        BY <3>1, SetOutOfBounds
      <3> QED
        BY <3>2, <3>3
    <2> QED
      BY <2>1, <2>2
  <1> HIDE DEF lake
  <1>3. CASE lake.in_mission /\ high
    <2> DEFINE f == Fail(lake, par)
    <2>1. /\ f \in Mission
          /\ SameTurn(f, lake)
          /\ SameClock(f, lake)
          /\ f.mission_failed
          /\ f.in_mission <=> lake.in_mission /\ par.mis_fail # 1
      BY <1>2, FailPost
    <2>2. r = [f EXCEPT !.out_of_bounds = TRUE]
      BY <1>1, <1>3
    <2> HIDE DEF f
    <2>3. /\ r \in Mission
          /\ SameTurn(r, f)
          /\ SameClock(r, f)
          /\ r.mission_failed = f.mission_failed
          /\ r.in_mission = f.in_mission
      BY <2>1, <2>2, SetOutOfBounds
    <2> QED
      BY <1>2, <2>1, <2>3 DEF SameTurn, SameClock
  <1>4. CASE ~(lake.in_mission /\ high)
    <2>1. r = lake
      BY <1>1, <1>4
    <2> QED
      BY <1>2, <1>4, <2>1 DEF OutOfField
  <1> QED
    BY <1>3, <1>4

-----------------------------------------------------------------------------
(***************************************************************************)
(* One iteration.                                                          *)
(***************************************************************************)

\* RaceClock without its last conjunct, of any members, with the start time
\* bounded in every state so that a forced start can keep it.
ClockOK(s, t) ==
    /\ s.start_time \in 0..t
    /\ s.in_mission => s.start_time # 0
    /\ s.in_mission => s.current_time \in 0..(t - s.start_time)

LEMMA SetCurrentTime ==
    ASSUME NEW s \in Mission, NEW n \in Int,
           NEW r, r = [s EXCEPT !.current_time = n]
    PROVE  /\ r \in Mission
           /\ SameTurn(r, s)
           /\ r.start_time = s.start_time
           /\ r.final_time = s.final_time
           /\ r.current_time = n
           /\ r.mission_failed = s.mission_failed
           /\ r.in_mission = s.in_mission
  BY DEF Mission, SameTurn

\* An idle race has no turn number; unless forced, a race never has turn -1.
IdleOK(r) == ~r.in_mission => r.turn_num = -1

IndexOK(s, par, r) ==
    par.force_start # 1 /\ (s.in_mission => s.turn_num >= 0)
        => (r.in_mission => r.turn_num >= 0)

\* What AutoMode() may do to the race: nothing, begin it, fly on, finish it.
AutoStep(s, r, t) ==
    \/ /\ ~s.in_mission /\ ~r.in_mission
       /\ r.start_time = s.start_time /\ r.final_time = s.final_time
    \/ /\ ~s.in_mission /\ r.in_mission
       /\ r.turn_num \in -1..1
       /\ r.turn_num = 1 => s.in_turn
       /\ r.start_time \in {s.start_time, t} /\ r.final_time = s.final_time
    \/ /\ s.in_mission /\ r.in_mission
       /\ \/ r.turn_num = s.turn_num
          \/ /\ s.turn_num < NumOfTurns /\ s.in_turn
             /\ r.turn_num = s.turn_num + 1
       /\ r.start_time = s.start_time /\ r.final_time = s.final_time
    \/ /\ s.in_mission /\ ~r.in_mission
       /\ s.turn_num = NumOfTurns
       /\ r.start_time = s.start_time /\ r.final_time = t - s.start_time

\* The members with which task_main() enters its mission branches: what it
\* does after a forced or checked start, before flying.
LEMMA ForceStartPost ==
    ASSUME NEW s \in Mission, NEW par, NEW t \in Nat,
           NEW r, r = ForceStart(s, par, t)
    PROVE  /\ r \in Mission
           /\ SameTurn(r, s)
           /\ r.final_time = s.final_time
           /\ r.mission_failed = s.mission_failed
           /\ \/ r = s
              \/ /\ par.force_start = 1
                 /\ r.in_mission
                 /\ r.current_time = s.current_time
                 /\ r.start_time = IF s.start_time = 0 THEN t ELSE s.start_time
  <1> DEFINE start == IF s.start_time = 0 THEN t ELSE s.start_time
             a == [s EXCEPT !.in_mission = TRUE]
             b == [a EXCEPT !.start_time = start]
  <1>1. start \in Nat
    BY DEF Mission
  <1>2. r = IF par.force_start = 1 THEN b ELSE s
    BY DEF ForceStart
  <1> HIDE DEF start
  <1>3. a \in Mission
    BY DEF Mission
  <1>4. b \in Mission
    BY <1>1, <1>3 DEF Mission
  <1>5. /\ SameTurn(b, s)
        /\ b.final_time = s.final_time
        /\ b.mission_failed = s.mission_failed
        /\ b.in_mission
        /\ b.current_time = s.current_time
        /\ b.start_time = start
    BY DEF SameTurn, Mission
  <1>6. SameTurn(s, s)
    BY DEF SameTurn
  <1> QED
    BY <1>2, <1>4, <1>5, <1>6 DEF start

\* The automatic branch keeps the turn and the clock consistent, leaves no turn
\* number behind without a mission, and takes one of the steps above.
LEMMA AutoModePost ==
    ASSUME NEW s \in Mission, TurnOK(s), NEW t \in Nat \ {0}, ClockOK(s, t),
           ~s.in_mission => s.turn_num = -1,
           NEW par, NEW prev \in Positions, NEW cur \in Positions,
           NEW r, r = AutoMode(s, par, prev, cur, t)
    PROVE  /\ r \in Mission
           /\ TurnOK(r)
           /\ ClockOK(r, t)
           /\ IdleOK(r)
           /\ r.mission_failed = s.mission_failed
           /\ AutoStep(s, r, t)
           /\ s.in_mission /\ r.turn_num = s.turn_num + 1 /\ r.in_mission
                => ~InKeepOut(par, s.turn_num, cur)
           /\ IndexOK(s, par, r)
  <1> DEFINE forced == ForceStart(s, par, t)
             begun == IF forced.in_mission THEN forced
                      ELSE CheckStart(forced, par, prev, cur, t)
             timed == [begun EXCEPT !.current_time = t - begun.start_time]
  <1>1. r = IF ~begun.in_mission THEN begun
            ELSE IF begun.turn_num < NumOfTurns
                 THEN FlyTurn(timed, par, prev, cur)
                 ELSE CheckFinished(timed, par, prev, cur)
    BY DEF AutoMode
  <1>2. /\ begun \in Mission
        /\ TurnOK(begun)
        /\ begun.start_time \in 0..t
        /\ begun.in_mission => begun.start_time # 0
        /\ begun.mission_failed = s.mission_failed
        /\ begun.final_time = s.final_time
        /\ begun.in_turn = s.in_turn
        /\ s.in_mission => /\ begun.in_mission
                           /\ begun.start_time = s.start_time
                           /\ begun.turn_num = s.turn_num
        /\ ~begun.in_mission => /\ begun.start_time = s.start_time
                                /\ begun.turn_num = -1
        /\ ~s.in_mission => /\ begun.start_time \in {s.start_time, t}
                            /\ begun.turn_num \in {-1, 0}
        /\ (par.force_start # 1 /\ ~s.in_mission /\ begun.in_mission)
             => begun.turn_num = 0
    <2>1. /\ forced \in Mission
          /\ SameTurn(forced, s)
          /\ forced.final_time = s.final_time
          /\ forced.mission_failed = s.mission_failed
          /\ \/ forced = s
             \/ /\ par.force_start = 1
                /\ forced.in_mission
                /\ forced.start_time = IF s.start_time = 0 THEN t
                                                           ELSE s.start_time
      BY ForceStartPost
    <2> HIDE DEF forced
    <2>2. TurnOK(forced)
      BY <2>1 DEF TurnOK, SameTurn
    <2>3. forced.start_time \in 0..t
      BY <2>1 DEF ClockOK
    <2>4. CASE forced.in_mission
      BY <2>1, <2>2, <2>3, <2>4 DEF SameTurn, ClockOK
    <2>5. CASE ~forced.in_mission
      <3>1. forced = s
        BY <2>1, <2>5
      <3>2. begun = CheckStart(forced, par, prev, cur, t)
        BY <2>5
      <3> HIDE DEF begun
      <3>3. /\ begun \in Mission
            /\ \/ begun = forced
               \/ /\ begun.in_mission
                  /\ begun.turn_num = 0
                  /\ begun.start_time = t
            /\ begun.final_time = forced.final_time
            /\ begun.mission_failed = forced.mission_failed
            /\ begun.in_turn = forced.in_turn
            /\ TurnOK(begun)
        BY <2>1, <2>2, <3>2, CheckStartPost
      <3>4. CASE begun = forced
        <4>1. begun = s /\ ~s.in_mission /\ s.turn_num = -1
          BY <2>5, <3>1, <3>4
        <4>2. s.start_time \in 0..t
          BY DEF ClockOK
        <4> QED
          BY <4>1, <4>2
      <3>5. CASE begun # forced
        BY <2>1, <2>5, <3>1, <3>3, <3>5
      <3> QED
        BY <3>4, <3>5
    <2> QED
      BY <2>4, <2>5
  <1> HIDE DEF forced, begun
  <1>3. CASE ~begun.in_mission
    <2>1. r = begun /\ ~s.in_mission
      BY <1>1, <1>2, <1>3
    <2> QED
      BY <1>2, <1>3, <2>1 DEF ClockOK, AutoStep, IdleOK, IndexOK
  <1>4. CASE begun.in_mission
    <2> DEFINE elapsed == t - begun.start_time
    <2>1. elapsed \in Int /\ elapsed \in 0..(t - begun.start_time)
      BY <1>2
    <2>2. /\ timed \in Mission
          /\ SameTurn(timed, begun)
          /\ timed.start_time = begun.start_time
          /\ timed.final_time = begun.final_time
          /\ timed.current_time = elapsed
          /\ timed.mission_failed = begun.mission_failed
          /\ timed.in_mission
      <3> HIDE DEF elapsed
      <3>1. timed = [begun EXCEPT !.current_time = elapsed]
        BY DEF elapsed
      <3> QED
        BY <1>2, <1>4, <2>1, <3>1, SetCurrentTime
    <2>3. TurnOK(timed)
      BY <1>2, <2>2 DEF TurnOK, SameTurn
    <2> HIDE DEF timed, elapsed
    <2>4. begun.turn_num \in -1..NumOfTurns
      BY <1>2 DEF Mission
    <2>5. CASE begun.turn_num < NumOfTurns
      <3>1. timed.turn_num \in PylonIndex
        BY <2>2, <2>4, <2>5 DEF SameTurn, PylonIndex, NumOfTurns
      <3>2. r = FlyTurn(timed, par, prev, cur)
        BY <1>1, <1>4, <2>5
      <3>3. /\ r \in Mission
            /\ SameMission(r, timed)
            /\ TurnOK(r)
            /\ \/ r.turn_num = timed.turn_num
               \/ /\ r.turn_num = timed.turn_num + 1
                  /\ ~InKeepOut(par, timed.turn_num, cur)
                  /\ timed.in_turn
        BY <2>2, <2>3, <3>1, <3>2, FlyTurnPost
      <3>4. /\ r.in_mission
            /\ r.start_time = begun.start_time
            /\ r.current_time = elapsed
            /\ r.final_time = begun.final_time
            /\ r.mission_failed = begun.mission_failed
            /\ \/ r.turn_num = begun.turn_num
               \/ /\ r.turn_num = begun.turn_num + 1
                  /\ ~InKeepOut(par, begun.turn_num, cur)
                  /\ begun.in_turn
        BY <2>2, <3>3 DEF SameMission, SameTurn
      <3>5. ClockOK(r, t)
        BY <1>2, <1>4, <2>1, <3>4 DEF ClockOK
      <3>6. AutoStep(s, r, t)
        BY <1>2, <1>4, <2>4, <2>5, <3>4 DEF AutoStep
      <3>7. s.in_mission /\ r.turn_num = s.turn_num + 1
              => ~InKeepOut(par, s.turn_num, cur)
        BY <1>2, <2>4, <3>4
      <3>8. (par.force_start # 1 /\ (s.in_mission => s.turn_num >= 0))
              => r.turn_num >= 0
        BY <1>2, <1>4, <2>4, <3>4
      <3> QED
        BY <1>2, <3>3, <3>4, <3>5, <3>6, <3>7, <3>8 DEF IdleOK, IndexOK
    <2>6. CASE ~(begun.turn_num < NumOfTurns)
      <3>1. begun.turn_num = NumOfTurns /\ s.in_mission
        BY <1>2, <2>4, <2>6 DEF NumOfTurns
      <3>2. r = CheckFinished(timed, par, prev, cur)
        BY <1>1, <1>4, <2>6
      <3>3. /\ r \in Mission
            /\ \/ r = timed
               \/ /\ ~r.in_mission
                  /\ r.turn_num = -1
                  /\ r.final_time = timed.current_time
            /\ r.start_time = timed.start_time
            /\ r.mission_failed = timed.mission_failed
            /\ TurnOK(r)
        BY <2>2, <2>3, <3>2, CheckFinishedPost
      <3>4. CASE r = timed
        <4>1. ClockOK(r, t)
          BY <1>2, <1>4, <2>1, <2>2, <3>4 DEF ClockOK
        <4>2. AutoStep(s, r, t)
          BY <1>2, <2>2, <3>1, <3>4 DEF AutoStep, SameTurn
        <4>3. r.turn_num = s.turn_num /\ s.turn_num = NumOfTurns
          BY <1>2, <2>2, <3>1, <3>4 DEF SameTurn
        <4>4. r.in_mission /\ r.mission_failed = s.mission_failed
          BY <1>2, <2>2, <3>4
        <4> QED
          BY <2>3, <3>3, <3>4, <4>1, <4>2, <4>3, <4>4 DEF NumOfTurns, IdleOK, IndexOK
      <3>5. CASE r # timed
        <4>1. ClockOK(r, t)
          BY <1>2, <2>2, <3>3, <3>5 DEF ClockOK
        <4>2. AutoStep(s, r, t)
          BY <1>2, <2>2, <3>1, <3>3, <3>5 DEF AutoStep, elapsed
        <4> QED
          BY <1>2, <2>2, <3>3, <3>5, <4>1, <4>2 DEF IdleOK, IndexOK
      <3> QED
        BY <3>4, <3>5
    <2> QED
      BY <2>5, <2>6
  <1> QED
    BY <1>3, <1>4

\* What an iteration may do to the race: leave it idle, begin it, fly it, drop
\* it, finish it, or reset it.
RaceStep(s, r, t) ==
    \/ /\ ~s.in_mission /\ ~r.in_mission
       /\ r.start_time \in {s.start_time, t} /\ r.final_time = s.final_time
       /\ s.mission_failed => r.mission_failed
       /\ r.start_time # s.start_time => r.mission_failed
    \/ /\ ~s.in_mission /\ r.in_mission
       /\ r.turn_num \in -1..1
       /\ r.turn_num = 1 => s.in_turn
       /\ r.start_time \in {s.start_time, t} /\ r.final_time = s.final_time
       /\ s.mission_failed => r.mission_failed
    \/ /\ s.in_mission /\ r.in_mission
       /\ \/ r.turn_num = s.turn_num
          \/ /\ s.turn_num < NumOfTurns /\ s.in_turn
             /\ r.turn_num = s.turn_num + 1
       /\ r.start_time = s.start_time /\ r.final_time = s.final_time
       /\ s.mission_failed => r.mission_failed
    \/ /\ s.in_mission /\ ~r.in_mission
       /\ r.mission_failed
       /\ r.start_time = s.start_time /\ r.final_time = s.final_time
    \/ /\ s.in_mission /\ ~r.in_mission
       /\ s.turn_num = NumOfTurns
       /\ r.start_time = s.start_time /\ r.final_time = t - s.start_time
       /\ s.mission_failed => r.mission_failed
    \/ /\ ~r.in_mission
       /\ r.start_time = 0 /\ r.final_time = 0

LEMMA ResetMissionOK ==
    ASSUME NEW t \in Nat
    PROVE  /\ TurnOK(ResetMission)
           /\ ClockOK(ResetMission, t)
           /\ ~ResetMission.in_mission
           /\ ResetMission.turn_num = -1
           /\ ResetMission.start_time = 0
           /\ ResetMission.final_time = 0
  BY ReqTurnInt DEF ResetMission, TurnOK, ClockOK

LEMMA DroppedPost ==
    ASSUME NEW s \in Mission, NEW t,
           NEW r, r = IF s.in_mission THEN s ELSE [s EXCEPT !.turn_num = -1]
    PROVE  /\ r \in Mission
           /\ TurnOK(s) => TurnOK(r)
           /\ ClockOK(s, t) => ClockOK(r, t)
           /\ ~r.in_mission => r.turn_num = -1
           /\ s.in_mission => r = s
           /\ r.in_mission = s.in_mission
           /\ r.in_turn = s.in_turn
           /\ r.mission_failed = s.mission_failed
           /\ SameClock(r, s)
  <1> DEFINE a == [s EXCEPT !.turn_num = -1]
  <1>1. -1 \in -1..NumOfTurns
    BY DEF NumOfTurns
  <1>2. a \in Mission
    BY <1>1, SetTurnNum
  <1>3. /\ TurnOK(s) => TurnOK(a)
        /\ ClockOK(s, t) => ClockOK(a, t)
        /\ a.turn_num = -1
        /\ a.in_mission = s.in_mission
        /\ a.in_turn = s.in_turn
        /\ a.mission_failed = s.mission_failed
        /\ SameClock(a, s)
    BY DEF Mission, TurnOK, ClockOK, SameClock
  <1>4. SameClock(s, s)
    BY DEF SameClock
  <1> HIDE DEF a
  <1>5. r = IF s.in_mission THEN s ELSE a
    BY DEF a
  <1> QED
    BY <1>2, <1>3, <1>4, <1>5

\* The parts of the properties that one iteration establishes: a turn number
\* that outlives its mission is a failed one's, a race out of the field is
\* marked as failed, a turn does not end in the keep-out of its pylon.
FailedIfStale(s) == ~s.in_mission /\ s.turn_num # -1 => s.mission_failed

CleanIn(s, par, isAuto, cur) ==
    s.in_mission /\ (~isAuto \/ OutOfField(par, cur))
        => s.mission_failed /\ par.mis_fail # 1

OutsideOnTurn(s, par, cur, r) ==
    s.in_mission /\ r.turn_num = s.turn_num + 1
        => ~InKeepOut(par, s.turn_num, cur)

\* One iteration of the loop of task_main().
LEMMA IterationPost ==
    ASSUME NEW s \in Mission, TurnOK(s), NEW t \in Nat \ {0}, ClockOK(s, t),
           NEW par, NEW isAuto \in BOOLEAN,
           NEW prev \in Positions, NEW cur \in Positions,
           NEW r, r = Iteration(s, par, isAuto, prev, cur, t)
    PROVE  /\ r \in Mission
           /\ TurnOK(r)
           /\ ClockOK(r, t)
           /\ FailedIfStale(r)
           /\ CleanIn(r, par, isAuto, cur)
           /\ OutsideOnTurn(s, par, cur, r)
           /\ IndexOK(s, par, r)
           /\ RaceStep(s, r, t)
  <1> DEFINE dropped == IF s.in_mission THEN s ELSE [s EXCEPT !.turn_num = -1]
             reset == IF par.mission_restart # 0 THEN ResetMission ELSE dropped
             moded == IF isAuto /\ par.mission_restart = 0
                      THEN AutoMode(reset, par, prev, cur, t)
                      ELSE ManualMode(reset, par)
  <1>1. r = CheckFieldBounds(moded, par, cur)
    BY DEF Iteration
  <1>2. /\ dropped \in Mission
        /\ TurnOK(dropped)
        /\ ClockOK(dropped, t)
        /\ ~dropped.in_mission => dropped.turn_num = -1
        /\ s.in_mission => dropped = s
        /\ dropped.in_mission = s.in_mission
        /\ dropped.in_turn = s.in_turn
        /\ dropped.mission_failed = s.mission_failed
        /\ SameClock(dropped, s)
    BY DroppedPost
  <1> HIDE DEF dropped
  \* With the mission restarted, the members are those of reset_mission().
  <1>3. CASE par.mission_restart # 0
    <2>1. moded = ResetMission
      BY <1>3, ResetMissionOK DEF ManualMode
    <2>2. /\ moded \in Mission
          /\ TurnOK(moded)
          /\ ClockOK(moded, t)
          /\ ~moded.in_mission
          /\ moded.turn_num = -1
          /\ moded.start_time = 0
          /\ moded.final_time = 0
      BY <2>1, ResetMissionPost, ResetMissionOK
    <2> HIDE DEF moded
    <2>3. /\ r \in Mission
          /\ SameTurn(r, moded)
          /\ SameClock(r, moded)
          /\ ~r.in_mission
      BY <1>1, <2>2, CheckFieldBoundsPost
    <2>4. TurnOK(r) /\ ClockOK(r, t)
      BY <2>2, <2>3 DEF SameTurn, SameClock, TurnOK, ClockOK
    <2>5. r.turn_num = -1 /\ r.start_time = 0 /\ r.final_time = 0
      BY <2>2, <2>3 DEF SameTurn, SameClock
    <2>6. s.turn_num \in Int /\ s.turn_num >= -1
      BY DEF Mission
    <2> QED
      BY <2>3, <2>4, <2>5, <2>6
         DEF RaceStep, FailedIfStale, CleanIn, OutsideOnTurn, IndexOK
  <1>4. CASE par.mission_restart = 0
    <2>1. reset = dropped
      BY <1>4
    \* The bounds turn a step of the mission branches into one of the race.
    <2>2. ASSUME /\ moded \in Mission
                 /\ TurnOK(moded)
                 /\ ClockOK(moded, t)
                 /\ FailedIfStale(moded)
                 /\ moded.in_mission /\ ~isAuto
                      => moded.mission_failed /\ par.mis_fail # 1
                 /\ OutsideOnTurn(s, par, cur, moded)
                 /\ IndexOK(s, par, moded)
                 /\ RaceStep(s, moded, t)
          PROVE  /\ r \in Mission
                 /\ TurnOK(r)
                 /\ ClockOK(r, t)
                 /\ FailedIfStale(r)
                 /\ CleanIn(r, par, isAuto, cur)
                 /\ OutsideOnTurn(s, par, cur, r)
                 /\ IndexOK(s, par, r)
                 /\ RaceStep(s, r, t)
      <3> HIDE DEF moded
      <3>1. /\ r \in Mission
            /\ SameTurn(r, moded)
            /\ SameClock(r, moded)
            /\ moded.mission_failed => r.mission_failed
            /\ r.in_mission => moded.in_mission
            /\ moded.in_mission /\ ~r.in_mission => r.mission_failed
            /\ r.in_mission /\ OutOfField(par, cur)
                 => r.mission_failed /\ par.mis_fail # 1
        BY <1>1, <2>2, CheckFieldBoundsPost
      <3>2. TurnOK(r)
        BY <2>2, <3>1 DEF TurnOK, SameTurn
      <3>3. ClockOK(r, t)
        BY <2>2, <3>1 DEF ClockOK, SameClock
      <3>4. RaceStep(s, r, t)
        <4>1. /\ r.start_time = moded.start_time
              /\ r.final_time = moded.final_time
              /\ r.turn_num = moded.turn_num
          BY <3>1 DEF SameTurn, SameClock
        <4> QED
          BY <2>2, <3>1, <4>1 DEF RaceStep
      <3>5. r.turn_num = moded.turn_num
        BY <3>1 DEF SameTurn
      <3> QED
        BY <2>2, <3>1, <3>2, <3>3, <3>4, <3>5
           DEF FailedIfStale, CleanIn, OutsideOnTurn, IndexOK
    <2>3. CASE isAuto
      <3>1. moded = AutoMode(dropped, par, prev, cur, t)
        BY <1>4, <2>1, <2>3
      <3>2. /\ moded \in Mission
            /\ TurnOK(moded)
            /\ ClockOK(moded, t)
            /\ IdleOK(moded)
            /\ moded.mission_failed = dropped.mission_failed
            /\ AutoStep(dropped, moded, t)
            /\ (dropped.in_mission /\ moded.turn_num = dropped.turn_num + 1
                /\ moded.in_mission)
                 => ~InKeepOut(par, dropped.turn_num, cur)
            /\ IndexOK(dropped, par, moded)
        <4> HIDE DEF moded
        <4> QED
          BY <1>2, <3>1, AutoModePost
      <3> HIDE DEF moded
      <3>3. s.turn_num \in Int /\ s.turn_num >= -1
        BY DEF Mission
      <3>4. RaceStep(s, moded, t)
        <4>1. /\ dropped.start_time = s.start_time
              /\ dropped.final_time = s.final_time
          BY <1>2 DEF SameClock
        <4> QED
          BY <1>2, <3>2, <4>1 DEF AutoStep, RaceStep
      <3>5. s.in_mission /\ moded.turn_num = s.turn_num + 1
              => ~InKeepOut(par, s.turn_num, cur)
        BY <1>2, <3>2, <3>3 DEF IdleOK
      <3>6. IndexOK(s, par, moded)
        <4>1. s.in_mission => dropped = s
          BY <1>2
        <4>2. dropped.in_mission <=> s.in_mission
          BY <1>2
        <4> QED
          BY <3>2, <4>1, <4>2 DEF IndexOK
      <3>7. FailedIfStale(moded) /\ OutsideOnTurn(s, par, cur, moded)
        BY <3>2, <3>5 DEF IdleOK, FailedIfStale, OutsideOnTurn
      <3> QED
        BY <2>2, <2>3, <3>2, <3>4, <3>6, <3>7
    <2>4. CASE ~isAuto
      <3>1. moded = IF dropped.in_mission THEN Fail(dropped, par) ELSE dropped
        BY <2>1, <2>4 DEF ManualMode
      <3> HIDE DEF moded
      <3>2. CASE dropped.in_mission
        <4>1. /\ moded \in Mission
              /\ SameTurn(moded, dropped)
              /\ SameClock(moded, dropped)
              /\ moded.mission_failed
              /\ moded.in_mission <=> dropped.in_mission /\ par.mis_fail # 1
          BY <1>2, <3>1, <3>2, FailPost
        <4>2. TurnOK(moded) /\ ClockOK(moded, t)
          BY <1>2, <3>2, <4>1 DEF TurnOK, ClockOK, SameTurn, SameClock
        <4>3. RaceStep(s, moded, t)
          BY <1>2, <3>2, <4>1 DEF RaceStep, SameTurn, SameClock
        <4>4. s.turn_num \in Int /\ moded.turn_num = s.turn_num
          BY <1>2, <3>2, <4>1 DEF SameTurn, Mission
        <4> QED
          BY <1>2, <2>2, <2>4, <3>2, <4>1, <4>2, <4>3, <4>4
             DEF FailedIfStale, OutsideOnTurn, IndexOK
      <3>3. CASE ~dropped.in_mission
        <4>1. moded = dropped
          BY <3>1, <3>3
        <4>2. RaceStep(s, moded, t)
          BY <1>2, <3>3, <4>1 DEF RaceStep, SameClock
        <4> QED
          BY <1>2, <2>2, <3>3, <4>1, <4>2
             DEF FailedIfStale, OutsideOnTurn, IndexOK
      <3> QED
        BY <3>2, <3>3
    <2> QED
      BY <2>3, <2>4
  <1>5. par.mission_restart # 0 \/ par.mission_restart = 0
    OBVIOUS
  <1> QED
    BY <1>3, <1>4, <1>5

-----------------------------------------------------------------------------
(***************************************************************************)
(* The inductive invariant.  Of the race clock it says more than RaceClock *)
(* (the start time is in the past of an idle race too, which a forced start *)
(* resumes), of the rest what the properties say.                          *)
(***************************************************************************)
IInv ==
    /\ TypeOK
    /\ TurnOK(m)
    /\ ClockOK(m, now)
    /\ FailedIfStale(m)
    /\ CleanIn(m, parameters, auto, cur_pos)

\* What one wake-up leaves behind, from the inductive invariant.
WakeResult ==
    /\ m' \in Mission
    /\ TurnOK(m')
    /\ ClockOK(m', now)
    /\ FailedIfStale(m')
    /\ CleanIn(m', parameters', auto', cur_pos')
    /\ OutsideOnTurn(m, parameters', cur_pos', m')
    /\ IndexOK(m, parameters', m')
    /\ RaceStep(m, m', now)

LEMMA WakePost ==
    ASSUME IInv, NEW par \in ParamSets,
           NEW prev \in Positions, NEW cur \in Positions, Wake(par, prev, cur)
    PROVE  WakeResult /\ TypeOK'
  <1>1. /\ m \in Mission /\ TurnOK(m)
        /\ now \in Nat \ {0} /\ ClockOK(m, now)
    BY BoundAssumption DEF IInv, TypeOK
  <1>2. /\ parameters' = par /\ prev_pos' = prev /\ cur_pos' = cur
        /\ auto' \in BOOLEAN /\ now' = now
        /\ m' = Iteration(m, par, auto', prev, cur, now)
    BY DEF Wake
  <1> DEFINE a == auto'
             r == m'
  <1>3. a \in BOOLEAN /\ r = Iteration(m, par, a, prev, cur, now)
    BY <1>2
  <1> HIDE DEF a, r
  <1>4. /\ r \in Mission
        /\ TurnOK(r)
        /\ ClockOK(r, now)
        /\ FailedIfStale(r)
        /\ CleanIn(r, par, a, cur)
        /\ OutsideOnTurn(m, par, cur, r)
        /\ IndexOK(m, par, r)
        /\ RaceStep(m, r, now)
    BY <1>1, <1>3, IterationPost
  <1>5. WakeResult
    BY <1>2, <1>4 DEF WakeResult, a, r
  <1>6. TypeOK'
    BY <1>1, <1>2, <1>5 DEF TypeOK, WakeResult, IInv
  <1> QED
    BY <1>5, <1>6

\* Each of the three wake-ups is Wake() for some of the values it may read.
LEMMA AnyWake ==
    ASSUME IInv, ParamWake \/ DataWake \/ ParamAndDataWake
    PROVE  \E par \in ParamSets, prev \in Positions, cur \in Positions :
             Wake(par, prev, cur)
  BY DEF ParamWake, DataWake, ParamAndDataWake, IInv, TypeOK

LEMMA WakeStep ==
    ASSUME IInv, ParamWake \/ DataWake \/ ParamAndDataWake
    PROVE  WakeResult /\ TypeOK' /\ now' = now
  <1>1. PICK par \in ParamSets, prev \in Positions, cur \in Positions :
          Wake(par, prev, cur)
    BY AnyWake
  <1>2. WakeResult /\ TypeOK'
    BY <1>1, WakePost
  <1>3. now' = now
    BY <1>1 DEF Wake
  <1> QED
    BY <1>2, <1>3

LEMMA InitIInv == Init => IInv
  <1> SUFFICES ASSUME Init PROVE IInv
    OBVIOUS
  <1>1. m = ResetMission /\ now = 1
    BY DEF Init
  <1>2. now \in 1..MaxTime /\ now \in Nat
    BY <1>1, BoundAssumption
  <1>3. TypeOK
    BY <1>1, <1>2, ResetMissionPost, CourseAssumption DEF Init, TypeOK
  <1>4. /\ TurnOK(m) /\ ClockOK(m, now)
        /\ ~m.in_mission /\ m.turn_num = -1
    BY <1>1, <1>2, ResetMissionOK
  <1> QED
    BY <1>3, <1>4 DEF IInv, FailedIfStale, CleanIn

\* Time may pass: the clock of the race only bounds what has passed.
LEMMA TickIInv == IInv /\ Tick => IInv'
  <1> SUFFICES ASSUME IInv, Tick PROVE IInv'
    OBVIOUS
  <1>1. /\ m' = m /\ parameters' = parameters /\ auto' = auto
        /\ prev_pos' = prev_pos /\ cur_pos' = cur_pos
        /\ now' = now + 1 /\ now < MaxTime /\ now \in 1..MaxTime
    BY DEF Tick, IInv, TypeOK
  <1>2. TypeOK'
    BY <1>1, BoundAssumption DEF IInv, TypeOK
  <1>3. ClockOK(m, now) => ClockOK(m, now + 1)
    BY <1>1, BoundAssumption DEF ClockOK
  <1>4. TurnOK(m') /\ FailedIfStale(m')
        /\ CleanIn(m', parameters', auto', cur_pos') /\ ClockOK(m', now')
    BY <1>1, <1>3 DEF IInv
  <1> QED
    BY <1>2, <1>4 DEF IInv

LEMMA NextIInv == IInv /\ [Next]_vars => IInv'
  <1> SUFFICES ASSUME IInv, [Next]_vars PROVE IInv'
    OBVIOUS
  <1>1. CASE ParamWake \/ DataWake \/ ParamAndDataWake
    BY <1>1, WakeStep DEF IInv, WakeResult
  <1>2. CASE Tick
    BY <1>2, TickIInv
  <1>3. CASE UNCHANGED vars
    BY <1>3 DEF vars, IInv, TypeOK
  <1> QED
    BY <1>1, <1>2, <1>3 DEF Next

\* The inductive invariant holds in every state the task reaches.
THEOREM Invariance == Spec => []IInv
  BY InitIInv, NextIInv, PTL DEF Spec

\* The members keep their types: no wrap, index or time leaves its range, for
\* every course, every set of parameters and every order of the wake-ups.
THEOREM TypeCorrect == Spec => []TypeOK
  <1>1. IInv => TypeOK
    BY DEF IInv
  <1> QED
    BY <1>1, Invariance, PTL

\* Between two iterations the accumulator holds the open turn and nothing
\* else, whatever the course.
THEOREM TurnIsBookkept == Spec => []TurnBookkeeping
  <1>1. IInv => TurnBookkeeping
    BY DEF IInv, TurnOK, TurnBookkeeping
  <1> QED
    BY <1>1, Invariance, PTL

\* A race in manual mode, off the lake or out of the altitude window is marked
\* as failed, and has ended with AAMIS_MIS_FAIL = 1.
THEOREM CleanRace == Spec => []RacingIsClean
  <1>1. IInv => RacingIsClean
    BY DEF IInv, CleanIn, OutOfField, RacingIsClean
  <1> QED
    BY <1>1, Invariance, PTL

\* The clock of a race starts in the past and its time never runs ahead.
THEOREM ClockIsRight == Spec => []RaceClock
  <1>1. IInv => RaceClock
    <2> SUFFICES ASSUME IInv PROVE RaceClock
      OBVIOUS
    <2>1. /\ m.start_time \in 0..now
          /\ m.in_mission => m.start_time # 0
          /\ m.in_mission => m.current_time \in 0..(now - m.start_time)
          /\ ~m.in_mission /\ m.turn_num # -1 => m.mission_failed
          /\ now \in Nat
      BY BoundAssumption DEF IInv, TypeOK, ClockOK, FailedIfStale
    <2> QED
      BY <2>1 DEF RaceClock
  <1> QED
    BY <1>1, Invariance, PTL

\* Unless AAMIS_FSTART is used, the turn functions index _pylon inside the array
\* while a race runs: check_start() sets the turn number it is missing.
THEOREM IndexInArray ==
    ASSUME \A par \in ParamSets : par.force_start # 1
    PROVE  Spec => []PylonIndexValid
  <1> DEFINE Numbered == m.in_mission => m.turn_num >= 0
  <1>1. Init => Numbered
    BY DEF Init, ResetMission
  <1>2. IInv /\ Numbered /\ [Next]_vars => Numbered'
    <2> SUFFICES ASSUME IInv, Numbered, [Next]_vars PROVE Numbered'
      OBVIOUS
    <2>1. CASE ParamWake \/ DataWake \/ ParamAndDataWake
      <3>1. WakeResult /\ TypeOK'
        BY <2>1, WakeStep
      <3>2. parameters'.force_start # 1
        BY <3>1 DEF TypeOK
      <3> QED
        BY <3>1, <3>2 DEF WakeResult, IndexOK
    <2>2. CASE Tick
      BY <2>2 DEF Tick
    <2>3. CASE UNCHANGED vars
      BY <2>3 DEF vars
    <2> QED
      BY <2>1, <2>2, <2>3 DEF Next
  <1>3. IInv /\ Numbered => PylonIndexValid
    <2> SUFFICES ASSUME IInv, Numbered PROVE PylonIndexValid
      OBVIOUS
    <2>1. m.turn_num \in -1..NumOfTurns
      BY DEF IInv, TypeOK, Mission
    <2> QED
      BY <2>1 DEF PylonIndexValid, NumOfTurns
  <1> QED
    BY <1>1, <1>2, <1>3, Invariance, PTL DEF Spec

\* No iteration that finds the aircraft in the keep-out of its pylon completes
\* the turn around it.
THEOREM NoTurnInKeepOut == Spec => NoTurnEndsInKeepOut
  <1> DEFINE Clear == (m.in_mission /\ m'.turn_num = m.turn_num + 1)
                        => ~InKeepOut(parameters', m.turn_num, cur_pos')
  <1>1. IInv /\ [Next]_vars => [Clear]_vars
    <2> SUFFICES ASSUME IInv, [Next]_vars PROVE Clear \/ UNCHANGED vars
      OBVIOUS
    <2>1. CASE ParamWake \/ DataWake \/ ParamAndDataWake
      BY <2>1, WakeStep DEF WakeResult, OutsideOnTurn
    <2>2. CASE Tick
      <3>1. m' = m /\ m.turn_num \in -1..NumOfTurns
        BY <2>2 DEF Tick, IInv, TypeOK, Mission
      <3> QED
        BY <3>1 DEF NumOfTurns
    <2> QED
      BY <2>1, <2>2 DEF Next
  <1> QED
    BY <1>1, Invariance, PTL DEF Spec, NoTurnEndsInKeepOut

\* No iteration completes a turn that it did not find open: at the start of a
\* turn the aircraft is less than 120 degrees behind the start line, for every
\* pylon, angle and position.
THEOREM TurnsAreFlown == Spec => OpenTurnsComplete
  <1> DEFINE Flown == ~m.in_turn /\ m'.in_mission
                        => m'.turn_num <= IF m.in_mission THEN m.turn_num ELSE 0
  <1>1. IInv /\ [Next]_vars => [Flown]_vars
    <2> SUFFICES ASSUME IInv, [Next]_vars PROVE Flown \/ UNCHANGED vars
      OBVIOUS
    <2>1. m.turn_num \in Int
      BY DEF IInv, TypeOK, Mission
    <2>2. CASE ParamWake \/ DataWake \/ ParamAndDataWake
      <3>1. RaceStep(m, m', now)
        BY <2>2, WakeStep DEF WakeResult
      <3> QED
        BY <2>1, <3>1 DEF RaceStep
    <2>3. CASE Tick
      BY <2>1, <2>3 DEF Tick
    <2> QED
      BY <2>2, <2>3 DEF Next
  <1> QED
    BY <1>1, Invariance, PTL DEF Spec, OpenTurnsComplete

-----------------------------------------------------------------------------
\* The turns a subscriber sees complete: none without a race.
Turns(s) == IF s.in_mission /\ s.turn_num > 0 THEN s.turn_num ELSE 0

\* The steps of RaceRules in the referee's members, or a stutter.
RuleStep(s, r, t) ==
    \* Begin
    \/ /\ ~s.in_mission /\ r.in_mission
       /\ Turns(r) \in {0, 1}
       /\ r.start_time \in {s.start_time, t} \ {0}
       /\ s.mission_failed => r.mission_failed
       /\ r.final_time = s.final_time
    \* CompleteTurn
    \/ /\ s.in_mission /\ r.in_mission
       /\ Turns(s) < NumOfTurns
       /\ Turns(r) = Turns(s) + 1
       /\ s.mission_failed => r.mission_failed
       /\ r.start_time = s.start_time /\ r.final_time = s.final_time
    \* Finish
    \/ /\ s.in_mission /\ ~r.in_mission
       /\ Turns(s) = NumOfTurns
       /\ Turns(r) = 0
       /\ r.final_time = t - s.start_time
       /\ s.mission_failed => r.mission_failed
       /\ r.start_time = s.start_time
    \* Drop
    \/ /\ s.in_mission /\ ~r.in_mission
       /\ Turns(r) = 0
       /\ r.mission_failed
       /\ r.start_time = s.start_time /\ r.final_time = s.final_time
    \* BreakRule
    \/ /\ r.mission_failed
       /\ r.start_time \in {s.start_time, t}
       /\ s.in_mission => r.start_time = s.start_time
       /\ r.in_mission = s.in_mission
       /\ Turns(r) = Turns(s)
       /\ r.final_time = s.final_time
    \* Reset
    \/ /\ ~r.in_mission
       /\ Turns(r) = 0
       /\ r.start_time = 0 /\ r.final_time = 0
    \* A stutter
    \/ /\ r.in_mission = s.in_mission
       /\ Turns(r) = Turns(s)
       /\ r.start_time = s.start_time
       /\ r.mission_failed = s.mission_failed
       /\ r.final_time = s.final_time

\* An iteration's step of the race is one of the rules' or a stutter.
LEMMA RaceStepKeepsRules ==
    ASSUME NEW s \in Mission, NEW r \in Mission, NEW t \in Nat \ {0},
           ClockOK(r, t), RaceStep(s, r, t)
    PROVE  RuleStep(s, r, t)
  <1> USE DEF RuleStep
  <1>1. /\ s.turn_num \in -1..2 /\ r.turn_num \in -1..2
        /\ s.in_mission \in BOOLEAN /\ r.in_mission \in BOOLEAN
        /\ s.mission_failed \in BOOLEAN /\ r.mission_failed \in BOOLEAN
    BY DEF Mission, NumOfTurns
  <1>2. r.in_mission => r.start_time # 0
    BY DEF ClockOK
  <1>3. CASE ~s.in_mission /\ ~r.in_mission
    BY <1>1, <1>3 DEF RaceStep, Turns
  <1>4. CASE ~s.in_mission /\ r.in_mission
    <2>1. /\ r.turn_num \in -1..1
          /\ r.start_time \in {s.start_time, t} /\ r.final_time = s.final_time
          /\ s.mission_failed => r.mission_failed
      BY <1>4 DEF RaceStep
    <2>2. Turns(r) \in {0, 1}
      BY <2>1 DEF Turns
    <2>3. r.start_time \in {s.start_time, t} \ {0}
      BY <1>2, <1>4, <2>1
    <2> QED
      BY <1>4, <2>1, <2>2, <2>3
  <1>5. CASE s.in_mission /\ r.in_mission
    BY <1>1, <1>5 DEF RaceStep, Turns, NumOfTurns
  <1>6. CASE s.in_mission /\ ~r.in_mission
    <2>1. Turns(r) = 0
      BY <1>6 DEF Turns
    <2>2. \/ /\ r.mission_failed
             /\ r.start_time = s.start_time /\ r.final_time = s.final_time
          \/ /\ s.turn_num = NumOfTurns
             /\ r.start_time = s.start_time
             /\ r.final_time = t - s.start_time
             /\ s.mission_failed => r.mission_failed
          \/ r.start_time = 0 /\ r.final_time = 0
      BY <1>6 DEF RaceStep
    <2>3. s.turn_num = NumOfTurns => Turns(s) = NumOfTurns
      BY <1>6 DEF Turns, NumOfTurns
    <2> QED
      BY <1>6, <2>1, <2>2, <2>3
  <1> QED
    BY <1>1, <1>3, <1>4, <1>5, <1>6

\* The referee implements the rules of the race: every iteration, woken by
\* whatever the task subscribes to, begins a race, counts one turn, finishes,
\* drops or fails it, resets, or leaves it alone.
THEOREM Implementation == Spec => KeepsRules
  <1>1. Init => Rules!Init
    <2> SUFFICES ASSUME Init PROVE Rules!Init
      OBVIOUS
    <2>1. m = ResetMission /\ now = 1
      BY DEF Init
    <2>2. ~m.in_mission /\ m.start_time = 0 /\ m.final_time = 0
      BY <2>1, ResetMissionOK
    <2>3. m.in_mission = FALSE /\ m.mission_failed = FALSE
      BY <2>1 DEF ResetMission
    <2> QED
      BY <2>1, <2>2, <2>3 DEF Rules!Init
  <1>2. IInv /\ [Next]_vars => [Rules!Next]_(Rules!vars)
    <2> SUFFICES ASSUME IInv, [Next]_vars
                 PROVE  Rules!Next \/ UNCHANGED Rules!vars
      OBVIOUS
    <2>1. CASE ParamWake \/ DataWake \/ ParamAndDataWake
      <3>1. /\ m \in Mission /\ m' \in Mission /\ now \in Nat \ {0}
            /\ ClockOK(m', now) /\ RaceStep(m, m', now) /\ now' = now
        BY <2>1, WakeStep, BoundAssumption DEF IInv, TypeOK, WakeResult
      <3>2. m'.mission_failed \in BOOLEAN
        BY <3>1 DEF Mission
      <3>3. RuleStep(m, m', now)
        BY <3>1, RaceStepKeepsRules
      <3> QED
        BY <3>1, <3>2, <3>3
           DEF RuleStep, Turns, Rules!Next, Rules!vars, Rules!Begin,
               Rules!CompleteTurn, Rules!Finish, Rules!Drop, Rules!BreakRule, Rules!Reset,
               Rules!Remember
    <2>2. CASE Tick
      BY <2>2 DEF Tick, Rules!Next, Rules!Tick
    <2>3. CASE UNCHANGED vars
      BY <2>3 DEF vars, Rules!vars
    <2> QED
      BY <2>1, <2>2, <2>3 DEF Next
  <1> QED
    BY <1>1, <1>2, Invariance, PTL DEF Spec, KeepsRules, Rules!Spec
-------------------------------------------------------------------------------
(***************************************************************************)
(* The field of check_field_bounds().                                      *)
(***************************************************************************)
\* Positive left of the line from a to b.
Form(aE, aN, bE, bN, n, e) == (bE - aE) * (n - aN) - (bN - aN) * (e - aE)

LEMMA FormIsInt ==
    ASSUME NEW aE \in Int, NEW aN \in Int, NEW bE \in Int, NEW bN \in Int,
           NEW n \in Int, NEW e \in Int
    PROVE  Form(aE, aN, bE, bN, n, e) \in Int
  BY DEF Form

LEMMA FormTurns ==
    ASSUME NEW aE \in Int, NEW aN \in Int, NEW bE \in Int, NEW bN \in Int,
           NEW n \in Int, NEW e \in Int
    PROVE  Form(bE, bN, aE, aN, n, e) = -Form(aE, aN, bE, bN, n, e)
  BY DEF Form

LEMMA Side ==
    ASSUME NEW aE \in Int, NEW aN \in Int, NEW bE \in Int, NEW bN \in Int,
           NEW p, p.N \in Int, p.E \in Int
    PROVE  LET s == LineSide([E |-> aE, N |-> aN], [E |-> bE, N |-> bN], p)
               f == Form(aE, aN, bE, bN, p.N, p.E)
           IN  (s > 0 <=> f > 0) /\ (s = 0 <=> f = 0)
<1> DEFINE f == Form(aE, aN, bE, bN, p.N, p.E)
<1>1. LineSide([E |-> aE, N |-> aN], [E |-> bE, N |-> bN], p) = SgnF(f)
  BY DEF LineSide, Form
<1>2. f \in Int
  BY FormIsInt
<1> HIDE DEF f
<1>3. (SgnF(f) > 0 <=> f > 0) /\ (SgnF(f) = 0 <=> f = 0)
  BY <1>2 DEF SgnF
<1> QED
  BY <1>1, <1>3 DEF f

LEMMA Vertices ==
    /\ \A i \in 0..8 : LakeBoundaries[i] = Vertex(i) /\ LakeBoundaries[(i + 1) % 9] = Vertex(i + 1)
    /\ Vertex(0) = [E |-> -173, N |-> 143]
    /\ Vertex(1) = [E |-> -82, N |-> 228]
    /\ Vertex(2) = [E |-> 176, N |-> 81]
    /\ Vertex(3) = [E |-> 181, N |-> -138]
    /\ Vertex(4) = [E |-> 54, N |-> -148]
    /\ Vertex(5) = [E |-> 62, N |-> -219]
    /\ Vertex(6) = [E |-> -36, N |-> -216]
    /\ Vertex(7) = [E |-> -101, N |-> -142]
    /\ Vertex(8) = [E |-> -181, N |-> -112]
    /\ Vertex(9) = [E |-> -173, N |-> 143]
<1>1. \A i \in 0..8 : i % 9 = i
  OBVIOUS
<1>2. 9 % 9 = 0
  OBVIOUS
<1> QED
  BY <1>1, <1>2 DEF Vertex, LakeBoundaries

\* What the two tests ask of edge i.
LEMMA Edge ==
    ASSUME NEW i \in 0..8, NEW p, p.N \in Int, p.E \in Int
    PROVE  LET a == Vertex(i)
               b == Vertex(i + 1)
               f == Form(a.E, a.N, b.E, b.N, p.N, p.E)
           IN  /\ LeftOfEdge(i, p) <=> f > 0
               /\ OnEdge(i, p) <=> /\ f = 0
                                   /\ Between(p.N, a.N, b.N) /\ Between(p.E, a.E, b.E)
               /\ Crosses(i, p) <=> IF a.N < b.N THEN a.N <= p.N /\ p.N < b.N /\ f > 0
                                                 ELSE b.N <= p.N /\ p.N < a.N /\ f < 0
<1> DEFINE a == Vertex(i)
           b == Vertex(i + 1)
           f == Form(a.E, a.N, b.E, b.N, p.N, p.E)
<1>0. /\ a.E \in Int /\ a.N \in Int /\ b.E \in Int /\ b.N \in Int
      /\ a = [E |-> a.E, N |-> a.N] /\ b = [E |-> b.E, N |-> b.N]
  BY Vertices
<1> HIDE DEF a, b
<1>1. (LineSide(a, b, p) > 0 <=> f > 0) /\ (LineSide(a, b, p) = 0 <=> f = 0)
  BY <1>0, Side
<1>2. LineSide(b, a, p) > 0 <=> f < 0
  <2>1. LineSide(b, a, p) > 0 <=> Form(b.E, b.N, a.E, a.N, p.N, p.E) > 0
    BY <1>0, Side
  <2>2. Form(b.E, b.N, a.E, a.N, p.N, p.E) = -f
    BY <1>0, FormTurns
  <2>3. f \in Int
    BY <1>0, FormIsInt
  <2> HIDE DEF f
  <2> QED  BY <2>1, <2>2, <2>3
<1> HIDE DEF f
<1>3. LakeBoundaries[i] = a /\ LakeBoundaries[(i + 1) % 9] = b
  BY Vertices DEF a, b
<1>4. LeftOfEdge(i, p) <=> f > 0
  BY <1>1, <1>3 DEF LeftOfEdge
<1>5. OnEdge(i, p) <=> f = 0 /\ Between(p.N, a.N, b.N) /\ Between(p.E, a.E, b.E)
  BY <1>1 DEF OnEdge, a, b
<1>6. Crosses(i, p) <=> IF a.N < b.N THEN a.N <= p.N /\ p.N < b.N /\ f > 0
                                    ELSE b.N <= p.N /\ p.N < a.N /\ f < 0
  BY <1>1, <1>2 DEF Crosses, a, b
<1> QED  BY <1>4, <1>5, <1>6 DEF f, a, b

\* The field of check_field_bounds() is the polygon of its nine vertices, the
\* boundary included, at every whole metre.
THEOREM FieldIsPolygon ==
    ASSUME NEW p, p.N \in Int, p.E \in Int
    PROVE  OffLake(p) <=> ~InLake(p)
<1> DEFINE n == p.N
           e == p.E
           f0 == 91 * n - 85 * e - 27718
           f1 == 258 * n + 147 * e - 46770
           f2 == 5 * n + 219 * e - 38949
           f3 == -127 * n + 10 * e - 19336
           f4 == 8 * n + 71 * e - 2650
           f5 == -98 * n - 3 * e - 21276
           f6 == -65 * n - 74 * e - 16704
           f7 == -80 * n - 30 * e - 14390
           f8 == 8 * n - 255 * e - 45259
           on0 == f0 = 0 /\ 143 <= n /\ n <= 228 /\ -173 <= e /\ e <= -82
           cr0 == 143 <= n /\ n < 228 /\ f0 > 0
           on1 == f1 = 0 /\ 81 <= n /\ n <= 228 /\ -82 <= e /\ e <= 176
           cr1 == 81 <= n /\ n < 228 /\ f1 < 0
           on2 == f2 = 0 /\ -138 <= n /\ n <= 81 /\ 176 <= e /\ e <= 181
           cr2 == -138 <= n /\ n < 81 /\ f2 < 0
           on3 == f3 = 0 /\ -148 <= n /\ n <= -138 /\ 54 <= e /\ e <= 181
           cr3 == -148 <= n /\ n < -138 /\ f3 < 0
           on4 == f4 = 0 /\ -219 <= n /\ n <= -148 /\ 54 <= e /\ e <= 62
           cr4 == -219 <= n /\ n < -148 /\ f4 < 0
           on5 == f5 = 0 /\ -219 <= n /\ n <= -216 /\ -36 <= e /\ e <= 62
           cr5 == -219 <= n /\ n < -216 /\ f5 > 0
           on6 == f6 = 0 /\ -216 <= n /\ n <= -142 /\ -101 <= e /\ e <= -36
           cr6 == -216 <= n /\ n < -142 /\ f6 > 0
           on7 == f7 = 0 /\ -142 <= n /\ n <= -112 /\ -181 <= e /\ e <= -101
           cr7 == -142 <= n /\ n < -112 /\ f7 > 0
           on8 == f8 = 0 /\ -112 <= n /\ n <= 143 /\ -181 <= e /\ e <= -173
           cr8 == -112 <= n /\ n < 143 /\ f8 > 0
<1>1. (LeftOfEdge(0, p) <=> f0 > 0) /\ (OnEdge(0, p) <=> on0) /\ (Crosses(0, p) <=> cr0)
  <2>1. Vertex(0) = [E |-> -173, N |-> 143] /\ Vertex(0 + 1) = [E |-> -82, N |-> 228]
    BY Vertices
  <2>2. Form(-173, 143, -82, 228, n, e) = f0
    BY DEF Form
  <2> QED  BY <2>1, <2>2, Edge DEF Between
<1>2. (LeftOfEdge(1, p) <=> f1 > 0) /\ (OnEdge(1, p) <=> on1) /\ (Crosses(1, p) <=> cr1)
  <2>1. Vertex(1) = [E |-> -82, N |-> 228] /\ Vertex(1 + 1) = [E |-> 176, N |-> 81]
    BY Vertices
  <2>2. Form(-82, 228, 176, 81, n, e) = f1
    BY DEF Form
  <2> QED  BY <2>1, <2>2, Edge DEF Between
<1>3. (LeftOfEdge(2, p) <=> f2 > 0) /\ (OnEdge(2, p) <=> on2) /\ (Crosses(2, p) <=> cr2)
  <2>1. Vertex(2) = [E |-> 176, N |-> 81] /\ Vertex(2 + 1) = [E |-> 181, N |-> -138]
    BY Vertices
  <2>2. Form(176, 81, 181, -138, n, e) = f2
    BY DEF Form
  <2> QED  BY <2>1, <2>2, Edge DEF Between
<1>4. (LeftOfEdge(3, p) <=> f3 > 0) /\ (OnEdge(3, p) <=> on3) /\ (Crosses(3, p) <=> cr3)
  <2>1. Vertex(3) = [E |-> 181, N |-> -138] /\ Vertex(3 + 1) = [E |-> 54, N |-> -148]
    BY Vertices
  <2>2. Form(181, -138, 54, -148, n, e) = f3
    BY DEF Form
  <2> QED  BY <2>1, <2>2, Edge DEF Between
<1>5. (LeftOfEdge(4, p) <=> f4 > 0) /\ (OnEdge(4, p) <=> on4) /\ (Crosses(4, p) <=> cr4)
  <2>1. Vertex(4) = [E |-> 54, N |-> -148] /\ Vertex(4 + 1) = [E |-> 62, N |-> -219]
    BY Vertices
  <2>2. Form(54, -148, 62, -219, n, e) = f4
    BY DEF Form
  <2> QED  BY <2>1, <2>2, Edge DEF Between
<1>6. (LeftOfEdge(5, p) <=> f5 > 0) /\ (OnEdge(5, p) <=> on5) /\ (Crosses(5, p) <=> cr5)
  <2>1. Vertex(5) = [E |-> 62, N |-> -219] /\ Vertex(5 + 1) = [E |-> -36, N |-> -216]
    BY Vertices
  <2>2. Form(62, -219, -36, -216, n, e) = f5
    BY DEF Form
  <2> QED  BY <2>1, <2>2, Edge DEF Between
<1>7. (LeftOfEdge(6, p) <=> f6 > 0) /\ (OnEdge(6, p) <=> on6) /\ (Crosses(6, p) <=> cr6)
  <2>1. Vertex(6) = [E |-> -36, N |-> -216] /\ Vertex(6 + 1) = [E |-> -101, N |-> -142]
    BY Vertices
  <2>2. Form(-36, -216, -101, -142, n, e) = f6
    BY DEF Form
  <2> QED  BY <2>1, <2>2, Edge DEF Between
<1>8. (LeftOfEdge(7, p) <=> f7 > 0) /\ (OnEdge(7, p) <=> on7) /\ (Crosses(7, p) <=> cr7)
  <2>1. Vertex(7) = [E |-> -101, N |-> -142] /\ Vertex(7 + 1) = [E |-> -181, N |-> -112]
    BY Vertices
  <2>2. Form(-101, -142, -181, -112, n, e) = f7
    BY DEF Form
  <2> QED  BY <2>1, <2>2, Edge DEF Between
<1>9. (LeftOfEdge(8, p) <=> f8 > 0) /\ (OnEdge(8, p) <=> on8) /\ (Crosses(8, p) <=> cr8)
  <2>1. Vertex(8) = [E |-> -181, N |-> -112] /\ Vertex(8 + 1) = [E |-> -173, N |-> 143]
    BY Vertices
  <2>2. Form(-181, -112, -173, 143, n, e) = f8
    BY DEF Form
  <2> QED  BY <2>1, <2>2, Edge DEF Between
<1> DEFINE out == \/ f0 > 0 \/ f1 > 0 \/ f2 > 0 \/ f5 > 0 \/ f8 > 0
                  \/ (f3 > 0 /\ f4 > 0) \/ (f6 > 0 /\ f7 > 0)
           on == on0 \/ on1 \/ on2 \/ on3 \/ on4 \/ on5 \/ on6 \/ on7 \/ on8
           odd == cr0 \oplus cr1 \oplus cr2 \oplus cr3 \oplus cr4 \oplus cr5 \oplus cr6
                    \oplus cr7 \oplus cr8
<1>10. out <=> ~(on \/ odd)
  BY SMTT(60) DEF \oplus
<1>11. OffLake(p) <=> out
  <2> HIDE DEF n, e, f0, f1, f2, f3, f4, f5, f6, f7, f8, on0, on1, on2, on3, on4, on5, on6, on7, on8,
               cr0, cr1, cr2, cr3, cr4, cr5, cr6, cr7, cr8
  <2>1. OffLake(p) <=> \/ \E i \in {0, 1, 2, 5, 8} : LeftOfEdge(i, p)
                       \/ \E i \in {3, 6} : LeftOfEdge(i, p) /\ LeftOfEdge(i + 1, p)
    BY DEF OffLake, Convex, Concave
  <2>2. OffLake(p) <=> \/ LeftOfEdge(0, p) \/ LeftOfEdge(1, p) \/ LeftOfEdge(2, p)
                       \/ LeftOfEdge(5, p) \/ LeftOfEdge(8, p)
                       \/ (LeftOfEdge(3, p) /\ LeftOfEdge(4, p))
                       \/ (LeftOfEdge(6, p) /\ LeftOfEdge(7, p))
    BY <2>1
  <2> QED
    BY <2>2, <1>1, <1>2, <1>3, <1>4, <1>5, <1>6, <1>7, <1>8, <1>9
<1>12. InLake(p) <=> on \/ odd
  <2> HIDE DEF n, e, f0, f1, f2, f3, f4, f5, f6, f7, f8, on0, on1, on2, on3, on4, on5, on6, on7, on8,
               cr0, cr1, cr2, cr3, cr4, cr5, cr6, cr7, cr8
  <2>1. (\E i \in 0..8 : OnEdge(i, p)) <=> on
    BY <1>1, <1>2, <1>3, <1>4, <1>5, <1>6, <1>7, <1>8, <1>9
  <2>2. odd <=> Crosses(0, p) \oplus Crosses(1, p) \oplus Crosses(2, p) \oplus Crosses(3, p)
                  \oplus Crosses(4, p) \oplus Crosses(5, p) \oplus Crosses(6, p)
                  \oplus Crosses(7, p) \oplus Crosses(8, p)
    BY <1>1, <1>2, <1>3, <1>4, <1>5, <1>6, <1>7, <1>8, <1>9 DEF \oplus
  <2> QED
    BY <2>1, <2>2 DEF InLake
<1> HIDE DEF out, on, odd
<1> QED
  BY <1>10, <1>11, <1>12

\* A race that counts is flown by the autopilot, inside the lake's polygon and
\* within 5 m of the altitude window: its position of the last iteration is in
\* the field, not only on the right side of hand-written edges.
RacesInLake ==
    m.in_mission /\ ~m.mission_failed =>
        /\ auto
        /\ InLake(cur_pos)
        /\ Alt(cur_pos) \in (parameters.min_alt - 5)..(parameters.max_alt + 5)

THEOREM CountedInLake == Spec => []RacesInLake
<1>1. TypeOK /\ RacingIsClean => RacesInLake
  <2> SUFFICES ASSUME TypeOK, RacingIsClean, m.in_mission, ~m.mission_failed
               PROVE  /\ auto /\ InLake(cur_pos)
                      /\ Alt(cur_pos) \in (parameters.min_alt - 5)..(parameters.max_alt + 5)
    BY DEF RacesInLake
  <2>1. /\ auto /\ ~OffLake(cur_pos)
        /\ ~(Alt(cur_pos) > parameters.max_alt + 5)
        /\ ~(Alt(cur_pos) < parameters.min_alt - 5)
    BY DEF RacingIsClean
  <2>2. cur_pos.N \in Int /\ cur_pos.E \in Int /\ Alt(cur_pos) \in Int
    BY CourseAssumption DEF TypeOK, Alt
  <2>3. InLake(cur_pos)
    BY <2>1, <2>2, FieldIsPolygon
  <2>4. parameters.min_alt \in Int /\ parameters.max_alt \in Int
    BY ParamAssumption DEF TypeOK, Parameters
  <2> QED  BY <2>1, <2>2, <2>3, <2>4
<1> QED
  BY <1>1, TypeCorrect, CleanRace, PTL
=============================================================================
