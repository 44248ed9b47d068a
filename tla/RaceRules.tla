----------------------------- MODULE RaceRules -----------------------------
(***************************************************************************)
(* The rules of the AA241x race, as the subscribers of                     *)
(* aa241x_mission_status may rely on them: a race begins, its turns are    *)
(* counted one at a time, and only a race with all its turns is timed.     *)
(* AA241xMission implements this specification.                            *)
(***************************************************************************)
EXTENDS Integers

CONSTANT NumOfTurns

VARIABLES
    racing,     \* a race is running
    turns,      \* the turns it has completed (0 when none is running)
    since,      \* the time its clock started
    failed,     \* a rule was broken since the last reset
    final_time, \* the time of the last race that was finished, or 0
    now         \* the clock

vars == <<racing, turns, since, failed, final_time, now>>

Init ==
    /\ racing = FALSE
    /\ turns = 0
    /\ since = 0
    /\ failed = FALSE
    /\ final_time = 0
    /\ now = 1

\* A broken rule is remembered whatever else a step does.
Remember == failed => failed'

\* Starts the clock, or keeps the one a forced start had started; a turn left
\* open by a dropped race may be completed by the first iteration of this one.
Begin ==
    /\ ~racing /\ racing'
    /\ turns' \in {0, 1}
    /\ since' \in {since, now} \ {0}
    /\ Remember
    /\ UNCHANGED <<final_time, now>>

CompleteTurn ==
    /\ racing /\ racing'
    /\ turns < NumOfTurns
    /\ turns' = turns + 1
    /\ Remember
    /\ UNCHANGED <<since, final_time, now>>

Finish ==
    /\ racing /\ ~racing'
    /\ turns = NumOfTurns
    /\ turns' = 0
    /\ final_time' = now - since
    /\ Remember
    /\ UNCHANGED <<since, now>>

\* A race ends untimed only by breaking a rule.
Drop ==
    /\ racing /\ ~racing'
    /\ turns' = 0
    /\ failed'
    /\ UNCHANGED <<since, final_time, now>>

\* A rule is broken and the race, if any, goes on; a forced clock may start.
BreakRule ==
    /\ failed'
    /\ since' \in {since, now}
    /\ racing => since' = since
    /\ UNCHANGED <<racing, turns, final_time, now>>

\* AA_MIS_RESET; the field may be violated again in the same iteration.
Reset ==
    /\ ~racing'
    /\ turns' = 0
    /\ since' = 0
    /\ failed' \in BOOLEAN
    /\ final_time' = 0
    /\ UNCHANGED now

Tick ==
    /\ now' = now + 1
    /\ UNCHANGED <<racing, turns, since, failed, final_time>>

Next == Begin \/ CompleteTurn \/ Finish \/ Drop \/ BreakRule \/ Reset \/ Tick

Spec == Init /\ [][Next]_vars
=============================================================================
