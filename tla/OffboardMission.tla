--------------------------- MODULE OffboardMission ---------------------------
(***************************************************************************)
(* The offboard mission as the navigator flies it (class Mission of        *)
(* modules/navigator/mission.cpp): the stored mission state, its copies in *)
(* the MAVLink task, on the topic and in the navigator, and the item the   *)
(* navigator is at.                                                        *)
(*                                                                         *)
(* The navigator and the MAVLink task preempt each other at every access   *)
(* to the data manager.  The navigator's read-modify-write of the state is *)
(* under dm_lock(); update_active_mission() writes it without the lock, so *)
(* the lock excludes nobody and is left out.  One turn of the navigator's  *)
(* loop is the list todo of the calls it has still to make.                *)
(*                                                                         *)
(* The vehicle is a fixed wing (no takeoff, alignment or transition items) *)
(* and no onboard mission is ever published.  What decides whether a       *)
(* mission is feasible, an item reached or a landing aborted is outside.   *)
(***************************************************************************)
EXTENDS Integers, Sequences

CONSTANTS
    Missions,       \* the lists of items ground stations upload
    Currents,       \* items they mark as the current one, -1 for none
    MaxCount,       \* most items of a mission
    MaxTries,       \* DO_JUMPs followed before giving up: 10
    MaxEvents,      \* bound on the ground stations' requests and restarts
    None

\* An item, down to what the order of the items depends on.  A jump may name
\* any index: nothing checks it, at the upload or later.
Item == [nav_cmd : {"waypoint", "land", "jump"},
         do_jump_mission_index : Int,
         do_jump_repeat_count : Nat,
         do_jump_current_count : Nat]

ASSUME CurrentsAssumption == Currents \subseteq -1..(MaxCount - 1)
ASSUME CountAssumption == MaxCount \in Nat \ {0} /\ MaxTries \in Nat \ {0}
ASSUME BoundAssumption == MaxEvents \in Nat
ASSUME MissionAssumption ==
    \A m \in Missions :
        /\ m \in Seq(Item) /\ Len(m) \in 1..MaxCount
        /\ \A i \in 1..Len(m) : m[i].do_jump_current_count = 0
ASSUME NoneAssumption ==
    None \notin Item \cup [dataman_id : 0..1, count : 0..MaxCount,
                           current_seq : Int]

VARIABLES
    \* The data manager.
    stored,         \* DM_KEY_MISSION_STATE, or None before it is written
    items,          \* the two places DM_KEY_WAYPOINTS_OFFBOARD_0 and _1
    \* MavlinkMissionManager.
    mav,            \* _dataman_id and _count
    uploading,      \* items of the upload that is being received, 0 if none
    pending,        \* the state written and yet to be published, or None
    \* The topic offboard_mission.
    topic,          \* last message, or None
    fresh,          \* what orb_check() tells the navigator
    \* Navigator.
    home,           \* home_position_valid()
    active,         \* is_planned_mission()
    \* Mission.
    offboard_mission, current_index, mission_type, mission_item, inited,
    home_inited, need_mission_reset, first_run, valid, seq_total,
    todo,           \* calls left of this turn of the loop
    writing,        \* the write a call is about to make
    held,           \* what it is about to write
    tries,          \* DO_JUMPs followed by this read_mission_item()
    \* History and bounds.
    overtaken,      \* a state was accepted while the navigator held one
    events

storage == <<stored, items>>
mavlink == <<mav, uploading, pending>>
vehicle == <<home, active>>
check == <<valid, seq_total, home_inited>>
flags == <<inited, need_mission_reset, first_run>>
place == <<offboard_mission, current_index>>
work == <<mission_type, mission_item, tries>>
step == <<todo, writing, held>>
vars == <<storage, mavlink, topic, fresh, vehicle, check, flags, place, work,
          step, overtaken, events>>

-----------------------------------------------------------------------------
State(id, n, seq) == [dataman_id |-> id, count |-> n, current_seq |-> seq]
MissionState == [dataman_id : 0..1, count : 0..MaxCount,
                 current_seq : -1..MaxCount]
Waypoint == [nav_cmd |-> "waypoint", do_jump_mission_index |-> 0,
             do_jump_repeat_count |-> 0, do_jump_current_count |-> 0]

\* Nothing is stored yet, and nothing is published.
Init ==
    /\ stored = None
    /\ items = [id \in 0..1 |-> [i \in 0..(MaxCount - 1) |-> Waypoint]]
    /\ mav = [dataman_id |-> 0, count |-> 0]
    /\ topic = None
    /\ fresh = FALSE
    /\ uploading = 0
    /\ pending = None
    /\ home = FALSE /\ active = FALSE
    /\ offboard_mission = State(0, 0, 0)
    /\ current_index = -1
    /\ mission_type = "NONE" /\ mission_item = "none"
    /\ inited = FALSE /\ home_inited = FALSE
    /\ need_mission_reset = FALSE /\ first_run = TRUE
    /\ valid = FALSE /\ seq_total = 0
    /\ todo = <<>> /\ writing = "none" /\ held = None
    /\ tries = 0
    /\ overtaken = FALSE
    /\ events = 0

\* A request or a restart, as many as the bound allows.
Happens == events < MaxEvents /\ events' = events + 1

\* Power fails or the system is rebooted, and the data manager keeps its
\* file: MAVLink and the commander read the stored state, and the commander
\* publishes it, before or after the navigator subscribes.
Restart ==
    /\ Happens
    /\ mav' = IF stored = None THEN [dataman_id |-> 0, count |-> 0]
              ELSE [dataman_id |-> stored.dataman_id, count |-> stored.count]
    /\ topic' = stored
    /\ fresh' \in IF stored = None THEN {FALSE} ELSE BOOLEAN
    /\ uploading' = 0
    /\ pending' = None
    /\ home' = FALSE /\ active' = FALSE
    /\ offboard_mission' = State(0, 0, 0)
    /\ current_index' = -1
    /\ mission_type' = "NONE" /\ mission_item' = "none"
    /\ inited' = FALSE /\ home_inited' = FALSE
    /\ need_mission_reset' = FALSE /\ first_run' = TRUE
    /\ valid' = FALSE /\ seq_total' = 0
    /\ todo' = <<>> /\ writing' = "none" /\ held' = None
    /\ tries' = 0
    /\ overtaken' = FALSE
    /\ UNCHANGED storage

-----------------------------------------------------------------------------
(***************************************************************************)
(* MAVLink: one request of a ground station at a time.                     *)
(***************************************************************************)
Request ==
    /\ uploading = 0 /\ pending = None
    /\ Happens

NavigatorUnchanged ==
    UNCHANGED <<vehicle, check, flags, place, work, step>>

\* update_active_mission(): write the state, and only then take it over and
\* publish it.  The write may fail.
UpdateActiveMission(new) ==
    /\ \/ /\ stored' = new
          /\ mav' = [dataman_id |-> new.dataman_id, count |-> new.count]
          /\ pending' = new
          /\ overtaken' = (overtaken \/ writing \in {"save", "reset"})
       \/ UNCHANGED <<stored, mav, pending, overtaken>>
    /\ UNCHANGED <<items, topic, fresh>>
    /\ NavigatorUnchanged

\* The items of a mission go to the place that is not the active one.
Upload(mission) ==
    /\ Request
    /\ uploading' = Len(mission)
    /\ items' = [items EXCEPT ![1 - mav.dataman_id] =
                     [i \in 0..(MaxCount - 1) |->
                        IF i < Len(mission) THEN mission[i + 1] ELSE @[i]]]
    /\ UNCHANGED <<stored, mav, pending, topic, fresh, overtaken>>
    /\ NavigatorUnchanged

\* The last item arrived; seq is the item marked as current, or -1.
Accept(seq) ==
    /\ uploading > 0 /\ pending = None
    /\ seq < uploading
    /\ uploading' = 0
    /\ UpdateActiveMission(State(1 - mav.dataman_id, uploading, seq))
    /\ UNCHANGED events

\* The upload times out.
Abandon ==
    /\ uploading > 0 /\ pending = None
    /\ uploading' = 0
    /\ UNCHANGED <<storage, mav, pending, topic, fresh, overtaken, events>>
    /\ NavigatorUnchanged

ClearAll ==
    /\ Request
    /\ UpdateActiveMission(State(1 - mav.dataman_id, 0, 0))
    /\ UNCHANGED uploading

SetCurrent(seq) ==
    /\ Request
    /\ seq \in 0..(mav.count - 1)
    /\ UpdateActiveMission(State(mav.dataman_id, mav.count, seq))
    /\ UNCHANGED uploading

\* The orb_publish() of update_active_mission().
Publish ==
    /\ pending # None
    /\ pending' = None
    /\ topic' = pending
    /\ fresh' = TRUE
    /\ UNCHANGED <<storage, mav, uploading, overtaken, events>>
    /\ NavigatorUnchanged

-----------------------------------------------------------------------------
(***************************************************************************)
(* The navigator.                                                          *)
(***************************************************************************)
NavigatorStep == UNCHANGED <<mavlink, topic, overtaken, events>>

\* The loop comes to a call.
Does(call) ==
    /\ writing = "none"
    /\ todo # <<>>
    /\ Head(todo) = call

Return == todo' = Tail(todo)
Call(calls) == todo' = calls \o Tail(todo)
If(condition, calls) == IF condition THEN calls ELSE <<>>

\* check_mission_valid(true): without a home position no mission is feasible.
CheckMission(n, has_home) ==
    /\ valid' \in IF has_home THEN BOOLEAN ELSE {FALSE}
    /\ seq_total' = n
    /\ home_inited' = has_home

\* check_mission_valid(false): only for the first home position.
CheckOnce(n) ==
    IF ~home_inited /\ home' THEN CheckMission(n, TRUE) ELSE UNCHANGED check

\* VEHICLE_CMD_MISSION_START: set_current_offboard_mission_index(), and then
\* the mode that is to run.
StartMission(seq) ==
    /\ writing = "none" /\ todo = <<>>
    /\ valid /\ seq < seq_total
    /\ seq < offboard_mission.count
    /\ current_index' = seq
    /\ todo' = <<"save">> \o If(active, <<"items">>) \o <<"run">>
    /\ UNCHANGED <<storage, fresh, vehicle, check, flags, offboard_mission,
                   work, writing, held>>
    /\ NavigatorStep

\* A turn of the loop, but for that command: take the status of the vehicle
\* over, and run the mission mode as active or as inactive.
Turn(is_active, calls) ==
    /\ writing = "none"
    /\ todo \in {<<>>, <<"run">>}
    /\ active' = is_active
    /\ home' \in {home, TRUE}
    /\ todo' = calls
    /\ UNCHANGED <<storage, fresh, work, writing, held>>
    /\ NavigatorStep

\* need_to_reset_mission()
NeedReset(armed) == ~armed /\ need_mission_reset
NoteReset(armed) ==
    need_mission_reset' = (armed /\ (need_mission_reset \/ active'))

\* Mutant: a new mission is only looked at while the vehicle is armed.
UpdatesInFlight(armed) ==
    If(fresh /\ armed, <<"update">>)
        \o If(NeedReset(armed), <<"reset", "update">>)

\* The updates on_active() and on_inactive() begin with.
Updates(armed) ==
    If(fresh, <<"update">>) \o If(NeedReset(armed), <<"reset", "update">>)

\* on_activation()
Activate ==
    /\ first_run
    /\ Turn(TRUE, <<"items">>)
    /\ first_run' = FALSE
    /\ UNCHANGED <<check, inited, need_mission_reset, place>>

\* Mutant: the items are only set again after a reset.
RefreshAfterReset(armed) == If(NeedReset(armed), <<"items">>)

\* on_active() sets the items of an updated mission.
Refresh(armed) == If(fresh \/ NeedReset(armed), <<"items">>)

\* on_active()
RunActive(armed) ==
    /\ ~first_run
    /\ Turn(TRUE, Updates(armed) \o Refresh(armed) \o <<"reached", "abort">>)
    /\ CheckOnce(offboard_mission.count)
    /\ NoteReset(armed)
    /\ UNCHANGED <<inited, first_run, place>>

\* on_inactive() without a home position
RunWithoutHome ==
    /\ Turn(FALSE, <<>>)
    /\ ~home'
    /\ first_run' = TRUE
    /\ UNCHANGED <<check, inited, need_mission_reset, place>>

\* Mutant: the place of the items is not taken from the stored state.
LoadedCount == [offboard_mission EXCEPT !.count = stored.count]

\* What on_inactive() takes from the stored state.
LoadedMission ==
    [offboard_mission EXCEPT !.dataman_id = stored.dataman_id,
                             !.count = stored.count]

\* on_inactive() the first time: load the mission from storage.
Load ==
    /\ ~inited
    /\ Turn(FALSE, <<>>)
    /\ home'
    /\ inited' = TRUE
    /\ first_run' = TRUE
    /\ IF stored = None THEN UNCHANGED place
       ELSE /\ offboard_mission' = LoadedMission
            /\ current_index' = stored.current_seq
    /\ CheckOnce(offboard_mission'.count)
    /\ UNCHANGED need_mission_reset

\* on_inactive() from then on
RunInactive(armed) ==
    /\ inited
    /\ Turn(FALSE, Updates(armed))
    /\ home'
    /\ first_run' = TRUE
    /\ NoteReset(armed)
    /\ UNCHANGED <<check, inited, place>>

\* update_offboard_mission(): the index of the message if it has one, else
\* the navigator's own if it is in range, else the first item.
IndexFor(new) ==
    CASE new.current_seq \in 0..(new.count - 1) -> new.current_seq
      [] current_index \in 0..(new.count - 1) -> current_index
      [] OTHER -> 0

Update ==
    /\ Does("update")
    /\ fresh' = FALSE
    /\ IF topic = None THEN UNCHANGED check ELSE CheckMission(topic.count, home)
    /\ LET new == IF topic = None THEN offboard_mission ELSE topic IN
       IF topic # None /\ valid'
         THEN offboard_mission' = new /\ current_index' = IndexFor(new)
         ELSE /\ offboard_mission' = State(new.dataman_id, 0, 0)
              /\ current_index' = 0
    /\ Call(<<"save">>)
    /\ UNCHANGED <<storage, vehicle, flags, work, writing, held>>
    /\ NavigatorStep

\* save_offboard_mission_state() up to the dm_write()
Own == State(offboard_mission.dataman_id, offboard_mission.count, current_index)
SameMission(s) ==
    s.dataman_id = offboard_mission.dataman_id /\ s.count = offboard_mission.count

SaveState ==
    /\ Does("save")
    /\ \/ /\ stored = None
          /\ writing' = "save" /\ held' = Own
          /\ UNCHANGED todo
       \/ /\ stored # None
          /\ SameMission(stored) /\ stored.current_seq # current_index
          /\ writing' = "save" /\ held' = stored
          /\ UNCHANGED todo
       \/ /\ stored # None
          /\ ~(SameMission(stored) /\ stored.current_seq # current_index)
          /\ Return
          /\ UNCHANGED <<writing, held>>
    /\ UNCHANGED <<storage, fresh, vehicle, check, flags, place, work>>
    /\ NavigatorStep

\* reset_offboard_mission() up to the dm_write() of the state: the jump
\* counters are cleared up to the first that cannot be written.
ResetJumps(id, n) ==
    [items EXCEPT ![id] = [i \in 0..(MaxCount - 1) |->
        IF i < n THEN [@[i] EXCEPT !.do_jump_current_count = 0] ELSE @[i]]]

\* Mutant: reset the navigator's own copy of the state.
ResetOwn == [offboard_mission EXCEPT !.current_seq = 0]

\* The stored state, at its first item.
ResetState == [stored EXCEPT !.current_seq = 0]

ResetMission ==
    /\ Does("reset")
    /\ IF stored = None
         THEN Return /\ UNCHANGED <<items, offboard_mission, writing, held>>
         ELSE /\ offboard_mission' = ResetState
              /\ \E n \in 0..stored.count :
                    items' = ResetJumps(stored.dataman_id, n)
              /\ writing' = "reset" /\ held' = offboard_mission'
              /\ UNCHANGED todo
    /\ UNCHANGED <<stored, fresh, vehicle, check, flags, current_index, work>>
    /\ NavigatorStep

\* The dm_write() of the state, which may fail, and the end of the call.
WriteState ==
    /\ writing \in {"save", "reset"}
    /\ stored' \in {held, stored}
    /\ writing' = "none" /\ held' = None
    /\ Return
    /\ UNCHANGED <<items, fresh, vehicle, check, flags, place, work>>
    /\ NavigatorStep

\* set_mission_items() when prepare_mission_items() finds no item.
NoItem ==
    /\ mission_type' = "NONE"
    /\ mission_item' = "loiter"
    /\ tries' = 0
    /\ Return

\* The loop of read_mission_item() goes on at another item, if it may.
GoOnAt(i) ==
    /\ current_index' = i
    /\ IF tries + 1 = MaxTries THEN NoItem
       ELSE tries' = tries + 1 /\ UNCHANGED <<mission_type, mission_item, todo>>

\* One turn of that loop, up to its dm_write().
Current == items[offboard_mission.dataman_id][current_index]
\* Mutant: one jump more than the item says.
OneJumpMore == Current.do_jump_current_count <= Current.do_jump_repeat_count

JumpsLeft == Current.do_jump_current_count < Current.do_jump_repeat_count
InRange == current_index \in 0..(offboard_mission.count - 1)

SetItems ==
    /\ Does("items")
    /\ \/ ~InRange /\ NoItem /\ UNCHANGED <<current_index, writing, held>>
       \/ /\ InRange /\ Current.nav_cmd = "jump"
          /\ JumpsLeft
          /\ held' = [Current EXCEPT !.do_jump_current_count = @ + 1]
          /\ writing' = "jump"
          /\ UNCHANGED <<current_index, work, todo>>
       \/ /\ InRange /\ Current.nav_cmd = "jump"
          /\ ~JumpsLeft
          /\ GoOnAt(current_index + 1)
          /\ UNCHANGED <<writing, held>>
       \/ /\ InRange /\ Current.nav_cmd # "jump"
          /\ mission_type' = "OFFBOARD"
          /\ mission_item' = Current.nav_cmd
          /\ tries' = 0
          /\ Call(<<"save">>)
          /\ UNCHANGED <<current_index, writing, held>>
    /\ UNCHANGED <<storage, fresh, vehicle, check, flags, offboard_mission>>
    /\ NavigatorStep

\* The dm_write() of a raised jump counter: of the whole item as it was read.
WriteJump ==
    /\ writing = "jump"
    /\ writing' = "none" /\ held' = None
    /\ \/ /\ items' = [items EXCEPT
                          ![offboard_mission.dataman_id][current_index] = held]
          /\ GoOnAt(held.do_jump_mission_index)
       \/ NoItem /\ UNCHANGED <<items, current_index>>
    /\ UNCHANGED <<stored, fresh, vehicle, check, flags, offboard_mission>>
    /\ NavigatorStep

\* The item is reached and says autocontinue: advance_mission().
Advance ==
    /\ Does("reached")
    /\ mission_type = "OFFBOARD" /\ mission_item # "loiter"
    /\ current_index' = current_index + 1
    /\ Call(<<"items">>)
    /\ UNCHANGED <<storage, fresh, vehicle, check, flags, offboard_mission,
                   work, writing, held>>
    /\ NavigatorStep

\* Mutant: the item stays a landing.
AbortLandingAgain ==
    /\ Does("abort")
    /\ mission_item = "land"
    /\ current_index' = current_index - 1
    /\ Return
    /\ UNCHANGED <<storage, fresh, vehicle, check, flags, offboard_mission,
                   work, writing, held>>
    /\ NavigatorStep

\* do_abort_landing()
AbortLanding ==
    /\ Does("abort")
    /\ mission_item = "land"
    /\ mission_item' = "loiter"
    /\ current_index' = current_index - 1
    /\ Return
    /\ UNCHANGED <<storage, fresh, vehicle, check, flags, offboard_mission,
                   mission_type, tries, writing, held>>
    /\ NavigatorStep

\* The item is not reached, or no landing is to be aborted.
FlyOn ==
    /\ Does("reached") \/ Does("abort")
    /\ Return
    /\ UNCHANGED <<storage, fresh, vehicle, check, flags, place, work,
                   writing, held>>
    /\ NavigatorStep

-----------------------------------------------------------------------------
GroundStation ==
    \/ \E m \in Missions : Upload(m)
    \/ \E seq \in Currents : Accept(seq)
    \/ Abandon
    \/ ClearAll
    \/ \E seq \in Currents : SetCurrent(seq)

Navigator ==
    \/ \E seq \in 0..(MaxCount - 1) : StartMission(seq)
    \/ \E armed \in BOOLEAN : RunActive(armed) \/ RunInactive(armed)
    \/ Activate \/ RunWithoutHome \/ Load
    \/ Update \/ SaveState \/ ResetMission \/ WriteState
    \/ SetItems \/ WriteJump \/ Advance \/ AbortLanding \/ FlyOn

Next == GroundStation \/ Publish \/ Navigator \/ Restart

\* The navigator's loop turns at least once a second (the timeout of its
\* poll), and MAVLink publishes in the call that wrote.
Fairness == WF_vars(Navigator) /\ WF_vars(Publish)

Spec == Init /\ [][Next]_vars
FairSpec == Spec /\ Fairness

-----------------------------------------------------------------------------
(***************************************************************************)
(* Properties.                                                             *)
(***************************************************************************)
Calls == {"run", "update", "reset", "save", "items", "reached", "abort"}

\* Where the jumps of the uploaded missions lead, inside them or not.
Targets ==
    UNION {{m[i].do_jump_mission_index : i \in 1..Len(m)} : m \in Missions}

\* The copies of the state, the places and the index keep their ranges: the
\* index is at most one before or one past a mission, or where a jump leads,
\* and an index that only a jump leads to is never stored.
TypeOK ==
    /\ stored \in MissionState \cup {None}
    /\ items \in [0..1 -> [0..(MaxCount - 1) -> Item]]
    /\ mav \in [dataman_id : 0..1, count : 0..MaxCount]
    /\ uploading \in 0..MaxCount
    /\ pending \in MissionState \cup {None}
    /\ topic \in MissionState \cup {None}
    /\ offboard_mission \in MissionState
    /\ current_index \in -1..MaxCount \cup Targets
    /\ mission_type \in {"NONE", "OFFBOARD"}
    /\ mission_item \in {"none", "waypoint", "land", "loiter"}
    /\ {fresh, home, active, inited, home_inited, first_run, valid,
        need_mission_reset, overtaken} \subseteq BOOLEAN
    /\ seq_total \in 0..MaxCount
    /\ todo \in Seq(Calls)
    /\ writing \in {"none", "save", "reset", "jump"}
    /\ held \in IF writing = "none" THEN {None}
                ELSE IF writing = "jump" THEN Item ELSE MissionState
    /\ tries \in 0..(MaxTries - 1)

\* The stored state names the mission MAVLink last accepted: saving progress
\* and resetting after a flight never put an older mission back, even while
\* the navigator has not seen the new one.  Unless the new one is written
\* between a read of the navigator's and the write it leads to: the lock
\* that is to prevent it is not taken by MAVLink.
StoredIsAccepted ==
    ~overtaken =>
        IF stored = None THEN mav = [dataman_id |-> 0, count |-> 0]
        ELSE /\ stored.dataman_id = mav.dataman_id
             /\ stored.count = mav.count

\* A mission the navigator holds is the accepted one once its publication
\* was taken, through restarts, loads, updates, resets and failed checks.
NavigatorFollows ==
    (/\ ~overtaken /\ pending = None /\ ~fresh
     /\ offboard_mission.count > 0)
        => /\ offboard_mission.dataman_id = mav.dataman_id
           /\ offboard_mission.count = mav.count

\* Between two turns of the loop an active mission flies the item its index
\* names in the accepted mission, and never a jump.
FliesCurrentItem ==
    (/\ ~overtaken /\ pending = None /\ ~fresh
     /\ todo = <<>> /\ active /\ ~first_run
     /\ mission_type = "OFFBOARD" /\ mission_item # "loiter")
        => /\ current_index \in 0..(mav.count - 1)
           /\ mission_item = items[mav.dataman_id][current_index].nav_cmd
           /\ mission_item # "jump"

\* No jump is made more often than its item says, though counters are raised,
\* cleared and overwritten by three operations of two tasks.
JumpsBounded ==
    \A id \in 0..1, i \in 0..(MaxCount - 1) :
        items[id][i].do_jump_current_count <= items[id][i].do_jump_repeat_count

\* A published mission reaches the navigator in every mode, once it has a
\* home position.
PublishedIsTaken == (fresh /\ home) ~> (~fresh \/ ~home)
=============================================================================
