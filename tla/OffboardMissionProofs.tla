------------------------- MODULE OffboardMissionProofs -------------------------
(***************************************************************************)
(* What the storage, the topic and the navigator hold of the offboard      *)
(* mission, for any missions, lengths and number of requests and restarts. *)
(***************************************************************************)
EXTENDS OffboardMission, TLAPS

\* A mission state whose index is left open.
AnyState == [dataman_id : 0..1, count : 0..MaxCount, current_seq : Int]

\* The state s names the mission MAVLink accepted.
Accepted(s) == s.dataman_id = mav.dataman_id /\ s.count = mav.count

StatesOK ==
    /\ stored \in AnyState \cup {None}
    /\ pending \in AnyState \cup {None}
    /\ topic \in AnyState \cup {None}
    /\ offboard_mission \in AnyState
    /\ mav \in [dataman_id : 0..1, count : 0..MaxCount]
    /\ uploading \in 0..MaxCount
    /\ current_index \in Int
    /\ overtaken \in BOOLEAN /\ fresh \in BOOLEAN

\* Before a state is stored, nobody has anything but an empty mission.
NothingYet ==
    stored = None =>
        /\ pending = None /\ topic = None
        /\ mav.dataman_id = 0 /\ mav.count = 0
        /\ offboard_mission.dataman_id = 0 /\ offboard_mission.count = 0

\* What is about to be published, or was published last, was accepted last.
PublicationOK ==
    /\ pending # None => Accepted(pending)
    /\ pending = None /\ topic # None => Accepted(topic)

\* So is a stored state, and one that the navigator is about to write.
StoredOK == ~overtaken /\ stored # None => Accepted(stored)

HeldOK ==
    /\ writing \in {"none", "save", "reset", "jump"}
    /\ writing \in {"save", "reset"} => held \in AnyState
    /\ writing \in {"save", "reset"} /\ ~overtaken => Accepted(held)

\* The inductive invariant for the mission states.
StateInv ==
    /\ StatesOK /\ NothingYet /\ PublicationOK /\ StoredOK /\ HeldOK
    /\ NavigatorFollows

LEMMA NoneIsNoState == None \notin AnyState /\ None \notin Item
  BY NoneAssumption DEF AnyState

USE DEF AnyState

-------------------------------------------------------------------------------
\* An empty mission, in either place.
LEMMA Empty ==
  ASSUME NEW id \in 0..1
  PROVE  /\ State(id, 0, 0) \in AnyState
         /\ State(id, 0, 0).dataman_id = id
         /\ State(id, 0, 0).count = 0
  BY CountAssumption DEF State

LEMMA StateInit == Init => StateInv
<1> SUFFICES ASSUME Init PROVE StateInv
  OBVIOUS
<1>1. /\ stored = None /\ topic = None /\ pending = None /\ uploading = 0
      /\ current_index = -1 /\ writing = "none"
      /\ offboard_mission = State(0, 0, 0)
  BY DEF Init
<1>2. /\ mav \in [dataman_id : 0..1, count : 0..MaxCount]
      /\ mav.dataman_id = 0 /\ mav.count = 0
  BY CountAssumption DEF Init
<1>3. overtaken \in BOOLEAN /\ fresh \in BOOLEAN
  BY DEF Init
<1>4. StatesOK
  BY <1>1, <1>2, <1>3, Empty, CountAssumption DEF StatesOK
<1> QED
  BY <1>1, <1>2, <1>4, Empty
     DEF StateInv, NothingYet, PublicationOK, StoredOK, HeldOK, NavigatorFollows

\* A state is written by MAVLink, or the write fails.
LEMMA StateUpdated ==
  ASSUME StateInv, pending = None, uploading' \in 0..MaxCount,
         NEW new \in AnyState, UpdateActiveMission(new)
  PROVE  StateInv'
<1>1. new # None
  BY NoneIsNoState
<1>2. UNCHANGED <<offboard_mission, current_index, writing, held, topic, fresh>>
  BY DEF UpdateActiveMission, NavigatorUnchanged, place, step
<1>3. CASE UNCHANGED <<stored, mav, pending, overtaken>>
  BY <1>2, <1>3
     DEF StateInv, StatesOK, NothingYet, PublicationOK, StoredOK, HeldOK,
         NavigatorFollows, Accepted
<1>4. CASE /\ stored' = new
           /\ mav' = [dataman_id |-> new.dataman_id, count |-> new.count]
           /\ pending' = new
           /\ overtaken' = (overtaken \/ writing \in {"save", "reset"})
  <2>1. Accepted(new)' /\ mav' \in [dataman_id : 0..1, count : 0..MaxCount]
    BY <1>4 DEF Accepted
  <2>2. overtaken' \in BOOLEAN
    BY <1>4
  <2>3. StatesOK' /\ NothingYet' /\ PublicationOK' /\ StoredOK' /\ NavigatorFollows'
    BY <1>1, <1>2, <1>4, <2>1, <2>2
       DEF StateInv, StatesOK, NothingYet, PublicationOK, StoredOK,
           NavigatorFollows, Accepted
  <2>4. writing' \in {"save", "reset"} => overtaken'
    BY <1>2, <1>4
  <2>5. HeldOK'
    BY <1>2, <2>4 DEF StateInv, HeldOK
  <2> QED  BY <2>3, <2>5 DEF StateInv
<1> QED  BY <1>3, <1>4 DEF UpdateActiveMission

LEMMA StateByGroundStation ==
  ASSUME StateInv, GroundStation PROVE StateInv'
<1> USE DEF StateInv, StatesOK
<1>1. ASSUME NEW m \in Missions, Upload(m) PROVE StateInv'
  <2>1. UNCHANGED <<stored, pending, topic, offboard_mission, mav, current_index,
                    overtaken, fresh, writing, held>>
    BY <1>1 DEF Upload, NavigatorUnchanged, place, step
  <2>2. uploading' \in 0..MaxCount
    BY <1>1, MissionAssumption, CountAssumption DEF Upload
  <2> QED
    BY <2>1, <2>2
       DEF NothingYet, PublicationOK, StoredOK, HeldOK, NavigatorFollows, Accepted
<1>2. ASSUME NEW seq \in Currents, Accept(seq) PROVE StateInv'
  <2>1. State(1 - mav.dataman_id, uploading, seq) \in AnyState
    BY CurrentsAssumption DEF State
  <2>2. uploading' \in 0..MaxCount
    BY <1>2, CountAssumption DEF Accept
  <2>3. pending = None /\ UpdateActiveMission(State(1 - mav.dataman_id, uploading, seq))
    BY <1>2 DEF Accept
  <2> QED  BY <2>1, <2>2, <2>3, StateUpdated
<1>3. ASSUME Abandon PROVE StateInv'
  <2>1. UNCHANGED <<stored, pending, topic, offboard_mission, mav, current_index,
                    overtaken, fresh, writing, held>>
    BY <1>3 DEF Abandon, NavigatorUnchanged, storage, place, step
  <2>2. uploading' \in 0..MaxCount
    BY <1>3, CountAssumption DEF Abandon
  <2> QED
    BY <2>1, <2>2
       DEF NothingYet, PublicationOK, StoredOK, HeldOK, NavigatorFollows, Accepted
<1>4. ASSUME ClearAll PROVE StateInv'
  <2>1. State(1 - mav.dataman_id, 0, 0) \in AnyState
    BY CountAssumption DEF State
  <2>2. uploading' \in 0..MaxCount /\ pending = None
    BY <1>4 DEF ClearAll, Request
  <2>3. UpdateActiveMission(State(1 - mav.dataman_id, 0, 0))
    BY <1>4 DEF ClearAll
  <2> QED  BY <2>1, <2>2, <2>3, StateUpdated
<1>5. ASSUME NEW seq \in Currents, SetCurrent(seq) PROVE StateInv'
  <2>1. State(mav.dataman_id, mav.count, seq) \in AnyState
    BY CurrentsAssumption DEF State
  <2>2. uploading' \in 0..MaxCount /\ pending = None
    BY <1>5 DEF SetCurrent, Request
  <2>3. UpdateActiveMission(State(mav.dataman_id, mav.count, seq))
    BY <1>5 DEF SetCurrent
  <2> QED  BY <2>1, <2>2, <2>3, StateUpdated
<1> QED  BY <1>1, <1>2, <1>3, <1>4, <1>5 DEF GroundStation

LEMMA StatePublished == ASSUME StateInv, Publish PROVE StateInv'
<1>1. UNCHANGED <<stored, mav, uploading, overtaken, offboard_mission,
                  current_index, writing, held>>
  BY DEF Publish, NavigatorUnchanged, storage, place, step
<1>2. pending # None /\ pending' = None /\ topic' = pending /\ fresh' = TRUE
  BY DEF Publish
<1> QED
  BY <1>1, <1>2
     DEF StateInv, StatesOK, NothingYet, PublicationOK, StoredOK, HeldOK,
         NavigatorFollows, Accepted

LEMMA StateRestarted == ASSUME StateInv, Restart PROVE StateInv'
<1>1. /\ stored' = stored /\ topic' = stored /\ pending' = None /\ uploading' = 0
      /\ offboard_mission' = State(0, 0, 0) /\ current_index' = -1
      /\ writing' = "none" /\ overtaken' = FALSE
  BY DEF Restart, storage
<1>2. fresh' \in BOOLEAN /\ overtaken' \in BOOLEAN
  <2>1. fresh' \in BOOLEAN
    BY DEF Restart
  <2> QED  BY <1>1, <2>1
<1>3. CASE stored = None
  <2>1. /\ mav' \in [dataman_id : 0..1, count : 0..MaxCount]
        /\ mav'.dataman_id = 0 /\ mav'.count = 0
    BY <1>3, CountAssumption DEF Restart
  <2>2. StatesOK'
    BY <1>1, <1>2, <1>3, <2>1, Empty, CountAssumption DEF StatesOK
  <2> QED
    BY <1>1, <1>3, <2>1, <2>2, Empty
       DEF StateInv, NothingYet, PublicationOK, StoredOK, HeldOK,
           NavigatorFollows
<1>4. CASE stored # None
  <2>1. /\ mav' \in [dataman_id : 0..1, count : 0..MaxCount]
        /\ mav'.dataman_id = stored.dataman_id /\ mav'.count = stored.count
    BY <1>4 DEF Restart, StateInv, StatesOK
  <2>2. StatesOK'
    BY <1>1, <1>2, <2>1, Empty, CountAssumption DEF StateInv, StatesOK
  <2> QED
    BY <1>1, <1>4, <2>1, <2>2, Empty
       DEF StateInv, NothingYet, PublicationOK, StoredOK, HeldOK,
           NavigatorFollows, Accepted
<1> QED  BY <1>3, <1>4

-------------------------------------------------------------------------------
\* A step of the navigator that leaves its mission, the storage and the held
\* state alone.
LEMMA StateKept ==
  ASSUME StateInv, NavigatorStep, current_index' \in Int,
         UNCHANGED <<stored, offboard_mission, fresh>>,
         \/ UNCHANGED <<writing, held>>
         \/ writing' \in {"none", "jump"}
  PROVE  StateInv'
<1>1. UNCHANGED <<mav, uploading, pending, topic, overtaken>>
  BY DEF NavigatorStep, mavlink
<1> QED
  BY <1>1
     DEF StateInv, StatesOK, NothingYet, PublicationOK, StoredOK, HeldOK,
         NavigatorFollows, Accepted

LEMMA StateLoaded == ASSUME StateInv, Load PROVE StateInv'
<1>1. UNCHANGED <<stored, mav, uploading, pending, topic, overtaken, fresh,
                  writing, held>>
  BY DEF Load, Turn, NavigatorStep, mavlink, storage
<1>2. CASE stored = None
  <2>1. UNCHANGED <<offboard_mission, current_index>>
    BY <1>2 DEF Load, place
  <2> QED
    BY <1>1, <2>1
       DEF StateInv, StatesOK, NothingYet, PublicationOK, StoredOK, HeldOK,
           NavigatorFollows, Accepted
<1>3. CASE stored # None
  <2>1. /\ offboard_mission' = [offboard_mission EXCEPT !.dataman_id = stored.dataman_id,
                                                        !.count = stored.count]
        /\ current_index' = stored.current_seq
    BY <1>3 DEF Load, LoadedMission
  <2>2. /\ offboard_mission' \in AnyState
        /\ offboard_mission'.dataman_id = stored.dataman_id
        /\ offboard_mission'.count = stored.count
        /\ current_index' \in Int
    BY <1>3, <2>1 DEF StateInv, StatesOK
  <2> QED
    BY <1>1, <1>3, <2>2
       DEF StateInv, StatesOK, NothingYet, PublicationOK, StoredOK, HeldOK,
           NavigatorFollows, Accepted
<1> QED  BY <1>2, <1>3

LEMMA StateTaken == ASSUME StateInv, Update PROVE StateInv'
<1>1. /\ UNCHANGED <<stored, mav, uploading, pending, topic, overtaken, writing, held>>
      /\ fresh' = FALSE
  BY DEF Update, NavigatorStep, mavlink, storage
<1> DEFINE new == IF topic = None THEN offboard_mission ELSE topic
<1>2. new \in AnyState
  BY DEF StateInv, StatesOK
<1>3. CASE topic # None /\ valid'
  <2>1. offboard_mission' = topic /\ current_index' = IndexFor(topic)
    BY <1>3 DEF Update
  <2>2. IndexFor(topic) \in Int
    BY <1>3 DEF IndexFor, StateInv, StatesOK
  <2> QED
    BY <1>1, <1>3, <2>1, <2>2
       DEF StateInv, StatesOK, NothingYet, PublicationOK, StoredOK, HeldOK,
           NavigatorFollows, Accepted
<1>4. CASE ~(topic # None /\ valid')
  <2>1. offboard_mission' = State(new.dataman_id, 0, 0) /\ current_index' = 0
    BY <1>4 DEF Update
  <2>2. /\ offboard_mission' \in AnyState
        /\ offboard_mission'.dataman_id = new.dataman_id
        /\ offboard_mission'.count = 0
    BY <1>2, <2>1, CountAssumption DEF State
  <2>3. stored = None => offboard_mission'.dataman_id = 0
    BY <2>2 DEF StateInv, NothingYet
  <2> HIDE DEF new
  <2>4. fresh' \in BOOLEAN
    BY <1>1
  <2>5. StatesOK'
    BY <1>1, <2>1, <2>2, <2>4 DEF StateInv, StatesOK
  <2> QED
    BY <1>1, <2>2, <2>3, <2>5
       DEF StateInv, NothingYet, PublicationOK, StoredOK, HeldOK,
           NavigatorFollows, Accepted
<1> QED  BY <1>3, <1>4

LEMMA StateSaving == ASSUME StateInv, SaveState PROVE StateInv'
<1>1. UNCHANGED <<stored, mav, uploading, pending, topic, overtaken, fresh,
                  offboard_mission, current_index>>
  BY DEF SaveState, NavigatorStep, mavlink, storage, place
<1>2. CASE stored = None /\ writing' = "save" /\ held' = Own
  <2>1. held' \in AnyState /\ held'.dataman_id = 0 /\ held'.count = 0
    BY <1>2 DEF Own, State, StateInv, StatesOK, NothingYet
  <2> QED
    BY <1>1, <1>2, <2>1
       DEF StateInv, StatesOK, NothingYet, PublicationOK, StoredOK, HeldOK,
           NavigatorFollows, Accepted
<1>3. CASE stored # None /\ writing' = "save" /\ held' = stored
  BY <1>1, <1>3
     DEF StateInv, StatesOK, NothingYet, PublicationOK, StoredOK, HeldOK,
         NavigatorFollows, Accepted
<1>4. CASE UNCHANGED <<writing, held>>
  BY <1>1, <1>4
     DEF StateInv, StatesOK, NothingYet, PublicationOK, StoredOK, HeldOK,
         NavigatorFollows, Accepted
<1> QED  BY <1>2, <1>3, <1>4 DEF SaveState

LEMMA StateResetting == ASSUME StateInv, ResetMission PROVE StateInv'
<1>1. UNCHANGED <<stored, mav, uploading, pending, topic, overtaken, fresh,
                  current_index>>
  BY DEF ResetMission, NavigatorStep, mavlink, storage
<1>2. CASE stored = None
  <2>1. UNCHANGED <<offboard_mission, writing, held>>
    BY <1>2 DEF ResetMission
  <2> QED
    BY <1>1, <2>1
       DEF StateInv, StatesOK, NothingYet, PublicationOK, StoredOK, HeldOK,
           NavigatorFollows, Accepted
<1>3. CASE stored # None
  <2>1. /\ offboard_mission' = [stored EXCEPT !.current_seq = 0]
        /\ writing' = "reset" /\ held' = offboard_mission'
    BY <1>3 DEF ResetMission, ResetState
  <2>2. /\ offboard_mission' \in AnyState
        /\ offboard_mission'.dataman_id = stored.dataman_id
        /\ offboard_mission'.count = stored.count
    BY <1>3, <2>1 DEF StateInv, StatesOK
  <2> QED
    BY <1>1, <1>3, <2>1, <2>2
       DEF StateInv, StatesOK, NothingYet, PublicationOK, StoredOK, HeldOK,
           NavigatorFollows, Accepted
<1> QED  BY <1>2, <1>3

LEMMA StateWritten == ASSUME StateInv, WriteState PROVE StateInv'
<1>1. /\ UNCHANGED <<mav, uploading, pending, topic, overtaken, fresh,
                     offboard_mission, current_index>>
      /\ writing \in {"save", "reset"}
      /\ writing' = "none"
  BY DEF WriteState, NavigatorStep, mavlink, place
<1>2. CASE stored' = stored
  BY <1>1, <1>2
     DEF StateInv, StatesOK, NothingYet, PublicationOK, StoredOK, HeldOK,
         NavigatorFollows, Accepted
<1>3. CASE stored' = held
  BY <1>1, <1>3, NoneIsNoState
     DEF StateInv, StatesOK, NothingYet, PublicationOK, StoredOK, HeldOK,
         NavigatorFollows, Accepted
<1> QED  BY <1>2, <1>3 DEF WriteState

(***************************************************************************)
(* The items: a jump counter is at most what its item allows, in storage   *)
(* and in the navigator's hands.                                           *)
(***************************************************************************)
\* An index inside a mission, next to one, or where a jump leads.
Indices == -1..MaxCount \cup Targets

GoodItem == {i \in Item : /\ i.do_jump_current_count <= i.do_jump_repeat_count
                          /\ i.do_jump_mission_index \in Indices}

ItemInv ==
    /\ items \in [0..1 -> [0..(MaxCount - 1) -> GoodItem]]
    /\ writing = "jump" => held \in GoodItem

LEMMA ItemsInit == Init => ItemInv
<1>1. Waypoint \in GoodItem
  BY CountAssumption DEF Waypoint, GoodItem, Item, Indices
<1> QED  BY <1>1 DEF Init, ItemInv

LEMMA ItemsBounded == ItemInv => JumpsBounded
  BY DEF ItemInv, GoodItem, JumpsBounded

\* An uploaded item has made no jump.
LEMMA Uploaded ==
  ASSUME StateInv, ItemInv, NEW m \in Missions, Upload(m) PROVE ItemInv'
<1> DEFINE id == 1 - mav.dataman_id
           new == [i \in 0..(MaxCount - 1) |->
                      IF i < Len(m) THEN m[i + 1] ELSE items[id][i]]
<1>1. id \in 0..1
  BY DEF StateInv, StatesOK
<1>2. ASSUME NEW i \in 0..(MaxCount - 1), i < Len(m) PROVE m[i + 1] \in GoodItem
  <2>1. m \in Seq(Item) /\ Len(m) \in Nat /\ i + 1 \in 1..Len(m)
    BY <1>2, MissionAssumption, CountAssumption
  <2>2. m[i + 1] \in Item /\ m[i + 1].do_jump_current_count = 0
    BY <2>1, MissionAssumption
  <2>3. m[i + 1].do_jump_mission_index \in Targets
    BY <2>1 DEF Targets
  <2> QED  BY <2>2, <2>3 DEF GoodItem, Item, Indices
<1>3. ASSUME NEW i \in 0..(MaxCount - 1) PROVE items[id][i] \in GoodItem
  BY <1>1 DEF ItemInv
<1>4. new \in [0..(MaxCount - 1) -> GoodItem]
  BY <1>2, <1>3
<1>5. items' = [items EXCEPT ![id] = new]
  BY DEF Upload
<1>6. UNCHANGED <<writing, held>>
  BY DEF Upload, NavigatorUnchanged, step
<1> HIDE DEF id, new
<1> QED  BY <1>1, <1>4, <1>5, <1>6 DEF ItemInv

\* Clearing counters keeps them below their limits.
LEMMA Cleared ==
  ASSUME StateInv, ItemInv, ResetMission PROVE ItemInv'
<1>1. CASE stored = None
  BY <1>1 DEF ResetMission, ItemInv
<1>2. CASE stored # None
  <2> DEFINE id == stored.dataman_id
  <2>1. id \in 0..1 /\ stored.count \in Nat
    BY <1>2, CountAssumption DEF StateInv, StatesOK
  <2>2. PICK n \in 0..stored.count : items' = ResetJumps(id, n)
    BY <1>2 DEF ResetMission
  <2> DEFINE clear == [i \in 0..(MaxCount - 1) |->
                 IF i < n THEN [items[id][i] EXCEPT !.do_jump_current_count = 0]
                 ELSE items[id][i]]
  <2>3. ASSUME NEW i \in 0..(MaxCount - 1)
        PROVE  /\ items[id][i] \in GoodItem
               /\ [items[id][i] EXCEPT !.do_jump_current_count = 0] \in GoodItem
    <3>1. items[id][i] \in GoodItem
      BY <2>1 DEF ItemInv
    <3> QED  BY <3>1 DEF GoodItem, Item
  <2>4. clear \in [0..(MaxCount - 1) -> GoodItem]
    BY <2>3
  <2>5. items' = [items EXCEPT ![id] = clear]
    BY <2>2 DEF ResetJumps
  <2>6. writing' = "reset"
    BY <1>2 DEF ResetMission
  <2> HIDE DEF id, clear
  <2> QED  BY <2>1, <2>4, <2>5, <2>6 DEF ItemInv
<1> QED  BY <1>1, <1>2

\* A counter is raised only below its limit.
LEMMA Raised ==
  ASSUME StateInv, ItemInv, SetItems PROVE ItemInv'
<1>1. items' = items
  BY DEF SetItems, storage
<1>2. CASE UNCHANGED <<writing, held>>
  BY <1>1, <1>2 DEF ItemInv
<1>3. CASE /\ InRange /\ JumpsLeft
           /\ held' = [Current EXCEPT !.do_jump_current_count = @ + 1]
  <2>1. Current \in GoodItem
    <3>1. /\ offboard_mission.dataman_id \in 0..1
          /\ current_index \in 0..(MaxCount - 1)
      BY <1>3, CountAssumption DEF InRange, StateInv, StatesOK
    <3> QED  BY <3>1 DEF Current, ItemInv
  <2> DEFINE c == Current
  <2>2. c.do_jump_current_count < c.do_jump_repeat_count
    BY <1>3 DEF JumpsLeft
  <2>3. held' = [c EXCEPT !.do_jump_current_count = c.do_jump_current_count + 1]
    BY <1>3
  <2>4. c \in GoodItem
    BY <2>1
  <2> HIDE DEF c
  <2>5. held' \in GoodItem
    BY <2>2, <2>3, <2>4 DEF GoodItem, Item
  <2> QED  BY <1>1, <2>5 DEF ItemInv
<1> QED  BY <1>2, <1>3 DEF SetItems

LEMMA JumpWritten ==
  ASSUME StateInv, ItemInv, WriteJump PROVE ItemInv'
<1>1. held \in GoodItem /\ writing' = "none"
  BY DEF WriteJump, ItemInv
<1>2. CASE items' = items
  BY <1>1, <1>2 DEF ItemInv
<1>3. CASE items' = [items EXCEPT
                        ![offboard_mission.dataman_id][current_index] = held]
  <2> DEFINE id == offboard_mission.dataman_id
             new == [items[id] EXCEPT ![current_index] = held]
  <2>1. id \in 0..1
    BY DEF StateInv, StatesOK
  <2>2. new \in [0..(MaxCount - 1) -> GoodItem]
    BY <1>1, <2>1 DEF ItemInv
  <2>3. items' = [items EXCEPT ![id] = new]
    BY <1>3
  <2> HIDE DEF id, new
  <2> QED  BY <1>1, <2>1, <2>2, <2>3 DEF ItemInv
<1> QED  BY <1>2, <1>3 DEF WriteJump

LEMMA ItemsKept ==
  ASSUME ItemInv, UNCHANGED items,
         UNCHANGED <<writing, held>> \/ writing' # "jump"
  PROVE  ItemInv'
  BY DEF ItemInv

-------------------------------------------------------------------------------
LEMMA StateByNavigator ==
  ASSUME StateInv, ItemInv, Navigator PROVE StateInv'
<1>a. current_index \in Int /\ MaxCount \in Nat
  BY CountAssumption DEF StateInv, StatesOK
<1>1. ASSUME NEW seq \in 0..(MaxCount - 1), StartMission(seq) PROVE StateInv'
  <2>1. /\ current_index' \in Int
        /\ UNCHANGED <<stored, offboard_mission, fresh, writing, held>>
        /\ NavigatorStep
    BY <1>1, <1>a DEF StartMission, storage
  <2> QED  BY <2>1, StateKept
<1>2. ASSUME NEW is_active, NEW calls, Turn(is_active, calls), UNCHANGED place
      PROVE  StateInv'
  <2>1. /\ current_index' \in Int
        /\ UNCHANGED <<stored, offboard_mission, fresh, writing, held>>
        /\ NavigatorStep
    BY <1>2, <1>a DEF Turn, storage, place
  <2> QED  BY <2>1, StateKept
<1>3. ASSUME NEW armed \in BOOLEAN, RunActive(armed) PROVE StateInv'
  BY <1>2, <1>3 DEF RunActive, place
<1>4. ASSUME NEW armed \in BOOLEAN, RunInactive(armed) PROVE StateInv'
  BY <1>2, <1>4 DEF RunInactive, place
<1>5. ASSUME Activate PROVE StateInv'
  BY <1>2, <1>5 DEF Activate, place
<1>6. ASSUME RunWithoutHome PROVE StateInv'
  BY <1>2, <1>6 DEF RunWithoutHome, place
<1>7. ASSUME SetItems PROVE StateInv'
  <2>1. UNCHANGED <<stored, offboard_mission, fresh>> /\ NavigatorStep
    BY <1>7 DEF SetItems, storage
  <2>2. CASE UNCHANGED <<current_index, writing, held>>
    BY <2>1, <2>2, <1>a, StateKept
  <2>3. CASE writing' = "jump" /\ UNCHANGED current_index
    BY <2>1, <2>3, <1>a, StateKept
  <2>4. CASE GoOnAt(current_index + 1) /\ UNCHANGED <<writing, held>>
    <3>1. current_index' \in Int
      BY <2>4, <1>a DEF GoOnAt
    <3> QED  BY <2>1, <2>4, <3>1, StateKept
  <2>5. CASE Call(<<"save">>) /\ UNCHANGED <<current_index, writing, held>>
    BY <2>1, <2>5, <1>a, StateKept
  <2> QED  BY <1>7, <2>2, <2>3, <2>4, <2>5 DEF SetItems
<1>8. ASSUME Advance PROVE StateInv'
  <2>1. /\ current_index' \in Int
        /\ UNCHANGED <<stored, offboard_mission, fresh, writing, held>>
        /\ NavigatorStep
    BY <1>8, <1>a DEF Advance, storage
  <2> QED  BY <2>1, StateKept
<1>9. ASSUME AbortLanding PROVE StateInv'
  <2>1. /\ current_index' \in Int
        /\ UNCHANGED <<stored, offboard_mission, fresh, writing, held>>
        /\ NavigatorStep
    BY <1>9, <1>a DEF AbortLanding, storage
  <2> QED  BY <2>1, StateKept
<1>10. ASSUME FlyOn PROVE StateInv'
  <2>1. /\ current_index' \in Int
        /\ UNCHANGED <<stored, offboard_mission, fresh, writing, held>>
        /\ NavigatorStep
    BY <1>10, <1>a DEF FlyOn, storage, place
  <2> QED  BY <2>1, StateKept
<1>11. ASSUME WriteJump PROVE StateInv'
  <2>1. /\ UNCHANGED <<stored, offboard_mission, fresh>> /\ NavigatorStep
        /\ writing' = "none"
    BY <1>11 DEF WriteJump
  <2>2. current_index' \in Int
    <3>1. CASE GoOnAt(held.do_jump_mission_index)
      <4>1. held.do_jump_mission_index \in Int
        BY <1>11, CountAssumption DEF WriteJump, ItemInv, GoodItem, Item
      <4> QED  BY <3>1, <4>1 DEF GoOnAt
    <3>2. CASE UNCHANGED current_index
      BY <3>2, <1>a
    <3> QED  BY <1>11, <3>1, <3>2 DEF WriteJump
  <2> QED  BY <2>1, <2>2, StateKept
<1> QED
  BY <1>1, <1>3, <1>4, <1>5, <1>6, <1>7, <1>8, <1>9, <1>10, <1>11,
     StateLoaded, StateTaken, StateSaving, StateResetting, StateWritten
     DEF Navigator

LEMMA ItemsByNavigator ==
  ASSUME StateInv, ItemInv, Navigator PROVE ItemInv'
<1>1. ASSUME \/ \E seq \in 0..(MaxCount - 1) : StartMission(seq)
             \/ \E armed \in BOOLEAN : RunActive(armed) \/ RunInactive(armed)
             \/ Activate \/ RunWithoutHome \/ Load
             \/ Update \/ Advance \/ AbortLanding \/ FlyOn
      PROVE  UNCHANGED <<items, writing, held>>
  BY <1>1
     DEF StartMission, RunActive, RunInactive, Activate, RunWithoutHome, Load,
         Turn, Update, Advance, AbortLanding, FlyOn, storage
<1>2. ASSUME SaveState \/ WriteState
      PROVE  /\ UNCHANGED items
             /\ UNCHANGED <<writing, held>> \/ writing' # "jump"
  BY <1>2 DEF SaveState, WriteState, storage
<1> QED
  BY <1>1, <1>2, ItemsKept, Cleared, Raised, JumpWritten DEF Navigator

\* No state is written over another one and no counter passes its limit: the
\* inductive invariant.
LEMMA Step == StateInv /\ ItemInv /\ [Next]_vars => StateInv' /\ ItemInv'
<1> SUFFICES ASSUME StateInv, ItemInv, [Next]_vars PROVE StateInv' /\ ItemInv'
  OBVIOUS
<1>1. CASE GroundStation
  <2>1. ASSUME NEW m \in Missions, Upload(m) PROVE ItemInv'
    BY <2>1, Uploaded
  <2>2. ASSUME \/ \E seq \in Currents : Accept(seq) \/ SetCurrent(seq)
               \/ Abandon \/ ClearAll
        PROVE  UNCHANGED <<items, writing, held>>
    BY <2>2
       DEF Accept, SetCurrent, Abandon, ClearAll, UpdateActiveMission,
           NavigatorUnchanged, storage, step
  <2>3. ItemInv'
    BY <1>1, <2>1, <2>2, ItemsKept DEF GroundStation
  <2> QED  BY <1>1, <2>3, StateByGroundStation
<1>2. CASE Publish
  BY <1>2, StatePublished, ItemsKept
     DEF Publish, NavigatorUnchanged, storage, step
<1>3. CASE Navigator
  BY <1>3, StateByNavigator, ItemsByNavigator
<1>4. CASE Restart
  BY <1>4, StateRestarted, ItemsKept DEF Restart, storage
<1>5. CASE UNCHANGED vars
  BY <1>5
     DEF vars, storage, mavlink, place, step, StateInv, StatesOK, NothingYet,
         PublicationOK, StoredOK, HeldOK, NavigatorFollows, Accepted, ItemInv
<1> QED  BY <1>1, <1>2, <1>3, <1>4, <1>5 DEF Next

LEMMA Invariant == Spec => [](StateInv /\ ItemInv)
<1>1. Init => StateInv /\ ItemInv
  BY StateInit, ItemsInit
<1> QED  BY <1>1, Step, PTL DEF Spec

-------------------------------------------------------------------------------
(***************************************************************************)
(* The navigator's index, its item and the calls it has still to make.     *)
(***************************************************************************)
RangesOK ==
    /\ stored \in MissionState \cup {None}
    /\ pending \in MissionState \cup {None}
    /\ topic \in MissionState \cup {None}
    /\ offboard_mission \in MissionState
    /\ current_index \in Indices
    /\ stored = None => current_index \in -1..MaxCount /\ writing # "jump"
    /\ writing \in {"save", "reset"} => held \in MissionState
    /\ seq_total \in 0..MaxCount

ModeOK ==
    /\ home \in BOOLEAN /\ active \in BOOLEAN /\ inited \in BOOLEAN
    /\ home_inited \in BOOLEAN /\ need_mission_reset \in BOOLEAN
    /\ first_run \in BOOLEAN /\ valid \in BOOLEAN
    /\ mission_type \in {"NONE", "OFFBOARD"}
    /\ mission_item \in {"none", "waypoint", "land", "loiter"}
    /\ mission_item = "land" => mission_type = "OFFBOARD"
    /\ tries \in 0..(MaxTries - 1)
    /\ active <=> ~first_run

\* None of the calls s sets the items.
NoItems(s) == \A i \in 1..Len(s) : s[i] # "items"

\* The calls s of a turn are in an order in which the items are set after
\* whatever replaces the mission that is flown, and before a reached item or a
\* landing is looked at.
Ordered(s, is_active) ==
    /\ s \in Seq(Calls)
    /\ is_active => \A i \in 1..Len(s) :
                       s[i] \in {"update", "reset"} =>
                           \E j \in (i + 1)..Len(s) : s[j] = "items"
    /\ \A i \in 1..Len(s) :
          s[i] \in {"reached", "abort"} =>
              is_active /\ \A j \in (i + 1)..Len(s) : s[j] # "items"

\* The calls due are so ordered, and a write is made by the first of them.
AgendaOK ==
    /\ Ordered(todo, active)
    /\ writing # "none" => todo # <<>>
    /\ writing \in {"save", "reset"} => todo[1] = writing
    /\ writing = "jump" => todo[1] = "items"
    /\ writing = "none" => held = None

\* The navigator flies an item, and is not about to set another one.
OnItem ==
    /\ active /\ mission_type = "OFFBOARD" /\ mission_item # "loiter"
    /\ NoItems(todo)

IndexOK == OnItem => InRange

\* It is the item in the storage, as long as no newer mission is on its way.
ItemOK ==
    (OnItem /\ ~overtaken /\ pending = None /\ ~fresh) =>
        mission_item = Current.nav_cmd /\ mission_item # "jump"

FlightInv == RangesOK /\ ModeOK /\ AgendaOK /\ IndexOK /\ ItemOK

\* The first call, and the calls after it.
LEMMA FirstCall ==
  ASSUME NEW s \in Seq(Calls), s # <<>>
  PROVE  /\ Len(s) \in Nat /\ Len(s) >= 1 /\ Head(s) = s[1]
         /\ Tail(s) \in Seq(Calls) /\ Len(Tail(s)) = Len(s) - 1
         /\ \A i \in 1..(Len(s) - 1) : Tail(s)[i] = s[i + 1]
  OBVIOUS

\* One call put in the place of the first.
LEMMA OtherCall ==
  ASSUME NEW s \in Seq(Calls), s # <<>>, NEW c \in Calls
  PROVE  /\ <<c>> \o Tail(s) \in Seq(Calls)
         /\ Len(<<c>> \o Tail(s)) = Len(s)
         /\ (<<c>> \o Tail(s))[1] = c
         /\ \A i \in 2..Len(s) : (<<c>> \o Tail(s))[i] = s[i]
  BY FirstCall

\* The order survives the end of the first call.
LEMMA OrderedReturn ==
  ASSUME NEW s, NEW is_active, Ordered(s, is_active), s # <<>>
  PROVE  Ordered(Tail(s), is_active)
<1> DEFINE t == Tail(s)
<1>1. /\ s \in Seq(Calls) /\ t \in Seq(Calls) /\ Len(s) \in Nat
      /\ Len(t) = Len(s) - 1
      /\ \A i \in 1..Len(t) : t[i] = s[i + 1]
  BY FirstCall DEF Ordered
<1> HIDE DEF t
<1>2. ASSUME is_active, NEW i \in 1..Len(t), t[i] \in {"update", "reset"}
      PROVE  \E j \in (i + 1)..Len(t) : t[j] = "items"
  <2>1. i + 1 \in 1..Len(s) /\ s[i + 1] \in {"update", "reset"}
    BY <1>1, <1>2
  <2>2. PICK j \in (i + 2)..Len(s) : s[j] = "items"
    BY <1>2, <2>1 DEF Ordered
  <2>3. j - 1 \in (i + 1)..Len(t) /\ t[j - 1] = s[j]
    BY <1>1, <2>2
  <2> QED  BY <2>2, <2>3
<1>3. ASSUME NEW i \in 1..Len(t), t[i] \in {"reached", "abort"}
      PROVE  is_active /\ \A j \in (i + 1)..Len(t) : t[j] # "items"
  <2>1. i + 1 \in 1..Len(s) /\ s[i + 1] \in {"reached", "abort"}
    BY <1>1, <1>3
  <2>2. is_active /\ \A j \in (i + 2)..Len(s) : s[j] # "items"
    BY <2>1 DEF Ordered
  <2> QED  BY <1>1, <2>2
<1>4. Ordered(t, is_active)
  BY <1>1, <1>2, <1>3 DEF Ordered
<1> QED  BY <1>4 DEF t

\* It survives a call that saves or sets the items taking the first one's place.
LEMMA OrderedCall ==
  ASSUME NEW s, NEW is_active, Ordered(s, is_active), s # <<>>,
         NEW c \in {"save", "items"}
  PROVE  Ordered(<<c>> \o Tail(s), is_active)
<1> DEFINE t == <<c>> \o Tail(s)
<1>1. /\ s \in Seq(Calls) /\ t \in Seq(Calls) /\ Len(s) \in Nat
      /\ Len(t) = Len(s) /\ t[1] = c
      /\ \A i \in 2..Len(t) : t[i] = s[i]
  BY FirstCall, OtherCall DEF Ordered, Calls
<1> HIDE DEF t
<1>2. ASSUME is_active, NEW i \in 1..Len(t), t[i] \in {"update", "reset"}
      PROVE  \E j \in (i + 1)..Len(t) : t[j] = "items"
  <2>1. i \in 2..Len(s) /\ s[i] \in {"update", "reset"}
    BY <1>1, <1>2
  <2>2. PICK j \in (i + 1)..Len(s) : s[j] = "items"
    BY <1>2, <2>1 DEF Ordered
  <2> QED  BY <1>1, <2>1, <2>2
<1>3. ASSUME NEW i \in 1..Len(t), t[i] \in {"reached", "abort"}
      PROVE  is_active /\ \A j \in (i + 1)..Len(t) : t[j] # "items"
  <2>1. i \in 2..Len(s) /\ s[i] \in {"reached", "abort"}
    BY <1>1, <1>3
  <2>2. is_active /\ \A j \in (i + 1)..Len(s) : s[j] # "items"
    BY <2>1 DEF Ordered
  <2> QED  BY <1>1, <2>1, <2>2
<1>4. Ordered(t, is_active)
  BY <1>1, <1>2, <1>3 DEF Ordered
<1> QED  BY <1>4 DEF t

\* After a call that replaces the mission that is flown, the items are set.
LEMMA ItemsDue ==
  ASSUME NEW s, Ordered(s, TRUE), s # <<>>, s[1] \in {"update", "reset"}
  PROVE  /\ ~NoItems(s) /\ ~NoItems(Tail(s))
         /\ ~NoItems(<<"save">> \o Tail(s))
<1>1. s \in Seq(Calls) /\ Len(s) \in Nat /\ 1 \in 1..Len(s)
  BY FirstCall DEF Ordered
<1>2. PICK j \in 2..Len(s) : s[j] = "items"
  BY <1>1 DEF Ordered
<1>3. ~NoItems(s)
  BY <1>1, <1>2 DEF NoItems
<1>4. ~NoItems(Tail(s))
  <2>1. j - 1 \in 1..Len(Tail(s)) /\ Tail(s)[j - 1] = s[j]
    BY <1>1, <1>2, FirstCall
  <2> QED  BY <1>2, <2>1 DEF NoItems
<1>5. ~NoItems(<<"save">> \o Tail(s))
  <2>1. /\ j \in 1..Len(<<"save">> \o Tail(s))
        /\ (<<"save">> \o Tail(s))[j] = s[j]
    BY <1>1, <1>2, OtherCall DEF Calls
  <2> QED  BY <1>2, <2>1 DEF NoItems
<1> QED  BY <1>3, <1>4, <1>5

\* Once a reached item or a landing is looked at, no items are set.
LEMMA NoItemsDue ==
  ASSUME NEW s, NEW is_active, Ordered(s, is_active), s # <<>>,
         s[1] \in {"reached", "abort"}
  PROVE  is_active /\ NoItems(s)
<1>1. s \in Seq(Calls) /\ Len(s) \in Nat /\ 1 \in 1..Len(s)
  BY FirstCall DEF Ordered
<1>2. is_active /\ \A j \in 2..Len(s) : s[j] # "items"
  BY <1>1 DEF Ordered
<1> QED  BY <1>1, <1>2 DEF NoItems

\* The end of a call that is not to set the items adds none.
LEMMA NoItemsReturn ==
  ASSUME NEW s \in Seq(Calls), s # <<>>, s[1] # "items", NoItems(Tail(s))
  PROVE  NoItems(s)
<1>1. ASSUME NEW i \in 2..Len(s) PROVE s[i] # "items"
  <2>1. i - 1 \in 1..Len(Tail(s)) /\ Tail(s)[i - 1] = s[i]
    BY FirstCall
  <2> QED  BY <2>1 DEF NoItems
<1> QED  BY <1>1 DEF NoItems

-------------------------------------------------------------------------------
LEMMA MissionStates ==
  ASSUME NEW id \in 0..1, NEW n \in 0..MaxCount, NEW seq \in -1..MaxCount
  PROVE  State(id, n, seq) \in MissionState
  BY DEF State, MissionState

\* A feasibility check, made at once or only for the first home position.
LEMMA Checked ==
  ASSUME RangesOK, ModeOK, NEW n \in 0..MaxCount,
         (CheckOnce(n) \/ CheckMission(n, home))
  PROVE  /\ seq_total' \in 0..MaxCount
         /\ valid' \in BOOLEAN /\ home_inited' \in BOOLEAN
<1>1. ASSUME NEW has_home \in BOOLEAN, CheckMission(n, has_home)
      PROVE  /\ seq_total' \in 0..MaxCount
             /\ valid' \in BOOLEAN /\ home_inited' \in BOOLEAN
  <2>1. seq_total' = n /\ home_inited' = has_home
    BY <1>1 DEF CheckMission
  <2>2. valid' \in BOOLEAN
    BY <1>1 DEF CheckMission
  <2> QED  BY <2>1, <2>2
<1>2. CASE UNCHANGED check
  BY <1>2 DEF check, RangesOK, ModeOK
<1>3. home \in BOOLEAN
  BY DEF ModeOK
<1> QED  BY <1>1, <1>2, <1>3 DEF CheckOnce

LEMMA FlightInit == Init => FlightInv
<1> SUFFICES ASSUME Init PROVE FlightInv
  OBVIOUS
<1>1. RangesOK
  <2>1. State(0, 0, 0) \in MissionState
    BY MissionStates, CountAssumption
  <2> QED  BY <2>1, CountAssumption DEF Init, RangesOK, Indices
<1>2. ModeOK
  <2>1. /\ home = FALSE /\ active = FALSE /\ inited = FALSE /\ home_inited = FALSE
        /\ need_mission_reset = FALSE /\ first_run = TRUE /\ valid = FALSE
        /\ mission_type = "NONE" /\ mission_item = "none" /\ tries = 0
    BY DEF Init
  <2>2. tries \in 0..(MaxTries - 1)
    BY <2>1, CountAssumption
  <2>3. mission_item # "land"
    BY <2>1
  <2> QED  BY <2>1, <2>2, <2>3, Zenon DEF ModeOK
<1>3. AgendaOK
  <2>1. todo = <<>> /\ writing = "none" /\ held = None
    BY DEF Init
  <2>2. Ordered(<<>>, active)
    BY DEF Ordered
  <2> QED  BY <2>1, <2>2 DEF AgendaOK
<1>4. ~OnItem
  BY DEF Init, OnItem
<1> QED  BY <1>1, <1>2, <1>3, <1>4 DEF FlightInv, IndexOK, ItemOK

LEMMA RangesByGroundStation ==
  ASSUME StateInv, FlightInv, GroundStation PROVE RangesOK'
<1> USE DEF FlightInv
<1>1. ASSUME NEW new \in MissionState, UpdateActiveMission(new) PROVE RangesOK'
  <2>1. UNCHANGED <<topic, offboard_mission, current_index, writing, held, seq_total>>
    BY <1>1 DEF UpdateActiveMission, NavigatorUnchanged, place, step, check
  <2>2. stored' \in {stored, new} /\ pending' \in {pending, new}
    BY <1>1 DEF UpdateActiveMission
  <2>3. stored' = None => stored = None
    <3>1. new # None
      BY NoneIsNoState DEF MissionState
    <3> QED  BY <2>2, <3>1
  <2> QED  BY <2>1, <2>2, <2>3 DEF RangesOK
<1>2. ASSUME \/ \E m \in Missions : Upload(m)
             \/ Abandon
      PROVE  RangesOK'
  <2>1. UNCHANGED <<stored, pending, topic, offboard_mission, current_index,
                    writing, held, seq_total>>
    BY <1>2 DEF Upload, Abandon, NavigatorUnchanged, storage, place, step, check
  <2> QED  BY <2>1 DEF RangesOK
<1>3. /\ mav.dataman_id \in 0..1 /\ mav.count \in 0..MaxCount
      /\ uploading \in 0..MaxCount
  BY DEF StateInv, StatesOK
<1>4. ASSUME NEW seq \in Currents PROVE seq \in -1..MaxCount
  BY CurrentsAssumption, CountAssumption
<1>5. ASSUME NEW seq \in Currents, Accept(seq) PROVE RangesOK'
  <2>1. State(1 - mav.dataman_id, uploading, seq) \in MissionState
    BY <1>3, <1>4, MissionStates
  <2> QED  BY <1>1, <1>5, <2>1 DEF Accept
<1>6. ASSUME ClearAll PROVE RangesOK'
  <2>1. State(1 - mav.dataman_id, 0, 0) \in MissionState
    BY <1>3, MissionStates, CountAssumption
  <2> QED  BY <1>1, <1>6, <2>1 DEF ClearAll
<1>7. ASSUME NEW seq \in Currents, SetCurrent(seq) PROVE RangesOK'
  <2>1. State(mav.dataman_id, mav.count, seq) \in MissionState
    BY <1>3, <1>4, MissionStates
  <2> QED  BY <1>1, <1>7, <2>1 DEF SetCurrent
<1> QED  BY <1>2, <1>5, <1>6, <1>7 DEF GroundStation

\* A step of the navigator that moves at most its index, within its range.
LEMMA RangesKept ==
  ASSUME RangesOK, NavigatorStep,
         \/ current_index' \in -1..MaxCount
         \/ UNCHANGED current_index
         \/ stored # None /\ current_index' \in Indices,
         UNCHANGED <<stored, offboard_mission>>, seq_total' \in 0..MaxCount,
         \/ UNCHANGED <<writing, held>>
         \/ writing' = "none"
         \/ stored # None /\ writing' = "jump"
  PROVE  RangesOK'
<1>1. UNCHANGED <<pending, topic>>
  BY DEF NavigatorStep, mavlink
<1>2. current_index' \in Indices
  BY DEF RangesOK, Indices
<1>3. stored' = None => current_index' \in -1..MaxCount /\ writing' # "jump"
  BY DEF RangesOK
<1> QED  BY <1>1, <1>2, <1>3 DEF RangesOK

\* Without a stored mission the navigator has none to be in.
LEMMA StoredInRange == ASSUME StateInv, InRange PROVE stored # None
  BY CountAssumption DEF StateInv, StatesOK, NothingYet, InRange

\* An item that is flown is one of the mission's.
LEMMA InMission ==
  ASSUME StateInv, FlightInv, InRange
  PROVE  /\ current_index \in 0..(MaxCount - 1)
         /\ offboard_mission.dataman_id \in 0..1
         /\ offboard_mission.count \in 1..MaxCount
  BY CountAssumption DEF InRange, StateInv, StatesOK

\* So is the item at which a reached item or a landing is looked at.
LEMMA LookedAt ==
  ASSUME FlightInv, todo # <<>>, Head(todo) \in {"reached", "abort"},
         mission_type = "OFFBOARD", mission_item # "loiter"
  PROVE  InRange
<1>1. Ordered(todo, active) /\ todo \in Seq(Calls)
  BY DEF FlightInv, AgendaOK, Ordered
<1>2. todo[1] \in {"reached", "abort"}
  BY <1>1, FirstCall
<1>3. OnItem
  BY <1>1, <1>2, NoItemsDue DEF OnItem
<1> QED  BY <1>3 DEF FlightInv, IndexOK

LEMMA RangesByNavigator ==
  ASSUME StateInv, ItemInv, FlightInv, Navigator PROVE RangesOK'
<1> USE DEF FlightInv
<1>a. /\ current_index \in Int /\ seq_total \in 0..MaxCount
      /\ MaxCount \in Nat /\ offboard_mission.count \in 0..MaxCount
  BY CountAssumption DEF RangesOK, StateInv, StatesOK
<1>1. ASSUME NEW seq \in 0..(MaxCount - 1), StartMission(seq) PROVE RangesOK'
  <2>1. /\ current_index' \in -1..MaxCount /\ seq_total' \in 0..MaxCount
        /\ UNCHANGED <<stored, offboard_mission, writing, held>>
        /\ NavigatorStep
    BY <1>1, <1>a DEF StartMission, storage, check
  <2> QED  BY <2>1, RangesKept
<1>2. ASSUME NEW is_active, NEW calls, Turn(is_active, calls), UNCHANGED place,
             seq_total' \in 0..MaxCount
      PROVE  RangesOK'
  <2>1. /\ UNCHANGED <<current_index, stored, offboard_mission, writing, held>>
        /\ NavigatorStep
    BY <1>2 DEF Turn, storage, place
  <2> QED  BY <2>1, <1>2, RangesKept
<1>3. ASSUME NEW armed \in BOOLEAN, RunActive(armed) PROVE RangesOK'
  <2>1. seq_total' \in 0..MaxCount
    BY <1>3, <1>a, Checked DEF RunActive
  <2> QED  BY <1>2, <1>3, <2>1 DEF RunActive, place
<1>4. ASSUME NEW armed \in BOOLEAN, RunInactive(armed) PROVE RangesOK'
  BY <1>2, <1>4, <1>a DEF RunInactive, place, check
<1>5. ASSUME Activate PROVE RangesOK'
  BY <1>2, <1>5, <1>a DEF Activate, place, check
<1>6. ASSUME RunWithoutHome PROVE RangesOK'
  BY <1>2, <1>6, <1>a DEF RunWithoutHome, place, check
<1>7. ASSUME Load PROVE RangesOK'
  <2>1. UNCHANGED <<stored, pending, topic, writing, held>>
    BY <1>7 DEF Load, Turn, NavigatorStep, mavlink, storage
  <2>2. /\ offboard_mission' \in MissionState
        /\ \/ current_index' \in -1..MaxCount
           \/ UNCHANGED current_index
    <3>1. CASE stored = None
      BY <1>7, <3>1 DEF Load, place, RangesOK
    <3>2. CASE stored # None
      <4>1. stored \in MissionState
        BY <3>2 DEF RangesOK
      <4> QED
        BY <1>7, <3>2, <4>1
           DEF Load, LoadedMission, RangesOK, MissionState, Indices
    <3> QED  BY <3>1, <3>2
  <2>3. offboard_mission'.count \in 0..MaxCount
    BY <2>2 DEF MissionState
  <2>4. seq_total' \in 0..MaxCount
    BY <1>7, <2>3, Checked DEF Load
  <2> QED  BY <2>1, <2>2, <2>4 DEF RangesOK, Indices
<1>8. ASSUME Update PROVE RangesOK'
  <2>1. UNCHANGED <<stored, pending, topic, writing, held>>
    BY <1>8 DEF Update, NavigatorStep, mavlink, storage
  <2>2. CASE topic = None
    <3>1. /\ offboard_mission' = State(offboard_mission.dataman_id, 0, 0)
          /\ current_index' = 0 /\ seq_total' = seq_total
      BY <1>8, <2>2 DEF Update, check
    <3>2. offboard_mission' \in MissionState
      BY <3>1, MissionStates, CountAssumption DEF StateInv, StatesOK
    <3> QED  BY <2>1, <3>1, <3>2, <1>a DEF RangesOK, Indices
  <2>3. CASE topic # None
    <3>1. topic \in MissionState /\ topic.count \in 0..MaxCount
      BY <2>3 DEF RangesOK, MissionState
    <3>2. seq_total' \in 0..MaxCount
      BY <1>8, <2>3, <3>1, Checked DEF Update
    <3>3. CASE valid'
      <4>1. offboard_mission' = topic /\ current_index' = IndexFor(topic)
        BY <1>8, <2>3, <3>3 DEF Update
      <4>2. IndexFor(topic) \in -1..MaxCount
        BY <3>1, <1>a DEF IndexFor, MissionState
      <4> QED  BY <2>1, <3>1, <3>2, <4>1, <4>2 DEF RangesOK, Indices
    <3>4. CASE ~valid'
      <4>1. /\ offboard_mission' = State(topic.dataman_id, 0, 0)
            /\ current_index' = 0
        BY <1>8, <2>3, <3>4 DEF Update
      <4>2. offboard_mission' \in MissionState
        <5>1. topic.dataman_id \in 0..1 /\ 0 \in 0..MaxCount /\ 0 \in -1..MaxCount
          BY <3>1, CountAssumption DEF MissionState
        <5> QED  BY <4>1, <5>1, MissionStates
      <4>3. current_index' \in -1..MaxCount
        BY <4>1, <1>a
      <4>4. writing' \in {"save", "reset"} => held' \in MissionState
        BY <2>1 DEF RangesOK
      <4> QED  BY <2>1, <3>2, <4>2, <4>3, <4>4 DEF RangesOK, Indices
    <3> QED  BY <3>3, <3>4
  <2> QED  BY <2>2, <2>3
<1>9. ASSUME SaveState PROVE RangesOK'
  <2>1. UNCHANGED <<stored, pending, topic, offboard_mission, current_index,
                    seq_total>>
    BY <1>9 DEF SaveState, NavigatorStep, mavlink, storage, place, check
  <2>2. writing' \in {"save", "reset"} => held' \in MissionState
    <3>1. stored = None => Own \in MissionState
      BY <1>a, MissionStates DEF Own, StateInv, StatesOK, RangesOK
    <3> QED  BY <1>9, <3>1 DEF SaveState, RangesOK
  <2>3. writing' = "jump" => writing = "jump"
    BY <1>9 DEF SaveState
  <2> QED  BY <2>1, <2>2, <2>3 DEF RangesOK
<1>10. ASSUME ResetMission PROVE RangesOK'
  <2>1. UNCHANGED <<stored, pending, topic, current_index, seq_total>>
    BY <1>10 DEF ResetMission, NavigatorStep, mavlink, check
  <2>2. CASE stored = None
    BY <1>10, <2>1, <2>2 DEF ResetMission, RangesOK
  <2>3. CASE stored # None
    <3>1. ResetState \in MissionState
      BY <2>3, CountAssumption DEF ResetState, RangesOK, MissionState
    <3>2. offboard_mission' = ResetState /\ held' = ResetState
      BY <1>10, <2>3 DEF ResetMission
    <3> QED  BY <2>1, <2>3, <3>1, <3>2 DEF RangesOK
  <2> QED  BY <2>2, <2>3
<1>11. ASSUME WriteState PROVE RangesOK'
  <2>1. UNCHANGED <<pending, topic, offboard_mission, current_index, seq_total>>
    BY <1>11 DEF WriteState, NavigatorStep, mavlink, place, check
  <2>2. stored' = None => stored = None
    BY <1>11, NoneIsNoState DEF WriteState, StateInv, HeldOK
  <2> QED  BY <1>11, <2>1, <2>2 DEF WriteState, RangesOK
<1>12. ASSUME SetItems PROVE RangesOK'
  <2>1. UNCHANGED <<stored, offboard_mission, seq_total>> /\ NavigatorStep
    BY <1>12 DEF SetItems, storage, check
  <2>2. /\ current_index' \in -1..MaxCount \/ UNCHANGED current_index
        /\ \/ UNCHANGED <<writing, held>>
           \/ stored # None /\ writing' = "jump"
    <3>1. CASE UNCHANGED <<current_index, writing, held>>
      BY <3>1
    <3>2. CASE InRange /\ GoOnAt(current_index + 1) /\ UNCHANGED <<writing, held>>
      BY <3>2, InMission, <1>a DEF GoOnAt
    <3>3. CASE InRange /\ writing' = "jump" /\ UNCHANGED current_index
      BY <3>3, StoredInRange
    <3> QED  BY <1>12, <3>1, <3>2, <3>3 DEF SetItems
  <2> QED  BY <2>1, <2>2, <1>a, RangesKept
<1>13. ASSUME WriteJump PROVE RangesOK'
  <2>1. UNCHANGED <<stored, offboard_mission, seq_total>> /\ NavigatorStep
        /\ writing' = "none"
    BY <1>13 DEF WriteJump, check
  <2>2. \/ UNCHANGED current_index
        \/ stored # None /\ current_index' \in Indices
    <3>1. CASE GoOnAt(held.do_jump_mission_index)
      <4>1. held.do_jump_mission_index \in Indices
        BY <1>13 DEF WriteJump, ItemInv, GoodItem
      <4>2. stored # None
        BY <1>13 DEF WriteJump, RangesOK
      <4> QED  BY <3>1, <4>1, <4>2 DEF GoOnAt
    <3>2. CASE UNCHANGED current_index
      BY <3>2
    <3> QED  BY <1>13, <3>1, <3>2 DEF WriteJump
  <2> QED  BY <2>1, <2>2, <1>a, RangesKept
<1>14. ASSUME Advance PROVE RangesOK'
  <2>1. InRange
    BY <1>14, LookedAt DEF Advance, Does
  <2>2. /\ current_index' \in -1..MaxCount
        /\ UNCHANGED <<stored, offboard_mission, writing, held, seq_total>>
        /\ NavigatorStep
    BY <1>14, <1>a, <2>1, InMission DEF Advance, storage, check
  <2> QED  BY <2>2, <1>a, RangesKept
<1>15. ASSUME AbortLanding PROVE RangesOK'
  <2>1. InRange
    BY <1>15, LookedAt DEF AbortLanding, Does, ModeOK
  <2>2. /\ current_index' \in -1..MaxCount
        /\ UNCHANGED <<stored, offboard_mission, writing, held, seq_total>>
        /\ NavigatorStep
    BY <1>15, <1>a, <2>1, InMission DEF AbortLanding, storage, check
  <2> QED  BY <2>2, <1>a, RangesKept
<1>16. ASSUME FlyOn PROVE RangesOK'
  <2>1. /\ UNCHANGED <<stored, offboard_mission, current_index, writing, held,
                       seq_total>>
        /\ NavigatorStep
    BY <1>16 DEF FlyOn, storage, place, check
  <2> QED  BY <2>1, <1>a, RangesKept
<1> QED
  BY <1>1, <1>3, <1>4, <1>5, <1>6, <1>7, <1>8, <1>9, <1>10, <1>11, <1>12,
     <1>13, <1>14, <1>15, <1>16 DEF Navigator

-------------------------------------------------------------------------------
\* The loop of read_mission_item() gives up or goes on: the type and the item
\* stay related, and the jumps stay below their limit.
LEMMA ModeGoesOn ==
  ASSUME ModeOK, NEW i, GoOnAt(i) \/ NoItem, UNCHANGED <<vehicle, check, flags>>
  PROVE  ModeOK'
<1>1. CASE NoItem
  BY <1>1, CountAssumption DEF NoItem, ModeOK, vehicle, check, flags
<1>2. CASE tries + 1 # MaxTries /\ tries' = tries + 1
           /\ UNCHANGED <<mission_type, mission_item>>
  <2>1. tries' \in 0..(MaxTries - 1)
    BY <1>2, CountAssumption DEF ModeOK
  <2> QED  BY <1>2, <2>1 DEF ModeOK, vehicle, check, flags
<1> QED  BY <1>1, <1>2 DEF GoOnAt

LEMMA ModeByNavigator ==
  ASSUME StateInv, ItemInv, FlightInv, Navigator PROVE ModeOK'
<1> USE DEF FlightInv
<1>a. offboard_mission.count \in 0..MaxCount
  BY DEF StateInv, StatesOK
<1>1. ASSUME \/ \E seq \in 0..(MaxCount - 1) : StartMission(seq)
             \/ SaveState \/ ResetMission \/ WriteState \/ Advance \/ FlyOn
      PROVE  UNCHANGED <<vehicle, check, flags, work>>
  BY <1>1 DEF StartMission, SaveState, ResetMission, WriteState, Advance, FlyOn
<1>2. ASSUME UNCHANGED <<vehicle, check, flags, work>> PROVE ModeOK'
  BY <1>2 DEF vehicle, check, flags, work, ModeOK
\* A turn of the loop, with what the modes make of the flags.
<1>3. ASSUME NEW is_active \in BOOLEAN, NEW calls, Turn(is_active, calls),
             inited' \in BOOLEAN, need_mission_reset' \in BOOLEAN,
             first_run' = ~is_active, valid' \in BOOLEAN, home_inited' \in BOOLEAN
      PROVE  ModeOK'
  <2>1. home' \in BOOLEAN
    BY <1>3 DEF Turn, ModeOK
  <2>2. active' = is_active
    BY <1>3 DEF Turn
  <2>3. UNCHANGED <<mission_type, mission_item, tries>>
    BY <1>3 DEF Turn, work
  <2>4. active' \in BOOLEAN /\ first_run' \in BOOLEAN /\ (active' <=> ~first_run')
    BY <1>3, <2>2
  <2> QED  BY <1>3, <2>1, <2>3, <2>4 DEF ModeOK
<1>4. ASSUME NEW armed \in BOOLEAN, NoteReset(armed), active' \in BOOLEAN
      PROVE  need_mission_reset' \in BOOLEAN
  BY <1>4 DEF NoteReset
<1>5. ASSUME NEW armed \in BOOLEAN, RunActive(armed) PROVE ModeOK'
  <2>1. valid' \in BOOLEAN /\ home_inited' \in BOOLEAN
    BY <1>5, <1>a, Checked DEF RunActive
  <2>2. active' = TRUE
    BY <1>5 DEF RunActive, Turn
  <2>3. need_mission_reset' \in BOOLEAN
    BY <1>4, <1>5, <2>2 DEF RunActive
  <2>4. inited' \in BOOLEAN /\ first_run' = ~TRUE
    BY <1>5 DEF RunActive, ModeOK
  <2> QED  BY <1>3, <1>5, <2>1, <2>3, <2>4 DEF RunActive
<1>6. ASSUME NEW armed \in BOOLEAN, RunInactive(armed) PROVE ModeOK'
  <2>1. active' = FALSE
    BY <1>6 DEF RunInactive, Turn
  <2>2. need_mission_reset' \in BOOLEAN
    BY <1>4, <1>6, <2>1 DEF RunInactive
  <2>3. /\ inited' \in BOOLEAN /\ valid' \in BOOLEAN /\ home_inited' \in BOOLEAN
        /\ first_run' = ~FALSE
    BY <1>6 DEF RunInactive, ModeOK, check
  <2> QED  BY <1>3, <1>6, <2>2, <2>3 DEF RunInactive
<1>7. ASSUME Activate PROVE ModeOK'
  <2>1. /\ inited' \in BOOLEAN /\ valid' \in BOOLEAN /\ home_inited' \in BOOLEAN
        /\ need_mission_reset' \in BOOLEAN /\ first_run' = ~TRUE
    BY <1>7 DEF Activate, ModeOK, check
  <2> QED  BY <1>3, <1>7, <2>1 DEF Activate
<1>8. ASSUME RunWithoutHome PROVE ModeOK'
  <2>1. /\ inited' \in BOOLEAN /\ valid' \in BOOLEAN /\ home_inited' \in BOOLEAN
        /\ need_mission_reset' \in BOOLEAN /\ first_run' = ~FALSE
    BY <1>8 DEF RunWithoutHome, ModeOK, check
  <2> QED  BY <1>3, <1>8, <2>1 DEF RunWithoutHome
<1>9. ASSUME Load PROVE ModeOK'
  <2>1. offboard_mission'.count \in 0..MaxCount
    BY <1>9, StateLoaded DEF StateInv, StatesOK
  <2>2. valid' \in BOOLEAN /\ home_inited' \in BOOLEAN
    BY <1>9, <2>1, Checked DEF Load
  <2>3. /\ inited' \in BOOLEAN /\ need_mission_reset' \in BOOLEAN
        /\ first_run' = ~FALSE
    BY <1>9 DEF Load, ModeOK
  <2> QED  BY <1>3, <1>9, <2>2, <2>3 DEF Load
<1>10. ASSUME Update PROVE ModeOK'
  <2>1. valid' \in BOOLEAN /\ home_inited' \in BOOLEAN
    <3>1. CASE topic = None
      BY <1>10, <3>1 DEF Update, check, ModeOK
    <3>2. CASE topic # None
      <4>1. topic.count \in 0..MaxCount
        BY <3>2 DEF StateInv, StatesOK
      <4> QED  BY <1>10, <3>2, <4>1, Checked DEF Update
    <3> QED  BY <3>1, <3>2
  <2>2. UNCHANGED <<vehicle, flags, work>>
    BY <1>10 DEF Update
  <2> QED  BY <2>1, <2>2 DEF vehicle, flags, work, ModeOK
<1>11. ASSUME SetItems PROVE ModeOK'
  <2>1. UNCHANGED <<vehicle, check, flags>>
    BY <1>11 DEF SetItems
  <2>2. CASE NoItem
    BY <2>1, <2>2, ModeGoesOn
  <2>3. CASE UNCHANGED work
    BY <1>2, <2>1, <2>3
  <2>4. CASE GoOnAt(current_index + 1)
    BY <2>1, <2>4, ModeGoesOn
  <2>5. CASE /\ InRange /\ Current.nav_cmd # "jump"
             /\ mission_type' = "OFFBOARD" /\ mission_item' = Current.nav_cmd
             /\ tries' = 0
    <3>1. Current \in Item
      BY <2>5, InMission DEF Current, ItemInv, GoodItem
    <3>2. mission_item' \in {"waypoint", "land"}
      BY <2>5, <3>1 DEF Item
    <3> QED
      BY <2>1, <2>5, <3>2, CountAssumption DEF vehicle, check, flags, ModeOK
  <2> QED  BY <1>11, <2>2, <2>3, <2>4, <2>5 DEF SetItems
<1>12. ASSUME WriteJump PROVE ModeOK'
  <2>1. UNCHANGED <<vehicle, check, flags>>
    BY <1>12 DEF WriteJump
  <2>2. \/ GoOnAt(held.do_jump_mission_index)
        \/ NoItem
    BY <1>12 DEF WriteJump
  <2> QED  BY <2>1, <2>2, ModeGoesOn
<1>13. ASSUME AbortLanding PROVE ModeOK'
  BY <1>13 DEF AbortLanding, vehicle, check, flags, ModeOK
<1> QED
  BY <1>1, <1>2, <1>5, <1>6, <1>7, <1>8, <1>9, <1>10, <1>11, <1>12, <1>13
     DEF Navigator

-------------------------------------------------------------------------------
\* A call ends: the calls after it are in order, and no write is due.
LEMMA AgendaReturn ==
  ASSUME AgendaOK, todo # <<>>, Return, active' = active,
         writing' = "none", held' = None
  PROVE  AgendaOK'
<1>1. Ordered(todo', active')
  BY OrderedReturn DEF AgendaOK, Return
<1> QED  BY <1>1 DEF AgendaOK

\* The calls due stay as they are, and so do the writes; or the first of them is
\* about to write.
LEMMA AgendaStays ==
  ASSUME AgendaOK, UNCHANGED <<todo, active>>,
         \/ UNCHANGED <<writing, held>>
         \/ /\ todo # <<>>
            /\ \/ writing' \in {"save", "reset"} /\ todo[1] = writing'
               \/ writing' = "jump" /\ todo[1] = "items"
               \/ writing' = "none" /\ held' = None
  PROVE  AgendaOK'
  BY DEF AgendaOK

\* The calls a turn of the loop begins with.
LEMMA AgendaTurns ==
  ASSUME AgendaOK, NEW is_active, NEW calls, Turn(is_active, calls),
         Ordered(calls, is_active)
  PROVE  AgendaOK'
<1>1. todo' = calls /\ active' = is_active /\ writing = "none"
  BY DEF Turn
<1>2. UNCHANGED <<writing, held>>
  BY DEF Turn
<1>3. Ordered(todo', active')
  BY <1>1
<1> QED  BY <1>1, <1>2, <1>3 DEF AgendaOK

\* The updates a turn begins with, and the calls of on_inactive() in order.
LEMMA UpdatesOrdered ==
  ASSUME NEW armed \in BOOLEAN
  PROVE  /\ Updates(armed) \in Seq({"update", "reset"})
         /\ Ordered(Updates(armed), FALSE)
<1>1. ASSUME NEW b, NEW calls \in Seq({"update", "reset"})
      PROVE  If(b, calls) \in Seq({"update", "reset"})
  BY <1>1 DEF If
<1>a. If(fresh, <<"update">>) \in Seq({"update", "reset"})
  <2>1. <<"update">> \in Seq({"update", "reset"})
    OBVIOUS
  <2> QED  BY <1>1, <2>1
<1>b. If(NeedReset(armed), <<"reset", "update">>) \in Seq({"update", "reset"})
  <2>1. <<"reset", "update">> \in Seq({"update", "reset"})
    OBVIOUS
  <2> QED  BY <1>1, <2>1
<1>2. Updates(armed) \in Seq({"update", "reset"})
  BY <1>a, <1>b DEF Updates
<1> DEFINE u == Updates(armed)
<1>3. u \in Seq({"update", "reset"})
  BY <1>2
<1> HIDE DEF u
<1>4. u \in Seq(Calls) /\ \A i \in 1..Len(u) : u[i] \in {"update", "reset"}
  BY <1>3 DEF Calls
<1>5. Ordered(u, FALSE)
  BY <1>4 DEF Ordered
<1> QED  BY <1>2, <1>5 DEF u

\* The calls of on_active() when the items are set, whatever updates precede.
LEMMA RefreshOrdered ==
  ASSUME NEW u \in Seq({"update", "reset"})
  PROVE  LET calls == u \o <<"items">> \o <<"reached", "abort">>
         IN  Ordered(calls, TRUE) /\ ~NoItems(calls)
<1> DEFINE n == Len(u)
           v == u \o <<"items">>
           calls == v \o <<"reached", "abort">>
<1>1. n \in Nat /\ u \in Seq(Calls) /\ \A i \in 1..n : u[i] \in {"update", "reset"}
  BY DEF Calls
<1>2. /\ v \in Seq(Calls) /\ Len(v) = n + 1 /\ v[n + 1] = "items"
      /\ \A i \in 1..n : v[i] = u[i]
  BY <1>1 DEF Calls
<1> HIDE DEF v, n
<1>3. /\ calls \in Seq(Calls) /\ Len(calls) = n + 3
      /\ calls[n + 2] = "reached" /\ calls[n + 3] = "abort"
      /\ \A i \in 1..(n + 1) : calls[i] = v[i]
  BY <1>1, <1>2 DEF Calls
<1> HIDE DEF calls
<1>4. calls[n + 1] = "items" /\ \A i \in 1..n : calls[i] \in {"update", "reset"}
  BY <1>1, <1>2, <1>3
<1>5. Ordered(calls, TRUE)
  <2>1. ASSUME NEW i \in 1..Len(calls), calls[i] \in {"update", "reset"}
        PROVE  \E j \in (i + 1)..Len(calls) : calls[j] = "items"
    <3>1. i < n + 1 /\ n + 1 \in (i + 1)..Len(calls)
      BY <1>1, <1>3, <1>4, <2>1
    <3> QED  BY <1>4, <3>1
  <2>2. ASSUME NEW i \in 1..Len(calls), calls[i] \in {"reached", "abort"},
               NEW j \in (i + 1)..Len(calls)
        PROVE  calls[j] # "items"
    <3>1. i > n + 1
      BY <1>1, <1>3, <1>4, <2>2
    <3>2. j = n + 3
      BY <1>1, <1>3, <3>1
    <3> QED  BY <1>3, <3>2
  <2> QED  BY <1>3, <2>1, <2>2 DEF Ordered
<1>6. ~NoItems(calls)
  BY <1>1, <1>3, <1>4 DEF NoItems
<1> QED  BY <1>5, <1>6 DEF calls, v

LEMMA ActiveOrdered ==
  ASSUME NEW armed \in BOOLEAN
  PROVE  LET calls == Updates(armed) \o Refresh(armed) \o <<"reached", "abort">>
         IN  /\ Ordered(calls, TRUE)
             /\ fresh \/ NeedReset(armed) => ~NoItems(calls)
<1>1. CASE fresh \/ NeedReset(armed)
  <2>1. Refresh(armed) = <<"items">>
    BY <1>1 DEF Refresh, If
  <2> QED  BY <2>1, UpdatesOrdered, RefreshOrdered
<1>2. CASE ~fresh /\ ~NeedReset(armed)
  <2>1. Updates(armed) = <<>> /\ Refresh(armed) = <<>>
    BY <1>2 DEF Updates, Refresh, If
  <2> DEFINE calls == <<"reached", "abort">>
  <2>2. Updates(armed) \o Refresh(armed) \o <<"reached", "abort">> = calls
    BY <2>1
  <2>3. /\ calls \in Seq(Calls) /\ Len(calls) = 2
        /\ calls[1] = "reached" /\ calls[2] = "abort"
    BY DEF Calls
  <2> HIDE DEF calls
  <2>4. Ordered(calls, TRUE)
    BY <2>3 DEF Ordered
  <2> QED  BY <1>2, <2>2, <2>4
<1> QED  BY <1>1, <1>2

LEMMA AgendaByNavigator ==
  ASSUME StateInv, FlightInv, Navigator PROVE AgendaOK'
<1> USE DEF FlightInv
<1>a. todo \in Seq(Calls) /\ Ordered(todo, active)
  BY DEF AgendaOK, Ordered
<1>b. ASSUME NEW call, Does(call)
      PROVE  /\ todo # <<>> /\ todo[1] = call
             /\ writing = "none" /\ held = None
  BY <1>b, <1>a, FirstCall DEF Does, AgendaOK
\* A call ends, or another one takes its place.
<1>c. ASSUME NEW call, Does(call), Return, UNCHANGED <<active, writing, held>>
      PROVE  AgendaOK'
  BY <1>c, <1>b, AgendaReturn
<1>d. ASSUME NEW call, Does(call), NEW c \in {"save", "items"}, Call(<<c>>),
             UNCHANGED <<active, writing, held>>
      PROVE  AgendaOK'
  <2>1. todo # <<>> /\ writing = "none"
    BY <1>b, <1>d
  <2>2. Ordered(todo', active')
    BY <1>a, <1>d, <2>1, OrderedCall DEF Call
  <2> QED  BY <1>b, <1>d, <2>1, <2>2 DEF AgendaOK
<1>1. ASSUME NEW seq \in 0..(MaxCount - 1), StartMission(seq) PROVE AgendaOK'
  <2>1. /\ UNCHANGED <<active, writing, held>> /\ writing = "none"
        /\ todo' = <<"save">> \o If(active, <<"items">>) \o <<"run">>
    BY <1>1 DEF StartMission, vehicle
  <2>2. todo' \in Seq({"save", "items", "run"})
    <3>1. If(active, <<"items">>) \in Seq({"save", "items", "run"})
      <4>1. CASE active
        BY <4>1 DEF If
      <4>2. CASE ~active
        BY <4>2 DEF If
      <4> QED  BY <4>1, <4>2
    <3> DEFINE v == If(active, <<"items">>)
    <3>2. todo' = <<"save">> \o v \o <<"run">>
      BY <2>1
    <3>3. v \in Seq({"save", "items", "run"})
      BY <3>1
    <3> HIDE DEF v
    <3> QED  BY <3>2, <3>3
  <2>3. /\ todo' \in Seq(Calls)
        /\ \A i \in 1..Len(todo') : todo'[i] \in {"save", "items", "run"}
    BY <2>2 DEF Calls
  <2>4. Ordered(todo', active)
    BY <2>3 DEF Ordered
  <2> QED  BY <2>1, <2>4 DEF AgendaOK
<1>2. ASSUME NEW armed \in BOOLEAN, RunActive(armed) PROVE AgendaOK'
  BY <1>2, ActiveOrdered, AgendaTurns DEF RunActive
<1>3. ASSUME NEW armed \in BOOLEAN, RunInactive(armed) PROVE AgendaOK'
  BY <1>3, UpdatesOrdered, AgendaTurns DEF RunInactive
<1>4. ASSUME Activate PROVE AgendaOK'
  <2>1. Ordered(<<"items">>, TRUE)
    BY DEF Ordered, Calls
  <2> QED  BY <1>4, <2>1, AgendaTurns DEF Activate
<1>5. ASSUME RunWithoutHome \/ Load PROVE AgendaOK'
  <2>1. Ordered(<<>>, FALSE)
    BY DEF Ordered, Calls
  <2> QED  BY <1>5, <2>1, AgendaTurns DEF RunWithoutHome, Load
<1>6. ASSUME Update PROVE AgendaOK'
  BY <1>6, <1>d DEF Update, vehicle
<1>7. ASSUME SaveState PROVE AgendaOK'
  <2>1. Does("save") /\ UNCHANGED active
    BY <1>7 DEF SaveState, vehicle
  <2>2. CASE writing' = "save" /\ UNCHANGED todo
    BY <2>1, <2>2, <1>b, AgendaStays
  <2>3. CASE Return /\ UNCHANGED <<writing, held>>
    BY <2>1, <2>3, <1>c
  <2> QED  BY <1>7, <2>2, <2>3 DEF SaveState
<1>8. ASSUME ResetMission PROVE AgendaOK'
  <2>1. Does("reset") /\ UNCHANGED active
    BY <1>8 DEF ResetMission, vehicle
  <2>2. CASE writing' = "reset" /\ UNCHANGED todo
    BY <2>1, <2>2, <1>b, AgendaStays
  <2>3. CASE Return /\ UNCHANGED <<writing, held>>
    BY <2>1, <2>3, <1>c
  <2> QED  BY <1>8, <2>2, <2>3 DEF ResetMission
<1>9. ASSUME WriteState PROVE AgendaOK'
  <2>1. /\ writing # "none" /\ Return /\ UNCHANGED active
        /\ writing' = "none" /\ held' = None
    BY <1>9 DEF WriteState, vehicle
  <2> QED  BY <2>1, AgendaReturn DEF AgendaOK
<1>10. ASSUME SetItems PROVE AgendaOK'
  <2>1. Does("items") /\ UNCHANGED active
    BY <1>10 DEF SetItems, vehicle
  <2>2. CASE Return /\ UNCHANGED <<writing, held>>
    BY <2>1, <2>2, <1>c
  <2>3. CASE writing' = "jump" /\ UNCHANGED todo
    BY <2>1, <2>3, <1>b, AgendaStays
  <2>4. CASE UNCHANGED <<todo, writing, held>>
    BY <2>1, <2>4, AgendaStays
  <2>5. CASE Call(<<"save">>) /\ UNCHANGED <<writing, held>>
    BY <2>1, <2>5, <1>d
  <2> QED  BY <1>10, <2>2, <2>3, <2>4, <2>5 DEF SetItems, GoOnAt, NoItem
<1>11. ASSUME WriteJump PROVE AgendaOK'
  <2>1. /\ UNCHANGED active /\ writing' = "none" /\ held' = None
        /\ todo # <<>>
    BY <1>11 DEF WriteJump, vehicle, AgendaOK
  <2>2. Return \/ UNCHANGED todo
    BY <1>11 DEF WriteJump, GoOnAt, NoItem
  <2> QED  BY <2>1, <2>2, AgendaReturn, AgendaStays
<1>12. ASSUME Advance PROVE AgendaOK'
  BY <1>12, <1>d DEF Advance, vehicle
<1>13. ASSUME AbortLanding PROVE AgendaOK'
  BY <1>13, <1>c DEF AbortLanding, vehicle
<1>14. ASSUME FlyOn PROVE AgendaOK'
  BY <1>14, <1>c DEF FlyOn, vehicle
<1> QED
  BY <1>1, <1>2, <1>3, <1>4, <1>5, <1>6, <1>7, <1>8, <1>9, <1>10, <1>11,
     <1>12, <1>13, <1>14 DEF Navigator

-------------------------------------------------------------------------------
\* The item the navigator flies is the one its index names.
FliesIt == IndexOK /\ ItemOK

\* Items are due, or none is flown: nothing to show.
LEMMA NotOnItem == ASSUME ~OnItem' PROVE FliesIt'
  BY DEF FliesIt, IndexOK, ItemOK

\* The item was already flown, and neither it, the index nor the mission moved.
LEMMA StillOnItem ==
  ASSUME FlightInv, OnItem' => OnItem, NavigatorStep, fresh' = fresh,
         UNCHANGED <<items, offboard_mission, current_index, mission_item>>
  PROVE  FliesIt'
<1>1. UNCHANGED <<overtaken, pending>>
  BY DEF NavigatorStep, mavlink
<1>2. InRange' = InRange /\ Current' = Current
  BY DEF InRange, Current
<1> QED  BY <1>1, <1>2 DEF FliesIt, FlightInv, IndexOK, ItemOK

LEMMA FliesByNavigator ==
  ASSUME StateInv, FlightInv, Navigator PROVE FliesIt'
<1> USE DEF FlightInv
<1>a. todo \in Seq(Calls) /\ Ordered(todo, active)
  BY DEF AgendaOK, Ordered
<1>b. ASSUME NEW call, Does(call)
      PROVE  todo # <<>> /\ todo[1] = call /\ 1 \in 1..Len(todo)
  BY <1>b, <1>a, FirstCall DEF Does
\* The items are set by a call that is still due.
<1>c. ASSUME todo # <<>>, todo[1] = "items", UNCHANGED todo PROVE ~OnItem'
  <2>1. 1 \in 1..Len(todo)
    BY <1>c, <1>a, FirstCall
  <2> QED  BY <1>c, <2>1 DEF OnItem, NoItems
<1>1. ASSUME NEW seq \in 0..(MaxCount - 1), StartMission(seq) PROVE FliesIt'
  <2>1. CASE ~active
    BY <1>1, <2>1, NotOnItem DEF StartMission, vehicle, OnItem
  <2>2. CASE active
    <3>1. todo' = <<"save">> \o <<"items">> \o <<"run">>
      BY <1>1, <2>2 DEF StartMission, If
    <3>2. 2 \in 1..Len(todo') /\ todo'[2] = "items"
      BY <3>1
    <3> QED  BY <3>2, NotOnItem DEF OnItem, NoItems
  <2> QED  BY <2>1, <2>2
<1>2. ASSUME NEW armed \in BOOLEAN, RunActive(armed) PROVE FliesIt'
  <2>1. /\ todo \in {<<>>, <<"run">>} /\ fresh' = fresh /\ NavigatorStep
        /\ todo' = Updates(armed) \o Refresh(armed) \o <<"reached", "abort">>
        /\ UNCHANGED <<items, offboard_mission, current_index, mission_type,
                       mission_item>>
    BY <1>2 DEF RunActive, Turn, storage, place, work
  <2>2. CASE fresh \/ NeedReset(armed)
    <3>1. ~NoItems(todo')
      BY <2>1, <2>2, ActiveOrdered
    <3> QED  BY <3>1, NotOnItem DEF OnItem
  <2>3. CASE ~(fresh \/ NeedReset(armed))
    <3>1. NoItems(<<>>) /\ NoItems(<<"run">>)
      BY DEF NoItems
    <3>2. active
      BY <1>2 DEF RunActive, ModeOK
    <3>3. OnItem' => OnItem
      BY <2>1, <3>1, <3>2 DEF OnItem
    <3> QED  BY <2>1, <3>3, StillOnItem
  <2> QED  BY <2>2, <2>3
<1>3. ASSUME \/ \E armed \in BOOLEAN : RunInactive(armed)
             \/ RunWithoutHome
             \/ Load
      PROVE  FliesIt'
  <2>1. active' = FALSE
    BY <1>3 DEF RunInactive, RunWithoutHome, Load, Turn
  <2> QED  BY <2>1, NotOnItem DEF OnItem
<1>4. ASSUME Activate PROVE FliesIt'
  <2>1. todo' = <<"items">>
    BY <1>4 DEF Activate, Turn
  <2>2. ~NoItems(<<"items">>)
    BY DEF NoItems
  <2> QED  BY <2>1, <2>2, NotOnItem DEF OnItem
<1>5. ASSUME Update PROVE FliesIt'
  <2>1. Does("update") /\ todo' = <<"save">> \o Tail(todo) /\ active' = active
    BY <1>5 DEF Update, Call, vehicle
  <2>2. ASSUME active = TRUE PROVE ~NoItems(todo')
    BY <2>1, <2>2, <1>a, <1>b, ItemsDue
  <2> QED  BY <2>1, <2>2, NotOnItem DEF OnItem, ModeOK
<1>6. ASSUME SaveState PROVE FliesIt'
  <2>1. /\ Does("save") /\ NavigatorStep /\ fresh' = fresh
        /\ UNCHANGED <<items, offboard_mission, current_index, active,
                       mission_type, mission_item>>
        /\ Return \/ UNCHANGED todo
    BY <1>6 DEF SaveState, storage, place, vehicle, work
  <2>2. NoItems(todo') => NoItems(todo)
    <3>1. CASE UNCHANGED todo
      BY <3>1
    <3>2. CASE Return
      <4>1. todo # <<>> /\ todo[1] # "items"
        BY <2>1, <1>b
      <4> QED  BY <3>2, <4>1, <1>a, NoItemsReturn DEF Return
    <3> QED  BY <2>1, <3>1, <3>2
  <2>3. OnItem' => OnItem
    BY <2>1, <2>2 DEF OnItem
  <2> QED  BY <2>1, <2>3, StillOnItem
<1>7. ASSUME ResetMission PROVE FliesIt'
  <2>1. /\ Does("reset") /\ active' = active
        /\ todo' = Tail(todo) \/ todo' = todo
    BY <1>7 DEF ResetMission, Return, vehicle
  <2>2. ASSUME active = TRUE PROVE ~NoItems(todo')
    BY <2>1, <2>2, <1>a, <1>b, ItemsDue
  <2> QED  BY <2>1, <2>2, NotOnItem DEF OnItem, ModeOK
<1>8. ASSUME WriteState PROVE FliesIt'
  <2>1. /\ todo # <<>> /\ todo[1] # "items" /\ Return
    BY <1>8 DEF WriteState, AgendaOK
  <2>2. /\ NavigatorStep /\ fresh' = fresh
        /\ UNCHANGED <<items, offboard_mission, current_index, active,
                       mission_type, mission_item>>
    BY <1>8 DEF WriteState, place, vehicle, work
  <2>3. NoItems(todo') => NoItems(todo)
    BY <2>1, <1>a, NoItemsReturn DEF Return
  <2>4. OnItem' => OnItem
    BY <2>2, <2>3 DEF OnItem
  <2> QED  BY <2>2, <2>4, StillOnItem
<1>9. ASSUME SetItems PROVE FliesIt'
  <2>1. Does("items") /\ UNCHANGED <<items, offboard_mission>> /\ NavigatorStep
    BY <1>9 DEF SetItems, storage
  <2>2. CASE NoItem
    BY <2>2, NotOnItem DEF NoItem, OnItem
  <2>3. CASE UNCHANGED todo
    BY <2>1, <2>3, <1>b, <1>c, NotOnItem
  <2>4. CASE /\ InRange /\ Current.nav_cmd # "jump"
             /\ mission_item' = Current.nav_cmd /\ UNCHANGED current_index
    <3>1. InRange' = InRange /\ Current' = Current
      BY <2>1, <2>4 DEF InRange, Current
    <3> QED  BY <2>4, <3>1 DEF FliesIt, IndexOK, ItemOK
  <2> QED  BY <1>9, <2>2, <2>3, <2>4 DEF SetItems, GoOnAt
<1>10. ASSUME WriteJump PROVE FliesIt'
  <2>1. todo # <<>> /\ todo[1] = "items"
    BY <1>10 DEF WriteJump, AgendaOK
  <2>2. CASE NoItem
    BY <2>2, NotOnItem DEF NoItem, OnItem
  <2>3. CASE UNCHANGED todo
    BY <2>1, <2>3, <1>c, NotOnItem
  <2> QED  BY <1>10, <2>2, <2>3 DEF WriteJump, GoOnAt
<1>11. ASSUME Advance PROVE FliesIt'
  <2>1. Does("reached") /\ todo' = <<"items">> \o Tail(todo)
    BY <1>11 DEF Advance, Call
  <2>2. todo'[1] = "items" /\ 1 \in 1..Len(todo')
    BY <2>1, <1>a, <1>b, OtherCall DEF Calls
  <2> QED  BY <2>2, NotOnItem DEF OnItem, NoItems
<1>12. ASSUME AbortLanding PROVE FliesIt'
  BY <1>12, NotOnItem DEF AbortLanding, OnItem
<1>13. ASSUME FlyOn PROVE FliesIt'
  <2>1. /\ Does("reached") \/ Does("abort")
        /\ Return /\ NavigatorStep /\ fresh' = fresh
        /\ UNCHANGED <<items, offboard_mission, current_index, active,
                       mission_type, mission_item>>
    BY <1>13 DEF FlyOn, storage, place, vehicle, work
  <2>2. OnItem' => OnItem
    BY <2>1, <1>a, <1>b, NoItemsReturn DEF OnItem, Return
  <2> QED  BY <2>1, <2>2, StillOnItem
<1> QED
  BY <1>1, <1>2, <1>3, <1>4, <1>5, <1>6, <1>7, <1>8, <1>9, <1>10, <1>11,
     <1>12, <1>13 DEF Navigator

\* A ground station moves nothing of the navigator's, and writes items only to
\* the place that is not flown.
LEMMA FliesByGroundStation ==
  ASSUME StateInv, FlightInv, GroundStation PROVE FliesIt'
<1> USE DEF FlightInv
<1>1. UNCHANGED <<offboard_mission, current_index, active, mission_type,
                  mission_item, todo, fresh>>
  BY DEF GroundStation, Upload, Accept, Abandon, ClearAll, SetCurrent,
         UpdateActiveMission, NavigatorUnchanged, vehicle, place, work, step
<1>2. (OnItem' <=> OnItem) /\ (InRange' <=> InRange)
  BY <1>1 DEF OnItem, InRange
<1>3. ASSUME UNCHANGED <<items, overtaken, pending>> PROVE FliesIt'
  <2>1. Current' = Current
    BY <1>1, <1>3 DEF Current
  <2> QED  BY <1>1, <1>2, <1>3, <2>1 DEF FliesIt, IndexOK, ItemOK
<1>4. ASSUME NEW new \in AnyState, UpdateActiveMission(new) PROVE FliesIt'
  <2>1. CASE UNCHANGED <<items, overtaken, pending>>
    BY <1>3, <2>1
  <2>2. CASE pending' = new
    BY <1>2, <2>2, NoneIsNoState DEF FliesIt, IndexOK, ItemOK
  <2> QED  BY <1>4, <2>1, <2>2 DEF UpdateActiveMission
<1>5. ASSUME NEW m \in Missions, Upload(m) PROVE FliesIt'
  <2>1. UNCHANGED <<overtaken, pending>>
    BY <1>5 DEF Upload
  <2>2. ASSUME OnItem, ~overtaken, pending = None, ~fresh
        PROVE  Current' = Current
    <3>1. offboard_mission.count > 0
      BY <2>2, InMission, CountAssumption DEF IndexOK
    <3>2. offboard_mission.dataman_id = mav.dataman_id
      BY <2>2, <3>1 DEF StateInv, NavigatorFollows
    <3>3. mav.dataman_id \in 0..1 /\ mav.dataman_id # 1 - mav.dataman_id
      BY DEF StateInv, StatesOK
    <3>4. items'[mav.dataman_id] = items[mav.dataman_id]
      BY <1>5, <3>3 DEF Upload
    <3> QED  BY <1>1, <3>2, <3>4 DEF Current
  <2> QED  BY <1>1, <1>2, <2>1, <2>2 DEF FliesIt, IndexOK, ItemOK
<1>a. /\ mav.dataman_id \in 0..1 /\ mav.count \in 0..MaxCount
      /\ uploading \in 0..MaxCount
  BY DEF StateInv, StatesOK
<1>6. ASSUME NEW seq \in Currents, Accept(seq) PROVE FliesIt'
  <2>1. State(1 - mav.dataman_id, uploading, seq) \in AnyState
    BY <1>a, CurrentsAssumption DEF State
  <2> QED  BY <1>4, <1>6, <2>1 DEF Accept
<1>7. ASSUME ClearAll PROVE FliesIt'
  <2>1. State(1 - mav.dataman_id, 0, 0) \in AnyState
    BY <1>a, CountAssumption DEF State
  <2> QED  BY <1>4, <1>7, <2>1 DEF ClearAll
<1>8. ASSUME NEW seq \in Currents, SetCurrent(seq) PROVE FliesIt'
  <2>1. State(mav.dataman_id, mav.count, seq) \in AnyState
    BY <1>a, CurrentsAssumption DEF State
  <2> QED  BY <1>4, <1>8, <2>1 DEF SetCurrent
<1>9. ASSUME Abandon PROVE FliesIt'
  BY <1>3, <1>9 DEF Abandon, storage
<1> QED  BY <1>5, <1>6, <1>7, <1>8, <1>9 DEF GroundStation

\* What MAVLink does leaves the modes and the calls of the navigator alone.
LEMMA ModeAndAgendaKept ==
  ASSUME ModeOK, AgendaOK, UNCHANGED <<vehicle, check, flags, work, step>>
  PROVE  ModeOK' /\ AgendaOK'
<1>1. ModeOK'
  BY DEF ModeOK, vehicle, check, flags, work
<1>2. AgendaOK'
  BY DEF AgendaOK, vehicle, step
<1> QED  BY <1>1, <1>2

LEMMA FlightRestarted == ASSUME StateInv, FlightInv, Restart PROVE FlightInv'
<1> USE DEF FlightInv
<1>1. RangesOK'
  <2>1. State(0, 0, 0) \in MissionState
    BY MissionStates, CountAssumption
  <2>2. /\ stored' = stored /\ topic' = stored /\ pending' = None
        /\ offboard_mission' \in MissionState /\ current_index' = -1
        /\ writing' = "none" /\ seq_total' = 0
    BY <2>1 DEF Restart, storage
  <2>3. /\ current_index' \in -1..MaxCount /\ current_index' \in Indices
        /\ seq_total' \in 0..MaxCount
    BY <2>2, CountAssumption DEF Indices
  <2> QED  BY <2>2, <2>3 DEF RangesOK
<1>2. ModeOK'
  <2>1. /\ home' = FALSE /\ active' = FALSE /\ inited' = FALSE
        /\ home_inited' = FALSE /\ need_mission_reset' = FALSE
        /\ first_run' = TRUE /\ valid' = FALSE
        /\ mission_type' = "NONE" /\ mission_item' = "none" /\ tries' = 0
    BY DEF Restart
  <2>2. tries' \in 0..(MaxTries - 1)
    BY <2>1, CountAssumption
  <2>3. mission_item' # "land"
    BY <2>1
  <2> QED  BY <2>1, <2>2, <2>3, Zenon DEF ModeOK
<1>3. AgendaOK'
  <2>1. todo' = <<>> /\ writing' = "none" /\ held' = None
    BY DEF Restart
  <2>2. Ordered(<<>>, active')
    BY DEF Ordered
  <2> QED  BY <2>1, <2>2 DEF AgendaOK
<1>4. FliesIt'
  <2>1. active' = FALSE
    BY DEF Restart
  <2> QED  BY <2>1, NotOnItem DEF OnItem
<1> QED  BY <1>1, <1>2, <1>3, <1>4 DEF FliesIt

LEMMA FlightPublished == ASSUME FlightInv, Publish PROVE FlightInv'
<1> USE DEF FlightInv
<1>1. /\ UNCHANGED <<stored, offboard_mission, current_index, writing, held,
                     seq_total, active, mission_type, mission_item, todo>>
      /\ pending # None /\ pending' = None /\ topic' = pending /\ fresh' = TRUE
  BY DEF Publish, NavigatorUnchanged, storage, place, step, check, vehicle, work
<1>2. RangesOK'
  BY <1>1 DEF RangesOK
<1>3. ModeOK' /\ AgendaOK'
  BY ModeAndAgendaKept DEF Publish, NavigatorUnchanged
<1>4. FliesIt'
  <2>1. (OnItem' <=> OnItem) /\ (InRange' <=> InRange)
    BY <1>1 DEF OnItem, InRange
  <2> QED  BY <1>1, <2>1 DEF FliesIt, IndexOK, ItemOK
<1> QED  BY <1>2, <1>3, <1>4 DEF FliesIt

LEMMA FlightStep ==
  StateInv /\ ItemInv /\ FlightInv /\ [Next]_vars => FlightInv'
<1> SUFFICES ASSUME StateInv, ItemInv, FlightInv, [Next]_vars PROVE FlightInv'
  OBVIOUS
<1>1. CASE GroundStation
  <2>1. NavigatorUnchanged
    BY <1>1
       DEF GroundStation, Upload, Accept, Abandon, ClearAll, SetCurrent,
           UpdateActiveMission
  <2>2. ModeOK' /\ AgendaOK'
    BY <2>1, ModeAndAgendaKept DEF FlightInv, NavigatorUnchanged
  <2> QED
    BY <1>1, <2>2, RangesByGroundStation, FliesByGroundStation
       DEF FlightInv, FliesIt
<1>2. CASE Publish
  BY <1>2, FlightPublished
<1>3. CASE Navigator
  BY <1>3, RangesByNavigator, ModeByNavigator, AgendaByNavigator,
     FliesByNavigator DEF FlightInv, FliesIt
<1>4. CASE Restart
  BY <1>4, FlightRestarted
<1>5. CASE UNCHANGED vars
  <2>1. UNCHANGED <<stored, items, pending, overtaken, topic, fresh, offboard_mission,
                    current_index, writing, held, seq_total, active, mission_type,
                    mission_item, todo>>
    BY <1>5 DEF vars, storage, mavlink, place, step, check, vehicle, work
  <2>2. RangesOK'
    BY <2>1 DEF FlightInv, RangesOK
  <2>3. ModeOK' /\ AgendaOK'
    BY <1>5, ModeAndAgendaKept DEF FlightInv, vars
  <2>4. FliesIt'
    <3>1. /\ (OnItem' <=> OnItem) /\ (InRange' <=> InRange)
          /\ Current' = Current
      BY <2>1 DEF OnItem, InRange, Current
    <3> QED  BY <2>1, <3>1 DEF FlightInv, FliesIt, IndexOK, ItemOK
  <2> QED  BY <2>2, <2>3, <2>4 DEF FlightInv, FliesIt
<1> QED  BY <1>1, <1>2, <1>3, <1>4, <1>5 DEF Next

LEMMA FlightInvariant == Spec => [](StateInv /\ ItemInv /\ FlightInv)
<1>1. Init => FlightInv
  BY FlightInit
<1> QED  BY <1>1, FlightStep, Invariant, PTL DEF Spec

-------------------------------------------------------------------------------
\* What is stored is the mission MAVLink accepted last, or nothing and MAVLink
\* has none (save_offboard_mission_state(), reset_offboard_mission() and
\* update_active_mission() write it), as long as no state is accepted between a
\* read of the navigator's and its write.
THEOREM StoredMission == Spec => []StoredIsAccepted
<1>1. StateInv => StoredIsAccepted
  BY CountAssumption
     DEF StateInv, StatesOK, StoredOK, NothingYet, StoredIsAccepted, Accepted
<1> QED  BY <1>1, Invariant, PTL

\* Once the navigator took the last publication, a mission it holds is that one
\* (update_offboard_mission(), on_inactive() and reset_offboard_mission() set it).
THEOREM FollowedMission == Spec => []NavigatorFollows
<1>1. StateInv => NavigatorFollows
  BY DEF StateInv
<1> QED  BY <1>1, Invariant, PTL

\* No DO_JUMP is followed more often than its item says, in either place of the
\* storage, for every mission and whatever writes fail (read_mission_item(),
\* reset_offboard_mission()).
THEOREM CountedJumps == Spec => []JumpsBounded
  BY Invariant, ItemsBounded, PTL

\* The copies of the state, the storage, the index and the calls keep their
\* ranges for every mission: advance_mission() takes the index at most one past
\* a mission, do_abort_landing() at most one before it, a DO_JUMP where it says,
\* unchecked; such an index is neither stored nor stepped on from.
THEOREM TypeCorrect == Spec => []TypeOK
<1>1. StateInv /\ ItemInv /\ FlightInv => TypeOK
  <2> SUFFICES ASSUME StateInv, ItemInv, FlightInv PROVE TypeOK
    OBVIOUS
  <2> USE DEF StateInv, FlightInv
  <2>1. items \in [0..1 -> [0..(MaxCount - 1) -> Item]]
    BY DEF ItemInv, GoodItem
  <2>2. held \in IF writing = "none" THEN {None}
                 ELSE IF writing = "jump" THEN Item ELSE MissionState
    BY DEF ItemInv, GoodItem, HeldOK, RangesOK, AgendaOK
  <2>3. {fresh, home, active, inited, home_inited, first_run, valid,
         need_mission_reset, overtaken} \subseteq BOOLEAN
    BY DEF StatesOK, ModeOK
  <2>4. todo \in Seq(Calls)
    BY DEF AgendaOK, Ordered
  <2> QED
    BY <2>1, <2>2, <2>3, <2>4
       DEF TypeOK, RangesOK, ModeOK, StatesOK, HeldOK, Indices
<1> QED  BY <1>1, FlightInvariant, PTL

\* An active mission flies the item its index names in the accepted mission, and
\* never a jump (set_mission_items(), on_active()): the upload of the next mission
\* goes to the other place, and whatever replaces the mission has the items set
\* again before the next turn.
THEOREM FliesAcceptedItem == Spec => []FliesCurrentItem
<1>1. StateInv /\ FlightInv => FliesCurrentItem
  <2> SUFFICES ASSUME StateInv, FlightInv, ~overtaken, pending = None, ~fresh,
                      todo = <<>>, active, mission_type = "OFFBOARD",
                      mission_item # "loiter"
               PROVE  /\ current_index \in 0..(mav.count - 1)
                      /\ mission_item = items[mav.dataman_id][current_index].nav_cmd
                      /\ mission_item # "jump"
    BY DEF FliesCurrentItem
  <2>1. OnItem
    BY DEF OnItem, NoItems
  <2>2. InRange
    BY <2>1 DEF FlightInv, IndexOK
  <2>3. mission_item = Current.nav_cmd /\ mission_item # "jump"
    BY <2>1 DEF FlightInv, ItemOK
  <2>4. offboard_mission.count > 0
    BY <2>2, InMission, CountAssumption
  <2>5. /\ offboard_mission.dataman_id = mav.dataman_id
        /\ offboard_mission.count = mav.count
    BY <2>4 DEF StateInv, NavigatorFollows
  <2> QED  BY <2>2, <2>3, <2>5 DEF InRange, Current
<1> QED  BY <1>1, FlightInvariant, PTL
===============================================================================
