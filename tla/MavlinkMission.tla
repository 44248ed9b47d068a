---------------------------- MODULE MavlinkMission ----------------------------
(***************************************************************************)
(* The vehicle's side of the MAVLink mission protocol.  Every MAVLink      *)
(* instance has a MavlinkMissionManager; its receiver thread handles the   *)
(* messages of a ground station, its main thread runs send() at 10 Hz.     *)
(* The managers share, in static members, the active mission and the flag  *)
(* of a transfer in progress.  A mission is received into the one of two   *)
(* storage places that is not active and activated by a single write of    *)
(* the mission state; each write waits for the data manager, while other   *)
(* threads go on.                                                          *)
(*                                                                         *)
(* The link loses, repeats, delays and reorders messages: whatever message *)
(* of any partner may come at any time, until all partners fall silent.  A *)
(* message that a handler ignores changes nothing and is no step here.     *)
(* Which item is the current one is left out: no decision here depends on  *)
(* it.                                                                     *)
(***************************************************************************)
EXTENDS Integers, Sequences

CONSTANTS
    Managers,       \* MAVLink instances
    Partners,       \* Partners[m]: ground stations that m hears
    Items,          \* contents of a mission item
    Invalid,        \* an item with a command or frame that is not supported
    None,           \* nothing stored, nobody, no call
    MaxCount,       \* _max_count: items that a storage place holds
    ActionTimeout   \* _action_timeout (5 s), in ticks of the model's clock

ASSUME CountAssumption == MaxCount \in Nat \ {0}
ASSUME TimeoutAssumption == ActionTimeout \in Nat
ASSUME ItemAssumption == None \notin Items /\ Invalid \notin Items
ASSUME PartnerAssumption == \A m \in Managers : None \notin Partners[m]

VARIABLES
    \* static members
    dataman_id,             \* storage place of the active mission
    count,                  \* number of its items
    transfer_in_progress,
    \* members, per manager
    state,                  \* _state
    recv,                   \* ticks since _time_last_recv, up to a bound
    my_dataman_id,
    transfer_dataman_id,
    transfer_count,
    transfer_seq,
    partner,                \* _transfer_partner_sysid and _compid
    call,                   \* the write that the receiver thread waits for
    \* data manager: what survives a restart
    mission_state,          \* DM_KEY_MISSION_STATE
    waypoints,              \* DM_KEY_WAYPOINTS_OFFBOARD_0 and _1
    misread,                \* the managers took another mission for the stored one
    \* surroundings
    ack,                    \* the MISSION_ACK that the last step sent, if any
    silent                  \* no partner sends anything any more

active == <<dataman_id, count>>
storage == <<mission_state, waypoints, misread>>
transfer == <<transfer_dataman_id, transfer_count, transfer_seq, partner>>
vars == <<active, transfer_in_progress, state, recv, my_dataman_id,
          transfer, call, storage, ack, silent>>

Places == {0, 1}
Slots == 0..(MaxCount - 1)
States == {"IDLE", "SENDLIST", "GETLIST"}
Causes == {"upload", "empty", "clear", "current"}
Results == {"pending", "ok", "failed"}
Acks == {"ACCEPTED", "ERROR", "NO_SPACE", "UNSUPPORTED"}

ASSUME NoAckAssumption == None \notin Acks
ASSUME NoDraftAssumption ==
    None \notin [size : 0..MaxCount, items : Seq(Items \cup {None})]

MissionState == [dataman_id : Places, count : 0..MaxCount]
ItemCall == [op : {"item"}, id : Places, seq : Slots, item : Items, result : Results]
StateCall == [op : {"state"}, value : MissionState, cause : Causes, result : Results]
NoCall == [op |-> "none"]

\* Mutant: the places are not alternated.
AlwaysOne == 1

\* DM_KEY_WAYPOINTS_OFFBOARD of the place that is not active.
Inactive == IF dataman_id = 0 THEN 1 ELSE 0

TypeOK ==
    /\ dataman_id \in Places
    /\ count \in 0..MaxCount
    /\ transfer_in_progress \in BOOLEAN
    /\ state \in [Managers -> States]
    /\ recv \in [Managers -> 0..(ActionTimeout + 1)]
    /\ my_dataman_id \in [Managers -> Places]
    /\ transfer_dataman_id \in [Managers -> Places]
    /\ transfer_count \in [Managers -> 0..MaxCount]
    /\ transfer_seq \in [Managers -> 0..MaxCount]
    /\ \A m \in Managers : partner[m] \in Partners[m] \cup {None}
    /\ call \in [Managers -> {NoCall} \cup ItemCall \cup StateCall]
    /\ mission_state \in MissionState
    /\ waypoints \in [Places -> [Slots -> Items \cup {None}]]
    /\ misread \in BOOLEAN
    /\ ack \in Acks \cup {None}
    /\ silent \in BOOLEAN

NoMission == [dataman_id |-> 0, count |-> 0]

\* The constructor of every manager: the last message is long ago.
Construct ==
    /\ state = [m \in Managers |-> "IDLE"]
    /\ recv = [m \in Managers |-> ActionTimeout + 1]
    /\ transfer_dataman_id = [m \in Managers |-> 0]
    /\ transfer_count = [m \in Managers |-> 0]
    /\ transfer_seq = [m \in Managers |-> 0]
    /\ partner = [m \in Managers |-> None]
    /\ call = [m \in Managers |-> NoCall]
    /\ transfer_in_progress = FALSE
    /\ ack = None

\* init_offboard_mission(): the stored mission, or no mission when it cannot be
\* read; an empty storage reads as no mission.
Loadable == {mission_state, NoMission}

LoadMission ==
    \E loaded \in Loadable :
        /\ dataman_id = loaded.dataman_id
        /\ count = loaded.count
        /\ my_dataman_id = [m \in Managers |-> loaded.dataman_id]
        /\ misread = (loaded # mission_state)

Init ==
    /\ mission_state = NoMission
    /\ waypoints = [d \in Places |-> [i \in Slots |-> None]]
    /\ silent = FALSE
    /\ Construct
    /\ LoadMission

(***************************************************************************)
(* Helpers of the handlers.                                                *)
(***************************************************************************)
Set(f, m, v) == [f EXCEPT ![m] = v]

\* The receiver thread of m handles a message of p.
Receiving(m, p) == p \in Partners[m] /\ call[m] = NoCall /\ ~silent

Received(m) == recv' = Set(recv, m, 0)

NoAck == ack' = None

\* send_mission_item() acknowledges with an error when it cannot read the item.
SendItem(m, seq) ==
    \/ seq \in Slots /\ waypoints[dataman_id][seq] # None /\ NoAck
    \/ ack' = "ERROR"

\* update_active_mission() up to dm_write().
UpdateActiveMission(m, id, n, cause) ==
    call' = Set(call, m,
                [op |-> "state", cause |-> cause, result |-> "pending",
                 value |-> [dataman_id |-> id, count |-> n]])

(***************************************************************************)
(* The receiver thread: handle_message().                                  *)
(***************************************************************************)
HandleMissionAck(m, p) ==
    /\ Receiving(m, p)
    /\ partner[m] = p
    /\ state[m] = "SENDLIST"
    /\ Received(m)
    /\ state' = Set(state, m, "IDLE")
    /\ NoAck
    /\ UNCHANGED <<active, transfer_in_progress, my_dataman_id, transfer, call,
                   storage, silent>>

HandleMissionSetCurrent(m, p, seq) ==
    /\ Receiving(m, p)
    /\ state[m] = "IDLE"
    /\ Received(m)
    /\ IF seq < count
         THEN UpdateActiveMission(m, dataman_id, count, "current")
         ELSE UNCHANGED call
    /\ NoAck
    /\ UNCHANGED <<active, transfer_in_progress, state, my_dataman_id, transfer,
                   storage, silent>>

HandleMissionRequestList(m, p) ==
    /\ Receiving(m, p)
    /\ state[m] \in {"IDLE", "SENDLIST"}
    /\ Received(m)
    /\ state' = Set(state, m, "SENDLIST")
    /\ transfer_seq' = Set(transfer_seq, m, 0)
    /\ transfer_count' = Set(transfer_count, m, count)
    /\ partner' = Set(partner, m, p)
    /\ NoAck
    /\ UNCHANGED <<active, transfer_in_progress, my_dataman_id, transfer_dataman_id,
                   call, storage, silent>>

\* An item that is due, or the one before it again; any other request ends the
\* download.  transfer_seq counts the items requested once.
HandleMissionRequest(m, p, seq) ==
    LET due == seq = transfer_seq[m] /\ transfer_seq[m] < transfer_count[m]
        again == seq = transfer_seq[m] - 1
    IN  /\ Receiving(m, p)
        /\ partner[m] = p
        /\ state[m] = "SENDLIST"
        /\ Received(m)
        /\ transfer_seq' = IF due THEN Set(transfer_seq, m, seq + 1) ELSE transfer_seq
        /\ IF (due \/ again) /\ seq < count
             THEN SendItem(m, seq) /\ UNCHANGED state
             ELSE ack' = "ERROR" /\ state' = Set(state, m, "IDLE")
        /\ UNCHANGED <<active, transfer_in_progress, my_dataman_id,
                       transfer_dataman_id, transfer_count, partner, call, storage, silent>>

\* MISSION_COUNT when idle: refused while a transfer is in progress or when the
\* mission is too long; a count of 0 empties the mission; otherwise the transfer
\* begins and the first item is requested.
CountRefused ==
    /\ ack' = IF transfer_in_progress THEN "ERROR" ELSE "NO_SPACE"
    /\ UNCHANGED <<transfer_in_progress, state, transfer, call>>

CountEmpty(m) ==
    /\ transfer_in_progress' = TRUE
    /\ UpdateActiveMission(m, Inactive, 0, "empty")
    /\ NoAck
    /\ UNCHANGED <<state, transfer>>

CountBegins(m, p, n) ==
    /\ transfer_in_progress' = TRUE
    /\ state' = Set(state, m, "GETLIST")
    /\ transfer_seq' = Set(transfer_seq, m, 0)
    /\ partner' = Set(partner, m, p)
    /\ transfer_count' = Set(transfer_count, m, n)
    /\ transfer_dataman_id' = Set(transfer_dataman_id, m, Inactive)
    /\ NoAck
    /\ UNCHANGED call

\* MISSION_COUNT again: whatever it counts, it is only taken for a sign of life.
CountAgain ==
    /\ NoAck
    /\ UNCHANGED <<transfer_in_progress, state, transfer, call>>

\* Mutant: a mission longer than the storage is accepted.
CountUnbounded(m, p, n) ==
    /\ Receiving(m, p)
    /\ state[m] = "IDLE"
    /\ ~transfer_in_progress
    /\ Received(m)
    /\ IF n = 0 THEN CountEmpty(m) ELSE CountBegins(m, p, n)
    /\ UNCHANGED <<active, my_dataman_id, storage, silent>>

HandleMissionCount(m, p, n) ==
    /\ Receiving(m, p)
    /\ state[m] # "SENDLIST"
    /\ Received(m)
    /\ CASE state[m] = "GETLIST" -> CountAgain
         [] state[m] = "IDLE" /\ (transfer_in_progress \/ n > MaxCount) ->
              CountRefused
         [] state[m] = "IDLE" /\ ~transfer_in_progress /\ n = 0 -> CountEmpty(m)
         [] OTHER -> CountBegins(m, p, n)
    /\ UNCHANGED <<active, my_dataman_id, storage, silent>>

\* Mutant: items are stored in whatever order they come.
ItemAnyOrder(m, p, seq, item) ==
    /\ Receiving(m, p)
    /\ state[m] = "GETLIST"
    /\ seq \in Slots /\ item \in Items
    /\ Received(m)
    /\ call' = Set(call, m,
           [op |-> "item", id |-> transfer_dataman_id[m], seq |-> seq,
            item |-> item, result |-> "pending"])
    /\ NoAck
    /\ UNCHANGED <<active, transfer_in_progress, state, my_dataman_id, transfer,
                   storage, silent>>

\* The item that is due is written to the storage place of the transfer; it is
\* not looked at who sent it.  Any other item is only a sign of life.
HandleMissionItem(m, p, seq, item) ==
    /\ Receiving(m, p)
    /\ state[m] = "GETLIST"
    /\ Received(m)
    /\ CASE seq # transfer_seq[m] ->
              NoAck /\ UNCHANGED <<state, transfer_in_progress, call>>
         [] seq = transfer_seq[m] /\ item = Invalid ->
              /\ ack' = "UNSUPPORTED"
              /\ state' = Set(state, m, "IDLE")
              /\ transfer_in_progress' = FALSE
              /\ UNCHANGED call
         [] OTHER ->
              /\ call' = Set(call, m,
                     [op |-> "item", id |-> transfer_dataman_id[m], seq |-> seq,
                      item |-> item, result |-> "pending"])
              /\ NoAck
              /\ UNCHANGED <<state, transfer_in_progress>>
    /\ UNCHANGED <<active, my_dataman_id, transfer, storage, silent>>

\* Mutant: a mission is cleared while it is downloaded.
ClearAllBusy(m, p) ==
    /\ Receiving(m, p)
    /\ Received(m)
    /\ UpdateActiveMission(m, Inactive, 0, "clear")
    /\ NoAck
    /\ UNCHANGED <<active, transfer_in_progress, state, my_dataman_id, transfer,
                   storage, silent>>

HandleMissionClearAll(m, p) ==
    /\ Receiving(m, p)
    /\ state[m] = "IDLE"
    /\ Received(m)
    /\ UpdateActiveMission(m, Inactive, 0, "clear")
    /\ NoAck
    /\ UNCHANGED <<active, transfer_in_progress, state, my_dataman_id, transfer,
                   storage, silent>>

(***************************************************************************)
(* The data manager's task, and the receiver thread when its write is      *)
(* done.  A record is written as a whole or not at all.                    *)
(***************************************************************************)
PerformWrite(m) ==
    /\ call[m] # NoCall
    /\ call[m].result = "pending"
    /\ \/ /\ call' = Set(call, m, [call[m] EXCEPT !.result = "failed"])
          /\ UNCHANGED storage
       \/ /\ call' = Set(call, m, [call[m] EXCEPT !.result = "ok"])
          /\ IF call[m].op = "item"
               THEN /\ waypoints' = Set(waypoints, call[m].id,
                          Set(waypoints[call[m].id], call[m].seq, call[m].item))
                    /\ UNCHANGED <<mission_state, misread>>
               ELSE /\ mission_state' = call[m].value
                    /\ misread' = FALSE
                    /\ UNCHANGED waypoints
    /\ NoAck
    /\ UNCHANGED <<active, transfer_in_progress, state, recv, my_dataman_id,
                   transfer, silent>>

\* Mutant: a failed write leaves the flag up.
ItemFailsBusy(m) ==
    /\ call[m].op = "item"
    /\ call[m].result = "failed"
    /\ ack' = "ERROR"
    /\ state' = Set(state, m, "IDLE")
    /\ call' = Set(call, m, NoCall)
    /\ UNCHANGED <<active, transfer_in_progress, recv, my_dataman_id, transfer,
                   storage, silent>>

\* handle_mission_item_both() after its dm_write(): the write failed, the item
\* was the last one, or the next one is requested.
ItemWritten(m) ==
    LET done == call[m].seq + 1
    IN  /\ call[m].op = "item"
        /\ call[m].result # "pending"
        /\ IF call[m].result = "failed"
             THEN /\ ack' = "ERROR"
                  /\ state' = Set(state, m, "IDLE")
                  /\ transfer_in_progress' = FALSE
                  /\ call' = Set(call, m, NoCall)
                  /\ UNCHANGED transfer_seq
             ELSE /\ transfer_seq' = Set(transfer_seq, m, done)
                  /\ IF done = transfer_count[m]
                       THEN /\ state' = Set(state, m, "IDLE")
                            /\ UpdateActiveMission(m, transfer_dataman_id[m], done, "upload")
                       ELSE call' = Set(call, m, NoCall) /\ UNCHANGED state
                  /\ NoAck
                  /\ UNCHANGED transfer_in_progress
        /\ UNCHANGED <<active, recv, my_dataman_id, transfer_dataman_id,
                       transfer_count, partner, storage, silent>>

\* Mutant: the static members are assigned whether or not the write succeeded.
StateAssignedAnyway(m) ==
    /\ call[m].op = "state"
    /\ call[m].result # "pending"
    /\ call' = Set(call, m, NoCall)
    /\ dataman_id' = call[m].value.dataman_id
    /\ count' = call[m].value.count
    /\ my_dataman_id' = Set(my_dataman_id, m, call[m].value.dataman_id)
    /\ transfer_in_progress' = FALSE
    /\ NoAck
    /\ UNCHANGED <<state, recv, transfer, storage, silent>>

\* Mutant: the mission is accepted before it is stored.
StateAccepted(m) ==
    /\ call[m].op = "state"
    /\ call[m].cause # "current"
    /\ call' = Set(call, m, NoCall)
    /\ ack' = "ACCEPTED"
    /\ transfer_in_progress' = FALSE
    /\ UNCHANGED <<active, my_dataman_id, state, recv, transfer, storage, silent>>

\* update_active_mission() after its dm_write(), and the rest of the handler that
\* called it.  Emptying the mission is acknowledged even if it failed.
StateWritten(m) ==
    LET ok == call[m].result = "ok"
        cause == call[m].cause
    IN  /\ call[m].op = "state"
        /\ call[m].result # "pending"
        /\ call' = Set(call, m, NoCall)
        /\ IF ok
             THEN /\ dataman_id' = call[m].value.dataman_id
                  /\ count' = call[m].value.count
                  /\ my_dataman_id' = Set(my_dataman_id, m, call[m].value.dataman_id)
             ELSE UNCHANGED <<active, my_dataman_id>>
        /\ transfer_in_progress' =
             (transfer_in_progress /\ cause \notin {"upload", "empty"})
        /\ CASE cause = "current" -> NoAck
             [] cause = "empty" \/ (cause # "current" /\ ok) -> ack' = "ACCEPTED"
             [] OTHER -> ack' = "ERROR"
        /\ UNCHANGED <<state, recv, transfer, storage, silent>>

(***************************************************************************)
(* The main thread: send() and check_active_mission().                     *)
(***************************************************************************)
\* Mutant: the flag is left up when a transfer times out.
SendLeavesFlag(m) ==
    /\ state[m] # "IDLE"
    /\ recv[m] > ActionTimeout
    /\ state' = Set(state, m, "IDLE")
    /\ NoAck
    /\ UNCHANGED <<active, transfer_in_progress, recv, my_dataman_id, transfer,
                   call, storage, silent>>

\* A transfer that has timed out is given up.  What send() repeats after a
\* shorter time changes nothing here.
Send(m) ==
    /\ state[m] # "IDLE"
    /\ recv[m] > ActionTimeout
    /\ state' = Set(state, m, "IDLE")
    /\ transfer_in_progress' = FALSE
    /\ NoAck
    /\ UNCHANGED <<active, recv, my_dataman_id, transfer, call, storage, silent>>

CheckActiveMission(m) ==
    /\ my_dataman_id[m] # dataman_id
    /\ my_dataman_id' = Set(my_dataman_id, m, dataman_id)
    /\ NoAck
    /\ UNCHANGED <<active, transfer_in_progress, state, recv, transfer, call,
                   storage, silent>>

(***************************************************************************)
(* Surroundings: time passes, the ground stations fall silent, the vehicle *)
(* is restarted and the managers load what is stored, if it can be read.   *)
(***************************************************************************)
Tick ==
    /\ recv' = [m \in Managers |->
                   IF recv[m] > ActionTimeout THEN recv[m] ELSE recv[m] + 1]
    /\ NoAck
    /\ UNCHANGED <<active, transfer_in_progress, state, my_dataman_id, transfer,
                   call, storage, silent>>

Silence ==
    /\ silent' = TRUE
    /\ NoAck
    /\ UNCHANGED <<active, transfer_in_progress, state, recv, my_dataman_id,
                   transfer, call, storage>>

Restart ==
    /\ state' = [m \in Managers |-> "IDLE"]
    /\ recv' = [m \in Managers |-> ActionTimeout + 1]
    /\ transfer_dataman_id' = [m \in Managers |-> 0]
    /\ transfer_count' = [m \in Managers |-> 0]
    /\ transfer_seq' = [m \in Managers |-> 0]
    /\ partner' = [m \in Managers |-> None]
    /\ call' = [m \in Managers |-> NoCall]
    /\ transfer_in_progress' = FALSE
    /\ NoAck
    /\ \E loaded \in Loadable :
          /\ dataman_id' = loaded.dataman_id
          /\ count' = loaded.count
          /\ my_dataman_id' = [m \in Managers |-> loaded.dataman_id]
          /\ misread' = (loaded # mission_state)
    /\ UNCHANGED <<mission_state, waypoints, silent>>

HandleMessage(m, p) ==
    \/ HandleMissionAck(m, p)
    \/ \E seq \in 0..MaxCount : HandleMissionSetCurrent(m, p, seq)
    \/ HandleMissionRequestList(m, p)
    \/ \E seq \in 0..MaxCount : HandleMissionRequest(m, p, seq)
    \/ \E n \in 0..(MaxCount + 1) : HandleMissionCount(m, p, n)
    \/ \E seq \in 0..MaxCount, item \in Items \cup {Invalid} :
          HandleMissionItem(m, p, seq, item)
    \/ HandleMissionClearAll(m, p)

Next ==
    \/ \E m \in Managers : \E p \in Partners[m] : HandleMessage(m, p)
    \/ \E m \in Managers : PerformWrite(m)
    \/ \E m \in Managers : ItemWritten(m)
    \/ \E m \in Managers : StateWritten(m)
    \/ \E m \in Managers : Send(m)
    \/ \E m \in Managers : CheckActiveMission(m)
    \/ Tick
    \/ Silence
    \/ Restart

Spec == Init /\ [][Next]_vars

\* Time passes; the data manager serves its queue; the threads of an instance
\* run on.  Nothing makes a ground station speak, the vehicle restart or the
\* navigator report.
Fairness ==
    /\ WF_vars(Tick)
    /\ \A m \in Managers :
          /\ WF_vars(PerformWrite(m))
          /\ WF_vars(ItemWritten(m))
          /\ WF_vars(StateWritten(m))
          /\ WF_vars(Send(m))
          /\ WF_vars(CheckActiveMission(m))

FairSpec == Spec /\ Fairness

(***************************************************************************)
(* Properties.                                                             *)
(***************************************************************************)
\* m is receiving a mission, or writing an item of one.
Uploading(m) == state[m] = "GETLIST" \/ call[m].op = "item"

\* An upload never touches the storage place that the static members name as
\* that of the active mission (handle_mission_count(): "use inactive storage for
\* transmission"): that of the stored mission too, unless it was misread.
WritesInactivePlace ==
    \A m \in Managers : Uploading(m) => transfer_dataman_id[m] # dataman_id

\* Whenever no write of the mission state waits to be taken note of, the static
\* members name the mission that is stored, or no mission at all if it could not
\* be read at the last start and none was stored since.
StoredIsActive ==
    (\A m \in Managers : call[m].op # "state" \/ call[m].result # "ok") =>
        IF misread THEN dataman_id = 0 /\ count = 0
        ELSE mission_state.dataman_id = dataman_id /\ mission_state.count = count

\* The flag that keeps other uploads out is up while a manager receives a
\* mission, and never without a manager that will take it down.
TransferInProgress ==
    /\ (\E m \in Managers : state[m] = "GETLIST") => transfer_in_progress
    /\ transfer_in_progress =>
          \E m \in Managers :
              \/ Uploading(m)
              \/ call[m].op = "state" /\ call[m].cause \in {"upload", "empty"}

\* A ground station that downloads is served the mission it was told the length
\* of: while the download lasts, neither another mission becomes active nor are
\* the items of the active one written over.
OneMissionPerDownload ==
    [][\A m \in Managers : state'[m] = "SENDLIST" =>
          /\ transfer_count'[m] = count'
          /\ state[m] = "SENDLIST" =>
                UNCHANGED <<active, waypoints[dataman_id]>>]_vars

\* The items of an upload are written one after the other, and the mission state
\* that activates it after the last of them: on however many links, a timeout, a
\* failed write or a repeated message lets no part of a mission be activated.
ActivatedWhenWhole ==
    \A m \in Managers :
        /\ call[m].op = "item" =>
              call[m].seq = transfer_seq[m] /\ call[m].seq < transfer_count[m]
        /\ call[m].op = "state" /\ call[m].cause = "upload" =>
              /\ transfer_seq[m] = transfer_count[m]
              /\ call[m].value = [dataman_id |-> transfer_dataman_id[m],
                                  count |-> transfer_count[m]]

\* A step that accepts an upload or a clearing finds it stored.
AcceptedIsStored ==
    [][ack' = "ACCEPTED" =>
          \A m \in Managers :
              call[m].op = "state" /\ call[m].cause # "empty" /\ call'[m] = NoCall =>
                  mission_state = call[m].value]_vars

\* The stored mission, and what has been received of the next one.
Mission == [i \in 1..mission_state.count |-> waypoints[mission_state.dataman_id][i - 1]]

Drafting(m) ==
    \/ Uploading(m)
    \/ call[m].op = "state" /\ call[m].cause = "upload" /\ call[m].result = "pending"

Draft == [m \in Managers |->
    IF Drafting(m)
      THEN [size |-> transfer_count[m],
            items |-> [i \in 1..transfer_seq[m] |-> waypoints[transfer_dataman_id[m]][i - 1]]]
      ELSE None]

\* The mission is replaced as a whole or not at all, also over lost messages,
\* failed writes, timeouts and restarts, as long as it was read when the vehicle
\* started.
Upload == INSTANCE MissionUpload
              WITH mission <- Mission, draft <- Draft, known <- ~misread
ImplementsUpload == Upload!Spec

\* Once the ground stations are silent, every transfer ends, the flag is taken
\* down, so that another upload can start, and every instance has noticed the
\* mission that is active.
Quiescent ==
    /\ \A m \in Managers : state[m] = "IDLE" /\ call[m] = NoCall
    /\ ~transfer_in_progress
    /\ \A m \in Managers : my_dataman_id[m] = dataman_id

TransfersEnd == silent ~> Quiescent
=============================================================================
