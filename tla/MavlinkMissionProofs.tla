------------------------- MODULE MavlinkMissionProofs --------------------------
(***************************************************************************)
(* Safety of the mission protocol for any number of instances, of ground   *)
(* stations on one link, and for missions of any length.                   *)
(***************************************************************************)
EXTENDS MavlinkMission, TLAPS

\* The ground stations are all heard by one instance.
OneLink == \A m, n \in Managers : Partners[m] # {} /\ Partners[n] # {} => m = n

Anybody == {None} \cup UNION {Partners[m] : m \in Managers}

Idle(m) == state[m] = "IDLE" /\ call[m] = NoCall

TransferOK(m) ==
    /\ state[m] = "GETLIST" =>
         /\ transfer_seq[m] < transfer_count[m]
         /\ transfer_dataman_id[m] # dataman_id
         /\ transfer_in_progress
    /\ state[m] = "SENDLIST" => call[m] = NoCall /\ transfer_count[m] = count

\* The item that is written goes to the place that is not active and is the next
\* of its transfer, which may have timed out meanwhile.
ItemCallOK(m) ==
    call[m].op = "item" =>
        /\ call[m].id = transfer_dataman_id[m]
        /\ call[m].id # dataman_id
        /\ call[m].seq = transfer_seq[m]
        /\ transfer_seq[m] < transfer_count[m]
        /\ state[m] # "SENDLIST"
        /\ transfer_in_progress => state[m] = "GETLIST"
        /\ call[m].result = "ok" =>
             waypoints[call[m].id][call[m].seq] = call[m].item

\* A mission state that is written is that of the finished transfer, that of no
\* mission or the active one; it is stored once the write is done.
StateCallOK(m) ==
    call[m].op = "state" =>
        /\ state[m] = "IDLE"
        /\ call[m].result = "ok" => mission_state = call[m].value /\ ~misread
        /\ call[m].cause = "upload" =>
             /\ call[m].value.dataman_id = transfer_dataman_id[m]
             /\ call[m].value.count = transfer_count[m]
             /\ transfer_seq[m] = transfer_count[m]
             /\ transfer_dataman_id[m] # dataman_id
        /\ call[m].cause = "current" =>
             call[m].value.dataman_id = dataman_id /\ call[m].value.count = count /\ ~misread
        /\ call[m].cause \in {"empty", "clear"} => call[m].value.count = 0
        /\ transfer_in_progress => call[m].cause \in {"upload", "empty"}

\* What the static members name: the stored mission, or none after a misreading.
Stored ==
    IF misread THEN dataman_id = 0 /\ count = 0
    ELSE mission_state.dataman_id = dataman_id /\ mission_state.count = count

\* What is known of the manager that hears the ground stations.
ManagerOK(m) ==
    /\ TransferOK(m)
    /\ ItemCallOK(m)
    /\ StateCallOK(m)
    /\ Stored \/ (call[m].op = "state" /\ call[m].result = "ok")
    /\ transfer_in_progress => ~Idle(m) /\ state[m] # "SENDLIST"

OthersIdle == \A n \in Managers : Partners[n] = {} => Idle(n)

\* The inductive invariant: a manager that nobody speaks to does nothing, and
\* where nobody is spoken to, nothing is ever in progress.
IInv ==
    /\ TypeOK /\ partner \in [Managers -> Anybody]
    /\ OthersIdle
    /\ \A m \in Managers : Partners[m] # {} => ManagerOK(m)
    /\ (\A m \in Managers : Partners[m] = {}) => Stored /\ ~transfer_in_progress

-------------------------------------------------------------------------------
\* What Set() does to a function.
LEMMA SetAt ==
    ASSUME NEW S, NEW T, NEW f \in [S -> T], NEW m \in S, NEW v \in T
    PROVE  /\ Set(f, m, v) \in [S -> T]
           /\ Set(f, m, v)[m] = v
           /\ \A n \in S : n # m => Set(f, m, v)[n] = f[n]
  BY DEF Set

\* The three kinds of calls, told apart by op.
AnyCall == {NoCall} \cup ItemCall \cup StateCall

LEMMA CallKinds ==
    ASSUME NEW c \in AnyCall
    PROVE  /\ c.op = "none" <=> c = NoCall
           /\ c.op = "item" <=> c \in ItemCall
           /\ c.op = "state" <=> c \in StateCall
           /\ c.op \in {"none", "item", "state"}
  BY DEF AnyCall, NoCall, ItemCall, StateCall

\* A result is entered into a call.
LEMMA ItemResult ==
    ASSUME NEW c \in ItemCall, NEW r \in Results
    PROVE  LET d == [c EXCEPT !.result = r]
           IN  /\ d \in ItemCall /\ d.op = "item" /\ d.result = r
               /\ d.id = c.id /\ d.seq = c.seq /\ d.item = c.item
  BY DEF ItemCall, Results

LEMMA StateResult ==
    ASSUME NEW c \in StateCall, NEW r \in Results
    PROVE  LET d == [c EXCEPT !.result = r]
           IN  /\ d \in StateCall /\ d.op = "state" /\ d.result = r
               /\ d.value = c.value /\ d.cause = c.cause
  BY DEF StateCall, Results

LEMMA NewItemCall ==
    ASSUME NEW i \in Places, NEW s \in Slots, NEW w \in Items
    PROVE  LET d == [op |-> "item", id |-> i, seq |-> s, item |-> w, result |-> "pending"]
           IN  /\ d \in ItemCall /\ d.op = "item" /\ d.result = "pending"
               /\ d.id = i /\ d.seq = s /\ d.item = w
  BY DEF ItemCall, Results

LEMMA NewStateCall ==
    ASSUME NEW i \in Places, NEW n \in 0..MaxCount, NEW cause \in Causes
    PROVE  LET d == [op |-> "state", cause |-> cause, result |-> "pending",
                     value |-> [dataman_id |-> i, count |-> n]]
           IN  /\ d \in StateCall /\ d.op = "state" /\ d.result = "pending"
               /\ d.cause = cause /\ d.value.dataman_id = i /\ d.value.count = n
  BY DEF StateCall, MissionState, Results

-------------------------------------------------------------------------------
\* A step of manager m.
Keeps(m) ==
    /\ TypeOK' /\ partner' \in [Managers -> Anybody]
    /\ ManagerOK(m)'
    /\ \A n \in Managers : n # m => state'[n] = state[n] /\ call'[n] = call[n]

LEMMA StepOfOne ==
    ASSUME OneLink, IInv, NEW m \in Managers, Partners[m] # {}, Keeps(m)
    PROVE  IInv'
<1>1. \A n \in Managers : Partners[n] # {} => n = m
  BY DEF OneLink
<1>2. OthersIdle'
  BY <1>1 DEF OthersIdle, Idle, Keeps, IInv
<1> QED
  BY <1>1, <1>2 DEF IInv, Keeps

\* Whoever is not idle is spoken to.
LEMMA BusyIsPartnered ==
    ASSUME IInv, NEW m \in Managers, ~Idle(m)
    PROVE  Partners[m] # {} /\ ManagerOK(m)
  BY DEF IInv, OthersIdle

LEMMA PartnerIsAnybody ==
    ASSUME NEW m \in Managers, NEW p \in Partners[m]
    PROVE  p \in Anybody /\ Partners[m] # {}
  BY DEF Anybody

LEMMA NobodyIsAnybody == None \in Anybody
  BY DEF Anybody

LEMMA ActiveIsTyped ==
    TypeOK => /\ Inactive \in Places /\ Inactive # dataman_id
              /\ 0 \in 0..MaxCount
  BY CountAssumption DEF TypeOK, Inactive, Places

\* What update_active_mission() asks to be written.
LEMMA UpdateCalls ==
    ASSUME TypeOK, NEW m \in Managers, NEW i \in Places, NEW n \in 0..MaxCount,
           NEW cause \in Causes, UpdateActiveMission(m, i, n, cause)
    PROVE  /\ call' \in [Managers -> AnyCall]
           /\ call'[m].op = "state" /\ call'[m].result = "pending"
           /\ call'[m].cause = cause
           /\ call'[m].value.dataman_id = i /\ call'[m].value.count = n
           /\ call'[m] # NoCall
           /\ \A k \in Managers : k # m => call'[k] = call[k]
<1> DEFINE d == [op |-> "state", cause |-> cause, result |-> "pending",
                 value |-> [dataman_id |-> i, count |-> n]]
<1>1. d \in StateCall /\ d.op = "state" /\ d.result = "pending"
        /\ d.cause = cause /\ d.value.dataman_id = i /\ d.value.count = n
  BY NewStateCall
<1>2. call' = Set(call, m, d)
  BY DEF UpdateActiveMission
<1>3. call \in [Managers -> AnyCall] /\ d \in AnyCall
  BY <1>1 DEF TypeOK, AnyCall
<1>4. d # NoCall
  BY <1>1, <1>3, CallKinds
<1> HIDE DEF d
<1> QED
  BY <1>1, <1>2, <1>3, <1>4 DEF Set

-------------------------------------------------------------------------------
\* What holds of each manager for itself, on however many links: the items of a
\* transfer are written in their order, and the mission state after the last.
OrderOK(m) ==
    /\ state[m] = "GETLIST" => transfer_seq[m] < transfer_count[m]
    /\ call[m].op = "item" =>
          call[m].seq = transfer_seq[m] /\ transfer_seq[m] < transfer_count[m]
    /\ call[m].op = "state" /\ call[m].cause = "upload" =>
          /\ call[m].value.dataman_id = transfer_dataman_id[m]
          /\ call[m].value.count = transfer_count[m]
          /\ transfer_seq[m] = transfer_count[m]

LinksInv ==
    /\ TypeOK /\ partner \in [Managers -> Anybody]
    /\ \A m \in Managers : OrderOK(m)

Typed == TypeOK /\ partner \in [Managers -> Anybody]

\* The members of the other managers.
OthersAt(m) ==
    \A n \in Managers : n # m =>
        /\ state'[n] = state[n] /\ call'[n] = call[n]
        /\ transfer_seq'[n] = transfer_seq[n] /\ transfer_count'[n] = transfer_count[n]
        /\ transfer_dataman_id'[n] = transfer_dataman_id[n]

LEMMA OrderOfOne ==
    ASSUME LinksInv, NEW m \in Managers, Typed', OrderOK(m)', OthersAt(m)
    PROVE  LinksInv'
<1>1. \A n \in Managers : n # m => OrderOK(n)'
  BY DEF OrderOK, OthersAt, LinksInv
<1> QED
  BY <1>1 DEF LinksInv, Typed

LEMMA ReceivedIsTyped ==
    ASSUME TypeOK, NEW m \in Managers, Received(m)
    PROVE  recv' \in [Managers -> 0..(ActionTimeout + 1)]
  BY TimeoutAssumption DEF TypeOK, Received, Set

LEMMA AckOrder ==
    ASSUME LinksInv, NEW m \in Managers, NEW p \in Partners[m], HandleMissionAck(m, p)
    PROVE  LinksInv'
<1> USE DEF active, transfer, storage
<1>1. /\ state' \in [Managers -> States] /\ state'[m] = "IDLE"
      /\ \A n \in Managers : n # m => state'[n] = state[n]
  BY DEF LinksInv, TypeOK, States, HandleMissionAck, Set
<1>2. Typed'
  BY <1>1, ReceivedIsTyped DEF LinksInv, TypeOK, HandleMissionAck, NoAck, Acks, MissionState, Typed
<1>3. OrderOK(m)' /\ OthersAt(m)
  BY <1>1 DEF LinksInv, HandleMissionAck, OrderOK, OthersAt
<1> QED
  BY <1>2, <1>3, OrderOfOne

\* A message for which at most a mission state that is no upload is written.
LEMMA UpdateOrder ==
    ASSUME LinksInv, NEW m \in Managers, Received(m), ack' \in Acks \cup {None},
           \/ UNCHANGED call
           \/ \E i \in Places, n \in 0..MaxCount, cause \in Causes \ {"upload"} :
                 UpdateActiveMission(m, i, n, cause),
           transfer_in_progress' \in BOOLEAN,
           UNCHANGED <<active, state, my_dataman_id, transfer, storage, silent>>
    PROVE  LinksInv'
<1> USE DEF active, transfer, storage
<1>1. TypeOK /\ call \in [Managers -> AnyCall]
  BY DEF LinksInv, TypeOK, AnyCall
<1>2. /\ call' \in [Managers -> AnyCall]
      /\ call'[m] = call[m] \/ (call'[m].op = "state" /\ call'[m].cause # "upload")
      /\ \A n \in Managers : n # m => call'[n] = call[n]
  <2>1. CASE UNCHANGED call
    BY <1>1, <2>1
  <2>2. ASSUME NEW i \in Places, NEW n \in 0..MaxCount, NEW cause \in Causes \ {"upload"},
               UpdateActiveMission(m, i, n, cause)
        PROVE  /\ call' \in [Managers -> AnyCall]
               /\ call'[m].op = "state" /\ call'[m].cause # "upload"
               /\ \A k \in Managers : k # m => call'[k] = call[k]
    BY <1>1, <2>2, UpdateCalls
  <2> QED  BY <2>1, <2>2
<1>3. Typed'
  BY <1>1, <1>2, ReceivedIsTyped DEF LinksInv, TypeOK, MissionState, Typed, AnyCall
<1>4. OrderOK(m)' /\ OthersAt(m)
  BY <1>2 DEF LinksInv, OrderOK, OthersAt
<1> QED
  BY <1>3, <1>4, OrderOfOne

LEMMA SetCurrentOrder ==
    ASSUME LinksInv, NEW m \in Managers, NEW p \in Partners[m], NEW seq \in 0..MaxCount,
           HandleMissionSetCurrent(m, p, seq)
    PROVE  LinksInv'
<1>1. \/ UNCHANGED call
      \/ UpdateActiveMission(m, dataman_id, count, "current")
  BY DEF HandleMissionSetCurrent
<1>2. dataman_id \in Places /\ count \in 0..MaxCount /\ "current" \in Causes \ {"upload"}
  BY DEF LinksInv, TypeOK, Causes
<1>3. /\ Received(m) /\ ack' \in Acks \cup {None} /\ transfer_in_progress' \in BOOLEAN
      /\ UNCHANGED <<active, state, my_dataman_id, transfer, storage, silent>>
  BY DEF HandleMissionSetCurrent, NoAck, LinksInv, TypeOK
<1> QED
  BY <1>1, <1>2, <1>3, UpdateOrder

LEMMA ClearAllOrder ==
    ASSUME LinksInv, NEW m \in Managers, NEW p \in Partners[m], HandleMissionClearAll(m, p)
    PROVE  LinksInv'
<1>1. UpdateActiveMission(m, Inactive, 0, "clear")
  BY DEF HandleMissionClearAll
<1>2. Inactive \in Places /\ 0 \in 0..MaxCount /\ "clear" \in Causes \ {"upload"}
  BY ActiveIsTyped DEF LinksInv, Causes
<1>3. /\ Received(m) /\ ack' \in Acks \cup {None} /\ transfer_in_progress' \in BOOLEAN
      /\ UNCHANGED <<active, state, my_dataman_id, transfer, storage, silent>>
  BY DEF HandleMissionClearAll, NoAck, LinksInv, TypeOK
<1> QED
  BY <1>1, <1>2, <1>3, UpdateOrder

LEMMA RequestListOrder ==
    ASSUME LinksInv, NEW m \in Managers, NEW p \in Partners[m], HandleMissionRequestList(m, p)
    PROVE  LinksInv'
<1> USE DEF active, transfer, storage
<1>1. TypeOK /\ p \in Anybody /\ partner \in [Managers -> Anybody]
  BY PartnerIsAnybody DEF LinksInv
<1>2. /\ state' \in [Managers -> States] /\ state'[m] = "SENDLIST"
      /\ \A n \in Managers : n # m => state'[n] = state[n]
  BY <1>1 DEF TypeOK, States, HandleMissionRequestList, Set
<1>3. /\ transfer_seq' \in [Managers -> 0..MaxCount]
      /\ transfer_count' \in [Managers -> 0..MaxCount]
      /\ \A n \in Managers : n # m =>
            transfer_seq'[n] = transfer_seq[n] /\ transfer_count'[n] = transfer_count[n]
  BY <1>1, CountAssumption DEF TypeOK, HandleMissionRequestList, Set
<1>4. /\ partner' \in [Managers -> Anybody]
      /\ \A n \in Managers : partner'[n] \in Partners[n] \cup {None}
  BY <1>1 DEF TypeOK, HandleMissionRequestList, Set
<1>5. Typed'
  BY <1>1, <1>2, <1>3, <1>4, ReceivedIsTyped
     DEF TypeOK, HandleMissionRequestList, NoAck, Acks, MissionState, Typed
<1>6. OrderOK(m)' /\ OthersAt(m)
  BY <1>2, <1>3 DEF HandleMissionRequestList, Receiving, NoCall, OrderOK, OthersAt
<1> QED
  BY <1>5, <1>6, OrderOfOne

LEMMA RequestOrder ==
    ASSUME LinksInv, NEW m \in Managers, NEW p \in Partners[m], NEW seq \in 0..MaxCount,
           HandleMissionRequest(m, p, seq)
    PROVE  LinksInv'
<1> USE DEF active, transfer, storage
<1>1. TypeOK /\ call[m] = NoCall /\ state[m] = "SENDLIST"
  BY DEF LinksInv, HandleMissionRequest, Receiving
<1>2. /\ state' \in [Managers -> States] /\ state'[m] \in {"IDLE", "SENDLIST"}
      /\ \A n \in Managers : n # m => state'[n] = state[n]
  BY <1>1 DEF TypeOK, States, HandleMissionRequest, SendItem, Set
<1>3. /\ transfer_seq' \in [Managers -> 0..MaxCount]
      /\ \A n \in Managers : n # m => transfer_seq'[n] = transfer_seq[n]
  BY <1>1, CountAssumption DEF TypeOK, HandleMissionRequest, Set
<1>4. ack' \in Acks \cup {None}
  BY DEF HandleMissionRequest, SendItem, NoAck, Acks
<1>5. Typed'
  BY <1>1, <1>2, <1>3, <1>4, ReceivedIsTyped
     DEF LinksInv, TypeOK, HandleMissionRequest, MissionState, Typed
<1>6. OrderOK(m)' /\ OthersAt(m)
  BY <1>1, <1>2, <1>3 DEF HandleMissionRequest, NoCall, OrderOK, OthersAt
<1> QED
  BY <1>5, <1>6, OrderOfOne

LEMMA CountOrder ==
    ASSUME LinksInv, NEW m \in Managers, NEW p \in Partners[m], NEW n \in 0..(MaxCount + 1),
           HandleMissionCount(m, p, n)
    PROVE  LinksInv'
<1> USE DEF active, transfer, storage
<1>1. /\ TypeOK /\ p \in Anybody /\ partner \in [Managers -> Anybody]
      /\ call[m] = NoCall /\ Received(m)
      /\ UNCHANGED <<active, my_dataman_id, storage, silent>>
  BY PartnerIsAnybody DEF LinksInv, HandleMissionCount, Receiving
<1>2. CASE CountAgain \/ CountRefused
  BY <1>1, <1>2, UpdateOrder DEF CountAgain, CountRefused, NoAck, Acks, TypeOK
<1>3. CASE CountEmpty(m)
  <2>1. Inactive \in Places /\ 0 \in 0..MaxCount /\ "empty" \in Causes \ {"upload"}
    BY <1>1, ActiveIsTyped DEF Causes
  <2> QED
    BY <1>1, <1>3, <2>1, UpdateOrder DEF CountEmpty, NoAck
<1>4. CASE n \in 1..MaxCount /\ CountBegins(m, p, n)
  <2>1. /\ state' \in [Managers -> States]
        /\ \A k \in Managers : k # m => state'[k] = state[k]
    BY <1>1, <1>4 DEF TypeOK, States, CountBegins, Set
  <2>2. /\ transfer_seq' \in [Managers -> 0..MaxCount] /\ transfer_seq'[m] = 0
        /\ transfer_count' \in [Managers -> 0..MaxCount] /\ transfer_count'[m] = n
        /\ transfer_dataman_id' \in [Managers -> Places]
        /\ \A k \in Managers : k # m =>
              /\ transfer_seq'[k] = transfer_seq[k] /\ transfer_count'[k] = transfer_count[k]
              /\ transfer_dataman_id'[k] = transfer_dataman_id[k]
    BY <1>1, <1>4, CountAssumption, ActiveIsTyped DEF TypeOK, CountBegins, Set
  <2>3. /\ partner' \in [Managers -> Anybody]
        /\ \A k \in Managers : partner'[k] \in Partners[k] \cup {None}
    BY <1>1, <1>4 DEF TypeOK, CountBegins, Set
  <2>4. Typed'
    BY <1>1, <1>4, <2>1, <2>2, <2>3, ReceivedIsTyped
       DEF TypeOK, CountBegins, NoAck, Acks, MissionState, Typed
  <2>5. OrderOK(m)' /\ OthersAt(m)
    BY <1>1, <1>4, <2>1, <2>2 DEF CountBegins, NoCall, OrderOK, OthersAt
  <2> QED
    BY <2>4, <2>5, OrderOfOne
<1>5. CountAgain \/ CountRefused \/ CountEmpty(m) \/ (n \in 1..MaxCount /\ CountBegins(m, p, n))
  BY <1>1, CountAssumption DEF HandleMissionCount, TypeOK, States
<1> QED
  BY <1>2, <1>3, <1>4, <1>5

LEMMA ItemOrder ==
    ASSUME LinksInv, NEW m \in Managers, NEW p \in Partners[m], NEW seq \in 0..MaxCount,
           NEW item \in Items \cup {Invalid}, HandleMissionItem(m, p, seq, item)
    PROVE  LinksInv'
<1> USE DEF active, transfer, storage
<1>1. /\ TypeOK /\ partner \in [Managers -> Anybody] /\ call \in [Managers -> AnyCall]
      /\ call[m] = NoCall /\ state[m] = "GETLIST" /\ Received(m)
      /\ transfer_seq[m] < transfer_count[m]
      /\ UNCHANGED <<active, my_dataman_id, transfer, storage, silent>>
  BY DEF LinksInv, TypeOK, AnyCall, HandleMissionItem, Receiving, OrderOK
<1>2. CASE seq # transfer_seq[m]
  <2>1. UNCHANGED <<state, transfer_in_progress, call>> /\ ack' = None
    BY <1>2 DEF HandleMissionItem, NoAck
  <2> QED
    BY <1>1, <2>1, UpdateOrder DEF TypeOK
<1>3. CASE seq = transfer_seq[m] /\ item = Invalid
  <2>1. /\ ack' = "UNSUPPORTED" /\ state' = Set(state, m, "IDLE")
        /\ transfer_in_progress' = FALSE /\ UNCHANGED call
    BY <1>3 DEF HandleMissionItem
  <2>2. /\ state' \in [Managers -> States] /\ state'[m] = "IDLE"
        /\ \A k \in Managers : k # m => state'[k] = state[k]
    BY <1>1, <2>1 DEF TypeOK, States, Set
  <2>3. Typed'
    BY <1>1, <2>1, <2>2, ReceivedIsTyped DEF TypeOK, MissionState, Acks, Typed
  <2>4. OrderOK(m)' /\ OthersAt(m)
    BY <1>1, <2>1, <2>2 DEF NoCall, OrderOK, OthersAt
  <2> QED
    BY <2>3, <2>4, OrderOfOne
<1>4. CASE seq = transfer_seq[m] /\ item # Invalid
  <2> DEFINE d == [op |-> "item", id |-> transfer_dataman_id[m], seq |-> seq,
                   item |-> item, result |-> "pending"]
  <2>1. call' = Set(call, m, d) /\ ack' = None /\ UNCHANGED <<state, transfer_in_progress>>
    BY <1>4 DEF HandleMissionItem, NoAck
  <2>2. transfer_dataman_id[m] \in Places /\ seq \in Slots /\ item \in Items
    BY <1>1, <1>4, CountAssumption DEF TypeOK, Slots
  <2>3. d \in AnyCall /\ d.op = "item" /\ d.seq = seq
    BY <2>2, NewItemCall DEF AnyCall
  <2> HIDE DEF d
  <2>4. /\ call' \in [Managers -> AnyCall] /\ call'[m] = d
        /\ \A k \in Managers : k # m => call'[k] = call[k]
    BY <1>1, <2>1, <2>3 DEF Set
  <2>5. Typed'
    BY <1>1, <2>1, <2>4, ReceivedIsTyped DEF TypeOK, MissionState, AnyCall, Typed
  <2>6. OrderOK(m)' /\ OthersAt(m)
    BY <1>1, <1>4, <2>1, <2>3, <2>4 DEF OrderOK, OthersAt
  <2> QED
    BY <2>5, <2>6, OrderOfOne
<1> QED
  BY <1>2, <1>3, <1>4

\* The data manager performs the write of m or fails to.
LEMMA WriteOrder ==
    ASSUME LinksInv, NEW m \in Managers, PerformWrite(m)
    PROVE  LinksInv'
<1> USE DEF active, transfer, storage
<1>1. /\ TypeOK /\ partner \in [Managers -> Anybody] /\ call \in [Managers -> AnyCall]
      /\ call[m] \in AnyCall /\ call[m] # NoCall /\ ack' = None
      /\ UNCHANGED <<active, transfer_in_progress, state, recv, my_dataman_id, transfer, silent>>
  BY DEF LinksInv, TypeOK, AnyCall, PerformWrite, NoAck
<1>2. PICK r \in {"ok", "failed"} :
        /\ call' = Set(call, m, [call[m] EXCEPT !.result = r])
        /\ \/ UNCHANGED storage
           \/ /\ call[m].op = "item" /\ UNCHANGED <<mission_state, misread>>
              /\ waypoints' = Set(waypoints, call[m].id,
                                  Set(waypoints[call[m].id], call[m].seq, call[m].item))
           \/ /\ call[m].op # "item" /\ UNCHANGED waypoints
              /\ mission_state' = call[m].value /\ misread' = FALSE
  BY DEF PerformWrite
<1> DEFINE d == [call[m] EXCEPT !.result = r]
<1>3. call[m] \in ItemCall \/ call[m] \in StateCall
  BY <1>1 DEF AnyCall
<1>4. /\ d \in AnyCall /\ d.op = call[m].op
      /\ d.op = "item" => d.seq = call[m].seq
      /\ d.op = "state" => d.value = call[m].value /\ d.cause = call[m].cause
  <2>1. r \in Results
    BY DEF Results
  <2>2. CASE call[m] \in ItemCall
    <3>1. d \in ItemCall /\ d.op = "item" /\ d.seq = call[m].seq
      BY <2>1, <2>2, ItemResult
    <3>2. call[m].op = "item"
      BY <1>1, <2>2, CallKinds
    <3> HIDE DEF d
    <3> QED  BY <3>1, <3>2 DEF AnyCall
  <2>3. CASE call[m] \in StateCall
    <3>1. d \in StateCall /\ d.op = "state" /\ d.value = call[m].value /\ d.cause = call[m].cause
      BY <2>1, <2>3, StateResult
    <3>2. call[m].op = "state"
      BY <1>1, <2>3, CallKinds
    <3> HIDE DEF d
    <3> QED  BY <3>1, <3>2 DEF AnyCall
  <2> QED  BY <1>3, <2>2, <2>3
<1>5. call' = Set(call, m, d)
  BY <1>2
<1> HIDE DEF d
<1>6. /\ call' \in [Managers -> AnyCall] /\ call'[m] = d
      /\ \A k \in Managers : k # m => call'[k] = call[k]
  BY <1>1, <1>4, <1>5 DEF Set
<1>7. /\ mission_state' \in MissionState /\ misread' \in BOOLEAN
      /\ waypoints' \in [Places -> [Slots -> Items \cup {None}]]
  <2>1. CASE UNCHANGED storage
    BY <1>1, <2>1 DEF TypeOK
  <2>2. CASE call[m].op = "item" /\ UNCHANGED <<mission_state, misread>>
             /\ waypoints' = Set(waypoints, call[m].id,
                                 Set(waypoints[call[m].id], call[m].seq, call[m].item))
    <3>1. call[m].id \in Places /\ call[m].seq \in Slots /\ call[m].item \in Items
      BY <1>1, <2>2, CallKinds DEF ItemCall
    <3>2. waypoints \in [Places -> [Slots -> Items \cup {None}]]
      BY <1>1 DEF TypeOK
    <3>3. Set(waypoints[call[m].id], call[m].seq, call[m].item) \in [Slots -> Items \cup {None}]
      BY <3>1, <3>2 DEF Set
    <3> QED
      BY <1>1, <2>2, <3>1, <3>2, <3>3 DEF Set, TypeOK
  <2>3. CASE call[m].op # "item" /\ UNCHANGED waypoints /\ mission_state' = call[m].value
             /\ misread' = FALSE
    <3>1. call[m] \in StateCall
      BY <1>1, <1>3, <2>3, CallKinds
    <3> QED
      BY <1>1, <2>3, <3>1 DEF StateCall, TypeOK
  <2> QED  BY <1>2, <2>1, <2>2, <2>3
<1>8. Typed'
  BY <1>1, <1>6, <1>7 DEF TypeOK, AnyCall, Typed
<1>9. OrderOK(m)' /\ OthersAt(m)
  BY <1>1, <1>4, <1>6 DEF LinksInv, OrderOK, OthersAt
<1> QED
  BY <1>8, <1>9, OrderOfOne

LEMMA ItemWrittenOrder ==
    ASSUME LinksInv, NEW m \in Managers, ItemWritten(m)
    PROVE  LinksInv'
<1> USE DEF active, transfer, storage
<1>1. /\ TypeOK /\ partner \in [Managers -> Anybody] /\ call \in [Managers -> AnyCall]
      /\ call[m].op = "item" /\ call[m].seq = transfer_seq[m]
      /\ transfer_seq[m] < transfer_count[m]
      /\ UNCHANGED <<active, recv, my_dataman_id, transfer_dataman_id, transfer_count,
                     partner, storage, silent>>
  BY DEF LinksInv, TypeOK, AnyCall, ItemWritten, OrderOK
<1>2. CASE call[m].result = "failed"
  <2>1. /\ ack' = "ERROR" /\ state' = Set(state, m, "IDLE") /\ transfer_in_progress' = FALSE
        /\ call' = Set(call, m, NoCall) /\ UNCHANGED transfer_seq
    BY <1>2 DEF ItemWritten
  <2>2. /\ state' \in [Managers -> States] /\ state'[m] = "IDLE"
        /\ call' \in [Managers -> AnyCall] /\ call'[m] = NoCall
        /\ \A k \in Managers : k # m => state'[k] = state[k] /\ call'[k] = call[k]
    BY <1>1, <2>1 DEF TypeOK, States, Set, AnyCall
  <2>3. Typed'
    BY <1>1, <2>1, <2>2 DEF TypeOK, MissionState, Acks, AnyCall, Typed
  <2>4. OrderOK(m)' /\ OthersAt(m)
    BY <1>1, <2>1, <2>2 DEF NoCall, OrderOK, OthersAt
  <2> QED
    BY <2>3, <2>4, OrderOfOne
<1>3. CASE call[m].result # "failed"
  <2>1. /\ transfer_seq' = Set(transfer_seq, m, transfer_seq[m] + 1)
        /\ ack' = None /\ UNCHANGED transfer_in_progress
    BY <1>1, <1>3 DEF ItemWritten, NoAck
  <2>2. /\ transfer_seq' \in [Managers -> 0..MaxCount] /\ transfer_seq'[m] = transfer_seq[m] + 1
        /\ \A k \in Managers : k # m => transfer_seq'[k] = transfer_seq[k]
    BY <1>1, <2>1, CountAssumption DEF TypeOK, Set
  <2>3. CASE transfer_seq[m] + 1 = transfer_count[m]
    <3>1. /\ state' = Set(state, m, "IDLE")
          /\ UpdateActiveMission(m, transfer_dataman_id[m], transfer_count[m], "upload")
      BY <1>1, <1>3, <2>3 DEF ItemWritten
    <3>2. /\ state' \in [Managers -> States] /\ state'[m] = "IDLE"
          /\ \A k \in Managers : k # m => state'[k] = state[k]
      BY <1>1, <3>1 DEF TypeOK, States, Set
    <3>3. transfer_dataman_id[m] \in Places /\ transfer_count[m] \in 0..MaxCount
      BY <1>1 DEF TypeOK
    <3>4. /\ call' \in [Managers -> AnyCall] /\ call'[m].op = "state"
          /\ call'[m].value.dataman_id = transfer_dataman_id[m]
          /\ call'[m].value.count = transfer_count[m]
          /\ \A k \in Managers : k # m => call'[k] = call[k]
      BY <1>1, <3>1, <3>3, UpdateCalls DEF Causes
    <3>5. Typed'
      BY <1>1, <2>1, <2>2, <3>2, <3>4 DEF TypeOK, MissionState, AnyCall, Typed
    <3>6. OrderOK(m)' /\ OthersAt(m)
      BY <1>1, <2>2, <2>3, <3>2, <3>4 DEF OrderOK, OthersAt
    <3> QED
      BY <3>5, <3>6, OrderOfOne
  <2>4. CASE transfer_seq[m] + 1 # transfer_count[m]
    <3>1. call' = Set(call, m, NoCall) /\ UNCHANGED state
      BY <1>1, <1>3, <2>4 DEF ItemWritten
    <3>2. /\ call' \in [Managers -> AnyCall] /\ call'[m] = NoCall
          /\ \A k \in Managers : k # m => call'[k] = call[k]
      BY <1>1, <3>1 DEF Set, AnyCall
    <3>3. Typed'
      BY <1>1, <2>1, <2>2, <3>1, <3>2 DEF TypeOK, MissionState, AnyCall, Typed
    <3>4. transfer_seq'[m] < transfer_count'[m]
      BY <1>1, <2>2, <2>4 DEF TypeOK
    <3>5. OrderOK(m)' /\ OthersAt(m)
      BY <1>1, <2>2, <3>1, <3>2, <3>4 DEF NoCall, OrderOK, OthersAt
    <3> QED
      BY <3>3, <3>5, OrderOfOne
  <2> QED
    BY <2>3, <2>4
<1> QED
  BY <1>2, <1>3

LEMMA StateWrittenOrder ==
    ASSUME LinksInv, NEW m \in Managers, StateWritten(m)
    PROVE  LinksInv'
<1> USE DEF active, transfer, storage
<1>1. /\ TypeOK /\ partner \in [Managers -> Anybody] /\ call \in [Managers -> AnyCall]
      /\ call[m].op = "state" /\ call' = Set(call, m, NoCall)
      /\ transfer_in_progress' \in BOOLEAN /\ ack' \in Acks \cup {None}
      /\ UNCHANGED <<state, recv, transfer, storage, silent>>
  BY DEF LinksInv, TypeOK, AnyCall, StateWritten, NoAck, Acks
<1>2. /\ call' \in [Managers -> AnyCall] /\ call'[m] = NoCall
      /\ \A k \in Managers : k # m => call'[k] = call[k]
  BY <1>1 DEF Set, AnyCall
<1>3. call[m].value.dataman_id \in Places /\ call[m].value.count \in 0..MaxCount
  BY <1>1, CallKinds DEF StateCall, MissionState
<1>4. /\ dataman_id' \in Places /\ count' \in 0..MaxCount
      /\ my_dataman_id' \in [Managers -> Places]
  <2>1. \/ /\ dataman_id' = call[m].value.dataman_id /\ count' = call[m].value.count
           /\ my_dataman_id' = Set(my_dataman_id, m, call[m].value.dataman_id)
        \/ UNCHANGED <<active, my_dataman_id>>
    BY DEF StateWritten
  <2> QED
    BY <1>1, <1>3, <2>1 DEF TypeOK, Set
<1>5. Typed'
  BY <1>1, <1>2, <1>4 DEF TypeOK, AnyCall, Typed
<1>6. OrderOK(m)' /\ OthersAt(m)
  BY <1>1, <1>2 DEF LinksInv, NoCall, OrderOK, OthersAt
<1> QED
  BY <1>5, <1>6, OrderOfOne

LEMMA SendOrder ==
    ASSUME LinksInv, NEW m \in Managers, Send(m)
    PROVE  LinksInv'
<1> USE DEF active, transfer, storage
<1>1. /\ state' \in [Managers -> States] /\ state'[m] = "IDLE"
      /\ \A n \in Managers : n # m => state'[n] = state[n]
  BY DEF LinksInv, TypeOK, States, Send, Set
<1>2. Typed'
  BY <1>1 DEF LinksInv, TypeOK, Send, NoAck, Typed
<1>3. OrderOK(m)' /\ OthersAt(m)
  BY <1>1 DEF LinksInv, Send, OrderOK, OthersAt
<1> QED
  BY <1>2, <1>3, OrderOfOne

\* Steps that leave the transfers and the calls alone, and the restart.
LEMMA AsideOrder ==
    ASSUME LinksInv,
           \/ \E m \in Managers : CheckActiveMission(m)
           \/ Tick \/ Silence \/ UNCHANGED vars
    PROVE  LinksInv'
<1> USE DEF active, transfer, storage
<1>1. UNCHANGED <<active, transfer_in_progress, state, transfer, call, storage>>
      /\ ack' \in Acks \cup {None}
  BY DEF CheckActiveMission, Tick, Silence, vars, NoAck, LinksInv, TypeOK
<1>2. recv' \in [Managers -> 0..(ActionTimeout + 1)]
  <2>1. CASE Tick
    BY <2>1, TimeoutAssumption DEF Tick, LinksInv, TypeOK
  <2>2. CASE UNCHANGED recv
    BY <2>2 DEF LinksInv, TypeOK
  <2> QED  BY <2>1, <2>2 DEF CheckActiveMission, Silence, vars
<1>3. my_dataman_id' \in [Managers -> Places] /\ silent' \in BOOLEAN
  BY DEF CheckActiveMission, Tick, Silence, vars, LinksInv, TypeOK, Set
<1> QED
  BY <1>1, <1>2, <1>3 DEF LinksInv, TypeOK, OrderOK

\* What a start loads is a mission of the right size.
LEMMA LoadableIsTyped ==
    ASSUME mission_state \in MissionState, NEW loaded \in Loadable
    PROVE  /\ loaded \in MissionState
           /\ loaded.dataman_id \in Places /\ loaded.count \in 0..MaxCount
<1>1. NoMission \in MissionState
  BY CountAssumption DEF NoMission, MissionState, Places
<1>2. loaded \in MissionState
  BY <1>1 DEF Loadable
<1> QED
  BY <1>2 DEF MissionState

LEMMA RestartLoads ==
    ASSUME TypeOK, Restart
    PROVE  /\ my_dataman_id' \in [Managers -> Places]
           /\ dataman_id' \in Places /\ count' \in 0..MaxCount
           /\ misread' \in BOOLEAN /\ Stored'
<1>1. PICK loaded \in Loadable :
        /\ dataman_id' = loaded.dataman_id /\ count' = loaded.count
        /\ my_dataman_id' = [m \in Managers |-> loaded.dataman_id]
        /\ misread' = (loaded # mission_state)
  BY DEF Restart
<1>2. /\ loaded.dataman_id \in Places /\ loaded.count \in 0..MaxCount
      /\ mission_state' = mission_state
  BY LoadableIsTyped DEF TypeOK, Restart
<1>3. misread' => loaded = NoMission
  BY <1>1 DEF Loadable
<1>4. CASE loaded = mission_state
  <2>1. misread' = FALSE
    BY <1>1, <1>4
  <2> QED
    BY <1>1, <1>2, <1>4, <2>1 DEF Stored
<1>5. CASE loaded # mission_state
  <2>1. misread' = TRUE /\ loaded = NoMission
    BY <1>1, <1>3, <1>5
  <2> QED
    BY <1>1, <1>2, <2>1 DEF Stored, NoMission
<1> QED
  BY <1>4, <1>5

\* In the beginning there is nothing to misread.
LEMMA InitLoads ==
    ASSUME Init
    PROVE  /\ mission_state \in MissionState /\ mission_state = NoMission
           /\ dataman_id \in Places /\ count \in 0..MaxCount
           /\ my_dataman_id \in [Managers -> Places]
           /\ misread = FALSE /\ Stored
<1>1. NoMission \in MissionState /\ mission_state = NoMission
  BY CountAssumption DEF Init, NoMission, MissionState, Places
<1>2. /\ dataman_id = NoMission.dataman_id /\ count = NoMission.count
      /\ my_dataman_id = [m \in Managers |-> NoMission.dataman_id]
      /\ misread = FALSE
  BY <1>1 DEF Init, LoadMission, Loadable
<1>3. NoMission.dataman_id \in Places /\ NoMission.count \in 0..MaxCount
  BY <1>1 DEF MissionState
<1> QED
  BY <1>1, <1>2, <1>3 DEF Stored

LEMMA RestartOrder == ASSUME LinksInv, Restart PROVE LinksInv'
<1> USE DEF active, transfer, storage
<1>1. partner' \in [Managers -> Anybody] /\ \A m \in Managers : partner'[m] = None
  BY NobodyIsAnybody DEF Restart
<1>2. /\ state' \in [Managers -> States]
      /\ recv' \in [Managers -> 0..(ActionTimeout + 1)]
      /\ transfer_dataman_id' \in [Managers -> Places]
      /\ transfer_count' \in [Managers -> 0..MaxCount]
      /\ transfer_seq' \in [Managers -> 0..MaxCount]
  BY CountAssumption, TimeoutAssumption DEF Restart, States, Places
<1>3. TypeOK' /\ partner' \in [Managers -> Anybody]
  BY <1>1, <1>2, RestartLoads DEF LinksInv, TypeOK, Restart, NoAck
<1>4. \A m \in Managers : state'[m] = "IDLE" /\ call'[m] = NoCall
  BY DEF Restart
<1> QED
  BY <1>3, <1>4 DEF LinksInv, OrderOK, NoCall

LEMMA InitTyped == Init => Typed
<1> SUFFICES ASSUME Init PROVE Typed
  OBVIOUS
<1>1. partner \in [Managers -> Anybody] /\ \A m \in Managers : partner[m] = None
  BY NobodyIsAnybody DEF Init, Construct
<1>2. /\ state \in [Managers -> States]
      /\ recv \in [Managers -> 0..(ActionTimeout + 1)]
      /\ transfer_dataman_id \in [Managers -> Places]
      /\ transfer_count \in [Managers -> 0..MaxCount]
      /\ transfer_seq \in [Managers -> 0..MaxCount]
  BY CountAssumption, TimeoutAssumption DEF Init, Construct, States, Places
<1> QED
  BY <1>1, <1>2, InitLoads DEF Init, Construct, TypeOK, Typed

\* Types and order hold on any number of links, whatever transfers go on beside
\* each other.
THEOREM LinksInvariance == Spec => []LinksInv
<1>1. Init => LinksInv
  <2>1. Init => \A m \in Managers : state[m] = "IDLE" /\ call[m] = NoCall
    BY DEF Init, Construct
  <2> QED
    BY <2>1, InitTyped DEF Typed, LinksInv, OrderOK, NoCall
<1>2. LinksInv /\ [Next]_vars => LinksInv'
  <2> SUFFICES ASSUME LinksInv, [Next]_vars PROVE LinksInv'
    OBVIOUS
  <2>1. ASSUME NEW m \in Managers, NEW p \in Partners[m], HandleMessage(m, p) PROVE LinksInv'
    BY <2>1, AckOrder, SetCurrentOrder, RequestListOrder, RequestOrder, CountOrder, ItemOrder,
       ClearAllOrder DEF HandleMessage
  <2> QED
    BY <2>1, WriteOrder, ItemWrittenOrder, StateWrittenOrder, SendOrder, AsideOrder,
       RestartOrder DEF Next
<1> QED
  BY <1>1, <1>2, PTL DEF Spec

\* TypeOK: every member keeps its range, the sequence numbers of a transfer
\* included, on any number of links.
THEOREM TypeCorrect == Spec => []TypeOK
<1>1. LinksInv => TypeOK
  BY DEF LinksInv
<1> QED
  BY <1>1, LinksInvariance, PTL

\* On any number of links, no part of a mission is activated
\* (handle_mission_item_both(), update_active_mission()).
THEOREM WholeMissions == Spec => []ActivatedWhenWhole
<1>1. LinksInv => ActivatedWhenWhole
  <2> SUFFICES ASSUME LinksInv, NEW m \in Managers
               PROVE  /\ call[m].op = "item" =>
                            call[m].seq = transfer_seq[m] /\ call[m].seq < transfer_count[m]
                      /\ call[m].op = "state" /\ call[m].cause = "upload" =>
                            /\ transfer_seq[m] = transfer_count[m]
                            /\ call[m].value = [dataman_id |-> transfer_dataman_id[m],
                                                count |-> transfer_count[m]]
    BY DEF ActivatedWhenWhole
  <2>1. OrderOK(m) /\ call[m] \in AnyCall
    BY DEF LinksInv, TypeOK, AnyCall
  <2>2. call[m].op = "state" => call[m].value \in MissionState
    BY <2>1, CallKinds DEF StateCall
  <2> QED
    BY <2>1, <2>2 DEF OrderOK, MissionState
<1> QED
  BY <1>1, LinksInvariance, PTL

-------------------------------------------------------------------------------
LEMMA AckStep ==
    ASSUME IInv, NEW m \in Managers, NEW p \in Partners[m], HandleMissionAck(m, p)
    PROVE  Keeps(m)
<1> USE DEF active, transfer, storage
<1>1. Partners[m] # {} /\ ManagerOK(m)
  BY DEF IInv
<1>2. /\ state' \in [Managers -> States]
      /\ state'[m] = "IDLE" /\ \A n \in Managers : n # m => state'[n] = state[n]
  BY DEF IInv, TypeOK, States, HandleMissionAck, Set
<1>3. recv' \in [Managers -> 0..(ActionTimeout + 1)]
  BY TimeoutAssumption DEF IInv, TypeOK, HandleMissionAck, Received, Set
<1>4. TypeOK' /\ partner' \in [Managers -> Anybody]
  BY <1>2, <1>3 DEF IInv, TypeOK, HandleMissionAck, NoAck, Acks, MissionState
<1>5. call[m] = NoCall /\ state[m] = "SENDLIST"
  BY DEF HandleMissionAck, Receiving
<1>6. ManagerOK(m)'
  BY <1>1, <1>2, <1>5 DEF HandleMissionAck, ManagerOK, TransferOK, ItemCallOK, StateCallOK, Stored, Idle, NoCall
<1> QED
  BY <1>2, <1>4, <1>6 DEF Keeps, HandleMissionAck

LEMMA SetCurrentStep ==
    ASSUME IInv, NEW m \in Managers, NEW p \in Partners[m], NEW seq \in 0..MaxCount,
           HandleMissionSetCurrent(m, p, seq)
    PROVE  Keeps(m)
<1> USE DEF active, transfer, storage
<1>1. Partners[m] # {} /\ ManagerOK(m) /\ TypeOK /\ call \in [Managers -> AnyCall]
  BY DEF IInv, TypeOK, AnyCall
<1>2. recv' \in [Managers -> 0..(ActionTimeout + 1)]
  BY TimeoutAssumption DEF IInv, TypeOK, HandleMissionSetCurrent, Received, Set
<1>3. call[m] = NoCall /\ state[m] = "IDLE" /\ ~transfer_in_progress /\ Stored
  BY <1>1 DEF HandleMissionSetCurrent, Receiving, ManagerOK, Idle, NoCall
<1>4. CASE seq < count
  <2>1. UpdateActiveMission(m, dataman_id, count, "current")
    BY <1>4 DEF HandleMissionSetCurrent
  <2>2. /\ call' \in [Managers -> AnyCall]
        /\ call'[m].op = "state" /\ call'[m].result = "pending"
        /\ call'[m].cause = "current"
        /\ call'[m].value.dataman_id = dataman_id /\ call'[m].value.count = count
        /\ \A k \in Managers : k # m => call'[k] = call[k]
    BY <1>1, <2>1, UpdateCalls DEF TypeOK, Causes
  <2>3. TypeOK' /\ partner' \in [Managers -> Anybody]
    BY <1>2, <2>2 DEF IInv, TypeOK, HandleMissionSetCurrent, NoAck, Acks, MissionState, AnyCall
  <2>4. ManagerOK(m)'
    BY <1>1, <1>3, <2>2 DEF HandleMissionSetCurrent, ManagerOK, TransferOK, ItemCallOK, StateCallOK, Stored, Idle
  <2> QED
    BY <2>2, <2>3, <2>4 DEF Keeps, HandleMissionSetCurrent
<1>5. CASE ~(seq < count)
  <2>1. UNCHANGED call
    BY <1>5 DEF HandleMissionSetCurrent
  <2>2. TypeOK' /\ partner' \in [Managers -> Anybody]
    BY <1>2, <2>1 DEF IInv, TypeOK, HandleMissionSetCurrent, NoAck, Acks, MissionState
  <2>3. ManagerOK(m)'
    BY <1>1, <1>3, <2>1 DEF HandleMissionSetCurrent, ManagerOK, TransferOK, ItemCallOK, StateCallOK, Stored, Idle, NoCall
  <2> QED
    BY <2>1, <2>2, <2>3 DEF Keeps, HandleMissionSetCurrent
<1> QED
  BY <1>4, <1>5

LEMMA ClearAllStep ==
    ASSUME IInv, NEW m \in Managers, NEW p \in Partners[m], HandleMissionClearAll(m, p)
    PROVE  Keeps(m)
<1> USE DEF active, transfer, storage
<1>1. Partners[m] # {} /\ ManagerOK(m) /\ TypeOK /\ call \in [Managers -> AnyCall]
  BY DEF IInv, TypeOK, AnyCall
<1>2. recv' \in [Managers -> 0..(ActionTimeout + 1)]
  BY TimeoutAssumption DEF IInv, TypeOK, HandleMissionClearAll, Received, Set
<1>3. call[m] = NoCall /\ state[m] = "IDLE" /\ ~transfer_in_progress /\ Stored
  BY <1>1 DEF HandleMissionClearAll, Receiving, ManagerOK, Idle, NoCall
<1>4. UpdateActiveMission(m, Inactive, 0, "clear")
  BY DEF HandleMissionClearAll
<1>5. /\ call' \in [Managers -> AnyCall]
      /\ call'[m].op = "state" /\ call'[m].result = "pending"
      /\ call'[m].cause = "clear" /\ call'[m].value.count = 0
      /\ \A k \in Managers : k # m => call'[k] = call[k]
  BY <1>1, <1>4, UpdateCalls, ActiveIsTyped DEF Causes
<1>6. TypeOK' /\ partner' \in [Managers -> Anybody]
  BY <1>2, <1>5 DEF IInv, TypeOK, HandleMissionClearAll, NoAck, Acks, MissionState, AnyCall
<1>7. ManagerOK(m)'
  BY <1>1, <1>3, <1>5 DEF HandleMissionClearAll, ManagerOK, TransferOK, ItemCallOK, StateCallOK, Stored, Idle
<1> QED
  BY <1>5, <1>6, <1>7 DEF Keeps, HandleMissionClearAll

LEMMA RequestListStep ==
    ASSUME IInv, NEW m \in Managers, NEW p \in Partners[m], HandleMissionRequestList(m, p)
    PROVE  Keeps(m)
<1> USE DEF active, transfer, storage
<1>1. Partners[m] # {} /\ ManagerOK(m) /\ TypeOK /\ p \in Anybody /\ partner \in [Managers -> Anybody]
  BY PartnerIsAnybody DEF IInv
<1>2. recv' \in [Managers -> 0..(ActionTimeout + 1)]
  BY TimeoutAssumption DEF IInv, TypeOK, HandleMissionRequestList, Received, Set
<1>3. call[m] = NoCall /\ state[m] \in {"IDLE", "SENDLIST"} /\ ~transfer_in_progress /\ Stored
  BY <1>1 DEF HandleMissionRequestList, Receiving, ManagerOK, Idle, NoCall
<1>4. /\ state' \in [Managers -> States] /\ state'[m] = "SENDLIST"
      /\ \A n \in Managers : n # m => state'[n] = state[n]
  BY <1>1 DEF TypeOK, States, HandleMissionRequestList, Set
<1>5. /\ transfer_seq' \in [Managers -> 0..MaxCount]
      /\ transfer_count' \in [Managers -> 0..MaxCount] /\ transfer_count'[m] = count
  BY <1>1, CountAssumption DEF TypeOK, HandleMissionRequestList, Set
<1>6. /\ partner' \in [Managers -> Anybody]
      /\ \A n \in Managers : partner'[n] \in Partners[n] \cup {None}
  BY <1>1 DEF TypeOK, HandleMissionRequestList, Set
<1>7. TypeOK'
  BY <1>1, <1>2, <1>4, <1>5, <1>6 DEF TypeOK, HandleMissionRequestList, NoAck, Acks, MissionState
<1>8. ManagerOK(m)'
  BY <1>1, <1>3, <1>4, <1>5 DEF HandleMissionRequestList, ManagerOK, TransferOK, ItemCallOK, StateCallOK, Stored, Idle, NoCall
<1> QED
  BY <1>4, <1>6, <1>7, <1>8 DEF Keeps, HandleMissionRequestList

LEMMA RequestStep ==
    ASSUME IInv, NEW m \in Managers, NEW p \in Partners[m], NEW seq \in 0..MaxCount,
           HandleMissionRequest(m, p, seq)
    PROVE  Keeps(m)
<1> USE DEF active, transfer, storage
<1>1. Partners[m] # {} /\ ManagerOK(m) /\ TypeOK
  BY DEF IInv
<1>2. recv' \in [Managers -> 0..(ActionTimeout + 1)]
  BY TimeoutAssumption DEF IInv, TypeOK, HandleMissionRequest, Received, Set
<1>3. call[m] = NoCall /\ state[m] = "SENDLIST" /\ ~transfer_in_progress /\ Stored
        /\ transfer_count[m] = count
  BY <1>1 DEF HandleMissionRequest, Receiving, ManagerOK, TransferOK, NoCall
<1>4. /\ state' \in [Managers -> States] /\ state'[m] \in {"IDLE", "SENDLIST"}
      /\ \A n \in Managers : n # m => state'[n] = state[n]
  BY <1>1, <1>3 DEF TypeOK, States, HandleMissionRequest, SendItem, Set
<1>5. transfer_seq' \in [Managers -> 0..MaxCount]
  BY <1>1, CountAssumption DEF TypeOK, HandleMissionRequest, Set
<1>6. ack' \in Acks \cup {None}
  BY DEF HandleMissionRequest, SendItem, NoAck, Acks
<1>7. TypeOK' /\ partner' \in [Managers -> Anybody]
  BY <1>2, <1>4, <1>5, <1>6 DEF IInv, TypeOK, HandleMissionRequest, MissionState
<1>8. ManagerOK(m)'
  BY <1>1, <1>3, <1>4 DEF HandleMissionRequest, ManagerOK, TransferOK, ItemCallOK, StateCallOK, Stored, Idle, NoCall
<1> QED
  BY <1>4, <1>7, <1>8 DEF Keeps, HandleMissionRequest

LEMMA CountStep ==
    ASSUME IInv, NEW m \in Managers, NEW p \in Partners[m], NEW n \in 0..(MaxCount + 1),
           HandleMissionCount(m, p, n)
    PROVE  Keeps(m)
<1> USE DEF active, transfer, storage
<1>1. Partners[m] # {} /\ ManagerOK(m) /\ TypeOK /\ p \in Anybody /\ partner \in [Managers -> Anybody]
        /\ call \in [Managers -> AnyCall]
  BY PartnerIsAnybody DEF IInv, TypeOK, AnyCall
<1>2. recv' \in [Managers -> 0..(ActionTimeout + 1)]
  BY TimeoutAssumption DEF IInv, TypeOK, HandleMissionCount, Received, Set
<1>3. /\ call[m] = NoCall /\ call[m].op = "none" /\ Stored
      /\ state[m] \in {"IDLE", "GETLIST"}
      /\ state[m] = "IDLE" => ~transfer_in_progress
  BY <1>1 DEF HandleMissionCount, Receiving, ManagerOK, Idle, NoCall, TypeOK, States
<1>4. UNCHANGED <<active, my_dataman_id, storage, silent>>
  BY DEF HandleMissionCount
<1>5. CASE UNCHANGED <<transfer_in_progress, state, transfer, call>> /\ ack' \in Acks \cup {None}
  <2>1. TypeOK' /\ partner' \in [Managers -> Anybody]
    BY <1>1, <1>2, <1>4, <1>5 DEF TypeOK, MissionState
  <2>2. ManagerOK(m)'
    BY <1>1, <1>3, <1>4, <1>5 DEF ManagerOK, TransferOK, ItemCallOK, StateCallOK, Stored, Idle, NoCall
  <2> QED
    BY <1>5, <2>1, <2>2 DEF Keeps
<1>6. CASE state[m] = "IDLE" /\ CountEmpty(m)
  <2>1. /\ call' \in [Managers -> AnyCall]
        /\ call'[m].op = "state" /\ call'[m].result = "pending"
        /\ call'[m].cause = "empty" /\ call'[m].value.count = 0
        /\ call'[m] # NoCall
        /\ \A k \in Managers : k # m => call'[k] = call[k]
    BY <1>1, <1>6, UpdateCalls, ActiveIsTyped DEF Causes, CountEmpty
  <2>2. TypeOK' /\ partner' \in [Managers -> Anybody]
    BY <1>1, <1>2, <1>4, <1>6, <2>1 DEF TypeOK, CountEmpty, NoAck, Acks, MissionState, AnyCall
  <2>3. ManagerOK(m)'
    BY <1>1, <1>3, <1>4, <1>6, <2>1 DEF CountEmpty, ManagerOK, TransferOK, ItemCallOK, StateCallOK, Stored, Idle
  <2> QED
    BY <1>6, <2>1, <2>2, <2>3 DEF Keeps, CountEmpty
<1>7. CASE n \in 1..MaxCount /\ CountBegins(m, p, n)
  <2>1. /\ state' \in [Managers -> States] /\ state'[m] = "GETLIST"
        /\ \A k \in Managers : k # m => state'[k] = state[k]
    BY <1>1, <1>7 DEF TypeOK, States, CountBegins, Set
  <2>2. /\ transfer_seq' \in [Managers -> 0..MaxCount] /\ transfer_seq'[m] = 0
        /\ transfer_count' \in [Managers -> 0..MaxCount] /\ transfer_count'[m] = n
        /\ transfer_dataman_id' \in [Managers -> Places] /\ transfer_dataman_id'[m] = Inactive
    BY <1>1, <1>7, CountAssumption, ActiveIsTyped DEF TypeOK, CountBegins, Set
  <2>3. /\ partner' \in [Managers -> Anybody]
        /\ \A k \in Managers : partner'[k] \in Partners[k] \cup {None}
    BY <1>1, <1>7 DEF TypeOK, CountBegins, Set
  <2>4. TypeOK'
    BY <1>1, <1>2, <1>4, <1>7, <2>1, <2>2, <2>3 DEF TypeOK, CountBegins, NoAck, Acks, MissionState
  <2>5. /\ call' = call /\ transfer_in_progress' /\ transfer_dataman_id'[m] # dataman_id'
        /\ transfer_seq'[m] < transfer_count'[m]
    BY <1>1, <1>4, <1>7, <2>2, ActiveIsTyped DEF CountBegins
  <2>6. ManagerOK(m)'
    BY <1>1, <1>3, <1>4, <2>1, <2>5 DEF ManagerOK, TransferOK, ItemCallOK, StateCallOK, Stored, Idle, NoCall
  <2> QED
    BY <2>1, <2>3, <2>4, <2>5, <2>6 DEF Keeps
<1>8. \/ CountAgain
      \/ CountRefused
      \/ state[m] = "IDLE" /\ CountEmpty(m)
      \/ n \in 1..MaxCount /\ CountBegins(m, p, n)
  BY <1>3, CountAssumption DEF HandleMissionCount
<1> QED
  BY <1>5, <1>6, <1>7, <1>8 DEF CountAgain, CountRefused, NoAck, Acks

LEMMA ItemStep ==
    ASSUME IInv, NEW m \in Managers, NEW p \in Partners[m], NEW seq \in 0..MaxCount,
           NEW item \in Items \cup {Invalid}, HandleMissionItem(m, p, seq, item)
    PROVE  Keeps(m)
<1> USE DEF active, transfer, storage
<1>1. Partners[m] # {} /\ ManagerOK(m) /\ TypeOK /\ partner \in [Managers -> Anybody]
        /\ call \in [Managers -> AnyCall]
  BY DEF IInv, TypeOK, AnyCall
<1>2. recv' \in [Managers -> 0..(ActionTimeout + 1)]
  BY TimeoutAssumption DEF IInv, TypeOK, HandleMissionItem, Received, Set
<1>3. /\ call[m] = NoCall /\ call[m].op = "none" /\ Stored
      /\ state[m] = "GETLIST" /\ transfer_seq[m] < transfer_count[m]
      /\ transfer_dataman_id[m] # dataman_id /\ transfer_in_progress
  BY <1>1 DEF HandleMissionItem, Receiving, ManagerOK, TransferOK, NoCall
<1>4. UNCHANGED <<active, my_dataman_id, transfer, storage, silent>>
  BY DEF HandleMissionItem
<1>5. CASE seq # transfer_seq[m]
  <2>1. /\ UNCHANGED <<state, transfer_in_progress, call>>
        /\ ack' \in {ack, None}
    BY <1>5 DEF HandleMissionItem, NoAck
  <2>2. TypeOK' /\ partner' \in [Managers -> Anybody]
    BY <1>1, <1>2, <1>4, <2>1 DEF TypeOK, MissionState
  <2>3. ManagerOK(m)'
    BY <1>1, <1>3, <1>4, <2>1 DEF ManagerOK, TransferOK, ItemCallOK, StateCallOK, Stored, Idle, NoCall
  <2> QED
    BY <2>1, <2>2, <2>3 DEF Keeps
<1>6. CASE seq = transfer_seq[m] /\ item = Invalid
  <2>1. /\ ack' = "UNSUPPORTED" /\ state' = Set(state, m, "IDLE")
        /\ transfer_in_progress' = FALSE /\ call' = call
    BY <1>6 DEF HandleMissionItem
  <2>2. /\ state' \in [Managers -> States] /\ state'[m] = "IDLE"
        /\ \A k \in Managers : k # m => state'[k] = state[k]
    BY <1>1, <2>1 DEF TypeOK, States, Set
  <2>3. TypeOK' /\ partner' \in [Managers -> Anybody]
    BY <1>1, <1>2, <1>4, <2>1, <2>2 DEF TypeOK, MissionState, Acks
  <2>4. ManagerOK(m)'
    BY <1>1, <1>3, <1>4, <2>1, <2>2 DEF ManagerOK, TransferOK, ItemCallOK, StateCallOK, Stored, Idle, NoCall
  <2> QED
    BY <2>1, <2>2, <2>3, <2>4 DEF Keeps
<1>7. CASE seq = transfer_seq[m] /\ item # Invalid
  <2> DEFINE d == [op |-> "item", id |-> transfer_dataman_id[m], seq |-> seq,
                   item |-> item, result |-> "pending"]
  <2>1. call' = Set(call, m, d) /\ ack' = None /\ UNCHANGED <<state, transfer_in_progress>>
    BY <1>7 DEF HandleMissionItem, NoAck
  <2>2. transfer_dataman_id[m] \in Places /\ seq \in Slots /\ item \in Items
    BY <1>1, <1>3, <1>7, CountAssumption DEF TypeOK, Slots
  <2>3. d \in ItemCall /\ d.op = "item" /\ d.result = "pending"
          /\ d.id = transfer_dataman_id[m] /\ d.seq = seq
    BY <2>2, NewItemCall
  <2>4. d \in AnyCall
    BY <2>3 DEF AnyCall
  <2> HIDE DEF d
  <2>5. /\ call' \in [Managers -> AnyCall] /\ call'[m] = d
        /\ \A k \in Managers : k # m => call'[k] = call[k]
    BY <1>1, <2>1, <2>4 DEF Set
  <2>6. TypeOK' /\ partner' \in [Managers -> Anybody]
    BY <1>1, <1>2, <1>4, <2>1, <2>5 DEF TypeOK, MissionState, AnyCall
  <2>7. ManagerOK(m)'
    BY <1>1, <1>3, <1>4, <1>7, <2>1, <2>3, <2>5 DEF ManagerOK, TransferOK, ItemCallOK, StateCallOK, Stored, Idle
  <2> QED
    BY <2>1, <2>5, <2>6, <2>7 DEF Keeps
<1> QED
  BY <1>5, <1>6, <1>7

LEMMA WriteStep ==
    ASSUME IInv, NEW m \in Managers, PerformWrite(m)
    PROVE  Keeps(m)
<1> USE DEF active, transfer, storage
<1>1. TypeOK /\ partner \in [Managers -> Anybody] /\ call \in [Managers -> AnyCall]
        /\ call[m] \in AnyCall /\ call[m] # NoCall /\ call[m].result = "pending"
  BY DEF IInv, TypeOK, AnyCall, PerformWrite
<1>2. ManagerOK(m)
  BY <1>1, BusyIsPartnered DEF Idle
<1>3. UNCHANGED <<active, transfer_in_progress, state, recv, my_dataman_id, transfer, silent>>
        /\ ack' = None
  BY DEF PerformWrite, NoAck
<1>4. Stored
  BY <1>1, <1>2 DEF ManagerOK
<1>5. PICK r \in {"ok", "failed"} :
        /\ call' = Set(call, m, [call[m] EXCEPT !.result = r])
        /\ r = "failed" => UNCHANGED storage
        /\ r = "ok" /\ call[m].op = "item" =>
             /\ waypoints' = Set(waypoints, call[m].id,
                                 Set(waypoints[call[m].id], call[m].seq, call[m].item))
             /\ UNCHANGED <<mission_state, misread>>
        /\ r = "ok" /\ call[m].op # "item" =>
             mission_state' = call[m].value /\ misread' = FALSE /\ UNCHANGED waypoints
  BY DEF PerformWrite
<1> DEFINE d == [call[m] EXCEPT !.result = r]
<1>6. call' = Set(call, m, d) /\ r \in Results
  BY <1>5 DEF Results
<1>7. CASE call[m].op = "item"
  <2>1. call[m] \in ItemCall
    BY <1>1, <1>7, CallKinds
  <2>2. d \in ItemCall /\ d.op = "item" /\ d.result = r
          /\ d.id = call[m].id /\ d.seq = call[m].seq /\ d.item = call[m].item
    BY <1>6, <2>1, ItemResult, Zenon
  <2>3. d \in AnyCall
    BY <2>2 DEF AnyCall
  <2>4. d # NoCall
    BY <2>2, <2>3, CallKinds
  <2> HIDE DEF d
  <2>5. /\ call' \in [Managers -> AnyCall] /\ call'[m] = d
        /\ \A k \in Managers : k # m => call'[k] = call[k]
    BY <1>1, <1>6, <2>3 DEF Set
  <2>6. call[m].id \in Places /\ call[m].seq \in Slots /\ call[m].item \in Items
    BY <2>1 DEF ItemCall
  <2>7. /\ waypoints' \in [Places -> [Slots -> Items \cup {None}]]
        /\ r = "ok" => waypoints'[call[m].id][call[m].seq] = call[m].item
        /\ UNCHANGED <<mission_state, misread>>
    <3>1. waypoints \in [Places -> [Slots -> Items \cup {None}]]
      BY <1>1 DEF TypeOK
    <3>2. LET w == Set(waypoints[call[m].id], call[m].seq, call[m].item)
          IN  w \in [Slots -> Items \cup {None}] /\ w[call[m].seq] = call[m].item
      BY <2>6, <3>1 DEF Set
    <3> QED
      BY <1>5, <1>7, <2>6, <3>1, <3>2 DEF Set
  <2>8. TypeOK' /\ partner' \in [Managers -> Anybody]
    BY <1>1, <1>3, <2>5, <2>7 DEF TypeOK, AnyCall, MissionState
  <2>9. ManagerOK(m)'
    BY <1>2, <1>3, <1>4, <1>5, <1>7, <2>2, <2>4, <2>5, <2>7
       DEF ManagerOK, TransferOK, ItemCallOK, StateCallOK, Stored, Idle
  <2> QED
    BY <1>3, <2>5, <2>8, <2>9 DEF Keeps
<1>8. CASE call[m].op = "state"
  <2>1. call[m] \in StateCall
    BY <1>1, <1>8, CallKinds
  <2>2. d \in StateCall /\ d.op = "state" /\ d.result = r
          /\ d.value = call[m].value /\ d.cause = call[m].cause
    BY <1>6, <2>1, StateResult, Zenon
  <2>3. d \in AnyCall
    BY <2>2 DEF AnyCall
  <2>4. d # NoCall
    BY <2>2, <2>3, CallKinds
  <2> HIDE DEF d
  <2>5. /\ call' \in [Managers -> AnyCall] /\ call'[m] = d
        /\ \A k \in Managers : k # m => call'[k] = call[k]
    BY <1>1, <1>6, <2>3 DEF Set
  <2>6. call[m].value \in MissionState
    BY <2>1 DEF StateCall
  <2>7. /\ mission_state' \in MissionState
        /\ r = "ok" => mission_state' = call[m].value /\ misread' = FALSE
        /\ r = "failed" => UNCHANGED <<mission_state, misread>>
        /\ misread' \in BOOLEAN /\ (misread' => misread)
        /\ UNCHANGED waypoints
    <3>1. misread \in BOOLEAN /\ mission_state \in MissionState
      BY <1>1 DEF TypeOK
    <3>2. CASE r = "failed"
      BY <1>5, <3>1, <3>2
    <3>3. CASE r = "ok"
      BY <1>5, <1>8, <2>6, <3>3
    <3> QED
      BY <3>2, <3>3
  <2>8. TypeOK' /\ partner' \in [Managers -> Anybody]
    BY <1>1, <1>3, <2>5, <2>7 DEF TypeOK, AnyCall
  <2>9. ManagerOK(m)'
    <3>1. StateCallOK(m) /\ state[m] = "IDLE"
      BY <1>2, <1>8 DEF ManagerOK, StateCallOK
    <3>2. StateCallOK(m)'
      BY <1>3, <1>8, <2>2, <2>5, <2>7, <3>1 DEF StateCallOK
    <3>3. (Stored \/ (call[m].op = "state" /\ call[m].result = "ok"))'
      BY <1>3, <1>4, <2>2, <2>5, <2>7 DEF Stored
    <3> QED
      BY <1>2, <1>3, <2>2, <2>4, <2>5, <3>1, <3>2, <3>3 DEF ManagerOK, TransferOK, ItemCallOK, Idle
  <2> QED
    BY <1>3, <2>5, <2>8, <2>9 DEF Keeps
<1> QED
  BY <1>1, <1>7, <1>8, CallKinds

LEMMA ItemWrittenStep ==
    ASSUME IInv, NEW m \in Managers, ItemWritten(m)
    PROVE  Keeps(m)
<1> USE DEF active, transfer, storage
<1>1. TypeOK /\ partner \in [Managers -> Anybody] /\ call \in [Managers -> AnyCall]
        /\ call[m] \in AnyCall /\ call[m].op = "item" /\ call[m].result # "pending"
  BY DEF IInv, TypeOK, AnyCall, ItemWritten
<1>2. call[m] \in ItemCall /\ call[m] # NoCall /\ NoCall.op = "none"
  BY <1>1, CallKinds DEF NoCall
<1>3. ManagerOK(m)
  BY <1>2, BusyIsPartnered DEF Idle
<1>4. /\ UNCHANGED <<active, recv, my_dataman_id, transfer_dataman_id,
                     transfer_count, partner, storage, silent>>
      /\ Stored
      /\ call[m].seq = transfer_seq[m] /\ transfer_seq[m] < transfer_count[m]
      /\ transfer_dataman_id[m] # dataman_id
      /\ transfer_in_progress => state[m] = "GETLIST"
      /\ state[m] # "SENDLIST"
  BY <1>1, <1>3 DEF ItemWritten, ManagerOK, ItemCallOK
<1>5. CASE call[m].result = "failed"
  <2>1. /\ ack' = "ERROR" /\ state' = Set(state, m, "IDLE") /\ transfer_in_progress' = FALSE
        /\ call' = Set(call, m, NoCall) /\ UNCHANGED transfer_seq
    BY <1>5 DEF ItemWritten
  <2>2. /\ state' \in [Managers -> States] /\ state'[m] = "IDLE"
        /\ call' \in [Managers -> AnyCall] /\ call'[m] = NoCall
        /\ \A k \in Managers : k # m => state'[k] = state[k] /\ call'[k] = call[k]
    BY <1>1, <2>1 DEF TypeOK, States, Set, AnyCall
  <2>3. TypeOK' /\ partner' \in [Managers -> Anybody]
    BY <1>1, <1>4, <2>1, <2>2 DEF TypeOK, MissionState, Acks, AnyCall
  <2>4. ManagerOK(m)'
    BY <1>2, <1>4, <2>1, <2>2 DEF ManagerOK, TransferOK, ItemCallOK, StateCallOK, Stored
  <2> QED
    BY <2>2, <2>3, <2>4 DEF Keeps
<1>6. CASE call[m].result # "failed"
  <2>1. /\ transfer_seq' = Set(transfer_seq, m, transfer_seq[m] + 1)
        /\ ack' = None /\ UNCHANGED transfer_in_progress
    BY <1>4, <1>6 DEF ItemWritten, NoAck
  <2>2. transfer_seq' \in [Managers -> 0..MaxCount] /\ transfer_seq'[m] = transfer_seq[m] + 1
    BY <1>1, <1>4, <2>1, CountAssumption DEF TypeOK, Set
  <2>3. CASE transfer_seq[m] + 1 = transfer_count[m]
    <3>1. /\ state' = Set(state, m, "IDLE")
          /\ UpdateActiveMission(m, transfer_dataman_id[m], transfer_count[m], "upload")
      BY <1>4, <1>6, <2>3 DEF ItemWritten
    <3>2. /\ state' \in [Managers -> States] /\ state'[m] = "IDLE"
          /\ \A k \in Managers : k # m => state'[k] = state[k]
      BY <1>1, <3>1 DEF TypeOK, States, Set
    <3>3. transfer_dataman_id[m] \in Places /\ transfer_count[m] \in 0..MaxCount
      BY <1>1 DEF TypeOK
    <3>4. /\ call' \in [Managers -> AnyCall]
          /\ call'[m].op = "state" /\ call'[m].result = "pending"
          /\ call'[m].cause = "upload"
          /\ call'[m].value.dataman_id = transfer_dataman_id[m]
          /\ call'[m].value.count = transfer_count[m]
          /\ call'[m] # NoCall
          /\ \A k \in Managers : k # m => call'[k] = call[k]
      BY <1>1, <3>1, <3>3, UpdateCalls DEF Causes
    <3>5. TypeOK' /\ partner' \in [Managers -> Anybody]
      BY <1>1, <1>4, <2>1, <2>2, <3>2, <3>4 DEF TypeOK, MissionState, AnyCall
    <3>6. ManagerOK(m)'
      BY <1>4, <2>1, <2>2, <2>3, <3>2, <3>4 DEF ManagerOK, TransferOK, ItemCallOK, StateCallOK, Stored, Idle
    <3> QED
      BY <3>2, <3>4, <3>5, <3>6 DEF Keeps
  <2>4. CASE transfer_seq[m] + 1 # transfer_count[m]
    <3>1. call' = Set(call, m, NoCall) /\ UNCHANGED state
      BY <1>4, <1>6, <2>4 DEF ItemWritten
    <3>2. /\ call' \in [Managers -> AnyCall] /\ call'[m] = NoCall
          /\ \A k \in Managers : k # m => call'[k] = call[k]
      BY <1>1, <3>1 DEF Set, AnyCall
    <3>3. TypeOK' /\ partner' \in [Managers -> Anybody]
      BY <1>1, <1>4, <2>1, <2>2, <3>1, <3>2 DEF TypeOK, MissionState, AnyCall
    <3>4. transfer_seq'[m] < transfer_count[m] /\ (state[m] = "GETLIST" => transfer_in_progress)
      BY <1>1, <1>3, <1>4, <2>2, <2>4 DEF TypeOK, ManagerOK, TransferOK
    <3>5. ManagerOK(m)'
      BY <1>2, <1>4, <2>1, <3>1, <3>2, <3>4 DEF ManagerOK, TransferOK, ItemCallOK, StateCallOK, Stored, Idle
    <3> QED
      BY <3>1, <3>2, <3>3, <3>5 DEF Keeps
  <2> QED
    BY <2>3, <2>4
<1> QED
  BY <1>5, <1>6

LEMMA StateWrittenStep ==
    ASSUME IInv, NEW m \in Managers, StateWritten(m)
    PROVE  Keeps(m)
<1> USE DEF active, transfer, storage
<1>1. TypeOK /\ partner \in [Managers -> Anybody] /\ call \in [Managers -> AnyCall]
        /\ call[m] \in AnyCall /\ call[m].op = "state" /\ call[m].result # "pending"
  BY DEF IInv, TypeOK, AnyCall, StateWritten
<1>2. call[m] \in StateCall /\ call[m] # NoCall /\ NoCall.op = "none"
  BY <1>1, CallKinds DEF NoCall
<1>3. ManagerOK(m)
  BY <1>2, BusyIsPartnered DEF Idle
<1>4. /\ UNCHANGED <<state, recv, transfer, storage, silent>> /\ state[m] = "IDLE"
      /\ call' = Set(call, m, NoCall)
      /\ transfer_in_progress' = (transfer_in_progress /\ call[m].cause \notin {"upload", "empty"})
      /\ ack' \in Acks \cup {None}
  BY <1>1, <1>3 DEF StateWritten, ManagerOK, StateCallOK, NoAck, Acks
<1>5. /\ call' \in [Managers -> AnyCall] /\ call'[m] = NoCall
      /\ \A k \in Managers : k # m => call'[k] = call[k]
  BY <1>1, <1>4 DEF Set, AnyCall
<1>6. call[m].value.dataman_id \in Places /\ call[m].value.count \in 0..MaxCount
        /\ call[m].result \in {"ok", "failed"}
  BY <1>1, <1>2 DEF StateCall, MissionState, Results
<1>7. /\ dataman_id' \in Places /\ count' \in 0..MaxCount
      /\ my_dataman_id' \in [Managers -> Places]
      /\ Stored'
  <2>1. CASE call[m].result = "ok"
    <3>1. /\ dataman_id' = call[m].value.dataman_id /\ count' = call[m].value.count
          /\ my_dataman_id' = Set(my_dataman_id, m, call[m].value.dataman_id)
      BY <2>1 DEF StateWritten
    <3>2. mission_state = call[m].value /\ mission_state' = mission_state /\ ~misread'
      BY <1>1, <1>3, <1>4, <2>1 DEF ManagerOK, StateCallOK, storage
    <3> QED
      BY <1>1, <1>6, <3>1, <3>2 DEF TypeOK, Set, Stored
  <2>2. CASE call[m].result # "ok"
    <3>1. UNCHANGED <<dataman_id, count, my_dataman_id, mission_state, misread>>
      BY <1>4, <2>2 DEF StateWritten, active, storage
    <3>2. Stored
      BY <1>3, <2>2 DEF ManagerOK
    <3> QED
      BY <1>1, <3>1, <3>2 DEF TypeOK, Stored
  <2> QED
    BY <2>1, <2>2
<1>8. ~transfer_in_progress'
  BY <1>1, <1>3, <1>4 DEF ManagerOK, StateCallOK
<1>9. TypeOK' /\ partner' \in [Managers -> Anybody]
  BY <1>1, <1>4, <1>5, <1>7, <1>8 DEF TypeOK, AnyCall
<1>10. ManagerOK(m)'
  BY <1>2, <1>4, <1>5, <1>7, <1>8 DEF ManagerOK, TransferOK, ItemCallOK, StateCallOK
<1> QED
  BY <1>4, <1>5, <1>9, <1>10 DEF Keeps

LEMMA SendStep ==
    ASSUME IInv, NEW m \in Managers, Send(m)
    PROVE  Keeps(m)
<1> USE DEF active, transfer, storage
<1>1. TypeOK /\ partner \in [Managers -> Anybody] /\ call \in [Managers -> AnyCall] /\ state[m] # "IDLE"
  BY DEF IInv, TypeOK, AnyCall, Send
<1>2. ManagerOK(m)
  BY <1>1, BusyIsPartnered DEF Idle
<1>3. /\ UNCHANGED <<active, recv, my_dataman_id, transfer, call, storage, silent>>
      /\ state' = Set(state, m, "IDLE") /\ transfer_in_progress' = FALSE /\ ack' = None
  BY DEF Send, NoAck
<1>4. /\ state' \in [Managers -> States] /\ state'[m] = "IDLE"
      /\ \A k \in Managers : k # m => state'[k] = state[k]
  BY <1>1, <1>3 DEF TypeOK, States, Set
<1>5. TypeOK' /\ partner' \in [Managers -> Anybody]
  BY <1>1, <1>3, <1>4 DEF TypeOK, AnyCall
<1>6. ManagerOK(m)'
  BY <1>1, <1>2, <1>3, <1>4 DEF ManagerOK, TransferOK, ItemCallOK, StateCallOK, Stored
<1> QED
  BY <1>3, <1>4, <1>5, <1>6 DEF Keeps

LEMMA HandleStep ==
    ASSUME IInv, NEW m \in Managers, NEW p \in Partners[m], HandleMessage(m, p)
    PROVE  Keeps(m)
  BY AckStep, SetCurrentStep, RequestListStep, RequestStep, CountStep, ItemStep,
     ClearAllStep DEF HandleMessage

-------------------------------------------------------------------------------
\* A step that leaves the transfers, the calls and the mission alone.
Aside ==
    UNCHANGED <<active, transfer_in_progress, state, transfer, call, storage>>

LEMMA AsideStep ==
    ASSUME IInv, Aside, TypeOK'
    PROVE  IInv'
<1> USE DEF active, transfer, storage
<1>1. OthersIdle'
  BY DEF IInv, OthersIdle, Idle, Aside
<1>2. \A m \in Managers : ManagerOK(m) => ManagerOK(m)'
  BY DEF Aside, ManagerOK, TransferOK, ItemCallOK, StateCallOK, Stored, Idle
<1> QED
  BY <1>1, <1>2 DEF IInv, Aside, Stored

LEMMA RestartStep ==
    ASSUME IInv, Restart
    PROVE  IInv'
<1> USE DEF active, transfer, storage
<1>1. partner' \in [Managers -> Anybody] /\ \A m \in Managers : partner'[m] = None
  BY NobodyIsAnybody DEF Restart
<1>2. /\ state' \in [Managers -> States]
      /\ recv' \in [Managers -> 0..(ActionTimeout + 1)]
      /\ transfer_dataman_id' \in [Managers -> Places]
      /\ transfer_count' \in [Managers -> 0..MaxCount]
      /\ transfer_seq' \in [Managers -> 0..MaxCount]
  BY CountAssumption, TimeoutAssumption DEF Restart, States, Places
<1>3. TypeOK' /\ partner' \in [Managers -> Anybody]
  BY <1>1, <1>2, RestartLoads DEF IInv, TypeOK, Restart, NoAck
<1>4. \A m \in Managers : state'[m] = "IDLE" /\ call'[m] = NoCall
  BY DEF Restart
<1>5. Stored' /\ transfer_in_progress' = FALSE
  BY RestartLoads DEF Restart, IInv
<1>6. \A m \in Managers : ManagerOK(m)'
  BY <1>4, <1>5 DEF ManagerOK, TransferOK, ItemCallOK, StateCallOK, NoCall
<1>7. OthersIdle'
  BY <1>4 DEF OthersIdle, Idle
<1> QED
  BY <1>3, <1>5, <1>6, <1>7 DEF IInv

\* The inductive invariant: where one link carries the protocol, the transfers
\* of every instance and the stored mission stay in step.
THEOREM Invariance ==
    ASSUME OneLink
    PROVE  Spec => []IInv
<1>1. Init => IInv
  <2> SUFFICES ASSUME Init PROVE IInv
    OBVIOUS
  <2>1. Stored /\ ~transfer_in_progress
    BY InitLoads DEF Init, Construct
  <2>2. \A m \in Managers : state[m] = "IDLE" /\ call[m] = NoCall
    BY DEF Init, Construct
  <2>3. \A m \in Managers : ManagerOK(m)
    <3> SUFFICES ASSUME NEW m \in Managers PROVE ManagerOK(m)
      OBVIOUS
    <3>1. state[m] = "IDLE" /\ call[m].op = "none"
      BY <2>2 DEF NoCall
    <3>2. TransferOK(m) /\ ItemCallOK(m) /\ StateCallOK(m)
      BY <3>1 DEF TransferOK, ItemCallOK, StateCallOK
    <3> QED
      BY <2>1, <3>2 DEF ManagerOK
  <2>4. partner \in [Managers -> Anybody] /\ \A m \in Managers : partner[m] = None
    BY NobodyIsAnybody DEF Init, Construct
  <2>5. /\ state \in [Managers -> States]
        /\ recv \in [Managers -> 0..(ActionTimeout + 1)]
        /\ transfer_dataman_id \in [Managers -> Places]
        /\ transfer_count \in [Managers -> 0..MaxCount]
        /\ transfer_seq \in [Managers -> 0..MaxCount]
    BY CountAssumption, TimeoutAssumption DEF Init, Construct, States, Places
  <2>7. TypeOK
    BY <2>4, <2>5, InitLoads DEF Init, Construct, TypeOK
  <2> QED
    BY <2>1, <2>2, <2>3, <2>4, <2>7 DEF IInv, OthersIdle, Idle
<1>2. IInv /\ [Next]_vars => IInv'
  <2> SUFFICES ASSUME IInv, [Next]_vars PROVE IInv'
    OBVIOUS
  <2> USE DEF active, transfer, storage
  <2>1. ASSUME NEW m \in Managers, NEW p \in Partners[m], HandleMessage(m, p) PROVE IInv'
    BY <2>1, HandleStep, StepOfOne
  <2>2. ASSUME NEW m \in Managers, PerformWrite(m) PROVE IInv'
    BY <2>2, WriteStep, StepOfOne, BusyIsPartnered DEF PerformWrite, Idle
  <2>3. ASSUME NEW m \in Managers, ItemWritten(m) PROVE IInv'
    <3>1. call[m] # NoCall
      BY <2>3 DEF ItemWritten, NoCall
    <3> QED
      BY <2>3, <3>1, ItemWrittenStep, StepOfOne, BusyIsPartnered DEF Idle
  <2>4. ASSUME NEW m \in Managers, StateWritten(m) PROVE IInv'
    <3>1. call[m] # NoCall
      BY <2>4 DEF StateWritten, NoCall
    <3> QED
      BY <2>4, <3>1, StateWrittenStep, StepOfOne, BusyIsPartnered DEF Idle
  <2>5. ASSUME NEW m \in Managers, Send(m) PROVE IInv'
    BY <2>5, SendStep, StepOfOne, BusyIsPartnered DEF Send, Idle
  <2>6. ASSUME NEW m \in Managers, CheckActiveMission(m) PROVE IInv'
    <3>1. Aside
      BY <2>6 DEF CheckActiveMission, Aside
    <3>2. my_dataman_id' \in [Managers -> Places]
      BY <2>6 DEF CheckActiveMission, IInv, TypeOK, Set
    <3>3. TypeOK'
      BY <2>6, <3>2 DEF CheckActiveMission, NoAck, IInv, TypeOK
    <3> QED
      BY <3>1, <3>3, AsideStep
  <2>7. CASE Tick
    <3>1. Aside
      BY <2>7 DEF Tick, Aside
    <3>2. recv' \in [Managers -> 0..(ActionTimeout + 1)]
      BY <2>7, TimeoutAssumption DEF Tick, IInv, TypeOK
    <3>3. TypeOK'
      BY <2>7, <3>2 DEF Tick, NoAck, IInv, TypeOK
    <3> QED
      BY <3>1, <3>3, AsideStep
  <2>8. CASE Silence
    <3>1. Aside
      BY <2>8 DEF Silence, Aside
    <3>2. TypeOK'
      BY <2>8 DEF Silence, NoAck, IInv, TypeOK
    <3> QED
      BY <3>1, <3>2, AsideStep
  <2>9. CASE UNCHANGED vars
    <3>1. Aside
      BY <2>9 DEF vars, Aside
    <3>2. TypeOK'
      BY <2>9 DEF vars, IInv, TypeOK
    <3> QED
      BY <3>1, <3>2, AsideStep
  <2> QED
    BY <2>1, <2>2, <2>3, <2>4, <2>5, <2>6, <2>7, <2>8, <2>9, RestartStep DEF Next
<1> QED
  BY <1>1, <1>2, PTL DEF Spec

-------------------------------------------------------------------------------
\* WritesInactivePlace: no upload touches the place of the active mission.
THEOREM InactivePlace ==
    ASSUME OneLink
    PROVE  Spec => []WritesInactivePlace
<1>1. IInv => WritesInactivePlace
  <2> SUFFICES ASSUME IInv, NEW m \in Managers, Uploading(m)
               PROVE  transfer_dataman_id[m] # dataman_id
    BY DEF WritesInactivePlace
  <2>1. ~Idle(m)
    BY DEF Uploading, Idle, NoCall
  <2>2. ManagerOK(m)
    BY <2>1, BusyIsPartnered
  <2> QED
    BY <2>2 DEF Uploading, ManagerOK, TransferOK, ItemCallOK
<1> QED
  BY <1>1, Invariance, PTL

\* StoredIsActive: what the static members name is what is stored, or nothing if
\* that could not be read.
THEOREM StoredActive ==
    ASSUME OneLink
    PROVE  Spec => []StoredIsActive
<1>1. IInv => StoredIsActive
  BY DEF IInv, ManagerOK, StoredIsActive, Stored
<1> QED
  BY <1>1, Invariance, PTL

\* TransferInProgress: the flag that keeps other uploads out is neither lost nor
\* left behind.
THEOREM FlagIsRight ==
    ASSUME OneLink
    PROVE  Spec => []TransferInProgress
<1>1. IInv => TransferInProgress
  <2> SUFFICES ASSUME IInv PROVE TransferInProgress
    OBVIOUS
  <2>1. ASSUME NEW m \in Managers, state[m] = "GETLIST" PROVE transfer_in_progress
    <3>1. ManagerOK(m)
      BY <2>1, BusyIsPartnered DEF Idle
    <3> QED
      BY <2>1, <3>1 DEF ManagerOK, TransferOK
  <2>2. ASSUME transfer_in_progress
        PROVE  \E m \in Managers :
                   \/ Uploading(m)
                   \/ call[m].op = "state" /\ call[m].cause \in {"upload", "empty"}
    <3>1. PICK m \in Managers : Partners[m] # {}
      BY <2>2 DEF IInv
    <3>2. ManagerOK(m) /\ state[m] \in States /\ call[m] \in AnyCall
      BY <3>1 DEF IInv, TypeOK, AnyCall
    <3>3. state[m] = "GETLIST" \/ (state[m] = "IDLE" /\ call[m] # NoCall)
      BY <2>2, <3>2 DEF ManagerOK, Idle, States
    <3>4. state[m] = "GETLIST" \/ call[m].op \in {"item", "state"}
      BY <3>2, <3>3, CallKinds
    <3>5. Uploading(m) \/ (call[m].op = "state" /\ call[m].cause \in {"upload", "empty"})
      BY <2>2, <3>2, <3>4 DEF ManagerOK, StateCallOK, Uploading
    <3> QED
      BY <3>5
  <2> QED
    BY <2>1, <2>2 DEF TransferInProgress
<1> QED
  BY <1>1, Invariance, PTL

\* OneMissionPerDownload: neither the active mission is replaced under a download
\* nor are its items written over, and its length is that which was announced.
THEOREM OneDownload ==
    ASSUME OneLink
    PROVE  Spec => OneMissionPerDownload
<1> DEFINE Announced ==
              \A m \in Managers : state[m] = "SENDLIST" => transfer_count[m] = count
           Served(m) == state'[m] = "SENDLIST" =>
              /\ transfer_count'[m] = count'
              /\ state[m] = "SENDLIST" => UNCHANGED <<active, waypoints[dataman_id]>>
<1>1. IInv => Announced
  <2> SUFFICES ASSUME IInv, NEW m \in Managers, state[m] = "SENDLIST"
               PROVE  transfer_count[m] = count
    OBVIOUS
  <2>1. ManagerOK(m)
    BY BusyIsPartnered DEF Idle
  <2> QED
    BY <2>1 DEF ManagerOK, TransferOK
<1>2. ASSUME IInv, [Next]_vars, NEW m \in Managers, state[m] = "SENDLIST", state'[m] = "SENDLIST"
      PROVE  UNCHANGED <<active, waypoints>>
  <2>1. Partners[m] # {} /\ call[m] = NoCall /\ \A n \in Managers : n # m => Idle(n)
    BY <1>2, BusyIsPartnered DEF Idle, ManagerOK, TransferOK, OneLink
  <2>2. ASSUME NEW n \in Managers PROVE call[n] = NoCall /\ call[n].op = "none"
    <3>1. n = m \/ Idle(n)
      BY <2>1
    <3>2. call[n] = NoCall
      BY <2>1, <3>1 DEF Idle
    <3> QED
      BY <3>2 DEF NoCall
  <2>3. ASSUME NEW n \in Managers, NEW p \in Partners[n], HandleMessage(n, p)
        PROVE  UNCHANGED <<active, storage>>
    BY <2>3 DEF HandleMessage, HandleMissionAck, HandleMissionSetCurrent,
       HandleMissionRequestList, HandleMissionRequest, HandleMissionCount,
       HandleMissionItem, HandleMissionClearAll
  <2>4. ~Restart
    BY <1>2 DEF Restart
  <2>5. \A n \in Managers : ~PerformWrite(n) /\ ~ItemWritten(n) /\ ~StateWritten(n)
    BY <2>2 DEF PerformWrite, ItemWritten, StateWritten
  <2> QED
    BY <1>2, <2>3, <2>4, <2>5
       DEF Next, Send, CheckActiveMission, Tick, Silence, vars, storage, active
<1>3. IInv /\ Announced' /\ [Next]_vars => \A m \in Managers : Served(m)
  <2> SUFFICES ASSUME IInv, Announced', [Next]_vars, NEW m \in Managers, state'[m] = "SENDLIST"
               PROVE  Served(m)
    OBVIOUS
  <2>1. transfer_count'[m] = count'
    OBVIOUS
  <2>2. state[m] = "SENDLIST" => UNCHANGED <<active, waypoints>>
    BY <1>2
  <2>3. state[m] = "SENDLIST" => UNCHANGED <<active, waypoints[dataman_id]>>
    BY <2>2 DEF active
  <2> QED
    BY <2>1, <2>3
<1>4. IInv /\ Announced' /\ [Next]_vars => [\A m \in Managers : Served(m)]_vars
  BY <1>3
<1> HIDE DEF Announced
<1> QED
  BY <1>1, <1>4, Invariance, PTL DEF Spec, OneMissionPerDownload

\* AcceptedIsStored: no upload and no clearing is accepted before it is stored.
THEOREM Accepted ==
    ASSUME OneLink
    PROVE  Spec => AcceptedIsStored
<1>1. IInv /\ [Next]_vars =>
          [ack' = "ACCEPTED" =>
              \A m \in Managers :
                  call[m].op = "state" /\ call[m].cause # "empty" /\ call'[m] = NoCall =>
                      mission_state = call[m].value]_vars
  <2> SUFFICES ASSUME IInv, Next, ack' = "ACCEPTED", NEW m \in Managers,
                      call[m].op = "state", call[m].cause # "empty", call'[m] = NoCall
               PROVE  mission_state = call[m].value
    BY DEF vars
  <2>1. call[m] # NoCall /\ ~Idle(m)
    BY DEF NoCall, Idle
  <2>2. ManagerOK(m) /\ Partners[m] # {} /\ \A n \in Managers : n # m => Idle(n)
    BY <2>1, BusyIsPartnered DEF OneLink
  <2>3. ASSUME NEW n \in Managers, StateWritten(n) PROVE mission_state = call[m].value
    <3>1. call[n].op = "state"
      BY <2>3 DEF StateWritten
    <3>2. n = m
      BY <2>2, <3>1 DEF Idle, NoCall
    <3>3. call[m].result = "ok"
      BY <2>3, <3>2, NoAckAssumption DEF StateWritten, NoAck, Acks
    <3> QED
      BY <2>2, <3>3 DEF ManagerOK, StateCallOK
  <2>4. \E n \in Managers : StateWritten(n)
    <3> ack' # None
      BY NoAckAssumption DEF Acks
    <3>1. ASSUME NEW n \in Managers, NEW p \in Partners[n], HandleMessage(n, p) PROVE FALSE
      <4>1. ack' # "ACCEPTED"
        BY <3>1 DEF HandleMessage, HandleMissionAck, HandleMissionSetCurrent,
           HandleMissionRequestList, HandleMissionRequest, HandleMissionCount,
           HandleMissionItem, HandleMissionClearAll, NoAck, SendItem, CountRefused,
           CountEmpty, CountBegins, CountAgain
      <4> QED
        BY <4>1
    <3>2. ASSUME NEW n \in Managers, PerformWrite(n) PROVE FALSE
      BY <3>2 DEF PerformWrite, NoAck
    <3> QED
      BY <3>1, <3>2 DEF Next, ItemWritten, Send, CheckActiveMission, Tick, Silence, Restart, NoAck
  <2> QED
    BY <2>3, <2>4
<1> QED
  BY <1>1, Invariance, PTL DEF Spec, AcceptedIsStored

-------------------------------------------------------------------------------
(***************************************************************************)
(* The upload implements MissionUpload.                                    *)
(***************************************************************************)
\* The first n records of a storage place, as a sequence.
FirstOf(g, n) == [i \in 1..n |-> g[i - 1]]

LEMMA AppendAt ==
    ASSUME NEW T, NEW s \in Seq(T), NEW w \in T, NEW i \in 1..(Len(s) + 1)
    PROVE  Append(s, w)[i] = IF i = Len(s) + 1 THEN w ELSE s[i]
  OBVIOUS

LEMMA FirstOfIsSequence ==
    ASSUME NEW T, NEW g \in [Slots -> T], NEW n \in 0..MaxCount
    PROVE  /\ FirstOf(g, n) \in Seq(T) /\ Len(FirstOf(g, n)) = n
           /\ n = 0 => FirstOf(g, n) = << >>
           /\ n < MaxCount => FirstOf(g, n + 1) = Append(FirstOf(g, n), g[n])
<1>1. \A i \in 1..n : g[i - 1] \in T
  BY CountAssumption DEF Slots
<1>2. FirstOf(g, n) \in [1..n -> T]
  BY <1>1 DEF FirstOf
<1>3. n \in Nat
  BY CountAssumption
<1>4. FirstOf(g, n) \in Seq(T) /\ Len(FirstOf(g, n)) = n
  BY <1>2, <1>3
<1>5. n = 0 => FirstOf(g, n) = << >>
  BY <1>4
<1>6. ASSUME n < MaxCount PROVE FirstOf(g, n + 1) = Append(FirstOf(g, n), g[n])
  <2> DEFINE s == FirstOf(g, n)
             t == FirstOf(g, n + 1)
  <2>1. g[n] \in T
    BY <1>3, <1>6, CountAssumption DEF Slots
  <2>2. Append(s, g[n]) \in Seq(T) /\ Len(Append(s, g[n])) = n + 1
    BY <1>4, <2>1
  <2>3. DOMAIN t = 1..(n + 1) /\ DOMAIN Append(s, g[n]) = 1..(n + 1)
    BY <2>2, <1>3 DEF FirstOf
  <2>4. ASSUME NEW i \in 1..(n + 1) PROVE t[i] = Append(s, g[n])[i]
    <3>1. t[i] = g[i - 1]
      BY DEF FirstOf
    <3>2. i \in 1..n => s[i] = g[i - 1]
      BY DEF FirstOf
    <3>3. s \in Seq(T) /\ Len(s) = n
      BY <1>4
    <3> HIDE DEF s
    <3>4. IF i = n + 1 THEN Append(s, g[n])[i] = g[n] ELSE Append(s, g[n])[i] = s[i]
      BY <2>1, <3>3, AppendAt
    <3>5. i = n + 1 => i - 1 = n
      BY <1>3
    <3> HIDE DEF t
    <3>6. CASE i = n + 1
      BY <3>1, <3>4, <3>5, <3>6
    <3>7. CASE i # n + 1
      <4>1. i \in 1..n
        BY <1>3, <3>7
      <4> QED
        BY <3>1, <3>2, <3>4, <3>7, <4>1
    <3> QED
      BY <3>6, <3>7
  <2>5. t \in [1..(n + 1) -> T] /\ Append(s, g[n]) \in [1..(n + 1) -> T]
    <3>1. \A i \in 1..(n + 1) : g[i - 1] \in T
      BY <1>3, <1>6, CountAssumption DEF Slots
    <3>2. t \in [1..(n + 1) -> T]
      BY <3>1 DEF FirstOf
    <3>3. \A a \in Seq(T) : a \in [1..Len(a) -> T]
      OBVIOUS
    <3> HIDE DEF s
    <3> QED
      BY <2>2, <3>2, <3>3
  <2> HIDE DEF s, t
  <2> QED
    BY <2>4, <2>5 DEF s, t
<1> QED
  BY <1>4, <1>5, <1>6

\* What the abstract specification sees of manager m.
DraftOf(m) ==
    IF Drafting(m)
      THEN [size |-> transfer_count[m],
            items |-> FirstOf(waypoints[transfer_dataman_id[m]], transfer_seq[m])]
      ELSE None

LEMMA DraftIs ==
    /\ Draft = [m \in Managers |-> DraftOf(m)]
    /\ Draft' = [m \in Managers |-> DraftOf(m)']
  BY DEF Draft, DraftOf, FirstOf

LEMMA MissionIs ==
    /\ Mission = FirstOf(waypoints[mission_state.dataman_id], mission_state.count)
    /\ Mission' = FirstOf(waypoints'[mission_state'.dataman_id], mission_state'.count)
  BY DEF Mission, FirstOf

\* What the abstract specification sees of a step of m: nothing, or one of its
\* actions.
SameMission == Mission' = Mission /\ misread' = misread
Hidden(m) == DraftOf(m)' = DraftOf(m) /\ SameMission
Begins(m) ==
    /\ DraftOf(m) = None /\ SameMission
    /\ \E n \in 1..MaxCount : DraftOf(m)' = [size |-> n, items |-> << >>]
Receives(m) ==
    /\ DraftOf(m) # None /\ SameMission
    /\ Len(DraftOf(m).items) < DraftOf(m).size
    /\ \E w \in Items :
          DraftOf(m)' = [size |-> DraftOf(m).size, items |-> Append(DraftOf(m).items, w)]
Overwrites(m) ==
    /\ DraftOf(m) # None /\ DraftOf(m)' = DraftOf(m)
    /\ misread /\ misread'
    /\ \E i \in DOMAIN Mission, w \in Items :
          i = Len(DraftOf(m).items) + 1 /\ Mission' = [Mission EXCEPT ![i] = w]
Abandons(m) == DraftOf(m)' = None /\ SameMission
Completes(m) ==
    /\ DraftOf(m) # None /\ DraftOf(m)' = None
    /\ Len(DraftOf(m).items) = DraftOf(m).size
    /\ Mission' = DraftOf(m).items /\ misread' = FALSE
Empties(m) == DraftOf(m)' = DraftOf(m) /\ Mission' = << >> /\ misread' = FALSE

Seen(m) ==
    \/ Hidden(m) \/ Begins(m) \/ Receives(m) \/ Overwrites(m) \/ Abandons(m)
    \/ Completes(m) \/ Empties(m)

LEMMA SeenIsStep ==
    ASSUME OneLink, IInv, NEW m \in Managers, Partners[m] # {}, Keeps(m), Seen(m)
    PROVE  [Upload!Next]_(Upload!vars)
<1>1. \A n \in Managers : n # m => Idle(n) /\ state'[n] = state[n] /\ call'[n] = call[n]
  BY DEF OneLink, IInv, OthersIdle, Keeps
<1>2. \A n \in Managers : n # m => DraftOf(n) = None /\ DraftOf(n)' = None
  BY <1>1 DEF DraftOf, Drafting, Uploading, Idle, NoCall
<1>3. Draft[m] = DraftOf(m) /\ Draft'[m] = DraftOf(m)'
  BY DraftIs
<1>4. ASSUME NEW d, DraftOf(m)' = d PROVE Draft' = [Draft EXCEPT ![m] = d]
  BY <1>2, <1>4, DraftIs
<1>5. DraftOf(m)' = DraftOf(m) => Draft' = Draft
  BY <1>2, DraftIs
<1>6. CASE Hidden(m)
  BY <1>5, <1>6 DEF Hidden, SameMission, Upload!vars
<1>7. CASE Begins(m)
  <2>1. Upload!Begin(m)
    BY <1>3, <1>4, <1>7 DEF Begins, SameMission, Upload!Begin
  <2> QED
    BY <2>1 DEF Upload!Next
<1>8. CASE Receives(m)
  <2>1. Upload!Receive(m)
    BY <1>3, <1>4, <1>8 DEF Receives, SameMission, Upload!Receive
  <2> QED
    BY <2>1 DEF Upload!Next
<1>9. CASE Abandons(m)
  <2>1. Upload!Abandon(m)
    BY <1>4, <1>9 DEF Abandons, SameMission, Upload!Abandon
  <2> QED
    BY <2>1 DEF Upload!Next
<1>10. CASE Completes(m)
  <2>1. Upload!Complete(m)
    BY <1>3, <1>4, <1>10 DEF Completes, Upload!Complete
  <2> QED
    BY <2>1 DEF Upload!Next
<1>11. CASE Empties(m)
  BY <1>5, <1>11 DEF Empties, Upload!Empty, Upload!Next
<1>12. CASE Overwrites(m)
  <2>1. Upload!Overwrite(m)
    BY <1>3, <1>5, <1>12 DEF Overwrites, Upload!Overwrite
  <2> QED
    BY <2>1 DEF Upload!Next
<1> QED
  BY <1>6, <1>7, <1>8, <1>9, <1>10, <1>11, <1>12 DEF Seen

\* Two ways in which nothing is seen.
LEMMA NoDraft ==
    ASSUME NEW m \in Managers, ~Drafting(m), ~Drafting(m)', UNCHANGED storage
    PROVE  Hidden(m)
  BY MissionIs DEF Hidden, SameMission, DraftOf, storage

LEMMA SameDraft ==
    ASSUME NEW m \in Managers, Drafting(m)' <=> Drafting(m), UNCHANGED storage,
           transfer_count'[m] = transfer_count[m], transfer_seq'[m] = transfer_seq[m],
           transfer_dataman_id'[m] = transfer_dataman_id[m]
    PROVE  Hidden(m)
  BY MissionIs DEF Hidden, SameMission, DraftOf, storage

LEMMA LostDraft ==
    ASSUME NEW m \in Managers, ~Drafting(m)', UNCHANGED storage
    PROVE  Abandons(m)
  BY MissionIs DEF Abandons, SameMission, DraftOf, storage

LEMMA DraftFacts ==
    ASSUME IInv, NEW m \in Managers, Drafting(m)
    PROVE  /\ DraftOf(m) # None
           /\ DraftOf(m).size = transfer_count[m]
           /\ DraftOf(m).items = FirstOf(waypoints[transfer_dataman_id[m]], transfer_seq[m])
           /\ Len(DraftOf(m).items) = transfer_seq[m]
<1> DEFINE g == waypoints[transfer_dataman_id[m]]
<1>1. /\ g \in [Slots -> Items \cup {None}]
      /\ transfer_seq[m] \in 0..MaxCount /\ transfer_count[m] \in 0..MaxCount
  BY DEF IInv, TypeOK
<1>2. DraftOf(m) = [size |-> transfer_count[m], items |-> FirstOf(g, transfer_seq[m])]
  BY DEF DraftOf
<1> HIDE DEF g
<1>3. FirstOf(g, transfer_seq[m]) \in Seq(Items \cup {None})
        /\ Len(FirstOf(g, transfer_seq[m])) = transfer_seq[m]
  BY <1>1, FirstOfIsSequence
<1>4. DraftOf(m) \in [size : 0..MaxCount, items : Seq(Items \cup {None})]
  BY <1>1, <1>2, <1>3
<1> QED
  BY <1>2, <1>3, <1>4, NoDraftAssumption DEF g

\* A manager that waits for no write drafts what it is receiving.
LEMMA DraftsReceived ==
    ASSUME NEW m \in Managers
    PROVE  /\ call[m] = NoCall => (Drafting(m) <=> state[m] = "GETLIST")
           /\ call'[m] = NoCall => (Drafting(m)' <=> state'[m] = "GETLIST")
  BY DEF Drafting, Uploading, NoCall

LEMMA HandleSeen ==
    ASSUME IInv, NEW m \in Managers, NEW p \in Partners[m], HandleMessage(m, p)
    PROVE  Seen(m)
<1>1. TypeOK /\ call[m] = NoCall /\ ManagerOK(m) /\ state[m] \in States /\ m \in DOMAIN state
        /\ call \in [Managers -> AnyCall]
  BY DEF IInv, TypeOK, AnyCall, HandleMessage, Receiving, HandleMissionAck, HandleMissionSetCurrent,
     HandleMissionRequestList, HandleMissionRequest, HandleMissionCount,
     HandleMissionItem, HandleMissionClearAll
<1>2. ASSUME state[m] # "GETLIST", state'[m] # "GETLIST", call' = call, UNCHANGED storage
      PROVE  Seen(m)
  BY <1>1, <1>2, NoDraft, DraftsReceived DEF Seen
<1>3. ASSUME NEW i \in Places, NEW n \in 0..MaxCount, NEW cause \in {"empty", "clear", "current"},
             UpdateActiveMission(m, i, n, cause), state[m] # "GETLIST", state'[m] = state[m],
             UNCHANGED storage
      PROVE  Seen(m)
  <2>1. call'[m].op = "state" /\ call'[m].cause = cause
    BY <1>1, <1>3, UpdateCalls DEF Causes
  <2>2. ~Drafting(m) /\ ~Drafting(m)'
    BY <1>1, <1>3, <2>1, DraftsReceived DEF Drafting, Uploading
  <2> QED
    BY <1>3, <2>2, NoDraft DEF Seen
<1>4. CASE HandleMissionAck(m, p)
  BY <1>1, <1>2, <1>4 DEF HandleMissionAck, Set
<1>5. ASSUME NEW seq \in 0..MaxCount, HandleMissionSetCurrent(m, p, seq) PROVE Seen(m)
  <2>1. state[m] = "IDLE" /\ state' = state /\ UNCHANGED storage
    BY <1>5 DEF HandleMissionSetCurrent
  <2>2. dataman_id \in Places /\ count \in 0..MaxCount
    BY <1>1 DEF TypeOK
  <2> QED
    BY <1>2, <1>3, <1>5, <2>1, <2>2 DEF HandleMissionSetCurrent
<1>6. CASE HandleMissionRequestList(m, p)
  BY <1>1, <1>2, <1>6 DEF HandleMissionRequestList, Set
<1>7. ASSUME NEW seq \in 0..MaxCount, HandleMissionRequest(m, p, seq) PROVE Seen(m)
  BY <1>1, <1>2, <1>7 DEF HandleMissionRequest, Set
<1>8. CASE HandleMissionClearAll(m, p)
  <2>1. state[m] = "IDLE" /\ state' = state /\ UNCHANGED storage
          /\ UpdateActiveMission(m, Inactive, 0, "clear")
    BY <1>8 DEF HandleMissionClearAll
  <2> QED
    BY <1>1, <1>3, <2>1, ActiveIsTyped
<1>9. ASSUME NEW n \in 0..(MaxCount + 1), HandleMissionCount(m, p, n) PROVE Seen(m)
  <2>1. UNCHANGED storage /\ state[m] # "SENDLIST"
    BY <1>9 DEF HandleMissionCount
  <2>2. \/ UNCHANGED <<state, transfer, call>>
        \/ state[m] = "IDLE" /\ CountEmpty(m)
        \/ n \in 1..MaxCount /\ CountBegins(m, p, n) /\ state[m] # "GETLIST"
    BY <1>1, <1>9, CountAssumption DEF HandleMissionCount, CountRefused, CountAgain, States
  <2>3. CASE UNCHANGED <<state, transfer, call>>
    <3>1. Drafting(m)' <=> Drafting(m)
      BY <2>3 DEF Drafting, Uploading
    <3> QED
      BY <2>1, <2>3, <3>1, SameDraft DEF Seen, transfer
  <2>4. CASE state[m] = "IDLE" /\ CountEmpty(m)
    <3>1. UpdateActiveMission(m, Inactive, 0, "empty") /\ state' = state
      BY <2>4 DEF CountEmpty
    <3> QED
      BY <1>1, <1>3, <2>1, <2>4, <3>1, ActiveIsTyped
  <2>5. CASE n \in 1..MaxCount /\ CountBegins(m, p, n) /\ state[m] # "GETLIST"
    <3>1. call' = call /\ state'[m] = "GETLIST" /\ transfer_seq'[m] = 0 /\ transfer_count'[m] = n
      BY <1>1, <2>5 DEF CountBegins, Set, TypeOK
    <3>2. ~Drafting(m) /\ Drafting(m)'
      BY <1>1, <2>5, <3>1, DraftsReceived
    <3>3. DraftOf(m)' = [size |-> n, items |-> FirstOf(waypoints'[transfer_dataman_id'[m]], 0)]
      BY <3>1, <3>2 DEF DraftOf
    <3>4. FirstOf(waypoints'[transfer_dataman_id'[m]], 0) = << >>
      BY DEF FirstOf
    <3>5. DraftOf(m) = None /\ SameMission
      BY <2>1, <3>2, MissionIs DEF DraftOf, SameMission, storage
    <3> QED
      BY <2>5, <3>3, <3>4, <3>5 DEF Seen, Begins
  <2> QED
    BY <2>2, <2>3, <2>4, <2>5
<1>10. ASSUME NEW seq \in 0..MaxCount, NEW item \in Items \cup {Invalid},
              HandleMissionItem(m, p, seq, item)
       PROVE  Seen(m)
  <2>1. state[m] = "GETLIST" /\ UNCHANGED storage /\ UNCHANGED transfer
    BY <1>10 DEF HandleMissionItem
  <2>2. CASE seq # transfer_seq[m]
    <3>1. UNCHANGED <<state, call>>
      BY <1>10, <2>2 DEF HandleMissionItem
    <3>2. Drafting(m)' <=> Drafting(m)
      BY <3>1 DEF Drafting, Uploading
    <3> QED
      BY <2>1, <3>2, SameDraft DEF Seen, transfer
  <2>3. CASE seq = transfer_seq[m] /\ item = Invalid
    <3>1. state'[m] = "IDLE" /\ call' = call
      BY <1>1, <1>10, <2>3 DEF HandleMissionItem, Set
    <3> QED
      BY <1>1, <2>1, <3>1, DraftsReceived, LostDraft DEF Seen
  <2>4. CASE seq = transfer_seq[m] /\ item # Invalid
    <3>1. UNCHANGED state
      BY <1>10, <2>4 DEF HandleMissionItem
    <3>2. Drafting(m) /\ Drafting(m)'
      BY <2>1, <3>1 DEF Drafting, Uploading
    <3> QED
      BY <2>1, <3>2, SameDraft DEF Seen, transfer
  <2> QED
    BY <2>2, <2>3, <2>4
<1> QED
  BY <1>4, <1>5, <1>6, <1>7, <1>8, <1>9, <1>10 DEF HandleMessage

\* A record that is written behind the first n is not seen in them.
LEMMA FirstOfKept ==
    ASSUME NEW T, NEW g \in [Slots -> T], NEW n \in 0..MaxCount, NEW seq \in Slots,
           NEW w, n <= seq
    PROVE  FirstOf(Set(g, seq, w), n) = FirstOf(g, n)
<1>1. \A i \in 1..n : i - 1 # seq /\ i - 1 \in Slots
  BY CountAssumption DEF Slots
<1>2. \A i \in 1..n : Set(g, seq, w)[i - 1] = g[i - 1]
  BY <1>1 DEF Set
<1> QED
  BY <1>2 DEF FirstOf

\* A record that is written within them is.
LEMMA FirstOfChanged ==
    ASSUME NEW T, NEW g \in [Slots -> T], NEW n \in 0..MaxCount, NEW seq \in Slots,
           NEW w, seq < n
    PROVE  FirstOf(Set(g, seq, w), n) = Set(FirstOf(g, n), seq + 1, w)
<1>1. \A i \in 1..n : i - 1 \in Slots /\ (i - 1 = seq <=> i = seq + 1)
  BY CountAssumption DEF Slots
<1>2. \A i \in 1..n : Set(g, seq, w)[i - 1] = IF i = seq + 1 THEN w ELSE g[i - 1]
  BY <1>1 DEF Set
<1> QED
  BY <1>2 DEF FirstOf, Set

LEMMA WriteSeen ==
    ASSUME IInv, NEW m \in Managers, PerformWrite(m)
    PROVE  Seen(m)
<1>1. /\ TypeOK /\ call \in [Managers -> AnyCall] /\ call[m] \in AnyCall
      /\ call[m] # NoCall /\ call[m].result = "pending"
      /\ UNCHANGED <<active, state, transfer>>
  BY DEF IInv, TypeOK, AnyCall, PerformWrite
<1>2. ManagerOK(m) /\ Stored
  BY <1>1, BusyIsPartnered DEF Idle, ManagerOK
<1>3. PICK r \in {"ok", "failed"} :
        /\ call' = Set(call, m, [call[m] EXCEPT !.result = r])
        /\ r = "failed" => UNCHANGED storage
        /\ r = "ok" /\ call[m].op = "item" =>
             /\ waypoints' = Set(waypoints, call[m].id,
                                 Set(waypoints[call[m].id], call[m].seq, call[m].item))
             /\ UNCHANGED <<mission_state, misread>>
        /\ r = "ok" /\ call[m].op # "item" =>
             mission_state' = call[m].value /\ misread' = FALSE /\ UNCHANGED waypoints
  BY DEF PerformWrite
<1> DEFINE d == [call[m] EXCEPT !.result = r]
<1>4. call' = Set(call, m, d) /\ r \in Results
  BY <1>3 DEF Results
<1>5. call'[m] = d
  BY <1>1, <1>4 DEF Set
<1>6. CASE call[m].op = "item"
  <2>1. call[m] \in ItemCall
    BY <1>1, <1>6, CallKinds
  <2>2. d.op = "item"
    BY <1>4, <2>1, ItemResult, Zenon
  <2> HIDE DEF d
  <2>3. Drafting(m) /\ Drafting(m)'
    BY <1>5, <1>6, <2>2 DEF Drafting, Uploading
  <2>4. CASE r = "failed"
    BY <1>1, <1>3, <2>3, <2>4, SameDraft DEF Seen, transfer
  <2>5. CASE r = "ok"
    <3> DEFINE i == transfer_dataman_id[m]
               n == transfer_seq[m]
    <3>1. /\ waypoints' = Set(waypoints, i, Set(waypoints[i], n, call[m].item))
          /\ UNCHANGED <<mission_state, misread>>
          /\ i \in Places /\ n \in Slots /\ n \in 0..MaxCount
          /\ ~misread => i # mission_state.dataman_id
          /\ call[m].item \in Items
          /\ waypoints \in [Places -> [Slots -> Items \cup {None}]]
          /\ mission_state.dataman_id \in Places /\ mission_state.count \in 0..MaxCount
      BY <1>1, <1>2, <1>3, <1>6, <2>1, <2>5
         DEF ManagerOK, ItemCallOK, ItemCall, Stored, TypeOK, MissionState
    <3>2. /\ waypoints'[i] = Set(waypoints[i], n, call[m].item)
          /\ \A j \in Places : j # i => waypoints'[j] = waypoints[j]
      BY <3>1 DEF Set
    <3>3. waypoints[i] \in [Slots -> Items \cup {None}] /\ n <= n
      BY <3>1, CountAssumption DEF Slots
    <3>4. FirstOf(Set(waypoints[i], n, call[m].item), n) = FirstOf(waypoints[i], n)
      BY <3>1, <3>3, FirstOfKept, Zenon
    <3>5. FirstOf(waypoints'[i], n) = FirstOf(waypoints[i], n)
      BY <3>2, <3>4
    <3>6. DraftOf(m)' = DraftOf(m)
      BY <1>1, <2>3, <3>5 DEF DraftOf, transfer
    <3>7. CASE i # mission_state.dataman_id
      <4>1. SameMission
        BY <3>1, <3>2, <3>7, MissionIs DEF SameMission
      <4> QED
        BY <3>6, <4>1 DEF Seen, Hidden
    <3>8. CASE i = mission_state.dataman_id
      <4> DEFINE g == waypoints[i]
                 w == call[m].item
                 k == mission_state.count
      <4>1. misread /\ misread'
        BY <3>1, <3>8
      <4>2. Mission = FirstOf(g, k) /\ Mission' = FirstOf(Set(g, n, w), k)
        BY <3>1, <3>2, <3>8, MissionIs
      <4>3. /\ g \in [Slots -> Items \cup {None}] /\ k \in 0..MaxCount /\ n \in Slots
            /\ w \in Items
        BY <3>1
      <4> HIDE DEF g, w, k, n
      <4>4. CASE n < k
        <5>1. n + 1 \in 1..k
          BY <4>3, <4>4, CountAssumption DEF Slots
        <5>2. FirstOf(Set(g, n, w), k) = [FirstOf(g, k) EXCEPT ![n + 1] = w]
          <6>1. FirstOf(Set(g, n, w), k) = Set(FirstOf(g, k), n + 1, w)
            BY <4>3, <4>4, FirstOfChanged, Zenon
          <6> QED
            BY <6>1 DEF Set
        <5>3. n + 1 \in DOMAIN Mission
          BY <4>2, <5>1 DEF FirstOf
        <5>4. DraftOf(m) # None /\ Len(DraftOf(m).items) = n
          BY <2>3, DraftFacts DEF n
        <5> QED
          BY <3>6, <4>1, <4>2, <4>3, <5>2, <5>3, <5>4 DEF Seen, Overwrites
      <4>5. CASE ~(n < k)
        <5>1. k <= n
          BY <4>3, <4>5, CountAssumption DEF Slots
        <5>2. Mission' = Mission
          BY <4>2, <4>3, <5>1, FirstOfKept
        <5> QED
          BY <3>1, <3>6, <5>2 DEF Seen, Hidden, SameMission
      <4> QED
        BY <4>4, <4>5
    <3> QED
      BY <3>7, <3>8
  <2> QED
    BY <2>4, <2>5
<1>7. CASE call[m].op = "state"
  <2>1. call[m] \in StateCall
    BY <1>1, <1>7, CallKinds
  <2>2. d.op = "state" /\ d.result = r
    BY <1>4, <2>1, StateResult, Zenon
  <2> HIDE DEF d
  <2>3. state'[m] = "IDLE" /\ StateCallOK(m)
    BY <1>1, <1>2, <1>7 DEF ManagerOK, StateCallOK
  <2>4. ~Drafting(m)'
    BY <1>5, <2>2, <2>3 DEF Drafting, Uploading
  <2>5. CASE r = "failed"
    BY <1>3, <2>4, <2>5, LostDraft DEF Seen
  <2>6. CASE r = "ok"
    <3>1. mission_state' = call[m].value /\ waypoints' = waypoints /\ misread' = FALSE
      BY <1>3, <1>7, <2>6
    <3>2. Mission' = FirstOf(waypoints[call[m].value.dataman_id], call[m].value.count)
      BY <3>1, MissionIs
    <3>3. CASE call[m].cause = "upload"
      <4>1. Drafting(m)
        BY <1>1, <1>7, <3>3 DEF Drafting
      <4>2. Mission' = FirstOf(waypoints[transfer_dataman_id[m]], transfer_seq[m])
              /\ transfer_seq[m] = transfer_count[m]
        BY <1>7, <2>3, <3>2, <3>3 DEF StateCallOK
      <4>3. DraftOf(m)' = None
        BY <2>4 DEF DraftOf
      <4> QED
        BY <3>1, <4>1, <4>2, <4>3, DraftFacts DEF Seen, Completes
    <3>4. CASE call[m].cause # "upload"
      <4>1. ~Drafting(m)
        BY <1>1, <1>7, <2>3, <3>4 DEF Drafting, Uploading
      <4>2. DraftOf(m)' = DraftOf(m)
        BY <2>4, <4>1 DEF DraftOf
      <4>3. CASE call[m].cause = "current"
        <5>1. /\ call[m].value.dataman_id = mission_state.dataman_id
              /\ call[m].value.count = mission_state.count
              /\ misread = FALSE
          BY <1>1, <1>2, <1>7, <2>3, <4>3 DEF StateCallOK, Stored, TypeOK
        <5>2. Mission' = Mission
          BY <3>2, <5>1, MissionIs
        <5> QED
          BY <3>1, <4>2, <5>1, <5>2 DEF Seen, Hidden, SameMission
      <4>4. CASE call[m].cause \in {"empty", "clear"}
        <5>1. call[m].value.count = 0
          BY <1>7, <2>3, <4>4 DEF StateCallOK
        <5>2. Mission' = << >>
          BY <3>2, <5>1 DEF FirstOf
        <5> QED
          BY <3>1, <4>2, <5>2 DEF Seen, Empties
      <4> QED
        BY <2>1, <3>4, <4>3, <4>4 DEF StateCall, Causes
    <3> QED
      BY <3>3, <3>4
  <2> QED
    BY <2>5, <2>6
<1> QED
  BY <1>1, <1>6, <1>7, CallKinds

LEMMA ItemWrittenSeen ==
    ASSUME IInv, NEW m \in Managers, ItemWritten(m)
    PROVE  Seen(m)
<1>1. /\ TypeOK /\ call \in [Managers -> AnyCall] /\ call[m] \in AnyCall
      /\ call[m].op = "item" /\ call[m].result # "pending"
      /\ UNCHANGED <<transfer_dataman_id, transfer_count, storage>>
  BY DEF IInv, TypeOK, AnyCall, ItemWritten
<1>2. call[m] \in ItemCall /\ call[m] # NoCall
  BY <1>1, CallKinds
<1>3. ManagerOK(m)
  BY <1>2, BusyIsPartnered DEF Idle
<1>4. Drafting(m) /\ call[m].item \in Items /\ call[m].result \in {"ok", "failed"}
  BY <1>1, <1>2 DEF Drafting, Uploading, ItemCall, Results
<1>5. CASE call[m].result = "failed"
  <2>1. state'[m] = "IDLE" /\ call'[m] = NoCall
    BY <1>1, <1>5 DEF ItemWritten, Set, TypeOK
  <2> QED
    BY <1>1, <2>1, DraftsReceived, LostDraft DEF Seen
<1>6. CASE call[m].result = "ok"
  <2> DEFINE i == transfer_dataman_id[m]
             n == transfer_seq[m]
  <2>1. /\ call[m].seq = n /\ n < transfer_count[m] /\ waypoints[i][n] = call[m].item
        /\ i \in Places /\ n \in 0..MaxCount /\ transfer_count[m] \in 0..MaxCount
        /\ waypoints[i] \in [Slots -> Items \cup {None}]
    BY <1>1, <1>3, <1>6 DEF ManagerOK, ItemCallOK, TypeOK
  <2>2. transfer_seq'[m] = n + 1
    BY <1>1, <1>6, <2>1 DEF ItemWritten, Set, TypeOK
  <2>3. n < MaxCount
    BY <2>1, CountAssumption
  <2>4. FirstOf(waypoints[i], n + 1) = Append(FirstOf(waypoints[i], n), waypoints[i][n])
    BY <2>1, <2>3, FirstOfIsSequence, Zenon
  <2>5. FirstOf(waypoints[i], n + 1) = Append(FirstOf(waypoints[i], n), call[m].item)
    BY <2>1, <2>4
  <2>6. ASSUME Drafting(m)' PROVE Seen(m)
    <3>1. DraftOf(m)' = [size |-> transfer_count[m], items |-> FirstOf(waypoints[i], n + 1)]
      BY <1>1, <2>2, <2>6 DEF DraftOf, storage
    <3>2. DraftOf(m)' = [size |-> DraftOf(m).size, items |-> Append(DraftOf(m).items, call[m].item)]
      BY <1>4, <2>5, <3>1, DraftFacts
    <3>3. Len(DraftOf(m).items) < DraftOf(m).size /\ DraftOf(m) # None
      BY <1>4, <2>1, DraftFacts
    <3>4. SameMission
      BY <1>1, MissionIs DEF SameMission, storage
    <3> QED
      BY <1>4, <3>2, <3>3, <3>4 DEF Seen, Receives
  <2> QED
    BY <1>1, <2>6, LostDraft DEF Seen
<1> QED
  BY <1>4, <1>5, <1>6

LEMMA StateWrittenSeen ==
    ASSUME IInv, NEW m \in Managers, StateWritten(m)
    PROVE  Seen(m)
<1>1. TypeOK /\ call[m].op = "state" /\ UNCHANGED <<state, storage>> /\ call' = Set(call, m, NoCall)
  BY DEF IInv, StateWritten
<1>2. ManagerOK(m)
  BY <1>1, BusyIsPartnered DEF Idle, NoCall
<1>3. state'[m] = "IDLE" /\ call'[m] = NoCall
  BY <1>1, <1>2 DEF ManagerOK, StateCallOK, TypeOK, Set
<1> QED
  BY <1>1, <1>3, DraftsReceived, LostDraft DEF Seen

LEMMA SendSeen ==
    ASSUME IInv, NEW m \in Managers, Send(m)
    PROVE  Seen(m)
<1>1. /\ UNCHANGED <<call, storage, transfer>> /\ state'[m] = "IDLE" /\ state[m] # "IDLE"
  BY DEF IInv, TypeOK, Send, Set
<1>2. CASE call[m].op = "item"
  <2>1. Drafting(m) /\ Drafting(m)'
    BY <1>1, <1>2 DEF Drafting, Uploading
  <2> QED
    BY <1>1, <2>1, SameDraft DEF Seen, transfer
<1>3. CASE call[m].op # "item"
  <2>1. ManagerOK(m)
    BY <1>1, BusyIsPartnered DEF Idle
  <2>2. call[m].op # "state"
    BY <1>1, <2>1 DEF ManagerOK, StateCallOK
  <2>3. ~Drafting(m)'
    BY <1>1, <1>3, <2>2 DEF Drafting, Uploading
  <2> QED
    BY <1>1, <2>3, LostDraft DEF Seen
<1> QED
  BY <1>2, <1>3

\* ImplementsUpload: the stored mission is replaced as a whole or not at all,
\* over lost messages, failed writes, timeouts and restarts, for missions of any
\* length.
THEOREM Implementation ==
    ASSUME OneLink
    PROVE  Spec => ImplementsUpload
<1>1. Init => Upload!Init
  <2> SUFFICES ASSUME Init PROVE Upload!Init
    OBVIOUS
  <2>1. mission_state.count = 0 /\ misread = FALSE
    BY InitLoads DEF NoMission
  <2>2. Mission = << >>
    BY <2>1, MissionIs DEF FirstOf
  <2>3. \A m \in Managers : DraftOf(m) = None
    BY DEF Init, Construct, DraftOf, Drafting, Uploading, NoCall
  <2> QED
    BY <2>1, <2>2, <2>3, DraftIs DEF Upload!Init
<1>2. IInv /\ [Next]_vars => [Upload!Next]_(Upload!vars)
  <2> SUFFICES ASSUME IInv, [Next]_vars PROVE [Upload!Next]_(Upload!vars)
    OBVIOUS
  <2>1. ASSUME NEW m \in Managers, NEW p \in Partners[m], HandleMessage(m, p)
        PROVE  [Upload!Next]_(Upload!vars)
    BY <2>1, HandleStep, HandleSeen, SeenIsStep
  <2>2. ASSUME NEW m \in Managers, PerformWrite(m) PROVE [Upload!Next]_(Upload!vars)
    <3>1. Partners[m] # {}
      BY <2>2, BusyIsPartnered DEF PerformWrite, Idle
    <3> QED
      BY <2>2, <3>1, WriteStep, WriteSeen, SeenIsStep
  <2>3. ASSUME NEW m \in Managers, ItemWritten(m) PROVE [Upload!Next]_(Upload!vars)
    <3>1. Partners[m] # {}
      BY <2>3, BusyIsPartnered DEF ItemWritten, Idle, NoCall
    <3> QED
      BY <2>3, <3>1, ItemWrittenStep, ItemWrittenSeen, SeenIsStep
  <2>4. ASSUME NEW m \in Managers, StateWritten(m) PROVE [Upload!Next]_(Upload!vars)
    <3>1. Partners[m] # {}
      BY <2>4, BusyIsPartnered DEF StateWritten, Idle, NoCall
    <3> QED
      BY <2>4, <3>1, StateWrittenStep, StateWrittenSeen, SeenIsStep
  <2>5. ASSUME NEW m \in Managers, Send(m) PROVE [Upload!Next]_(Upload!vars)
    <3>1. Partners[m] # {}
      BY <2>5, BusyIsPartnered DEF Send, Idle
    <3> QED
      BY <2>5, <3>1, SendStep, SendSeen, SeenIsStep
  <2>6. ASSUME UNCHANGED <<state, transfer, call, storage>> PROVE UNCHANGED Upload!vars
    <3>1. \A m \in Managers : DraftOf(m)' = DraftOf(m)
      BY <2>6 DEF DraftOf, Drafting, Uploading, transfer, storage
    <3> QED
      BY <2>6, <3>1, DraftIs, MissionIs DEF Upload!vars, storage
  <2>7. CASE Restart
    <3>1. /\ UNCHANGED <<mission_state, waypoints>> /\ misread' \in BOOLEAN
          /\ \A m \in Managers : ~Drafting(m)'
      BY <2>7, RestartLoads DEF IInv, Restart, Drafting, Uploading, NoCall
    <3>2. Mission' = Mission /\ \A m \in Managers : DraftOf(m)' = None
      BY <3>1, MissionIs DEF DraftOf
    <3>3. Upload!Restart
      BY <3>1, <3>2, DraftIs DEF Upload!Restart
    <3> QED
      BY <3>3 DEF Upload!Next
  <2> QED
    BY <2>1, <2>2, <2>3, <2>4, <2>5, <2>6, <2>7
       DEF Next, CheckActiveMission, Tick, Silence, vars
<1> QED
  BY <1>1, <1>2, Invariance, PTL DEF Spec, ImplementsUpload, Upload!Spec
=============================================================================
