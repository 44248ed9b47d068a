---------------------------- MODULE MissionUpload -----------------------------
(***************************************************************************)
(* What a ground station is promised of the mission stored in the vehicle: *)
(* it is replaced only as a whole, by an upload all of whose items have    *)
(* arrived in order, or emptied; an upload that is given up leaves it as   *)
(* it was, and so does a restart.  There is one exception: a vehicle that  *)
(* could not read its mission when it started takes it for an empty one,   *)
(* and may then receive the items of the next mission over those of the    *)
(* stored one.  MavlinkMission implements it.                              *)
(***************************************************************************)
EXTENDS Naturals, Sequences

CONSTANTS
    Managers,   \* links on which missions are uploaded
    Items,      \* contents of a mission item
    MaxCount,   \* items a mission may have
    None        \* no upload

VARIABLES
    mission,    \* the items of the stored mission
    draft,      \* draft[m]: items announced and received on m so far, or None
    known       \* the vehicle knows which mission is stored

vars == <<mission, draft, known>>

Init ==
    /\ mission = << >>
    /\ draft = [m \in Managers |-> None]
    /\ known = TRUE

Begin(m) ==
    /\ draft[m] = None
    /\ \E n \in 1..MaxCount :
          draft' = [draft EXCEPT ![m] = [size |-> n, items |-> << >>]]
    /\ UNCHANGED <<mission, known>>

Receive(m) ==
    /\ draft[m] # None
    /\ Len(draft[m].items) < draft[m].size
    /\ \E w \in Items :
          draft' = [draft EXCEPT ![m] =
                      [size |-> draft[m].size, items |-> Append(draft[m].items, w)]]
    /\ UNCHANGED <<mission, known>>

\* The item that is due is stored where the unknown mission has its own.
Overwrite(m) ==
    /\ ~known
    /\ draft[m] # None
    /\ Len(draft[m].items) + 1 \in DOMAIN mission
    /\ \E w \in Items : mission' = [mission EXCEPT ![Len(draft[m].items) + 1] = w]
    /\ UNCHANGED <<draft, known>>

Abandon(m) ==
    /\ draft' = [draft EXCEPT ![m] = None]
    /\ UNCHANGED <<mission, known>>

Complete(m) ==
    /\ draft[m] # None
    /\ Len(draft[m].items) = draft[m].size
    /\ mission' = draft[m].items
    /\ draft' = [draft EXCEPT ![m] = None]
    /\ known' = TRUE

Empty ==
    /\ mission' = << >>
    /\ known' = TRUE
    /\ UNCHANGED draft

Restart ==
    /\ draft' = [m \in Managers |-> None]
    /\ known' \in BOOLEAN
    /\ UNCHANGED mission

Next ==
    \/ \E m \in Managers :
          Begin(m) \/ Receive(m) \/ Overwrite(m) \/ Abandon(m) \/ Complete(m)
    \/ Empty
    \/ Restart

Spec == Init /\ [][Next]_vars
=============================================================================
