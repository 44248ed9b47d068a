----------------------------- MODULE DurableStore -----------------------------
(***************************************************************************)
(* What the tasks that call the data manager are promised: a call takes    *)
(* effect at one moment between its begin and its answer, once, and as the *)
(* only one; a write that was answered as done stays until something is    *)
(* asked that may change it, over power failures too if it is on a card;   *)
(* and a reset erases nothing that is to survive it.  Dataman implements   *)
(* it.                                                                     *)
(***************************************************************************)
EXTENDS Naturals

CONSTANTS
    Clients,    \* tasks that call
    Sectors,    \* where items are stored: <<item, index>>
    Data,       \* what is written: a value and its persistence
    Calls,      \* what may be asked
    NoCall,     \* nothing is asked
    Nothing     \* an empty sector

VARIABLES
    durable,    \* the items are on a card
    store,      \* what reads return
    kept,       \* the writes that were answered, where nothing may have changed them
    request,    \* request[c]: what c asks for
    phase       \* phase[c]: "out", "asked", "done" or "answered"

vars == <<durable, store, kept, request, phase>>

Empty == [k \in Sectors |-> Nothing]

Init ==
    /\ durable \in BOOLEAN
    /\ store = Empty /\ kept = Empty
    /\ request = [c \in Clients |-> NoCall]
    /\ phase = [c \in Clients |-> "out"]

\* Whether data is to survive a power-on reset (0) or one in flight (1).
Survives(data, reason) ==
    \/ data = Nothing
    \/ data.persistence = 0
    \/ data.persistence = 1 /\ reason = 1

\* The sectors a call may change when they hold these values.
Changed(values, op) ==
    CASE op.func = "write" -> {op.key}
      [] op.func = "clear" -> {k \in Sectors : k[1] = op.item}
      [] op.func = "restart" -> {k \in Sectors : ~Survives(values[k], op.reason)}
      [] OTHER -> {}

Without(values, keys) ==
    [k \in Sectors |-> IF k \in keys THEN Nothing ELSE values[k]]

Erase(op) ==
    /\ \E keys \in SUBSET Changed(store, op) : store' = Without(store, keys)
    /\ kept' = Without(kept, Changed(kept, op))

Ask(c, op) ==
    /\ phase[c] = "out"
    /\ phase' = [phase EXCEPT ![c] = "asked"]
    /\ request' = [request EXCEPT ![c] = op]
    /\ UNCHANGED <<durable, store, kept>>

\* A write or a clearing that fails may have changed something.
Perform(c) ==
    /\ phase[c] = "asked"
    /\ phase' = [phase EXCEPT ![c] = "done"]
    /\ LET op == request[c] IN
       IF op.func = "write"
       THEN /\ store' \in {store, [store EXCEPT ![op.key] = op.data]}
            /\ kept' = Without(kept, {op.key})
       ELSE Erase(op)
    /\ UNCHANGED <<durable, request>>

Answer(c) ==
    /\ phase[c] = "done"
    /\ phase' = [phase EXCEPT ![c] = "answered"]
    /\ LET op == request[c] IN
       \/ UNCHANGED kept
       \/ /\ op.func = "write" /\ store[op.key] = op.data
          /\ kept' = [kept EXCEPT ![op.key] = op.data]
    /\ UNCHANGED <<durable, store, request>>

Return(c) ==
    /\ phase[c] = "answered"
    /\ phase' = [phase EXCEPT ![c] = "out"]
    /\ request' = [request EXCEPT ![c] = NoCall]
    /\ UNCHANGED <<durable, store, kept>>

\* The manager starts: it erases what the reset that went before is to erase,
\* or forgets everything (RAM, or a file of another firmware).
Begin ==
    /\ \/ \E reason \in 0..1 : Erase([func |-> "restart", reason |-> reason])
       \/ store' = Empty /\ kept' = Empty
    /\ UNCHANGED <<durable, request, phase>>

\* Power fails: calls end without an answer, and their writes may be lost.
PowerFails ==
    /\ store' \in [Sectors -> Data \cup {Nothing}]
    /\ kept' = IF durable THEN kept ELSE Empty
    /\ \A k \in Sectors : kept'[k] # Nothing => store'[k] = kept'[k]
    /\ request' = [c \in Clients |-> NoCall]
    /\ phase' = [c \in Clients |-> "out"]
    /\ UNCHANGED durable

Next ==
    \/ \E c \in Clients :
          \/ \E op \in Calls : Ask(c, op)
          \/ Perform(c) \/ Answer(c) \/ Return(c)
    \/ Begin \/ PowerFails

Spec == Init /\ [][Next]_vars
=============================================================================
