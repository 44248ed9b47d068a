------------------------------- MODULE Dataman -------------------------------
(***************************************************************************)
(* The data manager (modules/dataman/dataman.c): a worker task that serves *)
(* the reads and writes other tasks put in its queue, from a file on the   *)
(* memory card or from RAM.                                                *)
(*                                                                         *)
(* A call is split where another task may run: it enters if the manager is *)
(* running, enqueues its work item, posts the worker's semaphore and waits *)
(* for the result.  The worker serves one item, writes it through to the   *)
(* card, and answers.  Power may fail between any two of these steps; what *)
(* was not written through is then on the card or not.                     *)
(*                                                                         *)
(* The manager is started when no worker is left.  A write() replaces an   *)
(* item as a whole or not at all.  dm_lock() and the memory of the work    *)
(* items are left out.                                                     *)
(***************************************************************************)
EXTENDS Integers, Sequences, Functions

CONSTANTS
    Clients,        \* tasks that call the data manager
    Keys,           \* the sectors of the file, in its order: <<item, index>>
    Data,           \* what they write: a value and its persistence
    MaxEvents,      \* bound on calls, stops and power failures
    Nothing         \* an empty sector

ASSUME KeysAssumption ==
    /\ Keys \in Seq(Range(Keys)) /\ IsInjective(Keys)
    /\ \A i \in 1..Len(Keys) : Keys[i] \in Nat \X Nat
ASSUME DataAssumption == \A d \in Data : d.persistence \in 0..2
ASSUME BoundAssumption == MaxEvents \in Nat
ASSUME NothingAssumption == Nothing \notin Clients

VARIABLES
    on_disk,        \* the store is the file, not RAM
    card,           \* the file after a power failure
    store,          \* what read() of the file, or the RAM, returns
    running,        \* is_running(): g_fd, or g_data, is set
    should_exit,    \* g_task_should_exit
    stopping,       \* stop() has yet to post the semaphore
    worker,         \* where the worker task is
    serving,        \* the client it serves
    ok,             \* what the handler returned: it succeeded
    work_q,         \* g_work_q: the clients whose items are in it
    work_queued,    \* g_work_queued_sema
    at,             \* where each client is in its call
    call,           \* what it asks for
    answered,       \* work->wait_sem is posted
    acknowledged,   \* history: the last write of a key, once it is answered
    events

storage == <<on_disk, card, store>>
state == <<running, should_exit, stopping>>
task == <<worker, serving, ok>>
queue == <<work_q, work_queued>>
calls == <<at, call, answered>>
vars == <<storage, state, task, queue, calls, acknowledged, events>>

-----------------------------------------------------------------------------
Sectors == Range(Keys)
Items == {k[1] : k \in Sectors}
Empty == [k \in Sectors |-> Nothing]

POWER_ON == 0
IN_FLIGHT == 1

NoCall == [func |-> "none"]
Calls ==
    [func : {"write"}, key : Sectors, data : Data]
        \cup [func : {"read"}]
        \cup [func : {"clear"}, item : Items]
        \cup [func : {"restart"}, reason : {POWER_ON, IN_FLIGHT}]

Init ==
    /\ on_disk \in BOOLEAN
    /\ card = Empty /\ store = Empty
    /\ running = FALSE /\ should_exit = FALSE /\ stopping = FALSE
    /\ worker = "none" /\ serving = Nothing /\ ok = FALSE
    /\ work_q = <<>> /\ work_queued = 0
    /\ at = [c \in Clients |-> "out"]
    /\ call = [c \in Clients |-> NoCall]
    /\ answered = [c \in Clients |-> FALSE]
    /\ acknowledged = Empty
    /\ events = 0

Happens == events < MaxEvents /\ events' = events + 1

-----------------------------------------------------------------------------
(***************************************************************************)
(* What the calls do to the store.                                         *)
(***************************************************************************)

\* Mutant: data of the level that is to survive the reset is cleared as well.
ClearsOwnLevel(data, reason) ==
    data # Nothing /\ data.persistence >= IF reason = POWER_ON THEN 0 ELSE 1

\* Data that does not survive a reset for this reason.
Clears(data, reason) ==
    data # Nothing /\ data.persistence > IF reason = POWER_ON THEN 0 ELSE 1

\* The keys a call may change.
Touched(op) ==
    CASE op.func = "write" -> {op.key}
      [] op.func = "clear" -> {k \in Sectors : k[1] = op.item}
      [] op.func = "restart" -> {k \in Sectors : Clears(store[k], op.reason)}
      [] OTHER -> {}

\* _file_clear() and _file_restart() go through the sectors in order.  A seek
\* or a write that fails ends them with an error, and a read that fails like
\* the end of the file.  In RAM nothing fails.
ClearedUpTo(n, keys) ==
    [k \in Sectors |->
        IF k \in keys /\ \E i \in 1..n : Keys[i] = k THEN Nothing ELSE store[k]]

Clear(keys) ==
    \E n \in IF on_disk THEN 0..Len(Keys) ELSE {Len(Keys)} :
        /\ store' = ClearedUpTo(n, keys)
        /\ ok' \in IF n < Len(Keys) THEN BOOLEAN ELSE {TRUE}

\* Mutant: the item is made invalid before it is written.
WriteInvalidFirst(op) ==
    \/ ok' = TRUE /\ store' = [store EXCEPT ![op.key] = op.data]
    \/ /\ on_disk
       /\ ok' = FALSE
       /\ store' = [store EXCEPT ![op.key] = Nothing]

\* A write that fails may have changed the file.
Write(op) ==
    \/ ok' = TRUE /\ store' = [store EXCEPT ![op.key] = op.data]
    \/ /\ on_disk
       /\ ok' = FALSE
       /\ store' \in {store, [store EXCEPT ![op.key] = op.data]}

\* _file_write(), _file_clear(), _file_restart(), _file_read() and the same in
\* RAM.
Perform(op) ==
    CASE op.func = "write" -> Write(op)
      [] op.func = "read" -> UNCHANGED <<store, ok>>
      [] OTHER -> Clear(Touched(op))

\* Whether the handler has an fsync() to make.
Flushes(op) ==
    \/ op.func \in {"clear", "restart"}
    \/ op.func = "write" /\ ok'

\* What the header says of an item's persistence.
Survives(data, reason) ==
    \/ data = Nothing
    \/ data.persistence = 0
    \/ data.persistence = 1 /\ reason = IN_FLIGHT

Lost(op) ==
    IF op.func = "restart"
    THEN {k \in Sectors : ~Survives(acknowledged[k], op.reason)}
    ELSE Touched(op)

Forget(keys) ==
    acknowledged' = [k \in Sectors |->
                        IF k \in keys THEN Nothing ELSE acknowledged[k]]

-----------------------------------------------------------------------------
(***************************************************************************)
(* A call: dm_write(), dm_read(), dm_clear() or dm_restart().              *)
(***************************************************************************)
ClientStep == UNCHANGED <<storage, state, task, acknowledged>>

Enter(c, op) ==
    /\ at[c] = "out"
    /\ running /\ ~should_exit
    /\ Happens
    /\ at' = [at EXCEPT ![c] = "entered"]
    /\ call' = [call EXCEPT ![c] = op]
    /\ answered' = [answered EXCEPT ![c] = FALSE]
    /\ ClientStep
    /\ UNCHANGED queue

\* Mutant: the item is not taken as queued.
EnqueueAgain(c) ==
    /\ at[c] = "entered"
    /\ work_q' = Append(work_q, c)
    /\ ClientStep
    /\ UNCHANGED <<work_queued, at, call, answered, events>>

Enqueue(c) ==
    /\ at[c] = "entered"
    /\ at' = [at EXCEPT ![c] = "enqueued"]
    /\ work_q' = Append(work_q, c)
    /\ ClientStep
    /\ UNCHANGED <<work_queued, call, answered, events>>

\* Mutant: only the first item of the queue is told to the worker.
TellFirst(c) ==
    /\ at[c] = "enqueued"
    /\ at' = [at EXCEPT ![c] = "waiting"]
    /\ work_queued' = IF Len(work_q) = 1 THEN work_queued + 1 ELSE work_queued
    /\ ClientStep
    /\ UNCHANGED <<work_q, call, answered, events>>

\* Tell the worker, and wait.
Tell(c) ==
    /\ at[c] = "enqueued"
    /\ at' = [at EXCEPT ![c] = "waiting"]
    /\ work_queued' = work_queued + 1
    /\ ClientStep
    /\ UNCHANGED <<work_q, call, answered, events>>

Return(c) ==
    /\ at[c] = "waiting" /\ answered[c]
    /\ at' = [at EXCEPT ![c] = "out"]
    /\ call' = [call EXCEPT ![c] = NoCall]
    /\ answered' = [answered EXCEPT ![c] = FALSE]
    /\ ClientStep
    /\ UNCHANGED <<queue, events>>

-----------------------------------------------------------------------------
(***************************************************************************)
(* The worker: task_main().                                                *)
(***************************************************************************)
WorkerStep == UNCHANGED <<on_disk, stopping, at, call, events>>

\* dataman start: a RAM store is zeroed, and a file another firmware wrote, or
\* whose compatibility key cannot be read, is unlinked.
Start ==
    /\ worker = "none" /\ ~running
    /\ worker' = "starting"
    /\ should_exit' = FALSE
    /\ work_q' = <<>> /\ work_queued' = 0
    /\ \/ on_disk /\ UNCHANGED <<card, store, acknowledged>>
       \/ card' = Empty /\ store' = Empty /\ acknowledged' = Empty
    /\ UNCHANGED <<on_disk, running, stopping, serving, ok, calls, events>>

\* Erase what does not survive, by SYS_RESTART_TYPE, and do not look whether it
\* went well; nothing is erased for the third type.
EraseAtStart ==
    /\ worker = "starting"
    /\ worker' = "started"
    /\ \/ \E reason \in {POWER_ON, IN_FLIGHT} :
             LET op == [func |-> "restart", reason |-> reason]
             IN  Perform(op) /\ Forget(Lost(op))
       \/ UNCHANGED <<store, ok, acknowledged>>
    /\ WorkerStep
    /\ UNCHANGED <<card, running, should_exit, serving, queue, answered>>

\* From here on the manager takes calls.
Started ==
    /\ worker = "started"
    /\ worker' = "ready"
    /\ card' = IF on_disk THEN store ELSE card
    /\ running' = TRUE
    /\ WorkerStep
    /\ UNCHANGED <<store, should_exit, serving, ok, queue, answered, acknowledged>>

\* The top of the loop: wait for work ...
AwaitWork ==
    /\ worker = "ready" /\ ~should_exit
    /\ worker' = "awaiting"
    /\ WorkerStep
    /\ UNCHANGED <<card, store, running, should_exit, serving, ok, queue,
                   answered, acknowledged>>

Awake ==
    /\ worker = "awaiting" /\ work_queued > 0
    /\ work_queued' = work_queued - 1
    /\ worker' = "working"
    /\ WorkerStep
    /\ UNCHANGED <<card, store, running, should_exit, serving, ok, work_q,
                   answered, acknowledged>>

\* Mutant: callers are not kept out before the queue is emptied.
CloseLate ==
    /\ worker = "ready" /\ should_exit
    /\ worker' = "working"
    /\ WorkerStep
    /\ UNCHANGED <<card, store, running, should_exit, serving, ok, queue,
                   answered, acknowledged>>

\* ... or stop taking calls.
Close ==
    /\ worker = "ready" /\ should_exit
    /\ running' = FALSE
    /\ worker' = "working"
    /\ WorkerStep
    /\ UNCHANGED <<card, store, should_exit, serving, ok, queue, answered,
                   acknowledged>>

\* Take the first item of the queue and handle it.  A handler that changed the
\* file goes on to fsync() it.
Serve ==
    /\ worker = "working"
    /\ work_q # <<>>
    /\ LET c == Head(work_q)
           op == call[c]
       IN  /\ work_q' = Tail(work_q)
           /\ serving' = c
           /\ Perform(op)
           /\ Forget(Lost(op))
           /\ worker' = IF on_disk /\ Flushes(op) THEN "writing" ELSE "answering"
    /\ WorkerStep
    /\ UNCHANGED <<card, running, should_exit, work_queued, answered>>

\* Mutant: the file is flushed when the store is closed only.
NotFlushed ==
    /\ worker = "writing"
    /\ worker' = "answering"
    /\ WorkerStep
    /\ UNCHANGED <<card, store, running, should_exit, serving, ok, queue,
                   answered, acknowledged>>

\* fsync()
Flush ==
    /\ worker = "writing"
    /\ worker' = "answering"
    /\ card' = store
    /\ WorkerStep
    /\ UNCHANGED <<store, running, should_exit, serving, ok, queue, answered,
                   acknowledged>>

\* Post the item's semaphore.
Answer ==
    /\ worker = "answering"
    /\ worker' = "working"
    /\ answered' = [answered EXCEPT ![serving] = TRUE]
    /\ acknowledged' =
         LET op == call[serving] IN
         IF op.func = "write" /\ ok
         THEN [acknowledged EXCEPT ![op.key] = op.data] ELSE acknowledged
    /\ serving' = Nothing /\ ok' = FALSE
    /\ WorkerStep
    /\ UNCHANGED <<card, store, running, should_exit, queue>>

\* The queue is empty: go round, or leave and close the store.
GoRound ==
    /\ worker = "working" /\ work_q = <<>>
    /\ ~(should_exit /\ ~running)
    /\ worker' = "ready"
    /\ WorkerStep
    /\ UNCHANGED <<card, store, running, should_exit, serving, ok, queue,
                   answered, acknowledged>>

Leave ==
    /\ worker = "working" /\ work_q = <<>>
    /\ should_exit /\ ~running
    /\ worker' = "none"
    /\ IF on_disk THEN card' = store /\ UNCHANGED <<store, acknowledged>>
       ELSE card' = card /\ store' = Empty /\ acknowledged' = Empty
    /\ WorkerStep
    /\ UNCHANGED <<running, should_exit, serving, ok, queue, answered>>

Worker ==
    \/ EraseAtStart \/ Started \/ AwaitWork \/ Awake \/ Close
    \/ Serve \/ Flush \/ Answer \/ GoRound \/ Leave

-----------------------------------------------------------------------------
\* dataman stop: ask the worker to leave ...
Stop ==
    /\ running /\ ~stopping
    /\ Happens
    /\ should_exit' = TRUE
    /\ stopping' = TRUE
    /\ UNCHANGED <<storage, running, task, queue, calls, acknowledged>>

\* Mutant: the worker is not woken.
StopAsleep ==
    /\ stopping
    /\ stopping' = FALSE
    /\ UNCHANGED <<storage, running, should_exit, task, queue, calls,
                   acknowledged, events>>

\* ... and wake it.
StopWakes ==
    /\ stopping
    /\ stopping' = FALSE
    /\ work_queued' = work_queued + 1
    /\ UNCHANGED <<storage, running, should_exit, task, work_q, calls,
                   acknowledged, events>>

\* The vehicle loses power, or is rebooted.
PowerFails ==
    /\ Happens
    /\ IF on_disk
         THEN /\ card' \in {[k \in Sectors |-> IF k \in flushed THEN store[k] ELSE card[k]]
                              : flushed \in SUBSET Sectors}
              /\ UNCHANGED acknowledged
         ELSE card' = card /\ acknowledged' = Empty
    /\ store' = card'
    /\ running' = FALSE /\ should_exit' = FALSE /\ stopping' = FALSE
    /\ worker' = "none" /\ serving' = Nothing /\ ok' = FALSE
    /\ work_q' = <<>> /\ work_queued' = 0
    /\ at' = [c \in Clients |-> "out"]
    /\ call' = [c \in Clients |-> NoCall]
    /\ answered' = [c \in Clients |-> FALSE]
    /\ UNCHANGED on_disk

Client(c) == Enqueue(c) \/ Tell(c) \/ Return(c)

Next ==
    \/ Start \/ Stop \/ StopWakes \/ PowerFails
    \/ Worker
    \/ \E c \in Clients : Client(c) \/ \E op \in Calls : Enter(c, op)

\* Tasks that can run do.  Nothing makes a task call, start or stop.
Fairness ==
    /\ WF_vars(Worker) /\ WF_vars(StopWakes)
    /\ \A c \in Clients : WF_vars(Client(c))

Spec == Init /\ [][Next]_vars
FairSpec == Spec /\ Fairness

-----------------------------------------------------------------------------
(***************************************************************************)
(* Properties.                                                             *)
(***************************************************************************)

\* Each work item is in the queue, in the worker's hands or in its owner's, and
\* in one of them only; the worker holds one exactly while it serves.
TypeOK ==
    /\ {on_disk, running, should_exit, stopping, ok} \subseteq BOOLEAN
    /\ {card, store, acknowledged} \subseteq [Sectors -> Data \cup {Nothing}]
    /\ worker \in {"none", "starting", "started", "ready", "awaiting",
                   "working", "writing", "answering"}
    /\ IF worker \in {"writing", "answering"}
         THEN serving \in Clients ELSE serving = Nothing
    /\ at \in [Clients -> {"out", "entered", "enqueued", "waiting"}]
    /\ call \in [Clients -> Calls \cup {NoCall}]
    /\ answered \in [Clients -> BOOLEAN]
    /\ work_queued \in 0..MaxEvents
    /\ IsInjective(work_q)
    /\ \A c \in Range(work_q) \cup ({serving} \ {Nothing}) :
          at[c] \in {"enqueued", "waiting"} /\ ~answered[c]
    /\ serving \notin Range(work_q)

\* What a dm_write() was told to be written is what reads return, and on a
\* card it outlives a power failure at any moment and every reset that its
\* persistence is to survive, until a write, a clearing or a reset is about to
\* change it.
AcknowledgedIsKept ==
    \A k \in Sectors :
        acknowledged[k] # Nothing => /\ store[k] = acknowledged[k]
                                     /\ on_disk => card[k] = acknowledged[k]

\* Where the clients are for the abstract store: a call has taken effect once the
\* worker took its item from the queue.
Phase == [c \in Clients |->
            CASE at[c] = "out" -> "out"
              [] at[c] # "out" /\ answered[c] -> "answered"
              [] at[c] # "out" /\ ~answered[c] /\ c = serving -> "done"
              [] OTHER -> "asked"]

\* Every call takes effect once, in one step between its begin and its answer,
\* also while the manager is stopped and started and power fails: the data
\* manager implements DurableStore.
Store == INSTANCE DurableStore WITH
            durable <- on_disk, kept <- acknowledged, request <- call, phase <- Phase
ImplementsStore == Store!Spec

\* The worker does not wait for a semaphore nobody is going to post while it
\* has work: an item whose caller already waits, or a stop.  It empties the
\* queue whenever it is woken, so one post may stand for several items and a
\* later one for none.
NeverWaitsWithWork ==
    worker = "awaiting" /\ work_queued = 0 =>
        /\ \A i \in 1..Len(work_q) : at[work_q[i]] = "enqueued"
        /\ should_exit => stopping

\* A task whose work item is queued gets its answer, also while the manager is
\* told to stop, as long as the worker has not left; and dataman stop ends the
\* worker, whatever is called meanwhile.
CallsAndStopsEnd ==
    /\ \A c \in Clients :
          (\E i \in 1..Len(work_q) : work_q[i] = c) /\ worker # "none"
              ~> at[c] = "out" \/ worker = "none"
    /\ should_exit ~> worker = "none"
=============================================================================
