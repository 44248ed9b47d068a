---------------------------- MODULE DatamanProofs ----------------------------
(***************************************************************************)
(* What the data manager keeps, for any clients, sectors and data and any  *)
(* number of calls, stops and power failures: a work item is in one place, *)
(* and an acknowledged write is not lost.                                  *)
(***************************************************************************)
EXTENDS Dataman, FiniteSetTheorems, SequenceTheorems, TLAPS

\* What a sector holds.
Content == Data \cup {Nothing}

WorkerPlaces == {"none", "starting", "started", "ready", "awaiting",
                 "working", "writing", "answering"}
Serving == {"writing", "answering"}
Queued == {"enqueued", "waiting"}

StoreOK ==
    /\ on_disk \in BOOLEAN
    /\ card \in [Sectors -> Content]
    /\ store \in [Sectors -> Content]
    /\ acknowledged \in [Sectors -> Content]

TaskOK ==
    /\ running \in BOOLEAN /\ should_exit \in BOOLEAN /\ stopping \in BOOLEAN
    /\ ok \in BOOLEAN
    /\ worker \in WorkerPlaces
    /\ worker \in Serving => serving \in Clients
    /\ worker \notin Serving => serving = Nothing

CallsOK ==
    /\ at \in [Clients -> {"out", "entered", "enqueued", "waiting"}]
    /\ call \in [Clients -> Calls \cup {NoCall}]
    /\ answered \in [Clients -> BOOLEAN]
    /\ \A c \in Clients : at[c] # "out" => call[c] \in Calls
    /\ \A c \in Clients : at[c] = "entered" => ~answered[c]

\* A work item is in the queue once, or with the worker, or with its owner.
QueueOK ==
    /\ work_q \in Seq(Clients)
    /\ \A i, j \in 1..Len(work_q) : work_q[i] = work_q[j] => i = j
    /\ \A i \in 1..Len(work_q) :
          at[work_q[i]] \in Queued /\ ~answered[work_q[i]] /\ work_q[i] # serving
    /\ serving # Nothing => at[serving] \in Queued /\ ~answered[serving]

\* Clients that are yet to post the worker's semaphore.
Untold == {c \in Clients : at[c] \in {"entered", "enqueued"}}
StopsToPost == IF stopping THEN 1 ELSE 0

\* Each post of the semaphore, done or to come, is that of a call or a stop.
PostsOK ==
    /\ events \in 0..MaxEvents
    /\ work_queued \in Nat
    /\ IsFiniteSet(Untold)
    /\ work_queued + Cardinality(Untold) + StopsToPost <= events

\* A write that succeeded is in the file, and flushed when it is answered.
Done(op) ==
    op.func = "write" /\ ok =>
        /\ store[op.key] = op.data
        /\ on_disk /\ worker = "answering" => card[op.key] = op.data
ServedOK == worker \in Serving => Done(call[serving])

\* Where the worker is when it does not empty the queue.
Away == WorkerPlaces \ {"working", "writing", "answering"}

\* Of the items that came since it emptied the queue, and of the stops, the
\* semaphore was posted at least once.
WakeupOK ==
    /\ worker \in Away /\ (\E i \in 1..Len(work_q) : at[work_q[i]] = "waiting")
          => work_queued > 0
    /\ worker = "awaiting" /\ should_exit /\ ~stopping => work_queued > 0

IInv ==
    /\ StoreOK /\ TaskOK /\ CallsOK /\ QueueOK /\ PostsOK
    /\ ServedOK /\ AcknowledgedIsKept /\ WakeupOK

-------------------------------------------------------------------------------
LEMMA ContentOf == ASSUME NEW k \in Sectors, StoreOK
                   PROVE  store[k] \in Content /\ acknowledged[k] \in Content
  BY DEF StoreOK

\* What _file_restart() erases is exactly what, by the header, is not to
\* survive a reset for that reason.
THEOREM ErasesWhatIsLost ==
  ASSUME NEW data \in Data \cup {Nothing}, NEW reason \in {POWER_ON, IN_FLIGHT}
  PROVE  Clears(data, reason) <=> ~Survives(data, reason)
<1>1. CASE data = Nothing
  BY <1>1 DEF Clears, Survives
<1>2. CASE data # Nothing
  <2>1. data.persistence \in 0..2
    BY <1>2, DataAssumption
  <2> QED  BY <1>2, <2>1 DEF Clears, Survives, POWER_ON, IN_FLIGHT
<1> QED  BY <1>1, <1>2

LEMMA CallKinds ==
  ASSUME NEW op \in Calls
  PROVE  \/ op.func = "write" /\ op.key \in Sectors /\ op.data \in Data
         \/ op.func = "read"
         \/ op.func = "clear" /\ op.item \in Items
         \/ op.func = "restart" /\ op.reason \in {POWER_ON, IN_FLIGHT}
  BY DEF Calls

\* A call changes no sector but those it touches.
LEMMA PerformTouches ==
  ASSUME StoreOK, ok \in BOOLEAN, NEW op \in Calls, Perform(op)
  PROVE  /\ store' \in [Sectors -> Content]
         /\ ok' \in BOOLEAN
         /\ \A k \in Sectors \ Touched(op) : store'[k] = store[k]
         /\ op.func = "write" /\ ok' => store'[op.key] = op.data
<1>1. CASE op.func = "write"
  <2>1. op.key \in Sectors /\ op.data \in Content
    BY <1>1, CallKinds DEF Content
  <2>2. Write(op) /\ Touched(op) = {op.key}
    BY <1>1 DEF Perform, Touched
  <2>3. [store EXCEPT ![op.key] = op.data] \in [Sectors -> Content]
    BY <2>1 DEF StoreOK
  <2> QED  BY <1>1, <2>1, <2>2, <2>3 DEF Write, StoreOK
<1>2. CASE op.func = "read"
  BY <1>2 DEF Perform, StoreOK
<1>3. CASE op.func \in {"clear", "restart"}
  <2>1. PICK n : store' = ClearedUpTo(n, Touched(op))
    BY <1>3 DEF Perform, Clear
  <2>2. ok' \in BOOLEAN
    BY <1>3 DEF Perform, Clear
  <2>3. Nothing \in Content
    BY DEF Content
  <2> QED  BY <1>3, <2>1, <2>2, <2>3 DEF ClearedUpTo, StoreOK
<1> QED  BY <1>1, <1>2, <1>3, CallKinds

\* What stays acknowledged was not touched.
LEMMA PerformKeeps ==
  ASSUME StoreOK, AcknowledgedIsKept, ok \in BOOLEAN,
         NEW op \in Calls, Perform(op), Forget(Lost(op)),
         UNCHANGED <<on_disk, card>>
  PROVE  StoreOK' /\ AcknowledgedIsKept'
<1>1. acknowledged' \in [Sectors -> Content]
  BY DEF Forget, StoreOK, Content
<1>2. StoreOK'
  BY <1>1, PerformTouches DEF StoreOK
<1>3. ASSUME NEW k \in Sectors, acknowledged'[k] # Nothing
      PROVE  k \notin Lost(op) /\ acknowledged'[k] = acknowledged[k]
  BY <1>3 DEF Forget
<1>4. ASSUME NEW k \in Sectors, acknowledged'[k] # Nothing
      PROVE  k \notin Touched(op)
  <2>1. k \notin Lost(op) /\ store[k] = acknowledged[k]
    BY <1>3, <1>4 DEF AcknowledgedIsKept
  <2>2. CASE op.func # "restart"
    BY <2>1, <2>2 DEF Lost
  <2>3. CASE op.func = "restart"
    <3>1. op.reason \in {POWER_ON, IN_FLIGHT}
      BY <2>3, CallKinds
    <3>2. Survives(store[k], op.reason)
      BY <2>1, <2>3 DEF Lost
    <3>3. ~Clears(store[k], op.reason)
      BY <3>1, <3>2, ContentOf, ErasesWhatIsLost DEF Content
    <3> QED  BY <2>3, <3>3 DEF Touched
  <2> QED  BY <2>2, <2>3
<1>5. ASSUME NEW k \in Sectors, acknowledged'[k] # Nothing
      PROVE  /\ store'[k] = acknowledged'[k]
             /\ on_disk' => card'[k] = acknowledged'[k]
  BY <1>3, <1>4, <1>5, PerformTouches DEF AcknowledgedIsKept
<1> QED  BY <1>2, <1>5 DEF AcknowledgedIsKept
-------------------------------------------------------------------------------
(***************************************************************************)
(* What a step leaves alone.                                               *)
(***************************************************************************)
LEMMA StoreKept ==
  ASSUME StoreOK, AcknowledgedIsKept, UNCHANGED <<storage, acknowledged>>
  PROVE  StoreOK' /\ AcknowledgedIsKept'
  BY DEF storage, StoreOK, AcknowledgedIsKept

LEMMA CallsKept == ASSUME CallsOK, UNCHANGED calls PROVE CallsOK'
  BY DEF calls, CallsOK

LEMMA QueueKept ==
  ASSUME QueueOK, UNCHANGED <<work_q, serving, at, answered>> PROVE QueueOK'
  BY DEF QueueOK

LEMMA UntoldKept == ASSUME UNCHANGED at PROVE Untold' = Untold
  BY DEF Untold

LEMMA PostsKept ==
  ASSUME PostsOK, UNCHANGED <<stopping, at, events>>,
         work_queued' \in Nat, work_queued' <= work_queued
  PROVE  PostsOK'
<1>1. Untold' = Untold /\ StopsToPost' = StopsToPost
  BY UntoldKept DEF StopsToPost
<1>2. Cardinality(Untold) \in Nat /\ StopsToPost \in Nat
  BY FS_CardinalityType DEF PostsOK, StopsToPost
<1>3. events \in Nat
  BY BoundAssumption DEF PostsOK
<1> QED  BY <1>1, <1>2, <1>3 DEF PostsOK

\* The worker serves nobody.
LEMMA NotServing ==
  ASSUME TaskOK, worker' \notin Serving, serving' = Nothing, ok' \in BOOLEAN,
         worker' \in WorkerPlaces, UNCHANGED stopping,
         running' \in BOOLEAN, should_exit' \in BOOLEAN
  PROVE  TaskOK' /\ ServedOK'
  BY DEF TaskOK, ServedOK

\* A step of a client leaves the worker and the store alone.
LEMMA ByClient ==
  ASSUME IInv, ClientStep,
         worker \in Serving => call'[serving] = call[serving]
  PROVE  TaskOK' /\ StoreOK' /\ AcknowledgedIsKept' /\ ServedOK'
<1>1. TaskOK'
  BY DEF IInv, TaskOK, ClientStep, state, task
<1>2. StoreOK' /\ AcknowledgedIsKept'
  BY StoreKept DEF IInv, ClientStep
<1>3. ServedOK'
  BY DEF IInv, ClientStep, storage, task, ServedOK, Done
<1> QED  BY <1>1, <1>2, <1>3

-------------------------------------------------------------------------------
(***************************************************************************)
(* The clients.                                                            *)
(***************************************************************************)
LEMMA Entered ==
  ASSUME IInv, NEW c \in Clients, NEW op \in Calls, Enter(c, op) PROVE IInv'
<1> USE DEF IInv
<1>1. /\ at \in [Clients -> {"out", "entered", "enqueued", "waiting"}]
      /\ at[c] = "out" /\ at' = [at EXCEPT ![c] = "entered"]
      /\ call' = [call EXCEPT ![c] = op]
      /\ answered' = [answered EXCEPT ![c] = FALSE]
      /\ UNCHANGED <<work_q, work_queued, serving, stopping, worker>>
  BY DEF Enter, CallsOK, ClientStep, queue, task, state
<1>2. CallsOK'
  BY <1>1 DEF CallsOK
<1>3. serving # c /\ \A i \in 1..Len(work_q) : work_q[i] # c
  BY <1>1, NothingAssumption DEF QueueOK, Queued
<1>4. QueueOK'
  <2>1. \A i \in 1..Len(work_q) : work_q[i] \in Clients
    BY DEF QueueOK
  <2>2. serving # Nothing => serving \in Clients
    BY DEF TaskOK
  <2> QED  BY <1>1, <1>3, <2>1, <2>2 DEF QueueOK, CallsOK
<1>5. PostsOK'
  <2>1. Untold' = Untold \cup {c} /\ c \notin Untold
    BY <1>1 DEF Untold
  <2>2. IsFiniteSet(Untold') /\ Cardinality(Untold') = Cardinality(Untold) + 1
    BY <2>1, FS_AddElement DEF PostsOK
  <2>3. Cardinality(Untold) \in Nat
    BY FS_CardinalityType DEF PostsOK
  <2>4. events \in Nat /\ events' = events + 1 /\ events' \in 0..MaxEvents
    BY BoundAssumption DEF Enter, Happens, PostsOK
  <2>5. StopsToPost \in Nat /\ StopsToPost' = StopsToPost
    BY <1>1 DEF StopsToPost
  <2> QED  BY <1>1, <2>2, <2>3, <2>4, <2>5 DEF PostsOK
<1>6. TaskOK' /\ StoreOK' /\ AcknowledgedIsKept' /\ ServedOK'
  <2>1. worker \in Serving => call'[serving] = call[serving]
    BY <1>1, <1>3 DEF TaskOK, CallsOK
  <2> QED  BY <2>1, ByClient DEF Enter
<1>7. WakeupOK'
  <2>1. \A i \in 1..Len(work_q) : work_q[i] \in Clients
    BY DEF QueueOK
  <2>2. \A i \in 1..Len(work_q) : at'[work_q[i]] = at[work_q[i]]
    BY <1>1, <1>3, <2>1
  <2> QED  BY <1>1, <2>2 DEF WakeupOK, Enter, ClientStep, state
<1> QED  BY <1>2, <1>4, <1>5, <1>6, <1>7

LEMMA Enqueued == ASSUME IInv, NEW c \in Clients, Enqueue(c) PROVE IInv'
<1> USE DEF IInv
<1>1. /\ at \in [Clients -> {"out", "entered", "enqueued", "waiting"}]
      /\ at[c] = "entered" /\ at' = [at EXCEPT ![c] = "enqueued"]
      /\ work_q' = Append(work_q, c)
      /\ UNCHANGED <<call, answered, work_queued, serving, stopping, events>>
  BY DEF Enqueue, CallsOK, ClientStep, task, state
<1>2. CallsOK'
  BY <1>1 DEF CallsOK
<1>3. serving # c /\ \A i \in 1..Len(work_q) : work_q[i] # c
  BY <1>1, NothingAssumption DEF QueueOK, Queued
<1>4. QueueOK'
  <2>1. work_q \in Seq(Clients) /\ Len(work_q) \in Nat
    BY LenProperties DEF QueueOK
  <2>2. /\ work_q' \in Seq(Clients) /\ Len(work_q') = Len(work_q) + 1
        /\ \A i \in 1..Len(work_q) : work_q'[i] = work_q[i] /\ work_q[i] \in Clients
        /\ work_q'[Len(work_q) + 1] = c
    BY <1>1, <2>1, AppendProperties, ElementOfSeq
  <2>3. \A i \in 1..Len(work_q') : i \in 1..Len(work_q) \/ i = Len(work_q) + 1
    BY <2>1, <2>2
  <2>4. ~answered[c] /\ at'[c] \in Queued
    BY <1>1 DEF CallsOK, Queued
  <2>5. \A i, j \in 1..Len(work_q') : work_q'[i] = work_q'[j] => i = j
    BY <1>3, <2>2, <2>3 DEF QueueOK
  <2>6. \A i \in 1..Len(work_q') :
           /\ at'[work_q'[i]] \in Queued /\ ~answered'[work_q'[i]]
           /\ work_q'[i] # serving'
    BY <1>1, <1>3, <2>2, <2>3, <2>4 DEF QueueOK
  <2>7. serving # Nothing => at'[serving] \in Queued /\ ~answered[serving]
    BY <1>1, <1>3 DEF QueueOK, TaskOK
  <2> QED  BY <1>1, <2>2, <2>5, <2>6, <2>7 DEF QueueOK
<1>5. PostsOK'
  <2>1. Untold' = Untold /\ StopsToPost' = StopsToPost
    BY <1>1 DEF Untold, StopsToPost
  <2> QED  BY <1>1, <2>1 DEF PostsOK
<1>6. TaskOK' /\ StoreOK' /\ AcknowledgedIsKept' /\ ServedOK'
  BY <1>1, ByClient DEF Enqueue
<1>7. WakeupOK'
  <2>1. work_q \in Seq(Clients) /\ Len(work_q) \in Nat
    BY LenProperties DEF QueueOK
  <2>2. /\ Len(work_q') = Len(work_q) + 1
        /\ \A i \in 1..Len(work_q) : work_q'[i] = work_q[i] /\ work_q[i] \in Clients
        /\ work_q'[Len(work_q) + 1] = c
    BY <1>1, <2>1, AppendProperties, ElementOfSeq
  <2>3. \A i \in 1..Len(work_q') : i \in 1..Len(work_q) \/ i = Len(work_q) + 1
    BY <2>1, <2>2
  <2>4. \A i \in 1..Len(work_q') :
           at'[work_q'[i]] = "waiting"
              => i \in 1..Len(work_q) /\ at[work_q[i]] = "waiting"
    BY <1>1, <1>3, <2>2, <2>3
  <2> QED  BY <1>1, <2>4 DEF WakeupOK, Enqueue, ClientStep, state, task
<1> QED  BY <1>2, <1>4, <1>5, <1>6, <1>7

LEMMA Told == ASSUME IInv, NEW c \in Clients, Tell(c) PROVE IInv'
<1> USE DEF IInv
<1>1. /\ at \in [Clients -> {"out", "entered", "enqueued", "waiting"}]
      /\ at[c] = "enqueued" /\ at' = [at EXCEPT ![c] = "waiting"]
      /\ work_queued' = work_queued + 1
      /\ UNCHANGED <<call, answered, work_q, serving, stopping, events>>
  BY DEF Tell, CallsOK, ClientStep, task, state
<1>2. CallsOK'
  BY <1>1 DEF CallsOK
<1>3. QueueOK'
  <2>1. \A i \in 1..Len(work_q) : work_q[i] \in Clients
    BY DEF QueueOK
  <2>2. \A d \in Clients : at[d] \in Queued => at'[d] \in Queued
    BY <1>1 DEF Queued
  <2>3. serving # Nothing => serving \in Clients
    BY DEF TaskOK
  <2> QED  BY <1>1, <2>1, <2>2, <2>3 DEF QueueOK
<1>4. PostsOK'
  <2>1. Untold' = Untold \ {c} /\ c \in Untold
    BY <1>1 DEF Untold
  <2>2. IsFiniteSet(Untold') /\ Cardinality(Untold') = Cardinality(Untold) - 1
    BY <2>1, FS_RemoveElement DEF PostsOK
  <2>3. Cardinality(Untold) \in Nat
    BY FS_CardinalityType DEF PostsOK
  <2>4. StopsToPost \in Nat /\ StopsToPost' = StopsToPost /\ events \in Nat
    BY <1>1, BoundAssumption DEF StopsToPost, PostsOK
  <2> QED  BY <1>1, <2>2, <2>3, <2>4 DEF PostsOK
<1>5. TaskOK' /\ StoreOK' /\ AcknowledgedIsKept' /\ ServedOK'
  BY <1>1, ByClient DEF Tell
<1>6. WakeupOK'
  <2>1. work_queued \in Nat
    BY DEF PostsOK
  <2> QED  BY <1>1, <2>1 DEF WakeupOK
<1> QED  BY <1>2, <1>3, <1>4, <1>5, <1>6

LEMMA Returned == ASSUME IInv, NEW c \in Clients, Return(c) PROVE IInv'
<1> USE DEF IInv
<1>1. /\ at \in [Clients -> {"out", "entered", "enqueued", "waiting"}]
      /\ at[c] = "waiting" /\ answered[c] /\ at' = [at EXCEPT ![c] = "out"]
      /\ call' = [call EXCEPT ![c] = NoCall]
      /\ answered' = [answered EXCEPT ![c] = FALSE]
      /\ UNCHANGED <<work_q, work_queued, serving, stopping, worker, events>>
  BY DEF Return, CallsOK, ClientStep, queue, task, state
<1>2. CallsOK'
  BY <1>1 DEF CallsOK
<1>3. serving # c /\ \A i \in 1..Len(work_q) : work_q[i] # c
  BY <1>1, NothingAssumption DEF QueueOK
<1>4. QueueOK'
  <2>1. \A i \in 1..Len(work_q) : work_q[i] \in Clients
    BY DEF QueueOK
  <2>2. serving # Nothing => serving \in Clients
    BY DEF TaskOK
  <2> QED  BY <1>1, <1>3, <2>1, <2>2 DEF QueueOK, CallsOK
<1>5. PostsOK'
  <2>1. Untold' = Untold /\ StopsToPost' = StopsToPost
    BY <1>1 DEF Untold, StopsToPost
  <2> QED  BY <1>1, <2>1 DEF PostsOK
<1>6. TaskOK' /\ StoreOK' /\ AcknowledgedIsKept' /\ ServedOK'
  <2>1. worker \in Serving => call'[serving] = call[serving]
    BY <1>1, <1>3 DEF TaskOK, CallsOK
  <2> QED  BY <2>1, ByClient DEF Return
<1>7. WakeupOK'
  <2>1. \A i \in 1..Len(work_q) : work_q[i] \in Clients
    BY DEF QueueOK
  <2>2. \A i \in 1..Len(work_q) : at'[work_q[i]] = at[work_q[i]]
    BY <1>1, <1>3, <2>1
  <2> QED  BY <1>1, <2>2 DEF WakeupOK, Return, ClientStep, state
<1> QED  BY <1>2, <1>4, <1>5, <1>6, <1>7
-------------------------------------------------------------------------------
(***************************************************************************)
(* The worker.                                                             *)
(***************************************************************************)

\* A step of the worker that neither takes nor answers an item.
LEMMA ByIdleWorker ==
  ASSUME IInv, WorkerStep, worker \notin Serving, worker' \in WorkerPlaces \ Serving,
         running' \in BOOLEAN, ok' \in BOOLEAN,
         UNCHANGED <<should_exit, serving, answered, work_q>>,
         work_queued' \in Nat, work_queued' <= work_queued
  PROVE  TaskOK' /\ ServedOK' /\ CallsOK' /\ QueueOK' /\ PostsOK'
<1> USE DEF IInv, WorkerStep
<1>1. TaskOK' /\ ServedOK'
  BY NotServing DEF TaskOK
<1>2. CallsOK'
  BY CallsKept DEF calls
<1>3. QueueOK'
  BY QueueKept
<1>4. PostsOK'
  BY PostsKept
<1> QED  BY <1>1, <1>2, <1>3, <1>4

\* ... and leaves the store alone, too.
LEMMA Waiting ==
  ASSUME IInv, AwaitWork \/ Awake \/ Close \/ GoRound PROVE IInv'
<1> USE DEF IInv
<1>1. /\ WorkerStep /\ worker \notin Serving /\ worker' \in WorkerPlaces \ Serving
      /\ running' \in BOOLEAN /\ ok' \in BOOLEAN
      /\ UNCHANGED <<should_exit, serving, answered, work_q, card, store, acknowledged>>
      /\ work_queued' \in Nat /\ work_queued' <= work_queued
  <2>1. running \in BOOLEAN /\ ok \in BOOLEAN /\ work_queued \in Nat
    BY DEF TaskOK, PostsOK
  <2>2. CASE AwaitWork
    BY <2>1, <2>2 DEF AwaitWork, Serving, WorkerPlaces, queue
  <2>3. CASE Awake
    BY <2>1, <2>3 DEF Awake, Serving, WorkerPlaces
  <2>4. CASE Close
    <3>1. running' \in BOOLEAN /\ UNCHANGED queue
      BY <2>4 DEF Close
    <3> QED  BY <2>1, <2>4, <3>1 DEF Close, Serving, WorkerPlaces, queue
  <2>5. CASE GoRound
    BY <2>1, <2>5 DEF GoRound, Serving, WorkerPlaces, queue
  <2> QED  BY <2>2, <2>3, <2>4, <2>5
<1>2. StoreOK' /\ AcknowledgedIsKept'
  BY <1>1, StoreKept DEF WorkerStep, storage
<1>3. WakeupOK'
  <2>1. CASE AwaitWork
    BY <2>1 DEF AwaitWork, WorkerStep, queue, WakeupOK, Away, WorkerPlaces
  <2>2. CASE Awake
    BY <2>2 DEF Awake, WakeupOK, Away
  <2>3. CASE Close
    BY <2>3 DEF Close, WakeupOK, Away
  <2>4. CASE GoRound
    <3>1. worker' = "ready" /\ work_q' = <<>>
      BY <2>4 DEF GoRound, queue
    <3> QED  BY <3>1 DEF WakeupOK
  <2> QED  BY <2>1, <2>2, <2>3, <2>4
<1> QED  BY <1>1, <1>2, ByIdleWorker, <1>3

LEMMA Erased == ASSUME IInv, EraseAtStart PROVE IInv'
<1> USE DEF IInv
<1>1. StoreOK' /\ AcknowledgedIsKept' /\ ok' \in BOOLEAN
  <2>1. UNCHANGED <<on_disk, card>> /\ ok \in BOOLEAN
    BY DEF EraseAtStart, WorkerStep, TaskOK
  <2>2. ASSUME NEW reason \in {POWER_ON, IN_FLIGHT},
               Perform([func |-> "restart", reason |-> reason]),
               Forget(Lost([func |-> "restart", reason |-> reason]))
        PROVE  StoreOK' /\ AcknowledgedIsKept' /\ ok' \in BOOLEAN
    <3>1. [func |-> "restart", reason |-> reason] \in Calls
      BY DEF Calls
    <3> QED  BY <2>1, <2>2, <3>1, PerformKeeps, PerformTouches
  <2>3. CASE UNCHANGED <<store, ok, acknowledged>>
    BY <2>1, <2>3, StoreKept DEF storage
  <2> QED  BY <2>2, <2>3 DEF EraseAtStart
<1>2. /\ WorkerStep /\ worker \notin Serving /\ worker' \in WorkerPlaces \ Serving
      /\ UNCHANGED <<running, should_exit, serving, answered, work_q, work_queued>>
      /\ running \in BOOLEAN /\ work_queued \in Nat
  BY DEF EraseAtStart, Serving, WorkerPlaces, TaskOK, PostsOK, queue
<1>3. WakeupOK'
  BY <1>2 DEF EraseAtStart, WorkerStep, WakeupOK, Away, WorkerPlaces
<1> QED  BY <1>1, <1>2, ByIdleWorker, <1>3

LEMMA StartedUp == ASSUME IInv, Started PROVE IInv'
<1> USE DEF IInv
<1>1. /\ WorkerStep /\ worker \notin Serving /\ worker' \in WorkerPlaces \ Serving
      /\ running' \in BOOLEAN /\ ok' \in BOOLEAN
      /\ UNCHANGED <<should_exit, serving, answered, work_q, work_queued>>
      /\ work_queued \in Nat
  BY DEF Started, Serving, WorkerPlaces, TaskOK, PostsOK, queue
<1>2. StoreOK' /\ AcknowledgedIsKept'
  BY DEF Started, WorkerStep, StoreOK, AcknowledgedIsKept
<1>3. WakeupOK'
  BY <1>1 DEF Started, WorkerStep, WakeupOK, Away, WorkerPlaces
<1> QED  BY <1>1, <1>2, ByIdleWorker, <1>3

LEMMA Left == ASSUME IInv, Leave PROVE IInv'
<1> USE DEF IInv
<1>1. /\ WorkerStep /\ worker \notin Serving /\ worker' \in WorkerPlaces \ Serving
      /\ running' \in BOOLEAN /\ ok' \in BOOLEAN
      /\ UNCHANGED <<should_exit, serving, answered, work_q, work_queued>>
      /\ work_queued \in Nat
  BY DEF Leave, Serving, WorkerPlaces, TaskOK, PostsOK, queue
<1>2. Empty \in [Sectors -> Content] /\ \A k \in Sectors : Empty[k] = Nothing
  BY DEF Empty, Content
<1>3. StoreOK' /\ AcknowledgedIsKept'
  BY <1>2 DEF Leave, WorkerStep, StoreOK, AcknowledgedIsKept
<1>4. WakeupOK'
  BY <1>1 DEF Leave, WakeupOK
<1> QED  BY <1>1, <1>3, ByIdleWorker, <1>4

\* _file_write() and the like: a write that succeeded goes on to be flushed.
LEMMA Served == ASSUME IInv, Serve PROVE IInv'
<1> USE DEF IInv
<1> DEFINE c == Head(work_q)
           op == call[c]
<1>1. /\ work_q \in Seq(Clients) /\ work_q # <<>>
      /\ work_q' = Tail(work_q) /\ serving' = c /\ worker = "working"
      /\ UNCHANGED <<on_disk, card, stopping, at, call, events, running,
                     should_exit, work_queued, answered>>
  BY DEF Serve, WorkerStep, QueueOK
<1>2. /\ c \in Clients /\ c = work_q[1] /\ 1 \in 1..Len(work_q)
      /\ Tail(work_q) \in Seq(Clients) /\ Len(Tail(work_q)) = Len(work_q) - 1
      /\ Len(work_q) \in Nat
      /\ \A i \in 1..Len(Tail(work_q)) :
            Tail(work_q)[i] = work_q[i + 1] /\ i + 1 \in 1..Len(work_q)
  BY <1>1, HeadTailProperties, LenProperties
<1>3. at[c] \in Queued /\ ~answered[c]
  BY <1>2 DEF QueueOK
<1>4. op \in Calls
  BY <1>2, <1>3 DEF CallsOK, Queued
<1>5. ok \in BOOLEAN /\ Perform(op) /\ Forget(Lost(op))
  BY DEF Serve, TaskOK
<1> HIDE DEF op, c
<1>6. StoreOK' /\ AcknowledgedIsKept'
  BY <1>1, <1>4, <1>5, PerformKeeps
<1>7. ok' \in BOOLEAN /\ (op.func = "write" /\ ok' => store'[op.key] = op.data)
  BY <1>4, <1>5, PerformTouches
<1>8. worker' = IF on_disk /\ Flushes(op) THEN "writing" ELSE "answering"
  BY DEF Serve, op, c
<1>9. worker' \in Serving
  BY <1>8 DEF Serving
<1>10. TaskOK'
  BY <1>1, <1>2, <1>7, <1>9 DEF TaskOK, Serving, WorkerPlaces
<1>11. CallsOK'
  BY <1>1, CallsKept DEF calls
<1>12. QueueOK'
  <2>1. \A i \in 1..Len(work_q') :
           work_q'[i] = work_q[i + 1] /\ i + 1 \in 1..Len(work_q) /\ i \in Nat
    BY <1>1, <1>2
  <2>2. \A i \in 1..Len(work_q') : work_q'[i] # c
    BY <1>2, <2>1 DEF QueueOK
  <2>3. \A i, j \in 1..Len(work_q') : work_q'[i] = work_q'[j] => i = j
    <3>1. ASSUME NEW i \in 1..Len(work_q'), NEW j \in 1..Len(work_q'),
                 work_q'[i] = work_q'[j]
          PROVE  i = j
      <4>1. i + 1 = j + 1
        BY <2>1, <3>1 DEF QueueOK
      <4> QED  BY <2>1, <4>1
    <3> QED  BY <3>1
  <2>4. \A i \in 1..Len(work_q') :
           at[work_q'[i]] \in Queued /\ ~answered[work_q'[i]]
    BY <2>1 DEF QueueOK
  <2> QED  BY <1>1, <1>2, <1>3, <2>2, <2>3, <2>4 DEF QueueOK
<1>13. PostsOK'
  BY <1>1, PostsKept DEF PostsOK
<1>14. ServedOK'
  <2>1. call'[serving'] = op
    BY <1>1 DEF op
  <2>2. op.func = "write" /\ ok' => Flushes(op)
    BY DEF Flushes
  <2>3. op.func = "write" /\ ok' /\ on_disk' => worker' = "writing"
    BY <1>1, <1>8, <2>2
  <2> QED  BY <1>7, <2>1, <2>3 DEF ServedOK, Done
<1>15. WakeupOK'
  BY <1>9 DEF WakeupOK, Away, Serving
<1> QED  BY <1>6, <1>10, <1>11, <1>12, <1>13, <1>14, <1>15

LEMMA Flushed == ASSUME IInv, Flush PROVE IInv'
<1> USE DEF IInv
<1>1. /\ worker = "writing" /\ worker' = "answering" /\ card' = store
      /\ UNCHANGED <<on_disk, store, stopping, at, call, events, running, ok,
                     should_exit, serving, work_q, work_queued, answered, acknowledged>>
  BY DEF Flush, WorkerStep, queue
<1>2. StoreOK' /\ AcknowledgedIsKept'
  BY <1>1 DEF StoreOK, AcknowledgedIsKept
<1>3. TaskOK'
  BY <1>1 DEF TaskOK, Serving, WorkerPlaces
<1>4. CallsOK' /\ QueueOK'
  BY <1>1, CallsKept, QueueKept DEF calls
<1>5. PostsOK'
  BY <1>1, PostsKept DEF PostsOK
<1>6. ServedOK'
  BY <1>1 DEF ServedOK, Done, Serving
<1>7. WakeupOK'
  BY <1>1 DEF WakeupOK, Away
<1> QED  BY <1>2, <1>3, <1>4, <1>5, <1>6, <1>7

\* A write is acknowledged when it is in the file and flushed.
LEMMA Answered == ASSUME IInv, Answer PROVE IInv'
<1> USE DEF IInv
<1> DEFINE op == call[serving]
<1>1. /\ worker = "answering" /\ worker' = "working" /\ serving' = Nothing /\ ok' = FALSE
      /\ answered' = [answered EXCEPT ![serving] = TRUE]
      /\ acknowledged' = IF op.func = "write" /\ ok
                         THEN [acknowledged EXCEPT ![op.key] = op.data] ELSE acknowledged
      /\ UNCHANGED <<on_disk, card, store, stopping, at, call, events, running,
                     should_exit, work_q, work_queued>>
  BY DEF Answer, WorkerStep, queue
<1>2. serving \in Clients /\ at[serving] \in Queued
  BY <1>1, NothingAssumption DEF TaskOK, Serving, QueueOK
<1>3. op \in Calls
  BY <1>2 DEF CallsOK, Queued
<1>4. Done(op)
  BY <1>1 DEF ServedOK, Serving
<1> HIDE DEF op
<1>5. StoreOK' /\ AcknowledgedIsKept'
  <2>1. CASE op.func = "write" /\ ok
    <3>1. op.key \in Sectors /\ op.data \in Content
      BY <1>3, <2>1, CallKinds DEF Content
    <3>2. store[op.key] = op.data /\ (on_disk => card[op.key] = op.data)
      BY <1>1, <1>4, <2>1 DEF Done
    <3>3. /\ acknowledged' \in [Sectors -> Content]
          /\ acknowledged'[op.key] = op.data
          /\ \A k \in Sectors \ {op.key} : acknowledged'[k] = acknowledged[k]
      BY <1>1, <2>1, <3>1 DEF StoreOK
    <3> QED  BY <1>1, <3>1, <3>2, <3>3 DEF StoreOK, AcknowledgedIsKept
  <2>2. CASE ~(op.func = "write" /\ ok)
    BY <1>1, <2>2, StoreKept DEF storage
  <2> QED  BY <2>1, <2>2
<1>6. TaskOK' /\ ServedOK'
  BY <1>1, NotServing DEF Serving, WorkerPlaces, TaskOK
<1>7. CallsOK'
  <2>1. at[serving] # "entered"
    BY <1>2 DEF Queued
  <2> QED  BY <1>1, <1>2, <2>1 DEF CallsOK
<1>8. QueueOK'
  <2>1. \A i \in 1..Len(work_q) : work_q[i] \in Clients /\ work_q[i] # serving
    BY DEF QueueOK
  <2>2. \A i \in 1..Len(work_q) : answered'[work_q[i]] = answered[work_q[i]]
    BY <1>1, <2>1 DEF CallsOK
  <2>3. \A i \in 1..Len(work_q) : work_q[i] # Nothing
    BY <2>1, NothingAssumption
  <2> QED  BY <1>1, <2>2, <2>3 DEF QueueOK
<1>9. PostsOK'
  BY <1>1, PostsKept DEF PostsOK
<1>10. WakeupOK'
  BY <1>1 DEF WakeupOK, Away
<1> QED  BY <1>5, <1>6, <1>7, <1>8, <1>9, <1>10
-------------------------------------------------------------------------------
(***************************************************************************)
(* Start, stop and power.                                                  *)
(***************************************************************************)
LEMMA EmptyQueue ==
  ASSUME work_q' = <<>>, serving' = Nothing PROVE QueueOK'
  BY DEF QueueOK

LEMMA EmptyStore ==
  Empty \in [Sectors -> Content] /\ \A k \in Sectors : Empty[k] = Nothing
  BY DEF Empty, Content

LEMMA StartsAgain == ASSUME IInv, Start PROVE IInv'
<1> USE DEF IInv
<1>1. /\ worker = "none" /\ worker' = "starting" /\ should_exit' = FALSE
      /\ work_q' = <<>> /\ work_queued' = 0
      /\ UNCHANGED <<on_disk, running, stopping, serving, ok, calls, events>>
  BY DEF Start
<1>2. StoreOK' /\ AcknowledgedIsKept'
  BY EmptyStore DEF Start, StoreOK, AcknowledgedIsKept
<1>3. serving = Nothing
  BY <1>1 DEF TaskOK, Serving
<1>4. TaskOK' /\ ServedOK'
  BY <1>1, <1>3, NotServing DEF TaskOK, Serving, WorkerPlaces
<1>5. CallsOK' /\ QueueOK'
  BY <1>1, <1>3, CallsKept, EmptyQueue
<1>6. PostsOK'
  BY <1>1, PostsKept DEF PostsOK, calls
<1>7. WakeupOK'
  BY <1>1 DEF WakeupOK
<1> QED  BY <1>2, <1>4, <1>5, <1>6, <1>7

LEMMA Stopped == ASSUME IInv, Stop \/ StopWakes PROVE IInv'
<1> USE DEF IInv
<1>1. UNCHANGED <<storage, running, task, work_q, calls, acknowledged>>
  BY DEF Stop, StopWakes, queue
<1>2. StoreOK' /\ AcknowledgedIsKept'
  BY <1>1, StoreKept
<1>3. should_exit' \in BOOLEAN /\ stopping' \in BOOLEAN
  BY DEF Stop, StopWakes, TaskOK
<1>4. TaskOK' /\ ServedOK'
  BY <1>1, <1>3 DEF TaskOK, ServedOK, Done, task, storage, calls
<1>5. CallsOK' /\ QueueOK'
  BY <1>1, CallsKept, QueueKept DEF task, calls
<1>6. PostsOK'
  <2>1. Untold' = Untold
    BY <1>1, UntoldKept DEF calls
  <2>2. Cardinality(Untold) \in Nat /\ work_queued \in Nat /\ events \in Nat
    BY FS_CardinalityType, BoundAssumption DEF PostsOK
  <2>3. CASE Stop
    <3>1. /\ StopsToPost = 0 /\ StopsToPost' = 1 /\ work_queued' = work_queued
          /\ events' = events + 1 /\ events < MaxEvents
      BY <2>3 DEF Stop, StopsToPost, Happens, queue
    <3> QED  BY <2>1, <2>2, <3>1, BoundAssumption DEF PostsOK
  <2>4. CASE StopWakes
    <3>1. /\ StopsToPost = 1 /\ StopsToPost' = 0 /\ work_queued' = work_queued + 1
          /\ events' = events
      BY <2>4 DEF StopWakes, StopsToPost
    <3> QED  BY <2>1, <2>2, <3>1 DEF PostsOK
  <2> QED  BY <2>3, <2>4
<1>7. WakeupOK'
  <2>1. UNCHANGED <<worker, work_q, at>>
    BY <1>1 DEF task, calls
  <2>2. CASE Stop
    BY <2>1, <2>2 DEF Stop, WakeupOK, queue
  <2>3. CASE StopWakes
    <3>1. work_queued' > 0
      BY <2>3 DEF StopWakes, PostsOK
    <3> QED  BY <3>1 DEF WakeupOK
  <2> QED  BY <2>2, <2>3
<1> QED  BY <1>2, <1>4, <1>5, <1>6, <1>7

\* Nobody is in a call.
LEMMA NoCalls ==
  ASSUME at' = [c \in Clients |-> "out"], call' = [c \in Clients |-> NoCall],
         answered' = [c \in Clients |-> FALSE]
  PROVE  CallsOK' /\ Untold' = {}
  BY DEF CallsOK, Untold

\* Of each sector the card keeps what was flushed, or what was last written:
\* both are what was acknowledged.
LEMMA PowerFailed == ASSUME IInv, PowerFails PROVE IInv'
<1> USE DEF IInv
<1>1. /\ running' = FALSE /\ should_exit' = FALSE /\ stopping' = FALSE
      /\ worker' = "none" /\ serving' = Nothing /\ ok' = FALSE
      /\ work_q' = <<>> /\ work_queued' = 0
      /\ at' = [c \in Clients |-> "out"]
      /\ call' = [c \in Clients |-> NoCall]
      /\ answered' = [c \in Clients |-> FALSE]
      /\ store' = card' /\ UNCHANGED on_disk /\ Happens
  BY DEF PowerFails
<1>2. StoreOK' /\ AcknowledgedIsKept'
  <2>1. CASE on_disk
    <3>1. PICK flushed \in SUBSET Sectors :
             card' = [k \in Sectors |-> IF k \in flushed THEN store[k] ELSE card[k]]
      BY <2>1 DEF PowerFails
    <3>2. UNCHANGED acknowledged
      BY <2>1 DEF PowerFails
    <3> QED  BY <1>1, <2>1, <3>1, <3>2 DEF StoreOK, AcknowledgedIsKept
  <2>2. CASE ~on_disk
    <3>1. card' = card /\ acknowledged' = Empty
      BY <2>2 DEF PowerFails
    <3> QED  BY <1>1, <2>2, <3>1, EmptyStore DEF StoreOK, AcknowledgedIsKept
  <2> QED  BY <2>1, <2>2
<1>3. TaskOK' /\ ServedOK'
  BY <1>1 DEF TaskOK, ServedOK, Serving, WorkerPlaces
<1>4. CallsOK' /\ QueueOK' /\ Untold' = {}
  BY <1>1, NoCalls, EmptyQueue
<1>5. PostsOK'
  <2>1. IsFiniteSet(Untold') /\ Cardinality(Untold') = 0
    BY <1>4, FS_EmptySet
  <2>2. StopsToPost' = 0
    BY <1>1 DEF StopsToPost
  <2> QED  BY <1>1, <2>1, <2>2, BoundAssumption DEF PostsOK, Happens
<1>6. WakeupOK'
  BY <1>1 DEF WakeupOK
<1> QED  BY <1>2, <1>3, <1>4, <1>5, <1>6

-------------------------------------------------------------------------------
LEMMA Initially == Init => IInv
<1> SUFFICES ASSUME Init PROVE IInv
  OBVIOUS
<1>1. StoreOK /\ AcknowledgedIsKept
  BY EmptyStore DEF Init, StoreOK, AcknowledgedIsKept
<1>2. TaskOK /\ ServedOK /\ QueueOK /\ WakeupOK
  <2>1. work_q = <<>> /\ serving = Nothing /\ worker = "none" /\ should_exit = FALSE
    BY DEF Init
  <2>2. QueueOK
    BY <2>1 DEF QueueOK
  <2>3. WakeupOK
    BY <2>1 DEF WakeupOK
  <2>4. TaskOK /\ ServedOK
    BY <2>1 DEF Init, TaskOK, ServedOK, Serving, WorkerPlaces
  <2> QED  BY <2>2, <2>3, <2>4
<1>3. CallsOK /\ Untold = {}
  BY DEF Init, CallsOK, Untold
<1>4. PostsOK
  BY <1>3, FS_EmptySet, BoundAssumption DEF Init, PostsOK, StopsToPost
<1> QED  BY <1>1, <1>2, <1>3, <1>4 DEF IInv

LEMMA Step == IInv /\ [Next]_vars => IInv'
<1> SUFFICES ASSUME IInv, [Next]_vars PROVE IInv'
  OBVIOUS
<1>1. CASE Worker
  BY <1>1, Erased, StartedUp, Waiting, Served, Flushed, Answered, Left DEF Worker
<1>2. ASSUME NEW c \in Clients, Client(c) \/ \E op \in Calls : Enter(c, op)
      PROVE  IInv'
  BY <1>2, Entered, Enqueued, Told, Returned DEF Client
<1>3. CASE UNCHANGED vars
  <2>1. StoreOK' /\ AcknowledgedIsKept'
    BY <1>3, StoreKept DEF IInv, vars
  <2>2. CallsOK' /\ QueueOK'
    BY <1>3, CallsKept, QueueKept DEF IInv, vars, task, queue, calls
  <2>3. PostsOK'
    BY <1>3, PostsKept DEF IInv, PostsOK, vars, state, queue, calls
  <2>4. TaskOK' /\ ServedOK' /\ WakeupOK'
    BY <1>3
       DEF IInv, TaskOK, ServedOK, Done, WakeupOK, vars, state, task, queue,
           calls, storage
  <2> QED  BY <2>1, <2>2, <2>3, <2>4 DEF IInv
<1> QED
  BY <1>1, <1>2, <1>3, StartsAgain, Stopped, PowerFailed DEF Next

\* The inductive invariant of the data manager: the place of every work item,
\* the posts of the worker's semaphore, and what is in the store, on the card
\* and acknowledged.
THEOREM Invariance == Spec => []IInv
  BY Initially, Step, PTL DEF Spec

\* Work items and semaphore keep their places and their range through calls,
\* stops, restarts of the task and power failures (dm_write() and the like,
\* task_main(), stop()).
THEOREM TypeCorrect == Spec => []TypeOK
<1>1. IInv => TypeOK
  <2> SUFFICES ASSUME IInv PROVE TypeOK
    OBVIOUS
  <2> USE DEF IInv
  <2>1. /\ {on_disk, running, should_exit, stopping, ok} \subseteq BOOLEAN
        /\ {card, store, acknowledged} \subseteq [Sectors -> Data \cup {Nothing}]
    BY DEF StoreOK, TaskOK, Content
  <2>2. /\ worker \in WorkerPlaces
        /\ IF worker \in {"writing", "answering"}
              THEN serving \in Clients ELSE serving = Nothing
    BY DEF TaskOK, Serving
  <2>3. work_queued \in 0..MaxEvents
    <3>1. Cardinality(Untold) \in Nat /\ StopsToPost \in Nat
      BY FS_CardinalityType DEF PostsOK, StopsToPost
    <3> QED  BY <3>1, BoundAssumption DEF PostsOK
  <2>4. work_q \in Seq(Clients) /\ DOMAIN work_q = 1..Len(work_q)
    BY LenProperties DEF QueueOK
  <2>5. IsInjective(work_q)
    BY <2>4 DEF QueueOK, IsInjective
  <2>6. \A c \in Range(work_q) \cup ({serving} \ {Nothing}) :
           at[c] \in {"enqueued", "waiting"} /\ ~answered[c]
    BY <2>4 DEF QueueOK, Range, Queued
  <2>7. serving \notin Range(work_q)
    BY <2>4 DEF QueueOK, Range
  <2> QED
    BY <2>1, <2>2, <2>3, <2>5, <2>6, <2>7 DEF TypeOK, CallsOK, WorkerPlaces
<1> QED  BY <1>1, Invariance, PTL

\* An acknowledged write is what reads return, and on a card it outlives power
\* failures and the resets it is to survive (_file_write(), _file_restart(),
\* task_main()), whatever the sectors, data and callers.
THEOREM Durability == Spec => []AcknowledgedIsKept
<1>1. IInv => AcknowledgedIsKept
  BY DEF IInv
<1> QED  BY <1>1, Invariance, PTL

\* The worker never waits for a post nobody is going to make while a caller
\* waits for its item or the task is to stop (dm_write(), stop(), task_main()):
\* the part of the answers' liveness that is a safety property.
THEOREM Wakeful == Spec => []NeverWaitsWithWork
<1>1. IInv => NeverWaitsWithWork
  <2> SUFFICES ASSUME IInv, worker = "awaiting", work_queued = 0
               PROVE  /\ \A i \in 1..Len(work_q) : at[work_q[i]] = "enqueued"
                      /\ should_exit => stopping
    BY DEF NeverWaitsWithWork
  <2>1. worker \in Away
    BY DEF Away, WorkerPlaces
  <2>2. \A i \in 1..Len(work_q) : at[work_q[i]] \in {"enqueued", "waiting"}
    BY DEF IInv, QueueOK, Queued
  <2> QED  BY <2>1, <2>2 DEF IInv, WakeupOK
<1> QED  BY <1>1, Invariance, PTL

-------------------------------------------------------------------------------
(***************************************************************************)
(* The data manager implements DurableStore.                               *)
(***************************************************************************)
\* Where one client is for the abstract store.
LEMMA PhaseOf ==
  ASSUME NEW c \in Clients
  PROVE  /\ at[c] = "out" => Phase[c] = "out"
         /\ at[c] # "out" /\ answered[c] => Phase[c] = "answered"
         /\ at[c] # "out" /\ ~answered[c] /\ c = serving => Phase[c] = "done"
         /\ at[c] # "out" /\ ~answered[c] /\ c # serving => Phase[c] = "asked"
  BY DEF Phase

\* A client that stays as it was stays where it is.
LEMMA PhaseKept ==
  ASSUME NEW c \in Clients,
         (at[c] = "out") <=> (at'[c] = "out"), answered'[c] <=> answered[c],
         (c = serving) <=> (c = serving')
  PROVE  Phase'[c] = Phase[c]
  BY DEF Phase

\* At most one client moves.
LEMMA PhaseMoves ==
  ASSUME NEW c \in Clients, NEW p, Phase'[c] = p,
         \A d \in Clients \ {c} : Phase'[d] = Phase[d]
  PROVE  Phase' = [Phase EXCEPT ![c] = p]
<1>1. Phase = [d \in Clients |-> Phase[d]] /\ Phase' = [d \in Clients |-> Phase'[d]]
  BY DEF Phase
<1> HIDE DEF Phase
<1>2. DOMAIN Phase = Clients /\ DOMAIN Phase' = Clients
  BY <1>1
<1> QED  BY <1>1, <1>2

LEMMA PhaseStays ==
  ASSUME \A c \in Clients : Phase'[c] = Phase[c]
  PROVE  Phase' = Phase
<1>1. Phase = [d \in Clients |-> Phase[d]] /\ Phase' = [d \in Clients |-> Phase'[d]]
  BY DEF Phase
<1> HIDE DEF Phase
<1> QED  BY <1>1

\* Nothing the clients are promised changes.
LEMMA Hidden ==
  ASSUME UNCHANGED <<on_disk, store, acknowledged, call>>, Phase' = Phase
  PROVE  UNCHANGED Store!vars
  BY DEF Store!vars

\* What a call may touch is what it may change by DurableStore, ...
LEMMA TouchedIsChanged ==
  ASSUME StoreOK, NEW op \in Calls, op.func # "write"
  PROVE  /\ Touched(op) = Store!Changed(store, op)
         /\ Lost(op) = Store!Changed(acknowledged, op)
<1>1. CASE op.func = "read"
  BY <1>1 DEF Touched, Lost, Store!Changed
<1>2. CASE op.func = "clear"
  BY <1>2 DEF Touched, Lost, Store!Changed
<1>3. CASE op.func = "restart"
  <2>1. op.reason \in {POWER_ON, IN_FLIGHT}
    BY <1>3, CallKinds
  <2>2. ASSUME NEW data
        PROVE  Survives(data, op.reason) <=> Store!Survives(data, op.reason)
    BY DEF Survives, Store!Survives, IN_FLIGHT
  <2>3. \A k \in Sectors : Clears(store[k], op.reason) <=> ~Store!Survives(store[k], op.reason)
    BY <2>1, <2>2, ContentOf, ErasesWhatIsLost DEF Content
  <2>4. /\ Touched(op) = {k \in Sectors : Clears(store[k], op.reason)}
        /\ Lost(op) = {k \in Sectors : ~Survives(acknowledged[k], op.reason)}
    BY <1>3 DEF Touched, Lost
  <2>5. ASSUME NEW values
        PROVE  Store!Changed(values, op)
                  = {k \in Sectors : ~Store!Survives(values[k], op.reason)}
    BY <1>3 DEF Store!Changed
  <2> QED  BY <2>2, <2>3, <2>4, <2>5
<1> QED  BY <1>1, <1>2, <1>3, CallKinds

\* ... and it erases some of that.
LEMMA PerformErases ==
  ASSUME StoreOK, NEW op \in Calls, op.func # "write",
         Perform(op), Forget(Lost(op))
  PROVE  Store!Erase(op)
<1>1. acknowledged' = Store!Without(acknowledged, Store!Changed(acknowledged, op))
  BY TouchedIsChanged DEF Forget, Store!Without
<1>2. \E keys \in SUBSET Store!Changed(store, op) : store' = Store!Without(store, keys)
  <2>1. CASE op.func = "read"
    <3>1. store' = store
      BY <2>1 DEF Perform
    <3>2. Store!Without(store, {}) = [k \in Sectors |-> store[k]]
      BY DEF Store!Without
    <3>3. store = [k \in Sectors |-> store[k]]
      BY DEF StoreOK
    <3> QED  BY <3>1, <3>2, <3>3
  <2>2. CASE op.func \in {"clear", "restart"}
    <3>1. PICK n : store' = ClearedUpTo(n, Touched(op))
      BY <2>2 DEF Perform, Clear
    <3> DEFINE keys == {k \in Touched(op) : \E i \in 1..n : Keys[i] = k}
    <3>2. store' = Store!Without(store, keys)
      BY <3>1 DEF ClearedUpTo, Store!Without
    <3>3. keys \in SUBSET Store!Changed(store, op)
      BY TouchedIsChanged
    <3> QED  BY <3>2, <3>3
  <2> QED  BY <2>1, <2>2, CallKinds
<1> QED  BY <1>1, <1>2 DEF Store!Erase

LEMMA StoreForgets ==
  ASSUME UNCHANGED <<on_disk, call>>, Phase' = Phase, store' = Empty, acknowledged' = Empty
  PROVE  Store!Begin
  BY DEF Store!Begin, Store!Empty, Empty

LEMMA ClientStepMaps ==
  ASSUME IInv, NEW c \in Clients, Client(c) \/ \E op \in Calls : Enter(c, op)
  PROVE  Store!Next \/ UNCHANGED Store!vars
<1> USE DEF IInv, CallsOK
<1>1. UNCHANGED <<on_disk, store, acknowledged, serving>>
  BY DEF Client, Enqueue, Tell, Return, Enter, ClientStep, storage, task
\* The other clients stay where they are.
<1>2. \A d \in Clients \ {c} : Phase'[d] = Phase[d]
  <2>1. ASSUME NEW d \in Clients \ {c}
        PROVE  at'[d] = at[d] /\ answered'[d] = answered[d]
    BY <2>1 DEF Client, Enqueue, Tell, Return, Enter
  <2> QED  BY <1>1, <2>1, PhaseKept
<1>3. ASSUME NEW op \in Calls, Enter(c, op) PROVE Store!Ask(c, op)
  <2>1. /\ at[c] = "out" /\ at'[c] = "entered" /\ ~answered'[c]
        /\ call' = [call EXCEPT ![c] = op]
    BY <1>3 DEF Enter
  <2>2. c # serving'
    BY <1>1, <2>1, NothingAssumption DEF QueueOK, Queued
  <2>3. Phase[c] = "out" /\ Phase'[c] = "asked"
    BY <2>1, <2>2 DEF Phase
  <2>4. Phase' = [Phase EXCEPT ![c] = "asked"]
    BY <1>2, <2>3, PhaseMoves
  <2> QED  BY <1>1, <2>1, <2>3, <2>4 DEF Store!Ask
<1>4. ASSUME Enqueue(c) \/ Tell(c) PROVE UNCHANGED Store!vars
  <2>1. /\ at[c] # "out" /\ at'[c] # "out" /\ answered'[c] = answered[c]
        /\ call' = call
    BY <1>4 DEF Enqueue, Tell
  <2>2. Phase'[c] = Phase[c]
    BY <1>1, <2>1, PhaseKept
  <2>3. Phase' = Phase
    BY <1>2, <2>2, PhaseStays
  <2> QED  BY <1>1, <2>1, <2>3, Hidden
<1>5. ASSUME Return(c) PROVE Store!Return(c)
  <2>1. /\ at[c] = "waiting" /\ answered[c] /\ at'[c] = "out"
        /\ call' = [call EXCEPT ![c] = NoCall]
    BY <1>5 DEF Return
  <2>2. Phase[c] = "answered" /\ Phase'[c] = "out"
    BY <2>1 DEF Phase
  <2>3. Phase' = [Phase EXCEPT ![c] = "out"]
    BY <1>2, <2>2, PhaseMoves
  <2> QED  BY <1>1, <2>1, <2>2, <2>3 DEF Store!Return
<1>6. CASE Client(c)
  BY <1>4, <1>5, <1>6 DEF Client, Store!Next
<1>7. CASE \E op \in Calls : Enter(c, op)
  BY <1>3, <1>7 DEF Store!Next
<1> QED  BY <1>6, <1>7

LEMMA ServeMaps ==
  ASSUME IInv, Serve PROVE \E c \in Clients : Store!Perform(c)
<1> USE DEF IInv
<1> DEFINE c == Head(work_q)
           op == call[c]
<1>1. /\ work_q \in Seq(Clients) /\ work_q # <<>> /\ serving' = c
      /\ Perform(op) /\ Forget(Lost(op))
      /\ UNCHANGED <<on_disk, at, call, answered>> /\ worker = "working"
  BY DEF Serve, WorkerStep, QueueOK
<1>2. c = work_q[1] /\ 1 \in 1..Len(work_q) /\ c \in Clients
  BY <1>1
<1>3. at[c] \in Queued /\ ~answered[c] /\ serving = Nothing
  BY <1>1, <1>2 DEF QueueOK, TaskOK, Serving
<1> HIDE DEF c
<1>4. op \in Calls
  BY <1>2, <1>3 DEF CallsOK, Queued
<1>5. Phase[c] = "asked" /\ Phase'[c] = "done"
  BY <1>1, <1>2, <1>3, NothingAssumption DEF Phase, Queued
<1>6. ASSUME NEW d \in Clients \ {c} PROVE Phase'[d] = Phase[d]
  <2>1. d # serving /\ d # serving'
    BY <1>1, <1>3, NothingAssumption
  <2> QED  BY <1>1, <2>1, PhaseKept
<1>7. Phase' = [Phase EXCEPT ![c] = "done"]
  BY <1>2, <1>5, <1>6, PhaseMoves
<1>8. CASE op.func = "write"
  <2>1. Lost(op) = {op.key}
    BY <1>8 DEF Lost, Touched
  <2>2. acknowledged' = Store!Without(acknowledged, {op.key})
    BY <1>1, <2>1 DEF Forget, Store!Without
  <2>3. store' \in {store, [store EXCEPT ![op.key] = op.data]}
    BY <1>1, <1>8 DEF Perform, Write
  <2> QED  BY <1>1, <1>2, <1>5, <1>7, <1>8, <2>2, <2>3 DEF Store!Perform
<1>9. CASE op.func # "write"
  <2>1. Store!Erase(op)
    BY <1>1, <1>4, <1>9, PerformErases
  <2> QED  BY <1>1, <1>2, <1>5, <1>7, <1>9, <2>1 DEF Store!Perform
<1> QED  BY <1>8, <1>9

LEMMA AnswerMaps ==
  ASSUME IInv, Answer PROVE \E c \in Clients : Store!Answer(c)
<1> USE DEF IInv
<1> DEFINE c == serving
           op == call[c]
<1>1. /\ c \in Clients /\ worker = "answering" /\ serving' = Nothing
      /\ UNCHANGED <<on_disk, at, call, store>>
      /\ answered' = [answered EXCEPT ![c] = TRUE]
      /\ acknowledged' = IF op.func = "write" /\ ok
                         THEN [acknowledged EXCEPT ![op.key] = op.data]
                         ELSE acknowledged
  BY DEF Answer, WorkerStep, TaskOK, Serving
<1>2. at[c] \in Queued /\ ~answered[c] /\ answered'[c]
  BY <1>1, NothingAssumption DEF QueueOK, CallsOK
<1>3. op.func = "write" /\ ok => store[op.key] = op.data
  BY <1>1 DEF ServedOK, Serving, Done
<1>4. Phase[c] = "done" /\ Phase'[c] = "answered"
  BY <1>1, <1>2 DEF Phase, Queued
<1>5. ASSUME NEW d \in Clients \ {c} PROVE Phase'[d] = Phase[d]
  <2>1. /\ d # serving /\ d # serving'
        /\ at'[d] = at[d] /\ answered'[d] = answered[d]
    BY <1>1, NothingAssumption DEF CallsOK
  <2> QED  BY <2>1, PhaseKept
<1>6. Phase' = [Phase EXCEPT ![c] = "answered"]
  BY <1>1, <1>4, <1>5, PhaseMoves
<1>7. CASE op.func = "write" /\ ok
  BY <1>1, <1>3, <1>4, <1>6, <1>7 DEF Store!Answer
<1>8. CASE ~(op.func = "write" /\ ok)
  BY <1>1, <1>4, <1>6, <1>8 DEF Store!Answer
<1> QED  BY <1>7, <1>8

\* The other steps of the worker, the starts and the stops.
LEMMA TaskStepMaps ==
  ASSUME IInv, \/ Start \/ Stop \/ StopWakes
               \/ EraseAtStart \/ Started \/ AwaitWork \/ Awake \/ Close
               \/ Flush \/ GoRound \/ Leave
  PROVE  Store!Begin \/ UNCHANGED Store!vars
<1> USE DEF IInv
<1>1. UNCHANGED <<on_disk, at, call, answered, serving>>
  BY DEF Start, Stop, StopWakes, EraseAtStart, Started, AwaitWork, Awake, Close,
         Flush, GoRound, Leave, WorkerStep, storage, task, calls
<1>2. Phase' = Phase
  BY <1>1 DEF Phase
<1>3. CASE UNCHANGED <<store, acknowledged>>
  BY <1>1, <1>2, <1>3, Hidden
<1>4. CASE store' = Empty /\ acknowledged' = Empty
  BY <1>1, <1>2, <1>4, StoreForgets
<1>5. CASE EraseAtStart
  <2>1. ASSUME NEW reason \in {POWER_ON, IN_FLIGHT},
               Perform([func |-> "restart", reason |-> reason]),
               Forget(Lost([func |-> "restart", reason |-> reason]))
        PROVE  Store!Begin
    <3> DEFINE op == [func |-> "restart", reason |-> reason]
    <3>1. op \in Calls /\ op.func # "write"
      BY DEF Calls
    <3>2. Store!Erase(op)
      BY <2>1, <3>1, PerformErases
    <3>3. reason \in 0..1
      BY DEF POWER_ON, IN_FLIGHT
    <3> QED  BY <1>1, <1>2, <3>2, <3>3 DEF Store!Begin
  <2> QED  BY <1>3, <1>5, <2>1 DEF EraseAtStart
<1>6. \/ UNCHANGED <<store, acknowledged>>
      \/ store' = Empty /\ acknowledged' = Empty
      \/ EraseAtStart
  BY DEF Start, Stop, StopWakes, Started, AwaitWork, Awake, Close,
         Flush, GoRound, Leave, WorkerStep, storage
<1> QED  BY <1>3, <1>4, <1>5, <1>6

LEMMA PowerFailureMaps ==
  ASSUME IInv, IInv', PowerFails PROVE Store!PowerFails
<1>1. /\ on_disk' = on_disk /\ call' = [c \in Clients |-> NoCall]
      /\ at' = [c \in Clients |-> "out"]
      /\ acknowledged' = IF on_disk THEN acknowledged ELSE Empty
  BY DEF PowerFails
<1>2. Phase' = [c \in Clients |-> "out"]
  BY <1>1 DEF Phase
<1>3. store' \in [Sectors -> Data \cup {Nothing}]
  BY DEF IInv, StoreOK, Content
<1>4. \A k \in Sectors : acknowledged'[k] # Nothing => store'[k] = acknowledged'[k]
  BY DEF IInv, AcknowledgedIsKept
<1> QED  BY <1>1, <1>2, <1>3, <1>4 DEF Store!PowerFails, Store!Empty, Empty

\* Each call takes effect once, in one step between its begin and its answer,
\* and an answered write stays until it may be changed, through stops, restarts
\* and power failures (dm_write(), dm_read(), dm_clear(), dm_restart(),
\* task_main()): the data manager implements DurableStore.
THEOREM Implementation == Spec => ImplementsStore
<1>1. Init => Store!Init
  <2> SUFFICES ASSUME Init PROVE Store!Init
    OBVIOUS
  <2>1. Phase = [c \in Clients |-> "out"]
    BY DEF Init, Phase
  <2> QED  BY <2>1 DEF Init, Store!Init, Empty, Store!Empty
<1>2. IInv /\ IInv' /\ [Next]_vars => [Store!Next]_(Store!vars)
  <2> SUFFICES ASSUME IInv, IInv', [Next]_vars
               PROVE  Store!Next \/ UNCHANGED Store!vars
    OBVIOUS
  <2>1. CASE \E c \in Clients : Client(c) \/ \E op \in Calls : Enter(c, op)
    BY <2>1, ClientStepMaps
  <2>2. CASE Serve
    BY <2>2, ServeMaps DEF Store!Next
  <2>3. CASE Answer
    BY <2>3, AnswerMaps DEF Store!Next
  <2>4. CASE \/ Start \/ Stop \/ StopWakes
             \/ EraseAtStart \/ Started \/ AwaitWork \/ Awake \/ Close
             \/ Flush \/ GoRound \/ Leave
    BY <2>4, TaskStepMaps DEF Store!Next
  <2>5. CASE PowerFails
    BY <2>5, PowerFailureMaps DEF Store!Next
  <2>6. CASE UNCHANGED vars
    <3>1. UNCHANGED <<on_disk, store, acknowledged, at, call, answered, serving>>
      BY <2>6 DEF vars, storage, task, calls
    <3>2. Phase' = Phase
      BY <3>1 DEF Phase
    <3> QED  BY <3>1, <3>2, Hidden
  <2> QED  BY <2>1, <2>2, <2>3, <2>4, <2>5, <2>6 DEF Next, Worker
<1> QED  BY <1>1, <1>2, Invariance, PTL DEF Spec, ImplementsStore, Store!Spec
===============================================================================
