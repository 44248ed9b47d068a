-------------------------- MODULE AA241xTaskProofs ---------------------------
(***************************************************************************)
(* Proofs about start and stop, for any number of addresses, identifiers   *)
(* and polls.  OneTaskPerObject speaks of the moments between commands; it *)
(* is made inductive by saying, for every point of a command, where the    *)
(* task of the current object can be (Phase).                              *)
(***************************************************************************)
EXTENDS AA241xTask, TLAPS

\* Task k is in one of the given states and works on the current object (if
\* it has looked it up); every other task is gone or about to be.
Worker(k, states) ==
    /\ k \in Tasks
    /\ task[k].state \in states
    /\ task[k].state # "created" => task[k].this = g
    /\ \A j \in Tasks \ {k} : task[j].state \in {"none", "leaving"}

Quiet == \A k \in Tasks : task[k].state \in {"none", "leaving"}

\* The task of an object that is being started: nobody has asked it to exit,
\* and the object says that it is running only if it is.
Starting(k) ==
    /\ Worker(k, {"created", "entered", "loop"})
    /\ obj[g]._task_running => task[k].state = "loop"
    /\ ~obj[g]._task_should_exit

\* The current object is there, and what it and its task are up to at every
\* point of a command.
Phase ==
    /\ g = Null => shell.state = "idle" /\ Quiet
    /\ g # Null =>
        /\ g \in Objects /\ obj[g].live
        /\ shell.state = "idle" =>
              /\ Worker(obj[g]._control_task, {"loop"})
              /\ ~obj[g]._task_should_exit
        /\ shell.state = "spawn" =>
              /\ Quiet
              /\ obj[g]._control_task = Null
              /\ ~obj[g]._task_running
              /\ ~obj[g]._task_should_exit
        /\ shell.state = "store" => Starting(shell.spawned)
        /\ shell.state = "wait" => Starting(obj[g]._control_task)
        /\ shell.state = "delete" =>
              \/ obj[g]._control_task = Null /\ Quiet
              \/ /\ Worker(obj[g]._control_task, {"loop"})
                 /\ ~obj[g]._task_should_exit
        /\ shell.state = "poll" =>
              \/ obj[g]._control_task = Null /\ Quiet
              \/ Worker(obj[g]._control_task, {"loop", "exiting"})
        /\ shell.state = "free" => Quiet

\* With a task above the shell, whoever is leaving leaves the current object,
\* under the destructor's eyes.
LeavesInTime ==
    above => \A k \in Tasks :
        task[k].state = "leaving" =>
            /\ g # Null
            /\ task[k].this = g
            /\ shell.state = "poll"

IInv == TypeOK /\ Phase /\ LeavesInTime

USE TriesAssumption, NullAssumption

LEMMA Initially == Init => IInv
BY DEF Init, IInv, TypeOK, Phase, LeavesInTime, Quiet, NoTask, Idle, Construct,
       Fields, TaskStates, ShellStates

\* A store to one field of one object.
LEMMA FieldStore ==
    ASSUME NEW o \in [Objects -> Fields], NEW n \in Objects,
           NEW b \in BOOLEAN, NEW k \in Tasks \cup {Null}
    PROVE  /\ [o EXCEPT ![n].live = b] \in [Objects -> Fields]
           /\ [o EXCEPT ![n]._task_running = b] \in [Objects -> Fields]
           /\ [o EXCEPT ![n]._task_should_exit = b] \in [Objects -> Fields]
           /\ [o EXCEPT ![n]._control_task = k] \in [Objects -> Fields]
<1>1. \A r \in Fields : /\ [r EXCEPT !.live = b] \in Fields
                        /\ [r EXCEPT !._task_running = b] \in Fields
                        /\ [r EXCEPT !._task_should_exit = b] \in Fields
                        /\ [r EXCEPT !._control_task = k] \in Fields
  BY DEF Fields
<1> QED
  BY <1>1

LEMMA ShellKeepsType == ASSUME TypeOK, Phase, ShellNext PROVE TypeOK'
<1> USE DEF TypeOK, ShellAt, Goto, TaskStates, ShellStates
<1>0. shell.state # "idle" => g \in Objects
  BY DEF Phase
<1>10. UNCHANGED above
  BY DEF ShellNext
<1>1. CASE StartNew BY <1>1, <1>10 DEF StartNew, Construct, Fields
<1>2. CASE Spawn BY <1>2, <1>10 DEF Spawn
<1>3. CASE SpawnFail BY <1>3, <1>10 DEF SpawnFail
<1>4. CASE StoreHandle
  <2>1. obj' \in [Objects -> Fields]
    BY <1>0, <1>4, FieldStore DEF StoreHandle
  <2> QED
    BY <1>4, <1>10, <2>1 DEF StoreHandle
<1>5. CASE Wait BY <1>5, <1>10 DEF Wait, Idle
<1>6. CASE Stop BY <1>6, <1>10 DEF Stop
<1>7. CASE Delete
  <2>1. obj' \in [Objects -> Fields]
    <3>1. \/ obj' = [obj EXCEPT ![g]._task_should_exit = TRUE]
          \/ UNCHANGED obj
      BY <1>7 DEF Delete
    <3>2. g \in Objects
      BY <1>0, <1>7 DEF Delete
    <3>3. [obj EXCEPT ![g]._task_should_exit = TRUE] \in [Objects -> Fields]
      BY <3>2, FieldStore
    <3> QED
      BY <3>1, <3>3
  <2>2. shell' \in [state : ShellStates, i : 0..MaxTries,
                    spawned : Tasks \cup {Null}]
    BY <1>7 DEF Delete
  <2> QED
    BY <1>7, <1>10, <2>1, <2>2 DEF Delete
<1>8. CASE Poll
  <2>1. shell' \in [state : ShellStates, i : 0..MaxTries,
                    spawned : Tasks \cup {Null}]
    BY <1>8 DEF Poll
  <2>2. UNCHANGED task \/ task' = [j \in Tasks |->
                             IF j = obj[g]._control_task THEN NoTask ELSE task[j]]
    BY <1>8 DEF Poll, TaskDelete
  <2>3. UNCHANGED <<g, obj>>
    BY <1>8 DEF Poll
  <2> QED
    BY <1>10, <2>1, <2>2, <2>3 DEF NoTask
<1>9. CASE Free
  <2>1. obj' \in [Objects -> Fields]
    BY <1>0, <1>9, FieldStore DEF Free
  <2> QED
    BY <1>9, <1>10, <2>1 DEF Free, Idle
<1> QED
  BY <1>1, <1>2, <1>3, <1>4, <1>5, <1>6, <1>7, <1>8, <1>9 DEF ShellNext

\* A task past its trampoline works on an address.
LEMMA HasAddress ==
    ASSUME TypeOK, Phase, NEW k \in Tasks,
           task[k].state \in {"entered", "loop", "exiting"}
    PROVE  g \in Objects /\ task[k].this = g
BY DEF TypeOK, Phase, Quiet, Worker, Starting, ShellStates

LEMMA TaskKeepsType ==
    ASSUME TypeOK, Phase, LeavesInTime, NEW k \in Tasks, TaskNext(k) PROVE TypeOK'
<1> USE DEF TypeOK, Move, TaskStates, ShellStates
<1>0. UNCHANGED above
  BY DEF TaskNext
<1>1. CASE Enter(k) BY <1>0, <1>1 DEF Enter
<1>2. CASE Setup(k)
  <2>1. obj' \in [Objects -> Fields]
    BY <1>2, HasAddress, FieldStore DEF Setup
  <2> QED
    BY <1>0, <1>2, <2>1 DEF Setup
<1>3. CASE LoopExit(k) BY <1>0, <1>3 DEF LoopExit
<1>4. CASE LetGo(k)
  <2>1. obj' \in [Objects -> Fields]
    BY <1>4, HasAddress, FieldStore DEF LetGo
  <2> QED
    BY <1>0, <1>4, <2>1 DEF LetGo
<1>5. CASE Leave(k)
  <2>1. obj' \in [Objects -> Fields]
    BY <1>5, FieldStore DEF Leave
  <2> QED
    BY <1>0, <1>5, <2>1 DEF Leave, NoTask
<1> QED
  BY <1>1, <1>2, <1>3, <1>4, <1>5 DEF TaskNext

LEMMA ShellKeepsPhase ==
    ASSUME IInv, ShellNext PROVE Phase' /\ LeavesInTime'
<1> USE DEF IInv, TypeOK, Phase, LeavesInTime, ShellAt, Goto, Quiet, Worker
<1>0. UNCHANGED above
  BY DEF ShellNext
<1>1. CASE StartNew BY <1>0, <1>1 DEF StartNew, Construct
<1>2. CASE Spawn BY <1>0, <1>2 DEF Spawn, Starting
<1>3. CASE SpawnFail BY <1>0, <1>3 DEF SpawnFail
<1>4. CASE StoreHandle BY <1>0, <1>4 DEF StoreHandle, Starting, Fields
<1>5. CASE Wait BY <1>0, <1>5 DEF Wait, Idle, Starting
<1>6. CASE Stop BY <1>0, <1>6 DEF Stop
<1>7. CASE Delete BY <1>0, <1>7 DEF Delete, Fields
<1>8. CASE Poll BY <1>0, <1>8 DEF Poll, TaskDelete, NoTask
<1>9. CASE Free BY <1>0, <1>9 DEF Free, Idle
<1> QED
  BY <1>1, <1>2, <1>3, <1>4, <1>5, <1>6, <1>7, <1>8, <1>9 DEF ShellNext

\* The task of the object being started or stopped, as the shell knows it.
Known == IF shell.state = "store" THEN shell.spawned ELSE obj[g]._control_task

\* Where a task is, the shell is too.
LEMMA Together ==
    ASSUME TypeOK, Phase, NEW k \in Tasks, task[k].state \notin {"none", "leaving"}
    PROVE  /\ g \in Objects /\ obj[g].live /\ g # Null
           /\ shell.state \in {"idle", "store", "wait", "delete", "poll"}
           /\ k = Known
           /\ \A j \in Tasks \ {k} : task[j].state \in {"none", "leaving"}
           /\ task[k].state # "created" => task[k].this = g
           /\ task[k].state \in {"created", "entered"} =>
                 shell.state \in {"store", "wait"} /\ ~obj[g]._task_running
           /\ task[k].state = "exiting" => shell.state = "poll"
           /\ obj[g]._task_should_exit => shell.state = "poll"
BY DEF TypeOK, Phase, Quiet, Worker, Starting, Known, ShellStates

LEMMA TaskKeepsPhase ==
    ASSUME IInv, NEW k \in Tasks, TaskNext(k) PROVE Phase' /\ LeavesInTime'
<1> USE DEF IInv
<1>0. UNCHANGED above
  BY DEF TaskNext
<1>1. CASE Enter(k)
  <2>1. k = Known /\ shell.state \in {"store", "wait"} /\ g \in Objects
    BY <1>1, Together DEF Enter
  <2>2. /\ task'[k] = [state |-> "entered", this |-> g]
        /\ \A j \in Tasks \ {k} : task'[j] = task[j]
        /\ UNCHANGED <<g, obj, shell>>
    BY <1>1 DEF Enter, TypeOK
  <2>3. Starting(k)'
    BY <1>1, <2>1, <2>2, Together DEF Starting, Worker, Enter, Known
  <2> QED
    BY <1>0, <2>1, <2>2, <2>3 DEF Phase, LeavesInTime, Known
<1>2. CASE Setup(k)
  <2>1. /\ k = Known /\ shell.state \in {"store", "wait"}
        /\ g \in Objects /\ task[k].this = g
    BY <1>2, Together DEF Setup, Move
  <2>2. /\ task'[k].state = "loop" /\ task'[k].this = g
        /\ \A j \in Tasks \ {k} : task'[j] = task[j]
        /\ obj'[g].live = obj[g].live
        /\ obj'[g]._control_task = obj[g]._control_task
        /\ obj'[g]._task_should_exit = obj[g]._task_should_exit
        /\ UNCHANGED <<g, shell>>
    BY <1>2, <2>1 DEF Setup, Move, TypeOK, Fields
  <2>3. Starting(k)'
    BY <1>2, <2>1, <2>2, Together DEF Starting, Worker, Setup, Move, Known
  <2> QED
    BY <1>0, <2>1, <2>2, <2>3 DEF Phase, LeavesInTime, Known
<1>3. CASE LoopExit(k)
  <2>1. k = obj[g]._control_task /\ shell.state = "poll" /\ task[k].this = g
    BY <1>3, Together DEF LoopExit, Move, Known
  <2>2. /\ task'[k].state = "exiting" /\ task'[k].this = g
        /\ \A j \in Tasks \ {k} : task'[j] = task[j]
        /\ UNCHANGED <<g, obj, shell>>
    BY <1>3, <2>1 DEF LoopExit, Move, TypeOK
  <2>3. Worker(obj[g]._control_task, {"loop", "exiting"})'
    BY <1>3, <2>1, <2>2, Together DEF Worker, LoopExit, Move
  <2> QED
    BY <1>0, <2>1, <2>2, <2>3 DEF Phase, LeavesInTime
<1>4. CASE LetGo(k)
  <2>1. /\ k = obj[g]._control_task /\ shell.state = "poll"
        /\ g \in Objects /\ task[k].this = g
    BY <1>4, Together DEF LetGo, Move, Known
  <2>2. /\ task'[k].state = "leaving" /\ task'[k].this = g
        /\ \A j \in Tasks \ {k} : task'[j] = task[j]
        /\ obj'[g].live = obj[g].live /\ obj'[g]._control_task = Null
        /\ UNCHANGED <<g, shell>>
    BY <1>4, <2>1 DEF LetGo, Move, TypeOK, Fields
  <2>3. Quiet'
    BY <1>4, <2>1, <2>2, Together DEF Quiet, LetGo, Move
  <2> QED
    BY <1>0, <2>1, <2>2, <2>3 DEF Phase, LeavesInTime
<1>5. CASE Leave(k)
  <2>1. /\ task'[k] = NoTask
        /\ \A j \in Tasks \ {k} : task'[j] = task[j]
        /\ UNCHANGED <<g, shell>>
    BY <1>5 DEF Leave, TypeOK
  <2>2. ASSUME g \in Objects
        PROVE  /\ obj'[g].live = obj[g].live
               /\ obj'[g]._control_task = obj[g]._control_task
               /\ obj'[g]._task_should_exit = obj[g]._task_should_exit
               /\ obj'[g]._task_running => obj[g]._task_running
    BY <1>5, <2>2 DEF Leave, TypeOK, Fields
  <2>3. Quiet => Quiet'
    BY <1>5, <2>1 DEF Quiet, NoTask
  <2>4. ASSUME NEW j, NEW S, "leaving" \notin S, "none" \notin S, Worker(j, S)
        PROVE  Worker(j, S)'
    BY <1>5, <2>1, <2>4 DEF Worker, Leave, NoTask
  <2>5. LeavesInTime'
    BY <1>0, <2>1 DEF LeavesInTime, NoTask
  <2>6. ASSUME NEW j, Starting(j), g \in Objects PROVE Starting(j)'
    BY <1>5, <2>1, <2>2, <2>4, <2>6 DEF Starting, Leave, Worker
  <2> QED
    BY <2>1, <2>2, <2>3, <2>4, <2>5, <2>6 DEF Phase
<1> QED
  BY <1>1, <1>2, <1>3, <1>4, <1>5 DEF TaskNext

LEMMA Step == IInv /\ [Next]_vars => IInv'
<1> SUFFICES ASSUME IInv, [Next]_vars PROVE IInv'
  OBVIOUS
<1>1. CASE ShellNext
  BY <1>1, ShellKeepsType, ShellKeepsPhase DEF IInv
<1>2. ASSUME NEW k \in Tasks, TaskNext(k) PROVE IInv'
  BY <1>2, TaskKeepsType, TaskKeepsPhase DEF IInv
<1>3. CASE UNCHANGED vars
  BY <1>3 DEF IInv, TypeOK, Phase, LeavesInTime, Quiet, Worker, Starting, vars
<1> QED
  BY <1>1, <1>2, <1>3 DEF Next

THEOREM Invariance == Spec => []IInv
BY Initially, Step, PTL DEF Spec

\* Shell and task keep to their types: in particular the destructor's count of
\* polls never passes its bound.
THEOREM TypeCorrect == Spec => []TypeOK
<1>1. IInv => TypeOK
  BY DEF IInv
<1> QED
  BY <1>1, Invariance, PTL

\* A start that has returned leaves exactly one task at work, a stop that has
\* returned none; whatever the priorities, and however long the task takes to
\* react to _task_should_exit.
THEOREM StartAndStop == Spec => []OneTaskPerObject
<1>1. IInv => OneTaskPerObject
  BY DEF IInv, TypeOK, Phase, Worker, Quiet, OneTaskPerObject, Working
<1> QED
  BY <1>1, Invariance, PTL

\* With the task above the shell (aa241x_mission and aa241x_high), an object
\* is not deleted under a task that still uses it.
THEOREM NoOrphan == Spec => []ObjectOutlivesTask
<1>1. IInv => ObjectOutlivesTask
  <2> SUFFICES ASSUME IInv, above, NEW k \in Tasks PROVE Outlived(k)
    BY DEF ObjectOutlivesTask
  <2>1. CASE task[k].state \in {"none", "leaving"}
    BY <2>1 DEF IInv, Phase, LeavesInTime, Outlived
  <2>2. CASE task[k].state \notin {"none", "leaving"}
    BY <2>2, Together DEF IInv, Outlived
  <2> QED
    BY <2>1, <2>2
<1> QED
  BY <1>1, Invariance, PTL

\* With the task above the shell, a task in its loop has said so and nothing took
\* it back, until the destructor polls.
Running ==
    above /\ shell.state # "poll" =>
        \A k \in Tasks : task[k].state = "loop" => obj[g]._task_running

LEMMA ShellKeepsRunning == ASSUME IInv, Running, ShellNext PROVE Running'
<1> USE DEF Running, ShellAt, Goto
<1>0. UNCHANGED above
  BY DEF ShellNext
<1>1. CASE UNCHANGED <<g, obj, task>> /\ shell.state # "poll"
  BY <1>0, <1>1
<1>2. CASE StartNew \/ Poll \/ Free
  <2>1. shell'.state \in {"spawn", "poll", "free"} \/ g' = Null
    <3>1. CASE StartNew  BY <3>1 DEF StartNew, IInv, TypeOK
    <3>2. CASE Poll
      <4>1. shell' = [shell EXCEPT !.state = "free"] \/ shell'.state \in {"poll", "free"}
        BY <3>2 DEF Poll
      <4> QED  BY <4>1 DEF IInv, TypeOK
    <3>3. CASE Free  BY <3>3 DEF Free
    <3> QED  BY <1>2, <3>1, <3>2, <3>3
  <2>2. shell'.state = "poll" \/ Quiet'
    BY <2>1, ShellKeepsPhase DEF Phase
  <2> QED  BY <2>2 DEF Quiet
<1>3. CASE Spawn
  BY <1>0, <1>3 DEF Spawn, IInv, TypeOK, Phase, Quiet
<1>4. CASE StoreHandle \/ Delete
  <2>1. g \in Objects /\ shell.state # "poll"
    BY <1>4 DEF StoreHandle, Delete, IInv, Phase
  <2>2. UNCHANGED <<g, task>> /\ obj'[g]._task_running = obj[g]._task_running
    BY <1>4, <2>1 DEF StoreHandle, Delete, IInv, TypeOK, Fields
  <2> QED  BY <1>0, <2>1, <2>2
<1> QED
  BY <1>1, <1>2, <1>3, <1>4 DEF ShellNext, SpawnFail, Wait, Stop

LEMMA TaskKeepsRunning ==
    ASSUME IInv, Running, NEW k \in Tasks, TaskNext(k) PROVE Running'
<1> USE DEF Running
<1>0. UNCHANGED <<above, shell, g>>
  BY DEF TaskNext, Enter, Setup, LoopExit, LetGo, Leave
<1> SUFFICES ASSUME above, shell.state # "poll", NEW j \in Tasks, task'[j].state = "loop"
             PROVE  obj'[g]._task_running
  BY <1>0
<1>1. CASE Enter(k)
  BY <1>1 DEF Enter, IInv, TypeOK
<1>2. CASE Setup(k)
  <2>1. g \in Objects /\ task[k].this = g
    BY <1>2, HasAddress DEF Setup, Move, IInv
  <2> QED  BY <1>2, <2>1 DEF Setup, IInv, TypeOK, Fields
<1>3. CASE LoopExit(k) \/ LetGo(k)
  <2>1. task[k].state \in {"loop", "exiting"}
    BY <1>3 DEF LoopExit, LetGo, Move
  <2>2. task[k].this = g /\ (obj[g]._task_should_exit \/ task[k].state = "exiting" => shell.state = "poll")
    BY <2>1, Together DEF IInv
  <2> QED  BY <1>3, <2>2 DEF LoopExit, LetGo, Move
<1>4. CASE Leave(k)
  BY <1>4 DEF Leave, IInv, LeavesInTime
<1> QED
  BY <1>1, <1>2, <1>3, <1>4 DEF TaskNext

\* With the task above the shell, start does not wait in vain (start(),
\* task_main()): the part of StartEnds that is a safety property.  Below the
\* shell it may: the last store of an old task can hit the new object.
THEOREM StartAwaitsTask == Spec => []StartIsAwaited
<1>1. Init => Running
  BY DEF Init, Running, NoTask
<1>2. IInv /\ Running /\ [Next]_vars => Running'
  BY ShellKeepsRunning, TaskKeepsRunning DEF Next, Running, vars
<1>3. IInv /\ Running => StartIsAwaited
  BY DEF IInv, Phase, Running, Starting, Worker, StartIsAwaited
<1> QED
  BY <1>1, <1>2, <1>3, Invariance, PTL DEF Spec
=============================================================================
