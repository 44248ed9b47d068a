---------------------------- MODULE AA241xTask -------------------------------
(***************************************************************************)
(* Start and stop of an application task.  aa241x_mission, aa241x_high and *)
(* aa241x_low share this code line for line: the shell command builds an   *)
(* object, spawns a task that works on it through a global pointer, and    *)
(* deletes it again; shell and task meet only in three unlocked fields of  *)
(* the object.  They differ in the priority of the task: above that of the *)
(* shell (mission, high) or below it (low).                                *)
(***************************************************************************)
EXTENDS Naturals

CONSTANTS
    Objects,    \* addresses the allocator hands out
    Tasks,      \* task identifiers, reused once a task is gone
    Null,       \* nullptr, and the -1 of _control_task
    MaxTries    \* polls of 20 ms before the destructor kills the task

ASSUME TriesAssumption == MaxTries \in Nat
ASSUME NullAssumption == Null \notin Objects \cup Tasks

VARIABLES
    g,      \* the global pointer g_aa241x_mission, high_control or g_control
    obj,    \* per address: is it allocated, and the fields shell and task share
    task,   \* per identifier: where the task is and the object it works on
    shell,  \* where the start or stop command is, and its count of polls
    above   \* the task's priority is above the shell's: never changes

vars == <<g, obj, task, shell, above>>

TaskStates ==
    {"none", "created", "entered", "loop", "exiting", "leaving"}
ShellStates ==
    {"idle", "spawn", "store", "wait", "delete", "poll", "free"}

Fields ==
    [live : BOOLEAN, _control_task : Tasks \cup {Null},
     _task_running : BOOLEAN, _task_should_exit : BOOLEAN]

TypeOK ==
    /\ g \in Objects \cup {Null}
    /\ obj \in [Objects -> Fields]
    /\ task \in [Tasks -> [state : TaskStates,
                           this : Objects \cup {Null}]]
    /\ shell \in [state : ShellStates,
                  i : 0..MaxTries,
                  spawned : Tasks \cup {Null}]
    /\ above \in BOOLEAN

NoTask == [state |-> "none", this |-> Null]
Idle == [state |-> "idle", i |-> 0, spawned |-> Null]

Construct(live) ==
    [live |-> live, _control_task |-> Null,
     _task_running |-> FALSE, _task_should_exit |-> FALSE]

Init ==
    /\ g = Null
    /\ obj = [n \in Objects |-> Construct(FALSE)]
    /\ task = [k \in Tasks |-> NoTask]
    /\ shell = Idle
    /\ above \in BOOLEAN

(***************************************************************************)
(* The shell.  A task of higher priority that is between its last two      *)
(* stores, where it does not block, does not let the shell run.            *)
(***************************************************************************)
ShellAt(state) ==
    /\ shell.state = state
    /\ above => \A k \in Tasks : task[k].state # "leaving"

Goto(state) == shell' = [shell EXCEPT !.state = state]

\* start: refused when an object exists; else new, at any free address.
StartNew ==
    /\ ShellAt("idle")
    /\ g = Null
    /\ \E n \in Objects :
          /\ ~obj[n].live
          /\ obj' = [obj EXCEPT ![n] = Construct(TRUE)]
          /\ g' = n
    /\ Goto("spawn")
    /\ UNCHANGED task

\* px4_task_spawn_cmd() succeeds: the task may run before its identifier is
\* stored in _control_task.
Spawn ==
    /\ ShellAt("spawn")
    /\ \E k \in Tasks :
          /\ task[k].state = "none"
          /\ task' = [task EXCEPT ![k].state = "created"]
          /\ shell' = [state |-> "store", i |-> 0, spawned |-> k]
    /\ UNCHANGED <<g, obj>>

\* Mutant: start() returns -errno with errno 0, which the caller takes for OK.
SpawnFailIsOK ==
    /\ ShellAt("spawn")
    /\ Goto("wait")
    /\ UNCHANGED <<g, obj, task>>

\* px4_task_spawn_cmd() fails: start() reports it and the object is deleted.
SpawnFail ==
    /\ ShellAt("spawn")
    /\ Goto("delete")
    /\ UNCHANGED <<g, obj, task>>

StoreHandle ==
    /\ ShellAt("store")
    /\ obj' = [obj EXCEPT ![g]._control_task = shell.spawned]
    /\ shell' = [state |-> "wait", i |-> 0, spawned |-> Null]
    /\ UNCHANGED <<g, task>>

\* start returns once the task says that it is in its loop; until then it
\* sleeps and looks again.
Wait ==
    /\ ShellAt("wait")
    /\ shell' = IF g # Null /\ obj[g]._task_running THEN Idle ELSE shell
    /\ UNCHANGED <<g, obj, task>>

Stop ==
    /\ ShellAt("idle")
    /\ g # Null
    /\ Goto("delete")
    /\ UNCHANGED <<g, obj, task>>

\* The destructor asks the task to exit, if there is one.
Delete ==
    /\ ShellAt("delete")
    /\ IF obj[g]._control_task # Null
         THEN /\ obj' = [obj EXCEPT ![g]._task_should_exit = TRUE]
              /\ Goto("poll")
         ELSE /\ Goto("free")
              /\ UNCHANGED obj
    /\ UNCHANGED <<g, task>>

\* task_delete(): the task of that identifier, if any, is no more.
TaskDelete(k) ==
    task' = [j \in Tasks |-> IF j = k THEN NoTask ELSE task[j]]

\* Mutant: i++ > MaxTries where the code has ++i > MaxTries.
PollOnceMore ==
    /\ ShellAt("poll")
    /\ IF shell.i > MaxTries
         THEN /\ TaskDelete(obj[g]._control_task)
              /\ Goto("free")
         ELSE /\ shell' = [shell EXCEPT
                             !.i = @ + 1,
                             !.state = IF obj[g]._control_task # Null
                                         THEN "poll" ELSE "free"]
              /\ UNCHANGED task
    /\ UNCHANGED <<g, obj>>

\* Mutant: the destructor gives up without killing the task.
PollGivesUp ==
    /\ ShellAt("poll")
    /\ shell' = [shell EXCEPT
                   !.i = IF @ + 1 > MaxTries THEN @ ELSE @ + 1,
                   !.state = IF /\ shell.i + 1 <= MaxTries
                                /\ obj[g]._control_task # Null
                               THEN "poll" ELSE "free"]
    /\ UNCHANGED <<g, obj, task>>

\* Mutant: the destructor waits for as long as the task takes.
PollForever ==
    /\ ShellAt("poll")
    /\ obj[g]._control_task = Null
    /\ Goto("free")
    /\ UNCHANGED <<g, obj, task>>

\* One round of the destructor's loop, after its sleep.
Poll ==
    /\ ShellAt("poll")
    /\ IF shell.i + 1 > MaxTries
         THEN /\ TaskDelete(obj[g]._control_task)
              /\ Goto("free")
         ELSE /\ shell' = [state |-> IF obj[g]._control_task # Null
                                         THEN "poll" ELSE "free",
                             i |-> shell.i + 1,
                             spawned |-> Null]
              /\ UNCHANGED task
    /\ UNCHANGED <<g, obj>>

\* The destructor ends, the memory is released, the pointer is cleared.
Free ==
    /\ ShellAt("free")
    /\ obj' = [obj EXCEPT ![g].live = FALSE]
    /\ g' = Null
    /\ shell' = Idle
    /\ UNCHANGED task

(***************************************************************************)
(* The task.                                                               *)
(***************************************************************************)
Move(k, from, to) ==
    /\ task[k].state = from
    /\ task' = [task EXCEPT ![k].state = to]

\* task_main_trampoline() reads the global pointer.
Enter(k) ==
    /\ task[k].state = "created"
    /\ task' = [task EXCEPT ![k] = [state |-> "entered", this |-> g]]
    /\ UNCHANGED <<g, obj, shell>>

\* task_main() up to its loop.
Setup(k) ==
    /\ Move(k, "entered", "loop")
    /\ obj' = [obj EXCEPT ![task[k].this]._task_running = TRUE]
    /\ UNCHANGED <<g, shell>>

\* Mutant: the task lets go of the object before it has left its loop.
LoopExitLetsGo(k) ==
    /\ task[k].state = "loop"
    /\ obj[task[k].this]._task_should_exit
    /\ obj' = [obj EXCEPT ![task[k].this]._control_task = Null]
    /\ UNCHANGED <<g, task, shell>>

\* The loop notices the request.  A busy task may never come to this.
LoopExit(k) ==
    /\ Move(k, "loop", "exiting")
    /\ obj[task[k].this]._task_should_exit
    /\ UNCHANGED <<g, obj, shell>>

LetGo(k) ==
    /\ Move(k, "exiting", "leaving")
    /\ obj' = [obj EXCEPT ![task[k].this]._control_task = Null]
    /\ UNCHANGED <<g, shell>>

Leave(k) ==
    /\ task[k].state = "leaving"
    /\ obj' = [obj EXCEPT ![task[k].this]._task_running = FALSE]
    /\ task' = [task EXCEPT ![k] = NoTask]
    /\ UNCHANGED <<g, shell>>

ShellNext ==
    /\ \/ StartNew \/ Spawn \/ SpawnFail \/ StoreHandle \/ Wait
       \/ Stop \/ Delete \/ Poll \/ Free
    /\ UNCHANGED above

TaskNext(k) ==
    /\ Enter(k) \/ Setup(k) \/ LoopExit(k) \/ LetGo(k) \/ Leave(k)
    /\ UNCHANGED above

Next == ShellNext \/ \E k \in Tasks : TaskNext(k)

Spec == Init /\ [][Next]_vars

\* A command that was begun goes on; a task that was spawned gets to its loop.
\* Nothing makes a task leave its loop, and nobody has to type a command.
CommandGoesOn ==
    /\ Spawn \/ SpawnFail \/ StoreHandle \/ Wait \/ Delete \/ Poll \/ Free
    /\ UNCHANGED above

FairSpec ==
    /\ Spec
    /\ WF_vars(CommandGoesOn)
    /\ \A k \in Tasks :
          WF_vars((Enter(k) \/ Setup(k) \/ Leave(k)) /\ UNCHANGED above)

(***************************************************************************)
(* Properties.                                                             *)
(***************************************************************************)
Working(k) == task[k].state \in {"created", "entered", "loop"}

\* A start that has returned leaves exactly one task at work, in its loop, on
\* the object of the global pointer and known to it; a stop that has returned,
\* or a start that failed, leaves none, even where the task had to be killed:
\* two referees never publish the mission status side by side.
OneTaskPerObject ==
    shell.state = "idle" =>
        IF g = Null
          THEN \A k \in Tasks : ~Working(k)
          ELSE \E k \in Tasks :
                  /\ task[k] = [state |-> "loop", this |-> g]
                  /\ obj[g].live /\ obj[g]._control_task = k
                  /\ \A j \in Tasks \ {k} : ~Working(j)

\* No task holds, or is about to take up, an object that has been deleted.
Outlived(k) ==
    /\ task[k].state = "created" => g # Null
    /\ task[k].state \notin {"none", "created"} => obj[task[k].this].live

\* With the task above the shell the object outlives its task: the destructor
\* takes _control_task = -1 for the task's last word, and the task still stores
\* _task_running after it.
ObjectOutlivesTask == above => \A k \in Tasks : Outlived(k)

\* With the task above the shell, start never waits for a task that is not on
\* its way to say that it runs: no task of an object before takes that back.
StartIsAwaited ==
    above /\ shell.state = "wait" =>
        \/ obj[g]._task_running
        \/ \E k \in Tasks : obj[g]._control_task = k
                             /\ task[k].state \in {"created", "entered"}

\* stop ends, even when the task never leaves its loop.
StopEnds == (shell.state = "delete") ~> (shell.state = "idle")

\* With the task above the shell start ends, whether or not the task could be
\* spawned.
StartEnds == (above /\ shell.state = "spawn") ~> (shell.state = "idle")
=============================================================================
