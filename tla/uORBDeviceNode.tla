--------------------------- MODULE uORBDeviceNode ---------------------------
(***************************************************************************)
(* One uORB topic on NuttX: uORB::DeviceNode of                            *)
(* modules/uORB/uORBDevices.cpp and the poll of its base class CDev        *)
(* (drivers/device/cdev.cpp).                                              *)
(*                                                                         *)
(* Publishers and subscribers are tasks that preempt each other anywhere   *)
(* outside a critical section, so an operation is split where it leaves    *)
(* one: a write allocates the buffer, stores the message, then notifies;   *)
(* a poll registers the waiter, looks at the topic, then sleeps.  The      *)
(* timer of a rate-limited subscriber fires from an interrupt.             *)
(*                                                                         *)
(* Messages are their numbers in the order of publication.                 *)
(***************************************************************************)
EXTENDS Integers, FiniteSets

CONSTANTS
    Publishers,     \* tasks holding an advertisement of the topic
    Subscribers,    \* file descriptors subscribed, each used by one task
    QueueSize,      \* _queue_size
    GenMod,         \* 2^32: _generation is an unsigned
    Intervals,      \* the arguments each subscriber gives orb_set_interval()
    MaxSent         \* bound on the number of messages published

ASSUME QueueAssumption == QueueSize \in 1..255
ASSUME GenModAssumption == GenMod \in Nat \ {0}
ASSUME IntervalAssumption == Intervals \in [Subscribers -> SUBSET Nat]
ASSUME MaxSentAssumption == MaxSent \in Nat

VARIABLES
    allocated,      \* _data is not null
    data,           \* data[i]: the message in slot i of _data
    generation,     \* _generation
    lost_messages,  \* _lost_messages
    publishing,     \* where each publisher is in write()
    sub,            \* the SubscriberData and the poll state of each descriptor
    sent            \* how many messages were stored (not in the code)

vars == <<allocated, data, generation, lost_messages, publishing, sub, sent>>

\* Buffer memory never written, and the result of a read that fails.
Uninitialised == 0
NoData == -1

SubscriberState ==
    [state : {"closed", "running", "polling", "waiting"},
     generation : 0..(GenMod - 1),  \* sd->generation
     limited : BOOLEAN,             \* sd->update_interval is not null
     armed : BOOLEAN,               \* update_call is in the timer queue
     reported : BOOLEAN,            \* sd->update_reported()
     posted : BOOLEAN,              \* the semaphore of its poll was posted
     got : NoData..MaxSent]         \* result of its last read()

Closed == [state |-> "closed", generation |-> 0, limited |-> FALSE,
           armed |-> FALSE, reported |-> FALSE, posted |-> FALSE,
           got |-> NoData]

Init ==
    /\ allocated = FALSE
    /\ data = [i \in 0..(QueueSize - 1) |-> Uninitialised]
    /\ generation = 0
    /\ lost_messages = 0
    /\ publishing = [p \in Publishers |-> "idle"]
    /\ sub = [s \in Subscribers |-> Closed]
    /\ sent = 0

-----------------------------------------------------------------------------
\* appears_updated(): what it answers for a subscriber in state r ...
AppearsUpdated(r) ==
    /\ allocated
    /\ r.generation # generation
    /\ r.limited => r.reported \/ ~r.armed

\* Mutant: the timer is restarted and the report not remembered.
AfterCheckUnreported(r) ==
    IF AppearsUpdated(r) /\ r.limited /\ ~r.reported
    THEN [r EXCEPT !.armed = TRUE]
    ELSE r

\* ... and what it does to it: the first report of an update restarts the
\* interval timer.
AfterCheck(r) ==
    IF AppearsUpdated(r) /\ r.limited /\ ~r.reported
    THEN [r EXCEPT !.reported = TRUE, !.armed = TRUE]
    ELSE r

\* poll_notify_one(), for a waiter.
Notified(r) ==
    [AfterCheck(r) EXCEPT !.posted = r.posted \/ AppearsUpdated(r)]

\* CDev::poll_notify(): every descriptor in the poll set.
PollNotify(subs) ==
    [s \in Subscribers |-> IF subs[s].state \in {"polling", "waiting"}
                           THEN Notified(subs[s]) ELSE subs[s]]

-----------------------------------------------------------------------------
\* write(): allocate the buffer if there is none (under lock(), re-checked) ...
BeginWrite(p) ==
    /\ publishing[p] = "idle"
    /\ sent < MaxSent
    /\ allocated' = TRUE
    /\ publishing' = [publishing EXCEPT ![p] = "writing"]
    /\ UNCHANGED <<data, generation, lost_messages, sub, sent>>

\* Mutant: the message is counted before it is copied in.
StoreCountedFirst(p) ==
    /\ publishing[p] = "writing"
    /\ sent < MaxSent
    /\ data' = [data EXCEPT ![(generation + 1) % QueueSize] = sent + 1]
    /\ generation' = (generation + 1) % GenMod
    /\ sent' = sent + 1
    /\ publishing' = [publishing EXCEPT ![p] = "stored"]
    /\ UNCHANGED <<allocated, lost_messages, sub>>

\* ... copy the message in and count it, in one critical section ...
Store(p) ==
    /\ publishing[p] = "writing"
    /\ sent < MaxSent
    /\ data' = [data EXCEPT ![generation % QueueSize] = sent + 1]
    /\ generation' = (generation + 1) % GenMod
    /\ sent' = sent + 1
    /\ publishing' = [publishing EXCEPT ![p] = "stored"]
    /\ UNCHANGED <<allocated, lost_messages, sub>>

\* ... and wake the waiters, in another.
Notify(p) ==
    /\ publishing[p] = "stored"
    /\ sub' = PollNotify(sub)
    /\ publishing' = [publishing EXCEPT ![p] = "idle"]
    /\ UNCHANGED <<allocated, data, generation, lost_messages, sent>>

\* Mutant: the expired timer notifies nobody.
UpdateDeferredSilent(s) ==
    /\ sub[s].armed
    /\ sub' = [sub EXCEPT ![s].armed = FALSE]
    /\ UNCHANGED <<allocated, data, generation, lost_messages, publishing, sent>>

\* update_deferred(), called when the interval timer of s has expired.
UpdateDeferred(s) ==
    /\ sub[s].armed
    /\ sub' = PollNotify([sub EXCEPT ![s].armed = FALSE])
    /\ UNCHANGED <<allocated, data, generation, lost_messages, publishing, sent>>

-----------------------------------------------------------------------------
\* What a step of subscriber s leaves alone.
SubscriberStep == UNCHANGED <<allocated, data, generation, publishing, sent>>

\* open() for reading: no pending update.
Open(s) ==
    /\ sub[s].state = "closed"
    /\ sub' = [sub EXCEPT ![s] = [Closed EXCEPT !.state = "running",
                                                !.generation = generation,
                                                !.armed = sub[s].armed]]
    /\ SubscriberStep
    /\ UNCHANGED lost_messages

\* close(): cancels the timer of the interval record, if there is one, and
\* frees the subscriber data.
Close(s) ==
    /\ sub[s].state = "running"
    /\ sub' = [sub EXCEPT ![s] =
                 [Closed EXCEPT !.armed = sub[s].armed /\ ~sub[s].limited]]
    /\ SubscriberStep
    /\ UNCHANGED lost_messages

\* orb_check(), the ORBIOCUPDATED of ioctl().
Check(s) ==
    /\ sub[s].state = "running"
    /\ sub' = [sub EXCEPT ![s] = AfterCheck(sub[s])]
    /\ SubscriberStep
    /\ UNCHANGED lost_messages

\* ORBIOCSETINTERVAL with a rate: make the interval record if there is none,
\* with an update_call that is not in the queue.
Limit(s) ==
    /\ sub[s].state = "running"
    /\ Intervals[s] \ {0} # {}
    /\ sub' = [sub EXCEPT ![s].limited = TRUE,
                          ![s].armed = sub[s].limited /\ sub[s].armed]
    /\ SubscriberStep
    /\ UNCHANGED lost_messages

\* ORBIOCSETINTERVAL with 0: delete the interval record.  Its update_call is
\* not taken out of the timer queue.
Unlimit(s) ==
    /\ sub[s].state = "running"
    /\ 0 \in Intervals[s]
    /\ sub' = [sub EXCEPT ![s].limited = FALSE]
    /\ SubscriberStep
    /\ UNCHANGED lost_messages

\* Where read() starts: past what was overwritten, or one back when the
\* subscriber has read everything.  Unsigned arithmetic.
Overrun(r) == generation > (r.generation + QueueSize) % GenMod

\* Mutant: a slow subscriber is left on the slot that was overwritten.
ReadFromOverwritten(r) ==
    IF r.generation = generation /\ r.generation > 0 THEN r.generation - 1
    ELSE r.generation

ReadFrom(r) ==
    LET g == IF Overrun(r) THEN (generation - QueueSize) % GenMod
             ELSE r.generation
    IN  IF g = generation /\ g > 0 THEN g - 1 ELSE g

\* Mutant: the lost messages are counted with the operands swapped.
ReadLostSwapped(s) ==
    /\ sub[s].state = "running"
    /\ allocated
    /\ LET from == ReadFrom(sub[s])
       IN  sub' = [sub EXCEPT
                     ![s].got = data[from % QueueSize],
                     ![s].generation = IF from < generation THEN from + 1
                                       ELSE from,
                     ![s].reported = FALSE]
    /\ lost_messages' =
         IF Overrun(sub[s])
         THEN lost_messages + ((sub[s].generation + QueueSize) - generation)
         ELSE lost_messages
    /\ SubscriberStep

\* orb_copy() of a topic with a buffer, the critical section of read().
Read(s) ==
    /\ sub[s].state = "running"
    /\ allocated
    /\ LET from == ReadFrom(sub[s])
       IN  sub' = [sub EXCEPT
                     ![s].got = data[from % QueueSize],
                     ![s].generation = IF from < generation THEN from + 1
                                       ELSE from,
                     ![s].reported = FALSE]
    /\ lost_messages' =
         IF Overrun(sub[s])
         THEN lost_messages
                + ((generation - (sub[s].generation + QueueSize)) % GenMod)
         ELSE lost_messages
    /\ SubscriberStep

\* read() of a topic that has no buffer yet returns zero, an error.
ReadNothing(s) ==
    /\ sub[s].state = "running"
    /\ ~allocated
    /\ sub' = [sub EXCEPT ![s].got = NoData]
    /\ SubscriberStep
    /\ UNCHANGED lost_messages

-----------------------------------------------------------------------------
\* CDev::poll() with setup: enter the poll set ...
StorePollWaiter(s) ==
    /\ sub[s].state = "running"
    /\ sub' = [sub EXCEPT ![s].state = "polling", ![s].posted = FALSE]
    /\ SubscriberStep
    /\ UNCHANGED lost_messages

\* Mutant: the poll sleeps without looking at the topic.
PollStateBlind(s) ==
    /\ sub[s].state = "polling"
    /\ sub' = [sub EXCEPT ![s].state = "waiting"]
    /\ SubscriberStep
    /\ UNCHANGED lost_messages

\* ... then poll_state(): notify at once if the topic looks updated; sleep.
PollState(s) ==
    /\ sub[s].state = "polling"
    /\ sub' = [sub EXCEPT ![s] = [Notified(sub[s]) EXCEPT !.state = "waiting"]]
    /\ SubscriberStep
    /\ UNCHANGED lost_messages

LeavePoll(s) ==
    /\ sub' = [sub EXCEPT ![s].state = "running", ![s].posted = FALSE]
    /\ SubscriberStep
    /\ UNCHANGED lost_messages

\* The semaphore was posted, or the timeout passed: leave the poll set.
Wake(s) == sub[s].state = "waiting" /\ sub[s].posted /\ LeavePoll(s)

Timeout(s) == sub[s].state = "waiting" /\ ~sub[s].posted /\ LeavePoll(s)

-----------------------------------------------------------------------------
Write(p) == BeginWrite(p) \/ Store(p) \/ Notify(p)

Poll(s) == StorePollWaiter(s) \/ PollState(s) \/ Wake(s) \/ Timeout(s)

Next ==
    \/ \E p \in Publishers : Write(p)
    \/ \E s \in Subscribers :
          \/ UpdateDeferred(s)
          \/ Open(s) \/ Close(s) \/ Check(s) \/ Limit(s) \/ Unlimit(s)
          \/ Read(s) \/ ReadNothing(s)
          \/ Poll(s)

\* Interrupts are served and ready tasks run; a publisher that has begun to
\* write finishes.  Nothing makes a task start a call.
Fairness ==
    /\ \A p \in Publishers : WF_vars(Store(p)) /\ WF_vars(Notify(p))
    /\ \A s \in Subscribers :
          WF_vars(UpdateDeferred(s)) /\ WF_vars(PollState(s)) /\ WF_vars(Wake(s))

Spec == Init /\ [][Next]_vars

FairSpec == Spec /\ Fairness

-----------------------------------------------------------------------------
(***************************************************************************)
(* Properties.                                                             *)
(***************************************************************************)

\* The members and the subscriber data keep the types the header gives them.
TypeOK ==
    /\ allocated \in BOOLEAN
    /\ data \in [0..(QueueSize - 1) -> 0..MaxSent]
    /\ generation \in 0..(GenMod - 1)
    /\ lost_messages \in Nat
    /\ publishing \in [Publishers -> {"idle", "writing", "stored"}]
    /\ sub \in [Subscribers -> SubscriberState]
    /\ sent \in 0..MaxSent

Unread(s) == sub[s].state # "closed" /\ sub[s].generation # generation

\* The ring holds the last QueueSize messages, each in the slot read() takes it
\* from, whatever publishers interleave in write(): slots are chosen and
\* counted in one critical section.
RingHoldsNewest ==
    \A k \in 1..sent : k > sent - QueueSize => data[(k - 1) % QueueSize] = k

\* A subscriber sleeping in poll() with an unread message is going to be
\* woken: its semaphore is posted, or a publisher has yet to notify, or its
\* interval timer has yet to fire.  poll() and write() share no lock, so this
\* rests on the waiter being registered before it looks at the topic.
NoLostWakeup ==
    \A s \in Subscribers :
        (sub[s].state = "waiting" /\ Unread(s)) =>
            \/ sub[s].posted
            \/ \E p \in Publishers : publishing[p] = "stored"
            \/ sub[s].limited /\ sub[s].armed

\* orb_check() "will continue to return true until orb_copy is called using
\* the same handle" (uORBManager.hpp): no step of anyone else, nor a poll, a
\* check or a change of interval, takes a visible update back.
StaysUpdated ==
    [][\A s \in Subscribers :
          (sub[s].state # "closed" /\ AppearsUpdated(sub[s]))
              => \/ (AppearsUpdated(sub[s]))'
                 \/ Read(s)
                 \/ Close(s)]_vars

\* Subscribers see the topic as a log: copies deliver the messages in order,
\* only overwritten ones are skipped, and exactly those are counted as lost.
\* (It says nothing of what a read before the first message delivers.)
Log == INSTANCE TopicLog
          WITH seen <- [s \in Subscribers |-> sub[s].generation],
               got <- [s \in Subscribers |-> IF sub[s].got > 0 THEN sub[s].got
                                             ELSE 0],
               lost <- lost_messages

\* Every behaviour of the topic is one of the log.
ImplementsLog == Log!Spec

\* A subscriber that sleeps in poll() with a message unread leaves the poll,
\* even one whose rate is limited.
SleeperWakes ==
    \A s \in Subscribers :
        (sub[s].state = "waiting" /\ Unread(s)) ~> (sub[s].state = "running")
=============================================================================
