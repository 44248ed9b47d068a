------------------------- MODULE uORBDeviceNodeProofs -------------------------
(***************************************************************************)
(* A uORB topic loses no message and no wake-up, for any number of         *)
(* publishers and subscribers, any queue and any rate limits, until the    *)
(* generation count wraps.                                                 *)
(***************************************************************************)
EXTENDS uORBDeviceNode, TLAPS

\* The count does not wrap, and neither does a subscriber's plus the queue.
Unwrapped == MaxSent + QueueSize < GenMod

TopicOK ==
    /\ Unwrapped
    /\ data \in [0..(QueueSize - 1) -> 0..MaxSent]
    /\ generation = sent
    /\ lost_messages \in Nat
    /\ sent \in 0..MaxSent

\* No message is counted, or on its way, without a buffer.
BufferOK ==
    /\ allocated \in BOOLEAN
    /\ publishing \in [Publishers -> {"idle", "writing", "stored"}]
    /\ \A p \in Publishers : publishing[p] # "idle" => allocated
    /\ sent > 0 => allocated

\* What was never written reads as such, and the rest as the newest messages.
RingOK ==
    /\ RingHoldsNewest
    /\ sent = 0 => \A i \in 0..(QueueSize - 1) : data[i] = Uninitialised

\* A subscriber r is not ahead of the topic.
Behind(r) == r \in SubscriberState /\ r.generation <= generation

\* It is not left asleep.
Noticed(r) ==
    (r.state = "waiting" /\ r.generation # generation) =>
        \/ r.posted
        \/ \E p \in Publishers : publishing[p] = "stored"
        \/ r.limited /\ r.armed

SubscribersOK ==
    /\ DOMAIN sub = Subscribers
    /\ sub = [s \in Subscribers |-> sub[s]]
    /\ \A s \in Subscribers : Behind(sub[s]) /\ Noticed(sub[s])

\* The inductive invariant.
IInv == TopicOK /\ BufferOK /\ RingOK /\ SubscribersOK

-------------------------------------------------------------------------------
LEMMA Constants ==
  /\ QueueSize \in Nat \ {0}
  /\ GenMod \in Nat \ {0}
  /\ MaxSent \in Nat
  BY QueueAssumption, GenModAssumption, MaxSentAssumption

LEMMA SmallMod == ASSUME NEW b \in Nat \ {0}, NEW a \in 0..(b - 1) PROVE a % b = a
  OBVIOUS

LEMMA ModRange == ASSUME NEW b \in Nat \ {0}, NEW a \in Int PROVE a % b \in 0..(b - 1)
  OBVIOUS

\* Two messages less than a ring apart lie in different slots.
LEMMA OtherSlot ==
  ASSUME NEW b \in Nat \ {0}, NEW x \in Nat, NEW y \in Nat, x < y, y < x + b
  PROVE  x % b # y % b
<1> SUFFICES ASSUME x % b = y % b PROVE FALSE
  OBVIOUS
<1> DEFINE p == x \div b
           q == y \div b
<1>1. p \in Int /\ q \in Int /\ x = b * p + (x % b) /\ y = b * q + (y % b)
  OBVIOUS
<1>2. y - x = b * (q - p)
  BY <1>1
<1> HIDE DEF p, q
<1>3. CASE q - p >= 1
  <2>1. b * (q - p) >= b
    BY <1>1, <1>3
  <2> QED  BY <1>2, <2>1
<1>4. CASE q - p <= 0
  <2>1. b * (q - p) <= 0
    BY <1>1, <1>4
  <2> QED  BY <1>2, <2>1
<1> QED  BY <1>1, <1>3, <1>4

-------------------------------------------------------------------------------
LEMMA InitInv == Unwrapped /\ Init => IInv
<1> SUFFICES ASSUME Unwrapped, Init PROVE IInv
  OBVIOUS
<1>1. TopicOK
  <2>1. data \in [0..(QueueSize - 1) -> 0..MaxSent]
    <3>1. Uninitialised \in 0..MaxSent
      BY Constants DEF Uninitialised
    <3> QED  BY <3>1 DEF Init
  <2> QED  BY <2>1, Constants DEF Init, TopicOK
<1>2. BufferOK
  <2>1. sent = 0 /\ allocated \in BOOLEAN
    BY DEF Init
  <2>2. publishing \in [Publishers -> {"idle", "writing", "stored"}]
    BY DEF Init
  <2>3. \A p \in Publishers : publishing[p] = "idle"
    BY DEF Init
  <2>4. ~(sent > 0)
    BY <2>1
  <2> QED  BY <2>1, <2>2, <2>3, <2>4 DEF BufferOK
<1>3. RingOK
  <2>1. RingHoldsNewest
    BY DEF Init, RingHoldsNewest
  <2>2. \A i \in 0..(QueueSize - 1) : data[i] = Uninitialised
    BY DEF Init
  <2> QED  BY <2>1, <2>2 DEF RingOK
<1>4. Closed \in SubscriberState
  BY Constants DEF Closed, SubscriberState, NoData
<1>5. SubscribersOK
  BY <1>4 DEF Init, SubscribersOK, Behind, Noticed, Closed
<1> QED  BY <1>1, <1>2, <1>3, <1>5 DEF IInv

\* A step of subscriber s to state r.
LEMMA SubscriberMoves ==
  ASSUME IInv, NEW s \in Subscribers, NEW r, Behind(r), Noticed(r),
         sub' = [sub EXCEPT ![s] = r], SubscriberStep, lost_messages' \in Nat
  PROVE  IInv'
<1>1. UNCHANGED <<allocated, data, generation, publishing, sent>>
  BY DEF SubscriberStep
<1>2. TopicOK' /\ BufferOK' /\ RingOK'
  BY <1>1 DEF IInv, TopicOK, BufferOK, RingOK, RingHoldsNewest
<1>3. ASSUME NEW t \in Subscribers PROVE Behind(sub'[t]) /\ Noticed(sub'[t])
  BY DEF IInv, SubscribersOK
<1>4. ASSUME NEW t \in Subscribers PROVE Behind(sub[t])' /\ Noticed(sub[t])'
  BY <1>1, <1>3 DEF Behind, Noticed
<1>5. DOMAIN sub' = Subscribers /\ sub' = [t \in Subscribers |-> sub'[t]]
  BY DEF IInv, SubscribersOK
<1> QED  BY <1>2, <1>4, <1>5 DEF IInv, SubscribersOK

\* A look at the topic leaves a subscriber where it is and awake.
LEMMA Checked ==
  ASSUME IInv, NEW r \in SubscriberState
  PROVE  /\ AfterCheck(r) \in SubscriberState
         /\ Notified(r) \in SubscriberState
         /\ AfterCheck(r).generation = r.generation
         /\ Notified(r).generation = r.generation
         /\ AfterCheck(r).state = r.state
         /\ Notified(r).state = r.state
         /\ AfterCheck(r).got = r.got
         /\ Notified(r).got = r.got
<1> DEFINE up == AppearsUpdated(r)
<1>1. up \in BOOLEAN
  BY DEF IInv, BufferOK, AppearsUpdated, SubscriberState
<1> HIDE DEF up
<1>2. CASE up /\ r.limited /\ ~r.reported
  BY <1>1, <1>2 DEF AfterCheck, Notified, SubscriberState, up
<1>3. CASE ~(up /\ r.limited /\ ~r.reported)
  BY <1>1, <1>3 DEF AfterCheck, Notified, SubscriberState, up
<1> QED  BY <1>2, <1>3

\* After the look a sleeper with something unread is posted or waits for its
\* timer.
LEMMA LookedAt ==
  ASSUME IInv, NEW r, Behind(r), r.generation # generation
  PROVE  Notified(r).posted \/ (Notified(r).limited /\ Notified(r).armed)
<1> DEFINE up == AppearsUpdated(r)
<1>1. up \in BOOLEAN /\ r \in SubscriberState
  BY DEF IInv, BufferOK, AppearsUpdated, SubscriberState, Behind
<1>2. allocated
  <2>1. r.generation >= 0 /\ r.generation <= generation /\ r.generation \in Int
    BY Constants, <1>1 DEF Behind, SubscriberState
  <2>2. sent > 0
    BY <2>1 DEF IInv, TopicOK
  <2> QED  BY <2>2 DEF IInv, BufferOK
<1>3. up \/ (r.limited /\ r.armed)
  BY <1>1, <1>2 DEF AppearsUpdated, SubscriberState
<1>4. ~up => Notified(r) = [r EXCEPT !.posted = r.posted \/ up]
  BY DEF Notified, AfterCheck
<1> HIDE DEF up
<1>5. CASE up
  <2>1. AfterCheck(r) \in SubscriberState
    BY <1>1, Checked
  <2>2. Notified(r) = [AfterCheck(r) EXCEPT !.posted = r.posted \/ up]
    BY DEF Notified, up
  <2> QED  BY <1>5, <2>1, <2>2 DEF SubscriberState
<1>6. CASE ~up
  BY <1>1, <1>3, <1>4, <1>6 DEF SubscriberState
<1> QED  BY <1>5, <1>6

\* Everybody in the poll set looks, while the topic stays as it is.
LEMMA AllLook ==
  ASSUME IInv, NEW subs, \A s \in Subscribers : Behind(subs[s]),
         sub' = PollNotify(subs), UNCHANGED <<allocated, generation>>
  PROVE  SubscribersOK'
<1>1. DOMAIN sub' = Subscribers /\ sub' = [t \in Subscribers |-> sub'[t]]
  BY DEF PollNotify
<1>2. ASSUME NEW t \in Subscribers PROVE Behind(sub[t])' /\ Noticed(sub[t])'
  <2>1. CASE subs[t].state \in {"polling", "waiting"}
    <3>1. sub'[t] = Notified(subs[t])
      BY <2>1 DEF PollNotify
    <3>2. /\ Notified(subs[t]) \in SubscriberState
          /\ Notified(subs[t]).generation = subs[t].generation
      BY Checked DEF Behind
    <3>3. subs[t].generation # generation =>
            Notified(subs[t]).posted
              \/ (Notified(subs[t]).limited /\ Notified(subs[t]).armed)
      BY LookedAt
    <3> QED  BY <3>1, <3>2, <3>3 DEF Behind, Noticed
  <2>2. CASE subs[t].state \notin {"polling", "waiting"}
    BY <2>2 DEF PollNotify, Behind, Noticed
  <2> QED  BY <2>1, <2>2
<1> QED  BY <1>1, <1>2 DEF SubscribersOK

-------------------------------------------------------------------------------
LEMMA BeginWriteInv ==
  ASSUME IInv, NEW p \in Publishers, BeginWrite(p) PROVE IInv'
<1>1. TopicOK' /\ RingOK'
  BY DEF IInv, TopicOK, RingOK, RingHoldsNewest, BeginWrite
<1>2. BufferOK'
  BY DEF IInv, BufferOK, BeginWrite
<1>3. SubscribersOK'
  <2>1. ASSUME NEW q \in Publishers, publishing[q] = "stored"
        PROVE  publishing'[q] = "stored"
    BY <2>1 DEF IInv, BufferOK, BeginWrite
  <2> QED
    BY <2>1 DEF IInv, SubscribersOK, Behind, Noticed, BeginWrite
<1> QED  BY <1>1, <1>2, <1>3 DEF IInv

LEMMA StoreInv ==
  ASSUME IInv, NEW p \in Publishers, Store(p) PROVE IInv'
<1>2. sent \in Nat /\ sent + 1 \in 0..MaxSent /\ sent + 1 \in 0..(GenMod - 1)
  BY Constants DEF IInv, TopicOK, Store, Unwrapped
<1>1. generation = sent /\ generation' = sent + 1 /\ sent' = sent + 1
  <2>1. (sent + 1) % GenMod = sent + 1
    BY <1>2, Constants, SmallMod
  <2> QED  BY <2>1 DEF IInv, TopicOK, Store
<1>3. generation % QueueSize \in 0..(QueueSize - 1)
  BY <1>1, <1>2, Constants, ModRange
<1>4. data' = [data EXCEPT ![sent % QueueSize] = sent + 1]
  BY <1>1 DEF Store
<1>5. TopicOK'
  BY <1>1, <1>2, <1>4 DEF IInv, TopicOK, Store
<1>6. BufferOK'
  BY DEF IInv, BufferOK, Store
<1>7. RingOK'
  <2>1. ASSUME NEW k \in 1..(sent + 1), k > sent + 1 - QueueSize
        PROVE  data'[(k - 1) % QueueSize] = k
    <3>1. CASE k = sent + 1
      BY <1>1, <1>3, <1>4, <3>1 DEF IInv, TopicOK
    <3>2. CASE k # sent + 1
      <4>1. k \in 1..sent /\ k - 1 \in Nat /\ k - 1 < sent
              /\ sent < (k - 1) + QueueSize /\ k > sent - QueueSize
        BY <1>2, <2>1, <3>2, Constants
      <4>2. (k - 1) % QueueSize # sent % QueueSize
        <5> DEFINE x == k - 1
        <5>1. x \in Nat /\ x < sent /\ sent < x + QueueSize
          BY <4>1
        <5> HIDE DEF x
        <5>2. x % QueueSize # sent % QueueSize
          BY <1>2, <5>1, Constants, OtherSlot
        <5> QED  BY <5>2 DEF x
      <4>3. data[(k - 1) % QueueSize] = k
        BY <4>1 DEF IInv, RingOK, RingHoldsNewest
      <4>4. (k - 1) % QueueSize \in 0..(QueueSize - 1)
        BY <4>1, Constants, ModRange
      <4> QED  BY <1>4, <4>2, <4>3, <4>4 DEF IInv, TopicOK
    <3> QED  BY <3>1, <3>2
  <2>2. RingHoldsNewest'
    <3> SUFFICES ASSUME NEW k \in 1..sent', k > sent' - QueueSize
                 PROVE  data'[(k - 1) % QueueSize] = k
      BY DEF RingHoldsNewest
    <3>1. k \in 1..(sent + 1) /\ k > sent + 1 - QueueSize
      BY <1>1, <1>2, Constants
    <3> QED  BY <2>1, <3>1
  <2> QED  BY <1>1, <1>2, <2>2 DEF RingOK
<1>8. SubscribersOK'
  <2>1. publishing' = [publishing EXCEPT ![p] = "stored"] /\ UNCHANGED sub
    BY DEF Store
  <2>2. publishing'[p] = "stored"
    BY <2>1 DEF IInv, BufferOK
  <2>3. ASSUME NEW t \in Subscribers PROVE Behind(sub[t])' /\ Noticed(sub[t])'
    <3>1. sub[t] \in SubscriberState /\ sub[t].generation <= generation
      BY DEF IInv, SubscribersOK, Behind
    <3>2. sub[t].generation \in Int
      BY <3>1 DEF SubscriberState
    <3> QED  BY <1>1, <1>2, <2>1, <2>2, <3>1, <3>2 DEF Behind, Noticed
  <2> QED  BY <2>1, <2>3 DEF IInv, SubscribersOK
<1> QED  BY <1>5, <1>6, <1>7, <1>8 DEF IInv

LEMMA NotifyInv ==
  ASSUME IInv, NEW p \in Publishers, Notify(p) PROVE IInv'
<1>1. TopicOK' /\ RingOK'
  BY DEF IInv, TopicOK, RingOK, RingHoldsNewest, Notify
<1>2. BufferOK'
  BY DEF IInv, BufferOK, Notify
<1>3. SubscribersOK'
  BY AllLook DEF IInv, SubscribersOK, Notify
<1> QED  BY <1>1, <1>2, <1>3 DEF IInv

LEMMA UpdateDeferredInv ==
  ASSUME IInv, NEW s \in Subscribers, UpdateDeferred(s) PROVE IInv'
<1>1. TopicOK' /\ RingOK' /\ BufferOK'
  BY DEF IInv, TopicOK, RingOK, RingHoldsNewest, BufferOK, UpdateDeferred
<1>2. ASSUME NEW t \in Subscribers
      PROVE  Behind([sub EXCEPT ![s].armed = FALSE][t])
  <2>1. Behind(sub[t]) /\ Behind(sub[s])
    BY DEF IInv, SubscribersOK
  <2>2. Behind([sub[s] EXCEPT !.armed = FALSE])
    BY <2>1 DEF Behind, SubscriberState
  <2>3. [sub EXCEPT ![s].armed = FALSE][t]
          = IF t = s THEN [sub[s] EXCEPT !.armed = FALSE] ELSE sub[t]
    BY DEF IInv, SubscribersOK
  <2> QED  BY <2>1, <2>2, <2>3
<1>3. SubscribersOK'
  BY <1>2, AllLook DEF UpdateDeferred
<1> QED  BY <1>1, <1>3 DEF IInv

-------------------------------------------------------------------------------
LEMMA OpenInv ==
  ASSUME IInv, NEW s \in Subscribers, Open(s) PROVE IInv'
<1> DEFINE r == [Closed EXCEPT !.state = "running", !.generation = generation,
                               !.armed = sub[s].armed]
<1>1. generation \in 0..(GenMod - 1) /\ sub[s] \in SubscriberState
  BY Constants DEF IInv, TopicOK, Unwrapped, SubscribersOK, Behind
<1>2. r \in SubscriberState /\ r.generation = generation
  <2>1. NoData \in NoData..MaxSent /\ sub[s].armed \in BOOLEAN
    BY <1>1, Constants DEF NoData, SubscriberState
  <2> QED  BY <1>1, <2>1 DEF Closed, SubscriberState
<1>3. Behind(r) /\ Noticed(r)
  BY <1>1, <1>2 DEF Behind, Noticed
<1>4. sub' = [sub EXCEPT ![s] = r] /\ SubscriberStep /\ lost_messages' \in Nat
  BY DEF Open, IInv, TopicOK
<1> QED  BY <1>3, <1>4, SubscriberMoves

LEMMA CloseInv ==
  ASSUME IInv, NEW s \in Subscribers, Close(s) PROVE IInv'
<1> DEFINE b == sub[s].armed /\ ~sub[s].limited
           r == [Closed EXCEPT !.armed = b]
<1>1. sub[s] \in SubscriberState /\ generation \in Nat
  BY DEF IInv, SubscribersOK, Behind, TopicOK
<1>2. r \in SubscriberState /\ r.generation = 0 /\ r.state = "closed"
  <2>1. NoData \in NoData..MaxSent /\ 0 \in 0..(GenMod - 1) /\ b \in BOOLEAN
    BY <1>1, Constants DEF NoData, SubscriberState
  <2> HIDE DEF b
  <2> QED  BY <2>1 DEF Closed, SubscriberState
<1>3. Behind(r) /\ Noticed(r)
  BY <1>1, <1>2 DEF Behind, Noticed
<1>4. sub' = [sub EXCEPT ![s] = r] /\ SubscriberStep /\ lost_messages' \in Nat
  BY DEF Close, IInv, TopicOK
<1> QED  BY <1>3, <1>4, SubscriberMoves

\* A running task stays one, and no further than the topic.
LEMMA RunningMoves ==
  ASSUME IInv, NEW s \in Subscribers, NEW r \in SubscriberState,
         r.state \in {"running", "polling"}, r.generation = sub[s].generation,
         sub' = [sub EXCEPT ![s] = r], SubscriberStep, UNCHANGED lost_messages
  PROVE  IInv'
<1>1. Behind(r) /\ Noticed(r)
  BY DEF IInv, SubscribersOK, Behind, Noticed
<1>2. lost_messages' \in Nat
  BY DEF IInv, TopicOK
<1> QED  BY <1>1, <1>2, SubscriberMoves

LEMMA CheckInv ==
  ASSUME IInv, NEW s \in Subscribers, Check(s) PROVE IInv'
<1>1. sub[s] \in SubscriberState
  BY DEF IInv, SubscribersOK, Behind
<1> DEFINE r == AfterCheck(sub[s])
<1>2. r \in SubscriberState /\ r.generation = sub[s].generation
        /\ r.state = "running"
  BY <1>1, Checked DEF Check
<1>3. sub' = [sub EXCEPT ![s] = r] /\ SubscriberStep /\ UNCHANGED lost_messages
  BY DEF Check
<1> HIDE DEF r
<1> QED  BY <1>2, <1>3, RunningMoves

LEMMA LimitInv ==
  ASSUME IInv, NEW s \in Subscribers, Limit(s) PROVE IInv'
<1>1. sub[s] \in SubscriberState
  BY DEF IInv, SubscribersOK, Behind
<1> DEFINE r == [sub[s] EXCEPT !.limited = TRUE,
                               !.armed = sub[s].limited /\ sub[s].armed]
<1>2. r \in SubscriberState /\ r.generation = sub[s].generation
        /\ r.state = "running"
  BY <1>1 DEF Limit, SubscriberState
<1>3. sub' = [sub EXCEPT ![s] = r] /\ SubscriberStep /\ UNCHANGED lost_messages
  BY <1>1 DEF Limit, SubscriberState, IInv, SubscribersOK
<1> HIDE DEF r
<1> QED  BY <1>2, <1>3, RunningMoves

LEMMA UnlimitInv ==
  ASSUME IInv, NEW s \in Subscribers, Unlimit(s) PROVE IInv'
<1>1. sub[s] \in SubscriberState
  BY DEF IInv, SubscribersOK, Behind
<1> DEFINE r == [sub[s] EXCEPT !.limited = FALSE]
<1>2. r \in SubscriberState /\ r.generation = sub[s].generation
        /\ r.state = "running"
  BY <1>1 DEF Unlimit, SubscriberState
<1>3. sub' = [sub EXCEPT ![s] = r] /\ SubscriberStep /\ UNCHANGED lost_messages
  BY DEF Unlimit
<1> HIDE DEF r
<1> QED  BY <1>2, <1>3, RunningMoves

\* Where a copy starts, and where it leaves the subscriber.
LEMMA ReadFromWhere ==
  ASSUME IInv, NEW r, Behind(r)
  PROVE  LET old == r.generation
             f == ReadFrom(r)
         IN  /\ f \in 0..generation
             /\ Overrun(r) <=> generation > old + QueueSize
             /\ Overrun(r) => f = generation - QueueSize
             /\ ~Overrun(r) /\ old < generation => f = old
             /\ old = generation /\ generation > 0 => f = generation - 1
             /\ old = generation /\ generation = 0 => f = 0
<1>1. generation \in 0..MaxSent /\ generation + QueueSize < GenMod
  BY Constants DEF IInv, TopicOK, Unwrapped
<1>2. r.generation \in 0..generation
  BY <1>1, Constants DEF Behind, SubscriberState
<1>3. (r.generation + QueueSize) % GenMod = r.generation + QueueSize
  <2>1. r.generation + QueueSize \in 0..(GenMod - 1)
    BY <1>1, <1>2, Constants
  <2> QED  BY <2>1, Constants, SmallMod
<1>4. generation >= QueueSize =>
        (generation - QueueSize) % GenMod = generation - QueueSize
  <2> SUFFICES ASSUME generation >= QueueSize
               PROVE  (generation - QueueSize) % GenMod = generation - QueueSize
    OBVIOUS
  <2>1. generation - QueueSize \in 0..(GenMod - 1)
    BY <1>1, Constants
  <2> QED  BY <2>1, Constants, SmallMod
<1>5. Overrun(r) <=> generation > r.generation + QueueSize
  BY <1>3 DEF Overrun
<1>6. CASE Overrun(r)
  <2>1. generation > r.generation + QueueSize /\ generation > QueueSize
    BY <1>1, <1>2, <1>5, <1>6, Constants
  <2>2. ReadFrom(r) = generation - QueueSize
    BY <1>1, <1>4, <1>6, <2>1, Constants DEF ReadFrom
  <2> QED  BY <1>1, <1>2, <1>5, <1>6, <2>1, <2>2, Constants
<1>7. CASE ~Overrun(r)
  <2>1. ReadFrom(r) = IF r.generation = generation /\ r.generation > 0
                      THEN r.generation - 1 ELSE r.generation
    BY <1>7 DEF ReadFrom
  <2> QED  BY <1>1, <1>2, <1>5, <1>7, <2>1
<1> QED  BY <1>6, <1>7

LEMMA ReadInv ==
  ASSUME IInv, NEW s \in Subscribers, Read(s) PROVE IInv'
<1> DEFINE f == ReadFrom(sub[s])
           g == IF f < generation THEN f + 1 ELSE f
           r == [sub[s] EXCEPT !.got = data[f % QueueSize],
                               !.generation = g, !.reported = FALSE]
<1>1. Behind(sub[s]) /\ sub[s] \in SubscriberState /\ sub[s].state = "running"
  BY DEF IInv, SubscribersOK, Behind, Read
<1>2. f \in 0..generation
  BY <1>1, ReadFromWhere
<1>3. generation \in 0..MaxSent /\ MaxSent < GenMod
  BY Constants DEF IInv, TopicOK, Unwrapped
<1>4. data[f % QueueSize] \in 0..MaxSent
  <2>1. f % QueueSize \in 0..(QueueSize - 1)
    BY <1>2, <1>3, Constants, ModRange
  <2> QED  BY <2>1 DEF IInv, TopicOK
<1>5. sub' = [sub EXCEPT ![s] = r]
  BY <1>1 DEF Read, IInv, SubscribersOK, SubscriberState
<1>6. lost_messages' \in Nat
  <2>1. (generation - (sub[s].generation + QueueSize)) % GenMod \in Nat
    <3>1. sub[s].generation \in Int
      BY <1>1 DEF SubscriberState
    <3> DEFINE d == generation - (sub[s].generation + QueueSize)
    <3>2. d \in Int
      BY <1>3, <3>1, Constants
    <3> HIDE DEF d
    <3>3. d % GenMod \in Nat
      BY <3>2, Constants, ModRange
    <3> QED  BY <3>3 DEF d
  <2>2. lost_messages \in Nat
    BY DEF IInv, TopicOK
  <2> QED  BY <2>1, <2>2 DEF Read
<1> HIDE DEF f
<1>7. r \in SubscriberState /\ r.state = "running" /\ r.generation <= generation
  <2>1. g \in 0..(GenMod - 1) /\ g <= generation
    BY <1>2, <1>3, Constants
  <2>2. data[f % QueueSize] \in NoData..MaxSent
    BY <1>4, Constants DEF NoData
  <2> HIDE DEF g
  <2> QED  BY <1>1, <2>1, <2>2 DEF SubscriberState
<1>8. Behind(r) /\ Noticed(r)
  BY <1>7 DEF Behind, Noticed
<1>9. SubscriberStep
  BY DEF Read
<1> HIDE DEF r
<1> QED  BY <1>5, <1>6, <1>8, <1>9, SubscriberMoves

LEMMA ReadNothingInv ==
  ASSUME IInv, NEW s \in Subscribers, ReadNothing(s) PROVE IInv'
<1>1. sub[s] \in SubscriberState
  BY DEF IInv, SubscribersOK, Behind
<1> DEFINE r == [sub[s] EXCEPT !.got = NoData]
<1>2. r \in SubscriberState /\ r.generation = sub[s].generation
        /\ r.state = "running"
  BY <1>1, Constants DEF ReadNothing, SubscriberState, NoData
<1>3. sub' = [sub EXCEPT ![s] = r] /\ SubscriberStep /\ UNCHANGED lost_messages
  BY DEF ReadNothing
<1> HIDE DEF r
<1> QED  BY <1>2, <1>3, RunningMoves

LEMMA StorePollWaiterInv ==
  ASSUME IInv, NEW s \in Subscribers, StorePollWaiter(s) PROVE IInv'
<1>1. sub[s] \in SubscriberState
  BY DEF IInv, SubscribersOK, Behind
<1> DEFINE r == [sub[s] EXCEPT !.state = "polling", !.posted = FALSE]
<1>2. r \in SubscriberState /\ r.generation = sub[s].generation
        /\ r.state = "polling"
  BY <1>1 DEF SubscriberState
<1>3. sub' = [sub EXCEPT ![s] = r] /\ SubscriberStep /\ UNCHANGED lost_messages
  BY <1>1 DEF StorePollWaiter, SubscriberState, IInv, SubscribersOK
<1> HIDE DEF r
<1> QED  BY <1>2, <1>3, RunningMoves

LEMMA PollStateInv ==
  ASSUME IInv, NEW s \in Subscribers, PollState(s) PROVE IInv'
<1> DEFINE n == Notified(sub[s])
           r == [n EXCEPT !.state = "waiting"]
<1>1. Behind(sub[s]) /\ sub[s] \in SubscriberState
  BY DEF IInv, SubscribersOK, Behind
<1>2. n \in SubscriberState /\ n.generation = sub[s].generation
  BY <1>1, Checked
<1>3. sub[s].generation # generation => n.posted \/ (n.limited /\ n.armed)
  BY <1>1, LookedAt
<1>4. sub' = [sub EXCEPT ![s] = r] /\ SubscriberStep
  BY DEF PollState
<1>5. lost_messages' \in Nat
  BY DEF PollState, IInv, TopicOK
<1> HIDE DEF n
<1>6. Behind(r) /\ Noticed(r)
  BY <1>1, <1>2, <1>3 DEF Behind, Noticed, SubscriberState
<1> HIDE DEF r
<1> QED  BY <1>4, <1>5, <1>6, SubscriberMoves

LEMMA LeavePollInv ==
  ASSUME IInv, NEW s \in Subscribers, LeavePoll(s) PROVE IInv'
<1>1. sub[s] \in SubscriberState
  BY DEF IInv, SubscribersOK, Behind
<1> DEFINE r == [sub[s] EXCEPT !.state = "running", !.posted = FALSE]
<1>2. r \in SubscriberState /\ r.generation = sub[s].generation
        /\ r.state = "running"
  BY <1>1 DEF SubscriberState
<1>3. sub' = [sub EXCEPT ![s] = r] /\ SubscriberStep /\ UNCHANGED lost_messages
  BY <1>1 DEF LeavePoll, SubscriberState, IInv, SubscribersOK
<1> HIDE DEF r
<1> QED  BY <1>2, <1>3, RunningMoves

LEMMA StutterInv == IInv /\ UNCHANGED vars => IInv'
  BY DEF IInv, TopicOK, BufferOK, RingOK, RingHoldsNewest, SubscribersOK, Behind,
         Noticed, vars

LEMMA NextInv == IInv /\ [Next]_vars => IInv'
<1> SUFFICES ASSUME IInv, [Next]_vars PROVE IInv'
  OBVIOUS
<1>1. ASSUME NEW p \in Publishers, Write(p) PROVE IInv'
  BY <1>1, BeginWriteInv, StoreInv, NotifyInv DEF Write
<1>2. ASSUME NEW s \in Subscribers, UpdateDeferred(s) PROVE IInv'
  BY <1>2, UpdateDeferredInv
<1>3. ASSUME NEW s \in Subscribers, Open(s) \/ Close(s) PROVE IInv'
  BY <1>3, OpenInv, CloseInv
<1>4. ASSUME NEW s \in Subscribers, Check(s) \/ Limit(s) \/ Unlimit(s) PROVE IInv'
  BY <1>4, CheckInv, LimitInv, UnlimitInv
<1>5. ASSUME NEW s \in Subscribers, Read(s) \/ ReadNothing(s) PROVE IInv'
  BY <1>5, ReadInv, ReadNothingInv
<1>6. ASSUME NEW s \in Subscribers, Poll(s) PROVE IInv'
  BY <1>6, StorePollWaiterInv, PollStateInv, LeavePollInv DEF Poll, Wake, Timeout
<1>7. CASE UNCHANGED vars
  BY <1>7, StutterInv
<1> QED  BY <1>1, <1>2, <1>3, <1>4, <1>5, <1>6, <1>7 DEF Next

LEMMA TypesOfInv == IInv => TypeOK
<1> SUFFICES ASSUME IInv PROVE TypeOK
  OBVIOUS
<1>1. generation \in 0..(GenMod - 1)
  BY Constants DEF IInv, TopicOK, Unwrapped
<1>2. sub \in [Subscribers -> SubscriberState]
  BY DEF IInv, SubscribersOK, Behind
<1> QED  BY <1>1, <1>2 DEF IInv, TopicOK, BufferOK, TypeOK

LEMMA NoticedOfInv == IInv => NoLostWakeup
  BY DEF IInv, SubscribersOK, Noticed, NoLostWakeup, Unread

-------------------------------------------------------------------------------
\* TypeOK: the types of the members and of the subscriber data, for topics that
\* do not live to see the generation count wrap.
THEOREM TypesStay == ASSUME Unwrapped PROVE Spec => []TypeOK
<1>1. Init => IInv
  BY InitInv
<1>2. IInv /\ [Next]_vars => IInv'
  BY NextInv
<1> QED  BY <1>1, <1>2, TypesOfInv, PTL DEF Spec

\* RingHoldsNewest: concurrent publishers never leave a hole or an old message
\* among the last QueueSize slots that write() counted.
THEOREM NewestAreHeld == ASSUME Unwrapped PROVE Spec => []RingHoldsNewest
<1>1. Init => IInv
  BY InitInv
<1>2. IInv /\ [Next]_vars => IInv'
  BY NextInv
<1>3. IInv => RingHoldsNewest
  BY DEF IInv, RingOK
<1> QED  BY <1>1, <1>2, <1>3, PTL DEF Spec

\* NoLostWakeup: poll() and write() share no lock, and still no subscriber
\* sleeps on an unread message that nobody is going to report to it.
THEOREM WakeupsAreKept == ASSUME Unwrapped PROVE Spec => []NoLostWakeup
<1>1. Init => IInv
  BY InitInv
<1>2. IInv /\ [Next]_vars => IInv'
  BY NextInv
<1> QED  BY <1>1, <1>2, NoticedOfInv, PTL DEF Spec

-------------------------------------------------------------------------------
(***************************************************************************)
(* An update stays visible until it is copied.                             *)
(***************************************************************************)

\* A look does not take a visible update back.
LEMMA LookKeeps ==
  ASSUME NEW r \in SubscriberState, AppearsUpdated(r)
  PROVE  /\ AppearsUpdated(AfterCheck(r))
         /\ AppearsUpdated(Notified(r))
<1>1. CASE r.limited /\ ~r.reported
  BY <1>1 DEF AppearsUpdated, AfterCheck, Notified, SubscriberState
<1>2. CASE ~(r.limited /\ ~r.reported)
  BY <1>2 DEF AppearsUpdated, AfterCheck, Notified, SubscriberState
<1> QED  BY <1>1, <1>2

\* What AppearsUpdated reads besides the subscriber.
LEMMA SameTopic ==
  ASSUME NEW s, AppearsUpdated(sub'[s]), UNCHANGED <<allocated, generation>>
  PROVE  (AppearsUpdated(sub[s]))'
  BY DEF AppearsUpdated

\* Another subscriber t, or one that only looks or changes its poll.
LEMMA OthersKeep ==
  ASSUME IInv, NEW s \in Subscribers, NEW t \in Subscribers, NEW r,
         AppearsUpdated(sub[s]), t = s => AppearsUpdated(r),
         sub' = [sub EXCEPT ![t] = r], SubscriberStep
  PROVE  (AppearsUpdated(sub[s]))'
<1>1. sub'[s] = IF t = s THEN r ELSE sub[s]
  BY DEF IInv, SubscribersOK
<1>2. UNCHANGED <<allocated, generation>>
  BY DEF SubscriberStep
<1>3. AppearsUpdated(sub'[s])
  <2>1. CASE t = s
    BY <1>1, <2>1
  <2>2. CASE t # s
    BY <1>1, <2>2
  <2> QED  BY <2>1, <2>2
<1> QED  BY <1>2, <1>3, SameTopic

\* Everybody in the poll set looks.
LEMMA AllLookKeeps ==
  ASSUME NEW subs, NEW s \in Subscribers, subs[s] \in SubscriberState,
         AppearsUpdated(subs[s]), sub' = PollNotify(subs),
         UNCHANGED <<allocated, generation>>
  PROVE  (AppearsUpdated(sub[s]))'
<1>1. sub'[s] = Notified(subs[s]) \/ sub'[s] = subs[s]
  BY DEF PollNotify
<1>2. AppearsUpdated(sub'[s])
  BY <1>1, LookKeeps
<1> QED  BY <1>2, SameTopic

LEMMA WriterKeeps ==
  ASSUME IInv, NEW p \in Publishers, Write(p),
         NEW s \in Subscribers, AppearsUpdated(sub[s])
  PROVE  (AppearsUpdated(sub[s]))'
<1>1. sub[s] \in SubscriberState /\ sub[s].generation <= generation
        /\ sub[s].generation \in Int
  <2>1. Behind(sub[s])
    BY DEF IInv, SubscribersOK
  <2> QED  BY <2>1, Constants DEF Behind, SubscriberState
<1>2. CASE BeginWrite(p)
  BY <1>2 DEF BeginWrite, AppearsUpdated
<1>3. CASE Store(p)
  <2>1. sent \in Nat /\ sent + 1 \in 0..(GenMod - 1) /\ generation = sent
    BY <1>3, Constants DEF IInv, TopicOK, Store, Unwrapped
  <2>2. generation' = sent + 1
    <3>1. (sent + 1) % GenMod = sent + 1
      BY <2>1, Constants, SmallMod
    <3> QED  BY <2>1, <3>1, <1>3 DEF Store
  <2>3. sub[s].generation # generation'
    BY <1>1, <2>1, <2>2
  <2> QED  BY <1>3, <2>3 DEF Store, AppearsUpdated
<1>4. CASE Notify(p)
  <2>1. sub' = PollNotify(sub) /\ UNCHANGED <<allocated, generation>>
    BY <1>4 DEF Notify
  <2> QED  BY <1>1, <2>1, AllLookKeeps
<1> QED  BY <1>2, <1>3, <1>4 DEF Write

LEMMA TimerKeeps ==
  ASSUME IInv, NEW t \in Subscribers, UpdateDeferred(t),
         NEW s \in Subscribers, AppearsUpdated(sub[s])
  PROVE  (AppearsUpdated(sub[s]))'
<1> DEFINE subs == [sub EXCEPT ![t].armed = FALSE]
<1>1. subs[s] = IF t = s THEN [sub[s] EXCEPT !.armed = FALSE] ELSE sub[s]
  BY DEF IInv, SubscribersOK
<1>2. sub[s] \in SubscriberState
  BY DEF IInv, SubscribersOK, Behind
<1>3. sub' = PollNotify(subs) /\ UNCHANGED <<allocated, generation>>
  BY DEF UpdateDeferred
<1> HIDE DEF subs
<1>4. subs[s] \in SubscriberState
  BY <1>1, <1>2 DEF SubscriberState
<1>5. AppearsUpdated(subs[s])
  BY <1>1, <1>2 DEF AppearsUpdated, SubscriberState
<1> QED  BY <1>3, <1>4, <1>5, AllLookKeeps

LEMMA CallerKeeps ==
  ASSUME IInv, NEW t \in Subscribers, NEW s \in Subscribers,
         sub[s].state # "closed", AppearsUpdated(sub[s]),
         \/ Open(t) \/ Close(t) \/ Check(t) \/ Limit(t) \/ Unlimit(t)
         \/ Read(t) \/ ReadNothing(t) \/ Poll(t)
  PROVE  (AppearsUpdated(sub[s]))' \/ Read(s) \/ Close(s)
<1>1. sub[s] \in SubscriberState /\ sub[t] \in SubscriberState
  BY DEF IInv, SubscribersOK, Behind
<1>2. ASSUME NEW r, sub' = [sub EXCEPT ![t] = r], SubscriberStep,
             t = s => AppearsUpdated(r)
      PROVE  (AppearsUpdated(sub[s]))'
  BY <1>2, OthersKeep
<1>3. CASE Open(t)
  <2>1. t # s
    BY <1>3 DEF Open
  <2> DEFINE r == [Closed EXCEPT !.state = "running", !.generation = generation,
                                 !.armed = sub[t].armed]
  <2>2. sub' = [sub EXCEPT ![t] = r] /\ SubscriberStep
    BY <1>3 DEF Open
  <2> HIDE DEF r
  <2> QED  BY <2>1, <2>2, OthersKeep
<1>4. CASE Close(t)
  <2> DEFINE r == [Closed EXCEPT !.armed = sub[t].armed /\ ~sub[t].limited]
  <2>1. sub' = [sub EXCEPT ![t] = r] /\ SubscriberStep
    BY <1>4 DEF Close
  <2> HIDE DEF r
  <2>2. CASE t = s
    BY <1>4, <2>2
  <2>3. CASE t # s
    BY <2>1, <2>3, OthersKeep
  <2> QED  BY <2>2, <2>3
<1>5. CASE Check(t)
  <2> DEFINE r == AfterCheck(sub[t])
  <2>1. sub' = [sub EXCEPT ![t] = r] /\ SubscriberStep
    BY <1>5 DEF Check
  <2>2. t = s => AppearsUpdated(r)
    BY <1>1, LookKeeps
  <2> HIDE DEF r
  <2> QED  BY <2>1, <2>2, OthersKeep
<1>6. CASE Limit(t)
  <2> DEFINE r == [sub[t] EXCEPT !.limited = TRUE,
                                 !.armed = sub[t].limited /\ sub[t].armed]
  <2>1. sub' = [sub EXCEPT ![t] = r] /\ SubscriberStep
    BY <1>1, <1>6 DEF Limit, SubscriberState, IInv, SubscribersOK
  <2>2. t = s => AppearsUpdated(r)
    BY <1>1 DEF AppearsUpdated, SubscriberState
  <2> HIDE DEF r
  <2> QED  BY <2>1, <2>2, OthersKeep
<1>7. CASE Unlimit(t)
  <2> DEFINE r == [sub[t] EXCEPT !.limited = FALSE]
  <2>1. sub' = [sub EXCEPT ![t] = r] /\ SubscriberStep
    BY <1>7 DEF Unlimit
  <2>2. t = s => AppearsUpdated(r)
    BY <1>1 DEF AppearsUpdated, SubscriberState
  <2> HIDE DEF r
  <2> QED  BY <2>1, <2>2, OthersKeep
<1>8. CASE Read(t)
  <2>1. CASE t = s
    BY <1>8, <2>1
  <2>2. CASE t # s
    <3>1. SubscriberStep /\ sub'[s] = sub[s]
      BY <1>8, <2>2 DEF Read, IInv, SubscribersOK
    <3> QED  BY <3>1, SameTopic DEF SubscriberStep
  <2> QED  BY <2>1, <2>2
<1>9. CASE ReadNothing(t)
  BY <1>9 DEF ReadNothing, AppearsUpdated
<1>10. CASE StorePollWaiter(t)
  <2> DEFINE r == [sub[t] EXCEPT !.state = "polling", !.posted = FALSE]
  <2>1. sub' = [sub EXCEPT ![t] = r] /\ SubscriberStep
    BY <1>1, <1>10 DEF StorePollWaiter, SubscriberState, IInv, SubscribersOK
  <2>2. t = s => AppearsUpdated(r)
    BY <1>1 DEF AppearsUpdated, SubscriberState
  <2> HIDE DEF r
  <2> QED  BY <2>1, <2>2, OthersKeep
<1>11. CASE PollState(t)
  <2> DEFINE n == Notified(sub[t])
             r == [n EXCEPT !.state = "waiting"]
  <2>1. sub' = [sub EXCEPT ![t] = r] /\ SubscriberStep
    BY <1>11 DEF PollState
  <2>2. n \in SubscriberState
    BY <1>1, Checked
  <2>3. t = s => AppearsUpdated(n)
    BY <1>1, LookKeeps
  <2> HIDE DEF n
  <2>4. t = s => AppearsUpdated(r)
    BY <2>2, <2>3 DEF AppearsUpdated, SubscriberState
  <2> HIDE DEF r
  <2> QED  BY <2>1, <2>4, OthersKeep
<1>12. CASE LeavePoll(t)
  <2> DEFINE r == [sub[t] EXCEPT !.state = "running", !.posted = FALSE]
  <2>1. sub' = [sub EXCEPT ![t] = r] /\ SubscriberStep
    BY <1>1, <1>12 DEF LeavePoll, SubscriberState, IInv, SubscribersOK
  <2>2. t = s => AppearsUpdated(r)
    BY <1>1 DEF AppearsUpdated, SubscriberState
  <2> HIDE DEF r
  <2> QED  BY <2>1, <2>2, OthersKeep
<1> QED
  BY <1>3, <1>4, <1>5, <1>6, <1>7, <1>8, <1>9, <1>10, <1>11, <1>12
     DEF Poll, Wake, Timeout

\* StaysUpdated: once a check would show an update, nothing another task, the
\* timer or a change of interval does takes it back before it is copied.
THEOREM UpdatesStay == ASSUME Unwrapped PROVE Spec => StaysUpdated
<1>1. Init => IInv
  BY InitInv
<1>2. IInv /\ [Next]_vars => IInv'
  BY NextInv
<1>3. IInv /\ [Next]_vars =>
        [\A s \in Subscribers :
            (sub[s].state # "closed" /\ AppearsUpdated(sub[s]))
                => \/ (AppearsUpdated(sub[s]))'
                   \/ Read(s)
                   \/ Close(s)]_vars
  <2> SUFFICES ASSUME IInv, Next, NEW s \in Subscribers,
                      sub[s].state # "closed", AppearsUpdated(sub[s])
               PROVE  (AppearsUpdated(sub[s]))' \/ Read(s) \/ Close(s)
    OBVIOUS
  <2>1. ASSUME NEW p \in Publishers, Write(p) PROVE (AppearsUpdated(sub[s]))'
    BY <2>1, WriterKeeps
  <2>2. ASSUME NEW t \in Subscribers, UpdateDeferred(t)
        PROVE  (AppearsUpdated(sub[s]))'
    BY <2>2, TimerKeeps
  <2>3. ASSUME NEW t \in Subscribers,
               \/ Open(t) \/ Close(t) \/ Check(t) \/ Limit(t) \/ Unlimit(t)
               \/ Read(t) \/ ReadNothing(t) \/ Poll(t)
        PROVE  (AppearsUpdated(sub[s]))' \/ Read(s) \/ Close(s)
    BY <2>3, CallerKeeps
  <2> QED  BY <2>1, <2>2, <2>3 DEF Next
<1> QED  BY <1>1, <1>2, <1>3, PTL DEF Spec, StaysUpdated

-------------------------------------------------------------------------------
(***************************************************************************)
(* The topic implements the log.                                           *)
(***************************************************************************)

\* What the log keeps of the subscribers.
Delivered(r) == IF r.got > 0 THEN r.got ELSE 0
Seen == [s \in Subscribers |-> sub[s].generation]
Got == [s \in Subscribers |-> IF sub[s].got > 0 THEN sub[s].got ELSE 0]

\* The steps of the log, in these terms.
LEMMA LogSteps ==
  ASSUME NEW s \in Subscribers
  PROVE  /\ Log!vars = <<sent, Seen, Got, lost_messages>>
         /\ Log!Subscribe(s) <=>
               /\ Seen' = [Seen EXCEPT ![s] = sent]
               /\ Got' = [Got EXCEPT ![s] = 0]
               /\ UNCHANGED <<sent, lost_messages>>
         /\ Log!Unsubscribe(s) <=>
               /\ Seen' = [Seen EXCEPT ![s] = 0]
               /\ Got' = [Got EXCEPT ![s] = 0]
               /\ UNCHANGED <<sent, lost_messages>>
         /\ Log!Overwritten(s) = IF sent > Seen[s] + QueueSize
                                 THEN sent - Seen[s] - QueueSize ELSE 0
         /\ Log!CopyNext(s) <=>
               /\ Seen[s] < sent
               /\ Got' = [Got EXCEPT ![s] = Seen[s] + Log!Overwritten(s) + 1]
               /\ Seen' = [Seen EXCEPT ![s] = Seen[s] + Log!Overwritten(s) + 1]
               /\ lost_messages' = lost_messages + Log!Overwritten(s)
               /\ UNCHANGED sent
         /\ Log!CopyAgain(s) <=>
               /\ Seen[s] = sent
               /\ Got' = [Got EXCEPT ![s] = sent]
               /\ UNCHANGED <<sent, Seen, lost_messages>>
<1>1. Log!vars = <<sent, Seen, Got, lost_messages>>
  BY DEF Log!vars, Seen, Got
<1>2. Log!Subscribe(s) <=> /\ Seen' = [Seen EXCEPT ![s] = sent]
                          /\ Got' = [Got EXCEPT ![s] = 0]
                          /\ UNCHANGED <<sent, lost_messages>>
  BY DEF Log!Subscribe, Seen, Got
<1>3. Log!Unsubscribe(s) <=> /\ Seen' = [Seen EXCEPT ![s] = 0]
                            /\ Got' = [Got EXCEPT ![s] = 0]
                            /\ UNCHANGED <<sent, lost_messages>>
  BY DEF Log!Unsubscribe, Seen, Got
<1>4. Log!Overwritten(s) = IF sent > Seen[s] + QueueSize
                           THEN sent - Seen[s] - QueueSize ELSE 0
  BY DEF Log!Overwritten, Seen
<1>5. Log!CopyNext(s) <=>
        /\ Seen[s] < sent
        /\ Got' = [Got EXCEPT ![s] = Seen[s] + Log!Overwritten(s) + 1]
        /\ Seen' = [Seen EXCEPT ![s] = Seen[s] + Log!Overwritten(s) + 1]
        /\ lost_messages' = lost_messages + Log!Overwritten(s)
        /\ UNCHANGED sent
  BY DEF Log!CopyNext, Seen, Got
<1>6. Log!CopyAgain(s) <=> /\ Seen[s] = sent
                          /\ Got' = [Got EXCEPT ![s] = sent]
                          /\ UNCHANGED <<sent, Seen, lost_messages>>
  BY DEF Log!CopyAgain, Seen, Got
<1> QED  BY <1>1, <1>2, <1>3, <1>4, <1>5, <1>6

\* Subscriber s goes to state r.
LEMMA LogMoves ==
  ASSUME IInv, NEW s \in Subscribers, NEW r, sub' = [sub EXCEPT ![s] = r]
  PROVE  /\ Seen' = [Seen EXCEPT ![s] = r.generation]
         /\ Got' = [Got EXCEPT ![s] = Delivered(r)]
<1>1. ASSUME NEW t \in Subscribers
      PROVE  sub'[t] = IF t = s THEN r ELSE sub[t]
  BY DEF IInv, SubscribersOK
<1>2. Seen' = [t \in Subscribers |-> sub'[t].generation]
  BY DEF Seen
<1>3. Got' = [t \in Subscribers |-> Delivered(sub'[t])]
  BY DEF Got, Delivered
<1>4. Got = [t \in Subscribers |-> Delivered(sub[t])]
  BY DEF Got, Delivered
<1>5. Seen = [t \in Subscribers |-> sub[t].generation]
  BY DEF Seen
<1>6. Seen' = [Seen EXCEPT ![s] = r.generation]
  BY <1>1, <1>2, <1>5
<1>7. Got' = [Got EXCEPT ![s] = Delivered(r)]
  BY <1>1, <1>3, <1>4
<1> QED  BY <1>6, <1>7

\* Nobody reads.
LEMMA LogStutters ==
  ASSUME \A t \in Subscribers : /\ sub'[t].generation = sub[t].generation
                                /\ sub'[t].got = sub[t].got
  PROVE  Seen' = Seen /\ Got' = Got
  BY DEF Seen, Got

LEMMA LogQuiet ==
  ASSUME IInv, NEW s \in Subscribers, NEW r, sub' = [sub EXCEPT ![s] = r],
         r.generation = sub[s].generation, r.got = sub[s].got
  PROVE  Seen' = Seen /\ Got' = Got
<1>1. ASSUME NEW t \in Subscribers
      PROVE  sub'[t].generation = sub[t].generation /\ sub'[t].got = sub[t].got
  BY DEF IInv, SubscribersOK
<1> QED  BY <1>1, LogStutters

LEMMA LogLooks ==
  ASSUME IInv, NEW subs, sub' = PollNotify(subs),
         \A t \in Subscribers : /\ subs[t] \in SubscriberState
                                /\ subs[t].generation = sub[t].generation
                                /\ subs[t].got = sub[t].got
  PROVE  Seen' = Seen /\ Got' = Got
<1>1. ASSUME NEW t \in Subscribers
      PROVE  sub'[t].generation = sub[t].generation /\ sub'[t].got = sub[t].got
  <2>1. sub'[t] = Notified(subs[t]) \/ sub'[t] = subs[t]
    BY DEF PollNotify
  <2>2. Notified(subs[t]).generation = subs[t].generation
          /\ Notified(subs[t]).got = subs[t].got
    BY Checked
  <2> QED  BY <2>1, <2>2
<1> QED  BY <1>1, LogStutters

LogStep == Log!Next \/ UNCHANGED <<sent, Seen, Got, lost_messages>>

LEMMA WriterLogs ==
  ASSUME IInv, NEW p \in Publishers, Write(p) PROVE LogStep
<1>1. CASE BeginWrite(p)
  BY <1>1 DEF BeginWrite, LogStep, Seen, Got
<1>2. CASE Store(p)
  BY <1>2 DEF Store, LogStep, Log!Next, Log!Publish
<1>3. CASE Notify(p)
  <2>1. \A t \in Subscribers : sub[t] \in SubscriberState
    BY DEF IInv, SubscribersOK, Behind
  <2>2. sub' = PollNotify(sub) /\ UNCHANGED <<sent, lost_messages>>
    BY <1>3 DEF Notify
  <2>3. Seen' = Seen /\ Got' = Got
    BY <2>1, <2>2, LogLooks
  <2> QED  BY <2>2, <2>3 DEF LogStep
<1> QED  BY <1>1, <1>2, <1>3 DEF Write

LEMMA TimerLogs ==
  ASSUME IInv, NEW s \in Subscribers, UpdateDeferred(s) PROVE LogStep
<1> DEFINE subs == [sub EXCEPT ![s].armed = FALSE]
<1>1. ASSUME NEW t \in Subscribers
      PROVE  /\ subs[t] \in SubscriberState
             /\ subs[t].generation = sub[t].generation
             /\ subs[t].got = sub[t].got
  <2>1. sub[t] \in SubscriberState
    BY DEF IInv, SubscribersOK, Behind
  <2>2. subs[t] = IF t = s THEN [sub[t] EXCEPT !.armed = FALSE] ELSE sub[t]
    BY DEF IInv, SubscribersOK
  <2> HIDE DEF subs
  <2> QED  BY <2>1, <2>2 DEF SubscriberState
<1>2. sub' = PollNotify(subs) /\ UNCHANGED <<sent, lost_messages>>
  BY DEF UpdateDeferred
<1> HIDE DEF subs
<1>3. Seen' = Seen /\ Got' = Got
  BY <1>1, <1>2, LogLooks
<1> QED  BY <1>2, <1>3 DEF LogStep

\* A copy delivers the message after the ones read or overwritten.
LEMMA ReadLogs ==
  ASSUME IInv, NEW s \in Subscribers, Read(s) PROVE LogStep
<1> DEFINE old == sub[s].generation
           f == ReadFrom(sub[s])
           g == IF f < generation THEN f + 1 ELSE f
           d == data[f % QueueSize]
           r == [sub[s] EXCEPT !.got = d, !.generation = g, !.reported = FALSE]
<1>1. Behind(sub[s]) /\ sub[s] \in SubscriberState
  BY DEF IInv, SubscribersOK, Behind
<1>2. /\ f \in 0..generation
      /\ Overrun(sub[s]) <=> generation > old + QueueSize
      /\ Overrun(sub[s]) => f = generation - QueueSize
      /\ ~Overrun(sub[s]) /\ old < generation => f = old
      /\ old = generation /\ generation > 0 => f = generation - 1
      /\ old = generation /\ generation = 0 => f = 0
  BY <1>1, ReadFromWhere
<1>3. /\ generation = sent /\ sent \in 0..MaxSent /\ MaxSent < GenMod
      /\ old \in 0..sent
  BY <1>1, Constants DEF IInv, TopicOK, Unwrapped, Behind, SubscriberState
<1>4. sub' = [sub EXCEPT ![s] = r]
  BY <1>1 DEF Read, IInv, SubscribersOK, SubscriberState
<1>5. UNCHANGED sent
  BY DEF Read, SubscriberStep
<1>6. lost_messages' = IF Overrun(sub[s])
                       THEN lost_messages
                              + ((generation - (old + QueueSize)) % GenMod)
                       ELSE lost_messages
  BY DEF Read
<1>7. Seen[s] = old
  BY DEF Seen
<1>8. r.generation = g /\ r.got = d
  BY <1>1 DEF SubscriberState
<1>9. f < sent => d = f + 1
  <2> SUFFICES ASSUME f < sent PROVE d = f + 1
    OBVIOUS
  <2> HIDE DEF f
  <2>1. f + 1 \in 1..sent /\ f + 1 > sent - QueueSize
    BY <1>2, <1>3, Constants
  <2>2. data[((f + 1) - 1) % QueueSize] = f + 1
    BY <2>1 DEF IInv, RingOK, RingHoldsNewest
  <2>3. (f + 1) - 1 = f
    BY <1>2, <1>3
  <2> QED  BY <2>2, <2>3
<1>10. sent = 0 => d = 0
  <2> SUFFICES ASSUME sent = 0 PROVE d = 0
    OBVIOUS
  <2>1. f % QueueSize \in 0..(QueueSize - 1)
    BY <1>2, <1>3, Constants, ModRange
  <2> QED  BY <2>1 DEF IInv, RingOK, Uninitialised
<1> HIDE DEF old, f, d
<1>11. Seen' = [Seen EXCEPT ![s] = g] /\ Got' = [Got EXCEPT ![s] = Delivered(r)]
  <2> HIDE DEF r, g
  <2> QED  BY <1>4, <1>8, LogMoves
<1> DEFINE over == IF sent > old + QueueSize THEN sent - old - QueueSize ELSE 0
<1>12. CASE old < sent
  <2>1. f = old + over /\ f < sent
    BY <1>2, <1>3, <1>12, Constants
  <2>2. g = old + over + 1 /\ Delivered(r) = old + over + 1
    BY <1>2, <1>3, <1>8, <1>9, <2>1 DEF Delivered
  <2>3. lost_messages' = lost_messages + over
    <3>1. CASE Overrun(sub[s])
      <4> DEFINE x == generation - (old + QueueSize)
      <4>1. x = over /\ x \in 0..(GenMod - 1)
        BY <1>2, <1>3, <3>1, Constants
      <4>2. x % GenMod = x
        <5> HIDE DEF x
        <5> QED  BY <4>1, Constants, SmallMod
      <4> QED  BY <1>6, <3>1, <4>1, <4>2
    <3>2. CASE ~Overrun(sub[s])
      BY <1>2, <1>3, <1>6, <3>2 DEF IInv, TopicOK
    <3> QED  BY <3>1, <3>2
  <2>4. Log!Overwritten(s) = over
    BY <1>7, LogSteps
  <2> HIDE DEF over, g, r
  <2>5. Log!CopyNext(s)
    BY <1>5, <1>7, <1>11, <1>12, <2>2, <2>3, <2>4, LogSteps
  <2> QED  BY <2>5 DEF LogStep, Log!Next
<1>13. CASE old = sent
  <2>1. ~Overrun(sub[s])
    BY <1>2, <1>3, <1>13, Constants
  <2>2. lost_messages' = lost_messages
    BY <1>6, <2>1
  <2>3. g = old
    BY <1>2, <1>3, <1>13
  <2>4. Delivered(r) = sent
    BY <1>2, <1>3, <1>8, <1>9, <1>10, <1>13 DEF Delivered
  <2> HIDE DEF g, r
  <2>5. Seen' = Seen
    BY <1>7, <1>11, <2>3 DEF Seen
  <2>6. Log!CopyAgain(s)
    BY <1>5, <1>7, <1>11, <1>13, <2>2, <2>4, <2>5, LogSteps
  <2> QED  BY <2>6 DEF LogStep, Log!Next
<1> QED  BY <1>3, <1>12, <1>13

LEMMA ReadNothingLogs ==
  ASSUME IInv, NEW s \in Subscribers, ReadNothing(s) PROVE LogStep
<1> DEFINE r == [sub[s] EXCEPT !.got = NoData]
<1>1. sub[s] \in SubscriberState /\ sub[s].generation <= generation
  BY DEF IInv, SubscribersOK, Behind
<1>2. sent = 0
  BY Constants DEF IInv, BufferOK, TopicOK, ReadNothing
<1>3. sub[s].generation = 0
  BY <1>1, <1>2, Constants DEF IInv, TopicOK, SubscriberState
<1>4. sub' = [sub EXCEPT ![s] = r] /\ UNCHANGED <<sent, lost_messages>>
  BY DEF ReadNothing, SubscriberStep
<1>5. r.generation = 0 /\ Delivered(r) = 0
  BY <1>1, <1>3 DEF SubscriberState, NoData, Delivered
<1> HIDE DEF r
<1>6. Seen' = [Seen EXCEPT ![s] = 0] /\ Got' = [Got EXCEPT ![s] = 0]
  BY <1>4, <1>5, LogMoves
<1>7. Seen[s] = 0 /\ Seen' = Seen
  BY <1>3, <1>6 DEF Seen
<1>8. Log!CopyAgain(s)
  BY <1>2, <1>4, <1>6, <1>7, LogSteps
<1> QED  BY <1>8 DEF LogStep, Log!Next

LEMMA CallerLogs ==
  ASSUME IInv, NEW s \in Subscribers,
         \/ Open(s) \/ Close(s) \/ Check(s) \/ Limit(s) \/ Unlimit(s)
         \/ Read(s) \/ ReadNothing(s) \/ Poll(s)
  PROVE  LogStep
<1>1. sub[s] \in SubscriberState
  BY DEF IInv, SubscribersOK, Behind
<1>2. CASE Open(s)
  <2> DEFINE r == [Closed EXCEPT !.state = "running", !.generation = generation,
                                 !.armed = sub[s].armed]
  <2>1. sub' = [sub EXCEPT ![s] = r] /\ UNCHANGED <<sent, lost_messages>>
    BY <1>2 DEF Open, SubscriberStep
  <2>2. r.generation = sent /\ Delivered(r) = 0
    BY DEF Closed, Delivered, NoData, IInv, TopicOK
  <2> HIDE DEF r
  <2>3. Log!Subscribe(s)
    BY <2>1, <2>2, LogMoves, LogSteps
  <2> QED  BY <2>3 DEF LogStep, Log!Next
<1>3. CASE Close(s)
  <2> DEFINE r == [Closed EXCEPT !.armed = sub[s].armed /\ ~sub[s].limited]
  <2>1. sub' = [sub EXCEPT ![s] = r] /\ UNCHANGED <<sent, lost_messages>>
    BY <1>3 DEF Close, SubscriberStep
  <2>2. r.generation = 0 /\ Delivered(r) = 0
    BY DEF Closed, Delivered, NoData
  <2> HIDE DEF r
  <2>3. Seen' = [Seen EXCEPT ![s] = 0] /\ Got' = [Got EXCEPT ![s] = 0]
    BY <2>1, <2>2, LogMoves
  <2>4. Log!Unsubscribe(s)
    BY <2>1, <2>3, LogSteps
  <2> QED  BY <2>4 DEF LogStep, Log!Next
<1>4. CASE Check(s)
  <2> DEFINE r == AfterCheck(sub[s])
  <2>1. sub' = [sub EXCEPT ![s] = r] /\ UNCHANGED <<sent, lost_messages>>
    BY <1>4 DEF Check, SubscriberStep
  <2>2. r.generation = sub[s].generation /\ r.got = sub[s].got
    BY <1>1, Checked
  <2> HIDE DEF r
  <2> QED  BY <2>1, <2>2, LogQuiet DEF LogStep
<1>5. CASE Limit(s)
  <2> DEFINE r == [sub[s] EXCEPT !.limited = TRUE,
                                 !.armed = sub[s].limited /\ sub[s].armed]
  <2>1. sub' = [sub EXCEPT ![s] = r] /\ UNCHANGED <<sent, lost_messages>>
    BY <1>1, <1>5 DEF Limit, SubscriberState, IInv, SubscribersOK, SubscriberStep
  <2>2. r.generation = sub[s].generation /\ r.got = sub[s].got
    BY <1>1 DEF SubscriberState
  <2> HIDE DEF r
  <2> QED  BY <2>1, <2>2, LogQuiet DEF LogStep
<1>6. CASE Unlimit(s)
  <2> DEFINE r == [sub[s] EXCEPT !.limited = FALSE]
  <2>1. sub' = [sub EXCEPT ![s] = r] /\ UNCHANGED <<sent, lost_messages>>
    BY <1>6 DEF Unlimit, SubscriberStep
  <2>2. r.generation = sub[s].generation /\ r.got = sub[s].got
    BY <1>1 DEF SubscriberState
  <2> HIDE DEF r
  <2> QED  BY <2>1, <2>2, LogQuiet DEF LogStep
<1>7. CASE StorePollWaiter(s)
  <2> DEFINE r == [sub[s] EXCEPT !.state = "polling", !.posted = FALSE]
  <2>1. sub' = [sub EXCEPT ![s] = r] /\ UNCHANGED <<sent, lost_messages>>
    BY <1>1, <1>7
       DEF StorePollWaiter, SubscriberState, IInv, SubscribersOK, SubscriberStep
  <2>2. r.generation = sub[s].generation /\ r.got = sub[s].got
    BY <1>1 DEF SubscriberState
  <2> HIDE DEF r
  <2> QED  BY <2>1, <2>2, LogQuiet DEF LogStep
<1>8. CASE PollState(s)
  <2> DEFINE n == Notified(sub[s])
             r == [n EXCEPT !.state = "waiting"]
  <2>1. sub' = [sub EXCEPT ![s] = r] /\ UNCHANGED <<sent, lost_messages>>
    BY <1>8 DEF PollState, SubscriberStep
  <2>2. /\ n \in SubscriberState
        /\ n.generation = sub[s].generation /\ n.got = sub[s].got
    BY <1>1, Checked
  <2> HIDE DEF n
  <2>3. r.generation = sub[s].generation /\ r.got = sub[s].got
    BY <2>2 DEF SubscriberState
  <2> HIDE DEF r
  <2> QED  BY <2>1, <2>3, LogQuiet DEF LogStep
<1>9. CASE LeavePoll(s)
  <2> DEFINE r == [sub[s] EXCEPT !.state = "running", !.posted = FALSE]
  <2>1. sub' = [sub EXCEPT ![s] = r] /\ UNCHANGED <<sent, lost_messages>>
    BY <1>1, <1>9
       DEF LeavePoll, SubscriberState, IInv, SubscribersOK, SubscriberStep
  <2>2. r.generation = sub[s].generation /\ r.got = sub[s].got
    BY <1>1 DEF SubscriberState
  <2> HIDE DEF r
  <2> QED  BY <2>1, <2>2, LogQuiet DEF LogStep
<1> QED
  BY <1>2, <1>3, <1>4, <1>5, <1>6, <1>7, <1>8, <1>9, ReadLogs, ReadNothingLogs
     DEF Poll, Wake, Timeout

LEMMA NextLogs == ASSUME IInv, Next PROVE LogStep
<1>1. ASSUME NEW p \in Publishers, Write(p) PROVE LogStep
  BY <1>1, WriterLogs
<1>2. ASSUME NEW s \in Subscribers, UpdateDeferred(s) PROVE LogStep
  BY <1>2, TimerLogs
<1>3. ASSUME NEW s \in Subscribers,
             \/ Open(s) \/ Close(s) \/ Check(s) \/ Limit(s) \/ Unlimit(s)
             \/ Read(s) \/ ReadNothing(s) \/ Poll(s)
      PROVE  LogStep
  BY <1>3, CallerLogs
<1> HIDE DEF LogStep
<1> QED  BY <1>1, <1>2, <1>3 DEF Next

LEMMA LogInit == Init => Log!Init
<1> SUFFICES ASSUME Init PROVE Log!Init
  OBVIOUS
<1>1. \A s \in Subscribers : sub[s] = Closed
  BY DEF Init
<1>2. [s \in Subscribers |-> sub[s].generation] = [s \in Subscribers |-> 0]
  BY <1>1 DEF Closed
<1>3. [s \in Subscribers |-> IF sub[s].got > 0 THEN sub[s].got ELSE 0]
        = [s \in Subscribers |-> 0]
  BY <1>1 DEF Closed, NoData
<1> QED  BY <1>2, <1>3 DEF Init, Log!Init

\* ImplementsLog: to its subscribers the topic is a log of numbered messages:
\* copies deliver them in order, skip only what was overwritten, and count that.
THEOREM TopicIsLog == ASSUME Unwrapped PROVE Spec => ImplementsLog
<1>1. Init => IInv
  BY InitInv
<1>2. IInv /\ [Next]_vars => IInv'
  BY NextInv
<1>3. IInv /\ [Next]_vars => [Log!Next]_(Log!vars)
  <2> SUFFICES ASSUME IInv, [Next]_vars PROVE [Log!Next]_(Log!vars)
    OBVIOUS
  <2>1. ASSUME UNCHANGED vars PROVE LogStep
    <3>1. UNCHANGED <<sub, sent, lost_messages>>
      BY <2>1 DEF vars
    <3>2. Seen' = Seen /\ Got' = Got
      BY <3>1, LogStutters
    <3> QED  BY <3>1, <3>2 DEF LogStep
  <2>3. LogStep
    BY <2>1, NextLogs
  <2>4. Log!vars = <<sent, Seen, Got, lost_messages>>
    BY DEF Log!vars, Seen, Got
  <2>5. (Log!vars)' = <<sent', Seen', Got', lost_messages'>>
    BY DEF Log!vars, Seen, Got
  <2> QED  BY <2>3, <2>4, <2>5 DEF LogStep
<1> QED  BY <1>1, <1>2, <1>3, LogInit, PTL DEF Spec, ImplementsLog, Log!Spec

===============================================================================
