------------------------------ MODULE TopicLog ------------------------------
(***************************************************************************)
(* What a uORB topic promises its subscribers: messages are numbered in    *)
(* the order they are published; a copy delivers the oldest message that   *)
(* the subscriber has not read among the last QueueSize, or the last one   *)
(* again when it has read them all, and every message skipped because the  *)
(* subscriber was slow is counted as lost.  uORBDeviceNode implements it.  *)
(***************************************************************************)
EXTENDS Integers

CONSTANTS Subscribers, QueueSize

VARIABLES
    sent,   \* number of messages published
    seen,   \* seen[s]: number of the last message s has read or missed, 0 when closed
    got,    \* got[s]: what the last copy of s delivered, 0 when nothing
    lost    \* number of messages lost, summed over the subscribers

vars == <<sent, seen, got, lost>>

Init ==
    /\ sent = 0
    /\ seen = [s \in Subscribers |-> 0]
    /\ got = [s \in Subscribers |-> 0]
    /\ lost = 0

Publish ==
    /\ sent' = sent + 1
    /\ UNCHANGED <<seen, got, lost>>

\* A new subscriber has no pending update.
Subscribe(s) ==
    /\ seen' = [seen EXCEPT ![s] = sent]
    /\ got' = [got EXCEPT ![s] = 0]
    /\ UNCHANGED <<sent, lost>>

Unsubscribe(s) ==
    /\ seen' = [seen EXCEPT ![s] = 0]
    /\ got' = [got EXCEPT ![s] = 0]
    /\ UNCHANGED <<sent, lost>>

\* Messages s can no longer read.
Overwritten(s) == IF sent > seen[s] + QueueSize
                  THEN sent - seen[s] - QueueSize ELSE 0

CopyNext(s) ==
    /\ seen[s] < sent
    /\ got' = [got EXCEPT ![s] = seen[s] + Overwritten(s) + 1]
    /\ seen' = [seen EXCEPT ![s] = seen[s] + Overwritten(s) + 1]
    /\ lost' = lost + Overwritten(s)
    /\ UNCHANGED sent

CopyAgain(s) ==
    /\ seen[s] = sent
    /\ got' = [got EXCEPT ![s] = sent]
    /\ UNCHANGED <<sent, seen, lost>>

Next ==
    \/ Publish
    \/ \E s \in Subscribers :
          Subscribe(s) \/ Unsubscribe(s) \/ CopyNext(s) \/ CopyAgain(s)

Spec == Init /\ [][Next]_vars
=============================================================================
