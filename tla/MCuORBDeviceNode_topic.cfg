SPECIFICATION FairSpec
CONSTANTS
    p1 = p1
    p2 = p2
    s1 = s1
    s2 = s2
    Publishers = {p1, p2}
    Subscribers = {s1, s2}
    QueueSize = 2
    GenMod = 8
    Intervals <- MixedRates
    MaxSent = 4
INVARIANTS
    TypeOK
    NoLostWakeup
    RingHoldsNewest
PROPERTIES
    StaysUpdated
    ImplementsLog
    SleeperWakes
