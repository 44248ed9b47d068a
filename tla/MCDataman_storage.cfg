SPECIFICATION FairSpec
CONSTANTS
    c1 = c1
    c2 = c2
    Clients = {c1, c2}
    Keys <- MCKeys
    Data <- MCData
    MaxEvents = 3
    Nothing = Nothing
INVARIANTS
    TypeOK
    AcknowledgedIsKept
PROPERTIES
    ImplementsStore
    CallsAndStopsEnd
CHECK_DEADLOCK FALSE
