SPECIFICATION FairSpec
CONSTANTS
    Objects = {o1, o2}
    Tasks = {k1, k2}
    Null = Null
    MaxTries = 50
INVARIANTS
    TaskHasQuit
