SPECIFICATION FairSpec
CONSTANTS
    Currents <- MCCurrents
    Missions <- MCMissions
    MaxCount = 2
    MaxTries = 2
    MaxEvents = 2
    None = None
INVARIANTS
    TypeOK
    StoredIsAccepted
    NavigatorFollows
    FliesCurrentItem
    JumpsBounded
PROPERTIES
    PublishedIsTaken
