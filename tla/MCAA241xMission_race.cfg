SPECIFICATION Spec
CONSTANTS
    Deg60 = 1
    Positions <- AllPositions
    Origin <- MCOrigin
    Gate <- MCGate
    Pylon <- MCPylon
    Bearing <- MCBearing
    ParamSets <- RefereeParams
    CountMod = 1
    MaxTime = 2
INVARIANTS
    TypeOK
    TurnBookkeeping
    RacingIsClean
    RaceClock
PROPERTIES
    NoTurnEndsInKeepOut
    KeepsRules

