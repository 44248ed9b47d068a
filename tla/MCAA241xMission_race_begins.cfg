SPECIFICATION Spec
CONSTANTS
    Deg60 = 1
    Positions <- AllPositions
    Origin <- MCOrigin
    Gate <- MCGate
    Pylon <- MCPylon
    Bearing <- MCBearing
    ParamSets <- RaceParams
    CountMod = 1
    MaxTime = 1
PROPERTIES
    RaceBeginsWithNoTurn

