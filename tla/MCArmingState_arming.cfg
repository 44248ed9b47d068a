SPECIFICATION FairSpec
CONSTANTS
    c1 = c1
    Consoles <- OneConsole
INVARIANTS
    TypeOK
    SafetySwitchDisarms
PROPERTIES
    HilIsLocked
    ArmingIsChecked
    LeavesInit
