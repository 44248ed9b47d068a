SPECIFICATION Spec
CONSTANTS
    m1 = m1
    m2 = m2
    gcs = gcs
    Managers <- TwoManagers
    Partners <- TwoLinks
    Items = {a}
    Invalid = invalid
    None = none
    MaxCount = 1
    ActionTimeout = 0
INVARIANTS UploadsSpareActiveItems
