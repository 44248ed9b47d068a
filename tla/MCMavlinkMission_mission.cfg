SPECIFICATION FairSpec
CONSTANTS
    m1 = m1
    m2 = m2
    gcs = gcs
    Managers <- TwoManagers
    Partners <- OneLink
    Items = {a, b}
    Invalid = invalid
    None = none
    MaxCount = 2
    ActionTimeout = 0
INVARIANTS TypeOK WritesInactivePlace StoredIsActive TransferInProgress
PROPERTIES OneMissionPerDownload AcceptedIsStored ImplementsUpload TransfersEnd
