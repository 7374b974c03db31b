SPECIFICATION FairSpec
CONSTANTS
    t1 = t1
    t2 = t2
    report = report
    BadName = BadName
    UserFile = UserFile
    NoFile = NoFile
    NoName = NoName
    RealNames = {report}
    Setups <- MCSetups
    Transfers = {t1, t2}
    ChunkSize = 2
    SizeLimit = 3
    MaxConcurrent = 2
    Existing <- MCExisting
    WireCap = 2
    MaxFaults = 1
    MaxCrashes = 1
CHECK_DEADLOCK FALSE
INVARIANTS
    TypeOK
    TempIsOwn
    NoOrphans
PROPERTIES
    ImplementsDrop
    SlotFreed
    SentIsPublished
