CONSTANTS
    o1 = o1
    o2 = o2
    t1 = t1
    t2 = t2
    bad = bad
    here = here
    there = there
    None = None
    TrustedChain = 1
    OtherChains = {2}
    Owners = {o1, o2}
    Terms = {t1, t2, bad}
    WellShaped = {t1, t2}
    Source = here
    MaxBlocks = 3
    MaxTxs = 2
    MaxLogs = 2
    MaxTick = 1
    MaxTime = 1
    Offered <- SomeOffered
    OtherLogs <- SomeOtherLogs
    ForeignLogs <- SomeForeignLogs

SPECIFICATION RegistrySpec
CHECK_DEADLOCK FALSE
INVARIANTS RegistryTypeOK RecordsArePublished NothingLeftOut
PROPERTIES KeepsLedger
