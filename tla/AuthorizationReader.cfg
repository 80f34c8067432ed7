CONSTANTS
    r1 = r1
    r2 = r2
    NoRecord = NoRecord
    Records = {r1, r2}
    States <- SomeStates
    Children <- SomeChildren
    TrustedCode = "registry"
    NoCode = "none"
    Trusted <- Ours
    MaxBlocks = 4

SPECIFICATION ReaderSpec
CHECK_DEADLOCK FALSE
PROPERTIES LooksAtOneBlock
