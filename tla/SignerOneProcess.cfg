CONSTANTS
    c1 = c1
    c2 = c2
    p1 = p1
    p2 = p2
    a1 = a1
    e1 = e1
    e2 = e2
    x1 = x1
    x2 = x2
    id1 = id1
    id2 = id2
    None = None
    Foreign = Foreign
    Calls = {c1, c2}
    Processes = {p1}
    Accounts = {a1}
    ControllerAccounts = {}
    Effects = {e1, e2}
    CodeHashes = {x1, x2}
    AuthIds = {id1, id2}
    Fees = {1, 2}
    FeeCeiling = 1
    HasSecondary = FALSE
    MaxLedger = 1
    MaxBlocks = 3
    MaxTick = 1
    Commitment <- Rivals
    Requests <- FaithfulRequests
    ProcessOf <- OneProcess
    AccountOf <- OneAccount

SPECIFICATION Spec
CHECK_DEADLOCK FALSE
SYMMETRY CallSymmetry
INVARIANTS TypeOK ReservationsExact SignsUnderOneBlock
PROPERTY NeverSignsSpentNonce
