CONSTANTS
    c1 = c1
    c2 = c2
    p1 = p1
    p2 = p2
    a1 = a1
    e1 = e1
    e2 = e2
    x1 = x1
    x2 = x2
    id1 = id1
    id2 = id2
    None = None
    Foreign = Foreign
    Calls = {c1, c2}
    Processes = {p1, p2}
    Accounts = {a1}
    ControllerAccounts = {}
    Effects = {e1, e2}
    CodeHashes = {x1}
    AuthIds = {id1, id2}
    Fees = {1, 2}
    FeeCeiling = 1
    HasSecondary = TRUE
    MaxLedger = 1
    MaxBlocks = 2
    MaxTick = 1
    Commitment <- Successive
    Requests <- AllRequests
    ProcessOf <- TwoProcesses
    AccountOf <- OneAccount

SPECIFICATION Spec
CHECK_DEADLOCK FALSE
INVARIANTS DispatchedAsApproved AuthorizationUsedOnce
PROPERTY RefinesAuthorizedExecution
