CONSTANTS
    c1 = c1
    c2 = c2
    c3 = c3
    p1 = p1
    p2 = p2
    a1 = a1
    a2 = a2
    e1 = e1
    x1 = x1
    id1 = id1
    id2 = id2
    None = None
    Foreign = Foreign
    Calls = {c1, c2}
    Processes = {p1, p2}
    Accounts = {a1, a2}
    ControllerAccounts = {a2}
    Effects = {e1}
    CodeHashes = {x1}
    AuthIds = {id1, id2}
    Fees = {1}
    FeeCeiling = 1
    HasSecondary = FALSE
    MaxLedger = 1
    MaxBlocks = 1
    MaxTick = 1
    SendEnabled = TRUE
    SepoliaAccounts = {a1, a2}
    Commitment <- SameNonce
    Requests <- FirstRequest
    Proposals <- SomeProposals
    ApprovalFor <- FirstOnly
    ProcessOf <- TwoServers
    AccountOf <- ControllerToo

SPECIFICATION McpSpec
CHECK_DEADLOCK FALSE
INVARIANT BlockNeverReachesSigner
