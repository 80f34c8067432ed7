CONSTANTS
    Zero = Zero
    u = u
    t = t
    v = v
    x = x
    y = y
    NoCode = NoCode
    None = None
    Addresses = {Zero, u, t, v}
    Codes = {x, y, NoCode}
    Clones = {y}
    Chains = {1, 2}
    MaxUint = 3
    MaxUint64 = 3
    Requests <- SomeRequests
    Snapshots <- SomeSnapshots

SPECIFICATION PreflightSpec
CHECK_DEADLOCK FALSE
INVARIANTS DeclaredIsDone AllowedAsPublished AuthorizedPasses SpendIsBounded
