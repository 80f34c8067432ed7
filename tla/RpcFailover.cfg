CONSTANTS
    None = None
    Calls = {c1, c2, c3}
    N = 2

SPECIFICATION FailoverSpec
CHECK_DEADLOCK FALSE
SYMMETRY CallSymmetry
INVARIANTS FailoverTypeOK CacheIsAlive FailsOnlyIfEveryEndpointFailed ResultsAreNotCut ExcludedStaysExcluded
