CONSTANTS
    Runs = {1, 2, 3}
    Script <- OneAfterTheOther
    Together = FALSE
    MaxAuthorizations = 2
    MaxBlock = 3
    MaxCount = 4

SPECIFICATION PipelineSpec
CHECK_DEADLOCK FALSE
INVARIANTS PipelineTypeOK FreshE2E
PROPERTIES ExecutionKept
