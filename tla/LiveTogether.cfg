CONSTANTS
    Runs = {1, 2}
    Script <- TwoTerminals
    Together = TRUE
    MaxAuthorizations = 2
    MaxBlock = 2
    MaxCount = 3

SPECIFICATION PipelineSpec
CHECK_DEADLOCK FALSE
INVARIANTS SectionsAgree EvidenceIsBacked
PROPERTIES VerifiedIsTrue
