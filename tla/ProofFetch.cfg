CONSTANTS
    Timeouts = {1, 5, 9}
    Polls = {1, 2, 7}
    RequestCap = 3
    MaxDelay = 6
    Lag = 1
    AnswerTime = 1
    Never = Never

SPECIFICATION FetchFairSpec
CHECK_DEADLOCK FALSE
INVARIANTS EndsInTime ReadyIsFetched
PROPERTIES FetchEnds
