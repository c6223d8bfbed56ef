SPECIFICATION FairSpec
CONSTANTS
    Call = {c1, c2}
    Nobody = nobody
    RetryAttempts = 2
    RequestTimeout = 1
    CacheTTL = 1
    MaxQueueSize = 1
    MaxTime = 2
INVARIANTS
    TypeOK
    AnswersAreTrue
PROPERTIES
    IdentityIsFresh
    CallsEnd
CHECK_DEADLOCK FALSE
