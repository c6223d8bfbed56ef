SPECIFICATION FairSpec
CONSTANTS
    Request = {r1, r2, r3, r4}
    Safe = {r1, r2}
    FailureThreshold = 2
    RetryAttempts = 3
    MaxGeneration = 3
    None = none
INVARIANTS
    TypeOK
    PermitsInv
PROPERTIES
    IsACircuitBreaker
    Recovers
