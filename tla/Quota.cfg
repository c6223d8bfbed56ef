SPECIFICATION Spec
CONSTANTS
    Session = {s1, s2}
    RateLimit = 1
    DailyQuota = 1
    Minute = 1
    Day = 3
    RetentionDays = 0
    MaxTries = 2
    MaxTime = 4
    MaxRows = 3
INVARIANTS
    TypeOK
    RateLimited
    DailyLimited
    CountersExact
    CountedRowsKept
SYMMETRY Symmetry
