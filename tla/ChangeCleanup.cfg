SPECIFICATION Spec
CONSTANTS
    Key = {k1, k2}
    Payload = {p1, p2}
    AutoApproved = {p2}
    NoPayload = NoPayload
    Caller = {c1}
    Manager = {}
    Cleaner = {gc}
    Mortal = {c1, gc}
    AccessRow = access
    Nobody = nobody
    TTL = 1
    Retention = 2
    MaxTries = 2
    MaxTime = 3
    MaxVersion = 2
INVARIANTS
    AnswersAreCurrent
PROPERTIES
    PlanLife
    EventsInOrder
    NoSilentChange
