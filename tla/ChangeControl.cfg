SPECIFICATION Spec
CONSTANTS
    Key = {k1}
    Payload = {p1, p2}
    AutoApproved = {p2}
    NoPayload = NoPayload
    Caller = {c1, c2}
    Manager = {m1}
    Cleaner = {}
    Mortal = {c1, c2, m1}
    AccessRow = access
    Nobody = nobody
    TTL = 1
    Retention = 1
    MaxTries = 2
    MaxTime = 1
    MaxVersion = 2
SYMMETRY Symmetry
INVARIANTS
    TypeOK
    ExecutedOnce
    AnswersAreCurrent
PROPERTIES
    PlanLife
    EventsInOrder
