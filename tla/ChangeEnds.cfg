SPECIFICATION DailySpec
CONSTANTS
    Key = {k1}
    Payload = {p1}
    AutoApproved = {}
    NoPayload = NoPayload
    Caller = {c1}
    Manager = {m1}
    Cleaner = {gc}
    Mortal = {c1, m1}
    AccessRow = access
    Nobody = nobody
    TTL = 1
    Retention = 2
    MaxTries = 2
    MaxTime = 2
    MaxVersion = 2
PROPERTIES
    RequestsEnd
    PlansSettle
