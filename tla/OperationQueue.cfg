SPECIFICATION FairSpec
CONSTANTS
    Task = {t1, t2, t3, t4}
    Subject = {alice, bob}
    Scope = "user"
    Global = global
    MaxQueueSize = 2
    Entry = {e1, e2, e3}
    None = none
INVARIANTS
    TypeOK
    OneAtATime
    NoSlotLeaks
PROPERTIES
    InLine
    EveryoneServed
