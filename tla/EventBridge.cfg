SPECIFICATION FairSpec
CONSTANTS
    Listener = {l1, l2}
    Watch = {w1, w2}
    Uri = {u1}
    CachesIdentity = TRUE
    MaxVersion = 2
    None = none
INVARIANTS
    TypeOK
    OneWatcher
    NobodyCutOff
PROPERTIES
    NoNewsTwice
    NewsArrive
