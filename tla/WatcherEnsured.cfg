SPECIFICATION Spec
CONSTANTS
    Listener = {l1}
    Watch = {w1, w2}
    Uri = {u1}
    CachesIdentity = TRUE
    MaxVersion = 1
    None = none
PROPERTY WatcherEnsured
