SPECIFICATION Spec
CONSTANTS
    t1 = t1
    t2 = t2
    Type = {t1, t2}
    Cached <- MCCached
    Key = {1, 2}
    MaxIds = 3
    MaxDepth = 1
INVARIANTS
    IteratorValid
    CancelledIsGone
    ReachesAll
    ViewIsContainer
PROPERTIES
    CancelledNotInvoked
