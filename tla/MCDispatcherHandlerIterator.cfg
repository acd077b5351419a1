SPECIFICATION Spec
CONSTANTS
    t1 = t1
    t2 = t2
    Type = {t1, t2}
    Cached <- MCCached
    Key = {1}
    MaxIds = 3
    MaxDepth = 2
INVARIANT HandlerIteratorValid
