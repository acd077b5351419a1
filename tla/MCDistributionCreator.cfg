SPECIFICATION Spec
CONSTANTS
    g1 = g1
    g2 = g2
    p = p
    v = v
    Guest = {g1, g2}
    Key = {1}
    Prop = {p}
    Val = {v}
    Cleanup = TRUE
    HostUse = {"whole"}
    MaxConns = 2
    MaxPub = 2
INVARIANT
    CleanupByCreator
CHECK_DEADLOCK FALSE
