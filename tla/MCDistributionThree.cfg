SPECIFICATION Spec
CONSTANTS
    g1 = g1
    g2 = g2
    p = p
    v = v
    Guest = {g1, g2}
    Key = {1}
    Prop = {p}
    Val = {v}
    Cleanup = TRUE
    HostUse = {"whole"}
    MaxConns = 3
    MaxPub = 2
INVARIANTS
    ViewIsVersion
    CleanupComplete
PROPERTIES
    Refines
CHECK_DEADLOCK FALSE
