SPECIFICATION FairSpec
CONSTANTS
    Guest = {"maker", "viewer"}
    Order <- MCOrder
    Kind <- MCKind
    Uses <- MCUses
    Cached = {"outer"}
    SubstructOnly = {"inner"}
    Static <- MCStatic
    Policy <- MCPolicy
    Preload <- MCPreload
    MaxCalls = 3
    MaxConnects = 3
CHECK_DEADLOCK FALSE
INVARIANTS
    NoMissingType
    SharedIsKnown
PROPERTIES
    Discovers
