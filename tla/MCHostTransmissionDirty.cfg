SPECIFICATION Spec
CONSTANTS
    Conn = {1, 2}
    Key = {1, 2}
    Reaction <- NoReaction
    MaxFailing = 2
    MaxPub = 4
INVARIANTS
    ConnectionsAlive
CHECK_DEADLOCK FALSE
