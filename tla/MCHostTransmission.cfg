SPECIFICATION Spec
CONSTANTS
    Conn = {1, 2, 3}
    Key = {1, 2}
    Reaction <- Reactions
    MaxFailing = 1
    MaxPub = 4
INVARIANTS
    ConnectionsAlive
    CleanedUp
CHECK_DEADLOCK FALSE
