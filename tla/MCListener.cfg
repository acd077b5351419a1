SPECIFICATION Spec
CONSTANTS
    Listener = {"tcp", "websocket"}
    Kind <- MCKind
    Channel = {"c", "d"}
    MaxId = 2
    MaxSent = 3
INVARIANTS
    TypeOK
    NeverDeaf
    PayloadsAreRight
CHECK_DEADLOCK FALSE
