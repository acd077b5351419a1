SPECIFICATION Spec
CONSTANTS
    Listener = {"tcp", "websocket"}
    Kind <- MCKind
    Channel = {"c", "d"}
    MaxId = 2
    MaxSent = 3
INVARIANT CacheOutlivesChannels
CHECK_DEADLOCK FALSE
