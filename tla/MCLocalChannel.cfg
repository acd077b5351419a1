SPECIFICATION Spec
CONSTANTS
    Guest = {"a", "b"}
    Unknown = 1
    MaxSent = 2
INVARIANTS
    TypeOK
    Delivered
CHECK_DEADLOCK FALSE
