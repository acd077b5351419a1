SPECIFICATION Spec
CONSTANTS
    Guest = {"a", "b"}
    Unknown = 1
    MaxSent = 1
INVARIANT AcceptsTheLiving
CHECK_DEADLOCK FALSE
