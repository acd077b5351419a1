SPECIFICATION Spec
CONSTANTS
    Stages = 2
    Limit = 1
    MaxIn = 2
    MaxOut = 1
INVARIANT
    NoUseAfterDestruction
CHECK_DEADLOCK FALSE
