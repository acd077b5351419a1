SPECIFICATION FairSpec
CONSTANTS
    Stages = 2
    Limit = 1
    MaxIn = 3
    MaxOut = 4
INVARIANTS
    TypeOK
    OneRead
    NoStall
    WriteOrder
    Flushed
PROPERTY
    Written
CHECK_DEADLOCK FALSE
