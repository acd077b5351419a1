SPECIFICATION FairSpec
CONSTANTS
    o1 = o1
    o2 = o2
    Obj = {o1, o2}
    MaxData = 3
INVARIANTS
    TypeOK
    NeverIdle
PROPERTIES
    NotCalledAfterwards
    KeepsCalling
