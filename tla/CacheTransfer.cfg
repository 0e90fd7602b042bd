SPECIFICATION FairSpec
CONSTANTS
    r0 = r0
    r1 = r1
    r2 = r2
    Ranks = {r0, r1}
    Rank0 = r0
    MaxTasks = 2
INVARIANTS
    TypeOK
    ReadInOrder
    DoneMeansMoved
PROPERTY SwapsFinish
CHECK_DEADLOCK FALSE
