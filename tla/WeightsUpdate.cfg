SPECIFICATION FairSpec
CONSTANTS
    r0 = r0
    r1 = r1
    r2 = r2
    k1 = k1
    k2 = k2
    Ranks = {r0, r1}
    Rank0 = r0
    Callers = {k1}
    MaxCalls = 2
PROPERTY UpdateFinishes
CHECK_DEADLOCK FALSE
