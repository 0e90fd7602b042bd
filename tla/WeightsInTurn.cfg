SPECIFICATION Spec
CONSTANTS
    r0 = r0
    r1 = r1
    r2 = r2
    k1 = k1
    k2 = k2
    Ranks = {r0, r1, r2}
    Rank0 = r0
    Callers = {k1, k2}
    MaxCalls = 4
CONSTRAINT UntilRaced
INVARIANTS
    TypeOK
    RunsWithWeights
PROPERTY TrueAnswers
CHECK_DEADLOCK FALSE
