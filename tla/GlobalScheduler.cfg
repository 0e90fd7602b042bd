SPECIFICATION Spec
CONSTANTS
    s1 = s1
    s2 = s2
    qa = qa
    qb = qb
    Scheds = {s1, s2}
    Reqs = {qa, qb}
    Home <- MCHome
    Batch = 2
    MinLoad = 1
    Length <- MCLength
    Resets = {s1, s2}
    Crashes = {s2}
    Nothing = Nothing
INVARIANTS
    TypeOK
    InOnePlace
    StreamsIntact
    LoadIsQueueLength
CHECK_DEADLOCK FALSE
