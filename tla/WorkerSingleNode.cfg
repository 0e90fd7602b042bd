SPECIFICATION FairSpec
CONSTANTS
    r0 = r0
    r1 = r1
    r2 = r2
    Clients = {r0, r1, r2}
    Rank0 = r0
    Leaders = {r0}
    MultiNode = FALSE
    MultiModal = FALSE
    MaxBatches = 3
    MaxInfoPuts = 1
INVARIANTS
    TypeOK
    ExactlyOnce
    InfoExactlyOnce
    Lockstep
    PhaseInv
PROPERTIES
    EveryBatchRead
    ImplementsBroadcast
