SPECIFICATION Spec
CONSTANTS
    r1 = r1
    r2 = r2
    r3 = r3
    r4 = r4
    r5 = r5
    tA = tA
    tB = tB
    tC = tC
    Requests = {r1, r2, r3, r4, r5}
    Prompt <- MCPrompt
    Unfilled <- MCUnfilled
    NumGpu = 5
    NumCpu = 3
    MaxSeqBlocks = 3
    Hierarchical = TRUE
    MaxNodes = 7
    Dec = 1
    NoNode = NoNode
    Nobody = Nobody
INVARIANTS
    TypeOK
    GpuBlocksOwnedOnce
    CpuBlocksOwnedOnce
    SharedCountsUsers
    PromptBlocksKept
    UnusedLeavesEvictable
    EvictionFindsRoom
PROPERTY EveryRequestAdmitted
CHECK_DEADLOCK FALSE
