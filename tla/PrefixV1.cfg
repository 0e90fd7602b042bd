SPECIFICATION Spec
CONSTANTS
    r1 = r1
    r2 = r2
    tA = tA
    tB = tB
    Requests = {r1, r2}
    Prompt <- MCPrompt
    Unfilled = {}
    NumGpu = 3
    NumCpu = 0
    MaxSeqBlocks = 2
    Hierarchical = FALSE
    MaxNodes = 6
    Dec = 1
    MaxTable = 3
    MaxMatch = 3
    NoNode = NoNode
    Nobody = Nobody
INVARIANT SharedOnlyAsPrefix
CHECK_DEADLOCK FALSE
