SPECIFICATION Spec
CONSTANTS
    r1 = r1
    r2 = r2
    r3 = r3
    Requests = {r1, r2}
    Prompt <- Prompt31
    NumBlocks = 6
    BlockSize = 1
    MaxSeqs = 2
    Budget = 2
    EncDec = 1
    Threshold = 0
    NoReq = NoReq
    NoSlot = NoSlot
    Nothing = Nothing
    Arrivals <- Arrive12
    MaxTokens = 1
    MinTokens = 1
    WithStops = {}
    MaxMsgs = 1
    MaxJobs = 1
INVARIANT OutputBounded
