SPECIFICATION FairSpec
CONSTANTS
    r1 = r1
    r2 = r2
    r3 = r3
    Requests = {r1, r2}
    Prompt <- Prompt31
    NumBlocks = 6
    BlockSize = 1
    MaxSeqs = 1
    Budget = 2
    EncDec = 1
    Threshold = 0
    NoReq = NoReq
    NoSlot = NoSlot
    Nothing = Nothing
    Arrivals <- Arrive12
    MaxTokens = 2
    MinTokens = 1
    WithStops = {r2}
    MaxMsgs = 1
    MaxJobs = 1
PROPERTY EveryRequestFinishes
