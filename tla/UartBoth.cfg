SPECIFICATION FairSpec
CONSTANTS
    ChunkSize = 2
    ChunkCount = 2
    FrameLength = 2
    NewUsartIp = TRUE
    FailThreshold = 1
    Baud = 768000
    CheckPeriod = 200
    Cts = FALSE
    RebaudAllowed = FALSE
    Races = {}
    MaxBytes = 1
    MaxSends = 1
    MaxFaults = 1
    MaxFails = 1
INVARIANTS DmaOwnsItsTarget
PROPERTIES LoanKept EveryFrameIsSettled
