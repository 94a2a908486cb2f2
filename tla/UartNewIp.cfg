SPECIFICATION Spec
CONSTANTS
    ChunkSize = 2
    ChunkCount = 2
    FrameLength = 1
    NewUsartIp = TRUE
    FailThreshold = 2
    Baud = 768000
    CheckPeriod = 200
    Cts = FALSE
    RebaudAllowed = FALSE
    Races = {"reclaim"}
    MaxBytes = 5
    MaxSends = 0
    MaxFaults = 0
    MaxFails = 0

PROPERTY StreamFaithful
