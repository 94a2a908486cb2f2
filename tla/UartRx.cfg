SPECIFICATION Spec
CONSTANTS
    ChunkSize = 2
    ChunkCount = 2
    FrameLength = 1
    NewUsartIp = FALSE
    FailThreshold = 2
    Baud = 768000
    CheckPeriod = 200
    Cts = FALSE
    RebaudAllowed = FALSE
    Races = {}
    MaxBytes = 5
    MaxSends = 0
    MaxFaults = 1
    MaxFails = 1
INVARIANTS TypeOK SlotDiscipline DmaOwnsItsTarget NoForgottenWork
PROPERTY StreamFaithful
