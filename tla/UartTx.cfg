SPECIFICATION Spec
CONSTANTS
    ChunkSize = 2
    ChunkCount = 2
    FrameLength = 2
    NewUsartIp = FALSE
    FailThreshold = 2
    Baud = 768000
    CheckPeriod = 200
    Cts = TRUE
    RebaudAllowed = TRUE
    Races = {}
    MaxBytes = 1
    MaxSends = 2
    MaxFaults = 1
    MaxFails = 1
INVARIANTS BorrowSafe BaudChangeIsQuiet CtsHoldsForever
PROPERTIES LoanKept LatchedFailureWins
