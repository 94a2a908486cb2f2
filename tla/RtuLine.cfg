SPECIFICATION Spec
CONSTANTS
    Format <- OneCrcByte
    Checksum <- Sum
    Framer <- standard_layout
    Rx = "Response"
    RxBlocks = 1
    NoFrame = NoFrame
    ChunkSize = 2
    ChunkCount = 2
    Rates = {9600}
    Wrap = 16
    idle_stale_ms = 3
    full_chunk_guard_ms = 1
    fallback_ms = 3
    TickRate = 1000
    MaxDelay = 100
    Frames <- Answers
    MaxBusy = 1
    MaxFrames = 2
    MaxFaults = 1
    MaxAways = 1
    MaxQuiet = 13
    DeadBound = 13
INVARIANTS FrameInFlight DeadFramesGo NoOversleeping
PROPERTIES StreamVerdict OnlySilenceKills
