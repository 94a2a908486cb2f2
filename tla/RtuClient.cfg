SPECIFICATION FairSpec
CONSTANTS
    None = None
    Broadcast = Broadcast
    Slave = Slave
    Other = Other
    Plans <- Sessions
    stale_silence_ms = 1
    response_timeout_ms = 2
    retries = 1
    turnaround_delay_ms = 2
    inter_frame_delay_ms = 1
    MaxFaults = 2
INVARIANTS HandlerRunsOnce NothingIsStranded AnswersAreFresh
PROPERTIES GapsAreKept EveryRequestFinishes
