\* Either format, chosen in the initial states: one length byte and a
\* checksum, or two and none, with packets that may be empty.
SPECIFICATION ReceiverSpec
CONSTANTS
    FullCode = 3
    Blocks = {b1, b2}
    Handles = {h1, h2}
    NoBlock = NoBlock
    NoPacket = NoPacket
    Formats <- BothFormats
    Checksum <- SumOfBytes
    MaxChunk <- ChunkOf
    MaxGaps <- GapsOf
SYMMETRY Interchangeable
INVARIANTS WritesAreOwned PacketsAccounted
PROPERTIES FrameVerdict PacketsAreValues BlocksAreOwned
CHECK_DEADLOCK FALSE
