\* Two endpoints of one type, two messages and two transports: building,
\* growing, encoding, retrying, and messages offered to the wrong endpoint.
SPECIFICATION EndpointSpec
CONSTANTS
    FullCode = 3
    Endpoints = {e1, e2}
    Messages = {m1, m2}
    Transports = {t1, t2}
    TxBlocks = {b1, b2}
    None = None
    Format <- Small
    Checksum <- SumOfBytes
    GrantSizes <- MCGrantSizes
    Texts <- MCTexts
    Hints <- MCHints
    TextBytes = {1}
    MaxHint = 3
INVARIANTS OneOwner PayloadKept FramesAreExact BorrowIsHeld
SYMMETRY Alike
CHECK_DEADLOCK FALSE
