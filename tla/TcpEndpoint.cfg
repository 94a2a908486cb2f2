SPECIFICATION TcpSpec
CONSTANTS
    BlockCount = 1
    Modulus = 1
    Format <- OneCrcByte
    Checksum <- Sum
    Frames <- Requests
    MaxFrames = 3
    MaxBoundaries = 1
    TxBlocks = 2
    Handles = {h1, h2}
    Payload = {7}
    MaxAnswers = 2
SYMMETRY Alike
INVARIANTS FailsClosed BlocksHaveOneOwner WireIsWhole
