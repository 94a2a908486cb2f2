SPECIFICATION Spec
CONSTANTS
    FullCode = 4
    MaxPayload = 6
    Stale = 3
    Payloads <- MCPayloads
    Sizes <- MCSizes
    Offsets <- MCOffsets
INVARIANTS InPlaceIsSafe Canonical RoundTrip
CHECK_DEADLOCK FALSE
