\* Two exchanges with a fetch each, performed step by step (no symmetry).
SPECIFICATION FairService
CONSTANTS
    Exchanges = {e1, e2}
    NoOne = NoOne
    MaxFetches = 1
    MaxPending = 1
    MaxChunk = 1
    MaxSent = 1
    Limits = {}
    Timeouts = {}
    DefaultLimit = 1
    DefaultTimeout = 2
    NanosPerMilli = 1
    MaxU64 = 3
INVARIANTS
    FetchInTime
PROPERTIES
    BridgeAsAssumed
