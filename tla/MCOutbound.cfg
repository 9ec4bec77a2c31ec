\* Limits below, at and above what an upstream sends (0 included); timeouts
\* that are zero, small, and past saturation.
SPECIFICATION FairSpec
CONSTANTS
    MaxChunk = 2
    MaxSent = 4
    Limits = {0, 2, 3}
    Timeouts = {0, 2, 5}
    DefaultLimit = 4
    DefaultTimeout = 1
    NanosPerMilli = 2
    MaxU64 = 7
INVARIANTS
    TypeOK
    OkIsWhole
    BufferBounded
    TooLargeExceeds
    TimedOutIsLate
PROPERTIES
    PerformReturns
    NeedsNoDeadline
