\* A seek to the same time before and after a channel switch.
CONSTANTS
    Ratio = 2
    BufCap = 3
    IndexCap = 2
    Gaps <- MCGaps
    MaxChunks = 7
    MaxClears = 1
    MaxSeeks = 2
    MaxTime = 5
    MaxBytes = 3
SPECIFICATION Spec
INVARIANT OffsetWithinIndex
