\* Conversions between seek time and byte offset while the index fills,
\* wraps its circular buffer and is cleared by one channel switch.  The
\* run ends when the chunk and request budgets are spent.
CONSTANTS
    Ratio = 2
    BufCap = 3
    IndexCap = 2
    Gaps <- MCGaps
    MaxChunks = 7
    MaxClears = 1
    MaxSeeks = 2
    MaxTime = 5
    MaxBytes = 3
SPECIFICATION Spec
INVARIANT TypeOK SeekOffsetCorrect TimeInterpolated
