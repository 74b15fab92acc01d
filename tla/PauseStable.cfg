\* Pause, resume, reads, a seek and a handle release while chunks arrive.
\* The run ends when every request has been served and every thread waits
\* for input.
CONSTANTS
    Ratio <- MCRatio
    CapSamples <- MCCapSamples
    MaxChunks = 5
    MaxReads = 2
    MaxStateReqs = 2
    MaxSeeks = 1
    MaxReleases = 1
    MaxTime = 2
SPECIFICATION Spec
INVARIANT TypeOK PauseTimeWithinElapsed
CHECK_DEADLOCK FALSE
