\* Two trick-play requests and a fair scheduler.  Every thread
\* eventually waits for input, so the run may stop.
CONSTANTS
    Speeds <- MCSpeeds
    Cap <- MCCap
    MaxRequests = 2
    MaxSeeks = 0
    MaxSwitches = 0
SPECIFICATION FairSpec
PROPERTY TrickPlayEventuallyEnds
CHECK_DEADLOCK FALSE
