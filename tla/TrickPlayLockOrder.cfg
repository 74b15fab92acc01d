\* One trick-play request and one channel switch: the timer's
\* updateTrickPlayPosition and reset() take the same two mutexes in
\* opposite orders.
CONSTANTS
    Speeds <- MCSpeeds
    Cap <- MCCap
    MaxRequests = 1
    MaxSeeks = 0
    MaxSwitches = 1
SPECIFICATION Spec
INVARIANT NoLockWaitCycle
