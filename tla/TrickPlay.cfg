\* Trick-play requests, a seek request and a channel switch racing the
\* timer thread.  The run stops when every request has been served and
\* all threads wait for input, or in the lock-order deadlock that
\* TrickPlayLockOrder.cfg reports.
CONSTANTS
    Speeds <- MCSpeeds
    Cap <- MCCap
    MaxRequests = 2
    MaxSeeks = 1
    MaxSwitches = 1
SPECIFICATION Spec
INVARIANT TypeOK TrickFileMatchesSpeed
CHECK_DEADLOCK FALSE
