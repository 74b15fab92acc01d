\* The poll thread from socket creation to stop(), two interfaces, three
\* kernel changes, one netlink overrun and failing dump requests, with the
\* threads scheduled fairly.  The run ends once the bounds are spent and
\* every thread waits or has returned.
CONSTANTS
    IfaceOrder <- MCIfaceOrder
    Metrics <- MCMetrics
    MaxEvents = 3
    MaxOverruns = 1
    SendMayFail = TRUE
SPECIFICATION FairSpec
INVARIANT TypeOK KernelRoutesKnown
PROPERTY StopJoins
CHECK_DEADLOCK FALSE
