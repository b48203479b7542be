\* A cancelled job retried while its chain is still on its way.
SPECIFICATION Spec
CONSTANTS
    Deliveries = {d1}
    Requests = {r1}
    RetryCount = 1
    FaultKinds = {}
    MaxFaults = 0
SYMMETRY Symmetry
INVARIANT CompletedDownloadable
CHECK_DEADLOCK FALSE
