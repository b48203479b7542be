\* Two faults of workers and publishing; no retries.  Settled jobs stop.
SPECIFICATION Spec
CONSTANTS
    Deliveries = {d1, d2}
    Requests = {r1}
    RetryCount = 0
    FaultKinds = {"crash", "lost_child", "duplicate", "broker_error"}
    MaxFaults = 2
SYMMETRY Symmetry
INVARIANT NoOrphan
INVARIANT CompletedIsWhole
PROPERTY NoRegress
PROPERTY OutputsStay
CHECK_DEADLOCK FALSE
