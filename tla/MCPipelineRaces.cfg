\* Two chains, a user who cancels and retries, and the sweep; no faults.
\* Settled jobs stop.
SPECIFICATION Spec
CONSTANTS
    Deliveries = {d1, d2}
    Requests = {r1}
    RetryCount = 1
    FaultKinds = {}
    MaxFaults = 0
SYMMETRY Symmetry
INVARIANT NoOrphan
INVARIANT CompletedIsWhole
INVARIANT CompletedHasSubtitles
PROPERTY ImplementsLifecycle
PROPERTY Advances
CHECK_DEADLOCK FALSE
