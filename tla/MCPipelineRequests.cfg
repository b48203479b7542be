\* Two requests at a time on one chain, with a fault of worker, broker or API.  Settled jobs stop.
SPECIFICATION Spec
CONSTANTS
    Deliveries = {d1}
    Requests = {r1, r2}
    RetryCount = 1
    FaultKinds = {"crash", "lost_message", "api_crash"}
    MaxFaults = 1
SYMMETRY Symmetry
INVARIANT TypeOK
INVARIANT WorkInOrder
PROPERTY CancelSettles
PROPERTY ImplementsLifecycle
PROPERTY PhasesInTurn
CHECK_DEADLOCK FALSE
