\* One chain, one request at a time, two faults, under fairness.  No symmetry,
\* which is not sound for liveness.  Settled jobs stop.
SPECIFICATION FairSpec
CONSTANTS
    Deliveries = {d1}
    Requests = {r1}
    RetryCount = 1
    FaultKinds = {"crash", "lost_child", "broker_error"}
    MaxFaults = 2
PROPERTY Settles
PROPERTY ExecutionsEnd
PROPERTY QueueMoves
CHECK_DEADLOCK FALSE
