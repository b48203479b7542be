\* What a cancellation is worth between a stage's check and its status write.
SPECIFICATION Spec
CONSTANTS
    Deliveries = {d1}
    Requests = {r1}
    RetryCount = 0
    FaultKinds = {}
    MaxFaults = 0
SYMMETRY Symmetry
PROPERTY CancelHonoured
CHECK_DEADLOCK FALSE
