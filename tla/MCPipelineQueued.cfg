\* The API goes down between the commit and the dispatch.
SPECIFICATION FairSpec
CONSTANTS
    Deliveries = {d1}
    Requests = {r1}
    RetryCount = 0
    FaultKinds = {"api_crash"}
    MaxFaults = 1
PROPERTY QueuedIsTaken
CHECK_DEADLOCK FALSE
