\* The same settings; retries and the queue keep a live job silent for an hour.
SPECIFICATION Spec
CONSTANTS
    StaleTimeout <- DefaultStaleTimeout
    Interval <- DefaultInterval
    TimeLimit <- DefaultTimeLimit
    RetryCount = 3
    MaxLag = 0
    MaxWait = 1
    MaxCrashes = 0
PROPERTY OnlyDeadSwept
CHECK_DEADLOCK FALSE
