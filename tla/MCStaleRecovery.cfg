\* In units of ten minutes: a limit of half an hour, a timeout of an hour.  A job that is over stops.
SPECIFICATION Spec
CONSTANTS
    StaleTimeout <- DefaultStaleTimeout
    Interval <- DefaultInterval
    TimeLimit <- DefaultTimeLimit
    RetryCount = 2
    MaxLag = 2
    MaxWait = 2
    MaxCrashes = 1
INVARIANT NoLingering
INVARIANT SilenceBounded
PROPERTY FirstRunSpared
CHECK_DEADLOCK FALSE
