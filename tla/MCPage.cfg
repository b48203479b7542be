\* Two jobs, two fetches at once, two clicks.
SPECIFICATION FairSpec
CONSTANTS
    Jobs = {j1, j2}
    Fetches = {f1, f2}
    Nobody = Nobody
    MaxClicks = 2
    MaxLapses = 1
INVARIANT NeverLockedOut
INVARIANT OneAtATime
PROPERTY PolledToTheEnd
PROPERTY EndTold
CHECK_DEADLOCK FALSE
