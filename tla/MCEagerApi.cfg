\* No symmetry, which is not sound for liveness.
SPECIFICATION EagerFairSpec
CONSTANTS
    u1 = u1
    u2 = u2
    t1 = t1
    t2 = t2
    t3 = t3
    Uploads <- TwoUploads
    QueueMaxLength = 1
    MaxConcurrentUploads = 1
    MaxRetriable = 1
    Threads <- ThreeThreads
    MaxProcessing = 2
    MaxOverlaps = 1
INVARIANT PermitsBalance
INVARIANT OvershootBounded
INVARIANT SlotsBalance
INVARIANT GaugeExact
INVARIANT NoStandstill
PROPERTY Answered
PROPERTY Served
