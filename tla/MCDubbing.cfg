\* Three segments, two to a batch, two turns of two speakers.  The job is done.
SPECIFICATION Spec
CONSTANTS
    Grid <- FineGrid
    MaxSegments = 3
    MaxTurns = 2
    Labels = {1, 4}
    Ticks = 2
    AudioLengths <- Lengths
    BatchSize = 2
    PoolSize = 3
INVARIANT OwnWords
INVARIANT NothingLeftOut
INVARIANT AttributedToMost
INVARIANT VoicesTellApart
INVARIANT AlmostApart
INVARIANT NaturalPace
CHECK_DEADLOCK FALSE
