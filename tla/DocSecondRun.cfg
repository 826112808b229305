CONSTANTS
    Delays = {0, 2}
    Epoch = 10
    SpinMargin = 1
    IdleDelay = 2
    MaxWall = 13
    MaxEvents = 2
    MaxRuns = 2
SPECIFICATION Spec
INVARIANT NoAssertFails
