CONSTANTS
    Delays = {0, 2}
    Epoch = 10
    SpinMargin = 1
    IdleDelay = 2
    MaxWall = 13
    MaxEvents = 2
    MaxRuns = 1
SPECIFICATION Spec
INVARIANT RealtimeTypeOK
INVARIANT NoLostWakeup
INVARIANT NoAssertFails
PROPERTY NeverEarly
PROPERTY DueEventsRun
PROPERTY StopEndsRun
