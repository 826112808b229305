CONSTANTS
    Delays = {0, 1}
    MaxEvents = 3
    UidMod = 100
SPECIFICATION Spec
INVARIANT CoreTypeOK
INVARIANT NothingInThePast
INVARIANT ExpiredIffDone
INVARIANT CancelledNeverRuns
INVARIANT RunsOnce
INVARIANT FlagTellsTheTruth
INVARIANT Fifo
PROPERTY RunEnds
