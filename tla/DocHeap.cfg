CONSTANTS
    Kinds = {"Heap"}
    RemovingKinds = {"Heap"}
    Delays = {1, 9}
    MaxEvents = 8
    Nothing = Nothing
SPECIFICATION Spec
PROPERTY ImplementsScheduler
