CONSTANTS
    Kinds = {"Map", "PriorityQueue", "List", "Heap", "Calendar", "ReverseCalendar"}
    RemovingKinds = {"Map", "PriorityQueue", "List", "Calendar", "ReverseCalendar"}
    Delays = {0, 3, 40}
    MaxEvents = 5
    Nothing = Nothing
SPECIFICATION Spec
INVARIANT PeekShowsLeast
PROPERTY ImplementsScheduler
