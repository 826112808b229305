--------------------------- MODULE PriorityQueue ---------------------------
(***************************************************************************)
(* What scheduler.h promises of every Scheduler: it holds the events that  *)
(* were inserted and neither taken nor removed, and RemoveNext takes the   *)
(* one with the least key.                                                 *)
(***************************************************************************)
EXTENDS EventKeys

CONSTANT Nothing    \* stands for no event

VARIABLES
    events,     \* the events held
    taken       \* what RemoveNext has returned last

vars == <<events, taken>>

Init == events = {} /\ taken = Nothing

Insert == \E e \in events' \ events : events' = events \cup {e} /\ UNCHANGED taken

Remove == \E e \in events : events' = events \ {e} /\ UNCHANGED taken

RemoveNext ==
    \E e \in events :
        /\ \A f \in events \ {e} : Precedes(e, f)
        /\ events' = events \ {e} /\ taken' = e

Next == Insert \/ Remove \/ RemoveNext

Spec == Init /\ [][Next]_vars
=============================================================================
