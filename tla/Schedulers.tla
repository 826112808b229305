----------------------------- MODULE Schedulers -----------------------------
(***************************************************************************)
(* The event queue of a simulator: it inserts events that lie ahead, takes *)
(* the next, removes one, and may exchange one Scheduler for another at    *)
(* any moment (SetScheduler).  Whichever it uses, the queue implements     *)
(* PriorityQueue.                                                          *)
(*                                                                         *)
(* The std::map of MapScheduler and the std::priority_queue of             *)
(* PriorityQueueScheduler are sets with a least element.                   *)
(***************************************************************************)
EXTENDS HeapScheduler, CalendarScheduler

CONSTANTS
    Kinds,          \* the schedulers that may be chosen
    RemovingKinds,  \* those whose users call Remove
    Delays, MaxEvents,
    Nothing

ASSUME SchedulersAssumption ==
    /\ RemovingKinds \subseteq Kinds
    /\ Kinds \subseteq {"Map", "PriorityQueue", "List", "Heap", "Calendar", "ReverseCalendar"}
    /\ Delays \subseteq Nat /\ MaxEvents \in Nat

VARIABLES
    kind,     \* the class of m_events
    store,    \* its representation
    now,      \* m_currentTs
    uid,      \* m_uid
    taken     \* the event taken last

vars == <<kind, store, now, uid, taken>>

---------------------------------------------------------------------------
(* The interface of Scheduler, for each kind                               *)

IsSet(k) == k \in {"Map", "PriorityQueue"}
IsCalendar(k) == k \in {"Calendar", "ReverseCalendar"}

Empty(k) == CASE IsSet(k) -> {}
              [] k = "List" -> << >>
              [] k = "Heap" -> HeapEmpty
              [] IsCalendar(k) -> CalendarEmpty(k = "ReverseCalendar")

Contents(k, s) == CASE IsSet(k) -> s
                    [] k \in {"List", "Heap"} -> Range(s)
                    [] IsCalendar(k) -> CalendarContents(s)

Least(S) == CHOOSE e \in S : \A f \in S \ {e} : Precedes(e, f)

ListInsert(s, e) ==
    LET later == {i \in DOMAIN s : Precedes(e, s[i])}
    IN  InsertAt(s, IF later = {} THEN Len(s) + 1 ELSE Min(later), e)

Insert(k, s, e) == CASE IsSet(k) -> s \cup {e}
                     [] k = "List" -> ListInsert(s, e)
                     [] k = "Heap" -> HeapInsert(s, e)
                     [] IsCalendar(k) -> CalendarInsert(s, e)

PeekNext(k, s) == CASE IsSet(k) -> Least(s)
                    [] k = "List" -> Head(s)
                    [] k = "Heap" -> HeapPeekNext(s)
                    [] IsCalendar(k) -> CalendarPeekNext(s)

RemoveNext(k, s) == CASE IsSet(k) -> s \ {Least(s)}
                      [] k = "List" -> Tail(s)
                      [] k = "Heap" -> HeapRemoveNext(s)
                      [] IsCalendar(k) -> CalendarRemoveNext(s)

\* The event is looked up by its uid, in a map by its key.
RemoveEvent(k, s, e) == CASE IsSet(k) -> {f \in s : f.uid # e.uid}
                     [] k = "List" -> RemoveAt(s, CHOOSE n \in DOMAIN s : s[n].uid = e.uid)
                     [] k = "Heap" -> HeapRemove(s, e)
                     [] IsCalendar(k) -> CalendarRemove(s, e)

\* What RemoveNext returns
Returned(k, s) == CHOOSE e \in Contents(k, s) : e \notin Contents(k, RemoveNext(k, s))

---------------------------------------------------------------------------
Init ==
    /\ kind \in Kinds /\ store = Empty(kind)
    /\ now = 0 /\ uid = 1 /\ taken = Nothing

EventScheduled ==
    /\ uid <= MaxEvents /\ uid' = uid + 1
    /\ \E d \in Delays : store' = Insert(kind, store, [ts |-> now + d, uid |-> uid])
    /\ UNCHANGED <<kind, now, taken>>

EventTaken ==
    /\ Contents(kind, store) # {}
    /\ taken' = Returned(kind, store) /\ now' = taken'.ts
    /\ store' = RemoveNext(kind, store)
    /\ UNCHANGED <<kind, uid>>

EventRemoved ==
    /\ kind \in RemovingKinds
    /\ \E e \in Contents(kind, store) : store' = RemoveEvent(kind, store, e)
    /\ UNCHANGED <<kind, now, uid, taken>>

\* The events move in the order the old scheduler gives them out.
Moved(from, to) ==
    LET n == Cardinality(Contents(from, store))
        left[i \in 0 .. n] == IF i = 0 THEN store ELSE RemoveNext(from, left[i - 1])
        moved[i \in 0 .. n] ==
            IF i = 0 THEN Empty(to)
            ELSE Insert(to, moved[i - 1], Returned(from, left[i - 1]))
    IN  moved[n]

SetScheduler ==
    \E k \in Kinds \ {kind} :
        /\ kind' = k /\ store' = Moved(kind, k)
        /\ UNCHANGED <<now, uid, taken>>

\* Everything has been scheduled that the bound allows, and has run.
Done == uid > MaxEvents /\ Contents(kind, store) = {} /\ UNCHANGED vars

Next == EventScheduled \/ EventTaken \/ EventRemoved \/ SetScheduler \/ Done

Spec == Init /\ [][Next]_vars

---------------------------------------------------------------------------
(* Properties                                                              *)

P == INSTANCE PriorityQueue WITH events <- Contents(kind, store)

\* What each call does to the events held: scheduling inserts, Run takes the
\* least, and an exchange neither loses nor adds one.
CallsMatch == [][/\ uid' # uid => P!Insert
                 /\ taken' # taken => P!RemoveNext
                 /\ kind' # kind => UNCHANGED P!vars]_vars

\* scheduler.h: whichever scheduler is used, and whenever it is exchanged for
\* another, the events come out in the order of their keys and none is lost.
ImplementsScheduler == P!Spec /\ CallsMatch

\* PeekNext shows the event that RemoveNext would take: the real-time simulator
\* waits for the one and takes the other.
PeekShowsLeast ==
    Contents(kind, store) # {} =>
        PeekNext(kind, store) = Least(Contents(kind, store))
=============================================================================
