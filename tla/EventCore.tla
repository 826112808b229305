----------------------------- MODULE EventCore -----------------------------
(***************************************************************************)
(* DefaultSimulatorImpl as its users see it: the thread that runs the      *)
(* loop, whose handlers schedule, cancel, remove and stop, and the other   *)
(* threads, which may call ScheduleWithContext at any moment.  Their       *)
(* events wait in a list of their own, guarded by a lock; the flag that    *)
(* says whether it is empty is read without the lock.                      *)
(*                                                                         *)
(* An event has a key (ts, uid) and an EventImpl, which is a number here:  *)
(* the order of creation.  An EventId is the same record, and may be kept  *)
(* for ever.                                                               *)
(***************************************************************************)
EXTENDS Integers, Sequences, FiniteSets

CONSTANTS
    Delays,      \* the relative times events are scheduled at
    MaxEvents,   \* bound: how many EventImpls the users create
    UidMod       \* m_uid is a uint32_t

\* EventId::UID
INVALID == 0
DESTROY == 2
VALID   == 4

ASSUME EventCoreAssumption ==
    Delays \subseteq Nat /\ MaxEvents \in Nat /\ UidMod \in Nat /\ UidMod > VALID

VARIABLES
    pc,             \* where the main thread is
    queue,          \* m_events
    uid,            \* m_uid
    current,        \* m_currentTs and m_currentUid
    unscheduled,    \* m_unscheduledEvents
    stop,           \* m_stop
    pushed,         \* m_eventsWithContext
    pushedEmpty,    \* m_eventsWithContextEmpty
    destroyEvents,  \* m_destroyEvents
    cancelled,      \* the EventImpls with m_cancel set
    created,        \* how many EventImpls there are
    ids,            \* history: the EventIds returned
    ran             \* history: the EventImpls invoked, in this order

loopVars == <<queue, uid, current, unscheduled, stop>>
threadVars == <<pushed, pushedEmpty>>
historyVars == <<created, ids, ran>>
vars == <<pc, loopVars, threadVars, destroyEvents, cancelled, historyVars>>

\* Fault: of two events of one time the later one comes first
PrecedesNewest(e, f) == e.ts < f.ts \/ (e.ts = f.ts /\ e.uid > f.uid)

Precedes(e, f) == e.ts < f.ts \/ (e.ts = f.ts /\ e.uid < f.uid)

Init ==
    /\ pc = "outside"
    /\ queue = {} /\ uid = VALID /\ current = [ts |-> 0, uid |-> INVALID]
    /\ unscheduled = 0 /\ stop = FALSE
    /\ pushed = << >> /\ pushedEmpty = TRUE
    /\ destroyEvents = << >> /\ cancelled = {}
    /\ created = 0 /\ ids = {} /\ ran = << >>

\* The main thread executes code of a user: before, between and after the
\* runs, in a handler, and in a destroy event.
UserCode == pc \in {"outside", "handler", "destroyHandler"}

---------------------------------------------------------------------------
(* The operations of the main thread                                       *)

IsCancelled(id) == id.impl \in cancelled

\* Fault: an event that is running has not expired yet
IsExpiredAfterwards(id) ==
    IF id.uid = DESTROY
    THEN IsCancelled(id) \/ \A i \in DOMAIN destroyEvents : destroyEvents[i] # id
    ELSE \/ id.ts < current.ts
         \/ id.ts = current.ts /\ id.uid < current.uid
         \/ IsCancelled(id)

IsExpired(id) ==
    IF id.uid = DESTROY
    THEN IsCancelled(id) \/ \A i \in DOMAIN destroyEvents : destroyEvents[i] # id
    ELSE \/ id.ts < current.ts
         \/ id.ts = current.ts /\ id.uid <= current.uid
         \/ IsCancelled(id)

\* Also ScheduleNow, Stop(delay), and ScheduleWithContext in this thread
Schedule ==
    /\ UserCode /\ created < MaxEvents
    /\ \E d \in Delays :
        LET e == [ts |-> current.ts + d, uid |-> uid, impl |-> created + 1]
        IN  /\ queue' = queue \cup {e}
            /\ ids' = ids \cup {e}
    /\ uid' = (uid + 1) % UidMod
    /\ unscheduled' = unscheduled + 1
    /\ created' = created + 1
    /\ UNCHANGED <<pc, current, stop, threadVars, destroyEvents, cancelled, ran>>

\* m_uid is advanced although the identifier is DESTROY
ScheduleDestroy ==
    /\ UserCode /\ created < MaxEvents
    /\ LET id == [ts |-> current.ts, uid |-> DESTROY, impl |-> created + 1]
       IN  /\ destroyEvents' = Append(destroyEvents, id)
           /\ ids' = ids \cup {id}
    /\ uid' = (uid + 1) % UidMod
    /\ created' = created + 1
    /\ UNCHANGED <<pc, queue, current, unscheduled, stop, threadVars, cancelled,
                   ran>>

\* The event stays where it is; EventImpl::Invoke will do nothing.
Cancel ==
    /\ UserCode
    /\ \E id \in ids : ~IsExpired(id) /\ cancelled' = cancelled \cup {id.impl}
    /\ UNCHANGED <<pc, loopVars, threadVars, destroyEvents, historyVars>>

\* std::list::erase
Erase(s, i) == [j \in 1 .. Len(s) - 1 |-> IF j < i THEN s[j] ELSE s[j + 1]]

\* Remove of an identifier of ScheduleDestroy; the list holds none twice.
RemoveDestroy ==
    /\ UserCode
    /\ \E i \in DOMAIN destroyEvents :
        /\ destroyEvents[i] \in ids
        /\ destroyEvents' = Erase(destroyEvents, i)
    /\ UNCHANGED <<pc, loopVars, threadVars, cancelled, historyVars>>

\* Fault: the early return for an expired event is missing
RemoveExpired ==
    /\ UserCode
    /\ \E id \in ids :
        /\ id.uid # DESTROY
        /\ queue' = queue \ {id}
        /\ cancelled' = cancelled \cup {id.impl}
    /\ unscheduled' = unscheduled - 1
    /\ UNCHANGED <<pc, uid, current, stop, threadVars, destroyEvents, historyVars>>

Remove ==
    /\ UserCode
    /\ \E id \in ids :
        /\ id.uid # DESTROY /\ ~IsExpired(id)
        /\ queue' = {e \in queue : e.ts # id.ts \/ e.uid # id.uid}
        /\ cancelled' = cancelled \cup {id.impl}
    /\ unscheduled' = unscheduled - 1
    /\ UNCHANGED <<pc, uid, current, stop, threadVars, destroyEvents, historyVars>>

Stop ==
    /\ UserCode
    /\ stop' = TRUE
    /\ UNCHANGED <<pc, queue, uid, current, unscheduled, threadVars, destroyEvents,
                   cancelled, historyVars>>

---------------------------------------------------------------------------
(* The other threads                                                       *)

\* Fault: the flag is forgotten
ScheduleWithContextUnflagged ==
    /\ pc # "gone" /\ created < MaxEvents
    /\ \E d \in Delays :
        pushed' = Append(pushed, [delay |-> d, impl |-> created + 1])
    /\ created' = created + 1
    /\ UNCHANGED <<pc, loopVars, pushedEmpty, destroyEvents, cancelled, ids, ran>>

\* ScheduleWithContext, in the lock; the delay will count from the time the
\* event is taken over.
ScheduleWithContext ==
    /\ pc # "gone" /\ created < MaxEvents
    /\ \E d \in Delays :
        pushed' = Append(pushed, [delay |-> d, impl |-> created + 1])
    /\ pushedEmpty' = FALSE
    /\ created' = created + 1
    /\ UNCHANGED <<pc, loopVars, destroyEvents, cancelled, ids, ran>>

---------------------------------------------------------------------------
(* The loop                                                                *)

\* Fault: the delay is taken for a time
TakenAsTimes ==
    {[ts |-> pushed[i].delay, uid |-> (uid + i - 1) % UidMod,
      impl |-> pushed[i].impl] : i \in DOMAIN pushed}

\* The events of the list, in its order, behind all others of their time
Taken == {[ts |-> current.ts + pushed[i].delay, uid |-> (uid + i - 1) % UidMod,
           impl |-> pushed[i].impl] : i \in DOMAIN pushed}

\* Fault: the list is copied, not swapped
ProcessEventsWithContextCopies(next) ==
    /\ pc' = next
    /\ \/ UNCHANGED <<queue, uid, unscheduled, threadVars>>
       \/ /\ ~pushedEmpty
          /\ queue' = queue \cup Taken
          /\ uid' = (uid + Len(pushed)) % UidMod
          /\ unscheduled' = unscheduled + Len(pushed)
          /\ pushedEmpty' = TRUE /\ UNCHANGED pushed

\* ProcessEventsWithContext.  A read of the flag that races with a writer may
\* return its old value, so that a list that is not empty may be passed over.
\* The list swapped out is private to this thread: other threads cannot tell
\* the insertions from one step.
ProcessEventsWithContext(next) ==
    /\ pc' = next
    /\ \/ UNCHANGED <<queue, uid, unscheduled, threadVars>>
       \/ /\ ~pushedEmpty
          /\ queue' = queue \cup Taken
          /\ uid' = (uid + Len(pushed)) % UidMod
          /\ unscheduled' = unscheduled + Len(pushed)
          /\ pushed' = << >> /\ pushedEmpty' = TRUE

Run ==
    /\ pc = "outside" /\ pc' = "enter"
    /\ UNCHANGED <<loopVars, threadVars, destroyEvents, cancelled, historyVars>>

\* Run takes the list over, then clears m_stop, whoever has set it
EnterLoop ==
    /\ pc = "enter"
    /\ ProcessEventsWithContext("loop")
    /\ stop' = FALSE
    /\ UNCHANGED <<current, destroyEvents, cancelled, historyVars>>

Least == CHOOSE e \in queue : \A f \in queue \ {e} : Precedes(e, f)

\* Fault: a cancelled event is invoked
InvokeAlways(e) == pc' = "handler" /\ ran' = Append(ran, e.impl)

\* EventImpl::Invoke
Invoke(e) ==
    IF IsCancelled(e) THEN pc' = "after" /\ UNCHANGED ran
                      ELSE pc' = "handler" /\ ran' = Append(ran, e.impl)

ProcessOneEvent ==
    /\ pc = "loop" /\ queue # {} /\ ~stop
    /\ queue' = queue \ {Least}
    /\ unscheduled' = unscheduled - 1
    /\ current' = [ts |-> Least.ts, uid |-> Least.uid]
    /\ Invoke(Least)
    /\ UNCHANGED <<uid, stop, threadVars, destroyEvents, cancelled, created, ids>>

HandlerReturns ==
    /\ pc = "handler" /\ pc' = "after"
    /\ UNCHANGED <<loopVars, threadVars, destroyEvents, cancelled, historyVars>>

AfterEvent ==
    /\ pc = "after"
    /\ ProcessEventsWithContext("loop")
    /\ UNCHANGED <<current, stop, destroyEvents, cancelled, historyVars>>

\* Fault: a loop that goes on, taking nothing, once it is stopped
RunReturnsWhenEmpty ==
    /\ pc = "loop" /\ (queue = {} \/ stop)
    /\ pc' = IF queue = {} THEN "outside" ELSE "after"
    /\ UNCHANGED <<loopVars, threadVars, destroyEvents, cancelled, historyVars>>

RunReturns ==
    /\ pc = "loop" /\ (queue = {} \/ stop)
    /\ pc' = "outside"
    /\ UNCHANGED <<loopVars, threadVars, destroyEvents, cancelled, historyVars>>

---------------------------------------------------------------------------
(* Simulator::Destroy                                                      *)

Destroy ==
    /\ pc = "outside" /\ pc' = "destroying"
    /\ UNCHANGED <<loopVars, threadVars, destroyEvents, cancelled, historyVars>>

RunDestroyEvent ==
    /\ pc = "destroying" /\ destroyEvents # << >>
    /\ destroyEvents' = Tail(destroyEvents)
    /\ IF IsCancelled(Head(destroyEvents)) THEN UNCHANGED <<pc, ran>>
       ELSE pc' = "destroyHandler" /\ ran' = Append(ran, Head(destroyEvents).impl)
    /\ UNCHANGED <<loopVars, threadVars, cancelled, created, ids>>

DestroyHandlerReturns ==
    /\ pc = "destroyHandler" /\ pc' = "destroying"
    /\ UNCHANGED <<loopVars, threadVars, destroyEvents, cancelled, historyVars>>

\* DoDispose: the events still there are dropped, those of the list if they
\* are seen.
Dispose ==
    /\ pc = "destroying" /\ destroyEvents = << >>
    /\ pc' = "gone"
    /\ queue' = {} /\ pushed' = << >> /\ pushedEmpty' = TRUE
    /\ UNCHANGED <<uid, current, unscheduled, stop, destroyEvents, cancelled,
                   historyVars>>

Gone == pc = "gone" /\ UNCHANGED vars

MainThread ==
    \/ Run \/ EnterLoop \/ ProcessOneEvent \/ HandlerReturns \/ AfterEvent
    \/ RunReturns \/ Destroy \/ RunDestroyEvent \/ DestroyHandlerReturns \/ Dispose

UserCalls == Schedule \/ ScheduleDestroy \/ Cancel \/ RemoveDestroy \/ Remove \/ Stop

Next == MainThread \/ UserCalls \/ ScheduleWithContext \/ Gone

\* The loop goes on: its steps wait for nothing, and handlers return.
LoopSteps ==
    \/ EnterLoop \/ ProcessOneEvent \/ HandlerReturns \/ AfterEvent \/ RunReturns
Fairness == WF_vars(LoopSteps)

Spec == Init /\ [][Next]_vars /\ Fairness

---------------------------------------------------------------------------
(* Properties                                                              *)

Impls == 1 .. created
EventIds == [ts : Nat, uid : 0 .. UidMod - 1, impl : Impls]

CoreTypeOK ==
    /\ pc \in {"outside", "enter", "loop", "handler", "after", "destroying",
               "destroyHandler", "gone"}
    /\ queue \subseteq EventIds /\ uid \in 0 .. UidMod - 1
    /\ current \in [ts : Nat, uid : 0 .. UidMod - 1]
    /\ unscheduled \in Nat /\ stop \in BOOLEAN
    /\ pushed \in Seq([delay : Delays, impl : Impls]) /\ pushedEmpty \in BOOLEAN
    /\ destroyEvents \in Seq(EventIds)
    /\ cancelled \subseteq Impls /\ created \in 0 .. MaxEvents
    /\ ids \subseteq EventIds /\ ran \in Seq(Impls)

\* Every pending event lies ahead of the one that runs, under a key of its own:
\* what ProcessOneEvent and MapScheduler::Insert assert.  An event another
\* thread scheduled counts its delay from when it is taken over.
NothingInThePast ==
    /\ \A e \in queue : Precedes(current, e)
    /\ \A e, f \in queue : (e.ts = f.ts /\ e.uid = f.uid) => e = f

\* The count of events not yet run, which Run asserts to be 0 at the end
UnscheduledMatches == pc # "gone" => unscheduled = Cardinality(queue)

\* An EventId answers truthfully for ever: it is expired exactly if its event
\* is no longer pending, because it ran, was cancelled, or was removed.
Pending(id) == /\ id.impl \notin cancelled
               /\ id \in queue \/ \E i \in DOMAIN destroyEvents : destroyEvents[i] = id

ExpiredIffDone == pc # "gone" => \A id \in ids : IsExpired(id) <=> ~Pending(id)

\* An event that was cancelled or removed in time never runs, and none that has
\* run or is running can be cancelled.
CancelledNeverRuns == \A i \in DOMAIN ran : ran[i] \notin cancelled

\* No event is invoked twice.
RunsOnce == \A i, j \in DOMAIN ran : ran[i] = ran[j] => i = j

\* The flag never hides an event of another thread for good: once its writers
\* have left the lock, it is set only if the list is empty.
FlagTellsTheTruth == pushed # << >> => ~pushedEmpty

\* Two events a user schedules for one time stay in this order.
Fifo ==
    \A e, f \in queue \cap ids :
        e.ts = f.ts /\ e.impl < f.impl => Precedes(e, f)

\* Run returns, if handlers do: it runs out of events, or one has stopped it.
RunEnds == pc = "enter" ~> pc = "outside"
=============================================================================
