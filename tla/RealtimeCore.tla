---------------------------- MODULE RealtimeCore ----------------------------
(***************************************************************************)
(* RealtimeSimulatorImpl with its WallClockSynchronizer, in best-effort    *)
(* mode: the thread of Run waits for the wall clock to reach the next      *)
(* event; other threads insert events at any moment, and have to wake it.  *)
(* A step is a critical section of m_mutex or the code between two.  The   *)
(* context of an event and the events of Destroy are left out: EventCore   *)
(* has the latter.                                                         *)
(*                                                                         *)
(* SleepWait ends SpinMargin before the time waited for, and a busy wait   *)
(* takes over.  The wall clock counts from an epoch long ago.              *)
(***************************************************************************)
EXTENDS Integers, Sequences, FiniteSets

CONSTANTS
    Delays,       \* the relative times events are scheduled at
    Epoch,        \* the wall clock when the program starts
    SpinMargin,   \* jiffies not slept: 3
    IdleDelay,    \* how long Run sleeps if there is no event: one second
    MaxWall, MaxEvents, MaxRuns    \* bounds

ASSUME RealtimeAssumption ==
    /\ Delays \subseteq Nat
    /\ Epoch \in Nat /\ SpinMargin \in Nat /\ IdleDelay \in Nat \ {0}
    /\ MaxWall \in Nat /\ MaxWall >= Epoch
    /\ MaxEvents \in Nat /\ MaxRuns \in Nat

INVALID == 0
VALID   == 4

VARIABLES
    pc,           \* where the thread of Run is
    waiting,      \* Synchronize's caller and the time it waits for
    queue,        \* m_events
    uid,          \* m_uid
    current,      \* m_currentTs and m_currentUid
    unscheduled,  \* m_unscheduledEvents
    stop,         \* m_stop
    running,      \* m_running
    condition,    \* the synchronizer's m_condition
    origin,       \* m_realtimeOriginNano
    wall,         \* the system clock
    cancelled,    \* the EventImpls with m_cancel set
    runs,         \* how often Run was called
    created,      \* how many EventImpls there are
    ids,          \* history: the EventIds returned
    ran           \* history: the EventImpls invoked, in this order

loopVars == <<queue, uid, current, unscheduled>>
syncVars == <<waiting, condition, origin>>
historyVars == <<created, ids, ran>>
vars == <<pc, loopVars, syncVars, stop, running, wall, cancelled, runs, historyVars>>

\* GetCurrentRealtime
Realtime == wall - origin

Precedes(e, f) == e.ts < f.ts \/ (e.ts = f.ts /\ e.uid < f.uid)

Least == CHOOSE e \in queue : \A f \in queue \ {e} : Precedes(e, f)

Init ==
    /\ pc = "outside" /\ waiting = [caller |-> "none", until |-> 0]
    /\ queue = {} /\ uid = VALID /\ unscheduled = 0
    /\ current = [ts |-> 0, uid |-> INVALID]
    /\ stop = FALSE /\ running = FALSE
    /\ condition \in BOOLEAN    \* no constructor writes it
    /\ origin = 0 /\ wall = Epoch
    /\ cancelled = {} /\ runs = 0
    /\ created = 0 /\ ids = {} /\ ran = << >>

\* The thread of Run executes code of a user.
UserCode == pc \in {"outside", "handler"}

---------------------------------------------------------------------------
(* Scheduling, in any thread; all of it in m_mutex                         *)

\* Fault: the thread of Run is not told
InsertUnsignalled(ts) ==
    /\ created < MaxEvents /\ created' = created + 1
    /\ queue' = queue \cup {[ts |-> ts, uid |-> uid, impl |-> created']}
    /\ uid' = uid + 1 /\ unscheduled' = unscheduled + 1
    /\ UNCHANGED condition

\* Insert and Signal
Insert(ts) ==
    /\ created < MaxEvents /\ created' = created + 1
    /\ queue' = queue \cup {[ts |-> ts, uid |-> uid, impl |-> created']}
    /\ uid' = uid + 1 /\ unscheduled' = unscheduled + 1
    /\ condition' = TRUE

\* Also ScheduleNow, Stop(delay), and ScheduleWithContext in this thread
Schedule ==
    /\ UserCode
    /\ \E d \in Delays : Insert(current.ts + d)
    /\ ids' = ids \cup (queue' \ queue)
    /\ UNCHANGED <<pc, current, waiting, origin, stop, running, wall, cancelled, runs,
                   ran>>

\* The assertion ts >= m_currentTs ends the program.
InsertChecked(ts) ==
    IF ts >= current.ts THEN Insert(ts) /\ UNCHANGED pc
    ELSE pc' = "aborted" /\ UNCHANGED <<queue, uid, unscheduled, condition, created>>

\* Time for a thread that is not the one of Run
ThreadTime == IF running THEN Realtime ELSE current.ts

\* ScheduleWithContext in another thread; with no delay it is
\* ScheduleRealtimeNowWithContext
ScheduleWithContext ==
    /\ pc # "aborted"
    /\ \E d \in Delays : InsertChecked(ThreadTime + d)
    /\ UNCHANGED <<current, waiting, origin, stop, running, wall, cancelled, runs, ids,
                   ran>>

ScheduleRealtimeWithContext ==
    /\ pc # "aborted"
    /\ \E d \in Delays : InsertChecked(Realtime + d)
    /\ UNCHANGED <<current, waiting, origin, stop, running, wall, cancelled, runs, ids,
                   ran>>

---------------------------------------------------------------------------
(* Other calls of users                                                    *)

IsExpired(id) ==
    \/ id.ts < current.ts
    \/ id.ts = current.ts /\ id.uid <= current.uid
    \/ id.impl \in cancelled

Cancel ==
    /\ UserCode
    /\ \E id \in ids : ~IsExpired(id) /\ cancelled' = cancelled \cup {id.impl}
    /\ UNCHANGED <<pc, loopVars, syncVars, stop, running, wall, runs, historyVars>>

\* Fault: the early return for an expired event is missing
RemoveExpired ==
    /\ UserCode
    /\ \E id \in ids :
        /\ queue' = queue \ {id}
        /\ cancelled' = cancelled \cup {id.impl}
    /\ unscheduled' = unscheduled - 1
    /\ UNCHANGED <<pc, uid, current, syncVars, stop, running, wall, runs, historyVars>>

\* Neither call signals: called in the thread of Run, which does not wait.
Remove ==
    /\ UserCode
    /\ \E id \in ids :
        /\ ~IsExpired(id)
        /\ queue' = {e \in queue : e.ts # id.ts \/ e.uid # id.uid}
        /\ cancelled' = cancelled \cup {id.impl}
    /\ unscheduled' = unscheduled - 1
    /\ UNCHANGED <<pc, uid, current, syncVars, stop, running, wall, runs, historyVars>>

\* In any thread; it does not signal.
Stop ==
    /\ pc # "aborted"
    /\ stop' = TRUE
    /\ UNCHANGED <<pc, loopVars, syncVars, running, wall, cancelled, runs, historyVars>>

---------------------------------------------------------------------------
(* Run                                                                     *)

Run ==
    /\ pc = "outside" /\ runs < MaxRuns
    /\ pc' = "running" /\ runs' = runs + 1
    /\ stop' = FALSE
    /\ UNCHANGED <<loopVars, syncVars, running, wall, cancelled, historyVars>>

SetRunning ==
    /\ pc = "running" /\ pc' = "origin"
    /\ running' = TRUE
    /\ UNCHANGED <<loopVars, syncVars, stop, wall, cancelled, runs, historyVars>>

\* SetOrigin(m_currentTs): the wall clock synchronizer ignores the argument.
SetOrigin ==
    /\ pc = "origin" /\ pc' = "loop"
    /\ origin' = wall
    /\ UNCHANGED <<loopVars, waiting, condition, stop, running, wall, cancelled, runs,
                   historyVars>>

\* Fault: the events of the queue are processed first
WhileEvents ==
    /\ pc = "loop"
    /\ pc' = IF stop /\ queue = {} THEN "leave" ELSE "look"
    /\ UNCHANGED <<loopVars, syncVars, stop, running, wall, cancelled, runs, historyVars>>

WhileNotStopped ==
    /\ pc = "loop"
    /\ pc' = IF stop THEN "leave" ELSE "look"
    /\ UNCHANGED <<loopVars, syncVars, stop, running, wall, cancelled, runs, historyVars>>

\* Run asserts that it has lost no event.
LeaveRun ==
    /\ pc = "leave"
    /\ IF queue = {} /\ unscheduled # 0 THEN pc' = "aborted" /\ UNCHANGED running
       ELSE pc' = "outside" /\ running' = FALSE
    /\ UNCHANGED <<loopVars, syncVars, stop, wall, cancelled, runs, historyVars>>

\* Synchronize begins
Synchronize(caller, until) ==
    pc' = "synchronize" /\ waiting' = [caller |-> caller, until |-> until]

\* With no event to process Run sleeps a second, and looks again.
LookForEvents ==
    /\ pc = "look"
    /\ IF queue # {} THEN pc' = "plan" /\ UNCHANGED waiting
       ELSE Synchronize("Run", Realtime + IdleDelay)
    /\ UNCHANGED <<loopVars, condition, origin, stop, running, wall, cancelled, runs,
                   historyVars>>

Latest(a, b) == IF a < b THEN b ELSE a

\* The first section of ProcessOneEvent
PlanWait ==
    /\ pc = "plan"
    /\ IF queue = {} THEN pc' = "aborted" /\ UNCHANGED <<waiting, condition>>
       ELSE /\ Synchronize("ProcessOneEvent", Latest(Least.ts, Realtime))
            /\ condition' = FALSE
    /\ UNCHANGED <<loopVars, origin, stop, running, wall, cancelled, runs, historyVars>>

---------------------------------------------------------------------------
(* DoSynchronize                                                           *)

\* Run does not look at the result; ProcessOneEvent goes on if the wait was
\* completed, and plans again if it was interrupted.
Return(completed) ==
    pc' = IF waiting.caller = "Run" THEN "loop"
          ELSE IF completed THEN "take" ELSE "plan"

\* Fault: SetCondition(false) only now, outside the critical section
BeginWaitResetting ==
    /\ pc = "synchronize"
    /\ pc' = IF waiting.until - Realtime > SpinMargin THEN "sleep" ELSE "late?"
    /\ condition' = FALSE
    /\ UNCHANGED <<loopVars, waiting, origin, stop, running, wall, cancelled, runs,
                   historyVars>>

BeginWait ==
    /\ pc = "synchronize"
    /\ pc' = IF waiting.until - Realtime > SpinMargin THEN "sleep" ELSE "late?"
    /\ UNCHANGED <<loopVars, syncVars, stop, running, wall, cancelled, runs, historyVars>>

\* SleepWait returns what wait_for returns, the condition: true if it was
\* signalled, false if the time has passed, which its caller takes for an
\* interruption.
SleepWait ==
    /\ pc = "sleep"
    /\ \/ condition /\ pc' = "late?"
       \/ ~condition /\ Realtime >= waiting.until - SpinMargin /\ Return(FALSE)
    /\ UNCHANGED <<loopVars, syncVars, stop, running, wall, cancelled, runs, historyVars>>

AfterSleep ==
    /\ pc = "late?"
    /\ IF Realtime >= waiting.until THEN Return(TRUE) ELSE pc' = "spin"
    /\ UNCHANGED <<loopVars, syncVars, stop, running, wall, cancelled, runs, historyVars>>

\* Fault: an interrupted busy wait counts as completed
SpinWaitCompletes ==
    /\ pc = "spin"
    /\ (Realtime >= waiting.until \/ condition) /\ Return(TRUE)
    /\ UNCHANGED <<loopVars, syncVars, stop, running, wall, cancelled, runs, historyVars>>

\* The clock is read first, the condition afterwards.
SpinWait ==
    /\ pc = "spin"
    /\ \/ Realtime >= waiting.until /\ Return(TRUE)
       \/ condition /\ Return(FALSE)
    /\ UNCHANGED <<loopVars, syncVars, stop, running, wall, cancelled, runs, historyVars>>

---------------------------------------------------------------------------
(* The second section of ProcessOneEvent, and the event                    *)

TakeEvent ==
    /\ pc = "take"
    /\ IF queue = {} \/ Least.ts < current.ts
       THEN pc' = "aborted" /\ UNCHANGED <<queue, current, unscheduled, ran>>
       ELSE /\ queue' = queue \ {Least}
            /\ unscheduled' = unscheduled - 1
            /\ current' = [ts |-> Least.ts, uid |-> Least.uid]
            /\ IF Least.impl \in cancelled THEN pc' = "loop" /\ UNCHANGED ran
               ELSE pc' = "handler" /\ ran' = Append(ran, Least.impl)
    /\ UNCHANGED <<uid, syncVars, stop, running, wall, cancelled, runs, created, ids>>

HandlerReturns ==
    /\ pc = "handler" /\ pc' = "loop"
    /\ UNCHANGED <<loopVars, syncVars, stop, running, wall, cancelled, runs, historyVars>>

Tick ==
    /\ wall < MaxWall /\ wall' = wall + 1
    /\ UNCHANGED <<pc, loopVars, syncVars, stop, running, cancelled, runs, historyVars>>

---------------------------------------------------------------------------
RunSteps ==
    \/ SetRunning \/ SetOrigin \/ WhileNotStopped \/ LeaveRun \/ LookForEvents
    \/ PlanWait \/ BeginWait \/ SleepWait \/ AfterSleep \/ SpinWait \/ TakeEvent \/ HandlerReturns

UserCalls == Schedule \/ Cancel \/ Remove
OtherThreads == ScheduleWithContext \/ ScheduleRealtimeWithContext \/ Stop

\* Everything has been done that the bounds allow.
Done == pc \in {"outside", "aborted", "sleep", "spin"} /\ UNCHANGED vars

Next == RunSteps \/ Run \/ UserCalls \/ OtherThreads \/ Tick \/ Done

\* The thread of Run is not starved and handlers return; nothing is assumed of
\* the other threads, or of the clock.
Fairness == WF_vars(RunSteps)

Spec == Init /\ [][Next]_vars /\ Fairness

---------------------------------------------------------------------------
(* Properties                                                              *)

Impls == 1 .. created
Events == [ts : Nat, uid : Nat, impl : Impls]

RealtimeTypeOK ==
    /\ pc \in {"outside", "running", "origin", "loop", "leave", "look", "plan", "synchronize",
               "sleep", "late?", "spin", "take", "handler", "aborted"}
    /\ waiting \in [caller : {"none", "Run", "ProcessOneEvent"}, until : Nat]
    /\ queue \subseteq Events /\ uid \in Nat /\ unscheduled \in Nat
    /\ current \in [ts : Nat, uid : Nat]
    /\ stop \in BOOLEAN /\ running \in BOOLEAN /\ condition \in BOOLEAN
    /\ origin \in Nat /\ wall \in Nat /\ runs \in 0 .. MaxRuns
    /\ created \in 0 .. MaxEvents
    /\ cancelled \subseteq Impls /\ ids \subseteq Events /\ ran \in Seq(Impls)

\* A thread that waits and has not been signalled waits for the right event:
\* none in the queue is due before the time it waits for, and there is none if
\* Run has found none.
NoLostWakeup ==
    pc \in {"synchronize", "sleep", "late?", "spin"} /\ ~condition =>
        /\ waiting.caller = "Run" => queue = {}
        /\ waiting.caller = "ProcessOneEvent" =>
            waiting.until <= Realtime \/ \A e \in queue : e.ts >= waiting.until

\* No event runs before the wall clock has reached its time.
NeverEarly ==
    [][ran' # ran => current'.ts <= Realtime]_vars

\* None of the assertions of the implementation fails: there is an event to
\* plan for and to take, and time never goes back.
NoAssertFails == pc # "aborted"

\* An event that is due runs, unless it is cancelled, removed, or Run is
\* stopped: no insertion between planning and waiting goes unnoticed.
DueEventsRun ==
    \A i \in 1 .. MaxEvents :
        (running /\ pc # "origin" /\ \E e \in queue : e.impl = i /\ e.ts <= Realtime)
            ~> (stop \/ i \in cancelled \/ \E n \in DOMAIN ran : ran[n] = i)

\* A handler that calls Stop is the last one; also if Stop was called by
\* another thread meanwhile.
StopEndsRun == (pc = "handler" /\ stop) ~> ~running

=============================================================================
