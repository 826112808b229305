------------------------- MODULE RealtimeCoreProofs -------------------------
(***************************************************************************)
(* Safety of the real-time event loop, for any delays, epoch and number of *)
(* events.  Whatever other threads insert while the thread of Run waits,   *)
(* it has not overslept it, runs no event early, and, as long as Run is    *)
(* called once, none of the assertions of the implementation fails.        *)
(***************************************************************************)
EXTENDS RealtimeCore, FiniteSetTheorems, WellFoundedInduction, TLAPS

\* Every set of natural numbers has a least element.
LEMMA LeastNatural ==
    ASSUME NEW S \in SUBSET Nat, S # {}
    PROVE  \E n \in S : \A m \in S : n <= m
<1>1. \E n \in S : \A m \in S : ~(<<m, n>> \in OpToRel(<, Nat))
  BY NatLessThanWellFounded, WFMin
<1>2. \A m, n \in S : ~(<<m, n>> \in OpToRel(<, Nat)) => n <= m
  BY DEF OpToRel
<1> QED
  BY <1>1, <1>2

---------------------------------------------------------------------------
(* The inductive invariant                                                 *)

Waiting == {"synchronize", "sleep", "late?", "spin"}

\* Keys are apart, and none lies before the event that runs.
QueueInv ==
    /\ IsFiniteSet(queue) /\ unscheduled = Cardinality(queue)
    /\ current.uid < uid
    /\ \A e \in queue : e.uid < uid /\ Precedes(current, e)
    /\ \A e, f \in queue : e.uid = f.uid => e = f

\* ProcessOneEvent was called because there was an event, and no event leaves
\* the queue while it waits: one is due when the wait is over.
WaitInv ==
    /\ pc = "plan" => queue # {}
    /\ pc \in Waiting => waiting.caller \in {"Run", "ProcessOneEvent"}
    /\ pc \in Waiting /\ waiting.caller = "ProcessOneEvent" =>
        \E e \in queue : e.ts <= waiting.until
    /\ pc = "take" => \E e \in queue : e.ts <= Realtime

\* The identifiers returned are those of events of the past and the queue.
IdsInv == \A id \in ids : IsExpired(id) \/ id \in queue

\* The types of what only the thread of Run, Stop and the clock change, and of
\* the rest
ControlTypeOK ==
    /\ pc \in {"outside", "running", "origin", "loop", "leave", "look", "plan", "synchronize",
               "sleep", "late?", "spin", "take", "handler", "aborted"}
    /\ waiting \in [caller : {"none", "Run", "ProcessOneEvent"}, until : Nat]
    /\ stop \in BOOLEAN /\ running \in BOOLEAN /\ condition \in BOOLEAN
    /\ origin \in Nat /\ wall \in Nat /\ runs \in 0 .. MaxRuns

EventsTypeOK ==
    /\ queue \subseteq Events /\ uid \in Nat /\ unscheduled \in Nat
    /\ current \in [ts : Nat, uid : Nat]
    /\ created \in 0 .. MaxEvents
    /\ cancelled \subseteq Impls /\ ids \subseteq Events /\ ran \in Seq(Impls)

Clocks == origin <= wall /\ wall >= Epoch

IInv == /\ ControlTypeOK /\ EventsTypeOK /\ QueueInv /\ WaitInv /\ IdsInv
        /\ Clocks

LEMMA LeastInQueue ==
    ASSUME IInv, queue # {}
    PROVE  /\ Least \in queue
           /\ \A e \in queue \ {Least} : Precedes(Least, e)
           /\ \A e \in queue : Least.ts <= e.ts
<1>1. \A e \in queue : e.ts \in Nat /\ e.uid \in Nat
  BY DEF IInv, EventsTypeOK, Events
<1>2. PICK t \in {e.ts : e \in queue} : \A s \in {e.ts : e \in queue} : t <= s
  BY <1>1, LeastNatural
<1> DEFINE First == {e \in queue : e.ts = t}
<1>3. PICK u \in {e.uid : e \in First} : \A v \in {e.uid : e \in First} : u <= v
  <2>1. {e.uid : e \in First} \in SUBSET Nat /\ {e.uid : e \in First} # {}
    BY <1>1, <1>2
  <2> QED
    BY <2>1, LeastNatural
<1>4. PICK e \in First : e.uid = u
  BY <1>3
<1>5. \A f \in queue \ {e} : Precedes(e, f)
  <2> TAKE f \in queue \ {e}
  <2>1. t <= f.ts
    BY <1>2
  <2>2. f.ts = t => u <= f.uid
    BY <1>3
  <2>3. f.uid # e.uid
    BY DEF IInv, QueueInv
  <2> QED
    BY <1>1, <1>2, <1>4, <2>1, <2>2, <2>3 DEF Precedes
<1>6. Least \in queue /\ \A f \in queue \ {Least} : Precedes(Least, f)
  BY <1>4, <1>5 DEF Least
<1> QED
  BY <1>1, <1>6 DEF Precedes

LEMMA InitInv == Init => IInv
<1> SUFFICES ASSUME Init PROVE IInv
  OBVIOUS
<1>1. ControlTypeOK
  <2>1. stop \in BOOLEAN /\ running \in BOOLEAN /\ condition \in BOOLEAN
    BY Zenon DEF Init
  <2> QED
    BY <2>1, RealtimeAssumption DEF Init, ControlTypeOK
<1>2. EventsTypeOK
  BY RealtimeAssumption DEF Init, EventsTypeOK, Events, Impls, VALID, INVALID
<1>3. QueueInv
  BY FS_EmptySet DEF Init, QueueInv, VALID, INVALID
<1>4. WaitInv /\ IdsInv
  BY DEF Init, WaitInv, IdsInv, Waiting
<1>5. Clocks
  BY RealtimeAssumption DEF Init, Clocks
<1> QED
  BY <1>1, <1>2, <1>3, <1>4, <1>5 DEF IInv

\* A step of the thread of Run between two events, of Stop, or of the clock
LEMMA ControlStep ==
    ASSUME IInv, UNCHANGED <<queue, uid, unscheduled, current, created, cancelled, ids, ran>>,
           ControlTypeOK', WaitInv', Clocks'
    PROVE  IInv'
<1>1. EventsTypeOK'
  BY DEF IInv, EventsTypeOK, Events, Impls
<1>2. QueueInv'
  BY DEF IInv, QueueInv
<1>3. IdsInv'
  BY DEF IInv, IdsInv, IsExpired
<1> QED
  BY <1>1, <1>2, <1>3 DEF IInv

LEMMA LongerSeq ==
    ASSUME NEW S, NEW T, S \subseteq T, NEW s \in Seq(S)
    PROVE  s \in Seq(T)
  OBVIOUS

\* Whoever inserts: the event goes behind all others of its time.
LEMMA InsertStep ==
    ASSUME IInv, NEW ts \in Nat, ts >= current.ts, Insert(ts),
           UNCHANGED <<pc, current, waiting, origin, stop, running, wall, cancelled, runs, ran>>,
           \/ UNCHANGED ids
           \/ ids' = ids \cup (queue' \ queue)
    PROVE  IInv'
<1> DEFINE new == [ts |-> ts, uid |-> uid, impl |-> created']
<1>1. /\ created' = created + 1 /\ created' \in 0 .. MaxEvents
      /\ queue' = queue \cup {new} /\ uid' = uid + 1
      /\ unscheduled' = unscheduled + 1 /\ condition' = TRUE
  BY RealtimeAssumption DEF Insert, IInv, EventsTypeOK
<1>2. Impls \subseteq Impls' /\ Events \subseteq Events' /\ new \in Events'
  BY <1>1 DEF IInv, EventsTypeOK, Impls, Events
<1>3. ControlTypeOK'
  BY <1>1 DEF IInv, ControlTypeOK
<1>4. EventsTypeOK'
  <2>1. ran' \in Seq(Impls')
    BY <1>2, LongerSeq DEF IInv, EventsTypeOK
  <2>2. /\ queue' \subseteq Events' /\ ids' \subseteq Events'
        /\ cancelled' \subseteq Impls'
    BY <1>1, <1>2 DEF IInv, EventsTypeOK
  <2> QED
    BY <1>1, <2>1, <2>2 DEF IInv, EventsTypeOK
<1>5. QueueInv'
  <2>1. new \notin queue
    BY DEF IInv, QueueInv, EventsTypeOK
  <2>2. IsFiniteSet(queue') /\ unscheduled' = Cardinality(queue')
    BY <1>1, <2>1, FS_AddElement DEF IInv, QueueInv
  <2>3. current'.uid < uid'
    BY <1>1 DEF IInv, QueueInv, EventsTypeOK
  <2>4. \A e \in queue' : e.uid < uid' /\ Precedes(current', e)
    BY <1>1 DEF IInv, QueueInv, EventsTypeOK, Events, Precedes
  <2>5. \A e, f \in queue' : e.uid = f.uid => e = f
    BY <1>1 DEF IInv, QueueInv, EventsTypeOK, Events
  <2> QED
    BY <2>2, <2>3, <2>4, <2>5 DEF QueueInv
<1>6. WaitInv'
  BY <1>1 DEF IInv, WaitInv, Realtime
<1>7. IdsInv' /\ Clocks'
  BY <1>1 DEF IInv, IdsInv, IsExpired, Clocks
<1> QED
  BY <1>3, <1>4, <1>5, <1>6, <1>7 DEF IInv

LEMMA ScheduleStep == IInv /\ Schedule => IInv'
<1> SUFFICES ASSUME IInv, Schedule PROVE IInv'
  OBVIOUS
<1>1. PICK d \in Delays : Insert(current.ts + d)
  BY DEF Schedule
<1>2. current.ts + d \in Nat /\ current.ts + d >= current.ts
  BY RealtimeAssumption DEF IInv, EventsTypeOK
<1> QED
  BY <1>1, <1>2, InsertStep DEF Schedule

\* Another thread inserts, or the assertion fails.
LEMMA InsertCheckedStep ==
    ASSUME IInv, NEW ts \in Nat, InsertChecked(ts),
           UNCHANGED <<current, waiting, origin, stop, running, wall, cancelled, runs, ids, ran>>
    PROVE  IInv'
<1>1. CASE ts >= current.ts
  BY <1>1, InsertStep DEF InsertChecked
<1>2. CASE ~(ts >= current.ts)
  <2>1. /\ pc' = "aborted"
        /\ UNCHANGED <<queue, uid, unscheduled, condition, created>>
    BY <1>2 DEF InsertChecked
  <2>2. ControlTypeOK' /\ WaitInv' /\ Clocks'
    BY <2>1 DEF IInv, ControlTypeOK, WaitInv, Waiting, Clocks
  <2> QED
    BY <2>1, <2>2, ControlStep
<1> QED
  BY <1>1, <1>2

LEMMA OtherThreadInserts ==
    IInv /\ (ScheduleWithContext \/ ScheduleRealtimeWithContext) => IInv'
<1>1. IInv => \A d \in Delays : Realtime + d \in Nat /\ ThreadTime + d \in Nat
  BY RealtimeAssumption
  DEF IInv, ControlTypeOK, EventsTypeOK, Clocks, Realtime, ThreadTime
<1> QED
  BY <1>1, InsertCheckedStep DEF ScheduleWithContext, ScheduleRealtimeWithContext

LEMMA CancelStep == IInv /\ Cancel => IInv'
<1> SUFFICES ASSUME IInv, Cancel PROVE IInv'
  OBVIOUS
<1>1. PICK id \in ids : cancelled' = cancelled \cup {id.impl}
  BY DEF Cancel
<1>2. UNCHANGED <<pc, loopVars, syncVars, stop, running, wall, runs, historyVars>>
  BY DEF Cancel
<1>3. EventsTypeOK'
  <2>1. id.impl \in Impls
    BY DEF IInv, EventsTypeOK, Events
  <2>2. Impls' = Impls /\ Events' = Events
    BY <1>2 DEF Impls, Events, historyVars
  <2> QED
    BY <1>1, <1>2, <2>1, <2>2 DEF IInv, EventsTypeOK, loopVars, historyVars
<1>4. ControlTypeOK' /\ QueueInv' /\ WaitInv' /\ Clocks'
  BY <1>2 DEF IInv, ControlTypeOK, QueueInv, WaitInv, Clocks, Realtime, loopVars, syncVars
<1>5. IdsInv'
  BY <1>1, <1>2 DEF IInv, IdsInv, IsExpired, loopVars, historyVars
<1> QED
  BY <1>3, <1>4, <1>5 DEF IInv

LEMMA RemoveStep == IInv /\ Remove => IInv'
<1> SUFFICES ASSUME IInv, Remove PROVE IInv'
  OBVIOUS
<1>1. PICK id \in ids :
        /\ ~IsExpired(id)
        /\ queue' = {e \in queue : e.ts # id.ts \/ e.uid # id.uid}
        /\ cancelled' = cancelled \cup {id.impl}
  BY DEF Remove
<1>2. /\ unscheduled' = unscheduled - 1 /\ UserCode
      /\ UNCHANGED <<pc, uid, current, syncVars, stop, running, wall, runs, historyVars>>
  BY DEF Remove
<1>3. id \in queue /\ id \in Events
  BY <1>1 DEF IInv, IdsInv, EventsTypeOK
<1>4. queue' = queue \ {id}
  BY <1>1, <1>3 DEF IInv, QueueInv
<1>5. IsFiniteSet(queue') /\ unscheduled' = Cardinality(queue') /\ Cardinality(queue') \in Nat
  BY <1>2, <1>3, <1>4, FS_RemoveElement, FS_CardinalityType DEF IInv, QueueInv
<1>6. EventsTypeOK'
  <2>1. id.impl \in Impls
    BY <1>3 DEF Events
  <2>2. Impls' = Impls /\ Events' = Events
    BY <1>2 DEF Impls, Events, historyVars
  <2> QED
    BY <1>1, <1>2, <1>4, <1>5, <2>1, <2>2 DEF IInv, EventsTypeOK, historyVars
<1>7. QueueInv'
  BY <1>2, <1>4, <1>5 DEF IInv, QueueInv
<1>8. ControlTypeOK' /\ WaitInv' /\ Clocks'
  BY <1>2 DEF IInv, ControlTypeOK, WaitInv, Waiting, Clocks, UserCode, syncVars
<1>9. IdsInv'
  BY <1>1, <1>2, <1>4 DEF IInv, IdsInv, IsExpired, historyVars
<1> QED
  BY <1>6, <1>7, <1>8, <1>9 DEF IInv

\* Run's own steps up to the wait, and after an event
LEMMA LoopStep ==
    IInv /\ (\/ Run \/ SetRunning \/ SetOrigin \/ WhileNotStopped \/ LeaveRun
             \/ HandlerReturns \/ Stop \/ Tick) => IInv'
<1> SUFFICES ASSUME IInv,
                    \/ Run \/ SetRunning \/ SetOrigin \/ WhileNotStopped \/ LeaveRun
                    \/ HandlerReturns \/ Stop \/ Tick
             PROVE  IInv'
  OBVIOUS
<1> USE DEF Run, SetRunning, SetOrigin, WhileNotStopped, LeaveRun, HandlerReturns, Stop, Tick,
            loopVars, syncVars, historyVars
<1>1. UNCHANGED <<queue, uid, unscheduled, current, created, cancelled, ids, ran>>
  OBVIOUS
<1>2. ControlTypeOK'
  <2>1. /\ stop' \in BOOLEAN /\ running' \in BOOLEAN /\ condition' \in BOOLEAN
    BY Zenon DEF IInv, ControlTypeOK
  <2> QED
    BY <2>1, RealtimeAssumption DEF IInv, ControlTypeOK
<1>3. \/ pc' \notin Waiting \cup {"plan", "take"}
      \/ pc' = pc /\ UNCHANGED <<waiting, origin>>
  BY DEF Waiting
<1>4. wall' \in Nat /\ wall' >= wall /\ origin' \in {origin, wall}
  BY DEF IInv, ControlTypeOK
<1> HIDE DEF Run, SetRunning, SetOrigin, WhileNotStopped, LeaveRun, HandlerReturns, Stop, Tick
<1>5. WaitInv'
  <2>1. \A e \in queue : e.ts \in Nat
    BY DEF IInv, EventsTypeOK, Events
  <2> QED
    BY <1>1, <1>3, <1>4, <2>1 DEF IInv, ControlTypeOK, WaitInv, Realtime
<1>6. Clocks'
  BY <1>1, <1>4, RealtimeAssumption DEF IInv, ControlTypeOK, Clocks
<1> QED
  BY <1>1, <1>2, <1>5, <1>6, ControlStep

\* From looking at the queue to waiting for its first event
LEMMA PlanStep == IInv /\ (LookForEvents \/ PlanWait) => IInv'
<1> SUFFICES ASSUME IInv, LookForEvents \/ PlanWait PROVE IInv'
  OBVIOUS
<1> USE DEF LookForEvents, PlanWait, Synchronize, loopVars, syncVars, historyVars
<1>1. UNCHANGED <<queue, uid, unscheduled, current, created, cancelled, ids, ran, wall, origin>>
  OBVIOUS
<1>2. Realtime \in Nat /\ Realtime + IdleDelay \in Nat
  BY RealtimeAssumption DEF IInv, ControlTypeOK, Clocks, Realtime
<1>3. queue # {} => /\ Least \in queue /\ Least.ts \in Nat
                    /\ Latest(Least.ts, Realtime) \in Nat
                    /\ Least.ts <= Latest(Least.ts, Realtime)
  BY <1>2, LeastInQueue DEF IInv, EventsTypeOK, Events, Latest
<1>4. ControlTypeOK'
  <2>1. condition' \in BOOLEAN
    BY Zenon DEF IInv, ControlTypeOK
  <2>2. waiting' \in [caller : {"none", "Run", "ProcessOneEvent"}, until : Nat]
    BY <1>2, <1>3 DEF IInv, ControlTypeOK
  <2> QED
    BY <2>1, <2>2 DEF IInv, ControlTypeOK
<1>5. WaitInv'
  BY <1>1, <1>3 DEF IInv, WaitInv, Waiting
<1>6. Clocks'
  BY <1>1 DEF IInv, Clocks
<1> QED
  BY <1>1, <1>4, <1>5, <1>6, ControlStep

\* The wait
LEMMA WaitStep == IInv /\ (BeginWait \/ SleepWait \/ AfterSleep \/ SpinWait) => IInv'
<1> SUFFICES ASSUME IInv, BeginWait \/ SleepWait \/ AfterSleep \/ SpinWait PROVE IInv'
  OBVIOUS
<1> USE DEF BeginWait, SleepWait, AfterSleep, SpinWait, Return, loopVars, syncVars, historyVars
<1>1. /\ UNCHANGED <<queue, uid, unscheduled, current, created, cancelled, ids, ran>>
      /\ UNCHANGED <<wall, origin, waiting, condition, stop, running, runs>>
  OBVIOUS
<1>2. ControlTypeOK' /\ Clocks'
  BY <1>1 DEF IInv, ControlTypeOK, Clocks
<1>3. WaitInv'
  <2>1. pc \in Waiting /\ Realtime' = Realtime
    BY <1>1 DEF Waiting, Realtime
  <2>2. /\ Realtime \in Int /\ waiting.until \in Nat
        /\ \A e \in queue : e.ts \in Nat
    BY DEF IInv, ControlTypeOK, EventsTypeOK, Events, Realtime
  <2>3. /\ pc' = "plan" => waiting.caller = "ProcessOneEvent"
        /\ pc' = "take" => waiting.caller = "ProcessOneEvent" /\ Realtime >= waiting.until
    BY <2>1 DEF IInv, WaitInv
  <2>4. pc' \notin {"plan", "take"} => pc' \in Waiting \/ pc' = "loop"
    BY DEF Waiting
  <2> QED
    BY <1>1, <2>1, <2>2, <2>3, <2>4 DEF IInv, WaitInv
<1> QED
  BY <1>1, <1>2, <1>3, ControlStep

LEMMA TakeStep == IInv /\ TakeEvent => IInv'
<1> SUFFICES ASSUME IInv, TakeEvent PROVE IInv'
  OBVIOUS
<1>1. UNCHANGED <<uid, syncVars, stop, running, wall, cancelled, runs, created, ids>>
  BY DEF TakeEvent
<1>2. CASE queue = {} \/ Least.ts < current.ts
  <2>1. pc' = "aborted" /\ UNCHANGED <<queue, current, unscheduled, ran>>
    BY <1>2 DEF TakeEvent
  <2>2. ControlTypeOK' /\ WaitInv' /\ Clocks'
    BY <1>1, <2>1 DEF IInv, ControlTypeOK, WaitInv, Waiting, Clocks, syncVars
  <2> QED
    BY <1>1, <2>1, <2>2, ControlStep
<1>3. CASE ~(queue = {} \/ Least.ts < current.ts)
  <2>1. /\ queue' = queue \ {Least} /\ unscheduled' = unscheduled - 1
        /\ current' = [ts |-> Least.ts, uid |-> Least.uid]
        /\ pc' \in {"loop", "handler"}
        /\ ran' = ran \/ ran' = Append(ran, Least.impl)
    BY <1>3 DEF TakeEvent
  <2>2. /\ Least \in queue /\ Least \in Events
        /\ \A e \in queue \ {Least} : Precedes(Least, e)
    BY <1>3, LeastInQueue DEF IInv, EventsTypeOK
  <2>3. IsFiniteSet(queue') /\ unscheduled' = Cardinality(queue') /\ Cardinality(queue') \in Nat
    BY <2>1, <2>2, FS_RemoveElement, FS_CardinalityType DEF IInv, QueueInv
  <2>4. EventsTypeOK'
    <3>1. Impls' = Impls /\ Events' = Events
      BY <1>1 DEF Impls, Events
    <3>2. ran' \in Seq(Impls)
      <4>1. Least.impl \in Impls /\ ran \in Seq(Impls)
        BY <2>2 DEF IInv, EventsTypeOK, Events
      <4> QED
        BY <2>1, <4>1
    <3>3. current' \in [ts : Nat, uid : Nat]
      BY <2>1, <2>2 DEF Events
    <3> QED
      BY <1>1, <2>1, <2>3, <3>1, <3>2, <3>3 DEF IInv, EventsTypeOK
  <2>5. QueueInv'
    BY <1>1, <2>1, <2>2, <2>3 DEF IInv, QueueInv, Precedes
  <2>6. ControlTypeOK' /\ WaitInv' /\ Clocks'
    BY <1>1, <2>1 DEF IInv, ControlTypeOK, WaitInv, Waiting, Clocks, syncVars
  <2>7. IdsInv'
    <3> SUFFICES ASSUME NEW id \in ids, ~(id \in queue')
                 PROVE  IsExpired(id)'
      BY <1>1 DEF IdsInv
    <3>1. CASE id = Least
      BY <2>1, <2>2, <3>1 DEF IsExpired, Events
    <3>2. CASE id # Least
      <4>1. IsExpired(id)
        BY <2>1, <3>2 DEF IInv, IdsInv
      <4>2. Precedes(current, Least)
        BY <2>2 DEF IInv, QueueInv
      <4>3. id \in Events /\ current \in [ts : Nat, uid : Nat]
        BY DEF IInv, EventsTypeOK
      <4> QED
        BY <1>1, <2>1, <2>2, <4>1, <4>2, <4>3 DEF IsExpired, Precedes, Events
    <3> QED
      BY <3>1, <3>2
  <2> QED
    BY <2>4, <2>5, <2>6, <2>7 DEF IInv
<1> QED
  BY <1>2, <1>3

LEMMA StepInv == IInv /\ [Next]_vars => IInv'
<1> SUFFICES ASSUME IInv, [Next]_vars PROVE IInv'
  OBVIOUS
<1>1. CASE UNCHANGED vars
  <2>1. ControlTypeOK' /\ WaitInv' /\ Clocks'
    BY <1>1 DEF IInv, ControlTypeOK, WaitInv, Clocks, Realtime, vars, loopVars, syncVars, historyVars
  <2> QED
    BY <1>1, <2>1, ControlStep DEF vars, loopVars, syncVars, historyVars
<1>2. CASE RunSteps
  BY <1>2, LoopStep, PlanStep, WaitStep, TakeStep DEF RunSteps
<1>3. CASE Run \/ Tick \/ Done
  BY <1>1, <1>3, LoopStep DEF Done
<1>4. CASE UserCalls
  BY <1>4, ScheduleStep, CancelStep, RemoveStep DEF UserCalls
<1>5. CASE OtherThreads
  BY <1>5, OtherThreadInserts, LoopStep DEF OtherThreads
<1> QED
  BY <1>1, <1>2, <1>3, <1>4, <1>5 DEF Next

LEMMA Invariance == Spec => []IInv
  BY InitInv, StepInv, PTL DEF Spec

\* Types, and that m_unscheduledEvents, which is unsigned, never falls below 0
THEOREM RealtimeTypeCorrect == Spec => []RealtimeTypeOK
<1>1. IInv => RealtimeTypeOK
  BY DEF IInv, RealtimeTypeOK, ControlTypeOK, EventsTypeOK
<1> QED
  BY <1>1, Invariance, PTL

---------------------------------------------------------------------------
(* No insertion is overslept, no event runs early                          *)

LEMMA WakeupStep == IInv /\ NoLostWakeup /\ [Next]_vars => NoLostWakeup'
<1> SUFFICES ASSUME IInv, NoLostWakeup, [Next]_vars,
                    pc' \in Waiting, ~condition'
             PROVE  /\ waiting'.caller = "Run" => queue' = {}
                    /\ waiting'.caller = "ProcessOneEvent" =>
                        \/ waiting'.until <= Realtime'
                        \/ \A e \in queue' : e.ts >= waiting'.until
  BY DEF NoLostWakeup, Waiting
<1>0. /\ waiting.until \in Nat /\ Realtime \in Int /\ wall \in Nat /\ origin \in Nat
      /\ \A e \in queue : e.ts \in Nat
  BY DEF IInv, ControlTypeOK, EventsTypeOK, Events, Realtime
<1>1. CASE LookForEvents
  <2>1. waiting'.caller = "Run" /\ queue = {} /\ queue' = queue
    BY <1>1 DEF LookForEvents, Synchronize, Waiting, loopVars
  <2> QED
    BY <2>1
<1>2. CASE PlanWait
  <2>1. /\ waiting'.caller = "ProcessOneEvent" /\ queue # {} /\ queue' = queue
        /\ waiting'.until = Latest(Least.ts, Realtime)
        /\ Realtime' = Realtime
    BY <1>2 DEF PlanWait, Synchronize, Waiting, loopVars, Realtime
  <2>2. Least \in queue /\ \A e \in queue : Least.ts <= e.ts
    BY <2>1, LeastInQueue
  <2> QED
    BY <1>0, <2>1, <2>2 DEF Latest
\* The other steps that end in the wait began in it, and leave queue and
\* waiting alone unless they signal.
<1>3. CASE ~LookForEvents /\ ~PlanWait
  <2>1. /\ pc \in Waiting /\ ~condition
        /\ UNCHANGED <<queue, waiting, origin>> /\ wall' \in Nat /\ wall' >= wall
    <3>1. CASE BeginWait \/ SleepWait \/ AfterSleep \/ SpinWait \/ Stop \/ Tick
      <4>1. pc \in Waiting /\ UNCHANGED <<queue, waiting, origin, condition>>
        BY <3>1
        DEF BeginWait, SleepWait, AfterSleep, SpinWait, Stop, Tick, Waiting, loopVars, syncVars
      <4>2. wall' \in Nat /\ wall' >= wall
        <5>1. wall' = wall \/ wall' = wall + 1
          BY <3>1, Zenon DEF BeginWait, SleepWait, AfterSleep, SpinWait, Stop, Tick
        <5> QED
          BY <1>0, <5>1
      <4>3. ~condition
        BY <4>1, Zenon
      <4> QED
        BY <4>1, <4>2, <4>3
    <3>2. ~(Schedule \/ Cancel \/ Remove)
      BY DEF Schedule, Cancel, Remove, UserCode, Waiting
    <3>3. CASE ScheduleWithContext \/ ScheduleRealtimeWithContext
      BY <3>3
      DEF ScheduleWithContext, ScheduleRealtimeWithContext, InsertChecked, Insert, Waiting
    <3>4. ~(SetRunning \/ SetOrigin \/ WhileNotStopped \/ LeaveRun \/ Run \/ HandlerReturns)
      BY DEF SetRunning, SetOrigin, WhileNotStopped, LeaveRun, Run, HandlerReturns, Waiting
    <3>5. ~TakeEvent
      BY DEF TakeEvent, Waiting
    <3>6. CASE UNCHANGED vars
      BY <1>0, <3>6 DEF vars, loopVars, syncVars
    <3> QED
      BY <1>3, <3>1, <3>2, <3>3, <3>4, <3>5, <3>6
      DEF Next, RunSteps, UserCalls, OtherThreads, Done
  <2>2. /\ waiting.caller = "Run" => queue = {}
        /\ waiting.caller = "ProcessOneEvent" =>
            waiting.until <= Realtime \/ \A e \in queue : e.ts >= waiting.until
    BY <2>1, Zenon DEF NoLostWakeup, Waiting
  <2> QED
    BY <1>0, <2>1, <2>2 DEF Realtime
<1> QED
  BY <1>1, <1>2, <1>3

\* However the insertions of other threads fall between planning and waiting,
\* a thread that goes on waiting waits for the right event.
THEOREM NothingOverslept == Spec => []NoLostWakeup
<1>1. Init => NoLostWakeup
  BY DEF Init, NoLostWakeup
<1> QED
  BY <1>1, Invariance, WakeupStep, PTL DEF Spec

\* The event taken is due, although it need not be the one waited for.
THEOREM EventsNeverEarly == Spec => NeverEarly
<1>1. IInv /\ [Next]_vars => [ran' # ran => current'.ts <= Realtime]_vars
  <2> SUFFICES ASSUME IInv, Next, ran' # ran
               PROVE  current'.ts <= Realtime
    OBVIOUS
  <2>1. TakeEvent
    <3>1. ~(Schedule \/ Cancel \/ Remove \/ ScheduleWithContext \/ ScheduleRealtimeWithContext)
      BY DEF Schedule, Cancel, Remove, ScheduleWithContext, ScheduleRealtimeWithContext, historyVars
    <3>2. ~(\/ SetRunning \/ SetOrigin \/ WhileNotStopped \/ LeaveRun \/ Run
            \/ HandlerReturns \/ Stop \/ Tick)
      BY DEF SetRunning, SetOrigin, WhileNotStopped, LeaveRun, Run, HandlerReturns, Stop, Tick,
             historyVars
    <3>3. ~(\/ LookForEvents \/ PlanWait \/ BeginWait \/ SleepWait \/ AfterSleep \/ SpinWait)
      BY DEF LookForEvents, PlanWait, BeginWait, SleepWait, AfterSleep, SpinWait, historyVars
    <3>4. ~(Done)
      BY DEF Done, vars, historyVars
    <3> QED
      BY <3>1, <3>2, <3>3, <3>4 DEF Next, RunSteps, UserCalls, OtherThreads
  <2>2. /\ pc = "take" /\ queue # {} /\ current'.ts = Least.ts
    BY <2>1 DEF TakeEvent
  <2>3. PICK e \in queue : e.ts <= Realtime
    BY <2>2 DEF IInv, WaitInv
  <2>4. Least.ts <= e.ts /\ Least.ts \in Nat /\ e.ts \in Nat /\ Realtime \in Int
    BY <2>2, LeastInQueue DEF IInv, EventsTypeOK, ControlTypeOK, Events, Realtime
  <2> QED
    BY <2>2, <2>3, <2>4
<1> QED
  BY <1>1, Invariance, PTL DEF Spec, NeverEarly

---------------------------------------------------------------------------
(* The assertions, if Run is called once                                   *)

\* The clock is ahead of the simulation; when its origin is set, the
\* simulation is at time 0.
OneRunInv ==
    /\ pc # "aborted"
    /\ pc # "outside" => runs >= 1
    /\ pc \in {"running", "origin"} \/ runs = 0 => current.ts = 0
    /\ current.ts <= Realtime

LEMMA OneRunStep ==
    ASSUME MaxRuns = 1, IInv, OneRunInv, [Next]_vars
    PROVE  OneRunInv'
<1>0. /\ current.ts \in Nat /\ wall \in Nat /\ origin \in Nat /\ runs \in 0 .. 1
      /\ Realtime \in Nat
  BY DEF IInv, ControlTypeOK, EventsTypeOK, Clocks, Realtime
<1>1. CASE Run \/ SetRunning \/ SetOrigin
  BY <1>0, <1>1
  DEF OneRunInv, Run, SetRunning, SetOrigin, Realtime, loopVars, syncVars
<1>2. CASE WhileNotStopped \/ HandlerReturns \/ LookForEvents
  <2>1. /\ UNCHANGED <<current, runs, wall, origin>> /\ pc # "outside"
        /\ pc' \in {"leave", "look", "loop", "plan", "synchronize"}
    BY <1>2 DEF WhileNotStopped, HandlerReturns, LookForEvents, Synchronize, loopVars, syncVars
  <2> QED
    BY <1>0, <2>1 DEF OneRunInv, Realtime
<1>3. CASE LeaveRun
  <2>1. queue = {} => unscheduled = 0
    BY FS_EmptySet DEF IInv, QueueInv
  <2> QED
    BY <1>0, <1>3, <2>1 DEF OneRunInv, LeaveRun, Realtime, loopVars, syncVars
<1>4. CASE PlanWait
  <2>1. queue # {}
    BY <1>4 DEF PlanWait, IInv, WaitInv
  <2> QED
    BY <1>0, <1>4, <2>1 DEF OneRunInv, PlanWait, Synchronize, Realtime, loopVars
<1>5. CASE BeginWait \/ SleepWait \/ AfterSleep \/ SpinWait
  <2>1. /\ UNCHANGED <<current, runs, wall, origin>> /\ pc # "outside"
        /\ pc' \in {"sleep", "late?", "spin", "loop", "take", "plan"}
    BY <1>5 DEF BeginWait, SleepWait, AfterSleep, SpinWait, Return, loopVars, syncVars
  <2> QED
    BY <1>0, <2>1 DEF OneRunInv, Realtime
<1>6. CASE TakeEvent
  <2>1. PICK e \in queue : e.ts <= Realtime
    BY <1>6 DEF TakeEvent, IInv, WaitInv
  <2>2. /\ Least \in queue /\ Least.ts <= e.ts
        /\ e.ts \in Nat /\ Least.ts \in Nat
    BY <2>1, LeastInQueue DEF IInv, EventsTypeOK, Events
  <2>3. Least.ts >= current.ts
    BY <1>0, <2>2 DEF IInv, QueueInv, Precedes
  <2>4. /\ current'.ts = Least.ts /\ pc' \in {"loop", "handler"}
        /\ UNCHANGED <<runs, wall, origin>>
    BY <1>0, <1>6, <2>1, <2>2, <2>3 DEF TakeEvent, syncVars
  <2>5. runs # 0
    BY <1>6 DEF TakeEvent, OneRunInv
  <2> QED
    BY <1>0, <2>1, <2>2, <2>4, <2>5 DEF OneRunInv, Realtime
<1>7. CASE Schedule \/ Cancel \/ Remove \/ Stop \/ UNCHANGED vars
  <2>1. UNCHANGED <<pc, current, runs, wall, origin>>
    BY <1>7 DEF Schedule, Cancel, Remove, Stop, vars, loopVars, syncVars
  <2> QED
    BY <2>1 DEF OneRunInv, Realtime
<1>8. CASE ScheduleWithContext \/ ScheduleRealtimeWithContext
  <2>1. UNCHANGED <<current, runs, wall, origin>>
    BY <1>8 DEF ScheduleWithContext, ScheduleRealtimeWithContext
  <2>2. \A d \in Delays : Realtime + d >= current.ts /\ ThreadTime + d >= current.ts
    BY <1>0, RealtimeAssumption DEF OneRunInv, ThreadTime
  <2>3. pc' = pc
    BY <1>8, <2>2 DEF ScheduleWithContext, ScheduleRealtimeWithContext, InsertChecked
  <2> QED
    BY <2>1, <2>3 DEF OneRunInv, Realtime
<1>9. CASE Tick
  <2>1. UNCHANGED <<pc, current, runs, origin>> /\ wall' = wall + 1
    BY <1>9 DEF Tick, loopVars, syncVars
  <2> QED
    BY <1>0, <2>1 DEF OneRunInv, Realtime
<1> QED
  BY <1>1, <1>2, <1>3, <1>4, <1>5, <1>6, <1>7, <1>8, <1>9
  DEF Next, RunSteps, UserCalls, OtherThreads, Done

\* In a process that calls Run once no assertion of the implementation fails,
\* whatever other threads do: no event is planned for or taken from an empty
\* queue, none lies in the past, and none is lost.
THEOREM OneRunNeverAborts ==
    ASSUME MaxRuns = 1
    PROVE  Spec => []NoAssertFails
<1>1. Init => OneRunInv
  BY RealtimeAssumption DEF Init, OneRunInv, Realtime
<1>2. IInv /\ OneRunInv /\ [Next]_vars => OneRunInv'
  BY OneRunStep
<1>3. OneRunInv => NoAssertFails
  BY DEF OneRunInv, NoAssertFails
<1> QED
  BY <1>1, <1>2, <1>3, Invariance, PTL DEF Spec
=============================================================================
