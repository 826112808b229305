--------------------------- MODULE DownTimeProofs ---------------------------
(***************************************************************************)
(* What holds of SimulationManager under every timeline: any number of     *)
(* calls, at any times, with any recovery delay.  Then that AnyTimeline    *)
(* implements Continuity: a handler adds events, removes none but its own  *)
(* and does not move time, so the restoration owed stays queued until it   *)
(* is the next event.                                                      *)
(***************************************************************************)
EXTENDS DownTime, SimulationManagerProofs

\* The events the operations are called by
LEMMA TimelineEventsInv ==
    ASSUME NEW timeline \in Timelines
    PROVE  /\ TimelineEvents(timeline) \subseteq Events
           /\ \A e \in TimelineEvents(timeline) :
                  e.ts >= 0 /\ e.uid < FirstUid + Calls
           /\ \A e, f \in TimelineEvents(timeline) : e.uid = f.uid => e = f
<1>1. Calls \in Nat /\ Slots \subseteq Nat
  BY SlotsAssumption
<1>2. /\ DOMAIN timeline = 0 .. Calls - 1
      /\ \A i \in 0 .. Calls - 1 :
            timeline[i][1] \in Slots /\ timeline[i][2] \in Operations
  BY DEF Timelines
<1>3. ASSUME NEW i \in 0 .. Calls - 1
      PROVE  LET e == Event(timeline[i][1], FirstUid + i, timeline[i][2], << >>)
             IN  e \in Events /\ e.ts >= 0 /\ e.uid < FirstUid + Calls
  <2>1. timeline[i][1] \in Nat /\ timeline[i][2] \in LabelHandlers
    BY <1>1, <1>2 DEF Operations, LabelHandlers
  <2>2. FirstUid + i \in Nat /\ FirstUid + i < FirstUid + Calls
    BY <1>1 DEF FirstUid
  <2>3. << >> \in Labels
    BY DEF Labels
  <2> QED
    BY <2>1, <2>2, <2>3 DEF Event, Events
<1>4. \A e \in TimelineEvents(timeline) :
        e \in Events /\ e.ts >= 0 /\ e.uid < FirstUid + Calls
  BY <1>2, <1>3 DEF TimelineEvents
<1>6. \A e, f \in TimelineEvents(timeline) : e.uid = f.uid => e = f
  <2> SUFFICES ASSUME NEW i \in 0 .. Calls - 1, NEW j \in 0 .. Calls - 1,
                      FirstUid + i = FirstUid + j
               PROVE  Event(timeline[i][1], FirstUid + i, timeline[i][2], << >>)
                    = Event(timeline[j][1], FirstUid + j, timeline[j][2], << >>)
    BY <1>2 DEF TimelineEvents, Event
  <2>1. i = j
    BY <1>1 DEF FirstUid
  <2> QED
    BY <2>1
<1> QED
  BY <1>4, <1>6

\* What a step preserves: the invariant of the world, and with it the badges
\* and the books
TimelineInv == IInv /\ Badged(World, {}) /\ Books(World)

LEMMA InitTimelineInv == ASSUME Init PROVE TimelineInv
<1>1. PICK timeline \in Timelines : StartsAs(StartWorld(timeline))
  BY DEF Init
<1> DEFINE w == StartWorld(timeline)
<1>2. FirstUid + Calls \in Nat
  BY SlotsAssumption DEF FirstUid
<1>3. WorldInv(w) /\ Badged(w, {}) /\ Books(w)
  <2>1. Unlabelled(TimelineEvents(timeline))
    <3>1. \A i \in DOMAIN timeline : timeline[i][2] # "RecordMetrics"
      BY DEF Timelines, Operations
    <3> QED
      BY <3>1 DEF Unlabelled, TimelineEvents, Event
  <2> QED
    BY <1>2, <2>1, TimelineEventsInv, StartInv DEF StartWorld
<1> HIDE DEF w
<1>4. World = w
  BY <1>1, <1>3, StartsAsWorld DEF w
<1> QED
  BY <1>3, <1>4 DEF TimelineInv, IInv

LEMMA StepTimelineInv ==
    ASSUME TimelineInv, [ManagerNext]_vars
    PROVE  TimelineInv'
<1>1. CASE ManagerNext
  <2>1. IInv /\ Badged(World, {}) /\ Books(World)
    BY DEF TimelineInv
  <2>2. CASE \E e \in queue : Step(e)
    BY <2>1, <2>2 DEF Step, Preserves, TimelineInv
  <2>3. CASE UNCHANGED vars
    BY <2>1, <2>3
       DEF vars, simulatorVars, managerVars, IInv, World, TimelineInv
  <2> QED
    BY <1>1, <2>1, <2>2, <2>3, ManagerStep
<1>2. CASE UNCHANGED vars
  BY <1>2 DEF vars, simulatorVars, managerVars, IInv, World, TimelineInv
<1> QED
  BY <1>1, <1>2

\* The inductive invariant of the world between two handlers: among others,
\* while m_recoveryScheduled is set a restoration is in the queue, and the
\* enterprise agent is never missing while it is clear.
THEOREM Invariance == Spec => []TimelineInv
<1>1. Init => TimelineInv
  BY InitTimelineInv
<1>2. TimelineInv /\ [ManagerNext]_vars => TimelineInv'
  BY StepTimelineInv
<1> QED
  BY <1>1, <1>2, PTL DEF Spec

\* Types; with them, that CreateAgents and RegisterReference are the only
\* sources of agents and references: every enterprise agent has the identity
\* of Aegis-RAN, every twin its reference.
THEOREM TypeCorrect == Spec => []TypeOK
<1>1. TimelineInv => TypeOK
  BY DEF TimelineInv, IInv, WorldInv, CoreInv, TypeOK
<1> QED
  BY <1>1, Invariance, PTL

\* The two assertions of the event loop: ProcessOneEvent never meets an event
\* in the past, and Insert never meets a key already there.
THEOREM QueueAlwaysWellFormed == Spec => []QueueWellFormed
<1>1. TimelineInv => QueueWellFormed
  BY DEF TimelineInv, IInv, WorldInv, CoreInv, QueueWellFormed, World
<1> QED
  BY <1>1, Invariance, PTL

\* VerifyAgentContinuity never finds an agent discontinuous, in whatever
\* order agents are destroyed, moved, restarted and created anew.
THEOREM NoCheckEverFails == Spec => []NoCheckFails
<1>1. TimelineInv => NoCheckFails
  BY DEF TimelineInv, IInv, WorldInv, CoreInv, NoCheckFails, World
<1> QED
  BY <1>1, Invariance, PTL

\* While the enterprise agent is down, a restoration is in the queue and due
\* at most RecoveryDelay after the scenario in progress started, even when
\* DestroyAgents found the flag set and relied on an earlier failure's timer.
THEOREM RestorationAlwaysPending == Spec => []RestorationPending
<1>1. TimelineInv => RestorationPending
  BY DEF TimelineInv, IInv, WorldInv, RestorationPending, RestorationDue, World
<1> QED
  BY <1>1, Invariance, PTL

\* The twin's counters, reset whenever it is replaced, never exceed the total
\* the collector reports.
THEOREM TwinNeverCountsMore == Spec => []TwinCountsAtMostTotal
<1>1. TimelineInv => TwinCountsAtMostTotal
  <2> SUFFICES ASSUME TimelineInv, twin # NoAgent
               PROVE  TotalChecks(twin) <= metrics.total
    BY DEF TwinCountsAtMostTotal
  <2>1. /\ twin.fail = 0 /\ twin.success <= metrics.total
        /\ World \in Worlds
    BY DEF TimelineInv, IInv, WorldInv, CoreInv, World
  <2>2. twin \in TwinAgents
    BY <2>1 DEF World, Worlds
  <2>3. twin.success \in Nat
    BY <2>2 DEF TwinAgents
  <2> QED
    BY <2>1, <2>3 DEF TotalChecks
<1> QED
  BY <1>1, Invariance, PTL

\* PrintFinalReport, Restore: the current twin's counters are the collector's
\* total less what it was when the last restoration created this twin.  That a
\* restoration is the only handler to replace a twin, and samples right after
\* its first check, is what every handler's KeepsBooks says.
THEOREM TwinAlwaysCountsItsOwn == Spec => []TwinCountsItsOwn
<1>1. TimelineInv => TwinCountsItsOwn
  BY DEF TimelineInv, Books, TwinCountsItsOwn, World
<1> QED
  BY <1>1, Invariance, PTL

\* ShowIdentityVerificationSuccess: the timer it schedules is there as long as
\* the colour it paints, even when the badges of two nodes overlap on the gNB
\* and the timer of the first repaints it.
THEOREM BadgesAlwaysExpire == Spec => []BadgesExpire
<1>1. TimelineInv => BadgesExpire
  BY DEF TimelineInv, Badged, BadgesExpire, World
<1> QED
  BY <1>1, Invariance, PTL

\* No handler but TriggerNetworkPartition leaves an enterprise agent without
\* its twin: crashes and teardowns take both, and the handlers that find one
\* missing create both before they go on.
THEOREM OnlyPartitionsOrphan == Spec => OnlyPartitionOrphans
<1> DEFINE Orphans ==
      twin # NoAgent /\ twin' = NoAgent /\ enterprise' # NoAgent
        => scenario'.name = <<"Network", "Partition">>
<1>1. TimelineInv /\ [ManagerNext]_vars => [Orphans]_vars
  <2> SUFFICES ASSUME TimelineInv, ManagerNext
               PROVE  Orphans \/ UNCHANGED vars
    OBVIOUS
  <2> QED
    BY ManagerStep DEF TimelineInv, Step, Preserves
<1>2. Spec => [][Orphans]_vars
  BY <1>1, Invariance, PTL DEF Spec
<1> QED
  BY <1>2 DEF OnlyPartitionOrphans

---------------------------------------------------------------------------
(* Continuity                                                              *)

\* Time and the queue are all that the step lemma needs of a step.
LEMMA ManagerStepShape ==
    ASSUME IInv, ManagerNext
    PROVE  /\ IInv'
           /\ (\E e \in queue : StepOf(e)) \/ UNCHANGED vars
<1>1. CASE UNCHANGED vars
  BY <1>1 DEF vars, simulatorVars, managerVars, IInv, World
<1>2. CASE \E e \in queue : Step(e)
  BY <1>2 DEF Step, Preserves
<1> QED
  BY <1>1, <1>2, ManagerStep

---------------------------------------------------------------------------
TrackedInv == IInv /\ DownInv

LEMMA InvFacts ==
    ASSUME IInv
    PROVE  /\ now \in Nat
           /\ \A e \in queue : e.ts \in Nat /\ e.uid \in Nat /\ now <= e.ts
           /\ enterprise \in EnterpriseAgents \cup {NoAgent}
           /\ scenario.start <= now /\ scenario.start \in Nat
           /\ enterprise = NoAgent => RestorationDue(World)
<1>1. /\ World \in Worlds
      /\ \A e \in queue : e.ts >= now
      /\ scenario.start <= now
      /\ enterprise = NoAgent => RestorationDue(World)
  BY DEF IInv, WorldInv, CoreInv, World
<1>2. /\ now \in Nat /\ queue \subseteq Events
      /\ enterprise \in EnterpriseAgents \cup {NoAgent}
      /\ scenario.start \in Nat
  BY <1>1 DEF World, Worlds
<1>3. \A e \in queue : e.ts \in Nat /\ e.uid \in Nat
  BY <1>2 DEF Events
<1> QED
  BY <1>1, <1>2, <1>3

\* An agent that goes down in a step is owed a restoration within
\* RecoveryDelay: the scenario that destroys it started no later than now.
LEMMA OwedInTime ==
    ASSUME NEW w, WorldInv(w), w.enterprise = NoAgent
    PROVE  \E e \in w.queue : /\ e.op \in Restorations
                              /\ e.ts <= w.now + RecoveryDelay
<1>1. PICK e \in w.queue : /\ e.op \in Restorations
                           /\ e.ts <= w.scenario.start + RecoveryDelay
  BY DEF WorldInv, RestorationDue
<1>2. RecoveryDelay \in Nat
  BY DelayAssumption
<1>3. w \in Worlds /\ w.scenario.start <= w.now
  BY DEF WorldInv, CoreInv
<1>4. w.queue \subseteq Events /\ w.scenario.start \in Nat /\ w.now \in Nat
  BY <1>3 DEF Worlds
<1>5. e.ts \in Nat
  BY <1>4 DEF Events
<1>6. e.ts <= w.now + RecoveryDelay
  BY <1>1, <1>2, <1>3, <1>4, <1>5
<1> QED
  BY <1>1, <1>6

\* What is owed stays owed while the agent is down, and until then time does
\* not pass it.
LEMMA StepInTime ==
    ASSUME TrackedInv, NEW e \in queue, StepOf(e)
    PROVE  /\ now' >= now /\ now' \in Nat
           /\ enterprise = NoAgent => now' <= downSince + RecoveryDelay
           /\ enterprise = NoAgent /\ enterprise' = NoAgent =>
                \E f \in queue' : /\ f.op \in Restorations
                                  /\ f.ts <= downSince + RecoveryDelay
<1>1. now' = e.ts /\ e.ts \in Nat /\ now <= e.ts /\ now \in Nat
  BY InvFacts DEF StepOf, TrackedInv
<1>2. ASSUME enterprise = NoAgent
      PROVE  /\ now' <= downSince + RecoveryDelay
             /\ enterprise' = NoAgent =>
                  \E f \in queue' : /\ f.op \in Restorations
                                    /\ f.ts <= downSince + RecoveryDelay
  <2>1. PICK f \in queue : /\ f.op \in Restorations
                           /\ f.ts <= downSince + RecoveryDelay
    BY <1>2 DEF TrackedInv, DownInv
  <2>2. f = e \/ (f \in queue' /\ Precedes(e, f))
    BY DEF StepOf
  <2>3. e.ts <= f.ts
    BY <2>2, <1>1, InvFacts DEF Precedes, TrackedInv
  <2>4. f.ts \in Nat /\ downSince \in Nat /\ RecoveryDelay \in Nat
    BY InvFacts, DelayAssumption DEF TrackedInv, DownInv
  <2>5. enterprise' = NoAgent => f \in queue'
    BY <2>1, <2>2 DEF StepOf
  <2> QED
    BY <1>1, <2>1, <2>3, <2>4, <2>5
<1> QED
  BY <1>1, <1>2

LEMMA TrackedInitInv == ASSUME TrackedInit PROVE TrackedInv
<1>1. IInv
  BY InitTimelineInv DEF TrackedInit, TimelineInv
<1>2. enterprise # NoAgent
  <2>1. PICK timeline \in Timelines : StartsAs(StartWorld(timeline))
    BY DEF TrackedInit, Init
  <2>2. enterprise = NewEnterprise(Primary, AegisRan)
    BY <2>1 DEF StartsAs, StartWorld, InitializeAgents, CreateAgents, EmptyWorld
  <2>3. NewEnterprise(Primary, AegisRan) \in EnterpriseAgents
    BY DEF NewEnterprise, EnterpriseAgents, Nodes
  <2> QED
    BY <2>2, <2>3, NoAgentAssumption
<1> QED
  BY <1>1, <1>2 DEF TrackedInv, DownInv, TrackedInit

LEMMA TrackedStepInv ==
    ASSUME TrackedInv, [TrackedNext]_trackedVars
    PROVE  TrackedInv'
<1>1. CASE TrackedNext
  <2>1. IInv'
    BY <1>1, ManagerStepShape DEF TrackedInv, TrackedNext
  <2>2. (\E e \in queue : StepOf(e)) \/ UNCHANGED vars
    BY <1>1, ManagerStepShape DEF TrackedInv, TrackedNext
  <2>3. Track
    BY <1>1 DEF TrackedNext
  <2>4. ASSUME NEW e \in queue, StepOf(e) PROVE DownInv'
    <3>1. downSince' \in Nat
      BY <2>3, <2>4, StepInTime DEF Track, TrackedInv, DownInv
    <3>2. CASE enterprise = NoAgent
      BY <3>1, <3>2, <2>3, <2>4, StepInTime DEF Track, DownInv
    <3>3. CASE enterprise # NoAgent
      <4>1. ASSUME enterprise' = NoAgent
            PROVE  \E f \in queue' : /\ f.op \in Restorations
                                     /\ f.ts <= now' + RecoveryDelay
        <5> DEFINE w == World'
        <5>1. WorldInv(w) /\ w.enterprise = NoAgent
          BY <4>1, <2>1 DEF IInv, World
        <5>2. w.queue = queue' /\ w.now = now'
          BY DEF World
        <5> HIDE DEF w
        <5> QED
          BY <5>1, <5>2, OwedInTime
      <4> QED
        BY <3>1, <3>3, <4>1, <2>3 DEF Track, DownInv
    <3> QED
      BY <3>2, <3>3
  <2>5. CASE UNCHANGED vars
    BY <2>5, <2>3 DEF Track, vars, simulatorVars, managerVars, TrackedInv,
                      DownInv, IInv, World
  <2> QED
    BY <2>1, <2>2, <2>4, <2>5 DEF TrackedInv
<1>2. CASE UNCHANGED trackedVars
  BY <1>2 DEF trackedVars, vars, simulatorVars, managerVars, TrackedInv,
              DownInv, IInv, World
<1> QED
  BY <1>1, <1>2

LEMMA TrackedInvariance == TrackedSpec => []TrackedInv
  BY TrackedInitInv, TrackedStepInv, PTL DEF TrackedSpec

\* Whatever the timeline, while the enterprise agent is down one of the
\* restorations in the queue is due within RecoveryDelay of the moment it went
\* down, however many scenarios have started in between.
THEOREM DownTimeBounded == TrackedSpec => []DownInv
<1>1. TrackedInv => DownInv
  BY DEF TrackedInv
<1> QED
  BY <1>1, TrackedInvariance, PTL

---------------------------------------------------------------------------
LEMMA Returned ==
    ASSUME NEW a \in EnterpriseAgents
    PROVE  Fingerprint(a) = AegisRan.fingerprint
<1>1. a # NoAgent /\ a.identity = AegisRan
  BY NoAgentAssumption DEF EnterpriseAgents
<1> QED
  BY <1>1 DEF Fingerprint

LEMMA StepImplements ==
    ASSUME TrackedInv, TrackedInv', TrackedNext
    PROVE  [C!Next]_C!vars
<1>1. (\E e \in queue : StepOf(e)) \/ UNCHANGED vars
  BY ManagerStepShape DEF TrackedInv, TrackedNext
<1>2. Track
  BY DEF TrackedNext
<1>3. /\ enterprise \in EnterpriseAgents \cup {NoAgent}
      /\ enterprise' \in EnterpriseAgents \cup {NoAgent}
  <2>1. World \in Worlds /\ World' \in Worlds
    BY DEF TrackedInv, IInv, WorldInv, CoreInv
  <2> QED
    BY <2>1 DEF World, Worlds
<1>4. CASE UNCHANGED vars
  BY <1>2, <1>4 DEF Track, C!vars, vars, simulatorVars, managerVars
<1>5. ASSUME NEW e \in queue, StepOf(e) PROVE C!Next
  <2>1. /\ now' >= now
        /\ enterprise = NoAgent => now' <= downSince + RecoveryDelay
    BY <1>5, StepInTime
  <2>2. Fingerprint(NoAgent) = NoAgent
    BY DEF Fingerprint
  <2>3. CASE enterprise = NoAgent /\ enterprise' = NoAgent
    BY <1>2, <2>1, <2>3 DEF Track, C!Next, C!Wait
  <2>4. CASE enterprise = NoAgent /\ enterprise' # NoAgent
    <3>1. Fingerprint(enterprise') = AegisRan.fingerprint
      BY <2>4, <1>3, Returned
    <3> QED
      BY <1>2, <2>1, <2>2, <2>4, <3>1 DEF Track, C!Next, C!Return
  <2>5. CASE enterprise # NoAgent
    <3>1. Fingerprint(enterprise) = AegisRan.fingerprint
      BY <2>5, <1>3, Returned
    <3>2. CASE enterprise' = NoAgent
      BY <1>2, <2>1, <2>2, <2>5, <3>1, <3>2 DEF Track, C!Next, C!Fail
    <3>3. CASE enterprise' # NoAgent
      <4>1. Fingerprint(enterprise') = AegisRan.fingerprint
        BY <3>3, <1>3, Returned
      <4> QED
        BY <1>2, <2>1, <2>5, <3>1, <3>3, <4>1, DownAssumption
           DEF Track, C!Next, C!Wait
    <3> QED
      BY <3>2, <3>3
  <2> QED
    BY <2>3, <2>4, <2>5
<1> QED
  BY <1>1, <1>4, <1>5

LEMMA InitImplements == ASSUME TrackedInit PROVE C!Init
<1>1. PICK timeline \in Timelines : StartsAs(StartWorld(timeline))
  BY DEF TrackedInit, Init
<1>2. enterprise = NewEnterprise(Primary, AegisRan) /\ now = 0
  BY <1>1 DEF StartsAs, StartWorld, InitializeAgents, CreateAgents, EmptyWorld
<1>3. NewEnterprise(Primary, AegisRan) \in EnterpriseAgents
  BY DEF NewEnterprise, EnterpriseAgents, Nodes
<1> QED
  BY <1>2, <1>3, Returned DEF TrackedInit, C!Init

\* The manager implements Continuity, safety only: for every recovery delay
\* and every timeline of calls, an outage ends within RecoveryDelay and gives
\* back the agent that was lost.
THEOREM Refinement == TrackedSpec => SafeContinuity
<1>1. TrackedInit => C!Init
  BY InitImplements
<1>2. TrackedInv /\ TrackedInv' /\ [TrackedNext]_trackedVars
        => [C!Next]_C!vars
  <2>1. ASSUME UNCHANGED trackedVars PROVE UNCHANGED C!vars
    BY <2>1 DEF trackedVars, vars, simulatorVars, managerVars, C!vars
  <2> QED
    BY <2>1, StepImplements
<1> QED
  BY <1>1, <1>2, TrackedInvariance, PTL DEF TrackedSpec, SafeContinuity
=============================================================================
