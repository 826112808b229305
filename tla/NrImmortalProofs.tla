-------------------------- MODULE NrImmortalProofs --------------------------
(***************************************************************************)
(* What holds of main's own timeline, for any value of --time it accepts,  *)
(* any of its delays and any sampling period; and what holds besides when  *)
(* the delays are WellSpaced, as main's literals are.                      *)
(***************************************************************************)
EXTENDS NrImmortal, SimulationManagerProofs, WellFoundedInduction

LEMMA MainLabels ==
    /\ << >> \in Labels
    /\ <<"Pre-Baseline", "Normal">> \in Labels
    /\ <<"Periodic", "Check">> \in Labels
<1>1. {"Pre-Baseline", "Normal", "Periodic", "Check"} \subseteq Words
  BY DEF Words
<1> QED
  BY <1>1, LabelType

LEMMA PeriodicChecksType ==
    ASSUME NEW t \in SimTimes
    PROVE  (t - 1) \div SamplePeriod \in Nat
<1>1. t - 1 \in Nat /\ SamplePeriod \in Nat \ {0}
  BY TimelineAssumption
<1>2. \A a \in Nat, b \in Nat \ {0} : a \div b \in Nat
  OBVIOUS
<1> QED
  BY <1>1, <1>2

LEMMA InitialEventsInv ==
    ASSUME NEW t \in SimTimes
    PROVE  LET q == InitialEvents(t)
               u == FirstUid + 8 + (t - 1) \div SamplePeriod
           IN  /\ u \in Nat
               /\ \A e \in q : e \in Events /\ e.ts >= 0 /\ e.uid < u
               /\ \A e, f \in q : e.uid = f.uid => e = f
<1> DEFINE n == (t - 1) \div SamplePeriod
           first ==
             {Event(1, FirstUid, "InitializeNodesDelayed", << >>),
              Event(5, FirstUid + 1, "CaptureBaseline", << >>),
              Event(10, FirstUid + 2, "RecordMetrics",
                    <<"Pre-Baseline", "Normal">>),
              Event(10, FirstUid + 3, "RunBaselineFailureScenario", << >>)}
           sample(k) == Event(k * SamplePeriod, FirstUid + 3 + k,
                              "RecordMetrics", <<"Periodic", "Check">>)
           last ==
             {Event(ContinuityStart, FirstUid + n + 4, "StartContinuity",
                    << >>),
              Event(PartitionStart, FirstUid + n + 5, "StartPartition", << >>),
              Event(ReportTime(t), FirstUid + n + 6, "FinalReport", << >>),
              Event(t, FirstUid + n + 7, "Stop", << >>)}
<1>1. n \in Nat
  BY PeriodicChecksType
<1>2. InitialEvents(t) = first \cup {sample(k) : k \in 1 .. n} \cup last
  BY DEF InitialEvents
<1>3. /\ ContinuityStart \in Nat /\ PartitionStart \in Nat
      /\ t \in Nat /\ ReportTime(t) \in Nat /\ SamplePeriod \in Nat
  BY TimelineAssumption DEF ReportTime
<1> HIDE DEF n
<1>4. \A e \in first : e \in Events /\ e.ts >= 0 /\ e.uid < FirstUid + 4
  BY MainLabels DEF Event, Events, FirstUid, LabelHandlers
<1>5. \A e, f \in first : e.uid = f.uid => e = f
  BY DEF Event, FirstUid
<1>6. \A e \in last : /\ e \in Events /\ e.ts >= 0
                      /\ e.uid >= FirstUid + n + 4 /\ e.uid < FirstUid + n + 8
  BY <1>1, <1>3, MainLabels DEF Event, Events, FirstUid, LabelHandlers
<1>7. \A e, f \in last : e.uid = f.uid => e = f
  BY <1>1 DEF Event, FirstUid
<1>8. ASSUME NEW k \in 1 .. n
      PROVE  /\ sample(k) \in Events /\ sample(k).ts >= 0
             /\ sample(k).uid = FirstUid + 3 + k
  <2>1. k * SamplePeriod \in Nat
    BY <1>1, <1>3
  <2>2. FirstUid + 3 + k \in Nat
    BY <1>1 DEF FirstUid
  <2> QED
    BY <2>1, <2>2, MainLabels DEF Event, Events, LabelHandlers
<1> HIDE DEF first, sample, last
<1> DEFINE samples == {sample(k) : k \in 1 .. n}
<1>9. \A e \in samples : /\ e \in Events /\ e.ts >= 0
                         /\ e.uid >= FirstUid + 4 /\ e.uid < FirstUid + n + 4
  BY <1>1, <1>8 DEF FirstUid
<1>10. \A e, f \in samples : e.uid = f.uid => e = f
  BY <1>1, <1>8 DEF FirstUid
<1>11. InitialEvents(t) = first \cup samples \cup last
  BY <1>2
<1> HIDE DEF samples
<1>12. \A e \in Events : e.uid \in Nat
  BY DEF Events
<1>13. \A e \in InitialEvents(t) :
        e \in Events /\ e.ts >= 0 /\ e.uid < FirstUid + n + 8
  BY <1>1, <1>4, <1>6, <1>9, <1>11, <1>12 DEF FirstUid
<1>14. \A e, f \in InitialEvents(t) : e.uid = f.uid => e = f
  BY <1>1, <1>4, <1>5, <1>6, <1>7, <1>9, <1>10, <1>11, <1>12 DEF FirstUid
<1> QED
  BY <1>1, <1>13, <1>14 DEF n, FirstUid

\* What main's run preserves: the invariant of the world, and the badges.  Not
\* the tiling of the samples: CaptureBaseline throws a sample away.
MainInv == IInv /\ Badged(World, {})

LEMMA InitMainInv ==
    ASSUME Init
    PROVE  /\ MainInv
           /\ \E t \in SimTimes : queue = InitialEvents(t)
           /\ AgentsPresent(World) /\ ~recoveryScheduled
           /\ scenario.name = << >> /\ scenario.start = 0
           /\ metrics.summaries = << >>
<1>1. PICK t \in SimTimes : StartsAs(StartWorld(t))
  BY DEF Init
<1> DEFINE w == StartWorld(t)
<1>2. /\ WorldInv(w) /\ AgentsPresent(w) /\ ~w.recoveryScheduled
      /\ Badged(w, {}) /\ w.queue = InitialEvents(t)
      /\ w.scenario.name = << >> /\ w.scenario.start = 0
      /\ w.metrics.summaries = << >>
  <2> DEFINE q == InitialEvents(t)
             u == FirstUid + 8 + (t - 1) \div SamplePeriod
  <2>1. /\ u \in Nat /\ q \in SUBSET Events
        /\ \A e \in q : e.ts >= 0 /\ e.uid < u
        /\ \A e, f \in q : e.uid = f.uid => e = f
    BY <1>1, InitialEventsInv
  <2>2. w = [InitializeAgents(EmptyWorld) EXCEPT !.queue = q, !.uid = u]
    BY DEF StartWorld
  <2> HIDE DEF q, u, w
  <2>3. /\ WorldInv(w) /\ AgentsPresent(w) /\ ~w.recoveryScheduled
        /\ Badged(w, {}) /\ w.queue = q
        /\ w.scenario.name = << >> /\ w.scenario.start = 0
        /\ w.metrics.summaries = << >>
    BY ZenonT(30), <2>1, <2>2, StartInv
  <2> QED
    BY <2>3 DEF q
<1> HIDE DEF w
<1>3. World = w
  BY <1>1, <1>2, StartsAsWorld DEF w
<1>4. /\ queue = w.queue /\ recoveryScheduled = w.recoveryScheduled
      /\ scenario = w.scenario /\ metrics = w.metrics
  BY <1>3 DEF World
<1> QED
  BY <1>2, <1>3, <1>4 DEF MainInv, IInv

---------------------------------------------------------------------------
(* main's handlers                                                         *)

LEMMA InitializeNodesKeeps ==
    ASSUME NEW w, WorldInv(w)
    PROVE  Keeps(w, InitializeNodesDelayed(w))
<1> DEFINE p == Paint(w, {Gnb}, "gNB_Normal")
           q == Paint(p, {Primary}, "Edge_Normal")
           r == Paint(q, {Secondary}, "Edge_Offline")
<1>1. {"gNB_Normal", "Edge_Normal", "Edge_Offline"}
        \subseteq Colours \ {"Verification_Success"}
  BY DEF Colours
<1>2. InitializeNodesDelayed(w) = r
  BY DEF InitializeNodesDelayed
<1>3. Keeps(w, p)
  BY <1>1, PaintKeeps
<1> HIDE DEF p
<1>4. Keeps(p, q)
  BY <1>1, <1>3, KeepsInv, PaintKeeps
<1> HIDE DEF q
<1>5. Keeps(q, r)
  BY <1>1, <1>4, KeepsInv, PaintKeeps
<1> QED
  BY <1>2, <1>3, <1>4, <1>5, KeepsTrans

\* What the timers of the scenarios, the flag, the agents and the summaries
\* have to do with each other is left alone.
Undisturbed(w, v) ==
    /\ Control(v.queue) = Control(w.queue)
    /\ SameFlag(w, v) /\ SameScenario(w, v) /\ SameAgents(w, v)
    /\ SameSummaries(w, v)

LEMMA CaptureBaselineLeaves ==
    ASSUME NEW w, WorldInv(w), NEW t \in Nat
    PROVE  LET v == [w EXCEPT !.metrics = CaptureBaseline(@, t)]
           IN  /\ WorldInv(v) /\ Undisturbed(w, v)
               /\ Badged(w, {}) => Badged(v, {})
<1> DEFINE c == CaptureBaseline(w.metrics, t)
           v == [w EXCEPT !.metrics = CaptureBaseline(@, t)]
<1>1. w \in Worlds
  BY DEF WorldInv, CoreInv
<1>2. /\ c \in Collectors /\ c.total = w.metrics.total
      /\ c.lastResult = w.metrics.lastResult
      /\ c.summaries = w.metrics.summaries
  <2>1. w.metrics \in Collectors
    BY <1>1 DEF Worlds
  <2>2. c.summaries = w.metrics.summaries
    BY <2>1 DEF CaptureBaseline, Collectors
  <2> QED
    BY <2>1, <2>2, CaptureBaselineType
<1>3. v = [w EXCEPT !.metrics = c]
  BY Zenon
<1> HIDE DEF c
<1>4. /\ v \in Worlds
      /\ v.now = w.now /\ v.queue = w.queue /\ v.uid = w.uid
      /\ v.enterprise = w.enterprise /\ v.twin = w.twin
      /\ v.recoveryScheduled = w.recoveryScheduled
      /\ v.scenario = w.scenario /\ v.metrics = c /\ v.colour = w.colour
  BY <1>1, <1>2, <1>3 DEF Worlds
<1> HIDE DEF v
<1>5. WorldInv(v)
  BY <1>2, <1>4 DEF WorldInv, CoreInv, RestorationDue
<1>6. Badged(w, {}) => Badged(v, {})
  BY <1>4, SameBadges
<1> QED
  BY <1>2, <1>4, <1>5, <1>6
     DEF Undisturbed, SameFlag, SameScenario, SameAgents, SameSummaries, v

\* The four events of the continuity phase
ContinuityEvents(w, q) ==
    \E crash, migration, restart, teardown :
        /\ crash.op = "TriggerNodeCrash"
        /\ crash.ts = w.now + CrashAfter
        /\ migration.op = "TriggerAgentMigration"
        /\ migration.ts = w.now + MigrationAfter
        /\ restart.op = "TriggerProcessRestart"
        /\ restart.ts = w.now + RestartAfter
        /\ teardown.op = "TriggerFullTeardown"
        /\ teardown.ts = w.now + TeardownAfter
        /\ q = Control(w.queue) \cup {crash, migration, restart, teardown}

LEMMA ScheduleContinuityExtends ==
    ASSUME NEW w, WorldInv(w)
    PROVE  LET v == ScheduleContinuitySuccessScenarios(w)
           IN  /\ Extends(w, v) /\ ContinuityEvents(w, Control(v.queue))
               /\ SameFlag(w, v) /\ SameScenario(w, v) /\ SameAgents(w, v)
               /\ SameSummaries(w, v)
<1> DEFINE a == Schedule(w, CrashAfter, "TriggerNodeCrash", << >>)
           b == Schedule(a, MigrationAfter, "TriggerAgentMigration", << >>)
           c == Schedule(b, RestartAfter, "TriggerProcessRestart", << >>)
           d == Schedule(c, TeardownAfter, "TriggerFullTeardown", << >>)
           crash == Event(w.now + CrashAfter, w.uid, "TriggerNodeCrash", << >>)
           migration == Event(a.now + MigrationAfter, a.uid,
                              "TriggerAgentMigration", << >>)
           restart == Event(b.now + RestartAfter, b.uid,
                            "TriggerProcessRestart", << >>)
           teardown == Event(c.now + TeardownAfter, c.uid,
                             "TriggerFullTeardown", << >>)
<1>1. /\ CrashAfter \in Nat /\ MigrationAfter \in Nat
      /\ RestartAfter \in Nat /\ TeardownAfter \in Nat
  BY TimelineAssumption
<1>2. {"TriggerNodeCrash", "TriggerAgentMigration", "TriggerProcessRestart",
       "TriggerFullTeardown"} \subseteq LabelHandlers \ {"RecordMetrics"}
  BY DEF LabelHandlers
<1>3. ScheduleContinuitySuccessScenarios(w) = d
  BY DEF ScheduleContinuitySuccessScenarios
<1>4. /\ Plans(w, a, crash)
      /\ Control(a.queue) = Control(w.queue) \cup {crash}
  BY <1>1, <1>2, ScheduleLabelPlans
<1>5. crash.op = "TriggerNodeCrash" /\ crash.ts = w.now + CrashAfter
  BY DEF Event
<1> HIDE DEF a, crash
<1>6. /\ Plans(a, b, migration)
      /\ Control(b.queue) = Control(a.queue) \cup {migration}
  BY <1>1, <1>2, <1>4, ScheduleLabelPlans DEF Plans, Extends
<1>7. /\ migration.op = "TriggerAgentMigration"
      /\ migration.ts = a.now + MigrationAfter
  BY DEF Event
<1> HIDE DEF b, migration
<1>8. /\ Plans(b, c, restart)
      /\ Control(c.queue) = Control(b.queue) \cup {restart}
  BY <1>1, <1>2, <1>6, ScheduleLabelPlans DEF Plans, Extends
<1>9. /\ restart.op = "TriggerProcessRestart"
      /\ restart.ts = b.now + RestartAfter
  BY DEF Event
<1> HIDE DEF c, restart
<1>10. /\ Plans(c, d, teardown)
       /\ Control(d.queue) = Control(c.queue) \cup {teardown}
  BY <1>1, <1>2, <1>8, ScheduleLabelPlans DEF Plans, Extends
<1>11. /\ teardown.op = "TriggerFullTeardown"
       /\ teardown.ts = c.now + TeardownAfter
  BY DEF Event
<1> HIDE DEF d, teardown
<1>12. a.now = w.now /\ b.now = w.now /\ c.now = w.now
  BY <1>4, <1>6, <1>8 DEF Plans, Extends
<1>13. Control(d.queue)
        = Control(w.queue) \cup {crash, migration, restart, teardown}
  BY <1>4, <1>6, <1>8, <1>10
<1>14. ContinuityEvents(w, Control(d.queue))
  BY <1>5, <1>7, <1>9, <1>11, <1>12, <1>13 DEF ContinuityEvents
<1>15. Extends(w, d)
  BY <1>4, <1>6, <1>8, <1>10, ExtendsTrans DEF Plans
<1>16. /\ SameFlag(w, d) /\ SameScenario(w, d) /\ SameAgents(w, d)
       /\ SameSummaries(w, d)
  BY <1>4, <1>6, <1>8, <1>10
     DEF Plans, SameFlag, SameScenario, SameAgents, SameSummaries
<1> QED
  BY <1>3, <1>14, <1>15, <1>16

LEMMA FinalReportKeeps ==
    ASSUME NEW w, WorldInv(w)
    PROVE  Keeps(w, PrintFinalReport(Record(FinalCheck(w), <<"Final">>)))
<1> DEFINE c == FinalCheck(w)
           r == Record(c, <<"Final">>)
           line == <<IF r.twin = NoAgent
                     THEN [checks |-> 0, success |-> 0, fail |-> 0]
                     ELSE [checks |-> TotalChecks(r.twin),
                           success |-> r.twin.success, fail |-> r.twin.fail]>>
           v == PrintFinalReport(r)
<1>1. Keeps(w, c)
  BY VerifyAgentContinuityKeeps, KeepsSelf DEF FinalCheck
<1> HIDE DEF c
<1>2. Keeps(c, r)
  BY <1>1, KeepsInv, HandlerLabels, RecordKeeps
<1> HIDE DEF r
<1>3. r \in Worlds /\ WorldInv(r)
  BY <1>2, KeepsInv
<1>4. line \in Seq([checks : Nat, success : Nat, fail : Nat])
  <2>1. \A t \in TwinAgents : t.success \in Nat /\ t.fail \in Nat
    BY DEF TwinAgents
  <2>2. r.twin = NoAgent \/ r.twin \in TwinAgents
    BY <1>3 DEF Worlds
  <2> QED
    BY <2>1, <2>2 DEF TotalChecks
<1>5. v = [r EXCEPT !.report = line]
  BY DEF PrintFinalReport
<1> HIDE DEF line
<1>6. /\ v \in Worlds
      /\ v.now = r.now /\ v.queue = r.queue /\ v.uid = r.uid
      /\ v.enterprise = r.enterprise /\ v.twin = r.twin
      /\ v.recoveryScheduled = r.recoveryScheduled
      /\ v.scenario = r.scenario /\ v.metrics = r.metrics
      /\ v.colour = r.colour
  BY <1>3, <1>4, <1>5 DEF Worlds
<1> HIDE DEF v
<1>7. Badged(r, {}) => Badged(v, {})
  BY <1>6, SameBadges
<1>8. Keeps(r, v)
  BY <1>3, <1>6, <1>7, UnrelatedExtends DEF Keeps, SameSummaries
<1> QED
  BY <1>1, <1>2, <1>8, KeepsTrans DEF v, r, c

\* An action of main's own preserves what its handler does.
LEMMA BecomesMainInv ==
    ASSUME MainInv, NEW op, op \notin Restorations, op # "ResetColours",
           NEW e \in Due(op), NEW v, WorldInv(v), Becomes(v),
           Badged(Dequeue(World, e), {}) => Badged(v, {})
    PROVE  MainInv'
<1>1. World' = v
  BY BecomesWorld DEF WorldInv, CoreInv
<1>2. Badged(v, {})
  BY DequeueBadged DEF MainInv
<1> QED
  BY <1>1, <1>2 DEF MainInv, IInv

LEMMA StepMainInv == ASSUME MainInv, [Next]_vars PROVE MainInv'
<1> USE DEF Restorations
<1>0. IInv
  BY DEF MainInv
<1>1. CASE NodesInitialized
  <2>1. PICK e \in Due("InitializeNodesDelayed") :
            Becomes(InitializeNodesDelayed(Dequeue(World, e)))
    BY <1>1 DEF NodesInitialized
  <2>2. Keeps(Dequeue(World, e), InitializeNodesDelayed(Dequeue(World, e)))
    BY <1>0, DequeueInv, InitializeNodesKeeps
  <2> QED
    BY <2>1, <2>2, BecomesMainInv DEF Keeps, Extends
<1>2. CASE BaselineCaptured
  <2>1. PICK e \in Due("CaptureBaseline") :
          Becomes([Dequeue(World, e) EXCEPT !.metrics =
                       CaptureBaseline(@, e.ts)])
    BY <1>2 DEF BaselineCaptured
  <2>2. e.ts \in Nat
    BY <1>0, DueEvent DEF Events
  <2>3. WorldInv(Dequeue(World, e))
    BY <1>0, DequeueInv
  <2> QED
    BY <2>1, <2>2, <2>3, CaptureBaselineLeaves, BecomesMainInv
<1>3. CASE ContinuityStarts
  <2>1. PICK e \in Due("StartContinuity") :
          Becomes(ScheduleContinuitySuccessScenarios(
                      InitializeAgents(Dequeue(World, e))))
    BY <1>3 DEF ContinuityStarts
  <2> DEFINE w == Dequeue(World, e)
             x == InitializeAgents(w)
             v == ScheduleContinuitySuccessScenarios(x)
  <2>2. Creates(w, x)
    BY <1>0, DequeueInv, CreateAgentsCreates DEF InitializeAgents, WorldInv
  <2> HIDE DEF x
  <2>3. Extends(x, v)
    BY <2>2, ScheduleContinuityExtends DEF Creates, Extends
  <2>4. Becomes(v)
    BY <2>1 DEF x
  <2> HIDE DEF v
  <2>5. Extends(w, v)
    BY <2>2, <2>3, ExtendsTrans DEF Creates
  <2> QED
    BY <2>4, <2>5, BecomesMainInv DEF Extends
<1>4. CASE PartitionStarts
  <2>1. PICK e \in Due("StartPartition") :
          Becomes(ScheduleNetworkPartitionScenario(Dequeue(World, e)))
    BY <1>4 DEF PartitionStarts
  <2> DEFINE w == Dequeue(World, e)
             v == Schedule(w, PartitionAfter, "TriggerNetworkPartition", << >>)
  <2>2. WorldInv(w)
    BY <1>0, DequeueInv
  <2>3. /\ PartitionAfter \in Nat
        /\ "TriggerNetworkPartition" \in LabelHandlers \ {"RecordMetrics"}
    BY TimelineAssumption DEF LabelHandlers
  <2>4. Extends(w, v)
    BY <2>2, <2>3, ScheduleLabelPlans DEF Plans
  <2>5. Becomes(v)
    BY <2>1 DEF ScheduleNetworkPartitionScenario
  <2> HIDE DEF v
  <2> QED
    BY <2>4, <2>5, BecomesMainInv DEF Extends
<1>5. CASE FinalReport
  <2>1. PICK e \in Due("FinalReport") :
            Becomes(PrintFinalReport(Record(FinalCheck(Dequeue(World, e)),
                                            <<"Final">>)))
    BY <1>5 DEF FinalReport
  <2> DEFINE w == Dequeue(World, e)
             v == PrintFinalReport(Record(FinalCheck(w), <<"Final">>))
  <2>2. Keeps(w, v)
    BY <1>0, DequeueInv, FinalReportKeeps
  <2>3. Becomes(v)
    BY <2>1
  <2> HIDE DEF v
  <2> QED
    BY <2>2, <2>3, BecomesMainInv DEF Keeps, Extends
<1>6. CASE ManagerNext
  <2>1. CASE \E e \in queue : Step(e)
    BY <2>1 DEF Step, Preserves, MainInv
  <2>2. CASE UNCHANGED vars
    BY <2>2 DEF vars, simulatorVars, managerVars, IInv, World, MainInv
  <2> QED
    BY <1>0, <1>6, <2>1, <2>2, ManagerStep
<1>7. CASE UNCHANGED vars
  BY <1>7 DEF vars, simulatorVars, managerVars, IInv, World, MainInv
<1> QED
  BY <1>1, <1>2, <1>3, <1>4, <1>5, <1>6, <1>7 DEF Next

---------------------------------------------------------------------------
(* How main's scenarios keep out of each other's way                       *)
(* (a plan its events keep to, when its literals are WellSpaced)           *)

\* The events that start a scenario, and those that write its summary
Continuities == {"TriggerNodeCrash", "TriggerAgentMigration",
                 "TriggerProcessRestart", "TriggerFullTeardown"}
Starters == Continuities \cup
                {"RunBaselineFailureScenario", "TriggerNetworkPartition"}
Closers == Restorations \cup {"EndScenario"}

\* When main has a scenario started, and how long it lasts
StartTime(op) ==
    CASE op = "RunBaselineFailureScenario" -> 10
      [] op = "TriggerNodeCrash"           -> ContinuityStart + CrashAfter
      [] op = "TriggerAgentMigration"      -> ContinuityStart + MigrationAfter
      [] op = "TriggerProcessRestart"      -> ContinuityStart + RestartAfter
      [] op = "TriggerFullTeardown"        -> ContinuityStart + TeardownAfter
      [] op = "TriggerNetworkPartition"    -> PartitionStart + PartitionAfter

Lasts(op) ==
    CASE op = "RunBaselineFailureScenario" -> 110
      [] op = "TriggerNodeCrash"           -> RecoveryDelay
      [] op = "TriggerAgentMigration"      -> 0
      [] op = "TriggerProcessRestart"      -> 0
      [] op = "TriggerFullTeardown"        -> RecoveryDelay
      [] op = "TriggerNetworkPartition"    -> 50

\* What the pictures get before an outage begins, where PicturesSettle holds
Settle(op) ==
    IF /\ PicturesSettle
       /\ op \in {"TriggerNodeCrash", "TriggerFullTeardown",
                  "TriggerNetworkPartition"}
    THEN 30 ELSE 0

\* The end of the scenario last started, and whether it comes before op
ScenarioEnd(w) == w.scenario.start + ExpectedDowntime(w.scenario.name)
Ahead(w, op) == ScenarioEnd(w) + Settle(op) < StartTime(op)

\* A scenario not started yet is called once, at its time, which is after the
\* end of the one in progress.
QueuePlan(w) ==
    LET c == Control(w.queue)
    IN  /\ \A e \in c : e.op \in Starters =>
              e.ts = StartTime(e.op) /\ Ahead(w, e.op)
        /\ \A e \in c : e.op = "StartContinuity" =>
              /\ e.ts = ContinuityStart
              /\ \A op \in Continuities : Ahead(w, op)
              /\ \A f \in c : f.op \notin Continuities
        /\ \A e \in c : e.op = "StartPartition" =>
              /\ e.ts = PartitionStart
              /\ Ahead(w, "TriggerNetworkPartition")
              /\ \A f \in c : f.op # "TriggerNetworkPartition"
        /\ \A e, f \in c :
              e.op = f.op /\ e.op \in Starters \cup {"StartContinuity",
                                                     "StartPartition"}
                => e = f

\* Of the events that end a scenario one at most is pending, at the end of the
\* scenario in progress; it is a restoration exactly while the flag is set.
CloserPlan(w) ==
    LET c == Control(w.queue)
    IN  /\ \A e, f \in c : e.op \in Closers /\ f.op \in Closers => e = f
        /\ \A e \in c : e.op \in Closers =>
              w.scenario.start > 0 /\ e.ts = ScenarioEnd(w)
        /\ w.recoveryScheduled <=> \E e \in c : e.op \in Restorations

Accurate(s) ==
    \A i \in DOMAIN s : s[i].downtime = ExpectedDowntime(s[i].name)

\* A scenario that is over has the last summary, and each summary the downtime
\* its scenario is meant to show.
SummaryPlan(w) ==
    LET s == w.metrics.summaries
    IN  /\ \/ \E e \in Control(w.queue) : e.op \in Closers
           \/ w.scenario.name = << >>
           \/ s # << >> /\ s[Len(s)].name = w.scenario.name
        /\ Accurate(s)

\* The twin is not gone alone before the partition, which comes last.
TwinPlan(w) ==
    w.twin = NoAgent /\ w.enterprise # NoAgent =>
        \A e \in Control(w.queue) :
            e.op \notin Continuities \cup {"StartContinuity"}

Plan(w) == QueuePlan(w) /\ CloserPlan(w) /\ SummaryPlan(w) /\ TwinPlan(w)

---------------------------------------------------------------------------
(* The timetable                                                           *)

LEMMA StarterCases ==
    ASSUME NEW op \in Starters
    PROVE  \/ op = "RunBaselineFailureScenario" \/ op = "TriggerNodeCrash"
           \/ op = "TriggerAgentMigration" \/ op = "TriggerProcessRestart"
           \/ op = "TriggerFullTeardown" \/ op = "TriggerNetworkPartition"
  BY DEF Starters, Continuities

LEMMA Timetable ==
    /\ StartTime("RunBaselineFailureScenario") = 10
    /\ StartTime("TriggerNodeCrash") = ContinuityStart + CrashAfter
    /\ StartTime("TriggerAgentMigration") = ContinuityStart + MigrationAfter
    /\ StartTime("TriggerProcessRestart") = ContinuityStart + RestartAfter
    /\ StartTime("TriggerFullTeardown") = ContinuityStart + TeardownAfter
    /\ StartTime("TriggerNetworkPartition") = PartitionStart + PartitionAfter
    /\ Lasts("RunBaselineFailureScenario") = 110
    /\ Lasts("TriggerNodeCrash") = RecoveryDelay
    /\ Lasts("TriggerAgentMigration") = 0
    /\ Lasts("TriggerProcessRestart") = 0
    /\ Lasts("TriggerFullTeardown") = RecoveryDelay
    /\ Lasts("TriggerNetworkPartition") = 50
  BY DEF StartTime, Lasts

LEMMA Times ==
    ASSUME WellSpaced, NEW op \in Starters
    PROVE  /\ StartTime(op) \in Nat /\ StartTime(op) > 0
           /\ Lasts(op) \in Nat
<1>1. /\ ContinuityStart \in Nat /\ CrashAfter \in Nat
      /\ MigrationAfter \in Nat /\ RestartAfter \in Nat
      /\ TeardownAfter \in Nat /\ PartitionStart \in Nat
      /\ PartitionAfter \in Nat /\ RecoveryDelay \in Nat
  BY TimelineAssumption, DelayAssumption
<1> QED
  BY <1>1, StarterCases, Timetable DEF WellSpaced

\* A scenario that starts no earlier starts after the end of the other.
LEMMA Spacing ==
    ASSUME WellSpaced, NEW op \in Starters, NEW next \in Starters,
           next # op, StartTime(op) <= StartTime(next)
    PROVE  StartTime(op) + Lasts(op) + Settle(next) < StartTime(next)
<1>1. /\ ContinuityStart \in Nat /\ CrashAfter \in Nat
      /\ MigrationAfter \in Nat /\ RestartAfter \in Nat
      /\ TeardownAfter \in Nat /\ PartitionStart \in Nat
      /\ PartitionAfter \in Nat /\ RecoveryDelay \in Nat \ {0}
  BY TimelineAssumption, DelayAssumption
<1>2. CASE op = "RunBaselineFailureScenario"
  BY <1>1, <1>2, StarterCases, Timetable DEF WellSpaced, PicturesSettle, Settle
<1>3. CASE op = "TriggerNodeCrash"
  BY <1>1, <1>3, StarterCases, Timetable DEF WellSpaced, PicturesSettle, Settle
<1>4. CASE op = "TriggerAgentMigration"
  BY <1>1, <1>4, StarterCases, Timetable DEF WellSpaced, PicturesSettle, Settle
<1>5. CASE op = "TriggerProcessRestart"
  BY <1>1, <1>5, StarterCases, Timetable DEF WellSpaced, PicturesSettle, Settle
<1>6. CASE op = "TriggerFullTeardown"
  BY <1>1, <1>6, StarterCases, Timetable DEF WellSpaced, PicturesSettle, Settle
<1>7. CASE op = "TriggerNetworkPartition"
  BY <1>1, <1>7, StarterCases, Timetable DEF WellSpaced, PicturesSettle, Settle
<1> QED
  BY <1>2, <1>3, <1>4, <1>5, <1>6, <1>7, StarterCases

\* The same for the events that schedule the scenarios
LEMMA PhaseSpacing ==
    ASSUME WellSpaced, NEW op \in Starters
    PROVE  /\ op \notin Continuities /\ StartTime(op) <= ContinuityStart =>
                \A next \in Continuities :
                    StartTime(op) + Lasts(op) + Settle(next) < StartTime(next)
           /\ op # "TriggerNetworkPartition" =>
                StartTime(op) + Lasts(op) + Settle("TriggerNetworkPartition")
                    < StartTime("TriggerNetworkPartition")
<1>1. /\ ContinuityStart \in Nat /\ CrashAfter \in Nat
      /\ MigrationAfter \in Nat /\ RestartAfter \in Nat
      /\ TeardownAfter \in Nat /\ PartitionStart \in Nat
      /\ PartitionAfter \in Nat /\ RecoveryDelay \in Nat \ {0}
  BY TimelineAssumption, DelayAssumption
<1>2. ASSUME op \notin Continuities, StartTime(op) <= ContinuityStart,
             NEW next \in Continuities
      PROVE  StartTime(op) + Lasts(op) + Settle(next) < StartTime(next)
  <2>1. op = "RunBaselineFailureScenario"
    BY <1>1, <1>2, StarterCases, Timetable
       DEF WellSpaced, PicturesSettle, Settle, Continuities
  <2> QED
    BY <1>1, <1>2, <2>1, Timetable
       DEF WellSpaced, PicturesSettle, Settle, Continuities
<1>3. op # "TriggerNetworkPartition" =>
        StartTime(op) + Lasts(op) + Settle("TriggerNetworkPartition")
            < StartTime("TriggerNetworkPartition")
  BY <1>1, StarterCases, Timetable DEF WellSpaced, PicturesSettle, Settle
<1> QED
  BY <1>2, <1>3

LEMMA DowntimeOf ==
    /\ ExpectedDowntime(<<"Baseline", "Failure">>)
        = Lasts("RunBaselineFailureScenario")
    /\ ExpectedDowntime(<<"Node", "Crash">>) = Lasts("TriggerNodeCrash")
    /\ ExpectedDowntime(<<"Agent", "Migration">>)
        = Lasts("TriggerAgentMigration")
    /\ ExpectedDowntime(<<"Process", "Restart">>)
        = Lasts("TriggerProcessRestart")
    /\ ExpectedDowntime(<<"Full", "Teardown">>) = Lasts("TriggerFullTeardown")
    /\ ExpectedDowntime(<<"Network", "Partition">>)
        = Lasts("TriggerNetworkPartition")
    /\ ExpectedDowntime(<< >>) = 0
  BY Timetable DEF ExpectedDowntime

---------------------------------------------------------------------------
(* What keeps the plan                                                     *)

LEMMA UndisturbedPlan ==
    ASSUME NEW w, NEW v, Plan(w), Undisturbed(w, v)
    PROVE  Plan(v)
<1>1. ScenarioEnd(v) = ScenarioEnd(w)
  BY DEF Undisturbed, SameScenario, ScenarioEnd
<1>2. QueuePlan(v)
  BY <1>1 DEF Undisturbed, Plan, QueuePlan, Ahead
<1>3. CloserPlan(v)
  BY <1>1 DEF Undisturbed, Plan, CloserPlan, SameFlag, SameScenario
<1>4. SummaryPlan(v)
  BY DEF Undisturbed, Plan, SummaryPlan, SameSummaries, SameScenario
<1>5. TwinPlan(v)
  BY DEF Undisturbed, Plan, TwinPlan, SameAgents
<1> QED
  BY <1>2, <1>3, <1>4, <1>5 DEF Plan

LEMMA KeepsPlan ==
    ASSUME NEW w, NEW v, Plan(w), Keeps(w, v)
    PROVE  Plan(v)
  BY UndisturbedPlan DEF Keeps, Undisturbed

\* Taking an event off the queue leaves no other behind.
LEMMA DequeueControl ==
    ASSUME IInv, NEW op, NEW e \in Due(op)
    PROVE  LET v == Dequeue(World, e)
           IN  /\ Control(v.queue) = Control(World.queue) \ {e}
               /\ v.now = e.ts /\ e.op = op /\ e \in World.queue
               /\ op \notin NodeHandlers \cup {"RecordMetrics"} =>
                    e \in Control(World.queue)
               /\ SameFlag(World, v) /\ SameScenario(World, v)
               /\ SameAgents(World, v) /\ SameSummaries(World, v)
<1> DEFINE v == Dequeue(World, e)
<1>1. /\ v.queue = queue \ {e} /\ v.now = e.ts
      /\ v.enterprise = enterprise /\ v.twin = twin
      /\ v.recoveryScheduled = recoveryScheduled
      /\ v.scenario = scenario /\ v.metrics = metrics
  BY DequeueCore
<1>2. e \in queue /\ e.op = op
  BY DueEvent
<1> HIDE DEF v
<1>3. /\ World.queue = queue /\ World.enterprise = enterprise
      /\ World.twin = twin /\ World.recoveryScheduled = recoveryScheduled
      /\ World.scenario = scenario /\ World.metrics = metrics
  BY DEF World
<1>4. Control(v.queue) = Control(World.queue) \ {e}
  BY <1>1, <1>3 DEF Control
<1>5. op \notin NodeHandlers \cup {"RecordMetrics"} =>
            e \in Control(World.queue)
  BY <1>2, <1>3 DEF Control
<1> QED
  BY <1>1, <1>2, <1>3, <1>4, <1>5
     DEF SameFlag, SameScenario, SameAgents, SameSummaries, v

\* An event that ends no scenario may be taken away.
LEMMA DequeuePlan ==
    ASSUME IInv, Plan(World), NEW op, op \notin Closers, NEW e \in Due(op)
    PROVE  Plan(Dequeue(World, e))
<1> DEFINE w == World
           v == Dequeue(World, e)
<1>1. /\ Control(v.queue) = Control(w.queue) \ {e} /\ e.op \notin Closers
      /\ SameFlag(w, v) /\ SameScenario(w, v) /\ SameAgents(w, v)
      /\ SameSummaries(w, v) /\ Plan(w)
  BY DequeueControl
<1> HIDE DEF v, w
<1>2. ScenarioEnd(v) = ScenarioEnd(w)
  BY <1>1 DEF SameScenario, ScenarioEnd
<1>3. QueuePlan(v)
  BY <1>1, <1>2 DEF Plan, QueuePlan, Ahead
<1>4. CloserPlan(v)
  BY <1>1, <1>2 DEF Plan, CloserPlan, SameFlag, SameScenario, Closers
<1>5. SummaryPlan(v)
  BY <1>1 DEF Plan, SummaryPlan, SameSummaries, SameScenario
<1>6. TwinPlan(v)
  BY <1>1 DEF Plan, TwinPlan, SameAgents
<1> QED
  BY <1>3, <1>4, <1>5, <1>6 DEF Plan, v

\* When a scenario starts the one before is over: no timer of it is pending,
\* the agents it took are back, and the scenarios to come are still ahead.
Clear(w, op) ==
    LET c == Control(w.queue)
    IN  /\ w.now = StartTime(op)
        /\ ~w.recoveryScheduled /\ w.enterprise # NoAgent
        /\ \A f \in c : f.op \notin Closers /\ f.op # op /\ w.now <= f.ts
        /\ op \in Continuities =>
              AgentsPresent(w) /\ \A f \in c : f.op # "StartContinuity"
        /\ op = "TriggerNetworkPartition" =>
              \A f \in c : f.op # "StartPartition"

LEMMA StarterClear ==
    ASSUME WellSpaced, IInv, Plan(World), NEW op \in Starters,
           NEW e \in Due(op)
    PROVE  Clear(Dequeue(World, e), op)
<1> DEFINE w == World
           v == Dequeue(World, e)
           c == Control(w.queue)
<1>1. /\ Control(v.queue) = c \ {e} /\ v.now = e.ts /\ e.op = op
      /\ e \in w.queue /\ e \in c
      /\ SameFlag(w, v) /\ SameScenario(w, v) /\ SameAgents(w, v)
  <2>1. op \notin NodeHandlers \cup {"RecordMetrics"}
    BY DEF Starters, Continuities, NodeHandlers
  <2> QED
    BY <2>1, DequeueControl
<1>2. /\ Plan(w) /\ WorldInv(w) /\ w \in Worlds
  BY DEF IInv, WorldInv, CoreInv
<1>3. \A f \in w.queue \ {e} : Precedes(e, f)
  BY DEF Due, World
<1> HIDE DEF v, w
<1>4. \A f \in w.queue : f.ts \in Nat
  BY <1>2 DEF Worlds, Events
<1>5. \A f \in c : f \in w.queue
  BY DEF Control
<1>6. /\ \A f \in c : e.ts <= f.ts
      /\ e.ts \in Nat
  BY <1>1, <1>3, <1>4, <1>5 DEF Precedes
<1> HIDE DEF c
<1>7. e.ts = StartTime(op) /\ ScenarioEnd(w) + Settle(op) < StartTime(op)
  BY <1>1, <1>2 DEF Plan, QueuePlan, Ahead, c
<1>8. \A f \in c : f.op \notin Closers
  <2> SUFFICES ASSUME NEW f \in c, f.op \in Closers
               PROVE  FALSE
    OBVIOUS
  <2>1. f.ts = ScenarioEnd(w)
    BY <1>2 DEF Plan, CloserPlan, c
  <2>2. f.ts \in Nat /\ StartTime(op) \in Nat
    BY <1>4, <1>5, Times
  <2> QED
    BY <1>6, <1>7, <2>1, <2>2 DEF Settle
<1>9. ~w.recoveryScheduled /\ w.enterprise # NoAgent
  BY <1>2, <1>8 DEF Plan, CloserPlan, WorldInv, Closers, c
<1>10. \A f \in c \ {e} : f.op # op
  BY <1>1, <1>2 DEF Plan, QueuePlan, c
<1>11. ASSUME op \in Continuities
       PROVE  w.twin # NoAgent /\ \A f \in c : f.op # "StartContinuity"
  <2>1. w.twin # NoAgent
    BY <1>1, <1>2, <1>9, <1>11 DEF Plan, TwinPlan, c
  <2>2. \A f \in c : f.op # "StartContinuity"
    BY <1>1, <1>2, <1>11 DEF Plan, QueuePlan, c
  <2> QED
    BY <2>1, <2>2
<1>12. op = "TriggerNetworkPartition" => \A f \in c : f.op # "StartPartition"
  BY <1>1, <1>2 DEF Plan, QueuePlan, c
<1>13. Clear(v, op)
  BY <1>1, <1>6, <1>7, <1>8, <1>9, <1>10, <1>11, <1>12
     DEF Clear, SameFlag, SameAgents, AgentsPresent, c
<1> QED
  BY <1>13 DEF v

\* The scenarios to come are ahead of the one that starts.
LEMMA StartedQueuePlan ==
    ASSUME WellSpaced, NEW w, NEW v, NEW op \in Starters, Plan(w),
           Clear(w, op), v.scenario.start = w.now,
           ExpectedDowntime(v.scenario.name) = Lasts(op),
           \A e \in Control(v.queue) :
                e \in Control(w.queue) \/ e.op \in Closers
    PROVE  QueuePlan(v)
<1> DEFINE c == Control(w.queue)
           d == Control(v.queue)
           Later == Starters \cup {"StartContinuity", "StartPartition"}
<1>1. ScenarioEnd(v) = StartTime(op) + Lasts(op)
  BY DEF Clear, ScenarioEnd
<1>2. \A e \in d : e.op \in Later => e \in c
  BY DEF Closers, Starters, Continuities, Restorations
<1>3. \A e \in c : StartTime(op) <= e.ts /\ e.op # op
  BY DEF Clear
<1>4. ASSUME NEW e \in d, e.op \in Starters
      PROVE  e.ts = StartTime(e.op) /\ Ahead(v, e.op)
  <2>1. e \in c
    BY <1>2, <1>4
  <2>2. e.ts = StartTime(e.op)
    BY <1>4, <2>1 DEF Plan, QueuePlan
  <2>3. StartTime(op) <= StartTime(e.op) /\ e.op # op
    BY <1>3, <2>1, <2>2
  <2>4. StartTime(op) + Lasts(op) + Settle(e.op) < StartTime(e.op)
    BY <1>4, <2>3, Spacing
  <2> QED
    BY <1>1, <2>2, <2>4 DEF Ahead
<1>5. ASSUME NEW e \in d, e.op = "StartContinuity"
      PROVE  /\ e.ts = ContinuityStart
             /\ \A next \in Continuities : Ahead(v, next)
             /\ \A f \in d : f.op \notin Continuities
  <2>1. e \in c
    BY <1>2, <1>5
  <2>2. /\ e.ts = ContinuityStart
        /\ \A f \in c : f.op \notin Continuities
    BY <1>5, <2>1 DEF Plan, QueuePlan
  <2>3. op \notin Continuities /\ StartTime(op) <= ContinuityStart
    BY <1>3, <1>5, <2>1, <2>2 DEF Clear
  <2>4. \A next \in Continuities : Ahead(v, next)
    BY <1>1, <2>3, PhaseSpacing DEF Ahead
  <2>5. \A f \in d : f.op \notin Continuities
    BY <1>2, <2>2 DEF Starters
  <2> QED
    BY <2>2, <2>4, <2>5
<1>6. ASSUME NEW e \in d, e.op = "StartPartition"
      PROVE  /\ e.ts = PartitionStart
             /\ Ahead(v, "TriggerNetworkPartition")
             /\ \A f \in d : f.op # "TriggerNetworkPartition"
  <2>1. e \in c
    BY <1>2, <1>6
  <2>2. /\ e.ts = PartitionStart
        /\ \A f \in c : f.op # "TriggerNetworkPartition"
    BY <1>6, <2>1 DEF Plan, QueuePlan
  <2>3. op # "TriggerNetworkPartition"
    BY <1>6, <2>1 DEF Clear
  <2>4. Ahead(v, "TriggerNetworkPartition")
    BY <1>1, <2>3, PhaseSpacing DEF Ahead
  <2>5. \A f \in d : f.op # "TriggerNetworkPartition"
    BY <1>2, <2>2 DEF Starters
  <2> QED
    BY <2>2, <2>4, <2>5
<1>7. ASSUME NEW e \in d, NEW f \in d, e.op = f.op, e.op \in Later
      PROVE  e = f
  <2>1. e \in c /\ f \in c
    BY <1>2, <1>7
  <2> QED
    BY <1>7, <2>1 DEF Plan, QueuePlan
<1> QED
  BY <1>4, <1>5, <1>6, <1>7 DEF QueuePlan

\* A scenario that lasts
LEMMA AwaitsPlan ==
    ASSUME WellSpaced, NEW w, NEW v, NEW op \in Starters, Plan(w),
           Clear(w, op), NEW name, ExpectedDowntime(name) = Lasts(op),
           NEW closer \in Closers, Awaits(w, v, name, closer, Lasts(op)),
           v.recoveryScheduled <=> closer \in Restorations,
           v.twin = NoAgent /\ v.enterprise # NoAgent =>
                \/ w.twin = NoAgent
                \/ op = "TriggerNetworkPartition"
    PROVE  Plan(v)
<1> DEFINE c == Control(w.queue)
           d == Control(v.queue)
<1>1. PICK e : /\ e.op = closer /\ e.ts = w.now + Lasts(op)
               /\ d = c \cup {e}
  BY DEF Awaits
<1>2. /\ v.scenario.name = name /\ v.scenario.start = w.now
      /\ v.metrics.summaries = w.metrics.summaries
  BY DEF Awaits, SameSummaries
<1>3. /\ w.now = StartTime(op) /\ StartTime(op) > 0
      /\ \A f \in c : f.op \notin Closers
  BY Times DEF Clear
<1>4. QueuePlan(v)
  BY <1>1, <1>2, StartedQueuePlan
<1>5. CloserPlan(v)
  <2>1. ScenarioEnd(v) = w.now + Lasts(op)
    BY <1>2 DEF ScenarioEnd
  <2>2. \A f \in d : f.op \in Closers => f = e
    BY <1>1, <1>3
  <2>3. \A f, g \in d : f.op \in Closers /\ g.op \in Closers => f = g
    BY <2>2
  <2>4. \A f \in d : f.op \in Closers =>
            v.scenario.start > 0 /\ f.ts = ScenarioEnd(v)
    BY <1>1, <1>2, <1>3, <2>1, <2>2
  <2>5. v.recoveryScheduled <=> \E f \in d : f.op \in Restorations
    BY <1>1, <2>2 DEF Closers
  <2> QED
    BY <2>3, <2>4, <2>5 DEF CloserPlan
<1>6. SummaryPlan(v)
  <2>1. e \in d /\ e.op \in Closers
    BY <1>1
  <2> QED
    BY <1>2, <2>1 DEF Plan, SummaryPlan
<1>7. TwinPlan(v)
  <2> SUFFICES ASSUME v.twin = NoAgent, v.enterprise # NoAgent,
                      NEW f \in d
               PROVE  f.op \notin Continuities \cup {"StartContinuity"}
    BY DEF TwinPlan
  <2>1. CASE f = e
    BY <1>1, <2>1 DEF Closers, Restorations, Continuities
  <2>2. CASE f \in c /\ w.twin = NoAgent
    BY <2>2 DEF Plan, TwinPlan, Clear
  <2>3. CASE f \in c /\ op = "TriggerNetworkPartition"
    <3>1. StartTime(op) <= f.ts
      BY <2>3 DEF Clear
    <3>2. /\ ContinuityStart \in Nat /\ CrashAfter \in Nat
          /\ MigrationAfter \in Nat /\ RestartAfter \in Nat
          /\ TeardownAfter \in Nat /\ PartitionStart \in Nat
          /\ PartitionAfter \in Nat /\ RecoveryDelay \in Nat
      BY TimelineAssumption, DelayAssumption
    <3>3. CASE f.op \in Continuities
      <4>1. f.ts = StartTime(f.op)
        BY <2>3, <3>3 DEF Plan, QueuePlan, Starters
      <4>2. StartTime(f.op) < StartTime(op)
        BY <2>3, <3>2, <3>3, Timetable DEF WellSpaced, Continuities
      <4>3. StartTime(f.op) \in Nat /\ StartTime(op) \in Nat
        BY <3>3, Times DEF Starters
      <4> QED
        BY <3>1, <4>1, <4>2, <4>3
    <3>4. CASE f.op = "StartContinuity"
      <4>1. f.ts = ContinuityStart
        BY <2>3, <3>4 DEF Plan, QueuePlan
      <4> QED
        BY <2>3, <3>1, <3>2, <4>1, Timetable DEF WellSpaced
    <3> QED
      BY <3>3, <3>4
  <2> QED
    BY <1>1, <2>1, <2>2, <2>3
<1> QED
  BY <1>4, <1>5, <1>6, <1>7 DEF Plan

\* A summary added at the end, of the expected downtime
LEMMA AppendSummary ==
    ASSUME NEW w \in Worlds, NEW v \in Worlds, NEW s,
           v.metrics.summaries = Append(w.metrics.summaries, s),
           s.name = v.scenario.name,
           s.downtime = ExpectedDowntime(s.name),
           Accurate(w.metrics.summaries)
    PROVE  SummaryPlan(v)
<1> DEFINE a == w.metrics.summaries
           b == v.metrics.summaries
           n == Len(a)
<1>1. a \in Seq(Summaries) /\ b \in Seq(Summaries)
  BY DEF Worlds, Collectors
<1>2. b = Append(a, s)
  OBVIOUS
<1> HIDE DEF a, b
<1>3. n \in Nat /\ Len(b) = n + 1 /\ b[n + 1] = s
  BY <1>1, <1>2
<1>4. \A i \in 1 .. n : b[i] = a[i]
  BY <1>1, <1>2
<1>5. DOMAIN a = 1 .. n /\ DOMAIN b = 1 .. n + 1
  BY <1>1, <1>3
<1> HIDE DEF n
<1>6. \A i \in DOMAIN b : b[i].downtime = ExpectedDowntime(b[i].name)
  <2> SUFFICES ASSUME NEW i \in 1 .. n + 1
               PROVE  b[i].downtime = ExpectedDowntime(b[i].name)
    BY <1>5
  <2>1. CASE i \in 1 .. n
    BY <1>4, <1>5, <2>1 DEF a, Accurate
  <2>2. CASE i = n + 1
    BY <1>3, <2>2
  <2> QED
    BY <1>3, <2>1, <2>2
<1>7. b # << >> /\ b[Len(b)].name = v.scenario.name
  BY <1>1, <1>3
<1> QED
  BY <1>6, <1>7 DEF SummaryPlan, Accurate, b

\* A scenario that ends as it starts
LEMMA PassesPlan ==
    ASSUME WellSpaced, NEW w \in Worlds, NEW v \in Worlds,
           NEW op \in Starters, Plan(w), Clear(w, op), Lasts(op) = 0,
           NEW name, ExpectedDowntime(name) = Lasts(op), Passes(w, v, name),
           AgentsPresent(v)
    PROVE  Plan(v)
<1>1. /\ Control(v.queue) = Control(w.queue)
      /\ v.scenario.name = name /\ v.scenario.start = w.now
      /\ v.recoveryScheduled = w.recoveryScheduled
  BY DEF Passes, SameFlag
<1>2. PICK s : /\ s.name = name /\ s.downtime = 0
               /\ v.metrics.summaries = Append(w.metrics.summaries, s)
  BY DEF Passes
<1>3. QueuePlan(v)
  BY <1>1, StartedQueuePlan
<1>4. CloserPlan(v)
  BY <1>1 DEF CloserPlan, Clear, Closers
<1>5. SummaryPlan(v)
  <2>1. Accurate(w.metrics.summaries)
    BY DEF Plan, SummaryPlan
  <2>2. s.name = v.scenario.name /\ s.downtime = ExpectedDowntime(s.name)
    BY <1>1, <1>2
  <2> QED
    BY <1>2, <2>1, <2>2, AppendSummary
<1>6. TwinPlan(v)
  BY DEF TwinPlan, AgentsPresent
<1> QED
  BY <1>3, <1>4, <1>5, <1>6 DEF Plan

\* The end of a scenario that lasted
LEMMA ClosedPlan ==
    ASSUME NEW u, NEW w \in Worlds, NEW v \in Worlds, Plan(u),
           NEW e \in Control(u.queue), e.op \in Closers,
           Control(w.queue) = Control(u.queue) \ {e}, w.now = e.ts,
           SameScenario(u, w), SameSummaries(u, w),
           Control(v.queue) = Control(w.queue), SameScenario(w, v),
           Summarized(w, v), ~v.recoveryScheduled,
           v.twin = NoAgent /\ v.enterprise # NoAgent =>
                u.twin = NoAgent /\ u.enterprise # NoAgent
    PROVE  Plan(v)
<1>1. ScenarioEnd(v) = ScenarioEnd(u) /\ ScenarioEnd(w) = ScenarioEnd(u)
  BY DEF SameScenario, ScenarioEnd
<1>2. \A f \in Control(v.queue) : f.op \notin Closers
  BY DEF Plan, CloserPlan
<1>3. QueuePlan(v)
  BY <1>1 DEF Plan, QueuePlan, Ahead
<1>4. CloserPlan(v)
  BY <1>2 DEF CloserPlan, Closers
<1>5. SummaryPlan(v)
  <2>1. PICK s : /\ s.name = w.scenario.name
                 /\ s.downtime = IF w.scenario.start > 0
                                 THEN w.now - w.scenario.start ELSE 0
                 /\ v.metrics.summaries = Append(w.metrics.summaries, s)
    BY DEF Summarized
  <2>2. w.scenario.start > 0 /\ w.now = ScenarioEnd(w)
    BY <1>1 DEF Plan, CloserPlan, SameScenario
  <2>3. w.scenario.start \in Nat /\ w.now \in Nat
    BY DEF Worlds
  <2>4. ExpectedDowntime(w.scenario.name) \in Int
    BY DelayAssumption DEF ExpectedDowntime
  <2>5. s.downtime = ExpectedDowntime(s.name)
    BY <2>1, <2>2, <2>3, <2>4 DEF ScenarioEnd
  <2>6. s.name = v.scenario.name
    BY <2>1 DEF SameScenario
  <2>7. Accurate(w.metrics.summaries)
    BY DEF Plan, SummaryPlan, SameSummaries
  <2> QED
    BY <2>1, <2>5, <2>6, <2>7, AppendSummary
<1>6. TwinPlan(v)
  BY DEF Plan, TwinPlan
<1> QED
  BY <1>3, <1>4, <1>5, <1>6 DEF Plan

---------------------------------------------------------------------------
(* Every step keeps the plan                                               *)

\* The scenario last started has its summary
LastSummarized ==
    \/ scenario.name = << >>
    \/ /\ metrics.summaries # << >>
       /\ metrics.summaries[Len(metrics.summaries)].name = scenario.name

\* What a step does: the plan is kept, and the name of a scenario overwritten
\* only when it has its summary.
Planned == Plan(World)' /\ (scenario'.name # scenario.name => LastSummarized)

LEMMA BecomesPlan ==
    ASSUME NEW v \in Worlds, Becomes(v), Plan(v),
           v.scenario.name = scenario.name \/ LastSummarized
    PROVE  Planned
<1>1. World' = v
  BY BecomesWorld
<1>2. scenario' = v.scenario
  BY DEF Becomes
<1> QED
  BY <1>1, <1>2 DEF Planned

LEMMA StarterSummarized ==
    ASSUME WellSpaced, IInv, Plan(World), NEW op \in Starters,
           NEW e \in Due(op)
    PROVE  LastSummarized
<1>1. /\ Control(Dequeue(World, e).queue) = Control(World.queue) \ {e}
      /\ e.op = op
  BY DequeueControl
<1>2. \A f \in Control(Dequeue(World, e).queue) : f.op \notin Closers
  BY StarterClear DEF Clear
<1>3. op \notin Closers
  BY DEF Starters, Continuities, Closers, Restorations
<1>4. \A f \in Control(World.queue) : f.op \notin Closers
  BY <1>1, <1>2, <1>3
<1> QED
  BY <1>4 DEF Plan, SummaryPlan, LastSummarized, World

LEMMA UndisturbedStep ==
    ASSUME IInv, Plan(World), NEW op, op \notin Closers, NEW e \in Due(op),
           NEW v \in Worlds, Undisturbed(Dequeue(World, e), v), Becomes(v)
    PROVE  Planned
<1>1. Plan(v)
  BY DequeuePlan, UndisturbedPlan
<1>2. Dequeue(World, e).scenario = scenario
  BY DequeueCore
<1>3. v.scenario.name = scenario.name
  BY <1>2 DEF Undisturbed, SameScenario
<1> QED
  BY <1>1, <1>3, BecomesPlan

LEMMA KeepsPlanned ==
    ASSUME IInv, Plan(World), NEW op, op \notin Closers, NEW e \in Due(op),
           NEW v, Keeps(Dequeue(World, e), v), Becomes(v)
    PROVE  Planned
<1>1. Undisturbed(Dequeue(World, e), v) /\ v \in Worlds
  BY KeepsInv DEF Keeps, Undisturbed
<1> QED
  BY <1>1, UndisturbedStep

\* The world a scenario starts in
LEMMA StarterWorld ==
    ASSUME WellSpaced, IInv, Plan(World), NEW op \in Starters,
           NEW e \in Due(op)
    PROVE  LET w == Dequeue(World, e)
           IN  WorldInv(w) /\ w \in Worlds /\ Plan(w) /\ Clear(w, op)
<1>1. op \notin Closers /\ op \notin Restorations
  BY DEF Starters, Continuities, Closers, Restorations
<1> QED
  BY <1>1, DequeueInv, DequeuePlan, StarterClear DEF WorldInv, CoreInv

LEMMA AwaitsPlanned ==
    ASSUME WellSpaced, IInv, Plan(World), NEW op \in Starters,
           NEW e \in Due(op), NEW v, Becomes(v),
           NEW name, ExpectedDowntime(name) = Lasts(op),
           NEW closer \in Closers,
           Awaits(Dequeue(World, e), v, name, closer, Lasts(op)),
           v.recoveryScheduled <=> closer \in Restorations,
           v.twin = NoAgent /\ v.enterprise # NoAgent =>
                \/ Dequeue(World, e).twin = NoAgent
                \/ op = "TriggerNetworkPartition"
    PROVE  Planned
<1>1. v \in Worlds
  BY DEF Awaits, Extends, WorldInv, CoreInv
<1>2. Plan(v)
  BY StarterWorld, AwaitsPlan
<1> QED
  BY <1>1, <1>2, StarterSummarized, BecomesPlan

LEMMA PassesPlanned ==
    ASSUME WellSpaced, IInv, Plan(World), NEW op \in Starters,
           NEW e \in Due(op), NEW v, Becomes(v), Lasts(op) = 0,
           NEW name, ExpectedDowntime(name) = Lasts(op),
           Extends(Dequeue(World, e), v), AgentsPresent(v),
           Passes(Dequeue(World, e), v, name)
    PROVE  Planned
<1>1. v \in Worlds
  BY DEF Extends, WorldInv, CoreInv
<1>2. Plan(v)
  BY <1>1, StarterWorld, PassesPlan
<1> QED
  BY <1>1, <1>2, StarterSummarized, BecomesPlan

\* The events that start a scenario
LEMMA StartersPlanned ==
    ASSUME WellSpaced, IInv, Plan(World),
           \/ BaselineFailure \/ NodeCrash \/ AgentMigration
           \/ ProcessRestart \/ FullTeardown \/ NetworkPartition
    PROVE  Planned
<1>0. /\ Continuities \cup {"RunBaselineFailureScenario",
                            "TriggerNetworkPartition"} \subseteq Starters
      /\ {"TriggerNodeCrash", "TriggerAgentMigration",
          "TriggerProcessRestart", "TriggerFullTeardown"}
            \subseteq Continuities
      /\ {"RecoverFromCrash", "RedeploySystem"} \subseteq Restorations
      /\ "EndScenario" \notin Restorations
      /\ {"RecoverFromCrash", "RedeploySystem", "EndScenario"}
            \subseteq Closers
  BY DEF Starters, Continuities, Closers, Restorations
<1>1. CASE BaselineFailure
  <2>1. PICK e \in Due("RunBaselineFailureScenario") :
            Becomes(RunBaselineFailureScenario(Dequeue(World, e)))
    BY <1>1 DEF BaselineFailure
  <2> DEFINE w == Dequeue(World, e)
             v == RunBaselineFailureScenario(w)
  <2>2. WorldInv(w) /\ w \in Worlds /\ Clear(w, "RunBaselineFailureScenario")
    BY <1>0, StarterWorld
  <2>3. Becomes(v)
    BY <2>1
  <2> HIDE DEF w, v
  <2>4. /\ Awaits(w, v, <<"Baseline", "Failure">>, "EndScenario",
                 Lasts("RunBaselineFailureScenario"))
        /\ SameFlag(w, v) /\ SameAgents(w, v)
    BY <1>0, <2>2, BaselineAwaits, Timetable DEF Clear, v
  <2>5. /\ v.recoveryScheduled <=> "EndScenario" \in Restorations
        /\ v.twin = NoAgent => w.twin = NoAgent
    BY <1>0, <2>2, <2>4 DEF Clear, SameFlag, SameAgents
  <2> QED
    BY <1>0, <2>3, <2>4, <2>5, DowntimeOf, AwaitsPlanned DEF w
<1>2. CASE NodeCrash
  <2>1. PICK e \in Due("TriggerNodeCrash") :
            Becomes(TriggerNodeCrash(Dequeue(World, e)))
    BY <1>2 DEF NodeCrash
  <2> DEFINE w == Dequeue(World, e)
             v == TriggerNodeCrash(w)
  <2>2. WorldInv(w) /\ w \in Worlds /\ Clear(w, "TriggerNodeCrash")
    BY <1>0, StarterWorld
  <2>3. Becomes(v)
    BY <2>1
  <2> HIDE DEF w, v
  <2>4. /\ Awaits(w, v, <<"Node", "Crash">>, "RecoverFromCrash",
                 Lasts("TriggerNodeCrash"))
        /\ v.recoveryScheduled /\ v.enterprise = NoAgent
    BY <1>0, <2>2, NodeCrashDestroys, Timetable DEF Clear, v
  <2>5. v.recoveryScheduled <=> "RecoverFromCrash" \in Restorations
    BY <1>0, <2>4
  <2> QED
    BY <1>0, <2>3, <2>4, <2>5, DowntimeOf, AwaitsPlanned DEF w
<1>3. CASE AgentMigration
  <2>1. PICK e \in Due("TriggerAgentMigration") :
            Becomes(TriggerAgentMigration(Dequeue(World, e)))
    BY <1>3 DEF AgentMigration
  <2> DEFINE w == Dequeue(World, e)
             v == TriggerAgentMigration(w)
  <2>2. WorldInv(w) /\ w \in Worlds /\ Clear(w, "TriggerAgentMigration")
    BY <1>0, StarterWorld
  <2>3. Becomes(v)
    BY <2>1
  <2> HIDE DEF w, v
  <2>4. /\ Extends(w, v) /\ AgentsPresent(v)
        /\ Passes(w, v, <<"Agent", "Migration">>)
    BY <1>0, <2>2, MigrationPasses DEF Clear, v
  <2> QED
    BY <1>0, <2>3, <2>4, DowntimeOf, Timetable, PassesPlanned DEF w
<1>4. CASE ProcessRestart
  <2>1. PICK e \in Due("TriggerProcessRestart") :
            Becomes(TriggerProcessRestart(Dequeue(World, e)))
    BY <1>4 DEF ProcessRestart
  <2> DEFINE w == Dequeue(World, e)
             v == TriggerProcessRestart(w)
  <2>2. WorldInv(w) /\ w \in Worlds /\ Clear(w, "TriggerProcessRestart")
    BY <1>0, StarterWorld
  <2>3. Becomes(v)
    BY <2>1
  <2> HIDE DEF w, v
  <2>4. /\ Extends(w, v) /\ AgentsPresent(v)
        /\ Passes(w, v, <<"Process", "Restart">>)
    BY <1>0, <2>2, ProcessRestartPasses DEF Clear, v
  <2> QED
    BY <1>0, <2>3, <2>4, DowntimeOf, Timetable, PassesPlanned DEF w
<1>5. CASE FullTeardown
  <2>1. PICK e \in Due("TriggerFullTeardown") :
            Becomes(TriggerFullTeardown(Dequeue(World, e)))
    BY <1>5 DEF FullTeardown
  <2> DEFINE w == Dequeue(World, e)
             v == TriggerFullTeardown(w)
  <2>2. WorldInv(w) /\ w \in Worlds /\ Clear(w, "TriggerFullTeardown")
    BY <1>0, StarterWorld
  <2>3. Becomes(v)
    BY <2>1
  <2> HIDE DEF w, v
  <2>4. /\ Awaits(w, v, <<"Full", "Teardown">>, "RedeploySystem",
                 Lasts("TriggerFullTeardown"))
        /\ v.recoveryScheduled /\ v.enterprise = NoAgent
    BY <1>0, <2>2, FullTeardownDestroys, Timetable DEF Clear, v
  <2>5. v.recoveryScheduled <=> "RedeploySystem" \in Restorations
    BY <1>0, <2>4
  <2> QED
    BY <1>0, <2>3, <2>4, <2>5, DowntimeOf, AwaitsPlanned DEF w
<1>6. CASE NetworkPartition
  <2>1. PICK e \in Due("TriggerNetworkPartition") :
            Becomes(TriggerNetworkPartition(Dequeue(World, e)))
    BY <1>6 DEF NetworkPartition
  <2> DEFINE w == Dequeue(World, e)
             v == TriggerNetworkPartition(w)
  <2>2. WorldInv(w) /\ w \in Worlds /\ Clear(w, "TriggerNetworkPartition")
    BY <1>0, StarterWorld
  <2>3. Becomes(v)
    BY <2>1
  <2> HIDE DEF w, v
  <2>4. /\ Awaits(w, v, <<"Network", "Partition">>, "EndScenario",
                 Lasts("TriggerNetworkPartition"))
        /\ SameFlag(w, v)
    BY <1>0, <2>2, NetworkPartitionAwaits, Timetable DEF Clear, v
  <2>5. v.recoveryScheduled <=> "EndScenario" \in Restorations
    BY <1>0, <2>2, <2>4 DEF Clear, SameFlag
  <2> QED
    BY <1>0, <2>3, <2>4, <2>5, DowntimeOf, AwaitsPlanned DEF w
<1> QED
  BY <1>1, <1>2, <1>3, <1>4, <1>5, <1>6

\* The events that end one
LEMMA ClosersPlanned ==
    ASSUME IInv, Plan(World), CrashRecovery \/ Redeployment \/ DelayedEnd
    PROVE  Planned
<1> DEFINE w(e) == Dequeue(World, e)
<1>1. ASSUME NEW op \in Closers, NEW e \in Due(op)
      PROVE  /\ CoreInv(w(e)) /\ w(e) \in Worlds
             /\ e \in Control(World.queue) /\ e.op = op
             /\ Control(w(e).queue) = Control(World.queue) \ {e}
             /\ w(e).now = e.ts
             /\ SameFlag(World, w(e)) /\ SameAgents(World, w(e))
             /\ SameScenario(World, w(e)) /\ SameSummaries(World, w(e))
  <2>1. op \notin NodeHandlers \cup {"RecordMetrics"}
    BY DEF Closers, Restorations, NodeHandlers
  <2> QED
    BY <2>1, DequeueCore, DequeueControl DEF CoreInv
<1> HIDE DEF w
<1>2. ASSUME NEW op \in Restorations, NEW e \in Due(op), NEW v,
             Restores(w(e), v), Becomes(v)
      PROVE  Planned
  <2>1. op \in Closers
    BY DEF Closers
  <2>2. v \in Worlds
    BY <1>2 DEF Restores, Extends, WorldInv, CoreInv
  <2>3. Plan(v)
    BY <1>1, <1>2, <2>1, <2>2, ClosedPlan DEF Restores, AgentsPresent
  <2>4. v.scenario.name = scenario.name
    BY <1>1, <1>2, <2>1 DEF Restores, SameScenario, World
  <2> QED
    BY <1>2, <2>2, <2>3, <2>4, BecomesPlan
<1>3. CASE CrashRecovery
  <2>1. PICK e \in Due("RecoverFromCrash") : Becomes(RecoverFromCrash(w(e)))
    BY <1>3 DEF CrashRecovery, w
  <2>2. "RecoverFromCrash" \in Restorations /\ "RecoverFromCrash" \in Closers
    BY DEF Restorations, Closers
  <2> QED
    BY <1>1, <1>2, <2>1, <2>2, RecoverFromCrashRestores
<1>4. CASE Redeployment
  <2>1. PICK e \in Due("RedeploySystem") : Becomes(RedeploySystem(w(e)))
    BY <1>4 DEF Redeployment, w
  <2>2. "RedeploySystem" \in Restorations /\ "RedeploySystem" \in Closers
    BY DEF Restorations, Closers
  <2> QED
    BY <1>1, <1>2, <2>1, <2>2, RedeploySystemRestores
<1>5. CASE DelayedEnd
  <2>1. PICK e \in Due("EndScenario") : Becomes(EndScenario(w(e)))
    BY <1>5 DEF DelayedEnd, w
  <2> DEFINE x == w(e)
             v == EndScenario(x)
  <2>2. "EndScenario" \in Closers /\ "EndScenario" \notin Restorations
    BY DEF Closers, Restorations
  <2>3. WorldInv(x)
    BY <2>2, DequeueInv DEF w
  <2>4. Ends(x, v)
    BY <2>3, EndScenarioEnds
  <2>5. Becomes(v)
    BY <2>1
  <2> HIDE DEF v
  <2>6. v \in Worlds
    BY <2>4 DEF Ends, Extends, WorldInv, CoreInv
  <2>7. ~World.recoveryScheduled
    BY <1>1, <2>2 DEF Plan, CloserPlan, Closers
  <2>8. ~v.recoveryScheduled
    BY <1>1, <2>2, <2>4, <2>7 DEF Ends, SameFlag
  <2>9. Plan(v)
    BY <1>1, <2>2, <2>4, <2>6, <2>8, ClosedPlan DEF Ends, SameAgents
  <2>10. v.scenario.name = scenario.name
    BY <1>1, <2>2, <2>4 DEF Ends, SameScenario, World
  <2> QED
    BY <2>5, <2>6, <2>9, <2>10, BecomesPlan
<1> QED
  BY <1>3, <1>4, <1>5

---------------------------------------------------------------------------
(* main's own events, and the others that leave the scenario alone         *)

LEMMA InitPlan == ASSUME WellSpaced, Init PROVE Plan(World)
<1> DEFINE w == World
           c == Control(w.queue)
<1>1. PICK t \in SimTimes : queue = InitialEvents(t)
  BY InitMainInv
<1>2. /\ AgentsPresent(w) /\ ~w.recoveryScheduled
      /\ w.scenario.name = << >> /\ w.scenario.start = 0
      /\ w.metrics.summaries = << >> /\ w.queue = InitialEvents(t)
  BY <1>1, InitMainInv DEF World
<1> DEFINE n == (t - 1) \div SamplePeriod
           u == FirstUid
           events ==
             {Event(1, u, "InitializeNodesDelayed", << >>),
              Event(5, u + 1, "CaptureBaseline", << >>),
              Event(10, u + 3, "RunBaselineFailureScenario", << >>),
              Event(ContinuityStart, u + n + 4, "StartContinuity", << >>),
              Event(PartitionStart, u + n + 5, "StartPartition", << >>),
              Event(ReportTime(t), u + n + 6, "FinalReport", << >>),
              Event(t, u + n + 7, "Stop", << >>)}
<1>3. c \subseteq events
  <2>1. \A e \in InitialEvents(t) : e.op = "RecordMetrics" \/ e \in events
    BY DEF InitialEvents, Event
  <2> QED
    BY <1>2, <2>1 DEF Control
<1>4. \A e \in c :
        /\ e.op \in {"InitializeNodesDelayed", "CaptureBaseline",
                     "RunBaselineFailureScenario", "StartContinuity",
                     "StartPartition", "FinalReport", "Stop"}
        /\ e.op = "RunBaselineFailureScenario" => e.ts = 10
        /\ e.op = "StartContinuity" => e.ts = ContinuityStart
        /\ e.op = "StartPartition" => e.ts = PartitionStart
  BY <1>3 DEF Event
<1>5. \A e, f \in c : e.op = f.op => e = f
  BY <1>3 DEF Event
<1> HIDE DEF w, c, events
<1>6. ScenarioEnd(w) = 0
  BY <1>2, DowntimeOf DEF ScenarioEnd
<1>7. \A op \in Starters : Ahead(w, op)
  <2>1. ASSUME NEW op \in Starters PROVE Settle(op) < StartTime(op)
    BY StarterCases, Times, Timetable, TimelineAssumption, DelayAssumption
       DEF Settle, WellSpaced, PicturesSettle
  <2>2. \A op : Settle(op) \in Nat
    BY DEF Settle
  <2> QED
    BY <1>6, <2>1, <2>2 DEF Ahead
<1>8. QueuePlan(w)
  <2>1. \A e \in c : e.op \in Starters =>
            e.ts = StartTime(e.op) /\ Ahead(w, e.op)
    BY <1>4, <1>7, Timetable DEF Starters, Continuities
  <2>2. \A op \in Continuities : Ahead(w, op)
    BY <1>7 DEF Starters
  <2>3. \A f \in c : f.op \notin Continuities
                      /\ f.op # "TriggerNetworkPartition"
    BY <1>4 DEF Continuities
  <2>4. Ahead(w, "TriggerNetworkPartition")
    BY <1>7 DEF Starters
  <2> QED
    BY <1>4, <1>5, <2>1, <2>2, <2>3, <2>4 DEF QueuePlan, c
<1>9. CloserPlan(w)
  BY <1>2, <1>4 DEF CloserPlan, Closers, Restorations, c
<1>10. SummaryPlan(w)
  BY <1>2 DEF SummaryPlan, Accurate
<1>11. TwinPlan(w)
  BY <1>2 DEF TwinPlan, AgentsPresent
<1> QED
  BY <1>8, <1>9, <1>10, <1>11 DEF Plan, w

\* An event more may be scheduled, if it is neither a second one of its kind
\* nor out of time.
LEMMA StartPartitionPlanned ==
    ASSUME IInv, Plan(World), PartitionStarts
    PROVE  Planned
<1>1. PICK e \in Due("StartPartition") :
        Becomes(ScheduleNetworkPartitionScenario(Dequeue(World, e)))
  BY DEF PartitionStarts
<1> DEFINE u == World
           w == Dequeue(World, e)
           f == Event(w.now + PartitionAfter, w.uid,
                      "TriggerNetworkPartition", << >>)
           v == Schedule(w, PartitionAfter, "TriggerNetworkPartition", << >>)
<1>2. /\ WorldInv(w) /\ Plan(w) /\ Plan(u)
      /\ e \in Control(u.queue) /\ e.op = "StartPartition"
      /\ Control(w.queue) = Control(u.queue) \ {e} /\ w.now = e.ts
      /\ SameScenario(u, w)
  <2>1. /\ "StartPartition" \notin Closers
        /\ "StartPartition" \notin NodeHandlers \cup {"RecordMetrics"}
    BY DEF Closers, Restorations, NodeHandlers
  <2> QED
    BY <2>1, DequeueInv, DequeuePlan, DequeueControl DEF Closers
<1>3. /\ Plans(w, v, f) /\ Control(v.queue) = Control(w.queue) \cup {f}
  <2>1. /\ PartitionAfter \in Nat
        /\ "TriggerNetworkPartition" \in LabelHandlers \ {"RecordMetrics"}
    BY TimelineAssumption DEF LabelHandlers
  <2> QED
    BY <1>2, <2>1, ScheduleLabelPlans
<1>4. f.op = "TriggerNetworkPartition" /\ f.ts = w.now + PartitionAfter
  BY DEF Event
<1>5. Becomes(v)
  BY <1>1 DEF ScheduleNetworkPartitionScenario
<1>6. w.scenario = scenario
  BY DequeueCore
<1> HIDE DEF u, w, f, v
<1>7. /\ SameFlag(w, v) /\ SameScenario(w, v) /\ SameAgents(w, v)
      /\ SameSummaries(w, v) /\ v \in Worlds
  BY <1>3 DEF Plans, Extends, WorldInv, CoreInv
<1>8. ScenarioEnd(v) = ScenarioEnd(w) /\ ScenarioEnd(w) = ScenarioEnd(u)
  BY <1>2, <1>7 DEF SameScenario, ScenarioEnd
<1> DEFINE c == Control(w.queue)
           d == Control(v.queue)
<1>9. /\ \A g \in c : g.op # "StartPartition"
                        /\ g.op # "TriggerNetworkPartition"
      /\ e.ts = PartitionStart /\ Ahead(u, "TriggerNetworkPartition")
  BY <1>2 DEF Plan, QueuePlan
<1>10. QueuePlan(v)
  <2>1. QueuePlan(w)
    BY <1>2 DEF Plan
  <2>2. /\ f.ts = StartTime("TriggerNetworkPartition")
        /\ Ahead(v, "TriggerNetworkPartition")
    BY <1>2, <1>4, <1>8, <1>9, Timetable DEF Ahead
  <2>3. \A g \in d : g.op \in Starters =>
            g.ts = StartTime(g.op) /\ Ahead(v, g.op)
    BY <1>3, <1>4, <1>8, <2>1, <2>2 DEF QueuePlan, Ahead
  <2>4. \A g \in d : g.op = "StartContinuity" =>
            /\ g.ts = ContinuityStart
            /\ \A op \in Continuities : Ahead(v, op)
            /\ \A h \in d : h.op \notin Continuities
    BY <1>3, <1>4, <1>8, <2>1 DEF QueuePlan, Ahead, Continuities
  <2>5. \A g \in d : g.op # "StartPartition"
    BY <1>3, <1>4, <1>9
  <2>6. \A g, h \in d :
            g.op = h.op /\ g.op \in Starters \cup {"StartContinuity",
                                                   "StartPartition"}
              => g = h
    BY <1>3, <1>4, <1>9, <2>1 DEF QueuePlan
  <2> QED
    BY <2>3, <2>4, <2>5, <2>6 DEF QueuePlan
<1>11. f.op \notin Closers
  BY <1>4 DEF Closers, Restorations
<1>12. CloserPlan(v)
  BY <1>2, <1>3, <1>7, <1>8, <1>11
     DEF Plan, CloserPlan, SameFlag, SameScenario, Closers
<1>13. SummaryPlan(v)
  BY <1>2, <1>3, <1>7, <1>11 DEF Plan, SummaryPlan, SameSummaries, SameScenario
<1>14. TwinPlan(v)
  BY <1>2, <1>3, <1>4, <1>7 DEF Plan, TwinPlan, SameAgents, Continuities
<1>15. Plan(v) /\ v.scenario.name = scenario.name
  BY <1>6, <1>7, <1>10, <1>12, <1>13, <1>14 DEF Plan, SameScenario
<1> QED
  BY <1>5, <1>7, <1>15, BecomesPlan

\* The continuity phase schedules each of its scenarios at its time.
LEMMA ContinuityEventsOnTime ==
    ASSUME WellSpaced, NEW w \in Worlds, NEW q, w.now = ContinuityStart,
           ContinuityEvents(w, q)
    PROVE  /\ Control(w.queue) \subseteq q
           /\ \A e \in q \ Control(w.queue) :
                e.op \in Continuities /\ e.ts = StartTime(e.op)
           /\ \A e, f \in q \ Control(w.queue) : e.op = f.op => e = f
<1>1. PICK crash, migration, restart, teardown :
        /\ crash.op = "TriggerNodeCrash"
        /\ crash.ts = w.now + CrashAfter
        /\ migration.op = "TriggerAgentMigration"
        /\ migration.ts = w.now + MigrationAfter
        /\ restart.op = "TriggerProcessRestart"
        /\ restart.ts = w.now + RestartAfter
        /\ teardown.op = "TriggerFullTeardown"
        /\ teardown.ts = w.now + TeardownAfter
        /\ q = Control(w.queue) \cup {crash, migration, restart, teardown}
  BY DEF ContinuityEvents
<1>2. \A e \in q \ Control(w.queue) :
        e = crash \/ e = migration \/ e = restart \/ e = teardown
  BY <1>1
<1>3. /\ crash.ts = StartTime(crash.op)
      /\ migration.ts = StartTime(migration.op)
      /\ restart.ts = StartTime(restart.op)
      /\ teardown.ts = StartTime(teardown.op)
  BY <1>1, Timetable
<1>4. {crash.op, migration.op, restart.op, teardown.op} \subseteq Continuities
  BY <1>1 DEF Continuities
<1>5. \A e, f \in q \ Control(w.queue) : e.op = f.op => e = f
  BY <1>1, <1>2
<1> QED
  BY <1>1, <1>2, <1>3, <1>4, <1>5

LEMMA StartContinuityPlanned ==
    ASSUME WellSpaced, IInv, Plan(World), ContinuityStarts
    PROVE  Planned
<1>1. PICK e \in Due("StartContinuity") :
        Becomes(ScheduleContinuitySuccessScenarios(
                    InitializeAgents(Dequeue(World, e))))
  BY DEF ContinuityStarts
<1> DEFINE u == World
           w == Dequeue(World, e)
           x == InitializeAgents(w)
           v == ScheduleContinuitySuccessScenarios(x)
<1>2. /\ WorldInv(w) /\ Plan(w) /\ Plan(u)
      /\ e \in Control(u.queue) /\ e.op = "StartContinuity"
      /\ Control(w.queue) = Control(u.queue) \ {e} /\ w.now = e.ts
      /\ SameScenario(u, w)
  <2>1. /\ "StartContinuity" \notin Closers
        /\ "StartContinuity" \notin NodeHandlers \cup {"RecordMetrics"}
    BY DEF Closers, Restorations, NodeHandlers
  <2> QED
    BY <2>1, DequeueInv, DequeuePlan, DequeueControl DEF Closers
<1>3. Creates(w, x)
  BY <1>2, CreateAgentsCreates DEF InitializeAgents, WorldInv
<1>4. w.scenario = scenario
  BY DequeueCore
<1> HIDE DEF x
<1>5. WorldInv(x) /\ x \in Worlds
  BY <1>3 DEF Creates, Extends, WorldInv, CoreInv
<1>6. /\ Extends(x, v) /\ ContinuityEvents(x, Control(v.queue))
      /\ SameFlag(x, v) /\ SameScenario(x, v) /\ SameAgents(x, v)
      /\ SameSummaries(x, v)
  BY <1>5, ScheduleContinuityExtends
<1>7. Becomes(v)
  BY <1>1 DEF x
<1> HIDE DEF u, w, v
<1>8. /\ SameFlag(w, v) /\ SameScenario(w, v) /\ SameSummaries(w, v)
      /\ AgentsPresent(v) /\ v \in Worlds
      /\ x.now = e.ts /\ Control(x.queue) = Control(w.queue)
  BY <1>2, <1>3, <1>6
     DEF Creates, SameFlag, SameScenario, SameAgents, SameSummaries,
         AgentsPresent, Extends, WorldInv, CoreInv
<1>9. ScenarioEnd(v) = ScenarioEnd(w) /\ ScenarioEnd(w) = ScenarioEnd(u)
  BY <1>2, <1>8 DEF SameScenario, ScenarioEnd
<1> DEFINE c == Control(w.queue)
           d == Control(v.queue)
<1>10. /\ \A g \in c : g.op # "StartContinuity" /\ g.op \notin Continuities
       /\ e.ts = ContinuityStart
       /\ \A op \in Continuities : Ahead(u, op)
  BY <1>2 DEF Plan, QueuePlan
<1>11. /\ c \subseteq d
       /\ \A g \in d \ c : g.op \in Continuities /\ g.ts = StartTime(g.op)
       /\ \A g, h \in d \ c : g.op = h.op => g = h
  BY <1>5, <1>6, <1>8, <1>10, ContinuityEventsOnTime
<1>12. \A op \in Continuities :
         /\ op \notin Closers
         /\ op \in Starters
         /\ op \notin {"StartContinuity", "StartPartition",
                       "TriggerNetworkPartition"}
  BY DEF Continuities, Starters, Closers, Restorations
<1> HIDE DEF c, d
<1>13. QueuePlan(v)
  <2>1. QueuePlan(w)
    BY <1>2 DEF Plan
  <2>2. \A g \in d : g.op \in Starters =>
            g.ts = StartTime(g.op) /\ Ahead(v, g.op)
    BY <1>9, <1>10, <1>11, <2>1 DEF QueuePlan, Ahead, c
  <2>3. \A g \in d : g.op # "StartContinuity"
    BY <1>10, <1>11, <1>12
  <2>4. \A g \in d : g.op = "StartPartition" =>
            /\ g.ts = PartitionStart
            /\ Ahead(v, "TriggerNetworkPartition")
            /\ \A h \in d : h.op # "TriggerNetworkPartition"
    BY <1>9, <1>11, <1>12, <2>1 DEF QueuePlan, Ahead, c
  <2>5. ASSUME NEW g \in d, NEW h \in d, g.op = h.op,
               g.op \in Starters \cup {"StartContinuity", "StartPartition"}
        PROVE  g = h
    <3>1. CASE g.op \in Continuities
      BY <1>10, <1>11, <2>5, <3>1
    <3>2. CASE g.op \notin Continuities
      <4>1. g \in c /\ h \in c
        BY <1>11, <2>5, <3>2
      <4> QED
        BY <2>1, <2>5, <4>1 DEF QueuePlan, c
    <3> QED
      BY <3>1, <3>2
  <2> QED
    BY <2>2, <2>3, <2>4, <2>5 DEF QueuePlan, d
<1>14. \A g \in d : g.op \in Closers => g \in c
  BY <1>11, <1>12
<1>15. CloserPlan(v)
  BY <1>2, <1>8, <1>9, <1>11, <1>14
     DEF Plan, CloserPlan, SameFlag, SameScenario, Closers, c, d
<1>16. SummaryPlan(v)
  BY <1>2, <1>8, <1>11
     DEF Plan, SummaryPlan, SameSummaries, SameScenario, c, d
<1>17. TwinPlan(v)
  BY <1>8 DEF TwinPlan, AgentsPresent
<1>18. Plan(v) /\ v.scenario.name = scenario.name
  BY <1>4, <1>8, <1>13, <1>15, <1>16, <1>17 DEF Plan, SameScenario
<1> QED
  BY <1>7, <1>8, <1>18, BecomesPlan

\* main's events that keep every scenario as it is
LEMMA MainKeepsPlanned ==
    ASSUME IInv, Plan(World),
           NodesInitialized \/ BaselineCaptured \/ FinalReport
    PROVE  Planned
<1> USE DEF Closers, Restorations
<1>1. CASE NodesInitialized
  <2>1. PICK e \in Due("InitializeNodesDelayed") :
            Becomes(InitializeNodesDelayed(Dequeue(World, e)))
    BY <1>1 DEF NodesInitialized
  <2> QED
    BY <2>1, DequeueInv, InitializeNodesKeeps, KeepsPlanned
<1>2. CASE BaselineCaptured
  <2>1. PICK e \in Due("CaptureBaseline") :
          Becomes([Dequeue(World, e) EXCEPT !.metrics =
                       CaptureBaseline(@, e.ts)])
    BY <1>2 DEF BaselineCaptured
  <2>2. e.ts \in Nat /\ WorldInv(Dequeue(World, e))
    BY DueEvent, DequeueInv DEF Events
  <2> QED
    BY <2>1, <2>2, CaptureBaselineLeaves, UndisturbedStep
       DEF WorldInv, CoreInv
<1>3. CASE FinalReport
  <2>1. PICK e \in Due("FinalReport") :
            Becomes(PrintFinalReport(Record(FinalCheck(Dequeue(World, e)),
                                            <<"Final">>)))
    BY <1>3 DEF FinalReport
  <2> QED
    BY <2>1, DequeueInv, FinalReportKeeps, KeepsPlanned
<1> QED
  BY <1>1, <1>2, <1>3

\* The samples, the timers of the animation and the end of the loop
LEMMA ManagerKeepsPlanned ==
    ASSUME IInv, Plan(World),
           \/ DelayedSample \/ AgentDisappears \/ AgentReappears
           \/ MigratedAgentAppears \/ VerificationShown \/ ColoursReset
           \/ LoopStops
    PROVE  Planned
<1> USE DEF Closers, Restorations
<1>0. /\ {"gNB_Normal", "Edge_Normal", "Edge_Offline", "Edge_Reappeared"}
            \subseteq Colours \ {"Verification_Success"}
      /\ \A op : op \notin Restorations =>
            \A e \in Due(op) : WorldInv(Dequeue(World, e))
  BY DequeueInv DEF Colours
<1>1. CASE DelayedSample
  <2>1. PICK e \in Due("RecordMetrics") :
            Becomes(Record(Dequeue(World, e), e.arg))
    BY <1>1 DEF DelayedSample
  <2>2. e.arg \in Labels
    BY DueEvent DEF LabelHandlers
  <2> QED
    BY <1>0, <2>1, <2>2, RecordKeeps, KeepsPlanned
<1>2. CASE AgentDisappears
  <2>1. PICK e \in Due("ShowAgentDisappears") :
            Becomes(Paint(Dequeue(World, e), {e.arg[1]}, "Edge_Offline"))
    BY <1>2 DEF AgentDisappears
  <2> QED
    BY <1>0, <2>1, PaintKeeps, KeepsPlanned
<1>3. CASE AgentReappears
  <2>1. PICK e \in Due("ShowAgentReappears") :
            Becomes(Paint(Dequeue(World, e), {e.arg[1]}, "Edge_Reappeared"))
    BY <1>3 DEF AgentReappears
  <2> QED
    BY <1>0, <2>1, PaintKeeps, KeepsPlanned
<1>4. CASE MigratedAgentAppears
  <2>1. PICK e \in Due("ShowMigratedAgent") :
            LET w == Dequeue(World, e)
            IN  Becomes(IF w.enterprise # NoAgent
                        THEN Paint(w, {e.arg[1]}, "Edge_Reappeared") ELSE w)
    BY <1>4 DEF MigratedAgentAppears
  <2> DEFINE w == Dequeue(World, e)
             p == Paint(w, {e.arg[1]}, "Edge_Reappeared")
             v == IF w.enterprise # NoAgent THEN p ELSE w
  <2>2. Keeps(w, p) /\ Keeps(w, w)
    BY <1>0, PaintKeeps, KeepsSelf
  <2>3. Keeps(w, v) /\ Becomes(v)
    BY <2>1, <2>2
  <2> QED
    BY <2>3, KeepsPlanned
<1>5. CASE VerificationShown
  <2>1. PICK e \in Due("ShowVerified") :
            LET w == Dequeue(World, e)
            IN  Becomes(IF AgentsPresent(w)
                        THEN ShowIdentityVerificationSuccess(w, e.arg[1])
                        ELSE w)
    BY <1>5 DEF VerificationShown
  <2> DEFINE w == Dequeue(World, e)
             p == ShowIdentityVerificationSuccess(w, e.arg[1])
             v == IF AgentsPresent(w) THEN p ELSE w
  <2>2. e.arg[1] \in Nodes
    BY DueEvent DEF NodeHandlers
  <2>3. Keeps(w, p) /\ Keeps(w, w)
    BY <1>0, <2>2, ShowVerificationKeeps, KeepsSelf
  <2>4. Keeps(w, v) /\ Becomes(v)
    BY <2>1, <2>3
  <2> QED
    BY <2>4, KeepsPlanned
<1>6. CASE ColoursReset
  <2>1. PICK e \in Due("ResetColours") :
            Becomes(ResetColours(Dequeue(World, e), e.arg[1]))
    BY <1>6 DEF ColoursReset
  <2> DEFINE w == Dequeue(World, e)
             p == Paint(w, {Gnb}, "gNB_Normal")
             v == Paint(p, {e.arg[1]}, "Edge_Normal")
  <2>2. Keeps(w, p)
    BY <1>0, PaintKeeps
  <2>3. Becomes(v)
    BY <2>1 DEF ResetColours
  <2> HIDE DEF p
  <2>4. Keeps(p, v)
    BY <1>0, <2>2, PaintKeeps, KeepsInv
  <2> HIDE DEF v
  <2>5. Keeps(w, v)
    BY <2>2, <2>4, KeepsTrans
  <2> QED
    BY <2>3, <2>5, KeepsPlanned
<1>7. CASE LoopStops
  <2>1. PICK e \in Due("Stop") : Becomes(StopLoop(Dequeue(World, e)))
    BY <1>7 DEF LoopStops
  <2> QED
    BY <1>0, <2>1, StopLoopKeeps, KeepsPlanned
<1> QED
  BY <1>1, <1>2, <1>3, <1>4, <1>5, <1>6, <1>7

LEMMA StepPlanned ==
    ASSUME WellSpaced, IInv, Plan(World), [Next]_vars
    PROVE  Planned
<1>1. CASE UNCHANGED vars
  BY <1>1 DEF vars, simulatorVars, managerVars, World, Planned
<1>2. CASE Next
  <2>1. CASE Finished
    BY <1>1, <2>1 DEF Finished
  <2> QED
    BY <1>2, <2>1, MainKeepsPlanned, StartContinuityPlanned,
       StartPartitionPlanned, ManagerKeepsPlanned, StartersPlanned,
       ClosersPlanned DEF Next, ManagerNext
<1> QED
  BY <1>1, <1>2

---------------------------------------------------------------------------
(* What the handlers paint, and the timers of the animation they leave     *)

\* The events that repaint a node, and when the last of what follows from one
\* is over: a verification shown leaves a badge for 20.
Repaints == NodeHandlers \cup {"InitializeNodesDelayed"}
Lingers(op) == IF op = "ShowVerified" THEN 20 ELSE 0
Span(e) == e.ts + Lingers(e.op)

\* The fields of a world, whatever their values but two
Shaped(w) ==
    /\ DOMAIN w = {"now", "queue", "uid", "running", "enterprise", "twin",
                   "recoveryScheduled", "scenario", "metrics", "colour",
                   "report"}
    /\ DOMAIN w.colour = Nodes
    /\ w.now \in Nat

\* The timers a call adds are of ops, and over d from now.
Draws(w, v, ops, d) ==
    /\ Shaped(v) /\ v.now = w.now
    /\ \A e \in v.queue \ w.queue : e.op \in Repaints =>
            e.op \in ops /\ Span(e) <= w.now + d

SamePicture(w, v) == v.enterprise = w.enterprise /\ v.colour = w.colour

LEMMA WorldShaped == ASSUME NEW w \in Worlds PROVE Shaped(w)
  BY DEF Worlds, Shaped

LEMMA DrawsTrans ==
    ASSUME NEW w, NEW v, NEW x, NEW ops, NEW d,
           Draws(w, v, ops, d), Draws(v, x, ops, d)
    PROVE  Draws(w, x, ops, d)
  BY DEF Draws

LEMMA ScheduleDraws ==
    ASSUME NEW w, Shaped(w), NEW delay \in Nat, NEW op, NEW arg,
           NEW ops, NEW d \in Nat,
           op \in Repaints => op \in ops /\ delay + Lingers(op) <= d
    PROVE  LET v == Schedule(w, delay, op, arg)
           IN  Draws(w, v, ops, d) /\ SamePicture(w, v)
<1> DEFINE e == Event(w.now + delay, w.uid, op, arg)
           v == Schedule(w, delay, op, arg)
<1>1. /\ Shaped(v) /\ SamePicture(w, v) /\ v.now = w.now
      /\ v.queue = w.queue \cup {e}
  BY DEF Shaped, Schedule, SamePicture
<1>2. e.op = op /\ e.ts = w.now + delay
  BY DEF Event
<1> HIDE DEF e, v
<1>3. op \in Repaints => Span(e) <= w.now + d
  BY <1>2 DEF Span, Lingers, Shaped
<1> QED
  BY <1>1, <1>2, <1>3 DEF Draws, v

LEMMA PaintDraws ==
    ASSUME NEW w, Shaped(w), NEW nodes, NEW c, NEW ops, NEW d,
           NEW n \in Nodes
    PROVE  LET v == Paint(w, nodes, c)
           IN  /\ Draws(w, v, ops, d) /\ v.enterprise = w.enterprise
               /\ n \in nodes => v.colour[n] = c
               /\ n \notin nodes => v.colour[n] = w.colour[n]
  BY DEF Shaped, Paint, Draws

LEMMA BooksDraw ==
    ASSUME NEW w, Shaped(w), NEW ops, NEW d, NEW a
    PROVE  /\ LET v == Record(w, a)
              IN  Draws(w, v, ops, d) /\ SamePicture(w, v)
           /\ LET v == StartScenario(w, a)
              IN  Draws(w, v, ops, d) /\ SamePicture(w, v)
           /\ LET v == EndScenario(w)
              IN  Draws(w, v, ops, d) /\ SamePicture(w, v)
           /\ LET v == VerifyAgentContinuity(w)
              IN  Draws(w, v, ops, d) /\ SamePicture(w, v)
           /\ LET v == VerifyInScenario(w)
              IN  Draws(w, v, ops, d) /\ SamePicture(w, v)
           /\ LET v == PrintFinalReport(w)
              IN  Draws(w, v, ops, d) /\ SamePicture(w, v)
<1>1. LET v == Record(w, a)
      IN  Draws(w, v, ops, d) /\ SamePicture(w, v)
  BY DEF Record, Draws, SamePicture, Shaped
<1>2. LET v == StartScenario(w, a)
      IN  Draws(w, v, ops, d) /\ SamePicture(w, v)
  BY DEF StartScenario, Draws, SamePicture, Shaped
<1>3. LET v == EndScenario(w)
      IN  Draws(w, v, ops, d) /\ SamePicture(w, v)
  BY DEF EndScenario, Draws, SamePicture, Shaped
<1>4. LET v == VerifyAgentContinuity(w)
      IN  Draws(w, v, ops, d) /\ SamePicture(w, v)
  BY DEF VerifyAgentContinuity, Draws, SamePicture, Shaped
<1>5. LET v == VerifyInScenario(w)
      IN  Draws(w, v, ops, d) /\ SamePicture(w, v)
  BY <1>4 DEF VerifyInScenario, Draws, SamePicture, Shaped
<1>6. LET v == PrintFinalReport(w)
      IN  Draws(w, v, ops, d) /\ SamePicture(w, v)
  BY DEF PrintFinalReport, Draws, SamePicture, Shaped
<1> QED
  BY <1>1, <1>2, <1>3, <1>4, <1>5, <1>6

LEMMA CreateAgentsDraws ==
    ASSUME NEW w, Shaped(w), NEW ops, NEW d
    PROVE  LET v == CreateAgents(w)
           IN  /\ Draws(w, v, ops, d) /\ v.colour = w.colour
               /\ v.enterprise.host = Primary
  BY DEF CreateAgents, NewEnterprise, Draws, Shaped

LEMMA ShowVerificationDraws ==
    ASSUME NEW w, Shaped(w), NEW node, NEW ops, NEW d \in Nat,
           "ResetColours" \in ops, 20 <= d
    PROVE  LET v == ShowIdentityVerificationSuccess(w, node)
           IN  Draws(w, v, ops, d) /\ v.enterprise = w.enterprise
<1> DEFINE p == Paint(w, {Gnb, node}, "Verification_Success")
           v == Schedule(p, 20, "ResetColours", <<node>>)
<1>1. Draws(w, p, ops, d) /\ p.enterprise = w.enterprise
  BY PaintDraws DEF Nodes
<1>2. ShowIdentityVerificationSuccess(w, node) = v
  BY DEF ShowIdentityVerificationSuccess
<1> HIDE DEF p
<1>3. Shaped(p)
  BY <1>1 DEF Draws
<1>4. Lingers("ResetColours") = 0
  BY DEF Lingers
<1>5. Draws(p, v, ops, d) /\ SamePicture(p, v)
  BY <1>3, <1>4, ScheduleDraws
<1> HIDE DEF v
<1> QED
  BY <1>1, <1>2, <1>5, DrawsTrans DEF SamePicture

LEMMA DestroyAgentsDraws ==
    ASSUME NEW w, Shaped(w), NEW restoration \in Restorations,
           NEW ops, NEW d \in Nat
    PROVE  LET v == DestroyAgents(w, restoration)
           IN  /\ Draws(w, v, ops, d) /\ v.colour = w.colour
               /\ v.enterprise = NoAgent
<1> DEFINE gone == [w EXCEPT !.enterprise = NoAgent, !.twin = NoAgent]
           set  == [gone EXCEPT !.recoveryScheduled = TRUE]
           v    == Schedule(set, RecoveryDelay, restoration, << >>)
<1>1. /\ Draws(w, gone, ops, d) /\ gone.colour = w.colour
      /\ gone.enterprise = NoAgent
  BY DEF Draws, Shaped
<1>2. /\ Draws(w, set, ops, d) /\ set.colour = w.colour
      /\ set.enterprise = NoAgent
  BY DEF Draws, Shaped
<1>3. DestroyAgents(w, restoration) = IF w.recoveryScheduled THEN gone ELSE v
  BY DEF DestroyAgents
<1> HIDE DEF gone, set
<1>4. restoration \notin Repaints
  BY DEF Restorations, Repaints, NodeHandlers
<1>5. Shaped(set)
  BY <1>2 DEF Draws
<1>6. Draws(set, v, ops, d) /\ SamePicture(set, v)
  <2>1. RecoveryDelay \in Nat
    BY DelayAssumption
  <2> QED
    BY <1>4, <1>5, <2>1, ScheduleDraws
<1> HIDE DEF v
<1> QED
  BY <1>1, <1>2, <1>3, <1>6, DrawsTrans DEF SamePicture

LEMMA BaselineDraws ==
    ASSUME NEW w, Shaped(w)
    PROVE  LET v == RunBaselineFailureScenario(w)
           IN  /\ Draws(w, v, {}, 0) /\ v.enterprise = w.enterprise
               /\ v.colour[Gnb] = w.colour[Gnb]
<1> DEFINE name    == <<"Baseline", "Failure">>
           started == StartScenario(w, name)
           painted == Paint(started, {Primary, Secondary}, "SplitBrain")
           mid     == Schedule(painted, 50, "RecordMetrics",
                               <<"Baseline", "Failure", "Mid">>)
           end     == Schedule(mid, 100, "RecordMetrics",
                               <<"Baseline", "Failure", "End">>)
           v       == Schedule(end, 110, "EndScenario", << >>)
<1>1. RunBaselineFailureScenario(w) = v
  BY DEF RunBaselineFailureScenario
<1>2. "RecordMetrics" \notin Repaints /\ "EndScenario" \notin Repaints
  BY DEF Repaints, NodeHandlers
<1>3. Draws(w, started, {}, 0) /\ SamePicture(w, started)
  BY BooksDraw
<1> HIDE DEF started
<1>4. /\ Draws(started, painted, {}, 0)
      /\ painted.enterprise = started.enterprise
      /\ painted.colour[Gnb] = started.colour[Gnb]
  <2>1. Shaped(started)
    BY <1>3 DEF Draws
  <2>2. Gnb \in Nodes /\ Gnb \notin {Primary, Secondary}
    BY NodesAssumption DEF Nodes
  <2> QED
    BY <2>1, <2>2, PaintDraws
<1> HIDE DEF painted
<1>5. Draws(painted, mid, {}, 0) /\ SamePicture(painted, mid)
  <2>1. Shaped(painted)
    BY <1>4 DEF Draws
  <2> QED
    BY <1>2, <2>1, ScheduleDraws
<1> HIDE DEF mid
<1>6. Draws(mid, end, {}, 0) /\ SamePicture(mid, end)
  <2>1. Shaped(mid)
    BY <1>5 DEF Draws
  <2> QED
    BY <1>2, <2>1, ScheduleDraws
<1> HIDE DEF end
<1>7. Draws(end, v, {}, 0) /\ SamePicture(end, v)
  <2>1. Shaped(end)
    BY <1>6 DEF Draws
  <2> QED
    BY <1>2, <2>1, ScheduleDraws
<1> HIDE DEF v
<1>8. Draws(w, v, {}, 0)
  BY <1>3, <1>4, <1>5, <1>6, <1>7, DrawsTrans
<1> QED
  BY <1>1, <1>3, <1>4, <1>5, <1>6, <1>7, <1>8 DEF SamePicture

\* What an outage of the enterprise agent shows at its beginning
ShowsOutage(w, v) ==
    /\ Draws(w, v, {"ShowAgentDisappears"}, 5)
    /\ v.enterprise = NoAgent /\ v.colour[Primary] = "Edge_Crash"

\* Both handlers end alike
LEMMA OutageDraws ==
    ASSUME NEW w, NEW x, Draws(w, x, {"ShowAgentDisappears"}, 5)
    PROVE  LET p == Schedule(Paint(x, {Primary}, "Edge_Crash"), 5,
                             "ShowAgentDisappears", <<Primary>>)
           IN  /\ Draws(w, p, {"ShowAgentDisappears"}, 5)
               /\ p.colour[Primary] = "Edge_Crash"
<1> DEFINE ops == {"ShowAgentDisappears"}
           c == Paint(x, {Primary}, "Edge_Crash")
           p == Schedule(c, 5, "ShowAgentDisappears", <<Primary>>)
<1>1. Shaped(x)
  BY DEF Draws
<1>2. Draws(x, c, ops, 5) /\ c.colour[Primary] = "Edge_Crash"
  BY <1>1, PaintDraws DEF Nodes
<1> HIDE DEF c
<1>3. Shaped(c) /\ Lingers("ShowAgentDisappears") = 0
  BY <1>2 DEF Draws, Lingers
<1>4. Draws(c, p, ops, 5) /\ SamePicture(c, p)
  BY <1>3, ScheduleDraws
<1> HIDE DEF p
<1>5. Draws(w, p, ops, 5)
  BY <1>2, <1>4, DrawsTrans
<1> QED
  BY <1>2, <1>4, <1>5 DEF SamePicture, p, c

LEMMA NodeCrashDraws ==
    ASSUME NEW w, Shaped(w)
    PROVE  ShowsOutage(w, TriggerNodeCrash(w))
<1> DEFINE ops     == {"ShowAgentDisappears"}
           started == StartScenario(w, <<"Node", "Crash">>)
           painted == Schedule(Paint(started, {Primary}, "Edge_Crash"), 5,
                               "ShowAgentDisappears", <<Primary>>)
           sampled == Record(painted, <<"Crash", "During">>)
           v       == DestroyAgents(sampled, "RecoverFromCrash")
<1>1. TriggerNodeCrash(w) = v
  BY DEF TriggerNodeCrash
<1>2. Draws(w, started, ops, 5)
  BY BooksDraw
<1>3. "RecoverFromCrash" \in Restorations
  BY DEF Restorations
<1> HIDE DEF started
<1>4. Draws(w, painted, ops, 5) /\ painted.colour[Primary] = "Edge_Crash"
  BY <1>2, OutageDraws
<1> HIDE DEF painted
<1>5. Draws(painted, sampled, ops, 5) /\ SamePicture(painted, sampled)
  <2>1. Shaped(painted)
    BY <1>4 DEF Draws
  <2> QED
    BY <2>1, BooksDraw
<1> HIDE DEF sampled
<1>6. /\ Draws(sampled, v, ops, 5) /\ v.colour = sampled.colour
      /\ v.enterprise = NoAgent
  <2>1. Shaped(sampled)
    BY <1>5 DEF Draws
  <2> QED
    BY <1>3, <2>1, DestroyAgentsDraws
<1> HIDE DEF v
<1>7. Draws(w, v, ops, 5)
  BY <1>4, <1>5, <1>6, DrawsTrans
<1> QED
  BY <1>1, <1>4, <1>5, <1>6, <1>7 DEF ShowsOutage, SamePicture

\* A handler that begins with both agents there
LEMMA BeginDraws ==
    ASSUME NEW w, Shaped(w), AgentsPresent(w), NEW name, NEW ops, NEW d
    PROVE  LET v == Begin(w, name)
           IN  Draws(w, v, ops, d) /\ SamePicture(w, v) /\ AgentsPresent(v)
<1> DEFINE v == StartScenario(w, name)
<1>1. Draws(w, v, ops, d) /\ SamePicture(w, v) /\ v.twin = w.twin
  <2>1. v.twin = w.twin
    BY DEF Shaped, StartScenario
  <2> QED
    BY <2>1, BooksDraw
<1> HIDE DEF v
<1>2. AgentsPresent(v)
  BY <1>1 DEF SamePicture, AgentsPresent
<1>3. Begin(w, name) = v
  BY <1>2 DEF Begin, EnsureAgentsPresent, v
<1> QED
  BY <1>1, <1>2, <1>3

LEMMA FullTeardownDraws ==
    ASSUME NEW w, Shaped(w), AgentsPresent(w), w.enterprise.host = Primary
    PROVE  ShowsOutage(w, TriggerFullTeardown(w))
<1> DEFINE ops     == {"ShowAgentDisappears"}
           begun   == Begin(w, <<"Full", "Teardown">>)
           sampled == Record(begun, <<"Teardown", "Start">>)
           painted == Schedule(Paint(sampled, {Primary}, "Edge_Crash"), 5,
                               "ShowAgentDisappears", <<Primary>>)
           v       == DestroyAgents(painted, "RedeploySystem")
<1>1. /\ Draws(w, begun, ops, 5) /\ SamePicture(w, begun)
      /\ AgentsPresent(begun)
  BY BeginDraws
<1>2. begun.enterprise.host = Primary
  BY <1>1 DEF SamePicture
<1>3. TriggerFullTeardown(w) = v
  BY <1>1, <1>2 DEF TriggerFullTeardown
<1>4. "RedeploySystem" \in Restorations
  BY DEF Restorations
<1> HIDE DEF begun
<1>5. Draws(begun, sampled, ops, 5)
  <2>1. Shaped(begun)
    BY <1>1 DEF Draws
  <2> QED
    BY <2>1, BooksDraw
<1> HIDE DEF sampled
<1>6. Draws(w, sampled, ops, 5)
  BY <1>1, <1>5, DrawsTrans
<1>7. Draws(w, painted, ops, 5) /\ painted.colour[Primary] = "Edge_Crash"
  BY <1>6, OutageDraws
<1> HIDE DEF painted
<1>8. /\ Draws(painted, v, ops, 5) /\ v.colour = painted.colour
      /\ v.enterprise = NoAgent
  <2>1. Shaped(painted)
    BY <1>7 DEF Draws
  <2> QED
    BY <1>4, <2>1, DestroyAgentsDraws
<1> HIDE DEF v
<1>9. Draws(w, v, ops, 5)
  BY <1>7, <1>8, DrawsTrans
<1> QED
  BY <1>3, <1>7, <1>8, <1>9 DEF ShowsOutage

LEMMA NetworkPartitionDraws ==
    ASSUME NEW w, Shaped(w)
    PROVE  LET v == TriggerNetworkPartition(w)
           IN  /\ Draws(w, v, {}, 0) /\ v.enterprise = w.enterprise
               /\ v.colour[Gnb] = IF w.twin # NoAgent THEN "Twin_Offline"
                                                      ELSE w.colour[Gnb]
<1> DEFINE started == StartScenario(w, <<"Network", "Partition">>)
           gray    == Paint(started, {Gnb}, "Twin_Offline")
           offline == IF w.twin # NoAgent THEN gray ELSE started
           cut     == [offline EXCEPT !.twin = NoAgent]
           painted == Paint(cut, {Primary, Secondary}, "SplitBrain")
           mid     == Schedule(painted, 25, "RecordMetrics",
                               <<"Network", "Partition", "Mid">>)
           end     == Schedule(mid, 45, "RecordMetrics",
                               <<"Network", "Partition", "End">>)
           v       == Schedule(end, 50, "EndScenario", << >>)
           shown   == IF w.twin # NoAgent THEN "Twin_Offline"
                                          ELSE w.colour[Gnb]
<1>1. TriggerNetworkPartition(w) = v
  BY DEF TriggerNetworkPartition
<1>2. "RecordMetrics" \notin Repaints /\ "EndScenario" \notin Repaints
  BY DEF Repaints, NodeHandlers
<1>3. Draws(w, started, {}, 0) /\ SamePicture(w, started)
  BY BooksDraw
<1> HIDE DEF started
<1>4. Shaped(started) /\ Gnb \in Nodes /\ Gnb \notin {Primary, Secondary}
  BY <1>3, NodesAssumption DEF Draws, Nodes
<1>5. /\ Draws(started, gray, {}, 0) /\ gray.enterprise = started.enterprise
      /\ gray.colour[Gnb] = "Twin_Offline"
  BY <1>4, PaintDraws
<1> HIDE DEF gray
<1>6. /\ Draws(w, offline, {}, 0) /\ offline.enterprise = w.enterprise
      /\ offline.colour[Gnb] = shown
  BY <1>3, <1>5, DrawsTrans DEF SamePicture
<1> HIDE DEF offline, shown
<1>7. Draws(offline, cut, {}, 0) /\ SamePicture(offline, cut)
  <2>1. Shaped(offline)
    BY <1>6 DEF Draws
  <2> QED
    BY <2>1 DEF Draws, SamePicture, Shaped
<1> HIDE DEF cut
<1>8. /\ Draws(cut, painted, {}, 0) /\ painted.enterprise = cut.enterprise
      /\ painted.colour[Gnb] = cut.colour[Gnb]
  <2>1. Shaped(cut)
    BY <1>7 DEF Draws
  <2>2. Gnb \in Nodes /\ Gnb \notin {Primary, Secondary}
    BY <1>4
  <2> QED
    BY <2>1, <2>2, PaintDraws
<1> HIDE DEF painted
<1>9. Draws(painted, mid, {}, 0) /\ SamePicture(painted, mid)
  <2>1. Shaped(painted)
    BY <1>8 DEF Draws
  <2> QED
    BY <1>2, <2>1, ScheduleDraws
<1> HIDE DEF mid
<1>10. Draws(mid, end, {}, 0) /\ SamePicture(mid, end)
  <2>1. Shaped(mid)
    BY <1>9 DEF Draws
  <2> QED
    BY <1>2, <2>1, ScheduleDraws
<1> HIDE DEF end
<1>11. Draws(end, v, {}, 0) /\ SamePicture(end, v)
  <2>1. Shaped(end)
    BY <1>10 DEF Draws
  <2> QED
    BY <1>2, <2>1, ScheduleDraws
<1> HIDE DEF v
<1>12. Draws(w, painted, {}, 0)
  BY <1>6, <1>7, <1>8, DrawsTrans
<1>13. Draws(w, v, {}, 0)
  BY <1>9, <1>10, <1>11, <1>12, DrawsTrans
<1> QED
  BY <1>1, <1>6, <1>7, <1>8, <1>9, <1>10, <1>11, <1>13
     DEF SamePicture, shown

\* A migration's timers are over 30 after it
LEMMA MigrationDraws ==
    ASSUME NEW w, Shaped(w), AgentsPresent(w)
    PROVE  Draws(w, TriggerAgentMigration(w), Repaints, 30)
<1> DEFINE D(x, y)  == Draws(x, y, Repaints, 30)
           begun    == Begin(w, <<"Agent", "Migration">>)
           sampled  == Record(begun, <<"Migration", "Start">>)
           painted  == Paint(sampled, {Primary}, "Edge_Migrating")
           moved    == [painted EXCEPT !.enterprise = Migrate(@, Secondary)]
           leaving  == Schedule(moved, 2, "ShowAgentDisappears", <<Primary>>)
           arriving == Schedule(leaving, 5, "ShowMigratedAgent", <<Secondary>>)
           verified == VerifyInScenario(arriving)
           shows    == Schedule(verified, 10, "ShowVerified", <<Secondary>>)
           shown    == IF Continuous(begun.twin, moved.enterprise)
                       THEN shows ELSE verified
           sampling == Schedule(shown, 10, "RecordMetrics",
                                <<"Continuity", "Success", "Migration">>)
           v        == EndScenario(sampling)
<1>1. D(w, begun) /\ AgentsPresent(begun)
  BY BeginDraws
<1>2. TriggerAgentMigration(w) = v
  BY <1>1 DEF TriggerAgentMigration
<1> HIDE DEF begun
<1>3. \A x, y : D(x, y) => Shaped(y)
  BY DEF Draws
<1>4. /\ {"ShowAgentDisappears", "ShowMigratedAgent", "ShowVerified"}
            \subseteq Repaints
      /\ "RecordMetrics" \notin Repaints
      /\ Lingers("ShowAgentDisappears") = 0 /\ Lingers("ShowMigratedAgent") = 0
      /\ Lingers("ShowVerified") = 20
  BY DEF Repaints, NodeHandlers, Lingers
<1>5. D(begun, sampled)
  BY <1>1, <1>3, BooksDraw
<1> HIDE DEF sampled
<1>6. D(sampled, painted)
  BY <1>3, <1>5, PaintDraws DEF Nodes
<1> HIDE DEF painted
<1>7. D(painted, moved)
  <2>1. Shaped(painted)
    BY <1>3, <1>6
  <2> QED
    BY <2>1 DEF Draws, Shaped
<1> HIDE DEF moved
<1>8. D(moved, leaving)
  <2>1. Shaped(moved)
    BY <1>3, <1>7
  <2> QED
    BY <1>4, <2>1, ScheduleDraws
<1> HIDE DEF leaving
<1>9. D(leaving, arriving)
  <2>1. Shaped(leaving)
    BY <1>3, <1>8
  <2> QED
    BY <1>4, <2>1, ScheduleDraws
<1> HIDE DEF arriving
<1>10. D(arriving, verified)
  BY <1>3, <1>9, BooksDraw
<1> HIDE DEF verified
<1>11. D(verified, shows)
  <2>1. Shaped(verified)
    BY <1>3, <1>10
  <2> QED
    BY <1>4, <2>1, ScheduleDraws
<1> HIDE DEF shows
<1>12. D(arriving, shown)
  BY <1>10, <1>11, DrawsTrans
<1> HIDE DEF shown
<1>13. D(shown, sampling)
  <2>1. Shaped(shown)
    BY <1>3, <1>12
  <2> QED
    BY <1>4, <2>1, ScheduleDraws
<1> HIDE DEF sampling
<1>14. D(sampling, v)
  BY <1>3, <1>13, BooksDraw
<1> HIDE DEF v
<1>15. D(w, painted)
  BY <1>1, <1>5, <1>6, DrawsTrans
<1>16. D(painted, arriving)
  BY <1>7, <1>8, <1>9, DrawsTrans
<1>17. D(arriving, v)
  BY <1>12, <1>13, <1>14, DrawsTrans
<1> QED
  BY <1>2, <1>15, <1>16, <1>17, DrawsTrans

\* So are a restart's, and it brings the agent back to the primary edge.
LEMMA ProcessRestartDraws ==
    ASSUME NEW w, Shaped(w), AgentsPresent(w)
    PROVE  LET v == TriggerProcessRestart(w)
           IN  Draws(w, v, Repaints, 30) /\ v.enterprise.host = Primary
<1> DEFINE D(x, y)   == Draws(x, y, Repaints, 30)
           begun     == Begin(w, <<"Process", "Restart">>)
           sampled   == Record(begun, <<"Restart", "Start">>)
           node      == begun.enterprise.host
           painted   == Paint(sampled, {node}, "Edge_Crash")
           leaving   == Schedule(painted, 2, "ShowAgentDisappears", <<node>>)
           arriving  == Schedule(leaving, 5, "ShowAgentReappears", <<node>>)
           restarted == [arriving EXCEPT !.enterprise =
                                  NewEnterprise(Primary, @.identity)]
           verified  == VerifyInScenario(restarted)
           shows     == Schedule(verified, 10, "ShowVerified", <<node>>)
           shown     == IF Continuous(begun.twin, restarted.enterprise)
                        THEN shows ELSE verified
           sampling  == Schedule(shown, 10, "RecordMetrics",
                           <<"Continuity", "Success", "Process", "Restart">>)
           v         == EndScenario(sampling)
<1>1. D(w, begun) /\ AgentsPresent(begun)
  BY BeginDraws
<1>2. TriggerProcessRestart(w) = v
  BY <1>1 DEF TriggerProcessRestart
<1> HIDE DEF begun, node
<1>3. \A x, y : D(x, y) => Shaped(y)
  BY DEF Draws
<1>4. /\ {"ShowAgentDisappears", "ShowAgentReappears", "ShowVerified"}
            \subseteq Repaints
      /\ "RecordMetrics" \notin Repaints
      /\ Lingers("ShowAgentDisappears") = 0
      /\ Lingers("ShowAgentReappears") = 0
      /\ Lingers("ShowVerified") = 20
  BY DEF Repaints, NodeHandlers, Lingers
<1>5. D(begun, sampled)
  BY <1>1, <1>3, BooksDraw
<1> HIDE DEF sampled
<1>6. D(sampled, painted)
  BY <1>3, <1>5, PaintDraws DEF Nodes
<1> HIDE DEF painted
<1>7. D(painted, leaving)
  <2>1. Shaped(painted)
    BY <1>3, <1>6
  <2> QED
    BY <1>4, <2>1, ScheduleDraws
<1> HIDE DEF leaving
<1>8. D(leaving, arriving)
  <2>1. Shaped(leaving)
    BY <1>3, <1>7
  <2> QED
    BY <1>4, <2>1, ScheduleDraws
<1> HIDE DEF arriving
<1>9. D(arriving, restarted) /\ restarted.enterprise.host = Primary
  <2>1. Shaped(arriving)
    BY <1>3, <1>8
  <2> QED
    BY <2>1 DEF Draws, Shaped, NewEnterprise
<1> HIDE DEF restarted
<1>10. D(restarted, verified) /\ SamePicture(restarted, verified)
  BY <1>3, <1>9, BooksDraw
<1> HIDE DEF verified
<1>11. D(verified, shows) /\ SamePicture(verified, shows)
  <2>1. Shaped(verified)
    BY <1>3, <1>10
  <2> QED
    BY <1>4, <2>1, ScheduleDraws
<1> HIDE DEF shows
<1>12. D(restarted, shown) /\ SamePicture(restarted, shown)
  BY <1>10, <1>11, DrawsTrans DEF SamePicture
<1> HIDE DEF shown
<1>13. D(shown, sampling) /\ SamePicture(shown, sampling)
  <2>1. Shaped(shown)
    BY <1>3, <1>12
  <2> QED
    BY <1>4, <2>1, ScheduleDraws
<1> HIDE DEF sampling
<1>14. D(sampling, v) /\ SamePicture(sampling, v)
  BY <1>3, <1>13, BooksDraw
<1> HIDE DEF v
<1>15. D(w, painted)
  BY <1>1, <1>5, <1>6, DrawsTrans
<1>16. D(painted, restarted)
  BY <1>7, <1>8, <1>9, DrawsTrans
<1>17. D(restarted, v)
  BY <1>12, <1>13, <1>14, DrawsTrans
<1> QED
  BY <1>2, <1>9, <1>12, <1>13, <1>14, <1>15, <1>16, <1>17, DrawsTrans
     DEF SamePicture

LEMMA RestoreDraws ==
    ASSUME NEW w, Shaped(w), NEW label
    PROVE  LET v == Restore(w, label)
           IN  Draws(w, v, Repaints, 20) /\ v.enterprise.host = Primary
<1> DEFINE D(x, y)  == Draws(x, y, Repaints, 20)
           cleared  == ClearFlag(w)
           created  == CreateAgents(cleared)
           painted  == Paint(created, {Primary}, "Edge_Reappeared")
           verified == VerifyInScenario(painted)
           badge    == ShowIdentityVerificationSuccess(verified, Primary)
           shown    == IF Continuous(created.twin, created.enterprise)
                       THEN badge ELSE verified
           sampled  == Record(shown, label)
           v        == EndScenario(sampled)
<1>1. Restore(w, label) = v
  BY DEF Restore
<1>2. D(w, cleared)
  BY DEF ClearFlag, Draws, Shaped
<1> HIDE DEF cleared
<1>3. \A x, y : D(x, y) => Shaped(y)
  BY DEF Draws
<1>4. "ResetColours" \in Repaints
  BY DEF Repaints, NodeHandlers
<1>5. D(cleared, created) /\ created.enterprise.host = Primary
  BY <1>2, <1>3, CreateAgentsDraws
<1> HIDE DEF created
<1>6. D(created, painted) /\ painted.enterprise = created.enterprise
  BY <1>3, <1>5, PaintDraws DEF Nodes
<1> HIDE DEF painted
<1>7. D(painted, verified) /\ SamePicture(painted, verified)
  BY <1>3, <1>6, BooksDraw
<1> HIDE DEF verified
<1>8. D(verified, badge) /\ badge.enterprise = verified.enterprise
  BY <1>3, <1>4, <1>7, ShowVerificationDraws
<1> HIDE DEF badge
<1>9. D(painted, shown) /\ shown.enterprise = painted.enterprise
  BY <1>7, <1>8, DrawsTrans DEF SamePicture
<1> HIDE DEF shown
<1>10. D(shown, sampled) /\ SamePicture(shown, sampled)
  BY <1>3, <1>9, BooksDraw
<1> HIDE DEF sampled
<1>11. D(sampled, v) /\ SamePicture(sampled, v)
  BY <1>3, <1>10, BooksDraw
<1> HIDE DEF v
<1>12. D(w, painted)
  BY <1>2, <1>5, <1>6, DrawsTrans
<1>13. D(painted, v)
  BY <1>9, <1>10, <1>11, DrawsTrans
<1> QED
  BY <1>1, <1>5, <1>6, <1>9, <1>10, <1>11, <1>12, <1>13, DrawsTrans
     DEF SamePicture

LEMMA ContinuityDraws ==
    ASSUME NEW w, Shaped(w)
    PROVE  LET v == ScheduleContinuitySuccessScenarios(InitializeAgents(w))
           IN  Draws(w, v, {}, 0) /\ v.enterprise.host = Primary
<1> DEFINE D(x, y) == Draws(x, y, {}, 0)
           x == InitializeAgents(w)
           a == Schedule(x, CrashAfter, "TriggerNodeCrash", << >>)
           b == Schedule(a, MigrationAfter, "TriggerAgentMigration", << >>)
           c == Schedule(b, RestartAfter, "TriggerProcessRestart", << >>)
           v == Schedule(c, TeardownAfter, "TriggerFullTeardown", << >>)
<1>1. ScheduleContinuitySuccessScenarios(x) = v
  BY DEF ScheduleContinuitySuccessScenarios
<1>2. D(w, x) /\ x.enterprise.host = Primary
  BY CreateAgentsDraws DEF InitializeAgents
<1> HIDE DEF x
<1>3. \A y, z : D(y, z) => Shaped(z)
  BY DEF Draws
<1>4. /\ "TriggerNodeCrash" \notin Repaints
      /\ "TriggerAgentMigration" \notin Repaints
      /\ "TriggerProcessRestart" \notin Repaints
      /\ "TriggerFullTeardown" \notin Repaints
  BY DEF Repaints, NodeHandlers
<1>5. /\ CrashAfter \in Nat /\ MigrationAfter \in Nat
      /\ RestartAfter \in Nat /\ TeardownAfter \in Nat
  BY TimelineAssumption
<1>6. D(x, a) /\ SamePicture(x, a)
  <2>1. Shaped(x)
    BY <1>2, <1>3
  <2> QED
    BY <1>4, <1>5, <2>1, ScheduleDraws
<1> HIDE DEF a
<1>7. D(a, b) /\ SamePicture(a, b)
  <2>1. Shaped(a)
    BY <1>3, <1>6
  <2> QED
    BY <1>4, <1>5, <2>1, ScheduleDraws
<1> HIDE DEF b
<1>8. D(b, c) /\ SamePicture(b, c)
  <2>1. Shaped(b)
    BY <1>3, <1>7
  <2> QED
    BY <1>4, <1>5, <2>1, ScheduleDraws
<1> HIDE DEF c
<1>9. D(c, v) /\ SamePicture(c, v)
  <2>1. Shaped(c)
    BY <1>3, <1>8
  <2> QED
    BY <1>4, <1>5, <2>1, ScheduleDraws
<1> HIDE DEF v
<1>10. D(w, b)
  BY <1>2, <1>6, <1>7, DrawsTrans
<1>11. D(w, v)
  BY <1>8, <1>9, <1>10, DrawsTrans
<1> QED
  BY <1>1, <1>2, <1>6, <1>7, <1>8, <1>9, <1>11 DEF SamePicture, x

LEMMA FinalReportDraws ==
    ASSUME NEW w, Shaped(w)
    PROVE  LET v == PrintFinalReport(Record(FinalCheck(w), <<"Final">>))
           IN  Draws(w, v, {}, 0) /\ SamePicture(w, v)
<1> DEFINE c == FinalCheck(w)
           r == Record(c, <<"Final">>)
           v == PrintFinalReport(r)
<1>1. Draws(w, w, {}, 0) /\ SamePicture(w, w)
  BY DEF Draws, SamePicture
<1>2. Draws(w, c, {}, 0) /\ SamePicture(w, c)
  BY <1>1, BooksDraw DEF FinalCheck
<1> HIDE DEF c
<1>3. Shaped(c)
  BY <1>2 DEF Draws
<1>4. Draws(c, r, {}, 0) /\ SamePicture(c, r)
  BY <1>3, BooksDraw
<1> HIDE DEF r
<1>5. Shaped(r)
  BY <1>4 DEF Draws
<1>6. Draws(r, v, {}, 0) /\ SamePicture(r, v)
  BY <1>5, BooksDraw
<1> HIDE DEF v
<1> QED
  BY <1>2, <1>4, <1>6, DrawsTrans DEF SamePicture, v, r, c

---------------------------------------------------------------------------
(* What the pictures keep to                                               *)

\* The timers of the animation are over 30 after the scenario's end.
TimersEnd(w) ==
    \A e \in w.queue : e.op \in Repaints => Span(e) <= ScenarioEnd(w) + 30

\* In an outage none is pending but the one that shows the agent as gone.
TimersQuiet(w) ==
    \A e \in w.queue : e.op \in Repaints =>
        /\ w.enterprise = NoAgent => e.op = "ShowAgentDisappears"
        /\ w.enterprise # NoAgent => w.twin # NoAgent

\* OutageIsShown, of a world
OutageShown(w) ==
    /\ w.enterprise = NoAgent
        => w.colour[Primary] \in {"Edge_Crash", "Edge_Offline"}
    /\ w.enterprise # NoAgent /\ w.twin = NoAgent
        => w.colour[Gnb] = "Twin_Offline"

\* The agent is on the primary edge but between a migration and the restart
\* that follows it.
RestartPending(w) ==
    \E e \in Control(w.queue) : e.op = "TriggerProcessRestart"
HostPlan(w) ==
    /\ w.enterprise # NoAgent /\ w.enterprise.host # Primary
        => RestartPending(w)
    /\ \A e \in Control(w.queue) :
            e.op = "TriggerAgentMigration" => RestartPending(w)

PicturePlan(w) ==
    TimersEnd(w) /\ TimersQuiet(w) /\ OutageShown(w) /\ HostPlan(w)

LEMMA ScenarioEndType == ASSUME NEW w \in Worlds PROVE ScenarioEnd(w) \in Nat
<1>1. w.scenario.start \in Nat
  BY DEF Worlds
<1>2. ExpectedDowntime(w.scenario.name) \in Nat
  BY DelayAssumption DEF ExpectedDowntime
<1> QED
  BY <1>1, <1>2 DEF ScenarioEnd

LEMMA SpanType ==
    ASSUME NEW w \in Worlds, NEW e \in w.queue
    PROVE  e.ts \in Nat /\ Span(e) \in Nat /\ e.ts <= Span(e)
<1>1. e.ts \in Nat
  BY DEF Worlds, Events
<1> QED
  BY <1>1 DEF Span, Lingers

\* The world a handler is called in
LEMMA DequeuePicture ==
    ASSUME IInv, NEW op, NEW e \in Due(op)
    PROVE  LET w == Dequeue(World, e)
           IN  /\ w \in Worlds /\ World \in Worlds /\ Shaped(w)
               /\ w.queue = World.queue \ {e} /\ e \in World.queue
               /\ w.now = e.ts /\ e.op = op
               /\ w.enterprise = World.enterprise /\ w.twin = World.twin
               /\ w.colour = World.colour /\ w.scenario = World.scenario
               /\ ScenarioEnd(w) = ScenarioEnd(World)
               /\ Control(w.queue) = Control(World.queue) \ {e}
<1> DEFINE u == World
           w == Dequeue(World, e)
<1>1. /\ u.queue = queue /\ u.enterprise = enterprise /\ u.twin = twin
      /\ u.colour = colour /\ u.scenario = scenario
  BY DEF World
<1>2. /\ w \in Worlds /\ w.now = e.ts /\ w.queue = queue \ {e}
      /\ w.enterprise = enterprise /\ w.twin = twin
      /\ w.scenario = scenario /\ w.colour = colour
  BY DequeueCore DEF CoreInv
<1>3. e.op = op /\ e \in queue /\ u \in Worlds
  BY DueEvent
<1>4. Control(w.queue) = Control(u.queue) \ {e}
  BY DequeueControl
<1> HIDE DEF u, w
<1>5. Shaped(w) /\ ScenarioEnd(w) = ScenarioEnd(u)
  BY <1>1, <1>2, WorldShaped DEF ScenarioEnd
<1> QED
  BY <1>1, <1>2, <1>3, <1>4, <1>5 DEF u, w

LEMMA BecomesPicture ==
    ASSUME NEW v \in Worlds, Becomes(v), PicturePlan(v)
    PROVE  PicturePlan(World)'
<1>1. World' = v
  BY BecomesWorld
<1> QED
  BY <1>1

---------------------------------------------------------------------------
(* How each part is kept                                                   *)

LEMMA TimersEndStep ==
    ASSUME NEW u \in Worlds, NEW w \in Worlds, NEW v \in Worlds,
           TimersEnd(u), w.queue \subseteq u.queue,
           NEW ops, NEW d \in Nat, Draws(w, v, ops, d),
           ScenarioEnd(u) <= ScenarioEnd(v),
           ops = {} \/ w.now + d <= ScenarioEnd(v) + 30
    PROVE  TimersEnd(v)
<1> SUFFICES ASSUME NEW e \in v.queue, e.op \in Repaints
             PROVE  Span(e) <= ScenarioEnd(v) + 30
  BY DEF TimersEnd
<1>1. /\ Span(e) \in Nat /\ ScenarioEnd(u) \in Nat /\ ScenarioEnd(v) \in Nat
      /\ w.now \in Nat
  BY SpanType, ScenarioEndType DEF Worlds
<1>2. CASE e \in w.queue
  <2>1. Span(e) <= ScenarioEnd(u) + 30
    BY <1>2 DEF TimersEnd
  <2> QED
    BY <1>1, <2>1
<1>3. CASE e \notin w.queue
  <2>1. e.op \in ops /\ Span(e) <= w.now + d
    BY <1>3 DEF Draws
  <2> QED
    BY <1>1, <2>1
<1> QED
  BY <1>2, <1>3

\* No migration is planned that was not
NoNewMigration(w, v) ==
    \A f \in Control(v.queue) :
        f.op = "TriggerAgentMigration" => f \in Control(w.queue)

LEMMA HostStep ==
    ASSUME NEW u, NEW w, NEW v, NEW e, HostPlan(u),
           Control(w.queue) = Control(u.queue) \ {e},
           e.op # "TriggerProcessRestart",
           Control(w.queue) \subseteq Control(v.queue),
           NoNewMigration(w, v),
           v.enterprise # NoAgent /\ v.enterprise.host # Primary =>
                \/ u.enterprise # NoAgent /\ u.enterprise.host # Primary
                \/ RestartPending(u)
    PROVE  HostPlan(v)
<1>1. RestartPending(u) => RestartPending(v)
  BY DEF RestartPending
<1> QED
  BY <1>1 DEF HostPlan, NoNewMigration

\* An event that paints nothing and leaves the agents where they are
LEMMA UnpaintedStep ==
    ASSUME IInv, PicturePlan(World), NEW op, NEW e \in Due(op),
           op # "TriggerProcessRestart",
           NEW v \in Worlds, Becomes(v), Draws(Dequeue(World, e), v, {}, 0),
           SamePicture(Dequeue(World, e), v),
           SameScenario(Dequeue(World, e), v),
           SameAgents(Dequeue(World, e), v),
           Control(Dequeue(World, e).queue) \subseteq Control(v.queue),
           \A f \in Control(v.queue) \ Control(Dequeue(World, e).queue) :
                f.op # "TriggerAgentMigration"
    PROVE  PicturePlan(World)'
<1> DEFINE u == World
           w == Dequeue(World, e)
<1>1. /\ w \in Worlds /\ u \in Worlds
      /\ w.queue = u.queue \ {e} /\ e \in u.queue /\ e.op = op
      /\ w.enterprise = u.enterprise /\ w.twin = u.twin
      /\ w.colour = u.colour
      /\ ScenarioEnd(w) = ScenarioEnd(u)
      /\ Control(w.queue) = Control(u.queue) \ {e}
  BY DequeuePicture
<1> HIDE DEF u, w
<1>2. ScenarioEnd(v) = ScenarioEnd(u)
  BY <1>1 DEF ScenarioEnd, SameScenario, w
<1>3. TimersEnd(v)
  <2>1. ScenarioEnd(u) <= ScenarioEnd(v)
    BY <1>1, <1>2, ScenarioEndType
  <2> QED
    BY <1>1, <2>1, TimersEndStep DEF PicturePlan, u, w
<1>4. \A f \in v.queue : f.op \in Repaints => f \in u.queue
  BY <1>1 DEF Draws, w
<1>5. /\ v.enterprise = u.enterprise /\ v.colour = u.colour
      /\ v.twin = NoAgent <=> u.twin = NoAgent
  BY <1>1 DEF SamePicture, SameAgents, w
<1>6. TimersQuiet(v)
  BY <1>4, <1>5 DEF PicturePlan, TimersQuiet, u
<1>7. OutageShown(v)
  BY <1>5 DEF PicturePlan, OutageShown, u
<1>8. HostPlan(v)
  <2>1. HostPlan(u)
    BY DEF PicturePlan, u
  <2>2. NoNewMigration(w, v)
    BY DEF NoNewMigration, w
  <2>3. /\ Control(w.queue) \subseteq Control(v.queue)
        /\ v.enterprise = u.enterprise
        /\ e.op # "TriggerProcessRestart"
    BY <1>1, <1>5 DEF w
  <2>4. Control(w.queue) = Control(u.queue) \ {e}
    BY <1>1
  <2> QED
    BY <2>1, <2>2, <2>3, <2>4, HostStep
<1> QED
  BY <1>3, <1>6, <1>7, <1>8, BecomesPicture DEF PicturePlan

\* A timer of the animation
LEMMA PaintedStep ==
    ASSUME IInv, PicturePlan(World), NEW op \in Repaints, NEW e \in Due(op),
           NEW v, Becomes(v), Keeps(Dequeue(World, e), v),
           v.enterprise = Dequeue(World, e).enterprise,
           Draws(Dequeue(World, e), v,
                 IF enterprise = NoAgent THEN {} ELSE {"ResetColours"},
                 Lingers(op)),
           enterprise = NoAgent /\ op = "ShowAgentDisappears" =>
                v.colour[Primary] \in {"Edge_Offline", colour[Primary]}
    PROVE  PicturePlan(World)'
<1> DEFINE u   == World
           w   == Dequeue(World, e)
           ops == IF enterprise = NoAgent THEN {} ELSE {"ResetColours"}
<1>1. /\ w \in Worlds /\ u \in Worlds
      /\ w.queue = u.queue \ {e} /\ e \in u.queue /\ e.op = op
      /\ w.enterprise = u.enterprise /\ w.twin = u.twin
      /\ w.now = e.ts
      /\ ScenarioEnd(w) = ScenarioEnd(u)
      /\ Control(w.queue) = Control(u.queue) \ {e}
  BY DequeuePicture
<1>2. /\ u.enterprise = enterprise /\ u.colour = colour
      /\ PicturePlan(u)
  BY DEF World
<1> HIDE DEF u, w
<1>3. /\ v \in Worlds /\ SameScenario(w, v) /\ SameAgents(w, v)
      /\ Control(v.queue) = Control(w.queue)
      /\ v.enterprise = w.enterprise /\ Draws(w, v, ops, Lingers(op))
  BY KeepsInv DEF Keeps, w
<1>4. ScenarioEnd(v) = ScenarioEnd(u)
  BY <1>1, <1>3 DEF ScenarioEnd, SameScenario
<1>5. /\ Span(e) <= ScenarioEnd(u) + 30
      /\ u.enterprise = NoAgent => op = "ShowAgentDisappears"
      /\ u.enterprise # NoAgent => u.twin # NoAgent
  BY <1>1, <1>2 DEF PicturePlan, TimersEnd, TimersQuiet
<1>6. TimersEnd(v)
  <2>1. ScenarioEnd(u) <= ScenarioEnd(v)
    BY <1>1, <1>4, ScenarioEndType
  <2>2. w.now + Lingers(op) <= ScenarioEnd(v) + 30
    BY <1>1, <1>4, <1>5 DEF Span
  <2>3. Lingers(op) \in Nat
    BY DEF Lingers
  <2>4. w.queue \subseteq u.queue /\ TimersEnd(u)
    BY <1>1, <1>2 DEF PicturePlan
  <2> HIDE DEF ops
  <2> QED
    BY <1>1, <1>3, <2>1, <2>2, <2>3, <2>4, TimersEndStep
<1>7. TimersQuiet(v)
  <2>1. ASSUME NEW f \in v.queue, f.op \in Repaints, u.enterprise = NoAgent
        PROVE  f.op = "ShowAgentDisappears"
    <3>1. f \in u.queue
      BY <1>1, <1>2, <1>3, <2>1 DEF Draws
    <3> QED
      BY <1>2, <2>1, <3>1 DEF PicturePlan, TimersQuiet
  <2>2. v.enterprise = u.enterprise /\ (v.twin = NoAgent <=> u.twin = NoAgent)
    BY <1>1, <1>3 DEF SameAgents
  <2> QED
    BY <1>5, <2>1, <2>2 DEF TimersQuiet
<1>8. OutageShown(v)
  <2>1. CASE u.enterprise = NoAgent
    <3>1. v.colour[Primary] \in {"Edge_Offline", u.colour[Primary]}
      BY <1>2, <1>5, <2>1
    <3>2. u.colour[Primary] \in {"Edge_Crash", "Edge_Offline"}
      BY <1>2, <2>1 DEF PicturePlan, OutageShown
    <3> QED
      BY <1>1, <1>3, <2>1, <3>1, <3>2 DEF OutageShown
  <2>2. CASE u.enterprise # NoAgent
    BY <1>1, <1>3, <1>5, <2>2 DEF OutageShown, SameAgents
  <2> QED
    BY <2>1, <2>2
<1>9. HostPlan(v)
  <2>1. HostPlan(u)
    BY <1>2 DEF PicturePlan
  <2>2. op # "TriggerProcessRestart"
    BY DEF Repaints, NodeHandlers
  <2> QED
    BY <1>1, <1>3, <2>1, <2>2, HostStep DEF NoNewMigration
<1> QED
  BY <1>3, <1>6, <1>7, <1>8, <1>9, BecomesPicture DEF PicturePlan

---------------------------------------------------------------------------
(* The scenarios                                                           *)

\* A scenario starts after the end of the one before, and of its pictures if
\* it is an outage.
LEMMA StarterPicture ==
    ASSUME WellSpaced, IInv, Plan(World), NEW op \in Starters,
           NEW e \in Due(op)
    PROVE  LET w == Dequeue(World, e)
           IN  /\ e.ts = StartTime(op) /\ e.ts \in Nat
               /\ ScenarioEnd(World) + Settle(op) < e.ts
               /\ ScenarioEnd(World) \in Nat
               /\ \A f \in World.queue \ {e} : e.ts <= f.ts /\ f.ts \in Nat
               /\ Clear(w, op)
<1>1. e \in Control(World.queue) /\ e.op = op /\ World \in Worlds
  <2>1. op \notin NodeHandlers \cup {"RecordMetrics"}
    BY DEF Starters, Continuities, NodeHandlers
  <2> QED
    BY <2>1, DequeueControl, DequeuePicture
<1>2. e.ts = StartTime(op) /\ Ahead(World, op)
  BY <1>1 DEF Plan, QueuePlan
<1>3. \A f \in World.queue : f.ts \in Nat
  BY <1>1 DEF Worlds, Events
<1>4. \A f \in World.queue \ {e} : Precedes(e, f)
  BY DEF Due, World
<1>5. e \in World.queue
  BY <1>1 DEF Control
<1>6. \A f \in World.queue \ {e} : e.ts <= f.ts /\ f.ts \in Nat
  BY <1>3, <1>4, <1>5 DEF Precedes
<1> QED
  BY <1>1, <1>2, <1>3, <1>5, <1>6, ScenarioEndType, StarterClear DEF Ahead

\* No timer of the animation is left when an outage begins.
LEMMA NoTimerLeft ==
    ASSUME WellSpaced, PicturesSettle, IInv, Plan(World), PicturePlan(World),
           NEW op \in {"TriggerNodeCrash", "TriggerFullTeardown",
                       "TriggerNetworkPartition"},
           NEW e \in Due(op)
    PROVE  \A f \in Dequeue(World, e).queue : f.op \notin Repaints
<1>1. Dequeue(World, e).queue = World.queue \ {e} /\ World \in Worlds
  BY DequeuePicture
<1> SUFFICES ASSUME NEW f \in World.queue \ {e}, f.op \in Repaints
             PROVE  FALSE
  BY <1>1
<1>2. op \in Starters /\ Settle(op) = 30
  BY DEF Starters, Continuities, Settle
<1>3. /\ ScenarioEnd(World) + 30 < e.ts /\ e.ts <= f.ts
      /\ ScenarioEnd(World) \in Nat /\ e.ts \in Nat
  BY <1>2, StarterPicture
<1>4. Span(f) <= ScenarioEnd(World) + 30
  BY DEF PicturePlan, TimersEnd
<1>5. Span(f) \in Nat /\ f.ts <= Span(f) /\ f.ts \in Nat
  BY <1>1, SpanType
<1> QED
  BY <1>3, <1>4, <1>5

\* The end of the scenario that has just started
LEMMA StartedEnd ==
    ASSUME NEW w, NEW v, NEW op, NEW name, v.scenario.name = name,
           v.scenario.start = w.now, ExpectedDowntime(name) = Lasts(op)
    PROVE  ScenarioEnd(v) = w.now + Lasts(op)
  BY DEF ScenarioEnd

\* A crash or a teardown
LEMMA OutageStep ==
    ASSUME WellSpaced, PicturesSettle, IInv, Plan(World), PicturePlan(World),
           NEW op \in {"TriggerNodeCrash", "TriggerFullTeardown"},
           NEW e \in Due(op), NEW v, Becomes(v), NEW name,
           ExpectedDowntime(name) = Lasts(op), NEW closer \in Closers,
           Awaits(Dequeue(World, e), v, name, closer, Lasts(op)),
           ShowsOutage(Dequeue(World, e), v)
    PROVE  PicturePlan(World)'
<1> DEFINE u == World
           w == Dequeue(World, e)
<1>1. /\ w \in Worlds /\ u \in Worlds /\ w.queue = u.queue \ {e}
      /\ w.now = e.ts /\ e.op = op
      /\ Control(w.queue) = Control(u.queue) \ {e}
  BY DequeuePicture
<1>2. op \in Starters
  BY DEF Starters, Continuities
<1>3. /\ e.ts \in Nat /\ ScenarioEnd(u) \in Nat
      /\ ScenarioEnd(u) + Settle(op) < e.ts
  BY <1>2, StarterPicture
<1>4. \A f \in w.queue : f.op \notin Repaints
  BY NoTimerLeft
<1>5. PicturePlan(u) /\ Lasts(op) \in Nat
  BY <1>2, Times
<1> HIDE DEF u, w
<1>6. v \in Worlds
  BY DEF Awaits, Extends, WorldInv, CoreInv
<1>7. ScenarioEnd(v) = e.ts + Lasts(op)
  BY <1>1, StartedEnd DEF Awaits, w
<1>8. /\ Draws(w, v, {"ShowAgentDisappears"}, 5)
      /\ v.enterprise = NoAgent /\ v.colour[Primary] = "Edge_Crash"
  BY DEF ShowsOutage, w
<1>9. TimersEnd(v)
  <2>1. ScenarioEnd(u) <= ScenarioEnd(v) /\ w.now + 5 <= ScenarioEnd(v) + 30
    BY <1>1, <1>3, <1>5, <1>7 DEF Settle
  <2> QED
    BY <1>1, <1>5, <1>6, <1>8, <2>1, TimersEndStep DEF PicturePlan
<1>10. TimersQuiet(v)
  BY <1>4, <1>8 DEF TimersQuiet, Draws
<1>11. OutageShown(v)
  BY <1>8 DEF OutageShown
<1>12. HostPlan(v)
  <2>1. PICK c : c.op = closer /\ Control(v.queue) = Control(w.queue) \cup {c}
    BY DEF Awaits, w
  <2>2. NoNewMigration(w, v)
    BY <2>1 DEF NoNewMigration, Closers, Restorations
  <2>3. HostPlan(u)
    BY <1>5 DEF PicturePlan
  <2>4. /\ Control(w.queue) \subseteq Control(v.queue)
        /\ v.enterprise = NoAgent
        /\ e.op # "TriggerProcessRestart"
    BY <1>1, <1>8, <2>1
  <2>5. Control(w.queue) = Control(u.queue) \ {e}
    BY <1>1
  <2> QED
    BY <2>2, <2>3, <2>4, <2>5, HostStep
<1> QED
  BY <1>6, <1>9, <1>10, <1>11, <1>12, BecomesPicture DEF PicturePlan

\* A migration or a restart
LEMMA MoveStep ==
    ASSUME WellSpaced, IInv, Plan(World), PicturePlan(World),
           NEW op \in {"TriggerAgentMigration", "TriggerProcessRestart"},
           NEW e \in Due(op), NEW v, Becomes(v), NEW name,
           ExpectedDowntime(name) = Lasts(op),
           Extends(Dequeue(World, e), v), AgentsPresent(v),
           Passes(Dequeue(World, e), v, name),
           Draws(Dequeue(World, e), v, Repaints, 30),
           op = "TriggerProcessRestart" => v.enterprise.host = Primary
    PROVE  PicturePlan(World)'
<1> DEFINE u == World
           w == Dequeue(World, e)
<1>1. /\ w \in Worlds /\ u \in Worlds /\ w.queue = u.queue \ {e}
      /\ e \in u.queue /\ w.now = e.ts /\ e.op = op
      /\ Control(w.queue) = Control(u.queue) \ {e}
  BY DequeuePicture
<1>2. op \in Starters
  BY DEF Starters, Continuities
<1>3. /\ e.ts \in Nat /\ ScenarioEnd(u) \in Nat /\ e.ts = StartTime(op)
      /\ ScenarioEnd(u) + Settle(op) < e.ts
      /\ \A f \in u.queue \ {e} : e.ts <= f.ts /\ f.ts \in Nat
  BY <1>2, StarterPicture
<1>4. PicturePlan(u) /\ Plan(u) /\ Lasts(op) \in Nat
  BY <1>2, Times
<1> HIDE DEF u, w
<1>5. v \in Worlds
  BY DEF Extends, WorldInv, CoreInv
<1>6. ScenarioEnd(v) = e.ts + Lasts(op)
  BY <1>1, StartedEnd DEF Passes, w
<1>7. TimersEnd(v)
  <2>1. ScenarioEnd(u) <= ScenarioEnd(v) /\ w.now + 30 <= ScenarioEnd(v) + 30
    BY <1>1, <1>3, <1>4, <1>6 DEF Settle
  <2> QED
    BY <1>1, <1>4, <1>5, <2>1, TimersEndStep DEF PicturePlan, w
<1>8. TimersQuiet(v)
  BY DEF TimersQuiet, AgentsPresent
<1>9. OutageShown(v)
  BY DEF OutageShown, AgentsPresent
<1>10. Control(v.queue) = Control(u.queue) \ {e}
  BY <1>1 DEF Passes, w
<1>11. CASE op = "TriggerAgentMigration"
  <2>1. e \in Control(u.queue)
    BY <1>1, <1>11 DEF Control, NodeHandlers
  <2>2. RestartPending(u)
    BY <1>1, <1>4, <1>11, <2>1 DEF PicturePlan, HostPlan
  <2>3. RestartPending(v)
    BY <1>1, <1>10, <1>11, <2>2 DEF RestartPending
  <2>4. HostPlan(v)
    BY <2>3 DEF HostPlan
  <2> QED
    BY <1>5, <1>7, <1>8, <1>9, <2>4, BecomesPicture DEF PicturePlan
<1>12. CASE op = "TriggerProcessRestart"
  <2>1. \A f \in Control(v.queue) : f.op # "TriggerAgentMigration"
    <3> SUFFICES ASSUME NEW f \in Control(u.queue) \ {e},
                        f.op = "TriggerAgentMigration"
                 PROVE  FALSE
      BY <1>10
    <3>1. f \in u.queue \ {e}
      BY DEF Control
    <3>2. f.ts = StartTime("TriggerAgentMigration")
      BY <1>4 DEF Plan, QueuePlan, Starters, Continuities
    <3>3. f.ts < e.ts
      BY <1>3, <1>12, <3>2, Timetable, TimelineAssumption DEF WellSpaced
    <3> QED
      BY <1>3, <3>1, <3>3
  <2>2. HostPlan(v)
    BY <1>12, <2>1 DEF HostPlan
  <2> QED
    BY <1>5, <1>7, <1>8, <1>9, <2>2, BecomesPicture DEF PicturePlan
<1> QED
  BY <1>11, <1>12

\* A teardown finds the agent on the primary edge: the restart is over.
LEMMA TeardownHost ==
    ASSUME WellSpaced, IInv, Plan(World), PicturePlan(World),
           NEW e \in Due("TriggerFullTeardown")
    PROVE  Dequeue(World, e).enterprise.host = Primary
<1>1. /\ Dequeue(World, e).enterprise = World.enterprise
      /\ e \in World.queue /\ e.op = "TriggerFullTeardown"
  BY DequeuePicture
<1>2. "TriggerFullTeardown" \in Starters
  BY DEF Starters, Continuities
<1>3. /\ e.ts \in Nat /\ e.ts = StartTime("TriggerFullTeardown")
      /\ \A f \in World.queue \ {e} : e.ts <= f.ts /\ f.ts \in Nat
      /\ World.enterprise # NoAgent
  BY <1>1, <1>2, StarterPicture DEF Clear
<1> SUFFICES ASSUME RestartPending(World) PROVE FALSE
  BY <1>1, <1>3 DEF PicturePlan, HostPlan
<1>4. PICK f \in Control(World.queue) : f.op = "TriggerProcessRestart"
  BY DEF RestartPending
<1>5. f \in World.queue \ {e}
  BY <1>1, <1>4 DEF Control
<1>6. f.ts = StartTime("TriggerProcessRestart")
  BY <1>4 DEF Plan, QueuePlan, Starters, Continuities
<1>7. f.ts < e.ts
  BY <1>3, <1>6, Timetable, TimelineAssumption DEF WellSpaced
<1> QED
  BY <1>3, <1>5, <1>7

\* The duplicates of the baseline, or the partition
LEMMA SplitBrainStep ==
    ASSUME WellSpaced, PicturesSettle, IInv, Plan(World), PicturePlan(World),
           NEW op \in {"RunBaselineFailureScenario",
                       "TriggerNetworkPartition"},
           NEW e \in Due(op), NEW v, Becomes(v), NEW name,
           ExpectedDowntime(name) = Lasts(op),
           Awaits(Dequeue(World, e), v, name, "EndScenario", Lasts(op)),
           Draws(Dequeue(World, e), v, {}, 0),
           v.enterprise = Dequeue(World, e).enterprise,
           \/ /\ op = "RunBaselineFailureScenario"
              /\ SameAgents(Dequeue(World, e), v)
              /\ v.colour[Gnb] = Dequeue(World, e).colour[Gnb]
           \/ /\ op = "TriggerNetworkPartition"
              /\ v.colour[Gnb] = IF Dequeue(World, e).twin # NoAgent
                                 THEN "Twin_Offline"
                                 ELSE Dequeue(World, e).colour[Gnb]
    PROVE  PicturePlan(World)'
<1> DEFINE u == World
           w == Dequeue(World, e)
<1>1. /\ w \in Worlds /\ u \in Worlds /\ w.queue = u.queue \ {e}
      /\ w.now = e.ts /\ e.op = op
      /\ w.enterprise = u.enterprise /\ w.twin = u.twin
      /\ w.colour = u.colour
      /\ Control(w.queue) = Control(u.queue) \ {e}
  BY DequeuePicture
<1>2. op \in Starters
  BY DEF Starters, Continuities
<1>3. /\ e.ts \in Nat /\ ScenarioEnd(u) \in Nat
      /\ ScenarioEnd(u) + Settle(op) < e.ts /\ w.enterprise # NoAgent
  BY <1>2, StarterPicture DEF Clear
<1>4. op = "TriggerNetworkPartition" =>
        \A f \in w.queue : f.op \notin Repaints
  BY NoTimerLeft
<1>5. PicturePlan(u) /\ Lasts(op) \in Nat
  BY <1>2, Times
<1> HIDE DEF u, w
<1>6. v \in Worlds
  BY DEF Awaits, Extends, WorldInv, CoreInv
<1>7. ScenarioEnd(v) = e.ts + Lasts(op)
  BY <1>1, StartedEnd DEF Awaits, w
<1>8. Draws(w, v, {}, 0) /\ v.enterprise = u.enterprise
  BY <1>1 DEF w
<1>9. TimersEnd(v)
  <2>1. ScenarioEnd(u) <= ScenarioEnd(v)
    BY <1>3, <1>5, <1>7 DEF Settle
  <2> QED
    BY <1>1, <1>5, <1>6, <1>8, <2>1, TimersEndStep DEF PicturePlan
<1>10. \A f \in v.queue : f.op \in Repaints => f \in w.queue
  BY <1>8 DEF Draws
<1>11. TimersQuiet(v) /\ OutageShown(v)
  <2>1. CASE op = "RunBaselineFailureScenario"
    <3>1. /\ v.twin = NoAgent <=> u.twin = NoAgent
          /\ v.colour[Gnb] = u.colour[Gnb]
      BY <1>1, <2>1 DEF SameAgents, w
    <3>2. TimersQuiet(v)
      BY <1>1, <1>5, <1>8, <1>10, <3>1 DEF PicturePlan, TimersQuiet
    <3>3. OutageShown(v)
      BY <1>1, <1>3, <1>5, <1>8, <3>1 DEF PicturePlan, OutageShown
    <3> QED
      BY <3>2, <3>3
  <2>2. CASE op = "TriggerNetworkPartition"
    <3>1. TimersQuiet(v)
      BY <1>4, <1>10, <2>2 DEF TimersQuiet
    <3>2. v.colour[Gnb] = IF w.twin # NoAgent THEN "Twin_Offline"
                                              ELSE w.colour[Gnb]
      BY <2>2 DEF w
    <3>3. v.colour[Gnb] = "Twin_Offline"
      BY <1>1, <1>3, <1>5, <3>2 DEF PicturePlan, OutageShown
    <3>4. OutageShown(v)
      BY <1>1, <1>3, <1>8, <3>3 DEF OutageShown
    <3> QED
      BY <3>1, <3>4
  <2> QED
    BY <2>1, <2>2
<1>12. HostPlan(v)
  <2>1. PICK c : /\ c.op = "EndScenario"
                 /\ Control(v.queue) = Control(w.queue) \cup {c}
    BY DEF Awaits, w
  <2>2. NoNewMigration(w, v)
    BY <2>1 DEF NoNewMigration
  <2>3. HostPlan(u)
    BY <1>5 DEF PicturePlan
  <2>4. /\ Control(w.queue) \subseteq Control(v.queue)
        /\ v.enterprise = u.enterprise
        /\ e.op # "TriggerProcessRestart"
    BY <1>1, <1>8, <2>1
  <2>5. Control(w.queue) = Control(u.queue) \ {e}
    BY <1>1
  <2> QED
    BY <2>2, <2>3, <2>4, <2>5, HostStep
<1> QED
  BY <1>6, <1>9, <1>11, <1>12, BecomesPicture DEF PicturePlan

\* A restoration
LEMMA RestoredStep ==
    ASSUME IInv, Plan(World), PicturePlan(World),
           NEW op \in Restorations, NEW e \in Due(op),
           NEW v, Becomes(v), Restores(Dequeue(World, e), v),
           Draws(Dequeue(World, e), v, Repaints, 20),
           v.enterprise.host = Primary
    PROVE  PicturePlan(World)'
<1> DEFINE u == World
           w == Dequeue(World, e)
<1>1. /\ w \in Worlds /\ u \in Worlds /\ w.queue = u.queue \ {e}
      /\ e \in u.queue /\ w.now = e.ts /\ e.op = op
      /\ ScenarioEnd(w) = ScenarioEnd(u)
      /\ Control(w.queue) = Control(u.queue) \ {e}
  BY DequeuePicture
<1>2. PicturePlan(u) /\ Plan(u)
  OBVIOUS
<1> HIDE DEF u, w
<1>3. v \in Worlds
  BY DEF Restores, Extends, WorldInv, CoreInv
<1>4. ScenarioEnd(v) = ScenarioEnd(u)
  BY <1>1 DEF Restores, SameScenario, ScenarioEnd, w
<1>5. w.now = ScenarioEnd(u)
  <2>1. e \in Control(u.queue) /\ e.op \in Closers
    BY <1>1 DEF Control, Closers, Restorations, NodeHandlers
  <2> QED
    BY <1>1, <1>2, <2>1 DEF Plan, CloserPlan
<1>6. TimersEnd(v)
  <2>1. ScenarioEnd(u) <= ScenarioEnd(v) /\ w.now + 20 <= ScenarioEnd(v) + 30
    BY <1>1, <1>4, <1>5, ScenarioEndType
  <2> QED
    BY <1>1, <1>2, <1>3, <2>1, TimersEndStep DEF PicturePlan, w
<1>7. AgentsPresent(v)
  BY DEF Restores
<1>8. TimersQuiet(v) /\ OutageShown(v)
  BY <1>7 DEF TimersQuiet, OutageShown, AgentsPresent
<1>9. HostPlan(v)
  <2>1. e.op # "TriggerProcessRestart"
    BY <1>1 DEF Restorations
  <2>2. Control(v.queue) = Control(w.queue)
    BY DEF Restores, w
  <2> QED
    BY <1>1, <1>2, <2>1, <2>2, HostStep DEF PicturePlan, NoNewMigration
<1> QED
  BY <1>3, <1>6, <1>8, <1>9, BecomesPicture DEF PicturePlan

\* The start of the continuity phase creates both agents anew.
LEMMA ContinuityStep ==
    ASSUME IInv, PicturePlan(World), ContinuityStarts
    PROVE  PicturePlan(World)'
<1>1. PICK e \in Due("StartContinuity") :
        Becomes(ScheduleContinuitySuccessScenarios(
                    InitializeAgents(Dequeue(World, e))))
  BY DEF ContinuityStarts
<1> DEFINE u == World
           w == Dequeue(World, e)
           x == InitializeAgents(w)
           v == ScheduleContinuitySuccessScenarios(x)
<1>2. /\ w \in Worlds /\ u \in Worlds /\ Shaped(w)
      /\ w.queue = u.queue \ {e} /\ e \in u.queue
      /\ ScenarioEnd(w) = ScenarioEnd(u)
  BY DequeuePicture
<1>3. PicturePlan(u) /\ Becomes(v)
  BY <1>1
<1>4. WorldInv(w)
  BY DequeueInv DEF Restorations
<1>5. Draws(w, v, {}, 0) /\ v.enterprise.host = Primary
  BY <1>2, ContinuityDraws
<1> HIDE DEF u, w
<1>6. Creates(w, x)
  BY <1>4, CreateAgentsCreates DEF InitializeAgents, WorldInv
<1> HIDE DEF x
<1>7. WorldInv(x)
  BY <1>6 DEF Creates, Extends
<1>8. /\ Extends(x, v) /\ ContinuityEvents(x, Control(v.queue))
      /\ SameScenario(x, v) /\ SameAgents(x, v)
  BY <1>7, ScheduleContinuityExtends
<1> HIDE DEF v
<1>9. v \in Worlds
  BY <1>8 DEF Extends, WorldInv, CoreInv
<1>10. AgentsPresent(v)
  BY <1>6, <1>8 DEF Creates, SameAgents, AgentsPresent
<1>11. ScenarioEnd(v) = ScenarioEnd(u)
  BY <1>2, <1>6, <1>8 DEF Creates, SameScenario, ScenarioEnd
<1>12. TimersEnd(v)
  <2>1. ScenarioEnd(u) <= ScenarioEnd(v)
    BY <1>2, <1>11, ScenarioEndType
  <2> QED
    BY <1>2, <1>3, <1>5, <1>9, <2>1, TimersEndStep DEF PicturePlan
<1>13. TimersQuiet(v) /\ OutageShown(v)
  BY <1>10 DEF TimersQuiet, OutageShown, AgentsPresent
<1>14. HostPlan(v)
  <2>1. RestartPending(v)
    BY <1>8 DEF ContinuityEvents, RestartPending
  <2> QED
    BY <2>1 DEF HostPlan
<1> QED
  BY <1>3, <1>9, <1>12, <1>13, <1>14, BecomesPicture DEF PicturePlan

LEMMA InitPicture == ASSUME Init PROVE PicturePlan(World)
<1> DEFINE w == World
<1>1. PICK t \in SimTimes : StartsAs(StartWorld(t))
  BY DEF Init
<1>2. /\ AgentsPresent(w) /\ w.scenario.name = << >>
      /\ w.scenario.start = 0 /\ w \in Worlds
  BY InitMainInv DEF World, MainInv, IInv, WorldInv, CoreInv
<1>3. w.queue = InitialEvents(t) /\ w.enterprise.host = Primary
  <2>1. queue = StartWorld(t).queue
        /\ enterprise = StartWorld(t).enterprise
    BY <1>1 DEF StartsAs
  <2> DEFINE x == InitializeAgents(EmptyWorld)
             v == [x EXCEPT !.queue = InitialEvents(t),
                            !.uid = FirstUid + 8 + (t - 1) \div SamplePeriod]
  <2>2. StartWorld(t) = v
    BY DEF StartWorld
  <2>3. Shaped(EmptyWorld)
    BY DEF EmptyWorld, Shaped
  <2>4. Shaped(x) /\ x.enterprise.host = Primary
    BY <2>3, CreateAgentsDraws DEF InitializeAgents, Draws
  <2> HIDE DEF x
  <2>5. v.queue = InitialEvents(t) /\ v.enterprise = x.enterprise
    BY <2>4 DEF Shaped
  <2> HIDE DEF v
  <2> QED
    BY <2>1, <2>2, <2>4, <2>5 DEF World
<1> HIDE DEF w
<1>4. ScenarioEnd(w) = 0
  BY <1>2, DowntimeOf DEF ScenarioEnd
<1>5. \A e \in w.queue :
        /\ e.op \in Repaints => e.ts = 1 /\ e.op = "InitializeNodesDelayed"
        /\ e.op # "TriggerAgentMigration"
  BY <1>3 DEF InitialEvents, Event, Repaints, NodeHandlers
<1>6. TimersEnd(w)
  BY <1>4, <1>5 DEF TimersEnd, Span, Lingers
<1>7. TimersQuiet(w) /\ OutageShown(w)
  BY <1>2 DEF TimersQuiet, OutageShown, AgentsPresent
<1>8. HostPlan(w)
  BY <1>3, <1>5 DEF HostPlan, Control
<1> QED
  BY <1>6, <1>7, <1>8 DEF PicturePlan, w

---------------------------------------------------------------------------
(* Every step keeps the pictures                                           *)

\* An event that keeps the agents and their scenario, and paints nothing
LEMMA KeepsPicture ==
    ASSUME IInv, PicturePlan(World), NEW op, NEW e \in Due(op),
           op # "TriggerProcessRestart",
           NEW v, Becomes(v), Keeps(Dequeue(World, e), v),
           Draws(Dequeue(World, e), v, {}, 0),
           SamePicture(Dequeue(World, e), v)
    PROVE  PicturePlan(World)'
<1> DEFINE w == Dequeue(World, e)
<1>1. Keeps(w, v)
  OBVIOUS
<1> HIDE DEF w
<1>2. /\ v \in Worlds /\ SameScenario(w, v) /\ SameAgents(w, v)
      /\ Control(v.queue) = Control(w.queue)
  BY <1>1, KeepsInv DEF Keeps
<1> QED
  BY <1>2, UnpaintedStep DEF w

LEMMA MainPictures ==
    ASSUME IInv, PicturePlan(World),
           BaselineCaptured \/ PartitionStarts \/ FinalReport
    PROVE  PicturePlan(World)'
<1>1. CASE BaselineCaptured
  <2>1. PICK e \in Due("CaptureBaseline") :
          Becomes([Dequeue(World, e) EXCEPT !.metrics =
                       CaptureBaseline(@, e.ts)])
    BY <1>1 DEF BaselineCaptured
  <2> DEFINE w == Dequeue(World, e)
             v == [w EXCEPT !.metrics = CaptureBaseline(@, e.ts)]
  <2>2. e.ts \in Nat /\ WorldInv(w)
    BY DueEvent, DequeueInv DEF Events, Restorations
  <2>3. Becomes(v) /\ Shaped(w)
    BY <2>1, DequeuePicture
  <2> HIDE DEF w
  <2>4. WorldInv(v) /\ Undisturbed(w, v)
    BY <2>2, CaptureBaselineLeaves
  <2>5. Draws(w, v, {}, 0) /\ SamePicture(w, v)
    BY <2>3 DEF Draws, SamePicture, Shaped
  <2> HIDE DEF v
  <2>6. /\ v \in Worlds /\ SameScenario(w, v) /\ SameAgents(w, v)
        /\ Control(v.queue) = Control(w.queue)
    BY <2>4 DEF Undisturbed, WorldInv, CoreInv
  <2> QED
    BY <2>3, <2>5, <2>6, UnpaintedStep DEF w
<1>2. CASE PartitionStarts
  <2>1. PICK e \in Due("StartPartition") :
          Becomes(ScheduleNetworkPartitionScenario(Dequeue(World, e)))
    BY <1>2 DEF PartitionStarts
  <2> DEFINE w == Dequeue(World, e)
             f == Event(w.now + PartitionAfter, w.uid,
                        "TriggerNetworkPartition", << >>)
             v == Schedule(w, PartitionAfter, "TriggerNetworkPartition",
                           << >>)
  <2>2. WorldInv(w) /\ Shaped(w) /\ Becomes(v)
    BY <2>1, DequeueInv, DequeuePicture
       DEF Restorations, ScheduleNetworkPartitionScenario
  <2> HIDE DEF w
  <2>3. /\ PartitionAfter \in Nat
        /\ "TriggerNetworkPartition" \in LabelHandlers \ {"RecordMetrics"}
        /\ "TriggerNetworkPartition" \notin Repaints
    BY TimelineAssumption DEF LabelHandlers, Repaints, NodeHandlers
  <2>4. Draws(w, v, {}, 0) /\ SamePicture(w, v)
    BY <2>2, <2>3, ScheduleDraws
  <2>5. /\ Plans(w, v, f) /\ Control(v.queue) = Control(w.queue) \cup {f}
        /\ f.op = "TriggerNetworkPartition"
    BY <2>2, <2>3, ScheduleLabelPlans DEF Event
  <2> HIDE DEF f, v
  <2>6. /\ v \in Worlds /\ SameScenario(w, v) /\ SameAgents(w, v)
        /\ Control(w.queue) \subseteq Control(v.queue)
        /\ \A g \in Control(v.queue) \ Control(w.queue) :
                g.op # "TriggerAgentMigration"
    BY <2>5 DEF Plans, Extends, WorldInv, CoreInv
  <2> QED
    BY <2>2, <2>4, <2>6, UnpaintedStep DEF w
<1>3. CASE FinalReport
  <2>1. PICK e \in Due("FinalReport") :
            Becomes(PrintFinalReport(Record(FinalCheck(Dequeue(World, e)),
                                            <<"Final">>)))
    BY <1>3 DEF FinalReport
  <2> DEFINE w == Dequeue(World, e)
             v == PrintFinalReport(Record(FinalCheck(w), <<"Final">>))
  <2>2. Becomes(v) /\ Keeps(w, v) /\ Shaped(w)
    BY <2>1, DequeueInv, FinalReportKeeps, DequeuePicture DEF Restorations
  <2> HIDE DEF w
  <2>3. Draws(w, v, {}, 0) /\ SamePicture(w, v)
    BY <2>2, FinalReportDraws
  <2> HIDE DEF v
  <2> QED
    BY <2>2, <2>3, KeepsPicture DEF w
<1> QED
  BY <1>1, <1>2, <1>3

LEMMA SamplingPictures ==
    ASSUME IInv, PicturePlan(World), DelayedSample \/ DelayedEnd \/ LoopStops
    PROVE  PicturePlan(World)'
<1>1. CASE DelayedSample
  <2>1. PICK e \in Due("RecordMetrics") :
            Becomes(Record(Dequeue(World, e), e.arg))
    BY <1>1 DEF DelayedSample
  <2> DEFINE w == Dequeue(World, e)
             v == Record(w, e.arg)
  <2>2. e.arg \in Labels
    BY DueEvent DEF LabelHandlers
  <2>3. Becomes(v) /\ Keeps(w, v) /\ Shaped(w)
    BY <2>1, <2>2, DequeueInv, RecordKeeps, DequeuePicture DEF Restorations
  <2> HIDE DEF w
  <2>4. Draws(w, v, {}, 0) /\ SamePicture(w, v)
    BY <2>3, BooksDraw
  <2> HIDE DEF v
  <2> QED
    BY <2>3, <2>4, KeepsPicture DEF w
<1>2. CASE DelayedEnd
  <2>1. PICK e \in Due("EndScenario") : Becomes(EndScenario(Dequeue(World, e)))
    BY <1>2 DEF DelayedEnd
  <2> DEFINE w == Dequeue(World, e)
             v == EndScenario(w)
  <2>2. Becomes(v) /\ Ends(w, v) /\ Shaped(w)
    BY <2>1, DequeueInv, EndScenarioEnds, DequeuePicture DEF Restorations
  <2> HIDE DEF w
  <2>3. Draws(w, v, {}, 0) /\ SamePicture(w, v)
    BY <2>2, BooksDraw
  <2> HIDE DEF v
  <2>4. /\ v \in Worlds /\ SameScenario(w, v) /\ SameAgents(w, v)
        /\ Control(v.queue) = Control(w.queue)
    BY <2>2 DEF Ends, Extends, WorldInv, CoreInv
  <2> QED
    BY <2>2, <2>3, <2>4, UnpaintedStep DEF w
<1>3. CASE LoopStops
  <2>1. PICK e \in Due("Stop") : Becomes(StopLoop(Dequeue(World, e)))
    BY <1>3 DEF LoopStops
  <2> DEFINE w == Dequeue(World, e)
             v == StopLoop(w)
  <2>2. Becomes(v) /\ Keeps(w, v) /\ Shaped(w)
    BY <2>1, DequeueInv, StopLoopKeeps, DequeuePicture DEF Restorations
  <2> HIDE DEF w
  <2>3. Draws(w, v, {}, 0) /\ SamePicture(w, v)
    BY <2>2 DEF StopLoop, Draws, SamePicture, Shaped
  <2> HIDE DEF v
  <2> QED
    BY <2>2, <2>3, KeepsPicture DEF w
<1> QED
  BY <1>1, <1>2, <1>3

\* The world a timer of the animation is called in
LEMMA TimerWorld ==
    ASSUME IInv, NEW op \in Repaints, NEW e \in Due(op)
    PROVE  LET w == Dequeue(World, e)
           IN  /\ WorldInv(w) /\ Shaped(w) /\ w \in Worlds
               /\ w.enterprise = enterprise /\ w.colour = colour
               /\ op \in NodeHandlers => e.arg[1] \in Nodes
<1>1. op \notin Restorations
  BY DEF Repaints, NodeHandlers, Restorations
<1> QED
  BY <1>1, DequeueInv, DequeuePicture, DequeueCore, DueEvent

\* A timer that paints a node of the colour c
LEMMA PaintPicture ==
    ASSUME IInv, PicturePlan(World), NEW op \in NodeHandlers,
           NEW e \in Due(op), NEW v, Becomes(v),
           NEW c \in Colours \ {"Verification_Success"},
           op = "ShowAgentDisappears" => c = "Edge_Offline",
           \/ v = Paint(Dequeue(World, e), {e.arg[1]}, c)
           \/ op # "ShowAgentDisappears" /\ v = Dequeue(World, e)
    PROVE  PicturePlan(World)'
<1> DEFINE w   == Dequeue(World, e)
           p   == Paint(w, {e.arg[1]}, c)
           ops == IF enterprise = NoAgent THEN {} ELSE {"ResetColours"}
<1>1. op \in Repaints
  BY DEF Repaints
<1>2. /\ WorldInv(w) /\ Shaped(w) /\ w.enterprise = enterprise
      /\ w.colour = colour
  BY <1>1, TimerWorld
<1>3. v = p \/ (op # "ShowAgentDisappears" /\ v = w)
  OBVIOUS
<1> HIDE DEF w, ops
<1>4. Keeps(w, p) /\ Keeps(w, w)
  BY <1>2, PaintKeeps, KeepsSelf
<1>5. /\ Draws(w, p, ops, Lingers(op)) /\ p.enterprise = w.enterprise
      /\ p.colour[Primary] \in {c, w.colour[Primary]}
  <2>1. Primary \in Nodes
    BY DEF Nodes
  <2> QED
    BY <1>2, <2>1, PaintDraws
<1>6. Draws(w, w, ops, Lingers(op))
  BY <1>2 DEF Draws
<1> HIDE DEF p
<1>7. Keeps(w, v) /\ v.enterprise = w.enterprise
      /\ Draws(w, v, ops, Lingers(op))
  BY <1>3, <1>4, <1>5, <1>6
<1>8. op = "ShowAgentDisappears" =>
        v.colour[Primary] \in {"Edge_Offline", colour[Primary]}
  BY <1>2, <1>3, <1>5
<1> QED
  BY <1>1, <1>7, <1>8, PaintedStep DEF w, ops

LEMMA TimerPictures ==
    ASSUME IInv, PicturePlan(World),
           \/ NodesInitialized \/ AgentDisappears \/ AgentReappears
           \/ MigratedAgentAppears \/ VerificationShown \/ ColoursReset
    PROVE  PicturePlan(World)'
<1> DEFINE ops == IF enterprise = NoAgent THEN {} ELSE {"ResetColours"}
<1>0. /\ {"Edge_Offline", "Edge_Reappeared", "gNB_Normal", "Edge_Normal"}
            \subseteq Colours \ {"Verification_Success"}
      /\ {"ShowAgentDisappears", "ShowAgentReappears", "ShowMigratedAgent",
          "ShowVerified", "ResetColours"} \subseteq NodeHandlers
      /\ NodeHandlers \cup {"InitializeNodesDelayed"} \subseteq Repaints
      /\ Gnb \in Nodes /\ Primary \in Nodes /\ Secondary \in Nodes
  BY DEF Colours, NodeHandlers, Repaints, Nodes
<1> HIDE DEF ops
<1>1. CASE NodesInitialized
  <2>1. PICK e \in Due("InitializeNodesDelayed") :
            Becomes(InitializeNodesDelayed(Dequeue(World, e)))
    BY <1>1 DEF NodesInitialized
  <2> DEFINE w == Dequeue(World, e)
             p == Paint(w, {Gnb}, "gNB_Normal")
             q == Paint(p, {Primary}, "Edge_Normal")
             v == Paint(q, {Secondary}, "Edge_Offline")
             d == Lingers("InitializeNodesDelayed")
  <2>2. WorldInv(w) /\ Shaped(w) /\ w.enterprise = enterprise
    BY <1>0, TimerWorld
  <2>3. Becomes(v) /\ InitializeNodesDelayed(w) = v
    BY <2>1 DEF InitializeNodesDelayed
  <2> HIDE DEF w, d
  <2>4. Keeps(w, v)
    BY <2>2, <2>3, InitializeNodesKeeps
  <2>5. Draws(w, p, ops, d) /\ p.enterprise = w.enterprise
    BY <1>0, <2>2, PaintDraws
  <2> HIDE DEF p
  <2>6. Draws(p, q, ops, d) /\ q.enterprise = p.enterprise
    <3>1. Shaped(p)
      BY <2>5 DEF Draws
    <3> QED
      BY <1>0, <3>1, PaintDraws
  <2> HIDE DEF q
  <2>7. Draws(q, v, ops, d) /\ v.enterprise = q.enterprise
    <3>1. Shaped(q)
      BY <2>6 DEF Draws
    <3> QED
      BY <1>0, <3>1, PaintDraws
  <2> HIDE DEF v
  <2>8. Draws(w, v, ops, d) /\ v.enterprise = w.enterprise
    BY <2>5, <2>6, <2>7, DrawsTrans
  <2> QED
    BY <1>0, <2>3, <2>4, <2>8, PaintedStep DEF w, d, ops
<1>2. CASE AgentDisappears
  <2>1. PICK e \in Due("ShowAgentDisappears") :
            Becomes(Paint(Dequeue(World, e), {e.arg[1]}, "Edge_Offline"))
    BY <1>2 DEF AgentDisappears
  <2> QED
    BY <1>0, <2>1, PaintPicture
<1>3. CASE AgentReappears
  <2>1. PICK e \in Due("ShowAgentReappears") :
            Becomes(Paint(Dequeue(World, e), {e.arg[1]}, "Edge_Reappeared"))
    BY <1>3 DEF AgentReappears
  <2> QED
    BY <1>0, <2>1, PaintPicture
<1>4. CASE MigratedAgentAppears
  <2>1. PICK e \in Due("ShowMigratedAgent") :
            LET w == Dequeue(World, e)
            IN  Becomes(IF w.enterprise # NoAgent
                        THEN Paint(w, {e.arg[1]}, "Edge_Reappeared") ELSE w)
    BY <1>4 DEF MigratedAgentAppears
  <2> DEFINE w == Dequeue(World, e)
             p == Paint(w, {e.arg[1]}, "Edge_Reappeared")
             v == IF w.enterprise # NoAgent THEN p ELSE w
  <2>2. Becomes(v) /\ (v = p \/ v = w)
    BY <2>1
  <2> HIDE DEF v
  <2> QED
    BY <1>0, <2>2, PaintPicture
<1>5. CASE VerificationShown
  <2>1. PICK e \in Due("ShowVerified") :
            LET w == Dequeue(World, e)
            IN  Becomes(IF AgentsPresent(w)
                        THEN ShowIdentityVerificationSuccess(w, e.arg[1])
                        ELSE w)
    BY <1>5 DEF VerificationShown
  <2> DEFINE w == Dequeue(World, e)
             p == ShowIdentityVerificationSuccess(w, e.arg[1])
             v == IF AgentsPresent(w) THEN p ELSE w
             d == Lingers("ShowVerified")
  <2>2. /\ WorldInv(w) /\ Shaped(w) /\ w.enterprise = enterprise
        /\ e.arg[1] \in Nodes
    BY <1>0, TimerWorld
  <2>3. Becomes(v)
    BY <2>1
  <2>4. d = 20
    BY DEF Lingers
  <2> HIDE DEF w, d
  <2>5. Keeps(w, v)
    BY <2>2, ShowVerificationKeeps, KeepsSelf
  <2>6. Draws(w, v, ops, d) /\ v.enterprise = w.enterprise
    <3>1. CASE AgentsPresent(w)
      <4>1. "ResetColours" \in ops
        BY <2>2, <3>1 DEF AgentsPresent, ops
      <4> QED
        BY <2>2, <2>4, <3>1, <4>1, ShowVerificationDraws
    <3>2. CASE ~AgentsPresent(w)
      BY <2>2, <3>2 DEF Draws
    <3> QED
      BY <3>1, <3>2
  <2> HIDE DEF v
  <2> QED
    BY <1>0, <2>3, <2>5, <2>6, PaintedStep DEF w, d, ops
<1>6. CASE ColoursReset
  <2>1. PICK e \in Due("ResetColours") :
            Becomes(ResetColours(Dequeue(World, e), e.arg[1]))
    BY <1>6 DEF ColoursReset
  <2> DEFINE w == Dequeue(World, e)
             p == Paint(w, {Gnb}, "gNB_Normal")
             v == Paint(p, {e.arg[1]}, "Edge_Normal")
             d == Lingers("ResetColours")
  <2>2. WorldInv(w) /\ Shaped(w) /\ w.enterprise = enterprise
    BY <1>0, TimerWorld
  <2>3. Becomes(v)
    BY <2>1 DEF ResetColours
  <2> HIDE DEF w, d
  <2>4. /\ Keeps(w, p) /\ Draws(w, p, ops, d)
        /\ p.enterprise = w.enterprise
    <3>1. /\ "gNB_Normal" \in Colours \ {"Verification_Success"}
          /\ Gnb \in Nodes
      BY <1>0
    <3>2. Keeps(w, p)
      BY <2>2, <3>1, PaintKeeps
    <3>3. Draws(w, p, ops, d) /\ p.enterprise = w.enterprise
      BY <2>2, <3>1, PaintDraws
    <3> QED
      BY <3>2, <3>3
  <2> HIDE DEF p
  <2>5. /\ Keeps(p, v) /\ Draws(p, v, ops, d)
        /\ v.enterprise = p.enterprise
    <3>1. Shaped(p) /\ WorldInv(p)
      BY <2>4, KeepsInv DEF Draws
    <3>2. /\ "Edge_Normal" \in Colours \ {"Verification_Success"}
          /\ Gnb \in Nodes
      BY <1>0
    <3>3. Keeps(p, v)
      BY <3>1, <3>2, PaintKeeps
    <3>4. Draws(p, v, ops, d) /\ v.enterprise = p.enterprise
      BY <3>1, <3>2, PaintDraws
    <3> QED
      BY <3>3, <3>4
  <2> HIDE DEF v
  <2>6. /\ Keeps(w, v) /\ Draws(w, v, ops, d)
        /\ v.enterprise = w.enterprise
    BY <2>4, <2>5, KeepsTrans, DrawsTrans
  <2> QED
    BY <1>0, <2>3, <2>6, PaintedStep DEF w, d, ops
<1> QED
  BY <1>1, <1>2, <1>3, <1>4, <1>5, <1>6

LEMMA ScenarioPictures ==
    ASSUME WellSpaced, PicturesSettle, IInv, Plan(World), PicturePlan(World),
           \/ BaselineFailure \/ NodeCrash \/ AgentMigration
           \/ ProcessRestart \/ FullTeardown \/ NetworkPartition
    PROVE  PicturePlan(World)'
<1>0. /\ {"RunBaselineFailureScenario", "TriggerNodeCrash",
          "TriggerAgentMigration", "TriggerProcessRestart",
          "TriggerFullTeardown", "TriggerNetworkPartition"} \subseteq Starters
      /\ {"TriggerNodeCrash", "TriggerAgentMigration",
          "TriggerProcessRestart", "TriggerFullTeardown"}
            \subseteq Continuities
      /\ {"RecoverFromCrash", "RedeploySystem"} \subseteq Closers
  BY DEF Starters, Continuities, Closers, Restorations
<1>1. CASE BaselineFailure
  <2>1. PICK e \in Due("RunBaselineFailureScenario") :
            Becomes(RunBaselineFailureScenario(Dequeue(World, e)))
    BY <1>1 DEF BaselineFailure
  <2> DEFINE w == Dequeue(World, e)
             v == RunBaselineFailureScenario(w)
  <2>2. WorldInv(w) /\ Shaped(w) /\ Becomes(v)
    BY <1>0, <2>1, StarterWorld, DequeuePicture
  <2> HIDE DEF w
  <2>3. /\ Awaits(w, v, <<"Baseline", "Failure">>, "EndScenario",
                 Lasts("RunBaselineFailureScenario"))
        /\ SameAgents(w, v)
    BY <2>2, BaselineAwaits, Timetable
  <2>4. /\ Draws(w, v, {}, 0) /\ v.enterprise = w.enterprise
        /\ v.colour[Gnb] = w.colour[Gnb]
    BY <2>2, BaselineDraws
  <2> HIDE DEF v
  <2> QED
    BY <2>2, <2>3, <2>4, DowntimeOf, SplitBrainStep DEF w
<1>2. CASE NodeCrash
  <2>1. PICK e \in Due("TriggerNodeCrash") :
            Becomes(TriggerNodeCrash(Dequeue(World, e)))
    BY <1>2 DEF NodeCrash
  <2> DEFINE w == Dequeue(World, e)
             v == TriggerNodeCrash(w)
  <2>2. /\ WorldInv(w) /\ Clear(w, "TriggerNodeCrash") /\ Shaped(w)
        /\ Becomes(v)
    BY <1>0, <2>1, StarterWorld, DequeuePicture
  <2> HIDE DEF w
  <2>3. Awaits(w, v, <<"Node", "Crash">>, "RecoverFromCrash",
               Lasts("TriggerNodeCrash"))
    BY <2>2, NodeCrashDestroys, Timetable DEF Clear
  <2>4. ShowsOutage(w, v)
    BY <2>2, NodeCrashDraws
  <2> HIDE DEF v
  <2> QED
    BY <1>0, <2>2, <2>3, <2>4, DowntimeOf, OutageStep DEF w
<1>3. CASE AgentMigration
  <2>1. PICK e \in Due("TriggerAgentMigration") :
            Becomes(TriggerAgentMigration(Dequeue(World, e)))
    BY <1>3 DEF AgentMigration
  <2> DEFINE w == Dequeue(World, e)
             v == TriggerAgentMigration(w)
  <2>2. /\ WorldInv(w) /\ AgentsPresent(w) /\ Shaped(w) /\ Becomes(v)
    BY <1>0, <2>1, StarterWorld, DequeuePicture DEF Clear
  <2> HIDE DEF w
  <2>3. /\ Extends(w, v) /\ AgentsPresent(v)
        /\ Passes(w, v, <<"Agent", "Migration">>)
    BY <2>2, MigrationPasses
  <2>4. Draws(w, v, Repaints, 30)
    BY <2>2, MigrationDraws
  <2> HIDE DEF v
  <2> QED
    BY <2>2, <2>3, <2>4, DowntimeOf, MoveStep DEF w
<1>4. CASE ProcessRestart
  <2>1. PICK e \in Due("TriggerProcessRestart") :
            Becomes(TriggerProcessRestart(Dequeue(World, e)))
    BY <1>4 DEF ProcessRestart
  <2> DEFINE w == Dequeue(World, e)
             v == TriggerProcessRestart(w)
  <2>2. /\ WorldInv(w) /\ AgentsPresent(w) /\ Shaped(w) /\ Becomes(v)
    BY <1>0, <2>1, StarterWorld, DequeuePicture DEF Clear
  <2> HIDE DEF w
  <2>3. /\ Extends(w, v) /\ AgentsPresent(v)
        /\ Passes(w, v, <<"Process", "Restart">>)
    BY <2>2, ProcessRestartPasses
  <2>4. Draws(w, v, Repaints, 30) /\ v.enterprise.host = Primary
    BY <2>2, ProcessRestartDraws
  <2> HIDE DEF v
  <2> QED
    BY <2>2, <2>3, <2>4, DowntimeOf, MoveStep DEF w
<1>5. CASE FullTeardown
  <2>1. PICK e \in Due("TriggerFullTeardown") :
            Becomes(TriggerFullTeardown(Dequeue(World, e)))
    BY <1>5 DEF FullTeardown
  <2> DEFINE w == Dequeue(World, e)
             v == TriggerFullTeardown(w)
  <2>2. /\ WorldInv(w) /\ Clear(w, "TriggerFullTeardown") /\ Shaped(w)
        /\ AgentsPresent(w) /\ Becomes(v) /\ w.enterprise.host = Primary
    BY <1>0, <2>1, StarterWorld, DequeuePicture, TeardownHost DEF Clear
  <2> HIDE DEF w
  <2>3. Awaits(w, v, <<"Full", "Teardown">>, "RedeploySystem",
               Lasts("TriggerFullTeardown"))
    BY <2>2, FullTeardownDestroys, Timetable DEF Clear
  <2>4. ShowsOutage(w, v)
    BY <2>2, FullTeardownDraws
  <2> HIDE DEF v
  <2> QED
    BY <1>0, <2>2, <2>3, <2>4, DowntimeOf, OutageStep DEF w
<1>6. CASE NetworkPartition
  <2>1. PICK e \in Due("TriggerNetworkPartition") :
            Becomes(TriggerNetworkPartition(Dequeue(World, e)))
    BY <1>6 DEF NetworkPartition
  <2> DEFINE w == Dequeue(World, e)
             v == TriggerNetworkPartition(w)
  <2>2. WorldInv(w) /\ Shaped(w) /\ Becomes(v)
    BY <1>0, <2>1, StarterWorld, DequeuePicture
  <2> HIDE DEF w
  <2>3. Awaits(w, v, <<"Network", "Partition">>, "EndScenario",
               Lasts("TriggerNetworkPartition"))
    BY <2>2, NetworkPartitionAwaits, Timetable
  <2>4. /\ Draws(w, v, {}, 0) /\ v.enterprise = w.enterprise
        /\ v.colour[Gnb] = IF w.twin # NoAgent THEN "Twin_Offline"
                                               ELSE w.colour[Gnb]
    BY <2>2, NetworkPartitionDraws
  <2> HIDE DEF v
  <2> QED
    BY <2>2, <2>3, <2>4, DowntimeOf, SplitBrainStep DEF w
<1> QED
  BY <1>1, <1>2, <1>3, <1>4, <1>5, <1>6

LEMMA RestorationPictures ==
    ASSUME IInv, Plan(World), PicturePlan(World),
           CrashRecovery \/ Redeployment
    PROVE  PicturePlan(World)'
<1>0. /\ "RecoverFromCrash" \in Restorations
      /\ "RedeploySystem" \in Restorations
  BY DEF Restorations
<1>1. CASE CrashRecovery
  <2>1. PICK e \in Due("RecoverFromCrash") :
            Becomes(RecoverFromCrash(Dequeue(World, e)))
    BY <1>1 DEF CrashRecovery
  <2> DEFINE w == Dequeue(World, e)
             v == RecoverFromCrash(w)
  <2>2. CoreInv(w) /\ Shaped(w) /\ Becomes(v)
    BY <2>1, DequeueCore, DequeuePicture
  <2> HIDE DEF w
  <2>3. /\ Restores(w, v) /\ Draws(w, v, Repaints, 20)
        /\ v.enterprise.host = Primary
    BY <2>2, RecoverFromCrashRestores, RestoreDraws DEF RecoverFromCrash
  <2> HIDE DEF v
  <2> QED
    BY <1>0, <2>2, <2>3, RestoredStep DEF w
<1>2. CASE Redeployment
  <2>1. PICK e \in Due("RedeploySystem") :
            Becomes(RedeploySystem(Dequeue(World, e)))
    BY <1>2 DEF Redeployment
  <2> DEFINE w == Dequeue(World, e)
             v == RedeploySystem(w)
  <2>2. CoreInv(w) /\ Shaped(w) /\ Becomes(v)
    BY <2>1, DequeueCore, DequeuePicture
  <2> HIDE DEF w
  <2>3. /\ Restores(w, v) /\ Draws(w, v, Repaints, 20)
        /\ v.enterprise.host = Primary
    BY <2>2, RedeploySystemRestores, RestoreDraws DEF RedeploySystem
  <2> HIDE DEF v
  <2> QED
    BY <1>0, <2>2, <2>3, RestoredStep DEF w
<1> QED
  BY <1>1, <1>2

LEMMA StepPicture ==
    ASSUME WellSpaced, PicturesSettle, IInv, Plan(World), PicturePlan(World),
           [Next]_vars
    PROVE  PicturePlan(World)'
<1>1. CASE UNCHANGED vars
  BY <1>1 DEF vars, simulatorVars, managerVars, World
<1>2. CASE Next
  <2>1. CASE Finished
    BY <1>1, <2>1 DEF Finished
  <2> QED
    BY <1>2, <2>1, MainPictures, ContinuityStep, TimerPictures,
       SamplingPictures, ScenarioPictures, RestorationPictures
       DEF Next, ManagerNext
<1> QED
  BY <1>1, <1>2

---------------------------------------------------------------------------
(* Sums of the verifications the summaries report                          *)

\* Induction on the naturals, for a set of them
LEMMA NatSet ==
    ASSUME NEW S, 0 \in S, \A n \in Nat : n \in S => n + 1 \in S
    PROVE  Nat \subseteq S
<1> DEFINE R == OpToRel(<, Nat)
           T == Nat \ S
<1> SUFFICES ASSUME T # {} PROVE FALSE
  OBVIOUS
<1>1. IsWellFoundedOn(R, Nat) /\ T \subseteq Nat
  BY NatLessThanWellFounded
<1>2. \A x, y \in Nat : y < x => <<y, x>> \in R
  BY DEF OpToRel
<1> HIDE DEF R
<1>3. \E x \in T : \A y \in T : ~ (<<y, x>> \in R)
  BY <1>1, WFMin
<1>4. PICK x \in T : \A y \in T : ~ (<<y, x>> \in R)
  BY <1>3
<1>5. x # 0 /\ x - 1 \in Nat /\ x - 1 < x
  OBVIOUS
<1>6. x - 1 \in S
  BY <1>2, <1>4, <1>5
<1> QED
  BY <1>5, <1>6

\* t[i] is what the first i summaries of s add up to.
IsSum(t, s, n) ==
    t = [i \in 0 .. n |-> IF i = 0 THEN 0 ELSE t[i - 1] + s[i].events]

LEMMA SumExists ==
    ASSUME NEW s, NEW n \in Nat PROVE \E t : IsSum(t, s, n)
<1> DEFINE S == {k \in Nat : \E t : IsSum(t, s, k)}
<1>1. 0 \in S
  <2> DEFINE t == [i \in 0 .. 0 |-> 0]
  <2>1. IsSum(t, s, 0)
    BY DEF IsSum
  <2> QED
    BY <2>1
<1>2. ASSUME NEW k \in Nat, k \in S PROVE k + 1 \in S
  <2>1. PICK t : IsSum(t, s, k)
    BY <1>2
  <2> DEFINE next(f, i) == IF i = 0 THEN 0 ELSE f[i - 1] + s[i].events
             u == [i \in 0 .. k + 1 |-> next(t, i)]
  <2>2. \A i \in 0 .. k : t[i] = next(t, i)
    BY <2>1 DEF IsSum
  <2>3. \A i \in 0 .. k : u[i] = t[i]
    BY <2>2
  <2>4. \A i \in 0 .. k + 1 : i # 0 => i - 1 \in 0 .. k
    OBVIOUS
  <2>5. \A i \in 0 .. k + 1 : next(t, i) = next(u, i)
    BY <2>3, <2>4
  <2>6. u = [i \in 0 .. k + 1 |-> next(u, i)]
    BY <2>5
  <2>7. IsSum(u, s, k + 1)
    BY <2>6 DEF IsSum
  <2> QED
    BY <2>7
<1> HIDE DEF S
<1>3. n \in S
  BY <1>1, <1>2, NatSet
<1> QED
  BY <1>3 DEF S

Prefix(s, r, n) == \A i \in 1 .. n : r[i] = s[i]

\* It depends on those summaries only.
LEMMA SumUnique ==
    ASSUME NEW s, NEW r, NEW t, NEW u, NEW n \in Nat, NEW m \in Nat, n <= m,
           IsSum(t, s, n), IsSum(u, r, m), Prefix(s, r, n)
    PROVE  t[n] = u[n]
<1> DEFINE S == {k \in Nat : k <= n => t[k] = u[k]}
<1>1. 0 \in S
  BY DEF IsSum
<1>2. ASSUME NEW k \in Nat, k \in S PROVE k + 1 \in S
  <2> SUFFICES ASSUME k + 1 <= n PROVE t[k + 1] = u[k + 1]
    OBVIOUS
  <2>1. t[k + 1] = t[k] + s[k + 1].events
    BY DEF IsSum
  <2>2. u[k + 1] = u[k] + r[k + 1].events
    BY DEF IsSum
  <2> QED
    BY <1>2, <2>1, <2>2 DEF Prefix
<1> HIDE DEF S
<1>3. n \in S
  BY <1>1, <1>2, NatSet
<1> QED
  BY <1>3 DEF S

LEMMA ReportedIs ==
    ASSUME NEW s, NEW n \in Nat, Len(s) = n
    PROVE  \E t : IsSum(t, s, n) /\ Reported(s) = t[n]
<1>1. \E t : IsSum(t, s, n)
  BY SumExists
<1> QED
  BY <1>1 DEF Reported, IsSum

LEMMA ReportedNone == Reported(<< >>) = 0
<1>1. Len(<< >>) = 0
  OBVIOUS
<1> QED
  BY <1>1, ReportedIs DEF IsSum

\* One summary more adds its events.
LEMMA ReportedMore ==
    ASSUME NEW R, NEW s \in Seq(R), NEW x
    PROVE  Reported(Append(s, x)) = Reported(s) + x.events
<1> DEFINE r == Append(s, x)
           n == Len(s)
<1>1. /\ n \in Nat /\ Len(r) = n + 1
      /\ Prefix(s, r, n) /\ r[n + 1] = x
  <2>1. s \in Seq(R \cup {x})
    OBVIOUS
  <2> QED
    BY <2>1 DEF Prefix
<1> HIDE DEF r, n
<1>2. PICK t : IsSum(t, s, n) /\ Reported(s) = t[n]
  BY <1>1, ReportedIs DEF n
<1>3. PICK u : IsSum(u, r, n + 1) /\ Reported(r) = u[n + 1]
  <2>1. n + 1 \in Nat /\ Len(r) = n + 1
    BY <1>1
  <2> QED
    BY <2>1, ReportedIs
<1>4. t[n] = u[n]
  <2>1. n + 1 \in Nat /\ n <= n + 1
    BY <1>1
  <2> QED
    BY <1>1, <1>2, <1>3, <2>1, SumUnique
<1>5. u[n + 1] = u[n] + r[n + 1].events
  BY <1>1, <1>3 DEF IsSum
<1> QED
  BY <1>1, <1>2, <1>3, <1>4, <1>5 DEF r, n

---------------------------------------------------------------------------
(* The books a handler keeps: verifications counted, and summaries written *)

\* The fields of a world that has books
Ledger(w) ==
    /\ DOMAIN w = {"now", "queue", "uid", "running", "enterprise", "twin",
                   "recoveryScheduled", "scenario", "metrics", "colour",
                   "report"}
    /\ DOMAIN w.scenario = {"name", "start", "events"}
    /\ DOMAIN w.metrics = {"samples", "summaries", "baseline", "total",
                           "lastResult", "lastSampleTime"}

\* No call adds an event that ends a scenario, but those that start one.
NoCloser(w, v) == \A e \in v.queue \ w.queue : e.op \notin Closers

SameReports(w, v) ==
    Ledger(v) /\ v.metrics.summaries = w.metrics.summaries /\ v.report = w.report

\* A call that counts nothing, that counts one verification for the scenario,
\* that starts a scenario, that writes its summary
SameBooks(w, v) ==
    /\ SameReports(w, v) /\ NoCloser(w, v)
    /\ v.metrics.total = w.metrics.total
    /\ v.scenario.events = w.scenario.events
Counts(w, v) ==
    /\ SameReports(w, v) /\ NoCloser(w, v)
    /\ v.metrics.total = w.metrics.total + 1
    /\ v.scenario.events = w.scenario.events + 1
Opens(w, v) ==
    /\ SameReports(w, v) /\ v.metrics.total = w.metrics.total
    /\ v.scenario.events = 0
\* n verifications counted since the scenario started, and its summary
Accounts(w, v, n) ==
    /\ Ledger(v) /\ NoCloser(w, v) /\ v.report = w.report
    /\ v.metrics.total = w.metrics.total + n
    /\ \E s : /\ s.events = n
              /\ v.metrics.summaries = Append(w.metrics.summaries, s)

LEMMA WorldLedger == ASSUME NEW w \in Worlds PROVE Ledger(w)
<1>1. w.scenario \in [name : Labels, start : Nat, events : Nat]
      /\ w.metrics \in Collectors
  BY DEF Worlds
<1>2. DOMAIN w = {"now", "queue", "uid", "running", "enterprise", "twin",
                   "recoveryScheduled", "scenario", "metrics", "colour",
                   "report"}
  BY DEF Worlds
<1> QED
  BY <1>1, <1>2 DEF Ledger, Collectors

LEMMA SameTrans ==
    ASSUME NEW w, NEW v, NEW x, SameBooks(v, x)
    PROVE  /\ SameBooks(w, v) => SameBooks(w, x)
           /\ Counts(w, v) => Counts(w, x)
           /\ Opens(w, v) => Opens(w, x)
  BY DEF SameBooks, SameReports, NoCloser, Counts, Opens

LEMMA SameLedger ==
    ASSUME NEW w, NEW v, SameBooks(w, v) \/ Counts(w, v) \/ Opens(w, v)
    PROVE  Ledger(v)
  BY DEF SameBooks, SameReports, Counts, Opens

LEMMA ScheduleBooks ==
    ASSUME NEW w, Ledger(w), NEW delay, NEW op, NEW arg
    PROVE  LET v == Schedule(w, delay, op, arg)
           IN  /\ op \notin Closers => SameBooks(w, v)
               /\ \A x : Opens(x, w) => Opens(x, v)
<1> DEFINE v == Schedule(w, delay, op, arg)
           e == Event(w.now + delay, w.uid, op, arg)
<1>1. /\ Ledger(v) /\ v.queue = w.queue \cup {e}
      /\ v.metrics = w.metrics /\ v.report = w.report
      /\ v.scenario = w.scenario
  BY DEF Ledger, Schedule
<1>2. e.op = op
  BY DEF Event
<1> HIDE DEF v, e
<1>3. op \notin Closers => SameBooks(w, v)
  BY <1>1, <1>2 DEF SameBooks, SameReports, NoCloser
<1>4. \A x : Opens(x, w) => Opens(x, v)
  BY <1>1 DEF Opens, SameReports
<1> QED
  BY <1>3, <1>4 DEF v

LEMMA PaintBooks ==
    ASSUME NEW w, Ledger(w), NEW nodes, NEW c
    PROVE  SameBooks(w, Paint(w, nodes, c))
  BY DEF Ledger, Paint, SameBooks, SameReports, NoCloser

LEMMA RecordBooks ==
    ASSUME NEW w, Ledger(w), NEW label
    PROVE  SameBooks(w, Record(w, label))
  BY DEF Ledger, Record, RecordMetrics, SameBooks, SameReports, NoCloser

LEMMA AgentsBooks ==
    ASSUME NEW w, Ledger(w), NEW a, NEW t, NEW f
    PROVE  /\ SameBooks(w, [w EXCEPT !.enterprise = a])
           /\ SameBooks(w, [w EXCEPT !.twin = t])
           /\ SameBooks(w, [w EXCEPT !.enterprise = a, !.twin = t])
           /\ SameBooks(w, [w EXCEPT !.twin = t, !.enterprise = a])
           /\ SameBooks(w, [w EXCEPT !.recoveryScheduled = f])
  BY DEF Ledger, SameBooks, SameReports, NoCloser

LEMMA CreateBooks ==
    ASSUME NEW w, Ledger(w)
    PROVE  SameBooks(w, CreateAgents(w)) /\ SameBooks(w, ClearFlag(w))
  BY AgentsBooks DEF CreateAgents, ClearFlag

LEMMA StartBooks ==
    ASSUME NEW w, Ledger(w), NEW name
    PROVE  LET v == StartScenario(w, name)
           IN  /\ Opens(w, v) /\ NoCloser(w, v)
               /\ v.enterprise = w.enterprise /\ v.twin = w.twin
  BY DEF Ledger, StartScenario, Opens, SameReports, NoCloser

LEMMA BeginBooks ==
    ASSUME NEW w, Ledger(w), NEW name, AgentsPresent(w)
    PROVE  LET v == Begin(w, name)
           IN  Opens(w, v) /\ NoCloser(w, v) /\ AgentsPresent(v)
<1> DEFINE v == StartScenario(w, name)
<1>1. /\ Opens(w, v) /\ NoCloser(w, v)
      /\ v.enterprise = w.enterprise /\ v.twin = w.twin
  BY StartBooks
<1> HIDE DEF v
<1>2. AgentsPresent(v)
  BY <1>1 DEF AgentsPresent
<1>3. Begin(w, name) = v
  BY <1>2 DEF Begin, EnsureAgentsPresent, v
<1> QED
  BY <1>1, <1>2, <1>3

LEMMA VerifyBooks ==
    ASSUME NEW w, Ledger(w)
    PROVE  Counts(w, VerifyInScenario(w))
  BY DEF Ledger, VerifyInScenario, VerifyAgentContinuity,
         IncVerificationEvents, Counts, SameReports, NoCloser

\* A summary takes the scenario's count.
LEMMA EndBooks ==
    ASSUME NEW w, Ledger(w)
    PROVE  LET v == EndScenario(w)
           IN  /\ Ledger(v) /\ v.report = w.report /\ v.queue = w.queue
               /\ v.metrics.total = w.metrics.total
               /\ \E s : /\ s.events = w.scenario.events
                         /\ v.metrics.summaries
                              = Append(w.metrics.summaries, s)
<1> DEFINE downtime == IF w.scenario.start > 0
                       THEN w.now - w.scenario.start ELSE 0
           c == AddScenarioSummary(w.metrics, w.scenario.name, downtime,
                                   w.scenario.events)
           averaged == {i \in DOMAIN w.metrics.samples :
                          Mentions(w.metrics.samples[i].label, w.scenario.name)}
           s == [name |-> w.scenario.name, downtime |-> downtime,
                 events |-> w.scenario.events,
                 averaged |-> Cardinality(averaged)]
<1>1. EndScenario(w) = [w EXCEPT !.metrics = c]
  BY DEF EndScenario, Ledger
<1>2. c = [w.metrics EXCEPT !.summaries = Append(w.metrics.summaries, s)]
  BY DEF AddScenarioSummary, Ledger
<1>3. s.events = w.scenario.events
  OBVIOUS
<1> HIDE DEF s
<1>4. /\ DOMAIN c = DOMAIN w.metrics /\ c.total = w.metrics.total
      /\ c.summaries = Append(w.metrics.summaries, s)
  BY <1>2 DEF Ledger
<1> HIDE DEF c
<1> DEFINE v == EndScenario(w)
<1>5. /\ DOMAIN v = DOMAIN w /\ v.metrics = c /\ v.scenario = w.scenario
      /\ v.report = w.report /\ v.queue = w.queue
  BY <1>1 DEF Ledger
<1> HIDE DEF v
<1>6. Ledger(v)
  BY <1>4, <1>5 DEF Ledger
<1> QED
  BY <1>3, <1>4, <1>5, <1>6 DEF v

LEMMA ShowVerificationBooks ==
    ASSUME NEW w, Ledger(w), NEW node
    PROVE  SameBooks(w, ShowIdentityVerificationSuccess(w, node))
<1> DEFINE p == Paint(w, {Gnb, node}, "Verification_Success")
<1>1. SameBooks(w, p)
  BY PaintBooks
<1> HIDE DEF p
<1>2. "ResetColours" \notin Closers
  BY DEF Closers, Restorations
<1>3. SameBooks(p, Schedule(p, 20, "ResetColours", <<node>>))
  BY <1>1, <1>2, SameLedger, ScheduleBooks
<1> QED
  BY <1>1, <1>3, SameTrans DEF ShowIdentityVerificationSuccess, p

LEMMA DestroyBooks ==
    ASSUME NEW w, NEW v, Opens(w, v), NEW restoration
    PROVE  Opens(w, DestroyAgents(v, restoration))
<1> DEFINE gone == [v EXCEPT !.enterprise = NoAgent, !.twin = NoAgent]
           set  == [gone EXCEPT !.recoveryScheduled = TRUE]
           x    == Schedule(set, RecoveryDelay, restoration, << >>)
<1>1. Ledger(v)
  BY SameLedger
<1>2. SameBooks(v, gone)
  BY <1>1, AgentsBooks
<1>3. DestroyAgents(v, restoration) = IF v.recoveryScheduled THEN gone ELSE x
  BY DEF DestroyAgents
<1> HIDE DEF gone
<1>4. SameBooks(gone, set)
  BY <1>2, SameLedger, AgentsBooks
<1> HIDE DEF set
<1>5. Opens(w, gone) /\ Opens(w, set)
  BY <1>2, <1>4, SameTrans
<1>6. Opens(w, x)
  BY <1>5, SameLedger, ScheduleBooks
<1> QED
  BY <1>3, <1>5, <1>6

---------------------------------------------------------------------------
(* The books of the handlers                                               *)

\* The scenarios that last open books ...
LEMMA BaselineOpens ==
    ASSUME NEW w, Ledger(w)
    PROVE  Opens(w, RunBaselineFailureScenario(w))
<1> DEFINE started == StartScenario(w, <<"Baseline", "Failure">>)
           painted == Paint(started, {Primary, Secondary}, "SplitBrain")
           mid     == Schedule(painted, 50, "RecordMetrics",
                               <<"Baseline", "Failure", "Mid">>)
           end     == Schedule(mid, 100, "RecordMetrics",
                               <<"Baseline", "Failure", "End">>)
           v       == Schedule(end, 110, "EndScenario", << >>)
<1>1. RunBaselineFailureScenario(w) = v
  BY DEF RunBaselineFailureScenario
<1>2. Opens(w, started)
  BY StartBooks
<1> HIDE DEF started
<1>3. Opens(w, painted)
  BY <1>2, SameLedger, PaintBooks, SameTrans
<1> HIDE DEF painted
<1>4. Opens(w, mid)
  BY <1>3, SameLedger, ScheduleBooks
<1> HIDE DEF mid
<1>5. Opens(w, end)
  BY <1>4, SameLedger, ScheduleBooks
<1> HIDE DEF end
<1>6. Opens(w, v)
  BY <1>5, SameLedger, ScheduleBooks
<1> QED
  BY <1>1, <1>6

LEMMA NodeCrashOpens ==
    ASSUME NEW w, Ledger(w)
    PROVE  Opens(w, TriggerNodeCrash(w))
<1> DEFINE started == StartScenario(w, <<"Node", "Crash">>)
           struck  == Paint(started, {Primary}, "Edge_Crash")
           painted == Schedule(struck, 5, "ShowAgentDisappears", <<Primary>>)
           sampled == Record(painted, <<"Crash", "During">>)
<1>1. TriggerNodeCrash(w) = DestroyAgents(sampled, "RecoverFromCrash")
  BY DEF TriggerNodeCrash
<1>2. Opens(w, started)
  BY StartBooks
<1> HIDE DEF started
<1>3. Opens(w, struck)
  BY <1>2, SameLedger, PaintBooks, SameTrans
<1> HIDE DEF struck
<1>4. Opens(w, painted)
  BY <1>3, SameLedger, ScheduleBooks
<1> HIDE DEF painted
<1>5. Opens(w, sampled)
  BY <1>4, SameLedger, RecordBooks, SameTrans
<1> HIDE DEF sampled
<1> QED
  BY <1>1, <1>5, DestroyBooks

LEMMA FullTeardownOpens ==
    ASSUME NEW w, Ledger(w), AgentsPresent(w)
    PROVE  Opens(w, TriggerFullTeardown(w))
<1> DEFINE begun   == Begin(w, <<"Full", "Teardown">>)
           sampled == Record(begun, <<"Teardown", "Start">>)
           node    == begun.enterprise.host
           struck  == Paint(sampled, {node}, "Edge_Crash")
           painted == Schedule(struck, 5, "ShowAgentDisappears", <<node>>)
<1>1. Opens(w, begun) /\ AgentsPresent(begun)
  BY BeginBooks
<1>2. TriggerFullTeardown(w) = DestroyAgents(painted, "RedeploySystem")
  BY <1>1 DEF TriggerFullTeardown
<1> HIDE DEF begun, node
<1>3. Opens(w, sampled)
  BY <1>1, SameLedger, RecordBooks, SameTrans
<1> HIDE DEF sampled
<1>4. Opens(w, struck)
  BY <1>3, SameLedger, PaintBooks, SameTrans
<1> HIDE DEF struck
<1>5. Opens(w, painted)
  BY <1>4, SameLedger, ScheduleBooks
<1> HIDE DEF painted
<1> QED
  BY <1>2, <1>5, DestroyBooks

LEMMA NetworkPartitionOpens ==
    ASSUME NEW w, Ledger(w)
    PROVE  Opens(w, TriggerNetworkPartition(w))
<1> DEFINE started == StartScenario(w, <<"Network", "Partition">>)
           gray    == Paint(started, {Gnb}, "Twin_Offline")
           offline == IF w.twin # NoAgent THEN gray ELSE started
           cut     == [offline EXCEPT !.twin = NoAgent]
           painted == Paint(cut, {Primary, Secondary}, "SplitBrain")
           mid     == Schedule(painted, 25, "RecordMetrics",
                               <<"Network", "Partition", "Mid">>)
           end     == Schedule(mid, 45, "RecordMetrics",
                               <<"Network", "Partition", "End">>)
           v       == Schedule(end, 50, "EndScenario", << >>)
<1>1. TriggerNetworkPartition(w) = v
  BY DEF TriggerNetworkPartition
<1>2. Opens(w, started)
  BY StartBooks
<1> HIDE DEF started
<1>3. Opens(w, gray)
  BY <1>2, SameLedger, PaintBooks, SameTrans
<1> HIDE DEF gray
<1>4. Opens(w, offline)
  BY <1>2, <1>3
<1> HIDE DEF offline
<1>5. Opens(w, cut)
  BY <1>4, SameLedger, AgentsBooks, SameTrans
<1> HIDE DEF cut
<1>6. Opens(w, painted)
  BY <1>5, SameLedger, PaintBooks, SameTrans
<1> HIDE DEF painted
<1>7. Opens(w, mid)
  BY <1>6, SameLedger, ScheduleBooks
<1> HIDE DEF mid
<1>8. Opens(w, end)
  BY <1>7, SameLedger, ScheduleBooks
<1> HIDE DEF end
<1>9. Opens(w, v)
  BY <1>8, SameLedger, ScheduleBooks
<1> QED
  BY <1>1, <1>9

\* ... and the others account for one verification, as restorations do.
LEMMA VerifiedEnd ==
    ASSUME NEW w, NEW a, NEW b, Opens(w, a), NoCloser(w, a),
           Counts(a, b)
    PROVE  Accounts(w, EndScenario(b), 1)
<1> DEFINE v == EndScenario(b)
<1>1. /\ Ledger(v) /\ v.report = b.report /\ v.queue = b.queue
      /\ v.metrics.total = b.metrics.total
      /\ \E s : /\ s.events = b.scenario.events
                /\ v.metrics.summaries = Append(b.metrics.summaries, s)
  BY SameLedger, EndBooks
<1> HIDE DEF v
<1>2. b.scenario.events = 1 /\ b.metrics.total = w.metrics.total + 1
  BY DEF Opens, Counts
<1>3. b.metrics.summaries = w.metrics.summaries /\ b.report = w.report
  BY DEF Opens, Counts, SameReports
<1>4. NoCloser(w, v)
  BY <1>1 DEF NoCloser, Counts
<1>5. Accounts(w, v, 1)
  BY <1>1, <1>2, <1>3, <1>4 DEF Accounts
<1> QED
  BY <1>5 DEF v

LEMMA MigrationAccounts ==
    ASSUME NEW w, Ledger(w), AgentsPresent(w)
    PROVE  Accounts(w, TriggerAgentMigration(w), 1)
<1> DEFINE begun    == Begin(w, <<"Agent", "Migration">>)
           sampled  == Record(begun, <<"Migration", "Start">>)
           painted  == Paint(sampled, {Primary}, "Edge_Migrating")
           moved    == [painted EXCEPT !.enterprise = Migrate(@, Secondary)]
           leaving  == Schedule(moved, 2, "ShowAgentDisappears", <<Primary>>)
           arriving == Schedule(leaving, 5, "ShowMigratedAgent", <<Secondary>>)
           verified == VerifyInScenario(arriving)
           shows    == Schedule(verified, 10, "ShowVerified", <<Secondary>>)
           shown    == IF Continuous(begun.twin, moved.enterprise)
                       THEN shows ELSE verified
           sampling == Schedule(shown, 10, "RecordMetrics",
                                <<"Continuity", "Success", "Migration">>)
<1>1. Opens(w, begun) /\ NoCloser(w, begun) /\ AgentsPresent(begun)
  BY BeginBooks
<1>2. TriggerAgentMigration(w) = EndScenario(sampling)
  BY <1>1 DEF TriggerAgentMigration
<1> HIDE DEF begun
<1>3. {"ShowAgentDisappears", "ShowMigratedAgent", "ShowVerified",
       "RecordMetrics"} \cap Closers = {}
  BY DEF Closers, Restorations
<1>4. SameBooks(begun, sampled)
  BY <1>1, SameLedger, RecordBooks
<1> HIDE DEF sampled
<1>5. SameBooks(sampled, painted)
  BY <1>4, SameLedger, PaintBooks
<1> HIDE DEF painted
<1>6. SameBooks(painted, moved)
  <2>1. Ledger(painted)
    BY <1>5, SameLedger
  <2>2. moved = [painted EXCEPT !.enterprise =
                     Migrate(painted.enterprise, Secondary)]
    BY <2>1 DEF Ledger
  <2> QED
    BY <2>1, <2>2, AgentsBooks
<1> HIDE DEF moved
<1>7. SameBooks(moved, leaving)
  BY <1>3, <1>6, SameLedger, ScheduleBooks
<1> HIDE DEF leaving
<1>8. SameBooks(leaving, arriving)
  BY <1>3, <1>7, SameLedger, ScheduleBooks
<1> HIDE DEF arriving
<1>9. Counts(arriving, verified)
  BY <1>8, SameLedger, VerifyBooks
<1> HIDE DEF verified
<1>10. SameBooks(verified, shows)
  BY <1>3, <1>9, SameLedger, ScheduleBooks
<1> HIDE DEF shows
<1>11. Counts(arriving, shown)
  BY <1>9, <1>10, SameTrans
<1> HIDE DEF shown
<1>12. SameBooks(shown, sampling)
  BY <1>3, <1>11, SameLedger, ScheduleBooks
<1> HIDE DEF sampling
<1>13. Counts(arriving, sampling)
  BY <1>11, <1>12, SameTrans
<1>14. SameBooks(begun, arriving)
  BY <1>4, <1>5, <1>6, <1>7, <1>8, SameTrans
<1>15. Opens(w, arriving) /\ NoCloser(w, arriving)
  BY <1>1, <1>14, SameTrans DEF NoCloser, SameBooks
<1> QED
  BY <1>2, <1>13, <1>15, VerifiedEnd

LEMMA ProcessRestartAccounts ==
    ASSUME NEW w, Ledger(w), AgentsPresent(w)
    PROVE  Accounts(w, TriggerProcessRestart(w), 1)
<1> DEFINE begun     == Begin(w, <<"Process", "Restart">>)
           sampled   == Record(begun, <<"Restart", "Start">>)
           node      == begun.enterprise.host
           painted   == Paint(sampled, {node}, "Edge_Crash")
           leaving   == Schedule(painted, 2, "ShowAgentDisappears", <<node>>)
           arriving  == Schedule(leaving, 5, "ShowAgentReappears", <<node>>)
           restarted == [arriving EXCEPT !.enterprise =
                                  NewEnterprise(Primary, @.identity)]
           verified  == VerifyInScenario(restarted)
           shows     == Schedule(verified, 10, "ShowVerified", <<node>>)
           shown     == IF Continuous(begun.twin, restarted.enterprise)
                        THEN shows ELSE verified
           sampling  == Schedule(shown, 10, "RecordMetrics",
                           <<"Continuity", "Success", "Process", "Restart">>)
<1>1. Opens(w, begun) /\ NoCloser(w, begun) /\ AgentsPresent(begun)
  BY BeginBooks
<1>2. TriggerProcessRestart(w) = EndScenario(sampling)
  BY <1>1 DEF TriggerProcessRestart
<1> HIDE DEF begun, node
<1>3. {"ShowAgentDisappears", "ShowAgentReappears", "ShowVerified",
       "RecordMetrics"} \cap Closers = {}
  BY DEF Closers, Restorations
<1>4. SameBooks(begun, sampled)
  BY <1>1, SameLedger, RecordBooks
<1> HIDE DEF sampled
<1>5. SameBooks(sampled, painted)
  BY <1>4, SameLedger, PaintBooks
<1> HIDE DEF painted
<1>6. SameBooks(painted, leaving)
  BY <1>3, <1>5, SameLedger, ScheduleBooks
<1> HIDE DEF leaving
<1>7. SameBooks(leaving, arriving)
  BY <1>3, <1>6, SameLedger, ScheduleBooks
<1> HIDE DEF arriving
<1>8. SameBooks(arriving, restarted)
  <2>1. Ledger(arriving)
    BY <1>7, SameLedger
  <2>2. restarted = [arriving EXCEPT !.enterprise =
                         NewEnterprise(Primary, arriving.enterprise.identity)]
    BY <2>1 DEF Ledger
  <2> QED
    BY <2>1, <2>2, AgentsBooks
<1> HIDE DEF restarted
<1>9. Counts(restarted, verified)
  BY <1>8, SameLedger, VerifyBooks
<1> HIDE DEF verified
<1>10. SameBooks(verified, shows)
  BY <1>3, <1>9, SameLedger, ScheduleBooks
<1> HIDE DEF shows
<1>11. Counts(restarted, shown)
  BY <1>9, <1>10, SameTrans
<1> HIDE DEF shown
<1>12. SameBooks(shown, sampling)
  BY <1>3, <1>11, SameLedger, ScheduleBooks
<1> HIDE DEF sampling
<1>13. Counts(restarted, sampling)
  BY <1>11, <1>12, SameTrans
<1>14. SameBooks(begun, restarted)
  BY <1>4, <1>5, <1>6, <1>7, <1>8, SameTrans
<1>15. Opens(w, restarted) /\ NoCloser(w, restarted)
  BY <1>1, <1>14, SameTrans DEF NoCloser, SameBooks
<1> QED
  BY <1>2, <1>13, <1>15, VerifiedEnd

LEMMA RestoreAccounts ==
    ASSUME NEW w, Ledger(w), w.scenario.events = 0, NEW label
    PROVE  Accounts(w, Restore(w, label), 1)
<1> DEFINE cleared  == ClearFlag(w)
           created  == CreateAgents(cleared)
           painted  == Paint(created, {Primary}, "Edge_Reappeared")
           verified == VerifyInScenario(painted)
           badge    == ShowIdentityVerificationSuccess(verified, Primary)
           shown    == IF Continuous(created.twin, created.enterprise)
                       THEN badge ELSE verified
           sampled  == Record(shown, label)
<1>1. Restore(w, label) = EndScenario(sampled)
  BY DEF Restore
<1>2. SameBooks(w, cleared)
  BY CreateBooks
<1> HIDE DEF cleared
<1>3. SameBooks(cleared, created)
  BY <1>2, SameLedger, CreateBooks
<1> HIDE DEF created
<1>4. SameBooks(created, painted)
  BY <1>3, SameLedger, PaintBooks
<1> HIDE DEF painted
<1>5. Counts(painted, verified)
  BY <1>4, SameLedger, VerifyBooks
<1> HIDE DEF verified
<1>6. SameBooks(verified, badge)
  BY <1>5, SameLedger, ShowVerificationBooks
<1> HIDE DEF badge
<1>7. Counts(painted, shown)
  BY <1>5, <1>6, SameTrans
<1> HIDE DEF shown
<1>8. SameBooks(shown, sampled)
  BY <1>7, SameLedger, RecordBooks
<1> HIDE DEF sampled
<1>9. Counts(painted, sampled)
  BY <1>7, <1>8, SameTrans
<1>10. SameBooks(w, painted)
  BY <1>2, <1>3, <1>4, SameTrans
<1>11. Opens(w, painted) /\ NoCloser(w, painted)
  BY <1>10 DEF Opens, SameBooks
<1> QED
  BY <1>1, <1>9, <1>11, VerifiedEnd

---------------------------------------------------------------------------
(* Every step keeps the books                                              *)

\* Between two scenarios the books balance, and a scenario that lasts counts
\* nothing until the event that ends it.
BooksPlan(w) ==
    /\ \A e \in w.queue : e.op \in Closers => w.scenario.events = 0
    /\ w.report = << >> => Reported(w.metrics.summaries) = w.metrics.total

LEMMA SameBooksPlan ==
    ASSUME NEW w, NEW v, BooksPlan(w), SameBooks(w, v) \/ Opens(w, v)
    PROVE  BooksPlan(v)
  BY DEF BooksPlan, SameBooks, Opens, SameReports, NoCloser

LEMMA AccountsPlan ==
    ASSUME NEW w \in Worlds, NEW v, BooksPlan(w), NEW n, Accounts(w, v, n),
           \A e \in w.queue : e.op \notin Closers
    PROVE  BooksPlan(v)
<1>1. \A e \in v.queue : e.op \notin Closers
  BY DEF Accounts, NoCloser
<1>2. PICK s : /\ s.events = n
               /\ v.metrics.summaries = Append(w.metrics.summaries, s)
  BY DEF Accounts
<1>3. w.metrics.summaries \in Seq(Summaries)
  <2>1. w.metrics \in Collectors
    BY DEF Worlds
  <2> QED
    BY <2>1 DEF Collectors
<1>4. Reported(v.metrics.summaries) = Reported(w.metrics.summaries) + n
  BY <1>2, <1>3, ReportedMore
<1> QED
  BY <1>1, <1>4 DEF BooksPlan, Accounts

LEMMA DequeueBooks ==
    ASSUME IInv, BooksPlan(World), NEW op, NEW e \in Due(op)
    PROVE  LET w == Dequeue(World, e)
           IN  /\ w \in Worlds /\ Ledger(w) /\ BooksPlan(w)
               /\ op \in Closers => w.scenario.events = 0
<1> DEFINE u == World
           w == Dequeue(u, e)
<1>1. u \in Worlds /\ e \in u.queue /\ e.op = op
  BY DueEvent DEF World
<1>2. w \in Worlds
  BY DequeueCore DEF CoreInv
<1> HIDE DEF u
<1>3. Ledger(u) /\ Ledger(w)
  BY <1>1, <1>2, WorldLedger
<1>4. SameBooks(u, w) /\ w.scenario = u.scenario
  BY <1>3 DEF Dequeue, Ledger, SameBooks, SameReports, NoCloser
<1> HIDE DEF w
<1>5. BooksPlan(w) /\ BooksPlan(u)
  BY <1>4, SameBooksPlan DEF u
<1>6. op \in Closers => w.scenario.events = 0
  BY <1>1, <1>4, <1>5 DEF BooksPlan
<1> QED
  BY <1>2, <1>3, <1>5, <1>6 DEF w, u

LEMMA BecomesBooks ==
    ASSUME NEW v, Becomes(v), BooksPlan(v)
    PROVE  BooksPlan(World)'
<1>1. /\ World.queue' = v.queue /\ World.scenario' = v.scenario
      /\ World.metrics' = v.metrics /\ World.report' = v.report
  BY DEF Becomes, World
<1> QED
  BY <1>1 DEF BooksPlan

\* No event that ends a scenario is left when another starts, or when it ends.
LEMMA NoCloserLeft ==
    ASSUME WellSpaced, IInv, Plan(World), NEW op \in Starters \cup Closers,
           NEW e \in Due(op)
    PROVE  \A f \in Dequeue(World, e).queue : f.op \notin Closers
<1> DEFINE w == Dequeue(World, e)
<1>1. \A f \in w.queue : f.op \in Closers => f \in Control(w.queue)
  BY DEF Closers, Restorations, Control, NodeHandlers
<1>2. CASE op \in Starters
  BY <1>1, <1>2, StarterClear DEF Clear
<1>3. CASE op \in Closers
  <2>1. op \notin NodeHandlers \cup {"RecordMetrics"}
    BY <1>3 DEF Closers, Restorations, NodeHandlers
  <2>2. /\ Control(w.queue) = Control(World.queue) \ {e}
        /\ e \in Control(World.queue) /\ e.op = op
    BY <2>1, DequeueControl
  <2> HIDE DEF w
  <2>3. \A f \in w.queue : f.op \notin Closers
    BY <1>1, <1>3, <2>2 DEF Plan, CloserPlan
  <2> QED
    BY <2>3 DEF w
<1> QED
  BY <1>2, <1>3

\* The events that start a scenario
LEMMA StartersBooks ==
    ASSUME WellSpaced, IInv, Plan(World), BooksPlan(World),
           \/ BaselineFailure \/ NodeCrash \/ AgentMigration
           \/ ProcessRestart \/ FullTeardown \/ NetworkPartition
    PROVE  BooksPlan(World)'
<1> DEFINE w(e) == Dequeue(World, e)
<1>1. ASSUME NEW op \in Starters, NEW e \in Due(op)
      PROVE  /\ w(e) \in Worlds /\ Ledger(w(e)) /\ BooksPlan(w(e))
             /\ \A f \in w(e).queue : f.op \notin Closers
             /\ op \in Continuities => AgentsPresent(w(e))
  BY DequeueBooks, NoCloserLeft, StarterClear DEF Clear
<1>2. /\ "RunBaselineFailureScenario" \in Starters
      /\ "TriggerNetworkPartition" \in Starters
      /\ {"TriggerNodeCrash", "TriggerAgentMigration",
          "TriggerProcessRestart", "TriggerFullTeardown"}
            \subseteq Starters \cap Continuities
  BY DEF Starters, Continuities
<1> HIDE DEF w
<1>3. CASE BaselineFailure
  <2>1. PICK e \in Due("RunBaselineFailureScenario") :
            Becomes(RunBaselineFailureScenario(w(e)))
    BY <1>3 DEF BaselineFailure, w
  <2> QED
    BY <1>1, <1>2, <2>1, BaselineOpens, SameBooksPlan, BecomesBooks
<1>4. CASE NodeCrash
  <2>1. PICK e \in Due("TriggerNodeCrash") : Becomes(TriggerNodeCrash(w(e)))
    BY <1>4 DEF NodeCrash, w
  <2> QED
    BY <1>1, <1>2, <2>1, NodeCrashOpens, SameBooksPlan, BecomesBooks
<1>5. CASE AgentMigration
  <2>1. PICK e \in Due("TriggerAgentMigration") :
            Becomes(TriggerAgentMigration(w(e)))
    BY <1>5 DEF AgentMigration, w
  <2> QED
    BY <1>1, <1>2, <2>1, MigrationAccounts, AccountsPlan, BecomesBooks
<1>6. CASE ProcessRestart
  <2>1. PICK e \in Due("TriggerProcessRestart") :
            Becomes(TriggerProcessRestart(w(e)))
    BY <1>6 DEF ProcessRestart, w
  <2> QED
    BY <1>1, <1>2, <2>1, ProcessRestartAccounts, AccountsPlan, BecomesBooks
<1>7. CASE FullTeardown
  <2>1. PICK e \in Due("TriggerFullTeardown") :
            Becomes(TriggerFullTeardown(w(e)))
    BY <1>7 DEF FullTeardown, w
  <2> QED
    BY <1>1, <1>2, <2>1, FullTeardownOpens, SameBooksPlan, BecomesBooks
<1>8. CASE NetworkPartition
  <2>1. PICK e \in Due("TriggerNetworkPartition") :
            Becomes(TriggerNetworkPartition(w(e)))
    BY <1>8 DEF NetworkPartition, w
  <2> QED
    BY <1>1, <1>2, <2>1, NetworkPartitionOpens, SameBooksPlan, BecomesBooks
<1> QED
  BY <1>3, <1>4, <1>5, <1>6, <1>7, <1>8

\* The events that end one
LEMMA ClosersBooks ==
    ASSUME WellSpaced, IInv, Plan(World), BooksPlan(World),
           CrashRecovery \/ Redeployment \/ DelayedEnd
    PROVE  BooksPlan(World)'
<1> DEFINE w(e) == Dequeue(World, e)
<1>1. ASSUME NEW op \in Closers, NEW e \in Due(op)
      PROVE  /\ w(e) \in Worlds /\ Ledger(w(e)) /\ BooksPlan(w(e))
             /\ \A f \in w(e).queue : f.op \notin Closers
             /\ w(e).scenario.events = 0
  BY DequeueBooks, NoCloserLeft
<1>2. {"RecoverFromCrash", "RedeploySystem", "EndScenario"} \subseteq Closers
  BY DEF Closers, Restorations
<1> HIDE DEF w
<1>3. ASSUME NEW op \in Closers, NEW e \in Due(op), NEW label,
             Becomes(Restore(w(e), label))
      PROVE  BooksPlan(World)'
  BY <1>1, <1>3, RestoreAccounts, AccountsPlan, BecomesBooks
<1>4. CASE CrashRecovery
  <2>1. PICK e \in Due("RecoverFromCrash") : Becomes(RecoverFromCrash(w(e)))
    BY <1>4 DEF CrashRecovery, w
  <2> QED
    BY <1>2, <1>3, <2>1 DEF RecoverFromCrash
<1>5. CASE Redeployment
  <2>1. PICK e \in Due("RedeploySystem") : Becomes(RedeploySystem(w(e)))
    BY <1>5 DEF Redeployment, w
  <2> QED
    BY <1>2, <1>3, <2>1 DEF RedeploySystem
<1>6. CASE DelayedEnd
  <2>1. PICK e \in Due("EndScenario") : Becomes(EndScenario(w(e)))
    BY <1>6 DEF DelayedEnd, w
  <2> DEFINE x == w(e)
             v == EndScenario(x)
  <2>2. /\ x \in Worlds /\ Ledger(x) /\ BooksPlan(x)
        /\ \A f \in x.queue : f.op \notin Closers
        /\ x.scenario.events = 0
    BY <1>1, <1>2
  <2>3. Becomes(v)
    BY <2>1
  <2> HIDE DEF x
  <2>4. /\ Ledger(v) /\ v.report = x.report /\ v.queue = x.queue
        /\ v.metrics.total = x.metrics.total
        /\ \E s : /\ s.events = x.scenario.events
                  /\ v.metrics.summaries = Append(x.metrics.summaries, s)
    BY <2>2, EndBooks
  <2> HIDE DEF v
  <2>5. x.metrics.total + 0 = x.metrics.total
    BY <2>2 DEF Worlds, Collectors
  <2>6. Accounts(x, v, 0)
    BY <2>2, <2>4, <2>5 DEF Accounts, NoCloser
  <2> QED
    BY <2>2, <2>3, <2>6, AccountsPlan, BecomesBooks
<1> QED
  BY <1>4, <1>5, <1>6

\* The others count nothing, except the check before the final report.
LEMMA QuietBooks ==
    ASSUME IInv, BooksPlan(World),
           \/ NodesInitialized \/ BaselineCaptured \/ DelayedSample
           \/ AgentDisappears \/ AgentReappears \/ MigratedAgentAppears
           \/ VerificationShown \/ ColoursReset \/ LoopStops
    PROVE  BooksPlan(World)'
<1> DEFINE w(e) == Dequeue(World, e)
<1>1. ASSUME NEW op, NEW e \in Due(op), NEW v, SameBooks(w(e), v), Becomes(v)
      PROVE  BooksPlan(World)'
  BY <1>1, DequeueBooks, SameBooksPlan, BecomesBooks
<1>2. ASSUME NEW op, NEW e \in Due(op)
      PROVE  w(e) \in Worlds /\ Ledger(w(e)) /\ SameBooks(w(e), w(e))
  <2>1. w(e) \in Worlds /\ Ledger(w(e))
    BY DequeueBooks
  <2> QED
    BY <2>1 DEF SameBooks, SameReports, NoCloser
<1> HIDE DEF w
<1>3. CASE NodesInitialized
  <2>1. PICK e \in Due("InitializeNodesDelayed") :
            Becomes(InitializeNodesDelayed(w(e)))
    BY <1>3 DEF NodesInitialized, w
  <2> DEFINE a == Paint(w(e), {Gnb}, "gNB_Normal")
             b == Paint(a, {Primary}, "Edge_Normal")
             v == Paint(b, {Secondary}, "Edge_Offline")
  <2>2. SameBooks(w(e), a)
    BY <1>2, PaintBooks
  <2>3. Becomes(v)
    BY <2>1 DEF InitializeNodesDelayed
  <2> HIDE DEF a
  <2>4. SameBooks(a, b)
    BY <2>2, SameLedger, PaintBooks
  <2> HIDE DEF b
  <2>5. SameBooks(b, v)
    BY <2>4, SameLedger, PaintBooks
  <2> HIDE DEF v
  <2>6. SameBooks(w(e), v)
    BY <2>2, <2>4, <2>5, SameTrans
  <2> QED
    BY <1>1, <2>3, <2>6
<1>4. CASE BaselineCaptured
  <2>1. PICK e \in Due("CaptureBaseline") :
            Becomes([w(e) EXCEPT !.metrics = CaptureBaseline(@, e.ts)])
    BY <1>4 DEF BaselineCaptured, w
  <2>2. SameBooks(w(e), [w(e) EXCEPT !.metrics = CaptureBaseline(@, e.ts)])
    <3>1. Ledger(w(e))
      BY <1>2
    <3> QED
      BY <3>1 DEF CaptureBaseline, Ledger, SameBooks, SameReports, NoCloser
  <2> QED
    BY <1>1, <2>1, <2>2
<1>5. CASE DelayedSample
  <2>1. PICK e \in Due("RecordMetrics") : Becomes(Record(w(e), e.arg))
    BY <1>5 DEF DelayedSample, w
  <2> QED
    BY <1>1, <1>2, <2>1, RecordBooks
<1>6. CASE AgentDisappears
  <2>1. PICK e \in Due("ShowAgentDisappears") :
            Becomes(Paint(w(e), {e.arg[1]}, "Edge_Offline"))
    BY <1>6 DEF AgentDisappears, w
  <2> QED
    BY <1>1, <1>2, <2>1, PaintBooks
<1>7. CASE AgentReappears
  <2>1. PICK e \in Due("ShowAgentReappears") :
            Becomes(Paint(w(e), {e.arg[1]}, "Edge_Reappeared"))
    BY <1>7 DEF AgentReappears, w
  <2> QED
    BY <1>1, <1>2, <2>1, PaintBooks
<1>8. CASE MigratedAgentAppears
  <2>1. PICK e \in Due("ShowMigratedAgent") :
            Becomes(IF w(e).enterprise # NoAgent
                    THEN Paint(w(e), {e.arg[1]}, "Edge_Reappeared") ELSE w(e))
    BY <1>8 DEF MigratedAgentAppears, w
  <2> QED
    BY <1>1, <1>2, <2>1, PaintBooks
<1>9. CASE VerificationShown
  <2>1. PICK e \in Due("ShowVerified") :
            Becomes(IF AgentsPresent(w(e))
                    THEN ShowIdentityVerificationSuccess(w(e), e.arg[1])
                    ELSE w(e))
    BY <1>9 DEF VerificationShown, w
  <2> QED
    BY <1>1, <1>2, <2>1, ShowVerificationBooks
<1>10. CASE ColoursReset
  <2>1. PICK e \in Due("ResetColours") :
            Becomes(ResetColours(w(e), e.arg[1]))
    BY <1>10 DEF ColoursReset, w
  <2> DEFINE a == Paint(w(e), {Gnb}, "gNB_Normal")
             v == Paint(a, {e.arg[1]}, "Edge_Normal")
  <2>2. SameBooks(w(e), a)
    BY <1>2, PaintBooks
  <2>3. Becomes(v)
    BY <2>1 DEF ResetColours
  <2> HIDE DEF a
  <2>4. SameBooks(a, v)
    BY <2>2, SameLedger, PaintBooks
  <2> HIDE DEF v
  <2> QED
    BY <1>1, <2>2, <2>3, <2>4, SameTrans
<1>11. CASE LoopStops
  <2>1. PICK e \in Due("Stop") : Becomes(StopLoop(w(e)))
    BY <1>11 DEF LoopStops, w
  <2>2. SameBooks(w(e), StopLoop(w(e)))
    <3>1. Ledger(w(e))
      BY <1>2
    <3> QED
      BY <3>1 DEF StopLoop, Ledger, SameBooks, SameReports, NoCloser
  <2> QED
    BY <1>1, <2>1, <2>2
<1> QED
  BY <1>3, <1>4, <1>5, <1>6, <1>7, <1>8, <1>9, <1>10, <1>11

LEMMA MainBooks ==
    ASSUME IInv, BooksPlan(World),
           ContinuityStarts \/ PartitionStarts \/ FinalReport
    PROVE  BooksPlan(World)'
<1> DEFINE w(e) == Dequeue(World, e)
<1>1. ASSUME NEW op, NEW e \in Due(op)
      PROVE  Ledger(w(e)) /\ BooksPlan(w(e))
  BY DequeueBooks
<1> HIDE DEF w
<1>2. CASE ContinuityStarts
  <2>1. PICK e \in Due("StartContinuity") :
            Becomes(ScheduleContinuitySuccessScenarios(
                        InitializeAgents(w(e))))
    BY <1>2 DEF ContinuityStarts, w
  <2> DEFINE x == InitializeAgents(w(e))
             a == Schedule(x, CrashAfter, "TriggerNodeCrash", << >>)
             b == Schedule(a, MigrationAfter, "TriggerAgentMigration", << >>)
             c == Schedule(b, RestartAfter, "TriggerProcessRestart", << >>)
             v == Schedule(c, TeardownAfter, "TriggerFullTeardown", << >>)
  <2>2. {"TriggerNodeCrash", "TriggerAgentMigration",
         "TriggerProcessRestart", "TriggerFullTeardown"} \cap Closers = {}
    BY DEF Closers, Restorations
  <2>3. SameBooks(w(e), x)
    BY <1>1, CreateBooks DEF InitializeAgents
  <2>4. Becomes(v)
    BY <2>1 DEF ScheduleContinuitySuccessScenarios
  <2> HIDE DEF x
  <2>5. SameBooks(x, a)
    BY <2>2, <2>3, SameLedger, ScheduleBooks
  <2> HIDE DEF a
  <2>6. SameBooks(a, b)
    BY <2>2, <2>5, SameLedger, ScheduleBooks
  <2> HIDE DEF b
  <2>7. SameBooks(b, c)
    BY <2>2, <2>6, SameLedger, ScheduleBooks
  <2> HIDE DEF c
  <2>8. SameBooks(c, v)
    BY <2>2, <2>7, SameLedger, ScheduleBooks
  <2> HIDE DEF v
  <2>9. SameBooks(w(e), v)
    BY <2>3, <2>5, <2>6, <2>7, <2>8, SameTrans
  <2> QED
    BY <1>1, <2>4, <2>9, SameBooksPlan, BecomesBooks
<1>3. CASE PartitionStarts
  <2>1. PICK e \in Due("StartPartition") :
            Becomes(ScheduleNetworkPartitionScenario(w(e)))
    BY <1>3 DEF PartitionStarts, w
  <2>2. "TriggerNetworkPartition" \notin Closers
    BY DEF Closers, Restorations
  <2>3. SameBooks(w(e), ScheduleNetworkPartitionScenario(w(e)))
    BY <1>1, <2>2, ScheduleBooks DEF ScheduleNetworkPartitionScenario
  <2> QED
    BY <1>1, <2>1, <2>3, SameBooksPlan, BecomesBooks
<1>4. CASE FinalReport
  <2>1. PICK e \in Due("FinalReport") :
            Becomes(PrintFinalReport(Record(FinalCheck(w(e)), <<"Final">>)))
    BY <1>4 DEF FinalReport, w
  <2> DEFINE x == FinalCheck(w(e))
             y == Record(x, <<"Final">>)
             v == PrintFinalReport(y)
  <2>2. Ledger(w(e)) /\ BooksPlan(w(e))
    BY <1>1
  <2>3. Ledger(x) /\ x.queue = w(e).queue /\ x.scenario = w(e).scenario
    BY <2>2 DEF FinalCheck, VerifyAgentContinuity, IncVerificationEvents,
                Ledger
  <2> HIDE DEF x
  <2>4. Ledger(y) /\ y.queue = x.queue /\ y.scenario = x.scenario
    BY <2>3 DEF Record, RecordMetrics, Ledger
  <2> HIDE DEF y
  <2>5. v.queue = y.queue /\ v.scenario = y.scenario /\ v.report # << >>
    BY <2>4 DEF PrintFinalReport, Ledger
  <2>6. Becomes(v)
    BY <2>1 DEF x, y
  <2> HIDE DEF v
  <2>7. BooksPlan(v)
    BY <2>2, <2>3, <2>4, <2>5 DEF BooksPlan
  <2> QED
    BY <2>6, <2>7, BecomesBooks
<1> QED
  BY <1>2, <1>3, <1>4

LEMMA StepBooks ==
    ASSUME WellSpaced, IInv, Plan(World), BooksPlan(World), [Next]_vars
    PROVE  BooksPlan(World)'
<1>1. CASE UNCHANGED vars
  BY <1>1 DEF vars, simulatorVars, managerVars, World, BooksPlan
<1>2. CASE Next
  <2>1. CASE Finished
    BY <1>1, <2>1 DEF Finished
  <2> QED
    BY <1>2, <2>1, QuietBooks, MainBooks, StartersBooks, ClosersBooks
       DEF Next, ManagerNext
<1> QED
  BY <1>1, <1>2

LEMMA InitBooks == ASSUME Init PROVE BooksPlan(World)
<1>1. PICK t \in SimTimes : StartsAs(StartWorld(t))
  BY DEF Init
<1>2. /\ scenario = NoScenario /\ metrics = NewCollector
  BY <1>1 DEF StartsAs, StartWorld, InitializeAgents, CreateAgents, EmptyWorld
<1> QED
  BY <1>2, ReportedNone DEF NoScenario, NewCollector, BooksPlan, World

---------------------------------------------------------------------------
(* Theorems                                                                *)

\* The inductive invariant holds all along main's run, wherever --time cuts
\* it and however far apart its literals put the failures.
THEOREM MainInvariance == Spec => []MainInv
<1>1. Init => MainInv
  BY InitMainInv
<1>2. MainInv /\ [Next]_vars => MainInv'
  BY StepMainInv
<1> QED
  BY <1>1, <1>2, PTL DEF Spec

\* No verification of main's run fails, the final one and those after the
\* agents created anew at the start of the continuity phase included.
THEOREM MainNoCheckFails == Spec => []NoCheckFails
<1>1. MainInv => NoCheckFails
  BY DEF MainInv, IInv, WorldInv, CoreInv, NoCheckFails, World
<1> QED
  BY <1>1, MainInvariance, PTL

\* Every event main or a handler schedules lies ahead, under a key of its own.
THEOREM MainQueueWellFormed == Spec => []QueueWellFormed
<1>1. MainInv => QueueWellFormed
  BY DEF MainInv, IInv, WorldInv, CoreInv, QueueWellFormed, World
<1> QED
  BY <1>1, MainInvariance, PTL

\* When main's enterprise agent is down, its restoration is in the queue.
THEOREM MainRestorationPending == Spec => []RestorationPending
<1>1. MainInv => RestorationPending
  BY DEF MainInv, IInv, WorldInv, RestorationPending, RestorationDue, World
<1> QED
  BY <1>1, MainInvariance, PTL

\* A verification badge of main's animation never stays, whichever timers of
\* earlier scenarios repaint the nodes meanwhile.
THEOREM MainBadgesExpire == Spec => []BadgesExpire
<1>1. MainInv => BadgesExpire
  BY DEF MainInv, Badged, BadgesExpire, World
<1> QED
  BY <1>1, MainInvariance, PTL

---------------------------------------------------------------------------
(* Theorems about main's literals                                          *)

\* When main's literals are spaced as they are, the events of its scenarios
\* keep to the plan: this is the invariant the three theorems below rest on.
THEOREM PlanInvariance ==
    ASSUME WellSpaced PROVE Spec => [](MainInv /\ Plan(World))
<1>1. Init => MainInv /\ Plan(World)
  BY InitMainInv, InitPlan
<1>2. MainInv /\ Plan(World) /\ [Next]_vars => MainInv' /\ Plan(World)'
  BY StepMainInv, StepPlanned DEF MainInv, Planned
<1> QED
  BY <1>1, <1>2, PTL DEF Spec

\* The timer of one failure never fires during the next: a restoration is
\* pending, and only one, exactly while m_recoveryScheduled is set.
THEOREM TimerAlwaysMatches ==
    ASSUME WellSpaced PROVE Spec => []TimerMatchesFlag
<1>1. ASSUME MainInv, Plan(World) PROVE TimerMatchesFlag
  <2> DEFINE pending == {e \in queue : e.op \in Restorations}
  <2>1. pending = {e \in Control(queue) : e.op \in Restorations}
    BY DEF Control, Restorations, NodeHandlers
  <2>2. /\ \A e, f \in pending : e = f
        /\ recoveryScheduled <=> \E e \in pending : TRUE
    BY <1>1, <2>1 DEF Plan, CloserPlan, Closers, World
  <2>3. CASE recoveryScheduled
    <3>1. PICK e \in pending : TRUE
      BY <2>2, <2>3
    <3>2. pending = {e}
      BY <2>2, <3>1
    <3> HIDE DEF pending
    <3>3. Cardinality(pending) = 1
      BY <3>2, FS_Singleton
    <3> QED
      BY <2>3, <3>3 DEF TimerMatchesFlag, pending
  <2>4. CASE ~recoveryScheduled
    <3>1. pending = {}
      BY <2>2, <2>4
    <3> HIDE DEF pending
    <3>2. Cardinality(pending) = 0
      BY <3>1, FS_EmptySet
    <3> QED
      BY <2>4, <3>2 DEF TimerMatchesFlag, pending
  <2> QED
    BY <2>3, <2>4
<1> QED
  BY <1>1, PlanInvariance, PTL

\* Every summary main's scenarios write has the downtime its scenario is meant
\* to show: none is written under the name or the start of another.
THEOREM DowntimesAlwaysExpected ==
    ASSUME WellSpaced PROVE Spec => []DowntimesAsExpected
<1>1. Plan(World) => DowntimesAsExpected
  BY DEF Plan, SummaryPlan, Accurate, DowntimesAsExpected, World
<1> QED
  BY <1>1, PlanInvariance, PTL

\* The name, start and count of a scenario are overwritten by those of the next
\* only after EndScenario wrote its summary.
THEOREM ScenariosNeverOverlap ==
    ASSUME WellSpaced PROVE Spec => ScenariosDoNotOverlap
<1> DEFINE A == scenario'.name # scenario.name => LastSummarized
<1>1. MainInv /\ Plan(World) /\ [Next]_vars => [A]_vars
  BY StepPlanned DEF MainInv, Planned
<1>2. Spec => [][A]_vars
  BY <1>1, PlanInvariance, PTL DEF Spec
<1> QED
  BY <1>2 DEF ScenariosDoNotOverlap, LastSummarized

\* The animation shows an outage of main's run as long as it lasts: no timer
\* an earlier scenario left repaints the node that is down.
THEOREM OutagesAlwaysShown ==
    ASSUME WellSpaced, PicturesSettle PROVE Spec => []OutageIsShown
<1> DEFINE Inv == MainInv /\ Plan(World) /\ PicturePlan(World)
<1>1. Init => Inv
  BY InitMainInv, InitPlan, InitPicture
<1>2. Inv /\ [Next]_vars => Inv'
  BY StepMainInv, StepPlanned, StepPicture DEF MainInv, Planned
<1>3. Inv => OutageIsShown
  BY DEF PicturePlan, OutageShown, OutageIsShown, World
<1> QED
  BY <1>1, <1>2, <1>3, PTL DEF Spec

\* Each verification of main's scenarios is in one summary: none is counted for
\* the scenario before or after, and none is lost when an agent is created
\* anew in between.
THEOREM VerificationsAlwaysAccounted ==
    ASSUME WellSpaced
    PROVE  Spec => []VerificationsAccounted
<1> DEFINE Both == MainInv /\ Plan(World) /\ BooksPlan(World)
<1>1. Init => Both
  BY InitMainInv, InitPlan, InitBooks
<1>2. Both /\ [Next]_vars => Both'
  BY StepMainInv, StepPlanned, StepBooks DEF MainInv, Planned
<1>3. Both => VerificationsAccounted
  BY DEF BooksPlan, VerificationsAccounted, World
<1> QED
  BY <1>1, <1>2, <1>3, PTL DEF Spec
=============================================================================
