----------------------------- MODULE NrImmortal -----------------------------
(***************************************************************************)
(* main() of scratch/nr-immortal.cc: the events it schedules before        *)
(* Simulator::Run, for each value of the --time option in SimTimes, and    *)
(* the event loop running them together with SimulationManager's.          *)
(***************************************************************************)
EXTENDS SimulationManager

CONSTANTS
    SimTimes,         \* the values of --time considered
    ContinuityStart,  \* when main starts the continuity scenarios ...
    CrashAfter, MigrationAfter, RestartAfter, TeardownAfter, \* ... their delays
    PartitionStart, PartitionAfter,
    SamplePeriod      \* of the "Periodic Check" samples

\* Below two seconds main gives the clients a negative stop time, which ns-3
\* refuses to schedule.
ASSUME TimelineAssumption ==
    /\ SimTimes \subseteq {t \in Nat : t >= 20}
    /\ SamplePeriod \in Nat \ {0}
    /\ {ContinuityStart, CrashAfter, MigrationAfter, RestartAfter,
        TeardownAfter, PartitionStart, PartitionAfter} \subseteq Nat

ReportTime(t) == t - 5

\* The events main schedules, in its order; n "Periodic Check"s
InitialEvents(t) ==
    LET n == (t - 1) \div SamplePeriod
        u == FirstUid
    IN  {Event(1, u, "InitializeNodesDelayed", << >>),
         Event(5, u + 1, "CaptureBaseline", << >>),
         Event(10, u + 2, "RecordMetrics", <<"Pre-Baseline", "Normal">>),
         Event(10, u + 3, "RunBaselineFailureScenario", << >>)}
        \cup {Event(k * SamplePeriod, u + 3 + k, "RecordMetrics",
                    <<"Periodic", "Check">>) : k \in 1 .. n}
        \cup {Event(ContinuityStart, u + n + 4, "StartContinuity", << >>),
              Event(PartitionStart, u + n + 5, "StartPartition", << >>),
              Event(ReportTime(t), u + n + 6, "FinalReport", << >>),
              Event(t, u + n + 7, "Stop", << >>)}

\* What main has built when it calls Simulator::Run
StartWorld(t) ==
    [InitializeAgents(EmptyWorld) EXCEPT
        !.queue = InitialEvents(t),
        !.uid = FirstUid + 8 + (t - 1) \div SamplePeriod]

Init == \E t \in SimTimes : StartsAs(StartWorld(t))

---------------------------------------------------------------------------
ScheduleContinuitySuccessScenarios(w) ==
    Schedule(Schedule(Schedule(Schedule(w,
        CrashAfter,     "TriggerNodeCrash", << >>),
        MigrationAfter, "TriggerAgentMigration", << >>),
        RestartAfter,   "TriggerProcessRestart", << >>),
        TeardownAfter,  "TriggerFullTeardown", << >>)

ScheduleNetworkPartitionScenario(w) ==
    Schedule(w, PartitionAfter, "TriggerNetworkPartition", << >>)

FinalCheck(w) == IF AgentsPresent(w) THEN VerifyAgentContinuity(w) ELSE w

NodesInitialized == \E e \in Due("InitializeNodesDelayed") :
    Becomes(InitializeNodesDelayed(Dequeue(World, e)))

BaselineCaptured == \E e \in Due("CaptureBaseline") :
    Becomes([Dequeue(World, e) EXCEPT !.metrics = CaptureBaseline(@, e.ts)])

ContinuityStarts == \E e \in Due("StartContinuity") :
    Becomes(ScheduleContinuitySuccessScenarios(
                InitializeAgents(Dequeue(World, e))))

PartitionStarts == \E e \in Due("StartPartition") :
    Becomes(ScheduleNetworkPartitionScenario(Dequeue(World, e)))

FinalReport == \E e \in Due("FinalReport") :
    Becomes(PrintFinalReport(Record(FinalCheck(Dequeue(World, e)),
                                    <<"Final">>)))

Next == \/ NodesInitialized \/ BaselineCaptured \/ ContinuityStarts
        \/ PartitionStarts \/ FinalReport
        \/ ManagerNext

\* Run keeps dispatching until it is finished: weak fairness of Next, which
\* is enabled, and changes vars, exactly while the loop is not finished.
Fairness == []<>IsFinished \/ []<><<Next>>_vars

Spec == Init /\ [][Next]_vars /\ Fairness

---------------------------------------------------------------------------
(* Properties of main's timeline, for every --time in SimTimes             *)

\* How main's literals are spaced: a scenario that lasts is over before the
\* next is started, and the partition comes last.
WellSpaced ==
    /\ 10 + 110 < ContinuityStart + CrashAfter
    /\ CrashAfter + RecoveryDelay < MigrationAfter
    /\ MigrationAfter < RestartAfter
    /\ RestartAfter < TeardownAfter
    /\ ContinuityStart + TeardownAfter + RecoveryDelay
        < PartitionStart + PartitionAfter

\* And how the pictures are: a scenario's last timer of the animation runs out
\* 30 after its end at the latest, before the next outage begins.
PicturesSettle ==
    /\ 10 + 110 + 30 < ContinuityStart + CrashAfter
    /\ RestartAfter + 30 < TeardownAfter
    /\ ContinuityStart + TeardownAfter + RecoveryDelay + 30
        < PartitionStart + PartitionAfter

\* main leaves more than RecoveryDelay between two failures, so a restoration
\* is pending exactly while m_recoveryScheduled is set: the timer of one
\* failure never fires during the next.
TimerMatchesFlag ==
    Cardinality({e \in queue : e.op \in Restorations})
        = IF recoveryScheduled THEN 1 ELSE 0

\* A scenario's name, start and count are overwritten by the next only after
\* its own summary was written.
ScenariosDoNotOverlap ==
    [][scenario'.name # scenario.name =>
        \/ scenario.name = << >>
        \/ /\ metrics.summaries # << >>
           /\ metrics.summaries[Len(metrics.summaries)].name
                = scenario.name]_vars

\* What the summaries s add up to
Reported(s) ==
    LET sum[n \in 0 .. Len(s)] == IF n = 0 THEN 0 ELSE sum[n - 1] + s[n].events
    IN  sum[Len(s)]

\* Each verification before the final one is counted in one summary: what the
\* summaries add up to is the collector's total.
VerificationsAccounted ==
    report = << >> => Reported(metrics.summaries) = metrics.total

\* The downtime each scenario is meant to show
ExpectedDowntime(name) ==
    CASE name = <<"Baseline", "Failure">>   -> 110
      [] name = <<"Network", "Partition">>  -> 50
      [] name \in {<<"Node", "Crash">>, <<"Full", "Teardown">>}
                                            -> RecoveryDelay
      [] OTHER                              -> 0

\* The downtimes reported are those: no summary is written under the name or
\* the start time of another scenario.
DowntimesAsExpected ==
    \A i \in DOMAIN metrics.summaries :
        metrics.summaries[i].downtime
            = ExpectedDowntime(metrics.summaries[i].name)

\* The animation shows an outage as long as it lasts, whatever timers earlier
\* scenarios left: the primary edge is red or dark gray while the enterprise
\* agent is down, the gNB is gray while only the twin is gone.
OutageIsShown ==
    /\ enterprise = NoAgent
        => colour[Primary] \in {"Edge_Crash", "Edge_Offline"}
    /\ enterprise # NoAgent /\ twin = NoAgent
        => colour[Gnb] = "Twin_Offline"

\* A scenario that has started gets its summary, if the simulation is long
\* enough for it.
EveryScenarioEnds ==
    \A name \in {<<"Baseline", "Failure">>, <<"Node", "Crash">>,
                 <<"Full", "Teardown">>, <<"Network", "Partition">>} :
        /\ scenario.name = name
        /\ \E e \in queue :
              e.op = "Stop" /\ scenario.start + ExpectedDowntime(name) < e.ts
        ~> \E i \in DOMAIN metrics.summaries :
                metrics.summaries[i].name = name
=============================================================================
