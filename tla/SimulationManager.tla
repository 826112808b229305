------------------------- MODULE SimulationManager -------------------------
(***************************************************************************)
(* SimulationManager of scratch/nr-immortal.cc: the agents, the failure    *)
(* scenarios that destroy, move and restore them, and the timers these     *)
(* scenarios leave in the event queue, with the metrics collector and the  *)
(* colours of the visualizer they drive.                                   *)
(*                                                                         *)
(* An operator named after a method maps the world the method is called in *)
(* to the world it leaves; a method that calls others composes theirs.  An *)
(* action takes one event off the queue and runs its whole handler.  Every *)
(* call "if (m_vis)" guards is made: main always passes a visualizer.      *)
(***************************************************************************)
EXTENDS Simulator, Agents, RealMetricsCollector

CONSTANTS
    Gnb, Primary, Secondary,  \* m_gnb, m_primaryEdge, m_secondaryEdge
    RecoveryDelay             \* from a crash or teardown to the restoration

Nodes == {Gnb, Primary, Secondary}

ASSUME NodesAssumption == /\ Gnb # Primary /\ Gnb # Secondary
                          /\ Primary # Secondary
ASSUME DelayAssumption == RecoveryDelay \in Nat \ {0}

VARIABLES
    enterprise,         \* m_enterprise
    twin,               \* m_twin
    recoveryScheduled,  \* m_recoveryScheduled
    scenario,           \* m_currentScenarioName, m_failureStartTime,
                        \*   m_verificationEventsDuringScenario
    metrics,            \* the collector m_metrics points to
    colour,             \* the colour of each node's icon
    report              \* what PrintFinalReport printed; << >> before

managerVars == <<enterprise, twin, recoveryScheduled, scenario, metrics,
                 colour, report>>
vars == <<simulatorVars, managerVars>>

World == [now |-> now, queue |-> queue, uid |-> uid, running |-> running,
          enterprise |-> enterprise, twin |-> twin,
          recoveryScheduled |-> recoveryScheduled, scenario |-> scenario,
          metrics |-> metrics, colour |-> colour, report |-> report]

Becomes(w) ==
    /\ now' = w.now /\ queue' = w.queue /\ uid' = w.uid
    /\ running' = w.running /\ enterprise' = w.enterprise /\ twin' = w.twin
    /\ recoveryScheduled' = w.recoveryScheduled /\ scenario' = w.scenario
    /\ metrics' = w.metrics /\ colour' = w.colour /\ report' = w.report

\* The world the event loop starts in
StartsAs(w) ==
    /\ now = w.now /\ queue = w.queue /\ uid = w.uid
    /\ running = w.running /\ enterprise = w.enterprise /\ twin = w.twin
    /\ recoveryScheduled = w.recoveryScheduled /\ scenario = w.scenario
    /\ metrics = w.metrics /\ colour = w.colour /\ report = w.report

---------------------------------------------------------------------------
(* Scenario bookkeeping and samples                                        *)

NoScenario == [name |-> << >>, start |-> 0, events |-> 0]

\* Faults: the count, or the start time, of the scenario before is kept
StartScenarioKeepingCount(w, name) ==
    [w EXCEPT !.scenario = [@ EXCEPT !.name = name, !.start = w.now]]
StartScenarioKeepingStart(w, name) ==
    [w EXCEPT !.scenario = [name |-> name, start |-> @.start, events |-> 0]]

StartScenario(w, name) ==
    [w EXCEPT !.scenario = [name |-> name, start |-> w.now, events |-> 0]]

\* Fault: a scenario without downtime gets no summary
EndScenarioAfterDowntime(w) ==
    IF w.now = w.scenario.start THEN w
    ELSE [w EXCEPT !.metrics = AddScenarioSummary(@, w.scenario.name,
                            w.now - w.scenario.start, w.scenario.events)]

EndScenario(w) ==
    LET downtime == IF w.scenario.start > 0 THEN w.now - w.scenario.start ELSE 0
    IN  [w EXCEPT !.metrics = AddScenarioSummary(@, w.scenario.name, downtime,
                                                 w.scenario.events)]

Record(w, label) == [w EXCEPT !.metrics = RecordMetrics(@, w.now, label)]

---------------------------------------------------------------------------
(* The visualizer's part of a handler                                      *)

Paint(w, nodes, c) ==
    [w EXCEPT !.colour = [n \in DOMAIN @ |-> IF n \in nodes THEN c ELSE @[n]]]

\* Fault: the badge stays for 13 seconds
ShowIdentityVerificationTooLong(w, node) ==
    Schedule(Paint(w, {Gnb, node}, "Verification_Success"), 130,
             "ResetColours", <<node>>)

\* ShowIdentityVerificationSuccess leaves a timer that restores the colours
ShowIdentityVerificationSuccess(w, node) ==
    Schedule(Paint(w, {Gnb, node}, "Verification_Success"), 20,
             "ResetColours", <<node>>)

\* Fault: the verifier is forgotten
ResetVerifiedColour(w, node) == Paint(w, {node}, "Edge_Normal")

ResetColours(w, node) ==
    Paint(Paint(w, {Gnb}, "gNB_Normal"), {node}, "Edge_Normal")

InitializeNodesDelayed(w) ==
    Paint(Paint(Paint(w, {Gnb}, "gNB_Normal"), {Primary}, "Edge_Normal"),
          {Secondary}, "Edge_Offline")

---------------------------------------------------------------------------
(* Agents                                                                  *)

AgentsPresent(w) == w.enterprise # NoAgent /\ w.twin # NoAgent

\* Fault: the new twin is not given the reference
CreateAgentsUnregistered(w) ==
    [w EXCEPT !.twin = NewTwin(Gnb, JmcOrigin),
              !.enterprise = NewEnterprise(Primary, AegisRan)]

\* Fault: a restoration that finds a twin keeps it, counters and all
CreateAgentsKeepingTwin(w) ==
    [w EXCEPT !.twin = IF @ # NoAgent THEN @
                       ELSE RegisterReference(NewTwin(Gnb, JmcOrigin),
                                         AegisRan.name, Reference(AegisRan)),
              !.enterprise = NewEnterprise(Primary, AegisRan)]

\* Both agents created anew from the genesis data, the reference registered
CreateAgents(w) ==
    [w EXCEPT !.twin = RegisterReference(NewTwin(Gnb, JmcOrigin),
                                         AegisRan.name, Reference(AegisRan)),
              !.enterprise = NewEnterprise(Primary, AegisRan)]

InitializeAgents(w) == CreateAgents(w)

\* A manager just constructed, nothing scheduled yet
EmptyWorld ==
    [now |-> 0, queue |-> {}, uid |-> FirstUid, running |-> TRUE,
     enterprise |-> NoAgent, twin |-> NoAgent, recoveryScheduled |-> FALSE,
     scenario |-> NoScenario, metrics |-> NewCollector,
     colour |-> [n \in Nodes |-> "Default"], report |-> << >>]

\* m_twin->VerifyAgentContinuity(m_enterprise)
VerifyAgentContinuity(w) ==
    LET ok == Continuous(w.twin, w.enterprise)
    IN  [w EXCEPT !.twin = CountCheck(@, ok),
                  !.metrics = IncVerificationEvents(@, ok)]

\* The same call from a scenario handler, which counts it
VerifyInScenario(w) ==
    [VerifyAgentContinuity(w) EXCEPT !.scenario.events = @ + 1]

\* Fault: the flag stays set, and no later failure schedules a restoration
KeepFlag(w) == w

ClearFlag(w) == [w EXCEPT !.recoveryScheduled = FALSE]

\* The common body of RecoverFromCrash and RedeploySystem
Restore(w, label) ==
    LET created  == CreateAgents(ClearFlag(w))
        painted  == Paint(created, {Primary}, "Edge_Reappeared")
        verified == VerifyInScenario(painted)
        shown    == IF Continuous(created.twin, created.enterprise)
                    THEN ShowIdentityVerificationSuccess(verified, Primary)
                    ELSE verified
    IN  EndScenario(Record(shown, label))

RecoverFromCrash(w) ==
    Restore(w, <<"Continuity", "Success", "Crash", "Recovery">>)

RedeploySystem(w) ==
    Restore(w, <<"Continuity", "Success", "Teardown", "Redeploy">>)

EnsureAgentsPresent(w) == IF AgentsPresent(w) THEN w ELSE RecoverFromCrash(w)

\* Fault: only the twin is destroyed
DestroyTwin(w, restoration) == [w EXCEPT !.twin = NoAgent]

\* Fault: a second failure puts the restoration off
DestroyAgentsAnew(w, restoration) ==
    Schedule([w EXCEPT !.enterprise = NoAgent, !.twin = NoAgent,
                       !.recoveryScheduled = TRUE,
                       !.queue = {e \in @ : e.op # restoration}],
             RecoveryDelay, restoration, << >>)

\* Both Ptrs reset; a restoration is scheduled unless one is already pending
DestroyAgents(w, restoration) ==
    LET gone == [w EXCEPT !.enterprise = NoAgent, !.twin = NoAgent]
    IN  IF w.recoveryScheduled THEN gone
        ELSE Schedule([gone EXCEPT !.recoveryScheduled = TRUE],
                      RecoveryDelay, restoration, << >>)

---------------------------------------------------------------------------
(* Scenario handlers                                                       *)

RunBaselineFailureScenario(w) ==
    \* a1 and a2 are local: both duplicates are gone when the handler returns
    LET started == StartScenario(w, <<"Baseline", "Failure">>)
        painted == Paint(started, {Primary, Secondary}, "SplitBrain")
        mid     == Schedule(painted, 50, "RecordMetrics",
                            <<"Baseline", "Failure", "Mid">>)
        end     == Schedule(mid, 100, "RecordMetrics",
                            <<"Baseline", "Failure", "End">>)
    IN  Schedule(end, 110, "EndScenario", << >>)

TriggerNodeCrash(w) ==
    LET started == StartScenario(w, <<"Node", "Crash">>)
        painted == Schedule(Paint(started, {Primary}, "Edge_Crash"), 5,
                            "ShowAgentDisappears", <<Primary>>)
    IN  DestroyAgents(Record(painted, <<"Crash", "During">>),
                      "RecoverFromCrash")

\* The handlers below begin alike and return at once if that leaves no agent
Begin(w, name) == EnsureAgentsPresent(StartScenario(w, name))

TriggerAgentMigration(w) ==
    LET begun    == Begin(w, <<"Agent", "Migration">>)
        sampled  == Record(begun, <<"Migration", "Start">>)
        moved    == [Paint(sampled, {Primary}, "Edge_Migrating")
                        EXCEPT !.enterprise = Migrate(@, Secondary)]
        leaving  == Schedule(moved, 2, "ShowAgentDisappears", <<Primary>>)
        arriving == Schedule(leaving, 5, "ShowMigratedAgent", <<Secondary>>)
        verified == VerifyInScenario(arriving)
        shown    == IF Continuous(begun.twin, moved.enterprise)
                    THEN Schedule(verified, 10, "ShowVerified", <<Secondary>>)
                    ELSE verified
    IN  IF AgentsPresent(begun)
        THEN EndScenario(Schedule(shown, 10, "RecordMetrics",
                                  <<"Continuity", "Success", "Migration">>))
        ELSE begun

TriggerProcessRestart(w) ==
    LET begun     == Begin(w, <<"Process", "Restart">>)
        sampled   == Record(begun, <<"Restart", "Start">>)
        node      == begun.enterprise.host
        leaving   == Schedule(Paint(sampled, {node}, "Edge_Crash"), 2,
                              "ShowAgentDisappears", <<node>>)
        arriving  == Schedule(leaving, 5, "ShowAgentReappears", <<node>>)
        \* created on m_primaryEdge, whatever the host was
        restarted == [arriving EXCEPT !.enterprise =
                                  NewEnterprise(Primary, @.identity)]
        verified  == VerifyInScenario(restarted)
        shown     == IF Continuous(begun.twin, restarted.enterprise)
                     THEN Schedule(verified, 10, "ShowVerified", <<node>>)
                     ELSE verified
    IN  IF AgentsPresent(begun)
        THEN EndScenario(Schedule(shown, 10, "RecordMetrics",
                           <<"Continuity", "Success", "Process", "Restart">>))
        ELSE begun

TriggerFullTeardown(w) ==
    LET begun   == Begin(w, <<"Full", "Teardown">>)
        sampled == Record(begun, <<"Teardown", "Start">>)
        node    == begun.enterprise.host
        painted == Schedule(Paint(sampled, {node}, "Edge_Crash"), 5,
                            "ShowAgentDisappears", <<node>>)
    IN  IF AgentsPresent(begun) THEN DestroyAgents(painted, "RedeploySystem")
                                ELSE begun

TriggerNetworkPartition(w) ==
    \* the duplicate is local, as in RunBaselineFailureScenario
    LET started == StartScenario(w, <<"Network", "Partition">>)
        offline == IF w.twin # NoAgent
                   THEN Paint(started, {Gnb}, "Twin_Offline") ELSE started
        painted == Paint([offline EXCEPT !.twin = NoAgent],
                         {Primary, Secondary}, "SplitBrain")
        mid     == Schedule(painted, 25, "RecordMetrics",
                            <<"Network", "Partition", "Mid">>)
        end     == Schedule(mid, 45, "RecordMetrics",
                            <<"Network", "Partition", "End">>)
    IN  Schedule(end, 50, "EndScenario", << >>)

\* The counts come from the twin, and are 0 when there is none
PrintFinalReport(w) ==
    [w EXCEPT !.report = <<
        IF w.twin = NoAgent THEN [checks |-> 0, success |-> 0, fail |-> 0]
        ELSE [checks |-> TotalChecks(w.twin), success |-> w.twin.success,
              fail |-> w.twin.fail]>>]

---------------------------------------------------------------------------
(* One action per event of the manager and the visualizer                  *)

BaselineFailure == \E e \in Due("RunBaselineFailureScenario") :
    Becomes(RunBaselineFailureScenario(Dequeue(World, e)))

NodeCrash == \E e \in Due("TriggerNodeCrash") :
    Becomes(TriggerNodeCrash(Dequeue(World, e)))

CrashRecovery == \E e \in Due("RecoverFromCrash") :
    Becomes(RecoverFromCrash(Dequeue(World, e)))

AgentMigration == \E e \in Due("TriggerAgentMigration") :
    Becomes(TriggerAgentMigration(Dequeue(World, e)))

ProcessRestart == \E e \in Due("TriggerProcessRestart") :
    Becomes(TriggerProcessRestart(Dequeue(World, e)))

FullTeardown == \E e \in Due("TriggerFullTeardown") :
    Becomes(TriggerFullTeardown(Dequeue(World, e)))

Redeployment == \E e \in Due("RedeploySystem") :
    Becomes(RedeploySystem(Dequeue(World, e)))

NetworkPartition == \E e \in Due("TriggerNetworkPartition") :
    Becomes(TriggerNetworkPartition(Dequeue(World, e)))

DelayedSample == \E e \in Due("RecordMetrics") :
    Becomes(Record(Dequeue(World, e), e.arg))

DelayedEnd == \E e \in Due("EndScenario") :
    Becomes(EndScenario(Dequeue(World, e)))

AgentDisappears == \E e \in Due("ShowAgentDisappears") :
    Becomes(Paint(Dequeue(World, e), {e.arg[1]}, "Edge_Offline"))

\* After a restart: painted whatever became of the agent meanwhile
AgentReappears == \E e \in Due("ShowAgentReappears") :
    Becomes(Paint(Dequeue(World, e), {e.arg[1]}, "Edge_Reappeared"))

\* After a migration: only if there is an agent
MigratedAgentAppears == \E e \in Due("ShowMigratedAgent") :
    LET w == Dequeue(World, e)
    IN  Becomes(IF w.enterprise # NoAgent
                THEN Paint(w, {e.arg[1]}, "Edge_Reappeared") ELSE w)

VerificationShown == \E e \in Due("ShowVerified") :
    LET w == Dequeue(World, e)
    IN  Becomes(IF AgentsPresent(w)
                THEN ShowIdentityVerificationSuccess(w, e.arg[1]) ELSE w)

ColoursReset == \E e \in Due("ResetColours") :
    Becomes(ResetColours(Dequeue(World, e), e.arg[1]))

LoopStops == \E e \in Due("Stop") : Becomes(StopLoop(Dequeue(World, e)))

\* Run has returned
Finished == IsFinished /\ UNCHANGED vars

ManagerNext ==
    \/ BaselineFailure \/ NodeCrash \/ CrashRecovery
    \/ AgentMigration \/ ProcessRestart \/ FullTeardown \/ Redeployment \/ NetworkPartition
    \/ DelayedSample \/ DelayedEnd
    \/ AgentDisappears \/ AgentReappears \/ MigratedAgentAppears
    \/ VerificationShown \/ ColoursReset
    \/ LoopStops \/ Finished

---------------------------------------------------------------------------
(* Properties                                                              *)

Restorations == {"RecoverFromCrash", "RedeploySystem"}

\* The events bound to a node; all others take a label, or nothing
NodeHandlers == {"ShowAgentDisappears", "ShowAgentReappears",
                 "ShowMigratedAgent", "ShowVerified", "ResetColours"}
LabelHandlers ==
    Restorations \cup
    {"RunBaselineFailureScenario", "TriggerNodeCrash",
     "TriggerAgentMigration", "TriggerProcessRestart", "TriggerFullTeardown",
     "TriggerNetworkPartition", "RecordMetrics", "EndScenario", "Stop",
     \* scheduled by main
     "InitializeNodesDelayed", "CaptureBaseline", "StartContinuity",
     "StartPartition", "FinalReport"}
Colours ==
    {"Default", "gNB_Normal", "Edge_Normal", "Edge_Crash", "Edge_Offline",
     "Edge_Migrating", "Edge_Reappeared", "Verification_Success",
     "SplitBrain", "Twin_Offline"}

Words == {"Agent", "BASELINE", "Baseline", "Check", "Continuity", "Crash",
          "During", "End", "Failure", "Final", "Full", "Mid", "Migration",
          "Network", "Node", "Normal", "Partition", "Periodic",
          "Pre-Baseline", "Process", "Recovery", "Redeploy", "Restart",
          "Start", "Success", "Teardown"}
Labels == Seq(Words)

Events == [ts : Nat, uid : Nat, op : LabelHandlers, arg : Labels]
    \cup [ts : Nat, uid : Nat, op : NodeHandlers, arg : {<<n>> : n \in Nodes}]

\* An enterprise agent always is Aegis-RAN, and a twin always holds the
\* reference of Aegis-RAN and no other.
EnterpriseAgents == [identity : {AegisRan}, host : Nodes]
TwinAgents ==
    [identity : {JmcOrigin}, host : {Gnb},
     references : [{AegisRan.name} -> {Reference(AegisRan)}],
     success : Nat, fail : Nat]

Samples == [ts : Nat, label : Labels, interval : Int, events : Nat,
            success : BOOLEAN]
Summaries == [name : Labels, downtime : Int, events : Nat, averaged : Nat]
Collectors ==
    [samples : Seq(Samples), summaries : Seq(Summaries),
     baseline : Seq(Samples), total : Nat, lastResult : BOOLEAN,
     lastSampleTime : Nat]

Worlds ==
    [now : Nat, queue : SUBSET Events, uid : Nat, running : BOOLEAN,
     enterprise : EnterpriseAgents \cup {NoAgent},
     twin : TwinAgents \cup {NoAgent},
     recoveryScheduled : BOOLEAN,
     scenario : [name : Labels, start : Nat, events : Nat],
     metrics : Collectors, colour : [Nodes -> Colours],
     report : Seq([checks : Nat, success : Nat, fail : Nat])]

ASSUME NoAgentAssumption == /\ NoAgent \notin EnterpriseAgents
                            /\ NoAgent \notin TwinAgents

\* Types, with the identity every agent has and the reference every twin holds.
TypeOK == World \in Worlds

\* The event queue: no event is in the past (ProcessOneEvent asserts it) and
\* no two have one key (MapScheduler::Insert asserts it).
QueueWellFormed ==
    /\ \A e \in queue : e.ts >= now /\ e.uid < uid
    /\ \A e, f \in queue : e.uid = f.uid => e = f

\* Whatever the order of crashes, migrations, restarts and teardowns, no
\* verification fails: every path that replaces an agent leaves the twin with
\* the reference the enterprise agent's identity matches.
NoCheckFails == /\ twin # NoAgent => twin.fail = 0
                /\ metrics.total > 0 => metrics.lastResult

\* While the enterprise agent is down a restoration is pending, and due no
\* later than RecoveryDelay after the scenario in progress started.
RestorationPending ==
    enterprise = NoAgent =>
        \E e \in queue : /\ e.op \in Restorations
                         /\ e.ts <= scenario.start + RecoveryDelay

\* The twin's own counters, lost each time it is replaced, never claim more
\* checks than the collector has counted.
TwinCountsAtMostTotal == twin # NoAgent => TotalChecks(twin) <= metrics.total

\* The samples a restoration takes, right after the first check of the twin it
\* has created
RestorationSamples ==
    {<<"Continuity", "Success", "Crash", "Recovery">>,
     <<"Continuity", "Success", "Teardown", "Redeploy">>}

\* The collector had counted n checks when the last twin was created: n is one
\* less than the last restoration's sample counts, 0 before any restoration.
CountedBefore(samples, n) ==
    LET restored == {i \in DOMAIN samples :
                        samples[i].label \in RestorationSamples}
    IN  \/ restored = {} /\ n = 0
        \/ \E i \in restored : /\ \A j \in restored : j <= i
                               /\ n = samples[i].events - 1

\* The counters PrintFinalReport prints are those of the current twin alone:
\* the checks made since the restoration that created it, none made by an
\* earlier twin, none missed, even when a stale timer replaces a live twin.
TwinCountsItsOwn ==
    twin # NoAgent =>
        CountedBefore(metrics.samples, metrics.total - TotalChecks(twin))

\* A verification badge never stays: whenever a node is painted verified, a
\* timer that repaints this node is pending.
BadgesExpire ==
    \A n \in Nodes : colour[n] = "Verification_Success" =>
        \E e \in queue : /\ e.op = "ResetColours"
                         /\ n \in {Gnb, e.arg[1]}

\* The inductive invariant, of the world between two handlers.  The agent is
\* down only while m_recoveryScheduled is set, and that is never left set with
\* no restoration pending: a crash that finds it set relies on the timer.
RestorationDue(w) ==
    \E e \in w.queue : /\ e.op \in Restorations
                       /\ e.ts <= w.scenario.start + RecoveryDelay

\* What holds even of the world a restoration is dequeued from
CoreInv(w) ==
    /\ w \in Worlds
    /\ \A e \in w.queue : e.ts >= w.now /\ e.uid < w.uid
    /\ \A e, f \in w.queue : e.uid = f.uid => e = f
    /\ w.scenario.start <= w.now
    /\ w.twin # NoAgent =>
        w.twin.fail = 0 /\ w.twin.success <= w.metrics.total
    /\ w.metrics.total > 0 => w.metrics.lastResult

WorldInv(w) ==
    /\ CoreInv(w)
    /\ w.enterprise = NoAgent => w.recoveryScheduled
    /\ w.recoveryScheduled => RestorationDue(w)

IInv == WorldInv(World)

\* Only a partition takes the twin away and leaves the enterprise agent: every
\* other step keeps both or neither.
OnlyPartitionOrphans ==
    [][twin # NoAgent /\ twin' = NoAgent /\ enterprise' # NoAgent
        => scenario'.name = <<"Network", "Partition">>]_vars
=============================================================================
