---------------------------- MODULE AnyTimeline ----------------------------
(***************************************************************************)
(* SimulationManager driven by any timeline of its public operations:      *)
(* main's calls are one such timeline, its delays are literals that a      *)
(* scenario author moves.  An operation is called at some time of Slots;   *)
(* the loop runs until no event is left.                                   *)
(***************************************************************************)
EXTENDS SimulationManager

CONSTANTS
    Slots,     \* the times an operation is called at
    Calls      \* how many calls a timeline has

ASSUME SlotsAssumption == Slots \subseteq Nat /\ Calls \in Nat

Operations ==
    {"RunBaselineFailureScenario", "TriggerNodeCrash",
     "TriggerAgentMigration", "TriggerProcessRestart", "TriggerFullTeardown",
     "TriggerNetworkPartition"}

\* What the queue holds when Run starts: one call of an operation at a slot
\* for each number below Calls
Timelines == [0 .. Calls - 1 -> Slots \X Operations]

TimelineEvents(timeline) ==
    {Event(timeline[i][1], FirstUid + i, timeline[i][2], << >>) :
        i \in DOMAIN timeline}

StartWorld(timeline) ==
    [InitializeAgents(EmptyWorld) EXCEPT !.queue = TimelineEvents(timeline),
                                         !.uid = FirstUid + Calls]

Init == \E timeline \in Timelines : StartsAs(StartWorld(timeline))

\* Run keeps dispatching until it is finished: weak fairness of ManagerNext, which
\* is enabled, and changes vars, exactly while the loop is not finished.
Fairness == []<>IsFinished \/ []<><<ManagerNext>>_vars

Spec == Init /\ [][ManagerNext]_vars /\ Fairness
=============================================================================
