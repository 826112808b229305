# Verification of the ACELOGIC 5G RAN continuity simulation

The repository holds one program of its own, `src/immortal-ns3/scratch/nr-immortal.cc`,
inside a full tree of ns-3. The program runs a 5G network in simulated time and puts two
software agents through a set of failures: an *enterprise agent* on an edge node, and a
*twin* on the gNB that verifies, after every disturbance, that the enterprise agent still
has the identity it was created with. What it claims is a claim of continuity: whatever
fails, the agents come back, as themselves, in bounded time, and the reports say so.

This directory models that program, the parts of ns-3 its claim rests on (the two event
loops, the event queues behind them, the link its packets cross), model-checks them and
proves the central claims for every value of the parameters.

## 1. Inventory

### 1.1 Components

| component | where | state | operations |
|---|---|---|---|
| `SimulationManager` | nr-immortal.cc 1142-1459 | `m_enterprise`, `m_twin`, `m_recoveryScheduled`, the current scenario (name, start, verification count) | `InitializeAgents`, `RunBaselineFailureScenario`, `Trigger{NodeCrash, AgentMigration, ProcessRestart, FullTeardown, NetworkPartition}`, `RecoverFromCrash`, `RedeploySystem`, `EnsureAgentsPresent`, `StartScenario`, `EndScenario`, `PrintFinalReport` |
| `main` | 1465-1647 | the `--time` option (no state after `Run` starts) | schedules the whole timeline before `Simulator::Run` |
| `ImmortalIdentity` | 1000-1055 | the parsed fields and the fingerprint | parse a `KEY:value\|KEY:value` record, hash seven of its fields |
| `ImmortalAgent`, `EnterpriseAgent`, `TwinAgent` | 1057-1140 | identity, host; the twin's references and counters | `Migrate`, `RegisterReference`, `VerifyAgentContinuity` |
| `RealMetricsCollector` | 477-710 | samples, summaries, baseline, verification columns, time of the last sample, byte count at the last sample | `CaptureBaseline`, `RecordMetrics`, `AddScenarioSummary`, `IncVerificationEvents` |
| `SimplifiedVisualizer` | 750-990 | the colour of every node | one call per kind of event, some of which leave a timer |
| traffic: `UdpClientWithHeader`, `PacketSinkWithStats` | 226-475 | sequence numbers, byte and loss counters, sockets, one pending send | start, stop, send, receive |
| event loop (`DefaultSimulatorImpl`, `EventId`, `EventImpl`) | src/core/model | current time and identifier, pending events, the list and flag of events of other threads, destroy events, stop flag | `Schedule*`, `Cancel`, `Remove`, `IsExpired`, `Run`, `ProcessOneEvent`, `ProcessEventsWithContext`, `Stop`, `Destroy` |
| real-time event loop (`RealtimeSimulatorImpl`, `WallClockSynchronizer`) | src/core/model | the same with a mutex; origin of the wall clock, condition | the same; `Synchronize`, `SleepWait`, `SpinWait`, `Signal` |
| schedulers (`Map`, `List`, `Heap`, `Calendar`, `PriorityQueue`) | src/core/model | the pending events in five representations | `Insert`, `IsEmpty`, `PeekNext`, `RemoveNext`, `Remove`; `SetScheduler` |
| point-to-point link (`TrafficControlLayer`, `FqCoDelQueueDisc`, `CoDelQueueDisc`, `NetDeviceQueue`, `PointToPointNetDevice`, `DropTailQueue`, `PointToPointChannel`) | src/traffic-control, src/network, src/point-to-point | flow queues and the two lists of flows, quota of a run, device queue, stopped flag, pending check, packets on the wire | `Send`, `Enqueue`, `Dequeue`, `Run`, `TransmitStart`, `TransmitComplete`, `PacketDequeued`, `Wake`, `Receive` |
| reference counting (`Ptr`, `SimpleRefCount`) | src/core/model | a count per object | `Ref`, `Unref` |
| 5G stack (5G-LENA), other network models, NetAnim, scripts, build system | contrib, src/*, *.py | - | configured by `main`, otherwise used as is |

### 1.2 How they interact

The program itself runs in one thread, inside `Simulator::Run`. A component calls another
directly (the manager calls the twin, the collector and the visualizer within one handler)
or leaves an event in the queue: a lambda with the objects it needs. Two such lambdas are
ordered by their time and, at the same time, by the order they were scheduled in. No
component ever cancels an event of the manager: each timer eventually fires, whatever
happened to the objects it was set for.

ns-3 lets other threads in by one door, `ScheduleWithContext`; the default loop takes their
events over between two of its own, the real-time loop is woken by them while it waits for
the wall clock. Both loops keep their events in a `Scheduler`, which may be exchanged while
events are pending. The links between the gNB's core and the edges are point-to-point
devices under a queue disc, since `Ipv4AddressHelper` installs one: the disc hands packets
to the device until flow control stops it, and the device's queue wakes the disc by an event.

### 1.3 What is hard, and what should hold

* **Timers that outlive their reason.** A crash leaves a recovery timer. A migration,
  restart or teardown that finds no agent recovers on the spot (`EnsureAgentsPresent`)
  and clears `m_recoveryScheduled`, but the timer stays in the queue; it fires later,
  replaces live agents, and may clear the flag a later failure has just set. That later
  failure scheduled nothing if the flag was set when it struck. *A missing agent must
  always have a restoration pending, and must be back within the recovery delay.*
* **Objects replaced under the feet of those that describe them.** Every restoration makes
  a new twin, with new counters and no reference until one is registered. *No verification
  may fail on the way; the twin's counters must be those of the checks made since it was
  created, and of no others.*
* **A summary written later than the scenario it describes** (baseline, partition, crash,
  teardown), from fields the next scenario overwrites. *Names, downtimes and counts must
  not be mixed.*
* **Events at one instant** (a crash and a periodic sample, one of them over an empty
  interval). *What the samples report adds up to what was received.*
* **Timers of the animation** that paint a node two seconds later. *An outage must stay
  visible as long as it lasts; a badge must not stay for ever.*
* **Traffic** that is lost, reordered and late, with a socket that closes before its timer
  and a sink that closes before the last packet. *No loss may go uncounted; no timer may
  send on a dead socket.*
* **Identifiers that outlive their events**, events of other threads, a flag read without
  its lock. *Nothing runs twice, nothing cancelled runs, no event is hidden for good.*
* **A wait that must be interrupted.** *An event inserted between planning a wait and
  waiting must not be overslept, and none may run early.*
* **Order kept by clever structures**: a heap, a calendar that doubles and halves. *All of
  them must be the same priority queue.*
* **Flow control split over two objects and an event.** *A queue disc must not be left with
  packets and nobody to take them; no flow may starve.*

The full list of hazards, each at its line, is in PROJECT.json.

## 2. Modules

| module | models | correspondence |
|---|---|---|
| `Simulator` | the event loop as the program uses it | `now`, `queue`, `uid`, `running` are `m_currentTs`, `m_events`, `m_uid`, `!m_stop`. An event is `[ts, uid, op, arg]`; `Due(op)` holds the event `RemoveNext` takes if it calls `op`; `Dequeue` is `ProcessOneEvent` up to the call; `Schedule(w, delay, op, arg)` is `Simulator::Schedule` |
| `ImmortalIdentity` | parsing, lineage default, the seven hashed fields | a record is a sequence of `<<key, value>>`; the last token of a key wins, as in the loop of assignments; SHA-256 is taken to be collision free |
| `Agents` | the three agent classes | an agent is a record, a null `Ptr` is `NoAgent`; a dropped object is gone |
| `RealMetricsCollector` | the collector | a record passed from call to call; of a sample it keeps what the properties need: time, label, interval, verification columns |
| `SimulationManager` | the manager, with the visualizer's part of each handler | see below |
| `AnyTimeline` | the manager under *any* timeline of its public operations | composes `SimulationManager` with a queue that holds up to `Calls` calls, at any times of `Slots` |
| `Continuity` | **abstract**: one agent, down now and then, never longer than the recovery delay, always the same one | - |
| `DownTime` | `AnyTimeline` with an auxiliary variable, and its refinement mapping to `Continuity` | `downSince` is a history variable; the program keeps no such time |
| `NrImmortal` | `main` | composes `SimulationManager` with the events `main` schedules, for each `--time` of `SimTimes` |
| `Documented` | what the README and the header comment say | properties of `NrImmortal` the program does not have |
| `Traffic` | one flow: client, network, sink, and the throughput columns | `SendPacket` is the handler with its reschedule; a datagram in the network is an event, its fate a choice: lost, or any of `Delays` |
| `EventCore` | `DefaultSimulatorImpl` with all its operations and other threads | one action per call of a user, and per step of the loop between two of them; `pushed`, `pushedEmpty` are the locked list and its unlocked flag |
| `RealtimeCore` | `RealtimeSimulatorImpl` and the synchronizer | one action per critical section or the code between two; `pc`, `waiting` are where the thread of `Run` is |
| `EventKeys` | `Scheduler::EventKey` and its `operator<` | the order all the schedulers share |
| `PriorityQueue` | **abstract**: a set of events of which the least is taken | - |
| `HeapScheduler`, `CalendarScheduler` | the two schedulers with an algorithm of their own | pure operators on a sequence (the heap) and a record of days (the calendar); their loops are recursive functions |
| `Schedulers` | a simulator's queue under any scheduler, exchanged at any moment | the `std` containers of the other schedulers are sets; `SetScheduler` moves the events one by one |
| `Pipe` | **abstract**: a lossy first-in first-out pipe per flow, which keeps no packet for ever | - |
| `FqCoDel` | the queue disc | one action per iteration of the loops of `DoDequeue`; CoDel's decisions are a set of outcomes |
| `Link` | traffic control, flow control, device, channel, around `FqCoDel` | `stopped` is `m_stoppedByDevice`, `check` the event of `PacketDequeued`, `wire` the packets whose `Receive` is scheduled, `quota` where `QueueDisc::Run` is |
| `*Proofs` | - | the proofs, one module per proved component |
| `MC*` | - | values of the constants for TLC |

**Handlers as functions.** In the modules of the program a handler runs to completion and
calls many methods, so each method is an operator from the world it is called in to the
world it leaves (the record `World` of all the variables): `TriggerNodeCrash(w)` is
`StartScenario`, the paint, the timer of the visualizer, the sample and the destruction, in
the order of the code. An action such as `NodeCrash` dequeues one event and `Becomes` the
result of the whole handler. `if (m_vis)` is always true in the program and so left out;
the early return after `EnsureAgentsPresent` is kept (the lemma `BeginRestores` shows it is
never taken). The modules of ns-3 have one action per operation instead, since others may
come between them.

**Data.** Time is an integer number of tenths of a second in the modules of the program, the
granularity of every delay in it. A label is the tuple of its words, because
`AddScenarioSummary` searches labels for a name with `find`, and a match always begins and
ends at a word boundary here. Colours are the names in the legend. Log output, fingerprint
previews, icon sizes and CSV files are left out. In `EventCore` and `RealtimeCore` an
`EventImpl` is its number in the order of creation. In `Link` a packet is its number, flow
and size.

**What decides the next step.** In `AnyTimeline` and `NrImmortal` the loop takes the only
minimal event, so a run is determined by its initial state, and what TLC enumerates are the
timelines. In `Traffic` the network chooses; in `EventCore` and `RealtimeCore` users and
threads call what they like between any two steps of the loop, and the wall clock moves when
it likes; in `Link` the pending events meet in any order but one: a check and a
reception lie at the times at which the transmissions they belong to begin and end
(`TransmitComplete` and `Receive` wait for the check).

## 3. What is checked

Passing runs check deadlock, except `link`: there nothing makes anyone send, so that the
model may stop when all packets have been sent. In the other models a stuttering action
(`Finished`, `Gone`, `Done`) is enabled only where the program may really stop, and a state
in which no action applies would be reported.

### 3.1 `any_timeline` - any order of failures

Three calls of any of the six scenarios, each at 1.0, 1.5, 3.0 or 3.2 s, with the recovery
delay of 2 s. 13 824 timelines, 105 953 states. The slots make all the interesting
distances occur: the same instant (both orders), less than the delay (0.2, 0.5, 1.5 s),
exactly the delay (1.0 and 3.0: the failure and the recovery meet at one instant), and
more. Three calls are needed for the worst case of the hazard above: a crash, an operation
that recovers on the spot, and a second failure before the first one's timer fires. A
fourth call only repeats one of these situations, as the flag and one or two timers are
all that is carried over; the theorems lift the bound for what they cover.

| property | says |
|---|---|
| `TypeOK` | types; every agent that ever exists is the genesis agent, every twin holds its reference and no other |
| `NoCheckFails` | no verification of continuity fails |
| `RestorationPending` | while the enterprise agent is down a restoration is pending, due at most the recovery delay after the scenario in progress started |
| `TwinCountsItsOwn` | the counters of the current twin, those the final report prints, add up to exactly the checks the collector counted since the restoration that created it: also when a stale timer replaces a live twin in the middle of a scenario |
| `BadgesExpire` | a node painted as verified always has a timer that will repaint it |
| `OnlyPartitionOrphans` | only a partition takes the twin and leaves the enterprise agent |
| `ImplementsContinuity` | the manager implements `Continuity`: an agent that goes down is back, as itself, within the recovery delay *of the moment it went down*, and it does come back (safety and liveness) |

### 3.2 `main_timeline` - the program as shipped

`main`'s own literals, for every `--time` from 2.0 to 95.0 s in half seconds: 187 runs, 8 785
states. The last event of the longest timeline is at 85.0 s, so every place the end can
cut the timeline occurs, and so do the runs no end cuts.

| property | says |
|---|---|
| `TimerMatchesFlag` | a restoration is in the queue exactly while `m_recoveryScheduled` is set: no timer is ever stale (this does *not* hold of every timeline) |
| `VerificationsAccounted` | the counts of the summaries add up to the collector's total |
| `DowntimesAsExpected` | every summary has the downtime its scenario is meant to show |
| `OutageIsShown` | the animation shows an outage as long as it lasts |
| `ScenariosDoNotOverlap` | a scenario is overwritten only after its own summary was written |
| `EveryScenarioEnds` | a scenario that has started gets its summary if the simulation is long enough (liveness) |

### 3.3 `traffic` - one flow and its counters

`main`'s schedule for ten lengths of the run from 2 to 9 s, with a packet each half second
instead of each 10 ms and a cap of 5, over networks that keep the order and networks that do
not, with delays of 0.1, 0.9, 1.5 and 2.5 s. 37 355 states. The delays are below and above
both the sending interval (packets overtake) and the second between the stop of the client
and of the sink (packets arrive at a closed socket). The short runs have a client whose stop
is due before its start, or at the same instant.

| property | says |
|---|---|
| `LossesCounted` | `m_lost` is never less than the number of packets missing between the first and the highest one heard |
| `LossesExact` | over a network that keeps the order it is exactly this number |
| `SentIsOnWire` | every number `m_sent` has passed was given to the network: no timer outlives the socket it sends on |
| `ThroughputAddsUp` | no byte is reported in two samples, and all are reported unless an interval was empty |

### 3.4 `event_core` - the loop and other threads

Three events, delays 0 and 1, all operations in every order, any number of runs. 78 949 states.
Three events are enough for one to run while a second waits for the same or a later time and
a third is pushed by another thread. A read of `m_eventsWithContextEmpty` that races with a
writer may return the old value: `ProcessEventsWithContext` may pass over a full list.

| property | says |
|---|---|
| `NothingInThePast` | every pending event lies ahead of the running one, under a key of its own |
| `ExpiredIffDone` | `IsExpired` of every `EventId` ever returned is right for ever |
| `CancelledNeverRuns`, `RunsOnce` | what was cancelled or removed in time never runs, nothing runs twice |
| `FlagTellsTheTruth` | the flag never hides an event of another thread for good |
| `Fifo` | events scheduled for one time keep their order |
| `RunEnds` | `Run` returns, if handlers do (liveness) |

### 3.5 `realtime` - waiting for the wall clock

Two events with delays 0 and 2, a clock of four ticks, sleeping that ends one tick early as
`SleepWait` does, an idle sleep of two ticks, and `m_condition` uninitialised. 84 901 states.
Two events are what a lost wakeup takes: one waited for, one inserted meanwhile. The clock
may stand still or pass any time limit between two steps of the thread.

| property | says |
|---|---|
| `NoLostWakeup` | a thread that waits and was not signalled waits for the right event |
| `NeverEarly` | no event runs before the clock has reached its time |
| `NoAssertFails` | none of the assertions fails (time never goes back) |
| `DueEventsRun` | an event that is due runs unless it is cancelled, removed, or `Run` stopped (liveness) |
| `StopEndsRun` | a handler that stops is the last one (liveness) |

### 3.6 `schedulers` - one promise, six structures

Five events, delays 0, 3 and 40 (ties, neighbours, and gaps of whole years of the calendar).
51 489 states. Five pending events make the calendar double its days and one halves them
again. Removal is not exercised on the heap, see `doc_heap`.

| property | says |
|---|---|
| `ImplementsScheduler` | each scheduler, and every exchange of one for another with events pending, implements `PriorityQueue`, call by call: scheduling inserts, taking takes the least, and an exchange neither loses nor adds an event |
| `PeekShowsLeast` | `PeekNext` shows what `RemoveNext` would take |

### 3.7 `link` - from the queue disc to the other end

Two flows, four to six packets of one or two sizes, in five configurations: a disc that
overflows and drops in batches, one that drops one packet at a time with a quota of one, one
in which only the turns matter, a device queue limited in bytes, and a link without a disc
whose receiver has an error model. 126 171 states. Packet sizes below and above the quantum, and a
device queue of one or two packets, make every branch of `DoDequeue`, `PacketEnqueued`,
`PacketDequeued` and `TransmitComplete` occur.

| property | says |
|---|---|
| `NothingStranded` | a packet the disc holds between two events is sure to be taken by an event that is pending, or will be scheduled by one that is |
| `DeviceHasRoom` | a device that is not stopped has room (`PacketDiscarded` calls the contrary a BUG) |
| `BackloggedIsListed` | the two lists hold each active flow once, and every flow with packets is active |
| `NoFlowStarved` | while a flow waits, every other sends at most `2 * (2 * (quantum - 1) + largest)` bytes, if the quantum is not less than the largest packet; attained in the third configuration |
| `ImplementsPipe` | all of it together implements `Pipe`: what is not lost arrives in order, once, and nothing stays inside (safety and liveness) |

### 3.8 Fairness

* `AnyTimeline`, `NrImmortal`: `[]<>IsFinished \/ []<><<Next>>_vars`, weak fairness of `Next`
  written out, as `while (!m_events->IsEmpty() && !m_stop)` does: `Run` takes one event after
  the other and no handler of the program blocks. Which event is taken the queue decides.
* `EventCore`: `WF_vars(LoopSteps)`. The steps of the loop wait for nothing but the lock of the
  list, which is held for a push only; handlers return. That they do is assumed of the users,
  as is that they call `Run` at all: neither calls nor other threads are fair.
* `RealtimeCore`: `WF_vars(RunSteps)`. The thread of `Run` is not starved of the mutex or the
  processor, and handlers return. Nothing is assumed of other threads, nor of the clock: an
  event that is *due* runs even if the clock stops there.
* `Link`: `WF_vars(Steps)`. The simulator runs the events it has, and the loops within an event
  go on. Nothing makes anyone send: that packets leave the disc does not need a next one.

### 3.9 Faults

Every property has a mutant in PROJECT.json: one operator replaced by a plausible bug
(a flag not cleared, a key not advanced, a counter kept from the scenario before, a list copied
where it is swapped, a condition reset outside its lock, a packet handed over past a check),
under which TLC finds the property violated. These operators stand beside the ones they
replace, marked *Fault*.

## 4. Where the code and its documents differ

Each line is a run that TLC ends with a counterexample.

| run | document | code |
|---|---|---|
| `doc_timeline` | the header's 45-second timeline puts the teardown at 35-37 s and the partition at 40-45 s | the delays count from 12 s and 40 s: crash 32 s, migration 37 s, restart 42 s, teardown 47 s, partition 80 s; in 45 s the last two never happen |
| `doc_restart` | "recreation on same host" | recreated on the primary edge, also after a migration to the secondary |
| `doc_summary` | statistics per scenario | no sample's label contains "Node Crash", "Agent Migration" or "Full Teardown": those summaries average no sample |
| `doc_heap` | "Heap kept sorted" | `Remove` puts the last item in the place of the removed one and only lets it sink; if it precedes its new parent, `RemoveNext` later takes a later event first |
| `rt_second_run` | the assertion "schedule for time < m_currentTs" | `SetOrigin` ignores the time it is given: a second `Run` starts its clock at 0, and an event of another thread lies in the past |

Other disagreements and limits met on the way, certain from the code and so without a run:

* *The program.* A crash of the primary edge destroys the twin on the gNB too, and the
  reference the recovered agent is verified against is made from the recovered agent's own
  data: that `NoCheckFails` holds is partly due to this. The baseline is captured at 0.5 s,
  before any traffic, and is 0. "Crash During" is sampled at the instant of a periodic sample,
  over an empty interval. Magenta, "duplicate agents detected", stays when the duplicates are gone.
  The final report counts the checks of the current twin only. The comparison file is closed
  by the report, before the summary of a scenario that ends at the same instant.
  `Rx_Packets` is the byte count. A client whose stop precedes its start is never stopped.
  The sinks close one second after the clients stop: a packet that arrives later is neither
  received nor counted in `m_lost`, which grows only when a later number is heard, so
  `LossesCounted` speaks of the losses before the last packet heard.
* *The event loops.* `Stop(delay)` lets the events of the stop time run that were scheduled
  earlier. `Run` clears `m_stop`, so that a `Stop` before it has no effect. An event that another
  thread pushes after the last look at the list is left behind until the next `Run`.
  When the 32 bits of `m_uid` wrap, new events precede old ones of the same time, and one
  may get the identifier of destroy events (`Fifo` and the theorems assume they do not).
* *The real-time loop.* `m_running` is set before the origin of the clock: an event another
  thread schedules in between is due as if the clock had run since 1970.
  `ScheduleRealtimeWithContext` leaves the context of its event uninitialised. A `Run` without events busy-loops
  once it was signalled, since only `ProcessOneEvent` resets the condition. `SleepWait`
  returns true when it was *interrupted*, the reverse of its comment. `Remove` and `Stop` do not
  signal, so another thread's `Stop` is noticed when the wait ends.
* *The calendar.* The bound of a day is a sum of products of 64-bit times and wraps if the
  width nears 2^63; the model's times are unbounded.
* *The link.* A device queue limited in *bytes* is stopped when a packet of the size of the
  MTU has no room, but the device adds a header of two bytes: a full-sized packet may be
  refused ("BUG!"), and if the queue is empty then nothing wakes the disc; nor does anything if
  the limit is less than the MTU. When the quota ends a run of the disc nothing schedules
  another ("todo netif_schedule"); with a limit in packets this cannot happen, see section 5.
  With `MinBytes` 0 CoDel may drop the last packet and dereference the null one it is left with.
  The models assume `MinBytes` positive (it is 1500) and, in the configuration with bytes,
  packets that fit with their header, as the program's do: 1400 bytes, below its MTU of 3000.

## 5. What is proved

All the theorems hold for every value of the constants; PROJECT.json lists them.

| module | specification | theorems |
|---|---|---|
| `DownTimeProofs` | `AnyTimeline`: any recovery delay, any number of calls at any times | `Invariance`, `TypeCorrect`, `QueueAlwaysWellFormed`, `NoCheckEverFails`, `RestorationAlwaysPending`, `TwinNeverCountsMore`, `TwinAlwaysCountsItsOwn`, `BadgesAlwaysExpire`, `OnlyPartitionsOrphan` |
| | `DownTime` | `DownTimeBounded`, `Refinement`: every step is a step of `Continuity` or a stutter |
| `NrImmortalProofs` | `NrImmortal`: any delays, sampling period and `--time` | `MainInvariance`, `MainNoCheckFails`, `MainQueueWellFormed`, `MainRestorationPending`, `MainBadgesExpire` |
| | the same, with literals as well spaced as `main`'s | `PlanInvariance`, `TimerAlwaysMatches`, `DowntimesAlwaysExpected`, `ScenariosNeverOverlap`, `VerificationsAlwaysAccounted`; `OutagesAlwaysShown` if its pictures settle |
| `EventCoreProofs` | `EventCore`: any delays, events, threads | `CoreTypeCorrect`, `NeverInThePast`, `CountIsRight`, `IdsTellTheTruth`, `CancelledStayQuiet`, `NothingRunsTwice`, `FirstComeFirstServed`, `FlagNeverLies` |
| `RealtimeCoreProofs` | `RealtimeCore`: any epoch, clock, delays, events | `RealtimeTypeCorrect`, `NothingOverslept`, `EventsNeverEarly`, `OneRunNeverAborts` |
| `SchedulersProofs` | `Schedulers`: any delays, any number of events, any exchange of schedulers | `PeekAlwaysShowsLeast`, `QueueRefinement`: every step is the step of `PriorityQueue` its call names |
| `TrafficProofs` | `Traffic`: any schedule, delays and number of packets | `TrafficTypeCorrect`, `NoLossMissed`, `LossCountExact`, `SendsOnlyWhenOpen`, `ThroughputAlwaysAddsUp` |
| `LinkProofs` | `Link`: any flows, packets, configurations | `LinkTypeCorrect`, `ListsAlwaysSound`, `NothingEverStranded`, `DeviceAlwaysHasRoom`, `FlowsNeverStarve`, `PipeRefinement`: the initial states and every step of `Pipe` |

The lemmas about the manager's methods are in `SimulationManagerProofs`, which the first two
modules extend. Every invariant the runs check is now the subject of a theorem.

**The manager.** *Assumptions*: the three nodes differ (`NodesAssumption`), the recovery delay
is positive (`DelayAssumption`), `NoAgent` is not an agent (`NoAgentAssumption`), the times
are natural numbers (`SlotsAssumption`, `TimelineAssumption`; the latter also says that
`--time` is at least two seconds; below half a second ns-3 refuses the report's negative delay).
`RestorationPending` is not inductive: it says nothing of the flag, and a crash that finds
`m_recoveryScheduled` set schedules nothing. `IInv` adds that the flag is set whenever the
enterprise agent is missing, that *whenever the flag is set* a restoration is in the queue
and due in time, that the scenario did not start in the future, and the typing that makes
every agent the genesis agent and every twin hold its reference (from which `NoCheckFails`
follows). A stale timer is harmless because each restoration both clears the flag and leaves
both agents present; a stale timer that clears the flag of a later failure also repairs that
failure. `SimulationManagerProofs` proves one lemma per method. `Keeps(w, v)` says a call keeps
the invariant, the time, the start of the scenario and the presence of the agents. A dequeued
restoration leaves a world of which only `CoreInv` holds, the flag being set and its timer
gone; `RestoreRestores` shows the handler makes up for it. `DestroyAgentsInv` needs that the
scenario started at this very instant, which `StartScenario` and `BeginRestores` provide.
`ManagerStep` puts one step per action together. The invariant of the timelines adds that a
painted badge has the timer that takes it away in the queue (`Badged`) and that the twin
counts its own checks (`Books`). `Books` holds between events but not between the calls of one: a
restoration makes the twin first and records its own sample, the one from which the twin's
checks are counted, two calls later, and the check in between is already the twin's. So each
method has a statement of what it does to the two counts, `KeepsBooks(w, v)`, and each handler a
lemma that chains them; `Unlabelled`, that no sample waiting in the queue carries the label of a
restoration, says that no other event is taken for one. `OnlyPartitionsOrphan` is shown handler by handler along with the
invariant: each but the partition keeps both agents, takes both, or creates both.

**`main`'s timeline.** Four of `main`'s properties do not hold of every timeline: a failure
soon after another takes over its flag, its start and its summary. The theorems about them
suppose `WellSpaced`, that no scenario begins before the one before it is over, and
`OutagesAlwaysShown` also `PicturesSettle`, that an outage begins after the timers of the
animation are over. `main`'s literals satisfy both: `MCNrImmortal` says so in two `ASSUME`s,
which TLC evaluates. `Plan` is the invariant. Each scenario not started yet is called once, at
its time, which is after the end of the one in progress (`QueuePlan`); at most one event that
ends a scenario is pending, at the end of the one in progress, and it is a restoration exactly
while `m_recoveryScheduled` is set (`CloserPlan`); a scenario that is over has the last summary
and each summary the downtime its scenario is meant to show (`SummaryPlan`). These need
that the twin is not gone alone before the last scenario (`TwinPlan`): a handler that finds it
missing recovers both agents first, which ends the scenario it has just begun. For the pictures, `PicturePlan` adds that every
timer is over 30 (three seconds) after the scenario's end, and where the agent is between a
migration and its restart; for the verifications, `BooksPlan` adds that a scenario in progress
has counted none and that, until the report, the summaries' counts make up the total.

**The refinement.** `RestorationPending` counts from the start of the last scenario, which a
second failure moves on, so it does not bound the time an agent is down. `DownInv` counts
from the moment it went down: among the restorations in the queue one is due within the
delay of *that*. It holds because a handler adds events, removes none but its own and does not
move time (`Grows`, one lemma per method), so that the restoration owed when the agent went
down stays in the queue until it is the next event, and because time never passes a pending
event. The mapping needs that a fingerprint is not
mistaken for a missing agent (`DownAssumption`). The theorem is the safety part,
`SafeContinuity`; the leads-to of `Continuity!Spec` is checked by TLC.

**The event loop.** The theorems need that `m_uid` does not wrap: `MaxEvents` identifiers after
the first stay below `UidMod` (`NoWrap`). The invariant says where an `EventImpl` is: in one
place, once, of the queue, the list of other threads, the destroy list and the past; the
keys in the queue are below `m_uid` and above the running key; an identifier that has neither
expired nor been cancelled is in the queue. The last is why `IsExpired` may compare keys
instead of looking for the event. `FlagNeverLies`, about the flag the main thread reads
without the lock, is a conjunct of the invariant.

**The schedulers.** *Hypothesis*: events are removed from every scheduler but the heap
(`"Heap" \notin RemovingKinds`), whose `Remove` does not restore the order upwards: the run
`doc_heap` is the counterexample. `Holds` says how the store of each kind represents a set of
events: the list sorted, the heap a tree in order, the days of the calendar sorted, each event
on the day its time hashes to. For the calendar, `InSearch` says the search for the next
event starts no later than the first of them and on the day of `m_lastPrio`, and `Behind` that
`m_lastPrio` is not past the simulator's clock, so that an event inserted now is not missed
when the search goes on. Each operation has a lemma that gives the set the new store holds:
among them the resize, whose sampling takes events out and puts all of them back and whose
width is never 0, and the exchange of schedulers, `Moved`, which empties one queue into another.
`Matches` draws from these lemmas that the set changes as the call made says.
Heap and calendar are written with recursive functions. To unfold one, the proofs first show
that a function satisfying its equation exists (`Recursion`, `Along`), and do the induction on
the *set* of numbers for which the statement holds (`NatSet`, from the least-element principle
`WFMin`), since the library's induction theorems cannot be used.

**The real-time loop.** The invariant ties what the waiting thread believes to the queue: between
planning and the end of the wait, either the condition is set or no event precedes the one
planned for; while the thread waits, some event is due no later than the time it waits for,
so that the *least* event is due when the wait is over, although another may have been planned
for.
`OneRunNeverAborts` assumes `Run` is called once (`MaxRuns = 1`): then the real time is never
behind `m_currentTs`, so that nothing is scheduled in the past. A second run breaks exactly
this (`rt_second_run`).

**The traffic.** *Assumption*: `TrafficAssumption`, which types the constants. None of the
properties is inductive alone. `ClientInv` says that a pending `SendPacket` is the event
`m_sendEvent` holds, which `StopApplication` therefore cancels, that the socket is open as
long as it is pending, and that the application is started once, since `InitialCalls` has one
start (`InitialCallsAre`). For the counts, `HeardCounts` shows what one packet changes: one
above the highest number heard adds its gap to `Missing`, and `m_lost` grows by the gap to the
*last* number heard, which is no smaller; one below fills a gap or repeats a number and
`m_lost` never shrinks. `LossesExact` needs `NetworkInv`: while the network keeps the order,
packets in it arrive by their numbers and are all above those heard, so that the last number
heard is the highest. `ThroughputAddsUp` sums the collector's samples recursively: its invariant
`SampledInv` says that what they report is at most what was received by the last of them, and
`IsTotal` gives the sums of a sequence one element longer.

**The link.** `BackloggedIsListed` is inductive with the types, for any configuration. The two
others assume a device queue limited in packets (`PacketUnits`, as in the program). The
invariant has a part for flow control (an idle device has an empty queue; a queue that is
not stopped has room; one that is stopped is full, or one short of it with its check pending)
and one for the disc: *a run of the disc sends at most one packet*. Either there is only one,
since between runs a disc that is not stopped is empty, or the run was woken by a device one
packet short of full, which the first packet fills again. So a run never uses up its quota,
and the missing reschedule at the end of `QueueDisc::Run` does not matter. That a run which
finds no candidate leaves nothing behind is `BackloggedIsListed`.

`PipeRefinement` follows each packet (`Line`): of one flow, the numbers on the wire are below
those in the device's queue, those below the ones in the disc, each in order, and none twice; so
what arrives has a higher number than what arrived before. It is the safety half of
`ImplementsPipe`, and supposes, as the mapping does, that some configuration allows the most
packets (`PacketsBounded`).

`FlowsNeverStarve` is the fairness of the round robin. `passed[f]` counts the bytes other
flows get through the disc while `f` waits with packets, and the theorem bounds it by two laps of each
other flow, for quanta that cover a packet. `Wait(f, g)` is what `g` may still send before `f`
does: its deficit if it is a new flow ahead of `f`, a whole quantum if it is inactive and may come
back as a new flow, the rest of its deficit and a quantum if it is an old one ahead of `f`, and
one more lap if `f` has used up its own deficit. The invariant, `FairInv`, is that `passed[f]`
and the sum of `Wait(f, g)` over the others stay within the two laps: what one flow sends
takes as much from its term in the sum, and enqueuing, dropping and moving a flow between the
lists raise no term of a flow that waits. The sum is never computed: `SumAtMost` says that a sequence accumulates the
terms within the bound, so that lowering one term shifts the sequence, without induction.
*Hypotheses*: the flows are finitely many, every configuration has a packet size (`Sized`, which
TLC evaluates with `PacketsBounded` in `MCLink`).

**Only model-checked.** What a fair run eventually does, because fairness and `ENABLED` are out
of the prover's reach: `EveryScenarioEnds`, `RunEnds`, `DueEventsRun`, `StopEndsRun`, and the
leads-to halves of `ImplementsContinuity` and `ImplementsPipe`, whose safety halves are
`Refinement` and `PipeRefinement`. Every other property of a passing run is proved.

## 6. What is not modelled

* The 5G stack: its directory (contrib/nr) is empty in this tree. To `Traffic` it is the network.
* The other network models of ns-3 (LTE, Wi-Fi, TCP, routing, spectrum, ...). They make up nearly
  all of the tree's lines, but the program does not run them, and of the Internet stack it
  uses they exchange nothing with the agents but the traffic. Of the UDP socket `Traffic` has
  whether it is open. This is why the share of the tree the models cover is small.
* Of the link: byte queue limits (off unless installed), the hash of a flow and its
  set-associative variant, requeued and peeked packets (a device with one transmission queue
  has none), detaching, queue disc classes and filters, CoDel's clock and square root: which of
  its decisions the *length* of a queue allows is modelled, when it takes them is not.
* Of the real-time loop: the hard-limit mode, which aborts, and the context of events.
* Reference counting: the manager and the visualizer keep each other alive, and are freed at
  the end of the process; no behaviour of the program depends on it.
* The digits of SHA-256, the CSV and XML files, the NetAnim scripts, the build system: pure
  computation or output.

## 7. What could come next

1. `EventCore` shown to implement `Simulator` on the program's use of it.
2. `ImmortalIdentity` on arbitrary records: which fields a fingerprint binds, and which
   different records have one fingerprint: the fields are joined by "|", which a field may contain.
3. `NothingEverStranded` for a device queue limited in bytes, with the packet sizes for which it
   holds as a hypothesis.
4. The null-message protocol of the MPI module, the other concurrent algorithm of ns-3.
