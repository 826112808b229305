---------------------- MODULE SimulationManagerProofs ----------------------
(***************************************************************************)
(* What every handler of SimulationManager does to the world, for any      *)
(* recovery delay.  A handler is a chain of calls: a lemma per link says   *)
(* what the call Keeps, a lemma per handler what the chain comes to, and   *)
(* at the end every step of the manager preserves the invariants.          *)
(***************************************************************************)
EXTENDS SimulationManager, FiniteSetTheorems, TLAPS

---------------------------------------------------------------------------
(* What is kept                                                            *)

\* The books of a world are in order: TwinCountsItsOwn holds of it, and no
\* sample still to be taken passes for that of a restoration.
Unlabelled(q) ==
    \A e \in q : e.op = "RecordMetrics" => e.arg \notin RestorationSamples

Books(w) ==
    /\ Unlabelled(w.queue)
    /\ w.twin # NoAgent =>
        CountedBefore(w.metrics.samples, w.metrics.total - TotalChecks(w.twin))

\* What a handler does to the books, if not every call: a restoration replaces
\* the twin first and takes its sample later.
KeepsBooks(w, v) == Books(w) => Books(v)

\* BadgesExpire of a world, but for some nodes
Badged(w, nodes) ==
    \A n \in Nodes \ nodes : w.colour[n] = "Verification_Success" =>
        \E e \in w.queue : /\ e.op = "ResetColours"
                           /\ n \in {Gnb, e.arg[1]}

\* The events that call anything but a sample or the visualizer
Control(q) == {e \in q : e.op \notin NodeHandlers \cup {"RecordMetrics"}}

\* What every call may do: the invariant holds after it, no time passes and no
\* event is removed.
Extends(w, v) ==
    /\ WorldInv(v)
    /\ v.now = w.now
    /\ w.queue \subseteq v.queue
    /\ Badged(w, {}) => Badged(v, {})

SameFlag(w, v) == v.recoveryScheduled = w.recoveryScheduled

SameScenario(w, v) == /\ v.scenario.name = w.scenario.name
                      /\ v.scenario.start = w.scenario.start

SameAgents(w, v) == /\ v.enterprise = NoAgent <=> w.enterprise = NoAgent
                    /\ v.twin = NoAgent <=> w.twin = NoAgent

SameSummaries(w, v) == v.metrics.summaries = w.metrics.summaries

\* What most calls do not touch: the agents that are there, the flag and the
\* timers of the scenario, its name and start, and the summaries
Keeps(w, v) ==
    /\ Extends(w, v)
    /\ Control(v.queue) = Control(w.queue)
    /\ SameFlag(w, v) /\ SameScenario(w, v) /\ SameAgents(w, v)
    /\ SameSummaries(w, v)

\* The summary EndScenario writes in the world w
Summarized(w, v) ==
    \E s : /\ s.name = w.scenario.name
           /\ s.downtime = IF w.scenario.start > 0
                           THEN w.now - w.scenario.start ELSE 0
           /\ v.metrics.summaries = Append(w.metrics.summaries, s)

LEMMA ExtendsTrans ==
    ASSUME NEW w, NEW v, NEW x, Extends(w, v), Extends(v, x)
    PROVE  Extends(w, x)
  BY DEF Extends

LEMMA KeepsTrans ==
    ASSUME NEW w, NEW v, NEW x, Keeps(w, v), Keeps(v, x)
    PROVE  Keeps(w, x)
  BY ExtendsTrans
     DEF Keeps, SameFlag, SameScenario, SameAgents, SameSummaries

LEMMA KeepsSelf ==
    ASSUME NEW w, WorldInv(w)
    PROVE  Keeps(w, w)
  BY DEF Keeps, Extends, SameFlag, SameScenario, SameAgents, SameSummaries

LEMMA KeepsInv ==
    ASSUME NEW w, NEW v, Keeps(w, v)
    PROVE  /\ WorldInv(v) /\ v \in Worlds
           /\ AgentsPresent(w) => AgentsPresent(v)
           /\ v.scenario.start = w.scenario.start /\ v.now = w.now
  BY DEF Keeps, Extends, WorldInv, CoreInv, SameAgents, SameScenario,
         AgentsPresent

\* A badge stays covered if no node is painted and no event goes.
LEMMA SameBadges ==
    ASSUME NEW w, NEW v, NEW nodes, v.colour = w.colour,
           w.queue \subseteq v.queue
    PROVE  Badged(w, nodes) => Badged(v, nodes)
  BY DEF Badged

---------------------------------------------------------------------------
(* The simulator and the visualizer                                        *)

LEMMA LabelType ==
    ASSUME NEW a \in Words, NEW b \in Words, NEW c \in Words, NEW d \in Words
    PROVE  /\ << >> \in Labels /\ <<a>> \in Labels /\ <<a, b>> \in Labels
           /\ <<a, b, c>> \in Labels /\ <<a, b, c, d>> \in Labels
  BY DEF Labels

\* What an event may call, and with what
Callable(op, arg) ==
    \/ op \in LabelHandlers /\ arg \in Labels
    \/ op \in NodeHandlers /\ \E n \in Nodes : arg = <<n>>

\* A call that only adds the event e to the queue
Plans(w, v, e) ==
    /\ Extends(w, v)
    /\ v.queue = w.queue \cup {e}
    /\ SameFlag(w, v) /\ SameScenario(w, v) /\ SameAgents(w, v)
    /\ SameSummaries(w, v)

LEMMA SchedulePlans ==
    ASSUME NEW w, WorldInv(w), NEW d \in Nat, NEW op, NEW arg,
           Callable(op, arg)
    PROVE  Plans(w, Schedule(w, d, op, arg),
                 Event(w.now + d, w.uid, op, arg))
<1> DEFINE e == Event(w.now + d, w.uid, op, arg)
           v == Schedule(w, d, op, arg)
<1>1. w \in Worlds
  BY DEF WorldInv, CoreInv
<1>2. e \in Events /\ e.ts = w.now + d /\ e.uid = w.uid
  BY <1>1 DEF Worlds, Events, Event, Callable
<1>3. v = [w EXCEPT !.queue = w.queue \cup {e}, !.uid = w.uid + 1]
  BY <1>1 DEF Schedule
<1> HIDE DEF e
<1>4. v \in Worlds
  <2>1. w.queue \cup {e} \in SUBSET Events
    BY <1>1, <1>2 DEF Worlds
  <2>2. w.uid + 1 \in Nat
    BY <1>1 DEF Worlds
  <2> QED
    BY <1>1, <1>3, <2>1, <2>2 DEF Worlds
<1>5. /\ v.queue = w.queue \cup {e} /\ v.uid = w.uid + 1 /\ v.now = w.now
      /\ v.scenario = w.scenario /\ v.enterprise = w.enterprise
      /\ v.twin = w.twin /\ v.recoveryScheduled = w.recoveryScheduled
      /\ v.metrics = w.metrics /\ v.colour = w.colour
  BY <1>1, <1>3 DEF Worlds
<1> HIDE DEF v
<1>6. WorldInv(v)
  <2>0. \A x \in w.queue : x.ts \in Nat /\ x.uid \in Nat
    BY <1>1 DEF Worlds, Events
  <2>1. \A x \in v.queue : x.ts >= v.now /\ x.uid < v.uid
    BY <1>1, <1>2, <1>5, <2>0 DEF WorldInv, CoreInv, Worlds
  <2>2. \A x, y \in v.queue : x.uid = y.uid => x = y
    BY <1>1, <1>2, <1>5, <2>0 DEF WorldInv, CoreInv, Worlds
  <2>3. v.recoveryScheduled => RestorationDue(v)
    BY <1>5 DEF WorldInv, CoreInv, RestorationDue
  <2> QED
    BY <1>4, <1>5, <2>1, <2>2, <2>3 DEF WorldInv, CoreInv
<1>7. Extends(w, v)
  BY <1>5, <1>6, SameBadges DEF Extends
<1> QED
  BY <1>5, <1>7 DEF Plans, SameFlag, SameScenario, SameAgents, SameSummaries,
                    v, e

\* An event that only paints or samples changes nothing of the control.
LEMMA QuietPlan ==
    ASSUME NEW w, NEW v, NEW e, Plans(w, v, e),
           e.op \in NodeHandlers \cup {"RecordMetrics"}
    PROVE  Keeps(w, v)
<1>1. Control(v.queue) = Control(w.queue)
  BY DEF Plans, Control
<1> QED
  BY <1>1 DEF Plans, Keeps

LEMMA ScheduleNodeKeeps ==
    ASSUME NEW w, WorldInv(w), NEW d \in Nat, NEW op \in NodeHandlers,
           NEW n \in Nodes
    PROVE  Keeps(w, Schedule(w, d, op, <<n>>))
<1> DEFINE e == Event(w.now + d, w.uid, op, <<n>>)
<1>1. Plans(w, Schedule(w, d, op, <<n>>), e)
  BY SchedulePlans DEF Callable
<1>2. e.op = op
  BY DEF Event
<1> HIDE DEF e
<1> QED
  BY <1>1, <1>2, QuietPlan

LEMMA ScheduleSampleKeeps ==
    ASSUME NEW w, WorldInv(w), NEW d \in Nat, NEW label \in Labels
    PROVE  Keeps(w, Schedule(w, d, "RecordMetrics", label))
<1> DEFINE e == Event(w.now + d, w.uid, "RecordMetrics", label)
<1>1. Plans(w, Schedule(w, d, "RecordMetrics", label), e)
  BY SchedulePlans DEF Callable, LabelHandlers
<1>2. e.op = "RecordMetrics"
  BY DEF Event
<1> HIDE DEF e
<1> QED
  BY <1>1, <1>2, QuietPlan

\* Any other event adds itself to the control.
LEMMA ScheduleLabelPlans ==
    ASSUME NEW w, WorldInv(w), NEW d \in Nat,
           NEW op \in LabelHandlers \ {"RecordMetrics"}
    PROVE  LET e == Event(w.now + d, w.uid, op, << >>)
               v == Schedule(w, d, op, << >>)
           IN  Plans(w, v, e) /\ Control(v.queue) = Control(w.queue) \cup {e}
<1> DEFINE e == Event(w.now + d, w.uid, op, << >>)
           v == Schedule(w, d, op, << >>)
<1>1. << >> \in Labels
  BY DEF Labels
<1>2. Plans(w, v, e)
  BY <1>1, SchedulePlans DEF Callable
<1>3. e.op = op
  BY DEF Event
<1>4. op \notin NodeHandlers
  BY DEF LabelHandlers, NodeHandlers, Restorations
<1> HIDE DEF e, v
<1>5. Control(v.queue) = Control(w.queue) \cup {e}
  BY <1>2, <1>3, <1>4 DEF Plans, Control
<1> QED
  BY <1>2, <1>5 DEF v, e

\* The end of a scenario that lasts
LEMMA ScheduleEndPlans ==
    ASSUME NEW w, WorldInv(w), NEW d \in Nat
    PROVE  \E e : /\ e.ts = w.now + d /\ e.op = "EndScenario"
                  /\ Plans(w, Schedule(w, d, "EndScenario", << >>), e)
                  /\ Control(Schedule(w, d, "EndScenario", << >>).queue)
                        = Control(w.queue) \cup {e}
<1> DEFINE e == Event(w.now + d, w.uid, "EndScenario", << >>)
<1>1. "EndScenario" \in LabelHandlers \ {"RecordMetrics"}
  BY DEF LabelHandlers
<1>2. /\ Plans(w, Schedule(w, d, "EndScenario", << >>), e)
      /\ Control(Schedule(w, d, "EndScenario", << >>).queue)
            = Control(w.queue) \cup {e}
  BY <1>1, ScheduleLabelPlans
<1>3. e.ts = w.now + d /\ e.op = "EndScenario"
  BY DEF Event
<1> HIDE DEF e
<1> QED
  BY <1>2, <1>3

\* A call that touches none of what the invariant relates
LEMMA UnrelatedExtends ==
    ASSUME NEW w, WorldInv(w), NEW v \in Worlds,
           v.now = w.now, v.queue = w.queue, v.uid = w.uid,
           v.enterprise = w.enterprise, v.twin = w.twin,
           v.recoveryScheduled = w.recoveryScheduled,
           v.scenario = w.scenario, v.metrics.total = w.metrics.total,
           v.metrics.lastResult = w.metrics.lastResult,
           Badged(w, {}) => Badged(v, {})
    PROVE  /\ Extends(w, v) /\ Control(v.queue) = Control(w.queue)
           /\ SameFlag(w, v) /\ SameScenario(w, v) /\ SameAgents(w, v)
<1>1. WorldInv(v)
  BY DEF WorldInv, CoreInv, RestorationDue
<1> QED
  BY <1>1 DEF Extends, SameFlag, SameScenario, SameAgents

LEMMA PaintShape ==
    ASSUME NEW w \in Worlds, NEW nodes, NEW c \in Colours
    PROVE  LET v == Paint(w, nodes, c)
           IN  /\ v \in Worlds
               /\ v.now = w.now /\ v.queue = w.queue /\ v.uid = w.uid
               /\ v.enterprise = w.enterprise /\ v.twin = w.twin
               /\ v.recoveryScheduled = w.recoveryScheduled
               /\ v.scenario = w.scenario /\ v.metrics = w.metrics
               /\ \A n \in Nodes :
                    v.colour[n] = IF n \in nodes THEN c ELSE w.colour[n]
<1> DEFINE k == [n \in DOMAIN w.colour |->
                    IF n \in nodes THEN c ELSE w.colour[n]]
           v == Paint(w, nodes, c)
<1>1. /\ k \in [Nodes -> Colours]
      /\ \A n \in Nodes : k[n] = IF n \in nodes THEN c ELSE w.colour[n]
  BY DEF Worlds
<1>2. v = [w EXCEPT !.colour = k]
  BY DEF Paint
<1> HIDE DEF k
<1>3. v \in Worlds
  BY <1>1, <1>2 DEF Worlds
<1>4. /\ v.now = w.now /\ v.queue = w.queue /\ v.uid = w.uid
      /\ v.enterprise = w.enterprise /\ v.twin = w.twin
      /\ v.recoveryScheduled = w.recoveryScheduled
      /\ v.scenario = w.scenario /\ v.metrics = w.metrics /\ v.colour = k
  BY <1>2 DEF Worlds
<1> HIDE DEF v
<1> QED
  BY <1>1, <1>3, <1>4 DEF v

LEMMA PaintKeeps ==
    ASSUME NEW w, WorldInv(w), NEW nodes,
           NEW c \in Colours \ {"Verification_Success"}
    PROVE  Keeps(w, Paint(w, nodes, c))
<1> DEFINE v == Paint(w, nodes, c)
<1>1. w \in Worlds
  BY DEF WorldInv, CoreInv
<1>2. /\ v \in Worlds
      /\ v.now = w.now /\ v.queue = w.queue /\ v.uid = w.uid
      /\ v.enterprise = w.enterprise /\ v.twin = w.twin
      /\ v.recoveryScheduled = w.recoveryScheduled
      /\ v.scenario = w.scenario /\ v.metrics = w.metrics
      /\ \A n \in Nodes :
            v.colour[n] = IF n \in nodes THEN c ELSE w.colour[n]
  BY <1>1, PaintShape
<1> HIDE DEF v
<1>3. Badged(w, {}) => Badged(v, {})
  BY <1>2 DEF Badged
<1>4. Keeps(w, v)
  BY <1>2, <1>3, UnrelatedExtends DEF Keeps, SameSummaries
<1> QED
  BY <1>4 DEF v

LEMMA ShowVerificationKeeps ==
    ASSUME NEW w, WorldInv(w), NEW n \in Nodes
    PROVE  Keeps(w, ShowIdentityVerificationSuccess(w, n))
<1> DEFINE p == Paint(w, {Gnb, n}, "Verification_Success")
           e == Event(p.now + 20, p.uid, "ResetColours", <<n>>)
           v == Schedule(p, 20, "ResetColours", <<n>>)
<1>1. w \in Worlds /\ "Verification_Success" \in Colours
  BY DEF WorldInv, CoreInv, Colours
<1>2. /\ p \in Worlds
      /\ p.now = w.now /\ p.queue = w.queue /\ p.uid = w.uid
      /\ p.enterprise = w.enterprise /\ p.twin = w.twin
      /\ p.recoveryScheduled = w.recoveryScheduled
      /\ p.scenario = w.scenario /\ p.metrics = w.metrics
      /\ \A m \in Nodes \ {Gnb, n} : p.colour[m] = w.colour[m]
  BY <1>1, PaintShape
<1> HIDE DEF p
<1>3. WorldInv(p)
  BY <1>2 DEF WorldInv, CoreInv, RestorationDue
<1>4. Plans(p, v, e)
  BY <1>3, SchedulePlans DEF Callable, NodeHandlers
<1>5. e.op = "ResetColours" /\ e.arg = <<n>>
  BY DEF Event
<1>6. v.colour = p.colour
  BY <1>2 DEF Schedule, Worlds
<1> HIDE DEF e, v
<1>7. Badged(w, {}) => Badged(v, {})
  <2> SUFFICES ASSUME Badged(w, {}), NEW m \in Nodes,
                      v.colour[m] = "Verification_Success"
               PROVE  \E f \in v.queue : /\ f.op = "ResetColours"
                                         /\ m \in {Gnb, f.arg[1]}
    BY DEF Badged
  <2>1. v.queue = w.queue \cup {e}
    BY <1>2, <1>4 DEF Plans
  <2>2. CASE m \in {Gnb, n}
    BY <1>5, <2>1, <2>2
  <2>3. CASE m \notin {Gnb, n}
    BY <1>2, <1>6, <2>1, <2>3 DEF Badged
  <2> QED
    BY <2>2, <2>3
<1>8. Keeps(p, v)
  BY <1>4, <1>5, QuietPlan DEF NodeHandlers
<1>9. Keeps(w, v)
  BY <1>2, <1>7, <1>8
     DEF Keeps, Extends, SameFlag, SameScenario, SameAgents, SameSummaries
<1> QED
  BY <1>9 DEF ShowIdentityVerificationSuccess, v, p

---------------------------------------------------------------------------
(* The collector                                                           *)

LEMMA SampleType ==
    ASSUME NEW c \in Collectors, NEW t \in Nat, NEW label \in Labels
    PROVE  Sample(c, t, label) \in Samples
  BY DEF Collectors, Sample, Samples

LEMMA RecordMetricsType ==
    ASSUME NEW c \in Collectors, NEW t \in Nat, NEW label \in Labels
    PROVE  /\ RecordMetrics(c, t, label) \in Collectors
           /\ RecordMetrics(c, t, label).total = c.total
           /\ RecordMetrics(c, t, label).lastResult = c.lastResult
<1>1. Append(c.samples, Sample(c, t, label)) \in Seq(Samples)
  BY SampleType DEF Collectors
<1> QED
  BY <1>1 DEF Collectors, RecordMetrics

LEMMA CaptureBaselineType ==
    ASSUME NEW c \in Collectors, NEW t \in Nat
    PROVE  /\ CaptureBaseline(c, t) \in Collectors
           /\ CaptureBaseline(c, t).total = c.total
           /\ CaptureBaseline(c, t).lastResult = c.lastResult
<1>0. "BASELINE" \in Words
  BY DEF Words
<1>1. <<"BASELINE">> \in Labels
  BY <1>0, LabelType
<1>2. Sample(c, t, <<"BASELINE">>) \in Samples
  BY <1>1, SampleType
<1>3. \A x \in Samples : <<x>> \in Seq(Samples)
  OBVIOUS
<1>4. <<Sample(c, t, <<"BASELINE">>)>> \in Seq(Samples)
  BY <1>2, <1>3
<1> QED
  BY <1>4 DEF Collectors, CaptureBaseline

LEMMA AddScenarioSummaryType ==
    ASSUME NEW c \in Collectors, NEW name \in Labels, NEW downtime \in Int,
           NEW events \in Nat
    PROVE  /\ AddScenarioSummary(c, name, downtime, events) \in Collectors
           /\ AddScenarioSummary(c, name, downtime, events).total = c.total
           /\ AddScenarioSummary(c, name, downtime, events).lastResult
                = c.lastResult
<1> DEFINE averaged ==
              {i \in DOMAIN c.samples : Mentions(c.samples[i].label, name)}
           sum == [name |-> name, downtime |-> downtime, events |-> events,
                   averaged |-> Cardinality(averaged)]
<1>1. Cardinality(averaged) \in Nat
  <2>1. DOMAIN c.samples = 1 .. Len(c.samples) /\ Len(c.samples) \in Nat
    BY DEF Collectors
  <2>2. IsFiniteSet(1 .. Len(c.samples))
    BY <2>1, FS_Interval
  <2>3. IsFiniteSet(averaged)
    BY <2>1, <2>2, FS_Subset
  <2> QED
    BY <2>3, FS_CardinalityType
<1> HIDE DEF averaged
<1>2. sum \in Summaries
  BY <1>1 DEF Summaries
<1>3. AddScenarioSummary(c, name, downtime, events)
        = [c EXCEPT !.summaries = Append(c.summaries, sum)]
  BY DEF AddScenarioSummary, Collectors, averaged
<1> HIDE DEF sum
<1>4. Append(c.summaries, sum) \in Seq(Summaries)
  BY <1>2 DEF Collectors
<1> QED
  BY <1>3, <1>4 DEF Collectors

LEMMA RecordKeeps ==
    ASSUME NEW w, WorldInv(w), NEW label \in Labels
    PROVE  Keeps(w, Record(w, label))
<1> DEFINE c == RecordMetrics(w.metrics, w.now, label)
           v == Record(w, label)
<1>1. w \in Worlds /\ w.metrics \in Collectors /\ w.now \in Nat
  BY DEF WorldInv, CoreInv, Worlds
<1>2. /\ c \in Collectors /\ c.total = w.metrics.total
      /\ c.lastResult = w.metrics.lastResult
      /\ c.summaries = w.metrics.summaries
  <2>1. c.summaries = w.metrics.summaries
    BY <1>1 DEF RecordMetrics, Collectors
  <2> QED
    BY <1>1, <2>1, RecordMetricsType
<1>3. v = [w EXCEPT !.metrics = c]
  BY <1>1 DEF Record
<1> HIDE DEF c
<1>4. v \in Worlds
  BY <1>1, <1>2, <1>3 DEF Worlds
<1>5. /\ v.now = w.now /\ v.queue = w.queue /\ v.uid = w.uid
      /\ v.enterprise = w.enterprise /\ v.twin = w.twin
      /\ v.recoveryScheduled = w.recoveryScheduled
      /\ v.scenario = w.scenario /\ v.metrics = c /\ v.colour = w.colour
  BY <1>1, <1>3 DEF Worlds
<1> HIDE DEF v
<1>6. Badged(w, {}) => Badged(v, {})
  BY <1>5, SameBadges
<1>7. Keeps(w, v)
  BY <1>2, <1>4, <1>5, <1>6, UnrelatedExtends DEF Keeps, SameSummaries
<1> QED
  BY <1>7 DEF v

\* EndScenario leaves a summary and nothing else.
Ends(w, v) ==
    /\ Extends(w, v)
    /\ Control(v.queue) = Control(w.queue)
    /\ SameFlag(w, v) /\ SameScenario(w, v) /\ SameAgents(w, v)
    /\ Summarized(w, v)

LEMMA EndScenarioEnds ==
    ASSUME NEW w, WorldInv(w)
    PROVE  Ends(w, EndScenario(w))
<1> DEFINE downtime == IF w.scenario.start > 0 THEN w.now - w.scenario.start
                                               ELSE 0
           c == AddScenarioSummary(w.metrics, w.scenario.name, downtime,
                                   w.scenario.events)
           v == EndScenario(w)
<1>1. w \in Worlds
  BY DEF WorldInv, CoreInv
<1>2. downtime \in Int /\ w.metrics \in Collectors
  BY <1>1 DEF Worlds
<1>3. v = [w EXCEPT !.metrics = c]
  BY <1>1 DEF EndScenario
<1> HIDE DEF downtime
<1>4. /\ c \in Collectors /\ c.total = w.metrics.total
      /\ c.lastResult = w.metrics.lastResult
  BY <1>1, <1>2, AddScenarioSummaryType DEF Worlds
<1>5. /\ c.samples = w.metrics.samples
      /\ c.lastSampleTime = w.metrics.lastSampleTime
      /\ \E s : /\ s.name = w.scenario.name /\ s.downtime = downtime
                /\ c.summaries = Append(w.metrics.summaries, s)
  <2> DEFINE m == w.metrics
             averaged == {i \in DOMAIN m.samples :
                            Mentions(m.samples[i].label, w.scenario.name)}
             s == [name |-> w.scenario.name, downtime |-> downtime,
                   events |-> w.scenario.events,
                   averaged |-> Cardinality(averaged)]
  <2>1. c = [m EXCEPT !.summaries = Append(m.summaries, s)]
    BY <1>2 DEF AddScenarioSummary, Collectors
  <2>2. s.name = w.scenario.name /\ s.downtime = downtime
    OBVIOUS
  <2> HIDE DEF s, c
  <2>3. /\ c.samples = m.samples /\ c.lastSampleTime = m.lastSampleTime
        /\ c.summaries = Append(m.summaries, s)
    BY <1>2, <2>1 DEF Collectors
  <2> QED
    BY <2>2, <2>3
<1> HIDE DEF c
<1>7. v \in Worlds
  BY <1>1, <1>3, <1>4 DEF Worlds
<1>8. /\ v.now = w.now /\ v.queue = w.queue /\ v.uid = w.uid
      /\ v.enterprise = w.enterprise /\ v.twin = w.twin
      /\ v.recoveryScheduled = w.recoveryScheduled
      /\ v.scenario = w.scenario /\ v.metrics = c /\ v.colour = w.colour
  BY <1>1, <1>3 DEF Worlds
<1> HIDE DEF v
<1>9. Badged(w, {}) => Badged(v, {})
  BY <1>8, SameBadges
<1>10. Summarized(w, v)
  BY <1>5, <1>8 DEF Summarized, downtime
<1>11. Ends(w, v)
  BY <1>4, <1>7, <1>8, <1>9, <1>10, UnrelatedExtends DEF Ends
<1> QED
  BY <1>11 DEF v

---------------------------------------------------------------------------
(* Agents                                                                  *)

\* A scenario started in the world w, and nothing else
Starts(w, v, name) ==
    /\ Extends(w, v)
    /\ Control(v.queue) = Control(w.queue)
    /\ v.scenario.name = name /\ v.scenario.start = w.now
    /\ SameFlag(w, v) /\ SameAgents(w, v) /\ SameSummaries(w, v)

LEMMA StartScenarioStarts ==
    ASSUME NEW w, WorldInv(w), NEW name \in Labels
    PROVE  Starts(w, StartScenario(w, name), name)
<1> DEFINE s == [name |-> name, start |-> w.now, events |-> 0]
           v == StartScenario(w, name)
<1>1. w \in Worlds
  BY DEF WorldInv, CoreInv
<1>2. /\ s \in [name : Labels, start : Nat, events : Nat]
      /\ s.start = w.now /\ s.name = name
  BY <1>1 DEF Worlds
<1>3. v = [w EXCEPT !.scenario = s]
  BY DEF StartScenario
<1> HIDE DEF s
<1>4. v \in Worlds
  BY <1>1, <1>2, <1>3 DEF Worlds
<1>5. /\ v.now = w.now /\ v.queue = w.queue /\ v.uid = w.uid
      /\ v.enterprise = w.enterprise /\ v.twin = w.twin
      /\ v.recoveryScheduled = w.recoveryScheduled
      /\ v.scenario = s /\ v.metrics = w.metrics /\ v.colour = w.colour
  BY <1>1, <1>3 DEF Worlds
<1> HIDE DEF v
<1>6. v.recoveryScheduled => RestorationDue(v)
  <2> SUFFICES ASSUME w.recoveryScheduled
               PROVE  RestorationDue(v)
    BY <1>5
  <2>1. PICK e \in w.queue : /\ e.op \in Restorations
                             /\ e.ts <= w.scenario.start + RecoveryDelay
    BY DEF WorldInv, CoreInv, RestorationDue
  <2>2. /\ e.ts \in Nat /\ w.scenario.start \in Nat /\ w.now \in Nat
        /\ RecoveryDelay \in Nat /\ w.scenario.start <= w.now
    BY <1>1, DelayAssumption DEF Worlds, Events, WorldInv, CoreInv
  <2>3. e.ts <= v.scenario.start + RecoveryDelay
    BY <1>2, <1>5, <2>1, <2>2
  <2> QED
    BY <1>5, <2>1, <2>3 DEF RestorationDue
<1>7. v.scenario.start <= v.now
  BY <1>1, <1>2, <1>5 DEF Worlds
<1>8. WorldInv(v)
  BY <1>4, <1>5, <1>6, <1>7 DEF WorldInv, CoreInv
<1>9. Extends(w, v)
  BY <1>5, <1>8, SameBadges DEF Extends
<1> QED
  BY <1>2, <1>5, <1>9 DEF Starts, SameFlag, SameAgents, SameSummaries, v

\* A twin that holds the reference of Aegis-RAN finds Aegis-RAN continuous
LEMMA AegisContinuous ==
    ASSUME NEW t \in TwinAgents, NEW a \in EnterpriseAgents
    PROVE  Continuous(t, a)
<1>1. a # NoAgent
  BY NoAgentAssumption
<1>2. a.identity = AegisRan
  BY DEF EnterpriseAgents
<1>3. /\ DOMAIN t.references = {AegisRan.name}
      /\ t.references[AegisRan.name] = Reference(AegisRan)
  BY DEF TwinAgents
<1> QED
  BY <1>1, <1>2, <1>3 DEF Continuous

\* With both agents present a verification succeeds, and is counted by the
\* twin, the collector and the scenario.
LEMMA VerifyAgentContinuityKeeps ==
    ASSUME NEW w, WorldInv(w), AgentsPresent(w)
    PROVE  Keeps(w, VerifyAgentContinuity(w))
<1> DEFINE v == VerifyAgentContinuity(w)
           t == CountCheck(w.twin, TRUE)
           c == IncVerificationEvents(w.metrics, TRUE)
<1>1. w \in Worlds
  BY DEF WorldInv, CoreInv
<1>2. w.twin \in TwinAgents /\ w.enterprise \in EnterpriseAgents
  BY <1>1 DEF Worlds, AgentsPresent
<1>3. v = [w EXCEPT !.twin = t, !.metrics = c]
  BY <1>1, <1>2, AegisContinuous DEF VerifyAgentContinuity
<1>4. /\ t \in TwinAgents /\ t.fail = w.twin.fail
      /\ t.success = w.twin.success + 1
  BY <1>2 DEF CountCheck, TwinAgents
<1>5. /\ c \in Collectors /\ c.total = w.metrics.total + 1
      /\ c.lastResult = TRUE /\ c.summaries = w.metrics.summaries
      /\ c.samples = w.metrics.samples
      /\ c.lastSampleTime = w.metrics.lastSampleTime
  <2>1. w.metrics \in Collectors /\ w.metrics.total + 1 \in Nat
    BY <1>1 DEF Worlds, Collectors
  <2>2. c = [w.metrics EXCEPT !.total = w.metrics.total + 1,
                              !.lastResult = TRUE]
    BY DEF IncVerificationEvents
  <2> QED
    BY <2>1, <2>2 DEF Collectors
<1> HIDE DEF t, c
<1>6. v \in Worlds
  BY <1>1, <1>3, <1>4, <1>5 DEF Worlds
<1>7. /\ v.now = w.now /\ v.queue = w.queue /\ v.uid = w.uid
      /\ v.enterprise = w.enterprise /\ v.twin = t
      /\ v.recoveryScheduled = w.recoveryScheduled
      /\ v.scenario = w.scenario /\ v.metrics = c /\ v.colour = w.colour
  BY <1>1, <1>3 DEF Worlds
<1> HIDE DEF v
<1>8. v.twin.fail = 0 /\ v.twin.success <= v.metrics.total
  <2>1. /\ w.twin.fail = 0 /\ w.twin.success <= w.metrics.total
    BY DEF WorldInv, CoreInv, AgentsPresent
  <2>2. w.twin.success \in Nat /\ w.metrics.total \in Nat
    BY <1>1, <1>2 DEF Worlds, TwinAgents, Collectors
  <2> QED
    BY <1>4, <1>5, <1>7, <2>1, <2>2
<1>9. WorldInv(v)
  BY <1>5, <1>6, <1>7, <1>8 DEF WorldInv, CoreInv, RestorationDue
<1>10. Extends(w, v)
  BY <1>5, <1>7, <1>9, SameBadges DEF Extends
<1>11. SameAgents(w, v)
  BY <1>2, <1>4, <1>7, NoAgentAssumption DEF SameAgents
<1> QED
  BY <1>5, <1>7, <1>10, <1>11
     DEF Keeps, SameFlag, SameScenario, SameSummaries, v

LEMMA VerifyInScenarioKeeps ==
    ASSUME NEW w, WorldInv(w), AgentsPresent(w)
    PROVE  Keeps(w, VerifyInScenario(w))
<1> DEFINE u == VerifyAgentContinuity(w)
           v == VerifyInScenario(w)
<1>1. Keeps(w, u)
  BY VerifyAgentContinuityKeeps
<1>2. u \in Worlds /\ WorldInv(u)
  BY <1>1, KeepsInv
<1> DEFINE s == [u.scenario EXCEPT !.events = u.scenario.events + 1]
<1>3. v = [u EXCEPT !.scenario = s]
  BY Zenon DEF VerifyInScenario
<1>4. /\ s \in [name : Labels, start : Nat, events : Nat]
      /\ s.start = u.scenario.start /\ s.name = u.scenario.name
  <2>1. u.scenario \in [name : Labels, start : Nat, events : Nat]
    BY <1>2 DEF Worlds
  <2> HIDE DEF u
  <2> QED
    BY <2>1
<1> HIDE DEF u, s
<1>5. /\ v \in Worlds
      /\ v.now = u.now /\ v.queue = u.queue /\ v.uid = u.uid
      /\ v.enterprise = u.enterprise /\ v.twin = u.twin
      /\ v.recoveryScheduled = u.recoveryScheduled
      /\ v.scenario = s /\ v.metrics = u.metrics /\ v.colour = u.colour
  BY <1>2, <1>3, <1>4 DEF Worlds
<1> HIDE DEF v
<1>6. WorldInv(v)
  BY <1>2, <1>4, <1>5 DEF WorldInv, CoreInv, RestorationDue
<1>7. Keeps(u, v)
  BY <1>4, <1>5, <1>6, SameBadges
     DEF Keeps, Extends, SameFlag, SameScenario, SameAgents, SameSummaries
<1> QED
  BY <1>1, <1>7, KeepsTrans DEF v

---------------------------------------------------------------------------
(* The books                                                               *)

LEMMA AccountsTrans ==
    ASSUME NEW w, NEW v, NEW x, KeepsBooks(w, v), KeepsBooks(v, x)
    PROVE  KeepsBooks(w, x)
  BY DEF KeepsBooks

LEMMA AccountsSelf == \A w : KeepsBooks(w, w)
  BY DEF KeepsBooks

LEMMA TwinBooks ==
    ASSUME NEW w, NEW v,
           v.twin = w.twin, v.metrics.total = w.metrics.total,
           v.metrics.samples = w.metrics.samples,
           Unlabelled(w.queue) => Unlabelled(v.queue)
    PROVE  KeepsBooks(w, v)
  BY DEF KeepsBooks, Books

LEMMA PaintAccounts ==
    ASSUME NEW w, WorldInv(w), NEW nodes, NEW c \in Colours
    PROVE  KeepsBooks(w, Paint(w, nodes, c))
<1> DEFINE v == Paint(w, nodes, c)
<1>1. w \in Worlds
  BY DEF WorldInv, CoreInv
<1>2. v.queue = w.queue /\ v.twin = w.twin /\ v.metrics = w.metrics
  BY <1>1, PaintShape
<1> HIDE DEF v
<1>3. KeepsBooks(w, v)
  BY <1>2, TwinBooks
<1> QED
  BY <1>3 DEF v

LEMMA ScheduleAccounts ==
    ASSUME NEW w, w \in Worlds, NEW d, NEW op, NEW arg,
           op # "RecordMetrics" \/ arg \notin RestorationSamples
    PROVE  KeepsBooks(w, Schedule(w, d, op, arg))
<1> DEFINE e == Event(w.now + d, w.uid, op, arg)
           v == Schedule(w, d, op, arg)
<1>1. e.op = op /\ e.arg = arg
  BY DEF Event
<1>2. v = [w EXCEPT !.queue = w.queue \cup {e}, !.uid = w.uid + 1]
  BY DEF Schedule, Worlds
<1> HIDE DEF e
<1>3. /\ v.queue = w.queue \cup {e} /\ v.twin = w.twin
      /\ v.metrics = w.metrics
  BY <1>2 DEF Worlds
<1> HIDE DEF v
<1>4. Unlabelled(w.queue) => Unlabelled(v.queue)
  BY <1>1, <1>3 DEF Unlabelled
<1>5. KeepsBooks(w, v)
  BY <1>3, <1>4, TwinBooks
<1> QED
  BY <1>5 DEF v

LEMMA ShowVerificationAccounts ==
    ASSUME NEW w, WorldInv(w), NEW n \in Nodes
    PROVE  KeepsBooks(w, ShowIdentityVerificationSuccess(w, n))
<1> DEFINE p == Paint(w, {Gnb, n}, "Verification_Success")
<1>1. w \in Worlds /\ "Verification_Success" \in Colours
  BY DEF WorldInv, CoreInv, Colours
<1>2. KeepsBooks(w, p) /\ p \in Worlds
  BY <1>1, PaintAccounts, PaintShape
<1> HIDE DEF p
<1>3. KeepsBooks(p, Schedule(p, 20, "ResetColours", <<n>>))
  BY <1>2, ScheduleAccounts
<1> QED
  BY <1>2, <1>3, AccountsTrans DEF ShowIdentityVerificationSuccess, p

LEMMA ShowVerificationShape ==
    ASSUME NEW w, WorldInv(w), NEW n \in Nodes
    PROVE  LET v == ShowIdentityVerificationSuccess(w, n)
           IN  /\ v.twin = w.twin
               /\ Unlabelled(w.queue) => Unlabelled(v.queue)
<1> DEFINE p == Paint(w, {Gnb, n}, "Verification_Success")
           e == Event(p.now + 20, p.uid, "ResetColours", <<n>>)
           v == Schedule(p, 20, "ResetColours", <<n>>)
<1>1. w \in Worlds /\ "Verification_Success" \in Colours
  BY DEF WorldInv, CoreInv, Colours
<1>2. p \in Worlds /\ p.queue = w.queue /\ p.twin = w.twin
  BY <1>1, PaintShape
<1> HIDE DEF p
<1>3. v.queue = w.queue \cup {e} /\ v.twin = w.twin
  BY <1>2 DEF Schedule, Worlds
<1>4. e.op = "ResetColours"
  BY DEF Event
<1> HIDE DEF e, v
<1> QED
  BY <1>3, <1>4 DEF Unlabelled, ShowIdentityVerificationSuccess, v, p

\* What a sample does to the world
LEMMA RecordShape ==
    ASSUME NEW w \in Worlds, NEW label
    PROVE  LET v == Record(w, label)
           IN  /\ v.queue = w.queue /\ v.twin = w.twin
               /\ v.metrics.total = w.metrics.total
               /\ \E x : /\ x.label = label /\ x.events = w.metrics.total
                         /\ v.metrics.samples = Append(w.metrics.samples, x)
<1> DEFINE c == RecordMetrics(w.metrics, w.now, label)
           x == Sample(w.metrics, w.now, label)
<1>1. w.metrics \in Collectors
  BY DEF Worlds
<1>2. x.label = label /\ x.events = w.metrics.total
  BY DEF Sample
<1>3. Record(w, label) = [w EXCEPT !.metrics = c]
  BY DEF Record, Worlds
<1>4. /\ c.total = w.metrics.total
      /\ c.samples = Append(w.metrics.samples, x)
  BY <1>1 DEF RecordMetrics, Collectors
<1> HIDE DEF c, x
<1> QED
  BY <1>2, <1>3, <1>4 DEF Worlds

\* Any other sample does not move the last restoration's, and a restoration's
\* becomes the last.
LEMMA CountedAppend ==
    ASSUME NEW s, s \in Seq(Samples), NEW x, NEW n
    PROVE  /\ x.label \notin RestorationSamples /\ CountedBefore(s, n)
                => CountedBefore(Append(s, x), n)
           /\ x.label \in RestorationSamples /\ n = x.events - 1
                => CountedBefore(Append(s, x), n)
<1> DEFINE t == Append(s, x)
           In(r) == {i \in DOMAIN r : r[i].label \in RestorationSamples}
<1>1. /\ Len(s) \in Nat /\ DOMAIN s = 1 .. Len(s)
      /\ DOMAIN t = 1 .. Len(s) + 1 /\ t[Len(s) + 1] = x
      /\ \A i \in 1 .. Len(s) : t[i] = s[i]
  OBVIOUS
<1> HIDE DEF t
<1>2. ASSUME x.label \notin RestorationSamples, CountedBefore(s, n)
      PROVE  CountedBefore(t, n)
  <2>1. In(t) = In(s)
    BY <1>1, <1>2
  <2>2. \A i \in In(s) : t[i] = s[i]
    BY <1>1
  <2> QED
    BY <1>2, <2>1, <2>2 DEF CountedBefore
<1>3. ASSUME x.label \in RestorationSamples, n = x.events - 1
      PROVE  CountedBefore(t, n)
  <2>1. Len(s) + 1 \in In(t)
    BY <1>1, <1>3
  <2>2. \A j \in In(t) : j <= Len(s) + 1
    BY <1>1
  <2> QED
    BY <1>1, <1>3, <2>1, <2>2 DEF CountedBefore
<1> QED
  BY <1>2, <1>3 DEF t

LEMMA RecordAccounts ==
    ASSUME NEW w, WorldInv(w), NEW label, label \notin RestorationSamples
    PROVE  KeepsBooks(w, Record(w, label))
<1> DEFINE v == Record(w, label)
<1>1. w \in Worlds
  BY DEF WorldInv, CoreInv
<1>2. w.metrics.samples \in Seq(Samples)
  BY <1>1 DEF Worlds, Collectors
<1>3. /\ v.queue = w.queue /\ v.twin = w.twin
      /\ v.metrics.total = w.metrics.total
  BY <1>1, RecordShape
<1>4. PICK x : /\ x.label = label
               /\ v.metrics.samples = Append(w.metrics.samples, x)
  BY <1>1, RecordShape
<1> HIDE DEF v
<1>5. KeepsBooks(w, v)
  BY <1>2, <1>3, <1>4, CountedAppend DEF KeepsBooks, Books
<1> QED
  BY <1>5 DEF v

LEMMA EndScenarioAccounts ==
    ASSUME NEW w, WorldInv(w)
    PROVE  KeepsBooks(w, EndScenario(w))
<1> DEFINE v == EndScenario(w)
<1>1. w \in Worlds /\ w.metrics \in Collectors
  BY DEF WorldInv, CoreInv, Worlds
<1>2. PICK m, s : /\ m = [w.metrics EXCEPT !.summaries = s]
                  /\ v = [w EXCEPT !.metrics = m]
  BY DEF EndScenario, AddScenarioSummary
<1>3. m.total = w.metrics.total /\ m.samples = w.metrics.samples
  BY <1>1, <1>2 DEF Collectors
<1>4. v.queue = w.queue /\ v.twin = w.twin /\ v.metrics = m
  BY <1>1, <1>2 DEF Worlds
<1> HIDE DEF v
<1>5. KeepsBooks(w, v)
  BY <1>3, <1>4, TwinBooks
<1> QED
  BY <1>5 DEF v

LEMMA StartScenarioAccounts ==
    ASSUME NEW w, WorldInv(w), NEW name
    PROVE  KeepsBooks(w, StartScenario(w, name))
<1> DEFINE v == StartScenario(w, name)
<1>1. w \in Worlds
  BY DEF WorldInv, CoreInv
<1>2. v.queue = w.queue /\ v.twin = w.twin /\ v.metrics = w.metrics
  BY <1>1 DEF StartScenario, Worlds
<1> HIDE DEF v
<1>3. KeepsBooks(w, v)
  BY <1>2, TwinBooks
<1> QED
  BY <1>3 DEF v

\* The twin and the collector count a verification together.
LEMMA VerifyShape ==
    ASSUME NEW w, WorldInv(w), AgentsPresent(w)
    PROVE  LET v == VerifyInScenario(w)
           IN  /\ v.queue = w.queue
               /\ v.metrics.total = w.metrics.total + 1
               /\ TotalChecks(v.twin) = TotalChecks(w.twin) + 1
               /\ v.metrics.samples = w.metrics.samples
<1> DEFINE u == VerifyAgentContinuity(w)
           v == VerifyInScenario(w)
           t == CountCheck(w.twin, TRUE)
           c == IncVerificationEvents(w.metrics, TRUE)
<1>1. w \in Worlds
  BY DEF WorldInv, CoreInv
<1>2. /\ w.twin \in TwinAgents /\ w.enterprise \in EnterpriseAgents
      /\ w.metrics \in Collectors
  BY <1>1 DEF Worlds, AgentsPresent
<1>3. u = [w EXCEPT !.twin = t, !.metrics = c]
  BY <1>1, <1>2, AegisContinuous DEF VerifyAgentContinuity
<1>4. TotalChecks(t) = TotalChecks(w.twin) + 1
  BY <1>2 DEF CountCheck, TwinAgents, TotalChecks
<1>5. c.total = w.metrics.total + 1 /\ c.samples = w.metrics.samples
  BY <1>2 DEF IncVerificationEvents, Collectors
<1> HIDE DEF t, c
<1>6. /\ u.queue = w.queue /\ u.twin = t /\ u.metrics = c
      /\ DOMAIN u = DOMAIN w
      /\ {"queue", "twin", "metrics", "scenario"} \subseteq DOMAIN w
  BY <1>1, <1>3 DEF Worlds
<1>7. PICK s : v = [u EXCEPT !.scenario = s]
  BY Zenon DEF VerifyInScenario
<1> HIDE DEF u, v
<1>8. v.queue = u.queue /\ v.twin = u.twin /\ v.metrics = u.metrics
  BY <1>6, <1>7
<1> QED
  BY <1>4, <1>5, <1>6, <1>8 DEF v

LEMMA VerifyAccounts ==
    ASSUME NEW w, WorldInv(w), AgentsPresent(w)
    PROVE  KeepsBooks(w, VerifyInScenario(w))
<1> DEFINE v == VerifyInScenario(w)
<1>1. /\ v.queue = w.queue /\ v.metrics.total = w.metrics.total + 1
      /\ TotalChecks(v.twin) = TotalChecks(w.twin) + 1
      /\ v.metrics.samples = w.metrics.samples
  BY VerifyShape
<1>2. w.metrics.total \in Nat /\ TotalChecks(w.twin) \in Nat
  BY DEF WorldInv, CoreInv, Worlds, Collectors, AgentsPresent, TwinAgents,
         TotalChecks
<1>3. v.metrics.total - TotalChecks(v.twin)
        = w.metrics.total - TotalChecks(w.twin)
  BY <1>1, <1>2
<1> HIDE DEF v
<1>4. KeepsBooks(w, v)
  BY <1>1, <1>3 DEF KeepsBooks, Books, AgentsPresent
<1> QED
  BY <1>4 DEF v

\* The sample of a restoration, taken with a twin that has made one check
LEMMA RestorationBooks ==
    ASSUME NEW w, WorldInv(w), Unlabelled(w.queue),
           TotalChecks(w.twin) = 1, NEW label \in RestorationSamples
    PROVE  Books(Record(w, label))
<1> DEFINE v == Record(w, label)
<1>1. w \in Worlds
  BY DEF WorldInv, CoreInv
<1>2. w.metrics.samples \in Seq(Samples)
  BY <1>1 DEF Worlds, Collectors
<1>3. /\ v.queue = w.queue /\ v.twin = w.twin
      /\ v.metrics.total = w.metrics.total
  BY <1>1, RecordShape
<1>4. PICK x : /\ x.label = label /\ x.events = w.metrics.total
               /\ v.metrics.samples = Append(w.metrics.samples, x)
  BY <1>1, RecordShape
<1> HIDE DEF v
<1>5. CountedBefore(v.metrics.samples, v.metrics.total - TotalChecks(v.twin))
  BY <1>2, <1>3, <1>4, CountedAppend
<1> QED
  BY <1>3, <1>5 DEF Books, v

\* No sample a scenario leaves in the queue passes for a restoration's.
LEMMA PlainLabels ==
    {<<"Baseline", "Failure", "Mid">>, <<"Baseline", "Failure", "End">>,
     <<"Crash", "During">>, <<"Migration", "Start">>,
     <<"Continuity", "Success", "Migration">>, <<"Restart", "Start">>,
     <<"Continuity", "Success", "Process", "Restart">>,
     <<"Teardown", "Start">>, <<"Network", "Partition", "Mid">>,
     <<"Network", "Partition", "End">>} \cap RestorationSamples = {}
  BY DEF RestorationSamples

---------------------------------------------------------------------------
(* Destruction and restoration                                             *)

LEMMA NewTwinType ==
    RegisterReference(NewTwin(Gnb, JmcOrigin), AegisRan.name,
                      Reference(AegisRan))
        = [identity |-> JmcOrigin, host |-> Gnb,
           references |-> [n \in {AegisRan.name} |-> Reference(AegisRan)],
           success |-> 0, fail |-> 0]
<1> DEFINE a == AegisRan.name
           r == Reference(AegisRan)
           t == NewTwin(Gnb, JmcOrigin)
<1>1. t = [identity |-> JmcOrigin, host |-> Gnb, references |-> << >>,
           success |-> 0, fail |-> 0]
  BY DEF NewTwin
<1> HIDE DEF a, r, t
<1>2. DOMAIN t.references \cup {a} = {a}
  BY <1>1
<1>3. [n \in DOMAIN t.references \cup {a} |->
            IF n = a THEN r ELSE t.references[n]] = [n \in {a} |-> r]
  BY <1>2
<1>4. RegisterReference(t, a, r)
        = [t EXCEPT !.references = [n \in {a} |-> r]]
  BY <1>3, Zenon DEF RegisterReference
<1>5. RegisterReference(t, a, r)
        = [identity |-> JmcOrigin, host |-> Gnb,
           references |-> [n \in {a} |-> r], success |-> 0, fail |-> 0]
  BY <1>1, <1>4
<1> QED
  BY <1>5 DEF a, r, t

\* Both agents are there, whatever was there before
Creates(w, v) ==
    /\ Extends(w, v)
    /\ AgentsPresent(v)
    /\ v.queue = w.queue
    /\ SameFlag(w, v) /\ SameScenario(w, v) /\ SameSummaries(w, v)

LEMMA CreateAgentsCreates ==
    ASSUME NEW w, CoreInv(w), w.recoveryScheduled => RestorationDue(w)
    PROVE  /\ Creates(w, CreateAgents(w))
           /\ TotalChecks(CreateAgents(w).twin) = 0
           /\ CreateAgents(w).metrics = w.metrics
<1> DEFINE t == RegisterReference(NewTwin(Gnb, JmcOrigin), AegisRan.name,
                                  Reference(AegisRan))
           a == NewEnterprise(Primary, AegisRan)
           v == CreateAgents(w)
<1>1. w \in Worlds
  BY DEF CoreInv
<1>2. t \in TwinAgents /\ t.fail = 0 /\ t.success = 0
  BY NewTwinType DEF TwinAgents
<1>3. a \in EnterpriseAgents
  BY DEF NewEnterprise, EnterpriseAgents, Nodes
<1>4. v = [w EXCEPT !.twin = t, !.enterprise = a]
  BY DEF CreateAgents
<1> HIDE DEF t, a
<1>5. /\ v \in Worlds
      /\ v.now = w.now /\ v.queue = w.queue /\ v.uid = w.uid
      /\ v.enterprise = a /\ v.twin = t
      /\ v.recoveryScheduled = w.recoveryScheduled
      /\ v.scenario = w.scenario /\ v.metrics = w.metrics
      /\ v.colour = w.colour
  BY <1>1, <1>2, <1>3, <1>4 DEF Worlds
<1> HIDE DEF v
<1>6. AgentsPresent(v)
  BY <1>2, <1>3, <1>5, NoAgentAssumption DEF AgentsPresent
<1>7. v.twin.fail = 0 /\ v.twin.success <= v.metrics.total
  BY <1>1, <1>2, <1>5 DEF Worlds, Collectors
<1>8. WorldInv(v)
  BY <1>5, <1>6, <1>7
     DEF WorldInv, CoreInv, RestorationDue, AgentsPresent
<1>9. Extends(w, v)
  BY <1>5, <1>8, SameBadges DEF Extends
<1> QED
  BY <1>2, <1>5, <1>6, <1>9
     DEF Creates, SameFlag, SameScenario, SameSummaries, TotalChecks, v

LEMMA ClearFlagCore ==
    ASSUME NEW w, CoreInv(w)
    PROVE  LET v == ClearFlag(w)
           IN  /\ CoreInv(v) /\ ~v.recoveryScheduled
               /\ v.now = w.now /\ v.queue = w.queue /\ v.colour = w.colour
               /\ v.scenario = w.scenario /\ v.metrics = w.metrics
<1> DEFINE v == ClearFlag(w)
<1>1. w \in Worlds
  BY DEF CoreInv
<1>2. v = [w EXCEPT !.recoveryScheduled = FALSE]
  BY DEF ClearFlag
<1>3. /\ v \in Worlds
      /\ v.now = w.now /\ v.queue = w.queue /\ v.uid = w.uid
      /\ v.enterprise = w.enterprise /\ v.twin = w.twin
      /\ v.recoveryScheduled = FALSE
      /\ v.scenario = w.scenario /\ v.metrics = w.metrics
      /\ v.colour = w.colour
  BY <1>1, <1>2 DEF Worlds
<1> HIDE DEF v
<1>4. CoreInv(v)
  BY <1>3 DEF CoreInv
<1> QED
  BY <1>3, <1>4 DEF v

\* RecoverFromCrash and RedeploySystem, from any world the core of the
\* invariant holds of: both agents are back, verified, the flag is clear and
\* the scenario has its summary.
Restores(w, v) ==
    /\ Extends(w, v)
    /\ AgentsPresent(v) /\ ~v.recoveryScheduled
    /\ Control(v.queue) = Control(w.queue)
    /\ SameScenario(w, v)
    /\ Summarized(w, v)
    /\ KeepsBooks(w, v)

LEMMA RestoreRestores ==
    ASSUME NEW w, CoreInv(w), NEW label \in Labels \cap RestorationSamples
    PROVE  Restores(w, Restore(w, label))
<1> DEFINE cleared  == ClearFlag(w)
           created  == CreateAgents(cleared)
           painted  == Paint(created, {Primary}, "Edge_Reappeared")
           verified == VerifyInScenario(painted)
           shown    == IF Continuous(created.twin, created.enterprise)
                       THEN ShowIdentityVerificationSuccess(verified, Primary)
                       ELSE verified
           sampled  == Record(shown, label)
           ended    == EndScenario(sampled)
<1>1. /\ CoreInv(cleared) /\ ~cleared.recoveryScheduled
      /\ cleared.now = w.now /\ cleared.queue = w.queue
      /\ cleared.colour = w.colour
      /\ cleared.scenario = w.scenario /\ cleared.metrics = w.metrics
  BY ClearFlagCore
<1>2. Restore(w, label) = ended
  BY DEF Restore
<1> HIDE DEF cleared
<1>3. Creates(cleared, created) /\ TotalChecks(created.twin) = 0
  BY <1>1, CreateAgentsCreates
<1>4. WorldInv(created) /\ AgentsPresent(created)
  BY <1>3 DEF Creates, Extends
<1> HIDE DEF created
<1>5. /\ Keeps(created, painted)
      /\ painted.twin = created.twin /\ painted.queue = created.queue
  <2>1. created \in Worlds /\ "Edge_Reappeared" \in Colours
    BY <1>4 DEF WorldInv, CoreInv, Colours
  <2> QED
    BY <1>4, <2>1, PaintKeeps, PaintShape
<1> HIDE DEF painted
<1>6. /\ Keeps(painted, verified)
      /\ TotalChecks(verified.twin) = 1 /\ verified.queue = w.queue
  BY <1>1, <1>3, <1>4, <1>5, KeepsInv, VerifyInScenarioKeeps, VerifyShape
     DEF Creates
<1> HIDE DEF verified
<1>7. /\ Keeps(verified, shown) /\ shown.twin = verified.twin
      /\ Unlabelled(verified.queue) => Unlabelled(shown.queue)
  <2>1. WorldInv(verified)
    BY <1>6, KeepsInv
  <2> QED
    BY <2>1, KeepsSelf, ShowVerificationKeeps, ShowVerificationShape DEF Nodes
<1> HIDE DEF shown
<1>8. Keeps(shown, sampled) /\ (Unlabelled(w.queue) => Books(sampled))
  BY <1>6, <1>7, KeepsInv, RecordKeeps, RestorationBooks
<1> HIDE DEF sampled
<1>9. Keeps(created, sampled)
  BY <1>5, <1>6, <1>7, <1>8, KeepsTrans
<1>10. Ends(sampled, ended) /\ KeepsBooks(sampled, ended)
  BY <1>8, KeepsInv, EndScenarioEnds, EndScenarioAccounts
<1> HIDE DEF ended
<1>11. Extends(w, ended)
  <2>1. Extends(cleared, ended)
    BY <1>3, <1>9, <1>10, ExtendsTrans DEF Creates, Keeps, Ends
  <2>2. Badged(w, {}) => Badged(cleared, {})
    BY <1>1, SameBadges
  <2> QED
    BY <1>1, <2>1, <2>2 DEF Extends
<1>12. AgentsPresent(ended) /\ ~ended.recoveryScheduled
  BY <1>1, <1>3, <1>9, <1>10
     DEF Creates, Keeps, Ends, SameFlag, SameAgents, AgentsPresent
<1>13. Control(ended.queue) = Control(w.queue) /\ SameScenario(w, ended)
  BY <1>1, <1>3, <1>9, <1>10 DEF Creates, Keeps, Ends, SameScenario
<1>14. Summarized(w, ended)
  <2>1. sampled.now = w.now
    BY <1>1, <1>3, <1>9 DEF Creates, Keeps, Extends
  <2>2. /\ sampled.scenario.name = w.scenario.name
        /\ sampled.scenario.start = w.scenario.start
        /\ sampled.metrics.summaries = w.metrics.summaries
    BY <1>1, <1>3, <1>9
       DEF Creates, Keeps, SameScenario, SameSummaries
  <2> QED
    BY <1>10, <2>1, <2>2 DEF Ends, Summarized
<1>15. KeepsBooks(w, ended)
  BY <1>8, <1>10 DEF KeepsBooks, Books
<1> QED
  BY <1>2, <1>11, <1>12, <1>13, <1>14, <1>15 DEF Restores

LEMMA RestorationLabels ==
    RestorationSamples \subseteq Labels
<1>1. {"Continuity", "Success", "Crash", "Recovery", "Teardown", "Redeploy"}
        \subseteq Words
  BY DEF Words
<1>2. /\ <<"Continuity", "Success", "Crash", "Recovery">> \in Labels
      /\ <<"Continuity", "Success", "Teardown", "Redeploy">> \in Labels
  BY <1>1, LabelType
<1> QED
  BY <1>2 DEF RestorationSamples

LEMMA RecoverFromCrashRestores ==
    ASSUME NEW w, CoreInv(w)
    PROVE  Restores(w, RecoverFromCrash(w))
  BY RestorationLabels, RestoreRestores
     DEF RecoverFromCrash, RestorationSamples

LEMMA RedeploySystemRestores ==
    ASSUME NEW w, CoreInv(w)
    PROVE  Restores(w, RedeploySystem(w))
  BY RestorationLabels, RestoreRestores
     DEF RedeploySystem, RestorationSamples

\* Both agents go.  The restoration is due in time if the scenario started
\* now, whether this call schedules it or an earlier failure did.
Destroys(w, v, restoration) ==
    /\ Extends(w, v)
    /\ v.enterprise = NoAgent /\ v.twin = NoAgent /\ v.recoveryScheduled
    /\ SameScenario(w, v) /\ SameSummaries(w, v)
    /\ w.recoveryScheduled => Control(v.queue) = Control(w.queue)
    /\ ~w.recoveryScheduled =>
          \E e : /\ e.op = restoration /\ e.ts = w.now + RecoveryDelay
                 /\ Control(v.queue) = Control(w.queue) \cup {e}
    /\ KeepsBooks(w, v)

LEMMA DestroyAgentsDestroys ==
    ASSUME NEW w, WorldInv(w), w.scenario.start = w.now,
           NEW restoration \in Restorations
    PROVE  Destroys(w, DestroyAgents(w, restoration), restoration)
<1> DEFINE gone == [w EXCEPT !.enterprise = NoAgent, !.twin = NoAgent]
           flagged == [gone EXCEPT !.recoveryScheduled = TRUE]
           e == Event(w.now + RecoveryDelay, w.uid, restoration, << >>)
           v == [w EXCEPT !.enterprise = NoAgent, !.twin = NoAgent,
                          !.recoveryScheduled = TRUE,
                          !.queue = w.queue \cup {e}, !.uid = w.uid + 1]
<1>1. w \in Worlds
  BY DEF WorldInv, CoreInv
<1>2. gone \in Worlds
  BY <1>1 DEF Worlds
<1>3. CASE w.recoveryScheduled
  <2>1. DestroyAgents(w, restoration) = gone
    BY <1>3 DEF DestroyAgents
  <2>2. /\ gone.now = w.now /\ gone.queue = w.queue /\ gone.uid = w.uid
        /\ gone.enterprise = NoAgent /\ gone.twin = NoAgent
        /\ gone.recoveryScheduled = w.recoveryScheduled
        /\ gone.scenario = w.scenario /\ gone.metrics = w.metrics
        /\ gone.colour = w.colour
    BY <1>1 DEF Worlds
  <2> HIDE DEF gone
  <2>3. WorldInv(gone)
    BY <1>2, <1>3, <2>2 DEF WorldInv, CoreInv, RestorationDue
  <2>4. Extends(w, gone)
    BY <2>2, <2>3, SameBadges DEF Extends
  <2> QED
    BY <1>3, <2>1, <2>2, <2>4
       DEF Destroys, SameScenario, SameSummaries, KeepsBooks, Books
<1>4. CASE ~w.recoveryScheduled
  <2>1. DestroyAgents(w, restoration)
            = Schedule(flagged, RecoveryDelay, restoration, << >>)
    BY <1>4, Zenon DEF DestroyAgents
  <2>2. Schedule(flagged, RecoveryDelay, restoration, << >>) = v
    <3>1. /\ flagged.now = w.now /\ flagged.queue = w.queue
          /\ flagged.uid = w.uid
          /\ flagged = [w EXCEPT !.enterprise = NoAgent, !.twin = NoAgent,
                                 !.recoveryScheduled = TRUE]
      BY <1>1 DEF Worlds
    <3> HIDE DEF flagged
    <3>2. Schedule(flagged, RecoveryDelay, restoration, << >>)
            = [flagged EXCEPT !.queue = w.queue \cup {e}, !.uid = w.uid + 1]
      BY <3>1 DEF Schedule
    <3> HIDE DEF e
    <3> QED
      BY <1>1, <3>1, <3>2 DEF Worlds
  <2>3. /\ e \in Events /\ e.ts = w.now + RecoveryDelay /\ e.uid = w.uid
        /\ e.op = restoration
    BY <1>1, DelayAssumption, LabelType
       DEF Worlds, Events, Event, Restorations, LabelHandlers, Labels
  <2> HIDE DEF e
  <2>4. /\ v \in Worlds
        /\ v.now = w.now /\ v.queue = w.queue \cup {e} /\ v.uid = w.uid + 1
        /\ v.enterprise = NoAgent /\ v.twin = NoAgent
        /\ v.recoveryScheduled = TRUE
        /\ v.scenario = w.scenario /\ v.metrics = w.metrics
        /\ v.colour = w.colour
    <3>1. w.queue \cup {e} \in SUBSET Events /\ w.uid + 1 \in Nat
      BY <1>1, <2>3 DEF Worlds
    <3> QED
      BY <1>1, <3>1 DEF Worlds
  <2> HIDE DEF v
  <2>5. w.now \in Nat /\ w.uid \in Nat /\ RecoveryDelay \in Nat
    BY <1>1, DelayAssumption DEF Worlds
  <2>6. \A x \in w.queue : x.ts \in Nat /\ x.uid \in Nat
    BY <1>1 DEF Worlds, Events
  <2>7. \A x \in v.queue : x.ts >= v.now /\ x.uid < v.uid
    BY <2>3, <2>4, <2>5, <2>6 DEF WorldInv, CoreInv
  <2>8. \A x, y \in v.queue : x.uid = y.uid => x = y
    BY <2>3, <2>4, <2>5, <2>6 DEF WorldInv, CoreInv
  <2>9. RestorationDue(v)
    BY <2>3, <2>4, <2>5 DEF RestorationDue
  <2>10. WorldInv(v)
    BY <2>4, <2>7, <2>8, <2>9 DEF WorldInv, CoreInv
  <2>11. Extends(w, v)
    BY <2>4, <2>10, SameBadges DEF Extends
  <2>12. Control(v.queue) = Control(w.queue) \cup {e}
    <3>1. e.op \notin NodeHandlers \cup {"RecordMetrics"}
      BY <2>3 DEF NodeHandlers, Restorations
    <3> QED
      BY <2>4, <3>1 DEF Control
  <2>13. KeepsBooks(w, v)
    <3>1. e.op # "RecordMetrics"
      BY <2>3 DEF Restorations
    <3> QED
      BY <2>4, <3>1 DEF KeepsBooks, Books, Unlabelled
  <2> QED
    BY <1>4, <2>1, <2>2, <2>3, <2>4, <2>11, <2>12, <2>13
       DEF Destroys, SameScenario, SameSummaries
<1> QED
  BY <1>3, <1>4


---------------------------------------------------------------------------
(* Scenario handlers                                                       *)

LEMMA HandlerLabels ==
    /\ << >> \in Labels
    /\ <<"Baseline", "Failure">> \in Labels
    /\ <<"Baseline", "Failure", "Mid">> \in Labels
    /\ <<"Baseline", "Failure", "End">> \in Labels
    /\ <<"Node", "Crash">> \in Labels
    /\ <<"Crash", "During">> \in Labels
    /\ <<"Agent", "Migration">> \in Labels
    /\ <<"Migration", "Start">> \in Labels
    /\ <<"Continuity", "Success", "Migration">> \in Labels
    /\ <<"Process", "Restart">> \in Labels
    /\ <<"Restart", "Start">> \in Labels
    /\ <<"Continuity", "Success", "Process", "Restart">> \in Labels
    /\ <<"Full", "Teardown">> \in Labels
    /\ <<"Teardown", "Start">> \in Labels
    /\ <<"Network", "Partition">> \in Labels
    /\ <<"Network", "Partition", "Mid">> \in Labels
    /\ <<"Network", "Partition", "End">> \in Labels
    /\ <<"Final">> \in Labels
<1> DEFINE Used ==
      {"Baseline", "Failure", "Mid", "End", "Node", "Crash", "During", "Agent",
       "Migration", "Start", "Continuity", "Success", "Process", "Restart",
       "Full", "Teardown", "Network", "Partition", "Final"}
<1>1. Used \subseteq Words /\ "Final" \in Used
  BY DEF Words
<1> HIDE DEF Used
<1>2. << >> \in Labels
  BY LabelType, <1>1
<1>3. \A a \in Used : <<a>> \in Labels
  BY LabelType, <1>1
<1>4. \A a, b \in Used : <<a, b>> \in Labels
  BY LabelType, <1>1
<1>5. \A a, b, c \in Used : <<a, b, c>> \in Labels
  BY LabelType, <1>1
<1>6. \A a, b, c, d \in Used : <<a, b, c, d>> \in Labels
  BY LabelType, <1>1
<1>7. /\ <<"Baseline", "Failure">> \in Labels
      /\ <<"Node", "Crash">> \in Labels
      /\ <<"Crash", "During">> \in Labels
      /\ <<"Agent", "Migration">> \in Labels
      /\ <<"Migration", "Start">> \in Labels
  BY <1>4 DEF Used
<1>8. /\ <<"Process", "Restart">> \in Labels
      /\ <<"Restart", "Start">> \in Labels
      /\ <<"Full", "Teardown">> \in Labels
      /\ <<"Teardown", "Start">> \in Labels
      /\ <<"Network", "Partition">> \in Labels
  BY <1>4 DEF Used
<1>9. /\ <<"Baseline", "Failure", "Mid">> \in Labels
      /\ <<"Baseline", "Failure", "End">> \in Labels
      /\ <<"Continuity", "Success", "Migration">> \in Labels
      /\ <<"Network", "Partition", "Mid">> \in Labels
      /\ <<"Network", "Partition", "End">> \in Labels
  BY ZenonT(30), <1>5 DEF Used
<1>10. <<"Continuity", "Success", "Process", "Restart">> \in Labels
  <2>1. /\ "Continuity" \in Used /\ "Success" \in Used
        /\ "Process" \in Used /\ "Restart" \in Used
    BY DEF Used
  <2> QED
    BY <1>6, <2>1
<1> QED
  BY <1>1, <1>2, <1>3, <1>7, <1>8, <1>9, <1>10

LEMMA StartsKeeps ==
    ASSUME NEW w, NEW v, NEW x, NEW name, Starts(w, v, name), Keeps(v, x)
    PROVE  Starts(w, x, name)
  BY ExtendsTrans DEF Starts, Keeps, SameFlag, SameScenario, SameAgents,
                      SameSummaries

LEMMA StartsInv ==
    ASSUME NEW w, NEW v, NEW name, Starts(w, v, name)
    PROVE  /\ WorldInv(v) /\ v.scenario.start = v.now /\ v.now = w.now
           /\ AgentsPresent(w) => AgentsPresent(v)
  BY DEF Starts, Extends, SameAgents, AgentsPresent

\* A scenario has started and will end, delay from now, with the event op.
Awaits(w, v, name, op, delay) ==
    /\ Extends(w, v)
    /\ v.scenario.name = name /\ v.scenario.start = w.now
    /\ SameSummaries(w, v)
    /\ \E e : /\ e.op = op /\ e.ts = w.now + delay
              /\ Control(v.queue) = Control(w.queue) \cup {e}

LEMMA BaselineAwaits ==
    ASSUME NEW w, WorldInv(w)
    PROVE  LET v == RunBaselineFailureScenario(w)
           IN  /\ Awaits(w, v, <<"Baseline", "Failure">>, "EndScenario", 110)
               /\ SameFlag(w, v) /\ SameAgents(w, v) /\ KeepsBooks(w, v)
<1> DEFINE name    == <<"Baseline", "Failure">>
           started == StartScenario(w, name)
           painted == Paint(started, {Primary, Secondary}, "SplitBrain")
           mid     == Schedule(painted, 50, "RecordMetrics",
                               <<"Baseline", "Failure", "Mid">>)
           end     == Schedule(mid, 100, "RecordMetrics",
                               <<"Baseline", "Failure", "End">>)
           v       == Schedule(end, 110, "EndScenario", << >>)
<1>1. Starts(w, started, name) /\ KeepsBooks(w, started)
  BY HandlerLabels, StartScenarioStarts, StartScenarioAccounts
<1>2. RunBaselineFailureScenario(w) = v
  BY DEF RunBaselineFailureScenario
<1> HIDE DEF started
<1>3. Keeps(started, painted) /\ KeepsBooks(started, painted)
  BY <1>1, StartsInv, PaintKeeps, PaintAccounts DEF Colours
<1> HIDE DEF painted
<1>4. Keeps(painted, mid) /\ KeepsBooks(painted, mid)
  BY <1>3, KeepsInv, HandlerLabels, PlainLabels, ScheduleSampleKeeps,
     ScheduleAccounts
<1> HIDE DEF mid
<1>5. Keeps(mid, end) /\ KeepsBooks(mid, end)
  BY <1>4, KeepsInv, HandlerLabels, PlainLabels, ScheduleSampleKeeps,
     ScheduleAccounts
<1> HIDE DEF end
<1>6. Starts(w, end, name)
  BY <1>1, <1>3, <1>4, <1>5, KeepsTrans, StartsKeeps
<1> HIDE DEF name
<1>7. PICK e : /\ e.ts = end.now + 110 /\ e.op = "EndScenario"
               /\ Plans(end, v, e)
               /\ Control(v.queue) = Control(end.queue) \cup {e}
  <2>1. WorldInv(end)
    BY <1>6, StartsInv
  <2> QED
    BY <2>1, ScheduleEndPlans
<1>9. KeepsBooks(end, v)
  BY <1>5, KeepsInv, ScheduleAccounts
<1> HIDE DEF v
<1>10. KeepsBooks(w, v)
  BY <1>1, <1>3, <1>4, <1>5, <1>9, AccountsTrans
<1>8. Awaits(w, v, name, "EndScenario", 110)
  <2>1. Extends(w, v)
    BY <1>6, <1>7, ExtendsTrans DEF Starts, Plans
  <2> QED
    BY <1>6, <1>7, <2>1, StartsInv
       DEF Awaits, Starts, Plans, SameScenario, SameSummaries
<1> QED
  BY <1>2, <1>6, <1>7, <1>8, <1>10
     DEF Starts, Plans, SameFlag, SameAgents, name

LEMMA NodeCrashDestroys ==
    ASSUME NEW w, WorldInv(w)
    PROVE  LET v == TriggerNodeCrash(w)
           IN  /\ Extends(w, v)
               /\ v.enterprise = NoAgent /\ v.twin = NoAgent
               /\ v.recoveryScheduled /\ KeepsBooks(w, v)
               /\ ~w.recoveryScheduled =>
                    Awaits(w, v, <<"Node", "Crash">>, "RecoverFromCrash",
                           RecoveryDelay)
<1> DEFINE name    == <<"Node", "Crash">>
           started == StartScenario(w, name)
           crashed == Paint(started, {Primary}, "Edge_Crash")
           painted == Schedule(crashed, 5, "ShowAgentDisappears", <<Primary>>)
           sampled == Record(painted, <<"Crash", "During">>)
           v       == DestroyAgents(sampled, "RecoverFromCrash")
<1>1. Starts(w, started, name) /\ KeepsBooks(w, started)
  BY HandlerLabels, StartScenarioStarts, StartScenarioAccounts
<1>2. TriggerNodeCrash(w) = v
  BY DEF TriggerNodeCrash
<1> HIDE DEF started
<1>3. Keeps(started, crashed) /\ KeepsBooks(started, crashed)
  BY <1>1, StartsInv, PaintKeeps, PaintAccounts DEF Colours
<1> HIDE DEF crashed
<1>4. Keeps(crashed, painted) /\ KeepsBooks(crashed, painted)
  BY <1>3, KeepsInv, ScheduleNodeKeeps, ScheduleAccounts
     DEF NodeHandlers, Nodes
<1> HIDE DEF painted
<1>5. Keeps(painted, sampled) /\ KeepsBooks(painted, sampled)
  BY <1>4, KeepsInv, HandlerLabels, PlainLabels, RecordKeeps, RecordAccounts
<1> HIDE DEF sampled
<1>6. Starts(w, sampled, name)
  BY <1>1, <1>3, <1>4, <1>5, KeepsTrans, StartsKeeps
<1>7. Destroys(sampled, v, "RecoverFromCrash")
  BY <1>6, StartsInv, DestroyAgentsDestroys DEF Restorations
<1> HIDE DEF name, v
<1>8. Extends(w, v)
  BY <1>6, <1>7, ExtendsTrans DEF Starts, Destroys
<1>9. ~w.recoveryScheduled =>
          Awaits(w, v, name, "RecoverFromCrash", RecoveryDelay)
  BY <1>6, <1>7, <1>8, StartsInv
     DEF Awaits, Starts, Destroys, SameFlag, SameScenario, SameSummaries
<1>10. KeepsBooks(w, v)
  BY <1>1, <1>3, <1>4, <1>5, <1>7, AccountsTrans DEF Destroys
<1> QED
  BY <1>2, <1>7, <1>8, <1>9, <1>10 DEF Destroys, name

\* EnsureAgentsPresent always leaves both agents, so that the handlers that
\* return "if it fails" never do.
LEMMA BeginStarts ==
    ASSUME NEW w, WorldInv(w), NEW name \in Labels
    PROVE  LET v == Begin(w, name)
           IN  /\ Extends(w, v) /\ AgentsPresent(v)
               /\ v.scenario.start = v.now /\ KeepsBooks(w, v)
               /\ AgentsPresent(w) => Starts(w, v, name)
<1> DEFINE started == StartScenario(w, name)
           v       == Begin(w, name)
<1>1. Starts(w, started, name) /\ KeepsBooks(w, started)
  BY StartScenarioStarts, StartScenarioAccounts
<1>2. v = EnsureAgentsPresent(started)
  BY DEF Begin
<1> HIDE DEF started, v
<1>3. CASE AgentsPresent(started)
  BY <1>1, <1>2, <1>3, StartsInv DEF EnsureAgentsPresent, Starts, v
<1>4. CASE ~AgentsPresent(started)
  <2>1. Restores(started, v)
    BY <1>1, <1>2, <1>4, StartsInv, RecoverFromCrashRestores
       DEF EnsureAgentsPresent, WorldInv
  <2>2. Extends(w, v)
    BY <1>1, <2>1, ExtendsTrans DEF Starts, Restores
  <2>3. v.scenario.start = v.now
    BY <1>1, <2>1, StartsInv DEF Restores, Extends, SameScenario
  <2>4. ~AgentsPresent(w)
    BY <1>1, <1>4, StartsInv
  <2>5. KeepsBooks(w, v)
    BY <1>1, <2>1, AccountsTrans DEF Restores
  <2> QED
    BY <2>1, <2>2, <2>3, <2>4, <2>5 DEF Restores, v
<1> QED
  BY <1>3, <1>4

\* A migration or a restart replaces the enterprise agent by another one
LEMMA ReplaceKeeps ==
    ASSUME NEW w, WorldInv(w), AgentsPresent(w), NEW a \in EnterpriseAgents
    PROVE  /\ Keeps(w, [w EXCEPT !.enterprise = a])
           /\ KeepsBooks(w, [w EXCEPT !.enterprise = a])
<1> DEFINE v == [w EXCEPT !.enterprise = a]
<1>1. w \in Worlds
  BY DEF WorldInv, CoreInv
<1>2. /\ v \in Worlds
      /\ v.now = w.now /\ v.queue = w.queue /\ v.uid = w.uid
      /\ v.enterprise = a /\ v.twin = w.twin
      /\ v.recoveryScheduled = w.recoveryScheduled
      /\ v.scenario = w.scenario /\ v.metrics = w.metrics
      /\ v.colour = w.colour
  BY <1>1 DEF Worlds
<1> HIDE DEF v
<1>3. WorldInv(v)
  BY <1>2, NoAgentAssumption DEF WorldInv, CoreInv, RestorationDue
<1>4. Extends(w, v)
  BY <1>2, <1>3, SameBadges DEF Extends
<1>5. SameAgents(w, v)
  BY <1>2, NoAgentAssumption DEF SameAgents, AgentsPresent
<1>6. KeepsBooks(w, v)
  BY <1>2, TwinBooks
<1> QED
  BY <1>2, <1>4, <1>5, <1>6 DEF Keeps, SameFlag, SameScenario, SameSummaries, v

\* A scenario that ends as it starts: its summary has no downtime.
Passes(w, v, name) ==
    /\ Control(v.queue) = Control(w.queue)
    /\ v.scenario.name = name /\ v.scenario.start = w.now
    /\ SameFlag(w, v)
    /\ \E s : /\ s.name = name /\ s.downtime = 0
              /\ v.metrics.summaries = Append(w.metrics.summaries, s)

LEMMA EndPasses ==
    ASSUME NEW w, NEW v, NEW x, NEW y, NEW name, w \in Worlds,
           Starts(w, v, name), Keeps(v, x), Ends(x, y)
    PROVE  Passes(w, y, name)
<1>1. Starts(w, x, name)
  BY StartsKeeps
<1>2. /\ x.scenario.start = w.now /\ x.now = w.now /\ x.scenario.name = name
      /\ x.metrics.summaries = w.metrics.summaries
  BY <1>1, StartsInv DEF Starts, SameSummaries
<1>3. w.now - w.now = 0
  BY DEF Worlds
<1>4. PICK s : /\ s.name = x.scenario.name
               /\ s.downtime = IF x.scenario.start > 0
                               THEN x.now - x.scenario.start ELSE 0
               /\ y.metrics.summaries = Append(x.metrics.summaries, s)
  BY DEF Ends, Summarized
<1>5. s.name = name /\ s.downtime = 0
  BY <1>2, <1>3, <1>4
<1> QED
  BY <1>1, <1>2, <1>4, <1>5 DEF Passes, Starts, Ends, SameFlag, SameScenario


\* The end of a handler that passes
LEMMA HandlerEnds ==
    ASSUME NEW w, WorldInv(w), NEW v, NEW x, NEW y, NEW name,
           Extends(w, v), AgentsPresent(v),
           AgentsPresent(w) => Starts(w, v, name),
           Keeps(v, x), Ends(x, y)
    PROVE  /\ Extends(w, y) /\ AgentsPresent(y)
           /\ AgentsPresent(w) => Passes(w, y, name)
<1>1. Extends(w, y)
  BY ExtendsTrans DEF Keeps, Ends
<1>2. AgentsPresent(y)
  BY DEF Keeps, Ends, SameAgents, AgentsPresent
<1>3. w \in Worlds
  BY DEF WorldInv, CoreInv
<1> QED
  BY <1>1, <1>2, <1>3, EndPasses

LEMMA MigrationPasses ==
    ASSUME NEW w, WorldInv(w)
    PROVE  LET v == TriggerAgentMigration(w)
           IN  /\ Extends(w, v) /\ AgentsPresent(v) /\ KeepsBooks(w, v)
               /\ AgentsPresent(w) => Passes(w, v, <<"Agent", "Migration">>)
<1> DEFINE begun    == Begin(w, <<"Agent", "Migration">>)
           sampled  == Record(begun, <<"Migration", "Start">>)
           painted  == Paint(sampled, {Primary}, "Edge_Migrating")
           moved    == [painted EXCEPT !.enterprise = Migrate(@, Secondary)]
           leaving  == Schedule(moved, 2, "ShowAgentDisappears", <<Primary>>)
           arriving == Schedule(leaving, 5, "ShowMigratedAgent", <<Secondary>>)
           verified == VerifyInScenario(arriving)
           shown    == IF Continuous(begun.twin, moved.enterprise)
                       THEN Schedule(verified, 10, "ShowVerified", <<Secondary>>)
                       ELSE verified
           later    == Schedule(shown, 10, "RecordMetrics",
                                <<"Continuity", "Success", "Migration">>)
           v        == EndScenario(later)
<1>1. /\ Extends(w, begun) /\ AgentsPresent(begun) /\ WorldInv(begun)
      /\ KeepsBooks(w, begun)
      /\ AgentsPresent(w) => Starts(w, begun, <<"Agent", "Migration">>)
  BY HandlerLabels, BeginStarts DEF Extends
<1>2. TriggerAgentMigration(w) = v
  BY <1>1 DEF TriggerAgentMigration
<1> HIDE DEF begun
<1>3. Keeps(begun, sampled) /\ KeepsBooks(begun, sampled)
  BY <1>1, HandlerLabels, PlainLabels, RecordKeeps, RecordAccounts
<1> HIDE DEF sampled
<1>4. Keeps(sampled, painted) /\ KeepsBooks(sampled, painted)
  BY <1>3, KeepsInv, PaintKeeps, PaintAccounts DEF Colours
<1> HIDE DEF painted
<1>5. WorldInv(painted) /\ painted \in Worlds /\ AgentsPresent(painted)
  BY <1>1, <1>3, <1>4, KeepsInv
<1>6. Keeps(painted, moved) /\ KeepsBooks(painted, moved)
  <2> DEFINE a == Migrate(painted.enterprise, Secondary)
  <2>1. painted.enterprise \in EnterpriseAgents
    BY <1>5 DEF Worlds, AgentsPresent
  <2>2. a \in EnterpriseAgents
    BY <2>1 DEF Migrate, EnterpriseAgents, Nodes
  <2>3. moved = [painted EXCEPT !.enterprise = a]
    BY Zenon
  <2> QED
    BY <1>5, <2>2, <2>3, ReplaceKeeps
<1> HIDE DEF moved
<1>7. Keeps(moved, leaving) /\ KeepsBooks(moved, leaving)
  BY <1>6, KeepsInv, ScheduleNodeKeeps, ScheduleAccounts
     DEF NodeHandlers, Nodes
<1> HIDE DEF leaving
<1>8. Keeps(leaving, arriving) /\ KeepsBooks(leaving, arriving)
  BY <1>7, KeepsInv, ScheduleNodeKeeps, ScheduleAccounts
     DEF NodeHandlers, Nodes
<1> HIDE DEF arriving
<1>9. WorldInv(arriving) /\ AgentsPresent(arriving)
  BY <1>5, <1>6, <1>7, <1>8, KeepsInv
<1>10. Keeps(arriving, verified) /\ KeepsBooks(arriving, verified)
  BY <1>9, VerifyInScenarioKeeps, VerifyAccounts
<1> HIDE DEF verified
<1>11. Keeps(verified, shown) /\ KeepsBooks(verified, shown)
  <2> DEFINE x == Schedule(verified, 10, "ShowVerified", <<Secondary>>)
  <2>1. WorldInv(verified) /\ verified \in Worlds
    BY <1>10, KeepsInv
  <2>2. Keeps(verified, x) /\ KeepsBooks(verified, x)
    BY <2>1, ScheduleNodeKeeps, ScheduleAccounts DEF NodeHandlers, Nodes
  <2> QED
    BY <2>1, <2>2, KeepsSelf, AccountsSelf
<1> HIDE DEF shown
<1>12. Keeps(shown, later) /\ KeepsBooks(shown, later)
  BY <1>11, KeepsInv, HandlerLabels, PlainLabels, ScheduleSampleKeeps,
     ScheduleAccounts
<1> HIDE DEF later
<1>13. Keeps(begun, later)
  BY <1>3, <1>4, <1>6, <1>7, <1>8, <1>10, <1>11, <1>12, KeepsTrans
<1>14. Ends(later, v) /\ KeepsBooks(later, v)
  BY <1>12, KeepsInv, EndScenarioEnds, EndScenarioAccounts
<1> HIDE DEF v
<1>15. KeepsBooks(w, v)
  BY <1>1, <1>3, <1>4, <1>6, <1>7, <1>8, <1>10, <1>11, <1>12, <1>14,
     AccountsTrans
<1> QED
  BY <1>1, <1>2, <1>13, <1>14, <1>15, HandlerEnds

LEMMA ProcessRestartPasses ==
    ASSUME NEW w, WorldInv(w)
    PROVE  LET v == TriggerProcessRestart(w)
           IN  /\ Extends(w, v) /\ AgentsPresent(v) /\ KeepsBooks(w, v)
               /\ AgentsPresent(w) => Passes(w, v, <<"Process", "Restart">>)
<1> DEFINE begun     == Begin(w, <<"Process", "Restart">>)
           sampled   == Record(begun, <<"Restart", "Start">>)
           node      == begun.enterprise.host
           painted   == Paint(sampled, {node}, "Edge_Crash")
           leaving   == Schedule(painted, 2, "ShowAgentDisappears", <<node>>)
           arriving  == Schedule(leaving, 5, "ShowAgentReappears", <<node>>)
           restarted == [arriving EXCEPT !.enterprise =
                                     NewEnterprise(Primary, @.identity)]
           verified  == VerifyInScenario(restarted)
           shown     == IF Continuous(begun.twin, restarted.enterprise)
                        THEN Schedule(verified, 10, "ShowVerified", <<node>>)
                        ELSE verified
           later     == Schedule(shown, 10, "RecordMetrics",
                           <<"Continuity", "Success", "Process", "Restart">>)
           v         == EndScenario(later)
<1>1. /\ Extends(w, begun) /\ AgentsPresent(begun) /\ WorldInv(begun)
      /\ KeepsBooks(w, begun)
      /\ AgentsPresent(w) => Starts(w, begun, <<"Process", "Restart">>)
  BY HandlerLabels, BeginStarts DEF Extends
<1>2. TriggerProcessRestart(w) = v
  BY <1>1 DEF TriggerProcessRestart
<1> HIDE DEF begun
<1>3. node \in Nodes
  BY <1>1 DEF WorldInv, CoreInv, Worlds, AgentsPresent, EnterpriseAgents
<1> HIDE DEF node
<1>4. Keeps(begun, sampled) /\ KeepsBooks(begun, sampled)
  BY <1>1, HandlerLabels, PlainLabels, RecordKeeps, RecordAccounts
<1> HIDE DEF sampled
<1>5. Keeps(sampled, painted) /\ KeepsBooks(sampled, painted)
  BY <1>4, KeepsInv, PaintKeeps, PaintAccounts DEF Colours
<1> HIDE DEF painted
<1>6. Keeps(painted, leaving) /\ KeepsBooks(painted, leaving)
  BY <1>3, <1>5, KeepsInv, ScheduleNodeKeeps, ScheduleAccounts
     DEF NodeHandlers
<1> HIDE DEF leaving
<1>7. Keeps(leaving, arriving) /\ KeepsBooks(leaving, arriving)
  BY <1>3, <1>6, KeepsInv, ScheduleNodeKeeps, ScheduleAccounts
     DEF NodeHandlers
<1> HIDE DEF arriving
<1>8. /\ WorldInv(arriving) /\ arriving \in Worlds
      /\ AgentsPresent(arriving)
  BY <1>1, <1>4, <1>5, <1>6, <1>7, KeepsInv
<1>9. Keeps(arriving, restarted) /\ KeepsBooks(arriving, restarted)
  <2> DEFINE a == NewEnterprise(Primary, arriving.enterprise.identity)
  <2>1. arriving.enterprise.identity = AegisRan
    BY <1>8 DEF Worlds, AgentsPresent, EnterpriseAgents
  <2>2. a \in EnterpriseAgents
    BY <2>1 DEF NewEnterprise, EnterpriseAgents, Nodes
  <2>3. restarted = [arriving EXCEPT !.enterprise = a]
    BY Zenon
  <2> QED
    BY <1>8, <2>2, <2>3, ReplaceKeeps
<1> HIDE DEF restarted
<1>10. Keeps(restarted, verified) /\ KeepsBooks(restarted, verified)
  BY <1>8, <1>9, KeepsInv, VerifyInScenarioKeeps, VerifyAccounts
<1> HIDE DEF verified
<1>11. Keeps(verified, shown) /\ KeepsBooks(verified, shown)
  <2> DEFINE x == Schedule(verified, 10, "ShowVerified", <<node>>)
  <2>1. WorldInv(verified) /\ verified \in Worlds
    BY <1>10, KeepsInv
  <2>2. Keeps(verified, x) /\ KeepsBooks(verified, x)
    BY <1>3, <2>1, ScheduleNodeKeeps, ScheduleAccounts DEF NodeHandlers
  <2> QED
    BY <2>1, <2>2, KeepsSelf, AccountsSelf
<1> HIDE DEF shown
<1>12. Keeps(shown, later) /\ KeepsBooks(shown, later)
  BY <1>11, KeepsInv, HandlerLabels, PlainLabels, ScheduleSampleKeeps,
     ScheduleAccounts
<1> HIDE DEF later
<1>13. Keeps(begun, later)
  BY <1>4, <1>5, <1>6, <1>7, <1>9, <1>10, <1>11, <1>12, KeepsTrans
<1>14. Ends(later, v) /\ KeepsBooks(later, v)
  BY <1>12, KeepsInv, EndScenarioEnds, EndScenarioAccounts
<1> HIDE DEF v
<1>15. KeepsBooks(w, v)
  BY <1>1, <1>4, <1>5, <1>6, <1>7, <1>9, <1>10, <1>11, <1>12, <1>14,
     AccountsTrans
<1> QED
  BY <1>1, <1>2, <1>13, <1>14, <1>15, HandlerEnds

LEMMA FullTeardownDestroys ==
    ASSUME NEW w, WorldInv(w)
    PROVE  LET v == TriggerFullTeardown(w)
           IN  /\ Extends(w, v)
               /\ v.enterprise = NoAgent /\ v.twin = NoAgent
               /\ v.recoveryScheduled /\ KeepsBooks(w, v)
               /\ AgentsPresent(w) /\ ~w.recoveryScheduled =>
                    Awaits(w, v, <<"Full", "Teardown">>, "RedeploySystem",
                           RecoveryDelay)
<1> DEFINE name    == <<"Full", "Teardown">>
           begun   == Begin(w, name)
           sampled == Record(begun, <<"Teardown", "Start">>)
           node    == begun.enterprise.host
           crashed == Paint(sampled, {node}, "Edge_Crash")
           painted == Schedule(crashed, 5, "ShowAgentDisappears", <<node>>)
           v       == DestroyAgents(painted, "RedeploySystem")
<1>1. /\ Extends(w, begun) /\ AgentsPresent(begun) /\ WorldInv(begun)
      /\ begun.scenario.start = begun.now /\ KeepsBooks(w, begun)
      /\ AgentsPresent(w) => Starts(w, begun, name)
  BY HandlerLabels, BeginStarts DEF Extends
<1>2. TriggerFullTeardown(w) = v
  BY <1>1 DEF TriggerFullTeardown
<1> HIDE DEF begun
<1>3. node \in Nodes
  BY <1>1 DEF WorldInv, CoreInv, Worlds, AgentsPresent, EnterpriseAgents
<1> HIDE DEF node
<1>4. Keeps(begun, sampled) /\ KeepsBooks(begun, sampled)
  BY <1>1, HandlerLabels, PlainLabels, RecordKeeps, RecordAccounts
<1> HIDE DEF sampled
<1>5. Keeps(sampled, crashed) /\ KeepsBooks(sampled, crashed)
  BY <1>4, KeepsInv, PaintKeeps, PaintAccounts DEF Colours
<1> HIDE DEF crashed
<1>6. Keeps(crashed, painted) /\ KeepsBooks(crashed, painted)
  BY <1>3, <1>5, KeepsInv, ScheduleNodeKeeps, ScheduleAccounts
     DEF NodeHandlers
<1> HIDE DEF painted
<1>7. Keeps(begun, painted)
  BY <1>4, <1>5, <1>6, KeepsTrans
<1>8. Destroys(painted, v, "RedeploySystem")
  BY <1>1, <1>7, KeepsInv, DestroyAgentsDestroys DEF Restorations
<1> HIDE DEF name, v
<1>9. Extends(w, v)
  BY <1>1, <1>7, <1>8, ExtendsTrans DEF Keeps, Destroys
<1>10. ASSUME AgentsPresent(w), ~w.recoveryScheduled
       PROVE  Awaits(w, v, name, "RedeploySystem", RecoveryDelay)
  <2>1. Starts(w, painted, name)
    BY <1>1, <1>7, <1>10, StartsKeeps
  <2> QED
    BY <1>8, <1>9, <1>10, <2>1, StartsInv
       DEF Awaits, Starts, Destroys, SameFlag, SameScenario, SameSummaries
<1>11. KeepsBooks(w, v)
  BY <1>1, <1>4, <1>5, <1>6, <1>8, AccountsTrans DEF Destroys
<1> QED
  BY <1>2, <1>8, <1>9, <1>10, <1>11 DEF Destroys, name

\* A partition takes the twin, whatever becomes of it, and nothing else.
LEMMA NetworkPartitionAwaits ==
    ASSUME NEW w, WorldInv(w)
    PROVE  LET v == TriggerNetworkPartition(w)
           IN  /\ Awaits(w, v, <<"Network", "Partition">>, "EndScenario", 50)
               /\ SameFlag(w, v) /\ v.twin = NoAgent /\ KeepsBooks(w, v)
               /\ v.enterprise = NoAgent <=> w.enterprise = NoAgent
<1> DEFINE name    == <<"Network", "Partition">>
           started == StartScenario(w, name)
           offline == IF w.twin # NoAgent
                      THEN Paint(started, {Gnb}, "Twin_Offline") ELSE started
           cut     == [offline EXCEPT !.twin = NoAgent]
           painted == Paint(cut, {Primary, Secondary}, "SplitBrain")
           mid     == Schedule(painted, 25, "RecordMetrics",
                               <<"Network", "Partition", "Mid">>)
           end     == Schedule(mid, 45, "RecordMetrics",
                               <<"Network", "Partition", "End">>)
           v       == Schedule(end, 50, "EndScenario", << >>)
<1>1. Starts(w, started, name) /\ KeepsBooks(w, started)
  BY HandlerLabels, StartScenarioStarts, StartScenarioAccounts
<1>2. TriggerNetworkPartition(w) = v
  BY DEF TriggerNetworkPartition
<1> HIDE DEF started
<1>3. Keeps(started, offline) /\ KeepsBooks(started, offline)
  <2>1. WorldInv(started)
    BY <1>1, StartsInv
  <2> DEFINE x == Paint(started, {Gnb}, "Twin_Offline")
  <2>2. Keeps(started, x) /\ KeepsBooks(started, x)
    BY <2>1, PaintKeeps, PaintAccounts DEF Colours
  <2> QED
    BY <2>1, <2>2, KeepsSelf, AccountsSelf
<1> HIDE DEF offline
<1>4. Starts(w, offline, name)
  BY <1>1, <1>3, StartsKeeps
<1> HIDE DEF name
<1>5. /\ Extends(offline, cut) /\ cut.queue = offline.queue
      /\ cut.twin = NoAgent /\ cut.enterprise = offline.enterprise
      /\ cut.scenario = offline.scenario /\ cut.metrics = offline.metrics
      /\ cut.recoveryScheduled = offline.recoveryScheduled
      /\ cut.now = offline.now
  <2>1. WorldInv(offline)
    BY <1>4, StartsInv
  <2>2. offline \in Worlds
    BY <2>1 DEF WorldInv, CoreInv
  <2>3. /\ cut \in Worlds
        /\ cut.now = offline.now /\ cut.queue = offline.queue
        /\ cut.uid = offline.uid /\ cut.enterprise = offline.enterprise
        /\ cut.twin = NoAgent
        /\ cut.recoveryScheduled = offline.recoveryScheduled
        /\ cut.scenario = offline.scenario /\ cut.metrics = offline.metrics
        /\ cut.colour = offline.colour
    BY <2>2 DEF Worlds
  <2> HIDE DEF cut
  <2>4. WorldInv(cut)
    BY <2>1, <2>3 DEF WorldInv, CoreInv, RestorationDue
  <2>5. Extends(offline, cut)
    BY <2>3, <2>4, SameBadges DEF Extends
  <2> QED
    BY <2>3, <2>5
<1> HIDE DEF cut
<1>6. Keeps(cut, painted) /\ KeepsBooks(cut, painted)
  BY <1>5, PaintKeeps, PaintAccounts DEF Extends, Colours
<1> HIDE DEF painted
<1>7. Keeps(painted, mid) /\ KeepsBooks(painted, mid)
  BY <1>6, KeepsInv, HandlerLabels, PlainLabels, ScheduleSampleKeeps,
     ScheduleAccounts
<1> HIDE DEF mid
<1>8. Keeps(mid, end) /\ KeepsBooks(mid, end)
  BY <1>7, KeepsInv, HandlerLabels, PlainLabels, ScheduleSampleKeeps,
     ScheduleAccounts
<1> HIDE DEF end
<1>9. Keeps(cut, end)
  BY <1>6, <1>7, <1>8, KeepsTrans
<1>10. PICK e : /\ e.ts = end.now + 50 /\ e.op = "EndScenario"
                /\ Plans(end, v, e)
                /\ Control(v.queue) = Control(end.queue) \cup {e}
  <2>1. WorldInv(end)
    BY <1>9, KeepsInv
  <2> QED
    BY <2>1, ScheduleEndPlans
<1>15. KeepsBooks(end, v)
  BY <1>8, KeepsInv, ScheduleAccounts
<1> HIDE DEF v
<1>16. KeepsBooks(w, v)
  <2>1. KeepsBooks(offline, cut)
    BY <1>5 DEF KeepsBooks, Books
  <2> QED
    BY <1>1, <1>3, <1>6, <1>7, <1>8, <1>15, <2>1, AccountsTrans
<1>11. Extends(w, v)
  BY <1>4, <1>5, <1>9, <1>10, ExtendsTrans DEF Starts, Keeps, Plans
<1>12. end.now = w.now /\ Control(end.queue) = Control(w.queue)
  BY <1>4, <1>5, <1>9 DEF Starts, Keeps, Extends
<1>13. /\ v.scenario.name = name /\ v.scenario.start = w.now
       /\ SameSummaries(w, v) /\ SameFlag(w, v)
       /\ v.twin = NoAgent
       /\ v.enterprise = NoAgent <=> w.enterprise = NoAgent
  BY <1>4, <1>5, <1>9, <1>10
     DEF Starts, Keeps, Plans, SameScenario, SameSummaries, SameFlag,
         SameAgents
<1>14. Awaits(w, v, name, "EndScenario", 50)
  BY <1>10, <1>11, <1>12, <1>13 DEF Awaits
<1> QED
  BY <1>2, <1>13, <1>14, <1>16 DEF name


---------------------------------------------------------------------------
(* The start                                                               *)

LEMMA EmptyWorldInv == CoreInv(EmptyWorld) /\ ~EmptyWorld.recoveryScheduled
<1>1. NewCollector \in Collectors /\ NewCollector.total = 0
  BY DEF NewCollector, Collectors
<1>2. NoScenario \in [name : Labels, start : Nat, events : Nat]
  BY LabelType DEF NoScenario, Labels
<1>3. [n \in Nodes |-> "Default"] \in [Nodes -> Colours]
  BY DEF Colours
<1>4. EmptyWorld \in Worlds
  BY <1>1, <1>2, <1>3 DEF EmptyWorld, Worlds, FirstUid
<1> QED
  BY <1>1, <1>4 DEF CoreInv, EmptyWorld, NoScenario

\* A manager with its agents, and the events scheduled before Run
LEMMA StartInv ==
    ASSUME NEW q \in SUBSET Events, NEW u \in Nat,
           \A e \in q : e.ts >= 0 /\ e.uid < u,
           \A e, f \in q : e.uid = f.uid => e = f
    PROVE  LET v == [InitializeAgents(EmptyWorld) EXCEPT !.queue = q,
                                                         !.uid = u]
           IN  /\ WorldInv(v) /\ AgentsPresent(v) /\ ~v.recoveryScheduled
               /\ Badged(v, {}) /\ (Unlabelled(q) => Books(v))
               /\ v.now = 0 /\ v.queue = q
               /\ v.scenario.name = << >> /\ v.scenario.start = 0
               /\ v.metrics.summaries = << >>
<1> DEFINE w == InitializeAgents(EmptyWorld)
           v == [w EXCEPT !.queue = q, !.uid = u]
<1>1. /\ Creates(EmptyWorld, w) /\ TotalChecks(w.twin) = 0
      /\ w.metrics = EmptyWorld.metrics
  BY EmptyWorldInv, CreateAgentsCreates DEF InitializeAgents
<1>2. /\ EmptyWorld.queue = {} /\ EmptyWorld.now = 0
      /\ ~EmptyWorld.recoveryScheduled
      /\ EmptyWorld.scenario.name = << >> /\ EmptyWorld.scenario.start = 0
      /\ EmptyWorld.metrics.summaries = << >>
  BY DEF EmptyWorld, NoScenario, NewCollector
<1>3. Badged(EmptyWorld, {})
  BY DEF Badged, EmptyWorld
<1>4. CountedBefore(w.metrics.samples, w.metrics.total - TotalChecks(w.twin))
  <2>1. EmptyWorld.metrics.samples = << >> /\ EmptyWorld.metrics.total = 0
    BY DEF EmptyWorld, NewCollector
  <2> HIDE DEF w
  <2> QED
    BY <1>1, <2>1 DEF CountedBefore
<1> HIDE DEF w
<1>5. /\ WorldInv(w) /\ AgentsPresent(w) /\ ~w.recoveryScheduled
      /\ w.now = 0 /\ w.queue = {} /\ Badged(w, {})
      /\ w.scenario.name = << >> /\ w.scenario.start = 0
      /\ w.metrics.summaries = << >>
  BY <1>1, <1>2, <1>3
     DEF Creates, Extends, SameFlag, SameScenario, SameSummaries
<1>6. /\ v \in Worlds
      /\ v.now = 0 /\ v.queue = q /\ v.uid = u
      /\ v.enterprise = w.enterprise /\ v.twin = w.twin
      /\ v.recoveryScheduled = w.recoveryScheduled
      /\ v.scenario = w.scenario /\ v.metrics = w.metrics
      /\ v.colour = w.colour
  <2>1. w \in Worlds
    BY <1>5 DEF WorldInv, CoreInv
  <2> QED
    BY <1>5, <2>1 DEF Worlds
<1> HIDE DEF v
<1>7. CoreInv(v)
  BY <1>5, <1>6 DEF CoreInv, WorldInv
<1>8. WorldInv(v)
  BY <1>5, <1>6, <1>7 DEF WorldInv, AgentsPresent
<1>9. Badged(v, {})
  BY <1>5, <1>6, SameBadges
<1>10. Unlabelled(q) => Books(v)
  BY <1>4, <1>6 DEF Books
<1> QED
  BY <1>5, <1>6, <1>8, <1>9, <1>10 DEF v, w, AgentsPresent

LEMMA StartsAsWorld ==
    ASSUME NEW w, WorldInv(w), StartsAs(w)
    PROVE  World = w
  BY DEF StartsAs, World, WorldInv, CoreInv, Worlds

---------------------------------------------------------------------------
(* Steps                                                                   *)

LEMMA BecomesWorld ==
    ASSUME NEW w \in Worlds, Becomes(w)
    PROVE  World' = w
  BY DEF Becomes, World, Worlds

LEMMA DueEvent ==
    ASSUME IInv, NEW op, NEW e \in Due(op)
    PROVE  /\ e \in Events /\ e \in queue /\ e.op = op
           /\ World \in Worlds
           /\ op \in LabelHandlers => e.arg \in Labels
           /\ op \in NodeHandlers => e.arg[1] \in Nodes
<1>1. World \in Worlds
  BY DEF IInv, WorldInv, CoreInv
<1>2. e \in queue /\ e.op = op
  BY DEF Due
<1>3. e \in Events
  BY <1>1, <1>2 DEF World, Worlds
<1>4. LabelHandlers \cap NodeHandlers = {}
  BY DEF LabelHandlers, NodeHandlers, Restorations
<1> HIDE DEF LabelHandlers, NodeHandlers
<1> QED
  BY <1>1, <1>2, <1>3, <1>4 DEF Events

\* Time moves to the event: nothing left is earlier.
LEMMA DequeueCore ==
    ASSUME IInv, NEW op, NEW e \in Due(op)
    PROVE  LET v == Dequeue(World, e)
           IN  /\ CoreInv(v)
               /\ v.now = e.ts /\ v.queue = queue \ {e}
               /\ v.enterprise = enterprise /\ v.twin = twin
               /\ v.recoveryScheduled = recoveryScheduled
               /\ v.scenario = scenario /\ v.metrics = metrics
               /\ v.colour = colour
<1> DEFINE w == World
           v == Dequeue(w, e)
<1>1. w \in Worlds /\ e \in Events /\ e \in w.queue /\ CoreInv(w)
  BY DueEvent DEF IInv, WorldInv, World
<1>2. \A f \in w.queue \ {e} : Precedes(e, f)
  BY DEF Due, World
<1>3. /\ w.queue = queue /\ w.enterprise = enterprise /\ w.twin = twin
      /\ w.recoveryScheduled = recoveryScheduled
      /\ w.scenario = scenario /\ w.metrics = metrics /\ w.colour = colour
  BY DEF World
<1> HIDE DEF w
<1>4. v = [w EXCEPT !.now = e.ts, !.queue = w.queue \ {e}]
  BY DEF Dequeue
<1>5. /\ v \in Worlds
      /\ v.now = e.ts /\ v.queue = w.queue \ {e} /\ v.uid = w.uid
      /\ v.enterprise = w.enterprise /\ v.twin = w.twin
      /\ v.recoveryScheduled = w.recoveryScheduled
      /\ v.scenario = w.scenario /\ v.metrics = w.metrics
      /\ v.colour = w.colour
  <2>1. e.ts \in Nat
    BY <1>1 DEF Events
  <2>2. w.queue \ {e} \in SUBSET Events
    BY <1>1 DEF Worlds
  <2> QED
    BY <1>1, <1>4, <2>1, <2>2 DEF Worlds
<1> HIDE DEF v
<1>6. \A f \in w.queue : f.ts \in Nat /\ f.uid \in Nat
  BY <1>1 DEF Worlds, Events
<1>7. \A f \in v.queue : f.ts >= v.now /\ f.uid < v.uid
  BY <1>1, <1>2, <1>5, <1>6 DEF CoreInv, Precedes
<1>8. v.scenario.start <= v.now
  <2>1. w.scenario.start \in Nat /\ w.now \in Nat /\ e.ts \in Nat
    BY <1>1, <1>6 DEF Worlds
  <2>2. w.scenario.start <= w.now /\ w.now <= e.ts
    BY <1>1, <1>6, <2>1 DEF CoreInv
  <2> QED
    BY <1>5, <2>1, <2>2
<1>9. CoreInv(v)
  BY <1>1, <1>5, <1>7, <1>8 DEF CoreInv
<1> QED
  BY <1>3, <1>5, <1>9 DEF v, w

\* Any event but a restoration leaves the restoration owed pending.
LEMMA DequeueInv ==
    ASSUME IInv, NEW op, op \notin Restorations, NEW e \in Due(op)
    PROVE  WorldInv(Dequeue(World, e))
<1> DEFINE w == World
           v == Dequeue(w, e)
<1>1. WorldInv(w) /\ w \in Worlds /\ e.op = op /\ CoreInv(v)
  BY DueEvent, DequeueCore DEF IInv
<1> HIDE DEF w
<1>2. /\ v.queue = w.queue \ {e} /\ v.enterprise = w.enterprise
      /\ v.recoveryScheduled = w.recoveryScheduled
      /\ v.scenario = w.scenario
  BY <1>1 DEF Dequeue, Worlds
<1> HIDE DEF v
<1>3. WorldInv(v)
  BY <1>1, <1>2 DEF WorldInv, RestorationDue
<1> QED
  BY <1>3 DEF v, w

LEMMA StopLoopKeeps ==
    ASSUME NEW w, WorldInv(w)
    PROVE  Keeps(w, StopLoop(w)) /\ KeepsBooks(w, StopLoop(w))
<1> DEFINE v == StopLoop(w)
<1>1. w \in Worlds
  BY DEF WorldInv, CoreInv
<1>2. /\ v \in Worlds
      /\ v.now = w.now /\ v.queue = w.queue /\ v.uid = w.uid
      /\ v.enterprise = w.enterprise /\ v.twin = w.twin
      /\ v.recoveryScheduled = w.recoveryScheduled
      /\ v.scenario = w.scenario /\ v.metrics = w.metrics
      /\ v.colour = w.colour
  BY <1>1 DEF StopLoop, Worlds
<1> HIDE DEF v
<1>3. Badged(w, {}) => Badged(v, {})
  BY <1>2, SameBadges
<1> QED
  BY <1>2, <1>3, UnrelatedExtends, TwinBooks DEF Keeps, SameSummaries, v

\* The twin goes alone only in a partition.
Parts(w, v) ==
    w.twin # NoAgent /\ v.twin = NoAgent /\ v.enterprise # NoAgent
        => v.scenario.name = <<"Network", "Partition">>

\* What a step does that takes the event e off the queue: e is the first, time
\* moves to it, no other event goes, a restoration brings the agent back, and
\* the invariants are preserved.
StepOf(e) ==
    /\ e \in queue
    /\ \A f \in queue \ {e} : Precedes(e, f)
    /\ now' = e.ts
    /\ queue \ {e} \subseteq queue'
    /\ e.op \in Restorations => enterprise' # NoAgent

Preserves ==
    /\ IInv'
    /\ Badged(World, {}) => Badged(World, {})'
    /\ twin # NoAgent /\ twin' = NoAgent /\ enterprise' # NoAgent
        => scenario'.name = <<"Network", "Partition">>

Step(e) == StepOf(e) /\ Preserves /\ (Books(World) => Books(World)')

\* Taking an event off the queue leaves the books in order.
LEMMA KeepsBooksFrom ==
    ASSUME IInv, NEW op, NEW e \in Due(op), NEW v,
           KeepsBooks(Dequeue(World, e), v)
    PROVE  KeepsBooks(World, v)
<1> DEFINE w == Dequeue(World, e)
<1>1. w.queue = queue \ {e} /\ w.twin = twin /\ w.metrics = metrics
  BY DequeueCore
<1>2. World.queue = queue /\ World.twin = twin /\ World.metrics = metrics
  BY DEF World
<1>3. KeepsBooks(w, v)
  OBVIOUS
<1> HIDE DEF w
<1>4. Books(World) => Books(w)
  BY <1>1, <1>2 DEF Books, Unlabelled
<1> QED
  BY <1>3, <1>4 DEF KeepsBooks

LEMMA StepFrom ==
    ASSUME IInv, NEW op, NEW e \in Due(op), NEW v,
           Extends(Dequeue(World, e), v), KeepsBooks(World, v), Becomes(v),
           Badged(World, {}) => Badged(v, {}),
           Parts(Dequeue(World, e), v),
           op \in Restorations => v.enterprise # NoAgent
    PROVE  Step(e)
<1> DEFINE w == Dequeue(World, e)
<1>1. /\ w.now = e.ts /\ w.queue = queue \ {e}
      /\ w.enterprise = enterprise /\ w.twin = twin /\ w.metrics = metrics
  BY DequeueCore
<1>2. e \in queue /\ e.op = op /\ \A f \in queue \ {e} : Precedes(e, f)
  BY DEF Due
<1>3. WorldInv(v) /\ v \in Worlds
  BY DEF Extends, WorldInv, CoreInv
<1>4. World' = v
  BY <1>3, BecomesWorld
<1>5. /\ now' = v.now /\ queue' = v.queue /\ enterprise' = v.enterprise
      /\ twin' = v.twin /\ metrics' = v.metrics /\ scenario' = v.scenario
  BY DEF Becomes
<1>6. v.now = w.now /\ w.queue \subseteq v.queue
  BY DEF Extends
<1> HIDE DEF w
<1>7. StepOf(e)
  BY <1>1, <1>2, <1>5, <1>6 DEF StepOf
<1>8. IInv' /\ (Badged(World, {}) => Badged(World, {})')
  BY <1>3, <1>4 DEF IInv
<1>9. Parts(w, v)
  BY DEF w
<1>10. Preserves
  BY <1>1, <1>5, <1>8, <1>9 DEF Preserves, Parts
<1> QED
  BY <1>4, <1>7, <1>10 DEF Step, KeepsBooks

\* Without the timer of a badge every badge still has one.
LEMMA DequeueBadged ==
    ASSUME IInv, NEW op, op # "ResetColours", NEW e \in Due(op)
    PROVE  Badged(World, {}) => Badged(Dequeue(World, e), {})
<1> DEFINE v == Dequeue(World, e)
<1>1. v.queue = queue \ {e} /\ v.colour = colour /\ e.op = op
  BY DequeueCore, DueEvent
<1>2. World.queue = queue /\ World.colour = colour
  BY DEF World
<1> HIDE DEF v
<1>3. Badged(World, {}) => Badged(v, {})
  BY <1>1, <1>2 DEF Badged
<1> QED
  BY <1>3 DEF v

LEMMA BecomesStep ==
    ASSUME IInv, NEW op, op \notin Restorations, op # "ResetColours",
           NEW e \in Due(op), NEW v,
           Extends(Dequeue(World, e), v), Parts(Dequeue(World, e), v),
           KeepsBooks(World, v), Becomes(v)
    PROVE  Step(e)
<1>1. Badged(World, {}) => Badged(v, {})
  BY DequeueBadged DEF Extends
<1> QED
  BY <1>1, StepFrom

LEMMA KeepsStep ==
    ASSUME IInv, NEW op, op \notin Restorations, op # "ResetColours",
           NEW e \in Due(op), NEW v, Keeps(Dequeue(World, e), v),
           KeepsBooks(Dequeue(World, e), v), Becomes(v)
    PROVE  Step(e)
<1>1. Extends(Dequeue(World, e), v) /\ Parts(Dequeue(World, e), v)
  BY DEF Keeps, SameAgents, Parts
<1> QED
  BY <1>1, KeepsBooksFrom, BecomesStep

\* Both agents there, or both gone, after the step
LEMMA PairStep ==
    ASSUME IInv, NEW op, op \notin Restorations, op # "ResetColours",
           NEW e \in Due(op), NEW v, Extends(Dequeue(World, e), v),
           v.twin = NoAgent => v.enterprise = NoAgent,
           KeepsBooks(Dequeue(World, e), v), Becomes(v)
    PROVE  Step(e)
<1>1. Parts(Dequeue(World, e), v)
  BY DEF Parts
<1> QED
  BY <1>1, KeepsBooksFrom, BecomesStep

LEMMA RestorationStep ==
    ASSUME IInv, NEW op \in Restorations, NEW e \in Due(op), NEW v,
           Restores(Dequeue(World, e), v), Becomes(v)
    PROVE  Step(e)
<1>1. /\ Extends(Dequeue(World, e), v) /\ v.enterprise # NoAgent
      /\ Parts(Dequeue(World, e), v) /\ KeepsBooks(World, v)
  BY KeepsBooksFrom DEF Restores, AgentsPresent, Parts
<1>2. Badged(World, {}) => Badged(v, {})
  BY <1>1, DequeueBadged DEF Extends, Restorations
<1> QED
  BY <1>1, <1>2, StepFrom

\* ResetColours repaints both nodes its own badge may be on.
LEMMA ResetStep ==
    ASSUME IInv, NEW e \in Due("ResetColours"),
           Becomes(ResetColours(Dequeue(World, e), e.arg[1]))
    PROVE  Step(e)
<1> DEFINE w == Dequeue(World, e)
           p == Paint(w, {Gnb}, "gNB_Normal")
           v == Paint(p, {e.arg[1]}, "Edge_Normal")
<1>1. WorldInv(w) /\ w \in Worlds /\ w.queue = queue \ {e} /\ w.colour = colour
  BY DequeueInv, DequeueCore DEF Restorations, WorldInv, CoreInv
<1>2. Becomes(v)
  BY DEF ResetColours
<1> HIDE DEF w
<1>3. /\ "gNB_Normal" \in Colours /\ "Edge_Normal" \in Colours
      /\ "gNB_Normal" # "Verification_Success"
      /\ "Edge_Normal" # "Verification_Success"
  BY DEF Colours
<1>4. Keeps(w, p) /\ KeepsBooks(w, p)
  BY <1>1, <1>3, PaintKeeps, PaintAccounts
<1>5. \A n \in Nodes : p.colour[n] = IF n \in {Gnb} THEN "gNB_Normal"
                                                     ELSE w.colour[n]
  BY <1>1, <1>3, PaintShape
<1> HIDE DEF p
<1>6. WorldInv(p) /\ p \in Worlds
  BY <1>4, KeepsInv
<1>7. Keeps(p, v) /\ KeepsBooks(p, v)
  BY <1>3, <1>6, PaintKeeps, PaintAccounts
<1>8. \A n \in Nodes : v.colour[n] = IF n \in {e.arg[1]} THEN "Edge_Normal"
                                                         ELSE p.colour[n]
  BY <1>3, <1>6, PaintShape
<1> HIDE DEF v
<1>9. Keeps(w, v) /\ KeepsBooks(w, v)
  BY <1>4, <1>7, KeepsTrans, AccountsTrans
<1>10. Badged(World, {}) => Badged(v, {})
  <2> SUFFICES ASSUME Badged(World, {}), NEW n \in Nodes,
                      v.colour[n] = "Verification_Success"
               PROVE  \E f \in v.queue : /\ f.op = "ResetColours"
                                         /\ n \in {Gnb, f.arg[1]}
    BY DEF Badged
  <2>1. n # Gnb /\ n # e.arg[1] /\ colour[n] = "Verification_Success"
    BY <1>1, <1>3, <1>5, <1>8
  <2>2. PICK f \in queue : f.op = "ResetColours" /\ n \in {Gnb, f.arg[1]}
    BY <2>1 DEF Badged, World
  <2>3. f # e
    BY <2>1, <2>2
  <2>4. f \in v.queue
    BY <1>1, <1>9, <2>2, <2>3 DEF Keeps, Extends
  <2> QED
    BY <2>2, <2>4
<1>11. Extends(w, v) /\ Parts(w, v)
  BY <1>9 DEF Keeps, SameAgents, Parts
<1> QED
  BY <1>2, <1>9, <1>10, <1>11, KeepsBooksFrom, StepFrom DEF Restorations, w


\* Every step of the manager, whoever else schedules
LEMMA ManagerStep ==
    ASSUME IInv, ManagerNext
    PROVE  (\E e \in queue : Step(e)) \/ UNCHANGED vars
<1> USE DEF Restorations
<1>0. \A op : \A e \in Due(op) : e \in queue
  BY DEF Due
<1>1. CASE BaselineFailure
  <2>1. PICK e \in Due("RunBaselineFailureScenario") :
            Becomes(RunBaselineFailureScenario(Dequeue(World, e)))
    BY <1>1 DEF BaselineFailure
  <2> DEFINE w == Dequeue(World, e)
             v == RunBaselineFailureScenario(w)
  <2>2. WorldInv(w)
    BY DequeueInv
  <2> HIDE DEF w
  <2>3. /\ Awaits(w, v, <<"Baseline", "Failure">>, "EndScenario", 110)
        /\ SameAgents(w, v) /\ KeepsBooks(w, v)
    BY <2>2, BaselineAwaits
  <2> HIDE DEF v
  <2>4. Extends(w, v) /\ Parts(w, v)
    BY <2>3 DEF Awaits, SameAgents, Parts
  <2>5. KeepsBooks(World, v)
    BY <2>1, <2>3, KeepsBooksFrom DEF w
  <2> QED
    BY <1>0, <2>1, <2>4, <2>5, BecomesStep DEF w, v
<1>2. CASE NodeCrash
  <2>1. PICK e \in Due("TriggerNodeCrash") :
            Becomes(TriggerNodeCrash(Dequeue(World, e)))
    BY <1>2 DEF NodeCrash
  <2>2. LET v == TriggerNodeCrash(Dequeue(World, e))
        IN  /\ Extends(Dequeue(World, e), v) /\ v.enterprise = NoAgent
            /\ KeepsBooks(Dequeue(World, e), v)
    BY DequeueInv, NodeCrashDestroys
  <2> QED
    BY <1>0, <2>1, <2>2, PairStep
<1>3. CASE AgentMigration
  <2>1. PICK e \in Due("TriggerAgentMigration") :
            Becomes(TriggerAgentMigration(Dequeue(World, e)))
    BY <1>3 DEF AgentMigration
  <2>2. LET v == TriggerAgentMigration(Dequeue(World, e))
        IN  /\ Extends(Dequeue(World, e), v) /\ v.twin # NoAgent
            /\ KeepsBooks(Dequeue(World, e), v)
    BY DequeueInv, MigrationPasses DEF AgentsPresent
  <2> QED
    BY <1>0, <2>1, <2>2, PairStep
<1>4. CASE ProcessRestart
  <2>1. PICK e \in Due("TriggerProcessRestart") :
            Becomes(TriggerProcessRestart(Dequeue(World, e)))
    BY <1>4 DEF ProcessRestart
  <2>2. LET v == TriggerProcessRestart(Dequeue(World, e))
        IN  /\ Extends(Dequeue(World, e), v) /\ v.twin # NoAgent
            /\ KeepsBooks(Dequeue(World, e), v)
    BY DequeueInv, ProcessRestartPasses DEF AgentsPresent
  <2> QED
    BY <1>0, <2>1, <2>2, PairStep
<1>5. CASE FullTeardown
  <2>1. PICK e \in Due("TriggerFullTeardown") :
            Becomes(TriggerFullTeardown(Dequeue(World, e)))
    BY <1>5 DEF FullTeardown
  <2>2. LET v == TriggerFullTeardown(Dequeue(World, e))
        IN  /\ Extends(Dequeue(World, e), v) /\ v.enterprise = NoAgent
            /\ KeepsBooks(Dequeue(World, e), v)
    BY DequeueInv, FullTeardownDestroys
  <2> QED
    BY <1>0, <2>1, <2>2, PairStep
<1>6. CASE NetworkPartition
  <2>1. PICK e \in Due("TriggerNetworkPartition") :
            Becomes(TriggerNetworkPartition(Dequeue(World, e)))
    BY <1>6 DEF NetworkPartition
  <2> DEFINE w == Dequeue(World, e)
             v == TriggerNetworkPartition(w)
  <2>2. WorldInv(w)
    BY DequeueInv
  <2> HIDE DEF w
  <2>3. /\ Awaits(w, v, <<"Network", "Partition">>, "EndScenario", 50)
        /\ KeepsBooks(w, v)
    BY <2>2, NetworkPartitionAwaits
  <2> HIDE DEF v
  <2>4. Extends(w, v) /\ Parts(w, v)
    BY <2>3 DEF Awaits, Parts
  <2>5. KeepsBooks(World, v)
    BY <2>1, <2>3, KeepsBooksFrom DEF w
  <2> QED
    BY <1>0, <2>1, <2>4, <2>5, BecomesStep DEF w, v
<1>7. CASE CrashRecovery
  <2>1. PICK e \in Due("RecoverFromCrash") :
            Becomes(RecoverFromCrash(Dequeue(World, e)))
    BY <1>7 DEF CrashRecovery
  <2>2. Restores(Dequeue(World, e), RecoverFromCrash(Dequeue(World, e)))
    BY DequeueCore, RecoverFromCrashRestores
  <2> QED
    BY <1>0, <2>1, <2>2, RestorationStep
<1>8. CASE Redeployment
  <2>1. PICK e \in Due("RedeploySystem") :
            Becomes(RedeploySystem(Dequeue(World, e)))
    BY <1>8 DEF Redeployment
  <2>2. Restores(Dequeue(World, e), RedeploySystem(Dequeue(World, e)))
    BY DequeueCore, RedeploySystemRestores
  <2> QED
    BY <1>0, <2>1, <2>2, RestorationStep
<1>9. CASE DelayedSample
  <2>1. PICK e \in Due("RecordMetrics") :
            Becomes(Record(Dequeue(World, e), e.arg))
    BY <1>9 DEF DelayedSample
  <2>2. e.arg \in Labels
    BY DueEvent DEF LabelHandlers
  <2> DEFINE w == Dequeue(World, e)
             v == Record(w, e.arg)
  <2>3. WorldInv(w)
    BY DequeueInv
  <2>4. Keeps(w, v)
    BY <2>2, <2>3, RecordKeeps
  <2>5. KeepsBooks(World, v)
    <3>1. e \in queue /\ e.op = "RecordMetrics"
      BY DEF Due
    <3>2. Books(World) => e.arg \notin RestorationSamples
      BY <3>1 DEF Books, Unlabelled, World
    <3>3. e.arg \notin RestorationSamples => KeepsBooks(w, v)
      BY <2>3, RecordAccounts
    <3> HIDE DEF v
    <3>4. e.arg \notin RestorationSamples => KeepsBooks(World, v)
      BY <3>3, KeepsBooksFrom
    <3> QED
      BY <3>2, <3>4 DEF KeepsBooks
  <2> HIDE DEF w, v
  <2>6. Extends(w, v) /\ Parts(w, v)
    BY <2>4 DEF Keeps, SameAgents, Parts
  <2> QED
    BY <1>0, <2>1, <2>5, <2>6, BecomesStep DEF w, v
<1>10. CASE DelayedEnd
  <2>1. PICK e \in Due("EndScenario") :
            Becomes(EndScenario(Dequeue(World, e)))
    BY <1>10 DEF DelayedEnd
  <2> DEFINE w == Dequeue(World, e)
             v == EndScenario(w)
  <2>2. Ends(w, v) /\ KeepsBooks(w, v)
    BY DequeueInv, EndScenarioEnds, EndScenarioAccounts
  <2> HIDE DEF v, w
  <2>3. Extends(w, v) /\ Parts(w, v)
    BY <2>2 DEF Ends, SameAgents, Parts
  <2>4. KeepsBooks(World, v)
    BY <2>1, <2>2, KeepsBooksFrom DEF w
  <2> QED
    BY <1>0, <2>1, <2>3, <2>4, BecomesStep DEF w, v
<1>11. CASE AgentDisappears
  <2>1. PICK e \in Due("ShowAgentDisappears") :
            Becomes(Paint(Dequeue(World, e), {e.arg[1]}, "Edge_Offline"))
    BY <1>11 DEF AgentDisappears
  <2>2. "Edge_Offline" \in Colours \ {"Verification_Success"}
    BY DEF Colours
  <2>3. WorldInv(Dequeue(World, e))
    BY DequeueInv
  <2> QED
    BY <1>0, <2>1, <2>2, <2>3, PaintKeeps, PaintAccounts, KeepsStep
<1>12. CASE AgentReappears
  <2>1. PICK e \in Due("ShowAgentReappears") :
            Becomes(Paint(Dequeue(World, e), {e.arg[1]}, "Edge_Reappeared"))
    BY <1>12 DEF AgentReappears
  <2>2. "Edge_Reappeared" \in Colours \ {"Verification_Success"}
    BY DEF Colours
  <2>3. WorldInv(Dequeue(World, e))
    BY DequeueInv
  <2> QED
    BY <1>0, <2>1, <2>2, <2>3, PaintKeeps, PaintAccounts, KeepsStep
<1>13. CASE MigratedAgentAppears
  <2>1. PICK e \in Due("ShowMigratedAgent") :
            LET w == Dequeue(World, e)
            IN  Becomes(IF w.enterprise # NoAgent
                        THEN Paint(w, {e.arg[1]}, "Edge_Reappeared") ELSE w)
    BY <1>13 DEF MigratedAgentAppears
  <2> DEFINE w == Dequeue(World, e)
             p == Paint(w, {e.arg[1]}, "Edge_Reappeared")
             v == IF w.enterprise # NoAgent THEN p ELSE w
  <2>2. "Edge_Reappeared" \in Colours \ {"Verification_Success"}
    BY DEF Colours
  <2>3. WorldInv(w)
    BY DequeueInv
  <2>4. Keeps(w, p) /\ Keeps(w, w) /\ KeepsBooks(w, p) /\ KeepsBooks(w, w)
    BY <2>2, <2>3, PaintKeeps, KeepsSelf, PaintAccounts, AccountsSelf
  <2>5. Keeps(w, v) /\ KeepsBooks(w, v)
    BY <2>4
  <2>6. Becomes(v)
    BY <2>1
  <2> QED
    BY <1>0, <2>5, <2>6, KeepsStep
<1>14. CASE VerificationShown
  <2>1. PICK e \in Due("ShowVerified") :
            LET w == Dequeue(World, e)
            IN  Becomes(IF AgentsPresent(w)
                        THEN ShowIdentityVerificationSuccess(w, e.arg[1])
                        ELSE w)
    BY <1>14 DEF VerificationShown
  <2> DEFINE w == Dequeue(World, e)
             p == ShowIdentityVerificationSuccess(w, e.arg[1])
             v == IF AgentsPresent(w) THEN p ELSE w
  <2>2. e.arg[1] \in Nodes
    BY DueEvent DEF NodeHandlers
  <2>3. WorldInv(w)
    BY DequeueInv
  <2>4. Keeps(w, p) /\ Keeps(w, w) /\ KeepsBooks(w, p) /\ KeepsBooks(w, w)
    BY <2>2, <2>3, ShowVerificationKeeps, KeepsSelf,
       ShowVerificationAccounts, AccountsSelf
  <2>5. Keeps(w, v) /\ KeepsBooks(w, v)
    BY <2>4
  <2>6. Becomes(v)
    BY <2>1
  <2> QED
    BY <1>0, <2>5, <2>6, KeepsStep
<1>15. CASE ColoursReset
  BY <1>0, <1>15, ResetStep DEF ColoursReset
<1>16. CASE LoopStops
  <2>1. PICK e \in Due("Stop") : Becomes(StopLoop(Dequeue(World, e)))
    BY <1>16 DEF LoopStops
  <2>2. /\ Keeps(Dequeue(World, e), StopLoop(Dequeue(World, e)))
        /\ KeepsBooks(Dequeue(World, e), StopLoop(Dequeue(World, e)))
    BY DequeueInv, StopLoopKeeps
  <2> QED
    BY <1>0, <2>1, <2>2, KeepsStep
<1>17. CASE Finished
  BY <1>17 DEF Finished
<1> QED
  BY <1>1, <1>2, <1>3, <1>4, <1>5, <1>6, <1>7, <1>8, <1>9, <1>10, <1>11,
     <1>12, <1>13, <1>14, <1>15, <1>16, <1>17 DEF ManagerNext

=============================================================================
