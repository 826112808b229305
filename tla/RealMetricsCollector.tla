------------------------ MODULE RealMetricsCollector ------------------------
(***************************************************************************)
(* RealMetricsCollector: the samples and scenario summaries, as a record   *)
(* passed from call to call.  Of a sample this keeps its time stamp, its   *)
(* label, the interval its throughput is computed over (no throughput is   *)
(* computed over an empty one) and the verification columns; of a summary, *)
(* the number of samples it is averaged over, its downtime and its         *)
(* verification count.  A label is the tuple of its words.                 *)
(***************************************************************************)
EXTENDS Integers, Sequences, FiniteSets

NewCollector == [samples |-> << >>, summaries |-> << >>, baseline |-> << >>,
                 total |-> 0, lastResult |-> FALSE, lastSampleTime |-> 0]

Sample(c, t, label) ==
    [ts |-> t, label |-> label, interval |-> t - c.lastSampleTime,
     events |-> c.total, success |-> c.lastResult]

\* CollectCurrentMetrics returns Sample and moves m_lastSampleTime
RecordMetrics(c, t, label) ==
    [c EXCEPT !.samples = Append(@, Sample(c, t, label)),
              !.lastSampleTime = t]

\* Only the first call has an effect (m_baselineCaptured)
CaptureBaseline(c, t) ==
    IF c.baseline # << >> THEN c
    ELSE [c EXCEPT !.baseline = <<Sample(c, t, <<"BASELINE">>)>>,
                   !.lastSampleTime = t]

IncVerificationEvents(c, ok) == [c EXCEPT !.total = @ + 1, !.lastResult = ok]

\* label.find(name) # npos, on words
Mentions(label, name) ==
    \E i \in 0 .. Len(label) - Len(name) :
        \A j \in 1 .. Len(name) : label[i + j] = name[j]

AddScenarioSummary(c, name, downtime, events) ==
    LET averaged == {i \in DOMAIN c.samples : Mentions(c.samples[i].label, name)}
    IN  [c EXCEPT !.summaries =
            Append(@, [name |-> name, downtime |-> downtime, events |-> events,
                       averaged |-> Cardinality(averaged)])]
=============================================================================
