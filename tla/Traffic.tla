------------------------------ MODULE Traffic ------------------------------
(***************************************************************************)
(* One of the two flows of nr-immortal.cc: a UdpClientWithHeader, the      *)
(* network that loses and delays its packets, the PacketSinkWithStats that *)
(* counts them, and the columns the collector derives from these counts.   *)
(* All of it runs in the event loop; the network is not under the          *)
(* program's control, so a packet meets any of its fates.                  *)
(***************************************************************************)
EXTENDS Simulator, FiniteSets, Sequences

CONSTANTS
    Interval, MaxPackets, PacketSize,  \* m_interval, m_maxPackets, m_packetSize
    Delays,      \* what the network may take to deliver a packet
    Schedules    \* the times main gives the applications and the collector,
                 \* and whether the network keeps packets in order

ASSUME TrafficAssumption ==
    /\ Interval \in Nat \ {0} /\ MaxPackets \in Nat /\ PacketSize \in Nat \ {0}
    /\ Delays \subseteq Nat
    /\ Schedules \subseteq
        [clientStart : Nat, clientStop : Nat, sinkStart : Nat, sinkStop : Nat,
         migration : Nat, periodic : Seq(Nat), end : Nat, inOrder : BOOLEAN]

Lost == -1    \* the fate of a packet that never arrives
NoTimer == 0

VARIABLES
    config,      \* the schedule and the network of this run
    client,      \* socket, m_sent, m_sendEvent
    sink,        \* socket, m_totalRx, m_lost, m_lastSeq
    columns,     \* m_metrics, m_lastSampleTime, m_lastDlRx
    sent,        \* history: the packets given to the network
    heard        \* history: the first number the sink read, and all of them

trafficVars == <<config, client, sink, columns, sent, heard>>
vars == <<simulatorVars, trafficVars>>

World == [now |-> now, queue |-> queue, uid |-> uid, running |-> running,
          client |-> client, sink |-> sink, columns |-> columns,
          sent |-> sent, heard |-> heard]

Becomes(w) ==
    /\ now' = w.now /\ queue' = w.queue /\ uid' = w.uid
    /\ running' = w.running /\ client' = w.client /\ sink' = w.sink
    /\ columns' = w.columns /\ sent' = w.sent /\ heard' = w.heard
    /\ UNCHANGED config

---------------------------------------------------------------------------
(* The client                                                              *)

\* Fault: the timer stays armed
CancelNothing(w, id) == w

\* Simulator::Cancel: the event stays in the queue and will do nothing
Cancel(w, id) ==
    [w EXCEPT !.queue =
        {IF e.uid = id THEN [e EXCEPT !.op = "Cancelled"] ELSE e : e \in @}]

\* Fault: one packet too many
ScheduleTxOnceMore(w) ==
    IF w.client.sent <= MaxPackets
    THEN [Schedule(w, Interval, "SendPacket", << >>)
            EXCEPT !.client.timer = w.uid]
    ELSE w

ScheduleTx(w) ==
    IF w.client.sent < MaxPackets
    THEN [Schedule(w, Interval, "SendPacket", << >>)
            EXCEPT !.client.timer = w.uid]
    ELSE w

\* Always a new socket, open whatever became of the one before
StartClient(w) ==
    ScheduleTx([w EXCEPT !.client.socket = "open", !.client.sent = 0])

Close(socket) == IF socket = "open" THEN "closed" ELSE socket

StopClient(w) ==
    [Cancel(w, w.client.timer) EXCEPT !.client.socket = Close(@)]

\* A datagram its socket accepts is delivered after a delay, or never.
Fates(w) ==
    {Lost} \cup
    {d \in Delays : config.inOrder => \A e \in w.queue :
                        e.op = "HandleRead" => e.ts <= w.now + d}

Send(w, seq, fate) ==
    IF w.client.socket # "open" THEN w
    ELSE LET onWire == [w EXCEPT !.sent = @ \cup {seq}]
         IN  IF fate = Lost THEN onWire
             ELSE Schedule(onWire, fate, "HandleRead", <<seq, w.now>>)

\* m_sent advances whether or not Send has succeeded
SendPacket(w, fate) ==
    ScheduleTx([Send(w, w.client.sent + 1, fate) EXCEPT !.client.sent = @ + 1])

---------------------------------------------------------------------------
(* The sink                                                                *)

StartSink(w) == [w EXCEPT !.sink.socket = "open"]

StopSink(w) == [w EXCEPT !.sink.socket = Close(@)]

\* Faults: the gap is one too short; numbers before the first count as lost
SkippedShort(s, seq) ==
    IF seq > s.lastSeq + 1 /\ s.lastSeq # 0 THEN seq - s.lastSeq - 2 ELSE 0
SkippedFromZero(s, seq) ==
    IF seq > s.lastSeq + 1 THEN seq - s.lastSeq - 1 ELSE 0

\* The gap a packet leaves to the one heard before it
Skipped(s, seq) ==
    IF seq > s.lastSeq + 1 /\ s.lastSeq # 0 THEN seq - s.lastSeq - 1 ELSE 0

\* A datagram for a port nobody listens on, or whose socket is closed, is
\* dropped below the sink.
HandleRead(w, seq) ==
    IF w.sink.socket # "open" THEN w
    ELSE [w EXCEPT !.sink.totalRx = @ + PacketSize,
                   !.sink.lost = @ + Skipped(w.sink, seq),
                   !.sink.lastSeq = seq,
                   !.heard = [first |-> IF @.all = {} THEN seq ELSE @.first,
                              all |-> @.all \cup {seq}]]

---------------------------------------------------------------------------
(* The collector                                                           *)

\* Throughput is the difference of two byte counts over the interval, and 0
\* over an empty one; rxPackets is the byte count.
Sample(w) ==
    LET interval == w.now - w.columns.lastTime
    IN  [interval |-> interval,
         bytes |-> IF interval > 0 THEN w.sink.totalRx - w.columns.lastRx ELSE 0,
         rxPackets |-> w.sink.totalRx, lostPackets |-> w.sink.lost]

\* Fault: the bytes of a sample are counted again in the next
RecordMetricsTwice(w) ==
    [w EXCEPT !.columns.samples = Append(@, Sample(w)),
              !.columns.lastTime = w.now]

RecordMetrics(w) ==
    [w EXCEPT !.columns.samples = Append(@, Sample(w)),
              !.columns.lastTime = w.now,
              !.columns.lastRx = w.sink.totalRx]

\* What the collector sees of a migration: a sample, another one second later
TriggerAgentMigration(w) == Schedule(RecordMetrics(w), 10, "RecordMetrics", << >>)

---------------------------------------------------------------------------
\* DoInitialize, at time 0: a stop time of 0 stands for none.
Application(start, stop, startOp, stopOp) ==
    <<<<start, startOp>>>>
        \o (IF stop # 0 THEN <<<<stop, stopOp>>>> ELSE << >>)

\* What main schedules before Run, then what the applications schedule
InitialCalls(c) ==
    [i \in DOMAIN c.periodic |-> <<c.periodic[i], "RecordMetrics">>]
    \o <<<<c.migration, "TriggerAgentMigration">>, <<c.end, "Stop">>>>
    \o Application(c.sinkStart, c.sinkStop, "StartSink", "StopSink")
    \o Application(c.clientStart, c.clientStop, "StartClient", "StopClient")

Init ==
    /\ config \in Schedules
    /\ now = 0 /\ running = TRUE
    /\ LET calls == InitialCalls(config)
       IN  /\ queue = {Event(calls[i][1], FirstUid + i - 1, calls[i][2], << >>) :
                        i \in DOMAIN calls}
           /\ uid = FirstUid + Len(calls)
    /\ client = [socket |-> "none", sent |-> 0, timer |-> NoTimer]
    /\ sink = [socket |-> "none", totalRx |-> 0, lost |-> 0, lastSeq |-> 0]
    /\ columns = [samples |-> << >>, lastTime |-> 0, lastRx |-> 0]
    /\ sent = {} /\ heard = [first |-> 0, all |-> {}]

ClientStarts == \E e \in Due("StartClient") : Becomes(StartClient(Dequeue(World, e)))
ClientStops == \E e \in Due("StopClient") : Becomes(StopClient(Dequeue(World, e)))
PacketSent ==
    \E e \in Due("SendPacket") :
        LET w == Dequeue(World, e)
        IN  \E fate \in Fates(w) : Becomes(SendPacket(w, fate))
CancelledEventRuns == \E e \in Due("Cancelled") : Becomes(Dequeue(World, e))
SinkStarts == \E e \in Due("StartSink") : Becomes(StartSink(Dequeue(World, e)))
SinkStops == \E e \in Due("StopSink") : Becomes(StopSink(Dequeue(World, e)))
PacketArrives ==
    \E e \in Due("HandleRead") : Becomes(HandleRead(Dequeue(World, e), e.arg[1]))
SampleTaken ==
    \E e \in Due("RecordMetrics") : Becomes(RecordMetrics(Dequeue(World, e)))
AgentMigrates ==
    \E e \in Due("TriggerAgentMigration") :
        Becomes(TriggerAgentMigration(Dequeue(World, e)))
LoopStops == \E e \in Due("Stop") : Becomes(StopLoop(Dequeue(World, e)))
Finished == IsFinished /\ UNCHANGED vars

Next == \/ ClientStarts \/ ClientStops \/ PacketSent \/ CancelledEventRuns
        \/ SinkStarts \/ SinkStops \/ PacketArrives
        \/ SampleTaken \/ AgentMigrates \/ LoopStops \/ Finished

Spec == Init /\ [][Next]_vars

---------------------------------------------------------------------------
(* Properties                                                              *)

Highest == CHOOSE n \in heard.all : \A k \in heard.all : k <= n

\* The packets that should have come after the first one, and have not
Missing == IF heard.all = {} THEN {} ELSE (heard.first .. Highest) \ heard.all

TrafficTypeOK ==
    /\ now \in Nat /\ uid \in Nat /\ running \in BOOLEAN
    /\ client \in [socket : {"none", "open", "closed"}, sent : 0 .. MaxPackets,
                   timer : Nat]
    /\ sink \in [socket : {"none", "open", "closed"}, totalRx : Nat, lost : Nat,
                 lastSeq : 0 .. MaxPackets]
    /\ sent \subseteq 1 .. MaxPackets /\ heard.all \subseteq sent

\* However the network reorders and loses packets, m_lost is never less than
\* the number of packets missing between the first and the highest one heard.
LossesCounted == Cardinality(Missing) <= sink.lost

\* A network that keeps the order makes the count exact.
LossesExact == config.inOrder => sink.lost = Cardinality(Missing)

\* Every number m_sent has passed was given to the network: no timer outlives
\* the socket it sends on, in whatever order the application is started and
\* stopped.
SentIsOnWire == client.sent = Cardinality(sent)

\* The bytes of all samples add up to the bytes received when the last of them
\* was taken, except what an empty interval has swallowed; none is reported
\* twice.
ReportedBytes ==
    LET total[n \in 0 .. Len(columns.samples)] ==
            IF n = 0 THEN 0 ELSE total[n - 1] + columns.samples[n].bytes
    IN  total[Len(columns.samples)]

ThroughputAddsUp ==
    /\ ReportedBytes <= columns.lastRx
    /\ (\A i \in DOMAIN columns.samples : columns.samples[i].interval > 0)
        => ReportedBytes = columns.lastRx

=============================================================================
