--------------------------- MODULE TrafficProofs ---------------------------
(***************************************************************************)
(* Proofs about Traffic, for any schedule of the applications, any delays  *)
(* of the network and any number of packets: no loss goes uncounted, the   *)
(* count is exact over a network that keeps the order, and no timer        *)
(* outlives the socket it sends on.                                        *)
(***************************************************************************)
EXTENDS Traffic, FiniteSetTheorems, SequenceTheorems, WellFoundedInduction, TLAPS

Sockets == {"none", "open", "closed"}

Fields == {"now", "queue", "uid", "running", "client", "sink", "columns", "sent", "heard"}

---------------------------------------------------------------------------
(* The inductive invariant                                                 *)

\* Events have times, and identifiers of their own below u.
QueueOK(q, u) ==
    /\ u \in Nat
    /\ \A e \in q : e.ts \in Nat /\ e.uid \in Nat /\ e.uid < u
    /\ \A e, f \in q : e.uid = f.uid => e = f

LoopInv == QueueOK(queue, uid) /\ now \in Nat /\ running \in BOOLEAN

\* A timer that is armed is the one the client knows, and its socket is open;
\* the client starts once, before it has sent anything.
ClientInv ==
    /\ client \in [socket : Sockets, sent : 0 .. MaxPackets, timer : Nat]
    /\ sent = 1 .. client.sent
    /\ \A e \in queue : e.op = "SendPacket" =>
          e.uid = client.timer /\ client.socket = "open" /\ client.sent < MaxPackets
    /\ \A e, f \in queue : e.op = "StartClient" =>
          client.sent = 0 /\ f.op # "SendPacket" /\ (f.op = "StartClient" => e = f)

\* Packets in the network were sent; without reordering they are ahead of what
\* was heard, and arrive in the order of their numbers.
NetworkInv ==
    /\ \A e \in queue : e.op = "HandleRead" => e.arg[1] \in 1 .. client.sent
    /\ config.inOrder =>
        /\ \A e \in queue : e.op = "HandleRead" => \A k \in heard.all : k < e.arg[1]
        /\ \A e, f \in queue :
              e.op = "HandleRead" /\ f.op = "HandleRead" /\ e.arg[1] <= f.arg[1]
                => e = f \/ Precedes(e, f)

SinkInv ==
    /\ sink \in [socket : Sockets, totalRx : Nat, lost : Nat, lastSeq : 0 .. MaxPackets]
    /\ heard.all \subseteq sent
    /\ heard.all = {} => sink.lastSeq = 0
    /\ heard.all # {} => /\ heard.first \in heard.all
                         /\ sink.lastSeq \in heard.all
                         /\ \E h \in heard.all : \A k \in heard.all : k <= h
    /\ config.inOrder => \A k \in heard.all : k <= sink.lastSeq
    /\ LossesCounted
    /\ LossesExact

Inv == config \in Schedules /\ LoopInv /\ ClientInv /\ NetworkInv /\ SinkInv

---------------------------------------------------------------------------
(* The queue                                                               *)

LEMMA FewerOK ==
    ASSUME NEW q, NEW u, QueueOK(q, u), NEW r \in SUBSET q
    PROVE  QueueOK(r, u)
BY DEF QueueOK

LEMMA ScheduledOK ==
    ASSUME NEW q, NEW u, QueueOK(q, u), NEW t \in Nat, NEW op, NEW arg
    PROVE  QueueOK(q \cup {Event(t, u, op, arg)}, u + 1)
BY DEF QueueOK, Event

LEMMA CancelledOK ==
    ASSUME NEW q, NEW u, QueueOK(q, u), NEW id
    PROVE  LET r == {IF e.uid = id THEN [e EXCEPT !.op = "Cancelled"] ELSE e : e \in q}
           IN  /\ QueueOK(r, u)
               /\ \A f \in r : f.op # "Cancelled" => f \in q /\ f.uid # id
<1> DEFINE c(e) == IF e.uid = id THEN [e EXCEPT !.op = "Cancelled"] ELSE e
           r == {c(e) : e \in q}
<1>1. \A e \in q : /\ c(e).ts = e.ts /\ c(e).uid = e.uid
                   /\ c(e).op # "Cancelled" => c(e) = e /\ e.uid # id
  OBVIOUS
<1> HIDE DEF c
<1>2. QueueOK(r, u)
  BY <1>1 DEF QueueOK
<1>3. \A f \in r : f.op # "Cancelled" => f \in q /\ f.uid # id
  BY <1>1
<1> QED BY <1>2, <1>3 DEF c

---------------------------------------------------------------------------
(* Counting losses                                                         *)

LEMMA HighestIs ==
    ASSUME heard.all \subseteq Nat, NEW h \in heard.all, \A k \in heard.all : k <= h
    PROVE  Highest = h
<1>1. /\ Highest \in heard.all
      /\ \A k \in heard.all : k <= Highest
  BY DEF Highest
<1> QED BY <1>1

\* The gap to a number above all others
LEMMA GapAbove ==
    ASSUME NEW a \in Nat, NEW h \in Nat, NEW n \in Nat, a <= h, h < n,
           NEW S \in SUBSET (a .. h)
    PROVE  /\ Cardinality((a .. h) \ S) \in Nat
           /\ Cardinality((a .. n) \ (S \cup {n}))
                = Cardinality((a .. h) \ S) + (n - h - 1)
<1> DEFINE old == (a .. h) \ S
           new == (a .. n) \ (S \cup {n})
           gap == (h + 1) .. (n - 1)
<1>1. IsFiniteSet(old) /\ Cardinality(old) \in Nat
  <2>1. IsFiniteSet(a .. h) /\ old \in SUBSET (a .. h)
    BY FS_Interval
  <2> HIDE DEF old
  <2> QED BY <2>1, FS_Subset, FS_CardinalityType
<1>2. IsFiniteSet(gap) /\ Cardinality(gap) = n - h - 1
  <2>1. h + 1 \in Int /\ n - 1 \in Int
    OBVIOUS
  <2>2. /\ IsFiniteSet(gap)
        /\ Cardinality(gap) = IF h + 1 > n - 1 THEN 0 ELSE (n - 1) - (h + 1) + 1
    BY <2>1, FS_Interval
  <2> HIDE DEF gap
  <2> QED BY <2>2
<1>3. new = old \cup gap /\ old \cap gap = {}
  OBVIOUS
<1> HIDE DEF old, new, gap
<1>4. Cardinality(old \cap gap) = 0
  BY <1>3, FS_EmptySet
<1>5. Cardinality(new) = Cardinality(old) + Cardinality(gap) - Cardinality(old \cap gap)
  BY <1>1, <1>2, <1>3, FS_Union
<1>6. Cardinality(new) = Cardinality(old) + (n - h - 1)
  BY <1>1, <1>2, <1>4, <1>5
<1> QED BY <1>1, <1>6 DEF old, new

\* A number not above the highest fills a gap or none.
LEMMA GapBelow ==
    ASSUME NEW a \in Nat, NEW h \in Nat, NEW S, NEW n
    PROVE  /\ Cardinality((a .. h) \ (S \cup {n})) <= Cardinality((a .. h) \ S)
           /\ Cardinality((a .. h) \ (S \cup {n})) \in Nat
           /\ Cardinality((a .. h) \ S) \in Nat
<1> DEFINE old == (a .. h) \ S
           new == (a .. h) \ (S \cup {n})
<1>1. IsFiniteSet(a .. h) /\ old \in SUBSET (a .. h) /\ new \in SUBSET old
  BY FS_Interval
<1> HIDE DEF old, new
<1> QED BY <1>1, FS_Subset, FS_CardinalityType DEF old, new

\* What the sink knows after it has read packet n
LEMMA HeardCounts ==
    ASSUME SinkInv, NEW n \in 1 .. MaxPackets, sent \subseteq Nat \ {0},
           config.inOrder => \A k \in heard.all : k < n,
           sink'.lost = sink.lost + Skipped(sink, n), sink'.lastSeq = n,
           config' = config,
           heard' = [first |-> IF heard.all = {} THEN n ELSE heard.first,
                     all |-> heard.all \cup {n}]
    PROVE  /\ heard'.first \in heard'.all
           /\ \E h \in heard'.all : \A k \in heard'.all : k <= h
           /\ sink'.lost \in Nat
           /\ config'.inOrder => \A k \in heard'.all : k <= n
           /\ LossesCounted' /\ LossesExact'
<1>1. /\ sink.lost \in Nat /\ sink.lastSeq \in Nat /\ n \in Nat /\ n >= 1
      /\ heard.all \subseteq Nat \ {0}
  <2>1. MaxPackets \in Nat
    BY TrafficAssumption
  <2>2. sink \in [socket : Sockets, totalRx : Nat, lost : Nat, lastSeq : 0 .. MaxPackets]
        /\ heard.all \subseteq sent
    BY DEF SinkInv
  <2>3. sink.lost \in Nat /\ sink.lastSeq \in 0 .. MaxPackets
    BY <2>2
  <2>4. sink.lastSeq \in Nat /\ n \in Nat /\ n >= 1
    BY <2>1, <2>3
  <2>5. heard.all \subseteq Nat \ {0}
    BY <2>2
  <2> QED BY <2>3, <2>4, <2>5
<1>2. heard'.all = heard.all \cup {n}
  OBVIOUS
<1>3. CASE heard.all = {}
  <2>1. heard'.first = n /\ heard'.all = {n} /\ sink.lastSeq = 0
    BY <1>3 DEF SinkInv
  <2>2. Skipped(sink, n) = 0 /\ sink'.lost = sink.lost
    BY <1>1, <2>1 DEF Skipped
  <2>3. Highest' = n
    BY <1>1, <2>1 DEF Highest
  <2>4. Missing' = {} /\ Missing = {}
    BY <1>1, <1>3, <2>1, <2>3 DEF Missing
  <2>5. Cardinality(Missing') = 0 /\ Cardinality(Missing) = 0
    BY <2>4, FS_EmptySet
  <2> QED BY <1>1, <2>1, <2>2, <2>5 DEF LossesCounted, LossesExact, SinkInv
<1>4. CASE heard.all # {}
  <2>1. PICK h \in heard.all : \A k \in heard.all : k <= h
    BY <1>4 DEF SinkInv
  <2> DEFINE a == heard.first
  <2>2. /\ a \in heard.all /\ sink.lastSeq \in heard.all /\ heard'.first = a
    BY <1>4 DEF SinkInv
  <2>3. Missing = (a .. h) \ heard.all
    BY <1>1, <1>4, <2>1, HighestIs DEF Missing
  <2>4. h \in Nat /\ a \in Nat /\ a <= h /\ sink.lastSeq <= h /\ h >= 1 /\ sink.lastSeq # 0
    BY <1>1, <2>1, <2>2
  <2>5. LossesCounted /\ LossesExact
    BY DEF SinkInv
  <2> HIDE DEF a
  <2>6. CASE n > h
    <3>1. Highest' = n
      <4>1. /\ heard'.all \subseteq Nat /\ n \in heard'.all
            /\ \A k \in heard'.all : k <= n
        BY <1>1, <1>2, <2>1, <2>4, <2>6
      <4> QED BY <4>1 DEF Highest
    <3>2. Missing' = (a .. n) \ (heard.all \cup {n})
      BY <1>2, <2>2, <3>1 DEF Missing
    <3>3. heard.all \cap (a .. h) \in SUBSET (a .. h)
      OBVIOUS
    <3> DEFINE S == heard.all \cap (a .. h)
    <3>4. Missing = (a .. h) \ S /\ Missing' = (a .. n) \ (S \cup {n})
      BY <1>1, <2>1, <2>3, <3>2, <2>4
    <3>5. /\ Cardinality(Missing) \in Nat
          /\ Cardinality(Missing') = Cardinality(Missing) + (n - h - 1)
      <4>1. PICK b \in Nat, g \in Nat, p \in Nat : b = a /\ g = h /\ p = n
        BY <1>1, <2>4
      <4>2. b <= g /\ g < p
        BY <2>4, <2>6, <4>1
      <4>3. PICK T \in SUBSET (b .. g) : T = S
        BY <3>3, <4>1
      <4> HIDE DEF S
      <4>4. /\ Cardinality((b .. g) \ T) \in Nat
            /\ Cardinality((b .. p) \ (T \cup {p}))
                  = Cardinality((b .. g) \ T) + (p - g - 1)
        BY <4>2, GapAbove
      <4> QED BY <3>4, <4>1, <4>3, <4>4
    <3>6. Skipped(sink, n) = n - sink.lastSeq - 1
      BY <1>1, <2>4, <2>6 DEF Skipped
    <3>7. config.inOrder => sink.lastSeq = h
      BY <1>1, <2>1, <2>4 DEF SinkInv
    <3>8. LossesCounted' /\ LossesExact'
      <4>1. sink'.lost = sink.lost + (n - sink.lastSeq - 1)
        BY <3>6
      <4>2. Cardinality(Missing) <= sink.lost
        BY <2>5 DEF LossesCounted
      <4>3. Cardinality(Missing') <= sink'.lost
        BY <1>1, <2>4, <3>5, <4>1, <4>2
      <4>4. config.inOrder => sink'.lost = Cardinality(Missing')
        BY <1>1, <2>4, <2>5, <3>5, <3>7, <4>1 DEF LossesExact
      <4> QED BY <4>3, <4>4 DEF LossesCounted, LossesExact
    <3>9. \A k \in heard'.all : k <= n
      BY <1>1, <1>2, <2>1, <2>4, <2>6
    <3>10. sink'.lost \in Nat
      BY <1>1, <2>4, <2>6, <3>6
    <3> QED BY <1>2, <2>2, <3>8, <3>9, <3>10
  <2>7. CASE n <= h
    <3>1. Highest' = h
      <4>1. /\ heard'.all \subseteq Nat /\ h \in heard'.all
            /\ \A k \in heard'.all : k <= h
        BY <1>1, <1>2, <2>1, <2>7
      <4> QED BY <4>1 DEF Highest
    <3>2. Missing' = (a .. h) \ (heard.all \cup {n})
      BY <1>2, <2>2, <3>1 DEF Missing
    <3>3. /\ Cardinality(Missing') <= Cardinality(Missing)
          /\ Cardinality(Missing') \in Nat /\ Cardinality(Missing) \in Nat
      BY <2>3, <2>4, <3>2, GapBelow
    <3>4. Skipped(sink, n) \in Nat
      BY <1>1 DEF Skipped
    <3>5. ~config.inOrder
      BY <1>1, <2>1, <2>7
    <3>6. sink'.lost \in Nat /\ sink'.lost >= sink.lost
      BY <1>1, <3>4
    <3>7. LossesCounted' /\ LossesExact'
      BY <1>1, <2>5, <3>3, <3>5, <3>6 DEF LossesCounted, LossesExact
    <3> QED BY <1>2, <2>1, <2>2, <2>7, <3>5, <3>6, <3>7
  <2> QED BY <1>1, <2>4, <2>6, <2>7
<1> QED BY <1>3, <1>4

---------------------------------------------------------------------------
(* The steps                                                               *)

\* A step that leaves the flow as it is, schedules nothing of it, and touches
\* only the socket of the sink
LEMMA QuietStep ==
    ASSUME Inv, LoopInv', UNCHANGED <<config, client, sent, heard>>,
           sink' \in [socket : Sockets, totalRx : Nat, lost : Nat, lastSeq : 0 .. MaxPackets],
           sink'.lost = sink.lost, sink'.lastSeq = sink.lastSeq,
           \A f \in queue' : f.op \in {"SendPacket", "StartClient", "HandleRead"}
                             => f \in queue
    PROVE  Inv'
<1>1. ClientInv'
  BY DEF Inv, ClientInv
<1>2. NetworkInv'
  BY DEF Inv, NetworkInv
<1>3. Missing' = Missing
  BY DEF Missing, Highest
<1>4. SinkInv'
  BY <1>3 DEF Inv, SinkInv, LossesCounted, LossesExact
<1> QED BY <1>1, <1>2, <1>4 DEF Inv

\* The event that runs was pending, and everything else comes after it.
LEMMA DueIs ==
    ASSUME Inv, NEW op, NEW e \in Due(op)
    PROVE  /\ e \in queue /\ e.op = op /\ e.ts \in Nat /\ e.uid \in Nat
           /\ \A f \in queue \ {e} : Precedes(e, f)
           /\ QueueOK(queue, uid) /\ QueueOK(queue \ {e}, uid)
           /\ uid \in Nat /\ running \in BOOLEAN
<1>1. e \in queue /\ e.op = op /\ \A f \in queue \ {e} : Precedes(e, f)
  BY DEF Due
<1>2. QueueOK(queue, uid) /\ running \in BOOLEAN
  BY DEF Inv, LoopInv
<1> QED BY <1>1, <1>2 DEF QueueOK

LEMMA CancelledEventRunsKeeps ==
    ASSUME Inv, CancelledEventRuns PROVE Inv'
<1>1. PICK e \in Due("Cancelled") : Becomes(Dequeue(World, e))
  BY DEF CancelledEventRuns
<1>2. /\ now' = e.ts /\ queue' = queue \ {e} /\ uid' = uid /\ running' = running
      /\ UNCHANGED <<config, client, sink, sent, heard>>
  BY <1>1 DEF Becomes, Dequeue, World
<1>3. LoopInv'
  BY <1>2, DueIs DEF LoopInv
<1> QED BY <1>2, <1>3, QuietStep DEF Inv, SinkInv

LEMMA SinkStartsKeeps ==
    ASSUME Inv, SinkStarts PROVE Inv'
<1>1. PICK e \in Due("StartSink") : Becomes(StartSink(Dequeue(World, e)))
  BY DEF SinkStarts
<1>2. /\ now' = e.ts /\ queue' = queue \ {e} /\ uid' = uid /\ running' = running
      /\ UNCHANGED <<config, client, sent, heard>>
      /\ sink' = [sink EXCEPT !.socket = "open"]
  BY <1>1 DEF Becomes, Dequeue, World, StartSink
<1>3. LoopInv'
  BY <1>2, DueIs DEF LoopInv
<1>4. sink \in [socket : Sockets, totalRx : Nat, lost : Nat, lastSeq : 0 .. MaxPackets]
  BY DEF Inv, SinkInv
<1>5. /\ sink' \in [socket : Sockets, totalRx : Nat, lost : Nat, lastSeq : 0 .. MaxPackets]
      /\ sink'.lost = sink.lost /\ sink'.lastSeq = sink.lastSeq
  BY <1>2, <1>4 DEF Sockets
<1> QED BY <1>2, <1>3, <1>5, QuietStep

LEMMA SinkStopsKeeps ==
    ASSUME Inv, SinkStops PROVE Inv'
<1>1. PICK e \in Due("StopSink") : Becomes(StopSink(Dequeue(World, e)))
  BY DEF SinkStops
<1>2. /\ now' = e.ts /\ queue' = queue \ {e} /\ uid' = uid /\ running' = running
      /\ UNCHANGED <<config, client, sent, heard>>
      /\ sink' = [sink EXCEPT !.socket = Close(@)]
  BY <1>1 DEF Becomes, Dequeue, World, StopSink
<1>3. LoopInv'
  BY <1>2, DueIs DEF LoopInv
<1>4. sink \in [socket : Sockets, totalRx : Nat, lost : Nat, lastSeq : 0 .. MaxPackets]
  BY DEF Inv, SinkInv
<1>5. /\ sink' \in [socket : Sockets, totalRx : Nat, lost : Nat, lastSeq : 0 .. MaxPackets]
      /\ sink'.lost = sink.lost /\ sink'.lastSeq = sink.lastSeq
  BY <1>2, <1>4 DEF Sockets, Close
<1> QED BY <1>2, <1>3, <1>5, QuietStep

LEMMA SampleTakenKeeps ==
    ASSUME Inv, SampleTaken PROVE Inv'
<1>1. PICK e \in Due("RecordMetrics") : Becomes(RecordMetrics(Dequeue(World, e)))
  BY DEF SampleTaken
<1>2. /\ now' = e.ts /\ queue' = queue \ {e} /\ uid' = uid /\ running' = running
      /\ UNCHANGED <<config, client, sink, sent, heard>>
  BY <1>1 DEF Becomes, Dequeue, World, RecordMetrics
<1>3. LoopInv'
  BY <1>2, DueIs DEF LoopInv
<1> QED BY <1>2, <1>3, QuietStep DEF Inv, SinkInv

LEMMA AgentMigratesKeeps ==
    ASSUME Inv, AgentMigrates PROVE Inv'
<1>1. PICK e \in Due("TriggerAgentMigration") :
          Becomes(TriggerAgentMigration(Dequeue(World, e)))
  BY DEF AgentMigrates
<1>2. /\ now' = e.ts /\ uid' = uid + 1 /\ running' = running
      /\ queue' = (queue \ {e}) \cup {Event(e.ts + 10, uid, "RecordMetrics", << >>)}
      /\ UNCHANGED <<config, client, sink, sent, heard>>
  BY <1>1 DEF Becomes, Dequeue, World, TriggerAgentMigration, RecordMetrics, Schedule
<1>3. LoopInv'
  <2>1. QueueOK(queue \ {e}, uid) /\ e.ts + 10 \in Nat
    BY DueIs
  <2>2. QueueOK(queue', uid')
    BY <1>2, <2>1, ScheduledOK
  <2> QED BY <1>2, <2>2, DueIs DEF LoopInv
<1>4. \A f \in queue' : f.op \in {"SendPacket", "StartClient", "HandleRead"} => f \in queue
  BY <1>2 DEF Event
<1> QED BY <1>2, <1>3, <1>4, QuietStep DEF Inv, SinkInv

LEMMA LoopStopsKeeps ==
    ASSUME Inv, LoopStops PROVE Inv'
<1>1. PICK e \in Due("Stop") : Becomes(StopLoop(Dequeue(World, e)))
  BY DEF LoopStops
<1>2. /\ now' = e.ts /\ queue' = queue \ {e} /\ uid' = uid /\ running' = FALSE
      /\ UNCHANGED <<config, client, sink, sent, heard>>
  BY <1>1 DEF Becomes, Dequeue, World, StopLoop
<1>3. LoopInv'
  BY <1>2, DueIs DEF LoopInv
<1> QED BY <1>2, <1>3, QuietStep DEF Inv, SinkInv

\* The timer StopApplication cancels is the only one there can be.
LEMMA ClientStopsKeeps ==
    ASSUME Inv, ClientStops PROVE Inv'
<1>1. PICK e \in Due("StopClient") : Becomes(StopClient(Dequeue(World, e)))
  BY DEF ClientStops
<1>2. /\ now' = e.ts /\ uid' = uid /\ running' = running
      /\ queue' = {IF f.uid = client.timer THEN [f EXCEPT !.op = "Cancelled"] ELSE f :
                      f \in queue \ {e}}
      /\ client' = [client EXCEPT !.socket = Close(@)]
      /\ UNCHANGED <<config, sink, sent, heard>>
  BY <1>1 DEF Becomes, Dequeue, World, StopClient, Cancel
<1>3. /\ QueueOK(queue', uid')
      /\ \A f \in queue' : f.op # "Cancelled" => f \in queue /\ f.uid # client.timer
  <2>1. PICK q, id : q = queue \ {e} /\ id = client.timer
    OBVIOUS
  <2>2. PICK u : u = uid
    OBVIOUS
  <2>3. QueueOK(q, u)
    BY <2>1, <2>2, DueIs
  <2> QED BY <1>2, <2>1, <2>2, <2>3, CancelledOK
<1>4. LoopInv'
  BY <1>2, <1>3, DueIs DEF LoopInv
<1>5. client \in [socket : Sockets, sent : 0 .. MaxPackets, timer : Nat]
      /\ sent = 1 .. client.sent
  BY DEF Inv, ClientInv
<1>6. /\ client' \in [socket : Sockets, sent : 0 .. MaxPackets, timer : Nat]
      /\ client'.sent = client.sent /\ client'.timer = client.timer
  BY <1>2, <1>5 DEF Close, Sockets
<1>7. \A f \in queue' : f.op # "SendPacket"
  BY <1>3 DEF Inv, ClientInv
<1>8. ClientInv'
  BY <1>2, <1>3, <1>5, <1>6, <1>7 DEF Inv, ClientInv
<1>9. NetworkInv'
  BY <1>2, <1>3, <1>6 DEF Inv, NetworkInv
<1>10. SinkInv'
  <2>1. Missing' = Missing
    BY <1>2 DEF Missing, Highest
  <2> QED BY <1>2, <2>1 DEF Inv, SinkInv, LossesCounted, LossesExact
<1> QED BY <1>2, <1>4, <1>8, <1>9, <1>10 DEF Inv

\* ScheduleTx arms the timer unless the last packet has been sent.
LEMMA ScheduleTxDoes ==
    ASSUME NEW w, DOMAIN w = Fields
    PROVE  LET z == ScheduleTx(w)
           IN  /\ z.now = w.now /\ z.running = w.running /\ z.sink = w.sink
               /\ z.sent = w.sent /\ z.heard = w.heard
               /\ w.client.sent < MaxPackets =>
                    /\ z.queue = w.queue \cup
                          {Event(w.now + Interval, w.uid, "SendPacket", << >>)}
                    /\ z.uid = w.uid + 1
                    /\ z.client = [w.client EXCEPT !.timer = w.uid]
               /\ ~(w.client.sent < MaxPackets) =>
                    z.queue = w.queue /\ z.uid = w.uid /\ z.client = w.client
<1> DEFINE x == Schedule(w, Interval, "SendPacket", << >>)
<1>1. CASE w.client.sent < MaxPackets
  <2>1. /\ x.now = w.now /\ x.uid = w.uid + 1 /\ x.running = w.running
        /\ x.queue = w.queue \cup {Event(w.now + Interval, w.uid, "SendPacket", << >>)}
        /\ x.client = w.client /\ x.sink = w.sink
        /\ x.sent = w.sent /\ x.heard = w.heard /\ DOMAIN x = Fields
    BY DEF Schedule, Fields
  <2>2. ScheduleTx(w) = [x EXCEPT !.client.timer = w.uid]
    BY <1>1 DEF ScheduleTx
  <2> HIDE DEF x
  <2> QED BY <1>1, <2>1, <2>2 DEF Fields
<1>2. CASE ~(w.client.sent < MaxPackets)
  BY <1>2 DEF ScheduleTx
<1> QED BY <1>1, <1>2

LEMMA ClientStartsKeeps ==
    ASSUME Inv, ClientStarts PROVE Inv'
<1>1. PICK e \in Due("StartClient") : Becomes(StartClient(Dequeue(World, e)))
  BY DEF ClientStarts
<1> DEFINE armed == 0 < MaxPackets
           timer == Event(e.ts + Interval, uid, "SendPacket", << >>)
<1>2. /\ e \in queue /\ e.op = "StartClient"
      /\ e.ts \in Nat /\ uid \in Nat /\ running \in BOOLEAN
      /\ QueueOK(queue \ {e}, uid)
  BY <1>1, DueIs
<1>3. Interval \in Nat /\ MaxPackets \in Nat
  BY TrafficAssumption
<1>4. /\ client \in [socket : Sockets, sent : 0 .. MaxPackets, timer : Nat]
      /\ sent = 1 .. client.sent /\ client.sent = 0
      /\ \A f \in queue : f.op # "SendPacket" /\ (f.op = "StartClient" => f = e)
  BY <1>2 DEF Inv, ClientInv
<1>5. /\ now' = e.ts /\ running' = running
      /\ uid' = IF armed THEN uid + 1 ELSE uid
      /\ queue' = IF armed THEN (queue \ {e}) \cup {timer} ELSE queue \ {e}
      /\ client' = [socket |-> "open", sent |-> 0,
                    timer |-> IF armed THEN uid ELSE client.timer]
      /\ UNCHANGED <<config, sink, sent, heard>>
  <2> DEFINE w == Dequeue(World, e)
             v == [w EXCEPT !.client.socket = "open", !.client.sent = 0]
  <2>1. /\ w.now = e.ts /\ w.queue = queue \ {e} /\ w.uid = uid /\ w.running = running
        /\ w.client = client /\ w.sink = sink /\ w.sent = sent /\ w.heard = heard
        /\ DOMAIN w = Fields
    BY DEF Dequeue, World, Fields
  <2>2. Becomes(ScheduleTx(v))
    BY <1>1 DEF StartClient
  <2> HIDE DEF w
  <2>3. /\ v.now = e.ts /\ v.queue = queue \ {e} /\ v.uid = uid /\ v.running = running
        /\ v.client = [socket |-> "open", sent |-> 0, timer |-> client.timer]
        /\ v.sink = sink /\ v.sent = sent /\ v.heard = heard
        /\ DOMAIN v = Fields
    BY <1>4, <2>1 DEF Fields
  <2> HIDE DEF v
  <2> DEFINE z == ScheduleTx(v)
  <2>4. /\ z.now = v.now /\ z.running = v.running /\ z.sink = v.sink
        /\ z.sent = v.sent /\ z.heard = v.heard
        /\ v.client.sent < MaxPackets =>
              /\ z.queue = v.queue \cup
                    {Event(v.now + Interval, v.uid, "SendPacket", << >>)}
              /\ z.uid = v.uid + 1
              /\ z.client = [v.client EXCEPT !.timer = v.uid]
        /\ ~(v.client.sent < MaxPackets) =>
              z.queue = v.queue /\ z.uid = v.uid /\ z.client = v.client
    BY <2>3, ScheduleTxDoes
  <2> HIDE DEF z
  <2>5. Becomes(z)
    BY <2>2 DEF z
  <2> HIDE DEF timer
  <2>6. v.client.sent = 0
    BY <2>3
  <2>7. timer = Event(v.now + Interval, v.uid, "SendPacket", << >>)
    BY <2>3 DEF timer
  <2>8. z.queue = (IF armed THEN (queue \ {e}) \cup {timer} ELSE queue \ {e})
    BY <2>3, <2>4, <2>6, <2>7
  <2>9. z.uid = (IF armed THEN uid + 1 ELSE uid)
    BY <2>3, <2>4, <2>6
  <2>10. z.client = [socket |-> "open", sent |-> 0,
                    timer |-> IF armed THEN uid ELSE client.timer]
    BY <2>3, <2>4
  <2> QED BY <2>3, <2>4, <2>5, <2>10, <2>8, <2>9 DEF Becomes
<1>6. LoopInv'
  <2>1. e.ts + Interval \in Nat
    BY <1>2, <1>3
  <2>2. QueueOK((queue \ {e}) \cup {timer}, uid + 1)
    BY <1>2, <2>1, ScheduledOK
  <2>3. QueueOK(queue', uid')
    BY <1>2, <1>5, <2>2
  <2> QED BY <1>2, <1>5, <2>3 DEF LoopInv
<1>7. /\ client' \in [socket : Sockets, sent : 0 .. MaxPackets, timer : Nat]
      /\ client'.sent = client.sent /\ client'.socket = "open"
      /\ armed => client'.timer = uid
  BY <1>2, <1>3, <1>4, <1>5 DEF Sockets
<1>8. /\ timer.op = "SendPacket" /\ timer.uid = uid
      /\ \A f \in queue' : f \in queue \ {e} \/ (armed /\ f = timer)
  BY <1>5 DEF Event
<1> HIDE DEF timer
<1>9. ClientInv'
  BY <1>3, <1>4, <1>7, <1>8, <1>5 DEF ClientInv
<1>10. NetworkInv'
  <2>1. \A f \in queue' : f.op = "HandleRead" => f \in queue
    BY <1>8
  <2> QED BY <1>5, <1>7, <2>1 DEF Inv, NetworkInv
<1>11. SinkInv'
  <2>1. Missing' = Missing
    BY <1>5 DEF Missing, Highest
  <2> QED BY <1>5, <2>1 DEF Inv, SinkInv, LossesCounted, LossesExact
<1> QED BY <1>5, <1>6, <1>9, <1>10, <1>11 DEF Inv

\* The sink, whose socket may be closed, reads a packet that was on its way.
LEMMA PacketArrivesKeeps ==
    ASSUME Inv, PacketArrives PROVE Inv'
<1>1. PICK e \in Due("HandleRead") : Becomes(HandleRead(Dequeue(World, e), e.arg[1]))
  BY DEF PacketArrives
<1> DEFINE n == e.arg[1]
<1>2. CASE sink.socket # "open"
  <2>1. /\ now' = e.ts /\ queue' = queue \ {e} /\ uid' = uid /\ running' = running
        /\ UNCHANGED <<config, client, sink, sent, heard>>
    BY <1>1, <1>2 DEF Becomes, Dequeue, World, HandleRead
  <2>2. LoopInv'
    BY <2>1, DueIs DEF LoopInv
  <2> QED BY <2>1, <2>2, QuietStep DEF Inv, SinkInv
<1>3. CASE sink.socket = "open"
  <2>1. /\ now' = e.ts /\ queue' = queue \ {e} /\ uid' = uid /\ running' = running
        /\ UNCHANGED <<config, client, sent>>
        /\ sink' = [sink EXCEPT !.totalRx = @ + PacketSize,
                                !.lost = @ + Skipped(sink, n), !.lastSeq = n]
        /\ heard' = [first |-> IF heard.all = {} THEN n ELSE heard.first,
                     all |-> heard.all \cup {n}]
    BY <1>1, <1>3 DEF Becomes, Dequeue, World, HandleRead
  <2>2. LoopInv'
    BY <2>1, DueIs DEF LoopInv
  <2>3. /\ sink \in [socket : Sockets, totalRx : Nat, lost : Nat, lastSeq : 0 .. MaxPackets]
        /\ SinkInv /\ NetworkInv /\ ClientInv
        /\ MaxPackets \in Nat /\ PacketSize \in Nat
        /\ sent = 1 .. client.sent /\ client.sent \in 0 .. MaxPackets
    BY TrafficAssumption DEF Inv, SinkInv, ClientInv
  <2>4. n \in 1 .. client.sent
    BY <2>3, DueIs DEF NetworkInv
  <2>5. n \in 1 .. MaxPackets /\ sent \subseteq Nat \ {0} /\ n \in sent
    BY <2>3, <2>4
  <2>6. config.inOrder => \A k \in heard.all : k < n
    BY <2>3, DueIs DEF NetworkInv
  <2>7. sink'.lost = sink.lost + Skipped(sink, n) /\ sink'.lastSeq = n
    BY <2>1, <2>3
  <2>8. /\ heard'.first \in heard'.all
        /\ \E h \in heard'.all : \A k \in heard'.all : k <= h
        /\ sink'.lost \in Nat
        /\ config'.inOrder => \A k \in heard'.all : k <= n
        /\ LossesCounted' /\ LossesExact'
    <3> HIDE DEF n
    <3>1. PICK m : m = n
      OBVIOUS
    <3> QED BY <2>1, <2>3, <2>5, <2>6, <2>7, <3>1, HeardCounts
  <2>9. sink' \in [socket : Sockets, totalRx : Nat, lost : Nat, lastSeq : 0 .. MaxPackets]
    <3>1. sink.totalRx + PacketSize \in Nat
      BY <2>3
    <3>2. n \in 0 .. MaxPackets
      BY <2>3, <2>5
    <3> HIDE DEF n
    <3>3. sink' = [socket |-> sink.socket, totalRx |-> sink.totalRx + PacketSize,
                   lost |-> sink'.lost, lastSeq |-> n]
      BY <2>1, <2>3
    <3> QED BY <2>3, <2>8, <3>1, <3>2, <3>3
  <2>10. SinkInv'
    <3>1. heard'.all = heard.all \cup {n} /\ heard'.all # {}
      BY <2>1
    <3>2. heard'.all \subseteq sent' /\ sink'.lastSeq \in heard'.all
      BY <2>1, <2>3, <2>5, <2>7, <3>1 DEF SinkInv
    <3>3. config'.inOrder => \A k \in heard'.all : k <= sink'.lastSeq
      BY <2>7, <2>8
    <3> QED BY <2>8, <2>9, <3>1, <3>2, <3>3 DEF SinkInv
  <2>11. ClientInv'
    BY <2>1, <2>3 DEF ClientInv
  <2>12. NetworkInv'
    <3>1. \A f \in queue' : f \in queue /\ f # e
      BY <2>1
    <3>2. ASSUME config.inOrder, NEW f \in queue', f.op = "HandleRead"
          PROVE  n < f.arg[1]
      <4>1. Precedes(e, f) /\ f.ts \in Nat /\ f.uid \in Nat /\ e.ts \in Nat /\ e.uid \in Nat
        BY <3>1, DueIs DEF QueueOK
      <4>2. ~Precedes(f, e)
        BY <4>1 DEF Precedes
      <4>3. ~(f.arg[1] <= n)
        BY ZenonT(30), <2>3, <3>1, <3>2, <4>2, DueIs DEF NetworkInv
      <4>4. f.arg[1] \in 1 .. client.sent
        BY <2>3, <3>1, <3>2 DEF NetworkInv
      <4> QED BY <2>3, <2>4, <4>3, <4>4
    <3> QED BY <2>1, <2>3, <3>1, <3>2 DEF NetworkInv
  <2> QED BY <2>1, <2>2, <2>10, <2>11, <2>12 DEF Inv
<1> QED BY <1>2, <1>3

\* The timer that fires was armed while the socket was open and is the only one,
\* so the number that m_sent passes is given to the network; a network that
\* keeps the order puts the packet behind those on their way.
LEMMA PacketSentKeeps ==
    ASSUME Inv, PacketSent PROVE Inv'
<1>1. PICK e \in Due("SendPacket") :
          \E fate \in Fates(Dequeue(World, e)) :
              Becomes(SendPacket(Dequeue(World, e), fate))
  BY DEF PacketSent
<1>2. PICK fate \in Fates(Dequeue(World, e)) : Becomes(SendPacket(Dequeue(World, e), fate))
  BY <1>1
<1> DEFINE n == client.sent + 1
           kept == queue \ {e}
           arrival == Event(e.ts + fate, uid, "HandleRead", <<n, e.ts>>)
           pending == IF fate = Lost THEN kept ELSE kept \cup {arrival}
           next == IF fate = Lost THEN uid ELSE uid + 1
           armed == n < MaxPackets
           timer == Event(e.ts + Interval, next, "SendPacket", << >>)
<1>3. /\ e \in queue /\ e.op = "SendPacket"
      /\ e.ts \in Nat /\ uid \in Nat /\ running \in BOOLEAN
      /\ QueueOK(queue, uid) /\ QueueOK(kept, uid)
  BY <1>1, DueIs
<1>4. /\ Interval \in Nat /\ MaxPackets \in Nat
      /\ fate # Lost => /\ fate \in Nat
                        /\ config.inOrder => \A f \in kept :
                              f.op = "HandleRead" => f.ts <= e.ts + fate
  <2>1. /\ Dequeue(World, e).queue = kept /\ Dequeue(World, e).now = e.ts
    BY DEF Dequeue, World
  <2> QED BY <1>2, <2>1, TrafficAssumption DEF Fates
<1>5. /\ client \in [socket : Sockets, sent : 0 .. MaxPackets, timer : Nat]
      /\ sent = 1 .. client.sent /\ client.sent < MaxPackets
      /\ client.socket = "open" /\ e.uid = client.timer
  BY <1>3 DEF Inv, ClientInv
<1>6. \A f \in kept : f.op # "SendPacket" /\ f.op # "StartClient"
  BY <1>3, <1>5 DEF Inv, ClientInv, QueueOK
<1>7. /\ now' = e.ts /\ running' = running
      /\ queue' = (IF armed THEN pending \cup {timer} ELSE pending)
      /\ uid' = (IF armed THEN next + 1 ELSE next)
      /\ client' = [socket |-> "open", sent |-> n,
                    timer |-> IF armed THEN next ELSE client.timer]
      /\ sent' = sent \cup {n}
      /\ UNCHANGED <<config, sink, heard>>
  <2> DEFINE w == Dequeue(World, e)
             x == Send(w, n, fate)
             y == [x EXCEPT !.client.sent = @ + 1]
             z == ScheduleTx(y)
  <2>1. /\ w.now = e.ts /\ w.queue = kept /\ w.uid = uid /\ w.running = running
        /\ w.client = client /\ w.sink = sink /\ w.sent = sent /\ w.heard = heard
        /\ DOMAIN w = Fields
    BY DEF Dequeue, World, Fields
  <2>2. Becomes(z)
    BY <1>2, <2>1 DEF SendPacket
  <2> HIDE DEF w, z
  <2>3. /\ x.now = e.ts /\ x.queue = pending /\ x.uid = next /\ x.running = running
        /\ x.client = client /\ x.sink = sink /\ x.sent = sent \cup {n} /\ x.heard = heard
        /\ DOMAIN x = Fields
    <3> DEFINE onWire == [w EXCEPT !.sent = @ \cup {n}]
    <3>1. /\ onWire.now = e.ts /\ onWire.queue = kept /\ onWire.uid = uid
          /\ onWire.running = running /\ onWire.client = client /\ onWire.sink = sink
          /\ onWire.sent = sent \cup {n} /\ onWire.heard = heard
          /\ DOMAIN onWire = Fields
      BY <2>1 DEF Fields
    <3>2. x = IF fate = Lost THEN onWire
              ELSE Schedule(onWire, fate, "HandleRead", <<n, w.now>>)
      BY <1>5, <2>1 DEF Send
    <3> HIDE DEF onWire, x
    <3>3. CASE fate = Lost
      BY <3>1, <3>2, <3>3
    <3>4. CASE fate # Lost
      BY <2>1, <3>1, <3>2, <3>4 DEF Schedule, Fields
    <3> QED BY <3>3, <3>4
  <2> HIDE DEF x
  <2>4. /\ y.now = e.ts /\ y.queue = pending /\ y.uid = next /\ y.running = running
        /\ y.client = [socket |-> "open", sent |-> n, timer |-> client.timer]
        /\ y.sink = sink /\ y.sent = sent \cup {n} /\ y.heard = heard
        /\ DOMAIN y = Fields
    BY <1>5, <2>3 DEF Fields
  <2> HIDE DEF y
  <2>5. /\ z.now = y.now /\ z.running = y.running /\ z.sink = y.sink
        /\ z.sent = y.sent /\ z.heard = y.heard
        /\ y.client.sent < MaxPackets =>
              /\ z.queue = y.queue \cup
                    {Event(y.now + Interval, y.uid, "SendPacket", << >>)}
              /\ z.uid = y.uid + 1
              /\ z.client = [y.client EXCEPT !.timer = y.uid]
        /\ ~(y.client.sent < MaxPackets) =>
              z.queue = y.queue /\ z.uid = y.uid /\ z.client = y.client
    BY <2>4, ScheduleTxDoes DEF z
  <2>6. y.client.sent = n
    BY <2>4
  <2>7. timer = Event(y.now + Interval, y.uid, "SendPacket", << >>)
    BY <2>4
  <2> HIDE DEF timer, pending, next
  <2>8. z.queue = (IF armed THEN pending \cup {timer} ELSE pending)
    BY <2>4, <2>5, <2>6, <2>7
  <2>9. z.uid = (IF armed THEN next + 1 ELSE next)
    BY <2>4, <2>5, <2>6
  <2>10. z.client = [socket |-> "open", sent |-> n,
                     timer |-> IF armed THEN next ELSE client.timer]
    BY <2>4, <2>5, <2>6
  <2> QED BY <2>2, <2>4, <2>5, <2>8, <2>9, <2>10 DEF Becomes
<1>8. QueueOK(pending, next) /\ next \in Nat
  <2>1. CASE fate = Lost
    BY <1>3, <2>1
  <2>2. CASE fate # Lost
    <3>1. e.ts + fate \in Nat
      BY <1>3, <1>4, <2>2
    <3>2. QueueOK(kept \cup {arrival}, uid + 1)
      BY <1>3, <3>1, ScheduledOK
    <3> QED BY <1>3, <2>2, <3>2
  <2> QED BY <2>1, <2>2
<1>9. /\ timer.op = "SendPacket" /\ timer.uid = next
      /\ arrival.op = "HandleRead" /\ arrival.uid = uid /\ arrival.ts = e.ts + fate
      /\ arrival.arg[1] = n
  BY DEF Event
<1>10. LoopInv'
  <2>1. e.ts + Interval \in Nat
    BY <1>3, <1>4
  <2> HIDE DEF pending, next
  <2>2. QueueOK(pending \cup {timer}, next + 1)
    BY <1>8, <2>1, ScheduledOK
  <2> HIDE DEF timer
  <2>3. QueueOK(queue', uid')
    BY <1>7, <1>8, <2>2
  <2> QED BY <1>3, <1>7, <2>3 DEF LoopInv
<1>11. /\ n \in 1 .. MaxPackets /\ n = client.sent + 1 /\ client.sent \in Nat
       /\ sent' = 1 .. n
  BY <1>4, <1>5, <1>7
<1>12. \A f \in queue' : \/ f \in kept
                         \/ fate # Lost /\ f = arrival
                         \/ armed /\ f = timer
  BY <1>7
<1>13. client'.sent = n /\ client'.socket = "open" /\ (armed => client'.timer = next)
  BY <1>7
<1> HIDE DEF timer, arrival
<1>14. ClientInv'
  <2>1. client' \in [socket : Sockets, sent : 0 .. MaxPackets, timer : Nat]
    BY <1>4, <1>5, <1>7, <1>8, <1>11 DEF Sockets
  <2>2. \A f \in queue' : /\ f.op # "StartClient"
                          /\ f.op = "SendPacket" => armed /\ f = timer
    BY <1>6, <1>9, <1>12
  <2> QED BY <1>9, <1>11, <1>13, <2>1, <2>2 DEF ClientInv
<1>15. NetworkInv'
  <2>1. \A f \in queue' : f.op = "HandleRead" =>
            f \in kept \/ (fate # Lost /\ f = arrival)
    BY <1>9, <1>12
  <2>2. \A f \in kept : f.op = "HandleRead" => f \in queue /\ f.arg[1] \in 1 .. client.sent
    BY DEF Inv, NetworkInv
  <2>3. \A f \in queue' : f.op = "HandleRead" => f.arg[1] \in 1 .. client'.sent
    BY <1>9, <1>11, <1>13, <2>1, <2>2
  <2>4. \A k \in heard.all : k \in Nat /\ k < n
    BY <1>5, <1>11 DEF Inv, SinkInv
  <2>5. ASSUME config.inOrder, fate # Lost, NEW f \in kept, f.op = "HandleRead"
        PROVE  Precedes(f, arrival) /\ ~(n <= f.arg[1])
    <3>1. f.ts <= e.ts + fate /\ f.ts \in Nat /\ f.uid < uid
      BY <1>3, <1>4, <2>5 DEF QueueOK
    <3>2. f.arg[1] \in 1 .. client.sent
      BY <2>2, <2>5
    <3> QED BY <1>3, <1>4, <1>9, <1>11, <2>5, <3>1, <3>2 DEF Precedes
  <2>6. ASSUME config'.inOrder
        PROVE  \A f \in queue' : f.op = "HandleRead" =>
                  \A k \in heard'.all : k < f.arg[1]
    BY <1>7, <1>9, <2>1, <2>2, <2>4, <2>6 DEF Inv, NetworkInv
  <2>7. ASSUME config'.inOrder, NEW f \in queue', NEW g \in queue',
               f.op = "HandleRead", g.op = "HandleRead", f.arg[1] <= g.arg[1]
        PROVE  f = g \/ Precedes(f, g)
    <3>1. config.inOrder
      BY <1>7, <2>7
    <3>2. CASE f \in kept /\ g \in kept
      BY <2>2, <2>7, <3>1, <3>2 DEF Inv, NetworkInv
    <3>3. CASE f \in kept /\ fate # Lost /\ g = arrival
      BY <2>5, <2>7, <3>1, <3>3
    <3>4. CASE g \in kept /\ fate # Lost /\ f = arrival
      BY <1>9, <2>5, <2>7, <3>1, <3>4
    <3> QED BY <2>1, <2>7, <3>2, <3>3, <3>4
  <2> QED BY <2>3, <2>6, <2>7 DEF NetworkInv
<1>16. SinkInv'
  <2>1. Missing' = Missing
    BY <1>7 DEF Missing, Highest
  <2>2. heard'.all \subseteq sent'
    BY <1>7 DEF Inv, SinkInv
  <2> QED BY <1>7, <2>1, <2>2 DEF Inv, SinkInv, LossesCounted, LossesExact
<1> QED BY <1>7, <1>10, <1>14, <1>15, <1>16 DEF Inv

---------------------------------------------------------------------------
(* The calls main and the applications schedule before the loop runs       *)

QuietCalls == Nat \X {"RecordMetrics", "TriggerAgentMigration", "Stop", "StartSink", "StopSink"}

\* One call that starts an application, and at most one that stops it
LEMMA ApplicationIs ==
    ASSUME NEW start \in Nat, NEW stop \in Nat, NEW startOp, NEW stopOp
    PROVE  LET a == Application(start, stop, startOp, stopOp)
           IN  /\ a \in Seq(Nat \X {startOp, stopOp}) /\ Len(a) \in {1, 2}
               /\ Len(a) = 2 => a[2] \in Nat \X {stopOp}
<1> DEFINE S == Nat \X {startOp, stopOp}
           x == <<start, startOp>>
           y == <<stop, stopOp>>
<1>1. x \in S /\ y \in S
  OBVIOUS
<1>2. Application(start, stop, startOp, stopOp)
        = <<x>> \o (IF stop # 0 THEN <<y>> ELSE << >>)
  BY DEF Application
<1> HIDE DEF S, x, y
<1>3. CASE stop # 0
  <2> DEFINE l == <<x>>
             r == <<y>>
  <2>1. l \in Seq(S) /\ r \in Seq(S) /\ Len(l) = 1 /\ Len(r) = 1 /\ l[1] = x /\ r[1] = y
    BY <1>1
  <2>2. Application(start, stop, startOp, stopOp) = l \o r
    BY <1>2, <1>3
  <2> HIDE DEF l, r
  <2>3. /\ l \o r \in Seq(S) /\ Len(l \o r) = 2
        /\ \A i \in 1 .. 2 : (l \o r)[i] = IF i <= 1 THEN l[i] ELSE r[i - 1]
    BY <2>1, ConcatProperties
  <2>4. (l \o r)[1] = x /\ (l \o r)[2] = y
    BY <2>1, <2>3
  <2> QED BY <2>2, <2>3, <2>4 DEF S, x, y
<1>4. CASE stop = 0
  <2>1. <<x>> \o << >> = <<x>>
    BY <1>1
  <2> QED BY <1>1, <1>2, <1>4, <2>1 DEF S, x, y
<1> QED BY <1>3, <1>4

\* No packet is sent or read by an initial call, and the client starts once.
LEMMA InitialCallsAre ==
    ASSUME NEW c \in Schedules
    PROVE  LET calls == InitialCalls(c)
           IN  /\ Len(calls) \in Nat /\ DOMAIN calls = 1 .. Len(calls)
               /\ \A i \in DOMAIN calls :
                     calls[i][1] \in Nat /\ calls[i][2] \notin {"SendPacket", "HandleRead"}
               /\ \A i, j \in DOMAIN calls :
                     calls[i][2] = "StartClient" /\ calls[j][2] = "StartClient" => i = j
<1>1. /\ c.clientStart \in Nat /\ c.clientStop \in Nat
      /\ c.sinkStart \in Nat /\ c.sinkStop \in Nat
      /\ c.migration \in Nat /\ c.end \in Nat /\ c.periodic \in Seq(Nat)
  <2>1. c \in [clientStart : Nat, clientStop : Nat, sinkStart : Nat, sinkStop : Nat,
               migration : Nat, periodic : Seq(Nat), end : Nat, inOrder : BOOLEAN]
    BY TrafficAssumption
  <2> QED BY <2>1
<1> DEFINE p == [i \in DOMAIN c.periodic |-> <<c.periodic[i], "RecordMetrics">>]
           m == <<<<c.migration, "TriggerAgentMigration">>, <<c.end, "Stop">>>>
           s == Application(c.sinkStart, c.sinkStop, "StartSink", "StopSink")
           a == Application(c.clientStart, c.clientStop, "StartClient", "StopClient")
           b == p \o m \o s
<1>2. p \in Seq(QuietCalls)
  <2> DEFINE k == Len(c.periodic)
  <2>1. k \in Nat /\ DOMAIN c.periodic = 1 .. k /\ \A i \in 1 .. k : c.periodic[i] \in Nat
    BY SMTT(30), <1>1
  <2>2. p = [i \in 1 .. k |-> <<c.periodic[i], "RecordMetrics">>]
    BY <2>1
  <2>3. \A i \in 1 .. k : <<c.periodic[i], "RecordMetrics">> \in QuietCalls
    BY <2>1 DEF QuietCalls
  <2> HIDE DEF k, p
  <2> QED BY <2>1, <2>2, <2>3
<1>3. m \in Seq(QuietCalls)
  <2>1. /\ <<c.migration, "TriggerAgentMigration">> \in QuietCalls
        /\ <<c.end, "Stop">> \in QuietCalls
    BY <1>1 DEF QuietCalls
  <2> QED BY <2>1
<1>4. s \in Seq(QuietCalls)
  <2>1. s \in Seq(Nat \X {"StartSink", "StopSink"})
    BY <1>1, ApplicationIs
  <2>2. Nat \X {"StartSink", "StopSink"} \subseteq QuietCalls
    BY DEF QuietCalls
  <2> HIDE DEF s
  <2> QED BY <2>1, <2>2
<1>5. a \in Seq(Nat \X {"StartClient", "StopClient"}) /\ Len(a) \in {1, 2}
  <2> HIDE DEF p, m, s
  <2> QED BY <1>1, ApplicationIs
<1>6. Len(a) = 2 => a[2] \in Nat \X {"StopClient"}
  <2> HIDE DEF p, m, s
  <2> QED BY <1>1, ApplicationIs
<1>7. InitialCalls(c) = b \o a
  <2> DEFINE AnyCalls == QuietCalls \cup (Nat \X {"StartClient", "StopClient"})
  <2>1. /\ p \in Seq(AnyCalls) /\ m \in Seq(AnyCalls)
        /\ s \in Seq(AnyCalls) /\ a \in Seq(AnyCalls)
    <3> HIDE DEF p, m, s, a
    <3> QED BY <1>2, <1>3, <1>4, <1>5
  <2>2. InitialCalls(c) = p \o m \o s \o a
    BY DEF InitialCalls
  <2> QED BY <2>2
<1> HIDE DEF p, m, s, a
<1>8. b \in Seq(QuietCalls)
  BY <1>2, <1>3, <1>4
<1> HIDE DEF b
<1> DEFINE calls == b \o a
<1>9. /\ Len(calls) = Len(b) + Len(a) /\ DOMAIN calls = 1 .. Len(calls)
      /\ Len(b) \in Nat
      /\ \A i \in 1 .. Len(b) : calls[i] = b[i] /\ b[i] \in QuietCalls
      /\ \A i \in 1 .. Len(a) : calls[Len(b) + i] = a[i]
  <2> DEFINE AnyCalls == QuietCalls \cup (Nat \X {"StartClient", "StopClient"})
  <2>1. a \in Seq(AnyCalls) /\ b \in Seq(AnyCalls)
    BY <1>5, <1>8
  <2>2. /\ calls \in Seq(AnyCalls) /\ Len(calls) = Len(b) + Len(a)
        /\ \A i \in 1 .. Len(b) + Len(a) :
              calls[i] = IF i <= Len(b) THEN b[i] ELSE a[i - Len(b)]
    BY <2>1, ConcatProperties
  <2> HIDE DEF AnyCalls, calls
  <2>3. /\ Len(b) \in Nat /\ Len(a) \in Nat /\ DOMAIN calls = 1 .. Len(calls)
        /\ \A i \in 1 .. Len(b) : b[i] \in QuietCalls
    BY <1>5, <1>8, <2>2, LenProperties
  <2>4. \A i \in 1 .. Len(b) : calls[i] = b[i]
    BY <2>2, <2>3
  <2>5. ASSUME NEW i \in 1 .. Len(a) PROVE calls[Len(b) + i] = a[i]
    <3>1. Len(b) + i \in 1 .. Len(b) + Len(a) /\ ~(Len(b) + i <= Len(b))
          /\ (Len(b) + i) - Len(b) = i
      BY <2>3
    <3> QED BY <2>2, <3>1
  <2> QED BY <2>2, <2>3, <2>4, <2>5
<1> HIDE DEF calls
<1>10. \A i \in DOMAIN calls : \/ i \in 1 .. Len(b) \/ i = Len(b) + 1
                             \/ (Len(a) = 2 /\ i = Len(b) + 2)
  <2>1. Len(a) = 1 \/ Len(a) = 2
    BY <1>5
  <2>2. DOMAIN calls = 1 .. (Len(b) + Len(a)) /\ Len(b) \in Nat
    BY <1>9
  <2> HIDE DEF calls
  <2>3. CASE Len(a) = 1
    BY <2>2, <2>3
  <2>4. CASE Len(a) = 2
    <3>1. DOMAIN calls = 1 .. (Len(b) + 2)
      BY <2>2, <2>4
    <3>2. \A i \in 1 .. (Len(b) + 2) : i \in 1 .. Len(b) \/ i = Len(b) + 1 \/ i = Len(b) + 2
      BY <2>2
    <3> QED BY <2>4, <3>1, <3>2
  <2> QED BY <2>1, <2>3, <2>4
<1>11. /\ \A i \in 1 .. Len(b) :
             calls[i][1] \in Nat
             /\ calls[i][2] \notin {"SendPacket", "HandleRead", "StartClient"}
       /\ \A i \in 1 .. Len(a) :
             /\ calls[Len(b) + i][1] \in Nat
             /\ calls[Len(b) + i][2] \in {"StartClient", "StopClient"}
       /\ Len(a) = 2 => calls[Len(b) + 2][2] = "StopClient"
  <2>1. \A q \in QuietCalls :
            q[1] \in Nat /\ q[2] \notin {"SendPacket", "HandleRead", "StartClient"}
    BY DEF QuietCalls
  <2>2. \A q \in Nat \X {"StartClient", "StopClient"} :
            q[1] \in Nat /\ q[2] \in {"StartClient", "StopClient"}
    OBVIOUS
  <2>3. \A i \in 1 .. Len(a) : a[i] \in Nat \X {"StartClient", "StopClient"}
    BY <1>5
  <2>4. Len(a) = 2 => 2 \in 1 .. Len(a)
    OBVIOUS
  <2> QED BY <1>9, <1>6, <2>1, <2>2, <2>3, <2>4
<1>12. \A i \in DOMAIN calls :
          calls[i][1] \in Nat /\ calls[i][2] \notin {"SendPacket", "HandleRead"}
  <2>1. 1 \in 1 .. Len(a) /\ (Len(a) = 2 => 2 \in 1 .. Len(a))
    BY SMTT(30), <1>5
  <2> QED BY <1>10, <1>11, <2>1
<1>13. \A i \in DOMAIN calls : calls[i][2] = "StartClient" => i = Len(b) + 1
  BY <1>10, <1>11
<1>14. Len(calls) \in Nat
  BY <1>5, <1>9
<1> QED BY <1>7, <1>9, <1>12, <1>13, <1>14 DEF calls

LEMMA InitInv ==
    Init => Inv
<1> SUFFICES ASSUME Init PROVE Inv
  OBVIOUS
<1> DEFINE calls == InitialCalls(config)
<1>1. /\ config \in Schedules /\ now = 0 /\ running = TRUE
      /\ queue = {Event(calls[i][1], FirstUid + i - 1, calls[i][2], << >>) :
                    i \in DOMAIN calls}
      /\ uid = FirstUid + Len(calls)
      /\ client = [socket |-> "none", sent |-> 0, timer |-> NoTimer]
      /\ sink = [socket |-> "none", totalRx |-> 0, lost |-> 0, lastSeq |-> 0]
      /\ sent = {} /\ heard = [first |-> 0, all |-> {}]
  BY DEF Init
<1>2. /\ Len(calls) \in Nat /\ DOMAIN calls = 1 .. Len(calls)
      /\ \A i \in DOMAIN calls :
            calls[i][1] \in Nat /\ calls[i][2] \notin {"SendPacket", "HandleRead"}
      /\ \A i, j \in DOMAIN calls :
            calls[i][2] = "StartClient" /\ calls[j][2] = "StartClient" => i = j
  BY <1>1, InitialCallsAre
<1> HIDE DEF calls
<1>3. /\ QueueOK(queue, uid)
      /\ \A e \in queue : e.op \notin {"SendPacket", "HandleRead"}
      /\ \A e, f \in queue : e.op = "StartClient" /\ f.op = "StartClient" => e = f
  <2>1. \A i \in 1 .. Len(calls) :
            LET e == Event(calls[i][1], FirstUid + i - 1, calls[i][2], << >>)
            IN  e.ts = calls[i][1] /\ e.uid = FirstUid + i - 1 /\ e.op = calls[i][2]
    BY DEF Event
  <2>2. ASSUME NEW e \in queue
        PROVE  \E i \in 1 .. Len(calls) :
                  /\ e = Event(calls[i][1], FirstUid + i - 1, calls[i][2], << >>)
                  /\ e.ts = calls[i][1] /\ e.uid = FirstUid + i - 1 /\ e.op = calls[i][2]
    BY <1>1, <1>2, <2>1
  <2>3. uid \in Nat /\ \A i \in 1 .. Len(calls) : FirstUid + i - 1 \in Nat /\ FirstUid + i - 1 < uid
    BY <1>1, <1>2 DEF FirstUid
  <2>4. ASSUME NEW e \in queue
        PROVE  /\ e.ts \in Nat /\ e.uid \in Nat /\ e.uid < uid
               /\ e.op \notin {"SendPacket", "HandleRead"}
    BY <1>2, <2>2, <2>3
  <2>5. ASSUME NEW e \in queue, NEW f \in queue,
               e.uid = f.uid \/ (e.op = "StartClient" /\ f.op = "StartClient")
        PROVE  e = f
    <3>1. PICK i \in 1 .. Len(calls) :
              /\ e = Event(calls[i][1], FirstUid + i - 1, calls[i][2], << >>)
              /\ e.uid = FirstUid + i - 1 /\ e.op = calls[i][2]
      BY <2>2
    <3>2. PICK j \in 1 .. Len(calls) :
              /\ f = Event(calls[j][1], FirstUid + j - 1, calls[j][2], << >>)
              /\ f.uid = FirstUid + j - 1 /\ f.op = calls[j][2]
      BY <2>2
    <3>3. i = j
      BY <1>2, <2>5, <3>1, <3>2 DEF FirstUid
    <3> QED BY <3>1, <3>2, <3>3
  <2> QED BY <2>3, <2>4, <2>5 DEF QueueOK
<1>4. LoopInv
  BY <1>1, <1>3 DEF LoopInv
<1>5. ClientInv
  <2>1. /\ client \in [socket : Sockets, sent : 0 .. MaxPackets, timer : Nat]
        /\ client.sent = 0
    BY <1>1, TrafficAssumption DEF Sockets, NoTimer
  <2>2. sent = 1 .. client.sent
    BY <1>1, <2>1
  <2> QED BY <1>3, <2>1, <2>2 DEF ClientInv
<1>6. NetworkInv
  BY <1>1, <1>3 DEF NetworkInv
<1>7. SinkInv
  <2>1. Missing = {}
    BY <1>1 DEF Missing
  <2> QED BY <1>1, <2>1, FS_EmptySet, TrafficAssumption
          DEF SinkInv, LossesCounted, LossesExact, Sockets
<1> QED BY <1>1, <1>4, <1>5, <1>6, <1>7 DEF Inv

LEMMA NextInv ==
    Inv /\ [Next]_vars => Inv'
<1> SUFFICES ASSUME Inv, [Next]_vars PROVE Inv'
  OBVIOUS
<1>1. CASE UNCHANGED vars
  <2>1. Missing' = Missing
    BY <1>1 DEF Missing, Highest, vars, trafficVars
  <2> QED BY <1>1, <2>1 DEF Inv, LoopInv, ClientInv, NetworkInv, SinkInv,
                            LossesCounted, LossesExact, vars, trafficVars, simulatorVars
<1> QED BY <1>1, ClientStartsKeeps, ClientStopsKeeps, PacketSentKeeps,
           CancelledEventRunsKeeps, SinkStartsKeeps, SinkStopsKeeps,
           PacketArrivesKeeps, SampleTakenKeeps, AgentMigratesKeeps, LoopStopsKeeps
        DEF Next, Finished

LEMMA Invariance ==
    Spec => []Inv
BY InitInv, NextInv, PTL DEF Spec

---------------------------------------------------------------------------
(* The bytes of the samples                                                *)

\* What holds of 0, and of n + 1 when it holds of n, holds of every n.
LEMMA NatSet ==
    ASSUME NEW S, 0 \in S, \A n \in Nat : n \in S => n + 1 \in S
    PROVE  Nat \subseteq S
<1> DEFINE R == OpToRel(<, Nat)
           T == Nat \ S
<1> SUFFICES ASSUME T # {} PROVE FALSE
  OBVIOUS
<1>1. IsWellFoundedOn(R, Nat) /\ T \subseteq Nat
  BY NatLessThanWellFounded
<1>2. \A x, y \in Nat : y < x => <<y, x>> \in R
  BY DEF OpToRel
<1> HIDE DEF R
<1>3. \E x \in T : \A y \in T : ~ (<<y, x>> \in R)
  BY <1>1, WFMin
<1>4. PICK x \in T : \A y \in T : ~ (<<y, x>> \in R)
  BY <1>3
<1>5. x # 0 /\ x - 1 \in Nat /\ x - 1 < x
  OBVIOUS
<1>6. x - 1 \in S
  BY <1>2, <1>4, <1>5
<1> QED BY <1>5, <1>6

\* t[i] is what the first i samples of s add up to.
IsTotal(t, s, n) ==
    t = [i \in 0 .. n |-> IF i = 0 THEN 0 ELSE t[i - 1] + s[i].bytes]

LEMMA TotalExists ==
    ASSUME NEW s, NEW n \in Nat PROVE \E t : IsTotal(t, s, n)
<1> DEFINE S == {k \in Nat : \E t : IsTotal(t, s, k)}
<1>1. 0 \in S
  <2> DEFINE t == [i \in 0 .. 0 |-> 0]
  <2>1. IsTotal(t, s, 0)
    BY DEF IsTotal
  <2> QED BY <2>1
<1>2. ASSUME NEW k \in Nat, k \in S PROVE k + 1 \in S
  <2>1. PICK t : IsTotal(t, s, k)
    BY <1>2
  <2> DEFINE next(f, i) == IF i = 0 THEN 0 ELSE f[i - 1] + s[i].bytes
             u == [i \in 0 .. k + 1 |-> next(t, i)]
  <2>2. \A i \in 0 .. k : t[i] = next(t, i)
    BY <2>1 DEF IsTotal
  <2>3. \A i \in 0 .. k : u[i] = t[i]
    BY <2>2
  <2>4. \A i \in 0 .. k + 1 : i # 0 => i - 1 \in 0 .. k
    OBVIOUS
  <2>5. \A i \in 0 .. k + 1 : next(t, i) = next(u, i)
    BY <2>3, <2>4
  <2>6. u = [i \in 0 .. k + 1 |-> next(u, i)]
    BY <2>5
  <2>7. IsTotal(u, s, k + 1)
    BY <2>6 DEF IsTotal
  <2> QED BY <2>7
<1> HIDE DEF S
<1>3. n \in S
  BY <1>1, <1>2, NatSet
<1> QED BY <1>3 DEF S

Agree(s, r, n) == \A i \in 1 .. n : r[i] = s[i]

\* It depends on those samples only.
LEMMA TotalUnique ==
    ASSUME NEW s, NEW r, NEW t, NEW u, NEW n \in Nat, NEW m \in Nat, n <= m,
           IsTotal(t, s, n), IsTotal(u, r, m), Agree(s, r, n)
    PROVE  t[n] = u[n]
<1> DEFINE S == {k \in Nat : k <= n => t[k] = u[k]}
<1>1. 0 \in S
  BY DEF IsTotal
<1>2. ASSUME NEW k \in Nat, k \in S PROVE k + 1 \in S
  <2> SUFFICES ASSUME k + 1 <= n PROVE t[k + 1] = u[k + 1]
    OBVIOUS
  <2>1. t[k + 1] = t[k] + s[k + 1].bytes
    BY DEF IsTotal
  <2>2. u[k + 1] = u[k] + r[k + 1].bytes
    BY DEF IsTotal
  <2> QED BY <1>2, <2>1, <2>2 DEF Agree
<1> HIDE DEF S
<1>3. n \in S
  BY <1>1, <1>2, NatSet
<1> QED BY <1>3 DEF S

Reported(s) ==
    LET total[n \in 0 .. Len(s)] ==
            IF n = 0 THEN 0 ELSE total[n - 1] + s[n].bytes
    IN  total[Len(s)]

LEMMA ReportedIs ==
    ASSUME NEW s, NEW n \in Nat, Len(s) = n
    PROVE  \E t : IsTotal(t, s, n) /\ Reported(s) = t[n]
<1>1. \E t : IsTotal(t, s, n)
  BY TotalExists
<1> QED BY <1>1 DEF Reported, IsTotal

LEMMA ReportedNone == Reported(<< >>) = 0
<1>1. Len(<< >>) = 0
  OBVIOUS
<1> QED BY <1>1, ReportedIs DEF IsTotal

\* One sample more adds its bytes.
LEMMA ReportedMore ==
    ASSUME NEW R, NEW s \in Seq(R), NEW x \in R
    PROVE  Reported(Append(s, x)) = Reported(s) + x.bytes
<1> DEFINE r == Append(s, x)
           n == Len(s)
<1>1. /\ n \in Nat /\ Len(r) = n + 1
      /\ Agree(s, r, n) /\ r[n + 1] = x
  BY DEF Agree
<1> HIDE DEF r, n
<1>2. PICK t : IsTotal(t, s, n) /\ Reported(s) = t[n]
  BY <1>1, ReportedIs DEF n
<1>3. PICK u : IsTotal(u, r, n + 1) /\ Reported(r) = u[n + 1]
  <2>1. n + 1 \in Nat /\ Len(r) = n + 1
    BY <1>1
  <2> QED BY <2>1, ReportedIs
<1>4. t[n] = u[n]
  <2>1. n + 1 \in Nat /\ n <= n + 1
    BY <1>1
  <2> QED BY <1>1, <1>2, <1>3, <2>1, TotalUnique
<1>5. u[n + 1] = u[n] + r[n + 1].bytes
  BY <1>1, <1>3 DEF IsTotal
<1> QED BY <1>1, <1>2, <1>3, <1>4, <1>5 DEF r, n

Sampled == [interval : Int, bytes : Nat, rxPackets : Nat, lostPackets : Nat]

\* What the samples report is what was received when the last was taken, less
\* what empty intervals have swallowed.
SampledInv ==
    /\ columns = [samples |-> columns.samples, lastTime |-> columns.lastTime,
                  lastRx |-> columns.lastRx]
    /\ columns.samples \in Seq(Sampled)
    /\ columns.lastTime \in Nat
    /\ columns.lastRx \in Nat /\ columns.lastRx <= sink.totalRx
    /\ Reported(columns.samples) \in Nat
    /\ ThroughputAddsUp

LEMMA ReportedBytesIs == ReportedBytes = Reported(columns.samples)
BY DEF ReportedBytes, Reported

LEMMA InitSampled ==
    ASSUME Init PROVE SampledInv
<1>1. /\ columns = [samples |-> << >>, lastTime |-> 0, lastRx |-> 0]
      /\ sink.totalRx = 0
  BY DEF Init
<1>2. << >> \in Seq(Sampled)
  OBVIOUS
<1>3. Reported(columns.samples) = 0
  BY <1>1, ReportedNone
<1>4. ReportedBytes = 0
  BY <1>3, ReportedBytesIs
<1> QED BY <1>1, <1>2, <1>3, <1>4 DEF SampledInv, ThroughputAddsUp

\* A sample covers what was received since the one before.
LEMMA SampleStep ==
    ASSUME Inv, SampledInv, NEW t \in Nat, NEW s, NEW x,
           s = columns.samples,
           x = [interval |-> t - columns.lastTime,
                bytes |-> IF t - columns.lastTime > 0
                          THEN sink.totalRx - columns.lastRx ELSE 0,
                rxPackets |-> sink.totalRx, lostPackets |-> sink.lost],
           columns' = [samples |-> Append(s, x), lastTime |-> t,
                       lastRx |-> sink.totalRx],
           sink' = sink
    PROVE  SampledInv'
<1> DEFINE r == Append(s, x)
<1>1. sink.totalRx \in Nat /\ sink.lost \in Nat
  BY DEF Inv, SinkInv
<1>2. /\ s \in Seq(Sampled) /\ columns.lastTime \in Nat
      /\ columns.lastRx \in Nat /\ columns.lastRx <= sink.totalRx
      /\ Reported(s) \in Nat
  BY DEF SampledInv
<1>3. /\ x \in Sampled
      /\ x.bytes = IF x.interval > 0 THEN sink.totalRx - columns.lastRx ELSE 0
  BY <1>1, <1>2 DEF Sampled
<1>4. /\ r \in Seq(Sampled)
      /\ \A i \in DOMAIN s : i \in DOMAIN r /\ r[i] = s[i]
      /\ Len(s) + 1 \in DOMAIN r /\ r[Len(s) + 1] = x
  BY <1>2, <1>3, AppendProperties
<1>5. Reported(r) = Reported(s) + x.bytes
  BY <1>2, <1>3, ReportedMore
<1> HIDE DEF r
<1>6. ReportedBytes = Reported(s)
  BY ReportedBytesIs
<1>7. ReportedBytes' = Reported(r)
  <2>1. columns'.samples = r
    BY DEF r
  <2>2. ReportedBytes' = Reported(columns'.samples)
    BY DEF ReportedBytes, Reported
  <2> QED BY <2>1, <2>2
<1>8. /\ Reported(s) <= columns.lastRx
      /\ (\A i \in DOMAIN s : s[i].interval > 0) => Reported(s) = columns.lastRx
  BY <1>6 DEF SampledInv, ThroughputAddsUp
<1>9. /\ Reported(r) \in Nat /\ Reported(r) <= sink.totalRx
      /\ x.interval > 0 /\ Reported(s) = columns.lastRx
            => Reported(r) = sink.totalRx
  BY <1>1, <1>2, <1>3, <1>5, <1>8
<1>10. (\A i \in DOMAIN r : r[i].interval > 0) => Reported(r) = sink.totalRx
  BY <1>4, <1>8, <1>9
<1>11. ThroughputAddsUp'
  BY <1>7, <1>9, <1>10 DEF ThroughputAddsUp, r
<1>12. columns'.samples = r /\ Reported(columns.samples)' = Reported(r)
  BY DEF r
<1> QED BY <1>1, <1>4, <1>9, <1>11, <1>12 DEF SampledInv

\* Every other step leaves the samples alone, and no byte is taken back.
LEMMA UnsampledStep ==
    ASSUME SampledInv, UNCHANGED columns, sink.totalRx \in Nat,
           sink'.totalRx \in Nat, sink.totalRx <= sink'.totalRx
    PROVE  SampledInv'
<1>1. ReportedBytes' = ReportedBytes
  BY DEF ReportedBytes
<1> QED BY <1>1 DEF SampledInv, ThroughputAddsUp

LEMMA NextSampled ==
    ASSUME Inv, SampledInv, [Next]_vars PROVE SampledInv'
<1>0. sink.totalRx \in Nat /\ sink'.totalRx \in Nat
  BY NextInv DEF Inv, SinkInv
<1>1. CASE SampleTaken
  <2>1. PICK e \in Due("RecordMetrics") :
            Becomes(RecordMetrics(Dequeue(World, e)))
    BY <1>1 DEF SampleTaken
  <2>2. e.ts \in Nat
    BY DueIs
  <2> DEFINE s == columns.samples
             x == [interval |-> e.ts - columns.lastTime,
                   bytes |-> IF e.ts - columns.lastTime > 0
                             THEN sink.totalRx - columns.lastRx ELSE 0,
                   rxPackets |-> sink.totalRx, lostPackets |-> sink.lost]
  <2>3. /\ columns' = [columns EXCEPT !.samples = Append(s, x), !.lastTime = e.ts,
                                      !.lastRx = sink.totalRx]
        /\ sink' = sink
    BY <2>1 DEF Becomes, RecordMetrics, Sample, Dequeue, World
  <2>4. columns' = [samples |-> Append(s, x), lastTime |-> e.ts,
                    lastRx |-> sink.totalRx]
    BY <2>3 DEF SampledInv
  <2> HIDE DEF x
  <2> QED BY <2>2, <2>3, <2>4, SampleStep DEF x
<1>2. CASE AgentMigrates
  <2>1. PICK e \in Due("TriggerAgentMigration") :
            Becomes(TriggerAgentMigration(Dequeue(World, e)))
    BY <1>2 DEF AgentMigrates
  <2>2. e.ts \in Nat
    BY DueIs
  <2> DEFINE s == columns.samples
             x == [interval |-> e.ts - columns.lastTime,
                   bytes |-> IF e.ts - columns.lastTime > 0
                             THEN sink.totalRx - columns.lastRx ELSE 0,
                   rxPackets |-> sink.totalRx, lostPackets |-> sink.lost]
  <2>3. /\ columns' = [columns EXCEPT !.samples = Append(s, x), !.lastTime = e.ts,
                                      !.lastRx = sink.totalRx]
        /\ sink' = sink
    BY <2>1 DEF Becomes, TriggerAgentMigration, RecordMetrics, Schedule, Sample,
                Dequeue, World
  <2>4. columns' = [samples |-> Append(s, x), lastTime |-> e.ts,
                    lastRx |-> sink.totalRx]
    BY <2>3 DEF SampledInv
  <2> HIDE DEF x
  <2> QED BY <2>2, <2>3, <2>4, SampleStep DEF x
<1>3. CASE PacketArrives
  <2>1. PICK e \in Due("HandleRead") :
            Becomes(HandleRead(Dequeue(World, e), e.arg[1]))
    BY <1>3 DEF PacketArrives
  <2>2. sink'.totalRx \in {sink.totalRx, sink.totalRx + PacketSize}
    BY <2>1 DEF Inv, SinkInv, Becomes, HandleRead, Dequeue, World
  <2>3. columns' = columns
    BY <2>1 DEF Becomes, HandleRead, Dequeue, World
  <2> QED BY <1>0, <2>2, <2>3, UnsampledStep, TrafficAssumption
<1>4. CASE SinkStarts \/ SinkStops
  <2>1. columns' = columns /\ sink'.totalRx = sink.totalRx
    BY <1>4 DEF Inv, SinkInv, SinkStarts, SinkStops, Becomes, StartSink, StopSink, Dequeue, World
  <2> QED BY <1>0, <2>1, UnsampledStep
<1>5. CASE ClientStarts \/ ClientStops \/ PacketSent
  <2>1. ASSUME NEW w, NEW k, NEW fate, w.columns = columns, w.sink = sink
        PROVE  LET same(v) == v.columns = columns /\ v.sink = sink
               IN  /\ same(StartClient(w)) /\ same(StopClient(w))
                   /\ same(SendPacket(w, fate))
    <3> USE DEF StartClient, StopClient, SendPacket, Send, ScheduleTx, Schedule, Cancel
    <3> QED BY <2>1
  <2>2. \A e : LET w == Dequeue(World, e) IN w.columns = columns /\ w.sink = sink
    BY DEF Dequeue, World
  <2>3. columns' = columns /\ sink' = sink
    BY <1>5, <2>1, <2>2 DEF ClientStarts, ClientStops, PacketSent, Becomes
  <2> QED BY <1>0, <2>3, UnsampledStep
<1>6. CASE CancelledEventRuns \/ LoopStops \/ Finished \/ UNCHANGED vars
  <2>1. columns' = columns /\ sink' = sink
    BY <1>6 DEF CancelledEventRuns, LoopStops, StopLoop, Becomes, Dequeue, World, Finished, vars,
                trafficVars
  <2> QED BY <1>0, <2>1, UnsampledStep
<1> QED BY <1>1, <1>2, <1>3, <1>4, <1>5, <1>6 DEF Next

---------------------------------------------------------------------------
(* The theorems                                                            *)

\* Client, sink and network stay in their types: m_sent never passes
\* m_maxPackets, and the sink has heard nothing that was not sent.
THEOREM TrafficTypeCorrect ==
    Spec => []TrafficTypeOK
<1>1. Inv => TrafficTypeOK
  <2> SUFFICES ASSUME Inv PROVE TrafficTypeOK
    OBVIOUS
  <2>1. /\ client \in [socket : Sockets, sent : 0 .. MaxPackets, timer : Nat]
        /\ sent = 1 .. client.sent
    BY DEF Inv, ClientInv
  <2>2. sent \subseteq 1 .. MaxPackets
    BY <2>1, TrafficAssumption
  <2> QED BY <2>1, <2>2 DEF Inv, LoopInv, QueueOK, SinkInv, Sockets, TrafficTypeOK
<1> QED BY <1>1, Invariance, PTL

\* HandleRead's m_lost is never less than the packets missing between the first
\* and the highest one heard, however the network reorders and loses them.
THEOREM NoLossMissed ==
    Spec => []LossesCounted
<1>1. Inv => LossesCounted
  BY DEF Inv, SinkInv
<1> QED BY <1>1, Invariance, PTL

\* Over a network that keeps the order m_lost is exactly that number.
THEOREM LossCountExact ==
    Spec => []LossesExact
<1>1. Inv => LossesExact
  BY DEF Inv, SinkInv
<1> QED BY <1>1, Invariance, PTL

\* No timer outlives the socket SendPacket sends on: each number m_sent has
\* passed was given to the network, whenever the client is started and stopped.
THEOREM SendsOnlyWhenOpen ==
    Spec => []SentIsOnWire
<1>1. Inv => SentIsOnWire
  <2> SUFFICES ASSUME Inv PROVE SentIsOnWire
    OBVIOUS
  <2>1. sent = 1 .. client.sent /\ client.sent \in 0 .. MaxPackets
    BY DEF Inv, ClientInv
  <2>2. client.sent \in Nat
    BY <2>1, TrafficAssumption
  <2>3. Cardinality(1 .. client.sent) = IF 1 > client.sent THEN 0 ELSE client.sent - 1 + 1
    BY <2>2, FS_Interval
  <2> QED BY <2>1, <2>2, <2>3 DEF SentIsOnWire
<1> QED BY <1>1, Invariance, PTL

\* The columns of the collector's samples report each byte the sink received
\* once, and all of them unless an interval was empty.
THEOREM ThroughputAlwaysAddsUp ==
    Spec => []ThroughputAddsUp
<1>1. Init => Inv /\ SampledInv
  BY InitInv, InitSampled
<1>2. Inv /\ SampledInv /\ [Next]_vars => Inv' /\ SampledInv'
  BY NextInv, NextSampled
<1>3. SampledInv => ThroughputAddsUp
  BY DEF SampledInv
<1> QED BY <1>1, <1>2, <1>3, PTL DEF Spec
=============================================================================
