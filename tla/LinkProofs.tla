---------------------------- MODULE LinkProofs ----------------------------
(***************************************************************************)
(* Proofs about Link, for any flows, packets and configurations: the lists *)
(* of FqCoDel; the device queue, where its limit is in packets; the line   *)
(* of a flow's packets from the wire to the queue disc, and with it the    *)
(* types of the variables and the pipe that the link implements; and what  *)
(* the flows may still send before it is the turn of another.              *)
(***************************************************************************)
EXTENDS Link, FiniteSetTheorems, SequenceTheorems, WellFoundedInduction, TLAPS

PacketUnits == \A c \in Configs : c.unit = "PACKETS"

Packet == [id : Nat, flow : Flows, size : Nat]

FlowState == [status : {"INACTIVE", "NEW_FLOW", "OLD_FLOW"}, deficit : Int,
              dropping : BOOLEAN, queue : Seq(Packet)]

Types ==
    /\ config \in Configs
    /\ flow \in [Flows -> FlowState]
    /\ newFlows \in Seq(Flows) /\ oldFlows \in Seq(Flows)
    /\ quota \in Nat
    /\ device \in [queue : Seq(Packet), busy : BOOLEAN]
    /\ stopped \in BOOLEAN /\ check \in BOOLEAN
    /\ created \in Nat

---------------------------------------------------------------------------
(* Sequences without repetition                                            *)

LEMMA AppendNew ==
    ASSUME NEW S, NEW s \in Seq(S), NEW x \in S, x \notin ToSet(s), IsInjective(s)
    PROVE  IsInjective(Append(s, x)) /\ ToSet(Append(s, x)) = ToSet(s) \union {x}
<1> DEFINE t == Append(s, x)
<1>1. /\ DOMAIN s = 1 .. Len(s) /\ DOMAIN t = 1 .. Len(s) + 1 /\ Len(s) \in Nat
      /\ \A i \in 1 .. Len(s) : t[i] = s[i]
      /\ t[Len(s) + 1] = x
  OBVIOUS
<1>2. \A i \in 1 .. Len(s) : s[i] # x
  BY <1>1 DEF ToSet
<1>3. IsInjective(t)
  <2> SUFFICES ASSUME NEW a \in DOMAIN t, NEW b \in DOMAIN t, t[a] = t[b]
               PROVE  a = b
    BY DEF IsInjective
  <2>1. CASE a = Len(s) + 1 \/ b = Len(s) + 1
    BY <2>1, <1>1, <1>2
  <2>2. CASE a \in 1 .. Len(s) /\ b \in 1 .. Len(s)
    BY <2>2, <1>1 DEF IsInjective
  <2> QED BY <2>1, <2>2, <1>1
<1>4. ToSet(t) = ToSet(s) \union {x}
  BY <1>1 DEF ToSet
<1> QED BY <1>3, <1>4

LEMMA TailWithoutHead ==
    ASSUME NEW S, NEW s \in Seq(S), s # <<>>, IsInjective(s)
    PROVE  /\ IsInjective(Tail(s)) /\ ToSet(Tail(s)) = ToSet(s) \ {Head(s)}
           /\ Head(s) \in ToSet(s)
<1> DEFINE t == Tail(s)
<1>1. /\ DOMAIN s = 1 .. Len(s) /\ DOMAIN t = 1 .. Len(s) - 1 /\ Len(s) \in Nat \ {0}
      /\ \A i \in 1 .. Len(s) - 1 : t[i] = s[i + 1]
      /\ Head(s) = s[1]
  OBVIOUS
<1>2. IsInjective(t)
  BY <1>1 DEF IsInjective
<1>3. \A i \in 2 .. Len(s) : s[i] # s[1]
  BY <1>1 DEF IsInjective
<1>4. \A i \in 2 .. Len(s) : i - 1 \in DOMAIN t /\ t[i - 1] = s[i]
  BY <1>1
<1>5. ToSet(t) = ToSet(s) \ {Head(s)}
  <2>1. ASSUME NEW y \in ToSet(t) PROVE y \in ToSet(s) \ {Head(s)}
    <3>1. PICK i \in DOMAIN t : y = t[i]
      BY DEF ToSet
    <3>2. i + 1 \in 2 .. Len(s) /\ y = s[i + 1]
      BY <3>1, <1>1
    <3> QED BY <3>2, <1>1, <1>3 DEF ToSet
  <2>2. ASSUME NEW y \in ToSet(s) \ {Head(s)} PROVE y \in ToSet(t)
    <3>1. PICK i \in DOMAIN s : y = s[i]
      BY DEF ToSet
    <3>2. i \in 2 .. Len(s)
      BY <3>1, <1>1
    <3> QED BY <3>1, <3>2, <1>4 DEF ToSet
  <2> QED BY <2>1, <2>2
<1>6. Head(s) \in ToSet(s)
  BY <1>1 DEF ToSet
<1> QED BY <1>2, <1>5, <1>6

---------------------------------------------------------------------------
(* Types                                                                   *)

LEMMA ConfigTypes ==
    ASSUME NEW c \in Configs
    PROVE  /\ c.disc \in BOOLEAN /\ c.discMax \in Nat \ {0} /\ c.quantum \in Nat \ {0}
           /\ c.quota \in Nat \ {0} /\ c.max \in Nat \ {0}
           /\ c.sizes \subseteq Nat
BY LinkAssumption

\* The device and the flow control, after a packet was handed to them
LEMMA DeviceSendTypes ==
    ASSUME Types, NEW p \in Packet, DeviceSend(p)
    PROVE  /\ device' \in [queue : Seq(Packet), busy : BOOLEAN]
           /\ stopped' \in BOOLEAN /\ check' \in BOOLEAN
<1> DEFINE r == [p EXCEPT !.size = @ + Header]
           q == Append(device.queue, r)
<1>1. r \in Packet
  BY LinkAssumption DEF Packet
<1>2. q \in Seq(Packet) /\ Tail(q) \in Seq(Packet)
  <2> HIDE DEF r
  <2>1. device.queue \in Seq(Packet)
    BY DEF Types
  <2>2. q \in Seq(Packet) /\ Len(q) > 0
    BY <1>1, <2>1
  <2> HIDE DEF q
  <2> QED BY <2>2
<1> HIDE DEF q
<1>3. /\ stopped' \in BOOLEAN
      /\ \/ UNCHANGED <<device, check>>
         \/ device' = [device EXCEPT !.queue = q] /\ UNCHANGED check
         \/ device' = [queue |-> Tail(q), busy |-> TRUE] /\ check' = TRUE
  BY DEF DeviceSend, Transmit, Types, NoRoom, q
<1>4. CASE UNCHANGED <<device, check>>
  BY <1>3, <1>4 DEF Types
<1>5. CASE device' = [device EXCEPT !.queue = q] /\ UNCHANGED check
  BY <1>2, <1>3, <1>5 DEF Types
<1>6. CASE device' = [queue |-> Tail(q), busy |-> TRUE] /\ check' = TRUE
  BY <1>2, <1>3, <1>6
<1> QED BY <1>3, <1>4, <1>5, <1>6

LEMMA EnqueueTypes ==
    ASSUME Types, NEW f \in Flows, NEW p \in Packet, Enqueue(f, p)
    PROVE  flow' \in [Flows -> FlowState] /\ newFlows' \in Seq(Flows)
<1> DEFINE woken == IF flow[f].status = "INACTIVE"
                    THEN [flow[f] EXCEPT !.status = "NEW_FLOW",
                                         !.deficit = config.quantum]
                    ELSE flow[f]
           added == IF Len(woken.queue) < config.discMax
                    THEN [woken EXCEPT !.queue = Append(@, p)]
                    ELSE woken
           fl == [flow EXCEPT ![f] = added]
<1>1. woken \in FlowState
  <2>1. flow[f] \in FlowState
    BY DEF Types
  <2>2. config.quantum \in Int
    BY ConfigTypes DEF Types
  <2> QED BY <2>1, <2>2 DEF FlowState
<1>2. added \in FlowState
  <2> HIDE DEF woken
  <2> QED BY <1>1 DEF FlowState
<1>3. fl \in [Flows -> FlowState]
  <2> HIDE DEF added
  <2> QED BY <1>2 DEF Types
<1>4. /\ flow' = fl \/ \E g \in Flows : FqCoDelDrop(fl, g)
      /\ newFlows' = newFlows \/ newFlows' = Append(newFlows, f)
  BY DEF Enqueue
<1> HIDE DEF fl
<1>5. ASSUME NEW g \in Flows, FqCoDelDrop(fl, g) PROVE flow' \in [Flows -> FlowState]
  <2>1. PICK k \in 1 .. Len(fl[g].queue) :
          flow' = [fl EXCEPT ![g].queue = SubSeq(fl[g].queue, k + 1, Len(fl[g].queue))]
    BY <1>5 DEF FqCoDelDrop
  <2>2. fl[g] \in FlowState /\ fl[g].queue \in Seq(Packet)
    BY <1>3 DEF FlowState
  <2>3. SubSeq(fl[g].queue, k + 1, Len(fl[g].queue)) \in Seq(Packet)
    BY <2>2
  <2> QED BY <1>3, <2>1, <2>2, <2>3 DEF FlowState
<1>6. Append(newFlows, f) \in Seq(Flows) /\ newFlows \in Seq(Flows)
  BY DEF Types
<1> QED BY <1>3, <1>4, <1>5, <1>6

\* The flow whose turn it is
LEMMA CandidateTypes ==
    ASSUME Types, HasCandidate
    PROVE  /\ Candidate \in Flows
           /\ flow[Candidate] \in FlowState
           /\ flow[Candidate].queue \in Seq(Packet)
<1>1. Candidate \in Flows
  <2>1. CASE newFlows # <<>>
    BY <2>1 DEF Types, Candidate
  <2>2. CASE newFlows = <<>>
    BY <2>2 DEF Types, Candidate, HasCandidate
  <2> QED BY <2>1, <2>2
<1> QED BY <1>1 DEF Types, FlowState

\* What Serve takes is a packet of the candidate's queue, and what it leaves
\* the end of this queue.
LEMMA ServeTakes ==
    ASSUME Types, RunServe
    PROVE  \E n \in 1 .. Len(flow[Candidate].queue) :
             LET q == flow[Candidate].queue
             IN /\ q[n] \in Packet
                /\ DeviceSend(q[n])
                /\ SubSeq(q, n + 1, Len(q)) \in Seq(Packet)
                /\ flow' \in [Flows -> FlowState]
                /\ flow'[Candidate].queue = SubSeq(q, n + 1, Len(q))
                /\ \A f \in Flows \ {Candidate} : flow'[f] = flow[f]
<1> DEFINE c == Candidate
           q == flow[c].queue
<1>1. /\ c \in Flows /\ flow[c] \in FlowState /\ q \in Seq(Packet)
  BY CandidateTypes DEF RunServe, MayServe
<1>2. PICK o \in CoDelOutcomes(flow[c]) :
        /\ o.drops < Len(q)
        /\ flow' = [flow EXCEPT ![c].queue = SubSeq(q, o.drops + 2, Len(q)),
                                ![c].dropping = o.dropping,
                                ![c].deficit = @ - q[o.drops + 1].size]
        /\ DeviceSend(q[o.drops + 1])
  BY DEF RunServe, Serve, HandedOut
<1>3. o.drops \in 0 .. Len(q) /\ o.dropping \in BOOLEAN
  BY DEF CoDelOutcomes
<1> DEFINE n == o.drops + 1
<1>4. n \in 1 .. Len(q) /\ n + 1 = o.drops + 2
  BY SMTT(30), <1>1, <1>2, <1>3
<1>5. q[n] \in Packet /\ SubSeq(q, n + 1, Len(q)) \in Seq(Packet)
  BY <1>1, <1>4
<1>6. q[n].size \in Nat
  BY <1>5 DEF Packet
<1> DEFINE rest == SubSeq(q, n + 1, Len(q))
           after == [flow[c] EXCEPT !.queue = rest, !.dropping = o.dropping,
                                    !.deficit = @ - q[n].size]
<1>7. flow' = [flow EXCEPT ![c] = after]
  BY <1>1, <1>2, <1>4 DEF Types, FlowState
<1>8. after \in FlowState /\ after.queue = rest
  <2>1. flow[c].deficit - q[n].size \in Int
    BY <1>1, <1>6 DEF FlowState
  <2>2. rest \in Seq(Packet)
    BY <1>5
  <2> HIDE DEF rest, n, q, c
  <2> QED BY <1>1, <1>3, <2>1, <2>2 DEF FlowState
<1>9. /\ flow' \in [Flows -> FlowState]
      /\ flow'[c].queue = rest
      /\ \A f \in Flows \ {c} : flow'[f] = flow[f]
  <2> HIDE DEF after, rest, n, q
  <2> QED BY <1>1, <1>7, <1>8 DEF Types, c
<1> QED BY <1>2, <1>4, <1>5, <1>9

---------------------------------------------------------------------------
(* Flow control: the inductive invariant                                   *)

\* At most one packet waits in the disc.
OneWaits(fl) ==
    \A f, g \in Flows :
        fl[f].queue # <<>> /\ fl[g].queue # <<>> => f = g /\ Len(fl[f].queue) = 1

\* An idle device has an empty queue; flow control stops a queue that is full,
\* and one that is stopped is full, but for the packet whose departure the
\* pending check will notice.
DeviceInv ==
    /\ ~device.busy => device.queue = <<>>
    /\ ~stopped => Len(device.queue) < config.max
    /\ stopped => /\ device.busy
                  /\ \/ Len(device.queue) >= config.max
                     \/ check /\ Len(device.queue) >= config.max - 1

\* What waits between two runs of the disc waits for the device.  A run sends
\* one packet at most: there is no other, or the first fills the device again.
\* So it never uses up its quota.
RunInv ==
    /\ quota = 0 /\ Backlogged(flow) => stopped
    /\ quota # 0 => \/ stopped
                    \/ OneWaits(flow)
                    \/ device.busy /\ Len(device.queue) >= config.max - 1
    /\ ~config.disc => quota = 0 /\ ~Backlogged(flow)

FlowControlInv == Types /\ DeviceInv /\ RunInv

\* A device that is not stopped takes a packet.
LEMMA DeviceSendFills ==
    ASSUME PacketUnits, Types, DeviceInv, ~stopped, NEW p \in Packet, DeviceSend(p),
           config' = config
    PROVE  /\ DeviceInv'
           /\ device.busy /\ Len(device.queue) >= config.max - 1 => stopped'
<1> DEFINE r == [p EXCEPT !.size = @ + Header]
           q == Append(device.queue, r)
<1>1. config.max \in Nat \ {0} /\ config.unit = "PACKETS"
  BY ConfigTypes DEF Types, PacketUnits
<1>2. device.queue \in Seq(Packet) /\ device.busy \in BOOLEAN
  BY DEF Types
<1>3. Len(q) = Len(device.queue) + 1 /\ Len(Tail(q)) = Len(device.queue)
  BY <1>2
<1>4. Len(device.queue) \in Nat /\ Len(device.queue) < config.max
  BY <1>2 DEF DeviceInv
<1>5. ~Overflows(device.queue, p.size + Header)
  BY <1>1, <1>4 DEF Overflows
<1> HIDE DEF q
<1>6. /\ stopped' = (stopped \/ NoRoom(q))
      /\ \/ device.busy /\ device' = [device EXCEPT !.queue = q] /\ check' = check
         \/ ~device.busy /\ device' = [queue |-> Tail(q), busy |-> TRUE] /\ check' = TRUE
  BY <1>5 DEF DeviceSend, Transmit, q
<1>7. stopped' <=> Len(device.queue) + 2 > config.max
  <2>1. NoRoom(q) <=> Len(device.queue) + 2 > config.max
    BY <1>1, <1>3, <1>4 DEF NoRoom
  <2>2. stopped' <=> NoRoom(q)
    BY <1>6
  <2> QED BY <2>1, <2>2
<1>8. CASE device.busy
  <2>1. device'.busy /\ device'.queue = q
    BY <1>6, <1>8 DEF Types
  <2> QED BY <1>1, <1>3, <1>4, <1>7, <2>1 DEF DeviceInv
<1>9. CASE ~device.busy
  <2>1. device'.busy /\ Len(device'.queue) = 0 /\ check'
    BY <1>2, <1>3, <1>6, <1>9 DEF DeviceInv
  <2>2. Len(device.queue) = 0
    BY <1>9 DEF DeviceInv
  <2> QED BY <1>1, <1>7, <1>9, <2>1, <2>2 DEF DeviceInv
<1> QED BY <1>8, <1>9

\* A packet that enters an empty disc is alone in it.
LEMMA EnqueueFirst ==
    ASSUME Types, ~Backlogged(flow), NEW f \in Flows, NEW p \in Packet, Enqueue(f, p)
    PROVE  OneWaits(flow')
<1> DEFINE woken == IF flow[f].status = "INACTIVE"
                    THEN [flow[f] EXCEPT !.status = "NEW_FLOW",
                                         !.deficit = config.quantum]
                    ELSE flow[f]
           added == IF Len(woken.queue) < config.discMax
                    THEN [woken EXCEPT !.queue = Append(@, p)]
                    ELSE woken
           fl == [flow EXCEPT ![f] = added]
<1>1. flow[f] \in FlowState /\ \A g \in Flows : flow[g].queue = <<>>
  BY DEF Types, Backlogged
<1>2. woken \in FlowState /\ woken.queue = <<>>
  <2>1. config.quantum \in Int
    BY ConfigTypes DEF Types
  <2> QED BY <1>1, <2>1 DEF FlowState
<1> HIDE DEF woken
<1>3. added \in FlowState /\ (added.queue = <<>> \/ added.queue = <<p>>)
  <2>1. Append(woken.queue, p) = <<p>> /\ <<p>> \in Seq(Packet)
    BY <1>2
  <2> QED BY <1>2, <2>1 DEF FlowState
<1> HIDE DEF added
<1>4. /\ fl[f].queue = <<>> \/ fl[f].queue = <<p>>
      /\ \A g \in Flows \ {f} : fl[g].queue = <<>>
  BY <1>1, <1>3 DEF Types
<1>5. OneWaits(fl)
  <2> HIDE DEF fl
  <2>1. Len(<<p>>) = 1
    OBVIOUS
  <2> QED BY <1>4, <2>1 DEF OneWaits
<1>6. flow' = fl \/ \E g \in Flows : FqCoDelDrop(fl, g)
  BY DEF Enqueue, added, woken
<1>7. ASSUME NEW g \in Flows, FqCoDelDrop(fl, g) PROVE OneWaits(flow')
  <2>1. PICK k \in 1 .. Len(fl[g].queue) :
          flow' = [fl EXCEPT ![g].queue = SubSeq(fl[g].queue, k + 1, Len(fl[g].queue))]
    BY <1>7 DEF FqCoDelDrop
  <2>2. fl[g].queue = <<p>> /\ g = f
    BY <1>4, <1>7 DEF FqCoDelDrop
  <2>3. SubSeq(fl[g].queue, k + 1, Len(fl[g].queue)) = <<>>
    <3>1. Len(<<p>>) = 1
      OBVIOUS
    <3> HIDE DEF fl
    <3>2. Len(fl[g].queue) = 1
      BY <2>2, <3>1
    <3>3. k = 1
      BY <3>2
    <3>4. SubSeq(<<p>>, 1 + 1, 1) = <<>>
      OBVIOUS
    <3> QED BY <2>2, <3>2, <3>3, <3>4
  <2>4. \A h \in Flows : flow'[h].queue = <<>>
    <3> HIDE DEF fl
    <3> SUFFICES ASSUME NEW h \in Flows PROVE flow'[h].queue = <<>>
      OBVIOUS
    <3>1. DOMAIN fl = Flows
      BY DEF fl, Types
    <3>2. CASE h # g
      BY <2>1, <2>2, <3>1, <3>2, <1>4
    <3>3. CASE h = g
      <4>1. flow'[g] = [fl[g] EXCEPT !.queue = <<>>]
        BY <2>1, <2>3, <3>1
      <4>2. fl[g] = added
        BY <2>2 DEF fl, Types
      <4> QED BY <1>3, <3>3, <4>1, <4>2 DEF FlowState
    <3> QED BY <3>2, <3>3
  <2> QED BY <2>4 DEF OneWaits
<1> QED BY <1>5, <1>6, <1>7

---------------------------------------------------------------------------
(* The lists of flows                                                      *)

\* The turn of a flow moves it from the new to the old flows, or to the end of
\* the old ones.
LEMMA PopLists ==
    ASSUME Types, BackloggedIsListed, HasCandidate, PopCandidate
    PROVE  /\ newFlows' \in Seq(Flows) /\ oldFlows' \in Seq(Flows)
           /\ IsInjective(newFlows') /\ IsInjective(oldFlows')
           /\ ToSet(newFlows') = ToSet(newFlows) \ {Candidate}
           /\ ToSet(oldFlows') = ToSet(oldFlows) \union {Candidate}
<1> DEFINE c == Candidate
<1>1. c \in Flows /\ newFlows \in Seq(Flows) /\ oldFlows \in Seq(Flows)
  BY CandidateTypes DEF Types
<1>2. IsInjective(newFlows) /\ IsInjective(oldFlows)
  BY DEF BackloggedIsListed
<1>3. CASE newFlows # <<>>
  <2>1. c = Head(newFlows) /\ newFlows' = Tail(newFlows) /\ oldFlows' = Append(oldFlows, c)
    BY <1>3 DEF Candidate, PopCandidate
  <2>2. /\ IsInjective(Tail(newFlows)) /\ c \in ToSet(newFlows)
        /\ ToSet(Tail(newFlows)) = ToSet(newFlows) \ {c}
    <3> HIDE DEF c
    <3> QED BY <1>1, <1>2, <1>3, <2>1, TailWithoutHead
  <2>3. c \notin ToSet(oldFlows)
    BY <2>2 DEF BackloggedIsListed
  <2> HIDE DEF c
  <2>4. /\ IsInjective(Append(oldFlows, c))
        /\ ToSet(Append(oldFlows, c)) = ToSet(oldFlows) \union {c}
    BY <1>1, <1>2, <2>3, AppendNew
  <2>5. Tail(newFlows) \in Seq(Flows) /\ Append(oldFlows, c) \in Seq(Flows)
    BY <1>1, <1>3
  <2> QED BY <2>1, <2>2, <2>4, <2>5 DEF c
<1>4. CASE newFlows = <<>>
  <2>1. /\ oldFlows # <<>> /\ c = Head(oldFlows)
        /\ newFlows' = newFlows /\ oldFlows' = Append(Tail(oldFlows), c)
    BY <1>4 DEF Candidate, PopCandidate, HasCandidate
  <2>2. /\ IsInjective(Tail(oldFlows)) /\ c \in ToSet(oldFlows)
        /\ ToSet(Tail(oldFlows)) = ToSet(oldFlows) \ {c}
    <3> HIDE DEF c
    <3> QED BY <1>1, <1>2, <2>1, TailWithoutHead
  <2>3. Tail(oldFlows) \in Seq(Flows) /\ c \notin ToSet(Tail(oldFlows))
    BY <1>1, <2>1, <2>2
  <2> HIDE DEF c
  <2>4. /\ IsInjective(Append(Tail(oldFlows), c))
        /\ ToSet(Append(Tail(oldFlows), c)) = ToSet(Tail(oldFlows)) \union {c}
    <3> DEFINE rest == Tail(oldFlows)
    <3>1. rest \in Seq(Flows) /\ c \in Flows /\ c \notin ToSet(rest) /\ IsInjective(rest)
      BY <1>1, <2>2, <2>3
    <3> HIDE DEF rest
    <3>2. IsInjective(Append(rest, c)) /\ ToSet(Append(rest, c)) = ToSet(rest) \union {c}
      BY <3>1, AppendNew
    <3> QED BY <3>2 DEF rest
  <2>5. Append(Tail(oldFlows), c) \in Seq(Flows)
    BY <1>1, <2>3
  <2>6. ToSet(newFlows) = {}
    BY <1>4 DEF ToSet
  <2> QED BY <1>1, <1>2, <2>1, <2>2, <2>4, <2>5, <2>6 DEF c
<1> QED BY <1>3, <1>4

\* Moving on from a flow takes no packet from it.
LEMMA TurnTakesNothing ==
    ASSUME Types, NextTurn \/ Retire
    PROVE  /\ HasCandidate
           /\ flow' \in [Flows -> FlowState]
           /\ \A f \in Flows : flow'[f].queue = flow[f].queue
           /\ \A f \in Flows \ {Candidate} : flow'[f].status = flow[f].status
           /\ \/ flow'[Candidate].status = "OLD_FLOW" /\ PopCandidate
              \/ /\ flow'[Candidate].status = "INACTIVE"
                 /\ flow[Candidate].queue = <<>>
                 /\ newFlows = <<>> /\ newFlows' = newFlows
                 /\ oldFlows' = Tail(oldFlows)
<1> DEFINE c == Candidate
<1>1. HasCandidate /\ c \in Flows /\ flow[c] \in FlowState
  BY CandidateTypes DEF NextTurn, Retire
<1>2. config.quantum \in Int
  BY ConfigTypes DEF Types
<1> HIDE DEF c
<1>3. ASSUME NEW a \in FlowState, flow' = [flow EXCEPT ![c] = a], a.queue = flow[c].queue
      PROVE  /\ flow' \in [Flows -> FlowState]
             /\ \A f \in Flows : flow'[f].queue = flow[f].queue
             /\ \A f \in Flows \ {c} : flow'[f].status = flow[f].status
             /\ flow'[c].status = a.status
  BY <1>1, <1>3 DEF Types
<1>4. CASE NextTurn
  <2> DEFINE a == [flow[c] EXCEPT !.deficit = @ + config.quantum, !.status = "OLD_FLOW"]
  <2>1. a \in FlowState /\ a.queue = flow[c].queue /\ a.status = "OLD_FLOW"
    <3>1. flow[c].deficit + config.quantum \in Int
      BY <1>1, <1>2 DEF FlowState
    <3> QED BY <1>1, <3>1 DEF FlowState
  <2>2. flow' = [flow EXCEPT ![c] = a] /\ PopCandidate
    BY <1>1, <1>4 DEF NextTurn, c, Types, FlowState
  <2> HIDE DEF a
  <2> QED BY <1>1, <1>3, <2>1, <2>2 DEF c
<1>5. CASE Retire /\ newFlows # <<>>
  <2> DEFINE a == [flow[c] EXCEPT !.dropping = FALSE, !.status = "OLD_FLOW"]
  <2>1. a \in FlowState /\ a.queue = flow[c].queue /\ a.status = "OLD_FLOW"
    BY <1>1 DEF FlowState
  <2>2. flow' = [flow EXCEPT ![c] = a] /\ PopCandidate
    BY <1>1, <1>5 DEF Retire, c, Types, FlowState
  <2> HIDE DEF a
  <2> QED BY <1>1, <1>3, <2>1, <2>2 DEF c
<1>6. CASE Retire /\ newFlows = <<>>
  <2> DEFINE a == [flow[c] EXCEPT !.dropping = FALSE, !.status = "INACTIVE"]
  <2>1. a \in FlowState /\ a.queue = flow[c].queue /\ a.status = "INACTIVE"
    BY <1>1 DEF FlowState
  <2>2. /\ flow' = [flow EXCEPT ![c] = a] /\ flow[c].queue = <<>>
        /\ newFlows' = newFlows /\ oldFlows' = Tail(oldFlows)
    BY <1>1, <1>6 DEF Retire, c, Types, FlowState
  <2> HIDE DEF a
  <2> QED BY <1>1, <1>3, <1>6, <2>1, <2>2 DEF c
<1> QED BY <1>4, <1>5, <1>6

LEMMA TurnLists ==
    ASSUME Types, BackloggedIsListed, NextTurn \/ Retire
    PROVE  newFlows' \in Seq(Flows) /\ oldFlows' \in Seq(Flows) /\ BackloggedIsListed'
<1> DEFINE c == Candidate
<1>1. c \in Flows /\ HasCandidate
  BY TurnTakesNothing, CandidateTypes
<1>2. CASE flow'[c].status = "OLD_FLOW" /\ PopCandidate
  <2>1. /\ newFlows' \in Seq(Flows) /\ oldFlows' \in Seq(Flows)
        /\ IsInjective(newFlows') /\ IsInjective(oldFlows')
        /\ ToSet(newFlows') = ToSet(newFlows) \ {c}
        /\ ToSet(oldFlows') = ToSet(oldFlows) \union {c}
    BY <1>1, <1>2, PopLists
  <2>2. /\ \A f \in Flows : flow'[f].queue = flow[f].queue
        /\ \A f \in Flows \ {c} : flow'[f].status = flow[f].status
    BY TurnTakesNothing
  <2> HIDE DEF c
  <2>3. /\ ToSet(newFlows') = {f \in Flows : flow'[f].status = "NEW_FLOW"}
        /\ ToSet(oldFlows') = {f \in Flows : flow'[f].status = "OLD_FLOW"}
    BY <1>1, <1>2, <2>1, <2>2 DEF BackloggedIsListed
  <2>4. \A f \in Flows : flow'[f].queue # <<>> => flow'[f].status # "INACTIVE"
    BY <1>2, <2>2 DEF BackloggedIsListed
  <2> QED BY <2>1, <2>3, <2>4 DEF BackloggedIsListed
<1>3. CASE /\ flow'[c].status = "INACTIVE" /\ flow[c].queue = <<>>
           /\ newFlows = <<>> /\ newFlows' = newFlows /\ oldFlows' = Tail(oldFlows)
  <2>1. oldFlows # <<>> /\ c = Head(oldFlows) /\ oldFlows \in Seq(Flows)
    BY <1>1, <1>3 DEF HasCandidate, Candidate, Types
  <2>2. /\ \A f \in Flows : flow'[f].queue = flow[f].queue
        /\ \A f \in Flows \ {c} : flow'[f].status = flow[f].status
    BY TurnTakesNothing
  <2> HIDE DEF c
  <2>3. /\ Tail(oldFlows) \in Seq(Flows) /\ IsInjective(Tail(oldFlows))
        /\ ToSet(Tail(oldFlows)) = ToSet(oldFlows) \ {c} /\ c \in ToSet(oldFlows)
    BY <2>1, TailWithoutHead DEF BackloggedIsListed
  <2>4. c \notin ToSet(newFlows)
    BY <2>3 DEF BackloggedIsListed
  <2>5. /\ ToSet(newFlows') = {f \in Flows : flow'[f].status = "NEW_FLOW"}
        /\ ToSet(oldFlows') = {f \in Flows : flow'[f].status = "OLD_FLOW"}
    BY <1>1, <1>3, <2>2, <2>3, <2>4 DEF BackloggedIsListed
  <2>6. \A f \in Flows : flow'[f].queue # <<>> => flow'[f].status # "INACTIVE"
    BY <1>3, <2>2 DEF BackloggedIsListed
  <2> QED BY <1>3, <2>3, <2>5, <2>6 DEF BackloggedIsListed, Types
<1> QED BY <1>2, <1>3, TurnTakesNothing

\* Enqueue wakes a flow before it counts the packets, and FqCoDelDrop wakes none.
LEMMA EnqueueLists ==
    ASSUME Types, BackloggedIsListed, NEW f \in Flows, NEW p \in Packet, Enqueue(f, p)
    PROVE  BackloggedIsListed'
<1> DEFINE woken == IF flow[f].status = "INACTIVE"
                    THEN [flow[f] EXCEPT !.status = "NEW_FLOW",
                                         !.deficit = config.quantum]
                    ELSE flow[f]
           added == IF Len(woken.queue) < config.discMax
                    THEN [woken EXCEPT !.queue = Append(@, p)]
                    ELSE woken
           fl == [flow EXCEPT ![f] = added]
<1>1. flow[f] \in FlowState /\ DOMAIN flow = Flows
  BY DEF Types
<1>2. /\ woken \in FlowState
      /\ woken.status = IF flow[f].status = "INACTIVE" THEN "NEW_FLOW" ELSE flow[f].status
  <2>1. config.quantum \in Int
    BY ConfigTypes DEF Types
  <2> QED BY <1>1, <2>1 DEF FlowState
<1> HIDE DEF woken
<1>3. added.status = woken.status
  BY <1>2 DEF FlowState
<1> HIDE DEF added
<1>4. /\ fl[f].status = IF flow[f].status = "INACTIVE" THEN "NEW_FLOW" ELSE flow[f].status
      /\ \A g \in Flows \ {f} : fl[g] = flow[g]
      /\ DOMAIN fl = Flows
  BY <1>1, <1>2, <1>3
<1>5. \A g \in Flows : fl[g].queue # <<>> => fl[g].status # "INACTIVE"
  BY <1>4 DEF BackloggedIsListed
<1>6. flow' = fl \/ \E g \in Flows : FqCoDelDrop(fl, g)
  BY DEF Enqueue, added, woken
<1> HIDE DEF fl
<1>7. \A g \in Flows : /\ flow'[g].status = fl[g].status
                       /\ flow'[g].queue # <<>> => fl[g].queue # <<>>
  <2>1. ASSUME NEW g \in Flows, FqCoDelDrop(fl, g)
        PROVE  \A h \in Flows : /\ flow'[h].status = fl[h].status
                                /\ flow'[h].queue # <<>> => fl[h].queue # <<>>
    <3>1. PICK k \in 1 .. Len(fl[g].queue) :
            /\ fl[g].queue # <<>>
            /\ flow' = [fl EXCEPT ![g].queue = SubSeq(fl[g].queue, k + 1, Len(fl[g].queue))]
      BY <2>1 DEF FqCoDelDrop
    <3> DEFINE rest == SubSeq(fl[g].queue, k + 1, Len(fl[g].queue))
    <3>2. flow'[g] = [fl[g] EXCEPT !.queue = rest] /\ \A h \in Flows \ {g} : flow'[h] = fl[h]
      BY <3>1, <1>4
    <3> HIDE DEF rest
    <3>3. flow'[g].status = fl[g].status
      BY <3>2
    <3> QED BY <3>1, <3>2, <3>3
  <2> QED BY <1>6, <2>1
<1>8. \A g \in Flows : flow'[g].queue # <<>> => flow'[g].status # "INACTIVE"
  BY <1>5, <1>7
<1>9. oldFlows' = oldFlows /\ newFlows \in Seq(Flows)
  BY DEF Enqueue, Types
<1>10. CASE flow[f].status = "INACTIVE"
  <2>1. newFlows' = Append(newFlows, f)
    BY <1>10 DEF Enqueue
  <2>2. f \notin ToSet(newFlows) /\ f \notin ToSet(oldFlows) /\ IsInjective(newFlows)
    BY <1>10 DEF BackloggedIsListed
  <2>3. IsInjective(newFlows') /\ ToSet(newFlows') = ToSet(newFlows) \union {f}
    BY <1>9, <2>1, <2>2, AppendNew
  <2>4. /\ ToSet(newFlows') = {g \in Flows : flow'[g].status = "NEW_FLOW"}
        /\ ToSet(oldFlows') = {g \in Flows : flow'[g].status = "OLD_FLOW"}
    BY <1>4, <1>7, <1>9, <1>10, <2>2, <2>3 DEF BackloggedIsListed
  <2> QED BY <1>8, <1>9, <2>3, <2>4 DEF BackloggedIsListed
<1>11. CASE flow[f].status # "INACTIVE"
  <2>1. newFlows' = newFlows
    BY <1>11 DEF Enqueue
  <2>2. \A g \in Flows : flow'[g].status = flow[g].status
    BY <1>4, <1>7, <1>11
  <2> QED BY <1>8, <1>9, <2>1, <2>2 DEF BackloggedIsListed
<1> QED BY <1>10, <1>11

LEMMA ServeLists ==
    ASSUME Types, BackloggedIsListed, RunServe
    PROVE  BackloggedIsListed'
<1> DEFINE c == Candidate
<1>1. c \in Flows /\ flow[c] \in FlowState /\ flow[c].queue # <<>> /\ DOMAIN flow = Flows
  BY CandidateTypes DEF RunServe, MayServe, Types
<1>2. PICK rest, dropping, deficit :
        flow' = [flow EXCEPT ![c].queue = rest, ![c].dropping = dropping,
                             ![c].deficit = deficit]
  BY DEF RunServe, Serve
<1>3. newFlows' = newFlows /\ oldFlows' = oldFlows
  BY DEF RunServe, Serve
<1> HIDE DEF c
<1>4. flow'[c].status = flow[c].status /\ \A f \in Flows \ {c} : flow'[f] = flow[f]
  BY <1>1, <1>2 DEF FlowState
<1>5. \A f \in Flows : /\ flow'[f].status = flow[f].status
                       /\ flow'[f].queue # <<>> => flow[f].queue # <<>>
  BY <1>1, <1>4
<1> QED BY <1>3, <1>5 DEF BackloggedIsListed

---------------------------------------------------------------------------
(* Every step                                                              *)

ListsInv == Types /\ BackloggedIsListed

LEMMA ListsInit == ASSUME Init PROVE ListsInv
<1>1. config \in Configs /\ quota \in Nat /\ created \in Nat
      /\ stopped \in BOOLEAN /\ check \in BOOLEAN
      /\ device \in [queue : Seq(Packet), busy : BOOLEAN]
      /\ newFlows = <<>> /\ oldFlows = <<>>
  <2>1. <<>> \in Seq(Packet)
    OBVIOUS
  <2> QED BY <2>1 DEF Init, DiscInit
<1>2. \A f \in Flows : flow[f] = [status |-> "INACTIVE", deficit |-> 0,
                                  dropping |-> FALSE, queue |-> <<>>]
  BY DEF Init, DiscInit
<1>3. flow \in [Flows -> FlowState]
  BY DEF Init, DiscInit, FlowState
<1>4. BackloggedIsListed
  BY <1>1, <1>2 DEF BackloggedIsListed, IsInjective, ToSet
<1> QED BY <1>1, <1>3, <1>4 DEF ListsInv, Types

LEMMA NewPacketTypes ==
    ASSUME Types, NEW f \in Flows, NEW s \in config.sizes
    PROVE  NewPacket(f, s) \in Packet /\ created + 1 \in Nat
BY ConfigTypes DEF Types, NewPacket, Packet

LEMMA TransmitTypes ==
    ASSUME Types, TransmitComplete
    PROVE  device' \in [queue : Seq(Packet), busy : BOOLEAN] /\ check' \in BOOLEAN
<1>1. device.queue \in Seq(Packet) /\ check \in BOOLEAN
  BY DEF Types
<1>2. CASE device.queue = <<>>
  BY <1>1, <1>2 DEF TransmitComplete, Types
<1>3. CASE device.queue # <<>>
  <2>1. Tail(device.queue) \in Seq(Packet)
    BY <1>1, <1>3
  <2>2. device' = [device EXCEPT !.queue = Tail(device.queue)] /\ check' = TRUE
    BY <1>3 DEF TransmitComplete, Transmit
  <2> QED BY <2>1, <2>2 DEF Types
<1> QED BY <1>2, <1>3

LEMMA ListsStep == ASSUME ListsInv, [Next]_vars PROVE ListsInv'
<1>1. Types /\ BackloggedIsListed
  BY DEF ListsInv
<1>2. config.quota \in Nat \ {0} /\ config' = config
  BY <1>1, ConfigTypes DEF Types, Next, Steps, Send, SendDirectly, RunNextTurn, RunRetire,
     RunServe, RunEnd, TransmitComplete, CheckRoom, Receive, vars
<1>3. ASSUME UNCHANGED discVars PROVE BackloggedIsListed'
  BY <1>1, <1>3 DEF discVars, BackloggedIsListed
<1>4. ASSUME NEW f \in Flows, NEW s \in config.sizes, Send(f, s) PROVE ListsInv'
  <2>1. NewPacket(f, s) \in Packet /\ created' \in Nat /\ Enqueue(f, NewPacket(f, s))
    BY <1>1, <1>4, NewPacketTypes DEF Send
  <2>2. flow' \in [Flows -> FlowState] /\ newFlows' \in Seq(Flows) /\ BackloggedIsListed'
    BY <1>1, <2>1, EnqueueTypes, EnqueueLists
  <2>3. UNCHANGED <<config, device, stopped, check, oldFlows>> /\ quota' = config.quota
    BY <1>4 DEF Send, Enqueue
  <2> QED BY <1>1, <1>2, <2>1, <2>2, <2>3 DEF ListsInv, Types
<1>5. ASSUME NEW f \in Flows, NEW s \in config.sizes, SendDirectly(f, s) PROVE ListsInv'
  <2>1. NewPacket(f, s) \in Packet /\ created' \in Nat
    BY <1>1, <1>5, NewPacketTypes DEF SendDirectly
  <2>2. /\ device' \in [queue : Seq(Packet), busy : BOOLEAN]
        /\ stopped' \in BOOLEAN /\ check' \in BOOLEAN
    <3>1. CASE stopped
      BY <1>1, <1>5, <3>1 DEF SendDirectly, Types
    <3>2. CASE ~stopped
      <4>1. DeviceSend(NewPacket(f, s))
        BY <1>5, <3>2 DEF SendDirectly
      <4> QED BY <1>1, <2>1, <4>1, DeviceSendTypes
    <3> QED BY <3>1, <3>2
  <2>3. UNCHANGED discVars /\ quota' = quota
    BY <1>5 DEF SendDirectly
  <2> QED BY <1>1, <1>2, <1>3, <2>1, <2>2, <2>3 DEF ListsInv, Types, discVars
<1>6. CASE RunNextTurn \/ RunRetire
  <2>1. NextTurn \/ Retire
    BY <1>6 DEF RunNextTurn, RunRetire
  <2>2. /\ flow' \in [Flows -> FlowState] /\ BackloggedIsListed'
        /\ newFlows' \in Seq(Flows) /\ oldFlows' \in Seq(Flows)
    BY <1>1, <2>1, TurnTakesNothing, TurnLists
  <2>3. UNCHANGED linkVars
    BY <1>6 DEF RunNextTurn, RunRetire
  <2> QED BY <1>1, <1>2, <2>2, <2>3 DEF ListsInv, Types, linkVars
<1>7. CASE RunServe
  <2>1. UNCHANGED <<newFlows, oldFlows, created>>
    BY <1>7 DEF RunServe, Serve
  <2>2. BackloggedIsListed'
    BY <1>1, <1>7, ServeLists
  <2>3. /\ flow' \in [Flows -> FlowState]
        /\ \E p \in Packet : DeviceSend(p)
    BY <1>1, <1>7, ServeTakes
  <2>4. /\ device' \in [queue : Seq(Packet), busy : BOOLEAN]
        /\ stopped' \in BOOLEAN /\ check' \in BOOLEAN
    BY <1>1, <2>3, DeviceSendTypes
  <2>5. quota' \in Nat
    <3>1. quota \in Nat \ {0} /\ (quota' = 0 \/ quota' = quota - 1)
      BY <1>1, <1>7 DEF RunServe, Running, Idle, Types
    <3> QED BY <3>1
  <2> QED BY <1>1, <1>2, <2>1, <2>2, <2>3, <2>4, <2>5 DEF ListsInv, Types
<1>8. CASE RunEnd
  BY <1>1, <1>2, <1>3, <1>8 DEF RunEnd, ListsInv, Types, discVars
<1>9. CASE TransmitComplete
  <2>1. UNCHANGED <<discVars, quota, stopped, created>>
    BY <1>9 DEF TransmitComplete
  <2> QED BY <1>1, <1>2, <1>3, <1>9, <2>1, TransmitTypes DEF ListsInv, Types, discVars
<1>10. CASE CheckRoom
  <2>1. UNCHANGED <<discVars, device, created>> /\ check' = FALSE
    BY <1>10 DEF CheckRoom
  <2>2. /\ stopped' = stopped \/ stopped' = FALSE
        /\ quota' = quota \/ quota' = config.quota \/ quota' = 0
    BY <1>10 DEF CheckRoom
  <2>3. stopped' \in BOOLEAN /\ quota' \in Nat
    <3>1. stopped \in BOOLEAN /\ quota \in Nat
      BY <1>1 DEF Types
    <3>2. stopped' \in BOOLEAN
      BY <2>2, <3>1, Zenon
    <3>3. quota' \in Nat
      BY <1>2, <2>2, <3>1
    <3> QED BY <3>2, <3>3
  <2> QED BY <1>1, <1>2, <1>3, <2>1, <2>3 DEF ListsInv, Types, discVars
<1>11. CASE Receive
  BY <1>1, <1>2, <1>3, <1>11 DEF Receive, ListsInv, Types, discVars
<1>12. CASE UNCHANGED vars
  BY <1>1, <1>2, <1>3, <1>12 DEF vars, linkVars, ListsInv, Types, discVars
<1> QED BY <1>4, <1>5, <1>6, <1>7, <1>8, <1>9, <1>10, <1>11, <1>12 DEF Next, Steps

\* The lists of flows are sound, whatever the flows, the packets and the
\* attributes of the link: FqCoDelQueueDisc puts each flow with packets into
\* one of m_newFlows and m_oldFlows, once.
THEOREM ListsAlwaysSound == Spec => []BackloggedIsListed
<1>1. Init => ListsInv
  BY ListsInit
<1>2. ListsInv /\ [Next]_vars => ListsInv'
  BY ListsStep
<1>3. ListsInv => BackloggedIsListed
  BY DEF ListsInv
<1> QED BY <1>1, <1>2, <1>3, PTL DEF Spec

\* A disc without a candidate is empty.
LEMMA NoCandidate ==
    ASSUME Types, BackloggedIsListed, ~HasCandidate
    PROVE  ~Backlogged(flow)
<1>1. ToSet(newFlows) = {} /\ ToSet(oldFlows) = {}
  BY DEF HasCandidate, ToSet
<1>2. \A f \in Flows : flow[f].status \in {"INACTIVE", "NEW_FLOW", "OLD_FLOW"}
  BY DEF Types, FlowState
<1> QED BY <1>1, <1>2 DEF BackloggedIsListed, Backlogged

---------------------------------------------------------------------------
(* Flow control in every step                                              *)

\* While the disc and the device are left alone
LEMMA FlowControlUnchanged ==
    ASSUME DeviceInv, RunInv, config' = config, UNCHANGED <<device, stopped, check, quota>>,
           \A f \in Flows : flow'[f].queue = flow[f].queue
    PROVE  DeviceInv' /\ RunInv'
<1>1. DeviceInv'
  BY DEF DeviceInv
<1>2. Backlogged(flow') <=> Backlogged(flow)
  BY DEF Backlogged
<1>3. OneWaits(flow) => OneWaits(flow')
  BY DEF OneWaits
<1> QED BY <1>1, <1>2, <1>3 DEF RunInv

LEMMA SendKeeps ==
    ASSUME FlowControlInv, NEW f \in Flows, NEW s \in config.sizes, Send(f, s)
    PROVE  DeviceInv' /\ RunInv'
<1>1. Types /\ DeviceInv /\ RunInv
  BY DEF FlowControlInv
<1>2. UNCHANGED <<config, device, stopped, check>> /\ quota' = config.quota /\ quota = 0
  BY DEF Send, Idle
<1>3. config.disc /\ config.quota # 0
  BY <1>1, ConfigTypes DEF Send, Types
<1>4. stopped \/ OneWaits(flow')
  <2>1. NewPacket(f, s) \in Packet /\ Enqueue(f, NewPacket(f, s))
    BY <1>1, NewPacketTypes DEF Send
  <2>2. stopped \/ ~Backlogged(flow)
    BY <1>1, <1>2 DEF RunInv
  <2> QED BY <1>1, <2>1, <2>2, EnqueueFirst
<1> QED BY <1>1, <1>2, <1>3, <1>4 DEF DeviceInv, RunInv

LEMMA SendDirectlyKeeps ==
    ASSUME PacketUnits, FlowControlInv, NEW f \in Flows, NEW s \in config.sizes,
           SendDirectly(f, s)
    PROVE  DeviceInv' /\ RunInv'
<1>1. Types /\ DeviceInv /\ RunInv /\ config' = config
  BY DEF FlowControlInv, SendDirectly
<1>2. UNCHANGED <<flow, quota>> /\ quota = 0 /\ ~config.disc
  BY DEF SendDirectly, Idle, discVars
<1>3. RunInv'
  BY <1>1, <1>2 DEF RunInv
<1>4. DeviceInv'
  <2>1. CASE stopped
    BY <1>1, <2>1 DEF SendDirectly, DeviceInv
  <2>2. CASE ~stopped
    <3>1. DeviceSend(NewPacket(f, s)) /\ NewPacket(f, s) \in Packet
      BY <1>1, <2>2, NewPacketTypes DEF SendDirectly
    <3> QED BY <1>1, <2>2, <3>1, DeviceSendFills
  <2> QED BY <2>1, <2>2
<1> QED BY <1>3, <1>4

\* The packet that a run sends was the only one, or fills the device.
LEMMA ServeKeeps ==
    ASSUME PacketUnits, FlowControlInv, RunServe
    PROVE  DeviceInv' /\ RunInv'
<1>1. Types /\ DeviceInv /\ RunInv /\ config' = config
  BY DEF FlowControlInv, RunServe
<1>2. quota # 0 /\ ~stopped
  BY DEF RunServe, Running, Idle
<1>3. PICK n \in 1 .. Len(flow[Candidate].queue) :
        LET q == flow[Candidate].queue
        IN /\ q[n] \in Packet
           /\ DeviceSend(q[n])
           /\ flow'[Candidate].queue = SubSeq(q, n + 1, Len(q))
           /\ \A f \in Flows \ {Candidate} : flow'[f] = flow[f]
  BY <1>1, ServeTakes
<1>4. /\ DeviceInv'
      /\ device.busy /\ Len(device.queue) >= config.max - 1 => stopped'
  BY <1>1, <1>2, <1>3, DeviceSendFills
<1>5. OneWaits(flow) => ~Backlogged(flow')
  <2> SUFFICES ASSUME OneWaits(flow), NEW f \in Flows PROVE flow'[f].queue = <<>>
    BY DEF Backlogged
  <2> DEFINE c == Candidate
             q == flow[c].queue
  <2>1. c \in Flows /\ q \in Seq(Packet) /\ q # <<>>
    BY <1>1, CandidateTypes DEF RunServe, MayServe
  <2>2. Len(q) = 1 /\ (f # c => flow[f].queue = <<>>)
    BY <2>1 DEF OneWaits
  <2>3. n = 1 /\ SubSeq(q, 2, 1) = <<>>
    <3> HIDE DEF q
    <3>1. SubSeq(q, 2, 1) = <<>>
      BY <2>1
    <3> QED BY <2>2, <3>1 DEF q
  <2>4. flow'[c].queue = <<>>
    BY <1>3, <2>2, <2>3
  <2> QED BY <1>3, <2>2, <2>4
<1>6. quota' = 0 /\ (Backlogged(flow') => stopped')
  <2>1. OneWaits(flow) \/ stopped'
    BY <1>1, <1>2, <1>4 DEF RunInv
  <2>2. ~Backlogged(flow') \/ stopped'
    BY <1>5, <2>1
  <2> QED BY <2>2 DEF RunServe
<1>7. config.disc
  BY <1>1, <1>2 DEF RunInv
<1> QED BY <1>1, <1>4, <1>6, <1>7 DEF RunInv

LEMMA TransmitKeeps ==
    ASSUME FlowControlInv, TransmitComplete
    PROVE  DeviceInv' /\ RunInv'
<1>1. Types /\ DeviceInv /\ RunInv /\ UNCHANGED <<config, stopped, flow, quota>> /\ quota = 0
  BY DEF FlowControlInv, TransmitComplete, Idle, discVars
<1>2. RunInv'
  BY <1>1 DEF RunInv
<1>3. config.max \in Nat \ {0} /\ device.queue \in Seq(Packet)
  BY <1>1, ConfigTypes DEF Types
<1>4. device.busy /\ ~check
  BY DEF TransmitComplete
<1>5. CASE device.queue = <<>>
  <2>1. device'.queue = <<>> /\ check' = check /\ Len(device.queue) = 0
    BY <1>1, <1>5 DEF TransmitComplete, Types
  <2>2. ~stopped
    BY <1>1, <1>3, <1>4, <2>1 DEF DeviceInv
  <2> QED BY <1>1, <1>2, <1>3, <2>1, <2>2, <1>5 DEF DeviceInv
<1>6. CASE device.queue # <<>>
  <2>1. /\ device' = [device EXCEPT !.queue = Tail(device.queue)] /\ check' = TRUE
    BY <1>6 DEF TransmitComplete, Transmit
  <2>2. device'.busy /\ device'.queue = Tail(device.queue)
    BY <1>1, <1>4, <2>1 DEF Types
  <2>3. Len(Tail(device.queue)) = Len(device.queue) - 1 /\ Len(device.queue) \in Nat
    BY <1>3, <1>6
  <2>4. /\ ~stopped => Len(device.queue) < config.max
        /\ stopped => Len(device.queue) >= config.max
    BY <1>1, <1>4 DEF DeviceInv
  <2>5. Len(device'.queue) = Len(device.queue) - 1
    BY <2>2, <2>3
  <2> QED BY <1>1, <1>2, <1>3, <2>1, <2>2, <2>3, <2>4, <2>5 DEF DeviceInv
<1> QED BY <1>5, <1>6

LEMMA CheckKeeps ==
    ASSUME PacketUnits, FlowControlInv, CheckRoom
    PROVE  DeviceInv' /\ RunInv'
<1>1. Types /\ DeviceInv /\ RunInv /\ UNCHANGED <<config, device, flow>> /\ quota = 0
  BY DEF FlowControlInv, CheckRoom, Idle, discVars
<1>2. /\ config.max \in Nat \ {0} /\ config.unit = "PACKETS" /\ config.quota # 0
      /\ Len(device.queue) \in Nat
  BY <1>1, ConfigTypes DEF Types, PacketUnits
<1>3. CASE NoRoom(device.queue)
  <2>1. UNCHANGED <<quota, stopped>>
    BY <1>3 DEF CheckRoom
  <2>2. Len(device.queue) >= config.max
    BY <1>2, <1>3 DEF NoRoom
  <2>3. RunInv'
    BY <1>1, <2>1 DEF RunInv
  <2> QED BY <1>1, <1>2, <2>1, <2>2, <2>3 DEF DeviceInv
<1>4. CASE ~NoRoom(device.queue)
  <2>1. stopped' = FALSE /\ quota' = IF stopped /\ config.disc THEN config.quota ELSE 0
    BY <1>4 DEF CheckRoom
  <2>2. Len(device.queue) < config.max
    BY <1>2, <1>4 DEF NoRoom
  <2>3. stopped => device.busy /\ Len(device.queue) >= config.max - 1
    BY <1>1, <1>2, <2>2 DEF DeviceInv
  <2>4. DeviceInv'
    BY <1>1, <2>1, <2>2 DEF DeviceInv
  <2>5. RunInv'
    BY <1>1, <1>2, <2>1, <2>3 DEF RunInv
  <2> QED BY <2>4, <2>5
<1> QED BY <1>3, <1>4

Inv == FlowControlInv /\ BackloggedIsListed

LEMMA InvInit == ASSUME Init PROVE Inv
<1>1. Types /\ BackloggedIsListed
  BY ListsInit DEF ListsInv
<1>2. quota = 0 /\ device = [queue |-> <<>>, busy |-> FALSE] /\ ~stopped
      /\ \A f \in Flows : flow[f].queue = <<>>
  BY DEF Init, DiscInit
<1>3. config.max \in Nat \ {0}
  BY <1>1, ConfigTypes DEF Types
<1>4. DeviceInv
  BY <1>2, <1>3 DEF DeviceInv
<1>5. RunInv
  BY <1>2 DEF RunInv, Backlogged
<1> QED BY <1>1, <1>4, <1>5 DEF Inv, FlowControlInv

LEMMA InvStep == ASSUME PacketUnits, Inv, [Next]_vars PROVE Inv'
<1>1. FlowControlInv /\ Types /\ DeviceInv /\ RunInv /\ BackloggedIsListed
  BY DEF Inv, FlowControlInv
<1>2. Types' /\ BackloggedIsListed'
  BY <1>1, ListsStep DEF ListsInv
<1> SUFFICES DeviceInv' /\ RunInv'
  BY <1>2 DEF Inv, FlowControlInv
<1>3. ASSUME NEW f \in Flows, NEW s \in config.sizes, Send(f, s) \/ SendDirectly(f, s)
      PROVE  DeviceInv' /\ RunInv'
  BY <1>1, <1>3, SendKeeps, SendDirectlyKeeps
<1>4. CASE RunNextTurn \/ RunRetire
  <2>1. (NextTurn \/ Retire) /\ UNCHANGED <<config, device, stopped, check, quota>>
    BY <1>4 DEF RunNextTurn, RunRetire, linkVars
  <2>2. \A f \in Flows : flow'[f].queue = flow[f].queue
    BY <1>1, <2>1, TurnTakesNothing
  <2> QED BY <1>1, <2>1, <2>2, FlowControlUnchanged
<1>5. CASE RunServe
  BY <1>1, <1>5, ServeKeeps
<1>6. CASE RunEnd
  <2>1. UNCHANGED <<config, flow, device, stopped, check>> /\ quota' = 0
    BY <1>6 DEF RunEnd, discVars
  <2>2. stopped \/ ~Backlogged(flow)
    BY <1>1, <1>6, NoCandidate DEF RunEnd
  <2>3. DeviceInv'
    BY <1>1, <2>1 DEF DeviceInv
  <2> QED BY <1>1, <2>1, <2>2, <2>3 DEF RunInv
<1>7. CASE TransmitComplete
  BY <1>1, <1>7, TransmitKeeps
<1>8. CASE CheckRoom
  BY <1>1, <1>8, CheckKeeps
<1>9. CASE Receive \/ UNCHANGED vars
  <2>1. UNCHANGED <<config, flow, device, stopped, check, quota>>
    BY <1>9 DEF Receive, vars, linkVars, discVars
  <2> QED BY <1>1, <2>1, FlowControlUnchanged
<1> QED BY <1>3, <1>4, <1>5, <1>6, <1>7, <1>8, <1>9 DEF Next, Steps

LEMMA Invariance == ASSUME PacketUnits PROVE Spec => []Inv
<1>1. Init => Inv
  BY InvInit
<1>2. Inv /\ [Next]_vars => Inv'
  BY InvStep
<1> QED BY <1>1, <1>2, PTL DEF Spec

\* With a device queue limited in packets nothing is ever stranded in the queue
\* disc, for any flows, packets and attributes: whenever it holds a packet
\* between two events, flow control has stopped the device and an event that
\* will wake the disc is pending or will be scheduled by one that is.
THEOREM NothingEverStranded == ASSUME PacketUnits PROVE Spec => []NothingStranded
<1>1. Inv => NothingStranded
  <2> SUFFICES ASSUME Inv, Idle, Backlogged(flow)
               PROVE  stopped /\ device.busy /\ (check \/ device.queue # <<>>)
    BY DEF NothingStranded
  <2>1. Types /\ DeviceInv /\ stopped
    BY DEF Inv, FlowControlInv, RunInv, Idle
  <2>2. config.max \in Nat \ {0} /\ device.queue \in Seq(Packet)
    BY <2>1, ConfigTypes DEF Types
  <2>3. device.queue = <<>> => Len(device.queue) = 0
    BY <2>2
  <2> QED BY <2>1, <2>2, <2>3 DEF DeviceInv
<1> QED BY <1>1, Invariance, PTL

\* With a device queue limited in packets a device that is not stopped has room
\* for the next packet: PacketDiscarded of NetDeviceQueue never happens.
THEOREM DeviceAlwaysHasRoom == ASSUME PacketUnits PROVE Spec => []DeviceHasRoom
<1>1. Inv => DeviceHasRoom
  <2> SUFFICES ASSUME Inv, ~stopped, NEW s \in config.sizes
               PROVE  ~Overflows(device.queue, s + Header)
    BY DEF DeviceHasRoom
  <2>1. Types /\ DeviceInv
    BY DEF Inv, FlowControlInv
  <2>2. config.max \in Nat /\ config.unit = "PACKETS" /\ Len(device.queue) \in Nat
    BY <2>1, ConfigTypes DEF Types, PacketUnits
  <2> QED BY <2>1, <2>2 DEF DeviceInv, Overflows
<1> QED BY <1>1, Invariance, PTL

---------------------------------------------------------------------------
(* The order of the packets: sequences of packets                          *)

Earlier(x, y) == x.flow = y.flow => x.id < y.id

\* Packets of one flow are in the order of their numbers.
Ordered(s) == \A i, j \in DOMAIN s : i < j => Earlier(s[i], s[j])

Before(S, T) == \A x \in S, y \in T : Earlier(x, y)

SuffixOf(t, s) == \E k \in 0 .. Len(s) : t = SubSeq(s, k + 1, Len(s))

LEMMA AppendOrdered ==
    ASSUME NEW S, NEW s \in Seq(S), NEW x \in S
    PROVE  /\ ToSet(Append(s, x)) = ToSet(s) \union {x}
           /\ Ordered(s) /\ Before(ToSet(s), {x}) => Ordered(Append(s, x))
<1> DEFINE t == Append(s, x)
<1>1. /\ DOMAIN s = 1 .. Len(s) /\ DOMAIN t = 1 .. Len(s) + 1 /\ Len(s) \in Nat
      /\ \A i \in 1 .. Len(s) : t[i] = s[i]
      /\ t[Len(s) + 1] = x
  OBVIOUS
<1> HIDE DEF t
<1>2. ToSet(t) = ToSet(s) \union {x}
  BY <1>1 DEF ToSet
<1>3. ASSUME Ordered(s), Before(ToSet(s), {x}),
             NEW i \in DOMAIN t, NEW j \in DOMAIN t, i < j
      PROVE  Earlier(t[i], t[j])
  <2>1. i \in 1 .. Len(s) /\ t[i] = s[i] /\ s[i] \in ToSet(s)
    BY <1>1, <1>3 DEF ToSet
  <2>2. CASE j = Len(s) + 1
    BY <1>1, <1>3, <2>1, <2>2 DEF Before
  <2>3. CASE j \in 1 .. Len(s)
    BY <1>1, <1>3, <2>1, <2>3 DEF Ordered
  <2> QED BY <1>1, <2>2, <2>3
<1> QED BY <1>2, <1>3 DEF Ordered, t

LEMMA SuffixOrdered ==
    ASSUME NEW S, NEW s \in Seq(S), NEW t, SuffixOf(t, s)
    PROVE  t \in Seq(S) /\ ToSet(t) \subseteq ToSet(s) /\ (Ordered(s) => Ordered(t))
<1>1. PICK k \in 0 .. Len(s) : t = SubSeq(s, k + 1, Len(s))
  BY DEF SuffixOf
<1>2. /\ t \in Seq(S) /\ Len(s) \in Nat
      /\ DOMAIN s = 1 .. Len(s) /\ DOMAIN t = 1 .. Len(s) - k
      /\ \A i \in 1 .. Len(s) - k : t[i] = s[i + k]
  BY <1>1
<1>3. \A i \in DOMAIN t : i + k \in DOMAIN s
  BY <1>2
<1>4. ToSet(t) \subseteq ToSet(s)
  BY <1>2, <1>3 DEF ToSet
<1>5. Ordered(s) => Ordered(t)
  BY <1>2, <1>3 DEF Ordered
<1> QED BY <1>2, <1>4, <1>5

LEMMA TakenOrdered ==
    ASSUME NEW S, NEW s \in Seq(S), NEW n \in 1 .. Len(s)
    PROVE  LET t == SubSeq(s, n + 1, Len(s))
           IN  /\ SuffixOf(t, s) /\ s[n] \in ToSet(s)
               /\ Ordered(s) => Before({s[n]}, ToSet(t))
<1> DEFINE t == SubSeq(s, n + 1, Len(s))
<1>1. /\ Len(s) \in Nat
      /\ DOMAIN s = 1 .. Len(s) /\ DOMAIN t = 1 .. Len(s) - n
      /\ \A i \in 1 .. Len(s) - n : t[i] = s[i + n]
  OBVIOUS
<1>2. SuffixOf(t, s)
  BY DEF SuffixOf
<1> HIDE DEF t
<1>3. s[n] \in ToSet(s)
  BY <1>1 DEF ToSet
<1>4. ASSUME Ordered(s), NEW y \in ToSet(t) PROVE Earlier(s[n], y)
  <2>1. PICK i \in 1 .. Len(s) - n : y = s[i + n]
    BY <1>1 DEF ToSet
  <2>2. i + n \in DOMAIN s /\ n \in DOMAIN s /\ n < i + n
    BY <1>1
  <2> QED BY <1>4, <2>1, <2>2 DEF Ordered
<1> QED BY <1>2, <1>3, <1>4 DEF Before, t

LEMMA TailOrdered ==
    ASSUME NEW S, NEW s \in Seq(S), s # <<>>
    PROVE  /\ Tail(s) \in Seq(S) /\ Head(s) \in S
           /\ ToSet(s) = {Head(s)} \union ToSet(Tail(s))
           /\ Ordered(s) => Ordered(Tail(s)) /\ Before({Head(s)}, ToSet(Tail(s)))
<1> DEFINE t == Tail(s)
<1>1. /\ Len(s) \in Nat \ {0} /\ t \in Seq(S) /\ Head(s) = s[1] /\ Head(s) \in S
      /\ DOMAIN s = 1 .. Len(s) /\ DOMAIN t = 1 .. Len(s) - 1
      /\ \A i \in 1 .. Len(s) - 1 : t[i] = s[i + 1]
  OBVIOUS
<1> HIDE DEF t
<1>2. ToSet(t) \subseteq ToSet(s) /\ Head(s) \in ToSet(s)
  <2>1. \A i \in DOMAIN t : i + 1 \in DOMAIN s /\ t[i] = s[i + 1]
    BY <1>1
  <2> QED BY <1>1, <2>1 DEF ToSet
<1>3. ASSUME NEW x \in ToSet(s) PROVE x \in {Head(s)} \union ToSet(t)
  <2>1. PICK i \in 1 .. Len(s) : x = s[i]
    BY <1>1 DEF ToSet
  <2>2. CASE i = 1
    BY <1>1, <2>1, <2>2
  <2>3. CASE i # 1
    <3>1. i - 1 \in DOMAIN t /\ t[i - 1] = x
      BY <1>1, <2>1, <2>3
    <3> QED BY <3>1 DEF ToSet
  <2> QED BY <2>2, <2>3
<1>4. ASSUME Ordered(s), NEW i \in DOMAIN t, NEW j \in DOMAIN t, i < j
      PROVE  Earlier(t[i], t[j])
  <2>1. /\ i + 1 \in DOMAIN s /\ j + 1 \in DOMAIN s /\ i + 1 < j + 1
        /\ t[i] = s[i + 1] /\ t[j] = s[j + 1]
    BY <1>1, <1>4
  <2> QED BY <1>4, <2>1 DEF Ordered
<1>5. ASSUME Ordered(s), NEW y \in ToSet(t) PROVE Earlier(Head(s), y)
  <2>1. PICK i \in 1 .. Len(s) - 1 : y = s[i + 1]
    BY <1>1 DEF ToSet
  <2>2. i + 1 \in DOMAIN s /\ 1 \in DOMAIN s /\ 1 < i + 1
    BY <1>1
  <2> QED BY <1>1, <1>5, <2>1, <2>2 DEF Ordered
<1> QED BY <1>1, <1>2, <1>3, <1>4, <1>5 DEF Before, Ordered, t

LEMMA ConcatenationSet ==
    ASSUME NEW S, NEW s \in Seq(S), NEW t \in Seq(S)
    PROVE  ToSet(s \o t) = ToSet(s) \union ToSet(t)
<1> DEFINE u == s \o t
<1>1. /\ Len(s) \in Nat /\ Len(t) \in Nat
      /\ DOMAIN s = 1 .. Len(s) /\ DOMAIN t = 1 .. Len(t)
      /\ DOMAIN u = 1 .. Len(s) + Len(t)
      /\ \A i \in 1 .. Len(s) : u[i] = s[i]
      /\ \A i \in Len(s) + 1 .. Len(s) + Len(t) : u[i] = t[i - Len(s)]
  OBVIOUS
<1> HIDE DEF u
<1>2. ToSet(s) \subseteq ToSet(u)
  BY <1>1 DEF ToSet
<1>3. ToSet(t) \subseteq ToSet(u)
  <2>1. \A i \in DOMAIN t : i + Len(s) \in DOMAIN u /\ u[i + Len(s)] = t[i]
    BY <1>1
  <2> QED BY <2>1 DEF ToSet
<1>4. ToSet(u) \subseteq ToSet(s) \union ToSet(t)
  <2> SUFFICES ASSUME NEW i \in DOMAIN u PROVE u[i] \in ToSet(s) \union ToSet(t)
    BY DEF ToSet
  <2>1. CASE i \in 1 .. Len(s)
    BY <1>1, <2>1 DEF ToSet
  <2>2. CASE i \in Len(s) + 1 .. Len(s) + Len(t)
    <3>1. i - Len(s) \in DOMAIN t /\ u[i] = t[i - Len(s)]
      BY <1>1, <2>2
    <3> QED BY <3>1 DEF ToSet
  <2> QED BY <1>1, <2>1, <2>2
<1> QED BY <1>2, <1>3, <1>4 DEF u

---------------------------------------------------------------------------
(* The line of a flow's packets, from the wire to the queue disc           *)

Held(f) == ToSet(flow[f].queue)
Sent == ToSet(wire) \union ToSet(device.queue)

WirePacket == [id : Nat, flow : Flows]

\* Of each flow, what is on the wire comes before what the device holds, and
\* this before what the queue disc holds; each of the three is in order.
Line ==
    /\ wire \in Seq(WirePacket)
    /\ Ordered(wire) /\ Ordered(device.queue)
    /\ Before(ToSet(wire), ToSet(device.queue))
    /\ \A x \in Sent : x.id \in 1 .. created
    /\ \A f \in Flows :
        /\ Ordered(flow[f].queue) /\ Before(Sent, Held(f))
        /\ \A p \in Held(f) : /\ p.flow = f /\ p.id \in 1 .. created
                              /\ p.size \in config.sizes
    /\ ~config.disc => \A f \in Flows : flow[f].queue = <<>>
    /\ created <= config.packets

\* Every packet of S is one of T, whatever headers were added.
Within(S, T) == \A x \in S : \E y \in T : x.id = y.id /\ x.flow = y.flow

LEMMA WithinBefore ==
    ASSUME NEW S, NEW T, NEW U, Within(S, T), Before(T, U)
    PROVE  Before(S, U)
<1> SUFFICES ASSUME NEW x \in S, NEW u \in U PROVE Earlier(x, u)
  BY DEF Before
<1>1. PICK y \in T : x.id = y.id /\ x.flow = y.flow
  BY DEF Within
<1>2. Earlier(y, u)
  BY DEF Before
<1> QED BY <1>1, <1>2 DEF Earlier

\* What the disc hands to the device is lost, or goes to the end of the queue
\* of the device, from where the first packet may leave for the wire at once.
OnTheWire(p) == [id |-> p.id, flow |-> p.flow]

Sends(p) ==
    \/ UNCHANGED <<device, wire>>
    \/ \E r \in Packet :
        LET q == Append(device.queue, r)
        IN  /\ r.id = p.id /\ r.flow = p.flow
            /\ \/ device'.queue = q /\ wire' = wire
               \/ /\ device'.queue = Tail(q)
                  /\ wire' = Append(wire, OnTheWire(Head(q)))

LEMMA DeviceSendSends ==
    ASSUME Types, NEW p \in Packet, DeviceSend(p)
    PROVE  Sends(p)
<1> DEFINE r == [p EXCEPT !.size = @ + Header]
           q == Append(device.queue, r)
<1>1. r \in Packet /\ r.id = p.id /\ r.flow = p.flow
  BY LinkAssumption DEF Packet
<1> HIDE DEF r
<1>2. \/ UNCHANGED <<device, wire>>
      \/ device' = [device EXCEPT !.queue = q] /\ UNCHANGED wire
      \/ /\ device' = [queue |-> Tail(q), busy |-> TRUE]
         /\ wire' = Append(wire, OnTheWire(Head(q)))
  BY DEF DeviceSend, Transmit, OnTheWire, r
<1> HIDE DEF q
<1>3. \/ UNCHANGED <<device, wire>>
      \/ device'.queue = q /\ wire' = wire
      \/ device'.queue = Tail(q) /\ wire' = Append(wire, OnTheWire(Head(q)))
  BY <1>2 DEF Types
<1> QED BY <1>1, <1>3 DEF Sends, q

\* A transmission moves a packet along, and changes no more.
LEMMA TransmissionOrdered ==
    ASSUME NEW w \in Seq(WirePacket), NEW d \in Seq(Packet), d # <<>>,
           Ordered(w), Ordered(d), Before(ToSet(w), ToSet(d))
    PROVE  LET v == Append(w, OnTheWire(Head(d)))
               t == Tail(d)
           IN  /\ v \in Seq(WirePacket) /\ t \in Seq(Packet)
               /\ Ordered(v) /\ Ordered(t) /\ Before(ToSet(v), ToSet(t))
               /\ Within(ToSet(v) \union ToSet(t), ToSet(w) \union ToSet(d))
               /\ Within(ToSet(w) \union ToSet(d), ToSet(v) \union ToSet(t))
<1> DEFINE h == Head(d)
           x == OnTheWire(h)
           v == Append(w, x)
           t == Tail(d)
<1>1. /\ t \in Seq(Packet) /\ h \in Packet
      /\ ToSet(d) = {h} \union ToSet(t)
      /\ Ordered(t) /\ Before({h}, ToSet(t))
  BY TailOrdered
<1>2. x \in WirePacket /\ x.id = h.id /\ x.flow = h.flow
  BY <1>1 DEF OnTheWire, WirePacket, Packet
<1>3. v \in Seq(WirePacket)
  BY <1>2
<1> HIDE DEF h, x, t
<1>4. Before(ToSet(w), {x})
  BY <1>1, <1>2 DEF Before, Earlier
<1>5. ToSet(v) = ToSet(w) \union {x} /\ Ordered(v)
  BY <1>2, <1>4, AppendOrdered
<1> HIDE DEF v
<1>6. Before(ToSet(v), ToSet(t))
  BY <1>1, <1>2, <1>5 DEF Before, Earlier
<1>7. /\ Within(ToSet(v) \union ToSet(t), ToSet(w) \union ToSet(d))
      /\ Within(ToSet(w) \union ToSet(d), ToSet(v) \union ToSet(t))
  BY <1>1, <1>2, <1>5 DEF Within
<1> QED BY <1>1, <1>3, <1>5, <1>6, <1>7 DEF v, x, t, h

LEMMA SendsOrdered ==
    ASSUME Types, Line, NEW p \in Packet, Before(Sent, {p}), Sends(p)
    PROVE  /\ wire' \in Seq(WirePacket)
           /\ Ordered(wire') /\ Ordered(device'.queue)
           /\ Before(ToSet(wire'), ToSet(device'.queue))
           /\ Within(ToSet(wire') \union ToSet(device'.queue), Sent \union {p})
<1> DEFINE w == wire
           d == device.queue
<1>1. /\ w \in Seq(WirePacket) /\ d \in Seq(Packet)
      /\ Ordered(w) /\ Ordered(d) /\ Before(ToSet(w), ToSet(d))
      /\ Sent = ToSet(w) \union ToSet(d)
  BY DEF Types, Line, Sent
<1>2. CASE UNCHANGED <<device, wire>>
  BY <1>1, <1>2 DEF Within
<1>3. ASSUME NEW r \in Packet, r.id = p.id, r.flow = p.flow,
             LET q == Append(device.queue, r)
             IN  \/ device'.queue = q /\ wire' = wire
                 \/ /\ device'.queue = Tail(q)
                    /\ wire' = Append(wire, OnTheWire(Head(q)))
      PROVE  /\ wire' \in Seq(WirePacket)
             /\ Ordered(wire') /\ Ordered(device'.queue)
             /\ Before(ToSet(wire'), ToSet(device'.queue))
             /\ Within(ToSet(wire') \union ToSet(device'.queue), Sent \union {p})
  <2> DEFINE q == Append(d, r)
  <2>1. q \in Seq(Packet) /\ q # <<>>
    BY <1>1
  <2>2. Before(ToSet(d), {r}) /\ Before(ToSet(w), {r})
    BY <1>1, <1>3 DEF Before, Earlier
  <2>3. ToSet(q) = ToSet(d) \union {r} /\ Ordered(q)
    BY <1>1, <2>2, AppendOrdered
  <2>4. \/ device'.queue = q /\ wire' = w
        \/ device'.queue = Tail(q) /\ wire' = Append(w, OnTheWire(Head(q)))
    BY <1>3
  <2> HIDE DEF q, d, w
  <2>5. Before(ToSet(w), ToSet(q))
    BY <1>1, <2>2, <2>3 DEF Before
  <2>6. Within(ToSet(w) \union ToSet(q), Sent \union {p})
    BY <1>1, <1>3, <2>3 DEF Within
  <2>7. CASE device'.queue = q /\ wire' = w
    BY <1>1, <2>3, <2>5, <2>6, <2>7
  <2>8. CASE device'.queue = Tail(q) /\ wire' = Append(w, OnTheWire(Head(q)))
    <3> DEFINE v == Append(w, OnTheWire(Head(q)))
               t == Tail(q)
    <3>1. /\ v \in Seq(WirePacket)
          /\ Ordered(v) /\ Ordered(t) /\ Before(ToSet(v), ToSet(t))
          /\ Within(ToSet(v) \union ToSet(t), ToSet(w) \union ToSet(q))
      BY <1>1, <2>1, <2>3, <2>5, TransmissionOrdered
    <3> HIDE DEF v, t
    <3>2. Within(ToSet(v) \union ToSet(t), Sent \union {p})
      BY <2>6, <3>1 DEF Within
    <3> QED BY <2>8, <3>1, <3>2 DEF v, t
  <2> QED BY <2>4, <2>7, <2>8
<1> QED BY <1>2, <1>3 DEF Sends

\* A packet arrives at the end of its flow's queue, or is refused, and packets
\* may be dropped from the front of any.
Arrives(f, p) ==
    \A g \in Flows : \E s : /\ \/ s = flow[g].queue
                               \/ g = f /\ s = Append(flow[g].queue, p)
                            /\ SuffixOf(flow'[g].queue, s)

LEMMA EnqueueArrives ==
    ASSUME Types, NEW f \in Flows, NEW p \in Packet, Enqueue(f, p)
    PROVE  Arrives(f, p)
<1> DEFINE woken == IF flow[f].status = "INACTIVE"
                    THEN [flow[f] EXCEPT !.status = "NEW_FLOW",
                                         !.deficit = config.quantum]
                    ELSE flow[f]
           added == IF Len(woken.queue) < config.discMax
                    THEN [woken EXCEPT !.queue = Append(@, p)]
                    ELSE woken
           fl == [flow EXCEPT ![f] = added]
<1>1. /\ flow \in [Flows -> FlowState]
      /\ \A g \in Flows : flow[g] \in FlowState /\ flow[g].queue \in Seq(Packet)
  BY DEF Types, FlowState
<1>2. woken \in FlowState /\ woken.queue = flow[f].queue
  <2>1. config.quantum \in Int
    BY ConfigTypes DEF Types
  <2> QED BY <1>1, <2>1 DEF FlowState
<1> HIDE DEF woken
<1>3. /\ added.queue = flow[f].queue \/ added.queue = Append(flow[f].queue, p)
      /\ added \in FlowState
  <2>1. Append(flow[f].queue, p) \in Seq(Packet)
    BY <1>1
  <2> QED BY <1>2, <2>1 DEF FlowState
<1> HIDE DEF added
<1>4. /\ DOMAIN fl = Flows
      /\ fl \in [Flows -> FlowState]
      /\ \A g \in Flows : \/ fl[g].queue = flow[g].queue
                          \/ g = f /\ fl[g].queue = Append(flow[g].queue, p)
  BY <1>1, <1>3
<1>5. flow' = fl \/ \E g \in Flows : FqCoDelDrop(fl, g)
  BY DEF Enqueue, added, woken
<1> HIDE DEF fl
<1>6. \A g \in Flows : fl[g].queue \in Seq(Packet) /\ fl[g] \in FlowState
  BY <1>4 DEF FlowState
<1>7. \A s \in Seq(Packet) : SuffixOf(s, s)
  <2>1. \A s \in Seq(Packet) : 0 \in 0 .. Len(s) /\ s = SubSeq(s, 0 + 1, Len(s))
    OBVIOUS
  <2> QED BY <2>1 DEF SuffixOf
<1>8. \A g \in Flows : SuffixOf(flow'[g].queue, fl[g].queue)
  <2>1. CASE flow' = fl
    BY <1>6, <1>7, <2>1
  <2>2. ASSUME NEW g \in Flows, FqCoDelDrop(fl, g), NEW h \in Flows
        PROVE  SuffixOf(flow'[h].queue, fl[h].queue)
    <3>1. PICK k \in 1 .. Len(fl[g].queue) :
            flow' = [fl EXCEPT ![g].queue =
                        SubSeq(fl[g].queue, k + 1, Len(fl[g].queue))]
      BY <2>2 DEF FqCoDelDrop
    <3> DEFINE rest == SubSeq(fl[g].queue, k + 1, Len(fl[g].queue))
    <3>2. SuffixOf(rest, fl[g].queue)
      <4>1. k \in 0 .. Len(fl[g].queue)
        OBVIOUS
      <4> QED BY <4>1 DEF SuffixOf
    <3>3. flow' = [fl EXCEPT ![g].queue = rest]
      BY <3>1
    <3> HIDE DEF rest
    <3>4. CASE h = g
      <4>1. flow'[g].queue = rest
        BY <1>4, <1>6, <3>3 DEF FlowState
      <4> QED BY <3>2, <3>4, <4>1
    <3>5. CASE h # g
      <4>1. flow'[h] = fl[h]
        BY <1>4, <3>3, <3>5
      <4> QED BY <1>6, <1>7, <4>1
    <3> QED BY <3>4, <3>5
  <2> QED BY <1>5, <2>1, <2>2
<1> QED BY <1>4, <1>8 DEF Arrives

---------------------------------------------------------------------------
(* Every step keeps the line                                               *)

Contents(f) == {x \in Held(f) \union Sent : x.flow = f}

\* What a step does to the packets inside: none appears, or p at most
Loses == \A f \in Flows : Within(Contents(f)', Contents(f))
Gains(p) == \A f \in Flows : Within(Contents(f)', Contents(f) \union {p})

LEMMA SameQueuesLine ==
    ASSUME Line, UNCHANGED <<config, created, wire>>,
           device'.queue = device.queue,
           \A f \in Flows : flow'[f].queue = flow[f].queue
    PROVE  Line' /\ Loses
<1>1. Sent' = Sent /\ \A f \in Flows : Held(f)' = Held(f)
  BY DEF Sent, Held
<1>2. Line'
  BY <1>1 DEF Line
<1>3. Loses
  BY <1>1 DEF Loses, Contents, Within
<1> QED BY <1>2, <1>3

LEMMA NewPacketLine ==
    ASSUME Types, Line, NEW f \in Flows, NEW s \in config.sizes
    PROVE  LET p == NewPacket(f, s)
           IN  /\ p \in Packet /\ p.id = created + 1 /\ p.flow = f /\ p.size = s
               /\ Before(Sent, {p}) /\ \A g \in Flows : Before(Held(g), {p})
<1> DEFINE p == NewPacket(f, s)
<1>1. p \in Packet /\ p.id = created + 1 /\ p.flow = f /\ p.size = s
  BY NewPacketTypes DEF NewPacket
<1>2. created \in Nat
  BY DEF Types
<1> HIDE DEF p
<1>3. Before(Sent, {p})
  BY <1>1, <1>2 DEF Line, Before, Earlier
<1>4. \A g \in Flows : Before(Held(g), {p})
  BY <1>1, <1>2 DEF Line, Before, Earlier
<1> QED BY <1>1, <1>3, <1>4 DEF p

LEMMA SendLine ==
    ASSUME Types, Line, NEW f \in Flows, NEW s \in config.sizes, Send(f, s)
    PROVE  Line' /\ Gains(NewPacket(f, s))
<1> DEFINE p == NewPacket(f, s)
<1>1. /\ p \in Packet /\ p.id = created + 1 /\ p.flow = f /\ p.size = s
      /\ Before(Sent, {p}) /\ \A g \in Flows : Before(Held(g), {p})
  BY NewPacketLine
<1>2. Arrives(f, p)
  BY <1>1, EnqueueArrives DEF Send
<1>3. /\ UNCHANGED <<config, device, wire>> /\ config.disc
      /\ created' = created + 1 /\ created < config.packets
      /\ created \in Nat /\ config.packets \in Nat
  BY LinkAssumption DEF Send, Types
<1> HIDE DEF p
<1>4. Sent' = Sent
  BY <1>3 DEF Sent
<1>5. ASSUME NEW g \in Flows
      PROVE  /\ Ordered(flow'[g].queue)
             /\ \A x \in Held(g)' : x \in Held(g) \/ (g = f /\ x = p)
  <2> DEFINE old == flow[g].queue
             new == flow'[g].queue
  <2>1. PICK q : /\ q = old \/ (g = f /\ q = Append(old, p))
                 /\ SuffixOf(new, q)
    BY <1>2 DEF Arrives
  <2>2. old \in Seq(Packet) /\ Ordered(old) /\ Before(ToSet(old), {p})
    BY <1>1 DEF Types, FlowState, Line, Held
  <2>3. Held(g)' = ToSet(new) /\ Held(g) = ToSet(old)
    BY DEF Held
  <2> HIDE DEF old, new
  <2>4. /\ q \in Seq(Packet) /\ Ordered(q)
        /\ \A x \in ToSet(q) : x \in ToSet(old) \/ (g = f /\ x = p)
    <3>1. CASE q = old
      BY <2>2, <3>1
    <3>2. CASE g = f /\ q = Append(old, p)
      <4>1. ToSet(q) = ToSet(old) \union {p} /\ Ordered(q)
        BY <1>1, <2>2, <3>2, AppendOrdered
      <4>2. q \in Seq(Packet)
        BY <1>1, <2>2, <3>2
      <4> QED BY <3>2, <4>1, <4>2
    <3> QED BY <2>1, <3>1, <3>2
  <2>5. Ordered(new) /\ ToSet(new) \subseteq ToSet(q)
    BY <2>1, <2>4, SuffixOrdered
  <2> QED BY <2>3, <2>4, <2>5 DEF new
<1>6. Line'
  <2>1. /\ wire' \in Seq(WirePacket) /\ Ordered(wire') /\ Ordered(device'.queue)
        /\ Before(ToSet(wire'), ToSet(device'.queue))
    BY <1>3 DEF Line
  <2>2. \A x \in Sent' : x.id \in 1 .. created'
    BY <1>3, <1>4 DEF Line
  <2>3. ASSUME NEW g \in Flows
        PROVE  /\ Before(Sent', Held(g)')
               /\ \A x \in Held(g)' : /\ x.flow = g /\ x.id \in 1 .. created'
                                      /\ x.size \in config'.sizes
    <3>1. Before(Sent', Held(g)')
      BY <1>1, <1>4, <1>5 DEF Line, Before
    <3>2. \A x \in Held(g)' : /\ x.flow = g /\ x.id \in 1 .. created'
                              /\ x.size \in config'.sizes
      BY <1>1, <1>3, <1>5 DEF Line
    <3> QED BY <3>1, <3>2
  <2>4. config'.disc /\ created' <= config'.packets
    BY <1>3
  <2> QED BY <1>5, <2>1, <2>2, <2>3, <2>4 DEF Line
<1>7. Gains(p)
  BY <1>4, <1>5 DEF Gains, Contents, Within
<1> QED BY <1>6, <1>7 DEF p

LEMMA SendDirectlyLine ==
    ASSUME Types, Line, NEW f \in Flows, NEW s \in config.sizes,
           SendDirectly(f, s)
    PROVE  Line' /\ Gains(NewPacket(f, s))
<1> DEFINE p == NewPacket(f, s)
<1>1. /\ p \in Packet /\ p.id = created + 1 /\ p.flow = f /\ p.size = s
      /\ Before(Sent, {p})
  BY NewPacketLine
<1>2. /\ UNCHANGED <<config, flow>> /\ ~config.disc
      /\ created' = created + 1 /\ created < config.packets
      /\ created \in Nat /\ config.packets \in Nat
  BY LinkAssumption DEF SendDirectly, Types, discVars
<1>3. Sends(p)
  <2>1. CASE stopped
    BY <2>1 DEF SendDirectly, Sends
  <2>2. CASE ~stopped
    BY <1>1, <2>2, DeviceSendSends DEF SendDirectly
  <2> QED BY <2>1, <2>2
<1> HIDE DEF p
<1>4. /\ wire' \in Seq(WirePacket)
      /\ Ordered(wire') /\ Ordered(device'.queue)
      /\ Before(ToSet(wire'), ToSet(device'.queue))
      /\ Within(Sent', Sent \union {p})
  BY <1>1, <1>3, SendsOrdered DEF Sent
<1>5. \A g \in Flows : flow[g].queue = <<>> /\ Held(g) = {} /\ Held(g)' = {}
  BY <1>2 DEF Line, Held, ToSet
<1>6. \A x \in Sent' : x.id \in 1 .. created'
  <2>1. \A y \in Sent \union {p} : y.id \in 1 .. created'
    BY <1>1, <1>2 DEF Line
  <2> QED BY <1>4, <2>1 DEF Within
<1>7. Line'
  BY <1>2, <1>4, <1>5, <1>6 DEF Line, Before
<1>8. Gains(p)
  BY <1>4, <1>5 DEF Gains, Contents, Within
<1> QED BY <1>7, <1>8 DEF p

LEMMA ServeLine ==
    ASSUME Types, Line, RunServe
    PROVE  Line' /\ Loses
<1>0. PICK c \in Flows : c = Candidate
  BY CandidateTypes DEF RunServe, MayServe
<1> DEFINE q == flow[c].queue
<1>1. /\ q \in Seq(Packet)
      /\ Ordered(q) /\ Before(Sent, ToSet(q))
      /\ \A x \in ToSet(q) : x.flow = c /\ x.id \in 1 .. created
  BY <1>0, CandidateTypes DEF RunServe, MayServe, Line, Held
<1>2. PICK n \in 1 .. Len(q) :
        /\ q[n] \in Packet /\ DeviceSend(q[n])
        /\ flow'[c].queue = SubSeq(q, n + 1, Len(q))
        /\ \A f \in Flows \ {c} : flow'[f] = flow[f]
  BY <1>0, ServeTakes
<1>3. UNCHANGED <<config, created>>
  BY DEF RunServe
<1> DEFINE p == q[n]
           t == SubSeq(q, n + 1, Len(q))
<1>4. SuffixOf(t, q) /\ p \in ToSet(q) /\ Before({p}, ToSet(t))
  BY <1>1, TakenOrdered
<1>5. /\ Held(c) = ToSet(q) /\ Held(c)' = ToSet(t) /\ flow'[c].queue = t
      /\ \A f \in Flows \ {c} : Held(f)' = Held(f) /\ flow'[f].queue = flow[f].queue
  BY <1>1, <1>2 DEF Held
<1> HIDE DEF t
<1>6. ToSet(t) \subseteq ToSet(q) /\ Ordered(t)
  BY <1>1, <1>4, SuffixOrdered
<1>7. p \in Packet /\ Sends(p)
  BY <1>2, DeviceSendSends
<1> HIDE DEF p, q
<1>8. Before(Sent, {p})
  BY <1>1, <1>4 DEF Before
<1>9. /\ wire' \in Seq(WirePacket)
      /\ Ordered(wire') /\ Ordered(device'.queue)
      /\ Before(ToSet(wire'), ToSet(device'.queue))
      /\ Within(Sent', Sent \union {p})
  BY <1>7, <1>8, SendsOrdered DEF Sent
<1>10. \A x \in Sent' : x.id \in 1 .. created'
  <2>1. \A y \in Sent \union {p} : y.id \in 1 .. created'
    BY <1>1, <1>3, <1>4 DEF Line
  <2> QED BY <1>9, <2>1 DEF Within
<1>11. ASSUME NEW f \in Flows PROVE Before(Sent', Held(f)')
  <2>1. CASE f = c
    <3>1. Before(Sent \union {p}, ToSet(t))
      BY <1>1, <1>4, <1>6 DEF Before
    <3> QED BY <1>5, <1>9, <2>1, <3>1, WithinBefore
  <2>2. CASE f # c
    <3>1. Before(Sent \union {p}, Held(f))
      BY <1>1, <1>4, <2>2 DEF Line, Before, Earlier
    <3> QED BY <1>5, <1>9, <2>2, <3>1, WithinBefore
  <2> QED BY <2>1, <2>2
<1>12. \A f \in Flows :
        /\ Ordered(flow'[f].queue)
        /\ \A x \in Held(f)' : /\ x.flow = f /\ x.id \in 1 .. created'
                               /\ x.size \in config'.sizes
  BY <1>3, <1>5, <1>6 DEF Line
<1>13. config'.disc
  <2>1. q # <<>>
    BY <1>1, <1>2 DEF p
  <2> QED BY <1>1, <1>3, <2>1 DEF Line, q
<1>14. Line'
  BY <1>3, <1>9, <1>10, <1>11, <1>12, <1>13 DEF Line
<1>15. Loses
  <2> SUFFICES ASSUME NEW f \in Flows, NEW x \in Held(f)' \union Sent', x.flow = f
               PROVE  \E y \in Held(f) \union Sent : x.id = y.id /\ y.flow = f
    BY DEF Loses, Contents, Within
  <2>1. CASE x \in Held(f)'
    BY <1>5, <1>6, <2>1
  <2>2. CASE x \in Sent'
    <3>1. PICK y \in Sent \union {p} : x.id = y.id /\ x.flow = y.flow
      BY <1>9, <2>2 DEF Within
    <3>2. CASE y = p
      <4>1. p.flow = c /\ p \in Held(c)
        BY <1>1, <1>4, <1>5
      <4> QED BY <3>1, <3>2, <4>1
    <3> QED BY <3>1, <3>2
  <2> QED BY <2>1, <2>2
<1> QED BY <1>14, <1>15


LEMMA TransmitLine ==
    ASSUME Types, Line, TransmitComplete
    PROVE  Line' /\ Loses
<1> DEFINE w == wire
           d == device.queue
           v == Append(w, OnTheWire(Head(d)))
           t == Tail(d)
<1>1. /\ w \in Seq(WirePacket) /\ d \in Seq(Packet)
      /\ Ordered(w) /\ Ordered(d) /\ Before(ToSet(w), ToSet(d))
      /\ Sent = ToSet(w) \union ToSet(d)
  BY DEF Types, Line, Sent
<1>2. UNCHANGED <<config, created, flow>> /\ \A f \in Flows : Held(f)' = Held(f)
  BY DEF TransmitComplete, discVars, Held
<1>3. CASE d = <<>>
  <2>1. device'.queue = d /\ wire' = w
    BY <1>3 DEF TransmitComplete, Types
  <2> QED BY <1>2, <2>1, SameQueuesLine
<1>4. CASE d # <<>>
  <2>1. device'.queue = t /\ wire' = v
    BY <1>4 DEF TransmitComplete, Transmit, Types, OnTheWire
  <2>2. /\ v \in Seq(WirePacket)
        /\ Ordered(v) /\ Ordered(t) /\ Before(ToSet(v), ToSet(t))
        /\ Within(ToSet(v) \union ToSet(t), Sent)
    BY <1>1, <1>4, TransmissionOrdered
  <2>3. Sent' = ToSet(v) \union ToSet(t)
    BY <2>1 DEF Sent
  <2> HIDE DEF v, t, w, d
  <2>4. \A x \in Sent' : x.id \in 1 .. created'
    BY <1>2, <2>2, <2>3 DEF Line, Within
  <2>5. \A f \in Flows : Before(Sent', Held(f)')
    BY <1>2, <2>2, <2>3, WithinBefore DEF Line
  <2>6. Line'
    BY <1>2, <2>1, <2>2, <2>4, <2>5 DEF Line
  <2>7. Loses
    BY <1>2, <2>2, <2>3 DEF Loses, Contents, Within
  <2> QED BY <2>6, <2>7
<1> QED BY <1>3, <1>4

LEMMA ReceiveLine ==
    ASSUME Types, Line, Receive
    PROVE  /\ Line' /\ Loses
           /\ Head(wire) \in WirePacket /\ Head(wire) \in Contents(Head(wire).flow)
           /\ \A f \in Flows : Contents(f)' = Contents(f) \ {Head(wire)}
           /\ \A y \in Contents(Head(wire).flow) \ {Head(wire)} :
                Head(wire).id < y.id /\ y.id \in Nat
<1> DEFINE d == ToSet(device.queue)
<1>1. /\ wire \in Seq(WirePacket) /\ wire # <<>> /\ wire' = Tail(wire)
      /\ Ordered(wire)
      /\ UNCHANGED <<config, created, flow, device>>
      /\ \A f \in Flows : Held(f)' = Held(f)
  BY DEF Line, Receive, discVars, Held
<1>2. PICK h \in WirePacket : h = Head(wire)
  BY <1>1, TailOrdered
<1> DEFINE w == ToSet(wire)
           t == ToSet(Tail(wire))
<1>3. /\ w = {h} \union t /\ Ordered(Tail(wire)) /\ Before({h}, t)
      /\ Tail(wire) \in Seq(WirePacket)
  BY <1>1, <1>2, TailOrdered
<1>4. Sent = w \union d /\ Sent' = t \union d
  BY <1>1 DEF Sent
<1> HIDE DEF w, t, d
<1>5. Before({h}, d) /\ \A f \in Flows : Before({h}, Held(f))
  BY <1>3, <1>4 DEF Line, Before, w, d
<1>6. Before(t, d)
  BY <1>3 DEF Line, Before, w, d
<1>7. Line'
  <2>1. \A x \in Sent' : x \in Sent
    BY <1>3, <1>4
  <2>2. \A x \in Sent' : x.id \in 1 .. created'
    BY <1>1, <2>1 DEF Line
  <2>3. \A f \in Flows : Before(Sent', Held(f)')
    BY <1>1, <2>1 DEF Line, Before
  <2>4. Before(ToSet(wire'), ToSet(device'.queue))
    BY <1>1, <1>6 DEF t, d
  <2> QED BY <1>1, <1>3, <2>2, <2>3, <2>4 DEF Line
<1>8. Loses
  BY <1>1, <1>3, <1>4 DEF Loses, Contents, Within
<1>9. h \in Contents(h.flow)
  BY <1>3, <1>4 DEF Contents
<1>10. ASSUME NEW f \in Flows, NEW x \in t \union d \union Held(f)
       PROVE  Earlier(h, x) /\ x.id \in Nat
  <2>1. created \in Nat
    BY DEF Types
  <2>2. x \in Held(f) => x.id \in Nat
    BY <2>1 DEF Line
  <2>3. x \in Sent => x.id \in Nat
    BY <2>1 DEF Line
  <2> QED BY <1>3, <1>4, <1>5, <1>10, <2>2, <2>3 DEF Before
<1>11. h.id \in Nat /\ h.flow \in Flows
  BY DEF WirePacket
<1>12. \A y \in Contents(h.flow) \ {h} : h.id < y.id /\ y.id \in Nat
  BY <1>3, <1>4, <1>10, <1>11 DEF Contents, Earlier
<1>13. ASSUME NEW f \in Flows PROVE Contents(f)' = Contents(f) \ {h}
  <2>1. h \notin t \union d \union Held(f)
    BY <1>10, <1>11 DEF Earlier
  <2> QED BY <1>1, <1>3, <1>4, <2>1 DEF Contents
<1> QED BY <1>2, <1>7, <1>8, <1>9, <1>12, <1>13

---------------------------------------------------------------------------
(* The bounds of the type invariant                                        *)

\* No flow owes as much as m bytes.
Deficits(m) == \A f \in Flows : flow[f].deficit \in 1 - m .. config.quantum

Bounds == quota \in 0 .. config.quota /\ Deficits(Mtu)

\* Enqueue gives a flow a full deficit, or leaves its own.
LEMMA EnqueueDeficits ==
    ASSUME Types, NEW m \in Nat \ {0}, Deficits(m),
           NEW f \in Flows, NEW p \in Packet, Enqueue(f, p)
    PROVE  \A g \in Flows : flow'[g].deficit \in 1 - m .. config.quantum
<1> DEFINE woken == IF flow[f].status = "INACTIVE"
                    THEN [flow[f] EXCEPT !.status = "NEW_FLOW",
                                         !.deficit = config.quantum]
                    ELSE flow[f]
           added == IF Len(woken.queue) < config.discMax
                    THEN [woken EXCEPT !.queue = Append(@, p)]
                    ELSE woken
           fl == [flow EXCEPT ![f] = added]
           allowed == 1 - m .. config.quantum
<1>1. /\ flow \in [Flows -> FlowState]
      /\ config.quantum \in Nat \ {0}
      /\ \A g \in Flows : flow[g] \in FlowState /\ flow[g].deficit \in allowed
  BY ConfigTypes DEF Types, Deficits
<1>2. woken \in FlowState /\ woken.deficit \in allowed
  <2>1. config.quantum \in Int /\ config.quantum \in allowed
    BY <1>1
  <2> HIDE DEF allowed
  <2> QED BY <1>1, <2>1 DEF FlowState
<1> HIDE DEF woken, allowed
<1>3. added.deficit = woken.deficit
  BY <1>2 DEF FlowState
<1> HIDE DEF added
<1>4. DOMAIN fl = Flows /\ \A g \in Flows : fl[g].deficit \in allowed
  BY <1>1, <1>2, <1>3
<1>5. flow' = fl \/ \E g \in Flows : FqCoDelDrop(fl, g)
  BY DEF Enqueue, added, woken
<1> HIDE DEF fl
<1>6. ASSUME NEW g \in Flows, FqCoDelDrop(fl, g), NEW h \in Flows
      PROVE  flow'[h].deficit \in allowed
  <2>1. PICK rest : flow' = [fl EXCEPT ![g].queue = rest]
    BY <1>6 DEF FqCoDelDrop
  <2>2. flow'[h].deficit = fl[h].deficit
    BY <1>4, <2>1
  <2> QED BY <1>4, <2>2
<1> QED BY <1>4, <1>5, <1>6 DEF allowed

\* A turn adds a quantum to a deficit used up; Retire leaves the deficits.
LEMMA TurnDeficits ==
    ASSUME Types, NEW m \in Nat \ {0}, Deficits(m), NextTurn \/ Retire
    PROVE  \A f \in Flows : flow'[f].deficit \in 1 - m .. config.quantum
<1>0. PICK c \in Flows : c = Candidate
  BY CandidateTypes DEF NextTurn, Retire
<1>1. /\ flow \in [Flows -> FlowState]
      /\ config.quantum \in Nat \ {0}
      /\ \A f \in Flows : flow[f].deficit \in 1 - m .. config.quantum
  BY ConfigTypes DEF Types, Deficits
<1>2. CASE NextTurn
  <2>1. /\ flow[c].deficit <= 0
        /\ flow' = [flow EXCEPT ![c].deficit = @ + config.quantum,
                                ![c].status = "OLD_FLOW"]
    BY <1>0, <1>2 DEF NextTurn
  <2>2. /\ flow'[c].deficit = flow[c].deficit + config.quantum
        /\ \A f \in Flows \ {c} : flow'[f] = flow[f]
    BY <1>1, <2>1 DEF FlowState
  <2> QED BY <1>1, <2>1, <2>2
<1>3. CASE Retire
  <2>1. \E status : flow' = [flow EXCEPT ![c].dropping = FALSE,
                                         ![c].status = status]
    BY <1>0, <1>3 DEF Retire
  <2>2. \A f \in Flows : flow'[f].deficit = flow[f].deficit
    BY <1>1, <2>1 DEF FlowState
  <2> QED BY <1>1, <2>2
<1> QED BY <1>2, <1>3

\* A flow pays for the packet it sends, which is of m bytes at most.
LEMMA ServeDeficits ==
    ASSUME Types, Line, NEW m \in Nat \ {0}, Deficits(m), config.sizes \subseteq 1 .. m,
           RunServe
    PROVE  \A f \in Flows : flow'[f].deficit \in 1 - m .. config.quantum
<1>0. PICK c \in Flows : c = Candidate
  BY CandidateTypes DEF RunServe, MayServe
<1> DEFINE q == flow[c].queue
<1>1. /\ flow \in [Flows -> FlowState]
      /\ config.quantum \in Nat \ {0}
      /\ q \in Seq(Packet)
      /\ \A f \in Flows : flow[f].deficit \in 1 - m .. config.quantum
  BY ConfigTypes DEF Types, Deficits, FlowState
<1>2. PICK o \in CoDelOutcomes(flow[c]) :
        /\ o.drops < Len(q)
        /\ flow' = [flow EXCEPT ![c].queue = SubSeq(q, o.drops + 2, Len(q)),
                                ![c].dropping = o.dropping,
                                ![c].deficit = @ - q[o.drops + 1].size]
  BY <1>0 DEF RunServe, Serve, HandedOut
<1>3. o.drops \in 0 .. Len(q)
  BY DEF CoDelOutcomes
<1>4. q[o.drops + 1] \in ToSet(q)
  <2>1. o.drops + 1 \in DOMAIN q
    BY <1>1, <1>2, <1>3
  <2> QED BY <2>1 DEF ToSet
<1>5. q[o.drops + 1].size \in 1 .. m
  BY <1>1, <1>4 DEF Line, Held
<1>6. flow[c].deficit > 0
  BY <1>0 DEF RunServe, MayServe
<1>7. PICK rest, dropping, size :
        /\ size = q[o.drops + 1].size
        /\ flow' = [flow EXCEPT ![c].queue = rest, ![c].dropping = dropping,
                                ![c].deficit = @ - size]
  BY <1>2
<1>8. /\ flow'[c].deficit = flow[c].deficit - size
      /\ \A f \in Flows \ {c} : flow'[f] = flow[f]
  BY <1>1, <1>7 DEF FlowState
<1> QED BY SMTT(30), <1>1, <1>5, <1>6, <1>7, <1>8

---------------------------------------------------------------------------
(* Every step keeps the line and the bounds                                *)

LineInv == ListsInv /\ Line /\ Bounds

LEMMA LineInit == ASSUME Init PROVE LineInv
<1>1. ListsInv
  BY ListsInit
<1>2. /\ wire = <<>> /\ device.queue = <<>> /\ created = 0 /\ quota = 0
      /\ \A f \in Flows : flow[f].queue = <<>> /\ flow[f].deficit = 0
  BY DEF Init, DiscInit
<1>3. /\ Mtu \in Nat \ {0} /\ config.quantum \in Nat \ {0}
      /\ config.packets \in Nat /\ config.quota \in Nat
  BY <1>1, ConfigTypes, LinkAssumption DEF ListsInv, Types
<1>4. ToSet(wire) = {} /\ ToSet(device.queue) = {} /\ \A f \in Flows : Held(f) = {}
  BY <1>2 DEF ToSet, Held
<1>5. Line
  BY <1>2, <1>3, <1>4 DEF Line, Ordered, Before, Sent
<1>6. Bounds
  BY <1>2, <1>3 DEF Bounds, Deficits
<1> QED BY <1>1, <1>5, <1>6 DEF LineInv

LEMMA LineStep ==
    ASSUME LineInv, [Next]_vars
    PROVE  /\ LineInv' /\ Line
           /\ \/ Loses /\ UNCHANGED <<created, delivered>>
              \/ \E f \in Flows, s \in config.sizes :
                    /\ Gains(NewPacket(f, s))
                    /\ created' = created + 1 /\ UNCHANGED delivered
              \/ Receive
<1>1. /\ ListsInv /\ Types /\ Line /\ Bounds
      /\ Mtu \in Nat \ {0} /\ Deficits(Mtu) /\ config.sizes \subseteq 1 .. Mtu
  BY LinkAssumption DEF LineInv, ListsInv, Types, Bounds
<1>2. ListsInv' /\ Types'
  BY <1>1, ListsStep DEF ListsInv
<1>3. config' = config /\ config.quota \in Nat \ {0} /\ quota \in 0 .. config.quota
  BY <1>1, ConfigTypes DEF Types, Bounds, Next, Steps, Send, SendDirectly,
     RunNextTurn, RunRetire, RunServe, RunEnd, TransmitComplete, CheckRoom,
     Receive, vars
<1>4. ASSUME \A f \in Flows : flow'[f].deficit \in 1 - Mtu .. config.quantum,
             quota' \in {0, quota, quota - 1, config.quota}, quota' \in Nat
      PROVE  Bounds'
  BY <1>3, <1>4 DEF Bounds, Deficits
<1>5. ASSUME flow' = flow, quota' \in {0, quota, config.quota} PROVE Bounds'
  BY <1>1, <1>3, <1>5 DEF Bounds, Deficits
<1>6. ASSUME NEW f \in Flows, NEW s \in config.sizes, Send(f, s)
      PROVE  Line' /\ Bounds' /\ Gains(NewPacket(f, s))
  <2>1. NewPacket(f, s) \in Packet /\ Enqueue(f, NewPacket(f, s))
    BY <1>1, <1>6, NewPacketTypes DEF Send
  <2>2. \A g \in Flows : flow'[g].deficit \in 1 - Mtu .. config.quantum
    BY <1>1, <2>1, EnqueueDeficits
  <2>3. quota' = config.quota
    BY <1>6 DEF Send
  <2> QED BY <1>1, <1>3, <1>4, <1>6, <2>2, <2>3, SendLine
<1>7. ASSUME NEW f \in Flows, NEW s \in config.sizes, SendDirectly(f, s)
      PROVE  Line' /\ Bounds' /\ Gains(NewPacket(f, s))
  <2>1. flow' = flow /\ quota' = quota
    BY <1>7 DEF SendDirectly, discVars
  <2> QED BY <1>1, <1>5, <1>7, <2>1, SendDirectlyLine
<1>8. CASE RunNextTurn \/ RunRetire
  <2>1. (NextTurn \/ Retire) /\ UNCHANGED linkVars
    BY <1>8 DEF RunNextTurn, RunRetire
  <2>2. \A f \in Flows : flow'[f].queue = flow[f].queue
    BY <1>1, <2>1, TurnTakesNothing
  <2>3. Line' /\ Loses
    BY <1>1, <1>3, <2>1, <2>2, SameQueuesLine DEF linkVars
  <2>4. Bounds'
    BY <1>1, <1>3, <1>4, <2>1, TurnDeficits DEF linkVars
  <2> QED BY <1>1, <1>2, <2>1, <2>3, <2>4 DEF LineInv, linkVars
<1>9. CASE RunServe
  <2>1. quota' \in {0, quota - 1} /\ quota' \in Nat
    <3>1. quota # 0 /\ quota' \in {0, quota - 1}
      BY <1>9 DEF RunServe, Running, Idle
    <3> QED BY <1>3, <3>1
  <2>2. Bounds'
    BY <1>1, <1>4, <1>9, <2>1, ServeDeficits
  <2>3. UNCHANGED <<created, delivered>>
    BY <1>9 DEF RunServe
  <2> QED BY <1>1, <1>2, <1>9, <2>2, <2>3, ServeLine DEF LineInv
<1>10. CASE RunEnd \/ CheckRoom \/ UNCHANGED vars
  <2>1. /\ flow' = flow /\ UNCHANGED <<created, wire, device, delivered>>
        /\ quota' \in {0, quota, config.quota}
    BY <1>10 DEF RunEnd, CheckRoom, vars, linkVars, discVars
  <2> QED BY <1>1, <1>2, <1>3, <1>5, <2>1, SameQueuesLine DEF LineInv
<1>11. CASE TransmitComplete
  <2>1. flow' = flow /\ quota' = quota /\ UNCHANGED <<created, delivered>>
    BY <1>11 DEF TransmitComplete, discVars
  <2> QED BY <1>1, <1>2, <1>5, <1>11, <2>1, TransmitLine DEF LineInv
<1>12. CASE Receive
  <2>1. flow' = flow /\ quota' = quota
    BY <1>12 DEF Receive, discVars
  <2> QED BY <1>1, <1>2, <1>5, <1>12, <2>1, ReceiveLine DEF LineInv
<1>13. ASSUME NEW f \in Flows, NEW s \in config.sizes,
              Send(f, s) \/ SendDirectly(f, s)
       PROVE  created' = created + 1 /\ UNCHANGED delivered
  BY <1>13 DEF Send, SendDirectly
<1>14. CASE \E f \in Flows, s \in config.sizes : Send(f, s) \/ SendDirectly(f, s)
  BY <1>1, <1>2, <1>6, <1>7, <1>13, <1>14 DEF LineInv
<1> QED BY <1>8, <1>9, <1>10, <1>11, <1>12, <1>14 DEF Next, Steps

LEMMA LineInvariance == Spec => []LineInv
<1>1. Init => LineInv
  BY LineInit
<1>2. LineInv /\ [Next]_vars => LineInv'
  BY LineStep
<1> QED BY <1>1, <1>2, PTL DEF Spec

\* Every variable keeps its type, for any flows and configurations: a deficit
\* never falls by an MTU below 0 nor passes the quantum, whatever the order of
\* turns, drops and retirements, and the queue of a flow holds only its own
\* packets.
THEOREM LinkTypeCorrect == Spec => []LinkTypeOK
<1>1. LineInv => LinkTypeOK
  <2> SUFFICES ASSUME LineInv PROVE LinkTypeOK
    OBVIOUS
  <2>1. Types /\ Line /\ Bounds
    BY DEF LineInv, ListsInv
  <2>2. ASSUME NEW f \in Flows
        PROVE  /\ flow[f].status \in {"INACTIVE", "NEW_FLOW", "OLD_FLOW"}
               /\ flow[f].dropping \in BOOLEAN
    BY <2>1 DEF Types, FlowState
  <2>3. created \in 0 .. config.packets
    <3>1. created \in Nat /\ created <= config.packets /\ config.packets \in Nat
      BY <2>1, LinkAssumption DEF Types, Line
    <3> QED BY <3>1
  <2>4. {device.busy, stopped, check} \subseteq BOOLEAN /\ config \in Configs
    BY <2>1 DEF Types
  <2> QED BY <2>1, <2>2, <2>3, <2>4 DEF LinkTypeOK, Line, Held, Bounds, Deficits
<1> QED BY <1>1, LineInvariance, PTL

---------------------------------------------------------------------------
(* The link is a pipe                                                      *)

Numbers == 1 .. Max({c.packets : c \in Configs})

Pending == [f \in Flows |-> Ids(flow[f].queue \o device.queue, f)
                              \union Ids(wire, f)]

Waiting(f) == {x.id : x \in Contents(f)}

LEMMA NumbersSuffice ==
    ASSUME PacketsBounded, NEW c \in Configs
    PROVE  1 .. c.packets \subseteq Numbers
<1> DEFINE S == {d.packets : d \in Configs}
<1>1. S \subseteq Nat
  BY LinkAssumption
<1>2. PICK m \in S : \A n \in S : m >= n
  BY <1>1 DEF PacketsBounded
<1>3. Max(S) \in S /\ \A n \in S : Max(S) >= n
  BY <1>2 DEF Max
<1>4. c.packets \in S
  OBVIOUS
<1> HIDE DEF S
<1>5. Max(S) \in Nat /\ c.packets \in Nat /\ Max(S) >= c.packets
  BY <1>1, <1>3, <1>4
<1>6. Numbers = 1 .. Max(S)
  BY DEF Numbers, S
<1> QED BY <1>5, <1>6

LEMMA PendingWaits ==
    ASSUME Types, Line
    PROVE  Pending = [f \in Flows |-> Waiting(f)]
<1>1. ASSUME NEW f \in Flows
      PROVE  Ids(flow[f].queue \o device.queue, f) \union Ids(wire, f) = Waiting(f)
  <2>1. /\ flow[f].queue \in Seq(Packet) /\ device.queue \in Seq(Packet)
        /\ wire \in Seq(WirePacket)
    BY DEF Types, Line, FlowState
  <2>2. Contents(f) = {y \in ToSet(flow[f].queue) \union (ToSet(wire) \union ToSet(device.queue)) :
                             y.flow = f}
    BY DEF Contents, Held, Sent
  <2>3. Waiting(f) = {x.id : x \in Contents(f)}
    BY DEF Waiting
  <2>4. Ids(flow[f].queue \o device.queue, f) \union Ids(wire, f)
          = {x.id : x \in {y \in ToSet(flow[f].queue) \union (ToSet(wire) \union ToSet(device.queue)) :
                             y.flow = f}}
    <3>1. ToSet(flow[f].queue \o device.queue)
            = ToSet(flow[f].queue) \union ToSet(device.queue)
      BY <2>1, ConcatenationSet
    <3> QED BY <3>1 DEF Ids
  <2> QED BY <2>2, <2>3, <2>4
<1> QED BY <1>1 DEF Pending

LEMMA PendingWaitsNext ==
    ASSUME Types', Line'
    PROVE  Pending' = [f \in Flows |-> Waiting(f)']
<1>1. ASSUME NEW f \in Flows
      PROVE  Ids(flow'[f].queue \o device'.queue, f) \union Ids(wire', f)
               = Waiting(f)'
  <2>1. /\ flow'[f].queue \in Seq(Packet) /\ device'.queue \in Seq(Packet)
        /\ wire' \in Seq(WirePacket)
    BY DEF Types, Line, FlowState
  <2>2. Contents(f)' = {y \in ToSet(flow'[f].queue) \union (ToSet(wire') \union ToSet(device'.queue)) :
                             y.flow = f}
    BY DEF Contents, Held, Sent
  <2>3. Waiting(f)' = {x.id : x \in Contents(f)'}
    BY DEF Waiting
  <2>4. Ids(flow'[f].queue \o device'.queue, f) \union Ids(wire', f)
          = {x.id : x \in {y \in ToSet(flow'[f].queue) \union (ToSet(wire') \union ToSet(device'.queue)) :
                             y.flow = f}}
    <3>1. ToSet(flow'[f].queue \o device'.queue)
            = ToSet(flow'[f].queue) \union ToSet(device'.queue)
      BY <2>1, ConcatenationSet
    <3> QED BY <3>1 DEF Ids
  <2> QED BY <2>2, <2>3, <2>4
<1> QED BY <1>1 DEF Pending

LEMMA WaitingSent ==
    ASSUME Line, NEW f \in Flows
    PROVE  Waiting(f) \subseteq 1 .. created
BY DEF Waiting, Contents, Line

LEMMA WaitingSentNext ==
    ASSUME Line', NEW f \in Flows
    PROVE  Waiting(f)' \subseteq 1 .. created'
BY DEF Waiting, Contents, Line

\* What a step may do to the numbers on their way, in Pipe's terms
LEMMA PipeStep ==
    ASSUME PacketsBounded, LineInv, [Next]_vars
    PROVE  /\ Pending' \in [Flows -> SUBSET Numbers]
           /\ \/ /\ \A f \in Flows : Pending'[f] \subseteq Pending[f]
                 /\ UNCHANGED <<created, delivered>>
              \/ \E f \in Flows :
                  /\ created' = created + 1 /\ UNCHANGED delivered
                  /\ \A g \in Flows :
                       Pending'[g] \subseteq
                         Pending[g] \union (IF g = f THEN {created'} ELSE {})
              \/ \E f \in Flows :
                  /\ Pending[f] # {}
                  /\ delivered' = [delivered EXCEPT ![f] = Min(Pending[f])]
                  /\ Pending' = [Pending EXCEPT ![f] = @ \ {Min(Pending[f])}]
                  /\ UNCHANGED created
<1>1. Types /\ Line /\ Types' /\ Line'
  BY LineStep DEF LineInv, ListsInv
<1>2. /\ Pending = [f \in Flows |-> Waiting(f)]
      /\ Pending' = [f \in Flows |-> Waiting(f)']
  BY <1>1, PendingWaits, PendingWaitsNext
<1>3. Pending' \in [Flows -> SUBSET Numbers]
  <2>1. /\ config' \in Configs /\ created' \in Nat
        /\ created' <= config'.packets /\ config'.packets \in Nat
    BY <1>1, LinkAssumption DEF Types, Line
  <2>2. 1 .. config'.packets \subseteq Numbers
    BY <2>1, NumbersSuffice
  <2>3. \A f \in Flows : Waiting(f)' \subseteq 1 .. created'
    BY <1>1, WaitingSentNext
  <2>4. 1 .. created' \subseteq 1 .. config'.packets
    BY <2>1
  <2> QED BY <1>2, <2>2, <2>3, <2>4
<1>4. CASE Loses /\ UNCHANGED <<created, delivered>>
  <2>1. \A f \in Flows : Waiting(f)' \subseteq Waiting(f)
    BY <1>4 DEF Loses, Within, Waiting
  <2> QED BY <1>2, <1>3, <1>4, <2>1
<1>5. ASSUME NEW f \in Flows, NEW s \in config.sizes, Gains(NewPacket(f, s)),
             created' = created + 1, UNCHANGED delivered
      PROVE  \A g \in Flows :
               Pending'[g] \subseteq
                 Pending[g] \union (IF g = f THEN {created'} ELSE {})
  <2> DEFINE p == NewPacket(f, s)
  <2>1. p.id = created + 1 /\ p.flow = f
    BY DEF NewPacket
  <2> HIDE DEF p
  <2>2. ASSUME NEW g \in Flows, NEW n \in Waiting(g)'
        PROVE  n \in Waiting(g) \union (IF g = f THEN {created'} ELSE {})
    <3>1. PICK x : x \in Contents(g)' /\ n = x.id
      BY <2>2 DEF Waiting
    <3>2. PICK y \in Contents(g) \union {p} : x.id = y.id /\ x.flow = y.flow
      BY <1>5, <3>1 DEF Gains, Within, p
    <3>3. x.flow = g
      BY <3>1 DEF Contents
    <3> QED BY <1>5, <2>1, <3>1, <3>2, <3>3 DEF Waiting
  <2> QED BY <1>2, <2>2
<1>6. ASSUME Receive, ~(Loses /\ UNCHANGED <<created, delivered>>)
      PROVE  \E f \in Flows :
                  /\ Pending[f] # {}
                  /\ delivered' = [delivered EXCEPT ![f] = Min(Pending[f])]
                  /\ Pending' = [Pending EXCEPT ![f] = @ \ {Min(Pending[f])}]
                  /\ UNCHANGED created
  <2>1. /\ Loses
        /\ Head(wire) \in WirePacket /\ Head(wire) \in Contents(Head(wire).flow)
        /\ \A f \in Flows : Contents(f)' = Contents(f) \ {Head(wire)}
        /\ \A y \in Contents(Head(wire).flow) \ {Head(wire)} :
             Head(wire).id < y.id /\ y.id \in Nat
    BY <1>1, <1>6, ReceiveLine
  <2>2. PICK h \in WirePacket : h = Head(wire)
    BY <2>1
  <2>3. PICK f \in Flows : f = h.flow
    BY DEF WirePacket
  <2>4. /\ delivered' = [delivered EXCEPT ![f] = h.id]
        /\ created' = created
    BY <1>6, <2>1, <2>2, <2>3 DEF Receive
  <2>5. /\ h \in Contents(f) /\ h.id \in Nat
        /\ \A g \in Flows : Contents(g)' = Contents(g) \ {h}
        /\ \A y \in Contents(f) \ {h} : h.id < y.id /\ y.id \in Nat
    BY <2>1, <2>2, <2>3 DEF WirePacket
  <2>6. /\ h.id \in Waiting(f)
        /\ \A n \in Waiting(f) : n \in Nat /\ h.id <= n
    BY <2>5 DEF Waiting
  <2>7. Min(Waiting(f)) = h.id
    <3>1. \A n \in Waiting(f) : (\A m \in Waiting(f) : n <= m) => n = h.id
      BY <2>6
    <3> QED BY <2>6, <3>1 DEF Min
  <2>8. Waiting(f)' = Waiting(f) \ {h.id}
    <3>1. Waiting(f)' = {x.id : x \in Contents(f) \ {h}}
      BY <2>5 DEF Waiting
    <3>2. \A y \in Contents(f) \ {h} : y.id # h.id
      BY <2>5
    <3> QED BY <3>1, <3>2 DEF Waiting
  <2>9. ASSUME NEW g \in Flows, g # f PROVE Waiting(g)' = Waiting(g)
    <3>1. h \notin Contents(g)
      BY <2>3, <2>9 DEF Contents
    <3> QED BY <2>5, <3>1 DEF Waiting
  <2>10. Pending[f] = Waiting(f)
    BY <1>2
  <2>11. Pending' = [Pending EXCEPT ![f] = @ \ {h.id}]
    BY <1>2, <2>8, <2>9
  <2> QED BY <2>4, <2>6, <2>7, <2>10, <2>11
<1>7. \/ Loses /\ UNCHANGED <<created, delivered>>
      \/ \E f \in Flows, s \in config.sizes :
            /\ Gains(NewPacket(f, s))
            /\ created' = created + 1 /\ UNCHANGED delivered
      \/ Receive
  BY LineStep
<1> QED BY <1>3, <1>4, <1>5, <1>6, <1>7

\* The link is a pipe, safety only: whatever the queue disc and the device
\* drop, whatever the channel corrupts and however often the disc is stopped
\* and woken, of each flow what arrives arrives in the order it was sent, and
\* once.
THEOREM PipeRefinement ==
    ASSUME PacketsBounded
    PROVE  Spec => P!Init /\ [][P!Next]_P!vars
<1>1. Init => P!Init
  <2> SUFFICES ASSUME Init PROVE P!Init
    OBVIOUS
  <2>1. /\ created = 0 /\ delivered = [f \in Flows |-> 0] /\ wire = <<>>
        /\ device.queue = <<>> /\ \A f \in Flows : flow[f].queue = <<>>
    BY DEF Init, DiscInit
  <2>2. \A f \in Flows : Waiting(f) = {}
    BY <2>1 DEF Waiting, Contents, Held, Sent, ToSet
  <2>3. Pending = [f \in Flows |-> {}]
    BY <2>2, LineInit, PendingWaits DEF LineInv, ListsInv
  <2> QED BY <2>1, <2>3 DEF P!Init, Pending
<1>2. LineInv /\ [Next]_vars => [P!Next]_P!vars
  <2> SUFFICES ASSUME LineInv, [Next]_vars PROVE P!Next
    OBVIOUS
  <2>1. CASE /\ \A f \in Flows : Pending'[f] \subseteq Pending[f]
             /\ UNCHANGED <<created, delivered>>
    <3>1. P!Lose
      BY <2>1, PipeStep DEF P!Lose, Pending, Numbers
    <3> QED BY <3>1 DEF P!Next
  <2>2. ASSUME NEW f \in Flows,
               created' = created + 1, UNCHANGED delivered,
               \A g \in Flows :
                 Pending'[g] \subseteq
                   Pending[g] \union (IF g = f THEN {created'} ELSE {})
        PROVE  P!Next
    <3>1. P!Send(f)
      BY <2>2, PipeStep DEF P!Send, Pending, Numbers
    <3> QED BY <3>1 DEF P!Next
  <2>3. ASSUME NEW f \in Flows, Pending[f] # {},
               delivered' = [delivered EXCEPT ![f] = Min(Pending[f])],
               Pending' = [Pending EXCEPT ![f] = @ \ {Min(Pending[f])}],
               UNCHANGED created
        PROVE  P!Next
    <3>1. P!Deliver(f)
      BY <2>3 DEF P!Deliver, Pending, Min, P!Min
    <3> QED BY <3>1 DEF P!Next
  <2> QED BY <2>1, <2>2, <2>3, PipeStep
<1> QED BY <1>1, <1>2, LineInvariance, PTL DEF Spec

---------------------------------------------------------------------------
(* Fairness: sums that only shrink                                         *)

\* The sum of w over S is at most b: t accumulates it along an enumeration e.
SumAtMost(S, w, b) ==
    LET n == Cardinality(S)
    IN \E e \in [1 .. n -> S], t \in [0 .. n -> Nat] :
         /\ \A x \in S : \E i \in 1 .. n : e[i] = x
         /\ \A i \in 1 .. n : t[i - 1] + w[e[i]] <= t[i]
         /\ \A i, j \in 0 .. n : i <= j => t[i] <= t[j]
         /\ t[n] <= b

LEMMA SumOfBounded ==
    ASSUME NEW S, IsFiniteSet(S), NEW w \in [S -> Nat], NEW k \in Nat,
           \A x \in S : w[x] <= k
    PROVE  SumAtMost(S, w, k * Cardinality(S))
<1> DEFINE n == Cardinality(S)
           t == [i \in 0 .. n |-> k * i]
<1>1. n \in Nat
  BY FS_CardinalityType
<1>2. PICK e : e \in Bijection(1 .. n, S)
  BY FS_CardinalityType, FS_NatBijection DEF ExistsBijection
<1>3. e \in [1 .. n -> S] /\ \A x \in S : \E i \in 1 .. n : e[i] = x
  BY <1>2 DEF Bijection, Injection, Surjection
<1> HIDE DEF n
<1>4. \A i \in Nat : k * i \in Nat
  BY <1>1
<1>5. t \in [0 .. n -> Nat] /\ \A i \in 0 .. n : t[i] = k * i
  BY <1>1, <1>4
<1>6. \A i \in 1 .. n : /\ i - 1 \in 0 .. n /\ i \in 0 .. n
                        /\ k * i = k * (i - 1) + k
  BY <1>1
<1>7. \A i, j \in 0 .. n : i <= j => k * i <= k * j
  <2> SUFFICES ASSUME NEW i \in 0 .. n, NEW j \in 0 .. n, i <= j PROVE k * i <= k * j
    OBVIOUS
  <2>1. j - i \in Nat
    BY <1>1
  <2>2. k * (j - i) \in Nat
    BY <2>1
  <2>3. k * j = k * i + k * (j - i)
    BY <1>1, <2>1
  <2>4. k * i \in Nat /\ k * j \in Nat
    BY <1>1, <1>4
  <2> QED BY <2>2, <2>3, <2>4
<1>8. \A i \in 1 .. n : t[i - 1] + w[e[i]] <= t[i]
  <2> SUFFICES ASSUME NEW i \in 1 .. n PROVE t[i - 1] + w[e[i]] <= t[i]
    OBVIOUS
  <2>1. t[i - 1] = k * (i - 1) /\ t[i] = k * i /\ k * i = k * (i - 1) + k
    BY <1>5, <1>6
  <2>2. e[i] \in S /\ w[e[i]] \in Nat /\ w[e[i]] <= k
    BY <1>3
  <2>3. i - 1 \in Nat /\ k * (i - 1) \in Nat
    BY <1>1, <1>4
  <2> HIDE DEF t
  <2> QED BY <2>1, <2>2, <2>3
<1>9. \A i, j \in 0 .. n : i <= j => t[i] <= t[j]
  BY <1>5, <1>7
<1>10. t[n] <= k * n
  BY <1>1, <1>4, <1>5
<1> HIDE DEF t
<1> QED BY <1>3, <1>5, <1>8, <1>9, <1>10 DEF SumAtMost, n

\* No member grows.
LEMMA SumKept ==
    ASSUME NEW S, IsFiniteSet(S), NEW w \in [S -> Nat], NEW v \in [S -> Nat], NEW b,
           SumAtMost(S, w, b), \A x \in S : v[x] <= w[x]
    PROVE  SumAtMost(S, v, b)
<1> DEFINE n == Cardinality(S)
<1>1. PICK e \in [1 .. n -> S], t \in [0 .. n -> Nat] :
         /\ \A x \in S : \E i \in 1 .. n : e[i] = x
         /\ \A i \in 1 .. n : t[i - 1] + w[e[i]] <= t[i]
         /\ \A i, j \in 0 .. n : i <= j => t[i] <= t[j]
         /\ t[n] <= b
  BY DEF SumAtMost
<1>2. n \in Nat
  BY FS_CardinalityType
<1> HIDE DEF n
<1>3. \A i \in 1 .. n : t[i - 1] + v[e[i]] <= t[i]
  <2> SUFFICES ASSUME NEW i \in 1 .. n PROVE t[i - 1] + v[e[i]] <= t[i]
    OBVIOUS
  <2>1. e[i] \in S /\ v[e[i]] \in Nat /\ w[e[i]] \in Nat /\ v[e[i]] <= w[e[i]]
    OBVIOUS
  <2>2. t[i - 1] \in Nat /\ t[i] \in Nat /\ t[i - 1] + w[e[i]] <= t[i]
    BY <1>1, <1>2
  <2> QED BY <2>1, <2>2
<1> QED BY <1>1, <1>3 DEF SumAtMost, n

\* No member grows, and one of them shrinks by d.
LEMMA SumShrinks ==
    ASSUME NEW S, IsFiniteSet(S), NEW w \in [S -> Nat], NEW v \in [S -> Nat],
           NEW b \in Int, SumAtMost(S, w, b), \A x \in S : v[x] <= w[x],
           NEW c \in S, NEW d \in Nat, v[c] + d <= w[c]
    PROVE  SumAtMost(S, v, b - d)
<1> DEFINE n == Cardinality(S)
<1>1. PICK e \in [1 .. n -> S], t \in [0 .. n -> Nat] :
         /\ \A x \in S : \E i \in 1 .. n : e[i] = x
         /\ \A i \in 1 .. n : t[i - 1] + w[e[i]] <= t[i]
         /\ \A i, j \in 0 .. n : i <= j => t[i] <= t[j]
         /\ t[n] <= b
  BY DEF SumAtMost
<1>2. n \in Nat
  BY FS_CardinalityType
<1>3. PICK k \in 1 .. n : e[k] = c
  BY <1>1
<1> HIDE DEF n
<1> DEFINE r == [i \in 0 .. n |-> IF i < k THEN t[i] ELSE t[i] - d]
<1>4. \A i \in 0 .. n : t[i] \in Nat
  OBVIOUS
<1>5. k - 1 \in 0 .. n /\ k \in 0 .. n /\ n \in 0 .. n
  BY <1>2
<1>6. t[k - 1] + v[c] + d <= t[k]
  <2>1. t[k - 1] + w[c] <= t[k]
    BY <1>1, <1>3
  <2> QED BY <1>4, <1>5, <2>1
<1>7. \A i \in k .. n : t[i] - d >= t[k - 1] + v[c] /\ t[i] >= t[k]
  <2> SUFFICES ASSUME NEW i \in k .. n PROVE t[i] - d >= t[k - 1] + v[c] /\ t[i] >= t[k]
    OBVIOUS
  <2>1. i \in 0 .. n /\ k <= i
    BY <1>2
  <2>2. t[k] <= t[i]
    BY <1>1, <1>5, <2>1
  <2>3. v[c] \in Nat /\ t[i] \in Nat /\ t[k] \in Nat /\ t[k - 1] \in Nat
    BY <1>4, <1>5, <2>1
  <2> QED BY <1>6, <2>2, <2>3
<1>8. \A i \in 0 .. n : r[i] = (IF i < k THEN t[i] ELSE t[i] - d)
  OBVIOUS
<1>9. r \in [0 .. n -> Nat]
  <2>1. ASSUME NEW i \in 0 .. n PROVE (IF i < k THEN t[i] ELSE t[i] - d) \in Nat
    <3>1. i < k \/ i \in k .. n
      BY <1>2
    <3> QED BY SMTT(30), <1>4, <1>5, <1>7, <3>1
  <2> QED BY <2>1
<1> HIDE DEF r
<1>10. \A i \in 1 .. n : r[i - 1] + v[e[i]] <= r[i]
  <2> SUFFICES ASSUME NEW i \in 1 .. n PROVE r[i - 1] + v[e[i]] <= r[i]
    OBVIOUS
  <2>1. /\ e[i] \in S /\ v[e[i]] \in Nat /\ w[e[i]] \in Nat /\ v[e[i]] <= w[e[i]]
        /\ t[i - 1] + w[e[i]] <= t[i]
    BY <1>1
  <2>2. i - 1 \in 0 .. n /\ i \in 0 .. n
    BY <1>2
  <2>3. CASE i = k
    <3>1. r[i - 1] = t[k - 1] /\ r[i] = t[k] - d
      BY <1>8, <2>2, <2>3
    <3> QED BY <1>3, <1>4, <1>5, <1>6, <2>1, <2>3, <3>1
  <2>4. CASE i < k
    <3>1. r[i - 1] = t[i - 1] /\ r[i] = t[i]
      BY <1>8, <2>2, <2>4
    <3> QED BY <1>4, <2>1, <2>2, <3>1
  <2>5. CASE i > k
    <3>1. r[i - 1] = t[i - 1] - d /\ r[i] = t[i] - d
      BY <1>8, <2>2, <2>5
    <3> QED BY SMTT(30), <1>4, <2>1, <2>2, <3>1
  <2> QED BY <2>3, <2>4, <2>5
<1>11. \A i, j \in 0 .. n : i <= j => r[i] <= r[j]
  <2> SUFFICES ASSUME NEW i \in 0 .. n, NEW j \in 0 .. n, i <= j PROVE r[i] <= r[j]
    OBVIOUS
  <2>1. t[i] <= t[j] /\ t[i] \in Nat /\ t[j] \in Nat
    BY <1>1
  <2>2. CASE j < k \/ ~(i < k)
    BY <1>8, <2>1, <2>2
  <2>3. CASE i < k /\ ~(j < k)
    <3>1. r[i] = t[i] /\ r[j] = t[j] - d
      BY <1>8, <2>3
    <3>2. t[i] <= t[k - 1]
      BY <1>1, <1>5, <2>3
    <3>3. j \in k .. n
      BY <1>2, <2>3
    <3>4. v[c] \in Nat
      OBVIOUS
    <3>5. t[j] - d >= t[k - 1] + v[c]
      BY <1>7, <3>3
    <3>6. t[k - 1] \in Nat
      BY <1>4, <1>5
    <3> QED BY <2>1, <3>1, <3>2, <3>4, <3>5, <3>6
  <2> QED BY <2>2, <2>3
<1>12. r[n] <= b - d
  <2>1. r[n] = t[n] - d
    BY <1>2, <1>5, <1>8
  <2> QED BY <1>1, <1>4, <1>5, <2>1
<1> QED BY <1>1, <1>9, <1>10, <1>11, <1>12 DEF SumAtMost, n

---------------------------------------------------------------------------
(* Fairness: the order of the lists                                        *)

Ahead(s, g, f) == \E i, j \in DOMAIN s : i < j /\ s[i] = g /\ s[j] = f

LEMMA AheadListed ==
    ASSUME NEW s, NEW g, NEW f, Ahead(s, g, f)
    PROVE  g \in ToSet(s) /\ f \in ToSet(s)
BY DEF Ahead, ToSet

\* What comes to the end is ahead of nobody.
LEMMA AheadAppend ==
    ASSUME NEW s \in Seq(Flows), NEW x \in Flows, NEW g, NEW f, f # x,
           Ahead(Append(s, x), g, f)
    PROVE  Ahead(s, g, f)
<1> DEFINE t == Append(s, x)
<1>1. /\ DOMAIN s = 1 .. Len(s) /\ DOMAIN t = 1 .. Len(s) + 1 /\ Len(s) \in Nat
      /\ \A i \in 1 .. Len(s) : t[i] = s[i]
      /\ t[Len(s) + 1] = x
  OBVIOUS
<1>2. PICK i \in DOMAIN t, j \in DOMAIN t : i < j /\ t[i] = g /\ t[j] = f
  BY DEF Ahead
<1> HIDE DEF t
<1>3. i \in 1 .. Len(s) /\ j \in 1 .. Len(s)
  BY <1>1, <1>2
<1> QED BY <1>1, <1>2, <1>3 DEF Ahead

LEMMA AheadTail ==
    ASSUME NEW s \in Seq(Flows), s # <<>>, NEW g, NEW f, Ahead(Tail(s), g, f)
    PROVE  Ahead(s, g, f)
<1> DEFINE t == Tail(s)
<1>1. /\ DOMAIN s = 1 .. Len(s) /\ DOMAIN t = 1 .. Len(s) - 1 /\ Len(s) \in Nat \ {0}
      /\ \A i \in 1 .. Len(s) - 1 : t[i] = s[i + 1]
  OBVIOUS
<1>2. PICK i \in DOMAIN t, j \in DOMAIN t : i < j /\ t[i] = g /\ t[j] = f
  BY DEF Ahead
<1> HIDE DEF t
<1>3. /\ i + 1 \in 1 .. Len(s) /\ j + 1 \in 1 .. Len(s) /\ i + 1 < j + 1
      /\ s[i + 1] = g /\ s[j + 1] = f
  BY <1>1, <1>2
<1> QED BY <1>1, <1>3 DEF Ahead

LEMMA HeadAhead ==
    ASSUME NEW s \in Seq(Flows), s # <<>>, NEW f \in ToSet(s), f # Head(s)
    PROVE  Ahead(s, Head(s), f)
<1>1. DOMAIN s = 1 .. Len(s) /\ Len(s) \in Nat \ {0} /\ Head(s) = s[1]
  OBVIOUS
<1>2. PICK j \in DOMAIN s : s[j] = f
  BY DEF ToSet
<1> QED BY <1>1, <1>2 DEF Ahead

LEMMA NoneAheadOfHead ==
    ASSUME NEW s \in Seq(Flows), s # <<>>, IsInjective(s), NEW g
    PROVE  ~Ahead(s, g, Head(s))
<1>1. DOMAIN s = 1 .. Len(s) /\ Len(s) \in Nat \ {0} /\ Head(s) = s[1]
  OBVIOUS
<1>2. \A j \in DOMAIN s : s[j] = s[1] => j = 1
  BY <1>1 DEF IsInjective
<1> QED BY <1>1, <1>2 DEF Ahead

---------------------------------------------------------------------------
(* Fairness: what the others may still send before it is a flow's turn     *)

Largest == Max(config.sizes)

\* The most a flow may send out of a deficit d before it needs another quantum
Left(d) == IF d > 0 THEN d - 1 + Largest ELSE 0

\* The most a flow may send while another is in the old flows, with a deficit:
\* the rest of one of its own, and a quantum when it comes back as a new flow
Lap == 2 * (config.quantum - 1) + Largest

\* What g may send before f is the head of its list.  A flow that is not active
\* may come back as a new one, before all the old ones; so may an old one ahead of
\* f, unless it first uses up its deficit and goes to the end.
Turn(f, g) ==
    IF flow[f].status = "NEW_FLOW"
    THEN IF Ahead(newFlows, g, f) THEN Left(flow[g].deficit) ELSE 0
    ELSE IF flow[g].status = "INACTIVE" THEN Left(config.quantum)
    ELSE IF flow[g].status = "NEW_FLOW" THEN Left(flow[g].deficit)
    ELSE IF Ahead(oldFlows, g, f) /\ flow[g].deficit > 0
         THEN flow[g].deficit - 1 + Left(config.quantum)
         ELSE 0

\* What g may send before f does: a flow that has used up its deficit gets a
\* quantum when it is the head, and waits for another turn among the old flows.
Wait(f, g) == Turn(f, g) + (IF flow[f].deficit <= 0 THEN Lap ELSE 0)

\* The quantum covers a packet, so that one turn is enough to get a deficit.
Fair ==
    /\ Largest \in 1 .. config.quantum
    /\ config.sizes \subseteq 1 .. Largest
    /\ Deficits(Largest)

Others(f) == Flows \ {f}

Waits(f) == [g \in Others(f) |-> Wait(f, g)]

Budget(f) == SumAtMost(Others(f), Waits(f), 2 * Lap * Cardinality(Others(f)) - passed[f])

WaitsBounded ==
    /\ Lap \in Nat
    /\ \A f, g \in Flows : Turn(f, g) \in 0 .. Lap /\ Wait(f, g) \in 0 .. 2 * Lap

LEMMA WaitBounded == Types /\ Fair => WaitsBounded
<1> SUFFICES ASSUME Types, Fair PROVE WaitsBounded
  OBVIOUS
<1>1. /\ config.quantum \in Nat \ {0} /\ Largest \in Nat \ {0} /\ Largest <= config.quantum
      /\ \A f \in Flows : flow[f].deficit \in 1 - Largest .. config.quantum
  BY ConfigTypes DEF Types, Fair, Deficits
<1>2. Lap \in Nat
  BY <1>1 DEF Lap
<1>3. ASSUME NEW f \in Flows, NEW g \in Flows PROVE Turn(f, g) \in 0 .. Lap
  <2>1. /\ flow[g].deficit \in Int /\ flow[g].deficit <= config.quantum
        /\ Left(flow[g].deficit) \in 0 .. Lap /\ Left(config.quantum) \in 0 .. Lap
    BY <1>1 DEF Left, Lap
  <2>2. flow[g].deficit > 0 => flow[g].deficit - 1 + Left(config.quantum) \in 0 .. Lap
    BY <1>1, <2>1 DEF Left, Lap
  <2>3. 0 \in 0 .. Lap
    BY <1>2
  <2> QED BY <2>1, <2>2, <2>3 DEF Turn
<1>4. ASSUME NEW f \in Flows, NEW g \in Flows PROVE Wait(f, g) \in 0 .. 2 * Lap
  BY <1>2, <1>3 DEF Wait
<1> QED BY <1>2, <1>3, <1>4 DEF WaitsBounded

\* A packet that comes adds nothing to what the flows that already wait have
\* to wait for: a flow it wakes counted with a whole quantum before.
LEMMA EnqueueWakes ==
    ASSUME Types, NEW f \in Flows, NEW p \in Packet, Enqueue(f, p)
    PROVE  /\ \A g \in Flows : (g # f \/ flow[f].status # "INACTIVE")
                => /\ flow'[g].status = flow[g].status
                   /\ flow'[g].deficit = flow[g].deficit
           /\ flow[f].status = "INACTIVE"
                => /\ flow'[f].status = "NEW_FLOW" /\ flow'[f].deficit = config.quantum
                   /\ newFlows' = Append(newFlows, f)
           /\ flow[f].status # "INACTIVE" => newFlows' = newFlows
           /\ oldFlows' = oldFlows
<1> DEFINE woken == IF flow[f].status = "INACTIVE"
                    THEN [flow[f] EXCEPT !.status = "NEW_FLOW",
                                         !.deficit = config.quantum]
                    ELSE flow[f]
           added == IF Len(woken.queue) < config.discMax
                    THEN [woken EXCEPT !.queue = Append(@, p)]
                    ELSE woken
           fl == [flow EXCEPT ![f] = added]
           start == IF flow[f].status = "INACTIVE"
                    THEN <<"NEW_FLOW", config.quantum>>
                    ELSE <<flow[f].status, flow[f].deficit>>
<1>1. flow[f] \in FlowState /\ DOMAIN flow = Flows
  BY DEF Types
<1>2. woken \in FlowState /\ <<woken.status, woken.deficit>> = start
  <2>1. config.quantum \in Int
    BY ConfigTypes DEF Types
  <2> QED BY <1>1, <2>1 DEF FlowState
<1> HIDE DEF woken
<1>3. <<added.status, added.deficit>> = start
  BY <1>2 DEF FlowState
<1> HIDE DEF added
<1>4. /\ DOMAIN fl = Flows /\ <<fl[f].status, fl[f].deficit>> = start
      /\ \A g \in Flows \ {f} : fl[g] = flow[g]
  BY <1>1, <1>3
<1>5. flow' = fl \/ \E g \in Flows : FqCoDelDrop(fl, g)
  BY DEF Enqueue, added, woken
<1> HIDE DEF fl
<1>6. \A h \in Flows : flow'[h].status = fl[h].status /\ flow'[h].deficit = fl[h].deficit
  <2>1. ASSUME NEW g \in Flows, FqCoDelDrop(fl, g), NEW h \in Flows
        PROVE  flow'[h].status = fl[h].status /\ flow'[h].deficit = fl[h].deficit
    <3>1. PICK rest : flow' = [fl EXCEPT ![g].queue = rest]
      BY <2>1 DEF FqCoDelDrop
    <3> QED BY <1>4, <3>1
  <2> QED BY <1>5, <2>1
<1>7. /\ newFlows' = IF flow[f].status = "INACTIVE" THEN Append(newFlows, f) ELSE newFlows
      /\ oldFlows' = oldFlows
  BY DEF Enqueue
<1> QED BY <1>4, <1>6, <1>7

LEMMA EnqueueWaits ==
    ASSUME Types, BackloggedIsListed, Fair, config' = config,
           NEW h \in Flows, NEW p \in Packet, Enqueue(h, p),
           NEW f \in Flows, flow[f].queue # <<>>, NEW g \in Others(f)
    PROVE  Wait(f, g)' <= Wait(f, g)
<1>1. /\ g \in Flows /\ f # g /\ flow[f].status # "INACTIVE"
      /\ newFlows \in Seq(Flows)
      /\ config.quantum \in Nat \ {0} /\ Largest \in Nat \ {0}
      /\ \A x \in Flows : flow[x].deficit \in Int
      /\ Turn(f, g) \in Nat /\ Wait(f, g) \in Int
  <2>1. g \in Flows /\ f # g /\ flow[f].status # "INACTIVE" /\ newFlows \in Seq(Flows)
    BY DEF Types, BackloggedIsListed, Others
  <2>2. config.quantum \in Nat \ {0} /\ Largest \in Nat \ {0}
    BY ConfigTypes DEF Types, Fair
  <2>3. \A x \in Flows : flow[x].deficit \in Int
    BY DEF Types, FlowState
  <2>4. Lap \in Nat /\ Turn(f, g) \in 0 .. Lap /\ Wait(f, g) \in 0 .. 2 * Lap
    BY <2>1, WaitBounded DEF WaitsBounded
  <2> QED BY <2>1, <2>2, <2>3, <2>4
<1>2. Largest' = Largest /\ Lap' = Lap /\ \A d \in Int : Left(d)' = Left(d)
  BY DEF Largest, Lap, Left
<1>3. CASE flow[h].status # "INACTIVE"
  <2>1. /\ newFlows' = newFlows /\ oldFlows' = oldFlows
        /\ \A x \in Flows : flow'[x].status = flow[x].status
                            /\ flow'[x].deficit = flow[x].deficit
    BY <1>3, EnqueueWakes
  <2>2. Wait(f, g)' = Wait(f, g)
    BY <1>1, <1>2, <2>1 DEF Wait, Turn, Largest, Left, Lap
  <2> QED BY <1>1, <2>2
<1>4. CASE flow[h].status = "INACTIVE"
  <2>1. /\ newFlows' = Append(newFlows, h) /\ oldFlows' = oldFlows
        /\ flow'[h].status = "NEW_FLOW" /\ flow'[h].deficit = config.quantum
        /\ \A x \in Flows : x # h => /\ flow'[x].status = flow[x].status
                                     /\ flow'[x].deficit = flow[x].deficit
    BY <1>4, EnqueueWakes
  <2>2. f # h
    BY <1>1, <1>4
  <2>3. Turn(f, g)' <= Turn(f, g)
    <3>1. CASE flow[f].status = "NEW_FLOW"
      <4>1. Ahead(newFlows', g, f) => Ahead(newFlows, g, f)
        BY <1>1, <2>1, <2>2, AheadAppend
      <4>2. Ahead(newFlows, g, f) => g # h
        <5>1. h \notin ToSet(newFlows)
          BY <1>4 DEF BackloggedIsListed
        <5> QED BY <5>1, AheadListed
      <4>3. CASE Ahead(newFlows', g, f)
        <5>1. Turn(f, g) = Left(flow[g].deficit) /\ Turn(f, g)' = Left(flow[g].deficit)'
          BY <2>1, <2>2, <3>1, <4>1, <4>3 DEF Turn
        <5>2. Left(flow[g].deficit)' = Left(flow[g].deficit)
          BY <1>1, <1>2, <2>1, <4>1, <4>2, <4>3 DEF Left
        <5> QED BY <1>1, <5>1, <5>2
      <4>4. CASE ~Ahead(newFlows', g, f)
        <5>1. Turn(f, g)' = 0
          BY <2>1, <2>2, <3>1, <4>4 DEF Turn
        <5> QED BY <1>1, <5>1
      <4> QED BY <4>3, <4>4
    <3>2. CASE flow[f].status # "NEW_FLOW" /\ g = h
      <4>1. Turn(f, g) = Left(config.quantum) /\ Turn(f, g)' = Left(config.quantum)'
        BY <1>4, <2>1, <2>2, <3>2 DEF Turn
      <4>2. Left(config.quantum)' = Left(config.quantum)
        BY <1>2 DEF Left
      <4> QED BY <1>1, <4>1, <4>2
    <3>3. CASE flow[f].status # "NEW_FLOW" /\ g # h
      <4>1. Turn(f, g)' = Turn(f, g)
        BY <1>1, <1>2, <2>1, <2>2, <3>3 DEF Turn, Left
      <4> QED BY <1>1, <4>1
    <3> QED BY <3>1, <3>2, <3>3
  <2>4. flow'[f].deficit = flow[f].deficit /\ Turn(f, g)' \in Int
    <3>1. flow'[g].deficit \in Int /\ flow'[f].deficit = flow[f].deficit
      BY <1>1, <2>1, <2>2
    <3>2. \A d \in Int : Left(d)' \in Int
      BY <1>1, <1>2 DEF Left
    <3>3. Left(flow[g].deficit)' \in Int /\ Left(config.quantum)' \in Int
      BY <1>1, <1>2, <3>1 DEF Left
    <3> QED BY <3>1, <3>3 DEF Turn
  <2> QED BY SMTT(30), <1>1, <1>2, <2>3, <2>4, WaitBounded DEF Wait, WaitsBounded
<1> QED BY <1>3, <1>4

\* A flow that goes to the end of the old flows, or leaves them, lets the others
\* wait no longer.
LEMMA PopTurns ==
    ASSUME Types, BackloggedIsListed, Fair, config' = config,
           HasCandidate, PopCandidate, flow'[Candidate].status = "OLD_FLOW",
           \A x \in Flows \ {Candidate} : flow'[x] = flow[x],
           NEW f \in Flows \ {Candidate}, flow[f].status # "INACTIVE", NEW g \in Others(f)
    PROVE  Turn(f, g)' <= Turn(f, g)
<1> DEFINE c == Candidate
<1>1. /\ c \in Flows /\ g \in Flows /\ f # g /\ f # c
      /\ newFlows \in Seq(Flows) /\ oldFlows \in Seq(Flows)
  BY CandidateTypes DEF Types, Others
<1>2. Turn(f, g) \in Nat
  BY <1>1, WaitBounded DEF WaitsBounded
<1>3. /\ c \notin ToSet(newFlows') /\ flow'[f] = flow[f]
      /\ flow[c].status = "NEW_FLOW" => c \in ToSet(newFlows)
  BY <1>1, PopLists DEF BackloggedIsListed
<1>4. Left(flow[g].deficit)' = Left(flow'[g].deficit) /\ config'.quantum = config.quantum
      /\ Left(config.quantum)' = Left(config.quantum)
  BY DEF Left, Largest
<1>5. /\ Ahead(newFlows', g, f) => g # c /\ (newFlows # <<>> => Ahead(newFlows, g, f))
      /\ newFlows = <<>> => newFlows' = newFlows
      /\ newFlows # <<>> => newFlows' = Tail(newFlows) /\ oldFlows' = Append(oldFlows, c)
      /\ newFlows = <<>> => /\ oldFlows # <<>> /\ c = Head(oldFlows)
                            /\ oldFlows' = Append(Tail(oldFlows), c)
  <2>1. /\ newFlows = <<>> => newFlows' = newFlows
        /\ newFlows # <<>> => newFlows' = Tail(newFlows) /\ oldFlows' = Append(oldFlows, c)
        /\ newFlows = <<>> => /\ oldFlows # <<>> /\ c = Head(oldFlows)
                              /\ oldFlows' = Append(Tail(oldFlows), c)
    BY DEF PopCandidate, HasCandidate, Candidate
  <2>2. Ahead(newFlows', g, f) => g # c
    BY <1>3, AheadListed
  <2>3. newFlows # <<>> /\ Ahead(newFlows', g, f) => Ahead(newFlows, g, f)
    BY <1>1, <2>1, AheadTail
  <2> QED BY <2>1, <2>2, <2>3
<1>6. Ahead(oldFlows', g, f) => g # c /\ Ahead(oldFlows, g, f)
  <2> SUFFICES ASSUME Ahead(oldFlows', g, f) PROVE g # c /\ Ahead(oldFlows, g, f)
    OBVIOUS
  <2> HIDE DEF c
  <2>1. CASE newFlows # <<>>
    <3>1. Ahead(oldFlows, g, f)
      BY <1>1, <1>5, <2>1, AheadAppend
    <3>2. c \notin ToSet(oldFlows)
      <4>1. c \in ToSet(newFlows)
        <5>1. c = Head(newFlows)
          BY <2>1 DEF c, Candidate
        <5> QED BY <1>1, <2>1, <5>1, TailWithoutHead DEF BackloggedIsListed
      <4> QED BY <4>1 DEF BackloggedIsListed
    <3> QED BY <3>1, <3>2, AheadListed
  <2>2. CASE newFlows = <<>>
    <3> DEFINE rest == Tail(oldFlows)
    <3>1. rest \in Seq(Flows) /\ oldFlows' = Append(rest, c)
      BY <1>1, <1>5, <2>2
    <3>2. c \notin ToSet(rest)
      BY <1>1, <1>5, <2>2, TailWithoutHead DEF BackloggedIsListed
    <3> HIDE DEF rest
    <3>3. Ahead(rest, g, f)
      BY <1>1, <3>1, AheadAppend
    <3>4. Ahead(oldFlows, g, f)
      BY <1>1, <1>5, <2>2, <3>3, AheadTail DEF rest
    <3> QED BY <3>2, <3>3, <3>4, AheadListed
  <2> QED BY <2>1, <2>2
<1>7. CASE flow[f].status = "NEW_FLOW"
  <2>1. newFlows # <<>>
    <3>1. f \in ToSet(newFlows)
      BY <1>7 DEF BackloggedIsListed
    <3> QED BY <3>1 DEF ToSet
  <2>2. CASE Ahead(newFlows', g, f)
    <3>1. g # c /\ Ahead(newFlows, g, f) /\ flow'[g] = flow[g]
      BY <1>1, <1>5, <2>1, <2>2
    <3>2. Turn(f, g)' = Left(flow[g].deficit)' /\ Turn(f, g) = Left(flow[g].deficit)
      BY <1>3, <1>7, <2>2, <3>1 DEF Turn
    <3> QED BY <1>2, <1>4, <3>1, <3>2
  <2>3. CASE ~Ahead(newFlows', g, f)
    <3>1. Turn(f, g)' = 0
      BY <1>3, <1>7, <2>3 DEF Turn
    <3> QED BY <1>2, <3>1
  <2> QED BY <2>2, <2>3
<1>8. CASE flow[f].status # "NEW_FLOW" /\ g = c
  <2>1. Turn(f, g)' = 0
    BY <1>3, <1>6, <1>8 DEF Turn
  <2> QED BY <1>2, <2>1
<1>9. CASE flow[f].status # "NEW_FLOW" /\ g # c
  <2>1. flow'[g] = flow[g]
    BY <1>1, <1>9
  <2>2. CASE flow[g].status \in {"INACTIVE", "NEW_FLOW"} \/ Ahead(oldFlows', g, f)
    <3>1. Turn(f, g)' = Turn(f, g)
      BY <1>3, <1>4, <1>6, <1>9, <2>1, <2>2 DEF Turn
    <3> QED BY <1>2, <3>1
  <2>3. CASE flow[g].status \notin {"INACTIVE", "NEW_FLOW"} /\ ~Ahead(oldFlows', g, f)
    <3>1. Turn(f, g)' = 0
      BY <1>3, <1>9, <2>1, <2>3 DEF Turn
    <3> QED BY <1>2, <3>1
  <2> QED BY <2>2, <2>3
<1> QED BY <1>7, <1>8, <1>9

\* A flow that moves on adds nothing to what the others have to wait for, nor to
\* what it has to wait for itself: the lap it counted with is the one to come.
LEMMA TurnWaits ==
    ASSUME Types, Types', Fair, Fair', BackloggedIsListed, config' = config,
           NextTurn \/ Retire,
           NEW f \in Flows, flow[f].queue # <<>>, NEW g \in Others(f)
    PROVE  Wait(f, g)' <= Wait(f, g)
<1>0. PICK c \in Flows : c = Candidate
  BY CandidateTypes DEF NextTurn, Retire
<1>1. /\ g \in Flows /\ f # g /\ flow[f].status # "INACTIVE"
      /\ newFlows \in Seq(Flows) /\ oldFlows \in Seq(Flows)
      /\ flow \in [Flows -> FlowState] /\ HasCandidate
  BY DEF Types, BackloggedIsListed, Others, NextTurn, Retire
<1>2. /\ \A x \in Flows : flow[x].deficit \in Int
      /\ config.quantum \in Nat \ {0} /\ Largest \in 1 .. config.quantum
      /\ flow[c].deficit \in 1 - Largest .. config.quantum
  BY ConfigTypes DEF Types, FlowState, Fair, Deficits
<1>3. /\ Lap' = Lap /\ Lap \in Nat
      /\ Turn(f, g) \in 0 .. Lap /\ Turn(f, g)' \in 0 .. Lap
  <2>1. Lap' = Lap
    BY DEF Lap, Largest
  <2>2. (Types /\ Fair => WaitsBounded)'
    BY WaitBounded, PTL
  <2> QED BY <1>1, <2>1, <2>2, WaitBounded DEF WaitsBounded
<1>4. CASE NextTurn
  <2>1. /\ flow[c].deficit <= 0 /\ PopCandidate
        /\ flow' = [flow EXCEPT ![c].deficit = @ + config.quantum,
                                ![c].status = "OLD_FLOW"]
    BY <1>0, <1>4 DEF NextTurn
  <2>2. /\ flow'[c].deficit = flow[c].deficit + config.quantum
        /\ flow'[c].status = "OLD_FLOW"
        /\ \A x \in Flows \ {c} : flow'[x] = flow[x]
    BY <1>1, <2>1 DEF FlowState
  <2>3. CASE f = c
    <3>1. flow'[f].deficit \in Int /\ flow'[f].deficit > 0
      BY <1>2, <2>2, <2>3
    <3>2. Wait(f, g)' = Turn(f, g)'
      BY <1>3, <3>1 DEF Wait
    <3>3. Wait(f, g) = Turn(f, g) + Lap
      BY <2>1, <2>3 DEF Wait
    <3> QED BY <1>3, <3>2, <3>3
  <2>4. CASE f # c
    <3>1. Turn(f, g)' <= Turn(f, g) /\ flow'[f] = flow[f]
      BY <1>0, <1>1, <2>1, <2>2, <2>4, PopTurns
    <3> QED BY <1>3, <3>1 DEF Wait
  <2> QED BY <2>3, <2>4
<1>5. CASE Retire
  <2>1. flow[c].deficit > 0 /\ flow[c].queue = <<>> /\ f # c
    BY <1>0, <1>5 DEF Retire
  <2>2. PICK status :
          /\ flow' = [flow EXCEPT ![c].dropping = FALSE, ![c].status = status]
          /\ newFlows # <<>> => status = "OLD_FLOW" /\ PopCandidate
          /\ newFlows = <<>> => /\ status = "INACTIVE" /\ newFlows' = newFlows
                                /\ oldFlows' = Tail(oldFlows)
    BY <1>0, <1>5 DEF Retire
  <2>3. /\ flow'[c].deficit = flow[c].deficit /\ flow'[c].status = status
        /\ \A x \in Flows \ {c} : flow'[x] = flow[x]
    BY <1>1, <2>2 DEF FlowState
  <2>4. Turn(f, g)' <= Turn(f, g)
    <3>1. CASE newFlows # <<>>
      BY <1>0, <1>1, <2>1, <2>2, <2>3, <3>1, PopTurns
    <3>2. CASE newFlows = <<>>
      <4>1. flow[f].status = "OLD_FLOW" /\ flow'[f] = flow[f]
        <5>1. ToSet(newFlows) = {}
          BY <3>2 DEF ToSet
        <5>2. flow[f].status \in {"INACTIVE", "NEW_FLOW", "OLD_FLOW"}
          BY <1>1 DEF FlowState
        <5> QED BY <1>1, <2>1, <2>3, <5>1, <5>2 DEF BackloggedIsListed
      <4>2. oldFlows # <<>> /\ c = Head(oldFlows)
        BY <1>0, <1>1, <3>2 DEF HasCandidate, Candidate
      <4>3. /\ Left(config.quantum)' = Left(config.quantum) /\ newFlows' = newFlows
            /\ \A d \in Int : Left(d)' = Left(d)
        BY <2>2, <3>2 DEF Left, Largest
      <4>4. CASE g = c
        <5>1. f \in ToSet(oldFlows)
          BY <4>1 DEF BackloggedIsListed
        <5>2. Ahead(oldFlows, g, f)
          BY <1>1, <4>2, <4>4, <5>1, HeadAhead
        <5>3. c \in ToSet(oldFlows)
          BY <1>1, <4>2, TailWithoutHead DEF BackloggedIsListed
        <5>4. flow[c].status = "OLD_FLOW"
          BY <5>3 DEF BackloggedIsListed
        <5>5. Turn(f, g) = flow[g].deficit - 1 + Left(config.quantum)
          BY <2>1, <4>1, <4>4, <5>2, <5>4 DEF Turn
        <5>6. Turn(f, g)' = Left(config.quantum)'
          BY <2>2, <2>3, <3>2, <4>1, <4>4 DEF Turn
        <5>7. Left(config.quantum) \in Int
          BY <1>2 DEF Left
        <5> QED BY <1>2, <2>1, <4>3, <4>4, <5>5, <5>6, <5>7
      <4>5. CASE g # c
        <5>1. flow'[g] = flow[g]
          BY <1>1, <2>3, <4>5
        <5>2. Ahead(oldFlows', g, f) => Ahead(oldFlows, g, f)
          BY <1>1, <2>2, <3>2, <4>2, AheadTail
        <5>3. CASE flow[g].status \in {"INACTIVE", "NEW_FLOW"} \/ Ahead(oldFlows', g, f)
          <6>1. Left(flow[g].deficit)' = Left(flow[g].deficit)
            BY <1>1, <1>2, <5>1 DEF Left, Largest
          <6>2. Turn(f, g)' = Turn(f, g)
            BY <4>1, <4>3, <5>1, <5>2, <5>3, <6>1 DEF Turn
          <6> QED BY <1>3, <6>2
        <5>4. CASE flow[g].status \notin {"INACTIVE", "NEW_FLOW"} /\ ~Ahead(oldFlows', g, f)
          <6>1. Turn(f, g)' = 0
            BY <4>1, <5>1, <5>4 DEF Turn
          <6> QED BY <1>3, <6>1
        <5> QED BY <5>3, <5>4
      <4> QED BY <4>4, <4>5
    <3> QED BY <3>1, <3>2
  <2>5. flow'[f] = flow[f]
    BY <2>1, <2>3
  <2> QED BY <1>3, <2>4, <2>5 DEF Wait
<1> QED BY <1>4, <1>5

\* What a flow sends it has less to send before the others.
LEMMA LeftPays ==
    ASSUME Largest \in Nat, NEW d \in Int, d > 0, NEW s \in 1 .. Largest
    PROVE  /\ Left(d) \in Nat /\ Left(d - s) \in Nat /\ Left(d - s) + s <= Left(d)
BY DEF Left

LEMMA ServeWaits ==
    ASSUME Types, BackloggedIsListed, Line, Fair, config' = config, RunServe
    PROVE  \E c \in Flows, s \in Nat :
             /\ passed' = [f \in Flows |-> IF f = c \/ flow[f].queue = <<>> THEN 0
                                           ELSE passed[f] + s]
             /\ \A f \in Flows \ {c} : flow[f].queue # <<>> =>
                  /\ Wait(f, c)' + s <= Wait(f, c)
                  /\ \A g \in Others(f) : Wait(f, g)' <= Wait(f, g)
<1>0. PICK c \in Flows : c = Candidate
  BY CandidateTypes DEF RunServe, MayServe
<1> DEFINE q == flow[c].queue
<1>1. /\ flow \in [Flows -> FlowState] /\ q \in Seq(Packet)
      /\ newFlows \in Seq(Flows) /\ oldFlows \in Seq(Flows)
      /\ \A f \in Flows : flow[f].deficit \in Int
      /\ config.quantum \in Nat \ {0} /\ Largest \in Nat /\ Largest <= config.quantum
  <2>1. config.quantum \in Nat \ {0} /\ Largest \in 1 .. config.quantum
    BY ConfigTypes DEF Types, Fair
  <2>2. flow \in [Flows -> FlowState] /\ \A f \in Flows : flow[f] \in FlowState
    BY DEF Types
  <2> QED BY <2>1, <2>2 DEF Types, FlowState
<1>2. PICK o \in CoDelOutcomes(flow[c]) :
        /\ o.drops < Len(q)
        /\ flow' = [flow EXCEPT ![c].queue = SubSeq(q, o.drops + 2, Len(q)),
                                ![c].dropping = o.dropping,
                                ![c].deficit = @ - q[o.drops + 1].size]
  BY <1>0 DEF RunServe, Serve, HandedOut
<1>3. newFlows' = newFlows /\ oldFlows' = oldFlows /\ flow[c].deficit > 0 /\ HasCandidate
  BY <1>0 DEF RunServe, Serve, MayServe
<1>4. q[o.drops + 1].size \in 1 .. Largest
  <2>1. o.drops \in 0 .. Len(q)
    BY DEF CoDelOutcomes
  <2>2. o.drops + 1 \in DOMAIN q
    BY <1>1, <1>2, <2>1
  <2>3. q[o.drops + 1] \in ToSet(q)
    BY <2>2 DEF ToSet
  <2> QED BY <2>3 DEF Line, Held, Fair
<1>5. PICK rest, dropping, s :
        /\ s \in 1 .. Largest
        /\ flow' = [flow EXCEPT ![c].queue = rest, ![c].dropping = dropping,
                                ![c].deficit = @ - s]
  BY <1>2, <1>4
<1> HIDE DEF q
<1>6. /\ flow'[c].deficit = flow[c].deficit - s /\ flow'[c].status = flow[c].status
      /\ \A f \in Flows \ {c} : flow'[f] = flow[f]
  BY <1>1, <1>5 DEF FlowState
<1>7. s \in Nat /\ s \in 1 .. Largest /\ flow[c].deficit - flow'[c].deficit = s
  BY <1>1, <1>5, <1>6
<1>8. passed' = [f \in Flows |-> IF f = c \/ flow[f].queue = <<>> THEN 0
                                 ELSE passed[f] + flow[c].deficit - flow'[c].deficit]
  BY <1>0 DEF RunServe
<1>9. passed' = [f \in Flows |-> IF f = c \/ flow[f].queue = <<>> THEN 0
                                 ELSE passed[f] + s]
  BY <1>7, <1>8
<1>10. ASSUME NEW f \in Flows \ {c}, flow[f].queue # <<>>
       PROVE  /\ Wait(f, c)' + s <= Wait(f, c)
              /\ \A g \in Others(f) : Wait(f, g)' <= Wait(f, g)
  <2>1. /\ flow'[f] = flow[f] /\ flow[f].status # "INACTIVE"
        /\ flow[f].status \in {"INACTIVE", "NEW_FLOW", "OLD_FLOW"}
    BY <1>1, <1>6, <1>10 DEF BackloggedIsListed, FlowState
  <2>2. /\ Lap' = Lap /\ Largest' = Largest /\ config'.quantum = config.quantum
        /\ \A d \in Int : Left(d)' = Left(d)
    BY DEF Lap, Largest, Left
  <2>3. /\ Lap \in Nat /\ \A g \in Flows : Turn(f, g) \in Nat /\ Wait(f, g) \in Nat
    BY <1>10, WaitBounded DEF WaitsBounded
  <2>4. ASSUME NEW g \in Flows \ {c} PROVE Wait(f, g)' = Wait(f, g)
    BY <1>3, <1>6, <2>1, <2>2, <2>4 DEF Wait, Turn, Left, Largest
  <2>5. Turn(f, c)' + s <= Turn(f, c) /\ Turn(f, c)' \in Int
    <3>1. /\ Left(flow[c].deficit) \in Nat /\ Left(flow[c].deficit - s) \in Nat
          /\ Left(flow[c].deficit - s) + s <= Left(flow[c].deficit)
      BY <1>1, <1>3, <1>7, LeftPays
    <3>2. Left(flow[c].deficit)' = Left(flow[c].deficit - s)
      BY <1>6 DEF Left, Largest
    <3>3. CASE newFlows # <<>>
      <4>1. c = Head(newFlows) /\ c \in ToSet(newFlows)
        <5>1. c = Head(newFlows)
          BY <1>0, <3>3 DEF Candidate
        <5> QED BY <1>1, <3>3, <5>1, TailWithoutHead DEF BackloggedIsListed
      <4>2. flow[c].status = "NEW_FLOW"
        BY <4>1 DEF BackloggedIsListed
      <4>3. flow[f].status = "NEW_FLOW" => Ahead(newFlows, c, f)
        <5>1. flow[f].status = "NEW_FLOW" => f \in ToSet(newFlows)
          BY DEF BackloggedIsListed
        <5> QED BY <1>1, <3>3, <4>1, <5>1, HeadAhead
      <4>4. Turn(f, c) = Left(flow[c].deficit) /\ Turn(f, c)' = Left(flow[c].deficit)'
        BY <1>3, <1>6, <2>1, <4>2, <4>3 DEF Turn
      <4> QED BY <3>1, <3>2, <4>4
    <3>4. CASE newFlows = <<>>
      <4>1. oldFlows # <<>> /\ c = Head(oldFlows)
        BY <1>0, <1>3, <3>4 DEF HasCandidate, Candidate
      <4>2. c \in ToSet(oldFlows)
        BY <1>1, <4>1, TailWithoutHead DEF BackloggedIsListed
      <4>3. ToSet(newFlows) = {}
        BY <3>4 DEF ToSet
      <4>4. flow[c].status = "OLD_FLOW" /\ flow[f].status = "OLD_FLOW"
        BY <2>1, <4>2, <4>3 DEF BackloggedIsListed
      <4>5. Ahead(oldFlows, c, f)
        <5>1. f \in ToSet(oldFlows)
          BY <4>4 DEF BackloggedIsListed
        <5> QED BY <1>1, <4>1, <5>1, HeadAhead
      <4>6. /\ Turn(f, c) = flow[c].deficit - 1 + Left(config.quantum)
            /\ Turn(f, c)' = IF flow[c].deficit - s > 0
                             THEN flow[c].deficit - s - 1 + Left(config.quantum)
                             ELSE 0
        <5>1. Turn(f, c) = flow[c].deficit - 1 + Left(config.quantum)
          BY <1>3, <4>4, <4>5 DEF Turn
        <5>2. Turn(f, c)' = IF flow'[c].deficit > 0
                            THEN flow'[c].deficit - 1 + Left(config.quantum)'
                            ELSE 0
          BY <1>3, <1>6, <2>1, <4>4, <4>5 DEF Turn
        <5>3. Left(config.quantum)' = Left(config.quantum)
          BY DEF Left, Largest
        <5> QED BY <1>6, <5>1, <5>2, <5>3
      <4>7. Left(config.quantum) \in Nat /\ Left(config.quantum) >= s /\ s \in 1 .. Largest
        BY <1>1, <1>7 DEF Left
      <4>8. flow[c].deficit \in Int
        BY <1>1
      <4> QED BY SMTT(30), <1>1, <1>3, <4>6, <4>7, <4>8
    <3> QED BY <3>3, <3>4
  <2>6. Wait(f, c)' + s <= Wait(f, c) /\ Wait(f, c)' <= Wait(f, c)
    BY <1>7, <2>1, <2>2, <2>3, <2>5 DEF Wait
  <2>7. \A g \in Others(f) : Wait(f, g)' <= Wait(f, g)
    BY <2>3, <2>4, <2>6 DEF Others
  <2> QED BY <2>6, <2>7
<1> QED BY <1>7, <1>9, <1>10

---------------------------------------------------------------------------
(* Fairness: no flow is starved                                            *)

\* What every other flow may still send before f does, and what they have sent
\* since it did, is never more than two laps each.
Served ==
    /\ passed \in [Flows -> Nat]
    /\ \A f \in Flows :
         /\ passed[f] <= 2 * Lap * Cardinality(Others(f))
         /\ flow[f].queue # <<>> => Budget(f)

FairInv == LineInv /\ (config.quantum >= Largest => Fair /\ Served)

LEMMA LeastNatural ==
    ASSUME NEW S \in SUBSET Nat, S # {}
    PROVE  \E n \in S : \A m \in S : n <= m
<1>1. \E n \in S : \A m \in S : ~(<<m, n>> \in OpToRel(<, Nat))
  BY NatLessThanWellFounded, WFMin
<1>2. \A m, n \in S : ~(<<m, n>> \in OpToRel(<, Nat)) => n <= m
  BY DEF OpToRel
<1> QED
  BY <1>1, <1>2

LEMMA LargestIs ==
    ASSUME Sized, config \in Configs
    PROVE  /\ Largest \in Nat \ {0} /\ Largest <= Mtu
           /\ config.sizes \subseteq 1 .. Largest
<1>1. config.sizes \subseteq 1 .. Mtu /\ config.sizes # {} /\ Mtu \in Nat
  BY LinkAssumption DEF Sized
<1> DEFINE Rest == {Mtu - s : s \in config.sizes}
<1>2. Rest \in SUBSET Nat /\ Rest # {}
  BY <1>1
<1>3. PICK n \in Rest : \A m \in Rest : n <= m
  <2> HIDE DEF Rest
  <2> QED BY <1>2, LeastNatural
<1>4. PICK l \in config.sizes : \A s \in config.sizes : Mtu - l <= Mtu - s
  BY <1>3
<1>5. \A s \in config.sizes : l >= s
  BY <1>1, <1>4
<1>6. Largest \in config.sizes /\ \A s \in config.sizes : Largest >= s
  BY <1>5 DEF Largest, Max
<1> QED BY <1>1, <1>6

LEMMA OthersCount ==
    ASSUME IsFiniteSet(Flows), NEW f \in Flows
    PROVE  /\ IsFiniteSet(Others(f))
           /\ Cardinality(Others(f)) = Cardinality(Flows) - 1
           /\ Cardinality(Others(f)) \in Nat
BY FS_RemoveElement, FS_CardinalityType DEF Others

\* The budget of a flow is enough when it has just been served, and what it has
\* let pass is never more.
BudgetsSuffice ==
    \A f \in Flows :
      /\ 2 * Lap * Cardinality(Others(f)) \in Nat
      /\ Waits(f) \in [Others(f) -> Nat]
      /\ SumAtMost(Others(f), Waits(f), 2 * Lap * Cardinality(Others(f)))
      /\ passed[f] \in Nat /\ Budget(f)
            => passed[f] <= 2 * Lap * Cardinality(Others(f))

LEMMA BudgetsAreSufficient == IsFiniteSet(Flows) /\ Types /\ Fair => BudgetsSuffice
<1> SUFFICES ASSUME IsFiniteSet(Flows), Types, Fair, NEW f \in Flows
             PROVE  /\ 2 * Lap * Cardinality(Others(f)) \in Nat
                    /\ Waits(f) \in [Others(f) -> Nat]
                    /\ SumAtMost(Others(f), Waits(f), 2 * Lap * Cardinality(Others(f)))
                    /\ passed[f] \in Nat /\ Budget(f)
                          => passed[f] <= 2 * Lap * Cardinality(Others(f))
  BY DEF BudgetsSuffice
<1>1. /\ Lap \in Nat /\ 2 * Lap \in Nat
      /\ \A g \in Others(f) : Wait(f, g) \in Nat /\ Wait(f, g) <= 2 * Lap
  BY WaitBounded DEF WaitsBounded, Others
<1>2. IsFiniteSet(Others(f)) /\ Cardinality(Others(f)) \in Nat
  BY OthersCount
<1>3. Waits(f) \in [Others(f) -> Nat] /\ \A g \in Others(f) : Waits(f)[g] <= 2 * Lap
  BY <1>1 DEF Waits
<1> DEFINE most == 2 * Lap * Cardinality(Others(f))
<1>4. SumAtMost(Others(f), Waits(f), most) /\ most \in Nat
  BY <1>1, <1>2, <1>3, SumOfBounded
<1>5. ASSUME passed[f] \in Nat, Budget(f) PROVE passed[f] <= most
  <2> DEFINE n == Cardinality(Others(f))
  <2>1. PICK t \in [0 .. n -> Nat] : t[n] <= most - passed[f]
    BY <1>5 DEF Budget, SumAtMost
  <2>2. t[n] \in Nat
    BY <1>2
  <2> HIDE DEF most
  <2> QED BY <1>4, <1>5, <2>1, <2>2
<1> QED BY <1>3, <1>4, <1>5

LEMMA BudgetKept ==
    ASSUME IsFiniteSet(Flows), Types, Fair, Types', Fair', config' = config,
           NEW f \in Flows, Budget(f), passed'[f] = passed[f],
           \A g \in Others(f) : Wait(f, g)' <= Wait(f, g)
    PROVE  Budget(f)'
<1>1. (IsFiniteSet(Flows) /\ Types /\ Fair => BudgetsSuffice)'
  BY BudgetsAreSufficient, PTL
<1>2. Waits(f) \in [Others(f) -> Nat] /\ Waits(f)' \in [Others(f) -> Nat]
  BY <1>1, BudgetsAreSufficient DEF BudgetsSuffice, Others
<1>3. \A g \in Others(f) : Waits(f)'[g] <= Waits(f)[g]
  BY DEF Waits
<1>4. IsFiniteSet(Others(f)) /\ Lap' = Lap
  BY OthersCount DEF Lap, Largest
<1> DEFINE b == 2 * Lap * Cardinality(Others(f)) - passed[f]
           w == Waits(f)
           v == Waits(f)'
<1>5. SumAtMost(Others(f), w, b)
  BY DEF Budget
<1> HIDE DEF b, w, v
<1>6. SumAtMost(Others(f), v, b)
  BY <1>2, <1>3, <1>4, <1>5, SumKept DEF w, v
<1> QED BY <1>4, <1>6 DEF Budget, Others, b, v

LEMMA BudgetPaid ==
    ASSUME IsFiniteSet(Flows), Types, Fair, Types', Fair', config' = config,
           NEW f \in Flows, Budget(f), passed[f] \in Nat,
           \A g \in Others(f) : Wait(f, g)' <= Wait(f, g),
           NEW c \in Others(f), NEW s \in Nat, passed'[f] = passed[f] + s,
           Wait(f, c)' + s <= Wait(f, c)
    PROVE  Budget(f)'
<1>1. (IsFiniteSet(Flows) /\ Types /\ Fair => BudgetsSuffice)'
  BY BudgetsAreSufficient, PTL
<1>2. /\ Waits(f) \in [Others(f) -> Nat] /\ Waits(f)' \in [Others(f) -> Nat]
      /\ 2 * Lap * Cardinality(Others(f)) \in Nat
  BY <1>1, BudgetsAreSufficient DEF BudgetsSuffice, Others
<1>3. /\ \A g \in Others(f) : Waits(f)'[g] <= Waits(f)[g]
      /\ Waits(f)'[c] + s <= Waits(f)[c]
  BY DEF Waits, Others
<1>4. IsFiniteSet(Others(f)) /\ Lap' = Lap
  BY OthersCount DEF Lap, Largest
<1> DEFINE m == 2 * Lap * Cardinality(Others(f))
           b == m - passed[f]
           w == Waits(f)
           v == Waits(f)'
<1>5. SumAtMost(Others(f), w, b) /\ b \in Int
  BY <1>2 DEF Budget
<1> HIDE DEF b, w, v
<1>6. SumAtMost(Others(f), v, b - s)
  BY <1>2, <1>3, <1>4, <1>5, SumShrinks DEF w, v
<1>7. b - s = m - passed'[f]
  <2>1. m \in Nat
    BY <1>2
  <2> HIDE DEF m
  <2> QED BY <2>1 DEF b
<1> QED BY <1>4, <1>6, <1>7 DEF Budget, Others, v

LEMMA BudgetReset ==
    ASSUME IsFiniteSet(Flows), Types', Fair', NEW f \in Flows, passed'[f] = 0
    PROVE  Budget(f)'
<1>1. (IsFiniteSet(Flows) /\ Types /\ Fair => BudgetsSuffice)'
  BY BudgetsAreSufficient, PTL
<1> DEFINE m == (2 * Lap * Cardinality(Others(f)))'
           v == Waits(f)'
<1>2. m \in Nat /\ SumAtMost(Others(f), v, m)
  BY <1>1 DEF BudgetsSuffice, SumAtMost, Others
<1> HIDE DEF m, v
<1>3. SumAtMost(Others(f), v, m - 0)
  BY <1>2
<1> QED BY <1>3 DEF Budget, SumAtMost, Others, m, v

LEMMA ServedKept ==
    ASSUME IsFiniteSet(Flows), Types', Fair, Fair', Served, config' = config,
           passed' \in [Flows -> Nat],
           \A f \in Flows : /\ flow'[f].queue # <<>> => Budget(f)'
                            /\ passed'[f] = passed[f] \/ Budget(f)'
    PROVE  Served'
<1>1. (IsFiniteSet(Flows) /\ Types /\ Fair => BudgetsSuffice)'
  BY BudgetsAreSufficient, PTL
<1>2. ASSUME NEW f \in Flows PROVE passed'[f] <= (2 * Lap * Cardinality(Others(f)))'
  <2>1. CASE passed'[f] = passed[f]
    <3>1. Lap' = Lap /\ Others(f)' = Others(f)
      BY DEF Lap, Largest, Others
    <3> QED BY <2>1, <3>1 DEF Served
  <2>2. CASE Budget(f)'
    <3>1. passed'[f] \in Nat
      OBVIOUS
    <3> QED BY <1>1, <2>2, <3>1 DEF BudgetsSuffice
  <2> QED BY <2>1, <2>2
<1> QED BY <1>2 DEF Served

\* A packet enters the queue of its flow only.
LEMMA EnqueueFills ==
    ASSUME Types, NEW h \in Flows, NEW p \in Packet, Enqueue(h, p),
           NEW f \in Flows \ {h}, flow'[f].queue # <<>>
    PROVE  flow[f].queue # <<>>
<1> DEFINE woken == IF flow[h].status = "INACTIVE"
                    THEN [flow[h] EXCEPT !.status = "NEW_FLOW",
                                         !.deficit = config.quantum]
                    ELSE flow[h]
           added == IF Len(woken.queue) < config.discMax
                    THEN [woken EXCEPT !.queue = Append(@, p)]
                    ELSE woken
           fl == [flow EXCEPT ![h] = added]
<1>1. flow' = fl \/ \E g \in Flows : FqCoDelDrop(fl, g)
  BY DEF Enqueue
<1> HIDE DEF added
<1>2. fl[f] = flow[f] /\ DOMAIN fl = Flows
  BY DEF Types
<1> HIDE DEF fl
<1>3. ASSUME NEW g \in Flows, FqCoDelDrop(fl, g) PROVE fl[f].queue # <<>>
  <2>1. PICK rest : fl[g].queue # <<>> /\ flow' = [fl EXCEPT ![g].queue = rest]
    BY <1>3 DEF FqCoDelDrop
  <2> QED BY <1>2, <2>1
<1> QED BY <1>1, <1>2, <1>3

LEMMA SendServed ==
    ASSUME IsFiniteSet(Flows), ListsInv, Types', Fair, Fair', Served, config' = config,
           NEW h \in Flows, NEW s \in config.sizes, Send(h, s)
    PROVE  Served'
<1> DEFINE p == NewPacket(h, s)
<1>1. Types /\ BackloggedIsListed /\ p \in Packet /\ Enqueue(h, p)
  BY NewPacketTypes DEF ListsInv, Send
<1>2. /\ passed \in [Flows -> Nat]
      /\ passed' = [passed EXCEPT ![h] = IF flow[h].queue = <<>> THEN 0 ELSE @]
  BY DEF Served, Send
<1> HIDE DEF p
<1>3. passed' \in [Flows -> Nat]
  BY <1>2
<1>4. ASSUME NEW f \in Flows, f = h, flow[h].queue = <<>> PROVE Budget(f)'
  <2>1. passed'[f] = 0
    BY <1>2, <1>4
  <2> QED BY <2>1, BudgetReset
<1>5. ASSUME NEW f \in Flows, f # h \/ flow[h].queue # <<>> PROVE passed'[f] = passed[f]
  BY <1>2, <1>5
<1>6. ASSUME NEW f \in Flows, flow[f].queue # <<>> PROVE Budget(f)'
  <2>1. passed'[f] = passed[f] /\ Budget(f)
    BY <1>5, <1>6 DEF Served
  <2>2. \A g \in Others(f) : Wait(f, g)' <= Wait(f, g)
    BY <1>1, <1>6, EnqueueWaits
  <2> QED BY <1>1, <2>1, <2>2, BudgetKept
<1>7. \A f \in Flows \ {h} : flow'[f].queue # <<>> => flow[f].queue # <<>>
  BY <1>1, EnqueueFills
<1>8. \A f \in Flows : /\ flow'[f].queue # <<>> => Budget(f)'
                       /\ passed'[f] = passed[f] \/ Budget(f)'
  BY <1>4, <1>5, <1>6, <1>7
<1> QED BY <1>3, <1>8, ServedKept

LEMMA TurnServed ==
    ASSUME IsFiniteSet(Flows), ListsInv, Types', Fair, Fair', Served, config' = config,
           NextTurn \/ Retire, passed' = passed
    PROVE  Served'
<1>1. Types /\ BackloggedIsListed
  BY DEF ListsInv
<1>2. ASSUME NEW f \in Flows, flow'[f].queue # <<>> PROVE Budget(f)'
  <2>1. flow[f].queue # <<>> /\ passed'[f] = passed[f] /\ Budget(f)
    BY <1>1, <1>2, TurnTakesNothing DEF Served
  <2>2. \A g \in Others(f) : Wait(f, g)' <= Wait(f, g)
    BY <1>1, <2>1, TurnWaits
  <2> QED BY <1>1, <2>1, <2>2, BudgetKept
<1>3. passed' \in [Flows -> Nat]
  BY DEF Served
<1> QED BY <1>2, <1>3, ServedKept

LEMMA ServeServed ==
    ASSUME IsFiniteSet(Flows), ListsInv, Line, Types', Fair, Fair', Served, config' = config,
           RunServe
    PROVE  Served'
<1>1. Types /\ BackloggedIsListed /\ passed \in [Flows -> Nat]
  BY DEF ListsInv, Served
<1>2. PICK c \in Flows, s \in Nat :
        /\ passed' = [f \in Flows |-> IF f = c \/ flow[f].queue = <<>> THEN 0
                                      ELSE passed[f] + s]
        /\ \A f \in Flows \ {c} : flow[f].queue # <<>> =>
             /\ Wait(f, c)' + s <= Wait(f, c)
             /\ \A g \in Others(f) : Wait(f, g)' <= Wait(f, g)
  BY <1>1, ServeWaits
<1>3. passed' \in [Flows -> Nat]
  BY <1>1, <1>2
<1>4. ASSUME NEW f \in Flows PROVE Budget(f)'
  <2>1. CASE f = c \/ flow[f].queue = <<>>
    <3>1. passed'[f] = 0
      BY <1>2, <2>1
    <3> QED BY <3>1, BudgetReset
  <2>2. CASE f # c /\ flow[f].queue # <<>>
    <3>1. /\ passed'[f] = passed[f] + s /\ passed[f] \in Nat /\ Budget(f)
          /\ c \in Others(f)
      BY <1>1, <1>2, <2>2 DEF Served, Others
    <3>2. /\ Wait(f, c)' + s <= Wait(f, c)
          /\ \A g \in Others(f) : Wait(f, g)' <= Wait(f, g)
      BY <1>2, <2>2
    <3> QED BY <1>1, <3>1, <3>2, BudgetPaid
  <2> QED BY <2>1, <2>2
<1> QED BY <1>3, <1>4, ServedKept

LEMMA QuietServed ==
    ASSUME IsFiniteSet(Flows), Types, Types', Fair, Fair', Served,
           UNCHANGED <<config, discVars, passed>>
    PROVE  Served'
<1>1. /\ config' = config /\ flow' = flow /\ newFlows' = newFlows
      /\ oldFlows' = oldFlows /\ passed' = passed
  BY DEF discVars
<1>2. ASSUME NEW f \in Flows, flow'[f].queue # <<>> PROVE Budget(f)'
  <2>1. passed'[f] = passed[f] /\ Budget(f)
    BY <1>1, <1>2 DEF Served
  <2>2. \A g \in Others(f) : Wait(f, g)' <= Wait(f, g)
    <3> SUFFICES ASSUME NEW g \in Others(f) PROVE Wait(f, g)' <= Wait(f, g)
      OBVIOUS
    <3>1. Wait(f, g)' = Wait(f, g)
      BY <1>1 DEF Wait, Turn, Left, Lap, Largest
    <3>2. Wait(f, g) \in Int
      BY WaitBounded DEF WaitsBounded, Others
    <3> QED BY <3>1, <3>2
  <2> QED BY <1>1, <2>1, <2>2, BudgetKept
<1>3. passed' \in [Flows -> Nat]
  BY <1>1 DEF Served
<1> QED BY <1>1, <1>2, <1>3, ServedKept

LEMMA FairInit == ASSUME IsFiniteSet(Flows), Sized, Init PROVE FairInv
<1>1. LineInv /\ Types
  BY LineInit DEF LineInv, ListsInv
<1>2. /\ passed = [f \in Flows |-> 0]
      /\ \A f \in Flows : flow[f].queue = <<>> /\ flow[f].deficit = 0
  BY DEF Init, DiscInit
<1>3. /\ Largest \in Nat \ {0} /\ config.sizes \subseteq 1 .. Largest
      /\ config.quantum \in Nat \ {0}
  BY <1>1, LargestIs, ConfigTypes DEF Types
<1>4. ASSUME config.quantum >= Largest PROVE Fair /\ Served
  <2>1. Fair
    BY <1>2, <1>3, <1>4 DEF Fair, Deficits
  <2>2. \A f \in Flows : 2 * Lap * Cardinality(Others(f)) \in Nat
    BY <1>1, <2>1, BudgetsAreSufficient DEF BudgetsSuffice
  <2>3. Served
    BY <1>2, <2>2 DEF Served
  <2> QED BY <2>1, <2>3
<1> QED BY <1>1, <1>4 DEF FairInv

LEMMA FairStep ==
    ASSUME IsFiniteSet(Flows), Sized, FairInv, [Next]_vars
    PROVE  FairInv'
<1>1. /\ LineInv /\ LineInv' /\ ListsInv /\ Types /\ Types' /\ Line
  BY LineStep DEF FairInv, LineInv, ListsInv
<1>2. config' = config
  BY DEF Next, Steps, Send, SendDirectly, RunNextTurn, RunRetire, RunServe, RunEnd,
     TransmitComplete, CheckRoom, Receive, vars
<1>3. SUFFICES ASSUME config.quantum >= Largest, Fair, Served PROVE Fair' /\ Served'
  BY <1>1, <1>2 DEF FairInv, Largest
<1>4. /\ Largest \in Nat \ {0} /\ config.sizes \subseteq 1 .. Largest
      /\ Deficits(Largest) /\ Largest' = Largest
  <2>1. Largest' = Largest
    BY <1>2 DEF Largest
  <2> QED BY <1>1, <1>3, <2>1, LargestIs DEF Fair, Types
<1>5. ASSUME \A f \in Flows : flow'[f].deficit \in 1 - Largest .. config.quantum
      PROVE  Fair'
  <2>1. Largest' \in 1 .. config'.quantum /\ config'.sizes \subseteq 1 .. Largest'
    BY <1>2, <1>3, <1>4 DEF Fair
  <2> QED BY <1>2, <1>4, <1>5, <2>1 DEF Fair, Deficits
<1>6. ASSUME NEW h \in Flows, NEW s \in config.sizes, Send(h, s) PROVE Fair' /\ Served'
  <2>1. NewPacket(h, s) \in Packet /\ Enqueue(h, NewPacket(h, s))
    BY <1>1, <1>6, NewPacketTypes DEF Send
  <2>2. Fair'
    BY <1>1, <1>4, <1>5, <2>1, EnqueueDeficits
  <2> QED BY <1>1, <1>2, <1>3, <1>6, <2>2, SendServed
<1>7. CASE RunNextTurn \/ RunRetire
  <2>1. (NextTurn \/ Retire) /\ passed' = passed
    BY <1>7 DEF RunNextTurn, RunRetire
  <2>2. Fair'
    BY <1>1, <1>4, <1>5, <2>1, TurnDeficits
  <2> QED BY <1>1, <1>2, <1>3, <2>1, <2>2, TurnServed
<1>8. CASE RunServe
  <2>1. Fair'
    BY <1>1, <1>4, <1>5, <1>8, ServeDeficits
  <2> QED BY <1>1, <1>2, <1>3, <1>8, <2>1, ServeServed
<1>9. ASSUME UNCHANGED <<config, discVars, passed>> PROVE Fair' /\ Served'
  <2>1. flow' = flow
    BY <1>9 DEF discVars
  <2>2. Fair'
    BY <1>4, <1>5, <2>1 DEF Deficits
  <2> QED BY <1>1, <1>3, <1>9, <2>2, QuietServed
<1>10. CASE RunEnd \/ TransmitComplete \/ CheckRoom \/ Receive \/ UNCHANGED vars
            \/ \E f \in Flows, s \in config.sizes : SendDirectly(f, s)
  <2>1. UNCHANGED <<config, discVars, passed>>
    BY <1>10 DEF RunEnd, TransmitComplete, CheckRoom, Receive, SendDirectly, vars
  <2> QED BY <1>9, <2>1
<1> QED BY <1>6, <1>7, <1>8, <1>10 DEF Next, Steps

LEMMA FairInvariance ==
    ASSUME IsFiniteSet(Flows), Sized
    PROVE  Spec => []FairInv
<1>1. Init => FairInv
  BY FairInit
<1>2. FairInv /\ [Next]_vars => FairInv'
  BY FairStep
<1> QED BY <1>1, <1>2, PTL DEF Spec

\* NoFlowStarved of FqCoDelQueueDisc, for any number of flows, any packets, and
\* quanta that cover a packet: however the flows empty, come back as new ones, and
\* lose packets to CoDel or to a full disc, a flow with packets waits for at most
\* two laps of each of the others.
THEOREM FlowsNeverStarve ==
    ASSUME IsFiniteSet(Flows), Sized
    PROVE  Spec => []NoFlowStarved
<1>1. FairInv => NoFlowStarved
  <2> SUFFICES ASSUME FairInv, config.quantum >= Largest, NEW f \in Flows
               PROVE  passed[f] <= 2 * (2 * (config.quantum - 1) + Largest)
                                     * (Cardinality(Flows) - 1)
    BY DEF NoFlowStarved, Largest
  <2>1. passed[f] <= 2 * Lap * Cardinality(Others(f))
    BY DEF FairInv, Served
  <2> QED BY <2>1, OthersCount DEF Lap
<1> QED BY <1>1, FairInvariance, PTL
=============================================================================
