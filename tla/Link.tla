-------------------------------- MODULE Link --------------------------------
(***************************************************************************)
(* One direction of a point-to-point link of nr-immortal.cc with the layer *)
(* above it: TrafficControlLayer, the queue disc, the flow control between *)
(* it and the device (NetDeviceQueue), PointToPointNetDevice with its      *)
(* DropTailQueue, and the channel.  Each action is an event of the         *)
(* simulator, or one iteration of a loop that runs within an event; while  *)
(* such a loop runs no other event does.                                   *)
(***************************************************************************)
EXTENDS FqCoDel

CONSTANTS
    Configs,        \* the attributes of a link
    Mtu,            \* the largest packet a device takes from above
    Header          \* what PointToPointNetDevice::AddHeader adds to it

ASSUME LinkAssumption ==
    /\ Mtu \in Nat \ {0} /\ Header \in Nat
    /\ Configs \subseteq
        [disc : BOOLEAN,                     \* a root queue disc is installed
         discMax : Nat \ {0}, quantum : Nat \ {0}, batch : Nat \ {0},
         minBytes : Nat \ {0},               \* MinBytes of the CoDel queues
         quota : Nat \ {0},                  \* Quota of Run
         unit : {"PACKETS", "BYTES"},        \* MaxSize of the device queue
         max : Nat \ {0},
         corrupts : BOOLEAN,                 \* an error model is set
         sizes : SUBSET (1 .. Mtu),          \* the sizes of the packets sent
         packets : Nat]                      \* bound: how many are sent

VARIABLES
    quota,          \* what is left of it in QueueDisc::Run, 0 when not running
    device,         \* the queue of the device, m_txMachineState
    stopped,        \* m_stoppedByDevice
    check,          \* the event of PacketDequeued is scheduled
    wire,           \* the packets whose Receive event is scheduled
    created,        \* the number of packets sent so far
    delivered,      \* of each flow, the last packet the receiver passed up
    passed          \* history: of each flow with packets, how many bytes of
                    \* others the disc has sent since it sent one of this flow,
                    \* or since this flow got its first packet

linkVars == <<quota, device, stopped, check, wire, created, delivered>>
vars == <<config, discVars, linkVars, passed>>

Init ==
    /\ config \in Configs
    /\ DiscInit
    /\ quota = 0
    /\ device = [queue |-> <<>>, busy |-> FALSE]
    /\ stopped = FALSE /\ check = FALSE
    /\ wire = <<>>
    /\ created = 0
    /\ delivered = [f \in Flows |-> 0]
    /\ passed = [f \in Flows |-> 0]

Idle == quota = 0

---------------------------------------------------------------------------
(* The device and its queue                                                *)

\* Queue::DoEnqueue, for a packet of size s
Overflows(q, s) ==
    IF config.unit = "PACKETS" THEN Len(q) + 1 > config.max
                               ELSE Bytes(q) + s > config.max

\* QueueBase::WouldOverflow(1, MTU)
NoRoom(q) ==
    IF config.unit = "PACKETS" THEN Len(q) + 1 > config.max
                               ELSE Bytes(q) + Mtu > config.max

\* TransmitStart: the receiver will hear the packet; PacketDequeued has
\* scheduled its check.
Transmit(p) ==
    /\ wire' = Append(wire, [id |-> p.id, flow |-> p.flow])
    /\ check' = TRUE

\* Fault: flow control looks at the queue before the packet is in it
DeviceSendLate(p) ==
    LET q == Append(device.queue, [p EXCEPT !.size = @ + Header])
    IN IF Overflows(device.queue, p.size + Header)
       THEN stopped' = TRUE /\ UNCHANGED <<device, check, wire>>
       ELSE /\ stopped' = (stopped \/ NoRoom(device.queue))
            /\ IF device.busy
               THEN /\ device' = [device EXCEPT !.queue = q]
                    /\ UNCHANGED <<check, wire>>
               ELSE /\ device' = [queue |-> Tail(q), busy |-> TRUE]
                    /\ Transmit(Head(q))

\* PointToPointNetDevice::Send with the traces of its queue: a packet without
\* room is lost and stops the queue (PacketDiscarded); one that leaves no room
\* for another stops it as well (PacketEnqueued), even if the device takes it
\* from the queue at once.
DeviceSend(p) ==
    LET q == Append(device.queue, [p EXCEPT !.size = @ + Header])
    IN IF Overflows(device.queue, p.size + Header)
       THEN stopped' = TRUE /\ UNCHANGED <<device, check, wire>>
       ELSE /\ stopped' = (stopped \/ NoRoom(q))
            /\ IF device.busy
               THEN /\ device' = [device EXCEPT !.queue = q]
                    /\ UNCHANGED <<check, wire>>
               ELSE /\ device' = [queue |-> Tail(q), busy |-> TRUE]
                    /\ Transmit(Head(q))

---------------------------------------------------------------------------
(* Sending, and the loop of QueueDisc::Run                                 *)

NewPacket(f, s) == [id |-> created + 1, flow |-> f, size |-> s]

\* TrafficControlLayer::Send with a queue disc
Send(f, s) ==
    /\ Idle /\ created < config.packets /\ config.disc
    /\ created' = created + 1
    /\ Enqueue(f, NewPacket(f, s))
    /\ quota' = config.quota
    /\ passed' = [passed EXCEPT ![f] = IF flow[f].queue = <<>> THEN 0 ELSE @]
    /\ UNCHANGED <<config, device, stopped, check, wire, delivered>>

\* TrafficControlLayer::Send without one: past a stopped device, to nowhere
SendDirectly(f, s) ==
    /\ Idle /\ created < config.packets /\ ~config.disc
    /\ created' = created + 1
    /\ IF stopped THEN UNCHANGED <<device, stopped, check, wire>>
                  ELSE DeviceSend(NewPacket(f, s))
    /\ UNCHANGED <<config, discVars, quota, delivered, passed>>

Running == ~Idle /\ ~stopped

RunNextTurn ==
    /\ Running /\ NextTurn
    /\ UNCHANGED <<config, linkVars, passed>>

RunRetire ==
    /\ Running /\ Retire
    /\ UNCHANGED <<config, linkVars, passed>>

\* Restart: one packet goes to the device.  Run goes on unless the disc is
\* empty now, the device stopped, or the quota used up.
RunServe ==
    /\ Running /\ MayServe
    /\ \E o \in CoDelOutcomes(flow[Candidate]) : Serve(o) /\ DeviceSend(HandedOut(o))
    /\ quota' = IF ~Backlogged(flow') \/ stopped' THEN 0 ELSE quota - 1
    /\ passed' = [f \in Flows |->
                    IF f = Candidate \/ flow[f].queue = <<>> THEN 0
                    ELSE passed[f] + flow[Candidate].deficit
                                   - flow'[Candidate].deficit]
    /\ UNCHANGED <<config, created, delivered>>

\* There is no packet to take.
RunEnd ==
    /\ ~Idle
    /\ stopped \/ ~HasCandidate
    /\ quota' = 0
    /\ UNCHANGED <<config, discVars, device, stopped, check, wire, created,
                   delivered, passed>>

---------------------------------------------------------------------------
(* The events of the device and the channel                                *)

\* Fault: the last packet of the queue is sent first
TransmitNewest ==
    /\ Idle /\ device.busy /\ ~check
    /\ IF device.queue = <<>>
       THEN /\ device' = [device EXCEPT !.busy = FALSE]
            /\ UNCHANGED <<check, wire>>
       ELSE /\ device' = [device EXCEPT !.queue = Front(@)]
            /\ Transmit(Last(device.queue))
    /\ UNCHANGED <<config, discVars, quota, stopped, created, delivered, passed>>

\* The check was scheduled for the time at which this transmission began.
TransmitComplete ==
    /\ Idle /\ device.busy /\ ~check
    /\ IF device.queue = <<>>
       THEN /\ device' = [device EXCEPT !.busy = FALSE]
            /\ UNCHANGED <<check, wire>>
       ELSE /\ device' = [device EXCEPT !.queue = Tail(@)]
            /\ Transmit(Head(device.queue))
    /\ UNCHANGED <<config, discVars, quota, stopped, created, delivered, passed>>

\* Fault: Wake forgets whether the queue was stopped
CheckAndClear ==
    /\ Idle /\ check
    /\ check' = FALSE
    /\ stopped' = (stopped /\ NoRoom(device.queue))
    /\ UNCHANGED <<config, discVars, quota, device, wire, created, delivered, passed>>

\* The event that PacketDequeued scheduled: with room for another packet, wake
\* the queue disc if it was stopped.
CheckRoom ==
    /\ Idle /\ check
    /\ check' = FALSE
    /\ IF NoRoom(device.queue)
       THEN UNCHANGED <<quota, stopped>>
       ELSE /\ stopped' = FALSE
            /\ quota' = IF stopped /\ config.disc THEN config.quota ELSE 0
    /\ UNCHANGED <<config, discVars, device, wire, created, delivered, passed>>

\* PointToPointNetDevice::Receive at the other end: not before the time at
\* which the transmission began is over
Receive ==
    /\ Idle /\ wire # <<>>
    /\ check => Len(wire) > 1
    /\ wire' = Tail(wire)
    /\ \/ delivered' = [delivered EXCEPT ![Head(wire).flow] = Head(wire).id]
       \/ config.corrupts /\ UNCHANGED delivered
    /\ UNCHANGED <<config, discVars, quota, device, stopped, check, created, passed>>

Steps ==
    \/ RunNextTurn \/ RunRetire \/ RunServe \/ RunEnd
    \/ TransmitComplete \/ CheckRoom \/ Receive

Next ==
    \/ \E f \in Flows, s \in config.sizes : Send(f, s) \/ SendDirectly(f, s)
    \/ Steps

\* The simulator runs the events it has; nothing makes anyone send.
Spec == Init /\ [][Next]_vars /\ WF_vars(Steps)

---------------------------------------------------------------------------
(* Properties                                                              *)

\* The type of every variable.
LinkTypeOK ==
    /\ config \in Configs
    /\ \A f \in Flows :
        /\ flow[f].status \in {"INACTIVE", "NEW_FLOW", "OLD_FLOW"}
        /\ flow[f].deficit \in 1 - Mtu .. config.quantum
        /\ flow[f].dropping \in BOOLEAN
        /\ \A p \in ToSet(flow[f].queue) : p.flow = f /\ p.size \in config.sizes
    /\ quota \in 0 .. config.quota
    /\ {device.busy, stopped, check} \subseteq BOOLEAN
    /\ created \in 0 .. config.packets

\* Between two events a packet in the disc is sure to be taken by one that is
\* already scheduled: the device is stopped, and busy, and the check that will
\* find room is pending or will be scheduled when the transmission completes.
NothingStranded ==
    (Idle /\ Backlogged(flow))
        => stopped /\ device.busy /\ (check \/ device.queue # <<>>)

\* As long as flow control lets packets through, the queue of the device has
\* room for any of them (PacketDiscarded calls the contrary a BUG).
DeviceHasRoom ==
    ~stopped => \A s \in config.sizes : ~Overflows(device.queue, s + Header)

\* The two lists hold each flow that is not inactive, once, and a flow that
\* has packets is not inactive: FqCoDelDrop, CoDel and the turns of the flows
\* change both sides of this at different times.
BackloggedIsListed ==
    /\ IsInjective(newFlows) /\ IsInjective(oldFlows)
    /\ ToSet(newFlows) = {f \in Flows : flow[f].status = "NEW_FLOW"}
    /\ ToSet(oldFlows) = {f \in Flows : flow[f].status = "OLD_FLOW"}
    /\ \A f \in Flows : flow[f].queue # <<>> => flow[f].status # "INACTIVE"

\* Deficit round robin: a flow with packets waits for a bounded number of
\* bytes of every other flow, however flows empty and come back as new ones: in
\* the worst case it needs a turn to get a deficit and one to use it, and in
\* each of them the other first uses up what it has left as an old flow and
\* then its quantum as a new one.
NoFlowStarved ==
    LET largest == Max(config.sizes)
    IN config.quantum >= largest =>
         \A f \in Flows :
           passed[f] <= 2 * (2 * (config.quantum - 1) + largest)
                          * (Cardinality(Flows) - 1)

Ids(q, f) == {p.id : p \in {x \in ToSet(q) : x.flow = f}}

\* Of the configurations, one lets the most packets be sent.
PacketsBounded == \E c \in Configs : \A d \in Configs : d.packets <= c.packets

\* Packets are sent in some size.
Sized == \A c \in Configs : c.sizes # {}

\* Queue disc, flow control, device and channel together are a pipe: what they
\* lose they lose, the rest arrives in order, once, and nothing stays inside.
P == INSTANCE Pipe WITH
        Packets <- 1 .. Max({c.packets : c \in Configs}),
        pending <- [f \in Flows |-> Ids(flow[f].queue \o device.queue, f)
                                      \union Ids(wire, f)]

ImplementsPipe == P!Spec
=============================================================================
