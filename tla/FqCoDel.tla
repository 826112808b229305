------------------------------ MODULE FqCoDel -------------------------------
(***************************************************************************)
(* FqCoDelQueueDisc, the queue disc that Ipv4AddressHelper puts on every   *)
(* point-to-point device of nr-immortal.cc: a CoDel queue per flow, and    *)
(* two lists of flows that take turns by deficit round robin.  Its methods *)
(* run within one event of the simulator.  What CoDel's clock says (how    *)
(* long a packet has waited, whether the next drop is due) and whether a   *)
(* packet can be marked instead of dropped is left open; which of its      *)
(* decisions the length of the queue allows is not.                        *)
(***************************************************************************)
EXTENDS Integers, Sequences, FiniteSets, SequencesExt

CONSTANTS
    Flows           \* the flow queues into which packets are classified

VARIABLES
    config,         \* the attributes of the link in this run, see Link
    flow,           \* of each flow: m_status, m_deficit, m_dropping, its queue
    newFlows,       \* m_newFlows
    oldFlows        \* m_oldFlows

discVars == <<flow, newFlows, oldFlows>>

DiscInit ==
    /\ flow = [f \in Flows |-> [status |-> "INACTIVE", deficit |-> 0,
                                dropping |-> FALSE, queue |-> <<>>]]
    /\ newFlows = <<>> /\ oldFlows = <<>>

Bytes(q) == FoldSeq(LAMBDA p, sum : p.size + sum, 0, q)

NPackets(fl) == SumFunction([f \in Flows |-> Len(fl[f].queue)])

Backlogged(fl) == \E f \in Flows : fl[f].queue # <<>>

---------------------------------------------------------------------------
(* Enqueue                                                                 *)

\* The loop of FqCoDelDrop ends after a batch, or with half of the bytes gone.
DropEnds(q, k) ==
    k = config.batch \/ Bytes(SubSeq(q, 1, k)) >= Bytes(q) \div 2

\* The packets dropped are the first of a queue with the most bytes (of
\* several such queues, of the one that was created first).
FqCoDelDrop(fl, g) ==
    LET q == fl[g].queue
    IN /\ q # <<>>
       /\ \A f \in Flows : Bytes(fl[f].queue) <= Bytes(q)
       /\ \E k \in 1 .. Len(q) :
            /\ DropEnds(q, k)
            /\ \A j \in 1 .. k - 1 : ~DropEnds(q, j)
            /\ flow' = [fl EXCEPT ![g].queue = SubSeq(q, k + 1, Len(q))]

\* A flow without packets starts over as a new flow with a full deficit.  The
\* queue of the flow refuses a packet when it alone fills the disc.
Enqueue(f, p) ==
    LET woken == IF flow[f].status = "INACTIVE"
                 THEN [flow[f] EXCEPT !.status = "NEW_FLOW",
                                      !.deficit = config.quantum]
                 ELSE flow[f]
        added == IF Len(woken.queue) < config.discMax
                 THEN [woken EXCEPT !.queue = Append(@, p)]
                 ELSE woken
        fl == [flow EXCEPT ![f] = added]
    IN /\ newFlows' = IF flow[f].status = "INACTIVE"
                      THEN Append(newFlows, f) ELSE newFlows
       /\ IF NPackets(fl) > config.discMax
          THEN \E g \in Flows : FqCoDelDrop(fl, g)
          ELSE flow' = fl
       /\ UNCHANGED oldFlows

---------------------------------------------------------------------------
(* Dequeue: the iterations of its loop                                     *)

HasCandidate == newFlows # <<>> \/ oldFlows # <<>>

\* The flow whose turn it is
Candidate == IF newFlows # <<>> THEN Head(newFlows) ELSE Head(oldFlows)

\* Fault: moved to the front of the old flows instead of their end
JumpQueue ==
    IF newFlows # <<>>
    THEN /\ newFlows' = Tail(newFlows) /\ oldFlows' = <<Candidate>> \o oldFlows
    ELSE UNCHANGED <<newFlows, oldFlows>>

\* The candidate goes to the end of the old flows.
PopCandidate ==
    IF newFlows # <<>>
    THEN /\ newFlows' = Tail(newFlows) /\ oldFlows' = Append(oldFlows, Candidate)
    ELSE /\ oldFlows' = Append(Tail(oldFlows), Candidate) /\ UNCHANGED newFlows

\* Fault: two quanta for one turn
NextTurnTwice ==
    /\ HasCandidate
    /\ flow[Candidate].deficit <= 0
    /\ flow' = [flow EXCEPT ![Candidate].deficit = @ + 2 * config.quantum,
                            ![Candidate].status = "OLD_FLOW"]
    /\ PopCandidate

\* Fault: SetStatus forgotten
NextTurnStillNew ==
    /\ HasCandidate
    /\ flow[Candidate].deficit <= 0
    /\ flow' = [flow EXCEPT ![Candidate].deficit = @ + config.quantum]
    /\ PopCandidate

\* A flow that has used up its deficit gets another and goes to the end of the
\* old flows.
NextTurn ==
    /\ HasCandidate
    /\ flow[Candidate].deficit <= 0
    /\ flow' = [flow EXCEPT ![Candidate].deficit = @ + config.quantum,
                            ![Candidate].status = "OLD_FLOW"]
    /\ PopCandidate

\* A flow without packets: a new one goes to the old flows, an old one leaves.
Retire ==
    /\ HasCandidate
    /\ flow[Candidate].deficit > 0
    /\ flow[Candidate].queue = <<>>
    /\ IF newFlows # <<>>
       THEN /\ flow' = [flow EXCEPT ![Candidate].dropping = FALSE,
                                    ![Candidate].status = "OLD_FLOW"]
            /\ PopCandidate
       ELSE /\ flow' = [flow EXCEPT ![Candidate].dropping = FALSE,
                                    ![Candidate].status = "INACTIVE"]
            /\ oldFlows' = Tail(oldFlows)
            /\ UNCHANGED newFlows

\* OkToDrop of the k-th packet of a queue never says yes when fewer than
\* m_minBytes are left behind it.
MayDrop(q, k) == Bytes(SubSeq(q, k + 1, Len(q))) >= config.minBytes

\* What CoDelQueueDisc::DoDequeue may do with the queue of a flow: drop the
\* first packets, k of them, and be in the dropping state afterwards or not.
\* Outside of that state it drops one at most, and is in it from then on; it is
\* in it as well when the packet was only marked.
CoDelOutcomes(fl) ==
    {o \in [drops : 0 .. Len(fl.queue), dropping : BOOLEAN] :
        /\ o.drops > 0 => MayDrop(fl.queue, o.drops)
        /\ IF fl.dropping
           THEN o.dropping => /\ o.drops < Len(fl.queue)
                              /\ MayDrop(fl.queue, o.drops + 1)
           ELSE /\ o.drops <= 1
                /\ IF o.drops = 1 THEN o.dropping
                   ELSE o.dropping => MayDrop(fl.queue, 1)}

\* The candidate has packets and a deficit.
MayServe ==
    /\ HasCandidate
    /\ flow[Candidate].deficit > 0
    /\ flow[Candidate].queue # <<>>

\* What is left of the queue after o, an outcome of CoDel, begins with the packet
\* CoDel hands out.
HandedOut(o) == flow[Candidate].queue[o.drops + 1]

\* CoDel hands out a packet, and the flow pays for it.
Serve(o) ==
    LET q == flow[Candidate].queue
    IN /\ o.drops < Len(q)
       /\ flow' = [flow EXCEPT
                     ![Candidate].queue = SubSeq(q, o.drops + 2, Len(q)),
                     ![Candidate].dropping = o.dropping,
                     ![Candidate].deficit = @ - HandedOut(o).size]
       /\ UNCHANGED <<newFlows, oldFlows>>
=============================================================================
