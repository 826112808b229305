-------------------------------- MODULE Pipe --------------------------------
(***************************************************************************)
(* What a point-to-point link promises to the layers above it, whatever    *)
(* queues it is made of: of the packets of one flow it may lose any, but   *)
(* it delivers the others in the order they were sent, none of them twice, *)
(* and keeps none for ever.                                                *)
(***************************************************************************)
EXTENDS Integers, FiniteSetsExt

CONSTANTS
    Flows,
    Packets         \* the numbers of the packets, in the order they are sent

VARIABLES
    created,        \* the number of packets sent so far
    pending,        \* of each flow, the packets on their way
    delivered       \* of each flow, the last packet delivered

vars == <<created, pending, delivered>>

Init ==
    /\ created = 0
    /\ pending = [f \in Flows |-> {}]
    /\ delivered = [f \in Flows |-> 0]

\* A packet of f enters; it, or packets on their way, may be lost at once.
Send(f) ==
    /\ created' = created + 1
    /\ pending' \in [Flows -> SUBSET Packets]
    /\ \A g \in Flows :
         pending'[g] \subseteq pending[g] \union (IF g = f THEN {created'} ELSE {})
    /\ UNCHANGED delivered

Lose ==
    /\ pending' \in [Flows -> SUBSET Packets]
    /\ \A f \in Flows : pending'[f] \subseteq pending[f]
    /\ UNCHANGED <<created, delivered>>

Deliver(f) ==
    /\ pending[f] # {}
    /\ LET first == Min(pending[f])
       IN /\ delivered' = [delivered EXCEPT ![f] = first]
          /\ pending' = [pending EXCEPT ![f] = @ \ {first}]
    /\ UNCHANGED created

Next == Lose \/ \E f \in Flows : Send(f) \/ Deliver(f)

OnItsWay(p) == \E f \in Flows : p \in pending[f]

Spec == Init /\ [][Next]_vars /\ \A p \in Packets : OnItsWay(p) ~> ~OnItsWay(p)
=============================================================================
