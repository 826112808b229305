------------------------------ MODULE DownTime ------------------------------
(***************************************************************************)
(* AnyTimeline implements Continuity.  The auxiliary variable downSince    *)
(* remembers when the enterprise agent last went down; the program keeps   *)
(* no such time (m_failureStartTime is overwritten by every scenario).     *)
(***************************************************************************)
EXTENDS AnyTimeline

VARIABLE downSince

\* Follows every step of the manager
Track == downSince' = IF enterprise # NoAgent /\ enterprise' = NoAgent
                      THEN now' ELSE downSince

TrackedInit == Init /\ downSince = 0
TrackedNext == ManagerNext /\ Track
trackedVars == <<vars, downSince>>

TrackedSpec == TrackedInit /\ [][TrackedNext]_trackedVars /\ Fairness

\* A fingerprint is never mistaken for a missing agent
ASSUME DownAssumption == AegisRan.fingerprint # NoAgent

Fingerprint(a) == IF a = NoAgent THEN NoAgent ELSE a.identity.fingerprint

C == INSTANCE Continuity WITH
        Self <- AegisRan.fingerprint, Down <- NoAgent,
        clock <- now, agent <- Fingerprint(enterprise), since <- downSince

\* Whatever the timeline, an agent that goes down is back, with the
\* fingerprint it was created with, before RecoveryDelay has passed, whichever
\* of the timers brings it back.
ImplementsContinuity == C!Spec

\* The same without the liveness of C!Spec: what the theorem states
SafeContinuity == C!Init /\ [][C!Next]_C!vars

\* The invariant behind it: while the agent is down one of the restorations in
\* the queue is due in time, counted from the moment it went down.
DownInv ==
    /\ downSince \in Nat
    /\ enterprise = NoAgent =>
        \E e \in queue : /\ e.op \in Restorations
                         /\ e.ts <= downSince + RecoveryDelay
=============================================================================
