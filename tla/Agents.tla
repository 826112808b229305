------------------------------- MODULE Agents -------------------------------
(***************************************************************************)
(* ImmortalAgent, EnterpriseAgent and TwinAgent.  An agent is the object a *)
(* Ptr points to; NoAgent is the null Ptr, and an object no Ptr points to  *)
(* any more is gone.  The twin keeps, per agent name, the reference        *)
(* fingerprint and lineage, and counts its checks.                         *)
(***************************************************************************)
EXTENDS ImmortalIdentity

CONSTANT NoAgent

NewEnterprise(node, identity) == [identity |-> identity, host |-> node]

\* m_refFingerprints and m_refLineages, which always have the same keys
NewTwin(node, identity) ==
    [identity |-> identity, host |-> node,
     references |-> << >>, success |-> 0, fail |-> 0]

Migrate(agent, node) == [agent EXCEPT !.host = node]

Reference(identity) == [fingerprint |-> identity.fingerprint,
                        lineage |-> identity.lineage]

\* operator[] of a std::map: inserts or overwrites
RegisterReference(twin, name, reference) ==
    [twin EXCEPT !.references =
        [n \in DOMAIN @ \cup {name} |->
            IF n = name THEN reference ELSE twin.references[n]]]

\* The verdict of VerifyAgentContinuity
Continuous(twin, agent) ==
    /\ agent # NoAgent
    /\ agent.identity.name \in DOMAIN twin.references
    /\ Reference(agent.identity) = twin.references[agent.identity.name]

\* The counters VerifyAgentContinuity moves
CountCheck(twin, ok) ==
    IF ok THEN [twin EXCEPT !.success = @ + 1]
          ELSE [twin EXCEPT !.fail = @ + 1]

TotalChecks(twin) == twin.success + twin.fail
=============================================================================
