----------------------------- MODULE Continuity -----------------------------
(***************************************************************************)
(* What the continuity scenarios promise, without the machinery that keeps *)
(* the promise: one agent, that is down now and then, never for longer     *)
(* than RecoveryDelay, and that comes back as Self, the agent it was       *)
(* created as.  Time may pass with every step.                             *)
(***************************************************************************)
EXTENDS Integers

CONSTANTS
    Self,           \* the fingerprint the agent was created with
    Down,           \* stands for no agent
    RecoveryDelay

VARIABLES
    clock,
    agent,          \* the fingerprint of the agent, or Down
    since           \* when the agent last went down

vars == <<clock, agent, since>>

Init == clock = 0 /\ agent = Self /\ since = 0

\* Time passes; an agent that is down waits no longer than RecoveryDelay.
Wait == /\ clock' >= clock
        /\ agent = Down => clock' <= since + RecoveryDelay
        /\ UNCHANGED <<agent, since>>

Fail == /\ agent = Self /\ agent' = Down
        /\ clock' >= clock /\ since' = clock'

Return == /\ agent = Down /\ agent' = Self
          /\ clock' >= clock /\ clock' <= since + RecoveryDelay
          /\ UNCHANGED since

Next == Wait \/ Fail \/ Return

Spec == Init /\ [][Next]_vars /\ (agent = Down ~> agent = Self)
=============================================================================
