----------------------------- MODULE EventKeys -----------------------------
(***************************************************************************)
(* The order of the events of a scheduler.                                 *)
(***************************************************************************)
EXTENDS Integers

\* By time, and the events of one time by their uid
Precedes(e, f) == e.ts < f.ts \/ (e.ts = f.ts /\ e.uid < f.uid)
=============================================================================
