---------------------------- MODULE MCEventCore ----------------------------
(* Three events are enough for one to run while a second waits for the same *)
(* or a later time and a third is pushed by another thread.                 *)
EXTENDS EventCore
=============================================================================
