----------------------------- MODULE Documented -----------------------------
(***************************************************************************)
(* What the README and the header comment of nr-immortal.cc say of a run,  *)
(* as properties of main's timeline.  The program does otherwise in each   *)
(* case; README.md, "Where the code and its documents differ", explains.   *)
(***************************************************************************)
EXTENDS NrImmortal

\* Header: the 45-second simulation goes on to "35-37s: Full teardown with
\* redeploy" and "40-45s: Network partition with twin offline".
AllScenariosRun ==
    report # << >> => \/ scenario.name = <<"Network", "Partition">>
                      \/ \E i \in DOMAIN metrics.summaries :
                            metrics.summaries[i].name = <<"Network", "Partition">>

\* Header: a process restart is "agent destruction and recreation on same
\* host".
RestartKeepsHost ==
    [][/\ scenario'.name = <<"Process", "Restart">>
       /\ scenario.name # scenario'.name
       => enterprise'.host = enterprise.host]_vars

\* Header: scenario-summary.csv holds "Aggregated statistics per scenario":
\* a summary is the average of at least one sample of its scenario.
SummariesAverageSamples ==
    \A i \in DOMAIN metrics.summaries : metrics.summaries[i].averaged > 0
=============================================================================
