----------------------------- MODULE MCTraffic -----------------------------
(* main's times for --time from 2 to 9 seconds, one packet every half       *)
(* second instead of every 10 ms, so that the cap, the stop and the end all *)
(* meet packets in flight.  The migration is at 3 s, and its second sample  *)
(* falls on the periodic one at 4 s.                                        *)
EXTENDS Traffic

MainSchedule(t, inOrder) ==
    [clientStart |-> 20, clientStop |-> t - 20,
     sinkStart |-> 10, sinkStop |-> t - 10, migration |-> 30,
     periodic |-> SelectSeq(<<5, 10, 20, 40, 60>>, LAMBDA s : s < t), end |-> t,
     inOrder |-> inOrder]

Runs == {MainSchedule(t, inOrder) :
            t \in {20, 25, 30, 35, 40, 45, 50, 60, 70, 90}, inOrder \in BOOLEAN}
=============================================================================
