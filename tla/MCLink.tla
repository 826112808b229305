------------------------------- MODULE MCLink -------------------------------
EXTENDS Link

CONSTANTS f1, f2

Base == [disc |-> TRUE, discMax |-> 3, quantum |-> 3, batch |-> 64,
         minBytes |-> 2, quota |-> 64, unit |-> "PACKETS", max |-> 1,
         corrupts |-> FALSE, sizes |-> {1, 3}, packets |-> 4]

MCConfigs ==
    {Base,
     \* one drop at a time, one packet at a time
     [Base EXCEPT !.discMax = 2, !.batch = 1, !.quantum = 2, !.quota = 1,
                  !.max = 2, !.sizes = {1, 2}],
     \* CoDel leaves the packets alone: only the turns matter
     [Base EXCEPT !.discMax = 7, !.quantum = 1, !.minBytes = 64,
                  !.sizes = {1}, !.packets = 5],
     \* a device queue limited in bytes, and packets at most an MTU with header
     [Base EXCEPT !.unit = "BYTES", !.max = 5, !.sizes = {1, 2}],
     \* no queue disc, and a receiver with an error model
     [Base EXCEPT !.disc = FALSE, !.max = 2, !.sizes = {1}, !.packets = 6,
                  !.corrupts = TRUE]}

ASSUME BoundAssumption == PacketsBounded
ASSUME SizesAssumption == Sized
=============================================================================
