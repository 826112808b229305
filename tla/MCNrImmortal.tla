---------------------------- MODULE MCNrImmortal ----------------------------
(* main's own timeline, for --time from 2 to 95 seconds in half seconds:    *)
(* every half second of the timeline is the end of some simulation, so the  *)
(* final check and the stop meet every other event.                         *)
EXTENDS NrImmortal

HalfSeconds == {5 * k : k \in 4 .. 190}

\* main's literals are spaced as the theorems on overlaps suppose, and those on
\* the animation.
ASSUME SpacingAssumption == WellSpaced
ASSUME PicturesAssumption == PicturesSettle
=============================================================================
