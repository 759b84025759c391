---------------------------- MODULE MCMmalClock ----------------------------
(***************************************************************************)
(* The clock of MmalClock with every speed: backwards, paused, forwards.   *)
(***************************************************************************)
EXTENDS MmalClock

MCScales == {-1, 0, 1}
=============================================================================
