--------------------------- MODULE MCPortConnection ---------------------------
(* A connection used by one client from each end.                          *)
EXTENDS PortConnection

CONSTANTS c1, c2

OwnEnds == [t \in Clients |-> IF t = c1 THEN {"out"} ELSE {"in"}]
=============================================================================
