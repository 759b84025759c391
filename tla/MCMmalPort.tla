------------------------------ MODULE MCMmalPort ------------------------------
(* One port, on small sets of client threads and buffers.  The symmetry is *)
(* for the runs that check invariants only: it is unsound for liveness.    *)
EXTENDS MmalPort, TLC

Symmetry == Permutations(Buffers) \cup Permutations(Clients)
=============================================================================
