---------------------------- MODULE MCBufferHeader ----------------------------
(* A chain of three headers: each may be replicated into those after it.   *)
EXTENDS BufferHeader, TLC

CONSTANTS source, middle, last

MCHeaders == {source, middle, last}
ChainLevel == source :> 1 @@ middle :> 2 @@ last :> 3
MCDelaying == {middle}

Symmetry == Permutations(Threads)
=============================================================================
