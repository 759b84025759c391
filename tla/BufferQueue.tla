----------------------------- MODULE BufferQueue -----------------------------
(***************************************************************************)
(* What a queue of buffer headers promises (interface/mmal/mmal_queue.h):  *)
(* buffers are added at the tail (put) or at the head (put_back) and leave  *)
(* from the head, one for each reader that has been promised one.  A reader *)
(* is never promised a buffer that is not there for it.                     *)
(***************************************************************************)
EXTENDS Naturals, Sequences

CONSTANT Buffers      \* the buffer headers

VARIABLES contents,   \* the buffers queued, head first
          promised    \* the number of readers that have been promised one

vars == <<contents, promised>>

Init == contents = <<>> /\ promised = 0

Fresh(b) == \A i \in 1..Len(contents) : contents[i] # b

Put(b) == /\ Fresh(b)
          /\ contents' = Append(contents, b)
          /\ UNCHANGED promised

PutBack(b) == /\ Fresh(b)
              /\ contents' = <<b>> \o contents
              /\ UNCHANGED promised

Promise == /\ promised < Len(contents)
           /\ promised' = promised + 1
           /\ UNCHANGED contents

Take == /\ promised > 0
        /\ contents' = Tail(contents)
        /\ promised' = promised - 1

Next == \/ \E b \in Buffers : Put(b) \/ PutBack(b)
        \/ Promise
        \/ Take

Spec == Init /\ [][Next]_vars
=============================================================================
