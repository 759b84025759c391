----------------------------- MODULE BufferHeader -----------------------------
(***************************************************************************)
(* The reference counting of buffer headers (interface/mmal/core/          *)
(* mmal_buffer.c) and their return to the pool they come from              *)
(* (mmal_pool_buffer_header_release in mmal_pool.c).                       *)
(*                                                                         *)
(* Components and clients run on threads of their own.  A thread holds     *)
(* references to headers: it takes a header out of its pool with one       *)
(* reference, acquires more, hands them to other threads (in the code, by  *)
(* sending the buffer to a port) and releases them.  A replica refers to   *)
(* its source, and its last release releases the source in turn.           *)
(*                                                                         *)
(* The count is a plain integer, changed by ++ and -- with no lock: each   *)
(* is a load and a store, on which the threads interleave, and one of two  *)
(* that overlap is lost.  torn remembers the headers this has happened to. *)
(*                                                                         *)
(* The queue of the pool is abstracted to the set of its headers: the      *)
(* module MmalQueue shows that it behaves as one, for headers that are put *)
(* in it once.                                                             *)
(***************************************************************************)
EXTENDS Integers, Sequences, FiniteSets

CONSTANTS
  Headers,      \* buffer headers, of all the pools
  Level,        \* headers are replicated into headers of a higher level only:
                \* a level is a stage of the pipeline, its headers are one pool
  Delaying,     \* the headers that have a pre-release callback
  Threads,      \* threads of components and clients
  None,         \* no header
  MaxRefs,      \* bound on the references the threads hold to one header
  MaxLater      \* bound on the calls begun after an update was lost

ASSUME HeadersAssumption ==
  /\ None \notin Headers
  /\ Level \in [Headers -> Nat]
  /\ Delaying \subseteq Headers
ASSUME FiniteAssumption == IsFiniteSet(Headers) /\ IsFiniteSet(Threads)
ASSUME BoundAssumption == MaxRefs \in Nat \ {0} /\ MaxLater \in Nat

VARIABLES
  refcount,     \* refcount[h]: header->priv->refcount
  reference,    \* reference[h]: header->priv->reference, the source of a replica
  pool,         \* the headers in the queue of their pool
  delayed,      \* headers whose release the pre-release callback postponed
  held,         \* held[t][h]: number of references to h that t holds
  calls,        \* calls[t]: the stack of calls t is in, innermost last
  torn,         \* history: headers two updates of whose count have overlapped
  later         \* how many calls have been begun since, for the bound

vars == <<refcount, reference, pool, delayed, held, calls, torn, later>>
races == <<torn, later>>

(* A call on a header: where it is, and the count it has loaded.  dest is  *)
(* the replica an acquire is made for, None for a plain acquire.           *)
Frame == [at : {"load", "store", "zero", "recycle", "acquire"},
          hdr : Headers, count : Int, dest : Headers \cup {None}]

Call(at, h) == [at |-> at, hdr |-> h, count |-> 0, dest |-> None]

Idle(t) == calls[t] = << >>
Top(t) == calls[t][Len(calls[t])]
At(t, at) == ~Idle(t) /\ Top(t).at = at
Outer(t) == SubSeq(calls[t], 1, Len(calls[t]) - 1)
Goto(t, frames) == calls' = [calls EXCEPT ![t] = Outer(t) \o frames]

(* The count of h is loaded: if a thread has loaded it and not stored it   *)
(* back yet, one of the two updates will undo the other.                   *)
Updating(h) == \E t \in Threads : ~Idle(t) /\ Top(t).hdr = h /\ Top(t).at \in {"store", "acquire"}
Loads(h) == torn' = IF Updating(h) THEN torn \cup {h} ELSE torn

(* An idle thread begins a call.                                           *)
Begins(t) == Idle(t) /\ IF torn = {} THEN UNCHANGED later
                                     ELSE later < MaxLater /\ later' = later + 1

(* The references the threads hold to h, numbered for each thread.         *)
References(h) == UNION {{t} \X (1 .. held[t][h]) : t \in Threads}
HeldCount(h) == Cardinality(References(h))

Init ==
  /\ refcount = [h \in Headers |-> 1]
  /\ reference = [h \in Headers |-> None]
  /\ pool = Headers
  /\ delayed = {}
  /\ held = [t \in Threads |-> [h \in Headers |-> 0]]
  /\ calls = [t \in Threads |-> << >>]
  /\ torn = {} /\ later = 0

-----------------------------------------------------------------------------
(* Threads take headers from the pools and pass references around.         *)

Take(t, h) ==
  /\ Begins(t)
  /\ h \in pool
  /\ HeldCount(h) < MaxRefs
  /\ pool' = pool \ {h}
  /\ held' = [held EXCEPT ![t][h] = @ + 1]
  /\ UNCHANGED <<refcount, reference, delayed, calls, torn>>

HandOver(t, u, h) ==
  /\ Begins(t)
  /\ t # u
  /\ held[t][h] > 0
  /\ held' = [held EXCEPT ![t][h] = @ - 1, ![u][h] = @ + 1]
  /\ UNCHANGED <<refcount, reference, pool, delayed, calls, torn>>

(* mmal_buffer_header_acquire: the load, then the store of one more.       *)
Acquiring(h, dest) == [at |-> "acquire", hdr |-> h, count |-> refcount[h], dest |-> dest]

Acquire(t, h) ==
  /\ Begins(t)
  /\ held[t][h] > 0
  /\ HeldCount(h) < MaxRefs
  /\ Loads(h)
  /\ calls' = [calls EXCEPT ![t] = <<Acquiring(h, None)>>]
  /\ UNCHANGED <<refcount, reference, pool, delayed, held>>

(* mmal_buffer_header_replicate refuses a destination that is already a    *)
(* replica, and otherwise acquires the source.  The components of the      *)
(* repository replicate into a header they alone hold.                     *)
Replicate(t, dest, src) ==
  /\ Begins(t)
  /\ held[t][dest] = 1 /\ HeldCount(dest) = 1
  /\ \A d \in Headers : reference[d] # dest
  /\ held[t][src] > 0
  /\ Level[src] < Level[dest]
  /\ reference[dest] = None
  /\ Loads(src)
  /\ calls' = [calls EXCEPT ![t] = <<Acquiring(src, dest)>>]
  /\ UNCHANGED <<refcount, reference, pool, delayed, held>>

\* Mutant: a replica does not count as a reference to its source.
Acquired_NotReplica(t) ==
  LET f == Top(t) IN
  /\ At(t, "acquire")
  /\ refcount' = IF f.dest = None THEN [refcount EXCEPT ![f.hdr] = f.count + 1] ELSE refcount
  /\ IF f.dest = None
     THEN held' = [held EXCEPT ![t][f.hdr] = @ + 1] /\ UNCHANGED reference
     ELSE reference' = [reference EXCEPT ![f.dest] = f.hdr] /\ UNCHANGED held
  /\ Goto(t, << >>)
  /\ UNCHANGED <<pool, delayed, races>>

Acquired(t) ==
  LET f == Top(t) IN
  /\ At(t, "acquire")
  /\ refcount' = [refcount EXCEPT ![f.hdr] = f.count + 1]
  /\ IF f.dest = None
     THEN held' = [held EXCEPT ![t][f.hdr] = @ + 1] /\ UNCHANGED reference
     ELSE reference' = [reference EXCEPT ![f.dest] = f.hdr] /\ UNCHANGED held
  /\ Goto(t, << >>)
  /\ UNCHANGED <<pool, delayed, races>>

-----------------------------------------------------------------------------
(* mmal_buffer_header_release.                                             *)

Release(t, h) ==
  /\ Begins(t)
  /\ held[t][h] > 0
  /\ held' = [held EXCEPT ![t][h] = @ - 1]
  /\ calls' = [calls EXCEPT ![t] = <<Call("load", h)>>]
  /\ UNCHANGED <<refcount, reference, pool, delayed, torn>>

Load(t) ==
  /\ At(t, "load")
  /\ Loads(Top(t).hdr)
  /\ Goto(t, <<[Top(t) EXCEPT !.at = "store", !.count = refcount[Top(t).hdr]]>>)
  /\ UNCHANGED <<refcount, reference, pool, delayed, held, later>>

Store(t) ==
  LET f == Top(t) IN
  /\ At(t, "store")
  /\ refcount' = [refcount EXCEPT ![f.hdr] = f.count - 1]
  /\ Goto(t, IF f.count = 1 THEN <<Call("zero", f.hdr)>> ELSE << >>)
  /\ UNCHANGED <<reference, pool, delayed, held, races>>

(* The pre-release callback keeps the header for later.                    *)
Delay(t) ==
  /\ At(t, "zero")
  /\ Top(t).hdr \in Delaying
  /\ delayed' = delayed \cup {Top(t).hdr}
  /\ Goto(t, << >>)
  /\ UNCHANGED <<refcount, reference, pool, held, races>>

\* Mutant: the source of a replica is not released.
Finalising_KeepsSource(h) == <<Call("recycle", h)>>

(* What mmal_buffer_header_release_continue has to do: the release of the  *)
(* source if the header is a replica, then the recycling.                  *)
Finalising(h) ==
  IF reference[h] = None THEN <<Call("recycle", h)>>
                         ELSE <<Call("recycle", h), Call("load", reference[h])>>

Continue(t) ==
  /\ At(t, "zero")
  /\ Goto(t, Finalising(Top(t).hdr))
  /\ UNCHANGED <<refcount, reference, pool, delayed, held, races>>

ReleaseContinue(t, h) ==
  /\ Begins(t)
  /\ h \in delayed
  /\ delayed' = delayed \ {h}
  /\ calls' = [calls EXCEPT ![t] = Finalising(h)]
  /\ UNCHANGED <<refcount, reference, pool, held, torn>>

(* The pool with h in its queue.  A header that is linked there already is *)
(* linked once more at the end: the list loses headers that came after it, *)
(* which ones is left open.                                                *)
Pool(h) == {g \in Headers : Level[g] = Level[h]}
Requeued(h) == IF h \in pool THEN {pool \ lost : lost \in SUBSET ((pool \cap Pool(h)) \ {h})}
                           ELSE {pool \cup {h}}

\* Mutant: the count is left at zero.
Recycle_StaysZero(t) ==
  LET h == Top(t).hdr IN
  /\ At(t, "recycle")
  /\ reference' = [reference EXCEPT ![h] = None]
  /\ \/ pool' \in Requeued(h) /\ UNCHANGED held
     \/ held' = [held EXCEPT ![t][h] = @ + 1] /\ UNCHANGED pool
  /\ Goto(t, << >>)
  /\ UNCHANGED <<delayed, refcount, races>>

(* mmal_pool_buffer_header_release: the count is one again, and either the *)
(* callback of the pool takes the header or it goes back in the queue.     *)
Recycle(t) ==
  LET h == Top(t).hdr IN
  /\ At(t, "recycle")
  /\ reference' = [reference EXCEPT ![h] = None]
  /\ refcount' = [refcount EXCEPT ![h] = 1]
  /\ \/ pool' \in Requeued(h) /\ UNCHANGED held
     \/ held' = [held EXCEPT ![t][h] = @ + 1] /\ UNCHANGED pool
  /\ Goto(t, << >>)
  /\ UNCHANGED <<delayed, races>>

-----------------------------------------------------------------------------
Next ==
  \E t \in Threads :
    \/ \E h \in Headers :
         \/ Take(t, h)
         \/ \E u \in Threads : HandOver(t, u, h)
         \/ Acquire(t, h)
         \/ \E src \in Headers : Replicate(t, h, src)
         \/ Release(t, h)
         \/ ReleaseContinue(t, h)
    \/ Acquired(t)
    \/ Load(t)
    \/ Store(t)
    \/ Delay(t)
    \/ Continue(t)
    \/ Recycle(t)

Spec == Init /\ [][Next]_vars

-----------------------------------------------------------------------------
(* The variables have their types.                                         *)
TypeOK ==
  /\ refcount \in [Headers -> Int]
  /\ reference \in [Headers -> Headers \cup {None}]
  /\ pool \subseteq Headers
  /\ delayed \subseteq Headers
  /\ held \in [Threads -> [Headers -> Nat]]
  /\ calls \in [Threads -> Seq(Frame)]
  /\ torn \subseteq Headers
  /\ later \in Nat

(* The properties of a header are promised as long as no update was lost   *)
(* in its pool, nor in the pool of a later stage, which holds its replicas *)
(* or theirs.  A lost update harms nobody else.                            *)
Sound(h) == \A d \in torn : Level[d] < Level[h]

InCall(h) == \E t \in Threads : \E i \in 1 .. Len(calls[t]) :
               calls[t][i].hdr = h \/ calls[t][i].dest = h
Replicas(h) == {d \in Headers : reference[d] = h}

(* A header on which no call is under way, nor on a replica of it, counts  *)
(* exactly its holders and its replicas; one for itself while it is in the *)
(* pool, and none once its release has been postponed.                     *)
RefcountExact ==
  \A h \in Headers :
    Sound(h) /\ ~InCall(h) /\ (\A d \in Replicas(h) : ~InCall(d))
    => refcount[h] = HeldCount(h) + Cardinality(Replicas(h)) + (IF h \in pool THEN 1 ELSE 0)

(* A header in the pool, or about to be put there, is used by nobody: no   *)
(* thread holds it, no replica shows its payload and no other release of   *)
(* it is under way.                                                        *)
Recycling(t, h) == \E i \in 1 .. Len(calls[t]) : calls[t][i].hdr = h /\ calls[t][i].at = "recycle"
Recycled(h) == h \in pool \cup delayed \/ \E t \in Threads : Recycling(t, h)
Unused(h) ==
  /\ HeldCount(h) = 0
  /\ \A d \in Replicas(h) : \E t \in Threads : Recycling(t, d)
  /\ Cardinality({t \in Threads : Recycling(t, h)})
       + Cardinality({h} \cap pool) + Cardinality({h} \cap delayed) = 1
NoEarlyRecycle == \A h \in Headers : Sound(h) /\ Recycled(h) => Unused(h)

(* A header that is not in its pool has somebody who will give it back: a  *)
(* holder, a replica, a postponed release or a call under way.             *)
ComesBack(h) ==
  h \in pool \cup delayed \/ HeldCount(h) > 0 \/ Replicas(h) # {} \/ InCall(h)
NothingLeaked == \A h \in Headers : Sound(h) => ComesBack(h)

(* What mmal_buffer.h says of mmal_buffer_header_release, of every header: *)
(* "when no more references are left, the buffer header will be recycled". *)
RecycledAtTheEnd == \A h \in Headers : ComesBack(h)
=============================================================================
