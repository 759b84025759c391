------------------------------ MODULE MmalQueue ------------------------------
(***************************************************************************)
(* The MMAL buffer queue, interface/mmal/core/mmal_queue.c: a linked list  *)
(* under a mutex and a semaphore that counts its buffers.  A reader first  *)
(* claims the semaphore and only then takes the mutex to unlink the head;  *)
(* mmal_queue_length reads the length without the mutex.  Every operation  *)
(* is cut where another thread can see a difference.                       *)
(***************************************************************************)
EXTENDS Naturals, Sequences, FiniteSets

CONSTANTS Buffers,     \* the buffer headers
          Producers,   \* the threads that put buffers
          Consumers,   \* the threads that get buffers
          NoBuffer, NoThread

ASSUME ThreadsAssumption == /\ NoBuffer \notin Buffers
                            /\ NoThread \notin Producers \cup Consumers
ASSUME QueueFiniteAssumption == /\ IsFiniteSet(Producers \cup Consumers)
                                /\ IsFiniteSet(Buffers)

Users == Producers \cup Consumers

VARIABLES items,     \* the linked list from queue->first
          length,    \* queue->length
          sem,       \* the value of queue->semaphore
          lock,      \* the owner of queue->lock
          pc,        \* where each thread is
          buf,       \* the buffer a thread is putting or has taken
          checked    \* the thread has just seen mmal_queue_length() > 0

queueVars == <<items, length, sem, lock, pc, buf, checked>>

\* The threads at one of the labels ls.
ThreadsAt(ls) == {t \in Users : pc[t] \in ls}

InQueue(b) == \E i \in 1..Len(items) : items[i] = b

\* A buffer that is neither queued nor in the hands of a queue operation:
\* the client owns it and may put it.
Owned(b) == ~InQueue(b) /\ \A t \in Users : buf[t] # b

QueueInit ==
  /\ items = <<>> /\ length = 0 /\ sem = 0
  /\ lock = NoThread
  /\ pc = [t \in Users |-> "idle"]
  /\ buf = [t \in Users |-> NoBuffer]
  /\ checked = [t \in Users |-> FALSE]
-----------------------------------------------------------------------------
MovesTo(t, l) == pc' = [pc EXCEPT ![t] = l]

\* mmal_queue_put (l = "put") and mmal_queue_put_back (l = "putback") take
\* the lock and count the buffer before it is linked.
PutCount(t, b, l) ==
  /\ pc[t] = "idle" /\ lock = NoThread
  /\ Owned(b)
  /\ lock' = t
  /\ length' = length + 1
  /\ buf' = [buf EXCEPT ![t] = b]
  /\ MovesTo(t, l)
  /\ UNCHANGED <<items, sem, checked>>

Link(t, l, list) ==
  /\ pc[t] = l
  /\ items' = list
  /\ buf' = [buf EXCEPT ![t] = NoBuffer]
  /\ MovesTo(t, "linked")
  /\ UNCHANGED <<length, sem, lock, checked>>

\* Mutant: the put does not link its buffer.
PutLink_Dropped(t) == Link(t, "put", items)

PutLink(t)     == Link(t, "put", Append(items, buf[t]))
PutBackLink(t) == Link(t, "putback", <<buf[t]>> \o items)

\* Mutant: the semaphore is not posted.
PutPost_Missing(t) ==
  /\ pc[t] = "linked"
  /\ MovesTo(t, "posted")
  /\ UNCHANGED <<items, length, sem, lock, buf, checked>>

\* The semaphore is posted before the lock is released.
PutPost(t) ==
  /\ pc[t] = "linked"
  /\ sem' = sem + 1
  /\ MovesTo(t, "posted")
  /\ UNCHANGED <<items, length, lock, buf, checked>>

PutUnlock(t) ==
  /\ pc[t] = "posted"
  /\ lock' = NoThread
  /\ MovesTo(t, "idle")
  /\ UNCHANGED <<items, length, sem, buf, checked>>
-----------------------------------------------------------------------------
\* A claim of the semaphore, by trywait (from "idle") or by a wait.
Claim(t, l) ==
  /\ pc[t] = l /\ sem > 0
  /\ sem' = sem - 1
  /\ MovesTo(t, "claimed")
  /\ checked' = [checked EXCEPT ![t] = FALSE]
  /\ UNCHANGED <<items, length, lock, buf>>

GetTry(t) == Claim(t, "idle")

\* Mutant: the result of the trywait is not tested.
GetMiss_Unlinks(t) ==
  /\ pc[t] = "idle" /\ sem = 0
  /\ MovesTo(t, "claimed")
  /\ UNCHANGED <<items, length, sem, lock, buf, checked>>

\* mmal_queue_get returns NULL when the trywait fails.
GetMiss(t) ==
  /\ pc[t] = "idle" /\ sem = 0
  /\ checked' = [checked EXCEPT ![t] = FALSE]
  /\ UNCHANGED <<items, length, sem, lock, pc, buf>>

\* mmal_queue_wait (l = "waiting") and mmal_queue_timedwait (l = "timed").
WaitBegin(t, l) ==
  /\ pc[t] = "idle"
  /\ MovesTo(t, l)
  /\ UNCHANGED <<items, length, sem, lock, buf, checked>>

WaitWake(t)  == Claim(t, "waiting")
TimedWake(t) == Claim(t, "timed")

\* The timeout of a timed wait expires: NULL is returned.
Timeout(t) ==
  /\ pc[t] = "timed"
  /\ MovesTo(t, "idle")
  /\ checked' = [checked EXCEPT ![t] = FALSE]
  /\ UNCHANGED <<items, length, sem, lock, buf>>

\* Mutant: the head is returned and stays linked.
GetCore_KeepsHead(t) ==
  /\ pc[t] = "claimed" /\ lock = NoThread
  /\ items # <<>>
  /\ lock' = t
  /\ buf' = [buf EXCEPT ![t] = Head(items)]
  /\ length' = length - 1
  /\ MovesTo(t, "taken")
  /\ UNCHANGED <<items, sem, checked>>

\* Mutant: the buffer at the tail is unlinked.
GetCore_TakesLast(t) ==
  /\ pc[t] = "claimed" /\ lock = NoThread
  /\ items # <<>>
  /\ lock' = t
  /\ buf' = [buf EXCEPT ![t] = items[Len(items)]]
  /\ items' = SubSeq(items, 1, Len(items) - 1)
  /\ length' = length - 1
  /\ MovesTo(t, "taken")
  /\ UNCHANGED <<sem, checked>>

\* mmal_queue_get_core: unlink the head.  An empty list is a NULL
\* dereference, so the step needs one (the assertion at line 138).
GetCore(t) ==
  /\ pc[t] = "claimed" /\ lock = NoThread
  /\ items # <<>>
  /\ lock' = t
  /\ buf' = [buf EXCEPT ![t] = Head(items)]
  /\ items' = Tail(items)
  /\ length' = length - 1
  /\ MovesTo(t, "taken")
  /\ UNCHANGED <<sem, checked>>

GetUnlock(t) ==
  /\ pc[t] = "taken"
  /\ lock' = NoThread
  /\ buf' = [buf EXCEPT ![t] = NoBuffer]
  /\ MovesTo(t, "idle")
  /\ UNCHANGED <<items, length, sem, checked>>

\* mmal_queue_length, read without the lock: what the caller learns may be old
\* by the time it calls mmal_queue_get.
ReadLength(t) ==
  /\ pc[t] = "idle"
  /\ checked' = [checked EXCEPT ![t] = length > 0]
  /\ UNCHANGED <<items, length, sem, lock, pc, buf>>
-----------------------------------------------------------------------------
ProducerCall(t) == \E b \in Buffers, l \in {"put", "putback"} : PutCount(t, b, l)
ProducerStep(t) == PutLink(t) \/ PutBackLink(t) \/ PutPost(t) \/ PutUnlock(t)

ConsumerCall(t) == \/ GetTry(t) \/ GetMiss(t) \/ ReadLength(t)
                   \/ \E l \in {"waiting", "timed"} : WaitBegin(t, l)
ConsumerStep(t) == WaitWake(t) \/ TimedWake(t) \/ GetCore(t) \/ GetUnlock(t)

QueueNext ==
  \/ \E t \in Producers : ProducerCall(t) \/ ProducerStep(t)
  \/ \E t \in Consumers : ConsumerCall(t) \/ ConsumerStep(t) \/ Timeout(t)

\* A thread inside an operation keeps running; nobody has to start one.
Fairness == /\ \A t \in Producers : WF_queueVars(ProducerStep(t))
            /\ \A t \in Consumers : WF_queueVars(ConsumerStep(t))

QueueSpec == QueueInit /\ [][QueueNext]_queueVars
QueueFairSpec == QueueSpec /\ Fairness
-----------------------------------------------------------------------------
Labels == {"idle", "put", "putback", "linked", "posted",
           "waiting", "timed", "claimed", "taken"}

\* Types of the variables.
QueueTypeOK ==
  /\ items \in Seq(Buffers)
  /\ length \in Nat
  /\ sem \in Nat
  /\ lock \in Users \cup {NoThread}
  /\ pc \in [Users -> Labels]
  /\ buf \in [Users -> Buffers \cup {NoBuffer}]
  /\ checked \in [Users -> BOOLEAN]

\* The readers past the semaphore, and the writers that have counted their
\* buffer but not linked it, or linked it but not posted.
Claimed == Cardinality(ThreadsAt({"claimed"}))
Linked  == Cardinality(ThreadsAt({"linked"}))
Counted == Cardinality(ThreadsAt({"put", "putback"}))

\* Every claim of the semaphore is backed by a linked buffer: the list holds
\* one buffer for each unit of the semaphore, each reader that has claimed
\* but not yet unlinked, and each writer that has linked but not yet posted.
ClaimsBacked == Len(items) = sem + Claimed + Linked

\* The length is right whenever the lock is free, so the sanity check at the
\* start of every operation passes (mmal_queue_sanity_check).
LengthExact == length = Len(items) + Counted

\* A reader past the semaphore that gets the lock finds a buffer: the
\* assertion of mmal_queue_get_core.
ClaimFindsBuffer ==
  \A t \in Users : pc[t] = "claimed" /\ lock = NoThread => items # <<>>

\* No buffer is lost or duplicated: it is in at most one place among the
\* list and the hands of the threads inside an operation.
OneOwner ==
  /\ \A i, j \in 1..Len(items) : items[i] = items[j] => i = j
  /\ \A t \in Users : buf[t] # NoBuffer => ~InQueue(buf[t])
  /\ \A t, u \in Users : buf[t] = buf[u] /\ buf[t] # NoBuffer => t = u

\* The queue is an implementation of the abstract one: a put takes effect
\* when the buffer is linked and a reader is promised a buffer when it has
\* claimed the semaphore.
Abstract == INSTANCE BufferQueue
              WITH contents <- items, promised <- Claimed
AbstractQueue == Abstract!Spec

\* A thread that sleeps in mmal_queue_wait does not sleep beside a buffer
\* for ever: some reader unlinks one.
NoLostWakeup ==
  (items # <<>> /\ ThreadsAt({"waiting"}) # {}) ~> (ThreadsAt({"taken"}) # {})
=============================================================================
