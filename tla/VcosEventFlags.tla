---------------------------- MODULE VcosEventFlags ----------------------------
(***************************************************************************)
(* Event flags, vcos/generic/vcos_generic_event_flags.c, on the timers and *)
(* thread semaphores of vcos/pthreads/vcos_pthreads.c.  A get that has to  *)
(* wait links a request on its own stack, arms the timer of its thread and *)
(* sleeps on the semaphore of its thread.  A set walks the list and wakes; *)
(* the timer, a thread of its own, unlinks a request that is still linked. *)
(* Timer routines run under the lock of their timer, which a cancel takes. *)
(***************************************************************************)
EXTENDS Naturals, Sequences, SequencesExt

CONSTANTS Threads, Bits,
          Getters,     \* the threads that call get; the others only set
          Requests,    \* the gets made: [bits, all, consume, suspend]
          NoThread

ASSUME RequestAssumption ==
  /\ Requests # {}
  /\ Requests \subseteq [bits : (SUBSET Bits) \ {{}}, all : BOOLEAN, consume : BOOLEAN,
                         suspend : {"no", "forever", "timed"}]
ASSUME ThreadAssumption == Getters \subseteq Threads /\ NoThread \notin Threads

VARIABLES
  \* the flags
  events,     \* flags->events
  waiters,    \* the list flags->waiters, by the thread whose request it is
  lock,       \* the owner of flags->lock: a thread (timers hold it for a step)
  consumed,   \* the local consumed_events of a set
  cursor,     \* where the walk of a set stands in the list
  \* each thread
  pc,
  request,    \* the arguments of its get
  result,     \* return_status and actual_events of its request, then of its get
  sem,        \* thread->suspend
  \* the task timer of each thread
  armed,      \* timer->expires is not zero
  routine,    \* thread->orig_task_timer_expiration_routine is set
  tpc         \* the timer's thread: it holds timer->lock unless "idle"

flagVars  == <<events, waiters, lock, consumed, cursor>>
timerVars == <<armed, routine, tpc>>
vars == <<flagVars, pc, request, result, sem, timerVars>>

NotYet    == [ok |-> FALSE, bits |-> {}]
Found(ev) == [ok |-> TRUE, bits |-> ev]
Linked(t) == t \in ToSet(waiters)
Timed(t)  == request[t].suspend = "timed"
Goto(t, l) == pc' = [pc EXCEPT ![t] = l]

\* The test made by a get and, for each request of the list, by a set.
Satisfied(r, ev) == IF r.all THEN r.bits \subseteq ev ELSE r.bits \cap ev # {}

Init == /\ events = {} /\ waiters = <<>> /\ lock = NoThread
        /\ consumed = {} /\ cursor = 1
        /\ pc = [t \in Threads |-> "idle"]
        /\ request \in [Threads -> {CHOOSE r \in Requests : TRUE}]
        /\ result = [t \in Threads |-> NotYet]
        /\ sem = [t \in Threads |-> 0]
        /\ armed = [t \in Threads |-> FALSE]
        /\ routine = [t \in Threads |-> FALSE]
        /\ tpc = [t \in Threads |-> "idle"]
-----------------------------------------------------------------------------
\* A get whose events are there, or that may not wait: it takes the lock,
\* tests, consumes and returns.
GetNow(t, r) ==
  /\ pc[t] = "idle" /\ lock = NoThread
  /\ \/ /\ Satisfied(r, events)
        /\ result' = [result EXCEPT ![t] = Found(events)]
        /\ events' = IF r.consume THEN events \ r.bits ELSE events
     \/ /\ ~Satisfied(r, events) /\ r.suspend = "no"
        /\ result' = [result EXCEPT ![t] = NotYet]
        /\ UNCHANGED events
  /\ request' = [request EXCEPT ![t] = r]
  /\ UNCHANGED <<waiters, lock, consumed, cursor, pc, sem, timerVars>>

\* A get that has to wait links its request, with the lock held.
GetLink(t, r) ==
  /\ pc[t] = "idle" /\ lock = NoThread
  /\ r.suspend # "no" /\ ~Satisfied(r, events)
  /\ waiters' = Append(waiters, t)
  /\ request' = [request EXCEPT ![t] = r]
  /\ result' = [result EXCEPT ![t] = NotYet]
  /\ Goto(t, "linked") /\ lock' = t
  /\ UNCHANGED <<events, consumed, cursor, sem, timerVars>>

\* _vcos_task_timer_set names the routine before it takes the timer's lock.
TimerRoutine(t) ==
  /\ pc[t] = "linked" /\ Timed(t)
  /\ routine' = [routine EXCEPT ![t] = TRUE]
  /\ Goto(t, "arming")
  /\ UNCHANGED <<flagVars, request, result, sem, armed, tpc>>

TimerSet(t) ==
  /\ pc[t] = "arming" /\ tpc[t] = "idle"
  /\ armed' = [armed EXCEPT ![t] = TRUE]
  /\ Goto(t, "armed")
  /\ UNCHANGED <<flagVars, request, result, sem, routine, tpc>>

GetUnlock(t) ==
  /\ pc[t] = "armed" \/ (pc[t] = "linked" /\ ~Timed(t))
  /\ lock' = NoThread
  /\ Goto(t, "asleep")
  /\ UNCHANGED <<events, waiters, consumed, cursor, request, result, sem, timerVars>>

\* _vcos_thread_sem_wait returns; the request has been answered or has timed out.
GetWake(t) ==
  /\ pc[t] = "asleep" /\ sem[t] > 0
  /\ sem' = [sem EXCEPT ![t] = @ - 1]
  /\ Goto(t, IF Timed(t) THEN "cancelling" ELSE "idle")
  /\ UNCHANGED <<flagVars, request, result, timerVars>>

\* Mutant: the cancel does not take the lock of the timer.
TimerCancel_NoLock(t) ==
  /\ pc[t] = "cancelling"
  /\ armed' = [armed EXCEPT ![t] = FALSE]
  /\ Goto(t, "cancelled")
  /\ UNCHANGED <<flagVars, request, result, sem, routine, tpc>>

\* _vcos_task_timer_cancel: a routine that is running ends first.
TimerCancel(t) ==
  /\ pc[t] = "cancelling" /\ tpc[t] = "idle"
  /\ armed' = [armed EXCEPT ![t] = FALSE]
  /\ Goto(t, "cancelled")
  /\ UNCHANGED <<flagVars, request, result, sem, routine, tpc>>

GetReturn(t) ==
  /\ pc[t] = "cancelled"
  /\ routine' = [routine EXCEPT ![t] = FALSE]
  /\ Goto(t, "idle")
  /\ UNCHANGED <<flagVars, request, result, sem, armed, tpc>>
-----------------------------------------------------------------------------
\* A set, VCOS_OR or VCOS_AND, changes the events and walks the list.
SetBegin(t, ev) ==
  /\ pc[t] = "idle" /\ lock = NoThread
  /\ lock' = t /\ events' = ev
  /\ consumed' = {} /\ cursor' = 1
  /\ Goto(t, "walking")
  /\ UNCHANGED <<waiters, request, result, sem, timerVars>>

Current == waiters[cursor]

\* Mutant: events are consumed while the list is walked.
SetWake_ConsumesAtOnce(t) ==
  /\ pc[t] = "walking" /\ cursor <= Len(waiters)
  /\ LET w == Current
     IN /\ Satisfied(request[w], events)
        /\ consumed' = IF request[w].consume THEN request[w].bits ELSE {}
        /\ events' = events \ consumed'
        /\ waiters' = RemoveAt(waiters, cursor)
        /\ result' = [result EXCEPT ![w] = Found(events)]
        /\ sem' = [sem EXCEPT ![w] = @ + 1]
  /\ UNCHANGED <<lock, cursor, pc, request, timerVars>>

\* A request that is satisfied is unlinked and answered, and its thread woken.
SetWake(t) ==
  /\ pc[t] = "walking" /\ cursor <= Len(waiters)
  /\ LET w == Current
     IN /\ Satisfied(request[w], events)
        /\ consumed' = IF request[w].consume THEN consumed \cup request[w].bits
                                             ELSE consumed
        /\ waiters' = RemoveAt(waiters, cursor)
        /\ result' = [result EXCEPT ![w] = Found(events)]
        /\ sem' = [sem EXCEPT ![w] = @ + 1]
  /\ UNCHANGED <<events, lock, cursor, pc, request, timerVars>>

SetSkip(t) ==
  /\ pc[t] = "walking" /\ cursor <= Len(waiters)
  /\ ~Satisfied(request[Current], events)
  /\ cursor' = cursor + 1
  /\ UNCHANGED <<events, waiters, lock, consumed, pc, request, result, sem, timerVars>>

\* Only then are the events consumed.
SetEnd(t) ==
  /\ pc[t] = "walking" /\ cursor > Len(waiters)
  /\ events' = events \ consumed
  /\ consumed' = {} /\ cursor' = 1
  /\ lock' = NoThread
  /\ Goto(t, "idle")
  /\ UNCHANGED <<waiters, request, result, sem, timerVars>>
-----------------------------------------------------------------------------
\* _timer_thread: the timer expires; its routine runs under timer->lock.
TimerFire(t) ==
  /\ armed[t] /\ tpc[t] = "idle"
  /\ armed' = [armed EXCEPT ![t] = FALSE]
  /\ tpc' = [tpc EXCEPT ![t] = "fired"]
  /\ UNCHANGED <<flagVars, pc, request, result, sem, routine>>

Unlink(t) == \E i \in DOMAIN waiters : waiters[i] = t /\ waiters' = RemoveAt(waiters, i)

\* Mutant: the thread is posted whether its request was linked or not.
TimerUnlink_AlwaysPosts(t) ==
  /\ tpc[t] = "fired" /\ lock = NoThread
  /\ \/ Unlink(t)
     \/ ~Linked(t) /\ UNCHANGED waiters
  /\ tpc' = [tpc EXCEPT ![t] = "posting"]
  /\ UNCHANGED <<events, lock, consumed, cursor, pc, request, result, sem, armed, routine>>

\* event_flags_timer_expired: unlink the request, if a set has not done so.
TimerUnlink(t) ==
  /\ tpc[t] = "fired" /\ lock = NoThread
  /\ \/ Unlink(t) /\ tpc' = [tpc EXCEPT ![t] = "posting"]
     \/ /\ ~Linked(t) /\ UNCHANGED waiters
        /\ tpc' = [tpc EXCEPT ![t] = "returning"]
  /\ UNCHANGED <<events, lock, consumed, cursor, pc, request, result, sem, armed, routine>>

\* Mutant: a thread that timed out is not posted.
TimerPost_Missing(t) ==
  /\ tpc[t] = "posting"
  /\ tpc' = [tpc EXCEPT ![t] = "returning"]
  /\ UNCHANGED <<flagVars, pc, request, result, sem, armed, routine>>

TimerPost(t) ==
  /\ tpc[t] = "posting"
  /\ sem' = [sem EXCEPT ![t] = @ + 1]
  /\ tpc' = [tpc EXCEPT ![t] = "returning"]
  /\ UNCHANGED <<flagVars, pc, request, result, armed, routine>>

TimerDone(t) ==
  /\ tpc[t] = "returning"
  /\ routine' = [routine EXCEPT ![t] = FALSE]
  /\ tpc' = [tpc EXCEPT ![t] = "idle"]
  /\ UNCHANGED <<flagVars, pc, request, result, sem, armed>>
-----------------------------------------------------------------------------
Call(t) == \/ t \in Getters /\ \E r \in Requests : GetNow(t, r) \/ GetLink(t, r)
           \/ \E bits \in SUBSET Bits : \/ SetBegin(t, events \cup bits)
                                        \/ SetBegin(t, events \cap bits)
GetStep(t) == \/ TimerRoutine(t) \/ TimerSet(t) \/ GetUnlock(t) \/ GetWake(t)
              \/ TimerCancel(t) \/ GetReturn(t)
SetStep(t) == SetWake(t) \/ SetSkip(t) \/ SetEnd(t)
Timer(t)   == TimerFire(t) \/ TimerPost(t) \/ TimerDone(t)

Next == \E t \in Threads :
          Call(t) \/ GetStep(t) \/ SetStep(t) \/ Timer(t) \/ TimerUnlink(t)

Spec == Init /\ [][Next]_vars

\* A call that has begun goes on, an armed timer expires, and a timer that
\* waits for a mutex which is released again and again gets it.
FairSpec == /\ Spec
            /\ \A t \in Threads : /\ WF_vars(GetStep(t)) /\ WF_vars(SetStep(t))
                                  /\ WF_vars(Timer(t)) /\ SF_vars(TimerUnlink(t))
-----------------------------------------------------------------------------
TypeOK == /\ events \subseteq Bits /\ consumed \subseteq Bits
          /\ waiters \in Seq(Threads)
          /\ lock \in Threads \cup {NoThread}
          /\ cursor \in Nat \ {0}
          /\ pc \in [Threads -> {"idle", "linked", "arming", "armed", "asleep",
                                 "cancelling", "cancelled", "walking"}]
          /\ request \in [Threads -> Requests]
          /\ result \in [Threads -> [ok : BOOLEAN, bits : SUBSET Bits]]
          /\ sem \in [Threads -> {0, 1}]
          /\ armed \in [Threads -> BOOLEAN] /\ routine \in [Threads -> BOOLEAN]
          /\ tpc \in [Threads -> {"idle", "fired", "posting", "returning"}]

Sleeping(t) == pc[t] \in {"linked", "arming", "armed", "asleep"}
One(P) == IF P THEN 1 ELSE 0

\* A thread that sleeps in a get has exactly one wakeup coming: its request is
\* linked, or a timer that unlinked it is about to post, or the semaphore of
\* the thread is posted.  A thread that does not sleep has none left over, which
\* its next get would take for its own (a set races the timer, line 247).
OneWakeup == \A t \in Threads :
  sem[t] + One(Linked(t)) + One(tpc[t] = "posting") = One(Sleeping(t))

\* The request of a get lies on the stack of its thread.  While the timer may
\* still look at it the thread is inside that get, with the routine in place
\* (the assertions of _vcos_task_timer_set and _task_timer_expiration_routine).
TimerInsideGet == \A t \in Threads :
  /\ armed[t] \/ tpc[t] # "idle" => pc[t] \in {"armed", "asleep", "cancelling"}
  /\ armed[t] \/ tpc[t] = "fired" => routine[t]
  /\ pc[t] = "linked" => ~routine[t]

\* No thread sleeps on events that are set: what a get tested is still so when
\* its request is linked, and a set looks at every request.
NobodySleepsOnSetEvents ==
  lock = NoThread => \A t \in Threads : Linked(t) => ~Satisfied(request[t], events)

\* Every thread that has to be woken is, and once: it sleeps only while no set
\* has found its events, and then exactly one wakeup is on its way
\* (vcos_generic_event_flags_set walks the waiters, the timer removes one).
WokenOnce == OneWakeup /\ NobodySleepsOnSetEvents

\* A get with a timeout returns, and so does every get that has been woken.
GetsReturn == \A t \in Threads :
  Sleeping(t) /\ (Timed(t) \/ ~Linked(t)) ~> pc[t] = "idle"

\* The walk of a set amounts to one step, in which it takes the lock: the
\* threads it is going to wake have been answered and what they consume is gone.
Doomed == IF \E t \in Threads : pc[t] = "walking"
            THEN {t \in ToSet(waiters) : Satisfied(request[t], events)} ELSE {}
Atomic == INSTANCE EventFlags WITH
  events  <- events \ (consumed \cup UNION {request[t].bits :
                                     t \in {u \in Doomed : request[u].consume}}),
  waiting <- ToSet(waiters) \ Doomed,
  result  <- [t \in Threads |-> IF t \in Doomed THEN Found(events) ELSE result[t]]
AtomicFlags == Atomic!Spec
=============================================================================
