------------------------------- MODULE MmalPort -------------------------------
(***************************************************************************)
(* One port of an MMAL component that is not connected to another port:    *)
(* interface/mmal/core/mmal_port.c with the action lock and thread of      *)
(* interface/mmal/core/mmal_component.c.  Several client threads enable,   *)
(* disable, send, flush, pause and resume; the action thread of the        *)
(* component returns buffers and sends events.  The component behind the   *)
(* port is known by its contract alone: it keeps what pf_send accepts and  *)
(* returns each buffer once, from pf_flush, from pf_disable or from its    *)
(* action.                                                                 *)
(***************************************************************************)
EXTENDS Naturals, Sequences, FiniteSets

CONSTANTS Buffers,           \* the buffer headers of the client
          Clients,           \* the client threads
          Action,            \* the action thread of the component
          NoBuffer, NoThread,
          MaxCalls,          \* bound: the calls one client thread makes
          MaxEvents,         \* bound: the events the component sends and the
                             \* times its action runs for another port
          SendMayFail,       \* pf_send may return an error
          DisableMayFail     \* pf_disable may return an error

ASSUME NamesAssumption == /\ NoBuffer \notin Buffers
                          /\ NoThread \notin Clients \cup {Action}
                          /\ Action \notin Clients
ASSUME BoundsAssumption == /\ IsFiniteSet(Clients) /\ IsFiniteSet(Buffers)
                           /\ MaxCalls \in Nat /\ MaxEvents \in Nat
                           /\ SendMayFail \in BOOLEAN
                           /\ DisableMayFail \in BOOLEAN

Threads == Clients \cup {Action}

VARIABLES is_enabled,   \* port->is_enabled
          is_paused,    \* core->is_paused
          callback,     \* core->buffer_header_callback is set
          queue,        \* the internal queue from core->queue_first
          transit,      \* core->transit_buffer_headers
          sema,         \* the value of core->transit_sema
          connection_lock, send_lock, action_mutex,   \* the owners
          comp,         \* the buffers the component holds
          pc,           \* where each thread is
          buf,          \* the buffer a thread is sending
          pend,         \* the buffers a thread has still to hand back
          hand,         \* the buffer a thread is handing back
          owes,         \* the thread has to decrement the transit count
          calls         \* the calls (events) a thread may still make

port == <<is_enabled, is_paused, callback, queue>>
count == <<transit, sema>>
locks == <<connection_lock, send_lock, action_mutex>>
local == <<buf, pend>>
back == <<hand, owes>>
vars == <<port, count, locks, comp, pc, local, back, calls>>

Init == /\ is_enabled = FALSE /\ is_paused = FALSE /\ callback = FALSE
        /\ queue = <<>>
        /\ transit = 0 /\ sema = 1
        /\ connection_lock = NoThread /\ send_lock = NoThread
        /\ action_mutex = NoThread
        /\ comp = {}
        /\ pc = [t \in Threads |-> "idle"]
        /\ buf = [t \in Threads |-> NoBuffer]
        /\ pend = [t \in Threads |-> <<>>]
        /\ hand = [t \in Threads |-> NoBuffer]
        /\ owes = [t \in Threads |-> FALSE]
        /\ calls = [t \in Threads |-> IF t = Action THEN MaxEvents ELSE MaxCalls]
-----------------------------------------------------------------------------
Elems(s) == {s[i] : i \in 1..Len(s)}

\* While mmal_port_disable_internal empties the internal queue the list
\* still hangs from queue_first, but its buffers are the ones in pend.
Emptying == \E t \in Clients : pc[t] = "emptying"
QueueBuffers == IF Emptying THEN {} ELSE Elems(queue)

\* The buffers that are in the port: sent and not yet back with the client.
InPort == comp \cup QueueBuffers \cup (UNION {Elems(pend[t]) : t \in Threads})
            \cup ({hand[t] : t \in Threads} \ {NoBuffer})

\* The client owns a buffer that is not in the port nor being sent.
Owned(b) == b \notin InPort /\ \A t \in Threads : buf[t] # b

Goto(t, l) == pc' = [pc EXCEPT ![t] = l]

\* A thread between two of its own steps, not inside a callback.
At(t, l) == pc[t] = l /\ hand[t] = NoBuffer /\ ~owes[t]

\* One of the bounded number of calls (of events) of a thread.
Spend(t) == calls[t] > 0 /\ calls' = [calls EXCEPT ![t] = @ - 1]

\* A client thread at the start of one of its calls.
Call(t) == At(t, "idle") /\ Spend(t)
-----------------------------------------------------------------------------
(* mmal_port_buffer_header_callback: the client gets the buffer, and only  *)
(* then is the transit count decremented.                                  *)

HandBack(t, b) == hand' = [hand EXCEPT ![t] = b]

Callback(t) ==
  /\ hand[t] # NoBuffer /\ callback
  /\ hand' = [hand EXCEPT ![t] = NoBuffer]
  /\ owes' = [owes EXCEPT ![t] = TRUE]
  /\ UNCHANGED <<port, count, locks, comp, pc, local, calls>>

\* IN_TRANSIT_DECREMENT
Decrement == /\ transit' = transit - 1
             /\ sema' = IF transit = 1 THEN sema + 1 ELSE sema

TransitDecrement(t) ==
  /\ owes[t]
  /\ Decrement
  /\ owes' = [owes EXCEPT ![t] = FALSE]
  /\ UNCHANGED <<port, locks, comp, pc, local, hand, calls>>
-----------------------------------------------------------------------------
(* mmal_port_enable, mmal_port_enable_internal                             *)

EnableCall(t) ==
  /\ Call(t) /\ connection_lock = NoThread
  /\ \/ /\ is_enabled
        /\ UNCHANGED <<connection_lock, pc>>
     \/ /\ ~is_enabled
        /\ connection_lock' = t
        /\ Goto(t, "enabling")
  /\ UNCHANGED <<port, count, send_lock, action_mutex, comp, local, back>>

\* The callback is set before pf_enable and stays when pf_enable fails.
PfEnable(t) ==
  /\ At(t, "enabling")
  /\ callback' = TRUE
  /\ \/ Goto(t, "opening") /\ UNCHANGED connection_lock
     \/ Goto(t, "idle") /\ connection_lock' = NoThread
  /\ UNCHANGED <<is_enabled, is_paused, queue, count, send_lock, action_mutex,
                 comp, local, back, calls>>

EnableOpen(t) ==
  /\ At(t, "opening") /\ send_lock = NoThread
  /\ is_enabled' = TRUE
  /\ connection_lock' = NoThread
  /\ Goto(t, "idle")
  /\ UNCHANGED <<is_paused, callback, queue, count, send_lock, action_mutex,
                 comp, local, back, calls>>
-----------------------------------------------------------------------------
(* mmal_port_disable, mmal_port_disable_internal                           *)

DisableCall(t) ==
  /\ Call(t) /\ connection_lock = NoThread
  /\ \/ /\ ~is_enabled
        /\ UNCHANGED <<connection_lock, pc>>
     \/ /\ is_enabled
        /\ connection_lock' = t
        /\ Goto(t, "stopping")
  /\ UNCHANGED <<port, count, send_lock, action_mutex, comp, local, back>>

DisableStop(t) ==
  /\ At(t, "stopping") /\ send_lock = NoThread
  /\ is_enabled' = FALSE
  /\ Goto(t, "locking")
  /\ UNCHANGED <<is_paused, callback, queue, count, locks, comp, local, back, calls>>

DisableLock(t) ==
  /\ At(t, "locking") /\ action_mutex = NoThread
  /\ action_mutex' = t
  /\ Goto(t, "draining")
  /\ UNCHANGED <<port, count, connection_lock, send_lock, comp, local, back, calls>>

\* pf_disable hands back a buffer of the component.
DisableDrain(t) ==
  /\ At(t, "draining")
  /\ \E b \in comp : comp' = comp \ {b} /\ HandBack(t, b)
  /\ UNCHANGED <<port, count, locks, pc, local, owes, calls>>

\* pf_disable succeeds; the component may still hold buffers.  The list of
\* the internal queue is walked without a lock.
DisableDone(t) ==
  /\ At(t, "draining")
  /\ action_mutex' = NoThread
  /\ pend' = [pend EXCEPT ![t] = queue]
  /\ Goto(t, "emptying")
  /\ UNCHANGED <<port, count, connection_lock, send_lock, comp, buf, back, calls>>

DisableFail(t) ==
  /\ At(t, "draining") /\ DisableMayFail
  /\ action_mutex' = NoThread
  /\ Goto(t, "reopening")
  /\ UNCHANGED <<port, count, connection_lock, send_lock, comp, local, back, calls>>

DisableReopen(t) ==
  /\ At(t, "reopening") /\ send_lock = NoThread
  /\ is_enabled' = TRUE
  /\ connection_lock' = NoThread
  /\ Goto(t, "idle")
  /\ UNCHANGED <<is_paused, callback, queue, count, send_lock, action_mutex,
                 comp, local, back, calls>>

\* The next buffer of a list taken from the internal queue is handed back.
ReturnPending(t, l) ==
  /\ At(t, l) /\ pend[t] # <<>>
  /\ HandBack(t, Head(pend[t]))
  /\ pend' = [pend EXCEPT ![t] = Tail(@)]
  /\ UNCHANGED <<port, count, locks, comp, pc, buf, owes, calls>>

DisableReturn(t) == ReturnPending(t, "emptying")

DisableEmptied(t) ==
  /\ At(t, "emptying") /\ pend[t] = <<>>
  /\ queue' = <<>>
  /\ Goto(t, "waiting")
  /\ UNCHANGED <<is_enabled, is_paused, callback, count, locks, comp, local, back, calls>>

\* Mutant: the buffers in transit are not waited for.
DisableWait_Skipped(t) ==
  /\ At(t, "waiting")
  /\ sema' = 0
  /\ Goto(t, "posting")
  /\ UNCHANGED <<port, transit, locks, comp, local, back, calls>>

\* IN_TRANSIT_WAIT
DisableWait(t) ==
  /\ At(t, "waiting") /\ sema > 0
  /\ sema' = sema - 1
  /\ Goto(t, "posting")
  /\ UNCHANGED <<port, transit, locks, comp, local, back, calls>>

DisablePost(t) ==
  /\ At(t, "posting")
  /\ sema' = sema + 1
  /\ Goto(t, "closing")
  /\ UNCHANGED <<port, transit, locks, comp, local, back, calls>>

DisableClose(t) ==
  /\ At(t, "closing")
  /\ callback' = FALSE
  /\ connection_lock' = NoThread
  /\ Goto(t, "idle")
  /\ UNCHANGED <<is_enabled, is_paused, queue, count, send_lock, action_mutex,
                 comp, local, back, calls>>
-----------------------------------------------------------------------------
(* mmal_port_send_buffer                                                   *)

\* Mutant: the port is not checked to be enabled under the send lock.
SendCall_Unchecked(t, b) ==
  /\ Call(t) /\ Owned(b) /\ send_lock = NoThread
  /\ send_lock' = t
  /\ buf' = [buf EXCEPT ![t] = b]
  /\ Goto(t, "incrementing")
  /\ UNCHANGED <<port, count, connection_lock, action_mutex, comp, pend, back>>

SendCall(t, b) ==
  /\ Call(t) /\ Owned(b) /\ send_lock = NoThread
  /\ \/ /\ ~is_enabled
        /\ UNCHANGED <<send_lock, pc, buf>>
     \/ /\ is_enabled
        /\ send_lock' = t
        /\ buf' = [buf EXCEPT ![t] = b]
        /\ Goto(t, "incrementing")
  /\ UNCHANGED <<port, count, connection_lock, action_mutex, comp, pend, back>>

\* IN_TRANSIT_INCREMENT: the first buffer in transit takes the semaphore.
SendIncrement(t) ==
  /\ At(t, "incrementing")
  /\ transit = 0 => sema > 0
  /\ transit' = transit + 1
  /\ sema' = IF transit = 0 THEN sema - 1 ELSE sema
  /\ Goto(t, "delivering")
  /\ UNCHANGED <<port, locks, comp, local, back, calls>>

Sent(t) == /\ send_lock' = NoThread
           /\ buf' = [buf EXCEPT ![t] = NoBuffer]
           /\ Goto(t, "idle")
           /\ UNCHANGED <<is_enabled, is_paused, callback, connection_lock,
                          action_mutex, pend, back, calls>>

SendQueue(t) ==
  /\ At(t, "delivering") /\ is_paused
  /\ queue' = Append(queue, buf[t])
  /\ Sent(t) /\ UNCHANGED <<count, comp>>

SendDeliver(t) ==
  /\ At(t, "delivering") /\ ~is_paused
  /\ comp' = comp \cup {buf[t]}
  /\ Sent(t) /\ UNCHANGED <<queue, count>>

\* Mutant: a failed pf_send leaves the buffer counted.
SendFail_StaysCounted(t) ==
  /\ At(t, "delivering") /\ ~is_paused /\ SendMayFail
  /\ Sent(t) /\ UNCHANGED <<count, queue, comp>>

SendFail(t) ==
  /\ At(t, "delivering") /\ ~is_paused /\ SendMayFail
  /\ Decrement
  /\ Sent(t) /\ UNCHANGED <<queue, comp>>
-----------------------------------------------------------------------------
(* mmal_port_flush                                                         *)

FlushCall(t) ==
  /\ Call(t) /\ action_mutex = NoThread
  /\ action_mutex' = t
  /\ Goto(t, "flush_locking")
  /\ UNCHANGED <<port, count, connection_lock, send_lock, comp, local, back>>

FlushLock(t) ==
  /\ At(t, "flush_locking") /\ send_lock = NoThread
  /\ \/ /\ is_enabled
        /\ send_lock' = t /\ UNCHANGED action_mutex
        /\ Goto(t, "flushing")
     \/ /\ ~is_enabled
        /\ action_mutex' = NoThread /\ UNCHANGED send_lock
        /\ Goto(t, "idle")
  /\ UNCHANGED <<port, count, connection_lock, comp, local, back, calls>>

\* pf_flush hands back a buffer of the component.
FlushDrain(t) ==
  /\ At(t, "flushing")
  /\ \E b \in comp : comp' = comp \ {b} /\ HandBack(t, b)
  /\ UNCHANGED <<port, count, locks, pc, local, owes, calls>>

\* Mutant: the internal queue is emptied and its buffers are not returned.
FlushDone_Drops(t) ==
  /\ At(t, "flushing")
  /\ queue' = <<>>
  /\ send_lock' = NoThread /\ action_mutex' = NoThread
  /\ Goto(t, "returning")
  /\ UNCHANGED <<is_enabled, is_paused, callback, count, connection_lock,
                 comp, local, back, calls>>

\* pf_flush returns; on success the internal queue is taken over.
FlushDone(t) ==
  /\ At(t, "flushing")
  /\ \/ /\ pend' = [pend EXCEPT ![t] = queue]
        /\ queue' = <<>>
     \/ UNCHANGED <<pend, queue>>
  /\ send_lock' = NoThread /\ action_mutex' = NoThread
  /\ Goto(t, "returning")
  /\ UNCHANGED <<is_enabled, is_paused, callback, count, connection_lock,
                 comp, buf, back, calls>>

FlushReturn(t) == ReturnPending(t, "returning")

FlushEnd(t) ==
  /\ At(t, "returning") /\ pend[t] = <<>>
  /\ Goto(t, "idle")
  /\ UNCHANGED <<port, count, locks, comp, local, back, calls>>
-----------------------------------------------------------------------------
(* mmal_port_pause, called by mmal_component_enable and _disable           *)

Pause(t) ==
  /\ Call(t) /\ send_lock = NoThread
  /\ is_paused' = TRUE
  /\ UNCHANGED <<is_enabled, callback, queue, count, locks, comp, pc, local, back>>

\* A resume hands the internal queue to the component.  If the (n+1)-th
\* pf_send fails the rest stays queued and the port stays paused.
Resume(t) ==
  /\ Call(t) /\ send_lock = NoThread
  /\ \/ /\ is_enabled
        /\ \E n \in 0..Len(queue) :
             /\ n < Len(queue) => SendMayFail
             /\ comp' = comp \cup Elems(SubSeq(queue, 1, n))
             /\ queue' = SubSeq(queue, n + 1, Len(queue))
             /\ is_paused' = IF n = Len(queue) THEN FALSE ELSE is_paused
     \/ /\ ~is_enabled
        /\ is_paused' = FALSE
        /\ UNCHANGED <<queue, comp>>
  /\ UNCHANGED <<is_enabled, callback, count, locks, pc, local, back>>
-----------------------------------------------------------------------------
(* The action thread: mmal_component_action_thread_func                    *)

\* The action runs when it is triggered: for the buffers of this port, or a
\* bounded number of times for something else.
ActionBegin ==
  /\ At(Action, "idle") /\ action_mutex = NoThread
  /\ IF comp # {} THEN UNCHANGED calls ELSE Spend(Action)
  /\ action_mutex' = Action
  /\ Goto(Action, "acting")
  /\ UNCHANGED <<port, count, connection_lock, send_lock, comp, local, back>>

ActionReturn ==
  /\ At(Action, "acting")
  /\ \E b \in comp : comp' = comp \ {b} /\ HandBack(Action, b)
  /\ UNCHANGED <<port, count, locks, pc, local, owes, calls>>

\* mmal_port_event_send reads the callback, then calls it; without one the
\* event is dropped.
EventCheck ==
  /\ At(Action, "acting") /\ Spend(Action)
  /\ IF callback THEN Goto(Action, "event") ELSE UNCHANGED pc
  /\ UNCHANGED <<port, count, locks, comp, local, back>>

EventCall ==
  /\ At(Action, "event")
  /\ Goto(Action, "acting")
  /\ UNCHANGED <<port, count, locks, comp, local, back, calls>>

ActionEnd ==
  /\ At(Action, "acting")
  /\ action_mutex' = NoThread
  /\ Goto(Action, "idle")
  /\ UNCHANGED <<port, count, connection_lock, send_lock, comp, local, back, calls>>
-----------------------------------------------------------------------------
ClientCall(t) == \/ EnableCall(t) \/ DisableCall(t) \/ FlushCall(t)
                 \/ Pause(t) \/ Resume(t)
                 \/ \E b \in Buffers : SendCall(t, b)

ClientStep(t) ==
  \/ PfEnable(t) \/ EnableOpen(t)
  \/ DisableStop(t) \/ DisableLock(t) \/ DisableDrain(t) \/ DisableDone(t)
  \/ DisableFail(t) \/ DisableReopen(t) \/ DisableReturn(t) \/ DisableEmptied(t)
  \/ DisableWait(t) \/ DisablePost(t) \/ DisableClose(t)
  \/ SendIncrement(t) \/ SendQueue(t) \/ SendDeliver(t) \/ SendFail(t)
  \/ FlushLock(t) \/ FlushDrain(t) \/ FlushDone(t) \/ FlushReturn(t) \/ FlushEnd(t)

BackStep(t) == Callback(t) \/ TransitDecrement(t)

ActionStep == ActionReturn \/ EventCheck \/ EventCall \/ ActionEnd

\* The system is at rest when no client makes another call.
Rest == /\ \A t \in Clients : At(t, "idle") /\ calls[t] = 0
        /\ UNCHANGED vars

Next == \/ \E t \in Clients : ClientCall(t) \/ ClientStep(t)
        \/ \E t \in Threads : BackStep(t)
        \/ ActionBegin \/ ActionStep
        \/ Rest

\* A thread inside a call runs on, and the component hands back every
\* buffer it holds if its action keeps running.
Fairness == /\ \A t \in Clients : WF_vars(ClientStep(t))
            /\ \A t \in Threads : WF_vars(BackStep(t))
            /\ WF_vars(ActionBegin)
            /\ SF_vars(ActionReturn) /\ WF_vars(EventCall) /\ WF_vars(ActionEnd)

Spec == Init /\ [][Next]_vars
FairSpec == Spec /\ Fairness
-----------------------------------------------------------------------------
DisableLabels == {"stopping", "locking", "draining", "reopening", "emptying",
                  "waiting", "posting", "closing"}
Labels == {"idle", "enabling", "opening", "incrementing", "delivering",
           "flush_locking", "flushing", "returning", "acting", "event"}
            \cup DisableLabels

\* Types of the variables.
TypeOK == /\ is_enabled \in BOOLEAN /\ is_paused \in BOOLEAN
          /\ callback \in BOOLEAN
          /\ queue \in Seq(Buffers)
          /\ transit \in Nat /\ sema \in {0, 1}
          /\ connection_lock \in Threads \cup {NoThread}
          /\ send_lock \in Threads \cup {NoThread}
          /\ action_mutex \in Threads \cup {NoThread}
          /\ comp \in SUBSET Buffers
          /\ pc \in [Threads -> Labels]
          /\ buf \in [Threads -> Buffers \cup {NoBuffer}]
          /\ pend \in [Threads -> Seq(Buffers)]
          /\ hand \in [Threads -> Buffers \cup {NoBuffer}]
          /\ owes \in [Threads -> BOOLEAN]
          /\ calls \in [Threads -> Nat]

\* The buffers in the port, wherever they are, the callbacks not yet counted as
\* done, and the buffer counted by a send that has not delivered it.
Travelling == Cardinality(InPort) + Cardinality({t \in Threads : owes[t]})
                + Cardinality({t \in Threads : pc[t] = "delivering"})

\* The transit count is exact (a buffer in two places would break it), and its
\* semaphore says whether the port is empty, except while a disable is between
\* its wait and its post.
TransitExact ==
  /\ transit = Travelling
  /\ (\A t \in Clients : pc[t] # "posting") => (sema = 1 <=> transit = 0)

\* No buffer is handed back through a NULL callback.
CallbackSet == \A t \in Threads : hand[t] # NoBuffer => callback

\* When mmal_port_disable has returned the port is empty: every buffer is
\* with the client and no thread is inside the client's buffer callback.
DisabledIsEmpty ==
  ~is_enabled /\ connection_lock = NoThread =>
     /\ InPort = {} /\ queue = <<>>
     /\ \A t \in Threads : ~owes[t]

\* mmal_port_disable returns: the component, the flushes under way and the
\* callbacks give every buffer back and nobody waits for anybody.
DisableReturns ==
  \A t \in Clients : (pc[t] \in DisableLabels) ~> (pc[t] = "idle")
=============================================================================
