----------------------------- MODULE ClientGraph -----------------------------
(***************************************************************************)
(* Connections of the client library, mmal/util/mmal_connection.c, moved   *)
(* by the worker of a graph, mmal/util/mmal_graph.c, on pools              *)
(* (core/mmal_pool.c) and on the contract of ports that MmalPort checks.   *)
(* Empty headers go from the pool of a connection to its output port, come *)
(* back full into the queue of the connection, go to its input port and    *)
(* are released into the pool.  The calls a thread is inside are a stack   *)
(* of frames: callbacks nest in releases, releases in failed sends.        *)
(***************************************************************************)
EXTENDS Naturals, Sequences, FiniteSets, SequencesExt

CONSTANTS NumConns,    \* connections 1..NumConns, in the order of the graph
          Direct,      \* those whose flags are MMAL_CONNECTION_FLAG_DIRECT
          Headers,     \* the buffer headers
          Home,        \* the connection of each header
          CompThreads, \* the threads of the components
          Runner,      \* the thread of component k, which stands between the
                       \* input of connection k and the output of the next one
          MaxSema,     \* posts of the worker's semaphore that are counted
          MaxEnables,  \* calls of mmal_graph_enable
          MaxFaults    \* format changes, headers that an enabled port refuses,
                       \* enables of ports that fail, all together

Conns == 1..NumConns
Of(c) == {h \in Headers : Home[h] = c}
Ports == Conns \X {"out", "in"}
Out(c) == <<c, "out">>
In(c)  == <<c, "in">>

ASSUME ConnAssumption == /\ NumConns \in Nat \ {0} /\ Direct \subseteq Conns
                         /\ Home \in [Headers -> Conns] /\ IsFiniteSet(Headers)
ASSUME BoundAssumption == /\ MaxSema \in Nat \ {0}
                          /\ MaxEnables \in Nat /\ MaxFaults \in Nat

Thread(p) == Runner[IF p[2] = "out" THEN p[1] - 1 ELSE p[1]]
Threads == CompThreads \cup {"app", "worker"}

Event == "format changed"

ASSUME ThreadAssumption == /\ IsFiniteSet(CompThreads)
                           /\ CompThreads \cap {"app", "worker"} = {}
                           /\ Runner \in [0..NumConns -> CompThreads]
ASSUME EventAssumption == Event \notin Headers

VARIABLES
  on,        \* port->is_enabled
  held,      \* the headers a port has been sent and has not returned
  fwd,       \* the events the input port has been sent and has not returned
  poolq,     \* connection->pool->queue
  connq,     \* connection->queue
  enabled,   \* connection->is_enabled
  fits,      \* the pool has the size the two ports ask for
  alive,     \* the connection has not been destroyed
  sema,      \* graph->sema
  stop,      \* graph->stop_thread
  stack,     \* the frames of each thread, the innermost first
  refused,   \* history: connections whose output port, enabled, refused a header
  skipped,   \* history: connections that the worker, out of time, left with
             \* something in their queue
  rash,      \* history: a connection was disabled or enabled for a new format,
             \* or handled a header, beside a call that relied on it
  work,      \* the worker: where, at which connection, and run_again
  current,   \* graph->connection_current, modulo the connections
  app, index,\* the call the client is in, and the connection it is at
  budget     \* what is left of the bounds

history == <<refused, skipped, rash>>
flow == <<on, held, fwd, poolq, connq, fits, history>>
vars == <<flow, enabled, alive, sema, stop, stack, work, current, app, index, budget>>
ctrl == <<work, current, app, index>>

Frame(k, c, b) == [k |-> k, c |-> c, b |-> b]
Cb(c)     == Frame("callback", c, Event)
Do(k, c)  == Frame(k, c, Event)
Idle(t)   == stack[t] = <<>>
Top(t)    == Head(stack[t])
Runs(t, k) == ~Idle(t) /\ Top(t).k = k
Replace(t, fs) == stack' = [stack EXCEPT ![t] = fs \o Tail(@)]
Push(t, fs)    == stack' = [stack EXCEPT ![t] = fs \o @]

\* What mmal_port_disable waits for: headers and events in the component, headers
\* in a callback.
Returning(p) == IF p[2] = "out" THEN "return out" ELSE "return in"
Transit(p) == held[p] \cup {e \in {Event} : p[2] = "in" /\ fwd[p[1]] > 0} \cup
  {h \in Headers : \E t \in Threads : \E i \in DOMAIN stack[t] :
     stack[t][i] = Frame(Returning(p), p[1], h)}

Post == sema' = IF sema < MaxSema THEN sema + 1 ELSE sema
Spend(what) == budget[what] > 0 /\ budget' = [budget EXCEPT ![what] = @ - 1]

Fresh(at) == [at |-> at, i |-> 1, again |-> FALSE]
Init == /\ on = [p \in Ports |-> FALSE] /\ held = [p \in Ports |-> {}]
        /\ fwd = [c \in Conns |-> 0]
        /\ poolq = [c \in Conns |-> <<>>] /\ connq = [c \in Conns |-> <<>>]
        /\ fits = [c \in Conns |-> FALSE]
        /\ enabled = [c \in Conns |-> FALSE] /\ alive = [c \in Conns |-> TRUE]
        /\ sema = 0 /\ stop = FALSE
        /\ stack = [t \in Threads |-> <<>>]
        /\ work = Fresh("none") /\ current = 0
        /\ refused = {} /\ skipped = {} /\ rash = FALSE
        /\ app = "off" /\ index = 1
        /\ budget = [enables |-> MaxEnables, faults |-> MaxFaults]
-----------------------------------------------------------------------------
\* A port returns a header on thread t: mmal_connection_bh_out_cb queues it,
\* mmal_connection_bh_in_cb releases it into the pool; then the callback of the
\* connection is made.
ReturnBuffer(t, p, h) ==
  /\ h \in held[p]
  /\ held' = [held EXCEPT ![p] = @ \ {h}]
  /\ IF p[2] = "out"
       THEN connq' = [connq EXCEPT ![p[1]] = Append(@, h)] /\ UNCHANGED poolq
       ELSE poolq' = [poolq EXCEPT ![p[1]] = Append(@, h)] /\ UNCHANGED connq
  /\ Push(t, <<Cb(p[1]), Frame(Returning(p), p[1], h)>>)
  /\ UNCHANGED <<history, fwd, fits, on, enabled, alive, sema, stop, ctrl, budget>>

ComponentReturns(p) == Idle(Thread(p)) /\ \E h \in held[p] : ReturnBuffer(Thread(p), p, h)

\* The callback has returned: the header is no longer in transit.
ReturnDone(t) ==
  /\ Runs(t, "return out") \/ Runs(t, "return in")
  /\ Replace(t, <<>>)
  /\ UNCHANGED <<flow, enabled, alive, sema, stop, ctrl, budget>>

\* graph_connection_cb on a direct connection.  The callback of an event, which
\* stands on no return of a header, may find one that another thread is returning.
TakeDirect(t, c) ==
  /\ connq' = [connq EXCEPT ![c] = Tail(@)]
  /\ Replace(t, <<Frame("process", c, Head(connq[c]))>>)
  /\ rash' = (rash \/ (Head(connq[c]) # Event /\ Len(stack[t]) = 1))
  /\ UNCHANGED sema

\* Mutant: nothing is posted for a direct connection.
Callback_NoPost(t) ==
  /\ Runs(t, "callback")
  /\ LET c == Top(t).c
     IN \/ c \in Direct /\ connq[c] # <<>> /\ TakeDirect(t, c)
        \/ /\ c \notin Direct \/ connq[c] = <<>>
           /\ IF c \in Direct THEN UNCHANGED sema ELSE Post
           /\ Replace(t, <<>>) /\ UNCHANGED <<connq, rash>>
  /\ UNCHANGED <<refused, skipped, fwd, fits, on, held, poolq, enabled, alive, stop, ctrl, budget>>

\* graph_connection_cb.
Callback(t) ==
  /\ Runs(t, "callback")
  /\ LET c == Top(t).c
     IN \/ c \in Direct /\ connq[c] # <<>> /\ TakeDirect(t, c)
        \/ /\ c \notin Direct \/ connq[c] = <<>>
           /\ Post /\ Replace(t, <<>>) /\ UNCHANGED <<connq, rash>>
  /\ UNCHANGED <<refused, skipped, fwd, fits, on, held, poolq, enabled, alive, stop, ctrl, budget>>

\* graph_process_buffer: a header goes on to the input port ...
ProcessSend(t) ==
  /\ Runs(t, "process") /\ Top(t).b # Event
  /\ LET c == Top(t).c
     IN on[In(c)] /\ held' = [held EXCEPT ![In(c)] = @ \cup {Top(t).b}]
  /\ Replace(t, <<>>)
  /\ UNCHANGED <<history, fwd, fits, on, poolq, connq, enabled, alive, sema, stop, ctrl, budget>>

\* ... or is released, which makes the callback of the connection again.
ProcessRefused(t) ==
  /\ Runs(t, "process") /\ Top(t).b # Event
  /\ LET c == Top(t).c
     IN /\ \/ ~on[In(c)] /\ UNCHANGED budget
           \/ on[In(c)] /\ Spend("faults")
        /\ poolq' = [poolq EXCEPT ![c] = Append(@, Top(t).b)]
        /\ Replace(t, <<Cb(c)>>)
  /\ UNCHANGED <<history, fwd, fits, on, held, connq, enabled, alive, sema, stop, ctrl>>

\* graph_port_event_handler, mmal_connection_reconfigure: the format asks for
\* other buffers, or the input port cannot take a change of format; a port may not
\* accept it.  Nothing keeps a component's thread, or the worker at a connection
\* that is still being enabled, from doing this.
ProcessEvent(t) ==
  /\ Runs(t, "process") /\ Top(t).b = Event
  /\ fits' = [fits EXCEPT ![Top(t).c] = FALSE]
  /\ \/ /\ Replace(t, <<Do("disable", Top(t).c), Do("enable", Top(t).c)>>)
        /\ UNCHANGED budget
     \/ Spend("faults") /\ Replace(t, <<Do("disable", Top(t).c)>>)
  /\ rash' = (rash \/ t # "worker" \/ ~enabled[Top(t).c])
  /\ UNCHANGED <<refused, skipped, fwd, on, held, poolq, connq, enabled, alive, sema, stop, ctrl>>

\* mmal_connection_event_format_changed, when the buffers fit: the event goes on
\* to the input port ...
ForwardEvent(t) ==
  /\ Runs(t, "process") /\ Top(t).b = Event
  /\ on[In(Top(t).c)] /\ fwd' = [fwd EXCEPT ![Top(t).c] = @ + 1]
  /\ Replace(t, <<>>)
  /\ UNCHANGED <<history, fits, on, held, poolq, connq, enabled, alive, sema, stop, ctrl, budget>>

\* ... or is dropped, because a port does not accept the format, or the event.
DropEvent(t) ==
  /\ Runs(t, "process") /\ Top(t).b = Event
  /\ \/ ~on[In(Top(t).c)] /\ UNCHANGED budget
     \/ Spend("faults")
  /\ Replace(t, <<>>)
  /\ UNCHANGED <<flow, enabled, alive, sema, stop, ctrl>>

\* The component has done with an event; mmal_connection_bh_in_cb releases it.
EventBack(c) ==
  /\ fwd[c] > 0 /\ fwd' = [fwd EXCEPT ![c] = @ - 1]
  /\ UNCHANGED <<history, fits, on, held, poolq, connq, enabled, alive, sema, stop, stack, ctrl,
                 budget>>
ComponentReturnsEvent(c) == Idle(Thread(In(c))) /\ EventBack(c)
PortFlushEvent(t) == Runs(t, "wait in") /\ EventBack(Top(t).c)

\* A component reports a format change on an output port: mmal_port_event_send
\* tests the callback, which is cleared at the end of mmal_port_disable ...
EventTest(c) ==
  LET t == Thread(Out(c))
  IN /\ Idle(t)
     /\ on[Out(c)] \/ \E u \in Threads : \E i \in DOMAIN stack[u] :
                         stack[u][i] \in {Do("wait out", c), Do("wait undo", c)}
     /\ Spend("faults")
     /\ Push(t, <<Do("event", c)>>)
     /\ UNCHANGED <<flow, enabled, alive, sema, stop, ctrl>>

\* ... and makes it, without a lock and without a count: the event is queued.
EventCall(t) ==
  /\ Runs(t, "event")
  /\ connq' = [connq EXCEPT ![Top(t).c] = Append(@, Event)]
  /\ Replace(t, <<Cb(Top(t).c)>>)
  /\ UNCHANGED <<history, fwd, fits, on, held, poolq, enabled, alive, sema, stop, ctrl, budget>>
-----------------------------------------------------------------------------
\* mmal_connection_disable.
DisableBegin(t) ==
  /\ Runs(t, "disable")
  /\ Replace(t, IF enabled[Top(t).c] THEN <<Do("stop in", Top(t).c)>> ELSE <<>>)
  /\ UNCHANGED <<flow, enabled, alive, sema, stop, ctrl, budget>>

\* mmal_port_disable on the end that frame k names; then the thread waits.
PortStop(t, k, p, next) ==
  /\ Runs(t, k) /\ on' = [on EXCEPT ![p] = FALSE]
  /\ Replace(t, <<Do(next, p[1])>>)
  /\ UNCHANGED <<history, fwd, fits, held, poolq, connq, enabled, alive, sema, stop, ctrl, budget>>

\* Mutants: the component keeps its headers; the call does not wait for them.
PortFlush_Missing(t, k, p) == FALSE
PortEmpty_NoWait(t, k, p, next) ==
  /\ Runs(t, k) /\ Replace(t, next)
  /\ UNCHANGED <<flow, enabled, alive, sema, stop, ctrl, budget>>

\* The component gives its headers back on the thread that disables its port ...
PortFlush(t, k, p) == Runs(t, k) /\ \E h \in held[p] : ReturnBuffer(t, p, h)

\* ... or on its own; when all are back the call returns.
PortEmpty(t, k, p, next) ==
  /\ Runs(t, k) /\ Transit(p) = {}
  /\ Replace(t, next)
  /\ UNCHANGED <<flow, enabled, alive, sema, stop, ctrl, budget>>

StopPorts(t) ==
  ~Idle(t) /\ LET c == Top(t).c
  IN \/ PortStop(t, "stop in", In(c), "wait in")
     \/ PortFlush(t, "wait in", In(c))
     \/ PortEmpty(t, "wait in", In(c), <<Do("stop out", c)>>)
     \/ PortStop(t, "stop out", Out(c), "wait out")
     \/ PortFlush(t, "wait out", Out(c))
     \/ PortEmpty(t, "wait out", Out(c), <<Do("flush", c)>>)
     \/ PortStop(t, "undo out", Out(c), "wait undo")
     \/ PortFlush(t, "wait undo", Out(c))
     \/ PortEmpty(t, "wait undo", Out(c), <<>>)

FlushQueue(t) ==
  /\ Runs(t, "flush")
  /\ LET c == Top(t).c
     IN /\ connq[c] # <<>>
        /\ connq' = [connq EXCEPT ![c] = Tail(@)]
        /\ IF Head(connq[c]) = Event
             THEN UNCHANGED <<poolq, stack>>
             ELSE /\ poolq' = [poolq EXCEPT ![c] = Append(@, Head(connq[c]))]
                  /\ Push(t, <<Cb(c)>>)
  /\ UNCHANGED <<history, fwd, fits, on, held, enabled, alive, sema, stop, ctrl, budget>>

FlushDone(t) ==
  /\ Runs(t, "flush") /\ connq[Top(t).c] = <<>>
  /\ enabled' = [enabled EXCEPT ![Top(t).c] = FALSE]
  /\ Replace(t, <<>>)
  /\ UNCHANGED <<flow, alive, sema, stop, ctrl, budget>>

\* mmal_connection_enable: nothing, or mmal_pool_resize to what the ports now
\* ask for.  A resize with nothing to change leaves the pool alone; any other
\* makes every header anew and queues them all.
EnableBegin(t) ==
  /\ Runs(t, "enable")
  /\ LET c == Top(t).c
     IN IF enabled[c] THEN Replace(t, <<>>) /\ UNCHANGED <<poolq, fits>>
        ELSE /\ Replace(t, <<Do("start out", c)>>)
             /\ fits' = [fits EXCEPT ![c] = TRUE]
             /\ IF fits[c] THEN UNCHANGED poolq
                ELSE poolq' = [poolq EXCEPT ![c] = SetToSeq(Of(c))]
  /\ UNCHANGED <<history, fwd, on, held, connq, enabled, alive, sema, stop, ctrl, budget>>

StartOut(t) ==
  /\ Runs(t, "start out") /\ ~on[Out(Top(t).c)]
  /\ on' = [on EXCEPT ![Out(Top(t).c)] = TRUE]
  /\ Replace(t, <<Do("start in", Top(t).c)>>)
  /\ UNCHANGED <<history, fwd, fits, held, poolq, connq, enabled, alive, sema, stop, ctrl, budget>>

StartIn(t) ==
  /\ Runs(t, "start in") /\ ~on[In(Top(t).c)]
  /\ on' = [on EXCEPT ![In(Top(t).c)] = TRUE]
  /\ enabled' = [enabled EXCEPT ![Top(t).c] = TRUE]
  /\ Replace(t, <<>>)
  /\ UNCHANGED <<history, fwd, fits, held, poolq, connq, alive, sema, stop, ctrl, budget>>

\* A port that is enabled already, or that cannot be; the output port is disabled
\* again if it was the input port that failed.
StartFails(t, k, p, next) ==
  /\ Runs(t, k)
  /\ IF on[p] THEN UNCHANGED budget ELSE Spend("faults")
  /\ Replace(t, next)
  /\ UNCHANGED <<flow, enabled, alive, sema, stop, ctrl>>

StartPortFails(t) ==
  ~Idle(t) /\ LET c == Top(t).c
  IN \/ StartFails(t, "start out", Out(c), <<Do("failed", c)>>)
     \/ StartFails(t, "start in", In(c), <<Do("undo out", c), Do("failed", c)>>)

\* The end of a call that failed, which mmal_graph_enable learns from its status.
EnableFailed(t) ==
  /\ Runs(t, "failed")
  /\ enabled' = [enabled EXCEPT ![Top(t).c] = FALSE]
  /\ Replace(t, <<>>)
  /\ app' = IF t = "app" THEN "failed" ELSE app
  /\ UNCHANGED <<flow, alive, sema, stop, work, current, index, budget>>
-----------------------------------------------------------------------------
\* graph_worker_thread and graph_do_processing.
At(l) == Idle("worker") /\ work.at = l
Visit(i) == LET j == current + i IN ((j - 1) % NumConns) + 1
Rest(i) == work' = [work EXCEPT !.i = i]

WorkerWake ==
  /\ At("wait") /\ sema > 0
  /\ sema' = sema - 1
  /\ work' = Fresh(IF stop THEN "exited" ELSE "empties")
  /\ UNCHANGED <<flow, enabled, alive, stop, stack, current, app, index, budget>>

\* Empty headers go to the output ports ...
SendEmpty ==
  /\ At("empties") /\ work.i <= NumConns
  /\ LET c == Visit(work.i)
     IN /\ poolq[c] # <<>>
        /\ poolq' = [poolq EXCEPT ![c] = Tail(@)]
        /\ work' = [work EXCEPT !.at = "sending", !.again = TRUE]
        /\ Push("worker", <<Frame("empty", c, Head(poolq[c]))>>)
  /\ UNCHANGED <<history, fwd, fits, on, held, connq, enabled, alive, sema, stop, current, app, index,
                 budget>>

\* Mutant: a header that could not be sent is put back and taken again as sent.
EmptySent_Both ==
  /\ Runs("worker", "empty")
  /\ LET c == Top("worker").c  h == Top("worker").b
     IN /\ held' = [held EXCEPT ![Out(c)] = @ \cup {h}]
        /\ poolq' = [poolq EXCEPT ![c] = IF on[Out(c)] THEN @ ELSE <<h>> \o @]
  /\ work' = [work EXCEPT !.at = "empties"]
  /\ Replace("worker", <<>>)
  /\ UNCHANGED <<on, fwd, connq, fits, history, enabled, alive, sema, stop, current, app, index, budget>>

\* ... and back into their pool when the port is disabled, or refuses them.
EmptySent ==
  /\ Runs("worker", "empty")
  /\ LET c == Top("worker").c  h == Top("worker").b
         back == /\ poolq' = [poolq EXCEPT ![c] = <<h>> \o @]
                 /\ work' = [work EXCEPT !.at = "empties", !.i = @ + 1, !.again = FALSE]
                 /\ UNCHANGED held
     IN \/ /\ on[Out(c)]
           /\ held' = [held EXCEPT ![Out(c)] = @ \cup {h}]
           /\ work' = [work EXCEPT !.at = "empties"]
           /\ UNCHANGED <<poolq, refused, budget>>
        \/ ~on[Out(c)] /\ back /\ UNCHANGED <<refused, budget>>
        \/ on[Out(c)] /\ back /\ Spend("faults") /\ refused' = refused \cup {c}
  /\ Replace("worker", <<>>)
  /\ UNCHANGED <<skipped, rash, fwd, fits, on, connq, enabled, alive, sema, stop, current, app, index>>

NextEmpties ==
  /\ At("empties")
  /\ IF work.i > NumConns
       THEN work' = [work EXCEPT !.at = "fulls", !.i = 1]
       ELSE poolq[Visit(work.i)] = <<>> /\ Rest(work.i + 1)
  /\ UNCHANGED <<flow, enabled, alive, sema, stop, stack, current, app, index, budget>>

\* What waits in the queue of a connection that is not direct is processed ...
TakeFull ==
  /\ At("fulls") /\ work.i <= NumConns
  /\ LET c == Visit(work.i)
     IN /\ c \notin Direct /\ connq[c] # <<>>
        /\ connq' = [connq EXCEPT ![c] = Tail(@)]
        /\ Push("worker", <<Frame("process", c, Head(connq[c]))>>)
  /\ work' = [work EXCEPT !.again = TRUE]
  /\ UNCHANGED <<history, fwd, fits, on, held, poolq, enabled, alive, sema, stop, current, app, index,
                 budget>>

\* ... for as long as the time slice lasts, which may be over before the first
\* buffer is taken: the time is read first.
NextFulls ==
  /\ At("fulls") /\ work.i <= NumConns
  /\ LET c == Visit(work.i)
     IN skipped' = IF c \in Direct \/ connq[c] = <<>> THEN skipped \ {c} ELSE skipped \cup {c}
  /\ Rest(work.i + 1)
  /\ UNCHANGED <<refused, rash, fwd, fits, on, held, poolq, connq, enabled, alive, sema, stop, stack,
                 current, app, index, budget>>

EndPass ==
  /\ At("fulls") /\ work.i > NumConns
  /\ current' = (current + 1) % NumConns
  /\ work' = Fresh(IF work.again THEN "empties" ELSE "wait")
  /\ UNCHANGED <<flow, enabled, alive, sema, stop, stack, app, index, budget>>
-----------------------------------------------------------------------------
\* The client: mmal_graph_enable creates the worker, enables the connections in
\* order and triggers the worker.
GraphEnable ==
  /\ app = "off" /\ \A c \in Conns : alive[c]
  /\ Spend("enables")
  /\ work' = [work EXCEPT !.at = "wait"]
  /\ app' = "enabling" /\ index' = 1
  /\ UNCHANGED <<flow, enabled, alive, sema, stop, stack, current>>

Each(call, k) ==
  /\ app = call /\ Idle("app") /\ index <= NumConns
  /\ Push("app", <<Do(k, index)>>) /\ index' = index + 1
  /\ UNCHANGED <<flow, enabled, alive, sema, stop, work, current, app, budget>>

\* A connection that cannot be enabled ends the call with the worker stopped.
EnableNext == Each("enabling", "enable")
EnableEnds ==
  /\ Idle("app")
  /\ \/ app = "enabling" /\ index > NumConns /\ app' = "on" /\ UNCHANGED stop
     \/ app = "failed" /\ app' = "failing" /\ stop' = TRUE
  /\ Post
  /\ UNCHANGED <<flow, enabled, alive, stack, work, current, index, budget>>

\* mmal_graph_disable: graph_stop_worker_thread, and each connection.
GraphDisable ==
  /\ app = "on" /\ app' = "joining"
  /\ stop' = TRUE /\ Post
  /\ UNCHANGED <<flow, enabled, alive, stack, work, current, index, budget>>

Join ==
  /\ app \in {"joining", "failing"} /\ At("exited")
  /\ work' = [work EXCEPT !.at = "none"]
  /\ app' = (IF app = "joining" THEN "disabling" ELSE "off") /\ index' = 1
  /\ UNCHANGED <<flow, enabled, alive, sema, stop, stack, current, budget>>

DisableNext == Each("disabling", "disable")
DisableEnds ==
  /\ app = "disabling" /\ Idle("app") /\ index > NumConns
  /\ app' = "off"
  /\ UNCHANGED <<flow, enabled, alive, sema, stop, stack, work, current, index, budget>>

\* mmal_graph_destroy releases the connections: each is disabled if it is still
\* enabled, and its pool and its queue are destroyed.
GraphDestroy ==
  /\ app = "off" /\ \A c \in Conns : alive[c]
  /\ budget.enables < MaxEnables
  /\ app' = "destroying" /\ index' = 1
  /\ UNCHANGED <<flow, enabled, alive, sema, stop, stack, work, current, budget>>

DestroyNext == (index > 1 => ~alive[index - 1]) /\ Each("destroying", "disable")
DestroyPool ==
  /\ app = "destroying" /\ Idle("app") /\ index > 1 /\ alive[index - 1]
  /\ alive' = [alive EXCEPT ![index - 1] = FALSE]
  /\ UNCHANGED <<flow, enabled, sema, stop, stack, work, current, app, index, budget>>

Done == app = "destroying" /\ (\A c \in Conns : ~alive[c]) /\ UNCHANGED vars
-----------------------------------------------------------------------------
ThreadStep(t) ==
  \/ ReturnDone(t) \/ Callback(t) \/ ProcessSend(t) \/ ProcessRefused(t)
  \/ ProcessEvent(t) \/ ForwardEvent(t) \/ DropEvent(t) \/ EventCall(t) \/ PortFlushEvent(t)
  \/ DisableBegin(t) \/ StopPorts(t) \/ FlushQueue(t) \/ FlushDone(t)
  \/ EnableBegin(t) \/ StartOut(t) \/ StartIn(t)
  \/ StartPortFails(t) \/ EnableFailed(t)
Worker == \/ WorkerWake \/ SendEmpty \/ EmptySent \/ NextEmpties \/ TakeFull \/ NextFulls \/ EndPass
App == \/ EnableNext \/ EnableEnds \/ Join \/ DisableNext \/ DisableEnds
       \/ DestroyNext \/ DestroyPool
Client == GraphEnable \/ GraphDisable \/ GraphDestroy

Next == \/ \E t \in Threads : ThreadStep(t)
        \/ \E p \in Ports : ComponentReturns(p)
        \/ \E c \in Conns : ComponentReturnsEvent(c) \/ EventTest(c)
        \/ Worker \/ App \/ Client \/ Done

Spec == Init /\ [][Next]_vars
FairSpec == Spec /\ WF_vars(App) /\ WF_vars(\E t \in Threads : ThreadStep(t))
-----------------------------------------------------------------------------
TypeOK ==
  /\ on \in [Ports -> BOOLEAN] /\ held \in [Ports -> SUBSET Headers]
  /\ \A c \in Conns : /\ poolq[c] \in Seq(Of(c))
                      /\ connq[c] \in Seq(Of(c) \cup {Event})
  /\ enabled \in [Conns -> BOOLEAN] /\ alive \in [Conns -> BOOLEAN]
  /\ sema \in 0..MaxSema /\ stop \in BOOLEAN /\ current \in 0..(NumConns - 1)

\* How many places know a header: a queue, a port, a thread that carries it.
Places(h) ==
  LET c == Home[h]
      in(s) == Cardinality({i \in DOMAIN s : s[i] = h})
      carried(t) == {i \in DOMAIN stack[t] :
                       stack[t][i].k \in {"process", "empty"} /\ stack[t][i].b = h}
  IN in(poolq[c]) + in(connq[c]) + Cardinality({p \in Ports : h \in held[p]})
     + Cardinality({t \in Threads : carried(t) # {}})

\* A header is in one place and no other: a refused header that is both released
\* and kept, or a pool made anew around one that travels, would show as two.
OnePlace == \A h \in Headers : Places(h) <= 1

\* What mmal_connection_disable asserts when it has flushed the queue: every header
\* is back in the pool, so that a resize frees none that is in use.
PoolWhole == \A t \in Threads :
  Runs(t, "flush") /\ connq[Top(t).c] = <<>> => ToSet(poolq[Top(t).c]) = Of(Top(t).c)

\* Every header is accounted for, wherever the callbacks, the worker, a resize or
\* a flush have moved it (mmal_connection_disable and its assertion), unless a
\* format change was handled where nothing protects it.
HeadersAccounted == rash \/ (OnePlace /\ PoolWhole)

\* A connection is destroyed when its ports are quiet and no thread, not even one
\* in a callback, is about to use it: but for the thread of a component that
\* reports an event, whose callback nothing waits for.
Reporting(t, c) ==
  /\ t \in CompThreads
  /\ stack[t] \in {<<Do("event", c)>>, <<Cb(c)>>, <<Frame("process", c, Event)>>}
DestroyedIsQuiet == rash \/ \A c \in Conns : ~alive[c] =>
   /\ \A p \in {Out(c), In(c)} : ~on[p] /\ Transit(p) = {}
   /\ \A t \in Threads : Reporting(t, c) \/ \A i \in DOMAIN stack[t] : stack[t][i].c # c

\* The worker never sleeps on work: when nothing has posted its semaphore and no
\* callback is on its way to, nothing waits that a port would take, except in a
\* queue for which the last pass had no time.
NoLostWakeup ==
  /\ app = "on" /\ At("wait") /\ sema = 0 /\ ~stop /\ ~rash
  /\ \A t \in Threads : \A i \in DOMAIN stack[t] : stack[t][i].k # "callback"
  => \A c \in Conns : /\ c \notin skipped => connq[c] = <<>>
                      /\ on[Out(c)] /\ c \notin refused => poolq[c] = <<>>

\* Once the worker has been joined, mmal_graph_disable comes to its end, whatever
\* the components still hold and whoever is in a callback.
DisableReturns == app = "disabling" ~> (app = "off" \/ rash)

\* mmal_graph.h: "Enable the graph and start processing."  A graph that has been
\* enabled has a worker.
EnabledGraphWorks == app = "on" => work.at # "exited"
=============================================================================
