---------------------------- MODULE PortConnection ----------------------------
(***************************************************************************)
(* An output port tunnelled to an input port by the core of MMAL: the      *)
(* connection of interface/mmal/core/mmal_port.c.  Client threads connect, *)
(* enable, disable and disconnect through either end; the action threads   *)
(* of the two components return buffers, which go from the output port to  *)
(* the input port, back to the pool of the connection and from there to    *)
(* the output port again.                                                  *)
(*                                                                         *)
(* mmal_port_send_buffer is one action here, with its transit count; its   *)
(* steps, the pause and the internal queue are in module MmalPort.  A port *)
(* is used only through the connection.                                    *)
(***************************************************************************)
EXTENDS Naturals, Sequences, FiniteSets

CONSTANTS Clients,          \* the client threads
          Ends,             \* the ports each client calls the API on
          NoThread, NoBuffer,
          Buffers,          \* the buffers of a pool
          PoolPort,         \* the port that allocates the pool
          MaxPools,         \* bound: the pools that are ever created
          MaxCalls,         \* bound: the calls of one client
          MaxEvents,        \* bound: the format changes of the output
          SendMayFail, EnableMayFail, DisableMayFail

Ports == {"out", "in"}
Threads == Clients \cup Ports     \* a port names its action thread

ASSUME NamesAssumption == /\ Clients \cap Ports = {}
                          /\ NoThread \notin Threads
                          /\ PoolPort \in Ports
                          /\ Ends \in [Clients -> SUBSET Ports]
ASSUME BoundsAssumption == /\ IsFiniteSet(Clients) /\ IsFiniteSet(Buffers)
                           /\ {MaxPools, MaxCalls, MaxEvents} \subseteq Nat
                           /\ {SendMayFail, EnableMayFail, DisableMayFail}
                                \subseteq BOOLEAN

\* A buffer is named with its pool; number 0 is the pool of the events.
EventBuffer == <<0, NoBuffer>>
Headers == ((1..MaxPools) \X Buffers) \cup {EventBuffer}

ASSUME HeadersAssumption == NoBuffer \notin Headers \cup Buffers

VARIABLES connected,        \* connected_port of both ends
          is_enabled,       \* is_enabled of each port
          pool,             \* pool_for_connection, 0 when NULL
          live,             \* the pools that are allocated
          out_cb,           \* buffer_header_callback of the output is set
          pool_cb,          \* the pools with their release callback set
          inpool,           \* the buffers that are in the queue of a pool
          comp,             \* the buffers each component holds
          transit,          \* transit_buffer_headers of each port
          connection_lock, lock, action_mutex,    \* the owners, by port
          op, end,          \* the call of a client and the port it is on
          pc,               \* where each thread is
          todo, then,       \* the ports still to disable, and what follows
          populated,        \* the buffers already sent by a populate
          hold, stage, src, \* the buffer in a callback, how far the callback
                            \* is, and the port that made it
          calls,            \* the calls (events) still allowed
          halfway,          \* history: a disable that failed has left the
                            \* ends apart
          abandoned         \* history: the pools destroyed beside a port
                            \* that could not be disabled

setup == <<connected, is_enabled, pool, live, out_cb>>
flow == <<inpool, comp, transit>>
locks == <<connection_lock, lock, action_mutex>>
client == <<op, end, todo, then, populated>>
callback == <<hold, stage, src>>
history == <<halfway, abandoned>>
vars == <<setup, pool_cb, flow, locks, client, pc, callback, calls, history>>

Init == /\ connected = FALSE
        /\ is_enabled = [p \in Ports |-> FALSE]
        /\ pool = 0 /\ live = {} /\ pool_cb = {} /\ out_cb = FALSE
        /\ inpool = {EventBuffer}
        /\ comp = [p \in Ports |-> {}]
        /\ transit = [p \in Ports |-> 0]
        /\ connection_lock = [p \in Ports |-> NoThread]
        /\ lock = [p \in Ports |-> NoThread]
        /\ action_mutex = [p \in Ports |-> NoThread]
        /\ op = [t \in Clients |-> "none"]
        /\ end = [t \in Clients |-> "out"]
        /\ pc = [t \in Threads |-> "idle"]
        /\ todo = [t \in Clients |-> <<>>]
        /\ then = [t \in Clients |-> "unlock"]
        /\ populated = [t \in Clients |-> 0]
        /\ hold = [t \in Threads |-> NoBuffer]
        /\ stage = [t \in Threads |-> "none"]
        /\ src = [t \in Threads |-> "none"]
        /\ calls = [t \in Threads |-> IF t \in Clients THEN MaxCalls ELSE MaxEvents]
        /\ halfway = FALSE /\ abandoned = {}
-----------------------------------------------------------------------------
Other(p) == IF p = "out" THEN "in" ELSE "out"

Goto(t, l) == pc' = [pc EXCEPT ![t] = l]

\* A thread at a step of its own, not inside a buffer callback.
At(t, l) == pc[t] = l /\ hold[t] = NoBuffer

Spend(t) == calls[t] > 0 /\ calls' = [calls EXCEPT ![t] = @ - 1]

\* Thread t enters the callback of port p with buffer b at a stage.
Enter(t, b, p, s) == /\ hold' = [hold EXCEPT ![t] = b]
                     /\ stage' = [stage EXCEPT ![t] = s]
                     /\ src' = [src EXCEPT ![t] = p]

\* A buffer returned by port p: the output forwards it if it is enabled.
Return(t, b, p) == Enter(t, b, p, IF p = "out" THEN "test" ELSE "release")

\* The component of port p accepts the buffer; or pf_send fails.
Accept(b, p) == /\ is_enabled[p]
                /\ comp' = [comp EXCEPT ![p] = @ \cup {b}]
                /\ transit' = [transit EXCEPT ![p] = @ + 1]
Refuse(p) == /\ ~is_enabled[p] \/ SendMayFail
             /\ UNCHANGED <<comp, transit>>

\* Disable the ports of a sequence in turn, then go on.
Disabling(t, ps, next) == /\ todo' = [todo EXCEPT ![t] = ps]
                          /\ then' = [then EXCEPT ![t] = next]
                          /\ Goto(t, "disabling")
-----------------------------------------------------------------------------
(* mmal_port_connect, _disconnect, _enable and _disable: the checks under  *)
(* the lock of the port, then the lock of the other port                   *)

Calls == {"connect", "disconnect", "enable", "disable"}

Refused(o, p) == CASE o = "connect" -> connected \/ is_enabled[p]
                   [] o = "disconnect" -> ~connected
                   [] o = "enable" -> is_enabled[p] \/ ~connected
                   [] o = "disable" -> ~is_enabled[p]

Begin(t, o, p) ==
  /\ At(t, "idle") /\ Spend(t)
  /\ connection_lock[p] = NoThread
  /\ IF Refused(o, p)
     THEN UNCHANGED <<connection_lock, client, pc>>
     ELSE /\ connection_lock' = [connection_lock EXCEPT ![p] = t]
          /\ op' = [op EXCEPT ![t] = o]
          /\ end' = [end EXCEPT ![t] = p]
          /\ populated' = [populated EXCEPT ![t] = 0]
          /\ IF o = "disable" /\ ~connected
             THEN Disabling(t, <<p>>, "unlock")
             ELSE Goto(t, "second") /\ UNCHANGED <<todo, then>>
  /\ UNCHANGED <<setup, pool_cb, flow, lock, action_mutex, callback, history>>

\* A disconnect looks only at its own port to see whether the connection has
\* to be disabled first.  The output port is disabled before the input port.
LockSecond(t) ==
  LET p == end[t] IN
  /\ At(t, "second") /\ connection_lock[Other(p)] = NoThread
  /\ connection_lock' = [connection_lock EXCEPT ![Other(p)] = t]
  /\ \/ /\ op[t] = "connect"
        /\ connected' = ~is_enabled[Other(p)]
        /\ Goto(t, "unlock") /\ UNCHANGED <<todo, then>>
     \/ /\ op[t] = "disconnect" /\ ~is_enabled[p]
        /\ connected' = FALSE
        /\ Goto(t, "unlock") /\ UNCHANGED <<todo, then>>
     \/ /\ op[t] = "disable" \/ (op[t] = "disconnect" /\ is_enabled[p])
        /\ Disabling(t, <<"out", "in">>, "free") /\ UNCHANGED connected
     \/ /\ op[t] = "enable"
        /\ Goto(t, "create") /\ UNCHANGED <<connected, todo, then>>
  /\ UNCHANGED <<is_enabled, pool, live, out_cb, pool_cb, flow, lock,
                 action_mutex, op, end, populated, callback, calls, history>>

\* Mutant: the lock of the other port is kept.
Unlock_OwnOnly(t) ==
  /\ At(t, "unlock")
  /\ connection_lock' = [connection_lock EXCEPT ![end[t]] = NoThread]
  /\ Goto(t, "idle")
  /\ UNCHANGED <<setup, pool_cb, flow, lock, action_mutex, client, callback, calls, history>>

Unlock(t) ==
  /\ At(t, "unlock")
  /\ connection_lock' = [p \in Ports |-> IF connection_lock[p] = t THEN NoThread
                                         ELSE connection_lock[p]]
  /\ Goto(t, "idle")
  /\ UNCHANGED <<setup, pool_cb, flow, lock, action_mutex, client, callback, calls, history>>
-----------------------------------------------------------------------------
(* mmal_port_enable                                                        *)

\* The error path disables both ports and frees the pool.
EnableError(t) == Disabling(t, <<Other(end[t]), end[t]>>, "free")

\* mmal_port_connection_enable
CreatePool(t) ==
  /\ At(t, "create")
  /\ \/ \E n \in 1..MaxPools :
          /\ \A m \in live \cup abandoned : m < n
          /\ n > 1 => n - 1 \in live \cup abandoned
          /\ pool' = n
          /\ live' = live \cup {n}
          /\ pool_cb' = pool_cb \cup {n}
          /\ inpool' = inpool \cup ({n} \X Buffers)
          /\ Goto(t, "enable_in")
     \/ /\ EnableMayFail
        /\ Goto(t, "unlock")
        /\ UNCHANGED <<pool, live, pool_cb, inpool>>
  /\ UNCHANGED <<connected, is_enabled, out_cb, comp, transit, locks, client,
                 callback, calls, history>>

\* mmal_port_enable_internal
EnablePort(t, p, from, to) ==
  /\ At(t, from) /\ lock[p] = NoThread
  /\ out_cb' = (out_cb \/ p = "out")
  /\ \/ /\ is_enabled' = [is_enabled EXCEPT ![p] = TRUE]
        /\ Goto(t, to) /\ UNCHANGED <<todo, then>>
     \/ /\ ~is_enabled[p] /\ EnableMayFail
        /\ EnableError(t) /\ UNCHANGED is_enabled
  /\ UNCHANGED <<connected, pool, live, pool_cb, flow, locks, op, end,
                 populated, callback, calls, history>>

EnableIn(t) == EnablePort(t, "in", "enable_in", "enable_out")
EnableOut(t) == EnablePort(t, "out", "enable_out", "populate")

\* mmal_port_populate_from_pool: a refused buffer is released, and the
\* connection is taken down.
Populate(t) ==
  /\ At(t, "populate") /\ populated[t] < Cardinality(Buffers)
  /\ \/ /\ inpool \cap ({pool} \X Buffers) = {}
        /\ EnableError(t)
        /\ UNCHANGED <<inpool, comp, transit, populated, callback>>
     \/ \E b \in inpool \cap ({pool} \X Buffers) :
          /\ inpool' = inpool \ {b}
          /\ \/ /\ Accept(b, "out")
                /\ populated' = [populated EXCEPT ![t] = @ + 1]
                /\ UNCHANGED <<pc, todo, then, callback>>
             \/ /\ Refuse("out")
                /\ Enter(t, b, "none", "release")
                /\ EnableError(t)
                /\ UNCHANGED populated
  /\ UNCHANGED <<setup, pool_cb, locks, op, end, calls, history>>

Populated(t) ==
  /\ At(t, "populate") /\ populated[t] = Cardinality(Buffers)
  /\ Goto(t, "unlock")
  /\ UNCHANGED <<setup, pool_cb, flow, locks, client, callback, calls, history>>
-----------------------------------------------------------------------------
(* mmal_port_disable_internal on the next port                             *)

DisableLock(t) ==
  LET p == Head(todo[t]) IN
  /\ At(t, "disabling") /\ todo[t] # <<>> /\ lock[p] = NoThread
  /\ IF is_enabled[p]
     THEN /\ lock' = [lock EXCEPT ![p] = t]
          /\ is_enabled' = [is_enabled EXCEPT ![p] = FALSE]
          /\ Goto(t, "locking")
          /\ UNCHANGED todo
     ELSE /\ todo' = [todo EXCEPT ![t] = Tail(@)]
          /\ UNCHANGED <<lock, is_enabled, pc>>
  /\ UNCHANGED <<connected, pool, live, out_cb, pool_cb, flow, connection_lock,
                 action_mutex, op, end, then, populated, callback, calls, history>>

\* The pool hangs from the port that has allocated it.
DisableAction(t) ==
  LET p == Head(todo[t]) IN
  /\ At(t, "locking") /\ action_mutex[p] = NoThread
  /\ action_mutex' = [action_mutex EXCEPT ![p] = t]
  /\ pool_cb' = IF p = PoolPort THEN pool_cb \ {pool} ELSE pool_cb
  /\ Goto(t, "draining")
  /\ UNCHANGED <<setup, flow, connection_lock, lock, client, callback, calls, history>>

\* pf_disable hands back a buffer of the component.
DisableDrain(t) ==
  LET p == Head(todo[t]) IN
  /\ At(t, "draining")
  /\ \E b \in comp[p] : /\ comp' = [comp EXCEPT ![p] = @ \ {b}]
                        /\ Return(t, b, p)
  /\ UNCHANGED <<setup, pool_cb, inpool, transit, locks, client, pc, calls, history>>

DisableDone(t) ==
  LET p == Head(todo[t]) IN
  /\ At(t, "draining")
  /\ action_mutex' = [action_mutex EXCEPT ![p] = NoThread]
  /\ Goto(t, "waiting")
  /\ UNCHANGED <<setup, pool_cb, flow, connection_lock, lock, client, callback, calls, history>>

DisableFail(t) ==
  LET p == Head(todo[t]) IN
  /\ At(t, "draining") /\ DisableMayFail
  /\ action_mutex' = [action_mutex EXCEPT ![p] = NoThread]
  /\ Goto(t, "failing")
  /\ UNCHANGED <<setup, pool_cb, flow, connection_lock, lock, client, callback,
                 calls, history>>

\* The error path of an enable goes on, a disable and a disconnect give up:
\* they leave the ends apart, unless it is the first port that failed.
DisableUndo(t) ==
  LET p == Head(todo[t]) IN
  /\ At(t, "failing")
  /\ lock' = [lock EXCEPT ![p] = NoThread]
  /\ is_enabled' = [is_enabled EXCEPT ![p] = TRUE]
  /\ \/ /\ op[t] = "enable"
        /\ todo' = [todo EXCEPT ![t] = Tail(@)]
        /\ Goto(t, "disabling")
     \/ /\ op[t] # "enable"
        /\ todo' = [todo EXCEPT ![t] = <<>>]
        /\ Goto(t, "unlock")
  /\ halfway' = (halfway \/ op[t] = "enable" \/ p = "in")
  /\ UNCHANGED <<connected, pool, live, out_cb, pool_cb, flow, connection_lock,
                 action_mutex, op, end, then, populated, callback, calls, abandoned>>

\* Mutant: the buffers in transit are not waited for.
DisableWait_Skipped(t) ==
  LET p == Head(todo[t]) IN
  /\ At(t, "waiting")
  /\ out_cb' = (out_cb /\ p # "out")
  /\ lock' = [lock EXCEPT ![p] = NoThread]
  /\ todo' = [todo EXCEPT ![t] = Tail(@)]
  /\ Goto(t, "disabling")
  /\ UNCHANGED <<connected, is_enabled, pool, live, pool_cb, flow,
                 connection_lock, action_mutex, op, end, then, populated,
                 callback, calls, history>>

\* IN_TRANSIT_WAIT
DisableWait(t) ==
  LET p == Head(todo[t]) IN
  /\ At(t, "waiting") /\ transit[p] = 0
  /\ out_cb' = (out_cb /\ p # "out")
  /\ lock' = [lock EXCEPT ![p] = NoThread]
  /\ todo' = [todo EXCEPT ![t] = Tail(@)]
  /\ Goto(t, "disabling")
  /\ UNCHANGED <<connected, is_enabled, pool, live, pool_cb, flow,
                 connection_lock, action_mutex, op, end, then, populated,
                 callback, calls, history>>

Disabled(t) ==
  /\ At(t, "disabling") /\ todo[t] = <<>>
  /\ Goto(t, then[t])
  /\ UNCHANGED <<setup, pool_cb, flow, locks, client, callback, calls, history>>

\* What an enabled port makes of a pool that is destroyed; the ends agree
\* again once no port is enabled and no pool is left.
Leaves ==
  LET stuck == \E p \in Ports : is_enabled[p] IN
  /\ abandoned' = IF stuck THEN abandoned \cup ({pool} \cap live) ELSE abandoned
  /\ halfway' = (halfway /\ (stuck \/ live \ {pool} # {}))

\* Mutant: the error path of mmal_port_enable forgets the pool.
FreePool_NotOnError(t) ==
  /\ At(t, "free")
  /\ IF op[t] = "enable"
     THEN UNCHANGED <<pool, live, pool_cb, inpool>>
     ELSE /\ live' = live \ {pool}
          /\ pool_cb' = pool_cb \ {pool}
          /\ inpool' = inpool \ ({pool} \X Buffers)
          /\ pool' = 0
  /\ connected' = (connected /\ op[t] # "disconnect")
  /\ Goto(t, "unlock")
  /\ Leaves
  /\ UNCHANGED <<is_enabled, out_cb, comp, transit, locks, client, callback, calls>>

\* mmal_port_connection_disable
FreePool(t) ==
  /\ At(t, "free")
  /\ live' = live \ {pool}
  /\ pool_cb' = pool_cb \ {pool}
  /\ inpool' = inpool \ ({pool} \X Buffers)
  /\ pool' = 0
  /\ connected' = (connected /\ op[t] # "disconnect")
  /\ Goto(t, "unlock")
  /\ Leaves
  /\ UNCHANGED <<is_enabled, out_cb, comp, transit, locks, client, callback, calls>>
-----------------------------------------------------------------------------
(* The callbacks of the two ports and of the pool                          *)

Stage(t, s) == stage' = [stage EXCEPT ![t] = s] /\ UNCHANGED <<hold, src>>

\* mmal_port_connected_output_cb reads is_enabled without a lock.
CallbackTest(t) ==
  /\ stage[t] = "test"
  /\ Stage(t, IF is_enabled["out"] THEN "forward" ELSE "release")
  /\ UNCHANGED <<setup, pool_cb, flow, locks, client, pc, calls, history>>

\* Mutant: a buffer the input port has refused is not released.
CallbackForward_Drops(t) ==
  /\ stage[t] = "forward"
  /\ \/ Accept(hold[t], "in") /\ Stage(t, "done")
     \/ Refuse("in") /\ Stage(t, "done")
  /\ UNCHANGED <<setup, pool_cb, inpool, locks, client, pc, calls, history>>

CallbackForward(t) ==
  /\ stage[t] = "forward"
  /\ \/ Accept(hold[t], "in") /\ Stage(t, "done")
     \/ Refuse("in") /\ Stage(t, "release")
  /\ UNCHANGED <<setup, pool_cb, inpool, locks, client, pc, calls, history>>

\* mmal_buffer_header_release, with or without the callback of the pool.
CallbackRelease(t) ==
  /\ stage[t] = "release"
  /\ IF hold[t][1] \in pool_cb
     THEN Stage(t, "back") /\ UNCHANGED inpool
     ELSE Stage(t, "done") /\ inpool' = inpool \cup {hold[t]}
  /\ UNCHANGED <<setup, pool_cb, comp, transit, locks, client, pc, calls, history>>

\* mmal_port_connected_pool_cb pipes the buffer back to the output port.
CallbackBack(t) ==
  /\ stage[t] = "back"
  /\ \/ Accept(hold[t], "out") /\ UNCHANGED inpool
     \/ Refuse("out") /\ inpool' = inpool \cup {hold[t]}
  /\ Stage(t, "done")
  /\ UNCHANGED <<setup, pool_cb, locks, client, pc, calls, history>>

CallbackDone(t) ==
  /\ stage[t] = "done"
  /\ transit' = [p \in Ports |-> IF p = src[t] THEN transit[p] - 1 ELSE transit[p]]
  /\ Enter(t, NoBuffer, "none", "none")
  /\ UNCHANGED <<setup, pool_cb, inpool, comp, locks, client, pc, calls, history>>
-----------------------------------------------------------------------------
(* The action threads                                                      *)

ActionBegin(p) ==
  /\ At(p, "idle") /\ action_mutex[p] = NoThread
  /\ comp[p] # {} \/ (p = "out" /\ calls[p] > 0)
  /\ action_mutex' = [action_mutex EXCEPT ![p] = p]
  /\ Goto(p, "acting")
  /\ UNCHANGED <<setup, pool_cb, flow, connection_lock, lock, client, callback, calls, history>>

ActionReturn(p) ==
  /\ At(p, "acting")
  /\ \E b \in comp[p] : /\ comp' = [comp EXCEPT ![p] = @ \ {b}]
                        /\ Return(p, b, p)
  /\ UNCHANGED <<setup, pool_cb, inpool, transit, locks, client, pc, calls, history>>

ActionEnd(p) ==
  /\ At(p, "acting")
  /\ action_mutex' = [action_mutex EXCEPT ![p] = NoThread]
  /\ Goto(p, "idle")
  /\ UNCHANGED <<setup, pool_cb, flow, connection_lock, lock, client, callback, calls, history>>

\* The output port sends an event of a format change, if it has a callback:
\* the one of the connection commits the format under the lock of the port
\* and forwards the event to the input port.
FormatEvent ==
  /\ At("out", "acting") /\ Spend("out")
  /\ EventBuffer \in inpool
  /\ IF out_cb
     THEN inpool' = inpool \ {EventBuffer} /\ Goto("out", "commit")
     ELSE UNCHANGED <<inpool, pc>>
  /\ UNCHANGED <<setup, pool_cb, comp, transit, locks, client, callback, history>>

FormatCommit ==
  /\ At("out", "commit") /\ lock["out"] = NoThread
  /\ Goto("out", "acting")
  /\ \/ Enter("out", EventBuffer, "none", "forward")
     \/ SendMayFail /\ Enter("out", EventBuffer, "none", "release")
  /\ UNCHANGED <<setup, pool_cb, flow, locks, client, calls, history>>
-----------------------------------------------------------------------------
ClientStep(t) ==
  \/ LockSecond(t) \/ Unlock(t) \/ CreatePool(t)
  \/ EnableIn(t) \/ EnableOut(t) \/ Populate(t) \/ Populated(t)
  \/ DisableLock(t) \/ DisableAction(t) \/ DisableDrain(t) \/ DisableDone(t)
  \/ DisableFail(t) \/ DisableUndo(t) \/ DisableWait(t) \/ Disabled(t) \/ FreePool(t)

CallbackStep(t) == \/ CallbackTest(t) \/ CallbackForward(t)
                   \/ CallbackRelease(t) \/ CallbackBack(t) \/ CallbackDone(t)

\* No client makes another call, or one that may has used up the pools.
Rest == /\ \A t \in Clients : \/ At(t, "idle") /\ calls[t] = 0
                              \/ At(t, "create") /\ MaxPools \in live \cup abandoned
        /\ UNCHANGED vars

Next == \/ \E t \in Clients : ClientStep(t)
        \/ \E t \in Clients : \E o \in Calls, p \in Ends[t] : Begin(t, o, p)
        \/ \E t \in Threads : CallbackStep(t)
        \/ \E p \in Ports : ActionBegin(p) \/ ActionReturn(p) \/ ActionEnd(p)
        \/ FormatEvent \/ FormatCommit
        \/ Rest

\* A thread inside a call runs on; the components keep returning buffers, and
\* an action thread that is woken for an event reports it in the end.
Fairness == /\ \A t \in Clients : WF_vars(ClientStep(t))
            /\ \A t \in Threads : WF_vars(CallbackStep(t))
            /\ \A p \in Ports : /\ WF_vars(ActionBegin(p))
                                /\ SF_vars(ActionReturn(p))
                                /\ WF_vars(ActionEnd(p))
            /\ SF_vars(FormatEvent) /\ WF_vars(FormatCommit)

Spec == Init /\ [][Next]_vars
FairSpec == Spec /\ Fairness
-----------------------------------------------------------------------------
\* Types of the variables.
TypeOK == /\ connected \in BOOLEAN /\ out_cb \in BOOLEAN
          /\ is_enabled \in [Ports -> BOOLEAN]
          /\ pool \in 0..MaxPools /\ live \subseteq 1..MaxPools
          /\ pool_cb \subseteq 1..MaxPools
          /\ inpool \subseteq Headers
          /\ comp \in [Ports -> SUBSET Headers]
          /\ transit \in [Ports -> Nat]
          /\ connection_lock \in [Ports -> Threads \cup {NoThread}]
          /\ lock \in [Ports -> Threads \cup {NoThread}]
          /\ action_mutex \in [Ports -> Threads \cup {NoThread}]
          /\ op \in [Clients -> Calls \cup {"none"}]
          /\ end \in [Clients -> Ports]
          /\ pc \in [Threads -> {"idle", "second", "unlock", "create",
                       "enable_in", "enable_out", "populate", "disabling",
                       "locking", "draining", "failing", "waiting", "free",
                       "acting", "commit"}]
          /\ todo \in [Clients -> Seq(Ports)]
          /\ then \in [Clients -> {"unlock", "free"}]
          /\ populated \in [Clients -> 0..Cardinality(Buffers)]
          /\ hold \in [Threads -> Headers \cup {NoBuffer}]
          /\ stage \in [Threads -> {"none", "test", "forward", "release",
                                    "back", "done"}]
          /\ src \in [Threads -> Ports \cup {"none"}]
          /\ calls \in [Threads -> Nat]
          /\ halfway \in BOOLEAN /\ abandoned \subseteq 1..MaxPools

\* The buffers somebody still has: a component, or a callback that has not
\* passed them on.
Outstanding == comp["out"] \cup comp["in"]
                 \cup {hold[t] : t \in {u \in Threads :
                                         stage[u] \notin {"none", "done"}}}

\* The pool of a connection is destroyed only when all its buffers are back
\* in it: no component and no callback has a buffer of a pool that is gone,
\* unless it was destroyed although a port could not be disabled.
PoolOutlivesBuffers ==
  \A b \in Outstanding \ {EventBuffer} : b[1] \in live \cup abandoned

\* Both ends agree whenever no call is under way: they are enabled together,
\* with one pool, or neither is and the pool is freed.  A pf_disable that
\* fails may leave them apart until a later disable has succeeded, but not
\* when it is the output port, the first of the two, that fails a disable or
\* a disconnect.
EndsAgree ==
  (\A p \in Ports : connection_lock[p] = NoThread) /\ ~halfway =>
     /\ is_enabled["out"] = is_enabled["in"]
     /\ live = IF is_enabled["in"] THEN {pool} ELSE {}
     /\ is_enabled["in"] => connected

\* The connection keeps all its buffers: each is in its pool, with a
\* component or in a callback.
NoBufferLost ==
  \A n \in live : {n} \X Buffers \subseteq inpool \cup Outstanding

\* The locks of the code can be waited for in a circle in two ways.  Two calls
\* each have the connection lock of one end and wait for that of the other; a
\* format change holds the action lock of its component and waits for the lock
\* of the output port, whose holder waits for the action lock or for buffers
\* that the action thread has to return.
Crossed == \E t, u \in Clients : t # u /\ pc[t] = "second" /\ pc[u] = "second"
Embraced == /\ pc["out"] = "commit" /\ lock["out"] # NoThread
            /\ pc[lock["out"]] = "locking" \/ transit["out"] > 0

\* Every other call returns, whatever fails in it: those that wait for the
\* buffers in transit, for a port another thread disables, or for the callbacks
\* that carry buffers round.
CallsReturnUnlessLocked ==
  \A t \in Clients : (pc[t] # "idle") ~> (pc[t] = "idle" \/ Crossed \/ Embraced)

\* A call on the connection returns (the lock macros make the API thread
\* safe, says their comment).
CallsReturn == \A t \in Clients : (pc[t] # "idle") ~> (pc[t] = "idle")
=============================================================================
