------------------------------- MODULE VcClient -------------------------------
(***************************************************************************)
(* The client side of components that run on the VideoCore:                *)
(* mmal/vc/mmal_vc_client.c (requests and their waiters, messages and bulk *)
(* transfers, the VCHIQ callback) and the ports of mmal/vc/mmal_vc_api.c,  *)
(* under the locks core/mmal_port.c takes around them.  The VideoCore and  *)
(* VCHIQ are modelled by what this code needs of them: messages and bulk   *)
(* transfers arrive in the order they were queued, in each direction, a    *)
(* transfer is matched with the oldest message that announced one, and     *)
(* requests are answered in any order.                                     *)
(***************************************************************************)
EXTENDS Naturals, Sequences, FiniteSets, SequencesExt

CONSTANTS Callers,     \* threads of the client
          Owner,       \* the one whose component has the ports below; those of
                       \* the others have none that matter
          Ports,
          Inputs,      \* those that carry data to the VideoCore
          Buffers,     \* the buffer headers
          PortOf,      \* the port each header is used on
          Contexts,    \* port->buffer_num: client contexts of a port
          MaxWaiters,  \* MAX_WAITERS
          MaxCalls,    \* calls the clients make
          MaxFailures, \* messages that are not queued, components not created
          Nobody

ASSUME PortAssumption == /\ Inputs \subseteq Ports /\ PortOf \in [Buffers -> Ports]
                         /\ Contexts \in Nat \ {0} /\ {MaxCalls, MaxFailures} \subseteq Nat
ASSUME FiniteAssumption == IsFiniteSet(Callers) /\ IsFiniteSet(Buffers)
ASSUME WaiterAssumption == MaxWaiters \in Nat \ {0}
ASSUME OwnerAssumption == Owner \in Callers
ASSUME NameAssumption == /\ Nobody \notin Callers \cup Buffers \cup Ports
                         /\ Callers \cap Buffers = {}

Waiters == 1..MaxWaiters
Of(p) == {b \in Buffers : PortOf[b] = p}
Action == "action thread"

VARIABLES
  call,       \* per caller: operation, where it is, port, header, waiter
  got,        \* whose reply a caller has been given
  calls, failures,  \* how many are left
  comps,      \* the callers that have a component
  refcount, open,   \* client->refcount; the service is open
  on,         \* port->is_enabled
  sentData,   \* module->sent_data_on_port
  ctx,        \* free blocks of module->pool
  mine,       \* the headers the client holds
  sending, actionLock, bulkLock,   \* who holds these locks
  waitSem,    \* waitpool->sem
  inuse, dest, replied,            \* the waiters; replied is waiter->sem
  usecount,   \* client->usecount
  toVC, bulkTx, toHost, bulkRx,    \* what is queued in each direction
  expect, vcHas, jobs,             \* VideoCore: messages whose bulk has not
                                   \* come, headers, requests not answered
  host,       \* the header the VCHIQ callback is queueing
  cbq, trigger, action             \* callback queue, action event and thread

callVars == <<call, got, calls>>
life     == <<comps, refcount, open>>
portVars == <<on, sentData, ctx, mine>>
locks    == <<sending, actionLock, bulkLock>>
waitVars == <<waitSem, inuse, dest, replied, usecount>>
hostVars == <<bulkRx, host, cbq, trigger, action>>
vcVars   == <<expect, vcHas, jobs>>
chans    == <<toVC, bulkTx, toHost>>
vars == <<callVars, failures, life, portVars, locks, waitVars, hostVars, vcVars, chans>>

Idle == [op |-> "none", at |-> "idle", port |-> Nobody, buf |-> Nobody, w |-> 0, ok |-> TRUE]
At(t, l)   == call[t].at = l
Goto(t, l) == call' = [call EXCEPT ![t].at = l]
Return(t)  == call' = [call EXCEPT ![t] = Idle]
Free(l)    == l = Nobody
Send(b)    == [op |-> "buffer", port |-> PortOf[b], buf |-> b, who |-> Nobody, w |-> 0]
Ask(t)     == [op |-> call[t].op, port |-> call[t].port, buf |-> Nobody, who |-> t,
               w |-> call[t].w]
Announces(m) == m.op = "flush sync" \/ (m.op = "buffer" /\ m.port \in Inputs)
InTransit(p) == Of(p) \ mine

Init ==
  /\ call = [t \in Callers |-> Idle] /\ got = [t \in Callers |-> Nobody] /\ calls = MaxCalls
  /\ failures = MaxFailures
  /\ comps = {Owner} /\ refcount = 1 /\ open = TRUE
  /\ on \in {[p \in Ports |-> o] : o \in BOOLEAN} /\ sentData = [p \in Ports |-> FALSE]
  /\ ctx = [p \in Ports |-> Contexts] /\ mine = Buffers
  /\ sending = [p \in Ports |-> Nobody] /\ actionLock = Nobody /\ bulkLock = Nobody
  /\ waitSem = MaxWaiters /\ inuse = [w \in Waiters |-> FALSE]
  /\ dest = [w \in Waiters |-> Nobody] /\ replied = [w \in Waiters |-> 0] /\ usecount = 1
  /\ toVC = <<>> /\ bulkTx = <<>> /\ toHost = <<>> /\ bulkRx = <<>>
  /\ expect = <<>> /\ vcHas = {} /\ jobs = {}
  /\ host = Nobody /\ cbq = <<>> /\ trigger = FALSE /\ action = "waiting"

\* The ports may be used: their component is there and is not being destroyed.
Usable == Owner \in comps /\ call[Owner].op # "destroy"
Fails  == failures > 0 /\ failures' = failures - 1

Begin(t, op, p, b, l) ==
  /\ At(t, "idle") /\ calls > 0 /\ calls' = calls - 1
  /\ call' = [call EXCEPT ![t] = [op |-> op, at |-> l, port |-> p, buf |-> b, w |-> 0, ok |-> TRUE]]
  /\ got' = [got EXCEPT ![t] = Nobody]
-----------------------------------------------------------------------------
\* mmal_port_send_buffer and mmal_vc_port_send: a context for the header, or an
\* error that leaves it with the client.
SendBegin(t) == \E b \in mine :
  LET p == PortOf[b]
  IN /\ Usable /\ Free(sending[p])
     /\ IF on[p] /\ ctx[p] > 0
          THEN /\ Begin(t, "send", p, b, "message")
               /\ sending' = [sending EXCEPT ![p] = t]
               /\ mine' = mine \ {b}
               /\ ctx' = [ctx EXCEPT ![p] = @ - 1]
               /\ sentData' = [sentData EXCEPT ![p] = @ \/ p \in Inputs]
          ELSE /\ Begin(t, "none", Nobody, Nobody, "idle")
               /\ UNCHANGED <<sending, mine, ctx, sentData>>
  /\ UNCHANGED <<failures, life, on, actionLock, bulkLock, waitVars, hostVars, vcVars, chans>>

\* mmal_vc_send_message: the message, then the transfer it announces.
SendMessage(t) ==
  /\ At(t, "message")
  /\ LET m == Send(call[t].buf)
     IN /\ toVC' = Append(toVC, m)
        /\ IF Announces(m)
             THEN Free(bulkLock) /\ bulkLock' = t /\ Goto(t, "bulk") /\ UNCHANGED sending
             ELSE sending' = [sending EXCEPT ![m.port] = Nobody] /\ Return(t) /\ UNCHANGED bulkLock
  /\ UNCHANGED <<failures, life, got, calls, portVars, actionLock, waitVars, hostVars, vcVars,
                 bulkTx, toHost>>

\* The message is not queued: the error leaves the header with the client.
SendFails(t) ==
  /\ At(t, "message") /\ Fails
  /\ LET b == call[t].buf
         p == PortOf[b]
     IN /\ p \in Inputs => Free(bulkLock)
        /\ ctx' = [ctx EXCEPT ![p] = @ + 1] /\ mine' = mine \cup {b}
        /\ sending' = [sending EXCEPT ![p] = Nobody]
  /\ Return(t)
  /\ UNCHANGED <<life, got, calls, on, sentData, actionLock, bulkLock, waitVars, hostVars, vcVars,
                 chans>>

SendBulk(t) ==
  /\ At(t, "bulk") /\ call[t].op = "send"
  /\ bulkTx' = Append(bulkTx, call[t].buf)
  /\ bulkLock' = Nobody /\ sending' = [sending EXCEPT ![call[t].port] = Nobody]
  /\ Return(t)
  /\ UNCHANGED <<failures, life, got, calls, portVars, actionLock, waitVars, hostVars, vcVars,
                 toVC, toHost>>
-----------------------------------------------------------------------------
\* Any call that only asks: mmal_vc_get_version, port information, parameters.
RequestBegin(t) ==
  /\ t \in comps /\ Begin(t, "request", Nobody, Nobody, "grab")
  /\ UNCHANGED <<failures, life, portVars, locks, waitVars, hostVars, vcVars, chans>>

\* mmal_port_flush: the lock of the action, then that of the sends; and
\* mmal_vc_port_flush, which sends a dummy transfer after real ones.
FlushBegin(t, p) ==
  /\ Usable /\ Free(actionLock) /\ actionLock' = t
  /\ Begin(t, "flush", p, Nobody, "flush")
  /\ UNCHANGED <<failures, life, portVars, sending, bulkLock, waitVars, hostVars, vcVars, chans>>

\* Mutant: no dummy transfer.
FlushChoose_Normal(t) ==
  /\ At(t, "flush")
  /\ LET p == call[t].port
     IN /\ Free(sending[p])
        /\ \/ ~on[p] /\ actionLock' = Nobody /\ Return(t) /\ UNCHANGED sending
           \/ on[p] /\ sending' = [sending EXCEPT ![p] = t] /\ Goto(t, "grab") /\ UNCHANGED actionLock
  /\ UNCHANGED <<failures, life, got, calls, portVars, bulkLock, waitVars, hostVars, vcVars, chans>>

FlushChoose(t) ==
  /\ At(t, "flush")
  /\ LET p == call[t].port
     IN /\ Free(sending[p])
        /\ \/ /\ ~on[p] /\ actionLock' = Nobody /\ Return(t) /\ UNCHANGED sending
           \/ /\ on[p] /\ sending' = [sending EXCEPT ![p] = t]
              /\ call' = IF sentData[p]
                   THEN [call EXCEPT ![t].op = "flush sync", ![t].at = "bulk lock"]
                   ELSE [call EXCEPT ![t].at = "grab"]
              /\ UNCHANGED actionLock
  /\ UNCHANGED <<failures, life, got, calls, portVars, bulkLock, waitVars, hostVars, vcVars, chans>>

FlushBulkLock(t) ==
  /\ At(t, "bulk lock") /\ Free(bulkLock) /\ bulkLock' = t /\ Goto(t, "grab")
  /\ UNCHANGED <<failures, life, got, calls, portVars, sending, actionLock, waitVars, hostVars,
                 vcVars, chans>>

\* mmal_port_disable_internal up to mmal_vc_port_disable; LOCK_PORT keeps it from
\* an enable or a disable of the same port.
PortLocked(p) == \E t \in Callers : call[t].op \in {"disable", "enable"} /\ call[t].port = p

DisableBegin(t, p) ==
  /\ Usable /\ ~PortLocked(p) /\ on[p] /\ Free(sending[p])
  /\ on' = [on EXCEPT ![p] = FALSE]
  /\ Begin(t, "disable", p, Nobody, "action lock")
  /\ UNCHANGED <<failures, life, sentData, ctx, mine, locks, waitVars, hostVars, vcVars, chans>>

DisableLock(t) ==
  /\ At(t, "action lock") /\ Free(actionLock) /\ actionLock' = t /\ Goto(t, "grab")
  /\ UNCHANGED <<failures, life, got, calls, portVars, sending, bulkLock, waitVars, hostVars,
                 vcVars, chans>>

\* mmal_vc_port_enable: the pool of contexts, then the request.
EnableBegin(t, p) ==
  /\ Usable /\ ~PortLocked(p) /\ ~on[p]
  /\ ctx' = [ctx EXCEPT ![p] = Contexts]
  /\ Begin(t, "enable", p, Nobody, "grab")
  /\ UNCHANGED <<failures, life, on, sentData, mine, locks, waitVars, hostVars, vcVars, chans>>
-----------------------------------------------------------------------------
\* mmal_vc_component_create: mmal_vc_init opens the service for the first
\* component, in use, and releases it outside the lock; then mmal_vc_use keeps
\* it for as long as the component lives.
CreateBegin(t) ==
  /\ t \notin comps \cup {Owner}
  /\ refcount' = refcount + 1
  /\ IF refcount = 0
       THEN open' = TRUE /\ usecount' = 1 /\ Begin(t, "create", Nobody, Nobody, "init release")
       ELSE Begin(t, "create", Nobody, Nobody, "use") /\ UNCHANGED <<open, usecount>>
  /\ UNCHANGED <<failures, comps, portVars, locks, waitSem, inuse, dest, replied, hostVars, vcVars,
                 chans>>

UseOrRelease(t, at, n, next) ==
  /\ At(t, at) /\ usecount' = usecount + n /\ Goto(t, next)
  /\ UNCHANGED <<failures, life, got, calls, portVars, locks, waitSem, inuse, dest, replied,
                 hostVars, vcVars, chans>>
InitRelease(t) == UseOrRelease(t, "init release", -1, "use")
Use_Missing(t) == UseOrRelease(t, "use", 0, "grab")  \* Mutant: no mmal_vc_use.
Use(t)         == UseOrRelease(t, "use", 1, "grab")

\* mmal_vc_component_destroy, when the core has no reference left: no port of
\* it is enabled and nobody else uses it.
DestroyBegin(t) ==
  /\ t \in comps
  /\ t = Owner => /\ \A p \in Ports : ~on[p]
                  /\ \A u \in Callers : call[u].op \in {"none", "request", "create", "destroy"}
  /\ Begin(t, "destroy", Nobody, Nobody, "grab")
  /\ UNCHANGED <<failures, life, portVars, locks, waitVars, hostVars, vcVars, chans>>

\* Its end, and that of a create which fails: mmal_vc_release, mmal_vc_deinit.
Unuse(t) == UseOrRelease(t, "unuse", -1, "deinit")
Deinit(t) ==
  /\ At(t, "deinit") /\ Return(t)
  /\ refcount' = refcount - 1 /\ open' = (refcount' # 0)
  /\ UNCHANGED <<failures, comps, got, calls, portVars, locks, waitVars, hostVars, vcVars, chans>>
-----------------------------------------------------------------------------
\* mmal_vc_sendwait_message.  get_waiter: wait for one of the pool ...
Grab(t) ==
  /\ At(t, "grab") /\ waitSem > 0
  /\ waitSem' = waitSem - 1 /\ Goto(t, "pick")
  /\ UNCHANGED <<failures, life, got, calls, portVars, locks, inuse, dest, replied, usecount,
                 hostVars, vcVars, chans>>

\* ... and take the first that is not in use.
FirstFree == CHOOSE w \in Waiters : ~inuse[w] /\ \A v \in Waiters : ~inuse[v] => w <= v
Pick(t) ==
  /\ At(t, "pick") /\ \E w \in Waiters : ~inuse[w]
  /\ inuse' = [inuse EXCEPT ![FirstFree] = TRUE]
  /\ dest' = [dest EXCEPT ![FirstFree] = t]
  /\ call' = [call EXCEPT ![t].at = "ask", ![t].w = FirstFree]
  /\ UNCHANGED <<failures, life, got, calls, portVars, locks, waitSem, replied, usecount, hostVars,
                 vcVars, chans>>

\* The service is used, the request queued.
AskVC(t) ==
  /\ At(t, "ask")
  /\ usecount' = usecount + 1
  /\ toVC' = Append(toVC, Ask(t))
  /\ Goto(t, IF call[t].op = "flush sync" THEN "bulk" ELSE "reply")
  /\ UNCHANGED <<failures, life, got, calls, portVars, locks, waitSem, inuse, dest, replied,
                 hostVars, vcVars,
                 bulkTx, toHost>>

\* Mutant: a failure keeps the bulk lock.
AskFails_KeepsLock(t) ==
  /\ At(t, "ask") /\ call[t].op \notin {"disable", "destroy"} /\ Fails
  /\ call' = [call EXCEPT ![t].ok = FALSE, ![t].at = "release"]
  /\ UNCHANGED <<life, got, calls, portVars, locks, waitVars, hostVars, vcVars, chans>>

\* It is not queued.  (What a disable or a destroy does then is not modelled.)
AskFails(t) ==
  /\ At(t, "ask") /\ call[t].op \notin {"disable", "destroy"} /\ Fails
  /\ call' = [call EXCEPT ![t].ok = FALSE, ![t].at = "release"]
  /\ bulkLock' = IF call[t].op = "flush sync" THEN Nobody ELSE bulkLock
  /\ UNCHANGED <<life, got, calls, portVars, sending, actionLock, waitVars, hostVars, vcVars,
                 chans>>

DummyBulk(t) ==
  /\ At(t, "bulk") /\ call[t].op = "flush sync"
  /\ bulkTx' = Append(bulkTx, t)
  /\ bulkLock' = Nobody /\ Goto(t, "reply")
  /\ UNCHANGED <<failures, life, got, calls, portVars, sending, actionLock, waitVars, hostVars,
                 vcVars, toVC, toHost>>

\* Mutant: a timeout that does not cancel the reply.
Wake_TimesOut(t) ==
  /\ At(t, "reply")
  /\ replied' = [replied EXCEPT ![call[t].w] = IF @ > 0 THEN @ - 1 ELSE 0]
  /\ usecount' = usecount - 1
  /\ call' = [call EXCEPT ![t].at = "release", ![t].ok = replied[call[t].w] > 0]
  /\ UNCHANGED <<failures, life, got, calls, portVars, locks, waitSem, inuse, dest, hostVars,
                 vcVars, chans>>

Wake(t) ==
  /\ At(t, "reply") /\ replied[call[t].w] > 0
  /\ replied' = [replied EXCEPT ![call[t].w] = @ - 1]
  /\ usecount' = usecount - 1
  /\ Goto(t, "release")
  /\ UNCHANGED <<failures, life, got, calls, portVars, locks, waitSem, inuse, dest, hostVars,
                 vcVars, chans>>

\* release_waiter: without the lock that get_waiter takes.
Release(t) ==
  /\ At(t, "release")
  /\ inuse' = [inuse EXCEPT ![call[t].w] = FALSE]
  /\ Goto(t, "post")
  /\ UNCHANGED <<failures, life, got, calls, portVars, locks, waitSem, dest, replied, usecount,
                 hostVars, vcVars, chans>>

PostPool(t) ==
  /\ At(t, "post")
  /\ waitSem' = waitSem + 1
  /\ Goto(t, "done")
  /\ UNCHANGED <<failures, life, got, calls, portVars, locks, inuse, dest, replied, usecount,
                 hostVars, vcVars, chans>>

\* What each call does with its answer.
FlushAnswered(t) ==
  /\ At(t, "done") /\ call[t].op \in {"flush", "flush sync"}
  /\ sending' = [sending EXCEPT ![call[t].port] = Nobody] /\ actionLock' = Nobody
  /\ Return(t)
  /\ UNCHANGED <<failures, life, got, calls, portVars, bulkLock, waitVars, hostVars, vcVars, chans>>

EnableAnswered(t) ==
  /\ At(t, "done") /\ call[t].op = "enable"
  /\ on' = [on EXCEPT ![call[t].port] = call[t].ok]
  /\ Return(t)
  /\ UNCHANGED <<failures, life, got, calls, sentData, ctx, mine, locks, waitVars, hostVars,
                 vcVars, chans>>

Answered(t) ==
  /\ At(t, "done")
  /\ \/ call[t].op = "request" /\ Return(t) /\ UNCHANGED comps
     \/ call[t].op = "disable" /\ Goto(t, "drain") /\ UNCHANGED comps
     \/ /\ call[t].op = "create"
        /\ IF call[t].ok THEN comps' = comps \cup {t} /\ Return(t)
                        ELSE Goto(t, "unuse") /\ UNCHANGED comps
     \/ call[t].op = "destroy" /\ comps' = comps \ {t} /\ Goto(t, "unuse")
  /\ UNCHANGED <<failures, refcount, open, got, calls, portVars, locks, waitVars, hostVars, vcVars,
                 chans>>

\* mmal_vc_port_disable makes the callbacks that are queued, then the core waits
\* for the headers in transit.
DrainOne(t) ==
  /\ At(t, "drain") /\ cbq # <<>>
  /\ cbq' = Tail(cbq) /\ mine' = mine \cup {Head(cbq)}
  /\ UNCHANGED <<failures, life, callVars, on, sentData, ctx, locks, waitVars, bulkRx, host,
                 trigger, action, vcVars, chans>>

\* Mutant: the callbacks that are queued are left to the action thread.
DrainEnd_Early(t) ==
  /\ At(t, "drain")
  /\ actionLock' = Nobody /\ Goto(t, "transit")
  /\ UNCHANGED <<failures, life, got, calls, portVars, sending, bulkLock, waitVars, hostVars,
                 vcVars, chans>>

DrainEnd(t) ==
  /\ At(t, "drain") /\ cbq = <<>>
  /\ actionLock' = Nobody /\ Goto(t, "transit")
  /\ UNCHANGED <<failures, life, got, calls, portVars, sending, bulkLock, waitVars, hostVars,
                 vcVars, chans>>

DisableEnd(t) ==
  /\ At(t, "transit") /\ InTransit(call[t].port) = {}
  /\ Return(t)
  /\ UNCHANGED <<failures, life, got, calls, portVars, locks, waitVars, hostVars, vcVars, chans>>
-----------------------------------------------------------------------------
\* The VideoCore takes a message; a transfer that one announces comes later.
VcTake ==
  /\ toVC # <<>> /\ toVC' = Tail(toVC)
  /\ LET m == Head(toVC)
     IN IF Announces(m) THEN expect' = Append(expect, m) /\ UNCHANGED <<vcHas, jobs>>
        ELSE IF m.op = "buffer" THEN vcHas' = vcHas \cup {m.buf} /\ UNCHANGED <<expect, jobs>>
        ELSE jobs' = jobs \cup {m} /\ UNCHANGED <<expect, vcHas>>
  /\ UNCHANGED <<failures, life, callVars, portVars, locks, waitVars, hostVars, bulkTx, toHost>>

VcBulk ==
  /\ expect # <<>> /\ bulkTx # <<>>
  /\ expect' = Tail(expect) /\ bulkTx' = Tail(bulkTx)
  /\ LET m == Head(expect)
     IN IF m.op = "buffer" THEN vcHas' = vcHas \cup {m.buf} /\ UNCHANGED jobs
        ELSE jobs' = jobs \cup {m} /\ UNCHANGED vcHas
  /\ UNCHANGED <<failures, life, callVars, portVars, locks, waitVars, hostVars, toVC, toHost>>

\* It returns a header, with data if the port is an output ...
ToHost(b, bulk) == [op |-> "buffer", buf |-> b, bulk |-> bulk, who |-> Nobody, w |-> 0]
VcReturn == \E b \in vcHas :
  /\ vcHas' = vcHas \ {b}
  /\ toHost' = Append(toHost, ToHost(b, PortOf[b] \notin Inputs))
  /\ UNCHANGED <<failures, life, callVars, portVars, locks, waitVars, hostVars, expect, jobs, toVC,
                 bulkTx>>

\* ... and answers a request.  It answers a flush when it has returned what it
\* has, a disable when it has returned everything and its transfers are over.
Transfers(p) == {b \in Of(p) : \/ \E i \in DOMAIN expect : expect[i].buf = b
                               \/ \E i \in DOMAIN bulkRx : bulkRx[i] = b
                               \/ \E i \in DOMAIN toHost : toHost[i] = ToHost(b, TRUE)}
VcAnswer == \E m \in jobs :
  /\ m.op = "disable" => Transfers(m.port) = {}
  /\ jobs' = jobs \ {m}
  /\ LET back == IF m.port = Nobody \/ m.op = "enable" THEN {} ELSE vcHas \cap Of(m.port)
         reply == [op |-> "reply", buf |-> Nobody, bulk |-> FALSE, who |-> m.who, w |-> m.w]
     IN /\ vcHas' = vcHas \ back
        /\ toHost' = toHost \o SetToSeq({ToHost(b, FALSE) : b \in back}) \o <<reply>>
  /\ UNCHANGED <<failures, life, callVars, portVars, locks, waitVars, hostVars, expect, toVC,
                 bulkTx>>
-----------------------------------------------------------------------------
\* mmal_vc_vchiq_callback, on the one thread of VCHIQ.
HostReply ==
  /\ Free(host) /\ toHost # <<>> /\ Head(toHost).op = "reply"
  /\ LET m == Head(toHost)
     IN /\ got' = [got EXCEPT ![dest[m.w]] = m.who]
        /\ replied' = [replied EXCEPT ![m.w] = @ + 1]
  /\ toHost' = Tail(toHost)
  /\ UNCHANGED <<failures, life, call, calls, portVars, locks, waitSem, inuse, dest, usecount,
                 hostVars, vcVars, toVC, bulkTx>>

\* A header with data waits for its transfer; then mmal_vc_port_send_callback
\* frees the context ...
FreeContext(b) == host' = b /\ ctx' = [ctx EXCEPT ![PortOf[b]] = @ + 1]
HostBuffer ==
  /\ Free(host) /\ toHost # <<>> /\ Head(toHost).op = "buffer"
  /\ toHost' = Tail(toHost)
  /\ LET b == Head(toHost).buf
     IN IF Head(toHost).bulk THEN bulkRx' = Append(bulkRx, b) /\ UNCHANGED <<host, ctx>>
        ELSE FreeContext(b) /\ UNCHANGED bulkRx
  /\ UNCHANGED <<failures, life, callVars, on, sentData, mine, locks, waitVars, cbq, trigger,
                 action, vcVars, toVC, bulkTx>>

HostBulk ==
  /\ Free(host) /\ bulkRx # <<>>
  /\ bulkRx' = Tail(bulkRx) /\ FreeContext(Head(bulkRx))
  /\ UNCHANGED <<failures, life, callVars, on, sentData, mine, locks, waitVars, cbq, trigger,
                 action, vcVars, chans>>

\* Mutant: the action is not triggered.
HostQueue_NoTrigger ==
  /\ ~Free(host)
  /\ cbq' = Append(cbq, host) /\ host' = Nobody
  /\ UNCHANGED <<failures, life, callVars, portVars, locks, waitVars, bulkRx, trigger, action,
                 vcVars, chans>>

\* ... and queues the header for the action thread.
HostQueue ==
  /\ ~Free(host)
  /\ cbq' = Append(cbq, host) /\ trigger' = TRUE /\ host' = Nobody
  /\ UNCHANGED <<failures, life, callVars, portVars, locks, waitVars, bulkRx, action, vcVars,
                 chans>>

\* mmal_component_action_thread_func and mmal_vc_do_callback_loop.
ActionWake ==
  /\ action = "waiting" /\ trigger
  /\ trigger' = FALSE /\ action' = "woken"
  /\ UNCHANGED <<failures, life, callVars, portVars, locks, waitVars, bulkRx, host, cbq, vcVars,
                 chans>>

ActionBegin ==
  /\ action = "woken" /\ Free(actionLock)
  /\ actionLock' = Action /\ action' = "looping"
  /\ UNCHANGED <<failures, life, callVars, portVars, sending, bulkLock, waitVars, bulkRx, host,
                 cbq, trigger, vcVars, chans>>

ActionDeliver ==
  /\ action = "looping" /\ cbq # <<>>
  /\ cbq' = Tail(cbq) /\ mine' = mine \cup {Head(cbq)}
  /\ UNCHANGED <<failures, life, callVars, on, sentData, ctx, locks, waitVars, bulkRx, host,
                 trigger, action, vcVars, chans>>

ActionEnd ==
  /\ action = "looping" /\ cbq = <<>>
  /\ actionLock' = Nobody /\ action' = "waiting"
  /\ UNCHANGED <<failures, life, callVars, portVars, sending, bulkLock, waitVars, bulkRx, host,
                 cbq, trigger, vcVars, chans>>
-----------------------------------------------------------------------------
Client(t) ==
  \/ SendBegin(t) \/ RequestBegin(t) \/ CreateBegin(t) \/ DestroyBegin(t)
  \/ \E p \in Ports : FlushBegin(t, p) \/ DisableBegin(t, p) \/ EnableBegin(t, p)
Caller(t) ==
  \/ SendMessage(t) \/ SendFails(t) \/ SendBulk(t)
  \/ InitRelease(t) \/ Use(t) \/ Unuse(t) \/ Deinit(t) \/ FlushChoose(t) \/ FlushBulkLock(t) \/ DisableLock(t)
  \/ Grab(t) \/ Pick(t) \/ AskVC(t) \/ AskFails(t) \/ DummyBulk(t) \/ Wake(t) \/ Release(t) \/ PostPool(t)
  \/ FlushAnswered(t) \/ EnableAnswered(t) \/ Answered(t) \/ DrainOne(t) \/ DrainEnd(t) \/ DisableEnd(t)
VideoCore == VcTake \/ VcBulk \/ VcReturn \/ VcAnswer
Vchiq == HostReply \/ HostBuffer \/ HostBulk \/ HostQueue
ActionThread == ActionWake \/ ActionBegin \/ ActionDeliver \/ ActionEnd
Done == calls = 0 /\ (\A t \in Callers : At(t, "idle")) /\ UNCHANGED vars

Next == (\E t \in Callers : Client(t) \/ Caller(t)) \/ VideoCore \/ Vchiq \/ ActionThread \/ Done
Spec == Init /\ [][Next]_vars
FairSpec == /\ Spec /\ WF_vars(VideoCore) /\ WF_vars(Vchiq) /\ WF_vars(ActionThread)
            /\ WF_vars(\E t \in Callers : Caller(t))
-----------------------------------------------------------------------------
\* Types of the variables: calls, and the messages of each direction.
Ops == {"none", "send", "request", "flush", "flush sync", "disable", "enable", "create", "destroy"}
Places == {"idle", "message", "bulk", "flush", "bulk lock", "action lock", "init release", "use",
           "grab", "pick", "ask", "reply", "release", "post", "done", "drain", "transit", "unuse",
           "deinit"}
Requests == [op : Ops, port : Ports \cup {Nobody}, buf : {Nobody}, who : Callers, w : Waiters]
ToVC     == {Send(b) : b \in Buffers} \cup Requests
Replies  == [op : {"reply"}, buf : {Nobody}, bulk : {FALSE}, who : Callers, w : Waiters]
FromVC   == {ToHost(b, d) : b \in Buffers, d \in BOOLEAN} \cup Replies

Calls    == [op : Ops, at : Places, port : Ports \cup {Nobody}, buf : Buffers \cup {Nobody},
             w : 0..MaxWaiters, ok : BOOLEAN]

ClientType == /\ call \in [Callers -> Calls]
              /\ got \in [Callers -> Callers \cup {Nobody}] /\ calls \in Nat /\ failures \in Nat
LifeType   == comps \subseteq Callers /\ refcount \in Nat /\ open \in BOOLEAN
PortType   == /\ on \in [Ports -> BOOLEAN] /\ sentData \in [Ports -> BOOLEAN]
              /\ ctx \in [Ports -> 0..Contexts] /\ mine \subseteq Buffers
LockType   == /\ sending \in [Ports -> Callers \cup {Nobody}] /\ bulkLock \in Callers \cup {Nobody}
              /\ actionLock \in Callers \cup {Nobody, Action}
WaitType   == /\ waitSem \in 0..MaxWaiters /\ usecount \in Nat
              /\ inuse \in [Waiters -> BOOLEAN] /\ dest \in [Waiters -> Callers \cup {Nobody}]
              /\ replied \in [Waiters -> {0, 1}]
HostType   == /\ bulkRx \in Seq(Buffers) /\ host \in Buffers \cup {Nobody} /\ cbq \in Seq(Buffers)
              /\ trigger \in BOOLEAN /\ action \in {"waiting", "woken", "looping"}
QueueType  == /\ toVC \in Seq(ToVC) /\ expect \in Seq(ToVC) /\ jobs \subseteq Requests
              /\ vcHas \subseteq Buffers /\ bulkTx \in Seq(Buffers \cup Callers)
              /\ toHost \in Seq(FromVC)
TypeOK == /\ ClientType /\ LifeType /\ PortType /\ LockType /\ WaitType /\ HostType /\ QueueType

\* get_waiter finds a waiter whenever the semaphore has let it pass (vcos_verify),
\* every caller is woken by the reply to its own request, and a free waiter has no
\* reply left in its semaphore for the next caller that takes it.
WaitersMatch ==
  /\ Cardinality({t \in Callers : At(t, "pick")}) <= Cardinality({w \in Waiters : ~inuse[w]})
  /\ \A t \in Callers : At(t, "release") /\ call[t].ok => got[t] = t
  /\ \A w \in Waiters : replied[w] <= 1 /\ (~inuse[w] => replied[w] = 0)

\* The service is open and in use (so that the VideoCore is kept awake) for as
\* long as there is a component or a message, transfer or request under way;
\* it is not closed before, and nobody still waits for a waiter of its pool.
Waits(t) == call[t].at \in {"grab", "pick", "ask", "bulk", "reply", "release", "post"}
ServiceKept ==
  /\ comps # {} \/ jobs # {} \/ vcHas # {} \/ toVC # <<>> \/ toHost # <<>> => open /\ usecount > 0
  /\ ~open => usecount = 0 /\ \A t \in Callers : ~Waits(t)

\* The data that arrives belongs to the message that announced it, whoever else
\* sends at the same time, and a flush is answered after every buffer that was sent
\* before it has arrived (the dummy transfer of mmal_vc_port_flush).
TransfersInOrder ==
  /\ expect # <<>> /\ bulkTx # <<>> =>
       Head(bulkTx) = IF Head(expect).op = "buffer" THEN Head(expect).buf ELSE Head(expect).who
  /\ \A t \in Callers :
       call[t].op \in {"flush", "flush sync"} /\ call[t].ok
         /\ (At(t, "release") \/ At(t, "post") \/ At(t, "done")) =>
       \A b \in Of(call[t].port) : /\ \A i \in DOMAIN toVC : toVC[i] # Send(b)
                                   /\ \A i \in DOMAIN expect : expect[i] # Send(b)

\* When the VideoCore has answered a disable every context is free, as
\* mmal_vc_port_disable asserts before it deletes their pool, and once the queued
\* callbacks have been made no header is left for the core to wait for.
DisableFindsAll == \A t \in Callers : call[t].op = "disable" =>
  /\ At(t, "done") => ctx[call[t].port] = Contexts
  /\ At(t, "transit") => InTransit(call[t].port) = {}

\* No returned header is left in the callback queue with nobody to deliver it:
\* the action thread has been or will be woken, or a disable is emptying it.
NoneStranded == cbq # <<>> => trigger \/ action # "waiting" \/ \E t \in Callers : At(t, "drain")

\* Every call returns.
CallsReturn == \A t \in Callers : ~At(t, "idle") ~> At(t, "idle")
=============================================================================
