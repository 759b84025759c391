----------------------------- MODULE MmalComponent -----------------------------
(***************************************************************************)
(* The life of one MMAL component: interface/mmal/core/mmal_component.c.   *)
(* Client threads hold references to the component (acquire, release) and  *)
(* payloads allocated on its ports, each of which is a reference to a port *)
(* (mmal_port_payload_alloc, mmal_port_payload_free).  The buffer pool of  *)
(* a connection holds such payloads as well: it is freed when one of its   *)
(* two components disables or disconnects it, unless a port cannot be      *)
(* disabled.  Whoever drops the last reference disables and disconnects    *)
(* the ports without looking at the outcome, and destroys the component    *)
(* once its action thread has been joined.                                 *)
(*                                                                         *)
(* Every section under the lock of the component is one action.            *)
(***************************************************************************)
EXTENDS Naturals, FiniteSets

CONSTANTS Clients,         \* the client threads
          Connection,      \* the owner of the payloads of the connection
          NoThread,
          Refs,            \* bound: the references one client can hold
          Payloads,        \* bound: the payloads one owner can hold
          NumPorts,        \* input ports, then output ports
          MaxCalls,        \* bound: the calls one client makes
          SendMayFail,     \* a resume may fail on a port
          DestroyMayFail   \* pf_destroy may return an error

ASSUME NamesAssumption == /\ Connection \notin Clients
                          /\ NoThread \notin Clients
ASSUME BoundsAssumption == /\ IsFiniteSet(Clients) /\ IsFiniteSet(Refs)
                           /\ IsFiniteSet(Payloads)
                           /\ NumPorts \in Nat /\ MaxCalls \in Nat
                           /\ SendMayFail \in BOOLEAN
                           /\ DestroyMayFail \in BOOLEAN

Owners == Clients \cup {Connection}
Ports == 1..NumPorts

VARIABLES refcount, refcount_ports,   \* component->priv
          destruction_pending,
          is_enabled,        \* component->is_enabled
          own_enable,        \* the component has a pf_enable and a pf_disable
          paused,            \* is_paused of each input and output port
          open,              \* some port outside the connection is enabled
          connection,        \* the connection of a port with a peer's port
          life,              \* "alive", "freed", or "leaked" by pf_destroy
          action,            \* the action thread: "none", "waiting", "acting"
          action_event, action_quit,
          refs, payloads,    \* the references: pairs of an owner and a name
          connection_lock,   \* the owner of the lock of the connected port
          pc, back,          \* where each client is, and returns to
          calls,             \* the calls each client may still make
          left               \* history: the last release went on with a port
                             \* it could not disable or disconnect

counts == <<refcount, refcount_ports, destruction_pending>>
switch == <<is_enabled, own_enable, paused>>
ports == <<open, connection, connection_lock, left>>
act == <<action, action_event, action_quit>>
held == <<refs, payloads>>
vars == <<counts, switch, life, ports, act, held, pc, back, calls>>

\* mmal_component_create has given one client the first reference.
Init == /\ \E t \in Clients, i \in Refs : refs = {<<t, i>>}
        /\ refcount = 1 /\ refcount_ports = 0
        /\ destruction_pending = FALSE
        /\ is_enabled = FALSE /\ own_enable \in BOOLEAN
        /\ paused = [p \in Ports |-> FALSE]
        /\ open = FALSE /\ connection = "none" /\ left = FALSE
        /\ life = "alive"
        /\ action \in {"none", "waiting"}
        /\ action_event = FALSE /\ action_quit = FALSE
        /\ payloads = {}
        /\ connection_lock = NoThread
        /\ pc = [t \in Clients |-> "idle"]
        /\ back = [t \in Clients |-> "idle"]
        /\ calls = [t \in Clients |-> MaxCalls]
-----------------------------------------------------------------------------
Goto(t, l) == pc' = [pc EXCEPT ![t] = l]

\* The client makes one of its calls.
Call(t) == /\ pc[t] = "idle"
           /\ calls[t] > 0
           /\ calls' = [calls EXCEPT ![t] = @ - 1]

Holds(t) == \E i \in Refs : <<t, i>> \in refs

OfConnection == {p \in payloads : p[1] = Connection}

\* mmal_component_acquire, for another client or for itself.
Acquire(t, u) ==
  /\ Call(t) /\ Holds(t)
  /\ \E i \in Refs : /\ <<u, i>> \notin refs
                     /\ refs' = refs \cup {<<u, i>>}
  /\ refcount' = refcount + 1
  /\ UNCHANGED <<refcount_ports, destruction_pending, switch, life, ports, act, payloads,
                 pc, back>>

\* mmal_port_payload_alloc with mmal_port_acquire, for any client.
PayloadAlloc(t, u) ==
  /\ Call(t) /\ Holds(t)
  /\ \E i \in Payloads : /\ <<u, i>> \notin payloads
                         /\ payloads' = payloads \cup {<<u, i>>}
  /\ refcount_ports' = refcount_ports + 1
  /\ UNCHANGED <<refcount, destruction_pending, switch, life, ports, act, refs,
                 pc, back>>

\* mmal_port_connect, of one of the ports and a port of another component.
Connect(t) ==
  /\ Call(t) /\ Holds(t)
  /\ connection_lock = NoThread /\ connection = "none"
  /\ connection' = "made"
  /\ UNCHANGED <<counts, switch, life, open, connection_lock, left, act, held,
                 pc, back>>

\* mmal_port_enable of the connected ports fills a pool, with payloads of this
\* port or of its peer.
EnableConnection(t) ==
  /\ Call(t) /\ Holds(t)
  /\ connection_lock = NoThread /\ connection = "made"
  /\ connection' = "enabled"
  /\ \/ /\ OfConnection = {}
        /\ payloads' = payloads \cup ({Connection} \X Payloads)
        /\ refcount_ports' = refcount_ports + Cardinality(Payloads)
     \/ UNCHANGED <<payloads, refcount_ports>>
  /\ UNCHANGED <<refcount, destruction_pending, switch, life, open,
                 connection_lock, left, act, refs, pc, back>>
-----------------------------------------------------------------------------
(* mmal_port_release                                                       *)

PortRelease(t, p) ==
  /\ refcount_ports > 0
  /\ payloads' = payloads \ {p}
  /\ refcount_ports' = refcount_ports - 1
  /\ IF refcount_ports = 1 /\ refcount = 0 /\ ~destruction_pending
     THEN Goto(t, "quitting") /\ back' = [back EXCEPT ![t] = pc[t]]
     ELSE UNCHANGED <<pc, back>>
  /\ UNCHANGED <<refcount, destruction_pending, switch, life, ports, act, refs>>

\* mmal_port_payload_free by the client that holds the payload.
PayloadFree(t) ==
  /\ Call(t)
  /\ \E p \in payloads : p[1] = t /\ PortRelease(t, p)
-----------------------------------------------------------------------------
(* mmal_component_release_internal                                         *)

Release(t) ==
  /\ Call(t) /\ refcount > 0
  /\ \E i \in Refs : <<t, i>> \in refs /\ refs' = refs \ {<<t, i>>}
  /\ refcount' = refcount - 1
  /\ IF refcount = 1
     THEN destruction_pending' = TRUE /\ Goto(t, "disabling")
     ELSE UNCHANGED <<destruction_pending, pc>>
  /\ UNCHANGED <<refcount_ports, switch, life, ports, act, payloads, back>>

\* One port after the other, whatever the status.  The connected port takes
\* its peer with it: with both disabled the pool is freed payload by payload,
\* under the lock of the connection.
DisablePorts(t) ==
  /\ pc[t] = "disabling" /\ connection_lock = NoThread
  /\ open' \in {FALSE, open}
  /\ \/ /\ connection \in {"enabled", "half"}
        /\ connection' = "made" /\ connection_lock' = t
        /\ Goto(t, "closing")
     \/ /\ \/ connection' = connection
           \/ connection = "enabled" /\ connection' = "half"
        /\ UNCHANGED connection_lock
        /\ Goto(t, "disconnecting")
  /\ UNCHANGED <<counts, switch, life, left, act, held, back, calls>>

\* mmal_port_disconnect: a port that is enabled is disabled with its peer and
\* the pool freed, and when that fails nothing more happens.  The disconnection
\* itself fails when pf_connect does.
DisconnectAny(t, freeing, done) ==
  /\ connection_lock = NoThread
  /\ \/ /\ connection \in {"enabled", "half"}
        /\ connection' = "made" /\ connection_lock' = t
        /\ Goto(t, freeing)
     \/ /\ \/ connection \in {"enabled", "half"} /\ connection' \in {connection, "half"}
           \/ connection # "enabled" /\ connection' \in {connection, "none"}
        /\ UNCHANGED connection_lock
        /\ Goto(t, done)

Disconnect(t) ==
  /\ pc[t] = "disconnecting"
  /\ DisconnectAny(t, "freeing", "checking")
  /\ left' = (open \/ connection' # "none")
  /\ UNCHANGED <<counts, switch, life, open, act, held, back, calls>>

\* The same from the other end of the connection, by a client that needs no
\* reference to this component.
PeerDisconnect(t) ==
  /\ Call(t) /\ connection # "none"
  /\ DisconnectAny(t, "peer_freeing", "idle")
  /\ UNCHANGED <<counts, switch, life, open, left, act, held, back>>

FreePayload(t) ==
  /\ pc[t] \in {"closing", "freeing", "peer_freeing"}
  /\ \E p \in OfConnection : PortRelease(t, p)
  /\ UNCHANGED calls

FreeDone(t) ==
  /\ pc[t] \in {"closing", "freeing", "peer_freeing"} /\ OfConnection = {}
  /\ connection_lock' = NoThread
  /\ \/ /\ pc[t] = "closing" /\ Goto(t, "disconnecting")
        /\ UNCHANGED <<connection, left>>
     \/ /\ pc[t] = "freeing" /\ Goto(t, "checking")
        /\ connection' \in {"made", "none"}
        /\ left' = (open \/ connection' # "none")
     \/ /\ pc[t] = "peer_freeing" /\ Goto(t, "idle")
        /\ connection' \in {"made", "none"}
        /\ UNCHANGED left
  /\ UNCHANGED <<counts, switch, life, open, act, held, back, calls>>

\* Mutant: the destruction is delayed but stays marked as pending.
DestroyCheck_StaysPending(t) ==
  /\ pc[t] = "checking"
  /\ \/ /\ refcount_ports > 0
        /\ Goto(t, "idle")
        /\ UNCHANGED back
     \/ /\ refcount_ports = 0
        /\ Goto(t, "quitting")
        /\ back' = [back EXCEPT ![t] = "idle"]
  /\ UNCHANGED <<counts, switch, life, ports, act, held, calls>>

\* Mutant: the references to the ports are not looked at.
DestroyCheck_IgnoresPorts(t) ==
  /\ pc[t] = "checking"
  /\ Goto(t, "quitting")
  /\ back' = [back EXCEPT ![t] = "idle"]
  /\ UNCHANGED <<counts, switch, life, ports, act, held, calls>>

\* References to the ports delay the destruction: the last one of them does
\* it then.
DestroyCheck(t) ==
  /\ pc[t] = "checking"
  /\ \/ /\ refcount_ports > 0
        /\ destruction_pending' = FALSE
        /\ Goto(t, "idle")
        /\ UNCHANGED back
     \/ /\ refcount_ports = 0
        /\ Goto(t, "quitting")
        /\ back' = [back EXCEPT ![t] = "idle"]
        /\ UNCHANGED destruction_pending
  /\ UNCHANGED <<refcount, refcount_ports, switch, life, ports, act, held, calls>>
-----------------------------------------------------------------------------
(* mmal_component_destroy_internal, with mmal_component_action_deregister  *)

ActionQuit(t) ==
  /\ pc[t] = "quitting"
  /\ \/ action = "none" /\ Goto(t, "destroying") /\ UNCHANGED action_quit
     \/ action # "none" /\ Goto(t, "signalling") /\ action_quit' = TRUE
  /\ UNCHANGED <<counts, switch, life, ports, action, action_event, held,
                 back, calls>>

ActionSignal(t) ==
  /\ pc[t] = "signalling"
  /\ action_event' = TRUE
  /\ Goto(t, "joining")
  /\ UNCHANGED <<counts, switch, life, ports, action, action_quit, held,
                 back, calls>>

\* Mutant: the action thread is not joined.
ActionJoin_Skipped(t) ==
  /\ pc[t] = "joining"
  /\ action_quit' = FALSE
  /\ Goto(t, "destroying")
  /\ UNCHANGED <<counts, switch, life, ports, action, action_event, held,
                 back, calls>>

ActionJoin(t) ==
  /\ pc[t] = "joining" /\ action = "none"
  /\ action_quit' = FALSE
  /\ Goto(t, "destroying")
  /\ UNCHANGED <<counts, switch, life, ports, action, action_event, held,
                 back, calls>>

Destroy(t) ==
  /\ pc[t] = "destroying"
  /\ \/ life' = "freed"
     \/ DestroyMayFail /\ life' = "leaked"
  /\ Goto(t, back[t])
  /\ UNCHANGED <<counts, switch, ports, act, held, back, calls>>
-----------------------------------------------------------------------------
(* mmal_component_enable, mmal_component_disable, on the core's own ports  *)
(* unless the component does it                                            *)

\* Mutant: the status of a resume is not looked at.
Enable_IgnoresStatus(t) ==
  /\ Call(t) /\ Holds(t) /\ ~is_enabled /\ ~own_enable
  /\ \E n \in 0..NumPorts :
       /\ n < NumPorts => SendMayFail
       /\ paused' = [p \in Ports |-> paused[p] /\ p > n]
  /\ is_enabled' = TRUE
  /\ UNCHANGED <<counts, own_enable, life, ports, act, held, pc, back>>

\* The ports are resumed in turn up to the first that fails.
Enable(t) ==
  /\ Call(t) /\ Holds(t) /\ ~is_enabled /\ ~own_enable
  /\ \E n \in 0..NumPorts :
       /\ n < NumPorts => SendMayFail
       /\ paused' = [p \in Ports |-> paused[p] /\ p > n]
       /\ is_enabled' = (n = NumPorts)
  /\ UNCHANGED <<counts, own_enable, life, ports, act, held, pc, back>>

Disable(t) ==
  /\ Call(t) /\ Holds(t) /\ ~own_enable
  /\ \/ /\ is_enabled
        /\ paused' = [p \in Ports |-> TRUE]
        /\ is_enabled' = FALSE
     \/ /\ ~is_enabled
        /\ UNCHANGED <<paused, is_enabled>>
  /\ UNCHANGED <<counts, own_enable, life, ports, act, held, pc, back>>

\* pf_enable or pf_disable succeeds; on an error nothing changes.
OwnSwitch(t) ==
  /\ Call(t) /\ Holds(t) /\ own_enable
  /\ is_enabled' = ~is_enabled
  /\ UNCHANGED <<counts, own_enable, paused, life, ports, act, held, pc, back>>

\* A port is enabled.
OpenPort(t) ==
  /\ Call(t) /\ Holds(t)
  /\ open' = TRUE
  /\ UNCHANGED <<counts, switch, life, connection, connection_lock, left, act, held,
                 pc, back>>

\* mmal_component_action_trigger, for a buffer sent to a port.
Trigger(t) ==
  /\ Call(t) /\ Holds(t) /\ action # "none"
  /\ action_event' = TRUE
  /\ UNCHANGED <<counts, switch, life, ports, action, action_quit, held, pc, back>>
-----------------------------------------------------------------------------
(* mmal_component_action_thread_func                                       *)

ActionWake ==
  /\ action = "waiting" /\ action_event
  /\ action_event' = FALSE
  /\ action' = IF action_quit THEN "none" ELSE "acting"
  /\ UNCHANGED <<counts, switch, life, ports, action_quit, held, pc, back, calls>>

ActionDone ==
  /\ action = "acting"
  /\ action' = "waiting"
  /\ UNCHANGED <<counts, switch, life, ports, action_event, action_quit, held,
                 pc, back, calls>>
-----------------------------------------------------------------------------
ClientCall(t) == \/ \E u \in Clients : Acquire(t, u) \/ PayloadAlloc(t, u)
                 \/ Connect(t) \/ EnableConnection(t) \/ PeerDisconnect(t)
                 \/ PayloadFree(t) \/ Release(t)
                 \/ Enable(t) \/ Disable(t) \/ OwnSwitch(t)
                 \/ OpenPort(t) \/ Trigger(t)

ClientStep(t) == \/ DisablePorts(t) \/ Disconnect(t) \/ FreePayload(t)
                 \/ FreeDone(t) \/ DestroyCheck(t)
                 \/ ActionQuit(t) \/ ActionSignal(t) \/ ActionJoin(t)
                 \/ Destroy(t)

\* Every client has made its calls, or has no reference left to make one.
Rest == /\ \A t \in Clients :
             /\ pc[t] = "idle"
             /\ calls[t] > 0 => ~Holds(t) /\ \A p \in payloads : p[1] # t
        /\ UNCHANGED vars

Next == \/ \E t \in Clients : ClientCall(t) \/ ClientStep(t)
        \/ ActionWake \/ ActionDone
        \/ Rest

\* A call that has begun runs on, and so does the action thread: pf_action
\* returns.
Fairness == /\ \A t \in Clients : WF_vars(ClientStep(t))
            /\ WF_vars(ActionWake) /\ WF_vars(ActionDone)

Spec == Init /\ [][Next]_vars
FairSpec == Spec /\ Fairness
-----------------------------------------------------------------------------
DestroyLabels == {"quitting", "signalling", "joining", "destroying"}
Labels == {"idle", "disabling", "closing", "disconnecting", "freeing",
           "peer_freeing", "checking"} \cup DestroyLabels

\* Types of the variables.
TypeOK == /\ refcount \in Nat /\ refcount_ports \in Nat
          /\ destruction_pending \in BOOLEAN
          /\ is_enabled \in BOOLEAN /\ own_enable \in BOOLEAN
          /\ paused \in [Ports -> BOOLEAN]
          /\ open \in BOOLEAN /\ left \in BOOLEAN
          /\ connection \in {"none", "made", "half", "enabled"}
          /\ life \in {"alive", "freed", "leaked"}
          /\ action \in {"none", "waiting", "acting"}
          /\ action_event \in BOOLEAN /\ action_quit \in BOOLEAN
          /\ refs \in SUBSET (Clients \X Refs)
          /\ payloads \in SUBSET (Owners \X Payloads)
          /\ connection_lock \in Clients \cup {NoThread}
          /\ pc \in [Clients -> Labels]
          /\ back \in [Clients -> Labels]
          /\ calls \in [Clients -> Nat]

\* References protect the component: mmal_component_destroy_internal runs
\* only when nobody holds a reference to the component or to a port.
DestroysUnreferenced ==
  (\E t \in Clients : pc[t] \in DestroyLabels) => refs = {} /\ payloads = {}

\* The component is destroyed by one thread, once.
DestroyedOnce ==
  /\ \A t, u \in Clients :
       pc[t] \in DestroyLabels /\ pc[u] \in DestroyLabels => t = u
  /\ life # "alive" => \A t \in Clients : pc[t] \notin DestroyLabels

\* The component is destroyed once, when there is no reference and no action
\* thread, and nobody is inside it when it is freed: no thread still has to
\* release, disconnect or unlock something of it, no port is enabled and no
\* peer points to one.  The last of it rests on the disable and the disconnect
\* of the ports, whose status the release does not look at: it holds unless one
\* of them has failed there.
NoUseAfterFree ==
  /\ DestroyedOnce
  /\ life = "freed" => /\ refs = {} /\ payloads = {} /\ action = "none"
                       /\ left \/ /\ \A t \in Clients : pc[t] = "idle"
                                  /\ connection_lock = NoThread
                                  /\ ~open /\ connection = "none"

\* The ports of an enabled component run, unless it does the enabling itself:
\* a port whose resume failed keeps the component disabled.
EnabledRuns == is_enabled /\ ~own_enable => \A p \in Ports : ~paused[p]

\* Once the last reference has been dropped the component is destroyed,
\* whatever else was being released at the time.
EventuallyDestroyed == (refs = {} /\ payloads = {}) ~> life # "alive"
=============================================================================
