------------------------ MODULE MmalComponent_proofs ------------------------
(***************************************************************************)
(* Proofs about the life of a component, for any number of clients, ports, *)
(* references and payloads: the counts are exact, and the component is     *)
(* destroyed once, when nobody refers to it or is inside it any more.      *)
(***************************************************************************)
EXTENDS MmalComponent, FiniteSetTheorems, TLAPS

\* Where the release of the last reference is before it destroys.
ReleaseLabels == {"disabling", "closing", "disconnecting", "freeing", "checking"}
Releasing  == \E t \in Clients : pc[t] \in ReleaseLabels
Destroying == \E t \in Clients : pc[t] \in DestroyLabels
\* It has not been through all the ports yet.
Closing == \E t \in Clients : pc[t] \in {"disabling", "closing", "disconnecting", "freeing"}

\* Who is inside the connection: a thread that frees its pool, also while the
\* last payload of it makes that thread destroy the component.
Inside(t) == \/ pc[t] \in {"closing", "freeing", "peer_freeing"}
             \/ pc[t] \in DestroyLabels /\ back[t] = "peer_freeing"

\* The two counts are the numbers of the references that exist.
CountInv == /\ refcount = Cardinality(refs) /\ IsFiniteSet(refs)
            /\ refcount_ports = Cardinality(payloads) /\ IsFiniteSet(payloads)

\* One thread at most finishes the component, which has no references then.
OneInv ==
  /\ \A t, u \in Clients : pc[t] \in ReleaseLabels \cup DestroyLabels
                           /\ pc[u] \in ReleaseLabels \cup DestroyLabels => t = u
  /\ Releasing \/ Destroying => refs = {} /\ life = "alive"
  /\ Releasing => destruction_pending
  /\ refs # {} => ~destruction_pending
  /\ Destroying => payloads = {}
  /\ life # "alive" => refs = {} /\ payloads = {}

\* Whoever is inside the connection holds its lock.
LockInv ==
  /\ \A t \in Clients : Inside(t) <=> connection_lock = t
  /\ \A t \in Clients : pc[t] \in DestroyLabels => back[t] \in {"idle", "peer_freeing"}

\* A release that has been through the ports leaves them disabled and
\* disconnected, unless it went on with one that it could not.
ClosedInv == \/ refs # {} \/ Closing \/ left
             \/ ~open /\ connection = "none" /\ connection_lock = NoThread

\* The action thread ends first.
QuietInv == /\ \A t \in Clients : pc[t] = "destroying" => action = "none"
            /\ life # "alive" => action = "none"

IInv == CountInv /\ OneInv /\ LockInv /\ ClosedInv /\ QuietInv

-----------------------------------------------------------------------------
\* What the counts say when one reference goes.
LEMMA LastOne ==
  ASSUME NEW S, IsFiniteSet(S), NEW x \in S
  PROVE  /\ Cardinality(S) \in Nat /\ Cardinality(S) > 0
         /\ Cardinality(S \ {x}) = Cardinality(S) - 1 /\ IsFiniteSet(S \ {x})
         /\ Cardinality(S) = 1 <=> S \ {x} = {}
<1>1. /\ Cardinality(S) \in Nat
      /\ IsFiniteSet(S \ {x}) /\ Cardinality(S \ {x}) = Cardinality(S) - 1
  BY FS_CardinalityType, FS_RemoveElement
<1>2. Cardinality(S \ {x}) \in Nat
  BY <1>1, FS_CardinalityType
<1>3. Cardinality(S \ {x}) = 0 <=> S \ {x} = {}
  BY <1>1, FS_EmptySet
<1> HIDE DEF IsFiniteSet
<1> QED
  BY <1>1, <1>2, <1>3

LEMMA OneMore ==
  ASSUME NEW S, IsFiniteSet(S), NEW x, x \notin S
  PROVE  /\ Cardinality(S \cup {x}) = Cardinality(S) + 1
         /\ IsFiniteSet(S \cup {x})
  BY FS_AddElement

\* The counts are zero when nothing is left.
LEMMA CountZero ==
  ASSUME CountInv
  PROVE  /\ refcount = 0 <=> refs = {}
         /\ refcount_ports = 0 <=> payloads = {}
         /\ refcount \in Nat /\ refcount_ports \in Nat
  BY FS_EmptySet, FS_CardinalityType DEF CountInv

\* A pool of payloads is taken out of the component at once.
LEMMA ManyMore ==
  ASSUME CountInv, OfConnection = {}, TypeOK
  PROVE  LET P == {Connection} \X Payloads
         IN /\ IsFiniteSet(payloads \cup P)
            /\ Cardinality(payloads \cup P) = Cardinality(payloads) + Cardinality(Payloads)
            /\ Cardinality(Payloads) \in Nat
<1> DEFINE P == {Connection} \X Payloads
<1>1. IsFiniteSet(Payloads) /\ IsFiniteSet({Connection}) /\ Cardinality({Connection}) = 1
  BY BoundsAssumption, FS_Singleton
<1>2. Cardinality(Payloads) \in Nat
  BY <1>1, FS_CardinalityType
<1>3. IsFiniteSet(P) /\ Cardinality(P) = Cardinality({Connection}) * Cardinality(Payloads)
  BY <1>1, FS_Product
<1>4. Cardinality(P) = Cardinality(Payloads)
  BY <1>1, <1>2, <1>3
<1>5. payloads \cap P = {}
  BY DEF OfConnection
<1>6. IsFiniteSet(payloads) /\ Cardinality(payloads) \in Nat
  BY FS_CardinalityType DEF CountInv
<1>7. /\ IsFiniteSet(payloads \cup P)
      /\ Cardinality(payloads \cup P)
           = Cardinality(payloads) + Cardinality(P) - Cardinality(payloads \cap P)
  BY <1>3, <1>6, FS_Union
<1>8. Cardinality({}) = 0
  BY FS_EmptySet
<1> HIDE DEF P
<1>9. Cardinality(payloads \cup P) = Cardinality(payloads) + Cardinality(P)
  BY <1>2, <1>4, <1>5, <1>6, <1>7, <1>8
<1> QED
  BY <1>2, <1>4, <1>7, <1>9 DEF P

-----------------------------------------------------------------------------
\* The types, action by action.
LEMMA TypeStep ==
  ASSUME TypeOK, CountInv, [Next]_vars
  PROVE  TypeOK'
<1> USE DEF counts, switch, ports, act, held
<1>1. ASSUME NEW t \in Clients, NEW l \in Labels, Goto(t, l)
      PROVE  pc' \in [Clients -> Labels]
  BY <1>1 DEF Goto, TypeOK
<1>2. ASSUME NEW t \in Clients, Call(t)
      PROVE  calls' \in [Clients -> Nat]
  BY <1>2 DEF Call, TypeOK
<1>3. ASSUME NEW t \in Clients, NEW p, PortRelease(t, p),
             UNCHANGED calls \/ Call(t)
      PROVE  TypeOK'
  <2>1. calls' \in [Clients -> Nat]
    BY <1>2, <1>3 DEF TypeOK
  <2>2. pc' \in [Clients -> Labels]
    BY <1>1, <1>3 DEF PortRelease, TypeOK, Labels, DestroyLabels
  <2>3. back' \in [Clients -> Labels]
    BY <1>3 DEF PortRelease, TypeOK
  <2>4. payloads' \in SUBSET (Owners \X Payloads) /\ refcount_ports' \in Nat
    BY <1>3 DEF PortRelease, TypeOK
  <2> QED
    BY <1>3, <2>1, <2>2, <2>3, <2>4 DEF PortRelease, TypeOK
<1>4. ASSUME NEW t \in Clients, NEW u \in Clients, Acquire(t, u) \/ PayloadAlloc(t, u)
      PROVE  TypeOK'
  <2>1. refs' \in SUBSET (Clients \X Refs) /\ payloads' \in SUBSET (Owners \X Payloads)
    <3>1. CASE Acquire(t, u)
      BY <3>1 DEF Acquire, TypeOK
    <3>2. CASE PayloadAlloc(t, u)
      <4>1. PICK i \in Payloads : payloads' = payloads \cup {<<u, i>>}
        BY <3>2 DEF PayloadAlloc
      <4>2. <<u, i>> \in Owners \X Payloads
        BY DEF Owners
      <4> QED
        BY <3>2, <4>1, <4>2 DEF PayloadAlloc, TypeOK
    <3> QED
      BY <1>4, <3>1, <3>2
  <2>2. refcount' \in Nat /\ refcount_ports' \in Nat
    BY <1>4 DEF Acquire, PayloadAlloc, TypeOK
  <2> QED
    BY <1>2, <1>4, <2>1, <2>2 DEF Acquire, PayloadAlloc, TypeOK
<1>5. ASSUME NEW t \in Clients, Connect(t) \/ EnableConnection(t)
      PROVE  TypeOK'
  <2>1. Cardinality(Payloads) \in Nat
    BY BoundsAssumption, FS_CardinalityType
  <2> QED
    BY <1>2, <1>5, <2>1 DEF Connect, EnableConnection, TypeOK, Owners
<1>6. ASSUME NEW t \in Clients, PeerDisconnect(t)
      PROVE  TypeOK'
  <2>1. DisconnectAny(t, "peer_freeing", "idle") /\ {"peer_freeing", "idle"} \subseteq Labels
    BY <1>6 DEF PeerDisconnect, Labels
  <2>2. pc' \in [Clients -> Labels]
    BY <1>1, <2>1 DEF DisconnectAny
  <2>3. /\ connection' \in {"none", "made", "half", "enabled"}
        /\ connection_lock' \in Clients \cup {NoThread}
    BY <2>1 DEF DisconnectAny, TypeOK
  <2> QED
    BY <1>2, <1>6, <2>2, <2>3 DEF PeerDisconnect, TypeOK
<1>7. ASSUME NEW t \in Clients, PayloadFree(t) \/ FreePayload(t)
      PROVE  TypeOK'
  BY <1>3, <1>7 DEF PayloadFree, FreePayload
<1>8. ASSUME NEW t \in Clients, Release(t)
      PROVE  TypeOK'
  <2>1. pc' \in [Clients -> Labels]
    BY <1>1, <1>8 DEF Release, TypeOK, Labels
  <2>2. refs' \in SUBSET (Clients \X Refs) /\ refcount' \in Nat
    BY <1>8 DEF Release, TypeOK
  <2>3. destruction_pending' \in BOOLEAN
    BY <1>8 DEF Release, TypeOK
  <2>4. calls' \in [Clients -> Nat]
    BY <1>2, <1>8 DEF Release
  <2> QED
    BY <1>8, <2>1, <2>2, <2>3, <2>4 DEF Release, TypeOK
<1>9. ASSUME NEW t \in Clients,
             Enable(t) \/ Disable(t) \/ OwnSwitch(t) \/ OpenPort(t) \/ Trigger(t)
      PROVE  TypeOK'
  <2>1. calls' \in [Clients -> Nat]
    BY <1>2, <1>9 DEF Enable, Disable, OwnSwitch, OpenPort, Trigger
  <2>2. CASE Enable(t)
    <3>1. paused' \in [Ports -> BOOLEAN] /\ is_enabled' \in BOOLEAN
      BY <2>2 DEF Enable, TypeOK
    <3> QED
      BY <2>1, <2>2, <3>1 DEF Enable, TypeOK
  <2>3. CASE Disable(t)
    BY <2>1, <2>3 DEF Disable, TypeOK
  <2>4. CASE OwnSwitch(t) \/ OpenPort(t) \/ Trigger(t)
    <3>1. /\ is_enabled' \in BOOLEAN /\ open' \in BOOLEAN /\ action_event' \in BOOLEAN
          /\ UNCHANGED <<counts, own_enable, paused, life, connection, connection_lock, left,
                         action, action_quit, held, pc, back>>
      BY <2>4 DEF OwnSwitch, OpenPort, Trigger, TypeOK
    <3> QED
      BY <2>1, <3>1 DEF TypeOK
  <2> QED
    BY <1>9, <2>2, <2>3, <2>4
<1>10. ASSUME NEW t \in Clients, DisablePorts(t) \/ Disconnect(t) \/ FreeDone(t)
       PROVE  TypeOK'
  <2>1. {"closing", "disconnecting", "freeing", "checking", "idle"} \subseteq Labels
    BY DEF Labels
  <2>2. pc' \in [Clients -> Labels]
    BY <1>1, <1>10, <2>1 DEF DisablePorts, Disconnect, DisconnectAny, FreeDone
  <2>3. /\ connection' \in {"none", "made", "half", "enabled"}
        /\ connection_lock' \in Clients \cup {NoThread}
        /\ left' \in BOOLEAN /\ open' \in BOOLEAN
    BY <1>10 DEF DisablePorts, Disconnect, DisconnectAny, FreeDone, TypeOK
  <2> QED
    BY <1>10, <2>2, <2>3 DEF DisablePorts, Disconnect, FreeDone, TypeOK
<1>11. ASSUME NEW t \in Clients, DestroyCheck(t)
       PROVE  TypeOK'
  <2>1. {"idle", "quitting"} \subseteq Labels
    BY DEF Labels, DestroyLabels
  <2>2. pc' \in [Clients -> Labels] /\ back' \in [Clients -> Labels]
    BY <1>1, <1>11, <2>1 DEF DestroyCheck, TypeOK
  <2>3. destruction_pending' \in BOOLEAN
    BY <1>11 DEF DestroyCheck, TypeOK
  <2> QED
    BY <1>11, <2>2, <2>3 DEF DestroyCheck, TypeOK
<1>12. ASSUME NEW t \in Clients, ActionQuit(t) \/ ActionSignal(t) \/ ActionJoin(t)
       PROVE  TypeOK'
  <2>1. {"signalling", "joining", "destroying"} \subseteq Labels
    BY DEF Labels, DestroyLabels
  <2>2. pc' \in [Clients -> Labels]
    BY <1>1, <1>12, <2>1 DEF ActionQuit, ActionSignal, ActionJoin
  <2>3. action_event' \in BOOLEAN /\ action_quit' \in BOOLEAN
    BY <1>12 DEF ActionQuit, ActionSignal, ActionJoin, TypeOK
  <2> QED
    BY <1>12, <2>2, <2>3 DEF ActionQuit, ActionSignal, ActionJoin, TypeOK
<1>13. ASSUME NEW t \in Clients, Destroy(t)
       PROVE  TypeOK'
  BY <1>1, <1>13 DEF Destroy, TypeOK
<1>14. CASE ActionWake \/ ActionDone
  <2>1. action_event' \in BOOLEAN /\ action' \in {"none", "waiting", "acting"}
    BY <1>14 DEF ActionWake, ActionDone, TypeOK
  <2> QED
    BY <1>14, <2>1 DEF ActionWake, ActionDone, TypeOK
<1>15. CASE Rest \/ UNCHANGED vars
  BY <1>15 DEF Rest, vars, TypeOK
<1> QED
  BY <1>4, <1>5, <1>6, <1>7, <1>8, <1>9, <1>10, <1>11, <1>12, <1>13, <1>14, <1>15
  DEF Next, ClientCall, ClientStep

-----------------------------------------------------------------------------
\* A release of a payload: by whom, and what it leaves.
LEMMA PortReleaseCount ==
  ASSUME CountInv, NEW t \in Clients, NEW p \in payloads, PortRelease(t, p)
  PROVE  /\ CountInv'
         /\ refs' = refs /\ payloads' = payloads \ {p}
         /\ \/ /\ payloads' = {} /\ refs = {} /\ ~destruction_pending
               /\ Goto(t, "quitting") /\ back' = [back EXCEPT ![t] = pc[t]]
            \/ UNCHANGED <<pc, back>>
<1>1. /\ payloads' = payloads \ {p} /\ refs' = refs
      /\ refcount_ports' = refcount_ports - 1 /\ refcount' = refcount
  BY DEF PortRelease, held
<1>2. /\ Cardinality(payloads \ {p}) = Cardinality(payloads) - 1
      /\ IsFiniteSet(payloads \ {p})
      /\ Cardinality(payloads) = 1 <=> payloads \ {p} = {}
  BY LastOne DEF CountInv
<1>3. CountInv'
  BY <1>1, <1>2 DEF CountInv
<1>4. refcount_ports = 1 <=> payloads \ {p} = {}
  BY <1>2 DEF CountInv
<1>5. refcount = 0 <=> refs = {}
  BY CountZero
<1> QED
  BY <1>1, <1>3, <1>4, <1>5 DEF PortRelease

\* The counts, action by action.
LEMMA CountStep ==
  ASSUME TypeOK, CountInv, [Next]_vars
  PROVE  CountInv'
<1> USE DEF counts, held
<1>1. ASSUME UNCHANGED <<refcount, refcount_ports, held>>
      PROVE  CountInv'
  BY <1>1 DEF CountInv
<1>2. ASSUME NEW t \in Clients, NEW u \in Clients, Acquire(t, u)
      PROVE  CountInv'
  BY <1>2, OneMore DEF Acquire, CountInv
<1>3. ASSUME NEW t \in Clients, NEW u \in Clients, PayloadAlloc(t, u)
      PROVE  CountInv'
  BY <1>3, OneMore DEF PayloadAlloc, CountInv
<1>4. ASSUME NEW t \in Clients, EnableConnection(t)
      PROVE  CountInv'
  BY <1>4, ManyMore DEF EnableConnection, CountInv
<1>5. ASSUME NEW t \in Clients, PayloadFree(t) \/ FreePayload(t)
      PROVE  CountInv'
  BY <1>5, PortReleaseCount DEF PayloadFree, FreePayload, OfConnection
<1>6. ASSUME NEW t \in Clients, Release(t)
      PROVE  CountInv'
  BY <1>6, LastOne DEF Release, CountInv
<1>7. ASSUME NEW t \in Clients,
             \/ Connect(t) \/ PeerDisconnect(t) \/ Enable(t) \/ Disable(t)
             \/ OwnSwitch(t) \/ OpenPort(t) \/ Trigger(t)
      PROVE  CountInv'
  BY <1>1, <1>7 DEF Connect, PeerDisconnect, Enable, Disable, OwnSwitch, OpenPort, Trigger
<1>8. ASSUME NEW t \in Clients,
             DisablePorts(t) \/ Disconnect(t) \/ FreeDone(t) \/ DestroyCheck(t) \/ ActionQuit(t)
      PROVE  CountInv'
  BY <1>1, <1>8 DEF DisablePorts, Disconnect, FreeDone, DestroyCheck, ActionQuit
<1>9. ASSUME NEW t \in Clients, ActionSignal(t) \/ ActionJoin(t) \/ Destroy(t)
      PROVE  CountInv'
  BY <1>1, <1>9 DEF ActionSignal, ActionJoin, Destroy
<1>10. CASE ActionWake \/ ActionDone \/ Rest \/ UNCHANGED vars
  BY <1>1, <1>10 DEF ActionWake, ActionDone, Rest, vars
<1> QED
  BY <1>2, <1>3, <1>4, <1>5, <1>6, <1>7, <1>8, <1>9, <1>10 DEF Next, ClientCall, ClientStep

LEMMA CountInit == Init => TypeOK /\ CountInv
<1> SUFFICES ASSUME Init PROVE TypeOK /\ CountInv
  OBVIOUS
<1>1. PICK t \in Clients, i \in Refs : refs = {<<t, i>>}
  BY DEF Init
<1>2. IsFiniteSet(refs) /\ Cardinality(refs) = 1
  BY <1>1, FS_Singleton
<1>3. IsFiniteSet({}) /\ Cardinality({}) = 0
  BY FS_EmptySet
<1>4. CountInv
  BY <1>2, <1>3 DEF Init, CountInv
<1>5. TypeOK
  <2>1. refs \in SUBSET (Clients \X Refs) /\ payloads \in SUBSET (Owners \X Payloads)
    BY <1>1 DEF Init
  <2>2. pc \in [Clients -> Labels] /\ back \in [Clients -> Labels]
    BY DEF Init, Labels
  <2>3. calls \in [Clients -> Nat]
    BY BoundsAssumption DEF Init
  <2> QED
    BY <2>1, <2>2, <2>3 DEF Init, TypeOK
<1> QED
  BY <1>4, <1>5

\* The variables keep their types; no count is ever below zero.
THEOREM TypeCorrect == Spec => [](TypeOK /\ CountInv)
<1>1. TypeOK /\ CountInv /\ [Next]_vars => (TypeOK /\ CountInv)'
  BY TypeStep, CountStep
<1> QED
  BY CountInit, <1>1, PTL DEF Spec

-----------------------------------------------------------------------------
(* Who is inside the component.                                            *)

Finishing == ReleaseLabels \cup DestroyLabels

\* A step of a client that is not finishing the component, and does not begin
\* to, with the references that it may add or, but for the last one, drop.
LEMMA OneFrame ==
  ASSUME TypeOK, OneInv, NEW t \in Clients, NEW l \in Labels \ Finishing,
         pc[t] \notin Finishing,
         pc' = pc \/ Goto(t, l),
         UNCHANGED <<destruction_pending, life>>,
         refs' = refs \/ (refs # {} /\ refs' # {}),
         payloads' \subseteq payloads \/ refs # {}
  PROVE  OneInv'
<1>1. \A u \in Clients : pc'[u] \in Finishing <=> pc[u] \in Finishing
  BY DEF Goto, TypeOK
<1>2. \A u \in Clients : /\ pc'[u] \in ReleaseLabels <=> pc[u] \in ReleaseLabels
                         /\ pc'[u] \in DestroyLabels <=> pc[u] \in DestroyLabels
  BY DEF Goto, TypeOK, Finishing
<1>3. (Releasing' <=> Releasing) /\ (Destroying' <=> Destroying)
  BY <1>2 DEF Releasing, Destroying
<1> QED
  BY <1>1, <1>3 DEF OneInv, Finishing

\* A step of the client that is finishing the component.
LEMMA OneMove ==
  ASSUME TypeOK, OneInv, NEW t \in Clients, NEW l \in Labels, Goto(t, l),
         pc[t] \in Finishing, refs' = refs, life' = life,
         l \in ReleaseLabels => pc[t] \in ReleaseLabels /\ destruction_pending',
         l \in DestroyLabels => payloads' = {}
  PROVE  OneInv'
<1>1. \A u \in Clients : u # t => pc[u] \notin Finishing /\ pc'[u] = pc[u]
  BY DEF OneInv, Finishing, Goto, TypeOK
<1>2. pc'[t] = l
  BY DEF Goto, TypeOK
<1>3. refs = {} /\ life = "alive"
  BY DEF OneInv, Releasing, Destroying, Finishing
<1>4. Releasing' => l \in ReleaseLabels
  BY <1>1, <1>2 DEF Releasing, Finishing
<1>5. Destroying' => l \in DestroyLabels
  BY <1>1, <1>2 DEF Destroying, Finishing
<1>6. \A u, v \in Clients : pc'[u] \in Finishing /\ pc'[v] \in Finishing => u = v
  BY <1>1
<1> QED
  BY <1>3, <1>4, <1>5, <1>6 DEF OneInv, Finishing

LEMMA OneStep ==
  ASSUME TypeOK, CountInv, OneInv, LockInv, [Next]_vars
  PROVE  OneInv'
<1> USE DEF counts, switch, ports, act, held
<1>1. ASSUME UNCHANGED <<pc, destruction_pending, life, held>>
      PROVE  OneInv'
  BY <1>1 DEF OneInv, Releasing, Destroying
<1>2. ASSUME NEW t \in Clients, NEW u \in Clients, Acquire(t, u) \/ PayloadAlloc(t, u)
      PROVE  OneInv'
  <2>1. refs # {} /\ pc[t] \notin Finishing /\ pc' = pc
    BY <1>2 DEF Acquire, PayloadAlloc, Holds, Call, Finishing, ReleaseLabels, DestroyLabels
  <2>2. refs' # {} /\ UNCHANGED <<destruction_pending, life>>
    BY <1>2, <2>1 DEF Acquire, PayloadAlloc
  <2>3. "idle" \in Labels \ Finishing
    BY DEF Labels, Finishing, ReleaseLabels, DestroyLabels
  <2> QED
    BY <2>1, <2>2, <2>3, OneFrame
<1>3. ASSUME NEW t \in Clients, Connect(t) \/ EnableConnection(t)
      PROVE  OneInv'
  <2>1. refs # {} /\ pc[t] \notin Finishing /\ pc' = pc /\ refs' = refs
    BY <1>3 DEF Connect, EnableConnection, Holds, Call, Finishing, ReleaseLabels, DestroyLabels
  <2>2. "idle" \in Labels \ Finishing
    BY DEF Labels, Finishing, ReleaseLabels, DestroyLabels
  <2> QED
    BY <1>3, <2>1, <2>2, OneFrame DEF Connect, EnableConnection
<1>4. ASSUME NEW t \in Clients, PeerDisconnect(t)
      PROVE  OneInv'
  <2>1. pc[t] \notin Finishing /\ {"peer_freeing", "idle"} \subseteq Labels \ Finishing
    BY <1>4 DEF PeerDisconnect, Call, Labels, Finishing, ReleaseLabels, DestroyLabels
  <2>2. Goto(t, "peer_freeing") \/ Goto(t, "idle")
    BY <1>4 DEF PeerDisconnect, DisconnectAny
  <2> QED
    BY <1>4, <2>1, <2>2, OneFrame DEF PeerDisconnect
<1>5. ASSUME NEW t \in Clients, PayloadFree(t) \/ FreePayload(t)
      PROVE  OneInv'
  <2>1. PICK p \in payloads : PortRelease(t, p)
    BY <1>5 DEF PayloadFree, FreePayload, OfConnection
  <2>2. UNCHANGED <<destruction_pending, life>> /\ refs' = refs /\ payloads' \subseteq payloads
    BY <2>1, PortReleaseCount DEF PortRelease
  <2>3. CASE UNCHANGED pc
    <3>1. (Releasing' <=> Releasing) /\ (Destroying' <=> Destroying)
      BY <2>3 DEF Releasing, Destroying
    <3> QED
      BY <2>2, <2>3, <3>1 DEF OneInv
  <2>4. CASE payloads' = {} /\ refs = {} /\ ~destruction_pending /\ Goto(t, "quitting")
    <3>1. ~Releasing /\ ~Destroying /\ life = "alive"
      BY <2>1, <2>4 DEF OneInv
    <3>2. \A u \in Clients : u # t => pc'[u] = pc[u] /\ pc[u] \notin Finishing
      BY <2>4, <3>1 DEF Goto, TypeOK, Releasing, Destroying, Finishing
    <3>3. pc'[t] = "quitting"
      BY <2>4 DEF Goto, TypeOK
    <3>4. ~Releasing'
      BY <3>2, <3>3 DEF Releasing, Finishing, ReleaseLabels
    <3> QED
      BY <2>2, <2>4, <3>1, <3>2, <3>4 DEF OneInv, Finishing
  <2> QED
    BY <2>1, <2>3, <2>4, PortReleaseCount
<1>6. ASSUME NEW t \in Clients, Release(t)
      PROVE  OneInv'
  <2>1. PICK x \in refs : refs' = refs \ {x}
    BY <1>6 DEF Release
  <2>2. refs # {} /\ ~destruction_pending /\ ~Releasing /\ ~Destroying /\ life = "alive"
    BY <2>1 DEF OneInv
  <2>3. refcount = 1 <=> refs' = {}
    BY <2>1, LastOne DEF CountInv
  <2>4. life' = life
    BY <1>6 DEF Release
  <2>5. CASE refcount = 1
    <3>1. destruction_pending' /\ Goto(t, "disabling")
      BY <1>6, <2>5 DEF Release
    <3>2. \A u \in Clients : u # t => pc'[u] = pc[u] /\ pc[u] \notin Finishing
      BY <2>2, <3>1 DEF Goto, TypeOK, Releasing, Destroying, Finishing
    <3>3. pc'[t] = "disabling"
      BY <3>1 DEF Goto, TypeOK
    <3>4. ~Destroying'
      BY <3>2, <3>3 DEF Destroying, Finishing, DestroyLabels
    <3> QED
      BY <2>2, <2>3, <2>4, <2>5, <3>1, <3>2, <3>4 DEF OneInv, Finishing
  <2>6. CASE refcount # 1
    <3>1. UNCHANGED <<pc, destruction_pending>>
      BY <1>6, <2>6 DEF Release
    <3>2. ~Releasing' /\ ~Destroying'
      BY <2>2, <3>1 DEF Releasing, Destroying
    <3>3. ~destruction_pending'
      BY <2>2, <3>1
    <3> QED
      BY <2>2, <2>3, <2>4, <2>6, <3>1, <3>2, <3>3 DEF OneInv
  <2> QED
    BY <2>5, <2>6
<1>7. ASSUME NEW t \in Clients, DisablePorts(t) \/ Disconnect(t)
      PROVE  OneInv'
  <2>1. /\ pc[t] \in ReleaseLabels
        /\ \E l \in {"closing", "disconnecting", "freeing", "checking"} : Goto(t, l)
    BY <1>7 DEF DisablePorts, Disconnect, DisconnectAny, ReleaseLabels
  <2>2. \A l \in {"closing", "disconnecting", "freeing", "checking"} :
           l \in Labels /\ l \in ReleaseLabels /\ l \notin DestroyLabels
    BY DEF Labels, ReleaseLabels, DestroyLabels
  <2>3. destruction_pending /\ UNCHANGED <<refs, life, destruction_pending>>
    BY <1>7, <2>1 DEF DisablePorts, Disconnect, OneInv, Releasing
  <2> QED
    BY <2>1, <2>2, <2>3, OneMove DEF Finishing
<1>8. ASSUME NEW t \in Clients, FreeDone(t)
      PROVE  OneInv'
  <2>1. UNCHANGED <<refs, payloads, life, destruction_pending>>
    BY <1>8 DEF FreeDone
  <2>2. CASE pc[t] \in {"closing", "freeing"}
    <3>1. pc[t] \in ReleaseLabels /\ {"disconnecting", "checking"} \subseteq Labels \cap ReleaseLabels
      BY <2>2 DEF Labels, ReleaseLabels
    <3>2. destruction_pending /\ {"disconnecting", "checking"} \cap DestroyLabels = {}
      BY <3>1 DEF OneInv, Releasing, DestroyLabels
    <3>3. Goto(t, "disconnecting") \/ Goto(t, "checking")
      BY <1>8, <2>2 DEF FreeDone
    <3> QED
      BY <2>1, <3>1, <3>2, <3>3, OneMove DEF Finishing
  <2>3. CASE pc[t] \notin {"closing", "freeing"}
    <3>1. pc[t] \notin Finishing /\ "idle" \in Labels \ Finishing
      BY <1>8, <2>3 DEF FreeDone, Labels, Finishing, ReleaseLabels, DestroyLabels
    <3>2. Goto(t, "idle")
      BY <1>8, <2>3 DEF FreeDone
    <3> QED
      BY <2>1, <3>1, <3>2, OneFrame
  <2> QED
    BY <2>2, <2>3
<1>9. ASSUME NEW t \in Clients, DestroyCheck(t)
      PROVE  OneInv'
  <2>1. pc[t] \in Finishing /\ refs' = refs /\ life' = life
    BY <1>9 DEF DestroyCheck, Finishing, ReleaseLabels
  <2>2. CASE Goto(t, "idle")
    <3>1. "idle" \in Labels /\ "idle" \notin ReleaseLabels /\ "idle" \notin DestroyLabels
      BY DEF Labels, ReleaseLabels, DestroyLabels
    <3> QED
      BY <2>1, <2>2, <3>1, OneMove
  <2>3. CASE refcount_ports = 0 /\ Goto(t, "quitting")
    <3>1. "quitting" \in Labels /\ "quitting" \notin ReleaseLabels
      BY DEF Labels, ReleaseLabels, DestroyLabels
    <3>2. payloads' = {}
      BY <1>9, <2>3, CountZero DEF DestroyCheck
    <3> QED
      BY <2>1, <2>3, <3>1, <3>2, OneMove
  <2> QED
    BY <1>9, <2>2, <2>3 DEF DestroyCheck
<1>10. ASSUME NEW t \in Clients, ActionQuit(t) \/ ActionSignal(t) \/ ActionJoin(t)
       PROVE  OneInv'
  <2>1. pc[t] \in DestroyLabels /\ UNCHANGED <<refs, payloads, life>>
    BY <1>10 DEF ActionQuit, ActionSignal, ActionJoin, DestroyLabels
  <2>2. payloads' = {}
    BY <2>1 DEF OneInv, Destroying
  <2>3. \E l \in DestroyLabels : Goto(t, l)
    BY <1>10 DEF ActionQuit, ActionSignal, ActionJoin, DestroyLabels
  <2>4. \A l \in DestroyLabels : l \in Labels /\ l \notin ReleaseLabels
    BY DEF Labels, ReleaseLabels, DestroyLabels
  <2> QED
    BY <2>1, <2>2, <2>3, <2>4, OneMove DEF Finishing
<1>11. ASSUME NEW t \in Clients, Destroy(t)
       PROVE  OneInv'
  <2>1. pc[t] \in DestroyLabels /\ back[t] \in {"idle", "peer_freeing"}
    BY <1>11 DEF Destroy, DestroyLabels, LockInv
  <2>2. refs = {} /\ payloads = {}
    BY <2>1 DEF OneInv, Destroying
  <2>3. /\ pc'[t] = back[t]
        /\ \A u \in Clients : u # t => pc'[u] = pc[u] /\ pc[u] \notin Finishing
    BY <1>11, <2>1 DEF Destroy, Goto, TypeOK, OneInv, Finishing
  <2>4. \A u \in Clients : pc'[u] \notin Finishing
    BY <2>1, <2>3 DEF Finishing, ReleaseLabels, DestroyLabels
  <2>5. ~Releasing' /\ ~Destroying'
    BY <2>4 DEF Releasing, Destroying, Finishing
  <2> QED
    BY <1>11, <2>2, <2>4, <2>5 DEF Destroy, OneInv, Finishing
<1>12. ASSUME NEW t \in Clients,
              Enable(t) \/ Disable(t) \/ OwnSwitch(t) \/ OpenPort(t) \/ Trigger(t)
       PROVE  OneInv'
  BY <1>1, <1>12 DEF Enable, Disable, OwnSwitch, OpenPort, Trigger
<1>13. CASE ActionWake \/ ActionDone \/ Rest \/ UNCHANGED vars
  BY <1>1, <1>13 DEF ActionWake, ActionDone, Rest, vars
<1> QED
  BY <1>2, <1>3, <1>4, <1>5, <1>6, <1>7, <1>8, <1>9, <1>10, <1>11, <1>12, <1>13
  DEF Next, ClientCall, ClientStep

-----------------------------------------------------------------------------
(* Who is inside the connection.                                           *)

\* A step that neither enters nor leaves the connection.
LEMMA LockFrame ==
  ASSUME LockInv, NEW t \in Clients, UNCHANGED connection_lock,
         \A u \in Clients : u # t => pc'[u] = pc[u] /\ back'[u] = back[u],
         Inside(t)' <=> Inside(t),
         pc'[t] \in DestroyLabels => back'[t] \in {"idle", "peer_freeing"}
  PROVE  LockInv'
<1>1. \A u \in Clients : Inside(u)' <=> Inside(u)
  BY DEF Inside
<1> QED
  BY <1>1 DEF LockInv

\* A thread that comes in takes the lock.
LEMMA LockTake ==
  ASSUME LockInv, NEW t \in Clients, connection_lock = NoThread, connection_lock' = t,
         \A u \in Clients : u # t => pc'[u] = pc[u] /\ back'[u] = back[u],
         Inside(t)', pc'[t] \notin DestroyLabels
  PROVE  LockInv'
<1>1. \A u \in Clients : u # t => ~Inside(u)'
  <2>1. \A u \in Clients : ~Inside(u)
    BY NamesAssumption DEF LockInv
  <2> QED
    BY <2>1 DEF Inside
<1> QED
  BY <1>1 DEF LockInv

\* It gives it back when it leaves.
LEMMA LockGive ==
  ASSUME LockInv, NEW t \in Clients, Inside(t), connection_lock' = NoThread,
         \A u \in Clients : u # t => pc'[u] = pc[u] /\ back'[u] = back[u],
         ~Inside(t)', pc'[t] \notin DestroyLabels
  PROVE  LockInv'
<1>1. \A u \in Clients : ~Inside(u)'
  <2>1. \A u \in Clients : u # t => ~Inside(u)
    BY DEF LockInv
  <2> QED
    BY <2>1 DEF Inside
<1>2. \A u \in Clients : connection_lock' # u
  BY NamesAssumption
<1> QED
  BY <1>1, <1>2 DEF LockInv

LEMMA LockStep ==
  ASSUME TypeOK, CountInv, OneInv, LockInv, [Next]_vars
  PROVE  LockInv'
<1> USE DEF counts, switch, ports, act, held
<1>1. ASSUME UNCHANGED <<pc, back, connection_lock>>
      PROVE  LockInv'
  BY <1>1 DEF LockInv, Inside
<1>2. ASSUME NEW t \in Clients, NEW l, Goto(t, l), back' = back
      PROVE  /\ pc'[t] = l /\ back'[t] = back[t]
             /\ \A u \in Clients : u # t => pc'[u] = pc[u] /\ back'[u] = back[u]
  BY <1>2 DEF Goto, TypeOK
<1>3. ASSUME NEW t \in Clients, NEW u \in Clients,
             \/ Acquire(t, u) \/ PayloadAlloc(t, u) \/ Connect(t) \/ EnableConnection(t)
             \/ Enable(t) \/ Disable(t) \/ OwnSwitch(t) \/ OpenPort(t) \/ Trigger(t)
      PROVE  LockInv'
  BY <1>1, <1>3
  DEF Acquire, PayloadAlloc, Connect, EnableConnection, Enable, Disable, OwnSwitch, OpenPort, Trigger
<1>4. ASSUME NEW t \in Clients, NEW a, NEW b, a \in {"freeing", "peer_freeing"},
             b \in {"checking", "idle"}, pc[t] \in {"idle", "disconnecting"},
             DisconnectAny(t, a, b), back' = back
      PROVE  LockInv'
  <2>1. CASE connection_lock' = t /\ Goto(t, a) /\ connection_lock = NoThread
    BY <1>2, <1>4, <2>1, LockTake DEF Inside, DestroyLabels
  <2>2. CASE UNCHANGED connection_lock /\ Goto(t, b)
    BY <1>2, <1>4, <2>2, LockFrame DEF Inside, DestroyLabels
  <2> QED
    BY <1>4, <2>1, <2>2 DEF DisconnectAny
<1>5. ASSUME NEW t \in Clients, PeerDisconnect(t) \/ Disconnect(t)
      PROVE  LockInv'
  <2>1. CASE PeerDisconnect(t)
    BY <1>4, <2>1 DEF PeerDisconnect, Call
  <2>2. CASE Disconnect(t)
    BY <1>4, <2>2 DEF Disconnect
  <2> QED
    BY <1>5, <2>1, <2>2
<1>6. ASSUME NEW t \in Clients, PayloadFree(t) \/ FreePayload(t)
      PROVE  LockInv'
  <2>1. PICK p \in payloads : PortRelease(t, p)
    BY <1>6 DEF PayloadFree, FreePayload, OfConnection
  <2>2. connection_lock' = connection_lock
    BY <2>1 DEF PortRelease
  <2>3. CASE UNCHANGED <<pc, back>>
    BY <1>1, <2>2, <2>3
  <2>4. CASE /\ payloads' = {} /\ refs = {} /\ ~destruction_pending
             /\ Goto(t, "quitting") /\ back' = [back EXCEPT ![t] = pc[t]]
    <3>1. pc[t] \notin ReleaseLabels
      BY <2>4 DEF OneInv, Releasing
    <3>2. pc[t] \in {"idle", "peer_freeing"}
      BY <1>6, <3>1 DEF PayloadFree, FreePayload, Call, ReleaseLabels
    <3>3. /\ pc'[t] = "quitting" /\ back'[t] = pc[t]
          /\ \A u \in Clients : u # t => pc'[u] = pc[u] /\ back'[u] = back[u]
      BY <2>4 DEF Goto, TypeOK
    <3>4. Inside(t)' <=> Inside(t)
      BY <3>2, <3>3 DEF Inside, DestroyLabels
    <3> QED
      BY <2>2, <3>2, <3>3, <3>4, LockFrame
  <2> QED
    BY <2>1, <2>3, <2>4, PortReleaseCount
<1>7. ASSUME NEW t \in Clients, Release(t)
      PROVE  LockInv'
  <2>1. pc[t] = "idle" /\ UNCHANGED <<back, connection_lock>>
        /\ (pc' = pc \/ Goto(t, "disabling"))
    BY <1>7 DEF Release, Call
  <2>2. CASE Goto(t, "disabling")
    BY <1>2, <2>1, <2>2, LockFrame DEF Inside, DestroyLabels
  <2> QED
    BY <1>1, <2>1, <2>2
<1>8. ASSUME NEW t \in Clients, DisablePorts(t)
      PROVE  LockInv'
  <2>1. pc[t] = "disabling" /\ connection_lock = NoThread /\ back' = back
    BY <1>8 DEF DisablePorts
  <2>2. CASE connection_lock' = t /\ Goto(t, "closing")
    BY <1>2, <2>1, <2>2, LockTake DEF Inside, DestroyLabels
  <2>3. CASE UNCHANGED connection_lock /\ Goto(t, "disconnecting")
    BY <1>2, <2>1, <2>3, LockFrame DEF Inside, DestroyLabels
  <2> QED
    BY <1>8, <2>2, <2>3 DEF DisablePorts
<1>9. ASSUME NEW t \in Clients, FreeDone(t)
      PROVE  LockInv'
  <2>1. Inside(t) /\ connection_lock' = NoThread /\ back' = back
    BY <1>9 DEF FreeDone, Inside
  <2>2. PICK l \in {"disconnecting", "checking", "idle"} : Goto(t, l)
    BY <1>9 DEF FreeDone
  <2> QED
    BY <1>2, <2>1, <2>2, LockGive DEF Inside, DestroyLabels
<1>10. ASSUME NEW t \in Clients, DestroyCheck(t)
       PROVE  LockInv'
  <2>1. pc[t] = "checking" /\ UNCHANGED connection_lock
    BY <1>10 DEF DestroyCheck
  <2>2. /\ pc'[t] \in {"idle", "quitting"}
        /\ pc'[t] = "quitting" => back'[t] = "idle"
        /\ \A u \in Clients : u # t => pc'[u] = pc[u] /\ back'[u] = back[u]
    BY <1>10 DEF DestroyCheck, Goto, TypeOK
  <2>3. ~Inside(t) /\ ~Inside(t)'
    BY <2>1, <2>2 DEF Inside, DestroyLabels
  <2> QED
    BY <2>1, <2>2, <2>3, LockFrame DEF DestroyLabels
<1>11. ASSUME NEW t \in Clients, ActionQuit(t) \/ ActionSignal(t) \/ ActionJoin(t)
       PROVE  LockInv'
  <2>1. pc[t] \in DestroyLabels /\ UNCHANGED <<back, connection_lock>>
    BY <1>11 DEF ActionQuit, ActionSignal, ActionJoin, DestroyLabels
  <2>2. PICK l \in DestroyLabels : Goto(t, l)
    BY <1>11 DEF ActionQuit, ActionSignal, ActionJoin, DestroyLabels
  <2>3. Inside(t)' <=> Inside(t)
    BY <1>2, <2>1, <2>2 DEF Inside, DestroyLabels
  <2> QED
    BY <1>2, <2>1, <2>2, <2>3, LockFrame DEF LockInv
<1>12. ASSUME NEW t \in Clients, Destroy(t)
       PROVE  LockInv'
  <2>1. pc[t] \in DestroyLabels /\ UNCHANGED <<back, connection_lock>> /\ Goto(t, back[t])
    BY <1>12 DEF Destroy, DestroyLabels
  <2>2. back[t] \in {"idle", "peer_freeing"}
    BY <2>1 DEF LockInv
  <2>3. Inside(t)' <=> Inside(t)
    BY <1>2, <2>1, <2>2 DEF Inside, DestroyLabels
  <2> QED
    BY <1>2, <2>1, <2>2, <2>3, LockFrame
<1>13. CASE ActionWake \/ ActionDone \/ Rest \/ UNCHANGED vars
  BY <1>1, <1>13 DEF ActionWake, ActionDone, Rest, vars
<1> QED
  BY <1>3, <1>5, <1>6, <1>7, <1>8, <1>9, <1>10, <1>11, <1>12, <1>13
  DEF Next, ClientCall, ClientStep

-----------------------------------------------------------------------------
(* What the release leaves of the ports.                                   *)

LEMMA ClosedStep ==
  ASSUME TypeOK, CountInv, OneInv, LockInv, ClosedInv, [Next]_vars
  PROVE  ClosedInv'
<1> USE DEF counts, switch, ports, act, held
<1>1. ASSUME UNCHANGED <<refs, open, connection, connection_lock, left>>,
             Closing => Closing'
      PROVE  ClosedInv'
  BY <1>1 DEF ClosedInv
<1>2. ASSUME NEW t \in Clients, NEW l, Goto(t, l),
             pc[t] \notin {"disabling", "closing", "disconnecting", "freeing"}
             \/ l \in {"disabling", "closing", "disconnecting", "freeing"}
      PROVE  Closing => Closing'
  <2> SUFFICES ASSUME NEW u \in Clients,
                      pc[u] \in {"disabling", "closing", "disconnecting", "freeing"}
               PROVE  pc'[u] \in {"disabling", "closing", "disconnecting", "freeing"}
    BY DEF Closing
  <2> QED
    BY <1>2 DEF Goto, TypeOK
<1>3. ASSUME NEW t \in Clients, NEW u \in Clients,
             \/ Acquire(t, u) \/ PayloadAlloc(t, u) \/ Connect(t) \/ EnableConnection(t)
             \/ Enable(t) \/ Disable(t) \/ OwnSwitch(t) \/ OpenPort(t) \/ Trigger(t)
      PROVE  ClosedInv'
  <2>1. refs' # {}
    BY <1>3 DEF Acquire, PayloadAlloc, Connect, EnableConnection, Enable, Disable, OwnSwitch,
                OpenPort, Trigger, Holds
  <2> QED
    BY <2>1 DEF ClosedInv
<1>4. ASSUME NEW t \in Clients, PeerDisconnect(t)
      PROVE  ClosedInv'
  <2>1. pc[t] = "idle" /\ connection # "none" /\ UNCHANGED <<refs, left>>
        /\ (Goto(t, "peer_freeing") \/ Goto(t, "idle"))
    BY <1>4 DEF PeerDisconnect, DisconnectAny, Call
  <2>2. Closing => Closing'
    BY <1>2, <2>1
  <2> QED
    BY <2>1, <2>2 DEF ClosedInv
<1>5. ASSUME NEW t \in Clients, PayloadFree(t) \/ FreePayload(t)
      PROVE  ClosedInv'
  <2>1. PICK p \in payloads : PortRelease(t, p)
    BY <1>5 DEF PayloadFree, FreePayload, OfConnection
  <2>2. UNCHANGED <<refs, open, connection, connection_lock, left>>
    BY <2>1 DEF PortRelease
  <2>3. CASE UNCHANGED pc
    BY <1>1, <2>2, <2>3 DEF Closing
  <2>4. CASE /\ payloads' = {} /\ refs = {} /\ ~destruction_pending
             /\ Goto(t, "quitting")
    <3>1. ~Closing
      BY <2>4 DEF OneInv, Releasing, ReleaseLabels, Closing
    <3> QED
      BY <1>1, <2>2, <3>1
  <2> QED
    BY <2>1, <2>3, <2>4, PortReleaseCount
<1>6. ASSUME NEW t \in Clients, Release(t)
      PROVE  ClosedInv'
  <2>1. PICK x \in refs : refs' = refs \ {x}
    BY <1>6 DEF Release
  <2>2. refcount = 1 <=> refs' = {}
    BY <2>1, LastOne DEF CountInv
  <2>3. CASE refcount = 1
    <3>1. pc'[t] = "disabling"
      BY <1>6, <2>3 DEF Release, Goto, TypeOK
    <3> QED
      BY <3>1 DEF ClosedInv, Closing
  <2>4. CASE refcount # 1
    BY <2>2, <2>4 DEF ClosedInv
  <2> QED
    BY <2>3, <2>4
<1>7. ASSUME NEW t \in Clients, DisablePorts(t)
      PROVE  ClosedInv'
  <2>1. pc'[t] \in {"closing", "disconnecting"}
    BY <1>7 DEF DisablePorts, Goto, TypeOK
  <2> QED
    BY <2>1 DEF ClosedInv, Closing
<1>8. ASSUME NEW t \in Clients, Disconnect(t)
      PROVE  ClosedInv'
  <2>1. CASE Goto(t, "freeing")
    <3>1. pc'[t] = "freeing"
      BY <2>1 DEF Goto, TypeOK
    <3> QED
      BY <3>1 DEF ClosedInv, Closing
  <2>2. CASE ~Goto(t, "freeing")
    <3>1. /\ connection_lock' = NoThread /\ open' = open
          /\ left' = (open \/ connection' # "none")
      BY <1>8, <2>2 DEF Disconnect, DisconnectAny
    <3> QED
      BY <3>1 DEF ClosedInv
  <2> QED
    BY <2>1, <2>2
<1>9. ASSUME NEW t \in Clients, FreeDone(t)
      PROVE  ClosedInv'
  <2>1. CASE pc[t] = "closing"
    <3>1. pc'[t] = "disconnecting"
      BY <1>9, <2>1 DEF FreeDone, Goto, TypeOK
    <3> QED
      BY <3>1 DEF ClosedInv, Closing
  <2>2. CASE pc[t] = "freeing"
    <3>1. /\ connection_lock' = NoThread /\ open' = open
          /\ left' = (open \/ connection' # "none")
      BY <1>9, <2>2 DEF FreeDone
    <3> QED
      BY <3>1 DEF ClosedInv
  <2>3. CASE pc[t] = "peer_freeing"
    <3>1. connection_lock = t
      BY <2>3 DEF LockInv, Inside
    <3>2. UNCHANGED <<refs, left>> /\ Goto(t, "idle")
      BY <1>9, <2>3 DEF FreeDone
    <3>3. Closing => Closing'
      BY <1>2, <2>3, <3>2
    <3> QED
      BY <3>1, <3>2, <3>3, NamesAssumption DEF ClosedInv
  <2> QED
    BY <1>9, <2>1, <2>2, <2>3 DEF FreeDone
<1>10. ASSUME NEW t \in Clients, DestroyCheck(t)
       PROVE  ClosedInv'
  <2>1. pc[t] = "checking" /\ (Goto(t, "idle") \/ Goto(t, "quitting"))
        /\ UNCHANGED <<refs, open, connection, connection_lock, left>>
    BY <1>10 DEF DestroyCheck
  <2> QED
    BY <1>1, <1>2, <2>1
<1>11. ASSUME NEW t \in Clients,
              ActionQuit(t) \/ ActionSignal(t) \/ ActionJoin(t) \/ Destroy(t)
       PROVE  ClosedInv'
  <2>1. /\ pc[t] \in DestroyLabels
        /\ UNCHANGED <<refs, open, connection, connection_lock, left>>
    BY <1>11 DEF ActionQuit, ActionSignal, ActionJoin, Destroy, DestroyLabels
  <2>2. \E l \in DestroyLabels \cup {back[t]} : Goto(t, l)
    BY <1>11 DEF ActionQuit, ActionSignal, ActionJoin, Destroy, DestroyLabels
  <2>3. Closing => Closing'
    BY <1>2, <2>1, <2>2 DEF DestroyLabels
  <2> QED
    BY <1>1, <2>1, <2>3
<1>12. CASE ActionWake \/ ActionDone \/ Rest \/ UNCHANGED vars
  <2>1. UNCHANGED <<pc, refs, open, connection, connection_lock, left>>
    BY <1>12 DEF ActionWake, ActionDone, Rest, vars
  <2> QED
    BY <1>1, <2>1 DEF Closing
<1> QED
  BY <1>3, <1>4, <1>5, <1>6, <1>7, <1>8, <1>9, <1>10, <1>11, <1>12
  DEF Next, ClientCall, ClientStep

-----------------------------------------------------------------------------
(* The action thread, at the end.                                          *)

LEMMA QuietStep ==
  ASSUME TypeOK, LockInv, QuietInv, [Next]_vars
  PROVE  QuietInv'
<1> USE DEF counts, switch, ports, act, held
<1>1. ASSUME NEW t \in Clients, NEW l, pc' = pc \/ Goto(t, l),
             UNCHANGED life, action' = action,
             pc' # pc => (l = "destroying" => action = "none")
      PROVE  QuietInv'
  <2>1. \A u \in Clients : pc'[u] = "destroying" => action' = "none"
    BY <1>1 DEF QuietInv, Goto, TypeOK
  <2> QED
    BY <1>1, <2>1 DEF QuietInv
<1>2. ASSUME NEW t \in Clients, ClientCall(t)
      PROVE  QuietInv'
  <2>1. UNCHANGED <<life, action>>
    BY <1>2 DEF ClientCall, Acquire, PayloadAlloc, Connect, EnableConnection, PeerDisconnect,
                PayloadFree, PortRelease, Release, Enable, Disable, OwnSwitch, OpenPort, Trigger
  <2>2. \/ pc' = pc
        \/ \E l \in {"peer_freeing", "idle", "quitting", "disabling"} : Goto(t, l)
    BY <1>2 DEF ClientCall, Acquire, PayloadAlloc, Connect, EnableConnection, PeerDisconnect,
                DisconnectAny, PayloadFree, PortRelease, Release, Enable, Disable, OwnSwitch,
                OpenPort, Trigger
  <2> QED
    BY <1>1, <2>1, <2>2
<1>3. ASSUME NEW t \in Clients, DisablePorts(t) \/ Disconnect(t) \/ FreePayload(t) \/ FreeDone(t)
      PROVE  QuietInv'
  <2>1. UNCHANGED <<life, action>>
    BY <1>3 DEF DisablePorts, Disconnect, FreePayload, PortRelease, FreeDone
  <2>2. \/ pc' = pc
        \/ \E l \in {"closing", "disconnecting", "freeing", "checking", "idle", "quitting"} :
             Goto(t, l)
    BY <1>3 DEF DisablePorts, Disconnect, DisconnectAny, FreePayload, PortRelease, FreeDone
  <2> QED
    BY <1>1, <2>1, <2>2
<1>4. ASSUME NEW t \in Clients,
             DestroyCheck(t) \/ ActionQuit(t) \/ ActionSignal(t) \/ ActionJoin(t)
      PROVE  QuietInv'
  <2>1. UNCHANGED <<life, action>>
    BY <1>4 DEF DestroyCheck, ActionQuit, ActionSignal, ActionJoin
  <2>2. \/ \E l \in {"idle", "quitting", "signalling", "joining"} : Goto(t, l)
        \/ Goto(t, "destroying") /\ action = "none"
    BY <1>4 DEF DestroyCheck, ActionQuit, ActionSignal, ActionJoin
  <2> QED
    BY <1>1, <2>1, <2>2
<1>5. ASSUME NEW t \in Clients, Destroy(t)
      PROVE  QuietInv'
  <2>1. pc[t] = "destroying" /\ UNCHANGED action
    BY <1>5 DEF Destroy
  <2>2. action = "none"
    BY <2>1 DEF QuietInv
  <2> QED
    BY <2>1, <2>2 DEF QuietInv
<1>6. CASE ActionWake \/ ActionDone
  <2>1. UNCHANGED <<pc, life>> /\ (action = "none" => action' = "none")
    BY <1>6 DEF ActionWake, ActionDone
  <2> QED
    BY <2>1 DEF QuietInv
<1>7. CASE Rest \/ UNCHANGED vars
  <2>1. UNCHANGED <<pc, life, action>>
    BY <1>7 DEF Rest, vars
  <2> QED
    BY <2>1 DEF QuietInv
<1> QED
  BY <1>2, <1>3, <1>4, <1>5, <1>6, <1>7 DEF Next, ClientStep

-----------------------------------------------------------------------------
LEMMA IInvInit == Init => OneInv /\ LockInv /\ ClosedInv /\ QuietInv
<1> SUFFICES ASSUME Init PROVE OneInv /\ LockInv /\ ClosedInv /\ QuietInv
  OBVIOUS
<1>1. /\ \A t \in Clients : pc[t] = "idle"
      /\ refs # {} /\ payloads = {} /\ life = "alive" /\ ~destruction_pending
      /\ connection_lock = NoThread
  BY DEF Init
<1>2. ~Releasing /\ ~Destroying
  BY <1>1 DEF Releasing, Destroying, ReleaseLabels, DestroyLabels
<1>3. OneInv
  BY <1>1, <1>2 DEF OneInv, ReleaseLabels, DestroyLabels
<1>4. LockInv
  BY <1>1, NamesAssumption DEF LockInv, Inside, DestroyLabels
<1>5. ClosedInv /\ QuietInv
  BY <1>1 DEF ClosedInv, QuietInv
<1> QED
  BY <1>3, <1>4, <1>5

\* One thread at most finishes the component, whoever frees the pool of the
\* connection holds its lock, a port or the connection outlives the release
\* only if that went on with it, and the action thread ends first.
THEOREM Invariant == Spec => [](TypeOK /\ IInv)
<1>1. TypeOK /\ CountInv /\ OneInv /\ LockInv /\ ClosedInv /\ QuietInv /\ [Next]_vars
        => (OneInv /\ LockInv /\ ClosedInv /\ QuietInv)'
  BY OneStep, LockStep, ClosedStep, QuietStep
<1> QED
  BY TypeCorrect, IInvInit, <1>1, PTL DEF Spec, IInv

\* mmal_component_destroy_internal runs only when nobody holds a reference to
\* the component or to one of its ports.
THEOREM DestroyedUnreferenced == Spec => []DestroysUnreferenced
<1>1. IInv => DestroysUnreferenced
  BY DEF IInv, OneInv, Destroying, DestroysUnreferenced
<1> QED
  BY Invariant, <1>1, PTL

\* The component is destroyed once, when nobody refers to it and its action
\* thread has gone; and unless a port could not be disabled or disconnected,
\* every thread is out of it, no port is enabled and no peer points to one.
THEOREM FreedWhenUnused == Spec => []NoUseAfterFree
<1>1. TypeOK /\ IInv => NoUseAfterFree
  <2> SUFFICES ASSUME TypeOK, IInv PROVE NoUseAfterFree
    OBVIOUS
  <2> USE DEF IInv
  <2>1. DestroyedOnce
    BY DEF DestroyedOnce, OneInv, Destroying
  <2>2. ASSUME life = "freed"
        PROVE  refs = {} /\ payloads = {} /\ action = "none" /\ ~Releasing /\ ~Destroying
    BY <2>2 DEF OneInv, QuietInv
  <2>3. ASSUME life = "freed", ~left
        PROVE  /\ \A t \in Clients : pc[t] = "idle"
               /\ connection_lock = NoThread /\ ~open /\ connection = "none"
    <3>1. ~Closing
      BY <2>2, <2>3 DEF Releasing, Closing, ReleaseLabels
    <3>2. connection_lock = NoThread /\ ~open /\ connection = "none"
      BY <2>2, <2>3, <3>1 DEF ClosedInv
    <3>3. \A t \in Clients : pc[t] # "peer_freeing"
      BY <3>2, NamesAssumption DEF LockInv, Inside
    <3>4. \A t \in Clients : pc[t] = "idle"
      BY <2>2, <2>3, <3>3 DEF TypeOK, Labels, Releasing, ReleaseLabels, Destroying
    <3> QED
      BY <3>2, <3>4
  <2> QED
    BY <2>1, <2>2, <2>3 DEF NoUseAfterFree
<1> QED
  BY Invariant, <1>1, PTL

-----------------------------------------------------------------------------
\* A component whose enabling the core does is enabled only if every port has
\* been resumed: mmal_component_enable looks at the status of each.
THEOREM EnabledPortsRun == Spec => []EnabledRuns
<1>1. Init => EnabledRuns
  BY DEF Init, EnabledRuns
<1>2. TypeOK /\ EnabledRuns /\ [Next]_vars => EnabledRuns'
  <2> SUFFICES ASSUME TypeOK, EnabledRuns, [Next]_vars
               PROVE  EnabledRuns'
    OBVIOUS
  <2> USE DEF counts, switch, ports, act, held
  <2>1. ASSUME UNCHANGED switch PROVE EnabledRuns'
    BY <2>1 DEF EnabledRuns
  <2>2. ASSUME NEW t \in Clients, Enable(t)
        PROVE  EnabledRuns'
    <3>1. PICK n \in 0..NumPorts : /\ paused' = [p \in Ports |-> paused[p] /\ p > n]
                                   /\ is_enabled' = (n = NumPorts)
      BY <2>2 DEF Enable
    <3>2. is_enabled' => n = NumPorts
      BY <3>1, Zenon
    <3>3. n = NumPorts => \A p \in Ports : ~(p > n)
      BY BoundsAssumption DEF Ports
    <3>4. n = NumPorts => \A p \in Ports : ~paused'[p]
      BY <3>1, <3>3
    <3> QED
      BY <3>2, <3>4 DEF EnabledRuns
  <2>3. ASSUME NEW t \in Clients, Disable(t)
        PROVE  EnabledRuns'
    BY <2>3 DEF Disable, EnabledRuns
  <2>4. ASSUME NEW t \in Clients, OwnSwitch(t)
        PROVE  EnabledRuns'
    BY <2>4 DEF OwnSwitch, EnabledRuns
  <2>5. ASSUME NEW t \in Clients, ClientStep(t)
        PROVE  EnabledRuns'
    BY <2>1, <2>5
    DEF ClientStep, DisablePorts, Disconnect, FreePayload, PortRelease, FreeDone, DestroyCheck,
        ActionQuit, ActionSignal, ActionJoin, Destroy
  <2>6. ASSUME NEW t \in Clients, ClientCall(t), ~Enable(t), ~Disable(t), ~OwnSwitch(t)
        PROVE  EnabledRuns'
    BY <2>1, <2>6
    DEF ClientCall, Acquire, PayloadAlloc, Connect, EnableConnection, PeerDisconnect, PayloadFree, PortRelease,
        Release, OpenPort, Trigger
  <2>7. CASE ActionWake \/ ActionDone \/ Rest \/ UNCHANGED vars
    BY <2>1, <2>7 DEF ActionWake, ActionDone, Rest, vars
  <2> QED
    BY <2>2, <2>3, <2>4, <2>5, <2>6, <2>7 DEF Next
<1> QED
  BY TypeCorrect, <1>1, <1>2, PTL DEF Spec
=============================================================================
