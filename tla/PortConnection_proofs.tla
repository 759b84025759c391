------------------------- MODULE PortConnection_proofs -------------------------
(***************************************************************************)
(* Proofs about the connections of the core: the pool of a connection is   *)
(* destroyed only when all its buffers are back in it, or beside a port    *)
(* that could not be disabled, whatever clients use the two ends in        *)
(* whatever order and whatever fails.                                      *)
(***************************************************************************)
EXTENDS PortConnection, FiniteSetTheorems, SequenceTheorems, TLAPS

\* Where a client is while it sets up or takes down the connection.
Closes == {"locking", "draining", "failing", "waiting"}
Active == {"create", "enable_in", "enable_out", "populate", "disabling", "free"} \cup Closes

\* A client past the second lock holds the locks of both ports.  One that disables a port
\* without a peer has only its own.
Both(t) == pc[t] \in Active /\ (pc[t] \in Closes \cup {"disabling"} => then[t] = "free")
LockInv ==
  /\ \A p \in Ports : connection_lock[p] \in Clients \cup {NoThread}
  /\ \A p \in Ports : pc[p] \in {"idle", "acting", "commit"}
  /\ \A t \in Clients :
       /\ pc[t] \in Active \cup {"idle", "second", "unlock"}
       /\ pc[t] = "idle" => \A p \in Ports : connection_lock[p] # t
       /\ pc[t] # "idle" => connection_lock[end[t]] = t
       /\ pc[t] = "second" => connection_lock[Other(end[t])] # t
       /\ Both(t) => \A p \in Ports : connection_lock[p] = t
       /\ pc[t] \in Closes => todo[t] # <<>>

\* What holds of the connection at each point of a call, and between calls, unless a
\* failed disable has left the ends apart.
Quiet == /\ is_enabled["out"] = is_enabled["in"]
         /\ live = IF is_enabled["in"] THEN {pool} ELSE {}
         /\ is_enabled["in"] => connected
Left(t, p) == \E i \in 1 .. Len(todo[t]) : todo[t][i] = p
Phase(t) ==
  /\ pc[t] = "second" => op[t] \in Calls /\ ~Refused(op[t], end[t])
  /\ pc[t] \in {"create", "enable_in", "enable_out", "populate"} => op[t] = "enable"
  /\ pc[t] \in Active => connected /\ Both(t)
  /\ pc[t] = "unlock" => \A p \in Ports : connection_lock[p] = t
  /\ pc[t] = "create" => live = {}
  /\ pc[t] \in Active \ {"create"} => live = {pool}
  /\ pc[t] \in {"create", "enable_in", "free"} => \A p \in Ports : ~is_enabled[p]
  /\ pc[t] = "enable_out" => is_enabled["in"] /\ ~is_enabled["out"]
  /\ pc[t] = "populate" => \A p \in Ports : is_enabled[p]
  /\ pc[t] \in Closes \cup {"disabling"} => \A p \in Ports : ~Left(t, p) => ~is_enabled[p]
  /\ pc[t] \in Closes => ~is_enabled[Head(todo[t])]
  /\ pc[t] \in Closes \cup {"disabling"} /\ op[t] # "enable" =>
       /\ todo[t] \in {<<"out", "in">>, <<"in">>, <<>>}
       /\ todo[t] = <<"out", "in">> => is_enabled["in"]
Regular == /\ (\A t \in Clients : pc[t] \notin Active) => Quiet
           /\ \A t \in Clients : Phase(t)
PhaseInv == ~halfway => Regular

\* A buffer is in one place: in the queue of its pool, with a component or in a
\* callback.
Carrying(t) == stage[t] \notin {"none", "done"}
PlaceInv ==
  /\ \A t \in Threads : stage[t] = "none" <=> hold[t] = NoBuffer
  /\ \A t \in Threads : stage[t] = "none" => src[t] = "none"
  /\ comp["out"] \cap comp["in"] = {}
  /\ \A p \in Ports : comp[p] \cap inpool = {}
  /\ \A t \in Threads : Carrying(t) => /\ hold[t] \notin inpool
                                       /\ \A p \in Ports : hold[t] \notin comp[p]
  /\ \A t, u \in Threads : Carrying(t) /\ Carrying(u) /\ hold[t] = hold[u] => t = u
  /\ pc["out"] = "commit" => /\ hold["out"] = NoBuffer /\ EventBuffer \notin inpool
                             /\ \A p \in Ports : EventBuffer \notin comp[p]
                             /\ \A t \in Threads : Carrying(t) => hold[t] # EventBuffer

\* A callback that no port has made is that of the event, or of a buffer that could not
\* be sent to the output port.
SourceInv ==
  \A t \in Threads : Carrying(t) /\ src[t] = "none" =>
     hold[t] = EventBuffer \/ (t \in Clients /\ pc[t] = "disabling")

\* The transit count of a port is that of its component's buffers and its callbacks.
From(p) == {t \in Threads : src[t] = p}
CountInv == \A p \in Ports : /\ IsFiniteSet(comp[p])
                             /\ transit[p] = Cardinality(comp[p]) + Cardinality(From(p))

\* A disabled port has nothing in transit, unless it is just being disabled.
Closing(p) == \E t \in Clients : pc[t] \in Closes /\ Head(todo[t]) = p
CloseInv == \A p \in Ports : ~is_enabled[p] /\ ~Closing(p) => transit[p] = 0

\* The pool of a connection is allocated.
MadeInv == pool # 0 => pool \in live

IInv == /\ LockInv /\ PhaseInv /\ PlaceInv /\ SourceInv /\ CountInv /\ CloseInv
        /\ PoolOutlivesBuffers /\ NoBufferLost /\ MadeInv

-----------------------------------------------------------------------------
LEMMA NamesAre ==
  /\ Ports = {"out", "in"} /\ "none" \notin Ports
  /\ \A t \in Clients : t \in Threads /\ t \notin Ports /\ t # "out" /\ t # "in"
  /\ \A p \in Ports : /\ p \in Threads /\ p \notin Clients
                      /\ Other(p) \in Ports /\ Other(p) # p /\ \A q \in Ports : q = p \/ q = Other(p)
BY NamesAssumption DEF Ports, Threads, Other

LEMMA HeadersAre ==
  /\ \A n \in 1 .. MaxPools, c \in Buffers : <<n, c>> \in Headers /\ <<n, c>> # EventBuffer
  /\ EventBuffer \in Headers /\ NoBuffer # EventBuffer
  /\ \A n, c : <<n, c>> \in Headers /\ c \in Buffers => n \in 1 .. MaxPools
  /\ \A b \in Headers : b # NoBuffer /\ (b # EventBuffer => b[1] \in 1 .. MaxPools /\ b[2] \in Buffers /\ b = <<b[1], b[2]>>)
BY HeadersAssumption DEF Headers, EventBuffer

\* What one element more or less does to a count.
LEMMA CountIs ==
  ASSUME NEW S, IsFiniteSet(S)
  PROVE  /\ Cardinality(S) \in Nat
         /\ Cardinality(S) = 0 <=> S = {}
         /\ \A x : x \notin S => IsFiniteSet(S \cup {x}) /\ Cardinality(S \cup {x}) = Cardinality(S) + 1
         /\ \A x \in S : /\ IsFiniteSet(S \ {x})
                         /\ Cardinality(S \ {x}) = Cardinality(S) - 1 /\ Cardinality(S) > 0
<1>1. Cardinality(S) \in Nat /\ (Cardinality(S) = 0 <=> S = {})
  BY FS_CardinalityType, FS_EmptySet
<1>2. \A x : x \notin S => IsFiniteSet(S \cup {x}) /\ Cardinality(S \cup {x}) = Cardinality(S) + 1
  BY FS_AddElement
<1>3. \A x \in S : IsFiniteSet(S \ {x}) /\ Cardinality(S \ {x}) = Cardinality(S) - 1
  BY FS_RemoveElement
<1> QED
  BY <1>1, <1>2, <1>3

LEMMA FromIs == \A p : IsFiniteSet(From(p))
<1>1. IsFiniteSet({"out"}) /\ IsFiniteSet({"out"} \cup {"in"})
  BY FS_Singleton, FS_AddElement
<1>2. IsFiniteSet(Ports)
  <2>1. Ports = {"out"} \cup {"in"}
    BY DEF Ports
  <2> QED
    BY <1>1, <2>1
<1>3. IsFiniteSet(Threads)
  BY <1>2, BoundsAssumption, FS_Union DEF Threads
<1> QED
  BY <1>3, FS_Subset DEF From

\* The ports that are left once the first has been dealt with.
LEMMA TailIs ==
  ASSUME NEW s \in Seq(Ports), s # <<>>
  PROVE  /\ Head(s) \in Ports /\ Tail(s) \in Seq(Ports)
         /\ \A p : (\E i \in 1 .. Len(s) : s[i] = p)
                     <=> p = Head(s) \/ \E i \in 1 .. Len(Tail(s)) : Tail(s)[i] = p
<1>1. /\ Head(s) = s[1] /\ Head(s) \in Ports /\ Tail(s) \in Seq(Ports)
      /\ Len(Tail(s)) = Len(s) - 1 /\ \A i \in 1 .. Len(Tail(s)) : Tail(s)[i] = s[i + 1]
      /\ Len(s) \in Nat \ {0}
  BY HeadTailProperties, EmptySeq
<1> DEFINE r == Tail(s)
<1>2. Len(r) = Len(s) - 1 /\ \A i \in 1 .. Len(r) : r[i] = s[i + 1]
  BY <1>1
<1> HIDE DEF r
<1>3. ASSUME NEW i \in 1 .. Len(s) PROVE s[i] = Head(s) \/ \E j \in 1 .. Len(r) : r[j] = s[i]
  <2>1. i = 1 \/ (i - 1 \in 1 .. Len(r) /\ (i - 1) + 1 = i)
    BY <1>1, <1>2
  <2> QED
    BY <1>1, <1>2, <2>1
<1>4. ASSUME NEW j \in 1 .. Len(r) PROVE \E i \in 1 .. Len(s) : s[i] = r[j]
  <2>1. j + 1 \in 1 .. Len(s)
    BY <1>1, <1>2
  <2> QED
    BY <1>2, <2>1
<1>5. \E i \in 1 .. Len(s) : s[i] = Head(s)
  BY <1>1
<1> QED
  BY <1>1, <1>3, <1>4, <1>5 DEF r

LEMMA RefusedIs ==
  ASSUME NEW p
  PROVE  /\ Refused("connect", p) <=> connected \/ is_enabled[p]
         /\ Refused("disconnect", p) <=> ~connected
         /\ Refused("enable", p) <=> is_enabled[p] \/ ~connected
         /\ Refused("disable", p) <=> ~is_enabled[p]
BY DEF Refused

\* A client with the locks of both ports is the only one in a call.
LEMMA Alone ==
  ASSUME TypeOK, LockInv, NEW t \in Clients, \A p \in Ports : connection_lock[p] = t
  PROVE  \A u \in Clients \ {t} : pc[u] = "idle"
<1>1. \A u \in Clients : end[u] \in Ports
  BY DEF TypeOK
<1>2. ASSUME NEW u \in Clients \ {t} PROVE pc[u] = "idle"
  <2>1. connection_lock[end[u]] # u
    BY <1>1
  <2> QED
    BY <2>1 DEF LockInv
<1> QED
  BY <1>2

\* While the ends are not apart, a client past the second lock is alone.
LEMMA RegularAlone ==
  ASSUME TypeOK, LockInv, Regular, NEW t \in Clients, pc[t] \notin {"idle", "second"}
  PROVE  /\ \A p \in Ports : connection_lock[p] = t
         /\ \A u \in Clients \ {t} : pc[u] = "idle"
<1>1. Phase(t) /\ pc[t] \in Active \cup {"unlock"}
  BY DEF Regular, LockInv
<1>2. \A p \in Ports : connection_lock[p] = t
  BY <1>1 DEF Phase, LockInv
<1> QED
  BY <1>2, Alone

-----------------------------------------------------------------------------
\* What a step of the buffers leaves alone, and what a step of a call does.
LEMMA CallsSame ==
  ASSUME LockInv, PhaseInv,
         UNCHANGED <<connected, is_enabled, pool, live, connection_lock, op, end, todo, then, halfway>>,
         \A t \in Clients : pc'[t] = pc[t],
         \A p \in Ports : pc'[p] \in {"idle", "acting", "commit"}
  PROVE  LockInv' /\ PhaseInv' /\ \A p : Closing(p)' <=> Closing(p)
<1>1. LockInv'
  <2>1. \A t \in Clients : Both(t)' <=> Both(t)
    BY DEF Both
  <2> QED
    BY <2>1 DEF LockInv, Other
<1>2. \A p : Closing(p)' <=> Closing(p)
  BY DEF Closing
<1>3. Regular => ((\A t \in Clients : pc[t] \notin Active)' => Quiet')
  BY DEF Regular, Quiet
<1>4. ASSUME NEW t \in Clients, Regular PROVE Phase(t)'
  <2>1. Phase(t)
    BY <1>4 DEF Regular
  <2>2. \A o, p : Refused(o, p)' <=> Refused(o, p)
    BY DEF Refused
  <2>3. (\A p : Left(t, p)' <=> Left(t, p)) /\ (Both(t)' <=> Both(t))
    BY DEF Left, Both
  <2> QED
    BY <2>1, <2>2, <2>3 DEF Phase
<1> QED
  BY <1>1, <1>2, <1>3, <1>4 DEF PhaseInv, Regular

LEMMA FlowSame ==
  ASSUME PlaceInv, SourceInv, CountInv, UNCHANGED <<flow, callback>>,
         pc'["out"] = "commit" => pc["out"] = "commit",
         \A t \in Clients : hold[t] # NoBuffer => pc'[t] = pc[t]
  PROVE  PlaceInv' /\ SourceInv' /\ CountInv' /\ Outstanding' = Outstanding
<1>1. /\ inpool' = inpool /\ comp' = comp /\ transit' = transit
      /\ hold' = hold /\ stage' = stage /\ src' = src
  BY DEF flow, callback
<1>2. Outstanding' = Outstanding /\ (\A p : From(p)' = From(p)) /\ \A t : Carrying(t)' <=> Carrying(t)
  BY <1>1 DEF Outstanding, From, Carrying
<1>3. PlaceInv'
  BY <1>1, <1>2 DEF PlaceInv
<1>4. SourceInv'
  BY <1>1, <1>2 DEF SourceInv, PlaceInv, Carrying
<1>5. CountInv'
  BY <1>1, <1>2 DEF CountInv
<1> QED
  BY <1>2, <1>3, <1>4, <1>5

\* A step of a call that leaves the buffers and the pools alone.
LEMMA StepSame ==
  ASSUME TypeOK, IInv, UNCHANGED <<flow, callback, pool, live, abandoned>>, NEW t \in Clients,
         hold[t] = NoBuffer, \A u \in Threads \ {t} : pc'[u] = pc[u]
  PROVE  PlaceInv' /\ SourceInv' /\ CountInv' /\ PoolOutlivesBuffers' /\ NoBufferLost' /\ MadeInv'
<1>1. pc'["out"] = pc["out"] /\ \A u \in Clients : hold[u] # NoBuffer => pc'[u] = pc[u]
  BY NamesAre
<1>2. PlaceInv' /\ SourceInv' /\ CountInv' /\ Outstanding' = Outstanding
  BY <1>1, FlowSame DEF IInv
<1>3. inpool' = inpool /\ pool' = pool /\ live' = live /\ abandoned' = abandoned
  BY DEF flow
<1> QED
  BY <1>2, <1>3 DEF IInv, PoolOutlivesBuffers, NoBufferLost, MadeInv

\* A client that goes on within its call keeps the locks it has.
LEMMA LocksKept ==
  ASSUME TypeOK, IInv, NEW t \in Clients, pc[t] \in Active \cup {"unlock"},
         \A u \in Threads \ {t} : pc'[u] = pc[u],
         \A u \in Clients \ {t} : then'[u] = then[u] /\ todo'[u] = todo[u],
         UNCHANGED <<connection_lock, end>>,
         pc'[t] \in Active \cup {"unlock"}, Both(t)' => Both(t),
         pc'[t] \in Closes => todo'[t] # <<>>
  PROVE  LockInv'
<1>1. LockInv /\ pc[t] \notin {"idle", "second"} /\ pc'[t] \notin {"idle", "second"}
  BY DEF IInv, Active, Closes
<1>2. \A p \in Ports : pc'[p] = pc[p]
  BY NamesAre
<1>3. \A u \in Clients \ {t} : /\ pc'[u] = pc[u] /\ then'[u] = then[u] /\ todo'[u] = todo[u]
                                /\ Both(u)' <=> Both(u)
  BY NamesAre DEF Both
<1>4. \A u \in Clients \ {t} :
       /\ pc'[u] \in Active \cup {"idle", "second", "unlock"}
       /\ pc'[u] = "idle" => \A p \in Ports : connection_lock'[p] # u
       /\ pc'[u] # "idle" => connection_lock'[end'[u]] = u
       /\ pc'[u] = "second" => connection_lock'[Other(end'[u])] # u
       /\ Both(u)' => \A p \in Ports : connection_lock'[p] = u
       /\ pc'[u] \in Closes => todo'[u] # <<>>
  <2> SUFFICES ASSUME NEW u \in Clients \ {t}
               PROVE  /\ pc'[u] \in Active \cup {"idle", "second", "unlock"}
                      /\ pc'[u] = "idle" => \A p \in Ports : connection_lock'[p] # u
                      /\ pc'[u] # "idle" => connection_lock'[end'[u]] = u
                      /\ pc'[u] = "second" => connection_lock'[Other(end'[u])] # u
                      /\ Both(u)' => \A p \in Ports : connection_lock'[p] = u
                      /\ pc'[u] \in Closes => todo'[u] # <<>>
    OBVIOUS
  <2>1. connection_lock' = connection_lock /\ end' = end
    OBVIOUS
  <2>2. /\ pc'[u] = pc[u] /\ then'[u] = then[u] /\ todo'[u] = todo[u]
        /\ Both(u)' <=> Both(u)
    <3>1. pc'[u] = pc[u] /\ then'[u] = then[u] /\ todo'[u] = todo[u]
      BY NamesAre
    <3> QED
      BY <3>1 DEF Both
  <2>3. /\ pc[u] \in Active \cup {"idle", "second", "unlock"}
        /\ pc[u] = "idle" => \A p \in Ports : connection_lock[p] # u
        /\ pc[u] # "idle" => connection_lock[end[u]] = u
        /\ pc[u] = "second" => connection_lock[Other(end[u])] # u
        /\ Both(u) => \A p \in Ports : connection_lock[p] = u
        /\ pc[u] \in Closes => todo[u] # <<>>
    BY <1>1 DEF LockInv
  <2> QED
    BY <2>1, <2>2, <2>3
<1>5. /\ connection_lock'[end'[t]] = t
      /\ Both(t)' => \A p \in Ports : connection_lock'[p] = t
  BY <1>1 DEF LockInv
<1> QED
  BY <1>1, <1>2, <1>4, <1>5 DEF LockInv, Other

\* What is left to show of a step within a call while the ends are not apart.
LEMMA PhaseAlone ==
  ASSUME TypeOK, IInv, NEW t \in Clients, pc[t] \in Active \cup {"unlock"},
         \A u \in Threads \ {t} : pc'[u] = pc[u],
         halfway' = halfway,
         Regular /\ (\A u \in Clients \ {t} : pc[u] = "idle") =>
           Phase(t)' /\ (pc'[t] \notin Active => Quiet')
  PROVE  PhaseInv'
<1> SUFFICES ASSUME ~halfway PROVE Regular'
  BY DEF PhaseInv
<1>1. Regular /\ LockInv /\ pc[t] \notin {"idle", "second"}
  BY DEF IInv, PhaseInv, Active, Closes
<1>2. \A u \in Clients \ {t} : pc[u] = "idle"
  BY <1>1, RegularAlone
<1>3. Phase(t)' /\ (pc'[t] \notin Active => Quiet')
  BY <1>1, <1>2
<1>4. \A u \in Clients \ {t} : pc'[u] = "idle"
  BY <1>2, NamesAre
<1>5. \A u \in Clients \ {t} : Phase(u)'
  BY <1>4 DEF Phase, Active, Closes
<1> QED
  BY <1>3, <1>5 DEF Regular

\* A client that does not close a port leaves the closed ports as they are.
LEMMA ClosingSame ==
  ASSUME NEW t \in Clients, pc[t] \notin Closes, pc'[t] \notin Closes,
         \A u \in Threads \ {t} : pc'[u] = pc[u], \A u \in Clients \ {t} : todo'[u] = todo[u]
  PROVE  \A p : Closing(p)' <=> Closing(p)
<1>1. \A u \in Clients \ {t} : pc'[u] = pc[u] /\ todo'[u] = todo[u]
  BY NamesAre
<1> QED
  BY <1>1 DEF Closing

-----------------------------------------------------------------------------
\* The steps of a call that leave the buffers alone.
LEMMA BeginNext ==
  ASSUME TypeOK, IInv, NEW t \in Clients, NEW o \in Calls, NEW p \in Ports, Begin(t, o, p)
  PROVE  TypeOK' /\ IInv'
<1>1. /\ pc[t] = "idle" /\ hold[t] = NoBuffer /\ calls[t] > 0 /\ connection_lock[p] = NoThread
      /\ calls' = [calls EXCEPT ![t] = @ - 1]
      /\ UNCHANGED <<setup, pool_cb, flow, lock, action_mutex, callback, history>>
  BY DEF Begin, At, Spend
<1>2. calls' \in [Threads -> Nat]
  BY <1>1, NamesAre DEF TypeOK
<1>3. ~halfway => \A u \in Clients : pc[u] \in {"idle", "second"}
  <2>1. \A u \in Clients : ~\A q \in Ports : connection_lock[q] = u
    BY <1>1, NamesAre, NamesAssumption
  <2> QED
    BY <2>1, RegularAlone DEF IInv, PhaseInv
<1>5. CASE Refused(o, p)
  <2>1. UNCHANGED <<connection_lock, client, pc>>
    BY <1>5 DEF Begin
  <2>2. TypeOK'
    BY <1>1, <1>2, <2>1 DEF TypeOK, history, setup, flow, client, callback
  <2>3. LockInv' /\ PhaseInv' /\ \A q : Closing(q)' <=> Closing(q)
    BY <1>1, <2>1, CallsSame DEF IInv, LockInv, setup, client, history
  <2>4. PlaceInv' /\ SourceInv' /\ CountInv' /\ PoolOutlivesBuffers' /\ NoBufferLost' /\ MadeInv'
    BY <1>1, <2>1, StepSame DEF setup, history
  <2>5. CloseInv'
    BY <1>1, <2>3 DEF IInv, CloseInv, setup, flow
  <2> QED
    BY <2>2, <2>3, <2>4, <2>5 DEF IInv
<1>6. CASE ~Refused(o, p)
  <2>1. /\ connection_lock' = [connection_lock EXCEPT ![p] = t]
        /\ op' = [op EXCEPT ![t] = o]
        /\ end' = [end EXCEPT ![t] = p]
        /\ populated' = [populated EXCEPT ![t] = 0]
        /\ \/ /\ o = "disable" /\ ~connected
              /\ Disabling(t, <<p>>, "unlock")
           \/ /\ ~(o = "disable" /\ ~connected)
              /\ pc' = [pc EXCEPT ![t] = "second"] /\ todo' = todo /\ then' = then
    BY <1>6 DEF Begin, Goto
  <2>2. PICK l \in {"second", "disabling"} :
          /\ pc' = [pc EXCEPT ![t] = l] /\ pc'[t] = l
          /\ l = "second" => todo' = todo /\ then' = then
          /\ l = "disabling" => then' = [then EXCEPT ![t] = "unlock"]
          /\ l = "disabling" => todo' = [todo EXCEPT ![t] = <<p>>] /\ ~connected /\ o = "disable"
    BY <2>1, NamesAre DEF Disabling, Goto, TypeOK
  <2>3. /\ pc' \in [Threads -> {"idle", "second", "unlock", "create",
                       "enable_in", "enable_out", "populate", "disabling",
                       "locking", "draining", "failing", "waiting", "free",
                       "acting", "commit"}]
        /\ todo' \in [Clients -> Seq(Ports)]
        /\ then' \in [Clients -> {"unlock", "free"}]
    <3>1. <<p>> \in Seq(Ports)
      OBVIOUS
    <3>2. todo' \in [Clients -> Seq(Ports)]
      BY <2>2, <3>1 DEF TypeOK
    <3>3. then' \in [Clients -> {"unlock", "free"}]
      BY <2>2 DEF TypeOK
    <3>4. pc' \in [Threads -> {"idle", "second", "unlock", "create",
                       "enable_in", "enable_out", "populate", "disabling",
                       "locking", "draining", "failing", "waiting", "free",
                       "acting", "commit"}]
      BY <2>2 DEF TypeOK
    <3> QED
      BY <3>2, <3>3, <3>4
  <2>4. TypeOK'
    <3>1. 0 \in 0 .. Cardinality(Buffers)
      BY BoundsAssumption, FS_CardinalityType
    <3>2. connection_lock' \in [Ports -> Threads \cup {NoThread}]
      BY <2>1, NamesAre DEF TypeOK
    <3> QED
      BY <1>1, <1>2, <2>1, <2>3, <3>1, <3>2 DEF TypeOK, history, setup, flow, callback
  <2>5. /\ op'[t] = o /\ end'[t] = p /\ t \in Threads
        /\ \A u \in Threads \ {t} : pc'[u] = pc[u]
        /\ \A u \in Clients \ {t} : op'[u] = op[u] /\ end'[u] = end[u]
        /\ \A u \in Clients \ {t} : then'[u] = then[u] /\ todo'[u] = todo[u]
        /\ connection_lock'[p] = t /\ connection_lock'[Other(p)] = connection_lock[Other(p)]
    <3>1. \A u \in Clients \ {t} : then'[u] = then[u] /\ todo'[u] = todo[u]
      BY <2>2 DEF TypeOK
    <3> QED
      BY <2>1, <2>2, <3>1, NamesAre DEF TypeOK
  <2>6. LockInv'
    <3>1. connection_lock[Other(p)] # t
      BY <1>1, NamesAre DEF IInv, LockInv
    <3>2. \A q \in Ports : pc'[q] \in {"idle", "acting", "commit"}
      BY <2>5, NamesAre DEF IInv, LockInv
    <3>3. \A q \in Ports : connection_lock'[q] \in Clients \cup {NoThread}
      BY <2>1 DEF IInv, LockInv, TypeOK
    <3>4. ASSUME NEW u \in Clients \ {t}
          PROVE  /\ pc'[u] \in Active \cup {"idle", "second", "unlock"}
                 /\ pc'[u] = "idle" => \A q \in Ports : connection_lock'[q] # u
                 /\ pc'[u] # "idle" => connection_lock'[end'[u]] = u
                 /\ pc'[u] = "second" => connection_lock'[Other(end'[u])] # u
                 /\ Both(u)' => \A q \in Ports : connection_lock'[q] = u
                 /\ pc'[u] \in Closes => todo'[u] # <<>>
      <4>1. /\ pc[u] \in Active \cup {"idle", "second", "unlock"}
            /\ pc[u] = "idle" => \A q \in Ports : connection_lock[q] # u
            /\ pc[u] # "idle" => connection_lock[end[u]] = u
            /\ pc[u] = "second" => connection_lock[Other(end[u])] # u
            /\ Both(u) => \A q \in Ports : connection_lock[q] = u
            /\ pc[u] \in Closes => todo[u] # <<>>
        BY DEF IInv, LockInv
      <4>2. u \in Threads /\ u # NoThread /\ end[u] \in Ports
        BY NamesAre, NamesAssumption DEF TypeOK
      <4>3. pc'[u] = pc[u] /\ end'[u] = end[u] /\ todo'[u] = todo[u] /\ (Both(u)' <=> Both(u))
        BY <2>5, <4>2 DEF Both
      <4>4. \A q \in Ports : /\ connection_lock'[q] = u => connection_lock[q] = u
                             /\ connection_lock[q] = u => connection_lock'[q] = u
        BY <1>1, <2>5, <4>2, NamesAre
      <4> QED
        BY <4>1, <4>2, <4>3, <4>4, NamesAre
    <3>5. /\ pc'[t] \in {"second", "disabling"} /\ ~Both(t)'
          /\ connection_lock'[end'[t]] = t /\ connection_lock'[Other(end'[t])] # t
      <4>1. pc'[t] = "disabling" => then'[t] = "unlock"
        BY <2>2 DEF TypeOK
      <4> QED
        BY <2>2, <2>5, <3>1, <4>1 DEF Both, Active, Closes
    <3> QED
      BY <3>2, <3>3, <3>4, <3>5 DEF LockInv, Other, Active, Closes
  <2>7. PhaseInv'
    <3> SUFFICES ASSUME ~halfway PROVE Regular'
      BY <1>1 DEF PhaseInv, history
    <3>1. Regular /\ Quiet
      BY <1>3 DEF IInv, PhaseInv, Regular, Active, Closes
    <3>2. ~(o = "disable" /\ ~connected)
      BY <1>6, <3>1, RefusedIs DEF Quiet, Ports
    <3>3. l = "second"
      BY <2>2, <3>2
    <3>4. \A u \in Clients : pc'[u] \in {"idle", "second"}
      BY <1>3, <2>2, <2>5, <3>3, NamesAre
    <3>5. Quiet'
      BY <1>1, <3>1 DEF Quiet, setup
    <3>6. \A a, q : Refused(a, q)' <=> Refused(a, q)
      BY <1>1 DEF Refused, setup
    <3>7. ASSUME NEW u \in Clients, pc'[u] = "second"
          PROVE  op'[u] \in Calls /\ ~Refused(op[u], end[u])'
      <4>1. PICK a, q : a = op'[u] /\ q = end'[u]
        OBVIOUS
      <4>2. a \in Calls /\ ~Refused(a, q)
        <5>1. CASE u = t
          BY <1>6, <2>5, <4>1, <5>1
        <5>2. CASE u # t
          <6>1. pc[u] = "second" /\ a = op[u] /\ q = end[u]
            BY <2>5, <3>7, <4>1, <5>2, NamesAre
          <6> QED
            BY <3>1, <6>1 DEF Regular, Phase
        <5> QED
          BY <5>1, <5>2
      <4>3. ~Refused(a, q)'
        BY <3>6, <4>2
      <4> QED
        BY <4>1, <4>2, <4>3 DEF Refused
    <3> QED
      BY <3>4, <3>5, <3>7 DEF Regular, Phase, Active, Closes
  <2>8. PlaceInv' /\ SourceInv' /\ CountInv' /\ PoolOutlivesBuffers' /\ NoBufferLost' /\ MadeInv'
    BY <1>1, <2>5, StepSame DEF setup, history
  <2>9. CloseInv'
    <3>1. \A q : Closing(q)' <=> Closing(q)
      BY <1>1, <2>2, <2>5, ClosingSame DEF Closes
    <3> QED
      BY <1>1, <3>1 DEF IInv, CloseInv, setup, flow
  <2> QED
    BY <2>4, <2>6, <2>7, <2>8, <2>9 DEF IInv
<1> QED
  BY <1>5, <1>6

LEMMA SecondNext ==
  ASSUME TypeOK, IInv, NEW t \in Clients, LockSecond(t)
  PROVE  TypeOK' /\ IInv'
<1> DEFINE p == end[t]
<1>1. /\ pc[t] = "second" /\ hold[t] = NoBuffer /\ connection_lock[Other(p)] = NoThread
      /\ connection_lock' = [connection_lock EXCEPT ![Other(p)] = t]
      /\ UNCHANGED <<is_enabled, pool, live, out_cb, pool_cb, flow, lock,
                     action_mutex, op, end, populated, callback, calls, history>>
  BY DEF LockSecond, At
<1>2. \/ /\ op[t] = "connect"
         /\ connected' = ~is_enabled[Other(p)]
         /\ Goto(t, "unlock") /\ UNCHANGED <<todo, then>>
      \/ /\ op[t] = "disconnect" /\ ~is_enabled[p]
         /\ connected' = FALSE
         /\ Goto(t, "unlock") /\ UNCHANGED <<todo, then>>
      \/ /\ op[t] = "disable" \/ (op[t] = "disconnect" /\ is_enabled[p])
         /\ Disabling(t, <<"out", "in">>, "free") /\ UNCHANGED connected
      \/ /\ op[t] = "enable"
         /\ Goto(t, "create") /\ UNCHANGED <<connected, todo, then>>
  BY DEF LockSecond
<1>3. p \in Ports /\ Other(p) \in Ports /\ Other(p) # p /\ \A q \in Ports : q = p \/ q = Other(p)
  BY NamesAre DEF TypeOK
<1> HIDE DEF p
<1>4. \A q \in Ports : connection_lock'[q] = t
  BY <1>1, <1>3 DEF IInv, LockInv, TypeOK, p
<1>5. \A u \in Clients \ {t} : pc[u] = "idle"
  <2>1. \A q \in Ports : connection_lock[q] \in {t, NoThread}
    BY <1>1, <1>3 DEF IInv, LockInv, p
  <2>2. ASSUME NEW u \in Clients \ {t} PROVE pc[u] = "idle"
    <3>1. end[u] \in Ports /\ u \notin {t, NoThread}
      BY NamesAre, NamesAssumption DEF TypeOK
    <3>2. \A q \in Ports : connection_lock[q] # u
      BY <2>1, <3>1
    <3> QED
      BY <1>3, <3>1, <3>2 DEF IInv, LockInv
  <2> QED
    BY <2>2
<1>6. (Regular => Quiet) /\ \A q : ~Closing(q)
  BY <1>1, <1>5 DEF Regular, Active, Closing, Closes
<1>7. Regular => /\ op[t] = "connect" => ~is_enabled[p] /\ ~connected
                 /\ op[t] = "disconnect" => connected
                 /\ op[t] = "enable" => ~is_enabled[p] /\ connected
                 /\ op[t] = "disable" => is_enabled[p]
  <2> SUFFICES ASSUME Regular
               PROVE  /\ op[t] = "connect" => ~is_enabled[p] /\ ~connected
                      /\ op[t] = "disconnect" => connected
                      /\ op[t] = "enable" => ~is_enabled[p] /\ connected
                      /\ op[t] = "disable" => is_enabled[p]
    OBVIOUS
  <2>1. Phase(t)
    BY DEF Regular
  <2>2. ~Refused(op[t], p)
    BY <1>1, <2>1 DEF Phase, p
  <2> QED
    BY <2>2 DEF Refused
<1>8. /\ pc' = [pc EXCEPT ![t] = pc'[t]] /\ pc'[t] \in {"unlock", "disabling", "create"}
      /\ \A u \in Threads \ {t} : pc'[u] = pc[u]
      /\ connected' \in BOOLEAN /\ todo' \in [Clients -> Seq(Ports)]
      /\ then' \in [Clients -> {"unlock", "free"}]
  <2>1. <<"out", "in">> \in Seq(Ports)
    BY DEF Ports
  <2>2. PICK l \in {"unlock", "disabling", "create"} : pc' = [pc EXCEPT ![t] = l]
    BY <1>2 DEF Goto, Disabling
  <2>3. pc'[t] = l /\ \A u \in Threads \ {t} : pc'[u] = pc[u]
    BY <2>2, NamesAre DEF TypeOK
  <2>4. (todo' = todo /\ then' = then) \/ Disabling(t, <<"out", "in">>, "free")
    BY <1>2
  <2>5. todo' \in [Clients -> Seq(Ports)] /\ then' \in [Clients -> {"unlock", "free"}]
    BY <2>1, <2>4 DEF TypeOK, Disabling
  <2>6. connected' \in BOOLEAN
    <3>1. connected' = connected \/ connected' = FALSE \/ connected' = ~is_enabled[Other(p)]
      BY <1>2
    <3> QED
      BY <1>3, <3>1 DEF TypeOK
  <2> QED
    BY <2>2, <2>3, <2>5, <2>6
<1>9. TypeOK'
  <2>1. pc' \in [Threads -> {"idle", "second", "unlock", "create",
                       "enable_in", "enable_out", "populate", "disabling",
                       "locking", "draining", "failing", "waiting", "free",
                       "acting", "commit"}]
    BY <1>8 DEF TypeOK
  <2>2. connection_lock' \in [Ports -> Threads \cup {NoThread}]
    BY <1>1, NamesAre DEF TypeOK
  <2> QED
    BY <1>1, <1>8, <2>1, <2>2 DEF TypeOK, history, flow, callback
<1>10. LockInv'
  <2>1. \A q \in Ports : pc'[q] \in {"idle", "acting", "commit"}
    BY <1>8, NamesAre DEF IInv, LockInv
  <2>2. \A u \in Clients \ {t} : pc'[u] = "idle" /\ \A q \in Ports : connection_lock'[q] # u
    BY <1>4, <1>5, <1>8, NamesAre
  <2>3. /\ pc'[t] \notin Closes \cup {"idle", "second"} /\ pc'[t] \in Active \cup {"unlock"}
        /\ connection_lock'[end'[t]] = t
    BY <1>1, <1>3, <1>4, <1>8 DEF Active, Closes, p
  <2>4. \A u \in Clients \ {t} : ~Both(u)' /\ pc'[u] \notin Closes \cup {"second"}
    BY <2>2 DEF Both, Active, Closes
  <2>5. \A q \in Ports : connection_lock'[q] \in Clients \cup {NoThread}
    BY <1>4
  <2> QED
    BY <1>4, <2>1, <2>2, <2>3, <2>4, <2>5 DEF LockInv
<1>11. PhaseInv'
  <2> SUFFICES ASSUME ~halfway PROVE Regular'
    BY <1>1 DEF PhaseInv, history
  <2>1. \A u \in Clients \ {t} : pc'[u] = "idle" /\ Phase(u)'
    <3>1. \A u \in Clients \ {t} : pc'[u] = "idle"
      BY <1>5, <1>8, NamesAre
    <3> QED
      BY <3>1 DEF Phase, Active, Closes
  <2> Regular
    BY DEF IInv, PhaseInv
  <2>2. \A q \in Ports : is_enabled[q] = is_enabled["in"]
    BY <1>6 DEF Quiet, Ports
  <2>3. CASE op[t] = "connect" /\ connected' = ~is_enabled[Other(p)] /\ Goto(t, "unlock")
    <3>1. pc'[t] = "unlock"
      BY <2>3, NamesAre DEF Goto, TypeOK
    <3>2. Phase(t)'
      BY <1>4, <3>1 DEF Phase, Active, Closes
    <3>3. Quiet'
      BY <1>1, <1>3, <1>6, <1>7, <2>2, <2>3 DEF Quiet
    <3> QED
      BY <2>1, <3>2, <3>3 DEF Regular
  <2>4. CASE op[t] = "disconnect" /\ ~is_enabled[p] /\ connected' = FALSE /\ Goto(t, "unlock")
    <3>1. pc'[t] = "unlock"
      BY <2>4, NamesAre DEF Goto, TypeOK
    <3>2. Phase(t)'
      BY <1>4, <3>1 DEF Phase, Active, Closes
    <3>3. Quiet'
      BY <1>1, <1>3, <1>6, <2>2, <2>4 DEF Quiet
    <3> QED
      BY <2>1, <3>2, <3>3 DEF Regular
  <2>5. CASE /\ op[t] = "disable" \/ (op[t] = "disconnect" /\ is_enabled[p])
             /\ Disabling(t, <<"out", "in">>, "free")
    <3>1. pc'[t] = "disabling" /\ todo'[t] = <<"out", "in">> /\ then'[t] = "free"
      BY <2>5, NamesAre DEF Disabling, Goto, TypeOK
    <3>2. \A q \in Ports : Left(t, q)'
      <4>1. Len(todo'[t]) = 2 /\ todo'[t][1] = "out" /\ todo'[t][2] = "in"
        BY <3>1
      <4> QED
        BY <4>1, NamesAre DEF Left
    <3>3. live' = {pool'} /\ connected' /\ is_enabled'["in"]
      <4>1. connected' = connected
        BY <1>2, <2>5
      <4>2. is_enabled[p] /\ Quiet
        BY <1>6, <1>7, <2>2, <2>5
      <4>3. is_enabled["in"] = TRUE
        BY <1>3, <4>2, NamesAre DEF Quiet, TypeOK
      <4>4. live = {pool} /\ connected
        BY <4>2, <4>3 DEF Quiet
      <4> QED
        BY <1>1, <4>1, <4>3, <4>4
    <3>4. Phase(t)'
      BY <3>1, <3>2, <3>3 DEF Phase, Active, Closes, Both
    <3> QED
      BY <2>1, <3>1, <3>4 DEF Regular, Active
  <2>6. CASE op[t] = "enable" /\ Goto(t, "create") /\ connected' = connected
    <3>1. pc'[t] = "create"
      BY <2>6, NamesAre DEF Goto, TypeOK
    <3>2. live' = {} /\ connected' /\ op'[t] = "enable" /\ \A q \in Ports : ~is_enabled'[q]
      BY <1>1, <1>3, <1>6, <1>7, <2>2, <2>6 DEF Quiet
    <3>3. Phase(t)'
      BY <3>1, <3>2 DEF Phase, Active, Closes, Both
    <3> QED
      BY <2>1, <3>1, <3>3 DEF Regular, Active
  <2> QED
    BY <1>2, <2>3, <2>4, <2>5, <2>6
<1>12. PlaceInv' /\ SourceInv' /\ CountInv' /\ PoolOutlivesBuffers' /\ NoBufferLost' /\ MadeInv'
  BY <1>1, <1>8, StepSame DEF history
<1>13. CloseInv'
  BY <1>1, <1>6 DEF IInv, CloseInv, flow
<1> QED
  BY <1>9, <1>10, <1>11, <1>12, <1>13 DEF IInv

LEMMA UnlockNext ==
  ASSUME TypeOK, IInv, NEW t \in Clients, Unlock(t)
  PROVE  TypeOK' /\ IInv'
<1>1. /\ pc[t] = "unlock" /\ hold[t] = NoBuffer
      /\ connection_lock' = [p \in Ports |-> IF connection_lock[p] = t THEN NoThread
                                             ELSE connection_lock[p]]
      /\ pc' = [pc EXCEPT ![t] = "idle"]
      /\ UNCHANGED <<setup, pool_cb, flow, lock, action_mutex, client, callback, calls, history>>
  BY DEF Unlock, At, Goto
<1>2. pc'[t] = "idle" /\ \A u \in Threads \ {t} : pc'[u] = pc[u]
  BY <1>1, NamesAre DEF TypeOK
<1>3. TypeOK'
  <2>1. connection_lock' \in [Ports -> Threads \cup {NoThread}]
    BY <1>1 DEF TypeOK
  <2> QED
    BY <1>1, <2>1, NamesAre DEF TypeOK, history, setup, flow, client, callback
<1>4. LockInv'
  <2>1. \A q \in Ports : pc'[q] \in {"idle", "acting", "commit"}
    BY <1>2, NamesAre DEF IInv, LockInv
  <2>2. \A u \in Clients : u # NoThread
    BY NamesAssumption, NamesAre
  <2>3. \A u \in Clients \ {t} : \A q \in Ports : connection_lock'[q] = u <=> connection_lock[q] = u
    BY <1>1, <2>2
  <2>4. \A u \in Clients \ {t} : pc'[u] = pc[u] /\ (Both(u)' <=> Both(u)) /\ end'[u] = end[u] /\ todo'[u] = todo[u]
    BY <1>1, <1>2, NamesAre DEF Both, client
  <2>5. \A q \in Ports : connection_lock'[q] # t /\ connection_lock'[q] \in Clients \cup {NoThread}
    BY <1>1, <2>2 DEF IInv, LockInv
  <2>6. \A u \in Clients : end[u] \in Ports /\ Other(end[u]) \in Ports
    BY NamesAre DEF TypeOK
  <2>7. ASSUME NEW u \in Clients \ {t}
        PROVE  /\ pc'[u] \in Active \cup {"idle", "second", "unlock"}
               /\ pc'[u] = "idle" => \A q \in Ports : connection_lock'[q] # u
               /\ pc'[u] # "idle" => connection_lock'[end'[u]] = u
               /\ pc'[u] = "second" => connection_lock'[Other(end'[u])] # u
               /\ Both(u)' => \A q \in Ports : connection_lock'[q] = u
               /\ pc'[u] \in Closes => todo'[u] # <<>>
    BY <2>3, <2>4, <2>6 DEF IInv, LockInv
  <2>8. ~Both(t)' /\ pc'[t] \notin Closes
    BY <1>2 DEF Both, Active, Closes
  <2> QED
    BY <1>2, <2>1, <2>5, <2>7, <2>8 DEF LockInv, Other
<1>5. PhaseInv'
  <2> SUFFICES ASSUME ~halfway PROVE Regular'
    BY <1>1 DEF PhaseInv, history
  <2>1. Regular
    BY DEF IInv, PhaseInv
  <2>2. \A u \in Clients \ {t} : pc[u] = "idle"
    BY <1>1, <2>1, RegularAlone DEF IInv
  <2>3. \A u \in Clients : pc'[u] = "idle"
    BY <1>2, <2>2, NamesAre
  <2>4. Quiet
    BY <1>1, <2>1, <2>2 DEF Regular, Active, Closes
  <2>5. Quiet'
    BY <1>1, <2>4 DEF Quiet, setup
  <2> QED
    BY <2>3, <2>5 DEF Regular, Phase, Active, Closes
<1>6. PlaceInv' /\ SourceInv' /\ CountInv' /\ PoolOutlivesBuffers' /\ NoBufferLost' /\ MadeInv'
  BY <1>1, <1>2, StepSame DEF setup, history
<1>7. CloseInv'
  <2>1. \A p : Closing(p)' <=> Closing(p)
    BY <1>1, <1>2, ClosingSame DEF Closes, client
  <2> QED
    BY <1>1, <2>1 DEF IInv, CloseInv, setup, flow
<1> QED
  BY <1>3, <1>4, <1>5, <1>6, <1>7 DEF IInv

\* The error path of an enable leaves both ports to be disabled.
LEMMA ErrorIs ==
  ASSUME TypeOK, NEW t \in Clients, EnableError(t)
  PROVE  /\ todo' \in [Clients -> Seq(Ports)] /\ then' \in [Clients -> {"unlock", "free"}]
         /\ pc' = [pc EXCEPT ![t] = "disabling"] /\ pc'[t] = "disabling"
         /\ then'[t] = "free" /\ \A q \in Ports : Left(t, q)'
<1>1. PICK e \in Ports : e = end[t]
  BY DEF TypeOK
<1>2. <<Other(e), e>> \in Seq(Ports) /\ \A q \in Ports : q = e \/ q = Other(e)
  BY NamesAre
<1>3. /\ todo' = [todo EXCEPT ![t] = <<Other(e), e>>]
      /\ then' = [then EXCEPT ![t] = "free"]
      /\ pc' = [pc EXCEPT ![t] = "disabling"]
  BY <1>1 DEF EnableError, Disabling, Goto
<1>4. todo'[t] = <<Other(e), e>>
  BY <1>3 DEF TypeOK
<1>5. \A q \in Ports : Left(t, q)'
  <2>1. Len(todo'[t]) = 2 /\ todo'[t][1] = Other(e) /\ todo'[t][2] = e
    BY <1>4
  <2> QED
    BY <1>2, <2>1 DEF Left
<1>6. todo' \in [Clients -> Seq(Ports)] /\ then' \in [Clients -> {"unlock", "free"}]
  BY <1>2, <1>3 DEF TypeOK
<1> QED
  BY <1>3, <1>5, <1>6, NamesAre DEF TypeOK

LEMMA EnableNext ==
  ASSUME TypeOK, IInv, NEW t \in Clients, EnableIn(t) \/ EnableOut(t)
  PROVE  TypeOK' /\ IInv'
<1>1. PICK p \in Ports, l \in {"enable_in", "enable_out"}, n \in {"enable_out", "populate"} :
        /\ EnablePort(t, p, l, n)
        /\ \/ p = "in" /\ l = "enable_in" /\ n = "enable_out"
           \/ p = "out" /\ l = "enable_out" /\ n = "populate"
  BY DEF EnableIn, EnableOut, Ports
<1>2. /\ pc[t] = l /\ hold[t] = NoBuffer /\ t \in Threads
      /\ out_cb' = (out_cb \/ p = "out")
      /\ UNCHANGED <<connected, pool, live, pool_cb, flow, locks, op, end,
                     populated, callback, calls, history>>
  BY <1>1, NamesAre DEF EnablePort, At
<1>3. \/ /\ is_enabled' = [is_enabled EXCEPT ![p] = TRUE]
         /\ Goto(t, n) /\ UNCHANGED <<todo, then>>
      \/ /\ ~is_enabled[p] /\ EnableError(t) /\ UNCHANGED is_enabled
  BY <1>1 DEF EnablePort
<1>4. pc' = [pc EXCEPT ![t] = pc'[t]] /\ pc'[t] \in {"enable_out", "populate", "disabling"}
  <2>1. PICK m \in {n, "disabling"} : pc' = [pc EXCEPT ![t] = m]
    BY <1>3, ErrorIs DEF Goto
  <2>2. pc'[t] = m
    BY <1>2, <2>1 DEF TypeOK
  <2> QED
    BY <2>1, <2>2
<1>5. TypeOK'
  <2>1. todo' \in [Clients -> Seq(Ports)] /\ then' \in [Clients -> {"unlock", "free"}]
    BY <1>3, ErrorIs DEF TypeOK
  <2>2. is_enabled' \in [Ports -> BOOLEAN] /\ out_cb' \in BOOLEAN
    BY <1>2, <1>3 DEF TypeOK
  <2>3. pc' \in [Threads -> {"idle", "second", "unlock", "create",
                       "enable_in", "enable_out", "populate", "disabling",
                       "locking", "draining", "failing", "waiting", "free",
                       "acting", "commit"}]
    BY <1>4 DEF TypeOK
  <2> QED
    BY <1>2, <2>1, <2>2, <2>3 DEF TypeOK, history, flow, locks, callback
<1>6. \A u \in Threads \ {t} : pc'[u] = pc[u]
  BY <1>4 DEF TypeOK
<1>7. LockInv'
  <2>1. l \in Active /\ pc'[t] \in Active /\ pc'[t] \notin Closes /\ Both(t)
    BY <1>2, <1>4 DEF Active, Closes, Both
  <2>2. \A u \in Clients \ {t} : then'[u] = then[u] /\ todo'[u] = todo[u]
    BY <1>3 DEF EnableError, Disabling, TypeOK
  <2> QED
    BY <1>2, <1>6, <2>1, <2>2, LocksKept DEF locks
<1>8. ASSUME Regular PROVE Phase(t)
  BY <1>8 DEF Regular
<1>9. PhaseInv'
  <2> SUFFICES ASSUME Regular PROVE Phase(t)' /\ pc'[t] \in Active
    <3>1. pc[t] \in Active \cup {"unlock"}
      BY <1>2 DEF Active
    <3> QED
      BY <1>2, <1>6, <3>1, PhaseAlone DEF history
  <2>1. /\ connected /\ op[t] = "enable" /\ live = {pool}
        /\ l = "enable_in" => ~is_enabled["in"] /\ ~is_enabled["out"]
        /\ l = "enable_out" => is_enabled["in"] /\ ~is_enabled["out"]
    BY <1>2, <1>8, NamesAre DEF Phase, Active
  <2>2. Phase(t)'
    <3>1. CASE is_enabled' = [is_enabled EXCEPT ![p] = TRUE] /\ Goto(t, n)
      <4>1. pc'[t] = n
        BY <1>2, <3>1 DEF Goto, TypeOK
      <4>2. /\ is_enabled'[p]
            /\ \A q \in Ports : q # p => is_enabled'[q] = is_enabled[q]
        BY <3>1 DEF TypeOK
      <4>3. CASE p = "in"
        BY <1>1, <1>2, <2>1, <4>1, <4>2, <4>3, NamesAre DEF Phase, Active, Closes, Both
      <4>4. CASE p = "out"
        <5>1. \A q \in Ports : is_enabled'[q]
          BY <1>1, <2>1, <4>2, <4>4, NamesAre
        <5> QED
          BY <1>1, <1>2, <2>1, <4>1, <4>4, <5>1, NamesAre DEF Phase, Active, Closes, Both
      <4> QED
        BY <1>1, <4>3, <4>4
    <3>2. CASE EnableError(t)
      <4>1. pc'[t] = "disabling" /\ then'[t] = "free" /\ \A q \in Ports : Left(t, q)'
        BY <3>2, ErrorIs
      <4> QED
        BY <1>2, <2>1, <4>1 DEF Phase, Active, Closes, Both
    <3> QED
      BY <1>3, <3>1, <3>2
  <2> QED
    BY <1>4, <2>2 DEF Active
<1>10. PlaceInv' /\ SourceInv' /\ CountInv' /\ PoolOutlivesBuffers' /\ NoBufferLost' /\ MadeInv'
  BY <1>2, <1>6, StepSame DEF history
<1>11. CloseInv'
  <2>1. \A q : Closing(q)' <=> Closing(q)
    <3>1. \A u \in Clients \ {t} : todo'[u] = todo[u]
      BY <1>3 DEF EnableError, Disabling, TypeOK
    <3> QED
      BY <1>2, <1>4, <1>6, <3>1, ClosingSame DEF Closes
  <2>2. \A q \in Ports : ~is_enabled'[q] => ~is_enabled[q]
    BY <1>3 DEF TypeOK
  <2> QED
    BY <1>2, <2>1, <2>2 DEF IInv, CloseInv, flow
<1> QED
  BY <1>5, <1>7, <1>9, <1>10, <1>11 DEF IInv

LEMMA PopulatedNext ==
  ASSUME TypeOK, IInv, NEW t \in Clients, Populated(t)
  PROVE  TypeOK' /\ IInv'
<1>1. /\ pc[t] = "populate" /\ hold[t] = NoBuffer /\ t \in Threads
      /\ pc' = [pc EXCEPT ![t] = "unlock"]
      /\ UNCHANGED <<setup, pool_cb, flow, locks, client, callback, calls, history>>
  BY NamesAre DEF Populated, At, Goto
<1>2. pc'[t] = "unlock" /\ \A u \in Threads \ {t} : pc'[u] = pc[u]
  BY <1>1 DEF TypeOK
<1>3. TypeOK'
  BY <1>1 DEF TypeOK, history, setup, flow, locks, client, callback
<1>4. LockInv'
  <2>1. pc[t] \in Active /\ ~Both(t)' /\ pc'[t] \notin Closes /\ pc'[t] \in Active \cup {"unlock"}
    BY <1>1, <1>2 DEF Active, Closes, Both
  <2> QED
    BY <1>1, <1>2, <2>1, LocksKept DEF locks, client
<1>5. PhaseInv'
  <2> SUFFICES ASSUME Regular PROVE Phase(t)' /\ Quiet'
    <3>1. pc[t] \in Active \cup {"unlock"}
      BY <1>1 DEF Active
    <3> QED
      BY <1>1, <1>2, <3>1, PhaseAlone DEF history
  <2>1. connected /\ live = {pool} /\ (\A q \in Ports : is_enabled[q]) /\ Both(t)
    BY <1>1 DEF Regular, Phase, Active
  <2>2. Quiet'
    BY <1>1, <2>1, NamesAre DEF Quiet, setup, TypeOK
  <2>3. \A q \in Ports : connection_lock'[q] = t
    BY <1>1, <2>1 DEF IInv, LockInv, locks
  <2>4. Phase(t)'
    BY <1>2, <2>3 DEF Phase, Active, Closes
  <2> QED
    BY <2>2, <2>4
<1>6. PlaceInv' /\ SourceInv' /\ CountInv' /\ PoolOutlivesBuffers' /\ NoBufferLost' /\ MadeInv'
  BY <1>1, <1>2, StepSame DEF setup, history
<1>7. CloseInv'
  <2>1. \A q : Closing(q)' <=> Closing(q)
    BY <1>1, <1>2, ClosingSame DEF Closes, client
  <2> QED
    BY <1>1, <2>1 DEF IInv, CloseInv, setup, flow
<1> QED
  BY <1>3, <1>4, <1>5, <1>6, <1>7 DEF IInv

LEMMA DisableLockNext ==
  ASSUME TypeOK, IInv, NEW t \in Clients, DisableLock(t)
  PROVE  TypeOK' /\ IInv'
<1>1. PICK p : p = Head(todo[t])
  OBVIOUS
<1>2. /\ pc[t] = "disabling" /\ hold[t] = NoBuffer /\ t \in Threads /\ todo[t] # <<>>
      /\ UNCHANGED <<connected, pool, live, out_cb, pool_cb, flow, connection_lock,
                     action_mutex, op, end, then, populated, callback, calls, history>>
  BY NamesAre DEF DisableLock, At
<1>3. \/ /\ is_enabled[p] /\ lock' = [lock EXCEPT ![p] = t]
         /\ is_enabled' = [is_enabled EXCEPT ![p] = FALSE]
         /\ pc' = [pc EXCEPT ![t] = "locking"] /\ todo' = todo
      \/ /\ ~is_enabled[p] /\ todo' = [todo EXCEPT ![t] = Tail(@)]
         /\ lock' = lock /\ is_enabled' = is_enabled /\ pc' = pc
  BY <1>1 DEF DisableLock, Goto
<1>4. PICK s \in Seq(Ports) : s = todo[t]
  BY DEF TypeOK
<1>5. /\ p \in Ports /\ Tail(s) \in Seq(Ports)
      /\ \A q : (\E i \in 1 .. Len(s) : s[i] = q)
                  <=> q = p \/ \E i \in 1 .. Len(Tail(s)) : Tail(s)[i] = q
  BY <1>1, <1>2, <1>4, TailIs
<1>6. pc'[t] \in {"locking", "disabling"} /\ \A u \in Threads \ {t} : pc'[u] = pc[u]
  BY <1>2, <1>3 DEF TypeOK
<1>7. TypeOK'
  <2>1. lock' \in [Ports -> Threads \cup {NoThread}] /\ is_enabled' \in [Ports -> BOOLEAN]
    <3>1. /\ lock' = lock \/ lock' = [lock EXCEPT ![p] = t]
          /\ is_enabled' = is_enabled \/ is_enabled' = [is_enabled EXCEPT ![p] = FALSE]
      BY <1>3
    <3>2. lock' \in [Ports -> Threads \cup {NoThread}]
      BY <1>2, <3>1 DEF TypeOK
    <3> QED
      BY <3>1, <3>2 DEF TypeOK
  <2>2. todo' \in [Clients -> Seq(Ports)]
    BY <1>3, <1>4, <1>5 DEF TypeOK
  <2>3. pc' \in [Threads -> {"idle", "second", "unlock", "create",
                       "enable_in", "enable_out", "populate", "disabling",
                       "locking", "draining", "failing", "waiting", "free",
                       "acting", "commit"}]
    BY <1>3 DEF TypeOK
  <2> QED
    BY <1>2, <2>1, <2>2, <2>3 DEF TypeOK, history, flow, callback
<1>8. (\A u \in Clients \ {t} : todo'[u] = todo[u] /\ then'[u] = then[u]) /\ LockInv'
  <2>1. /\ pc[t] \in Active /\ pc'[t] \in Active /\ (Both(t)' => Both(t))
        /\ pc'[t] \in Closes => todo'[t] # <<>>
    BY <1>2, <1>3, <1>6 DEF Active, Closes, Both
  <2>2. \A u \in Clients \ {t} : todo'[u] = todo[u] /\ then'[u] = then[u]
    BY <1>2, <1>3 DEF TypeOK
  <2> QED
    BY <1>2, <1>6, <2>1, <2>2, LocksKept
<1>9. Regular => /\ then[t] = "free" /\ live = {pool} /\ connected
                 /\ \A q \in Ports : ~Left(t, q) => ~is_enabled[q]
  BY <1>2 DEF Regular, Phase, Active, Closes, Both
<1>10. PhaseInv'
  <2> SUFFICES ASSUME Regular PROVE Phase(t)' /\ pc'[t] \in Active
    <3>1. pc[t] \in Active \cup {"unlock"}
      BY <1>2 DEF Active
    <3> QED
      BY <1>2, <1>6, <3>1, PhaseAlone DEF history
  <2>1. \A q \in Ports : ~Left(t, q)' => ~is_enabled'[q]
    <3>1. CASE is_enabled[p] /\ todo' = todo /\ is_enabled' = [is_enabled EXCEPT ![p] = FALSE]
      <4>1. \A q : Left(t, q)' <=> Left(t, q)
        BY <3>1 DEF Left
      <4>2. \A q \in Ports : ~is_enabled[q] => ~is_enabled'[q]
        BY <3>1 DEF TypeOK
      <4> QED
        BY <1>9, <4>1, <4>2
    <3>2. CASE /\ ~is_enabled[p] /\ todo' = [todo EXCEPT ![t] = Tail(@)]
               /\ is_enabled' = is_enabled
      <4>1. todo'[t] = Tail(s)
        BY <1>4, <3>2 DEF TypeOK
      <4>2. \A q : Left(t, q) <=> \E i \in 1 .. Len(s) : s[i] = q
        BY <1>4 DEF Left
      <4>3. \A q : Left(t, q)' <=> \E i \in 1 .. Len(Tail(s)) : Tail(s)[i] = q
        BY <4>1 DEF Left
      <4>4. \A q : Left(t, q) <=> q = p \/ Left(t, q)'
        BY <1>5, <4>2, <4>3, Zenon
      <4> QED
        BY <1>9, <3>2, <4>4
    <3> QED
      BY <1>3, <3>1, <3>2
  <2>2. pc'[t] \in Closes => todo'[t] # <<>> /\ ~is_enabled'[Head(todo'[t])]
    <3>1. pc'[t] \in Closes => todo' = todo /\ is_enabled' = [is_enabled EXCEPT ![p] = FALSE]
      BY <1>2, <1>3 DEF Closes
    <3> QED
      BY <1>1, <1>2, <1>5, <3>1 DEF TypeOK
  <2>3. Phase(t)'
    <3>1. op[t] # "enable" => /\ todo'[t] \in {<<"out", "in">>, <<"in">>, <<>>}
                              /\ todo'[t] = <<"out", "in">> => is_enabled'["in"]
      <4> SUFFICES ASSUME op[t] # "enable"
                   PROVE  /\ todo'[t] \in {<<"out", "in">>, <<"in">>, <<>>}
                          /\ todo'[t] = <<"out", "in">> => is_enabled'["in"]
        OBVIOUS
      <4>1. s \in {<<"out", "in">>, <<"in">>} /\ (s = <<"out", "in">> => is_enabled["in"])
        BY <1>2, <1>4 DEF Regular, Phase, Active, Closes
      <4>2. CASE s = <<"out", "in">>
        <5>1. p = "out" /\ Tail(s) = <<"in">>
          BY <1>1, <1>4, <4>2
        <5>2. todo'[t] = s \/ todo'[t] = <<"in">>
          BY <1>3, <1>4, <5>1 DEF TypeOK
        <5>3. is_enabled'["in"] = is_enabled["in"]
          BY <1>3, <5>1, NamesAre DEF TypeOK
        <5> QED
          BY <4>1, <4>2, <5>2, <5>3
      <4>3. CASE s = <<"in">>
        <5>1. Tail(s) = <<>> /\ <<"in">> # <<"out", "in">> /\ <<>> # <<"out", "in">>
          BY <4>3
        <5>2. todo'[t] = s \/ todo'[t] = <<>>
          BY <1>3, <1>4, <5>1 DEF TypeOK
        <5> QED
          BY <4>3, <5>1, <5>2
      <4> QED
        BY <4>1, <4>2, <4>3
    <3> QED
      BY <1>2, <1>6, <1>9, <2>1, <2>2, <3>1 DEF Phase, Active, Closes, Both
  <2> QED
    BY <1>6, <2>3 DEF Active, Closes
<1>11. PlaceInv' /\ SourceInv' /\ CountInv' /\ PoolOutlivesBuffers' /\ NoBufferLost' /\ MadeInv'
  BY <1>2, <1>6, StepSame DEF history
<1>12. CloseInv'
  <2>1. ASSUME NEW q \in Ports, ~is_enabled'[q], ~Closing(q)' PROVE ~is_enabled[q] /\ ~Closing(q)
    <3>0. ~Closing(q)
      <4>1. \A u \in Clients \ {t} : pc'[u] = pc[u]
        BY <1>6, NamesAre
      <4> QED
        BY <1>2, <1>8, <2>1, <4>1 DEF Closing, Closes
    <3>1. CASE is_enabled[p] /\ pc' = [pc EXCEPT ![t] = "locking"] /\ todo' = todo
      <4>1. pc'[t] \in Closes /\ Head(todo'[t]) = p
        BY <1>1, <1>2, <3>1 DEF TypeOK, Closes
      <4>2. Closing(p)'
        BY <4>1 DEF Closing
      <4> QED
        BY <1>3, <2>1, <3>0, <3>1, <4>2 DEF TypeOK
    <3>2. CASE is_enabled' = is_enabled
      BY <2>1, <3>0, <3>2
    <3> QED
      BY <1>3, <3>1, <3>2
  <2> QED
    BY <1>2, <2>1 DEF IInv, CloseInv, flow
<1> QED
  BY <1>7, <1>8, <1>10, <1>11, <1>12 DEF IInv

\* From the lock of the port to the wait: the port that is closed stays the same.
LEMMA DisableActionNext ==
  ASSUME TypeOK, IInv, NEW t \in Clients, DisableAction(t) \/ DisableDone(t) \/ DisableFail(t)
  PROVE  TypeOK' /\ IInv'
<1>1. PICK p \in Ports : p = Head(todo[t])
  <2>1. todo[t] \in Seq(Ports) /\ todo[t] # <<>>
    BY DEF DisableAction, DisableDone, DisableFail, At, IInv, LockInv, Closes, TypeOK
  <2> QED
    BY <2>1, TailIs
<1>2. PICK l \in {"draining", "failing", "waiting"} : pc' = [pc EXCEPT ![t] = l]
  BY DEF DisableAction, DisableDone, DisableFail, Goto
<1>3. /\ pc[t] \in {"locking", "draining"} /\ hold[t] = NoBuffer /\ t \in Threads
      /\ UNCHANGED <<setup, flow, connection_lock, lock, client, callback, calls, history>>
  BY NamesAre DEF DisableAction, DisableDone, DisableFail, At
<1>4. pc'[t] = l /\ \A u \in Threads \ {t} : pc'[u] = pc[u]
  BY <1>2, <1>3 DEF TypeOK
<1>5. TypeOK'
  <2>1. action_mutex' \in [Ports -> Threads \cup {NoThread}]
    <3>1. PICK u \in {t, NoThread} : action_mutex' = [action_mutex EXCEPT ![p] = u]
      BY <1>1 DEF DisableAction, DisableDone, DisableFail
    <3> QED
      BY <1>3, <3>1 DEF TypeOK
  <2>2. pool_cb' \subseteq 1 .. MaxPools
    <3>1. pool_cb' \subseteq pool_cb
      BY DEF DisableAction, DisableDone, DisableFail
    <3> QED
      BY <3>1 DEF TypeOK
  <2>3. pc' \in [Threads -> {"idle", "second", "unlock", "create",
                       "enable_in", "enable_out", "populate", "disabling",
                       "locking", "draining", "failing", "waiting", "free",
                       "acting", "commit"}]
    BY <1>2 DEF TypeOK
  <2> QED
    BY <1>3, <2>1, <2>2, <2>3 DEF TypeOK, history, setup, flow, client, callback
<1>6. LockInv'
  <2>1. pc[t] \in Active /\ pc'[t] \in Active /\ (Both(t)' => Both(t)) /\ todo[t] # <<>>
    BY <1>3, <1>4 DEF Active, Closes, Both, client, IInv, LockInv
  <2> QED
    BY <1>3, <1>4, <2>1, LocksKept DEF client
<1>7. PhaseInv'
  <2> SUFFICES ASSUME Regular PROVE Phase(t)' /\ pc'[t] \in Active
    <3>1. pc[t] \in Active \cup {"unlock"}
      BY <1>3 DEF Active, Closes
    <3> QED
      BY <1>3, <1>4, <3>1, PhaseAlone DEF history
  <2>1. Phase(t)
    BY DEF Regular
  <2>2. \A q : Left(t, q)' <=> Left(t, q)
    BY <1>3 DEF Left, client
  <2>3. Phase(t)'
    BY <1>3, <1>4, <2>1, <2>2 DEF Phase, Active, Closes, Both, setup, client
  <2> QED
    BY <1>4, <2>3 DEF Active, Closes
<1>8. PlaceInv' /\ SourceInv' /\ CountInv' /\ PoolOutlivesBuffers' /\ NoBufferLost' /\ MadeInv'
  BY <1>3, <1>4, StepSame DEF setup, history
<1>9. CloseInv'
  <2>1. \A q : Closing(q) => Closing(q)'
    <3>1. \A u \in Clients \ {t} : pc'[u] = pc[u]
      BY <1>4, NamesAre
    <3> QED
      BY <1>3, <1>4, <3>1 DEF Closing, Closes, client
  <2> QED
    BY <1>3, <2>1 DEF IInv, CloseInv, setup, flow
<1> QED
  BY <1>5, <1>6, <1>7, <1>8, <1>9 DEF IInv

LEMMA DisableWaitNext ==
  ASSUME TypeOK, IInv, NEW t \in Clients, DisableWait(t)
  PROVE  TypeOK' /\ IInv'
<1>1. PICK p : p = Head(todo[t])
  OBVIOUS
<1>2. /\ pc[t] = "waiting" /\ hold[t] = NoBuffer /\ t \in Threads /\ transit[p] = 0
      /\ out_cb' = (out_cb /\ p # "out")
      /\ lock' = [lock EXCEPT ![p] = NoThread]
      /\ todo' = [todo EXCEPT ![t] = Tail(@)]
      /\ pc' = [pc EXCEPT ![t] = "disabling"]
      /\ UNCHANGED <<connected, is_enabled, pool, live, pool_cb, flow,
                     connection_lock, action_mutex, op, end, then, populated,
                     callback, calls, history>>
  BY <1>1, NamesAre DEF DisableWait, At, Goto
<1>3. PICK s \in Seq(Ports) : s = todo[t]
  BY DEF TypeOK
<1>4. s # <<>>
  BY <1>1, <1>2, <1>3 DEF IInv, LockInv, Closes
<1>5. /\ p \in Ports /\ Tail(s) \in Seq(Ports)
      /\ \A q : (\E i \in 1 .. Len(s) : s[i] = q)
                  <=> q = p \/ \E i \in 1 .. Len(Tail(s)) : Tail(s)[i] = q
  BY <1>1, <1>3, <1>4, TailIs
<1>6. pc'[t] = "disabling" /\ \A u \in Threads \ {t} : pc'[u] = pc[u]
  BY <1>2 DEF TypeOK
<1>7. TypeOK'
  <2>1. lock' \in [Ports -> Threads \cup {NoThread}] /\ out_cb' \in BOOLEAN
    BY <1>2 DEF TypeOK
  <2>2. todo' \in [Clients -> Seq(Ports)]
    BY <1>2, <1>3, <1>5 DEF TypeOK
  <2>3. pc' \in [Threads -> {"idle", "second", "unlock", "create",
                       "enable_in", "enable_out", "populate", "disabling",
                       "locking", "draining", "failing", "waiting", "free",
                       "acting", "commit"}]
    BY <1>2 DEF TypeOK
  <2> QED
    BY <1>2, <2>1, <2>2, <2>3 DEF TypeOK, history, flow, callback
<1>8. (\A u \in Clients \ {t} : todo'[u] = todo[u] /\ then'[u] = then[u]) /\ LockInv'
  <2>1. /\ pc[t] \in Active /\ pc'[t] \in Active /\ (Both(t)' => Both(t))
        /\ pc'[t] \notin Closes
    BY <1>2, <1>6 DEF Active, Closes, Both
  <2>2. \A u \in Clients \ {t} : todo'[u] = todo[u] /\ then'[u] = then[u]
    BY <1>2 DEF TypeOK
  <2> QED
    BY <1>2, <1>6, <2>1, <2>2, LocksKept
<1>9. PhaseInv'
  <2> SUFFICES ASSUME Regular PROVE Phase(t)' /\ pc'[t] \in Active
    <3>1. pc[t] \in Active \cup {"unlock"}
      BY <1>2 DEF Active, Closes
    <3> QED
      BY <1>2, <1>6, <3>1, PhaseAlone DEF history
  <2>0. Phase(t) /\ ~is_enabled[p]
    BY <1>1, <1>2 DEF Regular, Phase, Closes
  <2>1. todo'[t] = Tail(s)
    BY <1>2, <1>3 DEF TypeOK
  <2>2. \A q : Left(t, q) <=> \E i \in 1 .. Len(s) : s[i] = q
    BY <1>3 DEF Left
  <2>3. \A q : Left(t, q)' <=> \E i \in 1 .. Len(Tail(s)) : Tail(s)[i] = q
    BY <2>1 DEF Left
  <2>4. \A q : Left(t, q) <=> q = p \/ Left(t, q)'
    BY <1>5, <2>2, <2>3, Zenon
  <2>5. /\ then'[t] = "free" /\ live' = {pool'} /\ connected'
        /\ \A q \in Ports : ~Left(t, q)' => ~is_enabled'[q]
    BY <1>2, <2>0, <2>4 DEF Phase, Active, Closes, Both
  <2>6. op[t] # "enable" => todo'[t] \in {<<"in">>, <<>>}
    <3>1. op[t] # "enable" => s \in {<<"out", "in">>, <<"in">>}
      BY <1>2, <1>3, <1>4, <2>0 DEF Phase, Closes
    <3>2. s = <<"out", "in">> => Tail(s) = <<"in">>
      OBVIOUS
    <3>3. s = <<"in">> => Tail(s) = <<>>
      OBVIOUS
    <3> QED
      BY <2>1, <3>1, <3>2, <3>3
  <2>7. <<"in">> # <<"out", "in">> /\ <<>> # <<"out", "in">>
    OBVIOUS
  <2>8. Phase(t)'
    BY <1>2, <1>6, <2>5, <2>6, <2>7 DEF Phase, Active, Closes, Both
  <2> QED
    BY <1>6, <2>8 DEF Active
<1>10. PlaceInv' /\ SourceInv' /\ CountInv' /\ PoolOutlivesBuffers' /\ NoBufferLost' /\ MadeInv'
  BY <1>2, <1>6, StepSame DEF history
<1>11. CloseInv'
  <2>1. \A q : Closing(q) => q = p \/ Closing(q)'
    <3>1. \A u \in Clients \ {t} : pc'[u] = pc[u]
      BY <1>6, NamesAre
    <3> QED
      BY <1>1, <1>8, <3>1 DEF Closing
  <2> QED
    BY <1>2, <2>1 DEF IInv, CloseInv, flow
<1> QED
  BY <1>7, <1>8, <1>9, <1>10, <1>11 DEF IInv

\* A disable that fails: only when the first port of a disable or of a disconnect fails are
\* both ends as they were.
LEMMA DisableUndoNext ==
  ASSUME TypeOK, IInv, NEW t \in Clients, DisableUndo(t)
  PROVE  TypeOK' /\ IInv'
<1>1. PICK p : p = Head(todo[t])
  OBVIOUS
<1>2. /\ pc[t] = "failing" /\ hold[t] = NoBuffer /\ t \in Threads
      /\ lock' = [lock EXCEPT ![p] = NoThread]
      /\ is_enabled' = [is_enabled EXCEPT ![p] = TRUE]
      /\ halfway' = (halfway \/ op[t] = "enable" \/ p = "in")
      /\ UNCHANGED <<connected, pool, live, out_cb, pool_cb, flow, connection_lock,
                     action_mutex, op, end, then, populated, callback, calls, abandoned>>
  BY <1>1, NamesAre DEF DisableUndo, At
<1>3. \/ /\ op[t] = "enable" /\ todo' = [todo EXCEPT ![t] = Tail(@)]
         /\ pc' = [pc EXCEPT ![t] = "disabling"]
      \/ /\ op[t] # "enable" /\ todo' = [todo EXCEPT ![t] = <<>>]
         /\ pc' = [pc EXCEPT ![t] = "unlock"]
  BY DEF DisableUndo, Goto
<1>4. PICK s \in Seq(Ports) : s = todo[t] /\ s # <<>>
  BY <1>2 DEF TypeOK, IInv, LockInv, Closes
<1>5. p \in Ports /\ Tail(s) \in Seq(Ports)
  BY <1>1, <1>4, TailIs
<1>6. pc'[t] \in {"disabling", "unlock"} /\ \A u \in Threads \ {t} : pc'[u] = pc[u]
  BY <1>2, <1>3 DEF TypeOK
<1>7. TypeOK'
  <2>1. /\ lock' \in [Ports -> Threads \cup {NoThread}] /\ is_enabled' \in [Ports -> BOOLEAN]
        /\ halfway' \in BOOLEAN
    BY <1>2 DEF TypeOK
  <2>2. todo' \in [Clients -> Seq(Ports)]
    <3>1. <<>> \in Seq(Ports) /\ Tail(todo[t]) \in Seq(Ports)
      BY <1>4, <1>5
    <3>2. CASE todo' = [todo EXCEPT ![t] = Tail(@)]
      BY <3>1, <3>2 DEF TypeOK
    <3>3. CASE todo' = [todo EXCEPT ![t] = <<>>]
      BY <3>1, <3>3 DEF TypeOK
    <3> QED
      BY <1>3, <3>2, <3>3
  <2>3. pc' \in [Threads -> {"idle", "second", "unlock", "create",
                       "enable_in", "enable_out", "populate", "disabling",
                       "locking", "draining", "failing", "waiting", "free",
                       "acting", "commit"}]
    BY <1>3 DEF TypeOK
  <2> QED
    BY <1>2, <2>1, <2>2, <2>3 DEF TypeOK, flow, callback
<1>8. (\A u \in Clients \ {t} : todo'[u] = todo[u] /\ then'[u] = then[u]) /\ LockInv'
  <2>1. /\ pc[t] \in Active /\ pc'[t] \in Active \cup {"unlock"} /\ (Both(t)' => Both(t))
        /\ pc'[t] \notin Closes
    BY <1>2, <1>6 DEF Active, Closes, Both
  <2>2. \A u \in Clients \ {t} : todo'[u] = todo[u] /\ then'[u] = then[u]
    BY <1>2, <1>3 DEF TypeOK
  <2> QED
    BY <1>2, <1>6, <2>1, <2>2, LocksKept
<1>9. PhaseInv'
  <2> SUFFICES ASSUME ~halfway, op[t] # "enable", p # "in" PROVE Regular'
    BY <1>2 DEF PhaseInv
  <2>1. Regular /\ Phase(t)
    BY DEF IInv, PhaseInv, Regular
  <2>2. (\A q \in Ports : connection_lock[q] = t) /\ \A u \in Clients \ {t} : pc[u] = "idle"
    BY <1>2, <2>1, RegularAlone DEF IInv
  <2>3. is_enabled["in"]
    <3>1. s # <<"in">>
      BY <1>1, <1>4
    <3>2. s = <<"out", "in">>
      BY <1>2, <1>4, <2>1, <3>1 DEF Phase, Closes
    <3> QED
      BY <1>2, <1>4, <2>1, <3>2 DEF Phase, Closes
  <2>4. Quiet'
    <3>1. p = "out"
      BY <1>5 DEF Ports
    <3>2. is_enabled'["out"] = TRUE /\ is_enabled'["in"] = TRUE
      BY <1>2, <2>3, <3>1, NamesAre DEF TypeOK
    <3>3. connected /\ live = {pool}
      BY <1>2, <2>1 DEF Phase, Active, Closes
    <3> QED
      BY <1>2, <3>2, <3>3 DEF Quiet
  <2>5. pc'[t] = "unlock"
    BY <1>2, <1>3 DEF TypeOK
  <2>6. Phase(t)'
    BY <1>2, <2>2, <2>5 DEF Phase, Active, Closes
  <2>7. \A u \in Clients \ {t} : pc'[u] = "idle"
    BY <1>6, <2>2, NamesAre
  <2>8. \A u \in Clients \ {t} : Phase(u)'
    BY <2>7 DEF Phase, Active, Closes
  <2> QED
    BY <2>4, <2>6, <2>8 DEF Regular
<1>10. PlaceInv' /\ SourceInv' /\ CountInv' /\ PoolOutlivesBuffers' /\ NoBufferLost' /\ MadeInv'
  BY <1>2, <1>6, StepSame
<1>11. CloseInv'
  <2>1. \A q : Closing(q) => q = p \/ Closing(q)'
    <3>1. \A u \in Clients \ {t} : pc'[u] = pc[u]
      BY <1>6, NamesAre
    <3> QED
      BY <1>1, <1>8, <3>1 DEF Closing
  <2>2. is_enabled'[p] /\ \A q \in Ports : q # p => is_enabled'[q] = is_enabled[q]
    BY <1>2, <1>5 DEF TypeOK
  <2> QED
    BY <1>2, <2>1, <2>2 DEF IInv, CloseInv, flow
<1> QED
  BY <1>7, <1>8, <1>9, <1>10, <1>11 DEF IInv

LEMMA DisabledNext ==
  ASSUME TypeOK, IInv, NEW t \in Clients, Disabled(t)
  PROVE  TypeOK' /\ IInv'
<1>1. /\ pc[t] = "disabling" /\ hold[t] = NoBuffer /\ t \in Threads /\ todo[t] = <<>>
      /\ pc' = [pc EXCEPT ![t] = then[t]]
      /\ UNCHANGED <<setup, pool_cb, flow, locks, client, callback, calls, history>>
  BY NamesAre DEF Disabled, At, Goto
<1>2. pc'[t] = then[t] /\ then[t] \in {"unlock", "free"} /\ \A u \in Threads \ {t} : pc'[u] = pc[u]
  BY <1>1 DEF TypeOK
<1>4. TypeOK'
  BY <1>1, <1>2 DEF TypeOK, history, setup, flow, locks, client, callback
<1>5. LockInv'
  <2>1. /\ pc[t] \in Active /\ pc'[t] \in Active \cup {"unlock"} /\ (Both(t)' => Both(t))
        /\ pc'[t] \notin Closes
    BY <1>1, <1>2 DEF Active, Closes, Both
  <2> QED
    BY <1>1, <1>2, <2>1, LocksKept DEF locks, client
<1>6. PhaseInv'
  <2> SUFFICES ASSUME Regular PROVE Phase(t)' /\ pc'[t] \in Active
    <3>1. pc[t] \in Active \cup {"unlock"}
      BY <1>1 DEF Active, Closes
    <3> QED
      BY <1>1, <1>2, <3>1, PhaseAlone DEF history
  <2>1. \A q : ~Left(t, q)
    <3>1. Len(todo[t]) = 0
      BY <1>1
    <3> QED
      BY <3>1 DEF Left
  <2>2. /\ then[t] = "free" /\ live = {pool} /\ connected
        /\ \A q \in Ports : ~Left(t, q) => ~is_enabled[q]
    BY <1>1 DEF Regular, Phase, Active, Closes, Both
  <2>3. pc'[t] = "free"
    BY <1>2, <2>2
  <2>4. Phase(t)'
    BY <1>1, <2>1, <2>2, <2>3 DEF Phase, Active, Closes, Both, setup
  <2> QED
    BY <2>3, <2>4 DEF Active
<1>7. PlaceInv' /\ SourceInv' /\ CountInv' /\ PoolOutlivesBuffers' /\ NoBufferLost' /\ MadeInv'
  BY <1>1, <1>2, StepSame DEF setup, history
<1>8. CloseInv'
  <2>1. \A q : Closing(q)' <=> Closing(q)
    BY <1>1, <1>2, ClosingSame DEF Closes, client
  <2> QED
    BY <1>1, <2>1 DEF IInv, CloseInv, setup, flow
<1> QED
  BY <1>4, <1>5, <1>6, <1>7, <1>8 DEF IInv

-----------------------------------------------------------------------------
\* The steps of the buffers: one lemma for each way a buffer moves.
LEMMA OutIs ==
  \A b : b \in Outstanding <=> \/ \E p \in Ports : b \in comp[p]
                               \/ \E t \in Threads : Carrying(t) /\ hold[t] = b
BY DEF Outstanding, Carrying, Ports

LEMMA EnterIs ==
  ASSUME TypeOK, NEW t \in Threads, NEW b, NEW p, NEW s, Enter(t, b, p, s)
  PROVE  /\ hold'[t] = b /\ stage'[t] = s /\ src'[t] = p
         /\ \A u \in Threads \ {t} : /\ hold'[u] = hold[u] /\ stage'[u] = stage[u] /\ src'[u] = src[u]
                                     /\ Carrying(u)' <=> Carrying(u)
         /\ Carrying(t)' <=> s \notin {"none", "done"}
         /\ \A q : q # p => From(q)' = From(q) \ {t}
         /\ From(p)' = From(p) \cup {t}
<1>1. /\ hold'[t] = b /\ stage'[t] = s /\ src'[t] = p
      /\ \A u \in Threads \ {t} : hold'[u] = hold[u] /\ stage'[u] = stage[u] /\ src'[u] = src[u]
  BY DEF Enter, TypeOK
<1> QED
  BY <1>1 DEF Carrying, From

LEMMA StageIs ==
  ASSUME TypeOK, NEW t \in Threads, NEW s, Stage(t, s)
  PROVE  /\ hold' = hold /\ src' = src /\ stage'[t] = s
         /\ \A u \in Threads \ {t} : stage'[u] = stage[u] /\ (Carrying(u)' <=> Carrying(u))
         /\ Carrying(t)' <=> s \notin {"none", "done"}
         /\ \A q : From(q)' = From(q)
<1>1. /\ hold' = hold /\ src' = src /\ stage'[t] = s
      /\ \A u \in Threads \ {t} : stage'[u] = stage[u]
  BY DEF Stage, TypeOK
<1> QED
  BY <1>1 DEF Carrying, From

\* A port returns a buffer of its component to its callback.
LEMMA TakeIs ==
  ASSUME TypeOK, PlaceInv, SourceInv, CountInv, NEW t \in Threads, NEW p \in Ports,
         NEW b \in comp[p], hold[t] = NoBuffer, t = "out" => pc["out"] # "commit",
         comp' = [comp EXCEPT ![p] = @ \ {b}], Return(t, b, p),
         inpool' = inpool, transit' = transit, pc' = pc
  PROVE  PlaceInv' /\ SourceInv' /\ CountInv' /\ Outstanding' = Outstanding
<1>1. PICK s \in {"test", "release"} : Enter(t, b, p, s)
  BY DEF Return
<1>2. /\ hold'[t] = b /\ stage'[t] = s /\ src'[t] = p /\ Carrying(t)'
      /\ \A u \in Threads \ {t} : /\ hold'[u] = hold[u] /\ stage'[u] = stage[u] /\ src'[u] = src[u]
                                  /\ Carrying(u)' <=> Carrying(u)
      /\ From(p)' = From(p) \cup {t} /\ \A q : q # p => From(q)' = From(q) \ {t}
  BY <1>1, EnterIs
<1>3. b \in Headers /\ b # NoBuffer /\ p # "none"
  BY HeadersAre, NamesAre DEF TypeOK
<1>4. /\ comp'[p] = comp[p] \ {b} /\ \A q \in Ports : q # p => comp'[q] = comp[q]
      /\ \A q \in Ports : comp'[q] \subseteq comp[q]
  BY DEF TypeOK
<1>5. /\ stage[t] = "none" /\ src[t] = "none" /\ ~Carrying(t)
      /\ \A q \in Ports : b \in comp[q] => q = p
      /\ b \notin inpool /\ \A u \in Threads : Carrying(u) => hold[u] # b
  BY DEF PlaceInv, Carrying, Ports
<1>6. PlaceInv'
  <2>1. \A u \in Threads : stage'[u] = "none" <=> hold'[u] = NoBuffer
    BY <1>2, <1>3 DEF PlaceInv
  <2>2. \A u \in Threads : stage'[u] = "none" => src'[u] = "none"
    BY <1>2 DEF PlaceInv
  <2>3. comp'["out"] \cap comp'["in"] = {} /\ \A q \in Ports : comp'[q] \cap inpool' = {}
    BY <1>4, NamesAre DEF PlaceInv
  <2>4. \A u \in Threads : Carrying(u)' => /\ hold'[u] \notin inpool'
                                           /\ \A q \in Ports : hold'[u] \notin comp'[q]
    BY <1>2, <1>4, <1>5 DEF PlaceInv
  <2>5. \A u, v \in Threads : Carrying(u)' /\ Carrying(v)' /\ hold'[u] = hold'[v] => u = v
    BY <1>2, <1>5 DEF PlaceInv
  <2>6. pc'["out"] = "commit" =>
          /\ hold'["out"] = NoBuffer /\ EventBuffer \notin inpool'
          /\ \A q \in Ports : EventBuffer \notin comp'[q]
          /\ \A u \in Threads : Carrying(u)' => hold'[u] # EventBuffer
    BY <1>2, <1>4, NamesAre DEF PlaceInv
  <2> QED
    BY <2>1, <2>2, <2>3, <2>4, <2>5, <2>6 DEF PlaceInv
<1>7. SourceInv'
  BY <1>2, <1>3 DEF SourceInv
<1>8. CountInv'
  <2>1. IsFiniteSet(comp[p]) /\ IsFiniteSet(From(p)) /\ t \notin From(p)
    BY <1>3, <1>5, FromIs DEF CountInv, From
  <2>2. /\ IsFiniteSet(comp[p] \ {b}) /\ Cardinality(comp[p] \ {b}) = Cardinality(comp[p]) - 1
        /\ Cardinality(From(p) \cup {t}) = Cardinality(From(p)) + 1
        /\ Cardinality(comp[p]) \in Nat /\ Cardinality(From(p)) \in Nat
    BY <2>1, CountIs
  <2>3. transit[p] = Cardinality(comp[p]) + Cardinality(From(p))
    BY DEF CountInv
  <2>4. transit'[p] = Cardinality(comp[p] \ {b}) + Cardinality(From(p) \cup {t})
    BY <2>2, <2>3
  <2>5. \A q \in Ports : q # p => From(q)' = From(q)
    BY <1>2, <1>5, NamesAre DEF From
  <2> QED
    BY <1>2, <1>4, <2>2, <2>4, <2>5 DEF CountInv
<1>9. \A a : a \in Outstanding' <=> a \in Outstanding
  <2>1. ASSUME NEW a PROVE a \in Outstanding' <=> \/ \E q \in Ports : a \in comp'[q]
                                                  \/ \E u \in Threads : Carrying(u)' /\ hold'[u] = a
    BY DEF Outstanding, Carrying, Ports
  <2>2. ASSUME NEW a PROVE (\E q \in Ports : a \in comp'[q]) <=> a # b /\ \E q \in Ports : a \in comp[q]
    BY <1>4, <1>5
  <2>3. ASSUME NEW a
        PROVE  (\E u \in Threads : Carrying(u)' /\ hold'[u] = a)
                 <=> a = b \/ \E u \in Threads : Carrying(u) /\ hold[u] = a
    BY <1>2, <1>5
  <2> QED
    BY <2>1, <2>2, <2>3, OutIs
<1> QED
  BY <1>6, <1>7, <1>8, <1>9

\* A buffer from a queue goes straight into a callback: no port has made it.
LEMMA PickIs ==
  ASSUME TypeOK, PlaceInv, SourceInv, CountInv, NEW t \in Threads, NEW b \in Headers,
         NEW s \in {"forward", "release"}, hold[t] = NoBuffer,
         Enter(t, b, "none", s), inpool' = inpool \ {b}, UNCHANGED <<comp, transit>>,
         \A p \in Ports : b \notin comp[p], \A u \in Threads : Carrying(u) => hold[u] # b,
         b = EventBuffer \/ (t \in Clients /\ pc'[t] = "disabling"),
         \A u \in Threads \ {t} : pc'[u] = pc[u],
         pc'["out"] = "commit" => pc["out"] = "commit" /\ t # "out" /\ b # EventBuffer
  PROVE  /\ PlaceInv' /\ SourceInv' /\ CountInv'
         /\ \A a : a \in Outstanding' <=> a \in Outstanding \/ a = b
<1>1. /\ hold'[t] = b /\ stage'[t] = s /\ src'[t] = "none" /\ Carrying(t)'
      /\ \A u \in Threads \ {t} : /\ hold'[u] = hold[u] /\ stage'[u] = stage[u] /\ src'[u] = src[u]
                                  /\ Carrying(u)' <=> Carrying(u)
      /\ \A q : q # "none" => From(q)' = From(q) \ {t}
  BY EnterIs
<1>2. b # NoBuffer
  BY HeadersAre
<1>3. stage[t] = "none" /\ src[t] = "none" /\ ~Carrying(t)
  BY DEF PlaceInv, Carrying
<1>4. PlaceInv'
  <2>1. \A u \in Threads : stage'[u] = "none" <=> hold'[u] = NoBuffer
    BY <1>1, <1>2 DEF PlaceInv
  <2>2. \A u \in Threads : stage'[u] = "none" => src'[u] = "none"
    BY <1>1 DEF PlaceInv
  <2>3. comp'["out"] \cap comp'["in"] = {} /\ \A q \in Ports : comp'[q] \cap inpool' = {}
    BY DEF PlaceInv
  <2>4. \A u \in Threads : Carrying(u)' => /\ hold'[u] \notin inpool'
                                           /\ \A q \in Ports : hold'[u] \notin comp'[q]
    BY <1>1 DEF PlaceInv
  <2>5. \A u, v \in Threads : Carrying(u)' /\ Carrying(v)' /\ hold'[u] = hold'[v] => u = v
    BY <1>1 DEF PlaceInv
  <2>6. pc'["out"] = "commit" =>
          /\ hold'["out"] = NoBuffer /\ EventBuffer \notin inpool'
          /\ \A q \in Ports : EventBuffer \notin comp'[q]
          /\ \A u \in Threads : Carrying(u)' => hold'[u] # EventBuffer
    BY <1>1, NamesAre DEF PlaceInv
  <2> QED
    BY <2>1, <2>2, <2>3, <2>4, <2>5, <2>6 DEF PlaceInv
<1>5. SourceInv'
  BY <1>1 DEF SourceInv
<1>6. CountInv'
  <2>1. \A q \in Ports : From(q)' = From(q)
    BY <1>1, <1>3, NamesAre DEF From
  <2> QED
    BY <2>1 DEF CountInv
<1>7. \A a : a \in Outstanding' <=> a \in Outstanding \/ a = b
  <2>1. ASSUME NEW a PROVE a \in Outstanding' <=> \/ \E q \in Ports : a \in comp'[q]
                                                  \/ \E u \in Threads : Carrying(u)' /\ hold'[u] = a
    BY DEF Outstanding, Carrying, Ports
  <2>2. ASSUME NEW a
        PROVE  (\E u \in Threads : Carrying(u)' /\ hold'[u] = a)
                 <=> a = b \/ \E u \in Threads : Carrying(u) /\ hold[u] = a
    BY <1>1, <1>3
  <2> QED
    BY <2>1, <2>2, OutIs
<1> QED
  BY <1>4, <1>5, <1>6, <1>7

\* What a component accepts counts as in transit.
LEMMA AcceptIs ==
  ASSUME TypeOK, CountInv, NEW p \in Ports, NEW b \in Headers, b \notin comp[p], Accept(b, p),
         \A q : From(q)' = From(q)
  PROVE  /\ CountInv' /\ is_enabled[p]
         /\ comp'[p] = comp[p] \cup {b} /\ \A q \in Ports : q # p => comp'[q] = comp[q]
         /\ transit' \in [Ports -> Nat] /\ comp' \in [Ports -> SUBSET Headers]
         /\ \A q \in Ports : q # p => transit'[q] = transit[q]
<1>1. is_enabled[p] /\ comp' = [comp EXCEPT ![p] = @ \cup {b}] /\ transit' = [transit EXCEPT ![p] = @ + 1]
  BY DEF Accept
<1>2. /\ comp'[p] = comp[p] \cup {b} /\ \A q \in Ports : q # p => comp'[q] = comp[q]
      /\ comp' \in [Ports -> SUBSET Headers]
  BY <1>1 DEF TypeOK
<1>3. /\ transit'[p] = transit[p] + 1 /\ \A q \in Ports : q # p => transit'[q] = transit[q]
      /\ transit' \in [Ports -> Nat]
  <2>1. transit[p] \in Nat /\ transit[p] + 1 \in Nat
    BY DEF TypeOK
  <2> QED
    BY <1>1, <2>1 DEF TypeOK
<1>4. CountInv'
  <2>1. IsFiniteSet(comp[p]) /\ IsFiniteSet(From(p))
    BY FromIs DEF CountInv
  <2>2. /\ IsFiniteSet(comp[p] \cup {b}) /\ Cardinality(comp[p] \cup {b}) = Cardinality(comp[p]) + 1
        /\ Cardinality(comp[p]) \in Nat /\ Cardinality(From(p)) \in Nat
    BY <2>1, CountIs
  <2>3. transit[p] = Cardinality(comp[p]) + Cardinality(From(p))
    BY DEF CountInv
  <2>4. transit'[p] = Cardinality(comp[p] \cup {b}) + Cardinality(From(p))
    BY <1>3, <2>2, <2>3
  <2> QED
    BY <1>2, <1>3, <2>2, <2>4 DEF CountInv
<1> QED
  BY <1>1, <1>2, <1>3, <1>4

\* A buffer of the pool is sent.
LEMMA PutIs ==
  ASSUME TypeOK, PlaceInv, SourceInv, CountInv, NEW p \in Ports, NEW b \in inpool,
         b # EventBuffer, Accept(b, p), inpool' = inpool \ {b}, UNCHANGED <<callback, pc>>
  PROVE  /\ PlaceInv' /\ SourceInv' /\ CountInv'
         /\ \A a : a \in Outstanding' <=> a \in Outstanding \/ a = b
<1>1. /\ hold' = hold /\ stage' = stage /\ src' = src /\ pc' = pc
      /\ (\A q : From(q)' = From(q)) /\ \A t : Carrying(t)' <=> Carrying(t)
  BY DEF callback, From, Carrying
<1>2. /\ b \in Headers /\ (\A q \in Ports : b \notin comp[q])
      /\ \A u \in Threads : Carrying(u) => hold[u] # b
  BY DEF TypeOK, PlaceInv
<1>3. /\ CountInv' /\ comp'[p] = comp[p] \cup {b}
      /\ \A q \in Ports : q # p => comp'[q] = comp[q]
  BY <1>1, <1>2, AcceptIs
<1>4. PlaceInv'
  <2>1. comp'["out"] \cap comp'["in"] = {} /\ \A q \in Ports : comp'[q] \cap inpool' = {}
    BY <1>2, <1>3, NamesAre DEF PlaceInv
  <2>2. \A u \in Threads : Carrying(u) => /\ hold[u] \notin inpool'
                                          /\ \A q \in Ports : hold[u] \notin comp'[q]
    BY <1>2, <1>3 DEF PlaceInv
  <2>3. \A q \in Ports : EventBuffer \notin comp[q] => EventBuffer \notin comp'[q]
    BY <1>3
  <2> QED
    BY <1>1, <2>1, <2>2, <2>3 DEF PlaceInv
<1>5. SourceInv'
  BY <1>1 DEF SourceInv
<1>6. \A a : a \in Outstanding' <=> a \in Outstanding \/ a = b
  <2>1. ASSUME NEW a PROVE a \in Outstanding' <=> \/ \E q \in Ports : a \in comp'[q]
                                                  \/ \E u \in Threads : Carrying(u)' /\ hold'[u] = a
    BY DEF Outstanding, Carrying, Ports
  <2>2. ASSUME NEW a PROVE (\E q \in Ports : a \in comp'[q]) <=> a = b \/ \E q \in Ports : a \in comp[q]
    BY <1>3
  <2> QED
    BY <1>1, <2>1, <2>2, OutIs
<1> QED
  BY <1>3, <1>4, <1>5, <1>6

\* A callback passes its buffer to a component.
LEMMA PassIs ==
  ASSUME TypeOK, PlaceInv, SourceInv, CountInv, NEW t \in Threads, NEW p \in Ports, Carrying(t),
         Accept(hold[t], p), Stage(t, "done"), inpool' = inpool, pc' = pc
  PROVE  PlaceInv' /\ SourceInv' /\ CountInv' /\ Outstanding' = Outstanding
<1>1. PICK b : b = hold[t]
  OBVIOUS
<1>2. /\ hold' = hold /\ src' = src /\ stage'[t] = "done" /\ ~Carrying(t)'
      /\ \A u \in Threads \ {t} : stage'[u] = stage[u] /\ (Carrying(u)' <=> Carrying(u))
      /\ \A q : From(q)' = From(q)
  BY StageIs
<1>3. /\ b \in Headers /\ b \notin inpool /\ (\A q \in Ports : b \notin comp[q])
      /\ (\A u \in Threads \ {t} : Carrying(u) => hold[u] # b) /\ stage[t] # "none"
  BY <1>1 DEF TypeOK, PlaceInv, Carrying
<1>4. /\ CountInv' /\ comp'[p] = comp[p] \cup {b}
      /\ \A q \in Ports : q # p => comp'[q] = comp[q]
  BY <1>1, <1>2, <1>3, AcceptIs
<1>5. PlaceInv'
  <2>1. \A u \in Threads : /\ stage'[u] = "none" <=> hold'[u] = NoBuffer
                           /\ stage'[u] = "none" => src'[u] = "none"
    BY <1>2, <1>3 DEF PlaceInv
  <2>2. comp'["out"] \cap comp'["in"] = {} /\ \A q \in Ports : comp'[q] \cap inpool' = {}
    BY <1>3, <1>4, NamesAre DEF PlaceInv
  <2>3. \A u \in Threads : Carrying(u)' => /\ hold'[u] \notin inpool'
                                           /\ \A q \in Ports : hold'[u] \notin comp'[q]
    BY <1>2, <1>3, <1>4 DEF PlaceInv
  <2>4. \A u, v \in Threads : Carrying(u)' /\ Carrying(v)' /\ hold'[u] = hold'[v] => u = v
    BY <1>2 DEF PlaceInv
  <2>5. pc["out"] = "commit" =>
          /\ hold'["out"] = NoBuffer /\ EventBuffer \notin inpool'
          /\ \A q \in Ports : EventBuffer \notin comp'[q]
          /\ \A u \in Threads : Carrying(u)' => hold'[u] # EventBuffer
    BY <1>1, <1>2, <1>4 DEF PlaceInv
  <2> QED
    BY <2>1, <2>2, <2>3, <2>4, <2>5 DEF PlaceInv
<1>6. SourceInv'
  BY <1>2 DEF SourceInv
<1>7. \A a : a \in Outstanding' <=> a \in Outstanding
  <2>1. ASSUME NEW a PROVE a \in Outstanding' <=> \/ \E q \in Ports : a \in comp'[q]
                                                  \/ \E u \in Threads : Carrying(u)' /\ hold'[u] = a
    BY DEF Outstanding, Carrying, Ports
  <2>2. ASSUME NEW a PROVE (\E q \in Ports : a \in comp'[q]) <=> a = b \/ \E q \in Ports : a \in comp[q]
    BY <1>4
  <2>3. ASSUME NEW a
        PROVE  (\E u \in Threads : Carrying(u) /\ hold[u] = a)
                 <=> a = b \/ \E u \in Threads : Carrying(u)' /\ hold'[u] = a
    BY <1>1, <1>2
  <2> QED
    BY <2>1, <2>2, <2>3, OutIs
<1> QED
  BY <1>4, <1>5, <1>6, <1>7

\* A callback gives its buffer back to the pool.
LEMMA BackIs ==
  ASSUME TypeOK, PlaceInv, SourceInv, CountInv, NEW t \in Threads, Carrying(t),
         inpool' = inpool \cup {hold[t]}, Stage(t, "done"), UNCHANGED <<comp, transit, pc>>
  PROVE  /\ PlaceInv' /\ SourceInv' /\ CountInv' /\ hold[t] \in Headers
         /\ \A a : a \in Outstanding' <=> a \in Outstanding /\ a # hold[t]
<1>1. PICK b : b = hold[t]
  OBVIOUS
<1>2. /\ hold' = hold /\ src' = src /\ stage'[t] = "done" /\ ~Carrying(t)'
      /\ \A u \in Threads \ {t} : stage'[u] = stage[u] /\ (Carrying(u)' <=> Carrying(u))
      /\ \A q : From(q)' = From(q)
  BY StageIs
<1>3. /\ b \in Headers /\ b \notin inpool /\ (\A q \in Ports : b \notin comp[q])
      /\ (\A u \in Threads \ {t} : Carrying(u) => hold[u] # b) /\ stage[t] # "none"
  BY <1>1 DEF TypeOK, PlaceInv, Carrying
<1>4. PlaceInv'
  <2>1. \A u \in Threads : /\ stage'[u] = "none" <=> hold'[u] = NoBuffer
                           /\ stage'[u] = "none" => src'[u] = "none"
    BY <1>2, <1>3 DEF PlaceInv
  <2>2. comp'["out"] \cap comp'["in"] = {} /\ \A q \in Ports : comp'[q] \cap inpool' = {}
    BY <1>1, <1>3 DEF PlaceInv
  <2>3. \A u \in Threads : Carrying(u)' => /\ hold'[u] \notin inpool'
                                           /\ \A q \in Ports : hold'[u] \notin comp'[q]
    BY <1>1, <1>2, <1>3 DEF PlaceInv
  <2>4. \A u, v \in Threads : Carrying(u)' /\ Carrying(v)' /\ hold'[u] = hold'[v] => u = v
    BY <1>2 DEF PlaceInv
  <2>5. pc["out"] = "commit" =>
          /\ hold'["out"] = NoBuffer /\ EventBuffer \notin inpool'
          /\ \A q \in Ports : EventBuffer \notin comp'[q]
          /\ \A u \in Threads : Carrying(u)' => hold'[u] # EventBuffer
    BY <1>1, <1>2 DEF PlaceInv
  <2> QED
    BY <2>1, <2>2, <2>3, <2>4, <2>5 DEF PlaceInv
<1>5. SourceInv'
  BY <1>2 DEF SourceInv
<1>6. CountInv'
  BY <1>2 DEF CountInv
<1>7. \A a : a \in Outstanding' <=> a \in Outstanding /\ a # b
  <2>1. ASSUME NEW a PROVE a \in Outstanding' <=> \/ \E q \in Ports : a \in comp'[q]
                                                  \/ \E u \in Threads : Carrying(u)' /\ hold'[u] = a
    BY DEF Outstanding, Carrying, Ports
  <2>2. ASSUME NEW a
        PROVE  (\E u \in Threads : Carrying(u)' /\ hold'[u] = a)
                 <=> a # b /\ \E u \in Threads : Carrying(u) /\ hold[u] = a
    BY <1>1, <1>2, <1>3
  <2> QED
    BY <1>3, <2>1, <2>2, OutIs
<1> QED
  BY <1>1, <1>3, <1>4, <1>5, <1>6, <1>7

\* A callback goes on with its buffer.
LEMMA KeepIs ==
  ASSUME TypeOK, PlaceInv, SourceInv, CountInv, NEW t \in Threads, Carrying(t),
         NEW s \in {"forward", "release", "back"}, Stage(t, s), UNCHANGED <<flow, pc>>
  PROVE  PlaceInv' /\ SourceInv' /\ CountInv' /\ Outstanding' = Outstanding
<1>1. /\ hold' = hold /\ src' = src /\ stage'[t] = s /\ stage[t] # "none"
      /\ (\A u \in Threads \ {t} : stage'[u] = stage[u]) /\ \A q : From(q)' = From(q)
  BY StageIs DEF Carrying
<1>2. \A u \in Threads : Carrying(u)' <=> Carrying(u)
  BY StageIs
<1>3. inpool' = inpool /\ comp' = comp /\ transit' = transit /\ pc' = pc
  BY DEF flow
<1>4. PlaceInv'
  <2>1. \A u \in Threads : stage'[u] = "none" <=> stage[u] = "none"
    BY <1>1
  <2> QED
    BY <1>1, <1>2, <1>3, <2>1 DEF PlaceInv
<1>5. SourceInv'
  BY <1>1, <1>2, <1>3 DEF SourceInv
<1>6. CountInv'
  BY <1>1, <1>3 DEF CountInv
<1>7. \A a : a \in Outstanding' <=> a \in Outstanding
  <2>1. ASSUME NEW a PROVE a \in Outstanding' <=> \/ \E q \in Ports : a \in comp'[q]
                                                  \/ \E u \in Threads : Carrying(u)' /\ hold'[u] = a
    BY DEF Outstanding, Carrying, Ports
  <2> QED
    BY <1>1, <1>2, <1>3, <2>1, OutIs
<1> QED
  BY <1>4, <1>5, <1>6, <1>7

\* A callback returns: its buffer is no longer in transit for the port that made it.
LEMMA DoneIs ==
  ASSUME TypeOK, PlaceInv, SourceInv, CountInv, NEW t \in Threads, stage[t] = "done",
         transit' = [p \in Ports |-> IF p = src[t] THEN transit[p] - 1 ELSE transit[p]],
         Enter(t, NoBuffer, "none", "none"), UNCHANGED <<inpool, comp, pc>>
  PROVE  /\ PlaceInv' /\ SourceInv' /\ CountInv' /\ Outstanding' = Outstanding
         /\ transit' \in [Ports -> Nat]
         /\ \A p \in Ports : transit[p] = 0 => transit'[p] = 0
<1>1. /\ hold'[t] = NoBuffer /\ stage'[t] = "none" /\ src'[t] = "none" /\ ~Carrying(t)'
      /\ \A u \in Threads \ {t} : /\ hold'[u] = hold[u] /\ stage'[u] = stage[u] /\ src'[u] = src[u]
                                  /\ Carrying(u)' <=> Carrying(u)
      /\ \A q : q # "none" => From(q)' = From(q) \ {t}
  BY EnterIs
<1>2. \A u \in Threads : Carrying(u)' <=> Carrying(u)
  BY <1>1 DEF Carrying
<1>3. PlaceInv'
  <2>1. \A u \in Threads : /\ stage'[u] = "none" <=> hold'[u] = NoBuffer
                           /\ stage'[u] = "none" => src'[u] = "none"
    BY <1>1 DEF PlaceInv
  <2>2. \A u \in Threads : Carrying(u)' => hold'[u] = hold[u]
    BY <1>1
  <2>3. pc["out"] = "commit" => hold'["out"] = NoBuffer
    <3>1. "out" \in Threads
      BY NamesAre
    <3> QED
      BY <1>1, <3>1 DEF PlaceInv
  <2> QED
    BY <1>2, <2>1, <2>2, <2>3 DEF PlaceInv
<1>4. SourceInv'
  BY <1>1 DEF SourceInv
<1>5. ASSUME NEW p \in Ports
      PROVE  /\ transit'[p] = Cardinality(comp[p]) + Cardinality(From(p)')
             /\ transit'[p] \in Nat /\ IsFiniteSet(comp[p]) /\ (transit[p] = 0 => transit'[p] = 0)
  <2>1. IsFiniteSet(comp[p]) /\ IsFiniteSet(From(p)) /\ p # "none"
    BY FromIs, NamesAre DEF CountInv
  <2>2. /\ Cardinality(comp[p]) \in Nat /\ Cardinality(From(p)) \in Nat
        /\ t \in From(p) => /\ Cardinality(From(p) \ {t}) = Cardinality(From(p)) - 1
                            /\ Cardinality(From(p)) > 0
    BY <2>1, CountIs
  <2>3. transit[p] = Cardinality(comp[p]) + Cardinality(From(p))
    BY DEF CountInv
  <2>4. From(p)' = From(p) \ {t}
    BY <1>1, <2>1
  <2>5. t \in From(p) <=> p = src[t]
    BY DEF From
  <2>6. CASE p = src[t]
    <3>1. transit'[p] = transit[p] - 1
      BY <2>6
    <3> QED
      BY <2>1, <2>2, <2>3, <2>4, <2>5, <2>6, <3>1
  <2>7. CASE p # src[t]
    <3>1. transit'[p] = transit[p] /\ From(p)' = From(p)
      BY <2>4, <2>5, <2>7
    <3> QED
      BY <2>1, <2>2, <2>3, <3>1
  <2> QED
    BY <2>6, <2>7
<1>6. CountInv'
  BY <1>5 DEF CountInv
<1>7. \A a : a \in Outstanding' <=> a \in Outstanding
  <2>1. ASSUME NEW a PROVE a \in Outstanding' <=> \/ \E q \in Ports : a \in comp'[q]
                                                  \/ \E u \in Threads : Carrying(u)' /\ hold'[u] = a
    BY DEF Outstanding, Carrying, Ports
  <2> QED
    BY <1>1, <1>2, <2>1, OutIs
<1>8. transit' \in [Ports -> Nat]
  BY <1>5
<1> QED
  BY <1>3, <1>4, <1>5, <1>6, <1>7, <1>8

-----------------------------------------------------------------------------
\* The buffers that are outstanding, and those of the connection, after a step that
\* leaves the calls alone.
LEMMA FlowNext ==
  ASSUME TypeOK, IInv,
         UNCHANGED <<connected, is_enabled, pool, live, connection_lock, op, end, todo, then, history>>,
         \A t \in Clients : pc'[t] = pc[t],
         \A p \in Ports : pc'[p] \in {"idle", "acting", "commit"},
         PlaceInv', SourceInv', CountInv',
         \A b \in Outstanding' \ {EventBuffer} : b \in Outstanding \/ b[1] \in live \cup abandoned,
         \A b : b # EventBuffer /\ b \in inpool \cup Outstanding => b \in inpool' \cup Outstanding',
         \A p \in Ports : is_enabled[p] \/ (transit[p] = 0 => transit'[p] = 0)
  PROVE  IInv'
<1>1. LockInv' /\ PhaseInv' /\ \A p : Closing(p)' <=> Closing(p)
  BY CallsSame DEF IInv, history
<1>2. CloseInv'
  BY <1>1 DEF IInv, CloseInv
<1>3. PoolOutlivesBuffers'
  BY DEF IInv, PoolOutlivesBuffers, history
<1>4. NoBufferLost'
  <2>1. ASSUME NEW n \in live', NEW b \in {n} \X Buffers PROVE b \in inpool' \cup Outstanding'
    <3>1. b \in inpool \cup Outstanding
      BY <2>1 DEF IInv, NoBufferLost
    <3>2. b # EventBuffer
      <4>1. n # 0
        BY DEF TypeOK
      <4> QED
        BY <4>1 DEF EventBuffer
    <3> QED
      BY <3>1, <3>2
  <2> QED
    BY <2>1 DEF NoBufferLost
<1>5. MadeInv'
  BY DEF IInv, MadeInv
<1> QED
  BY <1>1, <1>2, <1>3, <1>4, <1>5 DEF IInv

LEMMA CallbackNext ==
  ASSUME TypeOK, IInv, NEW t \in Threads, CallbackStep(t)
  PROVE  TypeOK' /\ IInv'
<1>1. UNCHANGED <<setup, pool_cb, locks, client, pc, calls, history>>
  BY DEF CallbackStep, CallbackTest, CallbackForward, CallbackRelease, CallbackBack, CallbackDone
<1>2. PlaceInv /\ SourceInv /\ CountInv
  BY DEF IInv
<1>3. /\ UNCHANGED <<connected, is_enabled, pool, live, connection_lock, op, end, todo, then, history>>
      /\ pc' = pc /\ \A p \in Ports : pc'[p] \in {"idle", "acting", "commit"}
  BY <1>1 DEF setup, locks, client, history, IInv, LockInv
<1>4. ASSUME inpool' \subseteq Headers, comp' \in [Ports -> SUBSET Headers],
             transit' \in [Ports -> Nat],
             hold' \in [Threads -> Headers \cup {NoBuffer}],
             src' \in [Threads -> Ports \cup {"none"}],
             stage' \in [Threads -> {"none", "test", "forward", "release", "back", "done"}]
      PROVE  TypeOK'
  BY <1>1, <1>4 DEF TypeOK, history, setup, locks, client
<1>5. ASSUME NEW s \in {"forward", "release", "back", "done"}, Stage(t, s)
      PROVE  /\ hold' \in [Threads -> Headers \cup {NoBuffer}]
             /\ src' \in [Threads -> Ports \cup {"none"}]
             /\ stage' \in [Threads -> {"none", "test", "forward", "release", "back", "done"}]
  BY <1>5 DEF Stage, TypeOK
<1>6. CASE \E s \in {"forward", "release", "back"} : Stage(t, s) /\ UNCHANGED flow /\ Carrying(t)
  <2>1. PICK s \in {"forward", "release", "back"} : Stage(t, s)
    BY <1>6
  <2>2. TypeOK'
    BY <1>4, <1>5, <1>6, <2>1 DEF flow, TypeOK
  <2>3. PlaceInv' /\ SourceInv' /\ CountInv' /\ Outstanding' = Outstanding
    BY <1>2, <1>3, <1>6, <2>1, KeepIs
  <2>4. inpool' = inpool /\ transit' = transit
    BY <1>6 DEF flow
  <2>5. IInv'
    BY <1>3, <2>3, <2>4, FlowNext
  <2> QED
    BY <2>2, <2>5
<1>7. CASE \E p \in Ports : Accept(hold[t], p) /\ Stage(t, "done") /\ inpool' = inpool /\ Carrying(t)
  <2>1. PICK p \in Ports : Accept(hold[t], p)
    BY <1>7
  <2>2. PlaceInv' /\ SourceInv' /\ CountInv' /\ Outstanding' = Outstanding
    BY <1>2, <1>3, <1>7, <2>1, PassIs
  <2>3. PICK b \in Headers : b = hold[t] /\ b \notin comp[p]
    BY <1>2, <1>7 DEF PlaceInv, TypeOK, Carrying
  <2>4. \A q : From(q)' = From(q)
    BY <1>7, StageIs
  <2>5. /\ transit' \in [Ports -> Nat] /\ comp' \in [Ports -> SUBSET Headers]
        /\ is_enabled[p] /\ \A q \in Ports : q # p => transit'[q] = transit[q]
    BY <1>2, <2>1, <2>3, <2>4, AcceptIs
  <2>6. TypeOK'
    BY <1>4, <1>5, <1>7, <2>5 DEF TypeOK
  <2>7. IInv'
    BY <1>3, <1>7, <2>2, <2>5, FlowNext
  <2> QED
    BY <2>6, <2>7
<1>8. CASE /\ Stage(t, "done") /\ inpool' = inpool \cup {hold[t]} /\ UNCHANGED <<comp, transit>>
           /\ Carrying(t)
  <2>1. /\ PlaceInv' /\ SourceInv' /\ CountInv' /\ hold[t] \in Headers
        /\ \A a : a \in Outstanding' <=> a \in Outstanding /\ a # hold[t]
    BY <1>2, <1>3, <1>8, BackIs
  <2>2. TypeOK'
    BY <1>4, <1>5, <1>8, <2>1 DEF TypeOK
  <2>3. \A b : b # EventBuffer /\ b \in inpool \cup Outstanding => b \in inpool' \cup Outstanding'
    BY <1>8, <2>1
  <2>4. IInv'
    BY <1>3, <1>8, <2>1, <2>3, FlowNext
  <2> QED
    BY <2>2, <2>4
<1>9. CASE CallbackDone(t)
  <2>1. /\ stage[t] = "done" /\ Enter(t, NoBuffer, "none", "none") /\ UNCHANGED <<inpool, comp>>
        /\ transit' = [p \in Ports |-> IF p = src[t] THEN transit[p] - 1 ELSE transit[p]]
    BY <1>9 DEF CallbackDone
  <2>2. /\ PlaceInv' /\ SourceInv' /\ CountInv' /\ Outstanding' = Outstanding
        /\ transit' \in [Ports -> Nat] /\ \A p \in Ports : transit[p] = 0 => transit'[p] = 0
    BY <1>2, <1>3, <2>1, DoneIs
  <2>3. TypeOK'
    BY <1>4, <2>1, <2>2 DEF TypeOK, Enter
  <2>4. IInv'
    BY <1>3, <2>1, <2>2, FlowNext
  <2> QED
    BY <2>3, <2>4
<1>10. \/ \E s \in {"forward", "release", "back"} : Stage(t, s) /\ UNCHANGED flow /\ Carrying(t)
       \/ \E p \in Ports : Accept(hold[t], p) /\ Stage(t, "done") /\ inpool' = inpool /\ Carrying(t)
       \/ /\ Stage(t, "done") /\ inpool' = inpool \cup {hold[t]} /\ UNCHANGED <<comp, transit>>
          /\ Carrying(t)
       \/ CallbackDone(t)
  <2>1. CASE CallbackTest(t)
    BY <2>1 DEF CallbackTest, Carrying
  <2>2. CASE CallbackForward(t)
    BY <2>2, NamesAre DEF CallbackForward, Refuse, flow, Carrying
  <2>3. CASE CallbackRelease(t)
    BY <2>3 DEF CallbackRelease, flow, Carrying
  <2>4. CASE CallbackBack(t)
    BY <2>4, NamesAre DEF CallbackBack, Refuse, Carrying
  <2> QED
    BY <2>1, <2>2, <2>3, <2>4 DEF CallbackStep
<1> QED
  BY <1>6, <1>7, <1>8, <1>9, <1>10

\* Both ways for a component to return a buffer: while its port is disabled, and from its
\* action thread.
LEMMA ReturnNext ==
  ASSUME TypeOK, IInv, NEW t \in Threads,
         \/ t \in Clients /\ DisableDrain(t)
         \/ t \in Ports /\ ActionReturn(t)
  PROVE  TypeOK' /\ IInv'
<1>1. /\ hold[t] = NoBuffer /\ (t = "out" => pc["out"] # "commit")
      /\ UNCHANGED <<setup, pool_cb, inpool, transit, locks, client, pc, calls, history>>
  BY NamesAre DEF DisableDrain, ActionReturn, At
<1>2. PICK p \in Ports : \E b \in comp[p] : comp' = [comp EXCEPT ![p] = @ \ {b}] /\ Return(t, b, p)
  <2>1. CASE t \in Ports /\ ActionReturn(t)
    BY <2>1 DEF ActionReturn
  <2>2. CASE t \in Clients /\ DisableDrain(t)
    <3>1. PICK p : p = Head(todo[t])
      OBVIOUS
    <3>2. todo[t] \in Seq(Ports) /\ todo[t] # <<>>
      BY <2>2 DEF DisableDrain, At, IInv, LockInv, Closes, TypeOK
    <3>3. p \in Ports
      BY <3>1, <3>2, TailIs
    <3> QED
      BY <2>2, <3>1, <3>3 DEF DisableDrain
  <2> QED
    BY <2>1, <2>2
<1>3. PICK b \in comp[p] : comp' = [comp EXCEPT ![p] = @ \ {b}] /\ Return(t, b, p)
  BY <1>2
<1>4. inpool' = inpool /\ transit' = transit /\ pc' = pc /\ PlaceInv /\ SourceInv /\ CountInv
  BY <1>1 DEF IInv
<1>5. PlaceInv' /\ SourceInv' /\ CountInv' /\ Outstanding' = Outstanding
  BY <1>1, <1>3, <1>4, TakeIs
<1>6. TypeOK'
  <2>1. b \in Headers
    BY DEF TypeOK
  <2>2. comp' \in [Ports -> SUBSET Headers]
    BY <1>3 DEF TypeOK
  <2>3. /\ hold' \in [Threads -> Headers \cup {NoBuffer}]
        /\ src' \in [Threads -> Ports \cup {"none"}]
        /\ stage' \in [Threads -> {"none", "test", "forward", "release", "back", "done"}]
    BY <1>3, <2>1 DEF TypeOK, Return, Enter
  <2> QED
    BY <1>1, <2>2, <2>3 DEF TypeOK, history, setup, locks, client
<1>7. IInv'
  <2>1. /\ UNCHANGED <<connected, is_enabled, pool, live, connection_lock, op, end, todo, then, history>>
        /\ \A q \in Ports : pc'[q] \in {"idle", "acting", "commit"}
    BY <1>1 DEF setup, locks, client, history, IInv, LockInv
  <2> QED
    BY <1>4, <1>5, <2>1, FlowNext
<1> QED
  BY <1>6, <1>7

\* The action threads take their mutex and leave it.
LEMMA ActionNext ==
  ASSUME TypeOK, IInv, NEW p \in Ports, ActionBegin(p) \/ ActionEnd(p)
  PROVE  TypeOK' /\ IInv'
<1>1. /\ UNCHANGED <<setup, pool_cb, flow, connection_lock, lock, client, callback, calls, history>>
      /\ p \in Threads /\ hold[p] = NoBuffer
  BY NamesAre DEF ActionBegin, ActionEnd, At
<1>2. PICK l \in {"idle", "acting"} : pc' = [pc EXCEPT ![p] = l]
  BY DEF ActionBegin, ActionEnd, Goto
<1>3. PICK u \in {p, NoThread} : action_mutex' = [action_mutex EXCEPT ![p] = u]
  BY DEF ActionBegin, ActionEnd
<1>4. pc'[p] = l /\ \A t \in Threads \ {p} : pc'[t] = pc[t]
  BY <1>1, <1>2 DEF TypeOK
<1>5. TypeOK'
  <2>1. action_mutex' \in [Ports -> Threads \cup {NoThread}]
    BY <1>1, <1>3 DEF TypeOK
  <2>2. pc' \in [Threads -> {"idle", "second", "unlock", "create",
                       "enable_in", "enable_out", "populate", "disabling",
                       "locking", "draining", "failing", "waiting", "free",
                       "acting", "commit"}]
    BY <1>2 DEF TypeOK
  <2> QED
    BY <1>1, <2>1, <2>2 DEF TypeOK, history, setup, flow, client, callback
<1>6. /\ \A t \in Clients : pc'[t] = pc[t]
      /\ \A q \in Ports : pc'[q] \in {"idle", "acting", "commit"}
      /\ pc'["out"] = "commit" => pc["out"] = "commit"
  BY <1>4, NamesAre DEF IInv, LockInv
<1>7. PlaceInv' /\ SourceInv' /\ CountInv' /\ Outstanding' = Outstanding
  BY <1>1, <1>6, FlowSame DEF IInv
<1>8. /\ UNCHANGED <<connected, is_enabled, pool, live, connection_lock, op, end, todo, then, history>>
      /\ inpool' = inpool /\ transit' = transit
  BY <1>1 DEF setup, flow, client, history
<1>9. IInv'
  BY <1>6, <1>7, <1>8, FlowNext
<1> QED
  BY <1>5, <1>9

\* The event of a format change is taken from its queue.
LEMMA FormatEventNext ==
  ASSUME TypeOK, IInv, FormatEvent
  PROVE  TypeOK' /\ IInv'
<1>1. /\ "out" \in Threads /\ pc["out"] = "acting" /\ hold["out"] = NoBuffer
      /\ calls["out"] > 0 /\ calls' = [calls EXCEPT !["out"] = @ - 1]
      /\ EventBuffer \in inpool
      /\ UNCHANGED <<setup, pool_cb, comp, transit, locks, client, callback, history>>
  BY NamesAre DEF FormatEvent, At, Spend
<1>2. \/ inpool' = inpool \ {EventBuffer} /\ pc' = [pc EXCEPT !["out"] = "commit"]
      \/ inpool' = inpool /\ pc' = pc
  BY DEF FormatEvent, Goto
<1>3. TypeOK'
  <2>1. calls' \in [Threads -> Nat]
    BY <1>1 DEF TypeOK
  <2>2. inpool' \subseteq Headers
    BY <1>2 DEF TypeOK
  <2>3. pc' \in [Threads -> {"idle", "second", "unlock", "create",
                       "enable_in", "enable_out", "populate", "disabling",
                       "locking", "draining", "failing", "waiting", "free",
                       "acting", "commit"}]
    BY <1>2 DEF TypeOK
  <2> QED
    BY <1>1, <2>1, <2>2, <2>3 DEF TypeOK, history, setup, locks, client, callback
<1>4. /\ hold' = hold /\ stage' = stage /\ src' = src /\ comp' = comp /\ transit' = transit
      /\ (\A q : From(q)' = From(q)) /\ \A t : Carrying(t)' <=> Carrying(t)
      /\ Outstanding' = Outstanding
  BY <1>1 DEF callback, From, Carrying, Outstanding
<1>5. \A t \in Clients : pc'[t] = pc[t]
  <2>1. \A t \in Clients : t \in Threads /\ t # "out"
    BY NamesAre
  <2> QED
    BY <1>2, <2>1 DEF TypeOK
<1>6. \A q \in Ports : pc'[q] \in {"idle", "acting", "commit"}
  BY <1>2, NamesAre DEF IInv, LockInv, TypeOK
<1>7. PlaceInv'
  <2>1. inpool' \subseteq inpool
    BY <1>2
  <2>2. /\ \A q \in Ports : EventBuffer \notin comp[q]
        /\ \A t \in Threads : Carrying(t) => hold[t] # EventBuffer
    BY <1>1 DEF IInv, PlaceInv
  <2>3. pc'["out"] = "commit" => EventBuffer \notin inpool'
    BY <1>1, <1>2
  <2> QED
    BY <1>1, <1>4, <2>1, <2>2, <2>3 DEF IInv, PlaceInv
<1>8. SourceInv'
  BY <1>4, <1>5 DEF IInv, SourceInv
<1>9. CountInv'
  BY <1>4 DEF IInv, CountInv
<1>10. UNCHANGED <<connected, is_enabled, pool, live, connection_lock, op, end, todo, then, history>>
  BY <1>1 DEF setup, locks, client
<1>11. IInv'
  BY <1>2, <1>4, <1>5, <1>6, <1>7, <1>8, <1>9, <1>10, FlowNext
<1> QED
  BY <1>3, <1>11

LEMMA FormatCommitNext ==
  ASSUME TypeOK, IInv, FormatCommit
  PROVE  TypeOK' /\ IInv'
<1>1. /\ "out" \in Threads /\ pc["out"] = "commit" /\ hold["out"] = NoBuffer
      /\ pc' = [pc EXCEPT !["out"] = "acting"]
      /\ UNCHANGED <<setup, pool_cb, flow, locks, client, calls, history>>
  BY NamesAre DEF FormatCommit, At, Goto
<1>2. PICK s \in {"forward", "release"} : Enter("out", EventBuffer, "none", s)
  BY DEF FormatCommit
<1>3. /\ pc'["out"] = "acting" /\ \A u \in Threads \ {"out"} : pc'[u] = pc[u]
  BY <1>1 DEF TypeOK
<1>4. /\ \A q \in Ports : EventBuffer \notin comp[q]
      /\ \A t \in Threads : Carrying(t) => hold[t] # EventBuffer
      /\ EventBuffer \notin inpool /\ PlaceInv /\ SourceInv /\ CountInv
  BY <1>1 DEF IInv, PlaceInv
<1>5. inpool' = inpool \ {EventBuffer} /\ inpool' = inpool /\ comp' = comp /\ transit' = transit
  BY <1>1, <1>4 DEF flow
<1>6. /\ PlaceInv' /\ SourceInv' /\ CountInv'
      /\ \A a : a \in Outstanding' <=> a \in Outstanding \/ a = EventBuffer
  BY <1>1, <1>2, <1>3, <1>4, <1>5, HeadersAre, PickIs
<1>7. TypeOK'
  <2>1. pc' \in [Threads -> {"idle", "second", "unlock", "create",
                       "enable_in", "enable_out", "populate", "disabling",
                       "locking", "draining", "failing", "waiting", "free",
                       "acting", "commit"}]
    BY <1>1 DEF TypeOK
  <2>2. /\ hold' \in [Threads -> Headers \cup {NoBuffer}]
        /\ src' \in [Threads -> Ports \cup {"none"}]
        /\ stage' \in [Threads -> {"none", "test", "forward", "release", "back", "done"}]
    BY <1>2, HeadersAre DEF TypeOK, Enter
  <2> QED
    BY <1>1, <2>1, <2>2 DEF TypeOK, history, setup, flow, locks, client
<1>8. IInv'
  <2>1. /\ UNCHANGED <<connected, is_enabled, pool, live, connection_lock, op, end, todo, then, history>>
        /\ (\A t \in Clients : pc'[t] = pc[t])
        /\ \A q \in Ports : pc'[q] \in {"idle", "acting", "commit"}
    BY <1>1, <1>3, NamesAre DEF setup, locks, client, history, IInv, LockInv
  <2> QED
    BY <1>5, <1>6, <2>1, FlowNext
<1> QED
  BY <1>7, <1>8

-----------------------------------------------------------------------------
\* The steps of a call that move buffers or pools.
LEMMA PopulateNext ==
  ASSUME TypeOK, IInv, NEW t \in Clients, Populate(t)
  PROVE  TypeOK' /\ IInv'
<1>1. /\ pc[t] = "populate" /\ hold[t] = NoBuffer /\ t \in Threads /\ t # "out"
      /\ populated[t] < Cardinality(Buffers)
      /\ UNCHANGED <<setup, pool_cb, locks, op, end, calls, history>>
  BY NamesAre DEF Populate, At
<1>2. PlaceInv /\ SourceInv /\ CountInv
  BY DEF IInv
<1>3. \/ EnableError(t) /\ UNCHANGED <<inpool, comp, transit, populated, callback>>
      \/ \E b \in inpool \cap ({pool} \X Buffers) :
           /\ inpool' = inpool \ {b} /\ Accept(b, "out")
           /\ populated' = [populated EXCEPT ![t] = @ + 1]
           /\ UNCHANGED <<pc, todo, then, callback>>
      \/ \E b \in inpool \cap ({pool} \X Buffers) :
           /\ inpool' = inpool \ {b} /\ EnableError(t)
           /\ Enter(t, b, "none", "release") /\ UNCHANGED <<comp, transit, populated>>
  BY DEF Populate, Refuse
<1>4. \A b \in inpool \cap ({pool} \X Buffers) : b # EventBuffer /\ b[1] \in live
  <2> SUFFICES ASSUME NEW b \in inpool \cap ({pool} \X Buffers) PROVE b # EventBuffer /\ b[1] \in live
    OBVIOUS
  <2>1. PICK c \in Buffers : b = <<pool, c>>
    OBVIOUS
  <2>2. pool \in 1 .. MaxPools
    BY <2>1, HeadersAre DEF TypeOK
  <2>3. pool # 0 /\ pool \in live
    BY <2>2 DEF IInv, MadeInv
  <2> QED
    BY <2>1, <2>3 DEF EventBuffer
\* After the error path has begun.
<1>5. ASSUME EnableError(t), PlaceInv', SourceInv', CountInv', transit' = transit,
             \A b \in Outstanding' \ {EventBuffer} : b \in Outstanding \/ b[1] \in live,
             \A b \in inpool \cup Outstanding : b \in inpool' \cup Outstanding'
      PROVE  IInv'
  <2>1. /\ pc' = [pc EXCEPT ![t] = "disabling"] /\ pc'[t] = "disabling"
        /\ then'[t] = "free" /\ \A q \in Ports : Left(t, q)'
    BY <1>5, ErrorIs
  <2>2. \A u \in Threads \ {t} : pc'[u] = pc[u]
    BY <2>1 DEF TypeOK
  <2>3. (\A u \in Clients \ {t} : then'[u] = then[u] /\ todo'[u] = todo[u]) /\ LockInv'
    <3>1. pc[t] \in Active /\ pc'[t] \in Active /\ pc'[t] \notin Closes /\ Both(t)
      BY <1>1, <2>1 DEF Active, Closes, Both
    <3>2. \A u \in Clients \ {t} : then'[u] = then[u] /\ todo'[u] = todo[u]
      BY <1>5 DEF EnableError, Disabling, TypeOK
    <3> QED
      BY <1>1, <2>2, <3>1, <3>2, LocksKept DEF locks
  <2>5. PhaseInv'
    <3> SUFFICES ASSUME Regular PROVE Phase(t)' /\ pc'[t] \in Active
      <4>1. pc[t] \in Active \cup {"unlock"}
        BY <1>1 DEF Active
      <4> QED
        BY <1>1, <2>2, <4>1, PhaseAlone DEF history
    <3>1. connected /\ op[t] = "enable" /\ live = {pool}
      BY <1>1 DEF Regular, Phase, Active
    <3> QED
      BY <1>1, <2>1, <3>1 DEF Phase, Active, Closes, Both, setup
  <2>6. CloseInv'
    <3>1. \A q : Closing(q)' <=> Closing(q)
      BY <1>1, <2>1, <2>2, <2>3, ClosingSame DEF Closes
    <3> QED
      BY <1>1, <1>5, <3>1 DEF IInv, CloseInv, setup
  <2>7. PoolOutlivesBuffers' /\ NoBufferLost' /\ MadeInv'
    BY <1>1, <1>5 DEF IInv, PoolOutlivesBuffers, NoBufferLost, MadeInv, setup, history
  <2> QED
    BY <1>5, <2>3, <2>5, <2>6, <2>7 DEF IInv
<1>6. ASSUME EnableError(t), populated' = populated, inpool' \subseteq Headers,
             UNCHANGED <<comp, transit>>,
             hold' \in [Threads -> Headers \cup {NoBuffer}],
             src' \in [Threads -> Ports \cup {"none"}],
             stage' \in [Threads -> {"none", "test", "forward", "release", "back", "done"}]
      PROVE  TypeOK'
  <2>1. /\ todo' \in [Clients -> Seq(Ports)] /\ then' \in [Clients -> {"unlock", "free"}]
        /\ pc' = [pc EXCEPT ![t] = "disabling"]
    BY <1>6, ErrorIs
  <2>2. pc' \in [Threads -> {"idle", "second", "unlock", "create",
                       "enable_in", "enable_out", "populate", "disabling",
                       "locking", "draining", "failing", "waiting", "free",
                       "acting", "commit"}]
    BY <2>1 DEF TypeOK
  <2> QED
    BY <1>1, <1>6, <2>1, <2>2 DEF TypeOK, history, setup, locks
<1>7. CASE EnableError(t) /\ UNCHANGED <<inpool, comp, transit, populated, callback>>
  <2>1. TypeOK'
    BY <1>6, <1>7 DEF TypeOK, callback
  <2>2. \A u \in Threads \ {t} : pc'[u] = pc[u]
    BY <1>7, ErrorIs DEF TypeOK
  <2>3. /\ pc'["out"] = "commit" => pc["out"] = "commit"
        /\ \A u \in Clients : hold[u] # NoBuffer => pc'[u] = pc[u]
    BY <1>1, <2>2, NamesAre
  <2>4. PlaceInv' /\ SourceInv' /\ CountInv' /\ Outstanding' = Outstanding
    BY <1>2, <1>7, <2>3, FlowSame DEF flow
  <2>5. IInv'
    BY <1>5, <1>7, <2>4
  <2> QED
    BY <2>1, <2>5
<1>8. CASE \E b \in inpool \cap ({pool} \X Buffers) :
             /\ inpool' = inpool \ {b} /\ EnableError(t)
             /\ Enter(t, b, "none", "release") /\ UNCHANGED <<comp, transit, populated>>
  <2>1. PICK b \in inpool \cap ({pool} \X Buffers) :
               /\ inpool' = inpool \ {b} /\ EnableError(t)
               /\ Enter(t, b, "none", "release") /\ UNCHANGED <<comp, transit, populated>>
    BY <1>8
  <2>2. /\ b \in Headers /\ b # EventBuffer /\ b[1] \in live
        /\ (\A q \in Ports : b \notin comp[q]) /\ \A u \in Threads : Carrying(u) => hold[u] # b
    BY <1>2, <1>4 DEF PlaceInv, TypeOK
  <2>3. pc'[t] = "disabling" /\ \A u \in Threads \ {t} : pc'[u] = pc[u]
    BY <2>1, ErrorIs DEF TypeOK
  <2>4. pc'["out"] = "commit" => pc["out"] = "commit"
    BY <1>1, <2>3, NamesAre
  <2>5. /\ PlaceInv' /\ SourceInv' /\ CountInv'
        /\ \A a : a \in Outstanding' <=> a \in Outstanding \/ a = b
    BY <1>1, <1>2, <2>1, <2>2, <2>3, <2>4, PickIs
  <2>6. TypeOK'
    <3>1. /\ hold' \in [Threads -> Headers \cup {NoBuffer}]
          /\ src' \in [Threads -> Ports \cup {"none"}]
          /\ stage' \in [Threads -> {"none", "test", "forward", "release", "back", "done"}]
      BY <2>1, <2>2 DEF TypeOK, Enter
    <3>2. inpool' \subseteq Headers
      BY <2>1 DEF TypeOK
    <3> QED
      BY <1>6, <2>1, <3>1, <3>2
  <2>7. IInv'
    BY <1>5, <2>1, <2>2, <2>5
  <2> QED
    BY <2>6, <2>7
<1>9. CASE \E b \in inpool \cap ({pool} \X Buffers) :
             /\ inpool' = inpool \ {b} /\ Accept(b, "out")
             /\ populated' = [populated EXCEPT ![t] = @ + 1]
             /\ UNCHANGED <<pc, todo, then, callback>>
  <2>1. PICK b \in inpool \cap ({pool} \X Buffers) :
               /\ inpool' = inpool \ {b} /\ Accept(b, "out")
               /\ populated' = [populated EXCEPT ![t] = @ + 1]
               /\ UNCHANGED <<pc, todo, then, callback>>
    BY <1>9
  <2>2. b \in Headers /\ b # EventBuffer /\ b[1] \in live /\ "out" \in Ports /\ b \notin comp["out"]
    BY <1>2, <1>4, NamesAre DEF PlaceInv, TypeOK
  <2>3. /\ PlaceInv' /\ SourceInv' /\ CountInv'
        /\ \A a : a \in Outstanding' <=> a \in Outstanding \/ a = b
    BY <1>2, <2>1, <2>2, PutIs
  <2>4. \A q : From(q)' = From(q)
    BY <2>1 DEF From, callback
  <2>5. /\ transit' \in [Ports -> Nat] /\ comp' \in [Ports -> SUBSET Headers]
        /\ is_enabled["out"] /\ \A q \in Ports : q # "out" => transit'[q] = transit[q]
    BY <1>2, <2>1, <2>2, <2>4, AcceptIs
  <2>6. TypeOK'
    <3>1. Cardinality(Buffers) \in Nat
      BY BoundsAssumption, FS_CardinalityType
    <3>2. populated[t] \in 0 .. Cardinality(Buffers)
      BY DEF TypeOK
    <3>3. populated[t] + 1 \in 0 .. Cardinality(Buffers)
      BY <1>1, <3>1, <3>2
    <3>4. populated' \in [Clients -> 0 .. Cardinality(Buffers)]
      BY <2>1, <3>3 DEF TypeOK
    <3>5. inpool' \subseteq Headers
      BY <2>1 DEF TypeOK
    <3> QED
      BY <1>1, <2>1, <2>5, <3>4, <3>5 DEF TypeOK, history, setup, locks, callback
  <2>7. IInv'
    <3>1. /\ UNCHANGED <<connected, is_enabled, pool, live, connection_lock, op, end, todo, then, history>>
          /\ pc' = pc /\ \A q \in Ports : pc'[q] \in {"idle", "acting", "commit"}
      BY <1>1, <2>1 DEF setup, locks, history, IInv, LockInv
    <3>2. \A a : a # EventBuffer /\ a \in inpool \cup Outstanding => a \in inpool' \cup Outstanding'
      BY <2>1, <2>3
    <3>3. \A q \in Ports : is_enabled[q] \/ (transit[q] = 0 => transit'[q] = 0)
      BY <2>5
    <3>4. \A a \in Outstanding' \ {EventBuffer} : a \in Outstanding \/ a[1] \in live \cup abandoned
      BY <2>2, <2>3
    <3> QED
      BY <2>3, <3>1, <3>2, <3>3, <3>4, FlowNext
  <2> QED
    BY <2>6, <2>7
<1> QED
  BY <1>3, <1>7, <1>8, <1>9

LEMMA CreateNext ==
  ASSUME TypeOK, IInv, NEW t \in Clients, CreatePool(t)
  PROVE  TypeOK' /\ IInv'
<1>1. /\ pc[t] = "create" /\ hold[t] = NoBuffer /\ t \in Threads
      /\ UNCHANGED <<connected, is_enabled, out_cb, comp, transit, locks, client,
                     callback, calls, history>>
  BY NamesAre DEF CreatePool, At
<1>2. /\ PlaceInv /\ SourceInv /\ CountInv /\ Both(t)
      /\ Regular => /\ connected /\ op[t] = "enable" /\ live = {}
                    /\ \A q \in Ports : ~is_enabled[q]
  BY <1>1 DEF IInv, Regular, Phase, Active, Closes, Both
<1>3. \/ \E n \in 1 .. MaxPools :
           /\ n \notin live \cup abandoned
           /\ pool' = n /\ live' = live \cup {n} /\ pool_cb' = pool_cb \cup {n}
           /\ inpool' = inpool \cup ({n} \X Buffers)
           /\ pc' = [pc EXCEPT ![t] = "enable_in"]
      \/ pc' = [pc EXCEPT ![t] = "unlock"] /\ UNCHANGED <<pool, live, pool_cb, inpool>>
  <2>1. CASE \E n \in 1 .. MaxPools :
               /\ \A m \in live \cup abandoned : m < n
               /\ pool' = n /\ live' = live \cup {n} /\ pool_cb' = pool_cb \cup {n}
               /\ inpool' = inpool \cup ({n} \X Buffers)
               /\ pc' = [pc EXCEPT ![t] = "enable_in"]
    BY <2>1, BoundsAssumption
  <2> QED
    BY <2>1 DEF CreatePool, Goto
<1>4. PICK l \in {"enable_in", "unlock"} : pc' = [pc EXCEPT ![t] = l]
  BY <1>3
<1>5. pc'[t] = l /\ \A u \in Threads \ {t} : pc'[u] = pc[u]
  BY <1>1, <1>4 DEF TypeOK
<1>6. LockInv'
  <2>1. /\ pc[t] \in Active /\ pc'[t] \in Active \cup {"unlock"} /\ pc'[t] \notin Closes
    BY <1>1, <1>5 DEF Active, Closes
  <2> QED
    BY <1>1, <1>2, <1>5, <2>1, LocksKept DEF locks, client
<1>7. CloseInv'
  <2>1. \A q : Closing(q)' <=> Closing(q)
    BY <1>1, <1>5, ClosingSame DEF Closes, client
  <2> QED
    BY <1>1, <2>1 DEF IInv, CloseInv
<1>8. pc' \in [Threads -> {"idle", "second", "unlock", "create",
                     "enable_in", "enable_out", "populate", "disabling",
                     "locking", "draining", "failing", "waiting", "free",
                     "acting", "commit"}]
  BY <1>4 DEF TypeOK
<1>9. /\ \A t_1 \in Clients : hold[t_1] # NoBuffer => pc'[t_1] = pc[t_1]
      /\ pc'["out"] = "commit" => pc["out"] = "commit"
  BY <1>1, <1>5, NamesAre
<1>10. CASE pc' = [pc EXCEPT ![t] = "unlock"] /\ UNCHANGED <<pool, live, pool_cb, inpool>>
  <2>1. pc'[t] = "unlock"
    BY <1>1, <1>10 DEF TypeOK
  <2>2. TypeOK'
    BY <1>1, <1>8, <1>10 DEF TypeOK, history, locks, client, callback
  <2>3. PlaceInv' /\ SourceInv' /\ CountInv' /\ PoolOutlivesBuffers' /\ NoBufferLost' /\ MadeInv'
    BY <1>1, <1>5, <1>10, StepSame DEF flow, history
  <2>4. PhaseInv'
    <3> SUFFICES ASSUME Regular PROVE Phase(t)' /\ Quiet'
      <4>1. pc[t] \in Active \cup {"unlock"}
        BY <1>1 DEF Active
      <4> QED
        BY <1>1, <1>5, <4>1, PhaseAlone DEF history
    <3>1. Quiet'
      BY <1>1, <1>2, <1>10, NamesAre DEF Quiet, TypeOK
    <3>2. \A q \in Ports : connection_lock'[q] = t
      BY <1>1, <1>2 DEF IInv, LockInv, locks
    <3> QED
      BY <2>1, <3>1, <3>2 DEF Phase, Active, Closes
  <2> QED
    BY <1>6, <1>7, <2>2, <2>3, <2>4 DEF IInv
<1>11. CASE \E n \in 1 .. MaxPools :
              /\ n \notin live \cup abandoned
              /\ pool' = n /\ live' = live \cup {n} /\ pool_cb' = pool_cb \cup {n}
              /\ inpool' = inpool \cup ({n} \X Buffers)
              /\ pc' = [pc EXCEPT ![t] = "enable_in"]
  <2>1. PICK n \in 1 .. MaxPools :
              /\ n \notin live \cup abandoned
              /\ pool' = n /\ live' = live \cup {n} /\ pool_cb' = pool_cb \cup {n}
              /\ inpool' = inpool \cup ({n} \X Buffers)
              /\ pc' = [pc EXCEPT ![t] = "enable_in"]
    BY <1>11
  <2>2. pc'[t] = "enable_in"
    BY <1>1, <2>1 DEF TypeOK
  <2>3. {n} \X Buffers \subseteq Headers /\ EventBuffer \notin {n} \X Buffers
    BY HeadersAre
  <2>4. TypeOK'
    <3>1. MaxPools \in Nat
      BY BoundsAssumption
    <3>2. pool' \in 0 .. MaxPools
      BY <2>1, <3>1
    <3>3. live' \subseteq 1 .. MaxPools /\ pool_cb' \subseteq 1 .. MaxPools
      BY <2>1 DEF TypeOK
    <3>4. inpool' \subseteq Headers
      BY <2>1, <2>3 DEF TypeOK
    <3> QED
      BY <1>1, <1>8, <3>2, <3>3, <3>4 DEF TypeOK, history, locks, client, callback
  <2>5. PhaseInv'
    <3> SUFFICES ASSUME Regular PROVE Phase(t)' /\ pc'[t] \in Active
      <4>1. pc[t] \in Active \cup {"unlock"}
        BY <1>1 DEF Active
      <4> QED
        BY <1>1, <1>5, <4>1, PhaseAlone DEF history
    <3>1. live' = {pool'}
      BY <1>2, <2>1
    <3> QED
      BY <1>1, <1>2, <2>2, <3>1 DEF Phase, Active, Closes, Both, client
\* Nothing of a pool that is neither allocated nor abandoned is outstanding.
  <2>7. \A b \in Outstanding : b \notin {n} \X Buffers
    <3>1. n # 0
      OBVIOUS
    <3>2. ASSUME NEW b \in Outstanding, NEW c \in Buffers, b = <<n, c>> PROVE FALSE
      <4>1. b # EventBuffer /\ b[1] = n
        BY <3>1, <3>2 DEF EventBuffer
      <4> QED
        BY <2>1, <4>1 DEF IInv, PoolOutlivesBuffers
    <3> QED
      BY <3>2
  <2>8. /\ hold' = hold /\ stage' = stage /\ src' = src /\ comp' = comp /\ transit' = transit
        /\ (\A q : From(q)' = From(q)) /\ \A u : Carrying(u)' <=> Carrying(u)
        /\ Outstanding' = Outstanding
    BY <1>1 DEF callback, From, Carrying, Outstanding
  <2>9. PlaceInv'
    <3>1. \A q \in Ports : comp[q] \cap ({n} \X Buffers) = {}
      BY <2>3, <2>7, OutIs
    <3>2. \A u \in Threads : Carrying(u) => hold[u] \notin {n} \X Buffers
      BY <2>3, <2>7, OutIs
    <3>3. /\ \A q \in Ports : comp[q] \cap inpool' = {}
          /\ \A u \in Threads : Carrying(u) => hold[u] \notin inpool'
          /\ EventBuffer \notin inpool => EventBuffer \notin inpool'
      BY <1>2, <2>1, <2>3, <3>1, <3>2 DEF PlaceInv
    <3> QED
      BY <1>2, <1>9, <2>8, <3>3 DEF PlaceInv
  <2>10. SourceInv'
    BY <1>2, <1>9, <2>8 DEF SourceInv, PlaceInv, Carrying
  <2>11. CountInv'
    BY <1>2, <2>8 DEF CountInv
  <2>12. PoolOutlivesBuffers'
    BY <1>1, <2>1, <2>8 DEF IInv, PoolOutlivesBuffers, history
  <2>13. NoBufferLost' /\ MadeInv'
    BY <2>1, <2>8 DEF IInv, NoBufferLost, MadeInv
  <2> QED
    BY <1>6, <1>7, <2>4, <2>5, <2>9, <2>10, <2>11, <2>12, <2>13 DEF IInv
<1> QED
  BY <1>3, <1>10, <1>11

\* The pool goes when both ports are disabled, hence with all its buffers in its queue, or it
\* is abandoned.
LEMMA FreeNext ==
  ASSUME TypeOK, IInv, NEW t \in Clients, FreePool(t)
  PROVE  TypeOK' /\ IInv'
<1>1. /\ pc[t] = "free" /\ hold[t] = NoBuffer /\ t \in Threads
      /\ live' = live \ {pool} /\ pool_cb' = pool_cb \ {pool}
      /\ inpool' = inpool \ ({pool} \X Buffers) /\ pool' = 0
      /\ connected' = (connected /\ op[t] # "disconnect")
      /\ pc' = [pc EXCEPT ![t] = "unlock"]
      /\ UNCHANGED <<is_enabled, out_cb, comp, transit, locks, client, callback, calls>>
      /\ Leaves
  BY NamesAre DEF FreePool, At, Goto
<1>2. PlaceInv /\ SourceInv /\ CountInv /\ Both(t) /\ \A q \in Ports : connection_lock[q] = t
  BY <1>1 DEF IInv, LockInv, Active, Closes, Both
<1>3. pc'[t] = "unlock" /\ \A u \in Threads \ {t} : pc'[u] = pc[u]
  BY <1>1 DEF TypeOK
<1>4. (\A u \in Clients \ {t} : pc[u] = "idle" /\ pc'[u] = "idle") /\ LockInv'
  <2>1. \A u \in Clients \ {t} : pc[u] = "idle" /\ pc'[u] = "idle"
    BY <1>2, <1>3, Alone, NamesAre DEF IInv
  <2>2. pc[t] \in Active /\ pc'[t] \in Active \cup {"unlock"} /\ pc'[t] \notin Closes
    BY <1>1, <1>3 DEF Active, Closes
  <2> QED
    BY <1>1, <1>2, <1>3, <2>1, <2>2, LocksKept DEF locks, client
<1>5. \A q : ~Closing(q)
  BY <1>1, <1>4 DEF Closing, Closes
<1>6. CloseInv'
  BY <1>1, <1>5 DEF IInv, CloseInv
<1>7. TypeOK'
  <2>1. pc' \in [Threads -> {"idle", "second", "unlock", "create",
                       "enable_in", "enable_out", "populate", "disabling",
                       "locking", "draining", "failing", "waiting", "free",
                       "acting", "commit"}]
    BY <1>1 DEF TypeOK
  <2>2. pool' \in 0 .. MaxPools
    BY <1>1, BoundsAssumption
  <2>3. live' \subseteq 1 .. MaxPools /\ pool_cb' \subseteq 1 .. MaxPools /\ inpool' \subseteq Headers
    BY <1>1 DEF TypeOK
  <2>4. connected' \in BOOLEAN
    BY <1>1 DEF TypeOK
  <2>5. halfway' \in BOOLEAN /\ abandoned' \subseteq 1 .. MaxPools
    BY <1>1 DEF TypeOK, Leaves
  <2> QED
    BY <1>1, <2>1, <2>2, <2>3, <2>4, <2>5 DEF TypeOK, locks, client, callback
<1>8. PhaseInv'
  <2> SUFFICES ASSUME ~halfway' PROVE Regular'
    BY DEF PhaseInv
  <2>1. (\A q \in Ports : ~is_enabled[q]) /\ live' = {}
    <3>1. CASE halfway
      BY <1>1, <3>1 DEF Leaves
    <3>2. CASE ~halfway
      <4>1. Phase(t)
        BY <3>2 DEF IInv, PhaseInv, Regular
      <4> QED
        BY <1>1, <4>1 DEF Phase, Active
    <3> QED
      BY <3>1, <3>2 DEF TypeOK
  <2>2. Quiet'
    <3>1. is_enabled'["out"] = FALSE /\ is_enabled'["in"] = FALSE
      BY <1>1, <2>1, NamesAre DEF TypeOK
    <3> QED
      BY <2>1, <3>1 DEF Quiet
  <2>3. Phase(t)'
    BY <1>1, <1>2, <1>3 DEF Phase, Active, Closes, locks
  <2>4. \A u \in Clients \ {t} : Phase(u)'
    BY <1>4 DEF Phase, Active, Closes
  <2> QED
    BY <2>2, <2>3, <2>4 DEF Regular
<1>9. ASSUME NEW q \in Ports, ~is_enabled[q] PROVE comp[q] = {} /\ From(q) = {}
  <2>1. transit[q] = 0 /\ transit[q] = Cardinality(comp[q]) + Cardinality(From(q))
    BY <1>2, <1>5, <1>9 DEF IInv, CloseInv, CountInv
  <2>2. IsFiniteSet(comp[q]) /\ IsFiniteSet(From(q))
    BY <1>2, FromIs DEF CountInv
  <2>3. /\ Cardinality(comp[q]) \in Nat /\ (Cardinality(comp[q]) = 0 <=> comp[q] = {})
        /\ Cardinality(From(q)) \in Nat /\ (Cardinality(From(q)) = 0 <=> From(q) = {})
    BY <2>2, CountIs
  <2>4. Cardinality(comp[q]) = 0 /\ Cardinality(From(q)) = 0
    BY <2>1, <2>3
  <2> QED
    BY <2>3, <2>4
<1>10. ASSUME \A q \in Ports : ~is_enabled[q] PROVE \A b \in Outstanding : b = EventBuffer
  <2>1. ASSUME NEW u \in Threads, Carrying(u) PROVE hold[u] = EventBuffer
    <3>1. src[u] = "none"
      BY <1>9, <1>10 DEF From, TypeOK
    <3>2. ~(u \in Clients /\ pc[u] = "disabling")
      BY <1>1, <1>4
    <3> QED
      BY <1>2, <2>1, <3>1, <3>2 DEF SourceInv
  <2> QED
    BY <1>9, <1>10, <2>1, OutIs
<1>11. /\ hold' = hold /\ stage' = stage /\ src' = src /\ comp' = comp /\ transit' = transit
       /\ (\A q : From(q)' = From(q)) /\ (\A u : Carrying(u)' <=> Carrying(u))
       /\ Outstanding' = Outstanding
  BY <1>1 DEF callback, From, Carrying, Outstanding
<1>12. /\ \A u \in Clients : hold[u] # NoBuffer => pc'[u] = pc[u]
       /\ pc'["out"] = "commit" => pc["out"] = "commit"
  BY <1>1, <1>3, NamesAre
<1>13. PlaceInv'
  <2>1. inpool' \subseteq inpool
    BY <1>1
  <2> QED
    BY <1>2, <1>11, <1>12, <2>1 DEF PlaceInv
<1>14. SourceInv'
  BY <1>2, <1>11, <1>12 DEF SourceInv, PlaceInv, Carrying
<1>15. CountInv'
  BY <1>2, <1>11 DEF CountInv
<1>16. PoolOutlivesBuffers'
  <2>1. CASE \A q \in Ports : ~is_enabled[q]
    BY <1>10, <1>11, <2>1 DEF PoolOutlivesBuffers
  <2>2. CASE \E q \in Ports : is_enabled[q]
    <3>1. live \cup abandoned \subseteq live' \cup abandoned'
      BY <1>1, <2>2 DEF Leaves
    <3> QED
      BY <1>11, <3>1 DEF IInv, PoolOutlivesBuffers
  <2> QED
    BY <2>1, <2>2
<1>17. NoBufferLost' /\ MadeInv'
  <2>1. ASSUME NEW n \in live', NEW b \in {n} \X Buffers PROVE b \in inpool' \cup Outstanding'
    <3>1. n \in live /\ n # pool
      BY <1>1
    <3>2. b \in inpool \cup Outstanding /\ b \notin {pool} \X Buffers
      BY <3>1 DEF IInv, NoBufferLost
    <3> QED
      BY <1>1, <1>11, <3>2
  <2> QED
    BY <1>1, <2>1 DEF NoBufferLost, MadeInv
<1> QED
  BY <1>4, <1>6, <1>7, <1>8, <1>13, <1>14, <1>15, <1>16, <1>17 DEF IInv
-----------------------------------------------------------------------------
LEMMA InitHolds == Init => TypeOK /\ IInv
<1> SUFFICES ASSUME Init PROVE TypeOK /\ IInv
  OBVIOUS
<1> USE DEF Init
<1>1. TypeOK
  <2>1. Cardinality(Buffers) \in Nat /\ {MaxPools, MaxCalls, MaxEvents} \subseteq Nat
    BY BoundsAssumption, FS_CardinalityType
  <2>2. populated \in [Clients -> 0 .. Cardinality(Buffers)] /\ calls \in [Threads -> Nat]
    BY <2>1
  <2>3. pool \in 0 .. MaxPools
    BY <2>1
  <2>4. todo \in [Clients -> Seq(Ports)]
    OBVIOUS
  <2> QED
    BY <2>2, <2>3, <2>4, HeadersAre, NamesAre DEF TypeOK
<1>2. \A t \in Threads : stage[t] = "none" /\ hold[t] = NoBuffer /\ src[t] = "none" /\ ~Carrying(t)
  BY DEF Carrying
<1>3. LockInv
  <2>1. \A t \in Clients : t # NoThread /\ t \in Threads
    BY NamesAssumption, NamesAre
  <2>2. \A p \in Ports : p \in Threads
    BY NamesAre
  <2> QED
    BY <2>1, <2>2 DEF LockInv, Both, Active, Closes
<1>4. PhaseInv
  <2>1. \A t \in Clients : pc[t] = "idle"
    BY NamesAre
  <2> QED
    BY <2>1, NamesAre DEF PhaseInv, Regular, Phase, Quiet, Active, Closes
<1>5. PlaceInv
  BY <1>2, NamesAre DEF PlaceInv
<1>6. SourceInv
  BY <1>2 DEF SourceInv
<1>7. CountInv
  <2>1. \A p \in Ports : From(p) = {} /\ comp[p] = {} /\ transit[p] = 0
    BY <1>2, NamesAre DEF From
  <2>2. IsFiniteSet({}) /\ Cardinality({}) = 0
    BY FS_EmptySet
  <2>3. \A p \in Ports : /\ IsFiniteSet(comp[p]) /\ Cardinality(comp[p]) = 0
                         /\ Cardinality(From(p)) = 0 /\ transit[p] = 0
    BY <2>1, <2>2
  <2> QED
    BY <2>3 DEF CountInv
<1>8. CloseInv
  BY DEF CloseInv
<1>9. PoolOutlivesBuffers
  BY <1>2, OutIs DEF PoolOutlivesBuffers
<1>10. NoBufferLost /\ MadeInv
  BY DEF NoBufferLost, MadeInv
<1> QED
  BY <1>1, <1>3, <1>4, <1>5, <1>6, <1>7, <1>8, <1>9, <1>10 DEF IInv

LEMMA IdleHolds == TypeOK /\ IInv /\ UNCHANGED vars => TypeOK' /\ IInv'
<1> SUFFICES ASSUME TypeOK, IInv, UNCHANGED vars PROVE TypeOK' /\ IInv'
  OBVIOUS
<1>1. UNCHANGED <<setup, pool_cb, flow, locks, client, pc, callback, calls, history>>
  BY DEF vars
<1>2. TypeOK'
  BY <1>1 DEF TypeOK, history, setup, flow, locks, client, callback
<1>3. /\ UNCHANGED <<connected, is_enabled, pool, live, connection_lock, op, end, todo, then, history>>
      /\ UNCHANGED <<inpool, transit>> /\ pc' = pc
      /\ \A p \in Ports : pc'[p] \in {"idle", "acting", "commit"}
  BY <1>1 DEF setup, flow, locks, client, history, IInv, LockInv
<1>4. PlaceInv' /\ SourceInv' /\ CountInv' /\ Outstanding' = Outstanding
  BY <1>1, FlowSame DEF IInv
<1>5. IInv'
  BY <1>3, <1>4, FlowNext
<1> QED
  BY <1>2, <1>5

LEMMA NextHolds ==
  TypeOK /\ IInv /\ Next => TypeOK' /\ IInv'
<1> SUFFICES ASSUME TypeOK, IInv, Next PROVE TypeOK' /\ IInv'
  OBVIOUS
<1>1. ASSUME NEW t \in Clients, ClientStep(t) PROVE TypeOK' /\ IInv'
  BY <1>1, NamesAre, SecondNext, UnlockNext, CreateNext, EnableNext, PopulateNext,
     PopulatedNext, DisableLockNext, DisableActionNext, ReturnNext, DisableUndoNext,
     DisableWaitNext, DisabledNext, FreeNext DEF ClientStep
<1>2. ASSUME NEW t \in Clients, NEW o \in Calls, NEW p \in Ends[t], Begin(t, o, p)
      PROVE  TypeOK' /\ IInv'
  <2>1. p \in Ports
    BY NamesAssumption
  <2> QED
    BY <1>2, <2>1, BeginNext
<1>3. ASSUME NEW t \in Threads, CallbackStep(t) PROVE TypeOK' /\ IInv'
  BY <1>3, CallbackNext
<1>4. ASSUME NEW p \in Ports, ActionBegin(p) \/ ActionReturn(p) \/ ActionEnd(p)
      PROVE  TypeOK' /\ IInv'
  BY <1>4, NamesAre, ActionNext, ReturnNext
<1>5. CASE FormatEvent \/ FormatCommit
  BY <1>5, FormatEventNext, FormatCommitNext
<1>6. CASE Rest
  BY <1>6, IdleHolds DEF Rest
<1> QED
  BY <1>1, <1>2, <1>3, <1>4, <1>5, <1>6 DEF Next

\* The connection is consistent at every step of every call and every callback, whatever fails:
\* each buffer is in one place, and a port's transit count is exactly what its component and
\* its callbacks have.  A call past its second lock is alone, and until a failed disable has
\* left the ends apart every call finds the connection as the last one has left it.
THEOREM Invariance == Spec => [](TypeOK /\ IInv)
<1>1. TypeOK /\ IInv /\ [Next]_vars => TypeOK' /\ IInv'
  BY NextHolds, IdleHolds
<1> QED
  BY InitHolds, <1>1, PTL DEF Spec

\* The variables keep their types.
THEOREM TypeCorrect == Spec => []TypeOK
BY Invariance, PTL

\* mmal_pool_destroy is never called while a buffer of the pool is with a component or in a
\* callback, whatever fails, unless a port of the connection could not be disabled.
THEOREM PoolSafe == Spec => []PoolOutlivesBuffers
<1>1. TypeOK /\ IInv => PoolOutlivesBuffers
  BY DEF IInv
<1> QED
  BY <1>1, Invariance, PTL

\* The connection keeps all its buffers, whatever is refused on the way round.
THEOREM BuffersKept == Spec => []NoBufferLost
<1>1. TypeOK /\ IInv => NoBufferLost
  BY DEF IInv
<1> QED
  BY <1>1, Invariance, PTL

\* Between calls both ports are enabled with one pool, or both are disabled without any,
\* however the calls through the two ends were interleaved and whichever of them failed,
\* except after a disable that failed on the second port or on the error path of an enable,
\* until a later disable has succeeded.
THEOREM EndsAlike == Spec => []EndsAgree
<1>1. TypeOK /\ IInv => EndsAgree
  <2> SUFFICES ASSUME TypeOK, IInv, ~halfway, \A p \in Ports : connection_lock[p] = NoThread
               PROVE  Quiet
    BY DEF EndsAgree, Quiet
  <2>1. \A t \in Clients : t # NoThread
    BY NamesAssumption, NamesAre
  <2>2. \A t \in Clients : pc[t] \in {"idle", "second"}
    BY <2>1, NamesAre, RegularAlone DEF IInv, PhaseInv
  <2> QED
    BY <2>2 DEF IInv, PhaseInv, Regular, Active, Closes
<1> QED
  BY <1>1, Invariance, PTL
=============================================================================
