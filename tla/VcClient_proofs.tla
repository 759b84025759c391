----------------------------- MODULE VcClient_proofs -----------------------------
(***************************************************************************)
(* Proofs about the client side of the VideoCore components: every caller  *)
(* gets the reply to its own request, the service is kept while it is used,*)
(* data stays with the message that announced it, and a disable finds      *)
(* every buffer, for any callers, ports, buffers and waiters.              *)
(***************************************************************************)
EXTENDS VcClient, FiniteSetTheorems, SequenceTheorems, WellFoundedInduction, TLAPS

One(P) == IF P THEN 1 ELSE 0

-----------------------------------------------------------------------------
\* Queues whose entries differ, by what is in them and in which order.
Injective(s) == \A i, j \in DOMAIN s : s[i] = s[j] => i = j
Before(s, a, b) == \E i, j \in DOMAIN s : i < j /\ s[i] = a /\ s[j] = b

LEMMA QueueIs ==
  ASSUME NEW S, NEW s \in Seq(S)
  PROVE  /\ Len(s) \in Nat /\ DOMAIN s = 1..Len(s)
         /\ ToSet(s) \subseteq S /\ (ToSet(s) = {} <=> s = <<>>)
         /\ \A a, b : Before(s, a, b) => a \in ToSet(s) /\ b \in ToSet(s)
         /\ Injective(s) => \A a, b : Before(s, a, b) => a # b /\ ~Before(s, b, a)
<1>1. Len(s) \in Nat /\ DOMAIN s = 1..Len(s) /\ \A i \in 1..Len(s) : s[i] \in S
  OBVIOUS
<1>2. ToSet(s) \subseteq S
  BY <1>1 DEF ToSet
<1>3. ToSet(s) = {} <=> s = <<>>
  <2>1. s = <<>> <=> Len(s) = 0
    BY EmptySeq
  <2>2. Len(s) = 0 => ToSet(s) = {}
    BY <1>1 DEF ToSet
  <2>3. Len(s) # 0 => s[1] \in ToSet(s)
    BY <1>1 DEF ToSet
  <2> QED
    BY <2>1, <2>2, <2>3
<1>4. \A a, b : Before(s, a, b) => a \in ToSet(s) /\ b \in ToSet(s)
  BY DEF Before, ToSet
<1>5. Injective(s) => \A a, b : Before(s, a, b) => a # b /\ ~Before(s, b, a)
  <2> SUFFICES ASSUME Injective(s), NEW a, NEW b, Before(s, a, b)
               PROVE  a # b /\ ~Before(s, b, a)
    OBVIOUS
  <2>1. PICK i, j \in 1..Len(s) : i < j /\ s[i] = a /\ s[j] = b
    BY <1>1 DEF Before
  <2>2. ASSUME NEW k \in 1..Len(s), NEW l \in 1..Len(s), k < l, s[k] = b, s[l] = a PROVE FALSE
    <3>1. k = j /\ l = i
      BY <1>1, <2>1, <2>2 DEF Injective
    <3> QED
      BY <2>1, <2>2, <3>1
  <2> QED
    BY <1>1, <2>1, <2>2 DEF Injective, Before
<1> QED
  BY <1>1, <1>2, <1>3, <1>4, <1>5

LEMMA AppendIs ==
  ASSUME NEW S, NEW s \in Seq(S), NEW e \in S
  PROVE  LET r == Append(s, e)
         IN /\ r \in Seq(S) /\ r # <<>> /\ ToSet(r) = ToSet(s) \cup {e}
            /\ Injective(s) /\ e \notin ToSet(s) => Injective(r)
            /\ \A a, b : Before(r, a, b) <=> Before(s, a, b) \/ (a \in ToSet(s) /\ b = e)
<1> DEFINE r == Append(s, e)
<1>1. /\ Len(s) \in Nat /\ DOMAIN s = 1..Len(s)
      /\ r \in Seq(S) /\ r # <<>> /\ DOMAIN r = 1..Len(s) + 1
      /\ r[Len(s) + 1] = e /\ \A i \in 1..Len(s) : r[i] = s[i]
  BY AppendProperties
<1> HIDE DEF r
<1>2. ToSet(r) = ToSet(s) \cup {e}
  <2>1. \A x \in ToSet(s) : x \in ToSet(r)
    BY <1>1 DEF ToSet
  <2>2. e \in ToSet(r)
    BY <1>1 DEF ToSet
  <2>3. ASSUME NEW i \in 1..Len(s) + 1 PROVE r[i] \in ToSet(s) \cup {e}
    <3>1. CASE i \in 1..Len(s)
      BY <1>1, <3>1 DEF ToSet
    <3>2. CASE i = Len(s) + 1
      BY <1>1, <3>2
    <3> QED
      BY <1>1, <3>1, <3>2
  <2>4. \A x \in ToSet(r) : x \in ToSet(s) \cup {e}
    BY <1>1, <2>3 DEF ToSet
  <2> QED
    BY <2>1, <2>2, <2>4
<1>3. ASSUME Injective(s), e \notin ToSet(s), NEW i \in DOMAIN r, NEW j \in DOMAIN r, r[i] = r[j]
      PROVE  i = j
  <2>1. CASE i \in 1..Len(s) /\ j \in 1..Len(s)
    BY <1>1, <1>3, <2>1 DEF Injective
  <2>2. CASE i = Len(s) + 1 \/ j = Len(s) + 1
    <3>1. \A k \in 1..Len(s) : s[k] # e
      BY <1>1, <1>3 DEF ToSet
    <3> QED
      BY <1>1, <1>3, <2>2, <3>1
  <2> QED
    BY <1>1, <2>1, <2>2
<1>4. ASSUME NEW a, NEW b PROVE Before(r, a, b) <=> Before(s, a, b) \/ (a \in ToSet(s) /\ b = e)
  <2>1. ASSUME Before(s, a, b) PROVE Before(r, a, b)
    BY <1>1, <2>1 DEF Before
  <2>2. ASSUME a \in ToSet(s), b = e PROVE Before(r, a, b)
    <3>1. PICK i \in 1..Len(s) : s[i] = a
      BY <1>1, <2>2 DEF ToSet
    <3> QED
      BY <1>1, <2>2, <3>1 DEF Before
  <2>3. ASSUME Before(r, a, b) PROVE Before(s, a, b) \/ (a \in ToSet(s) /\ b = e)
    <3>1. PICK i, j \in 1..Len(s) + 1 : i < j /\ r[i] = a /\ r[j] = b
      BY <1>1, <2>3 DEF Before
    <3>2. i \in 1..Len(s) /\ (j \in 1..Len(s) \/ j = Len(s) + 1)
      BY <1>1, <3>1
    <3> QED
      BY <1>1, <3>1, <3>2 DEF Before, ToSet
  <2> QED
    BY <2>1, <2>2, <2>3
<1> QED
  BY <1>1, <1>2, <1>3, <1>4 DEF Injective, r

LEMMA TailIs ==
  ASSUME NEW S, NEW s \in Seq(S), s # <<>>, Injective(s)
  PROVE  LET r == Tail(s)  h == Head(s)
         IN /\ r \in Seq(S) /\ h \in S /\ h \in ToSet(s) /\ ToSet(r) = ToSet(s) \ {h}
            /\ Injective(r)
            /\ \A a, b : Before(r, a, b) <=> Before(s, a, b) /\ a # h
            /\ \A a \in ToSet(r) : Before(s, h, a)
            /\ \A a : ~Before(s, a, h)
<1> DEFINE r == Tail(s)  h == Head(s)
<1>1. Len(s) \in Nat \ {0} /\ DOMAIN s = 1..Len(s) /\ h = s[1]
  BY EmptySeq
<1>2. /\ r \in Seq(S) /\ h \in S /\ DOMAIN r = 1..Len(s) - 1
      /\ \A i \in 1..Len(s) - 1 : r[i] = s[i + 1]
  BY <1>1, HeadTailProperties
<1> HIDE DEF r, h
<1>3. \A i \in 1..Len(s) - 1 : i + 1 \in 1..Len(s) /\ i + 1 # 1
  BY <1>1
<1>4. \A i \in 1..Len(s) : i = 1 \/ (i - 1 \in 1..Len(s) - 1 /\ (i - 1) + 1 = i)
  BY <1>1
<1>5. \A i \in 1..Len(s) : s[i] = h => i = 1
  BY <1>1 DEF Injective
<1>6. ToSet(r) = ToSet(s) \ {h}
  <2>1. \A i \in 1..Len(s) - 1 : r[i] \in ToSet(s) \ {h}
    BY <1>1, <1>2, <1>3, <1>5 DEF ToSet
  <2>2. ASSUME NEW x \in ToSet(s), x # h PROVE x \in ToSet(r)
    <3>1. PICK i \in 1..Len(s) : s[i] = x
      BY <1>1 DEF ToSet
    <3>2. i - 1 \in 1..Len(s) - 1 /\ r[i - 1] = x
      BY <1>1, <1>2, <1>4, <2>2, <3>1
    <3> QED
      BY <1>2, <3>2 DEF ToSet
  <2>3. \A x \in ToSet(r) : x \in ToSet(s) \ {h}
    BY <1>2, <2>1 DEF ToSet
  <2> QED
    BY <2>2, <2>3
<1>7. h \in ToSet(s)
  BY <1>1 DEF ToSet
<1>8. Injective(r)
  <2> SUFFICES ASSUME NEW i \in 1..Len(s) - 1, NEW j \in 1..Len(s) - 1, r[i] = r[j] PROVE i = j
    BY <1>2 DEF Injective
  <2>1. i + 1 = j + 1
    BY <1>1, <1>2, <1>3 DEF Injective
  <2> QED
    BY <2>1
<1>9. ASSUME NEW a, NEW b PROVE Before(r, a, b) <=> Before(s, a, b) /\ a # h
  <2>1. ASSUME Before(r, a, b) PROVE Before(s, a, b) /\ a # h
    <3>1. PICK i, j \in 1..Len(s) - 1 : i < j /\ r[i] = a /\ r[j] = b
      BY <1>2, <2>1 DEF Before
    <3>2. /\ i + 1 \in DOMAIN s /\ j + 1 \in DOMAIN s /\ i + 1 < j + 1
          /\ s[i + 1] = a /\ s[j + 1] = b /\ i + 1 # 1
      BY <1>1, <1>2, <1>3, <3>1
    <3> QED
      BY <1>1, <1>5, <3>2 DEF Before
  <2>2. ASSUME Before(s, a, b), a # h PROVE Before(r, a, b)
    <3>1. PICK i, j \in 1..Len(s) : i < j /\ s[i] = a /\ s[j] = b
      BY <1>1, <2>2 DEF Before
    <3>2. i # 1 /\ j # 1
      BY <1>1, <2>2, <3>1
    <3>3. /\ i - 1 \in DOMAIN r /\ j - 1 \in DOMAIN r /\ i - 1 < j - 1
          /\ r[i - 1] = a /\ r[j - 1] = b
      BY <1>1, <1>2, <1>4, <3>1, <3>2
    <3> QED
      BY <3>3 DEF Before
  <2> QED
    BY <2>1, <2>2
<1>10. ASSUME NEW a \in ToSet(r) PROVE Before(s, h, a)
  <2>1. PICK i \in 1..Len(s) : s[i] = a
    BY <1>1, <1>6 DEF ToSet
  <2>2. i # 1
    BY <1>1, <1>6, <2>1
  <2> QED
    BY <1>1, <2>1, <2>2 DEF Before
<1>11. \A a : ~Before(s, a, h)
  BY <1>1, <1>5 DEF Before
<1> QED
  BY <1>2, <1>6, <1>7, <1>8, <1>9, <1>10, <1>11 DEF r, h

LEMMA ConcatIs ==
  ASSUME NEW S, NEW s \in Seq(S), NEW f \in Seq(S), Injective(s), Injective(f),
         ToSet(s) \cap ToSet(f) = {}
  PROVE  LET r == s \o f
         IN /\ r \in Seq(S) /\ ToSet(r) = ToSet(s) \cup ToSet(f) /\ Injective(r)
            /\ \A a, b : Before(r, a, b) => Before(s, a, b) \/ b \in ToSet(f)
<1> DEFINE r == s \o f
<1>1. /\ Len(s) \in Nat /\ Len(f) \in Nat /\ DOMAIN s = 1..Len(s) /\ DOMAIN f = 1..Len(f)
      /\ r \in Seq(S) /\ DOMAIN r = 1..Len(s) + Len(f)
      /\ \A i \in 1..Len(s) + Len(f) : r[i] = IF i <= Len(s) THEN s[i] ELSE f[i - Len(s)]
  BY ConcatProperties
<1> HIDE DEF r
<1>2. /\ \A i \in 1..Len(s) : i \in DOMAIN r /\ r[i] = s[i] /\ s[i] \in ToSet(s)
      /\ \A i \in 1..Len(f) : Len(s) + i \in DOMAIN r /\ r[Len(s) + i] = f[i] /\ f[i] \in ToSet(f)
  <2>1. \A i \in 1..Len(s) : i \in DOMAIN r /\ r[i] = s[i]
    BY <1>1
  <2>2. \A i \in 1..Len(f) : Len(s) + i \in DOMAIN r /\ r[Len(s) + i] = f[i]
    <3>1. \A i \in 1..Len(f) : /\ (Len(s) + i) - Len(s) = i /\ ~(Len(s) + i <= Len(s))
                               /\ Len(s) + i \in 1..Len(s) + Len(f)
      BY <1>1
    <3> QED
      BY <1>1, <3>1
  <2> QED
    BY <1>1, <2>1, <2>2 DEF ToSet
<1>3. \A i \in DOMAIN r : i \in 1..Len(s) \/ \E j \in 1..Len(f) : i = Len(s) + j
  <2> TAKE i \in DOMAIN r
  <2>1. CASE i > Len(s)
    <3>1. i - Len(s) \in 1..Len(f) /\ i = Len(s) + (i - Len(s))
      BY <1>1, <2>1
    <3> QED
      BY <3>1
  <2> QED
    BY <1>1, <2>1
<1>4. ToSet(r) = ToSet(s) \cup ToSet(f)
  <2>1. (\A x \in ToSet(s) : x \in ToSet(r)) /\ \A x \in ToSet(f) : x \in ToSet(r)
    <3>1. \A i \in 1..Len(s) : s[i] \in ToSet(r)
      BY <1>2 DEF ToSet
    <3>2. \A i \in 1..Len(f) : f[i] \in ToSet(r)
      BY <1>2 DEF ToSet
    <3> QED
      BY <1>1, <3>1, <3>2 DEF ToSet
  <2>2. \A i \in DOMAIN r : r[i] \in ToSet(s) \cup ToSet(f)
    BY <1>2, <1>3
  <2>3. \A x \in ToSet(r) : x \in ToSet(s) \cup ToSet(f)
    BY <2>2 DEF ToSet
  <2> QED
    BY <2>1, <2>3
<1>5. ASSUME NEW i \in DOMAIN r, NEW j \in DOMAIN r, r[i] = r[j] PROVE i = j
  <2>1. CASE i \in 1..Len(s) /\ j \in 1..Len(s)
    BY <1>1, <1>2, <1>5, <2>1 DEF Injective
  <2>2. CASE (\E k \in 1..Len(f) : i = Len(s) + k) /\ \E k \in 1..Len(f) : j = Len(s) + k
    <3>1. PICK k, l \in 1..Len(f) : i = Len(s) + k /\ j = Len(s) + l
      BY <2>2
    <3> QED
      BY <1>1, <1>2, <1>5, <3>1 DEF Injective
  <2> QED
    BY <1>2, <1>3, <1>5, <2>1, <2>2
<1>6. ASSUME NEW a, NEW b, Before(r, a, b) PROVE Before(s, a, b) \/ b \in ToSet(f)
  <2>1. PICK i, j \in DOMAIN r : i < j /\ r[i] = a /\ r[j] = b
    BY <1>6 DEF Before
  <2>2. CASE j \in 1..Len(s)
    <3>1. i \in 1..Len(s)
      BY <1>1, <2>1, <2>2
    <3> QED
      BY <1>1, <1>2, <2>1, <2>2, <3>1 DEF Before
  <2> QED
    BY <1>2, <1>3, <2>1, <2>2
<1> QED
  BY <1>1, <1>4, <1>5, <1>6 DEF Injective, r

LEMMA SetToSeqIs ==
  ASSUME NEW T, IsFiniteSet(T)
  PROVE  LET f == SetToSeq(T) IN f \in Seq(T) /\ ToSet(f) = T /\ Injective(f)
<1> DEFINE n == Cardinality(T)  f == SetToSeq(T)
<1>1. n \in Nat /\ \E g \in [1..n -> T] : IsInjective(g)
  BY FS_CardinalityType DEF ExistsBijection, Bijection, Injection
<1>2. f \in [1..n -> T] /\ IsInjective(f)
  BY <1>1 DEF SetToSeq
<1> HIDE DEF f
<1>3. IsFiniteSet(1..n) /\ Cardinality(1..n) = n
  BY <1>1, FS_Interval
<1>4. f \in Injection(1..n, T)
  BY <1>2 DEF Injection
<1>5. f \in Surjection(1..n, T)
  BY <1>3, <1>4, FS_Injection
<1> HIDE DEF n
<1>6. f \in Seq(T)
  BY <1>1, <1>2, IsASeq
<1>7. ToSet(f) = T
  BY <1>2, <1>5 DEF ToSet, Surjection
<1> QED
  BY <1>2, <1>6, <1>7 DEF Injective, IsInjective, f

LEMMA AnswerIs ==
  ASSUME NEW S, NEW s \in Seq(S), Injective(s), NEW T \in SUBSET S, IsFiniteSet(T), NEW e \in S,
         T \cap ToSet(s) = {}, e \notin ToSet(s) \cup T
  PROVE  LET r == s \o SetToSeq(T) \o <<e>>
         IN /\ r \in Seq(S) /\ ToSet(r) = ToSet(s) \cup T \cup {e} /\ Injective(r)
            /\ \A a, b : Before(r, a, b) => Before(s, a, b) \/ (b \notin ToSet(s) /\ a # e)
<1> DEFINE f == SetToSeq(T)  q == s \o f
<1>1. f \in Seq(T) /\ ToSet(f) = T /\ Injective(f)
  BY SetToSeqIs
<1> HIDE DEF f
<1>2. f \in Seq(S)
  BY <1>1, SeqMonotonic
<1>3. /\ q \in Seq(S) /\ ToSet(q) = ToSet(s) \cup T /\ Injective(q)
      /\ \A a, b : Before(q, a, b) => Before(s, a, b) \/ b \in T
  BY <1>1, <1>2, ConcatIs
<1> HIDE DEF q
<1>4. q \o <<e>> = Append(q, e)
  BY <1>3, AppendIsConcat
<1>5. \A a, b : Before(q, a, b) => a \in ToSet(q)
  BY <1>3, QueueIs
<1>6. /\ Append(q, e) \in Seq(S) /\ ToSet(Append(q, e)) = ToSet(q) \cup {e}
      /\ Injective(Append(q, e))
      /\ \A a, b : Before(Append(q, e), a, b) <=> Before(q, a, b) \/ (a \in ToSet(q) /\ b = e)
  BY <1>3, AppendIs
<1> QED
  BY <1>3, <1>4, <1>5, <1>6 DEF q, f

\* The least of a set of numbers.
LEMMA LeastIs ==
  ASSUME NEW T \in SUBSET Nat, T # {}
  PROVE  \E x \in T : \A y \in T : x <= y
<1> DEFINE less == {p \in Nat \X Nat : p[1] < p[2]}
<1>1. IsWellFoundedOn(less, Nat)
  BY NatLessThanWellFounded DEF OpToRel
<1>2. \A x, y \in Nat : <<y, x>> \in less <=> y < x
  OBVIOUS
<1> HIDE DEF less
<1>3. PICK x \in T : \A y \in T : ~(<<y, x>> \in less)
  BY <1>1, WFMin
<1>4. ASSUME NEW y \in T PROVE x <= y
  <2>1. x \in Nat /\ y \in Nat
    OBVIOUS
  <2>2. ~(y < x)
    BY <1>2, <1>3, <2>1
  <2> QED
    BY <2>1, <2>2
<1> QED
  BY <1>4

-----------------------------------------------------------------------------
\* Where a caller can be in each call, and what the call is about.
Asks == {"grab", "pick", "ask", "reply", "release", "post", "done"}
Labels(o) ==
  CASE o = "none"       -> {"idle"}
    [] o = "send"       -> {"message", "bulk"}
    [] o = "flush"      -> Asks \cup {"flush"}
    [] o = "flush sync" -> Asks \cup {"bulk lock", "bulk"}
    [] o = "disable"    -> Asks \cup {"action lock", "drain", "transit"}
    [] o = "create"     -> Asks \cup {"init release", "use", "unuse", "deinit"}
    [] o = "destroy"    -> Asks \cup {"unuse", "deinit"}
    [] OTHER            -> Asks
Flushing == {"flush", "flush sync"}
PortOps  == Flushing \cup {"send", "disable", "enable"}

\* A caller waits for the answer to its request, or still has to send the dummy
\* transfer of it; it has a waiter until it has released it.
Asking(t)  == At(t, "reply") \/ (At(t, "bulk") /\ call[t].op = "flush sync")
Holding(t) == At(t, "ask") \/ At(t, "release") \/ Asking(t)
Told(t) == call[t].at \in {"release", "post", "done"} /\ call[t].ok
Reply(t)   == [op |-> "reply", buf |-> Nobody, bulk |-> FALSE, who |-> t, w |-> call[t].w]

Labelled(c) ==
  /\ c.at \in Labels(c.op)
  /\ c.op \in PortOps <=> c.port \in Ports
  /\ c.op = "send" => c.buf \in Buffers /\ PortOf[c.buf] = c.port
  /\ c.op = "flush sync" \/ (c.op = "send" /\ c.at = "bulk") => c.port \in Inputs
  /\ c.at \in {"ask", "reply", "release"} \/ (c.at = "bulk" /\ c.op = "flush sync") =>
       c.w \in Waiters
  /\ c.op \in {"disable", "destroy"} \/ c.at \notin {"release", "post", "done", "unuse", "deinit"} =>
       c.ok
LabelInv == \A t \in Callers : Labelled(call[t])

\* The locks, and the port that a thread enables or disables.
SendLocked(t, p) == /\ call[t].port = p
                    /\ call[t].op = "send" \/ (call[t].op \in Flushing /\ ~At(t, "flush"))
BulkLocked(t)    == \/ At(t, "bulk")
                    \/ call[t].op = "flush sync" /\ call[t].at \in {"grab", "pick", "ask"}
Switching(t, p)  == call[t].op \in {"disable", "enable"} /\ call[t].port = p
SendLockInv == \A t \in Callers, p \in Ports : sending[p] = t <=> SendLocked(t, p)
BulkLockInv == \A t \in Callers : bulkLock = t <=> BulkLocked(t)
SwitchInv   == \A t, u \in Callers, p \in Ports : Switching(t, p) /\ Switching(u, p) => t = u
LockInv     == SendLockInv /\ BulkLockInv /\ SwitchInv

\* What the component of the ports and the enabled ports allow.
CompInv(t) == /\ call[t].op = "request" => t \in comps
              /\ call[t].op = "create" => t \notin comps \cup {Owner}
              /\ call[t].op = "destroy" => (t \in comps <=> call[t].at \notin {"unuse", "deinit"})
UsableInv  == /\ \A t \in Callers : call[t].op \in PortOps => Usable
              /\ \A p \in Ports : on[p] => Usable
OnInv      == \A t \in Callers, p \in Ports : /\ Switching(t, p) => ~on[p]
                                              /\ SendLocked(t, p) => on[p]
LifeInv == (\A t \in Callers : CompInv(t)) /\ UsableInv /\ OnInv

\* A header is with the client when its port is disabled.
ClosedInv == \A p \in Ports :
  on[p] \/ Of(p) \subseteq mine \/ \E t \in Callers : Switching(t, p) /\ call[t].op = "disable"

\* The counts of the service.
Users  == comps \cup {t \in Callers : call[t].op = "create" \/ call[t].at \in {"unuse", "deinit"}}
Using  == comps \cup {t \in Callers :
                        \/ call[t].op = "create" /\ call[t].at \notin {"use", "deinit"}
                        \/ At(t, "unuse")}
Askers == {t \in Callers : Asking(t)}
UseInv == /\ refcount = Cardinality(Users) /\ (open <=> refcount # 0)
          /\ usecount = Cardinality(Using) + Cardinality(Askers)

\* The waiters: who has them and what their semaphores say.
PastPool == {t \in Callers : At(t, "pick")}
Posting  == {t \in Callers : At(t, "post")}
Unused   == {w \in Waiters : ~inuse[w]}
PoolInv  == waitSem + Cardinality(PastPool) + Cardinality(Posting) = Cardinality(Unused)
WaiterInv ==
  /\ \A t \in Callers : Holding(t) => inuse[call[t].w] /\ dest[call[t].w] = t
  /\ \A w \in Waiters : inuse[w] => \E t \in Callers : Holding(t) /\ call[t].w = w
  /\ \A w \in Waiters : replied[w] = 1 =>
       \E t \in Callers : Asking(t) /\ call[t].w = w /\ got[t] = t
  /\ \A t \in Callers : Told(t) => got[t] = t

-----------------------------------------------------------------------------
\* A request that is waited for is in one place: on its way, with the VideoCore, or
\* answered; there are no others.
RequestInv ==
  /\ \A m \in ToSet(toVC) \cup ToSet(expect) \cup jobs :
       m.op # "buffer" => Asking(m.who) /\ m = Ask(m.who)
  /\ \A m \in ToSet(toHost) : m.op = "reply" => Asking(m.who) /\ m = Reply(m.who)
  /\ \A t \in Callers : Asking(t) =>
       One(Ask(t) \in ToSet(toVC)) + One(Ask(t) \in ToSet(expect)) + One(Ask(t) \in jobs)
         + One(Reply(t) \in ToSet(toHost)) + One(replied[call[t].w] = 1) = 1

\* No queue has an entry twice; what is expected has announced a transfer.
QueueInv == /\ Injective(toVC) /\ Injective(expect) /\ Injective(bulkTx) /\ Injective(toHost)
            /\ Injective(bulkRx) /\ Injective(cbq)
            /\ \A m \in ToSet(expect) : Announces(m)

\* A header is in one place.
Carried(b) == \E t \in Callers : At(t, "message") /\ call[t].buf = b
Data(b)  == ToHost(b, TRUE)
Plain(b) == ToHost(b, FALSE)
Spread(b) ==
  One(b \in mine) + One(Carried(b)) + One(Send(b) \in ToSet(toVC)) + One(Send(b) \in ToSet(expect))
    + One(b \in vcHas) + One(Data(b) \in ToSet(toHost)) + One(Plain(b) \in ToSet(toHost))
    + One(b \in ToSet(bulkRx)) + One(host = b) + One(b \in ToSet(cbq))
PlaceInv == \A b \in Buffers : Spread(b) = 1

\* The contexts of a port are free or with a header that has not come back.
Busy(p) == {b \in Of(p) : ~(b \in mine \/ host = b \/ b \in ToSet(cbq))}
ContextInv == \A p \in Ports : ctx[p] + Cardinality(Busy(p)) = Contexts

-----------------------------------------------------------------------------
\* A flush or a disable is behind the headers that were sent on its port before it:
\* when it has been taken, then when its transfer has come, they have as well.
Sweeping(t) == call[t].op \in Flushing \cup {"disable"}
Taken(t)    == (Asking(t) /\ Ask(t) \notin ToSet(toVC)) \/ Told(t)
Swept(t, b) ==
  /\ Asking(t) => ~Before(toVC, Ask(t), Send(b)) /\ ~Before(expect, Ask(t), Send(b))
  /\ Taken(t) => Send(b) \notin ToSet(toVC)
  /\ Taken(t) /\ call[t].op # "disable" /\ ~(Asking(t) /\ Ask(t) \in ToSet(expect)) =>
       Send(b) \notin ToSet(expect)
SweepInv == \A t \in Callers : Sweeping(t) => \A b \in Of(call[t].port) : Swept(t, b)
FirstInv ==
  /\ \A p \in Ports : sentData[p] => p \in Inputs
  /\ \A t \in Callers : call[t].op = "flush" /\ ~At(t, "flush") => ~sentData[call[t].port]
  /\ \A b \in Buffers : PortOf[b] \in Inputs /\ ~sentData[PortOf[b]] =>
       Send(b) \notin ToSet(toVC) /\ Send(b) \notin ToSet(expect) /\ ~Carried(b)

\* The reply to a disable is behind the headers it sends back; when it has come
\* they are with the client or in the callback queue.
Back(t) == (Asking(t) /\ replied[call[t].w] = 1) \/ Told(t) \/ At(t, "drain")
Found(t, b) ==
  /\ Asking(t) /\ Reply(t) \in ToSet(toHost) =>
       /\ Send(b) \notin ToSet(expect) /\ b \notin vcHas /\ b \notin ToSet(bulkRx)
       /\ Data(b) \notin ToSet(toHost) /\ ~Before(toHost, Reply(t), Plain(b))
  /\ Back(t) => b \in mine \/ b \in ToSet(cbq)
  /\ At(t, "transit") => b \in mine
DisableInv == \A t \in Callers : call[t].op = "disable" => \A b \in Of(call[t].port) : Found(t, b)

\* The transfers come in the order of the messages that announce them; that of
\* the thread that has the bulk lock comes last.
Key(m)     == IF m.op = "buffer" THEN m.buf ELSE m.who
Pending(k) == \E t \in Callers : At(t, "bulk") /\ k = IF call[t].op = "send" THEN call[t].buf ELSE t
Announcing == {m \in ToSet(expect) \cup ToSet(toVC) : Announces(m)}
Ahead(m, n) == \/ Before(expect, m, n) \/ Before(toVC, m, n)
               \/ m \in ToSet(expect) /\ n \in ToSet(toVC)
TransferInv ==
  /\ \A m \in Announcing : Key(m) \in ToSet(bulkTx) \/ Pending(Key(m))
  /\ \A k : k \in ToSet(bulkTx) \/ Pending(k) => \E m \in Announcing : Key(m) = k
  /\ \A k \in ToSet(bulkTx) : ~Pending(k)
  /\ \A m, n \in Announcing : Before(bulkTx, Key(m), Key(n)) => ~Ahead(n, m)
  /\ \A m, n \in Announcing : Pending(Key(m)) => ~Ahead(m, n)

IInv == /\ LabelInv /\ LockInv /\ LifeInv /\ ClosedInv /\ UseInv /\ PoolInv /\ WaiterInv
        /\ RequestInv /\ QueueInv /\ PlaceInv /\ ContextInv
        /\ SweepInv /\ FirstInv /\ DisableInv /\ TransferInv /\ NoneStranded

-----------------------------------------------------------------------------
\* Messages of one kind differ when they are about different headers.
LEMMA MessageIs ==
  /\ \A m \in ToVC : m.op = "buffer" => m.buf \in Buffers /\ m = Send(m.buf)
  /\ \A m \in ToVC : m.op # "buffer" => m \in Requests
  /\ \A m \in Requests : m \in ToVC /\ m.op # "buffer" /\ m.who \in Callers
  /\ \A b \in Buffers : Send(b) \in ToVC /\ Send(b).op = "buffer" /\ Send(b).buf = b
                        /\ (Announces(Send(b)) <=> PortOf[b] \in Inputs)
  /\ \A m : Announces(m) => m.op = "buffer" \/ m.op = "flush sync"
<1>1. \A m \in Requests : m \in ToVC /\ m.op # "buffer" /\ m.who \in Callers
  BY DEF Requests, ToVC, Ops
<1>2. \A b \in Buffers : Send(b) \in ToVC /\ Send(b).op = "buffer" /\ Send(b).buf = b
                         /\ (Announces(Send(b)) <=> PortOf[b] \in Inputs)
  BY DEF Send, ToVC, Announces
<1>3. \A m \in ToVC : m \in Requests \/ \E b \in Buffers : m = Send(b)
  BY DEF ToVC
<1>4. \A m : Announces(m) => m.op = "buffer" \/ m.op = "flush sync"
  BY DEF Announces
<1>5. \A m \in ToVC : m.op = "buffer" => m.buf \in Buffers /\ m = Send(m.buf)
  BY <1>1, <1>2, <1>3
<1>6. \A m \in ToVC : m.op # "buffer" => m \in Requests
  BY <1>2, <1>3
<1> QED
  BY <1>1, <1>2, <1>4, <1>5, <1>6

LEMMA ReplyIs ==
  /\ \A m \in FromVC : \/ m.op = "buffer" /\ m.buf \in Buffers /\ m.bulk \in BOOLEAN
                          /\ m = IF m.bulk THEN Data(m.buf) ELSE Plain(m.buf)
                       \/ m.op = "reply" /\ m \in Replies /\ m.who \in Callers /\ m.w \in Waiters
  /\ \A b \in Buffers : /\ Data(b) \in FromVC /\ Data(b).op = "buffer" /\ Data(b).buf = b
                        /\ Plain(b) \in FromVC /\ Plain(b).op = "buffer" /\ Plain(b).buf = b
                        /\ Data(b).bulk /\ ~Plain(b).bulk
  /\ \A b \in Buffers : ToHost(b, PortOf[b] \notin Inputs)
                           = IF PortOf[b] \in Inputs THEN Plain(b) ELSE Data(b)
  /\ Replies \subseteq FromVC
<1>1. \A b \in Buffers, d \in BOOLEAN : ToHost(b, d) \in FromVC
  BY DEF FromVC
<1>2. Replies \subseteq FromVC
  BY DEF FromVC
<1>3. \A m \in FromVC : m \in Replies \/ \E b \in Buffers, d \in BOOLEAN : m = ToHost(b, d)
  BY DEF FromVC
<1>4. \A m \in Replies : m.op = "reply" /\ m.who \in Callers /\ m.w \in Waiters
  BY DEF Replies
<1>5. \A b \in Buffers : Data(b) \in FromVC /\ Plain(b) \in FromVC
  BY <1>1 DEF Data, Plain
<1>6. \A b \in Buffers : /\ Data(b).op = "buffer" /\ Data(b).buf = b /\ Data(b).bulk
                        /\ Plain(b).op = "buffer" /\ Plain(b).buf = b /\ ~Plain(b).bulk
  BY DEF Data, Plain, ToHost
<1>7. \A b \in Buffers, d \in BOOLEAN : /\ ToHost(b, d).op = "buffer" /\ ToHost(b, d).buf = b
                                       /\ ToHost(b, d).bulk = d
                                       /\ ToHost(b, d) = IF d THEN Data(b) ELSE Plain(b)
  BY DEF Data, Plain, ToHost
<1>8. \A b \in Buffers : ToHost(b, PortOf[b] \notin Inputs)
                           = IF PortOf[b] \in Inputs THEN Plain(b) ELSE Data(b)
  BY DEF Data, Plain, ToHost
<1> QED
  BY <1>2, <1>3, <1>4, <1>5, <1>6, <1>7, <1>8

\* What a step does to the call of a thread.
LEMMA GotoIs ==
  ASSUME TypeOK, NEW t \in Callers, NEW l, Goto(t, l)
  PROVE  /\ \A u \in Callers \ {t} : call'[u] = call[u]
         /\ call'[t] = [op |-> call[t].op, at |-> l, port |-> call[t].port, buf |-> call[t].buf,
                        w |-> call[t].w, ok |-> call[t].ok]
         /\ call'[t].at = l /\ call'[t].op = call[t].op /\ call'[t].port = call[t].port
         /\ call'[t].buf = call[t].buf /\ call'[t].w = call[t].w /\ call'[t].ok = call[t].ok
BY DEF TypeOK, ClientType, Calls, Goto

LEMMA ReturnIs ==
  ASSUME TypeOK, NEW t \in Callers, Return(t)
  PROVE  /\ \A u \in Callers \ {t} : call'[u] = call[u]
         /\ call'[t].at = "idle" /\ call'[t].op = "none" /\ call'[t].port = Nobody
         /\ call'[t].buf = Nobody /\ call'[t].w = 0 /\ call'[t].ok = TRUE
BY DEF TypeOK, ClientType, Return, Idle

LEMMA BeginIs ==
  ASSUME TypeOK, NEW t \in Callers, NEW op, NEW p, NEW b, NEW l, Begin(t, op, p, b, l)
  PROVE  /\ \A u \in Callers \ {t} : call'[u] = call[u] /\ got'[u] = got[u]
         /\ call[t].at = "idle"
         /\ call'[t].at = l /\ call'[t].op = op /\ call'[t].port = p
         /\ call'[t].buf = b /\ call'[t].w = 0 /\ call'[t].ok = TRUE
BY DEF TypeOK, ClientType, Begin, At

\* The steps, in groups: those of a caller that move no message and no header ...
Quiet(t) ==
  \/ RequestBegin(t) \/ CreateBegin(t) \/ DestroyBegin(t)
  \/ \E p \in Ports : FlushBegin(t, p) \/ DisableBegin(t, p) \/ EnableBegin(t, p)
  \/ InitRelease(t) \/ Use(t) \/ Unuse(t) \/ Deinit(t)
  \/ FlushChoose(t) \/ FlushBulkLock(t) \/ DisableLock(t)
  \/ Grab(t) \/ Pick(t) \/ AskFails(t) \/ Release(t) \/ PostPool(t)
  \/ FlushAnswered(t) \/ EnableAnswered(t) \/ Answered(t) \/ DrainEnd(t) \/ DisableEnd(t)
\* ... those that move neither and are of no call ...
Aside == ActionWake \/ ActionBegin \/ ActionEnd \/ UNCHANGED vars
\* ... and the rest.
Moves(t) ==
  \/ SendBegin(t) \/ SendMessage(t) \/ SendFails(t) \/ SendBulk(t)
  \/ AskVC(t) \/ DummyBulk(t) \/ Wake(t) \/ DrainOne(t)
Elsewhere == VcTake \/ VcBulk \/ VcReturn \/ VcAnswer
             \/ HostReply \/ HostBuffer \/ HostBulk \/ HostQueue \/ ActionDeliver

LEMMA NextCases ==
  ASSUME [Next]_vars
  PROVE  (\E t \in Callers : Quiet(t) \/ Moves(t)) \/ Elsewhere \/ Aside
BY DEF Next, Client, Caller, VideoCore, Vchiq, ActionThread, Done, Quiet, Moves, Elsewhere, Aside

-----------------------------------------------------------------------------
USE DEF callVars, life, portVars, locks, waitVars, hostVars, vcVars, chans

\* The sets that are counted are finite.
LEMMA Counted ==
  ASSUME TypeOK
  PROVE  /\ \A S \in SUBSET Callers : IsFiniteSet(S)
         /\ \A S \in SUBSET Buffers : IsFiniteSet(S)
         /\ \A S \in SUBSET Waiters : IsFiniteSet(S) /\ Cardinality(S) <= MaxWaiters
         /\ Users \in SUBSET Callers /\ Using \in SUBSET Callers /\ Askers \in SUBSET Callers
         /\ PastPool \in SUBSET Callers /\ Posting \in SUBSET Callers
         /\ Unused \in SUBSET Waiters
         /\ \A p \in Ports : Busy(p) \in SUBSET Buffers
<1>1. IsFiniteSet(Waiters) /\ Cardinality(Waiters) = MaxWaiters
  BY WaiterAssumption, FS_Interval DEF Waiters
<1>2. \A S \in SUBSET Waiters : IsFiniteSet(S) /\ Cardinality(S) <= MaxWaiters
  BY <1>1, FS_Subset
<1>3. /\ \A S \in SUBSET Callers : IsFiniteSet(S)
      /\ \A S \in SUBSET Buffers : IsFiniteSet(S)
  BY FiniteAssumption, FS_Subset
<1>4. /\ Users \in SUBSET Callers /\ Using \in SUBSET Callers /\ Askers \in SUBSET Callers
      /\ PastPool \in SUBSET Callers /\ Posting \in SUBSET Callers
      /\ Unused \in SUBSET Waiters
      /\ \A p \in Ports : Busy(p) \in SUBSET Buffers
  BY DEF TypeOK, LifeType, Users, Using, Askers, PastPool, Posting, Unused, Busy, Of
<1> QED
  BY <1>2, <1>3, <1>4

\* What one element more or less does to a count.
LEMMA CountIs ==
  ASSUME NEW S, IsFiniteSet(S)
  PROVE  /\ Cardinality(S) \in Nat
         /\ Cardinality(S) = 0 <=> S = {}
         /\ \A x : x \notin S => Cardinality(S \cup {x}) = Cardinality(S) + 1
         /\ \A x \in S : Cardinality(S \ {x}) = Cardinality(S) - 1 /\ Cardinality(S) > 0
<1>1. Cardinality(S) \in Nat /\ (Cardinality(S) = 0 <=> S = {})
  BY FS_CardinalityType, FS_EmptySet
<1>2. \A x : x \notin S => Cardinality(S \cup {x}) = Cardinality(S) + 1
  BY FS_AddElement
<1>3. \A x \in S : Cardinality(S \ {x}) = Cardinality(S) - 1
  BY FS_RemoveElement
<1> QED
  BY <1>1, <1>2, <1>3

\* What the place of a caller says about its call.
LEMMA CallerIs ==
  ASSUME IInv, NEW t \in Callers
  PROVE  /\ At(t, "idle") <=> call[t].op = "none"
         /\ At(t, "message") => call[t].op = "send"
         /\ At(t, "bulk") => call[t].op \in {"send", "flush sync"}
         /\ At(t, "flush") => call[t].op = "flush"
         /\ At(t, "bulk lock") => call[t].op = "flush sync"
         /\ At(t, "action lock") \/ At(t, "drain") \/ At(t, "transit") => call[t].op = "disable"
         /\ At(t, "init release") \/ At(t, "use") => call[t].op = "create"
         /\ At(t, "unuse") \/ At(t, "deinit") => call[t].op \in {"create", "destroy"}
         /\ call[t].at \in Asks => call[t].op \notin {"none", "send"}
         /\ call[t].op \in PortOps <=> call[t].port \in Ports
         /\ call[t].op = "send" => call[t].buf \in Buffers /\ PortOf[call[t].buf] = call[t].port
         /\ call[t].op = "flush sync" \/ (call[t].op = "send" /\ At(t, "bulk")) =>
              call[t].port \in Inputs
         /\ Holding(t) => call[t].w \in Waiters
         /\ call[t].op \in {"disable", "destroy"} \/ Asking(t) => call[t].ok
         /\ call[t].at \notin {"release", "post", "done", "unuse", "deinit"} => call[t].ok
<1>1. Labelled(call[t])
  BY DEF IInv, LabelInv
<1>2. call[t].at \in Labels(call[t].op)
  BY <1>1 DEF Labelled
<1>3. /\ At(t, "idle") <=> call[t].op = "none"
      /\ At(t, "message") => call[t].op = "send"
      /\ At(t, "bulk") => call[t].op \in {"send", "flush sync"}
      /\ At(t, "flush") => call[t].op = "flush"
      /\ At(t, "bulk lock") => call[t].op = "flush sync"
      /\ At(t, "action lock") \/ At(t, "drain") \/ At(t, "transit") => call[t].op = "disable"
      /\ At(t, "init release") \/ At(t, "use") => call[t].op = "create"
      /\ At(t, "unuse") \/ At(t, "deinit") => call[t].op \in {"create", "destroy"}
      /\ call[t].at \in Asks => call[t].op \notin {"none", "send"}
  BY <1>2 DEF Labels, Asks, At
<1> QED
  BY <1>1, <1>3 DEF Labelled, Holding, Asking, At

\* A count that a step goes on to lower is not zero, and one it raises not at its limit.
LEMMA CountsAllow ==
  ASSUME TypeOK, IInv
  PROVE  /\ \A t \in Callers : At(t, "deinit") => refcount > 0
         /\ \A t \in Callers : At(t, "init release") \/ At(t, "unuse") \/ Asking(t) => usecount > 0
         /\ \A t \in Callers : At(t, "post") => waitSem < MaxWaiters
<1>1. \A t \in Callers : At(t, "deinit") => refcount > 0
  <2>1. \A t \in Callers : At(t, "deinit") => t \in Users
    BY DEF At, Users
  <2> QED
    BY <2>1, Counted, CountIs DEF IInv, UseInv
<1>2. \A t \in Callers : At(t, "init release") \/ At(t, "unuse") \/ Asking(t) => usecount > 0
  <2>1. ASSUME NEW t \in Callers, At(t, "init release") \/ At(t, "unuse") \/ Asking(t)
        PROVE  t \in Using \/ t \in Askers
    <3>1. At(t, "init release") => call[t].op = "create"
      BY CallerIs
    <3> QED
      BY <2>1, <3>1 DEF Using, Askers, At
  <2>2. Cardinality(Using) \in Nat /\ Cardinality(Askers) \in Nat
    BY Counted, CountIs
  <2>3. \A t : t \in Using => Cardinality(Using) > 0
    BY Counted, CountIs
  <2>5. \A t : t \in Askers => Cardinality(Askers) > 0
    BY Counted, CountIs
  <2>4. usecount = Cardinality(Using) + Cardinality(Askers)
    BY DEF IInv, UseInv
  <2>6. (\E t : t \in Using \/ t \in Askers) => usecount > 0
    BY <2>2, <2>3, <2>4, <2>5
  <2> QED
    BY <2>1, <2>6
<1>3. \A t \in Callers : At(t, "post") => waitSem < MaxWaiters
  <2>1. \A t \in Callers : At(t, "post") => Cardinality(Posting) > 0
    BY Counted, CountIs DEF Posting
  <2>2. /\ Cardinality(Posting) \in Nat /\ Cardinality(PastPool) \in Nat
        /\ Cardinality(Unused) \in Nat /\ Cardinality(Unused) <= MaxWaiters /\ waitSem \in Nat
    BY Counted, CountIs DEF TypeOK, WaitType
  <2> QED
    BY <2>1, <2>2, WaiterAssumption DEF IInv, PoolInv
<1> QED
  BY <1>1, <1>2, <1>3

\* A header that is in one place is in no other.
LEMMA OnePlace ==
  ASSUME PlaceInv, NEW b \in Buffers
  PROVE  /\ b \in mine \/ Carried(b) \/ Send(b) \in ToSet(toVC) \/ Send(b) \in ToSet(expect)
            \/ b \in vcHas \/ Data(b) \in ToSet(toHost) \/ Plain(b) \in ToSet(toHost)
            \/ b \in ToSet(bulkRx) \/ host = b \/ b \in ToSet(cbq)
         /\ b \in mine => b \notin ToSet(cbq) /\ host # b
         /\ host = b => b \notin ToSet(cbq)
         /\ b \in mine \/ host = b \/ b \in ToSet(cbq) =>
              ~Carried(b) /\ Send(b) \notin ToSet(toVC) /\ Send(b) \notin ToSet(expect)
         /\ b \in mine \/ host = b \/ b \in ToSet(cbq)
              \/ Send(b) \in ToSet(toVC) \/ Send(b) \in ToSet(expect) \/ Carried(b) =>
              /\ b \notin vcHas /\ b \notin ToSet(bulkRx)
              /\ Data(b) \notin ToSet(toHost) /\ Plain(b) \notin ToSet(toHost)
         /\ Send(b) \in ToSet(toVC) => Send(b) \notin ToSet(expect)
         /\ Send(b) \in ToSet(toVC) \/ Send(b) \in ToSet(expect) => ~Carried(b)
         /\ b \in vcHas => b \notin ToSet(bulkRx)
         /\ b \in vcHas \/ b \in ToSet(bulkRx) =>
              Data(b) \notin ToSet(toHost) /\ Plain(b) \notin ToSet(toHost)
         /\ ~(Data(b) \in ToSet(toHost) /\ Plain(b) \in ToSet(toHost))
BY DEF PlaceInv, Spread, One, Carried

LEMMA ContextAllows ==
  ASSUME TypeOK, IInv, NEW b \in Buffers,
         Carried(b) \/ b \in ToSet(bulkRx) \/ Plain(b) \in ToSet(toHost)
  PROVE  b \in Busy(PortOf[b]) /\ ctx[PortOf[b]] < Contexts
<1>1. PortOf[b] \in Ports
  BY PortAssumption
<1>2. b \in Busy(PortOf[b])
  <2>1. b \notin mine /\ host # b /\ b \notin ToSet(cbq)
    BY OnePlace DEF IInv
  <2> QED
    BY <2>1 DEF Busy, Of
<1>3. Cardinality(Busy(PortOf[b])) > 0 /\ Cardinality(Busy(PortOf[b])) \in Nat
  BY <1>1, <1>2, Counted, CountIs
<1> QED
  BY <1>1, <1>2, <1>3, PortAssumption DEF IInv, ContextInv, TypeOK, PortType

\* A reply that is on its way has not been counted yet.
LEMMA ReplyAllows ==
  ASSUME TypeOK, IInv, NEW m \in ToSet(toHost), m.op = "reply"
  PROVE  /\ m.who \in Callers /\ Asking(m.who) /\ m = Reply(m.who) /\ m.w = call[m.who].w
         /\ m.w \in Waiters /\ replied[m.w] = 0 /\ dest[m.w] = m.who /\ inuse[m.w]
<1>1. m \in FromVC
  BY QueueIs DEF TypeOK, QueueType
<1>2. m.who \in Callers /\ m.w \in Waiters
  BY <1>1, ReplyIs
<1>3. Asking(m.who) /\ m = Reply(m.who)
  BY DEF IInv, RequestInv
<1>4. m.w = call[m.who].w
  BY <1>3 DEF Reply
<1>5. replied[m.w] = 0
  <2>1. One(Ask(m.who) \in ToSet(toVC)) + One(Ask(m.who) \in ToSet(expect))
          + One(Ask(m.who) \in jobs) + One(Reply(m.who) \in ToSet(toHost))
          + One(replied[m.w] = 1) = 1
    BY <1>2, <1>3, <1>4 DEF IInv, RequestInv
  <2>2. replied[m.w] # 1
    BY <1>3, <2>1 DEF One
  <2> QED
    BY <1>2, <2>2 DEF TypeOK, WaitType
<1>6. dest[m.w] = m.who /\ inuse[m.w]
  BY <1>2, <1>3, <1>4 DEF IInv, WaiterInv, Holding
<1> QED
  BY <1>2, <1>3, <1>4, <1>5, <1>6

\* What each step leaves alone.
LEMMA QuietKeeps ==
  ASSUME NEW t \in Callers, Quiet(t)
  PROVE  /\ UNCHANGED <<hostVars, vcVars, chans, mine, replied, sentData>>
         /\ UNCHANGED life \/ CreateBegin(t) \/ Deinit(t) \/ Answered(t)
         /\ UNCHANGED on \/ (\E p \in Ports : DisableBegin(t, p)) \/ EnableAnswered(t)
         /\ UNCHANGED ctx \/ \E p \in Ports : EnableBegin(t, p)
         /\ UNCHANGED sending \/ FlushChoose(t) \/ FlushAnswered(t)
         /\ UNCHANGED bulkLock \/ FlushBulkLock(t) \/ AskFails(t)
         /\ UNCHANGED waitSem \/ Grab(t) \/ PostPool(t)
         /\ UNCHANGED <<inuse, dest>> \/ Pick(t) \/ Release(t)
         /\ UNCHANGED usecount \/ CreateBegin(t) \/ InitRelease(t) \/ Use(t) \/ Unuse(t)
<1>1. UNCHANGED <<hostVars, vcVars, chans, mine, replied, sentData>>
  BY DEF Quiet, RequestBegin, CreateBegin, DestroyBegin, FlushBegin, DisableBegin, EnableBegin,
         InitRelease, Use, Unuse, UseOrRelease, Deinit, FlushChoose, FlushBulkLock, DisableLock,
         Grab, Pick, AskFails, Release, PostPool, FlushAnswered, EnableAnswered, Answered,
         DrainEnd, DisableEnd
<1>2. UNCHANGED life \/ CreateBegin(t) \/ Deinit(t) \/ Answered(t)
  BY DEF Quiet, RequestBegin, DestroyBegin, FlushBegin, DisableBegin, EnableBegin, InitRelease,
         Use, Unuse, UseOrRelease, FlushChoose, FlushBulkLock, DisableLock, Grab, Pick, AskFails,
         Release, PostPool, FlushAnswered, EnableAnswered, DrainEnd, DisableEnd
<1>3. UNCHANGED on \/ (\E p \in Ports : DisableBegin(t, p)) \/ EnableAnswered(t)
  BY DEF Quiet, RequestBegin, CreateBegin, DestroyBegin, FlushBegin, EnableBegin, InitRelease,
         Use, Unuse, UseOrRelease, Deinit, FlushChoose, FlushBulkLock, DisableLock, Grab, Pick,
         AskFails, Release, PostPool, FlushAnswered, Answered, DrainEnd, DisableEnd
<1>4. UNCHANGED ctx \/ \E p \in Ports : EnableBegin(t, p)
  BY DEF Quiet, RequestBegin, CreateBegin, DestroyBegin, FlushBegin, DisableBegin, InitRelease,
         Use, Unuse, UseOrRelease, Deinit, FlushChoose, FlushBulkLock, DisableLock, Grab, Pick,
         AskFails, Release, PostPool, FlushAnswered, EnableAnswered, Answered, DrainEnd,
         DisableEnd
<1>5. UNCHANGED sending \/ FlushChoose(t) \/ FlushAnswered(t)
  BY DEF Quiet, RequestBegin, CreateBegin, DestroyBegin, FlushBegin, DisableBegin, EnableBegin,
         InitRelease, Use, Unuse, UseOrRelease, Deinit, FlushBulkLock, DisableLock, Grab, Pick,
         AskFails, Release, PostPool, EnableAnswered, Answered, DrainEnd, DisableEnd
<1>6. UNCHANGED bulkLock \/ FlushBulkLock(t) \/ AskFails(t)
  BY DEF Quiet, RequestBegin, CreateBegin, DestroyBegin, FlushBegin, DisableBegin, EnableBegin,
         InitRelease, Use, Unuse, UseOrRelease, Deinit, FlushChoose, DisableLock, Grab, Pick,
         Release, PostPool, FlushAnswered, EnableAnswered, Answered, DrainEnd, DisableEnd
<1>7. UNCHANGED waitSem \/ Grab(t) \/ PostPool(t)
  BY DEF Quiet, RequestBegin, CreateBegin, DestroyBegin, FlushBegin, DisableBegin, EnableBegin,
         InitRelease, Use, Unuse, UseOrRelease, Deinit, FlushChoose, FlushBulkLock, DisableLock,
         Pick, AskFails, Release, FlushAnswered, EnableAnswered, Answered, DrainEnd, DisableEnd
<1>8. UNCHANGED <<inuse, dest>> \/ Pick(t) \/ Release(t)
  BY DEF Quiet, RequestBegin, CreateBegin, DestroyBegin, FlushBegin, DisableBegin, EnableBegin,
         InitRelease, Use, Unuse, UseOrRelease, Deinit, FlushChoose, FlushBulkLock, DisableLock,
         Grab, AskFails, PostPool, FlushAnswered, EnableAnswered, Answered, DrainEnd, DisableEnd
<1>9. UNCHANGED usecount \/ CreateBegin(t) \/ InitRelease(t) \/ Use(t) \/ Unuse(t)
  BY DEF Quiet, RequestBegin, DestroyBegin, FlushBegin, DisableBegin, EnableBegin, UseOrRelease,
         Deinit, FlushChoose, FlushBulkLock, DisableLock, Grab, Pick, AskFails, Release,
         PostPool, FlushAnswered, EnableAnswered, Answered, DrainEnd, DisableEnd
<1> QED
  BY <1>1, <1>2, <1>3, <1>4, <1>5, <1>6, <1>7, <1>8, <1>9

LEMMA MovesKeep ==
  ASSUME NEW t \in Callers, Moves(t)
  PROVE  /\ UNCHANGED <<life, on, actionLock, waitSem, inuse, dest, host, bulkRx, trigger, action>>
         /\ UNCHANGED <<expect, vcHas, jobs, toHost>>
         /\ UNCHANGED sentData \/ SendBegin(t)
         /\ UNCHANGED ctx \/ SendBegin(t) \/ SendFails(t)
         /\ UNCHANGED mine \/ SendBegin(t) \/ SendFails(t) \/ DrainOne(t)
         /\ UNCHANGED sending \/ SendBegin(t) \/ SendMessage(t) \/ SendFails(t) \/ SendBulk(t)
         /\ UNCHANGED bulkLock \/ SendMessage(t) \/ SendBulk(t) \/ DummyBulk(t)
         /\ UNCHANGED usecount \/ AskVC(t) \/ Wake(t)
         /\ UNCHANGED replied \/ Wake(t)
         /\ UNCHANGED toVC \/ SendMessage(t) \/ AskVC(t)
         /\ UNCHANGED bulkTx \/ SendBulk(t) \/ DummyBulk(t)
         /\ UNCHANGED cbq \/ DrainOne(t)
<1>1. UNCHANGED <<life, on, actionLock, waitSem, inuse, dest, host, bulkRx, trigger, action>>
  BY DEF Moves, Begin, SendBegin, SendMessage, SendFails, SendBulk, AskVC, DummyBulk, Wake,
         DrainOne
<1>2. UNCHANGED <<expect, vcHas, jobs, toHost>>
  BY DEF Moves, Begin, SendBegin, SendMessage, SendFails, SendBulk, AskVC, DummyBulk, Wake,
         DrainOne
<1>3. UNCHANGED sentData \/ SendBegin(t)
  BY DEF Moves, Begin, SendMessage, SendFails, SendBulk, AskVC, DummyBulk, Wake, DrainOne
<1>4. UNCHANGED ctx \/ SendBegin(t) \/ SendFails(t)
  BY DEF Moves, Begin, SendMessage, SendBulk, AskVC, DummyBulk, Wake, DrainOne
<1>5. UNCHANGED mine \/ SendBegin(t) \/ SendFails(t) \/ DrainOne(t)
  BY DEF Moves, Begin, SendMessage, SendBulk, AskVC, DummyBulk, Wake
<1>6. UNCHANGED sending \/ SendBegin(t) \/ SendMessage(t) \/ SendFails(t) \/ SendBulk(t)
  BY DEF Moves, Begin, AskVC, DummyBulk, Wake, DrainOne
<1>7. UNCHANGED bulkLock \/ SendMessage(t) \/ SendBulk(t) \/ DummyBulk(t)
  BY DEF Moves, Begin, SendBegin, SendFails, AskVC, Wake, DrainOne
<1>8. UNCHANGED usecount \/ AskVC(t) \/ Wake(t)
  BY DEF Moves, Begin, SendBegin, SendMessage, SendFails, SendBulk, DummyBulk, DrainOne
<1>9. UNCHANGED replied \/ Wake(t)
  BY DEF Moves, Begin, SendBegin, SendMessage, SendFails, SendBulk, AskVC, DummyBulk, DrainOne
<1>10. UNCHANGED toVC \/ SendMessage(t) \/ AskVC(t)
  BY DEF Moves, Begin, SendBegin, SendFails, SendBulk, DummyBulk, Wake, DrainOne
<1>11. UNCHANGED bulkTx \/ SendBulk(t) \/ DummyBulk(t)
  BY DEF Moves, Begin, SendBegin, SendMessage, SendFails, AskVC, Wake, DrainOne
<1>12. UNCHANGED cbq \/ DrainOne(t)
  BY DEF Moves, Begin, SendBegin, SendMessage, SendFails, SendBulk, AskVC, DummyBulk, Wake
<1> QED
  BY <1>1, <1>2, <1>3, <1>4, <1>5, <1>6, <1>7, <1>8, <1>9, <1>10, <1>11, <1>12

LEMMA ElsewhereKeeps ==
  ASSUME Elsewhere \/ Aside
  PROVE  /\ UNCHANGED <<call, calls, failures, life, on, sentData, sending, bulkLock, waitSem, inuse,
                       dest, usecount>>
         /\ UNCHANGED <<got, replied>> \/ HostReply
         /\ UNCHANGED ctx \/ HostBuffer \/ HostBulk
         /\ UNCHANGED <<mine, cbq>> \/ HostQueue \/ ActionDeliver
         /\ UNCHANGED <<host, bulkRx>> \/ HostBuffer \/ HostBulk \/ HostQueue
         /\ UNCHANGED <<expect, vcHas, jobs>> \/ VcTake \/ VcBulk \/ VcReturn \/ VcAnswer
         /\ UNCHANGED toVC \/ VcTake
         /\ UNCHANGED bulkTx \/ VcBulk
         /\ UNCHANGED toHost \/ VcReturn \/ VcAnswer \/ HostReply \/ HostBuffer
         /\ UNCHANGED <<actionLock, trigger, action>> \/ HostQueue \/ ActionWake \/ ActionBegin \/ ActionEnd
<1>1. UNCHANGED <<call, calls, failures, life, on, sentData, sending, bulkLock, waitSem, inuse,
                       dest, usecount>>
  BY DEF Elsewhere, Aside, vars, VcTake, VcBulk, VcReturn, VcAnswer, HostReply, HostBuffer,
         HostBulk, HostQueue, ActionDeliver, ActionWake, ActionBegin, ActionEnd
<1>2. UNCHANGED <<got, replied>> \/ HostReply
  BY DEF Elsewhere, Aside, vars, VcTake, VcBulk, VcReturn, VcAnswer, HostBuffer, HostBulk,
         HostQueue, ActionDeliver, ActionWake, ActionBegin, ActionEnd
<1>3. UNCHANGED ctx \/ HostBuffer \/ HostBulk
  BY DEF Elsewhere, Aside, vars, VcTake, VcBulk, VcReturn, VcAnswer, HostReply, HostQueue,
         ActionDeliver, ActionWake, ActionBegin, ActionEnd
<1>4. UNCHANGED <<mine, cbq>> \/ HostQueue \/ ActionDeliver
  BY DEF Elsewhere, Aside, vars, VcTake, VcBulk, VcReturn, VcAnswer, HostReply, HostBuffer,
         HostBulk, ActionWake, ActionBegin, ActionEnd
<1>5. UNCHANGED <<host, bulkRx>> \/ HostBuffer \/ HostBulk \/ HostQueue
  BY DEF Elsewhere, Aside, vars, VcTake, VcBulk, VcReturn, VcAnswer, HostReply, ActionDeliver,
         ActionWake, ActionBegin, ActionEnd
<1>6. UNCHANGED <<expect, vcHas, jobs>> \/ VcTake \/ VcBulk \/ VcReturn \/ VcAnswer
  BY DEF Elsewhere, Aside, vars, HostReply, HostBuffer, HostBulk, HostQueue, ActionDeliver,
         ActionWake, ActionBegin, ActionEnd
<1>7. UNCHANGED toVC \/ VcTake
  BY DEF Elsewhere, Aside, vars, VcBulk, VcReturn, VcAnswer, HostReply, HostBuffer, HostBulk,
         HostQueue, ActionDeliver, ActionWake, ActionBegin, ActionEnd
<1>8. UNCHANGED bulkTx \/ VcBulk
  BY DEF Elsewhere, Aside, vars, VcTake, VcReturn, VcAnswer, HostReply, HostBuffer, HostBulk,
         HostQueue, ActionDeliver, ActionWake, ActionBegin, ActionEnd
<1>9. UNCHANGED toHost \/ VcReturn \/ VcAnswer \/ HostReply \/ HostBuffer
  BY DEF Elsewhere, Aside, vars, VcTake, VcBulk, HostBulk, HostQueue, ActionDeliver, ActionWake,
         ActionBegin, ActionEnd
<1>10. UNCHANGED <<actionLock, trigger, action>> \/ HostQueue \/ ActionWake \/ ActionBegin \/ ActionEnd
  BY DEF Elsewhere, Aside, vars, VcTake, VcBulk, VcReturn, VcAnswer, HostReply, HostBuffer,
         HostBulk, ActionDeliver
<1> QED
  BY <1>1, <1>2, <1>3, <1>4, <1>5, <1>6, <1>7, <1>8, <1>9, <1>10

\* The records of a call.
LEMMA CallIs ==
  ASSUME ClientType, NEW t \in Callers
  PROVE  /\ \A l \in Places : Goto(t, l) => call' \in [Callers -> Calls]
         /\ Return(t) => call' \in [Callers -> Calls]
         /\ \A op \in Ops, p \in Ports \cup {Nobody}, b \in Buffers \cup {Nobody}, l \in Places :
              Begin(t, op, p, b, l) => call' \in [Callers -> Calls] /\ calls' \in Nat
                                       /\ got' \in [Callers -> Callers \cup {Nobody}]
<1>1. \A l \in Places : Goto(t, l) => call' \in [Callers -> Calls]
  BY DEF ClientType, Calls, Goto
<1>2. Return(t) => call' \in [Callers -> Calls]
  <2>1. Idle \in Calls
    BY WaiterAssumption DEF Idle, Calls, Ops, Places
  <2> QED
    BY <2>1 DEF ClientType, Return
<1>3. \A op \in Ops, p \in Ports \cup {Nobody}, b \in Buffers \cup {Nobody}, l \in Places :
        Begin(t, op, p, b, l) => call' \in [Callers -> Calls] /\ calls' \in Nat
                                 /\ got' \in [Callers -> Callers \cup {Nobody}]
  <2> SUFFICES ASSUME NEW op \in Ops, NEW p \in Ports \cup {Nobody},
                      NEW b \in Buffers \cup {Nobody}, NEW l \in Places, Begin(t, op, p, b, l)
               PROVE  call' \in [Callers -> Calls] /\ calls' \in Nat
                      /\ got' \in [Callers -> Callers \cup {Nobody}]
    OBVIOUS
  <2>1. [op |-> op, at |-> l, port |-> p, buf |-> b, w |-> 0, ok |-> TRUE] \in Calls
    BY WaiterAssumption DEF Calls
  <2> QED
    BY <2>1 DEF ClientType, Begin
<1> QED
  BY <1>1, <1>2, <1>3

\* get_waiter takes a waiter that is free.
LEMMA FirstFreeIs ==
  ASSUME \E w \in Waiters : ~inuse[w]
  PROVE  FirstFree \in Waiters /\ ~inuse[FirstFree]
<1>1. Unused \in SUBSET Nat /\ Unused # {}
  BY WaiterAssumption DEF Unused, Waiters
<1>2. PICK w \in Unused : \A v \in Unused : w <= v
  BY <1>1, LeastIs
<1>3. \E x \in Waiters : ~inuse[x] /\ \A v \in Waiters : ~inuse[v] => x <= v
  BY <1>2 DEF Unused
<1> QED
  BY <1>3 DEF FirstFree

LEMMA HeadIs ==
  ASSUME NEW S, NEW s \in Seq(S), s # <<>>
  PROVE  Head(s) \in ToSet(s) /\ Head(s) \in S
<1>1. Len(s) \in Nat \ {0} /\ DOMAIN s = 1..Len(s) /\ Head(s) = s[1]
  BY EmptySeq
<1> QED
  BY <1>1 DEF ToSet

LEMMA TwoFieldsAre ==
  ASSUME ClientType, NEW t \in Callers, NEW l \in Places
  PROVE  /\ call' = [call EXCEPT ![t].op = "flush sync", ![t].at = l] =>
              /\ call' \in [Callers -> Calls] /\ \A u \in Callers \ {t} : call'[u] = call[u]
              /\ call'[t].op = "flush sync" /\ call'[t].at = l /\ call'[t].port = call[t].port
              /\ call'[t].buf = call[t].buf /\ call'[t].w = call[t].w /\ call'[t].ok = call[t].ok
         /\ call' = [call EXCEPT ![t].ok = FALSE, ![t].at = l] =>
              /\ call' \in [Callers -> Calls] /\ \A u \in Callers \ {t} : call'[u] = call[u]
              /\ call'[t].op = call[t].op /\ call'[t].at = l /\ call'[t].port = call[t].port
              /\ call'[t].buf = call[t].buf /\ call'[t].w = call[t].w /\ ~call'[t].ok
<1>1. "flush sync" \in Ops
  BY DEF Ops
<1>2. ASSUME call' = [call EXCEPT ![t].op = "flush sync", ![t].at = l]
      PROVE  /\ call' \in [Callers -> Calls] /\ \A u \in Callers \ {t} : call'[u] = call[u]
             /\ call'[t].op = "flush sync" /\ call'[t].at = l /\ call'[t].port = call[t].port
             /\ call'[t].buf = call[t].buf /\ call'[t].w = call[t].w /\ call'[t].ok = call[t].ok
  BY <1>1, <1>2 DEF ClientType, Calls
<1>3. ASSUME call' = [call EXCEPT ![t].ok = FALSE, ![t].at = l]
      PROVE  /\ call' \in [Callers -> Calls] /\ \A u \in Callers \ {t} : call'[u] = call[u]
             /\ call'[t].op = call[t].op /\ call'[t].at = l /\ call'[t].port = call[t].port
             /\ call'[t].buf = call[t].buf /\ call'[t].w = call[t].w /\ ~call'[t].ok
  BY <1>3 DEF ClientType, Calls
<1> QED
  BY <1>2, <1>3

LEMMA PickedIs ==
  ASSUME ClientType, NEW t \in Callers, NEW v \in Waiters,
         call' = [call EXCEPT ![t].at = "ask", ![t].w = v]
  PROVE  /\ call' \in [Callers -> Calls] /\ \A u \in Callers \ {t} : call'[u] = call[u]
         /\ call'[t].op = call[t].op /\ call'[t].at = "ask" /\ call'[t].port = call[t].port
         /\ call'[t].buf = call[t].buf /\ call'[t].w = v /\ call'[t].ok = call[t].ok
<1>1. v \in 0..MaxWaiters /\ "ask" \in Places
  BY WaiterAssumption DEF Waiters, Places
<1> QED
  BY <1>1 DEF ClientType, Calls

LEMMA ClientTypeStep ==
  ASSUME TypeOK, IInv, [Next]_vars
  PROVE  ClientType'
<1> USE DEF TypeOK, At, Fails
<1>1. ASSUME NEW t \in Callers,
             \/ InitRelease(t) \/ Use(t) \/ Unuse(t) \/ FlushBulkLock(t) \/ DisableLock(t)
             \/ Grab(t) \/ AskVC(t) \/ DummyBulk(t) \/ Wake(t) \/ Release(t) \/ PostPool(t)
             \/ DrainEnd(t)
      PROVE  ClientType'
  <2>1. UNCHANGED <<got, calls, failures>> /\ \E l \in Places : Goto(t, l)
    BY <1>1 DEF Places, InitRelease, Use, Unuse, UseOrRelease, FlushBulkLock, DisableLock, Grab,
                AskVC, DummyBulk, Wake, Release, PostPool, DrainEnd
  <2> QED
    BY <2>1, CallIs DEF ClientType
<1>2. ASSUME NEW t \in Callers,
             \/ Deinit(t) \/ FlushAnswered(t) \/ EnableAnswered(t) \/ DisableEnd(t) \/ Answered(t)
             \/ SendMessage(t) \/ SendFails(t) \/ SendBulk(t)
      PROVE  ClientType'
  <2>1. UNCHANGED <<got, calls>> /\ (failures' = failures \/ SendFails(t))
    BY <1>2 DEF Deinit, FlushAnswered, EnableAnswered, DisableEnd, Answered, SendMessage, SendFails,
                SendBulk
  <2>2. Return(t) \/ Goto(t, "bulk") \/ Goto(t, "drain") \/ Goto(t, "unuse")
    BY <1>2 DEF Deinit, FlushAnswered, EnableAnswered, DisableEnd, Answered, SendMessage, SendFails,
                SendBulk
  <2>3. call' \in [Callers -> Calls]
    BY <2>2, CallIs DEF Places
  <2>4. SendFails(t) => failures > 0 /\ failures' = failures - 1
    BY DEF SendFails
  <2>5. failures' \in Nat
    BY <2>1, <2>4 DEF ClientType
  <2> QED
    BY <2>1, <2>3, <2>5 DEF ClientType
<1>3. ASSUME NEW t \in Callers,
             \/ RequestBegin(t) \/ CreateBegin(t) \/ DestroyBegin(t) \/ SendBegin(t)
             \/ \E p \in Ports : FlushBegin(t, p) \/ DisableBegin(t, p) \/ EnableBegin(t, p)
      PROVE  ClientType'
  <2>1. failures' = failures /\ \E op \in Ops, p \in Ports \cup {Nobody},
                                   b \in Buffers \cup {Nobody}, l \in Places : Begin(t, op, p, b, l)
    BY <1>3, PortAssumption
       DEF PortType, Places, Ops, RequestBegin, CreateBegin, DestroyBegin, SendBegin, FlushBegin,
           DisableBegin, EnableBegin
  <2> QED
    BY <2>1, CallIs DEF ClientType
<1>4. ASSUME NEW t \in Callers, FlushChoose(t) PROVE ClientType'
  <2>1. UNCHANGED <<got, calls, failures>>
    BY <1>4 DEF FlushChoose
  <2>2. \/ Return(t)
        \/ call' = [call EXCEPT ![t].op = "flush sync", ![t].at = "bulk lock"]
        \/ call' = [call EXCEPT ![t].at = "grab"]
    BY <1>4 DEF FlushChoose
  <2>3. call' \in [Callers -> Calls]
    <3>1. Return(t) => call' \in [Callers -> Calls]
      BY CallIs
    <3>2. "bulk lock" \in Places /\ "grab" \in Places
      BY DEF Places
    <3>3. call' = [call EXCEPT ![t].op = "flush sync", ![t].at = "bulk lock"] =>
            call' \in [Callers -> Calls]
      BY <3>2, TwoFieldsAre
    <3>4. call' = [call EXCEPT ![t].at = "grab"] => call' \in [Callers -> Calls]
      BY <3>2, CallIs DEF Goto
    <3> QED
      BY <2>2, <3>1, <3>3, <3>4
  <2> QED
    BY <2>1, <2>3 DEF ClientType
<1>5. ASSUME NEW t \in Callers, AskFails(t) PROVE ClientType'
  <2>1. UNCHANGED <<got, calls>> /\ (failures > 0 /\ failures' = failures - 1)
    BY <1>5 DEF AskFails
  <2>2. call' \in [Callers -> Calls]
    BY <1>5, TwoFieldsAre DEF AskFails, ClientType, Places
  <2>3. failures' \in Nat
    BY <2>1 DEF ClientType
  <2> QED
    BY <2>1, <2>2, <2>3 DEF ClientType
<1>6. ASSUME NEW t \in Callers, Pick(t) PROVE ClientType'
  <2>1. FirstFree \in Waiters
    BY <1>6, FirstFreeIs DEF Pick
  <2>2. call' \in [Callers -> Calls]
    BY <1>6, <2>1, PickedIs DEF Pick
  <2> QED
    BY <1>6, <2>2 DEF Pick, ClientType
<1>7. ASSUME NEW t \in Callers, DrainOne(t) PROVE ClientType'
  BY <1>7 DEF DrainOne, ClientType
<1>8. ASSUME Elsewhere, ~HostReply PROVE ClientType'
  BY <1>8 DEF Elsewhere, VcTake, VcBulk, VcReturn, VcAnswer, HostBuffer, HostBulk, HostQueue,
              ActionDeliver, ClientType
<1>9. ASSUME HostReply PROVE ClientType'
  <2>1. Head(toHost) \in ToSet(toHost) /\ Head(toHost).op = "reply"
    BY <1>9, HeadIs DEF HostReply, QueueType
  <2>2. Head(toHost).who \in Callers
    BY <2>1, ReplyAllows
  <2> QED
    BY <1>9, <2>2 DEF HostReply, ClientType
<1>10. ASSUME Aside PROVE ClientType'
  BY <1>10 DEF Aside, vars, ActionWake, ActionBegin, ActionEnd, ClientType
<1> QED
  BY NextCases, <1>1, <1>2, <1>3, <1>4, <1>5, <1>6, <1>7, <1>8, <1>9, <1>10
     DEF Quiet, Moves

LEMMA LifeTypeStep ==
  ASSUME TypeOK, IInv, [Next]_vars
  PROVE  LifeType'
<1>1. ASSUME UNCHANGED life PROVE LifeType'
  BY <1>1 DEF TypeOK, LifeType
<1>2. ASSUME NEW t \in Callers, CreateBegin(t) PROVE LifeType'
  <2>1. comps' = comps /\ refcount' = refcount + 1 /\ (open' = open \/ open' = TRUE)
    BY <1>2 DEF CreateBegin
  <2>2. open' \in BOOLEAN
    BY <2>1 DEF TypeOK, LifeType
  <2> QED
    BY <2>1, <2>2 DEF TypeOK, LifeType
<1>3. ASSUME NEW t \in Callers, Deinit(t) PROVE LifeType'
  <2>1. refcount > 0
    BY <1>3, CountsAllow DEF Deinit
  <2> QED
    BY <1>3, <2>1 DEF TypeOK, LifeType, Deinit
<1>4. ASSUME NEW t \in Callers, Answered(t) PROVE LifeType'
  BY <1>4 DEF TypeOK, LifeType, Answered
<1> QED
  BY NextCases, QuietKeeps, MovesKeep, ElsewhereKeeps, <1>1, <1>2, <1>3, <1>4

LEMMA PortTypeStep ==
  ASSUME TypeOK, IInv, [Next]_vars
  PROVE  PortType'
<1> USE DEF TypeOK, PortType
<1>1. on' \in [Ports -> BOOLEAN]
  <2>1. ASSUME NEW t \in Callers, \E p \in Ports : DisableBegin(t, p) PROVE on' \in [Ports -> BOOLEAN]
    BY <2>1 DEF DisableBegin
  <2>2. ASSUME NEW t \in Callers, EnableAnswered(t) PROVE on' \in [Ports -> BOOLEAN]
    BY <2>2 DEF EnableAnswered, ClientType, Calls
  <2> QED
    BY NextCases, QuietKeeps, MovesKeep, ElsewhereKeeps, <2>1, <2>2
<1>2. sentData' \in [Ports -> BOOLEAN]
  <2>1. ASSUME NEW t \in Callers, SendBegin(t) PROVE sentData' \in [Ports -> BOOLEAN]
    BY <2>1, PortAssumption DEF SendBegin
  <2> QED
    BY NextCases, QuietKeeps, MovesKeep, ElsewhereKeeps, <2>1
<1>3. ctx' \in [Ports -> 0..Contexts]
  <2> USE PortAssumption
  <2>1. ASSUME NEW b \in Buffers, ctx[PortOf[b]] < Contexts,
               ctx' = [ctx EXCEPT ![PortOf[b]] = @ + 1]
        PROVE  ctx' \in [Ports -> 0..Contexts]
    <3>1. PortOf[b] \in Ports /\ ctx[PortOf[b]] \in 0..Contexts
      OBVIOUS
    <3>2. ctx[PortOf[b]] + 1 \in 0..Contexts
      BY <2>1, <3>1
    <3> QED
      BY <2>1, <3>1, <3>2
  <2>2. ASSUME NEW t \in Callers, SendBegin(t) PROVE ctx' \in [Ports -> 0..Contexts]
    <3>1. \/ UNCHANGED ctx
          \/ \E p \in Ports : ctx[p] > 0 /\ ctx' = [ctx EXCEPT ![p] = @ - 1]
      BY <2>2 DEF SendBegin
    <3> QED
      BY <3>1
  <2>3. ASSUME NEW t \in Callers, SendFails(t) PROVE ctx' \in [Ports -> 0..Contexts]
    <3>1. call[t].buf \in Buffers /\ Carried(call[t].buf)
      BY <2>3, CallerIs DEF SendFails, Carried
    <3>2. ctx[PortOf[call[t].buf]] < Contexts
      BY <3>1, ContextAllows
    <3> QED
      BY <2>1, <2>3, <3>1, <3>2 DEF SendFails
  <2>4. ASSUME NEW t \in Callers, \E p \in Ports : EnableBegin(t, p)
        PROVE  ctx' \in [Ports -> 0..Contexts]
    BY <2>4 DEF EnableBegin
  <2>5. ASSUME HostBuffer PROVE ctx' \in [Ports -> 0..Contexts]
    <3>1. CASE Head(toHost).bulk
      BY <2>5, <3>1 DEF HostBuffer
    <3>2. CASE ~Head(toHost).bulk
      <4>1. Head(toHost) \in ToSet(toHost) /\ Head(toHost) \in FromVC
            /\ Head(toHost).op = "buffer"
        BY <2>5, HeadIs DEF HostBuffer, QueueType
      <4>2. Head(toHost).buf \in Buffers /\ Head(toHost) = Plain(Head(toHost).buf)
        BY <3>2, <4>1, ReplyIs
      <4>3. ctx[PortOf[Head(toHost).buf]] < Contexts
        BY <4>1, <4>2, ContextAllows
      <4>4. ctx' = [ctx EXCEPT ![PortOf[Head(toHost).buf]] = @ + 1]
        BY <2>5, <3>2 DEF HostBuffer, FreeContext
      <4> QED
        BY <2>1, <4>2, <4>3, <4>4
    <3> QED
      BY <3>1, <3>2
  <2>6. ASSUME HostBulk PROVE ctx' \in [Ports -> 0..Contexts]
    <3>1. Head(bulkRx) \in Buffers /\ Head(bulkRx) \in ToSet(bulkRx)
      BY <2>6, HeadIs DEF HostBulk, HostType
    <3> QED
      BY <2>1, <2>6, <3>1, ContextAllows DEF HostBulk, FreeContext
  <2> QED
    BY NextCases, QuietKeeps, MovesKeep, ElsewhereKeeps, <2>2, <2>3, <2>4, <2>5, <2>6
<1>4. mine' \subseteq Buffers
  <2>1. ASSUME NEW t \in Callers, SendBegin(t) PROVE mine' \subseteq Buffers
    BY <2>1 DEF SendBegin
  <2>2. ASSUME NEW t \in Callers, SendFails(t) PROVE mine' \subseteq Buffers
    BY <2>2, CallerIs DEF SendFails
  <2>3. ASSUME cbq # <<>>, mine' = mine \cup {Head(cbq)} PROVE mine' \subseteq Buffers
    BY <2>3, HeadIs DEF HostType
  <2>4. ASSUME NEW t \in Callers, DrainOne(t) PROVE mine' \subseteq Buffers
    BY <2>3, <2>4 DEF DrainOne
  <2>5. ASSUME HostQueue \/ ActionDeliver PROVE mine' \subseteq Buffers
    BY <2>3, <2>5 DEF HostQueue, ActionDeliver
  <2> QED
    BY NextCases, QuietKeeps, MovesKeep, ElsewhereKeeps, <2>1, <2>2, <2>4, <2>5
<1> QED
  BY <1>1, <1>2, <1>3, <1>4

LEMMA LockTypeStep ==
  ASSUME TypeOK, IInv, [Next]_vars
  PROVE  LockType'
<1> USE DEF TypeOK, LockType
<1>1. sending' \in [Ports -> Callers \cup {Nobody}]
  <2>1. ASSUME NEW t \in Callers, FlushChoose(t) \/ FlushAnswered(t)
        PROVE  sending' \in [Ports -> Callers \cup {Nobody}]
    BY <2>1 DEF FlushChoose, FlushAnswered
  <2>2. ASSUME NEW t \in Callers, SendBegin(t) \/ SendMessage(t) \/ SendFails(t) \/ SendBulk(t)
        PROVE  sending' \in [Ports -> Callers \cup {Nobody}]
    BY <2>2 DEF SendBegin, SendMessage, SendFails, SendBulk
  <2> QED
    BY NextCases, QuietKeeps, MovesKeep, ElsewhereKeeps, <2>1, <2>2
<1>2. bulkLock' \in Callers \cup {Nobody}
  <2>1. ASSUME NEW t \in Callers, FlushBulkLock(t) \/ AskFails(t)
        PROVE  bulkLock' \in Callers \cup {Nobody}
    BY <2>1 DEF FlushBulkLock, AskFails
  <2>2. ASSUME NEW t \in Callers, SendMessage(t) \/ SendBulk(t) \/ DummyBulk(t)
        PROVE  bulkLock' \in Callers \cup {Nobody}
    BY <2>2 DEF SendMessage, SendBulk, DummyBulk
  <2> QED
    BY NextCases, QuietKeeps, MovesKeep, ElsewhereKeeps, <2>1, <2>2
<1>3. actionLock' \in Callers \cup {Nobody, Action}
  <2>1. ASSUME NEW t \in Callers, Quiet(t)
        PROVE  actionLock' \in Callers \cup {Nobody, Action}
    BY <2>1
       DEF Quiet, RequestBegin, CreateBegin, DestroyBegin, FlushBegin, DisableBegin, EnableBegin,
           InitRelease, Use, Unuse, UseOrRelease, Deinit, FlushChoose, FlushBulkLock, DisableLock,
           Grab, Pick, AskFails, Release, PostPool, FlushAnswered, EnableAnswered, Answered,
           DrainEnd, DisableEnd
  <2>2. ASSUME HostQueue \/ ActionWake \/ ActionBegin \/ ActionEnd
        PROVE  actionLock' \in Callers \cup {Nobody, Action}
    BY <2>2 DEF HostQueue, ActionWake, ActionBegin, ActionEnd
  <2> QED
    BY NextCases, MovesKeep, ElsewhereKeeps, <2>1, <2>2
<1> QED
  BY <1>1, <1>2, <1>3

LEMMA WaitTypeStep ==
  ASSUME TypeOK, IInv, [Next]_vars
  PROVE  WaitType'
<1> USE DEF TypeOK, WaitType
<1>1. waitSem' \in 0..MaxWaiters
  <2>1. ASSUME NEW t \in Callers, Grab(t) PROVE waitSem' \in 0..MaxWaiters
    BY <2>1, WaiterAssumption DEF Grab
  <2>2. ASSUME NEW t \in Callers, PostPool(t) PROVE waitSem' \in 0..MaxWaiters
    <3>1. waitSem < MaxWaiters
      BY <2>2, CountsAllow DEF PostPool
    <3> QED
      BY <2>2, <3>1, WaiterAssumption DEF PostPool
  <2> QED
    BY NextCases, QuietKeeps, MovesKeep, ElsewhereKeeps, <2>1, <2>2
<1>2. usecount' \in Nat
  <2>1. ASSUME NEW t \in Callers, InitRelease(t) \/ Unuse(t) \/ Wake(t) PROVE usecount' \in Nat
    <3>1. At(t, "init release") \/ At(t, "unuse") \/ Asking(t)
      BY <2>1 DEF InitRelease, Unuse, UseOrRelease, Wake, Asking
    <3>2. usecount > 0
      BY <3>1, CountsAllow
    <3>3. usecount' = usecount + -1 \/ usecount' = usecount - 1
      BY <2>1 DEF InitRelease, Unuse, UseOrRelease, Wake
    <3> QED
      BY <3>2, <3>3
  <2>2. ASSUME NEW t \in Callers, CreateBegin(t) \/ Use(t) \/ AskVC(t) PROVE usecount' \in Nat
    <3>1. usecount' \in {1, usecount, usecount + 1}
      BY <2>2 DEF CreateBegin, Use, UseOrRelease, AskVC
    <3> QED
      BY <3>1
  <2> QED
    BY NextCases, QuietKeeps, MovesKeep, ElsewhereKeeps, <2>1, <2>2
<1>3. inuse' \in [Waiters -> BOOLEAN] /\ dest' \in [Waiters -> Callers \cup {Nobody}]
  <2>1. ASSUME NEW t \in Callers, Pick(t) \/ Release(t)
        PROVE  inuse' \in [Waiters -> BOOLEAN] /\ dest' \in [Waiters -> Callers \cup {Nobody}]
    BY <2>1 DEF Pick, Release
  <2> QED
    BY NextCases, QuietKeeps, MovesKeep, ElsewhereKeeps, <2>1
<1>4. replied' \in [Waiters -> {0, 1}]
  <2>1. ASSUME NEW t \in Callers, Wake(t) PROVE replied' \in [Waiters -> {0, 1}]
    <3>1. replied[call[t].w] > 0 /\ replied' = [replied EXCEPT ![call[t].w] = @ - 1]
      BY <2>1 DEF Wake
    <3>2. \A w \in Waiters : replied[w] > 0 => replied[w] - 1 \in {0, 1}
      OBVIOUS
    <3> QED
      BY <3>1, <3>2
  <2>2. ASSUME HostReply PROVE replied' \in [Waiters -> {0, 1}]
    <3>1. Head(toHost) \in ToSet(toHost) /\ Head(toHost).op = "reply"
      BY <2>2, HeadIs DEF HostReply, QueueType
    <3>2. replied[Head(toHost).w] = 0
      BY <3>1, ReplyAllows
    <3>3. replied' = [replied EXCEPT ![Head(toHost).w] = @ + 1]
      BY <2>2 DEF HostReply
    <3>4. replied' = [replied EXCEPT ![Head(toHost).w] = 1]
      BY <3>2, <3>3
    <3> QED
      BY <3>4
  <2> QED
    BY NextCases, QuietKeeps, MovesKeep, ElsewhereKeeps, <2>1, <2>2
<1> QED
  BY <1>1, <1>2, <1>3, <1>4

LEMMA TailKeeps ==
  ASSUME NEW S, NEW s \in Seq(S), s # <<>>
  PROVE  Tail(s) \in Seq(S)
BY EmptySeq, HeadTailProperties

\* What a request says, and that it is in one place.
LEMMA AskIs ==
  ASSUME TypeOK, IInv, NEW t \in Callers, Holding(t)
  PROVE  /\ Ask(t) \in Requests /\ Ask(t) \in ToVC
         /\ Ask(t).op = call[t].op /\ Ask(t).op # "buffer" /\ Ask(t).who = t
         /\ Ask(t).port = call[t].port /\ Ask(t).w = call[t].w
         /\ Reply(t) \in FromVC /\ Reply(t).op = "reply" /\ Reply(t).who = t
<1>1. call[t] \in Calls /\ call[t].w \in Waiters
  BY CallerIs DEF TypeOK, ClientType
<1>2. Ask(t) \in Requests
  BY <1>1 DEF Ask, Requests, Calls
<1>3. Reply(t) \in Replies
  BY <1>1 DEF Reply, Replies
<1>4. /\ Ask(t).op = call[t].op /\ Ask(t).who = t /\ Ask(t).port = call[t].port
      /\ Ask(t).w = call[t].w /\ Reply(t).op = "reply" /\ Reply(t).who = t
  BY DEF Ask, Reply
<1> QED
  BY <1>2, <1>3, <1>4, MessageIs, ReplyIs

LEMMA OneAnswer ==
  ASSUME RequestInv, NEW t \in Callers, Asking(t)
  PROVE  /\ Ask(t) \in ToSet(toVC) \/ Ask(t) \in ToSet(expect) \/ Ask(t) \in jobs
            \/ Reply(t) \in ToSet(toHost) \/ replied[call[t].w] = 1
         /\ Ask(t) \in ToSet(toVC) => /\ Ask(t) \notin ToSet(expect) /\ Ask(t) \notin jobs
                                     /\ Reply(t) \notin ToSet(toHost) /\ replied[call[t].w] # 1
         /\ Ask(t) \in ToSet(expect) => /\ Ask(t) \notin jobs /\ Reply(t) \notin ToSet(toHost)
                                       /\ replied[call[t].w] # 1
         /\ Ask(t) \in jobs => Reply(t) \notin ToSet(toHost) /\ replied[call[t].w] # 1
         /\ Reply(t) \in ToSet(toHost) => replied[call[t].w] # 1
BY DEF RequestInv, One

\* What the VideoCore sends back.
LEMMA ReturnedIs ==
  ASSUME TypeOK, VcReturn
  PROVE  \E b \in vcHas, e \in FromVC :
            /\ vcHas' = vcHas \ {b} /\ toHost' = Append(toHost, e)
            /\ e = IF PortOf[b] \in Inputs THEN Plain(b) ELSE Data(b)
<1>1. PICK b \in vcHas : /\ vcHas' = vcHas \ {b}
                         /\ toHost' = Append(toHost, ToHost(b, PortOf[b] \notin Inputs))
  BY DEF VcReturn
<1>2. b \in Buffers
  BY DEF TypeOK, QueueType
<1>3. ToHost(b, PortOf[b] \notin Inputs) = IF PortOf[b] \in Inputs THEN Plain(b) ELSE Data(b)
  BY <1>2, ReplyIs
<1>4. Plain(b) \in FromVC /\ Data(b) \in FromVC
  BY <1>2, ReplyIs
<1> QED
  BY <1>1, <1>3, <1>4

LEMMA AnsweredIs ==
  ASSUME TypeOK, IInv, VcAnswer
  PROVE  \E t \in Callers, back \in SUBSET vcHas :
            LET from == {Plain(b) : b \in back}
            IN /\ Asking(t) /\ Ask(t) \in jobs /\ jobs' = jobs \ {Ask(t)} /\ vcHas' = vcHas \ back
               /\ call[t].op = "disable" =>
                    back = vcHas \cap Of(call[t].port) /\ Transfers(call[t].port) = {}
               /\ toHost' \in Seq(FromVC)
               /\ ToSet(toHost') = ToSet(toHost) \cup from \cup {Reply(t)} /\ Injective(toHost')
               /\ \A x, y : Before(toHost', x, y) =>
                    Before(toHost, x, y) \/ (y \notin ToSet(toHost) /\ x # Reply(t))
<1>1. PICK m \in jobs :
        /\ m.op = "disable" => Transfers(m.port) = {}
        /\ jobs' = jobs \ {m}
        /\ LET back == IF m.port = Nobody \/ m.op = "enable" THEN {} ELSE vcHas \cap Of(m.port)
                reply == [op |-> "reply", buf |-> Nobody, bulk |-> FALSE, who |-> m.who, w |-> m.w]
            IN /\ vcHas' = vcHas \ back
               /\ toHost' = toHost \o SetToSeq({ToHost(b, FALSE) : b \in back}) \o <<reply>>
  BY DEF VcAnswer
<1> DEFINE back == IF m.port = Nobody \/ m.op = "enable" THEN {} ELSE vcHas \cap Of(m.port)
           from == {Plain(b) : b \in back}
           t == m.who
<1>2. m \in Requests /\ m.op # "buffer" /\ t \in Callers
  BY MessageIs DEF TypeOK, QueueType
<1>3. Asking(t) /\ m = Ask(t)
  BY <1>2 DEF IInv, RequestInv
<1>4. /\ m.op = call[t].op /\ m.port = call[t].port /\ m.w = call[t].w
      /\ Reply(t) \in FromVC /\ Reply(t).op = "reply"
  BY <1>2, <1>3, AskIs DEF Holding
<1>5. back \in SUBSET vcHas /\ back \in SUBSET Buffers
  BY DEF TypeOK, QueueType
<1>6. /\ vcHas' = vcHas \ back
      /\ toHost' = toHost \o SetToSeq(from) \o <<Reply(t)>>
  BY <1>1, <1>4 DEF Reply, Plain
<1>7. call[t].op = "disable" => back = vcHas \cap Of(call[t].port) /\ Transfers(call[t].port) = {}
  <2>1. call[t].op = "disable" => call[t].port # Nobody
    BY <1>2, CallerIs, NameAssumption DEF PortOps
  <2> QED
    BY <1>1, <1>4, <2>1
<1> HIDE DEF back
<1>8. from \in SUBSET FromVC /\ IsFiniteSet(from)
  <2>1. IsFiniteSet(back)
    BY <1>5, Counted
  <2> DEFINE f == [b \in back |-> Plain(b)]
  <2>2. f \in Surjection(back, from)
    BY DEF Surjection
  <2>3. IsFiniteSet(from)
    BY <2>1, <2>2, FS_Surjection
  <2>4. from \in SUBSET FromVC
    BY <1>5, ReplyIs
  <2> QED
    BY <2>3, <2>4
<1>9. from \cap ToSet(toHost) = {}
  BY <1>5, OnePlace DEF IInv
<1>10. Reply(t) \notin ToSet(toHost) \cup from
  <2>1. Reply(t) \notin ToSet(toHost)
    BY <1>2, <1>3, OneAnswer DEF IInv
  <2>2. Reply(t) \notin from
    BY <1>4, <1>5, ReplyIs
  <2> QED
    BY <2>1, <2>2
<1> HIDE DEF from
<1>11. toHost \in Seq(FromVC) /\ Injective(toHost)
  BY DEF TypeOK, QueueType, IInv, QueueInv
<1>12. /\ toHost' \in Seq(FromVC)
       /\ ToSet(toHost') = ToSet(toHost) \cup from \cup {Reply(t)} /\ Injective(toHost')
       /\ \A x, y : Before(toHost', x, y) =>
            Before(toHost, x, y) \/ (y \notin ToSet(toHost) /\ x # Reply(t))
  BY <1>4, <1>6, <1>8, <1>9, <1>10, <1>11, AnswerIs
<1> QED
  BY <1>1, <1>2, <1>3, <1>5, <1>6, <1>7, <1>12 DEF from

LEMMA HostTypeStep ==
  ASSUME TypeOK, IInv, [Next]_vars
  PROVE  HostType'
<1> USE DEF TypeOK, HostType
<1>1. cbq # <<>> => Tail(cbq) \in Seq(Buffers)
  BY TailKeeps
<1>2. cbq' \in Seq(Buffers)
  <2>1. ASSUME NEW t \in Callers, DrainOne(t) PROVE cbq' \in Seq(Buffers)
    BY <1>1, <2>1 DEF DrainOne
  <2>2. ASSUME HostQueue \/ ActionDeliver PROVE cbq' \in Seq(Buffers)
    <3>1. host # Nobody => Append(cbq, host) \in Seq(Buffers)
      BY AppendIs
    <3> QED
      BY <1>1, <2>2, <3>1 DEF HostQueue, ActionDeliver, Free
  <2> QED
    BY NextCases, QuietKeeps, MovesKeep, ElsewhereKeeps, <2>1, <2>2
<1>3. host' \in Buffers \cup {Nobody} /\ bulkRx' \in Seq(Buffers)
  <2>1. ASSUME HostBuffer PROVE host' \in Buffers \cup {Nobody} /\ bulkRx' \in Seq(Buffers)
    <3>1. Head(toHost).buf \in Buffers
      BY <2>1, HeadIs, ReplyIs DEF HostBuffer, QueueType
    <3>2. Append(bulkRx, Head(toHost).buf) \in Seq(Buffers)
      BY <3>1, AppendIs
    <3> QED
      BY <2>1, <3>1, <3>2 DEF HostBuffer, FreeContext
  <2>2. ASSUME HostBulk PROVE host' \in Buffers \cup {Nobody} /\ bulkRx' \in Seq(Buffers)
    BY <2>2, HeadIs, TailKeeps DEF HostBulk, FreeContext
  <2>3. ASSUME HostQueue PROVE host' \in Buffers \cup {Nobody} /\ bulkRx' \in Seq(Buffers)
    BY <2>3 DEF HostQueue
  <2> QED
    BY NextCases, QuietKeeps, MovesKeep, ElsewhereKeeps, <2>1, <2>2, <2>3
<1>4. trigger' \in BOOLEAN /\ action' \in {"waiting", "woken", "looping"}
  <2>1. ASSUME HostQueue \/ ActionWake \/ ActionBegin \/ ActionEnd
        PROVE  trigger' \in BOOLEAN /\ action' \in {"waiting", "woken", "looping"}
    BY <2>1 DEF HostQueue, ActionWake, ActionBegin, ActionEnd
  <2> QED
    BY NextCases, QuietKeeps, MovesKeep, ElsewhereKeeps, <2>1
<1> QED
  BY <1>2, <1>3, <1>4

LEMMA QueueTypeStep ==
  ASSUME TypeOK, IInv, [Next]_vars
  PROVE  QueueType'
<1> USE DEF TypeOK, QueueType
<1>1. toVC' \in Seq(ToVC)
  <2>1. ASSUME NEW t \in Callers, SendMessage(t) PROVE toVC' \in Seq(ToVC)
    <3>1. call[t].buf \in Buffers
      BY <2>1, CallerIs DEF SendMessage
    <3>2. Send(call[t].buf) \in ToVC
      BY <3>1, MessageIs
    <3> QED
      BY <2>1, <3>2, AppendIs DEF SendMessage
  <2>2. ASSUME NEW t \in Callers, AskVC(t) PROVE toVC' \in Seq(ToVC)
    <3>1. Ask(t) \in ToVC
      BY <2>2, AskIs DEF AskVC, Holding
    <3> QED
      BY <2>2, <3>1, AppendIs DEF AskVC
  <2>3. ASSUME VcTake PROVE toVC' \in Seq(ToVC)
    BY <2>3, TailKeeps DEF VcTake
  <2> QED
    BY NextCases, QuietKeeps, MovesKeep, ElsewhereKeeps, <2>1, <2>2, <2>3
<1>2. bulkTx' \in Seq(Buffers \cup Callers)
  <2>1. ASSUME NEW t \in Callers, SendBulk(t) PROVE bulkTx' \in Seq(Buffers \cup Callers)
    <3>1. call[t].buf \in Buffers
      BY <2>1, CallerIs DEF SendBulk
    <3> QED
      BY <2>1, <3>1, AppendIs DEF SendBulk
  <2>2. ASSUME NEW t \in Callers, DummyBulk(t) PROVE bulkTx' \in Seq(Buffers \cup Callers)
    BY <2>2, AppendIs DEF DummyBulk
  <2>3. ASSUME VcBulk PROVE bulkTx' \in Seq(Buffers \cup Callers)
    BY <2>3, TailKeeps DEF VcBulk
  <2> QED
    BY NextCases, QuietKeeps, MovesKeep, ElsewhereKeeps, <2>1, <2>2, <2>3
<1>3. expect' \in Seq(ToVC) /\ vcHas' \subseteq Buffers /\ jobs' \subseteq Requests
  <2>1. ASSUME VcTake PROVE expect' \in Seq(ToVC) /\ vcHas' \subseteq Buffers /\ jobs' \subseteq Requests
    <3>1. Head(toVC) \in ToVC
      BY <2>1, HeadIs DEF VcTake
    <3>2. Append(expect, Head(toVC)) \in Seq(ToVC)
      BY <3>1, AppendIs
    <3>3. IF Head(toVC).op = "buffer" THEN Head(toVC).buf \in Buffers ELSE Head(toVC) \in Requests
      BY <3>1, MessageIs
    <3> QED
      BY <2>1, <3>2, <3>3 DEF VcTake
  <2>2. ASSUME VcBulk PROVE expect' \in Seq(ToVC) /\ vcHas' \subseteq Buffers /\ jobs' \subseteq Requests
    <3>1. Head(expect) \in ToVC /\ Tail(expect) \in Seq(ToVC)
      BY <2>2, HeadIs, TailKeeps DEF VcBulk
    <3>2. IF Head(expect).op = "buffer" THEN Head(expect).buf \in Buffers
                                        ELSE Head(expect) \in Requests
      BY <3>1, MessageIs
    <3> QED
      BY <2>2, <3>1, <3>2 DEF VcBulk
  <2>3. ASSUME VcReturn \/ VcAnswer
        PROVE  expect' \in Seq(ToVC) /\ vcHas' \subseteq Buffers /\ jobs' \subseteq Requests
    BY <2>3 DEF VcReturn, VcAnswer
  <2> QED
    BY NextCases, QuietKeeps, MovesKeep, ElsewhereKeeps, <2>1, <2>2, <2>3
<1>4. toHost' \in Seq(FromVC)
  <2>1. ASSUME VcReturn PROVE toHost' \in Seq(FromVC)
    <3>1. PICK e \in FromVC : toHost' = Append(toHost, e)
      BY <2>1, ReturnedIs
    <3> QED
      BY <3>1, AppendIs
  <2>2. ASSUME VcAnswer PROVE toHost' \in Seq(FromVC)
    BY <2>2, AnsweredIs
  <2>3. ASSUME HostReply \/ HostBuffer PROVE toHost' \in Seq(FromVC)
    BY <2>3, TailKeeps DEF HostReply, HostBuffer
  <2> QED
    BY NextCases, QuietKeeps, MovesKeep, ElsewhereKeeps, <2>1, <2>2, <2>3
<1> QED
  BY <1>1, <1>2, <1>3, <1>4

-----------------------------------------------------------------------------
\* How the call of a thread goes on.
Others(t) == \A u \in Callers \ {t} : call'[u] = call[u]
Stays(t)  == /\ call'[t].port = call[t].port /\ call'[t].buf = call[t].buf
             /\ call'[t].w = call[t].w
Goes(t, from, to) == /\ Others(t) /\ call[t].at = from /\ call'[t].at = to /\ Stays(t)
                     /\ call'[t].op = call[t].op /\ call'[t].ok = call[t].ok
Ends(t, from) == /\ Others(t) /\ call[t].at = from /\ call'[t].at = "idle" /\ call'[t].op = "none"
                 /\ call'[t].port = Nobody /\ call'[t].buf = Nobody /\ call'[t].w = 0 /\ call'[t].ok
Begins(t, op, p, b, l) ==
  /\ Others(t) /\ call[t].at = "idle" /\ call'[t].op = op /\ call'[t].at = l
  /\ call'[t].port = p /\ call'[t].buf = b /\ call'[t].w = 0 /\ call'[t].ok

LEMMA CallSteps ==
  ASSUME TypeOK, NEW t \in Callers
  PROVE  /\ InitRelease(t)   => Goes(t, "init release", "use")
         /\ Use(t)           => Goes(t, "use", "grab")
         /\ Unuse(t)         => Goes(t, "unuse", "deinit")
         /\ Deinit(t)        => Ends(t, "deinit")
         /\ FlushBulkLock(t) => Goes(t, "bulk lock", "grab")
         /\ DisableLock(t)   => Goes(t, "action lock", "grab")
         /\ Grab(t)          => Goes(t, "grab", "pick")
         /\ AskVC(t)         => IF call[t].op = "flush sync" THEN Goes(t, "ask", "bulk")
                                                             ELSE Goes(t, "ask", "reply")
         /\ DummyBulk(t)     => Goes(t, "bulk", "reply") /\ call[t].op = "flush sync"
         /\ Wake(t)          => Goes(t, "reply", "release")
         /\ Release(t)       => Goes(t, "release", "post")
         /\ PostPool(t)      => Goes(t, "post", "done")
         /\ FlushAnswered(t) => Ends(t, "done") /\ call[t].op \in Flushing
         /\ EnableAnswered(t) => Ends(t, "done") /\ call[t].op = "enable"
         /\ DrainEnd(t)      => Goes(t, "drain", "transit")
         /\ DisableEnd(t)    => Ends(t, "transit")
         /\ SendFails(t)     => Ends(t, "message")
         /\ SendBulk(t)      => Ends(t, "bulk") /\ call[t].op = "send"
         /\ SendMessage(t)   => IF Announces(Send(call[t].buf)) THEN Goes(t, "message", "bulk")
                                                                ELSE Ends(t, "message")
         /\ RequestBegin(t)  => Begins(t, "request", Nobody, Nobody, "grab")
         /\ DestroyBegin(t)  => Begins(t, "destroy", Nobody, Nobody, "grab")
         /\ CreateBegin(t)   => IF refcount = 0 THEN Begins(t, "create", Nobody, Nobody, "init release")
                                                ELSE Begins(t, "create", Nobody, Nobody, "use")
         /\ \A p \in Ports : /\ FlushBegin(t, p)   => Begins(t, "flush", p, Nobody, "flush")
                             /\ DisableBegin(t, p) => Begins(t, "disable", p, Nobody, "action lock")
                             /\ EnableBegin(t, p)  => Begins(t, "enable", p, Nobody, "grab")
         /\ DrainOne(t)      => call' = call /\ call[t].at = "drain"
<1>1. \A l, m : At(t, l) /\ Goto(t, m) => Goes(t, l, m)
  BY GotoIs DEF Goes, Others, Stays, At
<1>2. \A l : At(t, l) /\ Return(t) => Ends(t, l)
  BY ReturnIs DEF Ends, Others, At
<1>3. \A o, p, b, l : Begin(t, o, p, b, l) => Begins(t, o, p, b, l)
  BY BeginIs DEF Begins, Others
<1>4. /\ InitRelease(t)   => Goes(t, "init release", "use")
      /\ Use(t)           => Goes(t, "use", "grab")
      /\ Unuse(t)         => Goes(t, "unuse", "deinit")
      /\ FlushBulkLock(t) => Goes(t, "bulk lock", "grab")
      /\ DisableLock(t)   => Goes(t, "action lock", "grab")
      /\ Grab(t)          => Goes(t, "grab", "pick")
      /\ DummyBulk(t)     => Goes(t, "bulk", "reply") /\ call[t].op = "flush sync"
      /\ Wake(t)          => Goes(t, "reply", "release")
      /\ Release(t)       => Goes(t, "release", "post")
      /\ PostPool(t)      => Goes(t, "post", "done")
      /\ DrainEnd(t)      => Goes(t, "drain", "transit")
  BY <1>1 DEF InitRelease, Use, Unuse, UseOrRelease, FlushBulkLock, DisableLock, Grab, DummyBulk,
              Wake, Release, PostPool, DrainEnd
<1>5. /\ Deinit(t)        => Ends(t, "deinit")
      /\ FlushAnswered(t) => Ends(t, "done") /\ call[t].op \in Flushing
      /\ EnableAnswered(t) => Ends(t, "done") /\ call[t].op = "enable"
      /\ DisableEnd(t)    => Ends(t, "transit")
      /\ SendFails(t)     => Ends(t, "message")
      /\ SendBulk(t)      => Ends(t, "bulk") /\ call[t].op = "send"
  BY <1>2 DEF Deinit, FlushAnswered, EnableAnswered, DisableEnd, SendFails, SendBulk, Flushing
<1>6. AskVC(t) => IF call[t].op = "flush sync" THEN Goes(t, "ask", "bulk") ELSE Goes(t, "ask", "reply")
  BY <1>1 DEF AskVC
<1>7. SendMessage(t) => IF Announces(Send(call[t].buf)) THEN Goes(t, "message", "bulk")
                                                        ELSE Ends(t, "message")
  BY <1>1, <1>2 DEF SendMessage
<1>8. /\ RequestBegin(t)  => Begins(t, "request", Nobody, Nobody, "grab")
      /\ DestroyBegin(t)  => Begins(t, "destroy", Nobody, Nobody, "grab")
      /\ CreateBegin(t)   => IF refcount = 0 THEN Begins(t, "create", Nobody, Nobody, "init release")
                                             ELSE Begins(t, "create", Nobody, Nobody, "use")
      /\ \A p \in Ports : /\ FlushBegin(t, p)   => Begins(t, "flush", p, Nobody, "flush")
                          /\ DisableBegin(t, p) => Begins(t, "disable", p, Nobody, "action lock")
                          /\ EnableBegin(t, p)  => Begins(t, "enable", p, Nobody, "grab")
  BY <1>3 DEF RequestBegin, DestroyBegin, CreateBegin, FlushBegin, DisableBegin, EnableBegin
<1>9. DrainOne(t) => call' = call /\ call[t].at = "drain"
  BY DEF DrainOne, At
<1> QED
  BY <1>4, <1>5, <1>6, <1>7, <1>8, <1>9

\* Those that choose.
LEMMA ChoiceSteps ==
  ASSUME TypeOK, NEW t \in Callers
  PROVE  /\ FlushChoose(t) =>
              \/ Ends(t, "flush") /\ UNCHANGED sending
              \/ /\ on[call[t].port] /\ sending[call[t].port] = Nobody
                 /\ sending' = [sending EXCEPT ![call[t].port] = t]
                 /\ IF sentData[call[t].port]
                      THEN /\ Others(t) /\ Stays(t) /\ call[t].at = "flush"
                           /\ call'[t].at = "bulk lock" /\ call'[t].op = "flush sync"
                           /\ call'[t].ok = call[t].ok
                      ELSE Goes(t, "flush", "grab")
         /\ Pick(t) =>
              /\ Others(t) /\ call[t].at = "pick" /\ call'[t].at = "ask" /\ call'[t].op = call[t].op
              /\ call'[t].port = call[t].port /\ call'[t].buf = call[t].buf
              /\ call'[t].w = FirstFree /\ call'[t].ok = call[t].ok
         /\ AskFails(t) =>
              /\ Others(t) /\ Stays(t) /\ call[t].at = "ask" /\ call[t].op \notin {"disable", "destroy"}
              /\ call'[t].at = "release" /\ call'[t].op = call[t].op /\ ~call'[t].ok
         /\ Answered(t) =>
              \/ Ends(t, "done") /\ call[t].op = "request" /\ UNCHANGED comps
              \/ Goes(t, "done", "drain") /\ call[t].op = "disable" /\ UNCHANGED comps
              \/ /\ call[t].op = "create" /\ call[t].ok /\ Ends(t, "done") /\ comps' = comps \cup {t}
              \/ /\ call[t].op = "create" /\ ~call[t].ok /\ Goes(t, "done", "unuse")
                 /\ UNCHANGED comps
              \/ call[t].op = "destroy" /\ Goes(t, "done", "unuse") /\ comps' = comps \ {t}
         /\ SendBegin(t) =>
              \/ Begins(t, "none", Nobody, Nobody, "idle") /\ UNCHANGED <<sending, mine, ctx, sentData>>
              \/ \E b \in mine :
                   /\ Begins(t, "send", PortOf[b], b, "message") /\ Usable /\ on[PortOf[b]]
                   /\ sending[PortOf[b]] = Nobody
                   /\ sending' = [sending EXCEPT ![PortOf[b]] = t] /\ mine' = mine \ {b}
                   /\ ctx[PortOf[b]] > 0 /\ ctx' = [ctx EXCEPT ![PortOf[b]] = @ - 1]
                   /\ sentData' = [sentData EXCEPT ![PortOf[b]] = @ \/ PortOf[b] \in Inputs]
<1>1. \A l, m : At(t, l) /\ Goto(t, m) => Goes(t, l, m)
  BY GotoIs DEF Goes, Others, Stays, At
<1>2. \A l : At(t, l) /\ Return(t) => Ends(t, l)
  BY ReturnIs DEF Ends, Others, At
<1>3. \A o, p, b, l : Begin(t, o, p, b, l) => Begins(t, o, p, b, l)
  BY BeginIs DEF Begins, Others
<1>4. ASSUME FlushChoose(t)
      PROVE  \/ Ends(t, "flush") /\ UNCHANGED sending
             \/ /\ on[call[t].port] /\ sending[call[t].port] = Nobody
                /\ sending' = [sending EXCEPT ![call[t].port] = t]
                /\ IF sentData[call[t].port]
                     THEN /\ Others(t) /\ Stays(t) /\ call[t].at = "flush"
                          /\ call'[t].at = "bulk lock" /\ call'[t].op = "flush sync"
                          /\ call'[t].ok = call[t].ok
                     ELSE Goes(t, "flush", "grab")
  <2>1. At(t, "flush") /\ "bulk lock" \in Places
    BY <1>4 DEF FlushChoose, Places
  <2>2. call' = [call EXCEPT ![t].at = "grab"] => Goes(t, "flush", "grab")
    BY <1>1, <2>1 DEF Goto
  <2>3. call' = [call EXCEPT ![t].op = "flush sync", ![t].at = "bulk lock"] =>
          /\ Others(t) /\ Stays(t) /\ call[t].at = "flush"
          /\ call'[t].at = "bulk lock" /\ call'[t].op = "flush sync" /\ call'[t].ok = call[t].ok
    BY <2>1, TwoFieldsAre DEF Others, Stays, At, TypeOK
  <2> QED
    BY <1>2, <1>4, <2>1, <2>2, <2>3 DEF FlushChoose, Free
<1>5. ASSUME Pick(t)
      PROVE  /\ Others(t) /\ call[t].at = "pick" /\ call'[t].at = "ask" /\ call'[t].op = call[t].op
             /\ call'[t].port = call[t].port /\ call'[t].buf = call[t].buf
             /\ call'[t].w = FirstFree /\ call'[t].ok = call[t].ok
  <2>1. FirstFree \in Waiters /\ "ask" \in Places /\ At(t, "pick")
    BY <1>5, FirstFreeIs DEF Pick, Places
  <2>2. PICK v \in Waiters : v = FirstFree /\ call' = [call EXCEPT ![t].at = "ask", ![t].w = v]
    BY <1>5, <2>1 DEF Pick
  <2>3. ClientType
    BY DEF TypeOK
  <2>4. /\ \A u \in Callers \ {t} : call'[u] = call[u]
        /\ call'[t].op = call[t].op /\ call'[t].at = "ask" /\ call'[t].port = call[t].port
        /\ call'[t].buf = call[t].buf /\ call'[t].w = v /\ call'[t].ok = call[t].ok
    BY <2>2, <2>3, PickedIs
  <2> QED
    BY <2>1, <2>2, <2>4 DEF Others, At
<1>6. ASSUME AskFails(t)
      PROVE  /\ Others(t) /\ Stays(t) /\ call[t].at = "ask"
             /\ call[t].op \notin {"disable", "destroy"}
             /\ call'[t].at = "release" /\ call'[t].op = call[t].op /\ ~call'[t].ok
  <2>1. /\ "release" \in Places /\ At(t, "ask") /\ call[t].op \notin {"disable", "destroy"}
        /\ call' = [call EXCEPT ![t].ok = FALSE, ![t].at = "release"]
    BY <1>6 DEF AskFails, Places
  <2> QED
    BY <2>1, TwoFieldsAre DEF Others, Stays, At, TypeOK
<1>7. ASSUME Answered(t)
      PROVE  \/ Ends(t, "done") /\ call[t].op = "request" /\ UNCHANGED comps
             \/ Goes(t, "done", "drain") /\ call[t].op = "disable" /\ UNCHANGED comps
             \/ /\ call[t].op = "create" /\ call[t].ok /\ Ends(t, "done") /\ comps' = comps \cup {t}
             \/ /\ call[t].op = "create" /\ ~call[t].ok /\ Goes(t, "done", "unuse")
                /\ UNCHANGED comps
             \/ call[t].op = "destroy" /\ Goes(t, "done", "unuse") /\ comps' = comps \ {t}
  BY <1>1, <1>2, <1>7 DEF Answered
<1>8. ASSUME SendBegin(t)
      PROVE  \/ Begins(t, "none", Nobody, Nobody, "idle") /\ UNCHANGED <<sending, mine, ctx, sentData>>
             \/ \E b \in mine :
                  /\ Begins(t, "send", PortOf[b], b, "message") /\ Usable /\ on[PortOf[b]]
                  /\ sending[PortOf[b]] = Nobody
                  /\ sending' = [sending EXCEPT ![PortOf[b]] = t] /\ mine' = mine \ {b}
                  /\ ctx[PortOf[b]] > 0 /\ ctx' = [ctx EXCEPT ![PortOf[b]] = @ - 1]
                  /\ sentData' = [sentData EXCEPT ![PortOf[b]] = @ \/ PortOf[b] \in Inputs]
  BY <1>3, <1>8 DEF SendBegin, Free
<1> QED
  BY <1>4, <1>5, <1>6, <1>7, <1>8

LEMMA LabelStep ==
  ASSUME TypeOK, IInv, [Next]_vars
  PROVE  LabelInv'
<1> USE DEF Goes, Ends, Begins, Stays
<1>1. ASSUME NEW t \in Callers, Others(t), Labelled(call'[t]) PROVE LabelInv'
  BY <1>1 DEF IInv, LabelInv, Others
<1>2. ASSUME NEW t \in Callers, NEW l, Ends(t, l) PROVE LabelInv'
  <2>1. Labelled(call'[t])
    BY <1>2, NameAssumption DEF Labelled, Labels, PortOps, Flushing
  <2> QED
    BY <1>1, <1>2, <2>1
<1>3. ASSUME NEW t \in Callers, NEW o, NEW p, NEW b, NEW l, Begins(t, o, p, b, l), l \in Labels(o),
             o \notin {"none", "send", "flush sync"}, o \in PortOps <=> p \in Ports,
             l \in {"grab", "flush", "action lock", "init release", "use"}
      PROVE  LabelInv'
  <2>1. Labelled(call'[t])
    BY <1>3 DEF Labelled
  <2> QED
    BY <1>1, <1>3, <2>1
<1>4. ASSUME NEW t \in Callers, NEW k, NEW l, Goes(t, k, l), l \in Labels(call[t].op), l # "idle",
             l \in {"ask", "reply", "release"} => Holding(t),
             l \notin {"release", "post", "done", "unuse", "deinit"} => call[t].ok,
             l = "bulk" => call[t].port \in Inputs /\ (call[t].op = "flush sync" => Holding(t))
      PROVE  LabelInv'
  <2>1. Labelled(call[t])
    BY DEF IInv, LabelInv
  <2>2. Labelled(call'[t])
    BY <1>4, <2>1, CallerIs DEF Labelled, Holding
  <2> QED
    BY <1>1, <1>4, <2>2
<1>5. \A t \in Callers : call[t].at \in Labels(call[t].op)
  BY DEF IInv, LabelInv, Labelled
<1>6. ASSUME NEW t \in Callers, InitRelease(t) PROVE LabelInv'
  BY <1>4, <1>5, <1>6, CallSteps, CallerIs DEF Labels, Asks, At, Holding, Asking
<1>7. ASSUME NEW t \in Callers, Use(t) PROVE LabelInv'
  BY <1>4, <1>5, <1>7, CallSteps, CallerIs DEF Labels, Asks, At, Holding, Asking
<1>8. ASSUME NEW t \in Callers, Unuse(t) PROVE LabelInv'
  BY <1>4, <1>5, <1>8, CallSteps, CallerIs DEF Labels, Asks, At, Holding, Asking
<1>9. ASSUME NEW t \in Callers, FlushBulkLock(t) PROVE LabelInv'
  BY <1>4, <1>5, <1>9, CallSteps, CallerIs DEF Labels, Asks, At, Holding, Asking
<1>10. ASSUME NEW t \in Callers, DisableLock(t) PROVE LabelInv'
  BY <1>4, <1>5, <1>10, CallSteps, CallerIs DEF Labels, Asks, At, Holding, Asking
<1>11. ASSUME NEW t \in Callers, Grab(t) PROVE LabelInv'
  BY <1>4, <1>5, <1>11, CallSteps, CallerIs DEF Labels, Asks, At, Holding, Asking
<1>12. ASSUME NEW t \in Callers, AskVC(t) PROVE LabelInv'
  BY <1>4, <1>5, <1>12, CallSteps, CallerIs DEF Labels, Asks, At, Holding, Asking
<1>13. ASSUME NEW t \in Callers, DummyBulk(t) PROVE LabelInv'
  BY <1>4, <1>5, <1>13, CallSteps, CallerIs DEF Labels, Asks, At, Holding, Asking
<1>14. ASSUME NEW t \in Callers, Wake(t) PROVE LabelInv'
  BY <1>4, <1>5, <1>14, CallSteps, CallerIs DEF Labels, Asks, At, Holding, Asking
<1>15. ASSUME NEW t \in Callers, Release(t) PROVE LabelInv'
  BY <1>4, <1>5, <1>15, CallSteps, CallerIs DEF Labels, Asks, At, Holding, Asking
<1>16. ASSUME NEW t \in Callers, PostPool(t) PROVE LabelInv'
  BY <1>4, <1>5, <1>16, CallSteps, CallerIs DEF Labels, Asks, At, Holding, Asking
<1>17. ASSUME NEW t \in Callers, DrainEnd(t) PROVE LabelInv'
  BY <1>4, <1>5, <1>17, CallSteps, CallerIs DEF Labels, Asks, At, Holding, Asking
<1>18. ASSUME NEW t \in Callers,
             \/ Deinit(t) \/ FlushAnswered(t) \/ EnableAnswered(t) \/ DisableEnd(t) \/ SendFails(t)
             \/ SendBulk(t)
      PROVE  LabelInv'
  BY <1>2, <1>18, CallSteps
<1>19. ASSUME NEW t \in Callers, SendMessage(t) PROVE LabelInv'
  <2>1. CASE Announces(Send(call[t].buf))
    <3>1. Goes(t, "message", "bulk") /\ call[t].op = "send" /\ call[t].ok
      BY <1>19, <2>1, CallSteps, CallerIs DEF SendMessage, At
    <3>2. call[t].port \in Inputs
      BY <2>1, <3>1, CallerIs, MessageIs
    <3> QED
      BY <1>4, <3>1, <3>2 DEF Labels
  <2>2. CASE ~Announces(Send(call[t].buf))
    BY <1>2, <1>19, <2>2, CallSteps
  <2> QED
    BY <2>1, <2>2
<1>20. ASSUME NEW t \in Callers, RequestBegin(t) \/ CreateBegin(t) \/ DestroyBegin(t)
      PROVE  LabelInv'
  BY <1>3, <1>20, CallSteps, NameAssumption DEF Labels, Asks, PortOps, Flushing
<1>21. ASSUME NEW t \in Callers, NEW p \in Ports,
             FlushBegin(t, p) \/ DisableBegin(t, p) \/ EnableBegin(t, p)
      PROVE  LabelInv'
  BY <1>3, <1>21, CallSteps DEF Labels, Asks, PortOps, Flushing
<1>22. ASSUME NEW t \in Callers, FlushChoose(t) PROVE LabelInv'
  <2>1. CASE Ends(t, "flush")
    BY <1>2, <2>1
  <2>2. CASE Goes(t, "flush", "grab")
    BY <1>4, <1>5, <2>2, CallerIs DEF Labels, Asks, At
  <2>3. CASE /\ Others(t) /\ Stays(t) /\ call[t].at = "flush" /\ call'[t].at = "bulk lock"
             /\ call'[t].op = "flush sync" /\ call'[t].ok = call[t].ok /\ call[t].port \in Inputs
    <3>1. Labelled(call[t])
      BY DEF IInv, LabelInv
    <3>2. call[t].op = "flush"
      BY <2>3, CallerIs DEF At
    <3>3. Labelled(call'[t])
      BY <2>3, <3>1, <3>2 DEF Labelled, Labels, Asks, PortOps, Flushing
    <3> QED
      BY <1>1, <2>3, <3>3
  <2>4. sentData[call[t].port] => call[t].port \in Inputs
    <3>1. call[t].port \in Ports
      BY <1>22, CallerIs, PortAssumption DEF FlushChoose, PortOps, Flushing
    <3> QED
      BY <3>1 DEF IInv, FirstInv
  <2> QED
    BY <1>22, <2>1, <2>2, <2>3, <2>4, ChoiceSteps
<1>23. ASSUME NEW t \in Callers, Pick(t) PROVE LabelInv'
  <2>1. Labelled(call[t])
    BY DEF IInv, LabelInv
  <2>2. FirstFree \in Waiters
    BY <1>23, FirstFreeIs DEF Pick
  <2>3. Labelled(call'[t]) /\ Others(t)
    BY <1>23, <2>1, <2>2, ChoiceSteps DEF Labelled, Labels, Asks
  <2> QED
    BY <1>1, <2>3
<1>24. ASSUME NEW t \in Callers, AskFails(t) PROVE LabelInv'
  <2>1. Labelled(call[t])
    BY DEF IInv, LabelInv
  <2>2. Labelled(call'[t]) /\ Others(t)
    BY <1>24, <2>1, ChoiceSteps DEF Labelled, Labels, Asks
  <2> QED
    BY <1>1, <2>2
<1>25. ASSUME NEW t \in Callers, SendBegin(t) PROVE LabelInv'
  <2>1. CASE Begins(t, "none", Nobody, Nobody, "idle")
    <3>1. Labelled(call'[t])
      BY <2>1, NameAssumption DEF Labelled, Labels, PortOps, Flushing
    <3> QED
      BY <1>1, <2>1, <3>1
  <2>2. CASE \E b \in mine : Begins(t, "send", PortOf[b], b, "message")
    <3>1. PICK b \in mine : Begins(t, "send", PortOf[b], b, "message")
      BY <2>2
    <3>2. b \in Buffers /\ PortOf[b] \in Ports
      BY PortAssumption DEF TypeOK, PortType
    <3>3. Labelled(call'[t])
      BY <3>1, <3>2 DEF Labelled, Labels, PortOps, Flushing
    <3> QED
      BY <1>1, <3>1, <3>3
  <2> QED
    BY <1>25, <2>1, <2>2, ChoiceSteps
<1>26. ASSUME NEW t \in Callers, Answered(t) PROVE LabelInv'
  <2>1. Ends(t, "done") \/ (Goes(t, "done", "drain") /\ call[t].op = "disable")
        \/ (Goes(t, "done", "unuse") /\ call[t].op \in {"create", "destroy"})
    BY <1>26, ChoiceSteps
  <2> QED
    BY <1>2, <1>4, <2>1, CallerIs DEF Labels
<1>27. ASSUME UNCHANGED call PROVE LabelInv'
  BY <1>27 DEF IInv, LabelInv
<1> QED
  BY NextCases, ElsewhereKeeps, CallSteps, <1>6, <1>7, <1>8, <1>9, <1>10, <1>11, <1>12, <1>13,
     <1>14, <1>15, <1>16, <1>17, <1>18, <1>19, <1>20, <1>21, <1>22, <1>23, <1>24, <1>25, <1>26,
     <1>27
     DEF Quiet, Moves

\* What happens to the operation of a call and its port.
LEMMA OpSteps ==
  ASSUME TypeOK, IInv, NEW t \in Callers, Quiet(t) \/ Moves(t)
  PROVE  /\ Others(t)
         /\ \/ /\ call'[t].op = call[t].op /\ call'[t].port = call[t].port
               /\ call[t].at # "flush" /\ call'[t].at # "flush"
            \/ /\ call'[t].op = "none" /\ call'[t].at = "idle" /\ call'[t].port = Nobody
               /\ \/ call[t].op \in {"request", "create", "destroy", "enable", "disable"}
                  \/ FlushAnswered(t) \/ SendMessage(t) \/ SendFails(t) \/ SendBulk(t)
            \/ /\ call[t].op = "none" /\ call'[t].port = Nobody
               /\ RequestBegin(t) \/ CreateBegin(t) \/ DestroyBegin(t)
               /\ call'[t].op \in {"request", "create", "destroy"}
            \/ /\ call[t].op = "none"
               /\ \E p \in Ports : /\ FlushBegin(t, p) \/ DisableBegin(t, p) \/ EnableBegin(t, p)
                                   /\ call'[t].op \in {"flush", "disable", "enable"}
                                   /\ call'[t].port = p
                                   /\ call'[t].op = "flush" => call'[t].at = "flush"
            \/ FlushChoose(t) \/ SendBegin(t)
<1>1. CASE \/ InitRelease(t) \/ Use(t) \/ Unuse(t) \/ FlushBulkLock(t) \/ DisableLock(t) \/ Grab(t)
           \/ AskVC(t) \/ DummyBulk(t) \/ Wake(t) \/ Release(t) \/ PostPool(t) \/ DrainEnd(t)
  BY <1>1, CallSteps DEF Goes, Stays
<1>2. CASE Deinit(t) \/ EnableAnswered(t) \/ DisableEnd(t)
  BY <1>2, CallSteps, CallerIs DEF Ends, At
<1>3. CASE FlushAnswered(t) \/ SendFails(t) \/ SendBulk(t)
  BY <1>3, CallSteps DEF Ends
<1>4. CASE SendMessage(t)
  BY <1>4, CallSteps DEF Ends, Goes, Stays
<1>5. CASE DrainOne(t)
  BY <1>5, CallSteps DEF Others
<1>6. CASE Pick(t) \/ AskFails(t) \/ Answered(t)
  BY <1>6, ChoiceSteps DEF Ends, Goes, Stays
<1>7. CASE FlushChoose(t) \/ SendBegin(t)
  BY <1>7, ChoiceSteps DEF Ends, Goes, Begins
<1>8. CASE RequestBegin(t) \/ CreateBegin(t) \/ DestroyBegin(t)
  BY <1>8, CallSteps, CallerIs DEF Begins, At
<1>9. CASE \E p \in Ports : FlushBegin(t, p) \/ DisableBegin(t, p) \/ EnableBegin(t, p)
  BY <1>9, CallSteps, CallerIs DEF Begins, At
<1> QED
  BY <1>1, <1>2, <1>3, <1>4, <1>5, <1>6, <1>7, <1>8, <1>9 DEF Quiet, Moves

LEMMA SwitchStep ==
  ASSUME TypeOK, IInv, [Next]_vars
  PROVE  SwitchInv'
<1> USE DEF IInv, LockInv, SwitchInv, Switching, Others
<1>1. ASSUME NEW t \in Callers, Others(t), \A p \in Ports : Switching(t, p)' => Switching(t, p)
      PROVE  SwitchInv'
  BY <1>1
<1>2. ASSUME NEW t \in Callers, NEW p \in Ports, Others(t), ~PortLocked(p), call'[t].port = p
      PROVE  SwitchInv'
  BY <1>2 DEF PortLocked
<1>3. ASSUME NEW t \in Callers, Quiet(t) \/ Moves(t) PROVE SwitchInv'
  <2>1. CASE call'[t].op = call[t].op /\ call'[t].port = call[t].port
    BY <1>1, <1>3, <2>1, OpSteps
  <2>2. CASE call'[t].op \notin {"disable", "enable"}
    BY <1>1, <1>3, <2>2, OpSteps
  <2>3. CASE SendBegin(t) \/ FlushChoose(t)
    <3>1. call'[t].op \notin {"disable", "enable"}
      BY <2>3, ChoiceSteps, CallerIs DEF Begins, Ends, Goes, At
    <3> QED
      BY <2>2, <3>1
  <2>4. CASE \E p \in Ports : FlushBegin(t, p) \/ DisableBegin(t, p) \/ EnableBegin(t, p)
    <3>1. PICK p \in Ports : FlushBegin(t, p) \/ DisableBegin(t, p) \/ EnableBegin(t, p)
      BY <2>4
    <3>2. CASE FlushBegin(t, p)
      BY <2>2, <3>2, CallSteps DEF Begins
    <3>3. CASE DisableBegin(t, p) \/ EnableBegin(t, p)
      BY <1>2, <3>3, CallSteps DEF Begins, DisableBegin, EnableBegin
    <3> QED
      BY <3>1, <3>2, <3>3
  <2> QED
    BY <1>3, <2>1, <2>2, <2>3, <2>4, OpSteps
<1>4. ASSUME UNCHANGED call PROVE SwitchInv'
  BY <1>4
<1> QED
  BY NextCases, ElsewhereKeeps, <1>3, <1>4

LEMMA SendLockStep ==
  ASSUME TypeOK, IInv, [Next]_vars
  PROVE  SendLockInv'
<1> USE DEF SendLockInv
<1>1. SendLockInv /\ sending \in [Ports -> Callers \cup {Nobody}] /\ Nobody \notin Callers
  BY NameAssumption DEF IInv, LockInv, TypeOK, LockType
<1>2. ASSUME NEW t \in Callers, Others(t), UNCHANGED sending,
             \A p \in Ports : SendLocked(t, p)' <=> SendLocked(t, p)
      PROVE  SendLockInv'
  BY <1>1, <1>2 DEF Others, SendLocked, At
<1>3. ASSUME NEW t \in Callers, NEW p \in Ports, Others(t), sending[p] = Nobody,
             sending' = [sending EXCEPT ![p] = t], SendLocked(t, p)',
             \A q \in Ports \ {p} : ~SendLocked(t, q) /\ ~SendLocked(t, q)'
      PROVE  SendLockInv'
  BY <1>1, <1>3 DEF Others, SendLocked, At
<1>4. ASSUME NEW t \in Callers, NEW p \in Ports, Others(t), SendLocked(t, p),
             sending' = [sending EXCEPT ![p] = Nobody], \A q \in Ports : ~SendLocked(t, q)'
      PROVE  SendLockInv'
  BY <1>1, <1>4 DEF Others, SendLocked, At
<1>5. ASSUME NEW t \in Callers, Quiet(t) \/ Moves(t), UNCHANGED sending, ~FlushChoose(t),
             ~SendBegin(t), ~FlushAnswered(t), ~SendMessage(t), ~SendFails(t), ~SendBulk(t)
      PROVE  SendLockInv'
  <2>1. Others(t) /\ \A p \in Ports : SendLocked(t, p)' <=> SendLocked(t, p)
    BY <1>5, OpSteps DEF SendLocked, Flushing, At
  <2> QED
    BY <1>2, <1>5, <2>1
<1>6. ASSUME NEW t \in Callers, FlushChoose(t) PROVE SendLockInv'
  <2>1. call[t].op = "flush" /\ call[t].at = "flush" /\ call[t].port \in Ports
    BY <1>6, CallerIs DEF FlushChoose, At, PortOps, Flushing
  <2>2. \A p \in Ports : ~SendLocked(t, p)
    BY <2>1 DEF SendLocked, At
  <2>3. CASE Ends(t, "flush") /\ UNCHANGED sending
    BY <1>2, <2>2, <2>3 DEF Ends, SendLocked, Flushing
  <2>4. CASE /\ Others(t) /\ sending[call[t].port] = Nobody
             /\ sending' = [sending EXCEPT ![call[t].port] = t] /\ call'[t].at # "flush"
             /\ call'[t].op \in Flushing /\ call'[t].port = call[t].port
    <3>1. SendLocked(t, call[t].port)' /\ \A q \in Ports \ {call[t].port} : ~SendLocked(t, q)'
      BY <2>4 DEF SendLocked, At
    <3> QED
      BY <1>3, <2>1, <2>2, <2>4, <3>1
  <2> QED
    BY <1>6, <2>1, <2>3, <2>4, ChoiceSteps DEF Goes, Stays, Flushing
<1>7. ASSUME NEW t \in Callers, FlushAnswered(t) PROVE SendLockInv'
  <2>1. Ends(t, "done") /\ call[t].op \in Flushing /\ call[t].port \in Ports
        /\ sending' = [sending EXCEPT ![call[t].port] = Nobody]
    BY <1>7, CallSteps, CallerIs DEF FlushAnswered, PortOps
  <2>2. SendLocked(t, call[t].port) /\ \A q \in Ports : ~SendLocked(t, q)'
    BY <2>1 DEF SendLocked, Ends, At, Flushing
  <2> QED
    BY <1>4, <2>1, <2>2 DEF Ends
<1>8. ASSUME NEW t \in Callers, SendBegin(t) PROVE SendLockInv'
  <2>1. \A p \in Ports : ~SendLocked(t, p)
    BY <1>8, ChoiceSteps, CallerIs DEF Begins, At, SendLocked, Flushing
  <2>2. CASE Begins(t, "none", Nobody, Nobody, "idle") /\ UNCHANGED sending
    BY <1>2, <2>1, <2>2 DEF Begins, SendLocked, Flushing
  <2>3. CASE \E b \in mine : /\ Begins(t, "send", PortOf[b], b, "message")
                             /\ sending[PortOf[b]] = Nobody
                             /\ sending' = [sending EXCEPT ![PortOf[b]] = t]
    <3>1. PICK b \in mine : /\ Begins(t, "send", PortOf[b], b, "message")
                            /\ sending[PortOf[b]] = Nobody
                            /\ sending' = [sending EXCEPT ![PortOf[b]] = t]
      BY <2>3
    <3>2. PortOf[b] \in Ports
      BY PortAssumption DEF TypeOK, PortType
    <3>3. SendLocked(t, PortOf[b])' /\ \A q \in Ports \ {PortOf[b]} : ~SendLocked(t, q)'
      BY <3>1 DEF Begins, SendLocked
    <3> QED
      BY <1>3, <2>1, <3>1, <3>2, <3>3 DEF Begins
  <2>4. (Begins(t, "none", Nobody, Nobody, "idle") /\ UNCHANGED sending)
        \/ \E b \in mine : /\ Begins(t, "send", PortOf[b], b, "message")
                           /\ sending[PortOf[b]] = Nobody
                           /\ sending' = [sending EXCEPT ![PortOf[b]] = t]
    <3>1. \/ Begins(t, "none", Nobody, Nobody, "idle") /\ UNCHANGED <<sending, mine, ctx, sentData>>
          \/ \E b \in mine :
               /\ Begins(t, "send", PortOf[b], b, "message") /\ Usable /\ on[PortOf[b]]
               /\ sending[PortOf[b]] = Nobody
               /\ sending' = [sending EXCEPT ![PortOf[b]] = t] /\ mine' = mine \ {b}
               /\ ctx[PortOf[b]] > 0 /\ ctx' = [ctx EXCEPT ![PortOf[b]] = @ - 1]
               /\ sentData' = [sentData EXCEPT ![PortOf[b]] = @ \/ PortOf[b] \in Inputs]
      BY <1>8, ChoiceSteps, Zenon
    <3>2. ASSUME NEW b \in mine, Begins(t, "send", PortOf[b], b, "message"),
                 sending[PortOf[b]] = Nobody,
                 sending' = [sending EXCEPT ![PortOf[b]] = t]
          PROVE  \E c \in mine : /\ Begins(t, "send", PortOf[c], c, "message")
                                 /\ sending[PortOf[c]] = Nobody
                                 /\ sending' = [sending EXCEPT ![PortOf[c]] = t]
      BY <3>2
    <3> QED
      BY <3>1, <3>2, Zenon
  <2> QED
    BY <2>2, <2>3, <2>4
<1>9. ASSUME NEW t \in Callers, SendMessage(t) PROVE SendLockInv'
  <2>1. call[t].at = "message" /\ call[t].op = "send" /\ call[t].port = PortOf[call[t].buf]
        /\ call[t].port \in Ports
    BY <1>9, CallerIs DEF SendMessage, At, PortOps
  <2>2. SendLocked(t, call[t].port)
    BY <2>1 DEF SendLocked
  <2>3. CASE Announces(Send(call[t].buf))
    <3>1. Goes(t, "message", "bulk") /\ UNCHANGED sending
      BY <1>9, <2>3, CallSteps DEF SendMessage
    <3> QED
      BY <1>2, <2>1, <3>1 DEF Goes, Stays, SendLocked, Flushing
  <2>4. CASE ~Announces(Send(call[t].buf))
    <3>1. Ends(t, "message") /\ sending' = [sending EXCEPT ![call[t].port] = Nobody]
      BY <1>9, <2>1, <2>4, CallSteps DEF SendMessage, Send
    <3> QED
      BY <1>4, <2>1, <2>2, <3>1 DEF Ends, SendLocked, Flushing
  <2> QED
    BY <2>3, <2>4
<1>10. ASSUME NEW t \in Callers, SendFails(t) \/ SendBulk(t) PROVE SendLockInv'
  <2>1. (Ends(t, "message") \/ Ends(t, "bulk")) /\ call[t].op = "send"
    BY <1>10, CallSteps, CallerIs DEF Ends, At
  <2>2. call[t].port = PortOf[call[t].buf] /\ call[t].port \in Ports
    BY <2>1, CallerIs DEF PortOps
  <2>3. sending' = [sending EXCEPT ![call[t].port] = Nobody]
    BY <1>10, <2>2 DEF SendFails, SendBulk
  <2>4. SendLocked(t, call[t].port) /\ \A q \in Ports : ~SendLocked(t, q)'
    BY <2>1 DEF SendLocked, Ends, Flushing
  <2> QED
    BY <1>4, <2>1, <2>2, <2>3, <2>4 DEF Ends
<1>11. ASSUME UNCHANGED <<call, sending>> PROVE SendLockInv'
  BY <1>1, <1>11 DEF SendLocked, At
<1> QED
  BY NextCases, QuietKeeps, MovesKeep, ElsewhereKeeps, <1>5, <1>6, <1>7, <1>8, <1>9, <1>10, <1>11

LEMMA BulkLockStep ==
  ASSUME TypeOK, IInv, [Next]_vars
  PROVE  BulkLockInv'
<1> USE DEF BulkLockInv
<1>1. BulkLockInv /\ bulkLock \in Callers \cup {Nobody} /\ Nobody \notin Callers
  BY NameAssumption DEF IInv, LockInv, TypeOK, LockType
<1>2. ASSUME NEW t \in Callers, Others(t), UNCHANGED bulkLock, BulkLocked(t)' <=> BulkLocked(t)
      PROVE  BulkLockInv'
  BY <1>1, <1>2 DEF Others, BulkLocked, At
<1>3. ASSUME NEW t \in Callers, Others(t), bulkLock = Nobody, bulkLock' = t, BulkLocked(t)'
      PROVE  BulkLockInv'
  BY <1>1, <1>3 DEF Others, BulkLocked, At
<1>4. ASSUME NEW t \in Callers, Others(t), BulkLocked(t), bulkLock' = Nobody, ~BulkLocked(t)'
      PROVE  BulkLockInv'
  BY <1>1, <1>4 DEF Others, BulkLocked, At
<1>5. ASSUME NEW t \in Callers,
             \/ InitRelease(t) \/ Use(t) \/ Unuse(t) \/ DisableLock(t) \/ Grab(t) \/ AskVC(t)
             \/ Wake(t) \/ Release(t) \/ PostPool(t) \/ DrainEnd(t)
      PROVE  BulkLockInv'
  <2>1. UNCHANGED bulkLock
    BY <1>5 DEF InitRelease, Use, Unuse, UseOrRelease, DisableLock, Grab, AskVC, Wake, Release,
                PostPool, DrainEnd
  <2>2. Others(t) /\ BulkLocked(t)' <=> BulkLocked(t)
    BY <1>5, CallSteps, CallerIs DEF Goes, BulkLocked, At
  <2> QED
    BY <1>2, <1>5, <2>1, <2>2, CallSteps DEF Goes
<1>6. ASSUME NEW t \in Callers,
             \/ Deinit(t) \/ FlushAnswered(t) \/ EnableAnswered(t) \/ DisableEnd(t) \/ SendFails(t)
             \/ RequestBegin(t) \/ CreateBegin(t) \/ DestroyBegin(t)
             \/ \E p \in Ports : FlushBegin(t, p) \/ DisableBegin(t, p) \/ EnableBegin(t, p)
      PROVE  BulkLockInv'
  <2>1. UNCHANGED bulkLock
    BY <1>6 DEF Deinit, FlushAnswered, EnableAnswered, DisableEnd, SendFails, RequestBegin,
                CreateBegin, DestroyBegin, FlushBegin, DisableBegin, EnableBegin
  <2>2. Others(t) /\ ~BulkLocked(t)'
    BY <1>6, CallSteps DEF Ends, Begins, BulkLocked, At
  <2>3. ~BulkLocked(t)
    BY <1>6, CallSteps DEF Ends, Begins, BulkLocked, At
  <2> QED
    BY <1>2, <2>1, <2>2, <2>3
<1>7. ASSUME NEW t \in Callers, Pick(t) \/ Answered(t) \/ SendBegin(t) \/ FlushChoose(t)
      PROVE  BulkLockInv'
  <2>1. UNCHANGED bulkLock
    BY <1>7 DEF Pick, Answered, SendBegin, FlushChoose
  <2>2. CASE Pick(t)
    <3>1. /\ Others(t) /\ call[t].at = "pick" /\ call'[t].at = "ask"
          /\ call'[t].op = call[t].op
      BY <2>2, ChoiceSteps
    <3> QED
      BY <1>2, <2>1, <3>1 DEF BulkLocked, At
  <2>3. CASE Answered(t)
    BY <1>2, <2>1, <2>3, ChoiceSteps DEF BulkLocked, At, Ends, Goes
  <2>4. CASE SendBegin(t)
    BY <1>2, <2>1, <2>4, ChoiceSteps DEF BulkLocked, At, Begins
  <2>5. CASE FlushChoose(t)
    BY <1>2, <2>1, <2>5, ChoiceSteps, CallerIs DEF BulkLocked, At, Ends, Goes
  <2> QED
    BY <1>7, <2>2, <2>3, <2>4, <2>5
<1>8. ASSUME NEW t \in Callers, FlushBulkLock(t) PROVE BulkLockInv'
  BY <1>3, <1>8, CallSteps, CallerIs DEF FlushBulkLock, Free, Goes, BulkLocked, At
<1>9. ASSUME NEW t \in Callers, SendMessage(t) PROVE BulkLockInv'
  <2>1. CASE Announces(Send(call[t].buf))
    BY <1>3, <1>9, <2>1, CallSteps DEF SendMessage, Free, Goes, BulkLocked, At
  <2>2. CASE ~Announces(Send(call[t].buf))
    BY <1>2, <1>9, <2>2, CallSteps, CallerIs DEF SendMessage, Ends, BulkLocked, At
  <2> QED
    BY <2>1, <2>2
<1>10. ASSUME NEW t \in Callers, SendBulk(t) \/ DummyBulk(t) PROVE BulkLockInv'
  <2>1. bulkLock' = Nobody
    BY <1>10 DEF SendBulk, DummyBulk
  <2>2. Others(t) /\ BulkLocked(t) /\ ~BulkLocked(t)'
    BY <1>10, CallSteps DEF Goes, Ends, BulkLocked, At
  <2> QED
    BY <1>4, <2>1, <2>2
<1>11. ASSUME NEW t \in Callers, AskFails(t) PROVE BulkLockInv'
  <2>1. Others(t) /\ ~BulkLocked(t)' /\ (BulkLocked(t) <=> call[t].op = "flush sync")
    BY <1>11, ChoiceSteps DEF BulkLocked, At
  <2>2. bulkLock' = IF call[t].op = "flush sync" THEN Nobody ELSE bulkLock
    BY <1>11 DEF AskFails
  <2> QED
    BY <1>2, <1>4, <2>1, <2>2
<1>12. ASSUME UNCHANGED <<call, bulkLock>> PROVE BulkLockInv'
  BY <1>1, <1>12 DEF BulkLocked, At
<1> QED
  BY NextCases, ElsewhereKeeps, MovesKeep, CallSteps, <1>5, <1>6, <1>7, <1>8, <1>9, <1>10, <1>11,
     <1>12
     DEF Quiet, Moves

LEMMA CompStep ==
  ASSUME TypeOK, IInv, [Next]_vars
  PROVE  \A t \in Callers : CompInv(t)'
<1>1. \A t \in Callers : CompInv(t)
  BY DEF IInv, LifeInv
<1>2. ASSUME NEW t \in Callers, Others(t), CompInv(t)',
             \A u \in Callers \ {t} : u \in comps' <=> u \in comps
      PROVE  \A u \in Callers : CompInv(u)'
  BY <1>1, <1>2 DEF Others, CompInv
<1>3. ASSUME NEW t \in Callers, Answered(t) PROVE \A u \in Callers : CompInv(u)'
  <2>1. CompInv(t)
    BY <1>1
  <2>2. Others(t) /\ CompInv(t)' /\ \A u \in Callers \ {t} : u \in comps' <=> u \in comps
    BY <1>3, <2>1, ChoiceSteps DEF CompInv, Goes, Ends
  <2> QED
    BY <1>2, <2>2
<1>4. ASSUME NEW t \in Callers, Quiet(t) \/ Moves(t), ~Answered(t)
      PROVE  \A u \in Callers : CompInv(u)'
  <2>1. Others(t)
    BY <1>4, OpSteps
  <2>2. comps' = comps
    <3>1. ~Answered(t) => UNCHANGED comps
      BY <1>4, QuietKeeps, MovesKeep DEF CreateBegin, Deinit
    <3> QED
      BY <1>4, <3>1
  <2>3. CompInv(t)'
    <3>1. CompInv(t)
      BY <1>1
    <3>2. CASE Unuse(t)
      BY <2>2, <3>1, <3>2, CallSteps DEF CompInv, Goes
    <3>3. CASE /\ call'[t].op = call[t].op
               /\ call[t].at \in {"unuse", "deinit"} <=> call'[t].at \in {"unuse", "deinit"}
      BY <2>2, <3>1, <3>3 DEF CompInv
    <3>4. CASE call'[t].op \notin {"request", "create", "destroy"}
      BY <3>4 DEF CompInv
    <3>5. CASE RequestBegin(t) \/ CreateBegin(t) \/ DestroyBegin(t)
      BY <2>2, <3>5, CallSteps DEF CompInv, Begins, RequestBegin, CreateBegin, DestroyBegin
    <3>6. CASE \/ InitRelease(t) \/ Use(t) \/ FlushBulkLock(t) \/ DisableLock(t)
               \/ Grab(t) \/ AskVC(t) \/ DummyBulk(t) \/ Wake(t) \/ Release(t) \/ PostPool(t)
               \/ DrainEnd(t) \/ DrainOne(t)
      BY <3>3, <3>6, CallSteps DEF Goes
    <3>7. CASE Pick(t) \/ AskFails(t)
      BY <3>3, <3>7, ChoiceSteps
    <3>8. CASE SendBegin(t) \/ FlushChoose(t)
      BY <3>4, <3>8, ChoiceSteps, CallerIs DEF Begins, Ends, Goes, At
    <3>9. CASE SendMessage(t)
      BY <3>4, <3>9, CallSteps, CallerIs DEF Ends, Goes, At
    <3>10. CASE Deinit(t) \/ FlushAnswered(t) \/ EnableAnswered(t) \/ DisableEnd(t)
                \/ SendFails(t) \/ SendBulk(t)
      BY <3>4, <3>10, CallSteps DEF Ends
    <3>11. CASE \E p \in Ports : FlushBegin(t, p) \/ DisableBegin(t, p) \/ EnableBegin(t, p)
      BY <3>4, <3>11, CallSteps DEF Begins
    <3> QED
      BY <1>4, <3>2, <3>5, <3>6, <3>7, <3>8, <3>9, <3>10, <3>11 DEF Quiet, Moves
  <2> QED
    BY <1>2, <2>1, <2>2, <2>3
<1>5. ASSUME UNCHANGED <<call, comps>> PROVE \A u \in Callers : CompInv(u)'
  BY <1>1, <1>5 DEF CompInv
<1> QED
  BY NextCases, ElsewhereKeeps, <1>3, <1>4, <1>5

LEMMA UsableStep ==
  ASSUME TypeOK, IInv, [Next]_vars
  PROVE  UsableInv'
<1> USE OwnerAssumption
<1>1. UsableInv
  BY DEF IInv, LifeInv
<1>2. ASSUME Usable => Usable',
             \A t \in Callers : call'[t].op \in PortOps => Usable,
             \A p \in Ports : on'[p] => Usable
      PROVE  UsableInv'
  BY <1>2 DEF UsableInv
<1>3. ASSUME NEW t \in Callers, DestroyBegin(t) PROVE UsableInv'
  <2>1. Begins(t, "destroy", Nobody, Nobody, "grab") /\ UNCHANGED <<on, comps>>
    BY <1>3, CallSteps DEF DestroyBegin
  <2>2. CASE t = Owner
    <3>1. \A p \in Ports : ~on'[p]
      BY <1>3, <2>1, <2>2 DEF DestroyBegin
    <3>2. \A u \in Callers : call'[u].op \notin PortOps
      BY <1>3, <2>1, <2>2 DEF DestroyBegin, Begins, Others, PortOps, Flushing
    <3> QED
      BY <3>1, <3>2 DEF UsableInv
  <2>3. CASE t # Owner
    <3>1. Usable => Usable'
      BY <2>1, <2>3 DEF Usable, Begins, Others
    <3>2. \A u \in Callers : call'[u].op \in PortOps => Usable
      BY <1>1, <2>1 DEF UsableInv, Begins, Others, PortOps, Flushing
    <3> QED
      BY <1>1, <1>2, <2>1, <3>1, <3>2 DEF UsableInv
  <2> QED
    BY <2>2, <2>3
<1>4. ASSUME NEW t \in Callers, Quiet(t) \/ Moves(t), ~DestroyBegin(t) PROVE UsableInv'
  <2>1. Others(t)
    BY <1>4, OpSteps
  <2>2. Usable => Usable'
    <3>1. call'[Owner].op = "destroy" => call[Owner].op = "destroy"
      <4>1. CASE t # Owner
        BY <2>1, <4>1 DEF Others
      <4>2. call'[t].op = "destroy" => call[t].op = "destroy"
        BY <1>4, OpSteps, CallSteps, ChoiceSteps DEF Begins, Ends, Goes
      <4> QED
        BY <4>1, <4>2
    <3>2. Owner \in comps => Owner \in comps' \/ call[Owner].op = "destroy"
      <4>1. CASE Answered(t)
        BY <4>1, ChoiceSteps
      <4>2. CASE ~Answered(t)
        BY <1>4, <4>2, QuietKeeps, MovesKeep DEF CreateBegin, Deinit
      <4> QED
        BY <4>1, <4>2
    <3> QED
      BY <3>1, <3>2 DEF Usable
  <2>3. call'[t].op \in PortOps => Usable
    <3>1. CASE call'[t].op = call[t].op
      BY <1>1, <3>1 DEF UsableInv
    <3>2. CASE FlushChoose(t)
      BY <1>1, <3>2, CallerIs DEF FlushChoose, UsableInv, PortOps, Flushing
    <3>3. CASE SendBegin(t) \/ \E p \in Ports : FlushBegin(t, p) \/ DisableBegin(t, p) \/ EnableBegin(t, p)
      BY <3>3 DEF SendBegin, FlushBegin, DisableBegin, EnableBegin
    <3> QED
      BY <1>4, <3>1, <3>2, <3>3, OpSteps DEF PortOps, Flushing
  <2>4. \A p \in Ports : on'[p] => Usable
    <3>1. CASE EnableAnswered(t)
      BY <1>1, <3>1 DEF EnableAnswered, UsableInv, PortOps
    <3>2. CASE \E p \in Ports : DisableBegin(t, p)
      BY <3>2 DEF DisableBegin
    <3> QED
      BY <1>1, <1>4, <3>1, <3>2, QuietKeeps, MovesKeep DEF UsableInv
  <2> QED
    BY <1>1, <1>2, <2>1, <2>2, <2>3, <2>4 DEF Others, UsableInv
<1>5. ASSUME UNCHANGED <<call, life, on>> PROVE UsableInv'
  BY <1>1, <1>5 DEF UsableInv, Usable
<1> QED
  BY NextCases, ElsewhereKeeps, <1>3, <1>4, <1>5

LEMMA OnStep ==
  ASSUME TypeOK, IInv, [Next]_vars
  PROVE  OnInv'
<1>1. OnInv /\ SendLockInv /\ SwitchInv /\ on \in [Ports -> BOOLEAN] /\ Nobody \notin Callers
  BY NameAssumption DEF IInv, LifeInv, LockInv, TypeOK, PortType
<1>0. /\ \A t \in Callers, p \in Ports : Switching(t, p) => ~on[p]
      /\ \A t \in Callers, p \in Ports : SendLocked(t, p) => on[p]
  BY <1>1 DEF OnInv
<1>2. SendLockInv'
  BY SendLockStep
<1>3. ASSUME NEW t \in Callers, Others(t), UNCHANGED on,
             \A p \in Ports : Switching(t, p)' => ~on[p], \A p \in Ports : SendLocked(t, p)' => on[p]
      PROVE  OnInv'
  BY <1>1, <1>3 DEF OnInv, Others, Switching, SendLocked, At
<1>4. ASSUME NEW t \in Callers, NEW p \in Ports, DisableBegin(t, p) PROVE OnInv'
  <2>1. \A u \in Callers : ~SendLocked(u, p)
    BY <1>1, <1>4 DEF DisableBegin, Free, SendLockInv
  <2>2. Begins(t, "disable", p, Nobody, "action lock") /\ on' = [on EXCEPT ![p] = FALSE]
    BY <1>4, CallSteps DEF DisableBegin
  <2>3. \A u \in Callers, q \in Ports : SendLocked(u, q)' => SendLocked(u, q) /\ u # t
    BY <2>2 DEF Begins, Others, SendLocked, At, Flushing
  <2>4. \A u \in Callers, q \in Ports : Switching(u, q)' => q = p \/ Switching(u, q)
    BY <2>2 DEF Begins, Others, Switching
  <2> QED
    BY <1>1, <2>1, <2>2, <2>3, <2>4 DEF OnInv
<1>5. ASSUME NEW t \in Callers, EnableAnswered(t) PROVE OnInv'
  <2>1. /\ Ends(t, "done") /\ Switching(t, call[t].port) /\ call[t].port \in Ports
        /\ on' = [on EXCEPT ![call[t].port] = call[t].ok]
    BY <1>5, CallSteps, CallerIs DEF EnableAnswered, Switching, PortOps
  <2>2. \A u \in Callers, q \in Ports : SendLocked(u, q)' => SendLocked(u, q)
    BY <2>1 DEF Ends, Others, SendLocked, At, Flushing
  <2>3. \A u \in Callers, q \in Ports : Switching(u, q)' => Switching(u, q) /\ u # t
    BY <2>1 DEF Ends, Others, Switching
  <2>4. ASSUME NEW u \in Callers, NEW q \in Ports, Switching(u, q)' PROVE ~on'[q]
    <3>1. Switching(u, q) /\ u # t
      BY <2>3, <2>4
    <3>2. q # call[t].port
      BY <1>1, <2>1, <3>1 DEF SwitchInv
    <3>3. ~on[q]
      BY <1>0, <3>1
    <3> QED
      BY <1>1, <2>1, <3>2, <3>3
  <2>5. ASSUME NEW u \in Callers, NEW q \in Ports, SendLocked(u, q)' PROVE on'[q]
    <3>1. on[q]
      BY <1>1, <2>2, <2>5 DEF OnInv
    <3>2. q # call[t].port
      BY <1>0, <2>1, <3>1
    <3> QED
      BY <1>1, <2>1, <3>1, <3>2
  <2> QED
    BY <2>4, <2>5 DEF OnInv
<1>6. ASSUME NEW t \in Callers, Quiet(t) \/ Moves(t), UNCHANGED on PROVE OnInv'
  <2>1. Others(t)
    BY <1>6, OpSteps
  <2>2. \A p \in Ports : Switching(t, p)' => ~on[p]
    <3>1. CASE call'[t].op = call[t].op /\ call'[t].port = call[t].port
      <4>1. \A p \in Ports : Switching(t, p)' => Switching(t, p)
        BY <3>1 DEF Switching
      <4> QED
        BY <1>0, <4>1
    <3>2. CASE call'[t].op \notin {"disable", "enable"}
      BY <3>2 DEF Switching
    <3>3. CASE FlushChoose(t) \/ SendBegin(t)
      BY <3>2, <3>3, ChoiceSteps, CallerIs DEF Begins, Ends, Goes, At
    <3>4. CASE \E p \in Ports : DisableBegin(t, p) \/ EnableBegin(t, p)
      <4>1. PICK p \in Ports : DisableBegin(t, p) \/ EnableBegin(t, p)
        BY <3>4
      <4>2. ~on'[p] /\ call'[t].port = p
        BY <1>1, <4>1, CallSteps DEF DisableBegin, EnableBegin, Begins
      <4> QED
        BY <1>6, <4>2 DEF Switching
    <3>5. CASE \E p \in Ports : FlushBegin(t, p)
      BY <3>2, <3>5, CallSteps DEF Begins
    <3> QED
      BY <1>6, <3>1, <3>2, <3>3, <3>4, <3>5, OpSteps
  <2>3. \A p \in Ports : SendLocked(t, p)' => on[p]
    <3>1. CASE \A p \in Ports : SendLocked(t, p)' => SendLocked(t, p)
      BY <1>1, <3>1 DEF OnInv
    <3>2. CASE FlushChoose(t)
      <4>1. call'[t].op = "none" \/ (on[call[t].port] /\ call'[t].port = call[t].port)
        BY <3>2, ChoiceSteps DEF Goes, Ends, Stays
      <4> QED
        BY <4>1 DEF SendLocked, Flushing
    <3>3. CASE SendBegin(t)
      <4>1. call'[t].op = "none" \/ on[call'[t].port]
        BY <3>3, ChoiceSteps DEF Begins
      <4> QED
        BY <4>1 DEF SendLocked, Flushing
    <3> QED
      BY <1>6, <3>1, <3>2, <3>3, OpSteps DEF SendLocked, Flushing, At
  <2> QED
    BY <1>3, <1>6, <2>1, <2>2, <2>3
<1>7. ASSUME UNCHANGED <<call, on>> PROVE OnInv'
  BY <1>1, <1>7 DEF OnInv, Switching, SendLocked, At
<1> QED
  BY NextCases, ElsewhereKeeps, QuietKeeps, MovesKeep, <1>4, <1>5, <1>6, <1>7

\* A disable ends in one way.
LEMMA DisablingStep ==
  ASSUME TypeOK, IInv, NEW t \in Callers, Quiet(t) \/ Moves(t), call[t].op = "disable",
         ~DisableEnd(t)
  PROVE  call'[t].op = "disable" /\ call'[t].port = call[t].port
<1>1. call[t].at \in Labels("disable")
  BY DEF IInv, LabelInv, Labelled
<1>2. CASE \/ InitRelease(t) \/ Use(t) \/ Unuse(t) \/ FlushBulkLock(t) \/ DisableLock(t) \/ Grab(t)
           \/ AskVC(t) \/ DummyBulk(t) \/ Wake(t) \/ Release(t) \/ PostPool(t) \/ DrainEnd(t)
           \/ DrainOne(t)
  BY <1>2, CallSteps DEF Goes, Stays
<1>3. CASE \/ Deinit(t) \/ FlushAnswered(t) \/ EnableAnswered(t) \/ SendFails(t) \/ SendBulk(t)
           \/ SendMessage(t)
  BY <1>1, <1>3, CallSteps DEF Ends, Goes, Labels, Asks, Flushing
<1>4. CASE Pick(t) \/ AskFails(t) \/ Answered(t)
  BY <1>4, ChoiceSteps DEF Goes, Stays
<1>5. CASE SendBegin(t) \/ FlushChoose(t)
  BY <1>1, <1>5, ChoiceSteps DEF Begins, Ends, Goes, Labels, Asks
<1>6. CASE \/ RequestBegin(t) \/ CreateBegin(t) \/ DestroyBegin(t)
           \/ \E p \in Ports : FlushBegin(t, p) \/ DisableBegin(t, p) \/ EnableBegin(t, p)
  BY <1>1, <1>6, CallSteps DEF Begins, Labels, Asks
<1> QED
  BY <1>2, <1>3, <1>4, <1>5, <1>6 DEF Quiet, Moves

LEMMA ClosedStep ==
  ASSUME TypeOK, IInv, [Next]_vars
  PROVE  ClosedInv'
<1> DEFINE Disabling(t, p) == Switching(t, p) /\ call[t].op = "disable"
<1>1. /\ \A p \in Ports : on[p] \/ Of(p) \subseteq mine \/ \E t \in Callers : Disabling(t, p)
      /\ on \in [Ports -> BOOLEAN]
  BY DEF IInv, ClosedInv, TypeOK, PortType
<1>2. ASSUME NEW p \in Ports, ~on'[p]
      PROVE  Of(p) \subseteq mine' \/ \E t \in Callers : Disabling(t, p)'
  <2>1. CASE \E t \in Callers : DisableBegin(t, p)
    BY <2>1, CallSteps DEF Begins, Switching
  <2>2. CASE on[p] /\ ~\E t \in Callers : DisableBegin(t, p)
    <3>1. PICK t \in Callers : EnableAnswered(t) \/ \E q \in Ports : DisableBegin(t, q)
      BY <1>2, <2>2, NextCases, QuietKeeps, MovesKeep, ElsewhereKeeps
    <3>2. CASE EnableAnswered(t)
      <4>1. Switching(t, call[t].port) /\ call[t].port \in Ports
        BY <3>2, CallerIs DEF EnableAnswered, Switching, PortOps
      <4>2. ~on[call[t].port]
        BY <4>1 DEF IInv, LifeInv, OnInv
      <4>3. on'[p]
        BY <1>1, <2>2, <3>2, <4>2 DEF EnableAnswered
      <4> QED
        BY <1>2, <4>3
    <3>3. CASE \E q \in Ports : DisableBegin(t, q)
      <4>1. on'[p]
        BY <1>1, <2>2, <3>3 DEF DisableBegin
      <4> QED
        BY <1>2, <4>1
    <3> QED
      BY <3>1, <3>2, <3>3
  <2>3. CASE ~on[p]
    <3>1. CASE Of(p) \subseteq mine
      <4>1. ASSUME NEW t \in Callers, SendBegin(t) PROVE Of(p) \subseteq mine'
        <5>1. mine' = mine \/ \E b \in mine : on[PortOf[b]] /\ mine' = mine \ {b}
          BY <4>1, ChoiceSteps
        <5> QED
          BY <2>3, <3>1, <5>1 DEF Of
      <4>2. mine \subseteq mine' \/ \E t \in Callers : SendBegin(t)
        BY NextCases, QuietKeeps, MovesKeep, ElsewhereKeeps
           DEF SendFails, DrainOne, HostQueue, ActionDeliver
      <4> QED
        BY <3>1, <4>1, <4>2
    <3>2. ASSUME NEW t \in Callers, Disabling(t, p)
          PROVE  Of(p) \subseteq mine' \/ Disabling(t, p)'
      <4>1. CASE DisableEnd(t)
        BY <3>2, <4>1 DEF DisableEnd, InTransit, Switching
      <4>2. CASE (Quiet(t) \/ Moves(t)) /\ ~DisableEnd(t)
        BY <3>2, <4>2, DisablingStep DEF Switching
      <4>3. CASE call'[t] = call[t]
        BY <3>2, <4>3 DEF Switching
      <4>4. call'[t] = call[t] \/ Quiet(t) \/ Moves(t)
        BY NextCases, ElsewhereKeeps, OpSteps DEF Others
      <4> QED
        BY <4>1, <4>2, <4>3, <4>4
    <3> QED
      BY <1>1, <2>3, <3>1, <3>2
  <2> QED
    BY <2>1, <2>2, <2>3
<1> QED
  BY <1>2 DEF ClosedInv

\* Where a caller starts to wait for an answer, and stops.
Same(t) == call'[t].op = call[t].op /\ call'[t].port = call[t].port /\ call'[t].w = call[t].w

LEMMA AskingSteps ==
  ASSUME TypeOK, IInv, NEW t \in Callers, Quiet(t) \/ Moves(t)
  PROVE  /\ AskVC(t) => At(t, "ask") /\ ~Asking(t) /\ Asking(t)' /\ Same(t)
         /\ Wake(t) => Asking(t) /\ ~Asking(t)' /\ Same(t) /\ call'[t].at = "release"
         /\ ~AskVC(t) /\ ~Wake(t) => (Asking(t)' <=> Asking(t)) /\ (Asking(t) => Same(t))
<1> USE DEF Asking, At, Same
<1>10. (AskVC(t) => call[t].at = "ask") /\ (Wake(t) => call[t].at = "reply")
  BY DEF AskVC, Wake
<1>1. CASE AskVC(t)
  BY <1>1, CallSteps DEF Goes, Stays
<1>2. CASE Wake(t)
  BY <1>2, CallSteps DEF Goes, Stays, Wake
<1>3. CASE DummyBulk(t)
  BY <1>3, CallSteps DEF Goes, Stays
<1>4. CASE \/ InitRelease(t) \/ Use(t) \/ Unuse(t) \/ FlushBulkLock(t) \/ DisableLock(t) \/ Grab(t)
           \/ Release(t) \/ PostPool(t) \/ DrainEnd(t) \/ DrainOne(t)
  BY <1>4, CallSteps DEF Goes
<1>5. CASE \/ Deinit(t) \/ FlushAnswered(t) \/ EnableAnswered(t) \/ SendFails(t) \/ SendBulk(t)
           \/ DisableEnd(t)
  BY <1>5, <1>10, CallSteps DEF Ends
<1>6. CASE SendMessage(t)
  BY <1>6, CallSteps, CallerIs DEF Ends, Goes
<1>7. CASE Pick(t) \/ AskFails(t) \/ Answered(t)
  <2>1. /\ call[t].at \in {"pick", "ask", "done"}
        /\ call'[t].at \in {"ask", "release", "idle", "drain", "unuse"}
    BY <1>7, ChoiceSteps DEF Goes, Ends
  <2>2. ~AskVC(t)
    <3>1. AskVC(t) => call'[t].at \in {"bulk", "reply"}
      BY CallSteps DEF Goes
    <3> QED
      BY <2>1, <3>1
  <2> QED
    BY <1>10, <2>1, <2>2
<1>8. CASE SendBegin(t) \/ FlushChoose(t)
  BY <1>8, <1>10, ChoiceSteps DEF Begins, Ends, Goes
<1>9. CASE \/ RequestBegin(t) \/ CreateBegin(t) \/ DestroyBegin(t)
           \/ \E p \in Ports : FlushBegin(t, p) \/ DisableBegin(t, p) \/ EnableBegin(t, p)
  BY <1>9, <1>10, CallSteps DEF Begins
<1> QED
  BY <1>1, <1>2, <1>3, <1>4, <1>5, <1>6, <1>7, <1>8, <1>9 DEF Quiet, Moves

LEMMA SameAsk ==
  ASSUME NEW t \in Callers, call'[t] = call[t] \/ Same(t)
  PROVE  Ask(t)' = Ask(t) /\ Reply(t)' = Reply(t)
BY DEF Same, Ask, Reply

\* Who waits for an answer keeps the service.
LEMMA AskersUse ==
  ASSUME TypeOK, IInv, NEW t \in Callers, call[t].at \in Asks \/ Asking(t)
  PROVE  Users # {}
<1>1. call[t].op \notin {"none", "send"} /\ call[t].at \in Labels(call[t].op)
  BY CallerIs DEF IInv, LabelInv, Labelled, Asking, At, Asks
<1>2. CASE call[t].op \in {"request", "create", "destroy"}
  BY <1>2 DEF IInv, LifeInv, CompInv, Users, Asks, Asking, At
<1>3. CASE call[t].op \in PortOps
  BY <1>3 DEF IInv, LifeInv, UsableInv, Usable, Users
<1>4. call[t].op \in PortOps \cup {"none", "send", "request", "create", "destroy"}
  BY DEF PortOps, Flushing, TypeOK, ClientType, Calls, Ops
<1> QED
  BY <1>1, <1>2, <1>3, <1>4

\* Who a step makes a user of the service.
IsUser(t)  == t \in comps \/ call[t].op = "create" \/ call[t].at \in {"unuse", "deinit"}
IsUsing(t) == \/ t \in comps \/ At(t, "unuse")
              \/ call[t].op = "create" /\ call[t].at \notin {"use", "deinit"}

LEMMA UserSteps ==
  ASSUME TypeOK, IInv, NEW t \in Callers, Quiet(t) \/ Moves(t)
  PROVE  /\ \A u \in Callers \ {t} : (IsUser(u)' <=> IsUser(u)) /\ (IsUsing(u)' <=> IsUsing(u))
         /\ CreateBegin(t) => /\ ~IsUser(t) /\ IsUser(t)' /\ ~IsUsing(t)
                              /\ IsUsing(t)' <=> refcount = 0
         /\ Deinit(t) => IsUser(t) /\ ~IsUser(t)' /\ ~IsUsing(t) /\ ~IsUsing(t)'
         /\ InitRelease(t) \/ Unuse(t) => IsUser(t) /\ IsUser(t)' /\ IsUsing(t) /\ ~IsUsing(t)'
         /\ Use(t) => IsUser(t) /\ IsUser(t)' /\ ~IsUsing(t) /\ IsUsing(t)'
         /\ CreateBegin(t) \/ Deinit(t) \/ InitRelease(t) \/ Unuse(t) \/ Use(t)
            \/ ((IsUser(t)' <=> IsUser(t)) /\ (IsUsing(t)' <=> IsUsing(t)))
<1> USE DEF IsUser, IsUsing, At
<1> DEFINE Keeps == (IsUser(t)' <=> IsUser(t)) /\ (IsUsing(t)' <=> IsUsing(t))
<1>1. CompInv(t) /\ (call[t].at \in {"init release", "use"} => call[t].op = "create")
  BY CallerIs DEF IInv, LifeInv
<1>2. UNCHANGED comps \/ Answered(t)
  BY QuietKeeps, MovesKeep DEF CreateBegin, Deinit
<1>3. \A u \in Callers \ {t} : (IsUser(u)' <=> IsUser(u)) /\ (IsUsing(u)' <=> IsUsing(u))
  <2>1. Others(t)
    BY OpSteps
  <2>2. \A u \in Callers \ {t} : u \in comps' <=> u \in comps
    BY <1>2, ChoiceSteps
  <2> QED
    BY <2>1, <2>2 DEF Others
<1>4. CreateBegin(t) => /\ ~IsUser(t) /\ IsUser(t)' /\ ~IsUsing(t)
                        /\ IsUsing(t)' <=> refcount = 0
  <2>1. ASSUME CreateBegin(t)
        PROVE  /\ t \notin comps /\ call[t].at = "idle" /\ call[t].op = "none"
               /\ t \notin comps' /\ call'[t].op = "create"
               /\ call'[t].at = IF refcount = 0 THEN "init release" ELSE "use"
    BY <2>1, CallSteps, CallerIs DEF CreateBegin, Begins
  <2> QED
    BY <2>1
<1>5. Deinit(t) => IsUser(t) /\ ~IsUser(t)' /\ ~IsUsing(t) /\ ~IsUsing(t)'
  <2>1. Deinit(t) => t \notin comps /\ t \notin comps'
    BY <1>1, CallerIs DEF Deinit, CompInv
  <2>2. Deinit(t) => call[t].at = "deinit" /\ call'[t].op = "none" /\ call'[t].at = "idle"
    BY CallSteps DEF Ends
  <2> QED
    BY <2>1, <2>2
<1>6. Unuse(t) => IsUser(t) /\ IsUser(t)' /\ IsUsing(t) /\ ~IsUsing(t)'
  <2>1. Unuse(t) => t \notin comps /\ t \notin comps'
    BY <1>1, CallerIs DEF Unuse, UseOrRelease, CompInv
  <2>2. Unuse(t) => call[t].at = "unuse" /\ call'[t].at = "deinit"
    BY CallSteps DEF Goes
  <2> QED
    BY <2>1, <2>2
<1>7. /\ InitRelease(t) => IsUser(t) /\ IsUser(t)' /\ IsUsing(t) /\ ~IsUsing(t)'
      /\ Use(t) => IsUser(t) /\ IsUser(t)' /\ ~IsUsing(t) /\ IsUsing(t)'
  <2>1. InitRelease(t) \/ Use(t) => UNCHANGED comps
    BY DEF InitRelease, Use, UseOrRelease
  <2>2. /\ InitRelease(t) => call[t].at = "init release" /\ call'[t].at = "use"
        /\ Use(t) => call[t].at = "use" /\ call'[t].at = "grab"
        /\ InitRelease(t) \/ Use(t) => call'[t].op = call[t].op
    BY CallSteps DEF Goes
  <2> QED
    BY <1>1, <2>1, <2>2 DEF CompInv
<1>8. ASSUME Answered(t) PROVE Keeps
  <2>1. CASE Ends(t, "done") /\ call[t].op = "request" /\ UNCHANGED comps
    BY <2>1 DEF Ends
  <2>2. CASE Goes(t, "done", "drain") /\ call[t].op = "disable" /\ UNCHANGED comps
    BY <2>2 DEF Goes
  <2>3. CASE call[t].op = "create" /\ Ends(t, "done") /\ comps' = comps \cup {t}
    BY <2>3 DEF Ends
  <2>4. CASE call[t].op = "create" /\ Goes(t, "done", "unuse") /\ UNCHANGED comps
    BY <2>4 DEF Goes
  <2>5. CASE call[t].op = "destroy" /\ Goes(t, "done", "unuse") /\ comps' = comps \ {t}
    BY <1>1, <2>5 DEF Goes, CompInv
  <2> QED
    BY <1>8, <2>1, <2>2, <2>3, <2>4, <2>5, ChoiceSteps
<1>9. ASSUME ~(CreateBegin(t) \/ Deinit(t) \/ InitRelease(t) \/ Unuse(t) \/ Use(t)), ~Answered(t)
      PROVE  Keeps
  <2>1. CASE \/ FlushBulkLock(t) \/ DisableLock(t) \/ Grab(t) \/ AskVC(t) \/ DummyBulk(t) \/ Wake(t)
             \/ Release(t) \/ PostPool(t) \/ DrainEnd(t) \/ DrainOne(t)
    BY <1>2, <1>9, <2>1, CallSteps DEF Goes
  <2>2. CASE \/ FlushAnswered(t) \/ EnableAnswered(t) \/ SendFails(t) \/ SendBulk(t) \/ DisableEnd(t)
    <3>1. call[t].op \notin {"create", "none"} /\ call[t].at \notin {"unuse", "deinit"}
      BY <2>2, CallSteps, CallerIs DEF Ends, Flushing
    <3>2. call'[t].op = "none" /\ call'[t].at = "idle"
      BY <2>2, CallSteps DEF Ends
    <3> QED
      BY <1>2, <1>9, <3>1, <3>2
  <2>3. CASE SendMessage(t) \/ SendBegin(t) \/ FlushChoose(t) \/ Pick(t) \/ AskFails(t)
    <3>1. CASE SendMessage(t)
      BY <1>2, <1>9, <3>1, CallSteps, CallerIs DEF Ends, Goes
    <3>2. CASE SendBegin(t)
      BY <1>2, <1>9, <3>2, ChoiceSteps, CallerIs DEF Begins
    <3>3. CASE FlushChoose(t)
      <4>1. call[t].op = "flush" /\ call[t].at = "flush"
        BY <3>3, CallerIs DEF FlushChoose
      <4>2. call'[t].op # "create" /\ call'[t].at \notin {"unuse", "deinit"}
        BY <3>3, <4>1, ChoiceSteps DEF Ends, Goes
      <4> QED
        BY <1>2, <1>9, <4>1, <4>2
    <3>4. CASE Pick(t) \/ AskFails(t)
      BY <1>2, <1>9, <3>4, ChoiceSteps
    <3> QED
      BY <2>3, <3>1, <3>2, <3>3, <3>4
  <2>4. CASE \/ RequestBegin(t) \/ DestroyBegin(t)
             \/ \E p \in Ports : FlushBegin(t, p) \/ DisableBegin(t, p) \/ EnableBegin(t, p)
    BY <1>2, <1>9, <2>4, CallSteps, CallerIs DEF Begins
  <2> QED
    BY <1>9, <2>1, <2>2, <2>3, <2>4 DEF Quiet, Moves
<1> QED
  BY <1>3, <1>4, <1>5, <1>6, <1>7, <1>8, <1>9

\* The counts of the service follow its users.
LEMMA UseStep ==
  ASSUME TypeOK, IInv, [Next]_vars
  PROVE  UseInv'
<1>1. /\ Users = {u \in Callers : IsUser(u)} /\ Users' = {u \in Callers : IsUser(u)'}
      /\ Using = {u \in Callers : IsUsing(u)} /\ Using' = {u \in Callers : IsUsing(u)'}
      /\ Askers = {u \in Callers : Asking(u)} /\ Askers' = {u \in Callers : Asking(u)'}
  <2>1. comps \subseteq Callers /\ comps' \subseteq Callers
    BY LifeTypeStep DEF TypeOK, LifeType
  <2> QED
    BY <2>1 DEF Users, Using, Askers, IsUser, IsUsing, At
<1>2. /\ refcount = Cardinality(Users) /\ (open <=> refcount # 0) /\ open \in BOOLEAN
      /\ usecount = Cardinality(Using) + Cardinality(Askers)
  BY DEF IInv, UseInv, TypeOK, LifeType
<1>3. /\ Cardinality(Users) \in Nat /\ Cardinality(Using) \in Nat /\ Cardinality(Askers) \in Nat
      /\ IsFiniteSet(Users) /\ IsFiniteSet(Using) /\ IsFiniteSet(Askers)
  BY Counted, CountIs
<1>4. Users = {} => Using = {} /\ Askers = {}
  <2>1. Using \subseteq Users
    BY <1>1 DEF IsUser, IsUsing, At
  <2>2. Askers # {} => Users # {}
    BY AskersUse DEF Askers
  <2> QED
    BY <2>1, <2>2
<1>5. ASSUME NEW t \in Callers, Quiet(t) \/ Moves(t)
      PROVE  UseInv'
  <2>1. /\ \A u \in Callers \ {t} : /\ IsUser(u)' <=> IsUser(u)
                                    /\ IsUsing(u)' <=> IsUsing(u)
                                    /\ Asking(u)' <=> Asking(u)
    BY <1>5, UserSteps, OpSteps DEF Others, Asking, At
  <2>2. ~AskVC(t) /\ ~Wake(t) => Askers' = Askers
    BY <1>1, <1>5, <2>1, AskingSteps
  <2>3. CASE CreateBegin(t)
    <3>1. t \notin Users /\ Users' = Users \cup {t} /\ t \notin Using
          /\ Using' = IF refcount = 0 THEN Using \cup {t} ELSE Using
      BY <1>1, <1>5, <2>1, <2>3, UserSteps
    <3>2. Askers' = Askers
      BY <2>2, <2>3 DEF CreateBegin, Begin, AskVC, Wake, At
    <3>3. /\ Cardinality(Users') = Cardinality(Users) + 1
          /\ Cardinality(Using') = Cardinality(Using) + IF refcount = 0 THEN 1 ELSE 0
      BY <1>3, <3>1, CountIs
    <3>4. refcount = 0 => Cardinality(Using) = 0 /\ Cardinality(Askers) = 0
      BY <1>2, <1>3, <1>4, CountIs
    <3>5. /\ refcount' = refcount + 1
          /\ refcount = 0 => open' = TRUE /\ usecount' = 1
          /\ refcount # 0 => open' = open /\ usecount' = usecount
      BY <2>3 DEF CreateBegin
    <3> QED
      BY <1>2, <1>3, <3>2, <3>3, <3>4, <3>5 DEF UseInv
  <2>4. CASE Deinit(t)
    <3>1. t \in Users /\ Users' = Users \ {t} /\ Using' = Using
      BY <1>1, <1>5, <2>1, <2>4, UserSteps
    <3>2. Askers' = Askers
      BY <2>2, <2>4 DEF Deinit, AskVC, Wake, At
    <3>3. Cardinality(Users') = Cardinality(Users) - 1 /\ Cardinality(Users) > 0
      BY <1>3, <3>1, CountIs
    <3>4. refcount' = refcount - 1 /\ (open' <=> refcount' # 0) /\ usecount' = usecount
      BY <2>4 DEF Deinit
    <3> QED
      BY <1>2, <1>3, <3>1, <3>2, <3>3, <3>4 DEF UseInv
  <2>5. CASE InitRelease(t) \/ Unuse(t)
    <3>1. t \in Using /\ Using' = Using \ {t} /\ Users' = Users
      BY <1>1, <1>5, <2>1, <2>5, UserSteps
    <3>2. Askers' = Askers
      BY <2>2, <2>5 DEF InitRelease, Unuse, UseOrRelease, AskVC, Wake, At
    <3>3. Cardinality(Using') = Cardinality(Using) - 1 /\ Cardinality(Using) > 0
      BY <1>3, <3>1, CountIs
    <3>4. refcount' = refcount /\ open' = open /\ usecount' = usecount + -1
      BY <2>5 DEF InitRelease, Unuse, UseOrRelease
    <3> QED
      BY <1>2, <1>3, <3>1, <3>2, <3>3, <3>4 DEF UseInv
  <2>6. CASE Use(t)
    <3>1. t \notin Using /\ Using' = Using \cup {t} /\ Users' = Users
      BY <1>1, <1>5, <2>1, <2>6, UserSteps
    <3>2. Askers' = Askers
      BY <2>2, <2>6 DEF Use, UseOrRelease, AskVC, Wake, At
    <3>3. Cardinality(Using') = Cardinality(Using) + 1
      BY <1>3, <3>1, CountIs
    <3>4. refcount' = refcount /\ open' = open /\ usecount' = usecount + 1
      BY <2>6 DEF Use, UseOrRelease
    <3> QED
      BY <1>2, <1>3, <3>1, <3>2, <3>3, <3>4 DEF UseInv
  <2>7. CASE ~(CreateBegin(t) \/ Deinit(t) \/ InitRelease(t) \/ Unuse(t) \/ Use(t))
    <3>1. Users' = Users /\ Using' = Using
      BY <1>1, <1>5, <2>1, <2>7, UserSteps
    <3>2. refcount' = refcount /\ open' = open
      BY <1>5, <2>7, QuietKeeps, MovesKeep DEF Answered
    <3>3. CASE AskVC(t)
      <4>1. t \notin Askers /\ Askers' = Askers \cup {t}
        BY <1>1, <1>5, <2>1, <3>3, AskingSteps
      <4>2. Cardinality(Askers') = Cardinality(Askers) + 1
        BY <1>3, <4>1, CountIs
      <4>3. usecount' = usecount + 1
        BY <3>3 DEF AskVC
      <4> QED
        BY <1>2, <1>3, <3>1, <3>2, <4>2, <4>3 DEF UseInv
    <3>4. CASE Wake(t)
      <4>1. t \in Askers /\ Askers' = Askers \ {t}
        BY <1>1, <1>5, <2>1, <3>4, AskingSteps
      <4>2. Cardinality(Askers') = Cardinality(Askers) - 1 /\ Cardinality(Askers) > 0
        BY <1>3, <4>1, CountIs
      <4>3. usecount' = usecount - 1
        BY <3>4 DEF Wake
      <4> QED
        BY <1>2, <1>3, <3>1, <3>2, <4>2, <4>3 DEF UseInv
    <3>5. CASE ~AskVC(t) /\ ~Wake(t)
      <4>1. usecount' = usecount
        BY <1>5, <2>7, <3>5, QuietKeeps, MovesKeep
      <4> QED
        BY <1>2, <2>2, <3>1, <3>2, <3>5, <4>1 DEF UseInv
    <3> QED
      BY <3>3, <3>4, <3>5
  <2> QED
    BY <2>3, <2>4, <2>5, <2>6, <2>7
<1>6. ASSUME UNCHANGED <<call, life, usecount>> PROVE UseInv'
  <2>1. Users' = Users /\ Using' = Using /\ Askers' = Askers
    BY <1>6 DEF Users, Using, Askers, Asking, At
  <2> QED
    BY <1>2, <1>6, <2>1 DEF UseInv
<1> QED
  BY NextCases, ElsewhereKeeps, <1>5, <1>6

\* Who has a waiter, and who has been told the answer.
LEMMA HoldingSteps ==
  ASSUME TypeOK, IInv, NEW t \in Callers, Quiet(t) \/ Moves(t)
  PROVE  /\ Pick(t) => ~Holding(t) /\ Holding(t)' /\ call'[t].w = FirstFree
         /\ Release(t) => Holding(t) /\ ~Holding(t)'
         /\ ~Pick(t) /\ ~Release(t) => /\ Holding(t)' <=> Holding(t)
                                       /\ Holding(t) => call'[t].w = call[t].w
         /\ Told(t)' => (Told(t) /\ UNCHANGED got) \/ Wake(t)
         /\ Grab(t) \/ Pick(t) \/ (At(t, "pick")' <=> At(t, "pick"))
         /\ Release(t) \/ PostPool(t) \/ (At(t, "post")' <=> At(t, "post"))
<1> USE DEF Holding, Asking, Told, At
<1>1. /\ Pick(t) => call[t].at = "pick" /\ call'[t].at = "ask"
      /\ Release(t) => call[t].at = "release" /\ call'[t].at = "post"
      /\ PostPool(t) => call[t].at = "post" /\ call'[t].at = "done"
  BY CallSteps, ChoiceSteps DEF Goes
<1>2. CASE Pick(t)
  BY <1>1, <1>2, ChoiceSteps
<1>3. CASE Release(t)
  BY <1>1, <1>3, CallSteps DEF Goes, Release
<1>4. CASE PostPool(t)
  BY <1>1, <1>4, CallSteps DEF Goes, Stays, PostPool
<1>5. CASE AskVC(t) \/ DummyBulk(t) \/ Wake(t) \/ Grab(t)
  BY <1>1, <1>5, CallSteps DEF Goes, Stays
<1>6. CASE \/ InitRelease(t) \/ Use(t) \/ Unuse(t) \/ FlushBulkLock(t) \/ DisableLock(t)
           \/ DrainEnd(t) \/ DrainOne(t)
  BY <1>1, <1>6, CallSteps DEF Goes
<1>7. CASE \/ Deinit(t) \/ FlushAnswered(t) \/ EnableAnswered(t) \/ SendFails(t) \/ SendBulk(t)
           \/ DisableEnd(t)
  BY <1>1, <1>7, CallSteps DEF Ends
<1>8. CASE SendMessage(t)
  BY <1>1, <1>8, CallSteps, CallerIs DEF Ends, Goes
<1>9. CASE AskFails(t)
  BY <1>1, <1>9, ChoiceSteps DEF Stays
<1>10. CASE Answered(t) \/ SendBegin(t) \/ FlushChoose(t)
  <2>1. /\ call[t].at \in {"done", "idle", "flush"}
        /\ call'[t].at \in {"idle", "drain", "unuse", "message", "bulk lock", "grab"}
    BY <1>10, ChoiceSteps DEF Ends, Goes, Begins
  <2> QED
    BY <1>1, <2>1
<1>11. CASE \/ RequestBegin(t) \/ CreateBegin(t) \/ DestroyBegin(t)
            \/ \E p \in Ports : FlushBegin(t, p) \/ DisableBegin(t, p) \/ EnableBegin(t, p)
  <2>1. /\ call[t].at = "idle"
        /\ call'[t].at \in {"grab", "init release", "use", "flush", "action lock"}
    BY <1>11, CallSteps DEF Begins
  <2> QED
    BY <1>1, <2>1
<1> QED
  BY <1>2, <1>3, <1>4, <1>5, <1>6, <1>7, <1>8, <1>9, <1>10, <1>11 DEF Quiet, Moves

LEMMA PoolStep ==
  ASSUME TypeOK, IInv, [Next]_vars
  PROVE  PoolInv'
<1>1. /\ waitSem + Cardinality(PastPool) + Cardinality(Posting) = Cardinality(Unused)
      /\ waitSem \in Nat /\ inuse \in [Waiters -> BOOLEAN]
  BY WaiterAssumption DEF IInv, PoolInv, TypeOK, WaitType
<1>2. /\ Cardinality(PastPool) \in Nat /\ Cardinality(Posting) \in Nat /\ Cardinality(Unused) \in Nat
      /\ IsFiniteSet(PastPool) /\ IsFiniteSet(Posting) /\ IsFiniteSet(Unused)
  BY Counted, CountIs
<1>3. ASSUME NEW t \in Callers, Quiet(t) \/ Moves(t) PROVE PoolInv'
  <2>1. /\ \A u \in Callers \ {t} : /\ At(u, "pick")' <=> At(u, "pick")
                                    /\ At(u, "post")' <=> At(u, "post")
        /\ Grab(t) \/ Pick(t) \/ (At(t, "pick")' <=> At(t, "pick"))
        /\ Release(t) \/ PostPool(t) \/ (At(t, "post")' <=> At(t, "post"))
    BY <1>3, OpSteps, HoldingSteps DEF Others, At
  <2>2. /\ Grab(t) => call[t].at = "grab" /\ call'[t].at = "pick"
        /\ Pick(t) => call[t].at = "pick" /\ call'[t].at = "ask"
        /\ Release(t) => call[t].at = "release" /\ call'[t].at = "post"
        /\ PostPool(t) => call[t].at = "post" /\ call'[t].at = "done"
    BY CallSteps, ChoiceSteps DEF Goes
  <2>3. /\ ~Grab(t) /\ ~Pick(t) => PastPool' = PastPool
        /\ ~Release(t) /\ ~PostPool(t) => Posting' = Posting
    BY <2>1 DEF PastPool, Posting
  <2>4. CASE Grab(t)
    <3>1. t \notin PastPool /\ PastPool' = PastPool \cup {t}
      BY <2>1, <2>2, <2>4 DEF PastPool, At
    <3>2. Posting' = Posting
      BY <2>2, <2>3, <2>4
    <3>3. waitSem' = waitSem - 1 /\ Unused' = Unused /\ waitSem > 0
      BY <2>4 DEF Grab, Unused
    <3>4. Cardinality(PastPool') = Cardinality(PastPool) + 1
      BY <1>2, <3>1, CountIs
    <3> QED
      BY <1>1, <1>2, <3>2, <3>3, <3>4 DEF PoolInv
  <2>5. CASE Pick(t)
    <3>1. t \in PastPool /\ PastPool' = PastPool \ {t}
      BY <2>1, <2>2, <2>5 DEF PastPool, At
    <3>2. Posting' = Posting
      BY <2>2, <2>3, <2>5
    <3>3. FirstFree \in Unused
      BY <2>5, FirstFreeIs DEF Pick, Unused
    <3>4. waitSem' = waitSem /\ Unused' = Unused \ {FirstFree}
      BY <1>1, <2>5, <3>3 DEF Pick, Unused
    <3>5. /\ Cardinality(PastPool') = Cardinality(PastPool) - 1
          /\ Cardinality(Unused') = Cardinality(Unused) - 1
      BY <1>2, <3>1, <3>3, <3>4, CountIs
    <3> QED
      BY <1>1, <1>2, <3>2, <3>4, <3>5 DEF PoolInv
  <2>6. CASE Release(t)
    <3>1. t \notin Posting /\ Posting' = Posting \cup {t}
      BY <2>1, <2>2, <2>6 DEF Posting, At
    <3>2. PastPool' = PastPool
      BY <2>2, <2>3, <2>6
    <3>3. call[t].w \in Waiters /\ inuse[call[t].w]
      BY <2>6, CallerIs DEF Release, Holding, IInv, WaiterInv
    <3>4. waitSem' = waitSem /\ Unused' = Unused \cup {call[t].w} /\ call[t].w \notin Unused
      BY <1>1, <2>6, <3>3 DEF Release, Unused
    <3>5. /\ Cardinality(Posting') = Cardinality(Posting) + 1
          /\ Cardinality(Unused') = Cardinality(Unused) + 1
      BY <1>2, <3>1, <3>4, CountIs
    <3> QED
      BY <1>1, <1>2, <3>2, <3>4, <3>5 DEF PoolInv
  <2>7. CASE PostPool(t)
    <3>1. t \in Posting /\ Posting' = Posting \ {t}
      BY <2>1, <2>2, <2>7 DEF Posting, At
    <3>2. PastPool' = PastPool
      BY <2>2, <2>3, <2>7
    <3>3. waitSem' = waitSem + 1 /\ Unused' = Unused
      BY <2>7 DEF PostPool, Unused
    <3>4. Cardinality(Posting') = Cardinality(Posting) - 1
      BY <1>2, <3>1, CountIs
    <3> QED
      BY <1>1, <1>2, <3>2, <3>3, <3>4 DEF PoolInv
  <2>8. CASE ~(Grab(t) \/ Pick(t) \/ Release(t) \/ PostPool(t))
    <3>1. waitSem' = waitSem /\ Unused' = Unused
      BY <1>3, <2>8, QuietKeeps, MovesKeep DEF Unused
    <3> QED
      BY <1>1, <2>3, <2>8, <3>1 DEF PoolInv
  <2> QED
    BY <2>4, <2>5, <2>6, <2>7, <2>8
<1>4. ASSUME UNCHANGED <<call, waitSem, inuse>> PROVE PoolInv'
  <2>1. PastPool' = PastPool /\ Posting' = Posting /\ Unused' = Unused
    BY <1>4 DEF PastPool, Posting, Unused, At
  <2> QED
    BY <1>1, <1>4, <2>1 DEF PoolInv
<1> QED
  BY NextCases, ElsewhereKeeps, <1>3, <1>4

\* Two callers have different waiters.
LEMMA HolderIs ==
  ASSUME TypeOK, IInv, NEW t \in Callers, NEW u \in Callers, Holding(t), Holding(u),
         call[t].w = call[u].w
  PROVE  t = u
BY DEF IInv, WaiterInv

LEMMA WaiterStep ==
  ASSUME TypeOK, IInv, [Next]_vars
  PROVE  WaiterInv'
<1> USE DEF WaiterInv
<1>1. /\ \A t \in Callers : Holding(t) => inuse[call[t].w] /\ dest[call[t].w] = t
      /\ \A w \in Waiters : inuse[w] => \E t \in Callers : Holding(t) /\ call[t].w = w
      /\ \A w \in Waiters : replied[w] = 1 =>
           \E t \in Callers : Asking(t) /\ call[t].w = w /\ got[t] = t
      /\ \A t \in Callers : Told(t) => got[t] = t
  BY DEF IInv
<1>2. /\ \A t \in Callers : Asking(t) => Holding(t)
      /\ \A t \in Callers : Holding(t) => call[t].w \in Waiters
      /\ inuse \in [Waiters -> BOOLEAN] /\ dest \in [Waiters -> Callers \cup {Nobody}]
      /\ replied \in [Waiters -> {0, 1}] /\ got \in [Callers -> Callers \cup {Nobody}]
  BY CallerIs DEF Holding, TypeOK, WaitType, ClientType
<1>3. ASSUME NEW t \in Callers, Quiet(t) \/ Moves(t) PROVE WaiterInv'
  <2>1. /\ \A u \in Callers \ {t} : /\ Holding(u)' <=> Holding(u)
                                    /\ Asking(u)' <=> Asking(u)
                                    /\ Told(u)' <=> Told(u)
                                    /\ call'[u].w = call[u].w
        /\ \A u \in Callers \ {t} : got'[u] = got[u]
    <3>1. Others(t)
      BY <1>3, OpSteps
    <3>2. \A u \in Callers \ {t} : got'[u] = got[u]
      <4>1. UNCHANGED got \/ \E o, p, b, l : Begin(t, o, p, b, l)
        BY <1>3 DEF Quiet, Moves, RequestBegin, CreateBegin, DestroyBegin, FlushBegin, DisableBegin,
             EnableBegin, InitRelease, Use, Unuse, UseOrRelease, Deinit, FlushChoose,
             FlushBulkLock, DisableLock, Grab, Pick, AskFails, Release, PostPool, FlushAnswered,
             EnableAnswered, Answered, DrainEnd, DisableEnd, SendBegin, SendMessage, SendFails,
             SendBulk, AskVC, DummyBulk, Wake, DrainOne
      <4> QED
        BY <4>1, BeginIs
    <3> QED
      BY <3>1, <3>2 DEF Others, Holding, Asking, Told, At
  <2>2. CASE Pick(t)
    <3>1. /\ FirstFree \in Waiters /\ ~inuse[FirstFree]
          /\ inuse' = [inuse EXCEPT ![FirstFree] = TRUE] /\ dest' = [dest EXCEPT ![FirstFree] = t]
          /\ replied' = replied /\ got' = got
      BY <2>2, FirstFreeIs DEF Pick
    <3>2. /\ ~Holding(t) /\ Holding(t)' /\ call'[t].w = FirstFree /\ ~Asking(t)
          /\ Told(t)' => Told(t)
      BY <1>2, <1>3, <2>2, HoldingSteps, ChoiceSteps DEF Told
    <3>3. ASSUME NEW u \in Callers, Holding(u)' PROVE inuse'[call'[u].w] /\ dest'[call'[u].w] = u
      <4>1. CASE u = t
        BY <1>2, <3>1, <3>2, <4>1
      <4>2. CASE u # t
        <5>1. Holding(u) /\ call'[u].w = call[u].w
          BY <2>1, <3>3, <4>2
        <5> QED
          BY <1>1, <1>2, <3>1, <5>1
      <4> QED
        BY <4>1, <4>2
    <3>4. ASSUME NEW w \in Waiters, inuse'[w] PROVE \E u \in Callers : Holding(u)' /\ call'[u].w = w
      <4>1. CASE w = FirstFree
        BY <3>2, <4>1
      <4>2. CASE w # FirstFree
        <5>1. PICK u \in Callers : Holding(u) /\ call[u].w = w
          BY <1>1, <1>2, <3>1, <3>4, <4>2
        <5> QED
          BY <2>1, <3>2, <5>1
      <4> QED
        BY <4>1, <4>2
    <3>5. ASSUME NEW w \in Waiters, replied'[w] = 1
          PROVE  \E u \in Callers : Asking(u)' /\ call'[u].w = w /\ got'[u] = u
      <4>1. PICK u \in Callers : Asking(u) /\ call[u].w = w /\ got[u] = u
        BY <1>1, <3>1, <3>5
      <4> QED
        BY <2>1, <3>1, <3>2, <4>1
    <3>6. \A u \in Callers : Told(u)' => got'[u] = u
      BY <1>1, <2>1, <3>1, <3>2
    <3> QED
      BY <3>3, <3>4, <3>5, <3>6
  <2>3. CASE Release(t)
    <3>1. /\ Holding(t) /\ call[t].w \in Waiters /\ ~Holding(t)' /\ ~Asking(t)
          /\ inuse' = [inuse EXCEPT ![call[t].w] = FALSE]
          /\ dest' = dest /\ replied' = replied /\ got' = got
          /\ Told(t)' => Told(t)
      <4>1. ~Asking(t) /\ Told(t)' => Told(t)
        BY <2>3, CallSteps DEF Goes, Asking, Told, At
      <4> QED
        BY <1>2, <1>3, <2>3, <4>1, HoldingSteps, CallSteps DEF Release, Goes, Asking, At, Told
    <3>2. ASSUME NEW u \in Callers, Holding(u)' PROVE inuse'[call'[u].w] /\ dest'[call'[u].w] = u
      <4>1. u # t /\ Holding(u) /\ call'[u].w = call[u].w
        BY <2>1, <3>1, <3>2
      <4>2. call[u].w # call[t].w
        BY <3>1, <4>1, HolderIs
      <4> QED
        BY <1>1, <1>2, <3>1, <4>1, <4>2
    <3>3. ASSUME NEW w \in Waiters, inuse'[w] PROVE \E u \in Callers : Holding(u)' /\ call'[u].w = w
      <4>1. inuse[w] /\ w # call[t].w
        BY <1>2, <3>1, <3>3
      <4>2. PICK u \in Callers : Holding(u) /\ call[u].w = w
        BY <1>1, <4>1
      <4> QED
        BY <2>1, <4>1, <4>2
    <3>4. ASSUME NEW w \in Waiters, replied'[w] = 1
          PROVE  \E u \in Callers : Asking(u)' /\ call'[u].w = w /\ got'[u] = u
      <4>1. PICK u \in Callers : Asking(u) /\ call[u].w = w /\ got[u] = u
        BY <1>1, <3>1, <3>4
      <4> QED
        BY <2>1, <3>1, <4>1
    <3>5. \A u \in Callers : Told(u)' => got'[u] = u
      BY <1>1, <2>1, <3>1
    <3> QED
      BY <3>2, <3>3, <3>4, <3>5
  <2>4. CASE ~Pick(t) /\ ~Release(t)
    <3>1. inuse' = inuse /\ dest' = dest
      BY <1>3, <2>4, QuietKeeps, MovesKeep
    <3>2. \A u \in Callers : /\ Holding(u)' <=> Holding(u)
                             /\ Holding(u) => call'[u].w = call[u].w
      BY <1>3, <2>1, <2>4, HoldingSteps
    <3>3. /\ \A u \in Callers : Holding(u)' => inuse'[call'[u].w] /\ dest'[call'[u].w] = u
          /\ \A w \in Waiters : inuse'[w] => \E u \in Callers : Holding(u)' /\ call'[u].w = w
      BY <1>1, <3>1, <3>2
    <3>4. CASE Wake(t)
      <4>1. /\ Asking(t) /\ replied[call[t].w] > 0 /\ call[t].w \in Waiters /\ got' = got
            /\ replied' = [replied EXCEPT ![call[t].w] = @ - 1] /\ ~Asking(t)'
        BY <1>2, <1>3, <3>4, AskingSteps DEF Wake
      <4>2. replied[call[t].w] = 1
        BY <1>2, <4>1
      <4>3. got[t] = t
        <5>1. PICK u \in Callers : Asking(u) /\ call[u].w = call[t].w /\ got[u] = u
          BY <1>1, <4>1, <4>2
        <5>2. u = t
          BY <1>2, <4>1, <5>1, HolderIs
        <5> QED
          BY <5>1, <5>2
      <4>4. ASSUME NEW w \in Waiters, replied'[w] = 1
            PROVE  \E u \in Callers : Asking(u)' /\ call'[u].w = w /\ got'[u] = u
        <5>1. w # call[t].w /\ replied[w] = 1
          BY <1>2, <4>1, <4>2, <4>4
        <5>2. PICK u \in Callers : Asking(u) /\ call[u].w = w /\ got[u] = u
          BY <1>1, <5>1
        <5> QED
          BY <2>1, <4>1, <5>1, <5>2
      <4>5. \A u \in Callers : Told(u)' => got'[u] = u
        BY <1>1, <2>1, <4>1, <4>3
      <4> QED
        BY <3>3, <4>4, <4>5
    <3>5. CASE ~Wake(t)
      <4>1. replied' = replied
        BY <1>3, <3>5, QuietKeeps, MovesKeep
      <4>2. Asking(t) => Asking(t)' /\ got'[t] = got[t]
        <5>1. Asking(t) => Asking(t)'
          BY <1>3, <3>5, AskingSteps
        <5>2. Asking(t) => ~At(t, "idle")
          BY DEF Asking, At
        <5>3. UNCHANGED got \/ At(t, "idle")
          BY <1>3 DEF Quiet, Moves, RequestBegin, CreateBegin, DestroyBegin, FlushBegin,
               DisableBegin, EnableBegin, InitRelease, Use, Unuse, UseOrRelease, Deinit,
               FlushChoose, FlushBulkLock, DisableLock, Grab, Pick, AskFails, Release, PostPool,
               FlushAnswered, EnableAnswered, Answered, DrainEnd, DisableEnd, SendBegin,
               SendMessage, SendFails, SendBulk, AskVC, DummyBulk, Wake, DrainOne, Begin
        <5> QED
          BY <5>1, <5>2, <5>3
      <4>3. ASSUME NEW w \in Waiters, replied'[w] = 1
            PROVE  \E u \in Callers : Asking(u)' /\ call'[u].w = w /\ got'[u] = u
        <5>1. PICK u \in Callers : Asking(u) /\ call[u].w = w /\ got[u] = u
          BY <1>1, <4>1, <4>3
        <5> QED
          BY <1>2, <2>1, <3>2, <4>2, <5>1
      <4>4. ASSUME NEW u \in Callers, Told(u)' PROVE got'[u] = u
        BY <1>1, <1>3, <2>1, <3>5, <4>4, HoldingSteps
      <4> QED
        BY <3>3, <4>3, <4>4
    <3> QED
      BY <3>4, <3>5
  <2> QED
    BY <2>2, <2>3, <2>4
<1>4. ASSUME HostReply, UNCHANGED <<call, inuse, dest>> PROVE WaiterInv'
  <2> DEFINE m == Head(toHost)
  <2>1. m \in ToSet(toHost) /\ m.op = "reply"
    BY <1>4, HeadIs DEF HostReply, TypeOK, QueueType
  <2>2. /\ m.who \in Callers /\ Asking(m.who) /\ m.w = call[m.who].w /\ m.w \in Waiters
        /\ dest[m.w] = m.who
    BY <2>1, ReplyAllows
  <2>3. /\ got' = [got EXCEPT ![m.who] = m.who] /\ replied' = [replied EXCEPT ![m.w] = @ + 1]
    BY <1>4, <2>2 DEF HostReply
  <2> HIDE DEF m
  <2>4. \A u \in Callers : /\ Holding(u)' <=> Holding(u)
                           /\ Asking(u)' <=> Asking(u)
                           /\ Told(u)' <=> Told(u)
                           /\ got'[u] = got[u] \/ (u = m.who /\ got'[u] = u)
    BY <1>2, <1>4, <2>2, <2>3 DEF Holding, Asking, Told, At
  <2>5. ASSUME NEW w \in Waiters, replied'[w] = 1
        PROVE  \E u \in Callers : Asking(u)' /\ call'[u].w = w /\ got'[u] = u
    <3>1. CASE w = m.w
      BY <1>2, <1>4, <2>2, <2>3, <2>4, <3>1
    <3>2. CASE w # m.w
      <4>1. PICK u \in Callers : Asking(u) /\ call[u].w = w /\ got[u] = u
        BY <1>1, <1>2, <2>3, <2>5, <3>2
      <4> QED
        BY <1>4, <2>4, <4>1
    <3> QED
      BY <3>1, <3>2
  <2>6. \A u \in Callers : Told(u)' => got'[u] = u
    BY <1>1, <2>4
  <2>7. /\ \A u \in Callers : Holding(u)' => inuse'[call'[u].w] /\ dest'[call'[u].w] = u
        /\ \A w \in Waiters : inuse'[w] => \E u \in Callers : Holding(u)' /\ call'[u].w = w
    BY <1>1, <1>4, <2>4
  <2> QED
    BY <2>5, <2>6, <2>7
<1>5. ASSUME UNCHANGED <<call, got, inuse, dest, replied>> PROVE WaiterInv'
  <2>1. \A u \in Callers : /\ Holding(u)' <=> Holding(u)
                           /\ Asking(u)' <=> Asking(u)
                           /\ Told(u)' <=> Told(u)
    BY <1>5 DEF Holding, Asking, Told, At
  <2> QED
    BY <1>1, <1>5, <2>1
<1> QED
  BY NextCases, ElsewhereKeeps, <1>3, <1>4, <1>5

-----------------------------------------------------------------------------
\* What is in each queue.
LEMMA MessageOf ==
  ASSUME TypeOK, IInv, NEW m \in ToSet(toVC) \cup ToSet(expect) \cup jobs
  PROVE  /\ m \in ToVC
         /\ \/ \E b \in Buffers : m = Send(b) /\ m \notin jobs
            \/ \E t \in Callers : Asking(t) /\ m = Ask(t)
<1>1. m \in ToVC
  <2>1. ToSet(toVC) \subseteq ToVC /\ ToSet(expect) \subseteq ToVC
    BY QueueIs DEF TypeOK, QueueType
  <2>2. jobs \subseteq ToVC
    BY MessageIs DEF TypeOK, QueueType
  <2> QED
    BY <2>1, <2>2
<1>2. CASE m.op = "buffer"
  <2>1. m.buf \in Buffers /\ m = Send(m.buf)
    BY <1>1, <1>2, MessageIs
  <2>2. m \notin jobs
    BY <1>2, MessageIs DEF TypeOK, QueueType
  <2> QED
    BY <1>1, <2>1, <2>2
<1>3. CASE m.op # "buffer"
  <2>1. m.who \in Callers
    BY <1>1, <1>3, MessageIs
  <2>2. Asking(m.who) /\ m = Ask(m.who)
    BY <1>3 DEF IInv, RequestInv
  <2> QED
    BY <1>1, <2>1, <2>2
<1> QED
  BY <1>2, <1>3

LEMMA ReplyOf ==
  ASSUME TypeOK, IInv, NEW m \in ToSet(toHost)
  PROVE  /\ m \in FromVC
         /\ \/ \E b \in Buffers : m = Data(b) /\ m.op = "buffer" /\ m.bulk /\ m.buf = b
            \/ \E b \in Buffers : m = Plain(b) /\ m.op = "buffer" /\ ~m.bulk /\ m.buf = b
            \/ \E t \in Callers : Asking(t) /\ m = Reply(t) /\ m.op = "reply"
<1>1. m \in FromVC
  BY QueueIs DEF TypeOK, QueueType
<1>2. CASE m.op = "reply"
  BY <1>1, <1>2, ReplyAllows
<1>3. CASE m.op # "reply"
  <2>1. m.op = "buffer" /\ m.buf \in Buffers /\ (m = Data(m.buf) \/ m = Plain(m.buf))
    BY <1>1, <1>3, ReplyIs
  <2>2. (m = Data(m.buf) => m.bulk) /\ (m = Plain(m.buf) => ~m.bulk)
    BY <2>1, ReplyIs
  <2> QED
    BY <1>1, <2>1, <2>2
<1> QED
  BY <1>2, <1>3

\* Only one thread carries a header, and only one has the bulk lock.
LEMMA CarrierIs ==
  ASSUME TypeOK, IInv, NEW t \in Callers, NEW u \in Callers
  PROVE  /\ At(t, "message") /\ At(u, "message") /\ call[t].buf = call[u].buf => t = u
         /\ At(t, "bulk") /\ At(u, "bulk") => t = u
<1>1. ASSUME At(t, "message"), At(u, "message"), call[t].buf = call[u].buf PROVE t = u
  <2>1. /\ call[t].op = "send" /\ call[t].port = PortOf[call[t].buf] /\ call[t].port \in Ports
        /\ call[u].op = "send" /\ call[u].port = PortOf[call[u].buf]
    BY <1>1, CallerIs DEF PortOps
  <2>2. SendLocked(t, call[t].port) /\ SendLocked(u, call[t].port)
    BY <1>1, <2>1 DEF SendLocked
  <2> QED
    BY <2>1, <2>2 DEF IInv, LockInv, SendLockInv
<1>2. ASSUME At(t, "bulk"), At(u, "bulk") PROVE t = u
  BY <1>2 DEF IInv, LockInv, BulkLockInv, BulkLocked
<1> QED
  BY <1>1, <1>2

\* What each step does to what is in the queues and to their order.
Adds(s, r, e) == /\ ToSet(r) = ToSet(s) \cup {e} /\ e \notin ToSet(s) /\ Injective(r)
                 /\ \A a, b : Before(r, a, b) <=> Before(s, a, b) \/ (a \in ToSet(s) /\ b = e)
Takes(s, r, e) == /\ e \in ToSet(s) /\ ToSet(r) = ToSet(s) \ {e} /\ Injective(r)
                  /\ \A a, b : Before(r, a, b) <=> Before(s, a, b) /\ a # e
                  /\ \A a \in ToSet(r) : Before(s, e, a)
                  /\ \A a : ~Before(s, a, e)

LEMMA QueuesAre ==
  ASSUME TypeOK, IInv
  PROVE  /\ Injective(toVC) /\ Injective(expect) /\ Injective(bulkTx) /\ Injective(toHost)
         /\ Injective(bulkRx) /\ Injective(cbq)
         /\ toVC \in Seq(ToVC) /\ expect \in Seq(ToVC) /\ bulkTx \in Seq(Buffers \cup Callers)
         /\ toHost \in Seq(FromVC) /\ bulkRx \in Seq(Buffers) /\ cbq \in Seq(Buffers)
         /\ ToSet(bulkTx) \subseteq Buffers \cup Callers /\ ToSet(bulkRx) \subseteq Buffers
         /\ ToSet(cbq) \subseteq Buffers
<1>1. /\ toVC \in Seq(ToVC) /\ expect \in Seq(ToVC) /\ bulkTx \in Seq(Buffers \cup Callers)
      /\ toHost \in Seq(FromVC) /\ bulkRx \in Seq(Buffers) /\ cbq \in Seq(Buffers)
  BY DEF TypeOK, QueueType, HostType
<1> QED
  BY <1>1, QueueIs DEF IInv, QueueInv

LEMMA TakeIs ==
  ASSUME TypeOK, IInv, VcTake
  PROVE  \E m \in ToSet(toVC) :
           /\ Takes(toVC, toVC', m) /\ UNCHANGED <<bulkTx, toHost>>
           /\ \/ Announces(m) /\ Adds(expect, expect', m) /\ UNCHANGED <<vcHas, jobs>>
              \/ /\ ~Announces(m) /\ UNCHANGED <<expect, jobs>>
                 /\ \E b \in Buffers : m = Send(b) /\ vcHas' = vcHas \cup {b}
              \/ /\ ~Announces(m) /\ UNCHANGED <<expect, vcHas>>
                 /\ \E t \in Callers : Asking(t) /\ m = Ask(t) /\ jobs' = jobs \cup {m}
<1> DEFINE m == Head(toVC)
<1>1. toVC # <<>> /\ toVC' = Tail(toVC) /\ UNCHANGED <<bulkTx, toHost>>
  BY DEF VcTake
<1>2. Takes(toVC, toVC', m)
  BY <1>1, QueuesAre, TailIs DEF Takes
<1>3. m \in ToSet(toVC)
  BY <1>2 DEF Takes
<1>4. \/ Announces(m) /\ expect' = Append(expect, m) /\ UNCHANGED <<vcHas, jobs>>
      \/ ~Announces(m) /\ m.op = "buffer" /\ vcHas' = vcHas \cup {m.buf} /\ UNCHANGED <<expect, jobs>>
      \/ ~Announces(m) /\ m.op # "buffer" /\ jobs' = jobs \cup {m} /\ UNCHANGED <<expect, vcHas>>
  BY DEF VcTake
<1> HIDE DEF m
<1>5. m \in ToVC /\ m \notin ToSet(expect)
  <2>1. m \in ToVC
    BY <1>3, MessageOf
  <2>2. CASE \E b \in Buffers : m = Send(b)
    <3>1. PICK b \in Buffers : m = Send(b)
      BY <2>2
    <3>2. PlaceInv
      BY DEF IInv
    <3> QED
      BY <1>3, <2>1, <3>1, <3>2, OnePlace
  <2>3. CASE \E t \in Callers : Asking(t) /\ m = Ask(t)
    <3>1. PICK t \in Callers : Asking(t) /\ m = Ask(t)
      BY <2>3
    <3>2. RequestInv
      BY DEF IInv
    <3> QED
      BY <1>3, <2>1, <3>1, <3>2, OneAnswer
  <2> QED
    BY <1>3, <2>1, <2>2, <2>3, MessageOf
<1>6. expect' = Append(expect, m) => Adds(expect, expect', m)
  BY <1>5, QueuesAre, AppendIs DEF Adds
<1>7. m.op = "buffer" => m.buf \in Buffers /\ m = Send(m.buf)
  BY <1>5, MessageIs
<1>8. m.op # "buffer" => \E t \in Callers : Asking(t) /\ m = Ask(t)
  BY <1>3, MessageOf, MessageIs
<1> QED
  BY <1>1, <1>2, <1>3, <1>4, <1>6, <1>7, <1>8

LEMMA BulkIs ==
  ASSUME TypeOK, IInv, VcBulk
  PROVE  \E m \in ToSet(expect) :
           /\ Takes(expect, expect', m) /\ Takes(bulkTx, bulkTx', Head(bulkTx))
           /\ UNCHANGED <<toVC, toHost>>
           /\ \/ UNCHANGED jobs /\ \E b \in Buffers : m = Send(b) /\ vcHas' = vcHas \cup {b}
              \/ /\ UNCHANGED vcHas
                 /\ \E t \in Callers : Asking(t) /\ m = Ask(t) /\ jobs' = jobs \cup {m}
<1> DEFINE m == Head(expect)
<1>1. /\ expect # <<>> /\ bulkTx # <<>> /\ expect' = Tail(expect) /\ bulkTx' = Tail(bulkTx)
      /\ UNCHANGED <<toVC, toHost>>
  BY DEF VcBulk
<1>2. Takes(expect, expect', m) /\ Takes(bulkTx, bulkTx', Head(bulkTx))
  BY <1>1, QueuesAre, TailIs DEF Takes
<1>3. m \in ToSet(expect)
  BY <1>2 DEF Takes
<1>4. \/ m.op = "buffer" /\ vcHas' = vcHas \cup {m.buf} /\ UNCHANGED jobs
      \/ m.op # "buffer" /\ jobs' = jobs \cup {m} /\ UNCHANGED vcHas
  BY DEF VcBulk
<1> HIDE DEF m
<1>5. m.op = "buffer" => m.buf \in Buffers /\ m = Send(m.buf)
  BY <1>3, MessageOf, MessageIs
<1>6. m.op # "buffer" => \E t \in Callers : Asking(t) /\ m = Ask(t)
  BY <1>3, MessageOf, MessageIs
<1> QED
  BY <1>1, <1>2, <1>3, <1>4, <1>5, <1>6

LEMMA VcReturnIs ==
  ASSUME TypeOK, IInv, VcReturn
  PROVE  \E b \in vcHas, e \in FromVC :
            /\ b \in Buffers /\ vcHas' = vcHas \ {b} /\ Adds(toHost, toHost', e)
            /\ e = IF PortOf[b] \in Inputs THEN Plain(b) ELSE Data(b)
            /\ UNCHANGED <<expect, jobs, toVC, bulkTx>>
<1>1. PICK b \in vcHas, e \in FromVC :
            /\ vcHas' = vcHas \ {b} /\ toHost' = Append(toHost, e)
            /\ e = IF PortOf[b] \in Inputs THEN Plain(b) ELSE Data(b)
  BY ReturnedIs
<1>2. b \in Buffers
  BY DEF TypeOK, QueueType
<1>3. e \notin ToSet(toHost)
  BY <1>1, <1>2, OnePlace DEF IInv
<1>4. Adds(toHost, toHost', e)
  BY <1>1, <1>3, QueuesAre, AppendIs DEF Adds
<1> QED
  BY <1>1, <1>2, <1>4 DEF VcReturn

LEMMA HostReplyIs ==
  ASSUME TypeOK, IInv, HostReply
  PROVE  \E t \in Callers :
            /\ Asking(t) /\ Takes(toHost, toHost', Reply(t)) /\ call[t].w \in Waiters
            /\ replied' = [replied EXCEPT ![call[t].w] = 1] /\ UNCHANGED <<expect, vcHas, jobs>>
<1> DEFINE m == Head(toHost)
<1>1. Takes(toHost, toHost', m)
  BY QueuesAre, TailIs DEF Takes, HostReply
<1>2. m \in ToSet(toHost) /\ m.op = "reply"
  BY <1>1 DEF Takes, HostReply
<1>3. /\ m.who \in Callers /\ Asking(m.who) /\ m = Reply(m.who) /\ m.w = call[m.who].w
      /\ m.w \in Waiters /\ replied[m.w] = 0
  BY <1>2, ReplyAllows
<1>4. replied' = [replied EXCEPT ![m.w] = @ + 1] /\ UNCHANGED <<expect, vcHas, jobs>>
  BY DEF HostReply
<1> HIDE DEF m
<1>5. replied' = [replied EXCEPT ![m.w] = 1]
  BY <1>3, <1>4
<1> QED
  BY <1>1, <1>3, <1>4, <1>5

LEMMA HostBufferIs ==
  ASSUME TypeOK, IInv, HostBuffer
  PROVE  \E b \in Buffers :
            /\ \/ /\ Takes(toHost, toHost', Data(b)) /\ Adds(bulkRx, bulkRx', b)
                  /\ UNCHANGED <<host, ctx>>
               \/ /\ Takes(toHost, toHost', Plain(b)) /\ host = Nobody /\ host' = b
                  /\ ctx' = [ctx EXCEPT ![PortOf[b]] = @ + 1] /\ UNCHANGED bulkRx
            /\ UNCHANGED <<expect, vcHas, jobs, mine, cbq>>
<1> DEFINE m == Head(toHost)
<1>1. Takes(toHost, toHost', m)
  BY QueuesAre, TailIs DEF Takes, HostBuffer
<1>2. m \in ToSet(toHost) /\ m.op = "buffer"
  BY <1>1 DEF Takes, HostBuffer
<1>3. /\ \/ m.bulk /\ bulkRx' = Append(bulkRx, m.buf) /\ UNCHANGED <<host, ctx>>
         \/ /\ ~m.bulk /\ host = Nobody /\ host' = m.buf
            /\ ctx' = [ctx EXCEPT ![PortOf[m.buf]] = @ + 1] /\ UNCHANGED bulkRx
      /\ UNCHANGED <<expect, vcHas, jobs, mine, cbq>>
  BY DEF HostBuffer, FreeContext, Free
<1> HIDE DEF m
<1>4. m.buf \in Buffers /\ m = IF m.bulk THEN Data(m.buf) ELSE Plain(m.buf)
  BY <1>2, ReplyOf
<1>5. m.bulk => m.buf \notin ToSet(bulkRx)
  BY <1>2, <1>4, OnePlace DEF IInv
<1>6. bulkRx' = Append(bulkRx, m.buf) /\ m.bulk => Adds(bulkRx, bulkRx', m.buf)
  BY <1>4, <1>5, QueuesAre, AppendIs DEF Adds
<1> QED
  BY <1>1, <1>3, <1>4, <1>6

LEMMA HostBulkIs ==
  ASSUME TypeOK, IInv, HostBulk
  PROVE  \E b \in Buffers :
            /\ Takes(bulkRx, bulkRx', b) /\ host = Nobody /\ host' = b
            /\ ctx' = [ctx EXCEPT ![PortOf[b]] = @ + 1]
            /\ UNCHANGED <<toHost, expect, vcHas, jobs, mine, cbq>>
<1>1. Takes(bulkRx, bulkRx', Head(bulkRx))
  BY QueuesAre, TailIs DEF Takes, HostBulk
<1>2. Head(bulkRx) \in Buffers
  BY <1>1, QueuesAre DEF Takes
<1> QED
  BY <1>1, <1>2 DEF HostBulk, FreeContext, Free

LEMMA HostQueueIs ==
  ASSUME TypeOK, IInv, HostQueue
  PROVE  /\ host \in Buffers /\ host' = Nobody /\ Adds(cbq, cbq', host) /\ trigger'
         /\ UNCHANGED <<bulkRx, toHost, expect, vcHas, jobs, mine, ctx>>
<1>1. host \in Buffers
  BY DEF HostQueue, Free, TypeOK, HostType
<1>2. host \notin ToSet(cbq)
  BY <1>1, OnePlace DEF IInv
<1>3. Adds(cbq, cbq', host)
  BY <1>1, <1>2, QueuesAre, AppendIs DEF HostQueue, Adds
<1> QED
  BY <1>1, <1>3 DEF HostQueue

LEMMA DeliverIs ==
  ASSUME TypeOK, IInv, ActionDeliver \/ \E t \in Callers : DrainOne(t)
  PROVE  \E b \in Buffers :
            /\ Takes(cbq, cbq', b) /\ mine' = mine \cup {b}
            /\ UNCHANGED <<call, host, bulkRx, toHost, toVC, bulkTx, expect, vcHas, jobs, ctx, replied>>
<1>0. cbq # <<>> /\ cbq' = Tail(cbq)
  BY DEF ActionDeliver, DrainOne
<1>1. Takes(cbq, cbq', Head(cbq))
  BY <1>0, QueuesAre, TailIs DEF Takes
<1>2. Head(cbq) \in Buffers
  BY <1>1, QueuesAre DEF Takes
<1> QED
  BY <1>1, <1>2 DEF ActionDeliver, DrainOne

LEMMA SentIs ==
  ASSUME TypeOK, IInv, NEW t \in Callers, SendMessage(t)
  PROVE  /\ call[t].buf \in Buffers /\ call[t].at = "message" /\ call[t].op = "send"
         /\ Adds(toVC, toVC', Send(call[t].buf)) /\ UNCHANGED <<bulkTx, toHost>>
<1>1. call[t].buf \in Buffers /\ call[t].at = "message" /\ call[t].op = "send"
  BY CallerIs DEF SendMessage, At
<1>2. Carried(call[t].buf)
  BY <1>1 DEF Carried, At
<1>3. Send(call[t].buf) \in ToVC /\ Send(call[t].buf) \notin ToSet(toVC)
  BY <1>1, <1>2, OnePlace, MessageIs DEF IInv
<1>4. toVC' = Append(toVC, Send(call[t].buf)) /\ UNCHANGED <<bulkTx, toHost>>
  BY DEF SendMessage
<1>5. Adds(toVC, toVC', Send(call[t].buf))
  BY <1>3, <1>4, QueuesAre, AppendIs DEF Adds
<1> QED
  BY <1>1, <1>4, <1>5

LEMMA AskedIs ==
  ASSUME TypeOK, IInv, NEW t \in Callers, AskVC(t)
  PROVE  /\ Adds(toVC, toVC', Ask(t)) /\ Holding(t) /\ ~Asking(t)
         /\ UNCHANGED <<bulkTx, toHost, replied>>
         /\ Ask(t) \notin ToSet(expect) /\ Ask(t) \notin jobs /\ Reply(t) \notin ToSet(toHost)
         /\ replied[call[t].w] # 1
<1>1. Holding(t) /\ ~Asking(t) /\ call[t].w \in Waiters
  BY CallerIs DEF AskVC, Holding, Asking, At
<1>2. /\ Ask(t) \in ToVC /\ Ask(t).op # "buffer" /\ Ask(t).who = t
      /\ Reply(t).op = "reply" /\ Reply(t).who = t
  BY <1>1, AskIs
<1>3. /\ Ask(t) \notin ToSet(toVC) /\ Ask(t) \notin ToSet(expect) /\ Ask(t) \notin jobs
      /\ Reply(t) \notin ToSet(toHost)
  BY <1>1, <1>2 DEF IInv, RequestInv
<1>4. toVC' = Append(toVC, Ask(t)) /\ UNCHANGED <<bulkTx, toHost, replied>>
  BY DEF AskVC
<1>5. Adds(toVC, toVC', Ask(t))
  BY <1>2, <1>3, <1>4, QueuesAre, AppendIs DEF Adds
<1>6. replied[call[t].w] # 1
  <2>1. ASSUME NEW u \in Callers, Asking(u), call[u].w = call[t].w PROVE FALSE
    BY <1>1, <2>1, HolderIs DEF Holding
  <2> QED
    BY <1>1, <2>1 DEF IInv, WaiterInv
<1> QED
  BY <1>1, <1>3, <1>4, <1>5, <1>6

LEMMA BulkSentIs ==
  ASSUME TypeOK, IInv, NEW t \in Callers, SendBulk(t) \/ DummyBulk(t)
  PROVE  LET k == IF call[t].op = "send" THEN call[t].buf ELSE t
         IN /\ At(t, "bulk") /\ Pending(k) /\ k \in Buffers \cup Callers /\ Adds(bulkTx, bulkTx', k)
            /\ call'[t].at \in {"idle", "reply"} /\ UNCHANGED <<toVC, toHost>>
<1> DEFINE k == IF call[t].op = "send" THEN call[t].buf ELSE t
<1>1. At(t, "bulk") /\ bulkTx' = Append(bulkTx, k) /\ UNCHANGED <<toVC, toHost>>
  BY DEF SendBulk, DummyBulk
<1>2. Pending(k)
  BY <1>1 DEF Pending
<1>3. k \in Buffers \cup Callers
  BY CallerIs
<1> HIDE DEF k
<1>4. k \notin ToSet(bulkTx)
  BY <1>2 DEF IInv, TransferInv
<1>5. Adds(bulkTx, bulkTx', k)
  BY <1>1, <1>3, <1>4, QueuesAre, AppendIs DEF Adds
<1>6. call'[t].at \in {"idle", "reply"}
  BY CallSteps DEF Goes, Ends
<1> QED
  BY <1>1, <1>2, <1>3, <1>5, <1>6 DEF k

LEMMA QueueStep ==
  ASSUME TypeOK, IInv, [Next]_vars
  PROVE  QueueInv'
<1>1. Injective(toVC')
  <2>1. ASSUME NEW t \in Callers, SendMessage(t) PROVE Injective(toVC')
    BY <2>1, SentIs DEF Adds
  <2>2. ASSUME NEW t \in Callers, AskVC(t) PROVE Injective(toVC')
    BY <2>2, AskedIs DEF Adds
  <2>3. ASSUME VcTake PROVE Injective(toVC')
    BY <2>3, TakeIs DEF Takes
  <2> QED
    BY NextCases, QuietKeeps, MovesKeep, ElsewhereKeeps, QueuesAre, <2>1, <2>2, <2>3
<1>2. Injective(bulkTx')
  <2>1. ASSUME NEW t \in Callers, SendBulk(t) \/ DummyBulk(t) PROVE Injective(bulkTx')
    BY <2>1, BulkSentIs DEF Adds
  <2>2. ASSUME VcBulk PROVE Injective(bulkTx')
    BY <2>2, BulkIs DEF Takes
  <2> QED
    BY NextCases, QuietKeeps, MovesKeep, ElsewhereKeeps, QueuesAre, <2>1, <2>2
<1>3. Injective(expect') /\ \A m \in ToSet(expect') : Announces(m)
  <2>1. Injective(expect) /\ \A m \in ToSet(expect) : Announces(m)
    BY DEF IInv, QueueInv
  <2>2. ASSUME VcTake PROVE Injective(expect') /\ \A m \in ToSet(expect') : Announces(m)
    BY <2>1, <2>2, TakeIs DEF Adds
  <2>3. ASSUME VcBulk PROVE Injective(expect') /\ \A m \in ToSet(expect') : Announces(m)
    BY <2>1, <2>3, BulkIs DEF Takes
  <2>4. expect' = expect \/ VcTake \/ VcBulk
    BY NextCases, QuietKeeps, MovesKeep, ElsewhereKeeps DEF VcReturn, VcAnswer
  <2> QED
    BY <2>1, <2>2, <2>3, <2>4
<1>4. Injective(toHost')
  <2>1. ASSUME VcReturn PROVE Injective(toHost')
    BY <2>1, VcReturnIs DEF Adds
  <2>2. ASSUME VcAnswer PROVE Injective(toHost')
    BY <2>2, AnsweredIs
  <2>3. ASSUME HostReply PROVE Injective(toHost')
    BY <2>3, HostReplyIs DEF Takes
  <2>4. ASSUME HostBuffer PROVE Injective(toHost')
    BY <2>4, HostBufferIs DEF Takes
  <2> QED
    BY NextCases, QuietKeeps, MovesKeep, ElsewhereKeeps, QueuesAre, <2>1, <2>2, <2>3, <2>4
<1>5. Injective(bulkRx')
  <2>1. ASSUME HostBuffer PROVE Injective(bulkRx')
    BY <2>1, HostBufferIs, QueuesAre DEF Adds
  <2>2. ASSUME HostBulk PROVE Injective(bulkRx')
    BY <2>2, HostBulkIs DEF Takes
  <2>3. ASSUME HostQueue PROVE Injective(bulkRx')
    BY <2>3, HostQueueIs, QueuesAre
  <2> QED
    BY NextCases, QuietKeeps, MovesKeep, ElsewhereKeeps, QueuesAre, <2>1, <2>2, <2>3
<1>6. Injective(cbq')
  <2>1. ASSUME HostQueue PROVE Injective(cbq')
    BY <2>1, HostQueueIs DEF Adds
  <2>2. ASSUME ActionDeliver \/ \E t \in Callers : DrainOne(t) PROVE Injective(cbq')
    BY <2>2, DeliverIs DEF Takes
  <2> QED
    BY NextCases, QuietKeeps, MovesKeep, ElsewhereKeeps, QueuesAre, <2>1, <2>2
<1> QED
  BY <1>1, <1>2, <1>3, <1>4, <1>5, <1>6 DEF QueueInv

\* Requests that only move, or are answered.
LEMMA RequestKeeps ==
  ASSUME TypeOK, IInv,
         \A u \in Callers : Asking(u)' <=> Asking(u),
         \A u \in Callers : Asking(u) => Ask(u)' = Ask(u) /\ Reply(u)' = Reply(u)
                                         /\ call'[u].w = call[u].w,
         \A m \in ToSet(toVC') \cup ToSet(expect') \cup jobs' :
           m.op # "buffer" => m \in ToSet(toVC) \cup ToSet(expect) \cup jobs,
         \A m \in ToSet(toHost') : m.op = "reply" =>
           m \in ToSet(toHost) \/ \E u \in Callers : Asking(u) /\ m = Reply(u),
         \A u \in Callers : Asking(u) =>
           One(Ask(u) \in ToSet(toVC')) + One(Ask(u) \in ToSet(expect')) + One(Ask(u) \in jobs')
             + One(Reply(u) \in ToSet(toHost')) + One(replied'[call[u].w] = 1) = 1
  PROVE  RequestInv'
<1>1. ASSUME NEW m \in ToSet(toVC') \cup ToSet(expect') \cup jobs', m.op # "buffer"
      PROVE  Asking(m.who)' /\ m = Ask(m.who)'
  <2>1. m \in ToSet(toVC) \cup ToSet(expect) \cup jobs
    BY <1>1
  <2>2. Asking(m.who) /\ m = Ask(m.who) /\ m.who \in Callers
    BY <1>1, <2>1, MessageOf, MessageIs DEF IInv, RequestInv
  <2> QED
    BY <2>2
<1>2. ASSUME NEW m \in ToSet(toHost'), m.op = "reply"
      PROVE  Asking(m.who)' /\ m = Reply(m.who)'
  <2>1. Asking(m.who) /\ m = Reply(m.who) /\ m.who \in Callers
    <3>1. CASE m \in ToSet(toHost)
      BY <1>2, <3>1, ReplyAllows
    <3>2. CASE \E u \in Callers : Asking(u) /\ m = Reply(u)
      BY <3>2 DEF Reply
    <3> QED
      BY <1>2, <3>1, <3>2
  <2> QED
    BY <2>1
<1> QED
  BY <1>1, <1>2 DEF RequestInv

\* A header's message is no request, and what the VideoCore sends back no reply.
LEMMA MessagesDiffer ==
  ASSUME TypeOK, IInv, NEW b \in Buffers, NEW t \in Callers, Holding(t)
  PROVE  Ask(t) # Send(b) /\ Reply(t) # Data(b) /\ Reply(t) # Plain(b)
<1>1. Ask(t).op # "buffer" /\ Reply(t).op = "reply"
  BY AskIs
<1>2. Send(b).op = "buffer" /\ Data(b).op = "buffer" /\ Plain(b).op = "buffer"
  BY MessageIs, ReplyIs
<1> QED
  BY <1>1, <1>2

\* The requests of two callers differ.
LEMMA AsksDiffer ==
  ASSUME TypeOK, IInv, NEW t \in Callers, NEW u \in Callers, t # u
  PROVE  Ask(t) # Ask(u) /\ Reply(t) # Reply(u)
BY DEF Ask, Reply

LEMMA RequestStep ==
  ASSUME TypeOK, IInv, [Next]_vars
  PROVE  RequestInv'
<1>1. /\ \A m \in ToSet(toVC) \cup ToSet(expect) \cup jobs : m.op # "buffer" =>
           Asking(m.who) /\ m = Ask(m.who) /\ m.who \in Callers
      /\ \A m \in ToSet(toHost) : m.op = "reply" =>
           Asking(m.who) /\ m = Reply(m.who) /\ m.who \in Callers
      /\ \A t \in Callers : Asking(t) =>
           One(Ask(t) \in ToSet(toVC)) + One(Ask(t) \in ToSet(expect)) + One(Ask(t) \in jobs)
             + One(Reply(t) \in ToSet(toHost)) + One(replied[call[t].w] = 1) = 1
  BY MessageOf, MessageIs, ReplyAllows DEF IInv, RequestInv
<1>2. \A t \in Callers : Asking(t) => Holding(t) /\ call[t].w \in Waiters
  BY CallerIs DEF Holding
<1>3. ASSUME NEW t \in Callers, Quiet(t) \/ Moves(t), ~AskVC(t), ~Wake(t) PROVE RequestInv'
  <2>1. /\ \A u \in Callers : Asking(u)' <=> Asking(u)
        /\ \A u \in Callers : Asking(u) => Ask(u)' = Ask(u) /\ Reply(u)' = Reply(u)
                                           /\ call'[u].w = call[u].w
    <3>1. Others(t) /\ (Asking(t)' <=> Asking(t)) /\ (Asking(t) => Same(t))
      BY <1>3, OpSteps, AskingSteps
    <3> QED
      BY <3>1, SameAsk DEF Others, Same, Asking, At
  <2>2. UNCHANGED <<expect, jobs, toHost, replied>>
    BY <1>3, QuietKeeps, MovesKeep
  <2>3. toVC' = toVC \/ \E b \in Buffers : ToSet(toVC') = ToSet(toVC) \cup {Send(b)}
    BY <1>3, QuietKeeps, MovesKeep, SentIs DEF Adds
  <2>4. ASSUME NEW m, m.op # "buffer" PROVE m \in ToSet(toVC') <=> m \in ToSet(toVC)
    <3>1. \A b \in Buffers : Send(b).op = "buffer"
      BY MessageIs
    <3>2. \A b \in Buffers : m # Send(b)
      BY <2>4, <3>1
    <3> QED
      BY <2>3, <3>2
  <2>5. \A u \in Callers : Asking(u) => (Ask(u) \in ToSet(toVC') <=> Ask(u) \in ToSet(toVC))
    BY <1>2, <2>4, AskIs
  <2> QED
    BY <1>1, <2>1, <2>2, <2>4, <2>5, RequestKeeps
<1>4. ASSUME NEW t \in Callers, AskVC(t) PROVE RequestInv'
  <2>1. /\ Others(t) /\ Asking(t)' /\ Ask(t)' = Ask(t) /\ Reply(t)' = Reply(t)
        /\ call'[t].w = call[t].w
    BY <1>4, OpSteps, AskingSteps, SameAsk DEF Moves, Same
  <2>2. /\ \A u \in Callers : Asking(u)' <=> (Asking(u) \/ u = t)
        /\ \A u \in Callers : Ask(u)' = Ask(u) /\ Reply(u)' = Reply(u) /\ call'[u].w = call[u].w
    BY <2>1 DEF Others, Asking, Ask, Reply, At
  <2>3. /\ ToSet(toVC') = ToSet(toVC) \cup {Ask(t)} /\ Holding(t) /\ ~Asking(t)
        /\ UNCHANGED <<toHost, replied>>
        /\ Ask(t) \notin ToSet(expect) /\ Ask(t) \notin jobs /\ Reply(t) \notin ToSet(toHost)
        /\ replied[call[t].w] # 1
    BY <1>4, AskedIs DEF Adds
  <2>4. UNCHANGED <<expect, jobs>>
    BY <1>4, MovesKeep DEF Moves
  <2>5. ASSUME NEW m \in ToSet(toVC') \cup ToSet(expect') \cup jobs', m.op # "buffer"
        PROVE  Asking(m.who)' /\ m = Ask(m.who)'
    <3>1. CASE m = Ask(t)
      BY <2>2, <2>3, <3>1, AskIs
    <3>2. CASE m # Ask(t)
      BY <1>1, <2>2, <2>3, <2>4, <2>5, <3>2
    <3> QED
      BY <3>1, <3>2
  <2>6. ASSUME NEW m \in ToSet(toHost'), m.op = "reply"
        PROVE  Asking(m.who)' /\ m = Reply(m.who)'
    BY <1>1, <2>2, <2>3, <2>6
  <2>7. ASSUME NEW u \in Callers, Asking(u)'
        PROVE  One(Ask(u)' \in ToSet(toVC')) + One(Ask(u)' \in ToSet(expect'))
                 + One(Ask(u)' \in jobs') + One(Reply(u)' \in ToSet(toHost'))
                 + One(replied'[call'[u].w] = 1) = 1
    <3>1. CASE u = t
      BY <2>2, <2>3, <2>4, <3>1 DEF One
    <3>2. CASE u # t
      <4>1. Asking(u) /\ Ask(u) # Ask(t)
        BY <2>2, <2>7, <3>2, AsksDiffer
      <4>2. Ask(u) \in ToSet(toVC') <=> Ask(u) \in ToSet(toVC)
        BY <2>3, <4>1
      <4> QED
        BY <1>1, <2>2, <2>3, <2>4, <4>1, <4>2
    <3> QED
      BY <3>1, <3>2
  <2> QED
    BY <2>5, <2>6, <2>7 DEF RequestInv
<1>5. ASSUME NEW t \in Callers, Wake(t) PROVE RequestInv'
  <2>1. Others(t) /\ Asking(t) /\ ~Asking(t)'
    BY <1>5, OpSteps, AskingSteps DEF Moves
  <2>2. /\ \A u \in Callers : Asking(u)' <=> (Asking(u) /\ u # t)
        /\ \A u \in Callers \ {t} : Ask(u)' = Ask(u) /\ Reply(u)' = Reply(u) /\ call'[u].w = call[u].w
    BY <2>1 DEF Others, Asking, Ask, Reply, At
  <2>3. /\ UNCHANGED <<toVC, expect, jobs, toHost>>
        /\ replied[call[t].w] > 0 /\ replied' = [replied EXCEPT ![call[t].w] = @ - 1]
    BY <1>5 DEF Wake
  <2>4. /\ Ask(t) \notin ToSet(toVC) /\ Ask(t) \notin ToSet(expect) /\ Ask(t) \notin jobs
        /\ Reply(t) \notin ToSet(toHost)
    <3>1. replied[call[t].w] = 1
      BY <1>2, <2>1, <2>3 DEF TypeOK, WaitType
    <3> QED
      BY <2>1, <3>1, OneAnswer DEF IInv
  <2>5. ASSUME NEW m \in ToSet(toVC') \cup ToSet(expect') \cup jobs', m.op # "buffer"
        PROVE  Asking(m.who)' /\ m = Ask(m.who)'
    BY <1>1, <2>2, <2>3, <2>4, <2>5
  <2>6. ASSUME NEW m \in ToSet(toHost'), m.op = "reply"
        PROVE  Asking(m.who)' /\ m = Reply(m.who)'
    BY <1>1, <2>2, <2>3, <2>4, <2>6
  <2>7. ASSUME NEW u \in Callers, Asking(u)'
        PROVE  One(Ask(u)' \in ToSet(toVC')) + One(Ask(u)' \in ToSet(expect'))
                 + One(Ask(u)' \in jobs') + One(Reply(u)' \in ToSet(toHost'))
                 + One(replied'[call'[u].w] = 1) = 1
    <3>1. Asking(u) /\ u # t /\ call[u].w # call[t].w
      BY <1>2, <2>1, <2>2, <2>7, HolderIs
    <3>2. replied'[call[u].w] = replied[call[u].w]
      BY <1>2, <2>3, <3>1 DEF TypeOK, WaitType
    <3> QED
      BY <1>1, <2>2, <2>3, <3>1, <3>2
  <2> QED
    BY <2>5, <2>6, <2>7 DEF RequestInv
<1>6. ASSUME UNCHANGED call,
             \A m \in ToSet(toVC') \cup ToSet(expect') \cup jobs' :
               m.op # "buffer" => m \in ToSet(toVC) \cup ToSet(expect) \cup jobs,
             \A m \in ToSet(toHost') : m.op = "reply" =>
               m \in ToSet(toHost) \/ \E u \in Callers : Asking(u) /\ m = Reply(u),
             \A u \in Callers : Asking(u) =>
               One(Ask(u) \in ToSet(toVC')) + One(Ask(u) \in ToSet(expect')) + One(Ask(u) \in jobs')
                 + One(Reply(u) \in ToSet(toHost')) + One(replied'[call[u].w] = 1) = 1
      PROVE  RequestInv'
  <2>1. /\ \A u \in Callers : Asking(u)' <=> Asking(u)
        /\ \A u \in Callers : Asking(u) => Ask(u)' = Ask(u) /\ Reply(u)' = Reply(u)
                                           /\ call'[u].w = call[u].w
    BY <1>6 DEF Asking, At, Ask, Reply
  <2> QED
    BY <1>6, <2>1, RequestKeeps
<1>7. ASSUME VcTake, UNCHANGED <<call, replied>> PROVE RequestInv'
  <2>1. PICK m \in ToSet(toVC) :
           /\ ToSet(toVC') = ToSet(toVC) \ {m} /\ toHost' = toHost
           /\ \/ ToSet(expect') = ToSet(expect) \cup {m} /\ jobs' = jobs
              \/ expect' = expect /\ jobs' = jobs /\ \E b \in Buffers : m = Send(b)
              \/ expect' = expect /\ jobs' = jobs \cup {m}
    BY <1>7, TakeIs DEF Takes, Adds
  <2>2. ASSUME NEW u \in Callers, Asking(u)
        PROVE  One(Ask(u) \in ToSet(toVC')) + One(Ask(u) \in ToSet(expect')) + One(Ask(u) \in jobs')
                 + One(Reply(u) \in ToSet(toHost')) + One(replied'[call[u].w] = 1) = 1
    <3>1. CASE m = Ask(u)
      <4>1. ~\E b \in Buffers : m = Send(b)
        BY <1>2, <2>2, <3>1, MessagesDiffer
      <4>2. /\ Ask(u) \notin ToSet(expect) /\ Ask(u) \notin jobs
            /\ Reply(u) \notin ToSet(toHost) /\ replied[call[u].w] # 1
        BY <2>2, <3>1, OneAnswer DEF IInv
      <4> QED
        BY <1>7, <2>1, <3>1, <4>1, <4>2 DEF One
    <3>2. CASE m # Ask(u)
      <4>1. /\ Ask(u) \in ToSet(toVC') <=> Ask(u) \in ToSet(toVC)
            /\ Ask(u) \in ToSet(expect') <=> Ask(u) \in ToSet(expect)
            /\ Ask(u) \in jobs' <=> Ask(u) \in jobs
        BY <2>1, <3>2
      <4> QED
        BY <1>1, <1>7, <2>1, <2>2, <4>1
    <3> QED
      BY <3>1, <3>2
  <2> QED
    BY <1>6, <1>7, <2>1, <2>2
<1>8. ASSUME VcBulk, UNCHANGED <<call, replied>> PROVE RequestInv'
  <2>1. PICK m \in ToSet(expect) :
           /\ ToSet(expect') = ToSet(expect) \ {m} /\ toVC' = toVC /\ toHost' = toHost
           /\ \/ jobs' = jobs /\ \E b \in Buffers : m = Send(b)
              \/ jobs' = jobs \cup {m}
    BY <1>8, BulkIs DEF Takes
  <2>2. ASSUME NEW u \in Callers, Asking(u)
        PROVE  One(Ask(u) \in ToSet(toVC')) + One(Ask(u) \in ToSet(expect')) + One(Ask(u) \in jobs')
                 + One(Reply(u) \in ToSet(toHost')) + One(replied'[call[u].w] = 1) = 1
    <3>1. CASE m = Ask(u)
      <4>1. ~\E b \in Buffers : m = Send(b)
        BY <1>2, <2>2, <3>1, MessagesDiffer
      <4>2. /\ Ask(u) \notin ToSet(toVC) /\ Ask(u) \notin jobs
            /\ Reply(u) \notin ToSet(toHost) /\ replied[call[u].w] # 1
        BY <2>2, <3>1, OneAnswer DEF IInv
      <4> QED
        BY <1>8, <2>1, <3>1, <4>1, <4>2 DEF One
    <3>2. CASE m # Ask(u)
      <4>1. /\ Ask(u) \in ToSet(expect') <=> Ask(u) \in ToSet(expect)
            /\ Ask(u) \in jobs' <=> Ask(u) \in jobs
        BY <2>1, <3>2
      <4> QED
        BY <1>1, <1>8, <2>1, <2>2, <4>1
    <3> QED
      BY <3>1, <3>2
  <2> QED
    BY <1>6, <1>8, <2>1, <2>2
<1>9. ASSUME VcReturn, UNCHANGED <<call, replied>> PROVE RequestInv'
  <2>1. PICK b \in Buffers, e \in FromVC :
           /\ ToSet(toHost') = ToSet(toHost) \cup {e} /\ (e = Plain(b) \/ e = Data(b))
           /\ UNCHANGED <<expect, jobs, toVC>>
    BY <1>9, VcReturnIs DEF Adds
  <2>2. e.op = "buffer"
    BY <2>1, ReplyIs
  <2>3. \A u \in Callers : Asking(u) => (Reply(u) \in ToSet(toHost') <=> Reply(u) \in ToSet(toHost))
    BY <1>2, <2>1, MessagesDiffer
  <2> QED
    BY <1>1, <1>6, <1>9, <2>1, <2>2, <2>3
<1>10. ASSUME VcAnswer, UNCHANGED <<call, replied, expect, toVC>> PROVE RequestInv'
  <2>1. PICK t \in Callers, back \in SUBSET vcHas :
           /\ Asking(t) /\ Ask(t) \in jobs /\ jobs' = jobs \ {Ask(t)}
           /\ ToSet(toHost') = ToSet(toHost) \cup {Plain(b) : b \in back} \cup {Reply(t)}
    BY <1>10, AnsweredIs
  <2>2. back \subseteq Buffers
    BY DEF TypeOK, QueueType
  <2>3. \A m \in ToSet(toHost') : m.op = "reply" => m \in ToSet(toHost) \/ m = Reply(t)
    BY <2>1, <2>2, ReplyIs
  <2>4. ASSUME NEW u \in Callers, Asking(u)
        PROVE  One(Ask(u) \in ToSet(toVC')) + One(Ask(u) \in ToSet(expect')) + One(Ask(u) \in jobs')
                 + One(Reply(u) \in ToSet(toHost')) + One(replied'[call[u].w] = 1) = 1
    <3>1. CASE u = t
      <4>1. /\ Ask(u) \notin ToSet(toVC) /\ Ask(u) \notin ToSet(expect) /\ replied[call[u].w] # 1
        BY <2>1, <3>1, OneAnswer DEF IInv
      <4> QED
        BY <1>10, <2>1, <3>1, <4>1 DEF One
    <3>2. CASE u # t
      <4>1. Ask(u) # Ask(t) /\ Reply(u) # Reply(t) /\ \A b \in back : Reply(u) # Plain(b)
        BY <1>2, <2>2, <2>4, <3>2, AsksDiffer, MessagesDiffer
      <4>2. /\ Ask(u) \in jobs' <=> Ask(u) \in jobs
            /\ Reply(u) \in ToSet(toHost') <=> Reply(u) \in ToSet(toHost)
        BY <2>1, <4>1
      <4> QED
        BY <1>1, <1>10, <2>4, <4>2
    <3> QED
      BY <3>1, <3>2
  <2> QED
    BY <1>6, <1>10, <2>1, <2>3, <2>4
<1>11. ASSUME HostReply, UNCHANGED <<call, toVC>> PROVE RequestInv'
  <2>1. PICK t \in Callers :
            /\ Asking(t) /\ Takes(toHost, toHost', Reply(t)) /\ call[t].w \in Waiters
            /\ replied' = [replied EXCEPT ![call[t].w] = 1] /\ UNCHANGED <<expect, vcHas, jobs>>
    BY <1>11, HostReplyIs
  <2>2. ToSet(toHost') = ToSet(toHost) \ {Reply(t)} /\ Reply(t) \in ToSet(toHost)
    BY <2>1 DEF Takes
  <2>3. replied \in [Waiters -> {0, 1}]
    BY DEF TypeOK, WaitType
  <2>4. ASSUME NEW u \in Callers, Asking(u)
        PROVE  One(Ask(u) \in ToSet(toVC')) + One(Ask(u) \in ToSet(expect')) + One(Ask(u) \in jobs')
                 + One(Reply(u) \in ToSet(toHost')) + One(replied'[call[u].w] = 1) = 1
    <3>1. CASE u = t
      <4>1. /\ Ask(u) \notin ToSet(toVC) /\ Ask(u) \notin ToSet(expect) /\ Ask(u) \notin jobs
        BY <2>1, <2>2, <3>1, OneAnswer DEF IInv
      <4> QED
        BY <1>11, <2>1, <2>2, <2>3, <3>1, <4>1 DEF One
    <3>2. CASE u # t
      <4>1. Reply(u) # Reply(t) /\ call[u].w # call[t].w /\ call[u].w \in Waiters
        BY <1>2, <2>1, <2>4, <3>2, AsksDiffer, HolderIs
      <4>2. /\ replied'[call[u].w] = replied[call[u].w]
            /\ Reply(u) \in ToSet(toHost') <=> Reply(u) \in ToSet(toHost)
        BY <2>1, <2>2, <2>3, <4>1
      <4> QED
        BY <1>1, <1>11, <2>1, <2>4, <4>2
    <3> QED
      BY <3>1, <3>2
  <2> QED
    BY <1>6, <1>11, <2>1, <2>2, <2>4
<1>12. ASSUME HostBuffer, UNCHANGED <<call, toVC, replied>> PROVE RequestInv'
  <2>1. PICK b \in Buffers : \E e \in {Data(b), Plain(b)} : ToSet(toHost') = ToSet(toHost) \ {e}
    BY <1>12, HostBufferIs DEF Takes
  <2>2. \A u \in Callers : Asking(u) => (Reply(u) \in ToSet(toHost') <=> Reply(u) \in ToSet(toHost))
    BY <1>2, <2>1, MessagesDiffer
  <2>3. UNCHANGED <<expect, jobs>>
    BY <1>12, HostBufferIs
  <2> QED
    BY <1>1, <1>6, <1>12, <2>1, <2>2, <2>3
<1>13. ASSUME UNCHANGED <<call, toVC, toHost, replied, expect, jobs>> PROVE RequestInv'
  BY <1>1, <1>6, <1>13
<1>14. ASSUME Elsewhere \/ Aside PROVE RequestInv'
  <2>1. /\ UNCHANGED <<expect, vcHas, jobs>> \/ VcTake \/ VcBulk \/ VcReturn \/ VcAnswer
        /\ UNCHANGED toVC \/ VcTake
        /\ UNCHANGED toHost \/ VcReturn \/ VcAnswer \/ HostReply \/ HostBuffer
        /\ UNCHANGED replied \/ (HostReply /\ UNCHANGED call)
    BY <1>14, ElsewhereKeeps
  <2>2. /\ VcReturn => UNCHANGED <<toVC, expect, jobs, replied>>
        /\ VcAnswer => UNCHANGED <<toVC, expect, replied>>
        /\ VcTake => UNCHANGED replied
        /\ VcBulk => UNCHANGED replied
        /\ HostReply => UNCHANGED toVC
        /\ HostBuffer => UNCHANGED <<toVC, replied>>
    BY DEF VcReturn, VcAnswer, VcTake, VcBulk, HostReply, HostBuffer
  <2>3. call' = call
    BY <1>14, ElsewhereKeeps
  <2> QED
    BY <1>7, <1>8, <1>9, <1>10, <1>11, <1>12, <1>13, <2>1, <2>2, <2>3
<1> QED
  BY NextCases, <1>3, <1>4, <1>5, <1>14

-----------------------------------------------------------------------------
\* The header a thread carries is the one it sends.
LEMMA CarriedSteps ==
  ASSUME TypeOK, IInv, NEW t \in Callers, Quiet(t) \/ Moves(t)
  PROVE  /\ SendBegin(t) =>
              \/ UNCHANGED <<mine, ctx, sentData>> /\ \A c \in Buffers : Carried(c)' <=> Carried(c)
              \/ \E b \in mine :
                   /\ mine' = mine \ {b} /\ Carried(b)'
                   /\ ctx[PortOf[b]] > 0 /\ ctx' = [ctx EXCEPT ![PortOf[b]] = @ - 1]
                   /\ sentData' = [sentData EXCEPT ![PortOf[b]] = @ \/ PortOf[b] \in Inputs]
                   /\ \A c \in Buffers \ {b} : Carried(c)' <=> Carried(c)
         /\ SendMessage(t) \/ SendFails(t) =>
              \E b \in Buffers :
                 /\ b = call[t].buf /\ Carried(b) /\ ~Carried(b)'
                 /\ \A c \in Buffers \ {b} : Carried(c)' <=> Carried(c)
         /\ SendBegin(t) \/ SendMessage(t) \/ SendFails(t) \/ \A c \in Buffers : Carried(c)' <=> Carried(c)
<1>1. Others(t)
  BY OpSteps
<1>2. ASSUME NEW c \in Buffers, ~(At(t, "message") /\ call[t].buf = c),
             ~(At(t, "message")' /\ call'[t].buf = c)
      PROVE  Carried(c)' <=> Carried(c)
  BY <1>1, <1>2 DEF Others, Carried, At
<1>3. CASE SendBegin(t)
  <2>1. CASE /\ Begins(t, "none", Nobody, Nobody, "idle")
             /\ UNCHANGED <<sending, mine, ctx, sentData>>
    <3>1. ~At(t, "message") /\ ~At(t, "message")'
      BY <2>1 DEF Begins, At
    <3> QED
      BY <1>2, <2>1, <3>1, <1>3, CallSteps DEF SendMessage, SendFails
  <2>2. ASSUME NEW b \in mine,
               /\ Begins(t, "send", PortOf[b], b, "message") /\ mine' = mine \ {b}
               /\ ctx[PortOf[b]] > 0 /\ ctx' = [ctx EXCEPT ![PortOf[b]] = @ - 1]
               /\ sentData' = [sentData EXCEPT ![PortOf[b]] = @ \/ PortOf[b] \in Inputs]
        PROVE  /\ Carried(b)' /\ \A c \in Buffers \ {b} : Carried(c)' <=> Carried(c)
               /\ ~SendMessage(t) /\ ~SendFails(t)
    <3>1. ~At(t, "message") /\ At(t, "message")' /\ call'[t].buf = b
      BY <2>2 DEF Begins, At
    <3>2. Carried(b)'
      BY <3>1 DEF Carried
    <3>3. \A c \in Buffers \ {b} : Carried(c)' <=> Carried(c)
      BY <1>2, <3>1
    <3> QED
      BY <3>1, <3>2, <3>3 DEF SendMessage, SendFails
  <2>3. \/ Begins(t, "none", Nobody, Nobody, "idle") /\ UNCHANGED <<sending, mine, ctx, sentData>>
        \/ \E b \in mine :
             /\ Begins(t, "send", PortOf[b], b, "message") /\ Usable /\ on[PortOf[b]]
             /\ sending[PortOf[b]] = Nobody
             /\ sending' = [sending EXCEPT ![PortOf[b]] = t] /\ mine' = mine \ {b}
             /\ ctx[PortOf[b]] > 0 /\ ctx' = [ctx EXCEPT ![PortOf[b]] = @ - 1]
             /\ sentData' = [sentData EXCEPT ![PortOf[b]] = @ \/ PortOf[b] \in Inputs]
    BY <1>3, ChoiceSteps, Zenon
  <2>4. CASE \E b \in mine :
               /\ Begins(t, "send", PortOf[b], b, "message") /\ mine' = mine \ {b}
               /\ ctx[PortOf[b]] > 0 /\ ctx' = [ctx EXCEPT ![PortOf[b]] = @ - 1]
               /\ sentData' = [sentData EXCEPT ![PortOf[b]] = @ \/ PortOf[b] \in Inputs]
    <3>1. PICK b \in mine :
               /\ Begins(t, "send", PortOf[b], b, "message") /\ mine' = mine \ {b}
               /\ ctx[PortOf[b]] > 0 /\ ctx' = [ctx EXCEPT ![PortOf[b]] = @ - 1]
               /\ sentData' = [sentData EXCEPT ![PortOf[b]] = @ \/ PortOf[b] \in Inputs]
      BY <2>4
    <3>2. /\ Carried(b)' /\ \A c \in Buffers \ {b} : Carried(c)' <=> Carried(c)
          /\ ~SendMessage(t) /\ ~SendFails(t)
      BY <2>2, <3>1
    <3> QED
      BY <1>3, <3>1, <3>2
  <2> QED
    BY <2>1, <2>3, <2>4
<1>4. CASE SendMessage(t) \/ SendFails(t)
  <2>1. At(t, "message")
    BY <1>4 DEF SendMessage, SendFails
  <2>2. ~At(t, "message")'
    BY <1>4, CallSteps DEF Goes, Ends, At
  <2>3. PICK b \in Buffers : b = call[t].buf
    BY <2>1, CallerIs
  <2>4. Carried(b)
    BY <2>1, <2>3 DEF Carried
  <2>5. ~Carried(b)'
    <3>1. ASSUME NEW u \in Callers, At(u, "message")', call'[u].buf = b PROVE FALSE
      <4>1. u # t /\ call'[u] = call[u]
        BY <1>1, <2>2, <3>1 DEF Others
      <4>2. At(u, "message") /\ call[u].buf = call[t].buf
        BY <2>3, <3>1, <4>1 DEF At
      <4> QED
        BY <2>1, <4>1, <4>2, CarrierIs
    <3> QED
      BY <3>1 DEF Carried
  <2>6. \A c \in Buffers \ {b} : Carried(c)' <=> Carried(c)
    BY <1>2, <2>2, <2>3
  <2>7. ~SendBegin(t)
    BY <2>1 DEF SendBegin, Begin, At
  <2> QED
    BY <2>3, <2>4, <2>5, <2>6, <2>7, <1>4
<1>5. CASE ~SendBegin(t) /\ ~SendMessage(t) /\ ~SendFails(t)
  <2>1. ~At(t, "message") /\ ~At(t, "message")'
    <3>1. CASE Quiet(t)
      <4>1. CASE FlushChoose(t) \/ Pick(t) \/ AskFails(t) \/ Answered(t)
        BY <4>1, ChoiceSteps DEF Goes, Ends, Begins, At
      <4> QED
        BY <3>1, <4>1, CallSteps DEF Quiet, Goes, Ends, Begins, At
    <3>2. CASE Moves(t)
      BY <1>5, <3>2, CallSteps DEF Moves, Goes, Ends, Begins, At
    <3> QED
      BY <3>1, <3>2
  <2> QED
    BY <1>2, <1>5, <2>1
<1> QED
  BY <1>3, <1>4, <1>5

\* The messages about two headers differ.
LEMMA HeadersDiffer ==
  ASSUME NEW b \in Buffers, NEW c \in Buffers
  PROVE  /\ b # c => Send(b) # Send(c) /\ Data(b) # Data(c) /\ Plain(b) # Plain(c)
         /\ Data(b) # Plain(c)
<1>1. Send(b).buf = b /\ Send(c).buf = c
  BY MessageIs
<1>2. /\ Data(b).buf = b /\ Data(c).buf = c /\ Plain(b).buf = b /\ Plain(c).buf = c
      /\ Data(b).bulk /\ ~Plain(c).bulk
  BY ReplyIs
<1>3. Data(b) # Plain(c)
  BY <1>2
<1>4. b # c => Send(b) # Send(c)
  BY <1>1
<1>5. b # c => Data(b) # Data(c) /\ Plain(b) # Plain(c)
  BY <1>2
<1> QED
  BY <1>3, <1>4, <1>5

\* A header that a step does not move.
Unmoved(b) ==
  /\ b \in mine' <=> b \in mine
  /\ Carried(b)' <=> Carried(b)
  /\ Send(b) \in ToSet(toVC') <=> Send(b) \in ToSet(toVC)
  /\ Send(b) \in ToSet(expect') <=> Send(b) \in ToSet(expect)
  /\ b \in vcHas' <=> b \in vcHas
  /\ Data(b) \in ToSet(toHost') <=> Data(b) \in ToSet(toHost)
  /\ Plain(b) \in ToSet(toHost') <=> Plain(b) \in ToSet(toHost)
  /\ b \in ToSet(bulkRx') <=> b \in ToSet(bulkRx)
  /\ host' = b <=> host = b
  /\ b \in ToSet(cbq') <=> b \in ToSet(cbq)

LEMMA PlaceKeeps ==
  ASSUME IInv, NEW T \in SUBSET Buffers, \A b \in Buffers \ T : Unmoved(b), \A b \in T : Spread(b)' = 1
  PROVE  PlaceInv'
<1> SUFFICES ASSUME NEW b \in Buffers PROVE Spread(b)' = 1
  BY DEF PlaceInv
<1>1. CASE b \in T
  BY <1>1
<1>2. CASE b \notin T
  <2>1. Unmoved(b) /\ Spread(b) = 1
    BY <1>2 DEF IInv, PlaceInv
  <2> QED
    BY <2>1 DEF Unmoved, Spread, One
<1> QED
  BY <1>1, <1>2

LEMMA NoneMoves ==
  ASSUME IInv, \A b \in Buffers : Unmoved(b)
  PROVE  PlaceInv'
<1> DEFINE T == {}
<1>1. T \in SUBSET Buffers /\ (\A b \in Buffers \ T : Unmoved(b)) /\ \A b \in T : Spread(b)' = 1
  OBVIOUS
<1> HIDE DEF T
<1> QED
  BY <1>1, PlaceKeeps

LEMMA OneMoves ==
  ASSUME IInv, NEW b \in Buffers, \A c \in Buffers \ {b} : Unmoved(c), Spread(b)' = Spread(b)
  PROVE  PlaceInv'
<1> DEFINE T == {b}
<1>1. Spread(b) = 1
  BY DEF IInv, PlaceInv
<1>2. T \in SUBSET Buffers /\ (\A c \in Buffers \ T : Unmoved(c)) /\ \A c \in T : Spread(c)' = 1
  BY <1>1
<1> HIDE DEF T
<1> QED
  BY <1>2, PlaceKeeps

LEMMA CarriedKeeps ==
  ASSUME UNCHANGED call, NEW b
  PROVE  Carried(b)' <=> Carried(b)
BY DEF Carried, At

LEMMA CallerPlaces ==
  ASSUME TypeOK, IInv, NEW t \in Callers, Quiet(t) \/ Moves(t)
  PROVE  PlaceInv'
<1>1. /\ UNCHANGED <<host, bulkRx, expect, vcHas, toHost>>
      /\ UNCHANGED mine \/ SendBegin(t) \/ SendFails(t) \/ DrainOne(t)
      /\ UNCHANGED toVC \/ SendMessage(t) \/ AskVC(t)
      /\ UNCHANGED cbq \/ DrainOne(t)
  BY QuietKeeps, MovesKeep
<1>2. /\ SendBegin(t) => UNCHANGED <<toVC, cbq>>
      /\ SendFails(t) => UNCHANGED <<toVC, cbq>>
      /\ SendMessage(t) => UNCHANGED <<mine, cbq>>
      /\ AskVC(t) => UNCHANGED <<mine, cbq>>
      /\ DrainOne(t) => UNCHANGED <<call, toVC>>
  BY DEF SendBegin, SendFails, SendMessage, AskVC, DrainOne
<1>3. PlaceInv
  BY DEF IInv
<1>4. CASE SendBegin(t)
  <2>1. CASE UNCHANGED <<mine, ctx>> /\ \A c \in Buffers : Carried(c)' <=> Carried(c)
    <3>1. \A b \in Buffers : Unmoved(b)
      BY <1>1, <1>2, <1>4, <2>1 DEF Unmoved
    <3> QED
      BY <3>1, NoneMoves
  <2>2. CASE \E b \in mine : /\ mine' = mine \ {b} /\ Carried(b)'
                             /\ \A c \in Buffers \ {b} : Carried(c)' <=> Carried(c)
    <3>1. PICK b \in mine : /\ mine' = mine \ {b} /\ Carried(b)'
                            /\ \A c \in Buffers \ {b} : Carried(c)' <=> Carried(c)
      BY <2>2
    <3>2. b \in Buffers
      BY DEF TypeOK, PortType
    <3>3. \A c \in Buffers \ {b} : Unmoved(c)
      BY <1>1, <1>2, <1>4, <3>1 DEF Unmoved
    <3>4. ~Carried(b) /\ Spread(b) = 1
      BY <1>3, <3>2, OnePlace DEF PlaceInv
    <3>5. Spread(b)' = Spread(b)
      BY <1>1, <1>2, <1>4, <3>1, <3>4 DEF Spread, One
    <3> QED
      BY <3>2, <3>3, <3>5, OneMoves
  <2> QED
    BY <1>4, <2>1, <2>2, CarriedSteps
<1>5. CASE SendMessage(t) \/ SendFails(t)
  <2>1. PICK b \in Buffers : /\ b = call[t].buf /\ Carried(b) /\ ~Carried(b)'
                             /\ \A c \in Buffers \ {b} : Carried(c)' <=> Carried(c)
    BY <1>5, CarriedSteps
  <2>2. /\ b \notin mine /\ Send(b) \notin ToSet(toVC) /\ Spread(b) = 1
    BY <1>3, <2>1, OnePlace DEF PlaceInv
  <2>3. \/ ToSet(toVC') = ToSet(toVC) \cup {Send(b)} /\ UNCHANGED <<mine, cbq>>
        \/ mine' = mine \cup {b} /\ UNCHANGED <<toVC, cbq>>
    <3>1. SendFails(t) => mine' = mine \cup {b}
      BY <2>1 DEF SendFails
    <3> QED
      BY <1>2, <1>5, <2>1, <3>1, SentIs DEF Adds
  <2>4. \A c \in Buffers \ {b} : Unmoved(c)
    BY <1>1, <2>1, <2>3, HeadersDiffer DEF Unmoved
  <2>5. Spread(b)' = Spread(b)
    BY <1>1, <2>1, <2>2, <2>3 DEF Spread, One
  <2> QED
    BY <2>4, <2>5, OneMoves
<1>6. CASE ~SendBegin(t) /\ ~SendMessage(t) /\ ~SendFails(t) /\ ~DrainOne(t)
  <2>1. \A c \in Buffers : Carried(c)' <=> Carried(c)
    BY <1>6, CarriedSteps
  <2>2. \A c \in Buffers : Send(c) \in ToSet(toVC') <=> Send(c) \in ToSet(toVC)
    BY <1>1, <1>6, AskedIs, MessagesDiffer DEF Adds
  <2>3. \A c \in Buffers : Unmoved(c)
    BY <1>1, <1>6, <2>1, <2>2 DEF Unmoved
  <2> QED
    BY <2>3, NoneMoves
<1>7. CASE DrainOne(t)
  <2>1. PICK b \in Buffers :
            /\ Takes(cbq, cbq', b) /\ mine' = mine \cup {b}
            /\ UNCHANGED <<call, host, bulkRx, toHost, toVC, bulkTx, expect, vcHas, jobs, ctx, replied>>
    BY <1>7, DeliverIs
  <2>2. b \in ToSet(cbq) /\ ToSet(cbq') = ToSet(cbq) \ {b}
    BY <2>1 DEF Takes
  <2>3. b \notin mine /\ Spread(b) = 1
    BY <1>3, <2>2, OnePlace DEF PlaceInv
  <2>4. \A c \in Buffers : Carried(c)' <=> Carried(c)
    BY <2>1, CarriedKeeps
  <2>5. \A c \in Buffers \ {b} : Unmoved(c)
    BY <2>1, <2>2, <2>4 DEF Unmoved
  <2>6. Spread(b)' = Spread(b)
    BY <2>1, <2>2, <2>3, <2>4 DEF Spread, One
  <2> QED
    BY <2>5, <2>6, OneMoves
<1> QED
  BY <1>4, <1>5, <1>6, <1>7

LEMMA VideoPlaces ==
  ASSUME TypeOK, IInv, VcTake \/ VcBulk \/ VcReturn \/ VcAnswer
  PROVE  PlaceInv'
<1>0. PlaceInv /\ (\A b \in Buffers : Spread(b) = 1) /\ \A c \in Buffers : Carried(c)' <=> Carried(c)
  BY CarriedKeeps DEF IInv, PlaceInv, VcTake, VcBulk, VcReturn, VcAnswer
<1>1. /\ UNCHANGED <<call, mine, host, bulkRx, cbq>>
      /\ VcReturn => UNCHANGED <<toVC, expect>>
      /\ VcAnswer => UNCHANGED <<toVC, expect>>
  BY DEF VcTake, VcBulk, VcReturn, VcAnswer
<1>2. CASE VcTake
  <2>1. PICK m \in ToSet(toVC) :
           /\ ToSet(toVC') = ToSet(toVC) \ {m} /\ toHost' = toHost
           /\ \/ ToSet(expect') = ToSet(expect) \cup {m} /\ vcHas' = vcHas
              \/ expect' = expect /\ \E b \in Buffers : m = Send(b) /\ vcHas' = vcHas \cup {b}
              \/ expect' = expect /\ vcHas' = vcHas /\ \E t \in Callers : Asking(t) /\ m = Ask(t)
    BY <1>2, TakeIs DEF Takes, Adds
  <2>2. CASE \E t \in Callers : Asking(t) /\ m = Ask(t)
    <3>1. \A b \in Buffers : m # Send(b)
      BY <2>2, MessagesDiffer DEF Holding
    <3>2. \A b \in Buffers : Unmoved(b)
      BY <1>0, <1>1, <2>1, <3>1 DEF Unmoved
    <3> QED
      BY <3>2, NoneMoves
  <2>3. CASE \E b \in Buffers : m = Send(b)
    <3>1. PICK b \in Buffers : m = Send(b)
      BY <2>3
    <3>2. \A c \in Buffers : m = Send(c) => c = b
      BY <3>1, HeadersDiffer
    <3>3. ~\E t \in Callers : Asking(t) /\ m = Ask(t)
      BY <3>1, MessagesDiffer DEF Holding
    <3>4. /\ ToSet(toVC') = ToSet(toVC) \ {Send(b)} /\ toHost' = toHost
          /\ \/ ToSet(expect') = ToSet(expect) \cup {Send(b)} /\ vcHas' = vcHas
             \/ expect' = expect /\ vcHas' = vcHas \cup {b}
      BY <2>1, <3>1, <3>2, <3>3
    <3>5. \A c \in Buffers \ {b} : Unmoved(c)
      BY <1>0, <1>1, <3>1, <3>2, <3>4 DEF Unmoved
    <3>6. Send(b) \in ToSet(toVC) /\ Send(b) \notin ToSet(expect) /\ b \notin vcHas
      BY <1>0, <2>1, <3>1, OnePlace
    <3>7. Spread(b)' = Spread(b)
      BY <1>0, <1>1, <3>4, <3>6 DEF Spread, One
    <3> QED
      BY <3>5, <3>7, OneMoves
  <2> QED
    BY <2>2, <2>3, MessageOf
<1>3. CASE VcBulk
  <2>1. PICK m \in ToSet(expect) :
           /\ ToSet(expect') = ToSet(expect) \ {m} /\ UNCHANGED <<toVC, toHost>>
           /\ \/ \E b \in Buffers : m = Send(b) /\ vcHas' = vcHas \cup {b}
              \/ vcHas' = vcHas /\ \E t \in Callers : Asking(t) /\ m = Ask(t)
    BY <1>3, BulkIs DEF Takes
  <2>2. CASE vcHas' = vcHas /\ \E t \in Callers : Asking(t) /\ m = Ask(t)
    <3>1. \A b \in Buffers : m # Send(b)
      BY <2>2, MessagesDiffer DEF Holding
    <3>2. \A b \in Buffers : Unmoved(b)
      BY <1>0, <1>1, <2>1, <2>2, <3>1 DEF Unmoved
    <3> QED
      BY <3>2, NoneMoves
  <2>3. CASE \E b \in Buffers : m = Send(b) /\ vcHas' = vcHas \cup {b}
    <3>1. PICK b \in Buffers : m = Send(b) /\ vcHas' = vcHas \cup {b}
      BY <2>3
    <3>2. \A c \in Buffers : m = Send(c) => c = b
      BY <3>1, HeadersDiffer
    <3>3. \A c \in Buffers \ {b} : Unmoved(c)
      BY <1>0, <1>1, <2>1, <3>1, <3>2 DEF Unmoved
    <3>4. Send(b) \in ToSet(expect) /\ b \notin vcHas
      BY <1>0, <2>1, <3>1, OnePlace
    <3>5. Spread(b)' = Spread(b)
      BY <1>0, <1>1, <2>1, <3>1, <3>4 DEF Spread, One
    <3> QED
      BY <3>3, <3>5, OneMoves
  <2> QED
    BY <2>1, <2>2, <2>3
<1>4. CASE VcReturn
  <2>1. PICK b \in vcHas, e \in FromVC :
            /\ b \in Buffers /\ vcHas' = vcHas \ {b} /\ ToSet(toHost') = ToSet(toHost) \cup {e}
            /\ e \notin ToSet(toHost)
            /\ e = IF PortOf[b] \in Inputs THEN Plain(b) ELSE Data(b)
    BY <1>4, VcReturnIs DEF Adds
  <2>2. \A c \in Buffers : /\ c # b => Data(c) # e /\ Plain(c) # e
                           /\ Data(b) # Plain(b)
    BY <2>1, HeadersDiffer
  <2>3. \A c \in Buffers \ {b} : Unmoved(c)
    BY <1>0, <1>1, <1>4, <2>1, <2>2 DEF Unmoved
  <2>4. e = Data(b) \/ e = Plain(b)
    BY <2>1
  <2>5. Spread(b)' = Spread(b)
    BY <1>0, <1>1, <1>4, <2>1, <2>2, <2>4 DEF Spread, One
  <2> QED
    BY <2>1, <2>3, <2>5, OneMoves
<1>5. CASE VcAnswer
  <2>1. PICK t \in Callers, back \in SUBSET vcHas :
           /\ Asking(t) /\ vcHas' = vcHas \ back
           /\ ToSet(toHost') = ToSet(toHost) \cup {Plain(b) : b \in back} \cup {Reply(t)}
    BY <1>5, AnsweredIs
  <2>2. back \subseteq Buffers
    BY DEF TypeOK, QueueType
  <2>3. /\ \A c \in Buffers : Data(c) # Reply(t) /\ Plain(c) # Reply(t)
        /\ \A b, c \in Buffers : /\ Data(c) # Plain(b)
                                 /\ c # b => Plain(c) # Plain(b)
    BY <2>1, MessagesDiffer, HeadersDiffer DEF Holding
  <2>4. ASSUME NEW b \in Buffers
        PROVE  /\ Data(b) \in ToSet(toHost') <=> Data(b) \in ToSet(toHost)
               /\ Plain(b) \in ToSet(toHost') <=> Plain(b) \in ToSet(toHost) \/ b \in back
    BY <2>1, <2>2, <2>3
  <2>5. \A b \in Buffers \ back : Unmoved(b)
    BY <1>0, <1>1, <1>5, <2>1, <2>4 DEF Unmoved
  <2>6. ASSUME NEW b \in back PROVE Spread(b)' = 1
    <3>1. b \in Buffers /\ Spread(b) = 1
      BY <1>0, <2>2
    <3>2. b \in vcHas /\ b \notin vcHas' /\ Plain(b) \in ToSet(toHost') /\ Plain(b) \notin ToSet(toHost)
      BY <1>0, <2>1, <2>4, <3>1, OnePlace
    <3>3. Spread(b)' = Spread(b)
      BY <1>0, <1>1, <1>5, <2>4, <3>1, <3>2 DEF Spread, One
    <3> QED
      BY <3>1, <3>3
  <2> QED
    BY <2>2, <2>5, <2>6, PlaceKeeps
<1> QED
  BY <1>2, <1>3, <1>4, <1>5

LEMMA HostPlaces ==
  ASSUME TypeOK, IInv, HostReply \/ HostBuffer \/ HostBulk \/ HostQueue \/ ActionDeliver
  PROVE  PlaceInv'
<1>0. PlaceInv /\ (\A b \in Buffers : Spread(b) = 1) /\ \A c \in Buffers : Carried(c)' <=> Carried(c)
  BY CarriedKeeps DEF IInv, PlaceInv, HostReply, HostBuffer, HostBulk, HostQueue, ActionDeliver
<1>1. /\ UNCHANGED <<toVC, expect, vcHas>>
      /\ HostReply => UNCHANGED <<mine, bulkRx, host, cbq>>
      /\ HostBuffer => UNCHANGED <<mine, cbq>>
  BY DEF HostReply, HostBuffer, HostBulk, HostQueue, ActionDeliver
<1>2. CASE HostReply
  <2>1. PICK t \in Callers : Asking(t) /\ ToSet(toHost') = ToSet(toHost) \ {Reply(t)}
    BY <1>2, HostReplyIs DEF Takes
  <2>2. \A b \in Buffers : Reply(t) # Data(b) /\ Reply(t) # Plain(b)
    BY <2>1, MessagesDiffer DEF Holding
  <2>3. \A b \in Buffers : Unmoved(b)
    BY <1>0, <1>1, <1>2, <2>1, <2>2 DEF Unmoved
  <2> QED
    BY <2>3, NoneMoves
<1>3. CASE HostBuffer
  <2>1. PICK b \in Buffers :
            /\ \/ /\ Takes(toHost, toHost', Data(b)) /\ Adds(bulkRx, bulkRx', b)
                  /\ UNCHANGED host
               \/ /\ Takes(toHost, toHost', Plain(b)) /\ host = Nobody /\ host' = b
                  /\ UNCHANGED bulkRx
    BY <1>3, HostBufferIs
  <2>2. \/ /\ ToSet(toHost') = ToSet(toHost) \ {Data(b)} /\ Data(b) \in ToSet(toHost)
           /\ ToSet(bulkRx') = ToSet(bulkRx) \cup {b} /\ b \notin ToSet(bulkRx) /\ host' = host
        \/ /\ ToSet(toHost') = ToSet(toHost) \ {Plain(b)} /\ Plain(b) \in ToSet(toHost)
           /\ host = Nobody /\ host' = b /\ bulkRx' = bulkRx
    BY <2>1 DEF Takes, Adds
  <2>3. /\ Data(b) # Plain(b)
        /\ \A c \in Buffers \ {b} : /\ Data(c) # Data(b) /\ Data(c) # Plain(b)
                                    /\ Plain(c) # Data(b) /\ Plain(c) # Plain(b)
    BY HeadersDiffer
  <2>4. Nobody \notin Buffers
    BY NameAssumption
  <2>5. \A c \in Buffers \ {b} : Unmoved(c)
    BY <1>0, <1>1, <1>3, <2>2, <2>3, <2>4 DEF Unmoved
  <2>6. Spread(b)' = Spread(b)
    BY <1>0, <1>1, <1>3, <2>2, <2>3, <2>4 DEF Spread, One
  <2> QED
    BY <2>5, <2>6, OneMoves
<1>4. CASE HostBulk
  <2>1. PICK b \in Buffers :
            /\ Takes(bulkRx, bulkRx', b) /\ host = Nobody /\ host' = b
            /\ UNCHANGED <<toHost, mine, cbq>>
    BY <1>4, HostBulkIs
  <2>2. ToSet(bulkRx') = ToSet(bulkRx) \ {b} /\ b \in ToSet(bulkRx) /\ b # Nobody
    BY <2>1, NameAssumption DEF Takes
  <2>3. \A c \in Buffers \ {b} : Unmoved(c)
    BY <1>0, <1>1, <2>1, <2>2, NameAssumption DEF Unmoved
  <2>4. Spread(b)' = Spread(b)
    BY <1>0, <1>1, <2>1, <2>2 DEF Spread, One
  <2> QED
    BY <2>3, <2>4, OneMoves
<1>5. CASE HostQueue
  <2>1. /\ host \in Buffers /\ host' = Nobody /\ Adds(cbq, cbq', host)
        /\ UNCHANGED <<bulkRx, toHost, mine>>
    BY <1>5, HostQueueIs
  <2>2. PICK b \in Buffers : host = b
    BY <2>1
  <2>3. ToSet(cbq') = ToSet(cbq) \cup {b} /\ b \notin ToSet(cbq) /\ b # Nobody
    BY <2>1, <2>2, NameAssumption DEF Adds
  <2>4. \A c \in Buffers \ {b} : Unmoved(c)
    BY <1>0, <1>1, <2>1, <2>2, <2>3, NameAssumption DEF Unmoved
  <2>5. Spread(b)' = Spread(b)
    BY <1>0, <1>1, <2>1, <2>2, <2>3 DEF Spread, One
  <2> QED
    BY <2>4, <2>5, OneMoves
<1>6. CASE ActionDeliver
  <2>1. PICK b \in Buffers :
            /\ Takes(cbq, cbq', b) /\ mine' = mine \cup {b} /\ UNCHANGED <<host, bulkRx, toHost>>
    BY <1>6, DeliverIs
  <2>2. b \in ToSet(cbq) /\ ToSet(cbq') = ToSet(cbq) \ {b} /\ b \notin mine
    BY <1>0, <2>1, OnePlace DEF Takes
  <2>3. \A c \in Buffers \ {b} : Unmoved(c)
    BY <1>0, <1>1, <2>1, <2>2 DEF Unmoved
  <2>4. Spread(b)' = Spread(b)
    BY <1>0, <1>1, <2>1, <2>2 DEF Spread, One
  <2> QED
    BY <2>3, <2>4, OneMoves
<1> QED
  BY <1>2, <1>3, <1>4, <1>5, <1>6

LEMMA PlaceStep ==
  ASSUME TypeOK, IInv, [Next]_vars
  PROVE  PlaceInv'
<1>1. ASSUME Aside PROVE PlaceInv'
  <2>1. UNCHANGED <<call, mine, toVC, expect, vcHas, toHost, bulkRx, host, cbq>>
    BY <1>1 DEF Aside, ActionWake, ActionBegin, ActionEnd, vars
  <2>2. \A b \in Buffers : Unmoved(b)
    BY <2>1, CarriedKeeps DEF Unmoved
  <2> QED
    BY <2>2, NoneMoves
<1> QED
  BY NextCases, <1>1, CallerPlaces, VideoPlaces, HostPlaces DEF Elsewhere

-----------------------------------------------------------------------------
\* A header takes a context with it and gives it back.
Out(b) == ~(b \in mine \/ host = b \/ b \in ToSet(cbq))

LEMMA BusyIs ==
  ASSUME NEW p \in Ports
  PROVE  /\ \A b : b \in Busy(p) <=> b \in Buffers /\ PortOf[b] = p /\ Out(b)
         /\ \A b : b \in Busy(p)' <=> b \in Buffers /\ PortOf[b] = p /\ Out(b)'
BY DEF Busy, Of, Out

LEMMA ContextsKeep ==
  ASSUME TypeOK, IInv, UNCHANGED ctx, \A b \in Buffers : Out(b)' <=> Out(b)
  PROVE  ContextInv'
<1>1. \A p \in Ports : Busy(p)' = Busy(p)
  BY BusyIs
<1> QED
  BY <1>1 DEF IInv, ContextInv

LEMMA ContextTaken ==
  ASSUME TypeOK, IInv, NEW b \in Buffers, ~Out(b), Out(b)',
         \A c \in Buffers \ {b} : Out(c)' <=> Out(c),
         ctx' = [ctx EXCEPT ![PortOf[b]] = @ - 1]
  PROVE  ContextInv'
<1> SUFFICES ASSUME NEW p \in Ports PROVE ctx'[p] + Cardinality(Busy(p)') = Contexts
  BY DEF ContextInv
<1>1. ctx[p] + Cardinality(Busy(p)) = Contexts /\ ctx \in [Ports -> 0..Contexts]
  BY DEF IInv, ContextInv, TypeOK, PortType
<1>2. IsFiniteSet(Busy(p)) /\ Contexts \in Nat
  BY Counted, PortAssumption
<1>3. CASE p = PortOf[b]
  <2>1. b \notin Busy(p) /\ Busy(p)' = Busy(p) \cup {b}
    BY <1>3, BusyIs
  <2>2. Cardinality(Busy(p)') = Cardinality(Busy(p)) + 1 /\ Cardinality(Busy(p)) \in Nat
    BY <1>2, <2>1, CountIs
  <2>3. ctx'[p] = ctx[p] - 1 /\ ctx[p] \in Int
    BY <1>1, <1>2, <1>3
  <2> QED
    BY <1>1, <1>2, <2>2, <2>3
<1>4. CASE p # PortOf[b]
  <2>1. Busy(p)' = Busy(p)
    <3>1. \A c : c \in Busy(p)' <=> c \in Busy(p)
      BY <1>4, BusyIs
    <3> QED
      BY <3>1
  <2> QED
    BY <1>1, <1>4, <2>1
<1> QED
  BY <1>3, <1>4

LEMMA ContextFreed ==
  ASSUME TypeOK, IInv, NEW b \in Buffers, Out(b), ~Out(b)',
         \A c \in Buffers \ {b} : Out(c)' <=> Out(c),
         ctx' = [ctx EXCEPT ![PortOf[b]] = @ + 1]
  PROVE  ContextInv'
<1> SUFFICES ASSUME NEW p \in Ports PROVE ctx'[p] + Cardinality(Busy(p)') = Contexts
  BY DEF ContextInv
<1>1. ctx[p] + Cardinality(Busy(p)) = Contexts /\ ctx \in [Ports -> 0..Contexts]
  BY DEF IInv, ContextInv, TypeOK, PortType
<1>2. IsFiniteSet(Busy(p)) /\ Contexts \in Nat
  BY Counted, PortAssumption
<1>3. CASE p = PortOf[b]
  <2>1. b \in Busy(p) /\ Busy(p)' = Busy(p) \ {b}
    BY <1>3, BusyIs
  <2>2. Cardinality(Busy(p)') = Cardinality(Busy(p)) - 1 /\ Cardinality(Busy(p)) \in Nat
    BY <1>2, <2>1, CountIs
  <2>3. ctx'[p] = ctx[p] + 1 /\ ctx[p] \in Int
    BY <1>1, <1>2, <1>3
  <2> QED
    BY <1>1, <1>2, <2>2, <2>3
<1>4. CASE p # PortOf[b]
  <2>1. Busy(p)' = Busy(p)
    <3>1. \A c : c \in Busy(p)' <=> c \in Busy(p)
      BY <1>4, BusyIs
    <3> QED
      BY <3>1
  <2> QED
    BY <1>1, <1>4, <2>1
<1> QED
  BY <1>3, <1>4

\* The pool of a port that is enabled is created with all its contexts, and no
\* header of the port is away then.
LEMMA EnabledContexts ==
  ASSUME TypeOK, IInv, NEW t \in Callers, NEW p \in Ports, EnableBegin(t, p)
  PROVE  ContextInv'
<1>1. /\ ~on[p] /\ ~PortLocked(p) /\ ctx' = [ctx EXCEPT ![p] = Contexts]
      /\ UNCHANGED <<mine, host, cbq>>
  BY DEF EnableBegin
<1>2. Of(p) \subseteq mine
  <2>1. \A u \in Callers : ~(Switching(u, p) /\ call[u].op = "disable")
    BY <1>1 DEF PortLocked, Switching
  <2> QED
    BY <1>1, <2>1 DEF IInv, ClosedInv
<1>3. \A q \in Ports : Busy(q)' = Busy(q)
  BY <1>1 DEF Busy, Of
<1>4. Cardinality(Busy(p)) = 0
  <2>1. Busy(p) = {}
    BY <1>2 DEF Busy
  <2> QED
    BY <2>1, FS_EmptySet
<1>5. ctx \in [Ports -> 0..Contexts] /\ Contexts \in Nat
  BY PortAssumption DEF TypeOK, PortType
<1>6. \A q \in Ports : ctx[q] + Cardinality(Busy(q)) = Contexts
  BY DEF IInv, ContextInv
<1>7. ctx'[p] = Contexts /\ \A q \in Ports \ {p} : ctx'[q] = ctx[q]
  BY <1>1, <1>5
<1> SUFFICES ASSUME NEW q \in Ports PROVE ctx'[q] + Cardinality(Busy(q)') = Contexts
  BY DEF ContextInv
<1>8. CASE q = p
  BY <1>3, <1>4, <1>5, <1>7, <1>8
<1>9. CASE q # p
  BY <1>3, <1>6, <1>7, <1>9
<1> QED
  BY <1>8, <1>9

LEMMA ContextStep ==
  ASSUME TypeOK, IInv, [Next]_vars
  PROVE  ContextInv'
<1>0. PlaceInv
  BY DEF IInv
<1>1. ASSUME NEW t \in Callers, Quiet(t) \/ Moves(t) PROVE ContextInv'
  <2>1. /\ UNCHANGED host
        /\ UNCHANGED mine \/ SendBegin(t) \/ SendFails(t) \/ DrainOne(t)
        /\ UNCHANGED ctx \/ SendBegin(t) \/ SendFails(t) \/ \E p \in Ports : EnableBegin(t, p)
        /\ UNCHANGED cbq \/ DrainOne(t)
    BY <1>1, QuietKeeps, MovesKeep
  <2>2. /\ SendBegin(t) => UNCHANGED cbq
        /\ SendFails(t) => UNCHANGED cbq
        /\ DrainOne(t) => UNCHANGED ctx
    BY DEF SendBegin, SendFails, DrainOne
  <2>3. CASE SendBegin(t)
    <3>1. CASE UNCHANGED <<mine, ctx>>
      BY <2>1, <2>2, <2>3, <3>1, ContextsKeep DEF Out
    <3>2. CASE \E b \in mine : /\ mine' = mine \ {b}
                               /\ ctx' = [ctx EXCEPT ![PortOf[b]] = @ - 1]
      <4>1. PICK b \in mine : mine' = mine \ {b} /\ ctx' = [ctx EXCEPT ![PortOf[b]] = @ - 1]
        BY <3>2
      <4>2. b \in Buffers
        BY DEF TypeOK, PortType
      <4>3. ~Out(b) /\ Out(b)' /\ \A c \in Buffers \ {b} : Out(c)' <=> Out(c)
        BY <1>0, <2>1, <2>2, <2>3, <4>1, <4>2, OnePlace DEF Out
      <4> QED
        BY <4>1, <4>2, <4>3, ContextTaken
    <3>3. \/ UNCHANGED <<mine, ctx>>
          \/ \E b \in mine : mine' = mine \ {b} /\ ctx' = [ctx EXCEPT ![PortOf[b]] = @ - 1]
      BY <1>1, <2>3, CarriedSteps
    <3> QED
      BY <3>1, <3>2, <3>3
  <2>4. CASE SendFails(t)
    <3>1. PICK b \in Buffers : b = call[t].buf /\ Carried(b)
      BY <1>1, <2>4, CarriedSteps
    <3>2. mine' = mine \cup {b} /\ ctx' = [ctx EXCEPT ![PortOf[b]] = @ + 1]
      BY <2>4, <3>1 DEF SendFails
    <3>3. Out(b) /\ ~Out(b)' /\ \A c \in Buffers \ {b} : Out(c)' <=> Out(c)
      BY <1>0, <2>1, <2>2, <2>4, <3>1, <3>2, OnePlace DEF Out
    <3> QED
      BY <3>2, <3>3, ContextFreed
  <2>5. CASE DrainOne(t)
    <3>1. PICK b \in Buffers : Takes(cbq, cbq', b) /\ mine' = mine \cup {b}
      BY <2>5, DeliverIs
    <3>2. \A c \in Buffers : Out(c)' <=> Out(c)
      BY <2>1, <3>1 DEF Takes, Out
    <3> QED
      BY <2>2, <2>5, <3>2, ContextsKeep
  <2>6. CASE UNCHANGED <<mine, cbq, host>> /\ UNCHANGED ctx
    BY <2>6, ContextsKeep DEF Out
  <2> QED
    BY <2>1, <2>3, <2>4, <2>5, <2>6, EnabledContexts
<1>2. ASSUME HostBuffer PROVE ContextInv'
  <2>1. PICK b \in Buffers :
            /\ \/ UNCHANGED <<host, ctx>>
               \/ /\ Takes(toHost, toHost', Plain(b)) /\ host = Nobody /\ host' = b
                  /\ ctx' = [ctx EXCEPT ![PortOf[b]] = @ + 1]
            /\ UNCHANGED <<mine, cbq>>
    BY <1>2, HostBufferIs
  <2>2. CASE UNCHANGED <<host, ctx>>
    BY <2>1, <2>2, ContextsKeep DEF Out
  <2>3. CASE /\ Takes(toHost, toHost', Plain(b)) /\ host = Nobody /\ host' = b
             /\ ctx' = [ctx EXCEPT ![PortOf[b]] = @ + 1]
    <3>1. Out(b) /\ ~Out(b)' /\ \A c \in Buffers \ {b} : Out(c)' <=> Out(c)
      BY <1>0, <2>1, <2>3, OnePlace, NameAssumption DEF Takes, Out
    <3> QED
      BY <2>3, <3>1, ContextFreed
  <2> QED
    BY <2>1, <2>2, <2>3
<1>3. ASSUME HostBulk PROVE ContextInv'
  <2>1. PICK b \in Buffers :
            /\ Takes(bulkRx, bulkRx', b) /\ host = Nobody /\ host' = b
            /\ ctx' = [ctx EXCEPT ![PortOf[b]] = @ + 1] /\ UNCHANGED <<mine, cbq>>
    BY <1>3, HostBulkIs
  <2>2. Out(b) /\ ~Out(b)' /\ \A c \in Buffers \ {b} : Out(c)' <=> Out(c)
    BY <1>0, <2>1, OnePlace, NameAssumption DEF Takes, Out
  <2> QED
    BY <2>1, <2>2, ContextFreed
<1>4. ASSUME HostQueue PROVE ContextInv'
  <2>1. host' = Nobody /\ Adds(cbq, cbq', host) /\ UNCHANGED <<mine, ctx>>
    BY <1>4, HostQueueIs
  <2>2. \A c \in Buffers : Out(c)' <=> Out(c)
    BY <2>1, NameAssumption DEF Adds, Out
  <2> QED
    BY <2>1, <2>2, ContextsKeep
<1>5. ASSUME ActionDeliver PROVE ContextInv'
  <2>1. PICK b \in Buffers : Takes(cbq, cbq', b) /\ mine' = mine \cup {b} /\ UNCHANGED <<host, ctx>>
    BY <1>5, DeliverIs
  <2>2. \A c \in Buffers : Out(c)' <=> Out(c)
    BY <2>1 DEF Takes, Out
  <2> QED
    BY <2>1, <2>2, ContextsKeep
<1>6. ASSUME Elsewhere \/ Aside PROVE ContextInv'
  <2>1. /\ UNCHANGED ctx \/ HostBuffer \/ HostBulk
        /\ UNCHANGED <<mine, cbq>> \/ HostQueue \/ ActionDeliver
        /\ UNCHANGED host \/ HostBuffer \/ HostBulk \/ HostQueue
    BY <1>6, ElsewhereKeeps
  <2>2. CASE UNCHANGED <<mine, cbq, host>> /\ UNCHANGED ctx
    BY <2>2, ContextsKeep DEF Out
  <2> QED
    BY <1>2, <1>3, <1>4, <1>5, <2>1, <2>2
<1> QED
  BY NextCases, <1>1, <1>6

-----------------------------------------------------------------------------
\* Nobody sends on a port that a thread flushes or disables.
LEMMA NoSender ==
  ASSUME TypeOK, IInv, NEW t \in Callers, NEW u \in Callers, Sweeping(t), Asking(t) \/ Told(t),
         At(u, "message") \/ call[u].op = "send"
  PROVE  call[u].buf \in Buffers /\ PortOf[call[u].buf] # call[t].port
<1>1. /\ call[u].op = "send" /\ call[u].buf \in Buffers /\ PortOf[call[u].buf] = call[u].port
      /\ call[u].port \in Ports
  BY CallerIs DEF PortOps
<1>2. ASSUME call[u].port = call[t].port PROVE FALSE
  <2>1. SendLocked(u, call[u].port) /\ on[call[u].port]
    BY <1>1 DEF SendLocked, IInv, LifeInv, OnInv
  <2>2. CASE call[t].op = "disable"
    BY <1>1, <1>2, <2>1, <2>2 DEF Switching, IInv, LifeInv, OnInv
  <2>3. CASE call[t].op \in Flushing
    <3>1. SendLocked(t, call[u].port)
      BY <1>2, <2>3 DEF SendLocked, Asking, Told, At
    <3>2. t = u
      BY <1>1, <2>1, <3>1 DEF IInv, LockInv, SendLockInv
    <3> QED
      BY <1>1, <2>3, <3>2 DEF Flushing
  <2> QED
    BY <2>2, <2>3 DEF Sweeping
<1> QED
  BY <1>1, <1>2

LEMMA ToldSteps ==
  ASSUME TypeOK, IInv, NEW t \in Callers, Quiet(t) \/ Moves(t)
  PROVE  /\ Told(t)' => Told(t) \/ Wake(t)
         /\ Asking(t)' => Asking(t) \/ AskVC(t)
         /\ Told(t)' \/ Asking(t)' => Same(t)
<1>1. /\ Told(t)' => Told(t) \/ Wake(t)
      /\ Asking(t)' => Asking(t) \/ AskVC(t)
  BY HoldingSteps, AskingSteps
<1>2. AskVC(t) \/ Wake(t) \/ Asking(t)' => Same(t)
  BY AskingSteps
<1>3. ASSUME Told(t), Told(t)' PROVE Same(t)
  <2>1. call[t].at \in {"release", "post", "done"} /\ call'[t].at \in {"release", "post", "done"}
    BY <1>3 DEF Told
  <2>2. CASE Quiet(t)
    <3>1. ~(FlushChoose(t) \/ Pick(t) \/ AskFails(t) \/ Answered(t))
      BY <2>1, ChoiceSteps DEF Goes, Ends, At
    <3>2. Release(t) \/ PostPool(t)
      BY <2>1, <2>2, <3>1, CallSteps DEF Quiet, Goes, Ends, Begins
    <3> QED
      BY <3>2, CallSteps DEF Goes, Stays, Same
  <2>3. CASE Moves(t)
    <3>1. ~SendBegin(t)
      BY <2>1, ChoiceSteps DEF Begins
    <3>2. FALSE
      BY <2>1, <2>3, <3>1, CallSteps DEF Moves, Goes, Ends, Begins
    <3> QED
      BY <3>2
  <2> QED
    BY <2>2, <2>3
<1> QED
  BY <1>1, <1>2, <1>3

LEMMA SweptKeeps ==
  ASSUME NEW t \in Callers, NEW b, Swept(t, b),
         Asking(t)' <=> Asking(t), Told(t)' => Told(t), Ask(t)' = Ask(t), call'[t].op = call[t].op,
         Before(toVC', Ask(t), Send(b)) => Before(toVC, Ask(t), Send(b)),
         Send(b) \in ToSet(toVC') => Send(b) \in ToSet(toVC),
         Ask(t) \in ToSet(toVC) => Ask(t) \in ToSet(toVC'), UNCHANGED expect
  PROVE  Swept(t, b)'
BY DEF Swept, Taken

LEMMA SweepCaller ==
  ASSUME TypeOK, IInv, NEW t \in Callers, Quiet(t) \/ Moves(t)
  PROVE  SweepInv'
<1> SUFFICES ASSUME NEW u \in Callers, Sweeping(u)', NEW b \in Of(call'[u].port)
             PROVE  Swept(u, b)'
  BY DEF SweepInv, Of
<1>1. Others(t) /\ UNCHANGED expect /\ (UNCHANGED toVC \/ SendMessage(t) \/ AskVC(t))
  BY OpSteps, QuietKeeps, MovesKeep
<1>2. b \in Buffers /\ PortOf[b] = call'[u].port
  BY DEF Of
<1>3. CASE ~Asking(u)' /\ ~Told(u)'
  BY <1>3 DEF Swept, Taken
<1>4. CASE u = t /\ AskVC(t)
  <2>1. Adds(toVC, toVC', Ask(t)) /\ Holding(t) /\ Ask(t) \notin ToSet(expect)
    BY <1>4, AskedIs
  <2>2. Asking(t)' /\ Ask(t)' = Ask(t) /\ ~Told(t)'
    BY <1>4, AskingSteps, SameAsk DEF Asking, Told, At
  <2>3. Ask(t) # Send(b)
    BY <1>2, <2>1, MessagesDiffer
  <2>4. ~Before(toVC, Ask(t), Send(b)) /\ ~Before(expect, Ask(t), Send(b))
    BY <2>1, QueuesAre, QueueIs DEF Adds
  <2> QED
    BY <1>1, <1>4, <2>1, <2>2, <2>3, <2>4 DEF Swept, Taken, Adds
<1>5. CASE (Asking(u)' \/ Told(u)') /\ ~(u = t /\ AskVC(t))
  <2>1. /\ Asking(u)' => Asking(u)
        /\ Told(u)' => Told(u) \/ (u = t /\ Wake(t))
        /\ Same(u) /\ Ask(u)' = Ask(u)
    <3>1. CASE u = t
      BY <1>5, <3>1, ToldSteps, SameAsk
    <3>2. CASE u # t
      BY <1>1, <3>2, SameAsk DEF Others, Same, Asking, Told, At
    <3> QED
      BY <3>1, <3>2
  <2>2. Sweeping(u) /\ b \in Of(call[u].port)
    BY <2>1 DEF Same, Sweeping
  <2>3. Swept(u, b)
    BY <2>2 DEF IInv, SweepInv
  <2>4. CASE u = t /\ Wake(t)
    <3>1. UNCHANGED toVC /\ Asking(t) /\ ~Asking(t)' /\ replied[call[t].w] > 0
      BY <2>4, AskingSteps DEF Wake
    <3>2. replied[call[t].w] = 1
      <4>1. call[t].w \in Waiters /\ replied \in [Waiters -> {0, 1}]
        BY <3>1, CallerIs DEF Holding, TypeOK, WaitType
      <4> QED
        BY <3>1, <4>1
    <3>3. Ask(t) \notin ToSet(toVC) /\ Ask(t) \notin ToSet(expect)
      BY <3>1, <3>2, OneAnswer DEF IInv
    <3>4. Taken(t) /\ call'[t].op = call[t].op
      BY <2>1, <2>4, <3>1, <3>3 DEF Taken, Same
    <3> QED
      BY <1>1, <2>3, <2>4, <3>1, <3>3, <3>4 DEF Swept, Taken
  <2>5. CASE ~(u = t /\ Wake(t))
    <3>1. Asking(u) \/ Told(u)
      BY <1>5, <2>1, <2>5
    <3>2. Asking(u)' <=> Asking(u)
      <4>1. CASE u = t
        BY <1>5, <2>5, <4>1, AskingSteps
      <4>2. CASE u # t
        BY <1>1, <4>2 DEF Others, Asking, At
      <4> QED
        BY <4>1, <4>2
    <3>3. CASE UNCHANGED toVC
      BY <1>1, <2>1, <2>3, <2>5, <3>2, <3>3, SweptKeeps DEF Same
    <3>4. CASE SendMessage(t)
      <4>1. /\ Adds(toVC, toVC', Send(call[t].buf)) /\ call[t].buf \in Buffers
            /\ At(t, "message")
        BY <3>4, SentIs DEF At
      <4>2. call[t].buf # b
        BY <1>2, <2>1, <2>2, <3>1, <4>1, NoSender DEF Same
      <4>3. Send(call[t].buf) # Send(b)
        BY <1>2, <4>1, <4>2, HeadersDiffer
      <4> QED
        BY <1>1, <2>1, <2>3, <2>5, <3>2, <4>1, <4>3, SweptKeeps DEF Adds, Same
    <3>5. CASE AskVC(t)
      <4>1. Adds(toVC, toVC', Ask(t)) /\ Ask(t) # Send(b)
        BY <1>2, <3>5, AskedIs, MessagesDiffer
      <4> QED
        BY <1>1, <2>1, <2>3, <2>5, <3>2, <4>1, SweptKeeps DEF Adds, Same
    <3> QED
      BY <1>1, <3>3, <3>4, <3>5
  <2> QED
    BY <2>4, <2>5
<1> QED
  BY <1>3, <1>4, <1>5

\* A transfer is announced on the inputs only, and by the flush of one.
LEMMA ExpectedIs ==
  ASSUME TypeOK, IInv
  PROVE  /\ \A b \in Buffers : Send(b) \in ToSet(expect) => PortOf[b] \in Inputs
         /\ \A t \in Callers : Holding(t) => (Announces(Ask(t)) <=> call[t].op = "flush sync")
         /\ \A t \in Callers : Asking(t) /\ Ask(t) \in ToSet(expect) => call[t].op = "flush sync"
<1>1. \A b \in Buffers : Send(b) \in ToSet(expect) => PortOf[b] \in Inputs
  BY MessageIs DEF IInv, QueueInv
<1>2. \A t \in Callers : Holding(t) => (Announces(Ask(t)) <=> call[t].op = "flush sync")
  BY AskIs DEF Announces
<1>3. \A t \in Callers : Asking(t) /\ Ask(t) \in ToSet(expect) => call[t].op = "flush sync"
  BY <1>2 DEF IInv, QueueInv, Holding
<1> QED
  BY <1>1, <1>2, <1>3

LEMMA SweepTake ==
  ASSUME TypeOK, IInv, VcTake
  PROVE  SweepInv'
<1> SUFFICES ASSUME NEW t \in Callers, Sweeping(t), NEW b \in Of(call[t].port)
             PROVE  Swept(t, b)'
  BY DEF SweepInv, Sweeping, Of, VcTake
<1>1. Swept(t, b) /\ b \in Buffers /\ PortOf[b] = call[t].port
  BY DEF IInv, SweepInv, Of
<1>2. /\ call' = call /\ Ask(t)' = Ask(t) /\ (Asking(t)' <=> Asking(t)) /\ (Told(t)' <=> Told(t))
  BY DEF VcTake, Ask, Asking, Told, At
<1>3. PICK m \in ToSet(toVC) :
           /\ Takes(toVC, toVC', m)
           /\ \/ Announces(m) /\ Adds(expect, expect', m)
              \/ ~Announces(m) /\ expect' = expect
  BY TakeIs
<1>4. Asking(t) => Holding(t) /\ Ask(t) # Send(b)
  BY <1>1, MessagesDiffer DEF Holding
<1>5. Asking(t) => ~Before(toVC', Ask(t), Send(b))
  BY <1>1, <1>3 DEF Takes, Swept
<1>6. ASSUME Asking(t), Before(expect', Ask(t), Send(b)) PROVE FALSE
  <2>1. m = Send(b) /\ Ask(t) \in ToSet(expect)
    BY <1>1, <1>3, <1>6 DEF Swept, Adds
  <2>2. Ask(t) \notin ToSet(toVC)
    BY <1>6, <2>1, OneAnswer DEF IInv
  <2> QED
    BY <1>1, <1>3, <1>6, <2>1, <2>2 DEF Swept, Taken
<1>7. ASSUME Taken(t)', Send(b) \in ToSet(toVC') PROVE FALSE
  <2>1. Send(b) \in ToSet(toVC)
    BY <1>3, <1>7 DEF Takes
  <2>2. ~Taken(t)
    BY <1>1, <2>1 DEF Swept
  <2>3. Asking(t) /\ Ask(t) \in ToSet(toVC) /\ Ask(t) \notin ToSet(toVC')
    BY <1>2, <1>7, <2>2 DEF Taken
  <2>4. m = Ask(t)
    BY <1>3, <2>3 DEF Takes
  <2>5. Before(toVC, Ask(t), Send(b))
    BY <1>3, <1>7, <2>4 DEF Takes
  <2> QED
    BY <1>1, <2>3, <2>5 DEF Swept
<1>8. ASSUME Taken(t)', call[t].op # "disable", ~(Asking(t) /\ Ask(t) \in ToSet(expect')),
             Send(b) \in ToSet(expect')
      PROVE  FALSE
  <2>1. CASE Taken(t)
    <3>1. m # Send(b)
      BY <1>1, <1>3, <2>1 DEF Swept
    <3>2. Send(b) \in ToSet(expect) /\ ~(Asking(t) /\ Ask(t) \in ToSet(expect))
      BY <1>3, <1>8, <3>1 DEF Adds
    <3> QED
      BY <1>1, <1>8, <2>1, <3>2 DEF Swept
  <2>2. CASE ~Taken(t)
    <3>1. Asking(t) /\ Ask(t) \in ToSet(toVC) /\ Ask(t) \notin ToSet(toVC')
      BY <1>2, <1>8, <2>2 DEF Taken
    <3>2. m = Ask(t)
      BY <1>3, <3>1 DEF Takes
    <3>3. ~Announces(m) /\ Send(b) \in ToSet(expect)
      BY <1>3, <1>8, <3>1, <3>2 DEF Adds
    <3>4. call[t].op = "flush" /\ ~At(t, "flush") /\ PortOf[b] \in Inputs
      BY <1>1, <1>4, <1>8, <3>1, <3>2, <3>3, ExpectedIs DEF Sweeping, Flushing, Asking, At
    <3> QED
      BY <1>1, <3>3, <3>4 DEF IInv, FirstInv
  <2> QED
    BY <2>1, <2>2
<1> QED
  BY <1>2, <1>5, <1>6, <1>7, <1>8 DEF Swept

LEMMA SweepBulk ==
  ASSUME TypeOK, IInv, VcBulk
  PROVE  SweepInv'
<1> SUFFICES ASSUME NEW t \in Callers, Sweeping(t), NEW b \in Of(call[t].port)
             PROVE  Swept(t, b)'
  BY DEF SweepInv, Sweeping, Of, VcBulk
<1>1. Swept(t, b) /\ b \in Buffers /\ PortOf[b] = call[t].port
  BY DEF IInv, SweepInv, Of
<1>2. /\ call' = call /\ Ask(t)' = Ask(t) /\ (Asking(t)' <=> Asking(t)) /\ (Told(t)' <=> Told(t))
  BY DEF VcBulk, Ask, Asking, Told, At
<1>3. PICK m \in ToSet(expect) : Takes(expect, expect', m) /\ UNCHANGED toVC
  BY BulkIs
<1>4. Taken(t)' <=> Taken(t)
  BY <1>2, <1>3 DEF Taken
<1>5. Asking(t) => ~Before(expect', Ask(t), Send(b))
  BY <1>1, <1>3 DEF Takes, Swept
<1>6. ASSUME Taken(t), call[t].op # "disable", ~(Asking(t) /\ Ask(t) \in ToSet(expect')),
             Send(b) \in ToSet(expect')
      PROVE  FALSE
  <2>1. Send(b) \in ToSet(expect)
    BY <1>3, <1>6 DEF Takes
  <2>2. Asking(t) /\ Ask(t) \in ToSet(expect)
    BY <1>1, <1>6, <2>1 DEF Swept
  <2>3. m = Ask(t)
    BY <1>3, <1>6, <2>2 DEF Takes
  <2>4. Before(expect, Ask(t), Send(b))
    BY <1>3, <1>6, <2>3 DEF Takes
  <2> QED
    BY <1>1, <2>2, <2>4 DEF Swept
<1> QED
  BY <1>1, <1>2, <1>3, <1>4, <1>5, <1>6 DEF Swept

LEMMA SweepStep ==
  ASSUME TypeOK, IInv, [Next]_vars
  PROVE  SweepInv'
<1>1. ASSUME UNCHANGED <<call, toVC, expect>> PROVE SweepInv'
  <2> SUFFICES ASSUME NEW t \in Callers, Sweeping(t), NEW b \in Of(call[t].port)
               PROVE  Swept(t, b)'
    BY <1>1 DEF SweepInv, Sweeping, Of
  <2>1. Swept(t, b)
    BY DEF IInv, SweepInv
  <2>2. /\ Ask(t)' = Ask(t) /\ (Asking(t)' <=> Asking(t)) /\ (Told(t)' <=> Told(t))
    BY <1>1 DEF Ask, Asking, Told, At
  <2> QED
    BY <1>1, <2>1, <2>2, SweptKeeps
<1>2. ASSUME Elsewhere \/ Aside PROVE SweepInv'
  <2>1. /\ UNCHANGED call
        /\ UNCHANGED expect \/ VcTake \/ VcBulk \/ VcReturn \/ VcAnswer
        /\ UNCHANGED toVC \/ VcTake
    BY <1>2, ElsewhereKeeps
  <2>2. VcReturn \/ VcAnswer => UNCHANGED <<toVC, expect>>
    BY DEF VcReturn, VcAnswer
  <2> QED
    BY <1>1, <2>1, <2>2, SweepTake, SweepBulk
<1> QED
  BY NextCases, <1>2, SweepCaller

-----------------------------------------------------------------------------
\* Data has been sent on a port before a flush of it that sends no transfer, or none
\* is on its way.
LEMMA SentDataStep ==
  ASSUME TypeOK, IInv, NEW t \in Callers, Quiet(t) \/ Moves(t)
  PROVE  \/ UNCHANGED sentData
         \/ \E b \in mine :
              /\ SendBegin(t) /\ b \in Buffers /\ PortOf[b] \in Ports /\ Carried(b)'
              /\ sending[PortOf[b]] = Nobody
              /\ \A p \in Ports \ {PortOf[b]} : sentData'[p] <=> sentData[p]
              /\ sentData'[PortOf[b]] <=> sentData[PortOf[b]] \/ PortOf[b] \in Inputs
              /\ \A c \in Buffers \ {b} : Carried(c)' <=> Carried(c)
<1>1. UNCHANGED sentData \/ SendBegin(t)
  BY QuietKeeps, MovesKeep
<1>2. CASE SendBegin(t)
  <2>1. \/ UNCHANGED <<mine, ctx, sentData>> /\ \A c \in Buffers : Carried(c)' <=> Carried(c)
        \/ \E b \in mine :
             /\ mine' = mine \ {b} /\ Carried(b)'
             /\ ctx[PortOf[b]] > 0 /\ ctx' = [ctx EXCEPT ![PortOf[b]] = @ - 1]
             /\ sentData' = [sentData EXCEPT ![PortOf[b]] = @ \/ PortOf[b] \in Inputs]
             /\ \A c \in Buffers \ {b} : Carried(c)' <=> Carried(c)
    BY <1>2, CarriedSteps, Zenon
  <2>2. ASSUME NEW b \in mine,
               sentData' = [sentData EXCEPT ![PortOf[b]] = @ \/ PortOf[b] \in Inputs]
        PROVE  /\ b \in Buffers /\ PortOf[b] \in Ports
               /\ \A p \in Ports \ {PortOf[b]} : sentData'[p] <=> sentData[p]
               /\ sentData'[PortOf[b]] <=> sentData[PortOf[b]] \/ PortOf[b] \in Inputs
    <3>1. b \in Buffers /\ PortOf[b] \in Ports /\ sentData \in [Ports -> BOOLEAN]
      BY PortAssumption DEF TypeOK, PortType
    <3> QED
      BY <2>2, <3>1
  <2>3. ASSUME NEW b \in mine, mine' = mine \ {b} PROVE sending[PortOf[b]] = Nobody
    BY <1>2, <2>3 DEF SendBegin, Free
  <2> QED
    BY <1>2, <2>1, <2>2, <2>3
<1> QED
  BY <1>1, <1>2

LEMMA FirstStep ==
  ASSUME TypeOK, IInv, [Next]_vars
  PROVE  FirstInv'
<1>1. /\ \A p \in Ports : sentData[p] => p \in Inputs
      /\ \A t \in Callers : call[t].op = "flush" /\ ~At(t, "flush") => ~sentData[call[t].port]
      /\ \A b \in Buffers : PortOf[b] \in Inputs /\ ~sentData[PortOf[b]] =>
           Send(b) \notin ToSet(toVC) /\ Send(b) \notin ToSet(expect) /\ ~Carried(b)
  BY DEF IInv, FirstInv
<1>2. ASSUME NEW t \in Callers, Quiet(t) \/ Moves(t) PROVE FirstInv'
  <2>1. Others(t) /\ UNCHANGED expect
    BY <1>2, OpSteps, QuietKeeps, MovesKeep
  <2>2. \/ UNCHANGED sentData
        \/ \E b \in mine :
              /\ SendBegin(t) /\ b \in Buffers /\ PortOf[b] \in Ports /\ Carried(b)'
              /\ sending[PortOf[b]] = Nobody
              /\ \A p \in Ports \ {PortOf[b]} : sentData'[p] <=> sentData[p]
              /\ sentData'[PortOf[b]] <=> sentData[PortOf[b]] \/ PortOf[b] \in Inputs
              /\ \A c \in Buffers \ {b} : Carried(c)' <=> Carried(c)
    BY <1>2, SentDataStep
  <2>3. \A p \in Ports : sentData'[p] => p \in Inputs
    BY <1>1, <2>2
  <2>4. \A p \in Ports : sentData[p] => sentData'[p]
    BY <2>2
  <2>5. ASSUME NEW u \in Callers, call'[u].op = "flush", ~At(u, "flush")'
        PROVE  ~sentData'[call'[u].port]
    <3>1. /\ call'[u].port = call[u].port /\ call[u].op = "flush" /\ call[u].port \in Ports
          /\ ~sentData[call[u].port]
          /\ SendBegin(t) => ~At(u, "flush")
      <4>1. CASE u # t
        BY <1>1, <2>1, <2>5, <4>1, CallerIs DEF Others, At, PortOps, Flushing
      <4>2. CASE u = t /\ ~FlushChoose(t)
        <5>1. ~SendBegin(t)
          BY <2>5, <4>2, ChoiceSteps DEF Begins, At
        <5>2. call[t].op = "flush" /\ call'[t].port = call[t].port /\ ~At(t, "flush")
          BY <1>2, <2>5, <4>2, <5>1, OpSteps DEF At
        <5> QED
          BY <1>1, <4>2, <5>1, <5>2, CallerIs DEF PortOps, Flushing
      <4>3. CASE u = t /\ FlushChoose(t)
        <5>1. Goes(t, "flush", "grab") /\ ~sentData[call[t].port]
          BY <2>5, <4>3, ChoiceSteps DEF Ends
        <5>2. call[t].op = "flush" /\ call'[t].port = call[t].port
          BY <2>5, <4>3, <5>1 DEF Goes, Stays
        <5>3. ~SendBegin(t)
          BY <5>1 DEF SendBegin, Begin, At, Goes
        <5> QED
          BY <4>3, <5>1, <5>2, <5>3, CallerIs DEF PortOps, Flushing
      <4> QED
        BY <4>1, <4>2, <4>3
    <3>2. CASE UNCHANGED sentData
      BY <3>1, <3>2
    <3>3. CASE SendBegin(t)
      <4>1. SendLocked(u, call[u].port)
        BY <3>1, <3>3 DEF SendLocked, Flushing
      <4>2. sending[call[u].port] = u /\ u # Nobody
        BY <3>1, <4>1, NameAssumption DEF IInv, LockInv, SendLockInv
      <4> QED
        BY <2>2, <3>1, <4>2
    <3> QED
      BY <2>2, <3>2, <3>3
  <2>6. ASSUME NEW b \in Buffers, PortOf[b] \in Inputs, ~sentData'[PortOf[b]]
        PROVE  Send(b) \notin ToSet(toVC') /\ Send(b) \notin ToSet(expect') /\ ~Carried(b)'
    <3>1. PortOf[b] \in Ports
      BY PortAssumption
    <3>2. ~sentData[PortOf[b]]
      BY <2>4, <2>6, <3>1
    <3>3. Send(b) \notin ToSet(toVC) /\ Send(b) \notin ToSet(expect) /\ ~Carried(b)
      BY <1>1, <2>6, <3>2
    <3>4. ~Carried(b)'
      <4>1. CASE SendBegin(t) /\ ~UNCHANGED sentData
        BY <2>2, <2>6, <3>3, <4>1
      <4>2. CASE SendBegin(t) /\ UNCHANGED sentData
        <5>1. \/ \A c \in Buffers : Carried(c)' <=> Carried(c)
              \/ \E x \in mine :
                   /\ sentData' = [sentData EXCEPT ![PortOf[x]] = @ \/ PortOf[x] \in Inputs]
                   /\ \A c \in Buffers \ {x} : Carried(c)' <=> Carried(c)
          BY <1>2, <4>2, CarriedSteps
        <5>2. ASSUME NEW x \in mine,
                     sentData' = [sentData EXCEPT ![PortOf[x]] = @ \/ PortOf[x] \in Inputs]
              PROVE  x # b
          <6>1. sentData \in [Ports -> BOOLEAN]
            BY DEF TypeOK, PortType
          <6> QED
            BY <2>6, <3>1, <5>2, <6>1
        <5> QED
          BY <3>3, <5>1, <5>2
      <4>3. CASE ~SendBegin(t)
        BY <1>2, <3>3, <4>3, CarriedSteps
      <4> QED
        BY <4>1, <4>2, <4>3
    <3>5. Send(b) \notin ToSet(toVC')
      <4>1. UNCHANGED toVC \/ SendMessage(t) \/ AskVC(t)
        BY <1>2, QuietKeeps, MovesKeep
      <4>2. CASE SendMessage(t)
        <5>1. Adds(toVC, toVC', Send(call[t].buf)) /\ call[t].buf \in Buffers /\ Carried(call[t].buf)
          BY <4>2, SentIs DEF Carried, At
        <5>2. Send(call[t].buf) # Send(b)
          BY <3>3, <5>1, HeadersDiffer
        <5> QED
          BY <3>3, <5>1, <5>2 DEF Adds
      <4>3. CASE AskVC(t)
        BY <3>3, <4>3, AskedIs, MessagesDiffer DEF Adds
      <4> QED
        BY <3>3, <4>1, <4>2, <4>3
    <3> QED
      BY <2>1, <3>3, <3>4, <3>5
  <2> QED
    BY <2>3, <2>5, <2>6 DEF FirstInv
<1>3. ASSUME Elsewhere \/ Aside PROVE FirstInv'
  <2>1. /\ UNCHANGED <<call, sentData>> /\ (UNCHANGED toVC \/ VcTake)
        /\ UNCHANGED expect \/ VcTake \/ VcBulk \/ VcReturn \/ VcAnswer
    BY <1>3, ElsewhereKeeps
  <2>2. VcReturn \/ VcAnswer => UNCHANGED <<toVC, expect>>
    BY DEF VcReturn, VcAnswer
  <2>3. ASSUME NEW m, m \in ToSet(toVC') \cup ToSet(expect') PROVE m \in ToSet(toVC) \cup ToSet(expect)
    <3>1. CASE VcTake
      BY <2>3, <3>1, TakeIs DEF Takes, Adds
    <3>2. CASE VcBulk
      BY <2>3, <3>2, BulkIs DEF Takes
    <3> QED
      BY <2>1, <2>2, <2>3, <3>1, <3>2
  <2>4. \A b \in Buffers : Carried(b)' <=> Carried(b)
    BY <2>1, CarriedKeeps
  <2>5. \A u \in Callers : At(u, "flush")' <=> At(u, "flush")
    BY <2>1 DEF At
  <2> QED
    BY <1>1, <2>1, <2>3, <2>4, <2>5 DEF FirstInv
<1> QED
  BY NextCases, <1>2, <1>3

-----------------------------------------------------------------------------
\* A disable that goes on keeps its request; the header that others send is of
\* another port.
LEMMA DisableSteps ==
  ASSUME TypeOK, IInv, NEW t \in Callers, Quiet(t) \/ Moves(t), call'[t].op = "disable"
  PROVE  /\ \/ call[t].op = "disable" /\ call'[t].port = call[t].port
            \/ ~Asking(t)' /\ ~Told(t)' /\ ~At(t, "drain")' /\ ~At(t, "transit")'
         /\ At(t, "drain")' => At(t, "drain") \/ Told(t)
         /\ At(t, "transit")' => At(t, "transit") \/ DrainEnd(t)
<1>1. CASE call[t].op = "disable" /\ call'[t].port = call[t].port
  <2>1. At(t, "drain")' => At(t, "drain") \/ Told(t)
    <3>1. CASE Answered(t)
      <4>1. call[t].at = "done" /\ call[t].ok
        BY <1>1, <3>1, CallerIs, ChoiceSteps DEF Ends, Goes
      <4> QED
        BY <4>1 DEF Told
    <3>2. CASE FlushChoose(t) \/ Pick(t) \/ AskFails(t) \/ SendBegin(t)
      BY <1>1, <3>2, ChoiceSteps DEF Ends, Goes, Begins, At
    <3>3. CASE ~Answered(t) /\ ~(FlushChoose(t) \/ Pick(t) \/ AskFails(t) \/ SendBegin(t))
      BY <3>3, CallSteps DEF Quiet, Moves, Goes, Ends, Begins, At
    <3> QED
      BY <3>1, <3>2, <3>3
  <2>2. At(t, "transit")' => At(t, "transit") \/ DrainEnd(t)
    <3>1. CASE Answered(t) \/ FlushChoose(t) \/ Pick(t) \/ AskFails(t) \/ SendBegin(t)
      BY <3>1, ChoiceSteps DEF Ends, Goes, Begins, At
    <3>2. CASE ~(Answered(t) \/ FlushChoose(t) \/ Pick(t) \/ AskFails(t) \/ SendBegin(t))
      BY <3>2, CallSteps DEF Quiet, Moves, Goes, Ends, Begins, At
    <3> QED
      BY <3>1, <3>2
  <2> QED
    BY <1>1, <2>1, <2>2
<1>2. CASE ~(call[t].op = "disable" /\ call'[t].port = call[t].port)
  <2>1. \E p \in Ports : DisableBegin(t, p)
    <3>1. ~FlushChoose(t)
      BY ChoiceSteps, CallerIs DEF Goes, Ends, At
    <3>2. ~SendBegin(t)
      BY ChoiceSteps DEF Begins
    <3>3. PICK p \in Ports : FlushBegin(t, p) \/ DisableBegin(t, p) \/ EnableBegin(t, p)
      BY <1>2, <3>1, <3>2, OpSteps
    <3>4. ~FlushBegin(t, p) /\ ~EnableBegin(t, p)
      BY CallSteps DEF Begins
    <3> QED
      BY <3>3, <3>4
  <2>2. call'[t].at = "action lock"
    BY <2>1, CallSteps DEF Begins
  <2> QED
    BY <2>2 DEF Asking, Told, At
<1> QED
  BY <1>1, <1>2

LEMMA FoundKeeps ==
  ASSUME NEW t \in Callers, NEW b, Found(t, b),
         Asking(t)' => Asking(t), Reply(t)' = Reply(t), Back(t)' => Back(t),
         At(t, "transit")' => At(t, "transit"), UNCHANGED <<expect, vcHas, bulkRx, toHost>>,
         b \in mine => b \in mine', b \in ToSet(cbq) => b \in ToSet(cbq') \/ b \in mine'
  PROVE  Found(t, b)'
BY DEF Found

LEMMA DisableCaller ==
  ASSUME TypeOK, IInv, NEW t \in Callers, Quiet(t) \/ Moves(t)
  PROVE  DisableInv'
<1> SUFFICES ASSUME NEW u \in Callers, call'[u].op = "disable", NEW b \in Of(call'[u].port)
             PROVE  Found(u, b)'
  BY DEF DisableInv, Of
<1>1. /\ Others(t) /\ UNCHANGED <<expect, vcHas, bulkRx, toHost>>
      /\ UNCHANGED replied \/ Wake(t)
      /\ UNCHANGED cbq \/ DrainOne(t)
      /\ UNCHANGED mine \/ SendBegin(t) \/ SendFails(t) \/ DrainOne(t)
  BY OpSteps, QuietKeeps, MovesKeep
<1>2. b \in Buffers /\ PortOf[b] = call'[u].port
  BY DEF Of
<1>3. CASE ~Asking(u)' /\ ~Told(u)' /\ ~At(u, "drain")' /\ ~At(u, "transit")'
  BY <1>3 DEF Found, Back
<1>4. CASE ~(~Asking(u)' /\ ~Told(u)' /\ ~At(u, "drain")' /\ ~At(u, "transit")')
  <2>1. call[u].op = "disable" /\ call'[u].port = call[u].port
    <3>1. CASE u = t
      BY <1>4, <3>1, DisableSteps
    <3>2. CASE u # t
      BY <1>1, <3>2 DEF Others
    <3> QED
      BY <3>1, <3>2
  <2>2. Found(u, b) /\ call[u].port \in Ports
    <3>1. b \in Of(call[u].port)
      BY <2>1
    <3> QED
      BY <2>1, <3>1, CallerIs DEF IInv, DisableInv, PortOps
  <2>3. b \in mine => b \in mine'
    <3>1. CASE SendBegin(t)
      <4>1. UNCHANGED mine \/ \E x \in mine : mine' = mine \ {x} /\ on[PortOf[x]]
        BY <3>1, ChoiceSteps
      <4>2. ~on[PortOf[b]]
        BY <1>2, <2>1, <2>2 DEF Switching, IInv, LifeInv, OnInv
      <4> QED
        BY <4>1, <4>2
    <3>2. CASE SendFails(t) \/ DrainOne(t)
      BY <3>2 DEF SendFails, DrainOne
    <3> QED
      BY <1>1, <3>1, <3>2
  <2>4. b \in ToSet(cbq) => b \in ToSet(cbq') \/ b \in mine'
    <3>1. CASE DrainOne(t)
      BY <3>1, DeliverIs DEF Takes
    <3> QED
      BY <1>1, <3>1
  <2>5. CASE u # t
    <3>1. /\ Asking(u)' <=> Asking(u)
          /\ Told(u)' <=> Told(u)
          /\ At(u, "drain")' <=> At(u, "drain")
          /\ At(u, "transit")' <=> At(u, "transit")
          /\ call'[u].w = call[u].w /\ Reply(u)' = Reply(u)
      BY <1>1, <2>5 DEF Others, Asking, Told, At, Reply
    <3>2. Asking(u) => replied'[call[u].w] = replied[call[u].w]
      <4>1. CASE Wake(t) /\ Asking(u)
        <5>1. /\ replied' = [replied EXCEPT ![call[t].w] = @ - 1] /\ Asking(t)
              /\ replied \in [Waiters -> {0, 1}]
          BY <4>1, AskingSteps DEF Wake, TypeOK, WaitType
        <5>2. call[u].w # call[t].w /\ call[u].w \in Waiters
          BY <2>5, <4>1, <5>1, HolderIs, CallerIs DEF Holding
        <5> QED
          BY <5>1, <5>2
      <4> QED
        BY <1>1, <4>1
    <3>3. Back(u)' => Back(u)
      BY <3>1, <3>2 DEF Back
    <3> QED
      BY <1>1, <2>2, <2>3, <2>4, <3>1, <3>3, FoundKeeps
  <2>6. CASE u = t /\ AskVC(t)
    <3>1. /\ Reply(t) \notin ToSet(toHost) /\ replied[call[t].w] # 1 /\ UNCHANGED <<toHost, replied>>
      BY <2>6, AskedIs
    <3>2. /\ Asking(t)' /\ Same(t) /\ Reply(t)' = Reply(t)
      BY <2>6, AskingSteps, SameAsk
    <3>3. ~Told(t)' /\ ~At(t, "drain")' /\ ~At(t, "transit")'
      BY <3>2 DEF Asking, Told, At
    <3> QED
      BY <2>6, <3>1, <3>2, <3>3 DEF Found, Back, Same
  <2>7. CASE u = t /\ Wake(t)
    <3>1. Asking(t) /\ ~Asking(t)' /\ call'[t].at = "release" /\ replied[call[t].w] > 0
      BY <2>7, AskingSteps DEF Wake
    <3>2. replied[call[t].w] = 1
      <4>1. call[t].w \in Waiters /\ replied \in [Waiters -> {0, 1}]
        BY <3>1, CallerIs DEF Holding, TypeOK, WaitType
      <4> QED
        BY <3>1, <4>1
    <3>3. b \in mine \/ b \in ToSet(cbq)
      BY <2>2, <2>7, <3>1, <3>2 DEF Found, Back
    <3> QED
      BY <2>3, <2>4, <2>7, <3>1, <3>3 DEF Found, At
  <2>8. CASE u = t /\ ~AskVC(t) /\ ~Wake(t)
    <3>1. (Asking(t)' <=> Asking(t)) /\ (Asking(t) => Same(t)) /\ (Told(t)' => Told(t))
      BY <2>8, AskingSteps, ToldSteps
    <3>2. /\ At(t, "drain")' => At(t, "drain") \/ Told(t)
          /\ At(t, "transit")' => At(t, "transit") \/ DrainEnd(t)
      BY <2>8, DisableSteps
    <3>3. Back(t)' => Back(t)
      BY <1>1, <2>8, <3>1, <3>2 DEF Back, Same
    <3>4. Asking(t) => Reply(t)' = Reply(t)
      BY <3>1, SameAsk
    <3>5. At(t, "transit")' => b \in mine'
      <4>1. CASE DrainEnd(t)
        <5>1. cbq = <<>> /\ At(t, "drain") /\ ToSet(cbq) = {}
          BY <4>1, QueuesAre, QueueIs DEF DrainEnd
        <5>2. b \in mine
          BY <2>2, <2>8, <5>1 DEF Found, Back
        <5> QED
          BY <2>3, <5>2
      <4>2. CASE At(t, "transit")
        BY <2>2, <2>3, <2>8, <4>2 DEF Found
      <4> QED
        BY <3>2, <4>1, <4>2
    <3>6. Back(t)' => b \in mine' \/ b \in ToSet(cbq')
      BY <2>2, <2>3, <2>4, <2>8, <3>3 DEF Found
    <3> QED
      BY <1>1, <2>2, <2>8, <3>1, <3>4, <3>5, <3>6 DEF Found
  <2> QED
    BY <2>5, <2>6, <2>7, <2>8
<1> QED
  BY <1>3, <1>4

\* A step that is of no call: the reply may be sent, pass the headers, or come.
LEMMA FoundIs ==
  ASSUME TypeOK, IInv, UNCHANGED call, NEW t \in Callers, NEW b, Found(t, b),
         Asking(t) /\ Reply(t) \in ToSet(toHost') =>
           /\ Send(b) \notin ToSet(expect') /\ b \notin vcHas' /\ b \notin ToSet(bulkRx')
           /\ Data(b) \notin ToSet(toHost') /\ ~Before(toHost', Reply(t), Plain(b)),
         (Asking(t) /\ replied'[call[t].w] = 1 => b \in mine \/ b \in ToSet(cbq)),
         b \in mine => b \in mine', b \in ToSet(cbq) => b \in ToSet(cbq') \/ b \in mine'
  PROVE  Found(t, b)'
<1>1. /\ Reply(t)' = Reply(t) /\ (Asking(t)' <=> Asking(t)) /\ (Told(t)' <=> Told(t))
      /\ At(t, "drain")' <=> At(t, "drain")
      /\ At(t, "transit")' <=> At(t, "transit")
  BY DEF Reply, Asking, Told, At
<1>2. Back(t)' => b \in mine \/ b \in ToSet(cbq)
  BY <1>1 DEF Back, Found
<1> QED
  BY <1>1, <1>2 DEF Found

LEMMA DisableVideo ==
  ASSUME TypeOK, IInv, VcTake \/ VcBulk \/ VcReturn \/ VcAnswer
  PROVE  DisableInv'
<1>1. UNCHANGED <<call, replied, mine, cbq, bulkRx>>
  BY DEF VcTake, VcBulk, VcReturn, VcAnswer
<1> SUFFICES ASSUME NEW t \in Callers, call[t].op = "disable", NEW b \in Of(call[t].port)
             PROVE  Found(t, b)'
  BY <1>1 DEF DisableInv, Of
<1>2. Found(t, b) /\ b \in Buffers /\ PortOf[b] = call[t].port
  BY DEF IInv, DisableInv, Of
<1>3. Asking(t) /\ replied'[call[t].w] = 1 => b \in mine \/ b \in ToSet(cbq)
  BY <1>1, <1>2 DEF Found, Back
<1>4. SUFFICES ASSUME Asking(t), Reply(t) \in ToSet(toHost')
               PROVE  /\ Send(b) \notin ToSet(expect') /\ b \notin vcHas'
                      /\ Data(b) \notin ToSet(toHost') /\ ~Before(toHost', Reply(t), Plain(b))
                      /\ b \notin ToSet(bulkRx)
  BY <1>1, <1>2, <1>3, FoundIs
<1>5. Holding(t) /\ Reply(t) # Data(b) /\ Reply(t) # Plain(b) /\ Ask(t) # Send(b)
  BY <1>2, <1>4, MessagesDiffer DEF Holding
<1>6. Reply(t) \in ToSet(toHost) =>
        /\ Send(b) \notin ToSet(expect) /\ b \notin vcHas /\ b \notin ToSet(bulkRx)
        /\ Data(b) \notin ToSet(toHost) /\ ~Before(toHost, Reply(t), Plain(b))
        /\ Send(b) \notin ToSet(toVC)
  <2>1. Reply(t) \in ToSet(toHost) => Ask(t) \notin ToSet(toVC)
    BY <1>4, OneAnswer DEF IInv
  <2>2. Swept(t, b)
    BY <1>2 DEF IInv, SweepInv, Sweeping
  <2> QED
    BY <1>2, <1>4, <2>1, <2>2 DEF Found, Swept, Taken
<1>7. CASE VcTake
  <2>1. PICK m \in ToSet(toVC) :
           /\ UNCHANGED toHost
           /\ \/ ToSet(expect') = ToSet(expect) \cup {m} /\ vcHas' = vcHas
              \/ expect' = expect /\ \E c \in Buffers : m = Send(c) /\ vcHas' = vcHas \cup {c}
              \/ expect' = expect /\ vcHas' = vcHas
    BY <1>7, TakeIs DEF Adds
  <2> QED
    BY <1>2, <1>4, <1>6, <2>1
<1>8. CASE VcBulk
  <2>1. PICK m \in ToSet(expect) :
           /\ UNCHANGED toHost /\ ToSet(expect') = ToSet(expect) \ {m}
           /\ \/ \E c \in Buffers : m = Send(c) /\ vcHas' = vcHas \cup {c}
              \/ vcHas' = vcHas
    BY <1>8, BulkIs DEF Takes
  <2> QED
    BY <1>2, <1>4, <1>6, <2>1
<1>9. CASE VcReturn
  <2>1. PICK c \in vcHas, e \in FromVC :
            /\ c \in Buffers /\ vcHas' = vcHas \ {c} /\ Adds(toHost, toHost', e)
            /\ e = IF PortOf[c] \in Inputs THEN Plain(c) ELSE Data(c)
            /\ UNCHANGED expect
    BY <1>9, VcReturnIs
  <2>2. e # Reply(t)
    BY <1>4, <2>1, MessagesDiffer DEF Holding
  <2>3. Reply(t) \in ToSet(toHost)
    BY <1>4, <2>1, <2>2 DEF Adds
  <2>4. c # b
    BY <1>6, <2>1, <2>3
  <2>5. e # Data(b) /\ e # Plain(b)
    BY <1>2, <2>1, <2>4, HeadersDiffer
  <2> QED
    BY <1>6, <2>1, <2>3, <2>5 DEF Adds
<1>10. CASE VcAnswer
  <2>1. PICK u \in Callers, back \in SUBSET vcHas :
            /\ Asking(u) /\ Ask(u) \in jobs /\ vcHas' = vcHas \ back
            /\ call[u].op = "disable" =>
                    back = vcHas \cap Of(call[u].port) /\ Transfers(call[u].port) = {}
            /\ toHost' \in Seq(FromVC)
            /\ ToSet(toHost') = ToSet(toHost) \cup {Plain(c) : c \in back} \cup {Reply(u)}
            /\ \A x, y : Before(toHost', x, y) =>
                    Before(toHost, x, y) \/ (y \notin ToSet(toHost) /\ x # Reply(u))
    BY <1>10, AnsweredIs
  <2>2. UNCHANGED expect
    BY <1>10 DEF VcAnswer
  <2>3. back \subseteq Buffers
    BY DEF TypeOK, QueueType
  <2>4. /\ \A c \in back : Plain(c) # Reply(t) /\ Plain(c) # Data(b) /\ (c # b => Plain(c) # Plain(b))
        /\ Holding(u) /\ Reply(u) # Data(b) /\ Reply(u) # Plain(b)
    BY <1>2, <1>4, <2>1, <2>3, MessagesDiffer, HeadersDiffer DEF Holding
  <2>5. CASE u # t
    <3>1. Reply(t) \in ToSet(toHost)
      BY <1>4, <2>1, <2>4, <2>5, AsksDiffer
    <3>2. b \notin back
      BY <1>6, <2>1, <3>1
    <3>3. Data(b) \notin ToSet(toHost')
      BY <1>6, <2>1, <2>4, <3>1
    <3>4. Plain(b) \in ToSet(toHost') => Plain(b) \in ToSet(toHost)
      BY <2>1, <2>4, <3>2
    <3>5. Before(toHost', Reply(t), Plain(b)) => Plain(b) \in ToSet(toHost')
      BY <2>1, QueueIs
    <3> QED
      BY <1>6, <2>1, <2>2, <3>1, <3>3, <3>4, <3>5
  <2>6. CASE u = t
    <3>1. /\ back = vcHas \cap Of(call[t].port) /\ Transfers(call[t].port) = {}
          /\ Reply(t) \notin ToSet(toHost)
      BY <1>4, <2>1, <2>6, OneAnswer DEF IInv
    <3>2. b \notin vcHas'
      BY <2>1, <3>1
    <3>3. Send(b) \notin ToSet(expect)
      <4>1. SUFFICES ASSUME NEW i \in DOMAIN expect, expect[i] = Send(b) PROVE FALSE
        BY DEF ToSet
      <4>2. expect[i].buf = b
        BY <1>2, <4>1, MessageIs
      <4> QED
        BY <3>1, <4>2 DEF Transfers
    <3>4. b \notin ToSet(bulkRx)
      BY <3>1 DEF Transfers, ToSet
    <3>5. Data(b) \notin ToSet(toHost)
      BY <3>1 DEF Transfers, ToSet, Data
    <3>6. Data(b) \notin ToSet(toHost')
      BY <2>1, <2>4, <3>5
    <3>7. ~Before(toHost', Reply(t), Plain(b))
      <4>1. Before(toHost, Reply(t), Plain(b)) => Reply(t) \in ToSet(toHost)
        BY QueuesAre, QueueIs
      <4> QED
        BY <2>1, <2>6, <3>1, <4>1
    <3> QED
      BY <2>2, <3>2, <3>3, <3>4, <3>6, <3>7
  <2> QED
    BY <2>5, <2>6
<1> QED
  BY <1>7, <1>8, <1>9, <1>10

LEMMA DisableHost ==
  ASSUME TypeOK, IInv, HostReply \/ HostBuffer \/ HostBulk \/ HostQueue \/ ActionDeliver
  PROVE  DisableInv'
<1>1. UNCHANGED <<call, expect, vcHas>> /\ (HostReply => UNCHANGED <<mine, cbq, bulkRx>>)
  BY DEF HostReply, HostBuffer, HostBulk, HostQueue, ActionDeliver
<1> SUFFICES ASSUME NEW t \in Callers, call[t].op = "disable", NEW b \in Of(call[t].port)
             PROVE  Found(t, b)'
  BY <1>1 DEF DisableInv, Of
<1>2. Found(t, b) /\ b \in Buffers /\ PortOf[b] = call[t].port
  BY DEF IInv, DisableInv, Of
<1>3. Asking(t) => Holding(t) /\ Reply(t) # Data(b) /\ Reply(t) # Plain(b) /\ call[t].w \in Waiters
  BY <1>2, MessagesDiffer, CallerIs DEF Holding
<1>4. CASE HostReply
  <2>1. PICK u \in Callers :
            /\ Asking(u) /\ Takes(toHost, toHost', Reply(u)) /\ call[u].w \in Waiters
            /\ replied' = [replied EXCEPT ![call[u].w] = 1]
    BY <1>4, HostReplyIs
  <2>2. replied \in [Waiters -> {0, 1}]
    BY DEF TypeOK, WaitType
  <2>3. Asking(t) /\ Reply(t) \in ToSet(toHost') =>
           /\ Send(b) \notin ToSet(expect') /\ b \notin vcHas' /\ b \notin ToSet(bulkRx')
           /\ Data(b) \notin ToSet(toHost') /\ ~Before(toHost', Reply(t), Plain(b))
    BY <1>1, <1>2, <1>4, <2>1 DEF Takes, Found
  <2>4. ASSUME Asking(t), replied'[call[t].w] = 1 PROVE b \in mine \/ b \in ToSet(cbq)
    <3>1. CASE replied[call[t].w] = 1
      BY <1>2, <2>4, <3>1 DEF Found, Back
    <3>2. CASE replied[call[t].w] # 1
      <4>1. u = t
        <5>1. call[u].w = call[t].w
          BY <1>3, <2>1, <2>2, <2>4, <3>2
        <5> QED
          BY <2>1, <2>4, <5>1, HolderIs DEF Holding
      <4>2. (Reply(t) \in ToSet(toHost) /\ Before(toHost, Reply(t), Plain(b))) \/ Plain(b) \notin ToSet(toHost)
        BY <1>3, <2>1, <2>4, <4>1 DEF Takes
      <4>3. Reply(t) \in ToSet(toHost)
        BY <2>1, <4>1 DEF Takes
      <4>4. /\ Send(b) \notin ToSet(expect) /\ b \notin vcHas /\ b \notin ToSet(bulkRx)
            /\ Data(b) \notin ToSet(toHost) /\ ~Before(toHost, Reply(t), Plain(b))
        BY <1>2, <2>4, <4>3 DEF Found
      <4>5. Send(b) \notin ToSet(toVC)
        <5>1. Ask(t) \notin ToSet(toVC)
          BY <2>4, <4>3, OneAnswer DEF IInv
        <5> QED
          BY <1>2, <2>4, <5>1 DEF IInv, SweepInv, Sweeping, Swept, Taken
      <4>6. ~Carried(b)
        <5>1. SUFFICES ASSUME NEW v \in Callers, At(v, "message"), call[v].buf = b PROVE FALSE
          BY DEF Carried
        <5> QED
          BY <1>2, <2>4, <5>1, NoSender DEF Sweeping
      <4>7. host # b
        BY <1>2, <1>4, NameAssumption DEF HostReply, Free
      <4> QED
        BY <1>2, <4>2, <4>4, <4>5, <4>6, <4>7, OnePlace DEF IInv
    <3> QED
      BY <3>1, <3>2
  <2> QED
    BY <1>1, <1>2, <1>4, <2>3, <2>4, FoundIs
<1>5. CASE ~HostReply
  <2>1. UNCHANGED replied
    BY <1>5 DEF HostBuffer, HostBulk, HostQueue, ActionDeliver
  <2>2. Asking(t) /\ replied'[call[t].w] = 1 => b \in mine \/ b \in ToSet(cbq)
    BY <1>2, <2>1 DEF Found, Back
  <2>3. CASE HostBuffer
    <3>1. PICK c \in Buffers :
            /\ \/ Takes(toHost, toHost', Data(c)) /\ Adds(bulkRx, bulkRx', c)
               \/ Takes(toHost, toHost', Plain(c)) /\ UNCHANGED bulkRx
            /\ UNCHANGED <<mine, cbq>>
      BY <2>3, HostBufferIs
    <3>2. Asking(t) /\ Reply(t) \in ToSet(toHost') =>
           /\ Send(b) \notin ToSet(expect') /\ b \notin vcHas' /\ b \notin ToSet(bulkRx')
           /\ Data(b) \notin ToSet(toHost') /\ ~Before(toHost', Reply(t), Plain(b))
      BY <1>1, <1>2, <3>1 DEF Takes, Adds, Found
    <3> QED
      BY <1>1, <1>2, <2>2, <3>1, <3>2, FoundIs
  <2>4. CASE HostBulk
    <3>1. ToSet(bulkRx') \subseteq ToSet(bulkRx) /\ UNCHANGED <<toHost, mine, cbq>>
      BY <2>4, HostBulkIs DEF Takes
    <3> QED
      BY <1>1, <1>2, <2>2, <3>1, FoundIs DEF Found
  <2>5. CASE HostQueue
    <3>1. ToSet(cbq) \subseteq ToSet(cbq') /\ UNCHANGED <<bulkRx, toHost, mine>>
      BY <2>5, HostQueueIs DEF Adds
    <3> QED
      BY <1>1, <1>2, <2>2, <3>1, FoundIs DEF Found
  <2>6. CASE ActionDeliver
    <3>1. PICK c \in Buffers :
            Takes(cbq, cbq', c) /\ mine' = mine \cup {c} /\ UNCHANGED <<bulkRx, toHost>>
      BY <2>6, DeliverIs
    <3>2. ToSet(cbq) \subseteq ToSet(cbq') \cup mine'
      BY <3>1 DEF Takes
    <3> QED
      BY <1>1, <1>2, <2>2, <3>1, <3>2, FoundIs DEF Found
  <2> QED
    BY <1>5, <2>3, <2>4, <2>5, <2>6
<1> QED
  BY <1>4, <1>5

LEMMA DisableStep ==
  ASSUME TypeOK, IInv, [Next]_vars
  PROVE  DisableInv'
<1>1. ASSUME Aside PROVE DisableInv'
  <2>1. UNCHANGED <<call, expect, vcHas, bulkRx, toHost, replied, mine, cbq>>
    BY <1>1 DEF Aside, ActionWake, ActionBegin, ActionEnd, vars
  <2> SUFFICES ASSUME NEW t \in Callers, call[t].op = "disable", NEW b \in Of(call[t].port)
               PROVE  Found(t, b)'
    BY <2>1 DEF DisableInv, Of
  <2>2. Found(t, b)
    BY DEF IInv, DisableInv
  <2>3. Asking(t) /\ replied'[call[t].w] = 1 => b \in mine \/ b \in ToSet(cbq)
    BY <2>1, <2>2 DEF Found, Back
  <2> QED
    BY <2>1, <2>2, <2>3, FoundIs DEF Found
<1> QED
  BY NextCases, <1>1, DisableCaller, DisableVideo, DisableHost DEF Elsewhere

-----------------------------------------------------------------------------
\* What is announced: a header of an input, or the flush of a caller, and which
\* transfer is the one it announces.
LEMMA AnnouncedIs ==
  ASSUME TypeOK, IInv, NEW m \in Announcing
  PROVE  /\ m \in ToSet(expect) \cup ToSet(toVC) /\ Announces(m)
         /\ \/ \E b \in Buffers : m = Send(b) /\ Key(m) = b
            \/ \E t \in Callers : Asking(t) /\ call[t].op = "flush sync" /\ m = Ask(t) /\ Key(m) = t
<1>1. m \in ToSet(expect) \cup ToSet(toVC) /\ Announces(m)
  BY DEF Announcing
<1>2. CASE \E b \in Buffers : m = Send(b)
  BY <1>1, <1>2, MessageIs DEF Key
<1>3. CASE \E t \in Callers : Asking(t) /\ m = Ask(t)
  <2>1. PICK t \in Callers : Asking(t) /\ m = Ask(t)
    BY <1>3
  <2>2. Holding(t) /\ Ask(t).op # "buffer" /\ Ask(t).who = t
    BY <2>1, AskIs DEF Holding
  <2>3. call[t].op = "flush sync"
    BY <1>1, <2>1, <2>2, ExpectedIs
  <2> QED
    BY <1>1, <2>1, <2>2, <2>3 DEF Key
<1> QED
  BY <1>1, <1>2, <1>3, MessageOf

LEMMA KeysDiffer ==
  ASSUME TypeOK, IInv, NEW m \in Announcing, NEW n \in Announcing, Key(m) = Key(n)
  PROVE  m = n
<1>1. CASE \E b \in Buffers : m = Send(b) /\ Key(m) = b
  BY <1>1, AnnouncedIs, NameAssumption
<1>2. CASE \E t \in Callers : m = Ask(t) /\ Key(m) = t
  BY <1>2, AnnouncedIs, NameAssumption
<1> QED
  BY <1>1, <1>2, AnnouncedIs

\* Two announcements are in one order.
LEMMA OneOrder ==
  ASSUME TypeOK, IInv, NEW m \in Announcing, NEW n \in Announcing, Ahead(m, n)
  PROVE  m \in ToSet(expect) \/ n \in ToSet(toVC)
BY QueuesAre, QueueIs DEF Ahead

\* The first transfer is that of the first message that expects one.
LEMMA HeadsMatch ==
  ASSUME TypeOK, IInv, expect # <<>>, bulkTx # <<>>
  PROVE  Key(Head(expect)) = Head(bulkTx) /\ Head(expect) \in Announcing
<1> DEFINE m == Head(expect)  k == Head(bulkTx)
<1>1. /\ m \in ToSet(expect) /\ \A a \in ToSet(Tail(expect)) : Before(expect, m, a)
      /\ ToSet(Tail(expect)) = ToSet(expect) \ {m}
  BY QueuesAre, TailIs
<1>2. /\ k \in ToSet(bulkTx) /\ \A a \in ToSet(Tail(bulkTx)) : Before(bulkTx, k, a)
      /\ ToSet(Tail(bulkTx)) = ToSet(bulkTx) \ {k}
  BY QueuesAre, TailIs
<1> HIDE DEF m, k
<1>3. m \in Announcing
  BY <1>1 DEF Announcing, IInv, QueueInv
<1>4. PICK n \in Announcing : Key(n) = k
  BY <1>2 DEF IInv, TransferInv
<1>5. n # m => Ahead(m, n)
  BY <1>1 DEF Announcing, Ahead
<1>6. Key(m) \in ToSet(bulkTx)
  <2>1. SUFFICES ASSUME Pending(Key(m)) PROVE FALSE
    BY <1>3 DEF IInv, TransferInv
  <2>2. ~Ahead(m, n) /\ k # Key(m)
    BY <1>2, <1>3, <1>4, <2>1 DEF IInv, TransferInv
  <2> QED
    BY <1>4, <1>5, <2>2
<1>7. ASSUME Key(m) # k PROVE FALSE
  <2>1. Before(bulkTx, k, Key(m))
    BY <1>2, <1>6, <1>7
  <2>2. ~Ahead(m, n)
    BY <1>3, <1>4, <2>1 DEF IInv, TransferInv
  <2> QED
    BY <1>4, <1>5, <1>7, <2>2
<1> QED
  BY <1>3, <1>7 DEF m, k

\* A message that announces a transfer is queued by the thread that has the bulk
\* lock, which sends the transfer next.
LEMMA TransferAnnounced ==
  ASSUME TypeOK, IInv, NEW m, Announces(m), Adds(toVC, toVC', m), UNCHANGED <<expect, bulkTx>>,
         m \notin ToSet(expect), \A n \in Announcing : Key(n) # Key(m),
         \A k : ~Pending(k), \A k : Pending(k)' <=> k = Key(m)
  PROVE  TransferInv'
<1>1. TransferInv
  BY DEF IInv
<1>2. \A n : n \in Announcing' <=> n \in Announcing \/ n = m
  BY DEF Announcing, Adds
<1>3. \A n : Before(expect, m, n) => FALSE
  BY QueuesAre, QueueIs
<1>4. \A n : Before(toVC, m, n) => FALSE
  BY QueuesAre, QueueIs DEF Adds
<1>5. \A n : ~Ahead(m, n)'
  BY <1>3, <1>4 DEF Ahead, Adds
<1>6. \A n, o \in Announcing : Ahead(n, o)' => Ahead(n, o)
  <2> SUFFICES ASSUME NEW n \in Announcing, NEW o \in Announcing, Ahead(n, o)' PROVE Ahead(n, o)
    OBVIOUS
  <2>1. n # m /\ o # m
    OBVIOUS
  <2> QED
    BY <2>1 DEF Ahead, Adds
<1>7. \A n \in Announcing' : Key(n) \in ToSet(bulkTx') \/ Pending(Key(n))'
  BY <1>1, <1>2 DEF TransferInv
<1>8. \A k : k \in ToSet(bulkTx') \/ Pending(k)' => \E n \in Announcing' : Key(n) = k
  BY <1>1, <1>2 DEF TransferInv
<1>9. Key(m) \notin ToSet(bulkTx)
  BY <1>1 DEF TransferInv
<1>10. \A k \in ToSet(bulkTx') : ~Pending(k)'
  BY <1>9
<1>11. ASSUME NEW n \in Announcing', NEW o \in Announcing', Before(bulkTx', Key(n), Key(o))
       PROVE  ~Ahead(o, n)'
  <2>1. Key(n) \in ToSet(bulkTx) /\ Key(o) \in ToSet(bulkTx) /\ Before(bulkTx, Key(n), Key(o))
    BY <1>11, QueuesAre, QueueIs
  <2>2. n \in Announcing /\ o \in Announcing
    BY <1>2, <1>9, <1>11, <2>1
  <2> QED
    BY <1>1, <1>6, <2>1, <2>2 DEF TransferInv
<1>12. ASSUME NEW n \in Announcing', NEW o \in Announcing', Pending(Key(n))' PROVE ~Ahead(n, o)'
  BY <1>2, <1>5, <1>12
<1> QED
  BY <1>7, <1>8, <1>10, <1>11, <1>12 DEF TransferInv, Key

\* A step that changes neither the announcements nor the transfers.
LEMMA TransfersKeep ==
  ASSUME IInv, \A n : n \in Announcing' <=> n \in Announcing, UNCHANGED bulkTx,
         \A k : Pending(k)' <=> Pending(k),
         \A n, o \in Announcing : Ahead(n, o)' => Ahead(n, o)
  PROVE  TransferInv'
<1>1. TransferInv
  BY DEF IInv
<1>2. \A n, o \in Announcing' : Before(bulkTx', Key(n), Key(o)) => ~Ahead(o, n)'
  BY <1>1 DEF TransferInv
<1>3. \A n, o \in Announcing' : Pending(Key(n))' => ~Ahead(n, o)'
  BY <1>1 DEF TransferInv
<1>4. \A n \in Announcing' : Key(n) \in ToSet(bulkTx') \/ Pending(Key(n))'
  BY <1>1 DEF TransferInv
<1>5. /\ \A k : k \in ToSet(bulkTx') \/ Pending(k)' => \E n \in Announcing' : Key(n) = k
      /\ \A k \in ToSet(bulkTx') : ~Pending(k)'
  BY <1>1 DEF TransferInv
<1> QED
  BY <1>2, <1>3, <1>4, <1>5 DEF TransferInv, Key

LEMMA PendingKeeps ==
  ASSUME NEW t \in Callers, Others(t), ~At(t, "bulk"), ~At(t, "bulk")', NEW k
  PROVE  Pending(k)' <=> Pending(k)
<1>1. \A u \in Callers : /\ At(u, "bulk")' <=> At(u, "bulk")
                         /\ At(u, "bulk") => call'[u] = call[u]
  BY DEF Others, At
<1> QED
  BY <1>1 DEF Pending

\* The thread that has the bulk lock is the only one with a transfer to send.
LEMMA PendingSteps ==
  ASSUME TypeOK, IInv, NEW t \in Callers
  PROVE  /\ SendMessage(t) /\ Announces(Send(call[t].buf)) =>
              /\ \A k : ~Pending(k)
              /\ \A k : Pending(k)' <=> k = call[t].buf
         /\ AskVC(t) /\ call[t].op = "flush sync" =>
              /\ \A k : ~Pending(k)
              /\ \A k : Pending(k)' <=> k = t
         /\ SendBulk(t) \/ DummyBulk(t) =>
              /\ \A k : Pending(k) => k = IF call[t].op = "send" THEN call[t].buf ELSE t
              /\ \A k : ~Pending(k)'
<1>1. ASSUME SendMessage(t), Announces(Send(call[t].buf))
      PROVE  /\ \A k : ~Pending(k)
             /\ \A k : Pending(k)' <=> k = call[t].buf
  <2>1. /\ Others(t) /\ call'[t].at = "bulk" /\ call'[t].op = "send" /\ call'[t].buf = call[t].buf
    BY <1>1, CallSteps, SentIs DEF Goes, Stays
  <2>2. bulkLock = Nobody
    BY <1>1 DEF SendMessage, Free
  <2>3. \A u \in Callers : ~At(u, "bulk")
    BY <2>2, NameAssumption DEF IInv, LockInv, BulkLockInv, BulkLocked
  <2>4. \A u \in Callers : At(u, "bulk")' <=> u = t
    BY <2>1, <2>3 DEF Others, At
  <2> QED
    BY <2>1, <2>3, <2>4 DEF Pending
<1>2. ASSUME AskVC(t), call[t].op = "flush sync"
      PROVE  /\ \A k : ~Pending(k)
             /\ \A k : Pending(k)' <=> k = t
  <2>1. Others(t) /\ call[t].at = "ask" /\ call'[t].at = "bulk" /\ call'[t].op = "flush sync"
    BY <1>2, CallSteps DEF Goes
  <2>2. bulkLock = t
    BY <1>2, <2>1 DEF IInv, LockInv, BulkLockInv, BulkLocked
  <2>3. \A u \in Callers : ~At(u, "bulk")
    BY <2>1, <2>2 DEF IInv, LockInv, BulkLockInv, BulkLocked, At
  <2>4. \A u \in Callers : At(u, "bulk")' <=> u = t
    BY <2>1, <2>3 DEF Others, At
  <2> QED
    BY <2>1, <2>3, <2>4 DEF Pending
<1>3. ASSUME SendBulk(t) \/ DummyBulk(t)
      PROVE  /\ \A k : Pending(k) => k = IF call[t].op = "send" THEN call[t].buf ELSE t
             /\ \A k : ~Pending(k)'
  <2>1. Others(t) /\ At(t, "bulk") /\ ~At(t, "bulk")'
    BY <1>3, CallSteps DEF Goes, Ends, At
  <2>2. \A u \in Callers : At(u, "bulk") => u = t
    BY <2>1, CarrierIs
  <2>3. \A u \in Callers : ~At(u, "bulk")'
    BY <2>1, <2>2 DEF Others, At
  <2> QED
    BY <2>2, <2>3 DEF Pending
<1> QED
  BY <1>1, <1>2, <1>3

LEMMA TransferCaller ==
  ASSUME TypeOK, IInv, NEW t \in Callers, Quiet(t) \/ Moves(t)
  PROVE  TransferInv'
<1>1. /\ Others(t) /\ UNCHANGED expect
      /\ UNCHANGED toVC \/ SendMessage(t) \/ AskVC(t)
      /\ UNCHANGED bulkTx \/ SendBulk(t) \/ DummyBulk(t)
  BY OpSteps, QuietKeeps, MovesKeep
<1>2. CASE SendMessage(t) /\ Announces(Send(call[t].buf))
  <2> DEFINE b == call[t].buf  m == Send(b)
  <2>1. /\ b \in Buffers /\ Carried(b) /\ Adds(toVC, toVC', m) /\ UNCHANGED bulkTx
    BY <1>2, SentIs DEF Carried, At
  <2>2. Key(m) = b
    BY <2>1, MessageIs DEF Key
  <2>3. m \notin ToSet(expect) /\ m \notin ToSet(toVC)
    BY <2>1, OnePlace DEF IInv
  <2>4. \A n \in Announcing : Key(n) # b
    <3>1. SUFFICES ASSUME NEW n \in Announcing, Key(n) = b PROVE FALSE
      OBVIOUS
    <3>2. n = m /\ n \in ToSet(expect) \cup ToSet(toVC)
      BY <2>1, <3>1, AnnouncedIs, NameAssumption
    <3> QED
      BY <2>3, <3>2
  <2>5. /\ \A k : ~Pending(k)
        /\ \A k : Pending(k)' <=> k = b
    BY <1>2, PendingSteps
  <2>6. Announces(m)
    BY <1>2
  <2> HIDE DEF m, b
  <2> QED
    BY <1>1, <2>1, <2>2, <2>3, <2>4, <2>5, <2>6, TransferAnnounced
<1>3. CASE AskVC(t) /\ call[t].op = "flush sync"
  <2> DEFINE m == Ask(t)
  <2>1. Adds(toVC, toVC', m) /\ Holding(t) /\ ~Asking(t) /\ UNCHANGED bulkTx /\ m \notin ToSet(expect)
    BY <1>3, AskedIs
  <2>2. Key(m) = t /\ Announces(m)
    BY <1>3, <2>1, AskIs, ExpectedIs DEF Key
  <2>3. \A n \in Announcing : Key(n) # t
    <3>1. SUFFICES ASSUME NEW n \in Announcing, Key(n) = t PROVE FALSE
      OBVIOUS
    <3>2. Asking(t)
      BY <3>1, AnnouncedIs, NameAssumption
    <3> QED
      BY <2>1, <3>2
  <2>4. /\ \A k : ~Pending(k)
        /\ \A k : Pending(k)' <=> k = t
    BY <1>3, PendingSteps
  <2> HIDE DEF m
  <2> QED
    BY <1>1, <2>1, <2>2, <2>3, <2>4, TransferAnnounced
<1>4. CASE SendBulk(t) \/ DummyBulk(t)
  <2>1. PICK k : k = IF call[t].op = "send" THEN call[t].buf ELSE t
    OBVIOUS
  <2>2. Pending(k) /\ Adds(bulkTx, bulkTx', k) /\ UNCHANGED toVC
    BY <1>4, <2>1, BulkSentIs
  <2>3. (\A l : Pending(l) => l = k) /\ \A l : ~Pending(l)'
    BY <1>4, <2>1, PendingSteps
  <2>4. \A n : n \in Announcing' <=> n \in Announcing
    BY <1>1, <2>2 DEF Announcing
  <2>5. \A n, o : Ahead(n, o)' <=> Ahead(n, o)
    BY <1>1, <2>2 DEF Ahead
  <2>6. TransferInv
    BY DEF IInv
  <2>7. \A l : l \in ToSet(bulkTx') <=> l \in ToSet(bulkTx) \/ l = k
    BY <2>2 DEF Adds
  <2>8. \A n \in Announcing' : Key(n) \in ToSet(bulkTx')
    BY <2>3, <2>4, <2>6, <2>7 DEF TransferInv
  <2>9. \A l \in ToSet(bulkTx') : \E n \in Announcing' : Key(n) = l
    BY <2>2, <2>4, <2>6, <2>7 DEF TransferInv
  <2>10. ASSUME NEW n \in Announcing', NEW o \in Announcing', Before(bulkTx', Key(n), Key(o))
         PROVE  ~Ahead(o, n)'
    <3>1. Before(bulkTx, Key(n), Key(o)) \/ Key(o) = k
      BY <2>2, <2>10 DEF Adds
    <3> QED
      BY <2>2, <2>4, <2>5, <2>6, <3>1 DEF TransferInv
  <2> QED
    BY <2>3, <2>8, <2>9, <2>10 DEF TransferInv, Key
<1>5. CASE /\ ~SendBulk(t) /\ ~DummyBulk(t)
           /\ ~(SendMessage(t) /\ Announces(Send(call[t].buf)))
           /\ ~(AskVC(t) /\ call[t].op = "flush sync")
  <2>1. ~At(t, "bulk") /\ ~At(t, "bulk")'
    <3>1. CASE FlushChoose(t) \/ Pick(t) \/ AskFails(t) \/ Answered(t) \/ SendBegin(t)
      BY <3>1, ChoiceSteps DEF Goes, Ends, Begins, At
    <3>2. CASE ~(FlushChoose(t) \/ Pick(t) \/ AskFails(t) \/ Answered(t) \/ SendBegin(t))
      BY <1>5, <3>2, CallSteps DEF Quiet, Moves, Goes, Ends, Begins, At
    <3> QED
      BY <3>1, <3>2
  <2>2. \A k : Pending(k)' <=> Pending(k)
    BY <1>1, <2>1, PendingKeeps
  <2>3. UNCHANGED toVC \/ \E e : ~Announces(e) /\ Adds(toVC, toVC', e)
    <3>1. AskVC(t) => ~Announces(Ask(t)) /\ Adds(toVC, toVC', Ask(t))
      BY <1>5, AskedIs, ExpectedIs
    <3>2. SendMessage(t) => ~Announces(Send(call[t].buf)) /\ Adds(toVC, toVC', Send(call[t].buf))
      BY <1>5, SentIs
    <3> QED
      BY <1>1, <3>1, <3>2
  <2>4. \A n : n \in Announcing' <=> n \in Announcing
    BY <1>1, <2>3 DEF Announcing, Adds
  <2>5. \A n, o \in Announcing : Ahead(n, o)' => Ahead(n, o)
    <3> SUFFICES ASSUME NEW n \in Announcing, NEW o \in Announcing, Ahead(n, o)' PROVE Ahead(n, o)
      OBVIOUS
    <3>1. Announces(n) /\ Announces(o)
      BY DEF Announcing
    <3> QED
      BY <1>1, <2>3, <3>1 DEF Ahead, Adds
  <2> QED
    BY <1>1, <1>5, <2>2, <2>4, <2>5, TransfersKeep
<1> QED
  BY <1>2, <1>3, <1>4, <1>5

LEMMA TransferTake ==
  ASSUME TypeOK, IInv, VcTake
  PROVE  TransferInv'
<1>1. PICK m \in ToSet(toVC) :
         /\ Takes(toVC, toVC', m) /\ UNCHANGED bulkTx
         /\ \/ Announces(m) /\ Adds(expect, expect', m)
            \/ ~Announces(m) /\ expect' = expect
  BY TakeIs
<1>2. \A k : Pending(k)' <=> Pending(k)
  BY DEF VcTake, Pending, At
<1>3. \A n : n \in Announcing' <=> n \in Announcing
  BY <1>1 DEF Announcing, Takes, Adds
<1>4. ASSUME NEW n \in Announcing, NEW o \in Announcing, Ahead(n, o)' PROVE Ahead(n, o)
  <2>1. Before(toVC', n, o) => Before(toVC, n, o)
    BY <1>1 DEF Takes
  <2>2. Before(expect', n, o) => Before(expect, n, o) \/ (n \in ToSet(expect) /\ o \in ToSet(toVC))
    BY <1>1 DEF Adds
  <2>3. n \in ToSet(expect') => n \in ToSet(expect) \/ n = m
    BY <1>1 DEF Adds
  <2>4. o \in ToSet(toVC') => o \in ToSet(toVC) /\ Before(toVC, m, o)
    BY <1>1 DEF Takes
  <2> QED
    BY <1>4, <2>1, <2>2, <2>3, <2>4 DEF Ahead
<1> QED
  BY <1>1, <1>2, <1>3, <1>4, TransfersKeep

LEMMA TransferBulk ==
  ASSUME TypeOK, IInv, VcBulk
  PROVE  TransferInv'
<1> DEFINE m == Head(expect)  k == Head(bulkTx)
<1>1. /\ Takes(expect, expect', m) /\ Takes(bulkTx, bulkTx', k) /\ UNCHANGED toVC
  BY QueuesAre, TailIs DEF Takes, VcBulk
<1>2. Key(m) = k /\ m \in Announcing
  BY HeadsMatch DEF VcBulk
<1> HIDE DEF m, k
<1>3. m \in ToSet(expect) /\ m \notin ToSet(toVC)
  <2>1. m \in ToSet(expect)
    BY <1>1 DEF Takes
  <2>2. CASE \E b \in Buffers : m = Send(b)
    BY <2>1, <2>2, OnePlace DEF IInv
  <2>3. CASE \E t \in Callers : Asking(t) /\ m = Ask(t)
    BY <2>1, <2>3, OneAnswer DEF IInv
  <2> QED
    BY <1>2, <2>1, <2>2, <2>3, AnnouncedIs
<1>4. \A l : Pending(l)' <=> Pending(l)
  BY DEF VcBulk, Pending, At
<1>5. \A n : n \in Announcing' <=> n \in Announcing /\ n # m
  BY <1>1, <1>3 DEF Announcing, Takes
<1>6. \A n, o : Ahead(n, o)' => Ahead(n, o)
  BY <1>1 DEF Ahead, Takes
<1>7. \A l : l \in ToSet(bulkTx') <=> l \in ToSet(bulkTx) /\ l # k
  BY <1>1 DEF Takes
<1>8. TransferInv
  BY DEF IInv
<1>9. \A n \in Announcing' : Key(n) \in ToSet(bulkTx') \/ Pending(Key(n))'
  <2> SUFFICES ASSUME NEW n \in Announcing, n # m
               PROVE  Key(n) \in ToSet(bulkTx') \/ Pending(Key(n))'
    BY <1>5 DEF Key
  <2>1. Key(n) # k
    BY <1>2, KeysDiffer
  <2> QED
    BY <1>4, <1>7, <1>8, <2>1 DEF TransferInv
<1>10. ASSUME NEW l, l \in ToSet(bulkTx') \/ Pending(l)' PROVE \E n \in Announcing' : Key(n) = l
  <2>1. l \in ToSet(bulkTx) \/ Pending(l)
    BY <1>4, <1>7, <1>10
  <2>2. l # k
    <3>1. ~Pending(k)
      BY <1>1, <1>8 DEF TransferInv, Takes
    <3> QED
      BY <1>4, <1>7, <1>10, <3>1
  <2>3. PICK n \in Announcing : Key(n) = l
    BY <1>8, <2>1 DEF TransferInv
  <2> QED
    BY <1>2, <1>5, <2>2, <2>3
<1>11. \A l \in ToSet(bulkTx') : ~Pending(l)'
  BY <1>4, <1>7, <1>8 DEF TransferInv
<1>12. ASSUME NEW n \in Announcing', NEW o \in Announcing', Before(bulkTx', Key(n), Key(o))
       PROVE  ~Ahead(o, n)'
  <2>1. Before(bulkTx, Key(n), Key(o))
    BY <1>1, <1>12 DEF Takes
  <2> QED
    BY <1>5, <1>6, <1>8, <2>1 DEF TransferInv
<1>13. ASSUME NEW n \in Announcing', NEW o \in Announcing', Pending(Key(n))' PROVE ~Ahead(n, o)'
  <2>1. Pending(Key(n))
    BY <1>4, <1>13 DEF Key
  <2> QED
    BY <1>5, <1>6, <1>8, <2>1 DEF TransferInv
<1> QED
  BY <1>9, <1>10, <1>11, <1>12, <1>13 DEF TransferInv, Key

LEMMA TransferStep ==
  ASSUME TypeOK, IInv, [Next]_vars
  PROVE  TransferInv'
<1>1. ASSUME UNCHANGED <<call, toVC, expect, bulkTx>> PROVE TransferInv'
  <2>1. \A n : n \in Announcing' <=> n \in Announcing
    BY <1>1 DEF Announcing
  <2>2. \A k : Pending(k)' <=> Pending(k)
    BY <1>1 DEF Pending, At
  <2>3. \A n, o \in Announcing : Ahead(n, o)' => Ahead(n, o)
    BY <1>1 DEF Ahead
  <2> QED
    BY <1>1, <2>1, <2>2, <2>3, TransfersKeep
<1>2. ASSUME Elsewhere \/ Aside PROVE TransferInv'
  <2>1. /\ UNCHANGED call
        /\ UNCHANGED expect \/ VcTake \/ VcBulk \/ VcReturn \/ VcAnswer
        /\ UNCHANGED toVC \/ VcTake
        /\ UNCHANGED bulkTx \/ VcBulk
    BY <1>2, ElsewhereKeeps
  <2>2. VcReturn \/ VcAnswer => UNCHANGED <<toVC, expect, bulkTx>>
    BY DEF VcReturn, VcAnswer
  <2> QED
    BY <1>1, <2>1, <2>2, TransferTake, TransferBulk
<1> QED
  BY NextCases, <1>2, TransferCaller

-----------------------------------------------------------------------------
\* The action thread is triggered after a header has been queued for it.
LEMMA StrandedStep ==
  ASSUME TypeOK, IInv, [Next]_vars
  PROVE  NoneStranded'
<1>1. NoneStranded
  BY DEF IInv
<1>2. ASSUME NEW t \in Callers, Quiet(t) \/ Moves(t) PROVE NoneStranded'
  <2>1. Others(t) /\ UNCHANGED <<trigger, action>> /\ (UNCHANGED cbq \/ DrainOne(t))
    BY <1>2, OpSteps, QuietKeeps, MovesKeep
  <2>2. CASE DrainOne(t)
    <3>1. At(t, "drain")'
      BY <2>2 DEF DrainOne, At
    <3> QED
      BY <3>1 DEF NoneStranded
  <2>3. CASE DrainEnd(t)
    BY <2>3 DEF DrainEnd, NoneStranded
  <2>4. CASE ~DrainOne(t) /\ ~DrainEnd(t)
    <3>1. ~At(t, "drain")
      <4>1. CASE FlushChoose(t) \/ Pick(t) \/ AskFails(t) \/ Answered(t) \/ SendBegin(t)
        BY <4>1, ChoiceSteps DEF Goes, Ends, Begins, At
      <4>2. CASE ~(FlushChoose(t) \/ Pick(t) \/ AskFails(t) \/ Answered(t) \/ SendBegin(t))
        BY <1>2, <2>4, <4>2, CallSteps DEF Quiet, Moves, Goes, Ends, Begins, At
      <4> QED
        BY <4>1, <4>2
    <3>2. \A u \in Callers : At(u, "drain") => At(u, "drain")'
      BY <2>1, <3>1 DEF Others, At
    <3> QED
      BY <1>1, <2>1, <2>4, <3>2 DEF NoneStranded
  <2> QED
    BY <2>2, <2>3, <2>4
<1>3. ASSUME Elsewhere \/ Aside PROVE NoneStranded'
  <2>1. \A u \in Callers : At(u, "drain")' <=> At(u, "drain")
    BY <1>3, ElsewhereKeeps DEF At
  <2>2. CASE HostQueue
    BY <2>2 DEF HostQueue, NoneStranded
  <2>3. CASE ActionDeliver
    BY <2>3 DEF ActionDeliver, NoneStranded
  <2>4. CASE ActionWake \/ ActionBegin \/ ActionEnd
    BY <1>1, <2>1, <2>4 DEF ActionWake, ActionBegin, ActionEnd, NoneStranded
  <2>5. CASE UNCHANGED <<cbq, trigger, action>>
    BY <1>1, <2>1, <2>5 DEF NoneStranded
  <2>6. \/ UNCHANGED <<cbq, trigger, action>> \/ HostQueue \/ ActionDeliver
        \/ ActionWake \/ ActionBegin \/ ActionEnd
    BY <1>3, ElsewhereKeeps
  <2> QED
    BY <2>2, <2>3, <2>4, <2>5, <2>6
<1> QED
  BY NextCases, <1>2, <1>3

-----------------------------------------------------------------------------
\* At the start nothing is under way: every header is with the client, every
\* waiter is free, and the component of the ports keeps the service.
LEMMA NothingIs ==
  /\ ToSet(<<>>) = {} /\ Injective(<<>>) /\ \A a, b : ~Before(<<>>, a, b)
BY DEF ToSet, Injective, Before

LEMMA InitType ==
  ASSUME Init
  PROVE  TypeOK
<1>1. ClientType
  <2>1. Idle \in Calls
    BY WaiterAssumption DEF Idle, Calls, Ops, Places
  <2> QED
    BY <2>1, PortAssumption DEF Init, ClientType
<1>2. LifeType
  BY OwnerAssumption DEF Init, LifeType
<1>3. PortType
  BY PortAssumption DEF Init, PortType
<1>4. LockType
  BY DEF Init, LockType
<1>5. WaitType
  BY WaiterAssumption DEF Init, WaitType
<1>6. HostType
  <2>1. /\ bulkRx = <<>> /\ host = Nobody /\ cbq = <<>> /\ trigger = FALSE
        /\ action = "waiting"
    BY DEF Init
  <2>2. bulkRx \in Seq(Buffers) /\ cbq \in Seq(Buffers)
    BY <2>1
  <2>3. host \in Buffers \cup {Nobody}
    BY <2>1
  <2>4. trigger \in BOOLEAN
    BY <2>1
  <2>5. action \in {"waiting", "woken", "looping"}
    BY <2>1
  <2> QED
    BY <2>2, <2>3, <2>4, <2>5 DEF HostType
<1>7. QueueType
  BY DEF Init, QueueType
<1> QED
  BY <1>1, <1>2, <1>3, <1>4, <1>5, <1>6, <1>7 DEF TypeOK

LEMMA InitCalls ==
  ASSUME Init, NEW t \in Callers
  PROVE  /\ call[t].op = "none" /\ call[t].at = "idle" /\ call[t].port = Nobody /\ call[t].ok
         /\ ~Asking(t) /\ ~Holding(t) /\ ~Told(t)
BY DEF Init, Idle, Asking, Holding, Told, At

LEMMA InitCallsInv ==
  ASSUME Init
  PROVE  LabelInv /\ LockInv /\ LifeInv /\ ClosedInv
<1>1. LabelInv
  BY InitCalls, NameAssumption DEF LabelInv, Labelled, Labels, PortOps, Flushing
<1>2. SendLockInv
  <2>1. \A p \in Ports : sending[p] = Nobody
    BY DEF Init
  <2> QED
    BY <2>1, InitCalls, NameAssumption DEF SendLockInv, SendLocked, Flushing
<1>3. BulkLockInv
  BY InitCalls, NameAssumption DEF Init, BulkLockInv, BulkLocked, At
<1>4. SwitchInv
  BY InitCalls DEF SwitchInv, Switching
<1>5. Usable /\ comps = {Owner}
  BY InitCalls, OwnerAssumption DEF Init, Usable
<1>6. LifeInv
  BY <1>5, InitCalls DEF LifeInv, CompInv, UsableInv, OnInv, Switching, SendLocked, PortOps, Flushing
<1>7. ClosedInv
  BY DEF Init, ClosedInv, Of
<1> QED
  BY <1>1, <1>2, <1>3, <1>4, <1>6, <1>7 DEF LockInv

LEMMA InitCounts ==
  ASSUME Init
  PROVE  UseInv /\ PoolInv /\ WaiterInv
<1>1. TypeOK
  BY InitType
<1>2. Cardinality({}) = 0 /\ Cardinality({Owner}) = 1
  BY FS_EmptySet, FS_Singleton
<1>3. Users = {Owner} /\ Using = {Owner} /\ Askers = {}
  <2>1. comps = {Owner}
    BY DEF Init
  <2> QED
    BY <2>1, InitCalls DEF Users, Using, Askers, At
<1>4. UseInv
  BY <1>2, <1>3 DEF Init, UseInv
<1>5. PastPool = {} /\ Posting = {}
  BY InitCalls DEF PastPool, Posting, At
<1>6. Unused = Waiters /\ waitSem = MaxWaiters
  BY DEF Init, Unused
<1>7. Cardinality(Waiters) = MaxWaiters
  BY WaiterAssumption, FS_Interval DEF Waiters
<1>8. PoolInv
  BY <1>2, <1>5, <1>6, <1>7, WaiterAssumption DEF PoolInv
<1>9. \A w \in Waiters : ~inuse[w] /\ replied[w] = 0
  BY DEF Init
<1>10. WaiterInv
  BY <1>9, InitCalls DEF WaiterInv
<1> QED
  BY <1>4, <1>8, <1>10

LEMMA InitQueues ==
  ASSUME Init
  PROVE  RequestInv /\ QueueInv /\ SweepInv /\ FirstInv /\ DisableInv /\ TransferInv /\ NoneStranded
<1>1. /\ toVC = <<>> /\ bulkTx = <<>> /\ toHost = <<>> /\ bulkRx = <<>> /\ expect = <<>>
      /\ cbq = <<>> /\ jobs = {} /\ \A p \in Ports : ~sentData[p]
  BY DEF Init
<1>2. /\ ToSet(toVC) = {} /\ ToSet(bulkTx) = {} /\ ToSet(toHost) = {} /\ ToSet(expect) = {}
  BY <1>1, NothingIs
<1>3. RequestInv
  BY <1>1, <1>2, InitCalls DEF RequestInv
<1>4. QueueInv
  BY <1>1, <1>2, NothingIs DEF QueueInv
<1>5. SweepInv /\ DisableInv
  BY InitCalls DEF SweepInv, Sweeping, Flushing, DisableInv
<1>6. FirstInv
  BY <1>1, <1>2, InitCalls DEF FirstInv, Carried, At
<1>7. TransferInv
  BY <1>2, InitCalls DEF TransferInv, Announcing, Pending, At
<1>8. NoneStranded
  BY <1>1 DEF NoneStranded
<1> QED
  BY <1>3, <1>4, <1>5, <1>6, <1>7, <1>8

LEMMA InitHeaders ==
  ASSUME Init
  PROVE  PlaceInv /\ ContextInv
<1>1. /\ toVC = <<>> /\ toHost = <<>> /\ bulkRx = <<>> /\ expect = <<>>
      /\ cbq = <<>> /\ vcHas = {} /\ host = Nobody /\ mine = Buffers
      /\ \A p \in Ports : ctx[p] = Contexts
  BY DEF Init
<1>2. /\ ToSet(toVC) = {} /\ ToSet(bulkRx) = {} /\ ToSet(toHost) = {} /\ ToSet(expect) = {}
      /\ ToSet(cbq) = {}
  BY <1>1, NothingIs
<1>3. ASSUME NEW b \in Buffers PROVE Spread(b) = 1
  <2>1. b \in mine /\ ~Carried(b) /\ b \notin vcHas /\ host # b
    BY <1>1, InitCalls, NameAssumption DEF Carried, At
  <2> QED
    BY <1>2, <2>1 DEF Spread, One
<1>4. ASSUME NEW p \in Ports PROVE ctx[p] + Cardinality(Busy(p)) = Contexts
  <2>1. Busy(p) = {}
    BY <1>1 DEF Busy, Of
  <2> QED
    BY <1>1, <2>1, FS_EmptySet, PortAssumption
<1> QED
  BY <1>3, <1>4 DEF PlaceInv, ContextInv

LEMMA Starts ==
  ASSUME Init
  PROVE  TypeOK /\ IInv
BY InitType, InitCallsInv, InitCounts, InitQueues, InitHeaders DEF IInv

LEMMA TypeSteps ==
  ASSUME TypeOK, IInv, [Next]_vars
  PROVE  TypeOK'
BY ClientTypeStep, LifeTypeStep, PortTypeStep, LockTypeStep, WaitTypeStep, HostTypeStep,
   QueueTypeStep DEF TypeOK

LEMMA InvSteps ==
  ASSUME TypeOK, IInv, [Next]_vars
  PROVE  IInv'
<1>1. LabelInv' /\ LockInv'
  BY LabelStep, SwitchStep, SendLockStep, BulkLockStep DEF LockInv
<1>2. LifeInv'
  BY CompStep, UsableStep, OnStep DEF LifeInv
<1>3. ClosedInv' /\ UseInv' /\ PoolInv' /\ WaiterInv' /\ RequestInv' /\ QueueInv'
  BY ClosedStep, UseStep, PoolStep, WaiterStep, RequestStep, QueueStep
<1>4. PlaceInv' /\ ContextInv' /\ SweepInv' /\ FirstInv' /\ DisableInv' /\ TransferInv'
  BY PlaceStep, ContextStep, SweepStep, FirstStep, DisableStep, TransferStep
<1>5. NoneStranded'
  BY StrandedStep
<1> QED
  BY <1>1, <1>2, <1>3, <1>4, <1>5 DEF IInv

\* Every variable has its type, and what the invariants say of the calls, the
\* counts, the queues and the headers holds, whatever the callers, the ports, the
\* buffers and the number of waiters (mmal_vc_client.c and mmal_vc_api.c).
THEOREM Invariance == Spec => [](TypeOK /\ IInv)
<1>1. Init => TypeOK /\ IInv
  BY Starts
<1>2. TypeOK /\ IInv /\ [Next]_vars => (TypeOK /\ IInv)'
  BY TypeSteps, InvSteps
<1> QED
  BY <1>1, <1>2, PTL DEF Spec

-----------------------------------------------------------------------------
\* There are as many free waiters as callers that the semaphore has let pass, the
\* reply to a request is given to the thread that made it, and a semaphore is
\* posted at most once, for the thread that has the waiter.
LEMMA WaitersAgree ==
  ASSUME TypeOK, IInv
  PROVE  WaitersMatch
<1>1. Cardinality(PastPool) <= Cardinality(Unused)
  <2>1. Cardinality(PastPool) \in Nat /\ Cardinality(Posting) \in Nat /\ Cardinality(Unused) \in Nat
    BY Counted, FS_CardinalityType
  <2>2. waitSem \in Nat
    BY WaiterAssumption DEF TypeOK, WaitType
  <2>3. waitSem + Cardinality(PastPool) + Cardinality(Posting) = Cardinality(Unused)
    BY DEF IInv, PoolInv
  <2> QED
    BY <2>1, <2>2, <2>3
<1>2. \A t \in Callers : At(t, "release") /\ call[t].ok => got[t] = t
  BY DEF IInv, WaiterInv, Told, At
<1>3. ASSUME NEW w \in Waiters PROVE replied[w] <= 1 /\ (~inuse[w] => replied[w] = 0)
  <2>1. replied[w] = 0 \/ replied[w] = 1
    BY DEF TypeOK, WaitType
  <2>2. replied[w] = 1 => inuse[w]
    BY DEF IInv, WaiterInv, Holding
  <2> QED
    BY <2>1, <2>2
<1> QED
  BY <1>1, <1>2, <1>3 DEF WaitersMatch, PastPool, Unused

\* Whatever is under way has somebody that keeps the service: its component, or a
\* caller that waits for it.
LEMMA SomeoneUses ==
  ASSUME TypeOK, IInv,
         comps # {} \/ jobs # {} \/ vcHas # {} \/ toVC # <<>> \/ toHost # <<>>
  PROVE  comps # {} \/ \E t \in Callers : Asking(t)
<1>1. ASSUME NEW m \in ToSet(toVC) \cup jobs, m.op # "buffer"
      PROVE  \E t \in Callers : Asking(t)
  <2>1. m \in ToVC
    BY QueuesAre, QueueIs, MessageIs DEF TypeOK, QueueType
  <2>2. m.who \in Callers
    BY <1>1, <2>1, MessageIs
  <2> QED
    BY <1>1, <2>2 DEF IInv, RequestInv
<1>2. ASSUME NEW m \in ToSet(toHost), m.op = "reply" PROVE \E t \in Callers : Asking(t)
  <2>1. m \in FromVC
    BY QueuesAre, QueueIs DEF TypeOK, QueueType
  <2>2. m.who \in Callers
    BY <1>2, <2>1, ReplyIs
  <2> QED
    BY <1>2, <2>2 DEF IInv, RequestInv
<1>3. ASSUME NEW b \in Buffers, b \notin mine PROVE Owner \in comps
  <2>1. PortOf[b] \in Ports /\ b \in Of(PortOf[b])
    BY PortAssumption DEF Of
  <2>2. on[PortOf[b]] \/ \E t \in Callers : call[t].op = "disable"
    BY <1>3, <2>1 DEF IInv, ClosedInv
  <2> QED
    BY <2>1, <2>2 DEF IInv, LifeInv, UsableInv, Usable, PortOps
<1>4. ASSUME NEW b \in Buffers, b \in vcHas \/ Send(b) \in ToSet(toVC)
             \/ Data(b) \in ToSet(toHost) \/ Plain(b) \in ToSet(toHost)
      PROVE  b \notin mine
  BY <1>4, OnePlace DEF IInv
<1>5. CASE jobs # {}
  BY <1>1, <1>5, MessageIs DEF TypeOK, QueueType
<1>6. CASE vcHas # {}
  BY <1>3, <1>4, <1>6 DEF TypeOK, QueueType
<1>7. CASE toVC # <<>>
  <2>1. PICK m \in ToSet(toVC) : TRUE
    BY <1>7, QueueIs DEF TypeOK, QueueType
  <2>2. m \in ToVC
    BY QueueIs DEF TypeOK, QueueType
  <2>3. CASE m.op = "buffer"
    BY <1>3, <1>4, <2>1, <2>2, <2>3, MessageIs
  <2> QED
    BY <1>1, <2>1, <2>3
<1>8. CASE toHost # <<>>
  <2>1. PICK m \in ToSet(toHost) : TRUE
    BY <1>8, QueueIs DEF TypeOK, QueueType
  <2>2. m \in FromVC
    BY QueueIs DEF TypeOK, QueueType
  <2>3. CASE m.op = "buffer"
    <3>1. m.buf \in Buffers /\ (m = Data(m.buf) \/ m = Plain(m.buf))
      BY <2>2, <2>3, ReplyIs
    <3> QED
      BY <1>3, <1>4, <2>1, <3>1
  <2>4. CASE m.op = "reply"
    BY <1>2, <2>4
  <2> QED
    BY <2>2, <2>3, <2>4, ReplyIs
<1> QED
  BY <1>5, <1>6, <1>7, <1>8

LEMMA ServiceLasts ==
  ASSUME TypeOK, IInv
  PROVE  ServiceKept
<1>1. /\ IsFiniteSet(Users) /\ IsFiniteSet(Using) /\ IsFiniteSet(Askers)
      /\ refcount = Cardinality(Users) /\ (open <=> refcount # 0)
      /\ usecount = Cardinality(Using) + Cardinality(Askers)
  BY Counted DEF IInv, UseInv
<1>2. /\ Cardinality(Users) \in Nat /\ Cardinality(Using) \in Nat /\ Cardinality(Askers) \in Nat
      /\ Cardinality(Users) = 0 <=> Users = {}
      /\ Cardinality(Using) = 0 <=> Using = {}
      /\ Cardinality(Askers) = 0 <=> Askers = {}
  BY <1>1, CountIs
<1>3. \A t \in Callers : call[t].at \in Asks \/ Asking(t) => Users # {}
  BY AskersUse
<1>4. ASSUME comps # {} \/ jobs # {} \/ vcHas # {} \/ toVC # <<>> \/ toHost # <<>>
      PROVE  open /\ usecount > 0
  <2>1. comps # {} \/ \E t \in Callers : Asking(t)
    BY <1>4, SomeoneUses
  <2>2. CASE comps # {}
    <3>1. Users # {} /\ Using # {}
      BY <2>2 DEF Users, Using
    <3> QED
      BY <1>1, <1>2, <3>1
  <2>3. CASE \E t \in Callers : Asking(t)
    <3>1. Users # {} /\ Askers # {}
      BY <1>3, <2>3 DEF Askers
    <3> QED
      BY <1>1, <1>2, <3>1
  <2> QED
    BY <2>1, <2>2, <2>3
<1>5. ASSUME ~open PROVE usecount = 0 /\ \A t \in Callers : ~Waits(t)
  <2>1. Users = {}
    BY <1>1, <1>2, <1>5
  <2>2. Askers = {} /\ \A t \in Callers : call[t].at \notin Asks
    BY <1>3, <2>1 DEF Askers
  <2>3. Using = {}
    <3>1. comps = {} /\ \A t \in Callers : call[t].op # "create" /\ call[t].at # "unuse"
      BY <2>1 DEF Users
    <3> QED
      BY <3>1 DEF Using, At
  <2>4. \A t \in Callers : ~At(t, "bulk")
    <3> SUFFICES ASSUME NEW t \in Callers, At(t, "bulk") PROVE FALSE
      OBVIOUS
    <3>1. call[t].op = "send"
      BY <2>2, CallerIs DEF Askers, Asking
    <3>2. Owner \in comps
      BY <3>1 DEF IInv, LifeInv, UsableInv, Usable, PortOps
    <3> QED
      BY <2>1, <3>2 DEF Users
  <2> QED
    BY <1>1, <1>2, <2>2, <2>3, <2>4 DEF Waits, Asks, At
<1> QED
  BY <1>4, <1>5 DEF ServiceKept

\* The transfers and the messages that announced them are in the same order, and
\* what was sent before a flush was in front of it.
LEMMA TransfersMatch ==
  ASSUME TypeOK, IInv
  PROVE  TransfersInOrder
<1>1. ASSUME expect # <<>>, bulkTx # <<>>
      PROVE  Head(bulkTx) = IF Head(expect).op = "buffer" THEN Head(expect).buf
                                                         ELSE Head(expect).who
  BY <1>1, HeadsMatch DEF Key
<1>2. ASSUME NEW t \in Callers, call[t].op \in Flushing, call[t].ok,
             At(t, "release") \/ At(t, "post") \/ At(t, "done"), NEW b \in Of(call[t].port)
      PROVE  /\ \A i \in DOMAIN toVC : toVC[i] # Send(b)
             /\ \A i \in DOMAIN expect : expect[i] # Send(b)
  <2>1. Told(t) /\ ~Asking(t)
    BY <1>2 DEF Told, Asking, At
  <2>2. Swept(t, b)
    BY <1>2 DEF IInv, SweepInv, Sweeping
  <2>3. Send(b) \notin ToSet(toVC) /\ Send(b) \notin ToSet(expect)
    BY <1>2, <2>1, <2>2 DEF Swept, Taken, Flushing
  <2> QED
    BY <2>3 DEF ToSet
<1> QED
  BY <1>1, <1>2 DEF TransfersInOrder, Flushing

\* Once a disable is answered the headers of its port are back.
LEMMA DisableFinds ==
  ASSUME TypeOK, IInv
  PROVE  DisableFindsAll
<1> SUFFICES ASSUME NEW t \in Callers, call[t].op = "disable"
             PROVE  /\ At(t, "done") => ctx[call[t].port] = Contexts
                    /\ At(t, "transit") => InTransit(call[t].port) = {}
  BY DEF DisableFindsAll
<1>1. call[t].port \in Ports /\ call[t].ok
  BY DEF IInv, LabelInv, Labelled, PortOps
<1>2. \A b \in Of(call[t].port) : Found(t, b)
  BY DEF IInv, DisableInv
<1>3. ASSUME At(t, "done") PROVE ctx[call[t].port] = Contexts
  <2>1. Back(t)
    BY <1>1, <1>3 DEF Back, Told, At
  <2>2. Busy(call[t].port) = {}
    BY <1>2, <2>1 DEF Found, Busy
  <2>3. ctx[call[t].port] + Cardinality(Busy(call[t].port)) = Contexts
    BY <1>1 DEF IInv, ContextInv
  <2>4. ctx[call[t].port] \in Nat
    BY <1>1, PortAssumption DEF TypeOK, PortType
  <2> QED
    BY <2>2, <2>3, <2>4, FS_EmptySet
<1>4. ASSUME At(t, "transit") PROVE InTransit(call[t].port) = {}
  BY <1>2, <1>4 DEF Found, InTransit
<1> QED
  BY <1>3, <1>4

-----------------------------------------------------------------------------
\* Every variable has its type (the state of mmal_vc_client.c and mmal_vc_api.c).
THEOREM TypeCorrect == Spec => []TypeOK
<1> QED
  BY Invariance, PTL

\* get_waiter finds a waiter when its semaphore has let it pass, and every caller
\* is woken by the reply to its own request (mmal_vc_client.c, get_waiter to
\* release_waiter, and the callback that posts the waiter).
THEOREM WaitersAlwaysMatch == Spec => []WaitersMatch
<1>1. TypeOK /\ IInv => WaitersMatch
  BY WaitersAgree
<1> QED
  BY <1>1, Invariance, PTL

\* The service is open and in use while there is a component, a message, a transfer
\* or a request (mmal_vc_init, mmal_vc_deinit, mmal_vc_use, mmal_vc_release).
THEOREM ServiceAlwaysKept == Spec => []ServiceKept
<1>1. TypeOK /\ IInv => ServiceKept
  BY ServiceLasts
<1> QED
  BY <1>1, Invariance, PTL

\* The data that arrives is that of the message which announced it, and a flush is
\* answered behind the buffers that were sent before it (mmal_vc_send_message and
\* mmal_vc_port_flush).
THEOREM TransfersAlwaysInOrder == Spec => []TransfersInOrder
<1>1. TypeOK /\ IInv => TransfersInOrder
  BY TransfersMatch
<1> QED
  BY <1>1, Invariance, PTL

\* An answered disable leaves every context free, and no header away once the queued
\* callbacks have been made (mmal_vc_port_disable).
THEOREM DisableAlwaysFindsAll == Spec => []DisableFindsAll
<1>1. TypeOK /\ IInv => DisableFindsAll
  BY DisableFinds
<1> QED
  BY <1>1, Invariance, PTL

\* A header in the callback queue has somebody to deliver it
\* (mmal_vc_port_send_callback and mmal_vc_do_callback_loop).
THEOREM NoneEverStranded == Spec => []NoneStranded
<1>1. IInv => NoneStranded
  BY DEF IInv
<1> QED
  BY <1>1, Invariance, PTL
=============================================================================
