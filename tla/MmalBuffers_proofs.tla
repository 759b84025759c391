-------------------------- MODULE MmalBuffers_proofs --------------------------
(***************************************************************************)
(* Proofs about buffer headers and the queue they wait in, for any headers,*)
(* pools and threads.  As long as no update of a count has been lost in    *)
(* its pool or in that of a later stage, a header goes back exactly once,  *)
(* when its last holder and its last replica are gone, whatever was lost   *)
(* elsewhere.  The semaphore of a queue never promises a buffer that is    *)
(* not linked (from QueueInv on).                                          *)
(***************************************************************************)
EXTENDS BufferHeader, MmalQueue, FiniteSetTheorems, SequenceTheorems, TLAPS

One(P) == IF P THEN 1 ELSE 0

-----------------------------------------------------------------------------
\* The headers that a thread is about to recycle, and those whose last release it
\* is in.
Finishing(t) == {h \in Headers : Recycling(t, h)}
Ends(t, h)   == h \in Finishing(t) \/ (At(t, "zero") /\ Top(t).hdr = h)
Updates(t)   == At(t, "store") \/ At(t, "acquire")

\* The headers of which the invariant speaks.
Sounds == {h \in Headers : Sound(h)}

\* A release is inside recycling calls only, each of a header of a later stage: a
\* header is replicated into those only.
Levels == \A d \in Headers : reference[d] # None => Level[reference[d]] < Level[d]
Stacked(s) ==
  /\ \A i \in 1 .. Len(s) : /\ i < Len(s) => s[i].at = "recycle"
                            /\ s[i].at = "acquire" => Len(s) = 1
  /\ \A i, j \in 1 .. Len(s) : i < j => Level[s[j].hdr] < Level[s[i].hdr]
StackInv == Levels /\ \A t \in Threads : Stacked(calls[t])

\* A count that has been loaded is still right, and one thread has loaded it.
LoadInv ==
  /\ \A t \in Threads : Updates(t) /\ Top(t).hdr \in Sounds => Top(t).count = refcount[Top(t).hdr]
  /\ \A t, u \in Threads : Updates(t) /\ Updates(u) /\ Top(t).hdr = Top(u).hdr
                           /\ Top(t).hdr \in Sounds => t = u

\* The count is zero exactly when one thread is in the last release of the header, or
\* that release has been postponed.
EndInv == \A h \in Sounds :
  /\ refcount[h] = 0 <=> h \in delayed \/ \E t \in Threads : Ends(t, h)
  /\ h \in delayed => \A t \in Threads : ~Ends(t, h)
  /\ \A t, u \in Threads : Ends(t, h) /\ Ends(u, h) => t = u

\* The count is that of the references that have not been given up: those the threads
\* hold, those of replicas, those of releases that have not stored the count, and
\* that of the pool.
Showing(h)   == {d \in Headers : reference[d] = h /\ \A t \in Threads : d \notin Finishing(t)}
Releasing(h) == {t \in Threads : (At(t, "load") \/ At(t, "store")) /\ Top(t).hdr = h}
Total(h) == HeldCount(h) + Cardinality(Showing(h)) + Cardinality(Releasing(h)) + One(h \in pool)
CountInv == \A h \in Sounds : IsFiniteSet(References(h)) /\ refcount[h] = Total(h)

PoolInv == \A h \in pool \cap Sounds : refcount[h] = 1

\* Who acquires a header holds it; who replicates one into another has the other for
\* himself.
Owns(t, h) == held[t][h] > 0 /\ \A u \in Threads \ {t} : held[u][h] = 0
AcquireInv == \A t \in Threads : At(t, "acquire") =>
  /\ held[t][Top(t).hdr] > 0
  /\ Top(t).dest # None => Level[Top(t).hdr] < Level[Top(t).dest]
  /\ Top(t).dest \in Sounds => Owns(t, Top(t).dest) /\ reference[Top(t).dest] = None

IInv == StackInv /\ LoadInv /\ EndInv /\ CountInv /\ PoolInv /\ AcquireInv

-----------------------------------------------------------------------------
\* What one element more or less does to a count.
LEMMA CountIs ==
  ASSUME NEW S, IsFiniteSet(S)
  PROVE  /\ Cardinality(S) \in Nat
         /\ Cardinality(S) = 0 <=> S = {}
         /\ \A x : x \notin S => IsFiniteSet(S \cup {x}) /\ Cardinality(S \cup {x}) = Cardinality(S) + 1
         /\ \A x \in S : /\ IsFiniteSet(S \ {x})
                         /\ Cardinality(S \ {x}) = Cardinality(S) - 1 /\ Cardinality(S) > 0
<1>1. Cardinality(S) \in Nat /\ (Cardinality(S) = 0 <=> S = {})
  BY FS_CardinalityType, FS_EmptySet
<1>2. \A x : x \notin S => IsFiniteSet(S \cup {x}) /\ Cardinality(S \cup {x}) = Cardinality(S) + 1
  BY FS_AddElement
<1>3. \A x \in S : IsFiniteSet(S \ {x}) /\ Cardinality(S \ {x}) = Cardinality(S) - 1
  BY FS_RemoveElement
<1> QED
  BY <1>1, <1>2, <1>3

\* A header of the same pool or of a later stage is sound with it, and none becomes
\* sound again.
LEMMA SoundIs ==
  ASSUME TypeOK
  PROVE  /\ Sounds \subseteq Headers /\ None \notin Sounds
         /\ \A h \in Sounds, d \in Headers : Level[h] <= Level[d] => d \in Sounds
         /\ \A h \in Headers : h \in torn => h \notin Sounds
<1>1. \A h \in Headers : Level[h] \in Nat
  BY HeadersAssumption
<1>2. Sounds \subseteq Headers /\ None \notin Sounds
  BY HeadersAssumption DEF Sounds
<1>3. ASSUME NEW h \in Sounds, NEW d \in Headers, Level[h] <= Level[d]
      PROVE  d \in Sounds
  <2>1. \A e \in torn : Level[e] < Level[h] /\ Level[e] \in Nat
    BY <1>1 DEF Sounds, Sound, TypeOK
  <2>2. \A e \in torn : Level[e] < Level[d]
    BY <1>1, <1>2, <1>3, <2>1
  <2> QED
    BY <2>2 DEF Sounds, Sound
<1>4. \A h \in Headers : h \in torn => h \notin Sounds
  <2>1. \A h \in Headers : ~(Level[h] < Level[h])
    BY <1>1
  <2> QED
    BY <2>1 DEF Sounds, Sound
<1> QED
  BY <1>2, <1>3, <1>4

LEMMA SoundWas ==
  ASSUME torn \subseteq torn'
  PROVE  /\ Sounds' \subseteq Sounds
         /\ \A h \in Headers : h \in torn' => h \notin Sounds'
<1>1. \A h \in Headers : ~(Level[h] < Level[h])
  BY HeadersAssumption
<1> QED
  BY <1>1 DEF Sounds, Sound

LEMMA SoundSame ==
  ASSUME torn' = torn
  PROVE  Sounds' = Sounds
BY DEF Sounds, Sound

LEMMA CountedIs ==
  /\ \A S \in SUBSET Headers : IsFiniteSet(S)
  /\ \A S \in SUBSET Threads : IsFiniteSet(S)
  /\ \A h : Showing(h) \in SUBSET Headers /\ Releasing(h) \in SUBSET Threads
BY FiniteAssumption, FS_Subset DEF Showing, Releasing

\* The references to a header, as the threads take and give them up.
LEMMA ReferenceIs ==
  ASSUME NEW h \in Headers
  PROVE  \A x : x \in References(h) <=> \E t \in Threads : \E i \in 1 .. held[t][h] : x = <<t, i>>
BY DEF References

LEMMA HeldIs ==
  ASSUME TypeOK, CountInv, NEW h \in Sounds
  PROVE  /\ HeldCount(h) \in Nat
         /\ HeldCount(h) = 0 <=> \A t \in Threads : held[t][h] = 0
<1>1. IsFiniteSet(References(h)) /\ h \in Headers
  BY SoundIs DEF CountInv
<1>2. References(h) = {} <=> \A t \in Threads : held[t][h] = 0
  <2>1. \A t \in Threads : held[t][h] \in Nat
    BY <1>1 DEF TypeOK
  <2>2. \A t \in Threads : held[t][h] # 0 => <<t, 1>> \in References(h)
    BY <1>1, <2>1, ReferenceIs
  <2>3. \A x \in References(h) : \E t \in Threads : held[t][h] # 0
    BY <1>1, <2>1, ReferenceIs
  <2> QED
    BY <2>2, <2>3
<1> QED
  BY <1>1, <1>2, CountIs DEF HeldCount

LEMMA HeldSame ==
  ASSUME NEW h \in Headers, \A t \in Threads : held'[t][h] = held[t][h]
  PROVE  References(h)' = References(h) /\ HeldCount(h)' = HeldCount(h)
BY DEF References, HeldCount

LEMMA HeldMore ==
  ASSUME TypeOK, NEW h \in Headers, IsFiniteSet(References(h)), NEW t \in Threads,
         held'[t][h] = held[t][h] + 1, \A u \in Threads \ {t} : held'[u][h] = held[u][h]
  PROVE  IsFiniteSet(References(h)') /\ HeldCount(h)' = HeldCount(h) + 1
<1> DEFINE k == held[t][h] + 1
<1>1. \A u \in Threads : held[u][h] \in Nat
  BY DEF TypeOK
<1>2. <<t, k>> \notin References(h)
  BY <1>1, ReferenceIs
<1>3. \A x : x \in References(h)' <=> \E u \in Threads : \E i \in 1 .. held'[u][h] : x = <<u, i>>
  BY DEF References
<1>4. ASSUME NEW x PROVE x \in References(h)' <=> x \in References(h) \cup {<<t, k>>}
  <2>1. ASSUME NEW u \in Threads, NEW i \in 1 .. held'[u][h], x = <<u, i>>
        PROVE  x \in References(h) \cup {<<t, k>>}
    <3>1. i \in 1 .. held[u][h] \/ (u = t /\ i = k)
      BY <1>1, <2>1
    <3> QED
      BY <2>1, <3>1, ReferenceIs
  <2>2. ASSUME NEW u \in Threads, NEW i \in 1 .. held[u][h], x = <<u, i>>
        PROVE  x \in References(h)'
    <3>1. i \in 1 .. held'[u][h]
      BY <1>1
    <3> QED
      BY <1>3, <2>2, <3>1
  <2>3. <<t, k>> \in References(h)'
    <3>1. k \in 1 .. held'[t][h]
      BY <1>1
    <3> QED
      BY <1>3, <3>1
  <2> QED
    BY <1>3, <2>1, <2>2, <2>3, ReferenceIs
<1>5. References(h)' = References(h) \cup {<<t, k>>}
  BY <1>4
<1> HIDE DEF k
<1> QED
  BY <1>2, <1>5, CountIs DEF HeldCount

LEMMA HeldLess ==
  ASSUME TypeOK, NEW h \in Headers, IsFiniteSet(References(h)), NEW t \in Threads,
         held[t][h] > 0, held'[t][h] = held[t][h] - 1,
         \A u \in Threads \ {t} : held'[u][h] = held[u][h]
  PROVE  IsFiniteSet(References(h)') /\ HeldCount(h)' = HeldCount(h) - 1
<1> DEFINE k == held[t][h]
<1>1. \A u \in Threads : held[u][h] \in Nat
  BY DEF TypeOK
<1>2. <<t, k>> \in References(h)
  BY <1>1, ReferenceIs
<1>3. \A x : x \in References(h)' <=> \E u \in Threads : \E i \in 1 .. held'[u][h] : x = <<u, i>>
  BY DEF References
<1>4. ASSUME NEW x PROVE x \in References(h)' <=> x \in References(h) \ {<<t, k>>}
  <2>1. ASSUME NEW u \in Threads, NEW i \in 1 .. held'[u][h], x = <<u, i>>
        PROVE  x \in References(h) \ {<<t, k>>}
    <3>1. i \in 1 .. held[u][h] /\ <<u, i>> # <<t, k>>
      BY <1>1
    <3> QED
      BY <2>1, <3>1, ReferenceIs
  <2>2. ASSUME NEW u \in Threads, NEW i \in 1 .. held[u][h], x = <<u, i>>, x # <<t, k>>
        PROVE  x \in References(h)'
    <3>1. i \in 1 .. held'[u][h]
      BY <1>1, <2>2
    <3> QED
      BY <1>3, <2>2, <3>1
  <2> QED
    BY <1>3, <2>1, <2>2, ReferenceIs
<1>5. References(h)' = References(h) \ {<<t, k>>}
  BY <1>4
<1> HIDE DEF k
<1> QED
  BY <1>2, <1>5, CountIs DEF HeldCount

LEMMA HeldMoves ==
  ASSUME TypeOK, NEW h \in Headers, IsFiniteSet(References(h)),
         NEW t \in Threads, NEW v \in Threads \ {t}, held[t][h] > 0,
         held'[t][h] = held[t][h] - 1, held'[v][h] = held[v][h] + 1,
         \A u \in Threads \ {t, v} : held'[u][h] = held[u][h]
  PROVE  IsFiniteSet(References(h)') /\ HeldCount(h)' = HeldCount(h)
<1> DEFINE k == held[t][h]  l == held[v][h] + 1  S == References(h) \ {<<t, k>>}
<1>1. \A u \in Threads : held[u][h] \in Nat
  BY DEF TypeOK
<1>2. <<t, k>> \in References(h) /\ <<v, l>> \notin S
  BY <1>1, ReferenceIs
<1>3. \A x : x \in References(h)' <=> \E u \in Threads : \E i \in 1 .. held'[u][h] : x = <<u, i>>
  BY DEF References
<1>4. ASSUME NEW x PROVE x \in References(h)' <=> x \in S \cup {<<v, l>>}
  <2>1. ASSUME NEW u \in Threads, NEW i \in 1 .. held'[u][h], x = <<u, i>>
        PROVE  x \in S \cup {<<v, l>>}
    <3>1. (i \in 1 .. held[u][h] /\ <<u, i>> # <<t, k>>) \/ (u = v /\ i = l)
      BY <1>1
    <3> QED
      BY <2>1, <3>1, ReferenceIs
  <2>2. ASSUME NEW u \in Threads, NEW i \in 1 .. held[u][h], x = <<u, i>>, x # <<t, k>>
        PROVE  x \in References(h)'
    <3>1. i \in 1 .. held'[u][h]
      BY <1>1, <2>2
    <3> QED
      BY <1>3, <2>2, <3>1
  <2>3. <<v, l>> \in References(h)'
    <3>1. l \in 1 .. held'[v][h]
      BY <1>1
    <3> QED
      BY <1>3, <3>1
  <2> QED
    BY <1>3, <2>1, <2>2, <2>3, ReferenceIs
<1>5. References(h)' = S \cup {<<v, l>>}
  BY <1>4
<1>6. IsFiniteSet(S) /\ Cardinality(S) = Cardinality(References(h)) - 1
  BY <1>2, CountIs
<1>7. Cardinality(References(h)) \in Nat
  BY CountIs
<1> HIDE DEF S, k, l
<1>8. IsFiniteSet(References(h)') /\ Cardinality(References(h)') = Cardinality(S) + 1
  BY <1>2, <1>5, <1>6, CountIs
<1> QED
  BY <1>6, <1>7, <1>8 DEF HeldCount

-----------------------------------------------------------------------------
\* What the stack of a thread becomes when its innermost call ends, goes on or makes
\* other calls.
Replaced(s, f, r) ==
  /\ r \in Seq(Frame) /\ Len(r) = Len(s) - 1 + Len(f)
  /\ \A i \in 1 .. Len(s) - 1 : r[i] = s[i]
  /\ \A i \in 1 .. Len(f) : r[Len(s) - 1 + i] = f[i]

LEMMA OuterIs ==
  ASSUME NEW s \in Seq(Frame), s # <<>>, NEW f \in Seq(Frame)
  PROVE  Replaced(s, f, SubSeq(s, 1, Len(s) - 1) \o f)
<1> DEFINE q == SubSeq(s, 1, Len(s) - 1)  r == q \o f
<1>1. Len(s) \in Nat \ {0} /\ Len(f) \in Nat
  BY EmptySeq
<1>2. q \in Seq(Frame) /\ Len(q) = Len(s) - 1 /\ \A i \in 1 .. Len(s) - 1 : q[i] = s[i]
  <2> DEFINE n == Len(s) - 1
  <2>1. n \in Nat /\ \A i \in 1 .. n : s[i] \in Frame
    BY <1>1
  <2>2. /\ q \in Seq(Frame) /\ Len(q) = IF 1 <= n THEN n - 1 + 1 ELSE 0
        /\ \A i \in 1 .. n - 1 + 1 : q[i] = s[1 + i - 1]
    BY <2>1, SubSeqProperties
  <2>3. n - 1 + 1 = n /\ \A i \in 1 .. n : 1 + i - 1 = i
    BY <2>1
  <2> HIDE DEF q
  <2>4. \A i \in 1 .. n : q[i] = s[i]
    BY <2>2, <2>3
  <2> HIDE DEF n
  <2>5. Len(q) = n
    BY <2>1, <2>2, <2>3
  <2> USE DEF n
  <2> QED
    BY <2>2, <2>4, <2>5
<1> HIDE DEF q
<1>3. /\ r \in Seq(Frame) /\ Len(r) = Len(q) + Len(f)
      /\ \A i \in 1 .. Len(q) + Len(f) : r[i] = IF i <= Len(q) THEN q[i] ELSE f[i - Len(q)]
  BY <1>2, ConcatProperties
<1> HIDE DEF r
<1>4. \A i \in 1 .. Len(s) - 1 : i \in 1 .. Len(q) + Len(f) /\ i <= Len(q)
  BY <1>1, <1>2, <1>3
<1>5. \A i \in 1 .. Len(f) : /\ Len(s) - 1 + i \in 1 .. Len(q) + Len(f) /\ ~(Len(s) - 1 + i <= Len(q))
                             /\ (Len(s) - 1 + i) - Len(q) = i
  BY <1>1, <1>2, <1>3
<1>6. Replaced(s, f, r)
  BY <1>1, <1>2, <1>3, <1>4, <1>5 DEF Replaced
<1> QED
  BY <1>6 DEF r, q

\* The frames of a thread whose innermost call is replaced by the frames f.
Below(t) == IF Idle(t) THEN 0 ELSE Len(calls[t]) - 1
Becomes(t, f) ==
  /\ \A u \in Threads \ {t} : calls'[u] = calls[u]
  /\ calls' \in [Threads -> Seq(Frame)]
  /\ Len(calls'[t]) = Below(t) + Len(f)
  /\ \A i \in 1 .. Below(t) : calls'[t][i] = calls[t][i]
  /\ \A i \in 1 .. Len(f) : calls'[t][Below(t) + i] = f[i]

LEMMA StackIs ==
  ASSUME TypeOK, NEW t \in Threads
  PROVE  /\ calls[t] \in Seq(Frame) /\ Len(calls[t]) \in Nat /\ Below(t) \in Nat
         /\ Idle(t) <=> Len(calls[t]) = 0
         /\ Len(calls[t]) = IF Idle(t) THEN 0 ELSE Below(t) + 1
         /\ \A i \in 1 .. Len(calls[t]) : calls[t][i] \in Frame
         /\ ~Idle(t) => Top(t) = calls[t][Below(t) + 1] /\ Top(t) \in Frame
<1>1. calls[t] \in Seq(Frame)
  BY DEF TypeOK
<1>2. /\ Len(calls[t]) \in Nat /\ (Idle(t) <=> Len(calls[t]) = 0)
      /\ \A i \in 1 .. Len(calls[t]) : calls[t][i] \in Frame
  BY <1>1, EmptySeq DEF Idle
<1> QED
  BY <1>1, <1>2 DEF Below, Top

LEMMA GotoIs ==
  ASSUME TypeOK, NEW t \in Threads, ~Idle(t), NEW f \in Seq(Frame), Goto(t, f)
  PROVE  Becomes(t, f)
<1>1. calls[t] \in Seq(Frame) /\ calls[t] # <<>> /\ calls \in [Threads -> Seq(Frame)]
  BY StackIs DEF Idle, TypeOK
<1>2. calls'[t] = Outer(t) \o f /\ \A u \in Threads \ {t} : calls'[u] = calls[u]
  BY <1>1 DEF Goto
<1>3. Replaced(calls[t], f, Outer(t) \o f)
  BY <1>1, OuterIs, Zenon DEF Outer
<1>4. Below(t) = Len(calls[t]) - 1
  BY DEF Below
<1>5. calls' \in [Threads -> Seq(Frame)]
  BY <1>1, <1>3 DEF Goto, Replaced
<1> QED
  BY <1>2, <1>3, <1>4, <1>5 DEF Becomes, Replaced

LEMMA BeginIs ==
  ASSUME TypeOK, NEW t \in Threads, Idle(t), NEW f \in Seq(Frame),
         calls' = [calls EXCEPT ![t] = f]
  PROVE  Becomes(t, f)
<1>1. calls' \in [Threads -> Seq(Frame)] /\ calls'[t] = f
  BY DEF TypeOK
<1>2. \A u \in Threads \ {t} : calls'[u] = calls[u]
  BY DEF TypeOK
<1>3. Below(t) = 0 /\ Len(f) \in Nat /\ \A i \in 1 .. Len(f) : 0 + i = i
  BY DEF Below
<1> QED
  BY <1>1, <1>2, <1>3 DEF Becomes

\* The stacks and the frames there are.
LEMMA FramesAre ==
  /\ <<>> \in Seq(Frame)
  /\ \A f \in Frame : <<f>> \in Seq(Frame)
  /\ \A f, g \in Frame : <<f, g>> \in Seq(Frame)
OBVIOUS

LEMMA CallIs ==
  ASSUME NEW at \in {"load", "store", "zero", "recycle", "acquire"}, NEW h \in Headers
  PROVE  Call(at, h) \in Frame /\ Call(at, h).at = at /\ Call(at, h).hdr = h
BY DEF Call, Frame

LEMMA LoadedIs ==
  ASSUME NEW c \in Frame, NEW n \in Int
  PROVE  LET d == [c EXCEPT !.at = "store", !.count = n]
         IN d \in Frame /\ d.at = "store" /\ d.hdr = c.hdr /\ d.count = n
BY DEF Frame

LEMMA AcquiringIs ==
  ASSUME TypeOK, NEW h \in Headers, NEW d \in Headers \cup {None}
  PROVE  /\ Acquiring(h, d) \in Frame
         /\ Acquiring(h, d).at = "acquire" /\ Acquiring(h, d).hdr = h
         /\ Acquiring(h, d).count = refcount[h] /\ Acquiring(h, d).dest = d
BY DEF Acquiring, Frame, TypeOK

\* The headers that the calls around the innermost one will recycle.
Waiting(t) == {h \in Headers : \E i \in 1 .. Below(t) : calls[t][i].hdr = h}

LEMMA WaitingIs ==
  ASSUME TypeOK, StackInv, NEW t \in Threads
  PROVE  /\ Idle(t) => Waiting(t) = {} /\ Finishing(t) = {}
         /\ ~Idle(t) => /\ Top(t).hdr \in Headers
                        /\ \A h \in Waiting(t) : Level[Top(t).hdr] < Level[h] /\ h # Top(t).hdr
         /\ ~Idle(t) /\ Top(t).at # "recycle" => Waiting(t) = Finishing(t)
         /\ At(t, "recycle") => /\ Top(t).hdr \in Finishing(t)
                                /\ Waiting(t) = Finishing(t) \ {Top(t).hdr}
<1> DEFINE n == Below(t)  s == calls[t]
<1>1. /\ n \in Nat /\ (Idle(t) => n = 0 /\ Len(s) = 0) /\ (~Idle(t) => Len(s) = n + 1)
      /\ ~Idle(t) => Top(t) = s[n + 1] /\ Top(t) \in Frame
  BY StackIs DEF Below
<1>2. \A h : h \in Finishing(t) <=>
        h \in Headers /\ \E i \in 1 .. Len(s) : s[i].hdr = h /\ s[i].at = "recycle"
  BY DEF Finishing, Recycling
<1>3. /\ \A i \in 1 .. Len(s) : i < Len(s) => s[i].at = "recycle"
      /\ \A i, j \in 1 .. Len(s) : i < j => Level[s[j].hdr] < Level[s[i].hdr]
  BY DEF StackInv, Stacked
<1>4. \A h : h \in Waiting(t) <=> h \in Headers /\ \E i \in 1 .. n : s[i].hdr = h
  BY DEF Waiting
<1> HIDE DEF n, s
<1>5. CASE Idle(t)
  BY <1>1, <1>2, <1>4, <1>5 DEF At
<1>6. CASE ~Idle(t)
  <2>1. \A i \in 1 .. n : i \in 1 .. Len(s) /\ s[i].at = "recycle" /\ i < n + 1
    BY <1>1, <1>3, <1>6
  <2>2. \A i \in 1 .. Len(s) : i \in 1 .. n \/ i = n + 1
    BY <1>1, <1>6
  <2>3. n + 1 \in 1 .. Len(s) /\ Top(t) = s[n + 1] /\ Top(t).hdr \in Headers
    BY <1>1, <1>6 DEF Frame
  <2>4. \A h \in Waiting(t) : Level[Top(t).hdr] < Level[h] /\ h # Top(t).hdr
    <3>1. \A i \in 1 .. n : Level[Top(t).hdr] < Level[s[i].hdr]
      BY <1>3, <2>1, <2>3
    <3>2. \A h \in Waiting(t) : Level[Top(t).hdr] < Level[h]
      BY <1>4, <3>1
    <3> QED
      BY <1>4, <2>3, <3>2, HeadersAssumption
  <2>5. CASE Top(t).at # "recycle"
    <3>1. \A h : h \in Waiting(t) <=> h \in Finishing(t)
      BY <1>2, <1>4, <2>1, <2>2, <2>3, <2>5
    <3> QED
      BY <1>6, <2>3, <2>4, <2>5, <3>1 DEF At
  <2>6. CASE Top(t).at = "recycle"
    <3>1. \A h : h \in Waiting(t) <=> h \in Finishing(t) /\ h # Top(t).hdr
      BY <1>2, <1>4, <2>1, <2>2, <2>3, <2>4
    <3>2. Top(t).hdr \in Finishing(t)
      BY <1>2, <2>3, <2>6
    <3> QED
      BY <1>6, <2>3, <2>4, <2>6, <3>1, <3>2 DEF At
  <2> QED
    BY <2>5, <2>6
<1> QED
  BY <1>5, <1>6

\* A thread whose stack is that of before has the same calls.
LEMMA OthersAre ==
  ASSUME NEW t \in Threads, calls'[t] = calls[t]
  PROVE  /\ Idle(t)' <=> Idle(t)
         /\ ~Idle(t) => Top(t)' = Top(t)
         /\ Finishing(t)' = Finishing(t)
         /\ \A l : At(t, l)' <=> At(t, l)
         /\ \A h : Ends(t, h)' <=> Ends(t, h)
BY DEF Idle, Top, Finishing, Recycling, At, Ends

LEMMA PopIs ==
  ASSUME TypeOK, StackInv, NEW t \in Threads, ~Idle(t), Becomes(t, <<>>)
  PROVE  /\ Stacked(calls'[t]) /\ Finishing(t)' = Waiting(t)
         /\ Idle(t)' \/ At(t, "recycle")'
         /\ \A l : l # "recycle" => ~At(t, l)'
<1> DEFINE n == Below(t)  s == calls[t]  r == calls'[t]
<1>1. n \in Nat /\ Len(s) = n + 1
  BY StackIs
<1>2. r \in Seq(Frame) /\ Len(r) = n /\ \A i \in 1 .. n : r[i] = s[i]
  BY <1>1 DEF Becomes
<1>3. /\ \A i \in 1 .. Len(s) : /\ i < Len(s) => s[i].at = "recycle"
                                /\ s[i].at = "acquire" => Len(s) = 1
      /\ \A i, j \in 1 .. Len(s) : i < j => Level[s[j].hdr] < Level[s[i].hdr]
  BY DEF StackInv, Stacked
<1>4. \A h : h \in Waiting(t) <=> h \in Headers /\ \E i \in 1 .. n : s[i].hdr = h
  BY DEF Waiting
<1>5. \A h : h \in Finishing(t)' <=>
        h \in Headers /\ \E i \in 1 .. Len(r) : r[i].hdr = h /\ r[i].at = "recycle"
  BY DEF Finishing, Recycling
<1>6. (Idle(t)' <=> r = <<>>) /\ (\A l : At(t, l)' <=> ~Idle(t)' /\ r[Len(r)].at = l)
  BY DEF Idle, At, Top
<1> HIDE DEF n, s, r
<1>7. \A i \in 1 .. n : i \in 1 .. Len(s) /\ s[i].at = "recycle"
  <2>1. \A i \in 1 .. n : i \in 1 .. Len(s) /\ i < Len(s)
    BY <1>1
  <2> QED
    BY <1>3, <2>1
<1>8. Stacked(r)
  BY <1>1, <1>2, <1>3, <1>7 DEF Stacked
<1>9. \A h : h \in Finishing(t)' <=> h \in Waiting(t)
  BY <1>2, <1>4, <1>5, <1>7
<1>10. r = <<>> \/ (Len(r) \in 1 .. n /\ r[Len(r)].at = "recycle")
  <2>1. r = <<>> <=> Len(r) = 0
    BY <1>2, EmptySeq
  <2>2. n # 0 => n \in 1 .. n
    BY <1>1
  <2> QED
    BY <1>2, <1>7, <2>1, <2>2
<1> QED
  BY <1>6, <1>8, <1>9, <1>10 DEF r

LEMMA PushIs ==
  ASSUME TypeOK, StackInv, NEW t \in Threads, NEW f \in Frame, Becomes(t, <<f>>),
         f.at = "acquire" => Idle(t),
         \A h \in Waiting(t) : Level[f.hdr] < Level[h]
  PROVE  /\ Stacked(calls'[t])
         /\ Finishing(t)' = IF f.at = "recycle" THEN Waiting(t) \cup {f.hdr} ELSE Waiting(t)
         /\ ~Idle(t)' /\ Top(t)' = f /\ \A l : At(t, l)' <=> f.at = l
<1> DEFINE n == Below(t)  s == calls[t]  r == calls'[t]
<1>1. n \in Nat /\ (Idle(t) => n = 0) /\ \A i \in 1 .. n : i \in 1 .. Len(s) /\ i < Len(s)
  BY StackIs DEF Below
<1>2. Len(<<f>>) = 1 /\ <<f>>[1] = f
  OBVIOUS
<1>3. r \in Seq(Frame) /\ Len(r) = n + 1 /\ (\A i \in 1 .. n : r[i] = s[i]) /\ r[n + 1] = f
  BY <1>1, <1>2 DEF Becomes
<1>4. /\ \A i \in 1 .. Len(s) : /\ i < Len(s) => s[i].at = "recycle"
                                /\ s[i].at = "acquire" => Len(s) = 1
      /\ \A i, j \in 1 .. Len(s) : i < j => Level[s[j].hdr] < Level[s[i].hdr]
  BY DEF StackInv, Stacked
<1>5. \A h : h \in Waiting(t) <=> h \in Headers /\ \E i \in 1 .. n : s[i].hdr = h
  BY DEF Waiting
<1>6. \A h : h \in Finishing(t)' <=>
        h \in Headers /\ \E i \in 1 .. Len(r) : r[i].hdr = h /\ r[i].at = "recycle"
  BY DEF Finishing, Recycling
<1>7. (Idle(t)' <=> r = <<>>) /\ Top(t)' = r[Len(r)] /\ (\A l : At(t, l)' <=> ~Idle(t)' /\ r[Len(r)].at = l)
  BY DEF Idle, At, Top
<1>8. f.hdr \in Headers
  BY DEF Frame
<1>9. \A i \in 1 .. n : s[i].hdr \in Headers
  BY <1>1, StackIs DEF Frame
<1> HIDE DEF n, s, r
<1>10. \A i \in 1 .. n : r[i] = s[i] /\ s[i].at = "recycle"
  <2>1. \A i \in 1 .. n : s[i].at = "recycle"
    BY <1>1, <1>4
  <2> QED
    BY <1>3, <2>1
<1>11. \A i \in 1 .. Len(r) : i \in 1 .. n \/ i = n + 1
  BY <1>1, <1>3
<1>12. Stacked(r)
  <2>1. \A i \in 1 .. Len(r) : /\ i < Len(r) => r[i].at = "recycle"
                               /\ r[i].at = "acquire" => Len(r) = 1
    BY <1>1, <1>3, <1>10, <1>11
  <2>2. \A i \in 1 .. n : Level[f.hdr] < Level[s[i].hdr]
    BY <1>5, <1>9
  <2>3. ASSUME NEW i \in 1 .. Len(r), NEW j \in 1 .. Len(r), i < j
        PROVE  Level[r[j].hdr] < Level[r[i].hdr]
    <3>1. CASE j \in 1 .. n
      <4>1. i \in 1 .. n
        BY <1>1, <1>3, <2>3, <3>1
      <4> QED
        BY <1>1, <1>4, <1>10, <2>3, <3>1, <4>1
    <3>2. CASE j = n + 1
      <4>1. i \in 1 .. n
        BY <1>1, <1>3, <2>3, <3>2
      <4> QED
        BY <1>3, <1>10, <2>2, <3>2, <4>1
    <3> QED
      BY <1>11, <3>1, <3>2
  <2>4. \A i, j \in 1 .. Len(r) : i < j => Level[r[j].hdr] < Level[r[i].hdr]
    BY <2>3
  <2> QED
    BY <2>1, <2>4, Zenon DEF Stacked
<1>13. n + 1 \in 1 .. Len(r) /\ \A i \in 1 .. n : i \in 1 .. Len(r)
  BY <1>1, <1>3
<1>14. \A h : h \in Finishing(t)' <=> h \in Waiting(t) \/ (f.at = "recycle" /\ h = f.hdr)
  BY <1>3, <1>5, <1>6, <1>8, <1>10, <1>11, <1>13
<1>15. r # <<>> /\ r[Len(r)] = f
  BY <1>1, <1>3, EmptySeq
<1> QED
  BY <1>7, <1>12, <1>14, <1>15 DEF r

LEMMA PushTwoIs ==
  ASSUME TypeOK, StackInv, NEW t \in Threads, NEW f \in Frame, NEW g \in Frame,
         Becomes(t, <<f, g>>), f.at = "recycle", g.at = "load",
         Level[g.hdr] < Level[f.hdr], \A h \in Waiting(t) : Level[f.hdr] < Level[h]
  PROVE  /\ Stacked(calls'[t]) /\ Finishing(t)' = Waiting(t) \cup {f.hdr}
         /\ ~Idle(t)' /\ Top(t)' = g /\ \A l : At(t, l)' <=> l = "load"
<1> DEFINE n == Below(t)  s == calls[t]  r == calls'[t]
<1>1. n \in Nat /\ \A i \in 1 .. n : i \in 1 .. Len(s) /\ i < Len(s)
  BY StackIs DEF Below
<1>2. Len(<<f, g>>) = 2 /\ <<f, g>>[1] = f /\ <<f, g>>[2] = g
  OBVIOUS
<1>3. /\ r \in Seq(Frame) /\ Len(r) = n + 2 /\ (\A i \in 1 .. n : r[i] = s[i])
      /\ r[n + 1] = f /\ r[n + 2] = g
  BY <1>1, <1>2 DEF Becomes
<1>4. /\ \A i \in 1 .. Len(s) : i < Len(s) => s[i].at = "recycle"
      /\ \A i, j \in 1 .. Len(s) : i < j => Level[s[j].hdr] < Level[s[i].hdr]
  BY DEF StackInv, Stacked
<1>5. \A h : h \in Waiting(t) <=> h \in Headers /\ \E i \in 1 .. n : s[i].hdr = h
  BY DEF Waiting
<1>6. \A h : h \in Finishing(t)' <=>
        h \in Headers /\ \E i \in 1 .. Len(r) : r[i].hdr = h /\ r[i].at = "recycle"
  BY DEF Finishing, Recycling
<1>7. /\ Idle(t)' <=> r = <<>>
      /\ Top(t)' = r[Len(r)] /\ \A l : At(t, l)' <=> ~Idle(t)' /\ r[Len(r)].at = l
  BY DEF Idle, At, Top
<1>8. /\ f.hdr \in Headers /\ g.hdr \in Headers
      /\ \A i \in 1 .. n : s[i].hdr \in Headers
  BY <1>1, StackIs DEF Frame
<1> HIDE DEF n, s, r
<1>9. \A i \in 1 .. n : r[i] = s[i] /\ s[i].at = "recycle"
  <2>1. \A i \in 1 .. n : s[i].at = "recycle"
    BY <1>1, <1>4
  <2> QED
    BY <1>3, <2>1
<1>10. \A i \in 1 .. Len(r) : i \in 1 .. n \/ i = n + 1 \/ i = n + 2
  BY <1>1, <1>3
<1>11. Stacked(r)
  <2>1. \A i \in 1 .. Len(r) : i < Len(r) => i \in 1 .. n \/ i = n + 1
    BY <1>1, <1>3
  <2>2. \A i \in 1 .. Len(r) : /\ i < Len(r) => r[i].at = "recycle"
                               /\ r[i].at = "acquire" => Len(r) = 1
    BY <1>3, <1>9, <1>10, <2>1
  <2>3. \A i \in 1 .. n : Level[f.hdr] < Level[s[i].hdr] /\ Level[g.hdr] < Level[s[i].hdr]
    <3>1. \A i \in 1 .. n : Level[f.hdr] < Level[s[i].hdr]
      BY <1>5, <1>8
    <3> QED
      BY <1>8, <3>1, HeadersAssumption
  <2>4. ASSUME NEW i \in 1 .. Len(r), NEW j \in 1 .. Len(r), i < j
        PROVE  Level[r[j].hdr] < Level[r[i].hdr]
    <3>1. CASE j \in 1 .. n
      <4>1. i \in 1 .. n
        BY <1>1, <1>3, <2>4, <3>1
      <4> QED
        BY <1>1, <1>4, <1>9, <2>4, <3>1, <4>1
    <3>2. CASE j = n + 1
      <4>1. i \in 1 .. n
        BY <1>1, <1>3, <2>4, <3>2
      <4> QED
        BY <1>3, <1>9, <2>3, <3>2, <4>1
    <3>3. CASE j = n + 2
      <4>1. i \in 1 .. n \/ i = n + 1
        BY <1>1, <1>3, <2>4, <3>3
      <4> QED
        BY <1>3, <1>9, <2>3, <3>3, <4>1
    <3> QED
      BY <1>10, <3>1, <3>2, <3>3
  <2>5. \A i, j \in 1 .. Len(r) : i < j => Level[r[j].hdr] < Level[r[i].hdr]
    BY <2>4
  <2> QED
    BY <2>2, <2>5, Zenon DEF Stacked
<1>12. n + 1 \in 1 .. Len(r) /\ \A i \in 1 .. n : i \in 1 .. Len(r)
  BY <1>1, <1>3
<1>13. \A h : h \in Finishing(t)' <=> h \in Waiting(t) \/ h = f.hdr
  BY <1>3, <1>5, <1>6, <1>8, <1>9, <1>10, <1>12
<1>14. r # <<>> /\ r[Len(r)] = g
  BY <1>1, <1>3, EmptySeq
<1> QED
  BY <1>7, <1>11, <1>13, <1>14 DEF r

-----------------------------------------------------------------------------
\* What each step does to the stack of the thread that makes it; the stacks of the
\* others do not change.
Others(t)  == /\ calls' \in [Threads -> Seq(Frame)] /\ Stacked(calls'[t])
              /\ \A u \in Threads \ {t} : calls'[u] = calls[u]
Now(t, f)  == ~Idle(t)' /\ Top(t)' = f /\ \A l : At(t, l)' <=> f.at = l
Rests(t)   == \A l : l # "recycle" => ~At(t, l)'

LEMMA AcquireSteps ==
  ASSUME TypeOK, IInv, NEW t \in Threads, NEW h \in Headers, NEW d \in Headers \cup {None},
         Idle(t), calls' = [calls EXCEPT ![t] = <<Acquiring(h, d)>>]
  PROVE  Others(t) /\ Now(t, Acquiring(h, d)) /\ Finishing(t)' = Finishing(t)
<1> DEFINE f == Acquiring(h, d)
<1>1. f \in Frame /\ f.at = "acquire"
  BY AcquiringIs
<1> HIDE DEF f
<1>2. Becomes(t, <<f>>)
  <2>1. calls' = [calls EXCEPT ![t] = <<f>>] /\ Idle(t)
    BY DEF f
  <2>2. <<f>> \in Seq(Frame)
    BY <1>1, FramesAre
  <2> QED
    BY <2>1, <2>2, BeginIs
<1>3. Waiting(t) = Finishing(t) /\ Waiting(t) = {} /\ StackInv
  BY WaitingIs DEF IInv
<1>4. Stacked(calls'[t]) /\ Now(t, f) /\ Finishing(t)' = Waiting(t)
  BY <1>1, <1>2, <1>3, PushIs DEF Now
<1> QED
  BY <1>2, <1>3, <1>4 DEF Others, Becomes, f

LEMMA ReleaseSteps ==
  ASSUME TypeOK, IInv, NEW t \in Threads, NEW h \in Headers, Release(t, h)
  PROVE  Others(t) /\ Now(t, Call("load", h)) /\ Finishing(t)' = Finishing(t)
<1> DEFINE f == Call("load", h)
<1>1. f \in Frame /\ f.at = "load"
  BY CallIs
<1> HIDE DEF f
<1>2. Becomes(t, <<f>>)
  <2>1. calls' = [calls EXCEPT ![t] = <<f>>] /\ Idle(t)
    BY DEF Release, Begins, f
  <2>2. <<f>> \in Seq(Frame)
    BY <1>1, FramesAre
  <2> QED
    BY <2>1, <2>2, BeginIs
<1>3. Waiting(t) = Finishing(t) /\ Waiting(t) = {} /\ StackInv
  BY WaitingIs DEF IInv, Release, Begins
<1>4. Stacked(calls'[t]) /\ Now(t, f) /\ Finishing(t)' = Waiting(t)
  BY <1>1, <1>2, <1>3, PushIs DEF Now
<1> QED
  BY <1>2, <1>3, <1>4 DEF Others, Becomes, f

LEMMA EndSteps ==
  ASSUME TypeOK, IInv, NEW t \in Threads, ~Idle(t), Goto(t, <<>>)
  PROVE  Others(t) /\ Rests(t) /\ Finishing(t)' = Waiting(t)
<1>1. Becomes(t, <<>>)
  BY FramesAre, GotoIs
<1>2. Stacked(calls'[t]) /\ Finishing(t)' = Waiting(t) /\ Rests(t)
  BY <1>1, PopIs DEF IInv, Rests
<1> QED
  BY <1>1, <1>2 DEF Others, Becomes

LEMMA LoadSteps ==
  ASSUME TypeOK, IInv, NEW t \in Threads, Load(t)
  PROVE  /\ Others(t) /\ Finishing(t)' = Finishing(t)
         /\ \E f \in Frame : /\ Now(t, f) /\ f.at = "store" /\ f.hdr = Top(t).hdr
                             /\ f.count = refcount[Top(t).hdr]
<1> DEFINE f == [Top(t) EXCEPT !.at = "store", !.count = refcount[Top(t).hdr]]
<1>1. ~Idle(t) /\ Top(t).at = "load" /\ Top(t) \in Frame /\ Top(t).hdr \in Headers
  BY StackIs DEF Load, At, Frame
<1>2. f \in Frame /\ f.at = "store" /\ f.hdr = Top(t).hdr /\ f.count = refcount[Top(t).hdr]
  BY <1>1, LoadedIs DEF TypeOK
<1>3. Goto(t, <<f>>)
  BY DEF Load
<1> HIDE DEF f
<1>4. Becomes(t, <<f>>)
  <2>1. <<f>> \in Seq(Frame)
    BY <1>2, FramesAre
  <2> QED
    BY <1>1, <1>3, <2>1, GotoIs
<1>5. /\ Waiting(t) = Finishing(t) /\ StackInv
      /\ \A g \in Waiting(t) : Level[Top(t).hdr] < Level[g]
  BY <1>1, WaitingIs DEF IInv
<1>6. Stacked(calls'[t]) /\ Now(t, f) /\ Finishing(t)' = Waiting(t)
  BY <1>2, <1>4, <1>5, PushIs DEF Now
<1> QED
  BY <1>2, <1>4, <1>5, <1>6 DEF Others, Becomes

LEMMA StoreSteps ==
  ASSUME TypeOK, IInv, NEW t \in Threads, Store(t)
  PROVE  /\ Others(t) /\ Finishing(t)' = Finishing(t)
         /\ IF Top(t).count = 1 THEN Now(t, Call("zero", Top(t).hdr)) ELSE Rests(t)
<1> DEFINE f == Call("zero", Top(t).hdr)
<1>1. ~Idle(t) /\ Top(t).at = "store" /\ Top(t).hdr \in Headers
  BY StackIs DEF Store, At, Frame
<1>2. /\ Waiting(t) = Finishing(t) /\ StackInv
      /\ \A g \in Waiting(t) : Level[Top(t).hdr] < Level[g]
  BY <1>1, WaitingIs DEF IInv
<1>3. CASE Top(t).count = 1
  <2>1. f \in Frame /\ f.at = "zero" /\ f.hdr = Top(t).hdr
    BY <1>1, CallIs
  <2>2. Goto(t, <<f>>)
    BY <1>3 DEF Store
  <2> HIDE DEF f
  <2>3. Becomes(t, <<f>>)
    BY <1>1, <2>1, <2>2, FramesAre, GotoIs
  <2>4. Stacked(calls'[t]) /\ Now(t, f) /\ Finishing(t)' = Waiting(t)
    BY <1>2, <2>1, <2>3, PushIs DEF Now
  <2> QED
    BY <1>2, <1>3, <2>3, <2>4 DEF Others, Becomes, f
<1>4. CASE Top(t).count # 1
  <2>1. Goto(t, <<>>)
    BY <1>4 DEF Store
  <2> QED
    BY <1>1, <1>2, <1>4, <2>1, EndSteps
<1> QED
  BY <1>3, <1>4

\* The last part of a release, on a header whose count is zero.
LEMMA FinalSteps ==
  ASSUME TypeOK, IInv, NEW t \in Threads, NEW h \in Headers,
         (Continue(t) /\ Top(t).hdr = h) \/ ReleaseContinue(t, h)
  PROVE  /\ Others(t) /\ Finishing(t)' = Finishing(t) \cup {h}
         /\ IF reference[h] = None THEN Now(t, Call("recycle", h))
                                  ELSE Now(t, Call("load", reference[h]))
<1> DEFINE f == Call("recycle", h)  g == Call("load", reference[h])
<1>1. /\ f \in Frame /\ f.at = "recycle" /\ f.hdr = h
      /\ reference[h] # None => g \in Frame /\ g.at = "load" /\ g.hdr = reference[h]
  BY CallIs DEF TypeOK
<1>2. /\ Waiting(t) = Finishing(t) /\ StackInv
      /\ \A d \in Waiting(t) : Level[h] < Level[d]
  BY WaitingIs DEF IInv, Continue, ReleaseContinue, Begins, At
<1>3. IF reference[h] = None THEN Becomes(t, <<f>>) ELSE Becomes(t, <<f, g>>)
  <2> DEFINE s == IF reference[h] = None THEN <<f>> ELSE <<f, g>>
  <2>1. Finalising(h) = s
    BY DEF Finalising
  <2>2. s \in Seq(Frame)
    BY <1>1
  <2>3. CASE Continue(t) /\ Top(t).hdr = h
    <3>1. ~Idle(t) /\ Goto(t, s)
      BY <2>1, <2>3 DEF Continue, At
    <3> HIDE DEF s
    <3>2. Becomes(t, s)
      BY <2>2, <3>1, GotoIs
    <3> QED
      BY <3>2 DEF s
  <2>4. CASE ReleaseContinue(t, h)
    <3>1. Idle(t) /\ calls' = [calls EXCEPT ![t] = s]
      BY <2>1, <2>4 DEF ReleaseContinue, Begins
    <3> HIDE DEF s
    <3>2. Becomes(t, s)
      BY <2>2, <3>1, BeginIs
    <3> QED
      BY <3>2 DEF s
  <2> QED
    BY <2>3, <2>4
<1> HIDE DEF f, g
<1>4. CASE reference[h] = None
  <2>1. Stacked(calls'[t]) /\ Now(t, f) /\ Finishing(t)' = Waiting(t) \cup {h}
    BY <1>1, <1>2, <1>3, <1>4, PushIs DEF Now
  <2> QED
    BY <1>2, <1>3, <1>4, <2>1 DEF Others, Becomes, f
<1>5. CASE reference[h] # None
  <2>0. Level[reference[h]] < Level[h]
    BY <1>5 DEF IInv, StackInv, Levels
  <2>1. Stacked(calls'[t]) /\ Now(t, g) /\ Finishing(t)' = Waiting(t) \cup {h}
    BY <1>1, <1>2, <1>3, <1>5, <2>0, PushTwoIs DEF Now
  <2> QED
    BY <1>2, <1>3, <1>5, <2>1 DEF Others, Becomes, g
<1> QED
  BY <1>4, <1>5

-----------------------------------------------------------------------------
\* What the invariant says of one header.
LEMMA CountsAre ==
  ASSUME TypeOK, IInv, NEW h \in Sounds
  PROVE  /\ h \in Headers /\ refcount[h] \in Nat /\ HeldCount(h) \in Nat
         /\ Cardinality(Showing(h)) \in Nat /\ Cardinality(Releasing(h)) \in Nat
         /\ One(h \in pool) = IF h \in pool THEN 1 ELSE 0
         /\ refcount[h] = HeldCount(h) + Cardinality(Showing(h)) + Cardinality(Releasing(h))
                            + One(h \in pool)
         /\ HeldCount(h) = 0 <=> \A t \in Threads : held[t][h] = 0
         /\ Cardinality(Showing(h)) = 0 <=> Showing(h) = {}
         /\ Cardinality(Releasing(h)) = 0 <=> Releasing(h) = {}
         /\ IsFiniteSet(References(h)) /\ IsFiniteSet(Showing(h)) /\ IsFiniteSet(Releasing(h))
<1>1. IsFiniteSet(Showing(h)) /\ IsFiniteSet(Releasing(h))
  BY CountedIs
<1>2. /\ Cardinality(Showing(h)) \in Nat /\ (Cardinality(Showing(h)) = 0 <=> Showing(h) = {})
      /\ Cardinality(Releasing(h)) \in Nat /\ (Cardinality(Releasing(h)) = 0 <=> Releasing(h) = {})
  BY <1>1, CountIs
<1>3. CountInv
  BY DEF IInv
<1>4. HeldCount(h) \in Nat /\ (HeldCount(h) = 0 <=> \A t \in Threads : held[t][h] = 0)
  BY <1>3, HeldIs
<1>5. One(h \in pool) = (IF h \in pool THEN 1 ELSE 0) /\ One(h \in pool) \in Nat
  BY DEF One
<1>6. IsFiniteSet(References(h)) /\ refcount[h] = Total(h)
  BY <1>3 DEF CountInv
<1>7. h \in Headers /\ refcount[h] \in Nat
  BY <1>2, <1>4, <1>5, <1>6, SoundIs DEF Total
<1> QED
  BY <1>1, <1>2, <1>4, <1>5, <1>6, <1>7 DEF Total

LEMMA UsesAre ==
  ASSUME TypeOK, IInv, NEW h \in Sounds
  PROVE  /\ refcount[h] > 0 => h \notin delayed /\ \A t \in Threads : ~Ends(t, h)
         /\ refcount[h] = 0 => /\ \A t \in Threads : held[t][h] = 0 /\ t \notin Releasing(h)
                               /\ h \notin pool /\ Showing(h) = {}
         /\ h \in pool => /\ refcount[h] = 1 /\ Showing(h) = {}
                          /\ \A t \in Threads : held[t][h] = 0 /\ t \notin Releasing(h)
         /\ \A t \in Threads : held[t][h] \in Nat /\ (held[t][h] > 0 => refcount[h] > 0)
         /\ Releasing(h) # {} => refcount[h] > 0
<1>1. /\ refcount[h] = 0 <=> h \in delayed \/ \E t \in Threads : Ends(t, h)
      /\ h \in pool => refcount[h] = 1
  BY DEF IInv, EndInv, PoolInv
<1>2. \A t \in Threads : held[t][h] \in Nat
  BY CountsAre DEF TypeOK
<1>3. refcount[h] = 0 => /\ HeldCount(h) = 0 /\ Cardinality(Showing(h)) = 0
                         /\ Cardinality(Releasing(h)) = 0 /\ h \notin pool
  BY CountsAre
<1>4. h \in pool => /\ HeldCount(h) = 0 /\ Cardinality(Showing(h)) = 0
                    /\ Cardinality(Releasing(h)) = 0
  BY <1>1, CountsAre
<1>5. /\ refcount[h] \in Nat
      /\ HeldCount(h) = 0 <=> \A t \in Threads : held[t][h] = 0
      /\ Cardinality(Showing(h)) = 0 <=> Showing(h) = {}
      /\ Cardinality(Releasing(h)) = 0 <=> Releasing(h) = {}
  BY CountsAre
<1>6. /\ refcount[h] = 0 => /\ \A t \in Threads : held[t][h] = 0
                            /\ Releasing(h) = {} /\ Showing(h) = {}
      /\ h \in pool => /\ \A t \in Threads : held[t][h] = 0
                       /\ Releasing(h) = {} /\ Showing(h) = {}
  BY <1>3, <1>4, <1>5
<1>7. \A t \in Threads : held[t][h] > 0 => refcount[h] > 0
  BY <1>2, <1>5, <1>6
<1> QED
  BY <1>1, <1>2, <1>3, <1>5, <1>6, <1>7

LEMMA OwnsIs ==
  ASSUME TypeOK, CountInv, NEW h \in Sounds, NEW t \in Threads, held[t][h] > 0, HeldCount(h) = 1
  PROVE  Owns(t, h)
<1>1. h \in Headers /\ \A u \in Threads : held[u][h] \in Nat
  BY SoundIs DEF TypeOK
<1>2. IsFiniteSet(References(h)) /\ Cardinality(References(h)) = 1
  BY DEF CountInv, HeldCount
<1>3. \A u \in Threads : held[u][h] > 0 => <<u, 1>> \in References(h)
  BY <1>1, ReferenceIs
<1>4. PICK x : References(h) = {x}
  BY <1>2, FS_Singleton
<1>5. \A u \in Threads : held[u][h] > 0 => u = t
  BY <1>3, <1>4
<1> QED
  BY <1>1, <1>5 DEF Owns

\* What does not change.
LEMMA ElsewhereIs ==
  ASSUME NEW U \in SUBSET Threads, \A u \in U : calls'[u] = calls[u]
  PROVE  \A u \in U : /\ Idle(u)' <=> Idle(u)
                      /\ Finishing(u)' = Finishing(u)
                      /\ \A l : (At(u, l)' <=> At(u, l)) /\ (At(u, l) => Top(u)' = Top(u))
                      /\ \A h : Ends(u, h)' <=> Ends(u, h)
BY DEF Idle, Top, Finishing, Recycling, At, Ends

LEMMA StackNext ==
  ASSUME StackInv, NEW t \in Threads, Others(t), Levels'
  PROVE  StackInv'
BY DEF StackInv, Others

LEMMA LevelsSame ==
  ASSUME StackInv, reference' = reference
  PROVE  Levels'
BY DEF StackInv, Levels

LEMMA ShowingSame ==
  ASSUME reference' = reference, \A u \in Threads : Finishing(u)' = Finishing(u), NEW h
  PROVE  Showing(h)' = Showing(h)
BY DEF Showing

LEMMA CountSame ==
  ASSUME CountInv, NEW h \in Sounds, h \in Headers, \A t \in Threads : held'[t][h] = held[t][h],
         Showing(h)' = Showing(h), Releasing(h)' = Releasing(h), h \in pool' <=> h \in pool
  PROVE  /\ IsFiniteSet(References(h)') /\ Total(h)' = Total(h)
         /\ refcount'[h] = refcount[h] => refcount'[h] = Total(h)'
<1>1. References(h)' = References(h) /\ HeldCount(h)' = HeldCount(h)
  BY HeldSame
<1>2. One(h \in pool)' = One(h \in pool)
  BY DEF One
<1> QED
  BY <1>1, <1>2 DEF CountInv, Total

-----------------------------------------------------------------------------
\* Who acquires a header, and into what.
LEMMA AcquirersAre ==
  ASSUME TypeOK, IInv, NEW u \in Threads, At(u, "acquire")
  PROVE  /\ Top(u).hdr \in Headers /\ Top(u).dest \in Headers \cup {None}
         /\ held[u][Top(u).hdr] > 0
         /\ Top(u).dest # None => /\ Level[Top(u).hdr] < Level[Top(u).dest]
                                  /\ Top(u).hdr \in Sounds => Top(u).dest \in Sounds
         /\ Top(u).dest \in Sounds => /\ Top(u).dest \in Headers /\ Top(u).dest # None
                                      /\ held[u][Top(u).dest] > 0
                                      /\ \A v \in Threads \ {u} : held[v][Top(u).dest] = 0
                                      /\ reference[Top(u).dest] = None
<1>1. Top(u).hdr \in Headers /\ Top(u).dest \in Headers \cup {None}
  BY StackIs DEF At, Frame
<1>2. Top(u).dest # None => Level[Top(u).hdr] < Level[Top(u).dest]
  BY DEF IInv, AcquireInv
<1>3. Top(u).dest # None /\ Top(u).hdr \in Sounds => Top(u).dest \in Sounds
  <2>1. Top(u).dest # None => Level[Top(u).hdr] <= Level[Top(u).dest]
    BY <1>1, <1>2, HeadersAssumption
  <2> QED
    BY <1>1, <2>1, SoundIs
<1>4. /\ held[u][Top(u).hdr] > 0
      /\ Top(u).dest \in Sounds => Owns(u, Top(u).dest) /\ reference[Top(u).dest] = None
  BY DEF IInv, AcquireInv
<1> QED
  BY <1>1, <1>2, <1>3, <1>4, SoundIs DEF Owns

\* Who acquires a header still does, when what he holds has not changed.
Acquires(u) ==
  /\ held[u][Top(u).hdr] > 0
  /\ Top(u).dest # None => Level[Top(u).hdr] < Level[Top(u).dest]
  /\ Top(u).dest \in Sounds => Owns(u, Top(u).dest) /\ reference[Top(u).dest] = None

LEMMA AcquireSame ==
  ASSUME TypeOK, IInv, NEW u \in Threads, At(u, "acquire"), Top(u)' = Top(u), Sounds' \subseteq Sounds,
         held'[u][Top(u).hdr] > 0,
         Top(u).dest \in Sounds' =>
           /\ \A v \in Threads : held'[v][Top(u).dest] = held[v][Top(u).dest]
           /\ reference'[Top(u).dest] = reference[Top(u).dest]
  PROVE  Acquires(u)'
<1>1. /\ Top(u).dest # None => Level[Top(u).hdr] < Level[Top(u).dest]
      /\ Top(u).dest \in Sounds => Owns(u, Top(u).dest) /\ reference[Top(u).dest] = None
  BY DEF IInv, AcquireInv
<1> QED
  BY <1>1 DEF Owns, Acquires

LEMMA AcquireNow ==
  ASSUME \A u \in Threads : At(u, "acquire")' => Acquires(u)'
  PROVE  AcquireInv'
BY DEF AcquireInv, Acquires

\* Each step keeps the invariant.
LEMMA TakeNext ==
  ASSUME TypeOK, IInv, NEW t \in Threads, NEW h \in Headers, Take(t, h)
  PROVE  TypeOK' /\ IInv'
<1>1. /\ Idle(t) /\ h \in pool /\ pool' = pool \ {h}
      /\ held' = [held EXCEPT ![t][h] = @ + 1]
      /\ refcount' = refcount /\ reference' = reference /\ delayed' = delayed /\ calls' = calls
      /\ torn' = torn /\ later' \in Nat
  BY DEF Take, Begins, TypeOK
<1>s. Sounds' = Sounds /\ Sounds \subseteq Headers
  BY <1>1, SoundSame, SoundIs
<1>2. \A u \in Threads : /\ Idle(u)' <=> Idle(u)
                         /\ Finishing(u)' = Finishing(u)
                         /\ \A l : (At(u, l)' <=> At(u, l)) /\ (At(u, l) => Top(u)' = Top(u))
                         /\ \A g : Ends(u, g)' <=> Ends(u, g)
  BY <1>1, ElsewhereIs
<1>3. h \in Sounds => /\ refcount[h] = 1 /\ Showing(h) = {} /\ \A u \in Threads : held[u][h] = 0
  BY <1>1, UsesAre
<1>4. /\ held'[t][h] = held[t][h] + 1 /\ \A u \in Threads \ {t} : held'[u][h] = held[u][h]
      /\ \A u \in Threads, g \in Headers \ {h} : held'[u][g] = held[u][g]
      /\ held' \in [Threads -> [Headers -> Nat]]
  BY <1>1 DEF TypeOK
<1>5. TypeOK'
  BY <1>1, <1>4 DEF TypeOK
<1>6. StackInv'
  BY <1>1 DEF IInv, StackInv, Levels
<1>7. LoadInv'
  BY <1>1, <1>s, <1>2 DEF IInv, LoadInv, Updates
<1>8. EndInv'
  BY <1>1, <1>s, <1>2 DEF IInv, EndInv
<1>9. ASSUME NEW g \in Sounds PROVE IsFiniteSet(References(g)') /\ refcount'[g] = Total(g)'
  <2>1. Showing(g)' = Showing(g) /\ Releasing(g)' = Releasing(g)
    BY <1>1, <1>2 DEF Showing, Releasing
  <2>2. CASE g # h
    BY <1>1, <1>s, <1>4, <2>1, <2>2, CountSame DEF IInv, CountInv
  <2>3. CASE g = h
    <3>1. IsFiniteSet(References(h)') /\ HeldCount(h)' = HeldCount(h) + 1
      BY <1>4, <2>3, CountsAre, HeldMore
    <3>2. One(h \in pool)' = 0 /\ One(h \in pool) = 1
      BY <1>1 DEF One
    <3> QED
      BY <1>1, <2>1, <2>3, <3>1, <3>2, CountsAre DEF Total
  <2> QED
    BY <2>2, <2>3
<1>10. CountInv'
  BY <1>s, <1>9 DEF CountInv
<1>11. PoolInv'
  BY <1>1, <1>s DEF IInv, PoolInv
<1>12. AcquireInv'
  <2>1. ASSUME NEW u \in Threads, At(u, "acquire")
        PROVE  Acquires(u)'
    <3>1. Top(u).dest \in Sounds => Top(u).dest # h
      BY <1>3, <2>1, AcquirersAre
    <3>2. held'[u][Top(u).hdr] > 0
      <4>1. Top(u).hdr \in Headers /\ held[u][Top(u).hdr] > 0 /\ held[u][Top(u).hdr] \in Nat
        BY <2>1, AcquirersAre DEF TypeOK
      <4>2. held'[u][Top(u).hdr] = held[u][Top(u).hdr] \/ held'[u][Top(u).hdr] = held[u][Top(u).hdr] + 1
        BY <1>4, <4>1
      <4> QED
        BY <4>1, <4>2
    <3>3. Top(u).dest \in Sounds => \A w \in Threads : held'[w][Top(u).dest] = held[w][Top(u).dest]
      BY <1>4, <2>1, <3>1, AcquirersAre
    <3> QED
      BY <1>1, <1>s, <1>2, <2>1, <3>2, <3>3, AcquireSame
  <2> QED
    BY <1>2, <2>1, AcquireNow
<1> QED
  BY <1>5, <1>6, <1>7, <1>8, <1>10, <1>11, <1>12 DEF IInv

LEMMA HandOverNext ==
  ASSUME TypeOK, IInv, NEW t \in Threads, NEW v \in Threads, NEW h \in Headers, HandOver(t, v, h)
  PROVE  TypeOK' /\ IInv'
<1>1. /\ Idle(t) /\ t # v /\ held[t][h] > 0
      /\ held' = [held EXCEPT ![t][h] = @ - 1, ![v][h] = @ + 1]
      /\ refcount' = refcount /\ reference' = reference /\ pool' = pool
      /\ delayed' = delayed /\ calls' = calls /\ torn' = torn /\ later' \in Nat
  BY DEF HandOver, Begins, TypeOK
<1>s. Sounds' = Sounds /\ Sounds \subseteq Headers
  BY <1>1, SoundSame, SoundIs
<1>2. \A u \in Threads : /\ Idle(u)' <=> Idle(u)
                         /\ Finishing(u)' = Finishing(u)
                         /\ \A l : (At(u, l)' <=> At(u, l)) /\ (At(u, l) => Top(u)' = Top(u))
                         /\ \A g : Ends(u, g)' <=> Ends(u, g)
  BY <1>1, ElsewhereIs
<1>3. /\ held'[t][h] = held[t][h] - 1 /\ held'[v][h] = held[v][h] + 1
      /\ \A u \in Threads \ {t, v} : held'[u][h] = held[u][h]
      /\ \A u \in Threads, g \in Headers \ {h} : held'[u][g] = held[u][g]
  BY <1>1 DEF TypeOK
<1>4. held' \in [Threads -> [Headers -> Nat]]
  <2>1. held[t][h] - 1 \in Nat /\ held[v][h] + 1 \in Nat
    BY <1>1 DEF TypeOK
  <2> QED
    BY <1>1, <2>1 DEF TypeOK
<1>5. TypeOK'
  BY <1>1, <1>4 DEF TypeOK
<1>6. StackInv'
  BY <1>1 DEF IInv, StackInv, Levels
<1>7. LoadInv'
  BY <1>1, <1>s, <1>2 DEF IInv, LoadInv, Updates
<1>8. EndInv'
  BY <1>1, <1>s, <1>2 DEF IInv, EndInv
<1>9. ASSUME NEW g \in Sounds PROVE IsFiniteSet(References(g)') /\ refcount'[g] = Total(g)'
  <2>1. Showing(g)' = Showing(g) /\ Releasing(g)' = Releasing(g)
    BY <1>1, <1>2 DEF Showing, Releasing
  <2>2. CASE g # h
    BY <1>1, <1>s, <1>3, <2>1, <2>2, CountSame DEF IInv, CountInv
  <2>3. CASE g = h
    <3>1. IsFiniteSet(References(h)') /\ HeldCount(h)' = HeldCount(h)
      <4>1. IsFiniteSet(References(h)) /\ v \in Threads \ {t}
        BY <1>1, <2>3, CountsAre
      <4> QED
        BY <1>1, <1>3, <4>1, HeldMoves
    <3>2. One(h \in pool)' = One(h \in pool)
      BY <1>1 DEF One
    <3> QED
      BY <1>1, <2>1, <2>3, <3>1, <3>2, CountsAre DEF Total
  <2> QED
    BY <2>2, <2>3
<1>10. CountInv'
  BY <1>s, <1>9 DEF CountInv
<1>11. PoolInv'
  BY <1>1, <1>s DEF IInv, PoolInv
<1>12. AcquireInv'
  <2>1. ASSUME NEW u \in Threads, At(u, "acquire")
        PROVE  Acquires(u)'
    <3>1. u # t /\ (Top(u).dest \in Sounds => Top(u).dest # h)
      BY <1>1, <2>1, AcquirersAre DEF At
    <3>2. held'[u][Top(u).hdr] > 0
      <4>1. Top(u).hdr \in Headers /\ held[u][Top(u).hdr] > 0 /\ held[u][Top(u).hdr] \in Nat
        BY <2>1, AcquirersAre DEF TypeOK
      <4>2. held'[u][Top(u).hdr] = held[u][Top(u).hdr] \/ held'[u][Top(u).hdr] = held[u][Top(u).hdr] + 1
        BY <1>3, <3>1, <4>1
      <4> QED
        BY <4>1, <4>2
    <3>3. Top(u).dest \in Sounds =>
            \A w \in Threads : held'[w][Top(u).dest] = held[w][Top(u).dest]
      BY <1>3, <2>1, <3>1, AcquirersAre
    <3> QED
      BY <1>1, <1>s, <1>2, <2>1, <3>2, <3>3, AcquireSame
  <2> QED
    BY <1>2, <2>1, AcquireNow
<1> QED
  BY <1>5, <1>6, <1>7, <1>8, <1>10, <1>11, <1>12 DEF IInv

\* A thread loads the count of a header, for one holder or one replica more.
LEMMA AcquireNext ==
  ASSUME TypeOK, IInv, NEW t \in Threads, NEW h \in Headers, NEW d \in Headers \cup {None},
         Begins(t), held[t][h] > 0, Loads(h), d # None => Level[h] < Level[d],
         d \in Sounds => Owns(t, d) /\ reference[d] = None,
         calls' = [calls EXCEPT ![t] = <<Acquiring(h, d)>>],
         UNCHANGED <<refcount, reference, pool, delayed, held>>
  PROVE  TypeOK' /\ IInv'
<1> DEFINE f == Acquiring(h, d)
<1>0. Idle(t) /\ later' \in Nat
  BY DEF Begins, TypeOK
<1>r. torn \subseteq torn' /\ torn' \subseteq Headers /\ (Updating(h) => h \in torn')
  BY DEF Loads, TypeOK
<1>s. Sounds' \subseteq Sounds /\ Sounds \subseteq Headers /\ (h \in Sounds' => ~Updating(h))
  BY <1>r, SoundWas, SoundIs
<1>1. f.at = "acquire" /\ f.hdr = h /\ f.count = refcount[h] /\ f.dest = d
  BY AcquiringIs
<1>2. Others(t) /\ Now(t, f) /\ Finishing(t)' = Finishing(t)
  BY <1>0, AcquireSteps
<1> HIDE DEF f
<1>3. \A u \in Threads \ {t} :
        /\ Finishing(u)' = Finishing(u)
        /\ \A l : (At(u, l)' <=> At(u, l)) /\ (At(u, l) => Top(u)' = Top(u))
        /\ \A g : Ends(u, g)' <=> Ends(u, g)
  BY <1>2, ElsewhereIs DEF Others
<1>4. Top(t)' = f /\ (\A l : At(t, l)' <=> l = "acquire") /\ \A l : ~At(t, l)
  BY <1>0, <1>1, <1>2 DEF Now, At
<1>5. \A g : Ends(t, g)' <=> Ends(t, g)
  BY <1>2, <1>4 DEF Ends
<1>6. TypeOK'
  BY <1>0, <1>r, <1>2 DEF TypeOK, Others
<1>7. StackInv'
  BY <1>2, StackNext, LevelsSame DEF IInv
<1>8. LoadInv'
  <2>1. h \in Sounds' => \A u \in Threads \ {t} : Updates(u) => Top(u).hdr # h
    BY <1>s DEF Updates, Updating, At
  <2>2. Updates(t)' /\ (\A u \in Threads \ {t} : Updates(u)' <=> Updates(u))
    BY <1>3, <1>4 DEF Updates
  <2>3. \A u \in Threads \ {t} : Updates(u) => Top(u)' = Top(u)
    BY <1>3 DEF Updates
  <2>4. /\ \A u \in Threads : Updates(u) /\ Top(u).hdr \in Sounds => Top(u).count = refcount[Top(u).hdr]
        /\ \A u, v \in Threads : Updates(u) /\ Updates(v) /\ Top(u).hdr = Top(v).hdr
                                 /\ Top(u).hdr \in Sounds => u = v
    BY DEF IInv, LoadInv
  <2> QED
    BY <1>s, <1>1, <1>4, <2>1, <2>2, <2>3, <2>4 DEF LoadInv
<1>9. EndInv'
  <2>1. \A u \in Threads, g \in Headers : Ends(u, g)' <=> Ends(u, g)
    BY <1>3, <1>5
  <2> QED
    BY <1>s, <2>1 DEF IInv, EndInv
<1>10. CountInv'
  <2>1. ASSUME NEW g \in Sounds PROVE Showing(g)' = Showing(g) /\ Releasing(g)' = Releasing(g)
    <3>1. \A u : u \in Releasing(g)' <=> u \in Releasing(g)
      BY <1>3, <1>4 DEF Releasing
    <3> QED
      BY <1>2, <1>3, <3>1, ShowingSame
  <2> QED
    BY <1>s, <2>1, CountSame DEF IInv, CountInv
<1>11. PoolInv'
  BY <1>s DEF IInv, PoolInv
<1>12. AcquireInv'
  <2>1. ASSUME NEW u \in Threads \ {t}, At(u, "acquire")
        PROVE  Acquires(u)'
    BY <1>s, <1>3, <2>1, AcquirersAre, AcquireSame
  <2>2. Acquires(t)'
    BY <1>s, <1>1, <1>4 DEF Owns, Acquires
  <2> QED
    BY <1>3, <2>1, <2>2, AcquireNow
<1> QED
  BY <1>6, <1>7, <1>8, <1>9, <1>10, <1>11, <1>12 DEF IInv

LEMMA AcquiredNext ==
  ASSUME TypeOK, IInv, NEW t \in Threads, Acquired(t)
  PROVE  TypeOK' /\ IInv'
<1>h. PICK h \in Headers, d \in Headers \cup {None} : h = Top(t).hdr /\ d = Top(t).dest
  BY AcquirersAre DEF Acquired
<1>1. /\ ~Idle(t) /\ At(t, "acquire") /\ Top(t).at = "acquire" /\ Goto(t, <<>>)
      /\ pool' = pool /\ delayed' = delayed /\ torn' = torn /\ later' = later
  BY DEF Acquired, At, races
<1>s. Sounds' = Sounds /\ Sounds \subseteq Headers
  BY <1>1, SoundSame, SoundIs
<1>2. /\ held[t][h] > 0 /\ (h \in Sounds => refcount[h] > 0 /\ refcount[h] \in Nat)
      /\ d # None => Level[h] < Level[d] /\ (h \in Sounds => d \in Sounds)
      /\ d \in Sounds => /\ held[t][d] > 0 /\ \A u \in Threads \ {t} : held[u][d] = 0
                         /\ d # None /\ reference[d] = None
                         /\ \A u \in Threads : d \notin Finishing(u)
  <2>1. /\ held[t][h] > 0
        /\ d # None => Level[h] < Level[d] /\ (h \in Sounds => d \in Sounds)
        /\ d \in Sounds => /\ held[t][d] > 0 /\ \A u \in Threads \ {t} : held[u][d] = 0
                           /\ d # None /\ reference[d] = None
    BY <1>h, <1>1, AcquirersAre
  <2>2. d \in Sounds => \A u \in Threads : ~Ends(u, d)
    BY <2>1, UsesAre
  <2>3. h \in Sounds => refcount[h] > 0 /\ refcount[h] \in Nat
    BY <2>1, UsesAre, CountsAre
  <2> QED
    BY <2>1, <2>2, <2>3 DEF Ends
<1>3. Others(t) /\ Rests(t) /\ Finishing(t)' = Finishing(t)
  BY <1>1, EndSteps, WaitingIs DEF IInv
<1>4. \A u \in Threads \ {t} :
        /\ Finishing(u)' = Finishing(u)
        /\ \A l : (At(u, l)' <=> At(u, l)) /\ (At(u, l) => Top(u)' = Top(u))
        /\ \A g : Ends(u, g)' <=> Ends(u, g)
  BY <1>3, ElsewhereIs DEF Others
<1>5. Updates(t) /\ ~Updates(t)' /\ ~At(t, "acquire")' /\ ~At(t, "zero") /\ ~At(t, "zero")'
  BY <1>1, <1>3 DEF Rests, At, Updates
<1>6. /\ refcount' = [refcount EXCEPT ![h] = Top(t).count + 1] /\ Top(t).count \in Int
      /\ h \in Sounds => Top(t).count = refcount[h]
  <2>1. h \in Sounds => Top(t).count = refcount[h]
    BY <1>h, <1>5 DEF IInv, LoadInv
  <2>2. Top(t).count \in Int
    BY <1>1, StackIs DEF Frame
  <2> QED
    BY <1>h, <2>1, <2>2 DEF Acquired
<1>7. ASSUME d = None
      PROVE  /\ held' \in [Threads -> [Headers -> Nat]] /\ reference' = reference
             /\ held'[t][h] = held[t][h] + 1
             /\ \A u \in Threads \ {t} : held'[u] = held[u]
             /\ \A u \in Threads, f \in Headers \ {h} : held'[u][f] = held[u][f]
  <2>1. held' = [held EXCEPT ![t][h] = held[t][h] + 1] /\ reference' = reference
    BY <1>h, <1>7 DEF Acquired
  <2>2. held[t][h] + 1 \in Nat
    BY DEF TypeOK
  <2> QED
    BY <2>1, <2>2 DEF TypeOK
<1>8. ASSUME d # None
       PROVE  /\ held' = held /\ reference' \in [Headers -> Headers \cup {None}]
              /\ reference'[d] = h /\ \A f \in Headers \ {d} : reference'[f] = reference[f]
  <2>1. held' = held /\ reference' = [reference EXCEPT ![d] = h] /\ d \in Headers
    BY <1>h, <1>8 DEF Acquired
  <2> QED
    BY <2>1 DEF TypeOK
<1>9. /\ h \in Sounds => refcount'[h] = refcount[h] + 1
      /\ refcount' \in [Headers -> Int]
      /\ \A g \in Headers \ {h} : refcount'[g] = refcount[g]
  BY <1>2, <1>6 DEF TypeOK
<1>10. TypeOK'
  <2>1. refcount' \in [Headers -> Int]
    BY <1>9
  <2>2. held' \in [Threads -> [Headers -> Nat]] /\ reference' \in [Headers -> Headers \cup {None}]
    BY <1>7, <1>8 DEF TypeOK
  <2> QED
    BY <1>1, <1>3, <2>1, <2>2 DEF TypeOK, Others
<1>11. StackInv'
  <2>1. Levels
    BY DEF IInv, StackInv
  <2>2. CASE d = None
    BY <1>3, <1>7, <2>2, StackNext, LevelsSame DEF IInv
  <2>3. CASE d # None
    <3>1. Levels'
      BY <1>2, <1>8, <2>1, <2>3 DEF Levels
    <3> QED
      BY <1>3, <3>1, StackNext DEF IInv
  <2> QED
    BY <2>2, <2>3
<1>12. LoadInv'
  <2>1. /\ \A u \in Threads : Updates(u) /\ Top(u).hdr \in Sounds => Top(u).count = refcount[Top(u).hdr]
        /\ \A u, v \in Threads : Updates(u) /\ Updates(v) /\ Top(u).hdr = Top(v).hdr
                                 /\ Top(u).hdr \in Sounds => u = v
    BY DEF IInv, LoadInv
  <2>2. \A u \in Threads \ {t} : (Updates(u)' <=> Updates(u)) /\ (Updates(u) => Top(u)' = Top(u))
    BY <1>4 DEF Updates
  <2>3. \A u \in Threads \ {t} : Updates(u) /\ Top(u).hdr \in Sounds => Top(u).hdr \in Headers \ {h}
    <3>1. \A u \in Threads : Updates(u) => Top(u).hdr \in Headers
      BY StackIs DEF Updates, At, Frame
    <3> QED
      BY <1>h, <1>5, <2>1, <3>1
  <2>4. \A u \in Threads : Updates(u)' /\ Top(u)'.hdr \in Sounds => /\ u # t /\ Updates(u) /\ Top(u)' = Top(u)
                                          /\ refcount'[Top(u).hdr] = refcount[Top(u).hdr]
    BY <1>5, <1>9, <2>2, <2>3
  <2> QED
    BY <1>s, <2>1, <2>4 DEF LoadInv
<1>13. EndInv'
  <2>1. \A u \in Threads, g \in Headers : Ends(u, g)' <=> Ends(u, g)
    BY <1>3, <1>4, <1>5 DEF Ends
  <2>2. \A g \in Sounds : refcount'[g] = 0 <=> refcount[g] = 0
    BY <1>s, <1>2, <1>9 DEF TypeOK
  <2> QED
    BY <1>s, <1>1, <2>1, <2>2 DEF IInv, EndInv
<1>14. ASSUME NEW g \in Sounds PROVE IsFiniteSet(References(g)') /\ refcount'[g] = Total(g)'
  <2>1. Releasing(g)' = Releasing(g)
    <3>1. \A u : u \in Releasing(g)' <=> u \in Releasing(g)
      BY <1>1, <1>3, <1>4 DEF Releasing, Rests, At
    <3> QED
      BY <3>1
  <2>2. One(g \in pool)' = One(g \in pool)
    BY <1>1 DEF One
  <2>3. CASE d = None
    <3>1. Showing(g)' = Showing(g)
      BY <1>3, <1>4, <1>7, <2>3, ShowingSame
    <3>2. /\ held'[t][h] = held[t][h] + 1 /\ \A u \in Threads \ {t} : held'[u][h] = held[u][h]
          /\ \A u \in Threads, f \in Headers \ {h} : held'[u][f] = held[u][f]
      BY <1>7, <2>3
    <3>3. CASE g # h
      BY <1>s, <1>1, <1>9, <2>1, <3>1, <3>2, <3>3, CountSame DEF IInv, CountInv
    <3>4. CASE g = h
      <4>1. IsFiniteSet(References(h)') /\ HeldCount(h)' = HeldCount(h) + 1
        BY <1>2, <3>2, <3>4, CountsAre, HeldMore
      <4> QED
        BY <1>9, <2>1, <2>2, <3>1, <3>4, <4>1, CountsAre DEF Total
    <3> QED
      BY <3>3, <3>4
  <2>4. CASE d # None
    <3>1. /\ \A f : f \in Showing(g)' <=> f \in Headers /\ reference'[f] = g
                                            /\ \A u \in Threads : f \notin Finishing(u)
          /\ \A f : f \in Showing(g) <=> f \in Headers /\ reference[f] = g
                                            /\ \A u \in Threads : f \notin Finishing(u)
      BY <1>3, <1>4 DEF Showing
    <3>2. reference'[d] = h /\ \A f \in Headers \ {d} : reference'[f] = reference[f]
      BY <1>8, <2>4
    <3>3. CASE g # h
      <4>1. \A f : f \in Showing(g)' <=> f \in Showing(g)
        <5>1. reference[d] # g
          <6>1. Levels /\ Level \in [Headers -> Nat]
            BY HeadersAssumption DEF IInv, StackInv
          <6>2. reference[d] = g => Level[g] <= Level[d]
            BY <1>s, <2>4, <6>1, HeadersAssumption DEF Levels
          <6>3. reference[d] = g => d \in Sounds
            BY <2>4, <6>2, SoundIs
          <6> QED
            BY <1>2, <1>s, <6>3, HeadersAssumption
        <5> QED
          BY <2>4, <3>1, <3>2, <3>3, <5>1
      <4> QED
        <5>1. Showing(g)' = Showing(g) /\ refcount'[g] = refcount[g] /\ held' = held
          BY <1>s, <1>9, <1>8, <2>4, <3>3, <4>1
        <5> QED
          BY <1>s, <1>1, <2>1, <5>1, CountSame DEF IInv, CountInv
    <3>4. CASE g = h
      <4>1. d \notin Showing(h) /\ d \in Headers
        BY <1>2, <2>4, <3>1, <3>4, HeadersAssumption
      <4>2. \A f : f \in Showing(h)' <=> f \in Showing(h) \cup {d}
        BY <1>2, <2>4, <3>1, <3>2, <3>4
      <4>3. Cardinality(Showing(h)') = Cardinality(Showing(h)) + 1
        <5>1. Showing(h)' = Showing(h) \cup {d}
          BY <4>2
        <5>2. IsFiniteSet(Showing(h))
          BY <3>4, CountsAre
        <5> QED
          BY <4>1, <5>1, <5>2, CountIs
      <4>4. IsFiniteSet(References(h)') /\ HeldCount(h)' = HeldCount(h)
        BY <1>8, <2>4, <3>4, CountsAre, HeldSame
      <4> QED
        BY <1>9, <2>1, <2>2, <3>4, <4>3, <4>4, CountsAre DEF Total
    <3> QED
      BY <3>3, <3>4
  <2> QED
    BY <2>3, <2>4
<1>15. CountInv'
  BY <1>s, <1>14 DEF CountInv
<1>16. PoolInv'
  <2>1. h \in Sounds => h \notin pool
    BY <1>2, UsesAre
  <2> QED
    BY <1>s, <1>1, <1>9, <2>1 DEF IInv, PoolInv, TypeOK
<1>17. AcquireInv'
  <2>1. ASSUME NEW u \in Threads \ {t}, At(u, "acquire")
        PROVE  Acquires(u)'
    <3>1. Top(u).dest \in Sounds => Top(u).dest # h /\ Top(u).dest # d /\ Top(u).dest \in Headers
      BY <1>2, <2>1, AcquirersAre
    <3>2. held'[u] = held[u] /\ held[u][Top(u).hdr] > 0
      BY <1>7, <1>8, <2>1, AcquirersAre
    <3>3. ASSUME Top(u).dest \in Sounds
          PROVE  /\ \A w \in Threads : held'[w][Top(u).dest] = held[w][Top(u).dest]
                 /\ reference'[Top(u).dest] = reference[Top(u).dest]
      <4>1. Top(u).dest \in Headers \ {h} /\ Top(u).dest # d
        BY <3>1, <3>3
      <4>2. CASE d = None
        BY <1>7, <4>1, <4>2
      <4>3. CASE d # None
        BY <1>8, <4>1, <4>3
      <4> QED
        BY <4>2, <4>3
    <3> QED
      BY <1>s, <1>4, <2>1, <3>2, <3>3, AcquireSame
  <2> QED
    BY <1>4, <1>5, <2>1, AcquireNow
<1> QED
  BY <1>10, <1>11, <1>12, <1>13, <1>15, <1>16, <1>17 DEF IInv

LEMMA ReleaseNext ==
  ASSUME TypeOK, IInv, NEW t \in Threads, NEW h \in Headers, Release(t, h)
  PROVE  TypeOK' /\ IInv'
<1> DEFINE f == Call("load", h)
<1>1. /\ Idle(t) /\ held[t][h] > 0
      /\ held' = [held EXCEPT ![t][h] = @ - 1]
      /\ refcount' = refcount /\ reference' = reference /\ pool' = pool /\ delayed' = delayed
      /\ torn' = torn /\ later' \in Nat
  BY DEF Release, Begins, TypeOK
<1>s. Sounds' = Sounds /\ Sounds \subseteq Headers
  BY <1>1, SoundSame, SoundIs
<1>2. Others(t) /\ Now(t, f) /\ Finishing(t)' = Finishing(t)
  BY ReleaseSteps
<1>3. f.at = "load" /\ f.hdr = h
  BY CallIs
<1> HIDE DEF f
<1>4. \A u \in Threads \ {t} :
        /\ Finishing(u)' = Finishing(u)
        /\ \A l : (At(u, l)' <=> At(u, l)) /\ (At(u, l) => Top(u)' = Top(u))
        /\ \A g : Ends(u, g)' <=> Ends(u, g)
  BY <1>2, ElsewhereIs DEF Others
<1>5. Top(t)' = f /\ (\A l : At(t, l)' <=> l = "load") /\ \A l : ~At(t, l)
  BY <1>1, <1>2, <1>3 DEF Now, At
<1>6. /\ held'[t][h] = held[t][h] - 1 /\ \A u \in Threads \ {t} : held'[u] = held[u]
      /\ \A u \in Threads, g \in Headers \ {h} : held'[u][g] = held[u][g]
      /\ held' \in [Threads -> [Headers -> Nat]]
  <2>1. held[t][h] - 1 \in Nat
    BY <1>1 DEF TypeOK
  <2> QED
    BY <1>1, <2>1 DEF TypeOK
<1>7. TypeOK'
  BY <1>1, <1>2, <1>6 DEF TypeOK, Others
<1>8. StackInv'
  BY <1>1, <1>2, StackNext, LevelsSame DEF IInv
<1>9. LoadInv'
  <2>1. \A u \in Threads : Updates(u)' => Updates(u) /\ Top(u)' = Top(u)
    BY <1>4, <1>5 DEF Updates
  <2> QED
    BY <1>1, <1>s, <2>1 DEF IInv, LoadInv
<1>10. EndInv'
  <2>1. \A u \in Threads, g \in Headers : Ends(u, g)' <=> Ends(u, g)
    BY <1>2, <1>4, <1>5 DEF Ends
  <2> QED
    BY <1>1, <1>s, <2>1 DEF IInv, EndInv
<1>11. ASSUME NEW g \in Sounds PROVE IsFiniteSet(References(g)') /\ refcount'[g] = Total(g)'
  <2>1. Showing(g)' = Showing(g)
    BY <1>1, <1>2, <1>4, ShowingSame
  <2>2. \A u : u \in Releasing(g)' <=> u \in Releasing(g) \/ (u = t /\ g = h)
    BY <1>3, <1>4, <1>5 DEF Releasing
  <2>3. CASE g # h
    <3>1. Releasing(g)' = Releasing(g)
      BY <2>2, <2>3
    <3> QED
      BY <1>1, <1>s, <1>6, <2>1, <2>3, <3>1, CountSame DEF IInv, CountInv
  <2>4. CASE g = h
    <3>1. IsFiniteSet(References(h)') /\ HeldCount(h)' = HeldCount(h) - 1
      BY <1>1, <1>6, <2>4, CountsAre, HeldLess
    <3>2. Cardinality(Releasing(h)') = Cardinality(Releasing(h)) + 1
      <4>1. t \notin Releasing(h)
        BY <1>5 DEF Releasing
      <4>2. Releasing(h)' = Releasing(h) \cup {t}
        BY <2>2, <2>4
      <4>3. IsFiniteSet(Releasing(h))
        BY <2>4, CountsAre
      <4> QED
        BY <4>1, <4>2, <4>3, CountIs
    <3>3. One(h \in pool)' = One(h \in pool)
      BY <1>1 DEF One
    <3> QED
      BY <1>1, <2>1, <2>4, <3>1, <3>2, <3>3, CountsAre DEF Total
  <2> QED
    BY <2>3, <2>4
<1>12. CountInv'
  BY <1>s, <1>11 DEF CountInv
<1>13. PoolInv'
  BY <1>1, <1>s DEF IInv, PoolInv
<1>14. AcquireInv'
  <2>1. ASSUME NEW u \in Threads \ {t}, At(u, "acquire")
        PROVE  Acquires(u)'
    <3>1. /\ Top(u).dest \in Sounds => Top(u).dest \in Headers \ {h}
          /\ held[u][Top(u).hdr] > 0
      BY <1>1, <2>1, AcquirersAre
    <3> QED
      BY <1>1, <1>s, <1>4, <1>6, <2>1, <3>1, AcquireSame
  <2> QED
    BY <1>4, <1>5, <2>1, AcquireNow
<1> QED
  BY <1>7, <1>8, <1>9, <1>10, <1>12, <1>13, <1>14 DEF IInv

LEMMA LoadNext ==
  ASSUME TypeOK, IInv, NEW t \in Threads, Load(t)
  PROVE  TypeOK' /\ IInv'
<1>h. PICK h \in Headers : h = Top(t).hdr
  BY StackIs DEF Load, At, Frame
<1>1. /\ ~Idle(t) /\ At(t, "load") /\ Top(t).at = "load" /\ Loads(h) /\ later' = later
      /\ held' = held /\ refcount' = refcount /\ reference' = reference /\ pool' = pool
      /\ delayed' = delayed
  BY <1>h DEF Load, At
<1>r. torn \subseteq torn' /\ torn' \subseteq Headers /\ (Updating(h) => h \in torn')
  BY <1>1 DEF Loads, TypeOK
<1>s. Sounds' \subseteq Sounds /\ Sounds \subseteq Headers /\ (h \in Sounds' => ~Updating(h))
  BY <1>r, SoundWas, SoundIs
<1>2. /\ Others(t) /\ Finishing(t)' = Finishing(t)
      /\ \E f \in Frame : Now(t, f) /\ f.at = "store" /\ f.hdr = h /\ f.count = refcount[h]
  BY <1>h, LoadSteps
<1>3. /\ Top(t)'.hdr = h /\ Top(t)'.count = refcount[h] /\ \A l : At(t, l)' <=> l = "store"
  BY <1>2 DEF Now
<1>4. \A u \in Threads \ {t} :
        /\ Finishing(u)' = Finishing(u)
        /\ \A l : (At(u, l)' <=> At(u, l)) /\ (At(u, l) => Top(u)' = Top(u))
        /\ \A g : Ends(u, g)' <=> Ends(u, g)
  BY <1>2, ElsewhereIs DEF Others
<1>5. ~At(t, "zero") /\ ~At(t, "zero")' /\ ~At(t, "acquire")' /\ Updates(t)'
  BY <1>1, <1>3 DEF At, Updates
<1>6. TypeOK'
  BY <1>1, <1>r, <1>2 DEF TypeOK, Others
<1>7. StackInv'
  BY <1>1, <1>2, StackNext, LevelsSame DEF IInv
<1>8. LoadInv'
  <2>1. h \in Sounds' => \A u \in Threads \ {t} : Updates(u) => Top(u).hdr # h
    BY <1>s DEF Updates, Updating, At
  <2>2. \A u \in Threads \ {t} : (Updates(u)' <=> Updates(u)) /\ (Updates(u) => Top(u)' = Top(u))
    BY <1>4 DEF Updates
  <2>3. /\ \A u \in Threads : Updates(u) /\ Top(u).hdr \in Sounds => Top(u).count = refcount[Top(u).hdr]
        /\ \A u, v \in Threads : Updates(u) /\ Updates(v) /\ Top(u).hdr = Top(v).hdr
                                 /\ Top(u).hdr \in Sounds => u = v
    BY DEF IInv, LoadInv
  <2> QED
    BY <1>1, <1>s, <1>3, <2>1, <2>2, <2>3 DEF LoadInv
<1>9. EndInv'
  <2>1. \A u \in Threads, g \in Headers : Ends(u, g)' <=> Ends(u, g)
    BY <1>2, <1>4, <1>5 DEF Ends
  <2> QED
    BY <1>1, <1>s, <2>1 DEF IInv, EndInv
<1>10. CountInv'
  <2>1. ASSUME NEW g \in Sounds PROVE Showing(g)' = Showing(g) /\ Releasing(g)' = Releasing(g)
    <3>1. t \in Releasing(g)' <=> t \in Releasing(g)
      BY <1>h, <1>1, <1>3 DEF Releasing
    <3>2. \A u : u \in Releasing(g)' <=> u \in Releasing(g)
      BY <1>4, <3>1 DEF Releasing
    <3> QED
      BY <1>1, <1>2, <1>4, <3>2, ShowingSame
  <2> QED
    BY <1>1, <1>s, <2>1, CountSame DEF IInv, CountInv
<1>11. PoolInv'
  BY <1>1, <1>s DEF IInv, PoolInv
<1>12. AcquireInv'
  <2>1. ASSUME NEW u \in Threads \ {t}, At(u, "acquire")
        PROVE  Acquires(u)'
    BY <1>1, <1>s, <1>4, <2>1, AcquirersAre, AcquireSame
  <2> QED
    BY <1>4, <1>5, <2>1, AcquireNow
<1> QED
  BY <1>6, <1>7, <1>8, <1>9, <1>10, <1>11, <1>12 DEF IInv

LEMMA StoreNext ==
  ASSUME TypeOK, IInv, NEW t \in Threads, Store(t)
  PROVE  TypeOK' /\ IInv'
<1>h. PICK h \in Headers : h = Top(t).hdr
  BY StackIs DEF Store, At, Frame
<1>1. /\ ~Idle(t) /\ At(t, "store") /\ Top(t).at = "store"
      /\ held' = held /\ reference' = reference /\ pool' = pool /\ delayed' = delayed
      /\ refcount' = [refcount EXCEPT ![h] = Top(t).count - 1] /\ Top(t).count \in Int
      /\ torn' = torn /\ later' = later
  BY <1>h, StackIs DEF Store, At, races, Frame
<1>s. Sounds' = Sounds /\ Sounds \subseteq Headers
  BY <1>1, SoundSame, SoundIs
<1>2. /\ Others(t) /\ Finishing(t)' = Finishing(t)
      /\ IF Top(t).count = 1 THEN Now(t, Call("zero", h)) ELSE Rests(t)
  BY <1>h, StoreSteps
<1>3. t \in Releasing(h) /\ Updates(t)
  BY <1>h, <1>1 DEF Releasing, Updates
<1>4. h \in Sounds => Top(t).count = refcount[h] /\ \A u \in Threads \ {t} : Updates(u) => Top(u).hdr # h
  BY <1>h, <1>3 DEF IInv, LoadInv
<1>5. h \in Sounds =>
      /\ refcount[h] \in Nat /\ refcount[h] > 0 /\ h \notin delayed /\ h \notin pool
      /\ \A u \in Threads : ~Ends(u, h)
  BY <1>3, UsesAre, CountsAre
<1>6. /\ h \in Sounds => refcount'[h] = refcount[h] - 1 /\ refcount'[h] \in Nat
      /\ \A g \in Headers \ {h} : refcount'[g] = refcount[g]
      /\ refcount' \in [Headers -> Int]
  <2>1. h \in Sounds => refcount[h] - 1 \in Nat
    BY <1>5
  <2>2. Top(t).count - 1 \in Int
    BY <1>1
  <2> QED
    BY <1>1, <1>4, <2>1, <2>2 DEF TypeOK
<1>7. \A u \in Threads \ {t} :
        /\ Finishing(u)' = Finishing(u)
        /\ \A l : (At(u, l)' <=> At(u, l)) /\ (At(u, l) => Top(u)' = Top(u))
        /\ \A g : Ends(u, g)' <=> Ends(u, g)
  BY <1>2, ElsewhereIs DEF Others
<1>8. /\ ~At(t, "load")' /\ ~At(t, "store")' /\ ~At(t, "acquire")'
      /\ At(t, "zero")' => Top(t)'.hdr = h
      /\ h \in Sounds => (refcount'[h] = 0 <=> At(t, "zero")')
      /\ ~At(t, "zero") /\ ~Updates(t)'
  <2>1. CASE Top(t).count = 1
    <3>1. Call("zero", h).at = "zero" /\ Call("zero", h).hdr = h
      BY CallIs
    <3> QED
      BY <1>1, <1>2, <1>4, <1>6, <2>1, <3>1 DEF Now, At, Updates
  <2>2. CASE Top(t).count # 1
    BY <1>1, <1>2, <1>4, <1>5, <1>6, <2>2 DEF Rests, At, Updates
  <2> QED
    BY <2>1, <2>2
<1>9. TypeOK'
  BY <1>1, <1>2, <1>6 DEF TypeOK, Others
<1>10. StackInv'
  BY <1>1, <1>2, StackNext, LevelsSame DEF IInv
<1>11. LoadInv'
  <2>1. \A u \in Threads : Updates(u) => Top(u).hdr \in Headers
    BY StackIs DEF Updates, At, Frame
  <2>2. \A u \in Threads : Updates(u)' => /\ u # t /\ Updates(u) /\ Top(u)' = Top(u)
                                          /\ Top(u).hdr \in Sounds =>
                                              refcount'[Top(u).hdr] = refcount[Top(u).hdr]
    BY <1>4, <1>6, <1>7, <1>8, <2>1 DEF Updates
  <2> QED
    BY <1>s, <2>2 DEF IInv, LoadInv
<1>12. EndInv'
  <2>1. ASSUME NEW g \in Headers \ {h}
        PROVE  \A u \in Threads : Ends(u, g)' <=> Ends(u, g)
    <3>1. ~(At(t, "zero") /\ Top(t).hdr = g)' /\ ~(At(t, "zero") /\ Top(t).hdr = g)
      BY <1>8
    <3>2. \A u \in Threads : (At(u, "zero") /\ Top(u).hdr = g)' <=> At(u, "zero") /\ Top(u).hdr = g
      BY <1>7, <3>1
    <3> QED
      BY <1>2, <1>7, <3>2 DEF Ends
  <2>2. h \in Sounds => /\ \A u \in Threads \ {t} : ~Ends(u, h)'
                        /\ Ends(t, h)' <=> refcount'[h] = 0
    <3>1. h \in Sounds => \A u \in Threads : h \notin Finishing(u)
      BY <1>5 DEF Ends
    <3> QED
      BY <1>2, <1>5, <1>7, <1>8, <3>1 DEF Ends
  <2>3. ASSUME NEW g \in Sounds
        PROVE  /\ refcount'[g] = 0 <=> g \in delayed' \/ \E u \in Threads : Ends(u, g)'
               /\ g \in delayed' => \A u \in Threads : ~Ends(u, g)'
               /\ \A u, v \in Threads : Ends(u, g)' /\ Ends(v, g)' => u = v
    <3>1. CASE g = h
      BY <1>1, <1>5, <2>2, <3>1
    <3>2. CASE g # h
      BY <1>1, <1>s, <1>2, <1>6, <1>7, <2>1, <3>2 DEF IInv, EndInv
    <3> QED
      BY <3>1, <3>2
  <2> QED
    BY <1>s, <2>3 DEF EndInv
<1>13. ASSUME NEW g \in Sounds PROVE IsFiniteSet(References(g)') /\ refcount'[g] = Total(g)'
  <2>1. Showing(g)' = Showing(g)
    BY <1>1, <1>2, <1>7, ShowingSame
  <2>2. \A u : u \in Releasing(g)' <=> u \in Releasing(g) /\ u # t
    BY <1>7, <1>8 DEF Releasing
  <2>3. CASE g # h
    <3>1. Releasing(g)' = Releasing(g)
      BY <1>h, <2>2, <2>3 DEF Releasing
    <3> QED
      BY <1>1, <1>s, <1>6, <2>1, <2>3, <3>1, CountSame DEF IInv, CountInv
  <2>4. CASE g = h
    <3>1. IsFiniteSet(References(h)') /\ HeldCount(h)' = HeldCount(h)
      BY <1>1, <2>4, CountsAre, HeldSame
    <3>2. Cardinality(Releasing(h)') = Cardinality(Releasing(h)) - 1
      <4>1. Releasing(h)' = Releasing(h) \ {t}
        BY <2>2, <2>4
      <4>2. IsFiniteSet(Releasing(h))
        BY <2>4, CountsAre
      <4> QED
        BY <1>3, <4>1, <4>2, CountIs
    <3>3. One(h \in pool)' = One(h \in pool)
      BY <1>1 DEF One
    <3> QED
      BY <1>6, <2>1, <2>4, <3>1, <3>2, <3>3, CountsAre DEF Total
  <2> QED
    BY <2>3, <2>4
<1>14. CountInv'
  BY <1>s, <1>13 DEF CountInv
<1>15. PoolInv'
  BY <1>1, <1>s, <1>5, <1>6 DEF IInv, PoolInv, TypeOK
<1>16. AcquireInv'
  <2>1. ASSUME NEW u \in Threads \ {t}, At(u, "acquire")
        PROVE  Acquires(u)'
    BY <1>1, <1>s, <1>7, <2>1, AcquirersAre, AcquireSame
  <2> QED
    BY <1>7, <1>8, <2>1, AcquireNow
<1> QED
  BY <1>9, <1>10, <1>11, <1>12, <1>14, <1>15, <1>16 DEF IInv

LEMMA DelayNext ==
  ASSUME TypeOK, IInv, NEW t \in Threads, Delay(t)
  PROVE  TypeOK' /\ IInv'
<1>h. PICK h \in Headers : h = Top(t).hdr
  BY StackIs DEF Delay, At, Frame
<1>1. /\ ~Idle(t) /\ At(t, "zero") /\ Top(t).at = "zero" /\ Goto(t, <<>>)
      /\ held' = held /\ refcount' = refcount /\ reference' = reference /\ pool' = pool
      /\ delayed' = delayed \cup {h} /\ torn' = torn /\ later' = later
  BY <1>h DEF Delay, At, races
<1>s. Sounds' = Sounds /\ Sounds \subseteq Headers
  BY <1>1, SoundSame, SoundIs
<1>2. Others(t) /\ Rests(t) /\ Finishing(t)' = Finishing(t)
  BY <1>1, EndSteps, WaitingIs DEF IInv
<1>3. \A u \in Threads \ {t} :
        /\ Finishing(u)' = Finishing(u)
        /\ \A l : (At(u, l)' <=> At(u, l)) /\ (At(u, l) => Top(u)' = Top(u))
        /\ \A g : Ends(u, g)' <=> Ends(u, g)
  BY <1>2, ElsewhereIs DEF Others
<1>4. /\ ~At(t, "load") /\ ~At(t, "store") /\ ~At(t, "acquire")
      /\ ~At(t, "load")' /\ ~At(t, "store")' /\ ~At(t, "acquire")' /\ ~At(t, "zero")'
  BY <1>1, <1>2 DEF Rests, At
<1>5. /\ Ends(t, h) /\ h \notin Finishing(t)
      /\ h \in Sounds => /\ \A u \in Threads \ {t} : ~Ends(u, h)
                         /\ refcount[h] = 0 /\ h \notin delayed
  <2>1. Ends(t, h)
    BY <1>h, <1>1 DEF Ends
  <2>2. h \notin Finishing(t)
    BY <1>h, <1>1, WaitingIs DEF IInv
  <2> QED
    BY <1>h, <1>1, <2>1, <2>2 DEF IInv, EndInv
<1>6. TypeOK'
  BY <1>1, <1>2 DEF TypeOK, Others
<1>7. StackInv'
  BY <1>1, <1>2, StackNext, LevelsSame DEF IInv
<1>8. LoadInv'
  <2>1. \A u \in Threads : Updates(u)' => Updates(u) /\ Top(u)' = Top(u)
    BY <1>3, <1>4 DEF Updates
  <2> QED
    BY <1>1, <1>s, <2>1 DEF IInv, LoadInv
<1>9. EndInv'
  <2>1. h \in Sounds => \A u \in Threads : ~Ends(u, h)'
    BY <1>2, <1>3, <1>4, <1>5 DEF Ends
  <2>2. \A g \in Headers \ {h} : \A u \in Threads : Ends(u, g)' <=> Ends(u, g)
    BY <1>h, <1>2, <1>3, <1>4 DEF Ends
  <2>4. ASSUME NEW g \in Sounds
        PROVE  /\ refcount'[g] = 0 <=> g \in delayed' \/ \E u \in Threads : Ends(u, g)'
               /\ g \in delayed' => \A u \in Threads : ~Ends(u, g)'
               /\ \A u, v \in Threads : Ends(u, g)' /\ Ends(v, g)' => u = v
    <3>1. CASE g = h
      BY <1>1, <1>5, <2>1, <3>1 DEF Ends
    <3>2. CASE g # h
      BY <1>1, <1>s, <2>2, <3>2 DEF IInv, EndInv
    <3> QED
      BY <3>1, <3>2
  <2> QED
    BY <1>s, <2>4 DEF EndInv
<1>10. CountInv'
  <2>1. ASSUME NEW g \in Sounds PROVE Showing(g)' = Showing(g) /\ Releasing(g)' = Releasing(g)
    <3>1. \A u : u \in Releasing(g)' <=> u \in Releasing(g)
      BY <1>3, <1>4 DEF Releasing
    <3> QED
      BY <1>1, <1>2, <1>3, <3>1, ShowingSame
  <2> QED
    BY <1>1, <1>s, <2>1, CountSame DEF IInv, CountInv
<1>11. PoolInv'
  BY <1>1, <1>s DEF IInv, PoolInv
<1>12. AcquireInv'
  <2>1. ASSUME NEW u \in Threads \ {t}, At(u, "acquire")
        PROVE  Acquires(u)'
    BY <1>1, <1>s, <1>3, <2>1, AcquirersAre, AcquireSame
  <2> QED
    BY <1>3, <1>4, <2>1, AcquireNow
<1> QED
  BY <1>6, <1>7, <1>8, <1>9, <1>10, <1>11, <1>12 DEF IInv

\* The last release goes on, at once or after it was postponed: the reference to the
\* source becomes a release of it.
LEMMA FinalNext ==
  ASSUME TypeOK, IInv, NEW t \in Threads, NEW h \in Headers,
         (Continue(t) /\ Top(t).hdr = h) \/ ReleaseContinue(t, h)
  PROVE  TypeOK' /\ IInv'
<1>r. PICK s \in Headers \cup {None} : s = reference[h]
  BY DEF TypeOK
<1>1. /\ held' = held /\ refcount' = refcount /\ reference' = reference /\ pool' = pool
      /\ \/ delayed' = delayed /\ ~Idle(t) /\ At(t, "zero") /\ Top(t).hdr = h
         \/ delayed' = delayed \ {h} /\ h \in delayed /\ Idle(t)
      /\ torn' = torn /\ later' \in Nat
  BY DEF Continue, ReleaseContinue, At, Begins, races, TypeOK
<1>s. Sounds' = Sounds /\ Sounds \subseteq Headers
  BY <1>1, SoundSame, SoundIs
<1>2. h \in Sounds =>
      /\ refcount[h] = 0 /\ \A u \in Threads \ {t} : ~Ends(u, h)
      /\ \A u \in Threads : h \notin Finishing(u)
      /\ h \notin delayed'
  <2>1. CASE delayed' = delayed /\ ~Idle(t) /\ At(t, "zero") /\ Top(t).hdr = h
    <3>1. Ends(t, h)
      BY <2>1 DEF Ends
    <3>2. h \in Sounds => refcount[h] = 0 /\ h \notin delayed /\ \A u \in Threads \ {t} : ~Ends(u, h)
      BY <3>1 DEF IInv, EndInv
    <3>3. h \notin Finishing(t)
      BY <2>1, WaitingIs DEF IInv, At
    <3> QED
      BY <2>1, <3>2, <3>3 DEF Ends
  <2>2. CASE delayed' = delayed \ {h} /\ h \in delayed /\ Idle(t)
    BY <2>2 DEF IInv, EndInv, Ends
  <2> QED
    BY <1>1, <2>1, <2>2
<1>3. /\ Others(t) /\ Finishing(t)' = Finishing(t) \cup {h}
      /\ IF reference[h] = None THEN Now(t, Call("recycle", h))
                                ELSE Now(t, Call("load", reference[h]))
  BY FinalSteps
<1>4. \A u \in Threads \ {t} :
        /\ Finishing(u)' = Finishing(u)
        /\ \A l : (At(u, l)' <=> At(u, l)) /\ (At(u, l) => Top(u)' = Top(u))
        /\ \A g : Ends(u, g)' <=> Ends(u, g)
  BY <1>3, ElsewhereIs DEF Others
<1>5. /\ ~At(t, "load") /\ ~At(t, "store") /\ ~At(t, "acquire")
      /\ ~At(t, "store")' /\ ~At(t, "acquire")' /\ ~At(t, "zero")'
      /\ s = None => ~At(t, "load")'
      /\ s # None => At(t, "load")' /\ Top(t)'.hdr = s
  <2>1. ~At(t, "load") /\ ~At(t, "store") /\ ~At(t, "acquire")
    BY <1>1 DEF At
  <2>2. CASE s = None
    <3>1. Call("recycle", h).at = "recycle"
      BY CallIs
    <3> QED
      BY <1>r, <1>3, <2>1, <2>2, <3>1 DEF Now
  <2>3. CASE s # None
    <3>1. Call("load", s).at = "load" /\ Call("load", s).hdr = s
      BY <2>3, CallIs
    <3>2. Now(t, Call("load", s))
      BY <1>r, <1>3, <2>3
    <3> QED
      BY <2>1, <2>3, <3>1, <3>2 DEF Now
  <2> QED
    BY <2>2, <2>3
<1>6. TypeOK'
  BY <1>1, <1>3 DEF TypeOK, Others
<1>7. StackInv'
  BY <1>1, <1>3, StackNext, LevelsSame DEF IInv
<1>8. LoadInv'
  <2>1. \A u \in Threads : Updates(u)' => Updates(u) /\ Top(u)' = Top(u)
    BY <1>4, <1>5 DEF Updates
  <2> QED
    BY <1>1, <1>s, <2>1 DEF IInv, LoadInv
<1>9. EndInv'
  <2>1. h \in Sounds => Ends(t, h)' /\ \A u \in Threads \ {t} : ~Ends(u, h)'
    BY <1>2, <1>3, <1>4 DEF Ends
  <2>2. ASSUME NEW g \in Headers \ {h}
        PROVE  /\ \A u \in Threads : Ends(u, g)' <=> Ends(u, g)
               /\ g \in delayed' <=> g \in delayed
    <3>1. ~(At(t, "zero") /\ Top(t).hdr = g)
      BY <1>1 DEF At
    <3> QED
      BY <1>1, <1>3, <1>4, <1>5, <3>1 DEF Ends
  <2>4. ASSUME NEW g \in Sounds
        PROVE  /\ refcount'[g] = 0 <=> g \in delayed' \/ \E u \in Threads : Ends(u, g)'
               /\ g \in delayed' => \A u \in Threads : ~Ends(u, g)'
               /\ \A u, v \in Threads : Ends(u, g)' /\ Ends(v, g)' => u = v
    <3>1. CASE g = h
      BY <1>1, <1>2, <2>1, <3>1
    <3>2. CASE g # h
      BY <1>1, <1>s, <2>2, <3>2 DEF IInv, EndInv
    <3> QED
      BY <3>1, <3>2
  <2> QED
    BY <1>s, <2>4 DEF EndInv
<1>10. ASSUME NEW g \in Sounds PROVE IsFiniteSet(References(g)') /\ refcount'[g] = Total(g)'
  <2>1. \A f : f \in Showing(g)' <=> f \in Showing(g) /\ f # h
    BY <1>1, <1>3, <1>4 DEF Showing
  <2>2. \A u : u \in Releasing(g)' <=> u \in Releasing(g) \/ (u = t /\ g = s)
    BY <1>s, <1>4, <1>5, HeadersAssumption DEF Releasing
  <2>3. CASE g # s
    <3>1. h \notin Showing(g)
      BY <1>r, <2>3 DEF Showing
    <3>2. Showing(g)' = Showing(g) /\ Releasing(g)' = Releasing(g)
      BY <2>1, <2>2, <2>3, <3>1
    <3> QED
      BY <1>1, <1>s, <3>2, CountSame DEF IInv, CountInv
  <2>4. CASE g = s
    <3>1. IsFiniteSet(References(s)') /\ HeldCount(s)' = HeldCount(s)
      BY <1>1, <2>4, CountsAre, HeldSame
    <3>2. Cardinality(Showing(s)') = Cardinality(Showing(s)) - 1
      <4>1. h \in Showing(s)
        <5>1. Level[s] <= Level[h] /\ s \in Sounds
          BY <1>s, <1>r, <2>4, HeadersAssumption DEF IInv, StackInv, Levels
        <5>2. h \in Sounds
          BY <5>1, SoundIs
        <5> QED
          BY <1>r, <1>2, <5>2 DEF Showing
      <4>2. Showing(s)' = Showing(s) \ {h}
        BY <2>1, <2>4
      <4>3. IsFiniteSet(Showing(s))
        BY <2>4, CountsAre
      <4> QED
        BY <4>1, <4>2, <4>3, CountIs
    <3>3. Cardinality(Releasing(s)') = Cardinality(Releasing(s)) + 1
      <4>1. t \notin Releasing(s)
        BY <1>5 DEF Releasing
      <4>2. Releasing(s)' = Releasing(s) \cup {t}
        BY <2>2, <2>4
      <4>3. IsFiniteSet(Releasing(s))
        BY <2>4, CountsAre
      <4> QED
        BY <4>1, <4>2, <4>3, CountIs
    <3>4. One(s \in pool)' = One(s \in pool)
      BY <1>1 DEF One
    <3> QED
      BY <1>1, <2>4, <3>1, <3>2, <3>3, <3>4, CountsAre DEF Total
  <2> QED
    BY <2>3, <2>4
<1>11. CountInv'
  BY <1>s, <1>10 DEF CountInv
<1>12. PoolInv'
  BY <1>1, <1>s DEF IInv, PoolInv
<1>13. AcquireInv'
  <2>1. ASSUME NEW u \in Threads \ {t}, At(u, "acquire")
        PROVE  Acquires(u)'
    BY <1>1, <1>s, <1>4, <2>1, AcquirersAre, AcquireSame
  <2> QED
    BY <1>4, <1>5, <2>1, AcquireNow
<1> QED
  BY <1>6, <1>7, <1>8, <1>9, <1>11, <1>12, <1>13 DEF IInv

LEMMA RecycleNext ==
  ASSUME TypeOK, IInv, NEW t \in Threads, Recycle(t)
  PROVE  TypeOK' /\ IInv'
<1>h. PICK h \in Headers : h = Top(t).hdr
  BY StackIs DEF Recycle, At, Frame
<1>1. /\ ~Idle(t) /\ At(t, "recycle") /\ Top(t).at = "recycle" /\ Goto(t, <<>>)
      /\ reference' = [reference EXCEPT ![h] = None]
      /\ refcount' = [refcount EXCEPT ![h] = 1]
      /\ \/ pool' \in Requeued(h) /\ held' = held
         \/ pool' = pool /\ held' = [held EXCEPT ![t][h] = @ + 1]
      /\ delayed' = delayed /\ torn' = torn /\ later' = later
  BY <1>h DEF Recycle, At, races
<1>s. Sounds' = Sounds /\ Sounds \subseteq Headers
  BY <1>1, SoundSame, SoundIs
<1>2. /\ Others(t) /\ Rests(t) /\ Finishing(t)' = Finishing(t) \ {h} /\ h \in Finishing(t)
  BY <1>h, <1>1, EndSteps, WaitingIs DEF IInv
<1>3. \A u \in Threads \ {t} :
        /\ Finishing(u)' = Finishing(u)
        /\ \A l : (At(u, l)' <=> At(u, l)) /\ (At(u, l) => Top(u)' = Top(u))
        /\ \A g : Ends(u, g)' <=> Ends(u, g)
  BY <1>2, ElsewhereIs DEF Others
<1>4. /\ ~At(t, "load") /\ ~At(t, "store") /\ ~At(t, "acquire") /\ ~At(t, "zero")
      /\ ~At(t, "load")' /\ ~At(t, "store")' /\ ~At(t, "acquire")' /\ ~At(t, "zero")'
  BY <1>1, <1>2 DEF Rests, At
<1>5. h \in Sounds =>
      /\ refcount[h] = 0 /\ h \notin delayed /\ \A u \in Threads \ {t} : ~Ends(u, h)
      /\ h \notin pool /\ Showing(h) = {}
      /\ \A u \in Threads : held[u][h] = 0 /\ u \notin Releasing(h)
  <2>1. Ends(t, h)
    BY <1>2 DEF Ends
  <2>2. h \in Sounds => refcount[h] = 0 /\ h \notin delayed /\ \A u \in Threads \ {t} : ~Ends(u, h)
    BY <2>1 DEF IInv, EndInv
  <2> QED
    BY <2>2, UsesAre
<1>6. /\ refcount'[h] = 1 /\ \A g \in Headers \ {h} : refcount'[g] = refcount[g]
      /\ reference'[h] = None /\ \A g \in Headers \ {h} : reference'[g] = reference[g]
      /\ refcount' \in [Headers -> Int] /\ reference' \in [Headers -> Headers \cup {None}]
  BY <1>1 DEF TypeOK
<1>7. \/ /\ pool' \subseteq Headers /\ held' = held /\ (h \in Sounds => h \in pool')
         /\ \A g \in Sounds \ {h} : g \in pool' <=> g \in pool
      \/ /\ pool' = pool /\ held' \in [Threads -> [Headers -> Nat]]
         /\ held'[t][h] = held[t][h] + 1 /\ \A u \in Threads \ {t} : held'[u] = held[u]
         /\ \A u \in Threads, g \in Headers \ {h} : held'[u][g] = held[u][g]
  <2>1. CASE pool' \in Requeued(h) /\ held' = held
    <3>1. CASE h \in pool
      <4>1. h \notin Sounds
        BY <1>5, <3>1
      <4>2. PICK lost \in SUBSET ((pool \cap Pool(h)) \ {h}) : pool' = pool \ lost
        BY <2>1, <3>1 DEF Requeued
      <4>3. ASSUME NEW g \in Sounds, g \in lost PROVE FALSE
        <5>1. Level[g] = Level[h] /\ Level[h] \in Nat
          BY <4>2, <4>3, HeadersAssumption DEF Pool
        <5>2. Level[g] <= Level[h]
          BY <5>1
        <5> QED
          BY <4>1, <5>2, SoundIs
      <4> QED
        BY <2>1, <4>1, <4>2, <4>3 DEF TypeOK
    <3>2. CASE h \notin pool
      <4>1. pool' = pool \cup {h}
        BY <2>1, <3>2 DEF Requeued
      <4> QED
        BY <2>1, <4>1 DEF TypeOK
    <3> QED
      BY <3>1, <3>2
  <2>2. CASE pool' = pool /\ held' = [held EXCEPT ![t][h] = @ + 1]
    <3>1. held' = [held EXCEPT ![t][h] = held[t][h] + 1] /\ held[t][h] + 1 \in Nat
      BY <2>2 DEF TypeOK
    <3> QED
      BY <2>2, <3>1 DEF TypeOK
  <2> QED
    BY <1>1, <2>1, <2>2
<1>8. TypeOK'
  BY <1>1, <1>2, <1>6, <1>7 DEF TypeOK, Others
<1>9. StackInv'
  <2>1. Levels
    BY DEF IInv, StackInv
  <2>2. Levels'
    BY <1>6, <2>1 DEF Levels
  <2> QED
    BY <1>2, <2>2, StackNext DEF IInv
<1>10. LoadInv'
  <2>1. \A u \in Threads : Updates(u) /\ Top(u).hdr \in Sounds => Top(u).hdr \in Headers \ {h}
    <3>1. ASSUME NEW u \in Threads, At(u, "store"), Top(u).hdr \in Sounds PROVE Top(u).hdr \in Headers \ {h}
      BY <1>5, <3>1, StackIs DEF At, Frame, Releasing
    <3>2. ASSUME NEW u \in Threads, At(u, "acquire"), Top(u).hdr \in Sounds PROVE Top(u).hdr \in Headers \ {h}
      BY <1>5, <3>2, AcquirersAre
    <3> QED
      BY <3>1, <3>2 DEF Updates
  <2>2. \A u \in Threads : Updates(u)' => /\ Updates(u) /\ Top(u)' = Top(u)
                                          /\ Top(u).hdr \in Sounds =>
                                              refcount'[Top(u).hdr] = refcount[Top(u).hdr]
    BY <1>3, <1>4, <1>6, <2>1 DEF Updates
  <2> QED
    BY <1>s, <2>2 DEF IInv, LoadInv
<1>11. EndInv'
  <2>1. h \in Sounds => \A u \in Threads : ~Ends(u, h)'
    BY <1>2, <1>3, <1>4, <1>5 DEF Ends
  <2>2. ASSUME NEW g \in Headers \ {h}
        PROVE  \A u \in Threads : Ends(u, g)' <=> Ends(u, g)
    BY <1>2, <1>3, <1>4 DEF Ends
  <2>3. ASSUME NEW g \in Sounds
        PROVE  /\ refcount'[g] = 0 <=> g \in delayed' \/ \E u \in Threads : Ends(u, g)'
               /\ g \in delayed' => \A u \in Threads : ~Ends(u, g)'
               /\ \A u, v \in Threads : Ends(u, g)' /\ Ends(v, g)' => u = v
    <3>1. CASE g = h
      BY <1>1, <1>5, <1>6, <2>1, <3>1 DEF Ends
    <3>2. CASE g # h
      BY <1>1, <1>s, <1>6, <2>2, <3>2 DEF IInv, EndInv
    <3> QED
      BY <3>1, <3>2
  <2> QED
    BY <1>s, <2>3 DEF EndInv
<1>12. ASSUME NEW g \in Sounds PROVE IsFiniteSet(References(g)') /\ refcount'[g] = Total(g)'
  <2>1. Releasing(g)' = Releasing(g)
    <3>1. \A u : u \in Releasing(g)' <=> u \in Releasing(g)
      BY <1>3, <1>4 DEF Releasing
    <3> QED
      BY <3>1
  <2>2. Showing(g)' = Showing(g)
    <3>1. ASSUME NEW f \in Headers PROVE f \in Showing(g)' <=> f \in Showing(g)
      <4>1. CASE f = h
        BY <1>s, <1>2, <1>6, <4>1, HeadersAssumption DEF Showing
      <4>2. CASE f # h
        <5>1. \A u \in Threads : f \in Finishing(u)' <=> f \in Finishing(u)
          BY <1>2, <1>3, <4>2
        <5>2. reference'[f] = reference[f]
          BY <1>6, <4>2
        <5> QED
          BY <5>1, <5>2 DEF Showing
      <4> QED
        BY <4>1, <4>2
    <3>2. \A f : f \in Showing(g)' <=> f \in Showing(g)
      BY <3>1 DEF Showing
    <3> QED
      BY <3>2
  <2>3. CASE g # h
    BY <1>s, <1>6, <1>7, <2>1, <2>2, <2>3, CountSame DEF IInv, CountInv
  <2>4. CASE g = h /\ h \in pool' /\ held' = held
    <3>1. IsFiniteSet(References(h)') /\ HeldCount(h)' = HeldCount(h)
      BY <2>4, CountsAre, HeldSame
    <3>2. One(h \in pool)' = 1 /\ One(h \in pool) = 0
      BY <1>5, <2>4 DEF One
    <3> QED
      BY <1>5, <1>6, <2>1, <2>2, <2>4, <3>1, <3>2, CountsAre DEF Total
  <2>5. CASE /\ g = h /\ pool' = pool /\ held'[t][h] = held[t][h] + 1
             /\ \A u \in Threads \ {t} : held'[u] = held[u]
    <3>1. IsFiniteSet(References(h)') /\ HeldCount(h)' = HeldCount(h) + 1
      BY <2>5, CountsAre, HeldMore
    <3>2. One(h \in pool)' = One(h \in pool)
      BY <2>5 DEF One
    <3> QED
      BY <1>5, <1>6, <2>1, <2>2, <2>5, <3>1, <3>2, CountsAre DEF Total
  <2> QED
    BY <1>7, <2>3, <2>4, <2>5
<1>13. CountInv'
  BY <1>s, <1>12 DEF CountInv
<1>14. PoolInv'
  BY <1>s, <1>6, <1>7 DEF IInv, PoolInv, TypeOK
<1>15. AcquireInv'
  <2>1. ASSUME NEW u \in Threads \ {t}, At(u, "acquire")
        PROVE  Acquires(u)'
    <3>1. Top(u).dest \in Sounds => Top(u).dest \in Headers \ {h}
      BY <1>5, <2>1, AcquirersAre
    <3>2. held'[u] = held[u] /\ held[u][Top(u).hdr] > 0
      BY <1>7, <2>1, AcquirersAre
    <3>3. Top(u).dest \in Sounds =>
            /\ \A w \in Threads : held'[w][Top(u).dest] = held[w][Top(u).dest]
            /\ reference'[Top(u).dest] = reference[Top(u).dest]
      BY <1>6, <1>7, <3>1
    <3> QED
      BY <1>s, <1>3, <2>1, <3>2, <3>3, AcquireSame
  <2> QED
    BY <1>3, <1>4, <2>1, AcquireNow
<1> QED
  BY <1>8, <1>9, <1>10, <1>11, <1>13, <1>14, <1>15 DEF IInv

LEMMA InitHolds ==
  ASSUME Init
  PROVE  TypeOK /\ IInv
<1>1. \A t \in Threads : /\ calls[t] = <<>> /\ Len(calls[t]) = 0 /\ Idle(t)
                         /\ \A h \in Headers : held[t][h] = 0
  BY DEF Init, Idle
<1>2. TypeOK
  <2>1. <<>> \in Seq(Frame)
    BY FramesAre
  <2>2. calls \in [Threads -> Seq(Frame)]
    BY <2>1 DEF Init
  <2> QED
    BY <2>2 DEF Init, TypeOK
<1>3. \A t \in Threads : Finishing(t) = {} /\ \A h : ~Ends(t, h)
  BY <1>1 DEF Finishing, Recycling, Ends, At
<1>4. StackInv
  BY <1>1, HeadersAssumption DEF StackInv, Stacked, Levels, Init
<1>5. LoadInv /\ AcquireInv
  BY <1>1 DEF LoadInv, AcquireInv, Updates, At
<1>6. EndInv
  BY <1>1, <1>3 DEF EndInv, Init, At, Sounds
<1>7. ASSUME NEW h \in Headers PROVE IsFiniteSet(References(h)) /\ refcount[h] = Total(h)
  <2>1. References(h) = {}
    BY <1>1 DEF References
  <2>2. Showing(h) = {}
    BY HeadersAssumption DEF Showing, Init
  <2>3. Releasing(h) = {}
    BY <1>1 DEF Releasing, At
  <2>4. One(h \in pool) = 1 /\ refcount[h] = 1
    BY DEF One, Init
  <2>5. IsFiniteSet({}) /\ Cardinality({}) = 0
    BY FS_EmptySet
  <2> QED
    BY <2>1, <2>2, <2>3, <2>4, <2>5 DEF Total, HeldCount
<1>8. CountInv
  BY <1>7 DEF CountInv, Sounds
<1>9. PoolInv
  BY DEF PoolInv, Init
<1> QED
  BY <1>2, <1>4, <1>5, <1>6, <1>8, <1>9 DEF IInv

LEMMA IdleHolds ==
  ASSUME TypeOK, IInv, UNCHANGED vars
  PROVE  TypeOK' /\ IInv'
<1>1. /\ held' = held /\ refcount' = refcount /\ reference' = reference /\ pool' = pool
      /\ delayed' = delayed /\ calls' = calls /\ torn' = torn /\ later' = later
  BY DEF vars
<1>s. Sounds' = Sounds /\ Sounds \subseteq Headers
  BY <1>1, SoundSame, SoundIs
<1>2. \A u \in Threads : /\ Finishing(u)' = Finishing(u)
                         /\ \A l : (At(u, l)' <=> At(u, l)) /\ (At(u, l) => Top(u)' = Top(u))
                         /\ \A g : Ends(u, g)' <=> Ends(u, g)
  BY <1>1, ElsewhereIs
<1>3. TypeOK' /\ StackInv' /\ PoolInv'
  BY <1>1, <1>s DEF TypeOK, IInv, StackInv, Levels, PoolInv
<1>4. LoadInv' /\ EndInv'
  BY <1>1, <1>s, <1>2 DEF IInv, LoadInv, EndInv, Updates
<1>5. CountInv'
  <2>1. ASSUME NEW g \in Sounds PROVE Showing(g)' = Showing(g) /\ Releasing(g)' = Releasing(g)
    BY <1>1, <1>2 DEF Showing, Releasing
  <2> QED
    BY <1>1, <1>s, <2>1, CountSame DEF IInv, CountInv
<1>6. AcquireInv'
  BY <1>1, <1>s, <1>2, AcquirersAre, AcquireSame, AcquireNow
<1> QED
  BY <1>3, <1>4, <1>5, <1>6 DEF IInv

LEMMA NextHolds ==
  ASSUME TypeOK, IInv, Next
  PROVE  TypeOK' /\ IInv'
<1>1. ASSUME NEW t \in Threads, NEW h \in Headers, Acquire(t, h) PROVE TypeOK' /\ IInv'
  <2>1. Begins(t) /\ held[t][h] > 0 /\ Loads(h) /\ None \notin Sounds
    BY <1>1, SoundIs DEF Acquire
  <2>2. calls' = [calls EXCEPT ![t] = <<Acquiring(h, None)>>]
    BY <1>1 DEF Acquire
  <2>3. UNCHANGED <<refcount, reference, pool, delayed, held>>
    BY <1>1 DEF Acquire
  <2> QED
    BY <2>1, <2>2, <2>3, AcquireNext
<1>2. ASSUME NEW t \in Threads, NEW d \in Headers, NEW h \in Headers, Replicate(t, d, h)
      PROVE  TypeOK' /\ IInv'
  <2>1. Begins(t) /\ held[t][h] > 0 /\ Loads(h) /\ Level[h] < Level[d] /\ reference[d] = None
    BY <1>2 DEF Replicate
  <2>2. d \in Sounds => Owns(t, d)
    BY <1>2, OwnsIs DEF IInv, Replicate
  <2>3. calls' = [calls EXCEPT ![t] = <<Acquiring(h, d)>>]
    BY <1>2 DEF Replicate
  <2>4. UNCHANGED <<refcount, reference, pool, delayed, held>>
    BY <1>2 DEF Replicate
  <2> QED
    BY <2>1, <2>2, <2>3, <2>4, AcquireNext
<1>3. ASSUME NEW t \in Threads, Continue(t) PROVE TypeOK' /\ IInv'
  <2>1. Top(t).hdr \in Headers
    BY <1>3, StackIs DEF Continue, At, Frame
  <2> QED
    BY <1>3, <2>1, FinalNext
<1>4. ASSUME NEW t \in Threads, NEW h \in Headers, ReleaseContinue(t, h) PROVE TypeOK' /\ IInv'
  BY <1>4, FinalNext
<1>5. ASSUME NEW t \in Threads,
             \/ \E h \in Headers :
                  \/ Take(t, h)
                  \/ \E u \in Threads : HandOver(t, u, h)
                  \/ Release(t, h)
             \/ Acquired(t)
             \/ Load(t)
             \/ Store(t)
             \/ Delay(t)
             \/ Recycle(t)
      PROVE  TypeOK' /\ IInv'
  BY <1>5, TakeNext, HandOverNext, ReleaseNext, AcquiredNext, LoadNext, StoreNext, DelayNext,
     RecycleNext
<1> QED
  BY <1>1, <1>2, <1>3, <1>4, <1>5 DEF Next

-----------------------------------------------------------------------------
\* The inductive invariant holds, whichever updates of counts are lost: of a header in
\* whose pool and later stages none was, the count is that of the references not yet
\* given up, and is zero while exactly one thread is in its last release or that
\* release is postponed.
THEOREM Invariance == Spec => [](TypeOK /\ IInv)
<1>1. Init => TypeOK /\ IInv
  BY InitHolds
<1>2. TypeOK /\ IInv /\ [Next]_vars => (TypeOK /\ IInv)'
  BY NextHolds, IdleHolds
<1> QED
  BY <1>1, <1>2, PTL DEF Spec

\* The state stays within its types.
THEOREM TypeCorrect == Spec => []TypeOK
BY Invariance, PTL

\* The calls that a header appears in.
LEMMA InCallIs ==
  ASSUME TypeOK, NEW h \in Headers, ~InCall(h)
  PROVE  \A t \in Threads : ~Ends(t, h) /\ t \notin Releasing(h) /\ h \notin Finishing(t)
<1>1. \A t \in Threads : ~Idle(t) => Len(calls[t]) \in 1 .. Len(calls[t]) /\ Top(t) = calls[t][Len(calls[t])]
  BY StackIs DEF Top
<1>2. \A t \in Threads : ~Idle(t) => Top(t).hdr # h
  BY <1>1 DEF InCall
<1> QED
  BY <1>2 DEF InCall, Ends, Releasing, Finishing, Recycling, At

\* A header on which no call is under way counts exactly its holders and its replicas,
\* and its pool, until two updates overlap in its pool or a later stage
\* (mmal_buffer_header_acquire and mmal_buffer_header_release).
THEOREM CountsExact == Spec => []RefcountExact
<1>1. TypeOK /\ IInv => RefcountExact
  <2> SUFFICES ASSUME TypeOK, IInv, NEW h \in Headers,
                      Sound(h), ~InCall(h), \A d \in Replicas(h) : ~InCall(d)
               PROVE  refcount[h] = HeldCount(h) + Cardinality(Replicas(h))
                                      + (IF h \in pool THEN 1 ELSE 0)
    BY DEF RefcountExact
  <2>0. h \in Sounds
    BY DEF Sounds
  <2>1. Releasing(h) = {}
    BY InCallIs DEF Releasing
  <2>2. \A d : d \in Showing(h) <=> d \in Replicas(h)
    BY InCallIs DEF Showing, Replicas
  <2>3. Showing(h) = Replicas(h)
    BY <2>2
  <2> QED
    BY <2>0, <2>1, <2>3, CountsAre
<1> QED
  BY <1>1, Invariance, PTL

\* A header in its pool, or about to go there, is used by nobody and goes there once
\* (mmal_buffer_header_acquire: it "won't be recycled until all the references to it
\* are gone"), until two updates overlap in its pool or a later stage: updates lost
\* elsewhere do not matter.
THEOREM RecycledOnce == Spec => []NoEarlyRecycle
<1>1. TypeOK /\ IInv => NoEarlyRecycle
  <2> SUFFICES ASSUME TypeOK, IInv, NEW h \in Sounds,
                      h \in pool \cup delayed \/ (\E t \in Threads : Recycling(t, h))
               PROVE  /\ HeldCount(h) = 0
                      /\ \A d \in Replicas(h) : \E t \in Threads : Recycling(t, d)
                      /\ Cardinality({t \in Threads : Recycling(t, h)})
                           + Cardinality({h} \cap pool) + Cardinality({h} \cap delayed) = 1
    BY DEF NoEarlyRecycle, Recycled, Unused, Sounds
  <2>0. h \in Headers
    BY DEF Sounds
  <2> DEFINE R == {t \in Threads : Recycling(t, h)}
  <2>1. \A t \in Threads : Recycling(t, h) => Ends(t, h)
    BY <2>0 DEF Ends, Finishing
  <2>2. /\ refcount[h] = 0 <=> h \in delayed \/ \E t \in Threads : Ends(t, h)
        /\ h \in delayed => \A t \in Threads : ~Ends(t, h)
        /\ \A t, u \in Threads : Ends(t, h) /\ Ends(u, h) => t = u
    BY DEF IInv, EndInv
  <2>3. \A t \in Threads : held[t][h] = 0
    BY <2>1, <2>2, UsesAre
  <2>4. Showing(h) = {}
    BY <2>1, <2>2, UsesAre
  <2>5. HeldCount(h) = 0
    BY <2>3, CountsAre
  <2>6. \A d \in Replicas(h) : \E t \in Threads : Recycling(t, d)
    BY <2>4 DEF Showing, Replicas, Finishing
  <2>7. /\ \A x : Cardinality({x}) = 1
        /\ Cardinality({}) = 0
    BY FS_Singleton, FS_EmptySet
  <2>8. CASE h \in pool
    <3>1. R = {} /\ {h} \cap pool = {h} /\ {h} \cap delayed = {}
      BY <2>1, <2>2, <2>8, UsesAre
    <3>2. /\ Cardinality(R) = 0 /\ Cardinality({h} \cap pool) = 1
          /\ Cardinality({h} \cap delayed) = 0
      BY <2>7, <3>1, Zenon
    <3> HIDE DEF R
    <3>3. Cardinality(R) + Cardinality({h} \cap pool) + Cardinality({h} \cap delayed) = 1
      BY <3>2
    <3> USE DEF R
    <3> QED
      BY <2>5, <2>6, <3>3
  <2>9. CASE h \in delayed
    <3>1. h \notin pool
      BY <2>2, <2>9, UsesAre
    <3>2. R = {} /\ {h} \cap pool = {} /\ {h} \cap delayed = {h}
      BY <2>1, <2>2, <2>9, <3>1
    <3>3. /\ Cardinality(R) = 0 /\ Cardinality({h} \cap pool) = 0
          /\ Cardinality({h} \cap delayed) = 1
      BY <2>7, <3>2, Zenon
    <3> HIDE DEF R
    <3>4. Cardinality(R) + Cardinality({h} \cap pool) + Cardinality({h} \cap delayed) = 1
      BY <3>3
    <3> USE DEF R
    <3> QED
      BY <2>5, <2>6, <3>4
  <2>10. CASE \E t \in Threads : Recycling(t, h)
    <3>1. PICK t \in Threads : Recycling(t, h)
      BY <2>10
    <3>2. h \notin pool /\ h \notin delayed
      BY <2>1, <2>2, <3>1, UsesAre
    <3>3. R = {t} /\ {h} \cap pool = {} /\ {h} \cap delayed = {}
      BY <2>1, <2>2, <3>1, <3>2
    <3> QED
      BY <2>5, <2>6, <2>7, <3>3
  <2> QED
    BY <2>8, <2>9, <2>10
<1> QED
  BY <1>1, Invariance, PTL

\* A header that is not in its pool has somebody who will give it back ("when no more
\* references are left, the buffer header will be recycled", mmal_buffer.h), until two
\* updates overlap in its pool or a later stage.
THEOREM NoneLeaked == Spec => []NothingLeaked
<1>1. TypeOK /\ IInv => NothingLeaked
  <2> SUFFICES ASSUME TypeOK, IInv, NEW h \in Sounds,
                      h \notin pool, h \notin delayed, ~InCall(h), Replicas(h) = {}
               PROVE  HeldCount(h) > 0
    BY DEF NothingLeaked, ComesBack, Sounds
  <2>0. h \in Headers
    BY DEF Sounds
  <2>1. Releasing(h) = {} /\ \A t \in Threads : ~Ends(t, h)
    BY <2>0, InCallIs DEF Releasing
  <2>2. Showing(h) = {}
    BY DEF Showing, Replicas
  <2>3. refcount[h] # 0
    BY <2>1 DEF IInv, EndInv
  <2> QED
    BY <2>1, <2>2, <2>3, CountsAre
<1> QED
  BY <1>1, Invariance, PTL

-----------------------------------------------------------------------------
\* Where a thread holds the lock of the queue.
Critical == {"put", "putback", "linked", "posted", "taken"}

\* The lock is held exactly by the thread that is in a critical section.
LockInv == \A t \in Users : pc[t] \in Critical <=> lock = t

\* A writer that has not linked its buffer yet holds it.
HandInv == \A t \in Users : pc[t] \in {"put", "putback"} => buf[t] \in Buffers

\* The inductive invariant.
QueueInv == QueueTypeOK /\ LockInv /\ HandInv /\ ClaimsBacked /\ LengthExact

-----------------------------------------------------------------------------
\* What moving one thread to a label does to the number of threads at a set
\* of labels.
LEMMA MoveCount ==
  ASSUME QueueTypeOK, NEW t \in Users, NEW l \in Labels, MovesTo(t, l), NEW S
  PROVE  /\ Cardinality(ThreadsAt(S)) \in Nat
         /\ Cardinality(ThreadsAt(S))' \in Nat
         /\ (pc[t] \in S <=> l \in S) => Cardinality(ThreadsAt(S))' = Cardinality(ThreadsAt(S))
         /\ pc[t] \in S /\ l \notin S =>
              Cardinality(ThreadsAt(S)) = Cardinality(ThreadsAt(S))' + 1
         /\ pc[t] \notin S /\ l \in S =>
              Cardinality(ThreadsAt(S))' = Cardinality(ThreadsAt(S)) + 1
<1> DEFINE A == ThreadsAt(S)
           Rest == A \ {t}
<1>1. IsFiniteSet(A)
  BY QueueFiniteAssumption, FS_Subset DEF ThreadsAt, Users
<1>2. Cardinality(A) \in Nat
  BY <1>1, FS_CardinalityType
<1>3. /\ IsFiniteSet(Rest)
      /\ Cardinality(Rest) = IF t \in A THEN Cardinality(A) - 1
                                        ELSE Cardinality(A)
  BY <1>1, FS_RemoveElement
<1>4. Cardinality(Rest) \in Nat
  BY <1>3, FS_CardinalityType
<1>5. Cardinality(Rest \cup {t}) = Cardinality(Rest) + 1
  BY <1>3, FS_AddElement
<1>6. t \in A <=> pc[t] \in S
  BY DEF ThreadsAt
<1>7. A' = IF l \in S THEN Rest \cup {t} ELSE Rest
  BY DEF ThreadsAt, MovesTo, QueueTypeOK
<1> HIDE DEF Rest
<1>8. Cardinality(A') = Cardinality(Rest) + (IF l \in S THEN 1 ELSE 0)
  BY <1>4, <1>5, <1>7
<1>9. Cardinality(A) = Cardinality(Rest) + (IF pc[t] \in S THEN 1 ELSE 0)
  BY <1>2, <1>3, <1>4, <1>6
<1> HIDE DEF A
<1> QED
  BY <1>2, <1>4, <1>8, <1>9 DEF A

\* The three counts before and after a step that moves thread t to label l.
LEMMA Counts ==
  ASSUME QueueTypeOK, NEW t \in Users, NEW l \in Labels, MovesTo(t, l)
  PROVE  /\ Claimed \in Nat /\ Linked \in Nat /\ Counted \in Nat
         /\ Claimed' \in Nat /\ Linked' \in Nat /\ Counted' \in Nat
         /\ (pc[t] = "claimed" <=> l = "claimed") => Claimed' = Claimed
         /\ pc[t] = "claimed" /\ l # "claimed" => Claimed = Claimed' + 1
         /\ pc[t] # "claimed" /\ l = "claimed" => Claimed' = Claimed + 1
         /\ (pc[t] = "linked" <=> l = "linked") => Linked' = Linked
         /\ pc[t] = "linked" /\ l # "linked" => Linked = Linked' + 1
         /\ pc[t] # "linked" /\ l = "linked" => Linked' = Linked + 1
         /\ (pc[t] \in {"put", "putback"} <=> l \in {"put", "putback"})
               => Counted' = Counted
         /\ pc[t] \in {"put", "putback"} /\ l \notin {"put", "putback"}
               => Counted = Counted' + 1
         /\ pc[t] \notin {"put", "putback"} /\ l \in {"put", "putback"}
               => Counted' = Counted + 1
<1> DEFINE Diff(S, n, m) ==
             /\ n \in Nat /\ m \in Nat
             /\ (pc[t] \in S <=> l \in S) => m = n
             /\ pc[t] \in S /\ l \notin S => n = m + 1
             /\ pc[t] \notin S /\ l \in S => m = n + 1
<1>1. Diff({"claimed"}, Claimed, Claimed')
  BY MoveCount DEF Claimed
<1>2. Diff({"linked"}, Linked, Linked')
  BY MoveCount DEF Linked
<1>3. Diff({"put", "putback"}, Counted, Counted')
  BY MoveCount DEF Counted
<1> QED
  BY <1>1, <1>2, <1>3

\* A step that moves no thread.
LEMMA StayCounts ==
  ASSUME UNCHANGED pc
  PROVE  Claimed' = Claimed /\ Linked' = Linked /\ Counted' = Counted
BY DEF ThreadsAt, Claimed, Linked, Counted

-----------------------------------------------------------------------------
LEMMA InitQueueInv == QueueInit => QueueInv
<1> SUFFICES ASSUME QueueInit PROVE QueueInv
  OBVIOUS
<1>1. /\ ThreadsAt({"claimed"}) = {} /\ ThreadsAt({"linked"}) = {}
      /\ ThreadsAt({"put", "putback"}) = {}
  BY DEF ThreadsAt, QueueInit
<1>2. Cardinality({}) = 0
  BY FS_EmptySet
<1>3. QueueTypeOK
  BY DEF QueueInit, QueueTypeOK, Labels
<1>4. LockInv /\ HandInv
  BY ThreadsAssumption DEF QueueInit, LockInv, HandInv, Critical, Users
<1>5. Claimed = 0 /\ Linked = 0 /\ Counted = 0
  BY <1>1, <1>2, Zenon DEF Claimed, Linked, Counted
<1>6. ClaimsBacked /\ LengthExact
  BY <1>5 DEF QueueInit, ClaimsBacked, LengthExact
<1> QED
  BY <1>3, <1>4, <1>6 DEF QueueInv

LEMMA PutCountQueueInv ==
  ASSUME QueueInv, NEW t \in Producers, NEW b \in Buffers,
         NEW l \in {"put", "putback"}, PutCount(t, b, l)
  PROVE  QueueInv'
<1> USE DEF QueueInv, PutCount
<1>0. t \in Users /\ l \in Labels /\ QueueTypeOK /\ MovesTo(t, l)
  BY DEF Users, Labels
<1>1. QueueTypeOK'
  BY <1>0 DEF QueueTypeOK, MovesTo
<1>2. LockInv' /\ HandInv'
  BY <1>0, ThreadsAssumption DEF QueueTypeOK, LockInv, HandInv, Critical, MovesTo, Users
<1>3. Claimed' = Claimed /\ Linked' = Linked /\ Counted' = Counted + 1
  BY <1>0, Counts
<1>4. Claimed \in Nat /\ Linked \in Nat /\ Counted \in Nat
  BY <1>0, Counts
<1>5. /\ sem \in Nat /\ length \in Nat /\ Len(items) \in Nat
      /\ length' = length + 1 /\ Len(items)' = Len(items) /\ sem' = sem
  BY <1>0 DEF QueueTypeOK
<1>6. Len(items) = sem + Claimed + Linked /\ length = Len(items) + Counted
  BY DEF ClaimsBacked, LengthExact
<1> HIDE DEF PutCount, QueueInv
<1>7. ClaimsBacked' /\ LengthExact'
  BY <1>3, <1>4, <1>5, <1>6 DEF ClaimsBacked, LengthExact
<1> USE DEF QueueInv
<1> QED
  BY <1>1, <1>2, <1>7

LEMMA LinkQueueInv ==
  ASSUME QueueInv, NEW t \in Producers, NEW l \in {"put", "putback"}, NEW STATE list,
         Link(t, l, list), list \in Seq(Buffers), Len(list) = Len(items) + 1
  PROVE  QueueInv'
<1> USE DEF QueueInv, Link
<1>0. t \in Users /\ "linked" \in Labels /\ QueueTypeOK /\ MovesTo(t, "linked")
  BY DEF Users, Labels
<1>1. QueueTypeOK'
  BY <1>0 DEF QueueTypeOK, MovesTo
<1>2. LockInv' /\ HandInv'
  BY <1>0 DEF QueueTypeOK, LockInv, HandInv, Critical, MovesTo
<1>3. Claimed' = Claimed /\ Linked' = Linked + 1 /\ Counted = Counted' + 1
  BY <1>0, Counts
<1>4. Claimed \in Nat /\ Linked \in Nat /\ Counted' \in Nat
  BY <1>0, Counts
<1>5. /\ sem \in Nat /\ length \in Nat /\ Len(items) \in Nat
      /\ length' = length /\ Len(items)' = Len(items) + 1 /\ sem' = sem
  BY <1>0 DEF QueueTypeOK
<1>6. Len(items) = sem + Claimed + Linked /\ length = Len(items) + Counted
  BY DEF ClaimsBacked, LengthExact
<1> HIDE DEF Link, QueueInv
<1>7. ClaimsBacked' /\ LengthExact'
  BY <1>3, <1>4, <1>5, <1>6 DEF ClaimsBacked, LengthExact
<1> USE DEF QueueInv
<1> QED
  BY <1>1, <1>2, <1>7

LEMMA ProducerQueueInv ==
  ASSUME QueueInv, NEW t \in Producers, ProducerCall(t) \/ ProducerStep(t)
  PROVE  QueueInv'
<1>0. t \in Users /\ QueueTypeOK
  BY DEF Users, QueueInv
<1>1. CASE ProducerCall(t)
  BY <1>1, PutCountQueueInv DEF ProducerCall
<1>2. CASE PutLink(t)
  <2>1. buf[t] \in Buffers
    BY <1>0, <1>2 DEF PutLink, Link, QueueInv, HandInv
  <2>2. /\ Append(items, buf[t]) \in Seq(Buffers)
        /\ Len(Append(items, buf[t])) = Len(items) + 1
    BY <1>0, <2>1 DEF QueueTypeOK
  <2> QED
    BY <1>2, <2>2, LinkQueueInv DEF PutLink
<1>3. CASE PutBackLink(t)
  <2>1. buf[t] \in Buffers
    BY <1>0, <1>3 DEF PutBackLink, Link, QueueInv, HandInv
  <2>2. /\ <<buf[t]>> \o items \in Seq(Buffers)
        /\ Len(<<buf[t]>> \o items) = Len(items) + 1
    BY <1>0, <2>1 DEF QueueTypeOK
  <2> QED
    BY <1>3, <2>2, LinkQueueInv DEF PutBackLink
<1>4. CASE PutPost(t)
  <2> USE <1>4 DEF QueueInv, PutPost
  <2>0. "posted" \in Labels /\ MovesTo(t, "posted")
    BY DEF Labels
  <2>1. QueueTypeOK' /\ LockInv' /\ HandInv'
    BY <1>0, <2>0 DEF QueueTypeOK, LockInv, HandInv, Critical, MovesTo
  <2>2. Claimed' = Claimed /\ Linked = Linked' + 1 /\ Counted' = Counted
    BY <1>0, <2>0, Counts
  <2>3. Claimed \in Nat /\ Linked' \in Nat /\ Counted \in Nat
    BY <1>0, <2>0, Counts
  <2>4. /\ sem \in Nat /\ length' = length
        /\ Len(items)' = Len(items) /\ sem' = sem + 1
    BY <1>0 DEF QueueTypeOK
  <2>5. Len(items) = sem + Claimed + Linked /\ length = Len(items) + Counted
    BY DEF ClaimsBacked, LengthExact
  <2> HIDE DEF PutPost, QueueInv
  <2>6. ClaimsBacked' /\ LengthExact'
    BY <2>2, <2>3, <2>4, <2>5 DEF ClaimsBacked, LengthExact
  <2> QED
    BY <2>1, <2>6 DEF QueueInv
<1>5. CASE PutUnlock(t)
  <2> USE <1>5 DEF QueueInv, PutUnlock
  <2>0. "idle" \in Labels /\ MovesTo(t, "idle")
    BY DEF Labels
  <2>1. QueueTypeOK' /\ LockInv' /\ HandInv'
    BY <1>0, <2>0, ThreadsAssumption
       DEF QueueTypeOK, LockInv, HandInv, Critical, MovesTo, Users
  <2>2. Claimed' = Claimed /\ Linked' = Linked /\ Counted' = Counted
    BY <1>0, <2>0, Counts
  <2>3. Claimed \in Nat /\ Linked' \in Nat /\ Counted \in Nat
    BY <1>0, <2>0, Counts
  <2>4. /\ sem \in Nat /\ length' = length
        /\ Len(items)' = Len(items) /\ sem' = sem
    BY <1>0 DEF QueueTypeOK
  <2>5. Len(items) = sem + Claimed + Linked /\ length = Len(items) + Counted
    BY DEF ClaimsBacked, LengthExact
  <2> HIDE DEF PutUnlock, QueueInv
  <2>6. ClaimsBacked' /\ LengthExact'
    BY <2>2, <2>3, <2>4, <2>5 DEF ClaimsBacked, LengthExact
  <2> QED
    BY <2>1, <2>6 DEF QueueInv
<1> QED
  BY <1>1, <1>2, <1>3, <1>4, <1>5 DEF ProducerStep

LEMMA ClaimQueueInv ==
  ASSUME QueueInv, NEW t \in Consumers, NEW l \in {"idle", "waiting", "timed"},
         Claim(t, l)
  PROVE  QueueInv'
<1> USE DEF QueueInv, Claim
<1>0. t \in Users /\ "claimed" \in Labels /\ QueueTypeOK /\ MovesTo(t, "claimed")
  BY DEF Users, Labels
<1>1. QueueTypeOK' /\ LockInv' /\ HandInv'
  BY <1>0 DEF QueueTypeOK, LockInv, HandInv, Critical, MovesTo
<1>2. Claimed' = Claimed + 1 /\ Linked' = Linked /\ Counted' = Counted
  BY <1>0, Counts
<1>3. Claimed \in Nat /\ Linked \in Nat /\ Counted \in Nat
  BY <1>0, Counts
<1>4. /\ sem \in Nat /\ length' = length
      /\ Len(items)' = Len(items) /\ sem = sem' + 1 /\ sem' \in Nat
  BY <1>0 DEF QueueTypeOK
<1>5. Len(items) = sem + Claimed + Linked /\ length = Len(items) + Counted
  BY DEF ClaimsBacked, LengthExact
<1> HIDE DEF Claim, QueueInv
<1>6. ClaimsBacked' /\ LengthExact'
  BY <1>2, <1>3, <1>4, <1>5 DEF ClaimsBacked, LengthExact
<1> QED
  BY <1>1, <1>6 DEF QueueInv

\* A step that only reads, or only changes which call is made next.
LEMMA QuietQueueInv ==
  ASSUME QueueInv, NEW t \in Consumers, NEW l \in {"idle", "waiting", "timed"},
         pc[t] \in {"idle", "waiting", "timed"}, MovesTo(t, l),
         checked' \in [Users -> BOOLEAN],
         UNCHANGED <<items, length, sem, lock, buf>>
  PROVE  QueueInv'
<1>0. t \in Users /\ l \in Labels /\ QueueTypeOK
  BY DEF Users, Labels, QueueInv
<1>1. QueueTypeOK' /\ LockInv' /\ HandInv'
  BY <1>0 DEF QueueInv, QueueTypeOK, LockInv, HandInv, Critical, MovesTo
<1>2. Claimed' = Claimed /\ Linked' = Linked /\ Counted' = Counted
  BY <1>0, Counts
<1>3. ClaimsBacked' /\ LengthExact'
  BY <1>2 DEF QueueInv, ClaimsBacked, LengthExact
<1> QED
  BY <1>1, <1>3 DEF QueueInv

LEMMA GetCoreQueueInv ==
  ASSUME QueueInv, NEW t \in Consumers, GetCore(t)
  PROVE  QueueInv'
<1> USE DEF QueueInv, GetCore
<1>0. t \in Users /\ "taken" \in Labels /\ QueueTypeOK /\ MovesTo(t, "taken")
  BY DEF Users, Labels
<1>1. /\ Head(items) \in Buffers /\ Tail(items) \in Seq(Buffers)
      /\ Len(Tail(items)) = Len(items) - 1 /\ Len(items) \in Nat \ {0}
  BY <1>0 DEF QueueTypeOK
<1>2. length \in Nat \ {0}
  BY <1>0, <1>1, Counts DEF LengthExact, QueueTypeOK
<1>3. QueueTypeOK'
  BY <1>0, <1>1, <1>2 DEF QueueTypeOK, MovesTo
<1>4. LockInv' /\ HandInv'
  BY <1>0, ThreadsAssumption
     DEF QueueTypeOK, LockInv, HandInv, Critical, MovesTo, Users
<1>5. Claimed = Claimed' + 1 /\ Linked' = Linked /\ Counted' = Counted
  BY <1>0, Counts
<1>6. Claimed' \in Nat /\ Linked \in Nat /\ Counted \in Nat
  BY <1>0, Counts
<1>7. /\ sem \in Nat /\ length \in Nat /\ sem' = sem /\ length' = length - 1
      /\ Len(items)' = Len(items) - 1 /\ Len(items) \in Nat
  BY <1>0, <1>1 DEF QueueTypeOK
<1>8. Len(items) = sem + Claimed + Linked /\ length = Len(items) + Counted
  BY DEF ClaimsBacked, LengthExact
<1> HIDE DEF GetCore, QueueInv
<1>9. ClaimsBacked' /\ LengthExact'
  BY <1>5, <1>6, <1>7, <1>8 DEF ClaimsBacked, LengthExact
<1> USE DEF QueueInv
<1> QED
  BY <1>3, <1>4, <1>9

LEMMA ConsumerQueueInv ==
  ASSUME QueueInv, NEW t \in Consumers,
         ConsumerCall(t) \/ ConsumerStep(t) \/ Timeout(t)
  PROVE  QueueInv'
<1>0. t \in Users /\ QueueTypeOK
  BY DEF Users, QueueInv
<1>1. CASE GetTry(t) \/ WaitWake(t) \/ TimedWake(t)
  BY <1>1, ClaimQueueInv DEF GetTry, WaitWake, TimedWake
<1>2. CASE GetMiss(t) \/ ReadLength(t)
  <2>1. MovesTo(t, "idle") /\ pc[t] = "idle"
    BY <1>0, <1>2 DEF MovesTo, GetMiss, ReadLength, QueueTypeOK
  <2>2. checked' \in [Users -> BOOLEAN]
    <3>1. (length > 0) \in BOOLEAN
      OBVIOUS
    <3>2. checked \in [Users -> BOOLEAN]
      BY <1>0 DEF QueueTypeOK
    <3>3. checked' = [checked EXCEPT ![t] = FALSE]
            \/ checked' = [checked EXCEPT ![t] = length > 0]
      BY <1>2 DEF GetMiss, ReadLength
    <3> DEFINE seen == length > 0
    <3> HIDE DEF seen
    <3>4. CASE checked' = [checked EXCEPT ![t] = seen]
      BY <3>1, <3>2, <3>4, Zenon DEF seen
    <3>5. CASE checked' = [checked EXCEPT ![t] = FALSE]
      BY <3>2, <3>5
    <3> QED
      BY <3>3, <3>4, <3>5 DEF seen
  <2> QED
    BY <1>2, <2>1, <2>2, QuietQueueInv DEF GetMiss, ReadLength
<1>3. CASE (\E l \in {"waiting", "timed"} : WaitBegin(t, l)) \/ Timeout(t)
  BY <1>0, <1>3, QuietQueueInv DEF WaitBegin, Timeout, QueueTypeOK
<1>4. CASE GetCore(t)
  BY <1>4, GetCoreQueueInv
<1>5. CASE GetUnlock(t)
  <2> USE <1>5 DEF QueueInv, GetUnlock
  <2>0. "idle" \in Labels /\ MovesTo(t, "idle")
    BY DEF Labels
  <2>1. QueueTypeOK' /\ LockInv' /\ HandInv'
    BY <1>0, <2>0, ThreadsAssumption
       DEF QueueTypeOK, LockInv, HandInv, Critical, MovesTo, Users
  <2>2. Claimed' = Claimed /\ Linked' = Linked /\ Counted' = Counted
    BY <1>0, <2>0, Counts
  <2>3. Claimed \in Nat /\ Linked' \in Nat /\ Counted \in Nat
    BY <1>0, <2>0, Counts
  <2>4. /\ sem \in Nat /\ length' = length
        /\ Len(items)' = Len(items) /\ sem' = sem
    BY <1>0 DEF QueueTypeOK
  <2>5. Len(items) = sem + Claimed + Linked /\ length = Len(items) + Counted
    BY DEF ClaimsBacked, LengthExact
  <2> HIDE DEF GetUnlock, QueueInv
  <2>6. ClaimsBacked' /\ LengthExact'
    BY <2>2, <2>3, <2>4, <2>5 DEF ClaimsBacked, LengthExact
  <2> QED
    BY <2>1, <2>6 DEF QueueInv
<1> QED
  BY <1>1, <1>2, <1>3, <1>4, <1>5 DEF ConsumerCall, ConsumerStep

LEMMA NextQueueInv == QueueInv /\ [QueueNext]_queueVars => QueueInv'
<1> SUFFICES ASSUME QueueInv, [QueueNext]_queueVars PROVE QueueInv'
  OBVIOUS
<1>1. CASE \E t \in Producers : ProducerCall(t) \/ ProducerStep(t)
  BY <1>1, ProducerQueueInv
<1>2. CASE \E t \in Consumers : ConsumerCall(t) \/ ConsumerStep(t) \/ Timeout(t)
  BY <1>2, ConsumerQueueInv
<1>3. CASE UNCHANGED queueVars
  BY <1>3, StayCounts DEF queueVars, QueueInv, QueueTypeOK, LockInv, HandInv, ClaimsBacked,
                         LengthExact
<1> QED
  BY <1>1, <1>2, <1>3 DEF QueueNext

-----------------------------------------------------------------------------
\* The inductive invariant holds of every behaviour.
THEOREM QueueInvariance == QueueSpec => []QueueInv
BY InitQueueInv, NextQueueInv, PTL DEF QueueSpec

\* The variables keep their types.
THEOREM QueueTypeCorrect == QueueSpec => []QueueTypeOK
<1>1. QueueInv => QueueTypeOK
  BY DEF QueueInv
<1> QED
  BY <1>1, QueueInvariance, PTL

\* The semaphore, the readers past it and the writers about to post account
\* for every linked buffer, however many threads use the queue.
THEOREM ClaimsAreBacked == QueueSpec => []ClaimsBacked
<1>1. QueueInv => ClaimsBacked
  BY DEF QueueInv
<1> QED
  BY <1>1, QueueInvariance, PTL

\* The length counter is exact whenever the lock is free.
THEOREM LengthIsExact == QueueSpec => []LengthExact
<1>1. QueueInv => LengthExact
  BY DEF QueueInv
<1> QED
  BY <1>1, QueueInvariance, PTL

\* mmal_queue_get_core never finds an empty list: the assertion on line 138
\* of mmal_queue.c holds for every number of readers and writers.
THEOREM ClaimAlwaysFindsBuffer == QueueSpec => []ClaimFindsBuffer
<1>1. QueueInv => ClaimFindsBuffer
  <2> SUFFICES ASSUME QueueInv, NEW t \in Users, pc[t] = "claimed"
               PROVE  items # <<>>
    BY DEF ClaimFindsBuffer
  <2>1. IsFiniteSet(ThreadsAt({"claimed"})) /\ IsFiniteSet(ThreadsAt({"linked"}))
    BY QueueFiniteAssumption, FS_Subset DEF ThreadsAt, Users
  <2>2. /\ Cardinality(ThreadsAt({"claimed"})) \in Nat
        /\ Cardinality(ThreadsAt({"linked"})) \in Nat
    BY <2>1, FS_CardinalityType
  <2>3. ThreadsAt({"claimed"}) # {}
    BY DEF ThreadsAt
  <2>4. Cardinality(ThreadsAt({"claimed"})) # 0
    BY <2>1, <2>3, FS_EmptySet
  <2>5. sem \in Nat
    BY DEF QueueInv, QueueTypeOK
  <2>6. Len(items) # 0
    BY <2>2, <2>4, <2>5 DEF QueueInv, ClaimsBacked, Claimed, Linked
  <2> QED
    BY <2>6
<1> QED
  BY <1>1, QueueInvariance, PTL

-----------------------------------------------------------------------------
\* No buffer in two places, action by action.
LEMMA OwnerPut ==
  ASSUME QueueInv, OneOwner, NEW t \in Producers, NEW b \in Buffers,
         NEW l \in {"put", "putback"}, PutCount(t, b, l)
  PROVE  OneOwner'
  BY DEF QueueInv, QueueTypeOK, OneOwner, PutCount, Owned, InQueue, Users

\* A buffer that is linked at either end was in the hands of its writer alone.
LEMMA OwnerLink ==
  ASSUME QueueInv, OneOwner, NEW t \in Producers, NEW l \in {"put", "putback"},
         NEW STATE list, Link(t, l, list),
         \/ list = Append(items, buf[t])
         \/ list = <<buf[t]>> \o items
  PROVE  OneOwner'
<1>0. t \in Users /\ buf[t] \in Buffers /\ buf[t] # NoBuffer
  BY ThreadsAssumption DEF Users, QueueInv, HandInv, Link
<1>1. items \in Seq(Buffers) /\ Len(items) \in Nat
  BY DEF QueueInv, QueueTypeOK
<1>2. \A i \in 1..Len(items) : items[i] # buf[t]
  BY <1>0 DEF OneOwner, InQueue
<1>3. Len(list) = Len(items) + 1
  BY <1>0, <1>1
<1>4. \A i \in 1..Len(list) : list[i] = buf[t] \/ \E k \in 1..Len(items) : list[i] = items[k]
  <2>1. CASE list = Append(items, buf[t])
    BY <1>0, <1>1, <1>3, <2>1
  <2>2. CASE list = <<buf[t]>> \o items
    <3>1. list[1] = buf[t] /\ \A i \in 2..Len(list) : list[i] = items[i - 1] /\ i - 1 \in 1..Len(items)
      BY <1>0, <1>1, <1>3, <2>2
    <3>2. \A i \in 1..Len(list) : i = 1 \/ i \in 2..Len(list)
      BY <1>1, <1>3
    <3> QED
      BY <3>1, <3>2
  <2> QED
    BY <2>1, <2>2
<1>5. \A i, j \in 1..Len(list) : list[i] = list[j] => i = j
  <2>1. CASE list = Append(items, buf[t])
    BY <1>0, <1>1, <1>2, <1>3, <2>1 DEF OneOwner
  <2>2. CASE list = <<buf[t]>> \o items
    <3>1. list[1] = buf[t] /\ \A i \in 2..Len(list) : list[i] = items[i - 1] /\ i - 1 \in 1..Len(items)
      BY <1>0, <1>1, <1>3, <2>2
    <3>2. \A i \in 2..Len(list) : list[i] # buf[t]
      BY <1>2, <3>1
    <3>3. \A i, j \in 1..Len(items) : items[i] = items[j] => i = j
      BY DEF OneOwner
    <3>4. \A i, j \in 2..Len(list) : list[i] = list[j] => i - 1 = j - 1
      BY <3>1, <3>3
    <3>5. \A i, j \in 2..Len(list) : i - 1 = j - 1 => i = j
      BY <1>1, <1>3
    <3>6. \A i \in 1..Len(list) : i = 1 \/ i \in 2..Len(list)
      BY <1>1, <1>3
    <3> QED
      BY <3>1, <3>2, <3>4, <3>5, <3>6
  <2> QED
    BY <2>1, <2>2
<1>6. items' = list /\ buf' = [buf EXCEPT ![t] = NoBuffer] /\ buf \in [Users -> Buffers \cup {NoBuffer}]
  BY DEF Link, QueueInv, QueueTypeOK
<1>7. \A u \in Users : buf'[u] # NoBuffer => buf'[u] = buf[u] /\ u # t
  BY <1>0, <1>6
<1>8. \A u \in Users : buf'[u] # NoBuffer =>
        buf[u] # buf[t] /\ \A i \in 1..Len(items) : items[i] # buf[u]
  BY <1>0, <1>7 DEF OneOwner, InQueue
<1>9. \A u \in Users : buf'[u] # NoBuffer => ~InQueue(buf[u])'
  BY <1>4, <1>6, <1>7, <1>8 DEF InQueue
<1>10. \A u, v \in Users : buf'[u] = buf'[v] /\ buf'[u] # NoBuffer => u = v
  BY <1>7 DEF OneOwner
<1> QED
  BY <1>5, <1>6, <1>9, <1>10 DEF OneOwner, InQueue

\* The head passes from the list into the hands of one reader.
LEMMA OwnerGet ==
  ASSUME QueueInv, OneOwner, NEW t \in Consumers, GetCore(t)
  PROVE  OneOwner'
<1>0. t \in Users /\ buf \in [Users -> Buffers \cup {NoBuffer}]
  BY DEF Users, QueueInv, QueueTypeOK
<1>1. items \in Seq(Buffers) /\ items # <<>> /\ Len(items) \in Nat \ {0}
  BY DEF QueueInv, QueueTypeOK, GetCore
<1>2. /\ Len(Tail(items)) = Len(items) - 1
      /\ \A i \in 1..Len(Tail(items)) : Tail(items)[i] = items[i + 1] /\ i + 1 \in 2..Len(items)
  BY <1>1
<1>3. Head(items) = items[1] /\ 1 \in 1..Len(items)
  BY <1>1
<1>4. items' = Tail(items) /\ buf' = [buf EXCEPT ![t] = items[1]]
  BY <1>3 DEF GetCore
<1>5. \A i, j \in 1..Len(items) : items[i] = items[j] => i = j
  BY DEF OneOwner
<1>6. \A i, j \in 1..Len(items') : items'[i] = items'[j] => i = j
  BY <1>1, <1>2, <1>4, <1>5
<1>7. \A i \in 1..Len(items') : items'[i] # items[1]
  BY <1>1, <1>2, <1>3, <1>4, <1>5
<1>8. \A u \in Users : buf[u] # NoBuffer =>
        \A i \in 1..Len(items) : items[i] # buf[u]
  BY DEF OneOwner, InQueue
<1>9. \A u \in Users : u # t /\ buf[u] # NoBuffer =>
        buf[u] # items[1] /\ \A i \in 1..Len(items') : items'[i] # buf[u]
  BY <1>1, <1>2, <1>3, <1>4, <1>8
<1>10. \A u \in Users : buf'[u] # NoBuffer => \A i \in 1..Len(items') : items'[i] # buf'[u]
  BY <1>0, <1>4, <1>7, <1>9
<1>11. \A u, v \in Users : buf'[u] = buf'[v] /\ buf'[u] # NoBuffer => u = v
  BY <1>0, <1>4, <1>9 DEF OneOwner
<1> QED
  BY <1>6, <1>10, <1>11 DEF OneOwner, InQueue

LEMMA OwnerStep ==
  ASSUME QueueInv, OneOwner, [QueueNext]_queueVars
  PROVE  OneOwner'
<1>1. ASSUME NEW t \in Producers, ProducerCall(t)
      PROVE  OneOwner'
  BY <1>1, OwnerPut DEF ProducerCall
<1>2. ASSUME NEW t \in Producers, PutLink(t) \/ PutBackLink(t)
      PROVE  OneOwner'
  BY <1>2, OwnerLink DEF PutLink, PutBackLink
<1>3. ASSUME NEW t \in Consumers, GetCore(t)
      PROVE  OneOwner'
  BY <1>3, OwnerGet
<1>4. ASSUME NEW t \in Consumers, GetUnlock(t)
      PROVE  OneOwner'
  BY <1>4 DEF QueueInv, QueueTypeOK, OneOwner, GetUnlock, InQueue, Users
<1>5. ASSUME UNCHANGED <<items, buf>>
      PROVE  OneOwner'
  BY <1>5 DEF OneOwner, InQueue
<1>6. ASSUME NEW t \in Producers, PutPost(t) \/ PutUnlock(t)
      PROVE  OneOwner'
  BY <1>5, <1>6 DEF PutPost, PutUnlock
<1>7. ASSUME NEW t \in Consumers,
             ConsumerCall(t) \/ WaitWake(t) \/ TimedWake(t) \/ Timeout(t)
      PROVE  OneOwner'
  BY <1>5, <1>7 DEF ConsumerCall, GetTry, GetMiss, ReadLength, WaitBegin, WaitWake,
                    TimedWake, Timeout, Claim
<1> QED
  BY <1>1, <1>2, <1>3, <1>4, <1>5, <1>6, <1>7
     DEF QueueNext, ProducerStep, ConsumerStep, queueVars

\* A buffer is in one place at a time: in the list or in the hands of one
\* thread inside an operation, for any number of threads and buffers.
THEOREM EachBufferOnce == QueueSpec => []OneOwner
<1>1. QueueInit => OneOwner
  BY DEF QueueInit, OneOwner, InQueue
<1> QED
  BY <1>1, OwnerStep, QueueInvariance, PTL DEF QueueSpec

-----------------------------------------------------------------------------
\* The refinement: a step of the queue is a step of the abstract one or none.
LEMMA AbstractInit == QueueInit => Abstract!Init
<1> SUFFICES ASSUME QueueInit PROVE Abstract!Init
  OBVIOUS
<1>1. ThreadsAt({"claimed"}) = {}
  BY DEF ThreadsAt, QueueInit
<1>2. Claimed = 0
  BY <1>1, FS_EmptySet, Zenon DEF Claimed
<1> QED
  BY <1>2 DEF QueueInit, Abstract!Init

LEMMA AbstractStep ==
  ASSUME QueueInv, OneOwner, [QueueNext]_queueVars
  PROVE  [Abstract!Next]_(Abstract!vars)
<1>1. ASSUME UNCHANGED <<items, Claimed>>
      PROVE  UNCHANGED Abstract!vars
  BY <1>1 DEF Abstract!vars
<1>2. ASSUME NEW t \in Producers, NEW l \in {"put", "putback"}, NEW STATE list, Link(t, l, list)
      PROVE  Claimed' = Claimed /\ buf[t] \in Buffers /\ ~InQueue(buf[t]) /\ items' = list
  <2>1. t \in Users /\ "linked" \in Labels /\ QueueTypeOK /\ MovesTo(t, "linked") /\ pc[t] = l
    BY <1>2 DEF Users, Labels, QueueInv, Link
  <2>2. Claimed' = Claimed
    BY <2>1, Counts
  <2>3. buf[t] \in Buffers
    BY <2>1 DEF QueueInv, HandInv
  <2>4. ~InQueue(buf[t])
    BY <2>1, <2>3, ThreadsAssumption DEF OneOwner
  <2> QED
    BY <1>2, <2>2, <2>3, <2>4 DEF Link
<1>3. ASSUME NEW t \in Producers, PutLink(t)
      PROVE  Abstract!Next
  BY <1>2, <1>3 DEF PutLink, Abstract!Next, Abstract!Put, Abstract!Fresh, InQueue
<1>4. ASSUME NEW t \in Producers, PutBackLink(t)
      PROVE  Abstract!Next
  BY <1>2, <1>4 DEF PutBackLink, Abstract!Next, Abstract!PutBack, Abstract!Fresh, InQueue
<1>5. ASSUME NEW t \in Consumers, NEW l \in {"idle", "waiting", "timed"}, Claim(t, l)
      PROVE  Abstract!Next
  <2>1. t \in Users /\ "claimed" \in Labels /\ QueueTypeOK /\ MovesTo(t, "claimed")
    BY <1>5 DEF Users, Labels, QueueInv, Claim
  <2>2. Claimed \in Nat /\ Linked \in Nat /\ Claimed' = Claimed + 1
    BY <1>5, <2>1, Counts DEF Claim
  <2>3. sem \in Nat /\ sem > 0 /\ Len(items) = sem + Claimed + Linked /\ items' = items
    BY <1>5 DEF QueueInv, QueueTypeOK, ClaimsBacked, Claim
  <2>4. Claimed < Len(items)
    BY <2>2, <2>3
  <2> QED
    BY <2>2, <2>3, <2>4 DEF Abstract!Next, Abstract!Promise
<1>6. ASSUME NEW t \in Consumers, GetCore(t)
      PROVE  Abstract!Next
  <2>1. t \in Users /\ "taken" \in Labels /\ QueueTypeOK /\ MovesTo(t, "taken")
    BY <1>6 DEF Users, Labels, QueueInv, GetCore
  <2>2. Claimed \in Nat /\ Claimed' \in Nat /\ Claimed = Claimed' + 1
    BY <1>6, <2>1, Counts DEF GetCore
  <2>3. \A n, m \in Nat : n = m + 1 => n > 0 /\ m = n - 1
    OBVIOUS
  <2>4. Claimed > 0 /\ Claimed' = Claimed - 1
    BY <2>2, <2>3, Zenon
  <2> QED
    BY <1>6, <2>4 DEF GetCore, Abstract!Next, Abstract!Take
<1>7. ASSUME NEW t \in Users, NEW l \in Labels, MovesTo(t, l), UNCHANGED items,
             pc[t] # "claimed", l # "claimed"
      PROVE  UNCHANGED Abstract!vars
  BY <1>1, <1>7, Counts DEF QueueInv
<1>8. ASSUME UNCHANGED <<items, pc>>
      PROVE  UNCHANGED Abstract!vars
  BY <1>1, <1>8, StayCounts
<1>9. ASSUME NEW t \in Producers, ProducerCall(t) \/ PutPost(t) \/ PutUnlock(t)
      PROVE  UNCHANGED Abstract!vars
  BY <1>7, <1>9 DEF ProducerCall, PutCount, PutPost, PutUnlock, Users, Labels
<1>10. ASSUME NEW t \in Consumers,
              \/ \E l \in {"waiting", "timed"} : WaitBegin(t, l)
              \/ Timeout(t) \/ GetUnlock(t)
       PROVE  UNCHANGED Abstract!vars
  BY <1>7, <1>10 DEF WaitBegin, Timeout, GetUnlock, Users, Labels
<1>11. ASSUME NEW t \in Consumers, GetMiss(t) \/ ReadLength(t)
       PROVE  UNCHANGED Abstract!vars
  BY <1>8, <1>11 DEF GetMiss, ReadLength
<1>12. ASSUME NEW t \in Consumers, GetTry(t) \/ WaitWake(t) \/ TimedWake(t)
       PROVE  Abstract!Next
  BY <1>5, <1>12 DEF GetTry, WaitWake, TimedWake
<1>13. ASSUME UNCHANGED queueVars
       PROVE  UNCHANGED Abstract!vars
  BY <1>8, <1>13 DEF queueVars
<1> QED
  BY <1>3, <1>4, <1>6, <1>9, <1>10, <1>11, <1>12, <1>13
     DEF QueueNext, ProducerStep, ConsumerCall, ConsumerStep

\* The queue implements the abstract one: buffers leave it in order, and a
\* reader is promised only what is there.
THEOREM ImplementsQueue == QueueSpec => AbstractQueue
  BY AbstractInit, AbstractStep, QueueInvariance, EachBufferOnce, PTL
     DEF QueueSpec, AbstractQueue, Abstract!Spec
=============================================================================
