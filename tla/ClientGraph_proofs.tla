-------------------------- MODULE ClientGraph_proofs --------------------------
(***************************************************************************)
(* Proofs about connections and graphs (module ClientGraph): until a       *)
(* format change is handled where nothing protects it, every header is in  *)
(* one place, a connection is quiet when it is destroyed but for a late    *)
(* report of an event, and the worker does not sleep on work.              *)
(***************************************************************************)
EXTENDS ClientGraph, FiniteSetTheorems, SequenceTheorems, TLAPS

\* The frames of each call of the code.
Disabling == {"disable", "stop in", "wait in", "stop out", "wait out", "flush"}
Stopping  == Disabling \ {"disable"}
Starting  == {"start out", "start in", "undo out", "wait undo", "failed"}
Control   == Disabling \cup Starting \cup {"enable"}
Waiting   == {"wait in", "wait out", "wait undo", "flush"}
Returns   == {"return in", "return out"}
Carrying  == {"process", "empty"}
FrameType == [k : Control \cup Returns \cup Carrying \cup {"callback", "event"}, c : Conns,
              b : Headers \cup {Event}]

Frames(t) == ToSet(stack[t])
Below(t)  == ToSet(Tail(stack[t]))
Carriers(h) == {t \in Threads : \E f \in Frames(t) : f.k \in Carrying /\ f.b = h}
Calls(c)  == {t \in Threads : Cb(c) \in Frames(t)}
InCall(K, c) == \E t \in Threads : \E f \in Frames(t) : f.k \in K /\ f.c = c

Work == [at : {"none", "wait", "exited", "empties", "sending", "fulls"},
         i : 1..(NumConns + 1), again : BOOLEAN]
Types ==
  /\ on \in [Ports -> BOOLEAN] /\ held \in [Ports -> SUBSET Headers]
  /\ poolq \in [Conns -> Seq(Headers)] /\ connq \in [Conns -> Seq(Headers \cup {Event})]
  /\ enabled \in [Conns -> BOOLEAN] /\ alive \in [Conns -> BOOLEAN]
  /\ fits \in [Conns -> BOOLEAN] /\ refused \subseteq Conns
  /\ fwd \in [Conns -> Nat] /\ skipped \subseteq Conns /\ rash \in BOOLEAN
  /\ sema \in 0..MaxSema /\ stop \in BOOLEAN /\ current \in 0..(NumConns - 1)
  /\ stack \in [Threads -> Seq(FrameType)] /\ work \in Work
  /\ app \in {"off", "enabling", "failed", "on", "joining", "failing", "disabling",
              "destroying"}
  /\ index \in 1..(NumConns + 1)
  /\ budget \in [{"enables", "faults"} -> Nat]

\* Which frame may stand on which: f is called, at whatever depth, from g.
Above(f, g) ==
  /\ f.c = g.c
  /\ g.k \in Returns \cup Control
  /\ f.k \in Returns => g.k \in Control
  /\ f.k \in Control => \/ f.k \in Disabling /\ g.k = "enable"
                        \/ f.k \in {"undo out", "wait undo"} /\ g.k = "failed"
  /\ f.k \notin {"empty", "event"}
  /\ f.k = "process" /\ f.b = Event => f.c \in Direct
Ordered(s) == \A i, j \in DOMAIN s : i < j => Above(s[i], s[j])

\* What a frame says of its thread and its buffer.
FrameFits(t, f) ==
  /\ f.k \in {"callback", "event"} => f.b = Event
  /\ f.k \in Returns \cup Carrying /\ f.b # Event => Home[f.b] = f.c
  /\ f.k \in Returns \cup {"empty"} => f.b # Event
  /\ f.k = "empty" => t = "worker"
  /\ f.k # "empty" /\ t = "worker" => f.c \notin Direct
  /\ f.k = "process" /\ f.b = Event => f.c \in Direct \/ t = "worker"
  /\ f.k = "event" => t \in CompThreads
  /\ f.k \in Control => t \notin CompThreads

\* The frames of the report of an event, which no return of a header is under.
Late(f) == f.k \in {"event", "callback", "process"} /\ f.b = Event

\* Callbacks are made from a return or for an event, on the thread of a component,
\* and from a call that waits, on that of the client.
FrameInv ==
  /\ \A t \in Threads : Ordered(stack[t]) /\ \A f \in Frames(t) : FrameFits(t, f)
  /\ \A t \in CompThreads :
       \/ \E f \in Frames(t) : f.k \in Returns
       \/ \A f \in Frames(t) : Late(f)
  /\ Frames("app") # {} => \E f \in Frames("app") : f.k \in Control
  /\ \A f \in Frames("app") : f.k \notin Control => \E g \in Frames("app") : g.k \in Waiting

\* Where a header is.
Alone(h) ==
  LET c == Home[h]
  IN /\ h \in ToSet(poolq[c]) => /\ h \notin ToSet(connq[c]) /\ h \notin held[Out(c)]
                                 /\ h \notin held[In(c)] /\ Carriers(h) = {}
     /\ h \in ToSet(connq[c]) => /\ h \notin held[Out(c)] /\ h \notin held[In(c)]
                                 /\ Carriers(h) = {}
     /\ h \in held[Out(c)] => h \notin held[In(c)] /\ Carriers(h) = {}
     /\ h \in held[In(c)] => Carriers(h) = {}
     /\ \A t, u \in Carriers(h) : t = u
Somewhere(h) ==
  LET c == Home[h]
  IN \/ h \in ToSet(poolq[c]) \/ h \in ToSet(connq[c])
     \/ h \in held[Out(c)] \/ h \in held[In(c)] \/ Carriers(h) # {}
Once(s) == \A i, j \in DOMAIN s : s[i] = s[j] /\ s[i] # Event => i = j
Bare(s) == ToSet(s) \subseteq {Event}
PlaceInv ==
  /\ \A p \in Ports : held[p] \subseteq Of(p[1])
  /\ \A c \in Conns : /\ ToSet(poolq[c]) \subseteq Of(c)
                      /\ ToSet(connq[c]) \subseteq Of(c) \cup {Event}
                      /\ Once(poolq[c]) /\ Once(connq[c])
  /\ \A h \in Headers : Alone(h)
  /\ \A h \in Headers : fits[Home[h]] \/ enabled[Home[h]] => Somewhere(h)
  /\ \A c \in Conns : ~fits[c] /\ ~enabled[c] => Bare(connq[c])

\* Nothing is in a port or on its way back from it.
QuietIn(c)  == held[In(c)] = {} /\ fwd[c] = 0 /\ ~InCall({"return in"}, c)
QuietOut(c) == held[Out(c)] = {} /\ ~InCall({"return out"}, c)

\* What the calls in progress have done, and what they have waited for.
CallFits(f) ==
  /\ f.k \in Stopping => enabled[f.c]
  /\ f.k \in Starting => ~enabled[f.c] /\ fits[f.c]
  /\ f.k \in {"wait in", "stop out", "wait out", "flush"} => ~on[In(f.c)]
  /\ f.k \in {"stop out", "wait out", "flush"} => QuietIn(f.c)
  /\ f.k \in {"wait out", "flush"} => ~on[Out(f.c)]
  /\ f.k = "flush" => QuietOut(f.c)
CallInv == \A t \in Threads : \A f \in Frames(t) : CallFits(f)

PortFits(c) ==
  /\ on[In(c)] => enabled[c]
  /\ on[Out(c)] => enabled[c] \/ InCall({"start in", "undo out"}, c)
  /\ ~QuietIn(c) => on[In(c)] \/ InCall({"wait in"}, c)
  /\ ~QuietOut(c) => on[Out(c)] \/ InCall({"wait out", "wait undo"}, c)
PortInv == \A c \in Conns : PortFits(c)

\* The client and the worker: who is where when, and that no connection that has
\* yet to be enabled is in the hands of the worker.
Ahead == IF app = "off" THEN 1 ELSE IF Idle("app") THEN index ELSE index - 1
Untouched(c) ==
  /\ ~enabled[c]
  /\ \A f \in Frames("worker") : f.k \in Control => f.c # c
  /\ ~fits[c] => poolq[c] = <<>> /\ \A f \in Frames("worker") : f.b # Event => f.c # c
PhaseInv ==
  /\ work.at = "none" <=> app \in {"off", "disabling", "destroying"}
  /\ work.at = "exited" => stop
  /\ app \in {"joining", "failing", "disabling"} => stop
  /\ app \in {"enabling", "failed"} /\ work.at \in {"empties", "sending", "fulls"} => ~stop
  /\ Frames("worker") # {} => work.at \in {"sending", "fulls"} /\ work.i <= NumConns
  /\ \A f \in Frames("worker") : f.k = "empty" <=> work.at = "sending"
  /\ work.at = "sending" => \E f \in Frames("worker") : f.k = "empty" /\ f.c = Visit(work.i)
  /\ work.at = "fulls" /\ Frames("worker") # {} => work.again
  /\ Frames("app") # {} => app \in {"enabling", "disabling", "destroying"} /\ index > 1
  /\ \A f \in Frames("app") : /\ f.c = index - 1
                              /\ app = "enabling" => f.k \notin Disabling
                              /\ app # "enabling" => f.k \notin Starting \cup {"enable"}
  /\ ~stop /\ app \in {"off", "enabling"} =>
       \A c \in Conns : c >= Ahead => Untouched(c)
DestroyInv ==
  /\ app = "destroying" /\ Idle("app") /\ index > 1 => ~enabled[index - 1]
  /\ \A c \in Conns : ~alive[c] => /\ app = "destroying" /\ ~enabled[c] /\ c < index
                                   /\ Frames("app") # {} => c < index - 1

\* Who will see to what waits in a queue of connection c.
ToVisit(c) == \E i \in work.i..NumConns : Visit(i) = c
Pending(c) ==
  \/ sema > 0
  \/ IF c \in Direct THEN Len(connq[c]) < Cardinality(Calls(c)) ELSE Calls(c) # {}
Again == work.at = "fulls" /\ work.again
Wakes(c) ==
  /\ c \in Direct => Len(connq[c]) <= Cardinality(Calls(c))
  /\ ~stop /\ c \notin Direct /\ c \notin skipped /\ connq[c] # <<>> =>
       \/ Pending(c) \/ Again \/ work.at \in {"empties", "sending"}
       \/ work.at = "fulls" /\ ToVisit(c)
  /\ ~stop /\ app = "on" /\ on[Out(c)] /\ c \notin refused /\ poolq[c] # <<>> =>
       \/ Pending(c) \/ Again
       \/ work.at \in {"empties", "sending"} /\ ToVisit(c)
WakeInv == \A c \in Conns : Wakes(c)

IInv == /\ Types /\ FrameInv /\ PlaceInv /\ CallInv /\ PortInv /\ PhaseInv /\ DestroyInv
        /\ WakeInv

-----------------------------------------------------------------------------
\* Sequences.
LEMMA SeqIs ==
  ASSUME NEW S, NEW s \in Seq(S)
  PROVE  /\ Len(s) \in Nat /\ DOMAIN s = 1..Len(s) /\ ToSet(s) \subseteq S
         /\ s = <<>> <=> Len(s) = 0
         /\ ToSet(s) = {} <=> s = <<>>
<1>1. Len(s) \in Nat /\ DOMAIN s = 1..Len(s) /\ \A i \in 1..Len(s) : s[i] \in S
  OBVIOUS
<1>2. ToSet(s) \subseteq S
  BY <1>1 DEF ToSet
<1>3. s = <<>> <=> Len(s) = 0
  BY EmptySeq
<1>4. Len(s) = 0 => ToSet(s) = {}
  BY <1>1 DEF ToSet
<1>5. Len(s) # 0 => s[1] \in ToSet(s)
  BY <1>1 DEF ToSet
<1> QED
  BY <1>1, <1>2, <1>3, <1>4, <1>5

LEMMA HeadTailIs ==
  ASSUME NEW S, NEW s \in Seq(S), s # <<>>
  PROVE  LET r == Tail(s)  h == Head(s)
         IN /\ h \in S /\ r \in Seq(S) /\ ToSet(s) = {h} \cup ToSet(r) /\ Len(r) = Len(s) - 1
            /\ Once(s) => Once(r) /\ (h # Event => h \notin ToSet(r))
            /\ Ordered(s) => Ordered(r) /\ \A g \in ToSet(r) : Above(h, g)
<1> DEFINE r == Tail(s)  h == Head(s)
<1>1. Len(s) \in Nat \ {0} /\ DOMAIN s = 1..Len(s) /\ h = s[1]
  BY EmptySeq
<1>2. /\ r \in Seq(S) /\ h \in S /\ DOMAIN r = 1..Len(s) - 1 /\ Len(r) = Len(s) - 1
      /\ \A i \in 1..Len(s) - 1 : r[i] = s[i + 1]
  BY <1>1, HeadTailProperties
<1> HIDE DEF r, h
<1>3. \A i \in 1..Len(s) - 1 : i + 1 \in 1..Len(s) /\ i + 1 # 1 /\ 1 < i + 1
  BY <1>1
<1>4. \A i \in 1..Len(s) : i = 1 \/ (i - 1 \in 1..Len(s) - 1 /\ (i - 1) + 1 = i)
  BY <1>1
<1>5. \A x \in ToSet(r) : \E i \in 1..Len(s) - 1 : x = s[i + 1]
  BY <1>2 DEF ToSet
<1>6. ToSet(s) = {h} \cup ToSet(r)
  <2>1. \A i \in 1..Len(s) - 1 : r[i] \in ToSet(s)
    BY <1>1, <1>2, <1>3 DEF ToSet
  <2>2. \A x \in ToSet(r) : x \in ToSet(s)
    BY <1>2, <2>1 DEF ToSet
  <2>3. ASSUME NEW x \in ToSet(s), x # h PROVE x \in ToSet(r)
    <3>1. PICK i \in 1..Len(s) : s[i] = x
      BY <1>1 DEF ToSet
    <3>2. i - 1 \in 1..Len(s) - 1 /\ r[i - 1] = x
      BY <1>1, <1>2, <1>4, <2>3, <3>1
    <3> QED
      BY <1>2, <3>2 DEF ToSet
  <2>4. h \in ToSet(s)
    BY <1>1 DEF ToSet
  <2> QED
    BY <2>2, <2>3, <2>4
<1>7. ASSUME Once(s) PROVE Once(r) /\ (h # Event => h \notin ToSet(r))
  <2>1. h # Event => h \notin ToSet(r)
    BY <1>1, <1>3, <1>5, <1>7 DEF Once
  <2>2. ASSUME NEW i \in 1..Len(s) - 1, NEW j \in 1..Len(s) - 1, r[i] = r[j], r[i] # Event
        PROVE  i = j
    <3>1. i + 1 = j + 1
      BY <1>1, <1>2, <1>3, <1>7, <2>2 DEF Once
    <3> QED
      BY <3>1
  <2> QED
    BY <1>2, <2>1, <2>2 DEF Once
<1>8. ASSUME Ordered(s) PROVE Ordered(r) /\ \A g \in ToSet(r) : Above(h, g)
  <2>1. \A g \in ToSet(r) : Above(h, g)
    BY <1>1, <1>3, <1>5, <1>8 DEF Ordered
  <2>2. ASSUME NEW i \in 1..Len(s) - 1, NEW j \in 1..Len(s) - 1, i < j PROVE Above(r[i], r[j])
    <3>1. i + 1 < j + 1 /\ i + 1 \in DOMAIN s /\ j + 1 \in DOMAIN s
      BY <1>1, <1>3, <2>2
    <3> QED
      BY <1>2, <1>8, <3>1 DEF Ordered
  <2> QED
    BY <1>2, <2>1, <2>2 DEF Ordered
<1> QED
  BY <1>2, <1>6, <1>7, <1>8 DEF r, h

LEMMA ConcatIs ==
  ASSUME NEW S, NEW f \in Seq(S), NEW s \in Seq(S)
  PROVE  LET r == f \o s
         IN /\ r \in Seq(S) /\ ToSet(r) = ToSet(f) \cup ToSet(s) /\ Len(r) = Len(f) + Len(s)
            /\ Once(f) /\ Once(s) /\ (\A x \in ToSet(f) : x \notin ToSet(s) \/ x = Event) => Once(r)
            /\ /\ Ordered(f) /\ Ordered(s)
               /\ \A x \in ToSet(f), y \in ToSet(s) : Above(x, y)
               => Ordered(r)
<1> DEFINE r == f \o s
<1>1. /\ Len(s) \in Nat /\ Len(f) \in Nat /\ DOMAIN s = 1..Len(s) /\ DOMAIN f = 1..Len(f)
      /\ r \in Seq(S) /\ DOMAIN r = 1..Len(f) + Len(s) /\ Len(r) = Len(f) + Len(s)
      /\ \A i \in 1..Len(f) + Len(s) : r[i] = IF i <= Len(f) THEN f[i] ELSE s[i - Len(f)]
  BY ConcatProperties
<1> HIDE DEF r
<1>2. \A i \in 1..Len(f) : i \in DOMAIN r /\ r[i] = f[i] /\ f[i] \in ToSet(f)
  BY <1>1 DEF ToSet
<1>3. \A i \in 1..Len(s) : Len(f) + i \in DOMAIN r /\ r[Len(f) + i] = s[i] /\ s[i] \in ToSet(s)
  <2>1. \A i \in 1..Len(s) : /\ (Len(f) + i) - Len(f) = i /\ ~(Len(f) + i <= Len(f))
                             /\ Len(f) + i \in 1..Len(f) + Len(s)
    BY <1>1
  <2> QED
    BY <1>1, <2>1 DEF ToSet
<1>4. \A i \in DOMAIN r : i \in 1..Len(f) \/ \E j \in 1..Len(s) : i = Len(f) + j
  <2> TAKE i \in DOMAIN r
  <2>1. CASE i > Len(f)
    <3>1. i - Len(f) \in 1..Len(s) /\ i = Len(f) + (i - Len(f))
      BY <1>1, <2>1
    <3> QED
      BY <3>1
  <2>2. CASE ~(i > Len(f))
    <3>1. i \in 1..Len(f)
      BY <1>1, <2>2
    <3> QED
      BY <3>1
  <2> QED
    BY <2>1, <2>2
<1>5. ToSet(r) = ToSet(f) \cup ToSet(s)
  <2>1. (\A i \in 1..Len(f) : f[i] \in ToSet(r)) /\ \A i \in 1..Len(s) : s[i] \in ToSet(r)
    BY <1>2, <1>3 DEF ToSet
  <2>2. (\A x \in ToSet(f) : x \in ToSet(r)) /\ \A x \in ToSet(s) : x \in ToSet(r)
    BY <1>1, <2>1 DEF ToSet
  <2>3. \A i \in DOMAIN r : r[i] \in ToSet(f) \cup ToSet(s)
    BY <1>2, <1>3, <1>4
  <2>4. \A x \in ToSet(r) : x \in ToSet(f) \cup ToSet(s)
    BY <2>3 DEF ToSet
  <2> QED
    BY <2>2, <2>4
<1>6. ASSUME Once(f), Once(s), \A x \in ToSet(f) : x \notin ToSet(s) \/ x = Event
      PROVE  Once(r)
  <2> SUFFICES ASSUME NEW i \in DOMAIN r, NEW j \in DOMAIN r, r[i] = r[j], r[i] # Event
               PROVE  i = j
    BY DEF Once
  <2>1. CASE i \in 1..Len(f) /\ j \in 1..Len(f)
    BY <1>1, <1>2, <1>6, <2>1 DEF Once
  <2>2. CASE (\E k \in 1..Len(s) : i = Len(f) + k) /\ \E k \in 1..Len(s) : j = Len(f) + k
    <3>1. PICK k, l \in 1..Len(s) : i = Len(f) + k /\ j = Len(f) + l
      BY <2>2
    <3> QED
      BY <1>1, <1>3, <1>6, <3>1 DEF Once
  <2>3. CASE i \in 1..Len(f) /\ \E k \in 1..Len(s) : j = Len(f) + k
    <3>1. r[i] \in ToSet(f) /\ r[j] \in ToSet(s)
      BY <1>2, <1>3, <2>3
    <3> QED
      BY <1>6, <3>1
  <2>4. CASE j \in 1..Len(f) /\ \E k \in 1..Len(s) : i = Len(f) + k
    <3>1. r[j] \in ToSet(f) /\ r[i] \in ToSet(s)
      BY <1>2, <1>3, <2>4
    <3> QED
      BY <1>6, <3>1
  <2> QED
    BY <1>4, <2>1, <2>2, <2>3, <2>4
<1>7. ASSUME Ordered(f), Ordered(s), \A x \in ToSet(f), y \in ToSet(s) : Above(x, y)
      PROVE  Ordered(r)
  <2> SUFFICES ASSUME NEW i \in DOMAIN r, NEW j \in DOMAIN r, i < j PROVE Above(r[i], r[j])
    BY DEF Ordered
  <2>1. CASE i \in 1..Len(f) /\ j \in 1..Len(f)
    BY <1>1, <1>2, <1>7, <2>1 DEF Ordered
  <2>2. CASE i \in 1..Len(f) /\ \E k \in 1..Len(s) : j = Len(f) + k
    BY <1>2, <1>3, <1>7, <2>2
  <2>3. CASE (\E k \in 1..Len(s) : i = Len(f) + k) /\ \E k \in 1..Len(s) : j = Len(f) + k
    <3>1. PICK k, l \in 1..Len(s) : i = Len(f) + k /\ j = Len(f) + l
      BY <2>3
    <3>2. k < l
      BY <1>1, <3>1
    <3> QED
      BY <1>1, <1>3, <1>7, <3>1, <3>2 DEF Ordered
  <2>4. CASE (\E k \in 1..Len(s) : i = Len(f) + k) /\ j \in 1..Len(f)
    BY <1>1, <2>4
  <2> QED
    BY <1>4, <2>1, <2>2, <2>3, <2>4
<1> QED
  BY <1>1, <1>5, <1>6, <1>7 DEF r

LEMMA ShortIs ==
  ASSUME NEW S
  PROVE  /\ <<>> \in Seq(S) /\ ToSet(<<>>) = {} /\ Once(<<>>) /\ Ordered(<<>>) /\ Len(<<>>) = 0
         /\ \A a \in S : /\ <<a>> \in Seq(S) /\ ToSet(<<a>>) = {a} /\ Once(<<a>>) /\ Ordered(<<a>>)
                         /\ Len(<<a>>) = 1
         /\ \A a, b \in S : /\ <<a, b>> \in Seq(S) /\ ToSet(<<a, b>>) = {a, b}
                            /\ Above(a, b) => Ordered(<<a, b>>)
<1>1. /\ <<>> \in Seq(S) /\ ToSet(<<>>) = {} /\ Once(<<>>) /\ Ordered(<<>>) /\ Len(<<>>) = 0
  BY DEF ToSet, Once, Ordered
<1>2. ASSUME NEW a \in S
      PROVE  /\ <<a>> \in Seq(S) /\ ToSet(<<a>>) = {a} /\ Once(<<a>>) /\ Ordered(<<a>>)
             /\ Len(<<a>>) = 1
  <2>1. DOMAIN <<a>> = {1} /\ <<a>>[1] = a /\ <<a>> \in Seq(S) /\ Len(<<a>>) = 1
    OBVIOUS
  <2> QED
    BY <2>1 DEF ToSet, Once, Ordered
<1>3. ASSUME NEW a \in S, NEW b \in S
      PROVE  /\ <<a, b>> \in Seq(S) /\ ToSet(<<a, b>>) = {a, b}
             /\ Above(a, b) => Ordered(<<a, b>>)
  <2>1. DOMAIN <<a, b>> = {1, 2} /\ <<a, b>>[1] = a /\ <<a, b>>[2] = b /\ <<a, b>> \in Seq(S)
    OBVIOUS
  <2> QED
    BY <2>1 DEF ToSet, Ordered
<1> QED
  BY <1>1, <1>2, <1>3

LEMMA AppendIs ==
  ASSUME NEW S, NEW s \in Seq(S), NEW e \in S
  PROVE  LET r == Append(s, e)
         IN /\ r \in Seq(S) /\ r # <<>> /\ ToSet(r) = ToSet(s) \cup {e} /\ Len(r) = Len(s) + 1
            /\ Once(s) /\ (e \notin ToSet(s) \/ e = Event) => Once(r)
<1>1. /\ <<e>> \in Seq(S) /\ ToSet(<<e>>) = {e} /\ Once(<<e>>) /\ Len(<<e>>) = 1
  BY ShortIs
<1>2. Append(s, e) = s \o <<e>>
  BY AppendIsConcat
<1> DEFINE q == <<e>>  r == s \o q
<1> HIDE DEF q
<1>3. /\ r \in Seq(S) /\ ToSet(r) = ToSet(s) \cup ToSet(q) /\ Len(r) = Len(s) + Len(q)
      /\ Once(s) /\ Once(q) /\ (\A x \in ToSet(s) : x \notin ToSet(q) \/ x = Event) => Once(r)
  <2>1. q \in Seq(S)
    BY <1>1 DEF q
  <2> QED
    BY <2>1, ConcatIs
<1>4. /\ Len(r) = Len(s) + 1 /\ ToSet(r) = ToSet(s) \cup {e}
      /\ Once(s) /\ (e \notin ToSet(s) \/ e = Event) => Once(r)
  BY <1>1, <1>3 DEF q
<1>5. r # <<>>
  BY <1>3, <1>4, SeqIs
<1> QED
  BY <1>2, <1>3, <1>4, <1>5 DEF q

LEMMA PutBackIs ==
  ASSUME NEW S, NEW s \in Seq(S), NEW e \in S
  PROVE  LET r == <<e>> \o s
         IN /\ r \in Seq(S) /\ ToSet(r) = ToSet(s) \cup {e}
            /\ Once(s) /\ e \notin ToSet(s) => Once(r)
<1>1. /\ <<e>> \in Seq(S) /\ ToSet(<<e>>) = {e} /\ Once(<<e>>)
  BY ShortIs
<1> DEFINE q == <<e>>  r == q \o s
<1> HIDE DEF q
<1>2. /\ r \in Seq(S) /\ ToSet(r) = ToSet(q) \cup ToSet(s)
      /\ Once(q) /\ Once(s) /\ (\A x \in ToSet(q) : x \notin ToSet(s) \/ x = Event) => Once(r)
  <2>1. q \in Seq(S)
    BY <1>1 DEF q
  <2> QED
    BY <2>1, ConcatIs
<1> QED
  BY <1>1, <1>2 DEF q

LEMMA SetToSeqIs ==
  ASSUME NEW T, IsFiniteSet(T)
  PROVE  LET f == SetToSeq(T) IN f \in Seq(T) /\ ToSet(f) = T /\ Once(f)
<1> DEFINE n == Cardinality(T)  f == SetToSeq(T)
<1>1. n \in Nat /\ \E g \in [1..n -> T] : IsInjective(g)
  BY FS_CardinalityType DEF ExistsBijection, Bijection, Injection
<1>2. f \in [1..n -> T] /\ IsInjective(f)
  BY <1>1 DEF SetToSeq
<1> HIDE DEF f
<1>3. IsFiniteSet(1..n) /\ Cardinality(1..n) = n
  BY <1>1, FS_Interval
<1>4. f \in Injection(1..n, T)
  BY <1>2 DEF Injection
<1>5. f \in Surjection(1..n, T)
  BY <1>3, <1>4, FS_Injection
<1> HIDE DEF n
<1>6. f \in Seq(T)
  BY <1>1, <1>2, IsASeq
<1>7. ToSet(f) = T
  BY <1>2, <1>5 DEF ToSet, Surjection
<1> QED
  BY <1>2, <1>6, <1>7 DEF Once, IsInjective, f

\* What one element more or less does to a count.
LEMMA CountIs ==
  ASSUME NEW S, IsFiniteSet(S)
  PROVE  /\ Cardinality(S) \in Nat
         /\ Cardinality(S) = 0 <=> S = {}
         /\ \A x : x \notin S => Cardinality(S \cup {x}) = Cardinality(S) + 1
         /\ \A x \in S : Cardinality(S \ {x}) = Cardinality(S) - 1
<1>1. Cardinality(S) \in Nat /\ (Cardinality(S) = 0 <=> S = {})
  BY FS_CardinalityType, FS_EmptySet
<1>2. \A x : x \notin S => Cardinality(S \cup {x}) = Cardinality(S) + 1
  BY FS_AddElement
<1>3. \A x \in S : Cardinality(S \ {x}) = Cardinality(S) - 1
  BY FS_RemoveElement
<1> QED
  BY <1>1, <1>2, <1>3

-----------------------------------------------------------------------------
\* Ports, frames and stacks.
USE DEF flow, history, ctrl

LEMMA PortIs ==
  /\ \A c \in Conns : /\ Out(c) \in Ports /\ In(c) \in Ports /\ Out(c)[1] = c /\ In(c)[1] = c
                      /\ Returning(Out(c)) = "return out" /\ Returning(In(c)) = "return in"
                      /\ Out(c)[2] = "out" /\ In(c)[2] = "in" /\ Thread(Out(c)) \in CompThreads
                      /\ Thread(In(c)) \in CompThreads
  /\ \A c, d \in Conns : Out(c) # In(d) /\ (Out(c) = Out(d) => c = d) /\ (In(c) = In(d) => c = d)
  /\ \A p \in Ports : p[1] \in Conns /\ (p = Out(p[1]) \/ p = In(p[1]))
  /\ CompThreads \subseteq Threads /\ "app" \in Threads /\ "worker" \in Threads
  /\ "app" \notin CompThreads /\ "worker" \notin CompThreads
<1>1. \A c \in Conns : c - 1 \in 0..NumConns /\ c \in 0..NumConns
  BY ConnAssumption DEF Conns
<1>2. \A p \in Ports : p[1] \in Conns /\ (p = Out(p[1]) \/ p = In(p[1]))
  BY DEF Ports, Out, In
<1>3. /\ \A c \in Conns : /\ Out(c) \in Ports /\ In(c) \in Ports /\ Out(c)[1] = c /\ In(c)[1] = c
                          /\ Out(c)[2] = "out" /\ In(c)[2] = "in"
      /\ \A c, d \in Conns : Out(c) # In(d) /\ (Out(c) = Out(d) => c = d) /\ (In(c) = In(d) => c = d)
  BY DEF Ports, Out, In
<1>4. \A c \in Conns : /\ Returning(Out(c)) = "return out" /\ Returning(In(c)) = "return in"
                       /\ Thread(Out(c)) \in CompThreads /\ Thread(In(c)) \in CompThreads
  BY <1>1, <1>3, ThreadAssumption DEF Returning, Thread
<1> QED
  BY <1>2, <1>3, <1>4, ThreadAssumption DEF Threads

\* The threads and the ends of a connection, for the steps that need no more.
LEMMA WhoIs ==
  /\ CompThreads \subseteq Threads /\ "app" \in Threads /\ "worker" \in Threads
  /\ "app" \notin CompThreads /\ "worker" \notin CompThreads
BY ThreadAssumption DEF Threads

LEMMA EndIs ==
  ASSUME NEW c \in Conns
  PROVE  /\ In(c) \in Ports /\ Out(c) \in Ports /\ In(c)[1] = c /\ Out(c)[1] = c
         /\ Out(c) # In(c)
BY DEF Ports, Out, In

LEMMA EndsDiffer ==
  ASSUME NEW c \in Conns, NEW d \in Conns \ {c}
  PROVE  In(d) # In(c) /\ Out(d) # Out(c) /\ In(d) # Out(c) /\ Out(d) # In(c)
BY DEF Out, In

LEMMA ThreadIs ==
  ASSUME NEW p \in Ports
  PROVE  Thread(p) \in CompThreads /\ Thread(p) \in Threads
<1>1. p[1] \in Conns /\ (p = Out(p[1]) \/ p = In(p[1]))
  BY PortIs
<1>2. Thread(Out(p[1])) \in CompThreads /\ Thread(In(p[1])) \in CompThreads
  BY <1>1, PortIs
<1>3. Thread(p) \in CompThreads
  BY <1>1, <1>2
<1> QED
  BY <1>3, WhoIs

LEMMA FrameIs ==
  ASSUME NEW c \in Conns
  PROVE  /\ Cb(c) \in FrameType /\ Cb(c).k = "callback" /\ Cb(c).c = c /\ Cb(c).b = Event
         /\ \A k \in Control \cup {"event"} : /\ Do(k, c) \in FrameType /\ Do(k, c).k = k /\ Do(k, c).c = c
                                             /\ Do(k, c).b = Event
         /\ \A k \in Returns \cup Carrying, b \in Headers \cup {Event} :
              /\ Frame(k, c, b) \in FrameType /\ Frame(k, c, b).k = k /\ Frame(k, c, b).c = c
              /\ Frame(k, c, b).b = b
BY DEF Cb, Do, Frame, FrameType

LEMMA TopIs ==
  ASSUME Types, FrameInv, NEW t \in Threads
  PROVE  /\ Idle(t) <=> Frames(t) = {}
         /\ Frames(t) \subseteq FrameType
         /\ \A f \in Frames(t) : FrameFits(t, f)
         /\ ~Idle(t) => /\ Top(t) \in FrameType /\ Below(t) \subseteq FrameType
                        /\ Frames(t) = {Top(t)} \cup Below(t)
                        /\ \A g \in Below(t) : Above(Top(t), g)
<1>1. stack[t] \in Seq(FrameType) /\ Ordered(stack[t]) /\ \A f \in Frames(t) : FrameFits(t, f)
  BY DEF Types, FrameInv
<1>2. (Idle(t) <=> Frames(t) = {}) /\ Frames(t) \subseteq FrameType
  BY <1>1, SeqIs DEF Idle, Frames
<1>3. ASSUME ~Idle(t)
      PROVE  /\ Top(t) \in FrameType /\ Below(t) \subseteq FrameType
             /\ Frames(t) = {Top(t)} \cup Below(t) /\ \A g \in Below(t) : Above(Top(t), g)
  <2>1. /\ Top(t) \in FrameType /\ Frames(t) = {Top(t)} \cup Below(t)
        /\ \A g \in Below(t) : Above(Top(t), g)
    BY <1>1, <1>3, HeadTailIs DEF Idle, Top, Frames, Below
  <2> QED
    BY <1>2, <2>1
<1> QED
  BY <1>1, <1>2, <1>3

\* A step of thread t that leaves it inside the calls of A.
StackTo(t, A) ==
  /\ stack' \in [Threads -> Seq(FrameType)] /\ \A u \in Threads : Ordered(stack'[u])
  /\ Frames(t)' = A
  /\ \A u \in Threads \ {t} : stack'[u] = stack[u] /\ Frames(u)' = Frames(u)

LEMMA StackStep ==
  ASSUME Types, FrameInv, NEW t \in Threads, NEW r \in Seq(FrameType), Ordered(r),
         stack' = [stack EXCEPT ![t] = r]
  PROVE  StackTo(t, ToSet(r))
<1>1. stack' \in [Threads -> Seq(FrameType)]
  BY DEF Types
<1>2. stack'[t] = r /\ \A u \in Threads \ {t} : stack'[u] = stack[u]
  BY DEF Types
<1>3. \A u \in Threads : Ordered(stack[u])
  BY DEF FrameInv
<1>4. \A u \in Threads \ {t} : Frames(u)' = Frames(u)
  BY <1>2 DEF Frames
<1> QED
  BY <1>1, <1>2, <1>3, <1>4 DEF StackTo, Frames

LEMMA StackIs ==
  ASSUME Types, FrameInv, NEW t \in Threads
  PROVE  /\ ~Idle(t) /\ Replace(t, <<>>) => StackTo(t, Below(t))
         /\ \A a \in FrameType :
              ~Idle(t) /\ Replace(t, <<a>>) /\ (\A g \in Below(t) : Above(a, g)) =>
                StackTo(t, {a} \cup Below(t))
         /\ \A a, b \in FrameType :
              ~Idle(t) /\ Replace(t, <<a, b>>) /\ Below(t) = {} /\ Above(a, b) =>
                StackTo(t, {a, b})
         /\ \A a \in FrameType : Push(t, <<a>>) /\ (\A g \in Frames(t) : Above(a, g)) =>
                StackTo(t, {a} \cup Frames(t))
         /\ \A a, b \in FrameType :
              Push(t, <<a, b>>) /\ Above(a, b) /\ (\A g \in Frames(t) : Above(a, g) /\ Above(b, g)) =>
                StackTo(t, {a, b} \cup Frames(t))
<1>1. stack[t] \in Seq(FrameType) /\ Ordered(stack[t])
  BY DEF Types, FrameInv
<1>2. ~Idle(t) => Tail(stack[t]) \in Seq(FrameType) /\ Ordered(Tail(stack[t]))
  BY <1>1, HeadTailIs DEF Idle
<1>3. /\ <<>> \in Seq(FrameType) /\ ToSet(<<>>) = {} /\ Ordered(<<>>)
      /\ \A a \in FrameType : <<a>> \in Seq(FrameType) /\ ToSet(<<a>>) = {a} /\ Ordered(<<a>>)
      /\ \A a, b \in FrameType : /\ <<a, b>> \in Seq(FrameType) /\ ToSet(<<a, b>>) = {a, b}
                                 /\ Above(a, b) => Ordered(<<a, b>>)
  BY ShortIs
<1>4. ASSUME NEW s \in Seq(FrameType), Ordered(s), NEW f \in Seq(FrameType), Ordered(f),
             \A x \in ToSet(f), y \in ToSet(s) : Above(x, y),
             stack' = [stack EXCEPT ![t] = f \o s]
      PROVE  StackTo(t, ToSet(f) \cup ToSet(s))
  <2> DEFINE r == f \o s
  <2>1. r \in Seq(FrameType) /\ ToSet(r) = ToSet(f) \cup ToSet(s) /\ Ordered(r)
    BY <1>4, ConcatIs
  <2>2. stack' = [stack EXCEPT ![t] = r]
    BY <1>4
  <2> HIDE DEF r
  <2> QED
    BY <2>1, <2>2, StackStep
<1>5. \A f : Replace(t, f) => stack' = [stack EXCEPT ![t] = f \o Tail(stack[t])]
  BY <1>1 DEF Replace, Types
<1>6. \A f : Push(t, f) => stack' = [stack EXCEPT ![t] = f \o stack[t]]
  BY <1>1 DEF Push, Types
<1>7. ~Idle(t) /\ Replace(t, <<>>) => StackTo(t, Below(t))
  <2> SUFFICES ASSUME ~Idle(t), Replace(t, <<>>) PROVE StackTo(t, Below(t))
    OBVIOUS
  <2>1. \A x \in ToSet(<<>>), y \in ToSet(Tail(stack[t])) : Above(x, y)
    BY <1>3
  <2>2. StackTo(t, ToSet(<<>>) \cup ToSet(Tail(stack[t])))
    BY <1>2, <1>3, <1>4, <1>5, <2>1
  <2>3. ToSet(<<>>) \cup ToSet(Tail(stack[t])) = Below(t)
    BY <1>3 DEF Below
  <2> QED
    BY <2>2, <2>3
<1>8. ASSUME NEW a \in FrameType, ~Idle(t), Replace(t, <<a>>), \A g \in Below(t) : Above(a, g)
      PROVE  StackTo(t, {a} \cup Below(t))
  BY <1>2, <1>3, <1>4, <1>5, <1>8 DEF Below
<1>9. ASSUME NEW a \in FrameType, NEW b \in FrameType, ~Idle(t), Replace(t, <<a, b>>),
             Below(t) = {}, Above(a, b)
      PROVE  StackTo(t, {a, b})
  <2>1. \A x \in ToSet(<<a, b>>), y \in ToSet(Tail(stack[t])) : Above(x, y)
    BY <1>9 DEF Below
  <2>2. StackTo(t, {a, b} \cup Below(t))
    BY <1>2, <1>3, <1>4, <1>5, <1>9, <2>1 DEF Below
  <2> QED
    BY <1>9, <2>2
<1>10. ASSUME NEW a \in FrameType, Push(t, <<a>>), \A g \in Frames(t) : Above(a, g)
       PROVE  StackTo(t, {a} \cup Frames(t))
  BY <1>1, <1>3, <1>4, <1>6, <1>10 DEF Frames
<1>11. ASSUME NEW a \in FrameType, NEW b \in FrameType, Push(t, <<a, b>>), Above(a, b),
              \A g \in Frames(t) : Above(a, g) /\ Above(b, g)
       PROVE  StackTo(t, {a, b} \cup Frames(t))
  <2>1. \A x \in ToSet(<<a, b>>), y \in ToSet(stack[t]) : Above(x, y)
    BY <1>3, <1>11 DEF Frames
  <2> QED
    BY <1>1, <1>3, <1>4, <1>6, <1>11, <2>1 DEF Frames
<1> QED
  BY <1>7, <1>8, <1>9, <1>10, <1>11

\* The stacks stay in order, whichever call begins, goes on or ends.
LEMMA FrameStep ==
  ASSUME Types, FrameInv, NEW t \in Threads, NEW A \in SUBSET FrameType, StackTo(t, A),
         \A f \in A : FrameFits(t, f),
         t \in CompThreads => (\E f \in A : f.k \in Returns) \/ \A f \in A : Late(f),
         t = "app" /\ A # {} => \E f \in A : f.k \in Control,
         t = "app" => \A f \in A : f.k \notin Control => \E g \in A : g.k \in Waiting
  PROVE  FrameInv'
<1>1. /\ \A u \in Threads : Ordered(stack'[u])
      /\ Frames(t)' = A /\ \A u \in Threads \ {t} : Frames(u)' = Frames(u)
  BY DEF StackTo
<1>2. ASSUME NEW u \in Threads PROVE \A f \in Frames(u)' : FrameFits(u, f)
  BY <1>1 DEF FrameInv
<1>3. ASSUME NEW u \in CompThreads
      PROVE  (\E f \in Frames(u)' : f.k \in Returns) \/ \A f \in Frames(u)' : Late(f)
  <2>1. CASE u = t
    BY <1>1, <2>1
  <2>2. CASE u # t
    <3>1. Frames(u)' = Frames(u)
      BY <1>1, <2>2, PortIs
    <3> QED
      BY <3>1 DEF FrameInv
  <2> QED
    BY <2>1, <2>2
<1>4. /\ Frames("app")' # {} => \E f \in Frames("app")' : f.k \in Control
      /\ \A f \in Frames("app")' : f.k \notin Control => \E g \in Frames("app")' : g.k \in Waiting
  <2>1. CASE "app" = t
    BY <1>1, <2>1
  <2>2. CASE "app" # t
    <3>1. Frames("app")' = Frames("app")
      BY <1>1, <2>2, PortIs
    <3> QED
      BY <3>1 DEF FrameInv
  <2> QED
    BY <2>1, <2>2
<1> QED
  BY <1>1, <1>2, <1>3, <1>4 DEF FrameInv

\* Kinds of frames exclude each other.
LEMMA KindIs ==
  /\ \A k \in Control : k \notin Returns /\ k \notin Carrying /\ k \notin {"callback", "event"}
  /\ \A k \in Returns : k \notin Carrying /\ k \notin {"callback", "event"}
  /\ Waiting \subseteq Control /\ Disabling \subseteq Control /\ Starting \subseteq Control
  /\ Stopping \subseteq Disabling
BY DEF Control, Returns, Carrying, Waiting, Disabling, Starting, Stopping

LEMMA BelowIs ==
  ASSUME Types, FrameInv, NEW t \in Threads, ~Idle(t)
  PROVE  LET f == Top(t)
         IN /\ \A g \in Below(t) : g.c = f.c /\ g.k \in Returns \cup Control
            /\ f.k \in Returns => \A g \in Below(t) : g.k \in Control
            /\ f.k \in Control => \A g \in Below(t) : g.k \in {"enable", "failed"}
            /\ f.k \in {"empty", "event"} => Below(t) = {}
            /\ f.k = "process" /\ f.b = Event => f.c \in Direct \/ Below(t) = {}
            /\ f.k \in Control \ (Disabling \cup {"undo out", "wait undo"}) => Below(t) = {}
<1>1. \A g \in Below(t) : Above(Top(t), g)
  BY TopIs
<1> DEFINE f == Top(t)
<1>2. \A g \in Below(t) : g.c = f.c /\ g.k \in Returns \cup Control
  BY <1>1 DEF Above
<1>3. f.k \in Returns => \A g \in Below(t) : g.k \in Control
  BY <1>1 DEF Above
<1>4. f.k \in Control => \A g \in Below(t) : g.k \in {"enable", "failed"}
  BY <1>1 DEF Above
<1>5. /\ f.k \in {"empty", "event"} => Below(t) = {}
      /\ f.k = "process" /\ f.b = Event => f.c \in Direct \/ Below(t) = {}
  BY <1>1 DEF Above
<1>6. f.k \in Control \ (Disabling \cup {"undo out", "wait undo"}) => Below(t) = {}
  BY <1>1 DEF Above
<1> QED
  BY <1>2, <1>3, <1>4, <1>5, <1>6

LEMMA PopKeeps ==
  ASSUME Types, FrameInv, NEW t \in Threads, ~Idle(t), Replace(t, <<>>)
  PROVE  StackTo(t, Below(t)) /\ FrameInv'
<1>1. StackTo(t, Below(t))
  BY StackIs
<1>2. /\ Frames(t) = {Top(t)} \cup Below(t) /\ Below(t) \subseteq FrameType
      /\ \A f \in Frames(t) : FrameFits(t, f)
  BY TopIs
<1>3. ASSUME t \in CompThreads
      PROVE  (\E f \in Below(t) : f.k \in Returns) \/ \A f \in Below(t) : Late(f)
  <2>1. \A f \in Below(t) : f.k \notin Control
    BY <1>2, <1>3 DEF FrameFits
  <2> QED
    BY <2>1, BelowIs
<1>4. ASSUME t = "app", Below(t) # {} PROVE \E f \in Below(t) : f.k \in Control
  <2>1. CASE Top(t).k \in Control \cup Returns
    BY <1>4, <2>1, BelowIs, KindIs DEF Control, Starting
  <2>2. CASE Top(t).k \notin Control
    BY <1>2, <1>4, <2>2 DEF FrameInv
  <2> QED
    BY <2>1, <2>2
<1>5. ASSUME t = "app", NEW f \in Below(t), f.k \notin Control
      PROVE  \E g \in Below(t) : g.k \in Waiting
  <2>1. Top(t).k \notin Control
    BY <1>5, BelowIs DEF Control, Starting
  <2>2. \E g \in Frames(t) : g.k \in Waiting
    BY <1>2, <1>5 DEF FrameInv
  <2> QED
    BY <1>2, <2>1, <2>2, KindIs
<1>6. \A f \in Below(t) : FrameFits(t, f)
  BY <1>2
<1> QED
  BY <1>1, <1>2, <1>3, <1>4, <1>5, <1>6, FrameStep

\* One callback or buffer in place of another.
LEMMA TurnKeeps ==
  ASSUME Types, FrameInv, NEW t \in Threads, NEW a \in FrameType, ~Idle(t), Replace(t, <<a>>),
         a.c = Top(t).c, a.k \in {"callback", "process"},
         Top(t).k \in {"callback", "process", "event"},
         a.k = "process" /\ a.b = Event => a.c \in Direct, FrameFits(t, a),
         t \in CompThreads => a.b = Event \/ Below(t) # {}
  PROVE  StackTo(t, {a} \cup Below(t)) /\ FrameInv'
<1> DEFINE A == {a} \cup Below(t)
<1>1. /\ Frames(t) = {Top(t)} \cup Below(t) /\ Below(t) \subseteq FrameType
      /\ \A f \in Frames(t) : FrameFits(t, f)
  BY TopIs
<1>2. /\ Top(t).k \notin Control /\ Top(t).k \notin Returns
      /\ a.k \notin Control /\ a.k \notin Returns /\ a.k \notin {"empty", "event"}
  BY KindIs DEF Carrying
<1>3. \A g \in Below(t) : Above(a, g)
  <2> TAKE g \in Below(t)
  <2>1. g.c = a.c /\ g.k \in Returns \cup Control
    BY BelowIs
  <2> QED
    BY <1>2, <2>1, KindIs DEF Above
<1>4. StackTo(t, A)
  BY <1>3, StackIs
<1>5. ASSUME t \in CompThreads PROVE (\E f \in A : f.k \in Returns) \/ \A f \in A : Late(f)
  <2>1. CASE \E f \in Frames(t) : f.k \in Returns
    BY <1>1, <1>2, <2>1
  <2>2. CASE \A f \in Frames(t) : Late(f)
    <3>1. \A f \in Below(t) : f.k \in Returns \cup Control /\ f.k \in {"event", "callback", "process"}
      BY <1>1, <2>2, BelowIs DEF Late
    <3>2. Below(t) = {}
      BY <3>1, KindIs DEF Carrying
    <3> QED
      BY <1>5, <3>2 DEF Late
  <2> QED
    BY <1>5, <2>1, <2>2 DEF FrameInv
<1>6. t = "app" => \E f \in A : f.k \in Control
  BY <1>1, <1>2 DEF FrameInv
<1>7. t = "app" => \E g \in A : g.k \in Waiting
  <2>1. t = "app" => \E g \in Frames(t) : g.k \in Waiting
    BY <1>1, <1>2 DEF FrameInv
  <2> QED
    BY <1>1, <1>2, <2>1, KindIs
<1>8. A \subseteq FrameType /\ \A f \in A : FrameFits(t, f)
  BY <1>1
<1> HIDE DEF A
<1> QED
  BY <1>4, <1>5, <1>6, <1>7, <1>8, FrameStep DEF A

\* A call goes on, or comes to its end with another.
LEMMA CallKeeps ==
  ASSUME Types, FrameInv, NEW t \in Threads, NEW a \in FrameType, ~Idle(t), Replace(t, <<a>>),
         a.c = Top(t).c, a.k \in Control, Top(t).k \in Control, a.b = Event,
         \/ Below(t) = {}
         \/ a.k \in Disabling /\ Top(t).k \in Disabling
         \/ {a.k, Top(t).k} \subseteq {"undo out", "wait undo"}
  PROVE  StackTo(t, {a} \cup Below(t)) /\ FrameInv'
<1> DEFINE A == {a} \cup Below(t)
<1>1. /\ Frames(t) = {Top(t)} \cup Below(t) /\ Below(t) \subseteq FrameType
      /\ \A f \in Frames(t) : FrameFits(t, f) /\ \A g \in Below(t) : Above(Top(t), g)
  BY TopIs
<1>2. \A g \in Below(t) : Above(a, g)
  <2> TAKE g \in Below(t)
  <2>1. Above(Top(t), g)
    BY <1>1
  <2>2. CASE a.k \in Disabling /\ Top(t).k \in Disabling
    BY <2>1, <2>2 DEF Above, Disabling, Control, Returns
  <2>3. CASE {a.k, Top(t).k} \subseteq {"undo out", "wait undo"}
    BY <2>1, <2>3 DEF Above, Disabling, Control, Returns
  <2> QED
    BY <2>2, <2>3
<1>3. StackTo(t, A)
  BY <1>2, StackIs
<1>4. t \notin CompThreads
  BY <1>1 DEF FrameFits
<1>5. \A g \in Below(t) : g.k \in Control
  BY BelowIs DEF Control, Starting
<1>6. FrameFits(t, a)
  BY <1>1, <1>4, KindIs DEF FrameFits, Carrying
<1>7. A \subseteq FrameType /\ \A f \in A : FrameFits(t, f) /\ f.k \in Control
  BY <1>1, <1>5, <1>6
<1> HIDE DEF A
<1>8. a \in A
  BY DEF A
<1> QED
  BY <1>3, <1>4, <1>7, <1>8, FrameStep DEF A

\* A header comes back: its callback, and in it that of the connection.
LEMMA ReturnKeeps ==
  ASSUME Types, FrameInv, NEW t \in Threads, NEW p \in Ports, NEW h \in Headers, Home[h] = p[1],
         Push(t, <<Cb(p[1]), Frame(Returning(p), p[1], h)>>),
         \/ t \in CompThreads /\ Idle(t)
         \/ ~Idle(t) /\ Top(t).k \in Waiting /\ Top(t).c = p[1]
  PROVE  /\ StackTo(t, {Cb(p[1]), Frame(Returning(p), p[1], h)} \cup Frames(t))
         /\ FrameInv'
<1> DEFINE a == Cb(p[1])  b == Frame(Returning(p), p[1], h)  A == {a, b} \cup Frames(t)
<1>1. p[1] \in Conns /\ Returning(p) \in Returns
  BY PortIs DEF Returning, Returns
<1>2. /\ a \in FrameType /\ a.k = "callback" /\ a.c = p[1] /\ a.b = Event
      /\ b \in FrameType /\ b.k \in Returns /\ b.c = p[1] /\ b.b = h
  BY <1>1, FrameIs
<1>3. /\ Frames(t) \subseteq FrameType /\ \A f \in Frames(t) : FrameFits(t, f)
      /\ \A g \in Frames(t) : g.c = p[1] /\ g.k \in Control
  <2>1. CASE t \in CompThreads /\ Idle(t)
    BY <2>1, TopIs
  <2>2. CASE ~Idle(t) /\ Top(t).k \in Waiting /\ Top(t).c = p[1]
    <3>1. Top(t).k \in Control /\ Frames(t) = {Top(t)} \cup Below(t)
      BY <2>2, TopIs, KindIs
    <3>2. \A g \in Below(t) : g.c = p[1] /\ g.k \in {"enable", "failed"}
      BY <2>2, <3>1, BelowIs
    <3>3. \A g \in Below(t) : g.k \in Control
      BY <3>2 DEF Control, Starting
    <3> QED
      BY <2>2, <3>1, <3>2, <3>3, TopIs
  <2> QED
    BY <2>1, <2>2
<1>4. Above(a, b) /\ \A g \in Frames(t) : Above(a, g) /\ Above(b, g)
  BY <1>2, <1>3, KindIs DEF Above, Carrying
<1> HIDE DEF a, b
<1>5. StackTo(t, A)
  BY <1>2, <1>4, StackIs DEF a, b
<1>6. FrameFits(t, a) /\ FrameFits(t, b)
  <2>1. h # Event
    BY EventAssumption
  <2>2. t = "worker" => p[1] \notin Direct
    <3> SUFFICES ASSUME t = "worker" PROVE p[1] \notin Direct
      OBVIOUS
    <3>1. ~Idle(t) /\ Top(t).k \in Control /\ Top(t).c = p[1]
      BY WhoIs, KindIs
    <3>2. FrameFits(t, Top(t)) /\ Top(t).k # "empty"
      BY <1>3, <3>1, TopIs, KindIs DEF Carrying
    <3> QED
      BY <3>1, <3>2 DEF FrameFits
  <2> QED
    BY <1>2, <2>1, <2>2, KindIs DEF FrameFits, Carrying
<1>7. t = "app" => \E g \in Frames(t) : g.k \in Waiting
  <2> SUFFICES ASSUME t = "app" PROVE \E g \in Frames(t) : g.k \in Waiting
    OBVIOUS
  <2>1. t \notin CompThreads
    BY WhoIs
  <2>2. ~Idle(t)
    BY <2>1
  <2> QED
    BY <2>2, TopIs
<1>8. A \subseteq FrameType /\ \A f \in A : FrameFits(t, f)
  BY <1>2, <1>3, <1>6
<1>9. /\ b \in A /\ a \in A
      /\ t = "app" => \E f \in A : f.k \in Control
      /\ t = "app" => \E f \in A : f.k \in Waiting
  BY <1>7, KindIs
<1> HIDE DEF A
<1>10. t \in CompThreads => \E f \in A : f.k \in Returns
  BY <1>2, <1>9 DEF A
<1>11. FrameInv'
  BY <1>5, <1>8, <1>9, <1>10, FrameStep
<1> QED
  BY <1>5, <1>11 DEF a, b, A

\* A header of the queue is released, and the callback of the connection made.
LEMMA FlushKeeps ==
  ASSUME Types, FrameInv, NEW t \in Threads, Runs(t, "flush"), NEW c \in Conns, c = Top(t).c,
         Push(t, <<Cb(c)>>)
  PROVE  StackTo(t, {Cb(c)} \cup Frames(t)) /\ FrameInv'
<1> DEFINE a == Cb(c)  A == {a} \cup Frames(t)
<1>1. a \in FrameType /\ a.k = "callback" /\ a.c = c /\ a.b = Event
  BY FrameIs
<1>2. /\ Top(t).k = "flush" /\ Top(t).k \in Waiting /\ Top(t).k \in Control /\ ~Idle(t)
      /\ Frames(t) \subseteq FrameType /\ Frames(t) = {Top(t)} \cup Below(t)
      /\ \A f \in Frames(t) : FrameFits(t, f)
  BY TopIs DEF Runs, Waiting, Control, Disabling
<1>3. \A g \in Below(t) : g.c = c /\ g.k \in Control
  BY <1>2, BelowIs DEF Control, Starting
<1>4. \A g \in Frames(t) : Above(a, g)
  <2>1. \A g \in Frames(t) : g.c = c /\ g.k \in Control
    BY <1>2, <1>3
  <2> QED
    BY <1>1, <2>1, KindIs DEF Above, Carrying
<1> HIDE DEF a
<1>5. StackTo(t, A)
  BY <1>1, <1>4, StackIs DEF a
<1>6. FrameFits(t, a)
  <2>1. t = "worker" => c \notin Direct
    BY <1>2 DEF FrameFits
  <2> QED
    BY <1>1, <2>1, KindIs DEF FrameFits, Carrying
<1>7. t \notin CompThreads
  BY <1>2 DEF FrameFits
<1>8. A \subseteq FrameType /\ (\A f \in A : FrameFits(t, f)) /\ Top(t) \in A
  BY <1>1, <1>2, <1>6
<1> HIDE DEF A
<1>9. FrameInv'
  BY <1>2, <1>5, <1>7, <1>8, FrameStep
<1> QED
  BY <1>5, <1>9 DEF a, A

\* The worker takes a buffer; the client makes a call.
LEMMA BeginKeeps ==
  ASSUME Types, FrameInv, NEW t \in {"app", "worker"}, NEW a \in FrameType, Idle(t), Push(t, <<a>>),
         \/ t = "worker" /\ a.k \in Carrying /\ (a.b # Event => Home[a.b] = a.c)
            /\ (a.k = "empty" => a.b # Event) /\ (a.k = "process" => a.c \notin Direct)
         \/ t = "app" /\ a.k \in Control /\ a.b = Event
  PROVE  StackTo(t, {a}) /\ FrameInv'
<1>1. t \in Threads /\ t \notin CompThreads
  BY WhoIs
<1>2. Frames(t) = {}
  BY <1>1, TopIs
<1>3. StackTo(t, {a})
  <2>1. StackTo(t, {a} \cup Frames(t))
    BY <1>1, <1>2, StackIs
  <2> QED
    BY <1>2, <2>1
<1>4. FrameFits(t, a)
  BY <1>1, KindIs DEF FrameFits, Carrying
<1> QED
  BY <1>1, <1>3, <1>4, FrameStep

\* A reconfiguration, whose calls stand for what is to come.
LEMMA EventKeeps ==
  ASSUME Types, FrameInv, NEW t, t = "worker", Runs(t, "process"), Top(t).b = Event,
         NEW c \in Conns, c = Top(t).c
  PROVE  /\ t \in Threads /\ c \notin Direct /\ Frames(t) = {Top(t)} /\ Below(t) = {}
         /\ Replace(t, <<Do("disable", c)>>) => StackTo(t, {Do("disable", c)}) /\ FrameInv'
         /\ Replace(t, <<Do("disable", c), Do("enable", c)>>) =>
              StackTo(t, {Do("disable", c), Do("enable", c)}) /\ FrameInv'
<1> DEFINE a == Do("disable", c)  b == Do("enable", c)
<1>1. /\ "disable" \in Control /\ "disable" \in Disabling /\ "enable" \in Control
      /\ "enable" \notin Returns /\ "disable" \notin Returns
  BY DEF Control, Disabling, Returns
<1>2. /\ a \in FrameType /\ a.k = "disable" /\ a.c = c /\ a.b = Event
      /\ b \in FrameType /\ b.k = "enable" /\ b.c = c /\ b.b = Event
  <2>1. a \in FrameType /\ b \in FrameType
    BY <1>1 DEF Do, Frame, FrameType
  <2> QED
    BY <2>1 DEF Do, Frame
<1>3. ~Idle(t) /\ Top(t).k = "process"
  BY DEF Runs
<1>5. t \in Threads
  BY WhoIs
<1>4. Below(t) = {} /\ Frames(t) = {Top(t)} /\ FrameFits(t, Top(t)) /\ c \notin Direct
  <2>1. FrameFits(t, Top(t)) /\ Frames(t) = {Top(t)} \cup Below(t)
    BY <1>3, <1>5, TopIs
  <2>2. c \notin Direct
    BY <1>3, <2>1 DEF FrameFits
  <2>3. Below(t) = {}
    BY <1>3, <1>5, <2>2, BelowIs
  <2> QED
    BY <2>1, <2>2, <2>3
<1>6. FrameFits(t, a) /\ FrameFits(t, b)
  BY <1>1, <1>2, <1>4, <1>5, WhoIs, KindIs DEF FrameFits, Carrying
<1>7. Above(a, b)
  BY <1>1, <1>2 DEF Above
<1> HIDE DEF a, b
<1>8. ASSUME Replace(t, <<a>>) PROVE StackTo(t, {a}) /\ FrameInv'
  <2>1. StackTo(t, {a} \cup Below(t))
    BY <1>2, <1>3, <1>4, <1>5, <1>8, StackIs
  <2>2. StackTo(t, {a})
    BY <1>4, <2>1
  <2>3. \A f \in {a} : FrameFits(t, f) /\ f.k \in Control /\ f \in FrameType
    BY <1>1, <1>2, <1>6
  <2>4. t \notin CompThreads /\ t # "app"
    BY WhoIs
  <2> QED
    BY <1>5, <2>2, <2>3, <2>4, FrameStep
<1>9. ASSUME Replace(t, <<a, b>>) PROVE StackTo(t, {a, b}) /\ FrameInv'
  <2>1. StackTo(t, {a, b})
    BY <1>2, <1>3, <1>4, <1>5, <1>7, <1>9, StackIs
  <2>2. \A f \in {a, b} : FrameFits(t, f) /\ f.k \in Control /\ f \in FrameType
    BY <1>1, <1>2, <1>6
  <2>3. t \notin CompThreads /\ t # "app"
    BY WhoIs
  <2> QED
    BY <1>5, <2>1, <2>2, <2>3, FrameStep
<1> QED
  BY <1>4, <1>5, <1>8, <1>9 DEF a, b

\* The input port failed: the output port is disabled again first.
LEMMA UndoKeeps ==
  ASSUME Types, FrameInv, NEW t \in Threads, Runs(t, "start in"), NEW c \in Conns, c = Top(t).c,
         Replace(t, <<Do("undo out", c), Do("failed", c)>>)
  PROVE  /\ Below(t) = {} /\ Frames(t) = {Top(t)}
         /\ StackTo(t, {Do("undo out", c), Do("failed", c)}) /\ FrameInv'
<1> DEFINE a == Do("undo out", c)  b == Do("failed", c)
<1>1. /\ "undo out" \in Control /\ "failed" \in Control /\ "undo out" \notin Returns
      /\ "start in" \in Control \ (Disabling \cup {"undo out", "wait undo"})
  BY DEF Control, Disabling, Starting, Returns
<1>2. /\ a \in FrameType /\ a.k = "undo out" /\ a.c = c /\ a.b = Event
      /\ b \in FrameType /\ b.k = "failed" /\ b.c = c /\ b.b = Event
  <2>1. a \in FrameType /\ b \in FrameType
    BY <1>1 DEF Do, Frame, FrameType
  <2> QED
    BY <2>1 DEF Do, Frame
<1>3. ~Idle(t) /\ Top(t).k = "start in"
  BY DEF Runs
<1>4. Below(t) = {} /\ Frames(t) = {Top(t)} /\ FrameFits(t, Top(t))
  BY <1>1, <1>3, BelowIs, TopIs
<1>5. t \notin CompThreads
  BY <1>1, <1>3, <1>4 DEF FrameFits
<1>6. FrameFits(t, a) /\ FrameFits(t, b)
  <2>1. t = "worker" => c \notin Direct
    BY <1>3, <1>4 DEF FrameFits
  <2> QED
    BY <1>1, <1>2, <1>5, <2>1, KindIs DEF FrameFits, Carrying
<1>7. Above(a, b)
  BY <1>1, <1>2 DEF Above
<1> HIDE DEF a, b
<1>8. StackTo(t, {a, b})
  BY <1>2, <1>3, <1>4, <1>7, StackIs DEF a, b
<1>9. FrameInv'
  <2>1. \A f \in {a, b} : FrameFits(t, f) /\ f.k \in Control /\ f \in FrameType
    BY <1>1, <1>2, <1>6
  <2>2. \E f \in {a, b} : f.k \in Control
    BY <2>1
  <2>3. StackTo(t, {a, b}) /\ {a, b} \in SUBSET FrameType
    BY <1>2, <1>8 DEF a, b
  <2> QED
    BY <1>5, <2>1, <2>2, <2>3, FrameStep
<1> QED
  BY <1>4, <1>8, <1>9 DEF a, b

\* A component begins to report an event.
LEMMA ReportKeeps ==
  ASSUME Types, FrameInv, NEW t \in CompThreads, Idle(t), NEW c \in Conns,
         Push(t, <<Do("event", c)>>)
  PROVE  StackTo(t, {Do("event", c)}) /\ FrameInv'
<1> DEFINE a == Do("event", c)
<1>1. t \in Threads /\ t \notin {"app", "worker"}
  BY WhoIs
<1>2. a \in FrameType /\ a.k = "event" /\ a.c = c /\ a.b = Event
  BY FrameIs
<1> HIDE DEF a
<1>3. Frames(t) = {}
  BY <1>1, TopIs
<1>4. StackTo(t, {a})
  <2>1. StackTo(t, {a} \cup Frames(t))
    BY <1>1, <1>2, <1>3, StackIs DEF a
  <2> QED
    BY <1>3, <2>1
<1>5. FrameFits(t, a) /\ Late(a)
  BY <1>1, <1>2, KindIs DEF FrameFits, Carrying, Late
<1> QED
  BY <1>1, <1>2, <1>4, <1>5, FrameStep DEF a

-----------------------------------------------------------------------------
LEMMA FrontIs ==
  ASSUME NEW S, NEW s \in Seq(S), s # <<>>
  PROVE  Head(s) \in S /\ Head(s) \in ToSet(s)
<1>1. Head(s) \in S /\ ToSet(s) = {Head(s)} \cup ToSet(Tail(s))
  BY HeadTailIs
<1> QED
  BY <1>1

\* Queues: a buffer is taken from the front of one, appended, or put back.
LEMMA TakeIs ==
  ASSUME NEW S, NEW s \in Seq(S), s # <<>>
  PROVE  /\ Tail(s) \in Seq(S) /\ Head(s) \in S /\ Len(Tail(s)) = Len(s) - 1
         /\ \A x : x \in ToSet(s) <=> x = Head(s) \/ x \in ToSet(Tail(s))
         /\ Once(s) => Once(Tail(s)) /\ (Head(s) # Event => Head(s) \notin ToSet(Tail(s)))
<1>1. ToSet(s) = {Head(s)} \cup ToSet(Tail(s))
  BY HeadTailIs
<1>2. \A x : x \in ToSet(s) <=> x = Head(s) \/ x \in ToSet(Tail(s))
  BY <1>1
<1> QED
  BY <1>2, HeadTailIs

LEMMA AddIs ==
  ASSUME NEW S, NEW s \in Seq(S), NEW e \in S
  PROVE  /\ Append(s, e) \in Seq(S) /\ Append(s, e) # <<>> /\ Len(Append(s, e)) = Len(s) + 1
         /\ \A x : x \in ToSet(Append(s, e)) <=> x = e \/ x \in ToSet(s)
         /\ Once(s) /\ (e \notin ToSet(s) \/ e = Event) => Once(Append(s, e))
<1>1. ToSet(Append(s, e)) = ToSet(s) \cup {e}
  BY AppendIs
<1>2. \A x : x \in ToSet(Append(s, e)) <=> x = e \/ x \in ToSet(s)
  BY <1>1
<1> QED
  BY <1>2, AppendIs

LEMMA BackIs ==
  ASSUME NEW S, NEW s \in Seq(S), NEW e \in S
  PROVE  /\ <<e>> \o s \in Seq(S)
         /\ \A x : x \in ToSet(<<e>> \o s) <=> x = e \/ x \in ToSet(s)
         /\ Once(s) /\ e \notin ToSet(s) => Once(<<e>> \o s)
<1>1. ToSet(<<e>> \o s) = ToSet(s) \cup {e}
  BY PutBackIs
<1>2. \A x : x \in ToSet(<<e>> \o s) <=> x = e \/ x \in ToSet(s)
  BY <1>1
<1> QED
  BY <1>2, PutBackIs

LEMMA TakeType ==
  ASSUME NEW S, NEW q \in [Conns -> Seq(S)], NEW c \in Conns, q[c] # <<>>, NEW r,
         r = [q EXCEPT ![c] = Tail(@)]
  PROVE  r \in [Conns -> Seq(S)]
<1>1. q[c] \in Seq(S)
  OBVIOUS
<1>2. Tail(q[c]) \in Seq(S)
  BY <1>1, TakeIs
<1> QED
  BY <1>2

LEMMA AddType ==
  ASSUME NEW S, NEW q \in [Conns -> Seq(S)], NEW c \in Conns, NEW e \in S, NEW r,
         r = [q EXCEPT ![c] = Append(@, e)]
  PROVE  r \in [Conns -> Seq(S)]
<1>1. q[c] \in Seq(S)
  OBVIOUS
<1>2. Append(q[c], e) \in Seq(S)
  BY <1>1, AddIs
<1> QED
  BY <1>2

LEMMA BackType ==
  ASSUME NEW S, NEW q \in [Conns -> Seq(S)], NEW c \in Conns, NEW e \in S, NEW r,
         r = [q EXCEPT ![c] = <<e>> \o @]
  PROVE  r \in [Conns -> Seq(S)]
<1>1. q[c] \in Seq(S)
  OBVIOUS
<1>2. <<e>> \o q[c] \in Seq(S)
  BY <1>1, BackIs
<1> QED
  BY <1>2

\* A thread that carries a header does so in its innermost call.
LEMMA CarriersIs ==
  ASSUME Types, FrameInv, NEW t \in Threads
  PROVE  /\ \A h : t \in Carriers(h) <=> ~Idle(t) /\ Top(t).k \in Carrying /\ Top(t).b = h
         /\ \A A : StackTo(t, A) =>
              /\ \A h : t \in Carriers(h)' <=> \E f \in A : f.k \in Carrying /\ f.b = h
              /\ \A h : \A u \in Threads \ {t} : u \in Carriers(h)' <=> u \in Carriers(h)
<1>1. \A g \in Below(t) : ~Idle(t) => g.k \notin Carrying
  BY BelowIs, KindIs
<1>2. Idle(t) => Frames(t) = {}
  BY TopIs
<1>3. ~Idle(t) => Frames(t) = {Top(t)} \cup Below(t)
  BY TopIs
<1>4. \A h : t \in Carriers(h) <=> ~Idle(t) /\ Top(t).k \in Carrying /\ Top(t).b = h
  BY <1>1, <1>2, <1>3 DEF Carriers
<1>5. ASSUME NEW A, StackTo(t, A)
      PROVE  /\ \A h : t \in Carriers(h)' <=> \E f \in A : f.k \in Carrying /\ f.b = h
             /\ \A h : \A u \in Threads \ {t} : u \in Carriers(h)' <=> u \in Carriers(h)
  <2>1. Frames(t)' = A /\ \A u \in Threads \ {t} : Frames(u)' = Frames(u)
    BY <1>5 DEF StackTo
  <2> QED
    BY <2>1 DEF Carriers
<1> QED
  BY <1>4, <1>5

\* What a thread of a component is doing it does inside a return, or for an event.
LEMMA CompIs ==
  ASSUME Types, FrameInv, NEW t \in CompThreads, ~Idle(t), \E f \in Frames(t) : ~Late(f)
  PROVE  /\ \A f \in Frames(t) : f.c = Top(t).c
         /\ \E f \in Frames(t) : f.k \in Returns /\ f.c = Top(t).c
         /\ \A f \in Frames(t) : f.k \notin Control
         /\ InCall({"return in"}, Top(t).c) \/ InCall({"return out"}, Top(t).c)
<1>1. t \in Threads /\ Frames(t) # {} /\ Frames(t) = {Top(t)} \cup Below(t)
  BY PortIs, TopIs
<1>2. \A f \in Frames(t) : f.c = Top(t).c /\ f.k \notin Control
  <2>1. \A f \in Frames(t) : f.k \notin Control
    BY <1>1, TopIs DEF FrameFits
  <2> QED
    BY <1>1, <2>1, BelowIs
<1>3. PICK f \in Frames(t) : f.k \in Returns
  BY <1>1 DEF FrameInv
<1> QED
  BY <1>1, <1>2, <1>3 DEF InCall, Returns

LEMMA SpendIs ==
  ASSUME Types, NEW what \in {"enables", "faults"}, Spend(what)
  PROVE  budget' \in [{"enables", "faults"} -> Nat]
BY DEF Types, Spend

-----------------------------------------------------------------------------
\* Each action: what it leaves on the stack of its thread, and the types.
Stacks(t, A) == StackTo(t, A) /\ FrameInv' /\ Types'

LEMMA StackSame ==
  ASSUME Types, FrameInv, stack' = stack
  PROVE  /\ FrameInv' /\ \A u \in Threads : Frames(u)' = Frames(u)
         /\ \A h : Carriers(h)' = Carriers(h)
         /\ stack' \in [Threads -> Seq(FrameType)]
<1>1. \A u \in Threads : Frames(u)' = Frames(u)
  BY DEF Frames
<1>2. FrameInv'
  <2>1. "app" \in Threads /\ CompThreads \subseteq Threads
    BY PortIs
  <2> QED
    BY <1>1, <2>1 DEF FrameInv
<1>3. \A h : Carriers(h)' = Carriers(h)
  BY <1>1 DEF Carriers
<1> QED
  BY <1>1, <1>2, <1>3 DEF Types

LEMMA ReturnBufferIs ==
  ASSUME IInv, NEW t \in Threads, NEW p \in Ports, NEW h, ReturnBuffer(t, p, h),
         \/ t \in CompThreads /\ Idle(t)
         \/ ~Idle(t) /\ Top(t).k \in Waiting /\ Top(t).c = p[1]
  PROVE  /\ h \in held[p] /\ h \in Headers /\ Home[h] = p[1] /\ p[1] \in Conns
         /\ Stacks(t, {Cb(p[1]), Frame(Returning(p), p[1], h)} \cup Frames(t))
<1>1. h \in held[p] /\ h \in Headers /\ Home[h] = p[1] /\ p[1] \in Conns
  <2>1. h \in held[p] /\ p[1] \in Conns
    BY PortIs DEF ReturnBuffer
  <2>2. held[p] \subseteq Of(p[1])
    BY DEF IInv, PlaceInv
  <2> QED
    BY <2>1, <2>2 DEF Of
<1>2. /\ StackTo(t, {Cb(p[1]), Frame(Returning(p), p[1], h)} \cup Frames(t))
      /\ FrameInv'
  BY <1>1, ReturnKeeps DEF ReturnBuffer, IInv
<1>3. poolq' \in [Conns -> Seq(Headers)] /\ connq' \in [Conns -> Seq(Headers \cup {Event})]
  <2>1. poolq \in [Conns -> Seq(Headers)] /\ connq \in [Conns -> Seq(Headers \cup {Event})]
    BY DEF IInv, Types
  <2>2. CASE p[2] = "out"
    <3>1. poolq' = poolq /\ connq' = [connq EXCEPT ![p[1]] = Append(@, h)]
      BY <2>2 DEF ReturnBuffer
    <3>2. connq' \in [Conns -> Seq(Headers \cup {Event})]
      BY <1>1, <2>1, <3>1, AddType
    <3> QED
      BY <2>1, <3>1, <3>2
  <2>3. CASE p[2] # "out"
    <3>1. connq' = connq /\ poolq' = [poolq EXCEPT ![p[1]] = Append(@, h)]
      BY <2>3 DEF ReturnBuffer
    <3>2. poolq' \in [Conns -> Seq(Headers)]
      BY <1>1, <2>1, <3>1, AddType
    <3> QED
      BY <2>1, <3>1, <3>2
  <2> QED
    BY <2>2, <2>3
<1>4. held' \in [Ports -> SUBSET Headers]
  BY DEF ReturnBuffer, IInv, Types
<1>5. stack' \in [Threads -> Seq(FrameType)]
  BY <1>2 DEF StackTo
<1>6. Types'
  BY <1>3, <1>4, <1>5 DEF ReturnBuffer, IInv, Types
<1> QED
  BY <1>1, <1>2, <1>6 DEF Stacks

LEMMA ReturnDoneIs ==
  ASSUME IInv, NEW t \in Threads, ReturnDone(t)
  PROVE  ~Idle(t) /\ Top(t).k \in Returns /\ Stacks(t, Below(t))
<1>1. ~Idle(t) /\ Top(t).k \in Returns /\ Replace(t, <<>>)
  BY DEF ReturnDone, Runs, Returns
<1>2. StackTo(t, Below(t)) /\ FrameInv'
  BY <1>1, PopKeeps DEF IInv
<1>3. Types'
  BY <1>2 DEF ReturnDone, IInv, Types, StackTo
<1> QED
  BY <1>1, <1>2, <1>3 DEF Stacks

LEMMA CallbackIs ==
  ASSUME IInv, ~rash', NEW t \in Threads, Callback(t), NEW c, c = Top(t).c
  PROVE  /\ ~Idle(t) /\ Top(t) = Cb(c) /\ c \in Conns
         /\ c \in Direct /\ connq[c] # <<>> =>
              /\ Head(connq[c]) \in Headers \cup {Event} /\ t # "worker"
              /\ Head(connq[c]) # Event => Home[Head(connq[c])] = c
              /\ connq' = [connq EXCEPT ![c] = Tail(@)] /\ sema' = sema
              /\ Stacks(t, {Frame("process", c, Head(connq[c]))} \cup Below(t))
         /\ ~(c \in Direct /\ connq[c] # <<>>) =>
              Post /\ connq' = connq /\ Stacks(t, Below(t))
<1>1. ~Idle(t) /\ Top(t).k = "callback" /\ Top(t) \in FrameType /\ FrameFits(t, Top(t))
  <2>1. ~Idle(t) /\ Top(t).k = "callback"
    BY DEF Callback, Runs
  <2> QED
    BY <2>1, TopIs DEF IInv
<1>2. c \in Conns /\ Top(t).b = Event
  BY <1>1 DEF FrameType, FrameFits
<1>3. Top(t) = Cb(c)
  BY <1>1, <1>2 DEF FrameType, Cb, Frame
<1>4. sema' \in 0..MaxSema /\ rash' \in BOOLEAN
  <2>1. sema' \in 0..MaxSema
    BY BoundAssumption DEF Callback, TakeDirect, Post, IInv, Types
  <2>2. rash' \in BOOLEAN
    BY DEF Callback, TakeDirect, IInv, Types
  <2> QED
    BY <2>1, <2>2
<1>5. ASSUME c \in Direct, connq[c] # <<>>
      PROVE  /\ Head(connq[c]) \in Headers \cup {Event} /\ t # "worker"
             /\ Head(connq[c]) # Event => Home[Head(connq[c])] = c
             /\ connq' = [connq EXCEPT ![c] = Tail(@)] /\ sema' = sema
             /\ Stacks(t, {Frame("process", c, Head(connq[c]))} \cup Below(t))
  <2> DEFINE a == Frame("process", c, Head(connq[c]))
  <2>1. connq' = [connq EXCEPT ![c] = Tail(@)] /\ sema' = sema /\ Replace(t, <<a>>)
    BY <1>2, <1>5 DEF Callback, TakeDirect
  <2>2. /\ Head(connq[c]) \in Headers \cup {Event} /\ Head(connq[c]) \in ToSet(connq[c])
        /\ connq' \in [Conns -> Seq(Headers \cup {Event})]
    <3> DEFINE S == Headers \cup {Event}
    <3>1. connq \in [Conns -> Seq(S)]
      BY DEF IInv, Types
    <3> HIDE DEF S
    <3>2. connq[c] # <<>> /\ c \in Conns /\ connq' = [connq EXCEPT ![c] = Tail(@)]
      BY <1>2, <1>5, <2>1
    <3>3. connq' \in [Conns -> Seq(S)] /\ Head(connq[c]) \in S
      BY <3>1, <3>2, TakeType
    <3>4. connq[c] \in Seq(S)
      BY <3>1, <3>2
    <3>5. Head(connq[c]) \in ToSet(connq[c])
      BY <3>2, <3>4, FrontIs
    <3> QED
      BY <3>3, <3>5 DEF S
  <2>3. Head(connq[c]) # Event => Below(t) # {}
    <3> SUFFICES ASSUME Head(connq[c]) # Event PROVE Below(t) # {}
      OBVIOUS
    <3>1. stack[t] \in Seq(FrameType) /\ stack[t] # <<>>
      BY <1>1 DEF IInv, Types, Idle
    <3>2. Len(stack[t]) # 1
      BY <1>5 DEF Callback, TakeDirect
    <3>3. Tail(stack[t]) \in Seq(FrameType) /\ Len(Tail(stack[t])) = Len(stack[t]) - 1
      BY <3>1, TakeIs
    <3>4. Len(stack[t]) \in Nat /\ Len(stack[t]) # 0
      BY <3>1, SeqIs
    <3>5. Len(Tail(stack[t])) # 0
      BY <3>2, <3>3, <3>4
    <3> QED
      BY <3>3, <3>5, SeqIs DEF Below
  <2>4. /\ Head(connq[c]) \in Headers \cup {Event} /\ t # "worker"
        /\ Head(connq[c]) # Event => Home[Head(connq[c])] = c
    <3>1. t # "worker"
      BY <1>1, <1>5 DEF FrameFits
    <3> QED
      BY <1>2, <2>2, <3>1 DEF IInv, PlaceInv, Of
  <2>5. a \in FrameType /\ a.k = "process" /\ a.c = c /\ a.b = Head(connq[c])
    <3>1. "process" \in Returns \cup Carrying
      BY DEF Carrying
    <3>2. c \in Conns /\ Head(connq[c]) \in Headers \cup {Event}
      BY <1>2, <2>4
    <3> QED
      BY <3>1, <3>2, FrameIs
  <2>6. FrameFits(t, a)
    BY <1>5, <2>4, <2>5, KindIs DEF FrameFits, Carrying
  <2> HIDE DEF a
  <2>7. StackTo(t, {a} \cup Below(t)) /\ FrameInv'
    <3>1. /\ a.k \in {"callback", "process"} /\ Top(t).k \in {"callback", "process", "event"}
          /\ a.k = "process" /\ a.b = Event => a.c \in Direct
          /\ t \in CompThreads => a.b = Event \/ Below(t) # {}
      BY <1>1, <1>5, <2>3, <2>5
    <3> QED
      BY <1>1, <2>1, <2>5, <2>6, <3>1, TurnKeeps DEF IInv
  <2>8. stack' \in [Threads -> Seq(FrameType)]
    BY <2>7 DEF StackTo
  <2>9. Types'
    BY <1>4, <2>2, <2>8 DEF Callback, TakeDirect, IInv, Types
  <2> QED
    BY <2>1, <2>4, <2>7, <2>9 DEF Stacks, a
<1>6. ASSUME ~(c \in Direct /\ connq[c] # <<>>)
      PROVE  Post /\ connq' = connq /\ Stacks(t, Below(t))
  <2>1. Post /\ connq' = connq /\ Replace(t, <<>>)
    BY <1>6 DEF Callback
  <2>2. StackTo(t, Below(t)) /\ FrameInv'
    BY <1>1, <2>1, PopKeeps DEF IInv
  <2>3. stack' \in [Threads -> Seq(FrameType)]
    BY <2>2 DEF StackTo
  <2>4. Types'
    BY <1>4, <2>1, <2>3 DEF Callback, IInv, Types
  <2> QED
    BY <2>1, <2>2, <2>4 DEF Stacks
<1> QED
  BY <1>1, <1>2, <1>3, <1>5, <1>6

LEMMA ProcessIs ==
  ASSUME IInv, NEW t \in Threads, Runs(t, "process"), NEW c, c = Top(t).c, Top(t).b # Event
  PROVE  /\ ~Idle(t) /\ c \in Conns /\ Top(t).b \in Headers /\ Home[Top(t).b] = c
         /\ Top(t).k = "process" /\ Top(t).k \in Carrying /\ (t = "worker" => c \notin Direct)
<1>1. ~Idle(t) /\ Top(t).k = "process" /\ Top(t) \in FrameType /\ FrameFits(t, Top(t))
  <2>1. ~Idle(t) /\ Top(t).k = "process"
    BY DEF Runs
  <2> QED
    BY <2>1, TopIs DEF IInv
<1> QED
  BY <1>1 DEF FrameType, FrameFits, Carrying

LEMMA ProcessSendIs ==
  ASSUME IInv, NEW t \in Threads, ProcessSend(t), NEW c, c = Top(t).c
  PROVE  Stacks(t, Below(t)) /\ Runs(t, "process") /\ Top(t).b # Event
<1>1. Runs(t, "process") /\ Top(t).b # Event
  BY DEF ProcessSend
<1>2. ~Idle(t) /\ c \in Conns /\ Top(t).b \in Headers
  BY <1>1, ProcessIs
<1>3. StackTo(t, Below(t)) /\ FrameInv'
  BY <1>2, PopKeeps DEF IInv, ProcessSend
<1>4. held' \in [Ports -> SUBSET Headers]
  BY <1>2 DEF ProcessSend, IInv, Types
<1>5. Types'
  BY <1>3, <1>4 DEF ProcessSend, IInv, Types, StackTo
<1> QED
  BY <1>1, <1>3, <1>5 DEF Stacks

LEMMA ProcessRefusedIs ==
  ASSUME IInv, NEW t \in Threads, ProcessRefused(t), NEW c, c = Top(t).c
  PROVE  Stacks(t, {Cb(c)} \cup Below(t)) /\ Runs(t, "process") /\ Top(t).b # Event
<1>1. Runs(t, "process") /\ Top(t).b # Event
  BY DEF ProcessRefused
<1>2. /\ ~Idle(t) /\ c \in Conns /\ Top(t).b \in Headers /\ Top(t).k = "process"
      /\ t = "worker" => c \notin Direct
  BY <1>1, ProcessIs
<1>3. Cb(c) \in FrameType /\ Cb(c).k = "callback" /\ Cb(c).c = c /\ Cb(c).b = Event
  BY <1>2, FrameIs
<1>4. FrameFits(t, Cb(c))
  BY <1>2, <1>3, KindIs DEF FrameFits, Carrying
<1>5. Replace(t, <<Cb(c)>>)
  BY DEF ProcessRefused
<1>6. StackTo(t, {Cb(c)} \cup Below(t)) /\ FrameInv'
  BY <1>2, <1>3, <1>4, <1>5, TurnKeeps DEF IInv
<1>7. poolq' \in [Conns -> Seq(Headers)]
  BY <1>2, AddType DEF ProcessRefused, IInv, Types
<1>8. budget' \in [{"enables", "faults"} -> Nat]
  BY DEF ProcessRefused, IInv, Types, Spend
<1>9. Types'
  BY <1>6, <1>7, <1>8 DEF ProcessRefused, IInv, Types, StackTo
<1> QED
  BY <1>1, <1>6, <1>9 DEF Stacks

LEMMA ProcessEventIs ==
  ASSUME IInv, ~rash', NEW t \in Threads, ProcessEvent(t), NEW c, c = Top(t).c
  PROVE  /\ t = "worker" /\ c \in Conns /\ enabled[c] /\ Frames(t) = {Top(t)} /\ ~Idle(t)
         /\ Top(t).k = "process" /\ Top(t).b = Event
         /\ \/ Stacks(t, {Do("disable", c)})
            \/ Stacks(t, {Do("disable", c), Do("enable", c)})
<1>1. ~Idle(t) /\ Top(t).k = "process" /\ Top(t).b = Event /\ Runs(t, "process")
  BY DEF ProcessEvent, Runs
<1>2. Top(t) \in FrameType /\ Top(t) \in Frames(t)
  BY <1>1, TopIs DEF IInv
<1>3. c \in Conns /\ enabled[c] /\ t = "worker"
  BY <1>1, <1>2 DEF FrameType, ProcessEvent
<1>4. /\ Frames(t) = {Top(t)}
      /\ \/ StackTo(t, {Do("disable", c)}) /\ FrameInv'
         \/ StackTo(t, {Do("disable", c), Do("enable", c)}) /\ FrameInv'
  BY <1>1, <1>3, EventKeeps DEF IInv, ProcessEvent
<1>5. stack' \in [Threads -> Seq(FrameType)]
  BY <1>4 DEF StackTo
<1>6. budget' \in [{"enables", "faults"} -> Nat]
  BY DEF ProcessEvent, IInv, Types, Spend
<1>7. rash' \in BOOLEAN
  BY DEF ProcessEvent
<1>8. Types'
  BY <1>5, <1>6, <1>7 DEF ProcessEvent, IInv, Types
<1> QED
  BY <1>1, <1>3, <1>4, <1>8 DEF Stacks

\* The event is sent to the input port, or dropped.
PassEvent(t) == ForwardEvent(t) \/ DropEvent(t)
LEMMA PassEventIs ==
  ASSUME IInv, NEW t \in Threads, PassEvent(t), NEW c, c = Top(t).c
  PROVE  /\ ~Idle(t) /\ c \in Conns /\ Top(t).k = "process" /\ Top(t).b = Event
         /\ Stacks(t, Below(t))
<1>1. ~Idle(t) /\ Top(t).k = "process" /\ Top(t).b = Event /\ Replace(t, <<>>)
  BY DEF PassEvent, ForwardEvent, DropEvent, Runs
<1>2. c \in Conns
  BY <1>1, TopIs DEF IInv, FrameType
<1>3. StackTo(t, Below(t)) /\ FrameInv'
  BY <1>1, PopKeeps DEF IInv
<1>4. fwd' \in [Conns -> Nat]
  <2>1. fwd \in [Conns -> Nat] /\ (fwd' = fwd \/ fwd' = [fwd EXCEPT ![c] = @ + 1])
    BY DEF PassEvent, ForwardEvent, DropEvent, IInv, Types
  <2>2. fwd[c] + 1 \in Nat
    BY <1>2, <2>1
  <2> QED
    BY <1>2, <2>1, <2>2
<1>5. budget' \in [{"enables", "faults"} -> Nat]
  BY DEF PassEvent, ForwardEvent, DropEvent, IInv, Types, Spend
<1>6. Types'
  BY <1>3, <1>4, <1>5 DEF PassEvent, ForwardEvent, DropEvent, IInv, Types, StackTo
<1> QED
  BY <1>1, <1>2, <1>3, <1>6 DEF Stacks

\* The input port has done with an event.
LEMMA EventBackIs ==
  ASSUME IInv, NEW c \in Conns, EventBack(c)
  PROVE  FrameInv' /\ Types' /\ fwd[c] # 0
<1>1. FrameInv' /\ stack' \in [Threads -> Seq(FrameType)]
  BY StackSame DEF EventBack, IInv
<1>2. fwd' \in [Conns -> Nat] /\ fwd[c] # 0
  BY DEF EventBack, IInv, Types
<1>3. Types'
  BY <1>1, <1>2 DEF EventBack, IInv, Types
<1> QED
  BY <1>1, <1>2, <1>3

\* A component reports an event, and makes the callback.
LEMMA EventTestIs ==
  ASSUME IInv, NEW c \in Conns, EventTest(c), NEW t, t = Thread(Out(c))
  PROVE  t \in CompThreads /\ t \in Threads /\ Idle(t) /\ Stacks(t, {Do("event", c)})
<1>1. t \in CompThreads /\ t \in Threads
  BY PortIs
<1>2. Idle(t) /\ Push(t, <<Do("event", c)>>) /\ Spend("faults")
  BY DEF EventTest
<1>3. StackTo(t, {Do("event", c)}) /\ FrameInv'
  BY <1>1, <1>2, ReportKeeps DEF IInv
<1>4. budget' \in [{"enables", "faults"} -> Nat]
  BY <1>2, SpendIs DEF IInv
<1>5. Types'
  BY <1>3, <1>4 DEF EventTest, IInv, Types, StackTo
<1> QED
  BY <1>1, <1>2, <1>3, <1>5 DEF Stacks

LEMMA EventCallIs ==
  ASSUME IInv, NEW t \in Threads, EventCall(t), NEW c, c = Top(t).c
  PROVE  /\ ~Idle(t) /\ t \in CompThreads /\ c \in Conns /\ Top(t).k = "event" /\ Below(t) = {}
         /\ connq' = [connq EXCEPT ![c] = Append(@, Event)]
         /\ Stacks(t, {Cb(c)})
<1>1. /\ ~Idle(t) /\ Top(t).k = "event" /\ Replace(t, <<Cb(c)>>)
      /\ connq' = [connq EXCEPT ![c] = Append(@, Event)]
  BY DEF EventCall, Runs
<1>2. c \in Conns /\ FrameFits(t, Top(t)) /\ Below(t) = {}
  BY <1>1, TopIs, BelowIs DEF IInv, FrameType
<1>3. t \in CompThreads
  BY <1>1, <1>2 DEF FrameFits
<1>4. Cb(c) \in FrameType /\ Cb(c).k = "callback" /\ Cb(c).c = c /\ Cb(c).b = Event
  BY <1>2, FrameIs
<1>5. FrameFits(t, Cb(c))
  BY <1>3, <1>4, WhoIs, KindIs DEF FrameFits, Carrying
<1>6. StackTo(t, {Cb(c)} \cup Below(t)) /\ FrameInv'
  BY <1>1, <1>4, <1>5, TurnKeeps DEF IInv
<1>7. StackTo(t, {Cb(c)})
  BY <1>2, <1>6
<1> DEFINE S == Headers \cup {Event}
<1>8. connq \in [Conns -> Seq(S)] /\ Event \in S
  BY DEF IInv, Types
<1> HIDE DEF S
<1>9. connq' \in [Conns -> Seq(S)]
  BY <1>1, <1>2, <1>8, AddType
<1>10. Types'
  BY <1>6, <1>9 DEF EventCall, IInv, Types, StackTo, S
<1> QED
  BY <1>1, <1>2, <1>3, <1>6, <1>7, <1>10 DEF Stacks

LEMMA RunsIs ==
  ASSUME IInv, NEW t \in Threads, NEW k \in Control, Runs(t, k), NEW c, c = Top(t).c
  PROVE  /\ ~Idle(t) /\ Top(t).k = k /\ c \in Conns /\ Top(t) \in Frames(t) /\ t \notin CompThreads
         /\ Top(t).c = c /\ CallFits(Top(t)) /\ Frames(t) = {Top(t)} \cup Below(t)
         /\ \A g \in Below(t) : g.c = c /\ g.k \in {"enable", "failed"} /\ CallFits(g)
         /\ k \notin Disabling \cup {"undo out", "wait undo"} => Below(t) = {}
         /\ k \in Disabling => \A g \in Below(t) : g.k = "enable"
         /\ k \in {"undo out", "wait undo"} => \A g \in Below(t) : g.k = "failed"
<1>1. ~Idle(t) /\ Top(t).k = k
  BY DEF Runs
<1>2. /\ Top(t) \in FrameType /\ Top(t) \in Frames(t) /\ FrameFits(t, Top(t))
      /\ Frames(t) = {Top(t)} \cup Below(t) /\ \A g \in Below(t) : Above(Top(t), g)
  BY <1>1, TopIs DEF IInv
<1>3. c \in Conns /\ t \notin CompThreads
  BY <1>1, <1>2 DEF FrameType, FrameFits
<1>4. \A f \in Frames(t) : CallFits(f)
  BY DEF IInv, CallInv
<1>5. \A g \in Below(t) : g.c = c /\ g.k \in {"enable", "failed"}
  BY <1>1, BelowIs DEF IInv
<1>6. k \notin Disabling \cup {"undo out", "wait undo"} => Below(t) = {}
  BY <1>1, BelowIs DEF IInv
<1>7. /\ k \in Disabling => \A g \in Below(t) : g.k = "enable"
      /\ k \in {"undo out", "wait undo"} => \A g \in Below(t) : g.k = "failed"
  <2>1. k \notin Disabling \/ k \notin {"undo out", "wait undo"}
    BY DEF Disabling
  <2> QED
    BY <1>1, <1>2, <2>1 DEF Above
<1> QED
  BY <1>1, <1>2, <1>3, <1>4, <1>5, <1>6, <1>7

\* A step of a call that is not its last.
LEMMA GoesOn ==
  ASSUME IInv, NEW t \in Threads, NEW k \in Control, Runs(t, k), NEW c, c = Top(t).c,
         NEW n \in Control, Replace(t, <<Do(n, c)>>),
         \/ k \in Disabling /\ n \in Disabling
         \/ k \in {"undo out", "wait undo"} /\ n \in {"undo out", "wait undo"}
         \/ k \notin Disabling \cup {"undo out", "wait undo"}
  PROVE  StackTo(t, {Do(n, c)} \cup Below(t)) /\ FrameInv'
<1>1. ~Idle(t) /\ Top(t).k = k /\ c \in Conns
  BY RunsIs
<1>2. Do(n, c) \in FrameType /\ Do(n, c).k = n /\ Do(n, c).c = c /\ Do(n, c).b = Event
  BY <1>1 DEF Do, Frame, FrameType
<1>3. k \notin Disabling \cup {"undo out", "wait undo"} => Below(t) = {}
  BY RunsIs
<1> QED
  BY <1>1, <1>2, <1>3, CallKeeps DEF IInv

LEMMA EndsCall ==
  ASSUME IInv, NEW t \in Threads, NEW k \in Control, Runs(t, k), Replace(t, <<>>)
  PROVE  StackTo(t, Below(t)) /\ FrameInv'
BY PopKeeps DEF IInv, Runs

LEMMA DisableBeginIs ==
  ASSUME IInv, NEW t \in Threads, DisableBegin(t), NEW c, c = Top(t).c
  PROVE  /\ Runs(t, "disable") /\ "disable" \in Control
         /\ enabled[c] => Stacks(t, {Do("stop in", c)} \cup Below(t))
         /\ ~enabled[c] => Stacks(t, Below(t))
<1>1. Runs(t, "disable") /\ "disable" \in Control /\ "stop in" \in Control
  BY DEF DisableBegin, Control, Disabling
<1>2. enabled[c] => StackTo(t, {Do("stop in", c)} \cup Below(t)) /\ FrameInv'
  BY <1>1, GoesOn DEF DisableBegin, Disabling
<1>3. ~enabled[c] => StackTo(t, Below(t)) /\ FrameInv'
  BY <1>1, EndsCall DEF DisableBegin
<1>4. stack' \in [Threads -> Seq(FrameType)]
  BY <1>2, <1>3 DEF StackTo
<1>5. Types'
  BY <1>4 DEF DisableBegin, IInv, Types
<1> QED
  BY <1>1, <1>2, <1>3, <1>5 DEF Stacks

LEMMA PortStopIs ==
  ASSUME IInv, NEW t \in Threads, NEW k, NEW p, NEW n, PortStop(t, k, p, n), NEW c, c = Top(t).c,
         \/ k = "stop in" /\ p = In(c) /\ n = "wait in"
         \/ k = "stop out" /\ p = Out(c) /\ n = "wait out"
         \/ k = "undo out" /\ p = Out(c) /\ n = "wait undo"
  PROVE  /\ k \in Control /\ n \in Control /\ p \in Ports /\ Stacks(t, {Do(n, c)} \cup Below(t))
<1>1. k \in Control /\ n \in Control /\ Runs(t, k)
  BY DEF PortStop, Control, Disabling, Starting
<1>2. c \in Conns
  BY <1>1, RunsIs
<1>3. p \in Ports /\ p[1] = c
  BY <1>2, EndIs
<1>4. /\ \/ k \in Disabling /\ n \in Disabling
         \/ k \in {"undo out", "wait undo"} /\ n \in {"undo out", "wait undo"}
      /\ Replace(t, <<Do(n, c)>>)
  BY <1>3 DEF Disabling, PortStop
<1>5. StackTo(t, {Do(n, c)} \cup Below(t)) /\ FrameInv'
  BY <1>1, <1>4, GoesOn
<1>6. stack' \in [Threads -> Seq(FrameType)]
  BY <1>5 DEF StackTo
<1>7. Types'
  BY <1>3, <1>6 DEF PortStop, IInv, Types
<1> QED
  BY <1>1, <1>3, <1>5, <1>7 DEF Stacks

LEMMA TransitIs ==
  ASSUME Types, FrameInv, NEW c \in Conns
  PROVE  /\ Transit(In(c)) = {} <=> QuietIn(c)
         /\ Transit(Out(c)) = {} <=> QuietOut(c)
<1>1. ASSUME NEW p \in Ports, p[1] = c
      PROVE  Transit(p) = {} <=> /\ held[p] = {} /\ ~InCall({Returning(p)}, c)
                                 /\ p[2] = "in" => fwd[c] = 0
  <2>1. \A t \in Threads : \A i \in DOMAIN stack[t] : stack[t][i] \in Frames(t)
    BY DEF Frames, ToSet
  <2>2. \A t \in Threads : \A f \in Frames(t) : \E i \in DOMAIN stack[t] : stack[t][i] = f
    BY DEF Frames, ToSet
  <2>3. Returning(p) \in Returns
    BY DEF Returning, Returns
  <2>4. \A h \in Headers : /\ Frame(Returning(p), c, h).k = Returning(p)
                           /\ Frame(Returning(p), c, h).c = c
    BY DEF Frame
  <2>5. ASSUME NEW t \in Threads, NEW f \in Frames(t), f.k = Returning(p), f.c = c
        PROVE  f.b \in Headers /\ f = Frame(Returning(p), c, f.b)
    <3>1. f \in FrameType /\ FrameFits(t, f)
      BY TopIs
    <3> QED
      BY <2>3, <2>5, <3>1 DEF FrameType, FrameFits, Frame
  <2>6. ASSUME InCall({Returning(p)}, c) PROVE Transit(p) # {}
    <3>1. PICK t \in Threads : \E f \in Frames(t) : f.k = Returning(p) /\ f.c = c
      BY <2>6 DEF InCall
    <3>2. \E f \in Frames(t) : f.b \in Headers /\ f = Frame(Returning(p), c, f.b)
      BY <2>5, <3>1
    <3> QED
      BY <1>1, <2>2, <3>2 DEF Transit
  <2>7. ASSUME Transit(p) # {}, held[p] = {}, p[2] = "in" => fwd[c] = 0
        PROVE  InCall({Returning(p)}, c)
    <3>1. PICK h \in Headers, t \in Threads : \E i \in DOMAIN stack[t] :
                 stack[t][i] = Frame(Returning(p), p[1], h)
      BY <1>1, <2>7 DEF Transit
    <3> QED
      BY <1>1, <2>1, <2>4, <3>1 DEF InCall
  <2>8. held[p] # {} \/ (p[2] = "in" /\ fwd[c] # 0) => Transit(p) # {}
    <3>1. fwd[c] \in Nat
      BY DEF Types
    <3>2. p[2] = "in" /\ fwd[c] # 0 => Event \in Transit(p)
      BY <1>1, <3>1 DEF Transit
    <3>3. held[p] # {} => Transit(p) # {}
      BY DEF Transit
    <3> QED
      BY <3>2, <3>3
  <2> QED
    BY <2>6, <2>7, <2>8
<1>2. /\ In(c) \in Ports /\ In(c)[1] = c /\ Returning(In(c)) = "return in"
      /\ In(c)[2] = "in" /\ Out(c)[2] = "out" /\ Out(c) \in Ports /\ Out(c)[1] = c /\ Returning(Out(c)) = "return out"
  BY PortIs
<1>3. Transit(In(c)) = {} <=> QuietIn(c)
  BY <1>1, <1>2 DEF QuietIn
<1>4. Transit(Out(c)) = {} <=> QuietOut(c)
  BY <1>1, <1>2 DEF QuietOut
<1> QED
  BY <1>3, <1>4

LEMMA PortEmptyIs ==
  ASSUME IInv, NEW t \in Threads, NEW k, NEW p, NEW next, PortEmpty(t, k, p, next),
         NEW c, c = Top(t).c,
         \/ k = "wait in" /\ p = In(c) /\ next = <<Do("stop out", c)>>
         \/ k = "wait out" /\ p = Out(c) /\ next = <<Do("flush", c)>>
         \/ k = "wait undo" /\ p = Out(c) /\ next = <<>>
  PROVE  /\ k \in Control
         /\ k = "wait in" => QuietIn(c) /\ Stacks(t, {Do("stop out", c)} \cup Below(t))
         /\ k = "wait out" => QuietOut(c) /\ Stacks(t, {Do("flush", c)} \cup Below(t))
         /\ k = "wait undo" => QuietOut(c) /\ Stacks(t, Below(t))
<1>1. k \in Control /\ Runs(t, k) /\ Transit(p) = {} /\ Replace(t, next)
  BY DEF PortEmpty, Control, Disabling, Starting
<1>2. c \in Conns
  BY <1>1, RunsIs
<1>3. (k = "wait in" => QuietIn(c)) /\ (k \in {"wait out", "wait undo"} => QuietOut(c))
  BY <1>1, <1>2, TransitIs DEF IInv
<1>4. k = "wait in" => StackTo(t, {Do("stop out", c)} \cup Below(t)) /\ FrameInv'
  BY <1>1, GoesOn DEF Control, Disabling
<1>5. k = "wait out" => StackTo(t, {Do("flush", c)} \cup Below(t)) /\ FrameInv'
  BY <1>1, GoesOn DEF Control, Disabling
<1>6. k = "wait undo" => StackTo(t, Below(t)) /\ FrameInv'
  BY <1>1, EndsCall
<1>7. stack' \in [Threads -> Seq(FrameType)]
  BY <1>4, <1>5, <1>6 DEF StackTo
<1>8. Types'
  BY <1>7 DEF PortEmpty, IInv, Types
<1> QED
  BY <1>1, <1>3, <1>4, <1>5, <1>6, <1>8 DEF Stacks

LEMMA FlushQueueIs ==
  ASSUME IInv, NEW t \in Threads, FlushQueue(t), NEW c, c = Top(t).c
  PROVE  /\ Runs(t, "flush") /\ "flush" \in Control /\ c \in Conns /\ connq[c] # <<>>
         /\ connq' = [connq EXCEPT ![c] = Tail(@)]
         /\ Head(connq[c]) = Event => poolq' = poolq /\ stack' = stack /\ FrameInv' /\ Types'
         /\ Head(connq[c]) # Event =>
              /\ Head(connq[c]) \in Headers /\ Home[Head(connq[c])] = c
              /\ poolq' = [poolq EXCEPT ![c] = Append(@, Head(connq[c]))]
              /\ Stacks(t, {Cb(c)} \cup Frames(t))
<1> DEFINE h == Head(connq[c])
<1>1. /\ Runs(t, "flush") /\ "flush" \in Control /\ connq[c] # <<>>
      /\ connq' = [connq EXCEPT ![c] = Tail(@)]
      /\ h = Event => poolq' = poolq /\ stack' = stack
      /\ h # Event => poolq' = [poolq EXCEPT ![c] = Append(@, h)] /\ Push(t, <<Cb(c)>>)
  BY DEF FlushQueue, Control, Disabling
<1>2. c \in Conns
  BY <1>1, RunsIs
<1> DEFINE S == Headers \cup {Event}
<1>3. connq \in [Conns -> Seq(S)] /\ poolq \in [Conns -> Seq(Headers)]
  BY DEF IInv, Types
<1> HIDE DEF S
<1>4. connq' \in [Conns -> Seq(S)] /\ connq[c] \in Seq(S)
  BY <1>1, <1>2, <1>3, TakeType
<1>5. h \in S /\ h \in ToSet(connq[c])
  BY <1>1, <1>4, FrontIs
<1>6. h # Event => h \in Headers /\ Home[h] = c
  BY <1>2, <1>5 DEF S, IInv, PlaceInv, Of
<1> HIDE DEF h
<1>7. poolq' \in [Conns -> Seq(Headers)]
  <2>1. CASE h = Event
    BY <1>1, <1>3, <2>1
  <2>2. CASE h # Event
    <3>1. h \in Headers /\ poolq' = [poolq EXCEPT ![c] = Append(@, h)]
      BY <1>1, <1>6, <2>2
    <3> QED
      BY <1>2, <1>3, <3>1, AddType
  <2> QED
    BY <2>1, <2>2
<1>8. h = Event => FrameInv' /\ stack' \in [Threads -> Seq(FrameType)]
  BY <1>1, StackSame DEF IInv
<1>9. h # Event => StackTo(t, {Cb(c)} \cup Frames(t)) /\ FrameInv'
  BY <1>1, <1>2, FlushKeeps DEF IInv
<1>10. stack' \in [Threads -> Seq(FrameType)]
  BY <1>8, <1>9 DEF StackTo
<1>11. Types'
  BY <1>4, <1>7, <1>10 DEF FlushQueue, IInv, Types, S
<1> QED
  BY <1>1, <1>2, <1>6, <1>8, <1>9, <1>11 DEF Stacks, h

LEMMA FlushDoneIs ==
  ASSUME IInv, NEW t \in Threads, FlushDone(t), NEW c, c = Top(t).c
  PROVE  Runs(t, "flush") /\ "flush" \in Control /\ Stacks(t, Below(t))
<1>1. Runs(t, "flush") /\ "flush" \in Control /\ Replace(t, <<>>)
  BY DEF FlushDone, Control, Disabling
<1>2. StackTo(t, Below(t)) /\ FrameInv'
  BY <1>1, EndsCall
<1>3. c \in Conns
  BY <1>1, RunsIs
<1>4. Types'
  BY <1>2, <1>3 DEF FlushDone, IInv, Types, StackTo
<1> QED
  BY <1>1, <1>2, <1>4 DEF Stacks

LEMMA EnableBeginIs ==
  ASSUME IInv, NEW t \in Threads, EnableBegin(t), NEW c, c = Top(t).c
  PROVE  /\ Runs(t, "enable") /\ "enable" \in Control /\ c \in Conns
         /\ enabled[c] => Stacks(t, {}) /\ poolq' = poolq /\ fits' = fits
         /\ ~enabled[c] => /\ Stacks(t, {Do("start out", c)})
                           /\ fits' = [fits EXCEPT ![c] = TRUE]
                           /\ fits[c] => poolq' = poolq
                           /\ ~fits[c] => /\ poolq'[c] \in Seq(Of(c)) /\ ToSet(poolq'[c]) = Of(c)
                                          /\ Once(poolq'[c])
                                          /\ \A d \in Conns \ {c} : poolq'[d] = poolq[d]
<1>1. Runs(t, "enable") /\ "enable" \in Control /\ "start out" \in Control
  BY DEF EnableBegin, Control, Starting
<1>2. c \in Conns /\ Below(t) = {}
  <2>1. "enable" \notin Disabling \cup {"undo out", "wait undo"}
    BY DEF Disabling
  <2> QED
    BY <1>1, <2>1, RunsIs
<1>3. ASSUME enabled[c] PROVE StackTo(t, {}) /\ FrameInv' /\ poolq' = poolq /\ fits' = fits
  <2>1. Replace(t, <<>>) /\ poolq' = poolq /\ fits' = fits
    BY <1>3 DEF EnableBegin
  <2> QED
    BY <1>1, <1>2, <2>1, EndsCall
<1>4. ASSUME ~enabled[c]
      PROVE  /\ StackTo(t, {Do("start out", c)}) /\ FrameInv'
             /\ fits' = [fits EXCEPT ![c] = TRUE]
             /\ fits[c] => poolq' = poolq
             /\ ~fits[c] => poolq' = [poolq EXCEPT ![c] = SetToSeq(Of(c))]
  <2>1. /\ Replace(t, <<Do("start out", c)>>) /\ fits' = [fits EXCEPT ![c] = TRUE]
        /\ fits[c] => poolq' = poolq
        /\ ~fits[c] => poolq' = [poolq EXCEPT ![c] = SetToSeq(Of(c))]
    BY <1>4 DEF EnableBegin
  <2>2. "enable" \notin Disabling \cup {"undo out", "wait undo"}
    BY DEF Disabling
  <2>3. StackTo(t, {Do("start out", c)} \cup Below(t)) /\ FrameInv'
    BY <1>1, <2>1, <2>2, GoesOn
  <2> QED
    BY <1>2, <2>1, <2>3
<1>5. /\ SetToSeq(Of(c)) \in Seq(Of(c)) /\ ToSet(SetToSeq(Of(c))) = Of(c) /\ Once(SetToSeq(Of(c)))
      /\ Of(c) \subseteq Headers
  <2>1. Of(c) \subseteq Headers
    BY DEF Of
  <2>2. IsFiniteSet(Of(c))
    BY <2>1, ConnAssumption, FS_Subset
  <2> QED
    BY <2>1, <2>2, SetToSeqIs
<1>6. SetToSeq(Of(c)) \in Seq(Headers)
  BY <1>5
<1>7. poolq \in [Conns -> Seq(Headers)]
  BY DEF IInv, Types
<1> DEFINE s == SetToSeq(Of(c))
<1> HIDE DEF s
<1>8. ~enabled[c] /\ ~fits[c] => /\ poolq'[c] = s /\ \A d \in Conns \ {c} : poolq'[d] = poolq[d]
                                 /\ poolq' \in [Conns -> Seq(Headers)]
  BY <1>2, <1>4, <1>6, <1>7 DEF s
<1>9. poolq' \in [Conns -> Seq(Headers)] /\ fits' \in [Conns -> BOOLEAN]
  BY <1>3, <1>4, <1>7, <1>8 DEF IInv, Types
<1>10. stack' \in [Threads -> Seq(FrameType)]
  BY <1>3, <1>4 DEF StackTo
<1>11. Types'
  BY <1>9, <1>10 DEF EnableBegin, IInv, Types
<1>12. ~enabled[c] /\ ~fits[c] =>
         /\ poolq'[c] \in Seq(Of(c)) /\ ToSet(poolq'[c]) = Of(c) /\ Once(poolq'[c])
  BY <1>5, <1>8 DEF s
<1> QED
  BY <1>1, <1>2, <1>3, <1>4, <1>8, <1>11, <1>12 DEF Stacks

LEMMA StartOutIs ==
  ASSUME IInv, NEW t \in Threads, StartOut(t), NEW c, c = Top(t).c
  PROVE  /\ Runs(t, "start out") /\ "start out" \in Control /\ c \in Conns /\ Below(t) = {}
         /\ Stacks(t, {Do("start in", c)})
<1>1. /\ Runs(t, "start out") /\ "start out" \in Control /\ "start in" \in Control
      /\ "start out" \notin Disabling \cup {"undo out", "wait undo"}
      /\ Replace(t, <<Do("start in", c)>>)
  BY DEF StartOut, Control, Disabling, Starting
<1>2. c \in Conns /\ Below(t) = {}
  BY <1>1, RunsIs
<1>3. StackTo(t, {Do("start in", c)} \cup Below(t)) /\ FrameInv'
  BY <1>1, GoesOn
<1>4. StackTo(t, {Do("start in", c)}) /\ FrameInv'
  BY <1>2, <1>3
<1>5. Types'
  BY <1>2, <1>4, PortIs DEF StartOut, IInv, Types, StackTo
<1> QED
  BY <1>1, <1>2, <1>4, <1>5 DEF Stacks

LEMMA StartInIs ==
  ASSUME IInv, NEW t \in Threads, StartIn(t), NEW c, c = Top(t).c
  PROVE  /\ Runs(t, "start in") /\ "start in" \in Control /\ c \in Conns /\ Below(t) = {}
         /\ Stacks(t, {})
<1>1. /\ Runs(t, "start in") /\ "start in" \in Control
      /\ "start in" \notin Disabling \cup {"undo out", "wait undo"} /\ Replace(t, <<>>)
  BY DEF StartIn, Control, Disabling, Starting
<1>2. c \in Conns /\ Below(t) = {}
  BY <1>1, RunsIs
<1>3. StackTo(t, {}) /\ FrameInv'
  BY <1>1, <1>2, EndsCall
<1>4. Types'
  BY <1>2, <1>3, PortIs DEF StartIn, IInv, Types, StackTo
<1> QED
  BY <1>1, <1>2, <1>3, <1>4 DEF Stacks

LEMMA StartFailsIs ==
  ASSUME IInv, NEW t \in Threads, NEW k, NEW p, NEW next, StartFails(t, k, p, next),
         NEW c, c = Top(t).c,
         \/ k = "start out" /\ p = Out(c) /\ next = <<Do("failed", c)>>
         \/ k = "start in" /\ p = In(c) /\ next = <<Do("undo out", c), Do("failed", c)>>
  PROVE  /\ k \in {"start out", "start in"} /\ k \in Control /\ c \in Conns /\ Runs(t, k)
         /\ Below(t) = {}
         /\ k = "start out" => Stacks(t, {Do("failed", c)})
         /\ k = "start in" => Stacks(t, {Do("undo out", c), Do("failed", c)})
<1>1. /\ k \in Control /\ Runs(t, k) /\ Replace(t, next) /\ "failed" \in Control
      /\ k \notin Disabling \cup {"undo out", "wait undo"}
  BY DEF StartFails, Control, Starting, Disabling
<1>2. c \in Conns /\ Below(t) = {}
  BY <1>1, RunsIs
<1>3. ASSUME k = "start out" PROVE StackTo(t, {Do("failed", c)}) /\ FrameInv'
  <2>1. StackTo(t, {Do("failed", c)} \cup Below(t)) /\ FrameInv'
    BY <1>1, <1>3, GoesOn
  <2> QED
    BY <1>2, <2>1
<1>4. ASSUME k = "start in" PROVE StackTo(t, {Do("undo out", c), Do("failed", c)}) /\ FrameInv'
  BY <1>1, <1>2, <1>4, UndoKeeps DEF IInv
<1>5. stack' \in [Threads -> Seq(FrameType)]
  BY <1>3, <1>4 DEF StackTo
<1>6. budget' \in [{"enables", "faults"} -> Nat]
  <2>1. budget' = budget \/ Spend("faults")
    BY DEF StartFails
  <2>2. budget \in [{"enables", "faults"} -> Nat]
    BY DEF IInv, Types
  <2> QED
    BY <2>1, <2>2, SpendIs DEF IInv
<1>7. Types'
  BY <1>5, <1>6 DEF StartFails, IInv, Types
<1> QED
  BY <1>1, <1>2, <1>3, <1>4, <1>7 DEF Stacks

LEMMA EnableFailedIs ==
  ASSUME IInv, NEW t \in Threads, EnableFailed(t), NEW c, c = Top(t).c
  PROVE  /\ Runs(t, "failed") /\ "failed" \in Control /\ c \in Conns /\ Below(t) = {}
         /\ Stacks(t, {})
<1>1. /\ Runs(t, "failed") /\ "failed" \in Control
      /\ "failed" \notin Disabling \cup {"undo out", "wait undo"} /\ Replace(t, <<>>)
  BY DEF EnableFailed, Control, Disabling, Starting
<1>2. c \in Conns /\ Below(t) = {}
  BY <1>1, RunsIs
<1>3. StackTo(t, {}) /\ FrameInv'
  BY <1>1, <1>2, EndsCall
<1>4. Types'
  BY <1>2, <1>3 DEF EnableFailed, IInv, Types, StackTo
<1> QED
  BY <1>1, <1>2, <1>3, <1>4 DEF Stacks

\* The worker visits every connection, from the one where it starts.
LEMMA VisitIs ==
  ASSUME Types
  PROVE  /\ \A i \in 1..NumConns : Visit(i) \in Conns
         /\ \A c \in Conns : \E i \in 1..NumConns : Visit(i) = c
<1>1. current \in 0..(NumConns - 1) /\ NumConns \in Nat \ {0}
  BY ConnAssumption DEF Types
<1>2. \A i \in 1..NumConns : Visit(i) \in Conns
  BY <1>1 DEF Visit, Conns
<1>3. ASSUME NEW c \in 1..NumConns PROVE \E i \in 1..NumConns : Visit(i) = c
  <2>1. (c - 1) % NumConns = c - 1 /\ (c - 1 + NumConns) % NumConns = c - 1
    BY <1>1
  <2>2. CASE c > current
    <3>1. c - current \in 1..NumConns /\ current + (c - current) - 1 = c - 1
      BY <1>1, <2>2
    <3>2. Visit(c - current) = c
      BY <1>1, <2>1, <3>1 DEF Visit
    <3> QED
      BY <3>1, <3>2
  <2>3. CASE ~(c > current)
    <3>1. /\ c - current + NumConns \in 1..NumConns
          /\ current + (c - current + NumConns) - 1 = c - 1 + NumConns
      BY <1>1, <2>3
    <3>2. Visit(c - current + NumConns) = c
      BY <1>1, <2>1, <3>1 DEF Visit
    <3> QED
      BY <3>1, <3>2
  <2> QED
    BY <2>2, <2>3
<1> QED
  BY <1>2, <1>3 DEF Conns

LEMMA SendEmptyIs ==
  ASSUME IInv, SendEmpty, NEW c, c = Visit(work.i), NEW h, h = Head(poolq[c])
  PROVE  /\ At("empties") /\ work.i \in 1..NumConns
         /\ c \in Conns /\ poolq[c] # <<>> /\ h \in Headers /\ Home[h] = c /\ h \in ToSet(poolq[c])
         /\ poolq' = [poolq EXCEPT ![c] = Tail(@)]
         /\ Frames("worker") = {} /\ Stacks("worker", {Frame("empty", c, h)})
<1>1. /\ Idle("worker") /\ poolq[c] # <<>> /\ poolq' = [poolq EXCEPT ![c] = Tail(@)]
      /\ Push("worker", <<Frame("empty", c, h)>>) /\ work.i <= NumConns
      /\ At("empties")
  BY DEF SendEmpty, At
<1>2. work.i \in 1..NumConns /\ poolq \in [Conns -> Seq(Headers)]
  BY <1>1, ConnAssumption DEF IInv, Types, Work
<1>3. c \in Conns
  BY <1>2, VisitIs DEF IInv
<1>4. poolq[c] \in Seq(Headers) /\ poolq' \in [Conns -> Seq(Headers)]
  BY <1>1, <1>2, <1>3, TakeType
<1>5. h \in Headers /\ h \in ToSet(poolq[c])
  BY <1>1, <1>4, FrontIs
<1>6. Home[h] = c /\ h # Event
  BY <1>3, <1>5, EventAssumption DEF IInv, PlaceInv, Of
<1> DEFINE a == Frame("empty", c, h)
<1>7. a \in FrameType /\ a.k = "empty" /\ a.k \in Carrying /\ a.c = c /\ a.b = h
  BY <1>3, <1>5, FrameIs DEF Carrying
<1> HIDE DEF a
<1>8. StackTo("worker", {a}) /\ FrameInv'
  BY <1>1, <1>6, <1>7, BeginKeeps DEF IInv, a
<1>9. Frames("worker") = {}
  BY <1>1, PortIs, TopIs DEF IInv
<1>10. work' \in Work
  BY DEF SendEmpty, IInv, Types, Work
<1>11. stack' \in [Threads -> Seq(FrameType)]
  BY <1>8 DEF StackTo
<1>12. Types'
  BY <1>4, <1>10, <1>11 DEF SendEmpty, IInv, Types
<1> QED
  BY <1>1, <1>2, <1>3, <1>5, <1>6, <1>8, <1>9, <1>12 DEF Stacks, a

LEMMA EmptySentIs ==
  ASSUME IInv, EmptySent, NEW c, c = Top("worker").c, NEW h, h = Top("worker").b
  PROVE  /\ ~Idle("worker") /\ Top("worker").k = "empty" /\ c \in Conns /\ h \in Headers
         /\ Home[h] = c /\ work.at = "sending" /\ Frames("worker") = {Top("worker")}
         /\ Stacks("worker", {})
<1>1. ~Idle("worker") /\ Top("worker").k = "empty" /\ Replace("worker", <<>>)
  BY DEF EmptySent, Runs
<1>2. "worker" \in Threads
  BY PortIs
<1>3. /\ Top("worker") \in FrameType /\ FrameFits("worker", Top("worker"))
      /\ Frames("worker") = {Top("worker")} \cup Below("worker")
      /\ Below("worker") = {}
  BY <1>1, <1>2, TopIs, BelowIs DEF IInv
<1>4. c \in Conns /\ h \in Headers /\ Home[h] = c
  BY <1>1, <1>3 DEF FrameType, FrameFits, Carrying
<1>5. work.at = "sending"
  BY <1>1, <1>3 DEF IInv, PhaseInv
<1>6. StackTo("worker", {}) /\ FrameInv'
  BY <1>1, <1>2, <1>3, PopKeeps DEF IInv
<1>7. poolq' \in [Conns -> Seq(Headers)]
  <2>1. poolq \in [Conns -> Seq(Headers)]
    BY DEF IInv, Types
  <2>2. poolq' = poolq \/ poolq' = [poolq EXCEPT ![c] = <<h>> \o @]
    BY DEF EmptySent
  <2>3. CASE poolq' = poolq
    BY <2>1, <2>3
  <2>4. CASE poolq' = [poolq EXCEPT ![c] = <<h>> \o @]
    BY <1>4, <2>1, <2>4, BackType
  <2> QED
    BY <2>2, <2>3, <2>4
<1>8. held' \in [Ports -> SUBSET Headers] /\ refused' \subseteq Conns
  <2>1. held' = held \/ held' = [held EXCEPT ![Out(c)] = @ \cup {h}]
    BY DEF EmptySent
  <2>2. held \in [Ports -> SUBSET Headers] /\ refused \subseteq Conns
    BY DEF IInv, Types
  <2>3. held' \in [Ports -> SUBSET Headers]
    BY <1>4, <2>1, <2>2
  <2>4. refused' = refused \/ refused' = refused \cup {c}
    BY DEF EmptySent
  <2> QED
    BY <1>4, <2>2, <2>3, <2>4
<1>9. budget' \in [{"enables", "faults"} -> Nat]
  BY SpendIs DEF EmptySent, IInv, Types
<1>10. work' \in Work
  <2>1. work.i <= NumConns
    BY <1>3 DEF IInv, PhaseInv
  <2>2. NumConns \in Nat /\ work \in Work
    BY ConnAssumption DEF IInv, Types
  <2>3. work.i + 1 \in 1..(NumConns + 1)
    BY <2>1, <2>2 DEF Work
  <2>4. \/ work' = [work EXCEPT !.at = "empties"]
        \/ work' = [work EXCEPT !.at = "empties", !.i = @ + 1, !.again = FALSE]
    BY DEF EmptySent
  <2> QED
    BY <2>2, <2>3, <2>4 DEF Work
<1>11. stack' \in [Threads -> Seq(FrameType)]
  BY <1>6 DEF StackTo
<1>12. Types'
  BY <1>7, <1>8, <1>9, <1>10, <1>11 DEF EmptySent, IInv, Types
<1> QED
  BY <1>1, <1>3, <1>4, <1>5, <1>6, <1>12 DEF Stacks

LEMMA TakeFullIs ==
  ASSUME IInv, TakeFull, NEW c, c = Visit(work.i), NEW b, b = Head(connq[c])
  PROVE  /\ At("fulls") /\ work.i \in 1..NumConns
         /\ c \in Conns /\ c \notin Direct /\ connq[c] # <<>> /\ b \in Headers \cup {Event}
         /\ b # Event => Home[b] = c
         /\ b \in ToSet(connq[c])
         /\ connq' = [connq EXCEPT ![c] = Tail(@)]
         /\ Frames("worker") = {} /\ Stacks("worker", {Frame("process", c, b)})
<1>1. /\ Idle("worker") /\ connq[c] # <<>> /\ connq' = [connq EXCEPT ![c] = Tail(@)]
      /\ Push("worker", <<Frame("process", c, b)>>) /\ work.i <= NumConns /\ c \notin Direct
      /\ At("fulls")
  BY DEF TakeFull, At
<1> DEFINE S == Headers \cup {Event}
<1>2. work.i \in 1..NumConns /\ connq \in [Conns -> Seq(S)]
  BY <1>1, ConnAssumption DEF IInv, Types, Work
<1>3. c \in Conns
  BY <1>2, VisitIs DEF IInv
<1> HIDE DEF S
<1>4. connq[c] \in Seq(S) /\ connq' \in [Conns -> Seq(S)]
  BY <1>1, <1>2, <1>3, TakeType
<1>5. b \in S /\ b \in ToSet(connq[c])
  BY <1>1, <1>4, FrontIs
<1>6. b # Event => Home[b] = c
  BY <1>3, <1>5 DEF IInv, PlaceInv, Of, S
<1> DEFINE a == Frame("process", c, b)
<1>7. a \in FrameType /\ a.k = "process" /\ a.k \in Carrying /\ a.c = c /\ a.b = b
  BY <1>3, <1>5, FrameIs DEF Carrying, S
<1> HIDE DEF a
<1>8. StackTo("worker", {a}) /\ FrameInv'
  BY <1>1, <1>6, <1>7, BeginKeeps DEF IInv, a
<1>9. Frames("worker") = {}
  BY <1>1, PortIs, TopIs DEF IInv
<1>10. work' \in Work
  BY DEF TakeFull, IInv, Types, Work
<1>11. stack' \in [Threads -> Seq(FrameType)]
  BY <1>8 DEF StackTo
<1>12. Types'
  BY <1>4, <1>10, <1>11 DEF TakeFull, IInv, Types, S
<1> QED
  BY <1>1, <1>2, <1>3, <1>5, <1>6, <1>8, <1>9, <1>12 DEF Stacks, a, S

\* The steps of the worker on its own variables.
LEMMA WorkerTypes ==
  ASSUME IInv, WorkerWake \/ NextEmpties \/ NextFulls \/ EndPass
  PROVE  stack' = stack /\ FrameInv' /\ Types'
<1>1. stack' = stack /\ FrameInv' /\ stack' \in [Threads -> Seq(FrameType)]
  BY StackSame DEF WorkerWake, NextEmpties, NextFulls, EndPass, IInv
<1>2. NumConns \in Nat \ {0}
  BY ConnAssumption
<1>3. Types /\ current \in 0..(NumConns - 1) /\ work \in Work
  BY DEF IInv, Types
<1>4. current' \in 0..(NumConns - 1)
  BY <1>2, <1>3 DEF WorkerWake, NextEmpties, NextFulls, EndPass
<1>5. sema' \in 0..MaxSema
  BY BoundAssumption DEF WorkerWake, NextEmpties, NextFulls, EndPass, IInv, Types
<1>6. work' \in Work
  <2>1. CASE WorkerWake
    BY <1>2, <2>1 DEF WorkerWake, Fresh, Work
  <2>2. CASE NextEmpties
    <3>1. \/ work' = [work EXCEPT !.at = "fulls", !.i = 1]
          \/ work.i <= NumConns /\ work' = [work EXCEPT !.i = work.i + 1]
      BY <1>2, <1>3, <2>2 DEF NextEmpties, Rest, Work
    <3>2. CASE work' = [work EXCEPT !.at = "fulls", !.i = 1]
      <4>1. 1 \in 1..(NumConns + 1) /\ work \in Work
        BY <1>2, <1>3
      <4> QED
        BY <3>2, <4>1 DEF Work
    <3>3. CASE work.i <= NumConns /\ work' = [work EXCEPT !.i = work.i + 1]
      <4>1. work.i + 1 \in 1..(NumConns + 1)
        BY <1>2, <1>3, <3>3 DEF Work
      <4> QED
        BY <1>3, <3>3, <4>1 DEF Work
    <3> QED
      BY <3>1, <3>2, <3>3
  <2>3. CASE NextFulls
    <3>1. work.i + 1 \in 1..(NumConns + 1)
      BY <1>2, <1>3, <2>3 DEF NextFulls, Work
    <3> QED
      BY <1>3, <2>3, <3>1 DEF NextFulls, Rest, Work
  <2>4. CASE EndPass
    BY <1>2, <2>4 DEF EndPass, Fresh, Work
  <2> QED
    BY <2>1, <2>2, <2>3, <2>4
<1>8. skipped' \subseteq Conns
  <2>1. skipped' = skipped \/ (NextFulls /\ skipped' \in {skipped \ {Visit(work.i)},
                                                         skipped \cup {Visit(work.i)}})
    BY DEF WorkerWake, NextEmpties, NextFulls, EndPass
  <2>2. ASSUME NextFulls PROVE Visit(work.i) \in Conns
    <3>1. work.i \in 1..NumConns
      BY <1>2, <1>3, <2>2 DEF NextFulls, Work
    <3> QED
      BY <1>3, <3>1, VisitIs
  <2>3. skipped \subseteq Conns
    BY <1>3 DEF Types
  <2> QED
    BY <2>1, <2>2, <2>3
<1>7. UNCHANGED <<on, held, fwd, poolq, connq, fits, refused, rash, enabled, alive, stop, app,
                  index, budget>>
  BY DEF WorkerWake, NextEmpties, NextFulls, EndPass
<1> QED
  BY <1>1, <1>3, <1>4, <1>5, <1>6, <1>7, <1>8 DEF Types


LEMMA EachIs ==
  ASSUME IInv, NEW call, NEW k \in {"enable", "disable"}, Each(call, k)
  PROVE  /\ app = call /\ index \in Conns /\ Frames("app") = {} /\ Idle("app")
         /\ Stacks("app", {Do(k, index)})
<1>1. /\ app = call /\ Idle("app") /\ index <= NumConns /\ Push("app", <<Do(k, index)>>)
      /\ index' = index + 1
  BY DEF Each
<1>2. index \in Conns /\ index' \in 1..(NumConns + 1)
  BY <1>1, ConnAssumption DEF IInv, Types, Conns
<1>3. Frames("app") = {}
  BY <1>1, PortIs, TopIs DEF IInv
<1> DEFINE a == Do(k, index)
<1>4. k \in Control
  BY DEF Control, Disabling
<1>5. a \in FrameType /\ a.k \in Control /\ a.b = Event
  BY <1>2, <1>4, FrameIs
<1> HIDE DEF a
<1>6. StackTo("app", {a}) /\ FrameInv'
  BY <1>1, <1>5, BeginKeeps DEF IInv, a
<1>7. stack' \in [Threads -> Seq(FrameType)]
  BY <1>6 DEF StackTo
<1>8. Types'
  BY <1>2, <1>7 DEF Each, IInv, Types
<1> QED
  BY <1>1, <1>2, <1>3, <1>6, <1>8 DEF Stacks, a

\* The steps of the client on its own variables.
ClientOwn == GraphEnable \/ EnableEnds \/ GraphDisable \/ Join \/ DisableEnds \/ GraphDestroy
             \/ DestroyPool
LEMMA ClientTypes ==
  ASSUME IInv, ClientOwn
  PROVE  stack' = stack /\ FrameInv' /\ Types' /\ UNCHANGED <<flow, enabled, current>>
<1>1. /\ stack' = stack /\ UNCHANGED <<flow, enabled, current>>
  BY DEF ClientOwn, GraphEnable, EnableEnds, GraphDisable, Join, DisableEnds, GraphDestroy,
         DestroyPool
<1>2. FrameInv' /\ stack' \in [Threads -> Seq(FrameType)]
  BY <1>1, StackSame DEF IInv
<1>3. Types /\ NumConns \in Nat \ {0}
  BY ConnAssumption DEF IInv
<1>4. sema' \in 0..MaxSema /\ stop' \in BOOLEAN
  <2>1. (Post \/ sema' = sema) /\ (stop' = stop \/ stop' = TRUE)
    BY DEF ClientOwn, GraphEnable, EnableEnds, GraphDisable, Join, DisableEnds, GraphDestroy,
           DestroyPool
  <2>2. sema \in 0..MaxSema /\ stop \in BOOLEAN
    BY <1>3 DEF Types
  <2>3. Post => sema' \in 0..MaxSema
    BY <2>2, BoundAssumption DEF Post
  <2> QED
    BY <2>1, <2>2, <2>3
<1>5. work' \in Work
  BY <1>3 DEF ClientOwn, GraphEnable, EnableEnds, GraphDisable, Join, DisableEnds, GraphDestroy,
         DestroyPool, Types, Work
<1>6. /\ app' \in {"off", "enabling", "failed", "on", "joining", "failing", "disabling", "destroying"}
      /\ index' \in 1..(NumConns + 1)
  BY <1>3 DEF ClientOwn, GraphEnable, EnableEnds, GraphDisable, Join, DisableEnds, GraphDestroy,
         DestroyPool, Types
<1>7. alive' \in [Conns -> BOOLEAN]
  BY <1>3 DEF ClientOwn, GraphEnable, EnableEnds, GraphDisable, Join, DisableEnds, GraphDestroy,
         DestroyPool, Types
<1>8. budget' \in [{"enables", "faults"} -> Nat]
  BY <1>3, SpendIs DEF ClientOwn, GraphEnable, EnableEnds, GraphDisable, Join, DisableEnds,
         GraphDestroy, DestroyPool, Types
<1> QED
  BY <1>1, <1>2, <1>3, <1>4, <1>5, <1>6, <1>7, <1>8 DEF Types

-----------------------------------------------------------------------------
\* Where the headers are.
Still(h) ==
  LET c == Home[h]
  IN /\ h \in ToSet(poolq'[c]) <=> h \in ToSet(poolq[c])
     /\ h \in ToSet(connq'[c]) <=> h \in ToSet(connq[c])
     /\ h \in held'[Out(c)] <=> h \in held[Out(c)]
     /\ h \in held'[In(c)] <=> h \in held[In(c)]
     /\ Carriers(h)' = Carriers(h)

LEMMA StillIs ==
  ASSUME NEW h \in Headers, Still(h)
  PROVE  (Alone(h) => Alone(h)') /\ (Somewhere(h) => Somewhere(h)')
<1>1. Alone(h) => Alone(h)'
  BY DEF Still, Alone
<1>2. Somewhere(h) => Somewhere(h)'
  BY DEF Still, Somewhere
<1> QED
  BY <1>1, <1>2

LEMMA PlaceStep ==
  ASSUME IInv, NEW G \in SUBSET Headers,
         \A h \in Headers \ G : Still(h),
         \A h \in G : Alone(h)' /\ (fits'[Home[h]] \/ enabled'[Home[h]] => Somewhere(h)'),
         \A c \in Conns : fits'[c] \/ enabled'[c] => fits[c] \/ enabled[c] \/ Of(c) \subseteq G,
         \A p \in Ports : held'[p] \subseteq Of(p[1]),
         \A c \in Conns : /\ ToSet(poolq'[c]) \subseteq Of(c)
                          /\ ToSet(connq'[c]) \subseteq Of(c) \cup {Event}
                          /\ Once(poolq'[c]) /\ Once(connq'[c]),
         \A c \in Conns : ~fits'[c] /\ ~enabled'[c] => Bare(connq'[c])
  PROVE  PlaceInv'
<1>1. \A h \in Headers : Home[h] \in Conns /\ h \in Of(Home[h])
  BY ConnAssumption DEF Of
<1>2. /\ \A h \in Headers : Alone(h)
      /\ \A h \in Headers : fits[Home[h]] \/ enabled[Home[h]] => Somewhere(h)
  BY DEF IInv, PlaceInv
<1>3. ASSUME NEW h \in Headers PROVE Alone(h)'
  BY <1>2, StillIs
<1>4. ASSUME NEW h \in Headers, fits'[Home[h]] \/ enabled'[Home[h]] PROVE Somewhere(h)'
  <2>1. CASE h \in G
    BY <1>4, <2>1
  <2>2. CASE h \notin G
    <3>1. fits[Home[h]] \/ enabled[Home[h]]
      BY <1>1, <1>4, <2>2
    <3> QED
      BY <1>2, <2>2, <3>1, StillIs
  <2> QED
    BY <2>1, <2>2
<1> QED
  BY <1>3, <1>4 DEF PlaceInv

\* Nothing has moved.
LEMMA PlaceSame ==
  ASSUME IInv, UNCHANGED <<held, poolq, connq>>, \A h \in Headers : Carriers(h)' = Carriers(h),
         \A c \in Conns : fits'[c] \/ enabled'[c] => fits[c] \/ enabled[c],
         \A c \in Conns : ~fits'[c] /\ ~enabled'[c] => Bare(connq[c]) \/ (~fits[c] /\ ~enabled[c])
  PROVE  PlaceInv'
<1>1. \A h \in Headers \ {} : Still(h)
  BY DEF Still
<1>2. /\ \A p \in Ports : held'[p] \subseteq Of(p[1])
      /\ \A c \in Conns : /\ ToSet(poolq'[c]) \subseteq Of(c)
                          /\ ToSet(connq'[c]) \subseteq Of(c) \cup {Event}
                          /\ Once(poolq'[c]) /\ Once(connq'[c])
      /\ \A c \in Conns : ~fits'[c] /\ ~enabled'[c] => Bare(connq'[c])
  BY DEF IInv, PlaceInv
<1> DEFINE G == {}
<1>3. /\ G \in SUBSET Headers /\ \A h \in Headers \ G : Still(h)
      /\ \A h \in G : Alone(h)' /\ (fits'[Home[h]] \/ enabled'[Home[h]] => Somewhere(h)')
  BY <1>1
<1>4. \A c \in Conns : fits'[c] \/ enabled'[c] => fits[c] \/ enabled[c] \/ Of(c) \subseteq G
  OBVIOUS
<1> HIDE DEF G
<1> QED
  BY <1>2, <1>3, <1>4, PlaceStep

\* Header h of connection c has moved.
LEMMA PlaceMove ==
  ASSUME IInv, NEW c \in Conns, NEW h \in Headers, Home[h] = c, UNCHANGED <<fits, enabled>>,
         \A x \in Headers \ {h} : /\ x \in ToSet(poolq'[c]) <=> x \in ToSet(poolq[c])
                                  /\ x \in ToSet(connq'[c]) <=> x \in ToSet(connq[c])
                                  /\ Carriers(x)' = Carriers(x),
         ToSet(poolq'[c]) \subseteq ToSet(poolq[c]) \cup {h},
         ToSet(connq'[c]) \subseteq ToSet(connq[c]) \cup {h},
         Once(poolq'[c]), Once(connq'[c]),
         \A d \in Conns \ {c} : poolq'[d] = poolq[d] /\ connq'[d] = connq[d],
         \A p \in Ports : \/ held'[p] = held[p]
                          \/ held'[p] = held[p] \ {h}
                          \/ p[1] = c /\ held'[p] = held[p] \cup {h},
         Alone(h)', Somewhere(h)',
         ~fits[c] /\ ~enabled[c] => Bare(connq'[c])
  PROVE  PlaceInv'
<1>1. \A x \in Headers : Home[x] \in Conns
  BY ConnAssumption
<1>2. h \in Of(c) /\ \A d \in Conns : h \in Of(d) => d = c
  BY DEF Of
<1>3. ASSUME NEW x \in Headers \ {h} PROVE Still(x)
  <2>1. \A p \in Ports : x \in held'[p] <=> x \in held[p]
    BY <1>3
  <2>2. Out(Home[x]) \in Ports /\ In(Home[x]) \in Ports
    BY <1>1, PortIs
  <2>3. Carriers(x)' = Carriers(x)
    BY <1>3
  <2>4. /\ x \in ToSet(poolq'[Home[x]]) <=> x \in ToSet(poolq[Home[x]])
        /\ x \in ToSet(connq'[Home[x]]) <=> x \in ToSet(connq[Home[x]])
    BY <1>1, <1>3
  <2> QED
    BY <2>1, <2>2, <2>3, <2>4 DEF Still
<1>4. \A p \in Ports : held'[p] \subseteq Of(p[1])
  BY <1>2 DEF IInv, PlaceInv
<1>5. ASSUME NEW d \in Conns
      PROVE  /\ ToSet(poolq'[d]) \subseteq Of(d) /\ ToSet(connq'[d]) \subseteq Of(d) \cup {Event}
             /\ Once(poolq'[d]) /\ Once(connq'[d])
             /\ ~fits'[d] /\ ~enabled'[d] => Bare(connq'[d])
  <2>1. CASE d = c
    BY <1>2, <2>1 DEF IInv, PlaceInv
  <2>2. CASE d # c
    BY <1>5, <2>2 DEF IInv, PlaceInv
  <2> QED
    BY <2>1, <2>2
<1> DEFINE G == {h}
<1>6. /\ G \in SUBSET Headers /\ \A x \in Headers \ G : Still(x)
      /\ \A x \in G : Alone(x)' /\ (fits'[Home[x]] \/ enabled'[Home[x]] => Somewhere(x)')
  BY <1>3
<1>7. \A d \in Conns : fits'[d] \/ enabled'[d] => fits[d] \/ enabled[d] \/ Of(d) \subseteq G
  OBVIOUS
<1> HIDE DEF G
<1> QED
  BY <1>4, <1>5, <1>6, <1>7, PlaceStep

\* What a step of one thread does to what is carried.
LEMMA CarryIs ==
  ASSUME Types, FrameInv, NEW t \in Threads, NEW A, StackTo(t, A)
  PROVE  /\ (Idle(t) \/ Top(t).k \notin Carrying) /\ (\A f \in A : f.k \notin Carrying) =>
              \A h : Carriers(h)' = Carriers(h)
         /\ ~Idle(t) /\ (\A f \in A : f.k \notin Carrying) =>
              \A h : h # Top(t).b => Carriers(h)' = Carriers(h)
         /\ \A h : ~Idle(t) /\ h = Top(t).b /\ (\A f \in A : f.k \notin Carrying) =>
              Carriers(h)' = Carriers(h) \ {t}
         /\ \A x : (Idle(t) \/ Top(t).k \notin Carrying) /\ (\A f \in A : f.k \in Carrying => f.b = x) =>
              \A h : h # x => Carriers(h)' = Carriers(h)
         /\ \A a \in A : a.k \in Carrying => Carriers(a.b)' = Carriers(a.b) \cup {t}
<1>1. /\ \A h : t \in Carriers(h) <=> ~Idle(t) /\ Top(t).k \in Carrying /\ Top(t).b = h
      /\ \A h : t \in Carriers(h)' <=> \E f \in A : f.k \in Carrying /\ f.b = h
      /\ \A h : \A u \in Threads \ {t} : u \in Carriers(h)' <=> u \in Carriers(h)
  BY CarriersIs
<1>2. \A h : Carriers(h) \subseteq Threads /\ Carriers(h)' \subseteq Threads
  BY DEF Carriers
<1>3. \A h : (t \in Carriers(h)' <=> t \in Carriers(h)) => Carriers(h)' = Carriers(h)
  BY <1>1, <1>2
<1>4. \A h : t \in Carriers(h)' => Carriers(h)' = Carriers(h) \cup {t}
  BY <1>1, <1>2
<1>5. \A h : t \notin Carriers(h)' => Carriers(h)' = Carriers(h) \ {t}
  BY <1>1, <1>2
<1>6. (Idle(t) \/ Top(t).k \notin Carrying) /\ (\A f \in A : f.k \notin Carrying) =>
         \A h : Carriers(h)' = Carriers(h)
  BY <1>1, <1>3
<1>7. ~Idle(t) /\ (\A f \in A : f.k \notin Carrying) =>
         \A h : h # Top(t).b => Carriers(h)' = Carriers(h)
  BY <1>1, <1>3
<1>8. \A h : ~Idle(t) /\ h = Top(t).b /\ (\A f \in A : f.k \notin Carrying) =>
        Carriers(h)' = Carriers(h) \ {t}
  BY <1>1, <1>5
<1>9. \A x : (Idle(t) \/ Top(t).k \notin Carrying) /\ (\A f \in A : f.k \in Carrying => f.b = x) =>
         \A h : h # x => Carriers(h)' = Carriers(h)
  BY <1>1, <1>3
<1>10. \A a \in A : a.k \in Carrying => Carriers(a.b)' = Carriers(a.b) \cup {t}
  BY <1>1, <1>4
<1> QED
  BY <1>6, <1>7, <1>8, <1>9, <1>10

LEMMA BelowNot ==
  ASSUME Types, FrameInv, NEW t \in Threads, ~Idle(t)
  PROVE  \A f \in Below(t) : f.k \notin Carrying /\ f.k # "callback"
BY BelowIs, KindIs

LEMMA ReturnBufferPlace ==
  ASSUME IInv, NEW t \in Threads, NEW p \in Ports, NEW h, ReturnBuffer(t, p, h),
         \/ t \in CompThreads /\ Idle(t)
         \/ ~Idle(t) /\ Top(t).k \in Waiting /\ Top(t).c = p[1]
  PROVE  PlaceInv'
<1> DEFINE c == p[1]  A == {Cb(c), Frame(Returning(p), c, h)} \cup Frames(t)
<1>1. /\ h \in held[p] /\ h \in Headers /\ Home[h] = c /\ c \in Conns
      /\ StackTo(t, A)
  BY ReturnBufferIs DEF Stacks
<1>2. /\ (p = Out(c) \/ p = In(c)) /\ Out(c) # In(c) /\ Out(c) \in Ports /\ In(c) \in Ports
      /\ Out(c)[2] = "out" /\ In(c)[2] = "in"
  BY <1>1, PortIs
<1>3. \A f \in A : f.k \notin Carrying
  <2>1. Returning(p) \in Returns
    BY DEF Returning, Returns
  <2>2. Cb(c).k = "callback" /\ Frame(Returning(p), c, h).k = Returning(p)
    BY DEF Cb, Frame
  <2>3. \A f \in Frames(t) : f.k \notin Carrying
    <3>1. CASE Idle(t)
      BY <3>1, TopIs DEF IInv
    <3>2. CASE ~Idle(t) /\ Top(t).k \in Waiting
      BY <3>2, TopIs, BelowNot, KindIs DEF IInv
    <3> QED
      BY <3>1, <3>2
  <2> QED
    BY <2>1, <2>2, <2>3, KindIs DEF Carrying
<1>4. \A x : Carriers(x)' = Carriers(x)
  <2>1. Idle(t) \/ Top(t).k \notin Carrying
    BY KindIs
  <2> HIDE DEF A
  <2> QED
    BY <1>1, <1>3, <2>1, CarryIs DEF IInv
<1>5. /\ held \in [Ports -> SUBSET Headers] /\ poolq \in [Conns -> Seq(Headers)]
      /\ connq \in [Conns -> Seq(Headers \cup {Event})]
      /\ Once(poolq[c]) /\ Once(connq[c]) /\ Alone(h)
      /\ fits[c] \/ enabled[c] => Somewhere(h)
  BY <1>1 DEF IInv, Types, PlaceInv
<1>6. /\ held' = [held EXCEPT ![p] = @ \ {h}]
      /\ p = Out(c) => connq' = [connq EXCEPT ![c] = Append(@, h)] /\ poolq' = poolq
      /\ p = In(c) => poolq' = [poolq EXCEPT ![c] = Append(@, h)] /\ connq' = connq
      /\ UNCHANGED <<fits, enabled>>
  BY <1>2 DEF ReturnBuffer
<1>7. /\ held'[p] = held[p] \ {h} /\ \A q \in Ports \ {p} : held'[q] = held[q]
  BY <1>5, <1>6
<1>8. fits[c] \/ enabled[c]
  <2>1. held[p] # {} /\ PortFits(c)
    BY <1>1 DEF IInv, PortInv
  <2>2. ASSUME InCall({"wait in", "wait out", "wait undo", "start in", "undo out"}, c)
        PROVE  fits[c] \/ enabled[c]
    BY <2>2 DEF InCall, IInv, CallInv, CallFits, Stopping, Disabling, Starting
  <2>3. on[In(c)] \/ on[Out(c)] \/ InCall({"wait in"}, c) \/ InCall({"wait out", "wait undo"}, c)
    BY <1>2, <2>1 DEF PortFits, QuietIn, QuietOut
  <2>4. enabled[c] \/ InCall({"wait in"}, c) \/ InCall({"wait out", "wait undo"}, c)
        \/ InCall({"start in", "undo out"}, c)
    BY <2>1, <2>3 DEF PortFits
  <2> QED
    BY <2>2, <2>4 DEF InCall
<1> HIDE DEF c, A
<1>9. CASE p = Out(c)
  <2>1. h \notin ToSet(connq[c]) /\ h \notin ToSet(poolq[c]) /\ h \notin held[In(c)] /\ Carriers(h) = {}
    BY <1>1, <1>5, <1>9 DEF Alone
  <2>2. connq' = [connq EXCEPT ![c] = Append(@, h)] /\ poolq' = poolq
    BY <1>6, <1>9
  <2> DEFINE S == Headers \cup {Event}
  <2>3. connq \in [Conns -> Seq(S)] /\ h \in S
    BY <1>1, <1>5
  <2> HIDE DEF S
  <2>4. /\ \A x : x \in ToSet(connq'[c]) <=> x = h \/ x \in ToSet(connq[c])
        /\ Once(connq'[c]) /\ \A d \in Conns \ {c} : connq'[d] = connq[d]
    <3>1. \A x : x \in ToSet(connq'[c]) <=> x = h \/ x \in ToSet(connq[c])
      BY <1>1, <2>2, <2>3, AddIs
    <3>2. Once(connq'[c])
      BY <1>1, <1>5, <2>1, <2>2, <2>3, AddIs
    <3>3. \A d \in Conns \ {c} : connq'[d] = connq[d]
      BY <1>1, <2>2, <2>3, AddIs
    <3> QED
      BY <3>1, <3>2, <3>3
  <2>5. h \notin held'[In(c)] /\ h \notin held'[Out(c)]
    BY <1>2, <1>7, <1>9, <2>1
  <2>6. Alone(h)' /\ Somewhere(h)'
    BY <1>1, <1>4, <2>1, <2>2, <2>4, <2>5 DEF Alone, Somewhere
  <2> QED
    BY <1>1, <1>4, <1>5, <1>6, <1>7, <1>8, <2>2, <2>4, <2>6, PlaceMove
<1>10. CASE p = In(c)
  <2>1. h \notin ToSet(connq[c]) /\ h \notin ToSet(poolq[c]) /\ h \notin held[Out(c)] /\ Carriers(h) = {}
    BY <1>1, <1>5, <1>10 DEF Alone
  <2>2. poolq' = [poolq EXCEPT ![c] = Append(@, h)] /\ connq' = connq
    BY <1>6, <1>10
  <2>3. /\ \A x : x \in ToSet(poolq'[c]) <=> x = h \/ x \in ToSet(poolq[c])
        /\ Once(poolq'[c]) /\ \A d \in Conns \ {c} : poolq'[d] = poolq[d]
    BY <1>1, <1>5, <2>1, <2>2, AddIs
  <2>4. h \notin held'[In(c)] /\ h \notin held'[Out(c)]
    BY <1>2, <1>7, <1>10, <2>1
  <2>5. Alone(h)' /\ Somewhere(h)'
    BY <1>1, <1>4, <2>1, <2>2, <2>3, <2>4 DEF Alone, Somewhere
  <2> QED
    BY <1>1, <1>4, <1>5, <1>6, <1>7, <1>8, <2>2, <2>3, <2>5, PlaceMove
<1> QED
  BY <1>2, <1>9, <1>10

\* The queues of a connection, and a header that a thread carries.
LEMMA QueueIs ==
  ASSUME IInv, NEW c \in Conns
  PROVE  /\ poolq[c] \in Seq(Headers) /\ connq[c] \in Seq(Headers \cup {Event})
         /\ Once(poolq[c]) /\ Once(connq[c])
         /\ ToSet(poolq[c]) \subseteq Of(c) /\ ToSet(connq[c]) \subseteq Of(c) \cup {Event}
         /\ held[In(c)] \subseteq Headers /\ held[Out(c)] \subseteq Headers
         /\ poolq \in [Conns -> Seq(Headers)] /\ connq \in [Conns -> Seq(Headers \cup {Event})]
         /\ held \in [Ports -> SUBSET Headers]
<1>1. In(c) \in Ports /\ Out(c) \in Ports
  BY EndIs
<1> QED
  BY <1>1 DEF IInv, Types, PlaceInv

LEMMA HandIs ==
  ASSUME IInv, NEW t \in Threads, ~Idle(t), Top(t).k \in Carrying, NEW h \in Headers, h = Top(t).b,
         NEW c, c = Home[h]
  PROVE  /\ Carriers(h) = {t} /\ h \notin ToSet(poolq[c]) /\ h \notin ToSet(connq[c])
         /\ h \notin held[Out(c)] /\ h \notin held[In(c)]
<1>1. t \in Carriers(h) /\ Alone(h)
  BY CarriersIs DEF IInv, PlaceInv
<1>2. \A u \in Carriers(h) : u = t
  BY <1>1 DEF Alone
<1> QED
  BY <1>1, <1>2 DEF Alone

LEMMA TakePlace ==
  ASSUME IInv, NEW t \in Threads, NEW c \in Conns, connq[c] # <<>>, NEW h \in Headers,
         h = Head(connq[c]), Home[h] = c, connq' = [connq EXCEPT ![c] = Tail(@)],
         UNCHANGED <<held, poolq, fits, enabled>>, NEW A, StackTo(t, A),
         Idle(t) \/ Top(t).k \notin Carrying, \A f \in A : f.k \in Carrying => f.b = h,
         \E f \in A : f.k \in Carrying
  PROVE  PlaceInv'
<1> DEFINE S == Headers \cup {Event}
<1>1. /\ connq \in [Conns -> Seq(S)] /\ connq[c] \in Seq(S) /\ Once(connq[c]) /\ h # Event
  BY QueueIs, EventAssumption
<1> HIDE DEF S
<1>2. connq'[c] = Tail(connq[c]) /\ \A d \in Conns \ {c} : connq'[d] = connq[d]
  BY <1>1
<1>3. /\ \A x : x \in ToSet(connq[c]) <=> x = h \/ x \in ToSet(Tail(connq[c]))
      /\ Once(Tail(connq[c])) /\ h \notin ToSet(Tail(connq[c]))
  BY <1>1, TakeIs
<1>4. Alone(h) /\ h \in ToSet(connq[c])
  BY <1>3 DEF IInv, PlaceInv
<1>5. /\ h \notin ToSet(poolq[c]) /\ h \notin held[Out(c)] /\ h \notin held[In(c)]
      /\ Carriers(h) = {}
  BY <1>4 DEF Alone
<1>6. \A x : x # h => Carriers(x)' = Carriers(x)
  BY CarryIs DEF IInv
<1>7. Carriers(h)' = {t}
  <2>1. PICK a \in A : a.k \in Carrying
    OBVIOUS
  <2>2. Carriers(a.b)' = Carriers(a.b) \cup {t} /\ a.b = h
    BY <2>1, CarryIs DEF IInv
  <2> QED
    BY <1>5, <2>2
<1>8. Alone(h)' /\ Somewhere(h)'
  BY <1>2, <1>3, <1>5, <1>7 DEF Alone, Somewhere
<1>9. ~fits[c] /\ ~enabled[c] => Bare(connq'[c])
  BY <1>1, <1>4 DEF IInv, PlaceInv, Bare
<1>10. Once(poolq'[c]) /\ Once(connq'[c])
  BY <1>2, <1>3, QueueIs
<1>11. \A x \in Headers \ {h} : /\ x \in ToSet(poolq'[c]) <=> x \in ToSet(poolq[c])
                                /\ x \in ToSet(connq'[c]) <=> x \in ToSet(connq[c])
                                /\ Carriers(x)' = Carriers(x)
  BY <1>2, <1>3, <1>6
<1>12. /\ ToSet(poolq'[c]) \subseteq ToSet(poolq[c]) \cup {h}
       /\ ToSet(connq'[c]) \subseteq ToSet(connq[c]) \cup {h}
  BY <1>2, <1>3
<1> QED
  BY <1>2, <1>8, <1>9, <1>10, <1>11, <1>12, PlaceMove

LEMMA ProcessSendPlace ==
  ASSUME IInv, NEW t \in Threads, ProcessSend(t), NEW c, c = Top(t).c, NEW h, h = Top(t).b
  PROVE  PlaceInv'
<1>1. /\ ~Idle(t) /\ c \in Conns /\ h \in Headers /\ Home[h] = c /\ Top(t).k \in Carrying
      /\ StackTo(t, Below(t))
  BY ProcessSendIs, ProcessIs DEF Stacks
<1>2. \A f \in Below(t) : f.k \notin Carrying
  BY <1>1, BelowNot DEF IInv
<1>3. held' = [held EXCEPT ![In(c)] = @ \cup {h}] /\ UNCHANGED <<poolq, connq, fits, enabled>>
  BY DEF ProcessSend
<1>4. /\ Carriers(h) = {t} /\ h \notin ToSet(poolq[c]) /\ h \notin ToSet(connq[c])
      /\ h \notin held[Out(c)] /\ h \notin held[In(c)]
  BY <1>1, HandIs
<1>5. \A x : x # h => Carriers(x)' = Carriers(x)
  BY <1>1, <1>2, CarryIs DEF IInv
<1>6. Carriers(h)' = Carriers(h) \ {t}
  BY <1>1, <1>2, CarryIs DEF IInv
<1>7. /\ In(c) \in Ports /\ In(c)[1] = c /\ held \in [Ports -> SUBSET Headers]
      /\ In(c) # Out(c) /\ Out(c) \in Ports
  BY <1>1, PortIs, QueueIs
<1>8. \A p \in Ports : held'[p] = held[p] \/ (p[1] = c /\ held'[p] = held[p] \cup {h})
  BY <1>3, <1>7
<1>9. h \in held'[In(c)] /\ h \notin held'[Out(c)]
  BY <1>3, <1>4, <1>7
<1>10. Alone(h)' /\ Somewhere(h)'
  BY <1>1, <1>3, <1>4, <1>6, <1>9 DEF Alone, Somewhere
<1>11. /\ ~fits[c] /\ ~enabled[c] => Bare(connq'[c])
       /\ Once(poolq'[c]) /\ Once(connq'[c])
  BY <1>1, <1>3, QueueIs DEF IInv, PlaceInv
<1> QED
  BY <1>1, <1>3, <1>5, <1>8, <1>10, <1>11, PlaceMove

\* A header that was nowhere but in a hand goes to its pool, and the like.
LEMMA ProcessRefusedPlace ==
  ASSUME IInv, NEW t \in Threads, ProcessRefused(t), NEW c, c = Top(t).c, NEW h, h = Top(t).b
  PROVE  PlaceInv'
<1>1. /\ ~Idle(t) /\ c \in Conns /\ h \in Headers /\ Home[h] = c /\ Top(t).k \in Carrying
      /\ StackTo(t, {Cb(c)} \cup Below(t))
  BY ProcessRefusedIs, ProcessIs DEF Stacks
<1>2. PICK A : A = {Cb(c)} \cup Below(t)
  OBVIOUS
<1>3. StackTo(t, A) /\ \A f \in A : f.k \notin Carrying
  <2>1. Cb(c).k \notin Carrying
    BY DEF Cb, Frame, Carrying
  <2> QED
    BY <1>1, <1>2, <2>1, BelowNot DEF IInv
<1>4. poolq' = [poolq EXCEPT ![c] = Append(@, h)] /\ UNCHANGED <<held, connq, fits, enabled>>
  BY DEF ProcessRefused
<1>5. /\ Carriers(h) = {t} /\ h \notin ToSet(poolq[c]) /\ h \notin ToSet(connq[c])
      /\ h \notin held[Out(c)] /\ h \notin held[In(c)]
  BY <1>1, HandIs
<1>6. \A x : x # h => Carriers(x)' = Carriers(x)
  BY <1>1, <1>3, CarryIs DEF IInv
<1>7. Carriers(h)' = {}
  <2>1. Carriers(h)' = Carriers(h) \ {t}
    BY <1>1, <1>3, CarryIs DEF IInv
  <2> QED
    BY <1>5, <2>1
<1>8. /\ poolq'[c] = Append(poolq[c], h) /\ \A d \in Conns \ {c} : poolq'[d] = poolq[d]
  BY <1>1, <1>4, QueueIs
<1>9. /\ \A x : x \in ToSet(poolq'[c]) <=> x = h \/ x \in ToSet(poolq[c])
      /\ Once(poolq'[c]) /\ Once(connq'[c])
  BY <1>1, <1>4, <1>5, <1>8, QueueIs, AddIs
<1>10. Alone(h)' /\ Somewhere(h)'
  BY <1>1, <1>4, <1>5, <1>7, <1>9 DEF Alone, Somewhere
<1>11. ~fits[c] /\ ~enabled[c] => Bare(connq'[c])
  BY <1>1, <1>4 DEF IInv, PlaceInv
<1> QED
  BY <1>1, <1>4, <1>6, <1>8, <1>9, <1>10, <1>11, PlaceMove

\* An event leaves the queue.
LEMMA EventPlace ==
  ASSUME IInv, NEW c \in Conns, connq[c] # <<>>, Head(connq[c]) = Event,
         connq' = [connq EXCEPT ![c] = Tail(@)], UNCHANGED <<held, poolq, fits, enabled>>,
         \A h \in Headers : Carriers(h)' = Carriers(h)
  PROVE  PlaceInv'
<1> DEFINE S == Headers \cup {Event}
<1>1. /\ connq \in [Conns -> Seq(S)] /\ connq[c] \in Seq(S) /\ Once(connq[c])
  BY QueueIs
<1> HIDE DEF S
<1>2. connq'[c] = Tail(connq[c]) /\ \A d \in Conns \ {c} : connq'[d] = connq[d]
  BY <1>1
<1>3. /\ \A x : x \in ToSet(connq[c]) <=> x = Event \/ x \in ToSet(Tail(connq[c]))
      /\ Once(Tail(connq[c]))
  BY <1>1, TakeIs
<1>4. \A h \in Headers : h # Event /\ Home[h] \in Conns
  BY EventAssumption, ConnAssumption
<1>5. \A h \in Headers : h \in ToSet(connq'[Home[h]]) <=> h \in ToSet(connq[Home[h]])
  BY <1>2, <1>3, <1>4
<1>6. \A h \in Headers : Still(h)
  BY <1>5 DEF Still
<1>7. ASSUME NEW d \in Conns
      PROVE  /\ ToSet(poolq'[d]) \subseteq Of(d) /\ ToSet(connq'[d]) \subseteq Of(d) \cup {Event}
             /\ Once(poolq'[d]) /\ Once(connq'[d])
             /\ ~fits'[d] /\ ~enabled'[d] => Bare(connq'[d])
  <2>1. ToSet(connq[d]) \subseteq Of(d) \cup {Event} /\ (~fits[d] /\ ~enabled[d] => Bare(connq[d]))
    BY DEF IInv, PlaceInv
  <2>2. CASE d = c
    BY <1>2, <1>3, <2>1, <2>2, QueueIs DEF Bare
  <2>3. CASE d # c
    BY <1>2, <2>1, <2>3, QueueIs
  <2> QED
    BY <2>2, <2>3
<1>8. \A p \in Ports : held'[p] \subseteq Of(p[1])
  BY DEF IInv, PlaceInv
<1> DEFINE G == {}
<1>9. /\ G \in SUBSET Headers /\ \A h \in Headers \ G : Still(h)
      /\ \A h \in G : Alone(h)' /\ (fits'[Home[h]] \/ enabled'[Home[h]] => Somewhere(h)')
      /\ \A d \in Conns : fits'[d] \/ enabled'[d] => fits[d] \/ enabled[d] \/ Of(d) \subseteq G
  BY <1>6
<1> HIDE DEF G
<1> QED
  BY <1>7, <1>8, <1>9, PlaceStep

LEMMA CallbackPlace ==
  ASSUME IInv, ~rash', NEW t \in Threads, Callback(t), NEW c, c = Top(t).c
  PROVE  PlaceInv'
<1>0. ~Idle(t) /\ Top(t) = Cb(c) /\ c \in Conns
  BY CallbackIs
<1>1. ~Idle(t) /\ Top(t).k = "callback" /\ c \in Conns
  BY <1>0, FrameIs
<1>2. Top(t).k \notin Carrying /\ \A f \in Below(t) : f.k \notin Carrying
  BY <1>1, BelowNot DEF IInv, Carrying
<1>3. UNCHANGED <<held, poolq, fits, enabled>>
  BY DEF Callback
<1>4. CASE c \in Direct /\ connq[c] # <<>>
  <2>1. PICK h : h = Head(connq[c])
    OBVIOUS
  <2> DEFINE a == Frame("process", c, h)
  <2>2. PICK A : A = {a} \cup Below(t)
    OBVIOUS
  <2>3. /\ h \in Headers \cup {Event} /\ (h # Event => Home[h] = c)
        /\ connq' = [connq EXCEPT ![c] = Tail(@)]
    BY <1>4, <2>1, CallbackIs
  <2>4. StackTo(t, A)
    BY <1>4, <2>1, <2>2, CallbackIs DEF Stacks
  <2>5. a.k \in Carrying /\ a.b = h
    BY DEF Frame, Carrying
  <2> HIDE DEF a
  <2>6. /\ \A f \in A : f.k \in Carrying => f.b = h
        /\ \E f \in A : f.k \in Carrying
    BY <1>2, <2>2, <2>5
  <2>7. connq[c] # <<>> /\ (Idle(t) \/ Top(t).k \notin Carrying)
    BY <1>2, <1>4
  <2>8. CASE h = Event
    <3>1. \A x : x # h => Carriers(x)' = Carriers(x)
      BY <2>4, <2>6, <2>7, CarryIs DEF IInv
    <3>2. \A x \in Headers : Carriers(x)' = Carriers(x)
      BY <2>8, <3>1, EventAssumption
    <3> QED
      BY <1>1, <1>3, <2>1, <2>3, <2>7, <2>8, <3>2, EventPlace
  <2>9. CASE h # Event
    <3>1. /\ h \in Headers /\ Home[h] = c /\ connq[c] # <<>>
          /\ connq' = [connq EXCEPT ![c] = Tail(@)] /\ c \in Conns
      BY <1>1, <2>3, <2>7, <2>9
    <3> QED
      BY <1>3, <2>1, <2>4, <2>6, <2>7, <3>1, TakePlace
  <2> QED
    BY <2>8, <2>9
<1>5. CASE ~(c \in Direct /\ connq[c] # <<>>)
  <2>1. connq' = connq /\ StackTo(t, Below(t))
    BY <1>5, CallbackIs DEF Stacks
  <2>2. \A h \in Headers : Carriers(h)' = Carriers(h)
    BY <1>2, <2>1, CarryIs DEF IInv
  <2> QED
    BY <1>3, <2>1, <2>2, PlaceSame
<1> QED
  BY <1>4, <1>5

LEMMA FlushQueuePlace ==
  ASSUME IInv, NEW t \in Threads, FlushQueue(t), NEW c, c = Top(t).c, NEW h, h = Head(connq[c])
  PROVE  PlaceInv'
<1>1. /\ Runs(t, "flush") /\ c \in Conns /\ connq[c] # <<>>
      /\ connq' = [connq EXCEPT ![c] = Tail(@)]
  BY FlushQueueIs
<1>2. ~Idle(t) /\ Top(t).k \notin Carrying
  BY <1>1 DEF Runs, Carrying
<1>3. UNCHANGED <<held, fits, enabled>>
  BY DEF FlushQueue
<1>4. CASE h = Event
  <2>1. poolq' = poolq /\ stack' = stack
    BY <1>4, FlushQueueIs
  <2>2. \A x : Carriers(x)' = Carriers(x)
    BY <2>1, StackSame DEF IInv
  <2> QED
    BY <1>1, <1>3, <1>4, <2>1, <2>2, EventPlace
<1>5. CASE h # Event
  <2>1. /\ h \in Headers /\ Home[h] = c /\ poolq' = [poolq EXCEPT ![c] = Append(@, h)]
        /\ StackTo(t, {Cb(c)} \cup Frames(t))
    BY <1>5, FlushQueueIs DEF Stacks
  <2>2. PICK A : A = {Cb(c)} \cup Frames(t)
    OBVIOUS
  <2>3. StackTo(t, A) /\ \A f \in A : f.k \notin Carrying
    <3>1. Cb(c).k \notin Carrying
      BY DEF Cb, Frame, Carrying
    <3>2. Frames(t) = {Top(t)} \cup Below(t)
      BY <1>2, TopIs DEF IInv
    <3>3. \A f \in Below(t) : f.k \notin Carrying
      BY <1>2, BelowNot DEF IInv
    <3> QED
      BY <1>2, <2>1, <2>2, <3>1, <3>2, <3>3
  <2>4. \A x : Carriers(x)' = Carriers(x)
    BY <1>2, <2>3, CarryIs DEF IInv
  <2> DEFINE S == Headers \cup {Event}
  <2>5. connq \in [Conns -> Seq(S)] /\ connq[c] \in Seq(S) /\ Once(connq[c])
    BY <1>1, QueueIs
  <2> HIDE DEF S
  <2>6. /\ connq'[c] = Tail(connq[c]) /\ \A d \in Conns \ {c} : connq'[d] = connq[d]
    BY <1>1, <2>5
  <2>7. /\ poolq'[c] = Append(poolq[c], h) /\ \A d \in Conns \ {c} : poolq'[d] = poolq[d]
    BY <1>1, <2>1, QueueIs
  <2>8. /\ \A x : x \in ToSet(connq[c]) <=> x = h \/ x \in ToSet(connq'[c])
        /\ Once(connq'[c]) /\ h \notin ToSet(connq'[c])
    BY <1>1, <1>5, <2>5, <2>6, TakeIs
  <2>9. h \in ToSet(connq[c]) /\ Alone(h)
    BY <2>1, <2>8 DEF IInv, PlaceInv
  <2>10. /\ h \notin ToSet(poolq[c]) /\ h \notin held[Out(c)] /\ h \notin held[In(c)]
         /\ Carriers(h) = {}
    BY <2>1, <2>9 DEF Alone
  <2>11. /\ \A x : x \in ToSet(poolq'[c]) <=> x = h \/ x \in ToSet(poolq[c])
         /\ Once(poolq'[c])
    BY <1>1, <2>1, <2>7, <2>10, QueueIs, AddIs
  <2>12. Alone(h)' /\ Somewhere(h)'
    BY <1>3, <2>1, <2>4, <2>8, <2>10, <2>11 DEF Alone, Somewhere
  <2>13. ~fits[c] /\ ~enabled[c] => Bare(connq'[c])
    BY <1>1, <1>5, <2>9 DEF IInv, PlaceInv, Bare
  <2>14. /\ ToSet(poolq'[c]) \subseteq ToSet(poolq[c]) \cup {h}
         /\ ToSet(connq'[c]) \subseteq ToSet(connq[c]) \cup {h}
    BY <2>8, <2>11
  <2> QED
    BY <1>1, <1>3, <2>1, <2>4, <2>6, <2>7, <2>8, <2>11, <2>12, <2>13, <2>14, PlaceMove
<1> QED
  BY <1>4, <1>5

LEMMA TakeFullPlace ==
  ASSUME IInv, TakeFull, NEW c, c = Visit(work.i), NEW h, h = Head(connq[c])
  PROVE  PlaceInv'
<1> DEFINE a == Frame("process", c, h)
<1>0. PICK t \in Threads : t = "worker"
  BY PortIs
<1>1. /\ c \in Conns /\ connq[c] # <<>> /\ h \in Headers \cup {Event} /\ (h # Event => Home[h] = c)
      /\ connq' = [connq EXCEPT ![c] = Tail(@)] /\ StackTo(t, {a}) /\ Idle(t)
  BY <1>0, TakeFullIs DEF Stacks, At
<1>2. UNCHANGED <<held, poolq, fits, enabled>>
  BY DEF TakeFull
<1>3. a.k \in Carrying /\ a.b = h
  BY DEF Frame, Carrying
<1> HIDE DEF a
<1>4. PICK A : A = {a}
  OBVIOUS
<1>5. /\ StackTo(t, A) /\ \A f \in A : f.k \in Carrying => f.b = h
      /\ \E f \in A : f.k \in Carrying
  BY <1>1, <1>3, <1>4
<1>6. CASE h = Event
  <2>1. \A x : x # h => Carriers(x)' = Carriers(x)
    BY <1>1, <1>5, CarryIs DEF IInv
  <2>2. \A x \in Headers : Carriers(x)' = Carriers(x)
    BY <1>6, <2>1, EventAssumption
  <2> QED
    BY <1>1, <1>2, <1>6, <2>2, EventPlace
<1>7. CASE h # Event
  <2>1. /\ h \in Headers /\ Home[h] = c /\ (Idle(t) \/ Top(t).k \notin Carrying)
        /\ connq[c] # <<>> /\ h = Head(connq[c])
    BY <1>1, <1>7
  <2> QED
    BY <1>1, <1>2, <1>5, <2>1, TakePlace
<1> QED
  BY <1>6, <1>7

LEMMA SendEmptyPlace ==
  ASSUME IInv, SendEmpty, NEW c, c = Visit(work.i), NEW h, h = Head(poolq[c])
  PROVE  PlaceInv'
<1> DEFINE a == Frame("empty", c, h)
<1>0. PICK t \in Threads : t = "worker"
  BY PortIs
<1>1. /\ c \in Conns /\ poolq[c] # <<>> /\ h \in Headers /\ Home[h] = c /\ h # Event
      /\ poolq' = [poolq EXCEPT ![c] = Tail(@)] /\ StackTo(t, {a}) /\ Idle(t)
  BY <1>0, SendEmptyIs, EventAssumption DEF Stacks, At
<1>2. UNCHANGED <<held, connq, fits, enabled>>
  BY DEF SendEmpty
<1>3. a.k \in Carrying /\ a.b = h
  BY DEF Frame, Carrying
<1> HIDE DEF a
<1>4. PICK A : A = {a}
  OBVIOUS
<1>5. /\ StackTo(t, A) /\ \A f \in A : f.k \in Carrying => f.b = h
      /\ a \in A
  BY <1>1, <1>3, <1>4
<1>6. \A x : x # h => Carriers(x)' = Carriers(x)
  BY <1>1, <1>5, CarryIs DEF IInv
<1>7. Carriers(h)' = Carriers(h) \cup {t}
  BY <1>1, <1>3, <1>5, CarryIs DEF IInv
<1>8. poolq'[c] = Tail(poolq[c]) /\ \A d \in Conns \ {c} : poolq'[d] = poolq[d]
  BY <1>1, QueueIs
<1>9. /\ \A x : x \in ToSet(poolq[c]) <=> x = h \/ x \in ToSet(poolq'[c])
      /\ Once(poolq'[c]) /\ h \notin ToSet(poolq'[c])
  BY <1>1, <1>8, QueueIs, TakeIs
<1>10. h \in ToSet(poolq[c]) /\ Alone(h)
  BY <1>1, <1>9 DEF IInv, PlaceInv
<1>11. /\ h \notin ToSet(connq[c]) /\ h \notin held[Out(c)] /\ h \notin held[In(c)]
       /\ Carriers(h) = {}
  BY <1>1, <1>10 DEF Alone
<1>12. Alone(h)' /\ Somewhere(h)'
  BY <1>1, <1>2, <1>7, <1>9, <1>11 DEF Alone, Somewhere
<1>13. (~fits[c] /\ ~enabled[c] => Bare(connq'[c])) /\ Once(connq'[c])
  BY <1>1, <1>2, QueueIs DEF IInv, PlaceInv
<1> QED
  BY <1>1, <1>2, <1>6, <1>8, <1>9, <1>12, <1>13, PlaceMove

LEMMA EmptySentPlace ==
  ASSUME IInv, EmptySent, NEW c, c = Top("worker").c, NEW h, h = Top("worker").b
  PROVE  PlaceInv'
<1>0. PICK t \in Threads : t = "worker"
  BY PortIs
<1>1. /\ c \in Conns /\ h \in Headers /\ Home[h] = c /\ h = Top(t).b
      /\ StackTo(t, {}) /\ ~Idle(t) /\ Top(t).k \in Carrying
  BY <1>0, EmptySentIs DEF Stacks, Carrying
<1>2. /\ UNCHANGED <<connq, fits, enabled>>
      /\ \/ held' = [held EXCEPT ![Out(c)] = @ \cup {h}] /\ poolq' = poolq
         \/ held' = held /\ poolq' = [poolq EXCEPT ![c] = <<h>> \o @]
  BY DEF EmptySent
<1>3. /\ Carriers(h) = {t} /\ h \notin ToSet(poolq[c]) /\ h \notin ToSet(connq[c])
      /\ h \notin held[Out(c)] /\ h \notin held[In(c)]
  BY <1>1, HandIs
<1>4. \A f \in {} : f.k \notin Carrying
  OBVIOUS
<1>5. \A x : x # h => Carriers(x)' = Carriers(x)
  BY <1>1, <1>4, CarryIs DEF IInv
<1>6. Carriers(h)' = {}
  <2>1. Carriers(h)' = Carriers(h) \ {t}
    BY <1>1, <1>4, CarryIs DEF IInv
  <2> QED
    BY <1>3, <2>1
<1>7. (~fits[c] /\ ~enabled[c] => Bare(connq'[c])) /\ Once(connq'[c]) /\ Once(poolq[c])
  BY <1>1, <1>2, QueueIs DEF IInv, PlaceInv
<1>8. CASE held' = [held EXCEPT ![Out(c)] = @ \cup {h}] /\ poolq' = poolq
  <2>1. /\ Out(c) \in Ports /\ Out(c)[1] = c /\ held \in [Ports -> SUBSET Headers]
        /\ In(c) # Out(c) /\ In(c) \in Ports
    BY <1>1, PortIs, QueueIs
  <2>2. \A p \in Ports : held'[p] = held[p] \/ (p[1] = c /\ held'[p] = held[p] \cup {h})
    BY <1>8, <2>1
  <2>3. h \in held'[Out(c)] /\ h \notin held'[In(c)]
    BY <1>3, <1>8, <2>1
  <2>4. Alone(h)' /\ Somewhere(h)'
    BY <1>1, <1>2, <1>3, <1>6, <1>8, <2>3 DEF Alone, Somewhere
  <2> QED
    BY <1>1, <1>2, <1>5, <1>7, <1>8, <2>2, <2>4, PlaceMove
<1>9. CASE held' = held /\ poolq' = [poolq EXCEPT ![c] = <<h>> \o @]
  <2>1. /\ poolq'[c] = <<h>> \o poolq[c] /\ \A d \in Conns \ {c} : poolq'[d] = poolq[d]
    BY <1>1, <1>9, QueueIs
  <2>2. /\ \A x : x \in ToSet(poolq'[c]) <=> x = h \/ x \in ToSet(poolq[c])
        /\ Once(poolq'[c])
    BY <1>1, <1>3, <2>1, QueueIs, BackIs
  <2>3. Alone(h)' /\ Somewhere(h)'
    BY <1>1, <1>2, <1>3, <1>6, <1>9, <2>2 DEF Alone, Somewhere
  <2> QED
    BY <1>1, <1>2, <1>5, <1>7, <1>9, <2>1, <2>2, <2>3, PlaceMove
<1> QED
  BY <1>2, <1>8, <1>9

\* A format change is reported: one more event in the queue.
LEMMA EventCallPlace ==
  ASSUME IInv, NEW t \in Threads, EventCall(t), NEW c, c = Top(t).c
  PROVE  PlaceInv'
<1>0. PICK A : A = {Cb(c)}
  OBVIOUS
<1>1. /\ connq' = [connq EXCEPT ![c] = Append(@, Event)] /\ c \in Conns /\ StackTo(t, A)
      /\ ~Idle(t) /\ Top(t).k = "event" /\ UNCHANGED <<held, poolq, fits, enabled>>
  BY <1>0, EventCallIs DEF EventCall, Stacks
<1> DEFINE S == Headers \cup {Event}
<1>2. connq \in [Conns -> Seq(S)] /\ connq[c] \in Seq(S) /\ Once(connq[c]) /\ Event \in S
  BY <1>1, QueueIs
<1> HIDE DEF S
<1>3. connq'[c] = Append(connq[c], Event) /\ \A d \in Conns \ {c} : connq'[d] = connq[d]
  BY <1>1, <1>2
<1>4. /\ \A x : x \in ToSet(connq'[c]) <=> x = Event \/ x \in ToSet(connq[c])
      /\ Once(connq'[c])
  BY <1>2, <1>3, AddIs
<1>5. \A h \in Headers : h # Event /\ Home[h] \in Conns
  BY EventAssumption, ConnAssumption
<1>6. \A h : Carriers(h)' = Carriers(h)
  <2>1. Top(t).k \notin Carrying /\ \A f \in A : f.k \notin Carrying
    BY <1>0, <1>1 DEF Cb, Frame, Carrying
  <2> QED
    BY <1>1, <2>1, CarryIs DEF IInv
<1>7. \A h \in Headers : h \in ToSet(connq'[Home[h]]) <=> h \in ToSet(connq[Home[h]])
  BY <1>3, <1>4, <1>5
<1>8. \A h \in Headers : Still(h)
  BY <1>1, <1>6, <1>7 DEF Still
<1>9. ASSUME NEW d \in Conns
      PROVE  /\ ToSet(poolq'[d]) \subseteq Of(d) /\ ToSet(connq'[d]) \subseteq Of(d) \cup {Event}
             /\ Once(poolq'[d]) /\ Once(connq'[d])
             /\ ~fits'[d] /\ ~enabled'[d] => Bare(connq'[d])
  <2>1. ToSet(connq[d]) \subseteq Of(d) \cup {Event} /\ (~fits[d] /\ ~enabled[d] => Bare(connq[d]))
    BY DEF IInv, PlaceInv
  <2>2. CASE d = c
    BY <1>1, <1>4, <2>1, <2>2, QueueIs DEF Bare
  <2>3. CASE d # c
    BY <1>1, <1>3, <2>1, <2>3, QueueIs
  <2> QED
    BY <2>2, <2>3
<1>10. \A p \in Ports : held'[p] \subseteq Of(p[1])
  BY <1>1 DEF IInv, PlaceInv
<1> DEFINE G == {}
<1>11. /\ G \in SUBSET Headers /\ \A h \in Headers \ G : Still(h)
       /\ \A h \in G : Alone(h)' /\ (fits'[Home[h]] \/ enabled'[Home[h]] => Somewhere(h)')
       /\ \A d \in Conns : fits'[d] \/ enabled'[d] => fits[d] \/ enabled[d] \/ Of(d) \subseteq G
  BY <1>1, <1>8
<1> HIDE DEF G
<1> QED
  BY <1>9, <1>10, <1>11, PlaceStep

\* A step of a call that moves no header.
LEMMA PlaceQuiet ==
  ASSUME IInv, NEW t \in Threads, NEW A, StackTo(t, A), \A f \in A : f.k \notin Carrying,
         ~Idle(t) /\ Top(t).k \in Carrying => Top(t).b = Event,
         UNCHANGED <<held, poolq, connq>>,
         \A c \in Conns : fits'[c] \/ enabled'[c] => fits[c] \/ enabled[c],
         \A c \in Conns : ~fits'[c] /\ ~enabled'[c] => Bare(connq[c]) \/ (~fits[c] /\ ~enabled[c])
  PROVE  PlaceInv'
<1>1. ASSUME NEW h \in Headers PROVE Carriers(h)' = Carriers(h)
  <2>1. h # Event
    BY EventAssumption
  <2>2. CASE Idle(t) \/ Top(t).k \notin Carrying
    BY <2>2, CarryIs DEF IInv
  <2>3. CASE ~Idle(t) /\ Top(t).b = Event
    BY <2>1, <2>3, CarryIs DEF IInv
  <2> QED
    BY <2>2, <2>3
<1> QED
  BY <1>1, PlaceSame

LEMMA ControlBelow ==
  ASSUME IInv, NEW t \in Threads, ~Idle(t)
  PROVE  /\ \A f \in Below(t) : f.k \notin Carrying
         /\ \A n \in Control : \A c \in Conns :
              /\ Do(n, c).k \notin Carrying
              /\ \A f \in {Do(n, c)} \cup Below(t) : f.k \notin Carrying
<1>1. \A f \in Below(t) : f.k \notin Carrying
  BY BelowNot DEF IInv
<1>2. \A n \in Control : \A c \in Conns : Do(n, c).k \notin Carrying
  BY KindIs, FrameIs
<1> QED
  BY <1>1, <1>2

\* No call is in progress at a connection that has to be made anew.
LEMMA CleanIs ==
  ASSUME IInv, NEW t \in Threads, Runs(t, "enable"), NEW c \in Conns, c = Top(t).c, ~enabled[c]
  PROVE  /\ ~on[In(c)] /\ (~fits[c] => ~on[Out(c)])
         /\ ~fits[c] => /\ Bare(connq[c]) /\ held[In(c)] = {} /\ held[Out(c)] = {}
                        /\ \A h \in Of(c) : Carriers(h) = {}
<1>1. ~on[In(c)]
  BY DEF IInv, PortInv, PortFits
<1>2. ASSUME ~fits[c]
      PROVE  /\ ~on[Out(c)] /\ Bare(connq[c]) /\ held[In(c)] = {} /\ held[Out(c)] = {}
             /\ \A h \in Of(c) : Carriers(h) = {}
  <2>1. ASSUME NEW u \in Threads, NEW f \in Frames(u), f.c = c
        PROVE  f.k \notin Stopping \cup Starting
    BY <1>2, <2>1 DEF IInv, CallInv, CallFits
  <2>2. /\ ~InCall({"start in", "undo out"}, c) /\ ~InCall({"wait in"}, c)
        /\ ~InCall({"wait out", "wait undo"}, c)
    BY <2>1 DEF InCall, Stopping, Disabling, Starting
  <2>3. ~on[Out(c)] /\ QuietIn(c) /\ QuietOut(c)
    BY <1>1, <2>2 DEF IInv, PortInv, PortFits
  <2>4. Bare(connq[c])
    BY <1>2 DEF IInv, PlaceInv
  <2>5. ASSUME NEW h \in Of(c), NEW u \in Carriers(h) PROVE FALSE
    <3>1. PICK f \in Frames(u) : f.k \in Carrying /\ f.b = h
      BY <2>5 DEF Carriers
    <3>2. u \in Threads /\ h \in Headers /\ Home[h] = c /\ h # Event
      BY <2>5, EventAssumption DEF Carriers, Of
    <3>3. f.c = c /\ Frames(u) # {} /\ ~Idle(u)
      BY <3>1, <3>2, TopIs DEF FrameFits, IInv
    <3>4. CASE u \in CompThreads
      <4>0. \E x \in Frames(u) : ~Late(x)
        BY <3>1, <3>2 DEF Late
      <4>1. Top(u).c = c
        BY <3>3, <3>4, <4>0, CompIs DEF IInv
      <4>2. InCall({"return in"}, c) \/ InCall({"return out"}, c)
        BY <3>3, <3>4, <4>0, <4>1, CompIs DEF IInv
      <4> QED
        BY <2>3, <4>2 DEF QuietIn, QuietOut
    <3>5. CASE u = "app"
      <4>1. PICK g \in Frames(u) : g.k \in Waiting
        BY <3>1, <3>5, KindIs DEF IInv, FrameInv
      <4>2. g.c = c
        BY <3>1, <3>3, <3>5, <4>1 DEF IInv, PhaseInv
      <4> QED
        BY <2>1, <3>2, <4>1, <4>2 DEF Waiting, Stopping, Disabling, Starting
    <3>6. CASE u = "worker"
      <4>1. Top(t) \in Frames(t) /\ Top(t).k = "enable" /\ Frames(t) = {Top(t)}
        BY RunsIs DEF Control, Disabling
      <4>2. t # "worker"
        BY <3>1, <3>6, <4>1, KindIs DEF Control, Carrying
      <4>3. t = "app"
        BY <4>2, RunsIs DEF Threads, Control
      <4>4. app = "enabling" /\ c = index - 1 /\ ~Idle("app")
        BY <4>1, <4>3, RunsIs DEF IInv, PhaseInv, Control, Runs
      <4>5. ~stop
        BY <3>3, <3>6, <4>4 DEF IInv, PhaseInv
      <4>6. Ahead = c
        BY <4>4 DEF Ahead
      <4>7. Untouched(c)
        BY <4>4, <4>5, <4>6 DEF IInv, PhaseInv, Conns
      <4> QED
        BY <1>2, <3>1, <3>2, <3>3, <3>6, <4>7 DEF Untouched
    <3> QED
      BY <3>2, <3>4, <3>5, <3>6 DEF Threads
  <2> QED
    BY <2>3, <2>4, <2>5 DEF QuietIn, QuietOut
<1> QED
  BY <1>1, <1>2

LEMMA EnableBeginPlace ==
  ASSUME IInv, NEW t \in Threads, EnableBegin(t), NEW c, c = Top(t).c
  PROVE  PlaceInv'
<1>1. Runs(t, "enable") /\ "enable" \in Control /\ c \in Conns /\ "start out" \in Control
  BY EnableBeginIs DEF Control, Starting
<1>2. ~Idle(t) /\ Top(t).k \notin Carrying
  BY <1>1 DEF Runs, Carrying
<1>3. UNCHANGED <<held, connq, enabled>>
  BY DEF EnableBegin
<1>4. \A f \in {} : f.k \notin Carrying
  OBVIOUS
<1>5. CASE enabled[c]
  <2>1. StackTo(t, {}) /\ poolq' = poolq /\ fits' = fits
    BY <1>5, EnableBeginIs DEF Stacks
  <2> QED
    BY <1>2, <1>3, <1>4, <2>1, PlaceQuiet
<1>6. CASE ~enabled[c]
  <2>0. PICK A : A = {Do("start out", c)}
    OBVIOUS
  <2>1. StackTo(t, A) /\ fits' = [fits EXCEPT ![c] = TRUE]
    BY <1>6, <2>0, EnableBeginIs DEF Stacks
  <2>2. \A f \in A : f.k \notin Carrying
    BY <1>1, <1>2, <2>0, ControlBelow
  <2>3. fits \in [Conns -> BOOLEAN] /\ \A d \in Conns \ {c} : fits'[d] = fits[d]
    BY <2>1 DEF IInv, Types
  <2>4. CASE fits[c]
    <3>1. poolq' = poolq
      BY <1>6, <2>4, EnableBeginIs
    <3>2. fits' = fits
      BY <2>1, <2>3, <2>4
    <3> QED
      BY <1>2, <1>3, <2>1, <2>2, <3>1, <3>2, PlaceQuiet
  <2>5. CASE ~fits[c]
    <3>1. /\ ToSet(poolq'[c]) = Of(c) /\ Once(poolq'[c])
          /\ \A d \in Conns \ {c} : poolq'[d] = poolq[d]
      BY <1>6, <2>5, EnableBeginIs
    <3>2. /\ Bare(connq[c]) /\ held[In(c)] = {} /\ held[Out(c)] = {}
          /\ \A h \in Of(c) : Carriers(h) = {}
      BY <1>1, <1>6, <2>5, CleanIs
    <3>3. \A h : Carriers(h)' = Carriers(h)
      BY <1>2, <2>1, <2>2, CarryIs DEF IInv
    <3>4. PICK G : G = Of(c)
      OBVIOUS
    <3>5. G \in SUBSET Headers
      BY <3>4 DEF Of
    <3>6. ASSUME NEW h \in Headers \ G PROVE Still(h)
      <4>1. Home[h] \in Conns \ {c}
        BY <3>4, ConnAssumption DEF Of
      <4> QED
        BY <1>3, <3>1, <3>3, <4>1 DEF Still
    <3>7. ASSUME NEW h \in G PROVE Alone(h)' /\ Somewhere(h)'
      <4>1. Home[h] = c /\ h \in Of(c)
        BY <3>4 DEF Of
      <4>2. h \notin ToSet(connq[c])
        BY <3>2, <4>1, EventAssumption DEF Bare, Of
      <4>3. /\ h \in ToSet(poolq'[c]) /\ h \notin ToSet(connq'[c]) /\ h \notin held'[Out(c)]
            /\ h \notin held'[In(c)] /\ Carriers(h)' = {}
        BY <1>3, <3>1, <3>2, <3>3, <4>1, <4>2
      <4> QED
        BY <4>1, <4>3 DEF Alone, Somewhere
    <3>8. \A d \in Conns : fits'[d] \/ enabled'[d] => fits[d] \/ enabled[d] \/ Of(d) \subseteq G
      BY <1>3, <2>3, <3>4
    <3>9. ASSUME NEW d \in Conns
          PROVE  /\ ToSet(poolq'[d]) \subseteq Of(d) /\ ToSet(connq'[d]) \subseteq Of(d) \cup {Event}
                 /\ Once(poolq'[d]) /\ Once(connq'[d])
                 /\ ~fits'[d] /\ ~enabled'[d] => Bare(connq'[d])
      <4>1. ToSet(connq[d]) \subseteq Of(d) \cup {Event} /\ (~fits[d] /\ ~enabled[d] => Bare(connq[d]))
        BY DEF IInv, PlaceInv
      <4>2. CASE d = c
        BY <1>3, <3>1, <3>2, <4>1, <4>2, QueueIs
      <4>3. CASE d # c
        BY <1>3, <2>3, <3>1, <4>1, <4>3, QueueIs
      <4> QED
        BY <4>2, <4>3
    <3>10. \A p \in Ports : held'[p] \subseteq Of(p[1])
      BY <1>3 DEF IInv, PlaceInv
    <3> QED
      BY <3>5, <3>6, <3>7, <3>8, <3>9, <3>10, PlaceStep
  <2> QED
    BY <2>4, <2>5
<1> QED
  BY <1>5, <1>6

-----------------------------------------------------------------------------
\* The calls in progress and the ports.
LEMMA CallStep ==
  ASSUME IInv, NEW t \in Threads, NEW A, StackTo(t, A),
         \A u \in Threads \ {t} : \A f \in Frames(u) : CallFits(f) => CallFits(f)',
         \A f \in A : CallFits(f)'
  PROVE  CallInv'
<1>1. ASSUME NEW u \in Threads, NEW f \in Frames(u)' PROVE CallFits(f)'
  <2>1. CASE u = t
    BY <1>1, <2>1 DEF StackTo
  <2>2. CASE u # t
    BY <1>1, <2>2 DEF StackTo, IInv, CallInv
  <2> QED
    BY <2>1, <2>2
<1> QED
  BY <1>1 DEF CallInv

\* What a step of one thread does to the calls in progress.
LEMMA InCallIs ==
  ASSUME NEW t \in Threads, NEW A, StackTo(t, A)
  PROVE  \A K, c :
           /\ InCall(K, c)' => InCall(K, c) \/ \E f \in A : f.k \in K /\ f.c = c
           /\ InCall(K, c) => InCall(K, c)' \/ \E f \in Frames(t) : f.k \in K /\ f.c = c
           /\ (\E f \in A : f.k \in K /\ f.c = c) => InCall(K, c)'
<1>1. \A u \in Threads \ {t} : Frames(u)' = Frames(u)
  BY DEF StackTo
<1>2. Frames(t)' = A
  BY DEF StackTo
<1> QED
  BY <1>1, <1>2 DEF InCall

\* A frame that says no more than what has been said already.
Modest(f) == /\ f.k \notin Control
             /\ f.k = "return in" => held[In(f.c)] # {}
             /\ f.k = "return out" => held[Out(f.c)] # {}

LEMMA CalmStep ==
  ASSUME IInv, NEW t \in Threads, NEW A, StackTo(t, A), Types', UNCHANGED <<on, enabled, fits>>,
         \A p \in Ports : held[p] = {} /\ ~on[p] => held'[p] = {},
         \A c \in Conns : fwd[c] = 0 /\ ~on[In(c)] => fwd'[c] = 0,
         \A f \in Frames(t) : f.k \in Control => f \in A,
         \A f \in A : f \in Frames(t) \/ Modest(f)
  PROVE  CallInv' /\ PortInv'
<1>0. \A u \in Threads : \A f \in Frames(u) : f.c \in Conns
  BY TopIs DEF FrameType, IInv
<1>1. ASSUME NEW c \in Conns, ~on[In(c)], QuietIn(c) PROVE QuietIn(c)'
  <2>1. /\ held'[In(c)] = {} /\ held[In(c)] = {} /\ fwd[c] = 0 /\ fwd'[c] = 0
        /\ ~InCall({"return in"}, c)
    BY <1>1, PortIs DEF QuietIn
  <2>2. \A f \in A : f.k = "return in" => f.c # c
    BY <2>1 DEF InCall, Modest
  <2>3. ~InCall({"return in"}, c)'
    <3>1. PICK K : K = {"return in"}
      OBVIOUS
    <3>2. InCall(K, c)' => InCall(K, c) \/ \E f \in A : f.k \in K /\ f.c = c
      BY InCallIs
    <3> QED
      BY <2>1, <2>2, <3>1, <3>2
  <2> QED
    BY <2>1, <2>3 DEF QuietIn
<1>2. ASSUME NEW c \in Conns, ~on[Out(c)], QuietOut(c) PROVE QuietOut(c)'
  <2>1. held'[Out(c)] = {} /\ held[Out(c)] = {} /\ ~InCall({"return out"}, c)
    BY <1>2, PortIs DEF QuietOut
  <2>2. \A f \in A : f.k = "return out" => f.c # c
    BY <2>1 DEF InCall, Modest
  <2>3. ~InCall({"return out"}, c)'
    <3>1. PICK K : K = {"return out"}
      OBVIOUS
    <3>2. InCall(K, c)' => InCall(K, c) \/ \E f \in A : f.k \in K /\ f.c = c
      BY InCallIs
    <3> QED
      BY <2>1, <2>2, <3>1, <3>2
  <2> QED
    BY <2>1, <2>3 DEF QuietOut
<1>3. ASSUME NEW f, f.c \in Conns, CallFits(f) PROVE CallFits(f)'
  BY <1>1, <1>2, <1>3 DEF CallFits
<1>4. CallInv'
  <2>1. \A u \in Threads \ {t} : \A f \in Frames(u) : CallFits(f) => CallFits(f)'
    BY <1>0, <1>3
  <2>2. ASSUME NEW f \in A PROVE CallFits(f)'
    <3>1. CASE f \in Frames(t)
      BY <1>0, <1>3, <3>1 DEF IInv, CallInv
    <3>2. CASE Modest(f)
      BY <3>2 DEF Modest, CallFits, Control, Disabling, Stopping, Starting
    <3> QED
      BY <3>1, <3>2
  <2> QED
    BY <2>1, <2>2, CallStep
<1>5. ASSUME NEW c \in Conns PROVE PortFits(c)'
  <2>1. \A K : K \subseteq Control /\ InCall(K, c) => InCall(K, c)'
    BY InCallIs
  <2>2. {"start in", "undo out"} \subseteq Control /\ {"wait in"} \subseteq Control
        /\ {"wait out", "wait undo"} \subseteq Control
    BY DEF Control, Disabling, Starting
  <2>3. /\ InCall({"start in", "undo out"}, c) => InCall({"start in", "undo out"}, c)'
        /\ InCall({"wait in"}, c) => InCall({"wait in"}, c)'
        /\ InCall({"wait out", "wait undo"}, c) => InCall({"wait out", "wait undo"}, c)'
    BY <2>1, <2>2
  <2>4. PortFits(c)
    BY DEF IInv, PortInv
  <2>5. ~QuietIn(c)' => on[In(c)] \/ ~QuietIn(c)
    BY <1>1
  <2>6. ~QuietOut(c)' => on[Out(c)] \/ ~QuietOut(c)
    BY <1>2
  <2> QED
    BY <2>3, <2>4, <2>5, <2>6 DEF PortFits
<1> QED
  BY <1>4, <1>5 DEF PortInv

\* The worker and the client are not at the same connection with a call of it each.
LEMMA ApartIs ==
  ASSUME IInv, NEW f \in Frames("worker"), f.k \in Control, NEW g \in Frames("app")
  PROVE  f.c # g.c
<1>1. /\ work.at \in {"sending", "fulls"} /\ app \in {"enabling", "disabling", "destroying"}
      /\ ~Idle("app") /\ g.c = index - 1 /\ index > 1
  BY TopIs, WhoIs DEF IInv, PhaseInv
<1>2. app = "enabling" /\ ~stop
  BY <1>1 DEF IInv, PhaseInv
<1>3. Ahead = g.c /\ g.c \in Conns
  <2>1. Ahead = index - 1
    BY <1>1, <1>2 DEF Ahead
  <2>2. g \in FrameType
    BY <1>1, TopIs, WhoIs DEF IInv
  <2> QED
    BY <1>1, <2>1, <2>2 DEF FrameType
<1>4. Untouched(g.c)
  BY <1>2, <1>3 DEF IInv, PhaseInv, Conns
<1> QED
  BY <1>4 DEF Untouched

LEMMA ApartThreads ==
  ASSUME IInv, NEW t \in Threads, NEW u \in Threads \ {t}, NEW f \in Frames(t), f.k \in Control,
         NEW g \in Frames(u), g.k \in Control, f.c = g.c
  PROVE  FALSE
<1>1. t \notin CompThreads /\ u \notin CompThreads
  BY TopIs DEF FrameFits, IInv
<1>2. t \in {"app", "worker"} /\ u \in {"app", "worker"}
  BY <1>1 DEF Threads
<1>3. CASE t = "worker"
  BY <1>2, <1>3, ApartIs
<1>4. CASE u = "worker"
  BY <1>2, <1>4, ApartIs
<1> QED
  BY <1>2, <1>3, <1>4

LEMMA QuietSame ==
  ASSUME NEW t \in Threads, NEW A, StackTo(t, A), held' = held, fwd' = fwd,
         \A f \in A \cup Frames(t) : f.k \notin Returns
  PROVE  \A c : (QuietIn(c)' <=> QuietIn(c)) /\ (QuietOut(c)' <=> QuietOut(c))
<1>1. \A K, c : K \subseteq Returns => (InCall(K, c)' <=> InCall(K, c))
  BY InCallIs
<1>2. {"return in"} \subseteq Returns /\ {"return out"} \subseteq Returns
  BY DEF Returns
<1>3. \A c : /\ InCall({"return in"}, c)' <=> InCall({"return in"}, c)
             /\ InCall({"return out"}, c)' <=> InCall({"return out"}, c)
  BY <1>1, <1>2
<1> QED
  BY <1>3 DEF QuietIn, QuietOut

\* What PortInv asks of a step of a call at connection c.
PortsKept(t, c, A) ==
  /\ on'[In(c)] => enabled'[c]
  /\ on'[Out(c)] => \/ enabled'[c] \/ \E f \in A : f.k \in {"start in", "undo out"}
                    \/ /\ on[Out(c)] /\ ~enabled[c]
                       /\ \A f \in Frames(t) : f.k \notin {"start in", "undo out"}
  /\ \/ on'[In(c)] \/ QuietIn(c) \/ \E f \in A : f.k \in {"wait in"}
     \/ ~on[In(c)] /\ \A f \in Frames(t) : f.k \notin {"wait in"}
  /\ \/ on'[Out(c)] \/ QuietOut(c) \/ \E f \in A : f.k \in {"wait out", "wait undo"}
     \/ ~on[Out(c)] /\ \A f \in Frames(t) : f.k \notin {"wait out", "wait undo"}

LEMMA ControlStep ==
  ASSUME IInv, NEW t \in Threads, NEW c \in Conns, NEW A, StackTo(t, A), Types',
         UNCHANGED <<held, fwd, connq>>,
         \A f \in A \cup Frames(t) : f.k \notin Returns /\ f.c = c,
         \A d \in Conns \ {c} : /\ on'[In(d)] = on[In(d)] /\ on'[Out(d)] = on[Out(d)]
                                /\ enabled'[d] = enabled[d] /\ fits'[d] = fits[d],
         \A u \in Threads \ {t} : \A f \in Frames(u) : f.c = c /\ CallFits(f) => CallFits(f)',
         \A f \in A : CallFits(f)',
         PortsKept(t, c, A)
  PROVE  CallInv' /\ PortInv'
<1>0. \A u \in Threads : \A f \in Frames(u) : f.c \in Conns
  BY TopIs DEF FrameType, IInv
<1>1. \A d : (QuietIn(d)' <=> QuietIn(d)) /\ (QuietOut(d)' <=> QuietOut(d))
  BY QuietSame
<1>2. ASSUME NEW u \in Threads \ {t}, NEW f \in Frames(u), CallFits(f) PROVE CallFits(f)'
  <2>1. CASE f.c = c
    BY <1>2, <2>1
  <2>2. CASE f.c # c
    <3>1. f.c \in Conns \ {c}
      BY <1>0, <2>2
    <3> QED
      BY <1>1, <1>2, <3>1 DEF CallFits
  <2> QED
    BY <2>1, <2>2
<1>3. CallInv'
  BY <1>2, CallStep
<1>4. \A K : InCall(K, c) => InCall(K, c)' \/ \E f \in Frames(t) : f.k \in K
  BY InCallIs
<1>5. ASSUME NEW K, NEW f \in A, f.k \in K PROVE InCall(K, c)'
  <2>1. f.c = c
    OBVIOUS
  <2>2. \E g \in A : g.k \in K /\ g.c = c
    BY <1>5, <2>1
  <2>3. Frames(t)' = A
    BY DEF StackTo
  <2> QED
    BY <2>2, <2>3 DEF InCall
<1>6. ASSUME NEW d \in Conns \ {c}, NEW K, InCall(K, d) PROVE InCall(K, d)'
  <2>1. InCall(K, d)' \/ \E f \in Frames(t) : f.k \in K /\ f.c = d
    BY <1>6, InCallIs
  <2> QED
    BY <2>1
<1>7. ASSUME NEW d \in Conns PROVE PortFits(d)'
  <2>1. PortFits(d)
    BY DEF IInv, PortInv
  <2>2. CASE d # c
    BY <1>1, <1>6, <2>1, <2>2 DEF PortFits
  <2>3. CASE d = c
    <3>1. on'[Out(c)] => enabled'[c] \/ InCall({"start in", "undo out"}, c)'
      <4>1. PICK K : K = {"start in", "undo out"}
        OBVIOUS
      <4>2. /\ InCall(K, c) => InCall(K, c)' \/ \E f \in Frames(t) : f.k \in K
            /\ (\E f \in A : f.k \in K) => InCall(K, c)'
        BY <1>4, <1>5
      <4>3. on[Out(c)] /\ ~enabled[c] => InCall(K, c)
        BY <2>1, <2>3, <4>1 DEF PortFits
      <4>4. on'[Out(c)] => \/ enabled'[c] \/ \E f \in A : f.k \in K
                           \/ /\ on[Out(c)] /\ ~enabled[c]
                              /\ \A f \in Frames(t) : f.k \notin K
        BY <4>1 DEF PortsKept
      <4>5. on'[Out(c)] => enabled'[c] \/ InCall(K, c)'
        BY <4>2, <4>3, <4>4
      <4> QED
        BY <4>1, <4>5
    <3>2. ~QuietIn(c)' => on'[In(c)] \/ InCall({"wait in"}, c)'
      <4>1. PICK K : K = {"wait in"}
        OBVIOUS
      <4>2. /\ InCall(K, c) => InCall(K, c)' \/ \E f \in Frames(t) : f.k \in K
            /\ (\E f \in A : f.k \in K) => InCall(K, c)'
        BY <1>4, <1>5
      <4>3. ~QuietIn(c) => on[In(c)] \/ InCall(K, c)
        BY <2>1, <2>3, <4>1 DEF PortFits
      <4>4. \/ on'[In(c)] \/ QuietIn(c) \/ \E f \in A : f.k \in K
            \/ ~on[In(c)] /\ \A f \in Frames(t) : f.k \notin K
        BY <4>1 DEF PortsKept
      <4>5. ~QuietIn(c)' => on'[In(c)] \/ InCall(K, c)'
        BY <1>1, <4>2, <4>3, <4>4
      <4> QED
        BY <4>1, <4>5
    <3>3. ~QuietOut(c)' => on'[Out(c)] \/ InCall({"wait out", "wait undo"}, c)'
      <4>1. PICK K : K = {"wait out", "wait undo"}
        OBVIOUS
      <4>2. /\ InCall(K, c) => InCall(K, c)' \/ \E f \in Frames(t) : f.k \in K
            /\ (\E f \in A : f.k \in K) => InCall(K, c)'
        BY <1>4, <1>5
      <4>3. ~QuietOut(c) => on[Out(c)] \/ InCall(K, c)
        BY <2>1, <2>3, <4>1 DEF PortFits
      <4>4. \/ on'[Out(c)] \/ QuietOut(c) \/ \E f \in A : f.k \in K
            \/ ~on[Out(c)] /\ \A f \in Frames(t) : f.k \notin K
        BY <4>1 DEF PortsKept
      <4>5. ~QuietOut(c)' => on'[Out(c)] \/ InCall(K, c)'
        BY <1>1, <4>2, <4>3, <4>4
      <4> QED
        BY <4>1, <4>5
    <3> QED
      BY <2>3, <3>1, <3>2, <3>3 DEF PortFits, PortsKept
  <2> QED
    BY <2>2, <2>3
<1> QED
  BY <1>3, <1>7 DEF PortInv

\* The steps that move headers between queues, ports and threads.
LEMMA StackStay ==
  ASSUME Types, FrameInv, stack' = stack, NEW t \in Threads
  PROVE  StackTo(t, Frames(t))
BY StackSame DEF StackTo, FrameInv, Types, Frames

LEMMA ModestIs ==
  ASSUME NEW c \in Conns
  PROVE  /\ Modest(Cb(c))
         /\ \A k \in Carrying : \A b : Modest(Frame(k, c, b))
         /\ \A b : held[In(c)] # {} => Modest(Frame("return in", c, b))
         /\ \A b : held[Out(c)] # {} => Modest(Frame("return out", c, b))
BY DEF Modest, Cb, Frame, Carrying, Control, Disabling, Starting

LEMMA ReturnBufferCalls ==
  ASSUME IInv, NEW t \in Threads, NEW p \in Ports, NEW h, ReturnBuffer(t, p, h),
         \/ t \in CompThreads /\ Idle(t)
         \/ ~Idle(t) /\ Top(t).k \in Waiting /\ Top(t).c = p[1]
  PROVE  CallInv' /\ PortInv'
<1> DEFINE c == p[1]  a == Cb(c)  b == Frame(Returning(p), c, h)
<1>1. /\ h \in held[p] /\ h \in Headers /\ c \in Conns /\ Types'
      /\ StackTo(t, {a, b} \cup Frames(t))
  BY ReturnBufferIs DEF Stacks
<1>2. Modest(a) /\ Modest(b)
  <2>1. Modest(a)
    BY <1>1, ModestIs
  <2>2. held[p] # {}
    BY <1>1
  <2>3. CASE p = Out(c)
    <3>1. Returning(p) = "return out" /\ held[Out(c)] # {}
      BY <2>2, <2>3 DEF Returning, Out
    <3> QED
      BY <1>1, <3>1, ModestIs
  <2>4. CASE p = In(c)
    <3>1. Returning(p) = "return in" /\ held[In(c)] # {}
      BY <2>2, <2>4 DEF Returning, In
    <3> QED
      BY <1>1, <3>1, ModestIs
  <2> QED
    BY <2>1, <2>3, <2>4, PortIs
<1>3. held \in [Ports -> SUBSET Headers] /\ held' = [held EXCEPT ![p] = @ \ {h}]
  BY <1>1, QueueIs DEF ReturnBuffer
<1>5. UNCHANGED <<fwd, on, enabled, fits>>
  BY DEF ReturnBuffer
<1> HIDE DEF a, b
<1>6. PICK A : A = {a, b} \cup Frames(t)
  OBVIOUS
<1>7. /\ StackTo(t, A) /\ \A f \in Frames(t) : f.k \in Control => f \in A
      /\ \A f \in A : f \in Frames(t) \/ Modest(f)
  BY <1>1, <1>2, <1>6
<1>8. \A q \in Ports : held[q] = {} /\ ~on[q] => held'[q] = {}
  BY <1>3
<1> QED
  BY <1>1, <1>5, <1>7, <1>8, CalmStep

LEMMA ReturnDoneCalls ==
  ASSUME IInv, NEW t \in Threads, ReturnDone(t)
  PROVE  CallInv' /\ PortInv'
<1>1. ~Idle(t) /\ Top(t).k \in Returns /\ StackTo(t, Below(t)) /\ Types'
  BY ReturnDoneIs DEF Stacks
<1>2. Frames(t) = {Top(t)} \cup Below(t) /\ Top(t).k \notin Control
  BY <1>1, TopIs, KindIs DEF IInv
<1>3. PICK A : A = Below(t)
  OBVIOUS
<1>4. /\ StackTo(t, A) /\ \A f \in Frames(t) : f.k \in Control => f \in A
      /\ \A f \in A : f \in Frames(t) \/ Modest(f)
  BY <1>1, <1>2, <1>3
<1>5. UNCHANGED <<fwd, on, enabled, fits, held, connq>>
  BY DEF ReturnDone
<1> QED
  BY <1>1, <1>4, <1>5, CalmStep

LEMMA CallbackCalls ==
  ASSUME IInv, ~rash', NEW t \in Threads, Callback(t), NEW c, c = Top(t).c
  PROVE  CallInv' /\ PortInv'
<1>1. ~Idle(t) /\ Top(t) = Cb(c) /\ c \in Conns
  BY CallbackIs
<1>2. Frames(t) = {Top(t)} \cup Below(t) /\ Top(t).k \notin Control
  BY <1>1, TopIs, KindIs, FrameIs DEF IInv
<1>3. UNCHANGED <<fwd, on, enabled, fits, held>>
  BY DEF Callback
<1>4. CASE c \in Direct /\ connq[c] # <<>>
  <2>1. PICK h : h = Head(connq[c])
    OBVIOUS
  <2> DEFINE a == Frame("process", c, h)
  <2>2. /\ StackTo(t, {a} \cup Below(t)) /\ Types'
    BY <1>4, <2>1, CallbackIs DEF Stacks
  <2>3. Modest(a)
    BY <1>1, ModestIs DEF Carrying
  <2> HIDE DEF a
  <2>4. PICK A : A = {a} \cup Below(t)
    OBVIOUS
  <2>5. /\ StackTo(t, A) /\ \A f \in Frames(t) : f.k \in Control => f \in A
        /\ \A f \in A : f \in Frames(t) \/ Modest(f)
    BY <1>2, <2>2, <2>3, <2>4
  <2> QED
    BY <1>3, <2>2, <2>5, CalmStep
<1>5. CASE ~(c \in Direct /\ connq[c] # <<>>)
  <2>1. connq' = connq /\ StackTo(t, Below(t)) /\ Types'
    BY <1>5, CallbackIs DEF Stacks
  <2>2. PICK A : A = Below(t)
    OBVIOUS
  <2>3. /\ StackTo(t, A) /\ \A f \in Frames(t) : f.k \in Control => f \in A
        /\ \A f \in A : f \in Frames(t) \/ Modest(f)
    BY <1>2, <2>1, <2>2
  <2> QED
    BY <1>3, <2>1, <2>3, CalmStep
<1> QED
  BY <1>4, <1>5

LEMMA ProcessSendCalls ==
  ASSUME IInv, NEW t \in Threads, ProcessSend(t), NEW c, c = Top(t).c
  PROVE  CallInv' /\ PortInv'
<1>1. /\ ~Idle(t) /\ Top(t).k \in Carrying /\ c \in Conns /\ StackTo(t, Below(t)) /\ Types'
  BY ProcessSendIs, ProcessIs DEF Stacks
<1>2. Frames(t) = {Top(t)} \cup Below(t) /\ Top(t).k \notin Control
  BY <1>1, TopIs, KindIs DEF IInv
<1>3. PICK A : A = Below(t)
  OBVIOUS
<1>4. /\ StackTo(t, A) /\ \A f \in Frames(t) : f.k \in Control => f \in A
      /\ \A f \in A : f \in Frames(t) \/ Modest(f)
  BY <1>1, <1>2, <1>3
<1>5. UNCHANGED <<fwd, on, enabled, fits, connq>>
  BY DEF ProcessSend
<1>6. PICK h : held' = [held EXCEPT ![In(c)] = @ \cup {h}] /\ on[In(c)]
  BY DEF ProcessSend
<1>7. \A q \in Ports : held[q] = {} /\ ~on[q] => held'[q] = {}
  BY <1>1, <1>6, QueueIs
<1> QED
  BY <1>1, <1>4, <1>5, <1>7, CalmStep

LEMMA ProcessRefusedCalls ==
  ASSUME IInv, NEW t \in Threads, ProcessRefused(t), NEW c, c = Top(t).c
  PROVE  CallInv' /\ PortInv'
<1>1. /\ ~Idle(t) /\ Top(t).k \in Carrying /\ c \in Conns /\ StackTo(t, {Cb(c)} \cup Below(t))
      /\ Types'
  BY ProcessRefusedIs, ProcessIs DEF Stacks
<1>2. Frames(t) = {Top(t)} \cup Below(t) /\ Top(t).k \notin Control /\ Modest(Cb(c))
  BY <1>1, TopIs, KindIs, ModestIs DEF IInv
<1>3. PICK A : A = {Cb(c)} \cup Below(t)
  OBVIOUS
<1>4. /\ StackTo(t, A) /\ \A f \in Frames(t) : f.k \in Control => f \in A
      /\ \A f \in A : f \in Frames(t) \/ Modest(f)
  BY <1>1, <1>2, <1>3
<1>5. UNCHANGED <<fwd, on, enabled, fits, connq, held>>
  BY DEF ProcessRefused
<1> QED
  BY <1>1, <1>4, <1>5, CalmStep

LEMMA FlushQueueCalls ==
  ASSUME IInv, NEW t \in Threads, FlushQueue(t), NEW c, c = Top(t).c
  PROVE  CallInv' /\ PortInv'
<1>1. /\ c \in Conns /\ connq[c] # <<>> /\ connq' = [connq EXCEPT ![c] = Tail(@)]
  BY FlushQueueIs
<1>2. PICK A : /\ StackTo(t, A) /\ Types' /\ \A f \in Frames(t) : f.k \in Control => f \in A
               /\ \A f \in A : f \in Frames(t) \/ Modest(f)
  <2>1. CASE Head(connq[c]) = Event
    <3>1. stack' = stack /\ Types'
      BY <2>1, FlushQueueIs
    <3>2. StackTo(t, Frames(t))
      BY <3>1, StackStay DEF IInv
    <3> QED
      BY <3>1, <3>2
  <2>2. CASE Head(connq[c]) # Event
    <3>1. StackTo(t, {Cb(c)} \cup Frames(t)) /\ Types'
      BY <2>2, FlushQueueIs DEF Stacks
    <3>2. Modest(Cb(c))
      BY <1>1, ModestIs
    <3> QED
      BY <3>1, <3>2
  <2> QED
    BY <2>1, <2>2
<1>3. UNCHANGED <<fwd, on, enabled, fits, held>>
  BY DEF FlushQueue
<1> QED
  BY <1>2, <1>3, CalmStep

LEMMA SendEmptyCalls ==
  ASSUME IInv, SendEmpty, NEW c, c = Visit(work.i), NEW h, h = Head(poolq[c])
  PROVE  CallInv' /\ PortInv'
<1>0. PICK t \in Threads : t = "worker"
  BY PortIs
<1> DEFINE a == Frame("empty", c, h)
<1>1. /\ c \in Conns /\ h \in Headers /\ StackTo(t, {a}) /\ Frames(t) = {} /\ Types'
  BY <1>0, SendEmptyIs DEF Stacks
<1>2. Modest(a)
  BY <1>1, ModestIs DEF Carrying
<1> HIDE DEF a
<1>3. PICK A : A = {a}
  OBVIOUS
<1>4. /\ StackTo(t, A) /\ \A f \in Frames(t) : f.k \in Control => f \in A
      /\ \A f \in A : f \in Frames(t) \/ Modest(f)
  BY <1>1, <1>2, <1>3
<1>5. UNCHANGED <<fwd, on, enabled, fits, connq, held>>
  BY DEF SendEmpty
<1> QED
  BY <1>1, <1>4, <1>5, CalmStep

LEMMA EmptySentCalls ==
  ASSUME IInv, EmptySent, NEW c, c = Top("worker").c, NEW h, h = Top("worker").b
  PROVE  CallInv' /\ PortInv'
<1>0. PICK t \in Threads : t = "worker"
  BY PortIs
<1>1. /\ c \in Conns /\ StackTo(t, {}) /\ Frames(t) = {Top(t)} /\ Types' /\ Top(t).k \in Carrying
  BY <1>0, EmptySentIs DEF Stacks, Carrying
<1>3. PICK A : A = {}
  OBVIOUS
<1>4. /\ StackTo(t, A) /\ \A f \in Frames(t) : f.k \in Control => f \in A
      /\ \A f \in A : f \in Frames(t) \/ Modest(f)
  BY <1>1, <1>3, KindIs
<1>5. UNCHANGED <<fwd, on, enabled, fits, connq>>
  BY DEF EmptySent
<1>6. held' = held \/ (on[Out(c)] /\ held' = [held EXCEPT ![Out(c)] = @ \cup {h}])
  BY DEF EmptySent
<1>7. \A q \in Ports : held[q] = {} /\ ~on[q] => held'[q] = {}
  BY <1>1, <1>6, QueueIs
<1> QED
  BY <1>1, <1>4, <1>5, <1>7, CalmStep

LEMMA TakeFullCalls ==
  ASSUME IInv, TakeFull, NEW c, c = Visit(work.i), NEW h, h = Head(connq[c])
  PROVE  CallInv' /\ PortInv'
<1>0. PICK t \in Threads : t = "worker"
  BY PortIs
<1> DEFINE a == Frame("process", c, h)
<1>1. /\ c \in Conns /\ connq[c] # <<>> /\ h \in ToSet(connq[c]) /\ h \in Headers \cup {Event}
      /\ connq' = [connq EXCEPT ![c] = Tail(@)] /\ StackTo(t, {a}) /\ Frames(t) = {} /\ Types'
  BY <1>0, TakeFullIs DEF Stacks
<1>2. Modest(a)
  BY <1>1, ModestIs DEF Carrying
<1> HIDE DEF a
<1>3. PICK A : A = {a}
  OBVIOUS
<1>4. /\ StackTo(t, A) /\ \A f \in Frames(t) : f.k \in Control => f \in A
      /\ \A f \in A : f \in Frames(t) \/ Modest(f)
  BY <1>1, <1>2, <1>3
<1>5. UNCHANGED <<fwd, on, enabled, fits, held>>
  BY DEF TakeFull
<1> QED
  BY <1>1, <1>4, <1>5, CalmStep

\* Steps that leave every stack alone.
LEMMA OwnCalls ==
  ASSUME IInv, Types', stack' = stack, UNCHANGED <<on, enabled, fits, held>>,
         \A c \in Conns : fwd[c] = 0 /\ ~on[In(c)] => fwd'[c] = 0
  PROVE  CallInv' /\ PortInv'
<1>1. PICK t \in Threads : t = "worker"
  BY PortIs
<1>2. StackTo(t, Frames(t))
  BY StackStay DEF IInv
<1>3. PICK A : A = Frames(t)
  OBVIOUS
<1>4. /\ StackTo(t, A) /\ \A f \in Frames(t) : f.k \in Control => f \in A
      /\ \A f \in A : f \in Frames(t) \/ Modest(f)
  BY <1>2, <1>3
<1> QED
  BY <1>4, CalmStep

\* Events: one is sent on or dropped, comes back, is about to be reported, is reported.
LEMMA PassEventCalls ==
  ASSUME IInv, NEW t \in Threads, PassEvent(t), NEW c, c = Top(t).c
  PROVE  CallInv' /\ PortInv'
<1>1. /\ ~Idle(t) /\ Top(t).k \in Carrying /\ c \in Conns /\ StackTo(t, Below(t)) /\ Types'
  BY PassEventIs DEF Stacks, Carrying
<1>2. Frames(t) = {Top(t)} \cup Below(t) /\ Top(t).k \notin Control
  BY <1>1, TopIs, KindIs DEF IInv
<1>3. PICK A : A = Below(t)
  OBVIOUS
<1>4. /\ StackTo(t, A) /\ \A f \in Frames(t) : f.k \in Control => f \in A
      /\ \A f \in A : f \in Frames(t) \/ Modest(f)
  BY <1>1, <1>2, <1>3
<1>5. UNCHANGED <<on, enabled, fits, connq, held>>
  BY DEF PassEvent, ForwardEvent, DropEvent
<1>6. fwd' = fwd \/ (on[In(c)] /\ fwd' = [fwd EXCEPT ![c] = @ + 1])
  BY DEF PassEvent, ForwardEvent, DropEvent
<1>7. \A d \in Conns : fwd[d] = 0 /\ ~on[In(d)] => fwd'[d] = 0
  BY <1>1, <1>6 DEF IInv, Types
<1> QED
  BY <1>1, <1>4, <1>5, <1>7, CalmStep

LEMMA EventBackCalls ==
  ASSUME IInv, NEW c \in Conns, EventBack(c)
  PROVE  CallInv' /\ PortInv'
<1>1. Types' /\ fwd[c] # 0
  BY EventBackIs
<1>2. stack' = stack /\ UNCHANGED <<on, enabled, fits, held>> /\ fwd' = [fwd EXCEPT ![c] = @ - 1]
  BY DEF EventBack
<1>3. \A d \in Conns : fwd[d] = 0 /\ ~on[In(d)] => fwd'[d] = 0
  BY <1>1, <1>2 DEF IInv, Types
<1> QED
  BY <1>1, <1>2, <1>3, OwnCalls

LEMMA EventTestCalls ==
  ASSUME IInv, NEW c \in Conns, EventTest(c), NEW t, t = Thread(Out(c))
  PROVE  CallInv' /\ PortInv'
<1> DEFINE a == Do("event", c)
<1>1. t \in Threads /\ StackTo(t, {a}) /\ Frames(t) = {} /\ Types'
  BY EventTestIs, TopIs DEF Stacks, IInv
<1>2. Modest(a)
  BY DEF Modest, Do, Frame, Control, Disabling, Starting
<1> HIDE DEF a
<1>3. PICK A : A = {a}
  OBVIOUS
<1>4. /\ StackTo(t, A) /\ \A f \in Frames(t) : f.k \in Control => f \in A
      /\ \A f \in A : f \in Frames(t) \/ Modest(f)
  BY <1>1, <1>2, <1>3
<1>5. UNCHANGED <<fwd, on, enabled, fits, connq, held>>
  BY DEF EventTest
<1> QED
  BY <1>1, <1>4, <1>5, CalmStep

LEMMA EventCallCalls ==
  ASSUME IInv, NEW t \in Threads, EventCall(t), NEW c, c = Top(t).c
  PROVE  CallInv' /\ PortInv'
<1> DEFINE a == Cb(c)
<1>1. /\ c \in Conns /\ StackTo(t, {a}) /\ ~Idle(t) /\ Top(t).k = "event" /\ Below(t) = {}
      /\ Types'
  BY EventCallIs DEF Stacks
<1>2. Modest(a) /\ Frames(t) = {Top(t)} \cup Below(t)
  BY <1>1, ModestIs, TopIs DEF IInv
<1>3. Top(t).k \notin Control
  BY <1>1 DEF Control, Disabling, Starting
<1> HIDE DEF a
<1>4. PICK A : A = {a}
  OBVIOUS
<1>5. /\ StackTo(t, A) /\ \A f \in Frames(t) : f.k \in Control => f \in A
      /\ \A f \in A : f \in Frames(t) \/ Modest(f)
  BY <1>1, <1>2, <1>3, <1>4
<1>6. UNCHANGED <<fwd, on, enabled, fits, held>>
  BY DEF EventCall
<1> QED
  BY <1>1, <1>5, <1>6, CalmStep

\* The steps of the calls that enable and disable connections.
LEMMA DoIs ==
  ASSUME NEW c \in Conns, NEW n \in Control
  PROVE  Do(n, c).k = n /\ Do(n, c).c = c /\ n \notin Returns /\ n \notin Carrying /\ n # "process"
BY FrameIs, KindIs DEF Carrying

LEMMA ControlFrames ==
  ASSUME IInv, NEW t \in Threads, NEW k \in Control, Runs(t, k), NEW c, c = Top(t).c
  PROVE  /\ ~Idle(t) /\ c \in Conns /\ Top(t).k = k /\ Top(t).k \notin Carrying
         /\ Top(t) \in Frames(t) /\ CallFits(Top(t)) /\ Top(t).c = c
         /\ \A f \in Frames(t) : f.k \notin Returns /\ f.c = c /\ f.k \in Control /\ CallFits(f)
         /\ \A f \in Below(t) : f \in Frames(t) /\ f.k \notin Returns /\ f.c = c /\ f.k \notin Carrying
                                /\ f.k \in {"enable", "failed"}
         /\ Frames(t) = {Top(t)} \cup Below(t)
<1>1. /\ ~Idle(t) /\ Top(t).k = k /\ c \in Conns /\ Top(t) \in Frames(t)
      /\ Top(t).c = c /\ CallFits(Top(t)) /\ Frames(t) = {Top(t)} \cup Below(t)
      /\ \A g \in Below(t) : g.c = c /\ g.k \in {"enable", "failed"} /\ CallFits(g)
  BY RunsIs
<1>2. "enable" \in Control /\ "failed" \in Control
  BY DEF Control, Starting
<1>3. \A n \in Control : n \notin Returns /\ n \notin Carrying
  BY KindIs
<1>5. \A f \in Below(t) : f.k \in Control
  BY <1>1, <1>2
<1>6. \A f \in Frames(t) : f.k \in Control /\ f.c = c /\ CallFits(f)
  BY <1>1, <1>5
<1> QED
  BY <1>1, <1>3, <1>5, <1>6

LEMMA CallFitsIs ==
  ASSUME NEW f
  PROVE  /\ f.k \in {"enable", "disable"} => CallFits(f)'
         /\ f.k \in {"stop in", "wait in", "stop out", "wait out", "flush"} /\ enabled'[f.c]
            /\ (f.k # "stop in" => ~on'[In(f.c)])
            /\ (f.k \in {"stop out", "wait out", "flush"} => QuietIn(f.c)')
            /\ (f.k \in {"wait out", "flush"} => ~on'[Out(f.c)])
            /\ (f.k = "flush" => QuietOut(f.c)') => CallFits(f)'
         /\ f.k \in Starting /\ ~enabled'[f.c] /\ fits'[f.c] => CallFits(f)'
BY DEF CallFits, Stopping, Disabling, Starting

LEMMA OthersKeep ==
  ASSUME NEW c, enabled'[c] = enabled[c], fits'[c] = fits[c], on'[In(c)] => on[In(c)],
         on'[Out(c)] => on[Out(c)], QuietIn(c)' <=> QuietIn(c), QuietOut(c)' <=> QuietOut(c)
  PROVE  \A f : f.c = c /\ CallFits(f) => CallFits(f)'
BY DEF CallFits

LEMMA DisableBeginCalls ==
  ASSUME IInv, NEW t \in Threads, DisableBegin(t), NEW c, c = Top(t).c
  PROVE  CallInv' /\ PortInv' /\ PlaceInv'
<1>1. /\ Runs(t, "disable") /\ "disable" \in Control /\ "stop in" \in Control
      /\ enabled[c] => StackTo(t, {Do("stop in", c)} \cup Below(t)) /\ Types'
      /\ ~enabled[c] => StackTo(t, Below(t)) /\ Types'
  BY DisableBeginIs DEF Stacks, Control, Disabling
<1>2. /\ ~Idle(t) /\ c \in Conns /\ Top(t).k = "disable" /\ Top(t).k \notin Carrying
      /\ \A f \in Frames(t) : f.k \notin Returns /\ f.c = c /\ CallFits(f)
      /\ \A f \in Below(t) : f \in Frames(t) /\ f.k \notin Carrying /\ f.k \in {"enable", "failed"}
      /\ Frames(t) = {Top(t)} \cup Below(t)
      /\ Do("stop in", c).k = "stop in" /\ Do("stop in", c).c = c
      /\ "stop in" \notin Returns /\ "stop in" \notin Carrying
  <2>1. /\ ~Idle(t) /\ c \in Conns /\ Top(t).k = "disable" /\ Top(t).k \notin Carrying
        /\ \A f \in Frames(t) : f.k \notin Returns /\ f.c = c /\ f.k \in Control /\ CallFits(f)
        /\ \A f \in Below(t) : f \in Frames(t) /\ f.k \notin Returns /\ f.c = c /\ f.k \notin Carrying
                                /\ f.k \in {"enable", "failed"}
        /\ Frames(t) = {Top(t)} \cup Below(t)
    BY <1>1, ControlFrames
  <2>2. /\ Do("stop in", c).k = "stop in" /\ Do("stop in", c).c = c
        /\ "stop in" \notin Returns /\ "stop in" \notin Carrying
    <3>1. "stop in" \in Control /\ c \in Conns
      BY <1>1, <2>1
    <3> QED
      BY <3>1, DoIs
  <2> QED
    BY <1>1, <2>1, <2>2
<1>3. UNCHANGED <<on, held, fwd, poolq, connq, fits, enabled>>
  BY DEF DisableBegin
<1>4. PICK A : /\ StackTo(t, A) /\ Types'
               /\ \A f \in A : f \in Below(t) \/ (f = Do("stop in", c) /\ enabled[c])
  BY <1>1
<1>5. \A f \in A : f.k \notin Returns /\ f.c = c /\ f.k \notin Carrying
  BY <1>2, <1>4
<1>6. PlaceInv'
  BY <1>2, <1>3, <1>4, <1>5, PlaceQuiet
<1>7. \A f \in A \cup Frames(t) : f.k \notin Returns /\ f.c = c
  BY <1>2, <1>5
<1>8. (QuietIn(c)' <=> QuietIn(c)) /\ (QuietOut(c)' <=> QuietOut(c))
  BY <1>3, <1>4, <1>7, QuietSame
<1>9. \A f : f.c = c /\ CallFits(f) => CallFits(f)'
  BY <1>3, <1>8, OthersKeep
<1>10. ASSUME NEW f \in A PROVE CallFits(f)'
  <2>1. CASE f \in Below(t)
    BY <1>2, <1>9, <2>1
  <2>2. CASE f = Do("stop in", c) /\ enabled[c]
    BY <1>2, <1>3, <2>2, CallFitsIs
  <2> QED
    BY <1>4, <2>1, <2>2
<1>11. /\ on'[In(c)] => enabled'[c]
       /\ on'[Out(c)] => enabled'[c] \/ (on[Out(c)] /\ ~enabled[c])
  BY <1>2, <1>3 DEF IInv, PortInv, PortFits
<1>12. \A f \in Frames(t) : f.k \notin {"start in", "undo out"} /\ f.k \notin {"wait in"}
                            /\ f.k \notin {"wait out", "wait undo"}
  BY <1>2
<1>13. /\ on'[In(c)] \/ ~on[In(c)]
       /\ on'[Out(c)] \/ ~on[Out(c)]
  BY <1>3
<1>14. \A d \in Conns \ {c} : /\ on'[In(d)] = on[In(d)] /\ on'[Out(d)] = on[Out(d)]
                              /\ enabled'[d] = enabled[d] /\ fits'[d] = fits[d]
  BY <1>3
<1>15. PortsKept(t, c, A)
  BY <1>11, <1>12, <1>13 DEF PortsKept
<1> QED
  BY <1>2, <1>3, <1>4, <1>6, <1>7, <1>9, <1>10, <1>14, <1>15, ControlStep

\* A port is enabled or disabled.
LEMMA PortSetIs ==
  ASSUME Types, NEW c \in Conns, NEW v
  PROVE  /\ on' = [on EXCEPT ![In(c)] = v] =>
              /\ on'[In(c)] = v /\ on'[Out(c)] = on[Out(c)]
              /\ \A d \in Conns \ {c} : on'[In(d)] = on[In(d)] /\ on'[Out(d)] = on[Out(d)]
         /\ on' = [on EXCEPT ![Out(c)] = v] =>
              /\ on'[Out(c)] = v /\ on'[In(c)] = on[In(c)]
              /\ \A d \in Conns \ {c} : on'[In(d)] = on[In(d)] /\ on'[Out(d)] = on[Out(d)]
<1>1. on \in [Ports -> BOOLEAN] /\ In(c) \in Ports /\ Out(c) \in Ports /\ Out(c) # In(c)
  BY EndIs DEF Types
<1>2. ASSUME NEW d \in Conns \ {c}
      PROVE  /\ In(d) \in Ports /\ Out(d) \in Ports /\ In(d) # In(c) /\ Out(d) # Out(c)
             /\ In(d) # Out(c) /\ Out(d) # In(c)
  BY EndIs, EndsDiffer
<1> QED
  BY <1>1, <1>2

LEMMA PortStopInCalls ==
  ASSUME IInv, NEW t \in Threads, NEW c, c = Top(t).c, PortStop(t, "stop in", In(c), "wait in")
  PROVE  CallInv' /\ PortInv' /\ PlaceInv'
<1>1. Runs(t, "stop in") /\ "stop in" \in Control /\ Types' /\ StackTo(t, {Do("wait in", c)} \cup Below(t))
  BY PortStopIs DEF Stacks, PortStop, Runs
<1>2. /\ ~Idle(t) /\ c \in Conns /\ Top(t).k = "stop in" /\ Top(t).c = c /\ Top(t).k \notin Carrying
      /\ CallFits(Top(t)) /\ Top(t) \in Frames(t)
      /\ \A f \in Frames(t) : f.k \notin Returns /\ f.c = c /\ CallFits(f)
      /\ \A f \in Below(t) : /\ f \in Frames(t) /\ f.k \notin Returns /\ f.c = c /\ f.k \notin Carrying
                              /\ f.k \in {"enable", "failed"}
      /\ Frames(t) = {Top(t)} \cup Below(t)
  BY <1>1, ControlFrames
<1>2a. /\ Do("wait in", c).k = "wait in" /\ Do("wait in", c).c = c
       /\ "wait in" \notin Returns /\ "wait in" \notin Carrying
  BY DEF Do, Frame, Returns, Carrying
<1>3. /\ UNCHANGED <<held, fwd, poolq, connq, fits, enabled>> /\ ~on'[In(c)] /\ on'[Out(c)] = on[Out(c)]
      /\ \A d \in Conns \ {c} : /\ on'[In(d)] = on[In(d)] /\ on'[Out(d)] = on[Out(d)]
                              /\ enabled'[d] = enabled[d] /\ fits'[d] = fits[d]
  BY <1>2, PortSetIs DEF PortStop, IInv
<1>4. PICK A : StackTo(t, A) /\ A = {Do("wait in", c)} \cup Below(t)
  BY <1>1
<1>5. \A f \in A : f.k \notin Returns /\ f.c = c /\ f.k \notin Carrying
  BY <1>2, <1>2a, <1>4
<1>6. PlaceInv'
  BY <1>2, <1>3, <1>4, <1>5, PlaceQuiet
<1>7. \A f \in A \cup Frames(t) : f.k \notin Returns /\ f.c = c
  BY <1>2, <1>5
<1>8. (QuietIn(c)' <=> QuietIn(c)) /\ (QuietOut(c)' <=> QuietOut(c))
  BY <1>3, <1>4, <1>7, QuietSame
<1>9. \A f : f.c = c /\ CallFits(f) => CallFits(f)'
  BY <1>3, <1>8, OthersKeep
<1>10. ASSUME NEW f \in A PROVE CallFits(f)'
  <2>1. CASE f \in Below(t)
    BY <1>2, <1>9, <2>1
  <2>2. CASE f = Do("wait in", c)
    BY <1>2, <1>2a, <1>3, <1>8, <2>2, CallFitsIs DEF CallFits, Stopping, Disabling, Starting
  <2> QED
    BY <1>4, <2>1, <2>2
<1>11. /\ on'[In(c)] => enabled'[c]
  BY <1>2, <1>3 DEF IInv, PortInv, PortFits
<1>12. on'[Out(c)] => \/ enabled'[c] \/ \E f \in A : f.k \in {"start in", "undo out"}
                      \/ /\ on[Out(c)] /\ ~enabled[c]
                         /\ \A f \in Frames(t) : f.k \notin {"start in", "undo out"}
  BY <1>2, <1>3, <1>4
<1>13. Do("wait in", c) \in A
  BY <1>4
<1>14. \/ on'[In(c)] \/ QuietIn(c) \/ \E f \in A : f.k \in {"wait in"}
       \/ ~on[In(c)] /\ \A f \in Frames(t) : f.k \notin {"wait in"}
  BY <1>2, <1>2a, <1>3, <1>13 DEF CallFits, Stopping
<1>15. \/ on'[Out(c)] \/ QuietOut(c) \/ \E f \in A : f.k \in {"wait out", "wait undo"}
       \/ ~on[Out(c)] /\ \A f \in Frames(t) : f.k \notin {"wait out", "wait undo"}
  BY <1>2, <1>2a, <1>3, <1>13 DEF CallFits, Stopping
<1>17. PortsKept(t, c, A)
  BY <1>11, <1>12, <1>14, <1>15 DEF PortsKept
<1>16. CallInv' /\ PortInv'
  <2>1. \A u \in Threads \ {t} : \A f \in Frames(u) : f.c = c /\ CallFits(f) => CallFits(f)'
    BY <1>9
  <2>2. UNCHANGED <<held, fwd, connq>> /\ c \in Conns
    BY <1>2, <1>3
  <2>3. \A f \in A : CallFits(f)'
    BY <1>10
  <2>4. StackTo(t, A) /\ Types'
    BY <1>1, <1>4
  <2> QED
    BY <1>3, <1>7, <1>17, <2>1, <2>2, <2>3, <2>4, ControlStep
<1> QED
  BY <1>6, <1>16

LEMMA PortStopOutCalls ==
  ASSUME IInv, NEW t \in Threads, NEW c, c = Top(t).c, PortStop(t, "stop out", Out(c), "wait out")
  PROVE  CallInv' /\ PortInv' /\ PlaceInv'
<1>1. Runs(t, "stop out") /\ "stop out" \in Control /\ Types' /\ StackTo(t, {Do("wait out", c)} \cup Below(t))
  BY PortStopIs DEF Stacks, PortStop, Runs
<1>2. /\ ~Idle(t) /\ c \in Conns /\ Top(t).k = "stop out" /\ Top(t).c = c /\ Top(t).k \notin Carrying
      /\ CallFits(Top(t)) /\ Top(t) \in Frames(t)
      /\ \A f \in Frames(t) : f.k \notin Returns /\ f.c = c /\ CallFits(f)
      /\ \A f \in Below(t) : /\ f \in Frames(t) /\ f.k \notin Returns /\ f.c = c /\ f.k \notin Carrying
                              /\ f.k \in {"enable", "failed"}
      /\ Frames(t) = {Top(t)} \cup Below(t)
  BY <1>1, ControlFrames
<1>2a. /\ Do("wait out", c).k = "wait out" /\ Do("wait out", c).c = c
       /\ "wait out" \notin Returns /\ "wait out" \notin Carrying
  BY DEF Do, Frame, Returns, Carrying
<1>3. /\ UNCHANGED <<held, fwd, poolq, connq, fits, enabled>> /\ ~on'[Out(c)] /\ on'[In(c)] = on[In(c)]
      /\ \A d \in Conns \ {c} : /\ on'[In(d)] = on[In(d)] /\ on'[Out(d)] = on[Out(d)]
                              /\ enabled'[d] = enabled[d] /\ fits'[d] = fits[d]
  BY <1>2, PortSetIs DEF PortStop, IInv
<1>4. PICK A : StackTo(t, A) /\ A = {Do("wait out", c)} \cup Below(t)
  BY <1>1
<1>5. \A f \in A : f.k \notin Returns /\ f.c = c /\ f.k \notin Carrying
  BY <1>2, <1>2a, <1>4
<1>6. PlaceInv'
  BY <1>2, <1>3, <1>4, <1>5, PlaceQuiet
<1>7. \A f \in A \cup Frames(t) : f.k \notin Returns /\ f.c = c
  BY <1>2, <1>5
<1>8. (QuietIn(c)' <=> QuietIn(c)) /\ (QuietOut(c)' <=> QuietOut(c))
  BY <1>3, <1>4, <1>7, QuietSame
<1>9. \A f : f.c = c /\ CallFits(f) => CallFits(f)'
  BY <1>3, <1>8, OthersKeep
<1>10. ASSUME NEW f \in A PROVE CallFits(f)'
  <2>1. CASE f \in Below(t)
    BY <1>2, <1>9, <2>1
  <2>2. CASE f = Do("wait out", c)
    BY <1>2, <1>2a, <1>3, <1>8, <2>2, CallFitsIs DEF CallFits, Stopping, Disabling, Starting
  <2> QED
    BY <1>4, <2>1, <2>2
<1>11. /\ on'[In(c)] => enabled'[c]
  BY <1>2, <1>3 DEF IInv, PortInv, PortFits
<1>12. on'[Out(c)] => \/ enabled'[c] \/ \E f \in A : f.k \in {"start in", "undo out"}
                      \/ /\ on[Out(c)] /\ ~enabled[c]
                         /\ \A f \in Frames(t) : f.k \notin {"start in", "undo out"}
  BY <1>2, <1>3, <1>4
<1>13. Do("wait out", c) \in A
  BY <1>4
<1>14. \/ on'[In(c)] \/ QuietIn(c) \/ \E f \in A : f.k \in {"wait in"}
       \/ ~on[In(c)] /\ \A f \in Frames(t) : f.k \notin {"wait in"}
  BY <1>2, <1>2a, <1>3, <1>13 DEF CallFits, Stopping
<1>15. \/ on'[Out(c)] \/ QuietOut(c) \/ \E f \in A : f.k \in {"wait out", "wait undo"}
       \/ ~on[Out(c)] /\ \A f \in Frames(t) : f.k \notin {"wait out", "wait undo"}
  BY <1>2, <1>2a, <1>3, <1>13 DEF CallFits, Stopping
<1>17. PortsKept(t, c, A)
  BY <1>11, <1>12, <1>14, <1>15 DEF PortsKept
<1>16. CallInv' /\ PortInv'
  <2>1. \A u \in Threads \ {t} : \A f \in Frames(u) : f.c = c /\ CallFits(f) => CallFits(f)'
    BY <1>9
  <2>2. UNCHANGED <<held, fwd, connq>> /\ c \in Conns
    BY <1>2, <1>3
  <2>3. \A f \in A : CallFits(f)'
    BY <1>10
  <2>4. StackTo(t, A) /\ Types'
    BY <1>1, <1>4
  <2> QED
    BY <1>3, <1>7, <1>17, <2>1, <2>2, <2>3, <2>4, ControlStep
<1> QED
  BY <1>6, <1>16

LEMMA PortStopUndoCalls ==
  ASSUME IInv, NEW t \in Threads, NEW c, c = Top(t).c, PortStop(t, "undo out", Out(c), "wait undo")
  PROVE  CallInv' /\ PortInv' /\ PlaceInv'
<1>1. Runs(t, "undo out") /\ "undo out" \in Control /\ Types' /\ StackTo(t, {Do("wait undo", c)} \cup Below(t))
  BY PortStopIs DEF Stacks, PortStop, Runs
<1>2. /\ ~Idle(t) /\ c \in Conns /\ Top(t).k = "undo out" /\ Top(t).c = c /\ Top(t).k \notin Carrying
      /\ CallFits(Top(t)) /\ Top(t) \in Frames(t)
      /\ \A f \in Frames(t) : f.k \notin Returns /\ f.c = c /\ CallFits(f)
      /\ \A f \in Below(t) : /\ f \in Frames(t) /\ f.k \notin Returns /\ f.c = c /\ f.k \notin Carrying
                              /\ f.k \in {"enable", "failed"}
      /\ Frames(t) = {Top(t)} \cup Below(t)
  BY <1>1, ControlFrames
<1>2a. /\ Do("wait undo", c).k = "wait undo" /\ Do("wait undo", c).c = c
       /\ "wait undo" \notin Returns /\ "wait undo" \notin Carrying
  BY DEF Do, Frame, Returns, Carrying
<1>3. /\ UNCHANGED <<held, fwd, poolq, connq, fits, enabled>> /\ ~on'[Out(c)] /\ on'[In(c)] = on[In(c)]
      /\ \A d \in Conns \ {c} : /\ on'[In(d)] = on[In(d)] /\ on'[Out(d)] = on[Out(d)]
                              /\ enabled'[d] = enabled[d] /\ fits'[d] = fits[d]
  BY <1>2, PortSetIs DEF PortStop, IInv
<1>4. PICK A : StackTo(t, A) /\ A = {Do("wait undo", c)} \cup Below(t)
  BY <1>1
<1>5. \A f \in A : f.k \notin Returns /\ f.c = c /\ f.k \notin Carrying
  BY <1>2, <1>2a, <1>4
<1>6. PlaceInv'
  BY <1>2, <1>3, <1>4, <1>5, PlaceQuiet
<1>7. \A f \in A \cup Frames(t) : f.k \notin Returns /\ f.c = c
  BY <1>2, <1>5
<1>8. (QuietIn(c)' <=> QuietIn(c)) /\ (QuietOut(c)' <=> QuietOut(c))
  BY <1>3, <1>4, <1>7, QuietSame
<1>9. \A f : f.c = c /\ CallFits(f) => CallFits(f)'
  BY <1>3, <1>8, OthersKeep
<1>10. ASSUME NEW f \in A PROVE CallFits(f)'
  <2>1. CASE f \in Below(t)
    BY <1>2, <1>9, <2>1
  <2>2. CASE f = Do("wait undo", c)
    BY <1>2, <1>2a, <1>3, <1>8, <2>2, CallFitsIs DEF CallFits, Stopping, Disabling, Starting
  <2> QED
    BY <1>4, <2>1, <2>2
<1>11. /\ on'[In(c)] => enabled'[c]
  BY <1>2, <1>3 DEF IInv, PortInv, PortFits
<1>12. on'[Out(c)] => \/ enabled'[c] \/ \E f \in A : f.k \in {"start in", "undo out"}
                      \/ /\ on[Out(c)] /\ ~enabled[c]
                         /\ \A f \in Frames(t) : f.k \notin {"start in", "undo out"}
  BY <1>2, <1>3, <1>4
<1>13. Do("wait undo", c) \in A
  BY <1>4
<1>14. \/ on'[In(c)] \/ QuietIn(c) \/ \E f \in A : f.k \in {"wait in"}
       \/ ~on[In(c)] /\ \A f \in Frames(t) : f.k \notin {"wait in"}
  BY <1>2, <1>2a, <1>3, <1>13 DEF CallFits, Stopping
<1>15. \/ on'[Out(c)] \/ QuietOut(c) \/ \E f \in A : f.k \in {"wait out", "wait undo"}
       \/ ~on[Out(c)] /\ \A f \in Frames(t) : f.k \notin {"wait out", "wait undo"}
  BY <1>2, <1>2a, <1>3, <1>13 DEF CallFits, Stopping
<1>17. PortsKept(t, c, A)
  BY <1>11, <1>12, <1>14, <1>15 DEF PortsKept
<1>16. CallInv' /\ PortInv'
  <2>1. \A u \in Threads \ {t} : \A f \in Frames(u) : f.c = c /\ CallFits(f) => CallFits(f)'
    BY <1>9
  <2>2. UNCHANGED <<held, fwd, connq>> /\ c \in Conns
    BY <1>2, <1>3
  <2>3. \A f \in A : CallFits(f)'
    BY <1>10
  <2>4. StackTo(t, A) /\ Types'
    BY <1>1, <1>4
  <2> QED
    BY <1>3, <1>7, <1>17, <2>1, <2>2, <2>3, <2>4, ControlStep
<1> QED
  BY <1>6, <1>16

LEMMA EmptyIs == ToSet(<<>>) = {} /\ Bare(<<>>)
BY DEF ToSet, Bare

\* No other thread is in a call at the connection where a call runs.
LEMMA OthersApart ==
  ASSUME IInv, NEW t \in Threads, NEW f \in Frames(t), f.k \in Control
  PROVE  \A u \in Threads \ {t} : \A g \in Frames(u) : g.c = f.c => CallFits(g)'
<1>1. ASSUME NEW u \in Threads \ {t}, NEW g \in Frames(u), g.c = f.c PROVE CallFits(g)'
  <2>1. g.k \notin Control
    BY <1>1, ApartThreads
  <2> QED
    BY <2>1 DEF CallFits, Control, Disabling, Stopping, Starting
<1> QED
  BY <1>1

LEMMA PortEmptyInCalls ==
  ASSUME IInv, NEW t \in Threads, NEW c, c = Top(t).c, PortEmpty(t, "wait in", In(c), <<Do("stop out", c)>>)
  PROVE  CallInv' /\ PortInv' /\ PlaceInv'
<1>1. Runs(t, "wait in") /\ "wait in" \in Control /\ Types' /\ StackTo(t, {Do("stop out", c)} \cup Below(t)) /\ QuietIn(c)
  BY PortEmptyIs DEF Stacks, PortEmpty, Runs
<1>2. /\ ~Idle(t) /\ c \in Conns /\ Top(t).k = "wait in" /\ Top(t).c = c /\ Top(t).k \notin Carrying
      /\ CallFits(Top(t)) /\ Top(t) \in Frames(t) /\ Top(t).k \in Control
      /\ \A f \in Frames(t) : f.k \notin Returns /\ f.c = c /\ CallFits(f)
      /\ \A f \in Below(t) : /\ f \in Frames(t) /\ f.k \notin Returns /\ f.c = c /\ f.k \notin Carrying
                              /\ f.k \in {"enable", "failed"}
      /\ Frames(t) = {Top(t)} \cup Below(t)
  BY <1>1, ControlFrames
<1>2a. /\ Do("stop out", c).k = "stop out" /\ Do("stop out", c).c = c
       /\ "stop out" \notin Returns /\ "stop out" \notin Carrying
  BY DEF Do, Frame, Returns, Carrying
<1>3. /\ UNCHANGED <<held, fwd, poolq, connq>> /\ on'[In(c)] = on[In(c)] /\ on'[Out(c)] = on[Out(c)]
      /\ enabled'[c] = enabled[c] /\ fits'[c] = fits[c]
      /\ \A d \in Conns \ {c} : /\ on'[In(d)] = on[In(d)] /\ on'[Out(d)] = on[Out(d)]
                              /\ enabled'[d] = enabled[d] /\ fits'[d] = fits[d]
  BY <1>2, PortSetIs DEF PortEmpty, IInv, Types
<1>4. PICK A : A = {Do("stop out", c)} \cup Below(t)
  OBVIOUS
<1>5. StackTo(t, A)
  BY <1>1, <1>4
<1>6. \A f \in A : f.k \notin Returns /\ f.c = c /\ f.k \notin Carrying
  BY <1>2, <1>2a, <1>4
<1>7. \A f \in A \cup Frames(t) : f.k \notin Returns /\ f.c = c
  BY <1>2, <1>6
<1>8. (QuietIn(c)' <=> QuietIn(c)) /\ (QuietOut(c)' <=> QuietOut(c))
  BY <1>3, <1>5, <1>7, QuietSame
<1>9. \A f \in A : CallFits(f)'
  <2>1. ASSUME NEW f \in A PROVE CallFits(f)'
    <3>1. CASE f \in Below(t)
      <4>1. f.c = c /\ CallFits(f) /\ f.k \in {"enable", "failed"}
        BY <1>2, <3>1
      <4>2. f.k = "failed" => ~enabled'[f.c] /\ fits'[f.c] /\ f.k \in Starting
        BY <1>3, <4>1 DEF CallFits, Starting
      <4> QED
        BY <4>1, <4>2, CallFitsIs
    <3>2. CASE f = Do("stop out", c)
      BY <1>1, <1>2, <1>2a, <1>3, <1>8, <3>2, CallFitsIs DEF CallFits, Stopping, Disabling, Starting
    <3> QED
      BY <1>4, <3>1, <3>2
  <2> QED
    BY <2>1
<1>10. PortsKept(t, c, A)
  <2>2. PortFits(c)
    BY <1>2 DEF IInv, PortInv
  <2>3. /\ on'[In(c)] => enabled'[c]
    BY <1>1, <1>2, <1>3, <2>2 DEF PortFits, CallFits, Stopping, Disabling, Starting
  <2>4. on'[Out(c)] => \/ enabled'[c] \/ \E f \in A : f.k \in {"start in", "undo out"}
                       \/ /\ on[Out(c)] /\ ~enabled[c]
                          /\ \A f \in Frames(t) : f.k \notin {"start in", "undo out"}
    BY <1>1, <1>2, <1>2a, <1>3, <1>4 DEF CallFits, Stopping, Disabling, Starting
  <2>5. \/ on'[In(c)] \/ QuietIn(c) \/ \E f \in A : f.k \in {"wait in"}
        \/ ~on[In(c)] /\ \A f \in Frames(t) : f.k \notin {"wait in"}
    BY <1>1, <1>2, <1>2a, <1>3, <1>4 DEF CallFits, Stopping, Disabling, Starting
  <2>6. \/ on'[Out(c)] \/ QuietOut(c) \/ \E f \in A : f.k \in {"wait out", "wait undo"}
        \/ ~on[Out(c)] /\ \A f \in Frames(t) : f.k \notin {"wait out", "wait undo"}
    BY <1>1, <1>2, <1>2a, <1>3, <1>4 DEF CallFits, Stopping, Disabling, Starting
  <2> QED
    BY <2>3, <2>4, <2>5, <2>6 DEF PortsKept
<1>11. \A u \in Threads \ {t} : \A f \in Frames(u) : f.c = c /\ CallFits(f) => CallFits(f)'
  BY <1>2, OthersApart
<1>12. PlaceInv'
  <2>1. /\ \A d \in Conns : fits'[d] \/ enabled'[d] => fits[d] \/ enabled[d]
        /\ \A d \in Conns : ~fits'[d] /\ ~enabled'[d] => Bare(connq[d]) \/ (~fits[d] /\ ~enabled[d])
    BY <1>1, <1>2, <1>3 DEF CallFits, Stopping, Disabling, Starting
  <2> QED
    BY <1>2, <1>3, <1>5, <1>6, <2>1, PlaceQuiet
<1>13. UNCHANGED <<held, fwd, connq>> /\ c \in Conns /\ Types'
  BY <1>1, <1>2, <1>3
<1>14. \A d \in Conns \ {c} : /\ on'[In(d)] = on[In(d)] /\ on'[Out(d)] = on[Out(d)]
                              /\ enabled'[d] = enabled[d] /\ fits'[d] = fits[d]
  BY <1>3
<1>15. CallInv' /\ PortInv'
  BY <1>5, <1>7, <1>9, <1>10, <1>11, <1>13, <1>14, ControlStep
<1> QED
  BY <1>12, <1>15

LEMMA PortEmptyOutCalls ==
  ASSUME IInv, NEW t \in Threads, NEW c, c = Top(t).c, PortEmpty(t, "wait out", Out(c), <<Do("flush", c)>>)
  PROVE  CallInv' /\ PortInv' /\ PlaceInv'
<1>1. Runs(t, "wait out") /\ "wait out" \in Control /\ Types' /\ StackTo(t, {Do("flush", c)} \cup Below(t)) /\ QuietOut(c)
  BY PortEmptyIs DEF Stacks, PortEmpty, Runs
<1>2. /\ ~Idle(t) /\ c \in Conns /\ Top(t).k = "wait out" /\ Top(t).c = c /\ Top(t).k \notin Carrying
      /\ CallFits(Top(t)) /\ Top(t) \in Frames(t) /\ Top(t).k \in Control
      /\ \A f \in Frames(t) : f.k \notin Returns /\ f.c = c /\ CallFits(f)
      /\ \A f \in Below(t) : /\ f \in Frames(t) /\ f.k \notin Returns /\ f.c = c /\ f.k \notin Carrying
                              /\ f.k \in {"enable", "failed"}
      /\ Frames(t) = {Top(t)} \cup Below(t)
  BY <1>1, ControlFrames
<1>2a. /\ Do("flush", c).k = "flush" /\ Do("flush", c).c = c
       /\ "flush" \notin Returns /\ "flush" \notin Carrying
  BY DEF Do, Frame, Returns, Carrying
<1>3. /\ UNCHANGED <<held, fwd, poolq, connq>> /\ on'[In(c)] = on[In(c)] /\ on'[Out(c)] = on[Out(c)]
      /\ enabled'[c] = enabled[c] /\ fits'[c] = fits[c]
      /\ \A d \in Conns \ {c} : /\ on'[In(d)] = on[In(d)] /\ on'[Out(d)] = on[Out(d)]
                              /\ enabled'[d] = enabled[d] /\ fits'[d] = fits[d]
  BY <1>2, PortSetIs DEF PortEmpty, IInv, Types
<1>4. PICK A : A = {Do("flush", c)} \cup Below(t)
  OBVIOUS
<1>5. StackTo(t, A)
  BY <1>1, <1>4
<1>6. \A f \in A : f.k \notin Returns /\ f.c = c /\ f.k \notin Carrying
  BY <1>2, <1>2a, <1>4
<1>7. \A f \in A \cup Frames(t) : f.k \notin Returns /\ f.c = c
  BY <1>2, <1>6
<1>8. (QuietIn(c)' <=> QuietIn(c)) /\ (QuietOut(c)' <=> QuietOut(c))
  BY <1>3, <1>5, <1>7, QuietSame
<1>9. \A f \in A : CallFits(f)'
  <2>1. ASSUME NEW f \in A PROVE CallFits(f)'
    <3>1. CASE f \in Below(t)
      <4>1. f.c = c /\ CallFits(f) /\ f.k \in {"enable", "failed"}
        BY <1>2, <3>1
      <4>2. f.k = "failed" => ~enabled'[f.c] /\ fits'[f.c] /\ f.k \in Starting
        BY <1>3, <4>1 DEF CallFits, Starting
      <4> QED
        BY <4>1, <4>2, CallFitsIs
    <3>2. CASE f = Do("flush", c)
      BY <1>1, <1>2, <1>2a, <1>3, <1>8, <3>2, CallFitsIs DEF CallFits, Stopping, Disabling, Starting
    <3> QED
      BY <1>4, <3>1, <3>2
  <2> QED
    BY <2>1
<1>10. PortsKept(t, c, A)
  <2>2. PortFits(c)
    BY <1>2 DEF IInv, PortInv
  <2>3. /\ on'[In(c)] => enabled'[c]
    BY <1>1, <1>2, <1>3, <2>2 DEF PortFits, CallFits, Stopping, Disabling, Starting
  <2>4. on'[Out(c)] => \/ enabled'[c] \/ \E f \in A : f.k \in {"start in", "undo out"}
                       \/ /\ on[Out(c)] /\ ~enabled[c]
                          /\ \A f \in Frames(t) : f.k \notin {"start in", "undo out"}
    BY <1>1, <1>2, <1>2a, <1>3, <1>4 DEF CallFits, Stopping, Disabling, Starting
  <2>5. \/ on'[In(c)] \/ QuietIn(c) \/ \E f \in A : f.k \in {"wait in"}
        \/ ~on[In(c)] /\ \A f \in Frames(t) : f.k \notin {"wait in"}
    BY <1>1, <1>2, <1>2a, <1>3, <1>4 DEF CallFits, Stopping, Disabling, Starting
  <2>6. \/ on'[Out(c)] \/ QuietOut(c) \/ \E f \in A : f.k \in {"wait out", "wait undo"}
        \/ ~on[Out(c)] /\ \A f \in Frames(t) : f.k \notin {"wait out", "wait undo"}
    BY <1>1, <1>2, <1>2a, <1>3, <1>4 DEF CallFits, Stopping, Disabling, Starting
  <2> QED
    BY <2>3, <2>4, <2>5, <2>6 DEF PortsKept
<1>11. \A u \in Threads \ {t} : \A f \in Frames(u) : f.c = c /\ CallFits(f) => CallFits(f)'
  BY <1>2, OthersApart
<1>12. PlaceInv'
  <2>1. /\ \A d \in Conns : fits'[d] \/ enabled'[d] => fits[d] \/ enabled[d]
        /\ \A d \in Conns : ~fits'[d] /\ ~enabled'[d] => Bare(connq[d]) \/ (~fits[d] /\ ~enabled[d])
    BY <1>1, <1>2, <1>3 DEF CallFits, Stopping, Disabling, Starting
  <2> QED
    BY <1>2, <1>3, <1>5, <1>6, <2>1, PlaceQuiet
<1>13. UNCHANGED <<held, fwd, connq>> /\ c \in Conns /\ Types'
  BY <1>1, <1>2, <1>3
<1>14. \A d \in Conns \ {c} : /\ on'[In(d)] = on[In(d)] /\ on'[Out(d)] = on[Out(d)]
                              /\ enabled'[d] = enabled[d] /\ fits'[d] = fits[d]
  BY <1>3
<1>15. CallInv' /\ PortInv'
  BY <1>5, <1>7, <1>9, <1>10, <1>11, <1>13, <1>14, ControlStep
<1> QED
  BY <1>12, <1>15

LEMMA PortEmptyUndoCalls ==
  ASSUME IInv, NEW t \in Threads, NEW c, c = Top(t).c, PortEmpty(t, "wait undo", Out(c), <<>>)
  PROVE  CallInv' /\ PortInv' /\ PlaceInv'
<1>1. Runs(t, "wait undo") /\ "wait undo" \in Control /\ Types' /\ StackTo(t, Below(t)) /\ QuietOut(c)
  BY PortEmptyIs DEF Stacks, PortEmpty, Runs
<1>2. /\ ~Idle(t) /\ c \in Conns /\ Top(t).k = "wait undo" /\ Top(t).c = c /\ Top(t).k \notin Carrying
      /\ CallFits(Top(t)) /\ Top(t) \in Frames(t) /\ Top(t).k \in Control
      /\ \A f \in Frames(t) : f.k \notin Returns /\ f.c = c /\ CallFits(f)
      /\ \A f \in Below(t) : /\ f \in Frames(t) /\ f.k \notin Returns /\ f.c = c /\ f.k \notin Carrying
                              /\ f.k \in {"enable", "failed"}
      /\ Frames(t) = {Top(t)} \cup Below(t)
  BY <1>1, ControlFrames
<1>3. /\ UNCHANGED <<held, fwd, poolq, connq>> /\ on'[In(c)] = on[In(c)] /\ on'[Out(c)] = on[Out(c)]
      /\ enabled'[c] = enabled[c] /\ fits'[c] = fits[c]
      /\ \A d \in Conns \ {c} : /\ on'[In(d)] = on[In(d)] /\ on'[Out(d)] = on[Out(d)]
                              /\ enabled'[d] = enabled[d] /\ fits'[d] = fits[d]
  BY <1>2, PortSetIs DEF PortEmpty, IInv, Types
<1>4. PICK A : A = Below(t)
  OBVIOUS
<1>5. StackTo(t, A)
  BY <1>1, <1>4
<1>6. \A f \in A : f.k \notin Returns /\ f.c = c /\ f.k \notin Carrying
  BY <1>2, <1>4
<1>7. \A f \in A \cup Frames(t) : f.k \notin Returns /\ f.c = c
  BY <1>2, <1>6
<1>8. (QuietIn(c)' <=> QuietIn(c)) /\ (QuietOut(c)' <=> QuietOut(c))
  BY <1>3, <1>5, <1>7, QuietSame
<1>9. \A f \in A : CallFits(f)'
  <2>1. ASSUME NEW f \in A PROVE CallFits(f)'
    <3>1. CASE f \in Below(t)
      <4>1. f.c = c /\ CallFits(f) /\ f.k \in {"enable", "failed"}
        BY <1>2, <3>1
      <4>2. f.k = "failed" => ~enabled'[f.c] /\ fits'[f.c] /\ f.k \in Starting
        BY <1>3, <4>1 DEF CallFits, Starting
      <4> QED
        BY <4>1, <4>2, CallFitsIs
    <3> QED
      BY <1>4, <3>1
  <2> QED
    BY <2>1
<1>10. PortsKept(t, c, A)
  <2>2. PortFits(c)
    BY <1>2 DEF IInv, PortInv
  <2>3. /\ on'[In(c)] => enabled'[c]
    BY <1>1, <1>2, <1>3, <2>2 DEF PortFits, CallFits, Stopping, Disabling, Starting
  <2>4. on'[Out(c)] => \/ enabled'[c] \/ \E f \in A : f.k \in {"start in", "undo out"}
                       \/ /\ on[Out(c)] /\ ~enabled[c]
                          /\ \A f \in Frames(t) : f.k \notin {"start in", "undo out"}
    BY <1>1, <1>2, <1>3, <1>4 DEF CallFits, Stopping, Disabling, Starting
  <2>5. \/ on'[In(c)] \/ QuietIn(c) \/ \E f \in A : f.k \in {"wait in"}
        \/ ~on[In(c)] /\ \A f \in Frames(t) : f.k \notin {"wait in"}
    BY <1>1, <1>2, <1>3, <1>4 DEF CallFits, Stopping, Disabling, Starting
  <2>6. \/ on'[Out(c)] \/ QuietOut(c) \/ \E f \in A : f.k \in {"wait out", "wait undo"}
        \/ ~on[Out(c)] /\ \A f \in Frames(t) : f.k \notin {"wait out", "wait undo"}
    BY <1>1, <1>2, <1>3, <1>4 DEF CallFits, Stopping, Disabling, Starting
  <2> QED
    BY <2>3, <2>4, <2>5, <2>6 DEF PortsKept
<1>11. \A u \in Threads \ {t} : \A f \in Frames(u) : f.c = c /\ CallFits(f) => CallFits(f)'
  BY <1>2, OthersApart
<1>12. PlaceInv'
  <2>1. /\ \A d \in Conns : fits'[d] \/ enabled'[d] => fits[d] \/ enabled[d]
        /\ \A d \in Conns : ~fits'[d] /\ ~enabled'[d] => Bare(connq[d]) \/ (~fits[d] /\ ~enabled[d])
    BY <1>1, <1>2, <1>3 DEF CallFits, Stopping, Disabling, Starting
  <2> QED
    BY <1>2, <1>3, <1>5, <1>6, <2>1, PlaceQuiet
<1>13. UNCHANGED <<held, fwd, connq>> /\ c \in Conns /\ Types'
  BY <1>1, <1>2, <1>3
<1>14. \A d \in Conns \ {c} : /\ on'[In(d)] = on[In(d)] /\ on'[Out(d)] = on[Out(d)]
                              /\ enabled'[d] = enabled[d] /\ fits'[d] = fits[d]
  BY <1>3
<1>15. CallInv' /\ PortInv'
  BY <1>5, <1>7, <1>9, <1>10, <1>11, <1>13, <1>14, ControlStep
<1> QED
  BY <1>12, <1>15

LEMMA FlushDoneCalls ==
  ASSUME IInv, NEW t \in Threads, NEW c, c = Top(t).c, FlushDone(t)
  PROVE  CallInv' /\ PortInv' /\ PlaceInv'
<1>1. Runs(t, "flush") /\ "flush" \in Control /\ Types' /\ StackTo(t, Below(t)) /\ Bare(connq[c])
  BY FlushDoneIs, EmptyIs DEF Stacks, FlushDone
<1>2. /\ ~Idle(t) /\ c \in Conns /\ Top(t).k = "flush" /\ Top(t).c = c /\ Top(t).k \notin Carrying
      /\ CallFits(Top(t)) /\ Top(t) \in Frames(t) /\ Top(t).k \in Control
      /\ \A f \in Frames(t) : f.k \notin Returns /\ f.c = c /\ CallFits(f)
      /\ \A f \in Below(t) : /\ f \in Frames(t) /\ f.k \notin Returns /\ f.c = c /\ f.k \notin Carrying
                              /\ f.k \in {"enable", "failed"}
      /\ Frames(t) = {Top(t)} \cup Below(t)
  BY <1>1, ControlFrames
<1>3. /\ UNCHANGED <<held, fwd, poolq, connq>> /\ on'[In(c)] = on[In(c)] /\ on'[Out(c)] = on[Out(c)]
      /\ enabled'[c] = FALSE /\ fits'[c] = fits[c]
      /\ \A d \in Conns \ {c} : /\ on'[In(d)] = on[In(d)] /\ on'[Out(d)] = on[Out(d)]
                              /\ enabled'[d] = enabled[d] /\ fits'[d] = fits[d]
  BY <1>2, PortSetIs DEF FlushDone, IInv, Types
<1>4. PICK A : A = Below(t)
  OBVIOUS
<1>5. StackTo(t, A)
  BY <1>1, <1>4
<1>6. \A f \in A : f.k \notin Returns /\ f.c = c /\ f.k \notin Carrying
  BY <1>2, <1>4
<1>7. \A f \in A \cup Frames(t) : f.k \notin Returns /\ f.c = c
  BY <1>2, <1>6
<1>8. (QuietIn(c)' <=> QuietIn(c)) /\ (QuietOut(c)' <=> QuietOut(c))
  BY <1>3, <1>5, <1>7, QuietSame
<1>9. \A f \in A : CallFits(f)'
  <2>1. ASSUME NEW f \in A PROVE CallFits(f)'
    <3>1. CASE f \in Below(t)
      <4>1. f.c = c /\ CallFits(f) /\ f.k \in {"enable", "failed"}
        BY <1>2, <3>1
      <4>2. f.k = "failed" => ~enabled'[f.c] /\ fits'[f.c] /\ f.k \in Starting
        BY <1>3, <4>1 DEF CallFits, Starting
      <4> QED
        BY <4>1, <4>2, CallFitsIs
    <3> QED
      BY <1>4, <3>1
  <2> QED
    BY <2>1
<1>10. PortsKept(t, c, A)
  <2>2. PortFits(c)
    BY <1>2 DEF IInv, PortInv
  <2>3. /\ on'[In(c)] => enabled'[c]
    BY <1>1, <1>2, <1>3, <2>2 DEF PortFits, CallFits, Stopping, Disabling, Starting
  <2>4. on'[Out(c)] => \/ enabled'[c] \/ \E f \in A : f.k \in {"start in", "undo out"}
                       \/ /\ on[Out(c)] /\ ~enabled[c]
                          /\ \A f \in Frames(t) : f.k \notin {"start in", "undo out"}
    BY <1>1, <1>2, <1>3, <1>4 DEF CallFits, Stopping, Disabling, Starting
  <2>5. \/ on'[In(c)] \/ QuietIn(c) \/ \E f \in A : f.k \in {"wait in"}
        \/ ~on[In(c)] /\ \A f \in Frames(t) : f.k \notin {"wait in"}
    BY <1>1, <1>2, <1>3, <1>4 DEF CallFits, Stopping, Disabling, Starting
  <2>6. \/ on'[Out(c)] \/ QuietOut(c) \/ \E f \in A : f.k \in {"wait out", "wait undo"}
        \/ ~on[Out(c)] /\ \A f \in Frames(t) : f.k \notin {"wait out", "wait undo"}
    BY <1>1, <1>2, <1>3, <1>4 DEF CallFits, Stopping, Disabling, Starting
  <2> QED
    BY <2>3, <2>4, <2>5, <2>6 DEF PortsKept
<1>11. \A u \in Threads \ {t} : \A f \in Frames(u) : f.c = c /\ CallFits(f) => CallFits(f)'
  BY <1>2, OthersApart
<1>12. PlaceInv'
  <2>1. /\ \A d \in Conns : fits'[d] \/ enabled'[d] => fits[d] \/ enabled[d]
        /\ \A d \in Conns : ~fits'[d] /\ ~enabled'[d] => Bare(connq[d]) \/ (~fits[d] /\ ~enabled[d])
    BY <1>1, <1>2, <1>3 DEF CallFits, Stopping, Disabling, Starting
  <2> QED
    BY <1>2, <1>3, <1>5, <1>6, <2>1, PlaceQuiet
<1>13. UNCHANGED <<held, fwd, connq>> /\ c \in Conns /\ Types'
  BY <1>1, <1>2, <1>3
<1>14. \A d \in Conns \ {c} : /\ on'[In(d)] = on[In(d)] /\ on'[Out(d)] = on[Out(d)]
                              /\ enabled'[d] = enabled[d] /\ fits'[d] = fits[d]
  BY <1>3
<1>15. CallInv' /\ PortInv'
  BY <1>5, <1>7, <1>9, <1>10, <1>11, <1>13, <1>14, ControlStep
<1> QED
  BY <1>12, <1>15

LEMMA StartOutCalls ==
  ASSUME IInv, NEW t \in Threads, NEW c, c = Top(t).c, StartOut(t)
  PROVE  CallInv' /\ PortInv' /\ PlaceInv'
<1>1. Runs(t, "start out") /\ "start out" \in Control /\ Types' /\ StackTo(t, {Do("start in", c)})
  BY StartOutIs DEF Stacks
<1>2. /\ ~Idle(t) /\ c \in Conns /\ Top(t).k = "start out" /\ Top(t).c = c /\ Top(t).k \notin Carrying
      /\ CallFits(Top(t)) /\ Top(t) \in Frames(t) /\ Top(t).k \in Control
      /\ \A f \in Frames(t) : f.k \notin Returns /\ f.c = c /\ CallFits(f)
      /\ \A f \in Below(t) : /\ f \in Frames(t) /\ f.k \notin Returns /\ f.c = c /\ f.k \notin Carrying
                              /\ f.k \in {"enable", "failed"}
      /\ Frames(t) = {Top(t)} \cup Below(t)
  BY <1>1, ControlFrames
<1>2a. /\ Do("start in", c).k = "start in" /\ Do("start in", c).c = c
       /\ "start in" \notin Returns /\ "start in" \notin Carrying
  BY DEF Do, Frame, Returns, Carrying
<1>3. /\ UNCHANGED <<held, fwd, poolq, connq>> /\ on'[In(c)] = on[In(c)] /\ on'[Out(c)] = TRUE
      /\ enabled'[c] = enabled[c] /\ fits'[c] = fits[c]
      /\ \A d \in Conns \ {c} : /\ on'[In(d)] = on[In(d)] /\ on'[Out(d)] = on[Out(d)]
                              /\ enabled'[d] = enabled[d] /\ fits'[d] = fits[d]
  <2>1. /\ Types /\ UNCHANGED <<held, fwd, poolq, connq, fits, enabled>>
        /\ on' = [on EXCEPT ![Out(c)] = TRUE]
    BY <1>2 DEF StartOut, IInv
  <2> QED
    BY <1>2, <2>1, PortSetIs
<1>4. PICK A : A = {Do("start in", c)}
  OBVIOUS
<1>5. StackTo(t, A)
  BY <1>1, <1>4
<1>6. \A f \in A : f.k \notin Returns /\ f.c = c /\ f.k \notin Carrying
  BY <1>2, <1>2a, <1>4
<1>7. \A f \in A \cup Frames(t) : f.k \notin Returns /\ f.c = c
  BY <1>2, <1>6
<1>8. (QuietIn(c)' <=> QuietIn(c)) /\ (QuietOut(c)' <=> QuietOut(c))
  BY <1>3, <1>5, <1>7, QuietSame
<1>9. \A f \in A : CallFits(f)'
  <2>1. ASSUME NEW f \in A PROVE CallFits(f)'
    <3>1. CASE f = Do("start in", c)
      BY <1>1, <1>2, <1>2a, <1>3, <1>8, <3>1, CallFitsIs DEF CallFits, Stopping, Disabling, Starting
    <3> QED
      BY <1>4, <3>1
  <2> QED
    BY <2>1
<1>10. PortsKept(t, c, A)
  <2>2. PortFits(c)
    BY <1>2 DEF IInv, PortInv
  <2>3. /\ on'[In(c)] => enabled'[c]
    BY <1>1, <1>2, <1>3, <2>2 DEF PortFits, CallFits, Stopping, Disabling, Starting
  <2>4. on'[Out(c)] => \/ enabled'[c] \/ \E f \in A : f.k \in {"start in", "undo out"}
                       \/ /\ on[Out(c)] /\ ~enabled[c]
                          /\ \A f \in Frames(t) : f.k \notin {"start in", "undo out"}
    BY <1>1, <1>2, <1>2a, <1>3, <1>4 DEF CallFits, Stopping, Disabling, Starting
  <2>5. \/ on'[In(c)] \/ QuietIn(c) \/ \E f \in A : f.k \in {"wait in"}
        \/ ~on[In(c)] /\ \A f \in Frames(t) : f.k \notin {"wait in"}
    BY <1>1, <1>2, <1>2a, <1>3, <1>4 DEF CallFits, Stopping, Disabling, Starting
  <2>6. \/ on'[Out(c)] \/ QuietOut(c) \/ \E f \in A : f.k \in {"wait out", "wait undo"}
        \/ ~on[Out(c)] /\ \A f \in Frames(t) : f.k \notin {"wait out", "wait undo"}
    BY <1>1, <1>2, <1>2a, <1>3, <1>4 DEF CallFits, Stopping, Disabling, Starting
  <2> QED
    BY <2>3, <2>4, <2>5, <2>6 DEF PortsKept
<1>11. \A u \in Threads \ {t} : \A f \in Frames(u) : f.c = c /\ CallFits(f) => CallFits(f)'
  BY <1>2, OthersApart
<1>12. PlaceInv'
  <2>1. /\ \A d \in Conns : fits'[d] \/ enabled'[d] => fits[d] \/ enabled[d]
        /\ \A d \in Conns : ~fits'[d] /\ ~enabled'[d] => Bare(connq[d]) \/ (~fits[d] /\ ~enabled[d])
    BY <1>1, <1>2, <1>3 DEF CallFits, Stopping, Disabling, Starting
  <2> QED
    BY <1>2, <1>3, <1>5, <1>6, <2>1, PlaceQuiet
<1>13. UNCHANGED <<held, fwd, connq>> /\ c \in Conns /\ Types'
  BY <1>1, <1>2, <1>3
<1>14. \A d \in Conns \ {c} : /\ on'[In(d)] = on[In(d)] /\ on'[Out(d)] = on[Out(d)]
                              /\ enabled'[d] = enabled[d] /\ fits'[d] = fits[d]
  BY <1>3
<1>15. CallInv' /\ PortInv'
  BY <1>5, <1>7, <1>9, <1>10, <1>11, <1>13, <1>14, ControlStep
<1> QED
  BY <1>12, <1>15

LEMMA StartInCalls ==
  ASSUME IInv, NEW t \in Threads, NEW c, c = Top(t).c, StartIn(t)
  PROVE  CallInv' /\ PortInv' /\ PlaceInv'
<1>1. Runs(t, "start in") /\ "start in" \in Control /\ Types' /\ StackTo(t, {})
  BY StartInIs DEF Stacks
<1>2. /\ ~Idle(t) /\ c \in Conns /\ Top(t).k = "start in" /\ Top(t).c = c /\ Top(t).k \notin Carrying
      /\ CallFits(Top(t)) /\ Top(t) \in Frames(t) /\ Top(t).k \in Control
      /\ \A f \in Frames(t) : f.k \notin Returns /\ f.c = c /\ CallFits(f)
      /\ \A f \in Below(t) : /\ f \in Frames(t) /\ f.k \notin Returns /\ f.c = c /\ f.k \notin Carrying
                              /\ f.k \in {"enable", "failed"}
      /\ Frames(t) = {Top(t)} \cup Below(t)
  BY <1>1, ControlFrames
<1>3. /\ UNCHANGED <<held, fwd, poolq, connq>> /\ on'[In(c)] = TRUE /\ on'[Out(c)] = on[Out(c)]
      /\ enabled'[c] = TRUE /\ fits'[c] = fits[c]
      /\ \A d \in Conns \ {c} : /\ on'[In(d)] = on[In(d)] /\ on'[Out(d)] = on[Out(d)]
                              /\ enabled'[d] = enabled[d] /\ fits'[d] = fits[d]
  <2>1. /\ Types /\ UNCHANGED <<held, fwd, poolq, connq, fits>>
        /\ on' = [on EXCEPT ![In(c)] = TRUE]
    BY <1>2 DEF StartIn, IInv
  <2>2. enabled' = [enabled EXCEPT ![c] = TRUE] /\ enabled \in [Conns -> BOOLEAN]
    BY <1>2, <2>1 DEF StartIn, Types
  <2>3. enabled'[c] = TRUE /\ \A d \in Conns \ {c} : enabled'[d] = enabled[d]
    BY <1>2, <2>2
  <2> QED
    BY <1>2, <2>1, <2>3, PortSetIs
<1>4. PICK A : A = {}
  OBVIOUS
<1>5. StackTo(t, A)
  BY <1>1, <1>4
<1>6. \A f \in A : f.k \notin Returns /\ f.c = c /\ f.k \notin Carrying
  BY <1>2, <1>4
<1>7. \A f \in A \cup Frames(t) : f.k \notin Returns /\ f.c = c
  BY <1>2, <1>6
<1>8. (QuietIn(c)' <=> QuietIn(c)) /\ (QuietOut(c)' <=> QuietOut(c))
  BY <1>3, <1>5, <1>7, QuietSame
<1>9. \A f \in A : CallFits(f)'
  BY <1>4
<1>10. PortsKept(t, c, A)
  <2>2. PortFits(c)
    BY <1>2 DEF IInv, PortInv
  <2>3. /\ on'[In(c)] => enabled'[c]
    BY <1>1, <1>2, <1>3, <2>2 DEF PortFits, CallFits, Stopping, Disabling, Starting
  <2>4. on'[Out(c)] => \/ enabled'[c] \/ \E f \in A : f.k \in {"start in", "undo out"}
                       \/ /\ on[Out(c)] /\ ~enabled[c]
                          /\ \A f \in Frames(t) : f.k \notin {"start in", "undo out"}
    BY <1>1, <1>2, <1>3, <1>4 DEF CallFits, Stopping, Disabling, Starting
  <2>5. \/ on'[In(c)] \/ QuietIn(c) \/ \E f \in A : f.k \in {"wait in"}
        \/ ~on[In(c)] /\ \A f \in Frames(t) : f.k \notin {"wait in"}
    BY <1>1, <1>2, <1>3, <1>4 DEF CallFits, Stopping, Disabling, Starting
  <2>6. \/ on'[Out(c)] \/ QuietOut(c) \/ \E f \in A : f.k \in {"wait out", "wait undo"}
        \/ ~on[Out(c)] /\ \A f \in Frames(t) : f.k \notin {"wait out", "wait undo"}
    BY <1>1, <1>2, <1>3, <1>4 DEF CallFits, Stopping, Disabling, Starting
  <2> QED
    BY <2>3, <2>4, <2>5, <2>6 DEF PortsKept
<1>11. \A u \in Threads \ {t} : \A f \in Frames(u) : f.c = c /\ CallFits(f) => CallFits(f)'
  BY <1>2, OthersApart
<1>12. PlaceInv'
  <2>1. /\ \A d \in Conns : fits'[d] \/ enabled'[d] => fits[d] \/ enabled[d]
        /\ \A d \in Conns : ~fits'[d] /\ ~enabled'[d] => Bare(connq[d]) \/ (~fits[d] /\ ~enabled[d])
    BY <1>1, <1>2, <1>3 DEF CallFits, Stopping, Disabling, Starting
  <2> QED
    BY <1>2, <1>3, <1>5, <1>6, <2>1, PlaceQuiet
<1>13. UNCHANGED <<held, fwd, connq>> /\ c \in Conns /\ Types'
  BY <1>1, <1>2, <1>3
<1>14. \A d \in Conns \ {c} : /\ on'[In(d)] = on[In(d)] /\ on'[Out(d)] = on[Out(d)]
                              /\ enabled'[d] = enabled[d] /\ fits'[d] = fits[d]
  BY <1>3
<1>15. CallInv' /\ PortInv'
  BY <1>5, <1>7, <1>9, <1>10, <1>11, <1>13, <1>14, ControlStep
<1> QED
  BY <1>12, <1>15

LEMMA StartOutFailsCalls ==
  ASSUME IInv, NEW t \in Threads, NEW c, c = Top(t).c, StartFails(t, "start out", Out(c), <<Do("failed", c)>>)
  PROVE  CallInv' /\ PortInv' /\ PlaceInv'
<1>1. Runs(t, "start out") /\ "start out" \in Control /\ Types' /\ StackTo(t, {Do("failed", c)})
  BY StartFailsIs DEF Stacks
<1>2. /\ ~Idle(t) /\ c \in Conns /\ Top(t).k = "start out" /\ Top(t).c = c /\ Top(t).k \notin Carrying
      /\ CallFits(Top(t)) /\ Top(t) \in Frames(t) /\ Top(t).k \in Control
      /\ \A f \in Frames(t) : f.k \notin Returns /\ f.c = c /\ CallFits(f)
      /\ \A f \in Below(t) : /\ f \in Frames(t) /\ f.k \notin Returns /\ f.c = c /\ f.k \notin Carrying
                              /\ f.k \in {"enable", "failed"}
      /\ Frames(t) = {Top(t)} \cup Below(t)
  BY <1>1, ControlFrames
<1>2a. /\ Do("failed", c).k = "failed" /\ Do("failed", c).c = c
       /\ "failed" \notin Returns /\ "failed" \notin Carrying
  BY DEF Do, Frame, Returns, Carrying
<1>3. /\ UNCHANGED <<held, fwd, poolq, connq>> /\ on'[In(c)] = on[In(c)] /\ on'[Out(c)] = on[Out(c)]
      /\ enabled'[c] = enabled[c] /\ fits'[c] = fits[c]
      /\ \A d \in Conns \ {c} : /\ on'[In(d)] = on[In(d)] /\ on'[Out(d)] = on[Out(d)]
                              /\ enabled'[d] = enabled[d] /\ fits'[d] = fits[d]
  BY <1>2, PortSetIs DEF StartFails, IInv, Types
<1>4. PICK A : A = {Do("failed", c)}
  OBVIOUS
<1>5. StackTo(t, A)
  BY <1>1, <1>4
<1>6. \A f \in A : f.k \notin Returns /\ f.c = c /\ f.k \notin Carrying
  BY <1>2, <1>2a, <1>4
<1>7. \A f \in A \cup Frames(t) : f.k \notin Returns /\ f.c = c
  BY <1>2, <1>6
<1>8. (QuietIn(c)' <=> QuietIn(c)) /\ (QuietOut(c)' <=> QuietOut(c))
  BY <1>3, <1>5, <1>7, QuietSame
<1>9. \A f \in A : CallFits(f)'
  <2>1. ASSUME NEW f \in A PROVE CallFits(f)'
    <3>1. CASE f = Do("failed", c)
      BY <1>1, <1>2, <1>2a, <1>3, <1>8, <3>1, CallFitsIs DEF CallFits, Stopping, Disabling, Starting
    <3> QED
      BY <1>4, <3>1
  <2> QED
    BY <2>1
<1>10. PortsKept(t, c, A)
  <2>2. PortFits(c)
    BY <1>2 DEF IInv, PortInv
  <2>3. /\ on'[In(c)] => enabled'[c]
    BY <1>1, <1>2, <1>3, <2>2 DEF PortFits, CallFits, Stopping, Disabling, Starting
  <2>4. on'[Out(c)] => \/ enabled'[c] \/ \E f \in A : f.k \in {"start in", "undo out"}
                       \/ /\ on[Out(c)] /\ ~enabled[c]
                          /\ \A f \in Frames(t) : f.k \notin {"start in", "undo out"}
    BY <1>1, <1>2, <1>2a, <1>3, <1>4 DEF CallFits, Stopping, Disabling, Starting
  <2>5. \/ on'[In(c)] \/ QuietIn(c) \/ \E f \in A : f.k \in {"wait in"}
        \/ ~on[In(c)] /\ \A f \in Frames(t) : f.k \notin {"wait in"}
    BY <1>1, <1>2, <1>2a, <1>3, <1>4 DEF CallFits, Stopping, Disabling, Starting
  <2>6. \/ on'[Out(c)] \/ QuietOut(c) \/ \E f \in A : f.k \in {"wait out", "wait undo"}
        \/ ~on[Out(c)] /\ \A f \in Frames(t) : f.k \notin {"wait out", "wait undo"}
    BY <1>1, <1>2, <1>2a, <1>3, <1>4 DEF CallFits, Stopping, Disabling, Starting
  <2> QED
    BY <2>3, <2>4, <2>5, <2>6 DEF PortsKept
<1>11. \A u \in Threads \ {t} : \A f \in Frames(u) : f.c = c /\ CallFits(f) => CallFits(f)'
  BY <1>2, OthersApart
<1>12. PlaceInv'
  <2>1. /\ \A d \in Conns : fits'[d] \/ enabled'[d] => fits[d] \/ enabled[d]
        /\ \A d \in Conns : ~fits'[d] /\ ~enabled'[d] => Bare(connq[d]) \/ (~fits[d] /\ ~enabled[d])
    BY <1>1, <1>2, <1>3 DEF CallFits, Stopping, Disabling, Starting
  <2> QED
    BY <1>2, <1>3, <1>5, <1>6, <2>1, PlaceQuiet
<1>13. UNCHANGED <<held, fwd, connq>> /\ c \in Conns /\ Types'
  BY <1>1, <1>2, <1>3
<1>14. \A d \in Conns \ {c} : /\ on'[In(d)] = on[In(d)] /\ on'[Out(d)] = on[Out(d)]
                              /\ enabled'[d] = enabled[d] /\ fits'[d] = fits[d]
  BY <1>3
<1>15. CallInv' /\ PortInv'
  BY <1>5, <1>7, <1>9, <1>10, <1>11, <1>13, <1>14, ControlStep
<1> QED
  BY <1>12, <1>15

LEMMA StartInFailsCalls ==
  ASSUME IInv, NEW t \in Threads, NEW c, c = Top(t).c, StartFails(t, "start in", In(c), <<Do("undo out", c), Do("failed", c)>>)
  PROVE  CallInv' /\ PortInv' /\ PlaceInv'
<1>1. Runs(t, "start in") /\ "start in" \in Control /\ Types' /\ StackTo(t, {Do("undo out", c), Do("failed", c)})
  BY StartFailsIs DEF Stacks
<1>2. /\ ~Idle(t) /\ c \in Conns /\ Top(t).k = "start in" /\ Top(t).c = c /\ Top(t).k \notin Carrying
      /\ CallFits(Top(t)) /\ Top(t) \in Frames(t) /\ Top(t).k \in Control
      /\ \A f \in Frames(t) : f.k \notin Returns /\ f.c = c /\ CallFits(f)
      /\ \A f \in Below(t) : /\ f \in Frames(t) /\ f.k \notin Returns /\ f.c = c /\ f.k \notin Carrying
                              /\ f.k \in {"enable", "failed"}
      /\ Frames(t) = {Top(t)} \cup Below(t)
  BY <1>1, ControlFrames
<1>2a. /\ Do("undo out", c).k = "undo out" /\ Do("undo out", c).c = c
       /\ "undo out" \notin Returns /\ "undo out" \notin Carrying
  BY DEF Do, Frame, Returns, Carrying
<1>2b. /\ Do("failed", c).k = "failed" /\ Do("failed", c).c = c
       /\ "failed" \notin Returns /\ "failed" \notin Carrying
  <2>1. "failed" \in Control /\ c \in Conns
    BY <1>2 DEF Control, Disabling, Starting
  <2> QED
    BY <2>1, DoIs
<1>3. /\ UNCHANGED <<held, fwd, poolq, connq>> /\ on'[In(c)] = on[In(c)] /\ on'[Out(c)] = on[Out(c)]
      /\ enabled'[c] = enabled[c] /\ fits'[c] = fits[c]
      /\ \A d \in Conns \ {c} : /\ on'[In(d)] = on[In(d)] /\ on'[Out(d)] = on[Out(d)]
                              /\ enabled'[d] = enabled[d] /\ fits'[d] = fits[d]
  BY <1>2, PortSetIs DEF StartFails, IInv, Types
<1>4. PICK A : A = {Do("undo out", c), Do("failed", c)}
  OBVIOUS
<1>5. StackTo(t, A)
  BY <1>1, <1>4
<1>6. \A f \in A : f.k \notin Returns /\ f.c = c /\ f.k \notin Carrying
  BY <1>2, <1>2a, <1>2b, <1>4
<1>7. \A f \in A \cup Frames(t) : f.k \notin Returns /\ f.c = c
  BY <1>2, <1>6
<1>8. (QuietIn(c)' <=> QuietIn(c)) /\ (QuietOut(c)' <=> QuietOut(c))
  BY <1>3, <1>5, <1>7, QuietSame
<1>9. \A f \in A : CallFits(f)'
  <2>1. ASSUME NEW f \in A PROVE CallFits(f)'
    <3>1. CASE f = Do("undo out", c)
      BY <1>1, <1>2, <1>2a, <1>3, <1>8, <3>1, CallFitsIs DEF CallFits, Stopping, Disabling, Starting
    <3>2. CASE f = Do("failed", c)
      BY <1>1, <1>2, <1>2b, <1>3, <1>8, <3>2, CallFitsIs DEF CallFits, Stopping, Disabling, Starting
    <3> QED
      BY <1>4, <3>1, <3>2
  <2> QED
    BY <2>1
<1>10. PortsKept(t, c, A)
  <2>2. PortFits(c)
    BY <1>2 DEF IInv, PortInv
  <2>3. /\ on'[In(c)] => enabled'[c]
    BY <1>1, <1>2, <1>3, <2>2 DEF PortFits, CallFits, Stopping, Disabling, Starting
  <2>4. on'[Out(c)] => \/ enabled'[c] \/ \E f \in A : f.k \in {"start in", "undo out"}
                       \/ /\ on[Out(c)] /\ ~enabled[c]
                          /\ \A f \in Frames(t) : f.k \notin {"start in", "undo out"}
    BY <1>1, <1>2, <1>2a, <1>2b, <1>3, <1>4 DEF CallFits, Stopping, Disabling, Starting
  <2>5. \/ on'[In(c)] \/ QuietIn(c) \/ \E f \in A : f.k \in {"wait in"}
        \/ ~on[In(c)] /\ \A f \in Frames(t) : f.k \notin {"wait in"}
    BY <1>1, <1>2, <1>2a, <1>2b, <1>3, <1>4 DEF CallFits, Stopping, Disabling, Starting
  <2>6. \/ on'[Out(c)] \/ QuietOut(c) \/ \E f \in A : f.k \in {"wait out", "wait undo"}
        \/ ~on[Out(c)] /\ \A f \in Frames(t) : f.k \notin {"wait out", "wait undo"}
    BY <1>1, <1>2, <1>2a, <1>2b, <1>3, <1>4 DEF CallFits, Stopping, Disabling, Starting
  <2> QED
    BY <2>3, <2>4, <2>5, <2>6 DEF PortsKept
<1>11. \A u \in Threads \ {t} : \A f \in Frames(u) : f.c = c /\ CallFits(f) => CallFits(f)'
  BY <1>2, OthersApart
<1>12. PlaceInv'
  <2>1. /\ \A d \in Conns : fits'[d] \/ enabled'[d] => fits[d] \/ enabled[d]
        /\ \A d \in Conns : ~fits'[d] /\ ~enabled'[d] => Bare(connq[d]) \/ (~fits[d] /\ ~enabled[d])
    BY <1>1, <1>2, <1>3 DEF CallFits, Stopping, Disabling, Starting
  <2> QED
    BY <1>2, <1>3, <1>5, <1>6, <2>1, PlaceQuiet
<1>13. UNCHANGED <<held, fwd, connq>> /\ c \in Conns /\ Types'
  BY <1>1, <1>2, <1>3
<1>14. \A d \in Conns \ {c} : /\ on'[In(d)] = on[In(d)] /\ on'[Out(d)] = on[Out(d)]
                              /\ enabled'[d] = enabled[d] /\ fits'[d] = fits[d]
  BY <1>3
<1>15. CallInv' /\ PortInv'
  BY <1>5, <1>7, <1>9, <1>10, <1>11, <1>13, <1>14, ControlStep
<1> QED
  BY <1>12, <1>15

LEMMA EnableFailedCalls ==
  ASSUME IInv, NEW t \in Threads, NEW c, c = Top(t).c, EnableFailed(t)
  PROVE  CallInv' /\ PortInv' /\ PlaceInv'
<1>1. Runs(t, "failed") /\ "failed" \in Control /\ Types' /\ StackTo(t, {})
  BY EnableFailedIs DEF Stacks
<1>2. /\ ~Idle(t) /\ c \in Conns /\ Top(t).k = "failed" /\ Top(t).c = c /\ Top(t).k \notin Carrying
      /\ CallFits(Top(t)) /\ Top(t) \in Frames(t) /\ Top(t).k \in Control
      /\ \A f \in Frames(t) : f.k \notin Returns /\ f.c = c /\ CallFits(f)
      /\ \A f \in Below(t) : /\ f \in Frames(t) /\ f.k \notin Returns /\ f.c = c /\ f.k \notin Carrying
                              /\ f.k \in {"enable", "failed"}
      /\ Frames(t) = {Top(t)} \cup Below(t)
  BY <1>1, ControlFrames
<1>3. /\ UNCHANGED <<held, fwd, poolq, connq>> /\ on'[In(c)] = on[In(c)] /\ on'[Out(c)] = on[Out(c)]
      /\ enabled'[c] = FALSE /\ fits'[c] = fits[c]
      /\ \A d \in Conns \ {c} : /\ on'[In(d)] = on[In(d)] /\ on'[Out(d)] = on[Out(d)]
                              /\ enabled'[d] = enabled[d] /\ fits'[d] = fits[d]
  BY <1>2, PortSetIs DEF EnableFailed, IInv, Types
<1>4. PICK A : A = {}
  OBVIOUS
<1>5. StackTo(t, A)
  BY <1>1, <1>4
<1>6. \A f \in A : f.k \notin Returns /\ f.c = c /\ f.k \notin Carrying
  BY <1>2, <1>4
<1>7. \A f \in A \cup Frames(t) : f.k \notin Returns /\ f.c = c
  BY <1>2, <1>6
<1>8. (QuietIn(c)' <=> QuietIn(c)) /\ (QuietOut(c)' <=> QuietOut(c))
  BY <1>3, <1>5, <1>7, QuietSame
<1>9. \A f \in A : CallFits(f)'
  BY <1>4
<1>10. PortsKept(t, c, A)
  <2>2. PortFits(c)
    BY <1>2 DEF IInv, PortInv
  <2>3. /\ on'[In(c)] => enabled'[c]
    BY <1>1, <1>2, <1>3, <2>2 DEF PortFits, CallFits, Stopping, Disabling, Starting
  <2>4. on'[Out(c)] => \/ enabled'[c] \/ \E f \in A : f.k \in {"start in", "undo out"}
                       \/ /\ on[Out(c)] /\ ~enabled[c]
                          /\ \A f \in Frames(t) : f.k \notin {"start in", "undo out"}
    BY <1>1, <1>2, <1>3, <1>4 DEF CallFits, Stopping, Disabling, Starting
  <2>5. \/ on'[In(c)] \/ QuietIn(c) \/ \E f \in A : f.k \in {"wait in"}
        \/ ~on[In(c)] /\ \A f \in Frames(t) : f.k \notin {"wait in"}
    BY <1>1, <1>2, <1>3, <1>4 DEF CallFits, Stopping, Disabling, Starting
  <2>6. \/ on'[Out(c)] \/ QuietOut(c) \/ \E f \in A : f.k \in {"wait out", "wait undo"}
        \/ ~on[Out(c)] /\ \A f \in Frames(t) : f.k \notin {"wait out", "wait undo"}
    BY <1>1, <1>2, <1>3, <1>4 DEF CallFits, Stopping, Disabling, Starting
  <2> QED
    BY <2>3, <2>4, <2>5, <2>6 DEF PortsKept
<1>11. \A u \in Threads \ {t} : \A f \in Frames(u) : f.c = c /\ CallFits(f) => CallFits(f)'
  BY <1>2, OthersApart
<1>12. PlaceInv'
  <2>1. /\ \A d \in Conns : fits'[d] \/ enabled'[d] => fits[d] \/ enabled[d]
        /\ \A d \in Conns : ~fits'[d] /\ ~enabled'[d] => Bare(connq[d]) \/ (~fits[d] /\ ~enabled[d])
    BY <1>1, <1>2, <1>3 DEF CallFits, Stopping, Disabling, Starting
  <2> QED
    BY <1>2, <1>3, <1>5, <1>6, <2>1, PlaceQuiet
<1>13. UNCHANGED <<held, fwd, connq>> /\ c \in Conns /\ Types'
  BY <1>1, <1>2, <1>3
<1>14. \A d \in Conns \ {c} : /\ on'[In(d)] = on[In(d)] /\ on'[Out(d)] = on[Out(d)]
                              /\ enabled'[d] = enabled[d] /\ fits'[d] = fits[d]
  BY <1>3
<1>15. CallInv' /\ PortInv'
  BY <1>5, <1>7, <1>9, <1>10, <1>11, <1>13, <1>14, ControlStep
<1> QED
  BY <1>12, <1>15

LEMMA EnableOnCalls ==
  ASSUME IInv, NEW t \in Threads, NEW c, c = Top(t).c, EnableBegin(t), enabled[c]
  PROVE  CallInv' /\ PortInv'
<1>1. Runs(t, "enable") /\ "enable" \in Control /\ Types' /\ StackTo(t, {})
  BY EnableBeginIs DEF Stacks
<1>2. /\ ~Idle(t) /\ c \in Conns /\ Top(t).k = "enable" /\ Top(t).c = c /\ Top(t).k \notin Carrying
      /\ CallFits(Top(t)) /\ Top(t) \in Frames(t) /\ Top(t).k \in Control
      /\ \A f \in Frames(t) : f.k \notin Returns /\ f.c = c /\ CallFits(f)
      /\ \A f \in Below(t) : /\ f \in Frames(t) /\ f.k \notin Returns /\ f.c = c /\ f.k \notin Carrying
                              /\ f.k \in {"enable", "failed"}
      /\ Frames(t) = {Top(t)} \cup Below(t)
  BY <1>1, ControlFrames
<1>3. /\ UNCHANGED <<held, fwd, connq>> /\ on'[In(c)] = on[In(c)] /\ on'[Out(c)] = on[Out(c)]
      /\ enabled'[c] = enabled[c] /\ fits'[c] = fits[c]
      /\ \A d \in Conns \ {c} : /\ on'[In(d)] = on[In(d)] /\ on'[Out(d)] = on[Out(d)]
                              /\ enabled'[d] = enabled[d] /\ fits'[d] = fits[d]
  BY <1>2, PortSetIs DEF EnableBegin, IInv, Types
<1>4. PICK A : A = {}
  OBVIOUS
<1>5. StackTo(t, A)
  BY <1>1, <1>4
<1>6. \A f \in A : f.k \notin Returns /\ f.c = c /\ f.k \notin Carrying
  BY <1>2, <1>4
<1>7. \A f \in A \cup Frames(t) : f.k \notin Returns /\ f.c = c
  BY <1>2, <1>6
<1>8. (QuietIn(c)' <=> QuietIn(c)) /\ (QuietOut(c)' <=> QuietOut(c))
  BY <1>3, <1>5, <1>7, QuietSame
<1>9. \A f \in A : CallFits(f)'
  BY <1>4
<1>10. PortsKept(t, c, A)
  <2>2. PortFits(c)
    BY <1>2 DEF IInv, PortInv
  <2>3. /\ on'[In(c)] => enabled'[c]
    BY <1>1, <1>2, <1>3, <2>2 DEF PortFits, CallFits, Stopping, Disabling, Starting
  <2>4. on'[Out(c)] => \/ enabled'[c] \/ \E f \in A : f.k \in {"start in", "undo out"}
                       \/ /\ on[Out(c)] /\ ~enabled[c]
                          /\ \A f \in Frames(t) : f.k \notin {"start in", "undo out"}
    BY <1>1, <1>2, <1>3, <1>4 DEF CallFits, Stopping, Disabling, Starting
  <2>5. \/ on'[In(c)] \/ QuietIn(c) \/ \E f \in A : f.k \in {"wait in"}
        \/ ~on[In(c)] /\ \A f \in Frames(t) : f.k \notin {"wait in"}
    BY <1>1, <1>2, <1>3, <1>4 DEF CallFits, Stopping, Disabling, Starting
  <2>6. \/ on'[Out(c)] \/ QuietOut(c) \/ \E f \in A : f.k \in {"wait out", "wait undo"}
        \/ ~on[Out(c)] /\ \A f \in Frames(t) : f.k \notin {"wait out", "wait undo"}
    BY <1>1, <1>2, <1>3, <1>4 DEF CallFits, Stopping, Disabling, Starting
  <2> QED
    BY <2>3, <2>4, <2>5, <2>6 DEF PortsKept
<1>11. \A u \in Threads \ {t} : \A f \in Frames(u) : f.c = c /\ CallFits(f) => CallFits(f)'
  BY <1>2, OthersApart
<1>12. UNCHANGED <<held, fwd, connq>> /\ c \in Conns /\ Types'
  BY <1>1, <1>2, <1>3
<1>13. \A d \in Conns \ {c} : /\ on'[In(d)] = on[In(d)] /\ on'[Out(d)] = on[Out(d)]
                              /\ enabled'[d] = enabled[d] /\ fits'[d] = fits[d]
  BY <1>3
<1> QED
  BY <1>5, <1>7, <1>9, <1>10, <1>11, <1>12, <1>13, ControlStep

LEMMA EnableOffCalls ==
  ASSUME IInv, NEW t \in Threads, NEW c, c = Top(t).c, EnableBegin(t), ~enabled[c]
  PROVE  CallInv' /\ PortInv'
<1>1. Runs(t, "enable") /\ "enable" \in Control /\ Types' /\ StackTo(t, {Do("start out", c)})
  BY EnableBeginIs DEF Stacks
<1>2. /\ ~Idle(t) /\ c \in Conns /\ Top(t).k = "enable" /\ Top(t).c = c /\ Top(t).k \notin Carrying
      /\ CallFits(Top(t)) /\ Top(t) \in Frames(t) /\ Top(t).k \in Control
      /\ \A f \in Frames(t) : f.k \notin Returns /\ f.c = c /\ CallFits(f)
      /\ \A f \in Below(t) : /\ f \in Frames(t) /\ f.k \notin Returns /\ f.c = c /\ f.k \notin Carrying
                              /\ f.k \in {"enable", "failed"}
      /\ Frames(t) = {Top(t)} \cup Below(t)
  BY <1>1, ControlFrames
<1>2a. /\ Do("start out", c).k = "start out" /\ Do("start out", c).c = c
       /\ "start out" \notin Returns /\ "start out" \notin Carrying
  BY DEF Do, Frame, Returns, Carrying
<1>3. /\ UNCHANGED <<held, fwd, connq>> /\ on'[In(c)] = on[In(c)] /\ on'[Out(c)] = on[Out(c)]
      /\ enabled'[c] = enabled[c] /\ fits'[c] = TRUE
      /\ \A d \in Conns \ {c} : /\ on'[In(d)] = on[In(d)] /\ on'[Out(d)] = on[Out(d)]
                              /\ enabled'[d] = enabled[d] /\ fits'[d] = fits[d]
  BY <1>2, PortSetIs DEF EnableBegin, IInv, Types
<1>4. PICK A : A = {Do("start out", c)}
  OBVIOUS
<1>5. StackTo(t, A)
  BY <1>1, <1>4
<1>6. \A f \in A : f.k \notin Returns /\ f.c = c /\ f.k \notin Carrying
  BY <1>2, <1>2a, <1>4
<1>7. \A f \in A \cup Frames(t) : f.k \notin Returns /\ f.c = c
  BY <1>2, <1>6
<1>8. (QuietIn(c)' <=> QuietIn(c)) /\ (QuietOut(c)' <=> QuietOut(c))
  BY <1>3, <1>5, <1>7, QuietSame
<1>9. \A f \in A : CallFits(f)'
  <2>1. ASSUME NEW f \in A PROVE CallFits(f)'
    <3>1. CASE f = Do("start out", c)
      BY <1>1, <1>2, <1>2a, <1>3, <1>8, <3>1, CallFitsIs DEF CallFits, Stopping, Disabling, Starting
    <3> QED
      BY <1>4, <3>1
  <2> QED
    BY <2>1
<1>10. PortsKept(t, c, A)
  <2>2. PortFits(c)
    BY <1>2 DEF IInv, PortInv
  <2>3. /\ on'[In(c)] => enabled'[c]
    BY <1>1, <1>2, <1>3, <2>2 DEF PortFits, CallFits, Stopping, Disabling, Starting
  <2>4. on'[Out(c)] => \/ enabled'[c] \/ \E f \in A : f.k \in {"start in", "undo out"}
                       \/ /\ on[Out(c)] /\ ~enabled[c]
                          /\ \A f \in Frames(t) : f.k \notin {"start in", "undo out"}
    BY <1>1, <1>2, <1>2a, <1>3, <1>4 DEF CallFits, Stopping, Disabling, Starting
  <2>5. \/ on'[In(c)] \/ QuietIn(c) \/ \E f \in A : f.k \in {"wait in"}
        \/ ~on[In(c)] /\ \A f \in Frames(t) : f.k \notin {"wait in"}
    BY <1>1, <1>2, <1>2a, <1>3, <1>4 DEF CallFits, Stopping, Disabling, Starting
  <2>6. \/ on'[Out(c)] \/ QuietOut(c) \/ \E f \in A : f.k \in {"wait out", "wait undo"}
        \/ ~on[Out(c)] /\ \A f \in Frames(t) : f.k \notin {"wait out", "wait undo"}
    BY <1>1, <1>2, <1>2a, <1>3, <1>4 DEF CallFits, Stopping, Disabling, Starting
  <2> QED
    BY <2>3, <2>4, <2>5, <2>6 DEF PortsKept
<1>11. \A u \in Threads \ {t} : \A f \in Frames(u) : f.c = c /\ CallFits(f) => CallFits(f)'
  BY <1>2, OthersApart
<1>12. UNCHANGED <<held, fwd, connq>> /\ c \in Conns /\ Types'
  BY <1>1, <1>2, <1>3
<1>13. \A d \in Conns \ {c} : /\ on'[In(d)] = on[In(d)] /\ on'[Out(d)] = on[Out(d)]
                              /\ enabled'[d] = enabled[d] /\ fits'[d] = fits[d]
  BY <1>3
<1> QED
  BY <1>5, <1>7, <1>9, <1>10, <1>11, <1>12, <1>13, ControlStep

LEMMA ProcessEventCalls ==
  ASSUME IInv, ~rash', NEW t \in Threads, ProcessEvent(t), NEW c, c = Top(t).c
  PROVE  CallInv' /\ PortInv' /\ PlaceInv'
<1>1. /\ t = "worker" /\ c \in Conns /\ enabled[c] /\ Frames(t) = {Top(t)} /\ ~Idle(t)
      /\ Top(t).k = "process" /\ Top(t).b = Event
  BY ProcessEventIs
<1>2. PICK A : /\ StackTo(t, A) /\ Types'
               /\ A = {Do("disable", c)} \/ A = {Do("disable", c), Do("enable", c)}
  BY ProcessEventIs DEF Stacks
<1>3. /\ UNCHANGED <<on, held, fwd, poolq, connq, enabled>> /\ fits'[c] = FALSE
      /\ \A d \in Conns \ {c} : fits'[d] = fits[d]
  BY <1>1 DEF ProcessEvent, IInv, Types
<1>4. /\ Do("disable", c).k = "disable" /\ Do("disable", c).c = c
      /\ "disable" \notin Returns /\ "disable" \notin Carrying
  <2>1. "disable" \in Control /\ c \in Conns
    BY <1>1 DEF Control, Disabling
  <2> QED
    BY <2>1, DoIs
<1>5. /\ Do("enable", c).k = "enable" /\ Do("enable", c).c = c
      /\ "enable" \notin Returns /\ "enable" \notin Carrying
  <2>1. "enable" \in Control /\ c \in Conns
    BY <1>1 DEF Control
  <2> QED
    BY <2>1, DoIs
<1>6. \A f \in A : /\ f.k \notin Returns /\ f.c = c /\ f.k \notin Carrying
                   /\ f.k \in {"enable", "disable"}
  BY <1>2, <1>4, <1>5
<1>7. \A f \in A \cup Frames(t) : f.k \notin Returns /\ f.c = c
  <2>1. Top(t).c = c /\ Top(t).k \notin Returns
    BY <1>1 DEF Returns
  <2> QED
    BY <1>1, <1>6, <2>1
<1>8. \A f \in A : CallFits(f)'
  BY <1>6, CallFitsIs
<1>9. ASSUME NEW u \in Threads \ {t}, NEW g \in Frames(u), g.c = c, CallFits(g) PROVE CallFits(g)'
  <2>1. (QuietIn(c)' <=> QuietIn(c)) /\ (QuietOut(c)' <=> QuietOut(c))
    BY <1>2, <1>3, <1>7, QuietSame
  <2>2. g.k \notin Starting
    BY <1>1, <1>9 DEF CallFits
  <2> QED
    BY <1>3, <1>9, <2>1, <2>2 DEF CallFits
<1>10. PortsKept(t, c, A)
  <2>1. PortFits(c)
    BY <1>1 DEF IInv, PortInv
  <2>2. \A f \in Frames(t) : f.k = "process"
    BY <1>1
  <2> QED
    BY <1>1, <1>3, <2>1, <2>2 DEF PortsKept, PortFits
<1>11. PlaceInv'
  <2>1. /\ \A d \in Conns : fits'[d] \/ enabled'[d] => fits[d] \/ enabled[d]
        /\ \A d \in Conns : ~fits'[d] /\ ~enabled'[d] => Bare(connq[d]) \/ (~fits[d] /\ ~enabled[d])
    BY <1>1, <1>3
  <2> QED
    BY <1>1, <1>2, <1>3, <1>6, <2>1, PlaceQuiet
<1>12. UNCHANGED <<held, fwd, connq>> /\ c \in Conns /\ Types' /\ StackTo(t, A)
  BY <1>1, <1>2, <1>3
<1>13. \A d \in Conns \ {c} : /\ on'[In(d)] = on[In(d)] /\ on'[Out(d)] = on[Out(d)]
                              /\ enabled'[d] = enabled[d] /\ fits'[d] = fits[d]
  BY <1>3
<1>14. \A u \in Threads \ {t} : \A f \in Frames(u) : f.c = c /\ CallFits(f) => CallFits(f)'
  BY <1>9
<1>15. CallInv' /\ PortInv'
  BY <1>7, <1>8, <1>10, <1>12, <1>13, <1>14, ControlStep
<1> QED
  BY <1>11, <1>15

LEMMA EachCalls ==
  ASSUME IInv, NEW call, NEW k \in {"enable", "disable"}, Each(call, k)
  PROVE  CallInv' /\ PortInv' /\ PlaceInv'
<1>0. PICK t \in Threads : t = "app"
  BY PortIs
<1>1. PICK c \in Conns : c = index
  BY EachIs
<1>2. Frames(t) = {} /\ Idle(t)
  BY <1>0, EachIs
<1>3. PICK A : StackTo(t, A) /\ A = {Do(k, c)} /\ Types'
  BY <1>0, <1>1, EachIs DEF Stacks
<1>4. UNCHANGED <<on, held, fwd, poolq, connq, enabled, fits>>
  BY DEF Each
<1>5. /\ Do(k, c).k = k /\ Do(k, c).c = c /\ k \notin Returns /\ k \notin Carrying
  <2>1. k \in Control /\ c \in Conns
    BY DEF Control, Disabling
  <2> QED
    BY <2>1, DoIs
<1>6. \A f \in A : /\ f.k \notin Returns /\ f.c = c /\ f.k \notin Carrying
                   /\ f.k \in {"enable", "disable"}
  BY <1>3, <1>5
<1>7. \A f \in A \cup Frames(t) : f.k \notin Returns /\ f.c = c
  BY <1>2, <1>6
<1>8. \A f \in A : CallFits(f)'
  BY <1>6, CallFitsIs
<1>9. (QuietIn(c)' <=> QuietIn(c)) /\ (QuietOut(c)' <=> QuietOut(c))
  BY <1>3, <1>4, <1>7, QuietSame
<1>10. \A f : f.c = c /\ CallFits(f) => CallFits(f)'
  BY <1>4, <1>9, OthersKeep
<1>11. PortsKept(t, c, A)
  <2>1. PortFits(c)
    BY DEF IInv, PortInv
  <2> QED
    BY <1>2, <1>4, <2>1 DEF PortsKept, PortFits
<1>12. PlaceInv'
  BY <1>2, <1>3, <1>4, <1>6, PlaceQuiet
<1>13. UNCHANGED <<held, fwd, connq>> /\ Types' /\ StackTo(t, A)
  BY <1>3, <1>4
<1>14. /\ \A d \in Conns \ {c} : /\ on'[In(d)] = on[In(d)] /\ on'[Out(d)] = on[Out(d)]
                                 /\ enabled'[d] = enabled[d] /\ fits'[d] = fits[d]
       /\ \A u \in Threads \ {t} : \A f \in Frames(u) : f.c = c /\ CallFits(f) => CallFits(f)'
  BY <1>4, <1>10
<1>15. CallInv' /\ PortInv'
  BY <1>7, <1>8, <1>11, <1>13, <1>14, ControlStep
<1> QED
  BY <1>12, <1>15

-----------------------------------------------------------------------------
\* The phases of the client and the worker.
LEMMA IdleIs ==
  ASSUME NEW t \in Threads, NEW A, StackTo(t, A)
  PROVE  /\ Idle(t)' <=> A = {}
         /\ \A u \in Threads \ {t} : Idle(u)' <=> Idle(u)
<1>1. stack'[t] \in Seq(FrameType) /\ ToSet(stack'[t]) = A
  BY DEF StackTo, Frames
<1>2. ToSet(stack'[t]) = {} <=> stack'[t] = <<>>
  BY <1>1, SeqIs
<1> QED
  BY <1>1, <1>2 DEF Idle, StackTo

\* A frame that follows from one that was there.
Stems(t, f) == \E g \in Frames(t) :
  /\ g.c = f.c
  /\ t = "worker" => /\ f.k \in Control => g.k \in Control \/ enabled[f.c]
                     /\ f.b # Event => g.b # Event \/ fits[f.c] \/ enabled[f.c]
  /\ t = "app" => /\ f.k \in Disabling => g.k \in Disabling
                  /\ f.k \in Starting \cup {"enable"} => g.k \in Starting \cup {"enable"}

LEMMA UntouchedKeeps ==
  ASSUME IInv, NEW t \in Threads, NEW A, StackTo(t, A), NEW c \in Conns, Untouched(c),
         t = "worker" => \A f \in A : Stems(t, f),
         ~enabled'[c], ~fits'[c] => ~fits[c] /\ poolq'[c] = <<>>
  PROVE  Untouched(c)'
<1>1. CASE t = "worker"
  <2>1. Frames("worker")' = A
    BY <1>1 DEF StackTo
  <2>2. ASSUME NEW f \in A, f.k \in Control PROVE f.c # c
    BY <1>1, <2>2 DEF Stems, Untouched
  <2>3. ASSUME NEW f \in A, ~fits[c], f.b # Event PROVE f.c # c
    BY <1>1, <2>3 DEF Stems, Untouched
  <2> QED
    BY <2>1, <2>2, <2>3 DEF Untouched
<1>2. CASE t # "worker"
  <2>1. Frames("worker")' = Frames("worker")
    BY <1>2, PortIs DEF StackTo
  <2> QED
    BY <2>1 DEF Untouched
<1> QED
  BY <1>1, <1>2

LEMMA PhaseThread ==
  ASSUME IInv, NEW t \in Threads, NEW A, StackTo(t, A), UNCHANGED <<ctrl, stop>>,
         t \notin CompThreads => ~Idle(t) /\ \A f \in A : Stems(t, f),
         t = "worker" => \A f \in Frames(t) \cup A : f.k # "empty",
         \A c \in Conns : /\ ~stop /\ app \in {"off", "enabling"} /\ Untouched(c)
                          /\ (t = "app" /\ A = {} => c # index - 1)
                          => ~enabled'[c] /\ (~fits'[c] => ~fits[c] /\ poolq'[c] = <<>>)
  PROVE  PhaseInv'
<1>0. PhaseInv /\ index \in 1..(NumConns + 1) /\ NumConns \in Nat
  BY ConnAssumption DEF IInv, Types
<1>1. "worker" \in Threads /\ "app" \in Threads /\ "worker" \notin CompThreads /\ "app" \notin CompThreads
  BY PortIs
<1>2. ~Idle(t) => Frames(t) # {}
  BY TopIs DEF IInv
<1>6. work' = work /\ stop' = stop /\ app' = app /\ index' = index /\ \A x : Visit(x)' = Visit(x)
  BY DEF Visit
<1>3. CASE t = "worker"
  <2>1. /\ Frames("worker") # {} /\ \A f \in Frames("worker") : f.k # "empty"
        /\ \A f \in A : f.k # "empty"
    BY <1>1, <1>2, <1>3
  <2>2. work.at = "fulls" /\ work.i <= NumConns /\ work.again
    BY <1>0, <2>1 DEF PhaseInv
  <2>3. Frames("worker")' = A /\ Frames("app")' = Frames("app") /\ (Idle("app")' <=> Idle("app"))
    BY <1>1, <1>3, IdleIs DEF StackTo
  <2>4. Ahead' = Ahead
    BY <2>3 DEF Ahead
  <2>5. ASSUME ~stop, app \in {"off", "enabling"}, NEW c \in Conns, c >= Ahead' PROVE Untouched(c)'
    <3>1. Untouched(c)
      BY <1>0, <2>4, <2>5 DEF PhaseInv
    <3> QED
      BY <1>1, <1>3, <2>5, <3>1, UntouchedKeeps
  <2> QED
    BY <1>0, <2>1, <2>2, <2>3, <2>5 DEF PhaseInv
<1>4. CASE t = "app"
  <2>1. Frames("app") # {}
    BY <1>1, <1>2, <1>4
  <2>2. Frames("app")' = A /\ Frames("worker")' = Frames("worker") /\ (Idle("app")' <=> A = {})
    BY <1>1, <1>4, IdleIs DEF StackTo
  <2>3. Ahead = index - 1 \/ app = "off"
    BY <1>1, <1>4 DEF Ahead
  <2>4. ASSUME ~stop, app \in {"off", "enabling"}, NEW c \in Conns, c >= Ahead' PROVE Untouched(c)'
    <3>1. app = "enabling"
      BY <1>0, <2>1, <2>4 DEF PhaseInv
    <3>2. Ahead' = (IF A = {} THEN index ELSE index - 1)
      BY <2>2, <3>1 DEF Ahead
    <3>3. c >= Ahead /\ (A = {} => c # index - 1)
      BY <1>0, <2>3, <2>4, <3>1, <3>2 DEF Conns
    <3>4. Untouched(c)
      BY <1>0, <2>4, <3>3 DEF PhaseInv
    <3> QED
      BY <1>4, <2>4, <3>3, <3>4, UntouchedKeeps
  <2>5. ASSUME NEW f \in A
        PROVE  /\ f.c = index - 1
               /\ app = "enabling" => f.k \notin Disabling
               /\ app # "enabling" => f.k \notin Starting \cup {"enable"}
    <3>1. PICK g \in Frames("app") :
            /\ g.c = f.c
            /\ f.k \in Disabling => g.k \in Disabling
            /\ f.k \in Starting \cup {"enable"} => g.k \in Starting \cup {"enable"}
      BY <1>1, <1>4, <2>5 DEF Stems
    <3>2. /\ g.c = index - 1 /\ (app = "enabling" => g.k \notin Disabling)
          /\ app # "enabling" => g.k \notin Starting \cup {"enable"}
      BY <1>0, <3>1 DEF PhaseInv
    <3> QED
      BY <3>1, <3>2
  <2> QED
    BY <1>0, <1>6, <2>1, <2>2, <2>4, <2>5 DEF PhaseInv
<1>5. CASE t \notin {"app", "worker"}
  <2>1. /\ Frames("app")' = Frames("app") /\ (Idle("app")' <=> Idle("app"))
        /\ Frames("worker")' = Frames("worker")
    BY <1>1, <1>5, IdleIs DEF StackTo
  <2>2. Ahead' = Ahead
    BY <2>1 DEF Ahead
  <2>3. ASSUME ~stop, app \in {"off", "enabling"}, NEW c \in Conns, c >= Ahead' PROVE Untouched(c)'
    <3>1. Untouched(c)
      BY <1>0, <2>2, <2>3 DEF PhaseInv
    <3> QED
      BY <1>5, <2>3, <3>1, UntouchedKeeps
  <2> QED
    BY <1>0, <1>6, <2>1, <2>3 DEF PhaseInv
<1> QED
  BY <1>3, <1>4, <1>5

LEMMA BusyIs ==
  ASSUME IInv, NEW c \in Conns, ~QuietIn(c) \/ ~QuietOut(c)
  PROVE  fits[c] \/ enabled[c]
<1>1. PortFits(c)
  BY DEF IInv, PortInv
<1>2. ASSUME InCall({"wait in", "wait out", "wait undo", "start in", "undo out"}, c)
      PROVE  fits[c] \/ enabled[c]
  BY <1>2 DEF InCall, IInv, CallInv, CallFits, Stopping, Disabling, Starting
<1>3. \/ enabled[c] \/ InCall({"wait in"}, c) \/ InCall({"wait out", "wait undo"}, c)
      \/ InCall({"start in", "undo out"}, c)
  BY <1>1 DEF PortFits
<1> QED
  BY <1>2, <1>3 DEF InCall

\* A header that is carried belongs to a connection that has had its pool made.
LEMMA CarryFits ==
  ASSUME IInv, NEW t \in Threads, ~Idle(t), Top(t).k \notin Control, Top(t).b # Event,
         t # "worker", NEW c, c = Top(t).c
  PROVE  c \in Conns /\ (fits[c] \/ enabled[c])
<1>1. Top(t) \in Frames(t) /\ c \in Conns /\ Frames(t) # {}
  BY TopIs DEF FrameType, IInv
<1>2. CASE t \in CompThreads
  <2>1. InCall({"return in"}, c) \/ InCall({"return out"}, c)
    BY <1>1, <1>2, CompIs DEF IInv, Late
  <2> QED
    BY <1>1, <2>1, BusyIs DEF QuietIn, QuietOut
<1>3. CASE t = "app"
  <2>1. PICK g \in Frames(t) : g.k \in Waiting
    BY <1>1, <1>3 DEF IInv, FrameInv
  <2>2. g.c = index - 1 /\ c = index - 1
    BY <1>1, <1>3, <2>1 DEF IInv, PhaseInv
  <2>3. CallFits(g) /\ g.c = c
    BY <1>1, <2>1, <2>2 DEF IInv, CallInv
  <2> QED
    BY <1>1, <2>1, <2>3 DEF CallFits, Waiting, Stopping, Disabling, Starting
<1> QED
  BY <1>2, <1>3 DEF Threads

LEMMA StemsIs ==
  ASSUME IInv, NEW t \in Threads, NEW f
  PROVE  /\ f \in Frames(t) => Stems(t, f)
         /\ ~Idle(t) /\ f.c = Top(t).c /\ f.k \notin Control
            /\ (f.b = Event \/ Top(t).b # Event \/ fits[f.c] \/ enabled[f.c]) => Stems(t, f)
         /\ ~Idle(t) /\ f.c = Top(t).c /\ enabled[f.c] /\ t = "worker" => Stems(t, f)
         /\ ~Idle(t) /\ f.c = Top(t).c /\ f.b = Event /\ Top(t).k \in Disabling /\ f.k \in Disabling =>
              Stems(t, f)
         /\ ~Idle(t) /\ f.c = Top(t).c /\ f.b = Event /\ Top(t).k \in Starting \cup {"enable"}
            /\ f.k \in Starting \cup {"enable"} => Stems(t, f)
<1>1. ~Idle(t) => Top(t) \in Frames(t)
  BY TopIs DEF IInv
<1>2. /\ \A k \in Disabling : k \in Control /\ k # "enable" /\ k \notin Starting
      /\ \A k \in Starting \cup {"enable"} : k \in Control /\ k \notin Disabling
  BY DEF Control, Disabling, Starting
<1>3. f \in Frames(t) => Stems(t, f)
  BY DEF Stems
<1>4. ASSUME ~Idle(t), f.c = Top(t).c, f.k \notin Control,
             f.b = Event \/ Top(t).b # Event \/ fits[f.c] \/ enabled[f.c]
      PROVE  Stems(t, f)
  BY <1>1, <1>2, <1>4 DEF Stems
<1>5. ASSUME ~Idle(t), f.c = Top(t).c, enabled[f.c], t = "worker" PROVE Stems(t, f)
  BY <1>1, <1>5 DEF Stems
<1>6. ASSUME ~Idle(t), f.c = Top(t).c, f.b = Event, Top(t).k \in Disabling, f.k \in Disabling
      PROVE  Stems(t, f)
  BY <1>1, <1>2, <1>6 DEF Stems
<1>7. ASSUME ~Idle(t), f.c = Top(t).c, f.b = Event, Top(t).k \in Starting \cup {"enable"},
             f.k \in Starting \cup {"enable"}
      PROVE  Stems(t, f)
  BY <1>1, <1>2, <1>7 DEF Stems
<1> QED
  BY <1>3, <1>4, <1>5, <1>6, <1>7

LEMMA PhaseMove ==
  ASSUME IInv, NEW t \in Threads, NEW A, StackTo(t, A), UNCHANGED <<ctrl, stop>>,
         t \notin CompThreads => ~Idle(t), ~Idle(t) => Top(t).k # "empty",
         \A f \in A : f \in Frames(t) \/ (t \in CompThreads \/ (f.k # "empty" /\ Stems(t, f))),
         \A c \in Conns : /\ ~stop /\ app \in {"off", "enabling"} /\ Untouched(c)
                          /\ (t = "app" /\ A = {} => c # index - 1)
                          => ~enabled'[c] /\ (~fits'[c] => ~fits[c] /\ poolq'[c] = <<>>)
  PROVE  PhaseInv'
<1>1. \A f \in Frames(t) : f.k # "empty"
  <2>1. CASE Idle(t)
    BY <2>1, TopIs DEF IInv
  <2>2. CASE ~Idle(t)
    <3>1. \A f \in Below(t) : f.k # "empty"
      BY <2>2, BelowNot DEF IInv, Carrying
    <3>2. Frames(t) = {Top(t)} \cup Below(t)
      BY <2>2, TopIs DEF IInv
    <3> QED
      BY <2>2, <3>1, <3>2
  <2> QED
    BY <2>1, <2>2
<1>2. \A f \in Frames(t) : Stems(t, f)
  BY StemsIs
<1>3. "worker" \notin CompThreads
  BY PortIs
<1> QED
  BY <1>1, <1>2, <1>3, PhaseThread

\* Nothing has become of what PhaseInv says of connections.
LEMMA PhasePlain ==
  ASSUME IInv, NEW t \in Threads, NEW A, StackTo(t, A), UNCHANGED <<ctrl, stop, enabled, fits>>,
         t \notin CompThreads => ~Idle(t), ~Idle(t) => Top(t).k # "empty",
         \A f \in A : f \in Frames(t) \/ (t \in CompThreads \/ (f.k # "empty" /\ Stems(t, f))),
         \A c \in Conns : \/ poolq'[c] = poolq[c] \/ fits[c] \/ enabled[c]
                          \/ t = "worker" /\ \E f \in Frames(t) : f.c = c /\ f.b # Event
  PROVE  PhaseInv'
<1>1. ASSUME NEW c \in Conns, Untouched(c)
      PROVE  ~enabled'[c] /\ (~fits'[c] => ~fits[c] /\ poolq'[c] = <<>>)
  BY <1>1 DEF Untouched
<1> QED
  BY <1>1, PhaseMove

\* The steps of one thread: only the calls change where a connection stands.
Follows(t, f) == /\ f.c = Top(t).c /\ f.b = Event
                 /\ \/ Top(t).k \in Disabling /\ f.k \in Disabling
                    \/ Top(t).k \in Starting \cup {"enable"} /\ f.k \in Starting \cup {"enable"}
LEMMA PhaseControl ==
  ASSUME IInv, NEW t \in Threads, NEW k \in Control, Runs(t, k), NEW A, StackTo(t, A),
         UNCHANGED <<ctrl, stop>>,
         \A f \in A : f \in Below(t) \/ Follows(t, f),
         \A c \in Conns : /\ ~stop /\ app \in {"off", "enabling"} /\ Untouched(c)
                          /\ (t = "app" /\ A = {} => c # index - 1)
                          => ~enabled'[c] /\ (~fits'[c] => ~fits[c] /\ poolq'[c] = <<>>)
  PROVE  PhaseInv'
<1>1. ~Idle(t) /\ Top(t).k = k /\ t \notin CompThreads /\ Frames(t) = {Top(t)} \cup Below(t)
  BY RunsIs
<1>2. k # "empty"
  BY KindIs DEF Carrying
<1>3. ASSUME NEW f \in A, f \notin Frames(t) PROVE f.k # "empty" /\ Stems(t, f)
  <2>1. f.c = Top(t).c /\ f.k \in Disabling \cup Starting \cup {"enable"}
    BY <1>1, <1>3 DEF Follows
  <2>2. f.k # "empty"
    BY <2>1 DEF Disabling, Starting
  <2>3. Stems(t, f)
    BY <1>1, <1>3, StemsIs DEF Follows
  <2> QED
    BY <2>2, <2>3
<1> QED
  BY <1>1, <1>2, <1>3, PhaseMove

LEMMA PhaseCall ==
  ASSUME IInv, NEW t \in Threads, NEW k \in Control, Runs(t, k), NEW A, StackTo(t, A),
         UNCHANGED <<ctrl, stop, enabled, fits, poolq>>,
         \A f \in A : f \in Below(t) \/ Follows(t, f)
  PROVE  PhaseInv'
<1>1. ASSUME NEW c \in Conns, Untouched(c)
      PROVE  ~enabled'[c] /\ (~fits'[c] => ~fits[c] /\ poolq'[c] = <<>>)
  BY <1>1 DEF Untouched
<1> QED
  BY <1>1, PhaseControl

LEMMA DisableBeginPhase ==
  ASSUME IInv, NEW t \in Threads, DisableBegin(t), NEW c, c = Top(t).c
  PROVE  PhaseInv'
<1>1. Runs(t, "disable") /\ "disable" \in Control
  BY DisableBeginIs
<1>2. PICK A : StackTo(t, A) /\ A \subseteq {Do("stop in", c)} \cup Below(t)
  BY DisableBeginIs DEF Stacks
<1>3. Do("stop in", c).c = c /\ Do("stop in", c).b = Event /\ Do("stop in", c).k = "stop in"
  BY DEF Do, Frame
<1>4. "disable" \in Disabling /\ "stop in" \in Disabling
  BY DEF Disabling
<1>5. \A f \in A : f \in Below(t) \/ Follows(t, f)
  BY <1>1, <1>2, <1>3, <1>4 DEF Follows, Runs
<1>6. UNCHANGED <<ctrl, stop, enabled, fits, poolq>>
  BY DEF DisableBegin, flow
<1> QED
  BY <1>1, <1>2, <1>5, <1>6, PhaseCall

LEMMA PortStopPhase ==
  ASSUME IInv, NEW t \in Threads, NEW k, NEW p, NEW n, PortStop(t, k, p, n), NEW c, c = Top(t).c,
         \/ k = "stop in" /\ p = In(c) /\ n = "wait in"
         \/ k = "stop out" /\ p = Out(c) /\ n = "wait out"
         \/ k = "undo out" /\ p = Out(c) /\ n = "wait undo"
  PROVE  PhaseInv'
<1>1. k \in Control /\ Stacks(t, {Do(n, c)} \cup Below(t)) /\ Runs(t, k)
  BY PortStopIs DEF PortStop
<1>2. PICK A : StackTo(t, A) /\ A = {Do(n, c)} \cup Below(t)
  BY <1>1 DEF Stacks
<1>3. Do(n, c).c = c /\ Do(n, c).b = Event /\ Do(n, c).k = n
  BY DEF Do, Frame
<1>4. \/ k \in Disabling /\ n \in Disabling
      \/ k \in Starting \cup {"enable"} /\ n \in Starting \cup {"enable"}
  BY DEF Disabling, Starting
<1>5. UNCHANGED <<ctrl, stop, enabled, fits, poolq>>
  BY DEF PortStop
<1>6. \A f \in A : f \in Below(t) \/ Follows(t, f)
  BY <1>1, <1>2, <1>3, <1>4 DEF Follows, Runs
<1> QED
  BY <1>1, <1>2, <1>5, <1>6, PhaseCall

LEMMA PortEmptyPhase ==
  ASSUME IInv, NEW t \in Threads, NEW k, NEW p, NEW next, PortEmpty(t, k, p, next),
         NEW c, c = Top(t).c,
         \/ k = "wait in" /\ p = In(c) /\ next = <<Do("stop out", c)>>
         \/ k = "wait out" /\ p = Out(c) /\ next = <<Do("flush", c)>>
         \/ k = "wait undo" /\ p = Out(c) /\ next = <<>>
  PROVE  PhaseInv'
<1>1. k \in Control /\ Runs(t, k)
  BY PortEmptyIs DEF PortEmpty
<1>2. PICK n : (k = "wait in" /\ n = "stop out") \/ (k # "wait in" /\ n = "flush")
  OBVIOUS
<1>3. PICK A : /\ StackTo(t, A) /\ A \subseteq {Do(n, c)} \cup Below(t)
               /\ k = "wait undo" => A = Below(t)
  <2>1. CASE k = "wait undo"
    BY <2>1, PortEmptyIs DEF Stacks
  <2>2. CASE k # "wait undo"
    <3>1. Stacks(t, {Do(n, c)} \cup Below(t))
      BY <1>2, <2>2, PortEmptyIs
    <3> QED
      BY <2>2, <3>1 DEF Stacks
  <2> QED
    BY <2>1, <2>2
<1>4. Do(n, c).c = c /\ Do(n, c).b = Event /\ Do(n, c).k = n
  BY DEF Do, Frame
<1>5. k # "wait undo" => k \in Disabling /\ n \in Disabling
  BY <1>2 DEF Disabling
<1>6. UNCHANGED <<ctrl, stop, enabled, fits, poolq>>
  BY DEF PortEmpty, flow
<1>7. \A f \in A : f \in Below(t) \/ Follows(t, f)
  BY <1>1, <1>3, <1>4, <1>5 DEF Follows, Runs
<1> QED
  BY <1>1, <1>3, <1>6, <1>7, PhaseCall

LEMMA StartOutPhase ==
  ASSUME IInv, NEW t \in Threads, StartOut(t), NEW c, c = Top(t).c
  PROVE  PhaseInv'
<1>1. Runs(t, "start out") /\ "start out" \in Control
  BY StartOutIs
<1>2. PICK A : StackTo(t, A) /\ A = {Do("start in", c)}
  BY StartOutIs DEF Stacks
<1>3. Do("start in", c).c = c /\ Do("start in", c).b = Event /\ Do("start in", c).k = "start in"
  BY DEF Do, Frame
<1>4. "start out" \in Starting /\ "start in" \in Starting
  BY DEF Starting
<1>5. UNCHANGED <<ctrl, stop, enabled, fits, poolq>>
  BY DEF StartOut
<1>6. \A f \in A : f \in Below(t) \/ Follows(t, f)
  BY <1>1, <1>2, <1>3, <1>4 DEF Follows, Runs
<1> QED
  BY <1>1, <1>2, <1>5, <1>6, PhaseCall

LEMMA StartFailsPhase ==
  ASSUME IInv, NEW t \in Threads, NEW k, NEW p, NEW next, StartFails(t, k, p, next),
         NEW c, c = Top(t).c,
         \/ k = "start out" /\ p = Out(c) /\ next = <<Do("failed", c)>>
         \/ k = "start in" /\ p = In(c) /\ next = <<Do("undo out", c), Do("failed", c)>>
  PROVE  PhaseInv'
<1>1. k \in {"start out", "start in"} /\ k \in Control /\ Runs(t, k)
  BY StartFailsIs
<1>2. PICK A : StackTo(t, A) /\ A \subseteq {Do("undo out", c), Do("failed", c)}
  <2>1. \/ Stacks(t, {Do("failed", c)}) \/ Stacks(t, {Do("undo out", c), Do("failed", c)})
    BY <1>1, StartFailsIs
  <2> QED
    BY <2>1 DEF Stacks
<1>3. /\ Do("undo out", c).c = c /\ Do("undo out", c).k = "undo out"
      /\ Do("undo out", c).b = Event /\ Do("failed", c).b = Event /\ Do("failed", c).c = c /\ Do("failed", c).k = "failed"
  BY DEF Do, Frame
<1>4. k \in Starting /\ "undo out" \in Starting /\ "failed" \in Starting
  BY <1>1 DEF Starting
<1>5. UNCHANGED <<ctrl, stop, enabled, fits, poolq>>
  BY DEF StartFails, flow
<1>6. \A f \in A : f \in Below(t) \/ Follows(t, f)
  BY <1>1, <1>2, <1>3, <1>4 DEF Follows, Runs
<1> QED
  BY <1>1, <1>2, <1>5, <1>6, PhaseCall

LEMMA FlushDonePhase ==
  ASSUME IInv, NEW t \in Threads, FlushDone(t), NEW c, c = Top(t).c
  PROVE  PhaseInv'
<1>1. Runs(t, "flush") /\ "flush" \in Control
  BY FlushDoneIs
<1>2. PICK A : StackTo(t, A) /\ A = Below(t)
  BY FlushDoneIs DEF Stacks
<1>3. UNCHANGED <<ctrl, stop>> /\ UNCHANGED <<fits, poolq>> /\ enabled' = [enabled EXCEPT ![c] = FALSE]
  BY DEF FlushDone, flow
<1>4. ASSUME NEW d \in Conns, Untouched(d)
      PROVE  ~enabled'[d] /\ (~fits'[d] => ~fits[d] /\ poolq'[d] = <<>>)
  BY <1>3, <1>4 DEF Untouched, IInv, Types
<1> QED
  BY <1>1, <1>2, <1>3, <1>4, PhaseControl

LEMMA EnableBeginPhase ==
  ASSUME IInv, NEW t \in Threads, EnableBegin(t), NEW c, c = Top(t).c
  PROVE  PhaseInv'
<1>1. Runs(t, "enable") /\ "enable" \in Control /\ c \in Conns
  BY EnableBeginIs
<1>2. PICK A : StackTo(t, A) /\ (A = {} \/ A = {Do("start out", c)})
  <2>1. Stacks(t, {}) \/ Stacks(t, {Do("start out", c)})
    BY EnableBeginIs
  <2> QED
    BY <2>1 DEF Stacks
<1>3. UNCHANGED <<ctrl, stop>> /\ enabled' = enabled
  BY DEF EnableBegin
<1>4. /\ Do("start out", c).c = c /\ Do("start out", c).b = Event
      /\ Do("start out", c).k = "start out" /\ "start out" \in Starting
  BY DEF Do, Frame, Starting
<1>5. \A f \in A : f \in Below(t) \/ Follows(t, f)
  BY <1>1, <1>2, <1>4 DEF Follows, Runs
<1>6. ASSUME NEW d \in Conns, Untouched(d)
      PROVE  ~enabled'[d] /\ (~fits'[d] => ~fits[d] /\ poolq'[d] = <<>>)
  <2>1. ~enabled[d] /\ (~fits[d] => poolq[d] = <<>>)
    BY <1>6 DEF Untouched
  <2>2. CASE enabled[c]
    BY <1>3, <2>1, <2>2, EnableBeginIs
  <2>3. CASE ~enabled[c]
    <3>1. fits' = [fits EXCEPT ![c] = TRUE] /\ fits \in [Conns -> BOOLEAN]
      BY <2>3, EnableBeginIs DEF IInv, Types
    <3>2. d # c => poolq'[d] = poolq[d]
      <4>1. CASE fits[c]
        <5>1. poolq' = poolq
          BY <2>3, <4>1, EnableBeginIs
        <5> QED
          BY <5>1
      <4>2. CASE ~fits[c]
        <5>1. \A e \in Conns \ {c} : poolq'[e] = poolq[e]
          BY <2>3, <4>2, EnableBeginIs
        <5> QED
          BY <5>1
      <4> QED
        BY <4>1, <4>2
    <3> QED
      BY <1>1, <1>3, <2>1, <3>1, <3>2
  <2> QED
    BY <2>2, <2>3
<1> QED
  BY <1>1, <1>2, <1>3, <1>5, <1>6, PhaseControl

LEMMA StartInPhase ==
  ASSUME IInv, NEW t \in Threads, StartIn(t), NEW c, c = Top(t).c
  PROVE  PhaseInv'
<1>1. Runs(t, "start in") /\ "start in" \in Control /\ c \in Conns
  BY StartInIs
<1>2. PICK A : StackTo(t, A) /\ A = {}
  BY StartInIs DEF Stacks
<1>3. /\ UNCHANGED <<ctrl, stop>> /\ UNCHANGED <<fits, poolq>>
      /\ enabled' = [enabled EXCEPT ![c] = TRUE]
  BY DEF StartIn
<1>4. t \in {"app", "worker"} /\ Top(t) \in Frames(t) /\ Top(t).k \in Control /\ Top(t).c = c
  BY <1>1, RunsIs DEF Threads
<1>5. \A f \in A : f \in Below(t) \/ Follows(t, f)
  BY <1>2
<1>6. ASSUME NEW d \in Conns, Untouched(d), t = "app" /\ A = {} => d # index - 1
      PROVE  ~enabled'[d] /\ (~fits'[d] => ~fits[d] /\ poolq'[d] = <<>>)
  <2>1. d # c
    <3>1. CASE t = "app"
      BY <1>2, <1>4, <1>6, <3>1 DEF IInv, PhaseInv
    <3>2. CASE t = "worker"
      BY <1>4, <1>6, <3>2 DEF Untouched
    <3> QED
      BY <1>4, <3>1, <3>2
  <2> QED
    BY <1>3, <1>6, <2>1 DEF Untouched, IInv, Types
<1> QED
  BY <1>1, <1>2, <1>3, <1>5, <1>6, PhaseControl

LEMMA EnableFailedPhase ==
  ASSUME IInv, NEW t \in Threads, EnableFailed(t), NEW c, c = Top(t).c
  PROVE  PhaseInv'
<1>1. Runs(t, "failed") /\ "failed" \in Control /\ c \in Conns
  BY EnableFailedIs
<1>2. PICK A : StackTo(t, A) /\ A = {}
  BY EnableFailedIs DEF Stacks
<1>3. /\ UNCHANGED <<work, current, index, stop>> /\ UNCHANGED <<fits, poolq>>
      /\ enabled' = [enabled EXCEPT ![c] = FALSE]
  BY DEF EnableFailed, flow
<1>4. ASSUME NEW d \in Conns, Untouched(d)
      PROVE  ~enabled'[d] /\ (~fits'[d] => ~fits[d] /\ poolq'[d] = <<>>)
  BY <1>3, <1>4 DEF Untouched, IInv, Types
<1>5. CASE t # "app"
  <2>1. app' = app
    BY <1>5 DEF EnableFailed
  <2>2. UNCHANGED <<ctrl, stop>>
    BY <1>3, <2>1 DEF ctrl
  <2>3. \A f \in A : f \in Below(t) \/ Follows(t, f)
    BY <1>2
  <2> QED
    BY <1>1, <1>2, <1>4, <2>2, <2>3, PhaseControl
<1>6. CASE t = "app"
  <2>1. app' = "failed"
    BY <1>6 DEF EnableFailed
  <2>2. Top(t) \in Frames(t) /\ Top(t).k = "failed"
    BY <1>1, RunsIs
  <2>3. app = "enabling"
    <3>1. "failed" \in Starting
      BY DEF Starting
    <3> QED
      BY <1>6, <2>2, <3>1 DEF IInv, PhaseInv
  <2>4. Frames("app")' = {} /\ Frames("worker")' = Frames("worker")
    BY <1>2, <1>6, PortIs DEF StackTo
  <2>5. \A x : Visit(x)' = Visit(x)
    BY <1>3 DEF Visit
  <2> QED
    BY <1>3, <2>1, <2>3, <2>4, <2>5 DEF IInv, PhaseInv
<1> QED
  BY <1>5, <1>6

LEMMA ProcessEventPhase ==
  ASSUME IInv, ~rash', NEW t \in Threads, ProcessEvent(t), NEW c, c = Top(t).c
  PROVE  PhaseInv'
<1>1. /\ t = "worker" /\ c \in Conns /\ enabled[c] /\ ~Idle(t)
      /\ Top(t).k = "process" /\ Top(t).b = Event
  BY ProcessEventIs
<1>2. PICK A : StackTo(t, A) /\ A \subseteq {Do("disable", c), Do("enable", c)}
  <2>1. Stacks(t, {Do("disable", c)}) \/ Stacks(t, {Do("disable", c), Do("enable", c)})
    BY ProcessEventIs
  <2> QED
    BY <2>1 DEF Stacks
<1>3. /\ UNCHANGED <<ctrl, stop>> /\ UNCHANGED <<enabled, poolq>>
      /\ fits' = [fits EXCEPT ![c] = FALSE] /\ fits \in [Conns -> BOOLEAN]
  BY DEF ProcessEvent, IInv, Types
<1>4. /\ Do("disable", c).k # "empty" /\ Do("disable", c).c = c
      /\ Do("enable", c).k # "empty" /\ Do("enable", c).c = c
  BY DEF Do, Frame
<1>6. ASSUME NEW f \in A PROVE f.k # "empty" /\ Stems(t, f)
  <2>1. f.k # "empty" /\ f.c = Top(t).c
    BY <1>2, <1>4
  <2> QED
    BY <1>1, <2>1, StemsIs
<1>7. ASSUME NEW d \in Conns, Untouched(d)
      PROVE  ~enabled'[d] /\ (~fits'[d] => ~fits[d] /\ poolq'[d] = <<>>)
  BY <1>1, <1>3, <1>7 DEF Untouched
<1> QED
  BY <1>1, <1>2, <1>3, <1>6, <1>7, PhaseMove

LEMMA ReturnBufferPhase ==
  ASSUME IInv, NEW t \in Threads, NEW p \in Ports, NEW h, ReturnBuffer(t, p, h),
         \/ t \in CompThreads /\ Idle(t)
         \/ ~Idle(t) /\ Top(t).k \in Waiting /\ Top(t).c = p[1]
  PROVE  PhaseInv'
<1>1. PICK c \in Conns : c = p[1]
  BY PortIs
<1>2. h \in held[p]
  BY DEF ReturnBuffer
<1>3. PICK A : StackTo(t, A) /\ A = {Cb(c), Frame(Returning(p), c, h)} \cup Frames(t)
  BY <1>1, ReturnBufferIs DEF Stacks
<1>4. UNCHANGED <<ctrl, stop, enabled, fits>>
  BY DEF ReturnBuffer
<1>5. /\ Cb(c).k = "callback" /\ Cb(c).c = c
      /\ Frame(Returning(p), c, h).k \in Returns /\ Frame(Returning(p), c, h).c = c
  BY DEF Cb, Frame, Returning, Returns
<1>6. ASSUME NEW f \in {Cb(c), Frame(Returning(p), c, h)}
      PROVE  f.c = c /\ f.k \notin Control /\ f.k # "process" /\ f.k # "empty"
  BY <1>5 DEF Returns, Control, Disabling, Starting
<1>7. t \notin CompThreads => ~Idle(t) /\ Top(t).c = c
  BY <1>1
<1>8. ~Idle(t) => Top(t).k # "empty"
  <2>1. ~Idle(t) => Top(t).k \in Waiting
    OBVIOUS
  <2> QED
    BY <2>1 DEF Waiting
<1>9. \A f \in A : f \in Frames(t) \/ (t \in CompThreads \/ (f.k # "empty" /\ Stems(t, f)))
  <2>1. fits[c] \/ enabled[c]
    <3>1. p = Out(c) \/ p = In(c)
      BY <1>1, PortIs
    <3>2. ~QuietIn(c) \/ ~QuietOut(c)
      BY <1>2, <3>1 DEF QuietIn, QuietOut
    <3> QED
      BY <3>2, BusyIs
  <2> QED
    BY <1>3, <1>6, <1>7, <2>1, StemsIs
<1>10. ASSUME NEW d \in Conns PROVE poolq'[d] = poolq[d] \/ fits[d] \/ enabled[d]
  <2>1. CASE d = c
    <3>1. p = Out(c) \/ p = In(c)
      BY <1>1, PortIs
    <3>2. ~QuietIn(c) \/ ~QuietOut(c)
      BY <1>2, <3>1 DEF QuietIn, QuietOut
    <3> QED
      BY <2>1, <3>2, BusyIs
  <2>2. CASE d # c
    <3>1. poolq \in [Conns -> Seq(Headers)]
      BY DEF IInv, Types
    <3> QED
      BY <1>1, <2>2, <3>1 DEF ReturnBuffer
  <2> QED
    BY <2>1, <2>2
<1> QED
  BY <1>3, <1>4, <1>7, <1>8, <1>9, <1>10, PhasePlain

LEMMA ReturnDonePhase ==
  ASSUME IInv, NEW t \in Threads, ReturnDone(t)
  PROVE  PhaseInv'
<1>1. ~Idle(t) /\ Top(t).k \in Returns
  BY ReturnDoneIs
<1>2. PICK A : StackTo(t, A) /\ A = Below(t)
  BY ReturnDoneIs DEF Stacks
<1>3. UNCHANGED <<ctrl, stop, enabled, fits>> /\ poolq' = poolq
  BY DEF ReturnDone, flow
<1>4. Top(t).k # "empty" /\ \A f \in A : f \in Frames(t)
  BY <1>1, <1>2, TopIs DEF Returns, IInv
<1> QED
  BY <1>1, <1>2, <1>3, <1>4, PhasePlain

LEMMA CallbackPhase ==
  ASSUME IInv, ~rash', NEW t \in Threads, Callback(t), NEW c, c = Top(t).c
  PROVE  PhaseInv'
<1>1. ~Idle(t) /\ Top(t).k = "callback" /\ c \in Conns
  BY CallbackIs DEF Callback, Runs
<1>2. PICK b : b = Head(connq[c])
  OBVIOUS
<1>3. PICK A : /\ StackTo(t, A) /\ A \subseteq {Frame("process", c, b)} \cup Below(t)
               /\ A = Below(t) \/ (t # "worker" /\ (b # Event => fits[c] \/ enabled[c]))
  <2>1. CASE c \in Direct /\ connq[c] # <<>>
    <3>1. Stacks(t, {Frame("process", c, b)} \cup Below(t)) /\ t # "worker"
      BY <1>2, <2>1, CallbackIs
    <3>2. b \in ToSet(connq[c])
      BY <1>1, <1>2, <2>1, FrontIs DEF IInv, Types
    <3>3. b # Event => fits[c] \/ enabled[c]
      BY <1>1, <3>2 DEF IInv, PlaceInv, Bare
    <3> QED
      BY <3>1, <3>3 DEF Stacks
  <2>2. CASE ~(c \in Direct /\ connq[c] # <<>>)
    <3>1. Stacks(t, Below(t))
      BY <2>2, CallbackIs
    <3> QED
      BY <3>1 DEF Stacks
  <2> QED
    BY <2>1, <2>2
<1>4. UNCHANGED <<ctrl, stop, enabled, fits>> /\ poolq' = poolq
  BY DEF Callback
<1>5. /\ Frame("process", c, b).k = "process" /\ Frame("process", c, b).c = c
      /\ Frame("process", c, b).b = b
  BY DEF Frame
<1>6. ASSUME NEW f \in A, f \notin Frames(t) PROVE f.k # "empty" /\ Stems(t, f)
  <2>1. f \notin Below(t)
    BY <1>1, <1>6, TopIs DEF IInv
  <2>2. /\ f.k = "process" /\ f.c = c /\ f.k # "empty" /\ f.k \notin Control
        /\ f.b = Event \/ fits[f.c] \/ enabled[f.c]
    BY <1>3, <1>5, <1>6, <2>1 DEF Control, Disabling, Starting
  <2> QED
    BY <1>1, <2>2, StemsIs
<1> QED
  BY <1>1, <1>3, <1>4, <1>6, PhasePlain

LEMMA ProcessSendPhase ==
  ASSUME IInv, NEW t \in Threads, ProcessSend(t), NEW c, c = Top(t).c
  PROVE  PhaseInv'
<1>1. ~Idle(t) /\ Top(t).k = "process"
  BY ProcessSendIs DEF Runs
<1>2. PICK A : StackTo(t, A) /\ A = Below(t)
  BY ProcessSendIs DEF Stacks
<1>3. UNCHANGED <<ctrl, stop, enabled, fits>> /\ poolq' = poolq
  BY DEF ProcessSend
<1>4. \A f \in A : f \in Frames(t)
  BY <1>1, <1>2, TopIs DEF IInv
<1> QED
  BY <1>1, <1>2, <1>3, <1>4, PhasePlain

LEMMA ProcessRefusedPhase ==
  ASSUME IInv, NEW t \in Threads, ProcessRefused(t), NEW c, c = Top(t).c
  PROVE  PhaseInv'
<1>1. /\ ~Idle(t) /\ Top(t).k = "process" /\ Top(t).b # Event /\ Top(t).k \notin Control
      /\ Top(t) \in Frames(t)
  BY ProcessRefusedIs, TopIs DEF Runs, Control, Disabling, Starting, IInv
<1>2. PICK A : StackTo(t, A) /\ A = {Cb(c)} \cup Below(t)
  BY ProcessRefusedIs DEF Stacks
<1>3. UNCHANGED <<ctrl, stop, enabled, fits>> /\ c \in Conns
  BY <1>1, TopIs DEF ProcessRefused, FrameType, IInv
<1>4. Cb(c).k = "callback" /\ Cb(c).c = c /\ Cb(c).b = Event
  BY DEF Cb, Frame
<1>5. ASSUME NEW f \in A, f \notin Frames(t) PROVE f.k # "empty" /\ Stems(t, f)
  <2>1. f \notin Below(t)
    BY <1>1, <1>5, TopIs DEF IInv
  <2>2. f.k = "callback" /\ f.c = c /\ f.b = Event /\ f.k \notin Control
    BY <1>2, <1>4, <2>1 DEF Control, Disabling, Starting
  <2> QED
    BY <1>1, <2>2, StemsIs
<1>6. ASSUME NEW d \in Conns
      PROVE  \/ poolq'[d] = poolq[d] \/ fits[d] \/ enabled[d]
             \/ t = "worker" /\ \E f \in Frames(t) : f.c = d /\ f.b # Event
  <2>1. CASE d = c /\ t # "worker"
    BY <1>1, <2>1, CarryFits
  <2>2. CASE d = c /\ t = "worker"
    BY <1>1, <2>2
  <2>3. CASE d # c
    <3>1. poolq' = [poolq EXCEPT ![c] = Append(@, Top(t).b)] /\ poolq \in [Conns -> Seq(Headers)]
      BY DEF ProcessRefused, IInv, Types
    <3> QED
      BY <1>3, <2>3, <3>1
  <2> QED
    BY <2>1, <2>2, <2>3
<1> QED
  BY <1>1, <1>2, <1>3, <1>5, <1>6, PhasePlain

LEMMA FlushQueuePhase ==
  ASSUME IInv, NEW t \in Threads, FlushQueue(t), NEW c, c = Top(t).c
  PROVE  PhaseInv'
<1>1. Runs(t, "flush") /\ "flush" \in Control /\ c \in Conns
  BY FlushQueueIs
<1>2. ~Idle(t) /\ Top(t).k = "flush" /\ CallFits(Top(t)) /\ Top(t).c = c
  BY <1>1, RunsIs
<1>3. enabled[c]
  BY <1>2 DEF CallFits, Stopping, Disabling
<1>4. UNCHANGED <<ctrl, stop, enabled, fits>>
  BY DEF FlushQueue
<1>5. PICK A : StackTo(t, A) /\ A \subseteq {Cb(c)} \cup Frames(t)
  <2>1. Head(connq[c]) = Event => stack' = stack
    BY FlushQueueIs
  <2>2. Head(connq[c]) = Event => StackTo(t, Frames(t))
    BY <2>1, StackStay DEF IInv
  <2>3. Head(connq[c]) # Event => Stacks(t, {Cb(c)} \cup Frames(t))
    BY FlushQueueIs
  <2> QED
    BY <2>2, <2>3 DEF Stacks
<1>6. Cb(c).k = "callback" /\ Cb(c).c = c /\ Cb(c).b = Event
  BY DEF Cb, Frame
<1>7. ASSUME NEW f \in A, f \notin Frames(t) PROVE f.k # "empty" /\ Stems(t, f)
  <2>1. f.k = "callback" /\ f.c = Top(t).c /\ f.b = Event /\ f.k \notin Control
    BY <1>5, <1>6, <1>7 DEF Control, Disabling, Starting
  <2> QED
    BY <1>2, <2>1, StemsIs
<1>8. ASSUME NEW d \in Conns PROVE poolq'[d] = poolq[d] \/ fits[d] \/ enabled[d]
  <2>1. CASE d = c
    BY <1>3, <2>1
  <2>2. CASE d # c
    <3>1. poolq' = poolq \/ poolq' = [poolq EXCEPT ![c] = Append(@, Head(connq[c]))]
      BY FlushQueueIs
    <3>2. poolq \in [Conns -> Seq(Headers)]
      BY DEF IInv, Types
    <3> QED
      BY <1>1, <2>2, <3>1, <3>2
  <2> QED
    BY <2>1, <2>2
<1> QED
  BY <1>2, <1>4, <1>5, <1>7, <1>8, PhasePlain

\* The steps of the worker.
Inert(d, A) == /\ \A f \in A : f.k \in Control => f.c # d
               /\ ~fits[d] => poolq'[d] = <<>> /\ \A f \in A : f.b # Event => f.c # d
LEMMA PhaseOwn ==
  ASSUME IInv, NEW A, StackTo("worker", A), UNCHANGED <<app, index, stop, enabled, fits>>,
         work'.at = "none" <=> work.at = "none",
         work'.at = "exited" => stop,
         app \in {"enabling", "failed"} /\ work'.at \in {"empties", "sending", "fulls"} => ~stop,
         A # {} => work'.at \in {"sending", "fulls"} /\ work'.i <= NumConns,
         \A f \in A : f.k = "empty" <=> work'.at = "sending",
         work'.at = "sending" => \E f \in A : f.k = "empty" /\ f.c = Visit(work.i)',
         work'.at = "fulls" /\ A # {} => work'.again,
         \A d \in Conns : Untouched(d) => Inert(d, A)
  PROVE  PhaseInv'
<1>1. "worker" \in Threads /\ "app" \in Threads /\ PhaseInv
  BY PortIs DEF IInv
<1>2. /\ Frames("worker")' = A /\ Frames("app")' = Frames("app")
      /\ Idle("app")' <=> Idle("app")
  BY <1>1, IdleIs DEF StackTo
<1>3. Ahead' = Ahead
  BY <1>2 DEF Ahead
<1>4. ASSUME ~stop, app \in {"off", "enabling"}, NEW c \in Conns, c >= Ahead' PROVE Untouched(c)'
  <2>1. Untouched(c)
    BY <1>1, <1>3, <1>4 DEF PhaseInv
  <2>2. Inert(c, A)
    BY <2>1
  <2> QED
    BY <1>2, <2>1, <2>2 DEF Untouched, Inert
<1> QED
  BY <1>1, <1>2, <1>4 DEF PhaseInv

LEMMA WorkIs ==
  ASSUME IInv
  PROVE  /\ work.at \in {"none", "wait", "exited", "empties", "sending", "fulls"}
         /\ work.i \in 1..(NumConns + 1) /\ work.again \in BOOLEAN
         /\ work \in Work /\ NumConns \in Nat \ {0}
         /\ Idle("worker") <=> Frames("worker") = {}
         /\ \A l : At(l) => Frames("worker") = {} /\ work.at = l
         /\ \A at : Fresh(at).at = at /\ Fresh(at).i = 1 /\ ~Fresh(at).again
<1>1. work \in Work /\ NumConns \in Nat \ {0}
  BY ConnAssumption DEF IInv, Types
<1>2. Idle("worker") <=> Frames("worker") = {}
  BY PortIs, TopIs DEF IInv
<1> QED
  BY <1>1, <1>2 DEF Work, At, Fresh

LEMMA OwnPhase ==
  ASSUME IInv, WorkerWake \/ NextEmpties \/ NextFulls \/ EndPass
  PROVE  PhaseInv'
<1>1. /\ stack' = stack /\ UNCHANGED <<app, index, stop, enabled, fits, poolq>>
      /\ Idle("worker")
  BY DEF WorkerWake, NextEmpties, NextFulls, EndPass, flow, At
<1>2. PICK A : StackTo("worker", A) /\ A = {}
  BY <1>1, StackStay, WorkIs, PortIs DEF IInv
<1>3. \A d \in Conns : Untouched(d) => Inert(d, A)
  BY <1>1, <1>2 DEF Untouched, Inert
<1>4. PhaseInv /\ work \in Work
  BY WorkIs DEF IInv
<1>5. CASE WorkerWake
  <2>1. work.at = "wait" /\ work'.at = (IF stop THEN "exited" ELSE "empties")
    BY <1>5 DEF WorkerWake, At, Fresh
  <2> QED
    BY <1>1, <1>2, <1>3, <2>1, PhaseOwn
<1>6. CASE NextEmpties
  <2>1. work.at = "empties" /\ work'.at \in {"empties", "fulls"}
    BY <1>4, <1>6 DEF NextEmpties, At, Rest, PhaseInv, Work
  <2>2. app \in {"enabling", "failed"} => ~stop
    BY <1>4, <2>1 DEF PhaseInv
  <2> QED
    BY <1>1, <1>2, <1>3, <2>1, <2>2, PhaseOwn
<1>7. CASE NextFulls
  <2>1. work.at = "fulls" /\ work'.at = "fulls"
    BY <1>4, <1>7 DEF NextFulls, At, Rest, Work
  <2>2. app \in {"enabling", "failed"} => ~stop
    BY <1>4, <2>1 DEF PhaseInv
  <2> QED
    BY <1>1, <1>2, <1>3, <2>1, <2>2, PhaseOwn
<1>8. CASE EndPass
  <2>1. work.at = "fulls" /\ work'.at \in {"empties", "wait"}
    BY <1>8 DEF EndPass, At, Fresh
  <2>2. app \in {"enabling", "failed"} => ~stop
    BY <1>4, <2>1 DEF PhaseInv
  <2> QED
    BY <1>1, <1>2, <1>3, <2>1, <2>2, PhaseOwn
<1> QED
  BY <1>5, <1>6, <1>7, <1>8

LEMMA SendEmptyPhase ==
  ASSUME IInv, SendEmpty, NEW c, c = Visit(work.i), NEW h, h = Head(poolq[c])
  PROVE  PhaseInv'
<1>1. /\ work.at = "empties" /\ work.i \in 1..NumConns /\ c \in Conns /\ poolq[c] # <<>>
      /\ poolq' = [poolq EXCEPT ![c] = Tail(@)]
  BY SendEmptyIs DEF At
<1>2. PICK A : StackTo("worker", A) /\ A = {Frame("empty", c, h)}
  BY SendEmptyIs DEF Stacks
<1>3. /\ UNCHANGED <<app, index, stop, enabled, fits>> /\ current' = current
      /\ work' = [work EXCEPT !.at = "sending", !.again = TRUE]
  BY DEF SendEmpty
<1>4. PhaseInv /\ work \in Work /\ poolq \in [Conns -> Seq(Headers)]
  BY WorkIs DEF IInv, Types
<1>5. /\ work'.at = "sending" /\ work'.i = work.i
      /\ Visit(work.i)' = c
  <2>1. work'.at = "sending" /\ work'.i = work.i
    BY <1>1, <1>3, <1>4 DEF Work, PhaseInv
  <2> QED
    BY <1>3, <2>1 DEF Visit
<1>6. ASSUME NEW f \in A PROVE f.k = "empty" /\ f.c = c /\ f.k \notin Control
  <2>1. f = Frame("empty", c, h)
    BY <1>2
  <2>2. f.k = "empty" /\ f.c = c
    BY <2>1 DEF Frame
  <2> QED
    BY <2>2 DEF Control, Disabling, Starting
<1>7. \E f \in A : f.k = "empty" /\ f.c = Visit(work.i)'
  BY <1>2, <1>5, <1>6
<1>8. ASSUME NEW d \in Conns, Untouched(d) PROVE Inert(d, A)
  <2>1. ~fits[d] => d # c /\ poolq[d] = <<>>
    BY <1>1, <1>8 DEF Untouched
  <2>2. ~fits[d] => poolq'[d] = <<>>
    BY <1>1, <1>4, <2>1
  <2> QED
    BY <1>6, <2>1, <2>2 DEF Inert
<1>9. app \in {"enabling", "failed"} => ~stop
  BY <1>1, <1>4 DEF PhaseInv
<1>10. work'.i <= NumConns
  BY <1>1, <1>5, WorkIs
<1>11. work'.at = "none" <=> work.at = "none"
  BY <1>1, <1>5
<1> QED
  BY <1>2, <1>3, <1>5, <1>6, <1>7, <1>8, <1>9, <1>10, <1>11, PhaseOwn

LEMMA EmptySentPhase ==
  ASSUME IInv, EmptySent, NEW c, c = Top("worker").c, NEW h, h = Top("worker").b
  PROVE  PhaseInv'
<1>1. /\ ~Idle("worker") /\ Top("worker").k = "empty" /\ c \in Conns /\ work.at = "sending"
      /\ Frames("worker") = {Top("worker")} /\ Top("worker").b # Event
  BY EmptySentIs, EventAssumption
<1>2. PICK A : StackTo("worker", A) /\ A = {}
  BY EmptySentIs DEF Stacks
<1>3. UNCHANGED <<app, index, stop, enabled, fits>>
  BY DEF EmptySent
<1>4. PhaseInv /\ work \in Work /\ poolq \in [Conns -> Seq(Headers)]
  BY WorkIs DEF IInv, Types
<1>5. work'.at = "empties"
  BY <1>1, <1>4 DEF EmptySent, Work, PhaseInv
<1>6. \A d \in Conns \ {c} : poolq'[d] = poolq[d]
  <2>1. poolq' = poolq \/ poolq' = [poolq EXCEPT ![c] = <<h>> \o @]
    BY DEF EmptySent
  <2> QED
    BY <1>4, <2>1
<1>7. ASSUME NEW d \in Conns, Untouched(d) PROVE Inert(d, A)
  <2>1. ~fits[d] => d # c /\ poolq[d] = <<>>
    BY <1>1, <1>7 DEF Untouched
  <2> QED
    BY <1>2, <1>6, <2>1 DEF Inert
<1>8. app \in {"enabling", "failed"} => ~stop
  BY <1>1, <1>4 DEF PhaseInv
<1> QED
  BY <1>1, <1>2, <1>3, <1>5, <1>7, <1>8, PhaseOwn

LEMMA TakeFullPhase ==
  ASSUME IInv, TakeFull, NEW c, c = Visit(work.i), NEW h, h = Head(connq[c])
  PROVE  PhaseInv'
<1>1. work.at = "fulls" /\ work.i \in 1..NumConns /\ c \in Conns /\ connq[c] # <<>>
      /\ h \in ToSet(connq[c])
  BY TakeFullIs DEF At
<1>2. PICK A : StackTo("worker", A) /\ A = {Frame("process", c, h)}
  BY TakeFullIs DEF Stacks
<1>3. UNCHANGED <<app, index, stop, enabled, fits, poolq>>
  BY DEF TakeFull
<1>4. PhaseInv /\ work \in Work /\ PlaceInv /\ PortInv
  BY WorkIs DEF IInv
<1>5. work'.at = "fulls" /\ work'.i = work.i /\ work'.again
  BY <1>1, <1>4 DEF TakeFull, Work
<1>6. ASSUME NEW f \in A PROVE f.k = "process" /\ f.c = c /\ f.b = h /\ f.k \notin Control
  <2>1. f = Frame("process", c, h)
    BY <1>2
  <2>2. f.k = "process" /\ f.c = c /\ f.b = h
    BY <2>1 DEF Frame
  <2> QED
    BY <2>2 DEF Control, Disabling, Starting
<1>7. h # Event => fits[c] \/ enabled[c]
  BY <1>1, <1>4 DEF PlaceInv, Bare
<1>9. ASSUME NEW d \in Conns, Untouched(d) PROVE Inert(d, A)
  <2>1. ~fits[d] => (h # Event => d # c) /\ poolq[d] = <<>>
    BY <1>7, <1>9 DEF Untouched
  <2> QED
    BY <1>3, <1>6, <2>1 DEF Inert
<1>10. app \in {"enabling", "failed"} => ~stop
  BY <1>1, <1>4 DEF PhaseInv
<1>11. work'.i <= NumConns
  BY <1>1, <1>5, WorkIs
<1>12. work'.at = "none" <=> work.at = "none"
  BY <1>1, <1>5
<1>13. \A f \in A : f.k = "empty" <=> work'.at = "sending"
  BY <1>5, <1>6
<1> QED
  BY <1>2, <1>3, <1>5, <1>9, <1>10, <1>11, <1>12, <1>13, PhaseOwn

\* The steps of the client, and the events of components.
LEMMA EachPhase ==
  ASSUME IInv, NEW call, NEW k, Each(call, k),
         \/ call = "enabling" /\ k = "enable"
         \/ call \in {"disabling", "destroying"} /\ k = "disable"
  PROVE  PhaseInv'
<1>1. app = call /\ index \in Conns /\ Frames("app") = {} /\ Idle("app")
  BY EachIs
<1>2. PICK c \in Conns : c = index
  BY <1>1
<1>3. PICK A : StackTo("app", A) /\ A = {Do(k, c)}
  BY <1>2, EachIs DEF Stacks
<1>4. UNCHANGED <<fits, poolq, enabled, stop, work, current, app>> /\ index' = index + 1
  BY DEF Each, flow
<1>5. /\ Frames("app")' = A /\ Frames("worker")' = Frames("worker") /\ A # {} /\ ~Idle("app")'
  BY <1>3, PortIs, IdleIs DEF StackTo
<1>6. ASSUME NEW f \in A PROVE f.k = k /\ f.c = c
  <2>1. f = Do(k, c)
    BY <1>3
  <2> QED
    BY <2>1 DEF Do, Frame
<1>7. index' - 1 = c /\ index' > 1 /\ index = c
  BY <1>2, <1>4, ConnAssumption DEF Conns
<1>8. Ahead' = Ahead \/ app # "enabling"
  BY <1>1, <1>4, <1>5, <1>7 DEF Ahead
<1>9. k = "enable" => k \notin Disabling
  BY DEF Disabling
<1>10. k = "disable" => k \notin Starting \cup {"enable"}
  BY DEF Starting
<1>11. \A d : Untouched(d) => Untouched(d)'
  BY <1>4, <1>5 DEF Untouched
<1>12. \A x : Visit(x)' = Visit(x)
  BY <1>4 DEF Visit
<1>13. ASSUME ~stop, app \in {"off", "enabling"}, NEW d \in Conns, d >= Ahead' PROVE Untouched(d)'
  <2>1. Untouched(d)
    BY <1>1, <1>8, <1>13 DEF IInv, PhaseInv
  <2> QED
    BY <1>11, <2>1
<1>14. \A f \in A : /\ f.c = index' - 1
                    /\ app = "enabling" => f.k \notin Disabling
                    /\ app # "enabling" => f.k \notin Starting \cup {"enable"}
  BY <1>1, <1>6, <1>7, <1>9, <1>10
<1> QED
  BY <1>1, <1>4, <1>5, <1>7, <1>12, <1>13, <1>14 DEF IInv, PhaseInv

LEMMA ClientPhase ==
  ASSUME IInv, ClientOwn
  PROVE  PhaseInv'
<1>1. /\ stack' = stack /\ UNCHANGED <<fits, poolq, enabled, current>>
  BY ClientTypes DEF flow
<1>2. \A u \in Threads : Frames(u)' = Frames(u)
  BY <1>1, StackSame DEF IInv
<1>3. /\ Frames("app")' = Frames("app") /\ Frames("worker")' = Frames("worker")
      /\ Idle("app")' <=> Idle("app")
  BY <1>1, <1>2, PortIs DEF Idle
<1>4. \A d : Untouched(d) => Untouched(d)'
  BY <1>1, <1>3 DEF Untouched
<1>5. work'.i = work.i => Visit(work.i)' = Visit(work.i)
  BY <1>1 DEF Visit
<1>6. PhaseInv /\ work \in Work /\ (Idle("worker") <=> Frames("worker") = {})
  BY WorkIs DEF IInv
<1>7. /\ app \in {"off", "failed", "on", "joining", "failing"} => Frames("app") = {}
      /\ work.at \in {"none", "wait", "exited"} => Frames("worker") = {}
  BY <1>6 DEF PhaseInv
<1>8. Frames("app") = {} => Idle("app")
  BY PortIs, TopIs DEF IInv
<1>9. CASE GraphEnable
  <2>1. /\ app = "off" /\ work.at = "none" /\ work'.at = "wait"
        /\ app' = "enabling" /\ index' = 1 /\ stop' = stop
    BY <1>6, <1>9 DEF GraphEnable, PhaseInv, Work
  <2>2. Ahead' = Ahead
    BY <1>3, <1>7, <1>8, <2>1 DEF Ahead
  <2>3. ASSUME ~stop, NEW d \in Conns, d >= Ahead' PROVE Untouched(d)'
    BY <1>4, <1>6, <2>1, <2>2, <2>3 DEF PhaseInv
  <2> QED
    BY <1>3, <1>7, <2>1, <2>3 DEF PhaseInv
<1>10. CASE EnableEnds
  <2>1. /\ work' = work /\ index' = index /\ Idle("app")
        /\ \/ app = "enabling" /\ app' = "on" /\ stop' = stop
           \/ app = "failed" /\ app' = "failing" /\ stop' = TRUE
    BY <1>10 DEF EnableEnds
  <2>2. Frames("app") = {}
    BY <2>1, PortIs, TopIs DEF IInv
  <2> QED
    BY <1>3, <1>5, <1>6, <2>1, <2>2 DEF PhaseInv
<1>11. CASE GraphDisable
  <2>1. work' = work /\ index' = index /\ app = "on" /\ app' = "joining" /\ stop' = TRUE
    BY <1>11 DEF GraphDisable
  <2> QED
    BY <1>3, <1>5, <1>6, <2>1 DEF PhaseInv
<1>12. CASE Join
  <2>1. /\ work.at = "exited" /\ work'.at = "none" /\ stop' = stop
        /\ app \in {"joining", "failing"} /\ app' \in {"disabling", "off"}
    BY <1>6, <1>12 DEF Join, At, Work
  <2> QED
    BY <1>3, <1>6, <1>7, <2>1 DEF PhaseInv
<1>13. CASE DisableEnds
  <2>1. work' = work /\ index' = index /\ app = "disabling" /\ app' = "off" /\ stop' = stop /\ Idle("app")
    BY <1>13 DEF DisableEnds
  <2>2. Frames("app") = {}
    BY <2>1, PortIs, TopIs DEF IInv
  <2> QED
    BY <1>3, <1>5, <1>6, <2>1, <2>2 DEF PhaseInv
<1>14. CASE GraphDestroy
  <2>1. work' = work /\ app = "off" /\ app' = "destroying" /\ stop' = stop
    BY <1>14 DEF GraphDestroy
  <2> QED
    BY <1>3, <1>5, <1>6, <1>7, <2>1 DEF PhaseInv
<1>15. CASE DestroyPool
  <2>1. work' = work /\ index' = index /\ app' = app /\ stop' = stop
    BY <1>15 DEF DestroyPool
  <2>2. Ahead' = Ahead
    BY <1>3, <2>1 DEF Ahead
  <2>3. app = "destroying"
    BY <1>15 DEF DestroyPool
  <2> QED
    BY <1>3, <1>5, <1>6, <2>1, <2>3 DEF PhaseInv
<1> QED
  BY <1>9, <1>10, <1>11, <1>12, <1>13, <1>14, <1>15 DEF ClientOwn

LEMMA PassEventPhase ==
  ASSUME IInv, NEW t \in Threads, PassEvent(t), NEW c, c = Top(t).c
  PROVE  PhaseInv'
<1>1. ~Idle(t) /\ Top(t).k = "process"
  BY PassEventIs
<1>2. PICK A : StackTo(t, A) /\ A = Below(t)
  BY PassEventIs DEF Stacks
<1>3. UNCHANGED <<ctrl, stop, enabled, fits>> /\ poolq' = poolq
  BY DEF PassEvent, ForwardEvent, DropEvent, flow
<1>4. \A f \in A : f \in Frames(t)
  BY <1>1, <1>2, TopIs DEF IInv
<1> QED
  BY <1>1, <1>2, <1>3, <1>4, PhasePlain

LEMMA EventBackPhase ==
  ASSUME IInv, NEW c \in Conns, EventBack(c)
  PROVE  PhaseInv'
<1>1. stack' = stack /\ UNCHANGED <<fits, poolq, enabled, stop, current, work, app, index>>
  BY DEF EventBack, ctrl
<1>2. \A u \in Threads : Frames(u)' = Frames(u)
  BY <1>1, StackSame DEF IInv
<1>3. /\ Frames("app")' = Frames("app") /\ Frames("worker")' = Frames("worker")
      /\ Idle("app")' <=> Idle("app")
  BY <1>1, <1>2, PortIs DEF Idle
<1>4. \A d : Untouched(d) => Untouched(d)'
  BY <1>1, <1>3 DEF Untouched
<1>5. Ahead' = Ahead /\ \A x : Visit(x)' = Visit(x)
  BY <1>1, <1>3 DEF Ahead, Visit
<1> QED
  BY <1>1, <1>3, <1>4, <1>5 DEF IInv, PhaseInv

LEMMA EventTestPhase ==
  ASSUME IInv, NEW c \in Conns, EventTest(c)
  PROVE  PhaseInv'
<1>1. PICK t \in CompThreads : t \in Threads /\ Idle(t) /\ Stacks(t, {Do("event", c)})
  BY EventTestIs
<1>2. PICK A : StackTo(t, A) /\ A = {Do("event", c)}
  BY <1>1 DEF Stacks
<1>3. UNCHANGED <<ctrl, stop, enabled, fits>> /\ poolq' = poolq
  BY DEF EventTest, flow
<1> QED
  BY <1>1, <1>2, <1>3, PhasePlain

LEMMA EventCallPhase ==
  ASSUME IInv, NEW t \in Threads, EventCall(t)
  PROVE  PhaseInv'
<1>1. ~Idle(t) /\ t \in CompThreads /\ Top(t).k = "event"
  BY EventCallIs
<1>2. PICK A : StackTo(t, A)
  BY EventCallIs DEF Stacks
<1>3. UNCHANGED <<ctrl, stop, enabled, fits>> /\ poolq' = poolq
  BY DEF EventCall
<1> QED
  BY <1>1, <1>2, <1>3, PhasePlain

\* The connections that have been destroyed, and the one that is about to be.
LEMMA DestroyThread ==
  ASSUME IInv, NEW t \in Threads, NEW A, StackTo(t, A), UNCHANGED <<alive, index, app>>,
         t \notin CompThreads => ~Idle(t),
         \A c \in Conns : app = "destroying" /\ enabled'[c] => enabled[c],
         t = "app" /\ A = {} /\ app = "destroying" => ~enabled'[index - 1]
  PROVE  DestroyInv'
<1>1. "app" \in Threads /\ "app" \notin CompThreads
  BY PortIs
<1>2. t # "app" => Frames("app")' = Frames("app") /\ (Idle("app")' <=> Idle("app"))
  BY <1>1, IdleIs DEF StackTo
<1>3. t = "app" => /\ Frames("app")' = A /\ (Idle("app")' <=> A = {})
                   /\ ~Idle("app") /\ Frames("app") # {}
  BY <1>1, IdleIs, TopIs DEF StackTo, IInv
<1>4. ASSUME app = "destroying", Idle("app")', index > 1 PROVE ~enabled'[index - 1]
  <2>1. index - 1 \in Conns
    BY <1>4, ConnAssumption DEF IInv, Types, Conns
  <2>2. CASE t = "app"
    BY <1>3, <1>4, <2>2
  <2>3. CASE t # "app"
    BY <1>2, <1>4, <2>1, <2>3 DEF IInv, DestroyInv
  <2> QED
    BY <2>2, <2>3
<1>5. ASSUME NEW c \in Conns, ~alive[c]
      PROVE  /\ app = "destroying" /\ ~enabled'[c] /\ c < index
             /\ Frames("app")' # {} => c < index - 1
  <2>1. /\ app = "destroying" /\ ~enabled[c] /\ c < index
        /\ Frames("app") # {} => c < index - 1
    BY <1>5 DEF IInv, DestroyInv
  <2> QED
    BY <1>2, <1>3, <2>1
<1> QED
  BY <1>4, <1>5 DEF DestroyInv

\* While connections are destroyed, nothing is enabled.
LEMMA NothingStarts ==
  ASSUME IInv, app = "destroying", NEW t \in Threads, NEW f \in Frames(t),
         f.k \in Starting \cup {"enable"}
  PROVE  FALSE
<1>1. f.k \in Control
  BY DEF Control
<1>2. t \in {"app", "worker"}
  BY <1>1, TopIs DEF FrameFits, IInv, Threads
<1>3. CASE t = "app"
  BY <1>3 DEF IInv, PhaseInv
<1>4. CASE t = "worker"
  BY <1>4 DEF IInv, PhaseInv
<1> QED
  BY <1>2, <1>3, <1>4

LEMMA DestroyQuiet ==
  ASSUME IInv, NEW t \in Threads, NEW A, StackTo(t, A), UNCHANGED <<alive, index, app, enabled>>,
         t \notin CompThreads => ~Idle(t),
         A # {} \/ (Below(t) \subseteq A /\ Top(t).k \notin Control)
                \/ Top(t).k \in Starting \cup {"enable"}
  PROVE  DestroyInv'
<1>1. ASSUME t = "app", A = {}, app = "destroying" PROVE FALSE
  <2>1. ~Idle(t) /\ t \notin CompThreads
    BY <1>1, PortIs
  <2>2. Top(t) \in Frames(t) /\ Frames(t) = {Top(t)} \cup Below(t)
    BY <2>1, TopIs DEF IInv
  <2>3. Top(t).k \notin Starting \cup {"enable"}
    BY <1>1, <2>2, NothingStarts
  <2>4. Below(t) = {} /\ Top(t).k \notin Control
    BY <1>1, <2>3
  <2>5. PICK g \in Frames("app") : g.k \in Waiting
    BY <1>1, <2>2, <2>4 DEF IInv, FrameInv
  <2> QED
    BY <1>1, <2>2, <2>4, <2>5, KindIs
<1> QED
  BY <1>1, DestroyThread

LEMMA ReturnBufferDestroy ==
  ASSUME IInv, NEW t \in Threads, NEW p \in Ports, NEW h, ReturnBuffer(t, p, h),
         \/ t \in CompThreads /\ Idle(t)
         \/ ~Idle(t) /\ Top(t).k \in Waiting /\ Top(t).c = p[1]
  PROVE  DestroyInv'
<1>1. PICK A : StackTo(t, A) /\ A = {Cb(p[1]), Frame(Returning(p), p[1], h)} \cup Frames(t)
  BY ReturnBufferIs DEF Stacks
<1>2. UNCHANGED <<alive, index, app, enabled>>
  BY DEF ReturnBuffer, ctrl
<1>3. A # {}
  BY <1>1
<1> QED
  BY <1>1, <1>2, <1>3, DestroyQuiet

LEMMA BufferDestroy ==
  ASSUME IInv, ~rash', NEW t \in Threads,
         ReturnDone(t) \/ Callback(t) \/ ProcessSend(t) \/ ProcessRefused(t) \/ PassEvent(t)
  PROVE  DestroyInv'
<1>1. UNCHANGED <<alive, index, app, enabled>>
  BY DEF ReturnDone, Callback, ProcessSend, ProcessRefused, PassEvent, ForwardEvent, DropEvent, ctrl
<1>2. ~Idle(t) /\ Top(t).k \notin Control
  BY DEF ReturnDone, Callback, ProcessSend, ProcessRefused, PassEvent, ForwardEvent, DropEvent, Runs,
         Control, Disabling, Starting
<1>3. PICK A : StackTo(t, A) /\ Below(t) \subseteq A
  <2>1. PICK c : c = Top(t).c
    OBVIOUS
  <2>2. CASE ReturnDone(t)
    BY <2>2, ReturnDoneIs DEF Stacks
  <2>3. CASE Callback(t)
    <3>1. \/ Stacks(t, Below(t))
          \/ Stacks(t, {Frame("process", c, Head(connq[c]))} \cup Below(t))
      BY <2>1, <2>3, CallbackIs
    <3> QED
      BY <3>1 DEF Stacks
  <2>4. CASE ProcessSend(t)
    BY <2>1, <2>4, ProcessSendIs DEF Stacks
  <2>5. CASE ProcessRefused(t)
    <3>1. Stacks(t, {Cb(c)} \cup Below(t))
      BY <2>1, <2>5, ProcessRefusedIs
    <3> QED
      BY <3>1 DEF Stacks
  <2>6. CASE PassEvent(t)
    BY <2>1, <2>6, PassEventIs DEF Stacks
  <2> QED
    BY <2>2, <2>3, <2>4, <2>5, <2>6
<1> QED
  BY <1>1, <1>2, <1>3, DestroyQuiet

LEMMA ProcessEventDestroy ==
  ASSUME IInv, ~rash', NEW t \in Threads, ProcessEvent(t)
  PROVE  DestroyInv'
<1>1. PICK c : c = Top(t).c
  OBVIOUS
<1>2. t = "worker" /\ ~Idle(t)
  BY <1>1, ProcessEventIs
<1>3. PICK A : StackTo(t, A)
  <2>1. Stacks(t, {Do("disable", c)}) \/ Stacks(t, {Do("disable", c), Do("enable", c)})
    BY <1>1, ProcessEventIs
  <2> QED
    BY <2>1 DEF Stacks
<1>4. UNCHANGED <<alive, index, app, enabled>>
  BY DEF ProcessEvent, ctrl
<1> QED
  BY <1>2, <1>3, <1>4, DestroyThread

LEMMA FlushQueueDestroy ==
  ASSUME IInv, NEW t \in Threads, FlushQueue(t)
  PROVE  DestroyInv'
<1>1. PICK c : c = Top(t).c
  OBVIOUS
<1>2. ~Idle(t) /\ Frames(t) # {}
  BY TopIs DEF FlushQueue, Runs, IInv
<1>3. PICK A : StackTo(t, A) /\ Frames(t) \subseteq A
  <2>1. Head(connq[c]) = Event => StackTo(t, Frames(t))
    BY <1>1, FlushQueueIs, StackStay DEF IInv
  <2>2. Head(connq[c]) # Event => Stacks(t, {Cb(c)} \cup Frames(t))
    BY <1>1, FlushQueueIs
  <2> QED
    BY <2>1, <2>2 DEF Stacks
<1>4. UNCHANGED <<alive, index, app, enabled>>
  BY DEF FlushQueue, ctrl
<1> QED
  BY <1>2, <1>3, <1>4, DestroyQuiet

LEMMA DisableBeginDestroy ==
  ASSUME IInv, NEW t \in Threads, DisableBegin(t)
  PROVE  DestroyInv'
<1>1. PICK c : c = Top(t).c
  OBVIOUS
<1>2. Runs(t, "disable") /\ "disable" \in Control
  BY <1>1, DisableBeginIs
<1>3. ~Idle(t) /\ Top(t) \in Frames(t) /\ Top(t).c = c /\ c \in Conns
  BY <1>1, <1>2, RunsIs
<1>4. PICK A : StackTo(t, A) /\ (A # {} \/ ~enabled[c])
  <2>1. CASE enabled[c]
    <3>1. Stacks(t, {Do("stop in", c)} \cup Below(t))
      BY <1>1, <2>1, DisableBeginIs
    <3>2. PICK B : StackTo(t, B) /\ B = {Do("stop in", c)} \cup Below(t)
      BY <3>1 DEF Stacks
    <3> QED
      BY <3>2
  <2>2. CASE ~enabled[c]
    BY <1>1, <2>2, DisableBeginIs DEF Stacks
  <2> QED
    BY <2>1, <2>2
<1>5. UNCHANGED <<alive, index, app, enabled>>
  BY DEF DisableBegin, ctrl
<1>6. t = "app" /\ A = {} => ~enabled'[index - 1]
  BY <1>3, <1>4, <1>5 DEF IInv, PhaseInv
<1> QED
  BY <1>3, <1>4, <1>5, <1>6, DestroyThread

LEMMA PortStopDestroy ==
  ASSUME IInv, NEW t \in Threads, NEW k, NEW p, NEW n, PortStop(t, k, p, n), NEW c, c = Top(t).c,
         \/ k = "stop in" /\ p = In(c) /\ n = "wait in"
         \/ k = "stop out" /\ p = Out(c) /\ n = "wait out"
         \/ k = "undo out" /\ p = Out(c) /\ n = "wait undo"
  PROVE  DestroyInv'
<1>1. PICK A : StackTo(t, A) /\ A = {Do(n, c)} \cup Below(t)
  BY PortStopIs DEF Stacks
<1>2. UNCHANGED <<alive, index, app, enabled>> /\ ~Idle(t)
  BY DEF PortStop, ctrl, Runs
<1>3. A # {}
  BY <1>1
<1> QED
  BY <1>1, <1>2, <1>3, DestroyQuiet

LEMMA PortEmptyDestroy ==
  ASSUME IInv, NEW t \in Threads, NEW k, NEW p, NEW next, PortEmpty(t, k, p, next),
         NEW c, c = Top(t).c,
         \/ k = "wait in" /\ p = In(c) /\ next = <<Do("stop out", c)>>
         \/ k = "wait out" /\ p = Out(c) /\ next = <<Do("flush", c)>>
         \/ k = "wait undo" /\ p = Out(c) /\ next = <<>>
  PROVE  DestroyInv'
<1>1. UNCHANGED <<alive, index, app, enabled>> /\ ~Idle(t) /\ Top(t).k = k
  BY DEF PortEmpty, ctrl, Runs
<1>2. CASE k = "wait undo"
  <2>1. PICK A : StackTo(t, A)
    BY <1>2, PortEmptyIs DEF Stacks
  <2>2. Top(t).k \in Starting
    BY <1>1, <1>2 DEF Starting
  <2> QED
    BY <1>1, <2>1, <2>2, DestroyQuiet
<1>3. CASE k # "wait undo"
  <2>1. PICK n : Stacks(t, {Do(n, c)} \cup Below(t))
    BY <1>3, PortEmptyIs
  <2>2. PICK A : StackTo(t, A) /\ A = {Do(n, c)} \cup Below(t)
    BY <2>1 DEF Stacks
  <2>3. A # {}
    BY <2>2
  <2> QED
    BY <1>1, <2>2, <2>3, DestroyQuiet
<1> QED
  BY <1>2, <1>3

LEMMA FlushDoneDestroy ==
  ASSUME IInv, NEW t \in Threads, FlushDone(t)
  PROVE  DestroyInv'
<1>1. PICK c : c = Top(t).c
  OBVIOUS
<1>2. Runs(t, "flush") /\ "flush" \in Control
  BY <1>1, FlushDoneIs
<1>3. ~Idle(t) /\ Top(t) \in Frames(t) /\ Top(t).c = c /\ c \in Conns
  BY <1>1, <1>2, RunsIs
<1>4. PICK A : StackTo(t, A)
  BY <1>1, FlushDoneIs DEF Stacks
<1>5. UNCHANGED <<alive, index, app>> /\ enabled' = [enabled EXCEPT ![c] = FALSE]
  BY <1>1 DEF FlushDone, ctrl
<1>6. enabled \in [Conns -> BOOLEAN]
  BY DEF IInv, Types
<1>7. t = "app" => ~enabled'[index - 1]
  BY <1>3, <1>5, <1>6 DEF IInv, PhaseInv
<1> QED
  BY <1>3, <1>4, <1>5, <1>6, <1>7, DestroyThread

LEMMA EnableDestroy ==
  ASSUME IInv, NEW t \in Threads,
         \/ EnableBegin(t) \/ StartOut(t) \/ StartIn(t) \/ StartPortFails(t)
  PROVE  DestroyInv'
<1>1. PICK c : c = Top(t).c
  OBVIOUS
<1>2. ~Idle(t) /\ Top(t).k \in Starting \cup {"enable"} /\ UNCHANGED <<alive, index, app>>
  BY DEF EnableBegin, StartOut, StartIn, StartPortFails, StartFails, Runs, Starting, ctrl
<1>3. app # "destroying"
  BY <1>2, NothingStarts, TopIs DEF IInv
<1>4. PICK A : StackTo(t, A)
  <2>1. CASE EnableBegin(t)
    <3>1. Stacks(t, {}) \/ Stacks(t, {Do("start out", c)})
      BY <1>1, <2>1, EnableBeginIs
    <3> QED
      BY <3>1 DEF Stacks
  <2>2. CASE StartOut(t)
    BY <1>1, <2>2, StartOutIs DEF Stacks
  <2>3. CASE StartIn(t)
    BY <1>1, <2>3, StartInIs DEF Stacks
  <2>4. CASE StartPortFails(t)
    <3>1. CASE StartFails(t, "start out", Out(c), <<Do("failed", c)>>)
      <4>1. Stacks(t, {Do("failed", c)})
        BY <1>1, <3>1, StartFailsIs
      <4> QED
        BY <4>1 DEF Stacks
    <3>2. CASE StartFails(t, "start in", In(c), <<Do("undo out", c), Do("failed", c)>>)
      <4>1. Stacks(t, {Do("undo out", c), Do("failed", c)})
        BY <1>1, <3>2, StartFailsIs
      <4> QED
        BY <4>1 DEF Stacks
    <3> QED
      BY <1>1, <2>4, <3>1, <3>2 DEF StartPortFails
  <2> QED
    BY <2>1, <2>2, <2>3, <2>4
<1> QED
  BY <1>2, <1>3, <1>4, DestroyThread

\* What DestroyInv says when nothing has been destroyed and nothing is to be.
LEMMA DestroyNot ==
  ASSUME IInv, app # "destroying", app' # "destroying", alive' = alive
  PROVE  DestroyInv'
BY DEF IInv, DestroyInv

LEMMA EnableFailedDestroy ==
  ASSUME IInv, NEW t \in Threads, EnableFailed(t)
  PROVE  DestroyInv'
<1>1. ~Idle(t) /\ Top(t).k \in Starting
  BY DEF EnableFailed, Runs, Starting
<1>2. app # "destroying"
  BY <1>1, NothingStarts, TopIs DEF IInv
<1>3. app' # "destroying" /\ alive' = alive
  BY <1>2 DEF EnableFailed
<1> QED
  BY <1>2, <1>3, DestroyNot

LEMMA WorkerDestroy ==
  ASSUME IInv, Worker
  PROVE  DestroyInv'
<1>1. alive' = alive /\ app' = app
  BY DEF Worker, WorkerWake, SendEmpty, EmptySent, NextEmpties, TakeFull, NextFulls, EndPass
<1>2. work.at # "none"
  <2>1. EmptySent => work.at = "sending"
    <3>1. PICK c : c = Top("worker").c
      OBVIOUS
    <3>2. PICK h : h = Top("worker").b
      OBVIOUS
    <3> QED
      BY <3>1, <3>2, EmptySentIs
  <2> QED
    BY <2>1 DEF Worker, WorkerWake, SendEmpty, NextEmpties, TakeFull, NextFulls, EndPass, At
<1>3. app # "destroying"
  BY <1>2 DEF IInv, PhaseInv
<1> QED
  BY <1>1, <1>3, DestroyNot

LEMMA ClientDestroy ==
  ASSUME IInv, ClientOwn
  PROVE  DestroyInv'
<1>1. stack' = stack /\ enabled' = enabled
  BY ClientTypes
<1>2. Frames("app")' = Frames("app") /\ (Idle("app")' <=> Idle("app"))
  BY <1>1, StackSame, PortIs DEF IInv, Idle
<1>3. Idle("app") => Frames("app") = {}
  BY TopIs, PortIs DEF IInv
<1>4. CASE GraphDestroy
  <2>1. app' = "destroying" /\ index' = 1 /\ alive' = alive /\ \A c \in Conns : alive[c]
    BY <1>4 DEF GraphDestroy
  <2> QED
    BY <2>1 DEF DestroyInv
<1>5. CASE DestroyPool
  <2>1. /\ app = "destroying" /\ Idle("app") /\ index > 1 /\ app' = app /\ index' = index
        /\ alive' = [alive EXCEPT ![index - 1] = FALSE]
    BY <1>5 DEF DestroyPool
  <2>2. ~enabled[index - 1] /\ Frames("app") = {} /\ index \in Nat /\ alive \in [Conns -> BOOLEAN]
    BY <1>3, <2>1, ConnAssumption DEF IInv, DestroyInv, Types
  <2>3. ASSUME NEW c \in Conns, ~alive'[c]
        PROVE  app = "destroying" /\ ~enabled[c] /\ c < index
    BY <2>1, <2>2, <2>3 DEF IInv, DestroyInv
  <2>4. app' = "destroying" /\ Idle("app")' /\ Frames("app")' = {}
    BY <1>2, <2>1, <2>2
  <2> QED
    BY <1>1, <2>1, <2>2, <2>3, <2>4 DEF DestroyInv
<1>6. CASE ~GraphDestroy /\ ~DestroyPool
  <2>1. app # "destroying" /\ app' # "destroying" /\ alive' = alive
    BY <1>6 DEF ClientOwn, GraphEnable, EnableEnds, GraphDisable, Join, DisableEnds
  <2> QED
    BY <2>1, DestroyNot
<1> QED
  BY <1>4, <1>5, <1>6

LEMMA EachDestroy ==
  ASSUME IInv, EnableNext \/ DisableNext \/ DestroyNext
  PROVE  DestroyInv'
<1>1. PICK call, k : /\ Each(call, k) /\ k \in {"enable", "disable"}
                     /\ call = "destroying" => (index > 1 => ~alive[index - 1])
  BY DEF EnableNext, DisableNext, DestroyNext
<1>2. app' = app /\ alive' = alive /\ enabled' = enabled /\ index' = index + 1 /\ app = call
  BY <1>1 DEF Each
<1>3. CASE app # "destroying"
  BY <1>2, <1>3, DestroyNot
<1>4. CASE app = "destroying"
  <2>1. PICK A : StackTo("app", A) /\ A = {Do(k, index)}
    BY <1>1, EachIs DEF Stacks
  <2>2. Frames("app")' # {} /\ ~Idle("app")' /\ Idle("app")
    BY <1>1, <2>1, PortIs, IdleIs DEF StackTo, Each
  <2>3. ASSUME NEW c \in Conns, ~alive[c] PROVE ~enabled[c] /\ c < index /\ index \in Nat
    BY <2>3, ConnAssumption DEF IInv, DestroyInv, Types
  <2> QED
    BY <1>2, <1>4, <2>2, <2>3 DEF DestroyInv, Conns
<1> QED
  BY <1>3, <1>4

LEMMA EventDestroy ==
  ASSUME IInv, NEW c \in Conns, NEW t \in Threads,
         EventBack(c) \/ EventTest(c) \/ EventCall(t)
  PROVE  DestroyInv'
<1>1. UNCHANGED <<alive, enabled, app, index>>
  BY DEF EventBack, EventTest, EventCall, ctrl
<1>2. CASE EventBack(c)
  <2>1. stack' = stack
    BY <1>2 DEF EventBack
  <2>2. Frames("app")' = Frames("app") /\ (Idle("app")' <=> Idle("app"))
    BY <2>1, StackSame, PortIs DEF IInv, Idle
  <2> QED
    BY <1>1, <2>2 DEF IInv, DestroyInv
<1>3. CASE EventTest(c)
  <2>1. PICK u \in CompThreads : u \in Threads /\ Stacks(u, {Do("event", c)})
    BY <1>3, EventTestIs
  <2>2. PICK A : StackTo(u, A) /\ A = {Do("event", c)}
    BY <2>1 DEF Stacks
  <2>3. A # {}
    BY <2>2
  <2> QED
    BY <1>1, <2>1, <2>2, <2>3, DestroyQuiet
<1>4. CASE EventCall(t)
  <2>1. t \in CompThreads
    BY <1>4, EventCallIs
  <2>2. PICK d : d = Top(t).c
    OBVIOUS
  <2>3. PICK A : StackTo(t, A) /\ A = {Cb(d)}
    BY <1>4, <2>2, EventCallIs DEF Stacks
  <2>4. A # {}
    BY <2>3
  <2> QED
    BY <1>1, <2>1, <2>3, <2>4, DestroyQuiet
<1> QED
  BY <1>2, <1>3, <1>4

-----------------------------------------------------------------------------
\* The worker does not sleep on work: how many callbacks of a connection there are.
LEMMA ThreadsAre == IsFiniteSet(Threads)
<1>1. IsFiniteSet({"app"})
  BY FS_Singleton
<1>2. IsFiniteSet({"app"} \cup {"worker"})
  BY <1>1, FS_AddElement
<1>3. {"app"} \cup {"worker"} = {"app", "worker"}
  OBVIOUS
<1> QED
  BY <1>2, <1>3, ThreadAssumption, FS_Union DEF Threads

LEMMA CallsIs ==
  ASSUME IInv, NEW t \in Threads, NEW A, StackTo(t, A), NEW c
  PROVE  /\ Cardinality(Calls(c)) \in Nat
         /\ t \in Calls(c) <=> ~Idle(t) /\ Top(t) = Cb(c)
         /\ Cb(c) \in A /\ t \notin Calls(c) =>
              Calls(c)' # {} /\ Cardinality(Calls(c)') = Cardinality(Calls(c)) + 1
         /\ Cb(c) \notin A /\ t \in Calls(c) => Cardinality(Calls(c)') = Cardinality(Calls(c)) - 1
         /\ (Cb(c) \in A <=> t \in Calls(c)) => Calls(c)' = Calls(c)
<1>1. IsFiniteSet(Threads) /\ Calls(c) \subseteq Threads
  BY ThreadsAre DEF Calls
<1>2. IsFiniteSet(Calls(c))
  BY <1>1, FS_Subset
<1>3. t \in Calls(c) <=> ~Idle(t) /\ Top(t) = Cb(c)
  <2>1. Cb(c).k = "callback"
    BY DEF Cb, Frame
  <2>2. CASE Idle(t)
    BY <2>2, TopIs DEF Calls, IInv
  <2>3. CASE ~Idle(t)
    <3>1. Frames(t) = {Top(t)} \cup Below(t) /\ \A f \in Below(t) : f.k # "callback"
      BY <2>3, TopIs, BelowNot DEF IInv
    <3> QED
      BY <2>1, <2>3, <3>1 DEF Calls
  <2> QED
    BY <2>2, <2>3
<1>4. /\ t \in Calls(c)' <=> Cb(c) \in A
      /\ \A u \in Threads \ {t} : u \in Calls(c)' <=> u \in Calls(c)
      /\ Calls(c)' \subseteq Threads
  BY DEF StackTo, Calls
<1>5. PICK S, R : S = Calls(c) /\ R = Calls(c)'
  OBVIOUS
<1>6. /\ t \in R <=> Cb(c) \in A
      /\ \A u \in Threads \ {t} : u \in R <=> u \in S
      /\ R \subseteq Threads /\ S \subseteq Threads /\ IsFiniteSet(S)
      /\ t \in S <=> ~Idle(t) /\ Top(t) = Cb(c)
  BY <1>1, <1>2, <1>3, <1>4, <1>5
<1>7. Cb(c) \in A /\ t \notin S => R = S \cup {t} /\ Cardinality(R) = Cardinality(S) + 1
  <2>1. Cb(c) \in A /\ t \notin S => R = S \cup {t}
    BY <1>6
  <2> QED
    BY <1>6, <2>1, CountIs
<1>8. Cb(c) \notin A /\ t \in S => Cardinality(R) = Cardinality(S) - 1
  <2>1. Cb(c) \notin A /\ t \in S => R = S \ {t}
    BY <1>6
  <2> QED
    BY <1>6, <2>1, CountIs
<1>9. (Cb(c) \in A <=> t \in S) => R = S
  BY <1>6
<1>10. Cardinality(S) \in Nat
  BY <1>6, CountIs
<1> QED
  BY <1>5, <1>6, <1>7, <1>8, <1>9, <1>10

LEMMA CallsNot ==
  ASSUME IInv, NEW t \in Threads, ~Idle(t) => Top(t).k # "callback"
  PROVE  \A c : t \notin Calls(c)
<1>1. \A f \in Frames(t) : f.k # "callback"
  <2>1. CASE Idle(t)
    BY <2>1, TopIs DEF IInv
  <2>2. CASE ~Idle(t)
    BY <2>2, TopIs, BelowNot DEF IInv
  <2> QED
    BY <2>1, <2>2
<1>2. \A c : Cb(c).k = "callback"
  BY DEF Cb, Frame
<1> QED
  BY <1>1, <1>2 DEF Calls

\* A step of anybody but the worker: what is pending stays so, and what comes to
\* wait in a queue is pending.
LEMMA WakeKeeps ==
  ASSUME IInv, NEW c \in Conns, UNCHANGED <<work, current>>, stop => stop', app' = "on" => app = "on",
         on'[Out(c)] => on[Out(c)], c \in refused => c \in refused', c \in skipped => c \in skipped',
         c \notin Direct /\ connq'[c] # <<>> => connq[c] # <<>> \/ Pending(c)',
         poolq'[c] # <<>> => poolq[c] # <<>> \/ Pending(c)',
         Pending(c) => Pending(c)',
         c \in Direct => Len(connq'[c]) <= Cardinality(Calls(c)')
  PROVE  Wakes(c)'
<1>1. Wakes(c) /\ (Again' <=> Again) /\ (ToVisit(c)' <=> ToVisit(c))
  BY DEF IInv, WakeInv, Again, ToVisit, Visit
<1> QED
  BY <1>1 DEF Wakes

\* The semaphore has been posted.
LEMMA WakePost ==
  ASSUME NEW c, sema' > 0, c \in Direct => Len(connq'[c]) <= Cardinality(Calls(c)')
  PROVE  Wakes(c)'
BY DEF Wakes, Pending

LEMMA PostIs ==
  ASSUME IInv, Post
  PROVE  sema' > 0
BY BoundAssumption DEF Post, IInv, Types

\* Nothing of what is pending has been touched.
LEMMA WakeSame ==
  ASSUME IInv, NEW c \in Conns, UNCHANGED <<work, current, sema>>, stop => stop',
         app' = "on" => app = "on", on'[Out(c)] => on[Out(c)], c \in refused => c \in refused', c \in skipped => c \in skipped',
         connq'[c] = connq[c], poolq'[c] # <<>> => poolq[c] # <<>>, Calls(c)' = Calls(c)
  PROVE  Wakes(c)'
<1>1. Pending(c) => Pending(c)'
  BY DEF Pending
<1>2. c \in Direct => Len(connq[c]) <= Cardinality(Calls(c))
  BY DEF IInv, WakeInv, Wakes
<1>3. c \in Direct => Len(connq'[c]) <= Cardinality(Calls(c)')
  BY <1>2
<1> QED
  BY <1>1, <1>3, WakeKeeps

\* A step without a callback.
LEMMA WakeQuiet ==
  ASSUME IInv, NEW t \in Threads, NEW A, StackTo(t, A), \A f \in A : f \in Frames(t) \/ f.k # "callback",
         ~Idle(t) => Top(t).k # "callback",
         UNCHANGED <<work, current, sema, connq, poolq>>, stop => stop',
         app' = "on" => app = "on", \A c \in Conns : on'[Out(c)] => on[Out(c)],
         refused \subseteq refused', skipped \subseteq skipped'
  PROVE  WakeInv'
<1>1. \A c : t \notin Calls(c)
  BY CallsNot
<1>2. ASSUME NEW c \in Conns PROVE Wakes(c)'
  <2>1. Cb(c).k = "callback"
    BY DEF Cb, Frame
  <2>2. Cb(c) \notin A
    BY <1>1, <2>1 DEF Calls
  <2>3. Calls(c)' = Calls(c)
    BY <1>1, <2>2, CallsIs
  <2> QED
    BY <2>3, WakeSame
<1> QED
  BY <1>2 DEF WakeInv

LEMMA VisitFrom ==
  ASSUME NEW m \in 0..(NumConns - 1), NEW c \in Conns
  PROVE  \E i \in 1..NumConns : ((m + i - 1) % NumConns) + 1 = c
<1>1. NumConns \in Nat \ {0} /\ c \in 1..NumConns
  BY ConnAssumption DEF Conns
<1>2. (c - 1) % NumConns = c - 1 /\ (c - 1 + NumConns) % NumConns = c - 1
  BY <1>1
<1>3. CASE c > m
  <2>1. PICK i \in 1..NumConns : m + i - 1 = c - 1
    <3>1. c - m \in 1..NumConns /\ m + (c - m) - 1 = c - 1
      BY <1>1, <1>3
    <3> QED
      BY <3>1
  <2>2. ((m + i - 1) % NumConns) + 1 = c
    BY <1>1, <1>2, <2>1
  <2> QED
    BY <2>2
<1>4. CASE ~(c > m)
  <2>1. PICK i \in 1..NumConns : m + i - 1 = c - 1 + NumConns
    <3>1. c - m + NumConns \in 1..NumConns /\ m + (c - m + NumConns) - 1 = c - 1 + NumConns
      BY <1>1, <1>4
    <3> QED
      BY <3>1
  <2>2. ((m + i - 1) % NumConns) + 1 = c
    BY <1>1, <1>2, <2>1
  <2> QED
    BY <2>2
<1> QED
  BY <1>3, <1>4

LEMMA WakeCall ==
  ASSUME IInv, NEW t \in Threads, NEW k \in Control, Runs(t, k), NEW A, StackTo(t, A),
         \A f \in A : f \in Below(t) \/ f.k \in Control,
         UNCHANGED <<work, current, sema, connq, poolq, stop, refused, skipped>>,
         app' = "on" => app = "on", \A c \in Conns : on'[Out(c)] => on[Out(c)]
  PROVE  WakeInv'
<1>1. ~Idle(t) /\ Top(t).k = k /\ Top(t).k # "callback" /\ Frames(t) = {Top(t)} \cup Below(t)
  BY KindIs, TopIs DEF Runs, IInv
<1>2. \A f \in A : f \in Frames(t) \/ f.k # "callback"
  BY <1>1, KindIs
<1> QED
  BY <1>1, <1>2, WakeQuiet

LEMMA DisableBeginWake ==
  ASSUME IInv, NEW t \in Threads, DisableBegin(t)
  PROVE  WakeInv'
<1>1. PICK c : c = Top(t).c
  OBVIOUS
<1>2. Runs(t, "disable") /\ "disable" \in Control
  BY <1>1, DisableBeginIs
<1>3. PICK A : StackTo(t, A) /\ A \subseteq {Do("stop in", c)} \cup Below(t)
  BY <1>1, DisableBeginIs DEF Stacks
<1>4. ASSUME NEW f \in A PROVE f \in Below(t) \/ f.k \in Control
  <2>1. f \in Below(t) \/ f = Do("stop in", c)
    BY <1>3
  <2>2. Do("stop in", c).k = "stop in"
    BY DEF Do, Frame
  <2> QED
    BY <2>1, <2>2 DEF Control, Disabling
<1>5. UNCHANGED <<work, current, sema, connq, poolq, stop, refused, skipped>> /\ app' = app /\ on' = on
  BY DEF DisableBegin, flow, ctrl, history
<1> QED
  BY <1>2, <1>3, <1>4, <1>5, WakeCall

LEMMA PortStopWake ==
  ASSUME IInv, NEW t \in Threads, NEW k, NEW p, NEW n, PortStop(t, k, p, n), NEW c, c = Top(t).c,
         \/ k = "stop in" /\ p = In(c) /\ n = "wait in"
         \/ k = "stop out" /\ p = Out(c) /\ n = "wait out"
         \/ k = "undo out" /\ p = Out(c) /\ n = "wait undo"
  PROVE  WakeInv'
<1>1. k \in Control /\ n \in Control /\ p \in Ports /\ Runs(t, k)
  BY PortStopIs DEF PortStop
<1>2. PICK A : StackTo(t, A) /\ A = {Do(n, c)} \cup Below(t)
  BY PortStopIs DEF Stacks
<1>3. ASSUME NEW f \in A PROVE f \in Below(t) \/ f.k \in Control
  <2>1. f \in Below(t) \/ f = Do(n, c)
    BY <1>2
  <2>2. Do(n, c).k = n
    BY DEF Do, Frame
  <2> QED
    BY <1>1, <2>1, <2>2
<1>4. /\ UNCHANGED <<work, current, sema, connq, poolq, stop, refused, skipped>> /\ app' = app
      /\ on' = [on EXCEPT ![p] = FALSE] /\ on \in [Ports -> BOOLEAN]
  BY DEF PortStop, ctrl, history, IInv, Types
<1>5. \A d \in Conns : on'[Out(d)] => on[Out(d)]
  BY <1>4, EndIs
<1> QED
  BY <1>1, <1>2, <1>3, <1>4, <1>5, WakeCall

LEMMA PortEmptyWake ==
  ASSUME IInv, NEW t \in Threads, NEW k, NEW p, NEW next, PortEmpty(t, k, p, next),
         NEW c, c = Top(t).c,
         \/ k = "wait in" /\ p = In(c) /\ next = <<Do("stop out", c)>>
         \/ k = "wait out" /\ p = Out(c) /\ next = <<Do("flush", c)>>
         \/ k = "wait undo" /\ p = Out(c) /\ next = <<>>
  PROVE  WakeInv'
<1>1. k \in Control /\ Runs(t, k)
  BY PortEmptyIs DEF PortEmpty
<1>2. PICK n : (k = "wait in" /\ n = "stop out") \/ (k # "wait in" /\ n = "flush")
  OBVIOUS
<1>3. PICK A : StackTo(t, A) /\ A \subseteq {Do(n, c)} \cup Below(t)
  BY <1>2, PortEmptyIs DEF Stacks
<1>4. ASSUME NEW f \in A PROVE f \in Below(t) \/ f.k \in Control
  <2>1. f \in Below(t) \/ f = Do(n, c)
    BY <1>3
  <2>2. Do(n, c).k = n
    BY DEF Do, Frame
  <2> QED
    BY <1>2, <2>1, <2>2 DEF Control, Disabling
<1>5. UNCHANGED <<work, current, sema, connq, poolq, stop, refused, skipped>> /\ app' = app /\ on' = on
  BY DEF PortEmpty, flow, ctrl, history
<1> QED
  BY <1>1, <1>3, <1>4, <1>5, WakeCall

LEMMA FlushDoneWake ==
  ASSUME IInv, NEW t \in Threads, FlushDone(t)
  PROVE  WakeInv'
<1>1. PICK c : c = Top(t).c
  OBVIOUS
<1>2. Runs(t, "flush") /\ "flush" \in Control
  BY <1>1, FlushDoneIs
<1>3. PICK A : StackTo(t, A) /\ A = Below(t)
  BY <1>1, FlushDoneIs DEF Stacks
<1>4. UNCHANGED <<work, current, sema, connq, poolq, stop, refused, skipped>> /\ app' = app /\ on' = on
  BY DEF FlushDone, flow, ctrl, history
<1> QED
  BY <1>2, <1>3, <1>4, WakeCall

LEMMA StartInWake ==
  ASSUME IInv, NEW t \in Threads, StartIn(t)
  PROVE  WakeInv'
<1>1. PICK c : c = Top(t).c
  OBVIOUS
<1>2. Runs(t, "start in") /\ "start in" \in Control /\ c \in Conns
  BY <1>1, StartInIs
<1>3. PICK A : StackTo(t, A) /\ A = {}
  BY <1>1, StartInIs DEF Stacks
<1>4. /\ UNCHANGED <<work, current, sema, connq, poolq, stop, refused, skipped>> /\ app' = app
      /\ on' = [on EXCEPT ![In(c)] = TRUE]
  BY <1>1 DEF StartIn, ctrl, history
<1>5. \A d \in Conns : on'[Out(d)] => on[Out(d)]
  <2>1. Types
    BY DEF IInv
  <2> QED
    BY <1>2, <1>4, <2>1, PortSetIs
<1>6. /\ UNCHANGED <<work, current, sema, connq, poolq, stop, refused, skipped>>
      /\ app' = "on" => app = "on"
      /\ \A f \in A : f \in Below(t) \/ f.k \in Control
  BY <1>3, <1>4
<1> QED
  BY <1>2, <1>3, <1>5, <1>6, WakeCall

LEMMA StartFailsWake ==
  ASSUME IInv, NEW t \in Threads, StartPortFails(t)
  PROVE  WakeInv'
<1>1. PICK c : c = Top(t).c
  OBVIOUS
<1>2. PICK k \in Control : Runs(t, k)
  BY DEF StartPortFails, StartFails, Control, Starting
<1>3. PICK A : StackTo(t, A) /\ A \subseteq {Do("undo out", c), Do("failed", c)}
  <2>1. Stacks(t, {Do("failed", c)}) \/ Stacks(t, {Do("undo out", c), Do("failed", c)})
    <3>1. CASE StartFails(t, "start out", Out(c), <<Do("failed", c)>>)
      BY <1>1, <3>1, StartFailsIs
    <3>2. CASE StartFails(t, "start in", In(c), <<Do("undo out", c), Do("failed", c)>>)
      BY <1>1, <3>2, StartFailsIs
    <3> QED
      BY <1>1, <3>1, <3>2 DEF StartPortFails
  <2> QED
    BY <2>1 DEF Stacks
<1>4. ASSUME NEW f \in A PROVE f.k \in Control
  <2>1. f = Do("undo out", c) \/ f = Do("failed", c)
    BY <1>3
  <2>2. Do("undo out", c).k = "undo out" /\ Do("failed", c).k = "failed"
    BY DEF Do, Frame
  <2> QED
    BY <2>1, <2>2 DEF Control, Starting
<1>5. UNCHANGED <<work, current, sema, connq, poolq, stop, refused, skipped>> /\ app' = app /\ on' = on
  BY DEF StartPortFails, StartFails, flow, ctrl, history
<1> QED
  BY <1>2, <1>3, <1>4, <1>5, WakeCall

LEMMA EnableFailedWake ==
  ASSUME IInv, NEW t \in Threads, EnableFailed(t)
  PROVE  WakeInv'
<1>1. PICK c : c = Top(t).c
  OBVIOUS
<1>2. Runs(t, "failed") /\ "failed" \in Control
  BY <1>1, EnableFailedIs
<1>3. PICK A : StackTo(t, A) /\ A = {}
  BY <1>1, EnableFailedIs DEF Stacks
<1>4. /\ UNCHANGED <<work, current, sema, connq, poolq, stop, refused, skipped>> /\ on' = on
      /\ app' = "on" => app = "on"
  BY DEF EnableFailed, flow, history
<1> QED
  BY <1>2, <1>3, <1>4, WakeCall

LEMMA ReturnDoneWake ==
  ASSUME IInv, NEW t \in Threads, ReturnDone(t) \/ ProcessSend(t) \/ PassEvent(t)
  PROVE  WakeInv'
<1>1. ~Idle(t) /\ Top(t).k # "callback"
  BY DEF ReturnDone, ProcessSend, PassEvent, ForwardEvent, DropEvent, Runs
<1>2. PICK A : StackTo(t, A) /\ A = Below(t)
  BY ReturnDoneIs, ProcessSendIs, PassEventIs DEF Stacks
<1>3. UNCHANGED <<work, current, sema, connq, poolq, stop, refused, skipped>> /\ app' = app /\ on' = on
  BY DEF ReturnDone, ProcessSend, PassEvent, ForwardEvent, DropEvent, flow, ctrl, history
<1>4. \A f \in A : f \in Frames(t)
  BY <1>1, <1>2, TopIs DEF IInv
<1> QED
  BY <1>1, <1>2, <1>3, <1>4, WakeQuiet

LEMMA ProcessEventWake ==
  ASSUME IInv, ~rash', NEW t \in Threads, ProcessEvent(t)
  PROVE  WakeInv'
<1>1. PICK c : c = Top(t).c
  OBVIOUS
<1>2. ~Idle(t) /\ Top(t).k # "callback"
  BY DEF ProcessEvent, Runs
<1>3. PICK A : StackTo(t, A) /\ A \subseteq {Do("disable", c), Do("enable", c)}
  <2>1. Stacks(t, {Do("disable", c)}) \/ Stacks(t, {Do("disable", c), Do("enable", c)})
    BY <1>1, ProcessEventIs
  <2> QED
    BY <2>1 DEF Stacks
<1>4. ASSUME NEW f \in A PROVE f.k # "callback"
  <2>1. f = Do("disable", c) \/ f = Do("enable", c)
    BY <1>3
  <2> QED
    BY <2>1 DEF Do, Frame
<1>5. UNCHANGED <<work, current, sema, connq, poolq, stop, refused, skipped>> /\ app' = app /\ on' = on
  BY DEF ProcessEvent, ctrl, history
<1> QED
  BY <1>2, <1>3, <1>4, <1>5, WakeQuiet

\* A callback is made: what it may see to is pending until it has run.
LEMMA ReturnBufferWake ==
  ASSUME IInv, NEW t \in Threads, NEW p \in Ports, NEW h, ReturnBuffer(t, p, h),
         \/ t \in CompThreads /\ Idle(t)
         \/ ~Idle(t) /\ Top(t).k \in Waiting /\ Top(t).c = p[1]
  PROVE  WakeInv'
<1>1. PICK c \in Conns : c = p[1]
  BY PortIs
<1>2. PICK A : StackTo(t, A) /\ A = {Cb(c), Frame(Returning(p), c, h)} \cup Frames(t)
  BY <1>1, ReturnBufferIs DEF Stacks
<1>3. /\ UNCHANGED <<work, current, sema, stop, app, refused, skipped>> /\ on' = on
      /\ \/ connq' = [connq EXCEPT ![c] = Append(@, h)] /\ poolq' = poolq
         \/ poolq' = [poolq EXCEPT ![c] = Append(@, h)] /\ connq' = connq
  BY <1>1 DEF ReturnBuffer, ctrl, history
<1>4. /\ h \in Headers /\ connq \in [Conns -> Seq(Headers \cup {Event})]
      /\ poolq \in [Conns -> Seq(Headers)]
  BY ReturnBufferIs DEF IInv, Types
<1>5. ~Idle(t) => Top(t).k # "callback"
  BY DEF Waiting
<1>6. \A d : t \notin Calls(d)
  BY <1>5, CallsNot
<1>7. ASSUME NEW d \in Conns PROVE Wakes(d)'
  <2>1. CASE d = c
    <3>1. Cb(d) \in A
      BY <1>2, <2>1
    <3>2. /\ Calls(d)' # {} /\ Cardinality(Calls(d)') = Cardinality(Calls(d)) + 1
          /\ Cardinality(Calls(d)) \in Nat
      BY <1>2, <1>6, <3>1, CallsIs
    <3>3. connq[d] \in Seq(Headers \cup {Event}) /\ Len(connq[d]) \in Nat
      BY <1>4, SeqIs
    <3>4. Len(connq'[d]) = Len(connq[d]) + 1 \/ (connq'[d] = connq[d] /\ Len(connq'[d]) = Len(connq[d]))
      <4>1. CASE connq' = [connq EXCEPT ![c] = Append(@, h)]
        <5>1. connq'[d] = Append(connq[d], h) /\ h \in Headers \cup {Event}
          BY <1>4, <2>1, <4>1
        <5> QED
          BY <3>3, <5>1, AddIs
      <4> QED
        BY <1>3, <4>1
    <3>5. d \in Direct => Len(connq[d]) <= Cardinality(Calls(d))
      BY DEF IInv, WakeInv, Wakes
    <3>6. d \in Direct => Len(connq'[d]) <= Cardinality(Calls(d)')
      BY <3>2, <3>3, <3>4, <3>5
    <3>7. d \notin Direct => Pending(d)'
      BY <3>2 DEF Pending
    <3>8. d \in Direct /\ connq' = connq => Pending(d)'
      BY <3>2, <3>3, <3>5 DEF Pending
    <3>9. Pending(d) => Pending(d)'
      BY <1>3, <3>2, <3>3, <3>4 DEF Pending
    <3>10. poolq'[d] # <<>> => poolq[d] # <<>> \/ Pending(d)'
      BY <1>3, <3>7, <3>8
    <3> QED
      BY <1>3, <3>6, <3>7, <3>9, <3>10, WakeKeeps
  <2>2. CASE d # c
    <3>1. Cb(d) \notin A
      BY <1>2, <1>6, <2>2 DEF Cb, Frame, Calls
    <3>2. Calls(d)' = Calls(d)
      BY <1>2, <1>6, <3>1, CallsIs
    <3>3. connq'[d] = connq[d] /\ poolq'[d] = poolq[d]
      BY <1>3, <1>4, <2>2
    <3> QED
      BY <1>3, <3>2, <3>3, WakeSame
  <2> QED
    BY <2>1, <2>2
<1> QED
  BY <1>7 DEF WakeInv

\* A callback is added to those of a connection, and nothing to its queue.
LEMMA WakeAdded ==
  ASSUME IInv, NEW t \in Threads, NEW A, StackTo(t, A), NEW c \in Conns, Cb(c) \in A,
         t \notin Calls(c), UNCHANGED <<work, current, sema, stop, app, on, refused, skipped>>,
         Len(connq'[c]) <= Len(connq[c]), Len(connq'[c]) \in Nat, Len(connq[c]) \in Nat
  PROVE  Wakes(c)'
<1>1. /\ Calls(c)' # {} /\ Cardinality(Calls(c)') = Cardinality(Calls(c)) + 1
      /\ Cardinality(Calls(c)) \in Nat
  BY CallsIs
<1>2. c \in Direct => Len(connq[c]) <= Cardinality(Calls(c))
  BY DEF IInv, WakeInv, Wakes
<1>3. Pending(c)'
  BY <1>1, <1>2 DEF Pending
<1>4. c \in Direct => Len(connq'[c]) <= Cardinality(Calls(c)')
  BY <1>1, <1>2
<1> QED
  BY <1>3, <1>4, WakeKeeps

LEMMA ProcessRefusedWake ==
  ASSUME IInv, NEW t \in Threads, ProcessRefused(t)
  PROVE  WakeInv'
<1>1. PICK c : c = Top(t).c
  OBVIOUS
<1>2. ~Idle(t) /\ Top(t).k = "process"
  BY DEF ProcessRefused, Runs
<1>3. c \in Conns
  BY <1>1, <1>2, TopIs DEF FrameType, IInv
<1>4. PICK A : StackTo(t, A) /\ A = {Cb(c)} \cup Below(t)
  BY <1>1, ProcessRefusedIs DEF Stacks
<1>5. /\ UNCHANGED <<work, current, sema, stop, app, on, refused, skipped>> /\ connq' = connq
      /\ poolq' = [poolq EXCEPT ![c] = Append(@, Top(t).b)]
      /\ poolq \in [Conns -> Seq(Headers)]
  BY <1>1 DEF ProcessRefused, ctrl, history, IInv, Types
<1>6. \A d : t \notin Calls(d)
  BY <1>2, CallsNot
<1>7. ASSUME NEW d \in Conns PROVE Wakes(d)'
  <2>1. CASE d = c
    <3>1. connq[d] \in Seq(Headers \cup {Event})
      BY DEF IInv, Types
    <3>2. Len(connq'[d]) = Len(connq[d]) /\ Len(connq[d]) \in Nat
      BY <1>5, <3>1, SeqIs
    <3>3. Cb(d) \in A
      BY <1>4, <2>1
    <3> QED
      BY <1>4, <1>5, <1>6, <3>2, <3>3, WakeAdded
  <2>2. CASE d # c
    <3>1. Cb(d) \notin A
      <4>1. Cb(d) # Cb(c)
        BY <2>2 DEF Cb, Frame
      <4>2. Cb(d) \notin Below(t)
        <5>1. Cb(d).k = "callback"
          BY DEF Cb, Frame
        <5> QED
          BY <1>2, <5>1, BelowNot DEF IInv
      <4> QED
        BY <1>4, <4>1, <4>2
    <3>2. Calls(d)' = Calls(d)
      BY <1>4, <1>6, <3>1, CallsIs
    <3>3. connq'[d] = connq[d] /\ poolq'[d] = poolq[d]
      BY <1>3, <1>5, <2>2
    <3> QED
      BY <1>5, <3>2, <3>3, WakeSame
  <2> QED
    BY <2>1, <2>2
<1> QED
  BY <1>7 DEF WakeInv

LEMMA FlushQueueWake ==
  ASSUME IInv, NEW t \in Threads, FlushQueue(t)
  PROVE  WakeInv'
<1>1. PICK c : c = Top(t).c
  OBVIOUS
<1>2. ~Idle(t) /\ Top(t).k = "flush" /\ c \in Conns /\ connq[c] # <<>>
  BY <1>1, FlushQueueIs DEF FlushQueue, Runs
<1>3. /\ UNCHANGED <<work, current, sema, stop, app, on, refused, skipped>>
      /\ connq' = [connq EXCEPT ![c] = Tail(@)]
      /\ connq \in [Conns -> Seq(Headers \cup {Event})] /\ poolq \in [Conns -> Seq(Headers)]
  BY <1>1 DEF FlushQueue, ctrl, history, IInv, Types
<1>4. connq[c] \in Seq(Headers \cup {Event}) /\ connq'[c] = Tail(connq[c])
  BY <1>2, <1>3
<1>5. Len(connq'[c]) = Len(connq[c]) - 1 /\ Len(connq'[c]) \in Nat /\ Len(connq[c]) \in Nat
  <2>1. Tail(connq[c]) \in Seq(Headers \cup {Event}) /\ Len(Tail(connq[c])) = Len(connq[c]) - 1
    BY <1>2, <1>4, TakeIs
  <2> QED
    BY <1>4, <2>1, SeqIs
<1>6. CASE Head(connq[c]) = Event
  <2>1. poolq' = poolq /\ StackTo(t, Frames(t))
    BY <1>1, <1>6, FlushQueueIs, StackStay DEF IInv
  <2>2. /\ Len(connq'[c]) <= Len(connq[c])
        /\ c \in Direct => Len(connq[c]) <= Cardinality(Calls(c))
    BY <1>2, <1>5 DEF IInv, WakeInv, Wakes
  <2>3. \A d : Calls(d)' = Calls(d)
    <3>1. stack' = stack
      BY <1>1, <1>6, FlushQueueIs
    <3> QED
      BY <3>1 DEF Calls, Frames
  <2>4. ASSUME NEW d \in Conns PROVE Wakes(d)'
    <3>1. CASE d = c
      <4>1. Cardinality(Calls(d)') = Cardinality(Calls(d)) /\ Cardinality(Calls(d)) \in Nat
        BY <2>1, <2>3, CallsIs
      <4>2. connq[d] # <<>> /\ (Pending(d) => Pending(d)')
        BY <1>2, <1>3, <1>5, <2>3, <3>1, <4>1 DEF Pending
      <4>3. d \in Direct => Len(connq'[d]) <= Cardinality(Calls(d)')
        BY <1>5, <2>2, <3>1, <4>1
      <4> QED
        BY <1>3, <2>1, <3>1, <4>2, <4>3, WakeKeeps
    <3>2. CASE d # c
      <4>1. connq'[d] = connq[d] /\ poolq'[d] = poolq[d]
        BY <1>2, <1>3, <2>1, <3>2
      <4> QED
        BY <1>3, <2>3, <4>1, WakeSame
    <3> QED
      BY <3>1, <3>2
  <2> QED
    BY <2>4 DEF WakeInv
<1>7. CASE Head(connq[c]) # Event
  <2>1. PICK A : StackTo(t, A) /\ A = {Cb(c)} \cup Frames(t)
    BY <1>1, <1>7, FlushQueueIs DEF Stacks
  <2>2. \A d : t \notin Calls(d)
    BY <1>2, CallsNot
  <2>3. poolq' = [poolq EXCEPT ![c] = Append(@, Head(connq[c]))]
    BY <1>1, <1>7, FlushQueueIs
  <2>4. ASSUME NEW d \in Conns PROVE Wakes(d)'
    <3>1. CASE d = c
      <4>1. Cb(d) \in A
        BY <2>1, <3>1
      <4>2. Len(connq'[d]) <= Len(connq[d]) /\ Len(connq'[d]) \in Nat /\ Len(connq[d]) \in Nat
        BY <1>5, <3>1
      <4> QED
        BY <1>3, <2>1, <2>2, <4>1, <4>2, WakeAdded
    <3>2. CASE d # c
      <4>1. Cb(d) \notin A
        BY <2>1, <2>2, <3>2 DEF Cb, Frame, Calls
      <4>2. Calls(d)' = Calls(d)
        BY <2>1, <2>2, <4>1, CallsIs
      <4>3. connq'[d] = connq[d] /\ poolq'[d] = poolq[d]
        BY <1>2, <1>3, <2>3, <3>2
      <4> QED
        BY <1>3, <4>2, <4>3, WakeSame
    <3> QED
      BY <3>1, <3>2
  <2> QED
    BY <2>4 DEF WakeInv
<1> QED
  BY <1>6, <1>7

LEMMA CallbackWake ==
  ASSUME IInv, ~rash', NEW t \in Threads, Callback(t)
  PROVE  WakeInv'
<1>1. PICK c : c = Top(t).c
  OBVIOUS
<1>2. ~Idle(t) /\ Top(t) = Cb(c) /\ c \in Conns
  BY <1>1, CallbackIs
<1>3. UNCHANGED <<work, current, stop, app, on, poolq, refused, skipped>>
  BY DEF Callback, ctrl, history
<1>4. connq \in [Conns -> Seq(Headers \cup {Event})]
  BY DEF IInv, Types
<1>5. PICK b : b = Head(connq[c])
  OBVIOUS
<1>6. PICK A : /\ StackTo(t, A) /\ A \subseteq {Frame("process", c, b)} \cup Below(t)
               /\ \/ c \in Direct /\ connq[c] # <<>> /\ sema' = sema
                     /\ connq' = [connq EXCEPT ![c] = Tail(@)]
                  \/ ~(c \in Direct /\ connq[c] # <<>>) /\ Post /\ connq' = connq
  <2>1. CASE c \in Direct /\ connq[c] # <<>>
    <3>1. /\ connq' = [connq EXCEPT ![c] = Tail(@)] /\ sema' = sema
          /\ Stacks(t, {Frame("process", c, b)} \cup Below(t))
      BY <1>1, <1>5, <2>1, CallbackIs
    <3> QED
      BY <2>1, <3>1 DEF Stacks
  <2>2. CASE ~(c \in Direct /\ connq[c] # <<>>)
    <3>1. Post /\ connq' = connq /\ Stacks(t, Below(t))
      BY <1>1, <2>2, CallbackIs
    <3> QED
      BY <2>2, <3>1 DEF Stacks
  <2> QED
    BY <2>1, <2>2
<1>7. \A d : Cb(d) \notin A
  <2>1. \A d : Cb(d).k = "callback"
    BY DEF Cb, Frame
  <2>2. Frame("process", c, b).k = "process"
    BY DEF Frame
  <2> QED
    BY <1>2, <1>6, <2>1, <2>2, BelowNot DEF IInv
<1>8. t \in Calls(c) /\ \A d \in Conns \ {c} : t \notin Calls(d)
  <2>1. \A d : Cb(d).c = d
    BY DEF Cb, Frame
  <2> QED
    BY <1>2, <1>6, <2>1, CallsIs
<1>9. /\ Cardinality(Calls(c)') = Cardinality(Calls(c)) - 1 /\ Cardinality(Calls(c)) \in Nat
      /\ \A d \in Conns \ {c} : Calls(d)' = Calls(d)
  BY <1>6, <1>7, <1>8, CallsIs
<1>10. \A d \in Direct \cap Conns : Len(connq[d]) <= Cardinality(Calls(d))
  BY DEF IInv, WakeInv, Wakes
<1>11. CASE c \in Direct /\ connq[c] # <<>>
  <2>1. sema' = sema /\ connq' = [connq EXCEPT ![c] = Tail(@)]
    BY <1>6, <1>11
  <2>2. /\ connq'[c] = Tail(connq[c]) /\ Len(connq'[c]) = Len(connq[c]) - 1
        /\ Len(connq[c]) \in Nat
    <3>1. connq[c] \in Seq(Headers \cup {Event}) /\ connq'[c] = Tail(connq[c])
      BY <1>2, <1>4, <2>1
    <3>2. Len(Tail(connq[c])) = Len(connq[c]) - 1 /\ Len(connq[c]) \in Nat
      BY <1>11, <3>1, TakeIs, SeqIs
    <3> QED
      BY <3>1, <3>2
  <2>3. Wakes(c)'
    <3>1. Len(connq'[c]) <= Cardinality(Calls(c)')
      BY <1>2, <1>9, <1>10, <1>11, <2>2
    <3>2. Pending(c) => Pending(c)'
      BY <1>9, <1>11, <2>1, <2>2 DEF Pending
    <3> QED
      BY <1>2, <1>3, <1>11, <3>1, <3>2, WakeKeeps
  <2>4. ASSUME NEW d \in Conns \ {c} PROVE Wakes(d)'
    <3>1. connq'[d] = connq[d] /\ poolq'[d] = poolq[d] /\ Calls(d)' = Calls(d)
      BY <1>3, <1>4, <1>9, <2>1
    <3> QED
      BY <1>3, <2>1, <3>1, WakeSame
  <2> QED
    BY <2>3, <2>4 DEF WakeInv
<1>12. CASE ~(c \in Direct /\ connq[c] # <<>>)
  <2>1. sema' > 0 /\ connq' = connq
    BY <1>6, <1>12, PostIs
  <2>2. ASSUME NEW d \in Conns PROVE Wakes(d)'
    <3>1. CASE d = c
      <4>1. c \in Direct => connq'[c] = <<>> /\ Len(connq'[c]) = 0
        BY <1>12, <2>1, ShortIs
      <4>2. c \in Direct => Len(connq'[c]) <= Cardinality(Calls(c)')
        <5>1. c \in Direct => Len(connq[c]) = 0
          BY <2>1, <4>1
        <5>2. Cardinality(Calls(c)') \in Nat
          <6>1. Cardinality(Calls(c)) # 0
            <7>1. IsFiniteSet(Threads) /\ Calls(c) \subseteq Threads
              BY ThreadsAre DEF Calls
            <7> QED
              BY <1>8, <7>1, FS_Subset, CountIs
          <6> QED
            BY <1>9, <6>1
        <5> QED
          BY <4>1, <5>2
      <4> QED
        BY <2>1, <3>1, <4>2, WakePost
    <3>2. CASE d # c
      <4>1. d \in Direct => Len(connq'[d]) <= Cardinality(Calls(d)')
        BY <1>9, <1>10, <2>1, <3>2
      <4> QED
        BY <2>1, <4>1, WakePost
    <3> QED
      BY <3>1, <3>2
  <2> QED
    BY <2>2 DEF WakeInv
<1> QED
  BY <1>11, <1>12

\* The semaphore is posted by the client, or with an event.
LEMMA PostWake ==
  ASSUME IInv, Post, stack' = stack,
         \A c \in Conns : c \in Direct => connq'[c] = connq[c]
  PROVE  WakeInv'
<1>1. ASSUME NEW c \in Conns PROVE Wakes(c)'
  <2>1. Calls(c)' = Calls(c)
    BY DEF Calls, Frames
  <2>2. c \in Direct => Len(connq[c]) <= Cardinality(Calls(c))
    BY DEF IInv, WakeInv, Wakes
  <2>3. c \in Direct => Len(connq'[c]) <= Cardinality(Calls(c)')
    BY <2>1, <2>2
  <2> QED
    BY <2>3, PostIs, WakePost
<1> QED
  BY <1>1 DEF WakeInv

LEMMA EventBackWake ==
  ASSUME IInv, NEW c \in Conns, EventBack(c)
  PROVE  WakeInv'
<1>1. /\ UNCHANGED <<work, current, sema, connq, poolq, stop, refused, skipped, stack>>
      /\ app' = app /\ on' = on
  BY DEF EventBack, ctrl, history
<1>2. ASSUME NEW d \in Conns PROVE Wakes(d)'
  <2>1. Calls(d)' = Calls(d)
    BY <1>1 DEF Calls, Frames
  <2> QED
    BY <1>1, <2>1, WakeSame
<1> QED
  BY <1>2 DEF WakeInv

LEMMA EventTestWake ==
  ASSUME IInv, NEW c \in Conns, EventTest(c)
  PROVE  WakeInv'
<1>1. PICK t \in CompThreads : t \in Threads /\ Idle(t) /\ Stacks(t, {Do("event", c)})
  BY EventTestIs
<1>2. PICK A : StackTo(t, A) /\ A = {Do("event", c)}
  BY <1>1 DEF Stacks
<1>3. Do("event", c).k # "callback"
  BY DEF Do, Frame
<1>4. \A f \in A : f.k # "callback"
  BY <1>2, <1>3
<1>5. /\ UNCHANGED <<work, current, sema, connq, poolq, stop, refused, skipped>>
      /\ app' = app /\ on' = on
  BY DEF EventTest, flow, ctrl, history
<1> QED
  BY <1>1, <1>2, <1>4, <1>5, WakeQuiet

LEMMA EventCallWake ==
  ASSUME IInv, NEW t \in Threads, EventCall(t)
  PROVE  WakeInv'
<1>1. PICK c : c = Top(t).c
  OBVIOUS
<1>2. /\ c \in Conns /\ ~Idle(t) /\ Top(t).k # "callback"
      /\ connq' = [connq EXCEPT ![c] = Append(@, Event)]
  BY <1>1, EventCallIs
<1>3. PICK A : StackTo(t, A) /\ A = {Cb(c)}
  BY <1>1, EventCallIs DEF Stacks
<1>4. /\ UNCHANGED <<work, current, sema, stop, app, refused, skipped, poolq>> /\ on' = on
      /\ connq \in [Conns -> Seq(Headers \cup {Event})]
  BY DEF EventCall, ctrl, history, IInv, Types
<1>5. \A d : t \notin Calls(d)
  BY <1>2, CallsNot
<1>6. ASSUME NEW d \in Conns PROVE Wakes(d)'
  <2>1. CASE d = c
    <3>1. Cb(d) \in A
      BY <1>3, <2>1
    <3>2. /\ Calls(d)' # {} /\ Cardinality(Calls(d)') = Cardinality(Calls(d)) + 1
          /\ Cardinality(Calls(d)) \in Nat
      BY <1>3, <1>5, <3>1, CallsIs
    <3>3. connq[d] \in Seq(Headers \cup {Event}) /\ connq'[d] = Append(connq[d], Event)
      BY <1>2, <1>4, <2>1
    <3>4. Len(connq[d]) \in Nat /\ Len(connq'[d]) = Len(connq[d]) + 1
      BY <3>3, SeqIs, AddIs
    <3>5. d \in Direct => Len(connq[d]) <= Cardinality(Calls(d))
      BY DEF IInv, WakeInv, Wakes
    <3>6. d \in Direct => Len(connq'[d]) <= Cardinality(Calls(d)')
      BY <3>2, <3>4, <3>5
    <3>7. d \notin Direct => Pending(d)'
      BY <3>2 DEF Pending
    <3>8. Pending(d) => Pending(d)'
      BY <1>4, <3>2, <3>4 DEF Pending
    <3> QED
      BY <1>4, <3>6, <3>7, <3>8, WakeKeeps
  <2>2. CASE d # c
    <3>1. Cb(d) \notin A
      BY <1>3, <2>2 DEF Cb, Frame
    <3>2. Calls(d)' = Calls(d)
      BY <1>3, <1>5, <3>1, CallsIs
    <3>3. connq'[d] = connq[d] /\ poolq'[d] = poolq[d]
      BY <1>2, <1>4, <2>2
    <3> QED
      BY <1>4, <3>2, <3>3, WakeSame
  <2> QED
    BY <2>1, <2>2
<1> QED
  BY <1>6 DEF WakeInv

LEMMA ClientWake ==
  ASSUME IInv, ClientOwn
  PROVE  WakeInv'
<1>1. stack' = stack /\ UNCHANGED <<flow, enabled, current>>
  BY ClientTypes
<1>2. /\ connq' = connq /\ poolq' = poolq /\ on' = on /\ refused' = refused
      /\ skipped' = skipped
  BY <1>1 DEF flow, history
<1>3. CASE EnableEnds \/ GraphDisable
  <2>1. Post
    BY <1>3 DEF EnableEnds, GraphDisable
  <2> QED
    BY <1>1, <1>2, <2>1, PostWake
<1>4. \A c : Calls(c)' = Calls(c)
  BY <1>1 DEF Calls, Frames
<1>5. CASE GraphEnable \/ Join
  <2>1. /\ sema' = sema /\ stop' = stop /\ app' # "on"
        /\ stop \/ work.at = "none"
    <3>1. GraphEnable => app = "off"
      BY DEF GraphEnable
    <3>2. Join => work.at = "exited"
      BY DEF Join, At
    <3> QED
      BY <1>5, <3>1, <3>2 DEF GraphEnable, Join, IInv, PhaseInv
  <2>2. ASSUME NEW c \in Conns PROVE Wakes(c)'
    <3>1. Wakes(c)
      BY DEF IInv, WakeInv
    <3>2. Pending(c)' <=> Pending(c)
      BY <1>2, <1>4, <2>1 DEF Pending
    <3>3. ~stop /\ c \notin Direct /\ c \notin skipped /\ connq[c] # <<>> => Pending(c)
      BY <2>1, <3>1 DEF Wakes, Again
    <3>4. c \in Direct => Len(connq'[c]) <= Cardinality(Calls(c)')
      BY <1>2, <1>4, <3>1 DEF Wakes
    <3> QED
      BY <1>2, <2>1, <3>2, <3>3, <3>4 DEF Wakes
  <2> QED
    BY <2>2 DEF WakeInv
<1>6. CASE DisableEnds \/ GraphDestroy \/ DestroyPool
  <2>1. UNCHANGED <<work, current, sema>> /\ stop' = stop /\ (app' = "on" => app = "on")
    BY <1>6 DEF DisableEnds, GraphDestroy, DestroyPool
  <2>2. ASSUME NEW c \in Conns PROVE Wakes(c)'
    BY <1>2, <1>4, <2>1, WakeSame
  <2> QED
    BY <2>2 DEF WakeInv
<1> QED
  BY <1>3, <1>5, <1>6 DEF ClientOwn

LEMMA EachWake ==
  ASSUME IInv, NEW call, NEW k \in {"enable", "disable"}, Each(call, k)
  PROVE  WakeInv'
<1>1. Idle("app") /\ "app" \in Threads
  BY WhoIs DEF Each
<1>2. PICK A : StackTo("app", A) /\ A = {Do(k, index)}
  BY EachIs DEF Stacks
<1>3. Do(k, index).k # "callback"
  BY DEF Do, Frame
<1>4. \A f \in A : f.k # "callback"
  BY <1>2, <1>3
<1>5. UNCHANGED <<work, current, sema, connq, poolq, stop, refused, skipped>> /\ app' = app /\ on' = on
  BY DEF Each, flow, history
<1> QED
  BY <1>1, <1>2, <1>4, <1>5, WakeQuiet

\* The worker goes from one connection to the next.
LEMMA WakerIs ==
  ASSUME IInv, NEW c \in Conns, UNCHANGED <<sema, connq, stop, app, on, refused>>, Calls(c)' = Calls(c)
  PROVE  /\ Pending(c)' <=> Pending(c)
         /\ c \in Direct => Len(connq'[c]) <= Cardinality(Calls(c)')
         /\ Wakes(c)
<1>1. Wakes(c)
  BY DEF IInv, WakeInv
<1> QED
  BY <1>1 DEF Pending, Wakes

LEMMA WorkerWakeWake ==
  ASSUME IInv, WorkerWake
  PROVE  WakeInv'
<1>1. /\ UNCHANGED <<stack, connq, poolq, stop, app, on, refused, skipped>> /\ current' = current
      /\ work'.at = (IF stop THEN "exited" ELSE "empties") /\ work'.i = 1
  BY DEF WorkerWake, flow, history, Fresh
<1>2. current \in 0..(NumConns - 1)
  BY DEF IInv, Types
<1>3. ASSUME NEW c \in Conns PROVE Wakes(c)'
  <2>1. Calls(c)' = Calls(c)
    BY <1>1 DEF Calls, Frames
  <2>2. Wakes(c)
    BY DEF IInv, WakeInv
  <2>3. c \in Direct => Len(connq'[c]) <= Cardinality(Calls(c)')
    BY <1>1, <2>1, <2>2 DEF Wakes
  <2>4. ToVisit(c)'
    <3>1. PICK i \in 1..NumConns : ((current + i - 1) % NumConns) + 1 = c
      BY <1>2, VisitFrom
    <3>2. Visit(i)' = c
      <4>1. current' = current
        BY <1>1
      <4> QED
        BY <1>2, <3>1, <4>1, ConnAssumption DEF Visit
    <3>3. i \in work'.i..NumConns
      BY <1>1, <3>1
    <3> QED
      BY <3>2, <3>3 DEF ToVisit
  <2> QED
    BY <1>1, <2>3, <2>4 DEF Wakes
<1> QED
  BY <1>3 DEF WakeInv

LEMMA SendEmptyWake ==
  ASSUME IInv, SendEmpty
  PROVE  WakeInv'
<1>1. PICK c \in Conns : c = Visit(work.i)
  <2>1. PICK d : d = Visit(work.i)
    OBVIOUS
  <2>2. PICK g : g = Head(poolq[d])
    OBVIOUS
  <2> QED
    BY <2>1, <2>2, SendEmptyIs
<1>2. PICK h : h = Head(poolq[c])
  OBVIOUS
<1>3. PICK A : StackTo("worker", A) /\ A = {Frame("empty", c, h)}
  BY <1>1, <1>2, SendEmptyIs DEF Stacks
<1>4. /\ UNCHANGED <<sema, connq, stop, app, on, refused, skipped>> /\ current' = current
      /\ Idle("worker") /\ work.at = "empties" /\ work \in Work /\ poolq \in [Conns -> Seq(Headers)]
      /\ work' = [work EXCEPT !.at = "sending", !.again = TRUE]
      /\ poolq[c] # <<>> /\ poolq' = [poolq EXCEPT ![c] = Tail(@)]
  BY <1>1 DEF SendEmpty, At, history, IInv, Types
<1>5. work'.at = "sending" /\ work'.i = work.i
  BY <1>4 DEF Work
<1>6. ASSUME NEW d \in Conns PROVE Wakes(d)'
  <2>1. Cb(d) \notin A
    <3>1. Cb(d).k = "callback" /\ Frame("empty", c, h).k = "empty"
      BY DEF Cb, Frame
    <3> QED
      BY <1>3, <3>1
  <2>2. "worker" \notin Calls(d) /\ "worker" \in Threads
    BY <1>4, CallsNot, PortIs
  <2>3. Calls(d)' = Calls(d)
    BY <1>3, <2>1, <2>2, CallsIs
  <2>4. /\ Pending(d)' <=> Pending(d)
        /\ d \in Direct => Len(connq'[d]) <= Cardinality(Calls(d)')
        /\ Wakes(d)
    BY <1>4, <2>3, WakerIs
  <2>5. ToVisit(d)' <=> ToVisit(d)
    BY <1>4, <1>5 DEF ToVisit, Visit
  <2>6. poolq'[d] # <<>> => poolq[d] # <<>>
    BY <1>4
  <2> QED
    BY <1>4, <1>5, <2>4, <2>5, <2>6 DEF Wakes, Again
<1> QED
  BY <1>6 DEF WakeInv

LEMMA EmptySentWake ==
  ASSUME IInv, EmptySent
  PROVE  WakeInv'
<1>0. PICK c : c = Top("worker").c
  OBVIOUS
<1>1. PICK h : h = Top("worker").b
  OBVIOUS
<1>2. /\ ~Idle("worker") /\ Top("worker").k = "empty" /\ c \in Conns
      /\ work.at = "sending" /\ Frames("worker") = {Top("worker")}
  BY <1>0, <1>1, EmptySentIs
<1>3. PICK A : StackTo("worker", A) /\ A = {}
  BY <1>0, <1>1, EmptySentIs DEF Stacks
<1>4. /\ UNCHANGED <<sema, connq, stop, app, on>> /\ current' = current /\ refused \subseteq refused'
      /\ skipped' = skipped
      /\ work \in Work /\ poolq \in [Conns -> Seq(Headers)] /\ work'.at = "empties"
  BY DEF EmptySent, IInv, Types, Work
<1>5. c = Visit(work.i)
  BY <1>0, <1>2 DEF IInv, PhaseInv
<1>6. \/ poolq' = poolq /\ work'.i = work.i
      \/ /\ poolq' = [poolq EXCEPT ![c] = <<h>> \o @] /\ work'.i = work.i + 1
         /\ ~on[Out(c)] \/ c \in refused'
  BY <1>0, <1>1, <1>4 DEF EmptySent, Work
<1>7. work.i \in Nat
  BY <1>4, WorkIs
<1>8. ASSUME NEW d \in Conns PROVE Wakes(d)'
  <2>1. "worker" \notin Calls(d) /\ "worker" \in Threads
    BY <1>2, CallsNot, PortIs
  <2>2. Calls(d)' = Calls(d)
    BY <1>3, <2>1, CallsIs
  <2>3. Wakes(d)
    BY DEF IInv, WakeInv
  <2>4. Pending(d)' <=> Pending(d)
    BY <1>4, <2>2 DEF Pending
  <2>5. d \in Direct => Len(connq'[d]) <= Cardinality(Calls(d)')
    BY <1>4, <2>2, <2>3 DEF Wakes
  <2>6. CASE poolq' = poolq /\ work'.i = work.i
    <3>1. ToVisit(d)' <=> ToVisit(d)
      BY <1>4, <2>6 DEF ToVisit, Visit
    <3> QED
      BY <1>2, <1>4, <2>3, <2>4, <2>5, <2>6, <3>1 DEF Wakes, Again
  <2>7. CASE d = c /\ (~on[Out(c)] \/ c \in refused')
    BY <1>4, <2>5, <2>7 DEF Wakes
  <2>8. CASE d # c /\ poolq' = [poolq EXCEPT ![c] = <<h>> \o @] /\ work'.i = work.i + 1
    <3>1. poolq'[d] = poolq[d]
      BY <1>4, <2>8
    <3>2. ToVisit(d) => ToVisit(d)'
      <4>1. ASSUME NEW i \in work.i..NumConns, Visit(i) = d
            PROVE  i \in work'.i..NumConns /\ Visit(i)' = d
        <5>1. i # work.i
          BY <1>5, <2>8, <4>1
        <5>2. Visit(i)' = Visit(i)
          BY <1>4 DEF Visit
        <5> QED
          BY <1>7, <2>8, <4>1, <5>1, <5>2, ConnAssumption
      <4> QED
        BY <4>1 DEF ToVisit
    <3> QED
      BY <1>2, <1>4, <2>3, <2>4, <2>5, <3>1, <3>2 DEF Wakes, Again
  <2> QED
    BY <1>6, <2>6, <2>7, <2>8
<1> QED
  BY <1>8 DEF WakeInv

LEMMA NextEmptiesWake ==
  ASSUME IInv, NextEmpties
  PROVE  WakeInv'
<1>1. /\ UNCHANGED <<stack, connq, poolq, sema, stop, app, on, refused, skipped>> /\ current' = current
      /\ work.at = "empties" /\ work \in Work /\ current \in 0..(NumConns - 1)
  BY DEF NextEmpties, flow, history, At, IInv, Types
<1>2. \/ work.i > NumConns /\ work'.at = "fulls" /\ work'.i = 1
      \/ work'.at = "empties" /\ work'.i = work.i + 1 /\ poolq[Visit(work.i)] = <<>>
  BY <1>1 DEF NextEmpties, Rest, Work
<1>3. work.i \in Nat /\ NumConns \in Nat
  BY WorkIs
<1>4. ASSUME NEW c \in Conns PROVE Wakes(c)'
  <2>1. Calls(c)' = Calls(c)
    BY <1>1 DEF Calls, Frames
  <2>2. /\ Pending(c)' <=> Pending(c)
        /\ c \in Direct => Len(connq'[c]) <= Cardinality(Calls(c)')
        /\ Wakes(c)
    BY <1>1, <2>1, WakerIs
  <2>3. CASE work.i > NumConns /\ work'.at = "fulls" /\ work'.i = 1
    <3>1. ToVisit(c)'
      <4>1. PICK i \in 1..NumConns : ((current + i - 1) % NumConns) + 1 = c
        BY <1>1, VisitFrom
      <4> QED
        BY <1>1, <2>3, <4>1 DEF ToVisit, Visit
    <3>2. ~ToVisit(c)
      BY <1>3, <2>3 DEF ToVisit
    <3> QED
      BY <1>1, <2>2, <2>3, <3>1, <3>2 DEF Wakes, Again
  <2>4. CASE work'.at = "empties" /\ work'.i = work.i + 1 /\ poolq[Visit(work.i)] = <<>>
    <3>1. ToVisit(c) /\ poolq[c] # <<>> => ToVisit(c)'
      <4>1. ASSUME NEW i \in work.i..NumConns, Visit(i) = c, poolq[c] # <<>>
            PROVE  i \in work'.i..NumConns /\ Visit(i)' = c
        <5>1. i # work.i
          BY <2>4, <4>1
        <5>2. Visit(i)' = Visit(i)
          BY <1>1 DEF Visit
        <5> QED
          BY <1>3, <2>4, <4>1, <5>1, <5>2
      <4> QED
        BY <4>1 DEF ToVisit
    <3> QED
      BY <1>1, <2>2, <2>4, <3>1 DEF Wakes, Again
  <2> QED
    BY <1>2, <2>3, <2>4
<1> QED
  BY <1>4 DEF WakeInv

LEMMA TakeFullWake ==
  ASSUME IInv, TakeFull
  PROVE  WakeInv'
<1>1. PICK c \in Conns : c = Visit(work.i)
  <2>1. PICK d : d = Visit(work.i)
    OBVIOUS
  <2>2. PICK g : g = Head(connq[d])
    OBVIOUS
  <2> QED
    BY <2>1, <2>2, TakeFullIs
<1>2. PICK h : h = Head(connq[c])
  OBVIOUS
<1>3. PICK A : StackTo("worker", A) /\ A = {Frame("process", c, h)}
  BY <1>1, <1>2, TakeFullIs DEF Stacks
<1>4. /\ Idle("worker") /\ work.at = "fulls" /\ work \in Work /\ c \notin Direct
      /\ connq \in [Conns -> Seq(Headers \cup {Event})]
      /\ work' = [work EXCEPT !.again = TRUE] /\ connq' = [connq EXCEPT ![c] = Tail(@)]
  BY <1>1 DEF TakeFull, At, IInv, Types
<1>5. Again'
  BY <1>4 DEF Again, Work
<1>6. ASSUME NEW d \in Conns PROVE Wakes(d)'
  <2>1. Cb(d) \notin A
    <3>1. Cb(d).k = "callback" /\ Frame("process", c, h).k = "process"
      BY DEF Cb, Frame
    <3> QED
      BY <1>3, <3>1
  <2>2. "worker" \notin Calls(d) /\ "worker" \in Threads
    BY <1>4, CallsNot, PortIs
  <2>3. Calls(d)' = Calls(d)
    BY <1>3, <2>1, <2>2, CallsIs
  <2>4. d \in Direct => connq'[d] = connq[d]
    BY <1>4
  <2>5. d \in Direct => Len(connq[d]) <= Cardinality(Calls(d))
    BY DEF IInv, WakeInv, Wakes
  <2>6. d \in Direct => Len(connq'[d]) <= Cardinality(Calls(d)')
    BY <2>3, <2>4, <2>5
  <2> QED
    BY <1>5, <2>6 DEF Wakes
<1> QED
  BY <1>6 DEF WakeInv

LEMMA NextFullsWake ==
  ASSUME IInv, NextFulls
  PROVE  WakeInv'
<1>1. /\ UNCHANGED <<stack, connq, poolq, sema, stop, app, on, refused>> /\ current' = current
      /\ work.at = "fulls" /\ work \in Work
  BY DEF NextFulls, At, IInv, Types
<1>2. work'.at = "fulls" /\ work'.i = work.i + 1 /\ work'.again = work.again
  BY <1>1 DEF NextFulls, Rest, Work
<1>3. work.i \in Nat /\ NumConns \in Nat
  BY WorkIs
<1>4. ASSUME NEW c \in Conns, c \notin skipped', c \notin Direct, connq[c] # <<>>
      PROVE  c \notin skipped /\ Visit(work.i) # c
  BY <1>4 DEF NextFulls
<1>5. Again' <=> Again
  BY <1>1, <1>2 DEF Again
<1>6. ASSUME NEW c \in Conns PROVE Wakes(c)'
  <2>1. Calls(c)' = Calls(c)
    BY <1>1 DEF Calls, Frames
  <2>2. /\ Pending(c)' <=> Pending(c)
        /\ c \in Direct => Len(connq'[c]) <= Cardinality(Calls(c)')
        /\ Wakes(c)
    BY <1>1, <2>1, WakerIs
  <2>3. Visit(work.i) # c /\ ToVisit(c) => ToVisit(c)'
    <3>1. ASSUME NEW i \in work.i..NumConns, Visit(i) = c, Visit(work.i) # c
          PROVE  i \in work'.i..NumConns /\ Visit(i)' = c
      <4>1. i # work.i
        BY <3>1
      <4>2. Visit(i)' = Visit(i)
        BY <1>1 DEF Visit
      <4> QED
        BY <1>2, <1>3, <3>1, <4>1, <4>2
    <3> QED
      BY <3>1 DEF ToVisit
  <2> QED
    BY <1>1, <1>2, <1>4, <1>5, <2>2, <2>3 DEF Wakes
<1> QED
  BY <1>6 DEF WakeInv

LEMMA EndPassWake ==
  ASSUME IInv, EndPass
  PROVE  WakeInv'
<1>1. /\ UNCHANGED <<stack, connq, poolq, sema, stop, app, on, refused, skipped>>
      /\ work.at = "fulls" /\ work.i > NumConns
      /\ work'.at = (IF work.again THEN "empties" ELSE "wait") /\ work'.i = 1
      /\ current' = (current + 1) % NumConns
  BY DEF EndPass, flow, history, At, Fresh
<1>2. work.i \in Nat /\ NumConns \in Nat \ {0} /\ current \in 0..(NumConns - 1)
  BY WorkIs DEF IInv, Types
<1>3. current' \in 0..(NumConns - 1)
  BY <1>1, <1>2
<1>4. ASSUME NEW c \in Conns PROVE Wakes(c)'
  <2>1. Calls(c)' = Calls(c)
    BY <1>1 DEF Calls, Frames
  <2>2. /\ Pending(c)' <=> Pending(c)
        /\ c \in Direct => Len(connq'[c]) <= Cardinality(Calls(c)')
        /\ Wakes(c)
    BY <1>1, <2>1, WakerIs
  <2>3. ToVisit(c)'
    <3>1. PICK m \in 0..(NumConns - 1) : m = current'
      BY <1>3
    <3>2. PICK i \in 1..NumConns : ((m + i - 1) % NumConns) + 1 = c
      BY VisitFrom
    <3>3. i \in work'.i..NumConns
      BY <1>1, <3>2
    <3>4. Visit(i)' = c
      BY <3>1, <3>2 DEF Visit
    <3> QED
      BY <3>3, <3>4 DEF ToVisit
  <2>4. ~ToVisit(c)
    BY <1>1, <1>2 DEF ToVisit
  <2> QED
    BY <1>1, <2>2, <2>3, <2>4 DEF Wakes, Again
<1> QED
  BY <1>4 DEF WakeInv

LEMMA StartOutWake ==
  ASSUME IInv, NEW t \in Threads, StartOut(t)
  PROVE  WakeInv'
<1>1. PICK c : c = Top(t).c
  OBVIOUS
<1>2. /\ Runs(t, "start out") /\ "start out" \in Control /\ c \in Conns
      /\ Top(t) \in Frames(t) /\ Top(t).k = "start out" /\ t \in {"app", "worker"}
  BY <1>1, StartOutIs, RunsIs DEF Threads
<1>3. PICK A : StackTo(t, A) /\ A = {Do("start in", c)}
  BY <1>1, StartOutIs DEF Stacks
<1>4. /\ UNCHANGED <<work, current, sema, connq, poolq, stop, refused, skipped, app>>
      /\ on' = [on EXCEPT ![Out(c)] = TRUE] /\ on \in [Ports -> BOOLEAN]
  BY <1>1 DEF StartOut, ctrl, history, IInv, Types
<1>5. app = "on" => Again
  <2>1. CASE t = "app"
    BY <1>2, <2>1 DEF IInv, PhaseInv
  <2>2. CASE t = "worker"
    BY <1>2, <2>2 DEF IInv, PhaseInv, Again
  <2> QED
    BY <1>2, <2>1, <2>2
<1>6. \A d : t \notin Calls(d)
  BY <1>2, CallsNot
<1>7. ASSUME NEW d \in Conns PROVE Wakes(d)'
  <2>1. Cb(d) \notin A
    <3>1. Cb(d).k = "callback" /\ Do("start in", c).k = "start in"
      BY DEF Cb, Do, Frame
    <3> QED
      BY <1>3, <3>1
  <2>2. Calls(d)' = Calls(d)
    BY <1>3, <1>6, <2>1, CallsIs
  <2>3. CASE d # c
    <3>1. on'[Out(d)] = on[Out(d)]
      <4>1. Out(c) \in Ports /\ Out(d) \in Ports /\ Out(c) # Out(d)
        BY <1>2, <2>3, PortIs
      <4> QED
        BY <1>4, <4>1
    <3> QED
      BY <1>4, <2>2, <3>1, WakeSame
  <2>4. CASE d = c
    <3>1. Wakes(d) /\ (Pending(d)' <=> Pending(d)) /\ (Again' <=> Again) /\ (ToVisit(d)' <=> ToVisit(d))
      BY <1>4, <2>2 DEF IInv, WakeInv, Pending, Again, ToVisit, Visit
    <3>2. d \in Direct => Len(connq'[d]) <= Cardinality(Calls(d)')
      BY <1>4, <2>2, <3>1 DEF Wakes
    <3> QED
      BY <1>4, <1>5, <3>1, <3>2 DEF Wakes
  <2> QED
    BY <2>3, <2>4
<1> QED
  BY <1>7 DEF WakeInv

LEMMA EnableBeginWake ==
  ASSUME IInv, NEW t \in Threads, EnableBegin(t)
  PROVE  WakeInv'
<1>1. PICK c : c = Top(t).c
  OBVIOUS
<1>2. Runs(t, "enable") /\ c \in Conns /\ ~Idle(t) /\ Top(t).k = "enable"
  BY <1>1, EnableBeginIs DEF Runs
<1>3. PICK A : StackTo(t, A) /\ (A = {} \/ A = {Do("start out", c)})
  <2>1. Stacks(t, {}) \/ Stacks(t, {Do("start out", c)})
    BY <1>1, EnableBeginIs
  <2> QED
    BY <2>1 DEF Stacks
<1>4. UNCHANGED <<work, current, sema, connq, stop, refused, skipped, app, on>>
  BY DEF EnableBegin, ctrl, history
<1>5. \A d : t \notin Calls(d)
  BY <1>2, CallsNot
<1>6. ASSUME NEW d \in Conns
      PROVE  poolq'[d] = poolq[d] \/ (d = c /\ ~on[Out(d)])
  <2>1. CASE enabled[c]
    BY <1>1, <2>1, EnableBeginIs
  <2>2. CASE ~enabled[c] /\ fits[c]
    <3>1. poolq' = poolq
      BY <1>1, <2>2, EnableBeginIs
    <3> QED
      BY <3>1
  <2>3. CASE ~enabled[c] /\ ~fits[c]
    <3>1. ~on[Out(c)]
      BY <1>1, <1>2, <2>3, CleanIs
    <3>2. \A e \in Conns \ {c} : poolq'[e] = poolq[e]
      BY <1>1, <2>3, EnableBeginIs
    <3> QED
      BY <3>1, <3>2
  <2> QED
    BY <2>1, <2>2, <2>3
<1>7. ASSUME NEW d \in Conns PROVE Wakes(d)'
  <2>1. Cb(d) \notin A
    <3>1. Cb(d).k = "callback" /\ Do("start out", c).k = "start out"
      BY DEF Cb, Do, Frame
    <3> QED
      BY <1>3, <3>1
  <2>2. Calls(d)' = Calls(d)
    BY <1>3, <1>5, <2>1, CallsIs
  <2>3. CASE poolq'[d] = poolq[d]
    BY <1>4, <2>2, <2>3, WakeSame
  <2>4. CASE ~on[Out(d)]
    <3>1. Wakes(d) /\ (Pending(d)' <=> Pending(d)) /\ (Again' <=> Again) /\ (ToVisit(d)' <=> ToVisit(d))
      BY <1>4, <2>2 DEF IInv, WakeInv, Pending, Again, ToVisit, Visit
    <3>2. d \in Direct => Len(connq'[d]) <= Cardinality(Calls(d)')
      BY <1>4, <2>2, <3>1 DEF Wakes
    <3> QED
      BY <1>4, <2>4, <3>1, <3>2 DEF Wakes
  <2> QED
    BY <1>6, <2>3, <2>4
<1> QED
  BY <1>7 DEF WakeInv

-----------------------------------------------------------------------------
\* Every step keeps the invariant.
LEMMA ReturnBufferIInv ==
  ASSUME IInv, NEW t \in Threads, NEW p \in Ports, NEW h, ReturnBuffer(t, p, h),
         \/ t \in CompThreads /\ Idle(t)
         \/ ~Idle(t) /\ Top(t).k \in Waiting /\ Top(t).c = p[1]
  PROVE  IInv'
<1>1. Types' /\ FrameInv'
  BY ReturnBufferIs DEF Stacks
<1>2. PlaceInv'
  BY ReturnBufferPlace
<1>3. CallInv' /\ PortInv'
  BY ReturnBufferCalls
<1>4. PhaseInv' /\ DestroyInv' /\ WakeInv'
  BY ReturnBufferPhase, ReturnBufferDestroy, ReturnBufferWake
<1> QED
  BY <1>1, <1>2, <1>3, <1>4 DEF IInv

LEMMA ReturnDoneIInv ==
  ASSUME IInv, ~rash', NEW t \in Threads, ReturnDone(t)
  PROVE  IInv'
<1>1. ~Idle(t) /\ Top(t).k \in Returns /\ Types' /\ FrameInv'
  BY ReturnDoneIs DEF Stacks
<1>2. PlaceInv'
  <2>1. PICK A : StackTo(t, A) /\ A = Below(t)
    BY ReturnDoneIs DEF Stacks
  <2>2. UNCHANGED <<held, poolq, connq>> /\ fits' = fits /\ enabled' = enabled
    BY DEF ReturnDone, flow
  <2>3. Top(t).k \notin Carrying /\ \A f \in A : f.k \notin Carrying
    BY <1>1, <2>1, KindIs, ControlBelow
  <2> QED
    BY <2>1, <2>2, <2>3, PlaceQuiet
<1>3. CallInv' /\ PortInv'
  BY ReturnDoneCalls
<1>4. PhaseInv' /\ DestroyInv' /\ WakeInv'
  BY ReturnDonePhase, BufferDestroy, ReturnDoneWake
<1> QED
  BY <1>1, <1>2, <1>3, <1>4 DEF IInv

LEMMA CallbackIInv ==
  ASSUME IInv, ~rash', NEW t \in Threads, Callback(t)
  PROVE  IInv'
<1>0. PICK c : c = Top(t).c
  OBVIOUS
<1>1. Types' /\ FrameInv'
  <2>1. CASE c \in Direct /\ connq[c] # <<>>
    BY <1>0, <2>1, CallbackIs DEF Stacks
  <2>2. CASE ~(c \in Direct /\ connq[c] # <<>>)
    BY <1>0, <2>2, CallbackIs DEF Stacks
  <2> QED
    BY <2>1, <2>2
<1>2. PlaceInv'
  BY <1>0, CallbackPlace
<1>3. CallInv' /\ PortInv'
  BY <1>0, CallbackCalls
<1>4. PhaseInv' /\ DestroyInv' /\ WakeInv'
  BY <1>0, CallbackPhase, BufferDestroy, CallbackWake
<1> QED
  BY <1>1, <1>2, <1>3, <1>4 DEF IInv

LEMMA ProcessSendIInv ==
  ASSUME IInv, ~rash', NEW t \in Threads, ProcessSend(t)
  PROVE  IInv'
<1>0. PICK c, h : c = Top(t).c /\ h = Top(t).b
  OBVIOUS
<1>1. Types' /\ FrameInv'
  BY <1>0, ProcessSendIs DEF Stacks
<1>2. PlaceInv'
  BY <1>0, ProcessSendPlace
<1>3. CallInv' /\ PortInv'
  BY <1>0, ProcessSendCalls
<1>4. PhaseInv' /\ DestroyInv' /\ WakeInv'
  BY <1>0, ProcessSendPhase, BufferDestroy, ReturnDoneWake
<1> QED
  BY <1>1, <1>2, <1>3, <1>4 DEF IInv

LEMMA ProcessRefusedIInv ==
  ASSUME IInv, ~rash', NEW t \in Threads, ProcessRefused(t)
  PROVE  IInv'
<1>0. PICK c, h : c = Top(t).c /\ h = Top(t).b
  OBVIOUS
<1>1. Types' /\ FrameInv'
  BY <1>0, ProcessRefusedIs DEF Stacks
<1>2. PlaceInv'
  BY <1>0, ProcessRefusedPlace
<1>3. CallInv' /\ PortInv'
  BY <1>0, ProcessRefusedCalls
<1>4. PhaseInv' /\ DestroyInv' /\ WakeInv'
  BY <1>0, ProcessRefusedPhase, BufferDestroy, ProcessRefusedWake
<1> QED
  BY <1>1, <1>2, <1>3, <1>4 DEF IInv

LEMMA ProcessEventIInv ==
  ASSUME IInv, ~rash', NEW t \in Threads, ProcessEvent(t)
  PROVE  IInv'
<1>0. PICK c : c = Top(t).c
  OBVIOUS
<1>1. Types' /\ FrameInv'
  <2>1. Stacks(t, {Do("disable", c)}) \/ Stacks(t, {Do("disable", c), Do("enable", c)})
    BY <1>0, ProcessEventIs
  <2> QED
    BY <2>1 DEF Stacks
<1>2. PlaceInv' /\ CallInv' /\ PortInv'
  BY <1>0, ProcessEventCalls
<1>3. PhaseInv' /\ DestroyInv' /\ WakeInv'
  BY <1>0, ProcessEventPhase, ProcessEventDestroy, ProcessEventWake
<1> QED
  BY <1>1, <1>2, <1>3 DEF IInv

LEMMA PassEventIInv ==
  ASSUME IInv, ~rash', NEW t \in Threads, PassEvent(t)
  PROVE  IInv'
<1>0. PICK c : c = Top(t).c
  OBVIOUS
<1>1. ~Idle(t) /\ Top(t).b = Event /\ Types' /\ FrameInv' /\ StackTo(t, Below(t))
  BY <1>0, PassEventIs DEF Stacks
<1>2. PlaceInv'
  <2>1. PICK A : StackTo(t, A) /\ A = Below(t)
    BY <1>1
  <2>2. UNCHANGED <<held, poolq, connq>> /\ fits' = fits /\ enabled' = enabled
    BY DEF PassEvent, ForwardEvent, DropEvent, flow
  <2>3. \A f \in A : f.k \notin Carrying
    BY <1>1, <2>1, ControlBelow
  <2> QED
    BY <1>1, <2>1, <2>2, <2>3, PlaceQuiet
<1>3. CallInv' /\ PortInv'
  BY <1>0, PassEventCalls
<1>4. PhaseInv' /\ DestroyInv' /\ WakeInv'
  BY <1>0, PassEventPhase, BufferDestroy, ReturnDoneWake
<1> QED
  BY <1>1, <1>2, <1>3, <1>4 DEF IInv

LEMMA EventBackIInv ==
  ASSUME IInv, NEW c \in Conns, EventBack(c)
  PROVE  IInv'
<1>1. Types' /\ FrameInv'
  BY EventBackIs
<1>2. PlaceInv'
  <2>1. /\ stack' = stack /\ UNCHANGED <<held, poolq, connq>> /\ fits' = fits
        /\ enabled' = enabled
    BY DEF EventBack
  <2>2. \A h \in Headers : Carriers(h)' = Carriers(h)
    BY <2>1, StackSame DEF IInv
  <2> QED
    BY <2>1, <2>2, PlaceSame
<1>3. CallInv' /\ PortInv'
  BY EventBackCalls
<1>4. PhaseInv' /\ WakeInv'
  BY EventBackPhase, EventBackWake
<1>5. DestroyInv'
  BY WhoIs, EventDestroy
<1> QED
  BY <1>1, <1>2, <1>3, <1>4, <1>5 DEF IInv

LEMMA EventTestIInv ==
  ASSUME IInv, NEW c \in Conns, EventTest(c)
  PROVE  IInv'
<1>0. PICK t : t = Thread(Out(c))
  OBVIOUS
<1>1. PICK A : A = {Do("event", c)}
  OBVIOUS
<1>2. t \in Threads /\ Idle(t) /\ Types' /\ FrameInv' /\ StackTo(t, A)
  BY <1>0, <1>1, EventTestIs DEF Stacks
<1>3. PlaceInv'
  <2>1. UNCHANGED <<held, poolq, connq>> /\ fits' = fits /\ enabled' = enabled
    BY DEF EventTest, flow
  <2>2. \A f \in A : f.k \notin Carrying
    BY <1>1, FrameIs DEF Carrying
  <2> QED
    BY <1>2, <2>1, <2>2, PlaceQuiet
<1>4. CallInv' /\ PortInv'
  BY <1>0, EventTestCalls
<1>5. PhaseInv' /\ WakeInv'
  BY EventTestPhase, EventTestWake
<1>6. DestroyInv'
  BY <1>2, EventDestroy
<1> QED
  BY <1>2, <1>3, <1>4, <1>5, <1>6 DEF IInv

LEMMA EventCallIInv ==
  ASSUME IInv, NEW t \in Threads, EventCall(t)
  PROVE  IInv'
<1>0. PICK c : c = Top(t).c
  OBVIOUS
<1>1. Types' /\ FrameInv' /\ c \in Conns
  BY <1>0, EventCallIs DEF Stacks
<1>2. PlaceInv'
  BY <1>0, EventCallPlace
<1>3. CallInv' /\ PortInv'
  BY <1>0, EventCallCalls
<1>4. PhaseInv' /\ WakeInv'
  BY EventCallPhase, EventCallWake
<1>5. DestroyInv'
  BY <1>1, EventDestroy
<1> QED
  BY <1>1, <1>2, <1>3, <1>4, <1>5 DEF IInv

LEMMA DisableBeginIInv ==
  ASSUME IInv, NEW t \in Threads, DisableBegin(t)
  PROVE  IInv'
<1>0. PICK c : c = Top(t).c
  OBVIOUS
<1>1. Types' /\ FrameInv'
  BY <1>0, DisableBeginIs DEF Stacks
<1>2. PlaceInv' /\ CallInv' /\ PortInv'
  BY <1>0, DisableBeginCalls
<1>3. PhaseInv' /\ DestroyInv' /\ WakeInv'
  BY <1>0, DisableBeginPhase, DisableBeginDestroy, DisableBeginWake
<1> QED
  BY <1>1, <1>2, <1>3 DEF IInv

LEMMA PortStopIInv ==
  ASSUME IInv, NEW t \in Threads, NEW k, NEW p, NEW n, PortStop(t, k, p, n), NEW c, c = Top(t).c,
         \/ k = "stop in" /\ p = In(c) /\ n = "wait in"
         \/ k = "stop out" /\ p = Out(c) /\ n = "wait out"
         \/ k = "undo out" /\ p = Out(c) /\ n = "wait undo"
  PROVE  IInv'
<1>1. Types' /\ FrameInv'
  BY PortStopIs DEF Stacks
<1>2. PlaceInv' /\ CallInv' /\ PortInv'
  BY PortStopInCalls, PortStopOutCalls, PortStopUndoCalls
<1>3. PhaseInv' /\ DestroyInv' /\ WakeInv'
  BY PortStopPhase, PortStopDestroy, PortStopWake
<1> QED
  BY <1>1, <1>2, <1>3 DEF IInv

LEMMA PortEmptyIInv ==
  ASSUME IInv, NEW t \in Threads, NEW k, NEW p, NEW next, PortEmpty(t, k, p, next),
         NEW c, c = Top(t).c,
         \/ k = "wait in" /\ p = In(c) /\ next = <<Do("stop out", c)>>
         \/ k = "wait out" /\ p = Out(c) /\ next = <<Do("flush", c)>>
         \/ k = "wait undo" /\ p = Out(c) /\ next = <<>>
  PROVE  IInv'
<1>1. Types' /\ FrameInv'
  BY PortEmptyIs DEF Stacks
<1>2. PlaceInv' /\ CallInv' /\ PortInv'
  BY PortEmptyInCalls, PortEmptyOutCalls, PortEmptyUndoCalls
<1>3. PhaseInv' /\ DestroyInv' /\ WakeInv'
  BY PortEmptyPhase, PortEmptyDestroy, PortEmptyWake
<1> QED
  BY <1>1, <1>2, <1>3 DEF IInv

LEMMA StopPortsIInv ==
  ASSUME IInv, NEW t \in Threads, StopPorts(t)
  PROVE  IInv'
<1>0. PICK c : c = Top(t).c
  OBVIOUS
<1>1. ~Idle(t) /\ c \in Conns
  BY <1>0, TopIs DEF StopPorts, FrameType, IInv
<1>2. In(c) \in Ports /\ Out(c) \in Ports /\ In(c)[1] = c /\ Out(c)[1] = c
  BY <1>1, PortIs
<1>3. ASSUME NEW k \in Waiting, NEW p \in {In(c), Out(c)}, PortFlush(t, k, p) PROVE IInv'
  <2>1. PICK h : ReturnBuffer(t, p, h)
    BY <1>3 DEF PortFlush
  <2>2. Top(t).k \in Waiting /\ Top(t).c = p[1]
    BY <1>0, <1>2, <1>3 DEF PortFlush, Runs
  <2> QED
    BY <1>1, <1>2, <1>3, <2>1, <2>2, ReturnBufferIInv
<1>4. "wait in" \in Waiting /\ "wait out" \in Waiting /\ "wait undo" \in Waiting
  BY DEF Waiting
<1>5. \/ PortStop(t, "stop in", In(c), "wait in")
      \/ PortStop(t, "stop out", Out(c), "wait out")
      \/ PortStop(t, "undo out", Out(c), "wait undo")
      \/ \E k \in Waiting : \E p \in {In(c), Out(c)} : PortFlush(t, k, p)
      \/ PortEmpty(t, "wait in", In(c), <<Do("stop out", c)>>)
      \/ PortEmpty(t, "wait out", Out(c), <<Do("flush", c)>>)
      \/ PortEmpty(t, "wait undo", Out(c), <<>>)
  BY <1>0, <1>4 DEF StopPorts
<1>6. CASE PortStop(t, "stop in", In(c), "wait in")
  BY <1>0, <1>6, PortStopIInv
<1>7. CASE PortStop(t, "stop out", Out(c), "wait out")
  BY <1>0, <1>7, PortStopIInv
<1>8. CASE PortStop(t, "undo out", Out(c), "wait undo")
  BY <1>0, <1>8, PortStopIInv
<1>9. CASE PortEmpty(t, "wait in", In(c), <<Do("stop out", c)>>)
  BY <1>0, <1>9, PortEmptyIInv
<1>10. CASE PortEmpty(t, "wait out", Out(c), <<Do("flush", c)>>)
  BY <1>0, <1>10, PortEmptyIInv
<1>11. CASE PortEmpty(t, "wait undo", Out(c), <<>>)
  BY <1>0, <1>11, PortEmptyIInv
<1> QED
  BY <1>3, <1>5, <1>6, <1>7, <1>8, <1>9, <1>10, <1>11

LEMMA FlushDoneIInv ==
  ASSUME IInv, NEW t \in Threads, FlushDone(t)
  PROVE  IInv'
<1>0. PICK c : c = Top(t).c
  OBVIOUS
<1>1. Types' /\ FrameInv'
  BY <1>0, FlushDoneIs DEF Stacks
<1>2. PlaceInv' /\ CallInv' /\ PortInv'
  BY <1>0, FlushDoneCalls
<1>3. PhaseInv' /\ DestroyInv' /\ WakeInv'
  BY <1>0, FlushDonePhase, FlushDoneDestroy, FlushDoneWake
<1> QED
  BY <1>1, <1>2, <1>3 DEF IInv

LEMMA StartOutIInv ==
  ASSUME IInv, NEW t \in Threads, StartOut(t)
  PROVE  IInv'
<1>0. PICK c : c = Top(t).c
  OBVIOUS
<1>1. Types' /\ FrameInv'
  BY <1>0, StartOutIs DEF Stacks
<1>2. PlaceInv' /\ CallInv' /\ PortInv'
  BY <1>0, StartOutCalls
<1>3. PhaseInv' /\ DestroyInv' /\ WakeInv'
  BY <1>0, StartOutPhase, EnableDestroy, StartOutWake
<1> QED
  BY <1>1, <1>2, <1>3 DEF IInv

LEMMA StartInIInv ==
  ASSUME IInv, NEW t \in Threads, StartIn(t)
  PROVE  IInv'
<1>0. PICK c : c = Top(t).c
  OBVIOUS
<1>1. Types' /\ FrameInv'
  BY <1>0, StartInIs DEF Stacks
<1>2. PlaceInv' /\ CallInv' /\ PortInv'
  BY <1>0, StartInCalls
<1>3. PhaseInv' /\ DestroyInv' /\ WakeInv'
  BY <1>0, StartInPhase, EnableDestroy, StartInWake
<1> QED
  BY <1>1, <1>2, <1>3 DEF IInv

LEMMA EnableFailedIInv ==
  ASSUME IInv, NEW t \in Threads, EnableFailed(t)
  PROVE  IInv'
<1>0. PICK c : c = Top(t).c
  OBVIOUS
<1>1. Types' /\ FrameInv'
  BY <1>0, EnableFailedIs DEF Stacks
<1>2. PlaceInv' /\ CallInv' /\ PortInv'
  BY <1>0, EnableFailedCalls
<1>3. PhaseInv' /\ DestroyInv' /\ WakeInv'
  BY <1>0, EnableFailedPhase, EnableFailedDestroy, EnableFailedWake
<1> QED
  BY <1>1, <1>2, <1>3 DEF IInv

LEMMA FlushQueueIInv ==
  ASSUME IInv, NEW t \in Threads, FlushQueue(t)
  PROVE  IInv'
<1>0. PICK c : c = Top(t).c
  OBVIOUS
<1>1. PICK h : h = Head(connq[c])
  OBVIOUS
<1>2. Types' /\ FrameInv'
  <2>1. CASE h = Event
    BY <1>0, <1>1, <2>1, FlushQueueIs
  <2>2. CASE h # Event
    BY <1>0, <1>1, <2>2, FlushQueueIs DEF Stacks
  <2> QED
    BY <2>1, <2>2
<1>3. PlaceInv'
  BY <1>0, <1>1, FlushQueuePlace
<1>4. CallInv' /\ PortInv'
  BY <1>0, FlushQueueCalls
<1>5. PhaseInv' /\ DestroyInv' /\ WakeInv'
  BY <1>0, FlushQueuePhase, FlushQueueDestroy, FlushQueueWake
<1> QED
  BY <1>2, <1>3, <1>4, <1>5 DEF IInv

LEMMA EnableBeginIInv ==
  ASSUME IInv, NEW t \in Threads, EnableBegin(t)
  PROVE  IInv'
<1>0. PICK c : c = Top(t).c
  OBVIOUS
<1>1. Types' /\ FrameInv'
  <2>1. CASE enabled[c]
    BY <1>0, <2>1, EnableBeginIs DEF Stacks
  <2>2. CASE ~enabled[c]
    BY <1>0, <2>2, EnableBeginIs DEF Stacks
  <2> QED
    BY <2>1, <2>2
<1>2. PlaceInv'
  BY <1>0, EnableBeginPlace
<1>3. CallInv' /\ PortInv'
  BY <1>0, EnableOnCalls, EnableOffCalls
<1>4. PhaseInv' /\ DestroyInv' /\ WakeInv'
  BY <1>0, EnableBeginPhase, EnableDestroy, EnableBeginWake
<1> QED
  BY <1>1, <1>2, <1>3, <1>4 DEF IInv

LEMMA StartFailsIInv ==
  ASSUME IInv, NEW t \in Threads, StartPortFails(t)
  PROVE  IInv'
<1>0. PICK c : c = Top(t).c
  OBVIOUS
<1>1. DestroyInv' /\ WakeInv'
  BY EnableDestroy, StartFailsWake
<1>2. CASE StartFails(t, "start out", Out(c), <<Do("failed", c)>>)
  <2>1. Stacks(t, {Do("failed", c)})
    BY <1>0, <1>2, StartFailsIs
  <2>2. PlaceInv' /\ CallInv' /\ PortInv'
    BY <1>0, <1>2, StartOutFailsCalls
  <2>3. PhaseInv'
    BY <1>0, <1>2, StartFailsPhase
  <2> QED
    BY <1>1, <2>1, <2>2, <2>3 DEF IInv, Stacks
<1>3. CASE StartFails(t, "start in", In(c), <<Do("undo out", c), Do("failed", c)>>)
  <2>1. Stacks(t, {Do("undo out", c), Do("failed", c)})
    BY <1>0, <1>3, StartFailsIs
  <2>2. PlaceInv' /\ CallInv' /\ PortInv'
    BY <1>0, <1>3, StartInFailsCalls
  <2>3. PhaseInv'
    BY <1>0, <1>3, StartFailsPhase
  <2> QED
    BY <1>1, <2>1, <2>2, <2>3 DEF IInv, Stacks
<1> QED
  BY <1>0, <1>2, <1>3 DEF StartPortFails

LEMMA ThreadStepIInv ==
  ASSUME IInv, ~rash', NEW t \in Threads, ThreadStep(t)
  PROVE  IInv'
<1>1. ASSUME PortFlushEvent(t) PROVE IInv'
  <2>1. ~Idle(t) /\ EventBack(Top(t).c)
    BY <1>1 DEF PortFlushEvent, Runs
  <2>2. Top(t).c \in Conns
    BY <2>1, TopIs DEF FrameType, IInv
  <2> QED
    BY <2>1, <2>2, EventBackIInv
<1> QED
  BY <1>1, ReturnDoneIInv, CallbackIInv, ProcessSendIInv, ProcessRefusedIInv, ProcessEventIInv,
     PassEventIInv, EventCallIInv, DisableBeginIInv, StopPortsIInv, FlushQueueIInv, FlushDoneIInv,
     EnableBeginIInv, StartOutIInv, StartInIInv, StartFailsIInv, EnableFailedIInv
     DEF ThreadStep, PassEvent

\* A step that moves no buffer and starts no call.
LEMMA OwnKeeps ==
  ASSUME IInv, Types', stack' = stack, UNCHANGED <<on, held, fwd, poolq, connq, fits, enabled>>
  PROVE  PlaceInv' /\ CallInv' /\ PortInv'
<1>1. UNCHANGED <<on, held, poolq, connq, fits, enabled>> /\ \A c \in Conns : fwd'[c] = fwd[c]
  OBVIOUS
<1>2. \A h \in Headers : Carriers(h)' = Carriers(h)
  BY StackSame DEF IInv
<1>3. PlaceInv'
  BY <1>1, <1>2, PlaceSame
<1>4. CallInv' /\ PortInv'
  BY <1>1, OwnCalls
<1> QED
  BY <1>3, <1>4

LEMMA WorkerIInv ==
  ASSUME IInv, Worker
  PROVE  IInv'
<1>0. DestroyInv'
  BY WorkerDestroy
<1>1. CASE WorkerWake \/ NextEmpties \/ NextFulls \/ EndPass
  <2>1. stack' = stack /\ FrameInv' /\ Types'
    BY <1>1, WorkerTypes
  <2>2. UNCHANGED <<on, held, fwd, poolq, connq, fits, enabled>>
    BY <1>1 DEF WorkerWake, NextEmpties, NextFulls, EndPass, flow
  <2>3. PlaceInv' /\ CallInv' /\ PortInv'
    BY <2>1, <2>2, OwnKeeps
  <2>4. PhaseInv'
    BY <1>1, OwnPhase
  <2>5. WakeInv'
    BY <1>1, WorkerWakeWake, NextEmptiesWake, NextFullsWake, EndPassWake
  <2> QED
    BY <1>0, <2>1, <2>3, <2>4, <2>5 DEF IInv
<1>2. CASE SendEmpty
  <2>1. PICK c : c = Visit(work.i)
    OBVIOUS
  <2>2. PICK h : h = Head(poolq[c])
    OBVIOUS
  <2>3. Types' /\ FrameInv'
    BY <1>2, <2>1, <2>2, SendEmptyIs DEF Stacks
  <2>4. PlaceInv' /\ CallInv' /\ PortInv'
    BY <1>2, <2>1, <2>2, SendEmptyPlace, SendEmptyCalls
  <2>5. PhaseInv' /\ WakeInv'
    BY <1>2, <2>1, <2>2, SendEmptyPhase, SendEmptyWake
  <2> QED
    BY <1>0, <2>3, <2>4, <2>5 DEF IInv
<1>3. CASE EmptySent
  <2>1. PICK c, h : c = Top("worker").c /\ h = Top("worker").b
    OBVIOUS
  <2>2. Types' /\ FrameInv'
    BY <1>3, <2>1, EmptySentIs DEF Stacks
  <2>3. PlaceInv' /\ CallInv' /\ PortInv'
    BY <1>3, <2>1, EmptySentPlace, EmptySentCalls
  <2>4. PhaseInv' /\ WakeInv'
    BY <1>3, <2>1, EmptySentPhase, EmptySentWake
  <2> QED
    BY <1>0, <2>2, <2>3, <2>4 DEF IInv
<1>4. CASE TakeFull
  <2>1. PICK c : c = Visit(work.i)
    OBVIOUS
  <2>2. PICK h : h = Head(connq[c])
    OBVIOUS
  <2>3. Types' /\ FrameInv'
    BY <1>4, <2>1, <2>2, TakeFullIs DEF Stacks
  <2>4. PlaceInv' /\ CallInv' /\ PortInv'
    BY <1>4, <2>1, <2>2, TakeFullPlace, TakeFullCalls
  <2>5. PhaseInv' /\ WakeInv'
    BY <1>4, <2>1, <2>2, TakeFullPhase, TakeFullWake
  <2> QED
    BY <1>0, <2>3, <2>4, <2>5 DEF IInv
<1> QED
  BY <1>1, <1>2, <1>3, <1>4 DEF Worker

LEMMA ClientIInv ==
  ASSUME IInv, ClientOwn
  PROVE  IInv'
<1>1. stack' = stack /\ FrameInv' /\ Types' /\ UNCHANGED <<flow, enabled>>
  BY ClientTypes
<1>2. PlaceInv' /\ CallInv' /\ PortInv'
  BY <1>1, OwnKeeps DEF flow
<1>3. PhaseInv' /\ DestroyInv' /\ WakeInv'
  BY ClientPhase, ClientDestroy, ClientWake
<1> QED
  BY <1>1, <1>2, <1>3 DEF IInv

LEMMA EachIInv ==
  ASSUME IInv, EnableNext \/ DisableNext \/ DestroyNext
  PROVE  IInv'
<1>1. PICK call, k : /\ Each(call, k) /\ k \in {"enable", "disable"}
                     /\ \/ call = "enabling" /\ k = "enable"
                        \/ call \in {"disabling", "destroying"} /\ k = "disable"
  BY DEF EnableNext, DisableNext, DestroyNext
<1>2. Types' /\ FrameInv'
  BY <1>1, EachIs DEF Stacks
<1>3. PlaceInv' /\ CallInv' /\ PortInv'
  BY <1>1, EachCalls
<1>4. PhaseInv' /\ WakeInv'
  BY <1>1, EachPhase, EachWake
<1>5. DestroyInv'
  BY EachDestroy
<1> QED
  BY <1>2, <1>3, <1>4, <1>5 DEF IInv

\* Nothing changes.
LEMMA StutterIInv ==
  ASSUME IInv, UNCHANGED vars
  PROVE  IInv'
<1>1. /\ UNCHANGED <<on, held, fwd, poolq, connq, fits, enabled, alive, sema, stop, stack>>
      /\ UNCHANGED <<refused, skipped, rash, work, current, app, index, budget>>
  BY DEF vars, flow, history
<1>2. Types'
  BY <1>1 DEF IInv, Types
<1>3. FrameInv' /\ \A u \in Threads : Frames(u)' = Frames(u)
  BY <1>1, StackSame DEF IInv
<1>4. PlaceInv' /\ CallInv' /\ PortInv'
  BY <1>1, <1>2, OwnKeeps
<1>5. /\ Frames("app")' = Frames("app") /\ Frames("worker")' = Frames("worker")
      /\ Idle("app")' <=> Idle("app")
  BY <1>1, <1>3, PortIs DEF Idle
<1>6. PhaseInv'
  <2>1. \A d : Untouched(d) => Untouched(d)'
    BY <1>1, <1>5 DEF Untouched
  <2>2. Ahead' = Ahead /\ \A x : Visit(x)' = Visit(x)
    BY <1>1, <1>5 DEF Ahead, Visit
  <2> QED
    BY <1>1, <1>5, <2>1, <2>2 DEF IInv, PhaseInv
<1>7. DestroyInv'
  BY <1>1, <1>5 DEF IInv, DestroyInv
<1>8. WakeInv'
  <2>1. ASSUME NEW c \in Conns PROVE Wakes(c)'
    <3>1. Calls(c)' = Calls(c)
      BY <1>1 DEF Calls, Frames
    <3> QED
      BY <1>1, <3>1, WakeSame
  <2> QED
    BY <2>1 DEF WakeInv
<1> QED
  BY <1>2, <1>3, <1>4, <1>6, <1>7, <1>8 DEF IInv

LEMMA NextIInv ==
  ASSUME IInv, [Next]_vars, ~rash'
  PROVE  IInv'
<1>1. CASE \E t \in Threads : ThreadStep(t)
  BY <1>1, ThreadStepIInv
<1>2. CASE \E p \in Ports : ComponentReturns(p)
  <2>1. PICK p \in Ports : ComponentReturns(p)
    BY <1>2
  <2>2. PICK t, h : t = Thread(p) /\ Idle(t) /\ ReturnBuffer(t, p, h)
    BY <2>1 DEF ComponentReturns
  <2>3. t \in CompThreads /\ t \in Threads
    BY <2>2, ThreadIs
  <2> QED
    BY <2>2, <2>3, ReturnBufferIInv
<1>3. CASE \E c \in Conns : ComponentReturnsEvent(c) \/ EventTest(c)
  BY <1>3, EventBackIInv, EventTestIInv DEF ComponentReturnsEvent
<1>4. CASE Worker
  BY <1>4, WorkerIInv
<1>5. CASE App \/ Client
  BY <1>5, ClientIInv, EachIInv DEF App, Client, ClientOwn
<1>6. CASE Done \/ UNCHANGED vars
  <2>1. UNCHANGED vars
    BY <1>6 DEF Done
  <2> QED
    BY <2>1, StutterIInv
<1> QED
  BY <1>1, <1>2, <1>3, <1>4, <1>5, <1>6 DEF Next

\* What is rash stays so.
LEMMA RashStays ==
  ASSUME [Next]_vars, rash
  PROVE  rash'
<1>1. CASE \E t \in Threads : ThreadStep(t)
  <2>1. PICK t \in Threads : ThreadStep(t)
    BY <1>1
  <2>2. CASE Callback(t) \/ ProcessEvent(t)
    BY <2>2 DEF Callback, TakeDirect, ProcessEvent
  <2>3. CASE StopPorts(t)
    BY <2>3 DEF StopPorts, PortStop, PortFlush, PortEmpty, ReturnBuffer, flow, history
  <2>4. CASE PortFlushEvent(t) \/ StartPortFails(t)
    BY <2>4 DEF PortFlushEvent, EventBack, StartPortFails, StartFails, flow, history
  <2>5. CASE ~(Callback(t) \/ ProcessEvent(t) \/ StopPorts(t) \/ PortFlushEvent(t)
               \/ StartPortFails(t))
    BY <2>1, <2>5 DEF ThreadStep, ReturnDone, ProcessSend, ProcessRefused, ForwardEvent, DropEvent,
       EventCall, DisableBegin, FlushQueue, FlushDone, EnableBegin, StartOut, StartIn, EnableFailed,
       flow, history
  <2> QED
    BY <2>2, <2>3, <2>4, <2>5
<1>2. CASE \E p \in Ports : ComponentReturns(p)
  BY <1>2 DEF ComponentReturns, ReturnBuffer, history
<1>3. CASE \E c \in Conns : ComponentReturnsEvent(c) \/ EventTest(c)
  BY <1>3 DEF ComponentReturnsEvent, EventBack, EventTest, flow, history
<1>4. CASE Worker
  BY <1>4 DEF Worker, WorkerWake, SendEmpty, EmptySent, NextEmpties, TakeFull, NextFulls, EndPass,
     flow, history
<1>5. CASE App \/ Client
  BY <1>5 DEF App, Client, EnableNext, EnableEnds, Join, DisableNext, DisableEnds, DestroyNext,
     DestroyPool, Each, GraphEnable, GraphDisable, GraphDestroy, flow, history
<1>6. CASE Done \/ UNCHANGED vars
  BY <1>6 DEF Done, vars, flow, history
<1> QED
  BY <1>1, <1>2, <1>3, <1>4, <1>5, <1>6 DEF Next

LEMMA InitIInv == Init => IInv
<1> SUFFICES ASSUME Init PROVE IInv
  OBVIOUS
<1>1. NumConns \in Nat \ {0} /\ MaxSema \in Nat \ {0} /\ MaxEnables \in Nat /\ MaxFaults \in Nat
  BY ConnAssumption, BoundAssumption
<1>2. /\ \A t \in Threads : stack[t] = <<>> /\ Frames(t) = {} /\ Idle(t)
      /\ \A h : Carriers(h) = {} /\ \A c : Calls(c) = {}
  <2>1. \A t \in Threads : stack[t] = <<>> /\ Idle(t)
    BY DEF Init, Idle
  <2>2. \A t \in Threads : Frames(t) = {}
    BY <2>1, EmptyIs DEF Frames
  <2> QED
    BY <2>1, <2>2 DEF Carriers, Calls
<1>3. Types
  <2>1. /\ stack \in [Threads -> Seq(FrameType)] /\ poolq \in [Conns -> Seq(Headers)]
        /\ connq \in [Conns -> Seq(Headers \cup {Event})]
    BY ShortIs DEF Init
  <2>2. work \in Work
    BY <1>1 DEF Init, Work, Fresh
  <2>3. budget \in [{"enables", "faults"} -> Nat]
    BY <1>1 DEF Init
  <2>4. /\ on \in [Ports -> BOOLEAN] /\ held \in [Ports -> SUBSET Headers]
        /\ enabled \in [Conns -> BOOLEAN] /\ alive \in [Conns -> BOOLEAN]
        /\ fits \in [Conns -> BOOLEAN] /\ refused \subseteq Conns /\ stop \in BOOLEAN
        /\ fwd \in [Conns -> Nat] /\ skipped \subseteq Conns /\ rash \in BOOLEAN
    BY DEF Init
  <2>5. sema \in 0..MaxSema /\ current \in 0..(NumConns - 1) /\ index \in 1..(NumConns + 1)
    BY <1>1 DEF Init
  <2>6. app = "off"
    BY DEF Init
  <2> QED
    BY <2>1, <2>2, <2>3, <2>4, <2>5, <2>6 DEF Types
<1>4. FrameInv
  <2>1. \A t \in Threads : Ordered(stack[t])
    BY <1>2, ShortIs
  <2> QED
    BY <1>2, <2>1, PortIs DEF FrameInv
<1>5. PlaceInv
  <2>1. \A c \in Conns : /\ poolq[c] = <<>> /\ connq[c] = <<>> /\ ~fits[c] /\ ~enabled[c]
                        /\ ToSet(poolq[c]) = {} /\ ToSet(connq[c]) = {}
                        /\ Once(poolq[c]) /\ Once(connq[c]) /\ Bare(connq[c])
    BY ShortIs, EmptyIs DEF Init
  <2>2. \A p \in Ports : held[p] = {}
    BY DEF Init
  <2>3. \A h \in Headers : Home[h] \in Conns
    BY ConnAssumption
  <2>4. \A h \in Headers : Alone(h)
    BY <1>2, <2>1, <2>2, <2>3, PortIs DEF Alone
  <2> QED
    BY <2>1, <2>2, <2>3, <2>4 DEF PlaceInv
<1>6. CallInv
  BY <1>2 DEF CallInv
<1>7. PortInv
  <2>1. ASSUME NEW c \in Conns PROVE PortFits(c)
    <3>1. ~on[In(c)] /\ ~on[Out(c)] /\ held[In(c)] = {} /\ held[Out(c)] = {} /\ fwd[c] = 0
      BY PortIs DEF Init
    <3>2. \A K : ~InCall(K, c)
      BY <1>2 DEF InCall
    <3>3. ToSet(connq[c]) = {}
      BY ShortIs DEF Init
    <3> QED
      BY <3>1, <3>2, <3>3 DEF PortFits, QuietIn, QuietOut
  <2> QED
    BY <2>1 DEF PortInv
<1>8. PhaseInv
  <2>1. work.at = "none" /\ app = "off" /\ ~stop
    BY DEF Init, Fresh
  <2>2. Frames("app") = {} /\ Frames("worker") = {}
    BY <1>2, PortIs
  <2>3. \A c \in Conns : ~enabled[c] /\ poolq[c] = <<>>
    BY DEF Init
  <2>4. \A c \in Conns : Untouched(c)
    BY <2>2, <2>3 DEF Untouched
  <2> QED
    BY <2>1, <2>2, <2>4 DEF PhaseInv
<1>9. DestroyInv
  BY DEF Init, DestroyInv
<1>10. WakeInv
  <2>1. ASSUME NEW c \in Conns PROVE Wakes(c)
    <3>1. connq[c] = <<>> /\ poolq[c] = <<>> /\ Len(connq[c]) = 0
      BY ShortIs DEF Init
    <3>2. Cardinality(Calls(c)) \in Nat
      <4>1. Calls(c) = {}
        BY <1>2
      <4>2. Cardinality({}) = 0
        BY FS_EmptySet
      <4> QED
        BY <4>1, <4>2
    <3> QED
      BY <3>1, <3>2 DEF Wakes
  <2> QED
    BY <2>1 DEF WakeInv
<1> QED
  BY <1>3, <1>4, <1>5, <1>6, <1>7, <1>8, <1>9, <1>10 DEF IInv

-----------------------------------------------------------------------------
\* A sequence keeps to the set of its elements.
LEMMA SeqWithin ==
  ASSUME NEW S, NEW s \in Seq(S), NEW T, ToSet(s) \subseteq T
  PROVE  s \in Seq(T)
<1>1. Len(s) \in Nat /\ s \in [1..Len(s) -> S]
  OBVIOUS
<1>2. \A i \in 1..Len(s) : s[i] \in T
  BY <1>1 DEF ToSet
<1>3. s \in [1..Len(s) -> T]
  BY <1>1, <1>2
<1> QED
  BY <1>1, <1>3

LEMMA TypesHold == IInv => TypeOK
<1> SUFFICES ASSUME IInv PROVE TypeOK
  OBVIOUS
<1>1. ASSUME NEW c \in Conns
      PROVE  poolq[c] \in Seq(Of(c)) /\ connq[c] \in Seq(Of(c) \cup {Event})
  <2>1. poolq[c] \in Seq(Headers) /\ connq[c] \in Seq(Headers \cup {Event})
    BY DEF IInv, Types
  <2>2. ToSet(poolq[c]) \subseteq Of(c) /\ ToSet(connq[c]) \subseteq Of(c) \cup {Event}
    BY DEF IInv, PlaceInv
  <2> QED
    BY <2>1, <2>2, SeqWithin
<1> QED
  BY <1>1 DEF IInv, Types, TypeOK

\* A set of which no two elements differ has one element, or none.
LEMMA OneIs ==
  ASSUME NEW S, \A x, y \in S : x = y
  PROVE  Cardinality(S) = IF S = {} THEN 0 ELSE 1
<1>1. CASE S = {}
  BY <1>1, FS_EmptySet
<1>2. CASE S # {}
  <2>1. PICK x : S = {x}
    BY <1>2
  <2> QED
    BY <2>1, <1>2, FS_Singleton
<1> QED
  BY <1>1, <1>2

\* The terms of Places.
LEMMA PlacesAre ==
  ASSUME IInv, NEW h \in Headers, NEW c, c = Home[h]
  PROVE  /\ Cardinality({i \in DOMAIN poolq[c] : poolq[c][i] = h})
              = IF h \in ToSet(poolq[c]) THEN 1 ELSE 0
         /\ Cardinality({i \in DOMAIN connq[c] : connq[c][i] = h})
              = IF h \in ToSet(connq[c]) THEN 1 ELSE 0
         /\ Cardinality({p \in Ports : h \in held[p]})
              = IF h \in held[Out(c)] \/ h \in held[In(c)] THEN 1 ELSE 0
         /\ {t \in Threads : {i \in DOMAIN stack[t] : stack[t][i].k \in {"process", "empty"}
                                                     /\ stack[t][i].b = h} # {}}
              = Carriers(h)
         /\ Cardinality(Carriers(h)) = IF Carriers(h) = {} THEN 0 ELSE 1
<1>1. c \in Conns /\ h # Event /\ Alone(h)
  BY ConnAssumption, EventAssumption DEF IInv, PlaceInv
<1>2. ASSUME NEW s, Once(s)
      PROVE  Cardinality({i \in DOMAIN s : s[i] = h}) = IF h \in ToSet(s) THEN 1 ELSE 0
  <2>1. \A i, j \in {i \in DOMAIN s : s[i] = h} : i = j
    BY <1>1, <1>2 DEF Once
  <2>2. h \in ToSet(s) <=> {i \in DOMAIN s : s[i] = h} # {}
    BY DEF ToSet
  <2> QED
    BY <2>1, <2>2, OneIs
<1>3. Once(poolq[c]) /\ Once(connq[c])
  BY <1>1 DEF IInv, PlaceInv
<1>4. Cardinality({p \in Ports : h \in held[p]})
        = IF h \in held[Out(c)] \/ h \in held[In(c)] THEN 1 ELSE 0
  <2>1. ASSUME NEW p \in Ports, h \in held[p]
        PROVE  p = Out(c) \/ p = In(c)
    <3>1. h \in Of(p[1])
      BY <2>1 DEF IInv, PlaceInv
    <3>2. p[1] = c
      BY <3>1 DEF Of
    <3>3. p = Out(p[1]) \/ p = In(p[1])
      BY PortIs
    <3> QED
      BY <3>2, <3>3
  <2>2. ~(h \in held[Out(c)] /\ h \in held[In(c)])
    BY <1>1 DEF Alone
  <2>3. \A p, r \in {p \in Ports : h \in held[p]} : p = r
    BY <2>1, <2>2
  <2>4. {p \in Ports : h \in held[p]} # {} <=> h \in held[Out(c)] \/ h \in held[In(c)]
    BY <1>1, <2>1, PortIs
  <2> QED
    BY <2>3, <2>4, OneIs
<1>5. ASSUME NEW t \in Threads
      PROVE  {i \in DOMAIN stack[t] : stack[t][i].k \in {"process", "empty"}
                                      /\ stack[t][i].b = h} # {} <=> t \in Carriers(h)
  BY DEF Carriers, Frames, ToSet, Carrying
<1>6. Cardinality(Carriers(h)) = IF Carriers(h) = {} THEN 0 ELSE 1
  <2>1. \A t, u \in Carriers(h) : t = u
    BY <1>1 DEF Alone
  <2> QED
    BY <2>1, OneIs
<1>7. Carriers(h) \subseteq Threads
  BY DEF Carriers
<1>8. {t \in Threads : {i \in DOMAIN stack[t] : stack[t][i].k \in {"process", "empty"}
                                               /\ stack[t][i].b = h} # {}} = Carriers(h)
  BY <1>5, <1>7
<1> QED
  BY <1>2, <1>3, <1>4, <1>6, <1>8

LEMMA OnePlaceHolds == IInv => OnePlace
<1> SUFFICES ASSUME IInv, NEW h \in Headers PROVE Places(h) <= 1
  BY DEF OnePlace
<1>1. Alone(h)
  BY DEF IInv, PlaceInv
<1> DEFINE n(P) == IF P THEN 1 ELSE 0
<1>2. PICK c : c = Home[h]
  OBVIOUS
<1>3. Places(h) = n(h \in ToSet(poolq[c])) + n(h \in ToSet(connq[c]))
                  + n(h \in held[Out(c)] \/ h \in held[In(c)]) + n(Carriers(h) # {})
  <2>1. \A P : n(P) = IF P THEN 1 ELSE 0
    OBVIOUS
  <2> HIDE DEF n
  <2> QED
    BY <1>2, <2>1, PlacesAre, ZenonT(40) DEF Places
<1>4. n(h \in ToSet(poolq[c])) + n(h \in ToSet(connq[c]))
        + n(h \in held[Out(c)] \/ h \in held[In(c)]) + n(Carriers(h) # {}) <= 1
  BY <1>1, <1>2 DEF Alone
<1> QED
  BY <1>3, <1>4

\* While a thread flushes the queue of a connection nobody else holds its headers.
LEMMA PoolWholeHolds == IInv => PoolWhole
<1> SUFFICES ASSUME IInv, NEW t \in Threads, Runs(t, "flush"), connq[Top(t).c] = <<>>
             PROVE  ToSet(poolq[Top(t).c]) = Of(Top(t).c)
  BY DEF PoolWhole
<1>1. PICK f : f = Top(t)
  OBVIOUS
<1>2. f \in Frames(t) /\ f.k = "flush" /\ ~Idle(t)
  BY <1>1, TopIs DEF Runs, IInv
<1>3. PICK c : c = f.c
  OBVIOUS
<1>4. c \in Conns /\ f \in FrameType
  BY <1>2, <1>3, TopIs DEF IInv, FrameType
<1>5. f.k \in Control /\ f.k \in Disabling /\ f.k \in Stopping /\ f.k \notin Carrying
  BY <1>2 DEF Control, Disabling, Stopping, Carrying
<1>6. CallFits(f)
  BY <1>2 DEF IInv, CallInv
<1>7. enabled[c] /\ QuietIn(c) /\ QuietOut(c)
  BY <1>2, <1>3, <1>5, <1>6 DEF CallFits
<1>8. t = "app" \/ t = "worker"
  <2>1. t \notin CompThreads
    BY <1>2, <1>5, TopIs DEF IInv, FrameFits
  <2> QED
    BY <2>1 DEF Threads
<1>9. ASSUME NEW h \in Of(c), NEW u \in Carriers(h) PROVE FALSE
  <2>1. PICK g \in Frames(u) : g.k \in Carrying /\ g.b = h
    BY <1>9 DEF Carriers
  <2>2. u \in Threads /\ h \in Headers /\ Home[h] = c /\ h # Event
    BY <1>9, EventAssumption DEF Carriers, Of
  <2>3. g.c = c /\ Frames(u) # {} /\ ~Idle(u) /\ g.k \notin Control
    BY <2>1, <2>2, TopIs, KindIs DEF FrameFits, IInv
  <2>4. CASE u \in CompThreads
    <3>0. ~Late(g)
      BY <2>1, <2>2 DEF Late
    <3>1. Top(u).c = c
      BY <2>1, <2>3, <2>4, <3>0, CompIs DEF IInv
    <3>2. InCall({"return in"}, c) \/ InCall({"return out"}, c)
      BY <2>1, <2>3, <2>4, <3>0, <3>1, CompIs DEF IInv
    <3> QED
      BY <1>7, <3>2 DEF QuietIn, QuietOut
  <2>5. u # t
    BY <1>1, <1>5, <1>9, CarriersIs DEF IInv
  <2>6. CASE u = "worker"
    <3>1. t = "app"
      BY <1>8, <2>5, <2>6
    <3>2. app \in {"disabling", "destroying"}
      BY <1>2, <1>5, <3>1 DEF IInv, PhaseInv
    <3>3. work.at = "none"
      BY <3>2 DEF IInv, PhaseInv
    <3> QED
      BY <2>3, <2>6, <3>3 DEF IInv, PhaseInv
  <2>7. CASE u = "app"
    <3>1. t = "worker"
      BY <1>8, <2>5, <2>7
    <3>2. work.at # "none"
      BY <1>2, <3>1 DEF IInv, PhaseInv
    <3>3. app = "enabling"
      BY <2>3, <2>7, <3>2 DEF IInv, PhaseInv
    <3>4. PICK w \in Frames("app") : w.k \in Waiting
      BY <2>1, <2>3, <2>7 DEF IInv, FrameInv
    <3>5. w.c = c /\ w.k \notin Disabling
      BY <2>1, <2>3, <2>7, <3>3, <3>4 DEF IInv, PhaseInv
    <3>6. w.k \in Starting
      BY <3>4, <3>5 DEF Waiting, Disabling, Starting
    <3>7. CallFits(w)
      BY <3>4, PortIs DEF IInv, CallInv
    <3> QED
      BY <1>7, <3>5, <3>6, <3>7 DEF CallFits
  <2> QED
    BY <2>2, <2>4, <2>6, <2>7 DEF Threads
<1>10. connq[c] = <<>> /\ ToSet(connq[c]) = {}
  BY <1>1, <1>3, EmptyIs
<1>11. ASSUME NEW h \in Of(c) PROVE h \in ToSet(poolq[c])
  <2>1. h \in Headers /\ Home[h] = c
    BY DEF Of
  <2>2. Somewhere(h)
    BY <1>7, <2>1 DEF IInv, PlaceInv
  <2>3. Carriers(h) = {}
    BY <1>9
  <2> QED
    BY <1>7, <1>10, <2>1, <2>2, <2>3 DEF Somewhere, QuietIn, QuietOut
<1>12. ToSet(poolq[c]) \subseteq Of(c)
  BY <1>4 DEF IInv, PlaceInv
<1> QED
  BY <1>1, <1>3, <1>11, <1>12

\* A thread of a component that is in no return of a header reports an event.
LEMMA ReportingIs ==
  ASSUME Types, FrameInv, NEW t \in CompThreads, \A f \in Frames(t) : Late(f),
         NEW c, NEW g \in Frames(t), g.c = c
  PROVE  Reporting(t, c)
<1>1. t \in Threads /\ ~Idle(t)
  BY WhoIs, TopIs DEF Threads
<1>2. Below(t) = {}
  <2>1. ASSUME NEW f \in Below(t) PROVE FALSE
    <3>1. Above(Top(t), f) /\ f \in Frames(t)
      BY <1>1, <2>1, TopIs
    <3>2. f.k \in {"event", "callback", "process"} /\ f.k \in Returns \cup Control
      BY <3>1 DEF Above, Late
    <3> QED
      BY <3>2 DEF Returns, Control, Disabling, Starting
  <2> QED
    BY <2>1
<1>3. g = Top(t) /\ Frames(t) = {g} /\ g \in FrameType
  BY <1>1, <1>2, TopIs
<1>4. stack[t] = <<g>>
  <2>1. stack[t] \in Seq(FrameType) /\ stack[t] # <<>>
    BY <1>1 DEF Types, Idle
  <2>2. Tail(stack[t]) = <<>>
    <3>1. Tail(stack[t]) \in Seq(FrameType)
      BY <2>1, HeadTailIs
    <3>2. ToSet(Tail(stack[t])) = {}
      BY <1>2 DEF Below
    <3>3. \A r \in Seq(FrameType) : ToSet(r) = {} => r = <<>>
      BY SeqIs
    <3> QED
      BY <3>1, <3>2, <3>3
  <2> QED
    BY <1>3, <2>1, <2>2 DEF Top
<1>5. g = Frame(g.k, c, Event)
  <2>1. g.b = Event
    BY DEF Late
  <2> QED
    BY <1>3, <2>1 DEF FrameType, Frame
<1>6. g.k \in {"event", "callback", "process"}
  BY DEF Late
<1> QED
  BY <1>4, <1>5, <1>6 DEF Reporting, Do, Cb

LEMMA QuietHolds == IInv => DestroyedIsQuiet
<1> SUFFICES ASSUME IInv, NEW c \in Conns, ~alive[c]
             PROVE  /\ \A p \in {Out(c), In(c)} : ~on[p] /\ Transit(p) = {}
                    /\ \A t \in Threads :
                         Reporting(t, c) \/ \A i \in DOMAIN stack[t] : stack[t][i].c # c
  BY DEF DestroyedIsQuiet
<1>1. app = "destroying" /\ ~enabled[c] /\ (Frames("app") # {} => c < index - 1)
  BY DEF IInv, DestroyInv
<1>2. Frames("worker") = {}
  <2>1. work.at = "none"
    BY <1>1 DEF IInv, PhaseInv
  <2> QED
    BY <2>1 DEF IInv, PhaseInv
<1>3. \A f \in Frames("app") : f.c # c
  <2> SUFFICES ASSUME NEW f \in Frames("app"), f.c = c PROVE FALSE
    OBVIOUS
  <2>1. c < index - 1 /\ c = index - 1
    BY <1>1 DEF IInv, PhaseInv
  <2>2. c \in Nat
    BY DEF Conns
  <2> QED
    BY <2>1, <2>2
<1>4. ASSUME NEW K, K \subseteq Control PROVE ~InCall(K, c)
  <2> SUFFICES ASSUME NEW u \in Threads, NEW f \in Frames(u), f.k \in K, f.c = c PROVE FALSE
    BY DEF InCall
  <2>1. u \notin CompThreads
    BY <1>4, TopIs DEF IInv, FrameFits
  <2> QED
    BY <1>2, <1>3, <2>1 DEF Threads
<1>5. PortFits(c)
  BY DEF IInv, PortInv
<1>6. /\ ~InCall({"start in", "undo out"}, c) /\ ~InCall({"wait in"}, c)
      /\ ~InCall({"wait out", "wait undo"}, c)
  <2>1. /\ {"start in", "undo out"} \subseteq Control /\ {"wait in"} \subseteq Control
        /\ {"wait out", "wait undo"} \subseteq Control
    BY DEF Control, Disabling, Starting
  <2> QED
    BY <1>4, <2>1
<1>7. ~on[In(c)] /\ ~on[Out(c)] /\ QuietIn(c) /\ QuietOut(c)
  BY <1>1, <1>5, <1>6 DEF PortFits
<1>8. Transit(In(c)) = {} /\ Transit(Out(c)) = {}
  BY <1>7, TransitIs DEF IInv
<1>9. ASSUME NEW u \in Threads, NEW f \in Frames(u), ~Reporting(u, c) PROVE f.c # c
  <2>1. CASE u \in CompThreads
    <3> SUFFICES ASSUME f.c = c PROVE FALSE
      OBVIOUS
    <3>1. ~Idle(u)
      BY TopIs DEF IInv
    <3>2. \E g \in Frames(u) : ~Late(g)
      BY <1>9, <2>1, ReportingIs DEF IInv
    <3>3. Top(u).c = c
      BY <2>1, <3>1, <3>2, CompIs DEF IInv
    <3>4. InCall({"return in"}, c) \/ InCall({"return out"}, c)
      BY <2>1, <3>1, <3>2, <3>3, CompIs DEF IInv
    <3> QED
      BY <1>7, <3>4 DEF QuietIn, QuietOut
  <2> QED
    BY <1>2, <1>3, <2>1 DEF Threads
<1>10. ASSUME NEW u \in Threads, NEW i \in DOMAIN stack[u], ~Reporting(u, c)
       PROVE  stack[u][i].c # c
  <2>1. stack[u][i] \in Frames(u)
    BY DEF Frames, ToSet
  <2> QED
    BY <1>9, <1>10, <2>1
<1> QED
  BY <1>7, <1>8, <1>10

LEMMA WakeupHolds == IInv => NoLostWakeup
<1> SUFFICES ASSUME IInv, app = "on", At("wait"), sema = 0, ~stop,
                    \A t \in Threads : \A i \in DOMAIN stack[t] : stack[t][i].k # "callback",
                    NEW c \in Conns
             PROVE  (c \notin skipped => connq[c] = <<>>) /\ (on[Out(c)] /\ c \notin refused => poolq[c] = <<>>)
  BY DEF NoLostWakeup
<1>1. Calls(c) = {}
  <2> SUFFICES ASSUME NEW t \in Threads, Cb(c) \in Frames(t) PROVE FALSE
    BY DEF Calls
  <2>1. PICK i \in DOMAIN stack[t] : stack[t][i] = Cb(c)
    BY DEF Frames, ToSet
  <2>2. Cb(c).k = "callback"
    BY FrameIs
  <2> QED
    BY <2>1, <2>2
<1>2. Cardinality(Calls(c)) = 0
  BY <1>1, FS_EmptySet
<1>3. Wakes(c)
  BY DEF IInv, WakeInv
<1>4. connq[c] \in Seq(Headers \cup {Event})
  BY DEF IInv, Types
<1>5. Len(connq[c]) \in Nat /\ (Len(connq[c]) = 0 <=> connq[c] = <<>>)
  BY <1>4, SeqIs
<1>6. work.at = "wait" /\ ~Again
  BY DEF At, Again
<1>7. c \in Direct => connq[c] = <<>>
  BY <1>2, <1>3, <1>5 DEF Wakes
<1>8. ~Pending(c)
  BY <1>1, <1>2, <1>5 DEF Pending
<1> QED
  BY <1>3, <1>6, <1>7, <1>8 DEF Wakes
-----------------------------------------------------------------------------
\* The inductive invariant, for any number of connections, headers and threads,
\* until a format change is handled beside a call that relies on its connection
\* (mmal_connection_reconfigure takes no lock).
THEOREM Invariance == Spec => [](~rash => IInv)
<1>1. Init => (~rash => IInv)
  BY InitIInv
<1>2. (~rash => IInv) /\ [Next]_vars => (~rash => IInv)'
  BY NextIInv, RashStays
<1> QED
  BY <1>1, <1>2, PTL DEF Spec

\* The variables keep their types, and the queues of a connection hold its own
\* headers and events only.
THEOREM TypeCorrect == Spec => [](~rash => TypeOK)
<1>1. (~rash => IInv) => (~rash => TypeOK)
  BY TypesHold
<1> QED
  BY <1>1, Invariance, PTL

\* A header is in one place, wherever the callbacks, the worker, a resize or a flush
\* have moved it, and when mmal_connection_disable has flushed the queue all are
\* in the pool; or a format change has been handled beside a call that relied on
\* the connection.
THEOREM HeadersCorrect == Spec => []HeadersAccounted
<1>1. (~rash => IInv) => HeadersAccounted
  BY OnePlaceHolds, PoolWholeHolds DEF HeadersAccounted
<1> QED
  BY <1>1, Invariance, PTL

\* mmal_graph_destroy frees a connection when its ports are quiet and no thread is
\* in a call or a callback that will use it, but for a late report of an event.
THEOREM DestroyCorrect == Spec => []DestroyedIsQuiet
<1>1. (~rash => IInv) => DestroyedIsQuiet
  BY QuietHolds DEF DestroyedIsQuiet
<1> QED
  BY <1>1, Invariance, PTL

\* The worker of a graph never sleeps on work that its last pass had time for.
THEOREM WakeupCorrect == Spec => []NoLostWakeup
<1>1. (~rash => IInv) => NoLostWakeup
  BY WakeupHolds DEF NoLostWakeup
<1> QED
  BY <1>1, Invariance, PTL

=============================================================================
