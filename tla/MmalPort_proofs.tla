--------------------------- MODULE MmalPort_proofs ---------------------------
(***************************************************************************)
(* Proofs about a port, for any number of client threads and buffers and   *)
(* any number of calls: the count of buffers in transit is exact, a port   *)
(* that has been disabled is empty, and no buffer is handed back through a *)
(* callback that has been cleared.                                         *)
(***************************************************************************)
EXTENDS MmalPort, FiniteSetTheorems, SequenceTheorems, TLAPS

\* Where a thread holds the lock of the connection, of sending, of the action.
ConnLabels  == {"enabling", "opening"} \cup DisableLabels
SendLabels  == {"incrementing", "delivering", "flushing"}
MutexLabels == {"draining", "flush_locking", "flushing", "acting", "event"}

LockInv ==
  /\ \A t \in Threads : pc[t] \in ConnLabels <=> connection_lock = t
  /\ \A t \in Threads : pc[t] \in SendLabels <=> send_lock = t
  /\ \A t \in Threads : pc[t] \in MutexLabels <=> action_mutex = t
  /\ pc[Action] \in {"idle", "acting", "event"}

\* A sender and a flush that hold their lock find the port enabled, as long as
\* they hold it; whoever has got past the stop of a disable finds it disabled.
OpenInv ==
  /\ \A t \in Threads : pc[t] \in SendLabels \cup {"stopping"} => is_enabled
  /\ \A t \in Threads : pc[t] \in ConnLabels \ {"stopping"} => ~is_enabled

\* Nothing is in transit from the wait of a disable to the end of the next enable.
ClosedInv ==
  /\ \A t \in Threads : pc[t] \in {"posting", "closing", "enabling", "opening"} =>
       transit = 0 /\ queue = <<>>
  /\ \A t \in Threads : pc[t] = "waiting" => queue = <<>>
  /\ ~is_enabled /\ connection_lock = NoThread => transit = 0 /\ queue = <<>>

\* The semaphore is one exactly when nothing is in transit, but for a disable
\* between its wait and its post.
SemaInv ==
  /\ (\E t \in Threads : pc[t] = "posting") => sema = 0
  /\ (\A t \in Threads : pc[t] # "posting") => sema = IF transit = 0 THEN 1 ELSE 0

\* The callback is there while a buffer can come back.
CallbackInv ==
  /\ is_enabled \/ transit # 0 => callback
  /\ \A t \in Threads : pc[t] \in DisableLabels \cup {"opening"} => callback

\* A thread makes one callback at a time, and has a list of buffers to hand back
\* or a buffer to send only at these places.
HandInv ==
  /\ \A t \in Threads : hand[t] # NoBuffer => ~owes[t]
  /\ \A t \in Threads : pend[t] # <<>> => pc[t] \in {"emptying", "returning"}
  /\ \A t \in Threads : buf[t] # NoBuffer <=> pc[t] \in {"incrementing", "delivering"}

\* A buffer is in one place.
Distinct(s) == \A i, j \in 1..Len(s) : s[i] = s[j] => i = j
PlaceInv ==
  /\ Distinct(queue) /\ \A t \in Threads : Distinct(pend[t])
  /\ comp \cap QueueBuffers = {}
  /\ \A t \in Threads : /\ (comp \cup QueueBuffers) \cap Elems(pend[t]) = {}
                        /\ hand[t] \notin comp \cup QueueBuffers
                        /\ buf[t] \notin InPort
  /\ \A t, u \in Threads : hand[t] \notin Elems(pend[u])
  /\ \A t, u \in Threads : t # u => /\ Elems(pend[t]) \cap Elems(pend[u]) = {}
                                    /\ hand[t] = hand[u] => hand[t] = NoBuffer
                                    /\ buf[t] = buf[u] => buf[t] = NoBuffer

CountInv == transit = Travelling

ControlInv == LockInv /\ OpenInv /\ ClosedInv /\ SemaInv /\ CallbackInv /\ HandInv
IInv == ControlInv /\ PlaceInv /\ CountInv

-----------------------------------------------------------------------------
\* The elements of a list whose head goes, to which one is added, or that is
\* divided in two.
LEMMA ElemsOf ==
  ASSUME NEW S, NEW s \in Seq(S)
  PROVE  Elems(s) \subseteq S /\ (Elems(s) = {} <=> s = <<>>)
<1>1. Len(s) \in Nat /\ \A i \in 1..Len(s) : s[i] \in S
  OBVIOUS
<1>2. s # <<>> => Len(s) \in Nat \ {0}
  BY EmptySeq
<1> QED
  BY <1>1, <1>2 DEF Elems

LEMMA ElemsTail ==
  ASSUME NEW S, NEW s \in Seq(S), s # <<>>, Distinct(s)
  PROVE  /\ Head(s) \in Elems(s) /\ Tail(s) \in Seq(S)
         /\ Elems(Tail(s)) = Elems(s) \ {Head(s)}
         /\ Distinct(Tail(s))
<1>1. Len(s) \in Nat \ {0} /\ Head(s) = s[1]
  BY EmptySeq
<1>2. /\ Tail(s) \in Seq(S) /\ Len(Tail(s)) = Len(s) - 1
      /\ \A i \in 1..Len(Tail(s)) : Tail(s)[i] = s[i + 1]
  BY HeadTailProperties
<1>3. Distinct(Tail(s))
  BY <1>1, <1>2 DEF Distinct
<1>4. \A i \in 1..Len(s) : s[i] # s[1] => i - 1 \in 1..Len(Tail(s)) /\ s[i] = Tail(s)[i - 1]
  BY <1>1, <1>2
<1>5. \A i \in 1..Len(Tail(s)) : Tail(s)[i] = s[i + 1] /\ i + 1 \in 1..Len(s) /\ s[i +
  1] # s[1]
  BY <1>1, <1>2 DEF Distinct
<1>6. Elems(Tail(s)) = Elems(s) \ {Head(s)}
  BY <1>1, <1>4, <1>5 DEF Elems
<1>7. Head(s) \in Elems(s)
  BY <1>1 DEF Elems
<1> QED
  BY <1>2, <1>3, <1>6, <1>7

LEMMA ElemsAppend ==
  ASSUME NEW S, NEW s \in Seq(S), NEW e \in S, e \notin Elems(s), Distinct(s)
  PROVE  /\ Append(s, e) \in Seq(S) /\ Append(s, e) # <<>>
         /\ Elems(Append(s, e)) = Elems(s) \cup {e}
         /\ Distinct(Append(s, e))
<1>1. Len(s) \in Nat
  OBVIOUS
<1>2. /\ Append(s, e) \in Seq(S) /\ Append(s, e) # <<>>
      /\ Len(Append(s, e)) = Len(s) + 1 /\ Append(s, e)[Len(s) + 1] = e
      /\ \A i \in 1..Len(s) : Append(s, e)[i] = s[i]
  BY AppendProperties
<1>3. Elems(Append(s, e)) = Elems(s) \cup {e}
  BY <1>1, <1>2 DEF Elems
<1>4. Distinct(Append(s, e))
  BY <1>1, <1>2 DEF Distinct, Elems
<1> QED
  BY <1>2, <1>3, <1>4

LEMMA ElemsSplit ==
  ASSUME NEW S, NEW s \in Seq(S), NEW n \in 0..Len(s), Distinct(s)
  PROVE  LET r == SubSeq(s, n + 1, Len(s))
             l == SubSeq(s, 1, n)
         IN /\ r \in Seq(S) /\ Distinct(r)
            /\ Elems(s) = Elems(l) \cup Elems(r) /\ Elems(l) \cap Elems(r) = {}
<1> DEFINE r == SubSeq(s, n + 1, Len(s))
           l == SubSeq(s, 1, n)
<1>1. Len(s) \in Nat /\ n \in Nat /\ n <= Len(s) /\ \A i \in 1..Len(s) : s[i] \in S
  OBVIOUS
<1>2. /\ r \in Seq(S) /\ Len(r) = Len(s) - n
      /\ \A i \in 1..Len(s) - n : r[i] = s[n + i]
  <2>1. \A i \in n + 1..Len(s) : s[i] \in S
    BY <1>1
  <2>2. /\ r \in Seq(S) /\ Len(r) = IF n + 1 <= Len(s) THEN Len(s) - (n + 1) + 1 ELSE 0
        /\ \A i \in 1..Len(s) - (n + 1) + 1 : r[i] = s[n + 1 + i - 1]
    BY <1>1, <2>1, SubSeqProperties
  <2> HIDE DEF r
  <2> QED
    BY <1>1, <2>2
<1>3. Len(l) = n /\ \A i \in 1..n : l[i] = s[i]
  <2>1. \A i \in 1..n : s[i] \in S
    BY <1>1
  <2>2. /\ Len(l) = IF 1 <= n THEN n - 1 + 1 ELSE 0
        /\ \A i \in 1..n - 1 + 1 : l[i] = s[1 + i - 1]
    BY <1>1, <2>1, SubSeqProperties
  <2> HIDE DEF l
  <2> QED
    BY <1>1, <2>2
<1> HIDE DEF l, r
<1>4. Distinct(r)
  BY <1>1, <1>2 DEF Distinct
<1>5. \A i \in 1..Len(s) : i \in 1..n \/ (i - n \in 1..Len(s) - n /\ s[i] = r[i - n])
  BY <1>1, <1>2
<1>6. Elems(s) = Elems(l) \cup Elems(r)
  BY <1>1, <1>2, <1>3, <1>5 DEF Elems
<1>7. Elems(l) \cap Elems(r) = {}
  BY <1>1, <1>2, <1>3 DEF Elems, Distinct
<1> QED
  BY <1>2, <1>4, <1>6, <1>7 DEF l, r

-----------------------------------------------------------------------------
\* Who holds the locks.
LEMMA LockStep ==
  ASSUME TypeOK, LockInv, [Next]_vars
  PROVE  LockInv'
<1> USE NamesAssumption DEF Threads, At, Goto, Call, Spend, TypeOK, LockInv, ConnLabels,
        DisableLabels, SendLabels, MutexLabels, port, count, locks, local, back
<1>1. ASSUME NEW t \in Clients, EnableCall(t) PROVE LockInv'
  BY <1>1 DEF EnableCall
<1>2. ASSUME NEW t \in Clients, PfEnable(t) PROVE LockInv'
  <2>1. CASE Goto(t, "opening") /\ UNCHANGED connection_lock
    BY <1>2, <2>1 DEF PfEnable
  <2>2. CASE Goto(t, "idle") /\ connection_lock' = NoThread
    BY <1>2, <2>2 DEF PfEnable
  <2> QED
    BY <1>2, <2>1, <2>2 DEF PfEnable
<1>3. ASSUME NEW t \in Clients, EnableOpen(t) PROVE LockInv'
  BY <1>3 DEF EnableOpen
<1>4. ASSUME NEW t \in Clients, DisableCall(t) PROVE LockInv'
  BY <1>4 DEF DisableCall
<1>5. ASSUME NEW t \in Clients, DisableStop(t) PROVE LockInv'
  BY <1>5 DEF DisableStop
<1>6. ASSUME NEW t \in Clients, DisableLock(t) PROVE LockInv'
  BY <1>6 DEF DisableLock
<1>7. ASSUME NEW t \in Clients, DisableDrain(t) PROVE LockInv'
  BY <1>7 DEF DisableDrain
<1>8. ASSUME NEW t \in Clients, DisableDone(t) PROVE LockInv'
  BY <1>8 DEF DisableDone
<1>9. ASSUME NEW t \in Clients, DisableFail(t) PROVE LockInv'
  BY <1>9 DEF DisableFail
<1>10. ASSUME NEW t \in Clients, DisableReopen(t) PROVE LockInv'
  BY <1>10 DEF DisableReopen
<1>11. ASSUME NEW t \in Clients, DisableReturn(t) PROVE LockInv'
  BY <1>11 DEF DisableReturn, ReturnPending
<1>12. ASSUME NEW t \in Clients, DisableEmptied(t) PROVE LockInv'
  BY <1>12 DEF DisableEmptied
<1>13. ASSUME NEW t \in Clients, DisableWait(t) PROVE LockInv'
  BY <1>13 DEF DisableWait
<1>14. ASSUME NEW t \in Clients, DisablePost(t) PROVE LockInv'
  BY <1>14 DEF DisablePost
<1>15. ASSUME NEW t \in Clients, DisableClose(t) PROVE LockInv'
  BY <1>15 DEF DisableClose
<1>16. ASSUME NEW t \in Clients, SendIncrement(t) PROVE LockInv'
  BY <1>16 DEF SendIncrement
<1>17. ASSUME NEW t \in Clients, SendQueue(t) PROVE LockInv'
  BY <1>17 DEF SendQueue, Sent
<1>18. ASSUME NEW t \in Clients, SendDeliver(t) PROVE LockInv'
  BY <1>18 DEF SendDeliver, Sent
<1>19. ASSUME NEW t \in Clients, SendFail(t) PROVE LockInv'
  BY <1>19 DEF SendFail, Sent
<1>20. ASSUME NEW t \in Clients, FlushCall(t) PROVE LockInv'
  BY <1>20 DEF FlushCall
<1>21. ASSUME NEW t \in Clients, FlushLock(t) PROVE LockInv'
  <2>1. CASE is_enabled
    BY <1>21, <2>1 DEF FlushLock
  <2>2. CASE ~is_enabled
    <3>1. /\ action_mutex = t /\ action_mutex' = NoThread /\ Goto(t, "idle")
          /\ UNCHANGED <<connection_lock, send_lock>>
      BY <1>21, <2>2 DEF FlushLock
    <3> QED
      BY <3>1, <1>21 DEF FlushLock
  <2> QED
    BY <2>1, <2>2
<1>22. ASSUME NEW t \in Clients, FlushDrain(t) PROVE LockInv'
  BY <1>22 DEF FlushDrain
<1>23. ASSUME NEW t \in Clients, FlushDone(t) PROVE LockInv'
  BY <1>23 DEF FlushDone
<1>24. ASSUME NEW t \in Clients, FlushReturn(t) PROVE LockInv'
  BY <1>24 DEF FlushReturn, ReturnPending
<1>25. ASSUME NEW t \in Clients, FlushEnd(t) PROVE LockInv'
  BY <1>25 DEF FlushEnd
<1>26. ASSUME NEW t \in Clients, Pause(t) PROVE LockInv'
  BY <1>26 DEF Pause
<1>27. ASSUME NEW t \in Clients, Resume(t) PROVE LockInv'
  BY <1>27 DEF Resume
<1>28. ASSUME NEW t \in Clients, NEW b \in Buffers, SendCall(t, b) PROVE LockInv'
  BY <1>28 DEF SendCall
<1>29. ASSUME NEW t \in Threads, BackStep(t) PROVE LockInv'
  BY <1>29 DEF BackStep, Callback, TransitDecrement
<1>30. CASE ActionBegin \/ ActionStep
  BY <1>30 DEF ActionBegin, ActionStep, ActionReturn, EventCheck, EventCall, ActionEnd
<1>31. CASE UNCHANGED vars
  BY <1>31 DEF vars
<1> QED
  BY <1>1, <1>2, <1>3, <1>4, <1>5, <1>6, <1>7, <1>8, <1>9, <1>10, <1>11, <1>12, <1>13,
     <1>14, <1>15, <1>16, <1>17, <1>18, <1>19, <1>20, <1>21, <1>22, <1>23, <1>24, <1>25,
     <1>26, <1>27, <1>28, <1>29, <1>30, <1>31
     DEF Next, ClientCall, ClientStep, Rest

-----------------------------------------------------------------------------
\* What a count of zero and a count above zero say.
Owing      == {t \in Threads : owes[t]}
Delivering == {t \in Threads : pc[t] = "delivering"}

Inside(b) == \/ b \in comp \/ b \in QueueBuffers
             \/ \E t \in Threads : b \in Elems(pend[t])
             \/ (b # NoBuffer /\ \E t \in Threads : b = hand[t])

LEMMA InPortMember ==
  \A b : (b \in InPort <=> Inside(b)) /\ (b \in InPort' <=> Inside(b)')
<1> HIDE DEF QueueBuffers, Elems, Threads
<1>1. \A b : b \in InPort <=> Inside(b)
  BY DEF InPort, Inside
<1>2. \A b : b \in InPort' <=> Inside(b)'
  BY DEF InPort, Inside
<1> QED
  BY <1>1, <1>2

LEMMA InPortFinite ==
  ASSUME TypeOK
  PROVE  InPort \subseteq Buffers /\ IsFiniteSet(InPort) /\ Cardinality(InPort) \in Nat
<1>1. Elems(queue) \subseteq Buffers /\ \A t \in Threads : Elems(pend[t]) \subseteq Buffers
  BY ElemsOf DEF TypeOK
<1>2. /\ comp \subseteq Buffers /\ QueueBuffers \subseteq Buffers
      /\ \A t \in Threads : Elems(pend[t]) \subseteq Buffers
      /\ {hand[t] : t \in Threads} \ {NoBuffer} \subseteq Buffers
  BY <1>1 DEF QueueBuffers, TypeOK
<1>3. InPort \subseteq Buffers
  BY <1>2, InPortMember DEF Inside
<1> QED
  BY <1>3, BoundsAssumption, FS_Subset, FS_CardinalityType

LEMMA ThreadsFinite ==
  ASSUME NEW S, S \subseteq Threads
  PROVE  IsFiniteSet(S) /\ Cardinality(S) \in Nat /\ (Cardinality(S) = 0 <=> S = {})
<1>1. IsFiniteSet(Threads)
  BY BoundsAssumption, FS_AddElement DEF Threads
<1> QED
  BY <1>1, FS_Subset, FS_CardinalityType, FS_EmptySet

LEMMA InTransit ==
  ASSUME TypeOK, CountInv
  PROVE  /\ transit = 0 => /\ InPort = {}
                           /\ \A t \in Threads : ~owes[t] /\ pc[t] # "delivering"
                                                 /\ hand[t] = NoBuffer /\ pend[t] = <<>>
         /\ \A t \in Threads : owes[t] \/ pc[t] = "delivering" => transit > 0
<1>1. /\ Cardinality(InPort) \in Nat /\ (Cardinality(InPort) = 0 <=> InPort = {})
  BY InPortFinite, FS_EmptySet
<1>2. /\ Cardinality(Owing) \in Nat /\ (Cardinality(Owing) = 0 <=> Owing = {})
      /\ Cardinality(Delivering) \in Nat /\ (Cardinality(Delivering) = 0 <=> Delivering = {})
  BY ThreadsFinite DEF Owing, Delivering
<1>3. transit = Cardinality(InPort) + Cardinality(Owing) + Cardinality(Delivering)
  BY DEF CountInv, Travelling, Owing, Delivering
<1>4. \A i, o, d \in Nat : /\ i + o + d = 0 => i = 0 /\ o = 0 /\ d = 0
                           /\ o # 0 \/ d # 0 => i + o + d > 0
  OBVIOUS
<1>5. /\ transit = 0 => InPort = {} /\ Owing = {} /\ Delivering = {}
      /\ Owing # {} \/ Delivering # {} => transit > 0
  BY <1>1, <1>2, <1>3, <1>4, Zenon
<1>6. \A t \in Threads : pend[t] = <<>> <=> Elems(pend[t]) = {}
  BY ElemsOf DEF TypeOK
<1>7. InPort = {} => \A t \in Threads : hand[t] = NoBuffer /\ Elems(pend[t]) = {}
  <2>1. ASSUME NEW t \in Threads, InPort = {} PROVE hand[t] = NoBuffer
    BY <2>1, InPortMember DEF Inside
  <2>2. ASSUME NEW t \in Threads, NEW b \in Elems(pend[t]), InPort = {} PROVE FALSE
    <3>1. b \in InPort
      BY InPortMember DEF Inside
    <3> QED
      BY <2>2, <3>1
  <2> QED
    BY <2>1, <2>2
<1> QED
  BY <1>5, <1>6, <1>7 DEF Owing, Delivering

-----------------------------------------------------------------------------
\* What the port, the count and its semaphore are at each place of each thread.
LEMMA ControlStep ==
  ASSUME TypeOK, IInv, [Next]_vars
  PROVE  OpenInv' /\ CallbackInv' /\ ClosedInv' /\ SemaInv'
<1> DEFINE Goal == OpenInv /\ CallbackInv /\ ClosedInv /\ SemaInv
<1>0. /\ transit = 0 => \A t \in Threads : ~owes[t] /\ pc[t] # "delivering"
      /\ \A t \in Threads : owes[t] \/ pc[t] = "delivering" => transit > 0
  BY InTransit DEF IInv
<1> USE NamesAssumption, <1>0
    DEF IInv, ControlInv, OpenInv, CallbackInv, ClosedInv, SemaInv, LockInv,
        Threads, At, Goto, Call, Spend, TypeOK, ConnLabels, DisableLabels, SendLabels,
        port, count, locks, local, back
<1>1. ASSUME NEW t \in Clients, EnableCall(t) PROVE Goal'
  BY <1>1 DEF EnableCall
<1>2. ASSUME NEW t \in Clients, PfEnable(t) PROVE Goal'
  BY <1>2 DEF PfEnable
<1>3. ASSUME NEW t \in Clients, EnableOpen(t) PROVE Goal'
  BY <1>3 DEF EnableOpen
<1>4. ASSUME NEW t \in Clients, DisableCall(t) PROVE Goal'
  BY <1>4 DEF DisableCall
<1>5. ASSUME NEW t \in Clients, DisableStop(t) PROVE Goal'
  BY <1>5 DEF DisableStop
<1>6. ASSUME NEW t \in Clients, DisableLock(t) PROVE Goal'
  BY <1>6 DEF DisableLock
<1>7. ASSUME NEW t \in Clients, DisableDrain(t) PROVE Goal'
  BY <1>7 DEF DisableDrain, HandBack
<1>8. ASSUME NEW t \in Clients, DisableDone(t) PROVE Goal'
  BY <1>8 DEF DisableDone
<1>9. ASSUME NEW t \in Clients, DisableFail(t) PROVE Goal'
  BY <1>9 DEF DisableFail
<1>10. ASSUME NEW t \in Clients, DisableReopen(t) PROVE Goal'
  BY <1>10 DEF DisableReopen
<1>11. ASSUME NEW t \in Clients, DisableReturn(t) PROVE Goal'
  BY <1>11 DEF DisableReturn, ReturnPending, HandBack
<1>12. ASSUME NEW t \in Clients, DisableEmptied(t) PROVE Goal'
  BY <1>12 DEF DisableEmptied
<1>13. ASSUME NEW t \in Clients, DisableWait(t) PROVE Goal'
  BY <1>13 DEF DisableWait
<1>14. ASSUME NEW t \in Clients, DisablePost(t) PROVE Goal'
  BY <1>14 DEF DisablePost
<1>15. ASSUME NEW t \in Clients, DisableClose(t) PROVE Goal'
  BY <1>15 DEF DisableClose
<1>16. ASSUME NEW t \in Clients, SendIncrement(t) PROVE Goal'
  BY <1>16 DEF SendIncrement
<1>17. ASSUME NEW t \in Clients, SendQueue(t) PROVE Goal'
  BY <1>17 DEF SendQueue, Sent
<1>18. ASSUME NEW t \in Clients, SendDeliver(t) PROVE Goal'
  BY <1>18 DEF SendDeliver, Sent
<1>19. ASSUME NEW t \in Clients, SendFail(t) PROVE Goal'
  BY <1>19 DEF SendFail, Sent, Decrement
<1>20. ASSUME NEW t \in Clients, FlushCall(t) PROVE Goal'
  BY <1>20 DEF FlushCall
<1>21. ASSUME NEW t \in Clients, FlushLock(t) PROVE Goal'
  BY <1>21 DEF FlushLock
<1>22. ASSUME NEW t \in Clients, FlushDrain(t) PROVE Goal'
  BY <1>22 DEF FlushDrain, HandBack
<1>23. ASSUME NEW t \in Clients, FlushDone(t) PROVE Goal'
  BY <1>23 DEF FlushDone
<1>24. ASSUME NEW t \in Clients, FlushReturn(t) PROVE Goal'
  BY <1>24 DEF FlushReturn, ReturnPending, HandBack
<1>25. ASSUME NEW t \in Clients, FlushEnd(t) PROVE Goal'
  BY <1>25 DEF FlushEnd
<1>26. ASSUME NEW t \in Clients, Pause(t) PROVE Goal'
  BY <1>26 DEF Pause
<1>27. ASSUME NEW t \in Clients, Resume(t) PROVE Goal'
  BY <1>27 DEF Resume
<1>28. ASSUME NEW t \in Clients, NEW b \in Buffers, SendCall(t, b) PROVE Goal'
  BY <1>28 DEF SendCall
<1>29. ASSUME NEW t \in Threads, Callback(t) PROVE Goal'
  BY <1>29 DEF Callback
<1>30. ASSUME NEW t \in Threads, TransitDecrement(t) PROVE Goal'
  BY <1>30 DEF TransitDecrement, Decrement
<1>31. CASE ActionBegin \/ EventCheck \/ EventCall \/ ActionEnd
  BY <1>31 DEF ActionBegin, EventCheck, EventCall, ActionEnd
<1>32. CASE ActionReturn
  BY <1>32 DEF ActionReturn, HandBack
<1>33. CASE UNCHANGED vars
  BY <1>33 DEF vars
<1> QED
  BY <1>1, <1>2, <1>3, <1>4, <1>5, <1>6, <1>7, <1>8, <1>9, <1>10, <1>11,
     <1>12, <1>13, <1>14, <1>15, <1>16, <1>17, <1>18, <1>19, <1>20, <1>21,
     <1>22, <1>23, <1>24, <1>25, <1>26, <1>27, <1>28, <1>29, <1>30, <1>31,
     <1>32, <1>33
     DEF Next, ClientCall, ClientStep, BackStep, ActionStep, Rest

LEMMA HandStep ==
  ASSUME TypeOK, IInv, [Next]_vars
  PROVE  HandInv'
<1> USE NamesAssumption
    DEF IInv, ControlInv, HandInv, Threads, At, Goto, Call, Spend, TypeOK,
        port, count, locks, local, back
<1>1. ASSUME NEW t \in Clients, EnableCall(t) PROVE HandInv'
  BY <1>1 DEF EnableCall
<1>2. ASSUME NEW t \in Clients, PfEnable(t) PROVE HandInv'
  BY <1>2 DEF PfEnable
<1>3. ASSUME NEW t \in Clients, EnableOpen(t) PROVE HandInv'
  BY <1>3 DEF EnableOpen
<1>4. ASSUME NEW t \in Clients, DisableCall(t) PROVE HandInv'
  BY <1>4 DEF DisableCall
<1>5. ASSUME NEW t \in Clients, DisableStop(t) PROVE HandInv'
  BY <1>5 DEF DisableStop
<1>6. ASSUME NEW t \in Clients, DisableLock(t) PROVE HandInv'
  BY <1>6 DEF DisableLock
<1>7. ASSUME NEW t \in Clients, DisableDrain(t) PROVE HandInv'
  BY <1>7 DEF DisableDrain, HandBack
<1>8. ASSUME NEW t \in Clients, DisableDone(t) PROVE HandInv'
  BY <1>8 DEF DisableDone
<1>9. ASSUME NEW t \in Clients, DisableFail(t) PROVE HandInv'
  BY <1>9 DEF DisableFail
<1>10. ASSUME NEW t \in Clients, DisableReopen(t) PROVE HandInv'
  BY <1>10 DEF DisableReopen
<1>11. ASSUME NEW t \in Clients, DisableReturn(t) PROVE HandInv'
  BY <1>11 DEF DisableReturn, ReturnPending, HandBack
<1>12. ASSUME NEW t \in Clients, DisableEmptied(t) PROVE HandInv'
  BY <1>12 DEF DisableEmptied
<1>13. ASSUME NEW t \in Clients, DisableWait(t) PROVE HandInv'
  BY <1>13 DEF DisableWait
<1>14. ASSUME NEW t \in Clients, DisablePost(t) PROVE HandInv'
  BY <1>14 DEF DisablePost
<1>15. ASSUME NEW t \in Clients, DisableClose(t) PROVE HandInv'
  BY <1>15 DEF DisableClose
<1>16. ASSUME NEW t \in Clients, SendIncrement(t) PROVE HandInv'
  BY <1>16 DEF SendIncrement
<1>17. ASSUME NEW t \in Clients, SendQueue(t) PROVE HandInv'
  BY <1>17 DEF SendQueue, Sent
<1>18. ASSUME NEW t \in Clients, SendDeliver(t) PROVE HandInv'
  BY <1>18 DEF SendDeliver, Sent
<1>19. ASSUME NEW t \in Clients, SendFail(t) PROVE HandInv'
  BY <1>19 DEF SendFail, Sent, Decrement
<1>20. ASSUME NEW t \in Clients, FlushCall(t) PROVE HandInv'
  BY <1>20 DEF FlushCall
<1>21. ASSUME NEW t \in Clients, FlushLock(t) PROVE HandInv'
  BY <1>21 DEF FlushLock
<1>22. ASSUME NEW t \in Clients, FlushDrain(t) PROVE HandInv'
  BY <1>22 DEF FlushDrain, HandBack
<1>23. ASSUME NEW t \in Clients, FlushDone(t) PROVE HandInv'
  BY <1>23 DEF FlushDone
<1>24. ASSUME NEW t \in Clients, FlushReturn(t) PROVE HandInv'
  BY <1>24 DEF FlushReturn, ReturnPending, HandBack
<1>25. ASSUME NEW t \in Clients, FlushEnd(t) PROVE HandInv'
  BY <1>25 DEF FlushEnd
<1>26. ASSUME NEW t \in Clients, Pause(t) PROVE HandInv'
  BY <1>26 DEF Pause
<1>27. ASSUME NEW t \in Clients, Resume(t) PROVE HandInv'
  BY <1>27 DEF Resume
<1>28. ASSUME NEW t \in Clients, NEW b \in Buffers, SendCall(t, b) PROVE HandInv'
  BY <1>28 DEF SendCall
<1>29. ASSUME NEW t \in Threads, Callback(t) PROVE HandInv'
  BY <1>29 DEF Callback
<1>30. ASSUME NEW t \in Threads, TransitDecrement(t) PROVE HandInv'
  BY <1>30 DEF TransitDecrement, Decrement
<1>31. CASE ActionBegin \/ EventCheck \/ EventCall \/ ActionEnd
  BY <1>31 DEF ActionBegin, EventCheck, EventCall, ActionEnd
<1>32. CASE ActionReturn
  BY <1>32 DEF ActionReturn, HandBack
<1>33. CASE UNCHANGED vars
  BY <1>33 DEF vars
<1> QED
  BY <1>1, <1>2, <1>3, <1>4, <1>5, <1>6, <1>7, <1>8, <1>9, <1>10, <1>11,
     <1>12, <1>13, <1>14, <1>15, <1>16, <1>17, <1>18, <1>19, <1>20, <1>21,
     <1>22, <1>23, <1>24, <1>25, <1>26, <1>27, <1>28, <1>29, <1>30, <1>31,
     <1>32, <1>33
     DEF Next, ClientCall, ClientStep, BackStep, ActionStep, Rest

\* The types, given those of the count and its semaphore.
LEMMA TypeStep ==
  ASSUME TypeOK, IInv, transit' \in Nat, sema' \in {0, 1}, [Next]_vars
  PROVE  TypeOK'
<1> USE NamesAssumption
    DEF Threads, At, Goto, Call, Spend, TypeOK, port, count, locks, local, back, Labels,
        DisableLabels
<1>1. ASSUME NEW t \in Clients, EnableCall(t) PROVE TypeOK'
  <2>1. calls' \in [Threads -> Nat]
    BY <1>1 DEF EnableCall
  <2>2. pc' \in [Threads -> Labels] /\ connection_lock' \in Threads \cup {NoThread}
    BY <1>1 DEF EnableCall
  <2> QED
    BY <1>1, <2>1, <2>2 DEF EnableCall
<1>2. ASSUME NEW t \in Clients, PfEnable(t) PROVE TypeOK'
  BY <1>2 DEF PfEnable
<1>3. ASSUME NEW t \in Clients, EnableOpen(t) PROVE TypeOK'
  BY <1>3 DEF EnableOpen
<1>4. ASSUME NEW t \in Clients, DisableCall(t) PROVE TypeOK'
  <2>1. calls' \in [Threads -> Nat]
    BY <1>4 DEF DisableCall
  <2>2. pc' \in [Threads -> Labels] /\ connection_lock' \in Threads \cup {NoThread}
    BY <1>4 DEF DisableCall
  <2> QED
    BY <1>4, <2>1, <2>2 DEF DisableCall
<1>5. ASSUME NEW t \in Clients, DisableStop(t) PROVE TypeOK'
  BY <1>5 DEF DisableStop
<1>6. ASSUME NEW t \in Clients, DisableLock(t) PROVE TypeOK'
  BY <1>6 DEF DisableLock
<1>7. ASSUME NEW t \in Clients, DisableDrain(t) PROVE TypeOK'
  BY <1>7 DEF DisableDrain, HandBack
<1>8. ASSUME NEW t \in Clients, DisableDone(t) PROVE TypeOK'
  BY <1>8 DEF DisableDone
<1>9. ASSUME NEW t \in Clients, DisableFail(t) PROVE TypeOK'
  BY <1>9 DEF DisableFail
<1>10. ASSUME NEW t \in Clients, DisableReopen(t) PROVE TypeOK'
  BY <1>10 DEF DisableReopen
<1>11. ASSUME NEW t \in Clients, DisableReturn(t) PROVE TypeOK'
  BY <1>11 DEF DisableReturn, ReturnPending, HandBack
<1>12. ASSUME NEW t \in Clients, DisableEmptied(t) PROVE TypeOK'
  BY <1>12 DEF DisableEmptied
<1>13. ASSUME NEW t \in Clients, DisableWait(t) PROVE TypeOK'
  BY <1>13 DEF DisableWait
<1>14. ASSUME NEW t \in Clients, DisablePost(t) PROVE TypeOK'
  BY <1>14 DEF DisablePost
<1>15. ASSUME NEW t \in Clients, DisableClose(t) PROVE TypeOK'
  BY <1>15 DEF DisableClose
<1>16. ASSUME NEW t \in Clients, SendIncrement(t) PROVE TypeOK'
  BY <1>16 DEF SendIncrement
<1>17. ASSUME NEW t \in Clients, SendQueue(t) PROVE TypeOK'
  <2>1. buf[t] \in Buffers
    BY <1>17 DEF SendQueue, IInv, ControlInv, HandInv
  <2>2. Append(queue, buf[t]) \in Seq(Buffers)
    BY <2>1
  <2> QED
    BY <1>17, <2>1, <2>2 DEF SendQueue, Sent
<1>18. ASSUME NEW t \in Clients, SendDeliver(t) PROVE TypeOK'
  <2>1. buf[t] \in Buffers
    BY <1>18 DEF SendDeliver, IInv, ControlInv, HandInv
  <2>2. Append(queue, buf[t]) \in Seq(Buffers)
    BY <2>1
  <2> QED
    BY <1>18, <2>1, <2>2 DEF SendDeliver, Sent
<1>19. ASSUME NEW t \in Clients, SendFail(t) PROVE TypeOK'
  BY <1>19 DEF SendFail, Sent, Decrement
<1>20. ASSUME NEW t \in Clients, FlushCall(t) PROVE TypeOK'
  BY <1>20 DEF FlushCall
<1>21. ASSUME NEW t \in Clients, FlushLock(t) PROVE TypeOK'
  BY <1>21 DEF FlushLock
<1>22. ASSUME NEW t \in Clients, FlushDrain(t) PROVE TypeOK'
  BY <1>22 DEF FlushDrain, HandBack
<1>23. ASSUME NEW t \in Clients, FlushDone(t) PROVE TypeOK'
  <2>1. queue' \in Seq(Buffers)
    <3>1. queue' = queue \/ queue' = <<>>
      BY <1>23 DEF FlushDone
    <3> QED
      BY <3>1, EmptySeq
  <2>2. pend' = [pend EXCEPT ![t] = queue] \/ pend' = pend
    BY <1>23 DEF FlushDone
  <2>3. pend' \in [Threads -> Seq(Buffers)]
    BY <2>2
  <2> QED
    BY <1>23, <2>1, <2>3 DEF FlushDone
<1>24. ASSUME NEW t \in Clients, FlushReturn(t) PROVE TypeOK'
  BY <1>24 DEF FlushReturn, ReturnPending, HandBack
<1>25. ASSUME NEW t \in Clients, FlushEnd(t) PROVE TypeOK'
  BY <1>25 DEF FlushEnd
<1>26. ASSUME NEW t \in Clients, Pause(t) PROVE TypeOK'
  BY <1>26 DEF Pause
<1>27. ASSUME NEW t \in Clients, Resume(t) PROVE TypeOK'
  <2>1. ASSUME NEW n \in 0..Len(queue)
        PROVE  /\ SubSeq(queue, n + 1, Len(queue)) \in Seq(Buffers)
               /\ Elems(SubSeq(queue, 1, n)) \subseteq Buffers
    BY ElemsOf, ElemsSplit DEF IInv, PlaceInv
  <2>2. queue' \in Seq(Buffers) /\ comp' \in SUBSET Buffers /\ is_paused' \in BOOLEAN
    BY <1>27, <2>1 DEF Resume
  <2>3. calls' \in [Threads -> Nat]
    BY <1>27 DEF Resume
  <2> QED
    BY <1>27, <2>2, <2>3 DEF Resume
<1>28. ASSUME NEW t \in Clients, NEW b \in Buffers, SendCall(t, b) PROVE TypeOK'
  <2>1. calls' \in [Threads -> Nat]
    BY <1>28 DEF SendCall
  <2>2. /\ pc' \in [Threads -> Labels] /\ send_lock' \in Threads \cup {NoThread}
        /\ buf' \in [Threads -> Buffers \cup {NoBuffer}]
    <3>1. CASE ~is_enabled
      BY <1>28, <3>1 DEF SendCall
    <3>2. CASE is_enabled
      <4>1. /\ send_lock' = t /\ buf' = [buf EXCEPT ![t] = b]
            /\ pc' = [pc EXCEPT ![t] = "incrementing"]
        BY <1>28, <3>2 DEF SendCall
      <4> QED
        BY <4>1
    <3> QED
      BY <3>1, <3>2
  <2> QED
    BY <1>28, <2>1, <2>2 DEF SendCall
<1>29. ASSUME NEW t \in Threads, Callback(t) PROVE TypeOK'
  BY <1>29 DEF Callback
<1>30. ASSUME NEW t \in Threads, TransitDecrement(t) PROVE TypeOK'
  BY <1>30 DEF TransitDecrement, Decrement
<1>31. CASE ActionBegin \/ EventCheck \/ EventCall \/ ActionEnd
  BY <1>31 DEF ActionBegin, EventCheck, EventCall, ActionEnd
<1>32. CASE ActionReturn
  BY <1>32 DEF ActionReturn, HandBack
<1>33. CASE UNCHANGED vars
  BY <1>33 DEF vars
<1> QED
  BY <1>1, <1>2, <1>3, <1>4, <1>5, <1>6, <1>7, <1>8, <1>9, <1>10, <1>11,
     <1>12, <1>13, <1>14, <1>15, <1>16, <1>17, <1>18, <1>19, <1>20, <1>21,
     <1>22, <1>23, <1>24, <1>25, <1>26, <1>27, <1>28, <1>29, <1>30, <1>31,
     <1>32, <1>33
     DEF Next, ClientCall, ClientStep, BackStep, ActionStep, Rest

LEMMA SemaType ==
  ASSUME TypeOK, IInv, SemaInv', [Next]_vars
  PROVE  transit' \in Nat /\ sema' \in {0, 1}
<1>1. \A t \in Threads : owes[t] \/ pc[t] = "delivering" => transit > 0
  BY InTransit DEF IInv
<1>2. transit \in Nat
  BY DEF TypeOK
<1>3. \/ transit' = transit \/ transit' = transit + 1
      \/ transit > 0 /\ transit' = transit - 1
  <2> USE DEF count
  <2>1. ASSUME NEW t \in Clients, ClientCall(t) PROVE transit' = transit
    BY <2>1 DEF ClientCall, EnableCall, DisableCall, FlushCall, Pause, Resume, SendCall
  <2>2. ASSUME NEW t \in Clients, SendIncrement(t) PROVE transit' = transit + 1
    BY <2>2 DEF SendIncrement
  <2>3. ASSUME NEW t \in Clients, SendFail(t) PROVE transit > 0 /\ transit' = transit - 1
    BY <1>1, <2>3 DEF SendFail, Decrement, At, Threads
  <2>4. ASSUME NEW t \in Clients, ClientStep(t), ~SendIncrement(t), ~SendFail(t)
        PROVE  transit' = transit
    BY <2>4 DEF ClientStep, PfEnable, EnableOpen, DisableStop, DisableLock, DisableDrain,
       DisableDone, DisableFail, DisableReopen, DisableReturn, ReturnPending, DisableEmptied,
       DisableWait, DisablePost, DisableClose, SendQueue, SendDeliver, FlushLock, FlushDrain,
       FlushDone, FlushReturn, FlushEnd
  <2>5. ASSUME NEW t \in Threads, Callback(t) PROVE transit' = transit
    BY <2>5 DEF Callback
  <2>6. ASSUME NEW t \in Threads, TransitDecrement(t)
        PROVE  transit > 0 /\ transit' = transit - 1
    BY <1>1, <2>6 DEF TransitDecrement, Decrement
  <2>7. CASE ActionBegin \/ ActionStep
    BY <2>7 DEF ActionBegin, ActionStep, ActionReturn, EventCheck, EventCall, ActionEnd
  <2>8. CASE UNCHANGED vars
    BY <2>8 DEF vars
  <2> QED
    BY <2>1, <2>2, <2>3, <2>4, <2>5, <2>6, <2>7, <2>8 DEF Next, BackStep, Rest
<1>4. sema' \in {0, 1}
  BY DEF SemaInv
<1> QED
  BY <1>2, <1>3, <1>4

-----------------------------------------------------------------------------
\* How the buffers move.  First the steps that move none.
LEMMA MoveNone ==
  ASSUME PlaceInv, UNCHANGED <<comp, queue, pend, hand, buf>>, Emptying' = Emptying
  PROVE  PlaceInv' /\ InPort' = InPort
<1>1. QueueBuffers' = QueueBuffers /\ \A u \in Threads : Elems(pend[u])' = Elems(pend[u])
  BY DEF QueueBuffers, Elems
<1>2. InPort' = InPort
  BY <1>1 DEF InPort, Elems
<1> HIDE DEF QueueBuffers, Elems, Emptying, InPort
<1> QED
  BY <1>1, <1>2 DEF PlaceInv, Distinct

\* From the component into a callback.
LEMMA MoveOut ==
  ASSUME TypeOK, PlaceInv, NEW t \in Threads, NEW b \in comp,
         hand[t] = NoBuffer, comp' = comp \ {b}, hand' = [hand EXCEPT ![t] = b],
         UNCHANGED <<queue, pend, buf>>, Emptying' = Emptying
  PROVE  PlaceInv' /\ InPort' = InPort
<1>1. QueueBuffers' = QueueBuffers /\ \A u \in Threads : Elems(pend[u])' = Elems(pend[u])
  BY DEF QueueBuffers, Elems
<1>2. b # NoBuffer /\ b \in Buffers /\ hand \in [Threads -> Buffers \cup {NoBuffer}]
  BY NamesAssumption DEF TypeOK
<1> HIDE DEF QueueBuffers, Elems, Emptying, Threads
<1>3. \A x : x \in InPort' <=> x \in InPort
  BY <1>1, <1>2, InPortMember DEF Inside
<1>4. InPort' = InPort
  BY <1>3
<1> QED
  BY <1>1, <1>2, <1>4 DEF PlaceInv, Distinct

\* From a list into a callback.
LEMMA MovePending ==
  ASSUME TypeOK, PlaceInv, NEW t \in Threads, pend[t] # <<>>,
         hand[t] = NoBuffer, hand' = [hand EXCEPT ![t] = Head(pend[t])],
         pend' = [pend EXCEPT ![t] = Tail(@)],
         UNCHANGED <<comp, queue, buf>>, Emptying' = Emptying
  PROVE  PlaceInv' /\ InPort' = InPort
<1> DEFINE b == Head(pend[t])
<1>1. QueueBuffers' = QueueBuffers
  BY DEF QueueBuffers, Elems
<1>2. pend \in [Threads -> Seq(Buffers)] /\ hand \in [Threads -> Buffers \cup {NoBuffer}]
  BY DEF TypeOK
<1>3. /\ b \in Elems(pend[t]) /\ Distinct(Tail(pend[t]))
      /\ Elems(Tail(pend[t])) = Elems(pend[t]) \ {b}
  BY <1>2, ElemsTail DEF PlaceInv
<1>4. Elems(pend[t]) \subseteq Buffers
  BY <1>2, ElemsOf
<1>5. b # NoBuffer
  BY <1>3, <1>4, NamesAssumption
<1> HIDE DEF QueueBuffers, Elems, Emptying, Threads, Distinct, b
<1>6. \A u \in Threads : Elems(pend'[u]) = IF u = t THEN Elems(pend[t]) \ {b} ELSE
  Elems(pend[u])
  BY <1>2, <1>3
<1>7. hand' = [hand EXCEPT ![t] = b]
  BY DEF b
<1>8. \A x : x \in InPort' <=> x \in InPort
  <2>1. \A u \in Threads : hand'[u] = IF u = t THEN b ELSE hand[u]
    BY <1>2, <1>7
  <2>2. \A x : (\E u \in Threads : x \in Elems(pend[u]))
                <=> x = b \/ \E u \in Threads : x \in Elems(pend'[u])
    BY <1>3, <1>6
  <2>3. \A x : (x # NoBuffer /\ \E u \in Threads : x = hand'[u])
                <=> x = b \/ (x # NoBuffer /\ \E u \in Threads : x = hand[u])
    BY <1>5, <2>1
  <2> QED
    BY <1>1, <2>2, <2>3, InPortMember DEF Inside
<1>9. InPort' = InPort
  BY <1>8
<1>10. \A u \in Threads : Distinct(pend'[u])
  BY <1>2, <1>3 DEF PlaceInv
<1> QED
  BY <1>1, <1>2, <1>3, <1>5, <1>6, <1>7, <1>9, <1>10 DEF PlaceInv

\* The whole internal queue becomes the list of one thread: mmal_port_disable,
\* where the list stays in place, and mmal_port_flush.
LEMMA MoveQueue ==
  ASSUME TypeOK, PlaceInv, NEW t \in Threads, ~Emptying, pend[t] = <<>>,
         pend' = [pend EXCEPT ![t] = queue],
         \/ queue' = queue /\ Emptying'
         \/ queue' = <<>>,
         UNCHANGED <<comp, hand, buf>>
  PROVE  PlaceInv' /\ InPort' = InPort
<1>1. QueueBuffers = Elems(queue) /\ QueueBuffers' = {}
  BY DEF QueueBuffers, Elems
<1>2. pend \in [Threads -> Seq(Buffers)]
  BY DEF TypeOK
<1>3. Elems(pend[t]) = {} /\ Distinct(queue')
  BY DEF Elems, PlaceInv, Distinct
<1> HIDE DEF QueueBuffers, Elems, Emptying, Threads, Distinct
<1>4. \A u \in Threads : Elems(pend'[u]) = IF u = t THEN QueueBuffers ELSE Elems(pend[u])
  BY <1>1, <1>2
<1>5. \A x : x \in InPort' <=> x \in InPort
  BY <1>1, <1>3, <1>4, InPortMember DEF Inside
<1>6. InPort' = InPort
  BY <1>5
<1>7. \A u \in Threads : Distinct(pend'[u])
  BY <1>2 DEF PlaceInv
<1> QED
  BY <1>1, <1>2, <1>3, <1>4, <1>6, <1>7 DEF PlaceInv

\* The end of the list that a disable has walked.
LEMMA MoveEmptied ==
  ASSUME TypeOK, PlaceInv, Emptying, queue' = <<>>, UNCHANGED <<comp, pend, hand, buf>>
  PROVE  PlaceInv' /\ InPort' = InPort
<1>1. QueueBuffers = {} /\ QueueBuffers' = {} /\ Distinct(<<>>)
  BY DEF QueueBuffers, Elems, Distinct
<1>2. \A u \in Threads : Elems(pend[u])' = Elems(pend[u])
  BY DEF Elems
<1>3. InPort' = InPort
  BY <1>1, <1>2 DEF InPort, Elems
<1> HIDE DEF QueueBuffers, Elems, Emptying, InPort
<1> QED
  BY <1>1, <1>2, <1>3 DEF PlaceInv, Distinct

\* A part of the internal queue goes to the component.
LEMMA MoveResumed ==
  ASSUME TypeOK, PlaceInv, NEW n \in 0..Len(queue), ~Emptying, ~Emptying',
         comp' = comp \cup Elems(SubSeq(queue, 1, n)),
         queue' = SubSeq(queue, n + 1, Len(queue)), UNCHANGED <<pend, hand, buf>>
  PROVE  PlaceInv' /\ InPort' = InPort
<1> DEFINE sent == Elems(SubSeq(queue, 1, n))
<1>1. /\ Distinct(queue') /\ Elems(queue) = sent \cup Elems(queue')
      /\ sent \cap Elems(queue') = {}
  BY ElemsSplit DEF PlaceInv, TypeOK
<1>2. QueueBuffers = Elems(queue) /\ QueueBuffers' = Elems(queue')
  BY DEF QueueBuffers, Elems
<1>3. \A u \in Threads : Elems(pend'[u]) = Elems(pend[u])
  OBVIOUS
<1> HIDE DEF QueueBuffers, Elems, Emptying, Threads, Distinct, sent
<1>4. comp' = comp \cup sent
  BY DEF sent
<1>5. \A x : x \in InPort' <=> x \in InPort
  BY <1>1, <1>2, <1>3, <1>4, InPortMember DEF Inside
<1>6. InPort' = InPort
  BY <1>5
<1>7. \A u \in Threads : Distinct(pend'[u])
  BY DEF PlaceInv
<1> QED
  BY <1>1, <1>2, <1>3, <1>4, <1>6, <1>7 DEF PlaceInv

\* A buffer in the hands of a client that calls mmal_port_send_buffer.
LEMMA MoveCall ==
  ASSUME TypeOK, PlaceInv, NEW t \in Threads, NEW b \in Buffers, Owned(b),
         buf' = [buf EXCEPT ![t] = b],
         UNCHANGED <<comp, queue, pend, hand>>, Emptying' = Emptying
  PROVE  PlaceInv' /\ InPort' = InPort
<1>1. QueueBuffers' = QueueBuffers /\ \A u \in Threads : Elems(pend[u])' = Elems(pend[u])
  BY DEF QueueBuffers, Elems
<1>2. InPort' = InPort
  BY <1>1 DEF InPort, Elems
<1>3. b \notin InPort /\ \A u \in Threads : buf[u] # b
  BY DEF Owned
<1>4. \A u \in Threads : buf'[u] = IF u = t THEN b ELSE buf[u]
  BY DEF TypeOK
<1> HIDE DEF QueueBuffers, Elems, Emptying, InPort, Threads
<1> QED
  BY <1>1, <1>2, <1>3, <1>4 DEF PlaceInv, Distinct

\* It stays with the client when pf_send fails.
LEMMA MoveBack ==
  ASSUME TypeOK, PlaceInv, NEW t \in Threads, buf' = [buf EXCEPT ![t] = NoBuffer],
         UNCHANGED <<comp, queue, pend, hand>>, Emptying' = Emptying
  PROVE  PlaceInv' /\ InPort' = InPort
<1>1. QueueBuffers' = QueueBuffers /\ \A u \in Threads : Elems(pend[u])' = Elems(pend[u])
  BY DEF QueueBuffers, Elems
<1>2. InPort' = InPort
  BY <1>1 DEF InPort, Elems
<1>3. NoBuffer \notin InPort
  BY InPortFinite, NamesAssumption
<1>4. \A u \in Threads : buf'[u] = IF u = t THEN NoBuffer ELSE buf[u]
  BY DEF TypeOK
<1> HIDE DEF QueueBuffers, Elems, Emptying, InPort, Threads
<1> QED
  BY <1>1, <1>2, <1>3, <1>4 DEF PlaceInv, Distinct

\* It enters the port, in the component or in the internal queue.
LEMMA MoveIn ==
  ASSUME TypeOK, PlaceInv, NEW t \in Threads, buf[t] # NoBuffer, ~Emptying, ~Emptying',
         buf' = [buf EXCEPT ![t] = NoBuffer],
         \/ comp' = comp \cup {buf[t]} /\ queue' = queue
         \/ comp' = comp /\ queue' = Append(queue, buf[t]),
         UNCHANGED <<pend, hand>>
  PROVE  PlaceInv' /\ buf[t] \notin InPort /\ InPort' = InPort \cup {buf[t]}
<1> DEFINE b == buf[t]
<1>1. b \in Buffers /\ b # NoBuffer /\ NoBuffer \notin Buffers
  BY NamesAssumption DEF TypeOK
<1>2. \A u \in Threads : buf'[u] = IF u = t THEN NoBuffer ELSE buf[u]
  BY DEF TypeOK
<1>3. b \notin InPort /\ \A u \in Threads : u # t => buf[u] # b
  BY <1>1 DEF PlaceInv
<1>4. /\ QueueBuffers = Elems(queue) /\ QueueBuffers' = Elems(queue')
      /\ \A u \in Threads : Elems(pend[u])' = Elems(pend[u])
  BY DEF QueueBuffers, Elems
<1>5. b \notin comp /\ b \notin QueueBuffers
  BY <1>3, InPortMember DEF Inside
<1>6. \A u \in Threads : b \notin Elems(pend[u]) /\ hand[u] # b
  BY <1>1, <1>3, InPortMember DEF Inside
<1>7. /\ Distinct(queue')
      /\ \/ comp' = comp \cup {b} /\ QueueBuffers' = QueueBuffers
         \/ comp' = comp /\ QueueBuffers' = QueueBuffers \cup {b}
  <2>1. queue \in Seq(Buffers) /\ Distinct(queue)
    BY DEF TypeOK, PlaceInv
  <2>2. CASE comp' = comp \cup {b} /\ queue' = queue
    BY <1>4, <2>1, <2>2
  <2>3. CASE comp' = comp /\ queue' = Append(queue, b)
    <3>1. Distinct(queue') /\ Elems(queue') = Elems(queue) \cup {b}
      BY <1>1, <1>4, <1>5, <2>1, <2>3, ElemsAppend
    <3> QED
      BY <1>4, <2>3, <3>1
  <2> QED
    BY <2>2, <2>3
<1> HIDE DEF QueueBuffers, Elems, Emptying, Threads, Distinct, b
<1>8. \A x : x \in InPort' <=> x \in InPort \/ x = b
  BY <1>4, <1>7, InPortMember DEF Inside
<1>9. InPort' = InPort \cup {b}
  BY <1>8
<1>10. \A u \in Threads : buf'[u] \notin InPort'
  BY <1>1, <1>2, <1>3, <1>9, InPortFinite DEF PlaceInv
<1>11. PlaceInv'
  <2>1. \A u, v \in Threads : u # v /\ buf'[u] = buf'[v] => buf'[u] = NoBuffer
    BY <1>2 DEF PlaceInv
  <2>2. \A u \in Threads : Distinct(pend'[u])
    BY DEF PlaceInv
  <2>3. CASE comp' = comp \cup {b} /\ QueueBuffers' = QueueBuffers
    BY <1>4, <1>5, <1>6, <1>7, <1>10, <2>1, <2>2, <2>3 DEF PlaceInv
  <2>4. CASE comp' = comp /\ QueueBuffers' = QueueBuffers \cup {b}
    BY <1>4, <1>5, <1>6, <1>7, <1>10, <2>1, <2>2, <2>4 DEF PlaceInv
  <2> QED
    BY <1>7, <2>3, <2>4
<1> QED
  BY <1>3, <1>9, <1>11 DEF b

\* It leaves the port with the callback of the client.
LEMMA MoveAway ==
  ASSUME TypeOK, PlaceInv, NEW t \in Threads, hand[t] # NoBuffer,
         hand' = [hand EXCEPT ![t] = NoBuffer],
         UNCHANGED <<comp, queue, pend, buf>>, Emptying' = Emptying
  PROVE  PlaceInv' /\ hand[t] \in InPort /\ InPort' = InPort \ {hand[t]}
<1> DEFINE b == hand[t]
<1>1. /\ b \in Buffers /\ b # NoBuffer /\ NoBuffer \notin Buffers
      /\ \A u \in Threads : Elems(pend[u]) \subseteq Buffers
  BY NamesAssumption, ElemsOf DEF TypeOK
<1>2. \A u \in Threads : hand'[u] = IF u = t THEN NoBuffer ELSE hand[u]
  BY DEF TypeOK
<1>3. QueueBuffers' = QueueBuffers /\ \A u \in Threads : Elems(pend[u])' = Elems(pend[u])
  BY DEF QueueBuffers, Elems
<1>4. comp \subseteq Buffers /\ QueueBuffers \subseteq Buffers
  BY ElemsOf DEF TypeOK, QueueBuffers
<1> HIDE DEF QueueBuffers, Elems, Emptying, Threads, Distinct
<1>5. b \in InPort
  BY <1>1, InPortMember DEF Inside
<1>6. /\ b \notin comp /\ b \notin QueueBuffers
      /\ \A u \in Threads : b \notin Elems(pend[u])
      /\ \A u \in Threads : u # t => hand[u] # b
  BY <1>1 DEF PlaceInv
<1>7. \A x : x \in InPort' <=> x \in InPort /\ x # b
  BY <1>1, <1>2, <1>3, <1>6, InPortMember DEF Inside
<1>8. InPort' = InPort \ {b}
  BY <1>7
<1>9. PlaceInv'
  BY <1>1, <1>2, <1>3, <1>4, <1>8 DEF PlaceInv, Distinct
<1> QED
  BY <1>5, <1>8, <1>9

-----------------------------------------------------------------------------
\* The count, when a thread goes from one place to another.
LEMMA GoAside ==
  ASSUME TypeOK, NEW t \in Threads, NEW l \in Labels \ {"delivering"},
         pc' = pc \/ (Goto(t, l) /\ pc[t] # "delivering")
  PROVE  /\ Delivering' = Delivering
         /\ l # "emptying" /\ pc[t] # "emptying" => Emptying' = Emptying
<1>1. CASE pc' = pc
  BY <1>1 DEF Delivering, Emptying
<1>2. CASE Goto(t, l) /\ pc[t] # "delivering"
  <2>1. \A u \in Threads : pc'[u] = IF u = t THEN l ELSE pc[u]
    BY <1>2 DEF Goto, TypeOK
  <2>2. \A u \in Threads : pc'[u] = "delivering" <=> pc[u] = "delivering"
    BY <1>2, <2>1
  <2>3. Delivering' = Delivering
    BY <2>2 DEF Delivering
  <2>4. ASSUME l # "emptying", pc[t] # "emptying" PROVE Emptying' = Emptying
    <3>1. \A u \in Clients : u \in Threads
      BY DEF Threads
    <3>2. \A u \in Clients : pc'[u] = "emptying" <=> pc[u] = "emptying"
      BY <2>1, <2>4, <3>1
    <3> QED
      BY <3>2, Zenon DEF Emptying
  <2> QED
    BY <2>3, <2>4
<1> QED
  BY <1>1, <1>2

LEMMA TravellingIs ==
  Travelling = Cardinality(InPort) + Cardinality(Owing) + Cardinality(Delivering)
BY DEF Travelling, Owing, Delivering

LEMMA CountStays ==
  ASSUME CountInv, transit' = transit, InPort' = InPort, owes' = owes, Delivering' = Delivering
  PROVE  CountInv'
<1>1. Owing' = Owing
  BY DEF Owing
<1>2. Travelling' = Travelling
  BY <1>1 DEF Travelling, Owing, Delivering
<1> QED
  BY <1>2 DEF CountInv

\* What a set counts with an element more or less.
LEMMA OneMore ==
  ASSUME NEW S, NEW T, IsFiniteSet(S), NEW x, x \notin S, T = S \cup {x}
  PROVE  Cardinality(S) \in Nat /\ Cardinality(T) = Cardinality(S) + 1
BY FS_AddElement, FS_CardinalityType

LEMMA CountIs ==
  ASSUME TypeOK
  PROVE  /\ IsFiniteSet(InPort) /\ IsFiniteSet(Owing) /\ IsFiniteSet(Delivering)
         /\ Cardinality(InPort) \in Nat /\ Cardinality(Owing) \in Nat
         /\ Cardinality(Delivering) \in Nat
BY InPortFinite, ThreadsFinite DEF Owing, Delivering

LEMMA OneLess ==
  ASSUME NEW S, NEW T, IsFiniteSet(S), NEW x, x \in S, T = S \ {x}
  PROVE  Cardinality(T) \in Nat /\ Cardinality(S) = Cardinality(T) + 1
<1>1. IsFiniteSet(T) /\ x \notin T /\ S = T \cup {x}
  BY FS_RemoveElement
<1> QED
  BY <1>1, OneMore

LEMMA DeliveringMore ==
  ASSUME TypeOK, NEW t \in Threads, pc[t] # "delivering", Goto(t, "delivering")
  PROVE  Cardinality(Delivering') = Cardinality(Delivering) + 1
<1>1. t \notin Delivering /\ Delivering' = Delivering \cup {t}
  BY DEF Delivering, Goto, TypeOK
<1> QED
  BY <1>1, CountIs, OneMore

LEMMA DeliveringLess ==
  ASSUME TypeOK, NEW t \in Threads, pc[t] = "delivering", Goto(t, "idle")
  PROVE  /\ Cardinality(Delivering') \in Nat
         /\ Cardinality(Delivering) = Cardinality(Delivering') + 1
<1>1. t \in Delivering /\ Delivering' = Delivering \ {t}
  BY DEF Delivering, Goto, TypeOK
<1> QED
  BY <1>1, CountIs, OneLess

LEMMA CountIncremented ==
  ASSUME TypeOK, CountInv, NEW t \in Threads, pc[t] # "delivering", Goto(t, "delivering"),
         InPort' = InPort, owes' = owes, transit' = transit + 1
  PROVE  CountInv'
<1>1. Cardinality(Delivering') = Cardinality(Delivering) + 1
  BY DeliveringMore
<1>2. Cardinality(InPort') = Cardinality(InPort) /\ Cardinality(Owing') = Cardinality(Owing)
  BY DEF Owing
<1>3. transit = Cardinality(InPort) + Cardinality(Owing) + Cardinality(Delivering)
  BY TravellingIs DEF CountInv
<1>4. /\ Cardinality(InPort') \in Nat /\ Cardinality(Owing') \in Nat
      /\ Cardinality(Delivering') \in Nat
  BY <1>1, <1>2, CountIs
<1>5. transit' = Cardinality(InPort') + Cardinality(Owing') + Cardinality(Delivering')
  BY <1>1, <1>2, <1>3, <1>4, CountIs
<1> QED
  BY <1>5 DEF CountInv, Travelling, Owing, Delivering

LEMMA CountDelivered ==
  ASSUME TypeOK, CountInv, NEW t \in Threads, pc[t] = "delivering", Goto(t, "idle"),
         NEW b, b \notin InPort, InPort' = InPort \cup {b}, owes' = owes, transit' = transit
  PROVE  CountInv'
<1>1. /\ Cardinality(Delivering') \in Nat
      /\ Cardinality(Delivering) = Cardinality(Delivering') + 1
  BY DeliveringLess
<1>2. Cardinality(InPort') = Cardinality(InPort) + 1 /\ Cardinality(Owing') =
  Cardinality(Owing)
  <2>1. Owing' = Owing
    BY DEF Owing
  <2>2. Cardinality(InPort') = Cardinality(InPort) + 1
    BY CountIs, OneMore
  <2> QED
    BY <2>1, <2>2
<1>3. transit = Cardinality(InPort) + Cardinality(Owing) + Cardinality(Delivering)
  BY TravellingIs DEF CountInv
<1>4. /\ Cardinality(InPort') \in Nat /\ Cardinality(Owing') \in Nat
      /\ Cardinality(Delivering') \in Nat
  BY <1>1, <1>2, CountIs
<1>5. transit' = Cardinality(InPort') + Cardinality(Owing') + Cardinality(Delivering')
  BY <1>1, <1>2, <1>3, <1>4, CountIs
<1> QED
  BY <1>5 DEF CountInv, Travelling, Owing, Delivering

LEMMA CountRefused ==
  ASSUME TypeOK, CountInv, NEW t \in Threads, pc[t] = "delivering", Goto(t, "idle"),
         InPort' = InPort, owes' = owes, transit' = transit - 1
  PROVE  CountInv'
<1>1. /\ Cardinality(Delivering') \in Nat
      /\ Cardinality(Delivering) = Cardinality(Delivering') + 1
  BY DeliveringLess
<1>2. Cardinality(InPort') = Cardinality(InPort) /\ Cardinality(Owing') = Cardinality(Owing)
  BY DEF Owing
<1>3. transit = Cardinality(InPort) + Cardinality(Owing) + Cardinality(Delivering)
  BY TravellingIs DEF CountInv
<1>4. /\ Cardinality(InPort') \in Nat /\ Cardinality(Owing') \in Nat
      /\ Cardinality(Delivering') \in Nat
  BY <1>1, <1>2, CountIs
<1>5. transit' = Cardinality(InPort') + Cardinality(Owing') + Cardinality(Delivering')
  BY <1>1, <1>2, <1>3, <1>4, CountIs
<1> QED
  BY <1>5 DEF CountInv, Travelling, Owing, Delivering

LEMMA CountCalledBack ==
  ASSUME TypeOK, CountInv, NEW t \in Threads, ~owes[t], owes' = [owes EXCEPT ![t] = TRUE],
         NEW b \in InPort, InPort' = InPort \ {b}, pc' = pc, transit' = transit
  PROVE  CountInv'
<1>1. Cardinality(Delivering') = Cardinality(Delivering)
  BY DEF Delivering
<1>2. /\ Cardinality(InPort') \in Nat /\ Cardinality(InPort) = Cardinality(InPort') + 1
      /\ Cardinality(Owing') = Cardinality(Owing) + 1
  <2>1. t \notin Owing /\ Owing' = Owing \cup {t}
    BY DEF Owing, TypeOK
  <2>2. Cardinality(Owing') = Cardinality(Owing) + 1
    BY <2>1, CountIs, OneMore
  <2>3. Cardinality(InPort') \in Nat /\ Cardinality(InPort) = Cardinality(InPort') + 1
    BY CountIs, OneLess
  <2> QED
    BY <2>2, <2>3
<1>3. transit = Cardinality(InPort) + Cardinality(Owing) + Cardinality(Delivering)
  BY TravellingIs DEF CountInv
<1>4. /\ Cardinality(InPort') \in Nat /\ Cardinality(Owing') \in Nat
      /\ Cardinality(Delivering') \in Nat
  BY <1>1, <1>2, CountIs
<1>5. transit' = Cardinality(InPort') + Cardinality(Owing') + Cardinality(Delivering')
  BY <1>1, <1>2, <1>3, <1>4, CountIs
<1> QED
  BY <1>5 DEF CountInv, Travelling, Owing, Delivering

LEMMA CountDecremented ==
  ASSUME TypeOK, CountInv, NEW t \in Threads, owes[t], owes' = [owes EXCEPT ![t] = FALSE],
         InPort' = InPort, pc' = pc, transit' = transit - 1
  PROVE  CountInv'
<1>1. Cardinality(Delivering') = Cardinality(Delivering)
  BY DEF Delivering
<1>2. /\ Cardinality(InPort') = Cardinality(InPort)
      /\ Cardinality(Owing') \in Nat /\ Cardinality(Owing) = Cardinality(Owing') + 1
  <2>1. t \in Owing /\ Owing' = Owing \ {t}
    BY DEF Owing, TypeOK
  <2>2. Cardinality(Owing') \in Nat /\ Cardinality(Owing) = Cardinality(Owing') + 1
    BY <2>1, CountIs, OneLess
  <2> QED
    BY <2>2
<1>3. transit = Cardinality(InPort) + Cardinality(Owing) + Cardinality(Delivering)
  BY TravellingIs DEF CountInv
<1>4. /\ Cardinality(InPort') \in Nat /\ Cardinality(Owing') \in Nat
      /\ Cardinality(Delivering') \in Nat
  BY <1>1, <1>2, CountIs
<1>5. transit' = Cardinality(InPort') + Cardinality(Owing') + Cardinality(Delivering')
  BY <1>1, <1>2, <1>3, <1>4, CountIs
<1> QED
  BY <1>5 DEF CountInv, Travelling, Owing, Delivering

\* The steps that move no buffer.
Aside(t) ==
  /\ UNCHANGED <<comp, queue, pend, hand, buf, owes, transit>>
  /\ \/ pc' = pc
     \/ \E l \in Labels \ {"delivering", "emptying"} :
          Goto(t, l) /\ pc[t] \notin {"delivering", "emptying"}

LEMMA AsideStep ==
  ASSUME TypeOK, PlaceInv, CountInv, NEW t \in Threads, Aside(t)
  PROVE  PlaceInv' /\ CountInv'
<1>1. Emptying' = Emptying /\ Delivering' = Delivering
  <2>1. CASE pc' = pc
    BY <2>1 DEF Emptying, Delivering
  <2>2. CASE \E l \in Labels \ {"delivering", "emptying"} :
               Goto(t, l) /\ pc[t] \notin {"delivering", "emptying"}
    BY <2>2, GoAside
  <2> QED
    BY <2>1, <2>2 DEF Aside
<1>2. PlaceInv' /\ InPort' = InPort
  BY <1>1, MoveNone DEF Aside
<1> QED
  BY <1>1, <1>2, CountStays DEF Aside

LEMMA ControlAside ==
  ASSUME NEW t \in Clients,
         EnableCall(t) \/ PfEnable(t) \/ EnableOpen(t) \/ DisableCall(t) \/
         DisableStop(t) \/ DisableLock(t) \/ DisableFail(t) \/ DisableReopen(t)
         \/ DisableWait(t) \/ DisablePost(t) \/ DisableClose(t) \/ FlushCall(t)
         \/ FlushLock(t) \/ FlushEnd(t) \/ Pause(t)
  PROVE  Aside(t)
<1> USE DEF Aside, At, Call, Goto, Labels, DisableLabels, port, count, local, back
<1>1. CASE EnableCall(t)
  BY <1>1 DEF EnableCall
<1>2. CASE PfEnable(t)
  BY <1>2 DEF PfEnable
<1>3. CASE EnableOpen(t)
  BY <1>3 DEF EnableOpen
<1>4. CASE DisableCall(t)
  BY <1>4 DEF DisableCall
<1>5. CASE DisableStop(t)
  BY <1>5 DEF DisableStop
<1>6. CASE DisableLock(t)
  BY <1>6 DEF DisableLock
<1>7. CASE DisableFail(t)
  BY <1>7 DEF DisableFail
<1>8. CASE DisableReopen(t)
  BY <1>8 DEF DisableReopen
<1>9. CASE DisableWait(t)
  BY <1>9 DEF DisableWait
<1>10. CASE DisablePost(t)
  BY <1>10 DEF DisablePost
<1>11. CASE DisableClose(t)
  BY <1>11 DEF DisableClose
<1>12. CASE FlushCall(t)
  BY <1>12 DEF FlushCall
<1>13. CASE FlushLock(t)
  BY <1>13 DEF FlushLock
<1>14. CASE FlushEnd(t)
  BY <1>14 DEF FlushEnd
<1>15. CASE Pause(t)
  BY <1>15 DEF Pause
<1> QED
  BY <1>1, <1>2, <1>3, <1>4, <1>5, <1>6, <1>7, <1>8, <1>9, <1>10, <1>11,
     <1>12, <1>13, <1>14, <1>15

LEMMA ActionAside ==
  ASSUME ActionBegin \/ EventCheck \/ EventCall \/ ActionEnd
  PROVE  Aside(Action)
<1> USE DEF Aside, At, Goto, Labels, DisableLabels, port, count, local, back
<1>1. CASE ActionBegin
  BY <1>1 DEF ActionBegin
<1>2. CASE EventCheck
  BY <1>2 DEF EventCheck
<1>3. CASE EventCall
  BY <1>3 DEF EventCall
<1>4. CASE ActionEnd
  BY <1>4 DEF ActionEnd
<1> QED
  BY <1>1, <1>2, <1>3, <1>4

\* Nobody empties the internal queue of a port that is enabled, nor while a
\* client is about to stop it.
LEMMA NobodyEmptying ==
  ASSUME LockInv, OpenInv, is_enabled \/ \E t \in Clients : pc[t] = "draining"
  PROVE  ~Emptying
<1>1. ASSUME NEW u \in Clients, pc[u] = "emptying" PROVE FALSE
  <2>1. connection_lock = u /\ ~is_enabled
    BY <1>1 DEF LockInv, OpenInv, Threads, ConnLabels, DisableLabels
  <2>2. PICK t \in Clients : pc[t] = "draining"
    BY <2>1
  <2>3. connection_lock = t
    BY <2>2 DEF LockInv, Threads, ConnLabels, DisableLabels
  <2> QED
    BY <1>1, <2>1, <2>2, <2>3
<1> QED
  BY <1>1 DEF Emptying

\* Where every buffer is, and how many there are, after each step.
LEMMA PlaceStep ==
  ASSUME TypeOK, IInv, [Next]_vars
  PROVE  PlaceInv' /\ CountInv'
<1> DEFINE Goal == PlaceInv /\ CountInv
<1>0. /\ LockInv /\ OpenInv /\ HandInv /\ PlaceInv /\ CountInv
      /\ \A t \in Clients : t \in Threads
  BY DEF IInv, ControlInv, Threads
<1>1. ASSUME NEW t \in Threads, Aside(t) PROVE Goal'
  BY <1>0, <1>1, AsideStep
<1>2. ASSUME NEW t \in Threads, NEW b \in comp, hand[t] = NoBuffer,
             comp' = comp \ {b}, HandBack(t, b),
             UNCHANGED <<queue, pend, buf, owes, pc, transit>>
      PROVE  Goal'
  <2>1. Emptying' = Emptying /\ Delivering' = Delivering
    BY <1>2 DEF Emptying, Delivering
  <2>2. PlaceInv' /\ InPort' = InPort
    BY <1>0, <1>2, <2>1, MoveOut DEF HandBack
  <2> QED
    BY <1>0, <1>2, <2>1, <2>2, CountStays
<1>3. ASSUME NEW t \in Threads, NEW l \in Labels, ReturnPending(t, l) PROVE Goal'
  <2>1. /\ hand[t] = NoBuffer /\ pend[t] # <<>>
        /\ hand' = [hand EXCEPT ![t] = Head(pend[t])] /\ pend' = [pend EXCEPT ![t] = Tail(@)]
        /\ UNCHANGED <<comp, queue, buf, owes, pc, transit>>
    BY <1>3 DEF ReturnPending, At, HandBack, port, count
  <2>2. Emptying' = Emptying /\ Delivering' = Delivering
    BY <2>1 DEF Emptying, Delivering
  <2>3. PlaceInv' /\ InPort' = InPort
    BY <1>0, <2>1, <2>2, MovePending
  <2> QED
    BY <1>0, <2>1, <2>2, <2>3, CountStays
<1>4. ASSUME NEW t \in Clients, DisableDrain(t) PROVE Goal'
  <2>1. PICK b \in comp : comp' = comp \ {b} /\ HandBack(t, b)
    BY <1>4 DEF DisableDrain
  <2> QED
    BY <1>0, <1>2, <1>4, <2>1 DEF DisableDrain, At, port, count, local
<1>5. ASSUME NEW t \in Clients, FlushDrain(t) PROVE Goal'
  <2>1. PICK b \in comp : comp' = comp \ {b} /\ HandBack(t, b)
    BY <1>5 DEF FlushDrain
  <2> QED
    BY <1>0, <1>2, <1>5, <2>1 DEF FlushDrain, At, port, count, local
<1>6. CASE ActionReturn
  <2>1. PICK b \in comp : comp' = comp \ {b} /\ HandBack(Action, b)
    BY <1>6 DEF ActionReturn
  <2> QED
    BY <1>0, <1>2, <1>6, <2>1 DEF ActionReturn, At, Threads, port, count, local
<1>7. ASSUME NEW t \in Clients, DisableDone(t) PROVE Goal'
  <2>1. /\ pc[t] = "draining" /\ Goto(t, "emptying") /\ pend' = [pend EXCEPT ![t] = queue]
        /\ UNCHANGED <<comp, hand, buf, queue, owes, transit>>
    BY <1>7 DEF DisableDone, At, port, count, back
  <2>2. ~Emptying /\ pend[t] = <<>>
    BY <1>0, <2>1, NobodyEmptying DEF HandInv
  <2>3. Emptying'
    BY <1>0, <2>1 DEF Emptying, Goto, TypeOK
  <2>4. PlaceInv' /\ InPort' = InPort
    BY <1>0, <2>1, <2>2, <2>3, MoveQueue
  <2>5. Delivering' = Delivering
    BY <1>0, <2>1, GoAside DEF Labels, DisableLabels
  <2> QED
    BY <1>0, <2>1, <2>4, <2>5, CountStays
<1>8. ASSUME NEW t \in Clients, FlushDone(t) PROVE Goal'
  <2>1. /\ pc[t] = "flushing" /\ Goto(t, "returning")
        /\ UNCHANGED <<comp, hand, buf, owes, transit>>
        /\ \/ pend' = [pend EXCEPT ![t] = queue] /\ queue' = <<>>
           \/ UNCHANGED <<pend, queue>>
    BY <1>8 DEF FlushDone, At, port, count, back
  <2>2. ~Emptying /\ pend[t] = <<>>
    BY <1>0, <2>1, NobodyEmptying DEF HandInv, OpenInv, SendLabels
  <2>3. Emptying' = Emptying /\ Delivering' = Delivering
    BY <1>0, <2>1, GoAside DEF Labels, DisableLabels
  <2>4. PlaceInv' /\ InPort' = InPort
    <3>1. CASE pend' = [pend EXCEPT ![t] = queue] /\ queue' = <<>>
      BY <1>0, <2>1, <2>2, <3>1, MoveQueue
    <3>2. CASE UNCHANGED <<pend, queue>>
      BY <1>0, <2>1, <2>3, <3>2, MoveNone
    <3> QED
      BY <2>1, <3>1, <3>2
  <2> QED
    BY <1>0, <2>1, <2>3, <2>4, CountStays
<1>9. ASSUME NEW t \in Clients, DisableEmptied(t) PROVE Goal'
  <2>1. /\ pc[t] = "emptying" /\ Goto(t, "waiting") /\ queue' = <<>>
        /\ UNCHANGED <<comp, pend, hand, buf, owes, transit>>
    BY <1>9 DEF DisableEmptied, At, count, local, back
  <2>2. Emptying /\ Delivering' = Delivering
    BY <1>0, <2>1, GoAside DEF Labels, DisableLabels, Emptying
  <2>3. PlaceInv' /\ InPort' = InPort
    BY <1>0, <2>1, <2>2, MoveEmptied
  <2> QED
    BY <1>0, <2>1, <2>2, <2>3, CountStays
<1>10. ASSUME NEW t \in Clients, Resume(t) PROVE Goal'
  <2>1. UNCHANGED <<pend, hand, buf, owes, transit, pc>>
    BY <1>10 DEF Resume, count, local, back
  <2>2. Emptying' = Emptying /\ Delivering' = Delivering
    BY <2>1 DEF Emptying, Delivering
  <2>3. PlaceInv' /\ InPort' = InPort
    <3>1. CASE is_enabled
      <4>1. PICK n \in 0..Len(queue) : /\ comp' = comp \cup Elems(SubSeq(queue, 1, n))
                                       /\ queue' = SubSeq(queue, n + 1, Len(queue))
        BY <1>10, <3>1 DEF Resume
      <4>2. ~Emptying
        BY <1>0, <3>1, NobodyEmptying
      <4> HIDE DEF Emptying
      <4> QED
        BY <1>0, <2>1, <2>2, <4>1, <4>2, MoveResumed
    <3>2. CASE ~is_enabled
      BY <1>0, <1>10, <2>1, <2>2, <3>2, MoveNone DEF Resume
    <3> QED
      BY <3>1, <3>2
  <2> QED
    BY <1>0, <2>1, <2>2, <2>3, CountStays
<1>11. ASSUME NEW t \in Clients, NEW b \in Buffers, SendCall(t, b) PROVE Goal'
  <2>1. /\ Owned(b) /\ pc[t] = "idle"
        /\ UNCHANGED <<comp, queue, pend, hand, owes, transit>>
        /\ \/ UNCHANGED <<pc, buf>>
           \/ buf' = [buf EXCEPT ![t] = b] /\ Goto(t, "incrementing")
    BY <1>11 DEF SendCall, Call, At, port, count, back
  <2>2. Emptying' = Emptying /\ Delivering' = Delivering
    BY <1>0, <2>1, GoAside DEF Labels, DisableLabels
  <2>3. PlaceInv' /\ InPort' = InPort
    BY <1>0, <2>1, <2>2, MoveCall, MoveNone
  <2> QED
    BY <1>0, <2>1, <2>2, <2>3, CountStays
<1>12. ASSUME NEW t \in Clients, SendIncrement(t) PROVE Goal'
  <2>1. /\ pc[t] = "incrementing" /\ Goto(t, "delivering") /\ transit' = transit + 1
        /\ UNCHANGED <<comp, queue, pend, hand, buf, owes>>
    BY <1>12 DEF SendIncrement, At, port, local, back
  <2>2. Emptying' = Emptying
    <3>1. \A u \in Threads : pc'[u] = IF u = t THEN "delivering" ELSE pc[u]
      BY <1>0, <2>1 DEF Goto, TypeOK
    <3>2. \A u \in Clients : pc'[u] = "emptying" <=> pc[u] = "emptying"
      BY <1>0, <2>1, <3>1
    <3> QED
      BY <3>2, Zenon DEF Emptying
  <2>3. PlaceInv' /\ InPort' = InPort
    BY <1>0, <2>1, <2>2, MoveNone
  <2> QED
    BY <1>0, <2>1, <2>3, CountIncremented
<1>13. ASSUME NEW t \in Clients, pc[t] = "delivering", Sent(t) PROVE Emptying' = Emptying
  <2>1. \A u \in Threads : pc'[u] = IF u = t THEN "idle" ELSE pc[u]
    BY <1>0, <1>13 DEF Sent, Goto, TypeOK
  <2>2. \A u \in Clients : pc'[u] = "emptying" <=> pc[u] = "emptying"
    BY <1>0, <1>13, <2>1
  <2> QED
    BY <2>2, Zenon DEF Emptying
<1>14. ASSUME NEW t \in Clients, SendQueue(t) \/ SendDeliver(t) PROVE Goal'
  <2>1. /\ pc[t] = "delivering" /\ Goto(t, "idle") /\ buf' = [buf EXCEPT ![t] = NoBuffer]
        /\ UNCHANGED <<pend, hand, owes, transit>> /\ Sent(t)
        /\ \/ comp' = comp \cup {buf[t]} /\ queue' = queue
           \/ comp' = comp /\ queue' = Append(queue, buf[t])
    BY <1>14 DEF SendQueue, SendDeliver, Sent, At, count, back
  <2>2. ~Emptying /\ Emptying' = Emptying /\ buf[t] # NoBuffer
    BY <1>0, <1>13, <2>1, NobodyEmptying DEF OpenInv, SendLabels, HandInv
  <2>3. PlaceInv' /\ buf[t] \notin InPort /\ InPort' = InPort \cup {buf[t]}
    BY <1>0, <2>1, <2>2, MoveIn
  <2> QED
    BY <1>0, <2>1, <2>3, CountDelivered
<1>15. ASSUME NEW t \in Clients, SendFail(t) PROVE Goal'
  <2>1. /\ pc[t] = "delivering" /\ Goto(t, "idle") /\ buf' = [buf EXCEPT ![t] = NoBuffer]
        /\ UNCHANGED <<comp, queue, pend, hand, owes>> /\ Sent(t) /\ transit' = transit - 1
    BY <1>15 DEF SendFail, Decrement, Sent, At, back
  <2>2. PlaceInv' /\ InPort' = InPort
    BY <1>0, <1>13, <2>1, MoveBack
  <2> QED
    BY <1>0, <2>1, <2>2, CountRefused
<1>16. ASSUME NEW t \in Threads, Callback(t) PROVE Goal'
  <2>1. /\ hand[t] # NoBuffer /\ hand' = [hand EXCEPT ![t] = NoBuffer]
        /\ owes' = [owes EXCEPT ![t] = TRUE] /\ ~owes[t]
        /\ UNCHANGED <<comp, queue, pend, buf, pc, transit>>
    BY <1>0, <1>16 DEF Callback, HandInv, port, count, local
  <2>2. PlaceInv' /\ hand[t] \in InPort /\ InPort' = InPort \ {hand[t]}
    BY <1>0, <2>1, MoveAway DEF Emptying
  <2> QED
    BY <1>0, <2>1, <2>2, CountCalledBack
<1>17. ASSUME NEW t \in Threads, TransitDecrement(t) PROVE Goal'
  <2>1. /\ owes[t] /\ owes' = [owes EXCEPT ![t] = FALSE] /\ transit' = transit - 1
        /\ UNCHANGED <<comp, queue, pend, hand, buf, pc>>
    BY <1>17 DEF TransitDecrement, Decrement, port, local
  <2>2. PlaceInv' /\ InPort' = InPort
    BY <1>0, <2>1, MoveNone DEF Emptying
  <2> QED
    BY <1>0, <2>1, <2>2, CountDecremented
<1>18. CASE UNCHANGED vars
  <2>1. UNCHANGED <<comp, queue, pend, hand, buf, owes, transit, pc>>
    BY <1>18 DEF vars, port, count, local, back
  <2>2. Emptying' = Emptying /\ Delivering' = Delivering
    BY <2>1 DEF Emptying, Delivering
  <2> QED
    BY <1>0, <2>1, <2>2, MoveNone, CountStays
<1>19. ASSUME NEW t \in Clients, ClientCall(t) \/ ClientStep(t) PROVE Goal'
  <2> HIDE DEF Goal
  <2>1. "emptying" \in Labels /\ "returning" \in Labels
    BY DEF Labels, DisableLabels
  <2> QED
    BY <1>0, <1>1, <1>3, <1>4, <1>5, <1>7, <1>8, <1>9, <1>10, <1>11, <1>12, <1>14, <1>15,
       <1>19, <2>1, ControlAside DEF ClientCall, ClientStep, DisableReturn, FlushReturn
<1>20. CASE ActionBegin \/ ActionStep
  <2>1. CASE ActionReturn
    BY <1>6, <2>1
  <2>2. CASE ActionBegin \/ EventCheck \/ EventCall \/ ActionEnd
    <3>1. Aside(Action) /\ Action \in Threads
      BY <2>2, ActionAside DEF Threads
    <3> QED
      BY <1>1, <3>1
  <2> QED
    BY <1>20, <2>1, <2>2 DEF ActionStep
<1> QED
  BY <1>16, <1>17, <1>18, <1>19, <1>20 DEF Next, BackStep, Rest

-----------------------------------------------------------------------------
LEMMA Initially ==
  ASSUME Init
  PROVE  TypeOK /\ IInv
<1> USE NamesAssumption, BoundsAssumption DEF Init
<1>1. TypeOK
  <2>1. /\ pc \in [Threads -> Labels] /\ buf \in [Threads -> Buffers \cup {NoBuffer}]
        /\ hand \in [Threads -> Buffers \cup {NoBuffer}] /\ owes \in [Threads -> BOOLEAN]
    BY DEF Labels
  <2>2. queue \in Seq(Buffers) /\ pend \in [Threads -> Seq(Buffers)]
    BY EmptySeq
  <2>3. calls \in [Threads -> Nat]
    OBVIOUS
  <2> QED
    BY <2>1, <2>2, <2>3 DEF TypeOK
<1>2. ControlInv
  BY DEF ControlInv, LockInv, OpenInv, ClosedInv, SemaInv, CallbackInv, HandInv, Threads,
         ConnLabels, DisableLabels, SendLabels, MutexLabels
<1>3. /\ Elems(queue) = {} /\ \A t \in Threads : Elems(pend[t]) = {}
      /\ Distinct(queue) /\ \A t \in Threads : Distinct(pend[t])
  BY DEF Elems, Distinct
<1>4. InPort = {}
  BY <1>3 DEF InPort, QueueBuffers
<1>5. PlaceInv
  BY <1>3, <1>4 DEF PlaceInv, QueueBuffers
<1>6. Owing = {} /\ Delivering = {}
  BY DEF Owing, Delivering
<1>7. CountInv
  BY <1>4, <1>6, FS_EmptySet, TravellingIs DEF CountInv
<1> QED
  BY <1>1, <1>2, <1>5, <1>7 DEF IInv

LEMMA StepInv ==
  ASSUME TypeOK, IInv, [Next]_vars
  PROVE  TypeOK' /\ IInv'
<1>1. OpenInv' /\ CallbackInv' /\ ClosedInv' /\ SemaInv'
  BY ControlStep
<1>2. LockInv'
  BY LockStep DEF IInv, ControlInv
<1>3. TypeOK'
  BY <1>1, SemaType, TypeStep
<1> QED
  BY <1>1, <1>2, <1>3, HandStep, PlaceStep DEF IInv, ControlInv

\* The types of the variables and the invariant, for any number of threads,
\* buffers and calls.
THEOREM Invariance == Spec => [](TypeOK /\ IInv)
<1>1. Init => TypeOK /\ IInv
  BY Initially
<1>2. TypeOK /\ IInv /\ [Next]_vars => (TypeOK /\ IInv)'
  BY StepInv
<1> QED
  BY <1>1, <1>2, PTL DEF Spec

\* The variables keep their types.
THEOREM TypeCorrect == Spec => []TypeOK
BY Invariance, PTL

\* core->transit_buffer_headers counts the buffers that are in the port, wherever
\* they are, and the semaphore says whether there are any.
THEOREM CountCorrect == Spec => []TransitExact
<1>1. IInv => TransitExact
  <2>1. ASSUME IInv, \A t \in Clients : pc[t] # "posting" PROVE sema = 1 <=> transit = 0
    BY <2>1 DEF IInv, ControlInv, SemaInv, LockInv, Threads
  <2> QED
    BY <2>1 DEF IInv, CountInv, TransitExact
<1> QED
  BY <1>1, Invariance, PTL

\* No buffer is handed back through a callback that mmal_port_disable cleared.
THEOREM CallbackCorrect == Spec => []CallbackSet
<1>1. TypeOK /\ IInv => CallbackSet
  BY InTransit DEF IInv, ControlInv, CallbackInv, CallbackSet
<1> QED
  BY <1>1, Invariance, PTL

\* A disable that has returned leaves no buffer in the port and no thread in the
\* buffer callback of the client.
THEOREM DisableEmpties == Spec => []DisabledIsEmpty
<1>1. TypeOK /\ IInv => DisabledIsEmpty
  BY InTransit DEF IInv, ControlInv, ClosedInv, DisabledIsEmpty
<1> QED
  BY <1>1, Invariance, PTL
=============================================================================
