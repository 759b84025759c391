------------------------ MODULE VcosEventFlags_proofs ------------------------
(***************************************************************************)
(* Proofs about event flags, for any threads, events and gets: a thread is *)
(* woken exactly once and never sleeps on events that are set, no timer    *)
(* outlives the get it was armed for, and a set amounts to one step.       *)
(***************************************************************************)
EXTENDS VcosEventFlags, SequenceTheorems, TLAPS

\* Who holds the lock of the flags.
LockLabels == {"linked", "arming", "armed", "walking"}
LockInv == \A t \in Threads : pc[t] \in LockLabels <=> lock = t

\* A timer is used by the get that armed it, and at rest between gets.
TimerInv ==
  \A t \in Threads :
    /\ armed[t] \/ tpc[t] # "idle" => pc[t] \in {"armed", "asleep", "cancelling"} /\ Timed(t)
    /\ pc[t] \in {"arming", "armed", "cancelling", "cancelled"} => Timed(t)
    /\ tpc[t] # "idle" => ~armed[t]
    /\ armed[t] \/ tpc[t] = "fired" \/ pc[t] = "arming" => routine[t]
    /\ pc[t] \in {"idle", "linked", "walking"} \/ ~Timed(t) => ~routine[t]

\* A thread has one request in the list.
ListInv == \A i, j \in DOMAIN waiters : waiters[i] = waiters[j] => i = j

\* What the walk of a set has passed is not satisfied, nor is anything when no
\* set walks.
Walking == \E t \in Threads : pc[t] = "walking"
WalkInv ==
  /\ \A i \in DOMAIN waiters :
       ~Walking \/ i < cursor => ~Satisfied(request[waiters[i]], events)
  /\ ~Walking => consumed = {} /\ cursor = 1

IInv == LockInv /\ TimerInv /\ ListInv /\ OneWakeup /\ WalkInv

-----------------------------------------------------------------------------
\* The list, with a request added at its end or one taken out.
LEMMA ListAppend ==
  ASSUME NEW S, NEW s \in Seq(S), NEW e \in S, e \notin ToSet(s),
         \A i, j \in DOMAIN s : s[i] = s[j] => i = j
  PROVE  LET r == Append(s, e)
         IN /\ r \in Seq(S) /\ DOMAIN r = 1..Len(s) + 1
            /\ ToSet(r) = ToSet(s) \cup {e}
            /\ r[Len(s) + 1] = e /\ \A i \in 1..Len(s) : r[i] = s[i]
            /\ \A i, j \in DOMAIN r : r[i] = r[j] => i = j
<1> DEFINE r == Append(s, e)
<1>1. Len(s) \in Nat /\ DOMAIN s = 1..Len(s)
  OBVIOUS
<1>2. /\ r \in Seq(S) /\ DOMAIN r = 1..Len(s) + 1
      /\ r[Len(s) + 1] = e /\ \A i \in 1..Len(s) : r[i] = s[i]
  <2>1. Len(r) = Len(s) + 1 /\ r \in Seq(S)
    BY AppendProperties
  <2> QED
    BY <2>1, AppendProperties
<1> HIDE DEF r
<1>3. ToSet(r) = ToSet(s) \cup {e}
  BY <1>1, <1>2 DEF ToSet
<1>4. ASSUME NEW i \in DOMAIN r, NEW j \in DOMAIN r, r[i] = r[j] PROVE i = j
  BY <1>1, <1>2, <1>4 DEF ToSet
<1> QED
  BY <1>2, <1>3, <1>4 DEF r

LEMMA ListRemove ==
  ASSUME NEW S, NEW s \in Seq(S), NEW k \in DOMAIN s,
         \A i, j \in DOMAIN s : s[i] = s[j] => i = j
  PROVE  LET r == RemoveAt(s, k)
         IN /\ r \in Seq(S) /\ DOMAIN r = 1..Len(s) - 1
            /\ \A i \in 1..Len(s) - 1 : r[i] = IF i < k THEN s[i] ELSE s[i + 1]
            /\ ToSet(r) = ToSet(s) \ {s[k]}
            /\ \A i, j \in DOMAIN r : r[i] = r[j] => i = j
<1> DEFINE r == RemoveAt(s, k)
           a == SubSeq(s, 1, k - 1)
           b == SubSeq(s, k + 1, Len(s))
<1>1. Len(s) \in Nat /\ DOMAIN s = 1..Len(s) /\ k \in 1..Len(s)
  OBVIOUS
<1>2. a \in Seq(S) /\ Len(a) = k - 1 /\ \A i \in 1..k - 1 : a[i] = s[i]
  <2>1. \A i \in 1..k - 1 : s[i] \in S
    BY <1>1
  <2>2. /\ a \in Seq(S) /\ Len(a) = IF 1 <= k - 1 THEN (k - 1) - 1 + 1 ELSE 0
        /\ \A i \in 1..(k - 1) - 1 + 1 : a[i] = s[1 + i - 1]
    BY <1>1, <2>1, SubSeqProperties
  <2> HIDE DEF a
  <2> QED
    BY <1>1, <2>2
<1>3. b \in Seq(S) /\ Len(b) = Len(s) - k /\ \A i \in 1..Len(s) - k : b[i] = s[k + i]
  <2>1. \A i \in k + 1..Len(s) : s[i] \in S
    BY <1>1
  <2>2. /\ b \in Seq(S) /\ Len(b) = IF k + 1 <= Len(s) THEN Len(s) - (k + 1) + 1 ELSE 0
        /\ \A i \in 1..Len(s) - (k + 1) + 1 : b[i] = s[(k + 1) + i - 1]
    BY <1>1, <2>1, SubSeqProperties
  <2> HIDE DEF b
  <2>3. Len(s) - (k + 1) + 1 = Len(s) - k /\ (k + 1 <= Len(s) \/ Len(s) - k = 0)
    BY <1>1
  <2>4. \A i \in 1..Len(s) - k : (k + 1) + i - 1 = k + i
    BY <1>1
  <2> QED
    BY <2>2, <2>3, <2>4
<1>4. r = a \o b
  BY DEF RemoveAt
<1> HIDE DEF a, b, r
<1>5. /\ r \in Seq(S) /\ Len(r) = (k - 1) + (Len(s) - k)
      /\ \A i \in 1..Len(r) : r[i] = IF i <= k - 1 THEN a[i] ELSE b[i - (k - 1)]
  <2>1. /\ a \o b \in Seq(S) /\ Len(a \o b) = Len(a) + Len(b)
        /\ \A i \in 1..Len(a) + Len(b) :
             (a \o b)[i] = IF i <= Len(a) THEN a[i] ELSE b[i - Len(a)]
    <3>1. a \in Seq(S) /\ b \in Seq(S)
      BY <1>2, <1>3
    <3> QED
      BY ONLY <3>1, ConcatProperties
  <2> QED
    BY <1>2, <1>3, <1>4, <2>1
<1>6. DOMAIN r = 1..Len(s) - 1
  BY <1>1, <1>5
<1>7. \A i \in 1..Len(s) - 1 : r[i] = IF i < k THEN s[i] ELSE s[i + 1]
  <2> TAKE i \in 1..Len(s) - 1
  <2>1. CASE i < k
    BY <1>1, <1>2, <1>5, <1>6, <2>1
  <2>2. CASE ~(i < k)
    <3>1. /\ i \in 1..Len(r) /\ i - (k - 1) \in 1..Len(s) - k
          /\ k + (i - (k - 1)) = i + 1 /\ ~(i <= k - 1)
      BY <1>1, <1>5, <2>2
    <3> QED
      BY <1>3, <1>5, <2>2, <3>1
  <2> QED
    BY <2>1, <2>2
<1>8. \A i \in 1..Len(s) : i # k => \E j \in 1..Len(s) - 1 : r[j] = s[i]
  <2> TAKE i \in 1..Len(s)
  <2>1. CASE i < k
    BY <1>1, <1>7, <2>1
  <2>2. CASE i > k
    <3>1. i - 1 \in 1..Len(s) - 1 /\ ~(i - 1 < k) /\ (i - 1) + 1 = i
      BY <1>1, <2>2
    <3>2. r[i - 1] = s[i]
      BY <1>7, <3>1
    <3> QED
      BY <3>1, <3>2
  <2> QED
    BY <1>1, <2>1, <2>2
<1>9. \A i \in 1..Len(s) - 1 : \E j \in 1..Len(s) : j # k /\ r[i] = s[j]
  <2> TAKE i \in 1..Len(s) - 1
  <2>1. i \in 1..Len(s) /\ i + 1 \in 1..Len(s)
    BY <1>1
  <2> QED
    BY <1>1, <1>7, <2>1
<1>10. ToSet(r) = ToSet(s) \ {s[k]}
  <2>1. ASSUME NEW x \in ToSet(s), x # s[k] PROVE x \in ToSet(r)
    <3>1. PICK i \in 1..Len(s) : x = s[i]
      BY <1>1 DEF ToSet
    <3>2. PICK j \in 1..Len(s) - 1 : r[j] = s[i]
      BY <1>8, <2>1, <3>1
    <3> QED
      BY <1>6, <3>1, <3>2 DEF ToSet
  <2>2. \A x : x \in ToSet(r) => x \in ToSet(s) \ {s[k]}
    BY <1>1, <1>6, <1>9 DEF ToSet
  <2> QED
    BY <2>1, <2>2
<1>11. ASSUME NEW i \in DOMAIN r, NEW j \in DOMAIN r, r[i] = r[j] PROVE i = j
  <2>1. i \in 1..Len(s) /\ i + 1 \in 1..Len(s) /\ j \in 1..Len(s) /\ j + 1 \in 1..Len(s)
    BY <1>1, <1>6
  <2> QED
    BY <1>1, <1>6, <1>7, <1>11, <2>1
<1> QED
  BY <1>5, <1>6, <1>7, <1>10, <1>11 DEF r

-----------------------------------------------------------------------------
\* The steps, with the events a set leaves.
LEMMA NextCases ==
  ASSUME TypeOK, [Next]_vars
  PROVE  \/ \E t \in Getters, r \in Requests : GetNow(t, r) \/ GetLink(t, r)
         \/ \E t \in Threads, ev \in SUBSET Bits : SetBegin(t, ev)
         \/ \E t \in Threads : GetStep(t) \/ SetStep(t) \/ Timer(t) \/ TimerUnlink(t)
         \/ UNCHANGED vars
<1>1. \A bits \in SUBSET Bits : (events \cup bits) \in SUBSET Bits
                                /\ (events \cap bits) \in SUBSET Bits
  BY DEF TypeOK
<1> QED
  BY <1>1 DEF Next, Call

-----------------------------------------------------------------------------
LEMMA LinkedIs ==
  ASSUME TypeOK, OneWakeup
  PROVE  /\ \A t \in Threads : Linked(t) => sem[t] = 0 /\ tpc[t] # "posting" /\ Sleeping(t)
         /\ \A t \in Threads : tpc[t] = "posting" => sem[t] = 0
         /\ \A i \in DOMAIN waiters : waiters[i] \in Threads /\ Linked(waiters[i])
         /\ \A t : Linked(t) => \E i \in DOMAIN waiters : waiters[i] = t
<1>1. \A t \in Threads : sem[t] \in {0, 1}
  BY DEF TypeOK
<1>2. \A i \in DOMAIN waiters : waiters[i] \in Threads
  BY DEF TypeOK
<1> QED
  BY <1>1, <1>2 DEF OneWakeup, One, Linked, ToSet

LEMMA TypeStep ==
  ASSUME TypeOK, IInv, [Next]_vars
  PROVE  TypeOK'
<1>0. /\ \A t \in Threads : Linked(t) => sem[t] = 0
      /\ \A t \in Threads : tpc[t] = "posting" => sem[t] = 0
      /\ \A i \in DOMAIN waiters : waiters[i] \in Threads /\ Linked(waiters[i])
  BY LinkedIs DEF IInv
<1>r. \A r \in Requests : r.bits \subseteq Bits
  BY RequestAssumption
<1>f. \A ev \in SUBSET Bits : Found(ev) \in [ok : BOOLEAN, bits : SUBSET Bits]
  BY DEF Found
<1>n. NotYet \in [ok : BOOLEAN, bits : SUBSET Bits]
  BY DEF NotYet
<1>g. \A t \in Getters : t \in Threads
  BY ThreadAssumption
<1> DEFINE Results == [ok : BOOLEAN, bits : SUBSET Bits]
<1>t. result \in [Threads -> Results] /\ Results = [ok : BOOLEAN, bits : SUBSET Bits]
  BY DEF TypeOK
<1> HIDE DEF Results
<1> USE DEF TypeOK, flagVars, timerVars, Goto, GetStep, SetStep, Timer
<1>1. ASSUME NEW t \in Getters, NEW r \in Requests, GetNow(t, r) PROVE TypeOK'
  <2>1. result' \in [Threads -> [ok : BOOLEAN, bits : SUBSET Bits]]
    BY <1>1, <1>f, <1>n, <1>g, <1>t DEF GetNow
  <2>2. events' \subseteq Bits /\ request' \in [Threads -> Requests]
    BY <1>1, <1>g DEF GetNow
  <2> QED
    BY <1>1, <2>1, <2>2 DEF GetNow
<1>2. ASSUME NEW t \in Getters, NEW r \in Requests, GetLink(t, r) PROVE TypeOK'
  <2>1. result' \in [Threads -> [ok : BOOLEAN, bits : SUBSET Bits]]
    BY <1>2, <1>n, <1>g, <1>t DEF GetLink
  <2>2. waiters' \in Seq(Threads) /\ request' \in [Threads -> Requests]
    BY <1>2, <1>g, AppendProperties DEF GetLink
  <2> QED
    BY <1>2, <1>g, <2>1, <2>2 DEF GetLink
<1>3. ASSUME NEW t \in Threads, NEW ev \in SUBSET Bits, SetBegin(t, ev) PROVE TypeOK'
  BY <1>3 DEF SetBegin
<1>4. ASSUME NEW t \in Threads, TimerRoutine(t) PROVE TypeOK'
  BY <1>4 DEF TimerRoutine
<1>5. ASSUME NEW t \in Threads, TimerSet(t) PROVE TypeOK'
  BY <1>5 DEF TimerSet
<1>6. ASSUME NEW t \in Threads, GetUnlock(t) PROVE TypeOK'
  BY <1>6 DEF GetUnlock
<1>7. ASSUME NEW t \in Threads, GetWake(t) PROVE TypeOK'
  BY <1>7 DEF GetWake
<1>8. ASSUME NEW t \in Threads, TimerCancel(t) PROVE TypeOK'
  BY <1>8 DEF TimerCancel
<1>9. ASSUME NEW t \in Threads, GetReturn(t) PROVE TypeOK'
  BY <1>9 DEF GetReturn
<1>10. ASSUME NEW t \in Threads, SetWake(t) PROVE TypeOK'
  <2>1. /\ cursor \in DOMAIN waiters /\ Current \in Threads
        /\ Linked(Current) /\ sem[Current] = 0
    BY <1>10, <1>0 DEF SetWake, Current
  <2>2. waiters' \in Seq(Threads)
    BY <1>10, <2>1, ListRemove DEF SetWake, IInv, ListInv
  <2>3. result' \in [Threads -> [ok : BOOLEAN, bits : SUBSET Bits]]
    BY <1>10, <1>f, <1>t, <2>1 DEF SetWake
  <2>4. consumed' \subseteq Bits
    BY <1>10, <1>r, <2>1 DEF SetWake
  <2>5. sem' \in [Threads -> {0, 1}]
    BY <1>10, <2>1 DEF SetWake
  <2> QED
    BY <1>10, <2>2, <2>3, <2>4, <2>5 DEF SetWake
<1>11. ASSUME NEW t \in Threads, SetSkip(t) PROVE TypeOK'
  BY <1>11 DEF SetSkip
<1>12. ASSUME NEW t \in Threads, SetEnd(t) PROVE TypeOK'
  BY <1>12 DEF SetEnd
<1>13. ASSUME NEW t \in Threads, TimerFire(t) PROVE TypeOK'
  BY <1>13 DEF TimerFire
<1>14. ASSUME NEW t \in Threads, TimerPost(t) PROVE TypeOK'
  <2>1. sem' \in [Threads -> {0, 1}]
    BY <1>14, <1>0 DEF TimerPost
  <2> QED
    BY <1>14, <2>1 DEF TimerPost
<1>15. ASSUME NEW t \in Threads, TimerDone(t) PROVE TypeOK'
  BY <1>15 DEF TimerDone
<1>16. ASSUME NEW t \in Threads, TimerUnlink(t) PROVE TypeOK'
  <2>1. waiters' \in Seq(Threads)
    BY <1>16, ListRemove DEF TimerUnlink, Unlink, IInv, ListInv
  <2> QED
    BY <1>16, <2>1 DEF TimerUnlink
<1>17. CASE UNCHANGED vars
  BY <1>17 DEF vars
<1> QED
  BY NextCases, <1>1, <1>2, <1>3, <1>4, <1>5, <1>6, <1>7, <1>8, <1>9, <1>10, <1>11,
     <1>12, <1>13, <1>14, <1>15, <1>16, <1>17

LEMMA LockStep ==
  ASSUME TypeOK, LockInv, [Next]_vars
  PROVE  LockInv'
<1>g. \A t \in Getters : t \in Threads
  BY ThreadAssumption
<1> USE ThreadAssumption
    DEF TypeOK, LockInv, LockLabels, flagVars, timerVars, Goto, GetStep, SetStep, Timer
<1>1. ASSUME NEW t \in Getters, NEW r \in Requests, GetNow(t, r) PROVE LockInv'
  BY <1>1, <1>g DEF GetNow
<1>2. ASSUME NEW t \in Getters, NEW r \in Requests, GetLink(t, r) PROVE LockInv'
  BY <1>2, <1>g DEF GetLink
<1>3. ASSUME NEW t \in Threads, NEW ev \in SUBSET Bits, SetBegin(t, ev) PROVE LockInv'
  BY <1>3 DEF SetBegin
<1>4. ASSUME NEW t \in Threads, TimerRoutine(t) PROVE LockInv'
  BY <1>4 DEF TimerRoutine
<1>5. ASSUME NEW t \in Threads, TimerSet(t) PROVE LockInv'
  BY <1>5 DEF TimerSet
<1>6. ASSUME NEW t \in Threads, GetUnlock(t) PROVE LockInv'
  BY <1>6 DEF GetUnlock
<1>7. ASSUME NEW t \in Threads, GetWake(t) PROVE LockInv'
  BY <1>7 DEF GetWake
<1>8. ASSUME NEW t \in Threads, TimerCancel(t) PROVE LockInv'
  BY <1>8 DEF TimerCancel
<1>9. ASSUME NEW t \in Threads, GetReturn(t) PROVE LockInv'
  BY <1>9 DEF GetReturn
<1>10. ASSUME NEW t \in Threads, SetWake(t) PROVE LockInv'
  BY <1>10 DEF SetWake
<1>11. ASSUME NEW t \in Threads, SetSkip(t) PROVE LockInv'
  BY <1>11 DEF SetSkip
<1>12. ASSUME NEW t \in Threads, SetEnd(t) PROVE LockInv'
  BY <1>12 DEF SetEnd
<1>13. ASSUME NEW t \in Threads, TimerFire(t) PROVE LockInv'
  BY <1>13 DEF TimerFire
<1>14. ASSUME NEW t \in Threads, TimerPost(t) PROVE LockInv'
  BY <1>14 DEF TimerPost
<1>15. ASSUME NEW t \in Threads, TimerDone(t) PROVE LockInv'
  BY <1>15 DEF TimerDone
<1>16. ASSUME NEW t \in Threads, TimerUnlink(t) PROVE LockInv'
  BY <1>16 DEF TimerUnlink
<1>17. CASE UNCHANGED vars
  BY <1>17 DEF vars
<1> QED
  BY NextCases, <1>1, <1>2, <1>3, <1>4, <1>5, <1>6, <1>7, <1>8, <1>9, <1>10, <1>11,
     <1>12, <1>13, <1>14, <1>15, <1>16, <1>17

LEMMA TimerInvStep ==
  ASSUME TypeOK, LockInv, TimerInv, [Next]_vars
  PROVE  TimerInv'
<1>g. \A t \in Getters : t \in Threads
  BY ThreadAssumption
<1> USE DEF TypeOK, TimerInv, Timed, flagVars, timerVars, Goto, GetStep, SetStep, Timer
<1>1. ASSUME NEW t \in Getters, NEW r \in Requests, GetNow(t, r) PROVE TimerInv'
  BY <1>1, <1>g DEF GetNow
<1>2. ASSUME NEW t \in Getters, NEW r \in Requests, GetLink(t, r) PROVE TimerInv'
  BY <1>2, <1>g DEF GetLink
<1>3. ASSUME NEW t \in Threads, NEW ev \in SUBSET Bits, SetBegin(t, ev) PROVE TimerInv'
  BY <1>3 DEF SetBegin
<1>4. ASSUME NEW t \in Threads, TimerRoutine(t) PROVE TimerInv'
  BY <1>4 DEF TimerRoutine
<1>5. ASSUME NEW t \in Threads, TimerSet(t) PROVE TimerInv'
  BY <1>5 DEF TimerSet
<1>6. ASSUME NEW t \in Threads, GetUnlock(t) PROVE TimerInv'
  BY <1>6 DEF GetUnlock
<1>7. ASSUME NEW t \in Threads, GetWake(t) PROVE TimerInv'
  BY <1>7 DEF GetWake
<1>8. ASSUME NEW t \in Threads, TimerCancel(t) PROVE TimerInv'
  BY <1>8 DEF TimerCancel
<1>9. ASSUME NEW t \in Threads, GetReturn(t) PROVE TimerInv'
  BY <1>9 DEF GetReturn
<1>10. ASSUME NEW t \in Threads, SetWake(t) PROVE TimerInv'
  BY <1>10 DEF SetWake
<1>11. ASSUME NEW t \in Threads, SetSkip(t) PROVE TimerInv'
  BY <1>11 DEF SetSkip
<1>12. ASSUME NEW t \in Threads, SetEnd(t) PROVE TimerInv'
  BY <1>12 DEF SetEnd
<1>13. ASSUME NEW t \in Threads, TimerFire(t) PROVE TimerInv'
  BY <1>13 DEF TimerFire
<1>14. ASSUME NEW t \in Threads, TimerPost(t) PROVE TimerInv'
  BY <1>14 DEF TimerPost
<1>15. ASSUME NEW t \in Threads, TimerDone(t) PROVE TimerInv'
  BY <1>15 DEF TimerDone
<1>16. ASSUME NEW t \in Threads, TimerUnlink(t) PROVE TimerInv'
  BY <1>16 DEF TimerUnlink
<1>17. CASE UNCHANGED vars
  BY <1>17 DEF vars
<1> QED
  BY NextCases, <1>1, <1>2, <1>3, <1>4, <1>5, <1>6, <1>7, <1>8, <1>9, <1>10, <1>11,
     <1>12, <1>13, <1>14, <1>15, <1>16, <1>17

\* What a step that changes the list does to it.
LEMMA ListStep ==
  ASSUME TypeOK, IInv, [Next]_vars
  PROVE  ListInv'
<1>g. \A t \in Getters : t \in Threads
  BY ThreadAssumption
<1>0. ListInv
  BY DEF IInv
<1> USE DEF flagVars, timerVars, GetStep, SetStep, Timer
<1>1. ASSUME NEW t \in Getters, NEW r \in Requests, GetNow(t, r) PROVE ListInv'
  BY <1>1, <1>0 DEF GetNow, ListInv
<1>2. ASSUME NEW t \in Getters, NEW r \in Requests, GetLink(t, r) PROVE ListInv'
  <2>1. t \in Threads /\ t \notin ToSet(waiters) /\ waiters' = Append(waiters, t)
    BY <1>2, <1>g, LinkedIs DEF GetLink, IInv, Sleeping, Linked
  <2> QED
    BY <1>0, <2>1, ListAppend DEF ListInv, TypeOK
<1>3. ASSUME NEW t \in Threads, NEW ev \in SUBSET Bits, SetBegin(t, ev) PROVE ListInv'
  BY <1>3, <1>0 DEF SetBegin, ListInv
<1>4. ASSUME NEW t \in Threads, TimerRoutine(t) PROVE ListInv'
  BY <1>4, <1>0 DEF TimerRoutine, ListInv
<1>5. ASSUME NEW t \in Threads, TimerSet(t) PROVE ListInv'
  BY <1>5, <1>0 DEF TimerSet, ListInv
<1>6. ASSUME NEW t \in Threads, GetUnlock(t) PROVE ListInv'
  BY <1>6, <1>0 DEF GetUnlock, ListInv
<1>7. ASSUME NEW t \in Threads, GetWake(t) PROVE ListInv'
  BY <1>7, <1>0 DEF GetWake, ListInv
<1>8. ASSUME NEW t \in Threads, TimerCancel(t) PROVE ListInv'
  BY <1>8, <1>0 DEF TimerCancel, ListInv
<1>9. ASSUME NEW t \in Threads, GetReturn(t) PROVE ListInv'
  BY <1>9, <1>0 DEF GetReturn, ListInv
<1>10. ASSUME NEW t \in Threads, SetWake(t) PROVE ListInv'
  <2>1. cursor \in DOMAIN waiters /\ waiters' = RemoveAt(waiters, cursor)
    BY <1>10 DEF SetWake, TypeOK
  <2> QED
    BY <1>0, <2>1, ListRemove DEF ListInv, TypeOK
<1>11. ASSUME NEW t \in Threads, SetSkip(t) PROVE ListInv'
  BY <1>11, <1>0 DEF SetSkip, ListInv
<1>12. ASSUME NEW t \in Threads, SetEnd(t) PROVE ListInv'
  BY <1>12, <1>0 DEF SetEnd, ListInv
<1>13. ASSUME NEW t \in Threads, TimerFire(t) PROVE ListInv'
  BY <1>13, <1>0 DEF TimerFire, ListInv
<1>14. ASSUME NEW t \in Threads, TimerPost(t) PROVE ListInv'
  BY <1>14, <1>0 DEF TimerPost, ListInv
<1>15. ASSUME NEW t \in Threads, TimerDone(t) PROVE ListInv'
  BY <1>15, <1>0 DEF TimerDone, ListInv
<1>16. ASSUME NEW t \in Threads, TimerUnlink(t) PROVE ListInv'
  <2>1. \/ \E i \in DOMAIN waiters : waiters' = RemoveAt(waiters, i)
        \/ waiters' = waiters
    BY <1>16 DEF TimerUnlink, Unlink
  <2> QED
    BY <1>0, <2>1, ListRemove DEF ListInv, TypeOK
<1>17. CASE UNCHANGED vars
  BY <1>0, <1>17 DEF vars, ListInv
<1> QED
  BY NextCases, <1>1, <1>2, <1>3, <1>4, <1>5, <1>6, <1>7, <1>8, <1>9, <1>10, <1>11,
     <1>12, <1>13, <1>14, <1>15, <1>16, <1>17

\* A thread has one wakeup while it sleeps and none when it does not.
LEMMA WakeupStep ==
  ASSUME TypeOK, IInv, [Next]_vars
  PROVE  OneWakeup'
<1>g. \A t \in Getters : t \in Threads
  BY ThreadAssumption
<1>0. OneWakeup /\ \A t \in Threads : sem[t] \in {0, 1}
  BY DEF IInv, TypeOK
<1>t. TimerInv
  BY DEF IInv
<1> USE DEF TypeOK, OneWakeup, One, Sleeping, flagVars, timerVars, Goto, GetStep,
            SetStep, Timer
<1>1. ASSUME NEW t \in Getters, NEW r \in Requests, GetNow(t, r) PROVE OneWakeup'
  <2>1. \A u : Linked(u)' <=> Linked(u)
    BY <1>1 DEF GetNow, Linked
  <2> QED
    BY <1>1, <1>0, <1>t, <1>g, <2>1 DEF GetNow, TimerInv, Timed
<1>2. ASSUME NEW t \in Getters, NEW r \in Requests, GetLink(t, r) PROVE OneWakeup'
  <2>1. t \in Threads /\ t \notin ToSet(waiters) /\ waiters' = Append(waiters, t)
    BY <1>2, <1>g, LinkedIs DEF GetLink, IInv, Linked
  <2>2. \A u : Linked(u)' <=> Linked(u) \/ u = t
    BY <2>1, ListAppend DEF Linked, IInv, ListInv
  <2>3. t \in Threads /\ pc[t] = "idle" /\ ~Linked(t) /\ tpc[t] # "posting"
    BY <1>2, <1>t, <2>1 DEF GetLink, TimerInv, Linked
  <2>4. sem[t] = 0
    <3>1. sem[t] + One(Linked(t)) + One(tpc[t] = "posting") = One(Sleeping(t))
      BY <1>0, <2>3
    <3>2. ~Sleeping(t) /\ sem[t] \in {0, 1}
      BY <1>0, <2>3
    <3> QED
      BY <2>3, <3>1, <3>2
  <2> QED
    BY <1>2, <1>0, <2>1, <2>2, <2>3, <2>4 DEF GetLink
<1>3. ASSUME NEW t \in Threads, NEW ev \in SUBSET Bits, SetBegin(t, ev) PROVE OneWakeup'
  <2>1. \A u : Linked(u)' <=> Linked(u)
    BY <1>3 DEF SetBegin, Linked
  <2> QED
    BY <1>3, <1>0, <1>t, <1>g, <2>1 DEF SetBegin, TimerInv, Timed
<1>4. ASSUME NEW t \in Threads, TimerRoutine(t) PROVE OneWakeup'
  <2>1. \A u : Linked(u)' <=> Linked(u)
    BY <1>4 DEF TimerRoutine, Linked
  <2> QED
    BY <1>4, <1>0, <1>t, <1>g, <2>1 DEF TimerRoutine, TimerInv, Timed
<1>5. ASSUME NEW t \in Threads, TimerSet(t) PROVE OneWakeup'
  <2>1. \A u : Linked(u)' <=> Linked(u)
    BY <1>5 DEF TimerSet, Linked
  <2> QED
    BY <1>5, <1>0, <1>t, <1>g, <2>1 DEF TimerSet, TimerInv, Timed
<1>6. ASSUME NEW t \in Threads, GetUnlock(t) PROVE OneWakeup'
  <2>1. \A u : Linked(u)' <=> Linked(u)
    BY <1>6 DEF GetUnlock, Linked
  <2> QED
    BY <1>6, <1>0, <1>t, <1>g, <2>1 DEF GetUnlock, TimerInv, Timed
<1>7. ASSUME NEW t \in Threads, GetWake(t) PROVE OneWakeup'
  <2>1. \A u : Linked(u)' <=> Linked(u)
    BY <1>7 DEF GetWake, Linked
  <2> QED
    BY <1>7, <1>0, <1>t, <1>g, <2>1 DEF GetWake, TimerInv, Timed
<1>8. ASSUME NEW t \in Threads, TimerCancel(t) PROVE OneWakeup'
  <2>1. \A u : Linked(u)' <=> Linked(u)
    BY <1>8 DEF TimerCancel, Linked
  <2> QED
    BY <1>8, <1>0, <1>t, <1>g, <2>1 DEF TimerCancel, TimerInv, Timed
<1>9. ASSUME NEW t \in Threads, GetReturn(t) PROVE OneWakeup'
  <2>1. \A u : Linked(u)' <=> Linked(u)
    BY <1>9 DEF GetReturn, Linked
  <2> QED
    BY <1>9, <1>0, <1>t, <1>g, <2>1 DEF GetReturn, TimerInv, Timed
<1>10. ASSUME NEW t \in Threads, SetWake(t) PROVE OneWakeup'
  <2>1. /\ cursor \in DOMAIN waiters /\ waiters' = RemoveAt(waiters, cursor)
        /\ Current = waiters[cursor] /\ Current \in Threads
        /\ Linked(Current) /\ sem[Current] = 0 /\ tpc[Current] # "posting"
    BY <1>10, LinkedIs DEF SetWake, Current, IInv
  <2>2. \A u : Linked(u)' <=> Linked(u) /\ u # Current
    BY <2>1, ListRemove DEF Linked, IInv, ListInv
  <2>3. sem' = [sem EXCEPT ![Current] = 1]
    BY <1>10, <2>1 DEF SetWake
  <2> QED
    BY <1>10, <1>0, <2>1, <2>2, <2>3 DEF SetWake
<1>11. ASSUME NEW t \in Threads, SetSkip(t) PROVE OneWakeup'
  <2>1. \A u : Linked(u)' <=> Linked(u)
    BY <1>11 DEF SetSkip, Linked
  <2> QED
    BY <1>11, <1>0, <1>t, <1>g, <2>1 DEF SetSkip, TimerInv, Timed
<1>12. ASSUME NEW t \in Threads, SetEnd(t) PROVE OneWakeup'
  <2>1. \A u : Linked(u)' <=> Linked(u)
    BY <1>12 DEF SetEnd, Linked
  <2> QED
    BY <1>12, <1>0, <1>t, <1>g, <2>1 DEF SetEnd, TimerInv, Timed
<1>13. ASSUME NEW t \in Threads, TimerFire(t) PROVE OneWakeup'
  <2>1. \A u : Linked(u)' <=> Linked(u)
    BY <1>13 DEF TimerFire, Linked
  <2> QED
    BY <1>13, <1>0, <1>t, <1>g, <2>1 DEF TimerFire, TimerInv, Timed
<1>14. ASSUME NEW t \in Threads, TimerPost(t) PROVE OneWakeup'
  <2>1. \A u : Linked(u)' <=> Linked(u)
    BY <1>14 DEF TimerPost, Linked
  <2> QED
    BY <1>14, <1>0, <1>t, <1>g, <2>1 DEF TimerPost, TimerInv, Timed
<1>15. ASSUME NEW t \in Threads, TimerDone(t) PROVE OneWakeup'
  <2>1. \A u : Linked(u)' <=> Linked(u)
    BY <1>15 DEF TimerDone, Linked
  <2> QED
    BY <1>15, <1>0, <1>t, <1>g, <2>1 DEF TimerDone, TimerInv, Timed
<1>16. ASSUME NEW t \in Threads, TimerUnlink(t) PROVE OneWakeup'
  <2>1. CASE Unlink(t) /\ tpc' = [tpc EXCEPT ![t] = "posting"]
    <3>1. PICK i \in DOMAIN waiters : waiters[i] = t /\ waiters' = RemoveAt(waiters, i)
      BY <2>1 DEF Unlink
    <3>2. \A u : Linked(u)' <=> Linked(u) /\ u # t
      BY <3>1, ListRemove DEF Linked, IInv, ListInv
    <3>3. Linked(t) /\ sem[t] = 0
      BY <3>1, LinkedIs DEF IInv
    <3> QED
      BY <1>16, <1>0, <2>1, <3>2, <3>3 DEF TimerUnlink
  <2>2. CASE waiters' = waiters /\ tpc' = [tpc EXCEPT ![t] = "returning"]
    <3>1. \A u : Linked(u)' <=> Linked(u)
      BY <2>2 DEF Linked
    <3> QED
      BY <1>16, <1>0, <2>2, <3>1 DEF TimerUnlink
  <2> QED
    BY <1>16, <2>1, <2>2 DEF TimerUnlink
<1>17. CASE UNCHANGED vars
  BY <1>0, <1>17 DEF vars, Linked
<1> QED
  BY NextCases, <1>1, <1>2, <1>3, <1>4, <1>5, <1>6, <1>7, <1>8, <1>9, <1>10, <1>11,
     <1>12, <1>13, <1>14, <1>15, <1>16, <1>17

\* What is not satisfied is not satisfied by fewer events.
LEMMA FewerEvents ==
  \A r, ev, less : less \subseteq ev /\ ~Satisfied(r, ev) => ~Satisfied(r, less)
BY DEF Satisfied

\* A request in the list does not change, and no set walks while the lock is free.
LEMMA Frozen ==
  ASSUME TypeOK, IInv
  PROVE  /\ \A t \in Threads : pc[t] = "idle" => \A i \in DOMAIN waiters : waiters[i] # t
         /\ lock = NoThread => ~Walking
         /\ \A t, u \in Threads : pc[t] = "walking" /\ pc[u] = "walking" => t = u
<1>1. \A t \in Threads : Linked(t) => pc[t] # "idle"
  BY LinkedIs DEF IInv, Sleeping
<1>2. \A t \in Threads : pc[t] = "walking" => lock = t
  BY DEF IInv, LockInv, LockLabels
<1> QED
  BY <1>1, <1>2, ThreadAssumption DEF Walking, Linked, ToSet

LEMMA WalkStep ==
  ASSUME TypeOK, IInv, [Next]_vars
  PROVE  WalkInv'
<1>g. \A t \in Getters : t \in Threads
  BY ThreadAssumption
<1>0. WalkInv /\ pc \in [Threads -> {"idle", "linked", "arming", "armed", "asleep",
                                     "cancelling", "cancelled", "walking"}]
  BY DEF IInv, TypeOK
<1>w. waiters \in Seq(Threads) /\ request \in [Threads -> Requests]
      /\ \A i \in DOMAIN waiters : waiters[i] \in Threads
  BY DEF TypeOK
<1>c. cursor \in Nat \ {0}
  BY DEF TypeOK
<1> USE DEF flagVars, timerVars, Goto, GetStep, SetStep, Timer
<1>1. ASSUME NEW t \in Getters, NEW r \in Requests, GetNow(t, r) PROVE WalkInv'
  <2>1. ~Walking /\ ~Walking' /\ t \in Threads
    BY <1>1, <1>g, Frozen DEF GetNow, Walking
  <2>2. \A i \in DOMAIN waiters : request'[waiters[i]] = request[waiters[i]]
    BY <1>1, <1>w, <2>1, Frozen DEF GetNow
  <2>3. events' \subseteq events /\ UNCHANGED <<waiters, consumed, cursor>>
    BY <1>1 DEF GetNow
  <2> QED
    BY <1>0, <2>1, <2>2, <2>3, FewerEvents DEF WalkInv
<1>2. ASSUME NEW t \in Getters, NEW r \in Requests, GetLink(t, r) PROVE WalkInv'
  <2>1. ~Walking /\ ~Walking' /\ t \in Threads
    BY <1>2, <1>g, <1>0, Frozen DEF GetLink, Walking
  <2>2. \A i \in DOMAIN waiters : request'[waiters[i]] = request[waiters[i]]
    BY <1>2, <1>w, <2>1, Frozen DEF GetLink
  <2>3. /\ DOMAIN waiters' = 1..Len(waiters) + 1 /\ DOMAIN waiters = 1..Len(waiters)
        /\ Len(waiters) \in Nat
        /\ waiters'[Len(waiters) + 1] = t
        /\ \A i \in 1..Len(waiters) : waiters'[i] = waiters[i]
    <3>1. waiters' = Append(waiters, t)
      BY <1>2 DEF GetLink
    <3> QED
      BY <1>w, <2>1, <3>1, AppendProperties
  <2>4. request'[t] = r /\ ~Satisfied(r, events) /\ UNCHANGED <<events, consumed, cursor>>
    BY <1>2, <1>w, <2>1 DEF GetLink
  <2>5. ASSUME NEW i \in DOMAIN waiters' PROVE ~Satisfied(request'[waiters'[i]], events')
    <3>1. CASE i = Len(waiters) + 1
      BY <2>3, <2>4, <3>1
    <3>2. CASE i \in 1..Len(waiters)
      BY <1>0, <2>1, <2>2, <2>3, <2>4, <3>2 DEF WalkInv
    <3> QED
      BY <2>3, <2>5, <3>1, <3>2
  <2> QED
    BY <1>0, <2>1, <2>4, <2>5 DEF WalkInv
<1>3. ASSUME NEW t \in Threads, NEW ev \in SUBSET Bits, SetBegin(t, ev) PROVE WalkInv'
  <2>1. Walking' /\ cursor' = 1 /\ waiters' = waiters
    BY <1>3, <1>0 DEF SetBegin, Walking
  <2> QED
    BY <1>w, <2>1 DEF WalkInv
<1>4. ASSUME NEW t \in Threads, TimerRoutine(t) PROVE WalkInv'
  <2>1. Walking' <=> Walking
    BY <1>4, <1>0 DEF TimerRoutine, Walking
  <2> QED
    BY <1>4, <1>0, <2>1 DEF TimerRoutine, WalkInv
<1>5. ASSUME NEW t \in Threads, TimerSet(t) PROVE WalkInv'
  <2>1. Walking' <=> Walking
    BY <1>5, <1>0 DEF TimerSet, Walking
  <2> QED
    BY <1>5, <1>0, <2>1 DEF TimerSet, WalkInv
<1>6. ASSUME NEW t \in Threads, GetUnlock(t) PROVE WalkInv'
  <2>1. Walking' <=> Walking
    BY <1>6, <1>0 DEF GetUnlock, Walking
  <2> QED
    BY <1>6, <1>0, <2>1 DEF GetUnlock, WalkInv
<1>7. ASSUME NEW t \in Threads, GetWake(t) PROVE WalkInv'
  <2>1. Walking' <=> Walking
    BY <1>7, <1>0 DEF GetWake, Walking
  <2> QED
    BY <1>7, <1>0, <2>1 DEF GetWake, WalkInv
<1>8. ASSUME NEW t \in Threads, TimerCancel(t) PROVE WalkInv'
  <2>1. Walking' <=> Walking
    BY <1>8, <1>0 DEF TimerCancel, Walking
  <2> QED
    BY <1>8, <1>0, <2>1 DEF TimerCancel, WalkInv
<1>9. ASSUME NEW t \in Threads, GetReturn(t) PROVE WalkInv'
  <2>1. Walking' <=> Walking
    BY <1>9, <1>0 DEF GetReturn, Walking
  <2> QED
    BY <1>9, <1>0, <2>1 DEF GetReturn, WalkInv
<1>10. ASSUME NEW t \in Threads, SetWake(t) PROVE WalkInv'
  <2>1. /\ Walking /\ Walking' /\ UNCHANGED <<events, cursor, request>>
        /\ cursor \in DOMAIN waiters /\ waiters' = RemoveAt(waiters, cursor)
    BY <1>10, <1>w, <1>c DEF SetWake, Walking
  <2>2. /\ DOMAIN waiters' = 1..Len(waiters) - 1 /\ Len(waiters) \in Nat
        /\ \A i \in 1..Len(waiters) - 1 : i < cursor => waiters'[i] = waiters[i]
    BY <1>w, <2>1, ListRemove DEF IInv, ListInv
  <2>3. \A i \in 1..Len(waiters) - 1 : i \in DOMAIN waiters
    BY <1>w
  <2> QED
    BY <1>0, <2>1, <2>2, <2>3 DEF WalkInv
<1>11. ASSUME NEW t \in Threads, SetSkip(t) PROVE WalkInv'
  <2>1. /\ Walking /\ Walking' /\ UNCHANGED <<events, waiters, request>>
        /\ cursor' = cursor + 1 /\ ~Satisfied(request[waiters[cursor]], events)
    BY <1>11 DEF SetSkip, Walking, Current
  <2>2. \A i \in DOMAIN waiters : i < cursor + 1 => i < cursor \/ i = cursor
    BY <1>w, <1>c
  <2> QED
    BY <1>0, <2>1, <2>2 DEF WalkInv
<1>12. ASSUME NEW t \in Threads, SetEnd(t) PROVE WalkInv'
  <2>1. /\ Walking /\ cursor > Len(waiters) /\ UNCHANGED <<waiters, request>>
        /\ events' \subseteq events /\ consumed' = {} /\ cursor' = 1
    BY <1>12 DEF SetEnd, Walking
  <2>2. \A i \in DOMAIN waiters : i < cursor
    BY <1>w, <1>c, <2>1
  <2>3. ~Walking'
    BY <1>12, <1>0, Frozen DEF SetEnd, Walking
  <2> QED
    BY <1>0, <2>1, <2>2, <2>3, FewerEvents DEF WalkInv
<1>13. ASSUME NEW t \in Threads, TimerFire(t) PROVE WalkInv'
  <2>1. Walking' <=> Walking
    BY <1>13, <1>0 DEF TimerFire, Walking
  <2> QED
    BY <1>13, <1>0, <2>1 DEF TimerFire, WalkInv
<1>14. ASSUME NEW t \in Threads, TimerPost(t) PROVE WalkInv'
  <2>1. Walking' <=> Walking
    BY <1>14, <1>0 DEF TimerPost, Walking
  <2> QED
    BY <1>14, <1>0, <2>1 DEF TimerPost, WalkInv
<1>15. ASSUME NEW t \in Threads, TimerDone(t) PROVE WalkInv'
  <2>1. Walking' <=> Walking
    BY <1>15, <1>0 DEF TimerDone, Walking
  <2> QED
    BY <1>15, <1>0, <2>1 DEF TimerDone, WalkInv
<1>16. ASSUME NEW t \in Threads, TimerUnlink(t) PROVE WalkInv'
  <2>1. ~Walking /\ ~Walking' /\ UNCHANGED <<events, cursor, consumed, request>>
    BY <1>16, Frozen DEF TimerUnlink, Walking
  <2>2. CASE \E i \in DOMAIN waiters : waiters' = RemoveAt(waiters, i)
    <3>1. \A j \in DOMAIN waiters' : \E i \in DOMAIN waiters : waiters'[j] = waiters[i]
      <4>1. PICK k \in DOMAIN waiters : waiters' = RemoveAt(waiters, k)
        BY <2>2
      <4>2. ToSet(waiters') \subseteq ToSet(waiters)
        BY <1>w, <4>1, ListRemove DEF IInv, ListInv
      <4> QED
        BY <4>2 DEF ToSet
    <3> QED
      BY <1>0, <2>1, <3>1 DEF WalkInv
  <2>3. CASE waiters' = waiters
    BY <1>0, <2>1, <2>3 DEF WalkInv
  <2> QED
    BY <1>16, <2>2, <2>3 DEF TimerUnlink, Unlink
<1>17. CASE UNCHANGED vars
  BY <1>0, <1>17 DEF vars, WalkInv, Walking
<1> QED
  BY NextCases, <1>1, <1>2, <1>3, <1>4, <1>5, <1>6, <1>7, <1>8, <1>9, <1>10, <1>11,
     <1>12, <1>13, <1>14, <1>15, <1>16, <1>17

-----------------------------------------------------------------------------
LEMMA Initially ==
  ASSUME Init
  PROVE  TypeOK /\ IInv
<1> USE DEF Init
<1>1. DOMAIN waiters = {} /\ waiters \in Seq(Threads)
  BY EmptySeq
<1>2. TypeOK
  <2>1. request \in [Threads -> Requests]
    BY RequestAssumption
  <2>2. result \in [Threads -> [ok : BOOLEAN, bits : SUBSET Bits]]
    BY DEF NotYet
  <2> QED
    BY <1>1, <2>1, <2>2 DEF TypeOK
<1>3. OneWakeup
  BY <1>1 DEF OneWakeup, One, Linked, ToSet, Sleeping
<1>4. LockInv /\ TimerInv /\ ListInv /\ WalkInv
  BY <1>1, ThreadAssumption DEF LockInv, LockLabels, TimerInv, ListInv, WalkInv
<1> QED
  BY <1>2, <1>3, <1>4 DEF IInv

\* The types of the variables and the invariant, for any threads and events.
THEOREM Invariance == Spec => [](TypeOK /\ IInv)
<1>1. Init => TypeOK /\ IInv
  BY Initially
<1>2. TypeOK /\ IInv /\ [Next]_vars => (TypeOK /\ IInv)'
  <2> SUFFICES ASSUME TypeOK, IInv, [Next]_vars PROVE TypeOK' /\ IInv'
    OBVIOUS
  <2>1. LockInv' /\ TimerInv'
    BY LockStep, TimerInvStep DEF IInv
  <2> QED
    BY <2>1, TypeStep, ListStep, WakeupStep, WalkStep DEF IInv
<1> QED
  BY <1>1, <1>2, PTL DEF Spec

\* The variables keep their types; the semaphore of a thread is a binary one.
THEOREM TypeCorrect == Spec => []TypeOK
BY Invariance, PTL

\* A sleeper has exactly one wakeup coming, from a set or from its timer, nobody
\* else has one left over, and nobody sleeps on events that are set.
THEOREM EachWokenOnce == Spec => []WokenOnce
<1>1. TypeOK /\ IInv => WokenOnce
  <2> SUFFICES ASSUME TypeOK, IInv PROVE NobodySleepsOnSetEvents
    BY DEF WokenOnce, IInv
  <2>1. lock = NoThread => \A i \in DOMAIN waiters : ~Satisfied(request[waiters[i]], events)
    BY Frozen DEF IInv, WalkInv
  <2> QED
    BY <2>1 DEF NobodySleepsOnSetEvents, Linked, ToSet
<1> QED
  BY <1>1, Invariance, PTL

\* No timer looks at the request of a get that has returned.
THEOREM TimerEndsFirst == Spec => []TimerInsideGet
<1>1. IInv => TimerInsideGet
  BY DEF IInv, TimerInv, TimerInsideGet
<1> QED
  BY <1>1, Invariance, PTL

-----------------------------------------------------------------------------
\* The refinement: what the abstract flags are while a set walks, and when none
\* does.
AbsEvents  == events \ (consumed \cup UNION {request[t].bits :
                                     t \in {u \in Doomed : request[u].consume}})
AbsWaiting == ToSet(waiters) \ Doomed
AbsResult  == [t \in Threads |-> IF t \in Doomed THEN Found(events) ELSE result[t]]

LEMMA Mapping ==
  /\ \A t, r : Atomic!Get(t, r) <=>
       /\ t \notin AbsWaiting
       /\ request' = [request EXCEPT ![t] = r]
       /\ IF Satisfied(r, AbsEvents)
            THEN /\ AbsResult' = [AbsResult EXCEPT ![t] = Found(AbsEvents)]
                 /\ AbsEvents' = IF r.consume THEN AbsEvents \ r.bits ELSE AbsEvents
                 /\ AbsWaiting' = AbsWaiting
            ELSE /\ AbsResult' = [AbsResult EXCEPT ![t] = NotYet]
                 /\ AbsWaiting' = IF r.suspend = "no" THEN AbsWaiting ELSE AbsWaiting \cup {t}
                 /\ AbsEvents' = AbsEvents
  /\ \A t : Atomic!Timeout(t) <=>
       /\ t \in AbsWaiting /\ Timed(t)
       /\ AbsWaiting' = AbsWaiting \ {t}
       /\ UNCHANGED <<AbsEvents, request, AbsResult>>
  /\ UNCHANGED <<AbsEvents, AbsWaiting, request, AbsResult>> => UNCHANGED Atomic!vars
BY DEF Atomic!Get, Atomic!Timeout, Atomic!vars, Atomic!Satisfied, Satisfied, Atomic!Found,
       Found, Atomic!NotYet, NotYet, Timed, AbsEvents, AbsWaiting, AbsResult

LEMMA AtRest ==
  ASSUME TypeOK, WalkInv, ~Walking
  PROVE  AbsEvents = events /\ AbsWaiting = ToSet(waiters) /\ AbsResult = result
<1>1. Doomed = {} /\ consumed = {}
  BY DEF Walking, Doomed, WalkInv
<1>2. AbsResult = [t \in Threads |-> result[t]]
  BY <1>1 DEF AbsResult
<1>3. result = [t \in Threads |-> result[t]]
  BY DEF TypeOK
<1> QED
  BY <1>1, <1>2, <1>3 DEF AbsEvents, AbsWaiting

LEMMA AtRestNext ==
  ASSUME TypeOK', WalkInv', ~Walking'
  PROVE  AbsEvents' = events' /\ AbsWaiting' = ToSet(waiters)' /\ AbsResult' = result'
<1>1. Doomed' = {} /\ consumed' = {}
  BY DEF Walking, Doomed, WalkInv
<1>2. AbsResult' = [t \in Threads |-> result'[t]]
  BY <1>1 DEF AbsResult
<1>3. result' = [t \in Threads |-> result'[t]]
  BY DEF TypeOK
<1> QED
  BY <1>1, <1>2, <1>3 DEF AbsEvents, AbsWaiting

\* Steps that do not concern the flags.
LEMMA Stutter ==
  ASSUME UNCHANGED <<events, consumed, waiters, request, result>>, Walking' = Walking
  PROVE  UNCHANGED Atomic!vars
<1>1. Doomed' = Doomed
  BY DEF Doomed, Walking, ToSet
<1>2. UNCHANGED <<AbsEvents, AbsWaiting, AbsResult>>
  BY <1>1 DEF AbsEvents, AbsWaiting, AbsResult, ToSet
<1> QED
  BY <1>2, Mapping

LEMMA RefineGet ==
  ASSUME TypeOK, IInv, IInv', TypeOK', NEW t \in Getters, NEW r \in Requests,
         GetNow(t, r) \/ GetLink(t, r)
  PROVE  Atomic!Get(t, r)
<1>1. t \in Threads /\ ~Walking /\ ~Walking' /\ WalkInv /\ WalkInv' /\ t \notin ToSet(waiters)
  <2>1. t \in Threads /\ pc[t] = "idle" /\ lock = NoThread
    BY ThreadAssumption DEF GetNow, GetLink
  <2>2. ~Walking'
    BY <2>1, Frozen DEF GetNow, GetLink, Walking, Goto, TypeOK
  <2> QED
    BY <2>1, <2>2, Frozen DEF IInv, ToSet
<1>2. /\ AbsEvents = events /\ AbsWaiting = ToSet(waiters) /\ AbsResult = result
      /\ AbsEvents' = events' /\ AbsWaiting' = ToSet(waiters)' /\ AbsResult' = result'
  BY <1>1, AtRest, AtRestNext
<1>3. CASE GetNow(t, r)
  <2>1. ToSet(waiters)' = ToSet(waiters)
    BY <1>3 DEF GetNow, ToSet
  <2> QED
    BY <1>1, <1>2, <1>3, <2>1, Mapping DEF GetNow
<1>4. CASE GetLink(t, r)
  <2>1. ToSet(waiters)' = ToSet(waiters) \cup {t}
    BY <1>1, <1>4, ListAppend DEF GetLink, TypeOK, IInv, ListInv
  <2> QED
    BY <1>1, <1>2, <1>4, <2>1, Mapping DEF GetLink
<1> QED
  BY <1>3, <1>4

\* A set takes effect when it takes the lock.
LEMMA RefineSet ==
  ASSUME TypeOK, IInv, NEW t \in Threads, NEW ev, SetBegin(t, ev)
  PROVE  Atomic!Set(ev)
<1>1. ~Walking /\ WalkInv /\ Walking'
  BY Frozen DEF SetBegin, IInv, Walking, Goto, TypeOK
<1>2. AbsEvents = events /\ AbsWaiting = ToSet(waiters) /\ AbsResult = result
  BY <1>1, AtRest
<1>3. Doomed' = {u \in ToSet(waiters) : Satisfied(request[u], ev)}
  BY <1>1 DEF Doomed, SetBegin, Walking, ToSet, Satisfied
<1>4. /\ AbsEvents' = ev \ UNION {request[u].bits : u \in {v \in Doomed' : request[v].consume}}
      /\ AbsWaiting' = ToSet(waiters) \ Doomed'
      /\ AbsResult' = [u \in Threads |-> IF u \in Doomed' THEN Found(ev) ELSE AbsResult[u]]
  <2>1. /\ events' = ev /\ consumed' = {} /\ UNCHANGED <<waiters, request, result>>
    BY DEF SetBegin
  <2>2. AbsResult' = [u \in Threads |-> IF u \in Doomed' THEN Found(ev) ELSE result[u]]
    BY <2>1 DEF AbsResult, Found
  <2>3. AbsWaiting' = ToSet(waiters) \ Doomed'
    BY <2>1 DEF AbsWaiting, ToSet
  <2>4. AbsEvents' = ev \ UNION {request[u].bits : u \in {v \in Doomed' : request[v].consume}}
    BY <2>1 DEF AbsEvents
  <2> QED
    BY <1>2, <2>2, <2>3, <2>4
<1>5. request' = request
  BY DEF SetBegin
<1> QED
  BY <1>2, <1>3, <1>4, <1>5
     DEF Atomic!Set, Atomic!Consumed, Atomic!Satisfied, Satisfied, Atomic!Found, Found,
         AbsEvents, AbsWaiting, AbsResult

\* Its walk is a stutter, each wakeup of it and its end.
LEMMA RefineWalk ==
  ASSUME TypeOK, IInv, NEW t \in Threads, SetStep(t)
  PROVE  UNCHANGED Atomic!vars
<1>0. /\ waiters \in Seq(Threads) /\ request \in [Threads -> Requests] /\ cursor \in Nat \ {0}
      /\ pc \in [Threads -> {"idle", "linked", "arming", "armed", "asleep",
                             "cancelling", "cancelled", "walking"}]
      /\ WalkInv /\ ListInv
  BY DEF TypeOK, IInv
<1>1. CASE SetWake(t)
  <2> DEFINE w == Current
  <2>1. /\ Walking /\ Walking' /\ UNCHANGED <<events, request>>
        /\ cursor \in DOMAIN waiters /\ waiters' = RemoveAt(waiters, cursor)
        /\ w = waiters[cursor] /\ Satisfied(request[w], events)
        /\ result' = [result EXCEPT ![w] = Found(events)]
        /\ consumed' = IF request[w].consume THEN consumed \cup request[w].bits ELSE consumed
    BY <1>0, <1>1 DEF SetWake, Current, Walking
  <2>2. ToSet(waiters') = ToSet(waiters) \ {w} /\ w \in ToSet(waiters) /\ w \in Threads
    <3>1. ToSet(waiters') = ToSet(waiters) \ {w}
      BY <1>0, <2>1, ListRemove DEF ListInv
    <3> QED
      BY <1>0, <2>1, <3>1 DEF ToSet
  <2> HIDE DEF w
  <2>3. w \in Doomed /\ Doomed' = Doomed \ {w} /\ Doomed \subseteq ToSet(waiters)
    BY <2>1, <2>2 DEF Doomed, Walking, Satisfied
  <2>4. AbsWaiting' = AbsWaiting
    BY <2>2, <2>3 DEF AbsWaiting
  <2>5. AbsEvents' = AbsEvents
    <3> DEFINE D == UNION {request[u].bits : u \in {v \in Doomed : request[v].consume}}
               E == UNION {request[u].bits : u \in {v \in Doomed' : request[v].consume}}
    <3>1. \A x : x \in D <=> x \in E \/ (request[w].consume /\ x \in request[w].bits)
      BY <2>3
    <3>2. AbsEvents = events \ (consumed \cup D) /\ AbsEvents' = events \ (consumed' \cup E)
      BY <2>1 DEF AbsEvents
    <3> HIDE DEF D, E
    <3>3. consumed' \cup E = consumed \cup D
      BY <2>1, <3>1
    <3> QED
      BY <3>2, <3>3
  <2>6. AbsResult' = AbsResult
    <3>1. \A u \in Threads : (IF u \in Doomed' THEN Found(events) ELSE result'[u])
                              = (IF u \in Doomed THEN Found(events) ELSE result[u])
      BY <2>1, <2>3 DEF TypeOK
    <3>2. AbsResult' = [u \in Threads |-> IF u \in Doomed' THEN Found(events) ELSE result'[u]]
      BY <2>1 DEF AbsResult, Found
    <3> QED
      BY <3>1, <3>2 DEF AbsResult
  <2> QED
    BY <2>1, <2>4, <2>5, <2>6, Mapping
<1>2. CASE SetSkip(t)
  BY <1>2, Stutter DEF SetSkip, Walking
<1>3. CASE SetEnd(t)
  <2>1. /\ Walking /\ cursor > Len(waiters) /\ UNCHANGED <<waiters, request, result>>
        /\ events' = events \ consumed /\ consumed' = {}
    BY <1>3 DEF SetEnd, Walking
  <2>2. ~Walking'
    BY <1>0, <1>3, Frozen DEF SetEnd, Walking, Goto
  <2>3. \A i \in DOMAIN waiters : i < cursor
    BY <1>0, <2>1
  <2>4. Doomed = {} /\ Doomed' = {}
    BY <1>0, <2>2, <2>3 DEF Doomed, WalkInv, ToSet, Walking
  <2>5. AbsWaiting' = AbsWaiting
    BY <2>1, <2>4 DEF AbsWaiting, ToSet
  <2>6. AbsEvents' = AbsEvents
    BY <2>1, <2>4 DEF AbsEvents
  <2>7. AbsResult' = AbsResult
    BY <2>1, <2>4 DEF AbsResult
  <2> QED
    BY <2>1, <2>5, <2>6, <2>7, Mapping
<1> QED
  BY <1>1, <1>2, <1>3 DEF SetStep

\* A timer that finds its request linked is the abstract timeout.
LEMMA RefineTimer ==
  ASSUME TypeOK, IInv, TypeOK', IInv', NEW t \in Threads, TimerUnlink(t)
  PROVE  Atomic!Timeout(t) \/ UNCHANGED Atomic!vars
<1>1. /\ ~Walking /\ ~Walking' /\ WalkInv /\ WalkInv' /\ Timed(t)
      /\ UNCHANGED <<events, consumed, request, result>>
  BY Frozen DEF TimerUnlink, Walking, IInv, TimerInv
<1>2. /\ AbsEvents = events /\ AbsWaiting = ToSet(waiters) /\ AbsResult = result
      /\ AbsEvents' = events' /\ AbsWaiting' = ToSet(waiters)' /\ AbsResult' = result'
  BY <1>1, AtRest, AtRestNext
<1>3. CASE Unlink(t)
  <2>1. PICK i \in DOMAIN waiters : waiters[i] = t /\ waiters' = RemoveAt(waiters, i)
    BY <1>3 DEF Unlink
  <2>2. ToSet(waiters)' = ToSet(waiters) \ {t}
    <3>1. /\ waiters \in Seq(Threads)
          /\ \A j, k \in DOMAIN waiters : waiters[j] = waiters[k] => j = k
      BY DEF TypeOK, IInv, ListInv
    <3>2. ToSet(RemoveAt(waiters, i)) = ToSet(waiters) \ {waiters[i]}
      BY ONLY <3>1, ListRemove, i \in DOMAIN waiters
    <3> QED
      BY ONLY <2>1, <3>2 DEF ToSet
  <2>3. t \in ToSet(waiters)
    BY <2>1 DEF ToSet
  <2> QED
    BY <1>1, <1>2, <2>2, <2>3, Mapping
<1>4. CASE waiters' = waiters
  <2>1. Walking' = Walking
    BY <1>1, Zenon DEF Walking
  <2> QED
    BY <1>1, <1>4, <2>1, Stutter
<1> QED
  BY <1>3, <1>4 DEF TimerUnlink

LEMMA AbstractStep ==
  ASSUME TypeOK, IInv, TypeOK', IInv', [Next]_vars
  PROVE  [Atomic!Next]_Atomic!vars
<1>1. ASSUME NEW t \in Threads, Call(t) PROVE Atomic!Next
  <2>1. CASE t \in Getters /\ \E r \in Requests : GetNow(t, r) \/ GetLink(t, r)
    BY <2>1, RefineGet DEF Atomic!Next
  <2>2. ASSUME NEW bits \in SUBSET Bits,
               SetBegin(t, events \cup bits) \/ SetBegin(t, events \cap bits)
        PROVE  Atomic!Next
    <3>1. ~Walking /\ WalkInv
      BY <2>2, Frozen DEF SetBegin, IInv
    <3>2. AbsEvents = events
      BY <3>1, AtRest
    <3>3. PICK ev : (ev = events \cup bits \/ ev = events \cap bits) /\ SetBegin(t, ev)
      BY <2>2
    <3>4. Atomic!Set(ev)
      BY <3>3, RefineSet
    <3>5. ev = AbsEvents \cup bits \/ ev = AbsEvents \cap bits
      BY <3>2, <3>3
    <3>6. CASE ev = AbsEvents \cup bits
      <4>1. Atomic!Set(AbsEvents \cup bits)
        BY <3>4, <3>6, Zenon DEF Atomic!Set
      <4> QED
        BY <4>1 DEF Atomic!Next, AbsEvents
    <3>7. CASE ev = AbsEvents \cap bits
      <4>1. Atomic!Set(AbsEvents \cap bits)
        BY <3>4, <3>7, Zenon DEF Atomic!Set
      <4> QED
        BY <4>1 DEF Atomic!Next, AbsEvents
    <3> QED
      BY <3>5, <3>6, <3>7
  <2> QED
    BY <1>1, <2>1, <2>2 DEF Call
<1>2. ASSUME NEW t \in Threads, GetStep(t) \/ Timer(t) PROVE UNCHANGED Atomic!vars
  <2>1. UNCHANGED <<events, consumed, waiters, request, result>>
    BY <1>2 DEF GetStep, Timer, TimerRoutine, TimerSet, GetUnlock, GetWake, TimerCancel,
                GetReturn, TimerFire, TimerPost, TimerDone, flagVars
  <2>2. /\ pc[t] # "walking" /\ \E l : l # "walking" /\ pc' = [pc EXCEPT ![t] = l]
        \/ pc' = pc
    BY <1>2 DEF GetStep, Timer, TimerRoutine, TimerSet, GetUnlock, GetWake, TimerCancel,
                GetReturn, TimerFire, TimerPost, TimerDone, Goto
  <2>3. Walking' = Walking
    <3>1. CASE pc' = pc
      BY <3>1 DEF Walking
    <3>2. ASSUME NEW l, pc[t] # "walking", l # "walking", pc' = [pc EXCEPT ![t] = l]
          PROVE  Walking' = Walking
      <4>1. \A u \in Threads : pc'[u] = "walking" <=> pc[u] = "walking"
        BY <3>2 DEF TypeOK
      <4> QED
        BY <4>1, Zenon DEF Walking
    <3> QED
      BY <2>2, <3>1, <3>2
  <2> QED
    BY <2>1, <2>3, Stutter
<1>3. ASSUME NEW t \in Threads, TimerUnlink(t) PROVE [Atomic!Next]_Atomic!vars
  BY <1>3, RefineTimer DEF Atomic!Next
<1>4. CASE UNCHANGED vars
  <2>1. UNCHANGED <<events, consumed, waiters, request, result>> /\ Walking' = Walking
    BY <1>4 DEF vars, flagVars, Walking
  <2> QED
    BY <2>1, Stutter
<1> QED
  BY <1>1, <1>2, <1>3, <1>4, RefineWalk DEF Next

LEMMA AbstractInit ==
  ASSUME Init, TypeOK, IInv
  PROVE  Atomic!Init
<1>1. ~Walking /\ WalkInv
  BY DEF Init, Walking, IInv
<1>2. AbsEvents = events /\ AbsWaiting = ToSet(waiters) /\ AbsResult = result
  BY <1>1, AtRest
<1>3. ToSet(waiters) = {}
  BY DEF Init, ToSet
<1> QED
  BY <1>2, <1>3 DEF Init, TypeOK, Atomic!Init, Atomic!NotYet, NotYet, AbsEvents, AbsWaiting,
                    AbsResult

\* A set, which wakes its waiters one after the other while others run, amounts
\* to one step, and so does a get (vcos_event_flags.h).
THEOREM ImplementsFlags == Spec => AtomicFlags
<1>1. Init /\ TypeOK /\ IInv => Atomic!Init
  BY AbstractInit
<1>2. TypeOK /\ IInv /\ (TypeOK /\ IInv)' /\ [Next]_vars => [Atomic!Next]_Atomic!vars
  BY AbstractStep
<1> QED
  BY Invariance, <1>1, <1>2, PTL DEF Spec, AtomicFlags, Atomic!Spec

=============================================================================
