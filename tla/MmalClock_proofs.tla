-------------------------- MODULE MmalClock_proofs --------------------------
(***************************************************************************)
(* Proofs about the media clock, for any threads, times and bounds: it is  *)
(* never ahead of real time, its timer never comes too late, it calls back *)
(* each request once, and keeps them in order while it runs forwards.      *)
(***************************************************************************)
EXTENDS MmalClock, SequenceTheorems, WellFoundedInduction, TLAPS

\* The calls still allowed bound the requests still to come.
Budget == added + calls <= MaxCalls

\* Who exists when: the worker from the first request on, the timer only while
\* the worker sleeps or has just been woken.
LifeInv ==
  /\ scheduling <=> worker # "none"
  /\ ~scheduling => pending = <<>>
  /\ worker \notin {"wait", "cancel"} => timer = Off
  /\ destroyed => worker \in {"none", "ended"} /\ pending = <<>>

\* The counter has not seen more time than has passed.
RtcInv == rtc <= ticks

-----------------------------------------------------------------------------
\* The bounds, one by one.
LEMMA Bounds ==
  /\ RtcSize \in Nat \ {0} /\ MaxCalls \in Nat
  /\ DiscontDuration \in Nat /\ UpdateThreshold \in Nat /\ PausedDelay \in Nat
  /\ Times \subseteq Int /\ Scales \subseteq {-1, 0, 1}
  BY ClockAssumption DEF ClockAssumption

\* The local time, by speed: what the solvers need not multiply.
LEMMA LocalTime ==
  ASSUME TypeOK
  PROVE  /\ Elapsed \in Nat
         /\ Now \in Int /\ WallNow \in Nat
         /\ scale = 1  => Now = media + Elapsed
         /\ scale = 0  => Now = media
         /\ scale = -1 => Now = media - Elapsed
<1>1. Elapsed \in Nat
  BY Bounds DEF TypeOK, Elapsed
<1>2. CASE scale = 1
  BY <1>1, <1>2 DEF TypeOK, Now, WallNow
<1>3. CASE scale = 0
  BY <1>1, <1>3 DEF TypeOK, Now, WallNow
<1>4. CASE scale = -1
  BY <1>1, <1>4 DEF TypeOK, Now, WallNow
<1> QED
  BY <1>1, <1>2, <1>3, <1>4 DEF TypeOK

\* A set of natural numbers with an element has a least one.
LEMMA LeastNatural ==
  ASSUME NEW T, T \subseteq Nat, T # {}
  PROVE  \E i \in T : \A j \in T : i <= j
<1> DEFINE R == OpToRel(<, Nat)
<1>1. \A i, j \in Nat : i < j => <<i, j>> \in R
  BY Zenon DEF OpToRel
<1>2. IsWellFoundedOn(R, Nat)
  BY NatLessThanWellFounded, Zenon
<1> HIDE DEF Requests
<1>3. \E i \in T : \A j \in T : <<j, i>> \notin R
  BY <1>2, WFMin
<1>4. PICK i \in T : \A j \in T : <<j, i>> \notin R
  BY <1>3
<1>5. \A j \in T : ~(j < i)
  BY <1>1, <1>4
<1> QED
  BY <1>5

\* The place of a request is in the list or at its end.
LEMMA PositionInList ==
  ASSUME TypeOK, NEW due \in Times
  PROVE  Position(due) \in 1..Len(pending) + 1
<1> DEFINE later == {i \in DOMAIN pending : Before(due, pending[i].due)}
<1>1. /\ Len(pending) \in Nat
      /\ DOMAIN pending = 1..Len(pending)
  BY DEF TypeOK
<1>2. CASE later = {} \/ ~Before(due, pending[Len(pending)].due)
  <2>1. Position(due) = Len(pending) + 1
    BY <1>2 DEF Position
  <2> QED
    BY <1>1, <2>1
<1>3. CASE later # {} /\ Before(due, pending[Len(pending)].due)
  <2>1. Position(due) = CHOOSE i \in later : \A j \in later : i <= j
    BY <1>3 DEF Position
  <2>2. later \subseteq Nat
    BY <1>1
  <2> HIDE DEF later
  <2>3. \E i \in later : \A j \in later : i <= j
    BY <1>3, <2>2, LeastNatural
  <2>4. Position(due) \in later
    BY <2>1, <2>3
  <2> QED
    BY <1>1, <2>4 DEF later
<1> QED
  BY <1>2, <1>3

\* A request that is added keeps the list a list of requests.
LEMMA InsertType ==
  ASSUME TypeOK, NEW req \in Requests
  PROVE  /\ Insert(req) \in Seq(Requests)
         /\ Len(Insert(req)) = Len(pending) + 1
         /\ \E k \in 1..Len(pending) + 1 :
              /\ k = Position(req.due)
              /\ \A i \in 1..Len(pending) + 1 :
                   Insert(req)[i] = IF i < k THEN pending[i]
                                    ELSE IF i = k THEN req ELSE pending[i - 1]
<1> DEFINE k == Position(req.due)
           n == Len(pending)
<1>1. k \in 1..n + 1
  BY PositionInList DEF Requests
<1>2. pending \in Seq(Requests)
  BY DEF TypeOK
<1>4. /\ n \in Nat
      /\ \A i \in 1..n : pending[i] \in Requests
  BY <1>2, ElementOfSeq, LenProperties
<1>3. Insert(req) = [i \in 1..n + 1 |->
                       IF i < k THEN pending[i] ELSE IF i = k THEN req ELSE pending[i - 1]]
  BY DEF Insert
<1> HIDE DEF k, n
<1>5. \A i \in 1..n + 1 : Insert(req)[i] \in Requests
  <2> SUFFICES ASSUME NEW i \in 1..n + 1
               PROVE  Insert(req)[i] \in Requests
    OBVIOUS
  <2>1. CASE i < k
    BY <1>1, <1>4, <1>3, <2>1
  <2>2. CASE i = k
    BY <1>3, <2>2
  <2>3. CASE i > k
    BY <1>1, <1>4, <1>3, <2>3
  <2> QED
    BY <1>1, <1>4, <2>1, <2>2, <2>3
<1>6. Insert(req) \in [1..n + 1 -> Requests]
  BY <1>3, <1>5
<1>7. Insert(req) \in Seq(Requests) /\ Len(Insert(req)) = n + 1
  BY <1>4, <1>6, IsASeq, LenProperties
<1> QED
  BY <1>1, <1>3, <1>7 DEF k, n

\* What is left after the first request has been served.
LEMMA TailType ==
  ASSUME TypeOK, pending # <<>>
  PROVE  /\ Tail(pending) \in Seq(Requests) /\ Len(pending) \in Nat \ {0}
         /\ Len(Tail(pending)) = Len(pending) - 1
         /\ \A i \in 1..Len(pending) - 1 : Tail(pending)[i] = pending[i + 1]
         /\ Head(pending) = pending[1]
         /\ pending[1] \in Requests
  BY EmptySeq, ElementOfSeq, LenProperties, HeadTailProperties DEF TypeOK

LEMMA ExpiredDiscont ==
  ASSUME NEW d \in Disconts
  PROVE  [d EXCEPT !.expiry = 0] \in Disconts
  BY DEF Disconts

LEMMA CallBackType ==
  ASSUME TypeOK, NEW S, CallBack(S)
  PROVE  calledBack' \in [Ids -> Nat]
  BY DEF TypeOK, CallBack

-----------------------------------------------------------------------------
\* The variables keep their types, and no more requests are accepted than the
\* calls allow.
LEMMA TypeInit == Init => TypeOK /\ Budget
<1> SUFFICES ASSUME Init PROVE TypeOK /\ Budget
  OBVIOUS
<1>1. pending \in Seq(Requests)
  BY EmptySeq DEF Init
<1>2. discont \in Disconts
  BY DEF Init, Disconts, NoDiscont
<1>3. /\ calledBack \in [Ids -> Nat]
      /\ at \in [Callers -> {"idle", "wake", "join"}]
  BY DEF Init
<1>4. media \in Int /\ wall \in Nat /\ atTimer \in Int
  BY Bounds DEF Init
<1>5. active \in BOOLEAN /\ scale \in {-1, 0, 1}
  BY DEF Init
<1>6. rtc \in 0..RtcSize - 1 /\ ticks \in Nat /\ rtcAt \in 0..RtcSize - 1
  BY Bounds DEF Init
<1>7. /\ scheduling \in BOOLEAN /\ stop \in BOOLEAN /\ destroyed \in BOOLEAN
      /\ event \in Nat /\ timer \in Nat \cup {Off} /\ worker = "none"
  BY DEF Init
<1>8. added \in 0..MaxCalls /\ calls \in 0..MaxCalls /\ Budget
  BY Bounds DEF Init, Budget
<1>9. turned \in BOOLEAN
  BY DEF Init
<1> QED
  BY <1>1, <1>2, <1>3, <1>4, <1>5, <1>6, <1>7, <1>8, <1>9 DEF TypeOK

LEMMA TypeStep ==
  ASSUME TypeOK, Budget, [Next]_vars
  PROVE  TypeOK' /\ Budget'
<1> USE Bounds DEF Budget, ctrl, life, reqVars, user, timeVars
<1>1. UpdateLocalTime => media' \in Int /\ wall' \in Nat /\ rtcAt' \in 0..RtcSize - 1
  BY LocalTime DEF TypeOK, UpdateLocalTime
<1>2. CASE UNCHANGED vars
  BY <1>2 DEF vars, TypeOK
<1>3. ASSUME NEW t \in Callers, NEW due \in Times, RequestAdd(t, due)
      PROVE  TypeOK' /\ Budget'
  <2> DEFINE req == [id |-> added + 1, due |-> due]
  <2>1. calls > 0 /\ calls' = calls - 1
    BY <1>3 DEF RequestAdd, Begin
  <2>2. req \in Requests
    BY <2>1 DEF TypeOK, Requests, Ids
  <2>3. Insert(req) \in Seq(Requests)
    BY <2>2, InsertType
  <2>4. \/ pending' = pending /\ added' = added
        \/ pending' = Insert(req) /\ added' = added + 1
    BY <1>3 DEF RequestAdd
  <2>5. at' \in [Callers -> {"idle", "wake", "join"}]
    BY <1>3 DEF RequestAdd, Return, Goto, TypeOK
  <2>6. /\ UpdateLocalTime /\ calledBack' = calledBack /\ turned' = turned
        /\ scheduling' = TRUE
        /\ worker' \in {"wait", worker}
        /\ UNCHANGED <<rtc, ticks, ctrl, atTimer, discont, stop, destroyed, event, timer>>
    BY <1>3 DEF RequestAdd
  <2> HIDE DEF req
  <2> QED
    BY <1>1, <2>1, <2>3, <2>4, <2>5, <2>6 DEF TypeOK
<1>4. ASSUME NEW t \in Callers, NEW m \in Times, MediaTimeSet(t, m)
      PROVE  TypeOK' /\ Budget'
  <2>1. media' \in Int /\ wall' \in Nat /\ rtcAt' \in 0..RtcSize - 1
    BY <1>4, LocalTime DEF TypeOK, MediaTimeSet
  <2>2. at' \in [Callers -> {"idle", "wake", "join"}]
    BY <1>4 DEF MediaTimeSet, Goto, TypeOK
  <2> QED
    BY <1>4, <2>1, <2>2 DEF TypeOK, MediaTimeSet, Begin
<1>5. ASSUME NEW t \in Callers, NEW s \in Scales, ScaleSet(t, s)
      PROVE  TypeOK' /\ Budget'
  BY <1>1, <1>5 DEF TypeOK, ScaleSet, Begin, Goto
<1>6. ASSUME NEW t \in Callers, NEW b \in BOOLEAN, ActiveSet(t, b)
      PROVE  TypeOK' /\ Budget'
  BY <1>6 DEF TypeOK, ActiveSet, Begin, Goto
<1>7. ASSUME NEW t \in Callers, RequestFlush(t)
      PROVE  TypeOK' /\ Budget'
  <2>1. calledBack' \in [Ids -> Nat] /\ pending' \in Seq(Requests) /\ turned' \in BOOLEAN
    BY <1>7, CallBackType, EmptySeq DEF RequestFlush, CallBackAll
  <2>2. calls' \in 0..MaxCalls /\ Budget' /\ atTimer' \in Int
    BY <1>7 DEF TypeOK, RequestFlush, Begin, Budget
  <2> QED
    BY <1>7, <2>1, <2>2 DEF TypeOK, RequestFlush
<1>8. ASSUME NEW t \in Callers, MediaTimeGet(t)
      PROVE  TypeOK' /\ Budget'
  BY <1>1, <1>8 DEF TypeOK, MediaTimeGet, Begin
<1>9. ASSUME NEW t \in Callers, DestroyBegin(t)
      PROVE  TypeOK' /\ Budget'
  <2>1. /\ stop' \in BOOLEAN /\ destroyed' \in BOOLEAN
        /\ at' \in [Callers -> {"idle", "wake", "join"}]
    BY <1>9 DEF TypeOK, DestroyBegin, Goto
  <2> QED
    BY <1>9, <2>1 DEF TypeOK, DestroyBegin, Begin
<1>10. ASSUME NEW t \in Callers, Wake(t)
       PROVE  TypeOK' /\ Budget'
  BY <1>10 DEF TypeOK, Wake, Goto
<1>11. ASSUME NEW t \in Callers, DestroyEnd(t)
       PROVE  TypeOK' /\ Budget'
  <2>1. calledBack' \in [Ids -> Nat] /\ pending' \in Seq(Requests) /\ turned' \in BOOLEAN
    BY <1>11, CallBackType, EmptySeq DEF DestroyEnd, CallBackAll
  <2>2. destroyed' \in BOOLEAN /\ atTimer' \in Int /\ Budget'
        /\ at' \in [Callers -> {"idle", "wake", "join"}]
    BY <1>11 DEF TypeOK, DestroyEnd, Return, Budget
  <2> QED
    BY <1>11, <2>1, <2>2 DEF TypeOK, DestroyEnd
<1>12. CASE WorkerWait
  BY <1>12 DEF TypeOK, WorkerWait
<1>13. CASE WorkerCancel
  BY <1>13 DEF TypeOK, WorkerCancel
<1>14. CASE WorkerLook
  BY <1>14 DEF TypeOK, WorkerLook
<1>15. CASE WorkerLock
  <2>1. media' \in Int /\ wall' \in Nat /\ rtcAt' \in 0..RtcSize - 1
    BY <1>1, <1>15 DEF WorkerLock, TypeOK
  <2>2. discont' \in Disconts
    BY <1>15, LocalTime DEF WorkerLock, TypeOK, Disconts
  <2> QED
    BY <1>15, <2>1, <2>2 DEF TypeOK, WorkerLock
<1>16. CASE WorkerFlush
  <2>1. calledBack' \in [Ids -> Nat] /\ pending' \in Seq(Requests) /\ turned' \in BOOLEAN
    BY <1>16, CallBackType, TailType DEF WorkerFlush, CallBackFirst, TypeOK
  <2> QED
    BY <1>16, <2>1 DEF TypeOK, WorkerFlush
<1>17. CASE WorkerServe
  <2>1. calledBack' \in [Ids -> Nat] /\ pending' \in Seq(Requests) /\ turned' \in BOOLEAN
    BY <1>17, CallBackType, TailType DEF WorkerServe, CallBackFirst, TypeOK
  <2>2. discont' \in Disconts
    BY <1>17, ExpiredDiscont DEF WorkerServe, TypeOK
  <2>3. Now \in Int /\ Head(pending).due \in Int
    BY <1>17, LocalTime, TailType DEF WorkerServe, Requests
  <2> DEFINE due == Head(pending).due
  <2>5. Abs(Now - due) \in Nat
    BY <2>3 DEF Abs
  <2>6. \/ timer' = timer /\ atTimer' = atTimer /\ worker' = worker
        \/ /\ timer' = (IF scale = 0 THEN PausedDelay ELSE Abs(Now - due))
           /\ atTimer' = Now /\ worker' = "wait"
    BY <1>17 DEF WorkerServe
  <2> HIDE DEF due
  <2>4. timer' \in Nat \cup {Off} /\ atTimer' \in Int /\ worker' \in {"wait", "serve"}
    BY <1>17, <2>3, <2>5, <2>6 DEF WorkerServe, TypeOK
  <2> QED
    BY <1>1, <1>17, <2>1, <2>2, <2>4 DEF TypeOK, WorkerServe
<1>18. CASE WorkerServed
  BY <1>18 DEF TypeOK, WorkerServed
<1>19. CASE TimerExpires
  BY <1>19 DEF TypeOK, TimerExpires
<1>20. CASE Tick
  <2>1. rtc' \in 0..RtcSize - 1
    BY <1>20 DEF Tick, TypeOK
  <2>2. timer' \in Nat \cup {Off}
    BY <1>20 DEF Tick, TypeOK, Off
  <2> QED
    BY <1>20, <2>1, <2>2 DEF TypeOK, Tick
<1>21. CASE Done
  BY <1>2, <1>21 DEF Done
<1> QED
  BY <1>2, <1>3, <1>4, <1>5, <1>6, <1>7, <1>8, <1>9, <1>10, <1>11, <1>12, <1>13, <1>14,
     <1>15, <1>16, <1>17, <1>18, <1>19, <1>20, <1>21 DEF Next, User, InCall, Worker

THEOREM TypeCorrect == Spec => [](TypeOK /\ Budget)
<1>1. TypeOK /\ Budget /\ [Next]_vars => (TypeOK /\ Budget)'
  BY TypeStep
<1> QED
  BY TypeInit, <1>1, PTL DEF Spec

-----------------------------------------------------------------------------
\* The wall time stays behind real time because an update never counts more
\* time than the counter shows, and the counter never shows more than passed.
LEMMA NotFastStep ==
  ASSUME TypeOK, RtcInv, NotFast, [Next]_vars
  PROVE  RtcInv' /\ NotFast'
<1> USE DEF RtcInv, NotFast
<1>1. /\ rtc \in Nat /\ rtcAt \in Nat /\ ticks \in Nat /\ wall \in Nat
      /\ WallNow = wall + Elapsed
  BY Bounds DEF TypeOK, WallNow
<1>2. ASSUME UNCHANGED <<rtc, ticks>>, UNCHANGED <<wall, rtcAt>>
      PROVE  RtcInv' /\ NotFast'
  BY <1>2 DEF WallNow, Elapsed
<1>3. ASSUME UNCHANGED <<rtc, ticks>>, rtcAt' = rtc, wall' \in {WallNow, rtc}
      PROVE  RtcInv' /\ NotFast'
  <2>1. wall' \in Nat /\ wall' <= ticks' /\ rtc' <= ticks'
    BY <1>1, <1>3, LocalTime
  <2>2. WallNow' = wall' + 0
    BY <1>1, <1>3 DEF WallNow, Elapsed
  <2>3. wall' + 0 <= ticks'
    BY <2>1
  <2> QED
    BY <2>1, <2>2, <2>3
<1>4. CASE Tick
  <2>1. rtc + 1 < RtcSize => rtc' = rtc + 1
    BY <1>1, <1>4, Bounds DEF Tick
  <2>2. ~(rtc + 1 < RtcSize) => rtc' = 0
    BY <1>1, <1>4, Bounds DEF Tick, TypeOK
  <2>3. ticks' = ticks + 1 /\ wall' = wall /\ rtcAt' = rtcAt
    BY <1>4 DEF Tick, timeVars
  <2> QED
    BY <1>1, <2>1, <2>2, <2>3 DEF WallNow, Elapsed
<1>5. ASSUME NEW t \in Callers, User(t)
      PROVE  RtcInv' /\ NotFast'
  <2>1. CASE \E m \in Times : RequestAdd(t, m)
    BY <1>3, <2>1 DEF RequestAdd, UpdateLocalTime
  <2>2. CASE \E m \in Times : MediaTimeSet(t, m)
    BY <1>2, <1>3, <2>2 DEF MediaTimeSet, timeVars
  <2>3. CASE \E s \in Scales : ScaleSet(t, s)
    BY <1>3, <2>3 DEF ScaleSet, UpdateLocalTime
  <2>4. CASE \E b \in BOOLEAN : ActiveSet(t, b)
    BY <1>2, <2>4 DEF ActiveSet, timeVars
  <2>5. CASE RequestFlush(t) \/ DestroyBegin(t)
    BY <1>2, <2>5 DEF RequestFlush, DestroyBegin, timeVars
  <2>6. CASE MediaTimeGet(t)
    BY <1>3, <2>6 DEF MediaTimeGet, UpdateLocalTime
  <2> QED
    BY <1>5, <2>1, <2>2, <2>3, <2>4, <2>5, <2>6 DEF User
<1>6. ASSUME NEW t \in Callers, InCall(t)
      PROVE  RtcInv' /\ NotFast'
  BY <1>2, <1>6 DEF InCall, Wake, DestroyEnd, timeVars
<1>7. CASE WorkerLock
  BY <1>2, <1>3, <1>7 DEF WorkerLock, UpdateLocalTime, timeVars
<1>8. CASE WorkerServe
  BY <1>3, <1>8 DEF WorkerServe, UpdateLocalTime
<1>9. CASE WorkerWait \/ WorkerCancel \/ WorkerLook \/ WorkerFlush \/ WorkerServed \/ TimerExpires
  BY <1>2, <1>9 DEF WorkerWait, WorkerCancel, WorkerLook, WorkerFlush, WorkerServed, TimerExpires, timeVars
<1>10. CASE Done \/ UNCHANGED vars
  BY <1>2, <1>10 DEF Done, vars, timeVars
<1> QED
  BY <1>4, <1>5, <1>6, <1>7, <1>8, <1>9, <1>10 DEF Next, Worker

\* The wall time of the clock never runs ahead of real time, for any size of the
\* counter that mmal_clock_update_local_time_locked reads.
THEOREM ClockNotFast == Spec => []NotFast
<1>1. Init => RtcInv /\ NotFast
  BY Bounds DEF Init, RtcInv, NotFast, WallNow, Elapsed
<1>2. TypeOK /\ RtcInv /\ NotFast /\ [Next]_vars => (RtcInv /\ NotFast)'
  BY NotFastStep
<1> QED
  BY TypeCorrect, <1>1, <1>2, PTL DEF Spec

-----------------------------------------------------------------------------
\* The worker, its timer and the life of the clock.
LEMMA LifeStep ==
  ASSUME TypeOK, LifeInv, [Next]_vars
  PROVE  LifeInv'
<1> USE DEF LifeInv, life, reqVars, user
<1>1. ASSUME NEW t \in Callers, User(t)
      PROVE  LifeInv'
  <2>1. CASE \E m \in Times : RequestAdd(t, m)
    BY <2>1 DEF RequestAdd, Begin
  <2>2. CASE \E m \in Times : MediaTimeSet(t, m)
    BY <2>2 DEF MediaTimeSet
  <2>3. CASE \E s \in Scales : ScaleSet(t, s)
    BY <2>3 DEF ScaleSet
  <2>4. CASE \E b \in BOOLEAN : ActiveSet(t, b)
    BY <2>4 DEF ActiveSet
  <2>5. CASE RequestFlush(t)
    BY <2>5 DEF RequestFlush, CallBackAll
  <2>6. CASE MediaTimeGet(t)
    BY <2>6 DEF MediaTimeGet
  <2>7. CASE DestroyBegin(t)
    BY <2>7 DEF DestroyBegin
  <2> QED
    BY <1>1, <2>1, <2>2, <2>3, <2>4, <2>5, <2>6, <2>7 DEF User
<1>2. ASSUME NEW t \in Callers, InCall(t)
      PROVE  LifeInv'
  BY <1>2 DEF InCall, Wake, DestroyEnd, CallBackAll
<1>3. CASE WorkerWait \/ WorkerCancel \/ WorkerLook
  BY <1>3 DEF WorkerWait, WorkerCancel, WorkerLook
<1>4. CASE WorkerLock
  BY <1>4 DEF WorkerLock
<1>5. CASE WorkerFlush
  BY <1>5 DEF WorkerFlush
<1>6. CASE WorkerServe
  BY <1>6 DEF WorkerServe
<1>7. CASE WorkerServed \/ TimerExpires
  BY <1>7 DEF WorkerServed, TimerExpires
<1>8. CASE Tick
  BY <1>8 DEF Tick, Off
<1>9. CASE Done \/ UNCHANGED vars
  BY <1>9 DEF Done, vars
<1> QED
  BY <1>1, <1>2, <1>3, <1>4, <1>5, <1>6, <1>7, <1>8, <1>9 DEF Next, Worker

THEOREM LifeCorrect == Spec => []LifeInv
<1>1. Init => LifeInv
  BY DEF Init, LifeInv
<1>2. TypeOK /\ LifeInv /\ [Next]_vars => LifeInv'
  BY LifeStep
<1> QED
  BY TypeCorrect, <1>1, <1>2, PTL DEF Spec

-----------------------------------------------------------------------------
\* An update of the local time does not move it, and neither does a step that
\* leaves the clock alone.
LEMMA NowKept ==
  ASSUME TypeOK, TypeOK', UNCHANGED <<rtc, scale>>,
         UNCHANGED timeVars \/ (media' = Now /\ rtcAt' = rtc)
  PROVE  Now' = Now
<1>1. CASE UNCHANGED timeVars
  BY <1>1 DEF timeVars, Now, Elapsed
<1>2. CASE media' = Now /\ rtcAt' = rtc
  <2>1. Elapsed' = 0
    BY <1>2 DEF Elapsed, TypeOK
  <2>2. scale' * 0 = 0
    BY DEF TypeOK
  <2>3. Now' = media' + scale' * Elapsed'
    BY DEF Now
  <2>4. Now' = media' + 0
    BY <2>1, <2>2, <2>3
  <2> QED
    BY <1>2, <2>4, LocalTime
<1> QED
  BY <1>1, <1>2

\* When the timer alone must wake the worker.
Asleep ==
  /\ worker = "wait" /\ event = 0 /\ active /\ pending # <<>> /\ ~stop
  /\ \A t \in Callers : at[t] # "wake"

LEMMA TimerFrame ==
  ASSUME TypeOK, TypeOK', TimerInTime, Asleep' => Asleep,
         UNCHANGED <<rtc, scale, timer, pending>>,
         UNCHANGED timeVars \/ (media' = Now /\ rtcAt' = rtc)
  PROVE  TimerInTime'
<1>1. Now' = Now
  BY NowKept
<1> QED
  BY <1>1 DEF TimerInTime, Asleep

\* A tick takes one from the timer and adds at most one to the clock.
LEMMA TimerTick ==
  ASSUME TypeOK, TypeOK', TimerInTime, Tick
  PROVE  TimerInTime'
<1> SUFFICES ASSUME Asleep'
             PROVE  /\ timer' # Off
                    /\ scale' # 0 =>
                         timer' = 0 \/ timer' <= scale' * (Head(pending').due - Now')
  BY DEF TimerInTime, Asleep
<1> DEFINE due == Head(pending).due
<1>1. Asleep /\ pending' = pending /\ scale' = scale /\ media' = media
  BY DEF Asleep, Tick, reqVars, ctrl, user, life, timeVars
<1>2. timer # Off /\ (scale # 0 => timer = 0 \/ timer <= scale * (due - Now))
  BY <1>1 DEF TimerInTime, Asleep
<1>3. timer' = (IF timer > 0 THEN timer - 1 ELSE timer) /\ timer \in Nat
  BY <1>2 DEF Tick, TypeOK
<1>4. Elapsed \in Nat /\ Elapsed' \in Nat /\ Elapsed' <= Elapsed + 1
  <2>1. rtc \in Nat /\ rtcAt \in Nat /\ rtcAt' = rtcAt /\ rtc' \in Nat
    BY Bounds DEF TypeOK, Tick, timeVars
  <2>2. rtc + 1 < RtcSize => rtc' = rtc + 1
    BY <2>1, Bounds DEF Tick
  <2>3. rtc + 1 <= RtcSize
    BY Bounds DEF TypeOK
  <2>4. rtc + 1 = RtcSize => rtc' = 0
    BY <2>1, Bounds DEF Tick
  <2>5. rtc' = rtc + 1 \/ rtc' = 0
    BY <2>1, <2>2, <2>3, <2>4, Bounds
  <2>6. CASE rtc' = rtc + 1
    BY <2>1, <2>6 DEF Elapsed
  <2>7. CASE rtc' = 0
    BY <2>1, <2>7 DEF Elapsed
  <2> QED
    BY <2>5, <2>6, <2>7
<1>5. due \in Int
  BY <1>1, TailType, Bounds DEF Asleep, Requests
<1>6. media \in Int /\ scale \in {-1, 0, 1}
  BY DEF TypeOK
<1>7. Now = media + scale * Elapsed /\ Now' = media' + scale' * Elapsed'
  BY DEF Now
<1> DEFINE E == Elapsed'
<1>8. Now' = media + scale * E
  BY <1>1, <1>7
<1> HIDE DEF E, due
<1>9. E \in Nat /\ E <= Elapsed + 1
  BY <1>4 DEF E
<1>10. CASE scale = 1
  <2>1. Now = media + Elapsed /\ Now' = media + E
    BY <1>4, <1>6, <1>7, <1>8, <1>9, <1>10
  <2>2. timer = 0 \/ timer <= due - (media + Elapsed)
    BY <1>2, <1>4, <1>5, <1>6, <1>10, <2>1
  <2>3. timer' = 0 \/ timer' <= due - (media + E)
    BY <1>3, <1>4, <1>5, <1>6, <1>9, <2>2
  <2>4. scale' * (Head(pending').due - Now') = due - (media + E)
    BY <1>1, <1>5, <1>6, <1>9, <1>10, <2>1 DEF due
  <2> QED
    BY <1>3, <2>3, <2>4 DEF Off
<1>11. CASE scale = -1
  <2>1. Now = media - Elapsed /\ Now' = media - E
    BY <1>4, <1>6, <1>7, <1>8, <1>9, <1>11
  <2>2. timer = 0 \/ timer <= (media - Elapsed) - due
    BY <1>2, <1>4, <1>5, <1>6, <1>11, <2>1
  <2>3. timer' = 0 \/ timer' <= (media - E) - due
    BY <1>3, <1>4, <1>5, <1>6, <1>9, <2>2
  <2>4. scale' * (Head(pending').due - Now') = (media - E) - due
    BY <1>1, <1>5, <1>6, <1>9, <1>11, <2>1 DEF due
  <2> QED
    BY <1>3, <2>3, <2>4 DEF Off
<1>12. CASE scale = 0
  BY <1>1, <1>3, <1>12 DEF Off
<1> QED
  BY <1>6, <1>10, <1>11, <1>12

\* The worker sets the timer for what is left of the time to the first request.
LEMMA TimerServe ==
  ASSUME TypeOK, TypeOK', TimerInTime, WorkerServe
  PROVE  TimerInTime'
<1> SUFFICES ASSUME Asleep'
             PROVE  /\ timer' # Off
                    /\ scale' # 0 =>
                         timer' = 0 \/ timer' <= scale' * (Head(pending').due - Now')
  BY DEF TimerInTime, Asleep
<1> DEFINE due == Head(pending).due
<1>1. /\ worker = "serve" /\ worker' = "wait" /\ pending # <<>>
      /\ UNCHANGED <<rtc, ctrl>> /\ media' = Now /\ rtcAt' = rtc
  BY DEF Asleep, WorkerServe, UpdateLocalTime
<1>2. /\ pending' = pending /\ ~Reached(due)
      /\ timer' = IF scale = 0 THEN PausedDelay ELSE Abs(Now - due)
  BY <1>1 DEF WorkerServe
<1>3. Now' = Now /\ scale' = scale
  BY <1>1, NowKept DEF ctrl
<1>4. due \in Int /\ Now \in Int
  BY <1>1, TailType, LocalTime, Bounds DEF Requests
<1>5. scale > 0 => ~(Now + MIN_TIMER_DELAY >= due)
  BY <1>2 DEF Reached
<1>6. scale < 0 => ~(Now - MIN_TIMER_DELAY <= due)
  BY <1>2 DEF Reached
<1>7. CASE scale = 0
  BY <1>2, <1>3, <1>7, Bounds DEF Off
<1>8. CASE scale = 1
  <2>1. timer' = due - Now
    BY <1>2, <1>4, <1>5, <1>8 DEF Abs, MIN_TIMER_DELAY
  <2>2. scale' * (Head(pending').due - Now') = due - Now
    BY <1>2, <1>3, <1>4, <1>8
  <2> QED
    BY <1>4, <1>5, <1>8, <2>1, <2>2 DEF Off, MIN_TIMER_DELAY
<1>9. CASE scale = -1
  <2>1. timer' = Now - due
    BY <1>2, <1>4, <1>6, <1>9 DEF Abs, MIN_TIMER_DELAY
  <2>2. scale' * (Head(pending').due - Now') = Now - due
    BY <1>2, <1>3, <1>4, <1>9
  <2> QED
    BY <1>4, <1>6, <1>9, <2>1, <2>2 DEF Off, MIN_TIMER_DELAY
<1> QED
  BY <1>7, <1>8, <1>9 DEF TypeOK

LEMMA TimerStep ==
  ASSUME TypeOK, TypeOK', LifeInv, TimerInTime, [Next]_vars
  PROVE  TimerInTime'
<1> USE DEF life, reqVars, user, ctrl
<1>1. ASSUME ~Asleep'
      PROVE  TimerInTime'
  BY <1>1 DEF TimerInTime, Asleep
<1>2. ASSUME NEW t \in Callers, User(t)
      PROVE  TimerInTime'
  <2>1. ASSUME Goto(t, "wake")
        PROVE  TimerInTime'
    <3>1. at'[t] = "wake"
      BY <2>1 DEF Goto, TypeOK
    <3> QED
      BY <1>1, <3>1 DEF Asleep
  <2>2. CASE \E m \in Times : RequestAdd(t, m)
    <3>1. CASE active /\ pending' # pending
      BY <2>1, <2>2, <3>1 DEF RequestAdd
    <3>2. CASE ~active
      BY <1>1, <2>2, <3>2 DEF RequestAdd, Asleep
    <3>3. CASE active /\ pending' = pending
      <4>1. CASE at'[t] = "wake"
        BY <1>1, <4>1 DEF Asleep
      <4>2. CASE scheduling /\ at' = at
        <5>1. Asleep' => Asleep
          BY <2>2, <3>3, <4>2 DEF RequestAdd, Asleep
        <5> QED
          BY <2>2, <3>3, <5>1, TimerFrame DEF RequestAdd, UpdateLocalTime
      <4>3. CASE ~scheduling
        BY <1>1, <3>3, <4>3 DEF LifeInv, Asleep
      <4>4. at'[t] = "wake" \/ at' = at
        BY <2>2 DEF RequestAdd, Begin, Return, Goto, TypeOK
      <4> QED
        BY <4>1, <4>2, <4>3, <4>4 DEF TypeOK
    <3> QED
      BY <3>1, <3>2, <3>3 DEF TypeOK
  <2>3. CASE \E m \in Times : MediaTimeSet(t, m)
    <3>1. CASE ~active
      BY <1>1, <2>3, <3>1 DEF MediaTimeSet, Asleep
    <3>2. CASE active /\ at' = at
      <4>1. Asleep' => Asleep
        BY <2>3, <3>2 DEF MediaTimeSet, Asleep
      <4>2. CASE Goto(t, "wake")
        BY <2>1, <4>2
      <4>3. CASE ~Goto(t, "wake")
        <5>1. UNCHANGED timeVars \/ (media' = Now /\ rtcAt' = rtc)
          BY <2>3, <3>2, <4>3 DEF MediaTimeSet
        <5> QED
          BY <2>3, <4>1, <5>1, TimerFrame DEF MediaTimeSet
      <4> QED
        BY <4>2, <4>3
    <3>3. CASE active /\ at' # at
      BY <2>1, <2>3, <3>3 DEF MediaTimeSet
    <3> QED
      BY <3>1, <3>2, <3>3 DEF TypeOK
  <2>4. CASE \E s \in Scales : ScaleSet(t, s)
    BY <2>1, <2>4 DEF ScaleSet
  <2>5. CASE \E b \in BOOLEAN : ActiveSet(t, b)
    BY <2>1, <2>5 DEF ActiveSet
  <2>6. CASE RequestFlush(t)
    BY <1>1, <2>6 DEF RequestFlush, CallBackAll, Asleep
  <2>7. CASE MediaTimeGet(t)
    <3>1. Asleep' => Asleep
      BY <2>7 DEF MediaTimeGet, Asleep
    <3> QED
      BY <2>7, <3>1, TimerFrame DEF MediaTimeGet, UpdateLocalTime
  <2>8. CASE DestroyBegin(t)
    BY <1>1, <2>8 DEF DestroyBegin, LifeInv, Asleep
  <2> QED
    BY <1>2, <2>2, <2>3, <2>4, <2>5, <2>6, <2>7, <2>8 DEF User
<1>3. ASSUME NEW t \in Callers, Wake(t)
      PROVE  TimerInTime'
  <2>1. CASE scheduling
    <3>1. event' = event + 1 /\ event \in Nat
      BY <1>3, <2>1 DEF Wake, TypeOK
    <3> QED
      BY <1>1, <3>1 DEF Asleep
  <2>2. CASE ~scheduling
    BY <1>1, <1>3, <2>2 DEF Wake, LifeInv, Asleep
  <2> QED
    BY <2>1, <2>2 DEF TypeOK
<1>4. CASE \E t \in Callers : DestroyEnd(t)
  BY <1>1, <1>4 DEF DestroyEnd, Asleep
<1>5. CASE WorkerWait \/ WorkerCancel \/ WorkerLook
  BY <1>1, <1>5 DEF WorkerWait, WorkerCancel, WorkerLook, Asleep
<1>6. CASE WorkerLock \/ WorkerFlush \/ WorkerServed
  BY <1>1, <1>6 DEF WorkerLock, WorkerFlush, WorkerServed, Asleep
<1>7. CASE WorkerServe
  BY <1>7, TimerServe
<1>8. CASE TimerExpires
  <2>1. CASE scheduling
    <3>1. event' = event + 1 /\ event \in Nat
      BY <1>8, <2>1 DEF TimerExpires, TypeOK
    <3> QED
      BY <1>1, <3>1 DEF Asleep
  <2>2. CASE ~scheduling
    BY <1>1, <1>8, <2>2 DEF TimerExpires, LifeInv, Asleep
  <2> QED
    BY <2>1, <2>2 DEF TypeOK
<1>9. CASE Tick
  BY <1>9, TimerTick
<1>10. CASE Done \/ UNCHANGED vars
  <2>1. Asleep' => Asleep
    BY <1>10 DEF Done, vars, Asleep
  <2> QED
    BY <1>10, <2>1, TimerFrame DEF Done, vars
<1> QED
  BY <1>2, <1>3, <1>4, <1>5, <1>6, <1>7, <1>8, <1>9, <1>10 DEF Next, InCall, Worker

\* The worker never sleeps past the first request of a running clock: whoever
\* changes what the timer was set for wakes it (mmal_clock_wake_thread).
THEOREM TimerNeverLate == Spec => []TimerInTime
<1>1. Init => TimerInTime
  BY DEF Init, TimerInTime
<1>2. TypeOK /\ TypeOK' /\ LifeInv /\ TimerInTime /\ [Next]_vars => TimerInTime'
  BY TimerStep
<1> QED
  BY TypeCorrect, LifeCorrect, <1>1, <1>2, PTL DEF Spec

-----------------------------------------------------------------------------
InList(i) == \E n \in DOMAIN pending : pending[n].id = i

\* The accepted requests are those in the list and those called back once.
RequestInv ==
  /\ \A n \in DOMAIN pending : pending[n].id \in 1..added
  /\ \A m, n \in DOMAIN pending : pending[m].id = pending[n].id => m = n
  /\ \A i \in Ids : calledBack[i] = IF i > added \/ InList(i) THEN 0 ELSE 1

LEMMA RequestAccepted ==
  ASSUME TypeOK, RequestInv, NEW due \in Times, added + 1 \in Ids,
         pending' = Insert([id |-> added + 1, due |-> due]),
         added' = added + 1, calledBack' = calledBack
  PROVE  RequestInv'
<1> DEFINE req == [id |-> added + 1, due |-> due]
           n == Len(pending)
           p == Insert(req)
<1>1. req \in Requests /\ req.id = added + 1
  BY DEF Requests
<1>2. p \in Seq(Requests) /\ Len(p) = n + 1 /\ DOMAIN p = 1..n + 1
  BY <1>1, InsertType, LenProperties
<1>3. PICK k \in 1..n + 1 :
        \A i \in 1..n + 1 :
          p[i] = IF i < k THEN pending[i] ELSE IF i = k THEN req ELSE pending[i - 1]
  BY <1>1, InsertType
<1>4. n \in Nat /\ DOMAIN pending = 1..n /\ added \in Nat
  BY LenProperties DEF TypeOK
<1>5. pending' = p
  OBVIOUS
<1> HIDE DEF n, p, req
<1>6. \A i \in 1..n : pending[i].id \in 1..added
  BY <1>4 DEF RequestInv
<1>7. ASSUME NEW i \in 1..n + 1
      PROVE  /\ i < k => i \in 1..n /\ p[i] = pending[i]
             /\ i = k => p[i] = req
             /\ i > k => i - 1 \in 1..n /\ p[i] = pending[i - 1]
  BY <1>3, <1>4
<1>8. \A i \in 1..n + 1 : p[i].id \in 1..added + 1 /\ (p[i].id = added + 1 <=> i = k)
  <2> SUFFICES ASSUME NEW i \in 1..n + 1
               PROVE  p[i].id \in 1..added + 1 /\ (p[i].id = added + 1 <=> i = k)
    OBVIOUS
  <2>1. CASE i < k
    <3>1. pending[i].id \in 1..added
      BY <1>6, <1>7, <2>1
    <3> QED
      BY <1>4, <1>7, <2>1, <3>1
  <2>2. CASE i = k
    BY <1>1, <1>4, <1>7, <2>2
  <2>3. CASE i > k
    <3>1. pending[i - 1].id \in 1..added
      BY <1>6, <1>7, <2>3
    <3> QED
      BY <1>4, <1>7, <2>3, <3>1
  <2> QED
    BY <1>4, <2>1, <2>2, <2>3
<1> DEFINE Old(i) == IF i < k THEN i ELSE i - 1
<1>9. \A i \in 1..n + 1 : i # k => Old(i) \in 1..n /\ p[i] = pending[Old(i)]
  BY <1>4, <1>7
<1>10. \A i, j \in 1..n + 1 : p[i].id = p[j].id => i = j
  <2> SUFFICES ASSUME NEW i \in 1..n + 1, NEW j \in 1..n + 1, p[i].id = p[j].id
               PROVE  i = j
    OBVIOUS
  <2>1. CASE i = k \/ j = k
    BY <1>8, <2>1
  <2>2. CASE i # k /\ j # k
    <3>1. Old(i) \in DOMAIN pending /\ Old(j) \in DOMAIN pending
      BY <1>4, <1>9, <2>2
    <3>2. p[i] = pending[Old(i)] /\ p[j] = pending[Old(j)]
      BY <1>9, <2>2
    <3> DEFINE a == Old(i)
               b == Old(j)
    <3> HIDE DEF a, b
    <3>3. a \in DOMAIN pending /\ b \in DOMAIN pending /\ pending[a].id = pending[b].id
      BY <3>1, <3>2 DEF a, b
    <3>4. a = b
      BY <3>3 DEF RequestInv
    <3> QED
      BY <1>4, <2>2, <3>4 DEF a, b
  <2> QED
    BY <2>1, <2>2
<1>11. \A i \in Ids : InList(i)' <=> i = added + 1 \/ InList(i)
  <2> SUFFICES ASSUME NEW i \in Ids
               PROVE  (\E j \in 1..n + 1 : p[j].id = i) <=> (i = added + 1 \/ InList(i))
    BY <1>2, <1>5 DEF InList
  <2>1. ASSUME NEW j \in 1..n + 1, p[j].id = i
        PROVE  i = added + 1 \/ InList(i)
    BY <1>4, <1>8, <1>9, <2>1 DEF InList
  <2>2. ASSUME i = added + 1
        PROVE  \E j \in 1..n + 1 : p[j].id = i
    BY <1>8, <2>2
  <2>3. ASSUME InList(i)
        PROVE  \E j \in 1..n + 1 : p[j].id = i
    <3>1. PICK j \in 1..n : pending[j].id = i
      BY <1>4, <2>3 DEF InList
    <3>2. CASE j < k
      <4>1. j \in 1..n + 1 /\ p[j] = pending[j]
        BY <1>3, <1>4, <3>2
      <4> QED
        BY <3>1, <4>1
    <3>3. CASE j >= k
      <4>1. j + 1 \in 1..n + 1 /\ ~(j + 1 < k) /\ j + 1 # k /\ (j + 1) - 1 = j
        BY <1>4, <3>3
      <4>2. p[j + 1] = pending[j]
        BY <1>3, <4>1
      <4> QED
        BY <3>1, <4>1, <4>2
    <3> QED
      BY <1>4, <3>2, <3>3
  <2> QED
    BY <2>1, <2>2, <2>3
<1>12. \A i \in Ids : calledBack'[i] = IF i > added' \/ InList(i)' THEN 0 ELSE 1
  <2> SUFFICES ASSUME NEW i \in Ids
               PROVE  calledBack[i] = IF i > added + 1 \/ InList(i)' THEN 0 ELSE 1
    OBVIOUS
  <2>1. i \in Nat
    BY Bounds DEF Ids
  <2>2. calledBack[i] = IF i > added \/ InList(i) THEN 0 ELSE 1
    BY DEF RequestInv
  <2>3. InList(i)' <=> i = added + 1 \/ InList(i)
    BY <1>11
  <2> HIDE DEF InList
  <2> QED
    BY <1>4, <2>1, <2>2, <2>3
<1> QED
  BY <1>2, <1>5, <1>8, <1>10, <1>12 DEF RequestInv

\* Serving the first request calls it back and takes it off the list.
LEMMA RequestServed ==
  ASSUME TypeOK, RequestInv, pending # <<>>, CallBack({1}),
         pending' = Tail(pending), added' = added
  PROVE  RequestInv'
<1> DEFINE n == Len(pending)
           p == Tail(pending)
<1>1. /\ n \in Nat \ {0} /\ DOMAIN pending = 1..n
      /\ DOMAIN p = 1..n - 1
      /\ \A i \in 1..n - 1 : p[i] = pending[i + 1]
  BY TailType, LenProperties DEF TypeOK
<1>2. pending' = p
  OBVIOUS
<1> HIDE DEF n, p
<1>3. \A i \in 1..n - 1 : i + 1 \in 1..n
  BY <1>1
<1>4. \A i \in 1..n - 1 : p[i].id \in 1..added
  BY <1>1, <1>3 DEF RequestInv
<1>5. \A i, j \in 1..n - 1 : p[i].id = p[j].id => i = j
  <2> SUFFICES ASSUME NEW i \in 1..n - 1, NEW j \in 1..n - 1, p[i].id = p[j].id
               PROVE  i = j
    OBVIOUS
  <2>1. /\ i + 1 \in DOMAIN pending /\ j + 1 \in DOMAIN pending
        /\ pending[i + 1].id = pending[j + 1].id
    BY <1>1, <1>3
  <2>2. i + 1 = j + 1
    BY <2>1 DEF RequestInv
  <2> QED
    BY <1>1, <2>2
<1>6. 1 \in 1..n
  BY <1>1
<1>7. \A i \in Ids : InList(i)' <=> InList(i) /\ i # pending[1].id
  <2> SUFFICES ASSUME NEW i \in Ids
               PROVE  (\E j \in 1..n - 1 : p[j].id = i) <=> InList(i) /\ i # pending[1].id
    BY <1>1, <1>2 DEF InList
  <2>1. ASSUME NEW j \in 1..n - 1, p[j].id = i
        PROVE  InList(i) /\ i # pending[1].id
    <3>1. j + 1 \in 1..n /\ j + 1 # 1 /\ pending[j + 1].id = i
      BY <1>1, <1>3, <2>1
    <3> QED
      BY <1>1, <1>6, <3>1 DEF InList, RequestInv
  <2>2. ASSUME InList(i), i # pending[1].id
        PROVE  \E j \in 1..n - 1 : p[j].id = i
    <3>1. PICK j \in 1..n : pending[j].id = i
      BY <1>1, <2>2 DEF InList
    <3>2. j - 1 \in 1..n - 1 /\ (j - 1) + 1 = j
      BY <1>1, <2>2, <3>1
    <3> QED
      BY <1>1, <3>1, <3>2
  <2> QED
    BY <2>1, <2>2
<1>8. \A i \in Ids : calledBack'[i] = IF i > added' \/ InList(i)' THEN 0 ELSE 1
  <2> SUFFICES ASSUME NEW i \in Ids
               PROVE  calledBack'[i] = IF i > added \/ InList(i)' THEN 0 ELSE 1
    OBVIOUS
  <2>1. calledBack'[i] = IF pending[1].id = i THEN calledBack[i] + 1 ELSE calledBack[i]
    BY DEF CallBack
  <2>2. calledBack[i] = IF i > added \/ InList(i) THEN 0 ELSE 1
    BY DEF RequestInv
  <2>3. InList(i)' <=> InList(i) /\ i # pending[1].id
    BY <1>7
  <2>4. pending[1].id = i => InList(i) /\ ~(i > added)
    BY <1>1, <1>6 DEF InList, RequestInv, TypeOK
  <2> QED
    BY <2>1, <2>2, <2>3, <2>4
<1> QED
  BY <1>1, <1>2, <1>4, <1>5, <1>8 DEF RequestInv

\* A flush calls back all that are left.
LEMMA RequestsFlushed ==
  ASSUME TypeOK, RequestInv, CallBackAll, added' = added
  PROVE  RequestInv'
<1>1. pending' = <<>> /\ DOMAIN pending' = {}
  BY EmptySeq DEF CallBackAll
<1>2. \A i \in Ids : calledBack'[i] = IF i > added' \/ InList(i)' THEN 0 ELSE 1
  <2> SUFFICES ASSUME NEW i \in Ids
               PROVE  calledBack'[i] = IF i > added THEN 0 ELSE 1
    BY <1>1 DEF InList
  <2>1. calledBack'[i] = IF InList(i) THEN calledBack[i] + 1 ELSE calledBack[i]
    BY DEF CallBackAll, CallBack, InList
  <2>2. calledBack[i] = IF i > added \/ InList(i) THEN 0 ELSE 1
    BY DEF RequestInv
  <2>3. InList(i) => ~(i > added)
    BY DEF InList, RequestInv, TypeOK
  <2> QED
    BY <2>1, <2>2, <2>3
<1> QED
  BY <1>1, <1>2 DEF RequestInv

LEMMA RequestStep ==
  ASSUME TypeOK, Budget, RequestInv, [Next]_vars
  PROVE  RequestInv'
<1>1. ASSUME UNCHANGED <<pending, calledBack, added>>
      PROVE  RequestInv'
  BY <1>1 DEF RequestInv, InList
<1> USE DEF reqVars
<1>2. ASSUME NEW t \in Callers, User(t)
      PROVE  RequestInv'
  <2>1. ASSUME NEW due \in Times, RequestAdd(t, due)
        PROVE  RequestInv'
    <3>1. added + 1 \in Ids
      BY <2>1, Bounds DEF RequestAdd, Begin, Budget, TypeOK, Ids
    <3> QED
      BY <1>1, <2>1, <3>1, RequestAccepted DEF RequestAdd
  <2>2. CASE \E m \in Times : MediaTimeSet(t, m)
    BY <1>1, <2>2 DEF MediaTimeSet
  <2>3. CASE \E s \in Scales : ScaleSet(t, s)
    BY <1>1, <2>3 DEF ScaleSet
  <2>4. CASE \E b \in BOOLEAN : ActiveSet(t, b)
    BY <1>1, <2>4 DEF ActiveSet
  <2>5. CASE RequestFlush(t)
    BY <2>5, RequestsFlushed DEF RequestFlush
  <2>6. CASE MediaTimeGet(t) \/ DestroyBegin(t)
    BY <1>1, <2>6 DEF MediaTimeGet, DestroyBegin
  <2> QED
    BY <1>2, <2>1, <2>2, <2>3, <2>4, <2>5, <2>6 DEF User
<1>3. ASSUME NEW t \in Callers, InCall(t)
      PROVE  RequestInv'
  BY <1>1, <1>3, RequestsFlushed DEF InCall, Wake, DestroyEnd
<1>4. CASE WorkerFlush
  BY <1>1, <1>4, RequestServed DEF WorkerFlush, CallBackFirst
<1>5. CASE WorkerServe
  BY <1>1, <1>5, RequestServed DEF WorkerServe, CallBackFirst
<1>6. CASE WorkerWait \/ WorkerCancel \/ WorkerLook \/ WorkerLock \/ WorkerServed
  BY <1>1, <1>6 DEF WorkerWait, WorkerCancel, WorkerLook, WorkerLock, WorkerServed
<1>7. CASE TimerExpires \/ Tick \/ Done \/ UNCHANGED vars
  BY <1>1, <1>7 DEF TimerExpires, Tick, Done, vars
<1> QED
  BY <1>2, <1>3, <1>4, <1>5, <1>6, <1>7 DEF Next, Worker

\* Every accepted request is called back exactly once, at the latest by the
\* flush of mmal_clock_destroy, after which nothing uses the clock.
THEOREM EachCalledBackOnce == Spec => []CalledBackOnce
<1>1. Init => RequestInv
  <2> SUFFICES ASSUME Init PROVE RequestInv
    OBVIOUS
  <2>1. DOMAIN pending = {}
    BY EmptySeq DEF Init
  <2>2. \A i \in Ids : calledBack[i] = 0 /\ i > added
    BY Bounds DEF Init, Ids
  <2> QED
    BY <2>1, <2>2 DEF RequestInv
<1>2. TypeOK /\ Budget /\ RequestInv /\ [Next]_vars => RequestInv'
  BY RequestStep
<1>3. TypeOK /\ LifeInv /\ RequestInv => CalledBackOnce
  <2> SUFFICES ASSUME TypeOK, LifeInv, RequestInv PROVE CalledBackOnce
    OBVIOUS
  <2>1. \A i \in 1..added : i \in Ids /\ ~(i > added)
    BY Bounds DEF TypeOK, Ids
  <2>2. destroyed => pending = <<>> /\ timer = Off /\ worker \in {"none", "ended"}
    BY DEF LifeInv
  <2> QED
    BY <2>1, <2>2 DEF CalledBackOnce, RequestInv, InList
<1> QED
  BY TypeCorrect, LifeCorrect, <1>1, <1>2, <1>3, PTL DEF Spec

-----------------------------------------------------------------------------
\* The clock never runs backwards.
\* Media times as the clock passes them, and the requests in that order.
Key(r) == IF scale >= 0 THEN r.due ELSE -r.due

LEMMA KeyOrder ==
  ASSUME NEW q \in Requests, NEW r \in Requests
  PROVE  /\ Key(q) \in Int
         /\ Before(q.due, r.due) <=> Key(q) < Key(r)
<1>1. q.due \in Int /\ r.due \in Int
  BY Bounds DEF Requests
<1> QED
  BY <1>1 DEF Before, Key

LEMMA InOrderByKey ==
  ASSUME TypeOK
  PROVE  InOrder <=> \A i, j \in DOMAIN pending : i < j => Key(pending[i]) <= Key(pending[j])
<1>1. \A i \in DOMAIN pending : pending[i] \in Requests
  BY ElementOfSeq, LenProperties DEF TypeOK
<1> SUFFICES ASSUME NEW i \in DOMAIN pending, NEW j \in DOMAIN pending
             PROVE  ~Before(pending[j].due, pending[i].due) <=> Key(pending[i]) <= Key(pending[j])
  BY DEF InOrder
<1>2. pending[i] \in Requests /\ pending[j] \in Requests
  BY <1>1
<1>3. /\ Key(pending[i]) \in Int /\ Key(pending[j]) \in Int
      /\ Before(pending[j].due, pending[i].due) <=> Key(pending[j]) < Key(pending[i])
  BY <1>2, KeyOrder
<1> QED
  BY <1>3

LEMMA OrderInsert ==
  ASSUME TypeOK, TypeOK', InOrder, NEW req \in Requests, pending' = Insert(req), scale' = scale
  PROVE  InOrder'
<1> DEFINE n == Len(pending)
           p == Insert(req)
           d == Key(req)
           later == {i \in DOMAIN pending : Before(req.due, pending[i].due)}
<1>1. /\ d \in Int
      /\ DOMAIN p = 1..n + 1
  <2>1. d \in Int
    BY KeyOrder
  <2>2. p \in Seq(Requests) /\ Len(p) = n + 1
    BY InsertType
  <2> QED
    BY <2>1, <2>2, LenProperties
<1>2. PICK k \in 1..n + 1 :
        /\ k = Position(req.due)
        /\ \A i \in 1..n + 1 :
             p[i] = IF i < k THEN pending[i] ELSE IF i = k THEN req ELSE pending[i - 1]
  BY InsertType
<1>3. /\ n \in Nat /\ DOMAIN pending = 1..n
      /\ \A i \in 1..n : Key(pending[i]) \in Int
      /\ \A i \in 1..n : pending[i] \in Requests
  <2>1. n \in Nat /\ DOMAIN pending = 1..n
    BY LenProperties DEF TypeOK
  <2>2. \A i \in 1..n : pending[i] \in Requests
    BY ElementOfSeq DEF TypeOK
  <2>3. \A r \in Requests : Key(r) \in Int
    BY KeyOrder
  <2> QED
    BY <2>1, <2>2, <2>3
<1>4. \A i \in DOMAIN pending : Before(req.due, pending[i].due) <=> d < Key(pending[i])
  BY <1>3, KeyOrder
<1>5. /\ \A i \in 1..n : i < k => Key(pending[i]) <= d
      /\ \A i \in 1..n : i >= k => d <= Key(pending[i])
  <2>1. CASE later = {} \/ ~Before(req.due, pending[n].due)
    <3>1. k = n + 1
      BY <1>2, <2>1 DEF Position
    <3>2. \A i \in 1..n : Key(pending[i]) <= d
      <4>1. CASE later = {}
        BY <1>1, <1>3, <1>4, <4>1
      <4>2. CASE later # {} /\ ~Before(req.due, pending[n].due)
        <5>1. n \in 1..n /\ Key(pending[n]) <= d
          BY <1>1, <1>3, <1>4, <4>2
        <5>2. \A i \in 1..n : i < n => Key(pending[i]) <= Key(pending[n])
          BY <1>3, <5>1, InOrderByKey
        <5> QED
          BY <1>1, <1>3, <5>1, <5>2
      <4> QED
        BY <2>1, <4>1, <4>2
    <3> QED
      BY <1>3, <3>1, <3>2
  <2>2. CASE later # {} /\ Before(req.due, pending[n].due)
    <3>1. k = CHOOSE i \in later : \A j \in later : i <= j
      BY <1>2, <2>2 DEF Position
    <3>2. later \subseteq 1..n
      BY <1>3
    <3> HIDE DEF later
    <3>3. \E i \in later : \A j \in later : i <= j
      <4>1. later # {} /\ later \subseteq Nat
        BY <1>3, <2>2, <3>2 DEF later
      <4> QED
        BY <4>1, LeastNatural
    <3>4. k \in later /\ \A j \in later : k <= j
      BY <3>1, <3>3
    <3>5. k \in 1..n /\ d < Key(pending[k])
      BY <1>3, <1>4, <3>2, <3>4 DEF later
    <3>6. \A i \in 1..n : i < k => Key(pending[i]) <= d
      BY <1>1, <1>3, <1>4, <3>4, <3>5 DEF later
    <3>7. \A i \in 1..n : i > k => Key(pending[k]) <= Key(pending[i])
      BY <1>3, <3>5, InOrderByKey
    <3> QED
      BY <1>1, <1>3, <3>5, <3>6, <3>7
  <2> QED
    BY <2>1, <2>2
<1> HIDE DEF n, later
<1>12. \A i \in 1..n + 1 : p[i] \in Requests
  BY <1>1, InsertType, ElementOfSeq, LenProperties
<1> SUFFICES ASSUME NEW i \in 1..n + 1, NEW j \in 1..n + 1, i < j
             PROVE  Key(p[i]) <= Key(p[j])
  <2> SUFFICES ASSUME NEW i \in 1..n + 1, NEW j \in 1..n + 1, i < j
               PROVE  ~Before(p[j].due, p[i].due)
    BY <1>1 DEF InOrder, Before
  <2>1. /\ Key(p[i]) \in Int /\ Key(p[j]) \in Int
        /\ Before(p[j].due, p[i].due) <=> Key(p[j]) < Key(p[i])
    BY <1>12, KeyOrder
  <2> QED
    BY <2>1
<1>6. \A a, b \in 1..n : a < b => Key(pending[a]) <= Key(pending[b])
  BY <1>3, InOrderByKey
<1> HIDE DEF p
<1>7. CASE j < k
  <2>1. i \in 1..n /\ j \in 1..n /\ i < k /\ p[i] = pending[i] /\ p[j] = pending[j]
    BY <1>2, <1>3, <1>7
  <2> QED
    BY <1>6, <2>1
<1>8. CASE j = k
  <2>1. i \in 1..n /\ i < k /\ p[i] = pending[i] /\ p[j] = req
    BY <1>2, <1>3, <1>8
  <2> QED
    BY <1>5, <2>1
<1>9. CASE j > k /\ i = k
  <2>1. j - 1 \in 1..n /\ j - 1 >= k /\ p[i] = req /\ p[j] = pending[j - 1]
    BY <1>2, <1>3, <1>9
  <2> QED
    BY <1>5, <2>1
<1>10. CASE j > k /\ i < k
  <2>1. /\ i \in 1..n /\ j - 1 \in 1..n /\ j - 1 >= k
        /\ p[i] = pending[i] /\ p[j] = pending[j - 1]
    BY <1>2, <1>3, <1>10
  <2>2. Key(pending[i]) <= d /\ d <= Key(pending[j - 1])
    BY <1>5, <1>10, <2>1
  <2> QED
    BY <1>1, <1>3, <2>1, <2>2
<1>11. CASE i > k
  <2>1. /\ i - 1 \in 1..n /\ j - 1 \in 1..n /\ i - 1 < j - 1
        /\ p[i] = pending[i - 1] /\ p[j] = pending[j - 1]
    <3>1. i \in Int /\ j \in Int /\ k \in Int /\ k >= 1 /\ i <= n + 1 /\ j <= n + 1 /\ n \in Nat
      BY <1>3
    <3>2. i - 1 \in 1..n /\ j - 1 \in 1..n /\ i - 1 < j - 1 /\ ~(i < k) /\ i # k /\ ~(j < k) /\ j # k
      BY <1>11, <3>1
    <3> QED
      BY <1>2, <3>2
  <2> QED
    BY <1>6, <2>1
<1> QED
  BY <1>3, <1>7, <1>8, <1>9, <1>10, <1>11

LEMMA OrderTail ==
  ASSUME TypeOK, InOrder, pending # <<>>, pending' = Tail(pending), scale' = scale
  PROVE  InOrder'
<1> DEFINE n == Len(pending)
           p == Tail(pending)
<1>1. /\ n \in Nat \ {0} /\ DOMAIN pending = 1..n /\ DOMAIN p = 1..n - 1
      /\ \A i \in 1..n - 1 : p[i] = pending[i + 1]
  BY TailType, LenProperties DEF TypeOK
<1> HIDE DEF n
<1> SUFFICES ASSUME NEW i \in 1..n - 1, NEW j \in 1..n - 1, i < j
             PROVE  ~Before(p[j].due, p[i].due)
  BY <1>1 DEF InOrder, Before
<1>2. /\ i + 1 \in DOMAIN pending /\ j + 1 \in DOMAIN pending /\ i + 1 < j + 1
      /\ p[i] = pending[i + 1] /\ p[j] = pending[j + 1]
  BY <1>1
<1> HIDE DEF p
<1> QED
  BY <1>2 DEF InOrder

LEMMA OrderStep ==
  ASSUME TypeOK, TypeOK', Budget, EarliestFirst, [Next]_vars
  PROVE  EarliestFirst'
<1>1. ASSUME UNCHANGED <<pending, scale, turned>>
      PROVE  EarliestFirst'
  BY <1>1 DEF EarliestFirst, InOrder, Before
<1>2. ASSUME scale' = scale, pending # <<>>, CallBackFirst
      PROVE  EarliestFirst'
  <2>1. CASE Tail(pending) = <<>>
    BY <1>2, <2>1, EmptySeq DEF EarliestFirst, InOrder, CallBackFirst
  <2>2. CASE Tail(pending) # <<>>
    BY <1>2, <2>2, OrderTail DEF EarliestFirst, CallBackFirst
  <2> QED
    BY <2>1, <2>2
<1>3. ASSUME pending' = <<>>
      PROVE  EarliestFirst'
  BY <1>3, EmptySeq DEF EarliestFirst, InOrder
<1>10. turned \in BOOLEAN
  BY DEF TypeOK
<1> USE DEF reqVars, ctrl
<1>4. ASSUME NEW t \in Callers, User(t)
      PROVE  EarliestFirst'
  <2>1. ASSUME NEW due \in Times, RequestAdd(t, due)
        PROVE  EarliestFirst'
    <3>1. [id |-> added + 1, due |-> due] \in Requests
      BY <2>1, Bounds DEF RequestAdd, Begin, Budget, TypeOK, Ids, Requests
    <3>2. CASE pending' = Insert([id |-> added + 1, due |-> due])
      <4>1. scale' = scale /\ turned' = turned
        BY <2>1 DEF RequestAdd
      <4> QED
        BY <3>1, <3>2, <4>1, OrderInsert DEF EarliestFirst
    <3>3. CASE pending' = pending
      <4>1. scale' = scale /\ turned' = turned
        BY <2>1 DEF RequestAdd
      <4> QED
        BY <1>1, <3>3, <4>1
    <3> QED
      BY <2>1, <3>2, <3>3 DEF RequestAdd
  <2>2. CASE \E m \in Times : MediaTimeSet(t, m)
    BY <1>1, <2>2 DEF MediaTimeSet
  <2>3. CASE \E s \in Scales : ScaleSet(t, s)
    <3>1. PICK s \in Scales : ScaleSet(t, s)
      BY <2>3
    <3>2. /\ pending' = pending /\ scale' = s /\ s \in Int /\ scale \in Int
          /\ turned' = (turned \/ (pending # <<>> /\ (s < 0 <=> scale >= 0)))
      BY <3>1, Bounds DEF ScaleSet, TypeOK
    <3>3. CASE pending = <<>>
      BY <1>3, <3>2, <3>3
    <3>4. CASE ~(s < 0 <=> scale >= 0)
      <4>1. turned' = turned
        BY <3>2, <3>4, <1>10, Zenon
      <4>2. s >= 0 <=> scale >= 0
        BY <3>2, <3>4
      <4>3. InOrder' <=> InOrder
        BY <3>2, <4>2 DEF InOrder, Before
      <4> QED
        BY <4>1, <4>3 DEF EarliestFirst
    <3> QED
      BY <3>2, <3>3, <3>4 DEF EarliestFirst
  <2>4. CASE \E b \in BOOLEAN : ActiveSet(t, b)
    BY <1>1, <2>4 DEF ActiveSet
  <2>5. CASE RequestFlush(t)
    BY <1>3, <2>5 DEF RequestFlush, CallBackAll
  <2>6. CASE MediaTimeGet(t) \/ DestroyBegin(t)
    BY <1>1, <2>6 DEF MediaTimeGet, DestroyBegin
  <2> QED
    BY <1>4, <2>1, <2>2, <2>3, <2>4, <2>5, <2>6 DEF User
<1>5. ASSUME NEW t \in Callers, InCall(t)
      PROVE  EarliestFirst'
  BY <1>1, <1>3, <1>5 DEF InCall, Wake, DestroyEnd, CallBackAll
<1>6. CASE WorkerFlush
  BY <1>1, <1>2, <1>6 DEF WorkerFlush
<1>7. CASE WorkerServe
  BY <1>1, <1>2, <1>7 DEF WorkerServe
<1>8. CASE WorkerWait \/ WorkerCancel \/ WorkerLook \/ WorkerLock \/ WorkerServed
  BY <1>1, <1>8 DEF WorkerWait, WorkerCancel, WorkerLook, WorkerLock, WorkerServed
<1>9. CASE TimerExpires \/ Tick \/ Done \/ UNCHANGED vars
  BY <1>1, <1>9 DEF TimerExpires, Tick, Done, vars
<1> QED
  BY <1>4, <1>5, <1>6, <1>7, <1>8, <1>9 DEF Next, Worker

\* "Earliest request is always at the front", for requests in any order and a
\* clock of any speed, unless it changed its direction beside a request of which
\* something is still in the list (mmal_clock_request_insert).
THEOREM EarliestAtFront == Spec => []EarliestFirst
<1>1. Init => EarliestFirst
  BY EmptySeq DEF Init, EarliestFirst, InOrder
<1>2. TypeOK /\ TypeOK' /\ Budget /\ EarliestFirst /\ [Next]_vars => EarliestFirst'
  BY OrderStep
<1> QED
  BY TypeCorrect, <1>1, <1>2, PTL DEF Spec
=============================================================================
