------------------------------ MODULE MmalClock ------------------------------
(***************************************************************************)
(* core/mmal_clock.c: a media clock that is started, stopped, scaled and   *)
(* set by its users, and calls them back when the media times they asked   *)
(* for are reached.  A worker thread serves the requests; a timer or a     *)
(* user wakes it.  Time passes in units of MIN_TIMER_DELAY (10 ms), in     *)
(* which CLOCK_TARGET_OFFSET (20 us) is nothing and speeds are whole.      *)
(***************************************************************************)
EXTENDS Integers, Sequences

CONSTANTS Callers,          \* threads that use the clock
          Times,            \* media times they ask for or set
          Scales,           \* speeds, of -1, 0 and 1
          Slots,            \* CLOCK_REQUEST_SLOTS
          RtcSize,          \* vcos_getmicrosecs() counts modulo this (2^32)
          DiscontThreshold, DiscontDuration,
          UpdateThreshold,  \* CLOCK_UPDATE_THRESHOLD_UPPER
          PausedDelay,      \* CLOCK_WAIT_TIME
          MaxCalls, MaxTicks

ASSUME ClockAssumption ==
  /\ Times \subseteq Int /\ Scales \subseteq {-1, 0, 1} /\ 1 \in Scales
  /\ {Slots, RtcSize} \subseteq Nat \ {0}
  /\ {DiscontThreshold, DiscontDuration, UpdateThreshold, PausedDelay, MaxCalls, MaxTicks} \subseteq Nat

MIN_TIMER_DELAY == 1
Off == -1
Ids == 1..MaxCalls
Requests == [id : Ids, due : Times]

VARIABLES
  rtc, ticks,                      \* real time, as the hardware counts it and in full
  media, wall, rtcAt,              \* media_time, wall_time, rtc_at_update
  active, scale, atTimer,          \* is_active, scale, media_time_at_timer
  discont,                         \* discont_start, discont_end, discont_expiry
  scheduling, stop, event, timer,  \* timer: what is left of its delay
  pending,                         \* request.list_pending
  calledBack,                      \* how often each request has been called back
  added,                           \* requests accepted
  worker, at, calls, destroyed,
  turned                           \* history: a request in the list has seen the
                                   \* clock change its direction

timeVars == <<media, wall, rtcAt>>
ctrl     == <<active, scale>>
reqVars  == <<pending, calledBack, added, turned>>
life     == <<scheduling, stop, destroyed>>
user     == <<at, calls>>
vars == <<rtc, ticks, timeVars, ctrl, atTimer, discont, life, event, timer, reqVars, worker, user>>

Disconts == [start : Int, end : Int, expiry : Int]
NoDiscont == [start |-> 0, end |-> 0, expiry |-> 0]
Abs(n) == IF n < 0 THEN -n ELSE n

Init ==
  /\ rtc \in 0..RtcSize - 1 /\ ticks = rtc
  /\ media = 0 /\ wall = rtc /\ rtcAt = rtc
  /\ active = FALSE /\ scale = 1 /\ atTimer = 0 /\ discont = NoDiscont
  /\ scheduling = FALSE /\ stop = FALSE /\ event = 0 /\ timer = Off
  /\ pending = <<>> /\ calledBack = [i \in Ids |-> 0] /\ added = 0
  /\ turned = FALSE
  /\ worker = "none" /\ at = [t \in Callers |-> "idle"] /\ calls = MaxCalls /\ destroyed = FALSE

\* The worker holds the lock while it serves requests and makes callbacks; what
\* the users do under it is one step.
Unlocked == worker \notin {"flush", "serve"}

\* Mutant: the wrap of the counter is taken for time.
Elapsed_Abs == Abs(rtc - rtcAt)

\* mmal_clock_update_local_time_locked
Elapsed == IF rtc > rtcAt THEN rtc - rtcAt ELSE 0
Now     == media + scale * Elapsed
WallNow == wall + Elapsed
UpdateLocalTime == media' = Now /\ wall' = WallNow /\ rtcAt' = rtc

Begin(t)  == at[t] = "idle" /\ ~destroyed /\ ~stop /\ calls > 0 /\ calls' = calls - 1
Return(t) == at' = [at EXCEPT ![t] = "idle"]
Goto(t, l) == at' = [at EXCEPT ![t] = l]
-----------------------------------------------------------------------------
\* Mutant: every request goes to the back.
Position_Back(due) == Len(pending) + 1

\* mmal_clock_request_insert: at the back if that keeps the order, else before
\* the first request that is due later (for a clock that runs backwards, earlier).
Before(x, y) == IF scale >= 0 THEN x < y ELSE x > y
Position(due) ==
  LET later == {i \in DOMAIN pending : Before(due, pending[i].due)}
      n == Len(pending)
  IN IF later = {} \/ ~Before(due, pending[n].due) THEN n + 1
     ELSE CHOOSE i \in later : \A j \in later : i <= j
Insert(req) ==
  LET k == Position(req.due)
  IN [i \in 1..Len(pending) + 1 |->
        IF i < k THEN pending[i] ELSE IF i = k THEN req ELSE pending[i - 1]]

\* Mutant: the worker is woken for the first request only.
RequestAdd_WakeOnce(t, due) ==
  /\ Begin(t) /\ Unlocked /\ UpdateLocalTime
  /\ scheduling' = TRUE /\ worker' = IF scheduling THEN worker ELSE "wait"
  /\ IF Len(pending) = Slots
       THEN Return(t) /\ UNCHANGED reqVars
       ELSE /\ pending' = Insert([id |-> added + 1, due |-> due])
            /\ added' = added + 1
            /\ IF active /\ pending = <<>> THEN Goto(t, "wake") ELSE Return(t)
            /\ UNCHANGED <<calledBack, turned>>
  /\ UNCHANGED <<rtc, ticks, ctrl, atTimer, discont, stop, destroyed, event, timer>>

\* mmal_clock_request_add; the first call makes the worker and its timer.
RequestAdd(t, due) ==
  /\ Begin(t) /\ Unlocked /\ UpdateLocalTime
  /\ scheduling' = TRUE /\ worker' = IF scheduling THEN worker ELSE "wait"
  /\ IF Len(pending) = Slots
       THEN Return(t) /\ UNCHANGED reqVars
       ELSE /\ pending' = Insert([id |-> added + 1, due |-> due])
            /\ added' = added + 1
            /\ IF active THEN Goto(t, "wake") ELSE Return(t)
            /\ UNCHANGED <<calledBack, turned>>
  /\ UNCHANGED <<rtc, ticks, ctrl, atTimer, discont, stop, destroyed, event, timer>>

\* mmal_clock_wake_thread
Wake(t) ==
  /\ at[t] = "wake"
  /\ event' = IF scheduling THEN event + 1 ELSE event
  /\ Goto(t, IF stop THEN "join" ELSE "idle")
  /\ UNCHANGED <<rtc, ticks, timeVars, ctrl, atTimer, discont, life, timer, reqVars, worker, calls>>

\* mmal_clock_request_flush_locked, for the requests in the list.
CallBack(S) ==
  calledBack' = [i \in Ids |-> IF \E n \in S : pending[n].id = i THEN calledBack[i] + 1 ELSE calledBack[i]]
CallBackAll == CallBack(DOMAIN pending) /\ pending' = <<>> /\ turned' = FALSE
CallBackFirst == /\ CallBack({1}) /\ pending' = Tail(pending)
                 /\ turned' = (turned /\ Tail(pending) # <<>>)

RequestFlush(t) ==
  /\ Begin(t) /\ Unlocked /\ scheduling
  /\ CallBackAll /\ atTimer' = 0
  /\ UNCHANGED <<rtc, ticks, timeVars, ctrl, discont, life, event, timer, added, worker, at>>

\* mmal_clock_media_time_set.  What is within the threshold is averaged over the
\* last updates: it is ignored, or the time moves by as much as the threshold.
MediaTimeSet(t, m) ==
  /\ Begin(t) /\ Unlocked
  /\ IF ~active THEN media' = m /\ wall' = rtc /\ rtcAt' = rtc /\ UNCHANGED at
     ELSE IF scale = 0 THEN UNCHANGED <<timeVars, at>>
     ELSE /\ wall' = WallNow /\ rtcAt' = rtc
          /\ IF Abs(Now - m) > UpdateThreshold THEN media' = m /\ Goto(t, "wake")
             ELSE \/ media' = Now /\ UNCHANGED at
                  \/ /\ \E d \in 1..UpdateThreshold : media' \in {Now - d, Now + d}
                     /\ Goto(t, "wake")
  /\ UNCHANGED <<rtc, ticks, ctrl, atTimer, discont, life, event, timer, reqVars, worker>>

\* mmal_clock_scale_set
ScaleSet(t, s) ==
  /\ Begin(t) /\ Unlocked /\ UpdateLocalTime
  /\ scale' = s /\ Goto(t, "wake")
  /\ turned' = (turned \/ (pending # <<>> /\ (s < 0 <=> scale >= 0)))
  /\ UNCHANGED <<rtc, ticks, active, atTimer, discont, life, event, timer, pending,
                 calledBack, added, worker>>

\* mmal_clock_active_set, which takes no lock.
ActiveSet(t, b) ==
  /\ Begin(t)
  /\ active' = b /\ Goto(t, "wake")
  /\ UNCHANGED <<rtc, ticks, timeVars, scale, atTimer, discont, life, event, timer, reqVars, worker>>

\* mmal_clock_media_time_get
MediaTimeGet(t) ==
  /\ Begin(t) /\ Unlocked /\ UpdateLocalTime
  /\ UNCHANGED <<rtc, ticks, ctrl, atTimer, discont, life, event, timer, reqVars, worker, at>>

\* Mutant: the worker is not told.
DestroyBegin_NoWake(t) ==
  /\ Begin(t) /\ \A u \in Callers : at[u] = "idle"
  /\ IF scheduling THEN stop' = TRUE /\ Goto(t, "join") /\ UNCHANGED destroyed
                   ELSE destroyed' = TRUE /\ UNCHANGED <<stop, at>>
  /\ UNCHANGED <<rtc, ticks, timeVars, ctrl, atTimer, discont, scheduling, event, timer, reqVars, worker>>

\* mmal_clock_destroy, when nobody else uses the clock: stop the worker, then
\* flush what is left.
DestroyBegin(t) ==
  /\ Begin(t) /\ \A u \in Callers : at[u] = "idle"
  /\ IF scheduling THEN stop' = TRUE /\ Goto(t, "wake") /\ UNCHANGED destroyed
                   ELSE destroyed' = TRUE /\ UNCHANGED <<stop, at>>
  /\ UNCHANGED <<rtc, ticks, timeVars, ctrl, atTimer, discont, scheduling, event, timer, reqVars, worker>>

DestroyEnd(t) ==
  /\ at[t] = "join" /\ worker = "ended"
  /\ CallBackAll /\ atTimer' = 0 /\ destroyed' = TRUE /\ Return(t)
  /\ UNCHANGED <<rtc, ticks, timeVars, ctrl, discont, scheduling, stop, event, timer, added, worker, calls>>
-----------------------------------------------------------------------------
\* mmal_clock_worker_thread
WorkerWait ==
  /\ worker = "wait" /\ event > 0
  /\ event' = event - 1 /\ worker' = "cancel"
  /\ UNCHANGED <<rtc, ticks, timeVars, ctrl, atTimer, discont, life, timer, reqVars, user>>

\* Mutant: the timer is cancelled only by a worker that goes on.
WorkerCancel_AfterStop ==
  /\ worker = "cancel"
  /\ timer' = (IF stop THEN timer ELSE Off) /\ worker' = "look"
  /\ UNCHANGED <<rtc, ticks, timeVars, ctrl, atTimer, discont, life, event, reqVars, user>>

WorkerCancel ==
  /\ worker = "cancel"
  /\ timer' = Off /\ worker' = "look"
  /\ UNCHANGED <<rtc, ticks, timeVars, ctrl, atTimer, discont, life, event, reqVars, user>>

\* stop_thread, the length of the list and is_active are read without the lock.
WorkerLook ==
  /\ worker = "look"
  /\ worker' = IF stop THEN "ended" ELSE IF pending = <<>> \/ ~active THEN "wait" ELSE "lock"
  /\ UNCHANGED <<rtc, ticks, timeVars, ctrl, atTimer, discont, life, event, timer, reqVars, user>>

\* mmal_clock_process_requests: the time has jumped back since the timer was set.
Discontinuity == atTimer # 0 /\ scale > 0 /\ Now + DiscontThreshold < atTimer
WorkerLock ==
  /\ worker = "lock"
  /\ IF atTimer = 0 THEN UNCHANGED timeVars ELSE UpdateLocalTime
  /\ IF Discontinuity
       THEN /\ discont' = [start |-> atTimer, end |-> atTimer + DiscontDuration,
                           expiry |-> WallNow + DiscontDuration]
            /\ worker' = "flush"
       ELSE worker' = "serve" /\ UNCHANGED discont
  /\ UNCHANGED <<rtc, ticks, ctrl, atTimer, life, event, timer, reqVars, user>>

WorkerFlush ==
  /\ worker = "flush"
  /\ IF pending = <<>> THEN worker' = "serve" /\ atTimer' = 0 /\ UNCHANGED <<pending, calledBack, turned>>
     ELSE CallBackFirst /\ UNCHANGED <<worker, atTimer>>
  /\ UNCHANGED <<rtc, ticks, timeVars, ctrl, discont, life, event, timer, added, user>>

\* Serve the first request, or set the timer for it.
Reached(due) ==
  \/ discont'.expiry # 0 /\ due >= discont.start /\ due < discont.end
  \/ scale > 0 /\ Now + MIN_TIMER_DELAY >= due
  \/ scale < 0 /\ Now - MIN_TIMER_DELAY <= due
WorkerServe ==
  /\ worker = "serve" /\ pending # <<>> /\ UpdateLocalTime
  /\ discont' = IF discont.expiry # 0 /\ WallNow > discont.expiry THEN [discont EXCEPT !.expiry = 0]
                ELSE discont
  /\ LET due == Head(pending).due
     IN IF Reached(due)
          THEN CallBackFirst /\ UNCHANGED <<worker, atTimer, timer>>
          ELSE /\ atTimer' = Now
               /\ timer' = IF scale = 0 THEN PausedDelay ELSE Abs(Now - due)
               /\ worker' = "wait"
               /\ UNCHANGED <<pending, calledBack, turned>>
  /\ UNCHANGED <<rtc, ticks, ctrl, life, event, added, user>>

WorkerServed ==
  /\ worker = "serve" /\ pending = <<>> /\ worker' = "wait"
  /\ UNCHANGED <<rtc, ticks, timeVars, ctrl, atTimer, discont, life, event, timer, reqVars, user>>

\* mmal_clock_timer_cb.  A cancel waits for it: it runs under the timer's lock.
TimerExpires ==
  /\ timer = 0 /\ timer' = Off
  /\ event' = IF scheduling THEN event + 1 ELSE event
  /\ UNCHANGED <<rtc, ticks, timeVars, ctrl, atTimer, discont, life, reqVars, worker, user>>

Tick ==
  /\ ticks < MaxTicks /\ ~destroyed
  /\ ticks' = ticks + 1 /\ rtc' = (rtc + 1) % RtcSize
  /\ timer' = IF timer > 0 THEN timer - 1 ELSE timer
  /\ UNCHANGED <<timeVars, ctrl, atTimer, discont, life, event, reqVars, worker, user>>
-----------------------------------------------------------------------------
User(t) ==
  \/ \E m \in Times : RequestAdd(t, m) \/ MediaTimeSet(t, m)
  \/ \E s \in Scales : ScaleSet(t, s)
  \/ \E b \in BOOLEAN : ActiveSet(t, b)
  \/ RequestFlush(t) \/ MediaTimeGet(t) \/ DestroyBegin(t)
InCall(t) == Wake(t) \/ DestroyEnd(t)
Worker == WorkerWait \/ WorkerCancel \/ WorkerLook \/ WorkerLock \/ WorkerFlush \/ WorkerServe \/ WorkerServed
Done == (calls = 0 \/ destroyed) /\ (\A t \in Callers : at[t] = "idle") /\ UNCHANGED vars

Next == (\E t \in Callers : User(t) \/ InCall(t)) \/ Worker \/ TimerExpires \/ Tick \/ Done
Spec == Init /\ [][Next]_vars
FairSpec == Spec /\ WF_vars(Worker) /\ WF_vars(\E t \in Callers : InCall(t))
-----------------------------------------------------------------------------
TypeOK ==
  /\ rtc \in 0..RtcSize - 1 /\ ticks \in Nat /\ rtcAt \in 0..RtcSize - 1
  /\ media \in Int /\ wall \in Nat /\ atTimer \in Int
  /\ active \in BOOLEAN /\ scale \in {-1, 0, 1}
  /\ discont \in Disconts
  /\ scheduling \in BOOLEAN /\ stop \in BOOLEAN /\ destroyed \in BOOLEAN
  /\ event \in Nat /\ timer \in Nat \cup {Off}
  /\ pending \in Seq(Requests)
  /\ calledBack \in [Ids -> Nat] /\ added \in 0..MaxCalls /\ calls \in 0..MaxCalls
  /\ worker \in {"none", "wait", "cancel", "look", "lock", "flush", "serve", "ended"}
  /\ at \in [Callers -> {"idle", "wake", "join"}] /\ turned \in BOOLEAN

\* While the worker sleeps beside requests of a running clock, and nobody is
\* about to wake it, the timer is set and goes off no later than the first of
\* them is due (an early one is set again): no start, request, change of speed
\* or jump in time between two steps of the worker is missed.
TimerInTime ==
  /\ worker = "wait" /\ event = 0 /\ active /\ pending # <<>> /\ ~stop
  /\ \A t \in Callers : at[t] # "wake"
  => /\ timer # Off
     /\ scale # 0 => timer = 0 \/ timer <= scale * (Head(pending).due - Now)

\* No request comes before one that the clock, in its direction, reaches
\* earlier, whatever the order they came in and the speeds the clock was given:
\* unless it changed its direction beside a request of which something is still
\* in the list, which is not sorted again.
InOrder == \A i, j \in DOMAIN pending :
  i < j => ~Before(pending[j].due, pending[i].due)
EarliestFirst == turned \/ InOrder

\* Every request that was accepted is called back exactly once, the latest when
\* the clock is destroyed; then no timer, worker or wakeup is left to use it.
CalledBackOnce ==
  /\ \A m, n \in DOMAIN pending : pending[m].id = pending[n].id => m = n
  /\ \A i \in 1..added :
       calledBack[i] = IF \E n \in DOMAIN pending : pending[n].id = i THEN 0 ELSE 1
  /\ destroyed => pending = <<>> /\ timer = Off /\ worker \in {"none", "ended"}

\* The wall time of the clock never runs ahead of real time, also when the
\* 32-bit microsecond counter wraps between two updates.
NotFast == WallNow <= ticks

\* The destroy of a clock returns: the worker it joins hears of it.
DestroyReturns == stop ~> destroyed
=============================================================================
