-------------------------- MODULE TimerQueueProofs --------------------------
(***************************************************************************)
(* Proofs about TimerQueue, for any number of timers, any delays and any   *)
(* settings of the wall clock.                                             *)
(***************************************************************************)
EXTENDS TimerQueue, TLAPS

USE DEF Disarmed

-----------------------------------------------------------------------------
(* A delay that fits an int is added as it is.                             *)
LEMMA AddTimeFits ==
  ASSUME TimeAssumption, NEW time \in Nat, NEW sec \in Nat, Fits(sec)
  PROVE  AddTime(time, sec) = time + sec * Second
<1> DEFINE n == sec * Second
           H == IntRange \div 2
<1>1. n \in Nat /\ H \in Nat /\ IntRange \in Nat \ {0}
  BY DEF TimeAssumption
<1>2. n < IntRange - H
  BY DEF Fits
<1> HIDE DEF n, H
<1>3. (n + H) \in 0 .. IntRange - 1
  BY <1>1, <1>2
<1>4. (n + H) % IntRange = n + H
  BY <1>1, <1>3, SMTT(30)
<1>5. AsInt(n) = n
  BY <1>1, <1>4 DEF AsInt, H
<1> QED
  BY <1>5 DEF AddTime, n

-----------------------------------------------------------------------------
(* The initial state has the types.                                        *)
LEMMA TypeInit == Init => TypeOK
<1> USE TimeAssumption DEF TimeAssumption, Init
<1> SUFFICES ASSUME Init PROVE TypeOK
  OBVIOUS
<1>1. wall \in 1 .. MaxTime /\ jumps \in 0 .. MaxJumps /\ timerfd \in -1 .. MaxTime
  OBVIOUS
<1>2. 0 \in 0 .. MaxTime /\ 0 \in Nat
  OBVIOUS
<1> QED
  BY <1>1, <1>2 DEF TypeOK, Disjoint

(* Each timer is in one place, and the values have their types.            *)
THEOREM TypeCorrect == Spec => []TypeOK
<1>1. Init => TypeOK
  BY TypeInit
<1>2. TypeOK /\ [Next]_vars => TypeOK'
  <2> SUFFICES ASSUME TypeOK, [Next]_vars PROVE TypeOK'
    OBVIOUS
  <2> USE TimeAssumption DEF TimeAssumption
  <2> DEFINE HasType ==
        /\ wall \in 1 .. MaxTime /\ jumps \in 0 .. MaxJumps /\ now \in Nat
        /\ timerfd \in -1 .. MaxTime
        /\ expiration \in [Timers -> 0 .. MaxTime] /\ due \in [Timers -> Nat]
        /\ pc \in {"poll", "events", "callbacks", "functors"} /\ active \in BOOLEAN
      Apart ==
        /\ \A S \in {timers_, queued, functors, expired, done} : S \subseteq Timers
        /\ Disjoint(timers_, queued \cup functors \cup expired \cup done)
        /\ Disjoint(queued, functors \cup expired \cup done)
        /\ Disjoint(functors, expired \cup done) /\ Disjoint(expired, done)
  <2>1. ASSUME NEW t \in Timers, NEW when \in 0 .. MaxTime, NEW asked \in Nat,
               AddTimer(t, when, asked)
        PROVE  TypeOK'
    <3>1. HasType'
      BY <2>1 DEF TypeOK, AddTimer, AddTimerInLoop, HowMuchTimeFromNow, clockVars, loopVars
    <3>2. Apart'
      BY <2>1 DEF TypeOK, AddTimer, AddTimerInLoop, Free, Disjoint, clockVars, loopVars
    <3> QED
      BY <3>1, <3>2 DEF TypeOK
  <2>2. ASSUME NEW t \in Timers, RunAt(t) PROVE TypeOK'
    BY <2>1, <2>2 DEF RunAt
  <2>3. ASSUME NEW t \in Timers, RunAfter(t) PROVE TypeOK'
    <3>1. PICK sec \in Delays :
            /\ AddTime(wall, sec) \in 1 .. MaxTime
            /\ AddTimer(t, AddTime(wall, sec), IF Fits(sec) THEN wall + sec * Second ELSE 0)
      BY <2>3 DEF RunAfter
    <3>2. sec * Second \in Nat /\ wall \in Nat
      BY DEF TypeOK
    <3>3. AddTime(wall, sec) \in 0 .. MaxTime
      BY <3>1
    <3> QED
      BY <2>1, <3>1, <3>2, <3>3
  <2>4. CASE Poll
    BY <2>4 DEF TypeOK, Poll, clockVars
  <2>5. CASE HandleRead
    <3>0. /\ now' = wall /\ (timerfd' = timerfd \/ timerfd' = Disarmed)
          /\ pc' = "callbacks" /\ active' = FALSE
          /\ UNCHANGED <<wall, jumps, expiration, due>>
      BY <2>5 DEF HandleRead, clockVars
    <3>1. HasType'
      <4>1. now' \in Nat /\ timerfd' \in -1 .. MaxTime
        BY <3>0 DEF TypeOK
      <4> QED
        BY <3>0, <4>1 DEF TypeOK
    <3>2. Apart'
      BY <2>5 DEF TypeOK, HandleRead, Expired, Remaining, Disjoint, clockVars
    <3> QED
      BY <3>1, <3>2 DEF TypeOK
  <2>6. ASSUME NEW t \in Timers, RunTimer(t) PROVE TypeOK'
    BY <2>6 DEF TypeOK, RunTimer, Disjoint, clockVars
  <2>7. CASE Reset
    <3>1. HasType'
      BY <2>7 DEF TypeOK, Reset, ResetArmed, HowMuchTimeFromNow, clockVars
    <3>2. Apart'
      BY <2>7 DEF TypeOK, Reset, Disjoint
    <3> QED
      BY <3>1, <3>2 DEF TypeOK
  <2>8. CASE SwapFunctors
    BY <2>8 DEF TypeOK, SwapFunctors, Disjoint, clockVars
  <2>9. ASSUME NEW t \in Timers, RunFunctor(t) PROVE TypeOK'
    <3>1. HasType'
      BY <2>9 DEF TypeOK, RunFunctor, AddTimerInLoop, HowMuchTimeFromNow, clockVars
    <3>2. Apart'
      BY <2>9 DEF TypeOK, RunFunctor, AddTimerInLoop, Disjoint
    <3> QED
      BY <3>1, <3>2 DEF TypeOK
  <2>10. CASE EndBatch
    BY <2>10 DEF TypeOK, EndBatch, clockVars
  <2>11. CASE Tick
    BY <2>11 DEF TypeOK, Tick, loopVars
  <2>12. CASE SetWall
    BY <2>12 DEF TypeOK, SetWall, loopVars
  <2>13. CASE UNCHANGED vars
    BY <2>13 DEF TypeOK, vars, clockVars, loopVars
  <2> QED
    BY <2>2, <2>3, <2>4, <2>5, <2>6, <2>7, <2>8, <2>9, <2>10, <2>11, <2>12, <2>13 DEF Next, Loop
<1> QED
  BY <1>1, <1>2, PTL DEF Spec

-----------------------------------------------------------------------------
(* The timerfd is armed for the earliest timer.  During the callbacks it   *)
(* need not be, except for a timer at 0, which reset does not arm for:     *)
(* its insertion did.                                                      *)
ZeroArmed == pc = "callbacks" /\ (\E t \in timers_ : expiration[t] = 0) => timerfd \in {0, 1}
ActiveOnlyInEvents == active => pc = "events"
ArmedInv == TypeOK /\ ArmedInTime /\ ZeroArmed /\ ActiveOnlyInEvents

(* The clocks' settings and the place of the loop matter only through what *)
(* the invariant names.                                                    *)
armedVars == <<wall, jumps, timerfd, timers_, expiration, active>>

LEMMA ArmedFrame ==
  ASSUME ArmedInv, UNCHANGED armedVars, pc' = pc \/ (pc # "callbacks" /\ pc' # "callbacks")
  PROVE  ArmedInTime' /\ ZeroArmed'
BY DEF ArmedInv, armedVars, ArmedInTime, ZeroArmed

(* What addTimerInLoop adds does not disturb it.                           *)
LEMMA AddKeepsArmed ==
  ASSUME TimeAssumption, ArmedInv, NEW t \in Timers, NEW when \in 0 .. MaxTime,
         AddTimerInLoop(t, when), expiration'[t] = when,
         \A u \in timers_ : expiration'[u] = expiration[u],
         UNCHANGED <<wall, jumps, pc, active>>
  PROVE  ArmedInTime' /\ ZeroArmed'
<1> USE DEF ArmedInv, TypeOK, AddTimerInLoop, EarliestChanged, HowMuchTimeFromNow, TimeAssumption
<1>1. CASE EarliestChanged(when)
  <2>1. timerfd' = (IF when - wall < 1 THEN 1 ELSE when - wall)
    BY <1>1
  <2>2. \A u \in timers_' : when <= expiration'[u]
    BY <1>1
  <2>3. ArmedInTime'
    BY <2>1, <2>2 DEF ArmedInTime
  <2>4. ZeroArmed'
    BY <2>1, <2>2 DEF ZeroArmed
  <2> QED
    BY <2>3, <2>4
<1>2. CASE ~EarliestChanged(when)
  <2>1. timerfd' = timerfd
    BY <1>2
  <2>2. PICK u \in timers_ : expiration[u] <= when
    BY <1>2
  <2>3. ArmedInTime'
    BY <2>1, <2>2 DEF ArmedInTime
  <2>4. ZeroArmed'
    BY <2>1, <2>2 DEF ZeroArmed
  <2> QED
    BY <2>3, <2>4
<1> QED
  BY <1>1, <1>2

(* The steps of reset: the minimum it arms for is before every timer.      *)
LEMMA ResetArms ==
  ASSUME TimeAssumption, ArmedInv, Reset
  PROVE  ArmedInTime' /\ ZeroArmed'
<1> USE DEF ArmedInv, TypeOK, TimeAssumption
<1>1. /\ pc = "callbacks" /\ pc' = "events" /\ UNCHANGED <<wall, jumps, timers_, active>>
      /\ \A t \in timers_ : expiration'[t] = expiration[t]
  BY DEF Reset, clockVars, Disjoint
<1>2. CASE timers_ = {}
  BY <1>1, <1>2 DEF ArmedInTime, ZeroArmed
<1>3. CASE timers_ # {}
  <2>1. PICK t \in timers_ :
          /\ \A u \in timers_ : expiration[t] <= expiration[u]
          /\ timerfd' = IF expiration[t] > 0 THEN HowMuchTimeFromNow(expiration[t]) ELSE timerfd
    BY <1>3 DEF Reset, ResetArmed
  <2>2. CASE expiration[t] > 0
    BY <1>1, <2>1, <2>2 DEF ArmedInTime, ZeroArmed, HowMuchTimeFromNow
  <2>3. CASE expiration[t] = 0
    <3>1. timerfd \in {0, 1} /\ timerfd' = timerfd
      BY <1>1, <2>1, <2>3 DEF ZeroArmed
    <3> QED
      BY <1>1, <3>1 DEF ArmedInTime, ZeroArmed
  <2> QED
    BY <2>2, <2>3
<1> QED
  BY <1>2, <1>3

(* While a timer waits, the timerfd fires in time (ArmedInTime): no timer  *)
(* is forgotten by insert, handleRead or reset.                            *)
THEOREM TimersArmed == Spec => []ArmedInTime
<1>1. Init => ArmedInv
  BY TimeAssumption, TypeInit DEF Init, ArmedInv, ArmedInTime, ZeroArmed, ActiveOnlyInEvents
<1>2. ArmedInv /\ [Next]_vars /\ TypeOK' => ArmedInv'
  <2> SUFFICES ASSUME ArmedInv, [Next]_vars, TypeOK' PROVE ArmedInv'
    OBVIOUS
  <2> USE TimeAssumption
  <2>1. ActiveOnlyInEvents'
    BY DEF ArmedInv, ActiveOnlyInEvents, Next, Loop, Poll, HandleRead, RunTimer, Reset, SwapFunctors,
           RunFunctor, EndBatch, Tick, SetWall, RunAt, RunAfter, AddTimer, vars, loopVars
  <2>2. ASSUME NEW t \in Timers, NEW when \in 0 .. MaxTime, NEW asked,
               AddTimer(t, when, asked)
        PROVE  ArmedInTime' /\ ZeroArmed'
    <3>1. /\ expiration'[t] = when /\ \A u \in timers_ : expiration'[u] = expiration[u]
          /\ UNCHANGED <<wall, jumps, pc, active>>
      BY <2>2 DEF AddTimer, Free, ArmedInv, TypeOK, clockVars, loopVars
    <3>2. CASE AddTimerInLoop(t, when)
      BY <3>1, <3>2, AddKeepsArmed
    <3>3. CASE UNCHANGED <<timers_, timerfd>>
      BY <3>1, <3>3 DEF ArmedInv, ArmedInTime, ZeroArmed
    <3> QED
      BY <2>2, <3>2, <3>3 DEF AddTimer
  <2>3. ASSUME NEW t \in Timers, RunAt(t) \/ RunAfter(t) PROVE ArmedInTime' /\ ZeroArmed'
    <3>1. CASE RunAt(t)
      BY <2>2, <3>1 DEF RunAt
    <3>2. CASE RunAfter(t)
      <4>1. PICK sec \in Delays :
              /\ AddTime(wall, sec) \in 1 .. MaxTime
              /\ AddTimer(t, AddTime(wall, sec), IF Fits(sec) THEN wall + sec * Second ELSE 0)
        BY <3>2 DEF RunAfter
      <4>2. AddTime(wall, sec) \in 0 .. MaxTime
        BY <4>1 DEF TimeAssumption
      <4> QED
        BY <2>2, <4>1, <4>2
    <3> QED
      BY <2>3, <3>1, <3>2
  <2>4. ASSUME NEW t \in Timers, RunFunctor(t) PROVE ArmedInTime' /\ ZeroArmed'
    <3>1. /\ AddTimerInLoop(t, expiration[t]) /\ expiration[t] \in 0 .. MaxTime
          /\ UNCHANGED <<wall, jumps, pc, active, expiration>>
      BY <2>4 DEF RunFunctor, ArmedInv, TypeOK, clockVars
    <3> QED
      BY <3>1, AddKeepsArmed
  <2>5. ASSUME Poll PROVE ArmedInTime' /\ ZeroArmed'
    BY <2>5 DEF Poll, clockVars, ArmedInv, ArmedInTime, ZeroArmed, ActiveOnlyInEvents
  <2>6. ASSUME HandleRead PROVE ArmedInTime' /\ ZeroArmed'
    <3>1. \A t \in timers_' : expiration'[t] > 0
      BY <2>6 DEF HandleRead, Remaining, Expired, ArmedInv, TypeOK, TimeAssumption, clockVars
    <3> QED
      BY <2>6, <3>1 DEF HandleRead, ArmedInTime, ZeroArmed
  <2>7. ASSUME NEW t \in Timers, RunTimer(t) PROVE ArmedInTime' /\ ZeroArmed'
    BY <2>7, ArmedFrame DEF RunTimer, clockVars, armedVars
  <2>8. ASSUME Reset PROVE ArmedInTime' /\ ZeroArmed'
    BY <2>8, ResetArms
  <2>9. ASSUME SwapFunctors \/ EndBatch PROVE ArmedInTime' /\ ZeroArmed'
    BY <2>9, ArmedFrame DEF SwapFunctors, EndBatch, clockVars, armedVars
  <2>10. ASSUME Tick PROVE ArmedInTime' /\ ZeroArmed'
    BY <2>10 DEF Tick, loopVars, ArmedInv, TypeOK, ArmedInTime, ZeroArmed, TimeAssumption
  <2>11. ASSUME SetWall PROVE ArmedInTime' /\ ZeroArmed'
    BY <2>11 DEF SetWall, loopVars, ArmedInv, TypeOK, ArmedInTime, ZeroArmed, TimeAssumption
  <2>12. ASSUME UNCHANGED vars PROVE ArmedInTime' /\ ZeroArmed'
    BY <2>12, ArmedFrame DEF vars, clockVars, loopVars, armedVars
  <2> QED
    BY <2>1, <2>3, <2>4, <2>5, <2>6, <2>7, <2>8, <2>9, <2>10, <2>11, <2>12 DEF ArmedInv, Next, Loop
<1>3. ArmedInv => ArmedInTime
  BY DEF ArmedInv
<1> QED
  BY <1>1, <1>2, <1>3, TypeCorrect, PTL DEF Spec

-----------------------------------------------------------------------------
(* No timer runs early: what getExpired takes has expired by the time that *)
(* handleRead read, and a timer's expiration is never before the time      *)
(* asked for unless the delay overflows.                                   *)
DueKept == \A t \in Timers : due[t] <= expiration[t]
BatchExpired == \A t \in expired \cup done : expiration[t] <= now
BatchOnlyInCallbacks == pc # "callbacks" => expired = {} /\ done = {}
EarlyInv == TypeOK /\ DueKept /\ BatchExpired /\ BatchOnlyInCallbacks

(* Adding a timer touches none of the batch.                               *)
LEMMA AddKeepsEarly ==
  ASSUME EarlyInv, NEW t \in Timers, NEW when \in 0 .. MaxTime, NEW asked \in Nat,
         asked <= when, AddTimer(t, when, asked)
  PROVE  DueKept' /\ BatchExpired' /\ BatchOnlyInCallbacks'
<1>1. UNCHANGED <<expired, done, now, pc>>
  BY DEF AddTimer, loopVars
<1>2. /\ expiration' = [expiration EXCEPT ![t] = when] /\ due' = [due EXCEPT ![t] = asked]
      /\ t \notin expired \cup done
  BY DEF AddTimer, Free
<1>3. DueKept'
  BY <1>2 DEF EarlyInv, TypeOK, DueKept
<1>4. BatchExpired'
  BY <1>1, <1>2 DEF EarlyInv, TypeOK, BatchExpired
<1> QED
  BY <1>1, <1>3, <1>4 DEF EarlyInv, BatchOnlyInCallbacks

(* No callback runs before the time asked for (NoTimerEarly), by the clock *)
(* that handleRead read.                                                   *)
THEOREM NeverEarly == Spec => []NoTimerEarly
<1>1. Init => EarlyInv
  BY TypeInit DEF Init, EarlyInv, DueKept, BatchExpired, BatchOnlyInCallbacks
<1>2. EarlyInv /\ [Next]_vars /\ TypeOK' => EarlyInv'
  <2> DEFINE Rest == DueKept /\ BatchExpired /\ BatchOnlyInCallbacks
  <2> SUFFICES ASSUME EarlyInv, [Next]_vars, TypeOK' PROVE Rest'
    BY DEF EarlyInv
  <2> USE TimeAssumption
  <2>1. ASSUME NEW t \in Timers, RunAt(t) PROVE Rest'
    <3>1. PICK when \in 0 .. MaxTime : AddTimer(t, when, when)
      BY <2>1 DEF RunAt
    <3>2. when \in Nat /\ when <= when
      BY DEF TimeAssumption
    <3> QED
      BY <3>1, <3>2, AddKeepsEarly
  <2>2. ASSUME NEW t \in Timers, RunAfter(t) PROVE Rest'
    <3>1. PICK sec \in Delays :
            /\ AddTime(wall, sec) \in 1 .. MaxTime
            /\ AddTimer(t, AddTime(wall, sec), IF Fits(sec) THEN wall + sec * Second ELSE 0)
      BY <2>2 DEF RunAfter
    <3> DEFINE asked == IF Fits(sec) THEN wall + sec * Second ELSE 0
    <3>2. wall \in Nat /\ sec \in Nat /\ sec * Second \in Nat
      BY DEF EarlyInv, TypeOK, TimeAssumption
    <3>3. AddTime(wall, sec) \in 0 .. MaxTime
      BY <3>1 DEF TimeAssumption
    <3>4. asked \in Nat /\ asked <= AddTime(wall, sec)
      <4>1. CASE Fits(sec)
        BY <3>2, <3>3, <4>1, AddTimeFits
      <4>2. CASE ~Fits(sec)
        BY <3>3, <4>2
      <4> QED
        BY <4>1, <4>2
    <3> QED
      BY <3>1, <3>3, <3>4, AddKeepsEarly
  <2>3. ASSUME HandleRead PROVE Rest'
    <3>1. /\ pc # "callbacks" /\ pc' = "callbacks" /\ now' = wall /\ expired' = Expired(wall)
          /\ UNCHANGED <<expiration, due, done>>
      BY <2>3 DEF HandleRead
    <3>2. BatchExpired'
      BY <3>1 DEF EarlyInv, BatchOnlyInCallbacks, BatchExpired, Expired
    <3> QED
      BY <3>1, <3>2 DEF EarlyInv, DueKept, BatchOnlyInCallbacks
  <2>4. ASSUME NEW t \in Timers, RunTimer(t) PROVE Rest'
    BY <2>4 DEF RunTimer, EarlyInv, DueKept, BatchExpired, BatchOnlyInCallbacks
  <2>5. ASSUME Reset PROVE Rest'
    BY <2>5 DEF Reset, EarlyInv, TypeOK, DueKept, BatchExpired, BatchOnlyInCallbacks
  <2>6. ASSUME \/ Poll \/ SwapFunctors \/ EndBatch \/ Tick \/ SetWall \/ UNCHANGED vars
               \/ \E t \in Timers : RunFunctor(t)
        PROVE  Rest'
    <3>1. /\ UNCHANGED <<expiration, due, expired, done, now>>
          /\ pc' = pc \/ (pc # "callbacks" /\ pc' # "callbacks")
      BY <2>6 DEF Poll, SwapFunctors, EndBatch, Tick, SetWall, RunFunctor, vars, clockVars, loopVars
    <3> QED
      BY <3>1 DEF EarlyInv, DueKept, BatchExpired, BatchOnlyInCallbacks
  <2> QED
    BY <2>1, <2>2, <2>3, <2>4, <2>5, <2>6 DEF Next, Loop
<1>3. EarlyInv => NoTimerEarly
  <2> SUFFICES ASSUME EarlyInv, NEW t \in expired \cup done PROVE due[t] <= now
    BY DEF NoTimerEarly
  <2>1. t \in Timers /\ due[t] \in Nat /\ expiration[t] \in Nat /\ now \in Nat
    BY TimeAssumption DEF EarlyInv, TypeOK, TimeAssumption
  <2> QED
    BY <2>1 DEF EarlyInv, DueKept, BatchExpired
<1> QED
  BY <1>1, <1>2, <1>3, TypeCorrect, PTL DEF Spec

=============================================================================
