----------------------------- MODULE TimerQueue -----------------------------
(***************************************************************************)
(* The timers of an event loop (src/src/TimerQueue.cc, addTime of          *)
(* Timestamp.h, runAt and runAfter of EventLoop.cc): a set ordered by      *)
(* expiration and one timerfd, armed for the earliest of them.             *)
(*                                                                         *)
(* A unit of time is the 100 microseconds that howMuchTimeFromNow waits at *)
(* least.  Timestamps are read from the wall clock, the timerfd counts on  *)
(* the monotonic one, so that the two part when the wall clock is set: the *)
(* timerfd is kept as the time until it fires.  Wherever the code reads    *)
(* the clock is a step of its own, and time passes between any two.        *)
(*                                                                         *)
(* A timer is its address, free again after reset has deleted it.  Timers  *)
(* are added on the loop's thread (in a callback, a handler or a functor)  *)
(* or by other threads through the loop's queue, here a set.               *)
(***************************************************************************)
EXTENDS Integers

CONSTANTS
  Timers,           \* addresses of Timer objects
  Start,            \* the wall clock at the start; timestamps are far from 0
  MaxTime,          \* where the modelled wall clock stops
  Delays,           \* seconds that runAfter is called with
  Second,           \* kMicroSecondsPerSecond
  IntRange,         \* the number of values of an int
  MaxJumps          \* how often the wall clock is set

ASSUME TimeAssumption ==
  /\ Start \in Nat \ {0} /\ MaxTime \in Nat /\ Start <= MaxTime
  /\ Delays \subseteq Nat /\ Second \in Nat \ {0} /\ IntRange \in Nat \ {0}
  /\ MaxJumps \in Nat

VARIABLES
  wall,             \* Timestamp::now()
  jumps,            \* how often the wall clock was set
  timerfd,          \* time until it fires, 0 when it is readable, or Disarmed
  timers_,          \* the timers of the queue
  expiration,       \* their Timer::expiration_
  due,              \* history: the time asked for, 0 when the delay overflows
  queued,           \* timers whose addTimerInLoop waits in the loop's queue
  functors,         \* those of the batch being run
  pc,               \* "poll", "events", "callbacks" or "functors"
  active,           \* poll returned the timerfd, not handled yet
  now,              \* the time that handleRead took
  expired,          \* timers whose callbacks handleRead has yet to run
  done              \* those it has run and not deleted

clockVars == <<wall, jumps>>
loopVars == <<functors, pc, active, now, expired, done>>
vars == <<clockVars, timerfd, timers_, expiration, due, queued, loopVars>>

Disarmed == -1

Init ==
  /\ wall = Start /\ jumps = 0
  /\ timerfd = Disarmed
  /\ timers_ = {} /\ queued = {} /\ functors = {} /\ expired = {} /\ done = {}
  /\ expiration = [t \in Timers |-> 0] /\ due = [t \in Timers |-> 0]
  /\ pc = "functors" /\ active = FALSE /\ now = 0

-----------------------------------------------------------------------------
(* Pieces.                                                                 *)

(* An int product, which wraps (the builds of the repository do not trap). *)
AsInt(n) == ((n + IntRange \div 2) % IntRange) - (IntRange \div 2)

(* addTime multiplies as int and only then widens.                         *)
AddTime(time, sec) == time + AsInt(sec * Second)

(* howMuchTimeFromNow.                                                     *)
HowMuchTimeFromNow(when) == IF when - wall < 1 THEN 1 ELSE when - wall

(* insert: is `when` before every timer of the queue?  Mutated form: only  *)
(* the first timer arms.                                                   *)
EarliestChangedIfEmpty(when) == timers_ = {}
EarliestChanged(when) == \A t \in timers_ : when < expiration[t]

(* getExpired at time n.  Mutated form: one unit too many.                 *)
ExpiredEarly(n) == {t \in timers_ : expiration[t] <= n + 1}
Expired(n) == {t \in timers_ : expiration[t] <= n}

(* What stays in the queue.  Mutated form: the range is not erased.        *)
RemainingAll(n) == timers_
Remaining(n) == timers_ \ Expired(n)

(* reset arms for the first timer; a timestamp of 0 counts as none.        *)
(* Mutated form: it leaves the timerfd alone.                              *)
ResetNotArmed == UNCHANGED timerfd
ResetArmed ==
  \/ \E t \in timers_ :
       /\ \A u \in timers_ : expiration[t] <= expiration[u]
       /\ timerfd' = IF expiration[t] > 0 THEN HowMuchTimeFromNow(expiration[t]) ELSE timerfd
  \/ timers_ = {} /\ UNCHANGED timerfd

-----------------------------------------------------------------------------
(* Adding a timer.                                                         *)

Free == Timers \ (timers_ \cup queued \cup functors \cup expired \cup done)

(* addTimerInLoop, with the expiration of t set before.                    *)
AddTimerInLoop(t, when) ==
  /\ timers_' = timers_ \cup {t}
  /\ timerfd' = IF EarliestChanged(when) THEN HowMuchTimeFromNow(when) ELSE timerfd

(* addTimer, on the loop's thread and on another one.                      *)
AddTimer(t, when, asked) ==
  /\ t \in Free
  /\ expiration' = [expiration EXCEPT ![t] = when]
  /\ due' = [due EXCEPT ![t] = asked]
  /\ \/ /\ pc \in {"events", "callbacks", "functors"}
        /\ AddTimerInLoop(t, when)
        /\ UNCHANGED queued
     \/ /\ queued' = queued \cup {t}
        /\ UNCHANGED <<timers_, timerfd>>
  /\ UNCHANGED <<clockVars, loopVars>>

(* runAt, for any time, past ones and the invalid Timestamp() included.    *)
RunAt(t) == \E when \in 0 .. MaxTime : AddTimer(t, when, when)

Fits(sec) == sec * Second < IntRange - (IntRange \div 2)

RunAfter(t) ==
  \E sec \in Delays :
    /\ AddTime(wall, sec) \in 1 .. MaxTime
    /\ AddTimer(t, AddTime(wall, sec), IF Fits(sec) THEN wall + sec * Second ELSE 0)

-----------------------------------------------------------------------------
(* A round of the loop.                                                    *)

(* poll returns with the timerfd if it is readable, for whatever reason    *)
(* else if not.                                                            *)
Poll ==
  /\ pc = "poll"
  /\ pc' = "events"
  /\ active' = (timerfd = 0)
  /\ UNCHANGED <<clockVars, timerfd, timers_, expiration, due, queued, functors, now, expired, done>>

(* handleRead up to the callbacks.  Another handler of this round may have *)
(* armed the timerfd anew, and then the read takes nothing.                *)
HandleRead ==
  /\ pc = "events" /\ active
  /\ pc' = "callbacks" /\ active' = FALSE
  /\ now' = wall
  /\ timerfd' = IF timerfd = 0 THEN Disarmed ELSE timerfd
  /\ expired' = Expired(wall)
  /\ timers_' = Remaining(wall)
  /\ UNCHANGED <<clockVars, expiration, due, queued, functors, done>>

(* The callbacks, in the order of the set.                                 *)
RunTimer(t) ==
  /\ pc = "callbacks" /\ t \in expired
  /\ \A u \in expired : expiration[t] <= expiration[u]
  /\ expired' = expired \ {t} /\ done' = done \cup {t}
  /\ UNCHANGED <<clockVars, timerfd, timers_, expiration, due, queued, functors, pc, active, now>>

(* reset; what is deleted is forgotten.                                    *)
Reset ==
  /\ pc = "callbacks" /\ expired = {}
  /\ ResetArmed
  /\ done' = {} /\ now' = 0
  /\ expiration' = [t \in Timers |-> IF t \in done THEN 0 ELSE expiration[t]]
  /\ due' = [t \in Timers |-> IF t \in done THEN 0 ELSE due[t]]
  /\ pc' = "events"
  /\ UNCHANGED <<clockVars, timers_, queued, functors, active, expired>>

(* doPendingFunctors.                                                      *)
SwapFunctors ==
  /\ pc = "events" /\ ~active
  /\ pc' = "functors"
  /\ functors' = queued /\ queued' = {}
  /\ UNCHANGED <<clockVars, timerfd, timers_, expiration, due, active, now, expired, done>>

RunFunctor(t) ==
  /\ pc = "functors" /\ t \in functors
  /\ functors' = functors \ {t}
  /\ AddTimerInLoop(t, expiration[t])
  /\ UNCHANGED <<clockVars, expiration, due, queued, pc, active, now, expired, done>>

EndBatch ==
  /\ pc = "functors" /\ functors = {}
  /\ pc' = "poll"
  /\ UNCHANGED <<clockVars, timerfd, timers_, expiration, due, queued, functors, active, now,
                 expired, done>>

-----------------------------------------------------------------------------
(* Time passes on both clocks.                                             *)
Tick ==
  /\ wall < MaxTime \/ timerfd > 0
  /\ wall' = IF wall < MaxTime THEN wall + 1 ELSE wall
  /\ timerfd' = IF timerfd > 0 THEN timerfd - 1 ELSE timerfd
  /\ UNCHANGED <<jumps, timers_, expiration, due, queued, loopVars>>

(* The wall clock is set.                                                  *)
SetWall ==
  /\ jumps < MaxJumps
  /\ jumps' = jumps + 1
  /\ wall' \in 1 .. MaxTime
  /\ UNCHANGED <<timerfd, timers_, expiration, due, queued, loopVars>>

Loop ==
  \/ Poll \/ HandleRead \/ Reset \/ SwapFunctors \/ EndBatch
  \/ \E t \in Timers : RunTimer(t) \/ RunFunctor(t)

Next == Loop \/ Tick \/ SetWall \/ (\E t \in Timers : RunAt(t) \/ RunAfter(t))

Spec == Init /\ [][Next]_vars

(* The loop goes round, poll at the latest after kPollTimeMs, and the      *)
(* clocks run.                                                             *)
FairSpec == Spec /\ WF_vars(Loop) /\ WF_vars(Tick)

-----------------------------------------------------------------------------
(* The type invariant; a timer is in one place at a time, so that no       *)
(* deleted one is run and none is deleted twice.                           *)
Disjoint(A, B) == A \cap B = {}
TypeOK ==
  /\ wall \in 1 .. MaxTime /\ jumps \in 0 .. MaxJumps /\ now \in Nat
  /\ timerfd \in -1 .. MaxTime
  /\ expiration \in [Timers -> 0 .. MaxTime] /\ due \in [Timers -> Nat]
  /\ \A S \in {timers_, queued, functors, expired, done} : S \subseteq Timers
  /\ Disjoint(timers_, queued \cup functors \cup expired \cup done)
  /\ Disjoint(queued, functors \cup expired \cup done)
  /\ Disjoint(functors, expired \cup done) /\ Disjoint(expired, done)
  /\ pc \in {"poll", "events", "callbacks", "functors"} /\ active \in BOOLEAN

(* While a timer waits in the queue the timerfd is armed, or it is about   *)
(* to be handled; and unless the wall clock was set it fires when the      *)
(* earliest is due, or after the least delay: addTimerInLoop arms it only  *)
(* for a new earliest timer, and reset for what handleRead leaves.         *)
ArmedInTime ==
  timers_ # {} /\ pc # "callbacks" /\ ~active =>
    /\ timerfd # Disarmed
    /\ jumps = 0 => \A t \in timers_ : timerfd <= 1 \/ timerfd <= expiration[t] - wall

(* No callback runs before the time asked for, by the clock that           *)
(* handleRead read, unless the delay overflows in addTime.                 *)
NoTimerEarly == \A t \in expired \cup done : due[t] <= now

(* Every timer runs in the end, however late the clock is set.             *)
Waiting(t) == t \in timers_ \cup queued \cup functors \cup expired
TimersRun == \A t \in Timers : Waiting(t) ~> ~Waiting(t)

=============================================================================
