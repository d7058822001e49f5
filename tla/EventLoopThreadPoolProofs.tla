--------------------- MODULE EventLoopThreadPoolProofs ---------------------
(***************************************************************************)
(* Proofs about EventLoopThreadPool, for any number of threads: the loops  *)
(* handed out are ready and evenly used, and the destructor's unlocked     *)
(* reads of loop_ are harmless unless the user quits a loop himself.       *)
(***************************************************************************)
EXTENDS EventLoopThreadPool, TLAPS

Starting == {"start", "semWait", "lock", "check", "waiting"}

(* Where the owner is decides how many loops there are, and that none of   *)
(* them is handed out before start() has returned.                         *)
OwnerPlace ==
  /\ opc \in Starting => next_ = 0 /\ handedOut = [i \in Loops |-> 0]
  /\ opc \in Starting \ {"start"} => current = size + 1 /\ size < numThreads_
  /\ opc \notin Starting => size = numThreads_ /\ (initialised[BaseLoop] <=> numThreads_ = 0)
  /\ opc \in {"quit", "join"} => current <= numThreads_

(* Where a thread is decides whether its loop exists, is initialised and   *)
(* is published; only published loops are in the vector.                   *)
Ending == {"lockEnd", "clear", "unlock", "done"}
Published == {"enter", "looping"} \cup Ending
ThreadPlace == \A i \in Ids :
  /\ loop_[i] <=> tpc[i] \in Published \ {"unlock", "done"}
  /\ loopExists[i] <=> tpc[i] \in {"callback", "lock", "publish"} \cup (Published \ {"done"})
  /\ tpc[i] \in {"lock", "publish"} \cup Published => initialised[i]
  /\ i <= size => tpc[i] \in Published
  /\ i > size => tpc[i] = "none" \/ (i = size + 1 /\ opc \in Starting \ {"start"})

(* The destructor has called quit() on the loop of thread i.               *)
ToldToQuit(i) == opc \notin Using /\ (i < current \/ (i = current /\ opc = "join"))

(* If the user quits no loop, a loop ends only when the destructor has     *)
(* asked for it, and an EventLoopThread is destroyed only after its thread.*)
EndsWhenTold == ~userQuit => \A i \in Ids :
  /\ quit_[i] => ToldToQuit(i)
  /\ tpc[i] \in Ending => ToldToQuit(i)
  /\ destroyed[i] => tpc[i] = "done"

(* The loops before next_ have been handed out once more than the others.  *)
Ahead(i) == IF i <= next_ THEN 1 ELSE 0
RoundRobin ==
  /\ \A i, j \in 1 .. size : handedOut[i] - handedOut[j] = Ahead(i) - Ahead(j)
  /\ handedOut[BaseLoop] > 0 => numThreads_ = 0
  /\ \A i \in Loops : handedOut[i] > 0 => i <= size

IInv == TypeOK /\ OwnerPlace /\ ThreadPlace /\ EndsWhenTold /\ RoundRobin
          /\ NoUseAfterDestruction

-----------------------------------------------------------------------------
(* The initial state.                                                      *)
LEMMA InitInvariant == Init => IInv
<1> USE BoundsAssumption DEF Init, Ids, Loops, BaseLoop
<1> SUFFICES ASSUME Init PROVE IInv
  OBVIOUS
<1>1. TypeOK
  <2>1. handedOut \in [Loops -> 0 .. MaxHandedOut] /\ initialised \in [Loops -> BOOLEAN]
    OBVIOUS
  <2>2. /\ sem \in [Ids -> BOOLEAN] /\ notified \in [Ids -> BOOLEAN] /\ loop_ \in [Ids -> BOOLEAN]
        /\ loopExists \in [Ids -> BOOLEAN] /\ quit_ \in [Ids -> BOOLEAN]
        /\ destroyed \in [Ids -> BOOLEAN]
    OBVIOUS
  <2>3. /\ tpc \in [Ids -> {"none"}] /\ mutex_ \in [Ids -> {"free"}]
        /\ current \in 1 .. MaxThreads + 1 /\ size \in 0 .. numThreads_
    OBVIOUS
  <2> QED
    BY <2>1, <2>2, <2>3 DEF TypeOK
<1>2. OwnerPlace
  BY DEF OwnerPlace, Starting
<1>3. ThreadPlace
  BY DEF ThreadPlace, Published, Ending
<1>4. EndsWhenTold /\ NoUseAfterDestruction
  BY DEF EndsWhenTold, Ending, NoUseAfterDestruction
<1>5. RoundRobin
  BY DEF RoundRobin
<1> QED
  BY <1>1, <1>2, <1>3, <1>4, <1>5 DEF IInv

(* Every step keeps the types.                                             *)
LEMMA TypeStep ==
  ASSUME TypeOK, OwnerPlace, [Next]_vars
  PROVE  TypeOK'
<1> USE BoundsAssumption DEF TypeOK, OwnerPlace, Starting, Ids, Loops, BaseLoop
<1>1. ASSUME StartThread PROVE TypeOK'
  BY <1>1 DEF StartThread, poolVars, ownerVars, loopVars, syncVars
<1>2. ASSUME StartReturns PROVE TypeOK'
  BY <1>2 DEF StartReturns, poolVars, ownerVars, loopVars, syncVars
<1>3. ASSUME SemWait PROVE TypeOK'
  BY <1>3 DEF SemWait, poolVars, ownerVars, loopVars, syncVars
<1>4. ASSUME OwnerLocks PROVE TypeOK'
  BY <1>4 DEF OwnerLocks, poolVars, ownerVars, loopVars, syncVars
<1>5. ASSUME CheckLoop PROVE TypeOK'
  <2> USE <1>5 DEF CheckLoop
  <2>1. mutex_' \in [Ids -> {"free", "owner", "thread"}] /\ notified' \in [Ids -> BOOLEAN]
    OBVIOUS
  <2>2. size' \in 0 .. numThreads_ /\ (next_ = 0 \/ next_ \in 0 .. size' - 1)
    OBVIOUS
  <2>3. opc' \in {"start", "waiting"}
    OBVIOUS
  <2> QED
    BY <2>1, <2>2, <2>3 DEF loopVars
<1>6. ASSUME CondWakes PROVE TypeOK'
  BY <1>6 DEF CondWakes, poolVars, ownerVars, loopVars, syncVars
<1>7. ASSUME TestLoop PROVE TypeOK'
  <2> USE <1>7 DEF TestLoop
  <2>1. destroyed' \in [Ids -> BOOLEAN]
    OBVIOUS
  <2>2. current' \in 1 .. MaxThreads + 1 /\ opc' \in {"quit", "destroy"}
    OBVIOUS
  <2> QED
    BY <2>1, <2>2 DEF poolVars, loopVars, syncVars
<1>8. ASSUME QuitLoop PROVE TypeOK'
  BY <1>8 DEF QuitLoop, poolVars, ownerVars, loopVars, syncVars
<1>9. ASSUME Join PROVE TypeOK'
  BY <1>9 DEF Join, CanJoin, poolVars, ownerVars, loopVars, syncVars
<1>10. ASSUME PoolDestroyed PROVE TypeOK'
  BY <1>10 DEF PoolDestroyed, poolVars, ownerVars, loopVars, syncVars
<1>11. ASSUME CondWakesSpuriously PROVE TypeOK'
  BY <1>11 DEF CondWakesSpuriously, poolVars, ownerVars, loopVars, syncVars
<1>12. ASSUME GetNextLoop PROVE TypeOK'
  <2> USE <1>12 DEF GetNextLoop
  <2>1. handedOut' \in [Loops -> 0 .. MaxHandedOut]
    OBVIOUS
  <2>2. next_' = 0 \/ next_' \in 0 .. size - 1
    BY DEF NextIndex
  <2> QED
    BY <2>1, <2>2 DEF ownerVars, loopVars, syncVars
<1>13. ASSUME BeginDestroy PROVE TypeOK'
  BY <1>13 DEF BeginDestroy, poolVars, ownerVars, loopVars, syncVars
<1>14. ASSUME NEW i \in Ids, PostSemaphore(i) PROVE TypeOK'
  BY <1>14 DEF PostSemaphore, ThreadAt, poolVars, ownerVars, loopVars, syncVars
<1>15. ASSUME NEW i \in Ids, ConstructLoop(i) PROVE TypeOK'
  BY <1>15 DEF ConstructLoop, ThreadAt, poolVars, ownerVars, loopVars, syncVars
<1>16. ASSUME NEW i \in Ids, InitCallback(i) PROVE TypeOK'
  BY <1>16 DEF InitCallback, ThreadAt, poolVars, ownerVars, loopVars, syncVars
<1>17. ASSUME NEW i \in Ids, LockToPublish(i) PROVE TypeOK'
  BY <1>17 DEF LockToPublish, ThreadAt, poolVars, ownerVars, loopVars, syncVars
<1>18. ASSUME NEW i \in Ids, Publish(i) PROVE TypeOK'
  BY <1>18 DEF Publish, Notify, ThreadAt, poolVars, ownerVars, loopVars, syncVars
<1>19. ASSUME NEW i \in Ids, EnterLoop(i) PROVE TypeOK'
  BY <1>19 DEF EnterLoop, ThreadAt, poolVars, ownerVars, loopVars, syncVars
<1>20. ASSUME NEW i \in Ids, LoopReturns(i) PROVE TypeOK'
  BY <1>20 DEF LoopReturns, ThreadAt, poolVars, ownerVars, loopVars, syncVars
<1>21. ASSUME NEW i \in Ids, LockToClear(i) PROVE TypeOK'
  BY <1>21 DEF LockToClear, ThreadAt, poolVars, ownerVars, loopVars, syncVars
<1>22. ASSUME NEW i \in Ids, ClearLoop(i) PROVE TypeOK'
  BY <1>22 DEF ClearLoop, ThreadAt, poolVars, ownerVars, loopVars, syncVars
<1>23. ASSUME NEW i \in Ids, ThreadFuncReturns(i) PROVE TypeOK'
  BY <1>23 DEF ThreadFuncReturns, ThreadAt, poolVars, ownerVars, loopVars, syncVars
<1>24. ASSUME NEW i \in Ids, UserQuits(i) PROVE TypeOK'
  BY <1>24 DEF UserQuits, poolVars, ownerVars, loopVars, syncVars
<1>u. ASSUME UNCHANGED vars PROVE TypeOK'
  BY <1>u DEF vars, poolVars, ownerVars, loopVars, syncVars
<1> QED
  BY <1>u, <1>1, <1>2, <1>3, <1>4, <1>5, <1>6, <1>7, <1>8, <1>9, <1>10, <1>11,
     <1>12, <1>13, <1>14, <1>15, <1>16, <1>17, <1>18, <1>19, <1>20,
     <1>21, <1>22, <1>23, <1>24
     DEF Next, OwnerProceeds, ThreadProceeds

(* ... the owner's place ...                                               *)
LEMMA OwnerStep ==
  ASSUME TypeOK, OwnerPlace, [Next]_vars
  PROVE  OwnerPlace'
<1> USE BoundsAssumption DEF TypeOK, OwnerPlace, Starting, Ids, Loops, BaseLoop
<1>1. ASSUME StartThread PROVE OwnerPlace'
  BY <1>1 DEF StartThread, poolVars, ownerVars, loopVars, syncVars
<1>2. ASSUME StartReturns PROVE OwnerPlace'
  BY <1>2 DEF StartReturns, poolVars, ownerVars, loopVars, syncVars
<1>3. ASSUME SemWait PROVE OwnerPlace'
  BY <1>3 DEF SemWait, poolVars, ownerVars, loopVars, syncVars
<1>4. ASSUME OwnerLocks PROVE OwnerPlace'
  BY <1>4 DEF OwnerLocks, poolVars, ownerVars, loopVars, syncVars
<1>5. ASSUME CheckLoop PROVE OwnerPlace'
  BY <1>5 DEF CheckLoop, MustWait, poolVars, ownerVars, loopVars, syncVars
<1>6. ASSUME CondWakes PROVE OwnerPlace'
  BY <1>6 DEF CondWakes, poolVars, ownerVars, loopVars, syncVars
<1>7. ASSUME TestLoop PROVE OwnerPlace'
  BY <1>7 DEF TestLoop, poolVars, ownerVars, loopVars, syncVars
<1>8. ASSUME QuitLoop PROVE OwnerPlace'
  BY <1>8 DEF QuitLoop, poolVars, ownerVars, loopVars, syncVars
<1>9. ASSUME Join PROVE OwnerPlace'
  BY <1>9 DEF Join, CanJoin, poolVars, ownerVars, loopVars, syncVars
<1>10. ASSUME PoolDestroyed PROVE OwnerPlace'
  BY <1>10 DEF PoolDestroyed, poolVars, ownerVars, loopVars, syncVars
<1>11. ASSUME CondWakesSpuriously PROVE OwnerPlace'
  BY <1>11 DEF CondWakesSpuriously, poolVars, ownerVars, loopVars, syncVars
<1>12. ASSUME GetNextLoop PROVE OwnerPlace'
  BY <1>12 DEF GetNextLoop, NextIndex, poolVars, ownerVars, loopVars, syncVars
<1>13. ASSUME BeginDestroy PROVE OwnerPlace'
  BY <1>13 DEF BeginDestroy, poolVars, ownerVars, loopVars, syncVars
<1>14. ASSUME NEW i \in Ids, PostSemaphore(i) PROVE OwnerPlace'
  BY <1>14 DEF PostSemaphore, ThreadAt, poolVars, ownerVars, loopVars, syncVars
<1>15. ASSUME NEW i \in Ids, ConstructLoop(i) PROVE OwnerPlace'
  BY <1>15 DEF ConstructLoop, ThreadAt, poolVars, ownerVars, loopVars, syncVars
<1>16. ASSUME NEW i \in Ids, InitCallback(i) PROVE OwnerPlace'
  BY <1>16 DEF InitCallback, ThreadAt, poolVars, ownerVars, loopVars, syncVars
<1>17. ASSUME NEW i \in Ids, LockToPublish(i) PROVE OwnerPlace'
  BY <1>17 DEF LockToPublish, ThreadAt, poolVars, ownerVars, loopVars, syncVars
<1>18. ASSUME NEW i \in Ids, Publish(i) PROVE OwnerPlace'
  BY <1>18 DEF Publish, Notify, ThreadAt, poolVars, ownerVars, loopVars, syncVars
<1>19. ASSUME NEW i \in Ids, EnterLoop(i) PROVE OwnerPlace'
  BY <1>19 DEF EnterLoop, ThreadAt, poolVars, ownerVars, loopVars, syncVars
<1>20. ASSUME NEW i \in Ids, LoopReturns(i) PROVE OwnerPlace'
  BY <1>20 DEF LoopReturns, ThreadAt, poolVars, ownerVars, loopVars, syncVars
<1>21. ASSUME NEW i \in Ids, LockToClear(i) PROVE OwnerPlace'
  BY <1>21 DEF LockToClear, ThreadAt, poolVars, ownerVars, loopVars, syncVars
<1>22. ASSUME NEW i \in Ids, ClearLoop(i) PROVE OwnerPlace'
  BY <1>22 DEF ClearLoop, ThreadAt, poolVars, ownerVars, loopVars, syncVars
<1>23. ASSUME NEW i \in Ids, ThreadFuncReturns(i) PROVE OwnerPlace'
  BY <1>23 DEF ThreadFuncReturns, ThreadAt, poolVars, ownerVars, loopVars, syncVars
<1>24. ASSUME NEW i \in Ids, UserQuits(i) PROVE OwnerPlace'
  BY <1>24 DEF UserQuits, poolVars, ownerVars, loopVars, syncVars
<1>u. ASSUME UNCHANGED vars PROVE OwnerPlace'
  BY <1>u DEF vars, poolVars, ownerVars, loopVars, syncVars
<1> QED
  BY <1>u, <1>1, <1>2, <1>3, <1>4, <1>5, <1>6, <1>7, <1>8, <1>9, <1>10, <1>11,
     <1>12, <1>13, <1>14, <1>15, <1>16, <1>17, <1>18, <1>19, <1>20,
     <1>21, <1>22, <1>23, <1>24
     DEF Next, OwnerProceeds, ThreadProceeds

(* ... and the threads' places: startLoop adds a loop only when it is     *)
(* published.                                                              *)
LEMMA ThreadStep ==
  ASSUME TypeOK, OwnerPlace, ThreadPlace, [Next]_vars
  PROVE  ThreadPlace'
<1> USE BoundsAssumption DEF TypeOK, OwnerPlace, Starting, ThreadPlace, Published, Ending, Ids, Loops, BaseLoop
<1>1. ASSUME StartThread PROVE ThreadPlace'
  <2>1. current' \in Ids /\ current' = size + 1
    BY <1>1 DEF StartThread
  <2>2. \A i \in Ids : tpc'[i] = IF i = size + 1 THEN "post" ELSE tpc[i]
    BY <1>1, <2>1 DEF StartThread
  <2>3. UNCHANGED <<loop_, loopExists, initialised, size>>
    BY <1>1 DEF StartThread, poolVars, loopVars
  <2> QED
    BY ONLY ThreadPlace, <1>1, <2>2, <2>3, size \in Nat DEF StartThread, Starting, Ids, ThreadPlace, Published, Ending
<1>2. ASSUME StartReturns PROVE ThreadPlace'
  BY <1>2 DEF StartReturns, poolVars, ownerVars, loopVars, syncVars
<1>3. ASSUME SemWait PROVE ThreadPlace'
  BY <1>3 DEF SemWait, poolVars, ownerVars, loopVars, syncVars
<1>4. ASSUME OwnerLocks PROVE ThreadPlace'
  BY <1>4 DEF OwnerLocks, poolVars, ownerVars, loopVars, syncVars
<1>5. ASSUME CheckLoop PROVE ThreadPlace'
  BY <1>5 DEF CheckLoop, MustWait, poolVars, ownerVars, loopVars, syncVars
<1>6. ASSUME CondWakes PROVE ThreadPlace'
  BY <1>6 DEF CondWakes, poolVars, ownerVars, loopVars, syncVars
<1>7. ASSUME TestLoop PROVE ThreadPlace'
  BY <1>7 DEF TestLoop, poolVars, ownerVars, loopVars, syncVars
<1>8. ASSUME QuitLoop PROVE ThreadPlace'
  BY <1>8 DEF QuitLoop, poolVars, ownerVars, loopVars, syncVars
<1>9. ASSUME Join PROVE ThreadPlace'
  BY <1>9 DEF Join, CanJoin, poolVars, ownerVars, loopVars, syncVars
<1>10. ASSUME PoolDestroyed PROVE ThreadPlace'
  BY <1>10 DEF PoolDestroyed, poolVars, ownerVars, loopVars, syncVars
<1>11. ASSUME CondWakesSpuriously PROVE ThreadPlace'
  BY <1>11 DEF CondWakesSpuriously, poolVars, ownerVars, loopVars, syncVars
<1>12. ASSUME GetNextLoop PROVE ThreadPlace'
  BY <1>12 DEF GetNextLoop, NextIndex, poolVars, ownerVars, loopVars, syncVars
<1>13. ASSUME BeginDestroy PROVE ThreadPlace'
  BY <1>13 DEF BeginDestroy, poolVars, ownerVars, loopVars, syncVars
<1>14. ASSUME NEW i \in Ids, PostSemaphore(i) PROVE ThreadPlace'
  BY <1>14 DEF PostSemaphore, ThreadAt, poolVars, ownerVars, loopVars, syncVars
<1>15. ASSUME NEW i \in Ids, ConstructLoop(i) PROVE ThreadPlace'
  BY <1>15 DEF ConstructLoop, ThreadAt, poolVars, ownerVars, loopVars, syncVars
<1>16. ASSUME NEW i \in Ids, InitCallback(i) PROVE ThreadPlace'
  BY <1>16 DEF InitCallback, ThreadAt, poolVars, ownerVars, loopVars, syncVars
<1>17. ASSUME NEW i \in Ids, LockToPublish(i) PROVE ThreadPlace'
  BY <1>17 DEF LockToPublish, ThreadAt, poolVars, ownerVars, loopVars, syncVars
<1>18. ASSUME NEW i \in Ids, Publish(i) PROVE ThreadPlace'
  BY <1>18 DEF Publish, Notify, ThreadAt, poolVars, ownerVars, loopVars, syncVars
<1>19. ASSUME NEW i \in Ids, EnterLoop(i) PROVE ThreadPlace'
  BY <1>19 DEF EnterLoop, ThreadAt, poolVars, ownerVars, loopVars, syncVars
<1>20. ASSUME NEW i \in Ids, LoopReturns(i) PROVE ThreadPlace'
  BY <1>20 DEF LoopReturns, ThreadAt, poolVars, ownerVars, loopVars, syncVars
<1>21. ASSUME NEW i \in Ids, LockToClear(i) PROVE ThreadPlace'
  BY <1>21 DEF LockToClear, ThreadAt, poolVars, ownerVars, loopVars, syncVars
<1>22. ASSUME NEW i \in Ids, ClearLoop(i) PROVE ThreadPlace'
  BY <1>22 DEF ClearLoop, ThreadAt, poolVars, ownerVars, loopVars, syncVars
<1>23. ASSUME NEW i \in Ids, ThreadFuncReturns(i) PROVE ThreadPlace'
  BY <1>23 DEF ThreadFuncReturns, ThreadAt, poolVars, ownerVars, loopVars, syncVars
<1>24. ASSUME NEW i \in Ids, UserQuits(i) PROVE ThreadPlace'
  BY <1>24 DEF UserQuits, poolVars, ownerVars, loopVars, syncVars
<1>u. ASSUME UNCHANGED vars PROVE ThreadPlace'
  BY <1>u DEF vars, poolVars, ownerVars, loopVars, syncVars
<1> QED
  BY <1>u, <1>1, <1>2, <1>3, <1>4, <1>5, <1>6, <1>7, <1>8, <1>9, <1>10, <1>11,
     <1>12, <1>13, <1>14, <1>15, <1>16, <1>17, <1>18, <1>19, <1>20,
     <1>21, <1>22, <1>23, <1>24
     DEF Next, OwnerProceeds, ThreadProceeds

(* A loop is told to quit before it ends.                                  *)
LEMMA EndStep ==
  ASSUME TypeOK, OwnerPlace, ThreadPlace, EndsWhenTold, [Next]_vars
  PROVE  EndsWhenTold'
<1> USE BoundsAssumption DEF TypeOK, OwnerPlace, Starting, ThreadPlace, EndsWhenTold, ToldToQuit, Published, Ending,
           Using, Ids, Loops, BaseLoop
<1>1. ASSUME StartThread PROVE EndsWhenTold'
  BY <1>1 DEF StartThread, poolVars, ownerVars, loopVars, syncVars
<1>2. ASSUME StartReturns PROVE EndsWhenTold'
  BY <1>2 DEF StartReturns, poolVars, ownerVars, loopVars, syncVars
<1>3. ASSUME SemWait PROVE EndsWhenTold'
  BY <1>3 DEF SemWait, poolVars, ownerVars, loopVars, syncVars
<1>4. ASSUME OwnerLocks PROVE EndsWhenTold'
  BY <1>4 DEF OwnerLocks, poolVars, ownerVars, loopVars, syncVars
<1>5. ASSUME CheckLoop PROVE EndsWhenTold'
  BY <1>5 DEF CheckLoop, MustWait, poolVars, ownerVars, loopVars, syncVars
<1>6. ASSUME CondWakes PROVE EndsWhenTold'
  BY <1>6 DEF CondWakes, poolVars, ownerVars, loopVars, syncVars
<1>7. ASSUME TestLoop PROVE EndsWhenTold'
  BY <1>7 DEF TestLoop, poolVars, ownerVars, loopVars, syncVars
<1>8. ASSUME QuitLoop PROVE EndsWhenTold'
  BY <1>8 DEF QuitLoop, poolVars, ownerVars, loopVars, syncVars
<1>9. ASSUME Join PROVE EndsWhenTold'
  BY <1>9 DEF Join, CanJoin, poolVars, ownerVars, loopVars, syncVars
<1>10. ASSUME PoolDestroyed PROVE EndsWhenTold'
  BY <1>10 DEF PoolDestroyed, poolVars, ownerVars, loopVars, syncVars
<1>11. ASSUME CondWakesSpuriously PROVE EndsWhenTold'
  BY <1>11 DEF CondWakesSpuriously, poolVars, ownerVars, loopVars, syncVars
<1>12. ASSUME GetNextLoop PROVE EndsWhenTold'
  BY <1>12 DEF GetNextLoop, NextIndex, poolVars, ownerVars, loopVars, syncVars
<1>13. ASSUME BeginDestroy PROVE EndsWhenTold'
  BY <1>13 DEF BeginDestroy, poolVars, ownerVars, loopVars, syncVars
<1>14. ASSUME NEW i \in Ids, PostSemaphore(i) PROVE EndsWhenTold'
  BY <1>14 DEF PostSemaphore, ThreadAt, poolVars, ownerVars, loopVars, syncVars
<1>15. ASSUME NEW i \in Ids, ConstructLoop(i) PROVE EndsWhenTold'
  BY <1>15 DEF ConstructLoop, ThreadAt, poolVars, ownerVars, loopVars, syncVars
<1>16. ASSUME NEW i \in Ids, InitCallback(i) PROVE EndsWhenTold'
  BY <1>16 DEF InitCallback, ThreadAt, poolVars, ownerVars, loopVars, syncVars
<1>17. ASSUME NEW i \in Ids, LockToPublish(i) PROVE EndsWhenTold'
  BY <1>17 DEF LockToPublish, ThreadAt, poolVars, ownerVars, loopVars, syncVars
<1>18. ASSUME NEW i \in Ids, Publish(i) PROVE EndsWhenTold'
  BY <1>18 DEF Publish, Notify, ThreadAt, poolVars, ownerVars, loopVars, syncVars
<1>19. ASSUME NEW i \in Ids, EnterLoop(i) PROVE EndsWhenTold'
  BY <1>19 DEF EnterLoop, ThreadAt, poolVars, ownerVars, loopVars, syncVars
<1>20. ASSUME NEW i \in Ids, LoopReturns(i) PROVE EndsWhenTold'
  BY <1>20 DEF LoopReturns, ThreadAt, poolVars, ownerVars, loopVars, syncVars
<1>21. ASSUME NEW i \in Ids, LockToClear(i) PROVE EndsWhenTold'
  BY <1>21 DEF LockToClear, ThreadAt, poolVars, ownerVars, loopVars, syncVars
<1>22. ASSUME NEW i \in Ids, ClearLoop(i) PROVE EndsWhenTold'
  BY <1>22 DEF ClearLoop, ThreadAt, poolVars, ownerVars, loopVars, syncVars
<1>23. ASSUME NEW i \in Ids, ThreadFuncReturns(i) PROVE EndsWhenTold'
  BY <1>23 DEF ThreadFuncReturns, ThreadAt, poolVars, ownerVars, loopVars, syncVars
<1>24. ASSUME NEW i \in Ids, UserQuits(i) PROVE EndsWhenTold'
  BY <1>24 DEF UserQuits, poolVars, ownerVars, loopVars, syncVars
<1>u. ASSUME UNCHANGED vars PROVE EndsWhenTold'
  BY <1>u DEF vars, poolVars, ownerVars, loopVars, syncVars
<1> QED
  BY <1>u, <1>1, <1>2, <1>3, <1>4, <1>5, <1>6, <1>7, <1>8, <1>9, <1>10, <1>11,
     <1>12, <1>13, <1>14, <1>15, <1>16, <1>17, <1>18, <1>19, <1>20,
     <1>21, <1>22, <1>23, <1>24
     DEF Next, OwnerProceeds, ThreadProceeds

(* The loops are handed out in turn.                                       *)
LEMMA RoundRobinStep ==
  ASSUME TypeOK, OwnerPlace, RoundRobin, [Next]_vars
  PROVE  RoundRobin'
<1> USE BoundsAssumption DEF TypeOK, OwnerPlace, Starting, RoundRobin, Ids, Loops, BaseLoop
<1>1. ASSUME StartThread PROVE RoundRobin'
  BY <1>1 DEF StartThread, Ahead, poolVars, ownerVars, loopVars, syncVars
<1>2. ASSUME StartReturns PROVE RoundRobin'
  BY <1>2 DEF StartReturns, Ahead, poolVars, ownerVars, loopVars, syncVars
<1>3. ASSUME SemWait PROVE RoundRobin'
  BY <1>3 DEF SemWait, Ahead, poolVars, ownerVars, loopVars, syncVars
<1>4. ASSUME OwnerLocks PROVE RoundRobin'
  BY <1>4 DEF OwnerLocks, Ahead, poolVars, ownerVars, loopVars, syncVars
<1>5. ASSUME CheckLoop PROVE RoundRobin'
  BY <1>5 DEF CheckLoop, MustWait, Ahead, poolVars, ownerVars, loopVars, syncVars
<1>6. ASSUME CondWakes PROVE RoundRobin'
  BY <1>6 DEF CondWakes, Ahead, poolVars, ownerVars, loopVars, syncVars
<1>7. ASSUME TestLoop PROVE RoundRobin'
  BY <1>7 DEF TestLoop, Ahead, poolVars, ownerVars, loopVars, syncVars
<1>8. ASSUME QuitLoop PROVE RoundRobin'
  BY <1>8 DEF QuitLoop, Ahead, poolVars, ownerVars, loopVars, syncVars
<1>9. ASSUME Join PROVE RoundRobin'
  BY <1>9 DEF Join, CanJoin, Ahead, poolVars, ownerVars, loopVars, syncVars
<1>10. ASSUME PoolDestroyed PROVE RoundRobin'
  BY <1>10 DEF PoolDestroyed, Ahead, poolVars, ownerVars, loopVars, syncVars
<1>11. ASSUME CondWakesSpuriously PROVE RoundRobin'
  BY <1>11 DEF CondWakesSpuriously, Ahead, poolVars, ownerVars, loopVars, syncVars
<1>12. ASSUME GetNextLoop PROVE RoundRobin'
  <2> USE <1>12 DEF GetNextLoop
  <2>1. size = numThreads_ /\ UNCHANGED <<size, numThreads_>>
    OBVIOUS
  <2>2. CASE size = 0
    BY <2>1, <2>2
  <2>3. CASE size # 0
    <3>1. next_ + 1 \in 1 .. size /\ next_ \in 0 .. size - 1
      BY <2>3
    <3>2. \A i \in Loops : handedOut'[i] = IF i = next_ + 1 THEN handedOut[i] + 1 ELSE handedOut[i]
      BY <2>3, <3>1
    <3>3. next_' = IF next_ + 1 = size THEN 0 ELSE next_ + 1
      BY <2>3, <3>1 DEF NextIndex
    <3>4. \A i, j \in 1 .. size : handedOut'[i] - handedOut'[j] = Ahead(i)' - Ahead(j)'
      <4> SUFFICES ASSUME NEW i \in 1 .. size, NEW j \in 1 .. size
                   PROVE  handedOut'[i] - handedOut'[j] = Ahead(i)' - Ahead(j)'
        OBVIOUS
      <4>1. handedOut[i] \in Nat /\ handedOut[j] \in Nat
        OBVIOUS
      <4>2. handedOut[i] - handedOut[j] = Ahead(i) - Ahead(j)
        OBVIOUS
      <4>3. handedOut'[i] = (IF i = next_ + 1 THEN handedOut[i] + 1 ELSE handedOut[i])
              /\ handedOut'[j] = (IF j = next_ + 1 THEN handedOut[j] + 1 ELSE handedOut[j])
        BY <3>2
      <4> QED
        BY ONLY <3>1, <3>3, <4>1, <4>2, <4>3, size \in Nat, i \in 1 .. size, j \in 1 .. size
           DEF Ahead
    <3> QED
      BY <2>1, <3>1, <3>2, <3>4
  <2> QED
    BY <2>2, <2>3
<1>13. ASSUME BeginDestroy PROVE RoundRobin'
  BY <1>13 DEF BeginDestroy, Ahead, poolVars, ownerVars, loopVars, syncVars
<1>14. ASSUME NEW i \in Ids, PostSemaphore(i) PROVE RoundRobin'
  BY <1>14 DEF PostSemaphore, ThreadAt, Ahead, poolVars, ownerVars, loopVars, syncVars
<1>15. ASSUME NEW i \in Ids, ConstructLoop(i) PROVE RoundRobin'
  BY <1>15 DEF ConstructLoop, ThreadAt, Ahead, poolVars, ownerVars, loopVars, syncVars
<1>16. ASSUME NEW i \in Ids, InitCallback(i) PROVE RoundRobin'
  BY <1>16 DEF InitCallback, ThreadAt, Ahead, poolVars, ownerVars, loopVars, syncVars
<1>17. ASSUME NEW i \in Ids, LockToPublish(i) PROVE RoundRobin'
  BY <1>17 DEF LockToPublish, ThreadAt, Ahead, poolVars, ownerVars, loopVars, syncVars
<1>18. ASSUME NEW i \in Ids, Publish(i) PROVE RoundRobin'
  BY <1>18 DEF Publish, Notify, ThreadAt, Ahead, poolVars, ownerVars, loopVars, syncVars
<1>19. ASSUME NEW i \in Ids, EnterLoop(i) PROVE RoundRobin'
  BY <1>19 DEF EnterLoop, ThreadAt, Ahead, poolVars, ownerVars, loopVars, syncVars
<1>20. ASSUME NEW i \in Ids, LoopReturns(i) PROVE RoundRobin'
  BY <1>20 DEF LoopReturns, ThreadAt, Ahead, poolVars, ownerVars, loopVars, syncVars
<1>21. ASSUME NEW i \in Ids, LockToClear(i) PROVE RoundRobin'
  BY <1>21 DEF LockToClear, ThreadAt, Ahead, poolVars, ownerVars, loopVars, syncVars
<1>22. ASSUME NEW i \in Ids, ClearLoop(i) PROVE RoundRobin'
  BY <1>22 DEF ClearLoop, ThreadAt, Ahead, poolVars, ownerVars, loopVars, syncVars
<1>23. ASSUME NEW i \in Ids, ThreadFuncReturns(i) PROVE RoundRobin'
  BY <1>23 DEF ThreadFuncReturns, ThreadAt, Ahead, poolVars, ownerVars, loopVars, syncVars
<1>24. ASSUME NEW i \in Ids, UserQuits(i) PROVE RoundRobin'
  BY <1>24 DEF UserQuits, Ahead, poolVars, ownerVars, loopVars, syncVars
<1>u. ASSUME UNCHANGED vars PROVE RoundRobin'
  BY <1>u DEF vars, Ahead, poolVars, ownerVars, loopVars, syncVars
<1> QED
  BY <1>u, <1>1, <1>2, <1>3, <1>4, <1>5, <1>6, <1>7, <1>8, <1>9, <1>10, <1>11,
     <1>12, <1>13, <1>14, <1>15, <1>16, <1>17, <1>18, <1>19, <1>20,
     <1>21, <1>22, <1>23, <1>24
     DEF Next, OwnerProceeds, ThreadProceeds

(* Where the destructor reads loop_ again, it is still set, and a thread   *)
(* that is not done has its EventLoopThread.                               *)
LEMMA DestructionStep ==
  ASSUME TypeOK, OwnerPlace, ThreadPlace, EndsWhenTold, NoUseAfterDestruction, [Next]_vars
  PROVE  NoUseAfterDestruction'
<1> USE BoundsAssumption DEF TypeOK, OwnerPlace, Starting, ThreadPlace, EndsWhenTold, ToldToQuit, Published, Ending,
           Using, Ids, Loops, BaseLoop, NoUseAfterDestruction
<1>1. ASSUME StartThread PROVE NoUseAfterDestruction'
  BY <1>1 DEF StartThread, poolVars, ownerVars, loopVars, syncVars
<1>2. ASSUME StartReturns PROVE NoUseAfterDestruction'
  BY <1>2 DEF StartReturns, poolVars, ownerVars, loopVars, syncVars
<1>3. ASSUME SemWait PROVE NoUseAfterDestruction'
  BY <1>3 DEF SemWait, poolVars, ownerVars, loopVars, syncVars
<1>4. ASSUME OwnerLocks PROVE NoUseAfterDestruction'
  BY <1>4 DEF OwnerLocks, poolVars, ownerVars, loopVars, syncVars
<1>5. ASSUME CheckLoop PROVE NoUseAfterDestruction'
  BY <1>5 DEF CheckLoop, MustWait, poolVars, ownerVars, loopVars, syncVars
<1>6. ASSUME CondWakes PROVE NoUseAfterDestruction'
  BY <1>6 DEF CondWakes, poolVars, ownerVars, loopVars, syncVars
<1>7. ASSUME TestLoop PROVE NoUseAfterDestruction'
  BY <1>7 DEF TestLoop, poolVars, ownerVars, loopVars, syncVars
<1>8. ASSUME QuitLoop PROVE NoUseAfterDestruction'
  BY <1>8 DEF QuitLoop, poolVars, ownerVars, loopVars, syncVars
<1>9. ASSUME Join PROVE NoUseAfterDestruction'
  BY <1>9 DEF Join, CanJoin, poolVars, ownerVars, loopVars, syncVars
<1>10. ASSUME PoolDestroyed PROVE NoUseAfterDestruction'
  BY <1>10 DEF PoolDestroyed, poolVars, ownerVars, loopVars, syncVars
<1>11. ASSUME CondWakesSpuriously PROVE NoUseAfterDestruction'
  BY <1>11 DEF CondWakesSpuriously, poolVars, ownerVars, loopVars, syncVars
<1>12. ASSUME GetNextLoop PROVE NoUseAfterDestruction'
  BY <1>12 DEF GetNextLoop, NextIndex, poolVars, ownerVars, loopVars, syncVars
<1>13. ASSUME BeginDestroy PROVE NoUseAfterDestruction'
  BY <1>13 DEF BeginDestroy, poolVars, ownerVars, loopVars, syncVars
<1>14. ASSUME NEW i \in Ids, PostSemaphore(i) PROVE NoUseAfterDestruction'
  BY <1>14 DEF PostSemaphore, ThreadAt, poolVars, ownerVars, loopVars, syncVars
<1>15. ASSUME NEW i \in Ids, ConstructLoop(i) PROVE NoUseAfterDestruction'
  BY <1>15 DEF ConstructLoop, ThreadAt, poolVars, ownerVars, loopVars, syncVars
<1>16. ASSUME NEW i \in Ids, InitCallback(i) PROVE NoUseAfterDestruction'
  BY <1>16 DEF InitCallback, ThreadAt, poolVars, ownerVars, loopVars, syncVars
<1>17. ASSUME NEW i \in Ids, LockToPublish(i) PROVE NoUseAfterDestruction'
  BY <1>17 DEF LockToPublish, ThreadAt, poolVars, ownerVars, loopVars, syncVars
<1>18. ASSUME NEW i \in Ids, Publish(i) PROVE NoUseAfterDestruction'
  BY <1>18 DEF Publish, Notify, ThreadAt, poolVars, ownerVars, loopVars, syncVars
<1>19. ASSUME NEW i \in Ids, EnterLoop(i) PROVE NoUseAfterDestruction'
  BY <1>19 DEF EnterLoop, ThreadAt, poolVars, ownerVars, loopVars, syncVars
<1>20. ASSUME NEW i \in Ids, LoopReturns(i) PROVE NoUseAfterDestruction'
  BY <1>20 DEF LoopReturns, ThreadAt, poolVars, ownerVars, loopVars, syncVars
<1>21. ASSUME NEW i \in Ids, LockToClear(i) PROVE NoUseAfterDestruction'
  BY <1>21 DEF LockToClear, ThreadAt, poolVars, ownerVars, loopVars, syncVars
<1>22. ASSUME NEW i \in Ids, ClearLoop(i) PROVE NoUseAfterDestruction'
  BY <1>22 DEF ClearLoop, ThreadAt, poolVars, ownerVars, loopVars, syncVars
<1>23. ASSUME NEW i \in Ids, ThreadFuncReturns(i) PROVE NoUseAfterDestruction'
  BY <1>23 DEF ThreadFuncReturns, ThreadAt, poolVars, ownerVars, loopVars, syncVars
<1>24. ASSUME NEW i \in Ids, UserQuits(i) PROVE NoUseAfterDestruction'
  BY <1>24 DEF UserQuits, poolVars, ownerVars, loopVars, syncVars
<1>u. ASSUME UNCHANGED vars PROVE NoUseAfterDestruction'
  BY <1>u DEF vars, poolVars, ownerVars, loopVars, syncVars
<1> QED
  BY <1>u, <1>1, <1>2, <1>3, <1>4, <1>5, <1>6, <1>7, <1>8, <1>9, <1>10, <1>11,
     <1>12, <1>13, <1>14, <1>15, <1>16, <1>17, <1>18, <1>19, <1>20,
     <1>21, <1>22, <1>23, <1>24
     DEF Next, OwnerProceeds, ThreadProceeds

-----------------------------------------------------------------------------
LEMMA Invariance == Spec => []IInv
<1>1. IInv /\ [Next]_vars => IInv'
  BY TypeStep, OwnerStep, ThreadStep, EndStep, RoundRobinStep, DestructionStep DEF IInv
<1> QED
  BY <1>1, InitInvariant, PTL DEF Spec

(* The variables keep their types, next_ an index of loops_.               *)
THEOREM TypeCorrect == Spec => []TypeOK
<1>1. IInv => TypeOK
  BY DEF IInv
<1> QED
  BY <1>1, Invariance, PTL

(* EventLoopThread::startLoop and getNextLoop: only initialised loops that *)
(* live are handed out, and each in its turn.                              *)
THEOREM LoopsAreReady == Spec => []LoopsHandedOut
<1>1. IInv => LoopsHandedOut
  <2> SUFFICES ASSUME IInv PROVE LoopsHandedOut
    OBVIOUS
  <2> USE BoundsAssumption DEF IInv, TypeOK, Ids, Loops, BaseLoop
  <2>1. \A i \in 1 .. size : initialised[i] /\ (opc \in Using /\ ~userQuit => loopExists[i])
    BY DEF ThreadPlace, EndsWhenTold, ToldToQuit, Published, Ending
  <2>2. \A i \in Loops : handedOut[i] > 0 => initialised[i]
    BY <2>1 DEF RoundRobin, OwnerPlace, Starting
  <2>3. HandedOutEvenly
    <3>1. \A i, j \in 1 .. size : Ahead(i) - Ahead(j) <= 1
      BY DEF Ahead
    <3> QED
      BY <3>1 DEF RoundRobin, HandedOutEvenly
  <2> QED
    BY <2>1, <2>2, <2>3 DEF LoopsHandedOut, LoopsReady
<1> QED
  BY <1>1, Invariance, PTL

(* ~EventLoopThread reads loop_ twice without the mutex: neither read is   *)
(* of a null pointer, nor does a thread touch a destroyed EventLoopThread, *)
(* if the user quits no loop of the pool.                                  *)
THEOREM DestructionSafe == Spec => []NoUseAfterDestruction
<1>1. IInv => NoUseAfterDestruction
  BY DEF IInv
<1> QED
  BY <1>1, Invariance, PTL

=============================================================================
