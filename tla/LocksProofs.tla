----------------------------- MODULE LocksProofs -----------------------------
(***************************************************************************)
(* The lock and the condition variable, for every number of threads, every *)
(* client of AllLockOps, with or without the timer.                        *)
(*                                                                         *)
(* The invariant of the thread library (IInv of ThreadsProofs) holds of    *)
(* the steps of this module too: a lock is only one more place to sleep.   *)
(* What holds of the lock itself rests on it at two points: thread_sleep   *)
(* inside lock_acquire really leaves the processor, and a thread that      *)
(* waits for the lock sleeps in no other queue.                            *)
(***************************************************************************)
EXTENDS Locks, ThreadsProofs

-----------------------------------------------------------------------------
(* The library keeps its invariant.                                        *)

(* The queues of the lock and of the condition variable are client queues.  *)
LEMMA LockQueues == lockQ \in Queues /\ cvQ \in Queues /\ lockQ # cvQ
  BY LockQueuesAssumption

(* Where lock_acquire begins, its caller holds the processor.               *)
LEMMA AcquireBegins ==
  ASSUME IInv, InAcquire
  PROVE  /\ pc[current] \in {"user", "lockWait", "cvAcquire"}
         /\ state[current] \in Schedulable
<1>1. pc[current] \in {"user", "lockWait", "cvAcquire"}
  BY DEF InAcquire, Entering, At
<1> QED
  BY <1>1 DEF IInv, DozerLeaves, Dozing

(* lock_acquire gets the lock.                                              *)
LEMMA AcquireTakeInv ==
  ASSUME IInv, AcquireTake
  PROVE  IInv'
<1>1. pc[current] \notin {"exit"} \cup Dozing
  BY AcquireBegins DEF AcquireTake, Dozing
<1>2. /\ Goto("user")
      /\ UNCHANGED <<state, current, readyQ, nums, wq, clientQ, exitCode, waitingOn,
                     target, held, halted>>
  BY DEF AcquireTake, slotVars
<1>3. "user" \in Labels \ ({"stub", "exit"} \cup Dozing) /\ "user" \notin WaitLabels
  BY DEF Labels, PC, Dozing, WaitLabels
<1> QED
  BY <1>1, <1>2, <1>3, LocalInv DEF IInv, Typed

(* lock_acquire sleeps: there is a thread to switch to.                     *)
LEMMA AcquireSleepInv ==
  ASSUME IInv, AcquireSleep
  PROVE  IInv'
<1> DEFINE st == [state EXCEPT ![current] = "SLEEP"]
           cqs == [clientQ EXCEPT ![lockQ] = Append(@, current)]
           cont == [pc EXCEPT ![current] = "lockWait"]
<1>1. /\ nums # 1 /\ clientQ' = cqs /\ nums' = nums - 1
      /\ Switch(Head(readyQ), Tail(readyQ), st, wq, cont)
      /\ UNCHANGED <<exitCode, waitingOn, target, halted>>
  BY DEF AcquireSleep, CanSleep, slotVars
<1>2. /\ Typed /\ current \in Tid /\ readyQ \in Seq(Tid) /\ wq \in [Tid -> Seq(Tid)]
      /\ nums \in Int /\ Len(readyQ) \in Nat
  BY DEF IInv, Typed
<1>3. state[current] \in Schedulable
  BY AcquireBegins DEF AcquireSleep
<1>4. /\ cont \in [Tid -> Labels] /\ cont[current] = "lockWait"
      /\ \A u \in Tid \ {current} : cont[u] = pc[u]
  BY <1>2 DEF Typed, Labels
<1>5. /\ cqs \in [Queues -> Seq(Tid)] /\ st \in [Tid -> ThreadState]
      /\ Placed(st, current, readyQ, wq, cqs) /\ NoneGone(readyQ, wq, cqs, cont)
  BY <1>3, <1>4, JoinFacts, LockQueues
<1>6. nums = Len(readyQ) + 1
  BY <1>3 DEF IInv, NumsExact
<1>7. readyQ # <<>>
  BY <1>1, <1>6
<1>8. st[current] = "SLEEP"
  BY <1>2, SMTT(30) DEF Typed
<1> HIDE DEF st, cqs, cont
<1>9. /\ state' \in [Tid -> ThreadState] /\ current' \in Tid
      /\ readyQ' \in Seq(Tid) /\ wq' \in [Tid -> Seq(Tid)] /\ pc' \in [Tid -> Labels]
      /\ Placed(state', current', readyQ', wq', cqs)
      /\ NoneGone(readyQ', wq', cqs, pc')
      /\ state'[current'] \in Schedulable
      /\ pc'[current'] \notin {"stub", "exit"}
      /\ \A u \in Tid : pc'[u] = cont[u] \/ pc'[u] = "user"
      /\ Len(readyQ') + 1 = Len(readyQ) + (IF st[current] = "RUNNING" THEN 1 ELSE 0)
  BY <1>1, <1>2, <1>4, <1>5, <1>7, <1>8, NextReady, SwitchFacts, Zenon
<1>10. Typed'
  <2>1. held' \in [Tid -> Hold]
    BY <1>1, <1>2, SwitchHeld
  <2> QED
    BY <1>1, <1>2, <1>5, <1>9, <2>1, SMTT(30) DEF Typed
<1>11. NumsExact'
  BY <1>1, <1>2, <1>6, <1>8, <1>9 DEF NumsExact
<1>12. DozerLeaves' /\ OnePlace'
  BY <1>1, <1>9 DEF DozerLeaves, OnePlace, Schedulable
<1>13. PcInv'
  <2>1. NoneGone(readyQ', wq', clientQ', pc')
    BY <1>1, <1>9
  <2>2. \A u \in Tid : pc'[u] \in WaitLabels => target'[u] \in Tid
    BY <1>1, <1>4, <1>9 DEF IInv, PcInv, WaitLabels
  <2> QED
    BY <1>9, <2>1, <2>2 DEF PcInv, Schedulable
<1> QED
  BY <1>10, <1>11, <1>12, <1>13 DEF IInv

(* lock_release, also inside cv_wait; cv_signal and cv_broadcast.           *)
LEMMA LockWakeInv ==
  ASSUME IInv, Release \/ CvWait \/ CvSignal \/ CvBroadcast
  PROVE  IInv'
<1>1. /\ Len(clientQ[lockQ]) \in 0 .. Len(clientQ[lockQ])
      /\ Len(clientQ[cvQ]) \in 0 .. Len(clientQ[cvQ])
      /\ 0 \in 0 .. Len(clientQ[cvQ])
      /\ clientQ[cvQ] # <<>> => 1 \in 0 .. Len(clientQ[cvQ])
  <2>1. clientQ[lockQ] \in Seq(Tid) /\ clientQ[cvQ] \in Seq(Tid)
    BY QueueFacts, LockQueues
  <2> QED
    BY <2>1
<1>2. pc[current] = "user"
  BY DEF Release, CvWait, CvSignal, CvBroadcast, At
<1>3. UNCHANGED pc \/ Goto("cvGap")
  BY DEF Release, CvWait, CvSignal, CvBroadcast
<1>4. CASE Release \/ CvWait
  BY <1>1, <1>2, <1>3, <1>4, LockQueues, WakeInv DEF Release, CvWait, FreeLock, ToWake
<1>5. CASE CvSignal \/ CvBroadcast
  BY <1>1, <1>2, <1>3, <1>5, LockQueues, WakeInv DEF CvSignal, CvBroadcast
<1> QED
  BY <1>4, <1>5

(* cv_wait between its two locks, and cv_destroy.                           *)
LEMMA CvSleepNoneInv ==
  ASSUME IInv, CvSleepNone
  PROVE  IInv'
<1>1. /\ pc[current] = "cvGap" /\ Goto("cvAcquire")
      /\ UNCHANGED <<state, current, readyQ, nums, wq, clientQ, exitCode, waitingOn,
                     target, held, halted>>
  BY DEF CvSleepNone, slotVars, At
<1>2. /\ "cvAcquire" \in Labels \ ({"stub", "exit"} \cup Dozing)
      /\ "cvAcquire" \notin WaitLabels /\ "cvGap" \notin {"exit"} \cup Dozing
  BY DEF Labels, PC, Dozing, WaitLabels
<1> QED
  BY <1>1, <1>2, LocalInv DEF IInv, Typed

(* cv_wait goes to sleep, and wakes up or dies.                             *)
LEMMA CvSleepInv ==
  ASSUME IInv, CvSleep \/ CvSleepYield \/ CvSleepKilled
  PROVE  IInv'
<1>1. CASE CvSleep
  BY <1>1, LockQueues, FallAsleepInv DEF CvSleep, At, Dozing
<1>2. CASE CvSleepYield
  <2> DEFINE cont == [pc EXCEPT ![current] = "cvAcquire"]
  <2>1. /\ pc[current] = "cvSleeping" /\ state[current] # "KILLED"
        /\ IF readyQ = <<>>
           THEN pc' = cont /\ UNCHANGED <<state, current, readyQ, wq, held>>
           ELSE Switch(Head(readyQ), Tail(readyQ), state, wq, cont)
        /\ SwitchKeeps
    BY <1>2 DEF CvSleepYield, At
  <2>2. /\ cont \in [Tid -> Labels] /\ cont[current] = "cvAcquire"
        /\ \A u \in Tid \ {current} : cont[u] = pc[u]
    BY DEF IInv, Typed, Labels
  <2> HIDE DEF cont
  <2> QED
    BY <2>1, <2>2, DozeEndsInv DEF Dozing
<1>3. CASE CvSleepKilled
  BY <1>3, ExitInv DEF CvSleepKilled, Schedulable
<1> QED
  BY <1>1, <1>2, <1>3

(* Who slept in the queue of the condition variable sleeps in none then.    *)
LEMMA CvDestroyInv ==
  ASSUME IInv, CvDestroy
  PROVE  IInv'
<1>1. /\ clientQ' = [clientQ EXCEPT ![cvQ] = <<>>]
      /\ UNCHANGED <<state, current, readyQ, nums, wq, exitCode, waitingOn, target, held,
                     halted, pc>>
  BY DEF CvDestroy, slotVars
<1>2. Range(<<>>) = {} /\ IsInjective(<<>>) /\ <<>> \in Seq(Tid)
  BY DEF Range, IsInjective
<1>3. /\ clientQ \in [Queues -> Seq(Tid)] /\ clientQ'[cvQ] = <<>>
      /\ \A q \in Queues \ {cvQ} : clientQ'[q] = clientQ[q]
  BY <1>1, LockQueues DEF IInv, Typed
<1>4. \A q \in Queues : /\ Range(clientQ'[q]) \subseteq Range(clientQ[q])
                        /\ IsInjective(clientQ[q]) => IsInjective(clientQ'[q])
  BY <1>2, <1>3
<1>5. Typed' /\ NumsExact' /\ DozerLeaves'
  BY <1>1, <1>2 DEF IInv, Typed, NumsExact, DozerLeaves
<1>6. OnePlace'
  <2>1. Placed(state, current, readyQ, wq, clientQ)
    BY QueueFacts
  <2>2. Placed(state, current, readyQ, wq, clientQ')
    BY <1>4, <2>1 DEF Placed
  <2> QED
    BY <1>1, <2>2 DEF OnePlace
<1>7. PcInv'
  <2>1. NoneGone(readyQ, wq, clientQ', pc)
    BY <1>4 DEF IInv, PcInv, NoneGone
  <2> QED
    BY <1>1, <2>1 DEF IInv, PcInv
<1> QED
  BY <1>5, <1>6, <1>7 DEF IInv

(* Every step of Locks keeps the invariant of the library.                  *)
LEMMA LockNextInv == IInv /\ [LNext]_lvars => IInv'
<1> SUFFICES ASSUME IInv, [LNext]_lvars PROVE IInv'
  OBVIOUS
<1>1. CASE AcquireTake \/ AcquireSleep
  BY <1>1, AcquireTakeInv, AcquireSleepInv
<1>2. CASE AcquireSpin
  BY <1>2, HaltInv DEF AcquireSpin, Halts
<1>3. CASE Release \/ CvWait \/ CvSignal \/ CvBroadcast
  BY <1>3, LockWakeInv
<1>4. CASE CvSleep \/ CvSleepNone \/ CvSleepYield \/ CvSleepKilled \/ CvDestroy
  BY <1>4, CvSleepNoneInv, CvSleepInv, CvDestroyInv
<1>5. CASE ThreadStep \/ UNCHANGED lvars
  BY <1>5, NextInv DEF ThreadStep, lvars
<1> QED
  BY <1>1, <1>2, <1>3, <1>4, <1>5 DEF LNext

(* The invariant of the thread library holds under locks.                   *)
THEOREM LockInvariance == LSpec => []IInv
  BY InitInv, LockNextInv, PTL DEF LSpec, LInit


-----------------------------------------------------------------------------
(* The lock.                                                               *)

(* The threads alone do not touch the queues of the lock: their client      *)
(* calls thread_sleep and thread_wakeup on no queue of its own.             *)
LEMMA ThreadsLeaveQueues ==
  ASSUME Next
  PROVE  clientQ' = clientQ
<1>1. ~Sleep /\ ~WakeupOne /\ ~WakeupAll
  BY LockOpsAssumption DEF Sleep, WakeupOne, WakeupAll
<1>2. CASE YieldKilled \/ PreemptKilled \/ ThreadExit \/ SleepKilled \/ WaitKilled
  BY <1>2 DEF YieldKilled, PreemptKilled, ThreadExit, SleepKilled, WaitKilled, Exit,
              HaltAs, BecomeExited
<1>3. CASE \/ YieldAny \/ YieldTo \/ Preempt \/ ExitYield \/ SleepYield
  BY <1>3 DEF YieldAny, YieldTo, Preempt, ExitYield, SleepYield, SwitchKeeps
<1>4. CASE ExitProcess \/ KillSleeperFails \/ WaitNull \/ WaitSleepWild
  BY <1>4 DEF ExitProcess, KillSleeperFails, WaitNull, WaitSleepWild, HaltAs
<1>5. CASE \/ Create \/ CreateNoMemory \/ KillAwake \/ KillWaiter \/ KillLost \/ Stopped
  BY <1>5 DEF Create, CreateNoMemory, KillAwake, KillWaiter, KillLost, Stopped, vars
<1>6. CASE \/ Wait \/ WaitTake \/ WaitReset \/ WaitInvalid \/ WaitCommit \/ WaitSleep
           \/ WaitSleepLost \/ WaitSleepNone \/ WaitCollect \/ WaitTooLate
  BY <1>6 DEF Wait, WaitTake, WaitReset, WaitInvalid, WaitCommit, WaitSleep,
              WaitSleepLost, WaitSleepNone, WaitCollect, WaitTooLate
<1> QED
  BY <1>1, <1>2, <1>3, <1>4, <1>5, <1>6 DEF Next

(* lock_release leaves nobody in the queue.                                 *)
LEMMA FreeLockEmpties ==
  ASSUME IInv, FreeLock
  PROVE  clientQ'[lockQ] = <<>>
<1>1. clientQ \in [Queues -> Seq(Tid)]
  BY DEF IInv, Typed
<1>2. clientQ'[lockQ] = SubSeq(clientQ[lockQ], Len(clientQ[lockQ]) + 1, Len(clientQ[lockQ]))
  BY <1>1, LockQueues DEF FreeLock, WakeFrom, ToWake
<1>3. clientQ[lockQ] \in Seq(Tid)
  BY <1>1, LockQueues
<1> QED
  BY <1>2, <1>3

(* Every step keeps: who sleeps for the lock finds it taken.                *)
LEMMA SleepersNext ==
  IInv /\ NobodySleepsForFreeLock /\ [LNext]_lvars => NobodySleepsForFreeLock'
<1> SUFFICES ASSUME IInv, NobodySleepsForFreeLock, [LNext]_lvars
             PROVE  NobodySleepsForFreeLock'
  OBVIOUS
<1>1. CASE AcquireTake \/ AcquireSleep
  BY <1>1 DEF AcquireTake, AcquireSleep, lockVars, NobodySleepsForFreeLock
<1>2. CASE Release \/ CvWait
  BY <1>2, FreeLockEmpties DEF Release, CvWait, NobodySleepsForFreeLock
<1>3. CASE CvSleep \/ CvSignal \/ CvBroadcast \/ CvDestroy
  <2>1. clientQ \in [Queues -> Seq(Tid)]
    BY DEF IInv, Typed
  <2>2. PICK new : clientQ' = [clientQ EXCEPT ![cvQ] = new]
    BY <1>3 DEF CvSleep, CvSignal, CvBroadcast, CvDestroy, WakeFrom
  <2>3. clientQ'[lockQ] = clientQ[lockQ]
    BY <2>1, <2>2, LockQueues
  <2> QED
    BY <1>3, <2>3 DEF CvSleep, CvSignal, CvBroadcast, CvDestroy, lockVars,
                      NobodySleepsForFreeLock
<1>4. CASE AcquireSpin \/ CvSleepNone \/ CvSleepYield \/ CvSleepKilled
  BY <1>4 DEF AcquireSpin, HaltAs, CvSleepNone, CvSleepYield, SwitchKeeps, CvSleepKilled,
              Exit, BecomeExited, lockVars, NobodySleepsForFreeLock
<1>5. CASE ThreadStep
  BY <1>5, ThreadsLeaveQueues DEF ThreadStep, NobodySleepsForFreeLock
<1>6. CASE UNCHANGED lvars
  BY <1>6 DEF lvars, vars, lockVars, NobodySleepsForFreeLock
<1> QED
  BY <1>1, <1>2, <1>3, <1>4, <1>5, <1>6 DEF LNext

(* No wakeup of lock_release is lost, whatever the client does.             *)
THEOREM NoLostWakeup == LSpec => []NobodySleepsForFreeLock
<1>1. LInit => NobodySleepsForFreeLock
  BY LockQueues DEF LInit, Init, NobodySleepsForFreeLock
<1> QED
  BY <1>1, SleepersNext, LockInvariance, PTL DEF LSpec

(* Every step of a client that releases only what it holds keeps mutual     *)
(* exclusion.                                                               *)
LEMMA ExclusionNext ==
  ASSUME Disciplined, MutualExclusion, [LNext]_lvars
  PROVE  MutualExclusion'
<1>1. CASE AcquireTake
  BY <1>1 DEF AcquireTake, LockTaken, MutualExclusion
<1>2. CASE Release
  BY <1>2 DEF Release, FreeLock, MutualExclusion
<1>3. CASE CvWait
  BY <1>3 DEF CvWait, Holds, FreeLock, MutualExclusion
<1>4. CASE ThreadStep
  BY <1>4 DEF ThreadStep, MutualExclusion
<1>5. CASE UNCHANGED lockVars
  BY <1>5 DEF lockVars, MutualExclusion
<1> QED
  BY <1>1, <1>2, <1>3, <1>4, <1>5
     DEF LNext, AcquireSleep, AcquireSpin, CvSleep, CvSleepNone, CvSleepYield,
         CvSleepKilled, CvSignal, CvBroadcast, CvDestroy, lvars

(* Two threads are never inside at once.                                    *)
THEOREM Exclusion == Disciplined => (LSpec => []MutualExclusion)
<1> SUFFICES ASSUME Disciplined PROVE LSpec => []MutualExclusion
  OBVIOUS
<1>1. LInit => MutualExclusion
  BY DEF LInit, MutualExclusion
<1>2. MutualExclusion /\ [LNext]_lvars => MutualExclusion'
  BY ExclusionNext
<1> QED
  BY <1>1, <1>2, PTL DEF LSpec

-----------------------------------------------------------------------------
(* The loop of lock_acquire.  It hangs the process if its caller is the     *)
(* only thread that can run, so what has to hold is that whoever is inside  *)
(* can run: is in the client's code, and has the processor or is ready.     *)

InsideAwake ==
  \A t \in inside : pc[t] = "user" /\ (t = current \/ t \in Range(readyQ))

(* A context switch keeps who is awake awake.                               *)
LEMMA AwakeSwitch ==
  ASSUME IInv, NEW t \in Range(readyQ), NEW rest \in Seq(Tid),
         Range(rest) = Range(readyQ) \ {t},
         NEW st, NEW ws, NEW cont \in [Tid -> Labels], Switch(t, rest, st, ws, cont),
         NEW u \in Tid, cont[u] = "user",
         u \in Range(readyQ) \/ (u = current /\ st[u] = "RUNNING")
  PROVE  pc'[u] = "user" /\ (u = current' \/ u \in Range(readyQ'))
<1>1. current \in Tid /\ t \in Tid
  BY QueueFacts
<1>2. current' = t /\ pc'[u] = "user" /\ readyQ' = Requeued(rest, st)
  BY <1>1 DEF Switch
<1>3. Range(rest) \subseteq Range(readyQ')
  BY <1>1, <1>2, AppendFacts DEF Requeued
<1>4. u = current => u \in Range(readyQ') \/ u \in Range(readyQ)
  BY <1>1, <1>2, AppendFacts DEF Requeued
<1> QED
  BY <1>2, <1>3, <1>4

(* thread_yield runs the first of the ready queue.                          *)
LEMMA AwakeYield ==
  ASSUME IInv, readyQ # <<>>, NEW st, NEW ws, NEW cont \in [Tid -> Labels],
         Switch(Head(readyQ), Tail(readyQ), st, ws, cont),
         NEW u \in Tid, cont[u] = "user",
         u \in Range(readyQ) \/ (u = current /\ st[u] = "RUNNING")
  PROVE  pc'[u] = "user" /\ (u = current' \/ u \in Range(readyQ'))
  BY NextReady, AwakeSwitch

(* A step that leaves the processor to its thread, keeps the label of u and *)
(* takes nobody from the ready queue.                                       *)
LEMMA AwakeStays ==
  ASSUME IInv, current' = current, FifoStep,
         NEW u \in Tid, pc'[u] = "user", u = current \/ u \in Range(readyQ)
  PROVE  pc'[u] = "user" /\ (u = current' \/ u \in Range(readyQ'))
  BY DEF FifoStep

(* What the library does to a thread that is awake in the client's code:    *)
(* it stays so, unless it exits, or begins to wait.                         *)
LEMMA AwakeNext ==
  ASSUME IInv, Next, NEW u \in Tid, pc[u] = "user", u = current \/ u \in Range(readyQ),
         Wait => u # current
  PROVE  pc'[u] = "exit" \/ (pc'[u] = "user" /\ (u = current' \/ u \in Range(readyQ')))
<1> DEFINE Awake == pc'[u] = "user" /\ (u = current' \/ u \in Range(readyQ'))
<1>1. /\ current \in Tid /\ pc \in [Tid -> Labels] /\ state \in [Tid -> ThreadState]
      /\ state[u] \in {"READY", "RUNNING", "KILLED"}
      /\ u = current => state[u] \in Schedulable
      /\ FifoStep
  BY QueueFacts, FifoNext DEF IInv, Typed, DozerLeaves, Dozing, Schedulable
<1>2. CASE Create
  <2>1. PICK t \in Tid : FirstVacant(t) /\ pc' = [pc EXCEPT ![t] = "stub"]
    BY <1>2 DEF Create
  <2>2. t # u
    BY <1>1, <2>1 DEF FirstVacant, Vacant
  <2>3. pc'[u] = "user" /\ current' = current
    BY <1>1, <1>2, <2>1, <2>2 DEF Create
  <2> QED
    BY <1>1, <2>3, AwakeStays
<1>3. CASE \/ CreateNoMemory \/ KillAwake \/ KillWaiter \/ KillLost \/ Stopped
           \/ WakeupOne \/ WakeupAll
  <2>1. pc' = pc /\ current' = current
    BY <1>3 DEF CreateNoMemory, KillAwake, KillWaiter, KillLost, Stopped, vars, WakeupOne,
                WakeupAll, WakeFrom
  <2> QED
    BY <1>1, <2>1, AwakeStays
<1>4. CASE ExitProcess \/ KillSleeperFails \/ WaitNull \/ WaitSleepWild
  <2>1. pc' = pc /\ current' = current
    BY <1>4 DEF ExitProcess, KillSleeperFails, WaitNull, WaitSleepWild, HaltAs
  <2> QED
    BY <1>1, <2>1, AwakeStays
<1>5. CASE YieldAny \/ Preempt \/ ExitYield
  <2>1. /\ readyQ # <<>> /\ state[current] # "KILLED"
        /\ Switch(Head(readyQ), Tail(readyQ), state, wq, pc)
    BY <1>5 DEF YieldAny, Preempt, ExitYield, At, IInv, PcInv
  <2>2. u \in Range(readyQ) \/ (u = current /\ state[u] = "RUNNING")
    BY <1>1, <2>1 DEF Schedulable
  <2> QED
    BY <1>1, <2>1, <2>2, AwakeYield
<1>6. CASE YieldTo
  <2>1. PICK t \in Range(readyQ) : Switch(t, RemoveFirst(readyQ, t), state, wq, pc)
    BY <1>6 DEF YieldTo
  <2>2. u \in Range(readyQ) \/ (u = current /\ state[u] = "RUNNING")
    BY <1>1, <1>6 DEF Schedulable, YieldTo
  <2>3. readyQ \in Seq(Tid) /\ IsInjective(readyQ)
    BY QueueFacts DEF Placed
  <2>4. /\ RemoveFirst(readyQ, t) \in Seq(Tid)
        /\ Range(RemoveFirst(readyQ, t)) = Range(readyQ) \ {t}
    BY <2>3, RemoveFacts
  <2> QED
    BY <1>1, <2>1, <2>2, <2>4, AwakeSwitch
<1>7. CASE YieldKilled \/ ThreadExit \/ SleepKilled \/ WaitKilled
  <2>1. PICK code : Exit(code)
    BY <1>7 DEF YieldKilled, ThreadExit, SleepKilled, WaitKilled
  <2>2. /\ current' = current
        /\ pc' = pc \/ pc' = [pc EXCEPT ![current] = "exit"]
    BY <2>1 DEF Exit, HaltAs
  <2>3. pc'[u] \in {"user", "exit"}
    BY <1>1, <2>2
  <2> QED
    BY <1>1, <2>2, <2>3, AwakeStays
<1>8. CASE PreemptKilled
  <2>1. CASE NobodyCounted \/ ExitReady = <<>>
    <3>1. pc' = pc /\ current' = current
      BY <1>8, <2>1 DEF PreemptKilled, HaltAs
    <3> QED
      BY <1>1, <3>1, AwakeStays
  <2>2. CASE ~(NobodyCounted \/ ExitReady = <<>>)
    <3> DEFINE cont == [pc EXCEPT ![current] = "exit"]
               t == Head(ExitReady)
    <3>1. /\ ExitReady # <<>>
          /\ current' = t /\ pc' = [cont EXCEPT ![t] = IF @ = "stub" THEN "user" ELSE @]
      BY <1>8, <2>2 DEF PreemptKilled, Switch
    <3>2. /\ cont \in [Tid -> Labels] /\ cont[u] \in {"user", "exit"}
      BY <1>1 DEF Labels, PC
    <3>3. ExitReady \in Seq(Tid) /\ Placed(ExitState, current, ExitReady,
                                          [wq EXCEPT ![current] = <<>>], clientQ)
      BY <1>8, ExitFacts DEF PreemptKilled, Schedulable
    <3>4. t \in Tid
      BY <3>1, <3>3
    <3> HIDE DEF cont, t
    <3>5. pc'[u] = cont[u]
      BY <3>1, <3>2, <3>4
    <3>6. u = current => cont[u] = "exit"
      BY <1>1 DEF cont
    <3>7. u \in Range(readyQ) => u = current' \/ u \in Range(readyQ')
      BY <1>1 DEF FifoStep
    <3> QED
      BY <3>2, <3>5, <3>6, <3>7
  <2> QED
    BY <2>1, <2>2
<1>9. CASE Sleep
  BY <1>9, LockOpsAssumption DEF Sleep
<1>10. CASE SleepYield
  <2>1. /\ pc[current] \in {"sleeping", "waitSleeping"}
    BY <1>10 DEF SleepYield, At
  <2>2. u # current /\ u \in Range(readyQ)
    BY <2>1
  <2>3. AfterSleep \in [Tid -> Labels] /\ AfterSleep[u] = "user"
    BY <1>1, <2>2 DEF AfterSleep, Labels, PC
  <2>4. readyQ # <<>>
    BY <2>2 DEF Range
  <2>5. Switch(Head(readyQ), Tail(readyQ), state, wq, AfterSleep)
    BY <1>10, <2>4 DEF SleepYield
  <2> HIDE DEF AfterSleep
  <2> QED
    BY <2>2, <2>3, <2>4, <2>5, AwakeYield
<1>11. CASE Wait
  <2>1. /\ current' = current /\ u # current
        /\ \E label : pc' = [pc EXCEPT ![current] = label]
    BY <1>11 DEF Wait, Goto
  <2> QED
    BY <1>1, <2>1, AwakeStays
<1>12. CASE \/ WaitTake \/ WaitReset \/ WaitInvalid \/ WaitCommit \/ WaitSleep
            \/ WaitSleepLost \/ WaitSleepNone \/ WaitCollect \/ WaitTooLate
  <2>1. current' = current /\ pc[current] # "user"
    BY <1>12 DEF WaitTake, WaitReset, WaitInvalid, WaitCommit, WaitSleep, FallAsleep,
                 WaitSleepLost, WaitSleepNone, WaitCollect, WaitTooLate, At
  <2>2. \E label : pc' = [pc EXCEPT ![current] = label]
    BY <1>12 DEF WaitTake, WaitReset, WaitInvalid, WaitCommit, WaitSleep, FallAsleep,
                 WaitSleepLost, WaitSleepNone, WaitCollect, WaitTooLate, WaitReturns, Goto
  <2> QED
    BY <1>1, <2>1, <2>2, AwakeStays
<1> QED
  BY <1>2, <1>3, <1>4, <1>5, <1>6, <1>7, <1>8, <1>9, <1>10, <1>11, <1>12 DEF Next


(* The library stops the process in other ways, and for good.               *)
LEMMA StopNext ==
  ASSUME Next
  PROVE  /\ halted' = halted \/ halted' # "spin"
         /\ halted # "no" => UNCHANGED vars
<1>1. ASSUME NEW how \in Halt, HaltAs(how) PROVE halted' # "spin"
  BY <1>1 DEF HaltAs, Halt
<1>2. CASE YieldKilled \/ PreemptKilled \/ ThreadExit \/ SleepKilled \/ WaitKilled
  <2>1. halted = "no"
    BY <1>2 DEF YieldKilled, PreemptKilled, ThreadExit, SleepKilled, WaitKilled, At
  <2>2. halted' = halted \/ halted' = "exit"
    BY <1>2 DEF YieldKilled, PreemptKilled, ThreadExit, SleepKilled, WaitKilled, Exit, HaltAs
  <2> QED
    BY <2>1, <2>2
<1>3. CASE ExitProcess \/ KillSleeperFails \/ WaitNull \/ WaitSleepWild
  BY <1>3, <1>1 DEF ExitProcess, KillSleeperFails, WaitNull, WaitSleepWild, At, Halt
<1>4. CASE \/ YieldAny \/ YieldTo \/ Preempt \/ ExitYield \/ SleepYield
  BY <1>4 DEF YieldAny, YieldTo, Preempt, ExitYield, SleepYield, SwitchKeeps, At
<1>5. CASE \/ Create \/ CreateNoMemory \/ KillAwake \/ KillWaiter \/ KillLost
  BY <1>5 DEF Create, CreateNoMemory, KillAwake, KillWaiter, KillLost, At
<1>6. CASE Sleep \/ WakeupOne \/ WakeupAll
  BY <1>6 DEF Sleep, WakeupOne, WakeupAll, FallAsleep, WakeFrom, At
<1>7. CASE \/ Wait \/ WaitTake \/ WaitReset \/ WaitInvalid \/ WaitCommit \/ WaitSleep
           \/ WaitSleepLost \/ WaitSleepNone \/ WaitCollect \/ WaitTooLate
  BY <1>7 DEF Wait, WaitTake, WaitReset, WaitInvalid, WaitCommit, WaitSleep, WaitSleepLost,
              FallAsleep, WaitSleepNone, WaitCollect, WaitTooLate, At
<1>8. CASE Stopped
  BY <1>8 DEF Stopped, vars
<1> QED
  BY <1>2, <1>3, <1>4, <1>5, <1>6, <1>7, <1>8 DEF Next

(* Who holds the lock can run: every step of a disciplined client that does *)
(* not begin to wait for another thread while it is inside keeps that.      *)
LEMMA InsideNext ==
  ASSUME Disciplined, IInv, MutualExclusion, InsideAwake, [LNext]_lvars,
         [Wait => current \notin inside]_lvars
  PROVE  InsideAwake'
<1>1. /\ current \in Tid /\ pc \in [Tid -> Labels]
      /\ \A u \in inside : /\ u \in Tid /\ pc[u] = "user"
                           /\ u = current \/ u \in Range(readyQ)
  BY QueueFacts DEF IInv, Typed, InsideAwake
<1>2. CASE AcquireTake
  <2>1. inside' = {current} /\ pc'[current] = "user" /\ current' = current
    BY <1>1, <1>2 DEF AcquireTake, LockTaken, MutualExclusion, Goto
  <2> QED
    BY <2>1 DEF InsideAwake
<1>3. CASE AcquireSleep
  <2> DEFINE cont == [pc EXCEPT ![current] = "lockWait"]
             st == [state EXCEPT ![current] = "SLEEP"]
  <2>1. /\ inside' = inside /\ current \notin inside
        /\ Switch(Head(readyQ), Tail(readyQ), st, wq, cont)
    BY <1>1, <1>3 DEF AcquireSleep, lockVars, InAcquire, Entering, At
  <2>2. cont \in [Tid -> Labels] /\ \A u \in inside : cont[u] = "user"
    BY <1>1, <2>1 DEF Labels
  <2>3. \A u \in inside : u \in Range(readyQ)
    BY <1>1, <2>1
  <2>4. inside # {} => readyQ # <<>>
    BY <2>3 DEF Range
  <2> HIDE DEF cont, st
  <2>5. ASSUME NEW u \in inside
        PROVE  pc'[u] = "user" /\ (u = current' \/ u \in Range(readyQ'))
    BY <1>1, <2>1, <2>2, <2>3, <2>4, AwakeYield
  <2> QED
    BY <2>1, <2>5 DEF InsideAwake
<1>4. CASE Release \/ CvWait
  <2>1. /\ inside' = inside \ {current} /\ current' = current
        /\ readyQ' = readyQ \o SubSeq(clientQ[lockQ], 1, Len(clientQ[lockQ]))
        /\ pc' = pc \/ pc' = [pc EXCEPT ![current] = "cvGap"]
    BY <1>4 DEF Release, CvWait, FreeLock, WakeFrom, ToWake, Goto
  <2>2. Range(readyQ) \subseteq Range(readyQ')
    <3>1. readyQ \in Seq(Tid) /\ clientQ[lockQ] \in Seq(Tid)
      BY QueueFacts, LockQueues
    <3>2. Len(clientQ[lockQ]) \in 0 .. Len(clientQ[lockQ])
      BY <3>1
    <3> DEFINE w == SubSeq(clientQ[lockQ], 1, Len(clientQ[lockQ]))
    <3>3. w \in Seq(Tid) /\ readyQ' = readyQ \o w
      BY <2>1, <3>1, <3>2, SplitFacts
    <3> HIDE DEF w
    <3>4. Range(readyQ \o w) = Range(readyQ) \cup Range(w)
      BY <3>1, <3>3, ConcatFacts
    <3> QED
      BY <3>3, <3>4
  <2> QED
    BY <1>1, <2>1, <2>2 DEF InsideAwake
<1>5. CASE CvSignal \/ CvBroadcast
  <2>1. PICK n : /\ WakeFrom(cvQ, n) /\ n \in 0 .. Len(clientQ[cvQ])
    <3>1. clientQ[cvQ] \in Seq(Tid)
      BY QueueFacts, LockQueues
    <3>2. /\ Len(clientQ[cvQ]) \in 0 .. Len(clientQ[cvQ]) /\ 0 \in 0 .. Len(clientQ[cvQ])
          /\ clientQ[cvQ] # <<>> => 1 \in 0 .. Len(clientQ[cvQ])
      BY <3>1
    <3> QED
      BY <1>5, <3>2 DEF CvSignal, CvBroadcast
  <2>2. FifoStep /\ current' = current
    BY <2>1, LockQueues, FifoWake DEF WakeFrom
  <2>3. inside' = inside /\ pc' = pc
    BY <1>5 DEF CvSignal, CvBroadcast, lockVars
  <2> QED
    BY <1>1, <2>2, <2>3, AwakeStays DEF InsideAwake
<1>6. CASE CvSleep \/ CvSleepNone \/ CvSleepKilled
  <2>1. /\ pc[current] # "user" /\ current' = current /\ inside' = inside
        /\ pc' = pc \/ \E label : pc' = [pc EXCEPT ![current] = label]
    BY <1>6 DEF CvSleep, CvSleepNone, CvSleepKilled, At, FallAsleep, Goto, Exit, HaltAs, lockVars
  <2>2. readyQ' = readyQ \/ readyQ' = readyQ \o wq[current]
    BY <1>6 DEF CvSleep, CvSleepNone, CvSleepKilled, FallAsleep, Exit, ExitReady, HaltAs
  <2>3. Range(readyQ) \subseteq Range(readyQ')
    <3>1. readyQ \in Seq(Tid) /\ wq[current] \in Seq(Tid)
      BY QueueFacts
    <3>2. Range(readyQ) \subseteq Range(readyQ \o wq[current])
      BY <3>1, ConcatFacts
    <3> QED
      BY <2>2, <3>2
  <2> QED
    BY <1>1, <2>1, <2>3 DEF InsideAwake
<1>7. CASE CvSleepYield
  <2> DEFINE cont == [pc EXCEPT ![current] = "cvAcquire"]
  <2>1. /\ inside' = inside /\ current \notin inside
        /\ IF readyQ = <<>>
           THEN UNCHANGED readyQ
           ELSE Switch(Head(readyQ), Tail(readyQ), state, wq, cont)
    BY <1>1, <1>7 DEF CvSleepYield, lockVars, At
  <2>2. cont \in [Tid -> Labels] /\ \A u \in inside : cont[u] = "user"
    BY <1>1, <2>1 DEF Labels
  <2>3. \A u \in inside : u \in Range(readyQ)
    BY <1>1, <2>1
  <2>4. inside # {} => readyQ # <<>>
    BY <2>3 DEF Range
  <2> HIDE DEF cont
  <2>5. ASSUME NEW u \in inside
        PROVE  pc'[u] = "user" /\ (u = current' \/ u \in Range(readyQ'))
    BY <1>1, <2>1, <2>2, <2>3, <2>4, AwakeYield
  <2> QED
    BY <2>1, <2>5 DEF InsideAwake
<1>8. CASE AcquireSpin \/ CvDestroy \/ UNCHANGED lvars
  <2>1. UNCHANGED <<inside, pc, current, readyQ>>
    BY <1>8 DEF AcquireSpin, HaltAs, CvDestroy, lockVars, lvars, vars
  <2> QED
    BY <2>1 DEF InsideAwake
<1>9. CASE ThreadStep
  <2>1. inside' = {u \in inside : pc'[u] # "exit"} /\ Next
    BY <1>9 DEF ThreadStep
  <2>2. CASE UNCHANGED lvars
    BY <2>2 DEF lvars, vars, lockVars, InsideAwake
  <2>3. CASE Wait => current \notin inside
    <3>1. ASSUME NEW u \in inside
          PROVE  pc'[u] = "exit" \/ (pc'[u] = "user" /\ (u = current' \/ u \in Range(readyQ')))
      BY <1>1, <2>1, <2>3, AwakeNext
    <3> QED
      BY <2>1, <3>1 DEF InsideAwake
  <2> QED
    BY <2>2, <2>3
<1> QED
  BY <1>2, <1>3, <1>4, <1>5, <1>6, <1>7, <1>8, <1>9 DEF LNext

(* The process hangs only in front of a lock that nobody is going to free.  *)
LEMMA HangsNext ==
  ASSUME Disciplined, IInv, InsideAwake, HangsOnlyAbandoned, [LNext]_lvars
  PROVE  HangsOnlyAbandoned'
<1>1. CASE AcquireSpin
  <2>1. /\ lock = TRUE /\ nums = 1 /\ UNCHANGED <<lock, inside>> /\ InAcquire
    BY <1>1 DEF AcquireSpin, CanSleep, lockVars
  <2>2. readyQ = <<>>
    <3>1. state[current] \in Schedulable /\ readyQ \in Seq(Tid)
      BY <2>1, AcquireBegins, QueueFacts
    <3>2. Len(readyQ) = 0
      BY <2>1, <3>1 DEF IInv, NumsExact
    <3> QED
      BY <3>1, <3>2
  <2>3. current \notin inside
    BY <2>1 DEF InAcquire, Entering, At, InsideAwake
  <2>4. inside = {}
    BY <2>2, <2>3 DEF InsideAwake, Range
  <2> QED
    BY <2>1, <2>4 DEF HangsOnlyAbandoned, Abandoned
<1>2. CASE AcquireTake \/ AcquireSleep \/ Release \/ CvWait \/ CvSleep \/ CvSleepNone
           \/ CvSleepYield \/ CvSleepKilled \/ CvSignal \/ CvBroadcast \/ CvDestroy
  <2>1. halted = "no" /\ halted' # "spin"
    BY <1>2 DEF AcquireTake, AcquireSleep, InAcquire, Entering, Release, FreeLock, CvWait,
                CvSleep, CvSleepNone, FallAsleep, CvSleepYield, SwitchKeeps, CvSleepKilled,
                Exit, HaltAs, CvSignal, CvBroadcast, WakeFrom, CvDestroy, At
  <2> QED
    BY <2>1 DEF HangsOnlyAbandoned
<1>3. CASE ThreadStep
  <2>1. /\ Next /\ UNCHANGED lock /\ inside' \subseteq inside
    BY <1>3 DEF ThreadStep
  <2>2. halted' = "spin" => halted = "spin"
    BY <2>1, StopNext
  <2> QED
    BY <2>1, <2>2 DEF HangsOnlyAbandoned, Abandoned
<1>4. CASE UNCHANGED lvars
  BY <1>4 DEF lvars, vars, lockVars, HangsOnlyAbandoned, Abandoned
<1> QED
  BY <1>1, <1>2, <1>3, <1>4 DEF LNext

(* lock_acquire hangs the process only if the owner died with the lock, as  *)
(* long as no client waits for the end of another thread while it is        *)
(* inside: such an owner sleeps, and the loop never lets it run again.      *)
THEOREM HangsOnlyWhenAbandoned ==
  Disciplined =>
    (LSpec /\ [][Wait => current \notin inside]_lvars => []HangsOnlyAbandoned)
<1> SUFFICES ASSUME Disciplined
             PROVE  LSpec /\ [][Wait => current \notin inside]_lvars
                      => []HangsOnlyAbandoned
  OBVIOUS
<1>1. LInit => InsideAwake /\ HangsOnlyAbandoned
  BY DEF LInit, Init, InsideAwake, HangsOnlyAbandoned
<1>2. IInv /\ MutualExclusion /\ InsideAwake /\ [LNext]_lvars
        /\ [Wait => current \notin inside]_lvars => InsideAwake'
  BY InsideNext
<1>3. IInv /\ InsideAwake /\ HangsOnlyAbandoned /\ [LNext]_lvars => HangsOnlyAbandoned'
  BY HangsNext
<1>4. LSpec => []MutualExclusion
  BY Exclusion
<1> QED
  BY <1>1, <1>2, <1>3, <1>4, LockInvariance, PTL DEF LSpec

=============================================================================
