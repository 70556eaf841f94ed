-------------------------------- MODULE Locks --------------------------------
(***************************************************************************)
(* The lock and the condition variable of src/threads/thread.c, built on   *)
(* thread_sleep and thread_wakeup: one lock, one condition variable that   *)
(* is used with it.                                                        *)
(*                                                                         *)
(* lock_acquire keeps the timer signal blocked, also while it sleeps: the  *)
(* mask is part of the context that comes back.  A thread that is resumed  *)
(* in there ("lockWait") looks at the lock again before anything else can  *)
(* happen.  cv_wait blocks the signal only inside the calls it makes:      *)
(*                                                                         *)
(*   "cvGap"       between lock_release and thread_sleep, lines 926-927    *)
(*   "cvSleeping"  in that thread_sleep, past line 650                     *)
(*   "cvAcquire"   between thread_sleep and lock_acquire, lines 927-929    *)
(*                                                                         *)
(* A name with a suffix _M... is the definition below it with one mistake; *)
(* no specification uses it.                                               *)
(***************************************************************************)
EXTENDS Threads

CONSTANTS
  lockQ,        \* lock->wq
  cvQ,          \* cv->cv_wait_queue
  LockOps,      \* the operations of this module that the client calls
  Disciplined   \* the client releases what it holds, and nothing else, and
                \* neither acquires twice nor exits holding the lock

AllLockOps == {"acquire", "release", "cvWait", "signal", "broadcast", "cvDestroy"}

ASSUME LockQueuesAssumption == Queues = {lockQ, cvQ} /\ lockQ # cvQ
ASSUME LockOpsAssumption ==
  /\ LockOps \subseteq AllLockOps /\ Disciplined \in BOOLEAN
  /\ Ops \cap {"sleep", "wakeup"} = {}

VARIABLES
  lock,     \* lock->lock
  holder,   \* lock->thread_holding_lock
  inside    \* threads between lock_acquire and lock_release (observed only)

lockVars == <<lock, holder, inside>>
lvars == <<vars, lockVars>>

LockPC == PC \cup {"lockWait", "cvGap", "cvSleeping", "cvAcquire"}

LInit == Init /\ lock = FALSE /\ holder = NoTid /\ inside = {}

-----------------------------------------------------------------------------
(* lock_acquire: called by the client, resumed after a sleep in its loop,   *)
(* or called by cv_wait.                                                    *)

Entering ==
  /\ At("user") /\ "acquire" \in LockOps
  /\ Disciplined => current \notin inside

InAcquire == Entering \/ At("lockWait") \/ At("cvAcquire")

LockTaken_MNoTest == TRUE
LockTaken == lock = FALSE

AcquireTake ==
  /\ InAcquire
  /\ LockTaken
  /\ lock' = TRUE
  /\ holder' = current
  /\ inside' = inside \cup {current}
  /\ Goto("user")
  /\ UNCHANGED <<state, current, readyQ, nums, wq, clientQ, slotVars, target, held, halted>>

(* thread_sleep with the signal blocked: no step between line 650 and the   *)
(* switch.                                                                  *)
AcquireSleep ==
  /\ InAcquire
  /\ lock = TRUE
  /\ CanSleep
  /\ clientQ' = [clientQ EXCEPT ![lockQ] = Append(@, current)]
  /\ nums' = nums - 1
  /\ Switch(Head(readyQ), Tail(readyQ), [state EXCEPT ![current] = "SLEEP"], wq,
            [pc EXCEPT ![current] = "lockWait"])
  /\ UNCHANGED <<slotVars, target, halted, lockVars>>

(* thread_sleep returns THREAD_NONE for ever, with the signal blocked.      *)
AcquireSpin ==
  /\ InAcquire
  /\ lock = TRUE
  /\ ~CanSleep
  /\ HaltAs("spin")
  /\ UNCHANGED lockVars

-----------------------------------------------------------------------------
(* lock_release wakes every thread that waits for the lock; it checks       *)
(* nothing.                                                                 *)
ToWake_MOne(q) == IF clientQ[q] = <<>> THEN 0 ELSE 1
ToWake_MNone(q) == 0
ToWake(q) == Len(clientQ[q])

FreeLock_MKept ==
  /\ UNCHANGED lockVars
  /\ WakeFrom(lockQ, ToWake(lockQ))
FreeLock ==
  /\ lock' = FALSE
  /\ holder' = current
  /\ inside' = inside \ {current}
  /\ WakeFrom(lockQ, ToWake(lockQ))

Release ==
  /\ At("user") /\ "release" \in LockOps
  /\ Disciplined => current \in inside
  /\ FreeLock
  /\ UNCHANGED pc

-----------------------------------------------------------------------------
(* cv_wait, cv_signal, cv_broadcast: no effect unless the caller holds the  *)
(* lock.  Nobody else changes the lock between that test and the call that  *)
(* follows it, as long as only holders release.                             *)

Holds == lock = TRUE /\ holder = current

CvWait ==
  /\ At("user") /\ "cvWait" \in LockOps
  /\ Holds
  /\ FreeLock
  /\ Goto("cvGap")

CvSleep ==
  /\ At("cvGap")
  /\ FallAsleep("cvSleeping")
  /\ clientQ' = [clientQ EXCEPT ![cvQ] = Append(@, current)]
  /\ UNCHANGED <<wq, lockVars>>

CvSleepNone ==
  /\ At("cvGap")
  /\ ~CanSleep
  /\ Goto("cvAcquire")
  /\ UNCHANGED <<state, current, readyQ, nums, wq, clientQ, slotVars, target, held, halted,
                 lockVars>>

CvSleepYield ==
  /\ At("cvSleeping")
  /\ state[current] # "KILLED"
  /\ LET cont == [pc EXCEPT ![current] = "cvAcquire"]
     IN IF readyQ = <<>>
        THEN pc' = cont /\ UNCHANGED <<state, current, readyQ, wq, held>>
        ELSE Switch(Head(readyQ), Tail(readyQ), state, wq, cont)
  /\ SwitchKeeps
  /\ UNCHANGED lockVars

CvSleepKilled ==
  /\ At("cvSleeping")
  /\ state[current] = "KILLED"
  /\ Exit(0)
  /\ UNCHANGED lockVars

CvSignal ==
  /\ At("user") /\ "signal" \in LockOps
  /\ Holds
  /\ WakeFrom(cvQ, IF clientQ[cvQ] = <<>> THEN 0 ELSE 1)
  /\ UNCHANGED <<pc, lockVars>>

(* cv_broadcast passes 1 for all.                                           *)
CvBroadcast ==
  /\ At("user") /\ "broadcast" \in LockOps
  /\ Holds
  /\ WakeFrom(cvQ, Len(clientQ[cvQ]))
  /\ UNCHANGED <<pc, lockVars>>

(* cv_destroy, after which the client creates another one: sleepers are not *)
(* looked at, and sleep on in no queue.  A thread between lines 926 and 927 *)
(* would read what was freed; such clients are left out.  (lock_destroy has *)
(* no effect: its test at line 819 compares the pointer with false.)        *)
CvDestroy ==
  /\ At("user") /\ "cvDestroy" \in LockOps
  /\ \A t \in Tid : pc[t] # "cvGap"
  /\ clientQ' = [clientQ EXCEPT ![cvQ] = <<>>]
  /\ UNCHANGED <<state, current, readyQ, nums, wq, slotVars, target, held, halted, pc, lockVars>>

-----------------------------------------------------------------------------
(* Any other step.  The signal is blocked in "lockWait".                    *)
ThreadStep ==
  /\ Next
  /\ ~At("lockWait")
  /\ Disciplined /\ current \in inside => ~ThreadExit
  /\ inside' = {t \in inside : pc'[t] # "exit"}
  /\ UNCHANGED <<lock, holder>>

LNext ==
  \/ AcquireTake \/ AcquireSleep \/ AcquireSpin \/ Release
  \/ CvWait \/ CvSleep \/ CvSleepNone \/ CvSleepYield \/ CvSleepKilled
  \/ CvSignal \/ CvBroadcast \/ CvDestroy
  \/ ThreadStep

LSpec == LInit /\ [][LNext]_lvars

(* The timer keeps coming, and code that it cannot interrupt runs on; and,  *)
(* an assumption on the client, who is inside leaves if it gets the         *)
(* processor there again and again.                                         *)
Resume == At("lockWait") /\ (AcquireTake \/ AcquireSleep \/ AcquireSpin)
Leave == Release \/ CvWait
LockFairSpec ==
  /\ LSpec
  /\ WF_lvars(Tick /\ ThreadStep) /\ WF_lvars(Resume)
  /\ SF_lvars(Leave)

-----------------------------------------------------------------------------
(* Properties.                                                             *)

(* Two threads are never inside at once, also when threads are killed with  *)
(* the lock, or on their way to it.                                         *)
MutualExclusion == \A t \in inside : lock = TRUE /\ holder = t

(* No lost wakeup: a thread sleeps for the lock only while it is taken.     *)
NobodySleepsForFreeLock == clientQ[lockQ] # <<>> => lock = TRUE

(* The loop of lock_acquire (lines 847-849) hangs the process only when the *)
(* owner of the lock died with it: an owner that lives can run.             *)
Abandoned == lock = TRUE /\ inside = {}
HangsOnlyAbandoned == halted = "spin" => Abandoned

(* Whoever sleeps for the lock gets another try, if owners leave or live.   *)
WaiterRetries ==
  \A t \in Tid :
    t \in Range(clientQ[lockQ])
      ~> (t \in Range(readyQ) \/ Abandoned \/ halted # "no")

=============================================================================
