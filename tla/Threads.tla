------------------------------- MODULE Threads -------------------------------
(***************************************************************************)
(* The user-level preemptive thread library of src/threads/thread.c, with  *)
(* the timer of src/threads/interrupt.c.                                   *)
(*                                                                         *)
(* There is one processor.  interrupts_set(0) blocks SIGALRM, so a stretch *)
(* of code that runs with the signal blocked is one atomic step.  A thread *)
(* can lose the processor to the timer at every other point; the points    *)
(* between two library steps where that matters are the values of pc:      *)
(*                                                                         *)
(*   "stub"        created; thread_stub has not run yet                    *)
(*   "user"        in the client's code                                    *)
(*   "sleeping"    in thread_sleep, called by the client, past line 650    *)
(*   "waitCheck"   in thread_wait, between lines 730 and 736               *)
(*   "waitTake"    in thread_wait, between lines 730 and 732               *)
(*   "waitNull"    the same, with a NULL exit_code pointer                 *)
(*   "waitReset"   in thread_wait, between lines 732 and 733               *)
(*   "waitSleep"   in thread_wait, past the read of the target's wq in     *)
(*                 line 747, before thread_sleep blocks the signal (631)   *)
(*   "waitSleeping" in thread_sleep, called by thread_wait, past line 650  *)
(*   "waitAfter"   in thread_wait, between lines 747 and 749               *)
(*   "exit"        in thread_exit, past line 544, or the slot is unused    *)
(*                                                                         *)
(* A thread that yields stores the pc it will come back to before it       *)
(* leaves.  The client is the most general one: it calls any operation of  *)
(* Ops at any time.                                                        *)
(***************************************************************************)
EXTENDS Integers, Sequences, SequencesExt

CONSTANTS
  MaxThreads,  \* THREAD_MAX_THREADS
  Queues,      \* wait queues that the client made with wait_queue_create
  ExitCodes,   \* exit codes the client passes to thread_exit
  Ops,         \* the operations the client calls
  Timer        \* whether register_interrupt_handler was called

AllOps == {"create", "nomem", "yield", "yieldTo", "exit", "kill",
           "sleep", "wakeup", "wait"}

ASSUME MaxThreadsAssumption == MaxThreads \in Nat \ {0}
ASSUME ExitCodesAssumption == ExitCodes \subseteq Int
ASSUME OpsAssumption == Ops \subseteq AllOps /\ Timer \in BOOLEAN

VARIABLES
  state,      \* array_of_threads[t].current_state
  current,    \* current_running_thread
  readyQ,     \* r_q
  nums,       \* nums_existing_threads
  wq,         \* array_of_threads[t].wq: the threads in thread_wait for t
  clientQ,    \* the client's own wait queues
  exitCode,   \* array_of_threads[t].exit_code
  waitingOn,  \* array_of_threads[t].waiting_on
  pc,         \* where thread t continues
  target,     \* the argument tid of the thread_wait that t is in
  held,       \* the queue whose address t read in line 747: "live" while it
              \* is its target's, "freed" by a sweep, "dropped" by a reuse
              \* of the slot, which sets wq and frees nothing
  halted      \* how the process stopped, "no" while it runs

slotVars == <<exitCode, waitingOn>>
vars == <<state, current, readyQ, nums, wq, clientQ, exitCode, waitingOn, pc,
          target, held, halted>>

Tid == 0 .. MaxThreads - 1
NoTid == -1       \* waiting_on of a thread that waits for none
NoCode == -1      \* exit_code before an exit, and after it was collected
KillCode == 9     \* exit_code of a killed thread

ThreadState == {"READY", "RUNNING", "EXITED", "KILLED", "UNINITIALIZED", "SLEEP"}
Halt == {"no", "exit", "abort", "wild"}
PC == {"stub", "user", "sleeping", "waitCheck", "waitTake", "waitNull",
       "waitReset", "waitSleep", "waitSleeping", "waitAfter", "exit"}
Hold == {"live", "freed", "dropped"}

-----------------------------------------------------------------------------
(* The pieces that the operations share.  A name with a suffix _M... is the *)
(* definition below it with one mistake; no specification uses it.          *)

(* The sweep of thread_yield: every EXITED thread but self gives up its     *)
(* stack and its wait queue, and its slot becomes free.                     *)
Sweep_MKilledToo(st, self) ==
  [t \in Tid |-> IF st[t] \in {"EXITED", "KILLED"} /\ t # self
                 THEN "UNINITIALIZED" ELSE st[t]]
Sweep(st, self) ==
  [t \in Tid |-> IF st[t] = "EXITED" /\ t # self THEN "UNINITIALIZED" ELSE st[t]]

(* The caller of thread_yield goes to the end of the ready queue unless it  *)
(* sleeps, or has exited.                                                   *)
Requeued_MAlways(rest, st) == Append(rest, current)
Requeued_MFront(rest, st) ==
  IF st[current] = "RUNNING" THEN <<current>> \o rest ELSE rest
Requeued_MNever(rest, st) == rest
Requeued(rest, st) ==
  IF st[current] = "RUNNING" THEN Append(rest, current) ELSE rest

(* The state of a thread that gets the processor.                           *)
Granted_MForgetsKill(s) == "RUNNING"
Granted(s) == IF s = "KILLED" THEN "KILLED" ELSE "RUNNING"

(* t returns from its getcontext and sweeps again; a thread that starts in  *)
(* thread_stub does not.                                                    *)
Returned_MNoSweep(t, st) == st
Returned(t, st) == IF pc[t] = "stub" THEN st ELSE Sweep(st, t)

(* What the threads past the read of line 747 hold when the queues of the   *)
(* threads in lost are gone.  at is pc.                                     *)
Unheld(at, lost, how) ==
  [u \in Tid |-> IF at[u] = "waitSleep" /\ held[u] = "live" /\ target[u] \in lost
                 THEN how ELSE held[u]]

(* The context switch of thread_yield, from st, with t already taken out of *)
(* the ready queue (rest is what is left) and the wait queues in wqs.  The  *)
(* sweep runs before setcontext and once more on the other side.  cont is   *)
(* pc with the place where the caller will continue.                        *)
Switch(t, rest, st, wqs, cont) ==
  LET left == [Sweep(st, current) EXCEPT
                 ![current] = IF @ = "RUNNING" THEN "READY" ELSE @,
                 ![t] = Granted(@)]
      back == Returned(t, left)
      swept == {i \in Tid : st[i] = "EXITED" /\ back[i] # "EXITED"}
  IN /\ state' = back
     /\ current' = t
     /\ readyQ' = Requeued(rest, st)
     /\ wq' = [i \in Tid |-> IF i \in swept THEN <<>> ELSE wqs[i]]
     /\ held' = Unheld(cont, swept, "freed")
     /\ pc' = [cont EXCEPT ![t] = IF @ = "stub" THEN "user" ELSE @]

(* States after thread_wakeup moved the threads of q to the ready queue.    *)
Awaken(st, q) ==
  [t \in Tid |-> IF t \in Range(q) /\ st[t] # "KILLED" THEN "READY" ELSE st[t]]

(* thread_exit up to line 544: the current thread wakes the threads that    *)
(* wait for it, and is EXITED.                                              *)
ExitState == [Awaken(state, wq[current]) EXCEPT ![current] = "EXITED"]
ExitReady_MQueuesNone == readyQ \o wq[current] \o <<NoTid>>
ExitReady == readyQ \o wq[current]

BecomeExited_MStillCounted(code) ==
  /\ nums' = nums + Len(wq[current])
  /\ exitCode' = [exitCode EXCEPT ![current] = code]
  /\ target' = [target EXCEPT ![current] = NoTid]
  /\ UNCHANGED <<clientQ, waitingOn>>
BecomeExited(code) ==
  /\ nums' = nums + Len(wq[current]) - 1
  /\ exitCode' = [exitCode EXCEPT ![current] = code]
  /\ target' = [target EXCEPT ![current] = NoTid]
  /\ UNCHANGED <<clientQ, waitingOn>>

(* The process stops; nothing that is true of memory matters any more.      *)
HaltAs(how) ==
  /\ halted' = how
  /\ UNCHANGED <<state, current, readyQ, nums, wq, clientQ, exitCode, waitingOn,
                 pc, target, held>>

(* The test of line 521: the counter knows no thread any more.              *)
NobodyCounted == nums + Len(wq[current]) < 1

(* thread_exit called with interrupts enabled stops for a moment at 544.    *)
Exit(code) ==
  IF NobodyCounted
  THEN HaltAs("exit")
  ELSE /\ BecomeExited(code)
       /\ state' = ExitState
       /\ readyQ' = ExitReady
       /\ wq' = [wq EXCEPT ![current] = <<>>]
       /\ pc' = [pc EXCEPT ![current] = "exit"]
       /\ UNCHANGED <<current, held, halted>>

At(label) == halted = "no" /\ pc[current] = label

-----------------------------------------------------------------------------
(* thread_init: thread 0 is the caller.  exit_code is static storage that   *)
(* thread_init leaves at 0.                                                 *)
Init ==
  /\ state = [t \in Tid |-> IF t = 0 THEN "RUNNING" ELSE "UNINITIALIZED"]
  /\ current = 0
  /\ readyQ = <<>>
  /\ nums = 1
  /\ wq = [t \in Tid |-> <<>>]
  /\ clientQ = [q \in Queues |-> <<>>]
  /\ exitCode = [t \in Tid |-> 0]
  /\ waitingOn = [t \in Tid |-> NoTid]
  /\ pc = [t \in Tid |-> IF t = 0 THEN "user" ELSE "exit"]
  /\ target = [t \in Tid |-> NoTid]
  /\ held = [t \in Tid |-> "live"]
  /\ halted = "no"

-----------------------------------------------------------------------------
(* thread_create.  The slot is the first one that holds no thread.          *)

Vacant == {"UNINITIALIZED", "EXITED"}

FirstVacant(t) ==
  /\ state[t] \in Vacant
  /\ \A u \in Tid : u < t => state[u] \notin Vacant

Create ==
  /\ At("user") /\ "create" \in Ops
  /\ nums < MaxThreads
  /\ \E t \in Tid :
       /\ FirstVacant(t)
       /\ state' = [state EXCEPT ![t] = "READY"]
       /\ readyQ' = Append(readyQ, t)
       /\ wq' = [wq EXCEPT ![t] = <<>>]
       /\ exitCode' = [exitCode EXCEPT ![t] = NoCode]
       /\ waitingOn' = [waitingOn EXCEPT ![t] = NoTid]
       /\ pc' = [pc EXCEPT ![t] = "stub"]
       /\ held' = Unheld(pc, {u \in {t} : state[u] = "EXITED"}, "dropped")
  /\ nums' = nums + 1
  /\ UNCHANGED <<current, clientQ, target, halted>>

(* malloc of the stack fails.  An EXITED slot has been marked READY by      *)
(* then, and stays so.                                                      *)
CreateNoMemory ==
  /\ At("user") /\ "nomem" \in Ops
  /\ nums < MaxThreads
  /\ \E t \in Tid :
       /\ FirstVacant(t)
       /\ state' = [state EXCEPT ![t] = IF @ = "EXITED" THEN "READY" ELSE @]
       /\ exitCode' = [exitCode EXCEPT ![t] = NoCode]
  /\ UNCHANGED <<current, readyQ, nums, wq, clientQ, waitingOn, pc, target, held, halted>>

-----------------------------------------------------------------------------
(* thread_yield by the client.  A KILLED caller exits with code 0 instead.  *)

SwitchKeeps == UNCHANGED <<nums, clientQ, slotVars, target, halted>>

YieldAny ==
  /\ At("user") /\ "yield" \in Ops
  /\ state[current] # "KILLED"
  /\ readyQ # <<>>
  /\ Switch(Head(readyQ), Tail(readyQ), state, wq, pc)
  /\ SwitchKeeps

YieldTo ==
  /\ At("user") /\ "yieldTo" \in Ops
  /\ state[current] # "KILLED"
  /\ \E t \in Range(readyQ) : Switch(t, RemoveFirst(readyQ, t), state, wq, pc)
  /\ SwitchKeeps

YieldKilled ==
  /\ At("user") /\ {"yield", "yieldTo"} \cap Ops # {}
  /\ state[current] = "KILLED"
  /\ Exit(0)

(* The timer signal at any point where it is not blocked: the handler calls *)
(* thread_yield(THREAD_ANY).                                                *)
Preempt ==
  /\ halted = "no" /\ Timer
  /\ state[current] # "KILLED"
  /\ readyQ # <<>>
  /\ Switch(Head(readyQ), Tail(readyQ), state, wq, pc)
  /\ SwitchKeeps

(* The same for a KILLED thread: thread_exit(0) runs inside the handler,    *)
(* with the signal blocked throughout, and its own thread_yield switches.   *)
PreemptKilled ==
  /\ halted = "no" /\ Timer
  /\ state[current] = "KILLED"
  /\ IF NobodyCounted \/ ExitReady = <<>>
     THEN HaltAs("exit")
     ELSE /\ BecomeExited(0)
          /\ Switch(Head(ExitReady), Tail(ExitReady), ExitState,
                    [wq EXCEPT ![current] = <<>>],
                    [pc EXCEPT ![current] = "exit"])
          /\ UNCHANGED halted

-----------------------------------------------------------------------------
(* thread_exit by the client, or when thread_main returns.                  *)
ThreadExit ==
  /\ At("user") /\ "exit" \in Ops
  /\ \E code \in ExitCodes : Exit(code)

(* Its last part: run another thread, or end the process if none is ready.  *)
ExitYield ==
  /\ At("exit")
  /\ readyQ # <<>>
  /\ Switch(Head(readyQ), Tail(readyQ), state, wq, pc)
  /\ SwitchKeeps

ExitProcess ==
  /\ At("exit")
  /\ readyQ = <<>>
  /\ HaltAs("exit")

-----------------------------------------------------------------------------
(* thread_kill.  A sleeping victim is taken off the wait queue that its     *)
(* waiting_on names.  thread_awaken asserts that it was there; waiting_on   *)
(* is -1 or names a slot whose queue was freed when the victim does not     *)
(* sleep in thread_wait, and then the access is out of bounds or dangling.  *)

(* A thread asleep inside thread_wait.                                      *)
InWait(t) == state[t] = "SLEEP" /\ pc[t] \in {"waitSleeping", "waitAfter"}

Killable(t) == t # current /\ state[t] # "UNINITIALIZED"

KillAwake ==
  /\ At("user") /\ "kill" \in Ops
  /\ \E t \in Tid :
       /\ Killable(t) /\ state[t] # "SLEEP"
       /\ state' = [state EXCEPT ![t] = "KILLED"]
       /\ exitCode' = [exitCode EXCEPT ![t] = KillCode]
  /\ UNCHANGED <<current, readyQ, nums, wq, clientQ, waitingOn, pc, target, held, halted>>

KillWaiter ==
  /\ At("user") /\ "kill" \in Ops
  /\ \E t \in Tid :
       /\ Killable(t) /\ state[t] = "SLEEP"
       /\ waitingOn[t] # NoTid
       /\ state[waitingOn[t]] # "UNINITIALIZED"
       /\ t \in Range(wq[waitingOn[t]])
       /\ state' = [state EXCEPT ![t] = "KILLED"]
       /\ wq' = [wq EXCEPT ![waitingOn[t]] = RemoveFirst(@, t)]
       /\ readyQ' = Append(readyQ, t)
       /\ exitCode' = [exitCode EXCEPT ![t] = KillCode]
  /\ nums' = nums + 1
  /\ UNCHANGED <<current, clientQ, waitingOn, pc, target, held, halted>>

(* The victim sleeps in no queue of a living thread: line 747 gave it one   *)
(* that was freed, where thread_awaken may find it.                         *)
KillLost ==
  /\ At("user") /\ "kill" \in Ops
  /\ \E t \in Tid :
       /\ Killable(t) /\ InWait(t) /\ held[t] = "freed"
       /\ waitingOn[t] # NoTid
       /\ state[waitingOn[t]] = "UNINITIALIZED"
       /\ \A u \in Tid : t \notin Range(wq[u])
       /\ \A q \in Queues : t \notin Range(clientQ[q])
       /\ state' = [state EXCEPT ![t] = "KILLED"]
       /\ readyQ' = Append(readyQ, t)
       /\ exitCode' = [exitCode EXCEPT ![t] = KillCode]
  /\ nums' = nums + 1
  /\ UNCHANGED <<current, wq, clientQ, waitingOn, pc, target, held, halted>>

KillSleeperFails ==
  /\ At("user") /\ "kill" \in Ops
  /\ \E t \in Tid :
       /\ Killable(t) /\ state[t] = "SLEEP"
       /\ \/ /\ waitingOn[t] = NoTid
             /\ HaltAs("wild")
          \/ /\ waitingOn[t] # NoTid
             /\ state[waitingOn[t]] = "UNINITIALIZED"
             /\ HaltAs("wild") \/ HaltAs("abort")
          \/ /\ waitingOn[t] # NoTid
             /\ state[waitingOn[t]] # "UNINITIALIZED"
             /\ t \notin Range(wq[waitingOn[t]])
             /\ HaltAs("abort")

-----------------------------------------------------------------------------
(* thread_sleep and thread_wakeup on a wait queue of the client.  Both give *)
(* up at once when the caller is the only thread that can run.              *)

CanSleep_MAlways == TRUE
CanSleep == nums # 1

FallAsleep(label) ==
  /\ CanSleep
  /\ state' = [state EXCEPT ![current] = "SLEEP"]
  /\ nums' = nums - 1
  /\ pc' = [pc EXCEPT ![current] = label]
  /\ UNCHANGED <<current, readyQ, slotVars, target, held, halted>>

Sleep ==
  /\ At("user") /\ "sleep" \in Ops
  /\ FallAsleep("sleeping")
  /\ \E q \in Queues : clientQ' = [clientQ EXCEPT ![q] = Append(@, current)]
  /\ UNCHANGED wq

(* thread_yield(THREAD_ANY) at the end of thread_sleep.  The caller may     *)
(* have been preempted before this line, and woken or killed since.         *)
AfterSleep == [pc EXCEPT ![current] =
                 IF @ = "sleeping" THEN "user" ELSE "waitAfter"]

SleepYield ==
  /\ At("sleeping") \/ At("waitSleeping")
  /\ state[current] # "KILLED"
  /\ IF readyQ = <<>>
     THEN /\ pc' = AfterSleep
          /\ UNCHANGED <<state, current, readyQ, wq, held>>
     ELSE Switch(Head(readyQ), Tail(readyQ), state, wq, AfterSleep)
  /\ SwitchKeeps

SleepKilled ==
  /\ At("sleeping") \/ At("waitSleeping")
  /\ state[current] = "KILLED"
  /\ Exit(0)

WakeFrom(q, n) ==
  /\ state' = Awaken(state, SubSeq(clientQ[q], 1, n))
  /\ readyQ' = readyQ \o SubSeq(clientQ[q], 1, n)
  /\ clientQ' = [clientQ EXCEPT ![q] = SubSeq(@, n + 1, Len(@))]
  /\ nums' = nums + n
  /\ UNCHANGED <<current, wq, slotVars, target, held, halted>>

WakeupOne ==
  /\ At("user") /\ "wakeup" \in Ops
  /\ \E q \in Queues : clientQ[q] # <<>> /\ WakeFrom(q, 1)
  /\ UNCHANGED pc

WakeupAll ==
  /\ At("user") /\ "wakeup" \in Ops
  /\ \E q \in Queues : clientQ[q] # <<>> /\ WakeFrom(q, Len(clientQ[q]))
  /\ UNCHANGED pc

-----------------------------------------------------------------------------
(* thread_wait.  Only thread_sleep and the part after it block the timer.   *)

Goto(label) == pc' = [pc EXCEPT ![current] = label]

Wait ==
  /\ At("user") /\ "wait" \in Ops
  /\ \E t \in Tid \ {current}, pointer \in BOOLEAN :
       /\ target' = [target EXCEPT ![current] = t]
       /\ IF \/ state[t] = "EXITED"
             \/ state[t] = "UNINITIALIZED" /\ exitCode[t] # NoCode /\ pointer
          THEN Goto(IF pointer THEN "waitTake" ELSE "waitNull")
          ELSE Goto("waitCheck")
  /\ UNCHANGED <<state, current, readyQ, nums, wq, clientQ, slotVars, held, halted>>

(* The call returns to the client; its locals are gone.                     *)
WaitReturns ==
  /\ Goto("user")
  /\ target' = [target EXCEPT ![current] = NoTid]
  /\ held' = [held EXCEPT ![current] = "live"]

WaitTake ==
  /\ At("waitTake")
  /\ Goto("waitReset")
  /\ UNCHANGED <<state, current, readyQ, nums, wq, clientQ, slotVars, target, held, halted>>

WaitNull == At("waitNull") /\ HaltAs("wild")

WaitReset ==
  /\ At("waitReset")
  /\ exitCode' = [exitCode EXCEPT ![target[current]] = NoCode]
  /\ WaitReturns
  /\ UNCHANGED <<state, current, readyQ, nums, wq, clientQ, waitingOn, halted>>

WaitInvalid ==
  /\ At("waitCheck")
  /\ state[target[current]] = "UNINITIALIZED"
  /\ WaitReturns
  /\ UNCHANGED <<state, current, readyQ, nums, wq, clientQ, slotVars, halted>>

(* Lines 736 to 747, up to the read of the target's wq: the timer in        *)
(* between brings about nothing that it does not just before the test or    *)
(* just after the read, when the target's slot is swept or reused.          *)
WaitCommit ==
  /\ At("waitCheck")
  /\ state[target[current]] # "UNINITIALIZED"
  /\ waitingOn' = [waitingOn EXCEPT ![current] = target[current]]
  /\ held' = [held EXCEPT ![current] = "live"]
  /\ Goto("waitSleep")
  /\ UNCHANGED <<state, current, readyQ, nums, wq, clientQ, exitCode, target, halted>>

WaitSleep ==
  /\ At("waitSleep")
  /\ held[current] = "live"
  /\ FallAsleep("waitSleeping")
  /\ wq' = [wq EXCEPT ![target[current]] = Append(@, current)]
  /\ UNCHANGED clientQ

(* The queue is no thread's any more.  The caller sleeps in it all the same, *)
(* where no thread_wakeup looks.                                            *)
WaitSleepLost ==
  /\ At("waitSleep")
  /\ held[current] # "live"
  /\ FallAsleep("waitSleeping")
  /\ UNCHANGED <<wq, clientQ>>

(* Or what was freed is in use again, and enqueue follows its bytes.        *)
WaitSleepWild ==
  /\ At("waitSleep")
  /\ held[current] = "freed"
  /\ CanSleep
  /\ HaltAs("wild")

(* thread_sleep returned THREAD_NONE before it looked at the queue, which   *)
(* thread_wait does not notice.                                             *)
WaitSleepNone ==
  /\ At("waitSleep")
  /\ nums = 1
  /\ Goto("waitAfter")
  /\ UNCHANGED <<state, current, readyQ, nums, wq, clientQ, slotVars, target, held,
                 halted>>

WaitCollect ==
  /\ At("waitAfter")
  /\ exitCode[target[current]] # NoCode
  /\ exitCode' = [exitCode EXCEPT ![target[current]] = NoCode]
  /\ WaitReturns
  /\ UNCHANGED <<state, current, readyQ, nums, wq, clientQ, waitingOn, halted>>

WaitKilled ==
  /\ At("waitAfter")
  /\ exitCode[target[current]] = NoCode
  /\ state[current] = "KILLED"
  /\ Exit(exitCode[current])

WaitTooLate ==
  /\ At("waitAfter")
  /\ exitCode[target[current]] = NoCode
  /\ state[current] # "KILLED"
  /\ waitingOn' = [waitingOn EXCEPT ![target[current]] = NoTid]
  /\ WaitReturns
  /\ UNCHANGED <<state, current, readyQ, nums, wq, clientQ, exitCode, halted>>

-----------------------------------------------------------------------------
(* A stopped process stays stopped.                                         *)
Stopped == halted # "no" /\ UNCHANGED vars

Next ==
  \/ Create \/ CreateNoMemory
  \/ YieldAny \/ YieldTo \/ YieldKilled
  \/ Preempt \/ PreemptKilled
  \/ ThreadExit \/ ExitYield \/ ExitProcess
  \/ KillAwake \/ KillWaiter \/ KillLost \/ KillSleeperFails
  \/ Sleep \/ SleepYield \/ SleepKilled \/ WakeupOne \/ WakeupAll
  \/ Wait \/ WaitTake \/ WaitNull \/ WaitReset \/ WaitInvalid \/ WaitCommit
  \/ WaitSleep \/ WaitSleepLost \/ WaitSleepWild \/ WaitSleepNone
  \/ WaitCollect \/ WaitKilled \/ WaitTooLate
  \/ Stopped

Spec == Init /\ [][Next]_vars

(* The handler re-arms the timer every time, so the signal keeps coming.    *)
Tick == Preempt \/ PreemptKilled
FairSpec == Spec /\ WF_vars(Tick)

-----------------------------------------------------------------------------
(* Properties.                                                             *)

Schedulable == {"RUNNING", "KILLED"}

(* Every variable has its type.  nums is an Int here; NumsExact says which. *)
TypeOK ==
  /\ state \in [Tid -> ThreadState]
  /\ current \in Tid
  /\ readyQ \in Seq(Tid)
  /\ nums \in Int
  /\ wq \in [Tid -> Seq(Tid)]
  /\ clientQ \in [Queues -> Seq(Tid)]
  /\ exitCode \in [Tid -> ExitCodes \cup {NoCode, 0, KillCode}]
  /\ waitingOn \in [Tid -> Tid \cup {NoTid}]
  /\ pc \in [Tid -> PC]
  /\ target \in [Tid -> Tid \cup {NoTid}]
  /\ held \in [Tid -> Hold]
  /\ halted \in Halt

(* nums_existing_threads is kept by hand at seven places (lines 209, 271,   *)
(* 282, 529, 648, 685, 707) and decides whether a thread may sleep or the   *)
(* process ends.  It always counts the ready queue plus the running thread. *)
NumsExact ==
  nums = Len(readyQ) + (IF state[current] \in Schedulable THEN 1 ELSE 0)

(* thread_sleep promises that its caller leaves the processor: there is     *)
(* always a thread for its final thread_yield to run (line 653), so a       *)
(* sleeping thread never falls back into the client's code.                 *)
SleeperLeaves ==
  /\ state[current] = "SLEEP" => readyQ # <<>>
  /\ pc[current] \notin {"sleeping", "waitSleeping", "exit"} =>
       state[current] \in Schedulable

(* A thread waits in one place at a time: no queue holds it twice, no two   *)
(* queues hold it, the ready queue holds no running, sleeping or dead       *)
(* thread, the wait queues hold only sleeping ones.                         *)
Placed(st, cur, rq, wqs, cqs) ==
  /\ IsInjective(rq)
  /\ \A t \in Range(rq) : t # cur /\ st[t] \in {"READY", "KILLED"}
  /\ \A t \in Tid :
       /\ IsInjective(wqs[t])
       /\ \A u \in Range(wqs[t]) : st[u] = "SLEEP"
       /\ \A u \in Tid \ {t} : Range(wqs[t]) \cap Range(wqs[u]) = {}
       /\ \A q \in Queues : Range(wqs[t]) \cap Range(cqs[q]) = {}
  /\ \A q \in Queues :
       /\ IsInjective(cqs[q])
       /\ \A u \in Range(cqs[q]) : st[u] = "SLEEP"
       /\ \A r \in Queues \ {q} : Range(cqs[q]) \cap Range(cqs[r]) = {}
OnePlace == Placed(state, current, readyQ, wq, clientQ)

(* The stack of a thread that can still run is never given away: the sweep  *)
(* and the reuse of slots touch no thread that holds the processor or sits  *)
(* in a queue.                                                              *)
ResumableHasStack ==
  \A t \in Tid :
    \/ t = current \/ t \in Range(readyQ)
    \/ \E u \in Tid : t \in Range(wq[u])
    \/ \E q \in Queues : t \in Range(clientQ[q])
    => /\ state[t] \in {"UNINITIALIZED", "EXITED"} => t = current /\ pc[t] = "exit"
       /\ pc[t] = "exit" => t = current /\ state[t] = "EXITED"

(* No thread is forgotten: a READY thread is in the ready queue.            *)
ReadyIsQueued == \A t \in Tid : state[t] = "READY" => t \in Range(readyQ)

(* thread_wait tests its target in line 736 and goes to sleep for it in     *)
(* thread_sleep, and the target may exit in between.  A waiter is forgotten *)
(* only if the slot of its target is given up after line 747 read its       *)
(* queue.  Any other sleeper in thread_wait is in the queue of a thread     *)
(* that has not exited and will wake it: whoever comes back to thread_wait  *)
(* has swept first.                                                         *)
LostOnlyInRace ==
  \A t \in Tid :
    InWait(t) /\ held[t] = "live"
      => t \in Range(wq[target[t]]) /\ state[target[t]] \notin Vacant

(* First come, first served: who is ready keeps its place in front of all   *)
(* that come later, and leaves the ready queue only to run.  Who leaves a   *)
(* wait queue leaves from its front, in order, to the end of the ready one. *)
Before(q, a, b) == \E i, j \in 1 .. Len(q) : i < j /\ q[i] = a /\ q[j] = b
KeepsPlaces(q, r) ==
  \A a \in Range(q) \cap Range(r) : \A b \in Range(r) \ {a} :
    b \notin Range(q) \/ Before(q, a, b) => Before(r, a, b)
FifoStep ==
  /\ KeepsPlaces(readyQ, readyQ')
  /\ Range(readyQ) \subseteq Range(readyQ') \cup {current'}
  /\ \A q \in Queues : \E n \in 0 .. Len(clientQ[q]) :
       /\ IsPrefix(SubSeq(clientQ[q], n + 1, Len(clientQ[q])), clientQ'[q])
       /\ IsSuffix(SubSeq(clientQ[q], 1, n), readyQ')
Fifo == [][FifoStep]_vars

(* Under the timer a ready thread gets the processor, whatever the others   *)
(* do, unless the process stops.                                            *)
ReadyRuns ==
  \A t \in Tid :
    t \in Range(readyQ) ~> (current = t \/ halted # "no")

(* A thread that was killed while it was ready comes to its end, or falls   *)
(* asleep before.  Line 644 forgets the kill; against thread.h:81, "it      *)
(* should not run any further", such a thread goes on when it is woken.     *)
KilledEnds ==
  \A t \in Tid :
    (t \in Range(readyQ) /\ state[t] = "KILLED")
      ~> (state[t] \in Vacant \cup {"SLEEP"} \/ halted # "no")

=============================================================================
