--------------------------- MODULE LibraryHistory ---------------------------
(***************************************************************************)
(* The thread library with history variables, to say what thread.h         *)
(* promises of thread_wait and cv_signal and the code does not keep.  The  *)
(* variables only observe.                                                 *)
(***************************************************************************)
EXTENDS Locks, FiniteSets

VARIABLES
  collectors, \* of each thread t that has lived, the threads whose thread_wait
              \* for it has returned success
  twice,      \* whether any thread ever had two of them
  unheard     \* whether a cv_signal ever woke nobody although a thread was
              \* in cv_wait

hvars == <<lvars, collectors, twice, unheard>>

(* A new thread takes the identifier t.                                     *)
Reborn(t) == pc[t] = "exit" /\ pc'[t] = "stub"

(* The current thread returns from thread_wait with success for t: at 734,  *)
(* or at 767.                                                               *)
Collects(t) ==
  /\ target[current] = t /\ pc'[current] = "user"
  /\ \/ pc[current] = "waitReset"
     \/ pc[current] = "waitAfter" /\ exitCode[t] # NoCode

(* Threads that wait on the condition variable, asleep or on their way.     *)
InCvWait == {t \in Tid : pc[t] = "cvGap"} \cup Range(clientQ[cvQ])

HInit ==
  LInit /\ collectors = [t \in {0} |-> {}] /\ twice = FALSE /\ unheard = FALSE

HNext ==
  /\ LNext
  /\ collectors' = [t \in DOMAIN collectors \cup {u \in Tid : Reborn(u)} |->
                     CASE Reborn(t) -> {}
                       [] Collects(t) -> collectors[t] \cup {current}
                       [] OTHER -> collectors[t]]
  /\ twice' = (twice \/ \E t \in DOMAIN collectors' : Cardinality(collectors'[t]) > 1)
  /\ unheard' = (unheard \/ (CvSignal /\ InCvWait # {} /\ clientQ' = clientQ))

HSpec == HInit /\ [][HNext]_hvars

-----------------------------------------------------------------------------
(* Sentences that the code does not keep.                                  *)

(* thread.h:126: "At most one thread can successfully wait on a target      *)
(* thread".                                                                 *)
OneWaiterSucceeds == ~twice

(* thread.h:125: "If the target thread has already exited, then             *)
(* thread_wait() returns immediately", so nobody sleeps in there for a      *)
(* thread that is gone.                                                     *)
NobodyAwaitsTheDead == \A t \in Tid : InWait(t) => state[target[t]] \notin Vacant

(* thread.h:173: cv_signal will "Wake up one thread that is waiting on the  *)
(* condition variable cv".                                                  *)
SignalReachesWaiter == ~unheard

(* Each of the three is promised of every program.  What is checked is      *)
(* less: that at each moment at least one of them is kept.  A program that  *)
(* comes to a state in which all three are broken refutes each.             *)
SomePromiseKept == OneWaiterSucceeds \/ NobodyAwaitsTheDead \/ SignalReachesWaiter

=============================================================================
