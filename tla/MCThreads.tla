------------------------------ MODULE MCThreads ------------------------------
(***************************************************************************)
(* Instances of Threads for TLC.                                           *)
(***************************************************************************)
EXTENDS Threads

(* Programs that sleep and wake each other.                                 *)
MCSleepOps == {"create", "yield", "yieldTo", "exit", "kill", "sleep", "wakeup",
               "nomem"}

(* Programs that wait for each other; the timer does the yielding.          *)
MCWaitOps == {"create", "exit", "kill", "wait"}

=============================================================================
