-------------------------- MODULE MCLibraryHistory --------------------------
(***************************************************************************)
(* Instances of LibraryHistory for TLC.                                    *)
(***************************************************************************)
EXTENDS LibraryHistory

MCQueues == {lockQ, cvQ}

(* Threads that exit and wait for each other.                               *)
MCExitWaitOps == {"create", "exit", "wait"}

(* Threads that meet on a condition variable.                               *)
MCCvOps == {"acquire", "cvWait", "signal"}

=============================================================================
