------------------------------- MODULE MCLocks -------------------------------
(***************************************************************************)
(* Instances of Locks for TLC.                                             *)
(***************************************************************************)
EXTENDS Locks

MCQueues == {lockQ, cvQ}

MCCreateKill == {"create", "kill"}

MCMonitor == {"acquire", "release", "cvWait", "signal", "broadcast", "cvDestroy"}

=============================================================================
