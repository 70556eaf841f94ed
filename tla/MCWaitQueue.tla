----------------------------- MODULE MCWaitQueue -----------------------------
(***************************************************************************)
(* An instance of WaitQueue for TLC: three threads that may be queued more *)
(* than once, four nodes.                                                  *)
(***************************************************************************)
EXTENDS WaitQueue, TLC

CONSTANTS n1, n2, n3, n4

MCNode == {n1, n2, n3, n4}

MCSymmetry == Permutations(MCNode)

=============================================================================
