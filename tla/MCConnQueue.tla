----------------------------- MODULE MCConnQueue -----------------------------
(***************************************************************************)
(* An instance of ConnQueue for TLC: three workers, two places in the        *)
(* buffer, and connections enough to go around the ring twice.             *)
(***************************************************************************)
EXTENDS ConnQueue

CONSTANTS w1, w2, w3

MCWorkers == {w1, w2, w3}

=============================================================================
