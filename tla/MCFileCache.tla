----------------------------- MODULE MCFileCache -----------------------------
(***************************************************************************)
(* An instance of FileCache for TLC: six names in two chains, of which    *)
(* two fit at a time; one has a zero byte inside, one is empty, one is too *)
(* large, one is missing.                                                  *)
(***************************************************************************)
EXTENDS FileCache, TLC

CONSTANTS w1, w2, w3, small, middle, picture, huge, empty, absent

MCWorkers == {w1, w2, w3}
MCFiles == {small, middle, picture, huge, empty, absent}
MCMissing == {absent}
MCBinary == {picture}
MCFileSize ==
  small :> 1 @@ middle :> 2 @@ picture :> 3 @@ huge :> 5 @@ empty :> 0 @@ absent :> 1
MCBucket ==
  small :> 0 @@ middle :> 0 @@ picture :> 1 @@ huge :> 1 @@ empty :> 1 @@ absent :> 0

MCSymmetry == Permutations(MCWorkers)

=============================================================================
