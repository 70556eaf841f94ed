---------------------------- MODULE MCWordCount ----------------------------
(***************************************************************************)
(* Instances of WordCount for TLC: all arrays of up to six characters      *)
(* (three, to show what the code does not keep) out of a, m and the space. *)
(* The codes and the hash are those of the program, with a smaller power   *)
(* of two for the width of its result; a and m are 12 apart, so that the   *)
(* words a and m share a chain in the tables of arrays of two, three and   *)
(* six characters.                                                         *)
(***************************************************************************)
EXTENDS WordCount

MCLetters == {97, 109}
MCSpaces == {32}
MCTails == {<<>>, <<97>>}

=============================================================================
