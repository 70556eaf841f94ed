----------------------------- MODULE MCExchange -----------------------------
(***************************************************************************)
(* An instance of Exchange for TLC: the way takes a request and no more,  *)
(* answers are longer than the buffers they go through, and files shorter  *)
(* and longer than a line buffer, with and without line ends.              *)
(***************************************************************************)
EXTENDS Exchange

MCBodies == {<<>>, <<"x">>, <<"nl", "x">>, <<"x", "nl", "nl">>, <<"x", "x", "x", "x">>,
             <<"x", "nl", "nl", "x", "x", "nl">>}

=============================================================================
