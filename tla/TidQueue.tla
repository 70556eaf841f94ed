------------------------------ MODULE TidQueue ------------------------------
(***************************************************************************)
(* What Threads uses of a queue of thread identifiers: they are appended,  *)
(* leave at the front, or are taken out from wherever they are.            *)
(***************************************************************************)
EXTENDS Sequences, SequencesExt

CONSTANTS Tid, None, Invalid

VARIABLES
  items,
  answer   \* what the last operation returned

Init == items = <<>> /\ answer = None

Put(t) == items' = Append(items, t) /\ answer' = None

Get ==
  \/ items = <<>> /\ answer' = None /\ UNCHANGED items
  \/ items # <<>> /\ answer' = Head(items) /\ items' = Tail(items)

TakeOut(t) ==
  /\ items' = RemoveFirst(items, t)
  /\ answer' = IF t \in Range(items) THEN t ELSE Invalid

Discard == items' = <<>> /\ answer' = None

Next == Get \/ Discard \/ \E t \in Tid : Put(t) \/ TakeOut(t)

Spec == Init /\ [][Next]_<<items, answer>>

=============================================================================
