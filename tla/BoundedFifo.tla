----------------------------- MODULE BoundedFifo -----------------------------
(***************************************************************************)
(* A queue of at most capacity items that leave in the order they came.    *)
(***************************************************************************)
EXTENDS Naturals, Sequences

CONSTANT Item

VARIABLES items, capacity

vars == <<items, capacity>>

Init == items = <<>> /\ capacity \in Nat

Put(x) == Len(items) < capacity /\ items' = Append(items, x)

Get == items # <<>> /\ items' = Tail(items)

Next == (Get \/ \E x \in Item : Put(x)) /\ UNCHANGED capacity

Spec == Init /\ [][Next]_vars

=============================================================================
