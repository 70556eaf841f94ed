------------------------------ MODULE WaitQueue ------------------------------
(***************************************************************************)
(* The linked list behind every queue of src/threads/thread.c: struct      *)
(* wait_queue with its head and tail, enqueue, dequeue_element,            *)
(* dequeue_element_from_head, wait_queue_create and wait_queue_destroy.    *)
(*                                                                         *)
(* Each of them runs with the timer signal blocked, and is one step.  The  *)
(* memory of a freed node keeps its content and can be handed out again;   *)
(* malloc may hand out any free node.                                      *)
(*                                                                         *)
(* A name with a suffix _M... is the definition below it with one mistake; *)
(* no specification uses it.                                               *)
(***************************************************************************)
EXTENDS Integers, Sequences, FiniteSets, SequencesExt, FiniteSetsExt

CONSTANTS
  Tid,    \* thread identifiers
  Node,   \* places for a struct thread_node
  Null    \* the pointer NULL

ASSUME NodeAssumption == IsFiniteSet(Node) /\ Null \notin Node
ASSUME TidAssumption == Tid \subseteq Nat

VARIABLES
  head, tail,      \* the fields of struct wait_queue
  tnumber, next,   \* the fields of each struct thread_node
  heap,            \* nodes that are allocated
  answer           \* what the last operation returned

vars == <<head, tail, tnumber, next, heap, answer>>

Pointer == Node \cup {Null}
None == -4      \* THREAD_NONE
Invalid == -3   \* THREAD_INVALID

-----------------------------------------------------------------------------
(* The nodes that a loop from head along next visits, in order.             *)
Visit[k \in 0 .. Cardinality(Node)] ==
  IF k = 0 THEN head
  ELSE IF Visit[k - 1] = Null THEN Null ELSE next[Visit[k - 1]]
Length == Cardinality({k \in 0 .. Cardinality(Node) - 1 : Visit[k] # Null})
List == [i \in 1 .. Length |-> Visit[i - 1]]

-----------------------------------------------------------------------------
(* wait_queue_create, and a heap that has never been used.                  *)
Init ==
  /\ head = Null /\ tail = Null
  /\ tnumber = [n \in Node |-> 0] /\ next = [n \in Node |-> Null]
  /\ heap = {}
  /\ answer = None

(* The old last node points to the new one.                                 *)
Linked_MHead(n) == [next EXCEPT ![n] = Null, ![head] = n]
Linked(n) == [next EXCEPT ![n] = Null, ![tail] = n]

Enqueue(t) ==
  \E n \in Node \ heap :
    /\ heap' = heap \cup {n}
    /\ tnumber' = [tnumber EXCEPT ![n] = t]
    /\ \/ head = Null /\ head' = n /\ next' = [next EXCEPT ![n] = Null]
       \/ head # Null /\ head' = head /\ next' = Linked(n)
    /\ tail' = n
    /\ answer' = None

Free(n) == heap' = heap \ {n} /\ UNCHANGED tnumber

DequeueFromHead ==
  \/ /\ head = Null
     /\ answer' = None
     /\ UNCHANGED <<head, tail, tnumber, next, heap>>
  \/ /\ head # Null
     /\ answer' = tnumber[head]
     /\ head' = next[head]
     /\ tail' = IF next[head] = Null THEN Null ELSE tail
     /\ Free(head)
     /\ UNCHANGED next

(* dequeue_element: t is at the front, or behind it, or nowhere.            *)
Found(t) == {i \in 2 .. Length : tnumber[List[i]] = t}

DequeueFront(t) ==
  /\ head # Null /\ tnumber[head] = t
  /\ answer' = t
  /\ head' = next[head]
  /\ tail' = IF head' = Null THEN Null ELSE tail
  /\ Free(head)
  /\ UNCHANGED next

TailWithout_MKept(n, before) == tail
TailWithout(n, before) == IF n = tail THEN before ELSE tail

DequeueInside(t) ==
  /\ head # Null /\ tnumber[head] # t /\ Found(t) # {}
  /\ answer' = t
  /\ LET i == Min(Found(t))
     IN /\ next' = [next EXCEPT ![List[i - 1]] = next[List[i]]]
        /\ tail' = TailWithout(List[i], List[i - 1])
        /\ Free(List[i])
  /\ UNCHANGED head

DequeueMissing(t) ==
  /\ t \notin {tnumber[List[i]] : i \in 1 .. Length}
  /\ answer' = Invalid
  /\ UNCHANGED <<head, tail, tnumber, next, heap>>

(* wait_queue_destroy, and wait_queue_create for the next thread in that    *)
(* slot.                                                                    *)
Recreate ==
  /\ heap' = heap \ Range(List)
  /\ head' = Null /\ tail' = Null
  /\ answer' = None
  /\ UNCHANGED <<tnumber, next>>

Next ==
  \/ \E t \in Tid :
       \/ Enqueue(t)
       \/ DequeueFront(t) \/ DequeueInside(t) \/ DequeueMissing(t)
  \/ DequeueFromHead
  \/ Recreate

Spec == Init /\ [][Next]_vars

-----------------------------------------------------------------------------
(* Properties.                                                             *)

(* No loop of the library leaves the allocated nodes or runs for ever, no   *)
(* node is lost, and the next enqueue appends where the list ends.          *)
ListSound ==
  /\ Range(List) = heap
  /\ Cardinality(heap) = Length
  /\ \A i \in 1 .. Length : next[List[i]] = Null <=> i = Length
  /\ head # Null => tail = List[Length]

(* The list is the queue that Threads takes it for: Append, Head and Tail,  *)
(* RemoveFirst, with the return values that its callers test.               *)
Queue == INSTANCE TidQueue WITH
           items <- [i \in 1 .. Length |-> tnumber[List[i]]]
ImplementsTidQueue == Queue!Spec

=============================================================================
