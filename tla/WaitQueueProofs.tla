--------------------------- MODULE WaitQueueProofs ---------------------------
(***************************************************************************)
(* Proofs about the linked list of the thread library (WaitQueue).         *)
(*                                                                         *)
(* The invariant names the list: some sequence of nodes without repetition *)
(* has exactly the allocated nodes, follows head along the next fields, and*)
(* ends at tail.  The loop of WaitQueue visits that sequence (ListIs), so  *)
(* each operation is followed on the sequence, for any number of nodes and *)
(* whichever of them malloc hands out.                                     *)
(***************************************************************************)
EXTENDS WaitQueue, SequencesExt, FiniteSetsExt, Functions, FiniteSetTheorems,
        WellFoundedInduction, TLAPS

-----------------------------------------------------------------------------
(* Numbers and sequences.                                                  *)

(* Every set of natural numbers has a least one.                            *)
LEMMA LeastOf ==
  ASSUME NEW T, T \subseteq Nat, T # {}
  PROVE  \E m \in T : \A k \in T : m <= k
<1>1. PICK m \in T : \A k \in T : ~ (<<k, m>> \in OpToRel(<, Nat))
  BY WFMin, NatLessThanWellFounded
<1>2. \A k \in T : ~ (k < m)
  BY <1>1 DEF OpToRel
<1> QED
  BY <1>2

(* Membership and freedom from duplicates, by positions.                    *)
LEMMA Positions ==
  ASSUME NEW S, NEW q \in Seq(S)
  PROVE  /\ Len(q) \in Nat
         /\ \A i \in 1 .. Len(q) : q[i] \in S /\ q[i] \in Range(q)
         /\ \A y \in Range(q) : \E i \in 1 .. Len(q) : y = q[i]
         /\ IsInjective(q) <=> \A i, j \in 1 .. Len(q) : q[i] = q[j] => i = j
<1>1. Len(q) \in Nat /\ DOMAIN q = 1 .. Len(q)
  OBVIOUS
<1>2. \A i \in 1 .. Len(q) : q[i] \in S
  OBVIOUS
<1> QED
  BY <1>1, <1>2 DEF Range, IsInjective

(* The members of a concatenation, by position.                             *)
LEMMA ConcatPositions ==
  ASSUME NEW S, NEW p \in Seq(S), NEW q \in Seq(S)
  PROVE  /\ p \o q \in Seq(S)
         /\ Len(p \o q) = Len(p) + Len(q)
         /\ \A i \in 1 .. Len(p \o q) :
              (p \o q)[i] = IF i <= Len(p) THEN p[i] ELSE q[i - Len(p)]
<1>1. Len(p) \in Nat /\ Len(q) \in Nat
  OBVIOUS
<1> QED
  BY <1>1

(* A member leaves its place, and those behind it move up.                  *)
LEMMA TakenAt ==
  ASSUME NEW S, NEW q \in Seq(S), NEW k \in 1 .. Len(q)
  PROVE  /\ RemoveAt(q, k) \in Seq(S)
         /\ Len(RemoveAt(q, k)) = Len(q) - 1
         /\ \A i \in 1 .. Len(q) - 1 : RemoveAt(q, k)[i] = IF i < k THEN q[i] ELSE q[i + 1]
<1> DEFINE before == SubSeq(q, 1, k - 1)
           after == SubSeq(q, k + 1, Len(q))
           r == before \o after
<1>1. Len(q) \in Nat /\ k \in 1 .. Len(q)
  OBVIOUS
<1>2. /\ before \in Seq(S) /\ Len(before) = k - 1
      /\ \A i \in 1 .. k - 1 : before[i] = q[i]
  OBVIOUS
<1>3. /\ after \in Seq(S) /\ Len(after) = Len(q) - k
      /\ \A i \in 1 .. Len(q) - k : after[i] = q[i + k]
  OBVIOUS
<1> HIDE DEF before, after
<1>4. /\ r \in Seq(S) /\ Len(r) = Len(before) + Len(after)
      /\ \A i \in 1 .. Len(r) :
           r[i] = IF i <= Len(before) THEN before[i] ELSE after[i - Len(before)]
  BY <1>2, <1>3, ConcatPositions, Zenon
<1> HIDE DEF r
<1>5. /\ r \in Seq(S) /\ Len(r) = (k - 1) + (Len(q) - k)
      /\ \A i \in 1 .. Len(r) :
           r[i] = IF i <= k - 1 THEN before[i] ELSE after[i - (k - 1)]
  BY <1>2, <1>3, <1>4
<1>6. Len(r) = Len(q) - 1
  BY <1>1, <1>5
<1>7. ASSUME NEW i \in 1 .. Len(r), i < k PROVE r[i] = q[i]
  BY <1>1, <1>2, <1>5, <1>6, <1>7
<1>8. ASSUME NEW i \in 1 .. Len(r), ~(i < k) PROVE r[i] = q[i + 1]
  <2>1. i - (k - 1) \in 1 .. Len(q) - k /\ (i - (k - 1)) + k = i + 1
    BY <1>1, <1>6, <1>8
  <2>2. r[i] = after[i - (k - 1)]
    BY <1>1, <1>5, <1>8
  <2> QED
    BY <1>3, <2>1, <2>2
<1>9. RemoveAt(q, k) = r
  BY DEF RemoveAt, r, before, after
<1> QED
  BY <1>5, <1>6, <1>7, <1>8, <1>9

(* RemoveFirst takes the member from the first place where it is.           *)
LEMMA FirstPlace ==
  ASSUME NEW S, NEW q \in Seq(S), NEW k \in 1 .. Len(q), \A i \in 1 .. k - 1 : q[i] # q[k]
  PROVE  RemoveFirst(q, q[k]) = RemoveAt(q, k)
<1> DEFINE I == {i \in 1 .. Len(q) : q[i] = q[k]}
<1>1. k \in I /\ \A i \in I : k <= i
  OBVIOUS
<1>2. Min(I) = k
  <2>1. ASSUME NEW x \in I, \A y \in I : x <= y PROVE x = k
    BY <1>1, <2>1
  <2> HIDE DEF I
  <2> QED
    BY <1>1, <2>1 DEF Min
<1>3. I # {}
  BY <1>1
<1> QED
  BY <1>2, <1>3, Zenon DEF RemoveFirst, SelectInSeq

-----------------------------------------------------------------------------
Size == Cardinality(Node)

(* The sequence s of nodes is what follows the pointer h along the field nx. *)
Chained(s, h, nx) ==
  /\ h = IF s = <<>> THEN Null ELSE s[1]
  /\ \A i \in 1 .. Len(s) : nx[s[i]] = IF i = Len(s) THEN Null ELSE s[i + 1]

(* It is the list: each allocated node is in it once, and the tail is its    *)
(* end.                                                                      *)
IsList(s) ==
  /\ s \in Seq(Node) /\ IsInjective(s)
  /\ Range(s) = heap
  /\ Chained(s, head, next)
  /\ tail = IF s = <<>> THEN Null ELSE s[Len(s)]

IInv ==
  /\ tnumber \in [Node -> Nat] /\ next \in [Node -> Pointer]
  /\ \E s \in Seq(Node) : IsList(s)

-----------------------------------------------------------------------------
(* The loop that visits the nodes.                                           *)

Walks(v, h, nx) ==
  v = [k \in 0 .. Size |-> IF k = 0 THEN h
                           ELSE IF v[k - 1] = Null THEN Null ELSE nx[v[k - 1]]]

(* A loop along a chain visits its nodes in order, then meets NULL.          *)
LEMMA Walked ==
  ASSUME NEW s \in Seq(Node), Len(s) <= Size, NEW h, NEW nx, Chained(s, h, nx),
         NEW v, v = CHOOSE w : Walks(w, h, nx)
  PROVE  \A k \in 0 .. Size : v[k] = IF k < Len(s) THEN s[k + 1] ELSE Null
<1> DEFINE w == [k \in 0 .. Size |-> IF k < Len(s) THEN s[k + 1] ELSE Null]
           n == Len(s)
<1>1. n \in Nat /\ Size \in Nat /\ n <= Size /\ \A i \in 1 .. n : s[i] \in Node /\ s[i] # Null
  BY NodeAssumption, FS_CardinalityType DEF Size
<1>2. /\ h = IF n = 0 THEN Null ELSE s[1]
      /\ \A i \in 1 .. n : nx[s[i]] = IF i = n THEN Null ELSE s[i + 1]
  BY DEF Chained
<1> HIDE DEF n
<1>3. ASSUME NEW k \in 0 .. Size
      PROVE  w[k] = IF k = 0 THEN h ELSE IF w[k - 1] = Null THEN Null ELSE nx[w[k - 1]]
  <2>1. CASE k = 0
    BY <1>1, <1>2, <2>1 DEF n
  <2>2. CASE k # 0
    <3>1. k - 1 \in 0 .. Size /\ k \in 1 .. Size
      BY <1>1, <2>2
    <3>2. w[k - 1] = (IF k - 1 < n THEN s[k] ELSE Null) /\ w[k] = (IF k < n THEN s[k + 1] ELSE Null)
      BY <3>1 DEF n
    <3>3. CASE k - 1 < n
      <4>1. k \in 1 .. n
        BY <1>1, <3>1, <3>3
      <4> QED
        BY <1>1, <1>2, <2>2, <3>2, <3>3, <4>1, SMTT(30)
    <3>4. CASE ~ (k - 1 < n)
      BY <1>1, <2>2, <3>1, <3>2, <3>4
    <3> QED
      BY <3>3, <3>4
  <2> QED
    BY <2>1, <2>2
<1>4. Walks(w, h, nx)
  BY <1>3 DEF Walks
<1>5. Walks(v, h, nx)
  BY <1>4
<1>6. \A k \in 0 .. Size :
        v[k] = IF k = 0 THEN h ELSE IF v[k - 1] = Null THEN Null ELSE nx[v[k - 1]]
  BY <1>5 DEF Walks
<1> HIDE DEF w
<1> DEFINE T == {k \in 0 .. Size : v[k] # w[k]}
<1>7. ASSUME T # {} PROVE FALSE
  <2>1. PICK m \in T : \A k \in T : m <= k
    <3>1. T \subseteq Nat
      BY <1>1
    <3> QED
      BY <1>7, <3>1, LeastOf, Zenon
  <2>2. m # 0
    BY <1>1, <1>3, <1>6, <2>1
  <2>3. m - 1 \in 0 .. Size /\ ~ (m <= m - 1)
    BY <1>1, <2>1, <2>2
  <2>4. v[m - 1] = w[m - 1]
    BY <2>1, <2>3
  <2> QED
    BY <1>3, <1>6, <2>1, <2>2, <2>4
<1> QED
  BY <1>7 DEF w

(* So it sees the list.                                                      *)
LEMMA ListIs ==
  ASSUME NEW s, IsList(s)
  PROVE  Len(s) <= Size /\ Cardinality(heap) = Len(s) /\ Length = Len(s) /\ List = s
<1> DEFINE n == Len(s)
<1>1. s \in Seq(Node) /\ n \in Nat /\ Size \in Nat /\ Null \notin Node /\ IsFiniteSet(Node)
  BY NodeAssumption, FS_CardinalityType DEF IsList, Size
<1>2. s \in Injection(1 .. n, Node) /\ s \in Injection(1 .. n, heap)
      /\ s \in Surjection(1 .. n, heap)
  <2>1. s \in [1 .. n -> Node] /\ IsInjective(s)
    BY <1>1 DEF IsList
  <2>2. s \in [1 .. n -> heap] /\ \A x \in heap : \E i \in 1 .. n : s[i] = x
    BY <2>1 DEF IsList, Range
  <2> QED
    BY <2>1, <2>2 DEF Injection, Surjection
<1>3. IsFiniteSet(1 .. n) /\ Cardinality(1 .. n) = n
  BY <1>1, FS_Interval, SMTT(30)
<1>4. n <= Size
  BY <1>1, <1>2, <1>3, FS_Injection DEF Size
<1>5. Cardinality(heap) = n
  BY <1>2, <1>3, FS_Surjection
<1>6. \A k \in 0 .. Size : Visit[k] = IF k < n THEN s[k + 1] ELSE Null
  <2>1. Visit = CHOOSE w : Walks(w, head, next)
    BY DEF Visit, Walks, Size
  <2> QED
    BY <1>1, <1>4, <2>1, Walked DEF IsList
<1>7. {k \in 0 .. Size - 1 : Visit[k] # Null} = 0 .. n - 1
  <2>1. \A i \in 1 .. n : s[i] # Null
    BY <1>1
  <2> HIDE DEF n
  <2>2. \A k \in 0 .. Size - 1 : k \in 0 .. Size /\ (k < n => k + 1 \in 1 .. n)
    BY <1>1
  <2>3. \A k \in 0 .. n - 1 : k \in 0 .. Size - 1 /\ k < n
    BY <1>1, <1>4
  <2> QED
    BY <1>1, <1>6, <2>1, <2>2, <2>3, SMTT(30)
<1>8. Length = n
  <2>1. \A m \in Nat : Cardinality(0 .. m - 1) = m
    <3> TAKE m \in Nat
    <3>1. 0 \in Int /\ m - 1 \in Int
      OBVIOUS
    <3>2. Cardinality(0 .. m - 1) = IF 0 > m - 1 THEN 0 ELSE m - 1 - 0 + 1
      BY <3>1, FS_Interval, Zenon
    <3> QED
      BY <3>2
  <2> QED
    BY <1>1, <1>7, <2>1, Zenon DEF Length, Size
<1>9. List = s
  <2>1. \A i \in 1 .. n : Visit[i - 1] = s[i]
    <3> HIDE DEF n
    <3>1. \A i \in 1 .. n : i - 1 \in 0 .. Size /\ i - 1 < n /\ (i - 1) + 1 = i
      BY <1>1, <1>4
    <3> QED
      BY <1>6, <3>1
  <2>2. List = [i \in 1 .. n |-> s[i]]
    BY <1>8, <2>1 DEF List
  <2> QED
    BY <1>1, <2>2
<1> QED
  BY <1>4, <1>5, <1>8, <1>9

(* What the list has, seen from its nodes.                                   *)
LEMMA NodesFacts ==
  ASSUME NEW s, IsList(s)
  PROVE  /\ Len(s) \in Nat /\ Null \notin Node
         /\ \A i \in 1 .. Len(s) : s[i] \in Node /\ s[i] \in heap /\ s[i] # Null
         /\ \A x \in heap : x \in Node /\ \E i \in 1 .. Len(s) : s[i] = x
         /\ \A i, j \in 1 .. Len(s) : s[i] = s[j] => i = j
         /\ \A i \in 1 .. Len(s) : next[s[i]] = IF i = Len(s) THEN Null ELSE s[i + 1]
         /\ head = IF Len(s) = 0 THEN Null ELSE s[1]
         /\ tail = IF Len(s) = 0 THEN Null ELSE s[Len(s)]
<1>1. s \in Seq(Node) /\ Range(s) = heap /\ IsInjective(s) /\ Null \notin Node
  BY NodeAssumption DEF IsList
<1>2. s = <<>> <=> Len(s) = 0
  BY <1>1
<1>3. /\ Len(s) \in Nat
      /\ \A i \in 1 .. Len(s) : s[i] \in Node /\ s[i] \in heap
      /\ \A x \in heap : \E i \in 1 .. Len(s) : s[i] = x
      /\ \A i, j \in 1 .. Len(s) : s[i] = s[j] => i = j
  BY <1>1, Positions
<1>4. \A x \in heap : x \in Node
  BY <1>3
<1> QED
  BY <1>1, <1>2, <1>3, <1>4 DEF IsList, Chained

(* The converse, for the nodes H that are allocated next.                    *)
LEMMA ListFrom ==
  ASSUME NEW s \in Seq(Node), NEW H,
         \A i \in 1 .. Len(s) : s[i] \in H,
         \A x \in H : \E i \in 1 .. Len(s) : s[i] = x,
         \A i, j \in 1 .. Len(s) : s[i] = s[j] => i = j
  PROVE  IsInjective(s) /\ Range(s) = H /\ (s = <<>> <=> Len(s) = 0)
<1>1. \A y \in Range(s) : \E i \in 1 .. Len(s) : y = s[i]
  BY Positions
<1>2. \A i \in 1 .. Len(s) : s[i] \in Range(s)
  BY Positions
<1>3. Range(s) \subseteq H
  <2> SUFFICES ASSUME NEW y \in Range(s) PROVE y \in H
    OBVIOUS
  <2>1. PICK i \in 1 .. Len(s) : y = s[i]
    BY <1>1
  <2> QED
    BY <2>1
<1>4. IsInjective(s)
  BY Positions
<1>5. H \subseteq Range(s)
  <2> SUFFICES ASSUME NEW y \in H PROVE y \in Range(s)
    OBVIOUS
  <2>1. PICK i \in 1 .. Len(s) : s[i] = y
    OBVIOUS
  <2> QED
    BY <1>2, <2>1
<1>6. s = <<>> <=> Len(s) = 0
  OBVIOUS
<1> QED
  BY <1>3, <1>4, <1>5, <1>6

(* No node is lost, every loop ends, and the tail is the end.                *)
LEMMA SoundIf == IInv => ListSound
<1> SUFFICES ASSUME IInv PROVE ListSound
  OBVIOUS
<1>1. PICK s \in Seq(Node) : IsList(s)
  BY DEF IInv
<1>2. List = s /\ Length = Len(s) /\ Cardinality(heap) = Len(s)
  BY <1>1, ListIs
<1>3. /\ \A i \in 1 .. Len(s) : next[s[i]] = Null <=> i = Len(s)
      /\ head # Null => tail = s[Len(s)]
  <2>1. \A i \in 1 .. Len(s) : i # Len(s) => i + 1 \in 1 .. Len(s)
    BY <1>1, NodesFacts
  <2> QED
    BY <1>1, <2>1, NodesFacts, SMTT(30)
<1> QED
  BY <1>1, <1>2, <1>3 DEF ListSound, IsList

-----------------------------------------------------------------------------
(* The steps.                                                                *)

(* What the queue holds: the threads in the nodes.                           *)
Names(s) == [i \in 1 .. Len(s) |-> tnumber[s[i]]]

(* enqueue: a new node at the end.                                           *)
LEMMA EnqueueList ==
  ASSUME IInv, NEW s, IsList(s), NEW t \in Tid, Enqueue(t)
  PROVE  IInv' /\ \E r \in Seq(Node) : IsList(r)' /\ Names(r)' = Append(Names(s), t)
<1>1. PICK n \in Node \ heap :
        /\ heap' = heap \cup {n}
        /\ tnumber' = [tnumber EXCEPT ![n] = t]
        /\ \/ head = Null /\ head' = n /\ next' = [next EXCEPT ![n] = Null]
           \/ head # Null /\ head' = head /\ next' = [next EXCEPT ![n] = Null, ![tail] = n]
        /\ tail' = n
  BY DEF Enqueue, Linked
<1> DEFINE m == Len(s)
           r == Append(s, n)
<1>2. s \in Seq(Node) /\ m \in Nat
  BY DEF IsList
<1>3. /\ r \in Seq(Node) /\ Len(r) = m + 1 /\ r[m + 1] = n
      /\ \A i \in 1 .. m : r[i] = s[i]
  BY <1>2
<1> HIDE DEF r
<1>4. /\ m \in Nat /\ Null \notin Node
      /\ \A i \in 1 .. m : s[i] \in Node /\ s[i] \in heap /\ s[i] # Null
      /\ \A x \in heap : x \in Node /\ \E i \in 1 .. m : s[i] = x
      /\ \A i, j \in 1 .. m : s[i] = s[j] => i = j
      /\ \A i \in 1 .. m : next[s[i]] = IF i = m THEN Null ELSE s[i + 1]
      /\ head = IF m = 0 THEN Null ELSE s[1]
      /\ tail = IF m = 0 THEN Null ELSE s[m]
  BY NodesFacts
<1>5. Names(s) \in Seq(Nat) /\ Len(Names(s)) = m /\ \A i \in 1 .. m : Names(s)[i] = tnumber[s[i]]
  BY <1>4 DEF Names, IInv
<1> HIDE DEF m
<1>6. tnumber \in [Node -> Nat] /\ next \in [Node -> Pointer] /\ t \in Nat
  BY TidAssumption DEF IInv
<1>7. head = Null <=> m = 0
  <2>1. m # 0 => 1 \in 1 .. m
    BY <1>2
  <2> QED
    BY <1>4, <2>1
<1>8. m # 0 => m \in 1 .. m
  BY <1>2
<1>9. tnumber' \in [Node -> Nat] /\ next' \in [Node -> Pointer]
  BY <1>1, <1>6 DEF Pointer
<1>10. /\ next'[n] = Null
       /\ \A i \in 1 .. m : next'[s[i]] = IF i = m THEN n ELSE s[i + 1]
  <2>1. CASE m = 0
    BY <1>1, <1>6, <1>7, <2>1
  <2>2. CASE m # 0
    <3>1. tail = s[m] /\ tail # n /\ s[m] \in Node
      BY <1>1, <1>4, <1>8, <2>2
    <3>2. next' = [next EXCEPT ![n] = Null, ![tail] = n]
      BY <1>1, <1>7, <2>2
    <3>3. ASSUME NEW i \in 1 .. m PROVE next'[s[i]] = IF i = m THEN n ELSE s[i + 1]
      <4>1. s[i] \in Node /\ s[i] # n
        BY <1>1, <1>4
      <4>2. i # m => s[i] # tail
        BY <1>4, <1>8, <2>2, <3>1
      <4> QED
        BY <1>4, <1>6, <3>1, <3>2, <4>1, <4>2
    <3> QED
      BY <1>6, <3>1, <3>2, <3>3
  <2> QED
    BY <2>1, <2>2
<1>11. IsList(r)'
  <2>1. \A i \in 1 .. m + 1 : i \in 1 .. m \/ i = m + 1
    BY <1>2
  <2>2. \A i \in 1 .. m : i \in 1 .. m + 1 /\ i # m + 1 /\ (i # m => i + 1 \in 1 .. m)
    BY <1>2
  <2>3. m + 1 \in 1 .. m + 1 /\ m + 1 # 0 /\ 1 \in 1 .. m + 1
    BY <1>2
  <2>4. \A i \in 1 .. m + 1 : r[i] \in heap'
    BY <1>1, <1>3, <1>4, <2>1
  <2>5. \A x \in heap' : \E i \in 1 .. m + 1 : r[i] = x
    <3> TAKE x \in heap'
    <3>1. CASE x = n
      BY <1>3, <2>3, <3>1
    <3>2. CASE x \in heap
      <4>1. PICK i \in 1 .. m : s[i] = x
        BY <1>4, <3>2
      <4> QED
        BY <1>3, <2>2, <4>1
    <3> QED
      BY <1>1, <3>1, <3>2
  <2>6. \A i, j \in 1 .. m + 1 : r[i] = r[j] => i = j
    BY <1>1, <1>3, <1>4, <2>1
  <2>7. \A i \in 1 .. m + 1 : next'[r[i]] = IF i = m + 1 THEN Null ELSE r[i + 1]
    <3> TAKE i \in 1 .. m + 1
    <3>1. CASE i = m + 1
      BY <1>3, <1>10, <3>1
    <3>2. CASE i \in 1 .. m /\ i # m
      BY <1>3, <1>10, <2>2, <3>2
    <3>3. CASE i = m /\ i \in 1 .. m
      BY <1>3, <1>10, <2>2, <3>3
    <3> QED
      BY <2>1, <3>1, <3>2, <3>3
  <2>8. head' = r[1] /\ tail' = r[m + 1]
    <3>1. CASE m = 0
      BY <1>1, <1>3, <1>7, <3>1
    <3>2. CASE m # 0
      <4>1. 1 \in 1 .. m
        BY <1>2, <3>2
      <4> QED
        BY <1>1, <1>3, <1>4, <1>7, <3>2, <4>1
    <3> QED
      BY <3>1, <3>2
  <2> QED
    <3>1. /\ head' = IF Len(r) = 0 THEN Null ELSE r[1]
          /\ tail' = IF Len(r) = 0 THEN Null ELSE r[Len(r)]
      BY <1>3, <2>3, <2>8
    <3>2. r \in Seq(Node) /\ Len(r) = m + 1
      BY <1>3
    <3>3. /\ \A i \in 1 .. Len(r) : r[i] \in heap'
          /\ \A x \in heap' : \E i \in 1 .. Len(r) : r[i] = x
          /\ \A i, j \in 1 .. Len(r) : r[i] = r[j] => i = j
          /\ \A i \in 1 .. Len(r) : next'[r[i]] = IF i = Len(r) THEN Null ELSE r[i + 1]
      BY <2>4, <2>5, <2>6, <2>7, <3>2, Zenon
    <3>4. IsInjective(r) /\ Range(r) = heap' /\ (r = <<>> <=> Len(r) = 0)
      BY <3>2, <3>3, ListFrom, Zenon
    <3> QED
      BY <3>1, <3>2, <3>3, <3>4 DEF IsList, Chained
<1>12. Names(r)' = Append(Names(s), t)
  <2> DEFINE q == Names(s)
             p == Append(q, t)
             u == Names(r)'
  <2>1. q \in Seq(Nat) /\ Len(q) = m /\ \A i \in 1 .. m : q[i] = tnumber[s[i]]
    BY <1>5
  <2>2. u = [i \in 1 .. m + 1 |-> tnumber'[r[i]]]
    BY <1>3 DEF Names
  <2> HIDE DEF q
  <2>3. p \in Seq(Nat) /\ Len(p) = m + 1 /\ p[m + 1] = t /\ \A i \in 1 .. m : p[i] = q[i]
    BY <1>6, <2>1
  <2> HIDE DEF p, u
  <2>4. \A i \in 1 .. m + 1 : tnumber'[r[i]] = p[i]
    <3> TAKE i \in 1 .. m + 1
    <3>1. CASE i \in 1 .. m
      <4>1. s[i] \in Node /\ s[i] # n /\ r[i] = s[i]
        BY <1>1, <1>3, <1>4, <3>1
      <4> QED
        BY <1>1, <1>6, <2>1, <2>3, <3>1, <4>1
    <3>2. CASE i = m + 1
      BY <1>1, <1>3, <1>6, <2>3, <3>2
    <3> QED
      BY <1>2, <3>1, <3>2
  <2>5. u = [i \in 1 .. m + 1 |-> p[i]]
    BY <2>2, <2>4
  <2>6. p = [i \in 1 .. m + 1 |-> p[i]]
    BY <2>3
  <2> QED
    BY <2>5, <2>6 DEF q, p, u
<1> QED
  BY <1>3, <1>9, <1>11, <1>12 DEF IInv

(* The node at place k leaves, wherever it is.                               *)
LEMMA TakeList ==
  ASSUME IInv, NEW s, IsList(s), NEW k \in 1 .. Len(s),
         head' = IF k = 1 THEN next[s[1]] ELSE head,
         tail' = IF k = Len(s) THEN IF k = 1 THEN Null ELSE s[k - 1] ELSE tail,
         next' = IF k = 1 THEN next ELSE [next EXCEPT ![s[k - 1]] = next[s[k]]],
         heap' = heap \ {s[k]}, tnumber' = tnumber
  PROVE  IInv' /\ \E r \in Seq(Node) : IsList(r)' /\ Names(r)' = RemoveAt(Names(s), k)
<1> DEFINE m == Len(s)
           r == RemoveAt(s, k)
<1>1. s \in Seq(Node) /\ m \in Nat /\ k \in 1 .. m /\ m - 1 \in Nat
  BY DEF IsList
<1>2. /\ r \in Seq(Node) /\ Len(r) = m - 1
      /\ \A i \in 1 .. m - 1 : r[i] = IF i < k THEN s[i] ELSE s[i + 1]
  BY <1>1, TakenAt
<1>3. /\ m \in Nat /\ Null \notin Node
      /\ \A i \in 1 .. m : s[i] \in Node /\ s[i] \in heap /\ s[i] # Null
      /\ \A x \in heap : x \in Node /\ \E i \in 1 .. m : s[i] = x
      /\ \A i, j \in 1 .. m : s[i] = s[j] => i = j
      /\ \A i \in 1 .. m : next[s[i]] = IF i = m THEN Null ELSE s[i + 1]
      /\ head = IF m = 0 THEN Null ELSE s[1]
      /\ tail = IF m = 0 THEN Null ELSE s[m]
  BY NodesFacts
<1>4. Names(s) \in Seq(Nat) /\ Len(Names(s)) = m /\ \A i \in 1 .. m : Names(s)[i] = tnumber[s[i]]
  BY <1>3 DEF Names, IInv
<1>5. /\ head' = IF k = 1 THEN next[s[1]] ELSE head
      /\ tail' = IF k = m THEN IF k = 1 THEN Null ELSE s[k - 1] ELSE tail
      /\ next' = IF k = 1 THEN next ELSE [next EXCEPT ![s[k - 1]] = next[s[k]]]
      /\ heap' = heap \ {s[k]} /\ tnumber' = tnumber
  OBVIOUS
<1> HIDE DEF r, m
<1>6. tnumber \in [Node -> Nat] /\ next \in [Node -> Pointer]
  BY DEF IInv
<1>7. next' \in [Node -> Pointer]
  <2>1. s[k] \in Node /\ next[s[k]] \in Pointer
    BY <1>1, <1>3, <1>6
  <2> QED
    BY <1>5, <1>6, <2>1
<1>8. /\ \A i \in 1 .. m - 1 : i \in 1 .. m /\ i + 1 \in 1 .. m
      /\ \A i \in 1 .. m - 1 : i # m - 1 => i + 1 \in 1 .. m - 1
      /\ k # 1 => k - 1 \in 1 .. m /\ (k - 1) + 1 = k /\ k - 1 # k
      /\ 1 \in 1 .. m
  BY <1>1
<1>9. \A i \in 1 .. m - 1 : r[i] \in heap'
  <2> TAKE i \in 1 .. m - 1
  <2>1. CASE i < k
    <3>1. i # k
      BY <1>1, <2>1
    <3> QED
      BY <1>1, <1>2, <1>3, <1>5, <1>8, <2>1, <3>1
  <2>2. CASE ~ (i < k)
    <3>1. i + 1 # k
      BY <1>1, <2>2
    <3> QED
      BY <1>1, <1>2, <1>3, <1>5, <1>8, <2>2, <3>1, SMTT(30)
  <2> QED
    BY <2>1, <2>2
<1>10. \A x \in heap' : \E i \in 1 .. m - 1 : r[i] = x
  <2> TAKE x \in heap'
  <2>1. PICK j \in 1 .. m : s[j] = x /\ j # k
    BY <1>3, <1>5
  <2>2. CASE j < k
    <3>1. j \in 1 .. m - 1
      BY <1>1, <2>1, <2>2
    <3> QED
      BY <1>2, <2>1, <2>2, <3>1
  <2>3. CASE ~ (j < k)
    <3>1. j - 1 \in 1 .. m - 1 /\ ~ (j - 1 < k) /\ (j - 1) + 1 = j
      BY <1>1, <2>1, <2>3
    <3>2. r[j - 1] = s[j]
      BY <1>2, <3>1
    <3> QED
      BY <2>1, <3>1, <3>2
  <2> QED
    BY <2>2, <2>3
<1>11. \A i, j \in 1 .. m - 1 : r[i] = r[j] => i = j
  <2> DEFINE at(i) == IF i < k THEN i ELSE i + 1
  <2>1. \A i \in 1 .. m - 1 : at(i) \in 1 .. m /\ r[i] = s[at(i)]
    BY <1>2, <1>8
  <2>2. \A i, j \in 1 .. m - 1 : at(i) = at(j) => i = j
    BY <1>1
  <2> HIDE DEF at
  <2> QED
    BY <1>3, <2>1, <2>2
<1>12. \A i \in 1 .. m - 1 : next'[r[i]] = IF i = m - 1 THEN Null ELSE r[i + 1]
  <2> TAKE i \in 1 .. m - 1
  <2>1. \A j \in 1 .. m : (k = 1 \/ j # k - 1) => next'[s[j]] = next[s[j]]
    <3> TAKE j \in 1 .. m
    <3>1. CASE k = 1
      BY <1>5, <3>1
    <3>2. CASE k # 1 /\ j # k - 1
      <4>1. s[j] # s[k - 1] /\ s[j] \in Node
        BY <1>3, <1>8, <3>2
      <4> QED
        BY <1>5, <1>6, <3>2, <4>1
    <3> QED
      BY <3>1, <3>2
  <2>2. k # 1 => next'[s[k - 1]] = next[s[k]]
    BY <1>3, <1>5, <1>6, <1>8
  <2>3. CASE i < k - 1
    <3>1. i < k /\ i + 1 < k /\ i # m /\ i # m - 1 /\ i # k - 1
      BY <1>1, <2>3
    <3>2. r[i] = s[i] /\ r[i + 1] = s[i + 1]
      BY <1>2, <1>8, <3>1
    <3> QED
      BY <1>3, <1>8, <2>1, <3>1, <3>2
  <2>4. CASE i = k - 1
    <3>1. i < k /\ k # 1 /\ (i = m - 1 <=> k = m) /\ i + 1 = k
      BY <1>1, <2>4
    <3>2. r[i] = s[k - 1]
      BY <1>2, <2>4, <3>1
    <3>3. k # m => r[i + 1] = s[k + 1]
      <4>1. k # m => k \in 1 .. m - 1 /\ ~ (k < k)
        BY <1>1
      <4> QED
        BY <1>2, <3>1, <4>1
    <3> QED
      BY <1>1, <1>3, <2>2, <3>1, <3>2, <3>3
  <2>5. CASE i >= k
    <3>1. ~ (i < k) /\ ~ (i + 1 < k) /\ i + 1 # k - 1 /\ (i + 1 = m <=> i = m - 1)
      BY <1>1, <2>5
    <3>2. r[i] = s[i + 1] /\ (i # m - 1 => r[i + 1] = s[(i + 1) + 1])
      BY <1>2, <1>8, <3>1
    <3>3. next'[s[i + 1]] = next[s[i + 1]]
      BY <1>8, <2>1, <3>1
    <3>4. next[s[i + 1]] = IF i + 1 = m THEN Null ELSE s[(i + 1) + 1]
      BY <1>3, <1>8
    <3> QED
      BY <3>1, <3>2, <3>3, <3>4
  <2>6. i < k - 1 \/ i = k - 1 \/ i >= k
    BY <1>1
  <2> QED
    BY <2>3, <2>4, <2>5, <2>6
<1>13. /\ head' = IF m - 1 = 0 THEN Null ELSE r[1]
       /\ tail' = IF m - 1 = 0 THEN Null ELSE r[m - 1]
  <2>1. CASE m - 1 = 0
    <3>1. m = 1 /\ k = 1
      BY <1>1, <2>1
    <3> QED
      BY <1>3, <1>5, <1>8, <2>1, <3>1
  <2>2. CASE m - 1 # 0
    <3>1. 1 \in 1 .. m - 1 /\ m - 1 \in 1 .. m - 1 /\ m # 1 /\ m # 0 /\ (m - 1) + 1 = m /\ 1 + 1 = 2
      BY <1>1, <2>2
    <3>2. r[1] = (IF 1 < k THEN s[1] ELSE s[2]) /\ r[m - 1] = (IF m - 1 < k THEN s[m - 1] ELSE s[m])
      BY <1>2, <3>1
    <3>3. (1 < k <=> k # 1) /\ (m - 1 < k <=> k = m)
      BY <1>1
    <3>4. head' = r[1]
      BY <1>3, <1>5, <1>8, <3>1, <3>2, <3>3
    <3>5. tail' = r[m - 1]
      BY <1>3, <1>5, <3>1, <3>2, <3>3
    <3> QED
      BY <2>2, <3>4, <3>5
  <2> QED
    BY <2>1, <2>2
<1>14. IsList(r)'
  <2>1. r \in Seq(Node) /\ Len(r) = m - 1
    BY <1>2
  <2>2. /\ \A i \in 1 .. Len(r) : r[i] \in heap'
        /\ \A x \in heap' : \E i \in 1 .. Len(r) : r[i] = x
        /\ \A i, j \in 1 .. Len(r) : r[i] = r[j] => i = j
    BY <1>9, <1>10, <1>11, <2>1, Zenon
  <2>3. \A i \in 1 .. Len(r) : next'[r[i]] = IF i = Len(r) THEN Null ELSE r[i + 1]
    BY <1>12, <2>1, Zenon
  <2>4. IsInjective(r) /\ Range(r) = heap' /\ (r = <<>> <=> Len(r) = 0)
    BY <2>1, <2>2, ListFrom, Zenon
  <2> QED
    BY <1>13, <2>1, <2>3, <2>4 DEF IsList, Chained
<1>15. Names(r)' = RemoveAt(Names(s), k)
  <2> DEFINE q == Names(s)
             p == RemoveAt(q, k)
             u == Names(r)'
  <2>1. q \in Seq(Nat) /\ Len(q) = m /\ \A i \in 1 .. m : q[i] = tnumber[s[i]]
    BY <1>4
  <2>2. u = [i \in 1 .. m - 1 |-> tnumber[r[i]]]
    BY <1>2, <1>5 DEF Names
  <2> HIDE DEF q
  <2>3. k \in 1 .. Len(q)
    BY <1>1, <2>1
  <2>4. /\ p \in Seq(Nat) /\ Len(p) = Len(q) - 1
        /\ \A i \in 1 .. Len(q) - 1 : p[i] = IF i < k THEN q[i] ELSE q[i + 1]
    BY <2>1, <2>3, TakenAt
  <2> HIDE DEF p, u
  <2>5. \A i \in 1 .. m - 1 : tnumber[r[i]] = p[i]
    <3> TAKE i \in 1 .. m - 1
    <3>1. p[i] = IF i < k THEN q[i] ELSE q[i + 1]
      BY <2>1, <2>4
    <3>2. q[i] = tnumber[s[i]] /\ q[i + 1] = tnumber[s[i + 1]]
      BY <1>8, <2>1
    <3>3. r[i] = IF i < k THEN s[i] ELSE s[i + 1]
      BY <1>2
    <3> QED
      BY <3>1, <3>2, <3>3
  <2>6. u = [i \in 1 .. m - 1 |-> p[i]]
    BY <2>2, <2>5
  <2>7. p = [i \in 1 .. m - 1 |-> p[i]]
    BY <2>1, <2>4
  <2> QED
    BY <2>6, <2>7 DEF q, p, u
<1> QED
  BY <1>2, <1>5, <1>6, <1>7, <1>14, <1>15 DEF IInv

(* What Names is: the threads, in the order of the nodes.                    *)
LEMMA NamesFacts ==
  ASSUME IInv, NEW s, IsList(s)
  PROVE  /\ Names(s) \in Seq(Nat) /\ Len(Names(s)) = Len(s) /\ Len(s) \in Nat
         /\ \A i \in 1 .. Len(s) : Names(s)[i] = tnumber[s[i]]
         /\ Names(s) = <<>> <=> head = Null
<1>1. Len(s) \in Nat /\ \A i \in 1 .. Len(s) : tnumber[s[i]] \in Nat
  BY NodesFacts DEF IInv
<1>2. /\ Names(s) \in Seq(Nat) /\ Len(Names(s)) = Len(s)
      /\ \A i \in 1 .. Len(s) : Names(s)[i] = tnumber[s[i]]
  BY <1>1 DEF Names
<1>3. Names(s) = <<>> <=> Len(s) = 0
  <2> DEFINE q == Names(s)
  <2>1. q \in Seq(Nat) /\ Len(q) = Len(s)
    BY <1>2
  <2> HIDE DEF q
  <2>2. q = <<>> <=> Len(q) = 0
    BY <2>1
  <2> QED
    BY <2>1, <2>2 DEF q
<1>4. head = Null <=> Len(s) = 0
  <2>1. Len(s) # 0 => 1 \in 1 .. Len(s)
    BY <1>1
  <2> QED
    BY <2>1, NodesFacts
<1> QED
  BY <1>1, <1>2, <1>3, <1>4

(* One step of TidQueue, on the queue before and after it.                   *)
QueueStep(q, p) ==
  \/ q = <<>> /\ answer' = None /\ p = q
  \/ q # <<>> /\ answer' = Head(q) /\ p = Tail(q)
  \/ p = <<>> /\ answer' = None
  \/ \E t \in Tid : p = Append(q, t) /\ answer' = None
  \/ \E t \in Tid : p = RemoveFirst(q, t) /\ answer' = IF t \in Range(q) THEN t ELSE Invalid
  \/ p = q /\ answer' = answer

Steps(s) == IInv' /\ \E r \in Seq(Node) : IsList(r)' /\ QueueStep(Names(s), Names(r)')

(* dequeue_element_from_head.                                                *)
LEMMA HeadStep ==
  ASSUME IInv, NEW s, IsList(s), DequeueFromHead, head # Null
  PROVE  Steps(s)
<1>1. Len(s) # 0 /\ Len(s) \in Nat /\ 1 \in 1 .. Len(s) /\ head = s[1] /\ s[1] # Null
  BY NodesFacts
<1>2. (next[s[1]] = Null) <=> (1 = Len(s))
  <2>1. \A m \in Nat : m # 0 /\ 1 # m => 1 + 1 \in 1 .. m
    OBVIOUS
  <2>2. 1 # Len(s) => 1 + 1 \in 1 .. Len(s)
    BY <1>1, <2>1, Zenon
  <2> QED
    BY <1>1, <2>2, NodesFacts
<1>3. /\ head' = next[s[1]] /\ next' = next /\ heap' = heap \ {s[1]} /\ tnumber' = tnumber
      /\ tail' = IF 1 = Len(s) THEN Null ELSE tail
      /\ answer' = tnumber[s[1]]
  BY <1>1, <1>2 DEF DequeueFromHead, Free
<1>4. IInv' /\ \E r \in Seq(Node) : IsList(r)' /\ Names(r)' = RemoveAt(Names(s), 1)
  BY <1>1, <1>3, TakeList
<1> DEFINE q == Names(s)
<1>5. q \in Seq(Nat) /\ Len(q) # 0 /\ 1 \in 1 .. Len(q) /\ q[1] = answer'
  BY <1>1, <1>3, NamesFacts
<1> HIDE DEF q
<1>6. q # <<>> /\ Head(q) = q[1] /\ RemoveAt(q, 1) = Tail(q)
  <2> DEFINE p == RemoveAt(q, 1)
             n == Len(q)
  <2>1. /\ p \in Seq(Nat) /\ Len(p) = n - 1
        /\ \A i \in 1 .. n - 1 : p[i] = IF i < 1 THEN q[i] ELSE q[i + 1]
    BY <1>5, TakenAt
  <2> HIDE DEF p
  <2>2. \A i \in 1 .. n - 1 : p[i] = q[i + 1]
    BY <2>1
  <2>3. p = Tail(q)
    <3> DEFINE r == Tail(q)
    <3>1. r \in Seq(Nat) /\ Len(r) = n - 1 /\ \A i \in 1 .. n - 1 : r[i] = q[i + 1]
      BY <1>5
    <3> HIDE DEF r
    <3>2. p = r
      BY <2>1, <2>2, <3>1, SMTT(30)
    <3> QED
      BY <3>2 DEF r
  <2>4. q # <<>> /\ Head(q) = q[1]
    BY <1>5
  <2> QED
    BY <2>3, <2>4, Zenon DEF p
<1> QED
  BY <1>4, <1>5, <1>6 DEF Steps, QueueStep, q

(* dequeue_element of the thread whose first node is at place k.             *)
LEMMA TakeOutStep ==
  ASSUME IInv, NEW s, IsList(s), NEW k \in 1 .. Len(s), NEW t \in Tid,
         tnumber[s[k]] = t, \A i \in 1 .. k - 1 : tnumber[s[i]] # t, answer' = t,
         head' = IF k = 1 THEN next[s[1]] ELSE head,
         tail' = IF k = Len(s) THEN IF k = 1 THEN Null ELSE s[k - 1] ELSE tail,
         next' = IF k = 1 THEN next ELSE [next EXCEPT ![s[k - 1]] = next[s[k]]],
         heap' = heap \ {s[k]}, tnumber' = tnumber
  PROVE  Steps(s)
<1>1. IInv' /\ \E r \in Seq(Node) : IsList(r)' /\ Names(r)' = RemoveAt(Names(s), k)
  BY TakeList
<1> DEFINE q == Names(s)
<1>2. q \in Seq(Nat) /\ Len(q) = Len(s) /\ Len(s) \in Nat
      /\ \A i \in 1 .. Len(s) : q[i] = tnumber[s[i]]
  BY NamesFacts
<1> HIDE DEF q
<1>3. k \in 1 .. Len(q) /\ q[k] = t /\ \A i \in 1 .. k - 1 : q[i] # q[k]
  BY <1>2, SMTT(30)
<1>4. RemoveFirst(q, t) = RemoveAt(q, k)
  BY <1>2, <1>3, FirstPlace
<1>5. t \in Range(q)
  BY <1>2, <1>3, Positions
<1> QED
  BY <1>1, <1>4, <1>5 DEF Steps, QueueStep, q

(* dequeue_element of a thread behind the front.                             *)
LEMMA InsideStep ==
  ASSUME IInv, NEW s, IsList(s), NEW t \in Tid, DequeueInside(t)
  PROVE  Steps(s)
<1>1. List = s /\ Length = Len(s)
  BY ListIs
<1> DEFINE F == {i \in 2 .. Len(s) : tnumber[s[i]] = t}
           k == Min(F)
<1>2. Found(t) = F
  BY <1>1 DEF Found
<1>3. F # {} /\ F \subseteq Nat
  BY <1>2 DEF DequeueInside
<1>4. k \in F /\ \A i \in F : k <= i
  <2>1. \E m \in F : \A i \in F : m <= i
    BY <1>3, LeastOf
  <2> HIDE DEF F
  <2> QED
    BY <2>1 DEF Min
<1>5. /\ head # Null /\ tnumber[head] # t /\ answer' = t
      /\ next' = [next EXCEPT ![s[k - 1]] = next[s[k]]]
      /\ tail' = IF s[k] = tail THEN s[k - 1] ELSE tail
      /\ heap' = heap \ {s[k]} /\ tnumber' = tnumber /\ head' = head
  BY <1>1, <1>2 DEF DequeueInside, TailWithout, Free
<1> HIDE DEF k
<1>6. Len(s) \in Nat /\ k \in 1 .. Len(s) /\ k # 1 /\ tnumber[s[k]] = t
  <2>1. Len(s) \in Nat
    BY NodesFacts
  <2>2. k \in 2 .. Len(s) /\ tnumber[s[k]] = t
    BY <1>4
  <2>3. k \in 1 .. Len(s) /\ k # 1
    BY <2>1, <2>2
  <2> QED
    BY <2>1, <2>2, <2>3
<1>7. Len(s) # 0 /\ Len(s) \in 1 .. Len(s)
  BY <1>6
<1>8. head = s[1] /\ tail = s[Len(s)]
  BY <1>7, NodesFacts
<1>9. s[k] = tail <=> k = Len(s)
  BY <1>6, <1>7, <1>8, NodesFacts
<1>10. \A i \in 1 .. k - 1 : tnumber[s[i]] # t
  <2> TAKE i \in 1 .. k - 1
  <2>1. CASE i = 1
    BY <1>5, <1>8, <2>1
  <2>2. CASE i # 1
    <3>1. i \in 2 .. Len(s) /\ ~ (k <= i)
      BY <1>6, <2>2
    <3> QED
      BY <1>4, <3>1
  <2> QED
    BY <2>1, <2>2
<1>11. tail' = IF k = Len(s) THEN IF k = 1 THEN Null ELSE s[k - 1] ELSE tail
  BY <1>5, <1>6, <1>9
<1> QED
  BY <1>5, <1>6, <1>10, <1>11, TakeOutStep

(* dequeue_element of the thread at the front.                               *)
LEMMA FrontStep ==
  ASSUME IInv, NEW s, IsList(s), NEW t \in Tid, DequeueFront(t)
  PROVE  Steps(s)
<1>1. Len(s) \in Nat /\ Len(s) # 0 /\ head = s[1] /\ tail = s[Len(s)]
  BY NodesFacts DEF DequeueFront
<1>2. \A m \in Nat : m # 0 => 1 \in 1 .. m /\ (1 # m => 1 + 1 \in 1 .. m)
  OBVIOUS
<1>3. 1 \in 1 .. Len(s) /\ (1 # Len(s) => 1 + 1 \in 1 .. Len(s))
  BY <1>1, <1>2, Zenon
<1>4. (next[s[1]] = Null) <=> (1 = Len(s))
  BY <1>1, <1>3, NodesFacts
<1>5. /\ tnumber[s[1]] = t /\ answer' = t
      /\ head' = next[s[1]] /\ next' = next /\ heap' = heap \ {s[1]} /\ tnumber' = tnumber
      /\ tail' = IF 1 = Len(s) THEN Null ELSE tail
  BY <1>1, <1>4 DEF DequeueFront, Free
<1>6. \A i \in 1 .. 1 - 1 : tnumber[s[i]] # t
  OBVIOUS
<1> QED
  BY <1>3, <1>5, <1>6, TakeOutStep

(* dequeue_element of a thread that is not there.                            *)
LEMMA MissingStep ==
  ASSUME IInv, NEW s, IsList(s), NEW t \in Tid, DequeueMissing(t)
  PROVE  Steps(s)
<1>1. List = s /\ Length = Len(s)
  BY ListIs
<1>2. /\ \A i \in 1 .. Len(s) : tnumber[s[i]] # t
      /\ answer' = Invalid /\ UNCHANGED <<head, tail, tnumber, next, heap>>
  BY <1>1 DEF DequeueMissing
<1>3. IInv' /\ IsList(s)' /\ Names(s)' = Names(s) /\ s \in Seq(Node)
  BY <1>2 DEF IInv, IsList, Names
<1> DEFINE q == Names(s)
<1>4. q \in Seq(Nat) /\ \A i \in 1 .. Len(q) : q[i] # t
  BY <1>2, NamesFacts
<1> HIDE DEF q
<1>5. t \notin Range(q)
  BY <1>4, Positions
<1>6. RemoveFirst(q, t) = q
  BY <1>4 DEF RemoveFirst
<1>7. QueueStep(q, q)
  BY <1>2, <1>5, <1>6 DEF QueueStep
<1> QED
  BY <1>3, <1>7 DEF Steps, q

(* wait_queue_destroy and wait_queue_create.                                 *)
LEMMA RecreateStep ==
  ASSUME IInv, NEW s, IsList(s), Recreate
  PROVE  Steps(s)
<1>1. List = s
  BY ListIs
<1>2. /\ heap' = {} /\ head' = Null /\ tail' = Null /\ answer' = None
      /\ UNCHANGED <<tnumber, next>>
  BY <1>1 DEF Recreate, IsList
<1>3. IsList(<<>>)'
  <2>1. <<>> \in Seq(Node) /\ IsInjective(<<>>) /\ Range(<<>>) = {}
    BY DEF IsInjective, Range
  <2> QED
    BY <1>2, <2>1 DEF IsList, Chained
<1>4. Names(<<>>)' = <<>>
  BY DEF Names
<1>5. <<>> \in Seq(Node)
  OBVIOUS
<1>6. IInv'
  BY <1>2, <1>3, <1>5, Zenon DEF IInv
<1>7. QueueStep(Names(s), Names(<<>>)')
  BY <1>2, <1>4 DEF QueueStep
<1> QED
  BY <1>3, <1>5, <1>6, <1>7, Zenon DEF Steps

(* Every step changes the list as TidQueue says.                             *)
LEMMA NextStep ==
  ASSUME IInv, NEW s, IsList(s), [Next]_vars
  PROVE  Steps(s)
<1>1. ASSUME NEW t \in Tid, Enqueue(t) PROVE Steps(s)
  <2>1. answer' = None
    BY <1>1 DEF Enqueue
  <2> QED
    BY <1>1, <2>1, EnqueueList DEF Steps, QueueStep
<1>2. CASE DequeueFromHead
  <2>1. CASE head # Null
    BY <1>2, <2>1, HeadStep
  <2>2. CASE head = Null
    <3>1. answer' = None /\ UNCHANGED <<head, tail, tnumber, next, heap>>
      BY <1>2, <2>2 DEF DequeueFromHead
    <3>2. IInv' /\ IsList(s)' /\ Names(s)' = Names(s) /\ s \in Seq(Node)
      BY <3>1 DEF IInv, IsList, Names
    <3>3. Names(s) = <<>>
      BY <2>2, NamesFacts
    <3> QED
      BY <3>1, <3>2, <3>3 DEF Steps, QueueStep
  <2> QED
    BY <2>1, <2>2
<1>3. CASE UNCHANGED vars
  <2>1. IInv' /\ IsList(s)' /\ Names(s)' = Names(s) /\ s \in Seq(Node) /\ answer' = answer
    BY <1>3 DEF vars, IInv, IsList, Names
  <2> QED
    BY <2>1 DEF Steps, QueueStep
<1> QED
  BY <1>1, <1>2, <1>3, FrontStep, InsideStep, MissingStep, RecreateStep DEF Next

(* A list is there from the start.                                           *)
LEMMA InitList == Init => IInv /\ IsList(<<>>)
<1> SUFFICES ASSUME Init PROVE IInv /\ IsList(<<>>)
  OBVIOUS
<1>1. <<>> \in Seq(Node) /\ IsInjective(<<>>) /\ Range(<<>>) = {}
  BY DEF IsInjective, Range
<1>2. IsList(<<>>)
  BY <1>1 DEF Init, IsList, Chained
<1> QED
  BY <1>1, <1>2 DEF Init, IInv, Pointer

(* The invariant holds for any nodes and threads.                            *)
THEOREM Invariance == Spec => []IInv
<1>1. IInv /\ [Next]_vars => IInv'
  BY NextStep DEF IInv, Steps
<1> QED
  BY <1>1, InitList, PTL DEF Spec

(* The linked list is sound: a loop over it ends, it holds exactly the nodes *)
(* that are allocated, and tail is its last.                                 *)
THEOREM ListIsSound == Spec => []ListSound
<1> QED
  BY Invariance, SoundIf, PTL

(* TidQueue reaches the community modules through its own INSTANCE.          *)
LEMMA SameOperators ==
  \A q, t : Queue!RemoveFirst(q, t) = RemoveFirst(q, t) /\ Queue!Range(q) = Range(q)
<1> TAKE q, t
<1>1. Queue!Range(q) = Range(q)
  BY DEF Range, Queue!Range
<1>2. \A S : Queue!Min(S) = Min(S)
  BY DEF Min, Queue!Min
<1>3. \A i : Queue!RemoveAt(q, i) = RemoveAt(q, i)
  BY DEF RemoveAt, Queue!RemoveAt
<1>4. Queue!RemoveFirst(q, t) = RemoveFirst(q, t)
  BY <1>2, <1>3, Zenon
     DEF RemoveFirst, Queue!RemoveFirst, SelectInSeq, Queue!SelectInSeq
<1> QED
  BY <1>1, <1>4

(* The linked list, with whatever malloc hands out, is the sequence that the *)
(* models of the thread library have in its place.                           *)
THEOREM ListIsQueue == Spec => ImplementsTidQueue
<1> DEFINE items == [i \in 1 .. Length |-> tnumber[List[i]]]
<1>1. \A q \in Seq(Node) : IsList(q) => items = Names(q)
  BY ListIs DEF Names
<1>2. Init => Queue!Init
  <2>1. Names(<<>>) = <<>> /\ <<>> \in Seq(Node)
    BY DEF Names
  <2> QED
    BY <1>1, <2>1, InitList DEF Init, Queue!Init
<1>3. IInv /\ [Next]_vars => [Queue!Next]_<<items, answer>>
  <2> SUFFICES ASSUME IInv, [Next]_vars PROVE [Queue!Next]_<<items, answer>>
    OBVIOUS
  <2>1. PICK s \in Seq(Node) : IsList(s)
    BY DEF IInv
  <2>2. PICK r \in Seq(Node) : IsList(r)' /\ QueueStep(Names(s), Names(r)')
    BY <2>1, NextStep DEF Steps
  <2>3. items = Names(s)
    BY <1>1, <2>1
  <2>4. items' = Names(r)'
    <3>1. (\A q \in Seq(Node) : IsList(q) => items = Names(q))'
      BY <1>1, PTL
    <3> QED
      BY <2>2, <3>1
  <2> HIDE DEF items
  <2>5. QueueStep(items, items')
    BY <2>2, <2>3, <2>4
  <2>6. CASE \E t \in Tid : items' = Append(items, t) /\ answer' = None
    BY <2>6 DEF Queue!Next, Queue!Put, items
  <2>7. CASE \E t \in Tid : /\ items' = RemoveFirst(items, t)
                           /\ answer' = IF t \in Range(items) THEN t ELSE Invalid
    <3>1. PICK t \in Tid : /\ items' = RemoveFirst(items, t)
                           /\ answer' = IF t \in Range(items) THEN t ELSE Invalid
      BY <2>7
    <3>2. Queue!TakeOut(t)
      BY <3>1, SameOperators, Zenon DEF Queue!TakeOut, items
    <3> QED
      BY <3>2, Zenon DEF Queue!Next
  <2>8. CASE items' = <<>> /\ answer' = None
    BY <2>8 DEF Queue!Next, Queue!Discard, items
  <2>9. CASE \/ items = <<>> /\ answer' = None /\ items' = items
             \/ items # <<>> /\ answer' = Head(items) /\ items' = Tail(items)
    BY <2>9 DEF Queue!Next, Queue!Get, items
  <2> QED
    BY <2>5, <2>6, <2>7, <2>8, <2>9 DEF QueueStep
<1> QED
  BY <1>2, <1>3, Invariance, PTL DEF Spec, ImplementsTidQueue, Queue!Spec
=============================================================================
