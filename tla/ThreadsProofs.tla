---------------------------- MODULE ThreadsProofs ----------------------------
(***************************************************************************)
(* What holds of the thread library for every number of threads, every     *)
(* set of client queues, exit codes and operations, with or without the    *)
(* timer.                                                                  *)
(*                                                                         *)
(* IInv is a conjunction of facts that lean on each other.  The counter is *)
(* exact (NumsExact) because a thread that gets the processor was in the   *)
(* ready queue once and nowhere else; no queue holds a thread twice        *)
(* (OnePlace) because only a thread that runs is ever put into a queue; and*)
(* a thread in the client's code runs (DozerLeaves) because the counter    *)
(* found a successor for it when it slept.  PcInv ties them to where each  *)
(* thread continues.  Where waiters get lost, first come first served, the *)
(* ready are queued and what a kill is worth are theorems on top of it.    *)
(***************************************************************************)
EXTENDS Threads, SequencesExt, FiniteSetsExt, Functions, FiniteSetTheorems, TLAPS

-----------------------------------------------------------------------------
(* Queues: what the operations do to the set of members, the length and the*)
(* freedom from duplicates.                                                *)

(* Membership and freedom from duplicates, by positions.                    *)
LEMMA Positions ==
  ASSUME NEW S, NEW q \in Seq(S)
  PROVE  /\ Len(q) \in Nat
         /\ \A i \in 1 .. Len(q) : q[i] \in S /\ q[i] \in Range(q)
         /\ \A y \in Range(q) : \E i \in 1 .. Len(q) : y = q[i]
         /\ IsInjective(q) <=> \A i, j \in 1 .. Len(q) : q[i] = q[j] => i = j
<1>1. Len(q) \in Nat /\ DOMAIN q = 1 .. Len(q)
  OBVIOUS
<1>2. \A i \in 1 .. Len(q) : q[i] \in S
  OBVIOUS
<1> QED
  BY <1>1, <1>2 DEF Range, IsInjective

(* The members are of the type of the queue.                                *)
LEMMA RangeType ==
  ASSUME NEW S, NEW q \in Seq(S)
  PROVE  Range(q) \subseteq S
  BY Positions

(* enqueue: one more member, at the end.                                    *)
LEMMA AppendFacts ==
  ASSUME NEW S, NEW q \in Seq(S), NEW x \in S
  PROVE  /\ Append(q, x) \in Seq(S)
         /\ Len(Append(q, x)) = Len(q) + 1
         /\ Range(Append(q, x)) = Range(q) \cup {x}
         /\ IsInjective(q) /\ x \notin Range(q) => IsInjective(Append(q, x))
<1> DEFINE r == Append(q, x)
<1>1. /\ r \in Seq(S) /\ Len(r) = Len(q) + 1
      /\ r[Len(q) + 1] = x
      /\ \A i \in 1 .. Len(q) : r[i] = q[i]
  OBVIOUS
<1> HIDE DEF r
<1>2. Range(r) \subseteq Range(q) \cup {x}
  BY <1>1, Positions
<1>3. Range(q) \subseteq Range(r) /\ x \in Range(r)
  BY <1>1, Positions, SMTT(30)
<1>4. ASSUME IsInjective(q), x \notin Range(q)
      PROVE  IsInjective(r)
  <2>1. SUFFICES ASSUME NEW i \in 1 .. Len(r), NEW j \in 1 .. Len(r), r[i] = r[j]
                 PROVE  i = j
    BY <1>1, Positions
  <2> QED
    BY <1>1, <1>4, <2>1, Positions, SMTT(30)
<1> QED
  BY <1>1, <1>2, <1>3, <1>4 DEF r

(* The members of a concatenation, by position.                             *)
LEMMA ConcatPositions ==
  ASSUME NEW S, NEW p \in Seq(S), NEW q \in Seq(S)
  PROVE  /\ p \o q \in Seq(S)
         /\ Len(p \o q) = Len(p) + Len(q)
         /\ \A i \in 1 .. Len(p \o q) :
              (p \o q)[i] = IF i <= Len(p) THEN p[i] ELSE q[i - Len(p)]
<1>1. Len(p) \in Nat /\ Len(q) \in Nat
  OBVIOUS
<1> QED
  BY <1>1

(* Moving a whole queue to the end of another one.                          *)
LEMMA ConcatFacts ==
  ASSUME NEW S, NEW p \in Seq(S), NEW q \in Seq(S)
  PROVE  /\ p \o q \in Seq(S)
         /\ Len(p \o q) = Len(p) + Len(q)
         /\ Range(p \o q) = Range(p) \cup Range(q)
         /\ IsInjective(p) /\ IsInjective(q) /\ Range(p) \cap Range(q) = {}
              => IsInjective(p \o q)
<1> DEFINE r == p \o q
<1>1. Len(p) \in Nat /\ Len(q) \in Nat
  OBVIOUS
<1>2. r \in Seq(S) /\ Len(r) = Len(p) + Len(q)
  BY ConcatPositions
<1>3. \A i \in 1 .. Len(r) : r[i] = IF i <= Len(p) THEN p[i] ELSE q[i - Len(p)]
  BY ConcatPositions
<1> HIDE DEF r
<1>4. \A i \in 1 .. Len(p) : i \in 1 .. Len(r) /\ r[i] = p[i]
  BY <1>1, <1>2, <1>3
<1>5. \A i \in 1 .. Len(q) : i + Len(p) \in 1 .. Len(r) /\ r[i + Len(p)] = q[i]
  BY <1>1, <1>2, <1>3, SMTT(30)
<1>6. \A i \in 1 .. Len(r) :
        \/ i \in 1 .. Len(p) /\ r[i] = p[i]
        \/ /\ i > Len(p) /\ i - Len(p) \in 1 .. Len(q)
           /\ r[i] = q[i - Len(p)]
  BY <1>1, <1>2, <1>3
<1>7. ASSUME NEW y \in Range(r) PROVE y \in Range(p) \cup Range(q)
  <2>1. PICK i \in 1 .. Len(r) : y = r[i]
    BY <1>2, Positions, SMTT(30)
  <2>2. \/ i \in 1 .. Len(p) /\ y = p[i]
        \/ i - Len(p) \in 1 .. Len(q) /\ y = q[i - Len(p)]
    BY <1>6, <2>1
  <2> QED
    BY <2>2, Positions
<1>8. ASSUME NEW y \in Range(p) PROVE y \in Range(r)
  <2>1. PICK i \in 1 .. Len(p) : y = p[i]
    BY Positions
  <2> QED
    BY <1>2, <1>4, <2>1, Positions
<1>9. ASSUME NEW y \in Range(q) PROVE y \in Range(r)
  <2>1. PICK i \in 1 .. Len(q) : y = q[i]
    BY Positions
  <2>2. i + Len(p) \in 1 .. Len(r) /\ r[i + Len(p)] = y
    BY <1>5, <2>1
  <2> QED
    BY <1>2, <2>2, Positions
<1>10. ASSUME IsInjective(p), IsInjective(q), Range(p) \cap Range(q) = {}
       PROVE  IsInjective(r)
  <2>1. SUFFICES ASSUME NEW i \in 1 .. Len(r), NEW j \in 1 .. Len(r), r[i] = r[j]
                 PROVE  i = j
    BY <1>2, Positions
  <2>2. \A k, m \in 1 .. Len(p) : p[k] = p[m] => k = m
    BY <1>10, Positions
  <2>3. \A k, m \in 1 .. Len(q) : q[k] = q[m] => k = m
    BY <1>10, Positions
  <2>4. \A k \in 1 .. Len(p), m \in 1 .. Len(q) : p[k] # q[m]
    BY <1>10, Positions
  <2>5. CASE i \in 1 .. Len(p) /\ j \in 1 .. Len(p)
    BY <1>4, <2>1, <2>2, <2>5
  <2>6. CASE i > Len(p) /\ j > Len(p)
    <3>1. /\ i - Len(p) \in 1 .. Len(q) /\ j - Len(p) \in 1 .. Len(q)
          /\ q[i - Len(p)] = q[j - Len(p)]
      BY <1>1, <1>6, <2>1, <2>6
    <3>2. i - Len(p) = j - Len(p)
      BY <2>3, <3>1
    <3> QED
      BY <1>1, <1>2, <3>2
  <2>7. CASE i \in 1 .. Len(p) /\ j > Len(p)
    BY <1>1, <1>6, <2>1, <2>4, <2>7, SMTT(30)
  <2>8. CASE j \in 1 .. Len(p) /\ i > Len(p)
    BY <1>1, <1>6, <2>1, <2>4, <2>8
  <2> QED
    BY <1>6, <2>5, <2>6, <2>7, <2>8
<1> QED
  BY <1>2, <1>7, <1>8, <1>9, <1>10 DEF r

(* dequeue_element_from_head: the first member, and only it, is gone.       *)
LEMMA TailFacts ==
  ASSUME NEW S, NEW q \in Seq(S), q # <<>>
  PROVE  /\ Head(q) \in Range(q) /\ Tail(q) \in Seq(S)
         /\ Len(Tail(q)) = Len(q) - 1
         /\ IsInjective(q) => /\ IsInjective(Tail(q))
                              /\ Range(Tail(q)) = Range(q) \ {Head(q)}
<1> DEFINE r == Tail(q)
<1>1. /\ r \in Seq(S) /\ Len(r) = Len(q) - 1 /\ 1 \in 1 .. Len(q)
      /\ \A i \in 1 .. Len(r) : i + 1 \in 1 .. Len(q) /\ r[i] = q[i + 1]
      /\ \A i \in 1 .. Len(q) : i # 1 => i - 1 \in 1 .. Len(r) /\ r[i - 1] = q[i]
      /\ Head(q) = q[1]
  OBVIOUS
<1> HIDE DEF r
<1>2. Head(q) \in Range(q)
  BY <1>1, Positions
<1>3. ASSUME IsInjective(q)
      PROVE  IsInjective(r) /\ Range(r) = Range(q) \ {Head(q)}
  <2>1. \A i, j \in 1 .. Len(q) : q[i] = q[j] => i = j
    BY <1>3, Positions
  <2>2. IsInjective(r)
    <3>1. SUFFICES ASSUME NEW i \in 1 .. Len(r), NEW j \in 1 .. Len(r), r[i] = r[j]
                   PROVE  i = j
      BY <1>1, Positions
    <3>2. i + 1 = j + 1
      BY <1>1, <2>1, <3>1
    <3> QED
      BY <3>2
  <2>3. ASSUME NEW y \in Range(q), y # Head(q) PROVE y \in Range(r)
    BY <1>1, <2>3, Positions
  <2>4. ASSUME NEW y \in Range(r) PROVE y \in Range(q) /\ y # Head(q)
    <3>1. PICK i \in 1 .. Len(r) : y = r[i]
      BY <1>1, Positions
    <3>2. i + 1 \in 1 .. Len(q) /\ y = q[i + 1] /\ i + 1 # 1
      BY <1>1, <3>1
    <3> QED
      BY <1>1, <2>1, <3>2, Positions
  <2> QED
    BY <2>2, <2>3, <2>4
<1> QED
  BY <1>1, <1>2, <1>3 DEF r

(* A member leaves its place, and those behind it move up.                  *)
LEMMA TakenAt ==
  ASSUME NEW S, NEW q \in Seq(S), NEW k \in 1 .. Len(q)
  PROVE  /\ RemoveAt(q, k) \in Seq(S)
         /\ Len(RemoveAt(q, k)) = Len(q) - 1
         /\ \A i \in 1 .. Len(q) - 1 : RemoveAt(q, k)[i] = IF i < k THEN q[i] ELSE q[i + 1]
<1> DEFINE before == SubSeq(q, 1, k - 1)
           after == SubSeq(q, k + 1, Len(q))
           r == before \o after
<1>1. Len(q) \in Nat /\ k \in 1 .. Len(q)
  OBVIOUS
<1>2. /\ before \in Seq(S) /\ Len(before) = k - 1
      /\ \A i \in 1 .. k - 1 : before[i] = q[i]
  OBVIOUS
<1>3. /\ after \in Seq(S) /\ Len(after) = Len(q) - k
      /\ \A i \in 1 .. Len(q) - k : after[i] = q[i + k]
  OBVIOUS
<1> HIDE DEF before, after
<1>4. /\ r \in Seq(S) /\ Len(r) = Len(before) + Len(after)
      /\ \A i \in 1 .. Len(r) :
           r[i] = IF i <= Len(before) THEN before[i] ELSE after[i - Len(before)]
  BY <1>2, <1>3, ConcatPositions, Zenon
<1> HIDE DEF r
<1>5. /\ r \in Seq(S) /\ Len(r) = (k - 1) + (Len(q) - k)
      /\ \A i \in 1 .. Len(r) :
           r[i] = IF i <= k - 1 THEN before[i] ELSE after[i - (k - 1)]
  BY <1>2, <1>3, <1>4
<1>6. Len(r) = Len(q) - 1
  BY <1>1, <1>5
<1>7. ASSUME NEW i \in 1 .. Len(r), i < k PROVE r[i] = q[i]
  BY <1>1, <1>2, <1>5, <1>6, <1>7
<1>8. ASSUME NEW i \in 1 .. Len(r), ~(i < k) PROVE r[i] = q[i + 1]
  <2>1. i - (k - 1) \in 1 .. Len(q) - k /\ (i - (k - 1)) + k = i + 1
    BY <1>1, <1>6, <1>8
  <2>2. r[i] = after[i - (k - 1)]
    BY <1>1, <1>5, <1>8
  <2> QED
    BY <1>3, <2>1, <2>2
<1>9. RemoveAt(q, k) = r
  BY DEF RemoveAt, r, before, after
<1> QED
  BY <1>5, <1>6, <1>7, <1>8, <1>9

(* RemoveFirst takes the member from the first place where it is.           *)
LEMMA FirstPlace ==
  ASSUME NEW S, NEW q \in Seq(S), NEW k \in 1 .. Len(q), \A i \in 1 .. k - 1 : q[i] # q[k]
  PROVE  RemoveFirst(q, q[k]) = RemoveAt(q, k)
<1> DEFINE I == {i \in 1 .. Len(q) : q[i] = q[k]}
<1>1. k \in I /\ \A i \in I : k <= i
  OBVIOUS
<1>2. Min(I) = k
  <2>1. ASSUME NEW x \in I, \A y \in I : x <= y PROVE x = k
    BY <1>1, <2>1
  <2> HIDE DEF I
  <2> QED
    BY <1>1, <2>1 DEF Min
<1>3. I # {}
  BY <1>1
<1> QED
  BY <1>2, <1>3, Zenon DEF RemoveFirst, SelectInSeq

(* dequeue_element: the members behind the named one move up by a place.    *)
LEMMA RemovePositions ==
  ASSUME NEW S, NEW q \in Seq(S), NEW x \in Range(q), IsInjective(q)
  PROVE  /\ RemoveFirst(q, x) \in Seq(S)
         /\ Len(RemoveFirst(q, x)) = Len(q) - 1
         /\ \E k \in 1 .. Len(q) :
              /\ q[k] = x
              /\ \A i \in 1 .. Len(RemoveFirst(q, x)) :
                   RemoveFirst(q, x)[i] = IF i < k THEN q[i] ELSE q[i + 1]
<1>1. PICK k \in 1 .. Len(q) : q[k] = x
  BY DEF Range
<1>2. \A i \in 1 .. k - 1 : q[i] # q[k]
  BY DEF IsInjective
<1>3. RemoveFirst(q, x) = RemoveAt(q, k)
  BY <1>1, <1>2, FirstPlace
<1> DEFINE r == RemoveAt(q, k)
<1>4. /\ r \in Seq(S) /\ Len(r) = Len(q) - 1
      /\ \A i \in 1 .. Len(q) - 1 : r[i] = IF i < k THEN q[i] ELSE q[i + 1]
  BY TakenAt
<1>5. RemoveFirst(q, x) = r
  BY <1>3
<1> HIDE DEF r
<1> QED
  BY <1>1, <1>4, <1>5

(* dequeue_element: the named member, and only it, is gone.                 *)
LEMMA RemoveFacts ==
  ASSUME NEW S, NEW q \in Seq(S), NEW x \in Range(q), IsInjective(q)
  PROVE  /\ RemoveFirst(q, x) \in Seq(S)
         /\ Len(RemoveFirst(q, x)) = Len(q) - 1
         /\ IsInjective(RemoveFirst(q, x))
         /\ Range(RemoveFirst(q, x)) = Range(q) \ {x}
<1> DEFINE r == RemoveFirst(q, x)
<1>1. /\ r \in Seq(S) /\ Len(r) = Len(q) - 1
  BY RemovePositions
<1>2. PICK k \in 1 .. Len(q) :
        /\ q[k] = x
        /\ \A i \in 1 .. Len(r) : r[i] = IF i < k THEN q[i] ELSE q[i + 1]
  BY RemovePositions
<1>3. \A i, j \in 1 .. Len(q) : q[i] = q[j] => i = j
  BY DEF IsInjective
<1>4. Len(q) \in Nat /\ k \in 1 .. Len(q)
  OBVIOUS
<1> HIDE DEF r
<1>5. /\ \A i \in 1 .. Len(q) : i < k => i \in 1 .. Len(r) /\ r[i] = q[i]
      /\ \A i \in 1 .. Len(q) : i > k => i - 1 \in 1 .. Len(r) /\ r[i - 1] = q[i]
      /\ \A i \in 1 .. Len(r) :
            \E j \in 1 .. Len(q) : j # k /\ r[i] = q[j] /\ j = IF i < k THEN i ELSE i + 1
  BY <1>1, <1>2, <1>4
<1>6. IsInjective(r)
  <2>1. SUFFICES ASSUME NEW i \in 1 .. Len(r), NEW j \in 1 .. Len(r), r[i] = r[j]
                 PROVE  i = j
    BY <1>1, <1>2, Positions
  <2>2. PICK m \in 1 .. Len(q) : r[i] = q[m] /\ m = IF i < k THEN i ELSE i + 1
    BY <1>5
  <2>3. PICK n \in 1 .. Len(q) : r[j] = q[n] /\ n = IF j < k THEN j ELSE j + 1
    BY <1>5
  <2>4. m = n
    BY <1>3, <2>1, <2>2, <2>3
  <2> QED
    BY <2>2, <2>3, <2>4
<1>7. ASSUME NEW y \in Range(q), y # x PROVE y \in Range(r)
  <2>1. PICK i \in 1 .. Len(q) : y = q[i]
    BY Positions
  <2>2. i < k \/ i > k
    BY <1>2, <1>7, <2>1
  <2>3. \E j \in 1 .. Len(r) : r[j] = y
    BY <1>5, <2>1, <2>2
  <2> QED
    BY <1>1, <1>2, <2>3, Positions
<1>8. ASSUME NEW y \in Range(r) PROVE y \in Range(q) /\ y # x
  <2>1. PICK i \in 1 .. Len(r) : y = r[i]
    BY <1>1, <1>2, Positions
  <2>2. PICK j \in 1 .. Len(q) : j # k /\ y = q[j]
    BY <1>5, <2>1
  <2> QED
    BY <1>2, <1>3, <2>2, Positions
<1> QED
  BY <1>1, <1>2, <1>6, <1>7, <1>8 DEF r

(* Waking the first n members splits a queue into two without a common one. *)
LEMMA SplitFacts ==
  ASSUME NEW S, NEW q \in Seq(S), NEW n \in 0 .. Len(q)
  PROVE  /\ SubSeq(q, 1, n) \in Seq(S) /\ SubSeq(q, n + 1, Len(q)) \in Seq(S)
         /\ Len(SubSeq(q, 1, n)) = n
         /\ Range(SubSeq(q, 1, n)) \subseteq Range(q)
         /\ Range(SubSeq(q, n + 1, Len(q))) \subseteq Range(q)
         /\ IsInjective(q) =>
              /\ IsInjective(SubSeq(q, 1, n))
              /\ IsInjective(SubSeq(q, n + 1, Len(q)))
              /\ Range(SubSeq(q, 1, n)) \cap Range(SubSeq(q, n + 1, Len(q))) = {}
<1> DEFINE p == SubSeq(q, 1, n)
           r == SubSeq(q, n + 1, Len(q))
<1>1. /\ p \in Seq(S) /\ Len(p) = n
      /\ r \in Seq(S) /\ Len(r) = Len(q) - n
      /\ \A i \in 1 .. n : p[i] = q[i]
      /\ \A i \in 1 .. Len(q) - n : r[i] = q[i + n]
  OBVIOUS
<1> HIDE DEF p, r
<1>2. Range(p) \subseteq Range(q)
  <2>1. ASSUME NEW y \in Range(p) PROVE y \in Range(q)
    <3>1. PICK i \in 1 .. n : y = p[i]
      BY <1>1, Positions
    <3> QED
      BY <1>1, <3>1, Positions, SMTT(30)
  <2> QED
    BY <2>1
<1>3. Range(r) \subseteq Range(q)
  <2>1. ASSUME NEW y \in Range(r) PROVE y \in Range(q)
    <3>1. PICK i \in 1 .. Len(q) - n : y = r[i]
      BY <1>1, Positions
    <3>2. i + n \in 1 .. Len(q) /\ y = q[i + n]
      BY <1>1, <3>1
    <3> QED
      BY <3>2, Positions
  <2> QED
    BY <2>1
<1>4. ASSUME IsInjective(q)
      PROVE  IsInjective(p) /\ IsInjective(r) /\ Range(p) \cap Range(r) = {}
  <2>1. \A i, j \in 1 .. Len(q) : q[i] = q[j] => i = j
    BY <1>4, Positions
  <2>2. ASSUME NEW i \in 1 .. n, NEW j \in 1 .. n, p[i] = p[j]
        PROVE  i = j
    <3>1. i \in 1 .. Len(q) /\ j \in 1 .. Len(q)
      OBVIOUS
    <3>2. q[i] = q[j]
      BY <1>1, <2>2
    <3> QED
      BY <2>1, <3>1, <3>2
  <2>3. ASSUME NEW i \in 1 .. Len(q) - n, NEW j \in 1 .. Len(q) - n, r[i] = r[j]
        PROVE  i = j
    <3>1. i + n \in 1 .. Len(q) /\ j + n \in 1 .. Len(q) /\ q[i + n] = q[j + n]
      BY <1>1, <2>3
    <3>2. i + n = j + n
      BY <2>1, <3>1
    <3> QED
      BY <3>2
  <2>4. ASSUME NEW y \in Range(p), y \in Range(r) PROVE FALSE
    <3>1. PICK i \in 1 .. n : y = p[i]
      BY <1>1, Positions
    <3>2. PICK j \in 1 .. Len(q) - n : y = r[j]
      BY <1>1, <2>4, Positions
    <3>3. i \in 1 .. Len(q) /\ j + n \in 1 .. Len(q)
      OBVIOUS
    <3>4. q[i] = q[j + n]
      BY <1>1, <3>1, <3>2
    <3>5. i = j + n
      BY <2>1, <3>3, <3>4
    <3> QED
      BY <3>5
  <2>5. IsInjective(p) /\ IsInjective(r)
    BY <1>1, <2>2, <2>3, Positions, ZenonT(30)
  <2> QED
    BY <2>4, <2>5
<1> QED
  BY <1>1, <1>2, <1>3, <1>4 DEF p, r

-----------------------------------------------------------------------------
WaitLabels == {"waitCheck", "waitTake", "waitNull", "waitReset", "waitSleep",
               "waitSleeping", "waitAfter"}

(* Locks is built on Threads: what it adds to the places where a thread     *)
(* continues, and to the ways in which the process stops, is here already,  *)
(* so that its proofs can use the lemmas below.  Dozing is where a thread   *)
(* is in a thread_sleep that has not left the processor yet.                *)
Labels == PC \cup {"lockWait", "cvGap", "cvSleeping", "cvAcquire"}
Halts == Halt \cup {"spin"}
Dozing == {"sleeping", "waitSleeping", "cvSleeping"}

Typed ==
  /\ state \in [Tid -> ThreadState]
  /\ current \in Tid
  /\ readyQ \in Seq(Tid)
  /\ nums \in Int
  /\ wq \in [Tid -> Seq(Tid)]
  /\ clientQ \in [Queues -> Seq(Tid)]
  /\ exitCode \in [Tid -> ExitCodes \cup {NoCode, 0, KillCode}]
  /\ waitingOn \in [Tid -> Tid \cup {NoTid}]
  /\ pc \in [Tid -> Labels]
  /\ target \in [Tid -> Tid \cup {NoTid}]
  /\ held \in [Tid -> Hold]
  /\ halted \in Halts

(* A thread that has fallen asleep finds another one to run, so a sleeping  *)
(* thread is never in the client's code.                                    *)
DozerLeaves ==
  /\ state[current] = "SLEEP" => readyQ # <<>>
  /\ pc[current] \notin {"exit"} \cup Dozing => state[current] \in Schedulable

(* No queue holds a thread that is past its thread_exit.                    *)
NoneGone(rq, ws, cs, at) ==
  /\ \A t \in Range(rq) : at[t] # "exit"
  /\ \A t \in Tid : \A u \in Range(ws[t]) : at[u] # "exit"
  /\ \A q \in Queues : \A u \in Range(cs[q]) : at[u] # "exit"

PcInv ==
  /\ NoneGone(readyQ, wq, clientQ, pc)
  /\ pc[current] # "stub"
  /\ pc[current] = "exit" => state[current] = "EXITED"
  /\ pc[current] \in Dozing =>
       state[current] \in {"SLEEP", "RUNNING", "KILLED"}
  /\ \A t \in Tid : pc[t] \in WaitLabels => target[t] \in Tid

IInv == Typed /\ NumsExact /\ DozerLeaves /\ OnePlace /\ PcInv

-----------------------------------------------------------------------------
(* The context switch.                                                     *)

(* What Switch does to the states: sleepers sleep on, ready threads stay as *)
(* they are, the caller becomes READY if it was RUNNING, and t runs.        *)
LEMMA SwitchStates ==
  ASSUME Typed, NEW st \in [Tid -> ThreadState], NEW t \in Tid, t # current,
         st[t] \in {"READY", "KILLED"},
         NEW rest, NEW ws, NEW cont, Switch(t, rest, st, ws, cont)
  PROVE  /\ state' \in [Tid -> ThreadState]
         /\ state'[t] \in Schedulable
         /\ \A u \in Tid : st[u] = "SLEEP" => state'[u] = "SLEEP"
         /\ \A u \in Tid \ {t, current} :
              st[u] \in {"READY", "KILLED"} => state'[u] = st[u]
         /\ st[current] = "RUNNING" => state'[current] = "READY"
<1> DEFINE left == [Sweep(st, current) EXCEPT
                      ![current] = IF @ = "RUNNING" THEN "READY" ELSE @,
                      ![t] = Granted(@)]
<1>1. current \in Tid
  BY DEF Typed
<1>2. state' = Returned(t, left)
  BY DEF Switch
<1>3. /\ left \in [Tid -> ThreadState]
      /\ left[t] \in Schedulable
      /\ \A u \in Tid : st[u] = "SLEEP" => left[u] = "SLEEP"
      /\ \A u \in Tid \ {t, current} :
           st[u] \in {"READY", "KILLED"} => left[u] = st[u]
      /\ st[current] = "RUNNING" => left[current] = "READY"
  BY <1>1 DEF Sweep, Granted, ThreadState, Schedulable
<1> HIDE DEF left
<1> QED
  BY <1>1, <1>2, <1>3 DEF Returned, Sweep, ThreadState, Schedulable

(* A switch marks what threads hold, and nothing else of it.                *)
LEMMA SwitchHeld ==
  ASSUME Typed, NEW st, NEW t, NEW rest, NEW ws, NEW cont, Switch(t, rest, st, ws, cont)
  PROVE  held' \in [Tid -> Hold]
<1>1. \A lost : Unheld(cont, lost, "freed") \in [Tid -> Hold]
  BY DEF Unheld, Typed, Hold
<1>2. \E lost : held' = Unheld(cont, lost, "freed")
  BY DEF Switch
<1> QED
  BY <1>1, <1>2

(* Switch keeps every thread in its one place and grants the processor to   *)
(* one that left the ready queue.                                           *)
LEMMA SwitchFacts ==
  ASSUME Typed,
         NEW st \in [Tid -> ThreadState], NEW rq \in Seq(Tid),
         NEW ws \in [Tid -> Seq(Tid)], NEW cqs \in [Queues -> Seq(Tid)],
         NEW cont \in [Tid -> Labels],
         NEW t \in Range(rq), NEW rest \in Seq(Tid),
         Len(rest) = Len(rq) - 1, IsInjective(rest), Range(rest) = Range(rq) \ {t},
         Placed(st, current, rq, ws, cqs),
         NoneGone(rq, ws, cqs, cont),
         st[current] # "KILLED",
         st[current] = "RUNNING" => cont[current] # "exit",
         Switch(t, rest, st, ws, cont)
  PROVE  /\ state' \in [Tid -> ThreadState] /\ current' \in Tid
         /\ readyQ' \in Seq(Tid) /\ wq' \in [Tid -> Seq(Tid)] /\ pc' \in [Tid -> Labels]
         /\ Placed(state', current', readyQ', wq', cqs)
         /\ NoneGone(readyQ', wq', cqs, pc')
         /\ state'[current'] \in Schedulable
         /\ pc'[current'] \notin {"stub", "exit"}
         /\ \A u \in Tid : pc'[u] = cont[u] \/ pc'[u] = "user"
         /\ Len(readyQ') + 1 = Len(rq) + (IF st[current] = "RUNNING" THEN 1 ELSE 0)
<1>1. /\ current \in Tid
      /\ Range(rq) \subseteq Tid
      /\ \A u \in Tid : Range(ws[u]) \subseteq Tid
      /\ \A q \in Queues : Range(cqs[q]) \subseteq Tid
  BY RangeType DEF Typed
<1>2. t \in Tid /\ t # current /\ st[t] \in {"READY", "KILLED"}
  BY <1>1 DEF Placed
<1>3. /\ state' \in [Tid -> ThreadState]
      /\ state'[t] \in Schedulable
      /\ \A u \in Tid : st[u] = "SLEEP" => state'[u] = "SLEEP"
      /\ \A u \in Tid \ {t, current} :
           st[u] \in {"READY", "KILLED"} => state'[u] = st[u]
      /\ st[current] = "RUNNING" => state'[current] = "READY"
  BY <1>2, SwitchStates
<1>4. current' = t
  BY DEF Switch
<1>5. /\ \A u \in Range(rest) : u \in Tid /\ u # t /\ u # current /\ cont[u] # "exit"
                                /\ st[u] \in {"READY", "KILLED"}
  BY <1>1 DEF Placed, NoneGone
<1>6. /\ readyQ' \in Seq(Tid) /\ IsInjective(readyQ')
      /\ \/ readyQ' = rest /\ st[current] # "RUNNING"
         \/ /\ st[current] = "RUNNING" /\ Len(readyQ') = Len(rest) + 1
            /\ Range(readyQ') = Range(rest) \cup {current}
  <2>1. readyQ' = Requeued(rest, st)
    BY DEF Switch
  <2>2. CASE st[current] = "RUNNING"
    BY <1>1, <1>5, <2>1, <2>2, AppendFacts DEF Requeued
  <2>3. CASE st[current] # "RUNNING"
    BY <2>1, <2>3 DEF Requeued
  <2> QED
    BY <2>2, <2>3
<1>7. /\ wq' \in [Tid -> Seq(Tid)]
      /\ \A u \in Tid : wq'[u] = ws[u] \/ wq'[u] = <<>>
  BY DEF Switch
<1>8. Range(<<>>) = {} /\ IsInjective(<<>>)
  BY DEF Range, IsInjective
<1>9. /\ pc' \in [Tid -> Labels] /\ pc'[t] \notin {"stub", "exit"}
      /\ \A u \in Tid : pc'[u] = cont[u] \/ pc'[u] = "user"
      /\ \A u \in Tid : cont[u] # "exit" => pc'[u] # "exit"
  BY <1>2 DEF Switch, Labels, PC, NoneGone
<1>10. Placed(state', current', readyQ', wq', cqs)
  <2>1. \A u \in Range(readyQ') : u # t /\ state'[u] \in {"READY", "KILLED"}
    BY <1>1, <1>2, <1>3, <1>5, <1>6
  <2>2. ASSUME NEW u \in Tid
        PROVE  /\ IsInjective(wq'[u])
               /\ \A v \in Range(wq'[u]) : state'[v] = "SLEEP"
               /\ \A v \in Tid \ {u} : Range(wq'[u]) \cap Range(wq'[v]) = {}
               /\ \A q \in Queues : Range(wq'[u]) \cap Range(cqs[q]) = {}
    <3>1. \A v \in Tid : Range(wq'[v]) \subseteq Range(ws[v])
      BY <1>7, <1>8
    <3>2. \A v \in Range(ws[u]) : v \in Tid /\ st[v] = "SLEEP"
      BY <1>1 DEF Placed
    <3>3. IsInjective(wq'[u])
      BY <1>7, <1>8 DEF Placed
    <3>4. /\ \A v \in Tid \ {u} : Range(ws[u]) \cap Range(ws[v]) = {}
          /\ \A q \in Queues : Range(ws[u]) \cap Range(cqs[q]) = {}
      BY DEF Placed
    <3> QED
      BY <1>3, <3>1, <3>2, <3>3, <3>4
  <2>3. ASSUME NEW q \in Queues
        PROVE  \A u \in Range(cqs[q]) : state'[u] = "SLEEP"
    BY <1>1, <1>3 DEF Placed
  <2> QED
    BY <1>4, <1>6, <2>1, <2>2, <2>3 DEF Placed
<1>11. NoneGone(readyQ', wq', cqs, pc')
  <2>1. \A u \in Range(readyQ') : pc'[u] # "exit"
    BY <1>1, <1>5, <1>6, <1>9
  <2>2. ASSUME NEW u \in Tid PROVE \A v \in Range(wq'[u]) : pc'[v] # "exit"
    BY <1>1, <1>7, <1>8, <1>9 DEF NoneGone
  <2>3. ASSUME NEW q \in Queues PROVE \A v \in Range(cqs[q]) : pc'[v] # "exit"
    BY <1>1, <1>9 DEF NoneGone
  <2> QED
    BY <2>1, <2>2, <2>3 DEF NoneGone
<1>12. Len(readyQ') + 1 = Len(rq) + (IF st[current] = "RUNNING" THEN 1 ELSE 0)
  BY <1>6, SMTT(30)
<1> QED
  BY <1>2, <1>3, <1>4, <1>6, <1>7, <1>9, <1>10, <1>11, <1>12

-----------------------------------------------------------------------------
(* One lemma for each way in which the operations change the state.        *)

(* The process stops: nothing else changes.                                 *)
LEMMA HaltInv ==
  ASSUME IInv, NEW how \in Halts, HaltAs(how)
  PROVE  IInv'
  BY DEF HaltAs, IInv, Typed, NumsExact, DozerLeaves, OnePlace, Placed, PcInv,
         NoneGone

(* A step inside thread_wait touches the exit code, waiting_on and locals.  *)
LEMMA LocalInv ==
  ASSUME IInv, NEW label \in Labels \ ({"stub", "exit"} \cup Dozing),
         pc[current] \notin {"exit"} \cup Dozing, Goto(label),
         UNCHANGED <<state, current, readyQ, nums, wq, clientQ, halted>>,
         exitCode' \in [Tid -> ExitCodes \cup {NoCode, 0, KillCode}],
         waitingOn' \in [Tid -> Tid \cup {NoTid}],
         target' \in [Tid -> Tid \cup {NoTid}], held' \in [Tid -> Hold],
         \A t \in Tid \ {current} : target'[t] = target[t],
         label \in WaitLabels => target'[current] \in Tid
  PROVE  IInv'
<1>1. /\ current \in Tid /\ pc' \in [Tid -> Labels]
      /\ pc'[current] = label /\ \A t \in Tid \ {current} : pc'[t] = pc[t]
  BY DEF Goto, IInv, Typed
<1>2. Typed'
  BY <1>1 DEF IInv, Typed
<1>3. NumsExact' /\ DozerLeaves' /\ OnePlace'
  BY <1>1 DEF IInv, NumsExact, DozerLeaves, OnePlace, Placed
<1>4. PcInv'
  <2>1. /\ Range(readyQ) \subseteq Tid
        /\ \A t \in Tid : Range(wq[t]) \subseteq Tid
        /\ \A q \in Queues : Range(clientQ[q]) \subseteq Tid
    BY RangeType DEF IInv, Typed
  <2>2. \A t \in Tid : pc[t] # "exit" => pc'[t] # "exit"
    BY <1>1
  <2>3. NoneGone(readyQ', wq', clientQ', pc')
    BY <2>1, <2>2 DEF IInv, PcInv, NoneGone
  <2> QED
    BY <1>1, <2>3 DEF IInv, PcInv
<1> QED
  BY <1>2, <1>3, <1>4 DEF IInv

(* thread_yield from a state where the caller is not KILLED.                *)
LEMMA YieldInv ==
  ASSUME IInv, NEW t \in Range(readyQ), NEW rest \in Seq(Tid),
         Len(rest) = Len(readyQ) - 1, IsInjective(rest),
         Range(rest) = Range(readyQ) \ {t},
         NEW cont \in [Tid -> Labels], \A u \in Tid \ {current} : cont[u] = pc[u],
         cont[current] = "exit" => state[current] = "EXITED",
         cont[current] \in WaitLabels => target[current] \in Tid,
         state[current] # "KILLED",
         Switch(t, rest, state, wq, cont), SwitchKeeps
  PROVE  IInv'
<1>1. /\ current \in Tid /\ state \in [Tid -> ThreadState] /\ readyQ \in Seq(Tid)
      /\ wq \in [Tid -> Seq(Tid)] /\ clientQ \in [Queues -> Seq(Tid)]
  BY DEF IInv, Typed
<1>2. Placed(state, current, readyQ, wq, clientQ) /\ Typed
  BY DEF IInv, OnePlace
<1>3. NoneGone(readyQ, wq, clientQ, cont)
  <2>1. /\ Range(readyQ) \subseteq Tid
        /\ \A u \in Tid : Range(wq[u]) \subseteq Tid
        /\ \A q \in Queues : Range(clientQ[q]) \subseteq Tid
    BY RangeType DEF IInv, Typed
  <2>2. ASSUME NEW u \in Tid, pc[u] # "exit", state[u] # "EXITED"
        PROVE  cont[u] # "exit"
    BY <2>2
  <2> QED
    BY <1>2, <2>1, <2>2 DEF IInv, PcInv, NoneGone, Placed
<1>4. /\ state' \in [Tid -> ThreadState] /\ current' \in Tid
      /\ readyQ' \in Seq(Tid) /\ wq' \in [Tid -> Seq(Tid)] /\ pc' \in [Tid -> Labels]
      /\ Placed(state', current', readyQ', wq', clientQ)
      /\ NoneGone(readyQ', wq', clientQ, pc')
      /\ state'[current'] \in Schedulable
      /\ pc'[current'] \notin {"stub", "exit"}
      /\ \A u \in Tid : pc'[u] = cont[u] \/ pc'[u] = "user"
      /\ Len(readyQ') + 1 = Len(readyQ) + (IF state[current] = "RUNNING" THEN 1 ELSE 0)
  BY <1>1, <1>2, <1>3, SwitchFacts
<1>5. UNCHANGED <<nums, clientQ, exitCode, waitingOn, target, halted>>
  BY DEF SwitchKeeps, slotVars
<1>6. Typed'
  <2>1. held' \in [Tid -> Hold]
    BY <1>2, SwitchHeld
  <2> QED
    BY <1>2, <1>4, <1>5, <2>1 DEF Typed
<1>7. NumsExact'
  BY <1>1, <1>4, <1>5 DEF IInv, NumsExact, Schedulable, Typed
<1>8. DozerLeaves'
  BY <1>4 DEF DozerLeaves, Schedulable
<1>9. OnePlace'
  BY <1>4, <1>5 DEF OnePlace, Placed
<1>10. PcInv'
  <2>1. NoneGone(readyQ', wq', clientQ', pc')
    BY <1>4, <1>5 DEF NoneGone
  <2>2. \A u \in Tid : pc'[u] \in WaitLabels => target'[u] \in Tid
    BY <1>4, <1>5 DEF IInv, PcInv, WaitLabels
  <2> QED
    BY <1>4, <2>1, <2>2 DEF PcInv, Schedulable
<1> QED
  BY <1>6, <1>7, <1>8, <1>9, <1>10 DEF IInv

(* The woken threads count as ready, the thread that exits counts no more.  *)
LEMMA CountMinusOne ==
  ASSUME NEW a \in Nat, NEW b \in Nat
  PROVE  (a + 1) + b - 1 = a + b
  OBVIOUS

(* What thread_exit leaves at line 544.                                     *)
LEMMA ExitFacts ==
  ASSUME IInv, state[current] \in Schedulable
  PROVE  /\ ExitState \in [Tid -> ThreadState] /\ ExitState[current] = "EXITED"
         /\ ExitReady \in Seq(Tid)
         /\ Len(ExitReady) = Len(readyQ) + Len(wq[current])
         /\ Placed(ExitState, current, ExitReady, [wq EXCEPT ![current] = <<>>], clientQ)
         /\ NoneGone(ExitReady, [wq EXCEPT ![current] = <<>>], clientQ,
                     [pc EXCEPT ![current] = "exit"])
<1> DEFINE ws == [wq EXCEPT ![current] = <<>>]
           at == [pc EXCEPT ![current] = "exit"]
<1>1. /\ current \in Tid /\ readyQ \in Seq(Tid) /\ wq[current] \in Seq(Tid)
      /\ Range(readyQ) \subseteq Tid
      /\ \A u \in Tid : Range(wq[u]) \subseteq Tid
      /\ \A q \in Queues : Range(clientQ[q]) \subseteq Tid
  BY RangeType DEF IInv, Typed
<1>2. Placed(state, current, readyQ, wq, clientQ)
  BY DEF IInv, OnePlace
<1>3. /\ \A u \in Range(readyQ) : u # current /\ state[u] \in {"READY", "KILLED"}
      /\ \A t \in Tid : \A u \in Range(wq[t]) : u # current /\ state[u] = "SLEEP"
      /\ \A q \in Queues : \A u \in Range(clientQ[q]) : u # current /\ state[u] = "SLEEP"
  BY <1>2 DEF Placed, Schedulable
<1>4. /\ ExitState \in [Tid -> ThreadState] /\ ExitState[current] = "EXITED"
      /\ \A u \in Range(wq[current]) : ExitState[u] = "READY"
      /\ \A u \in Tid \ {current} :
           u \notin Range(wq[current]) => ExitState[u] = state[u]
  BY <1>1, <1>3 DEF ExitState, Awaken, ThreadState, IInv, Typed
<1>5. /\ ExitReady \in Seq(Tid) /\ Len(ExitReady) = Len(readyQ) + Len(wq[current])
      /\ Range(ExitReady) = Range(readyQ) \cup Range(wq[current])
      /\ IsInjective(ExitReady)
  <2>1. Range(readyQ) \cap Range(wq[current]) = {}
    BY <1>1, <1>3
  <2>2. IsInjective(readyQ) /\ IsInjective(wq[current])
    BY <1>1, <1>2 DEF Placed
  <2> QED
    BY <1>1, <2>1, <2>2, ConcatFacts DEF ExitReady
<1>6. Range(<<>>) = {} /\ IsInjective(<<>>)
  BY DEF Range, IsInjective
<1>7. /\ ws[current] = <<>> /\ \A u \in Tid \ {current} : ws[u] = wq[u]
  BY <1>1 DEF IInv, Typed
<1>8. /\ \A u \in Tid \ {current} : at[u] = pc[u]
  BY <1>1 DEF IInv, Typed
<1> HIDE DEF ws, at
<1>9. Placed(ExitState, current, ExitReady, ws, clientQ)
  <2>1. \A u \in Range(ExitReady) : u # current /\ ExitState[u] \in {"READY", "KILLED"}
    BY <1>1, <1>3, <1>4, <1>5
  <2>2. ASSUME NEW t \in Tid
        PROVE  /\ IsInjective(ws[t])
               /\ \A u \in Range(ws[t]) : ExitState[u] = "SLEEP"
               /\ \A u \in Tid \ {t} : Range(ws[t]) \cap Range(ws[u]) = {}
               /\ \A q \in Queues : Range(ws[t]) \cap Range(clientQ[q]) = {}
    <3>1. CASE t = current
      BY <1>6, <1>7, <3>1
    <3>2. CASE t # current
      <4>1. ws[t] = wq[t] /\ Range(wq[t]) \cap Range(wq[current]) = {}
        BY <1>1, <1>2, <1>7, <3>2 DEF Placed
      <4>2. \A u \in Range(wq[t]) : ExitState[u] = "SLEEP"
        BY <1>1, <1>3, <1>4, <4>1
      <4>3. \A u \in Tid : Range(ws[u]) \subseteq Range(wq[u])
        BY <1>6, <1>7
      <4> QED
        BY <1>2, <4>1, <4>2, <4>3 DEF Placed
    <3> QED
      BY <3>1, <3>2
  <2>3. ASSUME NEW q \in Queues
        PROVE  \A u \in Range(clientQ[q]) : ExitState[u] = "SLEEP"
    <3>1. Range(wq[current]) \cap Range(clientQ[q]) = {}
      BY <1>1, <1>2 DEF Placed
    <3> QED
      BY <1>1, <1>3, <1>4, <3>1
  <2> QED
    BY <1>2, <1>5, <2>1, <2>2, <2>3 DEF Placed
<1>10. NoneGone(ExitReady, ws, clientQ, at)
  <2>1. NoneGone(readyQ, wq, clientQ, pc)
    BY DEF IInv, PcInv
  <2>2. \A u \in Range(ExitReady) : at[u] # "exit"
    BY <1>1, <1>3, <1>5, <1>8, <2>1 DEF NoneGone
  <2>3. ASSUME NEW t \in Tid PROVE \A u \in Range(ws[t]) : at[u] # "exit"
    BY <1>1, <1>3, <1>6, <1>7, <1>8, <2>1 DEF NoneGone
  <2>4. ASSUME NEW q \in Queues PROVE \A u \in Range(clientQ[q]) : at[u] # "exit"
    BY <1>1, <1>3, <1>8, <2>1 DEF NoneGone
  <2> QED
    BY <2>2, <2>3, <2>4 DEF NoneGone
<1> QED
  BY <1>4, <1>5, <1>9, <1>10 DEF ws, at

(* thread_exit with interrupts enabled, up to line 544.                     *)
LEMMA ExitInv ==
  ASSUME IInv, state[current] \in Schedulable,
         NEW code \in ExitCodes \cup {NoCode, 0, KillCode}, Exit(code)
  PROVE  IInv'
<1>1. CASE NobodyCounted
  BY <1>1, HaltInv DEF Exit, Halts, Halt
<1>2. CASE ~NobodyCounted
  <2>1. /\ BecomeExited(code)
        /\ state' = ExitState /\ readyQ' = ExitReady
        /\ wq' = [wq EXCEPT ![current] = <<>>]
        /\ pc' = [pc EXCEPT ![current] = "exit"]
        /\ UNCHANGED <<current, held, halted>>
    BY <1>2 DEF Exit
  <2>2. /\ nums' = nums + Len(wq[current]) - 1
        /\ exitCode' = [exitCode EXCEPT ![current] = code]
        /\ target' = [target EXCEPT ![current] = NoTid]
        /\ UNCHANGED <<clientQ, waitingOn>>
    BY <2>1 DEF BecomeExited
  <2>3. /\ current \in Tid /\ readyQ \in Seq(Tid) /\ wq[current] \in Seq(Tid) /\ nums \in Int
    BY DEF IInv, Typed
  <2>4. Typed'
    <3>1. /\ state' \in [Tid -> ThreadState] /\ readyQ' \in Seq(Tid)
      BY <2>1, ExitFacts
    <3>2. wq' \in [Tid -> Seq(Tid)] /\ pc' \in [Tid -> Labels]
      BY <2>1 DEF IInv, Typed, Labels, PC
    <3>3. nums' \in Int
      BY <2>2, <2>3
    <3>4. /\ exitCode' \in [Tid -> ExitCodes \cup {NoCode, 0, KillCode}]
          /\ target' \in [Tid -> Tid \cup {NoTid}]
      BY <2>2 DEF IInv, Typed
    <3> QED
      BY <2>1, <2>2, <3>1, <3>2, <3>3, <3>4 DEF IInv, Typed
  <2>5. state'[current'] = "EXITED" /\ pc'[current'] = "exit"
    BY <2>1, <2>3, ExitFacts DEF IInv, Typed
  <2>6. NumsExact'
    <3>1. Len(readyQ') = Len(readyQ) + Len(wq[current])
      BY <2>1, ExitFacts
    <3>2. nums = Len(readyQ) + 1
      BY DEF IInv, NumsExact
    <3>3. Len(readyQ) \in Nat /\ Len(wq[current]) \in Nat
      BY <2>3, Positions
    <3>4. nums' = Len(readyQ')
      <4>1. nums' = nums + Len(wq[current]) - 1
        BY <2>2
      <4>2. nums' = Len(readyQ) + Len(wq[current])
        BY <3>2, <3>3, <4>1, CountMinusOne
      <4> QED
        BY <3>1, <4>2
    <3> QED
      BY <2>5, <3>1, <3>3, <3>4 DEF NumsExact, Schedulable
  <2>7. DozerLeaves'
    BY <2>5 DEF DozerLeaves
  <2>8. OnePlace'
    BY <2>1, <2>2, ExitFacts DEF OnePlace, Placed
  <2>9. PcInv'
    <3>1. NoneGone(readyQ', wq', clientQ', pc')
      BY <2>1, <2>2, ExitFacts DEF NoneGone
    <3>2. \A t \in Tid : pc'[t] \in WaitLabels => target'[t] \in Tid
      BY <2>1, <2>2, <2>3 DEF IInv, PcInv, WaitLabels, Typed
    <3> QED
      BY <2>5, <3>1, <3>2 DEF PcInv, Dozing
  <2> QED
    BY <2>4, <2>6, <2>7, <2>8, <2>9 DEF IInv
<1> QED
  BY <1>1, <1>2

(* The timer hits a KILLED thread: it exits and the next one runs.          *)
LEMMA PreemptKilledInv ==
  ASSUME IInv, PreemptKilled
  PROVE  IInv'
<1>1. state[current] = "KILLED" /\ state[current] \in Schedulable
  BY DEF PreemptKilled, Schedulable
<1>2. CASE NobodyCounted \/ ExitReady = <<>>
  BY <1>2, HaltInv DEF PreemptKilled, Halts, Halt
<1>3. CASE ~(NobodyCounted \/ ExitReady = <<>>)
  <2> DEFINE ws == [wq EXCEPT ![current] = <<>>]
             cont == [pc EXCEPT ![current] = "exit"]
  <2>1. /\ BecomeExited(0) /\ ExitReady # <<>>
        /\ Switch(Head(ExitReady), Tail(ExitReady), ExitState, ws, cont)
        /\ UNCHANGED halted
    BY <1>3 DEF PreemptKilled
  <2>2. /\ nums' = nums + Len(wq[current]) - 1
        /\ exitCode' = [exitCode EXCEPT ![current] = 0]
        /\ target' = [target EXCEPT ![current] = NoTid]
        /\ UNCHANGED <<clientQ, waitingOn>>
    BY <2>1 DEF BecomeExited
  <2>3. /\ current \in Tid /\ readyQ \in Seq(Tid) /\ wq[current] \in Seq(Tid) /\ nums \in Int
        /\ ws \in [Tid -> Seq(Tid)] /\ cont \in [Tid -> Labels]
        /\ clientQ \in [Queues -> Seq(Tid)]
        /\ cont[current] = "exit" /\ \A u \in Tid \ {current} : cont[u] = pc[u]
    BY DEF IInv, Typed, Labels, PC
  <2>4. /\ ExitState \in [Tid -> ThreadState] /\ ExitState[current] = "EXITED"
        /\ ExitReady \in Seq(Tid)
        /\ Len(ExitReady) = Len(readyQ) + Len(wq[current])
        /\ Placed(ExitState, current, ExitReady, ws, clientQ)
        /\ NoneGone(ExitReady, ws, clientQ, cont)
    BY <1>1, ExitFacts
  <2> HIDE DEF ws, cont
  <2>5. /\ Head(ExitReady) \in Range(ExitReady) /\ Tail(ExitReady) \in Seq(Tid)
        /\ Len(Tail(ExitReady)) = Len(ExitReady) - 1
        /\ IsInjective(Tail(ExitReady))
        /\ Range(Tail(ExitReady)) = Range(ExitReady) \ {Head(ExitReady)}
    <3>1. IsInjective(ExitReady)
      BY <2>4 DEF Placed
    <3> QED
      BY <2>1, <2>4, <3>1, TailFacts
  <2>6. Typed
    BY DEF IInv
  <2>7. /\ state' \in [Tid -> ThreadState] /\ current' \in Tid
        /\ readyQ' \in Seq(Tid) /\ wq' \in [Tid -> Seq(Tid)] /\ pc' \in [Tid -> Labels]
        /\ Placed(state', current', readyQ', wq', clientQ)
        /\ NoneGone(readyQ', wq', clientQ, pc')
        /\ state'[current'] \in Schedulable
        /\ pc'[current'] \notin {"stub", "exit"}
        /\ \A u \in Tid : pc'[u] = cont[u] \/ pc'[u] = "user"
        /\ Len(readyQ') + 1
             = Len(ExitReady) + (IF ExitState[current] = "RUNNING" THEN 1 ELSE 0)
    BY <2>1, <2>3, <2>4, <2>5, <2>6, SwitchFacts
  <2>8. Typed'
    <3>1. nums' \in Int
      BY <2>2, <2>3
    <3>2. /\ exitCode' \in [Tid -> ExitCodes \cup {NoCode, 0, KillCode}]
          /\ target' \in [Tid -> Tid \cup {NoTid}]
      BY <2>2, <2>6 DEF Typed
    <3>3. held' \in [Tid -> Hold]
      BY <2>1, <2>6, SwitchHeld
    <3> QED
      BY <2>1, <2>2, <2>6, <2>7, <3>1, <3>2, <3>3 DEF Typed
  <2>9. NumsExact'
    <3>1. nums = Len(readyQ) + 1
      BY <1>1 DEF IInv, NumsExact
    <3>2. Len(readyQ) \in Nat /\ Len(wq[current]) \in Nat /\ Len(readyQ') \in Nat
      BY <2>3, <2>7, Positions
    <3>3. nums' = Len(readyQ') + 1
      <4>1. nums' = nums + Len(wq[current]) - 1
        BY <2>2
      <4>2. /\ Len(ExitReady) = Len(readyQ) + Len(wq[current])
            /\ Len(readyQ') + 1 = Len(ExitReady)
        BY <2>4, <2>7
      <4>3. nums' = Len(readyQ) + Len(wq[current])
        BY <3>1, <3>2, <4>1, CountMinusOne
      <4> QED
        BY <4>2, <4>3
    <3> QED
      BY <2>7, <3>3 DEF NumsExact
  <2>10. DozerLeaves'
    BY <2>7 DEF DozerLeaves, Schedulable
  <2>11. OnePlace'
    BY <2>2, <2>7 DEF OnePlace, Placed
  <2>12. PcInv'
    <3>1. NoneGone(readyQ', wq', clientQ', pc')
      BY <2>2, <2>7 DEF NoneGone
    <3>2. \A t \in Tid : pc'[t] \in WaitLabels => target'[t] \in Tid
      BY <2>2, <2>3, <2>6, <2>7 DEF IInv, PcInv, WaitLabels, Typed
    <3> QED
      BY <2>7, <3>1, <3>2 DEF PcInv, Schedulable
  <2> QED
    BY <2>8, <2>9, <2>10, <2>11, <2>12 DEF IInv
<1> QED
  BY <1>2, <1>3

(* Facts about the queues that every lemma below starts from.               *)
LEMMA QueueFacts ==
  ASSUME IInv
  PROVE  /\ current \in Tid /\ readyQ \in Seq(Tid) /\ nums \in Int
         /\ Range(readyQ) \subseteq Tid
         /\ \A t \in Tid : wq[t] \in Seq(Tid) /\ Range(wq[t]) \subseteq Tid
         /\ \A q \in Queues : clientQ[q] \in Seq(Tid) /\ Range(clientQ[q]) \subseteq Tid
         /\ Placed(state, current, readyQ, wq, clientQ)
         /\ NoneGone(readyQ, wq, clientQ, pc)
         /\ \A u \in Range(readyQ) : u # current /\ state[u] \in {"READY", "KILLED"}
         /\ \A t \in Tid : \A u \in Range(wq[t]) : state[u] = "SLEEP"
         /\ \A q \in Queues : \A u \in Range(clientQ[q]) : state[u] = "SLEEP"
  BY RangeType DEF IInv, Typed, OnePlace, PcInv, Placed

(* thread_create: the new thread is in the ready queue once and counted.     *)
LEMMA CreateInv ==
  ASSUME IInv, Create
  PROVE  IInv'
<1>1. PICK t \in Tid :
       /\ FirstVacant(t)
       /\ state' = [state EXCEPT ![t] = "READY"]
       /\ readyQ' = Append(readyQ, t)
       /\ wq' = [wq EXCEPT ![t] = <<>>]
       /\ exitCode' = [exitCode EXCEPT ![t] = NoCode]
       /\ waitingOn' = [waitingOn EXCEPT ![t] = NoTid]
       /\ pc' = [pc EXCEPT ![t] = "stub"]
  BY DEF Create
<1>2. /\ nums' = nums + 1 /\ UNCHANGED <<current, clientQ, target, halted>>
      /\ pc[current] = "user"
  BY DEF Create, At
<1>3. state[current] \in Schedulable
  BY <1>2 DEF IInv, DozerLeaves, Dozing
<1>4. state[t] \in {"UNINITIALIZED", "EXITED"} /\ t # current
  BY <1>1, <1>3 DEF FirstVacant, Vacant, Schedulable
<1>5. /\ t \notin Range(readyQ)
      /\ \A u \in Tid : t \notin Range(wq[u])
      /\ \A q \in Queues : t \notin Range(clientQ[q])
  BY <1>4, QueueFacts
<1>6. /\ readyQ' \in Seq(Tid) /\ Len(readyQ') = Len(readyQ) + 1
      /\ Range(readyQ') = Range(readyQ) \cup {t} /\ IsInjective(readyQ')
  <2>1. IsInjective(readyQ)
    BY QueueFacts DEF Placed
  <2> QED
    BY <1>1, <1>5, <2>1, QueueFacts, AppendFacts
<1>7. Typed'
  <2>1. \E lost : held' = Unheld(pc, lost, "dropped")
    BY DEF Create
  <2>2. held' \in [Tid -> Hold]
    BY <2>1 DEF Unheld, Hold, IInv, Typed
  <2>3. /\ state' \in [Tid -> ThreadState] /\ pc' \in [Tid -> Labels]
        /\ wq' \in [Tid -> Seq(Tid)]
    BY <1>1 DEF IInv, Typed, ThreadState, Labels, PC
  <2>4. /\ exitCode' \in [Tid -> ExitCodes \cup {NoCode, 0, KillCode}]
        /\ waitingOn' \in [Tid -> Tid \cup {NoTid}]
    BY <1>1 DEF IInv, Typed
  <2> QED
    BY <1>2, <1>6, <2>2, <2>3, <2>4, SMTT(30) DEF IInv, Typed
<1>8. /\ state'[t] = "READY" /\ \A u \in Tid \ {t} : state'[u] = state[u]
      /\ pc'[t] = "stub" /\ \A u \in Tid \ {t} : pc'[u] = pc[u]
      /\ \A u \in Tid : wq'[u] = wq[u] \/ wq'[u] = <<>>
  BY <1>1 DEF IInv, Typed
<1>9. NumsExact'
  <2>1. nums = Len(readyQ) + 1
    BY <1>3 DEF IInv, NumsExact
  <2>2. state'[current'] \in Schedulable
    BY <1>2, <1>3, <1>4, <1>8, QueueFacts
  <2> QED
    BY <1>2, <1>6, <2>1, <2>2 DEF NumsExact
<1>10. DozerLeaves'
  BY <1>2, <1>3, <1>4, <1>8, QueueFacts DEF DozerLeaves, Schedulable
<1>11. Range(<<>>) = {} /\ IsInjective(<<>>)
  BY DEF Range, IsInjective
<1>12. OnePlace'
  <2>1. \A u \in Range(readyQ') : u # current' /\ state'[u] \in {"READY", "KILLED"}
    BY <1>2, <1>4, <1>6, <1>8, QueueFacts
  <2>2. ASSUME NEW u \in Tid
        PROVE  /\ IsInjective(wq'[u])
               /\ \A v \in Range(wq'[u]) : state'[v] = "SLEEP"
               /\ \A v \in Tid \ {u} : Range(wq'[u]) \cap Range(wq'[v]) = {}
               /\ \A q \in Queues : Range(wq'[u]) \cap Range(clientQ'[q]) = {}
    <3>1. \A v \in Tid : Range(wq'[v]) \subseteq Range(wq[v])
      BY <1>8, <1>11
    <3>2. \A v \in Range(wq[u]) : state'[v] = "SLEEP"
      BY <1>5, <1>8, QueueFacts
    <3>3. /\ IsInjective(wq[u])
          /\ \A v \in Tid \ {u} : Range(wq[u]) \cap Range(wq[v]) = {}
          /\ \A q \in Queues : Range(wq[u]) \cap Range(clientQ[q]) = {}
      BY QueueFacts DEF Placed
    <3> QED
      BY <1>2, <1>8, <1>11, <3>1, <3>2, <3>3
  <2>3. ASSUME NEW q \in Queues
        PROVE  /\ IsInjective(clientQ'[q])
               /\ \A u \in Range(clientQ'[q]) : state'[u] = "SLEEP"
               /\ \A r \in Queues \ {q} : Range(clientQ'[q]) \cap Range(clientQ'[r]) = {}
    <3>1. /\ IsInjective(clientQ[q])
          /\ \A r \in Queues \ {q} : Range(clientQ[q]) \cap Range(clientQ[r]) = {}
      BY QueueFacts DEF Placed
    <3>2. \A u \in Range(clientQ[q]) : state'[u] = "SLEEP"
      BY <1>5, <1>8, QueueFacts
    <3> QED
      BY <1>2, <3>1, <3>2
  <2> QED
    BY <1>6, <2>1, <2>2, <2>3 DEF OnePlace, Placed
<1>13. PcInv'
  <2>1. NoneGone(readyQ', wq', clientQ', pc')
    <3>1. \A u \in Range(readyQ') : pc'[u] # "exit"
      BY <1>6, <1>8, QueueFacts DEF NoneGone
    <3>2. ASSUME NEW u \in Tid PROVE \A v \in Range(wq'[u]) : pc'[v] # "exit"
      BY <1>5, <1>8, <1>11, QueueFacts DEF NoneGone
    <3>3. ASSUME NEW q \in Queues PROVE \A v \in Range(clientQ'[q]) : pc'[v] # "exit"
      BY <1>2, <1>5, <1>8, QueueFacts DEF NoneGone
    <3> QED
      BY <3>1, <3>2, <3>3 DEF NoneGone
  <2>2. \A u \in Tid : pc'[u] \in WaitLabels => target'[u] \in Tid
    BY <1>2, <1>8 DEF IInv, PcInv, WaitLabels
  <2> QED
    BY <1>2, <1>4, <1>8, <2>1, <2>2, QueueFacts DEF PcInv, Dozing
<1> QED
  BY <1>7, <1>9, <1>10, <1>12, <1>13 DEF IInv

(* A step that changes the states of threads that are neither running nor   *)
(* in a wait queue, and moves nobody.                                       *)
LEMMA RelabelInv ==
  ASSUME IInv, pc[current] = "user", NEW t \in Tid, t # current, state[t] # "SLEEP",
         NEW s \in {"READY", "KILLED", "UNINITIALIZED"},
         t \in Range(readyQ) => s \in {"READY", "KILLED"},
         state' = [state EXCEPT ![t] = s],
         exitCode' \in [Tid -> ExitCodes \cup {NoCode, 0, KillCode}],
         UNCHANGED <<current, readyQ, nums, wq, clientQ, waitingOn, pc, target, held, halted>>
  PROVE  IInv'
<1>1. Typed'
  BY DEF IInv, Typed, ThreadState
<1>2. /\ state'[t] = s /\ \A u \in Tid \ {t} : state'[u] = state[u]
      /\ current \in Tid /\ state'[current] = state[current]
  BY DEF IInv, Typed
<1>3. NumsExact' /\ DozerLeaves'
  BY <1>2 DEF IInv, NumsExact, DozerLeaves
<1>4. OnePlace'
  <2>1. \A u \in Range(readyQ') : u # current' /\ state'[u] \in {"READY", "KILLED"}
    BY <1>2, QueueFacts
  <2>2. \A v \in Tid : \A u \in Range(wq[v]) : state'[u] = "SLEEP"
    BY <1>2, QueueFacts
  <2>3. \A q \in Queues : \A u \in Range(clientQ[q]) : state'[u] = "SLEEP"
    BY <1>2, QueueFacts
  <2> QED
    BY <2>1, <2>2, <2>3, QueueFacts DEF OnePlace, Placed
<1>5. PcInv'
  BY <1>2 DEF IInv, PcInv, NoneGone
<1> QED
  BY <1>1, <1>3, <1>4, <1>5 DEF IInv

(* A thread_create that finds no stack has made its slot look taken, and     *)
(* only that.                                                                *)
LEMMA CreateNoMemoryInv ==
  ASSUME IInv, CreateNoMemory
  PROVE  IInv'
<1>1. PICK t \in Tid :
        /\ FirstVacant(t)
        /\ state' = [state EXCEPT ![t] = IF @ = "EXITED" THEN "READY" ELSE @]
        /\ exitCode' = [exitCode EXCEPT ![t] = NoCode]
  BY DEF CreateNoMemory
<1>2. /\ pc[current] = "user"
      /\ UNCHANGED <<current, readyQ, nums, wq, clientQ, waitingOn, pc, target, held, halted>>
  BY DEF CreateNoMemory, At
<1>3. state[t] \in {"UNINITIALIZED", "EXITED"} /\ t # current
  BY <1>1, <1>2 DEF FirstVacant, Vacant, Schedulable, IInv, DozerLeaves, Dozing
<1> DEFINE s == IF state[t] = "EXITED" THEN "READY" ELSE state[t]
<1>4. /\ state' = [state EXCEPT ![t] = s]
      /\ s \in {"READY", "KILLED", "UNINITIALIZED"}
  BY <1>1, <1>3 DEF IInv, Typed
<1>5. t \notin Range(readyQ)
  BY <1>3, QueueFacts
<1>6. exitCode' \in [Tid -> ExitCodes \cup {NoCode, 0, KillCode}]
  BY <1>1 DEF IInv, Typed
<1> QED
  BY <1>2, <1>3, <1>4, <1>5, <1>6, RelabelInv

(* thread_kill of a thread that does not sleep marks it; it stays where it   *)
(* is.                                                                       *)
LEMMA KillAwakeInv ==
  ASSUME IInv, KillAwake
  PROVE  IInv'
<1>1. PICK t \in Tid :
        /\ Killable(t) /\ state[t] # "SLEEP"
        /\ state' = [state EXCEPT ![t] = "KILLED"]
        /\ exitCode' = [exitCode EXCEPT ![t] = KillCode]
  BY DEF KillAwake
<1>2. /\ pc[current] = "user" /\ t # current
      /\ UNCHANGED <<current, readyQ, nums, wq, clientQ, waitingOn, pc, target, held, halted>>
  BY <1>1 DEF KillAwake, At, Killable
<1>3. exitCode' \in [Tid -> ExitCodes \cup {NoCode, 0, KillCode}]
  BY <1>1 DEF IInv, Typed
<1> QED
  BY <1>1, <1>2, <1>3, RelabelInv

(* A killed sleeper goes from its queue, if it is in one, to the ready one.  *)
LEMMA KilledJoinsInv ==
  ASSUME IInv, pc[current] = "user", NEW t \in Tid, t # current, state[t] = "SLEEP",
         pc[t] # "exit",
         state' = [state EXCEPT ![t] = "KILLED"],
         readyQ' = Append(readyQ, t), nums' = nums + 1,
         exitCode' = [exitCode EXCEPT ![t] = KillCode],
         wq' \in [Tid -> Seq(Tid)],
         \A u \in Tid : IsInjective(wq'[u]) /\ Range(wq'[u]) \subseteq Range(wq[u]) \ {t},
         \A q \in Queues : t \notin Range(clientQ[q]),
         UNCHANGED <<current, clientQ, waitingOn, pc, target, held, halted>>
  PROVE  IInv'
<1>1. state[current] \in Schedulable
  BY DEF IInv, DozerLeaves, Dozing
<1>2. /\ readyQ' \in Seq(Tid) /\ Len(readyQ') = Len(readyQ) + 1
      /\ Range(readyQ') = Range(readyQ) \cup {t} /\ IsInjective(readyQ')
  <2>1. IsInjective(readyQ) /\ t \notin Range(readyQ)
    BY QueueFacts DEF Placed
  <2> QED
    BY <2>1, QueueFacts, AppendFacts
<1>3. Typed'
  <2>1. state' \in [Tid -> ThreadState]
    BY DEF IInv, Typed, ThreadState
  <2>2. nums' \in Int
    BY QueueFacts
  <2>3. exitCode' \in [Tid -> ExitCodes \cup {NoCode, 0, KillCode}]
    BY DEF IInv, Typed
  <2> QED
    BY <1>2, <2>1, <2>2, <2>3 DEF IInv, Typed
<1>4. /\ state'[t] = "KILLED" /\ \A u \in Tid \ {t} : state'[u] = state[u]
      /\ state'[current'] = state[current]
  BY QueueFacts DEF IInv, Typed
<1>5. NumsExact'
  <2>1. nums = Len(readyQ) + 1
    BY <1>1 DEF IInv, NumsExact
  <2> QED
    BY <1>1, <1>2, <1>4, <2>1 DEF NumsExact
<1>6. DozerLeaves'
  BY <1>1, <1>4 DEF DozerLeaves, Schedulable
<1>7. OnePlace'
  <2>1. \A u \in Range(readyQ') : u # current' /\ state'[u] \in {"READY", "KILLED"}
    BY <1>2, <1>4, QueueFacts
  <2>2. ASSUME NEW u \in Tid
        PROVE  /\ IsInjective(wq'[u])
               /\ \A v \in Range(wq'[u]) : state'[v] = "SLEEP"
               /\ \A v \in Tid \ {u} : Range(wq'[u]) \cap Range(wq'[v]) = {}
               /\ \A q \in Queues : Range(wq'[u]) \cap Range(clientQ'[q]) = {}
    <3>1. ASSUME NEW v \in Range(wq'[u])
          PROVE  state'[v] = "SLEEP"
      <4>1. v \in Range(wq[u]) /\ v # t
        OBVIOUS
      <4>2. v \in Tid /\ state[v] = "SLEEP"
        BY <4>1, QueueFacts
      <4> QED
        BY <1>4, <4>1, <4>2
    <3>2. /\ IsInjective(wq[u])
          /\ \A v \in Tid \ {u} : Range(wq[u]) \cap Range(wq[v]) = {}
          /\ \A q \in Queues : Range(wq[u]) \cap Range(clientQ[q]) = {}
      BY QueueFacts DEF Placed
    <3> QED
      BY <3>1, <3>2
  <2>3. ASSUME NEW q \in Queues
        PROVE  /\ IsInjective(clientQ'[q])
               /\ \A u \in Range(clientQ'[q]) : state'[u] = "SLEEP"
               /\ \A r \in Queues \ {q} : Range(clientQ'[q]) \cap Range(clientQ'[r]) = {}
    <3>1. /\ IsInjective(clientQ[q])
          /\ \A r \in Queues \ {q} : Range(clientQ[q]) \cap Range(clientQ[r]) = {}
      BY QueueFacts DEF Placed
    <3>2. \A u \in Range(clientQ[q]) : state'[u] = "SLEEP"
      BY <1>4, QueueFacts
    <3> QED
      BY <3>1, <3>2
  <2> QED
    BY <1>2, <2>1, <2>2, <2>3 DEF OnePlace, Placed
<1>8. PcInv'
  <2>1. NoneGone(readyQ', wq', clientQ', pc')
    BY <1>2, QueueFacts, ZenonT(30) DEF NoneGone
  <2> QED
    BY <1>4, <2>1 DEF IInv, PcInv
<1> QED
  BY <1>3, <1>5, <1>6, <1>7, <1>8 DEF IInv

(* thread_kill of a thread that waits takes it from the queue of the one     *)
(* it waits for and puts it into the ready queue.                            *)
LEMMA KillWaiterInv ==
  ASSUME IInv, KillWaiter
  PROVE  IInv'
<1>1. PICK t \in Tid :
       /\ Killable(t) /\ state[t] = "SLEEP"
       /\ waitingOn[t] # NoTid
       /\ t \in Range(wq[waitingOn[t]])
       /\ state' = [state EXCEPT ![t] = "KILLED"]
       /\ wq' = [wq EXCEPT ![waitingOn[t]] = RemoveFirst(@, t)]
       /\ readyQ' = Append(readyQ, t)
       /\ exitCode' = [exitCode EXCEPT ![t] = KillCode]
  BY DEF KillWaiter
<1> DEFINE w == waitingOn[t]
<1>2. /\ nums' = nums + 1 /\ pc[current] = "user" /\ t # current
      /\ UNCHANGED <<current, clientQ, waitingOn, pc, target, held, halted>>
  BY <1>1 DEF KillWaiter, At, Killable
<1>3. w \in Tid /\ t \in Range(wq[w])
  BY <1>1 DEF IInv, Typed
<1> HIDE DEF w
<1>4. /\ t \notin Range(readyQ)
      /\ \A u \in Tid \ {w} : t \notin Range(wq[u])
      /\ \A q \in Queues : t \notin Range(clientQ[q])
  <2>1. /\ \A u \in Tid \ {w} : Range(wq[w]) \cap Range(wq[u]) = {}
        /\ \A q \in Queues : Range(wq[w]) \cap Range(clientQ[q]) = {}
    BY <1>3, QueueFacts DEF Placed
  <2> QED
    BY <1>1, <1>3, <2>1, QueueFacts
<1>5. /\ wq'[w] \in Seq(Tid) /\ IsInjective(wq'[w])
      /\ Range(wq'[w]) = Range(wq[w]) \ {t}
      /\ \A u \in Tid \ {w} : wq'[u] = wq[u]
  <2>1. wq[w] \in Seq(Tid) /\ IsInjective(wq[w])
    BY <1>3, QueueFacts DEF Placed
  <2>2. /\ wq'[w] = RemoveFirst(wq[w], t)
        /\ \A u \in Tid \ {w} : wq'[u] = wq[u]
    BY <1>1, <1>3 DEF w, IInv, Typed
  <2> QED
    BY <1>3, <2>1, <2>2, RemoveFacts
<1>6. wq' \in [Tid -> Seq(Tid)]
  <2>1. wq' = [u \in Tid |-> wq'[u]]
    BY <1>1 DEF IInv, Typed
  <2>2. \A u \in Tid : wq'[u] \in Seq(Tid)
    BY <1>5, QueueFacts
  <2> QED
    BY <2>1, <2>2
<1>7. \A u \in Tid : IsInjective(wq'[u]) /\ Range(wq'[u]) \subseteq Range(wq[u]) \ {t}
  BY <1>4, <1>5, QueueFacts DEF Placed
<1>8. pc[t] # "exit"
  BY <1>3, QueueFacts DEF NoneGone
<1> QED
  BY <1>1, <1>2, <1>4, <1>6, <1>7, <1>8, KilledJoinsInv

(* thread_kill of a thread that sleeps in a freed queue.                     *)
LEMMA KillLostInv ==
  ASSUME IInv, KillLost
  PROVE  IInv'
<1>1. PICK t \in Tid :
       /\ Killable(t) /\ InWait(t)
       /\ \A u \in Tid : t \notin Range(wq[u])
       /\ \A q \in Queues : t \notin Range(clientQ[q])
       /\ state' = [state EXCEPT ![t] = "KILLED"]
       /\ readyQ' = Append(readyQ, t)
       /\ exitCode' = [exitCode EXCEPT ![t] = KillCode]
  BY DEF KillLost
<1>2. /\ nums' = nums + 1 /\ pc[current] = "user" /\ t # current
      /\ state[t] = "SLEEP" /\ pc[t] # "exit"
      /\ UNCHANGED <<current, wq, clientQ, waitingOn, pc, target, held, halted>>
  BY <1>1 DEF KillLost, At, Killable, InWait
<1>3. wq' \in [Tid -> Seq(Tid)]
  BY <1>2 DEF IInv, Typed
<1>4. \A u \in Tid : IsInjective(wq'[u]) /\ Range(wq'[u]) \subseteq Range(wq[u]) \ {t}
  BY <1>1, <1>2, QueueFacts DEF Placed
<1> QED
  BY <1>1, <1>2, <1>3, <1>4, KilledJoinsInv

(* Falling asleep: the running thread is in no queue, and there is another. *)
LEMMA FallAsleepFacts ==
  ASSUME IInv, pc[current] \in {"user", "waitSleep", "cvGap"},
         NEW label \in Dozing,
         label = "waitSleeping" => target[current] \in Tid, FallAsleep(label)
  PROVE  /\ state' \in [Tid -> ThreadState] /\ pc' \in [Tid -> Labels] /\ nums' \in Int
         /\ state'[current] = "SLEEP"
         /\ \A u \in Tid \ {current} : state'[u] = state[u]
         /\ pc'[current] = label /\ \A u \in Tid \ {current} : pc'[u] = pc[u]
         /\ current \notin Range(readyQ)
         /\ \A u \in Tid : current \notin Range(wq[u])
         /\ \A q \in Queues : current \notin Range(clientQ[q])
         /\ nums' = Len(readyQ) /\ readyQ # <<>>
         /\ \A u \in Tid : pc'[u] \in WaitLabels => target[u] \in Tid
         /\ UNCHANGED <<current, readyQ, exitCode, waitingOn, target, held, halted>>
<1>1. state[current] \in Schedulable
  BY DEF IInv, DozerLeaves, Dozing
<1>2. /\ current \in Tid /\ nums # 1 /\ nums' = nums - 1
      /\ state' = [state EXCEPT ![current] = "SLEEP"]
      /\ pc' = [pc EXCEPT ![current] = label]
      /\ UNCHANGED <<current, readyQ, exitCode, waitingOn, target, held, halted>>
  BY QueueFacts DEF FallAsleep, CanSleep, slotVars
<1>3. /\ state' \in [Tid -> ThreadState] /\ pc' \in [Tid -> Labels]
      /\ state'[current] = "SLEEP"
      /\ \A u \in Tid \ {current} : state'[u] = state[u]
      /\ pc'[current] = label /\ \A u \in Tid \ {current} : pc'[u] = pc[u]
  BY <1>2 DEF IInv, Typed, ThreadState, Labels, Dozing, PC
<1>4. /\ current \notin Range(readyQ)
      /\ \A u \in Tid : current \notin Range(wq[u])
      /\ \A q \in Queues : current \notin Range(clientQ[q])
  BY <1>1, QueueFacts DEF Schedulable
<1>5. nums' \in Int /\ nums' = Len(readyQ) /\ readyQ # <<>>
  <2>1. nums = Len(readyQ) + 1
    BY <1>1 DEF IInv, NumsExact
  <2>2. Len(readyQ) \in Nat
    BY QueueFacts
  <2> QED
    BY <1>2, <2>1, <2>2
<1>6. \A u \in Tid : pc'[u] \in WaitLabels => target[u] \in Tid
  BY <1>3 DEF IInv, PcInv, Dozing, WaitLabels
<1> QED
  BY <1>2, <1>3, <1>4, <1>5, <1>6

(* The thread that fell asleep is in its queue.                             *)
LEMMA AsleepInv ==
  ASSUME IInv, pc[current] \in {"user", "waitSleep", "cvGap"},
         NEW label \in Dozing,
         label = "waitSleeping" => target[current] \in Tid, FallAsleep(label),
         wq' \in [Tid -> Seq(Tid)], clientQ' \in [Queues -> Seq(Tid)],
         Placed(state', current, readyQ, wq', clientQ'),
         NoneGone(readyQ, wq', clientQ', pc')
  PROVE  IInv'
<1>1. /\ state' \in [Tid -> ThreadState] /\ pc' \in [Tid -> Labels] /\ nums' \in Int
      /\ state'[current] = "SLEEP" /\ pc'[current] = label
      /\ nums' = Len(readyQ) /\ readyQ # <<>>
      /\ \A u \in Tid : pc'[u] \in WaitLabels => target[u] \in Tid
      /\ UNCHANGED <<current, readyQ, exitCode, waitingOn, target, held, halted>>
  BY FallAsleepFacts
<1>2. Typed'
  BY <1>1 DEF IInv, Typed
<1>3. NumsExact'
  BY <1>1, QueueFacts, Positions DEF NumsExact, Schedulable
<1>4. DozerLeaves'
  BY <1>1 DEF DozerLeaves
<1>5. OnePlace'
  BY <1>1 DEF OnePlace
<1>6. PcInv'
  BY <1>1 DEF PcInv, Dozing
<1> QED
  BY <1>2, <1>3, <1>4, <1>5, <1>6 DEF IInv

(* The queues with the running thread at the end of one of the client's,    *)
(* asleep.                                                                  *)
LEMMA JoinFacts ==
  ASSUME IInv, state[current] \in Schedulable, NEW q \in Queues, NEW at,
         at[current] # "exit", \A u \in Tid \ {current} : at[u] = pc[u]
  PROVE  /\ [clientQ EXCEPT ![q] = Append(@, current)] \in [Queues -> Seq(Tid)]
         /\ [state EXCEPT ![current] = "SLEEP"] \in [Tid -> ThreadState]
         /\ Placed([state EXCEPT ![current] = "SLEEP"], current, readyQ, wq,
                   [clientQ EXCEPT ![q] = Append(@, current)])
         /\ NoneGone(readyQ, wq, [clientQ EXCEPT ![q] = Append(@, current)], at)
<1> DEFINE cqs == [clientQ EXCEPT ![q] = Append(@, current)]
           st == [state EXCEPT ![current] = "SLEEP"]
<1>1. /\ current \in Tid /\ st \in [Tid -> ThreadState] /\ st[current] = "SLEEP"
      /\ \A u \in Tid \ {current} : st[u] = state[u]
  BY DEF IInv, Typed, ThreadState
<1>2. /\ cqs[q] = Append(clientQ[q], current) /\ cqs = [r \in Queues |-> cqs[r]]
      /\ \A r \in Queues \ {q} : cqs[r] = clientQ[r]
  BY DEF IInv, Typed
<1> HIDE DEF cqs, st
<1>3. /\ current \notin Range(readyQ)
      /\ \A u \in Tid : current \notin Range(wq[u])
      /\ \A r \in Queues : current \notin Range(clientQ[r])
  BY QueueFacts DEF Schedulable
<1>4. /\ cqs[q] \in Seq(Tid) /\ IsInjective(cqs[q])
      /\ Range(cqs[q]) = Range(clientQ[q]) \cup {current}
  <2>1. clientQ[q] \in Seq(Tid) /\ IsInjective(clientQ[q])
    BY QueueFacts DEF Placed
  <2> QED
    BY <1>1, <1>2, <1>3, <2>1, AppendFacts
<1>5. cqs \in [Queues -> Seq(Tid)]
  <2>1. \A r \in Queues : cqs[r] \in Seq(Tid)
    BY <1>2, <1>4, QueueFacts
  <2> QED
    BY <1>2, <2>1
<1>6. \A r \in Queues : Range(cqs[r]) \subseteq Range(clientQ[r]) \cup {current}
  BY <1>2, <1>4
<1>7. Placed(st, current, readyQ, wq, cqs)
  <2>1. \A u \in Range(readyQ) : u # current /\ st[u] \in {"READY", "KILLED"}
    BY <1>1, QueueFacts
  <2>2. ASSUME NEW t \in Tid
        PROVE  /\ IsInjective(wq[t])
               /\ \A u \in Range(wq[t]) : st[u] = "SLEEP"
               /\ \A u \in Tid \ {t} : Range(wq[t]) \cap Range(wq[u]) = {}
               /\ \A r \in Queues : Range(wq[t]) \cap Range(cqs[r]) = {}
    <3>1. /\ IsInjective(wq[t])
          /\ \A u \in Tid \ {t} : Range(wq[t]) \cap Range(wq[u]) = {}
          /\ \A r \in Queues : Range(wq[t]) \cap Range(clientQ[r]) = {}
      BY QueueFacts DEF Placed
    <3>2. \A u \in Range(wq[t]) : st[u] = "SLEEP"
      BY <1>1, QueueFacts
    <3> QED
      BY <1>3, <1>6, <3>1, <3>2
  <2>3. ASSUME NEW r \in Queues
        PROVE  /\ IsInjective(cqs[r])
               /\ \A u \in Range(cqs[r]) : st[u] = "SLEEP"
               /\ \A x \in Queues \ {r} : Range(cqs[r]) \cap Range(cqs[x]) = {}
    <3>1. /\ IsInjective(clientQ[r])
          /\ \A x \in Queues \ {r} : Range(clientQ[r]) \cap Range(clientQ[x]) = {}
      BY QueueFacts DEF Placed
    <3>2. \A u \in Range(cqs[r]) : st[u] = "SLEEP"
      BY <1>1, <1>6, QueueFacts
    <3>3. IsInjective(cqs[r])
      BY <1>2, <1>4, <3>1
    <3>4. ASSUME NEW x \in Queues \ {r} PROVE Range(cqs[r]) \cap Range(cqs[x]) = {}
      <4>1. CASE r # q /\ x # q
        BY <1>2, <3>1, <4>1
      <4>2. CASE r = q
        BY <1>2, <1>3, <1>4, <3>1, <4>2, ZenonT(30)
      <4>3. CASE x = q
        BY <1>2, <1>3, <1>4, <3>1, <4>3
      <4> QED
        BY <4>1, <4>2, <4>3
    <3> QED
      BY <3>2, <3>3, <3>4
  <2> QED
    BY <2>1, <2>2, <2>3, QueueFacts DEF Placed
<1>8. NoneGone(readyQ, wq, cqs, at)
  <2>1. \A u \in Tid : pc[u] # "exit" => at[u] # "exit"
    OBVIOUS
  <2>2. ASSUME NEW r \in Queues, NEW u \in Range(cqs[r]) PROVE at[u] # "exit"
    <3>1. CASE u = current
      BY <3>1
    <3>2. CASE u \in Range(clientQ[r])
      BY <2>1, <3>2, QueueFacts DEF NoneGone
    <3> QED
      BY <1>6, <3>1, <3>2
  <2> QED
    BY <2>1, <2>2, QueueFacts DEF NoneGone
<1> QED
  BY <1>1, <1>5, <1>7, <1>8 DEF cqs, st

(* A thread falls asleep in a queue of the client.                          *)
LEMMA FallAsleepInv ==
  ASSUME IInv, pc[current] \in {"user", "cvGap"}, NEW label \in Dozing \ {"waitSleeping"},
         FallAsleep(label), NEW q \in Queues,
         clientQ' = [clientQ EXCEPT ![q] = Append(@, current)], UNCHANGED wq
  PROVE  IInv'
<1>1. state[current] \in Schedulable
  BY DEF IInv, DozerLeaves, Dozing
<1>2. /\ state' = [state EXCEPT ![current] = "SLEEP"]
      /\ pc'[current] # "exit" /\ \A u \in Tid \ {current} : pc'[u] = pc[u]
  BY DEF FallAsleep, IInv, Typed, Dozing
<1>3. /\ clientQ' \in [Queues -> Seq(Tid)]
      /\ Placed(state', current, readyQ, wq, clientQ')
      /\ NoneGone(readyQ, wq, clientQ', pc')
  BY <1>1, <1>2, JoinFacts
<1>4. wq' = wq /\ wq' \in [Tid -> Seq(Tid)]
  BY DEF IInv, Typed
<1> QED
  BY <1>3, <1>4, AsleepInv

(* thread_sleep called by the client.                                       *)
LEMMA SleepInv ==
  ASSUME IInv, Sleep
  PROVE  IInv'
<1>1. PICK q \in Queues : clientQ' = [clientQ EXCEPT ![q] = Append(@, current)]
  BY DEF Sleep
<1> QED
  BY <1>1, FallAsleepInv DEF Sleep, At, Dozing

(* The sleep inside thread_wait, on the queue of the awaited thread.         *)
LEMMA WaitSleepInv ==
  ASSUME IInv, WaitSleep
  PROVE  IInv'
<1> DEFINE w == target[current]
<1>1. /\ pc[current] = "waitSleep" /\ FallAsleep("waitSleeping") /\ UNCHANGED clientQ
      /\ wq' = [wq EXCEPT ![w] = Append(@, current)]
  BY DEF WaitSleep, At
<1>2. w \in Tid /\ current \in Tid
  BY <1>1, QueueFacts DEF IInv, PcInv, WaitLabels
<1>3. /\ state'[current] = "SLEEP"
      /\ \A u \in Tid \ {current} : state'[u] = state[u]
      /\ pc'[current] = "waitSleeping" /\ \A u \in Tid \ {current} : pc'[u] = pc[u]
      /\ current \notin Range(readyQ)
      /\ \A u \in Tid : current \notin Range(wq[u])
      /\ \A r \in Queues : current \notin Range(clientQ[r])
  BY <1>1, <1>2, FallAsleepFacts DEF Dozing
<1> HIDE DEF w
<1>4. /\ wq'[w] \in Seq(Tid) /\ IsInjective(wq'[w])
      /\ Range(wq'[w]) = Range(wq[w]) \cup {current}
      /\ \A u \in Tid \ {w} : wq'[u] = wq[u]
  <2>1. wq[w] \in Seq(Tid) /\ IsInjective(wq[w])
    BY <1>2, QueueFacts DEF Placed
  <2>2. /\ wq'[w] = Append(wq[w], current)
        /\ \A u \in Tid \ {w} : wq'[u] = wq[u]
    BY <1>1, <1>2 DEF IInv, Typed
  <2> QED
    BY <1>2, <1>3, <2>1, <2>2, AppendFacts
<1>5. /\ wq' \in [Tid -> Seq(Tid)] /\ clientQ' \in [Queues -> Seq(Tid)]
  <2>1. wq' = [u \in Tid |-> wq'[u]]
    BY <1>1 DEF IInv, Typed
  <2>2. \A u \in Tid : wq'[u] \in Seq(Tid)
    BY <1>4, QueueFacts
  <2> QED
    BY <1>1, <2>1, <2>2 DEF IInv, Typed
<1>6. \A u \in Tid : Range(wq'[u]) \subseteq Range(wq[u]) \cup {current}
  BY <1>4
<1>7. Placed(state', current, readyQ, wq', clientQ')
  <2>1. \A u \in Range(readyQ) : u # current /\ state'[u] \in {"READY", "KILLED"}
    BY <1>3, QueueFacts
  <2>2. ASSUME NEW t \in Tid
        PROVE  /\ IsInjective(wq'[t])
               /\ \A u \in Range(wq'[t]) : state'[u] = "SLEEP"
               /\ \A u \in Tid \ {t} : Range(wq'[t]) \cap Range(wq'[u]) = {}
               /\ \A r \in Queues : Range(wq'[t]) \cap Range(clientQ'[r]) = {}
    <3>1. /\ IsInjective(wq[t])
          /\ \A u \in Tid \ {t} : Range(wq[t]) \cap Range(wq[u]) = {}
          /\ \A r \in Queues : Range(wq[t]) \cap Range(clientQ[r]) = {}
      BY QueueFacts DEF Placed
    <3>2. \A u \in Range(wq'[t]) : state'[u] = "SLEEP"
      BY <1>3, <1>6, QueueFacts
    <3>3. \A u \in Tid \ {t} : Range(wq'[t]) \cap Range(wq'[u]) = {}
      BY <1>3, <1>4, <3>1
    <3> QED
      BY <1>1, <1>3, <1>4, <1>6, <3>1, <3>2, <3>3
  <2>3. ASSUME NEW r \in Queues
        PROVE  /\ IsInjective(clientQ'[r])
               /\ \A u \in Range(clientQ'[r]) : state'[u] = "SLEEP"
               /\ \A x \in Queues \ {r} : Range(clientQ'[r]) \cap Range(clientQ'[x]) = {}
    BY <1>1, <1>3, QueueFacts DEF Placed
  <2> QED
    BY <2>1, <2>2, <2>3, QueueFacts DEF Placed
<1>8. NoneGone(readyQ, wq', clientQ', pc')
  <2>1. \A u \in Tid : pc[u] # "exit" => pc'[u] # "exit"
    BY <1>3
  <2>2. ASSUME NEW t \in Tid PROVE \A u \in Range(wq'[t]) : pc'[u] # "exit"
    BY <1>3, <1>6, <2>1, QueueFacts DEF NoneGone
  <2> QED
    BY <1>1, <2>1, <2>2, QueueFacts DEF NoneGone
<1> QED
  BY <1>1, <1>2, <1>5, <1>7, <1>8, AsleepInv DEF w, Dozing

(* The sleep inside thread_wait on a queue that is no thread's.              *)
LEMMA WaitSleepLostInv ==
  ASSUME IInv, WaitSleepLost
  PROVE  IInv'
<1>1. /\ pc[current] = "waitSleep" /\ FallAsleep("waitSleeping")
      /\ UNCHANGED <<wq, clientQ>>
  BY DEF WaitSleepLost, At
<1>2. target[current] \in Tid /\ current \in Tid
  BY <1>1, QueueFacts DEF IInv, PcInv, WaitLabels
<1>3. /\ state'[current] = "SLEEP"
      /\ \A u \in Tid \ {current} : state'[u] = state[u]
      /\ pc'[current] = "waitSleeping" /\ \A u \in Tid \ {current} : pc'[u] = pc[u]
  BY <1>1, <1>2, FallAsleepFacts DEF Dozing
<1>4. Placed(state', current, readyQ, wq', clientQ')
  <2>1. \A u \in Range(readyQ) : u # current /\ state'[u] \in {"READY", "KILLED"}
    BY <1>3, QueueFacts
  <2>2. \A t \in Tid : \A u \in Range(wq[t]) : state'[u] = "SLEEP"
    BY <1>3, QueueFacts
  <2>3. \A q \in Queues : \A u \in Range(clientQ[q]) : state'[u] = "SLEEP"
    BY <1>3, QueueFacts
  <2> QED
    BY <1>1, <2>1, <2>2, <2>3, QueueFacts DEF Placed
<1>5. NoneGone(readyQ, wq', clientQ', pc')
  <2>1. \A u \in Tid : pc[u] # "exit" => pc'[u] # "exit"
    BY <1>3
  <2> QED
    BY <1>1, <2>1, QueueFacts DEF NoneGone
<1>6. wq' \in [Tid -> Seq(Tid)] /\ clientQ' \in [Queues -> Seq(Tid)]
  BY <1>1 DEF IInv, Typed
<1> QED
  BY <1>1, <1>2, <1>4, <1>5, <1>6, AsleepInv DEF Dozing

(* Two queues of threads that have no member in common, one behind the other. *)
LEMMA JoinedQueues ==
  ASSUME NEW p \in Seq(Tid), NEW q \in Seq(Tid), NEW r, r = p \o q,
         IsInjective(p), IsInjective(q), Range(p) \cap Range(q) = {}
  PROVE  /\ r \in Seq(Tid) /\ Len(r) = Len(p) + Len(q)
         /\ Range(r) = Range(p) \cup Range(q) /\ IsInjective(r)
  BY ConcatFacts

(* The threads that thread_wakeup moves are ready, in one place, and counted. *)
LEMMA WakeInv ==
  ASSUME IInv, pc[current] = "user", NEW q \in Queues,
         NEW n \in 0 .. Len(clientQ[q]), WakeFrom(q, n),
         UNCHANGED pc \/ Goto("cvGap")
  PROVE  IInv'
<1> DEFINE woken == SubSeq(clientQ[q], 1, n)
           rest == SubSeq(clientQ[q], n + 1, Len(clientQ[q]))
<1>1. /\ state' = Awaken(state, woken) /\ readyQ' = readyQ \o woken
      /\ clientQ' = [clientQ EXCEPT ![q] = rest] /\ nums' = nums + n
      /\ UNCHANGED <<current, wq, exitCode, waitingOn, target, held, halted>>
  BY DEF WakeFrom, slotVars
<1>2. clientQ[q] \in Seq(Tid) /\ IsInjective(clientQ[q])
  BY QueueFacts DEF Placed
<1>3. /\ woken \in Seq(Tid) /\ rest \in Seq(Tid) /\ Len(woken) = n
      /\ Range(woken) \subseteq Range(clientQ[q])
      /\ Range(rest) \subseteq Range(clientQ[q])
      /\ IsInjective(woken) /\ IsInjective(rest) /\ Range(woken) \cap Range(rest) = {}
  BY <1>2, SplitFacts
<1> HIDE DEF woken, rest
<1>4. state[current] \in Schedulable
  BY DEF IInv, DozerLeaves, Dozing
<1>5. /\ \A u \in Range(woken) : u \in Tid /\ state[u] = "SLEEP" /\ u # current
  BY <1>3, <1>4, QueueFacts DEF Schedulable
<1>6. /\ state' \in [Tid -> ThreadState]
      /\ \A u \in Range(woken) : state'[u] = "READY"
      /\ \A u \in Tid : u \notin Range(woken) => state'[u] = state[u]
  BY <1>1, <1>5 DEF Awaken, IInv, Typed, ThreadState
<1>7. /\ readyQ' \in Seq(Tid) /\ Len(readyQ') = Len(readyQ) + n
      /\ Range(readyQ') = Range(readyQ) \cup Range(woken) /\ IsInjective(readyQ')
  <2>1. Range(readyQ) \cap Range(woken) = {}
    BY <1>5, QueueFacts
  <2>2. IsInjective(readyQ) /\ readyQ \in Seq(Tid)
    BY QueueFacts DEF Placed
  <2>3. /\ readyQ' = readyQ \o woken /\ woken \in Seq(Tid) /\ Len(woken) = n
        /\ IsInjective(woken)
    BY <1>1, <1>3
  <2> QED
    BY <2>1, <2>2, <2>3, JoinedQueues, Zenon
<1>8. /\ clientQ' \in [Queues -> Seq(Tid)] /\ clientQ'[q] = rest
      /\ \A r \in Queues \ {q} : clientQ'[r] = clientQ[r]
  BY <1>1, <1>3 DEF IInv, Typed
<1>9. Len(readyQ) \in Nat /\ n \in Nat
  BY QueueFacts, <1>2, Positions
<1>10. /\ pc' \in [Tid -> Labels] /\ pc'[current] \in {"user", "cvGap"}
       /\ \A u \in Tid \ {current} : pc'[u] = pc[u]
  BY DEF Goto, Labels, IInv, Typed
<1>11. Typed'
  BY <1>1, <1>6, <1>7, <1>8, <1>9, <1>10, QueueFacts DEF IInv, Typed
<1>12. state'[current] = state[current]
  BY <1>5, <1>6, QueueFacts
<1>13. NumsExact'
  <2>1. nums = Len(readyQ) + 1
    BY <1>4 DEF IInv, NumsExact
  <2>2. nums' = Len(readyQ') + 1
    BY <1>1, <1>7, <1>9, <2>1
  <2> QED
    BY <1>1, <1>4, <1>12, <2>2 DEF NumsExact
<1>14. DozerLeaves'
  BY <1>1, <1>4, <1>12 DEF DozerLeaves, Schedulable
<1>15. /\ \A t \in Tid : Range(woken) \cap Range(wq[t]) = {}
       /\ \A r \in Queues : Range(woken) \cap Range(clientQ'[r]) = {}
       /\ \A r \in Queues : Range(clientQ'[r]) \subseteq Range(clientQ[r])
  <2>1. \A t \in Tid : Range(clientQ[q]) \cap Range(wq[t]) = {}
    BY QueueFacts DEF Placed
  <2>2. \A r \in Queues \ {q} : Range(clientQ[q]) \cap Range(clientQ[r]) = {}
    BY QueueFacts DEF Placed
  <2> QED
    BY <1>3, <1>8, <2>1, <2>2
<1>16. OnePlace'
  <2>1. \A u \in Range(readyQ') : u # current' /\ state'[u] \in {"READY", "KILLED"}
    BY <1>1, <1>5, <1>6, <1>7, QueueFacts
  <2>2. ASSUME NEW t \in Tid
        PROVE  /\ IsInjective(wq'[t])
               /\ \A u \in Range(wq'[t]) : state'[u] = "SLEEP"
               /\ \A u \in Tid \ {t} : Range(wq'[t]) \cap Range(wq'[u]) = {}
               /\ \A r \in Queues : Range(wq'[t]) \cap Range(clientQ'[r]) = {}
    <3>1. /\ IsInjective(wq[t])
          /\ \A u \in Tid \ {t} : Range(wq[t]) \cap Range(wq[u]) = {}
          /\ \A r \in Queues : Range(wq[t]) \cap Range(clientQ[r]) = {}
      BY QueueFacts DEF Placed
    <3>2. \A u \in Range(wq[t]) : state'[u] = "SLEEP"
      BY <1>6, <1>15, QueueFacts
    <3> QED
      BY <1>1, <1>15, <3>1, <3>2
  <2>3. ASSUME NEW r \in Queues
        PROVE  /\ IsInjective(clientQ'[r])
               /\ \A u \in Range(clientQ'[r]) : state'[u] = "SLEEP"
               /\ \A x \in Queues \ {r} : Range(clientQ'[r]) \cap Range(clientQ'[x]) = {}
    <3>1. /\ IsInjective(clientQ[r])
          /\ \A x \in Queues \ {r} : Range(clientQ[r]) \cap Range(clientQ[x]) = {}
      BY QueueFacts DEF Placed
    <3>2. \A u \in Range(clientQ'[r]) : state'[u] = "SLEEP"
      BY <1>6, <1>15, QueueFacts
    <3>3. IsInjective(clientQ'[r])
      BY <1>3, <1>8, <3>1
    <3> QED
      BY <1>15, <3>1, <3>2, <3>3
  <2> QED
    BY <1>7, <2>1, <2>2, <2>3 DEF OnePlace, Placed
<1>17. PcInv'
  <2>1. NoneGone(readyQ', wq', clientQ', pc')
    <3>1. \A u \in Tid : pc[u] # "exit" => pc'[u] # "exit"
      BY <1>10
    <3> QED
      BY <1>1, <1>3, <1>7, <1>15, <3>1, QueueFacts DEF NoneGone
  <2>2. \A u \in Tid : pc'[u] \in WaitLabels => target'[u] \in Tid
    BY <1>1, <1>10 DEF IInv, PcInv, WaitLabels
  <2> QED
    BY <1>1, <1>12, <1>10, <2>1, <2>2 DEF PcInv, Dozing
<1> QED
  BY <1>11, <1>13, <1>14, <1>16, <1>17 DEF IInv

-----------------------------------------------------------------------------
(* The actions that are instances of the lemmas above.                     *)

(* Taking the first thread of the ready queue.                              *)
LEMMA NextReady ==
  ASSUME IInv, readyQ # <<>>
  PROVE  /\ Head(readyQ) \in Range(readyQ) /\ Tail(readyQ) \in Seq(Tid)
         /\ Len(Tail(readyQ)) = Len(readyQ) - 1 /\ IsInjective(Tail(readyQ))
         /\ Range(Tail(readyQ)) = Range(readyQ) \ {Head(readyQ)}
<1>1. readyQ \in Seq(Tid) /\ IsInjective(readyQ)
  BY QueueFacts DEF Placed
<1> QED
  BY <1>1, TailFacts

(* pc as it is will do as the place where the caller continues.             *)
LEMMA SamePc ==
  ASSUME IInv
  PROVE  /\ pc \in [Tid -> Labels]
         /\ pc[current] = "exit" => state[current] = "EXITED"
         /\ pc[current] \in WaitLabels => target[current] \in Tid
  BY QueueFacts, SMTT(30) DEF IInv, Typed, PcInv

(* A yield to the head of the ready queue, also the timer's.                 *)
LEMMA YieldAnyInv ==
  ASSUME IInv, YieldAny \/ Preempt \/ ExitYield
  PROVE  IInv'
<1>1. /\ readyQ # <<>> /\ state[current] # "KILLED" /\ SwitchKeeps
      /\ Switch(Head(readyQ), Tail(readyQ), state, wq, pc)
  BY SamePc DEF YieldAny, Preempt, ExitYield, At
<1> QED
  BY <1>1, NextReady, SamePc, YieldInv

(* A yield to a chosen ready thread.                                         *)
LEMMA YieldToInv ==
  ASSUME IInv, YieldTo
  PROVE  IInv'
<1>1. PICK t \in Range(readyQ) : Switch(t, RemoveFirst(readyQ, t), state, wq, pc)
  BY DEF YieldTo
<1>2. state[current] # "KILLED" /\ SwitchKeeps
  BY DEF YieldTo
<1>3. /\ RemoveFirst(readyQ, t) \in Seq(Tid)
      /\ Len(RemoveFirst(readyQ, t)) = Len(readyQ) - 1
      /\ IsInjective(RemoveFirst(readyQ, t))
      /\ Range(RemoveFirst(readyQ, t)) = Range(readyQ) \ {t}
  <2>1. readyQ \in Seq(Tid) /\ IsInjective(readyQ)
    BY QueueFacts DEF Placed
  <2> QED
    BY <2>1, RemoveFacts
<1> QED
  BY <1>1, <1>2, <1>3, SamePc, YieldInv

(* The caller of thread_sleep leaves the processor, or goes on if it was    *)
(* woken and nobody else can run.                                           *)
LEMMA DozeEndsInv ==
  ASSUME IInv, pc[current] \in Dozing, state[current] # "KILLED",
         NEW cont \in [Tid -> Labels], \A u \in Tid \ {current} : cont[u] = pc[u],
         cont[current] \in {"user", "waitAfter", "cvAcquire"},
         cont[current] = "waitAfter" => pc[current] = "waitSleeping",
         IF readyQ = <<>>
         THEN pc' = cont /\ UNCHANGED <<state, current, readyQ, wq, held>>
         ELSE Switch(Head(readyQ), Tail(readyQ), state, wq, cont),
         SwitchKeeps
  PROVE  IInv'
<1>1. current \in Tid
  BY QueueFacts
<1>2. cont[current] \in WaitLabels => target[current] \in Tid
  BY <1>1 DEF IInv, PcInv, WaitLabels
<1>3. CASE readyQ = <<>>
  <2>1. /\ pc' = cont /\ UNCHANGED <<state, current, readyQ, wq, held>>
        /\ UNCHANGED <<nums, clientQ, exitCode, waitingOn, target, halted>>
    BY <1>3 DEF SwitchKeeps, slotVars
  <2>2. state[current] \in Schedulable
    BY <1>3 DEF IInv, DozerLeaves, PcInv, Schedulable
  <2>3. Typed' /\ NumsExact' /\ OnePlace'
    BY <2>1 DEF IInv, Typed, NumsExact, OnePlace, Placed
  <2>4. DozerLeaves'
    BY <2>1, <2>2 DEF DozerLeaves, Schedulable
  <2>5. PcInv'
    <3>1. \A u \in Tid : pc[u] # "exit" => pc'[u] # "exit"
      BY <2>1
    <3>2. NoneGone(readyQ', wq', clientQ', pc')
      BY <2>1, <3>1, QueueFacts DEF NoneGone
    <3>3. \A u \in Tid : pc'[u] \in WaitLabels => target'[u] \in Tid
      BY <1>2, <2>1, SMTT(30) DEF IInv, PcInv
    <3> QED
      BY <1>1, <2>1, <3>2, <3>3 DEF PcInv, Dozing
  <2> QED
    BY <2>3, <2>4, <2>5 DEF IInv
<1>4. CASE readyQ # <<>>
  BY <1>2, <1>4, NextReady, YieldInv
<1> QED
  BY <1>3, <1>4

(* thread_yield at the end of a thread_sleep on a client queue or a slot's. *)
LEMMA SleepYieldInv ==
  ASSUME IInv, SleepYield
  PROVE  IInv'
<1>1. /\ pc[current] \in {"sleeping", "waitSleeping"} /\ state[current] # "KILLED"
      /\ IF readyQ = <<>>
         THEN pc' = AfterSleep /\ UNCHANGED <<state, current, readyQ, wq, held>>
         ELSE Switch(Head(readyQ), Tail(readyQ), state, wq, AfterSleep)
      /\ SwitchKeeps
  BY DEF SleepYield, At
<1>2. /\ AfterSleep \in [Tid -> Labels]
      /\ AfterSleep[current] \in {"user", "waitAfter"}
      /\ AfterSleep[current] = "waitAfter" => pc[current] = "waitSleeping"
      /\ \A u \in Tid \ {current} : AfterSleep[u] = pc[u]
  BY <1>1, QueueFacts DEF AfterSleep, IInv, Typed, Labels, PC
<1> HIDE DEF AfterSleep
<1> QED
  BY <1>1, <1>2, DozeEndsInv DEF Dozing

(* All the ways into thread_exit.                                            *)
LEMMA ExitsInv ==
  ASSUME IInv, YieldKilled \/ ThreadExit \/ SleepKilled \/ WaitKilled
  PROVE  IInv'
<1>1. state[current] \in Schedulable
  BY DEF YieldKilled, ThreadExit, SleepKilled, WaitKilled, At, IInv, DozerLeaves, Dozing,
         Schedulable
<1>2. PICK code \in ExitCodes \cup {NoCode, 0, KillCode} : Exit(code)
  <2>1. exitCode[current] \in ExitCodes \cup {NoCode, 0, KillCode}
    BY DEF IInv, Typed
  <2>2. CASE YieldKilled \/ SleepKilled
    BY <2>2 DEF YieldKilled, SleepKilled
  <2>3. CASE ThreadExit
    BY <2>3 DEF ThreadExit
  <2>4. CASE WaitKilled
    BY <2>1, <2>4 DEF WaitKilled
  <2> QED
    BY <2>2, <2>3, <2>4
<1> QED
  BY <1>1, <1>2, ExitInv

(* All the ways in which the process stops.                                  *)
LEMMA HaltsInv ==
  ASSUME IInv, KillSleeperFails \/ ExitProcess \/ WaitNull \/ WaitSleepWild
  PROVE  IInv'
<1>1. PICK how \in Halts : HaltAs(how)
  BY DEF KillSleeperFails, ExitProcess, WaitNull, WaitSleepWild, Halts, Halt
<1> QED
  BY <1>1, HaltInv

(* thread_wait up to its first yield of the processor.                       *)
LEMMA WaitInv ==
  ASSUME IInv, Wait
  PROVE  IInv'
<1>1. PICK t \in Tid \ {current}, pointer \in BOOLEAN :
        /\ target' = [target EXCEPT ![current] = t]
        /\ IF \/ state[t] = "EXITED"
              \/ state[t] = "UNINITIALIZED" /\ exitCode[t] # NoCode /\ pointer
           THEN Goto(IF pointer THEN "waitTake" ELSE "waitNull")
           ELSE Goto("waitCheck")
  BY DEF Wait
<1>2. PICK label \in {"waitTake", "waitNull", "waitCheck"} : Goto(label)
  BY <1>1
<1>3. /\ pc[current] = "user"
      /\ UNCHANGED <<state, current, readyQ, nums, wq, clientQ, exitCode, waitingOn, held,
                   halted>>
  BY DEF Wait, At, slotVars
<1>4. /\ target' \in [Tid -> Tid \cup {NoTid}] /\ target'[current] \in Tid
      /\ \A u \in Tid \ {current} : target'[u] = target[u]
  BY <1>1 DEF IInv, Typed
<1>5. /\ exitCode' \in [Tid -> ExitCodes \cup {NoCode, 0, KillCode}]
      /\ waitingOn' \in [Tid -> Tid \cup {NoTid}] /\ held' \in [Tid -> Hold]
  BY <1>3 DEF IInv, Typed
<1>6. label \in Labels \ ({"stub", "exit"} \cup Dozing)
  BY DEF Labels, Dozing, PC
<1> QED
  BY <1>2, <1>3, <1>4, <1>5, <1>6, LocalInv DEF Dozing

(* The steps inside thread_wait that only move on.                           *)
LEMMA WaitStaysInv ==
  ASSUME IInv, WaitTake \/ WaitCommit \/ WaitSleepNone
  PROVE  IInv'
<1>1. PICK label \in {"waitReset", "waitSleep", "waitAfter"} : Goto(label)
  BY DEF WaitTake, WaitCommit, WaitSleepNone
<1>2. /\ pc[current] \in WaitLabels /\ pc[current] # "waitSleeping"
      /\ UNCHANGED <<state, current, readyQ, nums, wq, clientQ, exitCode, target, halted>>
  BY DEF WaitTake, WaitCommit, WaitSleepNone, At, WaitLabels, slotVars
<1>3. target[current] \in Tid
  BY <1>2 DEF IInv, PcInv, Typed
<1>4. waitingOn' \in [Tid -> Tid \cup {NoTid}] /\ held' \in [Tid -> Hold]
  BY <1>3 DEF WaitTake, WaitCommit, WaitSleepNone, slotVars, IInv, Typed, Hold
<1>5. /\ exitCode' \in [Tid -> ExitCodes \cup {NoCode, 0, KillCode}]
      /\ target' \in [Tid -> Tid \cup {NoTid}]
  BY <1>2 DEF IInv, Typed
<1>6. label \in Labels \ ({"stub", "exit"} \cup Dozing)
  BY DEF Labels, Dozing, PC
<1>7. pc[current] \notin {"exit"} \cup Dozing
  BY <1>2 DEF WaitLabels, Dozing
<1> QED
  BY <1>1, <1>2, <1>3, <1>4, <1>5, <1>6, <1>7, LocalInv

(* The steps with which thread_wait returns.                                 *)
LEMMA WaitReturnsInv ==
  ASSUME IInv, WaitReset \/ WaitInvalid \/ WaitCollect \/ WaitTooLate
  PROVE  IInv'
<1>1. /\ pc[current] \in WaitLabels /\ pc[current] # "waitSleeping" /\ WaitReturns
      /\ UNCHANGED <<state, current, readyQ, nums, wq, clientQ, halted>>
  BY DEF WaitReset, WaitInvalid, WaitCollect, WaitTooLate, At, WaitLabels, slotVars
<1>2. target[current] \in Tid
  BY <1>1 DEF IInv, PcInv, Typed
<1>3. /\ exitCode' \in [Tid -> ExitCodes \cup {NoCode, 0, KillCode}]
      /\ waitingOn' \in [Tid -> Tid \cup {NoTid}]
  BY <1>2 DEF WaitReset, WaitInvalid, WaitCollect, WaitTooLate, slotVars, IInv, Typed
<1>4. /\ Goto("user") /\ target' \in [Tid -> Tid \cup {NoTid}]
      /\ \A u \in Tid \ {current} : target'[u] = target[u]
      /\ held' \in [Tid -> Hold]
  BY <1>1 DEF WaitReturns, IInv, Typed, Hold
<1>5. "user" \in Labels \ ({"stub", "exit"} \cup Dozing) /\ "user" \notin WaitLabels
  BY DEF Labels, Dozing, PC, WaitLabels
<1>6. pc[current] \notin {"exit"} \cup Dozing
  BY <1>1 DEF WaitLabels, Dozing
<1> QED
  BY <1>1, <1>3, <1>4, <1>5, <1>6, LocalInv

(* thread_wakeup moves sleepers from a client's queue to the ready queue.    *)
LEMMA WakeupInv ==
  ASSUME IInv, WakeupOne \/ WakeupAll
  PROVE  IInv'
<1>1. PICK q \in Queues : clientQ[q] # <<>> /\
         (WakeFrom(q, 1) \/ WakeFrom(q, Len(clientQ[q])))
  BY DEF WakeupOne, WakeupAll
<1>2. pc[current] = "user" /\ UNCHANGED pc
  BY DEF WakeupOne, WakeupAll, At
<1>3. 1 \in 0 .. Len(clientQ[q]) /\ Len(clientQ[q]) \in 0 .. Len(clientQ[q])
  <2>1. clientQ[q] \in Seq(Tid)
    BY QueueFacts
  <2> QED
    BY <1>1, <2>1
<1> QED
  BY <1>1, <1>2, <1>3, WakeInv

-----------------------------------------------------------------------------
(* The invariant holds when thread_init has made the first thread.           *)
LEMMA InitInv == Init => IInv
<1> SUFFICES ASSUME Init PROVE IInv
  OBVIOUS
<1>1. 0 \in Tid
  BY MaxThreadsAssumption DEF Tid
<1>2. Range(<<>>) = {} /\ IsInjective(<<>>) /\ Len(<<>>) = 0
  BY DEF Range, IsInjective
<1>3. <<>> \in Seq(Tid)
  OBVIOUS
<1>4. Typed
  BY <1>1, <1>3 DEF Init, Typed, ThreadState, Labels, PC, Hold, Halts, Halt
<1>5. NumsExact /\ DozerLeaves
  BY <1>1, <1>2 DEF Init, NumsExact, DozerLeaves, Schedulable
<1>6. OnePlace
  BY <1>2 DEF Init, OnePlace, Placed
<1>7. PcInv
  BY <1>1, <1>2 DEF Init, PcInv, NoneGone, WaitLabels
<1> QED
  BY <1>4, <1>5, <1>6, <1>7 DEF IInv

(* Every step keeps the invariant.                                           *)
LEMMA NextInv == IInv /\ [Next]_vars => IInv'
<1> SUFFICES ASSUME IInv, [Next]_vars PROVE IInv'
  OBVIOUS
<1>1. CASE Create
  BY <1>1, CreateInv
<1>2. CASE CreateNoMemory
  BY <1>2, CreateNoMemoryInv
<1>3. CASE YieldAny \/ Preempt \/ ExitYield
  BY <1>3, YieldAnyInv
<1>4. CASE YieldTo
  BY <1>4, YieldToInv
<1>5. CASE YieldKilled \/ ThreadExit \/ SleepKilled \/ WaitKilled
  BY <1>5, ExitsInv
<1>6. CASE PreemptKilled
  BY <1>6, PreemptKilledInv
<1>7. CASE KillSleeperFails \/ ExitProcess \/ WaitNull \/ WaitSleepWild
  BY <1>7, HaltsInv
<1>8. CASE KillAwake
  BY <1>8, KillAwakeInv
<1>9. CASE KillWaiter
  BY <1>9, KillWaiterInv
<1>10. CASE Sleep
  BY <1>10, SleepInv
<1>11. CASE SleepYield
  BY <1>11, SleepYieldInv
<1>12. CASE WakeupOne \/ WakeupAll
  BY <1>12, WakeupInv
<1>13. CASE Wait
  BY <1>13, WaitInv
<1>14. CASE WaitTake \/ WaitCommit \/ WaitSleepNone
  BY <1>14, WaitStaysInv
<1>15. CASE WaitReset \/ WaitInvalid \/ WaitCollect \/ WaitTooLate
  BY <1>15, WaitReturnsInv
<1>16. CASE WaitSleep
  BY <1>16, WaitSleepInv
<1>17. CASE WaitSleepLost
  BY <1>17, WaitSleepLostInv
<1>18. CASE KillLost
  BY <1>18, KillLostInv
<1>19. CASE Stopped \/ UNCHANGED vars
  BY <1>19 DEF Stopped, vars, IInv, Typed, NumsExact, DozerLeaves, OnePlace, Placed,
               PcInv, NoneGone
<1> QED
  BY <1>1, <1>2, <1>3, <1>4, <1>5, <1>6, <1>7, <1>8, <1>9, <1>10, <1>11, <1>12, <1>13,
     <1>14, <1>15, <1>16, <1>17, <1>18, <1>19 DEF Next

(* The inductive invariant holds in every reachable state.                  *)
THEOREM Invariance == Spec => []IInv
  BY InitInv, NextInv, PTL DEF Spec

(* Without locks the program is only at its own places.                     *)
Own == pc \in [Tid -> PC] /\ halted \in Halt

(* No step leaves them.                                                     *)
LEMMA OwnNext == Own /\ [Next]_vars => Own'
<1> SUFFICES ASSUME Own, [Next]_vars PROVE Own'
  OBVIOUS
<1> USE DEF Own, PC, Halt
<1>1. ASSUME NEW how \in Halt, HaltAs(how) PROVE Own'
  BY <1>1 DEF HaltAs
<1>2. ASSUME NEW label \in PC, pc' = [pc EXCEPT ![current] = label], halted' = halted
      PROVE  Own'
  BY <1>2
<1>3. ASSUME NEW t, NEW rest, NEW st, NEW ws, NEW cont \in [Tid -> PC],
             Switch(t, rest, st, ws, cont), halted' = halted
      PROVE  Own'
  BY <1>3 DEF Switch
<1>4. ASSUME UNCHANGED <<pc, halted>> PROVE Own'
  BY <1>4
<1>5. ASSUME NEW code, Exit(code) PROVE Own'
  BY <1>1, <1>2, <1>5 DEF Exit
<1>6. CASE Create
  BY <1>6 DEF Create
<1>7. CASE YieldAny \/ YieldTo \/ Preempt \/ ExitYield
  BY <1>3, <1>7 DEF YieldAny, YieldTo, Preempt, ExitYield, SwitchKeeps
<1>8. CASE YieldKilled \/ ThreadExit \/ SleepKilled \/ WaitKilled
  BY <1>5, <1>8 DEF YieldKilled, ThreadExit, SleepKilled, WaitKilled
<1>9. CASE PreemptKilled
  <2>1. [pc EXCEPT ![current] = "exit"] \in [Tid -> PC]
    OBVIOUS
  <2> QED
    BY <1>1, <1>3, <1>9, <2>1 DEF PreemptKilled
<1>10. CASE ExitProcess \/ KillSleeperFails \/ WaitNull \/ WaitSleepWild
  BY <1>1, <1>10 DEF ExitProcess, KillSleeperFails, WaitNull, WaitSleepWild
<1>11. CASE \/ CreateNoMemory \/ KillAwake \/ KillWaiter \/ KillLost
            \/ WakeupOne \/ WakeupAll
  BY <1>4, <1>11 DEF CreateNoMemory, KillAwake, KillWaiter, KillLost, WakeupOne, WakeupAll,
                     WakeFrom
<1>12. CASE Sleep \/ WaitSleep \/ WaitSleepLost
  BY <1>2, <1>12 DEF Sleep, WaitSleep, WaitSleepLost, FallAsleep
<1>13. CASE SleepYield
  <2>1. AfterSleep \in [Tid -> PC]
    BY DEF AfterSleep
  <2>2. halted' = halted
    BY <1>13 DEF SleepYield, SwitchKeeps
  <2>3. CASE readyQ = <<>>
    BY <1>13, <2>1, <2>2, <2>3 DEF SleepYield
  <2>4. CASE readyQ # <<>>
    BY <1>3, <1>13, <2>1, <2>2, <2>4 DEF SleepYield
  <2> QED
    BY <2>3, <2>4
<1>14. CASE Wait
  BY <1>2, <1>14 DEF Wait, Goto
<1>15. CASE WaitTake \/ WaitCommit \/ WaitSleepNone
  BY <1>2, <1>15 DEF WaitTake, WaitCommit, WaitSleepNone, Goto
<1>16. CASE WaitReset \/ WaitInvalid \/ WaitCollect \/ WaitTooLate
  BY <1>2, <1>16 DEF WaitReset, WaitInvalid, WaitCollect, WaitTooLate, WaitReturns, Goto
<1>17. CASE Stopped \/ UNCHANGED vars
  BY <1>4, <1>17 DEF Stopped, vars
<1> QED
  BY <1>6, <1>7, <1>8, <1>9, <1>10, <1>11, <1>12, <1>13, <1>14, <1>15, <1>16, <1>17
     DEF Next

(* Every variable keeps its type.                                           *)
THEOREM TypeCorrect == Spec => []TypeOK
<1>1. Init => Own
  BY DEF Init, Own, PC, Halt
<1>2. IInv /\ Own => TypeOK
  BY DEF IInv, Typed, Own, TypeOK
<1> QED
  BY <1>1, <1>2, OwnNext, Invariance, PTL DEF Spec

(* nums_existing_threads always counts the ready queue and the running      *)
(* thread, however the seven places that keep it by hand interleave.        *)
THEOREM NumsCorrect == Spec => []NumsExact
<1>1. IInv => NumsExact
  BY DEF IInv
<1> QED
  BY <1>1, Invariance, PTL

(* A thread that goes to sleep always finds another one to run.             *)
THEOREM SleeperLeavesAlways == Spec => []SleeperLeaves
<1>1. IInv /\ TypeOK => SleeperLeaves
  BY DEF IInv, TypeOK, PC, DozerLeaves, Dozing, SleeperLeaves
<1> QED
  BY <1>1, Invariance, TypeCorrect, PTL

(* No thread is ever in two places.                                         *)
THEOREM OnePlaceAlways == Spec => []OnePlace
<1>1. IInv => OnePlace
  BY DEF IInv
<1> QED
  BY <1>1, Invariance, PTL

(* The sweep and the reuse of slots never touch a thread that can run again. *)
THEOREM StackSafety == Spec => []ResumableHasStack
<1>1. IInv => ResumableHasStack
  <2> SUFFICES ASSUME IInv PROVE ResumableHasStack
    OBVIOUS
  <2>1. /\ \A u \in Range(readyQ) : state[u] \in {"READY", "KILLED"} /\ pc[u] # "exit"
        /\ \A t \in Tid : \A u \in Range(wq[t]) : state[u] = "SLEEP" /\ pc[u] # "exit"
        /\ \A q \in Queues : \A u \in Range(clientQ[q]) : state[u] = "SLEEP" /\ pc[u] # "exit"
    BY QueueFacts DEF NoneGone
  <2>2. /\ pc[current] = "exit" => state[current] = "EXITED"
        /\ state[current] \in {"UNINITIALIZED", "EXITED"} => pc[current] = "exit"
    BY DEF IInv, PcInv, Dozing, DozerLeaves, Schedulable
  <2> QED
    BY <2>1, <2>2 DEF ResumableHasStack
<1> QED
  BY <1>1, Invariance, PTL

-----------------------------------------------------------------------------
(* Where waiters get lost.                                                 *)

(* The parts of what follows, of the states, the places where the threads   *)
(* continue, what they hold and the threads they wait for.                  *)
Asleep(t, st, at) == st[t] = "SLEEP" /\ at[t] \in {"waitSleeping", "waitAfter"}
Found(st, ws, at, hd, tg) ==
  \A t \in Tid : Asleep(t, st, at) /\ hd[t] = "live"
    => t \in Range(ws[tg[t]]) /\ st[tg[t]] \notin Vacant
Unswept(st, at, hd, tg) ==
  \A t \in Tid : at[t] = "waitSleep" /\ hd[t] = "live"
    => st[tg[t]] # "UNINITIALIZED"

(* A thread in thread_wait that has the processor has swept, or seen, its   *)
(* target since it got it; so a queue that is still the target's when the   *)
(* sleep begins is one that its thread_exit will empty.                     *)
Seen == pc[current] = "waitCheck" \/ (pc[current] = "waitSleep" /\ held[current] = "live")
NoneForgotten ==
  /\ Found(state, wq, pc, held, target)
  /\ Unswept(state, pc, held, target)
  /\ Seen => state[target[current]] # "EXITED"

(* A switch takes a queue only from an exited thread, where nobody sleeps,  *)
(* and marks those who hold it.  No exited thread is left when the thread   *)
(* that runs now comes back from a thread_yield, where it sweeps.           *)
LEMMA SwitchFound ==
  ASSUME current \in Tid, NEW st \in [Tid -> ThreadState], NEW t \in Tid, t # current,
         NEW rest, NEW ws \in [Tid -> Seq(Tid)], NEW cont \in [Tid -> Labels],
         held \in [Tid -> Hold], NEW tg \in [Tid -> Tid \cup {NoTid}],
         \A u \in Tid : cont[u] \in WaitLabels => tg[u] \in Tid /\ tg[u] = target[u],
         Found(st, ws, cont, held, tg), Unswept(st, cont, held, tg),
         cont[t] = pc[t], Switch(t, rest, st, ws, cont)
  PROVE  /\ Found(state', wq', pc', held', tg) /\ Unswept(state', pc', held', tg)
         /\ pc'[current'] \in {"waitCheck", "waitSleep"} =>
              \A u \in Tid : state'[u] # "EXITED"
<1> DEFINE left == [Sweep(st, current) EXCEPT
                      ![current] = IF @ = "RUNNING" THEN "READY" ELSE @,
                      ![t] = Granted(@)]
           swept == {i \in Tid : st[i] = "EXITED" /\ state'[i] # "EXITED"}
<1>1. /\ state' = Returned(t, left) /\ current' = t
      /\ wq' = [i \in Tid |-> IF i \in swept THEN <<>> ELSE ws[i]]
      /\ held' = Unheld(cont, swept, "freed")
      /\ pc' = [cont EXCEPT ![t] = IF @ = "stub" THEN "user" ELSE @]
  BY DEF Switch
<1>2. /\ left \in [Tid -> ThreadState] /\ left[t] # "EXITED"
      /\ \A u \in Tid : left[u] = "SLEEP" => st[u] = "SLEEP"
      /\ \A u \in Tid : left[u] = "UNINITIALIZED" => st[u] \in {"UNINITIALIZED", "EXITED"}
      /\ \A u \in Tid : left[u] = "EXITED" => st[u] = "EXITED"
  BY DEF Sweep, Granted, ThreadState
<1> HIDE DEF left
<1>3. \A u \in Tid : /\ state'[u] = "SLEEP" => st[u] = "SLEEP"
                     /\ state'[u] = "UNINITIALIZED" => st[u] \in {"UNINITIALIZED", "EXITED"}
                     /\ state'[u] = "EXITED" => st[u] = "EXITED"
  BY <1>1, <1>2 DEF Returned, Sweep
<1>4. \A u \in Tid : pc'[u] \in WaitLabels => pc'[u] = cont[u]
  BY <1>1 DEF WaitLabels
<1>5. \A u \in Tid : held'[u] = "live" =>
        held[u] = "live" /\ ~(cont[u] = "waitSleep" /\ target[u] \in swept)
  BY <1>1 DEF Unheld
<1>6. \A u \in Tid \ swept : /\ wq'[u] = ws[u]
                             /\ state'[u] = "UNINITIALIZED" => st[u] = "UNINITIALIZED"
  BY <1>1, <1>3
<1>7. \A u \in swept : st[u] = "EXITED" /\ u \in Tid
  OBVIOUS
<1> HIDE DEF swept
<1>8. Found(state', wq', pc', held', tg)
  <2>1. SUFFICES ASSUME NEW u \in Tid, Asleep(u, state', pc'), held'[u] = "live"
                 PROVE  u \in Range(wq'[tg[u]]) /\ state'[tg[u]] \notin Vacant
    BY DEF Found
  <2>2. Asleep(u, st, cont) /\ held[u] = "live" /\ tg[u] \in Tid
    BY <1>3, <1>4, <1>5, <2>1 DEF Asleep, WaitLabels
  <2>3. u \in Range(ws[tg[u]]) /\ st[tg[u]] \notin Vacant
    BY <2>2 DEF Found
  <2>4. tg[u] \in Tid \ swept
    BY <1>7, <2>2, <2>3 DEF Vacant
  <2> QED
    BY <1>3, <1>6, <2>3, <2>4 DEF Vacant
<1>9. Unswept(state', pc', held', tg)
  <2>1. SUFFICES ASSUME NEW u \in Tid, pc'[u] = "waitSleep", held'[u] = "live"
                 PROVE  state'[tg[u]] # "UNINITIALIZED"
    BY DEF Unswept
  <2>2. cont[u] = "waitSleep" /\ held[u] = "live" /\ tg[u] \in Tid \ swept
    BY <1>4, <1>5, <2>1 DEF WaitLabels
  <2> QED
    BY <1>6, <2>2 DEF Unswept
<1>10. pc'[current'] \in {"waitCheck", "waitSleep"} => \A u \in Tid : state'[u] # "EXITED"
  <2>1. pc[t] # "stub" => \A u \in Tid : state'[u] # "EXITED"
    BY <1>1, <1>2 DEF Returned, Sweep
  <2> QED
    BY <1>1, <2>1
<1> QED
  BY <1>8, <1>9, <1>10

(* The context switches of the operations.                                  *)
LEMMA SwitchForgets ==
  ASSUME IInv, IInv', NEW st \in [Tid -> ThreadState], NEW t \in Tid, t # current,
         NEW rest, NEW ws \in [Tid -> Seq(Tid)], NEW cont \in [Tid -> Labels],
         cont[t] = pc[t],
         \A u \in Tid : cont[u] \in WaitLabels => target[u] \in Tid /\ target'[u] = target[u],
         Found(st, ws, cont, held, target'), Unswept(st, cont, held, target'),
         Switch(t, rest, st, ws, cont)
  PROVE  NoneForgotten'
<1>1. /\ Found(state', wq', pc', held', target') /\ Unswept(state', pc', held', target')
      /\ pc'[current'] \in {"waitCheck", "waitSleep"} =>
           \A u \in Tid : state'[u] # "EXITED"
  <2>1. /\ current \in Tid /\ held \in [Tid -> Hold]
        /\ target' \in [Tid -> Tid \cup {NoTid}]
    BY DEF IInv, Typed
  <2>2. \A u \in Tid : cont[u] \in WaitLabels => target'[u] \in Tid /\ target'[u] = target[u]
    OBVIOUS
  <2> QED
    BY <2>1, <2>2, SwitchFound
<1>2. pc'[current'] \in {"waitCheck", "waitSleep"} => target'[current'] \in Tid
  BY DEF IInv, PcInv, Typed, WaitLabels
<1> QED
  BY <1>1, <1>2 DEF NoneForgotten, Seen, Found, Unswept, Asleep

(* A step that leaves the processor to its thread: whoever sleeps in        *)
(* thread_wait afterwards did so before, or has a target that will wake it. *)
LEMMA StaysFound ==
  ASSUME NoneForgotten, current' = current,
         \A u \in Tid : Asleep(u, state', pc') /\ held'[u] = "live" =>
           \/ u \in Range(wq'[target'[u]]) /\ state'[target'[u]] \notin Vacant
           \/ /\ Asleep(u, state, pc) /\ held[u] = "live" /\ target'[u] = target[u]
              /\ u \in Range(wq[target[u]]) => u \in Range(wq'[target[u]])
              /\ state[target[u]] \notin Vacant => state'[target[u]] \notin Vacant,
         \A u \in Tid : pc'[u] = "waitSleep" /\ held'[u] = "live" =>
           \/ state'[target'[u]] # "UNINITIALIZED"
           \/ /\ pc[u] = "waitSleep" /\ held[u] = "live" /\ target'[u] = target[u]
              /\ state[target[u]] # "UNINITIALIZED" => state'[target[u]] # "UNINITIALIZED",
         (pc'[current] = "waitCheck" \/ (pc'[current] = "waitSleep" /\ held'[current] = "live"))
           => state'[target'[current]] # "EXITED"
  PROVE  NoneForgotten'
<1>1. ASSUME NEW u \in Tid, Asleep(u, state', pc'), held'[u] = "live"
      PROVE  u \in Range(wq'[target'[u]]) /\ state'[target'[u]] \notin Vacant
  BY <1>1 DEF NoneForgotten, Found
<1>2. ASSUME NEW u \in Tid, pc'[u] = "waitSleep", held'[u] = "live"
      PROVE  state'[target'[u]] # "UNINITIALIZED"
  BY <1>2 DEF NoneForgotten, Unswept
<1>3. Found(state', wq', pc', held', target') /\ Unswept(state', pc', held', target')
  BY <1>1, <1>2 DEF Found, Unswept
<1>4. Seen' => state'[target'[current']] # "EXITED"
  BY DEF Seen
<1> QED
  BY <1>3, <1>4 DEF NoneForgotten, Found, Unswept, Asleep

(* What thread_exit leaves: whoever waited for the caller is awake.         *)
LEMMA ExitFound ==
  ASSUME IInv, NoneForgotten,
         NEW tg, tg = [target EXCEPT ![current] = NoTid]
  PROVE  /\ Found(ExitState, [wq EXCEPT ![current] = <<>>],
                  [pc EXCEPT ![current] = "exit"], held, tg)
         /\ Unswept(ExitState, [pc EXCEPT ![current] = "exit"], held, tg)
<1> DEFINE ws == [wq EXCEPT ![current] = <<>>]
           at == [pc EXCEPT ![current] = "exit"]
<1>1. /\ current \in Tid /\ state \in [Tid -> ThreadState]
      /\ at[current] = "exit" /\ \A u \in Tid \ {current} : at[u] = pc[u]
      /\ ws[current] = <<>> /\ \A u \in Tid \ {current} : ws[u] = wq[u]
      /\ \A u \in Tid \ {current} : tg[u] = target[u]
  BY DEF IInv, Typed
<1> HIDE DEF ws, at
<1>2. \A u \in Tid \ {current} :
        /\ ExitState[u] = "SLEEP" => state[u] = "SLEEP" /\ u \notin Range(wq[current])
        /\ ExitState[u] \in Vacant => state[u] = ExitState[u]
  BY <1>1 DEF ExitState, Awaken, Vacant
<1>3. ExitState[current] = "EXITED"
  BY <1>1 DEF ExitState, Awaken
<1>4. \A u \in Tid : pc[u] \in WaitLabels => target[u] \in Tid
  BY DEF IInv, PcInv
<1>5. Found(ExitState, ws, at, held, tg)
  <2>1. SUFFICES ASSUME NEW u \in Tid, Asleep(u, ExitState, at), held[u] = "live"
                 PROVE  u \in Range(ws[tg[u]]) /\ ExitState[tg[u]] \notin Vacant
    BY DEF Found
  <2>2. u # current /\ Asleep(u, state, pc) /\ u \notin Range(wq[current])
    BY <1>1, <1>2, <2>1 DEF Asleep
  <2>3. /\ u \in Range(wq[target[u]]) /\ state[target[u]] \notin Vacant
        /\ target[u] \in Tid
    BY <1>4, <2>1, <2>2 DEF NoneForgotten, Found, Asleep, WaitLabels
  <2> QED
    BY <1>1, <1>2, <2>2, <2>3
<1>6. Unswept(ExitState, at, held, tg)
  <2>1. SUFFICES ASSUME NEW u \in Tid, at[u] = "waitSleep", held[u] = "live"
                 PROVE  ExitState[tg[u]] # "UNINITIALIZED"
    BY DEF Unswept
  <2>2. u # current /\ state[target[u]] # "UNINITIALIZED" /\ target[u] \in Tid
    BY <1>1, <1>4, <2>1 DEF NoneForgotten, Unswept, WaitLabels
  <2> QED
    BY <1>1, <1>2, <1>3, <2>2 DEF Vacant
<1> QED
  BY <1>5, <1>6 DEF ws, at

(* thread_exit up to line 544.                                              *)
LEMMA ExitForgets ==
  ASSUME IInv, NoneForgotten, NEW code, Exit(code)
  PROVE  NoneForgotten'
<1>1. CASE NobodyCounted
  BY <1>1 DEF Exit, HaltAs, NoneForgotten, Found, Unswept, Asleep, Seen
<1>2. CASE ~NobodyCounted
  <2>1. /\ state' = ExitState /\ wq' = [wq EXCEPT ![current] = <<>>]
        /\ pc' = [pc EXCEPT ![current] = "exit"] /\ current' = current
        /\ target' = [target EXCEPT ![current] = NoTid] /\ held' = held
    BY <1>2 DEF Exit, BecomeExited
  <2>2. Found(state', wq', pc', held', target') /\ Unswept(state', pc', held', target')
    BY <2>1, ExitFound
  <2>3. pc'[current'] = "exit"
    BY <2>1 DEF IInv, Typed
  <2> QED
    BY <2>2, <2>3 DEF NoneForgotten, Found, Unswept, Asleep, Seen
<1> QED
  BY <1>1, <1>2

(* A step inside thread_wait that touches no state and no queue, by a       *)
(* thread that is awake.                                                    *)
LEMMA LocalFound ==
  ASSUME IInv, NoneForgotten, pc[current] \notin {"exit"} \cup Dozing, NEW label, Goto(label),
         UNCHANGED <<state, current, wq>>,
         \A u \in Tid \ {current} : target'[u] = target[u] /\ held'[u] = held[u],
         label = "waitSleep" => state[target'[current]] # "UNINITIALIZED",
         label \in {"waitCheck", "waitSleep"} => state[target'[current]] # "EXITED"
  PROVE  NoneForgotten'
<1>1. /\ current \in Tid /\ state[current] # "SLEEP"
      /\ pc'[current] = label /\ \A u \in Tid \ {current} : pc'[u] = pc[u]
  BY DEF Goto, IInv, Typed, DozerLeaves, Schedulable
<1>2. ASSUME NEW u \in Tid, Asleep(u, state', pc'), held'[u] = "live"
      PROVE  /\ Asleep(u, state, pc) /\ held[u] = "live" /\ target'[u] = target[u]
             /\ wq' = wq /\ state' = state
  BY <1>1, <1>2 DEF Asleep
<1>3. ASSUME NEW u \in Tid, pc'[u] = "waitSleep"
      PROVE  \/ state'[target'[u]] # "UNINITIALIZED"
             \/ /\ pc[u] = "waitSleep" /\ target'[u] = target[u] /\ held'[u] = held[u]
                /\ state' = state
  BY <1>1, <1>3
<1> QED
  BY <1>1, <1>2, <1>3, StaysFound

(* Every step keeps NoneForgotten.                                          *)
LEMMA ForgetsNext == IInv /\ IInv' /\ NoneForgotten /\ [Next]_vars => NoneForgotten'
<1> SUFFICES ASSUME IInv, IInv', NoneForgotten, [Next]_vars PROVE NoneForgotten'
  OBVIOUS
<1>1. /\ current \in Tid /\ state \in [Tid -> ThreadState] /\ wq \in [Tid -> Seq(Tid)]
      /\ pc \in [Tid -> Labels] /\ target \in [Tid -> Tid \cup {NoTid}]
      /\ held \in [Tid -> Hold]
      /\ \A u \in Tid : pc[u] \in WaitLabels => target[u] \in Tid
      /\ \A u \in Range(readyQ) : u \in Tid /\ u # current
  BY QueueFacts DEF IInv, Typed, PcInv
<1>2. ASSUME NEW how, HaltAs(how) PROVE NoneForgotten'
  BY <1>2 DEF HaltAs, NoneForgotten, Found, Unswept, Asleep, Seen
<1>3. Found(state, wq, pc, held, target) /\ Unswept(state, pc, held, target)
  BY DEF NoneForgotten
<1>4. ASSUME NEW t \in Range(readyQ), NEW rest, Switch(t, rest, state, wq, pc), SwitchKeeps
      PROVE  NoneForgotten'
  BY <1>1, <1>3, <1>4, SwitchForgets DEF SwitchKeeps
<1>5. CASE Create
  <2>1. PICK t \in Tid :
          /\ state[t] \in Vacant /\ state' = [state EXCEPT ![t] = "READY"]
          /\ wq' = [wq EXCEPT ![t] = <<>>]
          /\ pc' = [pc EXCEPT ![t] = "stub"]
          /\ held' = Unheld(pc, {u \in {t} : state[u] = "EXITED"}, "dropped")
    BY <1>5 DEF Create, FirstVacant
  <2>2. current' = current /\ pc[current] = "user" /\ target' = target
    BY <1>5 DEF Create, At
  <2>3. \A u \in Tid : held'[u] = "live" => held[u] = "live"
    BY <2>1 DEF Unheld
  <2>4. ASSUME NEW u \in Tid, Asleep(u, state', pc'), held'[u] = "live"
        PROVE  /\ Asleep(u, state, pc) /\ held[u] = "live"
               /\ u \in Range(wq'[target[u]]) /\ state'[target[u]] \notin Vacant
    <3>1. Asleep(u, state, pc) /\ held[u] = "live" /\ target[u] \in Tid
      BY <1>1, <2>1, <2>3, <2>4 DEF Asleep, WaitLabels
    <3>2. u \in Range(wq[target[u]]) /\ state[target[u]] \notin Vacant
      BY <1>3, <3>1 DEF Found
    <3>3. target[u] # t
      BY <2>1, <3>2
    <3> QED
      BY <1>1, <2>1, <3>1, <3>2, <3>3
  <2>5. ASSUME NEW u \in Tid, pc'[u] = "waitSleep", held'[u] = "live"
        PROVE  /\ pc[u] = "waitSleep" /\ held[u] = "live" /\ target[u] \in Tid
               /\ state[target[u]] # "UNINITIALIZED" => state'[target[u]] # "UNINITIALIZED"
    BY <1>1, <2>1, <2>3, <2>5 DEF WaitLabels
  <2>6. pc'[current] \in {"user", "stub"}
    BY <1>1, <2>1, <2>2
  <2> QED
    BY <2>2, <2>4, <2>5, <2>6, StaysFound
<1>6. CASE CreateNoMemory \/ KillAwake \/ KillLost \/ WakeupOne \/ WakeupAll
  <2>1. /\ current' = current /\ pc[current] = "user"
        /\ pc' = pc /\ wq' = wq /\ held' = held /\ target' = target
    BY <1>6 DEF CreateNoMemory, KillAwake, KillLost, WakeupOne, WakeupAll, WakeFrom, At
  <2>2. \A u \in Tid : /\ state'[u] = "SLEEP" => state[u] = "SLEEP"
                       /\ state[u] \notin Vacant => state'[u] \notin Vacant
                       /\ state[u] # "UNINITIALIZED" => state'[u] # "UNINITIALIZED"
    <3>1. CASE CreateNoMemory
      BY <1>1, <3>1 DEF CreateNoMemory, Vacant
    <3>2. CASE KillAwake \/ KillLost
      <4>1. PICK t \in Tid : state' = [state EXCEPT ![t] = "KILLED"]
        BY <3>2 DEF KillAwake, KillLost
      <4> QED
        BY <1>1, <4>1 DEF Vacant
    <3>3. CASE WakeupOne \/ WakeupAll
      <4>1. PICK q : state' = Awaken(state, q)
        BY <3>3 DEF WakeupOne, WakeupAll, WakeFrom
      <4> QED
        BY <1>1, <4>1 DEF Awaken, Vacant
    <3> QED
      BY <1>6, <3>1, <3>2, <3>3
  <2>3. \A u \in Tid : Asleep(u, state', pc') => Asleep(u, state, pc) /\ target[u] \in Tid
    BY <1>1, <2>1, <2>2 DEF Asleep, WaitLabels
  <2>4. \A u \in Tid : pc[u] = "waitSleep" => target[u] \in Tid
    BY <1>1 DEF WaitLabels
  <2> QED
    BY <2>1, <2>2, <2>3, <2>4, StaysFound
<1>7. CASE KillWaiter
  <2>1. PICK t \in Tid : /\ state' = [state EXCEPT ![t] = "KILLED"]
                         /\ waitingOn[t] # NoTid
                         /\ t \in Range(wq[waitingOn[t]])
                         /\ wq' = [wq EXCEPT ![waitingOn[t]] = RemoveFirst(@, t)]
    BY <1>7 DEF KillWaiter
  <2> DEFINE w == waitingOn[t]
  <2>2. /\ current' = current /\ pc[current] = "user"
        /\ pc' = pc /\ held' = held /\ target' = target
    BY <1>7 DEF KillWaiter, At
  <2>3. w \in Tid
    BY <2>1 DEF IInv, Typed
  <2>4. Range(RemoveFirst(wq[w], t)) = Range(wq[w]) \ {t}
    BY <1>1, <2>1, <2>3, QueueFacts, RemoveFacts DEF Placed
  <2>5. \A v \in Tid : Range(wq[v]) \ {t} \subseteq Range(wq'[v])
    BY <1>1, <2>1, <2>3, <2>4
  <2>6. \A u \in Tid : /\ state'[u] = "SLEEP" => state[u] = "SLEEP" /\ u # t
                       /\ state[u] \notin Vacant => state'[u] \notin Vacant
                       /\ state[u] # "UNINITIALIZED" => state'[u] # "UNINITIALIZED"
    BY <1>1, <2>1 DEF Vacant
  <2>7. \A u \in Tid : Asleep(u, state', pc') =>
          Asleep(u, state, pc) /\ target[u] \in Tid /\ u # t
    BY <1>1, <2>2, <2>6 DEF Asleep, WaitLabels
  <2>8. \A u \in Tid : pc[u] = "waitSleep" => target[u] \in Tid
    BY <1>1 DEF WaitLabels
  <2> QED
    BY <2>2, <2>5, <2>6, <2>7, <2>8, StaysFound
<1>8. CASE YieldAny \/ Preempt \/ ExitYield
  <2>1. /\ readyQ # <<>> /\ Switch(Head(readyQ), Tail(readyQ), state, wq, pc)
        /\ SwitchKeeps
    BY <1>8 DEF YieldAny, Preempt, ExitYield
  <2> QED
    BY <1>4, <2>1, NextReady
<1>9. CASE YieldTo
  BY <1>4, <1>9 DEF YieldTo
<1>10. CASE YieldKilled \/ ThreadExit \/ SleepKilled \/ WaitKilled
  <2>1. PICK code : Exit(code)
    BY <1>10 DEF YieldKilled, ThreadExit, SleepKilled, WaitKilled
  <2> QED
    BY <2>1, ExitForgets
<1>11. CASE PreemptKilled
  <2>1. CASE NobodyCounted \/ ExitReady = <<>>
    BY <1>2, <1>11, <2>1 DEF PreemptKilled
  <2>2. CASE ~(NobodyCounted \/ ExitReady = <<>>)
    <3> DEFINE ws == [wq EXCEPT ![current] = <<>>]
               cont == [pc EXCEPT ![current] = "exit"]
               t == Head(ExitReady)
    <3>1. /\ ExitReady # <<>> /\ Switch(t, Tail(ExitReady), ExitState, ws, cont)
          /\ target' = [target EXCEPT ![current] = NoTid]
      BY <1>11, <2>2 DEF PreemptKilled, BecomeExited
    <3>2. /\ ExitState \in [Tid -> ThreadState]
          /\ ExitReady \in Seq(Tid) /\ Placed(ExitState, current, ExitReady, ws, clientQ)
      BY <1>11, ExitFacts DEF PreemptKilled, Schedulable
    <3>3. t \in Range(ExitReady)
      BY <3>1, <3>2, TailFacts
    <3>4. t \in Tid /\ t # current
      BY <3>2, <3>3, RangeType DEF Placed
    <3>5. Found(ExitState, ws, cont, held, target') /\ Unswept(ExitState, cont, held, target')
      BY <3>1, ExitFound
    <3>6. ws \in [Tid -> Seq(Tid)] /\ cont \in [Tid -> Labels] /\ cont[t] = pc[t]
      BY <1>1, <3>4 DEF Labels, PC
    <3>7. \A u \in Tid : cont[u] \in WaitLabels => target[u] \in Tid /\ target'[u] = target[u]
      BY <1>1, <3>1 DEF WaitLabels
    <3> HIDE DEF ws, cont, t
    <3> QED
      BY <3>1, <3>2, <3>4, <3>5, <3>6, <3>7, SwitchForgets
  <2> QED
    BY <2>1, <2>2
<1>12. CASE ExitProcess \/ KillSleeperFails \/ WaitNull \/ WaitSleepWild
  BY <1>2, <1>12 DEF ExitProcess, KillSleeperFails, WaitNull, WaitSleepWild
<1>13. CASE Sleep \/ WaitSleep \/ WaitSleepLost
  <2>1. /\ current' = current /\ state' = [state EXCEPT ![current] = "SLEEP"]
        /\ held' = held /\ target' = target
        /\ pc' = [pc EXCEPT ![current] = IF Sleep THEN "sleeping" ELSE "waitSleeping"]
    BY <1>13 DEF Sleep, WaitSleep, WaitSleepLost, FallAsleep, At
  <2>2. \A u \in Tid : Range(wq[u]) \subseteq Range(wq'[u])
    <3>1. CASE WaitSleep
      <4>1. wq' = [wq EXCEPT ![target[current]] = Append(@, current)]
        BY <3>1 DEF WaitSleep
      <4>2. \A u \in Tid : Range(Append(wq[u], current)) = Range(wq[u]) \cup {current}
        BY <1>1, AppendFacts
      <4> QED
        BY <1>1, <4>1, <4>2
    <3>2. CASE Sleep \/ WaitSleepLost
      BY <3>2 DEF Sleep, WaitSleepLost
    <3> QED
      BY <1>13, <3>1, <3>2
  <2>3. WaitSleep \/ WaitSleepLost => pc[current] = "waitSleep" /\ target[current] \in Tid
    BY <1>1 DEF WaitSleep, WaitSleepLost, At, WaitLabels
  <2>4. \A u \in Tid : /\ state[u] \notin Vacant => state'[u] \notin Vacant
                       /\ state[u] # "UNINITIALIZED" => state'[u] # "UNINITIALIZED"
                       /\ u # current => state'[u] = state[u] /\ pc'[u] = pc[u]
    BY <1>1, <2>1 DEF Vacant
  <2>5. pc'[current] \in {"sleeping", "waitSleeping"}
    BY <1>1, <2>1
  <2>6. ASSUME Asleep(current, state', pc'), held'[current] = "live"
        PROVE  /\ current \in Range(wq'[target'[current]])
               /\ state'[target'[current]] \notin Vacant
    <3>1. WaitSleep
      <4>1. pc'[current] = IF Sleep THEN "sleeping" ELSE "waitSleeping"
        BY <1>1, <2>1
      <4>2. ~WaitSleepLost
        BY <2>1, <2>6 DEF WaitSleepLost
      <4> QED
        BY <1>13, <2>6, <4>1, <4>2 DEF Asleep
    <3>2. /\ wq' = [wq EXCEPT ![target[current]] = Append(@, current)]
          /\ pc[current] = "waitSleep" /\ held[current] = "live" /\ target[current] \in Tid
      BY <2>1, <2>3, <2>6, <3>1 DEF WaitSleep
    <3>3. Range(Append(wq[target[current]], current))
            = Range(wq[target[current]]) \cup {current}
      BY <1>1, <3>2, AppendFacts
    <3>4. current \in Range(wq'[target[current]])
      BY <1>1, <3>2, <3>3
    <3>5. state[target[current]] \notin Vacant
      BY <1>1, <3>2 DEF NoneForgotten, Unswept, Seen, Vacant
    <3> QED
      BY <2>1, <2>4, <3>2, <3>4, <3>5
  <2>7. ASSUME NEW u \in Tid, Asleep(u, state', pc'), u # current
        PROVE  Asleep(u, state, pc) /\ target[u] \in Tid
    BY <1>1, <2>4, <2>7 DEF Asleep, WaitLabels
  <2>8. ASSUME NEW u \in Tid, pc'[u] = "waitSleep"
        PROVE  pc[u] = "waitSleep" /\ target[u] \in Tid
    BY <1>1, <2>4, <2>5, <2>8 DEF WaitLabels
  <2> QED
    BY <2>1, <2>2, <2>4, <2>5, <2>6, <2>7, <2>8, StaysFound
<1>14. CASE SleepYield
  <2>1. /\ AfterSleep \in [Tid -> Labels] /\ AfterSleep[current] \in {"user", "waitAfter"}
        /\ AfterSleep[current] = "waitAfter" => pc[current] = "waitSleeping"
        /\ \A u \in Tid \ {current} : AfterSleep[u] = pc[u]
    BY <1>1, <1>14 DEF AfterSleep, Labels, PC, SleepYield, At
  <2> HIDE DEF AfterSleep
  <2>2. target' = target
    BY <1>14 DEF SleepYield, SwitchKeeps
  <2>3. \A u \in Tid : /\ Asleep(u, state, AfterSleep) => Asleep(u, state, pc)
                       /\ AfterSleep[u] = "waitSleep" => pc[u] = "waitSleep"
                       /\ AfterSleep[u] \in WaitLabels => target[u] \in Tid
    BY <1>1, <2>1 DEF Asleep, WaitLabels
  <2>4. CASE readyQ = <<>>
    <3>1. pc' = AfterSleep /\ UNCHANGED <<state, current, wq, held>>
      BY <1>14, <2>4 DEF SleepYield
    <3> QED
      BY <2>1, <2>2, <2>3, <3>1, StaysFound
  <2>5. CASE readyQ # <<>>
    <3>1. Switch(Head(readyQ), Tail(readyQ), state, wq, AfterSleep)
      BY <1>14, <2>5 DEF SleepYield
    <3>2. Head(readyQ) \in Tid /\ Head(readyQ) # current
      BY <1>1, <2>5, NextReady
    <3>3. /\ Found(state, wq, AfterSleep, held, target')
          /\ Unswept(state, AfterSleep, held, target')
      BY <1>3, <2>2, <2>3 DEF Found, Unswept
    <3> QED
      BY <1>1, <2>1, <2>2, <2>3, <3>1, <3>2, <3>3, SwitchForgets
  <2> QED
    BY <2>4, <2>5
<1>15. CASE Wait
  <2>1. PICK t \in Tid \ {current}, pointer \in BOOLEAN :
          /\ target' = [target EXCEPT ![current] = t]
          /\ IF \/ state[t] = "EXITED"
                \/ state[t] = "UNINITIALIZED" /\ exitCode[t] # NoCode /\ pointer
             THEN Goto(IF pointer THEN "waitTake" ELSE "waitNull")
             ELSE Goto("waitCheck")
    BY <1>15 DEF Wait
  <2>2. UNCHANGED <<state, current, wq, held>> /\ pc[current] = "user"
    BY <1>15 DEF Wait, At
  <2>3. target'[current] = t /\ \A u \in Tid \ {current} : target'[u] = target[u]
    BY <1>1, <2>1
  <2>4. PICK label \in {"waitTake", "waitNull", "waitCheck"} :
          Goto(label) /\ (label = "waitCheck" => state[t] # "EXITED")
    BY <2>1
  <2> QED
    BY <2>2, <2>3, <2>4, LocalFound DEF Dozing
<1>16. CASE WaitCommit
  <2>1. /\ pc[current] = "waitCheck" /\ UNCHANGED <<state, current, wq, target>>
        /\ state[target[current]] # "UNINITIALIZED" /\ Goto("waitSleep")
        /\ \A u \in Tid \ {current} : held'[u] = held[u]
    BY <1>1, <1>16 DEF WaitCommit, At
  <2>2. state[target[current]] # "EXITED"
    BY <2>1 DEF NoneForgotten, Seen
  <2> QED
    BY <2>1, <2>2, LocalFound DEF Dozing
<1>17. CASE \/ WaitTake \/ WaitSleepNone
            \/ WaitReset \/ WaitInvalid \/ WaitCollect \/ WaitTooLate
  <2>1. PICK label \in {"waitReset", "waitAfter", "user"} : Goto(label)
    BY <1>17 DEF WaitTake, WaitSleepNone, WaitReset, WaitInvalid, WaitCollect,
                 WaitTooLate, WaitReturns
  <2>2. /\ UNCHANGED <<state, current, wq>>
        /\ pc[current] \in {"waitTake", "waitSleep", "waitReset", "waitCheck", "waitAfter"}
    BY <1>17 DEF WaitTake, WaitSleepNone, WaitReset, WaitInvalid, WaitCollect, WaitTooLate, At
  <2>3. \A u \in Tid \ {current} : target'[u] = target[u] /\ held'[u] = held[u]
    BY <1>1, <1>17 DEF WaitTake, WaitSleepNone, WaitReset, WaitInvalid, WaitCollect,
                       WaitTooLate, WaitReturns
  <2> QED
    BY <2>1, <2>2, <2>3, LocalFound DEF Dozing
<1>18. CASE Stopped \/ UNCHANGED vars
  BY <1>18 DEF Stopped, vars, NoneForgotten, Found, Unswept, Asleep, Seen
<1> QED
  BY <1>5, <1>6, <1>7, <1>8, <1>9, <1>10, <1>11, <1>12, <1>13, <1>14, <1>15,
     <1>16, <1>17, <1>18 DEF Next

(* A thread asleep in thread_wait that no thread_exit will wake got there   *)
(* by the race behind line 747 and no other way, whatever else goes on      *)
(* between the test of line 736 and the sleep.                              *)
THEOREM OnlyRaceLosesWaiters == Spec => []LostOnlyInRace
<1>1. Init => NoneForgotten
  <2>1. 0 \in Tid
    BY MaxThreadsAssumption DEF Tid
  <2> QED
    BY <2>1 DEF Init, NoneForgotten, Found, Unswept, Asleep, Seen
<1>2. NoneForgotten => LostOnlyInRace
  BY DEF NoneForgotten, Found, Asleep, LostOnlyInRace, InWait
<1> QED
  BY <1>1, <1>2, Invariance, ForgetsNext, PTL DEF Spec

-----------------------------------------------------------------------------
(* First come, first served.  A step changes the ready queue in one or two  *)
(* moves: it takes a member out, it adds members at the end.  Each move     *)
(* keeps the places of the others, and so do two of them.                   *)

(* Two moves keep the places if who is there before and after is also there *)
(* between them.                                                            *)
LEMMA KeepsTwice ==
  ASSUME NEW q, NEW p, NEW r, KeepsPlaces(q, p), KeepsPlaces(p, r),
         Range(q) \cap Range(r) \subseteq Range(p)
  PROVE  KeepsPlaces(q, r)
<1> SUFFICES ASSUME NEW a \in Range(q) \cap Range(r), NEW b \in Range(r) \ {a},
                    b \notin Range(q) \/ Before(q, a, b)
             PROVE  Before(r, a, b)
  BY DEF KeepsPlaces
<1>1. b \in Range(p) => Before(p, a, b)
  BY DEF KeepsPlaces
<1> QED
  BY <1>1 DEF KeepsPlaces

(* A queue that is left alone keeps its places.                             *)
LEMMA KeepsAlone ==
  ASSUME NEW q
  PROVE  KeepsPlaces(q, q)
  BY DEF KeepsPlaces

(* Newcomers at the end keep the places.                                    *)
LEMMA KeepsConcat ==
  ASSUME NEW S, NEW p \in Seq(S), NEW q \in Seq(S)
  PROVE  KeepsPlaces(p, p \o q)
<1> DEFINE r == p \o q
<1>1. /\ r \in Seq(S) /\ Len(r) = Len(p) + Len(q)
      /\ \A i \in 1 .. Len(p) : i \in 1 .. Len(r) /\ r[i] = p[i]
      /\ Len(p) \in Nat
  BY ConcatPositions
<1>2. \A i \in 1 .. Len(q) : Len(p) + i \in 1 .. Len(r) /\ r[Len(p) + i] = q[i]
  BY ConcatPositions, <1>1
<1>3. Range(r) = Range(p) \cup Range(q)
  BY ConcatFacts
<1> HIDE DEF r
<1> SUFFICES ASSUME NEW a \in Range(p), NEW b \in Range(r) \ {a},
                    b \notin Range(p) \/ Before(p, a, b)
             PROVE  Before(r, a, b)
  BY DEF KeepsPlaces, r
<1>4. CASE b \notin Range(p)
  <2>1. PICK i \in 1 .. Len(p) : a = p[i]
    BY Positions
  <2>2. PICK j \in 1 .. Len(q) : b = q[j]
    BY <1>3, <1>4, Positions
  <2>3. /\ i \in 1 .. Len(r) /\ r[i] = a
        /\ Len(p) + j \in 1 .. Len(r) /\ r[Len(p) + j] = b /\ i < Len(p) + j
    BY <1>1, <1>2, <2>1, <2>2
  <2> QED
    BY <2>3 DEF Before
<1>5. CASE Before(p, a, b)
  BY <1>1, <1>5 DEF Before
<1> QED
  BY <1>4, <1>5

(* One newcomer at the end keeps the places.                                *)
LEMMA KeepsAppend ==
  ASSUME NEW S, NEW p \in Seq(S), NEW x \in S
  PROVE  KeepsPlaces(p, Append(p, x))
<1>1. Append(p, x) = p \o <<x>> /\ <<x>> \in Seq(S)
  OBVIOUS
<1> QED
  BY <1>1, KeepsConcat

(* Taking out the only copy of a member keeps the places.                   *)
LEMMA KeepsLess ==
  ASSUME NEW S, NEW q \in Seq(S), NEW r \in Seq(S), IsInjective(q),
         NEW k \in 1 .. Len(q), Len(r) = Len(q) - 1,
         \A i \in 1 .. Len(r) : r[i] = IF i < k THEN q[i] ELSE q[i + 1]
  PROVE  KeepsPlaces(q, r)
<1>1. \A i \in 1 .. Len(q) : i # k =>
         LET at == IF i < k THEN i ELSE i - 1
         IN  at \in 1 .. Len(r) /\ r[at] = q[i]
  OBVIOUS
<1>2. /\ \A i \in 1 .. Len(r) : \E j \in 1 .. Len(q) : j # k /\ r[i] = q[j]
      /\ \A i, j \in 1 .. Len(q) : q[i] = q[j] => i = j
  <2>1. ASSUME NEW i \in 1 .. Len(r) PROVE \E j \in 1 .. Len(q) : j # k /\ r[i] = q[j]
    <3>1. CASE i < k
      BY <3>1
    <3>2. CASE ~(i < k)
      <4>1. i + 1 \in 1 .. Len(q) /\ i + 1 # k /\ r[i] = q[i + 1]
        BY <3>2
      <4> QED
        BY <4>1
    <3> QED
      BY <3>1, <3>2
  <2> QED
    BY <2>1, Positions
<1>3. q[k] \notin Range(r)
  <2>1. ASSUME q[k] \in Range(r) PROVE FALSE
    <3> HIDE DEF KeepsPlaces
    <3>1. PICK i \in 1 .. Len(r) : q[k] = r[i]
      BY <2>1, Positions
    <3> QED
      BY <1>2, <3>1
  <2> QED
    BY <2>1
<1>4. Range(r) \subseteq Range(q)
  <2>1. ASSUME NEW y \in Range(r) PROVE y \in Range(q)
    <3>1. PICK i \in 1 .. Len(r) : y = r[i]
      BY <2>1, Positions
    <3>2. PICK j \in 1 .. Len(q) : y = q[j]
      BY <1>2, <3>1
    <3> QED
      BY <3>2, Positions
  <2> QED
    BY <2>1
<1> SUFFICES ASSUME NEW a \in Range(r), NEW b \in Range(r), Before(q, a, b)
             PROVE  Before(r, a, b)
  BY <1>4 DEF KeepsPlaces
<1>5. PICK i \in 1 .. Len(q), j \in 1 .. Len(q) : i < j /\ q[i] = a /\ q[j] = b
  BY DEF Before
<1>6. i # k /\ j # k
  BY <1>3, <1>5
<1> DEFINE m == IF i < k THEN i ELSE i - 1
           n == IF j < k THEN j ELSE j - 1
<1>7. m \in 1 .. Len(r) /\ n \in 1 .. Len(r) /\ r[m] = a /\ r[n] = b
  BY <1>1, <1>5, <1>6
<1>8. m < n
  BY <1>5, <1>6
<1> QED
  BY <1>7, <1>8 DEF Before

(* The thread that gets the processor leaves the ready queue from the       *)
(* front, or from where it is.                                              *)
LEMMA KeepsTail ==
  ASSUME NEW S, NEW q \in Seq(S), IsInjective(q), q # <<>>
  PROVE  KeepsPlaces(q, Tail(q))
<1> DEFINE r == Tail(q)
<1>1. /\ r \in Seq(S) /\ Len(r) = Len(q) - 1 /\ 1 \in 1 .. Len(q)
      /\ \A i \in 1 .. Len(r) : r[i] = q[i + 1] /\ ~(i < 1)
  OBVIOUS
<1> HIDE DEF r
<1>2. \A i \in 1 .. Len(r) : r[i] = IF i < 1 THEN q[i] ELSE q[i + 1]
  BY <1>1
<1>3. KeepsPlaces(q, r)
  BY <1>1, <1>2, KeepsLess
<1> QED
  BY <1>3 DEF r

(* The same for a thread that is called by name.                            *)
LEMMA KeepsRemove ==
  ASSUME NEW S, NEW q \in Seq(S), NEW x \in Range(q), IsInjective(q)
  PROVE  KeepsPlaces(q, RemoveFirst(q, x))
  BY RemovePositions, KeepsLess

(* What thread_yield makes of the ready queue.                              *)
LEMMA KeepsRequeued ==
  ASSUME NEW q \in Seq(Tid), current \in Tid, current \notin Range(q),
         NEW rest \in Seq(Tid), KeepsPlaces(q, rest), NEW st
  PROVE  KeepsPlaces(q, Requeued(rest, st))
<1>1. CASE st[current] = "RUNNING"
  <2>1. KeepsPlaces(rest, Append(rest, current))
    BY KeepsAppend
  <2>2. Range(Append(rest, current)) = Range(rest) \cup {current}
    BY AppendFacts
  <2>3. KeepsPlaces(q, Append(rest, current))
    BY <2>1, <2>2, KeepsTwice
  <2> QED
    BY <1>1, <2>3 DEF Requeued
<1> QED
  BY <1>1 DEF Requeued

(* A wait queue from which the first n members go to the end of the ready   *)
(* queue.                                                                   *)
LEMMA FrontLeaves ==
  ASSUME NEW S, NEW q \in Seq(S), NEW r \in Seq(S), NEW n \in 0 .. Len(q),
         NEW p \in Seq(S), p = r \o SubSeq(q, 1, n)
  PROVE  /\ IsPrefix(SubSeq(q, n + 1, Len(q)), SubSeq(q, n + 1, Len(q)))
         /\ IsSuffix(SubSeq(q, 1, n), p)
<1> DEFINE s == SubSeq(q, 1, n)
<1>1. s \in Seq(S) /\ Len(s) = n
  BY SplitFacts
<1>2. /\ Len(p) = Len(r) + n /\ Len(r) \in Nat /\ n \in Nat
      /\ \A i \in 1 .. n : p[Len(r) + i] = s[i]
  BY <1>1, ConcatPositions
<1> HIDE DEF s
<1> DEFINE a == Reverse(s)
           b == Reverse(p)
<1>3. /\ a \in Seq(S) /\ Len(a) = n
      /\ \A i \in 1 .. n : a[i] = s[n - i + 1]
  BY <1>1 DEF Reverse
<1>4. /\ b \in Seq(S) /\ Len(b) = Len(p)
      /\ \A i \in 1 .. Len(p) : b[i] = p[Len(p) - i + 1]
  BY SMTT(30) DEF Reverse
<1>5. \A i \in 1 .. n : b[i] = a[i]
  <2> SUFFICES ASSUME NEW i \in 1 .. n PROVE b[i] = a[i]
    OBVIOUS
  <2>1. n - i + 1 \in 1 .. n /\ Len(p) - i + 1 = Len(r) + (n - i + 1) /\ i \in 1 .. Len(p)
    BY <1>2
  <2>2. a[i] = s[n - i + 1]
    BY <1>3
  <2>3. b[i] = p[Len(p) - i + 1]
    BY <1>4, <2>1
  <2>4. p[Len(r) + (n - i + 1)] = s[n - i + 1]
    BY <1>2, <2>1
  <2> QED
    BY <2>1, <2>2, <2>3, <2>4, Zenon
<1> HIDE DEF a, b
<1>6. SubSeq(a, 1, n) = SubSeq(b, 1, n) /\ n <= Len(b)
  BY <1>2, <1>3, <1>4, <1>5
<1>7. IsSuffix(s, p)
  BY <1>3, <1>6 DEF IsSuffix, IsPrefix, a, b
<1> QED
  BY <1>7 DEF IsPrefix, s

(* A wait queue that nobody leaves.                                         *)
LEMMA NobodyLeaves ==
  ASSUME NEW S, NEW q \in Seq(S), NEW r, NEW p \in Seq(S),
         r = q \/ \E x \in S : r = Append(q, x)
  PROVE  \E n \in 0 .. Len(q) : /\ IsPrefix(SubSeq(q, n + 1, Len(q)), r)
                                /\ IsSuffix(SubSeq(q, 1, n), p)
<1>1. SubSeq(q, 1, 0) = <<>> /\ p = p \o SubSeq(q, 1, 0) /\ 0 \in 0 .. Len(q)
  OBVIOUS
<1>2. IsSuffix(SubSeq(q, 1, 0), p)
  BY <1>1, FrontLeaves
<1>3. SubSeq(q, 1, Len(q)) = q
  OBVIOUS
<1>4. IsPrefix(q, r)
  BY SMTT(30) DEF IsPrefix
<1>5. IsPrefix(SubSeq(q, 0 + 1, Len(q)), r)
  <2>1. 0 + 1 = 1
    OBVIOUS
  <2>2. SubSeq(q, 0 + 1, Len(q)) = q
    BY <1>3, <2>1
  <2> QED
    BY <1>4, <2>2
<1> QED
  BY <1>1, <1>2, <1>5

-----------------------------------------------------------------------------
(* The steps.                                                               *)

(* No wait queue of the client loses a thread.                              *)
ClientsStay ==
  \A q \in Queues : \/ clientQ'[q] = clientQ[q]
                    \/ \E t \in Tid : clientQ'[q] = Append(clientQ[q], t)

(* Threads come to the end of the ready queue.                              *)
LEMMA FifoJoin ==
  ASSUME IInv, NEW w \in Seq(Tid), readyQ' = readyQ \o w, ClientsStay
  PROVE  FifoStep
<1>1. readyQ \in Seq(Tid) /\ \A q \in Queues : clientQ[q] \in Seq(Tid)
  BY QueueFacts
<1>2. /\ readyQ' \in Seq(Tid) /\ KeepsPlaces(readyQ, readyQ')
      /\ Range(readyQ) \subseteq Range(readyQ')
  BY <1>1, ConcatFacts, KeepsConcat
<1> QED
  BY <1>1, <1>2, NobodyLeaves DEF FifoStep, ClientsStay

(* The ready queue stays as it is.                                          *)
LEMMA FifoStays ==
  ASSUME IInv, readyQ' = readyQ, ClientsStay
  PROVE  FifoStep
<1>1. readyQ' = readyQ \o <<>> /\ <<>> \in Seq(Tid)
  BY QueueFacts
<1> QED
  BY <1>1, FifoJoin

(* A context switch, after some threads may have come to the end.           *)
LEMMA FifoSwitch ==
  ASSUME IInv, NEW rq \in Seq(Tid), KeepsPlaces(readyQ, rq),
         Range(readyQ) \subseteq Range(rq),
         NEW t, NEW rest \in Seq(Tid), KeepsPlaces(rq, rest),
         Range(rest) = Range(rq) \ {t},
         NEW st, NEW ws, NEW cont, Switch(t, rest, st, ws, cont), UNCHANGED clientQ
  PROVE  FifoStep
<1>1. /\ readyQ \in Seq(Tid) /\ \A q \in Queues : clientQ[q] \in Seq(Tid)
      /\ current \in Tid /\ current \notin Range(readyQ)
  BY QueueFacts DEF Placed
<1>2. readyQ' = Requeued(rest, st) /\ current' = t
  BY DEF Switch
<1>3. KeepsPlaces(readyQ, rest)
  BY KeepsTwice
<1>4. KeepsPlaces(readyQ, readyQ')
  BY <1>1, <1>2, <1>3, KeepsRequeued
<1>5. readyQ' \in Seq(Tid) /\ Range(rest) \subseteq Range(readyQ')
  BY <1>1, <1>2, AppendFacts DEF Requeued
<1>6. Range(readyQ) \subseteq Range(readyQ') \cup {current'}
  BY <1>2, <1>5
<1>7. ClientsStay
  BY DEF ClientsStay
<1> QED
  BY <1>1, <1>4, <1>5, <1>6, <1>7, NobodyLeaves DEF FifoStep, ClientsStay

(* thread_yield runs the first of the ready queue.                          *)
LEMMA FifoYield ==
  ASSUME IInv, readyQ # <<>>, NEW st, NEW ws, NEW cont,
         Switch(Head(readyQ), Tail(readyQ), st, ws, cont), UNCHANGED clientQ
  PROVE  FifoStep
<1>1. readyQ \in Seq(Tid) /\ IsInjective(readyQ)
  BY QueueFacts DEF Placed
<1>2. KeepsPlaces(readyQ, Tail(readyQ)) /\ KeepsPlaces(readyQ, readyQ)
  BY <1>1, KeepsTail, KeepsAlone
<1> QED
  BY <1>1, <1>2, NextReady, FifoSwitch

(* thread_exit wakes the threads that wait for its caller.                  *)
LEMMA FifoExit ==
  ASSUME IInv, NEW code, Exit(code)
  PROVE  FifoStep
<1>1. current \in Tid /\ wq[current] \in Seq(Tid)
  BY QueueFacts
<1>2. clientQ' = clientQ /\ (readyQ' = readyQ \/ readyQ' = readyQ \o wq[current])
  BY DEF Exit, HaltAs, BecomeExited, ExitReady
<1>3. ClientsStay
  BY <1>2 DEF ClientsStay
<1> QED
  BY <1>1, <1>2, <1>3, FifoStays, FifoJoin

(* thread_wakeup takes the threads from the front of their queue.           *)
LEMMA FifoWake ==
  ASSUME IInv, NEW q \in Queues, NEW n \in 0 .. Len(clientQ[q]), WakeFrom(q, n)
  PROVE  FifoStep
<1> DEFINE w == SubSeq(clientQ[q], 1, n)
<1>1. /\ readyQ \in Seq(Tid) /\ clientQ \in [Queues -> Seq(Tid)]
      /\ current \in Tid
  BY QueueFacts DEF IInv, Typed
<1>2. /\ readyQ' = readyQ \o w
      /\ clientQ' = [clientQ EXCEPT ![q] = SubSeq(@, n + 1, Len(@))]
  BY DEF WakeFrom
<1>3. w \in Seq(Tid)
  BY <1>1, SplitFacts
<1> HIDE DEF w
<1>4. /\ readyQ' \in Seq(Tid) /\ KeepsPlaces(readyQ, readyQ')
      /\ Range(readyQ) \subseteq Range(readyQ')
  <2>1. readyQ \o w \in Seq(Tid) /\ Range(readyQ \o w) = Range(readyQ) \cup Range(w)
    BY <1>1, <1>3, ConcatFacts
  <2>2. KeepsPlaces(readyQ, readyQ \o w)
    BY <1>1, <1>3, KeepsConcat
  <2> QED
    BY <1>2, <2>1, <2>2
<1>5. ASSUME NEW r \in Queues
      PROVE  \E m \in 0 .. Len(clientQ[r]) :
               /\ IsPrefix(SubSeq(clientQ[r], m + 1, Len(clientQ[r])), clientQ'[r])
               /\ IsSuffix(SubSeq(clientQ[r], 1, m), readyQ')
  <2>1. CASE r = q
    <3>1. clientQ'[q] = SubSeq(clientQ[q], n + 1, Len(clientQ[q]))
      BY <1>1, <1>2
    <3>2. /\ IsPrefix(SubSeq(clientQ[q], n + 1, Len(clientQ[q])), clientQ'[q])
          /\ IsSuffix(SubSeq(clientQ[q], 1, n), readyQ')
      BY <1>1, <1>2, <1>4, <3>1, FrontLeaves DEF w
    <3> QED
      BY <2>1, <3>2
  <2>2. CASE r # q
    BY <1>1, <1>2, <1>4, <2>2, NobodyLeaves
  <2> QED
    BY <2>1, <2>2
<1> QED
  BY <1>4, <1>5 DEF FifoStep

(* A stop changes nothing else.                                             *)
LEMMA FifoHalt ==
  ASSUME IInv, NEW how, HaltAs(how)
  PROVE  FifoStep
<1>1. readyQ' = readyQ /\ ClientsStay
  BY DEF HaltAs, ClientsStay
<1> QED
  BY <1>1, FifoStays

(* Every step of the library keeps the order.                               *)
LEMMA FifoNext == IInv /\ Next => FifoStep
<1> SUFFICES ASSUME IInv, Next PROVE FifoStep
  OBVIOUS
<1>1. CASE Create \/ KillWaiter \/ KillLost
  <2>1. PICK t \in Tid : readyQ' = Append(readyQ, t)
    BY <1>1 DEF Create, KillWaiter, KillLost
  <2>2. readyQ' = readyQ \o <<t>> /\ <<t>> \in Seq(Tid)
    <3>1. readyQ \in Seq(Tid)
      BY DEF IInv, Typed
    <3>2. Append(readyQ, t) = readyQ \o <<t>> /\ <<t>> \in Seq(Tid)
      BY <3>1
    <3> QED
      BY <2>1, <3>2
  <2>3. ClientsStay
    BY <1>1 DEF Create, KillWaiter, KillLost, ClientsStay
  <2> QED
    BY <2>2, <2>3, FifoJoin
<1>2. CASE YieldAny \/ Preempt \/ ExitYield
  BY <1>2, FifoYield DEF YieldAny, Preempt, ExitYield, SwitchKeeps
<1>3. CASE YieldTo
  <2>1. PICK t \in Range(readyQ) : Switch(t, RemoveFirst(readyQ, t), state, wq, pc)
    BY <1>3 DEF YieldTo
  <2>2. readyQ \in Seq(Tid) /\ IsInjective(readyQ) /\ UNCHANGED clientQ
    BY <1>3, QueueFacts DEF Placed, YieldTo, SwitchKeeps
  <2>3. /\ RemoveFirst(readyQ, t) \in Seq(Tid)
        /\ Range(RemoveFirst(readyQ, t)) = Range(readyQ) \ {t}
        /\ KeepsPlaces(readyQ, RemoveFirst(readyQ, t)) /\ KeepsPlaces(readyQ, readyQ)
    BY <2>2, RemoveFacts, KeepsRemove, KeepsAlone
  <2> QED
    BY <2>1, <2>2, <2>3, FifoSwitch
<1>4. CASE YieldKilled \/ ThreadExit \/ SleepKilled \/ WaitKilled
  <2>1. PICK code : Exit(code)
    BY <1>4 DEF YieldKilled, ThreadExit, SleepKilled, WaitKilled
  <2> QED
    BY <2>1, FifoExit
<1>5. CASE PreemptKilled
  <2>1. CASE NobodyCounted \/ ExitReady = <<>>
    BY <1>5, <2>1, FifoHalt DEF PreemptKilled
  <2>2. CASE ~(NobodyCounted \/ ExitReady = <<>>)
    <3>1. /\ ExitReady # <<>> /\ UNCHANGED clientQ
          /\ Switch(Head(ExitReady), Tail(ExitReady), ExitState,
                    [wq EXCEPT ![current] = <<>>], [pc EXCEPT ![current] = "exit"])
      BY <1>5, <2>2 DEF PreemptKilled, BecomeExited
    <3>2. ExitReady \in Seq(Tid) /\ IsInjective(ExitReady)
      BY <1>5, ExitFacts DEF PreemptKilled, Schedulable, Placed
    <3>3. readyQ \in Seq(Tid) /\ wq[current] \in Seq(Tid)
      BY QueueFacts
    <3>4. KeepsPlaces(readyQ, ExitReady) /\ Range(readyQ) \subseteq Range(ExitReady)
      BY <3>3, KeepsConcat, ConcatFacts DEF ExitReady
    <3>5. /\ Tail(ExitReady) \in Seq(Tid) /\ KeepsPlaces(ExitReady, Tail(ExitReady))
          /\ Range(Tail(ExitReady)) = Range(ExitReady) \ {Head(ExitReady)}
      BY <3>1, <3>2, KeepsTail, TailFacts
    <3> QED
      BY <3>1, <3>2, <3>4, <3>5, FifoSwitch
  <2> QED
    BY <2>1, <2>2
<1>6. CASE ExitProcess \/ KillSleeperFails \/ WaitNull \/ WaitSleepWild
  BY <1>6, FifoHalt DEF ExitProcess, KillSleeperFails, WaitNull, WaitSleepWild
<1>7. CASE Sleep
  <2>1. readyQ' = readyQ
    BY <1>7 DEF Sleep, FallAsleep
  <2>2. PICK q \in Queues : clientQ' = [clientQ EXCEPT ![q] = Append(@, current)]
    BY <1>7 DEF Sleep
  <2>3. clientQ \in [Queues -> Seq(Tid)] /\ current \in Tid
    BY DEF IInv, Typed
  <2>4. ClientsStay
    BY <2>2, <2>3 DEF ClientsStay
  <2> QED
    BY <2>1, <2>4, FifoStays
<1>8. CASE SleepYield
  <2>1. UNCHANGED clientQ
    BY <1>8 DEF SleepYield, SwitchKeeps
  <2>2. CASE readyQ = <<>>
    BY <1>8, <2>1, <2>2, FifoStays DEF SleepYield, ClientsStay
  <2>3. CASE readyQ # <<>>
    BY <1>8, <2>1, <2>3, FifoYield DEF SleepYield
  <2> QED
    BY <2>2, <2>3
<1>9. CASE WakeupOne \/ WakeupAll
  <2>1. \E q \in Queues : /\ clientQ[q] # <<>>
                          /\ WakeFrom(q, 1) \/ WakeFrom(q, Len(clientQ[q]))
    BY <1>9 DEF WakeupOne, WakeupAll
  <2>2. \A q \in Queues : clientQ[q] # <<>> =>
          1 \in 0 .. Len(clientQ[q]) /\ Len(clientQ[q]) \in 0 .. Len(clientQ[q])
    BY QueueFacts
  <2> QED
    BY <2>1, <2>2, FifoWake
<1>10. CASE \/ CreateNoMemory \/ KillAwake \/ Wait \/ WaitTake \/ WaitReset
            \/ WaitInvalid \/ WaitCommit \/ WaitSleep \/ WaitSleepLost \/ WaitSleepNone
            \/ WaitCollect \/ WaitTooLate \/ Stopped
  <2>1. UNCHANGED <<readyQ, clientQ>>
    BY <1>10 DEF CreateNoMemory, KillAwake, Wait, WaitTake, WaitReset, WaitInvalid,
                 WaitCommit, WaitSleep, WaitSleepLost, FallAsleep, WaitSleepNone,
                 WaitCollect, WaitTooLate, Stopped, vars
  <2> QED
    BY <2>1, FifoStays DEF ClientsStay
<1> QED
  BY <1>1, <1>2, <1>3, <1>4, <1>5, <1>6, <1>7, <1>8, <1>9, <1>10 DEF Next

(* A ready thread is overtaken by nobody, and who sleeps longest in a queue *)
(* of the client is woken first.                                            *)
THEOREM FirstComeFirstServed == Spec => Fifo
<1>1. IInv /\ [Next]_vars => [FifoStep]_vars
  BY FifoNext
<1> QED
  BY <1>1, Invariance, PTL DEF Spec, Fifo

-----------------------------------------------------------------------------
(* What a kill is worth.                                                   *)

(* A thread that was killed stays so until it has the processor, and gives  *)
(* the processor away only when it has exited; what may end the kill        *)
(* otherwise is that it goes to sleep (line 644).                           *)
KilledStep ==
  \A t \in Tid : state[t] = "KILLED" =>
    \/ state'[t] = "KILLED" /\ (t = current => current' = current)
    \/ t = current /\ state'[t] \in {"EXITED", "UNINITIALIZED", "SLEEP"}

(* A context switch leaves kills alone, and exits of the caller too but for *)
(* the sweep.                                                               *)
LEMMA KilledSwitch ==
  ASSUME current \in Tid, NEW st \in [Tid -> ThreadState], st[current] # "KILLED",
         NEW t \in Tid, t # current,
         NEW rest, NEW ws, NEW cont, Switch(t, rest, st, ws, cont)
  PROVE  /\ \A u \in Tid : st[u] = "KILLED" => state'[u] = "KILLED"
         /\ st[current] = "EXITED" => state'[current] \in {"EXITED", "UNINITIALIZED"}
<1> DEFINE left == [Sweep(st, current) EXCEPT
                      ![current] = IF @ = "RUNNING" THEN "READY" ELSE @,
                      ![t] = Granted(@)]
<1>1. state' = Returned(t, left)
  BY DEF Switch
<1>2. \A u \in Tid : Sweep(st, current)[u] =
        IF st[u] = "EXITED" /\ u # current THEN "UNINITIALIZED" ELSE st[u]
  BY DEF Sweep
<1>3. /\ \A u \in Tid : st[u] = "KILLED" => left[u] = "KILLED"
      /\ st[current] = "EXITED" => left[current] = "EXITED"
      /\ DOMAIN left = Tid
  BY <1>2 DEF Sweep, Granted
<1> HIDE DEF left
<1>4. \A u \in Tid : \/ state'[u] = left[u]
                     \/ left[u] = "EXITED" /\ state'[u] = "UNINITIALIZED"
  BY <1>1 DEF Returned, Sweep
<1> QED
  BY <1>3, <1>4

(* A context switch by a thread that was not killed.                        *)
LEMMA KilledYield ==
  ASSUME IInv, state[current] # "KILLED", NEW t \in Range(readyQ),
         NEW rest, NEW ws, NEW cont, Switch(t, rest, state, ws, cont)
  PROVE  KilledStep
<1>1. current \in Tid /\ state \in [Tid -> ThreadState] /\ t \in Tid /\ t # current
  BY QueueFacts DEF IInv, Typed, Placed
<1> QED
  BY <1>1, KilledSwitch DEF KilledStep

(* A step that changes only the states of its caller and of others that     *)
(* were not killed.                                                         *)
LEMMA KilledKept ==
  ASSUME current' = current,
         \A t \in Tid : state[t] = "KILLED" =>
           \/ state'[t] = "KILLED"
           \/ t = current /\ state'[t] \in {"EXITED", "SLEEP"}
  PROVE  KilledStep
  BY DEF KilledStep

(* Every step of the library keeps kills.                                   *)
LEMMA KilledNext == IInv /\ Next => KilledStep
<1> SUFFICES ASSUME IInv, Next PROVE KilledStep
  OBVIOUS
<1>1. /\ state \in [Tid -> ThreadState] /\ current \in Tid
      /\ readyQ \in Seq(Tid) /\ wq[current] \in Seq(Tid)
  BY QueueFacts DEF IInv, Typed
<1>2. CASE YieldAny \/ Preempt \/ ExitYield
  <2>1. readyQ # <<>> /\ state[current] # "KILLED"
    BY <1>2 DEF YieldAny, Preempt, ExitYield, At, IInv, PcInv
  <2>2. Head(readyQ) \in Range(readyQ)
    BY <2>1, NextReady
  <2> QED
    BY <1>2, <2>1, <2>2, KilledYield DEF YieldAny, Preempt, ExitYield
<1>3. CASE YieldTo
  BY <1>3, KilledYield DEF YieldTo
<1>4. CASE YieldKilled \/ ThreadExit \/ SleepKilled \/ WaitKilled
  <2>1. PICK code : Exit(code)
    BY <1>4 DEF YieldKilled, ThreadExit, SleepKilled, WaitKilled
  <2>2. current' = current /\ (state' = state \/ state' = ExitState)
    BY <2>1 DEF Exit, HaltAs
  <2>3. \A t \in Tid : state[t] = "KILLED" =>
          ExitState[t] = IF t = current THEN "EXITED" ELSE "KILLED"
    BY <1>1 DEF ExitState, Awaken
  <2> QED
    BY <2>2, <2>3, KilledKept
<1>5. CASE PreemptKilled
  <2>1. CASE NobodyCounted \/ ExitReady = <<>>
    BY <1>5, <2>1, KilledKept DEF PreemptKilled, HaltAs
  <2>2. CASE ~(NobodyCounted \/ ExitReady = <<>>)
    <3>1. /\ ExitReady # <<>>
          /\ Switch(Head(ExitReady), Tail(ExitReady), ExitState,
                    [wq EXCEPT ![current] = <<>>], [pc EXCEPT ![current] = "exit"])
      BY <1>5, <2>2 DEF PreemptKilled
    <3>2. /\ ExitState \in [Tid -> ThreadState]
          /\ \A t \in Tid : state[t] = "KILLED" =>
               ExitState[t] = IF t = current THEN "EXITED" ELSE "KILLED"
          /\ ExitState[current] = "EXITED"
      BY <1>1 DEF ExitState, Awaken, ThreadState
    <3>3. Head(ExitReady) \in Tid /\ Head(ExitReady) # current
      <4>1. /\ ExitReady \in Seq(Tid) /\ Range(ExitReady) = Range(readyQ) \cup Range(wq[current])
        BY <1>1, ConcatFacts DEF ExitReady
      <4>2. Head(ExitReady) \in Range(ExitReady) /\ Head(ExitReady) \in Tid
        BY <3>1, <4>1, TailFacts, RangeType
      <4>3. current \notin Range(readyQ) /\ current \notin Range(wq[current])
        BY <1>1, <1>5 DEF PreemptKilled, IInv, OnePlace, Placed
      <4> QED
        BY <4>1, <4>2, <4>3
    <3>4. /\ \A t \in Tid : ExitState[t] = "KILLED" => state'[t] = "KILLED"
          /\ state'[current] \in {"EXITED", "UNINITIALIZED"}
      BY <1>1, <3>1, <3>2, <3>3, KilledSwitch
    <3> QED
      BY <3>2, <3>4 DEF KilledStep
  <2> QED
    BY <2>1, <2>2
<1>6. CASE Sleep \/ WaitSleep \/ WaitSleepLost
  BY <1>1, <1>6, KilledKept DEF Sleep, WaitSleep, WaitSleepLost, FallAsleep
<1>7. CASE SleepYield
  <2>1. CASE readyQ = <<>>
    BY <1>7, <2>1, KilledKept DEF SleepYield
  <2>2. CASE readyQ # <<>>
    BY <1>7, <2>2, NextReady, KilledYield DEF SleepYield
  <2> QED
    BY <2>1, <2>2
<1>8. CASE WakeupOne \/ WakeupAll
  <2>1. PICK s : current' = current /\ state' = Awaken(state, s)
    BY <1>8 DEF WakeupOne, WakeupAll, WakeFrom
  <2> QED
    BY <2>1, KilledKept DEF Awaken
<1>9. CASE Create \/ CreateNoMemory \/ KillAwake \/ KillWaiter \/ KillLost
  <2>1. PICK t \in Tid, s \in {"READY", "KILLED", "UNINITIALIZED"} :
          /\ current' = current /\ state' = [state EXCEPT ![t] = s]
          /\ state[t] = "KILLED" => s = "KILLED"
    BY <1>1, <1>9 DEF Create, CreateNoMemory, KillAwake, KillWaiter, KillLost, FirstVacant,
                      Vacant
  <2> QED
    BY <1>1, <2>1, KilledKept
<1>10. CASE \/ ExitProcess \/ KillSleeperFails \/ WaitNull \/ WaitSleepWild
            \/ Wait \/ WaitTake \/ WaitReset \/ WaitInvalid \/ WaitCommit \/ WaitSleepNone
            \/ WaitCollect \/ WaitTooLate \/ Stopped
  <2>1. UNCHANGED <<state, current>>
    BY <1>10 DEF ExitProcess, KillSleeperFails, WaitNull, WaitSleepWild, HaltAs, Wait,
                 WaitTake, WaitReset, WaitInvalid, WaitCommit, WaitSleepNone, WaitCollect,
                 WaitTooLate, Stopped, vars
  <2> QED
    BY <2>1, KilledKept
<1> QED
  BY <1>2, <1>3, <1>4, <1>5, <1>6, <1>7, <1>8, <1>9, <1>10 DEF Next

(* A killed thread never comes back into the ready queue of its own: it     *)
(* exits when it would give the processor away, unless it went to sleep     *)
(* first.  The safety part of KilledEnds.                                   *)
THEOREM KilledGivesUp == Spec => [][KilledStep]_vars
<1>1. IInv /\ [Next]_vars => [KilledStep]_vars
  BY KilledNext
<1> QED
  BY <1>1, Invariance, PTL DEF Spec


-----------------------------------------------------------------------------
(* No thread is forgotten.  A malloc that fails in thread_create leaves a   *)
(* slot READY in no queue, so here it does not.                             *)

(* A context switch forgets nobody: it makes only its caller READY, and     *)
(* then puts it into the ready queue.                                       *)
LEMMA ReadySwitch ==
  ASSUME current \in Tid, NEW st \in [Tid -> ThreadState],
         NEW rq, \A u \in Tid : st[u] = "READY" => u \in Range(rq),
         NEW t \in Tid, t # current, NEW rest \in Seq(Tid), Range(rest) = Range(rq) \ {t},
         NEW ws, NEW cont, Switch(t, rest, st, ws, cont)
  PROVE  ReadyIsQueued'
<1>1. readyQ' = Requeued(rest, st)
  BY DEF Switch
<1>2. Range(rest) \subseteq Range(readyQ')
  BY <1>1, AppendFacts DEF Requeued
<1>3. st[current] = "RUNNING" => current \in Range(readyQ')
  BY <1>1, AppendFacts DEF Requeued
<1>4. state'[t] # "READY"
  BY DEF Switch, Returned, Sweep, Granted
<1>5. \A u \in Tid \ {t, current} : state'[u] = "READY" => st[u] = "READY"
  BY DEF Switch, Returned, Sweep
<1>6. state'[current] = "READY" => st[current] \in {"READY", "RUNNING"}
  BY DEF Switch, Returned, Sweep
<1> QED
  BY <1>2, <1>3, <1>4, <1>5, <1>6 DEF ReadyIsQueued

(* A step that makes nobody READY and takes nobody from the queue.          *)
LEMMA ReadyStays ==
  ASSUME ReadyIsQueued, Range(readyQ) \subseteq Range(readyQ'),
         \A u \in Tid : state'[u] = "READY" => state[u] = "READY" \/ u \in Range(readyQ')
  PROVE  ReadyIsQueued'
  BY DEF ReadyIsQueued

(* Every step but a failing thread_create.                                  *)
LEMMA ReadyNext ==
  ASSUME "nomem" \notin Ops, IInv, ReadyIsQueued, [Next]_vars
  PROVE  ReadyIsQueued'
<1>1. /\ current \in Tid /\ state \in [Tid -> ThreadState] /\ readyQ \in Seq(Tid)
      /\ wq \in [Tid -> Seq(Tid)]
      /\ \A u \in Tid : state[u] = "READY" => u \in Range(readyQ)
      /\ \A u \in Range(readyQ) : u \in Tid /\ u # current
  BY QueueFacts DEF IInv, Typed, ReadyIsQueued
<1>2. ASSUME NEW how, HaltAs(how) PROVE ReadyIsQueued'
  BY <1>2, ReadyStays DEF HaltAs
<1>3. ASSUME readyQ # <<>>, NEW ws, NEW cont,
             Switch(Head(readyQ), Tail(readyQ), state, ws, cont)
      PROVE  ReadyIsQueued'
  BY <1>1, <1>3, NextReady, ReadySwitch
<1>4. CASE Create
  <2>1. PICK t \in Tid : /\ state' = [state EXCEPT ![t] = "READY"]
                         /\ readyQ' = Append(readyQ, t)
    BY <1>4 DEF Create
  <2>2. Range(Append(readyQ, t)) = Range(readyQ) \cup {t}
    BY <1>1, AppendFacts
  <2> QED
    BY <1>1, <2>1, <2>2, ReadyStays
<1>5. CASE YieldAny \/ Preempt \/ ExitYield
  BY <1>3, <1>5 DEF YieldAny, Preempt, ExitYield
<1>6. CASE YieldTo
  <2>1. PICK t \in Range(readyQ) : Switch(t, RemoveFirst(readyQ, t), state, wq, pc)
    BY <1>6 DEF YieldTo
  <2>2. /\ RemoveFirst(readyQ, t) \in Seq(Tid)
        /\ Range(RemoveFirst(readyQ, t)) = Range(readyQ) \ {t}
    BY <1>1, QueueFacts, RemoveFacts DEF Placed
  <2> QED
    BY <1>1, <2>1, <2>2, ReadySwitch
<1>7. /\ Range(readyQ) \subseteq Range(ExitReady)
      /\ \A u \in Tid : ExitState[u] = "READY" => u \in Range(ExitReady)
  <2>1. Range(ExitReady) = Range(readyQ) \cup Range(wq[current])
    BY <1>1, ConcatFacts DEF ExitReady
  <2>2. \A u \in Tid : ExitState[u] = "READY" =>
          state[u] = "READY" \/ u \in Range(wq[current])
    BY <1>1 DEF ExitState, Awaken
  <2> QED
    BY <1>1, <2>1, <2>2
<1>8. CASE YieldKilled \/ ThreadExit \/ SleepKilled \/ WaitKilled
  <2>1. PICK code : Exit(code)
    BY <1>8 DEF YieldKilled, ThreadExit, SleepKilled, WaitKilled
  <2>2. CASE NobodyCounted
    BY <1>2, <2>1, <2>2 DEF Exit
  <2>3. CASE ~NobodyCounted
    BY <1>7, <2>1, <2>3 DEF Exit, ReadyIsQueued
  <2> QED
    BY <2>2, <2>3
<1>9. CASE PreemptKilled
  <2>1. CASE NobodyCounted \/ ExitReady = <<>>
    BY <1>2, <1>9, <2>1 DEF PreemptKilled
  <2>2. CASE ~(NobodyCounted \/ ExitReady = <<>>)
    <3> DEFINE ws == [wq EXCEPT ![current] = <<>>]
               t == Head(ExitReady)
    <3>1. /\ ExitReady # <<>>
          /\ Switch(t, Tail(ExitReady), ExitState, ws, [pc EXCEPT ![current] = "exit"])
      BY <1>9, <2>2 DEF PreemptKilled
    <3>2. /\ ExitState \in [Tid -> ThreadState] /\ ExitReady \in Seq(Tid)
          /\ Placed(ExitState, current, ExitReady, ws, clientQ)
      BY <1>9, ExitFacts DEF PreemptKilled, Schedulable
    <3>3. /\ t \in Range(ExitReady) /\ Tail(ExitReady) \in Seq(Tid)
          /\ Range(Tail(ExitReady)) = Range(ExitReady) \ {t}
      BY <3>1, <3>2, TailFacts DEF Placed
    <3>4. t \in Tid /\ t # current
      BY <3>2, <3>3, RangeType DEF Placed
    <3> HIDE DEF ws, t
    <3> QED
      BY <1>1, <1>7, <3>1, <3>2, <3>3, <3>4, ReadySwitch
  <2> QED
    BY <2>1, <2>2
<1>10. CASE ExitProcess \/ KillSleeperFails \/ WaitNull \/ WaitSleepWild
  BY <1>2, <1>10 DEF ExitProcess, KillSleeperFails, WaitNull, WaitSleepWild
<1>11. CASE KillAwake \/ KillWaiter \/ KillLost
  <2>1. PICK t \in Tid : /\ state' = [state EXCEPT ![t] = "KILLED"]
                         /\ readyQ' = readyQ \/ readyQ' = Append(readyQ, t)
    BY <1>11 DEF KillAwake, KillWaiter, KillLost
  <2>2. Range(readyQ) \subseteq Range(readyQ')
    <3>1. Range(Append(readyQ, t)) = Range(readyQ) \cup {t}
      BY <1>1, AppendFacts
    <3> QED
      BY <2>1, <3>1
  <2> QED
    BY <1>1, <2>1, <2>2, ReadyStays
<1>12. CASE Sleep \/ WaitSleep \/ WaitSleepLost
  <2>1. state' = [state EXCEPT ![current] = "SLEEP"] /\ readyQ' = readyQ
    BY <1>12 DEF Sleep, WaitSleep, WaitSleepLost, FallAsleep
  <2> QED
    BY <1>1, <2>1, ReadyStays
<1>13. CASE SleepYield
  <2>1. CASE readyQ = <<>>
    BY <1>13, <2>1, ReadyStays DEF SleepYield
  <2>2. CASE readyQ # <<>>
    BY <1>3, <1>13, <2>2 DEF SleepYield
  <2> QED
    BY <2>1, <2>2
<1>14. CASE WakeupOne \/ WakeupAll
  <2>1. \E q \in Queues : /\ clientQ[q] # <<>>
                          /\ WakeFrom(q, 1) \/ WakeFrom(q, Len(clientQ[q]))
    BY <1>14 DEF WakeupOne, WakeupAll
  <2>2. PICK q \in Queues, n \in Int : n \in 0 .. Len(clientQ[q]) /\ WakeFrom(q, n)
    <3>1. \A q \in Queues : clientQ[q] # <<>> =>
            1 \in 0 .. Len(clientQ[q]) /\ Len(clientQ[q]) \in 0 .. Len(clientQ[q])
      BY QueueFacts
    <3> QED
      BY <2>1, <3>1
  <2> DEFINE w == SubSeq(clientQ[q], 1, n)
  <2>3. w \in Seq(Tid)
    BY <2>2, QueueFacts, SplitFacts
  <2>4. readyQ' = readyQ \o w /\ state' = Awaken(state, w)
    BY <2>2 DEF WakeFrom
  <2> HIDE DEF w
  <2>5. Range(readyQ \o w) = Range(readyQ) \cup Range(w)
    BY <1>1, <2>3, ConcatFacts
  <2>6. \A u \in Tid : state'[u] = "READY" => state[u] = "READY" \/ u \in Range(w)
    BY <2>4 DEF Awaken
  <2> QED
    BY <2>4, <2>5, <2>6, ReadyStays
<1>15. CASE CreateNoMemory
  BY <1>15 DEF CreateNoMemory
<1>16. CASE \/ Wait \/ WaitTake \/ WaitReset \/ WaitInvalid \/ WaitCommit
            \/ WaitSleepNone \/ WaitCollect \/ WaitTooLate \/ Stopped \/ UNCHANGED vars
  <2>1. UNCHANGED <<state, readyQ>>
    BY <1>16 DEF Wait, WaitTake, WaitReset, WaitInvalid, WaitCommit, WaitSleepNone,
                 WaitCollect, WaitTooLate, Stopped, vars
  <2> QED
    BY <2>1, ReadyStays
<1> QED
  BY <1>4, <1>5, <1>6, <1>8, <1>9, <1>10, <1>11, <1>12, <1>13, <1>14, <1>15, <1>16 DEF Next

(* A thread that is READY is in the ready queue, and FirstComeFirstServed   *)
(* says that it is not passed there.                                        *)
THEOREM ReadyAreQueued == "nomem" \notin Ops => (Spec => []ReadyIsQueued)
<1> SUFFICES ASSUME "nomem" \notin Ops PROVE Spec => []ReadyIsQueued
  OBVIOUS
<1>1. Init => ReadyIsQueued
  BY DEF Init, ReadyIsQueued
<1>2. IInv /\ ReadyIsQueued /\ [Next]_vars => ReadyIsQueued'
  BY ReadyNext
<1> QED
  BY <1>1, <1>2, Invariance, PTL DEF Spec

=============================================================================
