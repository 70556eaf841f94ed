--------------------------- MODULE WordCountProofs ---------------------------
(***************************************************************************)
(* What holds of the word counter for every alphabet, every array of any   *)
(* length, every width of the hash and whatever malloc leaves behind the   *)
(* words: CountsExact, PrintedOnce and ItemsFreed.                         *)
(*                                                                         *)
(* CountsExact is not inductive: that a word which white space ends is one *)
(* occurrence more needs the part of the array that the scan has in hand   *)
(* (Scanned), and that it is counted in the right entry needs the keys of  *)
(* a chain to be different and, as long as no tail has spoilt a key, each  *)
(* entry to be a word of the array (Filled: Chained and Clean).  Reported  *)
(* follows the output along the places, Allocated ties the memory to the   *)
(* entries.                                                                *)
(*                                                                         *)
(* Nothing is summed up: entries, and the times that each was counted, are *)
(* sets (Entries, Counted), so that a step adds one element.  That the     *)
(* hash of every key exists and is a place of the table is a smallest      *)
(* counterexample (LeastOf) over the characters of the key.                *)
(***************************************************************************)
EXTENDS WordCount, FiniteSetsExt, FiniteSetTheorems, WellFoundedInduction, TLAPS

(* The types of characters, places and entries.                             *)
Chars == Letters \cup Spaces
Place == 0 .. Size - 1
Entry == [key : Seq(Letters), count : Nat \ {0}]

(* Every set of natural numbers has a least one.                            *)
LEMMA LeastOf ==
  ASSUME NEW T, T \subseteq Nat, T # {}
  PROVE  \E m \in T : \A k \in T : m <= k
<1>1. PICK m \in T : \A k \in T : ~ (<<k, m>> \in OpToRel(<, Nat))
  BY WFMin, NatLessThanWellFounded
<1>2. \A k \in T : ~ (k < m)
  BY <1>1 DEF OpToRel
<1> QED
  BY <1>2

(* What the assumption says of the characters.                              *)
LEMMA TypesOfChars ==
  /\ \A c \in Chars : c \in Int
  /\ \A c \in Letters : c \in Chars /\ c \in Int /\ c \notin Spaces
  /\ \A c \in Chars : c \notin Spaces => c \in Letters
  /\ HashRange \in Nat \ {0}
  /\ \A t \in Tails : t \in Seq(Letters)
<1>1. Letters \cup Spaces \subseteq 1 .. 127 /\ Letters \cap Spaces = {}
  BY CharactersAssumption, Zenon
<1>2. Tails \subseteq Seq(Letters) /\ HashRange \in Nat \ {0}
  BY CharactersAssumption, Zenon
<1>3. \A c \in Chars : c \in Int
  BY <1>1 DEF Chars
<1>4. \A t \in Tails : t \in Seq(Letters)
  BY <1>2, Zenon
<1> QED
  BY <1>1, <1>2, <1>3, <1>4 DEF Chars

(* The loop of hash_function.                                               *)
Hashes(h, key, n) ==
  h = [k \in 0 .. n |-> IF k = 0 THEN 5381 ELSE (h[k - 1] * 33 + key[k]) % HashRange]

(* One more character.                                                      *)
LEMMA HashStep ==
  ASSUME NEW key \in Seq(Letters), NEW n \in 0 .. Len(key), n # 0,
         NEW g, Hashes(g, key, n - 1)
  PROVE  \E h : Hashes(h, key, n)
<1> DEFINE step(v, k) == (v * 33 + key[k]) % HashRange
           h == [k \in 0 .. n |-> IF k = n THEN step(g[n - 1], n) ELSE g[k]]
<1>1. n \in Nat /\ n - 1 \in 0 .. n - 1 /\ n - 1 \in 0 .. n /\ n - 1 # n
  OBVIOUS
<1>2. ASSUME NEW k \in 0 .. n
      PROVE  h[k] = IF k = 0 THEN 5381 ELSE step(h[k - 1], k)
  <2>1. CASE k = n
    <3>1. h[n - 1] = g[n - 1]
      BY <1>1
    <3>2. h[k] = step(g[n - 1], n)
      BY <2>1
    <3> QED
      BY <2>1, <3>1, <3>2
  <2>2. CASE k # n
    <3>1. k \in 0 .. n - 1 /\ (k # 0 => k - 1 \in 0 .. n /\ k - 1 # n)
      BY <1>1, <2>2
    <3>2. g[k] = IF k = 0 THEN 5381 ELSE step(g[k - 1], k)
      BY <3>1 DEF Hashes
    <3>3. h[k] = g[k] /\ (k # 0 => h[k - 1] = g[k - 1])
      BY <2>2, <3>1
    <3> HIDE DEF step, h
    <3> QED
      BY <3>2, <3>3
  <2> QED
    BY <2>1, <2>2
<1>3. h = [k \in 0 .. n |-> h[k]]
  OBVIOUS
<1> HIDE DEF h
<1>4. h = [k \in 0 .. n |-> IF k = 0 THEN 5381 ELSE step(h[k - 1], k)]
  <2> HIDE DEF step
  <2> QED
    BY <1>2, <1>3, SMTT(30)
<1>5. Hashes(h, key, n)
  BY <1>4 DEF Hashes
<1> QED
  BY <1>5

(* There is such a function for each key.                                   *)
LEMMA HashExists ==
  ASSUME NEW key \in Seq(Letters)
  PROVE  \E h : Hashes(h, key, Len(key))
<1> DEFINE Bad == {n \in 0 .. Len(key) : ~ \E h : Hashes(h, key, n)}
<1>1. SUFFICES ASSUME Bad # {} PROVE FALSE
  <2>1. Len(key) \in 0 .. Len(key)
    OBVIOUS
  <2> QED
    BY <2>1, Zenon
<1>a. Bad \subseteq Nat
  OBVIOUS
<1>2. PICK n \in Bad : \A k \in Bad : n <= k
  <2> HIDE DEF Bad
  <2> QED
    BY <1>1, <1>a, LeastOf
<1>3. CASE n = 0
  <2> DEFINE h == [k \in 0 .. 0 |-> 5381]
  <2>1. h = [k \in 0 .. n |-> IF k = 0 THEN 5381 ELSE (h[k - 1] * 33 + key[k]) % HashRange]
    BY <1>3
  <2> QED
    BY <2>1, Zenon DEF Hashes
<1>4. CASE n # 0
  <2>1. n - 1 \in 0 .. Len(key) /\ ~(n <= n - 1)
    BY <1>4
  <2>2. \E g : Hashes(g, key, n - 1)
    BY <1>2, <2>1, ZenonT(30)
  <2> QED
    BY <1>4, <2>2, HashStep
<1> QED
  BY <1>3, <1>4

(* hash_function returns a place of the table.                              *)
LEMMA HashInTable ==
  ASSUME NEW key \in Seq(Letters), NEW size \in Nat \ {0}
  PROVE  Hash(key, size) \in 0 .. size - 1
<1> DEFINE n == Len(key)
           h == CHOOSE h : Hashes(h, key, n)
           Bad == {k \in 0 .. n : h[k] \notin Int}
<1>1. Hashes(h, key, n)
  BY HashExists
<1> HIDE DEF h
<1>2. \A k \in 0 .. n : h[k] = IF k = 0 THEN 5381 ELSE (h[k - 1] * 33 + key[k]) % HashRange
  BY <1>1 DEF Hashes
<1>3. Bad = {}
  <2>1. SUFFICES ASSUME Bad # {} PROVE FALSE
    OBVIOUS
  <2>a. Bad \subseteq Nat
    OBVIOUS
  <2>2. PICK m \in Bad : \A k \in Bad : m <= k
    <3> HIDE DEF Bad
    <3> QED
      BY <2>1, <2>a, LeastOf
  <2>3. m # 0 /\ m - 1 \in 0 .. n /\ ~(m <= m - 1)
    BY <1>2, <2>2
  <2>4. h[m - 1] \in Int
    BY <2>2, <2>3
  <2>5. key[m] \in Int /\ HashRange \in Nat \ {0}
    <3>1. m \in 1 .. Len(key)
      BY <2>2, <2>3
    <3>2. key[m] \in Letters
      BY <3>1
    <3> QED
      BY <3>2, TypesOfChars
  <2>6. h[m] \in Int
    BY <1>2, <2>3, <2>4, <2>5
  <2> QED
    BY <2>2, <2>6
<1>4. n \in 0 .. n /\ h[n] \in Int
  BY <1>3
<1>5. Hash(key, size) = h[n] % size
  BY DEF Hash, h, Hashes
<1> QED
  BY <1>4, <1>5

-----------------------------------------------------------------------------
(* Tables.                                                                 *)

(* The entries of some of the places.                                       *)
Rows(t, S) == UNION {Part(t, p) : p \in S}

(* What an entry of these places is.                                        *)
LEMMA InRows ==
  ASSUME NEW t, NEW S, NEW e
  PROVE  e \in Rows(t, S) <=> \E p \in S : \E i \in 1 .. Len(t[p]) : e = <<p, i>>
  BY DEF Rows, Part

(* What an entry of the table is.                                           *)
LEMMA InEntries ==
  ASSUME NEW D, NEW t, DOMAIN t = D, NEW e
  PROVE  e \in Entries(t) <=> \E p \in D : \E i \in 1 .. Len(t[p]) : e = <<p, i>>
  BY DEF Entries, Part

(* What an element of Counted is.                                           *)
LEMMA InCounted ==
  ASSUME NEW D, NEW t, DOMAIN t = D, NEW c
  PROVE  c \in Counted(t) <=>
           \E p \in D : \E i \in 1 .. Len(t[p]) :
             \E k \in 1 .. t[p][i].count : c = <<<<p, i>>, k>>
<1>1. ASSUME c \in Counted(t)
      PROVE  \E p \in D : \E i \in 1 .. Len(t[p]) :
               \E k \in 1 .. t[p][i].count : c = <<<<p, i>>, k>>
  <2>1. \E e \in Entries(t) : \E k \in 1 .. t[e[1]][e[2]].count : c = <<e, k>>
    BY <1>1 DEF Counted
  <2> QED
    BY <2>1, InEntries
<1>2. ASSUME NEW p \in D, NEW i \in 1 .. Len(t[p]),
             NEW k \in 1 .. t[p][i].count, c = <<<<p, i>>, k>>
      PROVE  c \in Counted(t)
  <2>1. <<p, i>> \in Entries(t)
    BY InEntries
  <2>2. <<p, i>>[1] = p /\ <<p, i>>[2] = i
    OBVIOUS
  <2>3. c \in {<<p, i>>} \X (1 .. t[<<p, i>>[1]][<<p, i>>[2]].count)
    BY <1>2, <2>2
  <2> QED
    BY <2>1, <2>3 DEF Counted
<1> QED
  BY <1>1, <1>2

(* The entries of one chain are as many as it is long.                      *)
LEMMA PartSize ==
  ASSUME NEW t, NEW p, Len(t[p]) \in Nat
  PROVE  IsFiniteSet(Part(t, p)) /\ Cardinality(Part(t, p)) = Len(t[p])
<1> DEFINE n == Len(t[p])
<1>1. IsFiniteSet(1 .. n) /\ Cardinality(1 .. n) = n
  BY FS_Interval, SMTT(30)
<1>2. IsFiniteSet({p}) /\ Cardinality({p}) = 1
  BY FS_Singleton
<1>3. /\ IsFiniteSet({p} \X (1 .. n))
      /\ Cardinality({p} \X (1 .. n)) = Cardinality({p}) * Cardinality(1 .. n)
  BY <1>1, <1>2, FS_Product
<1> QED
  BY <1>1, <1>2, <1>3 DEF Part

(* One chain that no earlier place shows.                                   *)
LEMMA RowsNext ==
  ASSUME NEW t, NEW n \in Nat, Len(t[n]) \in Nat, IsFiniteSet(Rows(t, 0 .. n - 1))
  PROVE  /\ Rows(t, 0 .. n) = Rows(t, 0 .. n - 1) \cup Part(t, n)
         /\ IsFiniteSet(Rows(t, 0 .. n))
         /\ Cardinality(Rows(t, 0 .. n)) = Cardinality(Rows(t, 0 .. n - 1)) + Len(t[n])
<1> DEFINE R == Rows(t, 0 .. n - 1)
           P == Part(t, n)
<1>1. 0 .. n = (0 .. n - 1) \cup {n}
  OBVIOUS
<1>2. Rows(t, 0 .. n) = R \cup P
  BY <1>1 DEF Rows
<1>3. R \cap P = {}
  BY InRows DEF Part
<1>4. IsFiniteSet(P) /\ Cardinality(P) = Len(t[n])
  BY PartSize
<1> HIDE DEF R, P
<1>5. IsFiniteSet(R \cup P)
      /\ Cardinality(R \cup P) = Cardinality(R) + Cardinality(P) - Cardinality(R \cap P)
  BY <1>4, FS_Union DEF R
<1>6. Cardinality(R) \in Nat /\ Cardinality(R \cap P) = 0
  BY <1>3, FS_CardinalityType, FS_EmptySet DEF R
<1>7. IsFiniteSet(R \cup P) /\ Cardinality(R \cup P) = Cardinality(R) + Len(t[n])
  BY <1>4, <1>5, <1>6
<1> QED
  BY <1>2, <1>7, Zenon DEF R, P

(* Tables u that come from t: a new item x at the end of the chain of q, the *)
(* entry f of this chain counted once more, and this chain freed.           *)
IsAdded(D, t, q, x, u) ==
  /\ t \in [D -> Seq(Entry)] /\ u \in [D -> Seq(Entry)] /\ q \in D /\ x \in Entry
  /\ u[q] = Append(t[q], x) /\ \A p \in D : p # q => u[p] = t[p]
IsBumped(D, t, q, f, u) ==
  /\ t \in [D -> Seq(Entry)] /\ u \in [D -> Seq(Entry)] /\ q \in D /\ f \in 1 .. Len(t[q])
  /\ u[q] = [t[q] EXCEPT ![f].count = @ + 1] /\ \A p \in D : p # q => u[p] = t[p]
IsFreed(D, t, q, u) ==
  /\ t \in [D -> Seq(Entry)] /\ u \in [D -> Seq(Entry)] /\ q \in D
  /\ u[q] = <<>> /\ \A p \in D : p # q => u[p] = t[p]

(* A new item at the end of a chain is one more entry, counted once.        *)
LEMMA EntryAdded ==
  ASSUME NEW D, NEW t, NEW q, NEW x, NEW u, IsAdded(D, t, q, x, u), x.count = 1,
         IsFiniteSet(Entries(t)), IsFiniteSet(Counted(t))
  PROVE  /\ IsFiniteSet(Entries(u)) /\ IsFiniteSet(Counted(u))
         /\ Cardinality(Entries(u)) = Cardinality(Entries(t)) + 1
         /\ Cardinality(Counted(u)) = Cardinality(Counted(t)) + 1
<1> DEFINE n == Len(t[q]) + 1
           e == <<q, n>>
           c == <<e, 1>>
<1>1. /\ t[q] \in Seq(Entry) /\ Len(t[q]) \in Nat /\ DOMAIN t = D /\ n \in Nat
      /\ n \notin 1 .. Len(t[q])
  BY DEF IsAdded
<1>2. u[q] = Append(t[q], x) /\ \A p \in D : p # q => u[p] = t[p]
  BY DEF IsAdded
<1>2d. DOMAIN u = D /\ q \in D /\ x \in Entry
  BY DEF IsAdded
<1>3. Len(u[q]) = n /\ u[q][n] = x /\ \A i \in 1 .. Len(t[q]) : u[q][i] = t[q][i]
  BY <1>1, <1>2
<1>4. 1 .. n = 1 .. Len(t[q]) \cup {n}
  BY <1>1
<1> HIDE DEF n
<1>5. e \notin Entries(t)
  BY <1>1, InEntries
<1>6. Entries(u) = Entries(t) \cup {e}
  <2>1. ASSUME NEW d PROVE d \in Entries(u) <=> d \in Entries(t) \cup {e}
    <3>1. d \in Entries(u) <=> \E p \in D : \E i \in 1 .. Len(u[p]) : d = <<p, i>>
      BY <1>2d, InEntries
    <3>2. d \in Entries(t) <=> \E p \in D : \E i \in 1 .. Len(t[p]) : d = <<p, i>>
      BY <1>1, InEntries
    <3> QED
      BY <1>2, <1>2d, <1>3, <1>4, <3>1, <3>2
  <2> QED
    BY <2>1
<1>7. c \notin Counted(t)
  BY <1>1, InCounted
<1>8. Counted(u) = Counted(t) \cup {c}
  <2>1. ASSUME NEW d PROVE d \in Counted(u) <=> d \in Counted(t) \cup {c}
    <3>1. d \in Counted(u) <=> \E p \in D : \E i \in 1 .. Len(u[p]) :
                                \E k \in 1 .. u[p][i].count : d = <<<<p, i>>, k>>
      BY <1>2d, InCounted
    <3>2. d \in Counted(t) <=> \E p \in D : \E i \in 1 .. Len(t[p]) :
                                \E k \in 1 .. t[p][i].count : d = <<<<p, i>>, k>>
      BY <1>1, InCounted
    <3>3. 1 .. x.count = {1}
      OBVIOUS
    <3>4. ASSUME d \in Counted(u) PROVE d \in Counted(t) \/ d = c
      <4>a. PICK p \in D : \E i \in 1 .. Len(u[p]) :
                   \E k \in 1 .. u[p][i].count : d = <<<<p, i>>, k>>
        BY <3>1, <3>4
      <4>1. PICK i \in 1 .. Len(u[p]) :
                   \E k \in 1 .. u[p][i].count : d = <<<<p, i>>, k>>
        BY <4>a
      <4>2. CASE p = q /\ i = n
        BY <1>3, <3>3, <4>1, <4>2
      <4>3. CASE ~(p = q /\ i = n)
        <5>1. i \in 1 .. Len(t[p]) /\ u[p][i] = t[p][i]
          BY <1>2, <1>3, <1>4, <4>1, <4>3
        <5> QED
          BY <3>2, <4>1, <5>1
      <4> QED
        BY <4>2, <4>3
    <3>5. ASSUME d \in Counted(t) PROVE d \in Counted(u)
      <4>a. PICK p \in D : \E i \in 1 .. Len(t[p]) :
                   \E k \in 1 .. t[p][i].count : d = <<<<p, i>>, k>>
        BY <3>2, <3>5
      <4>1. PICK i \in 1 .. Len(t[p]) :
                   \E k \in 1 .. t[p][i].count : d = <<<<p, i>>, k>>
        BY <4>a
      <4>2. i \in 1 .. Len(u[p]) /\ u[p][i] = t[p][i]
        BY <1>2, <1>3, <1>4, <4>1
      <4> QED
        BY <3>1, <4>1, <4>2
    <3>6. c \in Counted(u)
      <4>1. n \in 1 .. Len(u[q]) /\ 1 \in 1 .. u[q][n].count
        BY <1>3, <1>4, <3>3
      <4> QED
        BY <1>2d, <4>1, InCounted
    <3> QED
      BY <3>4, <3>5, <3>6
  <2> QED
    BY <2>1
<1> HIDE DEF e, c
<1>9. IsFiniteSet(Entries(u)) /\ Cardinality(Entries(u)) = Cardinality(Entries(t)) + 1
  BY <1>5, <1>6, FS_AddElement
<1>10. IsFiniteSet(Counted(u)) /\ Cardinality(Counted(u)) = Cardinality(Counted(t)) + 1
  BY <1>7, <1>8, FS_AddElement
<1> QED
  BY <1>2, <1>9, <1>10

(* An entry that is counted once more is the same entry.                    *)
LEMMA EntryCounted ==
  ASSUME NEW D, NEW t, NEW q, NEW f, NEW u, IsBumped(D, t, q, f, u),
         IsFiniteSet(Entries(t)), IsFiniteSet(Counted(t))
  PROVE  /\ Entries(u) = Entries(t) /\ IsFiniteSet(Counted(u))
         /\ Cardinality(Counted(u)) = Cardinality(Counted(t)) + 1
<1> DEFINE x == t[q][f]
           n == x.count + 1
           c == <<<<q, f>>, n>>
           y == [x EXCEPT !.count = n]
<1>1. /\ t[q] \in Seq(Entry) /\ Len(t[q]) \in Nat /\ DOMAIN t = D /\ q \in D
      /\ f \in 1 .. Len(t[q])
  BY DEF IsBumped
<1>2. x \in Entry
  BY <1>1
<1>3. x.count \in Nat \ {0} /\ n \in Nat \ {0} /\ n \notin 1 .. x.count
  BY <1>2 DEF Entry
<1>4. y \in Entry /\ y.count = n
  BY <1>2, <1>3 DEF Entry
<1>6. u[q] = [t[q] EXCEPT ![f] = y] /\ \A p \in D : p # q => u[p] = t[p]
  BY DEF IsBumped
<1> HIDE DEF y
<1>6d. DOMAIN u = D
  BY DEF IsBumped
<1>7. Len(u[q]) = Len(t[q]) /\ u[q][f] = y
      /\ \A i \in 1 .. Len(t[q]) : i # f => u[q][i] = t[q][i]
  BY <1>1, <1>6
<1>8. 1 .. n = 1 .. x.count \cup {n}
  BY <1>3
<1> HIDE DEF n, x
<1>9. Entries(u) = Entries(t)
  <2>1. ASSUME NEW d PROVE d \in Entries(u) <=> d \in Entries(t)
    <3>1. d \in Entries(u) <=> \E p \in D : \E i \in 1 .. Len(u[p]) : d = <<p, i>>
      BY <1>6d, InEntries
    <3>2. d \in Entries(t) <=> \E p \in D : \E i \in 1 .. Len(t[p]) : d = <<p, i>>
      BY <1>1, InEntries
    <3>3. \A p \in D : Len(u[p]) = Len(t[p])
      BY <1>6, <1>7
    <3> QED
      BY <3>1, <3>2, <3>3
  <2> QED
    BY <2>1
<1>10. c \notin Counted(t)
  <2>1. SUFFICES ASSUME c \in Counted(t) PROVE FALSE
    OBVIOUS
  <2>2. \E p \in D : \E i \in 1 .. Len(t[p]) :
          \E k \in 1 .. t[p][i].count : c = <<<<p, i>>, k>>
    BY <1>1, <2>1, InCounted
  <2>3. n \in 1 .. t[q][f].count
    BY <2>2
  <2> QED
    BY <1>3, <2>3 DEF x
<1>11. Counted(u) = Counted(t) \cup {c}
  <2>1. ASSUME NEW d PROVE d \in Counted(u) <=> d \in Counted(t) \cup {c}
    <3>1. d \in Counted(u) <=> \E p \in D : \E i \in 1 .. Len(u[p]) :
                                \E k \in 1 .. u[p][i].count : d = <<<<p, i>>, k>>
      BY <1>6d, InCounted
    <3>2. d \in Counted(t) <=> \E p \in D : \E i \in 1 .. Len(t[p]) :
                                \E k \in 1 .. t[p][i].count : d = <<<<p, i>>, k>>
      BY <1>1, InCounted
    <3>3. 1 .. u[q][f].count = 1 .. t[q][f].count \cup {n}
      BY <1>4, <1>7, <1>8 DEF x
    <3>4. ASSUME d \in Counted(u) PROVE d \in Counted(t) \/ d = c
      <4>a. PICK p \in D : \E i \in 1 .. Len(u[p]) :
                   \E k \in 1 .. u[p][i].count : d = <<<<p, i>>, k>>
        BY <3>1, <3>4
      <4>1. PICK i \in 1 .. Len(u[p]) :
                   \E k \in 1 .. u[p][i].count : d = <<<<p, i>>, k>>
        BY <4>a
      <4>2. i \in 1 .. Len(t[p])
        BY <1>6, <1>7, <4>1
      <4>3. CASE p = q /\ i = f
        BY <3>2, <3>3, <4>1, <4>2, <4>3
      <4>4. CASE ~(p = q /\ i = f)
        <5>1. u[p][i] = t[p][i]
          BY <1>6, <1>7, <4>2, <4>4
        <5> QED
          BY <3>2, <4>1, <4>2, <5>1
      <4> QED
        BY <4>3, <4>4
    <3>5. ASSUME d \in Counted(t) PROVE d \in Counted(u)
      <4>a. PICK p \in D : \E i \in 1 .. Len(t[p]) :
                   \E k \in 1 .. t[p][i].count : d = <<<<p, i>>, k>>
        BY <3>2, <3>5
      <4>1. PICK i \in 1 .. Len(t[p]) :
                   \E k \in 1 .. t[p][i].count : d = <<<<p, i>>, k>>
        BY <4>a
      <4>2. i \in 1 .. Len(u[p])
        BY <1>6, <1>7, <4>1
      <4>3. 1 .. t[p][i].count \subseteq 1 .. u[p][i].count
        BY <1>6, <1>7, <3>3, <4>1
      <4> QED
        BY <3>1, <4>1, <4>2, <4>3
    <3>6. c \in Counted(u)
      <4>1. f \in 1 .. Len(u[q]) /\ n \in 1 .. u[q][f].count
        BY <1>1, <1>7, <3>3
      <4> QED
        BY <1>1, <1>6d, <4>1, InCounted
    <3> QED
      BY <3>4, <3>5, <3>6
  <2> QED
    BY <2>1
<1> HIDE DEF c
<1>12. IsFiniteSet(Counted(u)) /\ Cardinality(Counted(u)) = Cardinality(Counted(t)) + 1
  BY <1>10, <1>11, FS_AddElement
<1> QED
  BY <1>6, <1>9, <1>12

(* A chain that is freed takes its entries with it.                         *)
LEMMA ChainFreed ==
  ASSUME NEW D, NEW t, NEW q, NEW u, IsFreed(D, t, q, u), IsFiniteSet(Entries(t))
  PROVE  /\ IsFiniteSet(Entries(u))
         /\ Cardinality(Entries(u)) = Cardinality(Entries(t)) - Len(t[q])
<1> DEFINE E == Entries(t)
           P == Part(t, q)
<1>1. t[q] \in Seq(Entry) /\ Len(t[q]) \in Nat /\ DOMAIN t = D /\ q \in D
  BY DEF IsFreed
<1>2. /\ Len(u[q]) = 0 /\ \A p \in D : p # q => u[p] = t[p]
  BY DEF IsFreed
<1>2d. DOMAIN u = D
  BY DEF IsFreed
<1>3. IsFiniteSet(P) /\ Cardinality(P) = Len(t[q])
  BY <1>1, PartSize
<1>4. P \subseteq E
  BY <1>1 DEF Entries
<1>5. Entries(u) = E \ P
  <2>1. ASSUME NEW d PROVE d \in Entries(u) <=> d \in E /\ d \notin P
    <3>1. d \in P <=> \E i \in 1 .. Len(t[q]) : d = <<q, i>>
      BY DEF Part
    <3>2. d \in Entries(u) <=> \E p \in D : \E i \in 1 .. Len(u[p]) : d = <<p, i>>
      BY <1>2d, InEntries
    <3>3. d \in E <=> \E p \in D : \E i \in 1 .. Len(t[p]) : d = <<p, i>>
      BY <1>1, InEntries
    <3> HIDE DEF E, P
    <3> QED
      BY <1>1, <1>2, <3>1, <3>2, <3>3
  <2> HIDE DEF E, P
  <2> QED
    BY <2>1
<1>6. E \cap P = P
  BY <1>4
<1> HIDE DEF P
<1>7. IsFiniteSet(E \ P) /\ Cardinality(E \ P) = Cardinality(E) - Cardinality(E \cap P)
  BY FS_Difference
<1> QED
  BY <1>2, <1>3, <1>5, <1>6, <1>7

-----------------------------------------------------------------------------
(* Words.                                                                  *)

(* A word and the white space that ends it, and those among the first n     *)
(* characters of an array.                                                  *)
Closes(array, a, b) ==
  /\ a < b /\ array[b] \in Spaces
  /\ \A k \in a .. b - 1 : array[k] \notin Spaces
  /\ a > 1 => array[a - 1] \in Spaces
Seen(array, n) == {o \in (1 .. n) \X (1 .. n) : Closes(array, o[1], o[2])}
SeenWords(array, n) == Words(array, Seen(array, n))
SeenCount(array, n, key) == Count(array, Seen(array, n), key)

(* They are the words that have ended before a scan comes to n, and all     *)
(* words of an array that ends in white space.                              *)
LEMMA SeenIsEnded ==
  ASSUME NEW array \in Seq(Chars), NEW n \in 0 .. Len(array)
  PROVE  /\ Ended(array, n) = Seen(array, n)
         /\ n = Len(array) /\ Closed(array) => Occurrences(array) = Seen(array, n)
<1> DEFINE O == Occurrences(array)
<1>0. n \in Nat /\ Len(array) \in Nat /\ n <= Len(array)
  OBVIOUS
<1>1. ASSUME NEW o \in O
      PROVE  /\ o = <<o[1], o[2]>> /\ o[1] \in Nat /\ o[2] \in Nat /\ 1 <= o[1]
             /\ o[1] <= Len(array) /\ o[1] < o[2] /\ o[2] <= Len(array) + 1
             /\ IsWord(array, o[1], o[2])
  <2>1. o \in (1 .. Len(array)) \X (1 .. Len(array) + 1) /\ IsWord(array, o[1], o[2])
    BY DEF Occurrences
  <2> QED
    BY <1>0, <2>1 DEF IsWord
<1>2. ASSUME NEW o \in O, o[2] <= n PROVE o \in Seen(array, n)
  <2>1. o \in (1 .. n) \X (1 .. n)
    BY <1>0, <1>1, <1>2
  <2>2. o[2] <= Len(array)
    BY <1>0, <1>1, <1>2
  <2> HIDE DEF O
  <2>3. Closes(array, o[1], o[2])
    BY <1>1, <2>2 DEF IsWord, Closes
  <2> QED
    BY <2>1, <2>3 DEF Seen
<1>3. ASSUME NEW o \in Seen(array, n) PROVE o \in O /\ o[2] <= n
  <2>1. o \in (1 .. n) \X (1 .. n) /\ Closes(array, o[1], o[2])
    BY DEF Seen
  <2>2. /\ o \in (1 .. Len(array)) \X (1 .. Len(array) + 1)
        /\ o[2] <= n
    BY <1>0, <2>1
  <2>3. IsWord(array, o[1], o[2])
    BY <2>1 DEF IsWord, Closes
  <2> QED
    BY <2>2, <2>3 DEF Occurrences
<1>4. Ended(array, n) = Seen(array, n)
  <2> HIDE DEF O
  <2>1. Ended(array, n) = {o \in O : o[2] <= n}
    BY DEF Ended, O
  <2> QED
    BY <1>2, <1>3, <2>1
<1>5. ASSUME n = Len(array), Closed(array), NEW o \in O PROVE o[2] <= n
  <2>1. array # <<>> => array[Len(array)] \in Spaces
    BY <1>5 DEF Closed, Last
  <2>2. ASSUME o[2] = Len(array) + 1 PROVE FALSE
    <3>1. Len(array) \in o[1] .. o[2] - 1
      BY <1>0, <1>1, <2>2
    <3>2. array[Len(array)] \notin Spaces
      BY <1>1, <3>1 DEF IsWord
    <3>3. array # <<>>
      BY <1>1, <1>0
    <3> QED
      BY <2>1, <3>2, <3>3
  <2> QED
    BY <1>0, <1>1, <1>5, <2>2
<1> HIDE DEF O
<1>6. n = Len(array) /\ Closed(array) => O = Seen(array, n)
  BY <1>2, <1>3, <1>5
<1> QED
  BY <1>4, <1>6 DEF O

(* There are finitely many occurrences, and so finitely many words.         *)
LEMMA OccurrencesFinite ==
  ASSUME NEW array, NEW n \in Nat
  PROVE  IsFiniteSet(Seen(array, n)) /\ IsFiniteSet(SeenWords(array, n))
<1> DEFINE O == Seen(array, n)
           f == [o \in O |-> WordAt(array, o)]
<1>1. IsFiniteSet((1 .. n) \X (1 .. n))
  <2>1. IsFiniteSet(1 .. n)
    BY FS_Interval
  <2> QED
    BY <2>1, FS_Product
<1>2. IsFiniteSet(O)
  BY <1>1, FS_Subset DEF Seen
<1>3. SeenWords(array, n) = {f[o] : o \in O}
  BY DEF SeenWords, Words
<1> HIDE DEF O
<1>4. f \in Surjection(O, SeenWords(array, n))
  <2>1. \A o \in O : f[o] \in SeenWords(array, n)
    BY <1>3
  <2>2. f \in [O -> SeenWords(array, n)]
    BY <2>1
  <2>3. \A w \in SeenWords(array, n) : \E o \in O : f[o] = w
    BY <1>3
  <2> HIDE DEF f
  <2> QED
    BY <2>2, <2>3 DEF Surjection
<1>5. IsFiniteSet(SeenWords(array, n))
  <2> HIDE DEF f
  <2> QED
    BY <1>2, <1>4, FS_Surjection
<1> QED
  BY <1>2, <1>5 DEF O

(* The words that the character behind the first n ends.                    *)
EndingAt(array, n) == {o \in (1 .. n) \X {n + 1} : Closes(array, o[1], n + 1)}

(* What one more character changes: the words that it ends.                 *)
LEMMA OneMore ==
  ASSUME NEW array, NEW n \in Nat
  PROVE  Seen(array, n + 1) = Seen(array, n) \cup EndingAt(array, n)
<1> DEFINE E == {o \in (1 .. n) \X {n + 1} : Closes(array, o[1], n + 1)}
<1>1. ASSUME NEW o \in Seen(array, n + 1) PROVE o \in Seen(array, n) \cup E
  <2>1. o \in (1 .. n + 1) \X (1 .. n + 1) /\ Closes(array, o[1], o[2])
    BY DEF Seen
  <2>2. o[1] \in 1 .. n + 1 /\ o[2] \in 1 .. n + 1 /\ o = <<o[1], o[2]>> /\ o[1] < o[2]
    BY <2>1 DEF Closes
  <2>3. CASE o[2] = n + 1
    <3>1. o[1] \in 1 .. n
      BY <2>2, <2>3
    <3>2. o \in (1 .. n) \X {n + 1}
      BY <2>2, <2>3, <3>1
    <3> QED
      BY <2>1, <2>3, <3>2
  <2>4. CASE o[2] # n + 1
    <3>1. o[1] \in 1 .. n /\ o[2] \in 1 .. n
      BY <2>2, <2>4
    <3>2. o \in (1 .. n) \X (1 .. n)
      BY <2>2, <3>1
    <3> QED
      BY <2>1, <3>2 DEF Seen
  <2> QED
    BY <2>3, <2>4
<1>2. Seen(array, n) \subseteq Seen(array, n + 1)
  <2>1. (1 .. n) \X (1 .. n) \subseteq (1 .. n + 1) \X (1 .. n + 1)
    OBVIOUS
  <2> QED
    BY <2>1 DEF Seen
<1>3. E \subseteq Seen(array, n + 1)
  <2>1. SUFFICES ASSUME NEW o \in E PROVE o \in Seen(array, n + 1)
    OBVIOUS
  <2>2. /\ o \in (1 .. n + 1) \X (1 .. n + 1) /\ o[2] = n + 1
        /\ Closes(array, o[1], n + 1)
    OBVIOUS
  <2> QED
    BY <2>2 DEF Seen
<1>4. EndingAt(array, n) = E
  BY DEF EndingAt
<1> QED
  BY <1>1, <1>2, <1>3, <1>4

(* A letter ends no word, and white space behind white space neither.       *)
LEMMA NoWordEnds ==
  ASSUME NEW array, NEW n \in Nat,
         array[n + 1] \notin Spaces \/ n = 0 \/ array[n] \in Spaces
  PROVE  Seen(array, n + 1) = Seen(array, n)
<1>1. ASSUME NEW a \in 1 .. n, Closes(array, a, n + 1) PROVE FALSE
  <2>1. array[n + 1] \in Spaces /\ \A k \in a .. n + 1 - 1 : array[k] \notin Spaces
    BY <1>1 DEF Closes
  <2>2. n \in a .. n + 1 - 1
    OBVIOUS
  <2> QED
    BY <2>1, <2>2
<1>2. EndingAt(array, n) = {}
  <2>1. ASSUME NEW o \in EndingAt(array, n) PROVE FALSE
    <3>1. o[1] \in 1 .. n /\ Closes(array, o[1], n + 1)
      BY DEF EndingAt
    <3> QED
      BY <1>1, <3>1
  <2> QED
    BY <2>1
<1> QED
  BY <1>2, OneMore

(* The character behind the first n is white space and ends the word        *)
(* w that begins behind the first h.                                        *)
Starts(array, n, h, w) ==
  /\ n \in Nat /\ h \in 0 .. n - 1 /\ array[n + 1] \in Spaces
  /\ \A k \in h + 1 .. n : array[k] \notin Spaces
  /\ h > 0 => array[h] \in Spaces
  /\ w = SubSeq(array, h + 1, n)

(* White space behind letters ends the word that they are.                  *)
LEMMA OneWordEnds ==
  ASSUME NEW array, NEW n, NEW h, NEW w, Starts(array, n, h, w)
  PROVE  Seen(array, n + 1) = Seen(array, n) \cup {<<h + 1, n + 1>>}
<1> USE DEF Starts
<1>1. n + 1 - 1 = n /\ h + 1 - 1 = h /\ h + 1 < n + 1 /\ (h + 1 > 1 <=> h > 0)
  OBVIOUS
<1>2. Closes(array, h + 1, n + 1)
  BY <1>1 DEF Closes
<1>3. ASSUME NEW a \in 1 .. n, Closes(array, a, n + 1) PROVE a = h + 1
  <2>1. (\A k \in a .. n : array[k] \notin Spaces) /\ (a > 1 => array[a - 1] \in Spaces)
    BY <1>1, <1>3 DEF Closes
  <2>2. ~ (a < h + 1)
    <3>1. a < h + 1 => h > 0 /\ h \in a .. n
      OBVIOUS
    <3> QED
      BY <2>1, <3>1
  <2>3. ~ (a > h + 1)
    <3>1. a > h + 1 => a > 1 /\ a - 1 \in h + 1 .. n
      OBVIOUS
    <3> QED
      BY <2>1, <3>1
  <2> QED
    BY <2>2, <2>3
<1>4. EndingAt(array, n) = {<<h + 1, n + 1>>}
  <2>1. h + 1 \in 1 .. n
    OBVIOUS
  <2>2. <<h + 1, n + 1>> \in EndingAt(array, n)
    <3>1. <<h + 1, n + 1>> \in (1 .. n) \X {n + 1} /\ <<h + 1, n + 1>>[1] = h + 1
      BY <2>1
    <3> QED
      BY <1>2, <3>1 DEF EndingAt
  <2>3. ASSUME NEW o \in EndingAt(array, n) PROVE o = <<h + 1, n + 1>>
    <3>1. /\ o = <<o[1], o[2]>> /\ o[1] \in 1 .. n /\ o[2] = n + 1
          /\ Closes(array, o[1], n + 1)
      BY DEF EndingAt
    <3>2. o[1] = h + 1
      BY <1>3, <3>1
    <3> QED
      BY <3>1, <3>2
  <2> QED
    BY <2>2, <2>3
<1>5. n \in Nat
  OBVIOUS
<1> QED
  BY <1>4, <1>5, OneMore

(* What the end of a word changes in what has been seen.                    *)
LEMMA WordSeen ==
  ASSUME NEW array, NEW n, NEW h, NEW w, Starts(array, n, h, w)
  PROVE  /\ Cardinality(Seen(array, n + 1)) = Cardinality(Seen(array, n)) + 1
         /\ SeenWords(array, n + 1) = SeenWords(array, n) \cup {w}
         /\ SeenCount(array, n + 1, w) = SeenCount(array, n, w) + 1
         /\ \A k : k # w => SeenCount(array, n + 1, k) = SeenCount(array, n, k)
         /\ w \notin SeenWords(array, n) => SeenCount(array, n, w) = 0
<1> DEFINE O == Seen(array, n)
           o1 == <<h + 1, n + 1>>
           At(k) == {o \in O : WordAt(array, o) = k}
<1>1. Seen(array, n + 1) = O \cup {o1}
  BY OneWordEnds
<1>0. n \in Nat /\ h \in 0 .. n - 1
  BY DEF Starts
<1>2. o1 \notin O
  BY <1>0 DEF Seen
<1>3. WordAt(array, o1) = w
  <2>1. o1[1] = h + 1 /\ o1[2] - 1 = n
    BY <1>0
  <2> QED
    BY <2>1 DEF WordAt, Starts
<1>4. IsFiniteSet(O)
  BY <1>0, OccurrencesFinite
<1> HIDE DEF O, o1
<1>5. Cardinality(O \cup {o1}) = Cardinality(O) + 1
  BY <1>2, <1>4, FS_AddElement
<1>6. SeenWords(array, n + 1) = SeenWords(array, n) \cup {w}
  <2>1. \A o : o \in Seen(array, n + 1) <=> o \in O \/ o = o1
    BY <1>1
  <2>2. SeenWords(array, n) = {WordAt(array, o) : o \in O}
    BY DEF SeenWords, Words, O
  <2>3. SeenWords(array, n + 1) = {WordAt(array, o) : o \in Seen(array, n + 1)}
    BY DEF SeenWords, Words
  <2> QED
    BY <1>3, <2>1, <2>2, <2>3
<1>7. SeenCount(array, n + 1, w) = SeenCount(array, n, w) + 1
  <2>1. {o \in O \cup {o1} : WordAt(array, o) = w} = At(w) \cup {o1}
    BY <1>3
  <2>2. IsFiniteSet(At(w)) /\ o1 \notin At(w)
    BY <1>2, <1>4, FS_Subset
  <2>3. SeenCount(array, n, w) = Cardinality(At(w))
    BY DEF SeenCount, Count, O
  <2>4. SeenCount(array, n + 1, w) = Cardinality(At(w) \cup {o1})
    BY <1>1, <2>1 DEF SeenCount, Count
  <2>5. Cardinality(At(w) \cup {o1}) = Cardinality(At(w)) + 1
    BY <2>2, FS_AddElement, Zenon
  <2> QED
    BY <2>3, <2>4, <2>5, Zenon
<1>8. ASSUME NEW k, k # w PROVE SeenCount(array, n + 1, k) = SeenCount(array, n, k)
  <2>1. {o \in O \cup {o1} : WordAt(array, o) = k} = At(k)
    BY <1>3, <1>8
  <2>2. SeenCount(array, n, k) = Cardinality(At(k))
    BY DEF SeenCount, Count, O
  <2>3. SeenCount(array, n + 1, k) = Cardinality(At(k))
    BY <1>1, <2>1 DEF SeenCount, Count
  <2> QED
    BY <2>2, <2>3
<1>9. ASSUME w \notin SeenWords(array, n) PROVE SeenCount(array, n, w) = 0
  <2>1. {o \in Seen(array, n) : WordAt(array, o) = w} = {}
    BY <1>9 DEF SeenWords, Words
  <2> QED
    BY <2>1, FS_EmptySet DEF SeenCount, Count
<1> QED
  BY <1>1, <1>5, <1>6, <1>7, <1>8, <1>9 DEF O

-----------------------------------------------------------------------------
(* What the end of a word does to a table.                                 *)

(* The search in a chain finds an entry with the key if there is one.       *)
LEMMA FoundFacts ==
  ASSUME NEW chain \in Seq(Entry), NEW key
  PROVE  /\ Found(chain, key) > 0 => /\ Found(chain, key) \in 1 .. Len(chain)
                                     /\ chain[Found(chain, key)].key = key
         /\ ~ (Found(chain, key) > 0) => \A i \in 1 .. Len(chain) : chain[i].key # key
<1> DEFINE I == {i \in 1 .. Len(chain) : chain[i].key = key}
<1>1. Found(chain, key) = IF I # {} THEN CHOOSE x \in I : \A y \in I : x <= y ELSE 0
  BY DEF Found, SelectInSeq, Min
<1>2. I \subseteq Nat /\ \A i \in I : i > 0
  OBVIOUS
<1>3. ASSUME I # {} PROVE Found(chain, key) \in I
  <2> HIDE DEF I
  <2> QED
    BY <1>1, <1>2, <1>3, LeastOf
<1>4. ASSUME I = {} PROVE Found(chain, key) = 0
  BY <1>1, <1>4
<1> QED
  BY <1>2, <1>3, <1>4

(* Each entry stands where its hash leads, and no key twice in a chain.     *)
Chained(t, size) ==
  \A p \in DOMAIN t : \A i \in 1 .. Len(t[p]) :
    /\ Hash(t[p][i].key, size) = p
    /\ \A j \in 1 .. Len(t[p]) : t[p][i].key = t[p][j].key => i = j

(* The entries are the words of the first n characters, with their counts.  *)
Clean(t, size, array, n) ==
  /\ \A p \in DOMAIN t : \A i \in 1 .. Len(t[p]) :
       t[p][i].key \in SeenWords(array, n) /\ t[p][i].count = SeenCount(array, n, t[p][i].key)
  /\ \A w \in SeenWords(array, n) :
       /\ Hash(w, size) \in DOMAIN t
       /\ \E i \in 1 .. Len(t[Hash(w, size)]) : t[Hash(w, size)][i].key = w
  /\ Cardinality(Entries(t)) = Cardinality(SeenWords(array, n))

(* What is stored in one place of the table.                                *)
LEMMA Stored ==
  ASSUME NEW D, NEW t \in [D -> Seq(Entry)], NEW q \in D, NEW v \in Seq(Entry),
         NEW u, u = [t EXCEPT ![q] = v]
  PROVE  u \in [D -> Seq(Entry)] /\ u[q] = v /\ \A p \in D : p # q => u[p] = t[p]
OBVIOUS

(* An entry that is counted once more: only its count is another one.       *)
LEMMA CountedOnce ==
  ASSUME NEW D, NEW t, NEW q, NEW f, NEW u, IsBumped(D, t, q, f, u)
  PROVE  /\ \A p \in D : Len(u[p]) = Len(t[p])
         /\ \A p \in D : \A i \in 1 .. Len(t[p]) :
              /\ u[p][i].key = t[p][i].key
              /\ u[p][i].count = IF p = q /\ i = f THEN t[p][i].count + 1
                                                   ELSE t[p][i].count
<1>1. /\ t[q] \in Seq(Entry) /\ q \in D /\ f \in 1 .. Len(t[q])
      /\ u[q] = [t[q] EXCEPT ![f].count = @ + 1] /\ \A p \in D : p # q => u[p] = t[p]
  BY DEF IsBumped
<1>2. t[q][f] \in Entry
  BY <1>1
<1>3. \A i \in 1 .. Len(t[q]) :
        u[q][i] = IF i = f THEN [t[q][f] EXCEPT !.count = @ + 1] ELSE t[q][i]
  BY <1>1
<1>4. Len(u[q]) = Len(t[q])
  BY <1>1
<1>5. LET y == [t[q][f] EXCEPT !.count = @ + 1]
      IN y.key = t[q][f].key /\ y.count = t[q][f].count + 1
  BY <1>2 DEF Entry
<1>6. ASSUME NEW p \in D, NEW i \in 1 .. Len(t[p])
      PROVE  /\ u[p][i].key = t[p][i].key
             /\ u[p][i].count = IF p = q /\ i = f THEN t[p][i].count + 1
                                                  ELSE t[p][i].count
  <2>1. CASE p = q /\ i = f
    BY <1>3, <1>5, <2>1
  <2>2. CASE p = q /\ i # f
    BY <1>3, <2>2
  <2>3. CASE p # q
    BY <1>1, <2>3
  <2> QED
    BY <2>1, <2>2, <2>3
<1> QED
  BY <1>1, <1>4, <1>6

(* A new item: the other entries stay.                                      *)
LEMMA AddedOnce ==
  ASSUME NEW D, NEW t, NEW q, NEW x, NEW u, IsAdded(D, t, q, x, u)
  PROVE  /\ Len(u[q]) = Len(t[q]) + 1 /\ Len(t[q]) \in Nat
         /\ u[q][Len(t[q]) + 1] = x
         /\ \A i \in 1 .. Len(t[q]) : u[q][i] = t[q][i]
<1>1. t[q] \in Seq(Entry) /\ u[q] = Append(t[q], x) /\ x \in Entry
  BY DEF IsAdded
<1> QED
  BY <1>1

(* A word that the table has is counted there.                              *)
LEMMA TableCounts ==
  ASSUME NEW size, NEW D, NEW t, NEW q, NEW f, NEW u, IsBumped(D, t, q, f, u),
         IsFiniteSet(Entries(t)), IsFiniteSet(Counted(t)),
         Chained(t, size)
  PROVE  /\ Chained(u, size)
         /\ \A array, n :
              /\ Clean(t, size, array, n)
              /\ SeenWords(array, n + 1) = SeenWords(array, n) \cup {t[q][f].key}
              /\ SeenCount(array, n + 1, t[q][f].key) = SeenCount(array, n, t[q][f].key) + 1
              /\ \A k : k # t[q][f].key => SeenCount(array, n + 1, k) = SeenCount(array, n, k)
              => Clean(u, size, array, n + 1)
<1> DEFINE w == t[q][f].key
<1>0. DOMAIN t = D /\ DOMAIN u = D /\ q \in D /\ f \in 1 .. Len(t[q])
  BY DEF IsBumped
<1>1. /\ \A p \in D : Len(u[p]) = Len(t[p])
      /\ \A p \in D : \A i \in 1 .. Len(t[p]) :
           /\ u[p][i].key = t[p][i].key
           /\ u[p][i].count = IF p = q /\ i = f THEN t[p][i].count + 1
                                                ELSE t[p][i].count
  BY CountedOnce
<1>2. Chained(u, size)
  BY <1>0, <1>1 DEF Chained
<1>3. ASSUME NEW array, NEW n, Clean(t, size, array, n),
             SeenWords(array, n + 1) = SeenWords(array, n) \cup {w},
             SeenCount(array, n + 1, w) = SeenCount(array, n, w) + 1,
             \A k : k # w => SeenCount(array, n + 1, k) = SeenCount(array, n, k)
      PROVE  Clean(u, size, array, n + 1)
  <2>1. w \in SeenWords(array, n)
    BY <1>0, <1>3 DEF Clean
  <2>2. SeenWords(array, n + 1) = SeenWords(array, n)
    BY <1>3, <2>1
  <2>3. ASSUME NEW p \in D, NEW i \in 1 .. Len(u[p])
        PROVE  /\ u[p][i].key \in SeenWords(array, n + 1)
               /\ u[p][i].count = SeenCount(array, n + 1, u[p][i].key)
    <3>1. i \in 1 .. Len(t[p]) /\ u[p][i].key = t[p][i].key
      BY <1>1
    <3>2. t[p][i].key \in SeenWords(array, n) /\ t[p][i].count = SeenCount(array, n, t[p][i].key)
      BY <1>0, <1>3, <3>1 DEF Clean
    <3>3. CASE t[p][i].key = w
      <4>1. p = q /\ i = f
        BY <1>0, <3>1, <3>3 DEF Chained
      <4>2. u[p][i].count = t[p][i].count + 1
        BY <1>1, <3>1, <4>1
      <4> QED
        BY <1>3, <2>2, <3>1, <3>2, <3>3, <4>2
    <3>4. CASE t[p][i].key # w
      <4>1. u[p][i].count = t[p][i].count
        BY <1>1, <3>1, <3>4
      <4> QED
        BY <1>3, <2>2, <3>1, <3>2, <3>4, <4>1
    <3> QED
      BY <3>3, <3>4
  <2>4. ASSUME NEW v \in SeenWords(array, n + 1)
        PROVE  /\ Hash(v, size) \in D
               /\ \E i \in 1 .. Len(u[Hash(v, size)]) : u[Hash(v, size)][i].key = v
    <3>1. /\ Hash(v, size) \in D
          /\ \E i \in 1 .. Len(t[Hash(v, size)]) : t[Hash(v, size)][i].key = v
      BY <1>0, <1>3, <2>2 DEF Clean
    <3> QED
      BY <1>1, <3>1
  <2>5. Entries(u) = Entries(t)
    BY EntryCounted
  <2> QED
    BY <1>0, <1>3, <2>2, <2>3, <2>4, <2>5 DEF Clean
<1> QED
  BY <1>2, <1>3

(* A word that the table has not gets an entry.                             *)
LEMMA TableGrows ==
  ASSUME NEW size, NEW D, NEW t, NEW q, NEW x, NEW u, IsAdded(D, t, q, x, u),
         IsFiniteSet(Entries(t)), IsFiniteSet(Counted(t)),
         Chained(t, size), x.count = 1, Hash(x.key, size) = q,
         \A i \in 1 .. Len(t[q]) : t[q][i].key # x.key
  PROVE  /\ Chained(u, size)
         /\ \A array, n :
              /\ Clean(t, size, array, n) /\ IsFiniteSet(SeenWords(array, n))
              /\ SeenWords(array, n + 1) = SeenWords(array, n) \cup {x.key}
              /\ SeenCount(array, n + 1, x.key) = SeenCount(array, n, x.key) + 1
              /\ \A k : k # x.key => SeenCount(array, n + 1, k) = SeenCount(array, n, k)
              /\ x.key \notin SeenWords(array, n) => SeenCount(array, n, x.key) = 0
              => Clean(u, size, array, n + 1)
<1> DEFINE w == x.key
           m == Len(t[q]) + 1
<1>0. DOMAIN t = D /\ DOMAIN u = D /\ q \in D /\ \A p \in D : p # q => u[p] = t[p]
  BY DEF IsAdded
<1>1. /\ Len(u[q]) = m /\ Len(t[q]) \in Nat /\ u[q][m] = x
      /\ \A i \in 1 .. Len(t[q]) : u[q][i] = t[q][i]
  BY AddedOnce
<1>2. 1 .. m = 1 .. Len(t[q]) \cup {m} /\ m \notin 1 .. Len(t[q])
  BY <1>1
<1> HIDE DEF m
<1>3. ASSUME NEW p \in D, NEW i \in 1 .. Len(u[p]), ~ (p = q /\ i = m)
      PROVE  i \in 1 .. Len(t[p]) /\ u[p][i] = t[p][i]
  BY <1>0, <1>1, <1>2, <1>3
<1>4. Chained(u, size)
  <2>1. SUFFICES ASSUME NEW p \in D, NEW i \in 1 .. Len(u[p])
                 PROVE  /\ Hash(u[p][i].key, size) = p
                        /\ \A j \in 1 .. Len(u[p]) : u[p][i].key = u[p][j].key => i = j
    BY <1>0 DEF Chained
  <2>2. CASE p = q /\ i = m
    BY <1>1, <1>2, <2>2, SMTT(30)
  <2>3. CASE ~ (p = q /\ i = m)
    <3>1. i \in 1 .. Len(t[p]) /\ u[p][i] = t[p][i]
      BY <1>3, <2>3
    <3>2. /\ Hash(t[p][i].key, size) = p
          /\ \A j \in 1 .. Len(t[p]) : t[p][i].key = t[p][j].key => i = j
      BY <1>0, <3>1 DEF Chained
    <3>3. ASSUME NEW j \in 1 .. Len(u[p]), u[p][i].key = u[p][j].key
          PROVE  i = j
      <4>1. CASE p = q /\ j = m
        BY <1>1, <3>1, <3>3, <4>1
      <4>2. CASE ~ (p = q /\ j = m)
        BY <1>3, <3>1, <3>2, <3>3, <4>2
      <4> QED
        BY <4>1, <4>2
    <3> QED
      BY <3>1, <3>2, <3>3
  <2> QED
    BY <2>2, <2>3
<1>5. ASSUME NEW array, NEW n, Clean(t, size, array, n), IsFiniteSet(SeenWords(array, n)),
             SeenWords(array, n + 1) = SeenWords(array, n) \cup {w},
             SeenCount(array, n + 1, w) = SeenCount(array, n, w) + 1,
             \A k : k # w => SeenCount(array, n + 1, k) = SeenCount(array, n, k),
             w \notin SeenWords(array, n) => SeenCount(array, n, w) = 0
      PROVE  Clean(u, size, array, n + 1)
  <2>1. w \notin SeenWords(array, n)
    BY <1>5 DEF Clean
  <2>2. ASSUME NEW p \in D, NEW i \in 1 .. Len(u[p])
        PROVE  /\ u[p][i].key \in SeenWords(array, n + 1)
               /\ u[p][i].count = SeenCount(array, n + 1, u[p][i].key)
    <3>1. CASE p = q /\ i = m
      BY <1>1, <1>5, <2>1, <3>1
    <3>2. CASE ~ (p = q /\ i = m)
      <4>1. i \in 1 .. Len(t[p]) /\ u[p][i] = t[p][i]
        BY <1>3, <3>2
      <4>2. t[p][i].key \in SeenWords(array, n) /\ t[p][i].count = SeenCount(array, n, t[p][i].key)
        BY <1>0, <1>5, <4>1 DEF Clean
      <4> QED
        BY <1>5, <2>1, <4>1, <4>2
    <3> QED
      BY <3>1, <3>2
  <2>3. ASSUME NEW v \in SeenWords(array, n + 1)
        PROVE  /\ Hash(v, size) \in D
               /\ \E i \in 1 .. Len(u[Hash(v, size)]) : u[Hash(v, size)][i].key = v
    <3>1. CASE v = w
      BY <1>0, <1>1, <1>2, <3>1
    <3>2. CASE v # w
      <4>1. v \in SeenWords(array, n)
        BY <1>5, <3>2
      <4>2. /\ Hash(v, size) \in D
            /\ \E i \in 1 .. Len(t[Hash(v, size)]) : t[Hash(v, size)][i].key = v
        BY <1>0, <1>5, <4>1 DEF Clean
      <4> QED
        BY <1>0, <1>1, <1>2, <4>2
    <3> QED
      BY <3>1, <3>2
  <2>4. Cardinality(Entries(u)) = Cardinality(Entries(t)) + 1
    BY EntryAdded
  <2>5. Cardinality(SeenWords(array, n + 1)) = Cardinality(SeenWords(array, n)) + 1
    BY <1>5, <2>1, FS_AddElement
  <2>6. Cardinality(Entries(t)) = Cardinality(SeenWords(array, n))
    BY <1>5 DEF Clean
  <2> QED
    BY <1>0, <2>2, <2>3, <2>4, <2>5, <2>6 DEF Clean
<1> QED
  BY <1>4, <1>5

-----------------------------------------------------------------------------
(* What wc_output prints.                                                  *)

(* Entries printed behind others.                                           *)
LEMMA ConcatFacts ==
  ASSUME NEW p \in Seq(Entry), NEW q \in Seq(Entry)
  PROVE  /\ p \o q \in Seq(Entry) /\ Len(p \o q) = Len(p) + Len(q)
         /\ ToSet(p \o q) = ToSet(p) \cup ToSet(q)
<1> DEFINE r == p \o q
<1>1. Len(p) \in Nat /\ Len(q) \in Nat /\ DOMAIN p = 1 .. Len(p) /\ DOMAIN q = 1 .. Len(q)
  OBVIOUS
<1>2. r \in Seq(Entry) /\ Len(r) = Len(p) + Len(q) /\ DOMAIN r = 1 .. Len(r)
  OBVIOUS
<1>3. \A i \in 1 .. Len(r) : r[i] = IF i <= Len(p) THEN p[i] ELSE q[i - Len(p)]
  BY <1>1
<1> HIDE DEF r
<1>4. \A i \in 1 .. Len(p) : i \in 1 .. Len(r) /\ r[i] = p[i]
  BY <1>1, <1>2, <1>3
<1>5. \A i \in 1 .. Len(q) : i + Len(p) \in 1 .. Len(r) /\ r[i + Len(p)] = q[i]
  BY <1>1, <1>2, <1>3
<1>6. ToSet(r) \subseteq ToSet(p) \cup ToSet(q)
  <2>1. ASSUME NEW i \in 1 .. Len(r) PROVE r[i] \in ToSet(p) \cup ToSet(q)
    <3>1. CASE i <= Len(p)
      <4>1. i \in 1 .. Len(p) /\ r[i] = p[i]
        BY <1>1, <1>2, <1>3, <3>1
      <4> QED
        BY <1>1, <4>1 DEF ToSet
    <3>2. CASE ~ (i <= Len(p))
      <4>1. i - Len(p) \in 1 .. Len(q) /\ r[i] = q[i - Len(p)]
        BY <1>1, <1>2, <1>3, <3>2
      <4> QED
        BY <1>1, <4>1 DEF ToSet
    <3> QED
      BY <3>1, <3>2
  <2> QED
    BY <1>2, <2>1 DEF ToSet
<1>7. ToSet(p) \subseteq ToSet(r) /\ ToSet(q) \subseteq ToSet(r)
  BY <1>1, <1>2, <1>4, <1>5 DEF ToSet
<1> QED
  BY <1>2, <1>6, <1>7 DEF r

(* The output of the places before n: one line for each of their entries.   *)
Shown(s, t, n) ==
  /\ IsFiniteSet(Rows(t, 0 .. n - 1))
  /\ Len(s) = Cardinality(Rows(t, 0 .. n - 1))
  /\ ToSet(s) = {t[e[1]][e[2]] : e \in Rows(t, 0 .. n - 1)}

(* One chain more.                                                          *)
LEMMA ShowsChain ==
  ASSUME NEW D, NEW t \in [D -> Seq(Entry)], NEW n \in Nat, n \in D,
         NEW s \in Seq(Entry), Shown(s, t, n)
  PROVE  Shown(s \o t[n], t, n + 1)
<1> DEFINE R == Rows(t, 0 .. n - 1)
           val(e) == t[e[1]][e[2]]
<1>1. t[n] \in Seq(Entry) /\ Len(t[n]) \in Nat /\ DOMAIN t[n] = 1 .. Len(t[n])
  OBVIOUS
<1>2. n + 1 - 1 = n
  OBVIOUS
<1>3. /\ Rows(t, 0 .. n) = R \cup Part(t, n) /\ IsFiniteSet(Rows(t, 0 .. n))
      /\ Cardinality(Rows(t, 0 .. n)) = Cardinality(R) + Len(t[n])
  BY <1>1, RowsNext DEF Shown
<1>4. Len(s \o t[n]) = Len(s) + Len(t[n]) /\ ToSet(s \o t[n]) = ToSet(s) \cup ToSet(t[n])
  BY <1>1, ConcatFacts
<1>5. ToSet(t[n]) = {val(e) : e \in Part(t, n)}
  <2>1. ToSet(t[n]) = {t[n][i] : i \in 1 .. Len(t[n])}
    BY <1>1 DEF ToSet
  <2>2. \A i \in 1 .. Len(t[n]) : <<n, i>> \in Part(t, n) /\ val(<<n, i>>) = t[n][i]
    BY DEF Part
  <2>3. \A e \in Part(t, n) : e[2] \in 1 .. Len(t[n]) /\ val(e) = t[n][e[2]]
    BY DEF Part
  <2> HIDE DEF val
  <2>4. ASSUME NEW x \in ToSet(t[n]) PROVE x \in {val(e) : e \in Part(t, n)}
    <3>1. PICK i \in 1 .. Len(t[n]) : x = t[n][i]
      BY <2>1
    <3>2. <<n, i>> \in Part(t, n) /\ val(<<n, i>>) = x
      BY <2>2, <3>1
    <3> QED
      BY <3>2
  <2>5. ASSUME NEW e \in Part(t, n) PROVE val(e) \in ToSet(t[n])
    <3>1. e[2] \in 1 .. Len(t[n]) /\ val(e) = t[n][e[2]]
      BY <2>3
    <3> QED
      BY <2>1, <3>1
  <2> QED
    BY <2>4, <2>5
<1> HIDE DEF R
<1>6. ToSet(s) = {val(e) : e \in R} /\ Len(s) = Cardinality(R)
  BY DEF Shown, R
<1>7. ToSet(s) \cup ToSet(t[n]) = {val(e) : e \in R \cup Part(t, n)}
  <2> HIDE DEF val
  <2> QED
    BY <1>5, <1>6
<1>8. ToSet(s \o t[n]) = {val(e) : e \in Rows(t, 0 .. n)}
  <2> HIDE DEF val
  <2> QED
    BY <1>3, <1>4, <1>7
<1>9. Len(s \o t[n]) = Cardinality(Rows(t, 0 .. n))
  BY <1>3, <1>4, <1>6
<1>10. Rows(t, 0 .. n + 1 - 1) = Rows(t, 0 .. n)
  BY <1>2
<1> QED
  BY <1>3, <1>8, <1>9, <1>10 DEF Shown

(* Each word of the first n characters on one line, with its count.         *)
Listed(s, array, n) ==
  /\ Len(s) = Cardinality(SeenWords(array, n))
  /\ ToSet(s) = {[key |-> w, count |-> SeenCount(array, n, w)] : w \in SeenWords(array, n)}

(* When all places are printed, all words are.                              *)
LEMMA AllListed ==
  ASSUME NEW size \in Nat, NEW t \in [0 .. size - 1 -> Seq(Entry)],
         NEW s, Shown(s, t, size), NEW array, NEW n, Clean(t, size, array, n)
  PROVE  Listed(s, array, n)
<1> DEFINE D == 0 .. size - 1
           val(e) == t[e[1]][e[2]]
           line(w) == [key |-> w, count |-> SeenCount(array, n, w)]
<1>1. DOMAIN t = D
  OBVIOUS
<1>2. Rows(t, D) = Entries(t)
  BY <1>1 DEF Rows, Entries
<1>3. ASSUME NEW e \in Entries(t) PROVE \E w \in SeenWords(array, n) : val(e) = line(w)
  <2>1. PICK p \in D : \E i \in 1 .. Len(t[p]) : e = <<p, i>>
    BY <1>1, InEntries
  <2>2. PICK i \in 1 .. Len(t[p]) : e = <<p, i>>
    BY <2>1
  <2>3. t[p][i].key \in SeenWords(array, n) /\ t[p][i].count = SeenCount(array, n, t[p][i].key)
    BY <1>1 DEF Clean
  <2>4. t[p] \in Seq(Entry) /\ t[p][i] \in Entry
    OBVIOUS
  <2>5. t[p][i] = line(t[p][i].key)
    BY <2>3, <2>4 DEF Entry
  <2>6. val(e) = t[p][i]
    BY <2>2
  <2> QED
    BY <2>3, <2>5, <2>6
<1>4. ASSUME NEW w \in SeenWords(array, n) PROVE \E e \in Entries(t) : val(e) = line(w)
  <2> DEFINE p == Hash(w, size)
  <2>1. p \in D /\ \E i \in 1 .. Len(t[p]) : t[p][i].key = w
    BY <1>1 DEF Clean
  <2> HIDE DEF p
  <2>2. PICK i \in 1 .. Len(t[p]) : t[p][i].key = w
    BY <2>1
  <2>3. t[p][i].count = SeenCount(array, n, w)
    BY <1>1, <2>1, <2>2 DEF Clean
  <2>4. t[p] \in Seq(Entry) /\ t[p][i] \in Entry
    BY <2>1
  <2>5. t[p][i] = line(w)
    BY <2>2, <2>3, <2>4 DEF Entry
  <2>6. <<p, i>> \in Entries(t)
    BY <1>1, <2>1, InEntries
  <2>7. val(<<p, i>>) = t[p][i]
    OBVIOUS
  <2> QED
    BY <2>5, <2>6, <2>7
<1>5. ToSet(s) = {val(e) : e \in Entries(t)}
  BY <1>2 DEF Shown
<1>6. Len(s) = Cardinality(Entries(t))
  BY <1>2 DEF Shown
<1>7. ToSet(s) = {line(w) : w \in SeenWords(array, n)}
  <2> HIDE DEF val, line
  <2> QED
    BY <1>3, <1>4, <1>5
<1>8. Cardinality(Entries(t)) = Cardinality(SeenWords(array, n))
  BY DEF Clean
<1> QED
  BY <1>6, <1>7, <1>8 DEF Listed

(* No two lines that are printed have the same key.                         *)
NoKeyTwice(s) == Cardinality({line.key : line \in ToSet(s)}) = Len(s)

(* Keys in one chain are different, and keys in two have different hashes.  *)
LEMMA KeysApart ==
  ASSUME NEW size \in Nat, NEW t \in [0 .. size - 1 -> Seq(Entry)],
         NEW s, Shown(s, t, size), Chained(t, size)
  PROVE  NoKeyTwice(s)
<1> DEFINE E == Entries(t)
           K == {line.key : line \in ToSet(s)}
           f == [e \in E |-> t[e[1]][e[2]].key]
<1>1. DOMAIN t = 0 .. size - 1
  OBVIOUS
<1>2. Rows(t, 0 .. size - 1) = E
  BY <1>1 DEF Rows, Entries
<1>3. IsFiniteSet(E) /\ Len(s) = Cardinality(E)
  BY <1>2 DEF Shown
<1>4. K = {t[e[1]][e[2]].key : e \in E}
  <2>1. ToSet(s) = {t[e[1]][e[2]] : e \in E}
    BY <1>2 DEF Shown
  <2> HIDE DEF E
  <2> QED
    BY <2>1
<1>5. ASSUME NEW d \in E, NEW e \in E, t[d[1]][d[2]].key = t[e[1]][e[2]].key PROVE d = e
  <2>1. PICK p \in DOMAIN t : \E i \in 1 .. Len(t[p]) : d = <<p, i>>
    BY InEntries
  <2>2. PICK i \in 1 .. Len(t[p]) : d = <<p, i>>
    BY <2>1
  <2>3. PICK q \in DOMAIN t : \E j \in 1 .. Len(t[q]) : e = <<q, j>>
    BY InEntries
  <2>4. PICK j \in 1 .. Len(t[q]) : e = <<q, j>>
    BY <2>3
  <2>5. t[p][i].key = t[q][j].key
    BY <1>5, <2>2, <2>4
  <2>6. p = q
    BY <2>5 DEF Chained
  <2>7. i = j
    BY <2>5, <2>6 DEF Chained
  <2> QED
    BY <2>2, <2>4, <2>6, <2>7
<1> HIDE DEF E, K
<1>6. f \in Bijection(E, K)
  <2>1. f \in [E -> K]
    BY <1>4
  <2>2. \A k \in K : \E e \in E : f[e] = k
    BY <1>4
  <2>3. \A d, e \in E : f[d] = f[e] => d = e
    BY <1>5
  <2> HIDE DEF f
  <2> QED
    BY <2>1, <2>2, <2>3 DEF Bijection, Injection, Surjection, IsInjective
<1>7. Cardinality(K) = Cardinality(E)
  BY <1>3, <1>6, FS_Bijection DEF ExistsBijection
<1> QED
  BY <1>3, <1>7 DEF NoKeyTwice, K

-----------------------------------------------------------------------------
(* The inductive invariant.                                                *)

(* The types of the variables.                                              *)
Typed ==
  /\ text \in Seq(Chars) /\ pc \in {"init", "output", "destroy", "done"}
  /\ index \in 0 .. Len(text) /\ counter \in Nat /\ head_of_word \in Nat
  /\ items \in [Place -> Seq(Entry)] /\ element_count \in Nat /\ place \in 0 .. Size
  /\ printed \in Seq(Entry) /\ dirty \in BOOLEAN
  /\ heap \in [item : Int, key : Int, next : Int, buffer : Int, table : Int]

(* Between head_of_word and index there is a word that has not ended.       *)
Scanned ==
  /\ counter > 0 => /\ head_of_word + counter = index
                    /\ \A k \in head_of_word + 1 .. index : text[k] \notin Spaces
                    /\ head_of_word > 0 => text[head_of_word] \in Spaces
  /\ counter = 0 /\ index > 0 => text[index] \in Spaces
  /\ pc # "init" => index = Len(text)

(* The table holds what the scan has seen.                                  *)
Filled ==
  /\ element_count = Cardinality(Seen(text, index))
  /\ pc \in {"init", "output"} =>
       /\ IsFiniteSet(Counted(items)) /\ Cardinality(Counted(items)) = element_count
       /\ Chained(items, Size)
       /\ ~dirty => Clean(items, Size, text, index)

(* What is allocated: a key and a next for each entry that there ever was.  *)
Allocated ==
  /\ IsFiniteSet(Entries(items)) /\ heap.item = Cardinality(Entries(items))
  /\ heap.key = heap.next /\ heap.buffer = element_count
  /\ heap.table = IF pc = "done" THEN 0 ELSE 1
  /\ pc \in {"init", "output"} => heap.key = heap.item
  /\ pc = "destroy" => \A p \in 0 .. place - 1 : items[p] = <<>>
  /\ pc = "done" => heap.item = 0

(* What is printed: the chains in front of place; in the end, the words.    *)
Reported ==
  /\ pc = "init" => printed = <<>> /\ place = 0
  /\ pc = "output" => Shown(printed, items, place)
  /\ pc \in {"destroy", "done"} =>
       /\ Len(printed) = heap.key /\ NoKeyTwice(printed)
       /\ ~dirty => Listed(printed, text, Len(text))

IInv == Typed /\ Scanned /\ Filled /\ Allocated /\ Reported

(* A table without entries.                                                 *)
LEMMA EmptyTable ==
  ASSUME NEW t, \A p \in DOMAIN t : Len(t[p]) = 0
  PROVE  Entries(t) = {} /\ Counted(t) = {}
<1>1. \A e : e \notin Entries(t)
  BY InEntries
<1>2. \A c : c \notin Counted(t)
  BY InCounted
<1> QED
  BY <1>1, <1>2

(* It holds at the start.                                                   *)
LEMMA InitInv == Init => IInv
<1> SUFFICES ASSUME Init PROVE IInv
  OBVIOUS
<1>1. text \in Seq(Chars) /\ Len(text) \in Nat
  <2>1. PICK n \in 0 .. MaxText : text \in [1 .. n -> Chars]
    BY DEF Init, Chars
  <2> QED
    BY <2>1, CharactersAssumption
<1>2. Size \in Nat
  BY <1>1 DEF Size
<1>3. items \in [Place -> Seq(Entry)] /\ \A p \in DOMAIN items : Len(items[p]) = 0
  BY DEF Init, Place
<1>4. Entries(items) = {} /\ Counted(items) = {}
  BY <1>3, EmptyTable
<1>5. IsFiniteSet({}) /\ Cardinality({}) = 0
  BY FS_EmptySet
<1>6. Seen(text, 0) = {}
  BY DEF Seen
<1>7. SeenWords(text, 0) = {}
  BY <1>6 DEF SeenWords, Words
<1>8. Typed
  <2>1. index \in 0 .. Len(text) /\ place \in 0 .. Size
    BY <1>1, <1>2 DEF Init
  <2>2. heap \in [item : Int, key : Int, next : Int, buffer : Int, table : Int]
    BY DEF Init
  <2>3. counter \in Nat /\ head_of_word \in Nat /\ element_count \in Nat
    BY DEF Init
  <2>4. pc = "init" /\ dirty \in BOOLEAN
    BY DEF Init
  <2>5. printed \in Seq(Entry)
    <3>1. printed = <<>>
      BY DEF Init
    <3> QED
      BY <3>1
  <2> QED
    BY <1>1, <1>3, <2>1, <2>2, <2>3, <2>4, <2>5 DEF Typed
<1>9. Scanned
  BY DEF Init, Scanned
<1>10. Chained(items, Size)
  BY <1>3 DEF Chained
<1>11. Clean(items, Size, text, 0)
  <2>1. \A p \in DOMAIN items : 1 .. Len(items[p]) = {}
    BY <1>3
  <2>2. Cardinality(Entries(items)) = Cardinality(SeenWords(text, 0))
    BY <1>4, <1>7
  <2> QED
    BY <1>7, <2>1, <2>2, Zenon DEF Clean
<1>12. Filled
  BY <1>4, <1>5, <1>6, <1>10, <1>11 DEF Init, Filled
<1>13. Allocated
  BY <1>4, <1>5 DEF Init, Allocated
<1>14. Reported
  BY DEF Init, Reported
<1> QED
  BY <1>8, <1>9, <1>12, <1>13, <1>14 DEF IInv

(* The word that has not ended.                                             *)
LEMMA WordFacts ==
  ASSUME Typed, Scanned, counter > 0
  PROVE  /\ Word \in Seq(Letters) /\ Word = SubSeq(text, head_of_word + 1, index)
         /\ head_of_word \in 0 .. index - 1 /\ index \in Nat
<1>1. /\ text \in Seq(Chars) /\ index \in 0 .. Len(text) /\ Len(text) \in Nat
      /\ counter \in Nat /\ head_of_word \in Nat
  BY DEF Typed
<1>2. /\ head_of_word + counter = index
      /\ \A k \in head_of_word + 1 .. index : text[k] \notin Spaces
  BY DEF Scanned
<1>3. Word = SubSeq(text, head_of_word + 1, index)
  BY <1>2 DEF Word
<1>4. head_of_word \in 0 .. index - 1 /\ index \in Nat
  BY <1>1, <1>2
<1>5. /\ Len(SubSeq(text, head_of_word + 1, index)) = index - head_of_word
      /\ SubSeq(text, head_of_word + 1, index) \in Seq(Chars)
      /\ \A i \in 1 .. index - head_of_word :
           SubSeq(text, head_of_word + 1, index)[i] = text[head_of_word + i]
  BY <1>1, <1>4
<1>6. \A k \in head_of_word + 1 .. index : text[k] \in Letters
  BY <1>1, <1>2, <1>4, TypesOfChars
<1>7. SubSeq(text, head_of_word + 1, index) \in Seq(Letters)
  BY <1>1, <1>4, <1>5, <1>6
<1> QED
  BY <1>3, <1>4, <1>7

(* White space after a word, in a table that the code has found the word in *)
(* or not.                                                                  *)
LEMMA WordEndsInv == IInv /\ WordEnds => IInv'
<1> SUFFICES ASSUME IInv, WordEnds PROVE IInv'
  OBVIOUS
<1> USE DEF IInv
<1>1. PICK tail \in Tails :
        LET key == Word \o tail
            insertID == Hash(key, Size)
            chain == items[insertID]
            found == Found(chain, key)
        IN /\ dirty' = (dirty \/ tail # <<>>)
           /\ items' = [items EXCEPT ![insertID] =
                IF found > 0 THEN [chain EXCEPT ![found].count = @ + 1]
                             ELSE Append(chain, NewItem(key))]
           /\ LET buffered == [heap EXCEPT !.buffer = @ + 1]
              IN heap' = IF found > 0 THEN buffered ELSE Created(buffered)
  BY DEF WordEnds
<1> DEFINE key == Word \o tail
           q == Hash(key, Size)
           found == Found(items[q], key)
           n == index
<1>2. /\ pc = "init" /\ index < Len(text) /\ text[index + 1] \in Spaces /\ counter > 0
      /\ pc' = pc /\ text' = text /\ head_of_word' = head_of_word /\ place' = place
      /\ printed' = printed /\ index' = n + 1 /\ counter' = 0
      /\ element_count' = element_count + 1
  BY DEF WordEnds, Scans, AtSpace
<1>3. /\ Word \in Seq(Letters) /\ Word = SubSeq(text, head_of_word + 1, n)
      /\ head_of_word \in 0 .. n - 1 /\ n \in Nat
  BY <1>2, WordFacts
<1>4. key \in Seq(Letters)
  BY <1>3, TypesOfChars
<1>5. Len(text) \in Nat \ {0} /\ Size \in Nat \ {0} /\ Size' = Size /\ Place' = Place
  <2>1. Len(text) \in Nat \ {0}
    BY <1>2 DEF Typed
  <2> QED
    BY <1>2, <2>1 DEF Size, Place
<1>6. q \in Place
  BY <1>4, <1>5, HashInTable DEF Place
<1> HIDE DEF key, q
<1>7. items \in [Place -> Seq(Entry)] /\ items[q] \in Seq(Entry) /\ DOMAIN items = Place
  BY <1>6 DEF Typed
<1>8. /\ found > 0 => found \in 1 .. Len(items[q]) /\ items[q][found].key = key
      /\ ~ (found > 0) => \A i \in 1 .. Len(items[q]) : items[q][i].key # key
  BY <1>7, FoundFacts
<1> HIDE DEF found
<1>9. /\ dirty' = (dirty \/ tail # <<>>)
      /\ items' = [items EXCEPT ![q] = IF found > 0 THEN [items[q] EXCEPT ![found].count = @ + 1]
                                       ELSE Append(items[q], NewItem(key))]
      /\ LET buffered == [heap EXCEPT !.buffer = @ + 1]
         IN heap' = IF found > 0 THEN buffered ELSE Created(buffered)
  BY <1>1 DEF key, q, found
<1>10. /\ Cardinality(Seen(text, n + 1)) = Cardinality(Seen(text, n)) + 1
       /\ SeenWords(text, n + 1) = SeenWords(text, n) \cup {Word}
       /\ SeenCount(text, n + 1, Word) = SeenCount(text, n, Word) + 1
       /\ \A k : k # Word => SeenCount(text, n + 1, k) = SeenCount(text, n, k)
       /\ Word \notin SeenWords(text, n) => SeenCount(text, n, Word) = 0
  <2>1. (\A k \in head_of_word + 1 .. n : text[k] \notin Spaces)
        /\ (head_of_word > 0 => text[head_of_word] \in Spaces)
    BY <1>2 DEF Scanned
  <2>2. Starts(text, n, head_of_word, Word)
    BY <1>2, <1>3, <2>1 DEF Starts
  <2> QED
    BY <2>2, WordSeen
<1>11. ~ dirty' => ~ dirty /\ key = Word
  <2>1. tail = <<>> => key = Word
    BY <1>3 DEF key
  <2> QED
    BY <1>9, <2>1
<1>12. dirty' \in BOOLEAN
  BY <1>9
<1>13. /\ IsFiniteSet(Entries(items)) /\ IsFiniteSet(Counted(items))
       /\ Chained(items, Size) /\ Cardinality(Counted(items)) = element_count
       /\ ~ dirty => Clean(items, Size, text, n)
       /\ IsFiniteSet(SeenWords(text, n))
       /\ Cardinality(Entries(items)) \in Nat /\ Cardinality(Counted(items)) \in Nat
  <2>1. IsFiniteSet(Entries(items)) /\ IsFiniteSet(Counted(items))
    BY <1>2 DEF Filled, Allocated
  <2>2. Cardinality(Entries(items)) \in Nat /\ Cardinality(Counted(items)) \in Nat
    BY <2>1, FS_CardinalityType
  <2> QED
    BY <1>2, <1>3, <2>1, <2>2, OccurrencesFinite DEF Filled
<1>14. /\ items' \in [Place -> Seq(Entry)]
       /\ IsFiniteSet(Entries(items')) /\ IsFiniteSet(Counted(items'))
       /\ Cardinality(Entries(items')) = IF found > 0 THEN Cardinality(Entries(items))
                                         ELSE Cardinality(Entries(items)) + 1
       /\ Cardinality(Counted(items')) = Cardinality(Counted(items)) + 1
       /\ Chained(items', Size)
       /\ ~ dirty' => Clean(items', Size, text, n + 1)
  <2>1. CASE found > 0
    <3>1. [items[q] EXCEPT ![found].count = @ + 1] \in Seq(Entry)
      <4>1. items[q][found] \in Entry
        BY <1>7, <1>8, <2>1
      <4>2. [items[q][found] EXCEPT !.count = @ + 1] \in Entry
        BY <4>1 DEF Entry
      <4> QED
        BY <1>7, <1>8, <2>1, <4>2
    <3>2. items' = [items EXCEPT ![q] = [items[q] EXCEPT ![found].count = @ + 1]]
      BY <1>9, <2>1
    <3>3. IsBumped(Place, items, q, found, items')
      BY <1>6, <1>7, <1>8, <2>1, <3>1, <3>2 DEF IsBumped
    <3>4. items' \in [Place -> Seq(Entry)]
      BY <3>3 DEF IsBumped
    <3>5. /\ Entries(items') = Entries(items) /\ IsFiniteSet(Counted(items'))
          /\ Cardinality(Counted(items')) = Cardinality(Counted(items)) + 1
      BY <1>13, <3>3, EntryCounted
    <3>6. Chained(items', Size)
      BY <1>13, <3>3, TableCounts
    <3>7. ~ dirty' => Clean(items', Size, text, n + 1)
      <4>1. ASSUME key = Word, ~ dirty PROVE Clean(items', Size, text, n + 1)
        BY <1>8, <1>10, <1>13, <2>1, <3>3, <4>1, TableCounts
      <4> QED
        BY <1>11, <4>1
    <3> QED
      BY <1>13, <2>1, <3>4, <3>5, <3>6, <3>7
  <2>2. CASE ~ (found > 0)
    <3> DEFINE x == NewItem(key)
    <3>1. x \in Entry /\ x.count = 1 /\ x.key = key
      BY <1>4 DEF NewItem, Entry
    <3> HIDE DEF x
    <3>2. items' = [items EXCEPT ![q] = Append(items[q], x)]
      BY <1>9, <2>2 DEF x
    <3>3. IsAdded(Place, items, q, x, items')
      BY <1>6, <1>7, <3>1, <3>2 DEF IsAdded
    <3>4. items' \in [Place -> Seq(Entry)]
      BY <3>3 DEF IsAdded
    <3>5. /\ IsFiniteSet(Entries(items')) /\ IsFiniteSet(Counted(items'))
          /\ Cardinality(Entries(items')) = Cardinality(Entries(items)) + 1
          /\ Cardinality(Counted(items')) = Cardinality(Counted(items)) + 1
      BY <1>13, <3>1, <3>3, EntryAdded
    <3>6. Hash(x.key, Size) = q /\ \A i \in 1 .. Len(items[q]) : items[q][i].key # x.key
      BY <1>8, <2>2, <3>1 DEF q
    <3>7. Chained(items', Size)
      BY <1>13, <3>1, <3>3, <3>6, TableGrows
    <3>8. ~ dirty' => Clean(items', Size, text, n + 1)
      <4>1. ASSUME key = Word, ~ dirty PROVE Clean(items', Size, text, n + 1)
        BY <1>10, <1>13, <3>1, <3>3, <3>6, <4>1, TableGrows, ZenonT(30)
      <4> QED
        BY <1>11, <4>1
    <3> QED
      BY <2>2, <3>4, <3>5, <3>7, <3>8
  <2> QED
    BY <2>1, <2>2
<1>15. /\ heap' \in [item : Int, key : Int, next : Int, buffer : Int, table : Int]
       /\ heap'.buffer = heap.buffer + 1 /\ heap'.table = heap.table
       /\ heap'.item = IF found > 0 THEN heap.item ELSE heap.item + 1
       /\ heap'.key = IF found > 0 THEN heap.key ELSE heap.key + 1
       /\ heap'.next = IF found > 0 THEN heap.next ELSE heap.next + 1
  <2>1. heap \in [item : Int, key : Int, next : Int, buffer : Int, table : Int]
    BY DEF Typed
  <2>2. CASE found > 0
    <3>1. heap' = [heap EXCEPT !.buffer = @ + 1]
      BY <1>9, <2>2
    <3> QED
      BY <2>1, <2>2, <3>1
  <2>3. CASE ~ (found > 0)
    <3>1. heap' = [item |-> heap.item + 1, key |-> heap.key + 1, next |-> heap.next + 1,
                   buffer |-> heap.buffer + 1, table |-> heap.table]
      BY <1>9, <2>1, <2>3 DEF Created
    <3> QED
      BY <2>1, <2>3, <3>1
  <2> QED
    BY <2>2, <2>3
<1>16. Typed'
  BY <1>2, <1>3, <1>5, <1>12, <1>14, <1>15, SMTT(30) DEF Typed
<1>17. Scanned'
  BY <1>2 DEF Scanned
<1>18. Filled'
  BY <1>2, <1>5, <1>10, <1>13, <1>14 DEF Filled
<1>19. Allocated'
  BY <1>2, <1>13, <1>14, <1>15 DEF Allocated
<1>20. Reported'
  BY <1>2 DEF Reported
<1> QED
  BY <1>16, <1>17, <1>18, <1>19, <1>20

(* A character that ends no word.                                           *)
LEMMA ScanInv == IInv /\ (SkipsSpace \/ WordBegins \/ WordGoesOn) => IInv'
<1> SUFFICES ASSUME IInv, SkipsSpace \/ WordBegins \/ WordGoesOn PROVE IInv'
  OBVIOUS
<1> USE DEF IInv
<1>1. /\ pc = "init" /\ index < Len(text) /\ index' = index + 1
      /\ UNCHANGED <<text, pc, table, place, printed>>
  BY DEF SkipsSpace, WordBegins, WordGoesOn, Scans
<1>2. /\ text \in Seq(Chars) /\ Len(text) \in Nat /\ index \in Nat /\ index + 1 \in 0 .. Len(text)
      /\ counter \in Nat /\ head_of_word \in Nat /\ text[index + 1] \in Chars
  BY <1>1 DEF Typed
<1>3. Size' = Size /\ Place' = Place
  BY <1>1 DEF Size, Place
<1>4. Seen(text, index + 1) = Seen(text, index)
  <2>1. text[index + 1] \notin Spaces \/ index = 0 \/ text[index] \in Spaces
    BY <1>2 DEF SkipsSpace, WordBegins, WordGoesOn, AtSpace, Scanned
  <2> QED
    BY <1>2, <2>1, NoWordEnds
<1>5. SeenWords(text, index + 1) = SeenWords(text, index)
      /\ \A k : SeenCount(text, index + 1, k) = SeenCount(text, index, k)
  BY <1>4 DEF SeenWords, Words, SeenCount, Count
<1>6. Typed'
  BY <1>1, <1>2, <1>3, SMTT(30) DEF Typed, table, SkipsSpace, WordBegins, WordGoesOn
<1>7. Scanned'
  <2>1. CASE SkipsSpace
    BY <1>1, <1>2, <2>1 DEF SkipsSpace, AtSpace, Scanned
  <2>2. CASE WordBegins
    <3>1. head_of_word' = index /\ counter' = 1 /\ text[index + 1] \notin Spaces
      BY <2>2 DEF WordBegins, AtSpace
    <3>2. counter = 0
      BY <2>2 DEF WordBegins
    <3>3. index > 0 => text[index] \in Spaces
      BY <3>2 DEF Scanned
    <3>4. \A k \in index + 1 .. index + 1 : k = index + 1
      BY <1>2
    <3> QED
      BY <1>1, <1>2, <3>1, <3>3, <3>4 DEF Scanned
  <2>3. CASE WordGoesOn
    <3>1. /\ head_of_word' = head_of_word /\ counter' = counter + 1 /\ counter > 0
          /\ text[index + 1] \notin Spaces
      BY <2>3 DEF WordGoesOn, AtSpace
    <3>2. \A k \in head_of_word + 1 .. index + 1 :
            k \in head_of_word + 1 .. index \/ k = index + 1
      BY <1>2
    <3> QED
      BY <1>1, <1>2, <3>1, <3>2 DEF Scanned
  <2> QED
    BY <2>1, <2>2, <2>3
<1>8. dirty => dirty'
  BY <1>1 DEF table
<1>9. Filled'
  <2>1. ~ dirty => Clean(items, Size, text, index + 1)
    <3>1. ~ dirty => Clean(items, Size, text, index)
      BY <1>1 DEF Filled
    <3> QED
      BY <1>5, <3>1 DEF Clean
  <2>2. /\ items' = items /\ element_count' = element_count /\ dirty' = dirty /\ text' = text
        /\ pc' = pc /\ index' = index + 1
    BY <1>1 DEF table
  <2> QED
    BY <1>3, <1>4, <2>1, <2>2 DEF Filled
<1>10. Allocated'
  BY <1>1 DEF table, Allocated
<1>11. Reported'
  BY <1>1 DEF table, Reported
<1> QED
  BY <1>6, <1>7, <1>9, <1>10, <1>11

(* wc_init returns, with the whole array behind it.                         *)
LEMMA InitReturnsInv == IInv /\ InitReturns => IInv'
<1> SUFFICES ASSUME IInv, InitReturns PROVE IInv'
  OBVIOUS
<1> USE DEF IInv, InitReturns, table
<1>1. Size' = Size /\ Place' = Place
  BY DEF Size, Place
<1>2. Typed'
  BY <1>1 DEF Typed
<1>3. Scanned'
  BY DEF Scanned
<1>4. Filled'
  BY <1>1 DEF Filled
<1>5. Allocated'
  BY DEF Allocated
<1>6. Reported'
  <2>1. 0 .. place - 1 = {} /\ printed = <<>> /\ items' = items
    BY DEF Reported
  <2>2. Rows(items, 0 .. place - 1) = {}
    BY <2>1 DEF Rows
  <2>3. Len(printed) = 0 /\ ToSet(printed) = {}
    BY <2>1 DEF ToSet
  <2>4. Shown(printed, items, place)
    BY <2>2, <2>3, FS_EmptySet DEF Shown
  <2> QED
    BY <2>4 DEF Reported
<1> QED
  BY <1>2, <1>3, <1>4, <1>5, <1>6

(* wc_output prints the chain of one place.                                 *)
LEMMA PrintsChainInv == IInv /\ PrintsChain => IInv'
<1> SUFFICES ASSUME IInv, PrintsChain PROVE IInv'
  OBVIOUS
<1> USE DEF IInv, table
<1>0. /\ pc = "output" /\ place < Size /\ printed' = printed \o items[place]
      /\ place' = place + 1
      /\ UNCHANGED <<text, pc, index, counter, head_of_word, table>>
  BY DEF PrintsChain, Output
<1>1. Size' = Size /\ Place' = Place
  BY <1>0 DEF Size, Place
<1>2. /\ place \in Nat /\ place \in Place /\ Size \in Nat /\ items \in [Place -> Seq(Entry)]
      /\ printed \in Seq(Entry)
  <2>1. Size \in Nat
    BY DEF Size, Typed
  <2> QED
    BY <1>0, <2>1 DEF Typed, Place
<1>3. items[place] \in Seq(Entry)
  BY <1>2
<1>4. Shown(printed \o items[place], items, place + 1)
  BY <1>0, <1>2, ShowsChain DEF Reported
<1>5. printed \o items[place] \in Seq(Entry)
  BY <1>2, <1>3
<1>6. Typed'
  BY <1>0, <1>1, <1>2, <1>5 DEF Typed
<1>7. Scanned'
  BY <1>0 DEF Scanned
<1>8. Filled'
  BY <1>0, <1>1 DEF Filled
<1>9. Allocated'
  BY <1>0 DEF Allocated
<1>10. Reported'
  BY <1>0, <1>4 DEF Reported
<1> QED
  BY <1>6, <1>7, <1>8, <1>9, <1>10

(* wc_output returns when all places are printed.                           *)
LEMMA OutputReturnsInv == IInv /\ OutputReturns => IInv'
<1> SUFFICES ASSUME IInv, OutputReturns PROVE IInv'
  OBVIOUS
<1> USE DEF IInv, OutputReturns, table
<1>1. Size' = Size /\ Place' = Place /\ Size \in Nat
  BY DEF Size, Place, Typed
<1>2. Typed'
  BY <1>1 DEF Typed
<1>3. Scanned'
  BY DEF Scanned
<1>4. Filled'
  BY <1>1 DEF Filled
<1>5. Allocated'
  BY DEF Allocated
<1>6. Shown(printed, items, Size) /\ index = Len(text)
  BY DEF Reported, Scanned
<1>7. items \in [0 .. Size - 1 -> Seq(Entry)]
  BY DEF Typed, Place
<1>8. ~ dirty => Listed(printed, text, Len(text))
  <2>1. ASSUME ~ dirty PROVE Clean(items, Size, text, Len(text))
    BY <1>6, <2>1 DEF Filled
  <2> QED
    BY <1>1, <1>6, <1>7, <2>1, AllListed
<1>9. Len(printed) = heap.key
  <2>1. DOMAIN items = 0 .. Size - 1
    BY <1>7
  <2>2. Rows(items, 0 .. Size - 1) = Entries(items)
    BY <2>1 DEF Rows, Entries
  <2> QED
    BY <1>6, <2>2 DEF Shown, Allocated
<1>10. NoKeyTwice(printed)
  BY <1>1, <1>6, <1>7, KeysApart DEF Filled
<1>11. Reported'
  BY <1>8, <1>9, <1>10 DEF Reported, NoKeyTwice
<1> QED
  BY <1>2, <1>3, <1>4, <1>5, <1>11

(* wc_destroy frees the chain of one place.                                 *)
LEMMA FreesChainInv == IInv /\ FreesChain => IInv'
<1> SUFFICES ASSUME IInv, FreesChain PROVE IInv'
  OBVIOUS
<1> USE DEF IInv
<1>0. /\ pc = "destroy" /\ place < Size /\ place' = place + 1
      /\ heap' = [heap EXCEPT !.item = @ - Len(items[place])]
      /\ items' = [items EXCEPT ![place] = <<>>]
      /\ UNCHANGED <<text, pc, index, counter, head_of_word, element_count, printed, dirty>>
  BY DEF FreesChain, Freed
<1>1. Size' = Size /\ Place' = Place
  BY <1>0 DEF Size, Place
<1>2. place \in Nat /\ place \in Place /\ Size \in Nat /\ items \in [Place -> Seq(Entry)]
  <2>1. Size \in Nat
    BY DEF Size, Typed
  <2> QED
    BY <1>0, <2>1, SMTT(30) DEF Typed, Place
<1>3. /\ items' \in [Place -> Seq(Entry)] /\ items'[place] = <<>>
      /\ \A p \in Place : p # place => items'[p] = items[p]
  BY <1>0, <1>2
<1>4. /\ IsFiniteSet(Entries(items'))
      /\ Cardinality(Entries(items')) = Cardinality(Entries(items)) - Len(items[place])
  <2>1. IsFreed(Place, items, place, items')
    BY <1>2, <1>3 DEF IsFreed
  <2>2. IsFiniteSet(Entries(items))
    BY DEF Allocated
  <2> QED
    BY <2>1, <2>2, ChainFreed
<1>5. /\ heap' \in [item : Int, key : Int, next : Int, buffer : Int, table : Int]
      /\ heap'.item = heap.item - Len(items[place]) /\ heap'.key = heap.key
      /\ heap'.next = heap.next /\ heap'.buffer = heap.buffer /\ heap'.table = heap.table
  <2>1. heap \in [item : Int, key : Int, next : Int, buffer : Int, table : Int]
    BY DEF Typed
  <2>2. items[place] \in Seq(Entry) /\ Len(items[place]) \in Int
    BY <1>2
  <2>3. heap' = [heap EXCEPT !.item = @ - Len(items[place])]
    BY <1>0
  <2> QED
    BY <2>1, <2>2, <2>3
<1>6. Typed'
  <2>1. place + 1 \in 0 .. Size
    BY <1>0, <1>2
  <2> QED
    BY <1>0, <1>1, <1>3, <1>5, <2>1 DEF Typed
<1>7. Scanned'
  BY <1>0 DEF Scanned
<1>8. Filled'
  BY <1>0 DEF Filled
<1>9. Allocated'
  <2>1. \A p \in 0 .. place : items'[p] = <<>>
    BY <1>0, <1>2, <1>3 DEF Allocated, Place
  <2>3. \A p \in 0 .. place' - 1 : items'[p] = <<>>
    <3>1. place' - 1 = place
      BY <1>0, <1>2
    <3> QED
      BY <2>1, <3>1
  <2>4. /\ heap.item = Cardinality(Entries(items)) /\ heap.key = heap.next
        /\ heap.buffer = element_count /\ heap.table = 1
    BY <1>0 DEF Allocated
  <2>5. heap'.item = Cardinality(Entries(items'))
    BY <1>4, <1>5, <2>4
  <2> QED
    BY <1>0, <1>4, <1>5, <2>3, <2>4, <2>5 DEF Allocated
<1>10. Reported'
  BY <1>0, <1>5 DEF Reported
<1> QED
  BY <1>6, <1>7, <1>8, <1>9, <1>10

(* wc_destroy returns when all chains are freed.                            *)
LEMMA DestroyReturnsInv == IInv /\ DestroyReturns => IInv'
<1> SUFFICES ASSUME IInv, DestroyReturns PROVE IInv'
  OBVIOUS
<1> USE DEF IInv
<1>0. /\ pc = "destroy" /\ place = Size /\ pc' = "done" /\ heap' = [heap EXCEPT !.table = 0]
      /\ UNCHANGED <<text, index, counter, head_of_word, items, element_count, place,
                     printed, dirty>>
  BY DEF DestroyReturns
<1>1. Size' = Size /\ Place' = Place
  BY <1>0 DEF Size, Place
<1>2. /\ heap' \in [item : Int, key : Int, next : Int, buffer : Int, table : Int]
      /\ heap'.item = heap.item /\ heap'.key = heap.key
      /\ heap'.next = heap.next /\ heap'.buffer = heap.buffer /\ heap'.table = 0
  <2>1. heap \in [item : Int, key : Int, next : Int, buffer : Int, table : Int]
    BY DEF Typed
  <2> QED
    BY <1>0, <2>1
<1>3. Typed'
  BY <1>0, <1>1, <1>2 DEF Typed
<1>4. Scanned'
  BY <1>0 DEF Scanned
<1>5. Filled'
  BY <1>0 DEF Filled
<1>6. heap.item = 0
  <2>1. DOMAIN items = 0 .. Size - 1
    BY DEF Typed, Place
  <2>2. \A p \in DOMAIN items : Len(items[p]) = 0
    BY <1>0, <2>1 DEF Allocated
  <2>3. Entries(items) = {}
    BY <2>2, EmptyTable
  <2> QED
    BY <2>3, FS_EmptySet DEF Allocated
<1>7. Allocated'
  BY <1>0, <1>2, <1>6 DEF Allocated
<1>8. Reported'
  BY <1>0, <1>2 DEF Reported
<1> QED
  BY <1>3, <1>4, <1>5, <1>7, <1>8

(* Each step keeps it.                                                      *)
LEMMA NextInv == IInv /\ [Next]_vars => IInv'
<1> SUFFICES ASSUME IInv, [Next]_vars PROVE IInv'
  OBVIOUS
<1>1. CASE UNCHANGED vars
  BY <1>1 DEF vars, IInv, Typed, Scanned, Filled, Allocated, Reported, Size, Place
<1> QED
  BY <1>1, WordEndsInv, ScanInv, InitReturnsInv, PrintsChainInv, OutputReturnsInv,
     FreesChainInv, DestroyReturnsInv
  DEF Next

-----------------------------------------------------------------------------
(* The theorems.                                                           *)

(* The inductive invariant of wc_init, wc_output and wc_destroy.            *)
THEOREM Invariance == Spec => []IInv
<1>1. QED
  BY InitInv, NextInv, PTL DEF Spec

(* The table of wc_init has each word that has ended so far once, with the  *)
(* number of times it has been seen, where its hash leads: for each array,  *)
(* also when all words share a chain, as long as no buffer has a tail; and  *)
(* with tails, each such word is counted once and no key has two entries.   *)
THEOREM CountsAreExact == Spec => []CountsExact
<1>1. IInv => CountsExact
  <2> SUFFICES ASSUME IInv, pc = "init" PROVE CountsExact
    BY DEF CountsExact
  <2>0. Ended(text, index) = Seen(text, index)
    BY SeenIsEnded DEF IInv, Typed
  <2>1. /\ element_count = Cardinality(Ended(text, index))
        /\ element_count = Cardinality(Counted(items))
    BY <2>0 DEF IInv, Filled
  <2>2. DOMAIN items = 0 .. Size - 1 /\ items \in [0 .. Size - 1 -> Seq(Entry)]
    BY DEF IInv, Typed, Place
  <2>3. \A p \in 0 .. Size - 1 : \A i \in 1 .. Len(items[p]) :
          /\ Hash(items[p][i].key, Size) = p
          /\ \A j \in 1 .. Len(items[p]) : items[p][j].key = items[p][i].key => j = i
    BY <2>2 DEF IInv, Filled, Chained
  <2>4. ASSUME ~ dirty, NEW w \in SeenWords(text, index)
        PROVE  \E i \in 1 .. Len(items[Hash(w, Size)]) :
                 items[Hash(w, Size)][i] = [key |-> w, count |-> SeenCount(text, index, w)]
    <3> DEFINE q == Hash(w, Size)
    <3>1. Clean(items, Size, text, index)
      BY <2>4 DEF IInv, Filled
    <3>2. q \in 0 .. Size - 1 /\ \E i \in 1 .. Len(items[q]) : items[q][i].key = w
      BY <2>2, <3>1 DEF Clean
    <3> HIDE DEF q
    <3>3. PICK i \in 1 .. Len(items[q]) : items[q][i].key = w
      BY <3>2
    <3>4. items[q][i].count = SeenCount(text, index, w)
      BY <2>2, <3>1, <3>2, <3>3 DEF Clean
    <3>5. items[q] \in Seq(Entry) /\ items[q][i] \in Entry
      BY <2>2, <3>2
    <3>6. items[q][i] = [key |-> w, count |-> SeenCount(text, index, w)]
      BY <3>3, <3>4, <3>5 DEF Entry
    <3> QED
      BY <3>6 DEF q
  <2>5. ~ dirty => \A w \in Words(text, Ended(text, index)) :
          \E i \in 1 .. Len(items[Hash(w, Size)]) :
            items[Hash(w, Size)][i]
              = [key |-> w, count |-> Count(text, Ended(text, index), w)]
    BY <2>0, <2>4 DEF SeenWords, SeenCount
  <2> QED
    BY <2>1, <2>3, <2>5 DEF CountsExact
<1> QED
  BY <1>1, Invariance, PTL

(* No key is on two lines of the output, whatever was in the buffers; and   *)
(* of an array that ends in white space the output is each word once, with  *)
(* its count, and nothing else, as long as no buffer has a tail.            *)
THEOREM EachWordOnce == Spec => []PrintedOnce
<1>1. IInv => PrintedOnce
  <2> SUFFICES ASSUME IInv, pc = "done" PROVE PrintedOnce
    BY DEF PrintedOnce
  <2>1. Cardinality({line.key : line \in ToSet(printed)}) = Len(printed)
    BY DEF IInv, Reported, NoKeyTwice
  <2>2. ASSUME Closed(text), ~ dirty PROVE ToSet(printed) = Report(text)
    <3>1. Occurrences(text) = Seen(text, Len(text))
      BY <2>2, SeenIsEnded DEF IInv, Typed
    <3>2. Report(text) = {[key |-> w, count |-> SeenCount(text, Len(text), w)] :
                            w \in SeenWords(text, Len(text))}
      BY <3>1 DEF Report, SeenWords, SeenCount
    <3> QED
      BY <2>2, <3>2 DEF IInv, Reported, Listed
  <2> QED
    BY <2>1, <2>2 DEF PrintedOnce
<1> QED
  BY <1>1, Invariance, PTL

(* wc_destroy frees each item once, after its chain was read, and the table *)
(* in the end, for each array.                                              *)
THEOREM EachItemFreed == Spec => []ItemsFreed
<1>1. IInv => ItemsFreed
  BY DEF IInv, Allocated, ItemsFreed
<1> QED
  BY <1>1, Invariance, PTL

=============================================================================
