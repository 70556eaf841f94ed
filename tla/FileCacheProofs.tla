---------------------------- MODULE FileCacheProofs ----------------------------
(***************************************************************************)
(* What holds of the file cache for every set of workers and names, every  *)
(* file size, every limit and every way to spread names over the chains:   *)
(* its types, that no file is cached twice or in a wrong chain, that       *)
(* occupied_cache is what the cached files add up to and never more than   *)
(* the limit, and that a file which is in the cache when a request comes   *)
(* is what the request is answered with.                                   *)
(*                                                                         *)
(* The last one says nothing of the time between the request and the       *)
(* answer.  What keeps it is that the entry stays where cache_lookup finds *)
(* it, although others are put in front of it (Promised), and that a       *)
(* worker to whom it was promised does not read the file.                  *)
(***************************************************************************)
EXTENDS FileCache, SequencesExt, FiniteSetsExt, Functions, FiniteSetTheorems,
        WellFoundedInduction, TLAPS

-----------------------------------------------------------------------------
(* Sums over a finite set, MapThenSumSet and SumFunction of the community  *)
(* modules: what the sum is for no element and for one more.  Both are     *)
(* defined by a function on the subsets of the set that takes out one      *)
(* element after the other in an order nobody knows.  That there is such a *)
(* function, and that the order does not matter, is shown by induction     *)
(* over subsets; the induction itself is the choice of a smallest          *)
(* counterexample.                                                         *)

(* Every set of natural numbers has a least one.                            *)
LEMMA LeastOf ==
  ASSUME NEW T, T \subseteq Nat, T # {}
  PROVE  \E m \in T : \A k \in T : m <= k
<1>1. PICK m \in T : \A k \in T : ~ (<<k, m>> \in OpToRel(<, Nat))
  BY WFMin, NatLessThanWellFounded
<1>2. \A k \in T : ~ (k < m)
  BY <1>1 DEF OpToRel
<1> QED
  BY <1>2

(* What holds of a subset of a finite set when it holds of all that have    *)
(* one element less holds of every subset.                                  *)
LEMMA SubsetInduction ==
  ASSUME NEW S, IsFiniteSet(S), NEW Good,
         \A s \in SUBSET S : (\A x \in s : s \ {x} \in Good) => s \in Good
  PROVE  \A s \in SUBSET S : s \in Good
<1> DEFINE Bad == {s \in SUBSET S : s \notin Good}
           T == {Cardinality(s) : s \in Bad}
<1> SUFFICES ASSUME Bad # {} PROVE FALSE
  OBVIOUS
<1>1. \A s \in SUBSET S : IsFiniteSet(s) /\ Cardinality(s) \in Nat
  BY FS_Subset, FS_CardinalityType
<1>2. T \subseteq Nat /\ T # {}
  BY <1>1
<1>3. PICK m \in T : \A k \in T : m <= k
  BY <1>2, LeastOf
<1>4. PICK s \in Bad : Cardinality(s) = m
  BY <1>3
<1>5. ASSUME NEW x \in s
      PROVE  s \ {x} \in Good
  <2>1. Cardinality(s \ {x}) = Cardinality(s) - 1
    BY <1>1, FS_RemoveElement
  <2>2. m \in Nat /\ Cardinality(s \ {x}) = m - 1
    BY <1>2, <1>4, <2>1
  <2>3. ~ (m <= Cardinality(s \ {x}))
    BY <2>2
  <2>4. Cardinality(s \ {x}) \notin T
    BY <1>3, <2>3
  <2>5. s \ {x} \notin Bad
    BY <2>4
  <2>6. s \ {x} \in SUBSET S
    OBVIOUS
  <2> QED
    BY <2>5, <2>6
<1> QED
  BY <1>5

-----------------------------------------------------------------------------
(* The function behind the sum.                                            *)

Pick(s) == CHOOSE x \in s : TRUE

(* it takes the elements of the subsets of S out one by one.                *)
Sums(it, g, S) ==
  it = [s \in SUBSET S |-> IF s = {} THEN 0 ELSE g[Pick(s)] + it[s \ {Pick(s)}]]

Iter(g, S) == CHOOSE it : Sums(it, g, S)

(* What is picked from a set is in it.                                       *)
LEMMA PickIn == ASSUME NEW s, s # {} PROVE Pick(s) \in s
  BY DEF Pick

(* There is such a function, by induction over the size of the subsets.     *)
LEMMA SumsExist ==
  ASSUME NEW S, IsFiniteSet(S), NEW g
  PROVE  \E it : Sums(it, g, S)
<1> DEFINE Small(n) == {s \in SUBSET S : Cardinality(s) <= n}
           Upto(it, n) == it = [s \in Small(n) |-> IF s = {} THEN 0
                                                    ELSE g[Pick(s)] + it[s \ {Pick(s)}]]
           T == {n \in Nat : ~ \E it : Upto(it, n)}
<1>1. \A s \in SUBSET S : IsFiniteSet(s) /\ Cardinality(s) \in Nat
  BY FS_Subset, FS_CardinalityType
<1>2. ASSUME T # {} PROVE FALSE
  <2>1. PICK n \in T : \A k \in T : n <= k
    BY <1>2, LeastOf
  <2>2. CASE n = 0
    <3>1. Small(0) = {{}}
      BY <1>1, FS_EmptySet
    <3>2. Upto([s \in Small(0) |-> 0], 0)
      BY <3>1
    <3> QED
      BY <2>1, <2>2, <3>2
  <2>3. CASE n # 0
    <3>1. n \in Nat /\ n - 1 \in Nat /\ ~ (n <= n - 1)
      BY <2>1, <2>3
    <3>2. PICK it : Upto(it, n - 1)
      <4>1. n - 1 \notin T
        BY <2>1, <3>1
      <4> QED
        BY <3>1, <4>1
    <3> DEFINE more == [s \in Small(n) |-> IF s = {} THEN 0
                                            ELSE g[Pick(s)] + it[s \ {Pick(s)}]]
    <3>3. ASSUME NEW s \in Small(n), s # {}
          PROVE  s \ {Pick(s)} \in Small(n - 1)
      <4>1. Cardinality(s \ {Pick(s)}) = Cardinality(s) - 1
        BY <1>1, <3>3, PickIn, FS_RemoveElement
      <4>2. Cardinality(s) \in Nat /\ Cardinality(s) <= n
        BY <1>1
      <4> QED
        BY <2>1, <4>1, <4>2
    <3>4. \A s \in Small(n - 1) : s \in Small(n) /\ more[s] = it[s]
      <4>1. \A s \in Small(n - 1) : s \in Small(n)
        BY <1>1, <2>1
      <4> QED
        BY <3>2, <4>1
    <3>5. Upto(more, n)
      BY <3>3, <3>4
    <3> QED
      BY <2>1, <3>5
  <2> QED
    BY <2>2, <2>3
<1>3. PICK it : Upto(it, Cardinality(S))
  BY <1>1, <1>2
<1>4. Small(Cardinality(S)) = SUBSET S
  BY FS_Subset
<1> QED
  BY <1>3, <1>4 DEF Sums

(* What it is for a subset, and that the sum of numbers is a number.        *)
LEMMA IterFacts ==
  ASSUME NEW S, IsFiniteSet(S), NEW g, \A x \in S : g[x] \in Int
  PROVE  /\ Iter(g, S)[{}] = 0
         /\ \A s \in SUBSET S : s # {} =>
              Iter(g, S)[s] = g[Pick(s)] + Iter(g, S)[s \ {Pick(s)}]
         /\ \A s \in SUBSET S : Iter(g, S)[s] \in Int
<1> DEFINE it == Iter(g, S)
           Good == {s \in SUBSET S : it[s] \in Int}
<1>1. Sums(it, g, S)
  BY SumsExist DEF Iter
<1>2. /\ it[{}] = 0
      /\ \A s \in SUBSET S : s # {} => it[s] = g[Pick(s)] + it[s \ {Pick(s)}]
  BY <1>1 DEF Sums
<1> HIDE DEF it
<1>3. ASSUME NEW s \in SUBSET S, \A x \in s : s \ {x} \in Good
      PROVE  s \in Good
  <2>1. CASE s = {}
    BY <1>2, <2>1
  <2>2. CASE s # {}
    <3>1. Pick(s) \in s /\ it[s \ {Pick(s)}] \in Int
      BY <1>3, <2>2, PickIn
    <3>2. it[s] = g[Pick(s)] + it[s \ {Pick(s)}] /\ g[Pick(s)] \in Int
      BY <1>2, <2>2, <3>1
    <3>3. it[s] \in Int
      BY <3>1, <3>2
    <3> QED
      BY <3>3
  <2> QED
    BY <2>1, <2>2
<1>4. \A s \in SUBSET S : s \in Good
  BY <1>3, SubsetInduction
<1> QED
  BY <1>2, <1>4 DEF it

(* Only the values on the subset matter.                                    *)
LEMMA IterAgree ==
  ASSUME NEW S, IsFiniteSet(S), NEW U \in SUBSET S, NEW g, NEW h,
         \A x \in S : g[x] \in Int, \A x \in U : h[x] = g[x]
  PROVE  \A s \in SUBSET U : Iter(h, U)[s] = Iter(g, S)[s]
<1> DEFINE Good == {s \in SUBSET U : Iter(h, U)[s] = Iter(g, S)[s]}
<1>1. IsFiniteSet(U) /\ \A x \in U : h[x] \in Int
  BY FS_Subset
<1>2. ASSUME NEW s \in SUBSET U, \A x \in s : s \ {x} \in Good
      PROVE  s \in Good
  <2>1. CASE s = {}
    BY <1>1, <2>1, IterFacts
  <2>2. CASE s # {}
    <3>1. Pick(s) \in s /\ s \ {Pick(s)} \in Good
      BY <1>2, <2>2, PickIn
    <3>2. Iter(h, U)[s] = h[Pick(s)] + Iter(h, U)[s \ {Pick(s)}]
      BY <1>1, <2>2, IterFacts
    <3>3. Iter(g, S)[s] = g[Pick(s)] + Iter(g, S)[s \ {Pick(s)}]
      BY <2>2, IterFacts
    <3> QED
      BY <3>1, <3>2, <3>3
  <2> QED
    BY <2>1, <2>2
<1>3. \A s \in SUBSET U : s \in Good
  BY <1>1, <1>2, SubsetInduction
<1> QED
  BY <1>3

(* Any element can be the first one to be taken out.                        *)
LEMMA IterAnyOrder ==
  ASSUME NEW S, IsFiniteSet(S), NEW g, \A x \in S : g[x] \in Int
  PROVE  \A s \in SUBSET S : \A y \in s :
           Iter(g, S)[s] = g[y] + Iter(g, S)[s \ {y}]
<1> DEFINE it == Iter(g, S)
           Good == {s \in SUBSET S : \A y \in s : it[s] = g[y] + it[s \ {y}]}
<1>1. /\ \A s \in SUBSET S : s # {} => it[s] = g[Pick(s)] + it[s \ {Pick(s)}]
      /\ \A s \in SUBSET S : it[s] \in Int
  BY IterFacts
<1> HIDE DEF it
<1>2. ASSUME NEW s \in SUBSET S, \A x \in s : s \ {x} \in Good, NEW y \in s
      PROVE  it[s] = g[y] + it[s \ {y}]
  <2> DEFINE c == Pick(s)
  <2>1. c \in s /\ it[s] = g[c] + it[s \ {c}]
    BY <1>1, PickIn
  <2>2. CASE c = y
    BY <2>1, <2>2
  <2>3. CASE c # y
    <3>1. it[s \ {c}] = g[y] + it[(s \ {c}) \ {y}]
      BY <1>2, <2>1, <2>3
    <3>2. it[s \ {y}] = g[c] + it[(s \ {y}) \ {c}]
      BY <1>2, <2>1, <2>3
    <3>3. (s \ {c}) \ {y} = (s \ {y}) \ {c}
      OBVIOUS
    <3>4. /\ g[c] \in Int /\ g[y] \in Int
          /\ it[(s \ {y}) \ {c}] \in Int
      BY <1>1, <2>1
    <3>5. it[s] = g[c] + (g[y] + it[(s \ {y}) \ {c}])
      BY <2>1, <3>1, <3>3
    <3> HIDE DEF c
    <3> QED
      BY <3>2, <3>4, <3>5
  <2> QED
    BY <2>2, <2>3
<1>3. \A s \in SUBSET S : s \in Good
  BY <1>2, SubsetInduction, ZenonT(30)
<1> QED
  BY <1>3 DEF it

-----------------------------------------------------------------------------
(* The sums of the community modules.                                      *)

(* The sum of g over S.                                                     *)
SumOf(g, S) == MapThenSumSet(LAMBDA y : g[y], S)

(* Nothing adds up to 0.                                                    *)
LEMMA SumEmpty ==
  ASSUME NEW g
  PROVE  SumOf(g, {}) = 0
<1>1. Iter(g, {})[{}] = 0
  BY IterFacts, FS_EmptySet
<1> QED
  BY <1>1 DEF SumOf, MapThenSumSet, MapThenFoldSet, Iter, Sums, Pick

(* One more element adds its value.                                         *)
LEMMA SumAdd ==
  ASSUME NEW S, IsFiniteSet(S), NEW x, x \notin S,
         NEW g, \A y \in S \cup {x} : g[y] \in Int
  PROVE  /\ SumOf(g, S) \in Int
         /\ SumOf(g, S \cup {x}) = SumOf(g, S) + g[x]
<1> DEFINE W == S \cup {x}
<1>1. IsFiniteSet(W) /\ S \in SUBSET W /\ W \ {x} = S
  BY FS_AddElement
<1>2. Iter(g, W)[W] = g[x] + Iter(g, W)[S]
  <2>1. W \in SUBSET W /\ x \in W /\ \A y \in W : g[y] \in Int
    OBVIOUS
  <2> HIDE DEF W
  <2>2. Iter(g, W)[W] = g[x] + Iter(g, W)[W \ {x}]
    BY <1>1, <2>1, IterAnyOrder
  <2> QED
    BY <1>1, <2>2
<1>3. Iter(g, S)[S] = Iter(g, W)[S]
  BY <1>1, IterAgree
<1>4. Iter(g, W)[S] \in Int /\ g[x] \in Int
  BY <1>1, IterFacts
<1>5. Iter(g, W)[W] = Iter(g, S)[S] + g[x]
  BY <1>2, <1>3, <1>4
<1>6. SumOf(g, S) = Iter(g, S)[S] /\ SumOf(g, W) = Iter(g, W)[W]
  BY DEF SumOf, MapThenSumSet, MapThenFoldSet, Iter, Sums, Pick
<1> QED
  BY <1>3, <1>4, <1>5, <1>6

(* Where every value is at least 1, one of them is at most the sum less 1   *)
(* for each of the others.                                                  *)
LEMMA SumBound ==
  ASSUME NEW S, IsFiniteSet(S), NEW g \in [S -> Nat], \A y \in S : g[y] >= 1,
         NEW x \in S
  PROVE  /\ SumFunction(g) \in Int /\ Cardinality(S) \in Nat
         /\ g[x] + Cardinality(S) - 1 <= SumFunction(g)
<1> DEFINE it == Iter(g, S)
           Good == {s \in SUBSET S : Cardinality(s) <= it[s]}
<1>1. \A y \in S : g[y] \in Int
  OBVIOUS
<1>2. /\ it[{}] = 0
      /\ \A s \in SUBSET S : s # {} => it[s] = g[Pick(s)] + it[s \ {Pick(s)}]
      /\ \A s \in SUBSET S : it[s] \in Int
  BY <1>1, IterFacts
<1>3. \A s \in SUBSET S : IsFiniteSet(s) /\ Cardinality(s) \in Nat
  BY FS_Subset, FS_CardinalityType
<1>4. SumFunction(g) = it[S]
  BY DEF SumFunction, SumFunctionOnSet, FoldFunctionOnSet, MapThenFoldSet, Iter, Sums, Pick
<1>5. it[S] = g[x] + it[S \ {x}]
  <2>1. S \in SUBSET S
    OBVIOUS
  <2> QED
    BY <1>1, <2>1, IterAnyOrder
<1> HIDE DEF it
<1>6. ASSUME NEW s \in SUBSET S, \A y \in s : s \ {y} \in Good
      PROVE  s \in Good
  <2>1. CASE s = {}
    BY <1>2, <2>1, FS_EmptySet
  <2>2. CASE s # {}
    <3> DEFINE c == Pick(s)
    <3>1. c \in s /\ Cardinality(s \ {c}) <= it[s \ {c}]
      BY <1>6, <2>2, PickIn
    <3>2. Cardinality(s \ {c}) = Cardinality(s) - 1
      BY <1>3, <3>1, FS_RemoveElement
    <3>3. /\ it[s] = g[c] + it[s \ {c}] /\ it[s \ {c}] \in Int
          /\ g[c] \in Nat /\ g[c] >= 1 /\ Cardinality(s) \in Nat
      BY <1>2, <1>3, <2>2, <3>1
    <3>4. Cardinality(s) <= it[s]
      BY <3>1, <3>2, <3>3
    <3> QED
      BY <3>4
  <2> QED
    BY <2>1, <2>2
<1>7. \A s \in SUBSET S : s \in Good
  BY <1>6, SubsetInduction
<1>8. Cardinality(S \ {x}) <= it[S \ {x}] /\ it[S \ {x}] \in Int /\ it[S] \in Int
  BY <1>2, <1>7
<1>9. Cardinality(S \ {x}) = Cardinality(S) - 1 /\ Cardinality(S) \in Nat
  BY <1>3, FS_RemoveElement
<1> QED
  BY <1>1, <1>4, <1>5, <1>8, <1>9

-----------------------------------------------------------------------------
(* The version v of f is in the cache.                                      *)
Holds(chains, f, v) ==
  \E e \in Range(chains[Bucket[f]]) : e.name = f /\ e.content.version = v

Promised ==
  \A w \in Workers :
    /\ pc[w] = "idle" <=> file[w] = NoFile
    /\ known[w] # 0 =>
         /\ pc[w] \in {"lookup", "send"}
         /\ Holds(table, file[w], known[w])

IInv == TypeOK /\ OneEntryPerFile /\ WithinLimit /\ Promised /\ SameOnceCached

-----------------------------------------------------------------------------
(* The chains.                                                             *)

(* Chains are sequences of entries.                                         *)
LEMMA ChainFacts ==
  ASSUME TypeOK, NEW f \in Files
  PROVE  /\ Bucket[f] \in Buckets /\ table[Bucket[f]] \in Seq(Entry)
         /\ \A e \in EntriesOf(f) :
              \E i \in 1 .. Len(table[Bucket[f]]) : e = table[Bucket[f]][i] /\ e.name = f
         /\ EntriesOf(f) \subseteq Entry
<1>1. Bucket[f] \in Buckets /\ table[Bucket[f]] \in Seq(Entry)
  BY DEF TypeOK, Buckets
<1>2. ASSUME NEW e \in EntriesOf(f)
      PROVE  \E i \in 1 .. Len(table[Bucket[f]]) : e = table[Bucket[f]][i] /\ e.name = f
  BY <1>1 DEF EntriesOf, Range
<1>3. \A i \in 1 .. Len(table[Bucket[f]]) : table[Bucket[f]][i] \in Entry
  BY <1>1
<1> QED
  BY <1>1, <1>2, <1>3

(* cache_lookup returns the entry of that name, of which there is one.      *)
LEMMA HitFacts ==
  ASSUME TypeOK, OneEntryPerFile, NEW f \in Files, NEW e \in EntriesOf(f)
  PROVE  Hit(f) = e /\ e \in Entry /\ Cached(f)
<1> DEFINE chain == table[Bucket[f]]
           I == {i \in 1 .. Len(chain) : chain[i].name = f}
<1>1. PICK k \in 1 .. Len(chain) : e = chain[k] /\ e.name = f
  BY ChainFacts
<1>2. \A i \in 1 .. Len(chain) : chain[i].name = f => i = k
  <2>1. Bucket[f] \in Buckets /\ DOMAIN chain = 1 .. Len(chain)
    BY ChainFacts
  <2> QED
    BY <1>1, <2>1 DEF OneEntryPerFile
<1>3. I = {k}
  BY <1>1, <1>2
<1>4. Min({k}) = k
  BY <1>1 DEF Min
<1>5. SelectInSeq(chain, LAMBDA x : x.name = f) = k
  BY <1>3, <1>4 DEF SelectInSeq
<1> QED
  BY <1>1, <1>5, ChainFacts DEF Hit, Cached

(* One more entry in front of a chain.                                      *)
LEMMA PrependFacts ==
  ASSUME NEW S, NEW q \in Seq(S), NEW x \in S
  PROVE  /\ <<x>> \o q \in Seq(S)
         /\ Len(<<x>> \o q) = Len(q) + 1
         /\ (<<x>> \o q)[1] = x
         /\ \A i \in 1 .. Len(q) : (<<x>> \o q)[i + 1] = q[i]
         /\ \A i \in 1 .. Len(q) + 1 : i = 1 \/ i - 1 \in 1 .. Len(q)
         /\ Range(<<x>> \o q) = Range(q) \cup {x}
<1> DEFINE r == <<x>> \o q
<1>1. /\ r \in Seq(S) /\ Len(r) = Len(q) + 1 /\ r[1] = x
      /\ \A i \in 1 .. Len(q) : r[i + 1] = q[i] /\ i + 1 \in 1 .. Len(r)
      /\ \A i \in 1 .. Len(q) + 1 : i = 1 \/ i - 1 \in 1 .. Len(q)
      /\ DOMAIN r = 1 .. Len(q) + 1 /\ DOMAIN q = 1 .. Len(q) /\ Len(q) \in Nat
  OBVIOUS
<1> HIDE DEF r
<1>2. Range(r) \subseteq Range(q) \cup {x}
  <2> SUFFICES ASSUME NEW i \in 1 .. Len(q) + 1 PROVE r[i] \in Range(q) \cup {x}
    BY <1>1 DEF Range
  <2>1. CASE i = 1
    BY <1>1, <2>1
  <2>2. CASE i # 1
    <3>1. i - 1 \in 1 .. Len(q) /\ i = (i - 1) + 1
      BY <1>1, <2>2
    <3>2. r[i] = q[i - 1]
      BY <1>1, <3>1
    <3> QED
      BY <1>1, <3>1, <3>2 DEF Range
  <2> QED
    BY <2>1, <2>2
<1>3. Range(q) \cup {x} \subseteq Range(r)
  BY <1>1 DEF Range
<1> QED
  BY <1>1, <1>2, <1>3 DEF r

-----------------------------------------------------------------------------
(* Steps that leave the cache alone.                                       *)

(* What depends on the table alone.                                         *)
LEMMA CacheStays ==
  ASSUME UNCHANGED cacheVars
  PROVE  /\ OneEntryPerFile => OneEntryPerFile'
         /\ WithinLimit => WithinLimit'
         /\ \A f : EntriesOf(f)' = EntriesOf(f) /\ Cached(f)' = Cached(f)
<1>1. table' = table /\ occupied' = occupied
  BY DEF cacheVars
<1>2. \A f : EntriesOf(f)' = EntriesOf(f) /\ Cached(f)' = Cached(f)
  BY <1>1 DEF EntriesOf, Cached, Hit
<1>4. CachedFiles' = CachedFiles
  BY <1>2 DEF CachedFiles
<1>5. OneEntryPerFile => OneEntryPerFile'
  BY <1>1 DEF OneEntryPerFile
<1>6. WithinLimit => WithinLimit'
  BY <1>1, <1>4 DEF WithinLimit
<1> QED
  BY <1>2, <1>5, <1>6

(* Where the process stops nothing else changes.                            *)
LEMMA HaltInv ==
  ASSUME IInv, NEW how \in Halt, HaltAs(how)
  PROVE  IInv'
<1>1. UNCHANGED cacheVars /\ UNCHANGED <<pc, file, data, disk, known>> /\ halted' \in Halt
  BY DEF HaltAs, workerVars
<1>2. TypeOK'
  BY <1>1 DEF IInv, TypeOK, cacheVars
<1>3. Promised'
  BY <1>1 DEF IInv, Promised, cacheVars
<1>4. SameOnceCached'
  BY <1>1 DEF IInv, SameOnceCached
<1> QED
  BY <1>1, <1>2, <1>3, <1>4, CacheStays DEF IInv

(* A worker that goes on without touching the cache.                        *)
LEMMA WorkerInv ==
  ASSUME IInv, NEW w \in Workers, NEW at \in PC, NEW f \in Files \cup {NoFile},
         NEW d \in Content, NEW v \in 0 .. Rewrites + 1,
         UNCHANGED <<cacheVars, halted, disk>>,
         pc' = [pc EXCEPT ![w] = at], file' = [file EXCEPT ![w] = f],
         data' = [data EXCEPT ![w] = d], known' = [known EXCEPT ![w] = v],
         at = "idle" <=> f = NoFile,
         v # 0 => at \in {"lookup", "send"} /\ Holds(table, f, v),
         at = "send" /\ v # 0 => d.version = v
  PROVE  IInv'
<1>1. TypeOK'
  BY DEF IInv, TypeOK, cacheVars
<1>2. Promised'
  <2> SUFFICES ASSUME NEW u \in Workers
               PROVE  /\ pc'[u] = "idle" <=> file'[u] = NoFile
                      /\ known'[u] # 0 => /\ pc'[u] \in {"lookup", "send"}
                                          /\ Holds(table', file'[u], known'[u])
    BY DEF Promised
  <2>1. table' = table
    BY DEF cacheVars
  <2>2. CASE u = w
    <3>1. pc'[u] = at /\ file'[u] = f /\ known'[u] = v
      BY <2>2 DEF IInv, TypeOK
    <3> QED
      BY <2>1, <3>1
  <2>3. CASE u # w
    <3>1. pc'[u] = pc[u] /\ file'[u] = file[u] /\ known'[u] = known[u]
      BY <2>3 DEF IInv, TypeOK
    <3> QED
      BY <2>1, <3>1 DEF IInv, Promised
  <2> QED
    BY <2>2, <2>3
<1>3. SameOnceCached'
  BY DEF IInv, TypeOK, SameOnceCached
<1> QED
  BY <1>1, <1>2, <1>3, CacheStays DEF IInv

-----------------------------------------------------------------------------
(* Each step.                                                              *)

(* A request comes: what is in the cache now is what it will be answered    *)
(* with.                                                                    *)
LEMMA StartInv ==
  ASSUME IInv, NEW w \in Workers, Start(w)
  PROVE  IInv'
<1>1. PICK f \in Files :
        /\ file' = [file EXCEPT ![w] = f]
        /\ known' = [known EXCEPT ![w] = IF Cached(f) THEN Hit(f).content.version ELSE 0]
  BY DEF Start
<1> DEFINE v == IF Cached(f) THEN Hit(f).content.version ELSE 0
<1>2. f # NoFile /\ 0 \in 0 .. Rewrites + 1
  BY FilesAssumption, SizeAssumption
<1>3. v \in 0 .. Rewrites + 1 /\ (v # 0 => Holds(table, f, v))
  <2>1. CASE Cached(f)
    <3>1. PICK e \in EntriesOf(f) : Hit(f) = e /\ e \in Entry
      BY <2>1, HitFacts DEF Cached, IInv
    <3>2. e \in Range(table[Bucket[f]]) /\ e.name = f
      BY DEF EntriesOf
    <3> QED
      BY <2>1, <3>1, <3>2 DEF Holds, Entry, Content
  <2>2. CASE ~Cached(f)
    BY <1>2, <2>2
  <2> QED
    BY <2>1, <2>2
<1> HIDE DEF v
<1>4. /\ UNCHANGED <<cacheVars, halted, disk>>
      /\ pc' = [pc EXCEPT ![w] = "lookup"]
      /\ data' = [data EXCEPT ![w] = data[w]] /\ data[w] \in Content
      /\ known' = [known EXCEPT ![w] = v]
  BY <1>1 DEF Start, Goto, IInv, TypeOK, v
<1> QED
  BY <1>1, <1>2, <1>3, <1>4, WorkerInv DEF PC

(* cache_lookup finds the entry, which is the one that was promised.        *)
LEMMA LookupHitInv ==
  ASSUME IInv, NEW w \in Workers, LookupHit(w)
  PROVE  IInv'
<1> DEFINE f == file[w]
           d == Duplicate(f, Hit(f).content)
<1>1. f \in Files /\ pc[w] = "lookup" /\ Cached(f) /\ f # NoFile
  BY FilesAssumption DEF LookupHit, At, IInv, TypeOK, Promised
<1>2. PICK e \in EntriesOf(f) : Hit(f) = e /\ e \in Entry
  BY <1>1, HitFacts DEF Cached, IInv
<1>3. d \in Content /\ d.version = e.content.version
  BY <1>2 DEF Duplicate, Content, Entry
<1>4. known[w] # 0 => Holds(table, f, known[w]) /\ d.version = known[w]
  <2> SUFFICES ASSUME known[w] # 0 PROVE Holds(table, f, known[w]) /\ d.version = known[w]
    OBVIOUS
  <2>1. Holds(table, f, known[w])
    BY DEF IInv, Promised
  <2>2. PICK x \in EntriesOf(f) : x.content.version = known[w]
    BY <2>1 DEF Holds, EntriesOf
  <2>3. Hit(f) = x
    BY <1>1, HitFacts DEF IInv
  <2> QED
    BY <1>2, <1>3, <2>1, <2>2, <2>3
<1>5. /\ UNCHANGED <<cacheVars, halted, disk>>
      /\ pc' = [pc EXCEPT ![w] = "send"] /\ file' = [file EXCEPT ![w] = f]
      /\ data' = [data EXCEPT ![w] = d]
      /\ known' = [known EXCEPT ![w] = known[w]] /\ known[w] \in 0 .. Rewrites + 1
  BY DEF LookupHit, Goto, IInv, TypeOK
<1> HIDE DEF d
<1> QED
  BY <1>1, <1>3, <1>4, <1>5, WorkerInv DEF PC

(* It does not, and nothing was promised.                                   *)
LEMMA LookupMissInv ==
  ASSUME IInv, NEW w \in Workers, LookupMiss(w)
  PROVE  IInv'
<1> DEFINE f == file[w]
<1>1. f \in Files /\ pc[w] = "lookup" /\ ~Cached(f) /\ f # NoFile
  BY FilesAssumption DEF LookupMiss, At, IInv, TypeOK, Promised
<1>2. known[w] = 0
  BY <1>1 DEF IInv, Promised, Holds, Cached, EntriesOf
<1>3. CASE HaltAs("wild")
  BY <1>3, HaltInv DEF Halt
<1>4. CASE Goto(w, "read") /\ UNCHANGED <<cacheVars, file, data, halted, disk, known>>
  <2>1. /\ UNCHANGED <<cacheVars, halted, disk>>
        /\ pc' = [pc EXCEPT ![w] = "read"] /\ file' = [file EXCEPT ![w] = f]
        /\ data' = [data EXCEPT ![w] = data[w]] /\ data[w] \in Content
        /\ known' = [known EXCEPT ![w] = 0] /\ 0 \in 0 .. Rewrites + 1
    BY <1>2, <1>4 DEF Goto, IInv, TypeOK
  <2> QED
    BY <1>1, <2>1, WorkerInv DEF PC
<1> QED
  BY <1>3, <1>4 DEF LookupMiss

(* The worker is done with its request.                                     *)
LEMMA FinishedInv ==
  ASSUME IInv, NEW w \in Workers, Finished(w), UNCHANGED <<cacheVars, halted, disk>>
  PROVE  IInv'
<1>1. Nothing \in Content /\ 0 \in 0 .. Rewrites + 1
  BY SizeAssumption DEF Nothing, Content
<1> QED
  BY <1>1, WorkerInv DEF Finished, Goto, PC

(* It reads the file.                                                       *)
LEMMA ReadInv ==
  ASSUME IInv, NEW w \in Workers, Read(w)
  PROVE  IInv'
<1> DEFINE f == file[w]
           d == [version |-> disk[f], whole |-> TRUE]
<1>1. f \in Files /\ f # NoFile /\ known[w] = 0
  BY FilesAssumption DEF Read, At, IInv, TypeOK, Promised
<1>2. d \in Content /\ 0 \in 0 .. Rewrites + 1
  BY <1>1, SizeAssumption DEF IInv, TypeOK, Content
<1>3. /\ UNCHANGED <<cacheVars, halted, disk>>
      /\ pc' = [pc EXCEPT ![w] = "insert"] /\ file' = [file EXCEPT ![w] = f]
      /\ data' = [data EXCEPT ![w] = d]
      /\ known' = [known EXCEPT ![w] = 0]
  BY <1>1 DEF Read, Goto, IInv, TypeOK
<1> HIDE DEF d
<1> QED
  BY <1>1, <1>2, <1>3, WorkerInv DEF PC

(* cache_insert decides against it.                                         *)
LEMMA InsertSkipInv ==
  ASSUME IInv, NEW w \in Workers, InsertSkip(w)
  PROVE  IInv'
<1> DEFINE f == file[w]
<1>1. f \in Files /\ f # NoFile /\ known[w] = 0
  BY FilesAssumption DEF InsertSkip, At, IInv, TypeOK, Promised
<1>2. /\ UNCHANGED <<cacheVars, halted, disk>>
      /\ pc' = [pc EXCEPT ![w] = "send"] /\ file' = [file EXCEPT ![w] = f]
      /\ data' = [data EXCEPT ![w] = data[w]] /\ data[w] \in Content
      /\ known' = [known EXCEPT ![w] = 0] /\ 0 \in 0 .. Rewrites + 1
  BY <1>1 DEF InsertSkip, Goto, IInv, TypeOK
<1> QED
  BY <1>1, <1>2, WorkerInv DEF PC

(* Sums of file sizes.                                                      *)
LEMMA TotalFacts ==
  /\ TotalSize({}) = 0
  /\ \A S \in SUBSET Files : \A f \in Files \ S :
       TotalSize(S \cup {f}) = TotalSize(S) + FileSize[f]
<1>1. \A S : TotalSize(S) = SumOf(FileSize, S)
  BY DEF TotalSize, SumOf
<1>2. ASSUME NEW S \in SUBSET Files, NEW f \in Files \ S
      PROVE  TotalSize(S \cup {f}) = TotalSize(S) + FileSize[f]
  <2>1. IsFiniteSet(S) /\ f \notin S /\ \A g \in S \cup {f} : FileSize[g] \in Int
    BY FilesAssumption, SizeAssumption, FS_Subset
  <2> QED
    BY <1>1, <2>1, SumAdd
<1> QED
  BY <1>1, <1>2, SumEmpty

(* cache_insert puts the file in front of its chain.  It was not cached, so *)
(* it has one entry now and adds its size; the others stay, so what was     *)
(* promised is kept.                                                        *)
LEMMA InsertInv ==
  ASSUME IInv, NEW w \in Workers, Insert(w)
  PROVE  IInv'
<1> DEFINE f == file[w]
           b == Bucket[f]
           chain == table[b]
           entry == [name |-> f, content |-> Duplicate(f, data[w])]
<1>1. /\ f \in Files /\ f # NoFile /\ pc[w] = "insert" /\ known[w] = 0
      /\ ~Cached(f) /\ Fits(f)
      /\ table' = [table EXCEPT ![b] = Chained(entry)]
      /\ wild' = wild \/ wild' = wild \cup {b}
      /\ occupied' = occupied + FileSize[f]
      /\ pc' = [pc EXCEPT ![w] = "send"]
      /\ UNCHANGED <<file, data, halted, disk, known>>
  BY FilesAssumption DEF Insert, At, IInv, TypeOK, Promised, Present, Goto
<1>2. b \in Buckets /\ chain \in Seq(Entry) /\ DOMAIN chain = 1 .. Len(chain)
  BY <1>1, ChainFacts DEF IInv
<1>3. entry \in Entry /\ entry.name = f
  <2>1. Duplicate(f, data[w]) \in Content
    BY DEF Duplicate, Content, IInv, TypeOK
  <2> QED
    BY <1>1, <2>1 DEF Entry
<1>4. Chained(entry) = <<entry>> \o chain
  BY <1>3 DEF Chained
<1> HIDE DEF entry
<1> DEFINE new == Chained(entry)
<1>5. /\ new \in Seq(Entry) /\ DOMAIN new = 1 .. Len(chain) + 1 /\ new[1] = entry
      /\ \A i \in 1 .. Len(chain) : new[i + 1] = chain[i]
      /\ \A i \in 1 .. Len(chain) + 1 : i = 1 \/ i - 1 \in 1 .. Len(chain)
      /\ Range(new) = Range(chain) \cup {entry}
  <2>1. /\ new \in Seq(Entry) /\ Len(new) = Len(chain) + 1 /\ new[1] = entry
        /\ \A i \in 1 .. Len(chain) : new[i + 1] = chain[i]
        /\ \A i \in 1 .. Len(chain) + 1 : i = 1 \/ i - 1 \in 1 .. Len(chain)
        /\ Range(new) = Range(chain) \cup {entry}
    BY <1>2, <1>3, <1>4, PrependFacts
  <2>2. DOMAIN new = 1 .. Len(new)
    BY <2>1
  <2> QED
    BY <2>1, <2>2
<1> HIDE DEF new
<1>6. /\ table' = [table EXCEPT ![b] = new] /\ table \in [Buckets -> Seq(Entry)]
      /\ table' \in [Buckets -> Seq(Entry)]
      /\ table'[b] = new /\ \A c \in Buckets \ {b} : table'[c] = table[c]
  BY <1>1, <1>2, <1>5 DEF IInv, TypeOK, new
<1>7. \A g \in Files : Range(table'[Bucket[g]])
                         = Range(table[Bucket[g]]) \cup (IF Bucket[g] = b THEN {entry} ELSE {})
  BY <1>5, <1>6 DEF Buckets
<1>8. TypeOK'
  <2>1. occupied' \in Nat
    BY <1>1, SizeAssumption DEF IInv, TypeOK
  <2> QED
    BY <1>1, <1>2, <1>6, <2>1 DEF IInv, TypeOK, PC
<1>9. OneEntryPerFile'
  <2>1. \A i \in 1 .. Len(chain) : chain[i].name # f
    BY <1>1, <1>2 DEF Cached, EntriesOf, Range
  <2> SUFFICES ASSUME NEW c \in Buckets, NEW i \in DOMAIN table'[c], NEW j \in DOMAIN table'[c]
               PROVE  /\ table'[c][i].name = table'[c][j].name => i = j
                      /\ Bucket[table'[c][i].name] = c
    BY DEF OneEntryPerFile
  <2>2. CASE c # b
    BY <1>6, <2>2 DEF IInv, OneEntryPerFile
  <2>3. CASE c = b
    <3>1. /\ i \in 1 .. Len(chain) + 1 /\ j \in 1 .. Len(chain) + 1
          /\ table'[c] = new /\ i \in Int /\ j \in Int
      BY <1>5, <1>6, <2>3
    <3>2. \A k \in 1 .. Len(chain) + 1 :
            \/ k = 1 /\ new[k].name = f
            \/ k # 1 /\ k - 1 \in 1 .. Len(chain) /\ new[k] = chain[k - 1]
      <4> SUFFICES ASSUME NEW k \in 1 .. Len(chain) + 1, k # 1
                   PROVE  k - 1 \in 1 .. Len(chain) /\ new[k] = chain[k - 1]
        BY <1>3, <1>5
      <4>1. k - 1 \in 1 .. Len(chain) /\ (k - 1) + 1 = k
        BY <1>5
      <4> QED
        BY <1>5, <4>1
    <3>3. \A k, l \in 1 .. Len(chain) : chain[k].name = chain[l].name => k = l
      BY <1>2 DEF IInv, OneEntryPerFile
    <3>4. \A k \in 1 .. Len(chain) : Bucket[chain[k].name] = b
      BY <1>2 DEF IInv, OneEntryPerFile
    <3>5. Bucket[new[i].name] = b
      BY <3>1, <3>2, <3>4, ZenonT(30)
    <3>6. new[i].name = new[j].name => i = j
      <4>1. CASE i = 1 \/ j = 1
        BY <2>1, <3>1, <3>2, <4>1, SMTT(30)
      <4>2. CASE i # 1 /\ j # 1
        <5>1. /\ i - 1 \in 1 .. Len(chain) /\ new[i] = chain[i - 1]
              /\ j - 1 \in 1 .. Len(chain) /\ new[j] = chain[j - 1]
          BY <3>1, <3>2, <4>2
        <5>2. new[i].name = new[j].name => i - 1 = j - 1
          BY <3>3, <5>1
        <5> QED
          BY <3>1, <5>2
      <4> QED
        BY <4>1, <4>2
    <3> QED
      BY <2>3, <3>1, <3>5, <3>6
  <2> QED
    BY <2>2, <2>3
<1>10. CachedFiles' = CachedFiles \cup {f} /\ f \notin CachedFiles
  <2>1. \A g \in Files : EntriesOf(g)' = {e \in Range(table'[Bucket[g]]) : e.name = g}
    BY DEF EntriesOf
  <2>2. \A g \in Files : Cached(g)' <=> Cached(g) \/ g = f
    BY <1>1, <1>3, <1>7, <2>1 DEF Cached, EntriesOf
  <2>3. CachedFiles' = {g \in Files : Cached(g)'}
    BY DEF CachedFiles
  <2> QED
    BY <1>1, <2>2, <2>3 DEF CachedFiles
<1>11. WithinLimit'
  <2>1. TotalSize(CachedFiles \cup {f}) = TotalSize(CachedFiles) + FileSize[f]
    BY <1>1, <1>10, TotalFacts DEF CachedFiles
  <2>2. occupied' <= MaxSize
    BY <1>1, SizeAssumption DEF Fits, IInv, TypeOK
  <2>3. occupied' = TotalSize(CachedFiles)'
    BY <1>1, <1>10, <2>1 DEF IInv, WithinLimit
  <2> QED
    BY <2>2, <2>3 DEF WithinLimit
<1>12. Promised'
  <2> SUFFICES ASSUME NEW u \in Workers
               PROVE  /\ pc'[u] = "idle" <=> file'[u] = NoFile
                      /\ known'[u] # 0 => /\ pc'[u] \in {"lookup", "send"}
                                          /\ Holds(table', file'[u], known'[u])
    BY DEF Promised
  <2>1. pc'[u] = "idle" <=> file'[u] = NoFile
    BY <1>1 DEF IInv, TypeOK, Promised
  <2>2. ASSUME known'[u] # 0
        PROVE  pc'[u] \in {"lookup", "send"} /\ Holds(table', file'[u], known'[u])
    <3>1. /\ u # w /\ pc'[u] = pc[u] /\ file'[u] = file[u] /\ known'[u] = known[u]
          /\ pc[u] \in {"lookup", "send"} /\ Holds(table, file[u], known[u])
      BY <1>1, <2>2 DEF IInv, TypeOK, Promised
    <3>2. file[u] \in Files
      BY <3>1 DEF IInv, TypeOK, Promised
    <3>3. Range(table[Bucket[file[u]]]) \subseteq Range(table'[Bucket[file[u]]])
      BY <1>7, <3>2
    <3> QED
      BY <3>1, <3>3 DEF Holds
  <2> QED
    BY <2>1, <2>2
<1>13. SameOnceCached'
  BY <1>1 DEF IInv, TypeOK, SameOnceCached
<1> QED
  BY <1>8, <1>9, <1>11, <1>12, <1>13 DEF IInv

(* It ends the process.                                                     *)
LEMMA InsertFailsInv ==
  ASSUME IInv, NEW w \in Workers, InsertFails(w)
  PROVE  IInv'
<1>1. HaltAs("wild") \/ HaltAs("null")
  BY DEF InsertFails
<1> QED
  BY <1>1, HaltInv DEF Halt

(* A file is replaced on disk: the bound on all replacements bounds the     *)
(* versions of each file.                                                   *)
LEMMA RewriteInv ==
  ASSUME IInv, NEW f \in Files, Rewrite(f)
  PROVE  IInv'
<1>1. /\ disk' = [disk EXCEPT ![f] = disk[f] + 1]
      /\ UNCHANGED cacheVars /\ UNCHANGED <<pc, file, data, halted, known>>
      /\ disk \in [Files -> 1 .. Rewrites + 1]
      /\ SumFunction(disk) < Cardinality(Files) + Rewrites
  BY DEF Rewrite, workerVars, IInv, TypeOK
<1>2. disk[f] + 1 \in 1 .. Rewrites + 1
  <2>1. disk \in [Files -> Nat] /\ \A g \in Files : disk[g] >= 1
    BY <1>1, SizeAssumption
  <2>2. /\ SumFunction(disk) \in Int /\ Cardinality(Files) \in Nat
        /\ disk[f] + Cardinality(Files) - 1 <= SumFunction(disk)
    BY <2>1, FilesAssumption, SumBound
  <2>3. disk[f] \in Nat /\ disk[f] >= 1 /\ Rewrites \in Nat
    BY <2>1, SizeAssumption
  <2>4. disk[f] < Rewrites + 1
    BY <1>1, <2>2, <2>3
  <2> QED
    BY <2>3, <2>4
<1>3. TypeOK'
  BY <1>1, <1>2 DEF IInv, TypeOK, cacheVars
<1>4. Promised'
  BY <1>1 DEF IInv, Promised, cacheVars
<1>5. SameOnceCached'
  BY <1>1 DEF IInv, SameOnceCached
<1> QED
  BY <1>1, <1>3, <1>4, <1>5, CacheStays DEF IInv

-----------------------------------------------------------------------------
(* The inductive invariant.                                                *)

(* The invariant holds in the empty cache.                                   *)
LEMMA InitInv == Init => IInv
<1> SUFFICES ASSUME Init PROVE IInv
  OBVIOUS
<1>1. TypeOK
  BY SizeAssumption DEF Init, TypeOK, PC, Halt, Nothing, Content
<1>2. OneEntryPerFile
  BY DEF Init, OneEntryPerFile
<1>3. WithinLimit
  <2>1. \A f \in Files : EntriesOf(f) = {}
    BY DEF Init, EntriesOf, Range, Buckets
  <2>2. CachedFiles = {}
    BY <2>1 DEF CachedFiles, Cached
  <2> QED
    BY <2>2, TotalFacts, SizeAssumption DEF Init, WithinLimit
<1>4. Promised /\ SameOnceCached
  BY DEF Init, Promised, SameOnceCached
<1> QED
  BY <1>1, <1>2, <1>3, <1>4 DEF IInv

(* Every step keeps the invariant.                                           *)
LEMMA NextInv == IInv /\ [Next]_vars => IInv'
<1> SUFFICES ASSUME IInv, [Next]_vars PROVE IInv'
  OBVIOUS
<1>1. ASSUME NEW w \in Workers, Start(w) PROVE IInv'
  BY <1>1, StartInv
<1>2. ASSUME NEW w \in Workers, LookupHit(w) PROVE IInv'
  BY <1>2, LookupHitInv
<1>3. ASSUME NEW w \in Workers, LookupMiss(w) PROVE IInv'
  BY <1>3, LookupMissInv
<1>4. ASSUME NEW w \in Workers, Read(w) PROVE IInv'
  BY <1>4, ReadInv
<1>5. ASSUME NEW w \in Workers, ReadFails(w) \/ Send(w) PROVE IInv'
  BY <1>5, FinishedInv DEF ReadFails, Send
<1>6. ASSUME NEW w \in Workers, InsertSkip(w) PROVE IInv'
  BY <1>6, InsertSkipInv
<1>7. ASSUME NEW w \in Workers, Insert(w) PROVE IInv'
  BY <1>7, InsertInv
<1>8. ASSUME NEW w \in Workers, InsertFails(w) PROVE IInv'
  BY <1>8, InsertFailsInv
<1>9. ASSUME NEW f \in Files, Rewrite(f) PROVE IInv'
  BY <1>9, RewriteInv
<1>10. CASE UNCHANGED vars
  <2>1. UNCHANGED cacheVars /\ UNCHANGED <<pc, file, data, halted, disk, known>>
    BY <1>10 DEF vars, cacheVars
  <2>2. TypeOK' /\ Promised' /\ SameOnceCached'
    BY <2>1 DEF IInv, TypeOK, Promised, SameOnceCached, cacheVars
  <2> QED
    BY <2>1, <2>2, CacheStays DEF IInv
<1> QED
  BY <1>1, <1>2, <1>3, <1>4, <1>5, <1>6, <1>7, <1>8, <1>9, <1>10 DEF Next, Stopped

(* The invariant holds for all files, workers and sizes of the cache.        *)
THEOREM InvHolds == Spec => []IInv
  BY InitInv, NextInv, PTL DEF Spec

(* The cache, the workers and the files on disk have their types.           *)
THEOREM TypesHold == Spec => []TypeOK
<1>1. IInv => TypeOK
  BY DEF IInv
<1> QED
  BY <1>1, InvHolds, PTL

(* No file is in the cache twice, however many workers missed it at the     *)
(* same time, and none is in a chain where cache_lookup does not look.      *)
THEOREM CachedOnce == Spec => []OneEntryPerFile
<1>1. IInv => OneEntryPerFile
  BY DEF IInv
<1> QED
  BY <1>1, InvHolds, PTL

(* occupied_cache is the sum of the sizes of the files in the cache, and    *)
(* never more than max_cache_size.                                          *)
THEOREM LimitHolds == Spec => []WithinLimit
<1>1. IInv => WithinLimit
  BY DEF IInv
<1> QED
  BY <1>1, InvHolds, PTL

(* A request for a file that is in the cache when it comes is answered with *)
(* the version that was in the cache then.                                  *)
THEOREM CachedIsSent == Spec => []SameOnceCached
<1>1. IInv => SameOnceCached
  BY DEF IInv
<1> QED
  BY <1>1, InvHolds, PTL

=============================================================================
