--------------------------- MODULE ExchangeProofs ---------------------------
(***************************************************************************)
(* Proofs about the exchange of a request and its answer (Exchange).       *)
(*                                                                         *)
(* The invariant says, next to the types and the buffers' sizes, who can   *)
(* still be there: as long as the client stays, the server is the first to *)
(* close its socket, so nothing it reads or writes can fail (Ends); that   *)
(* the client has been told nothing while the server reads (Silence); and  *)
(* what the server knows of the method (ServerKnows).  On top of it,       *)
(* Pending says that a server which still reads has not been given the     *)
(* whole request, and Parsed follows the two sides through the lines of    *)
(* the request and of the header.                                          *)
(***************************************************************************)
EXTENDS Exchange, FiniteSets, WellFoundedInduction, TLAPS

-----------------------------------------------------------------------------
(* Numbers and sequences.                                                  *)

(* Every set of natural numbers has a least one.                            *)
LEMMA LeastOf ==
  ASSUME NEW T, T \subseteq Nat, T # {}
  PROVE  \E m \in T : \A k \in T : m <= k
<1>1. PICK m \in T : \A k \in T : ~ (<<k, m>> \in OpToRel(<, Nat))
  BY WFMin, NatLessThanWellFounded
<1>2. \A k \in T : ~ (k < m)
  BY <1>1 DEF OpToRel
<1> QED
  BY <1>2

(* The members of a concatenation, by position.                             *)
LEMMA ConcatPositions ==
  ASSUME NEW S, NEW p \in Seq(S), NEW q \in Seq(S)
  PROVE  /\ p \o q \in Seq(S)
         /\ Len(p \o q) = Len(p) + Len(q)
         /\ \A i \in 1 .. Len(p \o q) :
              (p \o q)[i] = IF i <= Len(p) THEN p[i] ELSE q[i - Len(p)]
<1>1. Len(p) \in Nat /\ Len(q) \in Nat
  OBVIOUS
<1> QED
  BY <1>1

-----------------------------------------------------------------------------
(* The invariant.                                                          *)

Shape ==
  /\ method \in {"get", "other"} /\ found \in BOOLEAN /\ body \in Bodies
  /\ at \in [Side -> ClientAt \cup ServerAt]
  /\ at.client \in ClientAt /\ at.server \in ServerAt
  /\ wire \in [Side -> Seq(Unit)] /\ rioBuf \in [Side -> Seq(Unit)]
  /\ line \in [Side -> Seq(Unit)] /\ out \in [Side -> Seq(Unit)]
  /\ got \in [Side -> Seq(Unit)]
  /\ open \in [Side -> BOOLEAN]
  /\ reset \in BOOLEAN /\ tagged \in BOOLEAN /\ quit \in BOOLEAN
  /\ received \in Seq(Unit)

(* A line ends at its line end.                                             *)
LineFits(w) ==
  /\ Len(w) <= MaxLine
  /\ \A i \in 1 .. Len(w) - 1 : w[i] # "nl"

Sizes ==
  \A p \in Side : Len(wire[p]) <= Room /\ Len(rioBuf[p]) <= BufSize /\ LineFits(line[p])

(* A client that stays sees the server close its socket first.              *)
Ends ==
  /\ open.server <=> at.server \notin {"done", "died"}
  /\ quit <=> at.client = "quit"
  /\ ~quit /\ (reset \/ ~open.client) => ~open.server
  /\ at.server = "died" => quit
  /\ at.server = "done" => out.server = <<>>

Silent ==
  out.server = <<>> /\ got.client = <<>> /\ line.client = <<>> /\ rioBuf.client = <<>>
  /\ wire.client = <<>>

Silence == at.server \notin {"reply", "done", "died"} => Silent

ServerKnows ==
  /\ at.server = "request" => got.server = <<>>
  /\ at.server \in {"headers1", "headers"} /\ ~reset /\ ~quit => method = "get"

IInv == Shape /\ Sizes /\ Ends /\ Silence /\ ServerKnows /\ StreamIntact

-----------------------------------------------------------------------------
(* Sequences of units.                                                     *)

(* It does not matter where a concatenation begins.                         *)
LEMMA ConcatAssoc ==
  ASSUME NEW p \in Seq(Unit), NEW q \in Seq(Unit), NEW r \in Seq(Unit)
  PROVE  (p \o q) \o r = p \o (q \o r)
  BY SMTT(30)

(* The two parts of a split sequence, put together again.                   *)
LEMMA SplitConcat ==
  ASSUME NEW q \in Seq(Unit), NEW n \in 0 .. Len(q)
  PROVE  /\ SubSeq(q, 1, n) \in Seq(Unit) /\ SubSeq(q, n + 1, Len(q)) \in Seq(Unit)
         /\ SubSeq(q, 1, n) \o SubSeq(q, n + 1, Len(q)) = q
<1> DEFINE a == SubSeq(q, 1, n)
           b == SubSeq(q, n + 1, Len(q))
<1>1. /\ a \in Seq(Unit) /\ Len(a) = n /\ \A i \in 1 .. n : a[i] = q[i]
      /\ b \in Seq(Unit) /\ Len(b) = Len(q) - n
      /\ \A i \in 1 .. Len(q) - n : b[i] = q[i + n]
  OBVIOUS
<1>2. n \in Nat /\ Len(q) \in Nat /\ n <= Len(q)
  OBVIOUS
<1> HIDE DEF a, b
<1>3. /\ a \o b \in Seq(Unit) /\ Len(a \o b) = Len(q)
      /\ \A i \in 1 .. Len(q) : (a \o b)[i] = IF i <= n THEN a[i] ELSE b[i - n]
  BY <1>1, <1>2, ConcatPositions, SMTT(30)
<1>4. ASSUME NEW i \in 1 .. Len(q)
      PROVE  (IF i <= n THEN a[i] ELSE b[i - n]) = q[i]
  <2>1. i > n => i - n \in 1 .. Len(q) - n /\ (i - n) + n = i
    BY <1>2
  <2>2. i <= n => i \in 1 .. n
    BY <1>2
  <2> QED
    BY <1>1, <1>2, <2>1, <2>2
<1>5. a \o b = q
  <2> DEFINE d == a \o b
  <2>1. d \in Seq(Unit) /\ Len(d) = Len(q) /\ \A i \in 1 .. Len(q) : d[i] = q[i]
    BY <1>3, <1>4
  <2> HIDE DEF d
  <2>2. d = q
    BY <2>1
  <2> QED
    BY <2>2 DEF d
<1> QED
  BY <1>1, <1>5 DEF a, b

(* The front of a part of a stream joins the part before it.                *)
Rejoins(x, y, z, n) ==
  (x \o (y \o SubSeq(z, 1, n))) \o SubSeq(z, n + 1, Len(z)) = (x \o y) \o z

(* That leaves the stream as it is.                                         *)
LEMMA Moved ==
  ASSUME NEW x \in Seq(Unit), NEW y \in Seq(Unit), NEW z \in Seq(Unit),
         NEW n \in 0 .. Len(z)
  PROVE  Rejoins(x, y, z, n)
<1> DEFINE a == SubSeq(z, 1, n)
           b == SubSeq(z, n + 1, Len(z))
<1>1. a \in Seq(Unit) /\ b \in Seq(Unit) /\ a \o b = z
  BY SplitConcat
<1> HIDE DEF a, b
<1>2. a \in Seq(Unit) /\ b \in Seq(Unit)
  BY <1>1
<1>3. x \o (y \o a) = (x \o y) \o a
  BY <1>2, ConcatAssoc, ZenonT(30)
<1>4. x \o y \in Seq(Unit)
  OBVIOUS
<1> DEFINE c == x \o y
<1> HIDE DEF c
<1>5. (c \o a) \o b = c \o (a \o b)
  BY <1>2, <1>4, ConcatAssoc, ZenonT(30) DEF c
<1> QED
  BY <1>1, <1>3, <1>4, <1>5 DEF Rejoins, a, b, c

(* Where the parts of a stream are in it.                                   *)
LEMMA Within ==
  ASSUME NEW p \in Seq(Unit), NEW q \in Seq(Unit), NEW r \in Seq(Unit)
  PROVE  /\ (p \o q) \o r \in Seq(Unit)
         /\ Len((p \o q) \o r) = Len(p) + Len(q) + Len(r)
         /\ \A i \in 1 .. Len(p) : ((p \o q) \o r)[i] = p[i]
         /\ \A i \in 1 .. Len(q) : ((p \o q) \o r)[Len(p) + i] = q[i]
  OBVIOUS

(* What comes first in a concatenation.                                     *)
LEMMA Joined ==
  ASSUME NEW p \in Seq(Unit), NEW q \in Seq(Unit)
  PROVE  /\ p \o q \in Seq(Unit)
         /\ Len(p \o q) = Len(p) + Len(q) /\ Len(q) \in Nat
         /\ \A i \in 1 .. Len(p) : (p \o q)[i] = p[i]
  OBVIOUS

(* The first of five parts, and the other four.                             *)
LEMMA FirstOfFive ==
  ASSUME NEW p \in Seq(Unit), NEW q \in Seq(Unit), NEW x \in Seq(Unit), NEW y \in Seq(Unit),
         NEW z \in Seq(Unit)
  PROVE  \E m \in Seq(Unit) : (((p \o q) \o x) \o y) \o z = p \o m
<1> DEFINE c == q \o x
<1>1. c \in Seq(Unit) /\ (p \o q) \o x = p \o c
  BY Joined, ConcatAssoc, SMTT(30)
<1> HIDE DEF c
<1> DEFINE d == c \o y
<1>2. d \in Seq(Unit) /\ (p \o c) \o y = p \o d
  BY <1>1, Joined, ConcatAssoc, SMTT(30)
<1> HIDE DEF d
<1>3. d \o z \in Seq(Unit) /\ (p \o d) \o z = p \o (d \o z)
  BY <1>2, SMTT(30)
<1>4. (((p \o q) \o x) \o y) \o z = p \o (d \o z)
  BY <1>1, <1>2, <1>3, Zenon
<1> QED
  BY <1>3, <1>4, Zenon

(* q is in the stream s, behind the units that p has.                       *)
Follows(s, p, q) == \A i \in 1 .. Len(q) : s[Len(p) + i] = q[i]

(* The second of five parts.                                                *)
LEMMA SecondPart ==
  ASSUME NEW p \in Seq(Unit), NEW q \in Seq(Unit), NEW x \in Seq(Unit), NEW y \in Seq(Unit),
         NEW z \in Seq(Unit)
  PROVE  Follows((((p \o q) \o x) \o y) \o z, p, q)
<1> DEFINE f == p \o q
<1>1. f \in Seq(Unit)
  BY Joined
<1>2. \A i \in 1 .. Len(q) : Len(p) + i \in 1 .. Len(f) /\ f[Len(p) + i] = q[i]
  OBVIOUS
<1> HIDE DEF f
<1> DEFINE g == f \o x
<1>3. g \in Seq(Unit) /\ \A j \in 1 .. Len(f) : j \in 1 .. Len(g) /\ g[j] = f[j]
  BY <1>1
<1> HIDE DEF g
<1> DEFINE h == g \o y
<1>4. h \in Seq(Unit) /\ \A j \in 1 .. Len(g) : j \in 1 .. Len(h) /\ h[j] = g[j]
  BY <1>3
<1> HIDE DEF h
<1> DEFINE s == h \o z
<1>5. \A j \in 1 .. Len(h) : s[j] = h[j]
  BY <1>4
<1> HIDE DEF s
<1>6. Follows(s, p, q)
  BY <1>2, <1>3, <1>4, <1>5, Zenon DEF Follows
<1> QED
  BY <1>6 DEF f, g, h, s

(* What all of five parts are together; the first is all when it is as long.*)
LEMMA FirstIsAll ==
  ASSUME NEW p \in Seq(Unit), NEW q \in Seq(Unit), NEW x \in Seq(Unit), NEW y \in Seq(Unit),
         NEW z \in Seq(Unit), Len((((p \o q) \o x) \o y) \o z) = Len(p)
  PROVE  (((p \o q) \o x) \o y) \o z = p
<1>1. Len((((p \o q) \o x) \o y) \o z) = Len(p) + Len(q) + Len(x) + Len(y) + Len(z)
  OBVIOUS
<1>2. Len(q) = 0 /\ Len(x) = 0 /\ Len(y) = 0 /\ Len(z) = 0
  BY <1>1
<1>3. q = <<>> /\ x = <<>> /\ y = <<>> /\ z = <<>>
  BY <1>2
<1>4. (((p \o <<>>) \o <<>>) \o <<>>) \o <<>> = p
  OBVIOUS
<1> QED
  BY <1>3, <1>4, Zenon

(* Sequences of the same length with the same elements.                     *)
LEMMA SameUnits ==
  ASSUME NEW p \in Seq(Unit), NEW r \in Seq(Unit), Len(p) = Len(r),
         \A i \in 1 .. Len(p) : p[i] = r[i]
  PROVE  p = r
  OBVIOUS

(* Fronts of the same length are the same.                                  *)
LEMMA SameFront ==
  ASSUME NEW p \in Seq(Unit), NEW q \in Seq(Unit), NEW r \in Seq(Unit), NEW s \in Seq(Unit),
         p \o q = r \o s, Len(p) = Len(r)
  PROVE  p = r
<1>1. \A i \in 1 .. Len(p) : (p \o q)[i] = p[i]
  OBVIOUS
<1>2. \A i \in 1 .. Len(r) : (r \o s)[i] = r[i]
  OBVIOUS
<1>3. \A i \in 1 .. Len(p) : p[i] = r[i]
  BY <1>1, <1>2, Zenon
<1> QED
  BY <1>3, SameUnits, Zenon

(* A common front can be taken away.                                        *)
LEMMA SameRest ==
  ASSUME NEW p \in Seq(Unit), NEW q \in Seq(Unit), NEW r \in Seq(Unit), p \o q = p \o r
  PROVE  q = r
<1>1. Len(p \o q) = Len(p) + Len(q) /\ Len(p \o r) = Len(p) + Len(r)
  OBVIOUS
<1>2. Len(q) = Len(r)
  BY <1>1
<1>3. ASSUME NEW i \in 1 .. Len(q) PROVE q[i] = r[i]
  <2>1. (p \o q)[Len(p) + i] = q[i] /\ (p \o r)[Len(p) + i] = r[i]
    BY <1>2
  <2> QED
    BY <2>1
<1> QED
  BY <1>2, <1>3, SMTT(30)

(* The first line of what follows the first k units of t, when l is that    *)
(* line or the rest of t: its end is the first or the second unit.          *)
LEMMA FirstEnd ==
  ASSUME NEW l \in Seq(Unit), l # <<>>, NEW t \in Seq(Unit), NEW k \in Nat,
         \A i \in 1 .. Len(l) - 1 : l[i] # "nl",
         l[Len(l)] = "nl" \/ Len(l) = MaxLine \/ k + Len(l) = Len(t),
         \A i \in 1 .. Len(l) : t[k + i] = l[i]
  PROVE  /\ k + 1 <= Len(t) /\ t[k + 1] = "nl" => l = <<"nl">>
         /\ MaxLine > 1 /\ k + 2 <= Len(t) /\ t[k + 1] # "nl" /\ t[k + 2] = "nl"
              => l = <<t[k + 1], "nl">>
<1> DEFINE n == Len(l)
           m == Len(t)
<1>1. n \in Nat /\ n > 0 /\ m \in Nat
  OBVIOUS
<1>2. /\ \A i \in 1 .. n - 1 : l[i] # "nl"
      /\ l[n] = "nl" \/ n = MaxLine \/ k + n = m
      /\ \A i \in 1 .. n : t[k + i] = l[i]
  OBVIOUS
<1>3. MaxLine \in Nat
  BY SizesAssumption
<1>4. n = 1 => l = <<l[1]>>
  OBVIOUS
<1>5. n = 2 => l = <<l[1], l[2]>>
  OBVIOUS
<1> HIDE DEF n, m
<1>6. ASSUME k + 1 <= m, t[k + 1] = "nl" PROVE l = <<"nl">>
  <2>1. l[1] = "nl"
    BY <1>1, <1>2, <1>6
  <2>2. n = 1
    BY <1>1, <1>2, <2>1
  <2> QED
    BY <1>4, <2>1, <2>2
<1>7. ASSUME MaxLine > 1, k + 2 <= m, t[k + 1] # "nl", t[k + 2] = "nl"
      PROVE  l = <<t[k + 1], "nl">>
  <2>1. l[1] = t[k + 1] /\ l[1] # "nl"
    BY <1>1, <1>2, <1>7
  <2>2. n # 1
    BY <1>1, <1>2, <1>3, <1>7, <2>1
  <2>3. n >= 2
    BY <1>1, <2>2
  <2>4. l[2] = "nl"
    BY <1>2, <1>7, <2>3
  <2>5. n = 2
    BY <1>1, <1>2, <2>3, <2>4
  <2> QED
    BY <1>5, <2>1, <2>4, <2>5
<1> QED
  BY <1>6, <1>7 DEF m

-----------------------------------------------------------------------------
(* The data.                                                               *)

(* Every side has one other side.                                           *)
LEMMA Peers ==
  /\ Side = {"client", "server"}
  /\ Peer("client") = "server" /\ Peer("server") = "client"
  /\ \A p \in Side : Peer(p) \in Side /\ Peer(p) # p /\ Peer(Peer(p)) = p
<1>1. Peer("client") = "server" /\ Peer("server") = "client"
  BY DEF Peer, Side
<1> QED
  BY <1>1 DEF Side

(* What the two sides send is made of units.                                *)
LEMMA Texts ==
  ASSUME Shape
  PROVE  /\ RequestText \in Seq(Unit) /\ Header \in Seq(Unit) /\ ErrorPage \in Seq(Unit)
         /\ body \in Seq(Unit) /\ Payload \in Seq(Unit)
         /\ Len(RequestText) = 5 /\ Len(Header) = 5
<1>1. body \in Seq(Unit)
  <2>1. body \in Seq({"x", "nl"})
    BY BodiesAssumption DEF Shape
  <2>2. {"x", "nl"} \subseteq Unit
    BY DEF Unit
  <2> QED
    BY <2>1, <2>2
<1>2. /\ "nl" \in Unit /\ "host" \in Unit /\ "status" \in Unit /\ "tags" \in Unit
      /\ "e" \in Unit /\ method \in Unit
  BY DEF Unit, Shape
<1>3. RequestText \in Seq(Unit) /\ Len(RequestText) = 5
  BY <1>2 DEF RequestText
<1>4. Header \in Seq(Unit) /\ Len(Header) = 5
  BY <1>2 DEF Header
<1>5. ErrorPage \in Seq(Unit)
  BY <1>2 DEF ErrorPage
<1> QED
  BY <1>1, <1>3, <1>4, <1>5 DEF Payload

(* Where the line ends in the buffer: at the first unit that ends it, if    *)
(* there is one, else with the buffer.                                      *)
LEMMA LineEndFacts ==
  ASSUME Shape, NEW p \in Side, rioBuf[p] # <<>>
  PROVE  /\ LineEnd(p) \in 1 .. Len(rioBuf[p])
         /\ \A i \in 1 .. LineEnd(p) - 1 :
              rioBuf[p][i] # "nl" /\ Len(line[p]) + i # MaxLine
<1> DEFINE ends == {i \in 1 .. Len(rioBuf[p]) :
                      rioBuf[p][i] = "nl" \/ Len(line[p]) + i = MaxLine}
           e == LineEnd(p)
<1>1. Len(rioBuf[p]) \in Nat /\ Len(rioBuf[p]) > 0
  BY SMTT(30) DEF Shape
<1>2. e \in 1 .. Len(rioBuf[p]) /\ \A i \in ends : e <= i
  <2>1. CASE ends = {}
    <3>1. e = Len(rioBuf[p])
      BY <2>1 DEF LineEnd
    <3>2. e \in 1 .. Len(rioBuf[p])
      BY <1>1, <3>1
    <3> HIDE DEF ends, e
    <3> QED
      BY <2>1, <3>2
  <2>2. CASE ends # {}
    <3>1. \E m \in ends : \A k \in ends : m <= k
      <4>1. ends \subseteq Nat
        BY <1>1
      <4> QED
        BY <4>1, <2>2, LeastOf
    <3>2. e = CHOOSE i \in ends : \A j \in ends : i <= j
      BY <2>2 DEF LineEnd
    <3>3. e \in ends /\ \A j \in ends : e <= j
      BY <3>1, <3>2
    <3> QED
      BY <3>3
  <2> QED
    BY <2>1, <2>2
<1> QED
  BY <1>1, <1>2

(* A line that is not done, with more up to there, still fits its buffer.   *)
LEMMA LineGrows ==
  ASSUME NEW w \in Seq(Unit), LineFits(w),
         w # <<>> => Last(w) # "nl" /\ Len(w) # MaxLine,
         NEW r \in Seq(Unit), NEW e \in 1 .. Len(r),
         \A i \in 1 .. e - 1 : r[i] # "nl" /\ Len(w) + i # MaxLine
  PROVE  LineFits(w \o SubSeq(r, 1, e))
<1>1. Len(w) \in Nat /\ Len(r) \in Nat /\ e \in Nat /\ e > 0 /\ e <= Len(r)
  OBVIOUS
<1>2. MaxLine \in Nat /\ MaxLine > 0
  BY SizesAssumption
<1>3. Len(w) # MaxLine /\ Len(w) <= MaxLine /\ \A i \in 1 .. Len(w) : w[i] # "nl"
  <2>1. CASE w = <<>>
    BY <1>2, <2>1
  <2>2. CASE w # <<>>
    <3>1. w[Len(w)] # "nl" /\ Len(w) # MaxLine
      BY <2>2 DEF Last
    <3> QED
      BY <1>1, <3>1 DEF LineFits
  <2> QED
    BY <2>1, <2>2
<1> DEFINE s == SubSeq(r, 1, e)
           v == w \o s
<1>4. s \in Seq(Unit) /\ Len(s) = e /\ \A i \in 1 .. e : s[i] = r[i]
  BY <1>1
<1> HIDE DEF s
<1>5. /\ v \in Seq(Unit) /\ Len(v) = Len(w) + e
      /\ \A i \in 1 .. Len(v) : v[i] = IF i <= Len(w) THEN w[i] ELSE s[i - Len(w)]
  BY <1>4, ConcatPositions
<1> HIDE DEF v
<1>6. Len(w) + e <= MaxLine
  <2>1. SUFFICES ASSUME Len(w) + e > MaxLine PROVE FALSE
    BY <1>1, <1>2
  <2>2. MaxLine - Len(w) \in 1 .. e - 1 /\ Len(w) + (MaxLine - Len(w)) = MaxLine
    BY <1>1, <1>2, <1>3, <2>1
  <2> QED
    BY <2>2
<1>7. ASSUME NEW i \in 1 .. Len(v) - 1 PROVE v[i] # "nl"
  <2>1. i \in 1 .. Len(v) /\ v[i] = IF i <= Len(w) THEN w[i] ELSE s[i - Len(w)]
    BY <1>1, <1>5
  <2>2. CASE i <= Len(w)
    BY <1>1, <1>3, <2>1, <2>2
  <2>3. CASE ~(i <= Len(w))
    <3>1. i - Len(w) \in 1 .. e - 1 /\ i - Len(w) \in 1 .. e
      BY <1>1, <1>5, <2>3
    <3> QED
      BY <1>4, <2>1, <2>3, <3>1
  <2> QED
    BY <2>2, <2>3
<1>8. LineFits(v)
  BY <1>5, <1>6, <1>7 DEF LineFits
<1> QED
  BY <1>8 DEF v, s

-----------------------------------------------------------------------------
(* What the steps of one side do to the data, whoever takes them.          *)

(* Initially the invariant holds: everything is still to be sent.           *)
LEMMA InitInv == ASSUME Init PROVE IInv
<1>1. Shape
  <2>1. RequestText \in Seq(Unit)
    <3>1. method \in Unit /\ "nl" \in Unit /\ "host" \in Unit
      BY DEF Init, Unit
    <3> QED
      BY <3>1 DEF RequestText
  <2>2. out \in [Side -> Seq(Unit)]
    <3> DEFINE t == RequestText
               e == <<>>
    <3>1. out = [client |-> t, server |-> e] /\ t \in Seq(Unit) /\ e \in Seq(Unit)
      BY <2>1 DEF Init
    <3> HIDE DEF t, e
    <3> QED
      BY <3>1 DEF Side
  <2>3. at \in [Side -> ClientAt \cup ServerAt] /\ at.client \in ClientAt /\ at.server \in ServerAt
    BY DEF Init, Side, ClientAt, ServerAt
  <2> QED
    BY <2>2, <2>3 DEF Init, Shape, Side
<1>2. Sizes
  BY SizesAssumption DEF Init, Sizes, LineFits
<1>3. Ends /\ Silence /\ ServerKnows
  BY DEF Init, Ends, Silence, Silent, ServerKnows, Side
<1>4. StreamIntact
  <2>1. OnTheWay("server") = ((((<<>> \o <<>>) \o <<>>) \o <<>>) \o RequestText)
    BY Peers DEF Init, OnTheWay
  <2>2. RequestText \in Seq(Unit)
    BY <1>1, Texts
  <2>3. OnTheWay("server") = RequestText
    BY <2>1, <2>2
  <2> QED
    BY <2>3 DEF Init, StreamIntact
<1> QED
  BY <1>1, <1>2, <1>3, <1>4 DEF IInv

(* The types of what a side closes its socket with.                         *)
LEMMA ClosesType ==
  ASSUME Shape, NEW p \in Side, NEW where, Closes(p, where),
         p = "client" => where \in ClientAt, p = "server" => where \in ServerAt
  PROVE  /\ at' \in [Side -> ClientAt \cup ServerAt]
         /\ at'.client \in ClientAt /\ at'.server \in ServerAt
         /\ open' \in [Side -> BOOLEAN] /\ reset' \in BOOLEAN
  BY Peers DEF Shape, Closes

(* The steps of one side on its buffers keep the types and the sizes.       *)
LEMMA IoShape ==
  ASSUME Shape, Sizes, NEW p \in Side, Io(p)
  PROVE  Shape' /\ Sizes'
<1>1. ASSUME NEW q \in Side
      PROVE  /\ wire[q] \in Seq(Unit) /\ rioBuf[q] \in Seq(Unit) /\ line[q] \in Seq(Unit)
             /\ out[q] \in Seq(Unit) /\ got[q] \in Seq(Unit)
             /\ Len(wire[q]) <= Room /\ Len(rioBuf[q]) <= BufSize /\ LineFits(line[q])
  BY DEF Shape, Sizes
<1>2. Peer(p) \in Side
  BY Peers
<1>3. Room \in Nat /\ BufSize \in Nat
  BY SizesAssumption
<1>4. CASE Write(p)
  <2>1. PICK n \in 1 .. Len(out[p]) :
          /\ Len(wire[Peer(p)]) + n <= Room
          /\ wire' = [wire EXCEPT ![Peer(p)] = @ \o SubSeq(out[p], 1, n)]
          /\ out' = [out EXCEPT ![p] = SubSeq(out[p], n + 1, Len(out[p]))]
    BY <1>4 DEF Write, Unwritten
  <2> DEFINE a == SubSeq(out[p], 1, n)
             b == SubSeq(out[p], n + 1, Len(out[p]))
             w == wire[Peer(p)]
  <2>2. a \in Seq(Unit) /\ b \in Seq(Unit) /\ Len(a) = n
    BY <1>1
  <2>3. w \in Seq(Unit) /\ w \o a \in Seq(Unit) /\ Len(w \o a) = Len(w) + n
    BY <1>1, <1>2, <2>2
  <2>4. wire' \in [Side -> Seq(Unit)] /\ out' \in [Side -> Seq(Unit)]
    <3> HIDE DEF a, b
    <3> QED
      BY <2>1, <2>2, <2>3 DEF Shape, a, b
  <2>5. \A q \in Side : Len(wire'[q]) <= Room
    BY <1>1, <1>2, <2>1, <2>3 DEF Shape
  <2> QED
    BY <1>4, <2>4, <2>5 DEF Write, job, rio, Shape, Sizes, LineFits
<1>5. CASE WriteLost(p)
  <2>1. PICK n \in 1 .. Len(out[p]) :
          out' = [out EXCEPT ![p] = SubSeq(out[p], n + 1, Len(out[p]))]
    BY <1>5 DEF WriteLost, Unwritten
  <2>2. SubSeq(out[p], n + 1, Len(out[p])) \in Seq(Unit)
    BY <1>1
  <2>3. out' \in [Side -> Seq(Unit)]
    BY <2>1, <2>2 DEF Shape
  <2> QED
    BY <1>5, <2>3 DEF WriteLost, job, rio, Shape, Sizes, LineFits
<1>6. CASE WriteFails(p) \/ ReadFails(p)
  <2>1. Closes(p, "died") /\ UNCHANGED <<job, wire, rio, out, tagged, received, quit>>
    BY <1>6 DEF WriteFails, ReadFails
  <2>2. /\ at' \in [Side -> ClientAt \cup ServerAt]
        /\ at'.client \in ClientAt /\ at'.server \in ServerAt
        /\ open' \in [Side -> BOOLEAN] /\ reset' \in BOOLEAN
    <3>1. "died" \in ClientAt /\ "died" \in ServerAt
      BY DEF ClientAt, ServerAt
    <3> QED
      BY <2>1, <3>1, ClosesType
  <2> QED
    BY <2>1, <2>2 DEF job, rio, Shape, Sizes, LineFits
<1>7. CASE ReadSome(p)
  <2>1. PICK n \in 1 .. Len(wire[p]) :
          /\ n <= BufSize
          /\ rioBuf' = [rioBuf EXCEPT ![p] = SubSeq(wire[p], 1, n)]
          /\ wire' = [wire EXCEPT ![p] = SubSeq(@, n + 1, Len(@))]
    BY <1>7 DEF ReadSome
  <2> DEFINE a == SubSeq(wire[p], 1, n)
             b == SubSeq(wire[p], n + 1, Len(wire[p]))
  <2>2. a \in Seq(Unit) /\ b \in Seq(Unit) /\ Len(a) = n /\ Len(b) = Len(wire[p]) - n
    BY <1>1
  <2>3. wire' \in [Side -> Seq(Unit)] /\ rioBuf' \in [Side -> Seq(Unit)]
    <3> HIDE DEF a, b
    <3> QED
      BY <2>1, <2>2 DEF Shape, a, b
  <2>4. \A q \in Side : Len(wire'[q]) <= Room /\ Len(rioBuf'[q]) <= BufSize
    BY <1>1, <1>3, <2>1, <2>2, SMTT(30) DEF Shape
  <2> QED
    BY <1>7, <2>3, <2>4 DEF ReadSome, job, Shape, Sizes, LineFits
<1>8. CASE FillLine(p)
  <2> DEFINE e == LineEnd(p)
             a == line[p] \o SubSeq(rioBuf[p], 1, e)
             b == SubSeq(rioBuf[p], e + 1, Len(rioBuf[p]))
  <2>1. /\ rioBuf[p] # <<>> /\ ~LineDone(p)
        /\ line' = [line EXCEPT ![p] = a] /\ rioBuf' = [rioBuf EXCEPT ![p] = b]
    BY <1>8 DEF FillLine, NeedsMore, Unread, Shape
  <2>2. /\ e \in 1 .. Len(rioBuf[p])
        /\ \A i \in 1 .. e - 1 : rioBuf[p][i] # "nl" /\ Len(line[p]) + i # MaxLine
    BY <2>1, LineEndFacts
  <2> HIDE DEF e
  <2>3. line[p] # <<>> => Last(line[p]) # "nl" /\ Len(line[p]) # MaxLine
    BY <2>1 DEF LineDone
  <2>4. LineFits(a)
    BY <1>1, <2>2, <2>3, LineGrows
  <2>5. a \in Seq(Unit) /\ b \in Seq(Unit) /\ Len(b) = Len(rioBuf[p]) - e
    BY <1>1, <2>2
  <2> HIDE DEF a, b
  <2>6. line' \in [Side -> Seq(Unit)] /\ rioBuf' \in [Side -> Seq(Unit)]
    BY <2>1, <2>5 DEF Shape
  <2>7. \A q \in Side : Len(rioBuf'[q]) <= BufSize
    BY <1>1, <1>3, <2>1, <2>2, <2>5 DEF Shape
  <2>8. \A q \in Side : LineFits(line'[q])
    BY <1>1, <2>1, <2>4 DEF Shape
  <2> QED
    BY <1>8, <2>6, <2>7, <2>8 DEF FillLine, job, Shape, Sizes, LineFits
<1>9. CASE Overrun(p)
  <2>1. /\ at' \in [Side -> ClientAt \cup ServerAt]
        /\ at'.client \in ClientAt /\ at'.server \in ServerAt
    BY <1>9, Peers DEF Overrun, Shape, ClientAt, ServerAt
  <2> QED
    BY <1>9, <2>1 DEF Overrun, job, rio, Shape, Sizes, LineFits
<1> QED
  BY <1>4, <1>5, <1>6, <1>7, <1>8, <1>9 DEF Io


(* What a side is given, and what it keeps in its buffers.                  *)
LEMMA GetsShape ==
  ASSUME Shape, Sizes, NEW p \in Side, GetsLine(p) \/ GetsNothing(p)
  PROVE  /\ line' \in [Side -> Seq(Unit)] /\ rioBuf' \in [Side -> Seq(Unit)]
         /\ got' \in [Side -> Seq(Unit)]
         /\ \A q \in Side : Len(rioBuf'[q]) <= BufSize /\ LineFits(line'[q])
<1>1. CASE GetsLine(p)
  <2>1. got[p] \o line[p] \in Seq(Unit) /\ LineFits(<<>>)
    BY SizesAssumption DEF Shape, LineFits
  <2>2. got' \in [Side -> Seq(Unit)]
    BY <1>1, <2>1 DEF GetsLine, Shape
  <2>3. line' = [line EXCEPT ![p] = <<>>] /\ rioBuf' = rioBuf
    BY <1>1 DEF GetsLine
  <2>4. line' \in [Side -> Seq(Unit)]
    BY <2>3 DEF Shape
  <2>5. \A q \in Side : line'[q] = IF q = p THEN <<>> ELSE line[q]
    BY <2>3 DEF Shape
  <2>6. \A q \in Side : Len(rioBuf'[q]) <= BufSize /\ LineFits(line'[q])
    BY <2>1, <2>3, <2>5, Zenon DEF Sizes
  <2> QED
    BY <2>2, <2>3, <2>4, <2>6 DEF Shape
<1>2. CASE GetsNothing(p)
  BY <1>2 DEF GetsNothing, rio, Shape, Sizes
<1> QED
  BY <1>1, <1>2

(* The worker's own steps keep the types and the sizes.                     *)
LEMMA ServerShape ==
  ASSUME Shape, Sizes, RequestLine \/ RequestHeader \/ ServerCloses
  PROVE  Shape' /\ Sizes'
<1>1. "server" \in Side
  BY DEF Side
<1>2. ASSUME NEW payload \in Seq(Unit), Replies(payload),
             GetsLine("server") \/ GetsNothing("server")
      PROVE  Shape' /\ Sizes'
  <2>1. out' \in [Side -> Seq(Unit)]
    <3>1. Header \o payload \in Seq(Unit)
      BY <1>2, Texts
    <3> QED
      BY <1>2, <3>1 DEF Replies, Shape
  <2>2. /\ at' \in [Side -> ClientAt \cup ServerAt]
        /\ at'.client \in ClientAt /\ at'.server \in ServerAt
    BY <1>2, Peers DEF Replies, Shape, ServerAt
  <2> QED
    BY <1>1, <1>2, <2>1, <2>2, GetsShape DEF Replies, job, Shape, Sizes, LineFits
<1>3. ASSUME NEW where \in ServerAt, ServerGoes(where), GetsLine("server") \/ GetsNothing("server")
      PROVE  Shape' /\ Sizes'
  <2>1. /\ at' \in [Side -> ClientAt \cup ServerAt]
        /\ at'.client \in ClientAt /\ at'.server \in ServerAt
    BY <1>3, Peers DEF ServerGoes, Shape
  <2> QED
    BY <1>1, <1>3, <2>1, GetsShape DEF ServerGoes, job, Shape, Sizes, LineFits
<1>4. /\ ErrorPage \in Seq(Unit) /\ body \in Seq(Unit)
      /\ "headers1" \in ServerAt /\ "headers" \in ServerAt
  BY Texts DEF ServerAt
<1>5. CASE RequestLine
  <2>1. GetsLine("server") \/ GetsNothing("server")
    BY <1>5 DEF RequestLine
  <2>2. ServerGoes("headers1") \/ Replies(ErrorPage)
    BY <1>5 DEF RequestLine
  <2> QED
    BY <1>2, <1>3, <1>4, <2>1, <2>2
<1>6. CASE RequestHeader
  <2>1. GetsLine("server") \/ GetsNothing("server")
    BY <1>6 DEF RequestHeader
  <2>2. ServerGoes("headers") \/ Replies(ErrorPage) \/ Replies(body)
    BY <1>6 DEF RequestHeader, Answers
  <2> QED
    BY <1>2, <1>3, <1>4, <2>1, <2>2
<1>7. CASE ServerCloses
  <2>1. /\ at' \in [Side -> ClientAt \cup ServerAt]
        /\ at'.client \in ClientAt /\ at'.server \in ServerAt
        /\ open' \in [Side -> BOOLEAN] /\ reset' \in BOOLEAN
    <3>1. Closes("server", "done") /\ "done" \in ServerAt
      BY <1>7 DEF ServerCloses, ServerAt
    <3> QED
      BY <1>1, <3>1, ClosesType
  <2> QED
    BY <1>7, <2>1 DEF ServerCloses, job, rio, Shape, Sizes, LineFits
<1> QED
  BY <1>5, <1>6, <1>7

(* So do the client's.                                                      *)
LEMMA ClientShape ==
  ASSUME Shape, Sizes, ClientSent \/ ClientHeader \/ ClientBody \/ ClientEnds \/ Quit
  PROVE  Shape' /\ Sizes'
<1>1. "client" \in Side
  BY DEF Side
<1>2. ASSUME NEW where \in {"ok", "aborted", "quit"}, Closes("client", where)
      PROVE  /\ at' \in [Side -> ClientAt \cup ServerAt]
             /\ at'.client \in ClientAt /\ at'.server \in ServerAt
             /\ open' \in [Side -> BOOLEAN] /\ reset' \in BOOLEAN
  <2>1. where \in ClientAt
    BY DEF ClientAt
  <2> QED
    BY <1>1, <1>2, <2>1, ClosesType
<1>3. CASE ClientSent
  <2>1. /\ at' \in [Side -> ClientAt \cup ServerAt]
        /\ at'.client \in ClientAt /\ at'.server \in ServerAt
    BY <1>3, Peers DEF ClientSent, Shape, ClientAt
  <2> QED
    BY <1>3, <2>1 DEF ClientSent, job, rio, Shape, Sizes, LineFits
<1>4. CASE ClientHeader
  <2>1. GetsLine("client") \/ GetsNothing("client")
    BY <1>4 DEF ClientHeader
  <2>2. \E where \in {"header", "body"} : at' = [at EXCEPT !.client = where]
    BY <1>4 DEF ClientHeader
  <2>3. /\ at' \in [Side -> ClientAt \cup ServerAt]
        /\ at'.client \in ClientAt /\ at'.server \in ServerAt
    BY <2>2, Peers DEF Shape, ClientAt
  <2>4. tagged' \in BOOLEAN
    BY <1>4 DEF ClientHeader, Shape
  <2> QED
    BY <1>1, <1>4, <2>1, <2>3, <2>4, GetsShape DEF ClientHeader, job, Shape, Sizes, LineFits
<1>5. CASE ClientBody
  <2>1. received' \in Seq(Unit)
    <3>1. line.client \in Seq(Unit) /\ received \in Seq(Unit)
      BY <1>1 DEF Shape
    <3> QED
      BY <1>5, <3>1 DEF ClientBody, Counted
  <2> QED
    BY <1>1, <1>5, <2>1, GetsShape DEF ClientBody, job, Shape, Sizes, LineFits
<1>6. CASE ClientEnds
  <2>1. GetsNothing("client") /\ \E where \in {"ok", "aborted"} : Closes("client", where)
    BY <1>6 DEF ClientEnds
  <2> QED
    BY <1>1, <1>2, <1>6, <2>1, GetsShape DEF ClientEnds, job, Shape, Sizes, LineFits
<1>7. CASE Quit
  BY <1>2, <1>7 DEF Quit, job, rio, Shape, Sizes, LineFits
<1> QED
  BY <1>3, <1>4, <1>5, <1>6, <1>7


-----------------------------------------------------------------------------
(* Who closes first.                                                       *)

(* While the server has its socket open, and the client stays, no write and *)
(* no read of the server fails; and the client ends after the server only.  *)
LEMMA EndsNext ==
  ASSUME Shape, Ends, Next
  PROVE  Ends'
<1>1. /\ at["client"] \in ClientAt /\ at["server"] \in ServerAt
      /\ DOMAIN at = Side /\ DOMAIN open = Side
  BY DEF Shape
<1>2. ASSUME NEW p \in Side, Io(p) PROVE Ends'
  <2>1. p = "client" \/ p = "server"
    BY DEF Side
  <2>2. CASE Write(p)
    <3>1. p = "server" => at.server # "done"
      BY <2>2 DEF Write, Writing
    <3>2. out'.server = out.server \/ p = "server"
      BY <2>1, <2>2 DEF Write, Shape
    <3> QED
      BY <2>1, <2>2, <3>1, <3>2 DEF Write, Ends
  <2>3. CASE WriteLost(p)
    <3>1. p = "server" => at.server = "reply"
      BY <2>3 DEF WriteLost, Writing, ServerAt, Shape
    <3>2. out'.server = out.server \/ p = "server"
      BY <2>1, <2>3 DEF WriteLost, Shape
    <3> QED
      BY <2>1, <2>3, <3>1, <3>2, Peers DEF WriteLost, Ends
  <2>4. CASE WriteFails(p) \/ ReadFails(p)
    <3>1. /\ reset /\ Closes(p, "died") /\ UNCHANGED <<out, quit>>
          /\ Writing(p) \/ Reading(p)
      BY <2>4 DEF WriteFails, ReadFails, NeedsMore
    <3>2. at[p] \notin {"done", "died", "ok", "aborted", "quit"}
      BY <3>1 DEF Writing, Reading
    <3> QED
      BY <2>1, <3>1, <3>2, <1>1, Peers DEF Closes, Ends, Shape
  <2>5. CASE ReadSome(p)
    BY <2>5 DEF ReadSome, Ends
  <2>6. CASE FillLine(p)
    BY <2>6 DEF FillLine, Ends
  <2>7. CASE Overrun(p)
    <3>1. at[p] \notin {"done", "died", "ok", "aborted", "quit"}
      BY <2>7 DEF Overrun, Reading
    <3> QED
      BY <2>1, <2>7, <3>1, <1>1, Peers DEF Overrun, Ends, Shape
  <2> QED
    BY <1>2, <2>2, <2>3, <2>4, <2>5, <2>6, <2>7 DEF Io
<1>3. ASSUME RequestLine \/ RequestHeader PROVE Ends'
  <2>1. at.server \in {"request", "headers1", "headers"}
    BY <1>3 DEF RequestLine, RequestHeader
  <2>2. /\ at' = [at EXCEPT !.server = "reply"] \/ at' = [at EXCEPT !.server = "headers1"]
             \/ at' = [at EXCEPT !.server = "headers"]
        /\ UNCHANGED <<open, reset, quit>>
    BY <1>3 DEF RequestLine, RequestHeader, Replies, Answers, ServerGoes
  <2> QED
    BY <1>1, <2>1, <2>2, Peers DEF Ends
<1>4. CASE ServerCloses
  BY <1>1, <1>4, Peers DEF ServerCloses, Closes, Ends, Shape
<1>5. CASE ClientSent
  BY <1>1, <1>5, Peers DEF ClientSent, Ends
<1>6. CASE ClientHeader
  <2>1. at' = [at EXCEPT !.client = "header"] \/ at' = [at EXCEPT !.client = "body"]
    BY <1>6 DEF ClientHeader
  <2> QED
    BY <1>1, <1>6, <2>1, Peers DEF ClientHeader, Ends
<1>7. CASE ClientBody
  BY <1>7 DEF ClientBody, Ends
<1>8. CASE ClientEnds
  <2>1. ~open.server /\ ~reset
    BY <1>8, Peers DEF ClientEnds, GetsNothing, Eof
  <2>2. /\ Closes("client", "ok") \/ Closes("client", "aborted")
        /\ at.client = "body" /\ UNCHANGED <<out, quit>>
    BY <1>8 DEF ClientEnds
  <2> QED
    BY <1>1, <2>1, <2>2, Peers DEF Closes, Ends, Shape
<1>9. CASE Quit
  BY <1>1, <1>9, Peers DEF Quit, Closes, Ends, Shape
<1> QED
  BY <1>2, <1>3, <1>4, <1>5, <1>6, <1>7, <1>8, <1>9, Peers DEF Next, Server, Client

(* Before the server answers, nothing goes to the client.                   *)
LEMMA SilenceNext ==
  ASSUME Shape, Silence, Next
  PROVE  Silence'
<1>1. at["client"] \in ClientAt /\ at["server"] \in ServerAt /\ DOMAIN at = Side
  BY DEF Shape
<1>2. ASSUME NEW p \in Side, Io(p) PROVE Silence'
  <2>1. p = "client" \/ p = "server"
    BY DEF Side
  <2>2. CASE Write(p)
    <3>1. p = "server" => at.server = "reply"
      BY <1>1, <2>2 DEF Write, Writing, ServerAt
    <3>2. p = "client" => out'.server = out.server /\ wire'.client = wire.client
      BY <2>2, Peers DEF Write, Shape
    <3> QED
      BY <2>1, <2>2, <3>1, <3>2 DEF Write, rio, Silence, Silent
  <2>3. CASE WriteLost(p)
    <3>1. p = "server" => at.server = "reply"
      BY <1>1, <2>3 DEF WriteLost, Writing, ServerAt
    <3>2. p = "client" => out'.server = out.server
      BY <2>3, Peers DEF WriteLost, Shape
    <3> QED
      BY <2>1, <2>3, <3>1, <3>2 DEF WriteLost, rio, Silence, Silent
  <2>4. CASE WriteFails(p) \/ ReadFails(p)
    <3>1. Closes(p, "died") /\ UNCHANGED <<wire, rio, out>>
      BY <2>4 DEF WriteFails, ReadFails
    <3>2. at' = [at EXCEPT ![p] = "died"]
      BY <3>1 DEF Closes
    <3> QED
      BY <1>1, <2>1, <3>1, <3>2, Peers DEF rio, Silence, Silent
  <2>5. CASE ReadSome(p)
    <3>1. wire[p] # <<>> /\ at' = at
      BY <2>5 DEF ReadSome
    <3>2. p = "server" => rioBuf'.client = rioBuf.client /\ wire'.client = wire.client
      BY <2>5, Peers DEF ReadSome, Shape
    <3> QED
      BY <2>1, <2>5, <3>1, <3>2 DEF ReadSome, Silence, Silent
  <2>6. CASE FillLine(p)
    <3>1. rioBuf[p] # <<>> /\ at' = at
      BY <2>6 DEF FillLine
    <3>2. p = "server" => rioBuf'.client = rioBuf.client /\ line'.client = line.client
      BY <2>6, Peers DEF FillLine, Shape
    <3> QED
      BY <2>1, <2>6, <3>1, <3>2 DEF FillLine, Silence, Silent
  <2>7. CASE Overrun(p)
    <3>1. at' = [at EXCEPT ![p] = "wild"] /\ UNCHANGED <<wire, rio, out>>
      BY <2>7 DEF Overrun
    <3>2. at[p] \notin {"reply", "done", "died"}
      BY <2>7 DEF Overrun, Reading
    <3> QED
      BY <1>1, <2>1, <3>1, <3>2, Peers DEF rio, Silence, Silent
  <2> QED
    BY <1>2, <2>2, <2>3, <2>4, <2>5, <2>6, <2>7 DEF Io
<1>3. ASSUME NEW p \in Side, GetsLine(p) \/ GetsNothing(p), ~Silent \/ p = "server",
             Silent
      PROVE  /\ line'.client = line.client /\ rioBuf'.client = rioBuf.client
             /\ got'.client = got.client
  BY <1>3, Peers DEF GetsLine, GetsNothing, rio, Shape
<1>4. ASSUME RequestLine \/ RequestHeader PROVE Silence'
  <2>1. at.server \in {"request", "headers1", "headers"}
    BY <1>4 DEF RequestLine, RequestHeader
  <2>2. \/ at'.server = "reply"
        \/ UNCHANGED <<wire, out>>
    BY <1>4, <1>1, Peers DEF RequestLine, RequestHeader, Replies, Answers, ServerGoes
  <2>3. GetsLine("server") \/ GetsNothing("server")
    BY <1>4 DEF RequestLine, RequestHeader
  <2>4. Silent
    BY <2>1 DEF Silence
  <2> QED
    BY <1>3, <2>2, <2>3, <2>4, Peers DEF Silence, Silent
<1>5. CASE ServerCloses
  BY <1>1, <1>5, Peers DEF ServerCloses, Closes, Silence
<1>6. ASSUME ClientSent \/ ClientHeader \/ ClientBody \/ ClientEnds \/ Quit PROVE Silence'
  <2>1. \/ at' = at
        \/ \E where \in ClientAt : at' = [at EXCEPT !.client = where]
    BY <1>6 DEF ClientSent, ClientHeader, ClientBody, ClientEnds, Quit, Closes, ClientAt
  <2>2. at'.server = at.server /\ UNCHANGED <<wire, out>>
    BY <1>1, <1>6, <2>1, Peers DEF ClientSent, ClientHeader, ClientBody, ClientEnds, Quit
  <2>3. GetsLine("client") \/ UNCHANGED rio
    BY <1>6 DEF ClientSent, ClientHeader, ClientBody, ClientEnds, Quit, GetsNothing
  <2>4. GetsLine("client") => line.client # <<>>
    BY DEF GetsLine
  <2> QED
    BY <2>2, <2>3, <2>4 DEF rio, Silence, Silent
<1> QED
  BY <1>2, <1>4, <1>5, <1>6, Peers DEF Next, Server, Client


-----------------------------------------------------------------------------
(* The stream.                                                             *)

(* A write, a refill of the buffer and one of the line move the front of    *)
(* one part of a stream to the end of the part before it.                   *)
LEMMA MovesAlong ==
  ASSUME Shape, NEW p \in Side, Write(p) \/ ReadSome(p) \/ FillLine(p), NEW q \in Side
  PROVE  OnTheWay(q)' = OnTheWay(q)
<1>1. /\ wire[q] \in Seq(Unit) /\ rioBuf[q] \in Seq(Unit) /\ line[q] \in Seq(Unit)
      /\ out[Peer(q)] \in Seq(Unit) /\ got[q] \in Seq(Unit)
  BY Peers DEF Shape
<1> DEFINE g == got[q]
           l == line[q]
           r == rioBuf[q]
           w == wire[q]
           o == out[Peer(q)]
<1>2. OnTheWay(q) = (((g \o l) \o r) \o w) \o o
  BY DEF OnTheWay
<1>3. OnTheWay(q)' = (((got'[q] \o line'[q]) \o rioBuf'[q]) \o wire'[q]) \o out'[Peer(q)]
  BY DEF OnTheWay
<1>4. CASE Write(p)
  <2>1. PICK n \in 1 .. Len(out[p]) :
          /\ wire' = [wire EXCEPT ![Peer(p)] = @ \o SubSeq(out[p], 1, n)]
          /\ out' = [out EXCEPT ![p] = SubSeq(out[p], n + 1, Len(out[p]))]
          /\ UNCHANGED <<rioBuf, line, got>>
    BY <1>4 DEF Write, Unwritten, rio
  <2>2. CASE q = p
    <3>1. wire'[q] = wire[q] /\ out'[Peer(q)] = out[Peer(q)]
      BY <2>1, <2>2, Peers DEF Shape
    <3> QED
      BY <1>2, <1>3, <2>1, <3>1
  <2>3. CASE q # p
    <3>1. Peer(q) = p /\ q = Peer(p)
      BY <2>3, Peers
    <3>2. n \in 0 .. Len(o)
      BY <1>1, <3>1
    <3>3. wire'[q] = w \o SubSeq(o, 1, n) /\ out'[Peer(q)] = SubSeq(o, n + 1, Len(o))
      BY <2>1, <3>1 DEF Shape
    <3> DEFINE x == (g \o l) \o r
    <3>4. x \in Seq(Unit) /\ w \in Seq(Unit) /\ o \in Seq(Unit)
      BY <1>1
    <3> HIDE DEF x, w, o
    <3>5. (x \o (w \o SubSeq(o, 1, n))) \o SubSeq(o, n + 1, Len(o)) = (x \o w) \o o
      <4>1. Rejoins(x, w, o, n)
        BY <3>2, <3>4, Moved, Zenon
      <4> QED
        BY <4>1 DEF Rejoins
    <3>6. OnTheWay(q) = (x \o w) \o o
      BY <1>2 DEF x
    <3>7. OnTheWay(q)' = (x \o wire'[q]) \o out'[Peer(q)]
      BY <1>3, <2>1 DEF x
    <3> QED
      BY <3>3, <3>5, <3>6, <3>7
  <2> QED
    BY <2>2, <2>3
<1>5. CASE ReadSome(p)
  <2>1. PICK n \in 1 .. Len(wire[p]) :
          /\ rioBuf[p] = <<>>
          /\ rioBuf' = [rioBuf EXCEPT ![p] = SubSeq(wire[p], 1, n)]
          /\ wire' = [wire EXCEPT ![p] = SubSeq(@, n + 1, Len(@))]
          /\ UNCHANGED <<line, got, out>>
    BY <1>5 DEF ReadSome
  <2>2. CASE q # p
    <3>1. wire'[q] = wire[q] /\ rioBuf'[q] = rioBuf[q]
      BY <2>1, <2>2 DEF Shape
    <3> QED
      BY <1>2, <1>3, <2>1, <3>1
  <2>3. CASE q = p
    <3>1. n \in 0 .. Len(w)
      BY <1>1, <2>3
    <3>2. rioBuf'[q] = SubSeq(w, 1, n) /\ wire'[q] = SubSeq(w, n + 1, Len(w)) /\ r = <<>>
      BY <2>1, <2>3 DEF Shape
    <3> DEFINE x == g \o l
    <3>3. x \in Seq(Unit) /\ w \in Seq(Unit) /\ r \in Seq(Unit)
      BY <1>1
    <3>4. SubSeq(w, 1, n) \in Seq(Unit)
      BY <1>1, <3>1
    <3>5. r \o SubSeq(w, 1, n) = SubSeq(w, 1, n)
      <4> DEFINE a == SubSeq(w, 1, n)
      <4> HIDE DEF a, r
      <4>1. r \o a = a
        BY <3>2, <3>4 DEF a
      <4> QED
        BY <4>1 DEF a
    <3> HIDE DEF x, w, r, o
    <3>6. (x \o (r \o SubSeq(w, 1, n))) \o SubSeq(w, n + 1, Len(w)) = (x \o r) \o w
      <4>1. Rejoins(x, r, w, n)
        BY <3>1, <3>3, Moved, Zenon
      <4> QED
        BY <4>1 DEF Rejoins
    <3>7. OnTheWay(q) = ((x \o r) \o w) \o o
      BY <1>2 DEF x, r, w, o
    <3>8. OnTheWay(q)' = ((x \o rioBuf'[q]) \o wire'[q]) \o o
      BY <1>3, <2>1 DEF x, o
    <3> QED
      BY <3>2, <3>5, <3>6, <3>7, <3>8
  <2> QED
    BY <2>2, <2>3
<1>6. CASE FillLine(p)
  <2> DEFINE n == LineEnd(p)
  <2>1. /\ rioBuf[p] # <<>>
        /\ line' = [line EXCEPT ![p] = @ \o SubSeq(rioBuf[p], 1, n)]
        /\ rioBuf' = [rioBuf EXCEPT ![p] = SubSeq(rioBuf[p], n + 1, Len(rioBuf[p]))]
        /\ UNCHANGED <<wire, got, out>>
    BY <1>6 DEF FillLine, Unread
  <2>2. n \in 1 .. Len(rioBuf[p])
    BY <2>1, LineEndFacts, SMTT(30)
  <2> HIDE DEF n
  <2>3. CASE q # p
    <3>1. line'[q] = line[q] /\ rioBuf'[q] = rioBuf[q]
      BY <2>1, <2>3 DEF Shape
    <3> QED
      BY <1>2, <1>3, <2>1, <3>1
  <2>4. CASE q = p
    <3>1. n \in 0 .. Len(r)
      BY <1>1, <2>2, <2>4
    <3>2. line'[q] = l \o SubSeq(r, 1, n) /\ rioBuf'[q] = SubSeq(r, n + 1, Len(r))
      BY <2>1, <2>4 DEF Shape
    <3>3. g \in Seq(Unit) /\ l \in Seq(Unit) /\ r \in Seq(Unit)
      BY <1>1
    <3> HIDE DEF g, l, r, w, o
    <3>4. (g \o (l \o SubSeq(r, 1, n))) \o SubSeq(r, n + 1, Len(r)) = (g \o l) \o r
      <4>1. Rejoins(g, l, r, n)
        BY <3>1, <3>3, Moved, Zenon
      <4> QED
        BY <4>1 DEF Rejoins
    <3>5. OnTheWay(q) = (((g \o l) \o r) \o w) \o o
      BY <1>2 DEF g, l, r, w, o
    <3>6. OnTheWay(q)' = (((g \o line'[q]) \o rioBuf'[q]) \o w) \o o
      BY <1>3, <2>1 DEF g, w, o
    <3> QED
      BY <3>2, <3>4, <3>5, <3>6
  <2> QED
    BY <2>3, <2>4
<1> QED
  BY <1>4, <1>5, <1>6

(* So does a line that is given to the caller.                              *)
LEMMA GivenAlong ==
  ASSUME Shape, NEW p \in Side, GetsLine(p) \/ GetsNothing(p), NEW q \in Side,
         wire'[q] = wire[q], out'[Peer(q)] = out[Peer(q)]
  PROVE  OnTheWay(q)' = OnTheWay(q)
<1>1. OnTheWay(q) = (((got[q] \o line[q]) \o rioBuf[q]) \o wire[q]) \o out[Peer(q)]
  BY DEF OnTheWay
<1>2. OnTheWay(q)' = (((got'[q] \o line'[q]) \o rioBuf'[q]) \o wire'[q]) \o out'[Peer(q)]
  BY DEF OnTheWay
<1>3. got'[q] \o line'[q] = got[q] \o line[q] /\ rioBuf' = rioBuf
  <2>1. CASE GetsLine(p) /\ q = p
    <3>1. got'[q] = got[q] \o line[q] /\ line'[q] = <<>> /\ rioBuf' = rioBuf
      BY <2>1 DEF GetsLine, Shape
    <3>2. got[q] \o line[q] \in Seq(Unit)
      BY DEF Shape
    <3>3. (got[q] \o line[q]) \o <<>> = got[q] \o line[q]
      BY <3>2
    <3> QED
      BY <3>1, <3>3
  <2>2. CASE GetsLine(p) /\ q # p
    BY <2>2 DEF GetsLine, Shape
  <2>3. CASE GetsNothing(p)
    BY <2>3 DEF GetsNothing, rio
  <2> QED
    BY <2>1, <2>2, <2>3
<1> QED
  BY <1>1, <1>2, <1>3

(* The first unit of the first line is the method.                          *)
LEMMA MethodIsFirst ==
  ASSUME Shape, got.server = <<>>, line.server # <<>>, OnTheWay("server") = RequestText
  PROVE  Head(line.server) = method
<1> DEFINE l == line["server"]
           r == rioBuf["server"]
           w == wire["server"]
           o == out["client"]
<1>1. l \in Seq(Unit) /\ r \in Seq(Unit) /\ w \in Seq(Unit) /\ o \in Seq(Unit) /\ Len(l) > 0
  BY Peers DEF Shape
<1>2. OnTheWay("server") = (((<<>> \o l) \o r) \o w) \o o
  BY Peers DEF OnTheWay
<1> HIDE DEF l, r, w, o
<1>3. r \o w \in Seq(Unit)
  BY <1>1
<1>4. OnTheWay("server") = (l \o (r \o w)) \o o
  <2>1. (((<<>> \o l) \o r) \o w) \o o = (l \o (r \o w)) \o o
    BY <1>1
  <2> QED
    BY <1>2, <2>1
<1>5. 1 \in 1 .. Len(l)
  BY <1>1
<1>6. ((l \o (r \o w)) \o o)[1] = l[1]
  <2> DEFINE m == r \o w
  <2>1. m \in Seq(Unit)
    BY <1>3
  <2> HIDE DEF m
  <2>2. ((l \o m) \o o)[1] = l[1]
    BY <1>1, <1>5, <2>1, Within
  <2> QED
    BY <2>2 DEF m
<1>7. RequestText[1] = method
  BY DEF RequestText
<1>8. l[1] = method
  BY <1>4, <1>6, <1>7
<1>9. Head(l) = l[1]
  BY <1>1
<1> QED
  BY <1>8, <1>9 DEF l


(* What the exchange is about does not change, and what went wrong stays so. *)
LEMMA JobStays ==
  ASSUME Shape, Next
  PROVE  UNCHANGED job /\ (reset => reset') /\ (quit => quit')
<1>1. ASSUME NEW p \in Side, Io(p) PROVE UNCHANGED job /\ (reset => reset') /\ (quit => quit')
  <2>1. CASE Write(p)
    BY <2>1 DEF Write
  <2>2. CASE WriteLost(p)
    BY <2>2 DEF WriteLost
  <2>3. CASE WriteFails(p) \/ ReadFails(p)
    BY <2>3 DEF WriteFails, ReadFails, Closes, Shape
  <2>4. CASE ReadSome(p)
    BY <2>4 DEF ReadSome
  <2>5. CASE FillLine(p)
    BY <2>5 DEF FillLine
  <2>6. CASE Overrun(p)
    BY <2>6 DEF Overrun
  <2> QED
    BY <1>1, <2>1, <2>2, <2>3, <2>4, <2>5, <2>6 DEF Io
<1>2. ASSUME RequestLine \/ RequestHeader \/ ServerCloses
      PROVE  UNCHANGED job /\ (reset => reset') /\ (quit => quit')
  BY <1>2 DEF RequestLine, RequestHeader, Answers, Replies, ServerGoes, ServerCloses, Closes,
              Shape
<1>3. ASSUME ClientSent \/ ClientHeader \/ ClientBody \/ ClientEnds \/ Quit
      PROVE  UNCHANGED job /\ (reset => reset') /\ (quit => quit')
  BY <1>3 DEF ClientSent, ClientHeader, ClientBody, ClientEnds, Quit, Closes, Shape
<1> QED
  BY <1>1, <1>2, <1>3, Peers DEF Next, Server, Client

(* The server finds no end of the input before the request is there: that   *)
(* would take a client that has left.                                       *)
LEMMA ServerGetsAll ==
  ASSUME Shape, Ends, ~quit, GetsNothing("server") \/ (GetsLine("server") /\ ~LineDone("server"))
  PROVE  FALSE
<1>1. Eof("server") /\ Reading("server")
  BY DEF GetsNothing, GetsLine
<1>2. ~open.client /\ at.server \notin {"done", "died"}
  BY <1>1, Peers DEF Eof, Reading
<1> QED
  BY <1>2 DEF Ends

(* The server goes on to the headers only after a GET.                      *)
LEMMA ServerKnowsNext ==
  ASSUME IInv, Next
  PROVE  ServerKnows'
<1>1. /\ at["client"] \in ClientAt /\ at["server"] \in ServerAt
      /\ DOMAIN at = Side /\ DOMAIN got = Side
  BY DEF IInv, Shape
<1>2. method' = method /\ (reset => reset') /\ (quit => quit')
  BY JobStays DEF IInv, job
<1>3. ASSUME at'.server = at.server, got'.server = got.server
      PROVE  ServerKnows'
  BY <1>2, <1>3 DEF IInv, ServerKnows
<1>4. ASSUME NEW p \in Side, Io(p) PROVE ServerKnows'
  <2>1. got' = got
    BY <1>4 DEF Io, Write, WriteLost, WriteFails, ReadSome, FillLine, Overrun, ReadFails, rio
  <2>2. \/ at' = at
        \/ at' = [at EXCEPT ![p] = "died"]
        \/ at' = [at EXCEPT ![p] = "wild"]
    BY <1>4 DEF Io, Write, WriteLost, WriteFails, ReadSome, FillLine, Overrun, ReadFails, Closes
  <2>3. at'.server = at.server \/ at'.server \in {"died", "wild"}
    BY <1>1, <2>2, Peers
  <2> QED
    BY <1>3, <2>1, <2>3 DEF ServerKnows
<1>5. CASE RequestLine
  <2>1. CASE at'.server = "reply"
    BY <2>1 DEF ServerKnows
  <2>2. CASE at'.server # "reply"
    <3>1. /\ at.server = "request" /\ ServerGoes("headers1")
          /\ \/ GetsLine("server") /\ Head(line.server) = "get"
             \/ GetsNothing("server")
      BY <1>1, <1>5, <2>2, Peers DEF RequestLine, Replies
    <3>2. at'.server = "headers1"
      BY <1>1, <3>1, Peers DEF ServerGoes
    <3>3. ASSUME ~reset', ~quit' PROVE method = "get"
      <4>1. GetsLine("server") /\ Head(line.server) = "get"
        BY <1>2, <3>1, <3>3, ServerGetsAll DEF IInv
      <4>2. line.server # <<>> /\ got.server = <<>>
        BY <3>1, <4>1 DEF GetsLine, IInv, ServerKnows
      <4>3. OnTheWay("server") = RequestText
        BY <1>2, <3>3 DEF IInv, StreamIntact
      <4> QED
        BY <4>1, <4>2, <4>3, MethodIsFirst DEF IInv
    <3> QED
      BY <1>2, <3>2, <3>3 DEF ServerKnows
  <2> QED
    BY <2>1, <2>2
<1>6. CASE RequestHeader
  <2>1. at.server \in {"headers1", "headers"} /\ at'.server \in {"reply", "headers"}
    BY <1>1, <1>6, Peers DEF RequestHeader, Answers, Replies, ServerGoes
  <2> QED
    BY <1>2, <2>1 DEF IInv, ServerKnows
<1>7. CASE ServerCloses
  BY <1>1, <1>7, Peers DEF ServerCloses, Closes, ServerKnows
<1>8. ASSUME ClientSent \/ ClientHeader \/ ClientBody \/ ClientEnds \/ Quit PROVE ServerKnows'
  <2>1. \/ at' = at
        \/ \E where \in ClientAt : at' = [at EXCEPT !.client = where]
    BY <1>8 DEF ClientSent, ClientHeader, ClientBody, ClientEnds, Quit, Closes, ClientAt
  <2>2. GetsLine("client") \/ UNCHANGED rio
    BY <1>8 DEF ClientSent, ClientHeader, ClientBody, ClientEnds, Quit, GetsNothing
  <2>3. at'.server = at.server /\ got'.server = got.server
    BY <1>1, <2>1, <2>2, Peers DEF GetsLine, rio
  <2> QED
    BY <1>3, <2>3
<1> QED
  BY <1>4, <1>5, <1>6, <1>7, <1>8, Peers DEF Next, Server, Client

(* What the server begins to send is all that it has to say.                *)
LEMMA ReplyIsWhole ==
  ASSUME IInv, RequestLine \/ RequestHeader, ~reset, ~quit, at'.server \in {"reply", "done"}
  PROVE  OnTheWay("client")' = Header \o Payload
<1>1. at["client"] \in ClientAt /\ at["server"] \in ServerAt /\ DOMAIN at = Side
  BY DEF IInv, Shape
<1>2. ~GetsNothing("server")
  BY ServerGetsAll DEF IInv
<1>3. GetsLine("server") /\ Replies(Payload) /\ at.server \notin {"reply", "done", "died"}
  <2>1. CASE RequestLine
    <3>1. at.server = "request" /\ GetsLine("server")
      BY <1>2, <2>1 DEF RequestLine
    <3>2. Head(line.server) # "get" /\ Replies(ErrorPage)
      BY <1>1, <1>2, <2>1, Peers DEF RequestLine, ServerGoes
    <3>3. method # "get"
      <4>1. OnTheWay("server") = RequestText /\ got.server = <<>> /\ line.server # <<>>
        BY <3>1 DEF IInv, StreamIntact, ServerKnows, GetsLine
      <4> QED
        BY <3>2, <4>1, MethodIsFirst DEF IInv
    <3> QED
      BY <3>1, <3>2, <3>3 DEF Payload, Served
  <2>2. CASE RequestHeader
    <3>1. at.server \in {"headers1", "headers"} /\ GetsLine("server")
      BY <1>2, <2>2 DEF RequestHeader
    <3>2. Answers
      BY <1>1, <1>2, <2>2, Peers DEF RequestHeader, ServerGoes
    <3>3. method = "get"
      BY <3>1 DEF IInv, ServerKnows
    <3> QED
      BY <3>1, <3>2, <3>3 DEF Answers, Payload, Served
  <2> QED
    BY <2>1, <2>2
<1>4. Silent
  BY <1>3 DEF IInv, Silence
<1>5. /\ got'["client"] = <<>> /\ line'["client"] = <<>> /\ rioBuf'["client"] = <<>>
      /\ wire'["client"] = <<>> /\ out'["server"] = Header \o Payload
  <2>1. out'["server"] = Header \o Payload
    BY <1>3, Peers DEF Replies, IInv, Shape
  <2> QED
    BY <1>3, <1>4, <2>1, Peers DEF Replies, GetsLine, Silent, IInv, Shape
<1>6. OnTheWay("client")' = (((<<>> \o <<>>) \o <<>>) \o <<>>) \o (Header \o Payload)
  BY <1>5, Peers DEF OnTheWay
<1>7. Header \o Payload \in Seq(Unit)
  BY Texts DEF IInv
<1> DEFINE h == Header \o Payload
<1> HIDE DEF h
<1>8. h \in Seq(Unit)
  BY <1>7 DEF h
<1>9. (((<<>> \o <<>>) \o <<>>) \o <<>>) \o h = h
  BY <1>8
<1> QED
  BY <1>6, <1>9 DEF h

(* While nobody leaves and nothing is reset, nothing is lost.               *)
LEMMA StreamNext ==
  ASSUME IInv, Next
  PROVE  StreamIntact'
<1>1. at["client"] \in ClientAt /\ at["server"] \in ServerAt /\ DOMAIN at = Side
  BY DEF IInv, Shape
<1>2. UNCHANGED job /\ (reset => reset') /\ (quit => quit')
  BY JobStays DEF IInv, job
<1>3. RequestText' = RequestText /\ (Header \o Payload)' = Header \o Payload
  BY <1>2 DEF job, RequestText, Header, Payload, Served, ErrorPage
<1> SUFFICES ASSUME ~reset', ~quit'
             PROVE  /\ OnTheWay("server")' = RequestText
                    /\ at'.server \in {"reply", "done"} =>
                         OnTheWay("client")' = Header \o Payload
  BY <1>3 DEF StreamIntact
<1>4. ~reset /\ ~quit
  BY <1>2
<1>5. /\ OnTheWay("server") = RequestText
      /\ at.server \in {"reply", "done"} => OnTheWay("client") = Header \o Payload
  BY <1>4 DEF IInv, StreamIntact
<1>6. ASSUME \A q \in Side : OnTheWay(q)' = OnTheWay(q),
             at'.server \in {"reply", "done"} => at.server \in {"reply", "done"}
      PROVE  /\ OnTheWay("server")' = RequestText
             /\ at'.server \in {"reply", "done"} => OnTheWay("client")' = Header \o Payload
  <2>1. OnTheWay("server")' = OnTheWay("server") /\ OnTheWay("client")' = OnTheWay("client")
    BY <1>6, Peers
  <2> QED
    BY <1>5, <1>6, <2>1
<1>7. ASSUME UNCHANGED <<rio, wire, out>>, NEW q \in Side PROVE OnTheWay(q)' = OnTheWay(q)
  BY <1>7 DEF OnTheWay, rio
<1>8. ASSUME NEW p \in Side, Io(p)
      PROVE  /\ \A q \in Side : OnTheWay(q)' = OnTheWay(q)
             /\ at'.server \in {"reply", "done"} => at.server \in {"reply", "done"}
  <2>1. CASE Write(p) \/ ReadSome(p) \/ FillLine(p)
    <3>1. at' = at
      BY <2>1 DEF Write, ReadSome, FillLine
    <3> QED
      BY <2>1, <3>1, MovesAlong DEF IInv
  <2>2. CASE WriteLost(p) \/ WriteFails(p) \/ ReadFails(p)
    BY <1>4, <2>2 DEF WriteLost, WriteFails, ReadFails
  <2>3. CASE Overrun(p)
    <3>1. UNCHANGED <<rio, wire, out>> /\ at' = [at EXCEPT ![p] = "wild"]
      BY <2>3 DEF Overrun
    <3> QED
      BY <1>1, <1>7, <3>1, Peers
  <2> QED
    BY <1>8, <2>1, <2>2, <2>3 DEF Io
<1>9. CASE RequestLine \/ RequestHeader
  <2>1. GetsLine("server") \/ GetsNothing("server")
    BY <1>9 DEF RequestLine, RequestHeader
  <2>2. wire' = wire /\ out'["client"] = out["client"]
    BY <1>9, Peers DEF RequestLine, RequestHeader, Answers, Replies, ServerGoes, IInv, Shape
  <2>3. OnTheWay("server")' = OnTheWay("server")
    BY <2>1, <2>2, GivenAlong, Peers DEF IInv
  <2> QED
    BY <1>4, <1>5, <1>9, <2>3, ReplyIsWhole
<1>10. CASE ServerCloses
  <2>1. UNCHANGED <<rio, wire, out>> /\ at.server = "reply"
    BY <1>10 DEF ServerCloses
  <2> QED
    BY <1>6, <1>7, <2>1
<1>11. ASSUME ClientSent \/ ClientHeader \/ ClientBody \/ ClientEnds \/ Quit
       PROVE  /\ \A q \in Side : OnTheWay(q)' = OnTheWay(q)
              /\ at'.server = at.server
  <2>1. \/ at' = at
        \/ \E where \in ClientAt : at' = [at EXCEPT !.client = where]
    BY <1>11 DEF ClientSent, ClientHeader, ClientBody, ClientEnds, Quit, Closes, ClientAt
  <2>2. GetsLine("client") \/ UNCHANGED rio
    BY <1>11 DEF ClientSent, ClientHeader, ClientBody, ClientEnds, Quit, GetsNothing
  <2>3. UNCHANGED <<wire, out>>
    BY <1>11 DEF ClientSent, ClientHeader, ClientBody, ClientEnds, Quit
  <2>4. \A q \in Side : OnTheWay(q)' = OnTheWay(q)
    BY <1>7, <2>2, <2>3, GivenAlong, Peers DEF IInv
  <2> QED
    BY <1>1, <2>1, <2>4, Peers
<1> QED
  BY <1>6, <1>8, <1>9, <1>10, <1>11, Peers DEF Next, Server, Client

-----------------------------------------------------------------------------
(* The theorems.                                                           *)

(* A step keeps the invariant.                                              *)
LEMMA NextInv ==
  ASSUME IInv, [Next]_vars
  PROVE  IInv'
<1>1. CASE Next
  <2>1. Shape' /\ Sizes'
    BY <1>1, IoShape, ServerShape, ClientShape, Peers DEF IInv, Next, Server, Client
  <2> QED
    BY <1>1, <2>1, EndsNext, SilenceNext, ServerKnowsNext, StreamNext DEF IInv
<1>2. CASE UNCHANGED vars
  BY <1>2 DEF vars, IInv, Shape, Sizes, LineFits, Ends, Silence, Silent, ServerKnows, StreamIntact,
              OnTheWay, RequestText, Header, Payload, Served, ErrorPage
<1> QED
  BY <1>1, <1>2

(* The invariant holds of every behaviour of the two sides.                 *)
THEOREM Invariance == Spec => []IInv
<1>1. Init => IInv
  BY InitInv
<1>2. IInv /\ [Next]_vars => IInv'
  BY NextInv
<1> QED
  BY <1>1, <1>2, PTL DEF Spec

(* Every buffer holds what it should, and no more than it has room for:     *)
(* rio_readlineb stops at maxlen, rio_read takes at most RIO_BUFSIZE.       *)
THEOREM TypesHold == Spec => []TypeOK
<1>1. IInv => TypeOK
  BY DEF IInv, Shape, Sizes, LineFits, TypeOK
<1> QED
  BY <1>1, Invariance, PTL

(* Whatever the sizes of the pieces that the socket takes and gives, of the *)
(* buffers and of the lines: nothing that rio_write sends is lost, doubled  *)
(* or moved before rio_readlineb gives it to its caller.                    *)
THEOREM StreamArrives == Spec => []StreamIntact
<1>1. IInv => StreamIntact
  BY DEF IInv
<1> QED
  BY <1>1, Invariance, PTL

(* A worker that loops in request_read_headers, or whose failing write ends *)
(* the server, has met a client that left early.                            *)
THEOREM OnlyAQuitterHurts == Spec => []OnlyQuittersHurt
<1>1. ASSUME IInv PROVE OnlyQuittersHurt
  <2>1. ASSUME Spins PROVE quit
    <3>1. ~open.client /\ at.server = "headers"
      BY <2>1, Peers DEF Spins, Eof
    <3> QED
      BY <1>1, <3>1 DEF IInv, Ends
  <2> QED
    BY <1>1, <2>1 DEF OnlyQuittersHurt, IInv, Ends
<1> QED
  BY <1>1, Invariance, PTL

-----------------------------------------------------------------------------
(* The two sides never wait for each other.                                *)

(* p is in a system call that does not return before the peer does          *)
(* something: write finds the way full, or read finds nothing on it.        *)
Waits(p) ==
  /\ ~reset /\ open[Peer(p)]
  /\ \/ Writing(p) /\ Len(wire[Peer(p)]) = Room
     \/ NeedsMore(p) /\ rioBuf[p] = <<>> /\ wire[p] = <<>>

NeverBothWait == ~ (Waits("client") /\ Waits("server"))

(* A server that still reads has not been given the whole request, and a    *)
(* client that reads has sent it.                                           *)
Pending ==
  /\ at.server \in {"request", "headers1", "headers"} /\ ~reset /\ ~quit
       => got.server # RequestText
  /\ at.client \in {"header1", "header", "body"} => out.client = <<>>

(* The line that completes the request is the empty one.                    *)
LEMMA LastLine ==
  ASSUME Shape, NEW g \in Seq(Unit), NEW l \in Seq(Unit), l # <<>>, LineFits(l),
         g \o l = RequestText
  PROVE  l = EmptyLine
<1>1. Len(g) \in Nat /\ Len(l) \in Nat /\ Len(l) > 0 /\ Len(g) + Len(l) = 5
  <2>1. Len(g) \in Nat /\ Len(l) \in Nat /\ Len(l) # 0 /\ Len(g \o l) = Len(g) + Len(l)
    OBVIOUS
  <2>2. Len(g) + Len(l) = 5
    BY <2>1, Texts, Zenon
  <2>3. Len(l) > 0
    BY <2>1
  <2> QED
    BY <2>1, <2>2, <2>3
<1>2. RequestText[4] = "nl" /\ RequestText[5] = "nl"
  BY DEF RequestText
<1>3. \A i \in 1 .. Len(l) : (g \o l)[Len(g) + i] = l[i]
  OBVIOUS
<1>4. l[Len(l)] = "nl"
  <2>1. Len(l) \in 1 .. Len(l) /\ Len(g) + Len(l) = 5
    BY <1>1
  <2>2. (g \o l)[Len(g) + Len(l)] = l[Len(l)]
    BY <1>3, <2>1
  <2> QED
    BY <1>2, <2>1, <2>2
<1>5. Len(l) = 1
  <2> SUFFICES ASSUME Len(l) # 1 PROVE FALSE
    OBVIOUS
  <2>1. Len(l) - 1 \in 1 .. Len(l) - 1 /\ Len(l) - 1 \in 1 .. Len(l)
        /\ Len(g) + (Len(l) - 1) = 4
    <3> DEFINE m == Len(g)
               n == Len(l)
    <3>1. m \in Nat /\ n \in Nat /\ n > 0 /\ n # 1 /\ m + n = 5
      BY <1>1
    <3> HIDE DEF m, n
    <3>2. n - 1 \in 1 .. n - 1 /\ n - 1 \in 1 .. n /\ m + (n - 1) = 4
      BY <3>1
    <3> QED
      BY <3>2 DEF m, n
  <2>2. (g \o l)[Len(g) + (Len(l) - 1)] = l[Len(l) - 1]
    BY <1>3, <2>1
  <2>3. l[Len(l) - 1] # "nl"
    BY <2>1 DEF LineFits
  <2> QED
    BY <1>2, <2>1, <2>2, <2>3
<1> QED
  BY <1>4, <1>5 DEF EmptyLine

(* The server goes on reading only after another line.                      *)
LEMMA ServerPending ==
  ASSUME IInv, Pending, RequestLine \/ RequestHeader, ~reset, ~quit,
         at'.server \in {"request", "headers1", "headers"}
  PROVE  got'.server # RequestText
<1>1. /\ at["client"] \in ClientAt /\ at["server"] \in ServerAt
      /\ DOMAIN at = Side /\ DOMAIN got = Side
      /\ got.server \in Seq(Unit) /\ line.server \in Seq(Unit) /\ LineFits(line.server)
  BY Peers DEF IInv, Shape, Sizes
<1>2. ~GetsNothing("server")
  BY ServerGetsAll DEF IInv
<1>3. GetsLine("server")
  BY <1>2 DEF RequestLine, RequestHeader
<1>4. got'.server = got.server \o line.server /\ line.server # <<>>
  BY <1>1, <1>3, Peers DEF GetsLine
<1>5. line.server # EmptyLine
  <2>1. CASE RequestLine
    <3>1. Head(line.server) = "get"
      BY <1>1, <1>2, <2>1, Peers DEF RequestLine, Replies
    <3> QED
      BY <3>1 DEF EmptyLine
  <2>2. CASE RequestHeader
    BY <1>1, <1>2, <2>2, Peers DEF RequestHeader, Answers, Replies, EndOfHeaders
  <2> QED
    BY <2>1, <2>2
<1> QED
  BY <1>1, <1>4, <1>5, LastLine DEF IInv

(* Every step keeps it so.                                                  *)
LEMMA PendingNext ==
  ASSUME IInv, Pending, [Next]_vars
  PROVE  Pending'
<1>1. /\ at["client"] \in ClientAt /\ at["server"] \in ServerAt
      /\ DOMAIN at = Side /\ DOMAIN got = Side /\ DOMAIN out = Side
  BY DEF IInv, Shape
<1>2. CASE UNCHANGED vars
  BY <1>2 DEF vars, Pending, RequestText
<1> SUFFICES ASSUME Next PROVE Pending'
  BY <1>2
<1>3. RequestText' = RequestText /\ (reset => reset') /\ (quit => quit')
  BY JobStays DEF IInv, job, RequestText
<1>4. ASSUME NEW p \in Side, Io(p) PROVE Pending'
  <2>1. got' = got
    BY <1>4 DEF Io, Write, WriteLost, WriteFails, ReadSome, FillLine, Overrun, ReadFails, rio
  <2>2. \/ at' = at
        \/ at' = [at EXCEPT ![p] = "died"]
        \/ at' = [at EXCEPT ![p] = "wild"]
    BY <1>4 DEF Io, Write, WriteLost, WriteFails, ReadSome, FillLine, Overrun, ReadFails, Closes
  <2>3. \A q \in Side : at'[q] = at[q] \/ at'[q] \in {"died", "wild"}
    BY <1>1, <2>2
  <2>4. out' = out \/ (Writing(p) /\ \E s : out' = [out EXCEPT ![p] = s])
    BY <1>4 DEF Io, Write, WriteLost, WriteFails, ReadSome, FillLine, Overrun, ReadFails
  <2>5. out'["client"] = out["client"] \/ at["client"] = "send" \/ p # "client"
    BY <2>4, <1>1 DEF Writing, ClientAt
  <2>6. p # "client" => out'["client"] = out["client"]
    BY <1>1, <2>4, Peers
  <2> QED
    BY <1>3, <2>1, <2>3, <2>5, <2>6, Peers DEF Pending
<1>5. CASE RequestLine \/ RequestHeader
  <2>1. at'.client = at.client /\ out'.client = out.client
    BY <1>1, <1>5, Peers DEF RequestLine, RequestHeader, Answers, Replies, ServerGoes
  <2>2. ASSUME at'.server \in {"request", "headers1", "headers"}, ~reset', ~quit'
        PROVE  got'.server # RequestText
    BY <1>3, <1>5, <2>2, ServerPending
  <2> QED
    BY <1>3, <2>1, <2>2 DEF Pending
<1>6. CASE ServerCloses
  <2>1. at'.server = "done" /\ at'.client = at.client /\ out' = out
    BY <1>1, <1>6, Peers DEF ServerCloses, Closes
  <2> QED
    BY <2>1 DEF Pending
<1>7. CASE ClientSent \/ ClientHeader \/ ClientBody \/ ClientEnds \/ Quit
  <2>1. \/ at' = at
        \/ \E where \in ClientAt : at' = [at EXCEPT !.client = where]
    BY <1>7 DEF ClientSent, ClientHeader, ClientBody, ClientEnds, Quit, Closes, ClientAt
  <2>2. GetsLine("client") \/ UNCHANGED rio
    BY <1>7 DEF ClientSent, ClientHeader, ClientBody, ClientEnds, Quit, GetsNothing
  <2>3. at'.server = at.server /\ got'.server = got.server
    BY <1>1, <2>1, <2>2, Peers DEF GetsLine, rio
  <2>4. at'.client \in {"header1", "header", "body"} => out'.client = <<>>
    <3>1. out' = out
      BY <1>7 DEF ClientSent, ClientHeader, ClientBody, ClientEnds, Quit
    <3>2. CASE at.client \in {"header1", "header", "body"}
      BY <3>1, <3>2 DEF Pending
    <3>3. CASE at.client \notin {"header1", "header", "body"}
      BY <1>1, <1>7, <3>1, <3>3, Peers
         DEF ClientSent, ClientHeader, ClientBody, ClientEnds, Quit, Closes
    <3> QED
      BY <3>2, <3>3
  <2> QED
    BY <1>3, <2>3, <2>4 DEF Pending
<1> QED
  BY <1>4, <1>5, <1>6, <1>7, Peers DEF Next, Server, Client

(* The client and the worker never wait for each other, whatever the sizes  *)
(* of the buffers and of the lines: the safety part of Completes.           *)
THEOREM NoMutualWait == Spec => []NeverBothWait
<1>1. Init => Pending
  <2> SUFFICES ASSUME Init PROVE Pending
    OBVIOUS
  <2>1. got.server = <<>> /\ RequestText # <<>> /\ at.client = "send"
    BY Peers DEF Init, RequestText
  <2> QED
    BY <2>1 DEF Pending
<1>2. IInv /\ Pending => NeverBothWait
  <2> SUFFICES ASSUME IInv, Pending, Waits("client"), Waits("server") PROVE FALSE
    BY DEF NeverBothWait
  <2>1. ~reset /\ open.client /\ open.server
    BY Peers DEF Waits
  <2>2. at.client \in {"send", "header1", "header", "body"} /\ ~quit
    BY DEF Waits, Writing, NeedsMore, Reading, IInv, Shape, ClientAt, Ends
  <2> DEFINE g == got["server"]
             l == line["server"]
             r == rioBuf["server"]
             w == wire["server"]
             o == out["client"]
  <2>3. /\ g \in Seq(Unit) /\ l \in Seq(Unit) /\ r \in Seq(Unit) /\ w \in Seq(Unit)
        /\ o \in Seq(Unit)
    BY Peers DEF IInv, Shape
  <2>4. (((g \o l) \o r) \o w) \o o = RequestText /\ Len(RequestText) = 5
    BY <2>1, <2>2, Peers, Texts DEF IInv, StreamIntact, OnTheWay
  <2>5. at.client # "send"
    <3> SUFFICES ASSUME at.client = "send" PROVE FALSE
      OBVIOUS
    <3>1. o # <<>> /\ Len(w) = Room
      BY Peers DEF Waits, Writing, NeedsMore, Reading
    <3> HIDE DEF g, l, r, w, o
    <3>2. Len((((g \o l) \o r) \o w) \o o) = Len(g) + Len(l) + Len(r) + Len(w) + Len(o)
      BY <2>3
    <3>3. Len(g) \in Nat /\ Len(l) \in Nat /\ Len(r) \in Nat /\ Len(o) \in Nat /\ Len(o) > 0
      BY <2>3, <3>1
    <3>4. Len(g) + Len(l) + Len(r) + Len(w) + Len(o) = 5
      BY <2>4, <3>2
    <3>5. Len(w) \in Nat /\ Len(w) >= 5
      BY <2>3, <3>1, RequestFits
    <3> QED
      BY <3>3, <3>4, <3>5
  <2>6. wire["client"] = <<>> /\ o = <<>>
    BY <2>2, <2>5 DEF Waits, Writing, Pending
  <2>7. NeedsMore("server") /\ r = <<>> /\ w = <<>>
    <3>1. Len(wire["client"]) # Room
      BY <2>6, RequestFits
    <3> QED
      BY <3>1, Peers DEF Waits
  <2>8. g \o l = RequestText
    <3> HIDE DEF g, l, r, w, o
    <3>1. g \o l \in Seq(Unit)
      BY <2>3
    <3>2. (((g \o l) \o <<>>) \o <<>>) \o <<>> = g \o l
      BY <3>1
    <3> QED
      BY <2>4, <2>6, <2>7, <3>2
  <2>9. at.server \in {"request", "headers1", "headers"}
    BY <2>7 DEF NeedsMore, Reading, IInv, Shape, ServerAt
  <2>10. g # RequestText
    BY <2>1, <2>2, <2>9 DEF Pending
  <2>11. l # <<>>
    <3> HIDE DEF g, l
    <3>1. g \o <<>> = g
      BY <2>3
    <3> QED
      BY <2>8, <2>10, <3>1
  <2>12. l = EmptyLine
    BY <2>3, <2>8, <2>11, LastLine, Peers DEF IInv, Sizes
  <2>13. LineDone("server")
    BY <2>11, <2>12 DEF LineDone, EmptyLine, Last
  <2> QED
    BY <2>7, <2>13 DEF NeedsMore
<1> QED
  BY <1>1, <1>2, Invariance, PendingNext, PTL DEF Spec

-----------------------------------------------------------------------------
(* The assertions of the client.  A line buffer has room for more than a    *)
(* line end (MAXLINE is 8192): with room for one unit only, every line end  *)
(* would come alone and look like the end of a header.                      *)

(* Where the first, the second and the third line end, in both texts.       *)
End1 == 2
End2 == 4
End3 == 5

(* While a file is served and nobody leaves, the connection is not reset,   *)
(* and both sides are, by what they got, where they think they are.         *)
Parsed ==
  Served /\ ~quit =>
    /\ ~reset
    /\ at.server = "headers1" => Len(got.server) = End1
    /\ at.server = "headers" => Len(got.server) = End2
    /\ at.server \in {"reply", "done"} => got.server = RequestText
    /\ at.client \in {"send", "header1"} => got.client = <<>> /\ ~tagged
    /\ at.client = "header" => \/ Len(got.client) = End1 /\ ~tagged
                               \/ Len(got.client) = End2 /\ tagged
    /\ at.client \in {"send", "header1", "header"} => received = <<>>
    /\ at.client = "body" => got.client = Header \o received /\ tagged
    /\ at.client \notin {"aborted", "died"}

(* The next line of a text of three lines.                                  *)
LEMMA ThreeLines ==
  ASSUME Shape, MaxLine > 1, NEW p \in Side, LineFits(line[p]), GetsLine(p),
         NEW t \in Seq(Unit), OnTheWay(p) = t,
         LineDone(p) \/ Len(got[p]) + Len(line[p]) = Len(t),
         Len(t) >= End3, t[1] # "nl", t[2] = "nl", t[3] # "nl", t[4] = "nl", t[5] = "nl"
  PROVE  /\ got[p] = <<>> => line[p] = <<t[1], "nl">> /\ Len(got'[p]) = End1
         /\ Len(got[p]) = End1 => line[p] = <<t[3], "nl">> /\ Len(got'[p]) = End2
         /\ Len(got[p]) = End2 => line[p] = EmptyLine /\ Len(got'[p]) = End3
<1>1. /\ got[p] \in Seq(Unit) /\ line[p] \in Seq(Unit) /\ rioBuf[p] \in Seq(Unit)
      /\ wire[p] \in Seq(Unit) /\ out[Peer(p)] \in Seq(Unit) /\ line[p] # <<>>
  BY Peers DEF Shape, GetsLine
<1>2. \A i \in 1 .. Len(line[p]) : t[Len(got[p]) + i] = line[p][i]
  <2>1. t = (((got[p] \o line[p]) \o rioBuf[p]) \o wire[p]) \o out[Peer(p)]
    BY DEF OnTheWay
  <2>2. Follows((((got[p] \o line[p]) \o rioBuf[p]) \o wire[p]) \o out[Peer(p)], got[p], line[p])
    BY <1>1, SecondPart
  <2> QED
    BY <2>1, <2>2, Zenon DEF Follows
<1>3. /\ \A i \in 1 .. Len(line[p]) - 1 : line[p][i] # "nl"
      /\ line[p][Len(line[p])] = "nl" \/ Len(line[p]) = MaxLine
           \/ Len(got[p]) + Len(line[p]) = Len(t)
  BY DEF LineFits, LineDone, Last
<1>4. ASSUME NEW k \in Nat, Len(got[p]) = k
      PROVE  /\ k + 1 <= Len(t) /\ t[k + 1] = "nl" => line[p] = <<"nl">>
             /\ k + 2 <= Len(t) /\ t[k + 1] # "nl" /\ t[k + 2] = "nl"
                  => line[p] = <<t[k + 1], "nl">>
  <2>1. \A i \in 1 .. Len(line[p]) : t[k + i] = line[p][i]
    BY <1>2, <1>4, Zenon
  <2>2. line[p][Len(line[p])] = "nl" \/ Len(line[p]) = MaxLine \/ k + Len(line[p]) = Len(t)
    BY <1>3, <1>4, Zenon
  <2>3. \A l \in Seq(Unit) :
          /\ l # <<>> /\ \A i \in 1 .. Len(l) - 1 : l[i] # "nl"
          /\ l[Len(l)] = "nl" \/ Len(l) = MaxLine \/ k + Len(l) = Len(t)
          /\ \A i \in 1 .. Len(l) : t[k + i] = l[i]
          => /\ k + 1 <= Len(t) /\ t[k + 1] = "nl" => l = <<"nl">>
             /\ MaxLine > 1 /\ k + 2 <= Len(t) /\ t[k + 1] # "nl" /\ t[k + 2] = "nl"
                  => l = <<t[k + 1], "nl">>
    BY <1>4, FirstEnd, Zenon
  <2> QED
    BY <1>1, <1>3, <2>1, <2>2, <2>3, Zenon
<1>5. got'[p] = got[p] \o line[p]
  BY DEF GetsLine, Shape
<1>6. ASSUME NEW k \in Nat, Len(got[p]) = k, NEW n \in Nat, Len(line[p]) = n
      PROVE  Len(got'[p]) = k + n
  <2>1. Len(got[p] \o line[p]) = Len(got[p]) + Len(line[p])
    BY <1>1, Joined, Zenon
  <2> QED
    BY <1>5, <1>6, <2>1, Zenon
<1> DEFINE m == Len(t)
<1>7. m \in Nat /\ m >= 5
  BY DEF End3
<1> HIDE DEF m
<1>8. 2 <= m /\ 0 + 2 <= m /\ 2 + 2 <= m /\ 4 + 1 <= m
  BY <1>7
<1>9. 0 + 1 = 1 /\ 0 + 2 = 2 /\ 2 + 1 = 3 /\ 2 + 2 = 4 /\ 4 + 1 = 5
      /\ 0 \in Nat /\ 1 \in Nat /\ 2 \in Nat /\ 4 \in Nat
  OBVIOUS
<1>10. \A c : Len(<<c, "nl">>) = 2
  OBVIOUS
<1>11. Len(<<"nl">>) = 1 /\ Len(<<>>) = 0
  OBVIOUS
<1>12. ASSUME got[p] = <<>>
       PROVE  line[p] = <<t[1], "nl">> /\ Len(got'[p]) = End1
  <2>1. Len(got[p]) = 0
    BY <1>11, <1>12, Zenon
  <2>2. line[p] = <<t[0 + 1], "nl">>
    BY <1>4, <1>8, <1>9, <2>1, Zenon DEF m
  <2>3. line[p] = <<t[1], "nl">>
    BY <1>9, <2>2, Zenon
  <2>4. Len(line[p]) = 2
    BY <1>10, <2>3, Zenon
  <2>5. Len(got'[p]) = 0 + 2
    BY <1>6, <1>9, <2>1, <2>4, Zenon
  <2> QED
    BY <1>9, <2>3, <2>5, Zenon DEF End1
<1>13. ASSUME Len(got[p]) = End1
       PROVE  line[p] = <<t[3], "nl">> /\ Len(got'[p]) = End2
  <2>1. Len(got[p]) = 2
    BY <1>13, Zenon DEF End1
  <2>2. line[p] = <<t[2 + 1], "nl">>
    BY <1>4, <1>8, <1>9, <2>1, Zenon DEF m
  <2>3. line[p] = <<t[3], "nl">>
    BY <1>9, <2>2, Zenon
  <2>4. Len(line[p]) = 2
    BY <1>10, <2>3, Zenon
  <2>5. Len(got'[p]) = 2 + 2
    BY <1>6, <1>9, <2>1, <2>4, Zenon
  <2> QED
    BY <1>9, <2>3, <2>5, Zenon DEF End2
<1>14. ASSUME Len(got[p]) = End2
       PROVE  line[p] = EmptyLine /\ Len(got'[p]) = End3
  <2>1. Len(got[p]) = 4
    BY <1>14, Zenon DEF End2
  <2>2. line[p] = <<"nl">>
    BY <1>4, <1>8, <1>9, <2>1, Zenon DEF m
  <2>3. Len(line[p]) = 1
    BY <1>11, <2>2, Zenon
  <2>4. Len(got'[p]) = 4 + 1
    BY <1>6, <1>9, <2>1, <2>3, Zenon
  <2> QED
    BY <1>9, <2>2, <2>4, Zenon DEF End3, EmptyLine
<1> QED
  BY <1>12, <1>13, <1>14

(* The units of the two texts that are looked at.                           *)
LEMMA TextUnits ==
  ASSUME Shape
  PROVE  /\ Header \o Payload \in Seq(Unit) /\ Len(Header \o Payload) >= 5
         /\ (Header \o Payload)[1] = "status" /\ (Header \o Payload)[2] = "nl"
         /\ (Header \o Payload)[3] = "tags" /\ (Header \o Payload)[4] = "nl"
         /\ (Header \o Payload)[5] = "nl"
<1>1. Header \in Seq(Unit) /\ Len(Header) = 5 /\ Payload \in Seq(Unit) /\ Len(Payload) \in Nat
  BY Texts
<1>2. /\ Header[1] = "status" /\ Header[2] = "nl" /\ Header[3] = "tags" /\ Header[4] = "nl"
      /\ Header[5] = "nl"
  BY DEF Header
<1> DEFINE h == Header
           b == Payload
<1>3. h \in Seq(Unit) /\ Len(h) = 5 /\ b \in Seq(Unit) /\ Len(b) \in Nat
  BY <1>1
<1> HIDE DEF h, b
<1>4. /\ h \o b \in Seq(Unit)
      /\ Len(h \o b) = Len(h) + Len(b)
      /\ \A i \in 1 .. Len(h) : (h \o b)[i] = h[i]
  BY <1>3, Joined, Zenon
<1> DEFINE c == h \o b
           n == Len(b)
<1>5. /\ c \in Seq(Unit) /\ Len(c) = 5 + n /\ n \in Nat
      /\ \A i \in 1 .. 5 : c[i] = h[i]
  BY <1>3, <1>4
<1> HIDE DEF c, n
<1>6. h[1] = "status" /\ h[2] = "nl" /\ h[3] = "tags" /\ h[4] = "nl" /\ h[5] = "nl"
  BY <1>2 DEF h
<1>7. Len(c) >= 5
  <2> DEFINE k == Len(c)
  <2>1. k = 5 + n /\ n \in Nat
    BY <1>5
  <2> HIDE DEF k
  <2>2. k >= 5
    BY <2>1
  <2> QED
    BY <2>2 DEF k
<1>8. c[1] = "status" /\ c[2] = "nl" /\ c[3] = "tags" /\ c[4] = "nl" /\ c[5] = "nl"
  BY <1>5, <1>6
<1> QED
  BY <1>5, <1>7, <1>8 DEF c, h, b

(* Who has got all of a stream has nothing to come.                         *)
LEMMA NothingLeft ==
  ASSUME Shape, NEW p \in Side, OnTheWay(p) = got[p]
  PROVE  line[p] = <<>> /\ wire[p] = <<>> /\ out[Peer(p)] = <<>>
<1> DEFINE g == got[p]
           l == line[p]
           r == rioBuf[p]
           w == wire[p]
           o == out[Peer(p)]
<1>1. g \in Seq(Unit) /\ l \in Seq(Unit) /\ r \in Seq(Unit) /\ w \in Seq(Unit) /\ o \in Seq(Unit)
  BY Peers DEF Shape
<1>2. (((g \o l) \o r) \o w) \o o = g
  BY DEF OnTheWay
<1> HIDE DEF g, l, r, w, o
<1>3. Len((((g \o l) \o r) \o w) \o o) = Len(g) + Len(l) + Len(r) + Len(w) + Len(o)
  BY <1>1
<1>4. Len(l) = 0 /\ Len(w) = 0 /\ Len(o) = 0
  BY <1>1, <1>2, <1>3
<1> QED
  BY <1>1, <1>4 DEF l, w, o

(* The input of a client that stays ends when the server has said it all.   *)
LEMMA AllSaid ==
  ASSUME Shape, Ends, ~quit, Eof("client")
  PROVE  at.server = "done" /\ OnTheWay("client") = got["client"] \o line["client"]
<1>1. ~open.server /\ rioBuf["client"] = <<>> /\ wire["client"] = <<>>
  BY Peers DEF Eof
<1>2. at.server = "done" /\ out["server"] = <<>>
  BY <1>1 DEF Ends
<1> DEFINE x == got["client"] \o line["client"]
<1>3. x \in Seq(Unit)
  BY Peers DEF Shape
<1>4. OnTheWay("client") = ((x \o <<>>) \o <<>>) \o <<>>
  BY <1>1, <1>2, Peers DEF OnTheWay
<1> HIDE DEF x
<1>5. OnTheWay("client") = x
  BY <1>3, <1>4
<1> QED
  BY <1>2, <1>5 DEF x


(* What the invariant gives while a file is served and nobody leaves.       *)
LEMMA WhileServed ==
  ASSUME IInv, Parsed, Served, ~quit
  PROVE  /\ ~reset /\ at.server # "died"
         /\ OnTheWay("server") = RequestText
         /\ at.server \in {"reply", "done"} => OnTheWay("client") = Header \o Payload
         /\ RequestText = <<"get", "nl", "host", "nl", "nl">> /\ Payload = body
  BY DEF IInv, Ends, StreamIntact, Parsed, Served, Payload, RequestText

(* The worker reads the request line by line.                               *)
LEMMA ServerParses ==
  ASSUME IInv, Parsed, Served, ~quit, MaxLine > 1, RequestLine \/ RequestHeader, IInv'
  PROVE  /\ at'.server = "headers1" => Len(got'.server) = End1
         /\ at'.server = "headers" => Len(got'.server) = End2
         /\ at'.server = "reply" => got'.server = RequestText
<1>1. DOMAIN at = Side /\ Shape /\ LineFits(line["server"])
  BY Peers DEF IInv, Shape, Sizes
<1>2. GetsLine("server") /\ LineDone("server")
  <2>1. GetsLine("server") \/ GetsNothing("server")
    BY DEF RequestLine, RequestHeader
  <2> QED
    BY <2>1, ServerGetsAll DEF IInv
<1>3. ~GetsNothing("server")
  BY ServerGetsAll DEF IInv
<1>4. RequestText \in Seq(Unit) /\ OnTheWay("server") = RequestText /\ Len(RequestText) = End3
  BY <1>1, Texts, WhileServed DEF End3
<1>5. /\ RequestText[1] = "get" /\ RequestText[2] = "nl" /\ RequestText[3] = "host"
      /\ RequestText[4] = "nl" /\ RequestText[5] = "nl"
  BY WhileServed
<1>6. /\ got["server"] = <<>> => line["server"] = <<"get", "nl">> /\ Len(got'["server"]) = End1
      /\ Len(got["server"]) = End1 =>
           line["server"] = <<"host", "nl">> /\ Len(got'["server"]) = End2
      /\ Len(got["server"]) = End2 => line["server"] = EmptyLine /\ Len(got'["server"]) = End3
  <2> DEFINE t == RequestText
  <2>1. /\ t \in Seq(Unit) /\ OnTheWay("server") = t /\ Len(t) >= End3
        /\ t[1] = "get" /\ t[2] = "nl" /\ t[3] = "host" /\ t[4] = "nl" /\ t[5] = "nl"
    <3>1. End3 >= End3
      BY DEF End3
    <3> QED
      BY <1>4, <1>5, <3>1
  <2> HIDE DEF t
  <2>2. t[1] # "nl" /\ t[3] # "nl"
    BY <2>1
  <2>3. /\ got["server"] = <<>> => line["server"] = <<t[1], "nl">> /\ Len(got'["server"]) = End1
        /\ Len(got["server"]) = End1 =>
             line["server"] = <<t[3], "nl">> /\ Len(got'["server"]) = End2
        /\ Len(got["server"]) = End2 =>
             line["server"] = EmptyLine /\ Len(got'["server"]) = End3
    BY <1>1, <1>2, <2>1, <2>2, ThreeLines, Peers, ZenonT(30)
  <2> QED
    BY <2>1, <2>3, Zenon
<1>7. Head(<<"get", "nl">>) = "get" /\ <<"host", "nl">> # EmptyLine
  BY DEF EmptyLine
<1>8. CASE RequestLine
  <2>1. got["server"] = <<>>
    BY <1>8 DEF RequestLine, IInv, ServerKnows
  <2>2. Head(line.server) = "get"
    BY <1>6, <1>7, <2>1
  <2>3. ServerGoes("headers1")
    BY <1>3, <1>8, <2>2 DEF RequestLine
  <2>4. at'.server = "headers1"
    BY <1>1, <2>3, Peers DEF ServerGoes
  <2> QED
    BY <1>6, <2>1, <2>4
<1>9. CASE RequestHeader /\ at.server = "headers1"
  <2>1. Len(got["server"]) = End1
    BY <1>9 DEF Parsed
  <2>2. ~EndOfHeaders(line.server)
    BY <1>6, <1>7, <2>1 DEF EndOfHeaders
  <2>3. ServerGoes("headers")
    BY <1>3, <1>9, <2>2 DEF RequestHeader
  <2>4. at'.server = "headers"
    BY <1>1, <2>3, Peers DEF ServerGoes
  <2> QED
    BY <1>6, <2>1, <2>4
<1>10. CASE RequestHeader /\ at.server = "headers"
  <2>1. Len(got["server"]) = End2
    BY <1>10 DEF Parsed
  <2>2. EndOfHeaders(line.server)
    BY <1>6, <2>1 DEF EndOfHeaders
  <2>3. Answers
    BY <1>3, <1>10, <2>2 DEF RequestHeader
  <2>4. at'.server = "reply" /\ UNCHANGED <<job, reset, quit>>
    BY <1>1, <2>3, Peers DEF Answers, Replies
  <2>5. RequestText' = RequestText
    BY <2>4 DEF job, RequestText
  <2>6. OnTheWay("server")' = RequestText
    BY <2>4, <2>5, WhileServed DEF IInv, StreamIntact
  <2>7. Len(OnTheWay("server")') = Len(got'["server"])
    BY <1>4, <1>6, <2>1, <2>6
  <2>8. Len(OnTheWay("server")') = Len(got'["server"]) => OnTheWay("server")' = got'["server"]
    <3> DEFINE g == got'["server"]
               l == line'["server"]
               x == rioBuf'["server"]
               y == wire'["server"]
               z == out'["client"]
    <3>1. g \in Seq(Unit) /\ l \in Seq(Unit) /\ x \in Seq(Unit) /\ y \in Seq(Unit)
          /\ z \in Seq(Unit)
      BY Peers DEF IInv, Shape
    <3>2. OnTheWay("server")' = (((g \o l) \o x) \o y) \o z
      BY Peers DEF OnTheWay
    <3> HIDE DEF g, l, x, y, z
    <3>3. \A a, b, c \in Seq(Unit) :
            Len((((g \o l) \o a) \o b) \o c) = Len(g) => (((g \o l) \o a) \o b) \o c = g
      BY <3>1, FirstIsAll, Zenon
    <3>4. Len((((g \o l) \o x) \o y) \o z) = Len(g) => (((g \o l) \o x) \o y) \o z = g
      BY <3>1, <3>3, Zenon
    <3> QED
      BY <3>2, <3>4, Zenon DEF g
  <2> QED
    BY <2>4, <2>6, <2>7, <2>8
<1> QED
  BY <1>8, <1>9, <1>10 DEF RequestHeader

(* The client finds the two lines of the header and the empty one.          *)
LEMMA ClientParses ==
  ASSUME IInv, Parsed, Served, ~quit, MaxLine > 1, ClientHeader
  PROVE  /\ at'.client \in {"header", "body"}
         /\ at'.client = "header" => \/ Len(got'.client) = End1 /\ ~tagged'
                                     \/ Len(got'.client) = End2 /\ tagged'
         /\ at'.client = "body" => Len(got'.client) = End3 /\ tagged'
<1>1. DOMAIN at = Side /\ Shape /\ Ends /\ LineFits(line["client"]) /\ tagged \in BOOLEAN
  BY Peers DEF IInv, Shape, Sizes
<1> DEFINE t == Header \o Payload
<1>2. /\ t \in Seq(Unit) /\ Len(t) >= 5
      /\ t[1] = "status" /\ t[2] = "nl" /\ t[3] = "tags" /\ t[4] = "nl" /\ t[5] = "nl"
  BY <1>1, TextUnits
<1>3. Eof("client") => t = got["client"] \o line["client"]
  BY <1>1, AllSaid, WhileServed
<1>4. got["client"] \in Seq(Unit) /\ line["client"] \in Seq(Unit)
  BY <1>1, Peers DEF Shape
<1> HIDE DEF t
<1>5. Len(got["client"] \o line["client"]) = Len(got["client"]) + Len(line["client"])
  BY <1>4, Joined, Zenon
<1>6. got["client"] = <<>> \/ Len(got["client"]) = End1 \/ Len(got["client"]) = End2
  BY DEF ClientHeader, Parsed
<1>7. ~GetsNothing("client")
  <2>1. SUFFICES ASSUME GetsNothing("client") PROVE FALSE
    OBVIOUS
  <2>2. t = got["client"] \o line["client"] /\ line["client"] = <<>>
    BY <1>3, <2>1 DEF GetsNothing
  <2>3. Len(<<>>) = 0
    OBVIOUS
  <2> DEFINE k == Len(got["client"])
             m == Len(t)
  <2>4. k \in {0, End1, End2}
    BY <1>6, <2>3
  <2>5. m = k + 0 /\ m >= 5
    BY <1>2, <1>5, <2>2, <2>3
  <2> HIDE DEF k, m
  <2> QED
    BY <2>4, <2>5 DEF End1, End2
<1>8. GetsLine("client") /\ line["client"] # <<>>
  BY <1>7 DEF ClientHeader, GetsLine
<1>9. OnTheWay("client") = t
  <2>1. ~Silent
    BY <1>8 DEF Silent
  <2>2. at.server \in {"reply", "done", "died"}
    BY <2>1 DEF IInv, Silence
  <2> QED
    BY <2>2, WhileServed DEF t
<1>10. LineDone("client") \/ Len(got["client"]) + Len(line["client"]) = Len(t)
  BY <1>3, <1>5, <1>8 DEF GetsLine
<1>11. /\ got["client"] = <<>> => line["client"] = <<"status", "nl">> /\ Len(got'["client"]) = End1
       /\ Len(got["client"]) = End1 =>
            line["client"] = <<"tags", "nl">> /\ Len(got'["client"]) = End2
       /\ Len(got["client"]) = End2 => line["client"] = EmptyLine /\ Len(got'["client"]) = End3
  <2>1. t[1] # "nl" /\ t[3] # "nl" /\ Len(t) >= End3
    BY <1>2 DEF End3
  <2>2. /\ got["client"] = <<>> => line["client"] = <<t[1], "nl">> /\ Len(got'["client"]) = End1
        /\ Len(got["client"]) = End1 =>
             line["client"] = <<t[3], "nl">> /\ Len(got'["client"]) = End2
        /\ Len(got["client"]) = End2 =>
             line["client"] = EmptyLine /\ Len(got'["client"]) = End3
    BY <1>1, <1>2, <1>8, <1>9, <1>10, <2>1, ThreeLines, Peers, ZenonT(30)
  <2> QED
    BY <1>2, <2>2, Zenon
<1>12. /\ at' = [at EXCEPT !.client = IF EndOfHeaders(line.client) THEN "body" ELSE "header"]
       /\ tagged' = (tagged \/ (at.client = "header" /\ Head(line.client) = "tags"))
  BY <1>7 DEF ClientHeader
<1>13. at'.client = IF EndOfHeaders(line.client) THEN "body" ELSE "header"
  BY <1>1, <1>12, Peers
<1>14. /\ <<"status", "nl">> # EmptyLine /\ <<"tags", "nl">> # EmptyLine
       /\ Head(<<"status", "nl">>) = "status" /\ Head(<<"tags", "nl">>) = "tags"
  BY DEF EmptyLine
<1>15. CASE at.client = "header1"
  <2>1. got["client"] = <<>> /\ ~tagged
    BY <1>15 DEF Parsed
  <2>2. at'.client = "header" /\ Len(got'["client"]) = End1
    BY <1>11, <1>13, <1>14, <2>1 DEF EndOfHeaders
  <2>3. ~tagged'
    BY <1>12, <1>15, <2>1
  <2> QED
    BY <2>2, <2>3
<1>16. CASE at.client = "header" /\ Len(got["client"]) = End1
  <2>1. line["client"] = <<"tags", "nl">> /\ Len(got'["client"]) = End2
    BY <1>11, <1>16
  <2>2. at'.client = "header"
    BY <1>13, <1>14, <2>1 DEF EndOfHeaders
  <2>3. tagged'
    BY <1>1, <1>12, <1>14, <1>16, <2>1
  <2> QED
    BY <2>1, <2>2, <2>3
<1>17. CASE at.client = "header" /\ Len(got["client"]) = End2
  <2>1. line["client"] = EmptyLine /\ Len(got'["client"]) = End3
    BY <1>11, <1>17
  <2>2. at'.client = "body"
    BY <1>13, <2>1 DEF EndOfHeaders
  <2>3. tagged
    <3>1. End1 # End2
      BY DEF End1, End2
    <3> QED
      BY <1>17, <3>1 DEF Parsed
  <2> QED
    BY <1>1, <1>12, <2>1, <2>2, <2>3
<1> QED
  BY <1>15, <1>16, <1>17 DEF ClientHeader, Parsed

(* Three lines are the header.                                              *)
LEMMA HeaderGot ==
  ASSUME IInv, Parsed, Served, ~quit, ClientHeader, IInv', Len(got'["client"]) = End3
  PROVE  got'["client"] = Header
<1> DEFINE g == got'["client"]
           l == line'["client"]
           x == rioBuf'["client"]
           y == wire'["client"]
           z == out'["server"]
<1>1. g \in Seq(Unit) /\ l \in Seq(Unit) /\ x \in Seq(Unit) /\ y \in Seq(Unit) /\ z \in Seq(Unit)
  BY Peers DEF IInv, Shape
<1>2. DOMAIN at = Side /\ UNCHANGED <<job, reset, quit>>
  BY DEF ClientHeader, IInv, Shape
<1>3. at'.server = at.server
  BY <1>2, Peers DEF ClientHeader
<1>4. at'.server \in {"reply", "done"}
  <2>1. ~Silent'
    <3>1. Len(<<>>) = 0 /\ End3 # 0
      BY DEF End3
    <3> QED
      BY <3>1 DEF Silent
  <2> QED
    BY <1>2, <2>1 DEF IInv, Silence, Ends
<1>5. (Header \o Payload)' = Header \o Payload
  BY <1>2 DEF job, Header, Payload, Served, ErrorPage
<1>6. OnTheWay("client")' = Header \o Payload
  BY <1>2, <1>4, <1>5, WhileServed DEF IInv, StreamIntact
<1>7. (((g \o l) \o x) \o y) \o z = Header \o Payload
  BY <1>6, Peers DEF OnTheWay
<1>8. Header \in Seq(Unit) /\ Payload \in Seq(Unit) /\ Len(Header) = End3
  BY Texts DEF IInv, End3
<1> HIDE DEF g, l, x, y, z
<1>9. PICK m \in Seq(Unit) : (((g \o l) \o x) \o y) \o z = g \o m
  <2>1. \A a, b, c \in Seq(Unit) :
          \E m \in Seq(Unit) : (((g \o l) \o a) \o b) \o c = g \o m
    BY <1>1, FirstOfFive, Zenon
  <2> QED
    BY <1>1, <2>1, ZenonT(30)
<1>10. g \o m = Header \o Payload /\ Len(g) = Len(Header)
  BY <1>7, <1>8, <1>9 DEF g
<1> QED
  BY <1>1, <1>8, <1>9, <1>10, SameFront, Zenon DEF g

(* At the end of the answer the client has counted the whole file.          *)
LEMMA ClientCounts ==
  ASSUME IInv, Parsed, Served, ~quit, ClientEnds
  PROVE  Asserted
<1>1. GetsNothing("client") /\ at.client = "body" /\ Eof("client") /\ line["client"] = <<>>
  BY DEF ClientEnds, GetsNothing
<1>2. OnTheWay("client") = got["client"] \o <<>> /\ at.server = "done"
  BY <1>1, AllSaid DEF IInv
<1>3. OnTheWay("client") = Header \o body /\ Payload = body
  BY <1>2, WhileServed
<1>4. got["client"] = Header \o received /\ tagged
  BY <1>1 DEF Parsed
<1>5. Header \in Seq(Unit) /\ received \in Seq(Unit) /\ body \in Seq(Unit)
  BY Texts DEF IInv, Shape
<1>6. Header \o received = Header \o body
  <2> DEFINE h == Header
  <2> HIDE DEF h
  <2>1. (h \o received) \o <<>> = h \o received
    BY <1>5 DEF h
  <2> QED
    BY <1>2, <1>3, <1>4, <2>1 DEF h
<1>7. received = body
  <2> DEFINE h == Header
  <2>1. h \in Seq(Unit) /\ h \o received = h \o body
    BY <1>5, <1>6
  <2> HIDE DEF h
  <2> QED
    BY <1>5, <2>1, SameRest
<1> QED
  BY <1>3, <1>4, <1>7 DEF Asserted

(* A side that is ahead in the exchange has nothing left to write or read.  *)
LEMMA RequestIsRead ==
  ASSUME IInv, Parsed, Served, ~quit, at.server \in {"reply", "done"}
  PROVE  wire["server"] = <<>> /\ out["client"] = <<>>
<1>1. OnTheWay("server") = got["server"]
  BY WhileServed DEF Parsed
<1> QED
  BY <1>1, NothingLeft, Peers DEF IInv

(* A step on the buffers resets nothing and tells neither side more.        *)
LEMMA IoParsed ==
  ASSUME IInv, Parsed, Served, ~quit, NEW p \in Side, Io(p)
  PROVE  /\ UNCHANGED <<got, received, tagged, reset, open>>
         /\ at' = at \/ at' = [at EXCEPT ![p] = "wild"]
<1>1. ~reset
  BY WhileServed
<1>2. ~WriteLost(p)
  <2>1. SUFFICES ASSUME WriteLost(p) PROVE FALSE
    OBVIOUS
  <2>2. out[p] # <<>> /\ ~open[Peer(p)] /\ at[p] \in {"send", "reply"}
    BY <2>1 DEF WriteLost, Writing
  <2>3. CASE p = "server"
    <3>1. ~open.client /\ at.server = "reply"
      BY <2>2, <2>3, Peers DEF IInv, Shape, ServerAt
    <3> QED
      BY <3>1 DEF IInv, Ends
  <2>4. CASE p = "client"
    <3>1. ~open.server
      BY <2>2, <2>4, Peers
    <3>2. at.server = "done"
      BY <3>1 DEF IInv, Ends
    <3> QED
      BY <2>2, <2>4, <3>2, RequestIsRead
  <2> QED
    BY <2>3, <2>4, Peers
<1>3. ~WriteFails(p) /\ ~ReadFails(p)
  BY <1>1 DEF WriteFails, ReadFails
<1> QED
  BY <1>2, <1>3 DEF Io, Write, ReadSome, FillLine, Overrun, rio

(* No step takes either side from what it has got.                          *)
LEMMA ParsedNext ==
  ASSUME IInv, Parsed, [Next]_vars, MaxLine > 1
  PROVE  Parsed'
<1>1. /\ at["client"] \in ClientAt /\ at["server"] \in ServerAt
      /\ DOMAIN at = Side /\ DOMAIN got = Side
  BY DEF IInv, Shape
<1>2. UNCHANGED job /\ (quit => quit')
  BY JobStays DEF IInv, vars, job
<1>3. Served' = Served /\ Header' = Header /\ RequestText' = RequestText
  BY <1>2 DEF job, RequestText, Header, Served
<1> SUFFICES ASSUME Served, ~quit, ~quit' PROVE Parsed'
  BY <1>2, <1>3 DEF Parsed
<1> DEFINE OfServer ==
             /\ at.server = "headers1" => Len(got.server) = End1
             /\ at.server = "headers" => Len(got.server) = End2
             /\ at.server \in {"reply", "done"} => got.server = RequestText
           OfClient ==
             /\ at.client \in {"send", "header1"} => got.client = <<>> /\ ~tagged
             /\ at.client = "header" => \/ Len(got.client) = End1 /\ ~tagged
                                        \/ Len(got.client) = End2 /\ tagged
             /\ at.client \in {"send", "header1", "header"} => received = <<>>
             /\ at.client = "body" => got.client = Header \o received /\ tagged
             /\ at.client \notin {"aborted", "died"}
<1>4. ~reset /\ OfServer /\ OfClient
  BY DEF Parsed
<1>5. ~reset' /\ OfServer' /\ OfClient' => Parsed'
  BY DEF Parsed
<1>6. at'.server = at.server /\ got'.server = got.server => OfServer'
  BY <1>3, <1>4
<1>7. (at'.client = at.client /\ got'.client = got.client /\ UNCHANGED <<tagged, received>>)
        => OfClient'
  BY <1>3, <1>4
<1>8. CASE UNCHANGED vars
  BY <1>4, <1>5, <1>6, <1>7, <1>8 DEF vars
<1>9. ASSUME NEW p \in Side, Io(p) PROVE Parsed'
  <2>1. /\ UNCHANGED <<got, received, tagged, reset, open>>
        /\ at' = at \/ at' = [at EXCEPT ![p] = "wild"]
    BY <1>9, IoParsed
  <2>2. /\ at'.server = at.server \/ at'.server = "wild"
        /\ at'.client = at.client \/ at'.client = "wild"
    BY <1>1, <2>1, Peers
  <2>3. OfServer'
    BY <1>6, <2>1, <2>2
  <2>4. OfClient'
    BY <1>7, <2>1, <2>2
  <2> QED
    BY <1>4, <1>5, <2>1, <2>3, <2>4
<1>10. CASE RequestLine \/ RequestHeader
  <2>1. /\ \E where \in {"reply", "headers1", "headers"} : at' = [at EXCEPT !.server = where]
        /\ UNCHANGED <<reset, tagged, received>>
    BY <1>10 DEF RequestLine, RequestHeader, Answers, Replies, ServerGoes
  <2>2. at'.client = at.client /\ at'.server \in {"reply", "headers1", "headers"}
    BY <1>1, <2>1, Peers
  <2>3. GetsLine("server") \/ GetsNothing("server")
    BY <1>10 DEF RequestLine, RequestHeader
  <2>4. got'.client = got.client
    BY <1>1, <2>3, Peers DEF GetsLine, GetsNothing, rio
  <2>5. OfServer'
    BY <1>3, <1>10, <2>2, NextInv, ServerParses
  <2> QED
    BY <1>4, <1>5, <1>7, <2>1, <2>2, <2>4, <2>5
<1>11. CASE ServerCloses
  <2>1. at.server = "reply" /\ at' = [at EXCEPT !.server = "done"]
        /\ reset' = (reset \/ wire["server"] # <<>>) /\ UNCHANGED <<rio, tagged, received>>
    BY <1>11 DEF ServerCloses, Closes
  <2>2. at'.client = at.client /\ at'.server = "done" /\ got' = got
    BY <1>1, <2>1, Peers DEF rio
  <2>3. ~reset'
    BY <1>4, <2>1, RequestIsRead
  <2>4. OfServer'
    BY <1>3, <1>4, <2>1, <2>2
  <2> QED
    BY <1>5, <1>7, <2>1, <2>2, <2>3, <2>4
<1>12. ASSUME ClientSent \/ ClientHeader \/ ClientBody \/ ClientEnds PROVE OfServer'
  <2>1. \/ at' = at
        \/ \E where \in ClientAt : at' = [at EXCEPT !.client = where]
    BY <1>12 DEF ClientSent, ClientHeader, ClientBody, ClientEnds, Closes, ClientAt
  <2>2. GetsLine("client") \/ UNCHANGED rio
    BY <1>12 DEF ClientSent, ClientHeader, ClientBody, ClientEnds, GetsNothing
  <2>3. at'.server = at.server /\ got'.server = got.server
    BY <1>1, <2>1, <2>2, Peers DEF GetsLine, rio
  <2> QED
    BY <1>6, <2>3
<1>13. CASE ClientSent
  <2>1. at.client = "send" /\ at'.client = "header1" /\ UNCHANGED <<got, tagged, received, reset>>
    BY <1>1, <1>13, Peers DEF ClientSent, rio
  <2>2. OfClient'
    BY <1>4, <2>1
  <2> QED
    BY <1>4, <1>5, <1>12, <1>13, <2>1, <2>2
<1>14. CASE ClientHeader
  <2>1. received = <<>> /\ UNCHANGED <<received, reset, quit>> /\ at'.server = at.server
    BY <1>1, <1>4, <1>14, Peers DEF ClientHeader
  <2>2. ASSUME at'.client = "body" PROVE got'["client"] = Header \o received /\ tagged'
    <3>1. Len(got'["client"]) = End3 /\ tagged'
      BY <1>14, <2>2, ClientParses
    <3>2. got'["client"] = Header
      BY <1>14, <3>1, HeaderGot, NextInv
    <3>3. Header \in Seq(Unit)
      BY Texts DEF IInv
    <3>4. Header = Header \o <<>>
      BY <3>3
    <3> QED
      BY <2>1, <3>1, <3>2, <3>4
  <2>3. OfClient'
    BY <1>3, <1>14, <2>1, <2>2, ClientParses
  <2> QED
    BY <1>4, <1>5, <1>12, <1>14, <2>1, <2>3
<1>15. CASE ClientBody
  <2>1. /\ at.client = "body" /\ UNCHANGED <<at, tagged, reset>>
        /\ received' = received \o line["client"]
        /\ got' = [got EXCEPT !["client"] = @ \o line["client"]]
    BY <1>15 DEF ClientBody, Counted, GetsLine
  <2>2. got["client"] = Header \o received /\ tagged
    BY <1>4, <2>1
  <2>3. Header \in Seq(Unit) /\ received \in Seq(Unit) /\ line["client"] \in Seq(Unit)
    BY Texts, Peers DEF IInv, Shape
  <2>4. (Header \o received) \o line["client"] = Header \o (received \o line["client"])
    <3> DEFINE h == Header
               l == line["client"]
    <3>1. h \in Seq(Unit) /\ received \in Seq(Unit) /\ l \in Seq(Unit)
      BY <2>3
    <3> HIDE DEF h, l
    <3>2. (h \o received) \o l = h \o (received \o l)
      BY <3>1, ConcatAssoc
    <3> QED
      BY <3>2 DEF h, l
  <2>5. got'["client"] = Header \o received'
    BY <1>1, <2>1, <2>2, <2>4, Peers
  <2>6. OfClient'
    BY <1>3, <2>1, <2>2, <2>5
  <2> QED
    BY <1>4, <1>5, <1>12, <1>15, <2>1, <2>6
<1>16. CASE ClientEnds
  <2>1. Asserted
    BY <1>16, ClientCounts
  <2>2. /\ Closes("client", "ok") /\ wire["client"] = <<>> /\ UNCHANGED rio
    BY <1>16, <2>1 DEF ClientEnds, GetsNothing, Eof
  <2>3. at'.client = "ok" /\ ~reset'
    BY <1>1, <1>4, <2>2, Peers DEF Closes
  <2>4. OfClient'
    BY <2>3
  <2> QED
    BY <1>5, <1>12, <1>16, <2>3, <2>4
<1>17. ~Quit
  BY DEF Quit
<1> QED
  BY <1>8, <1>9, <1>10, <1>11, <1>13, <1>14, <1>15, <1>16, <1>17, Peers DEF Next, Server, Client

(* The assertions of client_print hold whenever there was a file, whatever  *)
(* is in it and however it is cut into pieces, and neither a read nor a     *)
(* write of the client fails before.                                        *)
THEOREM AssertionsHold == MaxLine > 1 => (Spec => []ClientAssertions)
<1> SUFFICES ASSUME MaxLine > 1 PROVE Spec => []ClientAssertions
  OBVIOUS
<1>1. Init => Parsed
  BY DEF Init, Parsed, Side
<1>2. IInv /\ Parsed /\ [Next]_vars => Parsed'
  BY ParsedNext
<1>3. IInv /\ Parsed => ClientAssertions
  BY DEF Parsed, ClientAssertions, IInv, Ends
<1> QED
  BY <1>1, <1>2, <1>3, Invariance, PTL DEF Spec


=============================================================================
