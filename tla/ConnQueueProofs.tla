---------------------------- MODULE ConnQueueProofs ----------------------------
(***************************************************************************)
(* What holds of the ring buffer, the accept loop and the workers for every *)
(* set of workers, every size of the buffer and any number of connections:  *)
(* TypeOK, RingExact, Conserved and DrainedAtExit, that the buffer is a     *)
(* first-in first-out queue of bounded capacity, and that no signal is lost *)
(* (AwakeEnough).                                                           *)
(*                                                                         *)
(* That every connection is counted once (Conserved) is not inductive by   *)
(* itself: that a worker which has served a connection adds one to served  *)
(* needs it to be in no second place (Apart), that main puts a connection  *)
(* into a slot and loses none needs the slot to be free (RingExact), and   *)
(* that server_exit leaves nothing behind needs every worker to have left  *)
(* an empty buffer that nobody fills any more (Places).                    *)
(***************************************************************************)
EXTENDS ConnQueue, FiniteSetTheorems, TLAPS

(* Who is where: a worker has a connection exactly while it is busy, and    *)
(* once one has left the buffer is empty and stays so.                      *)
Places ==
  /\ \A w \in Workers : worker[w] # "none" <=> w \in threads
  /\ \A w \in Workers : connfd[w] # Free <=> w \in Busy
  /\ \A w \in Workers : worker[w] = "done" => Empty /\ exiting
  /\ threads = {} => Empty
  /\ exiting <=> main \in {"join", "finished"}
  /\ main = "finished" => \A w \in threads : worker[w] = "done"

(* No connection is in two places.                                          *)
Apart ==
  /\ \A i, j \in Slot : connBuf[i] = connBuf[j] /\ connBuf[i] # Free => i = j
  /\ \A v, w \in Workers : connfd[v] = connfd[w] /\ connfd[v] # Free => v = w
  /\ InHand \cap (InBuffer \cup InService \cup served) = {}
  /\ InBuffer \cap (InService \cup served) = {}
  /\ InService \cap served = {}

IInv == TypeOK /\ RingExact /\ Places /\ Apart /\ Conserved

-----------------------------------------------------------------------------
(* The ring.                                                               *)

(* What the remainders of the code come to, in a ring of n slots.           *)
LEMMA Around ==
  ASSUME NEW n \in Nat \ {0}
  PROVE  \A i, j \in 0 .. n - 1 :
           /\ (i - j + n) % n = IF i >= j THEN i - j ELSE i - j + n
           /\ (i + 1) % n = IF i = n - 1 THEN 0 ELSE i + 1
           /\ (i + j) % n = IF i + j < n THEN i + j ELSE i + j - n
<1> SUFFICES ASSUME NEW i \in 0 .. n - 1, NEW j \in 0 .. n - 1
             PROVE  /\ (i - j + n) % n = IF i >= j THEN i - j ELSE i - j + n
                    /\ (i + 1) % n = IF i = n - 1 THEN 0 ELSE i + 1
                    /\ (i + j) % n = IF i + j < n THEN i + j ELSE i + j - n
  OBVIOUS
<1>1. \A a \in 0 .. n - 1 : a % n = a
  OBVIOUS
<1>2. \A a \in n .. 2 * n - 1 : a % n = a - n
  OBVIOUS
<1>3. (i - j + n) % n = IF i >= j THEN i - j ELSE i - j + n
  BY <1>1, <1>2
<1>4. (i + 1) % n = IF i = n - 1 THEN 0 ELSE i + 1
  BY <1>1, <1>2
<1>5. (i + j) % n = IF i + j < n THEN i + j ELSE i + j - n
  BY <1>1, <1>2
<1> QED
  BY <1>3, <1>4, <1>5

(* The number of connections in the ring, and when it is empty or full.     *)
LEMMA RingFacts ==
  ASSUME TypeOK
  PROVE  /\ size \in Nat \ {0} /\ Slot = 0 .. size - 1
         /\ Queued = IF head >= tail THEN head - tail ELSE head - tail + size
         /\ Queued \in 0 .. size - 1
         /\ Empty <=> Queued = 0
         /\ Full <=> Queued = size - 1
         /\ \A i \in Slot : Following(i) = IF i = size - 1 THEN 0 ELSE i + 1
<1>1. size \in Nat \ {0} /\ Slot = 0 .. size - 1 /\ head \in Slot /\ tail \in Slot
  BY MaxRequestsAssumption DEF TypeOK, Slot
<1>2. Queued = IF head >= tail THEN head - tail ELSE head - tail + size
  BY <1>1, Around DEF Queued
<1>3. Full <=> Queued = size - 1
  BY DEF Full, Queued
<1>4. \A i \in Slot : Following(i) = IF i = size - 1 THEN 0 ELSE i + 1
  BY <1>1, Around DEF Following
<1> QED
  BY <1>1, <1>2, <1>3, <1>4 DEF Empty

(* How a worker that is signalled, or wakes for no reason, changes.         *)
LEMMA SignalFacts ==
  ASSUME TypeOK, SignalCons \/ WakeAll \/ \E w \in Workers : SpuriousCons(w)
  PROVE  /\ worker' \in [Workers -> WorkerAt]
         /\ \A w \in Workers :
              \/ worker'[w] = worker[w]
              \/ worker[w] = "consWait" /\ worker'[w] = "ready"
  BY DEF TypeOK, SignalCons, WakeAll, SpuriousCons, WorkerAt

(* Where nothing moves, everything stays conserved.                         *)
LEMMA QuietStep ==
  ASSUME IInv, UNCHANGED <<threads, size, connBuf, head, tail, accepted, connfd, served>>,
         worker' \in [Workers -> WorkerAt],
         \A w \in Workers :
           \/ worker'[w] = worker[w]
           \/ /\ worker[w] \in {"ready", "consWait"}
              /\ \/ worker'[w] \in {"ready", "consWait"}
                 \/ worker'[w] = "done" /\ Empty /\ exiting
           \/ worker[w] = "serving" /\ worker'[w] = "stuck",
         died' \in BOOLEAN,
         exiting' \in BOOLEAN, exiting => exiting',
         main' \in MainAt,
         main' \in {"request", "prodWait", "stuck"} <=> main \in {"request", "prodWait", "stuck"},
         exiting' <=> main' \in {"join", "finished"},
         main' = "finished" => \A w \in threads : worker'[w] = "done"
  PROVE  IInv'
<1>1. TypeOK'
  BY DEF IInv, TypeOK, Slot
<1>2. RingExact'
  BY DEF IInv, RingExact, Queued, Slot
<1>3. Places'
  BY DEF IInv, Places, Busy, Empty, TypeOK
<1>4. /\ Busy' = Busy /\ InHand' = InHand /\ InBuffer' = InBuffer
      /\ InService' = InService /\ Queued' = Queued
  BY DEF IInv, Busy, InHand, InBuffer, InService, Queued, Slot
<1>5. Apart'
  BY <1>4 DEF IInv, Apart, Slot
<1>6. Conserved'
  BY <1>4 DEF IInv, Conserved, Busy
<1> QED
  BY <1>1, <1>2, <1>3, <1>5, <1>6 DEF IInv

-----------------------------------------------------------------------------
(* The steps that move a connection.                                       *)

(* What main and the workers hold is finite and can be counted.             *)
LEMMA Countable ==
  ASSUME IInv
  PROVE  /\ IsFiniteSet(served) /\ IsFiniteSet(Busy)
         /\ Cardinality(served) \in Nat /\ Cardinality(Busy) \in Nat
         /\ Queued \in Nat
         /\ Cardinality(InHand) \in Nat
         /\ Cardinality(InHand) + Queued + Cardinality(Busy) + Cardinality(served)
              = accepted
<1>1. IsFiniteSet(Conn) /\ IsFiniteSet(Workers)
  BY ConnsAssumption, WorkersAssumption, FS_Interval DEF Conn
<1>2. IsFiniteSet(served) /\ IsFiniteSet(Busy)
  BY <1>1, FS_Subset DEF IInv, TypeOK, Busy
<1>3. Cardinality(InHand) \in Nat
  <2>1. InHand = {} \/ InHand = {accepted}
    BY DEF InHand
  <2>2. Cardinality({}) = 0 /\ Cardinality({accepted}) = 1
    BY FS_EmptySet, FS_Singleton
  <2> QED
    BY <2>1, <2>2
<1>4. Cardinality(InHand) + Queued + Cardinality(Busy) + Cardinality(served)
        = accepted
  BY DEF IInv, Conserved, Busy
<1> QED
  BY <1>2, <1>3, <1>4, RingFacts, FS_CardinalityType DEF IInv

(* Main takes a connection in hand.                                         *)
LEMMA AcceptInv ==
  ASSUME IInv, Accept, UNCHANGED config
  PROVE  IInv'
<1> USE DEF config
<1>1. accepted \in 0 .. Conns /\ accepted' = accepted + 1 /\ accepted' \in 0 .. Conns
  BY ConnsAssumption DEF IInv, TypeOK, Accept
<1>2. TypeOK'
  BY <1>1 DEF IInv, TypeOK, Accept, Slot, MainAt
<1>3. RingExact'
  BY DEF IInv, RingExact, Queued, Slot, Accept
<1>4. Places'
  BY DEF IInv, Places, Busy, Empty, Accept
<1>5. /\ Busy' = Busy /\ InBuffer' = InBuffer /\ InService' = InService
      /\ Queued' = Queued /\ served' = served
      /\ InHand = {} /\ InHand' = {accepted + 1}
  BY DEF Busy, InHand, InBuffer, InService, Queued, Slot, Accept
<1>6. /\ InBuffer \cup InService \cup served = 1 .. accepted
      /\ accepted + 1 \notin 1 .. accepted
      /\ (1 .. accepted) \cup {accepted + 1} = 1 .. accepted'
  BY <1>1, <1>5 DEF IInv, Conserved
<1>7. Apart'
  BY <1>5, <1>6 DEF IInv, Apart, Slot, Accept
<1>8. Cardinality(InHand) = 0 /\ Cardinality(InHand') = 1
  BY <1>5, FS_EmptySet, FS_Singleton
<1>9. Cardinality(InHand') + Queued' + Cardinality(Busy') + Cardinality(served') = accepted'
  BY <1>1, <1>5, <1>8, Countable
<1>10. Conserved'
  BY <1>5, <1>6, <1>9 DEF Conserved, Busy
<1> QED
  BY <1>2, <1>3, <1>4, <1>7, <1>10 DEF IInv

(* Main serves the connection in its hand itself.                           *)
LEMMA ServeAloneInv ==
  ASSUME IInv, ServeAlone, UNCHANGED config
  PROVE  IInv'
<1> USE DEF config
<1>1. /\ InHand = {accepted} /\ InHand' = {}
      /\ served' = served \cup {accepted} /\ accepted' = accepted
  BY DEF ServeAlone, InHand
<1>2. accepted \in 1 .. accepted /\ accepted \in Conn /\ accepted \notin served
  BY <1>1, ConnsAssumption DEF IInv, TypeOK, Apart, Conserved, Conn
<1>3. TypeOK'
  BY <1>2 DEF IInv, TypeOK, ServeAlone, Slot, MainAt
<1>4. RingExact'
  BY DEF IInv, RingExact, Queued, Slot, ServeAlone
<1>5. Places'
  BY DEF IInv, Places, Busy, Empty, ServeAlone
<1>6. /\ Busy' = Busy /\ InBuffer' = InBuffer /\ InService' = InService
      /\ Queued' = Queued
  BY DEF Busy, InBuffer, InService, Queued, Slot, ServeAlone
<1>7. Apart'
  BY <1>1, <1>6 DEF IInv, Apart, Slot, ServeAlone
<1>8. Cardinality(InHand) = 1 /\ Cardinality(InHand') = 0
  BY <1>1, FS_EmptySet, FS_Singleton
<1>9. Cardinality(served') = Cardinality(served) + 1
  BY <1>1, <1>2, Countable, FS_AddElement
<1>10. Cardinality(InHand') + Queued' + Cardinality(Busy') + Cardinality(served') = accepted'
  BY <1>1, <1>6, <1>8, <1>9, Countable
<1>11. Conserved'
  BY <1>1, <1>6, <1>10 DEF IInv, Conserved, Busy
<1> QED
  BY <1>3, <1>4, <1>5, <1>7, <1>11 DEF IInv

(* A worker has served its connection.                                      *)
LEMMA ServeInv ==
  ASSUME IInv, NEW w \in Workers, Serve(w), UNCHANGED config
  PROVE  IInv'
<1> USE DEF config
<1> DEFINE c == connfd[w]
<1>1. /\ w \in Busy /\ c \in InService /\ c \in Conn /\ c # Free /\ Free \notin Conn
      /\ served' = served \cup {c} /\ c \notin served
  BY DEF IInv, TypeOK, Places, Apart, Serve, Busy, InService, Conn, Free
<1>2. TypeOK'
  BY <1>1 DEF IInv, TypeOK, Serve, Slot, WorkerAt
<1>3. RingExact'
  BY DEF IInv, RingExact, Queued, Slot, Serve
<1>4. Places'
  BY DEF IInv, Places, Busy, Empty, Serve, TypeOK
<1>5. /\ InHand' = InHand /\ InBuffer' = InBuffer /\ Queued' = Queued
      /\ accepted' = accepted
  BY DEF InBuffer, InHand, Queued, Slot, Serve
<1>6. Busy' = Busy \ {w}
  BY DEF IInv, TypeOK, Busy, Serve
<1>7. InService' = InService \ {c}
  BY <1>1 DEF IInv, TypeOK, InService, Serve, Apart
<1>8. Apart'
  BY <1>1, <1>5, <1>7 DEF IInv, TypeOK, Apart, Slot, Serve
<1>9. /\ Cardinality(served') = Cardinality(served) + 1
      /\ Cardinality(Busy') = Cardinality(Busy) - 1
  BY <1>1, <1>6, Countable, FS_AddElement, FS_RemoveElement
<1>10. Cardinality(InHand) \in Nat /\ InHand' = InHand
  BY <1>5, Countable
<1>11. Cardinality(InHand') + Queued' + Cardinality(Busy') + Cardinality(served') = accepted'
  BY <1>5, <1>9, <1>10, Countable
<1>12. Conserved'
  BY <1>1, <1>5, <1>7, <1>11 DEF IInv, Conserved, Busy
<1> QED
  BY <1>2, <1>3, <1>4, <1>8, <1>12 DEF IInv

(* A connection that main puts in adds one to the ring, one that a worker   *)
(* takes leaves one less.                                                   *)
LEMMA RequestCounts ==
  ASSUME IInv, Request, UNCHANGED config
  PROVE  Queued \in 0 .. size - 1 /\ Queued < size - 1 /\ Queued' = Queued + 1
<1>1. /\ size' = size /\ tail' = tail /\ size \in Nat \ {0}
      /\ head \in 0 .. size - 1 /\ tail \in 0 .. size - 1
      /\ Queued \in 0 .. size - 1 /\ Queued # size - 1
      /\ Queued = IF head >= tail THEN head - tail ELSE head - tail + size
      /\ head' = IF head = size - 1 THEN 0 ELSE head + 1
  BY RingFacts DEF Request, IInv, TypeOK, config
<1>2. head' \in 0 .. size - 1
  BY <1>1
<1>3. (head' - tail + size) % size = IF head' >= tail THEN head' - tail ELSE head' - tail + size
  BY <1>1, <1>2, Around
<1>4. Queued' = (head' - tail + size) % size
  BY <1>1 DEF Queued
<1> QED
  BY <1>1, <1>2, <1>3, <1>4

(* See RequestCounts.                                                       *)
LEMMA TakeCounts ==
  ASSUME IInv, NEW w \in Workers, Take(w), UNCHANGED config
  PROVE  Queued \in 1 .. size - 1 /\ Queued' = Queued - 1
<1>1. /\ size' = size /\ head' = head /\ size \in Nat \ {0}
      /\ head \in 0 .. size - 1 /\ tail \in 0 .. size - 1
      /\ Queued \in 0 .. size - 1 /\ Queued # 0
      /\ Queued = IF head >= tail THEN head - tail ELSE head - tail + size
      /\ tail' = IF tail = size - 1 THEN 0 ELSE tail + 1
  BY RingFacts DEF Take, IInv, TypeOK, config
<1>2. tail' \in 0 .. size - 1
  BY <1>1
<1>3. (head - tail' + size) % size = IF head >= tail' THEN head - tail' ELSE head - tail' + size
  BY <1>1, <1>2, Around
<1>4. Queued' = (head - tail' + size) % size
  BY <1>1 DEF Queued
<1> QED
  BY <1>1, <1>2, <1>3, <1>4

(* Main puts the connection in its hand into the slot at head, which is     *)
(* free, and may wake a worker.                                             *)
LEMMA RequestInv ==
  ASSUME IInv, Request, UNCHANGED config
  PROVE  IInv'
<1> USE DEF config
<1>1. /\ size \in Nat \ {0} /\ Slot = 0 .. size - 1 /\ Slot' = Slot
      /\ head \in Slot /\ tail \in Slot /\ Queued \in 0 .. size - 1
      /\ Queued # size - 1
      /\ head' = (IF head = size - 1 THEN 0 ELSE head + 1) /\ tail' = tail
      /\ accepted' = accepted /\ served' = served /\ connfd' = connfd
      /\ connBuf' = [connBuf EXCEPT ![head] = accepted]
  BY RingFacts DEF IInv, TypeOK, Request, Slot
<1>2. /\ worker' \in [Workers -> WorkerAt]
      /\ \A w \in Workers :
           \/ worker'[w] = worker[w]
           \/ worker[w] = "consWait" /\ worker'[w] = "ready"
  BY SignalFacts DEF IInv, Request
<1>3. /\ InHand = {accepted} /\ InHand' = {}
      /\ InService' = InService /\ Busy' = Busy
  BY <1>1, <1>2 DEF Request, InHand, InService, Busy
<1>4. accepted \in 1 .. accepted /\ accepted \in Conn /\ Free \notin Conn
  BY <1>3, ConnsAssumption DEF IInv, TypeOK, Conserved, Conn, Free
<1>5. TypeOK'
  BY <1>1, <1>2, <1>4 DEF IInv, TypeOK, Request, MainAt
<1>6. /\ Queued = IF head >= tail THEN head - tail ELSE head - tail + size
      /\ Queued' = Queued + 1 /\ size' = size
  BY RequestCounts, RingFacts DEF IInv
<1>7. connBuf[head] = Free
  BY <1>1 DEF IInv, RingExact, Queued
<1>8. RingExact'
  <2> SUFFICES ASSUME NEW i \in Slot
               PROVE  connBuf'[i] = Free <=> (i - tail + size) % size >= Queued'
    BY <1>1, <1>6 DEF RingExact
  <2>1. /\ (i - tail + size) % size = IF i >= tail THEN i - tail ELSE i - tail + size
        /\ connBuf[i] = Free <=> (i - tail + size) % size >= Queued
    BY <1>1, Around, SMTT(30) DEF IInv, RingExact
  <2>2. CASE i = head
    <3>1. connBuf'[i] = accepted /\ accepted # Free
      BY <1>1, <1>4, <2>2 DEF IInv, TypeOK
    <3>2. (i - tail + size) % size = Queued
      BY <1>6, <2>1, <2>2
    <3>3. ~((i - tail + size) % size >= Queued')
      BY <1>1, <1>6, <3>2
    <3> QED
      BY <3>1, <3>3
  <2>3. CASE i # head
    <3>1. connBuf'[i] = connBuf[i]
      BY <1>1, <2>3 DEF IInv, TypeOK
    <3>2. (i - tail + size) % size # Queued
      BY <1>1, <1>6, <2>1, <2>3
    <3>3. (i - tail + size) % size \in Int /\ Queued \in Int
      BY <1>1, <2>1
    <3> QED
      BY <1>6, <2>1, <3>1, <3>2, <3>3
  <2> QED
    BY <2>2, <2>3
<1>9. Places'
  BY <1>1, <1>2 DEF IInv, Places, Busy, Request
<1>10. InBuffer' = InBuffer \cup {accepted}
  BY <1>1, <1>4, <1>7 DEF IInv, TypeOK, InBuffer
<1>11. Apart'
  BY <1>1, <1>3, <1>4, <1>10 DEF IInv, TypeOK, Apart, InBuffer
<1>12. Cardinality(InHand) = 1 /\ Cardinality(InHand') = 0
  BY <1>3, FS_EmptySet, FS_Singleton
<1>13. Cardinality(InHand') + Queued' + Cardinality(Busy') + Cardinality(served') = accepted'
  BY <1>1, <1>3, <1>6, <1>12, Countable
<1>14. Conserved'
  BY <1>1, <1>3, <1>10, <1>13 DEF IInv, Conserved, Busy
<1> QED
  BY <1>5, <1>8, <1>9, <1>11, <1>14 DEF IInv

(* A worker takes the oldest connection out of the slot at tail.            *)
LEMMA TakeInv ==
  ASSUME IInv, NEW w \in Workers, Take(w), UNCHANGED config
  PROVE  IInv'
<1> USE DEF config
<1> DEFINE c == connBuf[tail]
<1>1. /\ size \in Nat \ {0} /\ Slot = 0 .. size - 1 /\ Slot' = Slot
      /\ head \in Slot /\ tail \in Slot /\ Queued \in 0 .. size - 1
      /\ Queued # 0
      /\ tail' = (IF tail = size - 1 THEN 0 ELSE tail + 1) /\ head' = head
      /\ accepted' = accepted /\ served' = served
      /\ connfd' = [connfd EXCEPT ![w] = c]
      /\ connBuf' = [connBuf EXCEPT ![tail] = Free]
      /\ worker' = [worker EXCEPT ![w] = "serving"] /\ worker[w] = "ready"
  BY RingFacts DEF IInv, TypeOK, Take, Slot
<1>2. c # Free /\ c \in Conn /\ c \in InBuffer /\ Free \notin Conn
  <2>1. (tail - tail + size) % size = 0
    BY <1>1, Around
  <2>2. c # Free
    BY <1>1, <2>1 DEF IInv, RingExact
  <2>3. c \in Conn \cup {Free}
    BY <1>1 DEF IInv, TypeOK
  <2> QED
    BY <1>1, <2>2, <2>3 DEF InBuffer, Conn, Free
<1>3. TypeOK'
  BY <1>1, <1>2 DEF IInv, TypeOK, Take, MainAt, SignalProd, WorkerAt
<1>4. /\ Queued = IF head >= tail THEN head - tail ELSE head - tail + size
      /\ Queued' = Queued - 1 /\ size' = size /\ tail' \in 0 .. size - 1
  BY <1>1, TakeCounts, RingFacts DEF IInv
<1>5. RingExact'
  <2> SUFFICES ASSUME NEW i \in Slot
               PROVE  connBuf'[i] = Free <=> (i - tail' + size) % size >= Queued'
    BY <1>1, <1>4 DEF RingExact
  <2>1. /\ (i - tail + size) % size = IF i >= tail THEN i - tail ELSE i - tail + size
        /\ (i - tail' + size) % size = IF i >= tail' THEN i - tail' ELSE i - tail' + size
    BY <1>1, <1>4, Around, ZenonT(30)
  <2>2. CASE i = tail
    BY <1>1, <1>4, <2>1, <2>2 DEF IInv, TypeOK
  <2>3. CASE i # tail
    <3>1. connBuf'[i] = connBuf[i]
      BY <1>1, <2>3 DEF IInv, TypeOK
    <3>2. (i - tail' + size) % size = ((i - tail + size) % size) - 1
      BY <1>1, <1>4, <2>1, <2>3
    <3>3. (i - tail + size) % size \in Int /\ Queued \in Int
      BY <1>1, <2>1
    <3>4. connBuf[i] = Free <=> (i - tail + size) % size >= Queued
      BY <1>1 DEF IInv, RingExact
    <3> QED
      BY <1>4, <3>1, <3>2, <3>3, <3>4
  <2> QED
    BY <2>2, <2>3
<1>6. Places'
  BY <1>1, <1>2 DEF IInv, TypeOK, Places, Busy, Take, SignalProd, Empty
<1>7. InBuffer' = InBuffer \ {c}
  BY <1>1, <1>2 DEF IInv, TypeOK, InBuffer, Apart
<1>8. InService' = InService \cup {c} /\ Busy' = Busy \cup {w} /\ w \notin Busy
  BY <1>1, <1>2 DEF IInv, TypeOK, InService, Busy, Places
<1>9. InHand' = InHand
  BY <1>1 DEF InHand, Take, SignalProd
<1>10. \A v \in Workers : connfd[v] # c
  BY <1>2 DEF IInv, Apart, InService
<1>11. Apart'
  BY <1>1, <1>2, <1>7, <1>8, <1>9, <1>10 DEF IInv, TypeOK, Apart
<1>12. Cardinality(Busy') = Cardinality(Busy) + 1
  BY <1>8, Countable, FS_AddElement
<1>13. Cardinality(InHand') + Queued' + Cardinality(Busy') + Cardinality(served') = accepted'
  <2>1. /\ accepted' = accepted /\ served' = served /\ InHand' = InHand
        /\ Queued' = Queued - 1
    BY <1>1, <1>4, <1>9
  <2> QED
    BY <2>1, <1>12, Countable
<1>14. Conserved'
  BY <1>1, <1>2, <1>7, <1>8, <1>9, <1>13 DEF IInv, Conserved, Busy
<1> QED
  BY <1>3, <1>5, <1>6, <1>11, <1>14 DEF IInv

-----------------------------------------------------------------------------
(* The inductive invariant.                                                *)

(* The invariant holds in the empty ring.                                    *)
LEMMA InitInv == Init => IInv
<1> SUFFICES ASSUME Init PROVE IInv
  OBVIOUS
<1>1. size \in Nat \ {0} /\ Slot = 0 .. size - 1 /\ 0 \in Slot
  BY MaxRequestsAssumption DEF Init, Slot
<1>2. TypeOK
  <2>1. worker \in [Workers -> WorkerAt] /\ main \in MainAt /\ exiting \in BOOLEAN
        /\ died \in BOOLEAN
    BY DEF Init, WorkerAt, MainAt
  <2>2. connBuf \in [Slot -> Conn \cup {Free}] /\ connfd \in [Workers -> Conn \cup {Free}]
    BY DEF Init
  <2> QED
    BY <1>1, <2>1, <2>2, ConnsAssumption DEF Init, TypeOK
<1>3. /\ Queued = 0
      /\ \A i \in Slot : (i - tail + size) % size = i
  <2>1. \A i \in Slot : (i - 0 + size) % size = i
    BY <1>1, Around
  <2> QED
    BY <1>1, <2>1 DEF Init, Queued
<1>4. RingExact
  BY <1>1, <1>3 DEF RingExact, Init
<1>5. Places
  BY DEF Init, Places, Busy, Empty
<1>6. /\ InHand = {} /\ InBuffer = {} /\ InService = {} /\ served = {}
      /\ Busy = {}
  BY DEF Init, InHand, InBuffer, InService, Busy
<1>7. Apart
  BY <1>6 DEF Apart, Init
<1>8. Conserved
  <2>1. accepted = 0 /\ 1 .. accepted = {}
    BY DEF Init
  <2>2. Cardinality({}) = 0
    BY FS_EmptySet
  <2>3. InHand \cup InBuffer \cup InService \cup served = 1 .. accepted
    BY <1>6, <2>1
  <2>4. /\ Cardinality(InHand) = 0 /\ Cardinality(Busy) = 0
        /\ Cardinality(served) = 0
    BY <1>6, <2>2
  <2>5. Cardinality(InHand) + Queued + Cardinality(Busy) + Cardinality(served) = accepted
    BY <1>3, <2>1, <2>4
  <2> QED
    BY <2>3, <2>5 DEF Conserved, Busy
<1> QED
  BY <1>2, <1>4, <1>5, <1>7, <1>8 DEF IInv

(* Every step keeps the invariant.                                           *)
LEMMA NextInv == IInv /\ [Next]_vars => IInv'
<1> SUFFICES ASSUME IInv, [Next]_vars PROVE IInv'
  OBVIOUS
<1> USE DEF config
<1>1. /\ worker \in [Workers -> WorkerAt] /\ exiting \in BOOLEAN /\ main \in MainAt
      /\ died \in BOOLEAN
      /\ exiting <=> main \in {"join", "finished"}
      /\ main = "finished" => \A w \in threads : worker[w] = "done"
  BY DEF IInv, TypeOK, Places
<1>2. CASE Accept /\ UNCHANGED config
  BY <1>2, AcceptInv
<1>3. CASE AskedToExit /\ UNCHANGED config
  BY <1>1, <1>3, QuietStep DEF AskedToExit, MainAt
<1>4. CASE ServeAlone /\ UNCHANGED config
  BY <1>4, ServeAloneInv
<1>5. CASE RequestWait /\ UNCHANGED config
  BY <1>1, <1>5, QuietStep DEF RequestWait, MainAt
<1>6. CASE Request /\ UNCHANGED config
  BY <1>6, RequestInv
<1>7. CASE ExitAnnounce /\ UNCHANGED config
  BY <1>1, <1>7, SignalFacts, QuietStep DEF ExitAnnounce, MainAt, IInv
<1>8. CASE ExitJoined /\ UNCHANGED config
  BY <1>1, <1>8, QuietStep DEF ExitJoined, MainAt
<1>9. ASSUME NEW w \in Workers, Leave(w), UNCHANGED config
      PROVE  IInv'
  BY <1>1, <1>9, QuietStep DEF Leave, MayLeave, WorkerAt
<1>10. ASSUME NEW w \in Workers, WaitForRequest(w), UNCHANGED config
       PROVE  IInv'
  BY <1>1, <1>10, QuietStep DEF WaitForRequest, WorkerAt
<1>11. ASSUME NEW w \in Workers, Take(w), UNCHANGED config
       PROVE  IInv'
  BY <1>11, TakeInv
<1>12. ASSUME NEW w \in Workers, Serve(w), UNCHANGED config
       PROVE  IInv'
  BY <1>12, ServeInv
<1>13. ASSUME NEW w \in Workers, SpuriousCons(w), UNCHANGED config
       PROVE  IInv'
  <2>1. main = "finished" => worker' = worker
    BY <1>1, <1>13 DEF SpuriousCons, IInv, Places
  <2> QED
    BY <1>1, <1>13, <2>1, SignalFacts, QuietStep DEF SpuriousCons, IInv
<1>14. CASE SpuriousProd /\ UNCHANGED config
  BY <1>1, <1>14, QuietStep DEF SpuriousProd, MainAt
<1>15. CASE UNCHANGED vars
  BY <1>1, <1>15, QuietStep DEF vars
<1>16. CASE StickAlone /\ UNCHANGED config
  BY <1>1, <1>16, QuietStep DEF StickAlone, MainAt
<1>17. ASSUME NEW w \in Workers, Stick(w), UNCHANGED config
       PROVE  IInv'
  <2>1. main # "finished"
    BY <1>17 DEF Stick, IInv, Places, Busy
  <2> QED
    BY <1>1, <1>17, <2>1, QuietStep DEF Stick, WorkerAt
<1>18. CASE Die
  BY <1>1, <1>18, QuietStep DEF Die
<1> QED
  BY <1>2, <1>3, <1>4, <1>5, <1>6, <1>7, <1>8, <1>9, <1>10, <1>11, <1>12, <1>13,
     <1>14, <1>15, <1>16, <1>17, <1>18 DEF Next, Step, Main, Working, Stopped

(* The invariant holds for every size of the ring and every number of        *)
(* workers.                                                                  *)
THEOREM InvHolds == Spec => []IInv
  BY InitInv, NextInv, PTL DEF Spec

(* The head, the tail, the slots and the hands have their types.            *)
THEOREM TypesHold == Spec => []TypeOK
<1>1. IInv => TypeOK
  BY DEF IInv
<1> QED
  BY <1>1, InvHolds, PTL

(* Exactly the slots from tail to head are in use: the assertion of         *)
(* server_thread.c:462 never fails, with a buffer of any size.              *)
THEOREM RingIsExact == Spec => []RingExact
<1>1. IInv => RingExact
  BY DEF IInv
<1> QED
  BY <1>1, InvHolds, PTL

(* No accepted connection is lost, none is in two places and none is served *)
(* twice.                                                                   *)
THEOREM NothingIsLost == Spec => []Conserved
<1>1. IInv => Conserved
  BY DEF IInv
<1> QED
  BY <1>1, InvHolds, PTL

(* When server_exit returns, everything that was accepted has been served:  *)
(* the main thread has nothing in hand, every worker has left, and the one  *)
(* that left last left an empty buffer, which nobody fills any more.        *)
THEOREM DrainedWhenFinished == Spec => []DrainedAtExit
<1>1. IInv => DrainedAtExit
  <2> SUFFICES ASSUME IInv, main = "finished" PROVE served = 1 .. accepted
    BY DEF DrainedAtExit
  <2>1. \A w \in Workers : worker[w] \in {"none", "done"}
    BY DEF IInv, TypeOK, Places
  <2>2. InHand = {} /\ InService = {}
    BY <2>1 DEF IInv, Places, Busy, InHand, InService
  <2>3. Empty
    BY DEF IInv, TypeOK, Places
  <2>4. \A i \in Slot : connBuf[i] = Free
    <3>1. Queued = 0
      BY <2>3, RingFacts DEF IInv
    <3>2. \A i \in Slot : (i - tail + size) % size >= 0
      BY RingFacts, Around DEF IInv, TypeOK
    <3> QED
      BY <3>1, <3>2 DEF IInv, RingExact
  <2>5. InBuffer = {}
    BY <2>4 DEF InBuffer
  <2> QED
    BY <2>2, <2>5 DEF IInv, Conserved
<1> QED
  BY <1>1, InvHolds, PTL

-----------------------------------------------------------------------------
(* The ring buffer implements the queue of BoundedFifo.                    *)

(* The slot of the k-th oldest connection.                                  *)
Place(k) == (tail + k - 1) % size

(* The items are in consecutive slots from tail on.                         *)
LEMMA ItemsFacts ==
  ASSUME TypeOK, RingExact
  PROVE  /\ \A k \in 1 .. size :
              /\ Place(k) = IF tail + k - 1 < size THEN tail + k - 1 ELSE tail + k - 1 - size
              /\ Place(k) \in Slot
         /\ Items = [k \in 1 .. Queued |-> connBuf[Place(k)]]
         /\ Items \in Seq(Conn) /\ Len(Items) = Queued
<1>1. ASSUME NEW k \in 1 .. size
      PROVE  /\ Place(k) = IF tail + k - 1 < size THEN tail + k - 1 ELSE tail + k - 1 - size
             /\ Place(k) \in Slot
  <2>1. k - 1 \in 0 .. size - 1 /\ tail \in 0 .. size - 1 /\ size \in Nat \ {0}
    BY RingFacts DEF TypeOK
  <2>2. (tail + (k - 1)) % size
           = IF tail + (k - 1) < size THEN tail + (k - 1) ELSE tail + (k - 1) - size
    BY <2>1, Around
  <2>3. tail + k - 1 = tail + (k - 1)
    BY <2>1
  <2> QED
    BY <2>1, <2>2, <2>3, RingFacts DEF Place
<1>2. Items = [k \in 1 .. Queued |-> connBuf[Place(k)]]
  BY DEF Items, Place
<1>3. ASSUME NEW k \in 1 .. Queued
      PROVE  connBuf[Place(k)] \in Conn
  <2>1. /\ k \in 1 .. size /\ Queued \in Nat /\ size \in Nat \ {0} /\ tail \in 0 .. size - 1
        /\ Slot = 0 .. size - 1
    BY RingFacts DEF TypeOK
  <2>2. Place(k) \in Slot
    BY <1>1, <2>1
  <2>3. (Place(k) - tail + size) % size = k - 1
    <3>1. (Place(k) - tail + size) % size
            = IF Place(k) >= tail THEN Place(k) - tail ELSE Place(k) - tail + size
      BY <2>1, <2>2, Around
    <3>2. Place(k) = IF tail + k - 1 < size THEN tail + k - 1 ELSE tail + k - 1 - size
      BY <1>1, <2>1
    <3> HIDE DEF Place
    <3>3. k \in Int /\ tail \in Int /\ size \in Int /\ k >= 1 /\ k <= size
          /\ tail >= 0 /\ tail < size
      BY <2>1
    <3> QED
      BY <3>1, <3>2, <3>3
  <2>4. connBuf[Place(k)] # Free
    <3>1. connBuf[Place(k)] = Free <=> (Place(k) - tail + size) % size >= Queued
      BY <2>2 DEF RingExact
    <3>2. ~ (k - 1 >= Queued)
      BY <2>1
    <3> QED
      BY <2>3, <3>1, <3>2
  <2> QED
    BY <2>2, <2>4 DEF TypeOK
<1>4. Queued \in Nat
  BY RingFacts
<1>5. Items \in [1 .. Queued -> Conn]
  BY <1>2, <1>3
<1> QED
  BY <1>1, <1>2, <1>4, <1>5

(* Where the ring stays as it is, so do the items.                          *)
LEMMA ItemsStay ==
  ASSUME UNCHANGED <<size, connBuf, head, tail>>
  PROVE  Items' = Items
  BY DEF Items, Queued

(* Main puts one item behind the others, while there is a place for it.     *)
LEMMA RequestPuts ==
  ASSUME IInv, Request, UNCHANGED config
  PROVE  accepted \in Conn /\ Fifo!Put(accepted)
<1>1. IInv'
  BY RequestInv
<1>2. /\ accepted \in Conn /\ size' = size /\ tail' = tail
      /\ connBuf' = [connBuf EXCEPT ![head] = accepted]
      /\ connBuf \in [Slot -> Conn \cup {Free}]
      /\ size \in Nat \ {0} /\ head \in Slot /\ tail \in Slot /\ Slot = 0 .. size - 1
  BY RingFacts, ConnsAssumption DEF IInv, TypeOK, Conserved, InHand, Request, config, Conn
<1>3. Queued \in 0 .. size - 1 /\ Queued < size - 1 /\ Queued' = Queued + 1
  BY RequestCounts
<1>4. /\ Items = [k \in 1 .. Queued |-> connBuf[Place(k)]]
      /\ Items \in Seq(Conn) /\ Len(Items) = Queued
      /\ \A k \in 1 .. size :
           /\ Place(k) = IF tail + k - 1 < size THEN tail + k - 1 ELSE tail + k - 1 - size
           /\ Place(k) \in Slot
  BY ItemsFacts DEF IInv
<1>5. Items' = [k \in 1 .. Queued + 1 |-> connBuf'[Place(k)]]
  BY <1>2, <1>3 DEF Items, Place
<1>6. /\ Queued = IF head >= tail THEN head - tail ELSE head - tail + size
      /\ head \in 0 .. size - 1 /\ tail \in 0 .. size - 1
  BY <1>2, RingFacts DEF IInv
<1>7. Place(Queued + 1) = head /\ \A k \in 1 .. Queued : Place(k) # head
  <2>1. Queued + 1 \in 1 .. size /\ \A k \in 1 .. Queued : k \in 1 .. size
    BY <1>2, <1>3
  <2>2. Place(Queued + 1) = head
    <3>1. Place(Queued + 1) = IF tail + (Queued + 1) - 1 < size
                              THEN tail + (Queued + 1) - 1 ELSE tail + (Queued + 1) - 1 - size
      BY <1>4, <2>1
    <3> QED
      BY <1>2, <1>6, <3>1
  <2>3. ASSUME NEW k \in 1 .. Queued
        PROVE  Place(k) # head
    <3>1. Place(k) = IF tail + k - 1 < size THEN tail + k - 1 ELSE tail + k - 1 - size
      BY <1>4, <2>1
    <3>2. k \in Int /\ k >= 1 /\ k <= Queued /\ Queued < size - 1
      BY <1>3
    <3> QED
      BY <1>2, <1>6, <3>1, <3>2
  <2> QED
    BY <2>2, <2>3
<1>8. Items' = Append(Items, accepted)
  <2>1. \A k \in 1 .. Queued : connBuf'[Place(k)] = Items[k]
    BY <1>2, <1>3, <1>4, <1>7
  <2>2. connBuf'[Place(Queued + 1)] = accepted
    BY <1>2, <1>7
  <2>3. Append(Items, accepted)
          = [k \in 1 .. Queued + 1 |-> IF k = Queued + 1 THEN accepted ELSE Items[k]]
    BY <1>2, <1>3, <1>4
  <2>4. \A k \in 1 .. Queued + 1 : k \in 1 .. Queued \/ k = Queued + 1
    BY <1>3
  <2> QED
    BY <1>3, <1>5, <2>1, <2>2, <2>3, <2>4
<1> QED
  BY <1>2, <1>3, <1>4, <1>8 DEF Fifo!Put

(* A worker takes the oldest one.                                           *)
LEMMA TakeGets ==
  ASSUME IInv, NEW w \in Workers, Take(w), UNCHANGED config
  PROVE  Fifo!Get
<1>1. /\ size' = size /\ head' = head
      /\ connBuf' = [connBuf EXCEPT ![tail] = Free]
      /\ connBuf \in [Slot -> Conn \cup {Free}]
      /\ size \in Nat \ {0} /\ head \in Slot /\ tail \in Slot /\ Slot = 0 .. size - 1
  BY RingFacts DEF IInv, TypeOK, Take, config
<1>2. tail' = (IF tail = size - 1 THEN 0 ELSE tail + 1) /\ tail' \in 0 .. size - 1
  BY <1>1, RingFacts DEF Take, IInv
<1>3. Queued \in 1 .. size - 1 /\ Queued' = Queued - 1
  BY TakeCounts
<1>4. /\ Items = [k \in 1 .. Queued |-> connBuf[Place(k)]]
      /\ Items \in Seq(Conn) /\ Len(Items) = Queued
      /\ \A k \in 1 .. size :
           /\ Place(k) = IF tail + k - 1 < size THEN tail + k - 1 ELSE tail + k - 1 - size
           /\ Place(k) \in Slot
  BY ItemsFacts DEF IInv
<1>5. Items' = [k \in 1 .. Queued - 1 |-> connBuf'[(tail' + k - 1) % size]]
  BY <1>1, <1>3 DEF Items
<1>6. ASSUME NEW k \in 1 .. Queued - 1
      PROVE  (tail' + k - 1) % size = Place(k + 1) /\ Place(k + 1) # tail
  <2>1. k - 1 \in 0 .. size - 1
    BY <1>1, <1>3
  <2>2. (tail' + (k - 1)) % size
          = IF tail' + (k - 1) < size THEN tail' + (k - 1) ELSE tail' + (k - 1) - size
    BY <1>1, <1>2, <2>1, Around
  <2>3. k + 1 \in 1 .. size
    BY <1>1, <1>3
  <2>4. tail' + k - 1 = tail' + (k - 1)
    BY <1>1, <1>2
  <2>5. Place(k + 1) = IF tail + (k + 1) - 1 < size
                       THEN tail + (k + 1) - 1 ELSE tail + (k + 1) - 1 - size
    BY <1>4, <2>3
  <2>6. /\ k \in Int /\ k >= 1 /\ k + 1 < size /\ size \in Int
        /\ tail \in Int /\ 0 <= tail /\ tail < size
    BY <1>1, <1>3
  <2>7. Place(k + 1) # tail
    BY <2>5, <2>6
  <2>8. (tail' + (k - 1)) % size = Place(k + 1)
    BY <1>2, <2>2, <2>5, <2>6
  <2> QED
    BY <2>4, <2>7, <2>8
<1>7. Items' = Tail(Items)
  <2>1. \A k \in 1 .. Queued - 1 : connBuf'[(tail' + k - 1) % size] = Items[k + 1]
    BY <1>1, <1>3, <1>4, <1>6
  <2>2. Tail(Items) = [k \in 1 .. Queued - 1 |-> Items[k + 1]]
    BY <1>3, <1>4
  <2> QED
    BY <1>5, <2>1, <2>2
<1> QED
  BY <1>3, <1>4, <1>7 DEF Fifo!Get

(* The ring buffer of conn_buf, request_head and request_tail is a          *)
(* first-in first-out queue of max_requests places: initial states are      *)
(* empty queues, and a step puts one connection, gets the oldest one, or    *)
(* leaves the queue alone.                                                  *)
THEOREM RingIsFifo == Spec => ImplementsFifo
<1>1. Init => Fifo!Init
  <2> SUFFICES ASSUME Init PROVE Fifo!Init
    OBVIOUS
  <2>1. TypeOK /\ RingExact
    BY InitInv DEF IInv
  <2>2. Queued = 0
    BY <2>1, RingFacts DEF Init, Empty
  <2>3. Items = <<>>
    BY <2>1, <2>2, ItemsFacts
  <2>4. size - 1 \in Nat
    BY <2>1, RingFacts
  <2> QED
    BY <2>3, <2>4 DEF Fifo!Init
<1>2. IInv /\ [Next]_vars => [Fifo!Next]_Fifo!vars
  <2> SUFFICES ASSUME IInv, [Next]_vars PROVE [Fifo!Next]_Fifo!vars
    OBVIOUS
  <2>1. size' = size
    BY DEF Next, Step, Die, config, Stopped, vars
  <2>2. CASE Request /\ UNCHANGED config
    BY <2>1, <2>2, RequestPuts DEF Fifo!Next
  <2>3. ASSUME NEW w \in Workers, Take(w), UNCHANGED config
        PROVE  Fifo!Next
    BY <2>1, <2>3, TakeGets DEF Fifo!Next
  <2>4. CASE UNCHANGED <<size, connBuf, head, tail>>
    BY <2>4, ItemsStay DEF Fifo!vars
  <2>5. \/ Request /\ UNCHANGED config
        \/ \E w \in Workers : Take(w) /\ UNCHANGED config
        \/ UNCHANGED <<size, connBuf, head, tail>>
    BY DEF Next, Step, config, Stopped, vars, Accept, AskedToExit, Main, ServeAlone,
           StickAlone, RequestWait, ExitAnnounce, ExitJoined, Working, Leave,
           WaitForRequest, Serve, Stick, Die, SpuriousCons, SpuriousProd
  <2> QED
    BY <2>2, <2>3, <2>4, <2>5
<1> QED
  BY <1>1, <1>2, InvHolds, PTL DEF Spec, ImplementsFifo, Fifo!Spec

-----------------------------------------------------------------------------
(* No signal is lost.                                                      *)

Awake == {w \in Workers : worker[w] = "ready"}

(* While a worker waits, there are at least as many workers on their way to *)
(* the buffer as connections in it: each connection signalled one, and one  *)
(* that comes back finds the buffer empty before it waits.  Main waits for  *)
(* a place only while there is none, and nobody waits once main has         *)
(* announced the exit.                                                      *)
AwakeEnough ==
  /\ (\E w \in Workers : worker[w] = "consWait") => Queued <= Cardinality(Awake)
  /\ main = "prodWait" => threads # {} /\ Full
  /\ exiting => \A w \in Workers : worker[w] # "consWait"

(* While a connection waits for a worker, or main for a place, a worker is  *)
(* on its way to the buffer or serves a connection, unless every worker is  *)
(* stuck.                                                                   *)
SomebodyComes ==
  (~Empty \/ main = "prodWait") /\ ~NoPlace
    => AllStuck \/ \E w \in threads : worker[w] \in {"ready", "serving"}

(* The workers that are awake can be counted.                               *)
LEMMA AwakeFacts ==
  ASSUME IInv, NEW S \in SUBSET Workers
  PROVE  /\ IsFiniteSet(S) /\ Cardinality(S) \in Nat
         /\ \A w \in Workers \ S : Cardinality(S \cup {w}) = Cardinality(S) + 1
         /\ \A w \in S : Cardinality(S \ {w}) = Cardinality(S) - 1
<1>1. IsFiniteSet(S)
  BY WorkersAssumption, FS_Subset
<1> QED
  BY <1>1, FS_CardinalityType, FS_AddElement, FS_RemoveElement

(* Main puts one connection in and wakes one worker, if one waits.          *)
LEMMA RequestAwake ==
  ASSUME IInv, AwakeEnough, Request, UNCHANGED config
  PROVE  AwakeEnough'
<1>1. main' = "poll" /\ exiting' = exiting /\ ~exiting
  BY DEF Request, IInv, Places
<1>2. ASSUME NEW w \in Workers, worker[w] = "consWait",
             worker' = [worker EXCEPT ![w] = "ready"]
      PROVE  Queued' <= Cardinality(Awake')
  <2>1. Awake' = Awake \cup {w} /\ w \in Workers \ Awake /\ Awake \in SUBSET Workers
    BY <1>2 DEF Awake, IInv, TypeOK
  <2>2. Cardinality(Awake') = Cardinality(Awake) + 1 /\ Cardinality(Awake) \in Nat
    BY <2>1, AwakeFacts
  <2>3. Queued <= Cardinality(Awake) /\ Queued \in Nat
    BY <1>2, Countable DEF AwakeEnough
  <2>4. Queued' = Queued + 1
    BY RequestCounts
  <2> QED
    BY <2>2, <2>3, <2>4
<1>3. (\E w \in Workers : worker'[w] = "consWait") => Queued' <= Cardinality(Awake')
  BY <1>2 DEF Request, SignalCons
<1> QED
  BY <1>1, <1>3 DEF AwakeEnough

(* A worker that takes a connection out is one less, and so is what waits.  *)
LEMMA TakeAwake ==
  ASSUME IInv, AwakeEnough, NEW w \in Workers, Take(w), UNCHANGED config
  PROVE  AwakeEnough'
<1>1. /\ worker[w] = "ready" /\ worker' = [worker EXCEPT ![w] = "serving"]
      /\ exiting' = exiting /\ main' # "prodWait"
      /\ worker \in [Workers -> WorkerAt]
  BY DEF Take, SignalProd, IInv, TypeOK
<1>2. Awake' = Awake \ {w} /\ w \in Awake /\ Awake \in SUBSET Workers
  BY <1>1 DEF Awake
<1>3. Cardinality(Awake') = Cardinality(Awake) - 1 /\ Cardinality(Awake) \in Nat
  BY <1>2, AwakeFacts
<1>4. Queued' = Queued - 1 /\ Queued \in Nat
  BY TakeCounts, Countable
<1>5. \A v \in Workers : worker'[v] = "consWait" => worker[v] = "consWait"
  BY <1>1
<1> QED
  BY <1>1, <1>3, <1>4, <1>5 DEF AwakeEnough

(* Where the ring stays as it is and who was awake still is, nothing is     *)
(* lost.                                                                    *)
LEMMA QuietAwake ==
  ASSUME IInv, AwakeEnough, UNCHANGED <<threads, size, head, tail>>,
         Awake \subseteq Awake',
         \A w \in Workers : worker'[w] = "consWait" => worker[w] = "consWait",
         exiting' => exiting \/ \A w \in Workers : worker'[w] # "consWait",
         main' = "prodWait" => main = "prodWait" \/ (threads # {} /\ Full)
  PROVE  AwakeEnough'
<1>1. Queued' = Queued /\ (Full <=> Full') /\ Queued \in Nat
  BY Countable DEF Queued, Full
<1>2. Awake' \in SUBSET Workers /\ Awake \in SUBSET Workers
  BY DEF Awake
<1>3. /\ Cardinality(Awake) <= Cardinality(Awake')
      /\ Cardinality(Awake) \in Nat /\ Cardinality(Awake') \in Nat
  BY <1>2, AwakeFacts, FS_Subset
<1> QED
  BY <1>1, <1>3 DEF AwakeEnough

(* Every step keeps enough workers awake.                                   *)
LEMMA NextAwake == IInv /\ AwakeEnough /\ [Next]_vars => AwakeEnough'
<1> SUFFICES ASSUME IInv, AwakeEnough, [Next]_vars PROVE AwakeEnough'
  OBVIOUS
<1> USE DEF config
<1>1. worker \in [Workers -> WorkerAt]
  BY DEF IInv, TypeOK
<1>2. CASE Request /\ UNCHANGED config
  BY <1>2, RequestAwake
<1>3. ASSUME NEW w \in Workers, Take(w), UNCHANGED config
      PROVE  AwakeEnough'
  BY <1>3, TakeAwake
<1>4. CASE ExitAnnounce /\ UNCHANGED config
  BY <1>1, <1>4, QuietAwake DEF ExitAnnounce, WakeAll, Awake
<1>5. ASSUME NEW w \in Workers, Leave(w), UNCHANGED config
      PROVE  AwakeEnough'
  BY <1>1, <1>5 DEF Leave, MayLeave, AwakeEnough, Full
<1>6. ASSUME NEW w \in Workers, WaitForRequest(w), UNCHANGED config
      PROVE  AwakeEnough'
  <2>1. Queued' = 0 /\ (Full <=> Full')
    BY <1>6, RingFacts DEF WaitForRequest, Queued, Full, IInv
  <2>2. Awake' \in SUBSET Workers
    BY DEF Awake
  <2>3. Cardinality(Awake') \in Nat
    BY <2>2, AwakeFacts
  <2> QED
    BY <1>6, <2>1, <2>3 DEF WaitForRequest, AwakeEnough
<1>7. ASSUME NEW w \in Workers, Serve(w) \/ SpuriousCons(w), UNCHANGED config
      PROVE  AwakeEnough'
  <2>1. /\ UNCHANGED <<threads, size, head, tail, exiting, main>>
        /\ worker' = [worker EXCEPT ![w] = "ready"]
    BY <1>7 DEF Serve, SpuriousCons
  <2>2. Awake \subseteq Awake'
    BY <1>1, <2>1 DEF Awake
  <2>3. \A v \in Workers : worker'[v] = "consWait" => worker[v] = "consWait"
    BY <1>1, <2>1
  <2>4. exiting' => exiting
    BY <2>1, Zenon
  <2> QED
    BY <2>1, <2>2, <2>3, <2>4, QuietAwake
<1>8. CASE /\ UNCHANGED <<threads, size, head, tail, worker>>
           /\ exiting' => exiting
           /\ main' = "prodWait" => main = "prodWait" \/ (threads # {} /\ Full)
  BY <1>1, <1>8, QuietAwake DEF Awake
<1>9. CASE (\/ Accept \/ AskedToExit \/ ServeAlone \/ StickAlone
            \/ RequestWait \/ ExitJoined \/ SpuriousProd)
           /\ UNCHANGED config
  BY <1>8, <1>9 DEF Accept, AskedToExit, ServeAlone, StickAlone, RequestWait, ExitJoined,
                    SpuriousProd
<1>10. CASE UNCHANGED vars
  <2>1. UNCHANGED <<threads, size, head, tail, worker, exiting, main>>
    BY <1>10 DEF vars
  <2>2. exiting' => exiting
    BY <2>1, Zenon
  <2> QED
    BY <1>8, <2>1, <2>2
<1>11. ASSUME NEW w \in Workers, Stick(w), UNCHANGED config
       PROVE  AwakeEnough'
  <2>1. /\ UNCHANGED <<threads, size, head, tail, exiting, main>>
        /\ worker' = [worker EXCEPT ![w] = "stuck"] /\ worker[w] = "serving"
    BY <1>11 DEF Stick
  <2>2. Awake \subseteq Awake'
    BY <1>1, <2>1 DEF Awake
  <2>3. \A v \in Workers : worker'[v] = "consWait" => worker[v] = "consWait"
    BY <1>1, <2>1
  <2>4. exiting' => exiting
    BY <2>1, Zenon
  <2> QED
    BY <2>1, <2>2, <2>3, <2>4, QuietAwake
<1>12. CASE Die
  <2>1. UNCHANGED <<threads, size, head, tail, worker, exiting, main>>
    BY <1>12 DEF Die
  <2>2. exiting' => exiting
    BY <2>1, Zenon
  <2> QED
    BY <1>8, <2>1, <2>2
<1> QED
  BY <1>2, <1>3, <1>4, <1>5, <1>6, <1>7, <1>9, <1>10, <1>11, <1>12
     DEF Next, Step, Main, Working, Stopped

(* No signal is lost: a worker waits on prod_cons only while enough others  *)
(* are on their way to take what is in the buffer, main waits only while    *)
(* the buffer is full, and the broadcast of server_exit leaves nobody       *)
(* behind.                                                                  *)
THEOREM NoSignalIsLost == Spec => []AwakeEnough
<1>1. Init => AwakeEnough
  <2> SUFFICES ASSUME Init PROVE AwakeEnough
    OBVIOUS
  <2> QED
    BY DEF Init, AwakeEnough
<1> QED
  BY <1>1, InvHolds, NextAwake, PTL DEF Spec

(* Neither a connection in the buffer nor main is ever left with workers    *)
(* asleep or gone and nobody on the way, however the signals and the        *)
(* spurious wakeups fall and whoever is stuck: what liveness                *)
(* (AcceptedIsServed, ExitCompletes) needs of every state.                  *)
THEOREM SomebodyAlwaysComes == Spec => []SomebodyComes
<1>1. IInv /\ AwakeEnough => SomebodyComes
  <2> SUFFICES ASSUME IInv, AwakeEnough, ~Empty \/ main = "prodWait", ~NoPlace, ~AllStuck
               PROVE  \E w \in threads : worker[w] \in {"ready", "serving"}
    BY DEF SomebodyComes
  <2>1. size \in Nat \ {0} /\ Queued \in 0 .. size - 1 /\ (Empty <=> Queued = 0)
        /\ (Full <=> Queued = size - 1)
    BY RingFacts DEF IInv
  <2>2. /\ threads \subseteq Workers /\ worker \in [Workers -> WorkerAt]
        /\ \A w \in Workers : worker[w] # "none" <=> w \in threads
    BY DEF IInv, TypeOK, Places
  <2>3. ~Empty
    <3>1. CASE main = "prodWait"
      <4>1. ~Empty \/ size = 1
        BY <2>1, <3>1 DEF AwakeEnough
      <4>2. threads # {}
        BY <3>1 DEF AwakeEnough
      <4> QED
        BY <4>1, <4>2 DEF NoPlace
    <3> QED
      BY <3>1
  <2>4. PICK w \in threads : worker[w] # "stuck"
    BY <2>3 DEF IInv, Places, AllStuck
  <2>5. worker[w] \in {"ready", "serving", "consWait"}
    BY <2>2, <2>3, <2>4 DEF IInv, Places, WorkerAt
  <2>6. CASE worker[w] = "consWait"
    <3>1. Queued <= Cardinality(Awake)
      BY <2>2, <2>6 DEF AwakeEnough
    <3>2. Awake # {}
      BY <2>1, <2>3, <3>1, FS_EmptySet
    <3> QED
      BY <2>2, <3>2 DEF Awake
  <2> QED
    BY <2>5, <2>6
<1> QED
  BY <1>1, InvHolds, NoSignalIsLost, PTL

=============================================================================
