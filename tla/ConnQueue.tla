------------------------------ MODULE ConnQueue ------------------------------
(***************************************************************************)
(* The main thread and the worker threads of the web server, and the ring  *)
(* buffer of connections between them: server_init, server_request,        *)
(* do_server_thread and server_exit of src/webserver/server_thread.c,      *)
(* driven by the accept loop of src/webserver/server.c.                    *)
(*                                                                         *)
(* Everything between pthread_mutex_lock and the unlock or cond_wait that  *)
(* follows it is one step.  do_server_request (FileCache, Exchange) is the *)
(* time that a worker spends in "serving".  Nothing is assumed of it: the  *)
(* call returns, or it never returns, or it ends the process.              *)
(*                                                                         *)
(* A name with a suffix _M... is the definition below it with one mistake; *)
(* no specification uses it.                                               *)
(***************************************************************************)
EXTENDS Integers, Sequences, FiniteSets

CONSTANTS
  Workers,      \* threads that server_init may create
  MaxRequests,  \* the largest argument max_requests of the server
  Conns         \* connections are numbered from 1 in the order of accept; at
                \* most this many arrive

ASSUME WorkersAssumption == IsFiniteSet(Workers)
ASSUME MaxRequestsAssumption == MaxRequests \in Nat
ASSUME ConnsAssumption == Conns \in Nat

Free == -1                \* an unused element of conn_buf

VARIABLES
  threads,    \* sv->threads, the workers that were created (nr_threads)
  size,       \* sv->max_requests, one more than the argument
  connBuf,    \* sv->conn_buf
  head,       \* sv->request_head
  tail,       \* sv->request_tail
  exiting,    \* sv->exiting
  main,       \* where the main thread is
  accepted,   \* the number of connections that main has accepted
  worker,     \* where each worker is
  connfd,     \* the connection that a worker serves
  served,     \* connections whose do_server_request returned (observed only)
  died        \* the process was ended while it served a connection

config == <<threads, size, died>>
vars == <<threads, size, connBuf, head, tail, exiting, main, accepted, worker, connfd,
          served, died>>

Conn == 1 .. Conns
Slot == 0 .. size - 1

(* "stuck" is in a do_server_request that never returns: the client sends   *)
(* nothing more and stays, takes nothing more and stays, or has left and    *)
(* the loop of request.c:64 reads the last line for ever.                   *)
MainAt == {"poll", "request", "prodWait", "stuck", "exit", "join", "finished"}
WorkerAt == {"none", "ready", "consWait", "serving", "stuck", "done"}

-----------------------------------------------------------------------------
(* A waiter is taken off a condition variable, if there is one; pthreads    *)
(* does not say which.  A woken thread locks the mutex and tests again.     *)
SignalCons_MNone == worker' = worker
SignalCons ==
  IF \E w \in Workers : worker[w] = "consWait"
  THEN \E w \in Workers :
         /\ worker[w] = "consWait"
         /\ worker' = [worker EXCEPT ![w] = "ready"]
  ELSE UNCHANGED worker

SignalProd == IF main = "prodWait" THEN "request" ELSE main

Empty == head = tail

Full_MLast == FALSE
Full == (head - tail + size) % size = size - 1

Following_MLinear(i) == i + 1
Following_MShort(i) == IF size = 1 THEN 0 ELSE (i + 1) % (size - 1)
Following(i) == (i + 1) % size

-----------------------------------------------------------------------------
(* server_init.  The server may run without workers, or without a place for *)
(* a request to wait in: any arguments that are not negative are accepted   *)
(* (server.c:74).                                                           *)
Init ==
  /\ threads \in SUBSET Workers
  /\ size \in 1 .. MaxRequests + 1
  /\ connBuf = [i \in Slot |-> Free]
  /\ head = 0 /\ tail = 0
  /\ exiting = FALSE
  /\ main = "poll"
  /\ accepted = 0
  /\ worker = [w \in Workers |-> IF w \in threads THEN "ready" ELSE "none"]
  /\ connfd = [w \in Workers |-> Free]
  /\ served = {}
  /\ died = FALSE

(* The accept loop: a connection arrives, or someone writes to the fifo.    *)
Accept ==
  /\ main = "poll" /\ accepted < Conns
  /\ accepted' = accepted + 1
  /\ main' = "request"
  /\ UNCHANGED <<connBuf, head, tail, exiting, worker, connfd, served>>

AskedToExit ==
  /\ main = "poll"
  /\ main' = "exit"
  /\ UNCHANGED <<connBuf, head, tail, exiting, accepted, worker, connfd, served>>

(* server_request.                                                          *)
ServeAlone ==
  /\ main = "request" /\ threads = {}
  /\ served' = served \cup {accepted}
  /\ main' = "poll"
  /\ UNCHANGED <<connBuf, head, tail, exiting, accepted, worker, connfd>>

StickAlone ==
  /\ main = "request" /\ threads = {}
  /\ main' = "stuck"
  /\ UNCHANGED <<connBuf, head, tail, exiting, accepted, worker, connfd, served>>

RequestWait ==
  /\ main = "request" /\ threads # {} /\ Full
  /\ main' = "prodWait"
  /\ UNCHANGED <<connBuf, head, tail, exiting, accepted, worker, connfd, served>>

Request ==
  /\ main = "request" /\ threads # {} /\ ~Full
  /\ connBuf' = [connBuf EXCEPT ![head] = accepted]
  /\ head' = Following(head)
  /\ SignalCons
  /\ main' = "poll"
  /\ UNCHANGED <<tail, exiting, accepted, connfd, served>>

(* server_exit.                                                             *)
WakeAll_MFirst ==
  \E w \in Workers : worker' = [worker EXCEPT ![w] = IF @ = "consWait" THEN "ready" ELSE @]
WakeAll ==
  worker' = [w \in Workers |-> IF worker[w] = "consWait" THEN "ready" ELSE worker[w]]

ExitAnnounce ==
  /\ main = "exit"
  /\ exiting' = TRUE
  /\ WakeAll
  /\ main' = "join"
  /\ UNCHANGED <<connBuf, head, tail, accepted, connfd, served>>

ExitJoined ==
  /\ main = "join"
  /\ \A w \in threads : worker[w] = "done"
  /\ main' = "finished"
  /\ UNCHANGED <<connBuf, head, tail, exiting, accepted, worker, connfd, served>>

(* do_server_thread.                                                        *)
MayLeave_MFull == exiting
MayLeave == Empty /\ exiting

Leave(w) ==
  /\ worker[w] = "ready" /\ MayLeave
  /\ worker' = [worker EXCEPT ![w] = "done"]
  /\ UNCHANGED <<connBuf, head, tail, exiting, main, accepted, connfd, served>>

WaitForRequest(w) ==
  /\ worker[w] = "ready" /\ Empty /\ ~exiting
  /\ worker' = [worker EXCEPT ![w] = "consWait"]
  /\ UNCHANGED <<connBuf, head, tail, exiting, main, accepted, connfd, served>>

Take(w) ==
  /\ worker[w] = "ready" /\ ~Empty
  /\ connfd' = [connfd EXCEPT ![w] = connBuf[tail]]
  /\ connBuf' = [connBuf EXCEPT ![tail] = Free]
  /\ tail' = Following(tail)
  /\ main' = SignalProd
  /\ worker' = [worker EXCEPT ![w] = "serving"]
  /\ UNCHANGED <<head, exiting, accepted, served>>

Serve(w) ==
  /\ worker[w] = "serving"
  /\ served' = served \cup {connfd[w]}
  /\ connfd' = [connfd EXCEPT ![w] = Free]
  /\ worker' = [worker EXCEPT ![w] = "ready"]
  /\ UNCHANGED <<connBuf, head, tail, exiting, main, accepted>>

Stick(w) ==
  /\ worker[w] = "serving"
  /\ worker' = [worker EXCEPT ![w] = "stuck"]
  /\ UNCHANGED <<connBuf, head, tail, exiting, main, accepted, connfd, served>>

(* The process ends inside do_server_request: by SIGPIPE or unix_error when *)
(* the client has left, or where the cache follows a wild pointer.          *)
Busy == {w \in Workers : worker[w] \in {"serving", "stuck"}}

Die ==
  /\ Busy # {} \/ main = "stuck" \/ (main = "request" /\ threads = {})
  /\ died' = TRUE
  /\ UNCHANGED <<threads, size, connBuf, head, tail, exiting, main, accepted, worker,
                 connfd, served>>

(* pthread_cond_wait may return for no reason.                              *)
SpuriousCons(w) ==
  /\ worker[w] = "consWait"
  /\ worker' = [worker EXCEPT ![w] = "ready"]
  /\ UNCHANGED <<connBuf, head, tail, exiting, main, accepted, connfd, served>>

SpuriousProd ==
  /\ main = "prodWait"
  /\ main' = "request"
  /\ UNCHANGED <<connBuf, head, tail, exiting, accepted, worker, connfd, served>>

(* Nothing is left to do, or the only thread that goes on does so for ever. *)
Stopped ==
  /\ \/ died \/ main \in {"finished", "stuck"}
     \/ main = "join" /\ \E w \in threads : worker[w] = "stuck"
  /\ UNCHANGED vars

Working(w) == Leave(w) \/ WaitForRequest(w) \/ Take(w) \/ Serve(w) \/ Stick(w)
Main == ServeAlone \/ StickAlone \/ RequestWait \/ Request \/ ExitAnnounce \/ ExitJoined

Step ==
  \/ Accept \/ AskedToExit \/ Main
  \/ \E w \in Workers : Working(w) \/ SpuriousCons(w)
  \/ SpuriousProd

Next ==
  \/ ~died /\ Step /\ UNCHANGED config
  \/ ~died /\ Die
  \/ Stopped

(* Threads that are not blocked run, as long as the process does.  Nobody   *)
(* has to connect, to ask the server to exit, or to send or take a byte:    *)
(* serving comes to an end or to "stuck", which is no assumption.           *)
Spec ==
  /\ Init /\ [][Next]_vars
  /\ WF_vars(~died /\ Main /\ UNCHANGED config)
  /\ \A w \in Workers : WF_vars(~died /\ Working(w) /\ UNCHANGED config)

-----------------------------------------------------------------------------
(* Properties.                                                             *)

TypeOK ==
  /\ threads \subseteq Workers
  /\ size \in 1 .. MaxRequests + 1
  /\ connBuf \in [Slot -> Conn \cup {Free}]
  /\ head \in Slot /\ tail \in Slot
  /\ exiting \in BOOLEAN
  /\ main \in MainAt
  /\ accepted \in 0 .. Conns
  /\ worker \in [Workers -> WorkerAt]
  /\ connfd \in [Workers -> Conn \cup {Free}]
  /\ served \subseteq Conn
  /\ died \in BOOLEAN

(* The content of the ring buffer, oldest first.                            *)
Queued == (head - tail + size) % size
Items == [i \in 1 .. Queued |-> connBuf[(tail + i - 1) % size]]

(* Exactly the slots from tail to head are in use; the assertion of line    *)
(* 462 says so of the slot at head.                                         *)
RingExact ==
  \A i \in Slot : connBuf[i] = Free <=> (i - tail + size) % size >= Queued

(* The ring buffer is a first-in first-out queue of max_requests places.    *)
Fifo == INSTANCE BoundedFifo WITH
          Item <- Conn, capacity <- size - 1, items <- Items
ImplementsFifo == Fifo!Spec

(* Every accepted connection is in one place: with main, in the buffer,     *)
(* with one worker, or served.                                              *)
InHand == IF main \in {"request", "prodWait", "stuck"} THEN {accepted} ELSE {}
InBuffer == {connBuf[i] : i \in Slot} \ {Free}
InService == {connfd[w] : w \in Workers} \ {Free}
Conserved ==
  /\ InHand \cup InBuffer \cup InService \cup served = 1 .. accepted
  /\ Cardinality(InHand) + Queued + Cardinality(Busy) + Cardinality(served) = accepted

(* server_exit returns only when everything accepted was served: workers    *)
(* leave an empty buffer behind.                                            *)
DrainedAtExit == main = "finished" => served = 1 .. accepted

(* With workers and no place for a request to wait in, the buffer of one    *)
(* slot is full from the start.                                             *)
NoPlace == threads # {} /\ size = 1

(* Nobody is left who could serve a connection.                             *)
AllStuck == threads # {} /\ \A w \in threads : worker[w] = "stuck"
NobodyLeft == died \/ main = "stuck" \/ AllStuck

(* Every accepted connection is served, whatever the signals hit, whoever   *)
(* else is stuck, and as long as one thread that serves is not: a signal is *)
(* never lost on a thread that goes to wait.  What keeps a client waiting   *)
(* for ever is its own call that does not return, a server with no place in *)
(* its buffer, or a server of which every thread is stuck or that died.     *)
AcceptedIsServed ==
  \A c \in Conn :
    accepted = c ~>
      \/ c \in served
      \/ \E w \in threads : worker[w] = "stuck" /\ connfd[w] = c
      \/ NoPlace \/ NobodyLeft

(* server_exit comes to its end, unless a worker is stuck or the process    *)
(* dies: the broadcast reaches every worker, and a stuck one keeps no other *)
(* from leaving.                                                            *)
ExitCompletes ==
  main = "exit" ~>
    \/ died \/ main = "finished"
    \/ /\ \E w \in threads : worker[w] = "stuck"
       /\ \A w \in threads : worker[w] \in {"done", "stuck"}

=============================================================================
