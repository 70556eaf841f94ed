------------------------------ MODULE Exchange ------------------------------
(***************************************************************************)
(* One request over one connection: a client thread (client_send and       *)
(* client_print of src/webserver/client.c) and the worker that serves it   *)
(* (request_init, request_readfile, request_sendfile, request_error and    *)
(* request_destroy of src/webserver/request.c), both on top of the Rio     *)
(* functions of src/webserver/common.c.                                    *)
(*                                                                         *)
(* The socket takes and gives any part of what it is asked for, and may be *)
(* reset when one side closes it early.  A system call that is interrupted *)
(* (EINTR) is called again and changes nothing, so it is no step here.     *)
(*                                                                         *)
(* Bytes come in units: "get" or "other" for the text of a request line,   *)
(* "host" and "status" for lines that nobody looks into, "tags" for the    *)
(* lines with the length and the checksum, "x" and "e" for the text of a   *)
(* file and of an error page, "nl" for the end of a line.                  *)
(*                                                                         *)
(* A name with a suffix _M... is the definition below it with one mistake; *)
(* no specification uses it.                                               *)
(***************************************************************************)
EXTENDS Integers, Sequences, SequencesExt

CONSTANTS
  Room,     \* how much a socket holds on its way to one side
  BufSize,  \* RIO_BUFSIZE
  MaxLine,  \* MAXLINE and MAXBUF, the size of a line buffer
  Bodies    \* contents of files

ASSUME SizesAssumption == {Room, BufSize, MaxLine} \subseteq Nat \ {0}

(* client_send builds a request of less than MAXLINE = 8192 bytes, which a  *)
(* socket takes at once.  Without this the answer to a method that the      *)
(* server does not know, written before the request is read, may fill its   *)
(* way while the request fills the other one, and both sides wait.          *)
ASSUME RequestFits == Room >= 5

ASSUME BodiesAssumption == Bodies \subseteq Seq({"x", "nl"})

VARIABLES
  method,   \* what the client asks with; client.c only knows GET
  found,    \* whether the server can read the file that it asks for
  body,     \* the content of that file
  at,       \* where each side is
  wire,     \* units on their way to each side
  rioBuf,   \* rio->rio_buf from rio_bufptr on, rio_cnt units
  line,     \* the line buffer, as far as this call of rio_readlineb filled it
  out,      \* what rio_write has still to write
  open,     \* whether each side has its socket open
  reset,    \* whether the connection was reset
  tagged,   \* whether the client has found the length and the checksum
  received, \* the body that the client counts into length_received
  got,      \* all that rio_readlineb gave to each side (observed only)
  quit      \* whether the client left early (observed only)

job == <<method, found, body>>
rio == <<rioBuf, line, got>>
vars == <<method, found, body, at, wire, rioBuf, line, out, open, reset,
          tagged, received, got, quit>>

Side == {"client", "server"}
Peer(p) == CHOOSE q \in Side : q # p

Unit == {"get", "other", "host", "status", "tags", "x", "e", "nl"}
ClientAt == {"send", "header1", "header", "body", "ok", "aborted", "died", "wild", "quit"}
ServerAt == {"request", "headers1", "headers", "reply", "done", "died", "wild"}

EmptyLine == <<"nl">>

(* client_send; request_error; request_sendfile.                            *)
RequestText == <<method, "nl", "host", "nl", "nl">>
Header == <<"status", "nl", "tags", "nl", "nl">>
ErrorPage == <<"e", "nl">>

Served == method = "get" /\ found
Payload == IF Served THEN body ELSE ErrorPage

(* The checksum: the sum over the bytes.                                    *)
Weight == [x |-> 2, nl |-> 1, e |-> 5]
Csum(s) == FoldSeq(LAMBDA u, sum : sum + Weight[u], 0, s)

Init ==
  /\ method \in {"get", "other"}
  /\ found \in BOOLEAN
  /\ body \in Bodies
  /\ at = [client |-> "send", server |-> "request"]
  /\ wire = [p \in Side |-> <<>>]
  /\ rioBuf = [p \in Side |-> <<>>]
  /\ line = [p \in Side |-> <<>>]
  /\ out = [client |-> RequestText, server |-> <<>>]
  /\ open = [p \in Side |-> TRUE]
  /\ reset = FALSE
  /\ tagged = FALSE
  /\ received = <<>>
  /\ got = [p \in Side |-> <<>>]
  /\ quit = FALSE

-----------------------------------------------------------------------------
(* A process ends, or a side is done: its socket is closed.  The connection *)
(* is reset if something was still to be read.                              *)
Closes(p, where) ==
  /\ at' = [at EXCEPT ![p] = where]
  /\ open' = [open EXCEPT ![p] = FALSE]
  /\ reset' = (reset \/ wire[p] # <<>>)

(* rio_write: write takes some of it.  If the peer has closed its socket,   *)
(* what is written is lost and the connection is reset; the next write      *)
(* kills the process (SIGPIPE), or fails and unix_error ends it.            *)
Writing(p) == at[p] \in {"send", "reply"} /\ out[p] # <<>>

Unwritten(p, n) == SubSeq(out[p], n + 1, Len(out[p]))

Write(p) ==
  /\ Writing(p) /\ ~reset /\ open[Peer(p)]
  /\ \E n \in 1 .. Len(out[p]) :
       /\ Len(wire[Peer(p)]) + n <= Room
       /\ wire' = [wire EXCEPT ![Peer(p)] = @ \o SubSeq(out[p], 1, n)]
       /\ out' = [out EXCEPT ![p] = Unwritten(p, n)]
  /\ UNCHANGED <<job, at, rio, open, reset, tagged, received, quit>>

WriteLost(p) ==
  /\ Writing(p) /\ ~reset /\ ~open[Peer(p)]
  /\ \E n \in 1 .. Len(out[p]) : out' = [out EXCEPT ![p] = Unwritten(p, n)]
  /\ reset' = TRUE
  /\ UNCHANGED <<job, at, wire, rio, open, tagged, received, quit>>

WriteFails(p) ==
  /\ Writing(p) /\ reset
  /\ Closes(p, "died")
  /\ UNCHANGED <<job, wire, rio, out, tagged, received, quit>>

-----------------------------------------------------------------------------
(* rio_readlineb, with rio_readb: the line is filled up to its end, or to   *)
(* the size of the buffer, out of rio_buf, which is refilled when it is     *)
(* empty.                                                                   *)
Reading(p) == at[p] \in {"header1", "header", "body", "request", "headers1", "headers"}

LineDone(p) ==
  /\ line[p] # <<>>
  /\ Last(line[p]) = "nl" \/ Len(line[p]) = MaxLine

NeedsMore(p) == Reading(p) /\ ~LineDone(p)

ReadSome(p) ==
  /\ NeedsMore(p) /\ rioBuf[p] = <<>> /\ wire[p] # <<>>
  /\ \E n \in 1 .. Len(wire[p]) :
       /\ n <= BufSize
       /\ rioBuf' = [rioBuf EXCEPT ![p] = SubSeq(wire[p], 1, n)]
       /\ wire' = [wire EXCEPT ![p] = SubSeq(@, n + 1, Len(@))]
  /\ UNCHANGED <<job, at, line, got, out, open, reset, tagged, received, quit>>

(* How many units of the buffer belong to the line.                         *)
LineEnd_MNoLimit(p) ==
  LET ends == {i \in 1 .. Len(rioBuf[p]) : rioBuf[p][i] = "nl"}
  IN IF ends = {} THEN Len(rioBuf[p]) ELSE CHOOSE i \in ends : \A j \in ends : i <= j

LineEnd(p) ==
  LET ends == {i \in 1 .. Len(rioBuf[p]) :
                 rioBuf[p][i] = "nl" \/ Len(line[p]) + i = MaxLine}
  IN IF ends = {} THEN Len(rioBuf[p]) ELSE CHOOSE i \in ends : \A j \in ends : i <= j

Unread_MDropped(p) == <<>>
Unread(p) == SubSeq(rioBuf[p], LineEnd(p) + 1, Len(rioBuf[p]))

FillLine(p) ==
  /\ NeedsMore(p) /\ rioBuf[p] # <<>>
  /\ line' = [line EXCEPT ![p] = @ \o SubSeq(rioBuf[p], 1, LineEnd(p))]
  /\ rioBuf' = [rioBuf EXCEPT ![p] = Unread(p)]
  /\ UNCHANGED <<job, at, wire, got, out, open, reset, tagged, received, quit>>

(* The 0 after a line that fills the buffer goes one byte too far.  The     *)
(* byte may be one that nobody needs (GetsLine); if not, nothing is known   *)
(* of what the process does from here on.                                   *)
Overrun(p) ==
  /\ Reading(p) /\ Len(line[p]) = MaxLine
  /\ at' = [at EXCEPT ![p] = "wild"]
  /\ UNCHANGED <<job, wire, rio, out, open, reset, tagged, received, quit>>

(* What was on the way may still be there after a reset, or read fails and  *)
(* unix_error ends the process.                                             *)
ReadFails(p) ==
  /\ NeedsMore(p) /\ rioBuf[p] = <<>> /\ reset
  /\ Closes(p, "died")
  /\ UNCHANGED <<job, wire, rio, out, tagged, received, quit>>

Eof(p) == rioBuf[p] = <<>> /\ wire[p] = <<>> /\ ~open[Peer(p)] /\ ~reset

(* rio_readlineb returns a line, the rest of the input, or 0 at its end; in *)
(* the last case the caller's buffer keeps what it held.                    *)
GetsLine(p) ==
  /\ Reading(p) /\ line[p] # <<>> /\ (LineDone(p) \/ Eof(p))
  /\ got' = [got EXCEPT ![p] = @ \o line[p]]
  /\ line' = [line EXCEPT ![p] = <<>>]
  /\ UNCHANGED rioBuf

GetsNothing(p) ==
  /\ Reading(p) /\ line[p] = <<>> /\ Eof(p)
  /\ UNCHANGED rio

-----------------------------------------------------------------------------
(* The worker.                                                             *)
ServerGoes(where) ==
  /\ at' = [at EXCEPT !.server = where]
  /\ UNCHANGED <<job, wire, out, open, reset, tagged, received, quit>>

(* request_error, or request_sendfile after a file was found.               *)
Replies(payload) ==
  /\ at' = [at EXCEPT !.server = "reply"]
  /\ out' = [out EXCEPT !.server = Header \o payload]
  /\ UNCHANGED <<job, wire, open, reset, tagged, received, quit>>

Answers == Replies(IF found THEN body ELSE ErrorPage)

(* request_init reads the request line.  Without one, buf is what was on    *)
(* the stack before: perhaps the request that was served last.              *)
RequestLine ==
  /\ at.server = "request"
  /\ \/ /\ GetsLine("server")
        /\ IF Head(line.server) = "get" THEN ServerGoes("headers1")
                                        ELSE Replies(ErrorPage)
     \/ GetsNothing("server") /\ (ServerGoes("headers1") \/ Replies(ErrorPage))

(* request_read_headers: up to the empty line.  The buffer is another one,  *)
(* and a first call that reads nothing leaves it undefined too.  Later, at  *)
(* the end of the input, the loop goes round forever (Spins).               *)
EndOfHeaders(text) == text = EmptyLine

RequestHeader ==
  \/ /\ at.server \in {"headers1", "headers"}
     /\ GetsLine("server")
     /\ IF EndOfHeaders(line.server) THEN Answers ELSE ServerGoes("headers")
  \/ /\ at.server = "headers1"
     /\ GetsNothing("server")
     /\ Answers \/ ServerGoes("headers")

Spins == at.server = "headers" /\ line.server = <<>> /\ Eof("server")

(* request_destroy.                                                         *)
ServerCloses_MLeavesOpen ==
  /\ at.server = "reply" /\ out.server = <<>>
  /\ at' = [at EXCEPT !.server = "done"]
  /\ UNCHANGED <<job, wire, rio, out, open, reset, tagged, received, quit>>

ServerCloses ==
  /\ at.server = "reply" /\ out.server = <<>>
  /\ Closes("server", "done")
  /\ UNCHANGED <<job, wire, rio, out, tagged, received, quit>>

-----------------------------------------------------------------------------
(* The client.                                                             *)
ClientSent ==
  /\ at.client = "send" /\ out.client = <<>>
  /\ at' = [at EXCEPT !.client = "header1"]
  /\ UNCHANGED <<job, wire, rio, out, open, reset, tagged, received, quit>>

(* The header of the answer; its first line is not searched for tags.       *)
ClientHeader ==
  /\ at.client \in {"header1", "header"}
  /\ \/ /\ GetsLine("client")
        /\ at' = [at EXCEPT !.client =
                    IF EndOfHeaders(line.client) THEN "body" ELSE "header"]
        /\ tagged' = (tagged \/ (at.client = "header" /\ Head(line.client) = "tags"))
     \/ /\ GetsNothing("client")
        /\ at' = [at EXCEPT !.client = "body"]
        /\ UNCHANGED tagged
  /\ UNCHANGED <<job, wire, out, open, reset, received, quit>>

Counted_MLastLine(text) == text
Counted(text) == received \o text

ClientBody ==
  /\ at.client = "body"
  /\ GetsLine("client")
  /\ received' = Counted(line.client)
  /\ UNCHANGED <<job, at, wire, out, open, reset, tagged, quit>>

(* Lines 66-70: the file's length and checksum in the index of the file set *)
(* are those of the answer, and those of what came.                         *)
Asserted ==
  LET length == IF tagged THEN Len(Payload) ELSE 0
      csum == IF tagged THEN Csum(Payload) ELSE 0
  IN /\ Csum(body) = csum /\ Len(body) = length
     /\ length = Len(received) /\ csum = Csum(received)

ClientEnds_MOneLine ==
  /\ at.client = "body"
  /\ GetsLine("client")
  /\ Closes("client", "ok")
  /\ UNCHANGED <<job, wire, out, tagged, received, quit>>

ClientEnds ==
  /\ at.client = "body"
  /\ GetsNothing("client")
  /\ Closes("client", IF Asserted THEN "ok" ELSE "aborted")
  /\ UNCHANGED <<job, wire, out, tagged, received, quit>>

(* Somebody interrupts the client.                                          *)
Quit ==
  /\ at.client \in {"send", "header1", "header", "body"}
  /\ Closes("client", "quit")
  /\ quit' = TRUE
  /\ UNCHANGED <<job, wire, rio, out, tagged, received>>

-----------------------------------------------------------------------------
Io(p) == Write(p) \/ WriteLost(p) \/ WriteFails(p) \/ ReadSome(p) \/ FillLine(p) \/ Overrun(p)
         \/ ReadFails(p)
Server == Io("server") \/ RequestLine \/ RequestHeader \/ ServerCloses
Client == Io("client") \/ ClientSent \/ ClientHeader \/ ClientBody \/ ClientEnds

Next == Server \/ Client \/ Quit

(* Both sides run when they can.  Nobody has to interrupt the client.       *)
Spec == Init /\ [][Next]_vars /\ WF_vars(Server) /\ WF_vars(Client)

-----------------------------------------------------------------------------
(* Properties.                                                             *)

(* Types, and the sizes of the three kinds of buffer.                       *)
TypeOK ==
  /\ method \in {"get", "other"} /\ found \in BOOLEAN /\ body \in Bodies
  /\ at.client \in ClientAt /\ at.server \in ServerAt
  /\ \A p \in Side :
       /\ {wire[p], rioBuf[p], line[p], out[p], got[p]} \subseteq Seq(Unit)
       /\ Len(wire[p]) <= Room
       /\ Len(rioBuf[p]) <= BufSize
       /\ Len(line[p]) <= MaxLine
       /\ open[p] \in BOOLEAN
  /\ {reset, tagged, quit} \subseteq BOOLEAN
  /\ received \in Seq(Unit)

(* Whatever the sizes of the pieces in which reads, writes, refills and     *)
(* lines come, nothing is lost, doubled or moved: what a side has got, has  *)
(* in its buffers, and is still to come is what the other one sends.        *)
OnTheWay(p) == got[p] \o line[p] \o rioBuf[p] \o wire[p] \o out[Peer(p)]
StreamIntact ==
  ~reset /\ ~quit =>
    /\ OnTheWay("server") = RequestText
    /\ at.server \in {"reply", "done"} => OnTheWay("client") = Header \o Payload

(* A worker that loops in request_read_headers, or ends the whole server    *)
(* because a write fails (Rio_write calls unix_error, and nothing ignores   *)
(* SIGPIPE), has met a client that left early.                              *)
OnlyQuittersHurt == (Spins \/ at.server = "died") => quit

(* The assertions of client_print hold whenever there was a file, whatever  *)
(* is in it: lines longer than the buffer, no line end, an empty line in    *)
(* front that looks like the end of the header.                             *)
ClientAssertions == Served => at.client \notin {"aborted", "died"}

(* The exchange comes to its end: neither side waits for the other forever, *)
(* who asks for a file gets it, and a client that leaves does not hang the  *)
(* worker in a read or a write, only in the loop of request_read_headers.   *)
Completes ==
  <>(\/ at.client = "wild"
     \/ quit /\ (~open.server \/ Spins)
     \/ at.server = "done" /\ (IF Served THEN at.client = "ok" ELSE ~open.client))

=============================================================================
