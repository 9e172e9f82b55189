------------------------------ MODULE ApiServer ------------------------------
(***************************************************************************)
(* The API socket: the clients, the connections in the kernel and          *)
(* api_handler, which serves one connection per call: accept, one read     *)
(* into ctx->buf, the handler of HostFwd, one write, shutdown, close.      *)
(* Every call in it blocks the whole process.                              *)
(*                                                                         *)
(* A request travels as a sequence of units, and a client may hand them to *)
(* the socket a few at a time.                                             *)
(***************************************************************************)
EXTENDS Integers, Sequences, FiniteSets

CONSTANTS
  Addr, AnyAddr, VGuest, PortMod, IntMax, Request, \* as in HostFwd
  Client,    \* programs that use the API socket
  Wants,     \* the requests each of them may make
  BUFLEN,    \* ctx->buflen, in units
  Size,      \* units in the text of each request
  SNDBUF     \* entries of a list that fit in the buffer of a socket

VARIABLES
  up, hostfwds, hostfwds_nextid, slirp, reply, wrapped, \* as in HostFwd
  pc,      \* where the event loop is: "loop", "read", "handle", "too large",
           \* "write", "down", "crashed"
  serving, \* the client behind the accepted fd, or None
  buf,     \* ctx->buf
  queue,   \* the backlog of the listening socket
  cl       \* cl[c]: client c's end of its connection

H == INSTANCE HostFwd

hvars == <<up, hostfwds, hostfwds_nextid, slirp, reply, wrapped>>
vars  == <<hvars, pc, serving, buf, queue, cl>>

None == "none"
Nothing == H!NoReply

ASSUME ApiAssumption ==
  /\ None \notin Client
  /\ BUFLEN \in Nat \ {0} /\ SNDBUF \in Nat
  /\ \A c \in Client : Wants[c] \subseteq Request
  /\ \A r \in Request : Size[r] \in 1 .. BUFLEN

\* As in HostFwd: the widths are of some machine, and numbers in a request fit an int.
ASSUME HandlerAssumption ==
  /\ PortMod \in Nat /\ PortMod > 1 /\ IntMax \in Nat /\ IntMax > 0
  /\ \A r \in Request :
       H!ToInt(r.host_port) \in H!CInt /\ H!ToInt(r.guest_port) \in H!CInt

\* A document that is none of the requests.
Garbled == [form |-> "not JSON", proto |-> "null", host_addr |-> "null",
            host_port |-> 0, guest_addr |-> "null", guest_port |-> 0, id |-> 0]

\* Units of text; a unit at place 0 is not text but the terminator, and
\* Junk is what malloc left in the buffer.
NUL      == <<Garbled, 0>>
Junk     == <<Garbled, 1>>
Unit     == {<<r, k>> : r \in Request, k \in 1 .. BUFLEN} \cup {NUL, Junk}
Units(r) == [k \in 1 .. Size[r] |-> <<r, k>>]

\* The C string in ctx->buf ends before the first NUL.
String(b) ==
  LET ends == {k \in 1 .. BUFLEN : b[k] = NUL}
      len  == IF ends = {} THEN BUFLEN
              ELSE (CHOOSE k \in ends : \A j \in ends : k <= j) - 1
  IN  [k \in 1 .. len |-> b[k]]

\* A string that is no complete request does not parse.
Parsed(b) == IF \E r \in Request : Units(r) = String(b)
             THEN CHOOSE r \in Request : Units(r) = String(b)
             ELSE Garbled

-----------------------------------------------------------------------------
(***************************************************************************)
(* Clients: the request they want, the units of it they have written,      *)
(* whether they have shut down writing, whether they have closed their     *)
(* end, and what they read from the connection.                            *)
(***************************************************************************)
Idle == [conn |-> "idle", want |-> Garbled, sent |-> 0, eof |-> FALSE,
         gone |-> FALSE, inbox |-> Nothing]

ClientEnd ==
  [conn : {"idle", "open", "closed"}, want : Request \cup {Garbled},
   sent : 0 .. BUFLEN, eof : BOOLEAN, gone : BOOLEAN, inbox : H!Reply]

Complete(c) == cl[c].want \in Request /\ cl[c].sent = Size[cl[c].want]

\* listen(fd, 0) lets one connection wait; connect(2) of others blocks.
Backlog == 1

Connect(c, r) ==
  /\ cl[c].conn = "idle"
  /\ up
  /\ Len(queue) < Backlog
  /\ queue' = Append(queue, c)
  /\ cl' = [cl EXCEPT ![c] = [Idle EXCEPT !.conn = "open", !.want = r]]
  /\ UNCHANGED <<hvars, pc, serving, buf>>

Send(c) ==
  /\ cl[c].conn = "open" /\ ~cl[c].eof
  /\ \E n \in cl[c].sent + 1 .. Size[cl[c].want] : cl' = [cl EXCEPT ![c].sent = n]
  /\ UNCHANGED <<hvars, pc, serving, buf, queue>>

\* shutdown(SHUT_WR) once the request is out, as the manual asks.
ShutWr(c) ==
  /\ cl[c].conn = "open" /\ ~cl[c].eof
  /\ Complete(c)
  /\ cl' = [cl EXCEPT ![c].eof = TRUE]
  /\ UNCHANGED <<hvars, pc, serving, buf, queue>>

\* The client dies or closes early.
Hangup(c) ==
  /\ cl[c].conn = "open" /\ ~cl[c].gone
  /\ cl' = [cl EXCEPT ![c].eof = TRUE, ![c].gone = TRUE]
  /\ UNCHANGED <<hvars, pc, serving, buf, queue>>

\* The client has read what there is and may start again.
Finish(c) ==
  /\ cl[c].conn = "closed"
  /\ cl' = [cl EXCEPT ![c] = Idle]
  /\ UNCHANGED <<hvars, pc, serving, buf, queue>>

\* The other end is closed, with answer a in the socket.
Closed(c, a) == IF cl[c].gone THEN Idle
                ELSE [cl[c] EXCEPT !.conn = "closed", !.inbox = a]

-----------------------------------------------------------------------------
(***************************************************************************)
(* api_handler                                                             *)
(***************************************************************************)

\* write(2), shutdown(2), close(2).  An answer to a client that has hung up
\* is lost: SIGPIPE is ignored and the error only logged.
Answer(a) ==
  /\ cl' = [cl EXCEPT ![serving] = Closed(serving, a)]
  /\ serving' = None
  /\ pc' = "loop"

Accept ==
  /\ pc = "loop"
  /\ queue # <<>>
  /\ serving' = Head(queue)
  /\ queue' = Tail(queue)
  /\ pc' = "read"
  /\ UNCHANGED <<hvars, buf, cl>>

\* A bug that could be here: a read that is tried again when it returns 0.
Readable_Retries(c) == cl[c].sent > 0

\* read(2) returns when there is something, or nothing will come.
Readable(c) == cl[c].sent > 0 \/ cl[c].eof

ReadLen(c) == IF cl[c].sent < BUFLEN THEN cl[c].sent ELSE BUFLEN

\* Bugs that could be here: the terminator is forgotten, or is also put behind
\* a full buffer.
Stored_Unterminated(c, len) ==
  [k \in 1 .. BUFLEN |-> IF k <= len THEN <<cl[c].want, k>> ELSE buf[k]]
Stored_Overrun(c, len) ==
  [k \in 1 .. BUFLEN \cup {len + 1} |->
     IF k <= len THEN <<cl[c].want, k>> ELSE IF k = len + 1 THEN NUL ELSE buf[k]]

\* ctx->buf with len units read into it and, if it is not full, terminated.
Stored(c, len) ==
  [k \in 1 .. BUFLEN |->
     IF k <= len THEN <<cl[c].want, k>> ELSE IF k = len + 1 THEN NUL ELSE buf[k]]

\* A bug that could be here: a full buffer is let through.
AfterRead_AcceptsFull(len) == "handle"

AfterRead(len) == IF len = BUFLEN THEN "too large" ELSE "handle"

Read ==
  /\ pc = "read"
  /\ Readable(serving)
  /\ buf' = Stored(serving, ReadLen(serving))
  /\ pc' = AfterRead(ReadLen(serving))
  /\ UNCHANGED <<hvars, serving, queue, cl>>

\* A bug that could be here: the early return forgets to close.
ReadFails_Leaks ==
  /\ pc = "read"
  /\ serving' = None
  /\ pc' = "loop"
  /\ UNCHANGED <<hvars, buf, queue, cl>>

\* read(2) < 0: the connection is closed without an answer.
ReadFails ==
  /\ pc = "read"
  /\ Answer(Nothing)
  /\ UNCHANGED <<hvars, buf, queue>>

TooLarge ==
  /\ pc = "too large"
  /\ Answer(H!Error("too large message"))
  /\ UNCHANGED <<hvars, buf, queue>>

\* A list that does not fit in the socket's buffer blocks the write(2).
Handle ==
  /\ pc = "handle"
  /\ H!Handle(Parsed(buf))
  /\ up'
  /\ IF Cardinality(reply'.entries) <= SNDBUF \/ cl[serving].gone
     THEN Answer(reply')
     ELSE pc' = "write" /\ UNCHANGED <<serving, cl>>
  /\ UNCHANGED <<buf, queue>>

\* EPIPE: the client hangs up on a write that is blocked.
WriteFails ==
  /\ pc = "write" /\ cl[serving].gone
  /\ Answer(reply)
  /\ UNCHANGED <<hvars, buf, queue>>

\* The client reads, and the write goes on to its end.
Drain(c) ==
  /\ pc = "write" /\ serving = c /\ ~cl[c].gone
  /\ Answer(reply)
  /\ UNCHANGED <<hvars, buf, queue>>

\* The process is gone and the kernel closes every connection.
Drop(how) ==
  /\ pc' = how
  /\ serving' = None
  /\ queue' = <<>>
  /\ buf' = [k \in 1 .. BUFLEN |-> Junk]
  /\ cl' = [c \in Client |-> IF cl[c].conn = "open" THEN Closed(c, Nothing)
                             ELSE cl[c]]

\* A handler that faults takes the process down.
HandlerFaults ==
  /\ pc = "handle"
  /\ H!Handle(Parsed(buf))
  /\ ~up'
  /\ Drop("crashed")

\* The event loop ends, or the process is killed.
Exit == H!Stop /\ Drop("down")

\* A new process: api_bindlisten and api_ctx_alloc; its buffer is unwritten.
Start ==
  /\ pc \in {"down", "crashed"}
  /\ H!Start
  /\ pc' = "loop"
  /\ UNCHANGED <<serving, buf, queue, cl>>

-----------------------------------------------------------------------------
Init ==
  /\ H!Init
  /\ pc = "down"
  /\ serving = None
  /\ buf = [k \in 1 .. BUFLEN |-> Junk]
  /\ queue = <<>>
  /\ cl = [c \in Client |-> Idle]

Server == Accept \/ Read \/ TooLarge \/ Handle \/ HandlerFaults \/ WriteFails

ClientStep(c) == \/ \E r \in Wants[c] : Connect(c, r)
                 \/ Send(c) \/ ShutWr(c) \/ Hangup(c) \/ Drain(c) \/ Finish(c)

Next == Server \/ ReadFails \/ Start \/ Exit \/ \E c \in Client : ClientStep(c)

Spec == Init /\ [][Next]_vars

\* The process is scheduled, and a client that has connected goes on to send its
\* request and read the answer or hangs up; nothing makes a blocked read(2) fail.
FairSpec == /\ Spec
            /\ WF_vars(Server)
            /\ \A c \in Client : WF_vars(Send(c) \/ ShutWr(c) \/ Drain(c) \/ Hangup(c))

-----------------------------------------------------------------------------
(***************************************************************************)
(* Properties                                                              *)
(***************************************************************************)

\* The variables have their types.
TypeOK ==
  /\ H!TypeOK
  /\ pc \in {"loop", "read", "handle", "too large", "write", "down", "crashed"}
  /\ serving \in Client \cup {None}
  /\ buf \in [1 .. BUFLEN -> Unit]
  /\ queue \in Seq(Client) /\ Len(queue) <= Backlog
  /\ cl \in [Client -> ClientEnd]

\* No path through api_handler leaks the accepted fd: a connection that is
\* still open waits in the backlog or is the one being served.
NoFdLeak ==
  /\ {c \in Client : cl[c].conn = "open"} =
       {queue[k] : k \in 1 .. Len(queue)} \cup ({serving} \ {None})
  /\ serving # None <=> pc \in {"read", "handle", "too large", "write"}

\* The list of forwards changes only as the client being served asked, in a
\* request it wrote in full: what an earlier, longer request left in ctx->buf
\* never completes a shorter one.
ExecutedAsSent ==
  [][up /\ up' /\ hostfwds' # hostfwds =>
       /\ serving # None
       /\ Complete(serving)
       /\ H!Handle(cl[serving].want)]_vars

\* A client that is told its request was carried out did send it in full, it
\* was shorter than the buffer, and the answer is of the kind it asked for.
AnswerFits ==
  \A c \in Client :
    cl[c].inbox.top \in {"return", "entries"} =>
      /\ Complete(c)
      /\ Size[cl[c].want] < BUFLEN
      /\ cl[c].want.form \in IF cl[c].inbox.top = "entries" THEN {"list_hostfwd"}
                             ELSE {"add_hostfwd", "remove_hostfwd"}

\* Every connection is answered or closed, if the clients go on to send or
\* hang up: an empty request, a full buffer, a dead client and an answer that does
\* not fit in the socket all end the call.
EveryConnectionEnds ==
  \A c \in Client : cl[c].conn = "open" ~> cl[c].conn # "open"

\* The manual's example of list_hostfwd answers {"return": {"entries": ...}}.
ListAnswersReturn ==
  \A c \in Client : cl[c].want.form = "list_hostfwd"
                    => cl[c].inbox.top # "entries"

\* The manual asks clients to end a request with SHUT_WR.  A client that wrote
\* a well-formed short request in full and then did so is not told that its
\* request cannot be parsed.
ShutWrEndsRequest ==
  \A c \in Client :
    /\ Complete(c) /\ cl[c].eof /\ ~cl[c].gone
    /\ cl[c].want.form # "not JSON" /\ Size[cl[c].want] < BUFLEN
    => cl[c].inbox.desc # "cannot parse JSON"

\* A request is answered with `return` or `error`; none ends the process.
NeverFaults == pc # "crashed"

=============================================================================
