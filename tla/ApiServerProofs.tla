--------------------------- MODULE ApiServerProofs ---------------------------
(***************************************************************************)
(* Proofs about ApiServer, for any clients, requests, sizes and lengths of *)
(* the buffers.  Of a reply, all but the types need only its kind.         *)
(***************************************************************************)
EXTENDS ApiServer, TLAPS

Serving == {"read", "handle", "too large", "write"}

\* The connections have the fields of a client's end, whatever the answer is.
Shape ==
  /\ pc \in Serving \cup {"loop", "down", "crashed"}
  /\ cl = [c \in Client |-> cl[c]]
  /\ \A c \in Client :
       /\ cl[c] = [conn |-> cl[c].conn, want |-> cl[c].want, sent |-> cl[c].sent,
                   eof |-> cl[c].eof, gone |-> cl[c].gone, inbox |-> cl[c].inbox]
       /\ cl[c].conn \in {"idle", "open", "closed"}
       /\ cl[c].conn # "closed" => cl[c].inbox = Nothing
       /\ cl[c].sent \in Nat
       /\ cl[c].conn = "open" => cl[c].want \in Request /\ cl[c].sent <= Size[cl[c].want]

\* The one connection that waits is not the one that is served.
Queued ==
  /\ queue \in Seq(Client) /\ Len(queue) <= 1
  /\ serving \in Client \cup {None}
  /\ Len(queue) = 1 => queue[1] # serving

\* What ctx->buf holds when it is parsed: text of the client being served, of
\* which it has sent no less, and the terminator.
Held ==
  pc = "handle" =>
    \E n \in Nat : /\ n < BUFLEN /\ n <= cl[serving].sent
                   /\ \A k \in 1 .. n : buf[k] = <<cl[serving].want, k>>
                   /\ buf[n + 1] = NUL

\* AnswerFits for client c and answer a.
Fits(c, a) ==
  a.top \in {"return", "entries"} =>
    /\ Complete(c)
    /\ Size[cl[c].want] < BUFLEN
    /\ cl[c].want.form \in IF a.top = "entries" THEN {"list_hostfwd"}
                           ELSE {"add_hostfwd", "remove_hostfwd"}

\* The answer that is being written, and those that were.
Told == /\ pc = "write" => Fits(serving, reply)
        /\ AnswerFits

IInv == Shape /\ Queued /\ NoFdLeak /\ Held /\ Told

-----------------------------------------------------------------------------
\* Only a list is answered with entries, only an addition or a removal with
\* return, and only these two change the list.
LEMMA HandleKinds ==
  ASSUME NEW r, H!Handle(r), up'
  PROVE  /\ reply'.top = "entries" => r.form = "list_hostfwd"
         /\ reply'.top = "return" => r.form \in {"add_hostfwd", "remove_hostfwd"}
         /\ hostfwds' # hostfwds => r.form \in {"add_hostfwd", "remove_hostfwd"}
<1>1. CASE H!BadRequest(r)
  BY <1>1 DEF H!BadRequest, H!Error, H!NoReply, H!Table
<1>2. CASE H!AddWithoutProto(r)
  BY <1>2 DEF H!AddWithoutProto, H!Gone
<1>3. CASE H!AddRejected(r) \/ H!AddFails(r)
  BY <1>3 DEF H!AddRejected, H!AddFails, H!Error, H!NoReply, H!Table
<1>4. CASE H!AddSucceeds(r)
  BY <1>4 DEF H!AddSucceeds, H!ReturnId, H!NoReply
<1>5. CASE H!List(r)
  BY <1>5 DEF H!List, H!Entries, H!NoReply, H!Table
<1>6. CASE H!RemoveUnknown(r) \/ H!RemoveFails(r)
  BY <1>6 DEF H!RemoveUnknown, H!RemoveFails, H!Error, H!NoReply, H!Table
<1>7. CASE H!RemoveSucceeds(r)
  BY <1>7 DEF H!RemoveSucceeds, H!ReturnOk, H!NoReply
<1>. QED
  BY <1>1, <1>2, <1>3, <1>4, <1>5, <1>6, <1>7 DEF H!Handle

\* What is parsed is the whole request of the client being served or no
\* request: an older text in ctx->buf adds nothing to it.
LEMMA ParsedIsWanted ==
  ASSUME IInv, pc = "handle", Parsed(buf) # Garbled
  PROVE  /\ serving \in Client
         /\ Parsed(buf) = cl[serving].want
         /\ Complete(serving)
         /\ Size[cl[serving].want] < BUFLEN
<1> DEFINE want == cl[serving].want
           sent == cl[serving].sent
           r    == Parsed(buf)
<1>1. serving \in Client /\ cl[serving].conn = "open"
  BY DEF IInv, NoFdLeak, Queued, Serving
<1>2. want \in Request /\ sent \in Nat /\ sent <= Size[want]
  BY <1>1 DEF IInv, Shape
<1>3. PICK n \in Nat : /\ n < BUFLEN /\ n <= sent
                       /\ \A k \in 1 .. n : buf[k] = <<want, k>>
                       /\ buf[n + 1] = NUL
  BY DEF IInv, Held
<1>4. BUFLEN \in Nat /\ \A q \in Request : Size[q] \in 1 .. BUFLEN
  BY ApiAssumption
<1> DEFINE ends == {k \in 1 .. BUFLEN : buf[k] = NUL}
           m    == CHOOSE k \in ends : \A j \in ends : k <= j
<1>5. \A k \in 1 .. n : buf[k] # NUL
  BY <1>3 DEF NUL
<1>6. n + 1 \in ends /\ \A j \in ends : n + 1 <= j
  BY <1>3, <1>4, <1>5
<1>7. m \in ends /\ \A j \in ends : m <= j
  BY <1>6
<1>8. m = n + 1 /\ ends # {}
  BY <1>3, <1>4, <1>6, <1>7
<1>9. String(buf) = [k \in 1 .. n |-> buf[k]]
  <2> HIDE DEF ends, m
  <2>1. m - 1 = n
    BY <1>3, <1>8
  <2>. QED
    BY <1>8, <2>1 DEF String, ends, m
<1> HIDE DEF ends, m
<1>10. r \in Request /\ Units(r) = String(buf)
  BY DEF Parsed
<1> HIDE DEF r
<1>11. Size[r] \in 1 .. BUFLEN /\ 1 .. Size[r] = 1 .. n
  BY <1>4, <1>9, <1>10 DEF Units
<1>12. Size[r] = n /\ n >= 1
  BY <1>3, <1>11
<1>13. <<r, 1>> = <<want, 1>>
  <2>1. Units(r)[1] = <<r, 1>>
    BY <1>11, <1>12 DEF Units
  <2>2. String(buf)[1] = <<want, 1>>
    BY <1>3, <1>9, <1>12
  <2>. QED
    BY <1>10, <2>1, <2>2
<1>14. r = want
  BY <1>13
<1>15. sent = Size[want] /\ Size[want] < BUFLEN
  BY <1>2, <1>3, <1>12, <1>14
<1>. QED
  BY <1>1, <1>2, <1>14, <1>15 DEF Complete, r

-----------------------------------------------------------------------------
\* What closing does to the fields of a client's end.
LEMMA ClosedFacts ==
  ASSUME Shape, NEW c \in Client, NEW a, cl[c].conn = "open"
  PROVE  LET e == Closed(c, a) IN
           /\ e = [conn |-> e.conn, want |-> e.want, sent |-> e.sent,
                   eof |-> e.eof, gone |-> e.gone, inbox |-> e.inbox]
           /\ e.sent \in Nat
           /\ \/ e.conn = "idle" /\ e.inbox = Nothing
              \/ e.conn = "closed" /\ e.inbox = a /\ e.want = cl[c].want /\ e.sent = cl[c].sent
<1>1. CASE cl[c].gone
  <2>1. Closed(c, a) = [conn |-> "idle", want |-> Garbled, sent |-> 0, eof |-> FALSE,
                        gone |-> FALSE, inbox |-> Nothing]
    BY <1>1 DEF Closed, Idle
  <2>. QED
    BY <2>1
<1>2. CASE ~cl[c].gone
  <2>1. PICK n, w, t, f, g, i :
          cl[c] = [conn |-> n, want |-> w, sent |-> t, eof |-> f, gone |-> g, inbox |-> i]
    BY DEF Shape
  <2>2. Closed(c, a) = [conn |-> "closed", want |-> w, sent |-> t,
                        eof |-> f, gone |-> g, inbox |-> a]
    <3>1. Closed(c, a) = [cl[c] EXCEPT !.conn = "closed", !.inbox = a]
      BY <1>2 DEF Closed
    <3>2. PICK e : e = [cl[c] EXCEPT !.conn = "closed"]
      OBVIOUS
    <3>3. Closed(c, a) = [e EXCEPT !.inbox = a]
      BY <3>1, <3>2, Zenon
    <3>4. e = [conn |-> "closed", want |-> w, sent |-> t, eof |-> f, gone |-> g, inbox |-> i]
      BY <2>1, <3>2
    <3>. QED
      BY <3>3, <3>4
  <2>3. cl[c].want = w /\ cl[c].sent = t /\ t \in Nat
    BY <2>1 DEF Shape
  <2>. QED
    BY <2>2, <2>3
<1>. QED
  BY <1>1, <1>2

\* What the clients do to the fields of their ends.
LEMMA ClientFacts ==
  ASSUME Shape, NEW c \in Client,
         \/ \E r \in Wants[c] : Connect(c, r)
         \/ Send(c) \/ ShutWr(c) \/ Hangup(c) \/ Finish(c)
  PROVE  /\ cl' = [cl EXCEPT ![c] = cl'[c]]
         /\ \A d \in Client \ {c} : cl'[d] = cl[d]
         /\ LET e == cl'[c] IN
              /\ e = [conn |-> e.conn, want |-> e.want, sent |-> e.sent,
                      eof |-> e.eof, gone |-> e.gone, inbox |-> e.inbox]
              /\ e.sent \in Nat
              /\ \/ e.conn = "open" /\ cl[c].conn = "open" /\ e.inbox = Nothing
                    /\ e.want = cl[c].want /\ cl[c].sent <= e.sent /\ e.sent <= Size[e.want]
                    /\ queue' = queue
                 \/ e.conn = "open" /\ cl[c].conn = "idle" /\ e.inbox = Nothing
                    /\ e.want \in Request /\ e.sent <= Size[e.want]
                    /\ queue' = Append(queue, c) /\ Len(queue) < 1
                 \/ e.conn = "idle" /\ cl[c].conn = "closed" /\ e.inbox = Nothing /\ queue' = queue
<1>0. \A q \in Request : Size[q] \in Nat
  BY ApiAssumption
<1>1. CASE \E r \in Wants[c] : Connect(c, r)
  <2>1. PICK r \in Wants[c] : Connect(c, r)
    BY <1>1
  <2>2. r \in Request /\ Size[r] \in Nat
    BY <1>0, ApiAssumption
  <2>3. /\ cl' = [cl EXCEPT ![c] = cl'[c]] /\ cl[c].conn = "idle"
        /\ cl'[c] = [conn |-> "open", want |-> r, sent |-> 0, eof |-> FALSE,
                     gone |-> FALSE, inbox |-> Nothing]
        /\ queue' = Append(queue, c) /\ Len(queue) < 1
    BY <2>1 DEF Connect, Idle, Shape, Backlog
  <2>4. \A d \in Client \ {c} : cl'[d] = cl[d]
    BY <2>3 DEF Shape
  <2>. QED
    BY <2>2, <2>3, <2>4
<1>2. CASE Send(c)
  <2>1. PICK n \in cl[c].sent + 1 .. Size[cl[c].want] : cl' = [cl EXCEPT ![c].sent = n]
    BY <1>2 DEF Send
  <2>2. cl[c].want \in Request /\ cl[c].conn = "open" /\ queue' = queue
    BY <1>2 DEF Send, Shape
  <2>3. n \in Nat /\ cl[c].sent <= n /\ n <= Size[cl[c].want]
    BY <1>0, <2>2 DEF Shape
  <2>. QED
    BY <2>1, <2>2, <2>3 DEF Shape
<1>3. CASE ShutWr(c) \/ Hangup(c)
  BY <1>3 DEF ShutWr, Hangup, Shape
<1>4. CASE Finish(c)
  BY <1>4 DEF Finish, Shape, Idle
<1>. QED
  BY <1>1, <1>2, <1>3, <1>4

\* The client being served is not in the backlog.
LEMMA OneWaits ==
  ASSUME Queued
  PROVE  serving \notin {queue[k] : k \in 1 .. Len(queue)}
<1>1. \A n \in Nat : n <= 1 => \A k \in 1 .. n : k = 1 /\ n = 1
  OBVIOUS
<1>2. Len(queue) \in Nat /\ Len(queue) <= 1 /\ (Len(queue) = 1 => queue[1] # serving)
  BY DEF Queued
<1>3. \A k \in 1 .. Len(queue) : k = 1 /\ Len(queue) = 1
  BY <1>1, <1>2, Zenon
<1>. QED
  BY <1>2, <1>3

\* The end of the connection being served keeps the invariant, if the answer
\* fits what the client has sent.
LEMMA AnswerStep ==
  ASSUME IInv, pc \in Serving, NEW a, Fits(serving, a), Answer(a), queue' = queue
  PROVE  IInv'
<1>1. serving \in Client /\ cl[serving].conn = "open" /\ None \notin Client
  BY ApiAssumption DEF IInv, NoFdLeak, Queued, Serving
<1>2. PICK e : e = Closed(serving, a)
  OBVIOUS
<1>3. cl' = [cl EXCEPT ![serving] = e] /\ serving' = None /\ pc' = "loop"
  BY <1>2 DEF Answer
<1>4. /\ e = [conn |-> e.conn, want |-> e.want, sent |-> e.sent,
              eof |-> e.eof, gone |-> e.gone, inbox |-> e.inbox]
      /\ e.sent \in Nat
      /\ \/ e.conn = "idle" /\ e.inbox = Nothing
         \/ /\ e.conn = "closed" /\ e.inbox = a
            /\ e.want = cl[serving].want /\ e.sent = cl[serving].sent
  BY <1>1, <1>2, ClosedFacts DEF IInv
<1>5. cl'[serving] = e /\ \A d \in Client \ {serving} : cl'[d] = cl[d]
  BY <1>1, <1>3 DEF IInv, Shape
<1>6. Shape'
  <2>1. cl' = [c \in Client |-> cl'[c]]
    BY <1>1, <1>3 DEF IInv, Shape
  <2>2. ASSUME NEW c \in Client
        PROVE  /\ cl'[c] = [conn |-> cl'[c].conn, want |-> cl'[c].want,
                            sent |-> cl'[c].sent, eof |-> cl'[c].eof,
                            gone |-> cl'[c].gone, inbox |-> cl'[c].inbox]
               /\ cl'[c].conn \in {"idle", "open", "closed"}
               /\ cl'[c].conn # "closed" => cl'[c].inbox = Nothing
               /\ cl'[c].sent \in Nat
               /\ cl'[c].conn = "open" =>
                    cl'[c].want \in Request /\ cl'[c].sent <= Size[cl'[c].want]
    <3>1. CASE c = serving
      BY <1>4, <1>5, <3>1
    <3>2. CASE c # serving
      BY <1>5, <3>2 DEF IInv, Shape
    <3>. QED
      BY <3>1, <3>2
  <2>. QED
    BY <1>3, <2>1, <2>2 DEF Shape
<1>7. Queued'
  BY <1>1, <1>3 DEF IInv, Queued
<1>8. NoFdLeak'
  <2>1. \A c \in Client : cl'[c].conn = "open" <=> cl[c].conn = "open" /\ c # serving
    BY <1>4, <1>5
  <2>2. serving \notin {queue[k] : k \in 1 .. Len(queue)}
    BY OneWaits DEF IInv
  <2>3. {c \in Client : cl[c].conn = "open"} =
          {queue[k] : k \in 1 .. Len(queue)} \cup {serving}
    BY <1>1 DEF IInv, NoFdLeak
  <2>4. {c \in Client : cl'[c].conn = "open"} = {queue[k] : k \in 1 .. Len(queue)}
    BY <2>1, <2>2, <2>3, Zenon
  <2>5. {c \in Client : cl'[c].conn = "open"} =
          {queue'[k] : k \in 1 .. Len(queue')} \cup ({serving'} \ {None})
    BY <1>3, <2>4
  <2>. QED
    BY <1>3, <2>5 DEF NoFdLeak
<1>9. Held' /\ Told'
  <2>1. ASSUME NEW c \in Client, cl'[c].inbox.top \in {"return", "entries"}
        PROVE  /\ Complete(c)'
               /\ Size[cl'[c].want] < BUFLEN
               /\ cl'[c].want.form \in IF cl'[c].inbox.top = "entries" THEN {"list_hostfwd"}
                                       ELSE {"add_hostfwd", "remove_hostfwd"}
    <3>1. CASE c = serving
      <4>1. e.conn = "closed"
        <5>1. Nothing.top = "nothing"
          BY DEF Nothing, H!NoReply
        <5>. QED
          BY <1>4, <1>5, <2>1, <3>1, <5>1
      <4>. QED
        BY <1>4, <1>5, <2>1, <3>1, <4>1 DEF Fits, Complete
    <3>2. CASE c # serving
      BY <1>5, <2>1, <3>2 DEF IInv, Told, AnswerFits, Complete
    <3>. QED
      BY <3>1, <3>2
  <2>. QED
    BY <1>3, <2>1 DEF Held, Told, AnswerFits
<1>. QED
  BY <1>6, <1>7, <1>8, <1>9 DEF IInv

\* What the clients do on their own keeps it: nobody else's end changes, and
\* what has been sent stays sent.
LEMMA ClientKeeps ==
  ASSUME IInv, NEW c \in Client,
         \/ \E r \in Wants[c] : Connect(c, r)
         \/ Send(c) \/ ShutWr(c) \/ Hangup(c) \/ Finish(c)
  PROVE  IInv'
<1>1. /\ cl' = [cl EXCEPT ![c] = cl'[c]]
      /\ \A d \in Client \ {c} : cl'[d] = cl[d]
  BY ClientFacts DEF IInv
<1>2. PICK e : e = cl'[c]
  OBVIOUS
<1>3. /\ e = [conn |-> e.conn, want |-> e.want, sent |-> e.sent,
              eof |-> e.eof, gone |-> e.gone, inbox |-> e.inbox]
      /\ e.sent \in Nat
      /\ \/ e.conn = "open" /\ cl[c].conn = "open" /\ e.inbox = Nothing
            /\ e.want = cl[c].want /\ cl[c].sent <= e.sent /\ e.sent <= Size[e.want]
            /\ queue' = queue
         \/ e.conn = "open" /\ cl[c].conn = "idle" /\ e.inbox = Nothing
            /\ e.want \in Request /\ e.sent <= Size[e.want]
            /\ queue' = Append(queue, c) /\ Len(queue) < 1
         \/ e.conn = "idle" /\ cl[c].conn = "closed" /\ e.inbox = Nothing /\ queue' = queue
  BY <1>2, ClientFacts DEF IInv
<1>4. UNCHANGED <<pc, serving, buf, reply>>
  BY DEF Connect, Send, ShutWr, Hangup, Finish, hvars
<1>5. Shape'
  <2>1. cl' = [d \in Client |-> cl'[d]]
    BY <1>1 DEF IInv, Shape
  <2>2. ASSUME NEW d \in Client
        PROVE  /\ cl'[d] = [conn |-> cl'[d].conn, want |-> cl'[d].want,
                            sent |-> cl'[d].sent, eof |-> cl'[d].eof,
                            gone |-> cl'[d].gone, inbox |-> cl'[d].inbox]
               /\ cl'[d].conn \in {"idle", "open", "closed"}
               /\ cl'[d].conn # "closed" => cl'[d].inbox = Nothing
               /\ cl'[d].sent \in Nat
               /\ cl'[d].conn = "open" =>
                    cl'[d].want \in Request /\ cl'[d].sent <= Size[cl'[d].want]
    <3>1. CASE d = c
      BY <1>2, <1>3, <3>1 DEF IInv, Shape
    <3>2. CASE d # c
      BY <1>1, <3>2 DEF IInv, Shape
    <3>. QED
      BY <3>1, <3>2
  <2>. QED
    BY <1>4, <2>1, <2>2 DEF IInv, Shape
<1>6. Queued' /\ NoFdLeak'
  <2>1. CASE queue' = queue
    <3>1. \A d \in Client : cl'[d].conn = "open" <=> cl[d].conn = "open"
      <4>1. Append(queue, c) # queue
        BY DEF IInv, Queued
      <4>. QED
        BY <1>1, <1>2, <1>3, <2>1, <4>1
    <3>. QED
      BY <1>4, <2>1, <3>1 DEF IInv, Queued, NoFdLeak
  <2>2. CASE queue' = Append(queue, c) /\ Len(queue) < 1 /\ cl[c].conn = "idle" /\ e.conn = "open"
    <3>1. queue = <<>> /\ queue' = <<c>>
      <4>1. queue \in Seq(Client) /\ Len(queue) = 0
        BY <2>2 DEF IInv, Queued
      <4>2. queue = <<>>
        BY <4>1
      <4>. QED
        BY <2>2, <4>2
    <3>2. serving # c
      BY <2>2, ApiAssumption DEF IInv, NoFdLeak
    <3>3. \A d \in Client : cl'[d].conn = "open" <=> cl[d].conn = "open" \/ d = c
      BY <1>1, <1>2, <2>2
    <3>4. {queue'[k] : k \in 1 .. Len(queue')} = {c} /\ {queue[k] : k \in 1 .. Len(queue)} = {}
      BY <3>1
    <3>5. {d \in Client : cl[d].conn = "open"} = {serving} \ {None}
      BY <3>4 DEF IInv, NoFdLeak
    <3>6. {d \in Client : cl'[d].conn = "open"} =
            {queue'[k] : k \in 1 .. Len(queue')} \cup ({serving} \ {None})
      BY <3>3, <3>4, <3>5
    <3>7. NoFdLeak'
      BY <1>4, <3>6 DEF IInv, NoFdLeak
    <3>8. Queued'
      BY <1>4, <3>1, <3>2 DEF IInv, Queued
    <3>. QED
      BY <3>7, <3>8
  <2>. QED
    BY <1>3, <2>1, <2>2
<1>7. ASSUME pc \in Serving
      PROVE  /\ serving \in Client /\ cl'[serving].want = cl[serving].want
             /\ cl[serving].sent <= cl'[serving].sent
             /\ cl'[serving].sent <= Size[cl'[serving].want]
             /\ cl[serving].want \in Request /\ Size[cl[serving].want] \in Nat
             /\ cl[serving].sent \in Nat /\ cl'[serving].sent \in Nat
  <2>1. serving \in Client /\ cl[serving].conn = "open"
    BY <1>7 DEF IInv, NoFdLeak, Queued, Serving
  <2>2. cl[serving].want \in Request /\ Size[cl[serving].want] \in Nat
    BY <2>1, ApiAssumption DEF IInv, Shape
  <2>3. CASE serving = c
    BY <1>2, <1>3, <2>1, <2>2, <2>3 DEF IInv, Shape
  <2>4. CASE serving # c
    BY <1>1, <2>1, <2>2, <2>4 DEF IInv, Shape
  <2>. QED
    BY <2>3, <2>4
<1>8. Held'
  <2>1. SUFFICES ASSUME pc = "handle" PROVE Held'
    BY <1>4 DEF Held
  <2>2. PICK n \in Nat : /\ n < BUFLEN /\ n <= cl[serving].sent
                         /\ \A k \in 1 .. n : buf[k] = <<cl[serving].want, k>>
                         /\ buf[n + 1] = NUL
    BY <2>1 DEF IInv, Held
  <2>3. n <= cl'[serving].sent
    BY <1>7, <2>1, <2>2 DEF Serving
  <2>. QED
    BY <1>4, <1>7, <2>1, <2>2, <2>3 DEF Held, Serving
<1>9. Told'
  <2>1. pc = "write" => Fits(serving, reply)'
    <3>1. SUFFICES ASSUME pc = "write", reply.top \in {"return", "entries"}
                   PROVE  Fits(serving, reply)'
      BY <1>4 DEF Fits
    <3>2. Complete(serving) /\ Fits(serving, reply)
      BY <3>1 DEF IInv, Told, Fits
    <3>3. cl'[serving].sent = cl[serving].sent
      BY <1>7, <3>1, <3>2 DEF Complete, Serving
    <3>. QED
      BY <1>4, <1>7, <3>1, <3>2, <3>3 DEF Fits, Complete, Serving
  <2>2. AnswerFits'
    <3>1. Nothing.top = "nothing"
      BY DEF Nothing, H!NoReply
    <3>2. ASSUME NEW d \in Client, cl'[d].inbox.top \in {"return", "entries"}
          PROVE  d # c
      BY <1>2, <1>3, <3>1, <3>2
    <3>. QED
      BY <1>1, <3>2 DEF IInv, Told, AnswerFits, Complete
  <2>. QED
    BY <1>4, <2>1, <2>2 DEF Told
<1>. QED
  BY <1>5, <1>6, <1>8, <1>9 DEF IInv

\* So does the end of the process, which closes every connection.
LEMMA DropKeeps ==
  ASSUME IInv, NEW how \in {"down", "crashed"}, Drop(how)
  PROVE  IInv'
<1>1. /\ cl' = [c \in Client |-> IF cl[c].conn = "open" THEN Closed(c, Nothing) ELSE cl[c]]
      /\ pc' = how /\ serving' = None /\ queue' = <<>>
  BY DEF Drop
<1>2. ASSUME NEW c \in Client
      PROVE  /\ cl'[c] = [conn |-> cl'[c].conn, want |-> cl'[c].want,
                          sent |-> cl'[c].sent, eof |-> cl'[c].eof,
                          gone |-> cl'[c].gone, inbox |-> cl'[c].inbox]
             /\ cl'[c].conn \in {"idle", "closed"} /\ cl'[c].sent \in Nat
             /\ cl'[c].conn # "closed" => cl'[c].inbox = Nothing
             /\ cl'[c] = cl[c] \/ cl'[c].inbox = Nothing
  <2>1. CASE cl[c].conn = "open"
    <3>1. PICK e : e = Closed(c, Nothing)
      OBVIOUS
    <3>2. cl'[c] = e
      BY <1>1, <2>1, <3>1
    <3>3. /\ e = [conn |-> e.conn, want |-> e.want, sent |-> e.sent,
                  eof |-> e.eof, gone |-> e.gone, inbox |-> e.inbox]
          /\ e.sent \in Nat /\ e.conn \in {"idle", "closed"} /\ e.inbox = Nothing
      BY <2>1, <3>1, ClosedFacts DEF IInv
    <3>. QED
      BY <3>2, <3>3
  <2>2. CASE cl[c].conn # "open"
    BY <1>1, <2>2 DEF IInv, Shape
  <2>. QED
    BY <2>1, <2>2
<1>3. Shape'
  BY <1>1, <1>2 DEF Shape
<1>4. Queued' /\ NoFdLeak' /\ Held'
  <2>1. Queued' /\ Held'
    BY <1>1 DEF Queued, Held
  <2>2. {c \in Client : cl'[c].conn = "open"} = {}
    BY <1>2
  <2>3. {queue'[k] : k \in 1 .. Len(queue')} = {}
    BY <1>1
  <2>4. NoFdLeak'
    BY <1>1, <2>2, <2>3 DEF NoFdLeak
  <2>. QED
    BY <2>1, <2>4
<1>5. Told'
  <2>1. Nothing.top = "nothing"
    BY DEF Nothing, H!NoReply
  <2>. QED
    BY <1>1, <1>2, <2>1 DEF IInv, Told, AnswerFits, Complete
<1>. QED
  BY <1>3, <1>4, <1>5 DEF IInv

\* The client is taken from the backlog.
LEMMA AcceptKeeps ==
  ASSUME IInv, Accept
  PROVE  IInv'
<1>1. queue \in Seq(Client) /\ Len(queue) <= 1 /\ queue # <<>>
  BY DEF Accept, IInv, Queued
<1>2. Len(queue) = 1
  <2>1. Len(queue) = 0 => queue = <<>>
    BY <1>1
  <2>2. Len(queue) \in Nat
    BY <1>1
  <2>3. \A n \in Nat : n <= 1 /\ n # 0 => n = 1
    OBVIOUS
  <2>. QED
    BY <1>1, <2>1, <2>2, <2>3, Zenon
<1>3. serving' = queue[1] /\ queue' = <<>> /\ queue[1] \in Client /\ serving = None
  BY <1>1, <1>2 DEF Accept, IInv, NoFdLeak
<1>4. Shape' /\ Held' /\ Told'
  BY DEF Accept, IInv, Shape, Held, Told, AnswerFits, Complete, Serving
<1>5. Queued' /\ NoFdLeak'
  <2>1. {queue[k] : k \in 1 .. Len(queue)} = {queue[1]} /\ queue[1] # None
    BY <1>2, <1>3, ApiAssumption
  <2>2. {queue'[k] : k \in 1 .. Len(queue')} = {}
    BY <1>3
  <2>3. {c \in Client : cl[c].conn = "open"} = {queue[1]}
    BY <1>3, <2>1 DEF IInv, NoFdLeak
  <2>4. NoFdLeak'
    BY <1>3, <2>1, <2>2, <2>3 DEF Accept, NoFdLeak
  <2>5. Queued'
    BY <1>3 DEF Queued
  <2>. QED
    BY <2>4, <2>5
<1>. QED
  BY <1>4, <1>5 DEF IInv

\* read(2) leaves the text of the client being served in the buffer, with a
\* terminator behind it unless the buffer is full.
LEMMA ReadKeeps ==
  ASSUME IInv, Read
  PROVE  IInv'
<1>1. pc = "read" /\ buf' = Stored(serving, ReadLen(serving))
      /\ pc' = AfterRead(ReadLen(serving)) /\ UNCHANGED <<reply, serving, queue, cl>>
  BY DEF Read, hvars
<1>2. serving \in Client /\ cl[serving].sent \in Nat /\ BUFLEN \in Nat
  BY <1>1, ApiAssumption DEF IInv, NoFdLeak, Queued, Serving, Shape
<1>3. PICK n \in Nat : n = ReadLen(serving) /\ n <= BUFLEN /\ n <= cl[serving].sent
  BY <1>2 DEF ReadLen
<1>4. pc' \in {"too large", "handle"} /\ (pc' = "handle" => n < BUFLEN)
  <2>1. pc' = IF n = BUFLEN THEN "too large" ELSE "handle"
    BY <1>1, <1>3 DEF AfterRead
  <2>2. CASE n = BUFLEN
    BY <2>1, <2>2
  <2>3. CASE n # BUFLEN
    BY <1>2, <1>3, <2>1, <2>3
  <2>. QED
    BY <2>2, <2>3
<1>5. Shape' /\ Queued' /\ NoFdLeak' /\ Told'
  <2>1. Shape'
    BY <1>1, <1>4 DEF IInv, Shape, Serving
  <2>2. Queued' /\ NoFdLeak'
    BY <1>1, <1>4 DEF IInv, Queued, NoFdLeak
  <2>3. Told'
    BY <1>1, <1>4 DEF IInv, Told, AnswerFits, Complete
  <2>. QED
    BY <2>1, <2>2, <2>3
<1>6. Held'
  <2>1. SUFFICES ASSUME pc' = "handle" PROVE Held'
    BY DEF Held
  <2>2. \A k \in 1 .. n : buf'[k] = <<cl[serving].want, k>>
    BY <1>1, <1>2, <1>3 DEF Stored
  <2>3. buf'[n + 1] = NUL
    BY <1>1, <1>2, <1>3, <1>4, <2>1 DEF Stored
  <2>. QED
    BY <1>1, <1>3, <1>4, <2>1, <2>2, <2>3 DEF Held
<1>. QED
  BY <1>5, <1>6 DEF IInv

\* A reply that says the request was carried out is a reply to the request of
\* the client being served.
LEMMA ReplyFits ==
  ASSUME IInv, pc = "handle", H!Handle(Parsed(buf)), up'
  PROVE  Fits(serving, reply')
<1>1. CASE Parsed(buf) = Garbled
  <2>1. Garbled.form = "not JSON"
    BY DEF Garbled
  <2>2. reply'.top \notin {"return", "entries"}
    BY <1>1, <2>1, HandleKinds
  <2>. QED
    BY <2>2 DEF Fits
<1>2. CASE Parsed(buf) # Garbled
  <2>1. Parsed(buf) = cl[serving].want /\ Complete(serving) /\ Size[cl[serving].want] < BUFLEN
    BY <1>2, ParsedIsWanted
  <2>2. /\ reply'.top = "entries" => cl[serving].want.form = "list_hostfwd"
        /\ reply'.top = "return" => cl[serving].want.form \in {"add_hostfwd", "remove_hostfwd"}
    BY <2>1, HandleKinds
  <2>. QED
    BY <2>1, <2>2 DEF Fits
<1>. QED
  BY <1>1, <1>2

\* api_handler answers at once, or blocks in write(2) with the reply at hand.
LEMMA HandleKeeps ==
  ASSUME IInv, Handle
  PROVE  IInv'
<1>1. /\ pc = "handle" /\ queue' = queue /\ Fits(serving, reply')
      /\ Answer(reply') \/ (pc' = "write" /\ UNCHANGED <<serving, cl>>)
  <2>1. pc = "handle" /\ H!Handle(Parsed(buf)) /\ up' /\ queue' = queue
    BY DEF Handle
  <2>2. Answer(reply') \/ (pc' = "write" /\ UNCHANGED <<serving, cl>>)
    BY DEF Handle
  <2>. QED
    BY <2>1, <2>2, ReplyFits
<1>2. CASE Answer(reply')
  BY <1>1, <1>2, AnswerStep DEF Serving
<1>3. CASE pc' = "write" /\ UNCHANGED <<serving, cl>>
  <2>1. Shape'
    BY <1>3 DEF IInv, Shape, Serving
  <2>2. Queued' /\ NoFdLeak'
    BY <1>1, <1>3 DEF IInv, Queued, NoFdLeak
  <2>3. Held' /\ Told'
    BY <1>1, <1>3 DEF IInv, Held, Told, AnswerFits, Fits, Complete
  <2>. QED
    BY <2>1, <2>2, <2>3 DEF IInv
<1>. QED
  BY <1>1, <1>2, <1>3

\* Initially there are no connections.
LEMMA IInvInit == Init => IInv
<1> SUFFICES ASSUME Init PROVE IInv
  OBVIOUS
<1>1. \A c \in Client :
        cl[c] = [conn |-> "idle", want |-> Garbled, sent |-> 0, eof |-> FALSE,
                 gone |-> FALSE, inbox |-> Nothing]
  BY DEF Init, Idle
<1>2. Nothing.top = "nothing"
  BY DEF Nothing, H!NoReply
<1>3. Shape
  BY <1>1 DEF Init, Shape
<1>4. Queued /\ Held
  BY DEF Init, Queued, Held
<1>5. NoFdLeak
  <2>1. {c \in Client : cl[c].conn = "open"} = {} /\ {queue[k] : k \in 1 .. Len(queue)} = {}
    BY <1>1 DEF Init
  <2>. QED
    BY <2>1 DEF Init, NoFdLeak
<1>6. Told
  BY <1>1, <1>2 DEF Init, Told, AnswerFits
<1>. QED
  BY <1>3, <1>4, <1>5, <1>6 DEF IInv

\* Every step keeps the invariant.
LEMMA IInvStep == IInv /\ [Next]_vars => IInv'
<1> SUFFICES ASSUME IInv, [Next]_vars PROVE IInv'
  OBVIOUS
<1>1. CASE \E c \in Client : ClientStep(c)
  <2>1. PICK c \in Client : ClientStep(c)
    BY <1>1
  <2>2. CASE Drain(c)
    BY <2>2, AnswerStep DEF Drain, Serving, IInv, Told
  <2>. QED
    BY <2>1, <2>2, ClientKeeps DEF ClientStep
<1>2. CASE ReadFails
  <2>1. Fits(serving, Nothing)
    BY DEF Fits, Nothing, H!NoReply
  <2>. QED
    BY <1>2, <2>1, AnswerStep DEF ReadFails, Serving
<1>3. CASE TooLarge
  <2>1. Fits(serving, H!Error("too large message"))
    BY DEF Fits, H!Error, H!NoReply
  <2>. QED
    BY <1>3, <2>1, AnswerStep DEF TooLarge, Serving
<1>4. CASE WriteFails
  BY <1>4, AnswerStep DEF WriteFails, Serving, IInv, Told
<1>5. CASE HandlerFaults \/ Exit
  BY <1>5, DropKeeps DEF HandlerFaults, Exit
<1>6. CASE Start \/ UNCHANGED vars
  <2>1. UNCHANGED <<serving, buf, queue, cl>>
    BY <1>6 DEF Start, vars
  <2>2. (pc' = pc /\ reply' = reply) \/ (pc \in {"down", "crashed"} /\ pc' = "loop")
    BY <1>6 DEF Start, vars, hvars
  <2>3. Shape'
    BY <2>1, <2>2 DEF IInv, Shape, Serving
  <2>4. Queued' /\ NoFdLeak'
    <3>1. Queued'
      BY <2>1 DEF IInv, Queued
    <3>2. pc \in Serving <=> pc' \in Serving
      BY <2>2 DEF Serving
    <3>3. serving # None <=> pc' \in Serving
      BY <3>2 DEF IInv, NoFdLeak, Serving
    <3>4. NoFdLeak'
      BY <2>1, <3>3 DEF IInv, NoFdLeak, Serving
    <3>. QED
      BY <3>1, <3>4
  <2>5. Held' /\ Told'
    BY <2>1, <2>2 DEF IInv, Held, Told, AnswerFits, Fits, Complete
  <2>. QED
    BY <2>3, <2>4, <2>5 DEF IInv
<1>. QED
  BY <1>1, <1>2, <1>3, <1>4, <1>5, <1>6, AcceptKeeps, ReadKeeps, HandleKeeps DEF Next, Server

\* The invariant holds in every reachable state, however the clients connect, send,
\* stop and hang up, and wherever a call fails.
LEMMA Invariant == Spec => []IInv
BY IInvInit, IInvStep, PTL DEF Spec

\* The accepted fd is closed on every path through api_handler.
THEOREM FdClosed == Spec => []NoFdLeak
<1>1. IInv => NoFdLeak
  BY DEF IInv
<1>. QED
  BY <1>1, Invariant, PTL

\* A client that api_handler told that its request was carried out had sent all of it,
\* and the answer is of the kind that it asked for.
THEOREM AnswersFit == Spec => []AnswerFits
<1>1. IInv => AnswerFits
  BY DEF IInv, Told
<1>. QED
  BY <1>1, Invariant, PTL

\* The list of forwards changes only in a step that handles, whole and as it
\* was sent, the request of the client being served: the buffer that all
\* requests share never mixes two of them.
THEOREM RequestsNotMixed == Spec => ExecutedAsSent
<1>1. IInv /\ [Next]_vars =>
        [up /\ up' /\ hostfwds' # hostfwds =>
           /\ serving # None
           /\ Complete(serving)
           /\ H!Handle(cl[serving].want)]_vars
  <2>1. SUFFICES ASSUME IInv, Next, up, up', hostfwds' # hostfwds
                 PROVE  serving # None /\ Complete(serving) /\ H!Handle(cl[serving].want)
    BY DEF vars, hvars
  <2>2. Handle
    BY <2>1 DEF Next, Server, ClientStep, Accept, Read, TooLarge, HandlerFaults, WriteFails,
         ReadFails, Start, Exit, Connect, Send, ShutWr, Hangup, Drain, Finish, hvars,
         H!Start, H!Stop, H!Gone
  <2>3. pc = "handle" /\ H!Handle(Parsed(buf))
    BY <2>2 DEF Handle
  <2>4. Parsed(buf) # Garbled
    <3>1. Garbled.form \notin {"add_hostfwd", "remove_hostfwd"}
      BY DEF Garbled
    <3>2. Parsed(buf).form \in {"add_hostfwd", "remove_hostfwd"}
      BY <2>1, <2>3, HandleKinds
    <3>. QED
      BY <3>1, <3>2
  <2>. QED
    BY <2>1, <2>3, <2>4, ParsedIsWanted, ApiAssumption
<1>. QED
  BY <1>1, Invariant, PTL DEF Spec, ExecutedAsSent

-----------------------------------------------------------------------------
(***************************************************************************)
(* Type correctness, the forwards and replies of HostFwd included          *)
(***************************************************************************)

\* What api_handle_req may be given.
Parseable == Request \cup {Garbled}

\* The widths are those of some machine.
LEMMA Widths == /\ PortMod \in Nat /\ PortMod > 1 /\ IntMax \in Nat /\ IntMax > 0
                /\ H!IntMin \in Int /\ H!IntMin <= IntMax
<1>1. PortMod \in Nat /\ PortMod > 1 /\ IntMax \in Nat /\ IntMax > 0
  BY HandlerAssumption, Zenon DEF HandlerAssumption
<1>. QED
  BY <1>1 DEF H!IntMin

\* Numbers in a document, or absent from it, fit an int.
LEMMA DocumentInts ==
  ASSUME NEW r \in Parseable
  PROVE  H!ToInt(r.host_port) \in H!CInt /\ H!ToInt(r.guest_port) \in H!CInt
<1>1. CASE r = Garbled
  <2>1. r.host_port = 0 /\ r.guest_port = 0
    BY <1>1 DEF Garbled
  <2>2. H!ToInt(0) = 0
    BY DEF H!ToInt
  <2>3. 0 \in H!CInt
    BY HandlerAssumption DEF H!CInt, H!IntMin, HandlerAssumption
  <2>. QED
    BY <2>1, <2>2, <2>3
<1>2. CASE r \in Request
  BY <1>2, HandlerAssumption DEF HandlerAssumption
<1>. QED
  BY <1>1, <1>2 DEF Parseable

\* What is parsed is a request or Garbled.
LEMMA ParsedType == Parsed(buf) \in Parseable
BY DEF Parsed, Parseable

\* Every answer is a reply.
LEMMA ReplyTypes ==
  /\ Nothing \in H!Reply /\ H!ReturnOk \in H!Reply
  /\ \A k \in H!CInt : H!ReturnId(k) \in H!Reply
  /\ \A d \in H!Desc : H!Error(d) \in H!Reply
  /\ \A es \in SUBSET H!Hostfwd : H!Entries(es) \in H!Reply
<1>1. 0 \in H!CInt
  BY HandlerAssumption DEF HandlerAssumption, H!CInt, H!IntMin
<1>2. Nothing \in H!Reply
  BY <1>1 DEF Nothing, H!NoReply, H!Reply, H!Desc
<1>. QED
  BY <1>2 DEF Nothing, H!NoReply, H!Reply, H!Desc, H!ReturnOk, H!ReturnId, H!Error, H!Entries

\* add_hostfwd fills in a well-typed entry, and libslirp makes a well-typed forward.
LEMMA AddTypes ==
  ASSUME H!TypeOK, NEW r \in Parseable, H!AddSucceeds(r)
  PROVE  hostfwds' \subseteq H!Hostfwd /\ slirp' \subseteq H!Forward
<1> DEFINE e == H!NewHostfwd(r)
<1>1. H!HostAddr(r) \in Addr /\ H!GuestAddr(r) \in Addr
  BY DEF H!AddSucceeds, H!AddError
<1>2. e \in H!Hostfwd
  BY <1>1, DocumentInts DEF H!NewHostfwd, H!Filled, H!Hostfwd, H!Flag, H!TypeOK
<1>3. e.host_port \in Int /\ e.guest_port \in Int
  BY <1>2, HandlerAssumption DEF H!Hostfwd, H!CInt, H!IntMin, HandlerAssumption
<1>4. H!Low16(e.host_port) \in H!PortNo /\ H!Low16(e.guest_port) \in H!PortNo
  BY <1>3, HandlerAssumption DEF H!Low16, H!PortNo, HandlerAssumption
<1> HIDE DEF e
<1>5. PICK f \in H!ForwardsFor(e) : slirp' = slirp \cup {f}
  BY DEF H!AddSucceeds, e
<1>6. PICK p \in H!PortNo : f = H!ForwardAt(e, p)
  BY <1>4, <1>5 DEF H!ForwardsFor
<1>7. f \in H!Forward
  BY <1>2, <1>4, <1>6 DEF H!ForwardAt, H!Forward, H!Hostfwd
<1>. QED
  BY <1>2, <1>5, <1>7 DEF H!TypeOK, H!AddSucceeds, e

\* The handlers keep the types of struct api_ctx, whatever they are given to parse.
LEMMA HandlerTypes ==
  ASSUME H!TypeOK, NEW r \in Parseable, H!Handle(r)
  PROVE  H!TypeOK'
<1> USE DEF H!TypeOK
<1>1. CASE H!BadRequest(r)
  <2>1. H!FormError(r) \in H!Desc
    BY DEF H!FormError, H!Desc
  <2>. QED
    BY <1>1, <2>1, ReplyTypes DEF H!BadRequest, H!Table
<1>2. CASE H!AddWithoutProto(r)
  BY <1>2, ReplyTypes DEF H!AddWithoutProto, H!Gone, Nothing
<1>3. CASE H!AddRejected(r)
  <2>1. H!AddError(r) \in H!Desc
    BY DEF H!AddError, H!Desc
  <2>. QED
    BY <1>3, <2>1, ReplyTypes DEF H!AddRejected, H!Table
<1>4. CASE H!AddFails(r)
  BY <1>4, ReplyTypes DEF H!AddFails, H!Table, H!Desc
<1>5. CASE H!AddSucceeds(r)
  <2>1. hostfwds_nextid' \in H!CInt
    <3>1. hostfwds_nextid' = IF hostfwds_nextid = IntMax THEN H!IntMin
                             ELSE hostfwds_nextid + 1
      BY <1>5 DEF H!AddSucceeds, H!NextId
    <3>2. hostfwds_nextid \in H!IntMin .. IntMax
      BY DEF H!CInt
    <3>3. H!IntMin \in Int /\ IntMax \in Int /\ H!IntMin <= IntMax
      BY Widths
    <3>. QED
      BY <3>1, <3>2, <3>3 DEF H!CInt
  <2>2. wrapped' \in BOOLEAN /\ reply' \in H!Reply
    BY <1>5, ReplyTypes DEF H!AddSucceeds, H!NextId
  <2>. QED
    BY <1>5, <2>1, <2>2, AddTypes DEF H!AddSucceeds
<1>6. CASE H!List(r)
  BY <1>6, ReplyTypes DEF H!List, H!Table
<1>7. CASE H!RemoveUnknown(r) \/ H!RemoveFails(r)
  BY <1>7, ReplyTypes DEF H!RemoveUnknown, H!RemoveFails, H!Table, H!Desc
<1>8. CASE H!RemoveSucceeds(r)
  BY <1>8, ReplyTypes DEF H!RemoveSucceeds
<1>. QED
  BY <1>1, <1>2, <1>3, <1>4, <1>5, <1>6, <1>7, <1>8 DEF H!Handle

\* The handlers, the start and the end of the process keep the types of HostFwd, and
\* nothing else touches its variables.
LEMMA HostFwdTypes ==
  ASSUME H!TypeOK, [Next]_vars
  PROVE  H!TypeOK'
<1>1. ASSUME H!Handle(Parsed(buf)) PROVE H!TypeOK'
  BY <1>1, ParsedType, HandlerTypes
<1>2. CASE H!Start
  <2>1. 1 \in H!CInt
    BY HandlerAssumption DEF HandlerAssumption, H!CInt, H!IntMin
  <2>. QED
    BY <1>2, <2>1, ReplyTypes DEF H!Start, H!TypeOK, Nothing
<1>3. CASE H!Stop
  BY <1>3, ReplyTypes DEF H!Stop, H!Gone, H!TypeOK, Nothing
<1>4. CASE UNCHANGED hvars
  BY <1>4 DEF hvars, H!TypeOK
<1>5. H!Handle(Parsed(buf)) \/ H!Start \/ H!Stop \/ UNCHANGED hvars
  BY DEF Next, vars, Server, ClientStep, Accept, Read, TooLarge, Handle, HandlerFaults,
         WriteFails, ReadFails, Start, Exit, Connect, Send, ShutWr, Hangup, Drain, Finish
<1>. QED
  BY <1>1, <1>2, <1>3, <1>4, <1>5

\* The end of an idle client is well typed, and so is one that is closed with a reply.
LEMMA EndTypes ==
  /\ Idle \in ClientEnd
  /\ \A c \in Client, a \in H!Reply :
       cl[c] \in ClientEnd => Closed(c, a) \in ClientEnd
<1>1. BUFLEN \in Nat
  BY ApiAssumption
<1>2. Idle \in ClientEnd
  BY <1>1, ReplyTypes DEF Idle, ClientEnd
<1>3. ASSUME NEW e \in ClientEnd, NEW a \in H!Reply
      PROVE  [e EXCEPT !.conn = "closed", !.inbox = a] \in ClientEnd
  <2>1. PICK d : d = [e EXCEPT !.conn = "closed"]
    OBVIOUS
  <2>2. d \in ClientEnd
    BY <2>1 DEF ClientEnd
  <2>3. [e EXCEPT !.conn = "closed", !.inbox = a] = [d EXCEPT !.inbox = a]
    BY <2>1, Zenon
  <2>4. [d EXCEPT !.inbox = a] \in ClientEnd
    BY <2>2 DEF ClientEnd
  <2>. QED
    BY <2>3, <2>4
<1>. QED
  BY <1>2, <1>3 DEF Closed

\* What a client does keeps its end well typed; it never sends more than its request.
LEMMA ClientTypes ==
  ASSUME IInv, cl \in [Client -> ClientEnd], NEW c \in Client,
         \/ \E r \in Wants[c] : Connect(c, r)
         \/ Send(c) \/ ShutWr(c) \/ Hangup(c) \/ Finish(c)
  PROVE  cl' \in [Client -> ClientEnd]
<1>0. BUFLEN \in Nat /\ Wants[c] \subseteq Request /\ \A r \in Request : Size[r] \in 1 .. BUFLEN
  BY ApiAssumption
<1>1. CASE \E r \in Wants[c] : Connect(c, r)
  <2>1. PICK r \in Wants[c] :
          cl' = [cl EXCEPT ![c] = [Idle EXCEPT !.conn = "open", !.want = r]]
    BY <1>1 DEF Connect
  <2>2. PICK d : d = [Idle EXCEPT !.conn = "open"]
    OBVIOUS
  <2>3. d \in ClientEnd
    BY <2>2, EndTypes DEF ClientEnd
  <2>4. cl' = [cl EXCEPT ![c] = [d EXCEPT !.want = r]]
    BY <2>1, <2>2, Zenon
  <2>5. [d EXCEPT !.want = r] \in ClientEnd
    BY <1>0, <2>3 DEF ClientEnd
  <2>. QED
    BY <2>4, <2>5
<1>2. CASE Send(c)
  <2>1. PICK n \in cl[c].sent + 1 .. Size[cl[c].want] : cl' = [cl EXCEPT ![c].sent = n]
    BY <1>2 DEF Send
  <2>2. cl[c].want \in Request /\ cl[c].sent \in Nat
    BY <1>2 DEF Send, IInv, Shape
  <2>3. n \in 0 .. BUFLEN
    BY <1>0, <2>1, <2>2
  <2>. QED
    BY <2>1, <2>3 DEF ClientEnd
<1>3. CASE ShutWr(c)
  BY <1>3 DEF ShutWr, ClientEnd
<1>4. CASE Hangup(c)
  <2>1. PICK f : f = [cl EXCEPT ![c].eof = TRUE]
    OBVIOUS
  <2>2. f \in [Client -> ClientEnd]
    BY <2>1 DEF ClientEnd
  <2>3. cl' = [f EXCEPT ![c].gone = TRUE]
    BY <1>4, <2>1, Zenon DEF Hangup
  <2>4. [f[c] EXCEPT !.gone = TRUE] \in ClientEnd
    BY <2>2 DEF ClientEnd
  <2>. QED
    BY <2>2, <2>3, <2>4
<1>5. CASE Finish(c)
  BY <1>5, EndTypes DEF Finish
<1>. QED
  BY <1>1, <1>2, <1>3, <1>4, <1>5

\* Every step keeps the types of ctx->buf and of the connections.
LEMMA EndTypesStep ==
  ASSUME IInv, TypeOK, H!TypeOK', [Next]_vars
  PROVE  buf' \in [1 .. BUFLEN -> Unit] /\ cl' \in [Client -> ClientEnd]
<1>0. /\ buf \in [1 .. BUFLEN -> Unit] /\ cl \in [Client -> ClientEnd]
      /\ reply \in H!Reply /\ reply' \in H!Reply /\ Nothing \in H!Reply
      /\ H!Error("too large message") \in H!Reply
  BY ReplyTypes DEF TypeOK, H!TypeOK, H!Desc
<1>1. ASSUME pc \in Serving PROVE serving \in Client /\ cl[serving].want \in Request
  BY <1>1 DEF IInv, NoFdLeak, Queued, Shape, Serving
<1>2. ASSUME pc \in Serving, NEW a \in H!Reply, Answer(a) PROVE cl' \in [Client -> ClientEnd]
  BY <1>0, <1>1, <1>2, EndTypes DEF Answer
<1>3. ASSUME NEW how, Drop(how)
      PROVE  buf' \in [1 .. BUFLEN -> Unit] /\ cl' \in [Client -> ClientEnd]
  <2>1. Junk \in Unit
    BY DEF Unit
  <2>2. \A c \in Client : Closed(c, Nothing) \in ClientEnd /\ cl[c] \in ClientEnd
    BY <1>0, EndTypes
  <2>. QED
    BY <1>3, <2>1, <2>2 DEF Drop
<1>4. CASE Read
  <2>1. serving \in Client /\ cl[serving].want \in Request
    BY <1>1, <1>4 DEF Read, Serving
  <2>2. Stored(serving, ReadLen(serving)) \in [1 .. BUFLEN -> Unit]
    <3>1. NUL \in Unit /\ \A k \in 1 .. BUFLEN : <<cl[serving].want, k>> \in Unit
      BY <2>1 DEF Unit
    <3>. QED
      BY <1>0, <3>1 DEF Stored
  <2>. QED
    BY <1>0, <1>4, <2>2 DEF Read
<1>5. CASE ReadFails \/ TooLarge \/ WriteFails \/ \E c \in Client : Drain(c)
  BY <1>0, <1>2, <1>5 DEF ReadFails, TooLarge, WriteFails, Drain, Serving
<1>6. CASE Handle
  BY <1>0, <1>2, <1>6 DEF Handle, Serving
<1>7. CASE HandlerFaults \/ Exit
  BY <1>3, <1>7 DEF HandlerFaults, Exit
<1>8. CASE Accept \/ Start \/ UNCHANGED vars
  BY <1>0, <1>8 DEF Accept, Start, vars
<1>9. ASSUME NEW c \in Client,
             \/ \E r \in Wants[c] : Connect(c, r)
             \/ Send(c) \/ ShutWr(c) \/ Hangup(c) \/ Finish(c)
      PROVE  buf' \in [1 .. BUFLEN -> Unit] /\ cl' \in [Client -> ClientEnd]
  <2>1. buf' = buf
    BY <1>9 DEF Connect, Send, ShutWr, Hangup, Finish
  <2>. QED
    BY <1>0, <1>9, <2>1, ClientTypes
<1>. QED
  BY <1>4, <1>5, <1>6, <1>7, <1>8, <1>9 DEF Next, Server, ClientStep

\* The forwards, the replies, ctx->buf and the connections keep their types, whatever the
\* clients send: the shared buffer is never written past its end.
THEOREM TypeCorrect == Spec => []TypeOK
<1>1. Init => TypeOK
  <2>1. 1 \in H!CInt
    BY HandlerAssumption DEF HandlerAssumption, H!CInt, H!IntMin
  <2>2. Init => H!TypeOK
    BY <2>1, ReplyTypes DEF Init, H!Init, H!TypeOK, Nothing
  <2>3. Init => buf \in [1 .. BUFLEN -> Unit] /\ cl \in [Client -> ClientEnd]
    BY EndTypes DEF Init, Unit
  <2>4. Init => IInv
    BY IInvInit
  <2>. QED
    BY <2>2, <2>3, <2>4 DEF TypeOK, IInv, Shape, Queued, Serving, Backlog
<1>2. IInv /\ IInv' /\ TypeOK /\ [Next]_vars => TypeOK'
  <2> SUFFICES ASSUME IInv, IInv', TypeOK, [Next]_vars PROVE TypeOK'
    OBVIOUS
  <2>1. H!TypeOK'
    BY HostFwdTypes DEF TypeOK
  <2>2. buf' \in [1 .. BUFLEN -> Unit] /\ cl' \in [Client -> ClientEnd]
    BY <2>1, EndTypesStep
  <2>. QED
    BY <2>1, <2>2 DEF TypeOK, IInv, Shape, Queued, Serving, Backlog
<1>. QED
  BY <1>1, <1>2, Invariant, PTL DEF Spec

-----------------------------------------------------------------------------
(***************************************************************************)
(* How many calls of api_handler are ahead of a connection: those of its   *)
(* own service, after those of the one that is served before it.           *)
(***************************************************************************)
CallAt(p) ==
  CASE p = "read" -> 3 [] p = "handle" -> 2 [] p = "too large" -> 2 [] p = "write" -> 1
    [] OTHER -> 0
CallsAhead(c) == CallAt(pc) + (IF serving = c THEN 0 ELSE 4)

\* The number of calls at each place.
LEMMA CallsAt ==
  /\ CallAt("loop") = 0 /\ CallAt("read") = 3 /\ CallAt("handle") = 2
  /\ CallAt("too large") = 2 /\ CallAt("write") = 1
BY DEF CallAt
LEMMA CallAtType == \A p : CallAt(p) \in 0 .. 3
BY DEF CallAt

\* Nobody is connected to a process that is gone.
DownInv == pc \in {"down", "crashed"} => ~up /\ queue = <<>>
LEMMA DownInvStep == DownInv /\ [Next]_vars => DownInv'
<1> SUFFICES ASSUME DownInv, [Next]_vars PROVE DownInv'
  OBVIOUS
<1> USE DEF DownInv
<1>1. CASE Accept \/ Read \/ TooLarge \/ Handle \/ WriteFails \/ ReadFails
  BY <1>1 DEF Accept, Read, AfterRead, TooLarge, Handle, WriteFails, ReadFails, Answer
<1>2. CASE HandlerFaults \/ Exit
  BY <1>2 DEF HandlerFaults, Exit, Drop, H!Stop, H!Gone
<1>3. CASE Start \/ UNCHANGED vars
  BY <1>3 DEF Start, vars, hvars
<1>4. ASSUME NEW c \in Client, ClientStep(c) PROVE DownInv'
  BY <1>4 DEF ClientStep, Connect, Send, ShutWr, Hangup, Drain, Finish, Answer, hvars
<1>. QED
  BY <1>1, <1>2, <1>3, <1>4 DEF Next, Server
LEMMA Down == Spec => [](IInv /\ DownInv)
<1>1. Init => DownInv
  BY DEF Init, H!Init, DownInv
<1>. QED
  BY <1>1, Invariant, DownInvStep, PTL DEF Spec

\* A step goes on with the one connection, ends it, turns to the next or is a client's.
LEMMA ServerMoves ==
  ASSUME IInv, DownInv, Next, NEW c \in Client, cl[c].conn = "open"
  PROVE  \/ cl'[c].conn # "open"
         \/ pc = "loop" /\ pc' = "read" /\ serving # c /\ serving' = c
         \/ pc = "read" /\ pc' \in {"handle", "too large"} /\ serving' = serving
         \/ pc = "handle" /\ pc' = "write" /\ serving' = serving
         \/ pc \in Serving /\ pc' = "loop" /\ serving # c /\ serving' # c
         \/ (\E d \in Client : ClientStep(d)) /\ pc' = pc /\ serving' = serving
<1>0. c # None /\ None \notin Client
  BY ApiAssumption DEF ApiAssumption
<1>1. CASE Accept
  <2>1. pc = "loop" /\ pc' = "read" /\ serving' = queue[1] /\ queue # <<>>
    BY <1>1 DEF Accept, IInv, Queued
  <2>2. serving = None
    BY <2>1 DEF IInv, NoFdLeak
  <2>3. \E k \in 1 .. Len(queue) : c = queue[k]
    BY <1>0, <2>2 DEF IInv, NoFdLeak
  <2>4. Len(queue) \in Nat /\ Len(queue) <= 1
    BY DEF IInv, Queued
  <2>5. queue[1] = c
    BY <2>3, <2>4
  <2>. QED
    BY <1>0, <2>1, <2>2, <2>5
<1>2. CASE Read
  BY <1>2 DEF Read, AfterRead
<1>3. ASSUME pc \in Serving, NEW a, Answer(a)
      PROVE  cl'[c].conn # "open" \/ (pc' = "loop" /\ serving # c /\ serving' # c)
  <2>1. pc' = "loop" /\ serving' # c
    BY <1>0, <1>3 DEF Answer
  <2>2. CASE serving = c
    <3>1. cl'[c] = Closed(c, a)
      BY <1>3, <2>2 DEF Answer, IInv, Shape
    <3>2. Closed(c, a).conn # "open"
      BY ClosedFacts DEF IInv
    <3>. QED
      BY <3>1, <3>2
  <2>. QED
    BY <2>1, <2>2
<1>4. CASE ReadFails \/ TooLarge \/ WriteFails \/ \E d \in Client : Drain(d)
  BY <1>3, <1>4 DEF ReadFails, TooLarge, WriteFails, Drain, Serving
<1>5. CASE Handle
  BY <1>3, <1>5 DEF Handle, Serving
<1>6. ASSUME NEW how, Drop(how) PROVE cl'[c].conn # "open"
  <2>1. cl'[c] = Closed(c, Nothing)
    BY <1>6 DEF Drop
  <2>2. Closed(c, Nothing).conn # "open"
    BY ClosedFacts DEF IInv
  <2>. QED
    BY <2>1, <2>2
<1>7. CASE HandlerFaults \/ Exit
  BY <1>6, <1>7 DEF HandlerFaults, Exit
<1>8. CASE Start
  <2>1. pc \in {"down", "crashed"} /\ queue = <<>>
    BY <1>8 DEF Start, DownInv
  <2>2. serving = None
    BY <2>1 DEF IInv, NoFdLeak
  <2>3. c \in {queue[k] : k \in 1 .. Len(queue)} \cup ({serving} \ {None})
    BY DEF IInv, NoFdLeak
  <2>4. PICK k \in 1 .. Len(queue) : c = queue[k]
    BY <2>2, <2>3
  <2>5. Len(queue) = 0
    BY <2>1
  <2>6. 1 .. Len(queue) = {}
    BY <2>5
  <2>. QED
    BY <2>4, <2>6, Zenon
<1>9. ASSUME NEW d \in Client,
             \/ \E r \in Wants[d] : Connect(d, r)
             \/ Send(d) \/ ShutWr(d) \/ Hangup(d) \/ Finish(d)
      PROVE  ClientStep(d) /\ pc' = pc /\ serving' = serving
  BY <1>9 DEF ClientStep, Connect, Send, ShutWr, Hangup, Finish
<1>. QED
  BY <1>1, <1>2, <1>4, <1>5, <1>7, <1>8, <1>9 DEF Next, Server, ClientStep

\* Each of the server's calls leaves fewer ahead of an open connection.
LEMMA EndsNearer ==
  ASSUME IInv, DownInv, Next, NEW c \in Client, cl[c].conn = "open"
  PROVE  \/ cl'[c].conn # "open"
         \/ CallsAhead(c)' < CallsAhead(c)
         \/ CallsAhead(c)' = CallsAhead(c) /\ \E d \in Client : ClientStep(d)
<1> DEFINE Rest(x) == IF x = c THEN 0 ELSE 4
<1>0. /\ CallsAhead(c) = CallAt(pc) + Rest(serving)
      /\ CallsAhead(c)' = CallAt(pc') + Rest(serving')
      /\ Rest(serving) \in {0, 4} /\ (serving' = serving => Rest(serving') = Rest(serving))
  BY Zenon DEF CallsAhead
<1> HIDE DEF Rest
<1>1. CASE pc = "loop" /\ pc' = "read" /\ serving # c /\ serving' = c
  <2>1. CallAt(pc) = 0 /\ CallAt(pc') = 3 /\ Rest(serving) = 4 /\ Rest(serving') = 0
    BY <1>1, CallsAt, Zenon DEF Rest
  <2>. QED
    BY <1>0, <2>1
<1>2. CASE pc = "read" /\ pc' \in {"handle", "too large"} /\ serving' = serving
  <2>1. CallAt(pc) = 3 /\ CallAt(pc') = 2
    BY <1>2, CallsAt, Zenon
  <2>2. Rest(serving') = Rest(serving) /\ Rest(serving) \in {0, 4}
    BY <1>0, <1>2
  <2>. QED
    BY <1>0, <2>1, <2>2
<1>3. CASE pc = "handle" /\ pc' = "write" /\ serving' = serving
  <2>1. CallAt(pc) = 2 /\ CallAt(pc') = 1
    BY <1>3, CallsAt, Zenon
  <2>2. Rest(serving') = Rest(serving) /\ Rest(serving) \in {0, 4}
    BY <1>0, <1>3
  <2>. QED
    BY <1>0, <2>1, <2>2
<1>4. CASE pc \in Serving /\ pc' = "loop" /\ serving # c /\ serving' # c
  <2>1. CallAt(pc') = 0 /\ Rest(serving) = 4 /\ Rest(serving') = 4
    BY <1>4, CallsAt, Zenon DEF Rest
  <2>2. CallAt(pc) = 1 \/ CallAt(pc) = 2 \/ CallAt(pc) = 3
    BY <1>4, CallsAt, Zenon DEF Serving
  <2>3. CallsAhead(c)' = 4
    BY <1>0, <2>1
  <2>4. CallsAhead(c) = CallAt(pc) + 4
    BY <1>0, <2>1
  <2>. QED
    BY <2>2, <2>3, <2>4
<1>5. CASE (\E d \in Client : ClientStep(d)) /\ pc' = pc /\ serving' = serving
  BY <1>5, Zenon DEF CallsAhead
<1>. QED
  BY <1>1, <1>2, <1>3, <1>4, <1>5, ServerMoves

\* At most seven calls of api_handler are ahead of any connection, and each of them
\* leaves fewer, whatever the other clients do: nobody overtakes a client that waits.
\* A read that finds nothing waits only for a client that has not sent anything and still
\* can.  What EveryConnectionEnds says beyond that is that the calls are made.
THEOREM ConnectionsEnd ==
  ASSUME NEW c \in Client
  PROVE  Spec => /\ [][ cl[c].conn = "open" =>
                          \/ cl'[c].conn # "open"
                          \/ CallsAhead(c)' < CallsAhead(c)
                          \/ /\ CallsAhead(c)' = CallsAhead(c)
                             /\ \E d \in Client : ClientStep(d) ]_vars
                 /\ []( /\ CallsAhead(c) \in 0 .. 7
                        /\ pc = "read" /\ ~Readable(serving)
                             => /\ cl[serving].conn = "open" /\ ~cl[serving].eof
                                /\ cl[serving].sent < Size[cl[serving].want] )
<1>1. IInv /\ DownInv /\ [Next]_vars =>
        [ cl[c].conn = "open" =>
            \/ cl'[c].conn # "open"
            \/ CallsAhead(c)' < CallsAhead(c)
            \/ /\ CallsAhead(c)' = CallsAhead(c)
               /\ \E d \in Client : ClientStep(d) ]_vars
  BY EndsNearer
<1>2. ASSUME IInv
      PROVE  /\ CallsAhead(c) \in 0 .. 7
             /\ pc = "read" /\ ~Readable(serving)
                  => /\ cl[serving].conn = "open" /\ ~cl[serving].eof
                     /\ cl[serving].sent < Size[cl[serving].want]
  <2>1. CallsAhead(c) \in 0 .. 7
    BY CallAtType DEF CallsAhead
  <2>2. ASSUME pc = "read", ~Readable(serving)
        PROVE  /\ cl[serving].conn = "open" /\ ~cl[serving].eof
               /\ cl[serving].sent < Size[cl[serving].want]
    <3>0. serving # None
      BY <1>2, <2>2 DEF IInv, NoFdLeak
    <3>1. serving \in {d \in Client : cl[d].conn = "open"}
      BY <1>2, <3>0 DEF IInv, NoFdLeak
    <3>2. cl[serving].sent \in Nat /\ cl[serving].want \in Request
      BY <1>2, <3>1 DEF IInv, Shape
    <3>3. Size[cl[serving].want] \in 1 .. BUFLEN /\ BUFLEN \in Nat
      BY <3>2, ApiAssumption DEF ApiAssumption
    <3>4. cl[serving].sent = 0 /\ ~cl[serving].eof
      BY <2>2, <3>2 DEF Readable
    <3>. QED
      BY <3>1, <3>3, <3>4
  <2>. QED
    BY <2>1, <2>2
<1>. QED
  BY <1>1, <1>2, Down, PTL DEF Spec
=============================================================================
