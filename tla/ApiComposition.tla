--------------------------- MODULE ApiComposition ---------------------------
(***************************************************************************)
(* The API socket and the handlers together.  ApiServer runs the handlers  *)
(* of HostFwd on whatever it reads into ctx->buf; seen through the         *)
(* variables of HostFwd, it behaves as HostFwd does.  So what is proved of *)
(* the handlers holds with real connections: requests in pieces, too large *)
(* or cut off, clients that hang up, and a buffer that they all share.     *)
(***************************************************************************)
EXTENDS HostFwdProofs

CONSTANTS
  Sent,                          \* the requests that clients send
  Client, Wants, BUFLEN, Size, SNDBUF \* as in ApiServer

VARIABLES pc, serving, buf, queue, cl  \* as in ApiServer

A == INSTANCE ApiServer WITH Request <- Sent

\* The handlers may be given what clients send, and what is not JSON.
Given == Sent \cup {A!Garbled} \subseteq Request

-----------------------------------------------------------------------------
\* What ctx->buf is parsed as is a document that the handlers may be given.
LEMMA ParsedGiven == Given => A!Parsed(buf) \in Request
BY DEF Given, A!Parsed

\* ApiServer runs the handlers that HostFwd has.
LEMMA SameHandler ==
  ASSUME NEW r, A!H!Handle(r)
  PROVE  Handle(r)
<1>1. A!H!BadRequest(r) => BadRequest(r)
  BY DEF A!H!BadRequest, BadRequest, A!H!FormError, FormError, A!H!Error, Error,
         A!H!NoReply, NoReply, A!H!Table, Table
<1>2. A!H!AddWithoutProto(r) => AddWithoutProto(r)
  BY DEF A!H!AddWithoutProto, AddWithoutProto, A!H!Gone, Gone, A!H!NoReply, NoReply
<1>3. A!H!HostAddr(r) = HostAddr(r) /\ A!H!GuestAddr(r) = GuestAddr(r)
  BY DEF A!H!HostAddr, HostAddr, A!H!GuestAddr, GuestAddr
<1>4. \A n : A!H!ToInt(n) = ToInt(n) /\ A!H!Low16(n) = Low16(n)
  BY Zenon DEF A!H!ToInt, ToInt, A!H!Low16, Low16
<1>5. A!H!AddError(r) = AddError(r)
  BY <1>3, <1>4 DEF A!H!AddError, AddError
<1>6. A!H!NewHostfwd(r) = NewHostfwd(r)
  BY <1>3, <1>4 DEF A!H!NewHostfwd, NewHostfwd, A!H!Filled, Filled
<1>7. A!H!AddRejected(r) => AddRejected(r)
  BY <1>5 DEF A!H!AddRejected, AddRejected, A!H!Error, Error, A!H!NoReply, NoReply,
              A!H!Table, Table
<1>8. A!H!AddFails(r) => AddFails(r)
  BY <1>5 DEF A!H!AddFails, AddFails, A!H!Error, Error, A!H!NoReply, NoReply,
              A!H!Table, Table
<1>9. \A e : A!H!ForwardsFor(e) = ForwardsFor(e) /\ A!H!Found(e) = Found(e)
  BY <1>4 DEF A!H!ForwardsFor, ForwardsFor, A!H!ForwardAt, ForwardAt, A!H!PortNo, PortNo,
              A!H!Found, Found
<1>10. A!H!AddSucceeds(r) => AddSucceeds(r)
  BY <1>5, <1>6, <1>9, Zenon
     DEF A!H!AddSucceeds, AddSucceeds, A!H!Overlap, Overlap, A!H!NextId, NextId,
         A!H!IntMin, IntMin, A!H!ReturnId, ReturnId, A!H!NoReply, NoReply
<1>11. A!H!List(r) => List(r)
  BY DEF A!H!List, List, A!H!Entries, Entries, A!H!NoReply, NoReply, A!H!Table, Table
<1>12. A!H!RemoveUnknown(r) => RemoveUnknown(r)
  BY <1>4 DEF A!H!RemoveUnknown, RemoveUnknown, A!H!Error, Error, A!H!NoReply, NoReply,
              A!H!Table, Table
<1>13. A!H!RemoveFails(r) => RemoveFails(r)
  BY <1>4, <1>9 DEF A!H!RemoveFails, RemoveFails, A!H!Error, Error, A!H!NoReply, NoReply,
              A!H!Table, Table
<1>14. A!H!RemoveSucceeds(r) => RemoveSucceeds(r)
  BY <1>4, <1>9 DEF A!H!RemoveSucceeds, RemoveSucceeds, A!H!ReturnOk, ReturnOk,
                    A!H!NoReply, NoReply
<1> QED BY <1>1, <1>2, <1>7, <1>8, <1>10, <1>11, <1>12, <1>13, <1>14
        DEF A!H!Handle, Handle

\* Every step of the server or of a client is one of the handlers, or leaves what they
\* work on alone.
LEMMA ServerStep ==
  ASSUME Given, [A!Next]_(A!vars)
  PROVE  [Next]_vars
<1>1. ASSUME A!H!Handle(A!Parsed(buf)) PROVE Next
  <2>1. Handle(A!Parsed(buf))
    BY <1>1, SameHandler
  <2> QED BY <2>1, ParsedGiven DEF Next
<1>2. A!H!Start => Next
  BY DEF A!H!Start, Start, Next, A!H!NoReply, NoReply
<1>3. A!H!Stop => Next
  BY DEF A!H!Stop, Stop, Next, A!H!Gone, Gone, A!H!NoReply, NoReply
<1>4. \/ A!H!Handle(A!Parsed(buf)) \/ A!H!Start \/ A!H!Stop \/ UNCHANGED A!hvars
  BY DEF A!Next, A!vars, A!Server, A!ClientStep, A!Accept, A!Read, A!TooLarge, A!Handle,
         A!HandlerFaults, A!WriteFails, A!ReadFails, A!Start, A!Exit, A!Connect, A!Send,
         A!ShutWr, A!Hangup, A!Drain, A!Finish
<1>5. UNCHANGED A!hvars => UNCHANGED vars
  BY DEF A!hvars, vars
<1> QED BY <1>1, <1>2, <1>3, <1>4, <1>5

\* The API server implements HostFwd: the connections, the shared buffer and the clients
\* that fail add nothing to what requests do to the forwards.
THEOREM ServerImplements ==
  ASSUME Given
  PROVE  A!Spec => Spec
<1>1. A!Init => Init
  BY DEF A!Init, A!H!Init, Init, A!H!NoReply, NoReply
<1>2. [A!Next]_(A!vars) => [Next]_vars
  BY ServerStep
<1> QED BY <1>1, <1>2, PTL DEF A!Spec, Spec

\* So over real connections too, and however they fail, libslirp serves what list_hostfwd
\* shows and no more, an id names one forward up to the overflow of hostfwds_nextid, and
\* no two forwards compete for an endpoint of the host.
THEOREM ServerForwards ==
  ASSUME Given
  PROVE  A!Spec => [](ListedIsServed /\ ServedIsListed /\ IdsUnique /\ EndpointsExclusive)
BY ServerImplements, ListedServed, ServedListed, UniqueIds, Exclusivity, PTL

\* Clients of the API socket, all of them together, see PortBook's register of exclusive
\* endpoints.
THEOREM ServerRefinement ==
  ASSUME Given
  PROVE  A!Spec => ImplementsPortBook
BY ServerImplements, Refinement, PTL
=============================================================================
