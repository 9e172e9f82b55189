---------------------------- MODULE HostFwdProofs ----------------------------
(***************************************************************************)
(* Proofs about HostFwd, for every set of addresses, width of ports and    *)
(* ints, and set of requests.                                              *)
(***************************************************************************)
EXTENDS HostFwd, TLAPS

-----------------------------------------------------------------------------
(***************************************************************************)
(* Facts about the operators                                               *)
(***************************************************************************)

\* The widths of ports and ints are those of some machine.
LEMMA Widths == PortMod \in Nat /\ PortMod > 1 /\ IntMax \in Nat /\ IntMax > 0
BY HostFwdAssumption DEF HostFwdAssumption

\* Numbers in a request fit an int.
LEMMA RequestInts ==
  ASSUME NEW r \in Request
  PROVE  ToInt(r.host_port) \in CInt /\ ToInt(r.guest_port) \in CInt
BY HostFwdAssumption DEF HostFwdAssumption

\* The low 16 bits of a number are a port number.
LEMMA Low16Type == ASSUME NEW n \in Int PROVE Low16(n) \in PortNo
BY Widths DEF Low16, PortNo

\* An argument that passes the checks of add_hostfwd gives a well-typed entry.
LEMMA FilledType ==
  ASSUME NEW r \in Request, NEW i \in CInt, AddError(r) = ""
  PROVE  Filled(r, i) \in Hostfwd
<1>1. HostAddr(r) \in Addr /\ GuestAddr(r) \in Addr
  BY DEF AddError
<1>2. ToInt(r.host_port) \in CInt /\ ToInt(r.guest_port) \in CInt
  BY RequestInts
<1> QED BY <1>1, <1>2 DEF Filled, Hostfwd, Flag

\* Every forward made for an entry has a type, and a port that is not 0.
LEMMA ForwardsForType ==
  ASSUME NEW e \in Hostfwd
  PROVE  \A f \in ForwardsFor(e) : f \in Forward /\ f.host_port # 0
<1> SUFFICES ASSUME NEW f \in ForwardsFor(e)
             PROVE  f \in Forward /\ f.host_port # 0
  OBVIOUS
<1>1. e.host_port \in Int /\ e.guest_port \in Int
  BY DEF Hostfwd, CInt, IntMin
<1>2. Low16(e.host_port) \in PortNo /\ Low16(e.guest_port) \in PortNo
  BY <1>1, Low16Type
<1>3. PICK p \in PortNo : p # 0 /\ f = ForwardAt(e, p)
  BY <1>2 DEF ForwardsFor
<1> QED BY <1>2, <1>3 DEF ForwardAt, Forward, Hostfwd

\* An entry whose port is not a multiple of 2^16 has one possible forward.
LEMMA OneForward ==
  ASSUME NEW e \in Hostfwd, Low16(e.host_port) # 0
  PROVE  ForwardsFor(e) = {ForwardAt(e, Low16(e.host_port))}
BY DEF ForwardsFor

-----------------------------------------------------------------------------
(***************************************************************************)
(* Type correctness                                                        *)
(***************************************************************************)

\* Replies have the shape of the JSON the handlers write.
LEMMA ReplyType ==
  /\ NoReply \in Reply /\ ReturnOk \in Reply
  /\ \A i \in CInt : ReturnId(i) \in Reply
  /\ \A d \in Desc : Error(d) \in Reply
  /\ \A es \in SUBSET Hostfwd : Entries(es) \in Reply
<1>1. 0 \in CInt
  BY Widths DEF CInt, IntMin
<1>2. NoReply \in Reply
  BY <1>1 DEF NoReply, Reply, Desc
<1> QED BY <1>2 DEF NoReply, Reply, Desc, ReturnOk, ReturnId, Error, Entries

\* Every step of the handlers keeps the types of struct api_ctx.
LEMMA TypeStep == TypeOK /\ [Next]_vars => TypeOK'
<1> SUFFICES ASSUME TypeOK, [Next]_vars PROVE TypeOK'
  OBVIOUS
<1> USE DEF TypeOK
<1>0. 1 \in CInt
  BY Widths DEF CInt, IntMin
<1>1. CASE Start
  BY <1>0, <1>1, ReplyType DEF Start
<1>2. CASE Stop
  BY <1>2, ReplyType DEF Stop, Gone
<1>3. ASSUME NEW r \in Request, Handle(r) PROVE TypeOK'
  <2>1. CASE BadRequest(r)
    <3>1. FormError(r) \in Desc
      BY DEF FormError, Desc
    <3> QED BY <2>1, <3>1, ReplyType DEF BadRequest, Table
  <2>2. CASE AddWithoutProto(r)
    BY <2>2, ReplyType DEF AddWithoutProto, Gone
  <2>3. CASE AddRejected(r)
    <3>1. AddError(r) \in Desc
      BY DEF AddError, Desc
    <3> QED BY <2>3, <3>1, ReplyType DEF AddRejected, Table
  <2>4. CASE AddFails(r)
    BY <2>4, ReplyType DEF AddFails, Table, Desc
  <2>5. CASE AddSucceeds(r)
    <3>1. NewHostfwd(r) \in Hostfwd
      BY <2>5, FilledType DEF AddSucceeds, NewHostfwd
    <3>2. slirp' \subseteq Forward
      BY <2>5, <3>1, ForwardsForType DEF AddSucceeds
    <3>3. hostfwds_nextid' \in CInt
      <4>1. hostfwds_nextid' = IF hostfwds_nextid = IntMax
                               THEN IntMin ELSE hostfwds_nextid + 1
        BY <2>5 DEF AddSucceeds, NextId
      <4>2. hostfwds_nextid \in IntMin .. IntMax
        BY DEF CInt
      <4>3. IntMin \in Int /\ IntMax \in Int /\ IntMin <= IntMax
        BY Widths DEF IntMin
      <4> QED BY <4>1, <4>2, <4>3 DEF CInt
    <3>4. wrapped' \in BOOLEAN
      BY <2>5 DEF AddSucceeds, NextId
    <3>5. reply' \in Reply
      BY <2>5, ReplyType DEF AddSucceeds
    <3> QED BY <2>5, <3>1, <3>2, <3>3, <3>4, <3>5 DEF AddSucceeds
  <2>6. CASE List(r)
    BY <2>6, ReplyType DEF List, Table
  <2>7. CASE RemoveUnknown(r)
    BY <2>7, ReplyType DEF RemoveUnknown, Table, Desc
  <2>8. CASE RemoveFails(r)
    BY <2>8, ReplyType DEF RemoveFails, Table, Desc
  <2>9. CASE RemoveSucceeds(r)
    BY <2>9, ReplyType DEF RemoveSucceeds
  <2> QED BY <1>3, <2>1, <2>2, <2>3, <2>4, <2>5, <2>6, <2>7, <2>8, <2>9 DEF Handle
<1>4. CASE UNCHANGED vars
  BY <1>4 DEF vars
<1> QED BY <1>1, <1>2, <1>3, <1>4 DEF Next

\* The variables of api.c keep their types in every reachable state.
THEOREM TypeCorrect == Spec => []TypeOK
<1>1. Init => TypeOK
  <2>1. 1 \in CInt
    BY Widths DEF CInt, IntMin
  <2> QED BY <2>1, ReplyType DEF Init, TypeOK
<1> QED BY <1>1, TypeStep, PTL DEF Spec

-----------------------------------------------------------------------------
(***************************************************************************)
(* The list of api.c and the forwards of libslirp agree.  None of the      *)
(* three facts is inductive alone: that a removal takes away the right     *)
(* forward rests on entries not competing, which rests on the host's       *)
(* refusal of a second bind, which speaks about forwards, not entries.     *)
(***************************************************************************)
Proper(e) == Low16(e.host_port) # 0

Rivals(d, e) == Overlap(ForwardAt(d, Low16(d.host_port)),
                        ForwardAt(e, Low16(e.host_port)))

AgreeInv == /\ TypeOK
            /\ ListedIsServed
            /\ ServedIsListed
            /\ \A d, e \in hostfwds : Proper(d) /\ Proper(e) /\ d # e => ~Rivals(d, e)

\* A proper entry's own forward is in libslirp, and is all that a removal of
\* the entry finds.
LEMMA Served ==
  ASSUME AgreeInv, NEW e \in hostfwds, Proper(e)
  PROVE  /\ ForwardAt(e, Low16(e.host_port)) \in slirp
         /\ Found(e) = {ForwardAt(e, Low16(e.host_port))}
BY OneForward DEF AgreeInv, TypeOK, ListedIsServed, Proper, Found

\* No forward sits on port 0.
LEMMA NoPortZero == ASSUME AgreeInv, NEW f \in slirp PROVE f.host_port # 0
BY ForwardsForType DEF AgreeInv, TypeOK, ServedIsListed

\* A successful add_hostfwd keeps the list and libslirp in agreement.
LEMMA AgreeAdd ==
  ASSUME AgreeInv, TypeOK', NEW r \in Request, AddSucceeds(r)
  PROVE  AgreeInv'
<1> DEFINE n == NewHostfwd(r)
<1>1. PICK f \in ForwardsFor(n) : /\ \A g \in slirp : ~Overlap(f, g)
                                  /\ slirp' = slirp \cup {f}
  BY DEF AddSucceeds
<1>2. hostfwds' = hostfwds \cup {n}
  BY DEF AddSucceeds
<1>3. n \in Hostfwd
  BY <1>2 DEF TypeOK
<1>4. f.host_port # 0
  BY <1>3, ForwardsForType
<1>5. f.is_udp = n.is_udp /\ f.host_addr = n.host_addr
  BY DEF ForwardsFor, ForwardAt
<1>6. ASSUME Proper(n) PROVE f = ForwardAt(n, Low16(n.host_port))
  BY <1>3, <1>6, OneForward DEF Proper
<1>7. ListedIsServed'
  <2> SUFFICES ASSUME NEW e \in hostfwds'
               PROVE  IF Low16(e.host_port) = 0 THEN Found(e)' = {}
                      ELSE Found(e)' = ForwardsFor(e)
    BY DEF ListedIsServed
  <2>1. CASE ~Proper(e)
    <3>1. \A g \in slirp' : g.host_port # 0
      BY <1>1, <1>4, NoPortZero
    <3> QED BY <2>1, <3>1 DEF Proper, Found
  <2>2. CASE Proper(e) /\ e \in hostfwds
    <3> DEFINE h == ForwardAt(e, Low16(e.host_port))
    <3>1. h \in slirp /\ Found(e) = {h}
      BY <2>2, Served
    <3>2. ~ /\ f.is_udp = e.is_udp /\ f.host_addr = e.host_addr
            /\ f.host_port = Low16(e.host_port)
      BY <1>1, <3>1 DEF Overlap, ForwardAt
    <3>3. Found(e)' = Found(e)
      BY <1>1, <3>2 DEF Found
    <3>4. ForwardsFor(e) = {h}
      BY <2>2, OneForward DEF Proper, AgreeInv, TypeOK
    <3> QED BY <2>2, <3>1, <3>3, <3>4 DEF Proper
  <2>3. CASE Proper(e) /\ e = n
    <3>1. f = ForwardAt(e, Low16(e.host_port)) /\ ForwardsFor(e) = {f}
      BY <1>3, <1>6, <2>3, OneForward DEF Proper
    <3>2. \A g \in slirp : ~ /\ g.is_udp = e.is_udp /\ g.host_addr = e.host_addr
                             /\ g.host_port = Low16(e.host_port)
      BY <1>1, <3>1 DEF Overlap, ForwardAt
    <3>3. /\ f.is_udp = e.is_udp /\ f.host_addr = e.host_addr
          /\ f.host_port = Low16(e.host_port)
      BY <3>1 DEF ForwardAt
    <3>4. Found(e)' = {f}
      BY <1>1, <3>2, <3>3 DEF Found
    <3> QED BY <2>3, <3>1, <3>4 DEF Proper
  <2> QED BY <1>2, <2>1, <2>2, <2>3
<1>8. ServedIsListed'
  BY <1>1, <1>2 DEF ServedIsListed, AgreeInv
<1>9. ASSUME NEW d \in hostfwds', NEW e \in hostfwds',
             Proper(d), Proper(e), d # e
      PROVE  ~Rivals(d, e)
  <2>1. CASE d \in hostfwds /\ e \in hostfwds
    BY <1>9, <2>1 DEF AgreeInv
  <2>2. CASE d = n /\ e \in hostfwds
    BY <1>1, <1>6, <1>9, <2>2, Served DEF Rivals
  <2>3. CASE d \in hostfwds /\ e = n
    <3>1. ~Rivals(e, d)
      BY <1>1, <1>6, <1>9, <2>3, Served DEF Rivals
    <3> QED BY <3>1 DEF Rivals, Overlap
  <2> QED BY <1>2, <1>9, <2>1, <2>2, <2>3
<1> QED BY <1>7, <1>8, <1>9 DEF AgreeInv, Proper, Rivals, Overlap, ForwardAt, Low16

\* A successful remove_hostfwd takes away the forward of the entry it names
\* and of no other.
LEMMA AgreeRemove ==
  ASSUME AgreeInv, TypeOK', NEW r \in Request, RemoveSucceeds(r)
  PROVE  AgreeInv'
<1>0. PICK e \in hostfwds : /\ \E f \in Found(e) : slirp' = slirp \ {f}
                            /\ hostfwds' = hostfwds \ {e}
  BY DEF RemoveSucceeds
<1>1. PICK f \in Found(e) : slirp' = slirp \ {f} /\ hostfwds' = hostfwds \ {e}
  BY <1>0
<1>2. Proper(e)
  BY <1>1 DEF AgreeInv, ListedIsServed, Proper
<1>3. f = ForwardAt(e, Low16(e.host_port)) /\ ForwardsFor(e) = {f}
  BY <1>1, <1>2, Served, OneForward DEF Proper, AgreeInv, TypeOK
<1>4. ListedIsServed'
  <2> SUFFICES ASSUME NEW d \in hostfwds'
               PROVE  IF Low16(d.host_port) = 0 THEN Found(d)' = {}
                      ELSE Found(d)' = ForwardsFor(d)
    BY DEF ListedIsServed
  <2>1. d \in hostfwds /\ d # e
    BY <1>1
  <2>2. CASE ~Proper(d)
    <3>1. Found(d) = {}
      BY <2>1, <2>2 DEF AgreeInv, ListedIsServed, Proper
    <3> QED BY <1>1, <2>2, <3>1 DEF Proper, Found
  <2>3. CASE Proper(d)
    <3>1. Found(d) = {ForwardAt(d, Low16(d.host_port))}
      BY <2>1, <2>3, Served
    <3>2. ~Rivals(d, e)
      BY <1>2, <2>1, <2>3 DEF AgreeInv
    <3>3. f \notin Found(d)
      BY <1>3, <3>1, <3>2 DEF Rivals, Overlap
    <3>4. Found(d)' = Found(d)
      BY <1>1, <3>3 DEF Found
    <3> QED BY <2>1, <2>3, <3>1, <3>4, OneForward DEF Proper, AgreeInv, TypeOK
  <2> QED BY <2>2, <2>3
<1>5. ServedIsListed'
  BY <1>1, <1>3 DEF ServedIsListed, AgreeInv
<1>6. \A d, c \in hostfwds' : Proper(d) /\ Proper(c) /\ d # c => ~Rivals(d, c)
  BY <1>1 DEF AgreeInv
<1> QED BY <1>4, <1>5, <1>6 DEF AgreeInv, Proper, Rivals, Overlap, ForwardAt, Low16

\* No step, of a handler, a start or an exit, breaks the agreement.
LEMMA AgreeStep == AgreeInv /\ [Next]_vars => AgreeInv'
<1> SUFFICES ASSUME AgreeInv, [Next]_vars PROVE AgreeInv'
  OBVIOUS
<1>0. TypeOK'
  BY TypeStep DEF AgreeInv
<1>1. ASSUME hostfwds' = {}, slirp' = {} PROVE AgreeInv'
  BY <1>0, <1>1 DEF AgreeInv, ListedIsServed, ServedIsListed
<1>2. ASSUME hostfwds' = hostfwds, slirp' = slirp PROVE AgreeInv'
  BY <1>0, <1>2 DEF AgreeInv, ListedIsServed, ServedIsListed, Found, ForwardsFor,
                   ForwardAt, Proper, Rivals, Overlap, Low16, PortNo
<1>3. CASE Start \/ Stop
  BY <1>1, <1>3 DEF Start, Stop, Gone
<1>4. ASSUME NEW r \in Request, Handle(r) PROVE AgreeInv'
  <2>1. CASE AddWithoutProto(r)
    BY <1>1, <2>1 DEF AddWithoutProto, Gone
  <2>2. CASE AddSucceeds(r)
    BY <1>0, <2>2, AgreeAdd
  <2>3. CASE RemoveSucceeds(r)
    BY <1>0, <2>3, AgreeRemove
  <2>4. CASE UNCHANGED Table
    BY <1>2, <2>4 DEF Table
  <2> QED BY <1>4, <2>1, <2>2, <2>3, <2>4 DEF Handle, BadRequest, AddRejected,
             AddFails, List, RemoveUnknown, RemoveFails
<1>5. CASE UNCHANGED vars
  BY <1>2, <1>5 DEF vars
<1> QED BY <1>3, <1>4, <1>5 DEF Next

\* A process that has not started lists and serves nothing.
LEMMA AgreeInit == Init => AgreeInv
<1>1. 1 \in CInt
  BY Widths DEF CInt, IntMin
<1>2. Init => TypeOK
  BY <1>1, ReplyType DEF Init, TypeOK
<1> QED BY <1>2 DEF Init, AgreeInv, ListedIsServed, ServedIsListed

\* The list of api.c and the forwards of libslirp agree in every reachable
\* state, whatever requests arrive and whichever of them fail.
LEMMA Agreement == Spec => []AgreeInv
BY AgreeInit, AgreeStep, PTL DEF Spec

\* libslirp serves every forward that list_hostfwd shows, up to host ports that are
\* multiples of 2^16.
THEOREM ListedServed == Spec => []ListedIsServed
<1>1. AgreeInv => ListedIsServed
  BY DEF AgreeInv
<1> QED BY <1>1, Agreement, PTL

\* list_hostfwd shows every forward that libslirp serves.
THEOREM ServedListed == Spec => []ServedIsListed
<1>1. AgreeInv => ServedIsListed
  BY DEF AgreeInv
<1> QED BY <1>1, Agreement, PTL

\* Under AgreeInv the book is the proper entries, and they do not compete.
LEMMA BookFacts ==
  ASSUME AgreeInv
  PROVE  /\ Book = {e \in hostfwds : Proper(e)}
         /\ EndpointsExclusive
<1>1. \A e \in hostfwds : Found(e) # {} <=> Proper(e)
  <2> SUFFICES ASSUME NEW e \in hostfwds PROVE Found(e) # {} <=> Proper(e)
    OBVIOUS
  <2>1. CASE Proper(e)
    BY <2>1, Served
  <2>2. CASE ~Proper(e)
    BY <2>2 DEF AgreeInv, ListedIsServed, Proper
  <2> QED BY <2>1, <2>2
<1>2. Book = {e \in hostfwds : Proper(e)}
  BY <1>1 DEF Book
<1>3. EndpointsExclusive
  <2> SUFFICES ASSUME NEW d \in Book, NEW e \in Book, d # e
               PROVE  ~PB!Compete(d, e)
    BY DEF EndpointsExclusive, PB!Exclusive
  <2>1. ~Rivals(d, e)
    BY <1>2 DEF AgreeInv
  <2> QED BY <2>1 DEF Rivals, Overlap, ForwardAt, Low16, PB!Compete
<1> QED BY <1>2, <1>3

\* No two forwards in force compete for a host endpoint.
THEOREM Exclusivity == Spec => []EndpointsExclusive
BY BookFacts, Agreement, PTL

-----------------------------------------------------------------------------
(***************************************************************************)
(* Ids                                                                     *)
(***************************************************************************)

\* One step keeps ids distinct and below the counter.
LEMMA IdsStep == TypeOK /\ IdsUnique /\ [Next]_vars => IdsUnique'
<1> SUFFICES ASSUME TypeOK, IdsUnique, [Next]_vars, ~wrapped'
             PROVE  /\ hostfwds_nextid' > 0
                    /\ \A e \in hostfwds' : e.id \in 1 .. hostfwds_nextid' - 1
                    /\ \A d, e \in hostfwds' : d.id = e.id => d = e
  BY DEF IdsUnique
<1>1. CASE Start
  BY <1>1 DEF Start
<1>2. CASE Gone
  BY <1>2 DEF Gone, IdsUnique
<1>3. CASE UNCHANGED Table
  BY <1>3 DEF Table, IdsUnique
<1>4. ASSUME NEW r \in Request, AddSucceeds(r)
      PROVE  /\ hostfwds_nextid' > 0
             /\ \A e \in hostfwds' : e.id \in 1 .. hostfwds_nextid' - 1
             /\ \A d, e \in hostfwds' : d.id = e.id => d = e
  <2>1. NextId /\ hostfwds' = hostfwds \cup {NewHostfwd(r)}
    BY <1>4 DEF AddSucceeds
  <2>2. ~wrapped /\ hostfwds_nextid # IntMax
    BY <2>1 DEF NextId
  <2>3. hostfwds_nextid' = hostfwds_nextid + 1
    BY <2>1, <2>2 DEF NextId
  <2>4. NewHostfwd(r).id = hostfwds_nextid
    BY DEF NewHostfwd, Filled
  <2>5. hostfwds_nextid \in Int
    BY DEF TypeOK, CInt, IntMin
  <2>6. /\ hostfwds_nextid > 0
        /\ \A e \in hostfwds : e.id \in 1 .. hostfwds_nextid - 1
        /\ \A d, e \in hostfwds : d.id = e.id => d = e
    BY <2>2 DEF IdsUnique
  <2> QED BY <2>1, <2>3, <2>4, <2>5, <2>6
<1>5. ASSUME NEW r \in Request, RemoveSucceeds(r)
      PROVE  /\ hostfwds_nextid' > 0
             /\ \A e \in hostfwds' : e.id \in 1 .. hostfwds_nextid' - 1
             /\ \A d, e \in hostfwds' : d.id = e.id => d = e
  <2>1. hostfwds' \subseteq hostfwds /\ UNCHANGED <<hostfwds_nextid, wrapped>>
    BY <1>5 DEF RemoveSucceeds
  <2> QED BY <2>1 DEF IdsUnique
<1>6. CASE UNCHANGED vars
  BY <1>3, <1>6 DEF vars, Table
<1>7. ASSUME NEW r \in Request, Handle(r)
      PROVE  Gone \/ UNCHANGED Table \/ AddSucceeds(r) \/ RemoveSucceeds(r)
  BY <1>7 DEF Handle, BadRequest, AddWithoutProto, AddRejected, AddFails, List,
              RemoveUnknown, RemoveFails
<1> QED BY <1>1, <1>2, <1>3, <1>4, <1>5, <1>6, <1>7 DEF Next, Stop

\* An id names one forward, and a new one names none that is listed.
THEOREM UniqueIds == Spec => []IdsUnique
<1>1. Init => IdsUnique
  BY DEF Init, IdsUnique
<1> QED BY <1>1, IdsStep, TypeCorrect, PTL DEF Spec

-----------------------------------------------------------------------------
(***************************************************************************)
(* HostFwd implements PortBook                                             *)
(***************************************************************************)

\* The counter gives out, as PortBook asks, a new id until all are used.
LEMMA IssueStep ==
  ASSUME TypeOK, IdsUnique, NextId
  PROVE  PB!Issue(hostfwds_nextid)
<1>1. hostfwds_nextid \in Int /\ hostfwds_nextid <= IntMax /\ IntMax \in Nat
  BY Widths DEF TypeOK, CInt, IntMin
<1>2. CASE wrapped
  <2>1. Issued = 1 .. IntMax /\ Issued' = 1 .. IntMax
    BY <1>2 DEF NextId, Issued
  <2> QED BY <2>1 DEF PB!Issue
<1>3. CASE ~wrapped
  <2>1. hostfwds_nextid > 0 /\ Issued = 1 .. hostfwds_nextid - 1
    BY <1>3 DEF IdsUnique, Issued
  <2>2. CASE hostfwds_nextid = IntMax
    <3>1. wrapped'
      BY <2>2 DEF NextId
    <3>2. Issued' = 1 .. IntMax
      BY <3>1 DEF Issued
    <3> QED BY <1>1, <2>1, <2>2, <3>2 DEF PB!Issue
  <2>3. CASE hostfwds_nextid # IntMax
    <3>1. ~wrapped' /\ hostfwds_nextid' = hostfwds_nextid + 1
      BY <1>3, <2>3 DEF NextId
    <3>2. Issued' = 1 .. hostfwds_nextid
      BY <1>1, <3>1 DEF Issued
    <3> QED BY <1>1, <2>1, <2>3, <3>2 DEF PB!Issue
  <2> QED BY <2>2, <2>3
<1> QED BY <1>2, <1>3

\* Every step of the handlers is a step of the book, or leaves it alone.
LEMMA BookStep ==
  AgreeInv /\ IdsUnique /\ [Next]_vars => [PB!Next]_(PB!bookvars)
<1> SUFFICES ASSUME AgreeInv, IdsUnique, [Next]_vars
             PROVE  PB!Next \/ UNCHANGED <<Book, Issued>>
  BY DEF PB!bookvars
<1>0. TypeOK /\ AgreeInv'
  BY AgreeStep DEF AgreeInv
<1>1. Book = {e \in hostfwds : Proper(e)}
  BY BookFacts
<1>2. Book' = {e \in hostfwds' : Proper(e)}
  <2>1. \A e \in hostfwds' : Found(e)' # {} <=> Proper(e)
    <3> SUFFICES ASSUME NEW e \in hostfwds' PROVE Found(e)' # {} <=> Proper(e)
      OBVIOUS
    <3>1. IF Low16(e.host_port) = 0 THEN Found(e)' = {}
          ELSE Found(e)' = ForwardsFor(e)
      BY <1>0 DEF AgreeInv, ListedIsServed
    <3>2. e \in Hostfwd
      BY <1>0 DEF AgreeInv, TypeOK
    <3> QED BY <3>1, <3>2, OneForward DEF Proper
  <2> QED BY <2>1 DEF Book
<1>3. CASE Start
  <2>1. Book' = {} /\ Issued' = {}
    BY <1>3 DEF Start, Book, Issued
  <2> QED BY <2>1 DEF PB!Next, PB!Close
<1>4. CASE Gone
  <2>1. Book' = {} /\ Issued' = Issued
    BY <1>4 DEF Gone, Book, Issued
  <2> QED BY <2>1 DEF PB!Next, PB!Close
<1>5. CASE UNCHANGED Table
  BY <1>5 DEF Table, Book, Issued, Found
<1>6. ASSUME NEW r \in Request, AddSucceeds(r) PROVE PB!Next
  <2> DEFINE n == NewHostfwd(r)
  <2>1. hostfwds' = hostfwds \cup {n} /\ NextId
    BY <1>6 DEF AddSucceeds
  <2>2. n.id = hostfwds_nextid /\ n \in {Filled(q, i) : q \in Asked, i \in CInt}
    <3>1. r \in Asked /\ hostfwds_nextid \in CInt
      BY <1>0, <1>6 DEF AddSucceeds, Asked, TypeOK
    <3>2. n \in {Filled(q, i) : q \in Asked, i \in CInt}
      BY <3>1 DEF NewHostfwd
    <3>3. n.id = hostfwds_nextid
      BY DEF NewHostfwd, Filled
    <3> QED BY <3>2, <3>3
  <2>3. PB!Issue(n.id)
    BY <1>0, <2>1, <2>2, IssueStep
  <2>4. CASE Proper(n)
    <3>1. Book' = Book \cup {n}
      BY <1>1, <1>2, <2>1, <2>4
    <3>2. n \notin hostfwds
      <4>1. PICK f \in ForwardsFor(n) : \A g \in slirp : ~Overlap(f, g)
        BY <1>6 DEF AddSucceeds
      <4>2. n \in Hostfwd
        BY <1>0, <2>1 DEF TypeOK, AgreeInv
      <4>3. f = ForwardAt(n, Low16(n.host_port))
        BY <2>4, <4>1, <4>2, OneForward DEF Proper
      <4>4. f \notin slirp
        BY <4>1 DEF Overlap
      <4> QED BY <2>4, <4>3, <4>4, Served
    <3>3. \A d \in Book : ~PB!Compete(d, n)
      <4>1. EndpointsExclusive'
        <5>1. \A d, e \in hostfwds' : Proper(d) /\ Proper(e) /\ d # e => ~Rivals(d, e)
          BY <1>0 DEF AgreeInv, Proper, Rivals, Overlap, ForwardAt, Low16
        <5> QED BY <1>2, <5>1 DEF EndpointsExclusive, PB!Exclusive, PB!Compete,
                                  Rivals, Overlap, ForwardAt, Low16
      <4>2. \A d \in Book : d \in Book' /\ n \in Book' /\ d # n
        BY <1>1, <3>1, <3>2
      <4> QED BY <4>1, <4>2 DEF EndpointsExclusive, PB!Exclusive, PB!Compete
    <3> QED BY <2>2, <2>3, <3>1, <3>3 DEF PB!Next, PB!Expose
  <2>5. CASE ~Proper(n)
    <3>1. Book' = Book
      BY <1>1, <1>2, <2>1, <2>5
    <3> QED BY <2>2, <2>3, <3>1 DEF PB!Next, PB!Waste
  <2> QED BY <2>4, <2>5
<1>7. ASSUME NEW r \in Request, RemoveSucceeds(r) PROVE PB!Next
  <2>1. PICK e \in hostfwds : Found(e) # {} /\ hostfwds' = hostfwds \ {e}
    BY <1>7 DEF RemoveSucceeds
  <2>2. e \in Book /\ Book' = Book \ {e}
    BY <1>1, <1>2, <2>1 DEF Book
  <2>3. Issued' = Issued
    BY <1>7 DEF RemoveSucceeds, Issued
  <2> QED BY <2>2, <2>3 DEF PB!Next, PB!Withdraw
<1>8. CASE UNCHANGED vars
  BY <1>5, <1>8 DEF vars, Table
<1>9. ASSUME NEW r \in Request, Handle(r)
      PROVE  Gone \/ UNCHANGED Table \/ AddSucceeds(r) \/ RemoveSucceeds(r)
  BY <1>9 DEF Handle, BadRequest, AddWithoutProto, AddRejected, AddFails, List,
              RemoveUnknown, RemoveFails
<1> QED BY <1>3, <1>4, <1>5, <1>6, <1>7, <1>8, <1>9 DEF Next, Stop

\* The handlers of api.c implement the book of exposed endpoints.
THEOREM Refinement == Spec => ImplementsPortBook
<1>1. Init => PB!Init
  BY DEF Init, PB!Init, Book, Issued
<1> QED BY <1>1, Agreement, UniqueIds, BookStep, PTL
        DEF Spec, ImplementsPortBook, PB!Spec

=============================================================================
