------------------------------- MODULE HostFwd -------------------------------
(***************************************************************************)
(* The port-forwarding service of api.c: the context `struct api_ctx`, its *)
(* list of forwards `hostfwds`, and the handlers of the three requests     *)
(* add_hostfwd, list_hostfwd and remove_hostfwd, together with the         *)
(* forwards that libslirp itself keeps (external: slirp_add_hostfwd and    *)
(* slirp_remove_hostfwd, modelled from how api.c calls them).              *)
(*                                                                         *)
(* One step handles one request, as api_handle_req does: slirp4netns is    *)
(* single threaded and nothing else runs while a handler does.  The list   *)
(* is a set here: its order shows in the text of a reply and, once ids     *)
(* repeat, in which of two equal ids a removal finds first; both are       *)
(* allowed here.                                                           *)
(***************************************************************************)
EXTENDS Integers

CONSTANTS
  Addr,      \* the IPv4 addresses inet_pton can produce
  AnyAddr,   \* 0.0.0.0
  VGuest,    \* cfg->recommended_vguest
  PortMod,   \* 2^16: ports are 16 bits wide on the wire
  IntMax,    \* INT_MAX
  Request    \* the JSON documents that clients send

IntMin == -IntMax - 1
CInt   == IntMin .. IntMax
PortNo == 0 .. PortMod - 1

(***************************************************************************)
(* A JSON document, as parson presents it to the handlers.  Form is what   *)
(* api_handle_req tells apart before it dispatches; the string "null" is   *)
(* the NULL that json_object_dotget_string returns for an absent member.   *)
(* A number counts halves, so that the cast to int has something to drop;  *)
(* an absent number is 0, as json_object_dotget_number has it.             *)
(***************************************************************************)
Form == {"not JSON", "not an object", "no execute", "unknown execute",
         "add_hostfwd", "list_hostfwd", "remove_hostfwd"}
Text == Addr \cup {"null", "", "junk"}

Document ==
  [form : Form, proto : {"tcp", "udp", "sctp", "null"},
   host_addr : Text, host_port : Int, guest_addr : Text, guest_port : Int,
   id : Int]

\* (int) of a double: the fraction is dropped, towards zero.
ToInt(halves) == IF halves >= 0 THEN halves \div 2 ELSE -((-halves) \div 2)

ASSUME HostFwdAssumption ==
  /\ {AnyAddr, VGuest} \subseteq Addr
  /\ {"null", "", "junk"} \cap Addr = {}
  /\ PortMod \in Nat /\ PortMod > 1
  /\ IntMax \in Nat /\ IntMax > 0
  /\ Request \subseteq Document
  /\ \A r \in Request :
       {ToInt(r.host_port), ToInt(r.guest_port), ToInt(r.id)} \subseteq CInt

VARIABLES
  up,              \* the process runs and has an api_ctx
  hostfwds,        \* ctx->hostfwds
  hostfwds_nextid, \* ctx->hostfwds_nextid
  slirp,           \* the host forwards libslirp serves
  reply,           \* the JSON the last handled request was answered with
  wrapped          \* history: hostfwds_nextid has overflowed since Start

vars == <<up, hostfwds, hostfwds_nextid, slirp, reply, wrapped>>

Flag == {0, 1}

\* struct api_hostfwd
Hostfwd == [id : CInt, is_udp : Flag, host_addr : Addr, host_port : CInt,
            guest_addr : Addr, guest_port : CInt]

\* A forward inside libslirp: its ports are real, 16-bit ones.
Forward == [is_udp : Flag, host_addr : Addr, host_port : PortNo,
            guest_addr : Addr, guest_port : PortNo]

(***************************************************************************)
(* Replies: the one top-level member of the JSON object and what is in it. *)
(***************************************************************************)
Desc == {"", "cannot parse JSON", "json_object() failed", "no execute found",
         "unknown execute", "bad arguments.proto", "bad arguments.host_addr",
         "bad arguments.host_port", "bad arguments.guest_addr",
         "bad arguments.guest_port", "slirp_add_hostfwd failed",
         "bad arguments.id", "slirp_remove_hostfwd failed", "too large message"}

Reply == [top : {"nothing", "error", "return", "entries"}, desc : Desc,
          id : CInt, entries : SUBSET Hostfwd]

NoReply      == [top |-> "nothing", desc |-> "", id |-> 0, entries |-> {}]
Error(d)     == [NoReply EXCEPT !.top = "error", !.desc = d]
ReturnId(i)  == [NoReply EXCEPT !.top = "return", !.id = i]
ReturnOk     == [NoReply EXCEPT !.top = "return"]
\* list_hostfwd puts "entries" at the top level, not inside "return".
Entries(fs)  == [NoReply EXCEPT !.top = "entries", !.entries = fs]

-----------------------------------------------------------------------------
(***************************************************************************)
(* libslirp and the host kernel (external).                                *)
(***************************************************************************)
Low16(n) == n % PortMod

\* The host refuses a second socket on the same endpoint; 0.0.0.0 covers
\* every address.
Overlap(f, g) ==
  /\ f.is_udp = g.is_udp
  /\ f.host_port = g.host_port
  /\ f.host_addr = g.host_addr \/ AnyAddr \in {f.host_addr, g.host_addr}

\* The forward for entry e on host port p.
ForwardAt(e, p) ==
  [is_udp |-> e.is_udp, host_addr |-> e.host_addr, host_port |-> p,
   guest_addr |-> e.guest_addr, guest_port |-> Low16(e.guest_port)]

\* What slirp_add_hostfwd can set up for e.  Binding to port 0 makes the
\* kernel choose a port.
ForwardsFor(e) ==
  {ForwardAt(e, p) : p \in IF Low16(e.host_port) = 0 THEN PortNo \ {0}
                                                     ELSE {Low16(e.host_port)}}

\* The sockets slirp_remove_hostfwd(is_udp, host_addr, host_port) finds.
Found(e) == {f \in slirp : /\ f.is_udp = e.is_udp
                           /\ f.host_addr = e.host_addr
                           /\ f.host_port = Low16(e.host_port)}

-----------------------------------------------------------------------------
(***************************************************************************)
(* add_hostfwd                                                             *)
(***************************************************************************)
HostAddr(r)  == IF r.host_addr \in {"null", ""} THEN AnyAddr ELSE r.host_addr
GuestAddr(r) == IF r.guest_addr \in {"null", ""} THEN VGuest ELSE r.guest_addr

\* The first argument check that fails; the handler returns there.
AddError(r) ==
  IF r.proto \notin {"tcp", "udp"} THEN "bad arguments.proto"
  ELSE IF HostAddr(r) \notin Addr THEN "bad arguments.host_addr"
  ELSE IF ToInt(r.host_port) = 0 THEN "bad arguments.host_port"
  ELSE IF GuestAddr(r) \notin Addr THEN "bad arguments.guest_addr"
  ELSE IF ToInt(r.guest_port) = 0 THEN "bad arguments.guest_port"
  ELSE ""

\* The entry that add_hostfwd fills in from r.
Filled(r, i) ==
  [id |-> i, is_udp |-> IF r.proto = "udp" THEN 1 ELSE 0,
   host_addr |-> HostAddr(r), host_port |-> ToInt(r.host_port),
   guest_addr |-> GuestAddr(r), guest_port |-> ToInt(r.guest_port)]

NewHostfwd(r) == Filled(r, hostfwds_nextid)

\* Bugs that could be here: a counter that never wraps, or never moves.
NextId_Unbounded == /\ hostfwds_nextid' = hostfwds_nextid + 1
                    /\ UNCHANGED wrapped
NextId_Missing == UNCHANGED <<hostfwds_nextid, wrapped>>

\* hostfwds_nextid++ on a 32-bit int, which wraps around.
NextId == /\ hostfwds_nextid' = IF hostfwds_nextid = IntMax
                                THEN IntMin ELSE hostfwds_nextid + 1
          /\ wrapped' = (wrapped \/ hostfwds_nextid = IntMax)

Table == <<up, hostfwds, hostfwds_nextid, slirp, wrapped>>

\* The process is gone: its list with it, and the kernel closes its sockets.
Gone == /\ up' = FALSE
        /\ hostfwds' = {}
        /\ slirp' = {}
        /\ reply' = NoReply
        /\ UNCHANGED <<hostfwds_nextid, wrapped>>

\* strcmp(proto_s, "udp") with proto_s = NULL faults before any check.
AddWithoutProto(r) ==
  /\ r.form = "add_hostfwd"
  /\ r.proto = "null"
  /\ Gone

AddRejected(r) ==
  /\ r.form = "add_hostfwd"
  /\ r.proto # "null"
  /\ AddError(r) # ""
  /\ reply' = Error(AddError(r))
  /\ UNCHANGED Table

\* A bug that could be here: the result of slirp_add_hostfwd is not looked at.
AddFails_KeepsEntry(r) ==
  /\ r.form = "add_hostfwd"
  /\ AddError(r) = ""
  /\ hostfwds' = hostfwds \cup {NewHostfwd(r)}
  /\ NextId
  /\ reply' = ReturnId(hostfwds_nextid)
  /\ UNCHANGED <<up, slirp>>

\* slirp_add_hostfwd < 0: the endpoint is taken, here or by another process
\* of the host, or no socket is left.
AddFails(r) ==
  /\ r.form = "add_hostfwd"
  /\ AddError(r) = ""
  /\ reply' = Error("slirp_add_hostfwd failed")
  /\ UNCHANGED Table

AddSucceeds(r) ==
  /\ r.form = "add_hostfwd"
  /\ AddError(r) = ""
  /\ \E f \in ForwardsFor(NewHostfwd(r)) :
       /\ \A g \in slirp : ~Overlap(f, g)
       /\ slirp' = slirp \cup {f}
  /\ hostfwds' = hostfwds \cup {NewHostfwd(r)}
  /\ NextId
  /\ reply' = ReturnId(hostfwds_nextid)
  /\ UNCHANGED up

-----------------------------------------------------------------------------
(***************************************************************************)
(* list_hostfwd and remove_hostfwd                                         *)
(***************************************************************************)
List(r) ==
  /\ r.form = "list_hostfwd"
  /\ reply' = Entries(hostfwds)
  /\ UNCHANGED Table

RemoveUnknown(r) ==
  /\ r.form = "remove_hostfwd"
  /\ \A e \in hostfwds : e.id # ToInt(r.id)
  /\ reply' = Error("bad arguments.id")
  /\ UNCHANGED Table

\* A bug that could be here: the entry goes although libslirp still serves it.
RemoveFails_DropsEntry(r) ==
  /\ r.form = "remove_hostfwd"
  /\ \E e \in hostfwds : /\ e.id = ToInt(r.id) /\ Found(e) = {}
                         /\ hostfwds' = hostfwds \ {e}
  /\ reply' = Error("slirp_remove_hostfwd failed")
  /\ UNCHANGED <<up, hostfwds_nextid, slirp, wrapped>>

\* slirp_remove_hostfwd < 0: the entry stays.
RemoveFails(r) ==
  /\ r.form = "remove_hostfwd"
  /\ \E e \in hostfwds : e.id = ToInt(r.id) /\ Found(e) = {}
  /\ reply' = Error("slirp_remove_hostfwd failed")
  /\ UNCHANGED Table

\* A bug that could be here: the removal goes by port instead of by id.
RemoveSucceeds_ByPort(r) ==
  /\ r.form = "remove_hostfwd"
  /\ \E e \in hostfwds :
       /\ e.id = ToInt(r.id)
       /\ Found(e) # {}
       /\ slirp' = {f \in slirp : f.host_port # Low16(e.host_port)}
       /\ hostfwds' = {d \in hostfwds : d.host_port # e.host_port}
  /\ reply' = ReturnOk
  /\ UNCHANGED <<up, hostfwds_nextid, wrapped>>

RemoveSucceeds(r) ==
  /\ r.form = "remove_hostfwd"
  /\ \E e \in hostfwds :
       /\ e.id = ToInt(r.id)
       /\ \E f \in Found(e) : slirp' = slirp \ {f}
       /\ hostfwds' = hostfwds \ {e}
  /\ reply' = ReturnOk
  /\ UNCHANGED <<up, hostfwds_nextid, wrapped>>

-----------------------------------------------------------------------------
(***************************************************************************)
(* api_handle_req                                                          *)
(***************************************************************************)
FormError(r) ==
  CASE r.form = "not JSON"        -> "cannot parse JSON"
    [] r.form = "not an object"   -> "json_object() failed"
    [] r.form = "no execute"      -> "no execute found"
    [] r.form = "unknown execute" -> "unknown execute"
    [] OTHER                      -> ""

BadRequest(r) ==
  /\ FormError(r) # ""
  /\ reply' = Error(FormError(r))
  /\ UNCHANGED Table

Handle(r) ==
  /\ up
  /\ \/ BadRequest(r)
     \/ AddWithoutProto(r) \/ AddRejected(r) \/ AddFails(r) \/ AddSucceeds(r)
     \/ List(r)
     \/ RemoveUnknown(r) \/ RemoveFails(r) \/ RemoveSucceeds(r)

\* api_ctx_alloc in a new process.
Start ==
  /\ ~up
  /\ up' = TRUE
  /\ hostfwds' = {}
  /\ hostfwds_nextid' = 1
  /\ slirp' = {}
  /\ reply' = NoReply
  /\ wrapped' = FALSE

\* api_ctx_free and the end of the process, whatever ended it.
Stop == up /\ Gone

Init ==
  /\ up = FALSE
  /\ hostfwds = {}
  /\ hostfwds_nextid = 1
  /\ slirp = {}
  /\ reply = NoReply
  /\ wrapped = FALSE

Next == Start \/ Stop \/ \E r \in Request : Handle(r)

Spec == Init /\ [][Next]_vars

-----------------------------------------------------------------------------
(***************************************************************************)
(* Properties                                                              *)
(***************************************************************************)

\* The variables have the types of struct api_ctx and its list entries.
TypeOK ==
  /\ up \in BOOLEAN
  /\ hostfwds \subseteq Hostfwd
  /\ hostfwds_nextid \in CInt
  /\ slirp \subseteq Forward
  /\ reply \in Reply
  /\ wrapped \in BOOLEAN

\* Every listed forward is served: libslirp holds exactly the forward that the
\* entry describes, so remove_hostfwd on it succeeds, unless its host port is
\* a multiple of 2^16; such an entry passes the `host_port == 0` check of
\* add_hostfwd and can never be removed again.
ListedIsServed ==
  \A e \in hostfwds : IF Low16(e.host_port) = 0 THEN Found(e) = {}
                      ELSE Found(e) = ForwardsFor(e)

\* libslirp serves no forward that list_hostfwd does not show: no sequence of
\* failed additions, failed removals and restarts leaves an orphan socket.
ServedIsListed ==
  \A f \in slirp : \E e \in hostfwds : f \in ForwardsFor(e)

\* Ids come from one counter: a listed id was handed out by this process, no
\* two listed forwards share it, and the next one is new, up to the overflow
\* of hostfwds_nextid.  So remove_hostfwd removes what its caller added.
IdsUnique ==
  ~wrapped => /\ hostfwds_nextid > 0
              /\ \A e \in hostfwds : e.id \in 1 .. hostfwds_nextid - 1
              /\ \A d, e \in hostfwds : d.id = e.id => d = e

-----------------------------------------------------------------------------
(***************************************************************************)
(* HostFwd implements PortBook.  The book holds the entries that libslirp  *)
(* really serves on the port they name; the ids given out are those below  *)
(* the counter.                                                            *)
(***************************************************************************)
Book == {e \in hostfwds : Found(e) # {}}
Asked == {r \in Request : r.form = "add_hostfwd" /\ AddError(r) = ""}
Issued == IF wrapped THEN 1 .. IntMax ELSE 1 .. hostfwds_nextid - 1

PB == INSTANCE PortBook WITH book <- Book, issued <- Issued,
                             Id <- 1 .. IntMax,
                             Entry <- {Filled(r, i) : r \in Asked, i \in CInt}

\* Two forwards in force never compete for one host endpoint: same protocol,
\* same 16-bit port and addresses that cover each other, whatever numbers the
\* clients wrote for the ports.
EndpointsExclusive == PB!Exclusive

\* What a client may rely on: the three handlers together behave like a
\* register of exclusive endpoints, each under an id of its own, in which an
\* entry appears and disappears only by a request that names it.
ImplementsPortBook == PB!Spec

=============================================================================
