----------------------------- MODULE MCApiServer -----------------------------
(***************************************************************************)
(* ApiServer with one usable port, a buffer of three units and requests of *)
(* one, two and three units.                                               *)
(***************************************************************************)
EXTENDS ApiServer

MCAddr == {"any", "guest"}

Add(proto) == [Garbled EXCEPT !.form = "add_hostfwd", !.proto = proto,
                              !.host_port = 2, !.guest_port = 2]
List   == [Garbled EXCEPT !.form = "list_hostfwd"]
Remove == [Garbled EXCEPT !.form = "remove_hostfwd", !.id = 2]

\* An addition padded to the size of the buffer.
Padded == [Add("udp") EXCEPT !.host_addr = "guest"]

\* One request that can be cut short, one that fits a unit, one too large.
FewRequests == {Add("tcp"), Padded, List}

\* A fault and a request that survives it.
FaultRequests == {Add("null"), List}

\* And a fault, and a removal.
SomeRequests == FewRequests \cup {Add("null"), Remove}

\* The first client makes every request, the second adds a forward.
MCWants == [c \in Client |-> IF c = "c1" THEN Request ELSE Request \cap {Add("tcp")}]

\* In units: the other additions and removals are of two.
MCSize == [r \in SomeRequests |->
             IF r = Padded THEN BUFLEN
             ELSE IF r.form \in {"add_hostfwd", "remove_hostfwd"} THEN 2 ELSE 1]

=============================================================================
