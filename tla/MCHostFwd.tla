------------------------------ MODULE MCHostFwd ------------------------------
(***************************************************************************)
(* HostFwd on three port numbers (ports 1 and 2; 3 is 0 again and -2 is    *)
(* 1) and an id counter that overflows after a few additions.              *)
(***************************************************************************)
EXTENDS HostFwd

MCAddr == {"any", "lo", "guest"}

Empty == [form |-> "list_hostfwd", proto |-> "null", host_addr |-> "null",
          host_port |-> 0, guest_addr |-> "null", guest_port |-> 0, id |-> 0]

Add(proto, haddr, hport, gaddr, gport) ==
  [Empty EXCEPT !.form = "add_hostfwd", !.proto = proto, !.host_addr = haddr,
                !.host_port = hport, !.guest_addr = gaddr, !.guest_port = gport]

Good == {Add("tcp", "", 2, "", 3), Add("tcp", "lo", -4, "null", 2),
         Add("tcp", "lo", 6, "guest", 2), Add("udp", "null", 2, "guest", 2)}

Bad == {Add("null", "lo", 2, "guest", 2), Add("tcp", "lo", 1, "guest", 2)}

MCRequest ==
  Good \cup Bad
    \cup {[Empty EXCEPT !.form = f] : f \in {"not JSON", "list_hostfwd"}}
    \cup {[Empty EXCEPT !.form = "remove_hostfwd", !.id = i] :
            i \in {2 * n : n \in CInt} \cup {-3, 3}}

=============================================================================
