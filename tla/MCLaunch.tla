------------------------------ MODULE MCLaunch ------------------------------
(***************************************************************************)
(* Launch on addresses of a few bits, ints of four, and command lines that *)
(* each differ from a plain one in one respect, right or wrong.            *)
(***************************************************************************)
EXTENDS Launch

\* slirp4netns -c -e 1 PID tap0, with both families of address on two interfaces.
Default ==
  [help |-> FALSE, config |-> TRUE, sandbox |-> FALSE, exit_fd |-> <<1>>,
   ready_fd |-> <<>>, mtu |-> <<>>, cidr |-> <<>>, userns_path |-> "none",
   netns_type |-> "none", target_type |-> "none", argc |-> 2, number |-> 1,
   exists |-> TRUE, outbound_addr |-> "none", outbound_addr6 |-> "none",
   macaddress |-> <<>>, root |-> FALSE,
   ifs |-> [eth0 |-> {"IPv4", "IPv6"}, eth1 |-> {"IPv4", "IPv6"}]]

\* Numbers at the edges of the types and of what is accepted.
Number == {-LONG_MAX - 2, 1 - INT_MOD, -1, 0, 1, MTU_MAX, MTU_MAX + 1, INT_MOD \div 2 - 1,
           INT_MOD \div 2, INT_MOD, INT_MOD + MTU_MAX, LONG_MAX + 1}

Outbound == {"none", "literal", "eth0", "eth1", "junk"}

\* A field that is no byte, or not even a number, is 256.
Macs == {[k \in 1 .. n |-> IF k = bad THEN 256 ELSE k] : n \in 1 .. 8, bad \in 0 .. 7}

\* What is tried: targets and namespaces; the arguments; each number; networks;
\* MAC addresses; outbound addresses and what the interfaces have.
MCCommandLine ==
       {[Default EXCEPT !.target_type = t, !.netns_type = n, !.userns_path = u,
                        !.config = c, !.sandbox = s, !.root = r] :
          t \in {"none", "netns", "bess", "other"}, u \in {"none", "exists", "missing"},
          n \in {"none", "pid", "tapfd", "path"}, c, s, r \in BOOLEAN}
  \cup {[Default EXCEPT !.target_type = t, !.netns_type = n, !.argc = k, !.number = i,
                        !.exists = e, !.config = FALSE] :
          t \in {"none", "bess"}, n \in {"none", "tapfd", "path"}, k \in 0 .. 3,
          i \in Number, e \in BOOLEAN}
  \cup {[Default EXCEPT !.exit_fd = <<i>>] : i \in Number}
  \cup {[Default EXCEPT !.ready_fd = <<i>>] : i \in Number}
  \cup {[Default EXCEPT !.mtu = <<i>>, !.help = h] : i \in Number, h \in BOOLEAN}
  \cup {[Default EXCEPT !.cidr = <<[matches |-> m, network |-> n, prefix |-> p]>>] :
          m \in BOOLEAN, n \in Address \cup {-1}, p \in 0 .. WIDTH + 1}
  \cup {[Default EXCEPT !.macaddress = <<m>>, !.config = c] : m \in Macs, c \in BOOLEAN}
  \cup {[Default EXCEPT !.outbound_addr = a, !.outbound_addr6 = b, !.ifs.eth0 = f] :
          a, b \in Outbound, f \in SUBSET {"IPv4", "IPv6"}}

=============================================================================
