------------------------------- MODULE Config -------------------------------
(***************************************************************************)
(* What main makes of its command line: parse_args, then                   *)
(* slirp4netns_config_from_options.                                        *)
(*                                                                         *)
(* A command line is a record.  An option that takes an argument is <<>>   *)
(* if it is not given and <<arg>> if it is; the last of several counts.  A *)
(* number is the integer that the text stands for: a text that is not a    *)
(* number is put among those that do not fit in a long, as strtol and its  *)
(* callers reject both.  A CIDR is what the regular expression finds in    *)
(* it, and a MAC address the sequence of the fields between its colons.    *)
(***************************************************************************)
EXTENDS Integers, Sequences

CONSTANTS
  WIDTH,            \* bits of an IPv4 address
  INT_MOD,          \* values of an int
  LONG_MAX,
  MTU_MAX, DEFAULT_MTU,
  DEFAULT_NETWORK, DEFAULT_PREFIX  \* DEFAULT_CIDR

Address == 0 .. 2^WIDTH - 1
Size(prefix) == 2^(WIDTH - prefix)

DEFAULT_VHOST_OFFSET       == 2
DEFAULT_VDHCPSTART_OFFSET  == 15
DEFAULT_VNAMESERVER_OFFSET == 3
DEFAULT_RECOMMENDED_VGUEST_OFFSET == 100
NB_BOOTP_CLIENTS   == 16
NETWORK_PREFIX_MIN == 1

\* A bug that could be here: one more.
NETWORK_PREFIX_MAX_26 == WIDTH - 6

\* 25 of 32.
NETWORK_PREFIX_MAX == WIDTH - 7

\* What is used of the powers of two: from 128 on, they divide each other.
ASSUME WidthAssumption ==
  /\ WIDTH \in Nat /\ WIDTH > 7 /\ 2^WIDTH \in Nat
  /\ \A p \in 1 .. WIDTH - 7 :
       Size(p) \in Nat /\ Size(p) >= 128 /\ 2^WIDTH % Size(p) = 0

ASSUME NumberAssumption ==
  /\ INT_MOD \in Nat /\ INT_MOD > 0 /\ INT_MOD % 2 = 0
  /\ LONG_MAX \in Nat /\ MTU_MAX \in Nat
  /\ DEFAULT_MTU \in 1 .. MTU_MAX
  /\ DEFAULT_PREFIX \in 1 .. WIDTH - 7
  /\ DEFAULT_NETWORK \in Address /\ DEFAULT_NETWORK % Size(DEFAULT_PREFIX) = 0

-----------------------------------------------------------------------------
(***************************************************************************)
(* parse_args                                                              *)
(***************************************************************************)
\* The assignment of a long to an int and to an unsigned int.
ToInt(n)      == ((n + INT_MOD \div 2) % INT_MOD) - INT_MOD \div 2
ToUnsigned(n) == n % INT_MOD

Strtol(n) == n \in -LONG_MAX - 1 .. LONG_MAX

\* A bug that could be here: the long is checked, the int is used.
NumberFrom_Long(min, n) == Strtol(n) /\ n >= min

\* exit_fd, ready_fd, target_pid and tapfd.
NumberFrom(min, n) == Strtol(n) /\ ToInt(n) >= min

MtuNumber(n) == Strtol(n) /\ ToUnsigned(n) \in 1 .. MTU_MAX

Given(o)    == o # <<>>
Or(o, dflt) == IF o = <<>> THEN dflt ELSE o[1]

\* The loop over getopt_long and the check of --macaddress after it.
OptionsAccepted(a) ==
  /\ \A o \in {a.exit_fd, a.ready_fd} : Given(o) => NumberFrom(0, o[1])
  /\ Given(a.mtu) => MtuNumber(a.mtu[1])
  /\ a.userns_path # "missing"
  /\ Given(a.macaddress) => a.config

Target(a) == IF a.target_type = "bess" THEN "bess"
             ELSE IF a.netns_type \in {"none", "pid"} THEN "pid"
             ELSE IF a.netns_type = "tapfd" THEN "tapfd" ELSE "path"

\* The arguments that are no options: how many, and what the first one is.
TargetAccepted(a) ==
  CASE Target(a) = "bess"  -> /\ a.argc = 1
                              /\ ~a.config /\ a.netns_type = "none"
                              /\ a.userns_path = "none"
    [] Target(a) = "pid"   -> a.argc >= 2 /\ NumberFrom(1, a.number)
    [] Target(a) = "tapfd" -> a.argc >= 1 /\ NumberFrom(0, a.number)
    [] Target(a) = "path"  -> a.argc >= 2 /\ a.exists

Accepted(a) == /\ OptionsAccepted(a)
               /\ a.target_type \in {"none", "netns", "bess"}
               /\ TargetAccepted(a)

options_init ==
  [target |-> "none", target_pid |-> 0, tapfd |-> -1, exit_fd |-> -1, ready_fd |-> -1,
   mtu |-> DEFAULT_MTU, userns_path |-> FALSE, config |-> FALSE, sandbox |-> FALSE,
   cidr |-> <<>>, outbound_addr |-> "none", outbound_addr6 |-> "none",
   macaddress |-> <<>>]

\* The options of a command line that is accepted.
parse_args(a) ==
  [target      |-> Target(a),
   target_pid  |-> IF Target(a) = "pid" THEN ToInt(a.number) ELSE 0,
   tapfd       |-> IF Target(a) = "tapfd" THEN ToInt(a.number) ELSE -1,
   exit_fd     |-> IF Given(a.exit_fd) THEN ToInt(a.exit_fd[1]) ELSE -1,
   ready_fd    |-> IF Given(a.ready_fd) THEN ToInt(a.ready_fd[1]) ELSE -1,
   mtu         |-> IF Given(a.mtu) THEN ToUnsigned(a.mtu[1]) ELSE DEFAULT_MTU,
   userns_path |-> a.userns_path = "exists",
   config      |-> a.config, sandbox |-> a.sandbox, cidr |-> a.cidr,
   outbound_addr |-> a.outbound_addr, outbound_addr6 |-> a.outbound_addr6,
   macaddress  |-> a.macaddress]

-----------------------------------------------------------------------------
(***************************************************************************)
(* slirp4netns_config_from_options                                         *)
(***************************************************************************)
\* The regular expression, inet_pton, the prefix, and no bit of the network below
\* the netmask.
CidrAccepted(c) ==
  /\ c.matches /\ c.network \in Address
  /\ c.prefix \in NETWORK_PREFIX_MIN .. NETWORK_PREFIX_MAX
  /\ c.network % Size(c.prefix) = 0

\* parse_cidr: ~((1 << (32 - prefix)) - 1); for /1 the shift overflows an int, and
\* wraps in the builds.
Netmask(prefix) == 2^WIDTH - Size(prefix)

\* ntohl, +, htonl.
Offset(network, n) == (network + n) % 2^WIDTH

Cidr(o) == Or(o.cidr, [matches |-> TRUE, network |-> DEFAULT_NETWORK,
                       prefix |-> DEFAULT_PREFIX])

\* A bug that could be here: the family of an address is not looked at.
get_interface_addr_AnyFamily(ifs, interface, family) ==
  interface \in DOMAIN ifs /\ ifs[interface] # {}

\* The first address of that family and interface: whether there is one.
get_interface_addr(ifs, interface, family) ==
  interface \in DOMAIN ifs /\ family \in ifs[interface]

\* The interface that is looked up for --outbound-addr6 is opt->outbound_addr.
Outbound6Interface(o) == o.outbound_addr

OutboundAccepted(o, ifs) ==
  /\ \/ o.outbound_addr \in {"none", "literal"}
     \/ get_interface_addr(ifs, o.outbound_addr, "IPv4")
  /\ \/ o.outbound_addr6 \in {"none", "literal"}
     \/ get_interface_addr(ifs, Outbound6Interface(o), "IPv6")

\* slirp4netns_macaddr_hexstring_to_data: fields are read until there is no further
\* colon; a seventh is too many, fewer than six are not too few.
MacAccepted(mac) == Len(mac) \in 1 .. 6 /\ \A k \in 1 .. Len(mac) : mac[k] \in 0 .. 255

ConfigAccepted(o, ifs) ==
  /\ CidrAccepted(Cidr(o))
  /\ OutboundAccepted(o, ifs)
  /\ Given(o.macaddress) => MacAccepted(o.macaddress[1])

slirp4netns_config_from_options(o) ==
  LET net == Cidr(o).network
      mac == Or(o.macaddress, <<>>)
  IN  [mtu      |-> o.mtu,
       vnetwork |-> net,
       vnetmask |-> Netmask(Cidr(o).prefix),
       vhost    |-> Offset(net, DEFAULT_VHOST_OFFSET),
       vdhcp_start |-> Offset(net, DEFAULT_VDHCPSTART_OFFSET),
       vdhcp_end   |-> Offset(net, DEFAULT_VDHCPSTART_OFFSET + NB_BOOTP_CLIENTS - 1),
       vnameserver |-> Offset(net, DEFAULT_VNAMESERVER_OFFSET),
       recommended_vguest |-> Offset(net, DEFAULT_RECOMMENDED_VGUEST_OFFSET),
       outbound_addr  |-> o.outbound_addr,
       outbound_addr6 |-> IF o.outbound_addr6 \in {"none", "literal"}
                          THEN o.outbound_addr6 ELSE Outbound6Interface(o),
       vmacaddress_len |-> Len(mac),
       vmacaddress |-> [k \in 1 .. 6 |-> IF k \in DOMAIN mac THEN mac[k] ELSE 0]]
=============================================================================
