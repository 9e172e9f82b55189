-------------------------------- MODULE Launch --------------------------------
(***************************************************************************)
(* main: how the tap device comes to the process that serves it. The       *)
(* command line becomes options and a configuration (module Config). A     *)
(* forked child enters the target's namespaces, opens the device,          *)
(* configures it ioctl by ioctl and sends its fd over a socketpair (or     *)
(* waits for a virtual machine on the BESS socket and sends that           *)
(* connection); the parent waits for the child to exit, receives the fd,   *)
(* takes on the target's user namespace if it is to be sandboxed without   *)
(* being root, and runs do_slirp (module DoSlirp, here one step that       *)
(* ends). Either process may be killed.                                    *)
(***************************************************************************)
EXTENDS Config

CONSTANT CommandLine  \* the command lines, as in Config, and what they meet:
                      \* root, whether main is started as root, and ifs, the
                      \* families of addresses of each network interface

ASSUME CommandLineAssumption ==
  \A a \in CommandLine :
    /\ a.help \in BOOLEAN /\ a.root \in BOOLEAN
    /\ a.config \in BOOLEAN /\ a.sandbox \in BOOLEAN
    /\ a.number \in Int
    /\ \A o \in {a.exit_fd, a.ready_fd, a.mtu} : Given(o) => o[1] \in Int
    /\ Given(a.macaddress) => a.macaddress[1] \in Seq(Int)
    /\ {"none", "literal"} \cap DOMAIN a.ifs = {}

VARIABLES
  argv,    \* the command line
  opt, cfg, \* struct options and struct slirp4netns_config
  ppc,     \* the parent's next call, or "exited"
  cpc,     \* the child's next call, "none" before fork, "dead" after its end
  wstatus, \* the child's wait status: "none", "0", "1" or "signal"
  msg,     \* what is in the socketpair: "empty" or "fd"
  cns,     \* the namespaces the child has entered
  tap,     \* the network namespace of the device, and its configuration there
  puser,   \* the parent's user namespace
  euid0,   \* whether the parent's effective uid is 0 there
  status,  \* the exit status of main: "none", "0", "1" or "signal"
  hup,     \* the exit fd has been hung up
  vm       \* the virtual machine has connected to the BESS socket

vars == <<argv, opt, cfg, ppc, cpc, wstatus, msg, cns, tap, puser, euid0, status, hup,
          vm>>

input == <<argv, opt, cfg>>

\* The user namespace nsenter(target_pid, _, userns, _) goes for.
Userns(given) == IF given THEN "given"
                 ELSE IF opt.target = "pid" THEN "target" ELSE "none"

parent_vars == <<ppc, puser, euid0, status>>
child_vars  == <<cpc, wstatus, msg, cns, tap>>

-----------------------------------------------------------------------------
(***************************************************************************)
(* The child                                                               *)
(***************************************************************************)
Child(from, to) == cpc = from /\ cpc' = to

Ioctls == {"lo", "up", "mtu", "mac", "addr", "netmask", "route"}

\* exit(EXIT_FAILURE) from wherever a call of the child fails.
ChildFails ==
  /\ cpc \in {"nsenter", "netns", "open_tap", "send", "listen", "accept"} \cup Ioctls
  /\ cpc' = "dead"
  /\ wstatus' = "1"
  /\ UNCHANGED <<msg, cns, tap>>

\* nsenter: a failure to enter the user namespace is not one of the child.
EnterUserns ==
  /\ Child("nsenter", "netns")
  /\ cns' \in {cns, cns \cup ({Userns(opt.userns_path)} \ {"none"})}
  /\ UNCHANGED <<wstatus, msg, tap>>

\* A bug that could be here: neither is a failure to enter the network's.
EnterNetns_Optional ==
  /\ Child("netns", "open_tap")
  /\ cns' \in {cns, cns \cup {"net"}}
  /\ UNCHANGED <<wstatus, msg, tap>>

EnterNetns ==
  /\ Child("netns", "open_tap")
  /\ cns' = cns \cup {"net"}
  /\ UNCHANGED <<wstatus, msg, tap>>

\* A device that is new; up is which of lo and it are up, -1 no number or address.
NewTap(ns) == [ns |-> ns, up |-> {}, mtu |-> -1, mac |-> <<>>, addr |-> -1,
               netmask |-> -1, gateway |-> -1]

OpenTap ==
  /\ Child("open_tap", IF opt.config THEN "lo" ELSE "send")
  /\ tap' = NewTap(IF "net" \in cns THEN "target" ELSE "host")
  /\ UNCHANGED <<wstatus, msg, cns>>

\* The kernel adds a route through a gateway that is on the network of a device
\* that is up.
OnLink(gateway) ==
  LET size == 2^WIDTH - tap.netmask
  IN  "tap" \in tap.up /\ gateway \div size = tap.addr \div size

\* One ioctl after the other; each has to succeed.
ConfigureNetwork ==
  /\ \/ Child("lo", "up")         /\ tap' = [tap EXCEPT !.up = @ \cup {"lo"}]
     \/ Child("up", "mtu")        /\ tap' = [tap EXCEPT !.up = @ \cup {"tap"}]
     \/ Child("mtu", IF cfg.vmacaddress_len > 0 THEN "mac" ELSE "addr")
                                  /\ tap' = [tap EXCEPT !.mtu = cfg.mtu]
     \/ Child("mac", "addr")      /\ tap' = [tap EXCEPT !.mac = cfg.vmacaddress]
     \/ Child("addr", "netmask")  /\ tap' = [tap EXCEPT !.addr = cfg.recommended_vguest]
     \/ Child("netmask", "route") /\ tap' = [tap EXCEPT !.netmask = cfg.vnetmask]
     \/ Child("route", "send")    /\ OnLink(cfg.vhost)
                                  /\ tap' = [tap EXCEPT !.gateway = cfg.vhost]
  /\ UNCHANGED <<wstatus, msg, cns>>

BessListen ==
  /\ Child("listen", "accept")
  /\ UNCHANGED <<wstatus, msg, cns, tap>>

BessAccept ==
  /\ Child("accept", "send")
  /\ vm
  /\ UNCHANGED <<wstatus, msg, cns, tap>>

\* A bug that could be here: the result of sendfd is not looked at.
SendFd_Unchecked ==
  /\ Child("send", "exit")
  /\ msg' \in {"empty", "fd"}
  /\ UNCHANGED <<wstatus, cns, tap>>

SendFd ==
  /\ Child("send", "exit")
  /\ msg' = "fd"
  /\ UNCHANGED <<wstatus, cns, tap>>

ChildExits ==
  /\ Child("exit", "dead")
  /\ wstatus' = "0"
  /\ UNCHANGED <<msg, cns, tap>>

ChildStep ==
  /\ \/ ChildFails \/ EnterUserns \/ EnterNetns \/ OpenTap \/ ConfigureNetwork
     \/ BessListen \/ BessAccept \/ SendFd \/ ChildExits
  /\ UNCHANGED <<input, parent_vars, hup, vm>>

ChildKilled ==
  /\ cpc \notin {"none", "dead"}
  /\ cpc' = "dead"
  /\ wstatus' = "signal"
  /\ UNCHANGED <<input, parent_vars, msg, cns, tap, hup, vm>>

-----------------------------------------------------------------------------
(***************************************************************************)
(* The parent                                                              *)
(***************************************************************************)
Parent(from, to) == ppc = from /\ ppc' = to

\* A bug that could be here: the exit status is never set.
Exit_Forgets(s) == ppc' = "exited" /\ UNCHANGED status

\* goto finish: exit(exit_status).
Exit(s) == ppc' = "exited" /\ status' = s

\* parse_args: --help and --version end it before or after an error is met.
ParseArgs ==
  /\ ppc = "parse"
  /\ \/ argv.help /\ Exit("0") /\ UNCHANGED opt
     \/ ~Accepted(argv) /\ Exit("1") /\ UNCHANGED opt
     \/ /\ ~argv.help /\ Accepted(argv)
        /\ ppc' = "config" /\ opt' = parse_args(argv)
        /\ UNCHANGED status
  /\ UNCHANGED <<argv, cfg, child_vars, puser, euid0>>

ConfigFromOptions ==
  /\ ppc = "config"
  /\ IF ConfigAccepted(opt, argv.ifs)
     THEN /\ ppc' = "fork" /\ cfg' = slirp4netns_config_from_options(opt)
          /\ UNCHANGED status
     ELSE Exit("1") /\ UNCHANGED cfg
  /\ UNCHANGED <<argv, opt, child_vars, puser, euid0>>

\* socketpair and fork, or neither is needed.
Fork ==
  /\ \/ /\ opt.target = "tapfd"
        /\ Parent("fork", "enter")
        /\ UNCHANGED <<cpc, status>>
     \/ /\ opt.target # "tapfd"
        /\ Parent("fork", "waitpid")
        /\ cpc' = IF opt.target = "bess" THEN "listen" ELSE "nsenter"
        /\ UNCHANGED status
     \/ /\ ppc = "fork"
        /\ Exit("1")
        /\ UNCHANGED cpc
  /\ UNCHANGED <<wstatus, msg, cns, tap, puser, euid0>>

\* A bug that could be here: WEXITSTATUS of a child that was killed.
Waitpid_IgnoresSignal ==
  /\ ppc = "waitpid" /\ cpc = "dead"
  /\ IF wstatus = "1" THEN Exit("1") ELSE ppc' = "recvfd" /\ UNCHANGED status
  /\ UNCHANGED <<child_vars, puser, euid0>>

\* waitpid until the child is dead; if it cannot tell, or the child was killed
\* or failed, main fails.
Waitpid ==
  /\ ppc = "waitpid" /\ cpc = "dead"
  /\ \/ wstatus = "0" /\ ppc' = "recvfd" /\ UNCHANGED status
     \/ Exit("1")
  /\ UNCHANGED <<child_vars, puser, euid0>>

\* The parent still holds the sending end: an empty socketpair blocks it.
RecvFd ==
  /\ ppc = "recvfd" /\ msg = "fd"
  /\ msg' = "empty"
  /\ \/ ppc' = "enter" /\ UNCHANGED status
     \/ Exit("1")
  /\ UNCHANGED <<cpc, wstatus, cns, tap, puser, euid0>>

\* A bug that could be here: without a pid, the ids are left alone as well.
Enter_NeedsPid ==
  /\ ppc = "enter"
  /\ IF opt.sandbox /\ ~euid0 /\ opt.target = "pid"
     THEN \/ ppc' = "setids" /\ puser' = "target" /\ UNCHANGED status
          \/ Exit("1") /\ UNCHANGED puser
     ELSE ppc' = "do_slirp" /\ UNCHANGED <<puser, status>>
  /\ UNCHANGED <<child_vars, euid0>>

\* nsenter(target_pid, NULL, NULL, true): without a pid it enters nothing, and
\* --userns-path does not come here.
Enter ==
  /\ ppc = "enter"
  /\ IF opt.sandbox /\ ~euid0
     THEN \/ /\ ppc' = "setids"
             /\ puser' = IF Userns(FALSE) = "none" THEN puser ELSE Userns(FALSE)
             /\ UNCHANGED status
          \/ Userns(FALSE) # "none" /\ Exit("1") /\ UNCHANGED puser
     ELSE ppc' = "do_slirp" /\ UNCHANGED <<puser, status>>
  /\ UNCHANGED <<child_vars, euid0>>

\* setegid(0), seteuid(0): whether they are allowed is the kernel's choice.
SetIds ==
  /\ ppc = "setids"
  /\ \/ ppc' = "do_slirp" /\ euid0' = TRUE /\ UNCHANGED status
     \/ Exit("1") /\ UNCHANGED euid0
  /\ UNCHANGED <<child_vars, puser>>

\* A bug that could be here: the result of do_slirp is lost.
DoSlirpEnds_Unchecked ==
  /\ ppc = "do_slirp"
  /\ Exit("0")
  /\ UNCHANGED <<child_vars, puser, euid0>>

\* do_slirp returns 0 on the exit fd, or fails.
DoSlirpEnds ==
  /\ ppc = "do_slirp"
  /\ \/ hup /\ Exit("0")
     \/ Exit("1")
  /\ UNCHANGED <<child_vars, puser, euid0>>

ParentStep ==
  /\ \/ ParseArgs \/ ConfigFromOptions
     \/ /\ Fork \/ Waitpid \/ RecvFd \/ Enter \/ SetIds \/ DoSlirpEnds
        /\ UNCHANGED input
  /\ UNCHANGED <<hup, vm>>

ParentKilled ==
  /\ ppc # "exited"
  /\ Exit("signal")
  /\ UNCHANGED <<input, child_vars, puser, euid0, hup, vm>>

-----------------------------------------------------------------------------
ExitHup == ~hup /\ opt.exit_fd >= 0 /\ hup' = TRUE
           /\ UNCHANGED <<input, parent_vars, child_vars, vm>>

VmConnects == ~vm /\ cpc = "accept" /\ vm' = TRUE
              /\ UNCHANGED <<input, parent_vars, child_vars, hup>>

Init ==
  /\ argv \in CommandLine
  /\ opt = options_init /\ cfg = slirp4netns_config_from_options(options_init)
  /\ ppc = "parse" /\ puser = "host" /\ euid0 = argv.root /\ status = "none"
  /\ cpc = "none" /\ wstatus = "none" /\ msg = "empty" /\ cns = {}
  /\ tap = NewTap("none")
  /\ hup = FALSE /\ vm = FALSE

Next == ParentStep \/ ChildStep \/ ParentKilled \/ ChildKilled \/ ExitHup \/ VmConnects

Spec == Init /\ [][Next]_vars

\* Both processes are scheduled, and do_slirp ends when it is told to; accept
\* may block until there is a connection.
FairSpec == /\ Spec
            /\ WF_vars(ParentStep /\ ppc # "do_slirp")
            /\ WF_vars(ParentStep /\ hup)
            /\ WF_vars(ChildStep /\ (cpc = "accept" => vm))

\* And a virtual machine does connect to a BESS socket.
AttendedSpec == FairSpec /\ WF_vars(VmConnects)

-----------------------------------------------------------------------------
(***************************************************************************)
(* Properties                                                              *)
(***************************************************************************)

\* The variables have their types.
TypeOK ==
  /\ ppc \in {"parse", "config", "fork", "waitpid", "recvfd", "enter", "setids",
              "do_slirp", "exited"}
  /\ cpc \in {"none", "nsenter", "netns", "open_tap", "listen", "accept",
              "send", "exit", "dead"} \cup Ioctls
  /\ wstatus \in {"none", "0", "1", "signal"} /\ (cpc = "dead" <=> wstatus # "none")
  /\ msg \in {"empty", "fd"}
  /\ cns \subseteq {"target", "given", "net"}
  /\ tap.ns \in {"none", "host", "target"} /\ tap.up \subseteq {"lo", "tap"}
  /\ puser \in {"host", "target"}
  /\ euid0 \in BOOLEAN
  /\ status \in {"none", "0", "1", "signal"} /\ (ppc = "exited" <=> status # "none")
  /\ hup \in BOOLEAN /\ vm \in BOOLEAN

\* recvfd never waits: the parent reaches it only after the child has put the
\* fd into the socketpair.  It would wait for ever, as it holds both ends.
RecvNeverBlocks == ppc = "recvfd" => msg = "fd"

\* do_slirp is given a device in the target's network namespace, however the child
\* ended; if it was to be configured it is so in full, with the addresses that
\* do_slirp itself goes by, and lo is up.
ServesTargetsTap ==
  ppc = "do_slirp" /\ opt.target \in {"pid", "path"} =>
    /\ tap.ns = "target"
    /\ opt.config => /\ tap.up = {"lo", "tap"} /\ tap.mtu = cfg.mtu
                     /\ cfg.vmacaddress_len > 0 => tap.mac = cfg.vmacaddress
                     /\ tap.addr = cfg.recommended_vguest
                     /\ tap.netmask = cfg.vnetmask /\ tap.gateway = cfg.vhost

\* do_slirp is to be sandboxed only as root: the root main was started as, or
\* the root of the user namespace of the target process.
SandboxedAsRoot ==
  ppc = "do_slirp" /\ opt.sandbox =>
    euid0 /\ (~argv.root /\ opt.target = "pid" => puser = "target")

\* main exits with 0 only if it was asked for help, or do_slirp ran and was told to
\* end; a failure of the child, its death and one of the parent's calls all show in
\* the status.
ZeroMeansServed ==
  status = "0" /\ ~argv.help =>
    /\ hup
    /\ opt.target = "tapfd" \/ wstatus = "0"
    /\ opt.target \in {"pid", "path"} => tap.ns = "target"

Plan(c) ==
  LET last == c.vnetwork + 2^WIDTH - c.vnetmask - 1
  IN  /\ c.vnetwork < c.vhost /\ c.vhost < c.vnameserver
      /\ c.vnameserver < c.vdhcp_start /\ c.vdhcp_start < c.vdhcp_end
      /\ c.vdhcp_end < c.recommended_vguest /\ c.recommended_vguest < last
      /\ last < 2^WIDTH

\* Whatever CIDR is accepted, the addresses made of it are on its network and none
\* is its first or its last; gateway, name server, the range of DHCP and the
\* recommended address of the guest are apart from each other; none wraps around.
AddressPlan == Plan(cfg)

\* Whatever numbers are accepted, also those that an int cannot hold: an fd that is
\* given is not negative, a pid is positive, the MTU is one that a tap device takes,
\* and the MAC address is of bytes.
OptionsInRange ==
  ppc \notin {"parse", "exited"} =>
    /\ argv.exit_fd # <<>> => opt.exit_fd >= 0
    /\ argv.ready_fd # <<>> => opt.ready_fd >= 0
    /\ opt.target = "pid" => opt.target_pid > 0
    /\ opt.tapfd >= 0 <=> opt.target = "tapfd"
    /\ cfg.mtu \in 1 .. MTU_MAX
    /\ \A k \in 1 .. 6 : cfg.vmacaddress[k] \in 0 .. 255

\* The outbound address that is configured is the one that was asked for: for IPv4
\* an IPv4 address of the interface named, or the address given.
OutboundAsGiven ==
  ppc \notin {"parse", "config", "exited"} =>
    /\ cfg.outbound_addr = argv.outbound_addr
    /\ cfg.outbound_addr \in DOMAIN argv.ifs => "IPv4" \in argv.ifs[cfg.outbound_addr]
    /\ argv.outbound_addr6 \in {"none", "literal"}
          => cfg.outbound_addr6 = argv.outbound_addr6

\* The manual says that --outbound-addr6=INTERFACE specifies the interface to bind to
\* for IPv6: if that is accepted, it is the interface whose address is configured.
Outbound6AsGiven ==
  ppc \notin {"parse", "config", "exited"} => cfg.outbound_addr6 = argv.outbound_addr6

\* main gets to do_slirp or exits; a child that fails, is killed, or has
\* nothing to do never leaves the parent waiting.
Settles == <>(ppc \in {"do_slirp", "exited"})

\* The manual says of --exit-fd that slirp4netns exits when an event happens on
\* the fd; with a virtual machine that connects, it does.
HupEndsMain == hup ~> ppc = "exited"

\* The manual says that --userns-path overrides the default user namespace; the
\* parent that enters one to be sandboxed enters that one.
UsernsPathOverrides ==
  ppc = "setids" /\ opt.userns_path /\ opt.target = "path" => puser = "given"

=============================================================================
