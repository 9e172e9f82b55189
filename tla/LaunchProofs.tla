---------------------------- MODULE LaunchProofs ----------------------------
(***************************************************************************)
(* Proofs about Launch and Config, for every width of addresses, ints and  *)
(* longs, every MTU, every default network and every set of command lines. *)
(***************************************************************************)
EXTENDS Launch, TLAPS

-----------------------------------------------------------------------------
(***************************************************************************)
(* The address plan                                                        *)
(***************************************************************************)

\* A network that divides the addresses evenly, at a multiple of its size, ends
\* within them.
LEMMA NetworkFits ==
  ASSUME NEW total \in Nat, NEW size \in Nat, size > 0, total % size = 0,
         NEW net \in 0 .. total - 1, net % size = 0
  PROVE  net + size <= total
<1>1. total = size * (total \div size) + (total % size)
  OBVIOUS
<1>2. net = size * (net \div size) + (net % size)
  OBVIOUS
<1> DEFINE a == total \div size
           b == net \div size
<1>3. a \in Int /\ b \in Int
  OBVIOUS
<1>4. size * b < size * a
  BY <1>1, <1>2
<1> HIDE DEF a, b
<1>5. b < a
  <2>1. SUFFICES ASSUME a <= b PROVE FALSE
    BY <1>3
  <2>2. size * a <= size * b
    BY <1>3, <2>1
  <2> QED BY <1>3, <1>4, <2>2
<1>6. size * (b + 1) <= size * a
  BY <1>3, <1>5
<1>7. size * (b + 1) = size * b + size
  BY <1>3
<1> QED BY <1>1, <1>2, <1>3, <1>6, <1>7 DEF a, b

\* slirp4netns_config_from_cidr: a CIDR that parse_cidr accepts is of 128 addresses
\* at least, and every address made of it is among them.
LEMMA PlanFits ==
  ASSUME NEW o, CidrAccepted(Cidr(o)),
         NEW c, c = slirp4netns_config_from_options(o)
  PROVE  Plan(c)
<1> DEFINE net  == Cidr(o).network
           size == Size(Cidr(o).prefix)
<1>1. Cidr(o).prefix \in 1 .. WIDTH - 7
  BY DEF CidrAccepted, NETWORK_PREFIX_MIN, NETWORK_PREFIX_MAX
<1>2. size \in Nat /\ size >= 128 /\ 2^WIDTH \in Nat /\ 2^WIDTH % size = 0
  BY <1>1, WidthAssumption DEF WidthAssumption
<1>3. net \in 0 .. 2^WIDTH - 1 /\ net % size = 0
  BY DEF CidrAccepted, Address
<1>5. c.vnetwork = net /\ c.vnetmask = 2^WIDTH - size
  BY DEF slirp4netns_config_from_options, Netmask
<1> HIDE DEF net, size
<1>4. net + size <= 2^WIDTH
  <2>1. size > 0
    BY <1>2
  <2> DEFINE total == 2^WIDTH
  <2>2. total \in Nat /\ total % size = 0 /\ net \in 0 .. total - 1
    BY <1>2, <1>3
  <2> HIDE DEF total
  <2>3. net + size <= total
    BY <1>2, <1>3, <2>1, <2>2, NetworkFits
  <2> QED BY <2>3 DEF total
<1>6. \A n \in 0 .. 127 : Offset(net, n) = net + n
  BY <1>2, <1>3, <1>4 DEF Offset
<1>7. /\ c.vhost = net + 2 /\ c.vnameserver = net + 3
      /\ c.vdhcp_start = net + 15 /\ c.vdhcp_end = net + 30
      /\ c.recommended_vguest = net + 100
  BY <1>6 DEF slirp4netns_config_from_options, net, DEFAULT_VHOST_OFFSET,
     DEFAULT_VNAMESERVER_OFFSET, DEFAULT_VDHCPSTART_OFFSET, NB_BOOTP_CLIENTS,
     DEFAULT_RECOMMENDED_VGUEST_OFFSET
<1> QED BY <1>2, <1>3, <1>4, <1>5, <1>7 DEF Plan

-----------------------------------------------------------------------------
(***************************************************************************)
(* The inductive invariant: how far each process is tells what the other   *)
(* has done, and how far the child is tells what the device has.           *)
(***************************************************************************)
InNetns == opt.target \in {"pid", "path"}

\* The device is a record of these fields.
Shape == tap = [ns |-> tap.ns, up |-> tap.up, mtu |-> tap.mtu, mac |-> tap.mac,
                addr |-> tap.addr, netmask |-> tap.netmask, gateway |-> tap.gateway]

\* What the child has done to the device, up to its next call.
Progress ==
  InNetns /\ (cpc \in Ioctls \cup {"send", "exit"} \/ wstatus = "0") =>
    /\ tap.ns = "target"
    /\ opt.config =>
         /\ cpc # "lo" => "lo" \in tap.up
         /\ cpc \notin {"lo", "up"} => "tap" \in tap.up
         /\ cpc \notin {"lo", "up", "mtu"} => tap.mtu = cfg.mtu
         /\ cpc \notin {"lo", "up", "mtu", "mac"} /\ cfg.vmacaddress_len > 0
              => tap.mac = cfg.vmacaddress
         /\ cpc \notin {"lo", "up", "mtu", "mac", "addr"}
              => tap.addr = cfg.recommended_vguest
         /\ cpc \notin {"lo", "up", "mtu", "mac", "addr", "netmask"}
              => tap.netmask = cfg.vnetmask
         /\ cpc \notin Ioctls => tap.gateway = cfg.vhost

\* Where the child is.
ChildStage ==
  /\ cpc = "none" => msg = "empty"
  /\ opt.target = "tapfd" => cpc = "none"
  /\ cpc \in {"nsenter", "netns", "open_tap"} \cup Ioctls => InNetns
  /\ cpc \in Ioctls => opt.config
  /\ cpc \in {"listen", "accept"} => opt.target = "bess"
  /\ cpc = "open_tap" => "net" \in cns
  /\ cpc = "exit" => msg = "fd"

\* Where the parent is.
ParentStage ==
  /\ argv \in CommandLine
  /\ ppc \in {"parse", "config", "fork"} => cpc = "none"
  /\ ppc \notin {"parse", "exited"} => opt.target \in {"pid", "path", "tapfd", "bess"}
  /\ ppc \in {"waitpid", "recvfd"} => opt.target # "tapfd"
  /\ ppc = "waitpid" => cpc # "none"
  /\ ppc \in {"waitpid", "recvfd"} /\ wstatus = "0" => msg = "fd"
  /\ ppc = "recvfd" => wstatus = "0"
  /\ ppc \in {"enter", "setids", "do_slirp"} => opt.target = "tapfd" \/ wstatus = "0"
  /\ ppc \notin {"do_slirp", "exited"} => euid0 = argv.root
  /\ ppc = "setids" => /\ opt.sandbox /\ ~argv.root
                       /\ opt.target = "pid" => puser = "target"

IInv == /\ TypeOK /\ Shape /\ Progress /\ ChildStage /\ ParentStage
        /\ SandboxedAsRoot /\ ZeroMeansServed

\* The invariant gives what the runs check.
LEMMA IInvImplies == IInv => RecvNeverBlocks /\ ServesTargetsTap
BY DEF IInv, TypeOK, Progress, ParentStage, InNetns, Ioctls, RecvNeverBlocks,
   ServesTargetsTap

\* Initially nothing is open and nobody has a fd.
LEMMA IInvInit == Init => IInv
<1> SUFFICES ASSUME Init PROVE IInv
  OBVIOUS
<1>1. argv.root \in BOOLEAN
  BY CommandLineAssumption DEF CommandLineAssumption, Init
<1> QED BY <1>1 DEF Init, IInv, TypeOK, Shape, Progress, ChildStage, ParentStage, InNetns,
     SandboxedAsRoot, ZeroMeansServed, options_init, NewTap, Ioctls

\* The child's steps.
LEMMA ChildKeeps == IInv /\ (ChildStep \/ ChildKilled) => IInv'
<1> SUFFICES ASSUME IInv, ChildStep \/ ChildKilled PROVE IInv'
  OBVIOUS
<1> USE DEF IInv, TypeOK, Shape, Progress, ChildStage, ParentStage, InNetns, Child,
    SandboxedAsRoot, ZeroMeansServed, Ioctls, input, parent_vars
<1>1. CASE ChildFails /\ UNCHANGED <<input, parent_vars, hup, vm>>
  BY <1>1 DEF ChildFails
<1>2. CASE EnterUserns /\ UNCHANGED <<input, parent_vars, hup, vm>>
  BY <1>2 DEF EnterUserns, Userns
<1>3. CASE EnterNetns /\ UNCHANGED <<input, parent_vars, hup, vm>>
  BY <1>3 DEF EnterNetns
<1>4. CASE OpenTap /\ UNCHANGED <<input, parent_vars, hup, vm>>
  BY <1>4 DEF OpenTap, NewTap
<1>5. CASE ConfigureNetwork /\ UNCHANGED <<input, parent_vars, hup, vm>>
  <2> USE <1>5
  <2>1. CASE cpc = "lo"
    BY <2>1 DEF ConfigureNetwork
  <2>2. CASE cpc = "up"
    BY <2>2 DEF ConfigureNetwork
  <2>3. CASE cpc = "mtu"
    BY <2>3 DEF ConfigureNetwork
  <2>4. CASE cpc = "mac"
    BY <2>4 DEF ConfigureNetwork
  <2>5. CASE cpc = "addr"
    BY <2>5 DEF ConfigureNetwork
  <2>6. CASE cpc = "netmask"
    BY <2>6 DEF ConfigureNetwork
  <2>7. CASE cpc = "route"
    BY <2>7 DEF ConfigureNetwork
  <2> QED BY <2>1, <2>2, <2>3, <2>4, <2>5, <2>6, <2>7 DEF ConfigureNetwork
<1>6. CASE BessListen /\ UNCHANGED <<input, parent_vars, hup, vm>>
  BY <1>6 DEF BessListen
<1>7. CASE BessAccept /\ UNCHANGED <<input, parent_vars, hup, vm>>
  <2>1. /\ Child("accept", "send") /\ UNCHANGED <<wstatus, msg, cns, tap>>
        /\ UNCHANGED <<input, parent_vars, hup, vm>>
    BY <1>7 DEF BessAccept
  <2> QED BY <2>1
<1>8. CASE SendFd /\ UNCHANGED <<input, parent_vars, hup, vm>>
  BY <1>8 DEF SendFd
<1>9. CASE ChildExits /\ UNCHANGED <<input, parent_vars, hup, vm>>
  BY <1>9 DEF ChildExits
<1>10. CASE ChildKilled
  BY <1>10 DEF ChildKilled
<1> QED BY <1>1, <1>2, <1>3, <1>4, <1>5, <1>6, <1>7, <1>8, <1>9, <1>10 DEF ChildStep

\* The parent's steps.
LEMMA ParentKeeps == IInv /\ (ParentStep \/ ParentKilled) => IInv'
<1> SUFFICES ASSUME IInv, ParentStep \/ ParentKilled PROVE IInv'
  OBVIOUS
<1> USE DEF IInv, TypeOK, Shape, Progress, ChildStage, ParentStage, InNetns, Parent, Exit,
    SandboxedAsRoot, ZeroMeansServed, Ioctls, input, child_vars
<1>1. CASE ParseArgs /\ UNCHANGED <<hup, vm>>
  <2>1. CASE argv.help /\ Exit("0") /\ UNCHANGED opt
    BY <1>1, <2>1 DEF ParseArgs
  <2>2. CASE Exit("1") /\ UNCHANGED opt
    BY <1>1, <2>2 DEF ParseArgs
  <2>3. CASE ppc' = "config" /\ opt' = parse_args(argv) /\ UNCHANGED status
    <3>1. opt'.target \in {"pid", "path", "tapfd", "bess"}
      BY <2>3 DEF parse_args, Target
    <3> QED BY <1>1, <2>3, <3>1 DEF ParseArgs
  <2> QED BY <1>1, <2>1, <2>2, <2>3 DEF ParseArgs
<1>2. CASE ConfigFromOptions /\ UNCHANGED <<hup, vm>>
  BY <1>2 DEF ConfigFromOptions
<1>3. CASE Fork /\ UNCHANGED <<input, hup, vm>>
  BY <1>3 DEF Fork
<1>4. CASE Waitpid /\ UNCHANGED <<input, hup, vm>>
  BY <1>4 DEF Waitpid
<1>5. CASE RecvFd /\ UNCHANGED <<input, hup, vm>>
  BY <1>5 DEF RecvFd
<1>6. CASE Enter /\ UNCHANGED <<input, hup, vm>>
  BY <1>6 DEF Enter, Userns
<1>7. CASE SetIds /\ UNCHANGED <<input, hup, vm>>
  <2>1. CASE Exit("1") /\ UNCHANGED euid0
    BY <1>7, <2>1 DEF SetIds
  <2>2. CASE ppc' = "do_slirp" /\ euid0' = TRUE /\ UNCHANGED status
    <3>1. euid0' /\ euid0' \in BOOLEAN
      BY <2>2
    <3>2. ppc = "setids" /\ ppc' = "do_slirp" /\ UNCHANGED <<status, puser, child_vars, input, hup, vm>>
      BY <1>7, <2>2 DEF SetIds
    <3> QED BY <3>1, <3>2
  <2> QED BY <1>7, <2>1, <2>2 DEF SetIds
<1>8. CASE DoSlirpEnds /\ UNCHANGED <<input, hup, vm>>
  BY <1>8 DEF DoSlirpEnds
<1>9. CASE ParentKilled
  BY <1>9 DEF ParentKilled
<1> QED BY <1>1, <1>2, <1>3, <1>4, <1>5, <1>6, <1>7, <1>8, <1>9 DEF ParentStep

\* Every step keeps the invariant.
LEMMA IInvStep == IInv /\ [Next]_vars => IInv'
<1> SUFFICES ASSUME IInv, [Next]_vars PROVE IInv'
  OBVIOUS
<1> USE DEF IInv, TypeOK, Shape, Progress, ChildStage, ParentStage, InNetns,
    SandboxedAsRoot, ZeroMeansServed, Ioctls
<1>1. CASE ExitHup
  BY <1>1 DEF ExitHup, input, child_vars, parent_vars
<1>2. CASE VmConnects
  BY <1>2 DEF VmConnects, input, child_vars, parent_vars
<1>3. CASE UNCHANGED vars
  BY <1>3 DEF vars
<1> QED BY <1>1, <1>2, <1>3, ChildKeeps, ParentKeeps DEF Next

\* The invariant holds in every reachable state, for every command line.
LEMMA Invariant == Spec => []IInv
BY IInvInit, IInvStep, PTL DEF Spec

\* The two processes, the socket pair and the namespaces keep their types.
THEOREM TypeCorrect == Spec => []TypeOK
<1>1. IInv => TypeOK
  BY DEF IInv
<1> QED BY <1>1, Invariant, PTL

\* recvfd never waits: when the parent gets there, the child has sent the descriptor.
THEOREM RecvFinds == Spec => []RecvNeverBlocks
BY Invariant, IInvImplies, PTL

\* do_slirp gets the device of the target, set up as the configuration says.
THEOREM TapOfTarget == Spec => []ServesTargetsTap
BY Invariant, IInvImplies, PTL

\* do_slirp is sandboxed only as the root that main was started as, or as the root of
\* the user namespace of the target process.
THEOREM SandboxAsRoot == Spec => []SandboxedAsRoot
<1>1. IInv => SandboxedAsRoot
  BY DEF IInv
<1> QED BY <1>1, Invariant, PTL

\* Unless it was asked for help, main exits with 0 only if do_slirp ran and was told to
\* end.
THEOREM ZeroStatus == Spec => []ZeroMeansServed
<1>1. IInv => ZeroMeansServed
  BY DEF IInv
<1> QED BY <1>1, Invariant, PTL

\* For every network, prefix and width of addresses, the addresses that the guest, the
\* gateway, the name server and DHCP are given are apart and on the network.
THEOREM AddressesFit == Spec => []AddressPlan
<1>1. Init => AddressPlan
  <2> SUFFICES ASSUME Init PROVE AddressPlan
    OBVIOUS
  <2>1. Cidr(options_init) = [matches |-> TRUE, network |-> DEFAULT_NETWORK,
                              prefix |-> DEFAULT_PREFIX]
    BY DEF Cidr, Or, options_init
  <2>2. CidrAccepted(Cidr(options_init))
    BY <2>1, NumberAssumption DEF NumberAssumption, CidrAccepted, NETWORK_PREFIX_MIN,
       NETWORK_PREFIX_MAX
  <2> QED BY <2>2, PlanFits DEF Init, AddressPlan
<1>2. AddressPlan /\ [Next]_vars => AddressPlan'
  <2> SUFFICES ASSUME AddressPlan, [Next]_vars PROVE AddressPlan'
    OBVIOUS
  <2>1. CASE cfg' = cfg
    BY <2>1 DEF AddressPlan
  <2>2. CASE ConfigFromOptions /\ ConfigAccepted(opt, argv.ifs)
    <3>1. CidrAccepted(Cidr(opt)) /\ cfg' = slirp4netns_config_from_options(opt)
      BY <2>2 DEF ConfigFromOptions, ConfigAccepted
    <3> QED BY <3>1, PlanFits DEF AddressPlan
  <2>3. cfg' = cfg \/ (ConfigFromOptions /\ ConfigAccepted(opt, argv.ifs))
    BY DEF Next, ParentStep, ChildStep, ParentKilled, ChildKilled, ExitHup, VmConnects,
       ParseArgs, ConfigFromOptions, input, vars
  <2> QED BY <2>1, <2>2, <2>3
<1> QED BY <1>1, <1>2, PTL DEF Spec

-----------------------------------------------------------------------------
(***************************************************************************)
(* What the options and the configuration come from                        *)
(***************************************************************************)
Origin ==
  /\ argv \in CommandLine
  /\ ppc \notin {"parse", "exited"} => Accepted(argv) /\ opt = parse_args(argv)
  /\ ppc \in {"parse", "config"} => cfg = slirp4netns_config_from_options(options_init)
  /\ ppc \notin {"parse", "config", "exited"} =>
       ConfigAccepted(opt, argv.ifs) /\ cfg = slirp4netns_config_from_options(opt)

\* Every step keeps the origin of the configuration.
LEMMA OriginStep == Origin /\ [Next]_vars => Origin'
<1> SUFFICES ASSUME Origin, [Next]_vars PROVE Origin'
  OBVIOUS
<1>1. CASE ParseArgs
  BY <1>1 DEF ParseArgs, Origin, Exit
<1>2. CASE ConfigFromOptions
  BY <1>2 DEF ConfigFromOptions, Origin, Exit
<1>3. CASE /\ UNCHANGED input
           /\ \/ ppc' = ppc \/ ppc' = "exited"
              \/ ppc \notin {"parse", "config", "exited"}
                 /\ ppc' \notin {"parse", "config", "exited"}
  BY <1>3 DEF Origin, input
<1>4. CASE ParentStep /\ ~ParseArgs /\ ~ConfigFromOptions
  BY <1>3, <1>4 DEF ParentStep, Fork, Waitpid, RecvFd, Enter, SetIds, DoSlirpEnds, Parent,
     Exit
<1>5. CASE ~ParentStep
  BY <1>3, <1>5 DEF Next, ChildStep, ParentKilled, ChildKilled, ExitHup, VmConnects, Exit,
     parent_vars, vars, input
<1> QED BY <1>1, <1>2, <1>4, <1>5

\* A MAC address that is accepted fills at most the six bytes of the device's.
LEMMA MacBytes ==
  ASSUME NEW o, Given(o.macaddress) => MacAccepted(o.macaddress[1]),
         Given(o.macaddress) => o.macaddress[1] \in Seq(Int), NEW k \in 1 .. 6
  PROVE  slirp4netns_config_from_options(o).vmacaddress[k] \in 0 .. 255
<1> DEFINE mac == Or(o.macaddress, <<>>)
<1>1. slirp4netns_config_from_options(o).vmacaddress[k]
        = IF k \in DOMAIN mac THEN mac[k] ELSE 0
  BY DEF slirp4netns_config_from_options
<1>2. CASE Given(o.macaddress)
  <2>1. mac \in Seq(Int) /\ MacAccepted(mac)
    BY <1>2 DEF Or, Given
  <2> HIDE DEF mac
  <2>2. DOMAIN mac = 1 .. Len(mac)
    BY <2>1
  <2>3. \A j \in 1 .. Len(mac) : mac[j] \in 0 .. 255
    BY <2>1 DEF MacAccepted
  <2> QED BY <1>1, <2>2, <2>3
<1>3. CASE ~Given(o.macaddress)
  BY <1>1, <1>3 DEF Or, Given
<1> QED BY <1>2, <1>3

\* The ranges and the outbound addresses follow from where the configuration came from.
LEMMA OriginImplies == Origin => OptionsInRange /\ OutboundAsGiven
<1> SUFFICES ASSUME Origin PROVE OptionsInRange /\ OutboundAsGiven
  OBVIOUS
<1> USE CommandLineAssumption DEF CommandLineAssumption
<1>1. ASSUME ppc \notin {"parse", "exited"}
      PROVE  /\ argv.exit_fd # <<>> => opt.exit_fd >= 0
             /\ argv.ready_fd # <<>> => opt.ready_fd >= 0
             /\ opt.target = "pid" => opt.target_pid > 0
             /\ opt.tapfd >= 0 <=> opt.target = "tapfd"
             /\ opt.mtu \in 1 .. MTU_MAX
  <2>1. Accepted(argv) /\ opt = parse_args(argv)
    BY <1>1 DEF Origin
  <2>2. OptionsAccepted(argv) /\ TargetAccepted(argv)
    BY <2>1 DEF Accepted
  <2>3. argv.exit_fd # <<>> => opt.exit_fd >= 0
    BY <2>1, <2>2 DEF OptionsAccepted, NumberFrom, Given, parse_args
  <2>4. argv.ready_fd # <<>> => opt.ready_fd >= 0
    BY <2>1, <2>2 DEF OptionsAccepted, NumberFrom, Given, parse_args
  <2>5. opt.mtu \in 1 .. MTU_MAX
    BY <2>1, <2>2, NumberAssumption
       DEF OptionsAccepted, MtuNumber, Given, parse_args, NumberAssumption
  <2> DEFINE n == ToInt(argv.number)
  <2>6. n \in Int
    BY <2>1, NumberAssumption DEF Origin, ToInt, NumberAssumption
  <2>7. /\ opt.target = Target(argv)
        /\ opt.target_pid = IF Target(argv) = "pid" THEN n ELSE 0
        /\ opt.tapfd = IF Target(argv) = "tapfd" THEN n ELSE -1
    BY <2>1 DEF parse_args
  <2>8. /\ Target(argv) = "pid" => n >= 1
        /\ Target(argv) = "tapfd" => n >= 0
    BY <2>2 DEF TargetAccepted, NumberFrom
  <2> HIDE DEF n
  <2>9. /\ opt.target = "pid" => opt.target_pid > 0
        /\ opt.tapfd >= 0 <=> opt.target = "tapfd"
    BY <2>6, <2>7, <2>8
  <2> QED BY <2>3, <2>4, <2>5, <2>9
<1>2. ASSUME ppc \notin {"parse", "exited"}
      PROVE  cfg.mtu \in 1 .. MTU_MAX /\ \A k \in 1 .. 6 : cfg.vmacaddress[k] \in 0 .. 255
  <2>1. CASE ppc = "config"
    <3>1. cfg = slirp4netns_config_from_options(options_init) /\ ~Given(options_init.macaddress)
      BY <2>1 DEF Origin, Given, options_init
    <3>2. cfg.mtu = DEFAULT_MTU
      BY <3>1 DEF slirp4netns_config_from_options, options_init
    <3>3. \A k \in 1 .. 6 : cfg.vmacaddress[k] \in 0 .. 255
      BY <3>1, MacBytes
    <3> QED BY <3>2, <3>3, NumberAssumption DEF NumberAssumption
  <2>2. CASE ppc # "config"
    <3>1. ConfigAccepted(opt, argv.ifs) /\ cfg = slirp4netns_config_from_options(opt)
      BY <1>2, <2>2 DEF Origin
    <3>2. cfg.mtu = opt.mtu
      BY <3>1 DEF slirp4netns_config_from_options
    <3>3. opt.macaddress = argv.macaddress /\ argv \in CommandLine
      BY <1>2 DEF Origin, parse_args
    <3>4. \A k \in 1 .. 6 : cfg.vmacaddress[k] \in 0 .. 255
      BY <3>1, <3>3, MacBytes DEF ConfigAccepted
    <3> QED BY <1>1, <1>2, <3>2, <3>4
  <2> QED BY <2>1, <2>2
<1>3. ASSUME ppc \notin {"parse", "config", "exited"}
      PROVE  /\ cfg.outbound_addr = argv.outbound_addr
             /\ cfg.outbound_addr \in DOMAIN argv.ifs
                  => "IPv4" \in argv.ifs[cfg.outbound_addr]
             /\ argv.outbound_addr6 \in {"none", "literal"}
                  => cfg.outbound_addr6 = argv.outbound_addr6
  <2>1. /\ argv \in CommandLine /\ opt = parse_args(argv)
        /\ OutboundAccepted(opt, argv.ifs) /\ cfg = slirp4netns_config_from_options(opt)
    BY <1>3 DEF Origin, ConfigAccepted
  <2>2. opt.outbound_addr = argv.outbound_addr /\ opt.outbound_addr6 = argv.outbound_addr6
    BY <2>1 DEF parse_args
  <2>3. /\ cfg.outbound_addr = opt.outbound_addr
        /\ opt.outbound_addr6 \in {"none", "literal"}
             => cfg.outbound_addr6 = opt.outbound_addr6
    BY <2>1 DEF slirp4netns_config_from_options
  <2> QED BY <2>1, <2>2, <2>3 DEF OutboundAccepted, get_interface_addr
<1> QED BY <1>1, <1>2, <1>3 DEF OptionsInRange, OutboundAsGiven

\* The options and the configuration have this origin in every reachable state.
LEMMA OriginHolds == Spec => []Origin
<1>1. Init => Origin
  BY DEF Init, Origin
<1> QED BY <1>1, OriginStep, PTL DEF Spec

\* For every command line and every width of ints and longs, the options that
\* parse_args and slirp4netns_config_from_options accept are in range.
THEOREM OptionsFit == Spec => []OptionsInRange
BY OriginHolds, OriginImplies, PTL

\* The outbound addresses are the ones asked for, but for an interface given as
\* --outbound-addr6.
THEOREM OutboundKept == Spec => []OutboundAsGiven
BY OriginHolds, OriginImplies, PTL

-----------------------------------------------------------------------------
(***************************************************************************)
(* How long main takes: the calls that are left to the parent and to the   *)
(* child, and the two events that happen once.                             *)
(***************************************************************************)
ParentLeft ==
  CASE ppc = "parse"   -> 8 [] ppc = "config" -> 7 [] ppc = "fork"   -> 6
    [] ppc = "waitpid" -> 5 [] ppc = "recvfd" -> 4 [] ppc = "enter"  -> 3
    [] ppc = "setids"  -> 2 [] ppc = "do_slirp" -> 1 [] OTHER -> 0
ChildLeft ==
  CASE cpc = "none" -> 13 [] cpc = "nsenter" -> 12 [] cpc = "netns" -> 11
    [] cpc = "open_tap" -> 10 [] cpc = "lo" -> 9 [] cpc = "up" -> 8 [] cpc = "mtu" -> 7
    [] cpc = "mac" -> 6 [] cpc = "addr" -> 5 [] cpc \in {"netmask", "listen"} -> 4
    [] cpc \in {"route", "accept"} -> 3 [] cpc = "send" -> 2 [] cpc = "exit" -> 1
    [] OTHER -> 0
EventsLeft == (IF hup THEN 0 ELSE 1) + (IF vm THEN 0 ELSE 1)
Left == ParentLeft + ChildLeft + EventsLeft

\* The steps that are left are at most 23.
LEMMA LeftType ==
  /\ ParentLeft \in 0 .. 8 /\ ChildLeft \in 0 .. 13 /\ EventsLeft \in 0 .. 2
  /\ Left \in 0 .. 23
<1>1. ParentLeft \in 0 .. 8
  BY DEF ParentLeft
<1>2. ChildLeft \in 0 .. 13
  BY DEF ChildLeft
<1>3. EventsLeft \in 0 .. 2
  BY DEF EventsLeft
<1> QED BY <1>1, <1>2, <1>3 DEF Left

\* A step of the child, or its death, leaves it less to do.
LEMMA ChildGoesOn ==
  ASSUME TypeOK, ChildStep \/ ChildKilled
  PROVE  /\ ChildLeft' < ChildLeft
         /\ ParentLeft' = ParentLeft /\ EventsLeft' = EventsLeft
<1>1. ppc' = ppc /\ hup' = hup /\ vm' = vm
  BY DEF ChildStep, ChildKilled, parent_vars
<1>2. \/ cpc' = "dead" /\ cpc \notin {"none", "dead"}
      \/ cpc = "nsenter" /\ cpc' = "netns"
      \/ cpc = "netns" /\ cpc' = "open_tap"
      \/ cpc = "open_tap" /\ cpc' \in {"lo", "send"}
      \/ cpc = "lo" /\ cpc' = "up"
      \/ cpc = "up" /\ cpc' = "mtu"
      \/ cpc = "mtu" /\ cpc' \in {"mac", "addr"}
      \/ cpc = "mac" /\ cpc' = "addr"
      \/ cpc = "addr" /\ cpc' = "netmask"
      \/ cpc = "netmask" /\ cpc' = "route"
      \/ cpc = "route" /\ cpc' = "send"
      \/ cpc = "listen" /\ cpc' = "accept"
      \/ cpc = "accept" /\ cpc' = "send"
      \/ cpc = "send" /\ cpc' = "exit"
  BY DEF ChildStep, ChildKilled, ChildFails, EnterUserns, EnterNetns, OpenTap,
         ConfigureNetwork, BessListen, BessAccept, SendFd, ChildExits, Child, Ioctls
<1>3. CASE cpc' = "dead" /\ cpc \notin {"none", "dead"}
  <2>1. ChildLeft > 0
    BY <1>3 DEF TypeOK, Ioctls, ChildLeft
  <2>2. ChildLeft' = 0
    BY <1>3 DEF ChildLeft
  <2> QED BY <1>1, <2>1, <2>2 DEF ParentLeft, EventsLeft
<1>4. CASE cpc' # "dead"
  <2>1. ChildLeft' < ChildLeft
    BY <1>2, <1>4 DEF ChildLeft
  <2> QED BY <1>1, <2>1 DEF ParentLeft, EventsLeft
<1> QED BY <1>2, <1>3, <1>4

\* A step of the parent, or its death, leaves it less to do, and the child no more.
LEMMA ParentGoesOn ==
  ASSUME IInv, ParentStep \/ ParentKilled
  PROVE  /\ ParentLeft' < ParentLeft
         /\ ChildLeft' <= ChildLeft /\ EventsLeft' = EventsLeft
<1>1. hup' = hup /\ vm' = vm
  BY DEF ParentStep, ParentKilled
<1>2. \/ ppc' = "exited" /\ ppc # "exited"
      \/ ppc = "parse" /\ ppc' = "config"
      \/ ppc = "config" /\ ppc' = "fork"
      \/ ppc = "fork" /\ ppc' \in {"enter", "waitpid"}
      \/ ppc = "waitpid" /\ ppc' = "recvfd"
      \/ ppc = "recvfd" /\ ppc' = "enter"
      \/ ppc = "enter" /\ ppc' \in {"setids", "do_slirp"}
      \/ ppc = "setids" /\ ppc' = "do_slirp"
  BY DEF ParentStep, ParentKilled, ParseArgs, ConfigFromOptions, Fork, Waitpid, RecvFd, Enter,
         SetIds, DoSlirpEnds, Parent, Exit
<1>3. ParentLeft' < ParentLeft
  <2>1. CASE ppc' = "exited" /\ ppc # "exited"
    <3>1. ParentLeft > 0
      BY <2>1 DEF IInv, TypeOK, ParentLeft
    <3>2. ParentLeft' = 0
      BY <2>1 DEF ParentLeft
    <3> QED BY <3>1, <3>2
  <2>2. CASE ppc' # "exited"
    BY <1>2, <2>2 DEF ParentLeft
  <2> QED BY <1>2, <2>1, <2>2
<1>4. cpc' = cpc \/ (cpc = "none" /\ cpc' \in {"listen", "nsenter"})
  <2>1. CASE Fork
    BY <2>1 DEF Fork, Parent, IInv, ParentStage
  <2>2. CASE ~Fork
    BY <2>2 DEF ParentStep, ParentKilled, ParseArgs, ConfigFromOptions, Waitpid, RecvFd,
                Enter, SetIds, DoSlirpEnds, child_vars
  <2> QED BY <2>1, <2>2
<1>5. ChildLeft' <= ChildLeft
  <2>1. CASE cpc' = cpc
    BY <2>1, LeftType DEF ChildLeft
  <2>2. CASE cpc = "none" /\ cpc' \in {"listen", "nsenter"}
    BY <2>2 DEF ChildLeft
  <2> QED BY <1>4, <2>1, <2>2
<1> QED BY <1>1, <1>3, <1>5 DEF EventsLeft

\* main takes at most 23 steps, whatever fails or is killed, and none of them is taken
\* twice: it never runs in a circle, and the parent waits only for a child that there is.
THEOREM LaunchEnds ==
  Spec => /\ [][Left' < Left]_vars
          /\ [](Left \in 0 .. 23 /\ (ppc = "waitpid" => cpc # "none"))
<1>1. IInv /\ [Next]_vars => [Left' < Left]_vars
  <2> SUFFICES ASSUME IInv, Next PROVE Left' < Left
    OBVIOUS
  <2>1. /\ ParentLeft \in Int /\ ChildLeft \in Int /\ EventsLeft \in Int
        /\ ParentLeft' \in Int /\ ChildLeft' \in Int /\ EventsLeft' \in Int
    BY LeftType DEF ParentLeft, ChildLeft, EventsLeft
  <2>2. \A a, b, c, x, y, z \in Int :
          a <= x /\ b <= y /\ c <= z /\ (a < x \/ b < y \/ c < z) => a + b + c < x + y + z
    OBVIOUS
  <2>3. SUFFICES /\ ParentLeft' <= ParentLeft /\ ChildLeft' <= ChildLeft
                 /\ EventsLeft' <= EventsLeft
                 /\ \/ ParentLeft' < ParentLeft \/ ChildLeft' < ChildLeft
                    \/ EventsLeft' < EventsLeft
    BY <2>1, <2>2, Zenon DEF Left
  <2>4. CASE ChildStep \/ ChildKilled
    BY <2>1, <2>4, ChildGoesOn DEF IInv
  <2>5. CASE ParentStep \/ ParentKilled
    BY <2>1, <2>5, ParentGoesOn
  <2>6. CASE ExitHup \/ VmConnects
    <3>1. ParentLeft' = ParentLeft /\ ChildLeft' = ChildLeft /\ EventsLeft' < EventsLeft
      BY <2>6 DEF ExitHup, VmConnects, parent_vars, child_vars, ParentLeft, ChildLeft,
                  EventsLeft
    <3> QED BY <2>1, <3>1
  <2> QED BY <2>4, <2>5, <2>6 DEF Next
<1>2. IInv => Left \in 0 .. 23 /\ (ppc = "waitpid" => cpc # "none")
  BY LeftType DEF IInv, ParentStage
<1> QED BY <1>1, <1>2, Invariant, PTL DEF Spec
=============================================================================
