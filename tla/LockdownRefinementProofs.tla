---------------------- MODULE LockdownRefinementProofs ----------------------
(***************************************************************************)
(* create_sandbox and enable_seccomp, taken call by call, implement the    *)
(* two start-up steps of do_slirp.                                         *)
(***************************************************************************)
EXTENDS LockdownRefinement, LockdownProofs

FilterCalls == {"seccomp", "init", "block", "load"}

\* What the mapping rests on.  Capset is the one call that gives up permitted
\* capabilities, so until then create_sandbox has not taken effect; the tmpfs is
\* mounted by create_sandbox alone; and a filter that gets loaded has a rule.
MapInv ==
  /\ pc \in SandboxCalls => "sandbox" \in cfg
  /\ pc \in {"init", "block", "load"} => "seccomp" \in cfg
  /\ pc = "sandbox" => tmp = "none"
  /\ pc \in SandboxCalls \cup {"sandbox"} => caps["permitted"] = Cap
  /\ pc \in FilterCalls => IF "sandbox" \in cfg THEN caps["permitted"] # Cap
                           ELSE caps["permitted"] = Cap /\ tmp = "none"
  /\ pc \in {"block", "load"} => Native \in archs

-----------------------------------------------------------------------------
\* capset leaves less than every capability.
LEMMA CapsetGivesUp == {CAP_NET_BIND_SERVICE} # Cap
BY CapAssumption, LockdownAssumption DEF CapAssumption, LockdownAssumption

\* What each kind of step does to the permitted capabilities.
LEMMA PermittedStep ==
  ASSUME IInv, [Next]_vars
  PROVE  IF Capset THEN pc = "capset" /\ pc' = "seccomp"
                        /\ caps'["permitted"] = {CAP_NET_BIND_SERVICE}
         ELSE caps'["permitted"] = caps["permitted"]
<1>1. DOMAIN caps = {"ambient", "bounding", "effective", "permitted", "inheritable"}
  BY DEF IInv, PrivType
<1>2. CASE Capset
  <2>1. PICK a : a = [caps EXCEPT !["effective"] = {CAP_NET_BIND_SERVICE}]
    OBVIOUS
  <2>2. PICK b : b = [a EXCEPT !["permitted"] = {CAP_NET_BIND_SERVICE}]
    OBVIOUS
  <2>3. caps' = [b EXCEPT !["inheritable"] = {CAP_NET_BIND_SERVICE}]
    BY <1>2, <2>1, <2>2, Zenon DEF Capset
  <2>4. b["permitted"] = {CAP_NET_BIND_SERVICE}
    BY <1>1, <2>1, <2>2 DEF IInv, PrivType
  <2>5. caps'["permitted"] = b["permitted"]
    BY <1>1, <2>1, <2>2, <2>3 DEF IInv, PrivType
  <2>. QED
    BY <1>2, <2>4, <2>5 DEF Capset, Call
<1>3. CASE ~Capset
  <2>1. CASE ClearAmbient
    BY <1>1, <1>3, <2>1 DEF ClearAmbient, IInv, PrivType
  <2>2. CASE DropBounding
    BY <1>1, <1>3, <2>2 DEF DropBounding, IInv, PrivType
  <2>3. CASE caps' = caps
    BY <1>3, <2>3
  <2>4. ClearAmbient \/ DropBounding \/ caps' = caps
    BY <1>3, NextCases, EarlyFacts
       DEF IInv, EnterSandbox, SandboxFails, LateStep, NoNewPrivs, EnterSeccomp,
           SeccompInit, AddBlockRules, SeccompLoad, HostMount, HostUnmount, vars, priv
  <2>. QED
    BY <2>1, <2>2, <2>3, <2>4
<1>. QED
  BY <1>2, <1>3

\* Only the loading of the rules changes the filter, and it gets all of them.
LEMMA FilterStep ==
  ASSUME IInv, MapInv, [Next]_vars
  PROVE  IF pc = "load" /\ pc' = "serving" THEN "seccomp" \in cfg /\ filter' # {}
         ELSE filter' = filter
<1>1. CASE SeccompLoad
  <2>1. CASE pc' = "failed"
    BY <1>1, <2>1 DEF SeccompLoad, Call
  <2>2. CASE pc' = "serving" /\ pc = "load" /\ filter' = rules
    <3>1. archs \X (BLOCK \ Skippable) \subseteq rules
      BY <2>2 DEF IInv, ScmpInv
    <3>2. PICK c : c \in BLOCK \ Skippable
      BY LockdownAssumption DEF LockdownAssumption
    <3>3. <<Native, c>> \in rules
      BY <2>2, <3>1, <3>2 DEF MapInv
    <3>. QED
      BY <2>2, <3>3 DEF MapInv
  <2>. QED
    BY <1>1, <2>1, <2>2 DEF SeccompLoad, Call
<1>2. CASE ~SeccompLoad
  <2>1. filter' = filter
    BY <1>2, NextCases, EarlyFacts
       DEF IInv, EnterSandbox, SandboxFails, LateStep, NoNewPrivs, ClearAmbient,
           DropBounding, Capset, EnterSeccomp, SeccompInit, AddBlockRules, HostMount,
           HostUnmount, vars, scmp
  <2>2. ~(pc = "load" /\ pc' = "serving")
    BY <1>2, NextCases, EarlyFacts
       DEF IInv, EnterSandbox, SandboxFails, LateStep, NoNewPrivs, ClearAmbient,
           DropBounding, Capset, EnterSeccomp, SeccompInit, AddBlockRules, HostMount,
           HostUnmount, vars, Call, MountingCalls
  <2>. QED
    BY <2>1, <2>2
<1>. QED
  BY <1>1, <1>2

\* The mapping's invariant holds at first.
LEMMA MapInvInit == Init => MapInv
BY DEF Init, MapInv, SandboxCalls, FilterCalls

\* Every step keeps it.
LEMMA MapInvStep ==
  ASSUME IInv, MapInv, [Next]_vars
  PROVE  MapInv'
<1> USE DEF MapInv, FilterCalls, SandboxCalls, Call
<1>0. IF Capset THEN pc = "capset" /\ pc' = "seccomp"
                     /\ caps'["permitted"] = {CAP_NET_BIND_SERVICE}
      ELSE caps'["permitted"] = caps["permitted"]
  BY PermittedStep
<1>1. CASE EnterSandbox
  BY <1>0, <1>1 DEF EnterSandbox, Capset, given, mounts, scmp
<1>2. CASE SandboxFails
  BY <1>0, <1>2 DEF SandboxFails, Capset, given, mounts, scmp
<1>3. CASE EarlyStep
  <2>1. /\ cfg' = cfg /\ caps' = caps /\ archs' = archs
        /\ pc \in SandboxCalls /\ pc' \in SandboxCalls
    BY <1>3, EarlyFacts DEF IInv, given, priv, scmp, MountingCalls
  <2>. QED
    BY <2>1
<1>4. CASE Capset
  BY <1>0, <1>4, CapsetGivesUp DEF Capset, given, mounts, scmp
<1>5. CASE EnterSeccomp \/ SeccompInit \/ AddBlockRules \/ SeccompLoad
  <2>1. caps' = caps /\ cfg' = cfg /\ tmp' = tmp
    BY <1>5 DEF EnterSeccomp, SeccompInit, AddBlockRules, SeccompLoad, given, mounts, priv
  <2>. QED
    BY <1>5, <2>1 DEF EnterSeccomp, SeccompInit, AddBlockRules, SeccompLoad, scmp
<1>6. CASE NoNewPrivs \/ ClearAmbient \/ DropBounding
  <2>1. /\ cfg' = cfg /\ archs' = archs /\ pc \in SandboxCalls /\ pc' \in SandboxCalls
        /\ ~Capset
    BY <1>6 DEF NoNewPrivs, ClearAmbient, DropBounding, Capset, given, scmp
  <2>. QED
    BY <1>0, <2>1
<1>7. CASE \E p \in Leaf : HostMount(p) \/ HostUnmount(p)
  BY <1>7 DEF HostMount, HostUnmount, given, priv, scmp
<1>8. CASE UNCHANGED vars
  BY <1>8 DEF vars, given, mounts, priv, scmp
<1>. QED
  BY <1>1, <1>2, <1>3, <1>4, <1>5, <1>6, <1>7, <1>8, NextCases DEF LateStep

-----------------------------------------------------------------------------
\* Which steps the mapping shows: the calls of create_sandbox but the last and the
\* failing one, and those of enable_seccomp but the load, are not seen by do_slirp.
LEMMA RefinementStep ==
  ASSUME IInv, MapInv, [Next]_vars
  PROVE  D!Sandbox \/ D!Seccomp \/ UNCHANGED D!vars
<1> USE DEF SandboxCalls, FilterCalls
<1>0. cfg' = cfg
  BY DEF Next, vars, given, CreateSandbox, EnableSeccomp, EnterSandbox, SandboxFails,
         Unshare, MakePrivate, MountTmpfs, Mkdirs, SlaveFrom, Bind, SlaveTo, RemountRo,
         BindEscapedResolvConf, PivotRoot, Detach, RmdirOld, NoNewPrivs, ClearAmbient,
         DropBounding, Capset, EnterSeccomp, SeccompInit, AddBlockRules, SeccompLoad,
         HostMount, HostUnmount
<1>1. ASSUME Stage = "sandbox", Stage' = "seccomp", "sandbox" \notin cfg, Done' = Done
      PROVE  D!Sandbox
  BY <1>0, <1>1 DEF D!Sandbox, D!Step, D!array, D!event, D!env
<1>2. ASSUME Stage = "sandbox", "sandbox" \in cfg,
             \/ Stage' = "seccomp" /\ Done' = Done \cup {"hidden", "sandbox"}
             \/ Stage' = "err" /\ Done' \in {Done, Done \cup {"hidden"}}
      PROVE  D!Sandbox
  BY <1>0, <1>2 DEF D!Sandbox, D!Step, D!array, D!event, D!env
<1>3. ASSUME Stage = "seccomp", Stage' = "ready",
             Done' = IF "seccomp" \in cfg THEN Done \cup {"seccomp"} ELSE Done
      PROVE  D!Seccomp
  BY <1>0, <1>3 DEF D!Seccomp, D!Step, D!array, D!event, D!env
<1>4. ASSUME Stage = "seccomp", Stage' = "err", "seccomp" \in cfg, Done' = Done
      PROVE  D!Seccomp
  BY <1>0, <1>4 DEF D!Seccomp, D!Step, D!array, D!event, D!env
<1>5. ASSUME Stage' = Stage, Done' = Done
      PROVE  UNCHANGED D!vars
  BY <1>0, <1>5 DEF D!vars
<1>6. CASE EnterSandbox
  <2>1. pc = "sandbox" /\ caps' = caps /\ filter' = filter /\ tmp' = tmp
    BY <1>6 DEF EnterSandbox, Call, mounts, priv, scmp
  <2>2. CASE "sandbox" \in cfg
    <3>1. pc' = "unshare"
      BY <1>6, <2>2 DEF EnterSandbox, Call
    <3>. QED
      BY <1>5, <2>1, <3>1 DEF Stage, Done
  <2>3. CASE "sandbox" \notin cfg
    <3>1. pc' = "seccomp"
      BY <1>6, <2>3 DEF EnterSandbox, Call
    <3>. QED
      BY <1>1, <2>1, <2>3, <3>1 DEF Stage, Done
  <2>. QED
    BY <2>2, <2>3
<1>7. CASE SandboxFails
  <2>1. /\ pc \in SandboxCalls /\ pc' = "failed" /\ "sandbox" \in cfg
        /\ caps' = caps /\ filter' = filter /\ tmp' = tmp /\ caps["permitted"] = Cap
        /\ filter = {}
    BY <1>7 DEF SandboxFails, mounts, priv, scmp, MapInv, IInv, ScmpInv
  <2>2. Stage = "sandbox" /\ Stage' = "err"
    BY <2>1 DEF Stage
  <2>3. Done' \in {Done, Done \cup {"hidden"}}
    BY <2>1 DEF Done
  <2>. QED
    BY <1>2, <2>1, <2>2, <2>3
<1>8. CASE Capset
  <2>1. /\ pc = "capset" /\ pc' = "seccomp" /\ "sandbox" \in cfg
        /\ caps["permitted"] = Cap /\ caps'["permitted"] # Cap
        /\ filter' = filter /\ filter = {}
    BY <1>8, PermittedStep, CapsetGivesUp DEF Capset, scmp, MapInv, IInv, ScmpInv
  <2>2. Stage = "sandbox" /\ Stage' = "seccomp"
    BY <2>1 DEF Stage
  <2>3. Done = {} /\ Done' = {"hidden", "sandbox"}
    BY <2>1 DEF Done
  <2>. QED
    BY <1>2, <2>1, <2>2, <2>3
<1>9. CASE EarlyStep \/ NoNewPrivs \/ ClearAmbient \/ DropBounding
  <2>1. pc \in SandboxCalls /\ pc' \in SandboxCalls
    BY <1>9, EarlyFacts DEF IInv, MountingCalls, NoNewPrivs, ClearAmbient, DropBounding, Call
  <2>2. caps'["permitted"] = Cap /\ caps["permitted"] = Cap
    BY <2>1, MapInvStep DEF MapInv
  <2>3. filter' = filter
    BY <2>1, FilterStep
  <2>. QED
    BY <1>5, <2>1, <2>2, <2>3 DEF Stage, Done
<1>10. CASE EnterSeccomp \/ SeccompInit \/ AddBlockRules \/ SeccompLoad
  <2>1. /\ pc \in FilterCalls /\ pc' \in FilterCalls \cup {"serving", "failed"}
        /\ caps' = caps /\ tmp' = tmp
        /\ pc' = "failed" => pc \in {"init", "load"}
        /\ pc' = "serving" => IF "seccomp" \in cfg THEN pc = "load" ELSE pc = "seccomp"
    BY <1>10 DEF EnterSeccomp, SeccompInit, AddBlockRules, SeccompLoad, Call, mounts, priv,
                 MapInv
  <2>2. filter = {} /\ (caps["permitted"] = Cap => tmp = "none")
    BY <2>1 DEF IInv, ScmpInv, MapInv
  <2>3. CASE pc' = "serving"
    <3>1. Stage = "seccomp" /\ Stage' = "ready"
      BY <2>1, <2>3 DEF Stage
    <3>2. IF "seccomp" \in cfg THEN filter' # {} ELSE filter' = {}
      BY <2>1, <2>2, <2>3, FilterStep
    <3>3. Done' = IF "seccomp" \in cfg THEN Done \cup {"seccomp"} ELSE Done
      BY <2>1, <2>2, <2>3, <3>2 DEF Done
    <3>. QED
      BY <1>3, <3>1, <3>3
  <2>4. CASE pc' = "failed"
    <3>1. Stage = "seccomp" /\ Stage' = "err" /\ "seccomp" \in cfg
      BY <2>1, <2>4 DEF Stage, MapInv
    <3>2. filter' = filter
      BY <2>4, FilterStep
    <3>3. Done' = Done
      BY <2>1, <2>2, <3>2 DEF Done
    <3>. QED
      BY <1>4, <3>1, <3>3
  <2>5. CASE pc' \in FilterCalls
    <3>1. filter' = filter
      BY <2>5, FilterStep
    <3>. QED
      BY <1>5, <2>1, <2>5, <3>1 DEF Stage, Done
  <2>. QED
    BY <2>1, <2>3, <2>4, <2>5
<1>11. CASE (\E p \in Leaf : HostMount(p) \/ HostUnmount(p)) \/ UNCHANGED vars
  <2>1. pc' = pc /\ caps' = caps /\ filter' = filter /\ tmp' = tmp
    BY <1>11 DEF HostMount, HostUnmount, vars, mounts, priv, scmp
  <2>. QED
    BY <1>5, <2>1 DEF Stage, Done
<1>. QED
  BY <1>6, <1>7, <1>8, <1>9, <1>10, <1>11, NextCases DEF LateStep

\* create_sandbox and enable_seccomp, with every call in them that may fail and with the
\* host mounting in between, appear to do_slirp as the one step each that DoSlirp has.
THEOREM LockdownImplements == Spec => ImplementsDoSlirp
<1>1. IInv /\ MapInv /\ [Next]_vars => MapInv'
  BY MapInvStep
<1>2. IInv /\ MapInv /\ [Next]_vars => [D!Sandbox \/ D!Seccomp \/ UNCHANGED D!vars]_vars
  BY RefinementStep
<1>. QED
  BY <1>1, <1>2, Invariant, MapInvInit, PTL DEF Spec, ImplementsDoSlirp
=============================================================================
