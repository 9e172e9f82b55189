--------------------------- MODULE LockdownProofs ---------------------------
(***************************************************************************)
(* Proofs about Lockdown, for every set of capabilities and of system      *)
(* calls that libseccomp skips, and whatever the host mounts.              *)
(***************************************************************************)
EXTENDS Lockdown, TLAPS

\* Where the process is: after unshare, after / was made private, with /run no
\* longer shared, after pivot_root, after the old root is gone.
SeccompCalls  == {"seccomp", "init", "block", "load", "serving"}
After(calls)  == pc \in calls \/ ("sandbox" \in cfg /\ pc \in SeccompCalls)
PrivCalls     == {"no_new_privs", "ambient", "capbset", "capset"}
MountingCalls == {"tmpfs", "mkdir", "slave from", "bind", "slave to", "remount", "resolv",
                  "pivot", "detach"}
LateCalls     == {"rmdir"} \cup PrivCalls

\* Nothing the process has is a peer of the host's if it has a user namespace.
OwnInv ==
  own => /\ \A p \in Path : old[p] # "peer" /\ new[p] # "peer"
         /\ tmp # "peer" /\ leak = {} /\ lost = {}

\* /run is being bound, and is no longer a peer, or is done.
RunHandled == \/ pc \in {"bind", "slave to", "remount"} /\ from = "/run"
              \/ pc \in {"pivot", "detach"}
RunBound   == \/ pc \in {"slave to", "remount"} /\ from = "/run"
              \/ After({"pivot", "detach"} \cup LateCalls)

\* Which copies may be peers, and what that has done to the host.
PeerInv ==
  /\ shared \subseteq host \ Leaf /\ "resolv" \notin host
  /\ \A p \in Path \ Leaf : old[p] = "peer" => p \in shared
  /\ old["resolv"] = "none"
  /\ pc \in MountingCalls => old["/"] = "private"
  /\ RunHandled => old["/run"] # "peer"
  /\ tmp = "peer" => "/tmp" \in shared
  /\ leak # {} => "/tmp" \in shared
  /\ lost \subseteq {"/sys/fs"}

\* What has been bound and remounted.
BoundInv ==
  /\ \A p \in Path : new[p] # "none" => p \in {"/etc", "/run", "/run/ns", "resolv"}
  /\ pc \in {"slave from", "bind", "slave to", "remount"} => from \in {"/etc", "resolv", "/run"}
  /\ pc \in {"slave from", "bind", "slave to", "remount"} /\ from # "/etc" => "/etc" \in ro
  /\ pc = "resolv" => "/etc" \in ro
  /\ After({"pivot", "detach"} \cup LateCalls) => {"/etc", "/run"} \subseteq ro
  /\ After({"detach"} \cup LateCalls) => root = "new"
  /\ After(LateCalls) => \A p \in Path : old[p] = "none"

\* The copy of /run, and then what is bound of it, follow the host.
FollowInv ==
  "/run" \in shared =>
    /\ pc \in {"private"} \cup MountingCalls =>
         /\ old["/run"] \in {"slave", "peer"}
         /\ (old["/run/ns"] # "none") <=> "/run/ns" \in host
    /\ RunBound => /\ new["/run"] \in {"slave", "peer"}
                   /\ (new["/run/ns"] # "none") <=> "/run/ns" \in host

\* Where resolv.conf is known to be, and bound if it is outside.
ResolvInv ==
  /\ pc \in {"slave from", "bind", "slave to", "remount"} /\ from # "/etc"
       => resolv # "unknown"
  /\ After({"pivot", "detach"} \cup LateCalls) => resolv # "unknown"
  /\ resolv = "outside" => \/ new["resolv"] # "none"
                           \/ pc \in {"slave from", "bind", "failed"} /\ from = "resolv"

\* What each of the calls about privileges has achieved.
PrivInv ==
  /\ After({"ambient", "capbset", "capset"}) => nnp
  /\ After({"capbset", "capset"}) => caps["ambient"] = {}
  /\ i # 0 => pc \in {"capbset", "capset", "failed"} \cup SeccompCalls
  /\ pc = "capbset" => \A c \in caps["bounding"] : c >= i \/ c = CAP_NET_BIND_SERVICE
  /\ After({"capset"}) => caps["bounding"] \subseteq {CAP_NET_BIND_SERVICE}
  /\ After({}) => \A s \in {"effective", "permitted", "inheritable"} :
                    caps[s] \subseteq {CAP_NET_BIND_SERVICE}

\* The rules are complete before they are loaded, and in force once serving.
ScmpInv ==
  /\ rules # {} => pc \in {"load", "failed", "serving"}
  /\ filter # {} => pc = "serving"
  /\ pc = "load" => archs \X (BLOCK \ Skippable) \subseteq rules
  /\ pc = "serving" /\ "seccomp" \in cfg => archs \X (BLOCK \ Skippable) \subseteq filter

\* TypeOK in three parts: the mounts, the privileges, the filter.
PcType == pc \in SandboxCalls \cup {"sandbox", "seccomp", "init", "block", "load", "failed",
                                   "serving"}
MountType ==
  /\ cfg \subseteq {"sandbox", "seccomp"} /\ own \in BOOLEAN
  /\ resolv \in {"unknown", "missing", "inside", "lookalike", "outside"}
  /\ host \subseteq Path /\ shared \subseteq Path
  /\ from \in {"/", "/etc", "resolv", "/run"}
  /\ old \in [Path -> Link] /\ new \in [Path -> Link]
  /\ tmp \in {"none", "private", "peer"} /\ root \in {"old", "new"}
  /\ ro \subseteq Path /\ leak \subseteq Path /\ lost \subseteq Path
PrivType ==
  /\ nnp \in BOOLEAN /\ i \in 0 .. CAP_LAST_CAP + 1
  /\ caps \in [{"ambient", "bounding", "effective", "permitted", "inheritable"} -> SUBSET Cap]
ScmpType == /\ archs \subseteq {Native} \cup seccomp_extra_archs
            /\ rules \subseteq archs \X BLOCK /\ filter \subseteq rules

IInv == /\ PcType /\ MountType /\ PrivType /\ ScmpType
        /\ OwnInv /\ PeerInv /\ BoundInv /\ FollowInv /\ ResolvInv /\ PrivInv /\ ScmpInv

-----------------------------------------------------------------------------
\* Capabilities are numbered from zero.
LEMMA CapFacts == \A c \in Cap : c >= 0
  BY DEF Cap

\* What Seen does to a copy: at most the mount at p changes, and only if the
\* mount it is on is shared and followed.
LEMMA SeenFacts ==
  ASSUME NEW tree \in [Path -> Link], NEW p \in Leaf, NEW link, host \subseteq Path
  PROVE  /\ Seen(tree, p, link) \in [Path -> Link]
         /\ \A q \in Path \ {p} : Seen(tree, p, link)[q] = tree[q]
         /\ Seen(tree, p, link)[p] =
              IF On(p, host) \in shared /\ tree[On(p, host)] \in {"slave", "peer"}
              THEN IF link = "none" THEN "none" ELSE tree[On(p, host)]
              ELSE tree[p]
  BY DEF Seen, Follows, On, Dir, Path, Top, Leaf, Link

\* MakeSlave turns peers at and below p into slaves and changes nothing else.
LEMMA MakeSlaveFacts ==
  ASSUME NEW tree \in [Path -> Link], NEW p \in Path
  PROVE  /\ MakeSlave(tree, p) \in [Path -> Link]
         /\ \A q \in Path : MakeSlave(tree, p)[q] =
              IF (q = p \/ Dir(q) = p) /\ tree[q] = "peer" THEN "slave" ELSE tree[q]
  BY DEF MakeSlave, Below, Link

\* unshare(CLONE_NEWNS) copies every mount of the host, as a peer only of a shared
\* mount, and never as a peer into another user namespace.
LEMMA CopiedFacts ==
  ASSUME host \subseteq Path
  PROVE  /\ Copied \in [Path -> Link]
         /\ own => \A p \in Path : Copied[p] # "peer"
         /\ \A p \in Path : Copied[p] # "none" <=> p \in host
         /\ \A p \in Path \ Leaf : Copied[p] = "peer" => p \in shared
         /\ "/run" \in shared /\ "/run" \in host => Copied["/run"] \in {"slave", "peer"}
  BY DEF Copied, Path, Top, Leaf, Link

\* After the first mount of add_mount the source is no peer, and peers may only
\* have become slaves.
LEMMA SlaveFromFacts ==
  ASSUME SlaveFrom, MountType
  PROVE  /\ old' \in [Path -> Link] /\ old'[from] # "peer"
         /\ \A q \in Path : old'[q] = old[q] \/ (old[q] = "peer" /\ old'[q] = "slave")
<1>1. from \in Path /\ old \in [Path -> Link]
  BY DEF MountType, Path, Top
<1>2. CASE from \in At(old)
  BY <1>1, <1>2, MakeSlaveFacts DEF SlaveFrom
<1>3. CASE from \notin At(old)
  BY <1>1, <1>3 DEF SlaveFrom, At
<1>. QED
  BY <1>2, <1>3

\* The third mount of add_mount may only turn peers into slaves.
LEMMA SlaveToFacts ==
  ASSUME SlaveTo, MountType
  PROVE  /\ new' \in [Path -> Link]
         /\ \A q \in Path : new'[q] = new[q] \/ (new[q] = "peer" /\ new'[q] = "slave")
<1>1. from \in Path /\ new \in [Path -> Link]
  BY DEF MountType, Path, Top
<1>. QED
  BY <1>1, MakeSlaveFacts DEF SlaveTo

\* A host step changes p alone, and in a copy only if the copy follows the host.
HostStep(p, tree, seen) ==
  /\ seen \in [Path -> Link]
  /\ \A q \in Path \ {p} : seen[q] = tree[q]
  /\ seen[p] = IF On(p, host) \in shared /\ tree[On(p, host)] \in {"slave", "peer"}
               THEN IF p \in host THEN "none" ELSE tree[On(p, host)]
               ELSE tree[p]

\* Both copies change as HostStep says when the host mounts or unmounts.
LEMMA HostFacts ==
  ASSUME NEW p \in Leaf, HostMount(p) \/ HostUnmount(p), MountType
  PROVE  /\ HostStep(p, old, old') /\ HostStep(p, new, new')
         /\ host' = IF p \in host THEN host \ {p} ELSE host \cup {p}
<1>1. CASE HostMount(p)
  BY <1>1, SeenFacts DEF HostMount, HostStep, MountType
<1>2. CASE HostUnmount(p)
  BY <1>2, SeenFacts DEF HostUnmount, HostStep, MountType
<1>. QED
  BY <1>1, <1>2

\* MS_BIND | MS_REC copies the source, or the root it is on, and what is below it.
LEMMA BindFacts ==
  ASSUME Bind, MountType
  PROVE  /\ new' \in [Path -> Link]
         /\ new'[from] = old[IF old[from] # "none" THEN from ELSE "/"]
         /\ \A p \in Path \ {from} : new'[p] = IF Dir(p) = from THEN old[p] ELSE new[p]
  BY DEF Bind, MountType, At, Below, Path, Top, Leaf


\* The calls that are about mounts, and those after them.
EarlyStep ==
  \/ Unshare \/ MakePrivate \/ MountTmpfs \/ Mkdirs \/ SlaveFrom \/ Bind \/ SlaveTo
  \/ RemountRo \/ BindEscapedResolvConf \/ PivotRoot \/ Detach \/ RmdirOld
LateStep ==
  \/ NoNewPrivs \/ ClearAmbient \/ DropBounding \/ Capset
  \/ EnterSeccomp \/ SeccompInit \/ AddBlockRules \/ SeccompLoad

\* The calls about mounts leave the privileges and the filter alone.
LEMMA EarlyFacts ==
  ASSUME EarlyStep, BoundInv
  PROVE  /\ UNCHANGED <<given, priv, scmp>>
         /\ pc \in {"unshare", "private", "rmdir"} \cup MountingCalls
         /\ pc' \in {"private", "rmdir", "no_new_privs"} \cup MountingCalls
<1> USE DEF Call, given, priv, scmp, MountingCalls
<1>1. CASE RemountRo
  <2>1. pc = "remount" /\ from \in {"/etc", "resolv", "/run"}
    BY <1>1 DEF RemountRo, BoundInv
  <2>. QED
    BY <1>1, <2>1 DEF RemountRo
<1>. QED
  BY <1>1 DEF EarlyStep, Unshare, MakePrivate, MountTmpfs, Mkdirs, SlaveFrom, Bind,
         SlaveTo,
              BindEscapedResolvConf, PivotRoot, Detach, RmdirOld

\* The calls after them leave the mounts alone, and none leads back.
LEMMA LateFacts ==
  ASSUME LateStep
  PROVE  /\ UNCHANGED <<given, host, mounts, damage>>
         /\ pc \in PrivCalls \cup SeccompCalls
         /\ pc' \in PrivCalls \cup SeccompCalls \cup {"failed"}
         /\ pc \in SeccompCalls => pc' \notin PrivCalls
  BY DEF LateStep, NoNewPrivs, ClearAmbient, DropBounding, Capset, EnterSeccomp,
         SeccompInit, AddBlockRules, SeccompLoad, Call, PrivCalls, SeccompCalls

\* The steps by kind.
LEMMA NextCases ==
  ASSUME [Next]_vars
  PROVE  \/ EnterSandbox \/ SandboxFails \/ EarlyStep \/ LateStep
         \/ \E p \in Leaf : HostMount(p) \/ HostUnmount(p)
         \/ UNCHANGED vars
  BY DEF Next, CreateSandbox, EnableSeccomp, EarlyStep, LateStep

\* pc keeps its type.
LEMMA PcTypeStep ==
  ASSUME PcType, BoundInv, [Next]_vars
  PROVE  PcType'
<1> USE DEF Call, PcType, SandboxCalls, BoundInv
<1>1. CASE EnterSandbox
  BY <1>1 DEF EnterSandbox
<1>2. CASE SandboxFails
  BY <1>2 DEF SandboxFails
<1>3. CASE EarlyStep
  BY <1>3, EarlyFacts DEF MountingCalls
<1>4. CASE LateStep
  BY <1>4, LateFacts DEF PrivCalls, SeccompCalls
<1>5. ASSUME NEW p \in Leaf, HostMount(p) \/ HostUnmount(p)  PROVE PcType'
  BY <1>5 DEF HostMount, HostUnmount
<1>6. CASE UNCHANGED vars
  BY <1>6 DEF vars, given, mounts, damage, priv, scmp
<1> HIDE DEF Call, PcType, SandboxCalls, BoundInv
<1>. QED
  BY <1>1, <1>2, <1>3, <1>4, <1>5, <1>6, NextCases

\* The variables about mounts keep their types.
LEMMA MountTypeStep ==
  ASSUME MountType, [Next]_vars
  PROVE  MountType'
<1> USE DEF Call, MountType, given, mounts, damage
<1>1. CASE EnterSandbox
  BY <1>1 DEF EnterSandbox, Path, Top, Leaf, Link
<1>2. CASE SandboxFails
  BY <1>2 DEF SandboxFails, Path, Top, Leaf, Link
<1>3. CASE Unshare
  BY <1>3, CopiedFacts DEF Unshare, Path, Top, Leaf, Link
<1>4. CASE MakePrivate
  BY <1>4 DEF MakePrivate, Path, Top, Leaf, Link
<1>5. CASE MountTmpfs
  BY <1>5 DEF MountTmpfs, At, Path, Top, Leaf, Link
<1>6. CASE Mkdirs
  BY <1>6 DEF Mkdirs, Path, Top, Leaf, Link
<1>7. CASE SlaveFrom
  BY <1>7, SlaveFromFacts, ZenonT(30) DEF SlaveFrom, Path, Top, Leaf, Link
<1>8. CASE Bind
  BY <1>8, BindFacts DEF Bind, Dir, Path, Top, Leaf, Link
<1>9. CASE SlaveTo
  BY <1>9, SlaveToFacts, ZenonT(30) DEF SlaveTo, Path, Top, Leaf, Link
<1>10. CASE RemountRo
  BY <1>10 DEF RemountRo, Path, Top, Leaf, Link
<1>11. CASE BindEscapedResolvConf
  BY <1>11 DEF BindEscapedResolvConf, Path, Top, Leaf, Link
<1>12. CASE PivotRoot
  BY <1>12 DEF PivotRoot, Path, Top, Leaf, Link
<1>13. CASE Detach
  BY <1>13 DEF Detach, Follows, On, Dir, At, Path, Top, Leaf, Link
<1>14. CASE RmdirOld
  BY <1>14 DEF RmdirOld, Path, Top, Leaf, Link
<1>15. CASE LateStep
  BY <1>15, LateFacts DEF PrivCalls, SeccompCalls
<1>16. ASSUME NEW p \in Leaf, HostMount(p) \/ HostUnmount(p)  PROVE MountType'
  <2>1. UNCHANGED <<given, pc, resolv, from, tmp, root, ro, damage>>
    BY <1>16 DEF HostMount, HostUnmount
  <2>2. /\ HostStep(p, old, old') /\ HostStep(p, new, new')
        /\ host' = IF p \in host THEN host \ {p} ELSE host \cup {p}
    BY <1>16, HostFacts
  <2>3. CASE p = "/run/ns"
    BY <2>1, <2>2, <2>3, ZenonT(30) DEF HostStep, On, Dir, Path, Top, Leaf, Link
  <2>4. CASE p = "/sys/fs"
    BY <2>1, <2>2, <2>4, ZenonT(30) DEF HostStep, On, Dir, Path, Top, Leaf, Link
  <2>. QED
    BY <2>3, <2>4 DEF Leaf
<1>17. CASE UNCHANGED vars
  BY <1>17 DEF vars, given, mounts, damage, priv, scmp
<1> HIDE DEF Call, MountType, given, mounts, damage
<1>. QED
  BY <1>1, <1>2, <1>3, <1>4, <1>5, <1>6, <1>7, <1>8, <1>9, <1>10, <1>11, <1>12, <1>13,
         <1>14, <1>15, <1>16, <1>17, NextCases DEF EarlyStep

\* The variables about privileges keep their types: the loop of capabilities ends.
LEMMA PrivTypeStep ==
  ASSUME PrivType, BoundInv, [Next]_vars
  PROVE  PrivType'
<1> USE DEF Call, PrivType, priv, Cap
<1>1. CASE EnterSandbox
  BY <1>1 DEF EnterSandbox
<1>2. CASE SandboxFails
  BY <1>2 DEF SandboxFails
<1>3. CASE EarlyStep
  BY <1>3, EarlyFacts DEF MountingCalls
<1>4. CASE NoNewPrivs
  BY <1>4 DEF NoNewPrivs
<1>5. CASE ClearAmbient
  BY <1>5 DEF ClearAmbient
<1>6. CASE DropBounding
  BY <1>6, CapAssumption DEF DropBounding, CapAssumption, Cap
<1>7. CASE Capset
  BY <1>7 DEF Capset
<1>8. CASE EnterSeccomp
  BY <1>8 DEF EnterSeccomp
<1>9. CASE SeccompInit
  BY <1>9 DEF SeccompInit
<1>10. CASE AddBlockRules
  BY <1>10 DEF AddBlockRules
<1>11. CASE SeccompLoad
  BY <1>11 DEF SeccompLoad
<1>12. ASSUME NEW p \in Leaf, HostMount(p) \/ HostUnmount(p)  PROVE PrivType'
  BY <1>12 DEF HostMount, HostUnmount
<1>13. CASE UNCHANGED vars
  BY <1>13 DEF vars, given, mounts, damage, priv, scmp
<1> HIDE DEF Call, PrivType, priv, Cap
<1>. QED
  BY <1>1, <1>2, <1>3, <1>4, <1>5, <1>6, <1>7, <1>8, <1>9, <1>10, <1>11, <1>12, <1>13,
         NextCases DEF LateStep

\* The filter has rules of the BLOCK list only, for its archs.
LEMMA ScmpTypeStep ==
  ASSUME ScmpType, ScmpInv, BoundInv, [Next]_vars
  PROVE  ScmpType'
<1> USE DEF Call, ScmpType, ScmpInv, scmp
<1>1. CASE EnterSandbox
  BY <1>1 DEF EnterSandbox
<1>2. CASE SandboxFails
  BY <1>2 DEF SandboxFails
<1>3. CASE EarlyStep
  BY <1>3, EarlyFacts DEF MountingCalls
<1>4. CASE NoNewPrivs
  BY <1>4 DEF NoNewPrivs
<1>5. CASE ClearAmbient
  BY <1>5 DEF ClearAmbient
<1>6. CASE DropBounding
  BY <1>6 DEF DropBounding
<1>7. CASE Capset
  BY <1>7 DEF Capset
<1>8. CASE EnterSeccomp
  BY <1>8 DEF EnterSeccomp
<1>9. CASE SeccompInit
  BY <1>9 DEF SeccompInit
<1>10. CASE AddBlockRules
  BY <1>10 DEF AddBlockRules
<1>11. CASE SeccompLoad
  BY <1>11 DEF SeccompLoad
<1>12. ASSUME NEW p \in Leaf, HostMount(p) \/ HostUnmount(p)  PROVE ScmpType'
  BY <1>12 DEF HostMount, HostUnmount
<1>13. CASE UNCHANGED vars
  BY <1>13 DEF vars, given, mounts, damage, priv, scmp
<1> HIDE DEF Call, ScmpType, ScmpInv, scmp
<1>. QED
  BY <1>1, <1>2, <1>3, <1>4, <1>5, <1>6, <1>7, <1>8, <1>9, <1>10, <1>11, <1>12, <1>13,
         NextCases DEF LateStep

\* No call makes a peer for a process with a user namespace of its own.
LEMMA OwnInvStep ==
  ASSUME MountType, OwnInv, [Next]_vars
  PROVE  OwnInv'
<1> USE DEF Call, MountType, OwnInv, given, mounts, damage
<1>1. CASE EnterSandbox
  BY <1>1 DEF EnterSandbox
<1>2. CASE SandboxFails
  BY <1>2 DEF SandboxFails
<1>3. CASE Unshare
  BY <1>3, CopiedFacts DEF Unshare, Path, Top, Leaf, Link
<1>4. CASE MakePrivate
  BY <1>4 DEF MakePrivate, Path, Top, Leaf, Link
<1>5. CASE MountTmpfs
  BY <1>5 DEF MountTmpfs, At, Path, Top, Leaf, Link
<1>6. CASE Mkdirs
  BY <1>6 DEF Mkdirs
<1>7. CASE SlaveFrom
  BY <1>7, SlaveFromFacts, ZenonT(30) DEF SlaveFrom, Path, Top, Leaf, Link
<1>8. CASE Bind
  BY <1>8, BindFacts DEF Bind, Dir, Path, Top, Leaf, Link
<1>9. CASE SlaveTo
  BY <1>9, SlaveToFacts, ZenonT(30) DEF SlaveTo, Path, Top, Leaf, Link
<1>10. CASE RemountRo
  BY <1>10 DEF RemountRo
<1>11. CASE BindEscapedResolvConf
  BY <1>11 DEF BindEscapedResolvConf
<1>12. CASE PivotRoot
  BY <1>12 DEF PivotRoot
<1>13. CASE Detach
  BY <1>13 DEF Detach, Follows, On, Dir, At, Path, Top, Leaf, Link
<1>14. CASE RmdirOld
  BY <1>14 DEF RmdirOld, Path, Top, Leaf, Link
<1>15. CASE LateStep
  BY <1>15, LateFacts DEF PrivCalls, SeccompCalls
<1>16. ASSUME NEW p \in Leaf, HostMount(p) \/ HostUnmount(p)  PROVE OwnInv'
  <2>1. UNCHANGED <<given, pc, resolv, from, tmp, root, ro, damage>>
    BY <1>16 DEF HostMount, HostUnmount
  <2>2. /\ HostStep(p, old, old') /\ HostStep(p, new, new')
        /\ host' = IF p \in host THEN host \ {p} ELSE host \cup {p}
    BY <1>16, HostFacts
  <2>3. CASE p = "/run/ns"
    BY <2>1, <2>2, <2>3 DEF HostStep, On, Dir, Path, Top, Leaf, Link
  <2>4. CASE p = "/sys/fs"
    BY <2>1, <2>2, <2>4 DEF HostStep, On, Dir, Path, Top, Leaf, Link
  <2>. QED
    BY <2>3, <2>4 DEF Leaf
<1>17. CASE UNCHANGED vars
  BY <1>17 DEF vars, given, mounts, damage, priv, scmp
<1> HIDE DEF Call, MountType, OwnInv, given, mounts, damage
<1>. QED
  BY <1>1, <1>2, <1>3, <1>4, <1>5, <1>6, <1>7, <1>8, <1>9, <1>10, <1>11, <1>12, <1>13,
         <1>14, <1>15, <1>16, <1>17, NextCases DEF EarlyStep

\* Only /tmp and /sys can still be peers where a mount or an unmount would show.
LEMMA PeerInvStep ==
  ASSUME PcType, MountType, PeerInv, BoundInv, [Next]_vars
  PROVE  PeerInv'
<1> USE DEF Call, PcType, MountType, PeerInv, BoundInv, given, mounts, damage, After,
       SeccompCalls, PrivCalls, MountingCalls, LateCalls, SandboxCalls, RunHandled, RunBound
<1>1. CASE EnterSandbox
  BY <1>1 DEF EnterSandbox
<1>2. CASE SandboxFails
  BY <1>2 DEF SandboxFails
<1>3. CASE Unshare
  BY <1>3, CopiedFacts DEF Unshare, Path, Top, Leaf, Link
<1>4. CASE MakePrivate
  BY <1>4 DEF MakePrivate, Path, Top, Leaf, Link
<1>5. CASE MountTmpfs
  BY <1>5 DEF MountTmpfs, At, Path, Top, Leaf, Link
<1>6. CASE Mkdirs
  BY <1>6 DEF Mkdirs
<1>7. CASE SlaveFrom
  BY <1>7, SlaveFromFacts, ZenonT(30) DEF SlaveFrom, Path, Top, Leaf, Link
<1>8. CASE Bind
  BY <1>8, BindFacts DEF Bind, Dir, Path, Top, Leaf, Link
<1>9. CASE SlaveTo
  BY <1>9, SlaveToFacts, ZenonT(30) DEF SlaveTo, Path, Top, Leaf, Link
<1>10. CASE RemountRo
  BY <1>10 DEF RemountRo
<1>11. CASE BindEscapedResolvConf
  BY <1>11 DEF BindEscapedResolvConf
<1>12. CASE PivotRoot
  BY <1>12 DEF PivotRoot
<1>13. CASE Detach
  BY <1>13 DEF Detach, Follows, On, Dir, At, Path, Top, Leaf, Link
<1>14. CASE RmdirOld
  BY <1>14 DEF RmdirOld, Path, Top, Leaf, Link
<1>15. CASE LateStep
  BY <1>15, LateFacts DEF PrivCalls, SeccompCalls
<1>16. ASSUME NEW p \in Leaf, HostMount(p) \/ HostUnmount(p)  PROVE PeerInv'
  <2>1. UNCHANGED <<given, pc, resolv, from, tmp, root, ro, damage>>
    BY <1>16 DEF HostMount, HostUnmount
  <2>2. /\ HostStep(p, old, old') /\ HostStep(p, new, new')
        /\ host' = IF p \in host THEN host \ {p} ELSE host \cup {p}
    BY <1>16, HostFacts
  <2>3. CASE p = "/run/ns"
    BY <2>1, <2>2, <2>3, ZenonT(30) DEF HostStep, On, Dir, Path, Top, Leaf, Link
  <2>4. CASE p = "/sys/fs"
    BY <2>1, <2>2, <2>4, ZenonT(30) DEF HostStep, On, Dir, Path, Top, Leaf, Link
  <2>. QED
    BY <2>3, <2>4 DEF Leaf
<1>17. CASE UNCHANGED vars
  BY <1>17 DEF vars, given, mounts, damage, priv, scmp
<1> HIDE DEF Call, PcType, MountType, PeerInv, BoundInv, given, mounts, damage, After,
       SeccompCalls, PrivCalls, MountingCalls, LateCalls, SandboxCalls, RunHandled, RunBound
<1>. QED
  BY <1>1, <1>2, <1>3, <1>4, <1>5, <1>6, <1>7, <1>8, <1>9, <1>10, <1>11, <1>12, <1>13,
         <1>14, <1>15, <1>16, <1>17, NextCases DEF EarlyStep

\* Nothing but /etc, /run and resolv.conf is bound, and all of it is read-only
\* before pivot_root.
LEMMA BoundInvStep ==
  ASSUME PcType, MountType, BoundInv, [Next]_vars
  PROVE  BoundInv'
<1> USE DEF Call, PcType, MountType, BoundInv, given, mounts, damage, After,
       SeccompCalls, PrivCalls, MountingCalls, LateCalls, SandboxCalls, RunHandled, RunBound
<1>1. CASE EnterSandbox
  BY <1>1 DEF EnterSandbox
<1>2. CASE SandboxFails
  BY <1>2 DEF SandboxFails
<1>3. CASE Unshare
  BY <1>3, CopiedFacts DEF Unshare, Path, Top, Leaf, Link
<1>4. CASE MakePrivate
  BY <1>4 DEF MakePrivate, Path, Top, Leaf, Link
<1>5. CASE MountTmpfs
  BY <1>5 DEF MountTmpfs, At, Path, Top, Leaf, Link
<1>6. CASE Mkdirs
  BY <1>6 DEF Mkdirs
<1>7. CASE SlaveFrom
  BY <1>7, SlaveFromFacts, ZenonT(30) DEF SlaveFrom, Path, Top, Leaf, Link
<1>8. CASE Bind
  BY <1>8, BindFacts DEF Bind, Dir, Path, Top, Leaf, Link
<1>9. CASE SlaveTo
  BY <1>9, SlaveToFacts, ZenonT(30) DEF SlaveTo, Path, Top, Leaf, Link
<1>10. CASE RemountRo
  <2>1. from \in {"/etc", "resolv", "/run"} /\ UNCHANGED <<cfg, new, old, root>>
    BY <1>10 DEF RemountRo
  <2>2. CASE from = "/etc"
    BY <1>10, <2>1, <2>2 DEF RemountRo
  <2>3. CASE from = "resolv"
    BY <1>10, <2>1, <2>3 DEF RemountRo
  <2>4. CASE from = "/run"
    BY <1>10, <2>1, <2>4 DEF RemountRo
  <2>. QED
    BY <2>1, <2>2, <2>3, <2>4
<1>11. CASE BindEscapedResolvConf
  BY <1>11 DEF BindEscapedResolvConf
<1>12. CASE PivotRoot
  BY <1>12 DEF PivotRoot
<1>13. CASE Detach
  BY <1>13 DEF Detach, Follows, On, Dir, At, Path, Top, Leaf, Link
<1>14. CASE RmdirOld
  BY <1>14 DEF RmdirOld, Path, Top, Leaf, Link
<1>15. CASE LateStep
  BY <1>15, LateFacts DEF PrivCalls, SeccompCalls
<1>16. ASSUME NEW p \in Leaf, HostMount(p) \/ HostUnmount(p)  PROVE BoundInv'
  <2>1. UNCHANGED <<given, pc, resolv, from, tmp, root, ro, damage>>
    BY <1>16 DEF HostMount, HostUnmount
  <2>2. /\ HostStep(p, old, old') /\ HostStep(p, new, new')
        /\ On(p, host) \in {"/run", "/sys", "/"}
    BY <1>16, HostFacts DEF On, Dir, Leaf
  <2>3. \A q \in Path : new'[q] # "none" => q \in {"/etc", "/run", "/run/ns", "resolv"}
    <3>1. p = "/run/ns" \/ new'[p] = "none"
      <4>1. new["/"] = "none" /\ new["/sys"] = "none" /\ new["/sys/fs"] = "none"
        <5>1. "/" \in Path /\ "/sys" \in Path /\ "/sys/fs" \in Path
          BY DEF Path, Top, Leaf
        <5>2. \A q \in Path : new[q] # "none" => q \in {"/etc", "/run", "/run/ns", "resolv"}
          OBVIOUS
        <5> HIDE DEF BoundInv, MountType
        <5>. QED
          BY <5>1, <5>2
      <4>2. p = "/run/ns" \/ (p = "/sys/fs" /\ On(p, host) \in {"/sys", "/"})
        BY DEF On, Dir, Leaf
      <4>. QED
        BY <2>2, <4>1, <4>2 DEF HostStep
    <3>. QED
      BY <2>2, <3>1 DEF HostStep
  <2>4. (\A q \in Path : old[q] = "none") => (\A q \in Path : old'[q] = "none")
    <3>1. p \in Path /\ On(p, host) \in Path
      BY <2>2 DEF Path, Top, Leaf
    <3>2. ASSUME \A q \in Path : old[q] = "none"  PROVE old'[p] = "none"
      BY <2>2, <3>1, <3>2 DEF HostStep
    <3>. QED
      BY <2>2, <3>1, <3>2 DEF HostStep
  <2>. QED
    BY <2>1, <2>3, <2>4
<1>17. CASE UNCHANGED vars
  BY <1>17 DEF vars, given, mounts, damage, priv, scmp
<1> HIDE DEF Call, PcType, MountType, BoundInv, given, mounts, damage, After,
       SeccompCalls, PrivCalls, MountingCalls, LateCalls, SandboxCalls, RunHandled, RunBound
<1>. QED
  BY <1>1, <1>2, <1>3, <1>4, <1>5, <1>6, <1>7, <1>8, <1>9, <1>10, <1>11, <1>12, <1>13,
         <1>14, <1>15, <1>16, <1>17, NextCases DEF EarlyStep

\* The bound /run keeps following the host through all the calls.
LEMMA FollowInvStep ==
  ASSUME PcType, MountType, PeerInv, BoundInv, FollowInv, [Next]_vars
  PROVE  FollowInv'
<1> USE DEF Call, PcType, MountType, PeerInv, BoundInv, FollowInv, given, mounts,
       damage, After, SeccompCalls, PrivCalls, MountingCalls, LateCalls, SandboxCalls,
       RunHandled, RunBound
<1>1. CASE EnterSandbox
  BY <1>1 DEF EnterSandbox
<1>2. CASE SandboxFails
  BY <1>2 DEF SandboxFails
<1>3. CASE Unshare
  BY <1>3, CopiedFacts DEF Unshare, Path, Top, Leaf, Link
<1>4. CASE MakePrivate
  BY <1>4 DEF MakePrivate, Path, Top, Leaf, Link
<1>5. CASE MountTmpfs
  BY <1>5 DEF MountTmpfs, At, Path, Top, Leaf, Link
<1>6. CASE Mkdirs
  BY <1>6 DEF Mkdirs
<1>7. CASE SlaveFrom
  BY <1>7, SlaveFromFacts, ZenonT(30) DEF SlaveFrom, Path, Top, Leaf, Link
<1>8. CASE Bind
  BY <1>8, BindFacts DEF Bind, Dir, Path, Top, Leaf, Link
<1>9. CASE SlaveTo
  BY <1>9, SlaveToFacts, ZenonT(30) DEF SlaveTo, Path, Top, Leaf, Link
<1>10. CASE RemountRo
  BY <1>10 DEF RemountRo
<1>11. CASE BindEscapedResolvConf
  BY <1>11 DEF BindEscapedResolvConf
<1>12. CASE PivotRoot
  BY <1>12 DEF PivotRoot
<1>13. CASE Detach
  BY <1>13 DEF Detach, Follows, On, Dir, At, Path, Top, Leaf, Link
<1>14. CASE RmdirOld
  BY <1>14 DEF RmdirOld, Path, Top, Leaf, Link
<1>15. CASE LateStep
  <2>1. UNCHANGED <<given, host, mounts>>
    BY <1>15, LateFacts
  <2>2. pc' \notin {"private", "slave to", "remount"} \cup MountingCalls
    BY <1>15, LateFacts DEF PrivCalls, SeccompCalls, MountingCalls
  <2>3. RunBound' => RunBound
    BY <1>15, <2>1, <2>2, LateFacts DEF RunBound, After, PrivCalls, SeccompCalls,
           LateCalls
  <2> HIDE DEF RunBound, PeerInv, BoundInv
  <2>. QED
    BY <2>1, <2>2, <2>3
<1>16. ASSUME NEW p \in Leaf, HostMount(p) \/ HostUnmount(p)  PROVE FollowInv'
  <2>1. UNCHANGED <<given, pc, resolv, from, tmp, root, ro, damage>>
    BY <1>16 DEF HostMount, HostUnmount
  <2>2. /\ HostStep(p, old, old') /\ HostStep(p, new, new')
        /\ host' = IF p \in host THEN host \ {p} ELSE host \cup {p}
    BY <1>16, HostFacts
  <2>3. CASE p = "/run/ns"
    BY <2>1, <2>2, <2>3, ZenonT(30) DEF HostStep, On, Dir, Path, Top, Leaf, Link
  <2>4. CASE p = "/sys/fs"
    BY <2>1, <2>2, <2>4, ZenonT(30) DEF HostStep, On, Dir, Path, Top, Leaf, Link
  <2>. QED
    BY <2>3, <2>4 DEF Leaf
<1>17. CASE UNCHANGED vars
  BY <1>17 DEF vars, given, mounts, damage, priv, scmp
<1> HIDE DEF Call, PcType, MountType, PeerInv, BoundInv, FollowInv, given, mounts,
       damage, After, SeccompCalls, PrivCalls, MountingCalls, LateCalls, SandboxCalls,
       RunHandled, RunBound
<1>. QED
  BY <1>1, <1>2, <1>3, <1>4, <1>5, <1>6, <1>7, <1>8, <1>9, <1>10, <1>11, <1>12, <1>13,
         <1>14, <1>15, <1>16, <1>17, NextCases DEF EarlyStep

\* A resolv.conf found outside is bound before the next call.
LEMMA ResolvInvStep ==
  ASSUME PcType, MountType, PeerInv, BoundInv, ResolvInv, [Next]_vars
  PROVE  ResolvInv'
<1> USE DEF Call, PcType, MountType, PeerInv, BoundInv, ResolvInv, given, mounts,
       damage, After, SeccompCalls, PrivCalls, MountingCalls, LateCalls, SandboxCalls,
       RunHandled, RunBound
<1>1. CASE EnterSandbox
  BY <1>1 DEF EnterSandbox
<1>2. CASE SandboxFails
  BY <1>2 DEF SandboxFails
<1>3. CASE Unshare
  BY <1>3, CopiedFacts DEF Unshare, Path, Top, Leaf, Link
<1>4. CASE MakePrivate
  BY <1>4 DEF MakePrivate, Path, Top, Leaf, Link
<1>5. CASE MountTmpfs
  BY <1>5 DEF MountTmpfs, At, Path, Top, Leaf, Link
<1>6. CASE Mkdirs
  BY <1>6 DEF Mkdirs
<1>7. CASE SlaveFrom
  BY <1>7, SlaveFromFacts, ZenonT(30) DEF SlaveFrom, Path, Top, Leaf, Link
<1>8. CASE Bind
  BY <1>8, BindFacts DEF Bind, Dir, Path, Top, Leaf, Link
<1>9. CASE SlaveTo
  BY <1>9, SlaveToFacts, ZenonT(30) DEF SlaveTo, Path, Top, Leaf, Link
<1>10. CASE RemountRo
  BY <1>10 DEF RemountRo
<1>11. CASE BindEscapedResolvConf
  BY <1>11 DEF BindEscapedResolvConf
<1>12. CASE PivotRoot
  BY <1>12 DEF PivotRoot
<1>13. CASE Detach
  BY <1>13 DEF Detach, Follows, On, Dir, At, Path, Top, Leaf, Link
<1>14. CASE RmdirOld
  BY <1>14 DEF RmdirOld, Path, Top, Leaf, Link
<1>15. CASE LateStep
  BY <1>15, LateFacts DEF PrivCalls, SeccompCalls
<1>16. ASSUME NEW p \in Leaf, HostMount(p) \/ HostUnmount(p)  PROVE ResolvInv'
  <2>1. UNCHANGED <<given, pc, resolv, from, tmp, root, ro, damage>>
    BY <1>16 DEF HostMount, HostUnmount
  <2>2. /\ HostStep(p, old, old') /\ HostStep(p, new, new')
        /\ host' = IF p \in host THEN host \ {p} ELSE host \cup {p}
    BY <1>16, HostFacts
  <2>3. CASE p = "/run/ns"
    BY <2>1, <2>2, <2>3, ZenonT(30) DEF HostStep, On, Dir, Path, Top, Leaf, Link
  <2>4. CASE p = "/sys/fs"
    BY <2>1, <2>2, <2>4, ZenonT(30) DEF HostStep, On, Dir, Path, Top, Leaf, Link
  <2>. QED
    BY <2>3, <2>4 DEF Leaf
<1>17. CASE UNCHANGED vars
  BY <1>17 DEF vars, given, mounts, damage, priv, scmp
<1> HIDE DEF Call, PcType, MountType, PeerInv, BoundInv, ResolvInv, given, mounts,
       damage, After, SeccompCalls, PrivCalls, MountingCalls, LateCalls, SandboxCalls,
       RunHandled, RunBound
<1>. QED
  BY <1>1, <1>2, <1>3, <1>4, <1>5, <1>6, <1>7, <1>8, <1>9, <1>10, <1>11, <1>12, <1>13,
         <1>14, <1>15, <1>16, <1>17, NextCases DEF EarlyStep

\* Each privilege call keeps what those before it dropped.
LEMMA PrivInvStep ==
  ASSUME PcType, PrivType, BoundInv, PrivInv, [Next]_vars
  PROVE  PrivInv'
<1> USE DEF Call, PcType, PrivType, BoundInv, PrivInv, given, priv, After,
       SeccompCalls, PrivCalls, MountingCalls, LateCalls, SandboxCalls, RunHandled, RunBound
<1>1. CASE EnterSandbox
  BY <1>1 DEF EnterSandbox
<1>2. CASE SandboxFails
  BY <1>2 DEF SandboxFails
<1>3. CASE EarlyStep
  BY <1>3, EarlyFacts DEF MountingCalls
<1>4. CASE NoNewPrivs
  BY <1>4 DEF NoNewPrivs
<1>5. CASE ClearAmbient
  <2>1. /\ caps'["ambient"] = {}
        /\ \A s \in {"bounding", "effective", "permitted", "inheritable"} : caps'[s] = caps[s]
    BY <1>5 DEF ClearAmbient
  <2>2. pc = "ambient" /\ pc' = "capbset" /\ i = 0 /\ i' = i /\ nnp' = nnp /\ cfg' = cfg
    BY <1>5 DEF ClearAmbient
  <2>3. \A c \in caps["bounding"] : c >= 0
    <3>1. caps["bounding"] \subseteq Cap
      OBVIOUS
    <3>. QED
      BY <3>1, CapFacts
  <2>. QED
    BY <2>1, <2>2, <2>3
<1>6. CASE DropBounding
  <2>1. CASE i \in Cap
    <3>1. /\ caps'["bounding"] = caps["bounding"] \ ({i} \ {CAP_NET_BIND_SERVICE})
          /\ caps'["ambient"] = caps["ambient"]
      BY <1>6, <2>1 DEF DropBounding
    <3>2. pc = "capbset" /\ pc' = "capbset" /\ i' = i + 1 /\ nnp' = nnp /\ cfg' = cfg
      BY <1>6, <2>1 DEF DropBounding
    <3>. QED
      BY <3>1, <3>2, <2>1, CapAssumption DEF CapAssumption, Cap
  <2>2. CASE i \notin Cap
    <3>1. pc = "capbset" /\ pc' = "capset" /\ UNCHANGED <<i, caps, nnp, cfg>>
      BY <1>6, <2>2 DEF DropBounding
    <3>2. caps["bounding"] \subseteq {CAP_NET_BIND_SERVICE}
      BY <3>1, <2>2, CapAssumption DEF CapAssumption, Cap
    <3>. QED
      BY <3>1, <3>2
  <2>. QED
    BY <2>1, <2>2
<1>7. CASE Capset
  BY <1>7 DEF Capset
<1>8. CASE EnterSeccomp
  BY <1>8 DEF EnterSeccomp
<1>9. CASE SeccompInit
  BY <1>9 DEF SeccompInit
<1>10. CASE AddBlockRules
  BY <1>10 DEF AddBlockRules
<1>11. CASE SeccompLoad
  BY <1>11 DEF SeccompLoad
<1>12. ASSUME NEW p \in Leaf, HostMount(p) \/ HostUnmount(p)  PROVE PrivInv'
  BY <1>12 DEF HostMount, HostUnmount
<1>13. CASE UNCHANGED vars
  BY <1>13 DEF vars, given, mounts, damage, priv, scmp
<1> HIDE DEF Call, PcType, PrivType, BoundInv, PrivInv, given, priv, After,
       SeccompCalls, PrivCalls, MountingCalls, LateCalls, SandboxCalls, RunHandled, RunBound
<1>. QED
  BY <1>1, <1>2, <1>3, <1>4, <1>5, <1>6, <1>7, <1>8, <1>9, <1>10, <1>11, <1>12, <1>13,
         NextCases DEF LateStep

\* Rules exist once added, a filter once loaded.
LEMMA ScmpInvStep ==
  ASSUME ScmpType, BoundInv, ScmpInv, [Next]_vars
  PROVE  ScmpInv'
<1> USE DEF Call, ScmpType, ScmpInv, BoundInv, given, scmp, SandboxCalls
<1>1. CASE EnterSandbox
  BY <1>1 DEF EnterSandbox
<1>2. CASE SandboxFails
  BY <1>2 DEF SandboxFails
<1>3. CASE EarlyStep
  BY <1>3, EarlyFacts DEF MountingCalls
<1>4. CASE NoNewPrivs
  BY <1>4 DEF NoNewPrivs
<1>5. CASE ClearAmbient
  BY <1>5 DEF ClearAmbient
<1>6. CASE DropBounding
  BY <1>6 DEF DropBounding
<1>7. CASE Capset
  BY <1>7 DEF Capset
<1>8. CASE EnterSeccomp
  BY <1>8 DEF EnterSeccomp
<1>9. CASE SeccompInit
  BY <1>9 DEF SeccompInit
<1>10. CASE AddBlockRules
  BY <1>10 DEF AddBlockRules
<1>11. CASE SeccompLoad
  BY <1>11 DEF SeccompLoad
<1>12. ASSUME NEW p \in Leaf, HostMount(p) \/ HostUnmount(p)  PROVE ScmpInv'
  BY <1>12 DEF HostMount, HostUnmount
<1>13. CASE UNCHANGED vars
  BY <1>13 DEF vars, given, mounts, damage, priv, scmp
<1> HIDE DEF Call, ScmpType, ScmpInv, BoundInv, given, scmp, SandboxCalls
<1>. QED
  BY <1>1, <1>2, <1>3, <1>4, <1>5, <1>6, <1>7, <1>8, <1>9, <1>10, <1>11, <1>12, <1>13,
         NextCases DEF LateStep

-----------------------------------------------------------------------------
\* The invariant holds when do_slirp reaches create_sandbox.
LEMMA IInvInit == Init => IInv
<1> SUFFICES ASSUME Init PROVE IInv
  OBVIOUS
<1>1. PcType /\ MountType /\ OwnInv
  BY DEF Init, PcType, MountType, OwnInv, Path, Top, Leaf, Link
<1>2. PeerInv
  BY DEF Init, PeerInv, RunHandled, MountingCalls, Path, Top, Leaf
<1>3. BoundInv /\ FollowInv /\ ResolvInv
  BY DEF Init, BoundInv, FollowInv, ResolvInv, RunBound, After, LateCalls, PrivCalls,
         SeccompCalls, MountingCalls
<1>4. PrivType /\ PrivInv
  <2>1. i = 0 /\ 0 \in 0 .. CAP_LAST_CAP + 1 /\ pc = "sandbox" /\ nnp = FALSE
    BY CapAssumption DEF Init, CapAssumption
  <2>2. caps \in [{"ambient", "bounding", "effective", "permitted", "inheritable"}
                   -> SUBSET Cap]
    BY DEF Init
  <2>. QED
    BY <2>1, <2>2 DEF PrivType, PrivInv, After, SeccompCalls
<1>5. ScmpType /\ ScmpInv
  BY DEF Init, ScmpType, ScmpInv
<1>. QED
  BY <1>1, <1>2, <1>3, <1>4, <1>5 DEF IInv

\* Every call and every host step preserves the invariant.
LEMMA IInvStep == IInv /\ [Next]_vars => IInv'
<1> SUFFICES ASSUME IInv, [Next]_vars PROVE IInv'
  OBVIOUS
<1>1. /\ PcType /\ MountType /\ PrivType /\ ScmpType /\ OwnInv /\ PeerInv /\ BoundInv
      /\ FollowInv /\ ResolvInv /\ PrivInv /\ ScmpInv
  BY DEF IInv
<1>2. /\ PcType' /\ MountType' /\ PrivType' /\ ScmpType'
  BY <1>1, PcTypeStep, MountTypeStep, PrivTypeStep, ScmpTypeStep
<1>3. OwnInv' /\ PeerInv' /\ BoundInv'
  BY <1>1, OwnInvStep, PeerInvStep, BoundInvStep
<1>4. FollowInv' /\ ResolvInv' /\ PrivInv' /\ ScmpInv'
  BY <1>1, FollowInvStep, ResolvInvStep, PrivInvStep, ScmpInvStep
<1>. QED
  BY <1>2, <1>3, <1>4 DEF IInv

\* The invariant gives all the safety properties.
LEMMA IInvImplies ==
  IInv => TypeOK /\ HostUntouched /\ Sealed /\ FollowsHost /\ ResolvReachable /\ CallsAllowed
<1> SUFFICES ASSUME IInv
             PROVE  /\ TypeOK /\ HostUntouched /\ Sealed /\ FollowsHost
                    /\ ResolvReachable /\ CallsAllowed
  OBVIOUS
<1>1. TypeOK
  BY DEF IInv, TypeOK, PcType, MountType, PrivType, ScmpType
<1>2. HostUntouched
  BY DEF IInv, HostUntouched, OwnInv, PeerInv
<1>3. Sealed
  <2> SUFFICES ASSUME pc = "serving" PROVE Sealed
    BY DEF Sealed
  <2>1. ASSUME "sandbox" \in cfg
        PROVE  /\ root = "new" /\ At(old) = {} /\ {"/etc", "/run"} \subseteq ro
               /\ At(new) \subseteq {"/etc", "/run", "/run/ns", "resolv"}
    BY <2>1 DEF IInv, BoundInv, After, SeccompCalls, At
  <2>2. ASSUME "sandbox" \in cfg
        PROVE  /\ nnp /\ caps["ambient"] = {}
               /\ \A s \in DOMAIN caps : caps[s] \subseteq {CAP_NET_BIND_SERVICE}
    BY <2>2 DEF IInv, PrivInv, PrivType, After, SeccompCalls
  <2>3. "seccomp" \in cfg => archs \X (BLOCK \ Skippable) \subseteq filter
    BY DEF IInv, ScmpInv
  <2>. QED
    BY <2>1, <2>2, <2>3 DEF Sealed
<1>4. FollowsHost
  BY DEF IInv, FollowsHost, FollowInv, RunBound, After, SeccompCalls
<1>5. ResolvReachable
  BY DEF IInv, ResolvReachable, ResolvInv, After, SeccompCalls, MountType
<1>6. CallsAllowed
  <2>1. CASE pc # "serving"
    BY <2>1 DEF IInv, ScmpInv, CallsAllowed
  <2>2. CASE pc = "serving"
    <3>1. Makes(pc) \cap BLOCK = {}
      BY <2>2 DEF Makes, BLOCK, MountCalls, OtherCalls
    <3>2. filter \subseteq archs \X BLOCK
      BY DEF IInv, ScmpType
    <3>. QED
      BY <3>1, <3>2 DEF CallsAllowed
  <2>. QED
    BY <2>1, <2>2
<1>. QED
  BY <1>1, <1>2, <1>3, <1>4, <1>5, <1>6

\* The invariant holds in every reachable state, for every set of capabilities and of
\* skipped system calls, whatever the host mounts meanwhile.
LEMMA Invariant == Spec => []IInv
BY IInvInit, IInvStep, PTL DEF Spec

\* The mounts, the capability sets and the filter keep their types.
THEOREM TypeCorrect == Spec => []TypeOK
BY Invariant, IInvImplies, PTL

\* create_sandbox leaves the mounts of the host alone, as far as HostUntouched says.
THEOREM HostKept == Spec => []HostUntouched
BY Invariant, IInvImplies, PTL

\* A process that serves has all of the lockdown its configuration asks for.
THEOREM SealedWhenServing == Spec => []Sealed
BY Invariant, IInvImplies, PTL

\* The sandbox goes on to see what the host mounts and unmounts below a shared /run.
THEOREM HostFollowed == Spec => []FollowsHost
BY Invariant, IInvImplies, PTL

\* The file that /etc/resolv.conf leads to can be reached inside the sandbox.
THEOREM ResolvConfFound == Spec => []ResolvReachable
BY Invariant, IInvImplies, PTL

\* The filter never kills slirp4netns for a system call that it goes on to make.
THEOREM FilterSparesCaller == Spec => []CallsAllowed
BY Invariant, IInvImplies, PTL

-----------------------------------------------------------------------------
(***************************************************************************)
(* How long the lockdown takes: the calls that are left, of which          *)
(* add_mount makes four up to three times, and the turns of the loop over  *)
(* the capabilities.                                                       *)
(***************************************************************************)
LeftAt(p, f) ==
  CASE p = "sandbox" -> 29 [] p = "unshare" -> 28 [] p = "private" -> 27
    [] p = "tmpfs" -> 26 [] p = "mkdir" -> 25
    [] p = "slave from" -> IF f = "/run" THEN 15 ELSE IF f = "resolv" THEN 19 ELSE 24
    [] p = "bind"       -> IF f = "/run" THEN 14 ELSE IF f = "resolv" THEN 18 ELSE 23
    [] p = "slave to"   -> IF f = "/run" THEN 13 ELSE IF f = "resolv" THEN 17 ELSE 22
    [] p = "remount"    -> IF f = "/run" THEN 12 ELSE IF f = "resolv" THEN 16 ELSE 21
    [] p = "resolv" -> 20 [] p = "pivot" -> 11 [] p = "detach" -> 10 [] p = "rmdir" -> 9
    [] p = "no_new_privs" -> 8 [] p = "ambient" -> 7 [] p = "capbset" -> 6
    [] p = "capset" -> 5 [] p = "seccomp" -> 4
    [] p = "init" -> 3 [] p = "block" -> 2 [] p = "load" -> 1
    [] OTHER -> 0
PlaceLeft == LeftAt(pc, from)
CallsLeft == PlaceLeft + (CAP_LAST_CAP + 1 - i)
Goes(a, b) == PlaceLeft = a /\ PlaceLeft' = b

\* The number of each place outside add_mount, and of each in it.
LEMMA Places ==
  ASSUME NEW f
  PROVE  /\ LeftAt("sandbox", f) = 29 /\ LeftAt("unshare", f) = 28
         /\ LeftAt("private", f) = 27 /\ LeftAt("tmpfs", f) = 26
         /\ LeftAt("mkdir", f) = 25 /\ LeftAt("resolv", f) = 20
         /\ LeftAt("pivot", f) = 11 /\ LeftAt("detach", f) = 10
         /\ LeftAt("rmdir", f) = 9 /\ LeftAt("no_new_privs", f) = 8
         /\ LeftAt("ambient", f) = 7 /\ LeftAt("capbset", f) = 6
         /\ LeftAt("capset", f) = 5 /\ LeftAt("seccomp", f) = 4
         /\ LeftAt("init", f) = 3 /\ LeftAt("block", f) = 2 /\ LeftAt("load", f) = 1
         /\ LeftAt("failed", f) = 0 /\ LeftAt("serving", f) = 0
BY DEF LeftAt
LEMMA AddMountPlaces ==
  /\ LeftAt("slave from", "/etc") = 24 /\ LeftAt("bind", "/etc") = 23
  /\ LeftAt("slave to", "/etc") = 22 /\ LeftAt("remount", "/etc") = 21
  /\ LeftAt("slave from", "resolv") = 19 /\ LeftAt("bind", "resolv") = 18
  /\ LeftAt("slave to", "resolv") = 17 /\ LeftAt("remount", "resolv") = 16
  /\ LeftAt("slave from", "/run") = 15 /\ LeftAt("bind", "/run") = 14
  /\ LeftAt("slave to", "/run") = 13 /\ LeftAt("remount", "/run") = 12
BY DEF LeftAt
LEMMA PlaceType == \A p, f : LeftAt(p, f) \in 0 .. 29
BY DEF LeftAt

\* A call about mounts leads on to a later place.
LEMMA EarlyGoesOn ==
  ASSUME IInv, EarlyStep
  PROVE  PlaceLeft' < PlaceLeft
<1> USE DEF Call, Goes, PlaceLeft
<1>1. CASE Unshare \/ MakePrivate \/ MountTmpfs
  <2>1. \/ pc = "unshare" /\ pc' = "private"
        \/ pc = "private" /\ pc' = "tmpfs"
        \/ pc = "tmpfs" /\ pc' = "mkdir"
    BY <1>1 DEF Unshare, MakePrivate, MountTmpfs
  <2>2. /\ pc = "unshare" /\ pc' = "private" => Goes(28, 27)
        /\ pc = "private" /\ pc' = "tmpfs" => Goes(27, 26)
        /\ pc = "tmpfs" /\ pc' = "mkdir" => Goes(26, 25)
    BY Places, ZenonT(30)
  <2>. QED
    BY <2>1, <2>2
<1>2. CASE Mkdirs
  <2>1. Goes(25, 24)
    BY <1>2, Places, AddMountPlaces, Zenon DEF Mkdirs
  <2>. QED
    BY <2>1
<1>3. CASE SlaveFrom \/ Bind \/ SlaveTo
  <2>1. from' = from /\ from \in {"/etc", "resolv", "/run"}
    BY <1>3 DEF SlaveFrom, Bind, SlaveTo, IInv, BoundInv
  <2>2. \/ pc = "slave from" /\ pc' = "bind"
        \/ pc = "bind" /\ pc' = "slave to"
        \/ pc = "slave to" /\ pc' = "remount"
    BY <1>3 DEF SlaveFrom, Bind, SlaveTo
  <2>3. \/ Goes(24, 23) \/ Goes(23, 22) \/ Goes(22, 21)
        \/ Goes(19, 18) \/ Goes(18, 17) \/ Goes(17, 16)
        \/ Goes(15, 14) \/ Goes(14, 13) \/ Goes(13, 12)
    BY <2>1, <2>2, AddMountPlaces, Zenon
  <2>. QED
    BY <2>3
<1>4. CASE RemountRo
  <2>1. pc = "remount" /\ from \in {"/etc", "resolv", "/run"}
    BY <1>4 DEF RemountRo, IInv, BoundInv
  <2>2. \/ from = "/etc" /\ pc' = "resolv"
        \/ from = "resolv" /\ pc' = "slave from" /\ from' = "/run"
        \/ from = "/run" /\ pc' = "pivot"
    BY <1>4, <2>1 DEF RemountRo
  <2>3. Goes(21, 20) \/ Goes(16, 15) \/ Goes(12, 11)
    BY <2>1, <2>2, Places, AddMountPlaces, Zenon
  <2>. QED
    BY <2>3
<1>5. CASE BindEscapedResolvConf
  <2>1. pc = "resolv" /\ pc' = "slave from" /\ (from' = "resolv" \/ from' = "/run")
    BY <1>5 DEF BindEscapedResolvConf
  <2>2. Goes(20, 19) \/ Goes(20, 15)
    BY <2>1, Places, AddMountPlaces, Zenon
  <2>. QED
    BY <2>2
<1>6. CASE PivotRoot \/ Detach \/ RmdirOld
  <2>1. \/ pc = "pivot" /\ pc' = "detach"
        \/ pc = "detach" /\ pc' = "rmdir"
        \/ pc = "rmdir" /\ pc' = "no_new_privs"
    BY <1>6 DEF PivotRoot, Detach, RmdirOld
  <2>2. /\ pc = "pivot" /\ pc' = "detach" => Goes(11, 10)
        /\ pc = "detach" /\ pc' = "rmdir" => Goes(10, 9)
        /\ pc = "rmdir" /\ pc' = "no_new_privs" => Goes(9, 8)
    BY Places, ZenonT(30)
  <2>. QED
    BY <2>1, <2>2
<1>. QED
  BY <1>1, <1>2, <1>3, <1>4, <1>5, <1>6 DEF EarlyStep

\* So does a call about privileges or the filter, but for a turn of the loop.
LEMMA LateGoesOn ==
  ASSUME LateStep
  PROVE  \/ PlaceLeft' < PlaceLeft /\ i' = i
         \/ PlaceLeft' = PlaceLeft /\ i \in Cap /\ i' = i + 1
<1> USE DEF Call, Goes, PlaceLeft
<1>1. CASE NoNewPrivs \/ ClearAmbient
  <2>1. i' = i /\ (Goes(8, 7) \/ Goes(7, 6))
    BY <1>1, Places, Zenon DEF NoNewPrivs, ClearAmbient
  <2>. QED
    BY <2>1
<1>2. CASE DropBounding
  <2>1. \/ pc = "capbset" /\ pc' = "capbset" /\ i \in Cap /\ i' = i + 1
        \/ pc = "capbset" /\ pc' = "capset" /\ i' = i
    BY <1>2 DEF DropBounding
  <2>2. \/ Goes(6, 6) /\ i \in Cap /\ i' = i + 1
        \/ Goes(6, 5) /\ i' = i
    BY <2>1, Places, Zenon
  <2>. QED
    BY <2>2
<1>3. CASE Capset \/ EnterSeccomp
  <2>1. i' = i /\ (Goes(5, 4) \/ Goes(4, 3) \/ Goes(4, 0))
    BY <1>3, Places, Zenon DEF Capset, EnterSeccomp, priv
  <2>. QED
    BY <2>1
<1>4. CASE SeccompInit \/ AddBlockRules \/ SeccompLoad
  <2>1. i' = i /\ (Goes(3, 0) \/ Goes(3, 2) \/ Goes(2, 1) \/ Goes(1, 0))
    BY <1>4, Places, Zenon DEF SeccompInit, AddBlockRules, SeccompLoad, priv
  <2>. QED
    BY <2>1
<1>. QED
  BY <1>1, <1>2, <1>3, <1>4 DEF LateStep

\* A step of the host leaves all of it as it is, and a failure leaves nothing to do.
LEMMA OtherGoesOn ==
  /\ EnterSandbox \/ SandboxFails => PlaceLeft' < PlaceLeft /\ i' = i
  /\ \A p \in Leaf : HostMount(p) \/ HostUnmount(p) => PlaceLeft' = PlaceLeft /\ i' = i
<1>1. ASSUME EnterSandbox PROVE PlaceLeft' < PlaceLeft /\ i' = i
  <2>1. i' = i /\ (Goes(29, 28) \/ Goes(29, 4))
    BY <1>1, Places, Zenon DEF EnterSandbox, Call, Goes, PlaceLeft, priv
  <2>. QED
    BY <2>1 DEF Goes
<1>2. ASSUME SandboxFails PROVE PlaceLeft' < PlaceLeft /\ i' = i
  <2>1. \/ pc \in {"unshare", "private", "tmpfs", "mkdir"}
        \/ pc \in {"resolv", "pivot", "detach", "rmdir"}
        \/ pc \in {"no_new_privs", "ambient", "capbset", "capset"}
        \/ pc \in {"slave from", "bind", "slave to", "remount"}
    BY <1>2 DEF SandboxFails, SandboxCalls
  <2>2. PlaceLeft \in 1 .. 29
    <3>0. CASE pc \in {"unshare", "private", "tmpfs", "mkdir"}
      <4>1. PlaceLeft \in {28, 27, 26, 25}
        BY <3>0, Places, ZenonT(40) DEF PlaceLeft
      <4>. QED
        BY <4>1
    <3>1. CASE pc \in {"resolv", "pivot", "detach", "rmdir"}
      <4>1. PlaceLeft \in {20, 11, 10, 9}
        BY <3>1, Places, ZenonT(40) DEF PlaceLeft
      <4>. QED
        BY <4>1
    <3>2. CASE pc \in {"no_new_privs", "ambient", "capbset", "capset"}
      <4>1. PlaceLeft \in {8, 7, 6, 5}
        BY <3>2, Places, ZenonT(40) DEF PlaceLeft
      <4>. QED
        BY <4>1
    <3>3. CASE pc \in {"slave from", "bind", "slave to", "remount"}
      <4>1. /\ LeftAt("slave from", from) \in 1 .. 29
            /\ LeftAt("bind", from) \in 1 .. 29
            /\ LeftAt("slave to", from) \in 1 .. 29
            /\ LeftAt("remount", from) \in 1 .. 29
        BY DEF LeftAt
      <4>. QED
        BY <3>3, <4>1, Zenon DEF PlaceLeft
    <3>. QED
      BY <2>1, <3>0, <3>1, <3>2, <3>3
  <2>3. PlaceLeft' = 0 /\ i' = i
    BY <1>2, Places, Zenon DEF SandboxFails, PlaceLeft, priv
  <2>. QED
    BY <2>2, <2>3
<1>3. ASSUME NEW p \in Leaf, HostMount(p) \/ HostUnmount(p) PROVE PlaceLeft' = PlaceLeft /\ i' = i
  <2>1. pc' = pc /\ from' = from /\ i' = i
    BY <1>3 DEF HostMount, HostUnmount, priv
  <2>. QED
    BY <2>1, Zenon DEF PlaceLeft
<1>. QED
  BY <1>1, <1>2, <1>3

\* create_sandbox and enable_seccomp come to an end whatever the number of capabilities:
\* every call leaves less to do, and what the host mounts meanwhile adds nothing to it.
THEOREM LockdownEnds ==
  Spec => /\ [][ \/ CallsLeft' < CallsLeft
                 \/ CallsLeft' = CallsLeft /\ \E p \in Leaf : HostMount(p) \/ HostUnmount(p) ]_vars
          /\ [](CallsLeft \in 0 .. CAP_LAST_CAP + 30)
<1>1. IInv /\ [Next]_vars =>
        [ \/ CallsLeft' < CallsLeft
          \/ CallsLeft' = CallsLeft /\ \E p \in Leaf : HostMount(p) \/ HostUnmount(p) ]_vars
  <2> SUFFICES ASSUME IInv, [Next]_vars, ~UNCHANGED vars
               PROVE  \/ CallsLeft' < CallsLeft
                      \/ /\ CallsLeft' = CallsLeft
                         /\ \E p \in Leaf : HostMount(p) \/ HostUnmount(p)
    OBVIOUS
  <2>1. \A a, b, c, x, y \in Int : (a < b /\ x = y => a + (c + 1 - x) < b + (c + 1 - y))
                                 /\ (a = b /\ x = y + 1 => a + (c + 1 - x) < b + (c + 1 - y))
    OBVIOUS
  <2>2. CAP_LAST_CAP \in Int /\ i \in Int /\ PlaceLeft \in Int /\ PlaceLeft' \in Int
    <3>1. PlaceLeft \in 0 .. 29 /\ PlaceLeft' \in 0 .. 29
      BY PlaceType, Zenon DEF PlaceLeft
    <3>. QED
      BY <3>1, CapAssumption DEF CapAssumption, IInv, PrivType
  <2>3. ASSUME \/ PlaceLeft' < PlaceLeft /\ i' = i
               \/ PlaceLeft' = PlaceLeft /\ i' = i + 1
        PROVE  CallsLeft' < CallsLeft
    <3>1. i' \in Int
      BY <2>2, <2>3
    <3>. QED
      BY <2>1, <2>2, <2>3, <3>1, Zenon DEF CallsLeft
  <2>4. ASSUME EarlyStep PROVE i' = i
    BY <2>4, EarlyFacts DEF IInv, priv
  <2>5. ASSUME NEW p \in Leaf, HostMount(p) \/ HostUnmount(p) PROVE CallsLeft' = CallsLeft
    BY <2>5, OtherGoesOn, Zenon DEF CallsLeft
  <2>. QED
    BY <2>3, <2>4, <2>5, NextCases, EarlyGoesOn, LateGoesOn, OtherGoesOn
<1>2. IInv => CallsLeft \in 0 .. CAP_LAST_CAP + 30
  <2> SUFFICES ASSUME IInv PROVE CallsLeft \in 0 .. CAP_LAST_CAP + 30
    OBVIOUS
  <2>1. CAP_LAST_CAP \in Nat /\ i \in 0 .. CAP_LAST_CAP + 1
    BY CapAssumption DEF CapAssumption, IInv, PrivType
  <2>2. PlaceLeft \in 0 .. 29
    BY PlaceType, Zenon DEF PlaceLeft
  <2>. QED
    BY <2>1, <2>2 DEF CallsLeft
<1>. QED
  BY <1>1, <1>2, Invariant, PTL DEF Spec
=============================================================================
