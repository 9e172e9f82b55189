------------------------------ MODULE Lockdown ------------------------------
(***************************************************************************)
(* How do_slirp locks the process down before it tells that it is ready:   *)
(* create_sandbox, call by call, and enable_seccomp, while the host goes   *)
(* on mounting and unmounting.                                             *)
(*                                                                         *)
(* The host has a mount at / and at some of the paths below.  A shared     *)
(* mount and its copies in other namespaces form a peer group: what is     *)
(* mounted on or unmounted from one of them shows on all the others and on *)
(* their slaves, and nothing comes back from a slave.                      *)
(***************************************************************************)
EXTENDS Integers

CONSTANTS
  CAP_LAST_CAP, CAP_NET_BIND_SERVICE, CAP_SETPCAP, \* numbers of capabilities
  Skippable     \* system calls that libseccomp may not know or not take a rule for

VARIABLES
  cfg,          \* which of create_sandbox and enable_seccomp are asked for
  own,          \* the process has a user namespace of its own
  resolv,       \* where realpath finds /etc/resolv.conf, once it has looked
  host, shared, \* the host's mounts, and which of them are shared
  pc,           \* the next call, or "failed" or "serving"
  from,         \* the argument of add_mount
  old,          \* the process's copies of the host's mounts
  new,          \* the mounts below its new root
  tmp,          \* the tmpfs that becomes the new root
  root,         \* the root directory: "old" or "new"
  ro,           \* what has been remounted read-only
  leak, lost,   \* host mounts the process has added and removed
  nnp, caps, i, \* no_new_privs, the capability sets, the loop over them
  archs, rules, filter \* scmp_filter_ctx: its archs and rules; what is loaded

given  == <<cfg, own, shared>>
mounts == <<resolv, from, old, new, tmp, root, ro>>
damage == <<leak, lost>>
priv   == <<nnp, caps, i>>
scmp   == <<archs, rules, filter>>
vars   == <<given, host, pc, mounts, damage, priv, scmp>>

Top  == {"/tmp", "/etc", "/run", "/sys"}
Leaf == {"/run/ns", "/sys/fs"}
Path == {"/", "resolv"} \cup Top \cup Leaf
Link == {"none", "private", "slave", "peer"}
Cap  == 0 .. CAP_LAST_CAP

ASSUME CapAssumption ==
  /\ CAP_LAST_CAP \in Nat
  /\ CAP_NET_BIND_SERVICE \in Cap /\ CAP_SETPCAP \in Cap

-----------------------------------------------------------------------------
(***************************************************************************)
(* Mounts in the kernel                                                    *)
(***************************************************************************)
Dir(p) == IF p = "/run/ns" THEN "/run" ELSE IF p = "/sys/fs" THEN "/sys" ELSE "/"

\* The mount that path p is on, in a namespace with mounts at these paths.
On(p, at) == IF Dir(p) \in at THEN Dir(p) ELSE "/"

Below(p)  == {q \in Path : q = p \/ Dir(q) = p}
At(tree)  == {p \in Path : tree[p] # "none"}
Follows(link) == link \in {"slave", "peer"}

\* Mounts that p and everything below it become slaves of.
MakeSlave(tree, p) ==
  [q \in Path |-> IF q \in Below(p) /\ tree[q] = "peer" THEN "slave" ELSE tree[q]]

\* The copy of a namespace: peers, or slaves if it is for another user
\* namespace.  A mount made on a shared one is shared.
Copied ==
  [p \in Path |->
     IF p \notin host THEN "none"
     ELSE IF (IF p \in Leaf THEN On(p, host) ELSE p) \notin shared THEN "private"
     ELSE IF own THEN "slave" ELSE "peer"]

\* What a copy sees of a mount or an unmount at p of the host.
Seen(tree, p, link) ==
  LET q == On(p, host)
  IN  IF q \in shared /\ Follows(tree[q])
      THEN [tree EXCEPT ![p] = IF link = "none" THEN "none" ELSE tree[q]]
      ELSE tree

HostMount(p) ==
  /\ p \notin host
  /\ host' = host \cup {p}
  /\ old' = Seen(old, p, "some") /\ new' = Seen(new, p, "some")
  /\ UNCHANGED <<given, pc, resolv, from, tmp, root, ro, damage, priv, scmp>>

HostUnmount(p) ==
  /\ p \in host
  /\ host' = host \ {p}
  /\ old' = Seen(old, p, "none") /\ new' = Seen(new, p, "none")
  /\ UNCHANGED <<given, pc, resolv, from, tmp, root, ro, damage, priv, scmp>>

-----------------------------------------------------------------------------
(***************************************************************************)
(* create_sandbox: every call but the ones noted returns early on failure. *)
(***************************************************************************)
Call(at, to) == pc = at /\ pc' = to

SandboxCalls == {"unshare", "private", "tmpfs", "mkdir", "slave from", "bind",
                 "slave to", "remount", "resolv", "pivot", "detach", "rmdir",
                 "no_new_privs", "ambient", "capbset", "capset"}

\* ret < 0.
SandboxFails ==
  /\ pc \in SandboxCalls
  /\ pc' = "failed"
  /\ UNCHANGED <<given, host, mounts, damage, priv, scmp>>

Unshare ==
  /\ Call("unshare", "private")
  /\ old' = Copied
  /\ UNCHANGED <<given, host, resolv, from, new, tmp, root, ro, damage, priv, scmp>>

\* mount("", "/", "", MS_PRIVATE, NULL), without MS_REC.
MakePrivate ==
  /\ Call("private", "tmpfs")
  /\ old' = [old EXCEPT !["/"] = "private"]
  /\ UNCHANGED <<given, host, resolv, from, new, tmp, root, ro, damage, priv, scmp>>

MountTmpfs ==
  /\ Call("tmpfs", "mkdir")
  /\ LET shows == old[IF "/tmp" \in At(old) THEN "/tmp" ELSE "/"] = "peer"
     IN  /\ tmp' = IF shows THEN "peer" ELSE "private"
         /\ leak' = IF shows THEN leak \cup {"/tmp"} ELSE leak
  /\ UNCHANGED <<given, host, resolv, from, old, new, root, ro, lost, priv, scmp>>

\* mkdir of /tmp/etc, /tmp/old and /tmp/run, then add_mount for /etc.
Mkdirs ==
  /\ Call("mkdir", "slave from")
  /\ from' = "/etc"
  /\ UNCHANGED <<given, host, resolv, old, new, tmp, root, ro, damage, priv, scmp>>

\* A bug that could be here: the source is left as it is.
SlaveFrom_Skipped ==
  /\ Call("slave from", "bind")
  /\ UNCHANGED <<given, host, mounts, damage, priv, scmp>>

\* add_mount, first call: EINVAL, when there is no mount at from, is ignored.
SlaveFrom ==
  /\ Call("slave from", "bind")
  /\ old' = IF from \in At(old) THEN MakeSlave(old, from) ELSE old
  /\ UNCHANGED <<given, host, resolv, from, new, tmp, root, ro, damage, priv, scmp>>

\* MS_BIND | MS_REC: copies of the mount from is on and of those below from.
Bind ==
  /\ Call("bind", "slave to")
  /\ new' = [p \in Path |->
               IF p = from THEN old[IF from \in At(old) THEN from ELSE "/"]
               ELSE IF p \in Below(from) THEN old[p] ELSE new[p]]
  /\ leak' = IF tmp = "peer" THEN leak \cup {from} ELSE leak
  /\ UNCHANGED <<given, host, resolv, from, old, tmp, root, ro, lost, priv, scmp>>

\* A bug that could be here: MS_PRIVATE for MS_SLAVE.
SlaveTo_Private ==
  /\ Call("slave to", "remount")
  /\ new' = [p \in Path |-> IF new[p] = "none" THEN "none" ELSE "private"]
  /\ UNCHANGED <<given, host, resolv, from, old, tmp, root, ro, damage, priv, scmp>>

SlaveTo ==
  /\ Call("slave to", "remount")
  /\ new' = MakeSlave(new, from)
  /\ UNCHANGED <<given, host, resolv, from, old, tmp, root, ro, damage, priv, scmp>>

RemountRo ==
  /\ Call("remount", CASE from = "/etc"   -> "resolv"
                       [] from = "resolv" -> "slave from"
                       [] from = "/run"   -> "pivot")
  /\ ro' = ro \cup {from}
  /\ from' = IF from = "/etc" THEN from ELSE "/run"
  /\ UNCHANGED <<given, host, resolv, old, new, tmp, root, damage, priv, scmp>>

\* A bug that could be here: nothing is bound.
BindEscapedResolvConf_Never ==
  /\ Call("resolv", "slave from")
  /\ resolv' \in {"missing", "inside", "lookalike", "outside"}
  /\ from' = "/run"
  /\ UNCHANGED <<given, host, old, new, tmp, root, ro, damage, priv, scmp>>

\* g_str_has_prefix: a directory whose name begins like /etc or /run counts as
\* inside.  Otherwise the file is made and bound with add_mount.
BindEscapedResolvConf ==
  /\ Call("resolv", "slave from")
  /\ resolv' \in {"missing", "inside", "lookalike", "outside"}
  /\ from' = IF resolv' = "outside" THEN "resolv" ELSE "/run"
  /\ UNCHANGED <<given, host, old, new, tmp, root, ro, damage, priv, scmp>>

\* chdir, pivot_root: EINVAL if the tmpfs, or what it is mounted on, is shared.
PivotRoot ==
  /\ Call("pivot", "detach")
  /\ tmp # "peer"
  /\ root' = "new"
  /\ UNCHANGED <<given, host, resolv, from, old, new, tmp, ro, damage, priv, scmp>>

\* chdir, umount2("/old", MNT_DETACH): every mount below /old goes, and with it
\* the one at its place on each peer and slave of the mount it is on.
Detach ==
  /\ Call("detach", "rmdir")
  /\ LET gone == {p \in At(old) \ {"/"} : old[On(p, At(old))] = "peer"}
     IN  /\ host' = host \ gone
         /\ lost' = lost \cup (host \cap gone)
         /\ new' = [p \in Path |-> IF p \in gone /\ Follows(new[On(p, At(new))])
                                   THEN "none" ELSE new[p]]
  /\ old' = [p \in Path |-> "none"]
  /\ UNCHANGED <<given, resolv, from, tmp, root, ro, leak, priv, scmp>>

\* rmdir("/old"), then / is remounted read-only if that is possible.
RmdirOld ==
  /\ Call("rmdir", "no_new_privs")
  /\ ro' \in {ro, ro \cup {"/"}}
  /\ UNCHANGED <<given, host, resolv, from, old, new, tmp, root, damage, priv, scmp>>

NoNewPrivs ==
  /\ Call("no_new_privs", "ambient")
  /\ nnp' = TRUE
  /\ UNCHANGED <<given, host, mounts, damage, caps, i, scmp>>

ClearAmbient ==
  /\ Call("ambient", "capbset")
  /\ caps' = [caps EXCEPT !.ambient = {}]
  /\ UNCHANGED <<given, host, mounts, damage, nnp, i, scmp>>

\* Bugs that could be here: the end is not noticed; any error is taken for it.
DropBounding_Endless ==
  /\ Call("capbset", "capbset")
  /\ i' = i + 1
  /\ UNCHANGED <<given, host, mounts, damage, nnp, caps, scmp>>
DropBounding_AnyError ==
  /\ pc = "capbset"
  /\ \/ /\ i \in Cap
        /\ i' = i + 1
        /\ caps' = [caps EXCEPT !.bounding = @ \ ({i} \ {CAP_NET_BIND_SERVICE})]
        /\ UNCHANGED pc
     \/ pc' = "capset" /\ UNCHANGED <<i, caps>>
  /\ UNCHANGED <<given, host, mounts, damage, nnp, scmp>>

\* One turn of the loop: PR_CAPBSET_DROP needs CAP_SETPCAP; EINVAL ends it.
DropBounding ==
  /\ CAP_SETPCAP \in caps.effective
  /\ IF i \in Cap
     THEN /\ Call("capbset", "capbset")
          /\ i' = i + 1
          /\ caps' = IF i = CAP_NET_BIND_SERVICE THEN caps
                     ELSE [caps EXCEPT !.bounding = @ \ {i}]
     ELSE Call("capbset", "capset") /\ UNCHANGED <<i, caps>>
  /\ UNCHANGED <<given, host, mounts, damage, nnp, scmp>>

\* capset refuses what is not permitted.
Capset ==
  /\ Call("capset", "seccomp")
  /\ CAP_NET_BIND_SERVICE \in caps.permitted
  /\ LET data == {CAP_NET_BIND_SERVICE}
     IN  caps' = [caps EXCEPT !.effective = data, !.permitted = data,
                              !.inheritable = data]
  /\ UNCHANGED <<given, host, mounts, damage, nnp, i, scmp>>

CreateSandbox ==
  \/ SandboxFails \/ Unshare \/ MakePrivate \/ MountTmpfs \/ Mkdirs \/ SlaveFrom
  \/ Bind \/ SlaveTo \/ RemountRo \/ BindEscapedResolvConf \/ PivotRoot \/ Detach
  \/ RmdirOld \/ NoNewPrivs \/ ClearAmbient \/ DropBounding \/ Capset

-----------------------------------------------------------------------------
(***************************************************************************)
(* enable_seccomp                                                          *)
(***************************************************************************)
\* The archs that a build for x86_64 adds to its own.
Native == "x86_64"
seccomp_extra_archs == {"x86", "x32"}

MountCalls == {"chroot", "fsconfig", "fsmount", "fsopen", "fspick", "mount",
               "move_mount", "open_tree", "pivot_root", "umount", "umount2"}
OtherCalls ==
  {"execve", "lookup_dcookie", "pidfd_getfd", "ptrace", "process_vm_readv",
   "process_vm_writev", "delete_module", "finit_module", "init_module",
   "open_by_handle_at", "execveat", "pidfd_open", "pidfd_send_signal", "prctl",
   "setns", "unshare", "kexec_file_load", "kexec_load", "reboot",
   "name_to_handle_at"}

\* A bug that could be here: opening files is blocked as well.
BLOCK_Files == MountCalls \cup OtherCalls \cup {"open", "openat"}

BLOCK == MountCalls \cup OtherCalls

\* The system calls made at each point; "serving" is the loop and libslirp, which
\* reads resolv.conf again and again.
Makes(at) ==
  CASE at = "unshare"  -> {"unshare"}
    [] at \in {"private", "tmpfs", "slave from", "bind", "slave to", "remount"} -> {"mount"}
    [] at \in {"mkdir", "resolv"} -> {"mkdir", "openat", "close"}
    [] at = "pivot"    -> {"chdir", "pivot_root"}
    [] at = "detach"   -> {"chdir", "umount2"}
    [] at = "rmdir"    -> {"rmdir", "mount"}
    [] at \in {"no_new_privs", "ambient", "capbset"} -> {"prctl"}
    [] at = "capset"   -> {"capset"}
    [] at = "serving"  -> {"poll", "read", "write", "close", "openat", "socket", "bind",
                           "listen", "connect", "accept", "shutdown", "unlink"}
    [] OTHER           -> {}

\* seccomp_init, then an arch that cannot be added is only warned of.
SeccompInit ==
  /\ \/ Call("init", "failed") /\ UNCHANGED archs
     \/ /\ Call("init", "block")
        /\ \E added \in SUBSET seccomp_extra_archs : archs' = {Native} \cup added
  /\ UNCHANGED <<given, host, mounts, damage, priv, rules, filter>>

\* The BLOCK list: a call that libseccomp does not know, or a rule that it does
\* not take, is skipped.  A rule is for the archs that the filter has by then.
AddBlockRules ==
  /\ Call("block", "load")
  /\ \E skipped \in SUBSET Skippable : rules' = archs \X (BLOCK \ skipped)
  /\ UNCHANGED <<given, host, mounts, damage, priv, archs, filter>>

\* A bug that could be here: a failure to load is not returned.
SeccompLoad_Unchecked ==
  /\ Call("load", "serving")
  /\ filter' \in {filter, rules}
  /\ UNCHANGED <<given, host, mounts, damage, priv, archs, rules>>

SeccompLoad ==
  /\ \/ Call("load", "failed") /\ UNCHANGED filter
     \/ Call("load", "serving") /\ filter' = rules
  /\ UNCHANGED <<given, host, mounts, damage, priv, archs, rules>>

EnableSeccomp == SeccompInit \/ AddBlockRules \/ SeccompLoad

-----------------------------------------------------------------------------
\* What do_slirp asks for, one after the other.
EnterSandbox ==
  /\ Call("sandbox", IF "sandbox" \in cfg THEN "unshare" ELSE "seccomp")
  /\ UNCHANGED <<given, host, mounts, damage, priv, scmp>>

EnterSeccomp ==
  /\ Call("seccomp", IF "seccomp" \in cfg THEN "init" ELSE "serving")
  /\ UNCHANGED <<given, host, mounts, damage, priv, scmp>>

\* The host shares any of its mounts; the process is root and has every capability.
Init ==
  /\ cfg \in SUBSET {"sandbox", "seccomp"} /\ own \in BOOLEAN
  /\ resolv = "unknown"
  /\ \E top \in SUBSET Top, leaf \in SUBSET Leaf : host = {"/"} \cup top \cup leaf
  /\ shared \in SUBSET (host \ Leaf)
  /\ pc = "sandbox" /\ from = "/"
  /\ old = [p \in Path |-> "none"] /\ new = [p \in Path |-> "none"]
  /\ tmp = "none" /\ root = "old" /\ ro = {} /\ leak = {} /\ lost = {}
  /\ nnp = FALSE /\ i = 0
  /\ caps = [s \in {"ambient", "bounding", "effective", "permitted", "inheritable"} |-> Cap]
  /\ archs = {} /\ rules = {} /\ filter = {}

Next ==
  \/ EnterSandbox \/ CreateSandbox \/ EnterSeccomp \/ EnableSeccomp
  \/ \E p \in Leaf : HostMount(p) \/ HostUnmount(p)

Spec == Init /\ [][Next]_vars

-----------------------------------------------------------------------------
(***************************************************************************)
(* Properties                                                              *)
(***************************************************************************)
\* Every variable has its type.
TypeOK ==
  /\ cfg \subseteq {"sandbox", "seccomp"} /\ own \in BOOLEAN
  /\ resolv \in {"unknown", "missing", "inside", "lookalike", "outside"}
  /\ host \subseteq Path /\ shared \subseteq Path
  /\ pc \in SandboxCalls \cup {"sandbox", "seccomp", "init", "block", "load",
                               "failed", "serving"}
  /\ from \in {"/", "/etc", "resolv", "/run"}
  /\ old \in [Path -> Link] /\ new \in [Path -> Link]
  /\ tmp \in {"none", "private", "peer"} /\ root \in {"old", "new"}
  /\ ro \subseteq Path /\ leak \subseteq Path /\ lost \subseteq Path
  /\ nnp \in BOOLEAN /\ i \in 0 .. CAP_LAST_CAP + 1
  /\ caps \in [{"ambient", "bounding", "effective", "permitted", "inheritable"}
                 -> SUBSET Cap]
  /\ archs \subseteq {Native} \cup seccomp_extra_archs
  /\ rules \subseteq archs \X BLOCK /\ filter \subseteq rules

\* What create_sandbox mounts and unmounts stays in its own mount namespace,
\* wherever it fails and whatever the host mounts meanwhile: always when the
\* process has a user namespace of its own.  Without one, the host's mounts below
\* /etc and /run survive all the same, and the host sees the tmpfs and what is
\* bound in it only if its /tmp is itself a shared mount.
HostUntouched ==
  /\ own => leak = {} /\ lost = {}
  /\ lost \subseteq {"/sys/fs"}
  /\ leak # {} => "/tmp" \in shared

\* A process that serves with a sandbox has the new root and nothing of the old
\* one, /etc and /run read-only, and CAP_NET_BIND_SERVICE at most; one that serves
\* with seccomp has every rule that libseccomp took in force on every arch of the filter.
Sealed ==
  pc = "serving" =>
    /\ "sandbox" \in cfg =>
         /\ root = "new" /\ At(old) = {} /\ {"/etc", "/run"} \subseteq ro
         /\ At(new) \subseteq {"/etc", "/run", "/run/ns", "resolv"}
         /\ nnp /\ caps.ambient = {}
         /\ \A s \in DOMAIN caps : caps[s] \subseteq {CAP_NET_BIND_SERVICE}
    /\ "seccomp" \in cfg => archs \X (BLOCK \ Skippable) \subseteq filter

\* The sandbox keeps up with the host: once it serves, a mount below a shared /run
\* is there if and only if the host has it, whether the host mounted or unmounted
\* it before, between or after the calls of create_sandbox.  None is pinned.
FollowsHost ==
  pc = "serving" /\ "sandbox" \in cfg /\ "/run" \in shared
    => (new["/run/ns"] # "none" <=> "/run/ns" \in host)

\* resolv.conf can be opened in the sandbox, also when it is a link out of /etc and
\* /run; not when it leads to a directory whose name only begins like theirs.
ResolvReachable ==
  pc = "serving" /\ "sandbox" \in cfg /\ resolv \notin {"missing", "lookalike"}
    => resolv = "inside" \/ new["resolv"] # "none"

\* The filter never kills the process that loaded it: no call it is still to make is
\* blocked, be it of create_sandbox or of the loop.
CallsAllowed == \A c \in Makes(pc) : <<Native, c>> \notin filter
=============================================================================
