------------------------------- MODULE DoSlirp -------------------------------
(***************************************************************************)
(* do_slirp: the start-up of the process that serves the tap device, its   *)
(* event loop over one g_poll array, and its two ways out; over and over,  *)
(* as the process is killed or restarted on the same API socket path.      *)
(*                                                                         *)
(* The environment is the tap device, the writer of the exit fd, the host  *)
(* sockets of libslirp, and a client of the API socket.  The forwards that *)
(* requests change are in HostFwd, connections in ApiServer, and the       *)
(* timeout of g_poll in RaTimers: here g_poll may time out at any time.    *)
(***************************************************************************)
EXTENDS Integers, Sequences, FiniteSets, SequencesExt

CONSTANT Sock        \* host sockets libslirp may open for the guest

ASSUME SockAssumption == IsFiniteSet(Sock) /\ Sock \cap {"tap", "exit", "api"} = {}

VARIABLES
  cfg,               \* the options given: which of Option are in force
  pc,                \* the next statement of do_slirp
  pollfds,           \* the GArray, as the names of its fds
  n_fds,             \* fds in it that are not libslirp's
  exitfd_idx, apifd_idx, \* pollfds_exitfd_idx, pollfds_apifd_idx; from 1, or 0
  revents,           \* indexes at which the last g_poll reported an event
  pollout,           \* what it returned: -1, 0 or 1 for any more
  done,              \* start-up steps that have taken effect
  ready,             \* readyfd: "open", "told" or "closed"
  ret,               \* ret, the value do_slirp returns
  file,              \* the API socket path: "absent", "dead" or "live"
  tap, hup, socks, sock_ready, client   \* the environment, see below

vars == <<cfg, pc, pollfds, n_fds, exitfd_idx, apifd_idx, revents, pollout, done,
          ready, ret, file, tap, hup, socks, sock_ready, client>>

Option == {"exitfd", "readyfd", "api", "sandbox", "seccomp"}

array == <<pollfds, n_fds, exitfd_idx, apifd_idx>>
event == <<revents, pollout>>
env   == <<tap, hup, socks, sock_ready, client>>

Step(from, to) == pc = from /\ pc' = to
InLoop == pc \in {"fill", "poll", "tap", "exit", "api", "read", "sockets", "timers"}
Running == pc \notin {"ended", "killed"}

-----------------------------------------------------------------------------
(***************************************************************************)
(* Start-up, in the order of the code.                                     *)
(***************************************************************************)
\* slirp_new with the configuration: a Slirp, or none.
CreateSlirp ==
  /\ Step("create", "malloc") \/ Step("create", "err")
  /\ UNCHANGED <<cfg, array, event, done, ready, ret, file, env>>

\* malloc of the packet buffer, then the array.
AppendFds ==
  /\ \/ Step("malloc", "err") /\ UNCHANGED <<pollfds, n_fds, exitfd_idx>>
     \/ /\ Step("malloc", "bind")
        /\ IF "exitfd" \in cfg
           THEN /\ pollfds' = <<"tap", "exit">>
                /\ n_fds' = n_fds + 1
                /\ exitfd_idx' = n_fds'
           ELSE /\ pollfds' = <<"tap">>
                /\ UNCHANGED <<n_fds, exitfd_idx>>
  /\ UNCHANGED <<cfg, apifd_idx, event, done, ready, ret, file, env>>

\* unlink, then socket, bind and listen.
BindListen ==
  /\ IF "api" \notin cfg
     THEN Step("bind", "sigpipe") /\ UNCHANGED file
     ELSE \/ Step("bind", "alloc") /\ file' = "live"
          \/ Step("bind", "err") /\ file' \in {"absent", "dead"}
  /\ UNCHANGED <<cfg, array, event, done, ready, ret, env>>

\* A bug that could be here: n_fds counted twice.
CtxAlloc_CountsTwice ==
  /\ Step("alloc", "sigpipe")
  /\ pollfds' = Append(pollfds, "api")
  /\ n_fds' = n_fds + 2
  /\ apifd_idx' = n_fds + 1
  /\ done' = done \cup {"api"}
  /\ UNCHANGED <<cfg, exitfd_idx, event, ready, ret, file, env>>

CtxAlloc ==
  /\ \/ /\ Step("alloc", "err")
        /\ UNCHANGED <<pollfds, n_fds, apifd_idx, done>>
     \/ /\ Step("alloc", "sigpipe")
        /\ pollfds' = Append(pollfds, "api")
        /\ n_fds' = n_fds + 1
        /\ apifd_idx' = n_fds'
        /\ done' = done \cup {"api"}
  /\ UNCHANGED <<cfg, exitfd_idx, event, ready, ret, file, env>>

IgnoreSigpipe ==
  /\ Step("sigpipe", "sandbox")
  /\ done' = done \cup {"sigpipe"}
  /\ UNCHANGED <<cfg, array, event, ready, ret, file, env>>

\* create_sandbox may fail before or after it has hidden the files of the host:
\* first those in /tmp, and all of them once it has changed the root.
Sandbox ==
  /\ IF "sandbox" \notin cfg
     THEN Step("sandbox", "seccomp") /\ UNCHANGED done
     ELSE \/ Step("sandbox", "seccomp") /\ done' = done \cup {"hidden", "sandbox"}
          \/ Step("sandbox", "err") /\ done' \in {done, done \cup {"hidden"}}
  /\ UNCHANGED <<cfg, array, event, ready, ret, file, env>>

\* A bug that could be here: a failure of enable_seccomp is only logged.
Seccomp_OnlyLogs ==
  /\ Step("seccomp", "ready")
  /\ UNCHANGED <<cfg, array, event, done, ready, ret, file, env>>

Seccomp ==
  /\ IF "seccomp" \notin cfg
     THEN Step("seccomp", "ready") /\ UNCHANGED done
     ELSE \/ Step("seccomp", "ready") /\ done' = done \cup {"seccomp"}
          \/ Step("seccomp", "err") /\ UNCHANGED done
  /\ UNCHANGED <<cfg, array, event, ready, ret, file, env>>

\* A failed write to readyfd is not noticed; the fd is closed either way.
TellReady ==
  /\ Step("ready", "fill")
  /\ ready' \in IF "readyfd" \in cfg THEN {"told", "closed"} ELSE {ready}
  /\ UNCHANGED <<cfg, array, event, done, ret, file, env>>

-----------------------------------------------------------------------------
(***************************************************************************)
(* The event loop                                                          *)
(***************************************************************************)
\* A bug that could be here: the array is not cut back to n_fds.
Refilled_Grows == pollfds \o SetToSeq(socks)

\* g_array_set_size, then libslirp adds its sockets.
Refilled == SubSeq(pollfds, 1, n_fds) \o SetToSeq(socks)

Fill ==
  /\ Step("fill", "poll")
  /\ pollfds' = Refilled
  /\ revents' = revents \cap 1 .. n_fds
  /\ UNCHANGED <<cfg, n_fds, exitfd_idx, apifd_idx, pollout, done, ready, ret, file, env>>

Active(fd) == \/ fd = "tap" /\ tap
              \/ fd = "exit" /\ hup
              \/ fd = "api" /\ client = "pending"
              \/ fd \in sock_ready

Poll ==
  /\ Step("poll", "tap")
  /\ revents' = {i \in 1 .. Len(pollfds) : Active(pollfds[i])}
  /\ revents' # {}
  /\ pollout' = 1
  /\ UNCHANGED <<cfg, array, done, ready, ret, file, env>>

PollTimeout ==
  /\ Step("poll", "tap")
  /\ \A i \in 1 .. Len(pollfds) : ~Active(pollfds[i])
  /\ revents' = {}
  /\ pollout' = 0
  /\ UNCHANGED <<cfg, array, done, ready, ret, file, env>>

PollFails ==
  /\ Step("poll", "err")
  /\ UNCHANGED <<cfg, array, event, done, ready, ret, file, env>>

\* A bug that could be here: the error is reported in every round.
Tap_AlwaysError ==
  /\ Step("tap", "exit")
  /\ pollout' = -1
  /\ IF 1 \in revents
     THEN /\ tap' = FALSE
          /\ socks' \in SUBSET Sock
          /\ sock_ready' = sock_ready \cap socks'
     ELSE UNCHANGED <<tap, socks, sock_ready>>
  /\ UNCHANGED <<cfg, array, revents, done, ready, ret, file, hup, client>>

\* read and slirp_input: the guest may open and close connections.  Whether
\* or not the read fails, slirp_pollfds_poll will be told of an error.
Tap ==
  /\ Step("tap", "exit")
  /\ IF 1 \in revents
     THEN /\ pollout' = -1
          /\ \/ UNCHANGED <<tap, socks, sock_ready>>
             \/ /\ tap' = FALSE
                /\ socks' \in SUBSET Sock
                /\ sock_ready' = sock_ready \cap socks'
     ELSE UNCHANGED <<pollout, tap, socks, sock_ready>>
  /\ UNCHANGED <<cfg, array, revents, done, ready, ret, file, hup, client>>

\* Bugs that could be here: any event taken for the exit fd's, and the exit fd
\* looked at only in rounds without a packet.
ExitSeen_AnyEvent == "exitfd" \in cfg /\ revents # {}
ExitSeen_UnlessTap == pollout > 0 /\ exitfd_idx > 0 /\ exitfd_idx \in revents

ExitSeen == exitfd_idx > 0 /\ exitfd_idx \in revents

ExitEvent ==
  /\ pc = "exit"
  /\ pc' = IF ExitSeen THEN "success" ELSE "api"
  /\ UNCHANGED <<cfg, array, event, done, ready, ret, file, env>>

\* A bug that could be here: clients are accepted only without a packet.
ApiSeen_UnlessTap == pollout > 0 /\ apifd_idx > 0 /\ apifd_idx \in revents

ApiSeen == apifd_idx > 0 /\ apifd_idx \in revents

\* api_handler accepts, then blocks in read until the client speaks or leaves.
ApiEvent ==
  /\ pc = "api"
  /\ IF ApiSeen THEN pc' = "read" /\ client' = "accepted"
                ELSE pc' = "sockets" /\ UNCHANGED client
  /\ UNCHANGED <<cfg, array, event, done, ready, ret, file, tap, hup, socks, sock_ready>>

ApiHandled ==
  /\ Step("read", "sockets")
  /\ client = "spoke"
  /\ client' = "none"
  /\ UNCHANGED <<cfg, array, event, done, ready, ret, file, tap, hup, socks, sock_ready>>

\* slirp_pollfds_poll looks at the sockets unless told of an error.
Sockets ==
  /\ Step("sockets", "timers")
  /\ sock_ready' = IF pollout <= 0 THEN sock_ready
                   ELSE sock_ready \ {pollfds[i] : i \in revents}
  /\ UNCHANGED <<cfg, array, event, done, ready, ret, file, tap, hup, socks, client>>

\* check_ra_timeout.
Timers ==
  /\ Step("timers", "fill")
  /\ UNCHANGED <<cfg, array, event, done, ready, ret, file, env>>

-----------------------------------------------------------------------------
(***************************************************************************)
(* The end                                                                 *)
(***************************************************************************)

\* A socket file whose listener is gone.
Orphan(f) == IF f = "live" THEN "dead" ELSE f
\* A bug that could be here: errors return without unlinking.
FileLeft_OnError == IF pc = "success" /\ "api" \in done /\ "hidden" \notin done
                    THEN "absent" ELSE Orphan(file)

\* The API socket is unlinked if its context exists; after create_sandbox the
\* path no longer leads to it.
FileLeft == IF "api" \in done /\ "hidden" \notin done THEN "absent" ELSE Orphan(file)

Leave ==
  /\ \/ Step("success", "ended") /\ ret' = 0
     \/ Step("err", "ended") /\ UNCHANGED ret
  /\ file' = FileLeft
  /\ client' = "none"
  /\ UNCHANGED <<cfg, array, event, done, ready, tap, hup, socks, sock_ready>>

Killed ==
  /\ Running
  /\ pc' = "killed"
  /\ file' = Orphan(file)
  /\ client' = "none"
  /\ UNCHANGED <<cfg, array, event, done, ready, ret, tap, hup, socks, sock_ready>>

-----------------------------------------------------------------------------
(***************************************************************************)
(* The environment: a packet waits at the tap device, the exit fd is hung  *)
(* up, a host socket has something, a client connects and then speaks.     *)
(***************************************************************************)
TapArrives   == Running /\ ~tap /\ tap' = TRUE
                /\ UNCHANGED <<cfg, pc, array, event, done, ready, ret, file, hup,
                               socks, sock_ready, client>>
ExitHup      == Running /\ "exitfd" \in cfg /\ ~hup /\ hup' = TRUE
                /\ UNCHANGED <<cfg, pc, array, event, done, ready, ret, file, tap,
                               socks, sock_ready, client>>
SockArrives  == /\ \E s \in socks \ sock_ready : sock_ready' = sock_ready \cup {s}
                /\ UNCHANGED <<cfg, pc, array, event, done, ready, ret, file, tap, hup,
                               socks, client>>
ClientComes  == /\ file = "live" /\ client = "none" /\ client' = "pending"
                /\ UNCHANGED <<cfg, pc, array, event, done, ready, ret, file, tap, hup,
                               socks, sock_ready>>
ClientSpeaks == /\ client = "accepted" /\ client' = "spoke"
                /\ UNCHANGED <<cfg, pc, array, event, done, ready, ret, file, tap, hup,
                               socks, sock_ready>>

Init ==
  /\ cfg \in SUBSET Option
  /\ file \in {"absent", "dead"}
  /\ pc = "create"
  /\ pollfds = <<>> /\ n_fds = 1 /\ exitfd_idx = 0 /\ apifd_idx = 0
  /\ revents = {} /\ pollout = 0
  /\ done = {} /\ ready = "open" /\ ret = -1
  /\ tap = FALSE /\ hup = FALSE /\ socks = {} /\ sock_ready = {} /\ client = "none"

\* do_slirp is entered in a new process, with the same options.
Restart ==
  /\ ~Running
  /\ pc' = "create"
  /\ pollfds' = <<>> /\ n_fds' = 1 /\ exitfd_idx' = 0 /\ apifd_idx' = 0
  /\ revents' = {} /\ pollout' = 0
  /\ done' = {} /\ ready' = "open" /\ ret' = -1
  /\ tap' = FALSE /\ hup' = FALSE /\ socks' = {} /\ sock_ready' = {} /\ client' = "none"
  /\ UNCHANGED <<cfg, file>>

StartUp == \/ CreateSlirp \/ AppendFds \/ BindListen \/ CtxAlloc \/ IgnoreSigpipe
           \/ Sandbox \/ Seccomp \/ TellReady
Loop == \/ Fill \/ Poll \/ Tap \/ ExitEvent \/ ApiEvent
        \/ ApiHandled \/ Sockets \/ Timers
Environment == \/ TapArrives \/ ExitHup \/ SockArrives \/ ClientComes \/ ClientSpeaks

Next == StartUp \/ Loop \/ PollTimeout \/ PollFails \/ Leave \/ Killed \/ Restart \/ Environment

Spec == Init /\ [][Next]_vars

\* The process is scheduled; g_poll returns when an fd is active.
Scheduled == WF_vars(StartUp \/ Loop \/ Leave)
FairSpec == Spec /\ Scheduled

\* And an accepted API client speaks or leaves.
PoliteSpec == FairSpec /\ WF_vars(ClientSpeaks)

-----------------------------------------------------------------------------
(***************************************************************************)
(* Properties                                                              *)
(***************************************************************************)

\* The variables have their types.
TypeOK ==
  /\ cfg \subseteq Option
  /\ pc \in {"create", "malloc", "bind", "alloc", "sigpipe", "sandbox", "seccomp",
             "ready", "fill", "poll", "tap", "exit", "api", "read", "sockets",
             "timers", "success", "err", "ended", "killed"}
  /\ pollfds \in Seq({"tap", "exit", "api"} \cup Sock)
  /\ {n_fds, exitfd_idx, apifd_idx} \subseteq 0 .. 3
  /\ revents \subseteq 1 .. Len(pollfds) /\ pollout \in {-1, 0, 1}
  /\ done \subseteq {"api", "sigpipe", "hidden", "sandbox", "seccomp"}
  /\ ready \in {"open", "told", "closed"}
  /\ ret \in {-1, 0}
  /\ file \in {"absent", "dead", "live"}
  /\ tap \in BOOLEAN /\ hup \in BOOLEAN
  /\ sock_ready \subseteq socks /\ socks \subseteq Sock
  /\ client \in {"none", "pending", "accepted", "spoke"}

\* Who is told through readyfd can rely on everything asked for: the API
\* socket accepts connections, a dead API client cannot kill the process, and
\* the sandbox and the filter are in place, for as long as the process runs.
ReadyMeansServing ==
  ready = "told" /\ Running /\ pc \notin {"success", "err"} =>
    /\ InLoop
    /\ cfg \cap {"api", "sandbox", "seccomp"} \subseteq done
    /\ "sigpipe" \in done
    /\ "api" \in cfg => file = "live"

\* The saved indexes still name their fds whenever revents is looked at, in
\* every combination of options and after any number of rounds, and no fd is
\* in the array twice.
PollIndexes ==
  InLoop => /\ pollfds[1] = "tap"
            /\ "exitfd" \in cfg => exitfd_idx # 0 /\ pollfds[exitfd_idx] = "exit"
            /\ "api" \in cfg => apifd_idx # 0 /\ pollfds[apifd_idx] = "api"
            /\ \A i, j \in 1 .. Len(pollfds) : pollfds[i] = pollfds[j] => i = j

\* do_slirp returns 0 only because the exit fd was hung up, and if it fails
\* before that nobody is left believing it is ready and serving.
SuccessMeansExit ==
  pc = "ended" => /\ ret = 0 => hup /\ "exitfd" \in cfg /\ exitfd_idx \in revents
                  /\ ret = -1 => exitfd_idx \notin revents

\* A socket file left by a process that was killed never keeps the next one
\* from starting, and do_slirp itself leaves one behind only if create_sandbox
\* has hidden it or there never was an API context.
SocketFileRemoved ==
  /\ "api" \in cfg /\ InLoop => file = "live"
  /\ pc = "ended" /\ "api" \in done /\ file # "absent" => "hidden" \in done

\* When the exit fd is hung up the event loop ends, as the manual says of
\* --exit-fd: no amount of traffic on the tap device or the host sockets keeps
\* it busy for ever.  It depends on accepted API clients speaking or leaving.
ExitHonoured == hup /\ InLoop ~> pc \in {"ended", "killed"}

\* A host socket with something to read is served in the end, provided that
\* time and again g_poll finds the tap device idle; a round that reads the tap
\* device tells libslirp to skip the sockets.
SocketsServed ==
  []<>(pc = "tap" /\ 1 \notin revents)
     => \A s \in Sock : s \in sock_ready ~> s \notin sock_ready

\* A client of the API is accepted, whatever the tap device and the host
\* sockets do, unless the process ends first.
ClientAccepted == client = "pending" /\ InLoop ~> client # "pending"

=============================================================================
