------------------------- MODULE LockdownRefinement -------------------------
(***************************************************************************)
(* Lockdown details two start-up steps of DoSlirp, Sandbox and Seccomp.    *)
(***************************************************************************)
EXTENDS Lockdown

\* The two capabilities differ, so that capset gives something up; libseccomp knows
\* some of the calls on the list, so that a filter that is loaded is not empty.
ASSUME LockdownAssumption ==
  /\ CAP_SETPCAP # CAP_NET_BIND_SERVICE
  /\ BLOCK \ Skippable # {}

\* The statement of do_slirp that the process is at.
Stage == CASE pc = "serving" -> "ready"
           [] pc = "failed"  -> "err"
           [] pc \in {"seccomp", "init", "block", "load"} -> "seccomp"
           [] OTHER -> "sandbox"

\* The start-up steps that have taken effect, as the kernel's state shows them.
Done == (IF caps["permitted"] # Cap THEN {"hidden", "sandbox"}
         ELSE IF pc = "failed" /\ tmp # "none" THEN {"hidden"} ELSE {})
        \cup (IF filter # {} THEN {"seccomp"} ELSE {})

\* The two start-up steps of DoSlirp that Lockdown details.
D == INSTANCE DoSlirp WITH
  Sock <- {}, pollfds <- <<"tap">>, n_fds <- 1, exitfd_idx <- 0, apifd_idx <- 0,
  revents <- {}, pollout <- 0, ready <- "open", ret <- -1, file <- "absent",
  tap <- FALSE, hup <- FALSE, socks <- {}, sock_ready <- {}, client <- "none",
  pc <- Stage, done <- Done

\* Every step is one of those two or leaves their state alone: create_sandbox and
\* enable_seccomp succeed as a whole or fail, and a failure never leads on to ready.
ImplementsDoSlirp == [][D!Sandbox \/ D!Seccomp \/ UNCHANGED D!vars]_vars
=============================================================================
