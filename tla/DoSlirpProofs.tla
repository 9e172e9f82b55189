---------------------------- MODULE DoSlirpProofs ----------------------------
(***************************************************************************)
(* Proofs about DoSlirp, for any finite set of host sockets.               *)
(***************************************************************************)
EXTENDS DoSlirp, FiniteSetTheorems, TLAPS

LoopPc   == {"fill", "poll", "tap", "exit", "api", "read", "sockets", "timers"}
Prepared == {"sigpipe", "sandbox", "seccomp", "ready", "success"} \cup LoopPc

\* The array: what do_slirp has appended, then one entry for each socket.
ArrayInv ==
  /\ pc \in {"create", "malloc"} => pollfds = <<>> /\ n_fds = 1 /\ exitfd_idx = 0
  /\ pc \in {"bind", "alloc"} =>
       /\ pollfds = IF "exitfd" \in cfg THEN <<"tap", "exit">> ELSE <<"tap">>
       /\ n_fds = Len(pollfds) /\ exitfd_idx = IF "exitfd" \in cfg THEN 2 ELSE 0
  /\ pc \in {"create", "malloc", "bind", "alloc"} => apifd_idx = 0
  /\ pc = "alloc" => "api" \in cfg
  /\ pc \in Prepared =>
       /\ n_fds = (IF "exitfd" \in cfg THEN 2 ELSE 1) + (IF "api" \in cfg THEN 1 ELSE 0)
       /\ exitfd_idx = IF "exitfd" \in cfg THEN 2 ELSE 0
       /\ apifd_idx = IF "api" \in cfg THEN n_fds ELSE 0
       /\ Len(pollfds) >= n_fds /\ pollfds[1] = "tap"
       /\ "exitfd" \in cfg => pollfds[2] = "exit"
       /\ "api" \in cfg => pollfds[n_fds] = "api"
       /\ \A k \in n_fds + 1 .. Len(pollfds) : pollfds[k] \in Sock
       /\ \A j, k \in n_fds + 1 .. Len(pollfds) : pollfds[j] = pollfds[k] => j = k

\* The exit fd has an event only if it is hung up, and only until it is looked at.
ExitInv ==
  /\ pc \in Prepared /\ exitfd_idx \in revents => hup /\ "exitfd" \in cfg
  /\ pc \in Prepared \cup {"create", "malloc", "bind", "alloc", "err"}
       => ret = -1 /\ (exitfd_idx \in revents => pc \in {"tap", "exit", "success"})
  /\ pc = "success" => exitfd_idx \in revents

\* What start-up has achieved at each point.
StageInv ==
  /\ ready = "told" => pc \in LoopPc \cup {"success", "err", "ended", "killed"}
  /\ pc \in Prepared \ {"sigpipe"} => "sigpipe" \in done
  /\ pc \in Prepared \ {"sigpipe", "sandbox"} => cfg \cap {"sandbox"} \subseteq done
  /\ pc \in Prepared \ {"sigpipe", "sandbox", "seccomp"} => cfg \cap {"seccomp"} \subseteq done
  /\ pc \in Prepared /\ "api" \in cfg => "api" \in done /\ file = "live"
  /\ pc = "alloc" => file = "live"

IInv == TypeOK /\ ArrayInv /\ ExitInv /\ StageInv /\ SuccessMeansExit /\ SocketFileRemoved

-----------------------------------------------------------------------------
\* The sockets of a finite set are listed once each.
LEMMA SetToSeqFacts ==
  ASSUME NEW S, IsFiniteSet(S)
  PROVE  /\ SetToSeq(S) \in Seq(S)
         /\ \A j, k \in 1 .. Len(SetToSeq(S)) : SetToSeq(S)[j] = SetToSeq(S)[k] => j = k
<1> DEFINE n == Cardinality(S)
<1>1. n \in Nat /\ \E f \in [1 .. n -> S] : IsInjective(f)
  BY FS_CardinalityType DEF ExistsBijection, Bijection, Injection
<1>2. SetToSeq(S) \in [1 .. n -> S] /\ IsInjective(SetToSeq(S))
  BY <1>1 DEF SetToSeq
<1> HIDE DEF n
<1>3. SetToSeq(S) \in Seq(S) /\ Len(SetToSeq(S)) = n
  BY <1>1, <1>2
<1>. QED
  BY <1>1, <1>2, <1>3 DEF IsInjective

\* g_array_set_size and slirp_pollfds_fill: the first n_fds entries stay, the others
\* are the sockets libslirp has now.
LEMMA RefilledFacts ==
  ASSUME TypeOK, n_fds <= Len(pollfds)
  PROVE  /\ Refilled \in Seq({"tap", "exit", "api"} \cup Sock)
         /\ Len(Refilled) >= n_fds
         /\ \A k \in 1 .. n_fds : Refilled[k] = pollfds[k]
         /\ \A k \in n_fds + 1 .. Len(Refilled) : Refilled[k] \in Sock
         /\ \A j, k \in n_fds + 1 .. Len(Refilled) : Refilled[j] = Refilled[k] => j = k
<1> DEFINE kept == SubSeq(pollfds, 1, n_fds)
           more == SetToSeq(socks)
<1>1. /\ pollfds \in Seq({"tap", "exit", "api"} \cup Sock) /\ n_fds \in Nat
      /\ socks \subseteq Sock
  BY DEF TypeOK
<1>2. IsFiniteSet(socks)
  BY <1>1, SockAssumption, FS_Subset DEF SockAssumption
<1>3. /\ more \in Seq(socks)
      /\ \A j, k \in 1 .. Len(more) : more[j] = more[k] => j = k
  BY <1>2, SetToSeqFacts
<1>4. /\ kept \in Seq({"tap", "exit", "api"} \cup Sock) /\ Len(kept) = n_fds
      /\ \A k \in 1 .. n_fds : kept[k] = pollfds[k]
  BY <1>1
<1>5. more \in Seq({"tap", "exit", "api"} \cup Sock) /\ \A k \in 1 .. Len(more) : more[k] \in Sock
  BY <1>1, <1>3
<1> HIDE DEF kept, more
<1>6. /\ kept \o more \in Seq({"tap", "exit", "api"} \cup Sock)
      /\ Len(kept \o more) = n_fds + Len(more)
      /\ \A k \in 1 .. n_fds : (kept \o more)[k] = pollfds[k]
      /\ \A k \in n_fds + 1 .. Len(kept \o more) :
           (kept \o more)[k] = more[k - n_fds] /\ k - n_fds \in 1 .. Len(more)
  <2>1. Len(more) \in Nat /\ Len(kept \o more) = n_fds + Len(more)
    BY <1>1, <1>4, <1>5
  <2>2. kept \o more \in Seq({"tap", "exit", "api"} \cup Sock)
    BY <1>4, <1>5
  <2>3. \A k \in 1 .. n_fds : (kept \o more)[k] = pollfds[k]
    BY <1>1, <1>4, <1>5, <2>1
  <2>4. ASSUME NEW k \in n_fds + 1 .. Len(kept \o more)
        PROVE  (kept \o more)[k] = more[k - n_fds] /\ k - n_fds \in 1 .. Len(more)
    BY <1>1, <1>4, <1>5, <2>1
  <2>. QED
    BY <2>1, <2>2, <2>3, <2>4
<1>7. Refilled = kept \o more
  BY DEF Refilled, kept, more
<1>8. \A j, k \in n_fds + 1 .. Len(kept \o more) :
        (kept \o more)[j] = (kept \o more)[k] => j = k
  <2> SUFFICES ASSUME NEW j \in n_fds + 1 .. Len(kept \o more),
                      NEW k \in n_fds + 1 .. Len(kept \o more),
                      (kept \o more)[j] = (kept \o more)[k]
               PROVE  j = k
    OBVIOUS
  <2>1. more[j - n_fds] = more[k - n_fds]
    BY <1>6
  <2>2. j - n_fds = k - n_fds
    BY <1>3, <1>6, <2>1
  <2>. QED
    BY <1>1, <2>2
<1>. QED
  BY <1>1, <1>3, <1>5, <1>6, <1>7, <1>8

\* Every step keeps the types: the array never has more than three fds of do_slirp.
LEMMA TypeOKStep ==
  ASSUME TypeOK, ArrayInv, [Next]_vars
  PROVE  TypeOK'
<1> USE DEF array, event, env, Step, TypeOK, ArrayInv, Prepared, LoopPc
<1>1. CASE CreateSlirp
  BY <1>1 DEF CreateSlirp
<1>2. CASE AppendFds
  <2>1. CASE pc' = "err"
    BY <1>2, <2>1 DEF AppendFds
  <2>2. CASE pc' = "bind"
    <3>1. /\ pc = "malloc" /\ n_fds = 1 /\ pollfds = <<>> /\ apifd_idx = 0
          /\ UNCHANGED <<cfg, apifd_idx, event, done, ready, ret, file, env>>
      BY <1>2, <2>2 DEF AppendFds
    <3>2. CASE "exitfd" \in cfg
      <4>1. pollfds' = <<"tap", "exit">> /\ n_fds' = 2 /\ exitfd_idx' = 2
        BY <1>2, <2>2, <3>1, <3>2 DEF AppendFds
      <4>2. Len(pollfds') = 2 /\ pollfds' \in Seq({"tap", "exit", "api"} \cup Sock)
        BY <4>1
      <4>. QED
        BY <2>2, <3>1, <3>2, <4>1, <4>2
    <3>3. CASE "exitfd" \notin cfg
      <4>1. pollfds' = <<"tap">> /\ n_fds' = 1 /\ exitfd_idx' = 0
        BY <1>2, <2>2, <3>1, <3>3 DEF AppendFds
      <4>2. Len(pollfds') = 1 /\ pollfds' \in Seq({"tap", "exit", "api"} \cup Sock)
        BY <4>1
      <4>. QED
        BY <2>2, <3>1, <3>3, <4>1, <4>2
    <3>. QED
      BY <3>2, <3>3
  <2>. QED
    BY <1>2, <2>1, <2>2 DEF AppendFds
<1>3. CASE BindListen
  BY <1>3 DEF BindListen
<1>4. CASE CtxAlloc
  <2>1. CASE pc' = "err"
    <3>1. UNCHANGED <<cfg, array, event, done, ready, ret, file, env>>
      BY <1>4, <2>1 DEF CtxAlloc
    <3>. QED
      BY <2>1, <3>1
  <2>2. CASE pc' = "sigpipe"
    <3>1. /\ pollfds' = Append(pollfds, "api") /\ n_fds' = n_fds + 1 /\ apifd_idx' = n_fds'
          /\ done' = done \cup {"api"} /\ pc = "alloc"
          /\ UNCHANGED <<cfg, exitfd_idx, event, ready, ret, file, env>>
      BY <1>4, <2>2 DEF CtxAlloc
    <3>2. n_fds \in {1, 2}
      BY <3>1
    <3>3. /\ pollfds' \in Seq({"tap", "exit", "api"} \cup Sock)
          /\ Len(pollfds') = Len(pollfds) + 1 /\ Len(pollfds) \in Nat
      BY <3>1
    <3>4. revents' \subseteq 1 .. Len(pollfds')
      BY <3>1, <3>3
    <3>. QED
      BY <2>2, <3>1, <3>2, <3>3, <3>4
  <2>. QED
    BY <1>4, <2>1, <2>2 DEF CtxAlloc
<1>5. CASE IgnoreSigpipe
  BY <1>5 DEF IgnoreSigpipe
<1>6. CASE Sandbox
  <2>1. /\ done' \in {done, done \cup {"hidden"}, done \cup {"hidden", "sandbox"}}
        /\ pc' \in {"seccomp", "err"}
        /\ UNCHANGED <<cfg, array, event, ready, ret, file, env>>
    BY <1>6 DEF Sandbox
  <2>. QED
    BY <2>1
<1>7. CASE Seccomp
  <2>1. /\ done' \in {done, done \cup {"seccomp"}}
        /\ pc' \in {"ready", "err"}
        /\ UNCHANGED <<cfg, array, event, ready, ret, file, env>>
    BY <1>7 DEF Seccomp
  <2>. QED
    BY <2>1
<1>8. CASE TellReady
  BY <1>8 DEF TellReady
<1>9. CASE Fill
  BY <1>9, RefilledFacts DEF Fill
<1>10. CASE Poll
  BY <1>10, SockAssumption DEF Poll, Active, SockAssumption
<1>11. CASE PollTimeout
  BY <1>11 DEF PollTimeout
<1>12. CASE PollFails
  BY <1>12 DEF PollFails
<1>13. CASE Tap
  BY <1>13 DEF Tap
<1>14. CASE ExitEvent
  BY <1>14 DEF ExitEvent, ExitSeen
<1>15. CASE ApiEvent
  BY <1>15 DEF ApiEvent, ApiSeen
<1>16. CASE ApiHandled
  BY <1>16 DEF ApiHandled
<1>17. CASE Sockets
  BY <1>17 DEF Sockets
<1>18. CASE Timers
  BY <1>18 DEF Timers
<1>19. CASE Leave
  BY <1>19 DEF Leave, FileLeft, Orphan
<1>20. CASE Killed
  BY <1>20 DEF Killed, Orphan, Running
<1>21. CASE Restart
  <2>1. /\ pollfds' = <<>> /\ revents' = {} /\ n_fds' = 1 /\ exitfd_idx' = 0 /\ apifd_idx' = 0
        /\ pc' = "create" /\ pollout' = 0 /\ done' = {} /\ ready' = "open" /\ ret' = -1
        /\ socks' = {} /\ sock_ready' = {} /\ client' = "none" /\ UNCHANGED <<cfg, file>>
    BY <1>21 DEF Restart
  <2>2. tap' \in BOOLEAN /\ hup' \in BOOLEAN
    BY <1>21 DEF Restart
  <2>3. pollfds' \in Seq({"tap", "exit", "api"} \cup Sock)
    BY <2>1
  <2>. QED
    BY <2>1, <2>2, <2>3
<1>22. CASE Environment
  <2>1. /\ UNCHANGED <<cfg, pc, array, event, done, ready, ret, file, socks>>
        /\ sock_ready' \subseteq socks /\ client' \in {"none", "pending", "accepted", "spoke"}
    BY <1>22 DEF Environment, TapArrives, ExitHup, SockArrives, ClientComes, ClientSpeaks
  <2>2. tap' \in BOOLEAN /\ hup' \in BOOLEAN
    BY <1>22 DEF Environment, TapArrives, ExitHup, SockArrives, ClientComes, ClientSpeaks
  <2>. QED
    BY <2>1, <2>2
<1>23. CASE UNCHANGED vars
  BY <1>23 DEF vars
<1> HIDE DEF array, event, env, Step, TypeOK, ArrayInv, Prepared, LoopPc
<1>. QED
  BY <1>1, <1>2, <1>3, <1>4, <1>5, <1>6, <1>7, <1>8, <1>9, <1>10, <1>11, <1>12, <1>13,
       <1>14, <1>15, <1>16, <1>17, <1>18, <1>19, <1>20, <1>21, <1>22, <1>23 DEF Next, StartUp, Loop

\* No round of the loop moves what do_slirp has appended.
LEMMA ArrayInvStep ==
  ASSUME TypeOK, ArrayInv, [Next]_vars
  PROVE  ArrayInv'
<1> USE DEF array, event, env, Step, TypeOK, ArrayInv, Prepared, LoopPc
<1>1. CASE CreateSlirp
  BY <1>1 DEF CreateSlirp
<1>2. CASE AppendFds
  <2>1. CASE pc' = "err"
    BY <1>2, <2>1 DEF AppendFds
  <2>2. CASE pc' = "bind"
    <3>1. /\ pc = "malloc" /\ n_fds = 1 /\ pollfds = <<>> /\ apifd_idx = 0
          /\ UNCHANGED <<cfg, apifd_idx, event, done, ready, ret, file, env>>
      BY <1>2, <2>2 DEF AppendFds
    <3>2. CASE "exitfd" \in cfg
      <4>1. pollfds' = <<"tap", "exit">> /\ n_fds' = 2 /\ exitfd_idx' = 2
        BY <1>2, <2>2, <3>1, <3>2 DEF AppendFds
      <4>2. Len(pollfds') = 2 /\ pollfds' \in Seq({"tap", "exit", "api"} \cup Sock)
        BY <4>1
      <4>. QED
        BY <2>2, <3>1, <3>2, <4>1, <4>2
    <3>3. CASE "exitfd" \notin cfg
      <4>1. pollfds' = <<"tap">> /\ n_fds' = 1 /\ exitfd_idx' = 0
        BY <1>2, <2>2, <3>1, <3>3 DEF AppendFds
      <4>2. Len(pollfds') = 1 /\ pollfds' \in Seq({"tap", "exit", "api"} \cup Sock)
        BY <4>1
      <4>. QED
        BY <2>2, <3>1, <3>3, <4>1, <4>2
    <3>. QED
      BY <3>2, <3>3
  <2>. QED
    BY <1>2, <2>1, <2>2 DEF AppendFds
<1>3. CASE BindListen
  <2>1. /\ pc = "bind" /\ UNCHANGED <<cfg, array, event, done, ready, ret, env>>
        /\ \/ pc' = "sigpipe" /\ "api" \notin cfg
           \/ pc' = "alloc" /\ "api" \in cfg
           \/ pc' = "err"
    BY <1>3 DEF BindListen
  <2>2. CASE pc' # "sigpipe"
    BY <2>1, <2>2
  <2>3. CASE pc' = "sigpipe"
    <3>1. CASE "exitfd" \in cfg
      <4>1. pollfds = <<"tap", "exit">> /\ Len(pollfds) = 2 /\ n_fds = 2
        BY <2>1, <3>1
      <4>. QED
        BY <2>1, <2>3, <3>1, <4>1
    <3>2. CASE "exitfd" \notin cfg
      <4>1. pollfds = <<"tap">> /\ Len(pollfds) = 1 /\ n_fds = 1
        BY <2>1, <3>2
      <4>. QED
        BY <2>1, <2>3, <3>2, <4>1
    <3>. QED
      BY <3>1, <3>2
  <2>. QED
    BY <2>2, <2>3
<1>4. CASE CtxAlloc
  BY <1>4 DEF CtxAlloc
<1>5. CASE IgnoreSigpipe
  BY <1>5 DEF IgnoreSigpipe
<1>6. CASE Sandbox
  BY <1>6 DEF Sandbox
<1>7. CASE Seccomp
  BY <1>7 DEF Seccomp
<1>8. CASE TellReady
  BY <1>8 DEF TellReady
<1>9. CASE Fill
  BY <1>9, RefilledFacts DEF Fill
<1>10. CASE Poll
  BY <1>10, SockAssumption DEF Poll, Active, SockAssumption
<1>11. CASE PollTimeout
  BY <1>11 DEF PollTimeout
<1>12. CASE PollFails
  BY <1>12 DEF PollFails
<1>13. CASE Tap
  BY <1>13 DEF Tap
<1>14. CASE ExitEvent
  BY <1>14 DEF ExitEvent, ExitSeen
<1>15. CASE ApiEvent
  BY <1>15 DEF ApiEvent, ApiSeen
<1>16. CASE ApiHandled
  BY <1>16 DEF ApiHandled
<1>17. CASE Sockets
  BY <1>17 DEF Sockets
<1>18. CASE Timers
  BY <1>18 DEF Timers
<1>19. CASE Leave
  BY <1>19 DEF Leave, FileLeft, Orphan
<1>20. CASE Killed
  BY <1>20 DEF Killed, Orphan, Running
<1>21. CASE Restart
  BY <1>21 DEF Restart, Running
<1>22. CASE Environment
  BY <1>22 DEF Environment, TapArrives, ExitHup, SockArrives, ClientComes, ClientSpeaks
<1>23. CASE UNCHANGED vars
  BY <1>23 DEF vars
<1> HIDE DEF array, event, env, Step, TypeOK, ArrayInv, Prepared, LoopPc
<1>. QED
  BY <1>1, <1>2, <1>3, <1>4, <1>5, <1>6, <1>7, <1>8, <1>9, <1>10, <1>11, <1>12, <1>13,
       <1>14, <1>15, <1>16, <1>17, <1>18, <1>19, <1>20, <1>21, <1>22, <1>23 DEF Next, StartUp, Loop

\* An event of the exit fd is looked at in the round that reports it.
LEMMA ExitInvStep ==
  ASSUME TypeOK, ArrayInv, ExitInv, [Next]_vars
  PROVE  ExitInv'
<1> USE DEF array, event, env, Step, TypeOK, ArrayInv, ExitInv, Prepared, LoopPc
<1>1. CASE CreateSlirp
  BY <1>1 DEF CreateSlirp
<1>2. CASE AppendFds
  BY <1>2 DEF AppendFds
<1>3. CASE BindListen
  BY <1>3 DEF BindListen
<1>4. CASE CtxAlloc
  BY <1>4 DEF CtxAlloc
<1>5. CASE IgnoreSigpipe
  BY <1>5 DEF IgnoreSigpipe
<1>6. CASE Sandbox
  BY <1>6 DEF Sandbox
<1>7. CASE Seccomp
  BY <1>7 DEF Seccomp
<1>8. CASE TellReady
  BY <1>8 DEF TellReady
<1>9. CASE Fill
  BY <1>9, RefilledFacts DEF Fill
<1>10. CASE Poll
  BY <1>10, SockAssumption DEF Poll, Active, SockAssumption
<1>11. CASE PollTimeout
  BY <1>11 DEF PollTimeout
<1>12. CASE PollFails
  BY <1>12 DEF PollFails
<1>13. CASE Tap
  BY <1>13 DEF Tap
<1>14. CASE ExitEvent
  BY <1>14 DEF ExitEvent, ExitSeen
<1>15. CASE ApiEvent
  BY <1>15 DEF ApiEvent, ApiSeen
<1>16. CASE ApiHandled
  BY <1>16 DEF ApiHandled
<1>17. CASE Sockets
  BY <1>17 DEF Sockets
<1>18. CASE Timers
  BY <1>18 DEF Timers
<1>19. CASE Leave
  BY <1>19 DEF Leave, FileLeft, Orphan
<1>20. CASE Killed
  BY <1>20 DEF Killed, Orphan, Running
<1>21. CASE Restart
  BY <1>21 DEF Restart, Running
<1>22. CASE Environment
  BY <1>22 DEF Environment, TapArrives, ExitHup, SockArrives, ClientComes, ClientSpeaks
<1>23. CASE UNCHANGED vars
  BY <1>23 DEF vars
<1> HIDE DEF array, event, env, Step, TypeOK, ArrayInv, ExitInv, Prepared, LoopPc
<1>. QED
  BY <1>1, <1>2, <1>3, <1>4, <1>5, <1>6, <1>7, <1>8, <1>9, <1>10, <1>11, <1>12, <1>13,
       <1>14, <1>15, <1>16, <1>17, <1>18, <1>19, <1>20, <1>21, <1>22, <1>23 DEF Next, StartUp, Loop

\* The steps of start-up are not skipped and not undone.
LEMMA StageInvStep ==
  ASSUME TypeOK, StageInv, [Next]_vars
  PROVE  StageInv'
<1> USE DEF array, event, env, Step, StageInv, Prepared, LoopPc
<1>1. CASE CreateSlirp
  BY <1>1 DEF CreateSlirp
<1>2. CASE AppendFds
  BY <1>2 DEF AppendFds
<1>3. CASE BindListen
  BY <1>3 DEF BindListen
<1>4. CASE CtxAlloc
  BY <1>4 DEF CtxAlloc
<1>5. CASE IgnoreSigpipe
  BY <1>5 DEF IgnoreSigpipe
<1>6. CASE Sandbox
  BY <1>6 DEF Sandbox
<1>7. CASE Seccomp
  BY <1>7 DEF Seccomp
<1>8. CASE TellReady
  BY <1>8 DEF TellReady
<1>9. CASE Fill
  BY <1>9, RefilledFacts DEF Fill
<1>10. CASE Poll
  BY <1>10, SockAssumption DEF Poll, Active, SockAssumption
<1>11. CASE PollTimeout
  BY <1>11 DEF PollTimeout
<1>12. CASE PollFails
  BY <1>12 DEF PollFails
<1>13. CASE Tap
  BY <1>13 DEF Tap
<1>14. CASE ExitEvent
  BY <1>14 DEF ExitEvent, ExitSeen
<1>15. CASE ApiEvent
  BY <1>15 DEF ApiEvent, ApiSeen
<1>16. CASE ApiHandled
  BY <1>16 DEF ApiHandled
<1>17. CASE Sockets
  BY <1>17 DEF Sockets
<1>18. CASE Timers
  BY <1>18 DEF Timers
<1>19. CASE Leave
  BY <1>19 DEF Leave, FileLeft, Orphan
<1>20. CASE Killed
  BY <1>20 DEF Killed, Orphan, Running
<1>21. CASE Restart
  BY <1>21 DEF Restart, Running
<1>22. CASE Environment
  BY <1>22 DEF Environment, TapArrives, ExitHup, SockArrives, ClientComes, ClientSpeaks
<1>23. CASE UNCHANGED vars
  BY <1>23 DEF vars
<1> HIDE DEF array, event, env, Step, StageInv, Prepared, LoopPc
<1>. QED
  BY <1>1, <1>2, <1>3, <1>4, <1>5, <1>6, <1>7, <1>8, <1>9, <1>10, <1>11, <1>12, <1>13,
       <1>14, <1>15, <1>16, <1>17, <1>18, <1>19, <1>20, <1>21, <1>22, <1>23 DEF Next, StartUp, Loop

-----------------------------------------------------------------------------
\* do_slirp ends in Leave; after that only the environment moves until a restart.
LEMMA EndSteps ==
  ASSUME [Next]_vars, pc' = "ended"
  PROVE  \/ Leave
         \/ /\ UNCHANGED <<cfg, pc, exitfd_idx, revents, done, ret, file>>
            /\ hup => hup'
  BY DEF Next, StartUp, Loop, Environment, Step, CreateSlirp, AppendFds, BindListen,
       CtxAlloc,
         IgnoreSigpipe, Sandbox, Seccomp, TellReady, Fill, Poll, PollTimeout,
         PollFails, Tap,
         ExitEvent, ApiEvent, ApiHandled, Sockets, Timers, Killed, Restart, TapArrives,
         ExitHup,
         SockArrives, ClientComes, ClientSpeaks, vars, array, event, env

\* The result of do_slirp tells whether the exit fd was seen.
LEMMA SuccessMeansExitStep ==
  ASSUME ExitInv, SuccessMeansExit, [Next]_vars
  PROVE  SuccessMeansExit'
<1> SUFFICES ASSUME pc' = "ended" PROVE SuccessMeansExit'
  BY DEF SuccessMeansExit
<1>1. CASE Leave
  BY <1>1 DEF Leave, Step, array, event, ExitInv, SuccessMeansExit, Prepared, LoopPc
<1>2. CASE UNCHANGED <<cfg, pc, exitfd_idx, revents, done, ret, file>> /\ (hup => hup')
  BY <1>2 DEF SuccessMeansExit
<1>. QED
  BY <1>1, <1>2, EndSteps

\* The socket file is live in the loop, and gone after it unless it is hidden.
LEMMA SocketFileRemovedStep ==
  ASSUME StageInv', SocketFileRemoved, [Next]_vars
  PROVE  SocketFileRemoved'
<1>1. ("api" \in cfg /\ InLoop => file = "live")'
  BY DEF StageInv, InLoop, Prepared, LoopPc
<1>2. ASSUME pc' = "ended"
      PROVE  ("api" \in done /\ file # "absent" => "hidden" \in done)'
  <2>1. CASE Leave
    BY <2>1 DEF Leave, FileLeft
  <2>2. CASE UNCHANGED <<cfg, pc, exitfd_idx, revents, done, ret, file>>
    BY <1>2, <2>2 DEF SocketFileRemoved
  <2>. QED
    BY <1>2, <2>1, <2>2, EndSteps
<1>. QED
  BY <1>1, <1>2 DEF SocketFileRemoved

\* The invariant holds when do_slirp is entered.
LEMMA IInvInit == Init => IInv
<1> SUFFICES ASSUME Init PROVE IInv
  OBVIOUS
<1>1. TypeOK
  <2>1. tap \in BOOLEAN /\ hup \in BOOLEAN
    BY DEF Init
  <2>2. pollfds \in Seq({"tap", "exit", "api"} \cup Sock)
    BY DEF Init
  <2>. QED
    BY <2>1, <2>2 DEF Init, TypeOK
<1>2. ArrayInv /\ ExitInv /\ StageInv
  BY DEF Init, ArrayInv, ExitInv, StageInv, Prepared, LoopPc
<1>3. SuccessMeansExit /\ SocketFileRemoved
  BY DEF Init, SuccessMeansExit, SocketFileRemoved, InLoop
<1>. QED
  BY <1>1, <1>2, <1>3 DEF IInv

\* Every step keeps it.
LEMMA IInvStep == IInv /\ [Next]_vars => IInv'
<1> SUFFICES ASSUME IInv, [Next]_vars PROVE IInv'
  OBVIOUS
<1>1. TypeOK /\ ArrayInv /\ ExitInv /\ StageInv /\ SuccessMeansExit /\ SocketFileRemoved
  BY DEF IInv
<1>2. TypeOK' /\ ArrayInv' /\ ExitInv' /\ StageInv'
  BY <1>1, TypeOKStep, ArrayInvStep, ExitInvStep, StageInvStep
<1>3. SuccessMeansExit' /\ SocketFileRemoved'
  BY <1>1, <1>2, SuccessMeansExitStep, SocketFileRemovedStep
<1>. QED
  BY <1>2, <1>3 DEF IInv

\* It gives what is promised to the reader of readyfd, and that the saved indexes name
\* their fds, no other entry being the same fd.
LEMMA IInvImplies == IInv => ReadyMeansServing /\ PollIndexes
<1> SUFFICES ASSUME IInv PROVE ReadyMeansServing /\ PollIndexes
  OBVIOUS
<1>1. ReadyMeansServing
  BY DEF IInv, TypeOK, StageInv, ReadyMeansServing, Running, InLoop, Prepared, LoopPc
<1>2. PollIndexes
  <2> SUFFICES ASSUME InLoop PROVE PollIndexes
    BY DEF PollIndexes
  <2>1. pc \in Prepared
    BY DEF InLoop, Prepared, LoopPc
  <2> DEFINE n == n_fds
  <2>2. /\ n = (IF "exitfd" \in cfg THEN 2 ELSE 1) + (IF "api" \in cfg THEN 1 ELSE 0)
        /\ exitfd_idx = IF "exitfd" \in cfg THEN 2 ELSE 0
        /\ apifd_idx = IF "api" \in cfg THEN n ELSE 0
        /\ Len(pollfds) >= n /\ pollfds[1] = "tap"
        /\ "exitfd" \in cfg => pollfds[2] = "exit"
        /\ "api" \in cfg => pollfds[n] = "api"
        /\ \A k \in n + 1 .. Len(pollfds) : pollfds[k] \in Sock
        /\ \A j, k \in n + 1 .. Len(pollfds) : pollfds[j] = pollfds[k] => j = k
    BY <2>1 DEF IInv, ArrayInv
  <2>3. Len(pollfds) \in Nat
    BY DEF IInv, TypeOK
  <2>4. ASSUME NEW i \in 1 .. Len(pollfds), NEW j \in 1 .. Len(pollfds), i # j,
               pollfds[i] = pollfds[j]
        PROVE  FALSE
    <3>1. \A k \in 1 .. n : pollfds[k] \in {"tap", "exit", "api"}
      BY <2>2
    <3>2. \A k \in n + 1 .. Len(pollfds) : pollfds[k] \notin {"tap", "exit", "api"}
      BY <2>2, SockAssumption DEF SockAssumption
    <3>3. (i \in 1 .. n /\ j \in 1 .. n) \/ (i \in n + 1 .. Len(pollfds) /\ j \in n + 1 .. Len(pollfds))
      BY <2>2, <2>3, <2>4, <3>1, <3>2
    <3>4. \A k, l \in 1 .. n : pollfds[k] = pollfds[l] => k = l
      BY <2>2
    <3>. QED
      BY <2>2, <2>4, <3>3, <3>4
  <2>. QED
    BY <2>2, <2>4 DEF PollIndexes
<1>. QED
  BY <1>1, <1>2

\* The invariant holds in every reachable state, for any number of host sockets,
\* rounds and restarts.
LEMMA Invariant == Spec => []IInv
BY IInvInit, IInvStep, PTL DEF Spec

\* do_slirp: the array of descriptors, the indexes into it, the stages and the
\* result keep their types.
THEOREM TypeCorrect == Spec => []TypeOK
<1>1. IInv => TypeOK
  BY DEF IInv
<1>. QED
  BY <1>1, Invariant, PTL

\* do_slirp writes to readyfd once libslirp, the sandbox, seccomp and the API socket
\* that the configuration asks for are in place, and never on a path that fails.
THEOREM ReadyTold == Spec => []ReadyMeansServing
BY Invariant, IInvImplies, PTL

\* The indexes that do_slirp took once name the tap, exitfd and the API socket in
\* every round of the loop, however the array is truncated and grows in between.
THEOREM PollIndexesHold == Spec => []PollIndexes
BY Invariant, IInvImplies, PTL

\* do_slirp returns 0 only if it saw exitfd hung up, and -1 only if it did not.
THEOREM SuccessTold == Spec => []SuccessMeansExit
<1>1. IInv => SuccessMeansExit
  BY DEF IInv
<1>. QED
  BY <1>1, Invariant, PTL

\* The API socket's file is there while do_slirp serves, and gone when it has returned,
\* by whichever path, unless create_sandbox has hidden it.
THEOREM SocketFileGone == Spec => []SocketFileRemoved
<1>1. IInv => SocketFileRemoved
  BY DEF IInv
<1>. QED
  BY <1>1, Invariant, PTL

-----------------------------------------------------------------------------
(***************************************************************************)
(* How far the loop is from an fd that has an event: the statements up to  *)
(* the one that looks at it, or first the rest of a round whose g_poll was *)
(* too early to report it.                                                 *)
(***************************************************************************)
FarAt(p) ==
  CASE p = "tap" -> 11 [] p = "exit" -> 10 [] p = "api" -> 9 [] p = "read" -> 8
    [] p = "sockets" -> 7 [] p = "timers" -> 6 [] p = "fill" -> 5 [] p = "poll" -> 4
    [] p = "success" -> 1 [] p = "err" -> 1 [] OTHER -> 0
NearAt(p) ==
  CASE p = "tap" -> 3 [] p = "exit" -> 2 [] p = "api" -> 1 [] OTHER -> FarAt(p)
ToExit   == IF exitfd_idx \in revents THEN NearAt(pc) ELSE FarAt(pc)
ToAccept == IF apifd_idx \in revents THEN NearAt(pc) ELSE FarAt(pc)

\* Who can be waiting: only with the option that has the loop look at its fd.
WaitInv ==
  /\ hup => "exitfd" \in cfg
  /\ file = "live" => "api" \in cfg
  /\ client = "pending" => "api" \in cfg
  /\ client \in {"accepted", "spoke"} <=> pc = "read"

\* It holds from the start and in every step.
LEMMA WaitInvInit == Init => WaitInv
BY DEF Init, WaitInv
LEMMA WaitInvStep == TypeOK /\ WaitInv /\ [Next]_vars => WaitInv'
<1> SUFFICES ASSUME TypeOK, WaitInv, [Next]_vars PROVE WaitInv'
  OBVIOUS
<1> USE DEF WaitInv
<1>1. CASE StartUp
  <2>1. CASE CreateSlirp \/ AppendFds \/ CtxAlloc \/ IgnoreSigpipe
    BY <2>1 DEF CreateSlirp, AppendFds, CtxAlloc, IgnoreSigpipe, Step, env
  <2>2. CASE BindListen
    BY <2>2 DEF BindListen, Step, env
  <2>3. CASE Sandbox \/ Seccomp \/ TellReady
    BY <2>3 DEF Sandbox, Seccomp, TellReady, Step, env
  <2>. QED
    BY <1>1, <2>1, <2>2, <2>3 DEF StartUp
<1>2. CASE Fill \/ Poll \/ PollTimeout \/ PollFails \/ Timers
  BY <1>2 DEF Fill, Poll, PollTimeout, PollFails, Timers, Step, env
<1>3. CASE Tap \/ ExitEvent \/ Sockets
  <2>1. CASE Tap
    BY <2>1 DEF Tap, Step
  <2>2. CASE ExitEvent \/ Sockets
    BY <2>2 DEF ExitEvent, Sockets, Step, env
  <2>. QED
    BY <1>3, <2>1, <2>2
<1>4. CASE ApiEvent \/ ApiHandled
  BY <1>4 DEF ApiEvent, ApiHandled, Step, TypeOK
<1>5. CASE Leave \/ Killed
  BY <1>5 DEF Leave, Killed, Step, FileLeft, Orphan, Running
<1>6. CASE Restart
  BY <1>6 DEF Restart, Running
<1>7. CASE Environment
  BY <1>7 DEF Environment, TapArrives, ExitHup, SockArrives, ClientComes, ClientSpeaks
<1>8. CASE UNCHANGED vars
  BY <1>8 DEF vars
<1>. QED
  BY <1>1, <1>2, <1>3, <1>4, <1>5, <1>6, <1>7, <1>8 DEF Next, Loop
LEMMA Waiting == Spec => [](IInv /\ WaitInv)
<1>1. IInv => TypeOK
  BY DEF IInv
<1>. QED
  BY <1>1, Invariant, WaitInvInit, WaitInvStep, PTL DEF Spec

\* g_poll does not sleep while the exit fd is hung up or a client waits: their fds are
\* in the array, at the saved indexes.
LEMMA PollSees ==
  ASSUME IInv, WaitInv, pc = "poll"
  PROVE  /\ hup => exitfd_idx \in 1 .. Len(pollfds) /\ Active(pollfds[exitfd_idx])
         /\ client = "pending" => apifd_idx \in 1 .. Len(pollfds) /\ Active(pollfds[apifd_idx])
<1>1. /\ n_fds = (IF "exitfd" \in cfg THEN 2 ELSE 1) + (IF "api" \in cfg THEN 1 ELSE 0)
      /\ exitfd_idx = IF "exitfd" \in cfg THEN 2 ELSE 0
      /\ apifd_idx = IF "api" \in cfg THEN n_fds ELSE 0
      /\ Len(pollfds) >= n_fds
      /\ "exitfd" \in cfg => pollfds[2] = "exit"
      /\ "api" \in cfg => pollfds[n_fds] = "api"
  BY DEF IInv, ArrayInv, Prepared, LoopPc
<1>2. Len(pollfds) \in Nat
  BY DEF IInv, TypeOK
<1>3. hup => exitfd_idx \in 1 .. Len(pollfds) /\ pollfds[exitfd_idx] = "exit"
  BY <1>1, <1>2 DEF WaitInv
<1>4. client = "pending" => apifd_idx \in 1 .. Len(pollfds) /\ pollfds[apifd_idx] = "api"
  BY <1>1, <1>2 DEF WaitInv
<1>. QED
  BY <1>3, <1>4 DEF Active

\* The distances.
LEMMA Distances ==
  /\ FarAt("tap") = 11 /\ FarAt("exit") = 10 /\ FarAt("api") = 9 /\ FarAt("read") = 8
  /\ FarAt("sockets") = 7 /\ FarAt("timers") = 6 /\ FarAt("fill") = 5 /\ FarAt("poll") = 4
  /\ FarAt("success") = 1 /\ FarAt("err") = 1 /\ FarAt("ended") = 0 /\ FarAt("killed") = 0
  /\ NearAt("tap") = 3 /\ NearAt("exit") = 2 /\ NearAt("api") = 1 /\ NearAt("read") = 8
  /\ NearAt("sockets") = 7 /\ NearAt("timers") = 6 /\ NearAt("fill") = 5
  /\ NearAt("poll") = 4 /\ NearAt("success") = 1 /\ NearAt("err") = 1
  /\ NearAt("ended") = 0 /\ NearAt("killed") = 0
BY DEF FarAt, NearAt
LEMMA DistanceType == \A q : FarAt(q) \in 0 .. 11 /\ NearAt(q) \in 0 .. 11
<1>1. \A q : FarAt(q) \in 0 .. 11
  BY DEF FarAt
<1>2. ASSUME NEW q PROVE NearAt(q) \in 0 .. 11
  <2>1. NearAt(q) = 3 \/ NearAt(q) = 2 \/ NearAt(q) = 1 \/ NearAt(q) = FarAt(q)
    BY Zenon DEF NearAt
  <2>. QED
    BY <1>1, <2>1
<1>. QED
  BY <1>1, <1>2
LEMMA DistancesPositive ==
  ASSUME NEW q \in LoopPc \cup {"success", "err"}
  PROVE  FarAt(q) # 0 /\ NearAt(q) # 0
<1>1. q \in {"fill", "poll", "tap", "exit"} => FarAt(q) # 0 /\ NearAt(q) # 0
  BY Distances
<1>2. q \in {"api", "read", "sockets", "timers"} => FarAt(q) # 0 /\ NearAt(q) # 0
  BY Distances
<1>3. q \in {"success", "err"} => FarAt(q) # 0 /\ NearAt(q) # 0
  BY Distances
<1>. QED
  BY <1>1, <1>2, <1>3 DEF LoopPc

\* The steps out of the loop's statements, with what they do to the events.
LEMMA LoopMoves ==
  ASSUME Next, pc \in LoopPc \cup {"success", "err"}
  PROVE  \/ pc' \in {"ended", "killed"}
         \/ Environment /\ UNCHANGED <<pc, exitfd_idx, apifd_idx, revents>>
         \/ pc = "fill" /\ pc' = "poll"
         \/ Poll \/ PollTimeout \/ PollFails
         \/ /\ UNCHANGED <<exitfd_idx, apifd_idx, revents>>
            /\ \/ pc = "tap" /\ pc' = "exit" /\ client' = client
               \/ pc = "exit" /\ pc' = (IF ExitSeen THEN "success" ELSE "api") /\ client' = client
               \/ pc = "api" /\ ApiSeen /\ client' = "accepted" /\ pc' = "read"
               \/ pc = "api" /\ ~ApiSeen /\ pc' = "sockets"
               \/ pc = "read" /\ pc' = "sockets"
               \/ pc = "sockets" /\ pc' = "timers"
               \/ pc = "timers" /\ pc' = "fill"
<1>1. CASE StartUp
  BY <1>1 DEF StartUp, CreateSlirp, AppendFds, BindListen, CtxAlloc, IgnoreSigpipe, Sandbox,
              Seccomp, TellReady, Step, LoopPc
<1>2. CASE Fill \/ Poll \/ PollTimeout \/ PollFails
  BY <1>2 DEF Fill, Step
<1>3. CASE Tap \/ Sockets \/ Timers
  BY <1>3 DEF Tap, Sockets, Timers, Step, array, event
<1>4. CASE ExitEvent
  BY <1>4 DEF ExitEvent, array, event, env
<1>5. CASE ApiEvent \/ ApiHandled
  BY <1>5 DEF ApiEvent, ApiHandled, Step, array, event
<1>6. CASE Leave \/ Killed
  BY <1>6 DEF Leave, Killed, Step
<1>7. CASE Restart
  BY <1>7 DEF Restart, Running, LoopPc
<1>8. CASE Environment
  BY <1>8 DEF Environment, TapArrives, ExitHup, SockArrives, ClientComes, ClientSpeaks, array, event
<1>. QED
  BY <1>1, <1>2, <1>3, <1>4, <1>5, <1>6, <1>7, <1>8 DEF Next, Loop

\* While the exit fd is hung up, every step of the process brings its end nearer.
LEMMA ExitNearer ==
  ASSUME IInv, WaitInv, Next, hup, pc \in LoopPc \cup {"success", "err"}
  PROVE  \/ ToExit' < ToExit
         \/ Environment /\ ToExit' = ToExit
<1> DEFINE seen == exitfd_idx \in revents
<1>0. seen => pc \in {"tap", "exit", "success", "err"}
  BY DEF IInv, ExitInv, Prepared, LoopPc
<1>1. CASE pc' \in {"ended", "killed"}
  <2>1. ToExit' = 0
    BY <1>1, Distances, Zenon DEF ToExit
  <2>2. ToExit # 0 /\ ToExit \in 0 .. 11
    BY DistancesPositive, DistanceType, Zenon DEF ToExit
  <2>. QED
    BY <2>1, <2>2
<1>2. CASE Environment /\ UNCHANGED <<pc, exitfd_idx, apifd_idx, revents>>
  BY <1>2, Zenon DEF ToExit
<1>3. CASE pc = "fill" /\ pc' = "poll"
  <2>1. ToExit = 5 /\ ToExit' = 4
    BY <1>3, Distances, Zenon DEF ToExit
  <2>. QED
    BY <2>1
<1>4. CASE Poll \/ PollTimeout
  <2>1. pc = "poll" /\ pc' = "tap" /\ exitfd_idx' = exitfd_idx
    BY <1>4 DEF Poll, PollTimeout, Step, array
  <2>2. exitfd_idx \in 1 .. Len(pollfds) /\ Active(pollfds[exitfd_idx])
    BY <2>1, PollSees
  <2>3. exitfd_idx \in revents'
    BY <1>4, <2>2 DEF Poll, PollTimeout
  <2>4. ToExit = 4 /\ ToExit' = 3
    BY <2>1, <2>3, Distances, Zenon DEF ToExit
  <2>. QED
    BY <2>4
<1>5. CASE PollFails
  <2>1. pc = "poll" /\ pc' = "err"
    BY <1>5 DEF PollFails, Step
  <2>2. ToExit = 4 /\ ToExit' = 1
    BY <2>1, Distances, Zenon DEF ToExit
  <2>. QED
    BY <2>2
<1>6. ASSUME UNCHANGED <<exitfd_idx, apifd_idx, revents>>, pc = "tap", pc' = "exit"
      PROVE  ToExit' < ToExit
  <2>1. (ToExit = 3 /\ ToExit' = 2) \/ (ToExit = 11 /\ ToExit' = 10)
    BY <1>6, Distances, Zenon DEF ToExit
  <2>. QED
    BY <2>1
<1>7. ASSUME UNCHANGED <<exitfd_idx, apifd_idx, revents>>, pc = "exit",
             pc' = (IF ExitSeen THEN "success" ELSE "api")
      PROVE  ToExit' < ToExit
  <2>1. exitfd_idx = 2
    BY <1>7 DEF IInv, ArrayInv, WaitInv, Prepared, LoopPc
  <2>2. ExitSeen <=> seen
    BY <2>1 DEF ExitSeen
  <2>3. (ToExit = 2 /\ ToExit' = 1) \/ (ToExit = 10 /\ ToExit' = 9)
    BY <1>7, <2>2, Distances, Zenon DEF ToExit
  <2>. QED
    BY <2>3
<1>8. ASSUME UNCHANGED <<exitfd_idx, apifd_idx, revents>>,
             \/ pc = "api" /\ pc' = "read"
             \/ pc = "api" /\ pc' = "sockets"
             \/ pc = "read" /\ pc' = "sockets"
             \/ pc = "sockets" /\ pc' = "timers"
             \/ pc = "timers" /\ pc' = "fill"
      PROVE  ToExit' < ToExit
  <2>1. ~seen
    BY <1>0, <1>8
  <2>2. ToExit = FarAt(pc) /\ ToExit' = FarAt(pc')
    BY <1>8, <2>1, Zenon DEF ToExit
  <2>3. \/ FarAt(pc) = 9 /\ FarAt(pc') = 8
        \/ FarAt(pc) = 9 /\ FarAt(pc') = 7
        \/ FarAt(pc) = 8 /\ FarAt(pc') = 7
        \/ FarAt(pc) = 7 /\ FarAt(pc') = 6
        \/ FarAt(pc) = 6 /\ FarAt(pc') = 5
    BY <1>8, Distances, Zenon
  <2>. QED
    BY <2>2, <2>3
<1>. QED
  BY <1>1, <1>2, <1>3, <1>4, <1>5, <1>6, <1>7, <1>8, LoopMoves

\* While a client waits, every step of the process brings its accept nearer, unless it
\* leaves the loop.
LEMMA AcceptNearer ==
  ASSUME IInv, WaitInv, Next, client = "pending", InLoop
  PROVE  \/ client' # "pending"
         \/ ~InLoop'
         \/ ToAccept' < ToAccept
         \/ Environment /\ ToAccept' = ToAccept
<1> DEFINE seen == apifd_idx \in revents
<1>0. pc \in LoopPc /\ pc # "read"
  BY DEF InLoop, LoopPc, WaitInv
<1>1. CASE pc' \in {"ended", "killed"} \/ PollFails
  BY <1>1 DEF InLoop, PollFails, Step
<1>2. CASE Environment /\ UNCHANGED <<pc, exitfd_idx, apifd_idx, revents>>
  BY <1>2, Zenon DEF ToAccept
<1>3. CASE pc = "fill" /\ pc' = "poll"
  <2>1. ToAccept = 5 /\ ToAccept' = 4
    BY <1>3, Distances, Zenon DEF ToAccept
  <2>. QED
    BY <2>1
<1>4. CASE Poll \/ PollTimeout
  <2>1. pc = "poll" /\ pc' = "tap" /\ apifd_idx' = apifd_idx
    BY <1>4 DEF Poll, PollTimeout, Step, array
  <2>2. apifd_idx \in 1 .. Len(pollfds) /\ Active(pollfds[apifd_idx])
    BY <2>1, PollSees
  <2>3. apifd_idx \in revents'
    BY <1>4, <2>2 DEF Poll, PollTimeout
  <2>4. ToAccept = 4 /\ ToAccept' = 3
    BY <2>1, <2>3, Distances, Zenon DEF ToAccept
  <2>. QED
    BY <2>4
<1>5. ASSUME UNCHANGED <<exitfd_idx, apifd_idx, revents>>, pc = "tap", pc' = "exit"
      PROVE  ToAccept' < ToAccept
  <2>1. (ToAccept = 3 /\ ToAccept' = 2) \/ (ToAccept = 11 /\ ToAccept' = 10)
    BY <1>5, Distances, Zenon DEF ToAccept
  <2>. QED
    BY <2>1
<1>6. ASSUME UNCHANGED <<exitfd_idx, apifd_idx, revents>>, pc = "exit",
             pc' = (IF ExitSeen THEN "success" ELSE "api")
      PROVE  ~InLoop' \/ ToAccept' < ToAccept
  <2>1. CASE pc' = "api"
    <3>1. (ToAccept = 2 /\ ToAccept' = 1) \/ (ToAccept = 10 /\ ToAccept' = 9)
      BY <1>6, <2>1, Distances, Zenon DEF ToAccept
    <3>. QED
      BY <3>1
  <2>2. CASE pc' = "success"
    BY <2>2 DEF InLoop
  <2>. QED
    BY <1>6, <2>1, <2>2
<1>7. ASSUME UNCHANGED <<exitfd_idx, apifd_idx, revents>>, pc = "api", ~ApiSeen, pc' = "sockets"
      PROVE  ToAccept' < ToAccept
  <2>1. apifd_idx > 0
    BY <1>7 DEF IInv, ArrayInv, WaitInv, Prepared, LoopPc
  <2>2. ~seen
    BY <1>7, <2>1 DEF ApiSeen
  <2>3. ToAccept = 9 /\ ToAccept' = 7
    BY <1>7, <2>2, Distances, Zenon DEF ToAccept
  <2>. QED
    BY <2>3
<1>8. ASSUME UNCHANGED <<exitfd_idx, apifd_idx, revents>>,
             \/ pc = "sockets" /\ pc' = "timers"
             \/ pc = "timers" /\ pc' = "fill"
      PROVE  ToAccept' < ToAccept
  <2>1. (ToAccept = 7 /\ ToAccept' = 6) \/ (ToAccept = 6 /\ ToAccept' = 5)
    BY <1>8, Distances, Zenon DEF ToAccept
  <2>. QED
    BY <2>1
<1>. QED
  BY <1>0, <1>1, <1>2, <1>3, <1>4, <1>5, <1>6, <1>7, <1>8, LoopMoves

\* Once the exit fd is hung up do_slirp returns within eleven of its own statements,
\* whatever the tap device, the sockets and the clients do meanwhile: each takes it
\* nearer, nothing in the environment takes it back, and g_poll does not sleep.  What
\* ExitHonoured says beyond that is that the statements are executed.
THEOREM ExitIsNear ==
  Spec => /\ [][ hup /\ pc \in LoopPc \cup {"success", "err"} =>
                   \/ ToExit' < ToExit
                   \/ Environment /\ ToExit' = ToExit ]_vars
          /\ []( /\ ToExit \in 0 .. 11
                 /\ pc = "poll" /\ hup => \E k \in 1 .. Len(pollfds) : Active(pollfds[k]) )
<1>1. IInv /\ WaitInv /\ [Next]_vars =>
        [ hup /\ pc \in LoopPc \cup {"success", "err"} =>
            \/ ToExit' < ToExit
            \/ Environment /\ ToExit' = ToExit ]_vars
  BY ExitNearer
<1>2. IInv /\ WaitInv =>
        /\ ToExit \in 0 .. 11
        /\ pc = "poll" /\ hup => \E k \in 1 .. Len(pollfds) : Active(pollfds[k])
  <2>1. ToExit \in 0 .. 11
    BY DistanceType, Zenon DEF ToExit
  <2>. QED
    BY <2>1, PollSees
<1>. QED
  BY <1>1, <1>2, Waiting, PTL DEF Spec

\* A client that waits for the API socket is accepted within eleven statements of the
\* loop, unless the loop ends: no packet and no socket keeps coming before it, and g_poll
\* does not sleep.  The loop blocks in read only for a client that it has accepted.
THEOREM AcceptIsNear ==
  Spec => /\ [][ client = "pending" /\ InLoop =>
                   \/ client' # "pending"
                   \/ ~InLoop'
                   \/ ToAccept' < ToAccept
                   \/ Environment /\ ToAccept' = ToAccept ]_vars
          /\ []( /\ ToAccept \in 0 .. 11
                 /\ pc = "poll" /\ client = "pending"
                      => \E k \in 1 .. Len(pollfds) : Active(pollfds[k])
                 /\ pc = "read" => client \in {"accepted", "spoke"} )
<1>1. IInv /\ WaitInv /\ [Next]_vars =>
        [ client = "pending" /\ InLoop =>
            \/ client' # "pending"
            \/ ~InLoop'
            \/ ToAccept' < ToAccept
            \/ Environment /\ ToAccept' = ToAccept ]_vars
  BY AcceptNearer
<1>2. IInv /\ WaitInv =>
        /\ ToAccept \in 0 .. 11
        /\ pc = "poll" /\ client = "pending"
             => \E k \in 1 .. Len(pollfds) : Active(pollfds[k])
        /\ pc = "read" => client \in {"accepted", "spoke"}
  <2>1. ToAccept \in 0 .. 11
    BY DistanceType, Zenon DEF ToAccept
  <2>. QED
    BY <2>1, PollSees DEF WaitInv
<1>. QED
  BY <1>1, <1>2, Waiting, PTL DEF Spec
=============================================================================
