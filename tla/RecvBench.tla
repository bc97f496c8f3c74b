------------------------------ MODULE RecvBench -------------------------------
(***************************************************************************)
(* recv_test (LEBench-Sim/src/bench/recv_test.c): the parent process is    *)
(* the server that measures recv, the child it forks is the client that    *)
(* sends.  Two pipes order them: a byte in fds1 tells the client that the  *)
(* server listens, and later that a message was received; a byte in fds2   *)
(* tells the server that a message was sent.  All bytes are alike, so a    *)
(* pipe is the number of bytes in it.  Neither process closes the pipe     *)
(* ends it does not use, so a read of an empty pipe blocks whatever        *)
(* happens to the other process: it never reports end of file.             *)
(*                                                                         *)
(* A message is Msg chunks, the unit in which the kernel accepts data on a *)
(* stream socket, of which it holds at most Cap.  MayFail names the calls  *)
(* that are allowed to fail; a SIGINT the processes inherited as ignored   *)
(* is a kill that fails.                                                   *)
(***************************************************************************)
EXTENDS Naturals

CONSTANTS Iter, Msg, Cap, MayFail

Calls == {"setup", "fork", "socket", "bind", "listen", "accept",
          "client_socket", "connect", "send", "kill"}

ASSUME RecvAssumption ==
  /\ Iter \in Nat \ {0}
  /\ Msg \in Nat \ {0}
  /\ Cap \in Nat \ {0}
  /\ MayFail \subseteq Calls

VARIABLES
  ppc,        \* control point of the parent (server)
  sidx,       \* its loop index: messages received and acknowledged
  fd_connect, \* "unset", "open", or "failed" when accept returned -1
  roi,        \* region of interest, "open" or "closed"
  ret,        \* "none" until recv_test returns in the parent
  cpc,        \* control point of the child (client)
  cidx,       \* its loop index
  errno,      \* its errno: "EAGAIN", "other", or "none" before send sets it
  child,      \* its process: "none", "alive" or "dead"
  sigint,     \* "sent" once the parent has killed the child
  fds1, fds2, \* bytes in the two pipes
  sock,       \* LE_SOCK_PATH: "closed", "listening", or "connected" when
              \* the client's connection is queued or accepted
  stream      \* chunks sent and not yet received

parentVars == <<ppc, sidx, fd_connect, roi, ret>>
childVars == <<cpc, cidx, errno, child>>
kernelVars == <<sigint, fds1, fds2, sock, stream>>
vars == <<parentVars, childVars, kernelVars>>

Init ==
  /\ ppc = "setup" /\ sidx = 0 /\ fd_connect = "unset" /\ roi = "closed" /\ ret = "none"
  /\ cpc = "unborn" /\ cidx = 0 /\ errno = "none" /\ child = "none"
  /\ sigint = "unsent" /\ fds1 = 0 /\ fds2 = 0 /\ sock = "closed" /\ stream = 0
-------------------------------------------------------------------------------
\* Variants of operations below, as plausible mistakes would write them; the
\* runs show that the properties tell them from the code.

\* The byte that lets the client connect is never written.
ServerReadySilent ==
  /\ ppc = "ready" /\ ppc' = "accept"
  /\ UNCHANGED <<sidx, fd_connect, roi, ret, childVars, kernelVars>>

\* recv without waiting for the byte of the client.
ServerAwaitSkipped ==
  /\ ppc = "await" /\ ppc' = "recv"
  /\ UNCHANGED <<sidx, fd_connect, roi, ret, childVars, kernelVars>>

\* The status of the child is not awaited.
ServerWaitSkipped ==
  /\ ppc = "wait" /\ ppc' = "done" /\ ret' = "false"
  /\ UNCHANGED <<sidx, fd_connect, roi, childVars, kernelVars>>

\* The next message is sent without reading the acknowledgement.
ClientNotifyAndGo ==
  /\ child = "alive" /\ cpc = "notify" /\ cidx + 1 < Iter
  /\ cpc' = "send" /\ cidx' = cidx + 1 /\ fds2' = fds2 + 1
  /\ UNCHANGED <<parentVars, errno, child, sigint, fds1, sock, stream>>
-------------------------------------------------------------------------------
Return(value) == ppc' = "done" /\ ret' = value

\* server_err with errored set: kill the child, then err and cleanup.  The
\* cleanup closes no socket: its fd_server and fd_connect are shadowed.
ServerErr ==
  /\ Return("true")
  /\ \/ sigint' = "sent"
     \/ "kill" \in MayFail /\ UNCHANGED sigint

\* Allocation of diffs and buf, creation of the pipes, address.
Setup ==
  /\ ppc = "setup"
  /\ \/ ppc' = "fork" /\ UNCHANGED ret
     \/ "setup" \in MayFail /\ Return("true")
  /\ UNCHANGED <<sidx, fd_connect, roi, childVars, kernelVars>>

Fork ==
  /\ ppc = "fork"
  /\ \/ ppc' = "socket" /\ cpc' = "await_ready" /\ child' = "alive" /\ UNCHANGED ret
     \/ "fork" \in MayFail /\ Return("true") /\ UNCHANGED <<cpc, child>>
  /\ UNCHANGED <<sidx, fd_connect, roi, cidx, errno, kernelVars>>

ServerCall(call, next) ==
  /\ ppc = call
  /\ \/ ppc' = next /\ UNCHANGED <<ret, sigint>>
     \/ call \in MayFail /\ ServerErr
  /\ UNCHANGED <<sidx, fd_connect, roi, childVars, fds1, fds2, stream>>

ServerSocket == ServerCall("socket", "bind") /\ UNCHANGED sock
ServerBind == ServerCall("bind", "listen") /\ UNCHANGED sock
ServerListen ==
  /\ ServerCall("listen", "ready")
  /\ sock' = IF ppc' = "ready" THEN "listening" ELSE sock

ServerReady ==
  /\ ppc = "ready"
  /\ ppc' = "accept" /\ fds1' = fds1 + 1
  /\ UNCHANGED <<sidx, fd_connect, roi, ret, childVars,
                 sigint, fds2, sock, stream>>

ServerAccept ==
  /\ ppc = "accept" /\ sock = "connected"
  /\ fd_connect' = "open" /\ ppc' = "await" /\ roi' = "open"
  /\ UNCHANGED <<sidx, ret, childVars, kernelVars>>

\* A failed accept returns -1, which the test fd_connect < -1 lets through.
ServerAcceptFails ==
  /\ ppc = "accept" /\ "accept" \in MayFail
  /\ fd_connect' = "failed" /\ ppc' = "await" /\ roi' = "open"
  /\ UNCHANGED <<sidx, ret, childVars, kernelVars>>

ServerAwait ==
  /\ ppc = "await" /\ fds2 > 0
  /\ ppc' = "recv" /\ fds2' = fds2 - 1
  /\ UNCHANGED <<sidx, fd_connect, roi, ret, childVars,
                 sigint, fds1, sock, stream>>

\* recv with MSG_DONTWAIT takes what is there, at most one message.
ServerRecv ==
  /\ ppc = "recv"
  /\ IF fd_connect = "open" /\ stream >= Msg
     THEN ppc' = "ack" /\ stream' = stream - Msg /\ UNCHANGED <<ret, sigint>>
     ELSE ServerErr /\ stream' = IF fd_connect = "open" THEN 0 ELSE stream
  /\ UNCHANGED <<sidx, fd_connect, roi, childVars, fds1, fds2, sock>>

ServerAck ==
  /\ ppc = "ack"
  /\ fds1' = fds1 + 1 /\ sidx' = sidx + 1
  /\ IF sidx + 1 < Iter
     THEN ppc' = "await" /\ UNCHANGED roi
     ELSE ppc' = "wait" /\ roi' = "closed"
  /\ UNCHANGED <<fd_connect, ret, childVars,
                 sigint, fds2, sock, stream>>

\* wait for the child, collect_results, cleanup.
ServerWait ==
  /\ ppc = "wait" /\ child = "dead"
  /\ Return("false")
  /\ UNCHANGED <<sidx, fd_connect, roi, childVars, kernelVars>>

Parent ==
  \/ Setup \/ Fork \/ ServerSocket \/ ServerBind \/ ServerListen \/ ServerReady
  \/ ServerAccept \/ ServerAwait \/ ServerRecv \/ ServerAck \/ ServerWait
-------------------------------------------------------------------------------
ClientAt(point) == child = "alive" /\ cpc = point

\* client_err, where the loop ends too: the child kills itself.  If that
\* fails it returns ret, which is false, to its copy of main and exits there.
ClientExit ==
  /\ \/ cpc' = "killed"
     \/ "kill" \in MayFail /\ cpc' = "returned"
  /\ child' = "dead"

ClientReady ==
  /\ ClientAt("await_ready") /\ fds1 > 0
  /\ cpc' = "client_socket" /\ fds1' = fds1 - 1
  /\ UNCHANGED <<parentVars, cidx, errno, child,
                 sigint, fds2, sock, stream>>

ClientSocket ==
  /\ ClientAt("client_socket")
  /\ \/ cpc' = "connect" /\ UNCHANGED child
     \/ "client_socket" \in MayFail /\ ClientExit
  /\ UNCHANGED <<parentVars, cidx, errno, kernelVars>>

ClientConnect ==
  /\ ClientAt("connect")
  /\ \/ sock = "listening" /\ sock' = "connected" /\ cpc' = "send" /\ UNCHANGED child
     \/ /\ sock # "listening" \/ "connect" \in MayFail
        /\ ClientExit /\ UNCHANGED sock
  /\ UNCHANGED <<parentVars, cidx, errno, sigint, fds1, fds2, stream>>

\* send with MSG_DONTWAIT: EAGAIN when the stream is full; otherwise as many
\* chunks as fit, with errno as it was.  A short count is sent again only if
\* errno says EAGAIN.  Any other failure leaves errno at something else.
ClientSend ==
  /\ ClientAt("send")
  /\ LET room == Cap - stream
         size == IF room < Msg THEN room ELSE Msg
     IN \/ /\ stream' = stream + size
           /\ errno' = IF room = 0 THEN "EAGAIN" ELSE errno
           /\ cpc' = IF size < Msg /\ errno' = "EAGAIN" THEN "send" ELSE "notify"
        \/ /\ "send" \in MayFail
           /\ errno' = "other" /\ cpc' = "notify" /\ UNCHANGED stream
  /\ UNCHANGED <<parentVars, cidx, child, sigint, fds1, fds2, sock>>

ClientNotify ==
  /\ ClientAt("notify")
  /\ cpc' = "await_ack" /\ fds2' = fds2 + 1
  /\ UNCHANGED <<parentVars, cidx, errno, child,
                 sigint, fds1, sock, stream>>

ClientAck ==
  /\ ClientAt("await_ack") /\ fds1 > 0
  /\ fds1' = fds1 - 1 /\ cidx' = cidx + 1
  /\ IF cidx + 1 < Iter THEN cpc' = "send" /\ UNCHANGED child ELSE ClientExit
  /\ UNCHANGED <<parentVars, errno, sigint, fds2, sock, stream>>

\* The SIGINT of server_err reaches the child wherever it is.
ClientKilled ==
  /\ child = "alive" /\ sigint = "sent"
  /\ child' = "dead"
  /\ UNCHANGED <<parentVars, cpc, cidx, errno, kernelVars>>

Child ==
  \/ ClientReady \/ ClientSocket \/ ClientConnect \/ ClientSend
  \/ ClientNotify \/ ClientAck \/ ClientKilled

Next == Parent \/ ServerAcceptFails \/ Child

\* A process that can run is eventually scheduled; a blocked accept may fail
\* but need not.
Spec == Init /\ [][Next]_vars
FairSpec == Spec /\ WF_vars(Parent) /\ WF_vars(Child)
-------------------------------------------------------------------------------
ParentPoints == {"setup", "fork", "socket", "bind", "listen", "ready", "accept",
                 "await", "recv", "ack", "wait", "done"}
ChildPoints == {"unborn", "await_ready", "client_socket", "connect", "send",
                "notify", "await_ack", "killed", "returned"}

\* The variables hold what the declarations of recv_test allow; the pipes hold
\* at most one byte.
TypeOK ==
  /\ ppc \in ParentPoints /\ sidx \in 0..Iter
  /\ fd_connect \in {"unset", "open", "failed"} /\ roi \in {"open", "closed"}
  /\ ret \in {"none", "true", "false"}
  /\ cpc \in ChildPoints /\ cidx \in 0..Iter
  /\ errno \in {"none", "EAGAIN", "other"} /\ child \in {"none", "alive", "dead"}
  /\ sigint \in {"unsent", "sent"} /\ fds1 \in 0..1 /\ fds2 \in 0..1
  /\ sock \in {"closed", "listening", "connected"} /\ stream \in 0..Cap

ClientRuns == child = "alive" /\ cpc \in {"client_socket", "connect", "send", "notify"}
ServerRuns == ppc \in {"socket", "bind", "listen", "ready", "recv", "ack"}

\* The byte of line 75 is written after listen, so connect (l. 113) can fail
\* only for reasons of its own, never because no server listens yet.
ConnectFindsListener == ClientAt("connect") => sock = "listening"

\* Measured code runs alone: from the fork to the last acknowledgement at most
\* one of the two processes is between two pipe operations, so recv (l. 87)
\* is never timed while the client sends.
OneTurn ==
  /\ ~(ServerRuns /\ ClientRuns)
  /\ ClientRuns => fds1 + fds2 = 0
  /\ ServerRuns => fds1 + fds2 = 0

\* When recv is called with MSG_DONTWAIT (l. 87) the whole message is in the
\* socket buffer, provided a message fits and no accept or send has failed.
RecvFindsMessage ==
  ppc = "recv" /\ fd_connect = "open" /\ Msg <= Cap /\ errno # "other" => stream = Msg

\* Every send (l. 121) starts on an empty stream, so its retry on EAGAIN
\* (l. 122-124) is never taken.
SendFindsEmptyStream == (ClientAt("send") => stream = 0) /\ errno # "EAGAIN"

\* The kill of server_err (l. 102) finds the client blocked in a read of fds1
\* or gone: it interrupts no send, and no send meets a closed connection.
KillFindsClientBlocked ==
  sigint = "sent" /\ child = "alive" =>
    cpc \in {"await_ready", "await_ack"} /\ fds1 = 0

\* recv_test reports success only if both processes went through all the
\* rounds, the child is gone, nothing is left in the pipes or the socket and
\* the region of interest is closed.
SuccessIsComplete ==
  ret = "false" =>
    /\ sidx = Iter /\ cidx = Iter /\ child = "dead"
    /\ fds1 = 0 /\ fds2 = 0 /\ stream = 0 /\ roi = "closed"

\* The rounds of recv_test are those of the abstract specification: a round
\* starts when the client tells of a sent message and is answered when the
\* server acknowledges it.
Rounds == INSTANCE Lockstep WITH
            Rounds <- Iter,
            started <- cidx + (IF cpc = "await_ack" THEN 1 ELSE 0),
            answered <- sidx
ImplementsLockstep == Rounds!Spec

\* A client that could not open its socket or connect kills itself (l. 130)
\* and tells the server nothing.
ClientGaveUp == cpc \in {"killed", "returned"} /\ cidx < Iter

\* recv_test returns in the parent, unless the client gave up: then nobody
\* connects and the accept of line 77 waits for ever.
Returns == <>(ppc = "done" \/ ClientGaveUp)
===============================================================================
