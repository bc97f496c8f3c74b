------------------------------ MODULE SendBench -------------------------------
(***************************************************************************)
(* send_test (LEBench-Sim/src/bench/send_test.c): the parent process is    *)
(* the client that measures send, the child it forks is the server, which  *)
(* receives for ever and is killed at the end.  A byte in the pipe fds1    *)
(* tells the client that the server listens; the parent holds the write    *)
(* end too, so its read blocks whatever happens to the child.              *)
(*                                                                         *)
(* A message is msg_size chunks, the unit in which the kernel accepts data *)
(* on a stream socket, of which it holds at most Cap; the host chooses the *)
(* size, one of Sizes.  MayFail names the calls that may fail; an          *)
(* inherited SIG_IGN for SIGINT is a kill that fails.                      *)
(* MaxResent bounds the chunks of sends that are tried again.              *)
(***************************************************************************)
EXTENDS Naturals

CONSTANTS Iter, Sizes, Cap, MaxResent, MayFail

Calls == {"setup", "fork", "client_socket", "connect", "send",
          "socket", "bind", "listen", "accept", "kill"}

ASSUME SendAssumption ==
  /\ Iter \in Nat \ {0} /\ Sizes \subseteq Nat \ {0} /\ Cap \in Nat \ {0}
  /\ MaxResent \in Nat /\ MayFail \subseteq Calls

VARIABLES
  msg_size,
  ppc,     \* control point of the parent (client)
  sidx,    \* its loop index: rounds it has timed
  errno,   \* its errno: "EAGAIN", or "other"
  ret,     \* "none" until send_test returns in the parent
  roi,     \* region of interest, "open" or "closed"
  short,   \* timed rounds that sent less than a message
  failed,  \* timed rounds whose send failed with an error other than EAGAIN
  resent,  \* chunks of sends that were not counted as a round
  cpc,     \* control point of the child (server)
  child,   \* its process: "none", "alive" or "dead"
  sigint,  \* "sent" or "ignored" once the parent has killed the child
  fds1,    \* bytes in the pipe
  sock,    \* LE_SOCK_PATH: "closed", "listening" or "connected"
  stream   \* chunks sent and not yet received

tally == <<short, failed, resent>>
parentVars == <<msg_size, ppc, sidx, errno, ret, roi, tally>>
childVars == <<cpc, child>>
kernelVars == <<sigint, fds1, sock, stream>>
vars == <<parentVars, childVars, kernelVars>>

Init ==
  /\ msg_size \in Sizes
  /\ ppc = "setup" /\ sidx = 0 /\ errno = "other" /\ ret = "none" /\ roi = "closed"
  /\ short = 0 /\ failed = 0 /\ resent = 0 /\ cpc = "unborn" /\ child = "none"
  /\ sigint = "unsent" /\ fds1 = 0 /\ sock = "closed" /\ stream = 0
-------------------------------------------------------------------------------
\* Variants of operations below, as plausible mistakes would write them.

\* The client leaves without killing the server.
ClientKillSkipped ==
  /\ ppc = "kill" /\ ppc' = "done" /\ ret' = "false"
  /\ UNCHANGED <<msg_size, sidx, errno, roi, tally, childVars, kernelVars>>

\* The server looks at the stream (MSG_PEEK) and takes nothing from it.
ServerRecvPeek == child = "alive" /\ cpc = "recv" /\ UNCHANGED vars

\* The server takes an empty stream for the end.
ServerRecvUntilEmpty ==
  /\ child = "alive" /\ cpc = "recv"
  /\ IF stream = 0
     THEN cpc' = "killed" /\ child' = "dead" /\ UNCHANGED stream
     ELSE stream' = stream - 1 /\ UNCHANGED childVars
  /\ UNCHANGED <<parentVars, sigint, fds1, sock>>

-------------------------------------------------------------------------------
Return(value) == ppc' = "done" /\ ret' = value

\* kill(pid, SIGINT) of server_err, on success and on error.
Kill ==
  \/ sigint' = "sent"
  \/ "kill" \in MayFail /\ sigint' = "ignored"

Setup ==
  /\ ppc = "setup"
  /\ \/ ppc' = "fork" /\ UNCHANGED ret
     \/ "setup" \in MayFail /\ Return("true")
  /\ UNCHANGED <<msg_size, sidx, errno, roi, tally, childVars, kernelVars>>

Fork ==
  /\ ppc = "fork"
  /\ \/ ppc' = "await_ready" /\ cpc' = "socket" /\ child' = "alive" /\ UNCHANGED ret
     \/ "fork" \in MayFail /\ Return("true") /\ UNCHANGED childVars
  /\ UNCHANGED <<msg_size, sidx, errno, roi, tally, kernelVars>>

ClientReady ==
  /\ ppc = "await_ready" /\ fds1 > 0
  /\ ppc' = "client_socket" /\ fds1' = fds1 - 1
  /\ UNCHANGED <<msg_size, sidx, errno, ret, roi, tally, childVars, sigint, sock, stream>>

ClientSocket ==
  /\ ppc = "client_socket"
  /\ \/ ppc' = "connect" /\ UNCHANGED <<ret, sigint>>
     \/ "client_socket" \in MayFail /\ Return("true") /\ Kill
  /\ UNCHANGED <<msg_size, sidx, errno, roi, tally, childVars, fds1, sock, stream>>

ClientConnect ==
  /\ ppc = "connect"
  /\ \/ /\ sock = "listening" /\ child = "alive"
        /\ sock' = "connected" /\ ppc' = "send" /\ roi' = "open"
        /\ UNCHANGED <<ret, sigint>>
     \/ /\ sock # "listening" \/ child # "alive" \/ "connect" \in MayFail
        /\ Return("true") /\ Kill /\ UNCHANGED <<sock, roi>>
  /\ UNCHANGED <<msg_size, sidx, errno, tally, childVars, fds1, stream>>

\* A round is counted; after the last one the region of interest ends.
Timed ==
  /\ sidx' = sidx + 1
  /\ IF sidx + 1 < Iter
     THEN UNCHANGED <<ppc, roi>>
     ELSE ppc' = "kill" /\ roi' = "closed"

\* Nothing is tried again.
ClientSendOnce ==
  /\ ppc = "send" /\ child = "alive"
  /\ LET room == Cap - stream
         size == IF room < msg_size THEN room ELSE msg_size
     IN /\ stream' = stream + size
        /\ errno' = IF room = 0 THEN "EAGAIN" ELSE errno
        /\ IF FALSE
           THEN /\ resent + size <= MaxResent
                /\ resent' = resent + size /\ UNCHANGED <<ppc, roi, sidx, short>>
           ELSE /\ Timed /\ UNCHANGED resent
                /\ short' = IF size < msg_size THEN short + 1 ELSE short
  /\ UNCHANGED <<msg_size, ret, failed, childVars, sigint, fds1, sock>>

\* send with MSG_DONTWAIT: EAGAIN when the stream is full; otherwise as many
\* chunks as fit, with errno as it was.  A short count is tried again, whole,
\* only if errno says EAGAIN, be it from an earlier round.
ClientSend ==
  /\ ppc = "send" /\ child = "alive"
  /\ LET room == Cap - stream
         size == IF room < msg_size THEN room ELSE msg_size
     IN /\ stream' = stream + size
        /\ errno' = IF room = 0 THEN "EAGAIN" ELSE errno
        /\ IF size < msg_size /\ errno' = "EAGAIN"
           THEN /\ resent + size <= MaxResent
                /\ resent' = resent + size /\ UNCHANGED <<ppc, roi, sidx, short>>
           ELSE /\ Timed /\ UNCHANGED resent
                /\ short' = IF size < msg_size THEN short + 1 ELSE short
  /\ UNCHANGED <<msg_size, ret, failed, childVars, sigint, fds1, sock>>

\* Any other error of send, counted as a round.  No scheduler brings it about:
\* it is not one of the steps of Parent, which is fair.
ClientSendFails ==
  /\ ppc = "send" /\ child = "alive" /\ "send" \in MayFail
  /\ errno' = "other" /\ failed' = failed + 1 /\ Timed
  /\ UNCHANGED <<msg_size, ret, short, resent, childVars, kernelVars>>

\* A send to a server that is gone raises SIGPIPE.
ClientBroken ==
  /\ ppc = "send" /\ child = "dead"
  /\ ppc' = "killed"
  /\ UNCHANGED <<msg_size, sidx, errno, ret, roi, tally, childVars, kernelVars>>

\* The end of a successful run: the child is killed and not awaited.
ClientKill ==
  /\ ppc = "kill"
  /\ Return("false") /\ Kill
  /\ UNCHANGED <<msg_size, sidx, errno, roi, tally, childVars, fds1, sock, stream>>

Parent ==
  \/ Setup \/ Fork \/ ClientReady \/ ClientSocket \/ ClientConnect
  \/ ClientSend \/ ClientBroken \/ ClientKill
-------------------------------------------------------------------------------
ServerAt(point) == child = "alive" /\ cpc = point

\* client_err: the child kills itself, or else returns ret, false, to main.
ServerExit ==
  /\ \/ cpc' = "killed"
     \/ "kill" \in MayFail /\ cpc' = "returned"
  /\ child' = "dead"

ServerCall(call, next) ==
  /\ ServerAt(call)
  /\ \/ cpc' = next /\ UNCHANGED child
     \/ call \in MayFail /\ ServerExit
  /\ UNCHANGED <<parentVars, sigint, fds1, stream>>

ServerSocket == ServerCall("socket", "bind") /\ UNCHANGED sock
ServerBind == ServerCall("bind", "listen") /\ UNCHANGED sock
ServerListen ==
  /\ ServerCall("listen", "ready")
  /\ sock' = IF cpc' = "ready" THEN "listening" ELSE sock

ServerReady ==
  /\ ServerAt("ready")
  /\ cpc' = "accept" /\ fds1' = fds1 + 1
  /\ UNCHANGED <<child, parentVars, sigint, sock, stream>>

ServerAccept ==
  /\ ServerAt("accept") /\ sock = "connected"
  /\ cpc' = "recv"
  /\ UNCHANGED <<child, parentVars, kernelVars>>

\* A failed accept jumps to server_err, where pid is 0: the SIGINT goes to
\* the whole process group.
ServerAcceptKills ==
  /\ ServerAt("accept") /\ "accept" \in MayFail
  /\ cpc' = "killed" /\ child' = "dead"
  /\ ppc' = IF ppc = "done" THEN ppc ELSE "killed"
  /\ UNCHANGED <<msg_size, sidx, errno, ret, roi, tally, kernelVars>>

\* Where the group ignores SIGINT the child goes on with errored, which this
\* path never initialises: err, or collect_results on rounds never run.
ServerAcceptGoesOn ==
  /\ ServerAt("accept") /\ {"accept", "kill"} \subseteq MayFail
  /\ cpc' \in {"errored", "reported"} /\ child' = "dead"
  /\ UNCHANGED <<parentVars, kernelVars>>

\* recv with MSG_DONTWAIT, over and over: it frees chunk after chunk, up to a
\* message, and the client may send in between.
ServerRecv ==
  /\ ServerAt("recv")
  /\ \E size \in 1..msg_size : size <= stream /\ stream' = stream - size
  /\ UNCHANGED <<parentVars, childVars, sigint, fds1, sock>>

ServerKilled ==
  /\ child = "alive" /\ sigint = "sent"
  /\ cpc' = "killed" /\ child' = "dead"
  /\ UNCHANGED <<parentVars, kernelVars>>

Child ==
  \/ ServerSocket \/ ServerBind \/ ServerListen \/ ServerReady \/ ServerAccept
  \/ ServerRecv \/ ServerKilled

AcceptFails == ServerAcceptKills \/ ServerAcceptGoesOn

Next == Parent \/ ClientSendFails \/ Child \/ AcceptFails

\* A process that can run is eventually scheduled; a blocked accept and a send
\* to a full stream may fail but need not.  While the stream stays full the
\* client repeats its send without effect, a stuttering step, and only the
\* receiving of the server lets it go on.
Spec == Init /\ [][Next]_vars
FairSpec == Spec /\ WF_vars(Parent) /\ WF_vars(Child)
-------------------------------------------------------------------------------
\* Types and bounds.
TypeOK ==
  /\ ppc \in {"setup", "fork", "await_ready", "client_socket", "connect", "send",
              "kill", "done", "killed"}
  /\ msg_size \in Sizes /\ sidx \in 0..Iter /\ errno \in {"EAGAIN", "other"}
  /\ ret \in {"none", "true", "false"} /\ roi \in {"open", "closed"}
  /\ short \in 0..Iter /\ failed \in 0..Iter /\ resent \in 0..MaxResent
  /\ cpc \in {"unborn", "socket", "bind", "listen", "ready", "accept", "recv",
              "killed", "returned", "errored", "reported"}
  /\ child \in {"none", "alive", "dead"} /\ sigint \in {"unsent", "sent", "ignored"}
  /\ fds1 \in 0..1 /\ sock \in {"closed", "listening", "connected"}
  /\ stream \in 0..Cap

\* The byte of line 107 is written after listen, so connect (l. 66) finds a
\* server that listens, unless its accept has already failed.
ConnectFindsListener ==
  ppc = "connect" =>
    sock = "listening" /\ (child = "alive" \/ cpc \in {"errored", "reported"})

\* With messages that the kernel takes whole or not at all (one chunk, the
\* one byte of small-send), the retry makes every round one message.
SmallSendExact ==
  msg_size = 1 => short = 0 /\ resent = 0

\* A send meets a server that is gone only after an accept that failed where
\* SIGINT is ignored: the benchmark does not die of SIGPIPE otherwise.
BrokenOnlyAfterAccept ==
  ppc = "send" /\ child = "dead" => cpc \in {"errored", "reported"}

\* A successful run timed all its rounds, and closed its region of interest.
SuccessIsComplete == ret = "false" => sidx = Iter /\ roi = "closed" /\ sock = "connected"

\* The server failed before it could tell the client that it listens.
ServerGaveUp == cpc \in {"killed", "returned"} /\ sigint = "unsent" /\ sock = "closed"

\* With one-chunk messages send_test ends, unless the server gave up early:
\* then the read of line 59 waits for ever.  The busy retry ends because the
\* server keeps receiving, not because a send fails.
Ends == <>(msg_size > 1 \/ ppc \in {"done", "killed"} \/ ServerGaveUp)

\* Nor is a server then left receiving for ever, unless the kill of line 87
\* failed.
LeavesNoServer ==
  <>[](msg_size > 1 \/ child # "alive" \/ sigint = "ignored")

\* Only a process that timed its rounds reports results: "bool ret = false;
\* // has error?" must not hold of a server whose accept failed.
ReportsOnlyRounds == cpc # "reported"
===============================================================================
