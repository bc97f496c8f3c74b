-------------------------------- MODULE OsPairs -------------------------------
(***************************************************************************)
(* The tests of lib/os_eval.cpp that measure two processes: send_test and  *)
(* recv_test, called by one_line_test_v2 until they have filled timeArray, *)
(* and context_switch_test, called once per entry by one_line_test.        *)
(*                                                                         *)
(* Each call opens two pipes and forks; each process closes the pipe ends  *)
(* it does not use.  In send_test the child is the server, in recv_test    *)
(* the parent.  The server binds a path under home but removes another     *)
(* one, so path outlives the call, and the test.  Failures are printed and *)
(* the call goes on.  The child kills itself at its end.                   *)
(***************************************************************************)
EXTENDS Integers

CONSTANTS Tests,     \* the tests looked at
          Iter,      \* info.iter
          Limit,     \* curr_iter_limit: timed messages of a call
          Switches,  \* iter of context_switch_test
          MsgSize,   \* msg_size
          Room,      \* bytes a socket holds that nobody reads
          Fails,     \* calls that may fail: "fork", "socket" (of a client) and
                     \* "server" (socket, listen or accept of a server)
          MaxLeaks   \* bound: forks that fail while the driver repeats the call

ASSUME OsPairsAssumption ==
  /\ Tests \subseteq {"send", "recv", "switch"}
  /\ {Iter, Limit, Switches, MsgSize} \subseteq Nat \ {0}
  /\ Room \in Nat /\ MaxLeaks \in Nat /\ Fails \subseteq {"fork", "socket", "server"}

VARIABLES
  test,
  pc,         \* control points of the two processes, "none" without one
  path,       \* of the socket: "free" or "taken"
  fd_server,  \* "closed", "listening" or "deaf" (not bound, hence not listening)
  link,       \* connection: "none", "pending" or "accepted"
  fd_client,  \* "closed", "lone" (not connected) or "connected"
  stream,     \* bytes sent and not received
  fds1, fds2, \* bytes in the pipes
  i,          \* entries of timeArray filled
  j,          \* loop counters of the two processes, 0 at the warm-up
  stamps,     \* what the n-th timed call did
  prio,       \* affinity and priority of the parent: "own" or "tuned"
  leaks       \* descriptors of pipes left open

sockets == <<path, fd_server, link, fd_client, stream>>
vars == <<test, pc, sockets, fds1, fds2, i, j, stamps, prio, leaks>>

Process == {"parent", "child"}
PointsOf ==
  {"none", "driver", "ended", "wait_child", "zombie", "leave",
   "listen", "accept", "wait_sent", "receive", "tell",
   "wait_ready", "send", "wait_read",
   "tune", "wait_start", "turn", "greet", "wait_turn"}
Server == IF test = "send" THEN "child" ELSE "parent"
Client == IF test = "send" THEN "parent" ELSE "child"
Least(a, b) == IF a < b THEN a ELSE b

Init ==
  /\ test \in Tests /\ pc = [p \in Process |-> IF p = "parent" THEN "driver" ELSE "none"]
  /\ path \in {"free", "taken"} /\ fd_server = "closed" /\ fd_client = "closed"
  /\ link = "none" /\ stream = 0 /\ fds1 = 0 /\ fds2 = 0
  /\ i = 0 /\ j = [p \in Process |-> 0] /\ stamps = [n \in 0..(Iter - 1) |-> "none"]
  /\ prio = "own" /\ leaks = 0
-------------------------------------------------------------------------------
Go(p, from, to) == pc[p] = from /\ pc' = [pc EXCEPT ![p] = to]

\* The next call of the driver, up to and including fork.
Fork ==
  /\ i < Iter /\ pc["parent"] = "driver"
  /\ pc' = (IF test = "switch"
            THEN [p \in Process |-> IF p = "parent" THEN "tune" ELSE "greet"]
            ELSE [p \in Process |-> IF p = Server THEN "listen" ELSE "wait_ready"])
  /\ j' = [p \in Process |-> 0] /\ fds1' = 0 /\ fds2' = 0
  /\ UNCHANGED <<test, sockets, i, stamps, prio, leaks>>

\* send_test and recv_test return with the four descriptors open and nothing
\* done, to be called again; context_switch_test goes on and takes the average
\* of two times it never read.
ForkFails ==
  /\ "fork" \in Fails /\ i < Iter /\ leaks < 4 * MaxLeaks /\ pc["parent"] = "driver"
  /\ leaks' = leaks + 4
  /\ IF test = "switch"
     THEN i' = i + 1 /\ stamps' = [stamps EXCEPT ![i] = "unread"]
     ELSE UNCHANGED <<i, stamps>>
  /\ UNCHANGED <<test, pc, sockets, fds1, fds2, j, prio>>

EndTest ==
  /\ i >= Iter /\ Go("parent", "driver", "ended")
  /\ UNCHANGED <<test, sockets, fds1, fds2, i, j, stamps, prio, leaks>>
-------------------------------------------------------------------------------
\* Variants of operations below, as plausible mistakes would write them.
ListenAnyway ==
  /\ Go(Server, "listen", "accept") /\ fd_server' = "listening" /\ path' = "taken"
  /\ fds1' = fds1 + 1
  /\ UNCHANGED <<test, link, fd_client, stream, fds2, i, j, stamps, prio, leaks>>
ServerTellSilent ==
  /\ Go(Server, "tell", "leave")
  /\ UNCHANGED <<test, sockets, fds1, fds2, i, j, stamps, prio, leaks>>

\* socket, bind, listen and the byte in fds1: nobody else looks at the socket
\* before that byte is there.  Without a socket nothing is bound; a socket that
\* cannot listen has taken the path all the same.
Listen ==
  /\ Go(Server, "listen", "accept") /\ fds1' = fds1 + 1
  /\ \/ path = "free" /\ path' = "taken" /\ fd_server' = "listening"
     \/ path = "taken" /\ UNCHANGED path /\ fd_server' = "deaf"
     \/ "server" \in Fails /\ path' \in {path, "taken"} /\ fd_server' = "deaf"
  /\ UNCHANGED <<test, link, fd_client, stream, fds2, i, j, stamps, prio, leaks>>

\* Blocks while a listening socket has no client; fails at once on another.
Accept ==
  /\ Go(Server, "accept", "wait_sent")
  /\ \/ fd_server = "deaf" /\ UNCHANGED link
     \/ link = "pending" /\ link' = "accepted"
  /\ UNCHANGED <<test, path, fd_server, fd_client, stream, fds1, fds2, i, j, stamps, prio, leaks>>

\* Out of descriptors accept fails on any socket; the call goes on without.
AcceptFails ==
  /\ "server" \in Fails /\ Go(Server, "accept", "wait_sent")
  /\ UNCHANGED <<test, sockets, fds1, fds2, i, j, stamps, prio, leaks>>

ServerAwait ==
  /\ fds2 > 0 /\ fds2' = fds2 - 1
  /\ Go(Server, "wait_sent", IF test = "send" THEN "leave" ELSE "receive")
  /\ UNCHANGED <<test, sockets, fds1, i, j, stamps, prio, leaks>>

\* A message is whole, or short; without a connection, and when there is no
\* room or nothing to read, the call returns -1.
Outcome(n) == IF n = MsgSize THEN "whole" ELSE IF n > 0 THEN "short" ELSE "failed"

\* The first message of a call is not timed.
Timed(n) ==
  IF j[IF test = "send" THEN Client ELSE Server] = 0
  THEN UNCHANGED <<i, stamps>>
  ELSE stamps' = [stamps EXCEPT ![i] = Outcome(n)] /\ i' = i + 1

MoreTimed(p) == j[p] = 0 \/ (i < Iter /\ j[p] <= Limit)

Receive ==
  LET n == IF link = "accepted" THEN Least(MsgSize, stream) ELSE 0 IN
  /\ pc[Server] = "receive" /\ MoreTimed(Server)
  /\ stream' = stream - n /\ Timed(n) /\ j' = [j EXCEPT ![Server] = @ + 1]
  /\ UNCHANGED <<test, pc, path, fd_server, link, fd_client, fds1, fds2, prio, leaks>>

ReceiveDone ==
  /\ ~MoreTimed(Server) /\ Go(Server, "receive", "tell")
  /\ UNCHANGED <<test, sockets, fds1, fds2, i, j, stamps, prio, leaks>>

ServerTell ==
  /\ Go(Server, "tell", "leave") /\ fds1' = fds1 + 1
  /\ UNCHANGED <<test, sockets, fds2, i, j, stamps, prio, leaks>>

\* remove(sock) names "/TEST_DIR/socket", which is not what was bound.
ServerLeave ==
  /\ Go(Server, "leave", IF Server = "parent" THEN "wait_child" ELSE "zombie")
  /\ fd_server' = "closed"
  /\ UNCHANGED <<test, path, link, fd_client, stream, fds1, fds2, i, j, stamps, prio, leaks>>
-------------------------------------------------------------------------------
\* After the byte in fds1: socket and connect, which fails without a listener.
Connect ==
  /\ Go(Client, "wait_ready", "send") /\ fds1 > 0 /\ fds1' = fds1 - 1
  /\ \/ /\ fd_server = "listening" /\ fd_client' = "connected" /\ link' = "pending"
     \/ /\ fd_server # "listening" \/ "socket" \in Fails
        /\ fd_client' = "lone" /\ UNCHANGED link
  /\ UNCHANGED <<test, path, fd_server, stream, fds2, i, j, stamps, prio, leaks>>

\* send_test sends until timeArray is full, recv_test Limit + 1 times.
MoreToSend == IF test = "send" THEN MoreTimed(Client) ELSE j[Client] <= Limit

Send ==
  LET n == IF fd_client = "connected" THEN Least(MsgSize, Room - stream) ELSE 0 IN
  /\ pc[Client] = "send" /\ MoreToSend
  /\ stream' = stream + n /\ j' = [j EXCEPT ![Client] = @ + 1]
  /\ IF test = "send" THEN Timed(n) ELSE UNCHANGED <<i, stamps>>
  /\ UNCHANGED <<test, pc, path, fd_server, link, fd_client, fds1, fds2, prio, leaks>>

SendDone ==
  /\ ~MoreToSend /\ Go(Client, "send", IF test = "send" THEN "leave" ELSE "wait_read")
  /\ fds2' = fds2 + 1
  /\ UNCHANGED <<test, sockets, fds1, i, j, stamps, prio, leaks>>

ClientAwait ==
  /\ Go(Client, "wait_read", "leave") /\ fds1 > 0 /\ fds1' = fds1 - 1
  /\ UNCHANGED <<test, sockets, fds2, i, j, stamps, prio, leaks>>

ClientLeave ==
  /\ test # "switch" /\ Go(Client, "leave", IF Client = "parent" THEN "wait_child" ELSE "zombie")
  /\ fd_client' = "closed"
  /\ UNCHANGED <<test, path, fd_server, link, stream, fds1, fds2, i, j, stamps, prio, leaks>>

\* wait(&status), and the return to the driver.
Wait ==
  /\ pc = [p \in Process |-> IF p = "parent" THEN "wait_child" ELSE "zombie"]
  /\ pc' = [p \in Process |-> IF p = "parent" THEN "driver" ELSE "none"]
  /\ link' = "none" /\ stream' = 0 /\ prio' = "own"
  /\ IF test = "switch"
     THEN stamps' = [stamps EXCEPT ![i] = "whole"] /\ i' = i + 1
     ELSE UNCHANGED <<i, stamps>>
  /\ UNCHANGED <<test, path, fd_server, fd_client, fds1, fds2, j, leaks>>
-------------------------------------------------------------------------------
\* context_switch_test: the child answers every byte of the parent by one.
Tune ==
  /\ Go("parent", "tune", "wait_start") /\ prio' = "tuned"
  /\ UNCHANGED <<test, sockets, fds1, fds2, i, j, stamps, leaks>>

Greet ==
  /\ Go("child", "greet", "wait_turn") /\ fds2' = fds2 + 1
  /\ UNCHANGED <<test, sockets, fds1, i, j, stamps, prio, leaks>>

\* The first byte read starts the clock, each further one ends a round trip.
TurnHere ==
  /\ test = "switch" /\ fds2 > 0 /\ pc["parent"] \in {"wait_start", "wait_turn"}
  /\ fds2' = fds2 - 1
  /\ pc' = [pc EXCEPT !["parent"] = IF j["parent"] < Switches THEN "turn" ELSE "wait_child"]
  /\ UNCHANGED <<test, sockets, fds1, i, j, stamps, prio, leaks>>

TurnThere ==
  /\ Go("parent", "turn", "wait_turn")
  /\ fds1' = fds1 + 1 /\ j' = [j EXCEPT !["parent"] = @ + 1]
  /\ UNCHANGED <<test, sockets, fds2, i, stamps, prio, leaks>>

AnswerBlindly ==
  /\ pc["child"] = "wait_turn" /\ j["child"] < Switches
  /\ fds1' = (IF fds1 > 0 THEN fds1 - 1 ELSE 0) /\ fds2' = fds2 + 1
  /\ j' = [j EXCEPT !["child"] = @ + 1]
  /\ UNCHANGED <<test, pc, sockets, i, stamps, prio, leaks>>

Answer ==
  /\ pc["child"] = "wait_turn" /\ j["child"] < Switches /\ fds1 > 0
  /\ fds1' = fds1 - 1 /\ fds2' = fds2 + 1 /\ j' = [j EXCEPT !["child"] = @ + 1]
  /\ UNCHANGED <<test, pc, sockets, i, stamps, prio, leaks>>

AnswersDone ==
  /\ j["child"] = Switches /\ Go("child", "wait_turn", "zombie")
  /\ UNCHANGED <<test, sockets, fds1, fds2, i, j, stamps, prio, leaks>>

Serve == Listen \/ Accept \/ ServerAwait \/ Receive \/ ReceiveDone \/ ServerTell \/ ServerLeave
Request == Connect \/ Send \/ SendDone \/ ClientAwait \/ ClientLeave
Lead == Tune \/ TurnHere \/ TurnThere
Follow == Greet \/ Answer \/ AnswersDone
Drive == Fork \/ EndTest \/ Wait

Next == Serve \/ Request \/ Lead \/ Follow \/ Drive \/ ForkFails \/ AcceptFails
Spec == Init /\ [][Next]_vars

\* The kernel schedules both processes, but makes no accept fail; nothing makes
\* a fork succeed, but MaxLeaks bounds how often it does not.
FairSpec ==
  Spec /\ WF_vars(Serve) /\ WF_vars(Request) /\ WF_vars(Lead) /\ WF_vars(Follow) /\ WF_vars(Drive)
-------------------------------------------------------------------------------
OsPairsTypeOK ==
  /\ test \in Tests /\ pc \in [Process -> PointsOf] /\ path \in {"free", "taken"}
  /\ fd_server \in {"closed", "listening", "deaf"} /\ link \in {"none", "pending", "accepted"}
  /\ fd_client \in {"closed", "lone", "connected"} /\ stream \in 0..Room
  /\ fds1 \in 0..1 /\ fds2 \in 0..1 /\ i \in 0..Iter /\ j \in [Process -> Nat]
  /\ stamps \in [0..(Iter - 1) -> {"none", "whole", "short", "failed", "unread"}]
  /\ prio \in {"own", "tuned"} /\ leaks \in 0..(4 * MaxLeaks)

Transferred(n) == stamps[n] \in {"whole", "short"}

\* Since the path that was bound is never removed (l. 936 and 1055 remove another
\* one), no call after the one that bound it transfers anything: of all entries,
\* at most Limit in a row are times of a transfer, the first ones unless servers
\* had no socket.  Where a socket has room for the messages of a call, which
\* nobody receives before all are sent, these are whole messages.
OneCallTransfers ==
  test # "switch" =>
    /\ \A n, m \in 0..(Iter - 1) : Transferred(n) /\ Transferred(m) => m - n < Limit
    /\ (Limit + 1) * MsgSize <= Room => \A n \in 0..(Iter - 1) : stamps[n] # "short"

\* The two processes of context_switch_test take turns: at most one byte is in
\* the two pipes, and the parent is never two round trips ahead.
TurnsAlternate ==
  test = "switch" =>
    /\ fds1 + fds2 <= 1
    /\ j["parent"] - j["child"] \in 0..1
    /\ pc["parent"] = "wait_child" /\ pc["child"] # "none" => j["child"] = Switches

\* The test ends, although nobody removes the path: every call on a socket that
\* is deaf fails at once.  It hangs only where a client without a socket leaves
\* a server in accept, for which no time limit is set.
Ends ==
  <>[](\/ pc["parent"] = "ended"
       \/ /\ "socket" \in Fails /\ fd_server = "listening" /\ link = "none"
          /\ pc[Server] = "accept" /\ pc[Client] \in {"wait_read", "wait_child"})
===============================================================================
