--------------------------- MODULE SendBenchProofs ----------------------------
(***************************************************************************)
(* Safety of send_test for every number of rounds, choice of message       *)
(* sizes, socket buffer and set of failing calls.  Unlike in recv_test the *)
(* two processes run freely once they are connected, so the invariant      *)
(* says little of the stream; Handshake follows the server up to there.    *)
(***************************************************************************)
EXTENDS SendBench, TLAPS

\* The server has left its accept with an error that nobody noticed.
Adrift == cpc \in {"errored", "reported"}

Waiting == ppc = "await_ready" /\ fds1 = 0 /\ sock # "connected"
Stopped == ppc \in {"done", "killed"}

\* What the control point of the server says of everything else.
Handshake ==
  /\ cpc = "unborn" =>
       /\ ppc \in {"setup", "fork", "done"} /\ ret # "false"
       /\ child = "none" /\ fds1 = 0 /\ sock = "closed"
  /\ cpc \in {"socket", "bind", "listen"} => Waiting /\ child = "alive" /\ sock = "closed"
  /\ cpc = "ready" => Waiting /\ child = "alive" /\ sock = "listening"
  /\ cpc = "accept" => child = "alive" /\ sock # "closed"
  /\ cpc = "recv" => child = "alive" /\ sock = "connected"
  /\ Adrift => child = "dead" /\ sock # "closed"
  /\ cpc \in {"killed", "returned"} => child = "dead" /\ (Waiting \/ Stopped)

\* What the control point of the client says.
Client ==
  /\ ppc \in {"setup", "fork"} => cpc = "unborn"
  /\ ppc = "await_ready" => sock # "connected"
  /\ ppc = "await_ready" /\ fds1 = 1 => sock = "listening" /\ (cpc = "accept" \/ Adrift)
  /\ ppc = "await_ready" /\ fds1 = 0 =>
       cpc \in {"socket", "bind", "listen", "ready", "killed", "returned"}
  /\ ppc \in {"client_socket", "connect"} =>
       fds1 = 0 /\ sock = "listening" /\ (cpc = "accept" \/ Adrift)
  /\ ppc \in {"send", "kill"} =>
       fds1 = 0 /\ sock = "connected" /\ (cpc \in {"accept", "recv"} \/ Adrift)
  /\ sigint # "unsent" => ppc = "done"

\* The rounds that were short or failed are among those counted.
Tally ==
  /\ short + failed <= sidx
  /\ ppc \notin {"send", "kill", "done", "killed"} => sidx = 0
  /\ ppc = "send" => sidx < Iter
  /\ SmallSendExact

\* A success comes through the point kill.
Ending ==
  /\ ppc = "kill" => sidx = Iter /\ roi = "closed"
  /\ ppc # "done" => ret = "none"
  /\ SuccessIsComplete

IInv == TypeOK /\ Handshake /\ Client /\ Tally /\ Ending
-------------------------------------------------------------------------------
\* The invariant holds before send_test allocates anything.
LEMMA InitIInv == Init => IInv
  BY SendAssumption
  DEF Init, IInv, TypeOK, Handshake, Client, Tally, Ending, SmallSendExact,
      SuccessIsComplete, Waiting, Stopped, Adrift

\* Every step of the client keeps it, a failed send included.
LEMMA ParentIInv == IInv /\ (Parent \/ ClientSendFails) => IInv'
<1> SUFFICES ASSUME IInv, Parent \/ ClientSendFails PROVE IInv'
  OBVIOUS
<1> USE SendAssumption
    DEF IInv, TypeOK, Handshake, Client, Tally, Ending, SmallSendExact,
        SuccessIsComplete, Waiting, Stopped, Adrift, tally, childVars, kernelVars
<1>1. CASE Setup
  BY <1>1 DEF Setup, Return
<1>2. CASE Fork
  BY <1>2 DEF Fork, Return
<1>3. CASE ClientReady
  BY <1>3 DEF ClientReady
<1>4. CASE ClientSocket
  BY <1>4 DEF ClientSocket, Return, Kill
<1>5. CASE ClientConnect
  BY <1>5 DEF ClientConnect, Return, Kill
<1>6. CASE ClientSend
  <2> DEFINE room == Cap - stream
             size == IF room < msg_size THEN room ELSE msg_size
  <2>1. msg_size \in Nat \ {0} /\ room \in Nat /\ size \in 0..room
    OBVIOUS
  <2>2. stream' \in 0..Cap
    BY <1>6, <2>1 DEF ClientSend
  <2>3. errno' \in {"EAGAIN", "other"}
    BY <1>6 DEF ClientSend
  <2>4. CASE size < msg_size /\ errno' = "EAGAIN"
    <3>1. msg_size = 1 => size = 0
      BY <2>1, <2>4
    <3>2. /\ resent' = resent + size /\ resent + size <= MaxResent
          /\ UNCHANGED <<ppc, roi, sidx, short, msg_size, ret, failed, childVars,
                         sigint, fds1, sock>>
      BY <1>6, <2>4 DEF ClientSend
    <3> QED
      BY <2>1, <2>2, <2>3, <3>1, <3>2
  <2>5. CASE ~(size < msg_size /\ errno' = "EAGAIN")
    <3>1. size < msg_size => msg_size > 1
      BY <1>6, <2>1, <2>5 DEF ClientSend
    <3>2. /\ short' = IF size < msg_size THEN short + 1 ELSE short
          /\ Timed
          /\ UNCHANGED <<resent, msg_size, ret, failed, childVars, sigint, fds1, sock>>
      BY <1>6, <2>5 DEF ClientSend
    <3>3. ppc = "send" /\ child = "alive"
      BY <1>6 DEF ClientSend
    <3>4. short' + failed' <= sidx'
      BY <3>2, <3>3 DEF Timed
    <3> HIDE DEF size, room
    <3> QED
      BY <2>2, <2>3, <3>1, <3>2, <3>3, <3>4 DEF Timed
  <2> QED
    BY <2>4, <2>5
<1>7. CASE ClientSendFails
  BY <1>7 DEF ClientSendFails, Timed
<1>8. CASE ClientBroken
  BY <1>8 DEF ClientBroken
<1>9. CASE ClientKill
  BY <1>9 DEF ClientKill, Return, Kill
<1> QED
  BY <1>1, <1>2, <1>3, <1>4, <1>5, <1>6, <1>7, <1>8, <1>9 DEF Parent

\* Every step of the server keeps it, a failed accept included.
LEMMA ChildIInv == IInv /\ (Child \/ AcceptFails) => IInv'
<1> SUFFICES ASSUME IInv, Child \/ AcceptFails PROVE IInv'
  OBVIOUS
<1> USE SendAssumption
    DEF IInv, TypeOK, Handshake, Client, Tally, Ending, SmallSendExact,
        SuccessIsComplete, Waiting, Stopped, Adrift, tally, parentVars, childVars,
        kernelVars, ServerAt
<1>1. CASE ServerSocket
  BY <1>1 DEF ServerSocket, ServerCall, ServerExit
<1>2. CASE ServerBind
  BY <1>2 DEF ServerBind, ServerCall, ServerExit
<1>3. CASE ServerListen
  BY <1>3 DEF ServerListen, ServerCall, ServerExit
<1>4. CASE ServerReady
  BY <1>4 DEF ServerReady
<1>5. CASE ServerAccept
  BY <1>5 DEF ServerAccept
<1>6. CASE ServerRecv
  BY <1>6 DEF ServerRecv
<1>7. CASE ServerKilled
  BY <1>7 DEF ServerKilled
<1>8. CASE ServerAcceptKills
  BY <1>8 DEF ServerAcceptKills
<1>9. CASE ServerAcceptGoesOn
  BY <1>9 DEF ServerAcceptGoesOn
<1> QED
  BY <1>1, <1>2, <1>3, <1>4, <1>5, <1>6, <1>7, <1>8, <1>9 DEF Child, AcceptFails

\* IInv holds in every reachable state.
LEMMA Invariance == Spec => []IInv
<1>1. IInv /\ UNCHANGED vars => IInv'
  BY DEF IInv, TypeOK, Handshake, Client, Tally, Ending, SmallSendExact,
         SuccessIsComplete, Waiting, Stopped, Adrift, vars, parentVars, childVars,
         kernelVars, tally
<1>2. IInv /\ [Next]_vars => IInv'
  BY <1>1, ParentIInv, ChildIInv DEF Next
<1> QED
  BY <1>2, InitIInv, PTL DEF Spec
-------------------------------------------------------------------------------
\* send_test keeps its variables in their types: the stream never exceeds its
\* buffer, the pipe never holds more than the byte of line 107.
THEOREM TypeCorrect == Spec => []TypeOK
<1>1. IInv => TypeOK
  BY DEF IInv
<1> QED
  BY <1>1, Invariance, PTL

\* The client connects only to a server that has listened (l. 59-66, 102-107).
THEOREM ListenerReady == Spec => []ConnectFindsListener
<1>1. IInv => ConnectFindsListener
  BY DEF IInv, Handshake, Client, Adrift, ConnectFindsListener
<1> QED
  BY <1>1, Invariance, PTL

\* A send (l. 76) raises SIGPIPE only after the failed accept of line 110.
THEOREM OnlyBrokenAfterAccept == Spec => []BrokenOnlyAfterAccept
<1>1. IInv => BrokenOnlyAfterAccept
  BY DEF IInv, Handshake, Client, Adrift, BrokenOnlyAfterAccept
<1> QED
  BY <1>1, Invariance, PTL

\* Results are collected only after all rounds (l. 74-88, 124).
THEOREM SuccessComplete == Spec => []SuccessIsComplete
<1>1. IInv => SuccessIsComplete
  BY DEF IInv, Ending
<1> QED
  BY <1>1, Invariance, PTL

\* With one-chunk messages the retry of line 79 makes every timed round one
\* message, but for sends that fail for other reasons.
THEOREM SmallExact == Spec => []SmallSendExact
<1>1. IInv => SmallSendExact
  BY DEF IInv, Tally
<1> QED
  BY <1>1, Invariance, PTL
===============================================================================
