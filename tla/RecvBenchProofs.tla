--------------------------- MODULE RecvBenchProofs ----------------------------
(***************************************************************************)
(* Safety of recv_test for every number of iterations, message size,       *)
(* socket buffer and set of failing calls.  The inductive invariant IInv   *)
(* follows the client: each control point of the child admits few control  *)
(* points of the parent, and together they determine the bytes in the      *)
(* pipes, the loop indices and what the stream holds.                      *)
(***************************************************************************)
EXTENDS RecvBench, TLAPS

Idle == fds1 = 0 /\ fds2 = 0 /\ stream = 0

\* The stream holds one message, unless a send failed or was short.
Whole == errno # "other" /\ Msg <= Cap => stream = Msg

Unborn ==
  /\ sock = "closed"
  /\ ppc \in {"setup", "fork", "done"} /\ ret # "false"
  /\ child = "none" /\ sigint = "unsent" /\ Idle /\ sidx = 0 /\ cidx = 0

AwaitReady ==
  /\ sidx = 0 /\ cidx = 0 /\ fds2 = 0 /\ stream = 0 /\ sock # "connected"
  /\ \/ fds1 = 0 /\ ppc \in {"socket", "bind", "listen", "ready", "done"} /\ ret # "false"
     \/ fds1 = 1 /\ ppc \in {"accept", "await"} /\ child = "alive"

Connecting ==
  /\ sidx = 0 /\ cidx = 0 /\ Idle /\ sock = "listening"
  /\ ppc \in {"accept", "await"}

Sending ==
  /\ sidx = cidx /\ sidx < Iter /\ fds1 = 0 /\ fds2 = 0
  /\ ppc \in {"accept", "await"}

AwaitAck ==
  /\ cidx < Iter /\ stream <= Msg
  /\ \/ /\ sidx = cidx /\ fds1 = 0 /\ fds2 = 1 /\ Whole
        /\ ppc \in {"accept", "await"} /\ child = "alive"
     \/ sidx = cidx /\ fds1 = 0 /\ fds2 = 0 /\ ppc = "recv" /\ child = "alive" /\ Whole
     \/ sidx = cidx /\ Idle /\ ppc = "ack" /\ child = "alive"
     \/ sidx = cidx /\ fds1 = 0 /\ fds2 = 0 /\ ppc = "done" /\ ret = "true"
     \/ /\ sidx = cidx + 1 /\ fds1 = 1 /\ fds2 = 0 /\ stream = 0 /\ child = "alive"
        /\ ppc = IF sidx < Iter THEN "await" ELSE "wait"

Gone ==
  /\ child = "dead" /\ sigint = "unsent" /\ Idle
  /\ \/ sidx = 0 /\ cidx = 0 /\ ppc \in {"accept", "await"}
     \/ sidx = Iter /\ cidx = Iter /\ ppc \in {"wait", "done"}

\* What the control point of the client says of everything else.
Phases ==
  /\ cpc = "unborn" => Unborn
  /\ cpc = "await_ready" => AwaitReady
  /\ cpc \in {"client_socket", "connect"} => Connecting /\ child = "alive"
  /\ cpc = "send" => Sending /\ child = "alive" /\ stream = 0
  /\ cpc = "notify" => Sending /\ child = "alive" /\ stream <= Msg /\ Whole
  /\ cpc = "await_ack" => AwaitAck
  /\ cpc \in {"killed", "returned"} => Gone

\* What the control point of the server says.
Server ==
  /\ ppc \in {"setup", "fork"} => cpc = "unborn"
  /\ ppc \in {"ready", "accept", "await", "recv", "ack", "wait"} => sock # "closed"
  /\ ppc = "accept" => sidx = 0
  /\ ppc = "wait" => roi = "closed"
  /\ ppc # "done" => ret = "none" /\ sigint = "unsent"
  /\ ret = "false" => roi = "closed"
  /\ child = "alive" \/ sigint = "sent" \/ cpc \in {"unborn", "killed", "returned"}

IInv == TypeOK /\ Phases /\ Server /\ errno # "EAGAIN"
-------------------------------------------------------------------------------
\* The invariant holds before recv_test allocates anything.
LEMMA InitIInv == Init => IInv
  BY RecvAssumption
  DEF Init, IInv, TypeOK, Phases, Server, Unborn, Idle, ParentPoints, ChildPoints

\* Every step of the server keeps it.
LEMMA ParentIInv == IInv /\ (Parent \/ ServerAcceptFails) => IInv'
<1> SUFFICES ASSUME IInv, Parent \/ ServerAcceptFails PROVE IInv'
  OBVIOUS
<1> USE RecvAssumption
    DEF IInv, TypeOK, Phases, Server, Unborn, AwaitReady, Connecting, Sending,
        AwaitAck, Gone, Idle, Whole, ParentPoints, ChildPoints, childVars, kernelVars
<1>1. CASE Setup
  BY <1>1 DEF Setup, Return
<1>2. CASE Fork
  BY <1>2 DEF Fork, Return
<1>3. CASE ServerSocket
  BY <1>3 DEF ServerSocket, ServerCall, ServerErr, Return
<1>4. CASE ServerBind
  BY <1>4 DEF ServerBind, ServerCall, ServerErr, Return
<1>5. CASE ServerListen
  BY <1>5 DEF ServerListen, ServerCall, ServerErr, Return
<1>6. CASE ServerReady
  BY <1>6 DEF ServerReady
<1>7. CASE ServerAccept
  BY <1>7 DEF ServerAccept
<1>8. CASE ServerAwait
  BY <1>8 DEF ServerAwait
<1>9. CASE ServerRecv
  BY <1>9 DEF ServerRecv, ServerErr, Return
<1>10. CASE ServerAck
  BY <1>10 DEF ServerAck
<1>11. CASE ServerWait
  BY <1>11 DEF ServerWait, Return
<1>12. CASE ServerAcceptFails
  BY <1>12 DEF ServerAcceptFails
<1> QED
  BY <1>1, <1>2, <1>3, <1>4, <1>5, <1>6, <1>7, <1>8, <1>9, <1>10, <1>11,
     <1>12 DEF Parent

\* Every step of the client keeps it.
LEMMA ChildIInv == IInv /\ Child => IInv'
<1> SUFFICES ASSUME IInv, Child PROVE IInv'
  OBVIOUS
<1> USE RecvAssumption
    DEF IInv, TypeOK, Phases, Server, Unborn, AwaitReady, Connecting, Sending,
        AwaitAck, Gone, Idle, Whole, ParentPoints, ChildPoints, parentVars, kernelVars
<1>1. CASE ClientReady
  BY <1>1 DEF ClientReady, ClientAt
<1>2. CASE ClientSocket
  BY <1>2 DEF ClientSocket, ClientAt, ClientExit
<1>3. CASE ClientConnect
  BY <1>3 DEF ClientConnect, ClientAt, ClientExit
<1>4. CASE ClientSend
  <2> USE <1>4 DEF ClientSend, ClientAt
  <2>1. TypeOK'
    OBVIOUS
  <2>2. Phases'
    OBVIOUS
  <2>3. Server' /\ errno' # "EAGAIN"
    OBVIOUS
  <2> QED
    BY <2>1, <2>2, <2>3
<1>5. CASE ClientNotify
  BY <1>5 DEF ClientNotify, ClientAt
<1>6. CASE ClientAck
  BY <1>6 DEF ClientAck, ClientAt, ClientExit
<1>7. CASE ClientKilled
  BY <1>7 DEF ClientKilled
<1> QED
  BY <1>1, <1>2, <1>3, <1>4, <1>5, <1>6, <1>7 DEF Child

\* IInv holds in every reachable state.
LEMMA Invariance == Spec => []IInv
<1>1. IInv /\ UNCHANGED vars => IInv'
  BY DEF IInv, TypeOK, Phases, Server, Unborn, AwaitReady, Connecting, Sending,
         AwaitAck, Gone, Idle, Whole, vars, parentVars, childVars, kernelVars
<1>2. IInv /\ [Next]_vars => IInv'
  BY <1>1, ParentIInv, ChildIInv DEF Next
<1> QED
  BY <1>2, InitIInv, PTL DEF Spec
-------------------------------------------------------------------------------
\* recv_test keeps its variables in their types, and a pipe never holds more
\* than the one byte of the handshake (l. 75, 94, 125).
THEOREM TypeCorrect == Spec => []TypeOK
<1>1. IInv => TypeOK
  BY DEF IInv
<1> QED
  BY <1>1, Invariance, PTL

\* The client never connects before the server listens (l. 70-75, 106-117).
THEOREM ListenerReady == Spec => []ConnectFindsListener
<1>1. IInv => ConnectFindsListener
  <2> SUFFICES ASSUME IInv, ClientAt("connect") PROVE sock = "listening"
    BY DEF ConnectFindsListener
  <2> QED
    BY DEF IInv, Phases, Connecting, Idle, ClientAt, Server, TypeOK
<1> QED
  BY <1>1, Invariance, PTL

\* The two processes take turns: while one is between two pipe operations the
\* other is blocked, and no byte is under way (l. 83-95, 119-128).
THEOREM TurnsAlternate == Spec => []OneTurn
<1>1. IInv => OneTurn
  BY DEF IInv, TypeOK, Phases, Server, Unborn, AwaitReady, Connecting, Sending,
         AwaitAck, Gone, Idle, Whole, OneTurn, ServerRuns, ClientRuns, ParentPoints, ChildPoints
<1> QED
  BY <1>1, Invariance, PTL

\* The client's retry on EAGAIN (l. 122-124) is dead code.
THEOREM NoRetry == Spec => []SendFindsEmptyStream
<1>1. IInv => SendFindsEmptyStream
  BY DEF IInv, Phases, SendFindsEmptyStream, ClientAt
<1> QED
  BY <1>1, Invariance, PTL

\* recv finds the whole message, whatever the size of messages and buffer, as
\* long as a message fits (l. 86-92).
THEOREM WholeMessage == Spec => []RecvFindsMessage
<1>1. IInv => RecvFindsMessage
  BY DEF IInv, TypeOK, Phases, Server, Unborn, AwaitReady, Connecting, Sending,
         AwaitAck, Gone, Idle, Whole, RecvFindsMessage, ParentPoints, ChildPoints
<1> QED
  BY <1>1, Invariance, PTL

\* server_err interrupts only a blocked client (l. 100-104).
THEOREM KillIsClean == Spec => []KillFindsClientBlocked
<1>1. IInv => KillFindsClientBlocked
  BY DEF IInv, TypeOK, Phases, Server, Unborn, AwaitReady, Connecting, Sending,
         AwaitAck, Gone, Idle, Whole, KillFindsClientBlocked, ParentPoints, ChildPoints
<1> QED
  BY <1>1, Invariance, PTL

\* Results are collected only after complete rounds on both sides (l. 96-99, 137).
THEOREM SuccessComplete == Spec => []SuccessIsComplete
<1>1. IInv => SuccessIsComplete
  BY RecvAssumption
  DEF IInv, TypeOK, Phases, Server, Unborn, AwaitReady, Connecting, Sending,
      AwaitAck, Gone, Idle, Whole, SuccessIsComplete, ParentPoints, ChildPoints
<1> QED
  BY <1>1, Invariance, PTL
-------------------------------------------------------------------------------
\* A step of the server answers a round or is invisible.
LEMMA ParentRefines ==
  IInv /\ (Parent \/ ServerAcceptFails) => [Rounds!Next]_Rounds!lvars
<1> SUFFICES ASSUME IInv, Parent \/ ServerAcceptFails PROVE [Rounds!Next]_Rounds!lvars
  OBVIOUS
<1>1. CASE ServerAck
  <2>1. /\ cpc = "await_ack" /\ cpc' = cpc /\ cidx' = cidx
        /\ sidx = cidx /\ sidx' = sidx + 1 /\ cidx \in Nat
    BY <1>1, RecvAssumption
    DEF ServerAck, IInv, TypeOK, Phases, Unborn, AwaitReady, Connecting, Sending,
        AwaitAck, Gone, Idle, Whole, ChildPoints, childVars
  <2> QED
    BY <2>1 DEF Rounds!Next, Rounds!Answer
<1>2. CASE ~ServerAck
  <2>1. UNCHANGED <<cpc, cidx, sidx>> \/ Fork
    BY <1>2 DEF Parent, Setup, ServerSocket, ServerBind, ServerListen, ServerCall,
        ServerReady, ServerAccept, ServerAcceptFails, ServerAwait, ServerRecv,
        ServerWait, childVars
  <2>2. CASE Fork
    BY <2>2 DEF Fork, IInv, Phases, Server, Unborn, Rounds!lvars
  <2> QED
    BY <2>1, <2>2 DEF Rounds!lvars
<1> QED
  BY <1>1, <1>2

\* A step of the client starts a round or is invisible.
LEMMA ChildRefines == IInv /\ Child => [Rounds!Next]_Rounds!lvars
<1> SUFFICES ASSUME IInv, Child PROVE [Rounds!Next]_Rounds!lvars
  OBVIOUS
<1> USE DEF childVars, parentVars
<1>1. CASE ClientNotify
  <2>1. /\ cpc = "notify" /\ cpc' = "await_ack" /\ cidx' = cidx /\ sidx' = sidx
        /\ sidx = cidx /\ sidx < Iter /\ cidx \in Nat
    BY <1>1, RecvAssumption DEF ClientNotify, ClientAt, IInv, TypeOK, Phases, Sending
  <2> QED
    BY <2>1 DEF Rounds!Next, Rounds!Start
<1>2. CASE ClientAck
  <2>1. /\ cpc = "await_ack" /\ cpc' # "await_ack"
        /\ cidx' = cidx + 1 /\ sidx' = sidx /\ cidx \in Nat
    BY <1>2, RecvAssumption DEF ClientAck, ClientAt, ClientExit, IInv, TypeOK
  <2> QED
    BY <2>1 DEF Rounds!lvars
<1>3. CASE ClientKilled
  BY <1>3 DEF ClientKilled, Rounds!lvars
<1>4. CASE ClientReady \/ ClientSocket \/ ClientConnect \/ ClientSend
  <2>1. cpc # "await_ack" /\ cpc' # "await_ack" /\ cidx' = cidx /\ sidx' = sidx
    BY <1>4 DEF ClientReady, ClientSocket, ClientConnect, ClientSend, ClientAt, ClientExit
  <2> QED
    BY <2>1 DEF Rounds!lvars
<1> QED
  BY <1>1, <1>2, <1>3, <1>4 DEF Child

\* recv_test implements the abstract rounds: the measured rounds of the two
\* processes never overlap, for every number of iterations.
THEOREM Refinement == Spec => ImplementsLockstep
<1>1. Init => Rounds!Init
  BY DEF Init, Rounds!Init
<1>2. IInv /\ [Next]_vars => [Rounds!Next]_Rounds!lvars
  <2>1. UNCHANGED vars => UNCHANGED Rounds!lvars
    BY DEF vars, parentVars, childVars, Rounds!lvars
  <2> QED
    BY <2>1, ParentRefines, ChildRefines DEF Next
<1> QED
  BY <1>1, <1>2, Invariance, PTL DEF Spec, ImplementsLockstep, Rounds!Spec
===============================================================================
