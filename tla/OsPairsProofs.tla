------------------------------ MODULE OsPairsProofs ------------------------------
(***************************************************************************)
(* For every number of entries, messages, round trips, and every size: the *)
(* processes of context_switch_test take turns, and of send_test and       *)
(* recv_test only one call transfers anything.                             *)
(*                                                                         *)
(* It is always the parent that fills timeArray, as client of send_test    *)
(* and as server of recv_test.  A connection exists only in the call that  *)
(* bound the path, before which no entry is of a transfer; hence those     *)
(* that are belong to the messages timed in that call.                     *)
(***************************************************************************)
EXTENDS OsPairs, TLAPS

Resting == {"driver", "ended", "none", "wait_child", "zombie"}
Gone == {"leave", "wait_child", "zombie"}
Sent == {"wait_read", "leave", "wait_child", "zombie"}
Serving ==
  {"none", "driver", "ended", "listen", "accept", "wait_sent", "receive", "tell",
   "leave", "wait_child", "zombie"}
Asking ==
  {"none", "driver", "ended", "wait_ready", "send", "wait_read", "leave", "wait_child", "zombie"}

Domains ==
  /\ test \in {"send", "recv", "switch"} /\ path \in {"free", "taken"}
  /\ pc \in [Process -> PointsOf]
  /\ fd_server \in {"closed", "listening", "deaf"} /\ link \in {"none", "pending", "accepted"}
  /\ fd_client \in {"closed", "lone", "connected"} /\ stream \in 0..Room
  /\ i \in 0..Iter /\ j \in [Process -> Nat]
  /\ stamps \in [0..(Iter - 1) -> {"none", "whole", "short", "failed", "unread"}]
  /\ pc["child"] = "none" <=> pc["parent"] \in {"driver", "ended"}
  /\ pc["parent"] # "none" /\ pc["child"] \notin {"driver", "ended"}

Pipes == fds1 \in 0..1 /\ fds2 \in 0..1

\* Turns of context_switch_test, and where the one byte is.
Even == j["parent"] = j["child"] /\ j["parent"] <= Switches
Turns ==
  test = "switch" =>
    /\ pc["parent"] \in {"driver", "ended", "tune", "wait_start", "turn", "wait_turn", "wait_child"}
    /\ pc["child"] \in {"none", "greet", "wait_turn", "zombie"}
    /\ IF pc["parent"] \in {"driver", "ended"} THEN Even /\ fds1 = 0 /\ fds2 = 0 ELSE i < Iter
    /\ pc["parent"] \in {"tune", "wait_start"} =>
         /\ j["parent"] = 0 /\ j["child"] = 0 /\ fds1 = 0
         /\ \/ pc["child"] = "greet" /\ fds2 = 0
            \/ pc["child"] = "wait_turn" /\ fds2 = 1
    /\ pc["parent"] = "turn" =>
         Even /\ j["parent"] < Switches /\ pc["child"] = "wait_turn" /\ fds1 = 0 /\ fds2 = 0
    /\ pc["parent"] = "wait_turn" =>
         \/ /\ j["parent"] = j["child"] + 1 /\ j["parent"] <= Switches
            /\ pc["child"] = "wait_turn" /\ fds1 = 1 /\ fds2 = 0
         \/ Even /\ fds1 = 0 /\ fds2 = 1
    /\ pc["parent"] = "wait_child" => Even /\ j["child"] = Switches /\ fds1 = 0 /\ fds2 = 0
    /\ pc["child"] = "greet" => pc["parent"] \in {"tune", "wait_start"}
    /\ pc["child"] = "zombie" => j["child"] = Switches

\* Where the two processes of send_test and recv_test can be, with the bytes.
Points ==
  test # "switch" =>
    /\ pc[Server] \in Serving
    /\ pc[Client] \in Asking
    /\ test = "send" =>
         pc[Server] \notin {"receive", "tell"} /\ pc[Client] # "wait_read" /\ j["child"] = 0
    /\ pc[Client] = "wait_ready" =>
         /\ j["parent"] = 0 /\ j["child"] = 0 /\ fds2 = 0 /\ fd_client = "closed" /\ link = "none"
         /\ \/ pc[Server] = "listen" /\ fds1 = 0 /\ fd_server = "closed"
            \/ pc[Server] \in {"accept", "wait_sent"} /\ fds1 = 1
    /\ pc[Client] = "send" => pc[Server] \in {"accept", "wait_sent"} /\ fds1 = 0 /\ fds2 = 0
    /\ pc[Client] \in Sent =>
         \/ pc[Server] \in {"accept", "wait_sent"} /\ fds1 = 0 /\ fds2 = 1
         \/ /\ pc[Server] \notin {"listen", "accept", "wait_sent"} /\ fds2 = 0
            /\ fds1 = IF pc[Client] = "wait_read" /\ pc[Server] \in Gone THEN 1 ELSE 0
    /\ test = "recv" /\ pc[Client] \in Gone => pc[Server] \in Gone
    /\ test = "recv" /\ pc[Server] \in {"listen", "accept", "wait_sent"} => j["parent"] = 0
    /\ test = "recv" /\ pc[Client] = "send" => j["child"] <= Limit + 1
    /\ test = "recv" /\ pc[Client] \in Sent => j["child"] = Limit + 1

\* What is open, when.
Live == fd_client = "connected"
Open ==
  test # "switch" =>
    /\ pc[Server] \in Resting => fd_server = "closed"
    /\ pc[Client] \in Resting => fd_client = "closed"
    /\ pc["parent"] \in {"driver", "ended"} => link = "none"
    /\ Live => link # "none"
    /\ link = "none" => stream = 0
    /\ link # "none" => Live \/ pc[Client] \in {"wait_child", "zombie"}

\* Nothing is transferred before a call binds the path, and only by that call:
\* while there is a connection, or may be one, the entries filled are those of the
\* messages timed in this call.
Start == i - (IF j["parent"] = 0 THEN 0 ELSE j["parent"] - 1)
OneCall ==
  test # "switch" =>
    /\ path = "free" =>
         fd_server # "listening" /\ link = "none" /\ \A n \in 0..(Iter - 1) : ~Transferred(n)
    /\ fd_server = "listening" \/ link # "none" =>
         j["parent"] <= Limit + 1 /\ \A n \in 0..(Iter - 1) : Transferred(n) => n >= Start
    /\ \A n \in 0..(Iter - 1) : n >= i => stamps[n] = "none"
    /\ \A n, m \in 0..(Iter - 1) : Transferred(n) /\ Transferred(m) => m - n < Limit

CallInv == Domains /\ Pipes /\ Turns /\ Points /\ Open /\ OneCall

\* With room for the messages of a call: what is in the socket, and that no entry
\* is of a short message.
Roomy == (Limit + 1) * MsgSize <= Room
InSocket ==
  IF test = "send" THEN j["parent"]
  ELSE IF link = "accepted" THEN j["child"] - j["parent"] ELSE j["child"]
Volume == test # "switch" /\ Live => stream = InSocket * MsgSize
NoShort == test # "switch" => \A n \in 0..(Iter - 1) : stamps[n] # "short"
RoomyInv == CallInv /\ (Roomy => Volume /\ NoShort)
-------------------------------------------------------------------------------
LEMMA Sizes ==
  /\ Iter \in Nat /\ Iter > 0 /\ Limit \in Nat /\ Limit > 0 /\ Switches \in Nat /\ Switches > 0
  /\ MsgSize \in Nat /\ MsgSize > 0 /\ Room \in Nat
  BY OsPairsAssumption DEF OsPairsAssumption

LEMMA InvInit == Init => CallInv
<1> SUFFICES ASSUME Init PROVE CallInv
  OBVIOUS
<1> USE Sizes DEF Init, Process, Server, Client
<1>1. Domains
  BY OsPairsAssumption DEF OsPairsAssumption, Domains, PointsOf
<1>2. Pipes /\ Turns /\ Points
  BY DEF Pipes, Turns, Even, Points, Gone, Sent, Serving, Asking
<1>3. Open /\ OneCall
  BY DEF Open, Live, OneCall, Start, Transferred, Resting
<1> QED
  BY <1>1, <1>2, <1>3 DEF CallInv

\* The parent times one more message: of a transfer only where there is a link.
LEMMA TimedOnce ==
  ASSUME Domains, OneCall, test # "switch", NEW n \in Int, Timed(n), link = "none" => n = 0,
         MoreTimed("parent"), j["parent"] \in Nat, j'["parent"] = j["parent"] + 1,
         UNCHANGED <<test, path, fd_server, link>>
  PROVE  OneCall'
<1>1. j[IF test = "send" THEN Client ELSE Server] = j["parent"]
  BY DEF Client, Server, Domains
<1>2. CASE j["parent"] = 0
  <2>1. UNCHANGED <<i, stamps>> /\ Start' = Start /\ i \in Int
    BY <1>1, <1>2 DEF Timed, Start, Domains
  <2> QED
    BY <1>2, <2>1, Sizes DEF OneCall, Transferred
<1>3. CASE j["parent"] # 0
  <2>1. /\ i' = i + 1 /\ i \in 0..(Iter - 1) /\ j["parent"] \in 1..Limit
        /\ stamps' = [stamps EXCEPT ![i] = Outcome(n)]
    BY <1>1, <1>3, Sizes DEF Timed, MoreTimed, Domains
  <2>2. \A k \in 0..(Iter - 1) : stamps'[k] = IF k = i THEN Outcome(n) ELSE stamps[k]
    BY <2>1 DEF Domains
  <2>3. link = "none" => Outcome(n) = "failed"
    BY Sizes DEF Outcome
  <2>4. Start' = Start /\ Start = i - (j["parent"] - 1)
    BY <1>3, <2>1 DEF Start
  <2>5. \A k \in 0..(Iter - 1) : k >= i' => stamps'[k] = "none"
    BY <2>1, <2>2, Sizes DEF OneCall
  <2>6. \A k \in 0..(Iter - 1) :
          Transferred(k)' => \/ k # i /\ Transferred(k) /\ k < i
                             \/ k = i /\ link # "none"
    BY <2>1, <2>2, <2>3, Sizes DEF OneCall, Transferred
  <2>7. fd_server = "listening" \/ link # "none" =>
          j'["parent"] <= Limit + 1 /\ \A k \in 0..(Iter - 1) : Transferred(k)' => k >= Start'
    BY <2>1, <2>4, <2>6, Sizes DEF OneCall
  <2>8. ASSUME NEW k \in 0..(Iter - 1), NEW m \in 0..(Iter - 1), Transferred(k)', Transferred(m)'
        PROVE  m - k < Limit
    <3>1. CASE Transferred(k) /\ Transferred(m)
      BY <3>1 DEF OneCall
    <3>2. CASE k = i
      BY <2>1, <2>6, <2>8, <3>2, Sizes
    <3>3. CASE m = i /\ link # "none" /\ Transferred(k)
      <4>1. k >= i - (j["parent"] - 1)
        BY <2>4, <3>3 DEF OneCall
      <4> QED
        BY <2>1, <3>3, <4>1, Sizes
    <3> QED
      BY <2>6, <2>8, <3>1, <3>2, <3>3
  <2>9. path = "free" => \A k \in 0..(Iter - 1) : ~Transferred(k)'
    BY <2>6 DEF OneCall
  <2> QED
    BY <2>5, <2>7, <2>8, <2>9 DEF OneCall
<1> QED
  BY <1>2, <1>3

\* The server of a message test.
LEMMA ServeStep ==
  ASSUME CallInv, Serve \/ AcceptFails
  PROVE  CallInv'
<1> USE Sizes DEF Process, Go, sockets, Server, Client, Gone, Sent, Serving, Asking, Resting
<1>1. CASE Listen
  <2>1. Domains'
    BY <1>1 DEF Listen, CallInv, Domains, PointsOf
  <2>2. Pipes'
    <3>1. pc[Server] = "listen" /\ test # "switch"
      BY <1>1 DEF Listen, CallInv, Domains, Turns
    <3>2. fds1 = 0
      BY <3>1 DEF CallInv, Domains, Pipes, Points
    <3> QED
      BY <1>1, <3>2 DEF Listen, CallInv, Pipes
  <2>3. Turns' /\ Points'
    BY <1>1 DEF Listen, CallInv, Domains, Turns, Even, Points
  <2>4. Open'
    BY <1>1 DEF Listen, CallInv, Domains, Points, Open, Live
  <2>5. OneCall'
    BY <1>1 DEF Listen, CallInv, Domains, Points, Open, Live, OneCall, Start, Transferred
  <2> QED
    BY <2>1, <2>2, <2>3, <2>4, <2>5 DEF CallInv
<1>2. CASE Accept
  <2>1. Domains'
    BY <1>2 DEF Accept, CallInv, Domains, PointsOf
  <2>2. Pipes'
    BY <1>2 DEF Accept, CallInv, Pipes, Points, Domains
  <2>3. Turns' /\ Points'
    BY <1>2 DEF Accept, CallInv, Domains, Turns, Even, Points
  <2>4. Open'
    BY <1>2 DEF Accept, CallInv, Domains, Points, Open, Live
  <2>5. OneCall'
    BY <1>2 DEF Accept, CallInv, Domains, Points, Open, Live, OneCall, Start, Transferred
  <2> QED
    BY <2>1, <2>2, <2>3, <2>4, <2>5 DEF CallInv
<1>3. CASE ServerAwait
  <2>1. Domains'
    BY <1>3 DEF ServerAwait, CallInv, Domains, PointsOf
  <2>2. Pipes'
    BY <1>3 DEF ServerAwait, CallInv, Pipes, Points, Domains
  <2>3. Turns' /\ Points'
    BY <1>3 DEF ServerAwait, CallInv, Domains, Turns, Even, Points
  <2>4. Open'
    BY <1>3 DEF ServerAwait, CallInv, Domains, Points, Open, Live
  <2>5. OneCall'
    BY <1>3 DEF ServerAwait, CallInv, Domains, Points, Open, Live, OneCall, Start, Transferred
  <2> QED
    BY <2>1, <2>2, <2>3, <2>4, <2>5 DEF CallInv
<1>4. CASE Receive
  <2>1. Domains'
    <3>1. stream' \in 0..Room /\ \E n \in Int : Timed(n)
      BY <1>4 DEF Receive, Least, CallInv, Domains
    <3>2. i' \in 0..Iter
      BY <1>4, <3>1 DEF Receive, Timed, MoreTimed, CallInv, Domains, Points
    <3>3. stamps' \in [0..(Iter - 1) -> {"none", "whole", "short", "failed", "unread"}]
      BY <3>1 DEF Timed, Outcome, CallInv, Domains
    <3> QED
      BY <1>4, <3>1, <3>2, <3>3 DEF Receive, CallInv, Domains
  <2>2. Pipes'
    BY <1>4 DEF Receive, Timed, Outcome, MoreTimed, Least, CallInv, Pipes, Points,
         Domains
  <2>3. Turns' /\ Points'
    BY <1>4 DEF Receive, Timed, Outcome, MoreTimed, Least, CallInv, Domains, Turns,
         Even, Points
  <2>4. Open'
    BY <1>4 DEF Receive, Timed, Outcome, MoreTimed, Least, CallInv, Domains, Points,
         Open, Live
  <2>5. OneCall'
    <3>1. /\ test = "recv" /\ j["parent"] \in Nat /\ j'["parent"] = j["parent"] + 1
          /\ MoreTimed("parent") /\ UNCHANGED <<test, path, fd_server, link>>
      BY <1>4 DEF Receive, CallInv, Domains, Points, Turns
    <3>2. PICK n \in Int : Timed(n) /\ (link = "none" => n = 0)
      BY <1>4 DEF Receive, Least, CallInv, Domains
    <3> QED
      BY <3>1, <3>2, TimedOnce DEF CallInv
  <2> QED
    BY <2>1, <2>2, <2>3, <2>4, <2>5 DEF CallInv
<1>5. CASE ReceiveDone
  <2>1. Domains'
    BY <1>5 DEF ReceiveDone, MoreTimed, CallInv, Domains, PointsOf
  <2>2. Pipes'
    BY <1>5 DEF ReceiveDone, MoreTimed, CallInv, Pipes, Points, Domains
  <2>3. Turns' /\ Points'
    BY <1>5 DEF ReceiveDone, MoreTimed, CallInv, Domains, Turns, Even, Points
  <2>4. Open'
    BY <1>5 DEF ReceiveDone, MoreTimed, CallInv, Domains, Points, Open, Live
  <2>5. OneCall'
    BY <1>5 DEF ReceiveDone, MoreTimed, CallInv, Domains, Points, Open, Live,
         OneCall, Start, Transferred
  <2> QED
    BY <2>1, <2>2, <2>3, <2>4, <2>5 DEF CallInv
<1>6. CASE ServerTell
  <2>1. Domains'
    BY <1>6 DEF ServerTell, CallInv, Domains, PointsOf
  <2>2. Pipes'
    <3>1. pc[Server] = "tell" /\ test # "switch"
      BY <1>6 DEF ServerTell, CallInv, Domains, Turns
    <3>2. fds1 = 0
      BY <3>1 DEF CallInv, Domains, Pipes, Points
    <3> QED
      BY <1>6, <3>2 DEF ServerTell, CallInv, Pipes
  <2>3. Turns' /\ Points'
    BY <1>6 DEF ServerTell, CallInv, Domains, Turns, Even, Points
  <2>4. Open'
    BY <1>6 DEF ServerTell, CallInv, Domains, Points, Open, Live
  <2>5. OneCall'
    BY <1>6 DEF ServerTell, CallInv, Domains, Points, Open, Live, OneCall, Start, Transferred
  <2> QED
    BY <2>1, <2>2, <2>3, <2>4, <2>5 DEF CallInv
<1>7. CASE ServerLeave
  <2>1. Domains'
    BY <1>7 DEF ServerLeave, CallInv, Domains, PointsOf
  <2>2. Pipes'
    BY <1>7 DEF ServerLeave, CallInv, Pipes, Points, Domains
  <2>3. Turns' /\ Points'
    BY <1>7 DEF ServerLeave, CallInv, Domains, Turns, Even, Points
  <2>4. Open'
    BY <1>7 DEF ServerLeave, CallInv, Domains, Points, Open, Live
  <2>5. OneCall'
    BY <1>7 DEF ServerLeave, CallInv, Domains, Points, Open, Live, OneCall, Start, Transferred
  <2> QED
    BY <2>1, <2>2, <2>3, <2>4, <2>5 DEF CallInv
<1>8. CASE AcceptFails
  <2>1. Domains'
    BY <1>8 DEF AcceptFails, CallInv, Domains, PointsOf
  <2>2. Pipes'
    BY <1>8 DEF AcceptFails, CallInv, Pipes, Points, Domains
  <2>3. Turns' /\ Points'
    BY <1>8 DEF AcceptFails, CallInv, Domains, Turns, Even, Points
  <2>4. Open'
    BY <1>8 DEF AcceptFails, CallInv, Domains, Points, Open, Live
  <2>5. OneCall'
    BY <1>8 DEF AcceptFails, CallInv, Domains, OneCall, Start, Transferred
  <2> QED
    BY <2>1, <2>2, <2>3, <2>4, <2>5 DEF CallInv
<1> QED
  BY <1>1, <1>2, <1>3, <1>4, <1>5, <1>6, <1>7, <1>8 DEF Serve

\* Its client.
LEMMA RequestStep ==
  ASSUME CallInv, Request
  PROVE  CallInv'
<1> USE Sizes DEF Process, Go, sockets, Server, Client, Gone, Sent, Serving, Asking, Resting
<1>1. CASE Connect
  <2>1. Domains'
    BY <1>1 DEF Connect, CallInv, Domains, PointsOf
  <2>2. Pipes'
    BY <1>1 DEF Connect, CallInv, Pipes, Points, Domains
  <2>3. Turns' /\ Points'
    BY <1>1 DEF Connect, CallInv, Domains, Turns, Even, Points
  <2>4. Open'
    BY <1>1 DEF Connect, CallInv, Domains, Points, Open, Live
  <2>5. OneCall'
    BY <1>1 DEF Connect, CallInv, Domains, Points, Open, Live, OneCall, Start, Transferred
  <2> QED
    BY <2>1, <2>2, <2>3, <2>4, <2>5 DEF CallInv
<1>2. CASE Send
  <2>1. Domains'
    <3>1. /\ stream' \in 0..Room
          /\ IF test = "send" THEN \E n \in Int : Timed(n) ELSE UNCHANGED <<i, stamps>>
      BY <1>2 DEF Send, Least, CallInv, Domains
    <3>2. i' \in 0..Iter
      BY <1>2, <3>1 DEF Send, Timed, MoreTimed, MoreToSend, CallInv, Domains, Points
    <3>3. stamps' \in [0..(Iter - 1) -> {"none", "whole", "short", "failed", "unread"}]
      BY <3>1 DEF Timed, Outcome, CallInv, Domains
    <3> QED
      BY <1>2, <3>1, <3>2, <3>3 DEF Send, CallInv, Domains
  <2>2. Pipes'
    BY <1>2 DEF Send, Timed, Outcome, MoreTimed, MoreToSend, Least, CallInv, Pipes,
         Points, Domains
  <2>3. Turns' /\ Points'
    BY <1>2 DEF Send, Timed, Outcome, MoreTimed, MoreToSend, Least, CallInv, Domains,
         Turns, Even, Points
  <2>4. Open'
    BY <1>2 DEF Send, Timed, Outcome, MoreTimed, MoreToSend, Least, CallInv, Domains,
         Points, Open, Live
  <2>5. OneCall'
    <3>1. UNCHANGED <<test, path, fd_server, link>> /\ test # "switch"
      BY <1>2 DEF Send, CallInv, Domains, Turns
    <3>2. CASE test = "send"
      <4>1. /\ j["parent"] \in Nat /\ j'["parent"] = j["parent"] + 1 /\ MoreTimed("parent")
        BY <1>2, <3>2 DEF Send, MoreToSend, CallInv, Domains
      <4>2. PICK n \in Int : Timed(n) /\ (link = "none" => n = 0)
        BY <1>2, <3>2 DEF Send, Least, CallInv, Domains, Open, Live
      <4> QED
        BY <3>1, <4>1, <4>2, TimedOnce DEF CallInv
    <3>3. CASE test = "recv"
      BY <1>2, <3>3 DEF Send, CallInv, Domains, OneCall, Start, Transferred
    <3> QED
      BY <3>1, <3>2, <3>3 DEF CallInv, Domains
  <2> QED
    BY <2>1, <2>2, <2>3, <2>4, <2>5 DEF CallInv
<1>3. CASE SendDone
  <2>1. Domains'
    BY <1>3 DEF SendDone, MoreTimed, MoreToSend, CallInv, Domains, PointsOf
  <2>2. Pipes'
    <3>1. pc[Client] = "send" /\ test # "switch"
      BY <1>3 DEF SendDone, CallInv, Domains, Turns
    <3>2. fds2 = 0
      BY <3>1 DEF CallInv, Domains, Pipes, Points
    <3> QED
      BY <1>3, <3>2 DEF SendDone, CallInv, Pipes
  <2>3. Turns' /\ Points'
    BY <1>3 DEF SendDone, MoreTimed, MoreToSend, CallInv, Domains, Turns, Even, Points
  <2>4. Open'
    BY <1>3 DEF SendDone, MoreTimed, MoreToSend, CallInv, Domains, Points, Open, Live
  <2>5. OneCall'
    BY <1>3 DEF SendDone, MoreTimed, MoreToSend, CallInv, Domains, Points, Open, Live,
         OneCall, Start, Transferred
  <2> QED
    BY <2>1, <2>2, <2>3, <2>4, <2>5 DEF CallInv
<1>4. CASE ClientAwait
  <2>1. Domains'
    BY <1>4 DEF ClientAwait, CallInv, Domains, PointsOf
  <2>2. Pipes'
    BY <1>4 DEF ClientAwait, CallInv, Pipes, Points, Domains
  <2>3. Turns' /\ Points'
    BY <1>4 DEF ClientAwait, CallInv, Domains, Turns, Even, Points
  <2>4. Open'
    BY <1>4 DEF ClientAwait, CallInv, Domains, Points, Open, Live
  <2>5. OneCall'
    BY <1>4 DEF ClientAwait, CallInv, Domains, Points, Open, Live, OneCall, Start, Transferred
  <2> QED
    BY <2>1, <2>2, <2>3, <2>4, <2>5 DEF CallInv
<1>5. CASE ClientLeave
  <2>1. Domains'
    BY <1>5 DEF ClientLeave, CallInv, Domains, PointsOf
  <2>2. Pipes'
    BY <1>5 DEF ClientLeave, CallInv, Pipes, Points, Domains
  <2>3. Turns' /\ Points'
    BY <1>5 DEF ClientLeave, CallInv, Domains, Turns, Even, Points
  <2>4. Open'
    BY <1>5 DEF ClientLeave, CallInv, Domains, Points, Open, Live
  <2>5. OneCall'
    BY <1>5 DEF ClientLeave, CallInv, Domains, Points, Open, Live, OneCall, Start, Transferred
  <2> QED
    BY <2>1, <2>2, <2>3, <2>4, <2>5 DEF CallInv
<1> QED
  BY <1>1, <1>2, <1>3, <1>4, <1>5 DEF Request

\* The two processes of context_switch_test.
LEMMA TurnStep ==
  ASSUME CallInv, Lead \/ Follow
  PROVE  CallInv'
<1> USE Sizes DEF Process, Go, sockets, Server, Client, Gone, Sent, Serving, Asking, Resting
<1>1. CASE Tune
  <2>1. Domains'
    BY <1>1 DEF Tune, CallInv, Domains, PointsOf, Turns
  <2>2. Pipes'
    BY <1>1 DEF Tune, CallInv, Pipes, Turns, Domains
  <2>3. Turns'
    BY <1>1 DEF Tune, CallInv, Domains, Turns, Even
  <2>4. Points' /\ Open'
    BY <1>1 DEF Tune, CallInv, Domains, Points, Open, Live
  <2>5. OneCall'
    BY <1>1 DEF Tune, CallInv, Domains, Points, Open, Live, OneCall, Start, Transferred
  <2> QED
    BY <2>1, <2>2, <2>3, <2>4, <2>5 DEF CallInv
<1>2. CASE TurnHere
  <2>1. Domains'
    BY <1>2 DEF TurnHere, CallInv, Domains, PointsOf, Turns
  <2>2. Pipes'
    BY <1>2 DEF TurnHere, CallInv, Pipes, Turns, Domains
  <2>3. Turns'
    BY <1>2 DEF TurnHere, CallInv, Domains, Turns, Even
  <2>4. Points' /\ Open'
    BY <1>2 DEF TurnHere, CallInv, Domains, Points, Open, Live
  <2>5. OneCall'
    BY <1>2 DEF TurnHere, CallInv, Domains, Points, Open, Live, OneCall, Start, Transferred
  <2> QED
    BY <2>1, <2>2, <2>3, <2>4, <2>5 DEF CallInv
<1>3. CASE TurnThere
  <2>1. Domains'
    BY <1>3 DEF TurnThere, CallInv, Domains, PointsOf, Turns
  <2>2. Pipes'
    <3>1. pc["parent"] = "turn" /\ test = "switch"
      BY <1>3 DEF TurnThere, CallInv, Domains, Points
    <3>2. fds1 = 0
      BY <3>1 DEF CallInv, Domains, Pipes, Turns
    <3> QED
      BY <1>3, <3>2 DEF TurnThere, CallInv, Pipes
  <2>3. Turns'
    BY <1>3 DEF TurnThere, CallInv, Domains, Turns, Even
  <2>4. Points' /\ Open'
    BY <1>3 DEF TurnThere, CallInv, Domains, Points, Open, Live
  <2>5. OneCall'
    BY <1>3 DEF TurnThere, CallInv, Domains, Points, Open, Live, OneCall, Start, Transferred
  <2> QED
    BY <2>1, <2>2, <2>3, <2>4, <2>5 DEF CallInv
<1>4. CASE Greet
  <2>1. Domains'
    BY <1>4 DEF Greet, CallInv, Domains, PointsOf, Turns
  <2>2. Pipes'
    <3>1. pc["child"] = "greet" /\ test = "switch"
      BY <1>4 DEF Greet, CallInv, Domains, Points
    <3>2. fds2 = 0
      BY <3>1 DEF CallInv, Domains, Pipes, Turns
    <3> QED
      BY <1>4, <3>2 DEF Greet, CallInv, Pipes
  <2>3. Turns'
    BY <1>4 DEF Greet, CallInv, Domains, Turns, Even
  <2>4. Points' /\ Open'
    BY <1>4 DEF Greet, CallInv, Domains, Points, Open, Live
  <2>5. OneCall'
    BY <1>4 DEF Greet, CallInv, Domains, Points, Open, Live, OneCall, Start, Transferred
  <2> QED
    BY <2>1, <2>2, <2>3, <2>4, <2>5 DEF CallInv
<1>5. CASE Answer
  <2>1. Domains'
    BY <1>5 DEF Answer, CallInv, Domains, PointsOf, Turns
  <2>2. Pipes'
    <3>1. pc["child"] = "wait_turn" /\ fds1 > 0 /\ test = "switch"
      BY <1>5 DEF Answer, CallInv, Domains, Points
    <3>2. fds2 = 0
      BY <3>1 DEF CallInv, Domains, Pipes, Turns
    <3> QED
      BY <1>5, <3>2 DEF Answer, CallInv, Pipes
  <2>3. Turns'
    BY <1>5 DEF Answer, CallInv, Domains, Turns, Even
  <2>4. Points' /\ Open'
    BY <1>5 DEF Answer, CallInv, Domains, Points, Open, Live
  <2>5. OneCall'
    BY <1>5 DEF Answer, CallInv, Domains, Points, Open, Live, OneCall, Start, Transferred
  <2> QED
    BY <2>1, <2>2, <2>3, <2>4, <2>5 DEF CallInv
<1>6. CASE AnswersDone
  <2>1. Domains'
    BY <1>6 DEF AnswersDone, CallInv, Domains, PointsOf, Turns
  <2>2. Pipes'
    BY <1>6 DEF AnswersDone, CallInv, Pipes, Turns, Domains
  <2>3. Turns'
    BY <1>6 DEF AnswersDone, CallInv, Domains, Turns, Even
  <2>4. Points' /\ Open'
    BY <1>6 DEF AnswersDone, CallInv, Domains, Points, Open, Live
  <2>5. OneCall'
    BY <1>6 DEF AnswersDone, CallInv, Domains, Points, Open, Live, OneCall, Start, Transferred
  <2> QED
    BY <2>1, <2>2, <2>3, <2>4, <2>5 DEF CallInv
<1> QED
  BY <1>1, <1>2, <1>3, <1>4, <1>5, <1>6 DEF Lead, Follow

\* The driver.
LEMMA DriveStep ==
  ASSUME CallInv, Drive \/ ForkFails
  PROVE  CallInv'
<1> USE Sizes DEF Process, Go, sockets, Server, Client, Gone, Sent, Serving, Asking, Resting
<1>1. CASE Fork
  <2>1. Domains'
    BY <1>1 DEF Fork, CallInv, Domains, PointsOf, Turns
  <2>2. Pipes'
    BY <1>1 DEF Fork, CallInv, Pipes, Turns, Domains
  <2>3. Turns'
    BY <1>1 DEF Fork, CallInv, Domains, Turns, Even
  <2>4. Points'
    BY <1>1 DEF Fork, CallInv, Domains, Points, Open
  <2>5. Open'
    BY <1>1 DEF Fork, CallInv, Domains, Points, Open, Live
  <2>6. OneCall'
    BY <1>1 DEF Fork, CallInv, Domains, Points, Open, Live, OneCall, Start, Transferred
  <2> QED
    BY <2>1, <2>2, <2>3, <2>4, <2>5, <2>6 DEF CallInv
<1>2. CASE EndTest
  <2>1. Domains'
    BY <1>2 DEF EndTest, CallInv, Domains, PointsOf, Turns
  <2>2. Pipes'
    BY <1>2 DEF EndTest, CallInv, Pipes, Turns, Domains
  <2>3. Turns'
    BY <1>2 DEF EndTest, CallInv, Domains, Turns, Even
  <2>4. Points'
    BY <1>2 DEF EndTest, CallInv, Domains, Points, Open
  <2>5. Open'
    BY <1>2 DEF EndTest, CallInv, Domains, Points, Open, Live
  <2>6. OneCall'
    BY <1>2 DEF EndTest, CallInv, Domains, Points, Open, Live, OneCall, Start, Transferred
  <2> QED
    BY <2>1, <2>2, <2>3, <2>4, <2>5, <2>6 DEF CallInv
<1>3. CASE Wait
  <2>1. Domains'
    BY <1>3 DEF Wait, CallInv, Domains, PointsOf, Turns
  <2>2. Pipes'
    BY <1>3 DEF Wait, CallInv, Pipes, Turns, Domains
  <2>3. Turns'
    BY <1>3 DEF Wait, CallInv, Domains, Turns, Even
  <2>4. Points'
    BY <1>3 DEF Wait, CallInv, Domains, Points, Open
  <2>5. Open'
    BY <1>3 DEF Wait, CallInv, Domains, Points, Open, Live
  <2>6. OneCall'
    BY <1>3 DEF Wait, CallInv, Domains, Points, Open, Live, OneCall, Start, Transferred
  <2> QED
    BY <2>1, <2>2, <2>3, <2>4, <2>5, <2>6 DEF CallInv
<1>4. CASE ForkFails
  <2>1. Domains'
    BY <1>4 DEF ForkFails, CallInv, Domains, PointsOf, Turns
  <2>2. Pipes'
    BY <1>4 DEF ForkFails, CallInv, Pipes, Turns, Domains
  <2>3. Turns'
    BY <1>4 DEF ForkFails, CallInv, Domains, Turns, Even
  <2>4. Points'
    BY <1>4 DEF ForkFails, CallInv, Domains, Points, Open
  <2>5. Open'
    BY <1>4 DEF ForkFails, CallInv, Domains, Points, Open, Live
  <2>6. OneCall'
    BY <1>4 DEF ForkFails, CallInv, Domains, Points, Open, Live, OneCall, Start, Transferred
  <2> QED
    BY <2>1, <2>2, <2>3, <2>4, <2>5, <2>6 DEF CallInv
<1> QED
  BY <1>1, <1>2, <1>3, <1>4 DEF Drive

LEMMA InvNext == CallInv /\ [Next]_vars => CallInv'
<1>1. ASSUME CallInv, UNCHANGED vars PROVE CallInv'
  BY <1>1 DEF vars, sockets, CallInv, Domains, Pipes, Turns, Even, Points, Open, Live,
       OneCall, Start, Transferred, Server, Client
<1> QED
  BY <1>1, ServeStep, RequestStep, TurnStep, DriveStep DEF Next
-------------------------------------------------------------------------------
\* k messages fit, and one more does while the call has not sent them all.
LEMMA Fits ==
  ASSUME Roomy, NEW k \in Nat
  PROVE  /\ k * MsgSize \in Nat /\ (k + 1) * MsgSize = k * MsgSize + MsgSize
         /\ k <= Limit => k * MsgSize + MsgSize <= Room
         /\ k > 0 => k * MsgSize >= MsgSize
<1>1. k * MsgSize \in Nat /\ (k + 1) * MsgSize = k * MsgSize + MsgSize
  BY Sizes
<1>2. ASSUME k <= Limit PROVE (k + 1) * MsgSize <= (Limit + 1) * MsgSize
  <2>1. (Limit - k) * MsgSize >= 0
    BY <1>2, Sizes
  <2> QED
    BY <2>1, <1>2, Sizes
<1>3. ASSUME k > 0 PROVE k * MsgSize >= MsgSize
  <2>1. (k - 1) * MsgSize >= 0
    BY <1>3, Sizes
  <2> QED
    BY <2>1, <1>3, Sizes
<1> QED
  BY <1>1, <1>2, <1>3, Sizes DEF Roomy

\* A message sent over a connection is whole, since nothing was received yet.
LEMMA SendWhole ==
  ASSUME CallInv, Roomy, Volume, Send, test # "switch"
  PROVE  /\ Volume'
         /\ test = "send" => Timed(IF Live THEN MsgSize ELSE 0)
<1>1. /\ pc[Client] = "send" /\ j[Client] \in Nat /\ j' = [j EXCEPT ![Client] = @ + 1]
      /\ UNCHANGED <<fd_client, test, link>> /\ stream \in 0..Room
  BY DEF CallInv, Domains, Send, Client, Process
<1>2. CASE ~Live
  BY <1>1, <1>2 DEF Send, Live, Volume
<1>3. CASE Live
  <2>1. InSocket = j[Client]
    <3>1. CASE test = "send"
      BY <3>1 DEF InSocket, Client
    <3>2. CASE test = "recv"
      <4>1. j["parent"] = 0
        BY <1>1, <3>2 DEF CallInv, Domains, Points, Client, Server
      <4> QED
        BY <1>1, <3>2, <4>1 DEF InSocket, Client
    <3> QED
      BY <3>1, <3>2 DEF CallInv, Domains
  <2>7. j[Client] <= Limit
    BY <1>1, Sizes DEF Send, MoreToSend, MoreTimed, Client
  <2>2. stream = j[Client] * MsgSize
    BY <1>3, <2>1 DEF Volume
  <2>3. /\ (j[Client] + 1) * MsgSize = stream + MsgSize /\ stream + MsgSize <= Room
    BY <1>1, <2>7, <2>2, Fits
  <2>4. Least(MsgSize, Room - stream) = MsgSize
    BY <1>1, <2>3, Sizes DEF Least
  <2>5. stream' = stream + MsgSize
    BY <1>3, <2>4 DEF Send, Live
  <2>6. InSocket' = j[Client] + 1
    BY <1>1, <2>1 DEF CallInv, Domains, Points, InSocket, Client, Process
  <2> QED
    BY <1>1, <1>3, <2>3, <2>4, <2>5, <2>6 DEF Send, Live, Volume
<1> QED
  BY <1>2, <1>3

\* A message received over an accepted connection is whole, since all were sent
\* before; without one nothing is received.
LEMMA ReceiveWhole ==
  ASSUME CallInv, Roomy, Volume, Receive, test # "switch"
  PROVE  /\ Volume' /\ test = "recv"
         /\ Timed(IF link = "accepted" THEN MsgSize ELSE 0)
<1>1. /\ test = "recv" /\ pc["parent"] = "receive" /\ j["parent"] \in Nat /\ j["child"] \in Nat
      /\ j' = [j EXCEPT !["parent"] = @ + 1] /\ UNCHANGED <<fd_client, test, link>>
      /\ j'["child"] = j["child"] /\ MoreTimed("parent") /\ stream \in 0..Room
  BY DEF CallInv, Domains, Points, Receive, Server, Process
<1>2. CASE link # "accepted"
  <2>1. stream' = stream
    BY <1>1, <1>2 DEF Receive
  <2> QED
    BY <1>1, <1>2, <2>1 DEF Receive, Volume, InSocket, Live
<1>3. CASE link = "accepted"
  <2>1. j["parent"] <= Limit /\ j["child"] = Limit + 1 /\ Live
    BY <1>1, <1>3, Sizes DEF MoreTimed, CallInv, Domains, Points, Open, Live, Server, Client,
         Serving, Asking, Sent, Gone
  <2>2. PICK k \in Nat : k = j["child"] - j["parent"] /\ k > 0 /\ k - 1 \in Nat
    BY <1>1, <2>1, Sizes
  <2>3. stream = k * MsgSize /\ k * MsgSize >= MsgSize /\ k * MsgSize \in Nat
    BY <1>1, <1>3, <2>1, <2>2, Fits DEF Volume, InSocket
  <2>4. Least(MsgSize, stream) = MsgSize
    BY <2>3, Sizes DEF Least
  <2>5. stream' = stream - MsgSize
    BY <1>1, <1>3, <2>4 DEF Receive
  <2>6. stream' = (k - 1) * MsgSize
    <3>1. ((k - 1) + 1) * MsgSize = (k - 1) * MsgSize + MsgSize /\ (k - 1) * MsgSize \in Nat
      BY <2>2, Fits
    <3> QED
      BY <2>2, <2>3, <2>5, <3>1, Sizes
  <2>7. InSocket' = k - 1
    <3>1. PICK q \in Nat : q = j'["parent"] /\ q = j["parent"] + 1 /\ j'["child"] = j["child"]
      BY <1>1 DEF CallInv, Domains, Process
    <3> QED
      BY <1>1, <1>3, <2>2, <3>1 DEF InSocket
  <2> QED
    BY <1>1, <1>3, <2>1, <2>4, <2>6, <2>7 DEF Receive, Live, Volume
<1> QED
  BY <1>2, <1>3

\* Whole or nothing is never short.
LEMMA TimedWhole ==
  ASSUME NoShort, NEW B \in BOOLEAN, Timed(IF B THEN MsgSize ELSE 0), Domains,
         UNCHANGED test
  PROVE  NoShort'
<1>1. Outcome(IF B THEN MsgSize ELSE 0) \in {"whole", "failed"}
  BY Sizes DEF Outcome
<1>2. CASE UNCHANGED stamps
  BY <1>2 DEF NoShort
<1>3. CASE stamps' = [stamps EXCEPT ![i] = Outcome(IF B THEN MsgSize ELSE 0)]
  BY <1>1, <1>3 DEF NoShort, Domains
<1> QED
  BY <1>2, <1>3 DEF Timed

\* A step that neither sends nor receives.
LEMMA QuietStep ==
  ASSUME CallInv, Volume, NoShort, test # "switch", [Next]_vars, ~Send, ~Receive
  PROVE  Volume' /\ NoShort'
<1> USE Sizes DEF Process, Go, sockets, Server, Client, Gone, Sent, Serving, Asking, Resting
<1>1. UNCHANGED <<test, stamps>>
  <2>1. CASE UNCHANGED vars
    BY <2>1 DEF vars
  <2>2. CASE Serve \/ Request \/ AcceptFails
    BY <2>2 DEF Serve, Request, Listen, Accept, ServerAwait, ReceiveDone, ServerTell, ServerLeave,
         Connect, SendDone, ClientAwait, ClientLeave, AcceptFails
  <2>3. CASE Lead \/ Follow
    BY <2>3 DEF Lead, Follow, Tune, TurnHere, TurnThere, Greet, Answer, AnswersDone
  <2>4. CASE Drive \/ ForkFails
    BY <2>4 DEF Drive, ForkFails, Fork, EndTest, Wait
  <2> QED
    BY <2>1, <2>2, <2>3, <2>4 DEF Next
<1>2. NoShort'
  BY <1>1 DEF NoShort
<1>3. CASE Connect
  <2>1. j["parent"] = 0 /\ j["child"] = 0 /\ stream = 0 /\ ~Live
    BY <1>3 DEF Connect, CallInv, Domains, Points, Open, Live
  <2> QED
    BY <1>1, <1>2, <1>3, <2>1 DEF Connect, Volume, InSocket
<1>4. CASE Accept
  <2>1. test = "recv" => j["parent"] = 0
    BY <1>4 DEF Accept, CallInv, Domains, Points
  <2>2. /\ UNCHANGED <<fd_client, stream, j>>
        /\ UNCHANGED link \/ (link = "pending" /\ link' = "accepted")
    BY <1>4 DEF Accept
  <2>3. InSocket' = InSocket
    BY <1>1, <2>1, <2>2 DEF InSocket, CallInv, Domains
  <2> QED
    BY <1>1, <1>2, <2>2, <2>3 DEF Volume, Live
<1>5. CASE ClientLeave
  BY <1>2, <1>5 DEF ClientLeave, Volume, Live
<1>6. CASE Fork
  <2>1. ~Live'
    BY <1>6 DEF Fork, CallInv, Domains, Points, Open, Live
  <2> QED
    BY <1>2, <2>1 DEF Volume
<1>7. CASE Wait
  <2>1. ~Live'
    BY <1>7 DEF Wait, CallInv, Domains, Points, Open, Live
  <2> QED
    BY <1>2, <2>1 DEF Volume
<1>8. ASSUME UNCHANGED <<fd_client, stream, link, j>> PROVE Volume'
  BY <1>1, <1>8 DEF Volume, InSocket, Live
<1>9. CASE UNCHANGED vars
  BY <1>2, <1>8, <1>9 DEF vars
<1>10. CASE Listen \/ ServerAwait \/ ReceiveDone \/ ServerTell \/ ServerLeave \/ AcceptFails
  BY <1>2, <1>8, <1>10 DEF Listen, ServerAwait, ReceiveDone, ServerTell, ServerLeave, AcceptFails
<1>11. CASE SendDone \/ ClientAwait \/ EndTest \/ ForkFails
  BY <1>2, <1>8, <1>11 DEF SendDone, ClientAwait, EndTest, ForkFails
<1>12. CASE Lead \/ Follow
  BY <1>12 DEF Lead, Follow, Tune, TurnHere, TurnThere, Greet, Answer, AnswersDone,
       CallInv, Domains, Points
<1> QED
  BY <1>3, <1>4, <1>5, <1>6, <1>7, <1>9, <1>10, <1>11, <1>12 DEF Next, Serve, Request, Drive

LEMMA RoomyNext ==
  ASSUME CallInv, Roomy, Volume, NoShort, [Next]_vars
  PROVE  Volume' /\ NoShort'
<1>1. CASE test = "switch"
  <2>1. test' = test
    BY DEF Next, Serve, Request, Lead, Follow, Drive, vars, Listen, Accept, ServerAwait, Receive,
         ReceiveDone, ServerTell, ServerLeave, Connect, Send, SendDone, ClientAwait, ClientLeave,
         Tune, TurnHere, TurnThere, Greet, Answer, AnswersDone, Fork, EndTest, Wait, ForkFails,
         AcceptFails
  <2> QED
    BY <1>1, <2>1 DEF Volume, NoShort
<1>2. CASE test # "switch" /\ Send
  <2>1. Volume' /\ (test = "send" => Timed(IF Live THEN MsgSize ELSE 0))
    BY <1>2, SendWhole
  <2>2. UNCHANGED test /\ (test # "send" => UNCHANGED stamps)
    BY <1>2 DEF Send
  <2>3. CASE test = "send"
    BY <2>1, <2>2, <2>3, TimedWhole DEF CallInv, Live
  <2>4. CASE test # "send"
    <3>1. UNCHANGED <<test, stamps>>
      BY <2>2, <2>4
    <3> QED
      BY <1>2, <2>1, <3>1 DEF NoShort
  <2> QED
    BY <2>1, <2>3, <2>4
<1>3. CASE test # "switch" /\ Receive
  <2>1. Volume' /\ Timed(IF link = "accepted" THEN MsgSize ELSE 0)
    BY <1>3, ReceiveWhole
  <2>2. UNCHANGED test
    BY <1>3 DEF Receive
  <2>3. NoShort'
    BY <2>1, <2>2, TimedWhole DEF CallInv
  <2> QED
    BY <2>1, <2>3
<1> QED
  BY <1>1, <1>2, <1>3, QuietStep

LEMMA RoomyInit == Init => Volume /\ NoShort
  BY Sizes DEF Init, Volume, Live, NoShort

\* The invariant, with the half of it that needs room in the socket.
THEOREM Invariant == Spec => []RoomyInv
<1>1. Init => RoomyInv
  BY InvInit, RoomyInit DEF RoomyInv
<1>2. RoomyInv /\ [Next]_vars => RoomyInv'
  BY InvNext, RoomyNext DEF RoomyInv, Roomy
<1> QED
  BY <1>1, <1>2, PTL DEF Spec

\* A fork that fails leaves four descriptors open.
Leaks == {4 * k : k \in 0..MaxLeaks}
HostTypes == test \in Tests /\ prio \in {"own", "tuned"} /\ leaks \in Leaks

LEMMA HostNext == CallInv /\ HostTypes /\ [Next]_vars => HostTypes'
<1> SUFFICES ASSUME HostTypes, [Next]_vars PROVE HostTypes'
  OBVIOUS
<1>1. CASE ForkFails
  <2>1. PICK k \in 0..MaxLeaks : leaks = 4 * k
    BY DEF HostTypes, Leaks
  <2>2. k + 1 \in 0..MaxLeaks /\ leaks' = 4 * (k + 1)
    BY <1>1, <2>1, OsPairsAssumption DEF ForkFails, OsPairsAssumption
  <2> QED
    BY <1>1, <2>2 DEF HostTypes, Leaks, ForkFails
<1>2. CASE Tune \/ Wait
  BY <1>2 DEF Tune, Wait, HostTypes
<1>3. ASSUME UNCHANGED <<test, prio, leaks>> PROVE HostTypes'
  BY <1>3 DEF HostTypes
<1>4. CASE Serve \/ Request \/ AcceptFails
  BY <1>3, <1>4 DEF Serve, Listen, Accept, ServerAwait, Receive, ReceiveDone, ServerTell,
       ServerLeave, Request, Connect, Send, SendDone, ClientAwait, ClientLeave, AcceptFails
<1>5. CASE TurnHere \/ TurnThere \/ Follow \/ Fork \/ EndTest \/ UNCHANGED vars
  BY <1>3, <1>5 DEF TurnHere, TurnThere, Follow, Greet, Answer, AnswersDone, Fork, EndTest, vars
<1> QED
  BY <1>1, <1>2, <1>4, <1>5 DEF Next, Lead, Drive

\* The types, for every choice of sizes and every number of failed forks.
THEOREM TypeCorrect == Spec => []OsPairsTypeOK
<1>1. Init => HostTypes
  BY OsPairsAssumption DEF Init, HostTypes, Leaks, OsPairsAssumption
<1>2. CallInv /\ HostTypes => OsPairsTypeOK
  <2> SUFFICES ASSUME CallInv, HostTypes PROVE OsPairsTypeOK
    OBVIOUS
  <2>1. leaks \in 0..(4 * MaxLeaks)
    BY OsPairsAssumption DEF HostTypes, Leaks, OsPairsAssumption
  <2> QED
    BY <2>1 DEF CallInv, Domains, Pipes, HostTypes, OsPairsTypeOK
<1>3. RoomyInv => CallInv
  BY DEF RoomyInv
<1> QED
  BY <1>1, <1>2, <1>3, HostNext, Invariant, PTL DEF Spec

\* TurnsAlternate holds in every reachable state: the byte under way says
\* whose turn it is (os_eval.cpp, l. 832-866).
THEOREM Alternation == Spec => []TurnsAlternate
<1>1. RoomyInv => TurnsAlternate
  <2> SUFFICES ASSUME CallInv, test = "switch" PROVE TurnsAlternate
    BY DEF RoomyInv, TurnsAlternate
  <2>1. fds1 + fds2 <= 1
    BY DEF CallInv, Domains, Pipes, Turns
  <2>2. j["parent"] = j["child"] \/ j["parent"] = j["child"] + 1
    BY DEF CallInv, Domains, Turns, Even
  <2>3. j["parent"] - j["child"] \in 0..1
    BY <2>2 DEF CallInv, Domains, Process
  <2>4. pc["parent"] = "wait_child" => j["child"] = Switches
    BY DEF CallInv, Turns
  <2> QED
    BY <2>1, <2>3, <2>4 DEF TurnsAlternate
<1> QED
  BY <1>1, Invariant, PTL

\* OneCallTransfers holds in every reachable state: a connection needs a path
\* that was free, and remove leaves it taken (os_eval.cpp, l. 936).
THEOREM OneCallOnly == Spec => []OneCallTransfers
<1>1. RoomyInv => OneCallTransfers
  BY DEF RoomyInv, CallInv, OneCall, Roomy, NoShort, OneCallTransfers
<1> QED
  BY <1>1, Invariant, PTL
===============================================================================
