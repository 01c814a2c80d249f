------------------------- MODULE BrokerStackProofs -------------------------
(***************************************************************************)
(* What holds of a connection to the broker for any number of connections: *)
(* its types, its wake-ups, that a closed descriptor is not found.  If S   *)
(* alone disconnects, no connection is forgotten and a TLS session is of   *)
(* the socket held; without TLS, a socket is closed once, and disconnect() *)
(* returns after the closing.                                              *)
(***************************************************************************)
EXTENDS BrokerStack, TLAPS

(* Where a step that ends with Goto() leaves the threads. *)
LEMMA GotoMoves ==
    ASSUME at \in [Thread -> Label], NEW t \in Thread, NEW l, Goto(t, l)
    PROVE  /\ at'[t] = l
           /\ \A u \in Thread \ {t} : at'[u] = at[u]
           /\ l \in Label => at' \in [Thread -> Label]
  BY DEF Goto

(* isValid() returns into its caller. *)
LEMMA AfterLabel ==
    ASSUME TypeOK, NEW t \in Thread, NEW v \in BOOLEAN, caller[t] # "recv"
    PROVE  After(t, v) \in Label \ {"valid", "valid_req", "clear_sslreq", "post", "signal"}
<1>1. caller[t] \in {"send", "connect", "tcp_connect", "poll"}
  BY DEF TypeOK
<1> QED
  BY <1>1 DEF After, IfValid, IfInvalid, Label

LEMMA TypeInit == Init => TypeOK
<1> SUFFICES ASSUME Init PROVE TypeOK
  OBVIOUS
<1>1. opened \in 0..MaxOpen
  BY MaxOpenNat DEF Init
<1>2. caller \in [Thread -> {"send", "connect", "tcp_connect", "poll", "recv"}]
  BY DEF Init
<1>3. \A t \in Thread : caller[t] # "recv"
  BY DEF Init
<1>4. at \in [Thread -> Label]
  BY DEF Init, Label
<1> QED
  BY <1>1, <1>2, <1>3, <1>4 DEF Init, TypeOK

(* What isValid() and disconnect() keep of the types. *)
LEMMA IsValidType ==
    ASSUME TypeOK, UNCHANGED config, NEW t \in Thread, isValid(t) PROVE TypeOK'
<1> USE DEF config, stack, system, local
<1>1. CASE caller[t] # "recv"
  <2>1. \A v \in BOOLEAN :
            After(t, v) \in Label \ {"valid", "valid_req", "clear_sslreq", "post", "signal"}
    BY <1>1, AfterLabel
  <2>2. CASE Valid(t)
    <3>1. at' \in [Thread -> Label]
      BY <2>1, <2>2, GotoMoves DEF Valid, TypeOK, Label
    <3> QED
      BY <1>1, <2>2, <3>1, GotoMoves DEF Valid, TypeOK, Label
  <2>3. CASE ValidReq(t)
    BY <1>1, <2>1, <2>3 DEF ValidReq, TypeOK, Goto, Label
  <2>4. CASE Shutdown(t)
    BY <1>1, <2>4 DEF Shutdown, TypeOK, Goto, Label
  <2>5. CASE CloseTest(t)
    BY <1>1, <2>5 DEF CloseTest, Closed, TypeOK, Goto, Label
  <2>6. CASE OsClose(t)
    BY <1>1, <2>6 DEF OsClose, TypeOK, Goto, Label
  <2>7. CASE ClearSock(t)
    BY <1>1, <2>7 DEF ClearSock, TypeOK, Goto, Label
  <2>8. CASE ClearReq(t)
    BY <1>1, <2>8 DEF ClearReq, Closed, TypeOK, Goto, Label
  <2>9. CASE ClearSslReq(t)
    BY <1>1, <2>1, <2>9 DEF ClearSslReq, TypeOK, Goto, Label
  <2>10. CASE Post(t)
    BY <1>1, <2>1, <2>10 DEF Post, TypeOK, Goto, Label
  <2>11. CASE Signal(t)
    <3>1. at' \in [Thread -> Label]
      BY <2>1, <2>11, GotoMoves DEF Signal, TypeOK
    <3>2. sem' \in Nat
      BY <2>11 DEF Signal, TypeOK
    <3>3. \A u \in Thread :
              at'[u] \in {"valid", "valid_req", "clear_sslreq", "post", "signal"} =>
                  at[u] \in {"valid", "valid_req", "clear_sslreq", "post", "signal"}
      BY <2>1, <2>11, GotoMoves DEF Signal, TypeOK
    <3> QED
      BY <2>11, <3>1, <3>2, <3>3 DEF Signal, TypeOK
  <2> QED
    BY <2>2, <2>3, <2>4, <2>5, <2>6, <2>7, <2>8, <2>9, <2>10, <2>11 DEF isValid
<1>2. CASE caller[t] = "recv"
  <2>1. secureFlg /\ at[t] \notin {"valid", "valid_req", "clear_sslreq", "post", "signal"}
    BY <1>2 DEF TypeOK
  <2>2. Closed(t) = "unlock"
    BY <1>2, <2>1 DEF Closed, Tls
  <2>3. CASE Shutdown(t)
    BY <2>3 DEF Shutdown, TypeOK, Goto, Label
  <2>4. CASE CloseTest(t)
    BY <2>2, <2>4 DEF CloseTest, TypeOK, Goto, Label
  <2>5. CASE OsClose(t)
    BY <2>5 DEF OsClose, TypeOK, Goto, Label
  <2>6. CASE ClearSock(t)
    BY <2>6 DEF ClearSock, TypeOK, Goto, Label
  <2>7. CASE ClearReq(t)
    BY <2>2, <2>7 DEF ClearReq, TypeOK, Goto, Label
  <2> QED
    BY <2>1, <2>3, <2>4, <2>5, <2>6, <2>7
    DEF isValid, Valid, ValidReq, ClearSslReq, Post, Signal
<1> QED
  BY <1>1, <1>2

LEMMA DisconnectType ==
    ASSUME TypeOK, UNCHANGED config, NEW t \in Thread, disconnect(t) PROVE TypeOK'
<1> USE DEF config, stack, system, local
<1>1. CASE Disconnect(t)
  BY <1>1 DEF Disconnect, TypeOK, Goto, Label
<1>2. CASE RequestSsl(t)
  BY <1>2 DEF RequestSsl, TypeOK, Goto, Label
<1>3. CASE TcpDisconnect(t)
  <2>1. asked' \in [Thread -> {None} \cup Socket]
    BY <1>3 DEF TcpDisconnect, TypeOK
  <2>2. bye' \in BOOLEAN
    BY <1>3 DEF TcpDisconnect, Returned, TypeOK
  <2>3. PICK l \in {"disconnect", "idle", "request"} : Goto(t, l)
    BY <1>3 DEF TcpDisconnect, Returned
  <2> QED
    BY <1>3, <2>1, <2>2, <2>3 DEF TcpDisconnect, TypeOK, Goto, Label
<1>4. CASE Request(t)
  BY <1>4 DEF Request, TypeOK, Goto, Label
<1>5. CASE Wait(t)
  <2>1. sem' \in Nat
    BY <1>5 DEF Wait, TypeOK
  <2>2. bye' \in BOOLEAN
    BY <1>5 DEF Wait, Returned, TypeOK
  <2>3. PICK l \in {"disconnect", "idle"} : Goto(t, l)
    BY <1>5 DEF Wait, Returned
  <2> QED
    BY <1>5, <2>1, <2>2, <2>3 DEF Wait, TypeOK, Goto, Label
<1> QED
  BY <1>1, <1>2, <1>3, <1>4, <1>5 DEF disconnect

(* Every step keeps the types. *)
LEMMA TypeStep == TypeOK /\ [Next]_vars => TypeOK'
<1> SUFFICES ASSUME TypeOK, [Next]_vars PROVE TypeOK'
  OBVIOUS
<1> USE DEF config, stack, system, local
<1> UNCHANGED config
  BY DEF Next, vars
<1>1. \A t \in Thread : isValid(t) \/ disconnect(t) => TypeOK'
  BY IsValidType, DisconnectType
<1>2. {"S", "B", "C"} \subseteq Thread
  BY DEF Thread
<1>3. ASSUME NEW t \in Thread, Crash(t) PROVE TypeOK'
  BY <1>3 DEF Crash, TypeOK, Label
<1>4. CASE Take
  BY <1>2, <1>4 DEF Take, TypeOK, Goto, Label
<1>5. CASE Send
  BY <1>5 DEF Send, TypeOK, Goto, Label
<1>6. CASE SendFails
  BY <1>6 DEF SendFails, TypeOK, Goto, Label
<1>7. CASE Connect
  BY <1>2, <1>7 DEF Connect, TypeOK, Goto, Label
<1>8. CASE Open
  <2>1. opened + 1 \in Socket /\ opened' \in 0..MaxOpen
    BY <1>8, MaxOpenNat DEF Open, TypeOK, Socket
  <2> QED
    BY <1>8, <2>1 DEF Open, TypeOK, Goto, Label
<1>9. CASE ConnectFails \/ OptionFails
  <2>1. CASE ConnectFails
    BY <2>1 DEF ConnectFails, TypeOK, Goto, Label
  <2>2. CASE OptionFails
    <3>1. opened + 1 \in Socket /\ opened' \in 0..MaxOpen
      BY <2>2, MaxOpenNat DEF OptionFails, TypeOK, Socket
    <3> QED
      BY <2>2, <3>1 DEF OptionFails, TypeOK, Goto, Label
  <2> QED
    BY <1>9, <2>1, <2>2
<1>10. CASE Handshake
  BY <1>10 DEF Handshake, TypeOK, Goto, Label
<1>11. CASE Poll
  BY <1>2, <1>11 DEF Poll, TypeOK, Goto, Label
<1>12. CASE Recv
  BY <1>12 DEF Recv, TypeOK, Goto, Label
<1>13. CASE RecvEnd
  BY <1>2, <1>13 DEF RecvEnd, TypeOK, Goto, Label
<1>14. CASE Unlock
  BY <1>14 DEF Unlock, TypeOK, Goto, Label
<1>15. CASE IllFormed
  BY <1>15 DEF IllFormed, TypeOK, Goto, Label
<1>16. CASE CheckTimeover
  BY <1>16 DEF CheckTimeover, TypeOK, Goto, Label
<1>17. CASE UNCHANGED vars
  BY <1>17 DEF vars, TypeOK
<1> QED
  BY <1>1, <1>2, <1>3, <1>4, <1>5, <1>6, <1>7, <1>8, <1>9, <1>10, <1>11, <1>12,
     <1>13, <1>14, <1>15, <1>16, <1>17
  DEF Next, BrokerSendTask, BrokerRecvTask, GatewayControlTask

(* Type correctness, for either kind of connection and any requesters. *)
THEOREM TypeCorrect == Spec => []TypeOK
  BY TypeInit, TypeStep, PTL DEF Spec

-----------------------------------------------------------------------------
(* The descriptor held is not that of a closed socket: nothing but closing *)
(* takes a socket away, and who closes clears the descriptor next.         *)
LEMMA SettledStep ==
    ASSUME TypeOK, Settled, [Next]_vars PROVE Settled'
<1> SUFFICES ASSUME ~secureFlg, ~secureFlg' PROVE Settled'
  BY DEF Settled, Next, vars, config
<1> USE DEF config, stack, system, local
<1>1. at \in [Thread -> Label]
  BY DEF TypeOK
<1>2. ASSUME UNCHANGED <<sockfd, open>>, NEW t \in Thread, at[t] # "clear_sock",
             NEW l, Goto(t, l)
      PROVE  Settled'
  <2>1. \A u \in Thread : at[u] = "clear_sock" => at'[u] = "clear_sock"
    BY <1>1, <1>2, GotoMoves
  <2> QED
    BY <1>2, <2>1 DEF Settled
<1>3. ASSUME NEW t \in Thread, isValid(t) PROVE Settled'
  <2>1. CASE OsClose(t)
    <3>1. at'[t] = "clear_sock"
      BY <1>1, <2>1, GotoMoves DEF OsClose
    <3> QED
      BY <3>1 DEF Settled
  <2>2. CASE ClearSock(t)
    BY <2>2 DEF ClearSock, Settled
  <2>3. CASE Valid(t) \/ ValidReq(t) \/ CloseTest(t) \/ Post(t)
    BY <1>2, <2>3 DEF Valid, ValidReq, CloseTest, Post
  <2>4. CASE Shutdown(t) \/ ClearReq(t) \/ ClearSslReq(t) \/ Signal(t)
    BY <1>2, <2>4 DEF Shutdown, ClearReq, ClearSslReq, Signal
  <2> QED
    BY <1>3, <2>1, <2>2, <2>3, <2>4 DEF isValid
<1>4. ASSUME NEW t \in Thread, disconnect(t) PROVE Settled'
  BY <1>2, <1>4
  DEF disconnect, Disconnect, RequestSsl, TcpDisconnect, Request, Wait, Returned
<1>5. "S" \in Thread /\ "B" \in Thread /\ "C" \in Thread
  BY DEF Thread
<1>6. CASE Open \/ OptionFails
  <2>1. CASE Open
    BY <2>1 DEF Open, Settled
  <2>2. CASE OptionFails
    <3>1. \A u \in Thread : at[u] = "clear_sock" => at'[u] = "clear_sock"
      BY <1>1, <1>5, <2>2, GotoMoves DEF OptionFails
    <3> QED
      BY <2>2, <3>1 DEF OptionFails, Settled
  <2> QED
    BY <1>6, <2>1, <2>2
<1>7. CASE Take \/ Send \/ SendFails \/ Connect \/ ConnectFails \/ Handshake
  BY <1>2, <1>5, <1>7 DEF Take, Send, SendFails, Connect, ConnectFails, Handshake
<1>8. CASE Poll \/ Recv \/ RecvEnd \/ Unlock \/ IllFormed \/ CheckTimeover
  BY <1>2, <1>5, <1>8 DEF Poll, Recv, RecvEnd, Unlock, IllFormed, CheckTimeover
<1>9. CASE UNCHANGED vars
  BY <1>9 DEF vars, Settled
<1> QED
  BY <1>3, <1>4, <1>5, <1>6, <1>7, <1>8, <1>9
  DEF Next, BrokerSendTask, BrokerRecvTask, GatewayControlTask, Crash

(* Without TLS, whoever disconnects: no thread finds the descriptor of a   *)
(* closed socket in TCPStack unless another thread is about to clear it.   *)
THEOREM SettledCorrect == Spec => []Settled
<1>1. Init => Settled
  BY DEF Init, Settled
<1>2. TypeOK /\ Settled /\ [Next]_vars => Settled'
  BY SettledStep
<1> QED
  BY <1>1, <1>2, TypeCorrect, PTL DEF Spec

-----------------------------------------------------------------------------
(* A signal is promised only at 0, and there are two threads to promise.   *)
LEMMA WakeUpsStep ==
    ASSUME TypeOK, WakeUpsBounded, [Next]_vars PROVE WakeUpsBounded'
<1> USE DEF config, stack, system, local, WakeUpsBounded
<1>1. at \in [Thread -> Label] /\ sem \in Nat
  BY DEF TypeOK
<1>2. "S" \in Thread /\ "B" \in Thread /\ "C" \in Thread
  BY DEF Thread
(* It is enough that neither sem nor who is to signal grows. *)
<1>3. ASSUME sem' \in Nat, sem' <= sem,
             \A u \in Thread : at'[u] = "signal" => at[u] = "signal"
      PROVE  WakeUpsBounded'
  <2> DEFINE Owed(u) == IF at[u] = "signal" THEN 1 ELSE 0
  <2>1. \A u \in Thread : Owed(u) \in {0, 1} /\ Owed(u)' \in {0, 1} /\ Owed(u)' <= Owed(u)
    BY <1>3
  <2>2. sem + Owed("S") + Owed("B") <= 2
    OBVIOUS
  <2>3. WakeUpsBounded' <=> sem' + Owed("S")' + Owed("B")' <= 2
    OBVIOUS
  <2> HIDE DEF Owed, WakeUpsBounded
  <2> QED
    BY <1>1, <1>2, <1>3, <2>1, <2>2, <2>3
<1>4. ASSUME sem' = sem, NEW t \in Thread, NEW l, l # "signal", Goto(t, l)
      PROVE  WakeUpsBounded'
  BY <1>1, <1>3, <1>4, GotoMoves
<1>5. ASSUME NEW t \in {"S", "B"}, isValid(t) PROVE WakeUpsBounded'
  <2>1. t \in Thread
    BY <1>2
  <2>2. CASE Post(t)
    <3>1. PICK l : Goto(t, l) /\ (l = "signal" => sem = 0)
      <4>1. CASE sem = 0
        BY <2>2, <4>1 DEF Post
      <4>2. CASE sem # 0
        <5>1. caller[t] # "recv"
          BY <2>1, <2>2 DEF Post, TypeOK
        <5>2. After(t, FALSE) # "signal"
          BY <2>1, <5>1, AfterLabel
        <5> QED
          BY <2>2, <4>2, <5>2 DEF Post
      <4> QED
        BY <4>1, <4>2
    <3>2. CASE l = "signal"
      BY <1>1, <2>2, <3>1, <3>2 DEF Post
    <3> QED
      BY <1>4, <2>1, <2>2, <3>1, <3>2 DEF Post
  <2>3. CASE Signal(t)
    <3>1. caller[t] # "recv"
      BY <2>1, <2>3 DEF Signal, TypeOK
    <3>2. After(t, FALSE) # "signal"
      BY <2>1, <3>1, AfterLabel
    <3>3. at[t] = "signal" /\ at'[t] # "signal"
      BY <1>1, <2>1, <2>3, <3>2, GotoMoves DEF Signal
    <3>4. \A u \in Thread \ {t} : at'[u] = at[u]
      BY <1>1, <2>1, <2>3, GotoMoves DEF Signal
    <3>5. sem' = sem + 1
      BY <2>3 DEF Signal
    <3> QED
      BY <1>1, <1>2, <3>3, <3>4, <3>5
  <2>4. CASE ClearSslReq(t)
    <3>1. After(t, FALSE) # "signal"
      BY <2>1, <2>4, AfterLabel DEF ClearSslReq, TypeOK
    <3> QED
      BY <1>4, <2>1, <2>4, <3>1 DEF ClearSslReq
  <2>5. CASE Valid(t) \/ ValidReq(t)
    <3>1. caller[t] # "recv"
      BY <2>1, <2>5 DEF Valid, ValidReq, TypeOK
    <3>2. \A v \in BOOLEAN : After(t, v) # "signal"
      BY <2>1, <3>1, AfterLabel
    <3> QED
      BY <1>4, <2>1, <2>5, <3>2 DEF Valid, ValidReq
  <2>6. CASE Shutdown(t) \/ CloseTest(t) \/ OsClose(t) \/ ClearSock(t) \/ ClearReq(t)
    BY <1>4, <2>1, <2>6 DEF Shutdown, CloseTest, Closed, OsClose, ClearSock, ClearReq
  <2> QED
    BY <1>5, <2>2, <2>3, <2>4, <2>5, <2>6 DEF isValid
<1>6. ASSUME NEW t \in Thread, disconnect(t) PROVE WakeUpsBounded'
  <2>1. CASE Wait(t)
    <3>1. sem' \in Nat /\ sem' <= sem
      BY <1>1, <2>1 DEF Wait
    <3>2. \A u \in Thread : at'[u] = "signal" => at[u] = "signal"
      BY <1>1, <2>1, GotoMoves DEF Wait, Returned
    <3> QED
      BY <1>3, <3>1, <3>2
  <2>2. CASE Disconnect(t) \/ RequestSsl(t) \/ TcpDisconnect(t) \/ Request(t)
    BY <1>4, <2>2 DEF Disconnect, RequestSsl, TcpDisconnect, Request, Returned
  <2> QED
    BY <1>6, <2>1, <2>2 DEF disconnect
<1>7. ASSUME NEW t \in Thread, Crash(t) PROVE WakeUpsBounded'
  <2>1. sem' = sem /\ \A u \in Thread : at'[u] # "signal"
    BY <1>7 DEF Crash
  <2> QED
    BY <1>1, <1>3, <2>1
<1>8. CASE Take \/ Send \/ SendFails \/ Connect \/ Open \/ OptionFails \/ ConnectFails \/ Handshake
  BY <1>2, <1>4, <1>8
  DEF Take, Send, SendFails, Connect, Open, OptionFails, ConnectFails, Handshake
<1>9. CASE Poll \/ Recv \/ RecvEnd \/ Unlock \/ IllFormed \/ CheckTimeover
  BY <1>2, <1>4, <1>9 DEF Poll, Recv, RecvEnd, Unlock, IllFormed, CheckTimeover
<1>10. CASE UNCHANGED vars
  BY <1>1, <1>3, <1>10 DEF vars
<1> QED
  BY <1>2, <1>5, <1>6, <1>7, <1>8, <1>9, <1>10
  DEF Next, BrokerSendTask, BrokerRecvTask, GatewayControlTask

(* For either kind of connection, any requesters and however the test and  *)
(* the signal of Semaphore::post() interleave: at most two wake-ups.       *)
THEOREM WakeUpsCorrect == Spec => []WakeUpsBounded
<1>1. Init => WakeUpsBounded
  BY DEF Init, WakeUpsBounded, Thread
<1>2. TypeOK /\ WakeUpsBounded /\ [Next]_vars => WakeUpsBounded'
  BY WakeUpsStep
<1> QED
  BY <1>1, <1>2, TypeCorrect, PTL DEF Spec

-----------------------------------------------------------------------------
(* A socket that connect() left open is never the one held, nor one that   *)
(* disconnect() finds: sockets are numbered as they are opened.            *)
Apart ==
    /\ stray \subseteq 1..opened
    /\ sockfd \in (0..opened) \ stray
    /\ \A t \in Thread : asked[t] \in (0..opened) \ stray

LEMMA ApartStep == ASSUME TypeOK, Apart, [Next]_vars PROVE Apart'
<1> USE DEF config, stack, system, local
<1>1. opened \in Nat /\ asked \in [Thread -> {None} \cup Socket]
  BY MaxOpenNat DEF TypeOK
<1>2. CASE UNCHANGED <<opened, stray>> /\ asked' = asked /\ sockfd' \in {sockfd, None}
  BY <1>1, <1>2 DEF Apart, None
<1>3. ASSUME NEW t \in Thread, isValid(t) PROVE Apart'
  <2>1. UNCHANGED <<opened, stray>> /\ asked' = asked /\ sockfd' \in {sockfd, None}
    BY <1>3 DEF isValid, Valid, ValidReq, Shutdown, CloseTest, OsClose, ClearSock,
                ClearReq, ClearSslReq, Post, Signal
  <2> QED BY <1>2, <2>1
<1>4. ASSUME NEW t \in Thread, disconnect(t) PROVE Apart'
  <2>1. CASE TcpDisconnect(t)
    <3>1. UNCHANGED <<opened, stray, sockfd>>
      BY <2>1 DEF TcpDisconnect
    <3>2. \A u \in Thread : asked'[u] \in {asked[u], sockfd}
      BY <1>1, <2>1 DEF TcpDisconnect
    <3> QED BY <3>1, <3>2 DEF Apart
  <2>2. CASE Disconnect(t) \/ RequestSsl(t) \/ Request(t) \/ Wait(t)
    BY <1>2, <2>2 DEF Disconnect, RequestSsl, Request, Wait
  <2> QED BY <1>4, <2>1, <2>2 DEF disconnect
<1>5. CASE Open \/ OptionFails
  <2>1. opened' = opened + 1 /\ asked' = asked
    BY <1>5 DEF Open, OptionFails
  <2>2. \/ stray' = stray /\ sockfd' = opened + 1
        \/ stray' = stray \cup {opened + 1} /\ sockfd' = sockfd
    BY <1>5 DEF Open, OptionFails
  <2>3. 0..opened \subseteq 0..opened' /\ 1..opened \subseteq 1..opened'
    BY <1>1, <2>1
  <2>4. opened + 1 \in 1..opened' /\ opened + 1 \in 0..opened' /\ opened + 1 \notin 0..opened
    BY <1>1, <2>1
  <2>5. opened + 1 \notin stray
    BY <1>1, <2>4 DEF Apart
  <2>6. stray' \subseteq 1..opened'
    BY <2>2, <2>3, <2>4 DEF Apart
  <2>7. \A x \in (0..opened) \ stray : x \in (0..opened') \ stray'
    BY <2>2, <2>3, <2>4
  <2>8. sockfd' \in (0..opened') \ stray'
    BY <2>2, <2>4, <2>5, <2>7 DEF Apart
  <2> QED BY <2>1, <2>6, <2>7, <2>8 DEF Apart
<1>6. CASE Take \/ Send \/ SendFails \/ Connect \/ ConnectFails \/ Handshake
  BY <1>2, <1>6 DEF Take, Send, SendFails, Connect, ConnectFails, Handshake
<1>7. CASE Poll \/ Recv \/ RecvEnd \/ Unlock \/ IllFormed \/ CheckTimeover
  BY <1>2, <1>7 DEF Poll, Recv, RecvEnd, Unlock, IllFormed, CheckTimeover
<1>8. CASE UNCHANGED vars
  BY <1>2, <1>8 DEF vars
<1>9. ASSUME NEW t \in Thread, Crash(t) PROVE Apart'
  BY <1>2, <1>9 DEF Crash
<1>10. "S" \in Thread /\ "B" \in Thread /\ "C" \in Thread
  BY DEF Thread
<1> QED
  BY <1>3, <1>4, <1>5, <1>6, <1>7, <1>8, <1>9, <1>10
  DEF Next, BrokerSendTask, BrokerRecvTask, GatewayControlTask

THEOREM ApartCorrect == Spec => []Apart
<1>1. Init => Apart
  BY DEF Init, Apart, None
<1>2. TypeOK /\ Apart /\ [Next]_vars => Apart'
  BY ApartStep
<1> QED
  BY <1>1, <1>2, TypeCorrect, PTL DEF Spec

-----------------------------------------------------------------------------
(* What S does while the connection is its own, *)
LEMMA HandoverSend ==
    ASSUME Alone, Alone', TypeOK, Apart, Handover, BrokerSendTask PROVE Handover'
<1> USE DEF config, stack, system, local, Handover, Places, Closing, Posting, RequestPending,
            ClosesAsked, WakesClosed, WakesOnce, StillThere, StillGone, OpenIsHeld
<1>1. ~secureFlg /\ at \in [Thread -> Label] /\ "S" \in Thread /\ "B" \in Thread /\ "C" \in Thread
  BY DEF Alone, OnlyS, TypeOK, Thread
<1>2. ASSUME NEW l, Goto("S", l)
      PROVE  at'["S"] = l /\ at'["B"] = at["B"] /\ at'["C"] = at["C"]
  BY <1>1, <1>2, GotoMoves
<1>3. CASE Valid("S")
  <2>1. CASE sockfd # None
    BY <1>1, <1>2, <1>3, <2>1 DEF Valid, Tls
  <2>2. CASE sockfd = None
    <3>1. After("S", FALSE) \in {"connect", "tcp_connect", "open"}
      BY DEF After, IfInvalid
    <3> QED
      BY <1>1, <1>2, <1>3, <2>2, <3>1 DEF Valid, Tls
  <2> QED
    BY <2>1, <2>2
<1>4. CASE ValidReq("S")
  <2>1. After("S", TRUE) \in {"send", "disconnect"}
    BY DEF After, IfValid
  <2> QED
    BY <1>1, <1>2, <1>4, <2>1 DEF ValidReq, Tls
<1>5. CASE disconnect("S")
  <2>1. CASE Disconnect("S") \/ RequestSsl("S")
    BY <1>2, <2>1 DEF Disconnect, RequestSsl
  <2>2. CASE TcpDisconnect("S")
    BY <1>2, <2>2 DEF TcpDisconnect, Returned
  <2>3. CASE Request("S")
    <3>1. at["B"] \notin Closing \cup Posting /\ ~(sem > 0)
      BY <2>3 DEF Request
    <3>2. sem = 0
      BY <3>1 DEF TypeOK
    <3> QED
      BY <1>2, <2>3, <3>1, <3>2 DEF Request
  <2>4. CASE Wait("S")
    <3>1. sem > 0 /\ sockfd = None /\ ~disconReq
      BY <2>4 DEF Wait
    <3>2. at["B"] \notin Closing \cup Posting
      BY <3>1
    <3>3. at'["S"] \in {"idle", "disconnect"} /\ at'["B"] = at["B"] /\ at'["C"] = at["C"]
      BY <1>2, <2>4 DEF Wait, Returned
    <3>4. sem' = 0
      BY <2>4, <3>1 DEF Wait
    <3>5. UNCHANGED <<sockfd, disconReq, open, stray, caller>>
      BY <2>4 DEF Wait
    <3> QED
      BY <3>1, <3>2, <3>3, <3>4, <3>5
  <2> QED
    BY <1>5, <2>1, <2>2, <2>3, <2>4 DEF disconnect
<1>6. CASE Take \/ Connect
  BY <1>1, <1>2, <1>6 DEF Take, Connect, TypeOK
<1>7. CASE Send \/ SendFails \/ ConnectFails
  BY <1>2, <1>7 DEF Send, SendFails, ConnectFails
<1>8. CASE Open
  <2>1. opened + 1 # None
    BY <1>8 DEF TypeOK, None
  <2>2. sockfd = None /\ open = stray /\ ~disconReq /\ at["B"] \notin Closing \cup Posting
    BY <1>8 DEF Open
  <2>3. at'["S"] = "send" /\ at'["B"] = at["B"] /\ at'["C"] = at["C"]
    BY <1>1, <1>2, <1>8 DEF Open
  <2>4. /\ sockfd' = opened + 1 /\ open' = stray' \cup {opened + 1}
        /\ UNCHANGED <<disconReq, sem, caller>>
    BY <1>8, <2>2 DEF Open
  <2> QED
    BY <1>8, <2>1, <2>2, <2>3, <2>4 DEF Open
<1>9. CASE OptionFails
  <2>1. sockfd = None /\ open = stray /\ ~disconReq /\ at["B"] \notin Closing \cup Posting
    BY <1>9 DEF OptionFails
  <2>2. at'["S"] = "disconnect" /\ at'["B"] = at["B"] /\ at'["C"] = at["C"]
    BY <1>1, <1>2, <1>9 DEF OptionFails
  <2>3. open' = stray' /\ UNCHANGED <<sockfd, disconReq, sem, caller>>
    BY <1>9, <2>1 DEF OptionFails
  <2>4. OpenIsHeld'
    BY <2>1, <2>3
  <2>5. at["S"] = "open"
    BY <1>9 DEF OptionFails
  <2> QED
    BY <2>1, <2>2, <2>3, <2>4, <2>5
<1> QED
  BY <1>1, <1>3, <1>4, <1>5, <1>6, <1>7, <1>8, <1>9
  DEF BrokerSendTask, isValid, Shutdown, CloseTest, OsClose, ClearSock, ClearReq,
      ClearSslReq, Post, Signal, Handshake, Crash

(* and what B does, which closes only while S waits. *)
LEMMA HandoverRecv ==
    ASSUME Alone, Alone', TypeOK, Apart, Handover, BrokerRecvTask PROVE Handover'
<1> USE DEF config, stack, system, local, Handover, Places, Closing, Posting, RequestPending,
            ClosesAsked, WakesClosed, WakesOnce, StillThere, StillGone, OpenIsHeld
<1>1. ~secureFlg /\ at \in [Thread -> Label] /\ "S" \in Thread /\ "B" \in Thread /\ "C" \in Thread
  BY DEF Alone, OnlyS, TypeOK, Thread
<1>2. ASSUME NEW l, Goto("B", l)
      PROVE  at'["B"] = l /\ at'["S"] = at["S"] /\ at'["C"] = at["C"]
  BY <1>1, <1>2, GotoMoves
<1>3. ASSUME at["B"] # "idle"
      PROVE  After("B", FALSE) = "idle" /\ After("B", TRUE) = "recv"
  BY <1>3 DEF After, IfValid, IfInvalid
<1>4. CASE Valid("B") \/ ValidReq("B")
  <2>1. PICK l \in {"idle", "recv", "valid_req", "close"} :
            /\ Goto("B", l)
            /\ l = "close" => disconReq
    BY <1>1, <1>3, <1>4 DEF Valid, ValidReq, Tls
  <2>2. at'["B"] = l /\ at'["S"] = at["S"] /\ at'["C"] = at["C"]
    BY <1>2, <2>1
  <2>3. at["B"] \in {"valid", "valid_req"} /\ UNCHANGED <<stack, system, local>>
    BY <1>4 DEF Valid, ValidReq
  <2> QED
    BY <2>1, <2>2, <2>3
<1>5. CASE CloseTest("B")
  BY <1>1, <1>2, <1>5 DEF CloseTest
<1>6. CASE OsClose("B")
  <2>1. sockfd \notin stray
    BY DEF Apart
  <2> QED
    BY <1>1, <1>2, <1>6, <2>1 DEF OsClose
<1>7. CASE ClearSock("B")
  BY <1>1, <1>2, <1>7 DEF ClearSock
<1>8. CASE ClearReq("B")
  BY <1>1, <1>2, <1>8 DEF ClearReq, Closed, Tls
<1>9. CASE Post("B")
  BY <1>1, <1>2, <1>3, <1>9 DEF Post
<1>10. CASE Signal("B")
  <2>1. sem' = 1 /\ sockfd = None /\ at["S"] = "wait" /\ ~disconReq
    BY <1>10 DEF Signal
  <2>2. at'["B"] = "idle" /\ at'["S"] = at["S"] /\ at'["C"] = at["C"]
    BY <1>2, <1>3, <1>10 DEF Signal
  <2> QED
    BY <1>10, <2>1, <2>2 DEF Signal
<1>11. CASE Poll
  BY <1>1, <1>2, <1>11 DEF Poll, TypeOK
<1>12. CASE Recv
  BY <1>2, <1>12 DEF Recv
<1> QED
  BY <1>1, <1>4, <1>5, <1>6, <1>7, <1>8, <1>9, <1>10, <1>11, <1>12
  DEF BrokerRecvTask, isValid, Shutdown, ClearSslReq, disconnect, Disconnect,
      RequestSsl, TcpDisconnect, Request, Wait, RecvEnd, Unlock, IllFormed, Crash, Alone, OnlyS

LEMMA HandoverStep ==
    ASSUME TypeOK, Apart, Handover, [Next]_vars PROVE Handover'
<1> SUFFICES ASSUME Alone, Alone' PROVE Handover'
  BY DEF Handover, Next, vars, config, Alone, OnlyS
<1>1. CASE GatewayControlTask
  BY <1>1 DEF Alone, OnlyS, Handover, Places, GatewayControlTask, CheckTimeover, disconnect,
              Disconnect, RequestSsl, TcpDisconnect, Request, Wait
<1>2. CASE UNCHANGED vars
  BY <1>2 DEF vars, stack, system, local, Handover, Places, RequestPending, ClosesAsked,
              WakesClosed, WakesOnce, StillThere, StillGone, OpenIsHeld
<1> QED
  BY <1>1, <1>2, HandoverSend, HandoverRecv DEF Next

(* The inductive invariant: the connection passes from S to B with the     *)
(* request and back with the wake-up.                                      *)
THEOREM HandoverCorrect == Spec => []Handover
<1>1. Init => Handover
  BY DEF Init, Handover, Places, Closing, Posting, RequestPending, ClosesAsked,
         WakesClosed, WakesOnce, StillThere, StillGone, OpenIsHeld, Thread
<1>2. TypeOK /\ Apart /\ Handover /\ [Next]_vars => Handover'
  BY HandoverStep
<1> QED
  BY <1>1, <1>2, TypeCorrect, ApartCorrect, PTL DEF Spec

(* No socket is closed twice. *)
THEOREM ClosedOnceCorrect == Spec => []ClosedOnce
<1>1. Handover => ClosedOnce
  <2> SUFFICES ASSUME Handover, Alone, NEW t \in Thread, at[t] = "os_close"
               PROVE  sockfd \in open
    BY DEF ClosedOnce
  <2>1. at["B"] = "os_close"
    BY DEF Handover, Places, Closing, Posting, Thread
  <2>2. disconReq
    BY <2>1 DEF Handover, ClosesAsked, Closing
  <2>3. sockfd # None
    BY <2>1, <2>2 DEF Handover, StillThere
  <2> QED
    BY <2>1, <2>3 DEF Handover, OpenIsHeld
<1> QED
  BY <1>1, HandoverCorrect, PTL

(* disconnect() returns when the connection that it found is closed. *)
THEOREM ReturnsClosedCorrect == Spec => ReturnsClosed
<1> DEFINE Returns == \A t \in Thread : Alone /\ at[t] = "wait" /\ at'[t] # "wait" => asked[t] \notin open
<1>1. TypeOK /\ Apart /\ Handover /\ [Next]_vars => [Returns]_vars
  <2> SUFFICES ASSUME TypeOK, Apart, Handover, Next, NEW t \in Thread, Alone,
                      at[t] = "wait", at'[t] # "wait"
               PROVE  asked[t] \notin open
    OBVIOUS
  <2>1. t = "S"
    BY DEF Handover, Places, Closing, Posting, Thread
  <2>2. sem > 0 => open = stray
    BY DEF Handover, WakesClosed, OpenIsHeld
  <2>3. ~GatewayControlTask
    BY DEF Alone, OnlyS, Handover, Places, GatewayControlTask, CheckTimeover, disconnect,
           Disconnect, RequestSsl, TcpDisconnect, Request, Wait
  <2>4. ~BrokerRecvTask
    <3> SUFFICES ASSUME BrokerRecvTask PROVE FALSE
      OBVIOUS
    <3>1. isValid("B") => \E l : Goto("B", l)
      BY DEF isValid, Valid, ValidReq, Shutdown, CloseTest, OsClose, ClearSock, ClearReq,
             ClearSslReq, Post, Signal
    <3>2. disconnect("B") => \E l : Goto("B", l)
      BY DEF disconnect, Disconnect, RequestSsl, TcpDisconnect, Request, Wait, Returned
    <3>3. PICK l : Goto("B", l)
      BY <3>1, <3>2 DEF BrokerRecvTask, Poll, Recv, RecvEnd, Unlock, IllFormed, Crash, Alone, OnlyS
    <3> QED
      BY <2>1, <3>3, GotoMoves DEF TypeOK, Thread
  <2>5. Wait("S")
    <3>1. BrokerSendTask /\ at["S"] = "wait"
      BY <2>1, <2>3, <2>4 DEF Next
    <3> QED
      BY <3>1 DEF BrokerSendTask, Take, Send, SendFails, Connect, Open, OptionFails,
                  ConnectFails, Handshake, Crash, isValid, Valid, ValidReq, Shutdown, CloseTest, OsClose,
                  ClearSock, ClearReq, ClearSslReq, Post, Signal, disconnect, Disconnect,
                  RequestSsl, TcpDisconnect, Request
  <2> QED
    BY <2>2, <2>5 DEF Wait, Apart
<1> QED
  BY <1>1, HandoverCorrect, ApartCorrect, TypeCorrect, PTL DEF Spec, ReturnsClosed

-----------------------------------------------------------------------------
(* The inductive invariant of a connection with TLS that S alone           *)
(* disconnects: whoever ends the session has the socket for itself until   *)
(* it has cleared the descriptor, and S connects when there is no session. *)
TlsClosing == {"close", "os_close", "clear_sock"}
TlsClosed == {"clear_req", "clear_sslreq"}

TlsPlaces ==
    /\ at["C"] \in {"idle", "crashed"}
    /\ at["B"] \in {"idle", "valid", "valid_req", "shutdown", "recv", "unlock", "crashed"}
                     \cup TlsClosing \cup TlsClosed
    /\ at["B"] \notin {"idle", "crashed"} => caller["B"] \in {"poll", "recv"}
    /\ at["S"] \notin {"post", "signal", "recv", "unlock"}
    /\ caller["S"] \in {"send", "connect", "tcp_connect"}
    /\ at["S"] \in {"shutdown"} \cup TlsClosing \cup TlsClosed => caller["S"] = "send"
    /\ at["S"] = "valid_req" => caller["S"] # "connect"

(* Nobody posts the semaphore, so who asked waits. *)
NoWakeUp == sem = 0 /\ (disconReq => at["S"] \in {"wait", "crashed"})

Connecting ==
    \/ at["S"] \in {"connect", "tcp_connect", "open", "handshake"} \cup TlsClosing \cup TlsClosed
    \/ at["S"] \in {"valid", "valid_req"} /\ caller["S"] # "send"

NoSession == Connecting => ssl = None

OneCloses ==
    /\ at["B"] \in TlsClosing =>
          /\ ssl = None /\ sockfd # None
          /\ at["S"] \notin {"open", "handshake"} \cup TlsClosing
    /\ at["S"] \in TlsClosing => sockfd # None

TlsOpenHeld ==
    /\ open \subseteq {sockfd} \cup stray
    /\ at["S"] = "open" => sockfd = None
    /\ at["S"] = "clear_sock" \/ at["B"] = "clear_sock" => sockfd \notin open

Exclusive ==
    OnlyS /\ secureFlg =>
        /\ TlsPlaces /\ NoWakeUp /\ NoSession /\ ssl \in {None, sockfd}
        /\ OneCloses /\ TlsOpenHeld

(* What S does: *)
LEMMA ExclusiveSend ==
    ASSUME OnlyS, secureFlg, OnlyS', secureFlg', TypeOK, Exclusive, BrokerSendTask
    PROVE  Exclusive'
<1> USE DEF config, stack, system, local, Exclusive, TlsPlaces, NoWakeUp, Connecting,
            NoSession, OneCloses, TlsOpenHeld, TlsClosing, TlsClosed
<1>1. at \in [Thread -> Label] /\ "S" \in Thread /\ "B" \in Thread /\ "C" \in Thread
  BY DEF TypeOK, Thread
<1>2. ASSUME NEW l, Goto("S", l)
      PROVE  at'["S"] = l /\ at'["B"] = at["B"] /\ at'["C"] = at["C"]
  BY <1>1, <1>2, GotoMoves
<1>3. Tls("S") <=> caller["S"] # "tcp_connect"
  BY DEF Tls
<1>4. CASE Valid("S")
  <2>1. at["S"] = "valid" /\ UNCHANGED <<stack, system, local>>
    BY <1>4 DEF Valid
  <2>2. CASE caller["S"] = "send"
    <3>1. After("S", FALSE) = "connect"
      BY <2>2 DEF After, IfInvalid
    <3>2. Goto("S", IF ssl # None THEN "valid_req" ELSE "connect")
      BY <1>3, <1>4, <2>2, <3>1 DEF Valid
    <3>3. at'["S"] = (IF ssl # None THEN "valid_req" ELSE "connect")
          /\ at'["B"] = at["B"] /\ at'["C"] = at["C"]
      BY <1>2, <3>2
    <3> QED BY <2>1, <2>2, <3>3
  <2>3. CASE caller["S"] = "connect"
    <3>1. After("S", FALSE) = "tcp_connect"
      BY <2>3 DEF After, IfInvalid
    <3>2. ssl = None
      BY <2>1, <2>3
    <3>3. Goto("S", "tcp_connect")
      BY <1>3, <1>4, <2>3, <3>1, <3>2 DEF Valid
    <3>4. at'["S"] = "tcp_connect" /\ at'["B"] = at["B"] /\ at'["C"] = at["C"]
      BY <1>2, <3>3
    <3> QED BY <2>1, <2>3, <3>2, <3>4
  <2>4. CASE caller["S"] = "tcp_connect"
    <3>1. After("S", FALSE) = "open"
      BY <2>4 DEF After, IfInvalid
    <3>2. Goto("S", IF sockfd # None THEN "valid_req" ELSE "open")
      BY <1>3, <1>4, <2>4, <3>1 DEF Valid
    <3>3. at'["S"] = (IF sockfd # None THEN "valid_req" ELSE "open")
          /\ at'["B"] = at["B"] /\ at'["C"] = at["C"]
      BY <1>2, <3>2
    <3>4. ssl = None
      BY <2>1, <2>4
    <3> QED BY <2>1, <2>4, <3>3, <3>4
  <2> QED BY <2>2, <2>3, <2>4
<1>5. CASE ValidReq("S")
  <2>1. at["S"] = "valid_req" /\ UNCHANGED <<stack, system, local>>
    BY <1>5 DEF ValidReq
  <2>2. CASE caller["S"] = "send"
    <3>1. After("S", TRUE) = "send"
      BY <2>2 DEF After, IfValid
    <3>2. Goto("S", IF sslReq THEN "shutdown" ELSE "send")
      BY <1>3, <1>5, <2>2, <3>1 DEF ValidReq
    <3>3. at'["S"] \in {"shutdown", "send"} /\ at'["B"] = at["B"] /\ at'["C"] = at["C"]
      BY <1>2, <3>2
    <3> QED BY <2>1, <2>2, <3>3
  <2>3. CASE caller["S"] = "tcp_connect"
    <3>1. After("S", TRUE) = "disconnect"
      BY <2>3 DEF After, IfValid
    <3>2. ~disconReq
      BY <2>1
    <3>3. Goto("S", "disconnect")
      BY <1>3, <1>5, <2>3, <3>1, <3>2 DEF ValidReq
    <3>4. at'["S"] = "disconnect" /\ at'["B"] = at["B"] /\ at'["C"] = at["C"]
      BY <1>2, <3>3
    <3> QED BY <2>1, <2>3, <3>4
  <2> QED BY <2>1, <2>2, <2>3
<1>6. CASE Shutdown("S")
  BY <1>2, <1>6 DEF Shutdown
<1>7. CASE CloseTest("S")
  BY <1>2, <1>7 DEF CloseTest
<1>8. CASE OsClose("S")
  BY <1>2, <1>8 DEF OsClose
<1>9. CASE ClearSock("S")
  BY <1>2, <1>9 DEF ClearSock
<1>10. CASE ClearReq("S")
  BY <1>2, <1>3, <1>10 DEF ClearReq, Closed
<1>11. CASE ClearSslReq("S")
  <2>1. After("S", FALSE) = "connect"
    BY <1>11 DEF ClearSslReq, After, IfInvalid
  <2> QED BY <1>2, <1>11, <2>1 DEF ClearSslReq
<1>12. CASE disconnect("S")
  <2>1. CASE Disconnect("S") \/ RequestSsl("S")
    BY <1>2, <2>1 DEF Disconnect, RequestSsl
  <2>2. CASE TcpDisconnect("S")
    BY <1>2, <2>2 DEF TcpDisconnect, Returned
  <2>3. CASE Request("S")
    BY <1>2, <2>3 DEF Request
  <2> QED BY <1>12, <2>1, <2>2, <2>3 DEF disconnect, Wait
<1>13. CASE Take
  BY <1>1, <1>2, <1>13 DEF Take, TypeOK
<1>14. CASE Connect
  BY <1>1, <1>2, <1>14 DEF Connect, TypeOK
<1>15. CASE Send \/ SendFails \/ ConnectFails
  BY <1>2, <1>15 DEF Send, SendFails, ConnectFails
<1>16. CASE Open
  <2>1. open \subseteq stray /\ at["B"] \notin TlsClosing
    BY <1>16 DEF Open, TypeOK, Socket, None
  <2> QED BY <1>2, <1>16, <2>1 DEF Open
<1>17. CASE Handshake
  BY <1>2, <1>17 DEF Handshake
<1>18. CASE Crash("S")
  <2>1. at'["S"] = "crashed" /\ at'["B"] = "crashed" /\ at'["C"] = "crashed"
    BY <1>1, <1>18 DEF Crash
  <2> QED BY <1>18, <2>1 DEF Crash
<1>19. CASE OptionFails
  <2>1. sockfd = None /\ opened + 1 # None /\ at["B"] \notin TlsClosing
    BY <1>19 DEF OptionFails, TypeOK, None
  <2> QED BY <1>2, <1>19, <2>1 DEF OptionFails
<1> QED
  BY <1>4, <1>5, <1>6, <1>7, <1>8, <1>9, <1>10, <1>11, <1>12, <1>13, <1>14, <1>15,
     <1>16, <1>17, <1>18, <1>19
  DEF BrokerSendTask, isValid, Post, Signal

(* and what B does. *)
LEMMA ExclusiveRecv ==
    ASSUME OnlyS, secureFlg, OnlyS', secureFlg', TypeOK, Exclusive, BrokerRecvTask
    PROVE  Exclusive'
<1> USE DEF config, stack, system, local, Exclusive, TlsPlaces, NoWakeUp, Connecting,
            NoSession, OneCloses, TlsOpenHeld, TlsClosing, TlsClosed
<1>1. at \in [Thread -> Label] /\ "S" \in Thread /\ "B" \in Thread /\ "C" \in Thread
  BY DEF TypeOK, Thread
<1>2. ASSUME NEW l, Goto("B", l)
      PROVE  at'["B"] = l /\ at'["S"] = at["S"] /\ at'["C"] = at["C"]
  BY <1>1, <1>2, GotoMoves
<1>3. at["B"] \notin {"idle", "crashed"} => Tls("B")
  BY DEF Tls
<1>4. at["B"] \in {"valid", "valid_req", "clear_sslreq"} =>
          After("B", FALSE) = "idle" /\ After("B", TRUE) = "recv"
  <2>1. at["B"] \in {"valid", "valid_req", "clear_sslreq"} => caller["B"] = "poll"
    BY <1>1 DEF TypeOK
  <2> QED BY <2>1 DEF After, IfValid, IfInvalid
<1>5. CASE Valid("B") \/ ValidReq("B")
  <2>1. PICK l \in {"idle", "recv", "valid_req", "shutdown"} : Goto("B", l)
    BY <1>3, <1>4, <1>5 DEF Valid, ValidReq
  <2>2. UNCHANGED <<stack, system, local>> /\ at["B"] \notin {"idle", "crashed"}
    BY <1>5 DEF Valid, ValidReq
  <2> QED BY <1>2, <2>1, <2>2
<1>6. CASE Shutdown("B")
  BY <1>2, <1>6 DEF Shutdown
<1>7. CASE CloseTest("B")
  BY <1>2, <1>7 DEF CloseTest
<1>8. CASE OsClose("B")
  BY <1>2, <1>8 DEF OsClose
<1>9. CASE ClearSock("B")
  BY <1>2, <1>9 DEF ClearSock
<1>10. CASE ClearReq("B")
  BY <1>2, <1>3, <1>10 DEF ClearReq, Closed
<1>11. CASE ClearSslReq("B")
  BY <1>2, <1>4, <1>11 DEF ClearSslReq
<1>12. CASE Poll
  BY <1>1, <1>2, <1>12 DEF Poll, TypeOK
<1>13. CASE Recv \/ Unlock
  BY <1>2, <1>13 DEF Recv, Unlock
<1>14. CASE RecvEnd
  BY <1>1, <1>2, <1>14 DEF RecvEnd, TypeOK
<1>15. CASE Crash("B")
  <2>1. at'["S"] = "crashed" /\ at'["B"] = "crashed" /\ at'["C"] = "crashed"
    BY <1>1, <1>15 DEF Crash
  <2> QED BY <1>15, <2>1 DEF Crash
<1> QED
  BY <1>5, <1>6, <1>7, <1>8, <1>9, <1>10, <1>11, <1>12, <1>13, <1>14, <1>15
  DEF BrokerRecvTask, isValid, Post, Signal, disconnect, Disconnect, RequestSsl,
      TcpDisconnect, Request, Wait, IllFormed, OnlyS

LEMMA ExclusiveStep ==
    ASSUME TypeOK, Exclusive, [Next]_vars PROVE Exclusive'
<1> SUFFICES ASSUME OnlyS, secureFlg, OnlyS', secureFlg' PROVE Exclusive'
  BY DEF Exclusive, Next, vars, config, OnlyS
<1>1. CASE GatewayControlTask
  BY <1>1 DEF OnlyS, Exclusive, TlsPlaces, GatewayControlTask, CheckTimeover, disconnect,
              Disconnect, RequestSsl, TcpDisconnect, Request, Wait
<1>2. CASE UNCHANGED vars
  BY <1>2 DEF vars, config, stack, system, local, Exclusive, TlsPlaces, NoWakeUp, Connecting,
              NoSession, OneCloses, TlsOpenHeld
<1> QED
  BY <1>1, <1>2, ExclusiveSend, ExclusiveRecv DEF Next

THEOREM ExclusiveCorrect == Spec => []Exclusive
<1>1. Init => Exclusive
  BY DEF Init, Exclusive, TlsPlaces, NoWakeUp, Connecting, NoSession, OneCloses,
         TlsOpenHeld, TlsClosing, TlsClosed, Thread
<1>2. TypeOK /\ Exclusive /\ [Next]_vars => Exclusive'
  BY ExclusiveStep
<1> QED
  BY <1>1, <1>2, TypeCorrect, PTL DEF Spec

(* Without TLS there is no session. *)
Plain == ~secureFlg => ssl = None /\ at["S"] # "handshake"

LEMMA PlainStep ==
    ASSUME TypeOK, Plain, [Next]_vars PROVE Plain'
<1> SUFFICES ASSUME ~secureFlg, ~secureFlg' PROVE Plain'
  BY DEF Plain, Next, vars, config
<1> USE DEF config, stack, system, local, Plain
<1>1. at \in [Thread -> Label] /\ "S" \in Thread /\ "B" \in Thread /\ "C" \in Thread
  BY DEF TypeOK, Thread
<1>2. ASSUME NEW t \in Thread, NEW l, Goto(t, l), l # "handshake", ssl' = ssl
      PROVE  Plain'
  BY <1>1, <1>2, GotoMoves
<1>3. ASSUME NEW t \in Thread, isValid(t) PROVE Plain'
  <2>1. caller[t] \in {"send", "connect", "tcp_connect", "poll"}
    BY DEF TypeOK
  <2>2. After(t, TRUE) # "handshake" /\ After(t, FALSE) # "handshake"
    BY <2>1 DEF After, IfValid, IfInvalid
  <2>3. ~Shutdown(t)
    BY DEF Shutdown
  <2>4. ssl' = ssl
    BY <1>3, <2>3
    DEF isValid, Valid, ValidReq, CloseTest, OsClose, ClearSock, ClearReq,
        ClearSslReq, Post, Signal
  <2>5. at'[t] # "handshake" /\ \A u \in Thread \ {t} : at'[u] = at[u]
    <3>1. CASE Valid(t) \/ ValidReq(t)
      <4>1. Goto(t, "valid_req") \/ Goto(t, "close") \/ Goto(t, After(t, FALSE))
            \/ Goto(t, After(t, TRUE))
        <5>1. ~Tls(t)
          BY DEF Tls
        <5>2. CASE Valid(t)
          BY <5>1, <5>2 DEF Valid, Goto
        <5>3. CASE ValidReq(t)
          BY <5>1, <5>3 DEF ValidReq, Goto
        <5> QED BY <3>1, <5>2, <5>3
      <4> QED BY <1>1, <2>2, <4>1 DEF Goto
    <3>2. CASE CloseTest(t) \/ OsClose(t) \/ ClearSock(t) \/ ClearReq(t)
      BY <1>1, <3>2, GotoMoves DEF CloseTest, OsClose, ClearSock, ClearReq, Closed
    <3>3. CASE ClearSslReq(t) \/ Post(t) \/ Signal(t)
      <4>1. Goto(t, "signal") \/ Goto(t, After(t, FALSE))
        BY <3>3 DEF ClearSslReq, Post, Signal, Goto
      <4> QED BY <1>1, <2>2, <4>1 DEF Goto
    <3> QED BY <1>3, <2>3, <3>1, <3>2, <3>3 DEF isValid
  <2> QED BY <1>1, <2>4, <2>5
<1>4. ASSUME NEW t \in Thread, disconnect(t) PROVE Plain'
  BY <1>2, <1>4
  DEF disconnect, Disconnect, RequestSsl, TcpDisconnect, Request, Wait, Returned
<1>5. CASE Take \/ Send \/ SendFails \/ Connect \/ Open \/ OptionFails \/ ConnectFails
  BY <1>1, <1>2, <1>5 DEF Take, Send, SendFails, Connect, Open, OptionFails, ConnectFails
<1>6. CASE Poll \/ Recv \/ IllFormed \/ Unlock \/ CheckTimeover
  BY <1>1, <1>2, <1>6 DEF Poll, Recv, IllFormed, Unlock, CheckTimeover
<1>7. CASE UNCHANGED vars
  BY <1>7 DEF vars
<1> QED
  BY <1>1, <1>3, <1>4, <1>5, <1>6, <1>7
  DEF Next, BrokerSendTask, BrokerRecvTask, GatewayControlTask, Handshake, RecvEnd, Crash

(* A TLS session is that of the socket held, although B may end it while S *)
(* connects.                                                               *)
THEOREM SessionOnSocketCorrect == Spec => []SessionOnSocket
<1>1. Init => Plain
  BY DEF Init, Plain, Thread
<1>2. TypeOK /\ Plain /\ [Next]_vars => Plain'
  BY PlainStep
<1>3. Plain /\ Exclusive => SessionOnSocket
  BY DEF Plain, Exclusive, SessionOnSocket
<1> QED
  BY <1>1, <1>2, <1>3, TypeCorrect, ExclusiveCorrect, PTL DEF Spec

(* With TLS or without, no socket that was connected is forgotten open;    *)
(* those forgotten are the ones whose setsockopt() failed.                 *)
THEOREM NoLeakCorrect == Spec => []NoLeak
<1>1. Handover /\ Exclusive => NoLeak
  BY DEF Handover, OpenIsHeld, Exclusive, TlsOpenHeld, NoLeak, Alone
<1> QED
  BY <1>1, HandoverCorrect, ExclusiveCorrect, PTL
=============================================================================
