------------------------ MODULE GatewayConnectProofs ------------------------
(***************************************************************************)
(* What holds of GatewayConnect for any set of inputs and return codes,    *)
(* any bounds, and either kind of network, client and broker: the types,   *)
(* and that each event queued has its message (EventsPaired).  IndInv is   *)
(* inductive.  Its parts are proved one by one: in each lemma <1>1 says    *)
(* that what leaves the part's variables alone keeps it, and there is a    *)
(* step for each action that does not.  From it follow, by invariants of   *)
(* their own, AcceptedByBroker (AcceptInv) and WillForwarded (WillInv).    *)
(* With a patient client (Prompt) there is one message of it at a time to  *)
(* be handled (Turn), and each dialogue can be followed from its CONNECT   *)
(* to its CONNACK: from that follow ConnectValid (ValidInv), as long as    *)
(* connections hold, and ActiveHasSession (SessionInv), under the premises *)
(* named Faithful.                                                         *)
(***************************************************************************)
EXTENDS GatewayConnect, FiniteSetTheorems, TLAPS

-----------------------------------------------------------------------------
(* The places of an element in a queue are finitely many; an Append adds   *)
(* one, a Tail takes one away.                                             *)
LEMMA Places ==
    ASSUME NEW S, NEW q \in Seq(S), NEW e
    PROVE  /\ IsFiniteSet({i \in DOMAIN q : q[i] = e})
           /\ Count(q, e) \in Nat
<1>1. IsFiniteSet(1..Len(q))
  BY FS_Interval
<1>2. {i \in DOMAIN q : q[i] = e} \subseteq 1..Len(q)
  OBVIOUS
<1> QED
  BY <1>1, <1>2, FS_Subset, FS_CardinalityType DEF Count

(* An empty queue has none. *)
LEMMA CountEmpty == ASSUME NEW e PROVE Count(<< >>, e) = 0
BY FS_EmptySet DEF Count

(* Append adds one if it is the element, *)
LEMMA CountAppend ==
    ASSUME NEW S, NEW q \in Seq(S), NEW x \in S, NEW e
    PROVE  Count(Append(q, x), e) = Count(q, e) + One(x = e)
<1> DEFINE P == {i \in DOMAIN q : q[i] = e}
           n == Len(q) + 1
<1>1. IsFiniteSet(P) /\ Cardinality(P) \in Nat
  BY Places DEF Count
<1>2. n \notin P
  OBVIOUS
<1>3. {i \in DOMAIN Append(q, x) : Append(q, x)[i] = e}
         = IF x = e THEN P \cup {n} ELSE P
  OBVIOUS
<1>4. Cardinality(P \cup {n}) = Cardinality(P) + 1
  BY <1>1, <1>2, FS_AddElement
<1>5. Count(q, e) = Cardinality(P)
  BY DEF Count
<1>6. Count(Append(q, x), e)
         = IF x = e THEN Cardinality(P) + 1 ELSE Cardinality(P)
  BY <1>3, <1>4 DEF Count
<1> HIDE DEF P
<1> QED
  BY <1>1, <1>5, <1>6 DEF One

(* and Tail takes one away if it was the front. *)
LEMMA CountTail ==
    ASSUME NEW S, NEW q \in Seq(S), q # << >>, NEW e
    PROVE  Count(q, e) = Count(Tail(q), e) + One(Head(q) = e)
<1> DEFINE P == {i \in DOMAIN q : q[i] = e}
           T == {i \in DOMAIN Tail(q) : Tail(q)[i] = e}
           up == [i \in T |-> i + 1]
<1>1. IsFiniteSet(P) /\ IsFiniteSet(T) /\ Cardinality(P) \in Nat
  <2>1. Tail(q) \in Seq(S)
    OBVIOUS
  <2> QED
    BY <2>1, Places DEF Count
<1>2. up \in Bijection(T, P \ {1})
  <2>1. \A i \in T : i + 1 \in P \ {1}
    OBVIOUS
  <2>2. \A j \in P \ {1} : j - 1 \in T /\ (j - 1) + 1 = j
    OBVIOUS
  <2>3. \A i, k \in T : i + 1 = k + 1 => i = k
    OBVIOUS
  <2>4. up \in Injection(T, P \ {1})
    BY <2>1, <2>3 DEF Injection, IsInjective
  <2>5. up \in Surjection(T, P \ {1})
    BY <2>1, <2>2 DEF Surjection
  <2> QED
    BY <2>4, <2>5 DEF Bijection
<1>3. Cardinality(P \ {1}) = Cardinality(T)
  <2>1. ExistsBijection(T, P \ {1})
    BY <1>2 DEF ExistsBijection
  <2> HIDE DEF P, T
  <2> QED
    BY <1>1, <2>1, FS_Bijection
<1>4. 1 \in P <=> Head(q) = e
  OBVIOUS
<1>5. 1 \in P => Cardinality(P \ {1}) = Cardinality(P) - 1
  BY <1>1, FS_RemoveElement
<1>6. 1 \notin P => P \ {1} = P
  OBVIOUS
<1>7. Count(q, e) = Cardinality(P) /\ Count(Tail(q), e) = Cardinality(T)
  BY DEF Count
<1> DEFINE k == Cardinality(P)
<1>8. k \in Nat /\ Count(q, e) = k
  BY <1>1, <1>7
<1>9. Count(Tail(q), e) = IF Head(q) = e THEN k - 1 ELSE k
  BY <1>3, <1>4, <1>5, <1>6, <1>7
<1> HIDE DEF k
<1> QED
  BY <1>8, <1>9 DEF One

(* The front of a queue occurs in it. *)
LEMMA Positive ==
    ASSUME NEW S, NEW q \in Seq(S), NEW e, q # << >>, Head(q) = e
    PROVE  Count(q, e) > 0
<1>1. Count(Tail(q), e) \in Nat
  <2>1. Tail(q) \in Seq(S)
    OBVIOUS
  <2> QED
    BY <2>1, Places
<1> QED
  BY <1>1, CountTail DEF One

-----------------------------------------------------------------------------
(* The messages that clientRecv may hold. *)
KnownMsg == {m \in ClientMsg : m.type # "SEARCHGW"}

(* What EventsPaired means to whoever takes an event: the queue that it    *)
(* reads the front of is not empty, and the front is of the type that is   *)
(* looked for.                                                             *)
Ready ==
    /\ c.at \in AtClient => clientRecv # << >> /\ ClientMessage \in KnownMsg
    /\ c.at \in AtBroker => brokerRecv # << >> /\ BrokerMessage \in BrokerPacket
    /\ c.at = "CONNACK" => BrokerMessage.code \in Code
    /\ c.at = "PUBLISH" => BrokerMessage.qos1 \in BOOLEAN
    /\ c.at \in {"CONNECT", "connect"} => ClientMessage.will \in BOOLEAN
    /\ c.at = "flushing" => sleepQue # << >>
    /\ s.at # "idle" => brokerSend # << >> /\ SMessage \in ToBroker
    /\ gwQue # << >> /\ Head(gwQue) = "brokerRecv" =>
            brokerRecv # << >> /\ Head(brokerRecv) \in BrokerPacket
    /\ csQue # << >> /\ Head(csQue) = "unicast" =>
            clientSend # << >> /\ Head(clientSend) \in ToClient
    /\ bsQue # << >> => brokerSend # << >> /\ SMessage \in ToBroker

(* The invariant says so. *)
LEMMA IsReady ==
    ASSUME TypeOK, EventsPaired, NoSearchGw, HandlerFits
    PROVE  Ready
<1>1. /\ Count(gwQue, "clientRecv") \in Nat
      /\ Count(gwQue, "brokerRecv") \in Nat
      /\ Count(csQue, "unicast") \in Nat
  BY Places DEF TypeOK, TypeEvents
<1>2. ASSUME c.at \in AtClient
      PROVE  clientRecv # << >> /\ ClientMessage \in KnownMsg
  <2>1. Len(clientRecv) > 0
    BY <1>1, <1>2
    DEF EventsPaired, ClientRecvPaired, BrokerRecvPaired, BrokerSendPaired,
        ClientSendPaired, One
  <2>2. clientRecv \in Seq(ClientMsg) /\ clientRecv # << >>
    BY <2>1 DEF TypeOK, TypeMessages
  <2>3. 1 \in DOMAIN clientRecv /\ ClientMessage = clientRecv[1]
    BY <2>2 DEF ClientMessage
  <2> QED
    BY <2>2, <2>3 DEF KnownMsg, NoSearchGw, HandlerFits
<1>3. ASSUME c.at \in AtBroker
      PROVE  brokerRecv # << >> /\ BrokerMessage \in BrokerPacket
  <2>1. Len(brokerRecv) > 0
    BY <1>1, <1>3
    DEF EventsPaired, ClientRecvPaired, BrokerRecvPaired, BrokerSendPaired,
        ClientSendPaired, One
  <2> QED
    BY <2>1 DEF TypeOK, TypeMessages, BrokerMessage
<1>4. c.at = "CONNACK" => BrokerMessage.code \in Code
  BY <1>3 DEF NoSearchGw, HandlerFits, BrokerPacket, AtBroker
<1>5. c.at = "PUBLISH" => BrokerMessage.qos1 \in BOOLEAN
  BY <1>3 DEF NoSearchGw, HandlerFits, BrokerPacket, AtBroker
<1>6. c.at \in {"CONNECT", "connect"} => ClientMessage.will \in BOOLEAN
  BY <1>2 DEF NoSearchGw, HandlerFits, KnownMsg, ClientMsg, AtClient
<1>7. /\ bsQue # << >> => Len(bsQue) > 0
      /\ Len(brokerSend) > 0 => brokerSend # << >> /\ SMessage \in ToBroker
  BY DEF TypeOK, TypeEvents, TypeMessages, SMessage
<1>8. s.at # "idle" \/ Len(bsQue) > 0 => Len(brokerSend) > 0
  <2> DEFINE n == Len(bsQue)
             l == Len(brokerSend)
  <2>1. n \in Nat
    BY DEF TypeOK, TypeEvents
  <2>2. l = n + One(s.at # "idle") + One(c.at \in {"post_broker", "post_both"})
    BY DEF EventsPaired, BrokerSendPaired
  <2> HIDE DEF n, l
  <2>3. s.at # "idle" \/ n > 0 => l > 0
    BY <2>1, <2>2 DEF One
  <2> QED
    BY <2>3 DEF n, l
<1>9. ASSUME gwQue # << >>, Head(gwQue) = "brokerRecv"
      PROVE  brokerRecv # << >> /\ Head(brokerRecv) \in BrokerPacket
  <2>1. Count(gwQue, "brokerRecv") > 0
    BY <1>9, Positive DEF TypeOK, TypeEvents
  <2>2. Len(brokerRecv) > 0
    BY <1>1, <2>1
    DEF EventsPaired, ClientRecvPaired, BrokerRecvPaired, BrokerSendPaired,
        ClientSendPaired, One
  <2> QED
    BY <2>2 DEF TypeOK, TypeMessages
<1>10. ASSUME csQue # << >>, Head(csQue) = "unicast"
      PROVE  clientSend # << >> /\ Head(clientSend) \in ToClient
  <2>1. Count(csQue, "unicast") > 0
    BY <1>10, Positive DEF TypeOK, TypeEvents
  <2>2. Len(clientSend) > 0
    BY <1>1, <2>1
    DEF EventsPaired, ClientRecvPaired, BrokerRecvPaired, BrokerSendPaired,
        ClientSendPaired, One
  <2> QED
    BY <2>2 DEF TypeOK, TypeMessages
<1> QED
  BY <1>2, <1>3, <1>4, <1>5, <1>6, <1>7, <1>8, <1>9, <1>10
  DEF Ready, HandlerFits

-----------------------------------------------------------------------------
(* The flow of control of C: where each of its actions begins and ends. *)
LEMMA Flow ==
    ASSUME TypeThreads, Ready
    PROVE  /\ Timeout => c.at = "idle" /\ c'.at = "timeover"
           /\ Timeover => c.at = "timeover" /\ c'.at = "disconnect_stack"
           /\ TimerRuns => c.at = "timeover" /\ c'.at = "idle"
           /\ TimeoverDisconnect => c.at = "disconnect_stack" /\ c'.at = "idle"
           /\ TakeClientRecv => c.at = "idle" /\ c'.at = "update"
           /\ UpdateStatus =>
                 c.at = "update" /\
                 c'.at \in {"CONNECT", "DISCONNECT", "PINGREQ", "WILLTOPIC",
                            "WILLMSG"}
           /\ SnConnect => c.at = "CONNECT" /\ c'.at = "connect"
           /\ SnConnectWill => c.at = "connect" /\ c'.at = "post_client"
           /\ SnConnectForward =>
                 c.at = "connect" /\ c'.at \in {"connectQued", "done"}
           /\ ConnectQued =>
                 c.at \in {"connectQued", "will_connectQued"} /\
                 c'.at \in {"push", "will_push"}
           /\ SnConnectPush => c.at = "push" /\ c'.at = "post_broker"
           /\ SnWillTopic => c.at = "WILLTOPIC" /\ c'.at = "post_client"
           /\ SnWillMsg => c.at = "WILLMSG" /\ c'.at = "will_connectQued"
           /\ SnWillMsgQued => c.at = "will_push" /\ c'.at = "will_forward"
           /\ SnWillMsgForward =>
                 c.at = "will_forward" /\ c'.at = "post_broker"
           /\ SnWillMsgReject => c.at = "WILLMSG" /\ c'.at = "post_client"
           /\ SnWillMsgSaved => c.at = "WILLMSG" /\ c'.at = "will_connack"
           /\ SnWillMsgWait =>
                 c.at = "WILLMSG" /\ c'.at \in {"will_connack", "done"}
           /\ SnWillMsgConnack =>
                 c.at = "will_connack" /\ c'.at = "post_client"
           /\ SnPingReq => c.at = "PINGREQ" /\ c'.at = "post_broker"
           /\ SnDisconnect => c.at = "DISCONNECT" /\ c'.at = "post_both"
           /\ PostBroker => c.at = "post_broker" /\ c'.at = "done"
           /\ Done => c.at = "done" /\ c'.at = "idle"
           /\ TakeBrokerRecv =>
                 c.at = "idle" /\ c'.at \in {"CONNACK", "PINGRESP", "PUBLISH"}
           /\ Connack => c.at = "CONNACK" /\ c'.at \in {"connack", "flush"}
           /\ ConnackForward => c.at = "connack" /\ c'.at = "connack_post"
           /\ ConnackPost => c.at = "connack_post" /\ c'.at = "flush"
           /\ Flush => c.at = "flush" /\ c'.at \in {"flushing", "broker_done"}
           /\ FlushOne =>
                 c.at = "flushing" /\ c'.at \in {"flushing", "broker_done"}
           /\ Pingresp => c.at = "PINGRESP" /\ c'.at = "broker_done"
           /\ PublishAsleep => c.at = "PUBLISH" /\ c'.at = "broker_done"
           /\ PublishAwake => c.at = "PUBLISH" /\ c'.at = "publish"
           /\ PublishForward => c.at = "publish" /\ c'.at = "broker_done"
           /\ BrokerDone => c.at = "broker_done" /\ c'.at = "idle"
<1>1. ASSUME NEW at, CGoto(at) PROVE c'.at = at
  BY <1>1 DEF CGoto, TypeThreads
<1>2. c.at = "update" => ClientMessage.type \in
            {"CONNECT", "DISCONNECT", "PINGREQ", "WILLTOPIC", "WILLMSG"}
  BY DEF Ready, AtClient, KnownMsg, ClientMsg
<1>3. gwQue # << >> /\ Head(gwQue) = "brokerRecv" =>
          Head(brokerRecv).type \in {"CONNACK", "PINGRESP", "PUBLISH"}
  BY DEF Ready, BrokerPacket
<1> QED
  BY <1>1, <1>2, <1>3
  DEF Timeout, Timeover, TimerRuns, TimeoverDisconnect, TakeClientRecv,
      UpdateStatus, SnConnect, SnConnectWill, SnConnectForward, ConnectQued,
      SnConnectPush, SnWillTopic, SnWillMsg, SnWillMsgQued, SnWillMsgForward,
      SnWillMsgReject, SnWillMsgSaved, SnWillMsgWait, SnWillMsgConnack,
      SnPingReq, SnDisconnect, PostBroker, Done, TakeBrokerRecv, Connack,
      ConnackForward, ConnackPost, Flush, FlushOne, Pingresp, PublishAsleep,
      PublishAwake, PublishForward, BrokerDone, TypeThreads

(* PostClient goes on to PostBroker if it began with both to do. *)
LEMMA PostClientFlow ==
    ASSUME TypeThreads, PostClient
    PROVE  \/ c.at = "post_client" /\ c'.at = "done"
           \/ c.at = "post_both" /\ c'.at = "post_broker"
BY DEF PostClient, CGoto, TypeThreads

-----------------------------------------------------------------------------
(* updateStatus() stores a status. *)
LEMMA UpdatedStatus ==
    ASSUME NEW seen \in Status, NEW m
    PROVE  Updated(seen, m) \in Status
BY DEF Updated, Status

(* So does connackSended(). *)
LEMMA ConnackStatus ==
    ASSUME NEW seen \in Status, NEW code
    PROVE  ConnackSended(seen, code) \in Status
BY DEF ConnackSended, Status

(* Assigning _status keeps the types of what is assigned. *)
LEMMA SetStatusTyped ==
    ASSUME TypeNode, NEW st \in Status, SetStatus(st)
    PROVE status' \in Status /\ saveFlg' \in BOOLEAN /\ waitFlg' \in BOOLEAN
BY DEF TypeNode, SetStatus

(* So does the end of a method that may assign it. *)
LEMMA StoreTyped ==
    ASSUME TypeNode, NEW seen, NEW st \in Status, Store(seen, st)
    PROVE status' \in Status /\ saveFlg' \in BOOLEAN /\ waitFlg' \in BOOLEAN
BY DEF TypeNode, SetStatus, Store

(* Every step keeps the types of the node's status and flags, *)
LEMMA NodeStep ==
    ASSUME TypeNode, TypeThreads, Ready, Next
    PROVE  TypeNode'
<1> USE DEF TypeNode
<1>1. CASE ClientRecvTask
  <2>1. ASSUME NEW m \in Inputs, RecvClient(m) PROVE TypeNode'
    BY <2>1 DEF RecvClient, flags
  <2>2. CASE RecvForget
    BY <2>2, SetStatusTyped DEF RecvForget, Status
  <2>3. CASE RecvStore
    BY <2>3, StoreTyped, UpdatedStatus DEF RecvStore, TypeThreads
  <2>4. CASE RecvPost
    BY <2>4 DEF RecvPost, node, flags
  <2> QED
    BY <1>1, <2>1, <2>2, <2>3, <2>4 DEF ClientRecvTask
<1>2. CASE HandleTimeout \/ HandleSearchGw
  BY <1>2, SetStatusTyped
  DEF HandleTimeout, HandleSearchGw, Timeout, Timeover, TimerRuns,
      TimeoverDisconnect, flags, node, Status
<1>3. CASE TakeClientRecv \/ UpdateStatus
  BY <1>3, UpdatedStatus, StoreTyped
  DEF TakeClientRecv, UpdateStatus, flags, node, Status, TypeThreads
<1>4. CASE HandleConnect
  <2>1. CASE SnConnect \/ SnConnectForward \/ ConnectQued
    BY <2>1 DEF SnConnect, SnConnectForward, ConnectQued, flags, node
  <2>2. CASE SnConnectWill
    BY <2>2 DEF SnConnectWill, flags
  <2>3. CASE SnConnectPush
    BY <2>3, StoreTyped DEF SnConnectPush, Status, TypeThreads
  <2> QED
    BY <1>4, <2>1, <2>2, <2>3 DEF HandleConnect
<1>5. CASE HandleWill
  <2>1. CASE SnWillTopic \/ SnWillMsg \/ SnWillMsgQued \/ SnWillMsgForward
    BY <2>1, StoreTyped
    DEF SnWillTopic, SnWillMsg, SnWillMsgQued, SnWillMsgForward, flags, node,
        Status, TypeThreads
  <2>2. CASE SnWillMsgReject
    BY <2>2, SetStatusTyped DEF SnWillMsgReject, Status
  <2>3. CASE SnWillMsgSaved \/ SnWillMsgWait
    BY <2>3 DEF SnWillMsgSaved, SnWillMsgWait
  <2>4. CASE SnWillMsgConnack
    BY <2>4, StoreTyped, ConnackStatus DEF SnWillMsgConnack, TypeThreads
  <2> QED
    BY <1>5, <2>1, <2>2, <2>3, <2>4 DEF HandleWill
<1>6. CASE SnPingReq \/ SnDisconnect \/ PostClient \/ PostBroker \/ Done
  BY <1>6
  DEF SnPingReq, SnDisconnect, PostClient, PostBroker, Done, flags, node
<1>7. CASE HandleBroker
  <2>1. CASE Connack
    BY <2>1 DEF Connack, Ready
  <2>2. CASE ConnackForward
    BY <2>2, StoreTyped, ConnackStatus DEF ConnackForward, TypeThreads
  <2>3. CASE ~(Connack \/ ConnackForward)
    BY <1>7, <2>3
    DEF HandleBroker, TakeBrokerRecv, ConnackPost, Flush, FlushOne, Pingresp,
        PublishAsleep, PublishAwake, PublishForward, BrokerDone, node, flags
  <2> QED
    BY <2>1, <2>2, <2>3
<1>8. CASE BrokerSendTask
  BY <1>8, SetStatusTyped
  DEF BrokerSendTask, TakeBrokerSend, ConnectSended, Send, SendFails,
      SendDisconnected, SendClose, SendDone, flags, node, Status, TypeThreads
<1>9. CASE BrokerRecvTask \/ ClientSendTask
  BY <1>9, SetStatusTyped
  DEF BrokerRecvTask, RecvBroker, RecvFails, ClientSendTask, SendClient,
      flags, node, Status, TypeThreads
<1>10. CASE BrokerPublish \/ BrokerCut
  BY <1>10 DEF BrokerPublish, BrokerCut, flags, node
<1> QED
  BY <1>1, <1>2, <1>3, <1>4, <1>5, <1>6, <1>7, <1>8, <1>9, <1>10
  DEF Next, GatewayControlTask, HandleClient

(* of the MQTTConnect objects, *)
LEMMA ObjectsStep ==
    ASSUME TypeObjects, TypeMessages, Ready, Next,
           c.at = "CONNECT" => made < MaxRecv
    PROVE  TypeObjects'
<1> USE DEF TypeObjects
<1>1. MaxRecv \in Nat
  BY BoundsNat
<1>2. ASSUME NEW m
      PROVE  Freed(m) \in
                [Connect -> [will : BOOLEAN, willMsg : BOOLEAN, freed : BOOLEAN]]
  BY DEF Freed
<1>3. CASE ClientRecvTask
  BY <1>3
  DEF ClientRecvTask, RecvClient, RecvForget, RecvStore, RecvPost, node,
      objects
<1>4. CASE HandleTimeout \/ HandleSearchGw \/ TakeClientRecv \/ UpdateStatus
  BY <1>4
  DEF HandleTimeout, HandleSearchGw, TakeClientRecv, UpdateStatus, Timeout,
      Timeover, TimerRuns, TimeoverDisconnect, node, objects
<1>5. CASE HandleConnect
  <2>1. CASE SnConnect
    <3>1. ASSUME isConnectSendable
          PROVE  /\ made + 1 \in Connect /\ made + 1 \in 0..MaxRecv
                 /\ made' = made + 1 /\ connMsg' = made + 1
                 /\ heap' = [heap EXCEPT ![made + 1].will = ClientMessage.will]
                 /\ ClientMessage.will \in BOOLEAN
      BY <1>1, <2>1, <3>1 DEF SnConnect, Ready, Connect
    <3>2. ASSUME isConnectSendable PROVE TypeObjects'
      BY <1>1, <3>1, <3>2
    <3>3. ASSUME ~isConnectSendable PROVE TypeObjects'
      BY <2>1, <3>3 DEF SnConnect, objects
    <3> QED
      BY <3>2, <3>3
  <2>2. CASE SnConnectForward
    BY <2>2 DEF SnConnectForward, Null
  <2>3. CASE SnConnectWill \/ ConnectQued \/ SnConnectPush
    BY <2>3 DEF SnConnectWill, ConnectQued, SnConnectPush, node, objects
  <2> QED
    BY <1>5, <2>1, <2>2, <2>3 DEF HandleConnect
<1>6. CASE HandleWill
  <2>1. CASE SnWillMsg
    BY <2>1 DEF SnWillMsg, Connect, Null
  <2>2. CASE SnWillMsgQued \/ SnWillMsgForward
    BY <2>2 DEF SnWillMsgQued, SnWillMsgForward, Connect, Null, objects
  <2>3. CASE \/ SnWillTopic \/ SnWillMsgReject \/ SnWillMsgSaved
            \/ SnWillMsgWait \/ SnWillMsgConnack
    BY <2>3
    DEF SnWillTopic, SnWillMsgReject, SnWillMsgSaved, SnWillMsgWait,
        SnWillMsgConnack, node, objects
  <2> QED
    BY <1>6, <2>1, <2>2, <2>3 DEF HandleWill, ConnectQued
<1>7. CASE SnPingReq \/ SnDisconnect \/ PostClient \/ PostBroker \/ Done
  BY <1>7
  DEF SnPingReq, SnDisconnect, PostClient, PostBroker, Done, objects, node
<1>8. CASE HandleBroker
  BY <1>8
  DEF HandleBroker, TakeBrokerRecv, Connack, ConnackForward, ConnackPost,
      Flush, FlushOne, Pingresp, PublishAsleep, PublishAwake, PublishForward,
      BrokerDone, objects, node
<1>9. CASE BrokerSendTask
  BY <1>2, <1>9
  DEF BrokerSendTask, TakeBrokerSend, ConnectSended, Send, SendFails,
      SendDisconnected, SendClose, SendDone, objects, node, Null
<1>10. CASE BrokerRecvTask \/ ClientSendTask
  BY <1>10
  DEF BrokerRecvTask, RecvBroker, RecvFails, ClientSendTask, SendClient,
      objects, node
<1>11. CASE BrokerPublish \/ BrokerCut
  BY <1>11 DEF BrokerPublish, BrokerCut, objects, node
<1> QED
  BY <1>3, <1>4, <1>5, <1>6, <1>7, <1>8, <1>9, <1>10, <1>11
  DEF Next, GatewayControlTask, HandleClient

(* of the messages queued, *)
LEMMA MessagesStep ==
    ASSUME TypeNode, TypeObjects, TypeMessages, TypeThreads, TypeBroker, Ready,
          Next
    PROVE  TypeMessages'
<1>1. UNCHANGED messages => TypeMessages'
  BY DEF messages, TypeMessages
<1>2. r.msg \in ClientMsg
  BY DEF TypeThreads
<1>3. connMsg \in Connect \cup {Null}
  BY BoundsNat DEF TypeObjects, Connect, Null
<1>4. clientSend \in Seq(ToClient)
  BY DEF TypeMessages
<1>5. brokerSend \in Seq(ToBroker)
  BY DEF TypeMessages
<1>6. CASE ClientRecvTask
  <2>1. CASE RecvStore
    BY <2>1, <1>2 DEF RecvStore, TypeMessages
  <2> QED
    BY <1>1, <1>6, <2>1 DEF ClientRecvTask, RecvClient, RecvForget, RecvPost
<1>7. CASE HandleTimeout \/ HandleSearchGw
  BY <1>1, <1>7
  DEF HandleTimeout, Timeout, Timeover, TimerRuns, TimeoverDisconnect,
      HandleSearchGw
<1>8. CASE TakeClientRecv \/ UpdateStatus
  BY <1>1, <1>8 DEF TakeClientRecv, UpdateStatus
<1>9. CASE HandleConnect
  <2>1. CASE SnConnectWill
    BY <2>1 DEF SnConnectWill, TypeMessages, ToClient
  <2>2. CASE SnConnectPush
    BY <2>2
    DEF SnConnectPush, TypeMessages, TypeThreads, ToBroker, Connect, Null
  <2> QED
    BY <1>1, <1>9, <2>1, <2>2
    DEF HandleConnect, SnConnect, SnConnectForward, ConnectQued
<1>10. CASE HandleWill
  <2>1. CASE SnWillTopic
    BY <2>1 DEF SnWillTopic, TypeMessages, ToClient
  <2>2. CASE SnWillMsgForward
    BY <2>2, <1>3 DEF SnWillMsgForward, TypeMessages, ToBroker
  <2>3. CASE SnWillMsgReject
    BY <2>3 DEF SnWillMsgReject, TypeMessages, ToClient, Code
  <2>4. CASE SnWillMsgSaved
    BY <2>4 DEF SnWillMsgSaved, TypeMessages, ToClient, TypeNode
  <2>5. CASE SnWillMsgWait
    <3>1. UNCHANGED <<clientRecv, brokerSend, brokerRecv, sleepQue>>
      BY <2>5 DEF SnWillMsgWait
    <3>2. \/ UNCHANGED clientSend
          \/ clientSend' =
                Append(clientSend, [type |-> "CONNACK", code |-> "rejected"])
      BY <2>5 DEF SnWillMsgWait
    <3>3. [type |-> "CONNACK", code |-> "rejected"] \in ToClient
      BY DEF ToClient, Code
    <3>4. clientSend' \in Seq(ToClient)
      BY <1>4, <3>2, <3>3
    <3> QED
      BY <3>1, <3>3, <3>4 DEF TypeMessages
  <2> QED
    BY <1>1, <1>10, <2>1, <2>2, <2>3, <2>4, <2>5
    DEF HandleWill, SnWillMsg, SnWillMsgQued, SnWillMsgConnack
<1>11. CASE SnPingReq \/ SnDisconnect \/ PostClient \/ PostBroker \/ Done
  <2>1. CASE SnPingReq
    BY <2>1 DEF SnPingReq, TypeMessages, ToBroker
  <2>2. CASE SnDisconnect
    BY <2>2 DEF SnDisconnect, TypeMessages, ToBroker, ToClient
  <2>3. CASE Done
    BY <2>3 DEF Done, TypeMessages, Ready, AtClient
  <2> QED
    BY <1>1, <1>11, <2>1, <2>2, <2>3 DEF PostClient, PostBroker
<1>12. CASE HandleBroker
  <2>1. CASE ConnackForward
    BY <2>1 DEF ConnackForward, TypeMessages, ToClient, TypeThreads
  <2>2. CASE FlushOne
    BY <2>2 DEF FlushOne, TypeMessages, Ready
  <2>3. CASE Pingresp
    BY <2>3 DEF Pingresp, TypeMessages, ToClient
  <2>4. CASE PublishAsleep
    <3>1. /\ UNCHANGED <<clientRecv, clientSend, brokerRecv>>
          /\ sleepQue' = Append(sleepQue, [type |-> "PUBLISH"])
      BY <2>4 DEF PublishAsleep
    <3>2. \/ UNCHANGED brokerSend
          \/ brokerSend' = Append(brokerSend, [type |-> "PUBACK"])
      BY <2>4 DEF PublishAsleep
    <3>3. [type |-> "PUBACK"] \in ToBroker /\ [type |-> "PUBLISH"] \in ToClient
      BY DEF ToBroker, ToClient
    <3>4. brokerSend' \in Seq(ToBroker)
      BY <1>5, <3>2, <3>3
    <3> QED
      BY <3>1, <3>3, <3>4 DEF TypeMessages
  <2>5. CASE PublishForward
    <3>1. UNCHANGED <<clientRecv, brokerSend, brokerRecv, sleepQue>>
      BY <2>5 DEF PublishForward
    <3>2. \/ UNCHANGED clientSend
          \/ clientSend' = Append(clientSend, [type |-> "PUBLISH"])
      BY <2>5 DEF PublishForward
    <3>3. [type |-> "PUBLISH"] \in ToClient
      BY DEF ToClient
    <3>4. clientSend' \in Seq(ToClient)
      BY <1>4, <3>2, <3>3
    <3> QED
      BY <3>1, <3>3, <3>4 DEF TypeMessages
  <2>6. CASE BrokerDone
    BY <2>6 DEF BrokerDone, TypeMessages, Ready, AtBroker
  <2> QED
    BY <1>1, <1>12, <2>1, <2>2, <2>3, <2>4, <2>5, <2>6
    DEF HandleBroker, TakeBrokerRecv, Connack, ConnackPost, Flush,
        PublishAwake
<1>13. CASE BrokerSendTask
  <2>1. CASE SendDone
    BY <2>1 DEF SendDone, TypeMessages, Ready
  <2> QED
    BY <1>1, <1>13, <2>1
    DEF BrokerSendTask, TakeBrokerSend, ConnectSended, Send, SendFails,
        SendDisconnected, SendClose
<1>14. CASE BrokerRecvTask \/ ClientSendTask
  <2>1. CASE RecvBroker
    BY <2>1 DEF RecvBroker, TypeMessages, TypeBroker
  <2>2. CASE SendClient
    <3>1. UNCHANGED <<clientRecv, brokerSend, brokerRecv, sleepQue>>
      BY <2>2 DEF SendClient
    <3>2. \/ UNCHANGED clientSend
          \/ clientSend # << >> /\ clientSend' = Tail(clientSend)
      BY <2>2 DEF SendClient, Ready
    <3>3. clientSend' \in Seq(ToClient)
      BY <1>4, <3>2
    <3> QED
      BY <3>1, <3>3 DEF TypeMessages
  <2> QED
    BY <1>1, <1>14, <2>1, <2>2 DEF BrokerRecvTask, ClientSendTask, RecvFails
<1>15. CASE BrokerPublish \/ BrokerCut
  BY <1>1, <1>15 DEF BrokerPublish, BrokerCut
<1> QED
  BY <1>6, <1>7, <1>8, <1>9, <1>10, <1>11, <1>12, <1>13, <1>14, <1>15
  DEF Next, GatewayControlTask, HandleClient

(* of the events queued, *)
LEMMA EventsStep ==
    ASSUME TypeEvents, Next
    PROVE  TypeEvents'
<1>1. UNCHANGED events => TypeEvents'
  BY DEF events, TypeEvents
<1>2. CASE ClientRecvTask
  <2>1. CASE RecvPost
    BY <2>1 DEF RecvPost, TypeEvents
  <2> QED
    BY <1>1, <1>2, <2>1 DEF ClientRecvTask, RecvClient, RecvForget, RecvStore
<1>3. CASE HandleTimeout \/ HandleSearchGw
  <2>1. CASE HandleSearchGw
    BY <2>1 DEF HandleSearchGw, TypeEvents
  <2> QED
    BY <1>1, <1>3, <2>1
    DEF HandleTimeout, Timeout, Timeover, TimerRuns, TimeoverDisconnect
<1>4. CASE TakeClientRecv \/ UpdateStatus
  <2>1. CASE TakeClientRecv
    BY <2>1 DEF TakeClientRecv, TypeEvents
  <2> QED
    BY <1>1, <1>4, <2>1 DEF UpdateStatus
<1>5. CASE HandleConnect
  BY <1>1, <1>5
  DEF HandleConnect, SnConnect, SnConnectWill, SnConnectForward, ConnectQued,
      SnConnectPush
<1>6. CASE HandleWill
  BY <1>1, <1>6
  DEF HandleWill, SnWillTopic, SnWillMsg, SnWillMsgQued, SnWillMsgForward,
      SnWillMsgReject, SnWillMsgSaved, SnWillMsgWait, SnWillMsgConnack
<1>7. CASE SnPingReq \/ SnDisconnect \/ PostClient \/ PostBroker \/ Done
  <2>1. CASE PostClient
    BY <2>1 DEF PostClient, TypeEvents
  <2>2. CASE PostBroker
    BY <2>2 DEF PostBroker, TypeEvents
  <2> QED
    BY <1>1, <1>7, <2>1, <2>2 DEF SnPingReq, SnDisconnect, Done
<1>8. CASE HandleBroker
  <2>1. CASE TakeBrokerRecv
    BY <2>1 DEF TakeBrokerRecv, TypeEvents
  <2>2. CASE ConnackPost
    BY <2>2 DEF ConnackPost, TypeEvents
  <2>3. CASE FlushOne
    BY <2>3 DEF FlushOne, TypeEvents
  <2>4. CASE Pingresp
    BY <2>4 DEF Pingresp, TypeEvents
  <2>5. CASE PublishAsleep
    <3>1. UNCHANGED <<gwQue, csQue>>
      BY <2>5 DEF PublishAsleep
    <3>2. bsQue' = bsQue \/ bsQue' = Append(bsQue, "brokerSend")
      BY <2>5 DEF PublishAsleep
    <3>3. bsQue \in Seq({"brokerSend"})
      BY DEF TypeEvents
    <3>4. Append(bsQue, "brokerSend") \in Seq({"brokerSend"})
      BY <3>3
    <3>5. bsQue' \in Seq({"brokerSend"})
      BY <3>2, <3>3, <3>4
    <3> QED
      BY <3>1, <3>5 DEF TypeEvents
  <2>6. CASE PublishForward
    <3>1. UNCHANGED <<gwQue, bsQue>>
      BY <2>6 DEF PublishForward
    <3>2. csQue' = csQue \/ csQue' = Append(csQue, "unicast")
      BY <2>6 DEF PublishForward
    <3>3. csQue \in Seq({"unicast", "broadcast"})
      BY DEF TypeEvents
    <3>4. csQue' \in Seq({"unicast", "broadcast"})
      BY <3>2, <3>3
    <3> QED
      BY <3>1, <3>4 DEF TypeEvents
  <2> QED
    BY <1>1, <1>8, <2>1, <2>2, <2>3, <2>4, <2>5, <2>6
    DEF HandleBroker, Connack, ConnackForward, Flush, PublishAwake, BrokerDone
<1>9. CASE BrokerSendTask
  <2>1. CASE TakeBrokerSend
    BY <2>1 DEF TakeBrokerSend, TypeEvents
  <2> QED
    BY <1>1, <1>9, <2>1
    DEF BrokerSendTask, ConnectSended, Send, SendFails, SendDisconnected,
        SendClose, SendDone
<1>10. CASE BrokerRecvTask \/ ClientSendTask
  <2>1. CASE RecvBroker
    BY <2>1 DEF RecvBroker, TypeEvents
  <2>2. CASE SendClient
    BY <2>2 DEF SendClient, TypeEvents
  <2> QED
    BY <1>1, <1>10, <2>1, <2>2 DEF BrokerRecvTask, ClientSendTask, RecvFails
<1>11. CASE BrokerPublish \/ BrokerCut
  BY <1>1, <1>11 DEF BrokerPublish, BrokerCut
<1> QED
  BY <1>2, <1>3, <1>4, <1>5, <1>6, <1>7, <1>8, <1>9, <1>10, <1>11
  DEF Next, GatewayControlTask, HandleClient

(* of the threads' places and local variables, *)
LEMMA ThreadsStep ==
    ASSUME TypeNode, TypeObjects, TypeThreads, Ready,
          c.at = "CONNECT" => made < MaxRecv, Next
    PROVE  TypeThreads'
<1>1. UNCHANGED <<r, c, s>> => TypeThreads'
  BY DEF TypeThreads
<1>2. c.at = "CONNECT" => made + 1 \in 0..MaxRecv
  BY BoundsNat DEF TypeObjects
<1>3. CASE ClientRecvTask
  <2>1. ASSUME NEW m \in Inputs, RecvClient(m) PROVE TypeThreads'
    BY <2>1, InputsAreMessages DEF RecvClient, TypeThreads, TypeNode
  <2>2. CASE RecvForget
    BY <2>2 DEF RecvForget, TypeThreads
  <2>3. CASE RecvStore
    BY <2>3 DEF RecvStore, TypeThreads
  <2>4. CASE RecvPost
    BY <2>4 DEF RecvPost, TypeThreads
  <2> QED
    BY <1>3, <2>1, <2>2, <2>3, <2>4 DEF ClientRecvTask
<1>4. CASE HandleTimeout \/ HandleSearchGw
  <2>1. CASE Timeout
    BY <2>1 DEF Timeout, TypeThreads, AtOther, TypeNode
  <2>2. CASE Timeover
    BY <2>2 DEF Timeover, CGoto, TypeThreads, AtOther
  <2>3. CASE TimerRuns
    BY <2>3 DEF TimerRuns, CGoto, TypeThreads, AtOther
  <2>4. CASE TimeoverDisconnect
    BY <2>4 DEF TimeoverDisconnect, CGoto, TypeThreads, AtOther
  <2> QED
    BY <1>1, <1>4, <2>1, <2>2, <2>3, <2>4 DEF HandleTimeout, HandleSearchGw
<1>5. CASE TakeClientRecv \/ UpdateStatus
  <2>1. CASE TakeClientRecv
    BY <2>1 DEF TakeClientRecv, TypeThreads, AtClient, TypeNode
  <2>2. CASE UpdateStatus
    BY <2>2
    DEF UpdateStatus, CGoto, TypeThreads, AtClient, Ready, KnownMsg, ClientMsg
  <2> QED
    BY <1>5, <2>1, <2>2
<1>6. CASE HandleConnect
  <2>1. CASE SnConnect
    <3>1. \/ c' = [c EXCEPT !.at = "connect", !.obj = made + 1]
          \/ c' = [c EXCEPT !.at = "connect", !.obj = Null]
      BY <2>1 DEF SnConnect
    <3>2. UNCHANGED <<r, s>> /\ made + 1 \in 0..MaxRecv /\ Null \in 0..MaxRecv
      BY <2>1, <1>2, BoundsNat DEF SnConnect, Null
    <3>3. "connect" \in AtClient
      BY DEF AtClient
    <3> QED
      BY <3>1, <3>2, <3>3 DEF TypeThreads
  <2>2. CASE SnConnectWill
    BY <2>2 DEF SnConnectWill, CGoto, TypeThreads, AtClient
  <2>3. CASE SnConnectForward
    BY <2>3 DEF SnConnectForward, CGoto, TypeThreads, AtClient
  <2>4. CASE ConnectQued
    BY <2>4 DEF ConnectQued, TypeThreads, AtClient, TypeNode
  <2>5. CASE SnConnectPush
    BY <2>5 DEF SnConnectPush, CGoto, TypeThreads, AtClient
  <2> QED
    BY <1>6, <2>1, <2>2, <2>3, <2>4, <2>5 DEF HandleConnect
<1>7. CASE HandleWill
  <2>1. CASE SnWillTopic
    BY <2>1 DEF SnWillTopic, CGoto, TypeThreads, AtClient
  <2>2. CASE SnWillMsg
    BY <2>2 DEF SnWillMsg, CGoto, TypeThreads, AtClient
  <2>3. CASE SnWillMsgQued
    BY <2>3 DEF SnWillMsgQued, CGoto, TypeThreads, AtClient
  <2>4. CASE SnWillMsgForward
    BY <2>4 DEF SnWillMsgForward, CGoto, TypeThreads, AtClient
  <2>5. CASE SnWillMsgReject
    BY <2>5 DEF SnWillMsgReject, CGoto, TypeThreads, AtClient
  <2>6. CASE SnWillMsgSaved
    BY <2>6 DEF SnWillMsgSaved, CGoto, TypeThreads, AtClient, TypeNode
  <2>7. CASE SnWillMsgWait
    BY <2>7 DEF SnWillMsgWait, CGoto, TypeThreads, AtClient, TypeNode, Code
  <2>8. CASE SnWillMsgConnack
    BY <2>8 DEF SnWillMsgConnack, CGoto, TypeThreads, AtClient
  <2> QED
    BY <1>7, <2>1, <2>2, <2>3, <2>4, <2>5, <2>6, <2>7, <2>8 DEF HandleWill
<1>8. CASE SnPingReq \/ SnDisconnect \/ PostClient \/ PostBroker \/ Done
  <2>1. CASE SnPingReq
    BY <2>1 DEF SnPingReq, CGoto, TypeThreads, AtClient
  <2>2. CASE SnDisconnect
    BY <2>2 DEF SnDisconnect, CGoto, TypeThreads, AtClient
  <2>3. CASE PostClient
    BY <2>3 DEF PostClient, CGoto, TypeThreads, AtClient
  <2>4. CASE PostBroker
    BY <2>4 DEF PostBroker, CGoto, TypeThreads, AtClient
  <2>5. CASE Done
    BY <2>5 DEF Done, CGoto, TypeThreads, AtOther
  <2> QED
    BY <1>8, <2>1, <2>2, <2>3, <2>4, <2>5
<1>9. CASE HandleBroker
  <2>1. CASE TakeBrokerRecv
    BY <2>1
    DEF TakeBrokerRecv, CGoto, TypeThreads, AtBroker, Ready, BrokerPacket
  <2>2. CASE Connack
    BY <2>2 DEF Connack, CGoto, TypeThreads, AtBroker, TypeNode, Ready
  <2>3. CASE ConnackForward
    BY <2>3 DEF ConnackForward, CGoto, TypeThreads, AtBroker
  <2>4. CASE ConnackPost
    BY <2>4 DEF ConnackPost, CGoto, TypeThreads, AtBroker
  <2>5. CASE Flush
    BY <2>5 DEF Flush, CGoto, TypeThreads, AtBroker
  <2>6. CASE FlushOne
    BY <2>6 DEF FlushOne, CGoto, TypeThreads, AtBroker
  <2>7. CASE Pingresp
    BY <2>7 DEF Pingresp, CGoto, TypeThreads, AtBroker
  <2>8. CASE PublishAsleep
    BY <2>8 DEF PublishAsleep, CGoto, TypeThreads, AtBroker
  <2>9. CASE PublishAwake
    BY <2>9 DEF PublishAwake, CGoto, TypeThreads, AtBroker
  <2>10. CASE PublishForward
    BY <2>10 DEF PublishForward, CGoto, TypeThreads, AtBroker
  <2>11. CASE BrokerDone
    BY <2>11 DEF BrokerDone, CGoto, TypeThreads, AtOther
  <2> QED
    BY <1>9, <2>1, <2>2, <2>3, <2>4, <2>5, <2>6, <2>7, <2>8, <2>9, <2>10,
       <2>11
    DEF HandleBroker
<1>10. CASE BrokerSendTask
  <2>1. CASE TakeBrokerSend
    BY <2>1 DEF TakeBrokerSend, TypeThreads, TypeNode
  <2>2. CASE ConnectSended
    BY <2>2 DEF ConnectSended, TypeThreads
  <2>3. ASSUME NEW code \in Codes, Send(code) PROVE TypeThreads'
    BY <2>3 DEF Send, TypeThreads
  <2>4. CASE SendFails
    BY <2>4 DEF SendFails, TypeThreads
  <2>5. CASE SendDisconnected
    BY <2>5 DEF SendDisconnected, TypeThreads
  <2>6. CASE SendClose
    BY <2>6 DEF SendClose, TypeThreads
  <2>7. CASE SendDone
    BY <2>7 DEF SendDone, TypeThreads
  <2> QED
    BY <1>10, <2>1, <2>2, <2>3, <2>4, <2>5, <2>6, <2>7 DEF BrokerSendTask
<1>11. CASE BrokerRecvTask \/ ClientSendTask
  BY <1>1, <1>11
  DEF BrokerRecvTask, ClientSendTask, RecvBroker, RecvFails, SendClient
<1>12. CASE BrokerPublish \/ BrokerCut
  BY <1>1, <1>12 DEF BrokerPublish, BrokerCut
<1> QED
  BY <1>3, <1>4, <1>5, <1>6, <1>7, <1>8, <1>9, <1>10, <1>11, <1>12
  DEF Next, GatewayControlTask, HandleClient

(* and of the connection, the broker and the history. *)
LEMMA BrokerStep ==
    ASSUME TypeBroker, Next
    PROVE  TypeBroker'
<1>1. UNCHANGED <<broker, history>> => TypeBroker'
  BY DEF broker, history, TypeBroker
<1>2. fromBroker \in Seq(BrokerPacket)
  BY DEF TypeBroker
<1>3. CASE ClientRecvTask
  <2>1. ASSUME NEW m \in Inputs, RecvClient(m) PROVE TypeBroker'
    BY <2>1, BoundsNat DEF RecvClient, TypeBroker, broker
  <2> QED
    BY <1>1, <1>3, <2>1 DEF ClientRecvTask, RecvForget, RecvStore, RecvPost
<1>4. CASE HandleTimeout \/ HandleSearchGw
  <2>1. CASE TimeoverDisconnect
    BY <2>1 DEF TimeoverDisconnect, TypeBroker, Close, history
  <2> QED
    BY <1>1, <1>4, <2>1
    DEF HandleTimeout, Timeout, Timeover, TimerRuns, HandleSearchGw
<1>5. CASE TakeClientRecv \/ UpdateStatus
  BY <1>1, <1>5 DEF TakeClientRecv, UpdateStatus
<1>6. CASE HandleConnect
  BY <1>1, <1>6
  DEF HandleConnect, SnConnect, SnConnectWill, SnConnectForward, ConnectQued,
      SnConnectPush
<1>7. CASE HandleWill
  BY <1>1, <1>7
  DEF HandleWill, SnWillTopic, SnWillMsg, SnWillMsgQued, SnWillMsgForward,
      SnWillMsgReject, SnWillMsgSaved, SnWillMsgWait, SnWillMsgConnack
<1>8. CASE SnPingReq \/ SnDisconnect \/ PostClient \/ PostBroker \/ Done
  BY <1>1, <1>8 DEF SnPingReq, SnDisconnect, PostClient, PostBroker, Done
<1>9. CASE HandleBroker
  BY <1>1, <1>9
  DEF HandleBroker, TakeBrokerRecv, Connack, ConnackForward, ConnackPost,
      Flush, FlushOne, Pingresp, PublishAsleep, PublishAwake, PublishForward,
      BrokerDone
<1>10. CASE BrokerSendTask
  <2>1. ASSUME NEW code \in Codes, Send(code) PROVE TypeBroker'
    <3>1. /\ [type |-> "CONNACK", code |-> code] \in BrokerPacket
          /\ [type |-> "PINGRESP"] \in BrokerPacket
      BY CodesAreCodes DEF BrokerPacket, Code
    <3>2. UNCHANGED <<published, history>> /\ conn' \in {conn, "session", "cut"}
      BY <2>1 DEF Send, BrokerGets, broker
    <3>3. granted' = granted \/ granted' = granted + 1
      BY <2>1 DEF Send, BrokerGets, broker
    <3>4. \/ UNCHANGED fromBroker
          \/ fromBroker' =
                Append(fromBroker, [type |-> "CONNACK", code |-> code])
          \/ fromBroker' = Append(fromBroker, [type |-> "PINGRESP"])
      BY <2>1 DEF Send, BrokerGets, broker
    <3>5. fromBroker' \in Seq(BrokerPacket)
      BY <3>1, <3>4, <1>2
    <3> QED
      BY <3>2, <3>3, <3>5 DEF TypeBroker, history
  <2>2. CASE SendFails
    BY <2>2 DEF SendFails, TypeBroker, Close, history
  <2>3. CASE SendClose
    BY <2>3 DEF SendClose, TypeBroker, Close, history
  <2> QED
    BY <1>1, <1>10, <2>1, <2>2, <2>3
    DEF BrokerSendTask, TakeBrokerSend, ConnectSended, SendDisconnected,
        SendDone
<1>11. CASE BrokerRecvTask \/ ClientSendTask
  <2>1. CASE RecvBroker
    BY <2>1 DEF RecvBroker, TypeBroker, history
  <2>2. CASE SendClient
    <3>1. UNCHANGED <<broker, received>>
      BY <2>2 DEF SendClient
    <3>2. (told' = told \/ told' = told + 1) /\ answered' \in BOOLEAN
      BY <2>2 DEF SendClient, TypeBroker
    <3> QED
      BY <3>1, <3>2 DEF TypeBroker, broker
  <2> QED
    BY <1>1, <1>11, <2>1, <2>2 DEF BrokerRecvTask, ClientSendTask, RecvFails
<1>12. CASE BrokerPublish \/ BrokerCut
  <2>1. CASE BrokerPublish
    BY <2>1, BoundsNat DEF BrokerPublish, TypeBroker, BrokerPacket, history
  <2>2. CASE BrokerCut
    BY <2>2 DEF BrokerCut, TypeBroker, history
  <2> QED
    BY <1>12, <2>1, <2>2
<1> QED
  BY <1>3, <1>4, <1>5, <1>6, <1>7, <1>8, <1>9, <1>10, <1>11, <1>12
  DEF Next, GatewayControlTask, HandleClient

-----------------------------------------------------------------------------
(* Every step keeps SEARCHGW out of clientRecv, *)
LEMMA NoSearchGwStep ==
    ASSUME TypeMessages, TypeThreads, Ready, NoSearchGw, Next
    PROVE  NoSearchGw'
<1>1. UNCHANGED <<clientRecv, r>> => NoSearchGw'
  BY DEF NoSearchGw
<1>2. CASE ClientRecvTask
  <2>1. ASSUME NEW m \in Inputs, RecvClient(m) PROVE NoSearchGw'
    <3>1. /\ UNCHANGED clientRecv
          /\ r'.msg = m
          /\ r'.at \in {"forget", "post", "store", "idle"}
      BY <2>1 DEF RecvClient, messages
    <3>2. /\ r'.at = "store" => m.type # "SEARCHGW"
          /\ r'.at = "forget" => m.type = "SEARCHGW"
      BY <2>1 DEF RecvClient
    <3> QED
      BY <3>1, <3>2 DEF NoSearchGw
  <2>2. CASE RecvForget
    BY <2>2 DEF RecvForget, NoSearchGw, TypeThreads, messages
  <2>3. CASE RecvStore
    <3>1. clientRecv' = Append(clientRecv, r.msg) /\ r'.at = "post"
      BY <2>3 DEF RecvStore, TypeThreads
    <3>3. r.msg.type # "SEARCHGW"
      BY <2>3 DEF RecvStore, NoSearchGw
    <3>4. r.msg \in ClientMsg /\ clientRecv \in Seq(ClientMsg)
      BY DEF TypeThreads, TypeMessages
    <3>2. \A i \in DOMAIN clientRecv' :
              clientRecv'[i] = r.msg
              \/ (i \in DOMAIN clientRecv /\ clientRecv'[i] = clientRecv[i])
      BY <3>1, <3>4
    <3> QED
      BY <3>1, <3>2, <3>3 DEF NoSearchGw
  <2>4. CASE RecvPost
    BY <2>4 DEF RecvPost, NoSearchGw, TypeThreads, messages
  <2> QED
    BY <1>2, <2>1, <2>2, <2>3, <2>4 DEF ClientRecvTask
<1>3. CASE HandleTimeout \/ HandleSearchGw
  BY <1>1, <1>3
  DEF HandleTimeout, Timeout, Timeover, TimerRuns, TimeoverDisconnect,
      HandleSearchGw, messages
<1>4. CASE TakeClientRecv \/ UpdateStatus
  BY <1>1, <1>4 DEF TakeClientRecv, UpdateStatus, messages
<1>5. CASE HandleConnect
  BY <1>1, <1>5
  DEF HandleConnect, SnConnect, SnConnectWill, SnConnectForward, ConnectQued,
      SnConnectPush, messages
<1>6. CASE HandleWill
  BY <1>1, <1>6
  DEF HandleWill, SnWillTopic, SnWillMsg, SnWillMsgQued, SnWillMsgForward,
      SnWillMsgReject, SnWillMsgSaved, SnWillMsgWait, SnWillMsgConnack,
      messages
<1>7. CASE SnPingReq \/ SnDisconnect \/ PostClient \/ PostBroker \/ Done
  <2>1. CASE Done
    <3>1. clientRecv' = Tail(clientRecv) /\ clientRecv # << >> /\ UNCHANGED r
      BY <2>1 DEF Done, Ready, AtClient
    <3>2. \A i \in DOMAIN clientRecv' :
              i + 1 \in DOMAIN clientRecv /\ clientRecv'[i] = clientRecv[i + 1]
      BY <3>1 DEF TypeMessages
    <3> QED
      BY <3>1, <3>2 DEF NoSearchGw
  <2> QED
    BY <1>1, <1>7, <2>1
    DEF SnPingReq, SnDisconnect, PostClient, PostBroker, messages
<1>8. CASE HandleBroker
  BY <1>1, <1>8
  DEF HandleBroker, TakeBrokerRecv, Connack, ConnackForward, ConnackPost,
      Flush, FlushOne, Pingresp, PublishAsleep, PublishAwake, PublishForward,
      BrokerDone, messages
<1>9. CASE BrokerSendTask
  BY <1>1, <1>9
  DEF BrokerSendTask, TakeBrokerSend, ConnectSended, Send, SendFails,
      SendDisconnected, SendClose, SendDone, messages
<1>10. CASE BrokerRecvTask \/ ClientSendTask
  BY <1>1, <1>10
  DEF BrokerRecvTask, ClientSendTask, RecvBroker, RecvFails, SendClient,
      messages
<1>11. CASE BrokerPublish \/ BrokerCut
  BY <1>1, <1>11 DEF BrokerPublish, BrokerCut, messages
<1> QED
  BY <1>2, <1>3, <1>4, <1>5, <1>6, <1>7, <1>8, <1>9, <1>10, <1>11
  DEF Next, GatewayControlTask, HandleClient

(* each handler on a message of its type, *)
LEMMA HandlerFitsStep ==
    ASSUME TypeMessages, TypeThreads, TypeBroker, Ready, HandlerFits, Next
    PROVE  HandlerFits'
<1>1. UNCHANGED <<c, clientRecv, brokerRecv, sleepQue>> => HandlerFits'
  BY DEF HandlerFits, ClientMessage, BrokerMessage
<1>2. r.msg \in ClientMsg
  BY DEF TypeThreads
<1>3. c'.at \notin {"CONNECT", "connect", "CONNACK", "PUBLISH", "flushing"}
         => HandlerFits'
  BY DEF HandlerFits
<1>4. CASE ClientRecvTask
  <2>1. CASE RecvStore
    <3>1. /\ UNCHANGED <<c, brokerRecv, sleepQue>>
          /\ clientRecv' = Append(clientRecv, r.msg)
      BY <2>1 DEF RecvStore
    <3>2. clientRecv # << >> => Head(clientRecv') = Head(clientRecv)
      BY <3>1, <1>2 DEF TypeMessages
    <3> QED
      BY <3>1, <3>2
      DEF HandlerFits, Ready, AtClient, ClientMessage, BrokerMessage
  <2> QED
    BY <1>1, <1>4, <2>1, <1>3, Flow, PostClientFlow
    DEF ClientRecvTask, RecvClient, RecvForget, RecvPost, messages
<1>5. CASE HandleTimeout \/ HandleSearchGw
  BY <1>1, <1>5, <1>3, Flow, PostClientFlow
  DEF HandleTimeout, Timeout, Timeover, TimerRuns, TimeoverDisconnect,
      HandleSearchGw, messages
<1>6. CASE TakeClientRecv \/ UpdateStatus
  <2>1. CASE UpdateStatus
    <3>1. /\ UNCHANGED <<clientRecv, brokerRecv, sleepQue>>
          /\ c'.at = ClientMessage.type
      BY <2>1 DEF UpdateStatus, messages, CGoto, TypeThreads
    <3> QED
      BY <2>1, <3>1, Flow DEF HandlerFits, ClientMessage
  <2> QED
    BY <1>1, <1>6, <2>1, <1>3, Flow, PostClientFlow
    DEF TakeClientRecv, messages
<1>7. CASE HandleConnect
  <2>1. CASE SnConnect
    <3>1. UNCHANGED <<clientRecv, brokerRecv, sleepQue>>
      BY <2>1 DEF SnConnect, messages
    <3> QED
      BY <2>1, <3>1, Flow DEF HandlerFits, ClientMessage
  <2> QED
    BY <1>1, <1>7, <2>1, <1>3, Flow, PostClientFlow
    DEF HandleConnect, SnConnectWill, SnConnectForward, ConnectQued,
        SnConnectPush, messages
<1>8. CASE HandleWill
  BY <1>1, <1>8, <1>3, Flow, PostClientFlow
  DEF HandleWill, SnWillTopic, SnWillMsg, SnWillMsgQued, SnWillMsgForward,
      SnWillMsgReject, SnWillMsgSaved, SnWillMsgWait, SnWillMsgConnack,
      messages
<1>9. CASE SnPingReq \/ SnDisconnect \/ PostClient \/ PostBroker \/ Done
  BY <1>1, <1>9, <1>3, Flow, PostClientFlow
  DEF SnPingReq, SnDisconnect, PostClient, PostBroker, Done, messages
<1>10. CASE HandleBroker
  <2>1. CASE TakeBrokerRecv
    <3>1. /\ UNCHANGED <<clientRecv, brokerRecv, sleepQue>>
          /\ c'.at = BrokerMessage.type
      BY <2>1 DEF TakeBrokerRecv, messages, CGoto, TypeThreads, BrokerMessage
    <3> QED
      BY <2>1, <3>1, Flow DEF HandlerFits, BrokerMessage
  <2>2. CASE Flush
    <3>1. c'.at = "flushing" => sleepQue' # << >>
      BY <2>2 DEF Flush, messages, CGoto, TypeThreads
    <3> QED
      BY <2>2, <3>1, Flow DEF HandlerFits
  <2>3. CASE FlushOne
    <3>1. sleepQue' # << >>
      BY <2>3 DEF FlushOne, Ready
    <3> QED
      BY <2>3, <3>1, Flow DEF HandlerFits
  <2> QED
    BY <1>1, <1>10, <2>1, <2>2, <2>3, <1>3, Flow, PostClientFlow
    DEF HandleBroker, Connack, ConnackForward, ConnackPost, Pingresp,
        PublishAsleep, PublishAwake, PublishForward, BrokerDone, messages
<1>11. CASE BrokerSendTask
  BY <1>1, <1>11, <1>3, Flow, PostClientFlow
  DEF BrokerSendTask, TakeBrokerSend, ConnectSended, Send, SendFails,
      SendDisconnected, SendClose, SendDone, messages
<1>12. CASE BrokerRecvTask \/ ClientSendTask
  <2>1. CASE RecvBroker
    <3>1. /\ UNCHANGED <<c, clientRecv, sleepQue>>
          /\ brokerRecv' = Append(brokerRecv, Head(fromBroker))
      BY <2>1 DEF RecvBroker
    <3>2. brokerRecv # << >> => Head(brokerRecv') = Head(brokerRecv)
      BY <3>1, <2>1 DEF TypeMessages, TypeBroker, RecvBroker
    <3> QED
      BY <3>1, <3>2
      DEF HandlerFits, Ready, AtBroker, ClientMessage, BrokerMessage
  <2> QED
    BY <1>1, <1>12, <2>1, <1>3, Flow, PostClientFlow
    DEF BrokerRecvTask, ClientSendTask, RecvFails, SendClient, messages
<1>13. CASE BrokerPublish \/ BrokerCut
  BY <1>1, <1>13, <1>3, Flow, PostClientFlow
  DEF BrokerPublish, BrokerCut, messages
<1> QED
  BY <1>4, <1>5, <1>6, <1>7, <1>8, <1>9, <1>10, <1>11, <1>12, <1>13
  DEF Next, GatewayControlTask, HandleClient

(* and an MQTTConnect for a message received. *)
LEMMA MadeForStep ==
    ASSUME TypeObjects, TypeMessages, TypeThreads, TypeBroker, Ready, MadeFor,
          Next
    PROVE  MadeFor'
<1> DEFINE l == Len(clientRecv)
           h == One(r.at = "store")
           K == AtClient \ {"update", "CONNECT"}
           k == One(c.at \in K)
<1>1. made \in Nat /\ l \in Nat /\ received \in Nat /\ h \in Nat /\ k \in Nat
  BY DEF TypeObjects, TypeMessages, TypeBroker, One
<1>2. (h' = 0 \/ h' = 1) /\ (k' = 0 \/ k' = 1)
  BY DEF h, k, One
<1>3. made + l + h <= received + k
  BY DEF MadeFor
<1>4. made' + l' + h' <= received' + k' => MadeFor'
  BY DEF MadeFor
<1>5. UNCHANGED clientRecv => l' = l
  OBVIOUS
<1> HIDE DEF l, h, k
<1>6. ASSUME UNCHANGED <<made, clientRecv, received>>, h' = h, k = 0 \/ k' = k
      PROVE  MadeFor'
  <2>1. made' = made /\ l' = l /\ received' = received
    BY <1>6, <1>5
  <2>3. h' = h
    BY <1>6
  <2>2. k' = k \/ (k = 0 /\ k' = 1)
    BY <1>6, <1>2
  <2>4. made + l + h <= received + k'
    BY <1>1, <1>3, <2>2
  <2> QED
    BY <1>4, <2>1, <2>3, <2>4
<1>7. UNCHANGED r => h' = h
  BY DEF h, k, One
<1>8. UNCHANGED c \/ (c.at \in K <=> c'.at \in K) => k' = k
  BY DEF h, k, One
<1>9. CASE ClientRecvTask
  <2>1. ASSUME NEW m \in Inputs, RecvClient(m) PROVE MadeFor'
    <3>1. /\ UNCHANGED <<made, clientRecv, c>> /\ received' = received + 1
          /\ r.at = "idle"
      BY <2>1 DEF RecvClient, objects, messages
    <3>2. l' = l /\ h = 0 /\ k' = k
      BY <3>1 DEF l, h, k, One
    <3>3. made' = made /\ received' = received + 1
      BY <3>1
    <3>4. made + l + h' <= (received + 1) + k
      BY <1>1, <1>2, <1>3, <3>2
    <3> QED
      BY <1>4, <3>2, <3>3, <3>4
  <2>2. CASE RecvForget
    <3>1. /\ r.at # "store"
          /\ r'.at # "store"
          /\ UNCHANGED <<made, clientRecv, received, c>>
      BY <2>2 DEF RecvForget, TypeThreads, objects, messages, history
    <3> QED
      BY <1>6, <3>1 DEF h, k, One
  <2>3. CASE RecvStore
    <3>1. /\ UNCHANGED <<made, received, c>>
          /\ clientRecv' = Append(clientRecv, r.msg)
          /\ r.at = "store" /\ r'.at = "post"
      BY <2>3 DEF RecvStore, TypeThreads, objects, history
    <3>2. l' = l + 1
      BY <3>1 DEF l, TypeMessages
    <3>3. h = 1 /\ h' = 0 /\ k' = k
      BY <3>1 DEF h, k, One
    <3> QED
      BY <1>1, <1>2, <1>3, <1>4, <3>1, <3>2, <3>3
  <2>4. CASE RecvPost
    <3>1. /\ r.at # "store"
          /\ r'.at # "store"
          /\ UNCHANGED <<made, clientRecv, received, c>>
      BY <2>4 DEF RecvPost, TypeThreads, node, objects, messages, history
    <3> QED
      BY <1>6, <3>1 DEF h, k, One
  <2> QED
    BY <1>9, <2>1, <2>2, <2>3, <2>4 DEF ClientRecvTask
<1>10. CASE HandleTimeout \/ HandleSearchGw
  BY <1>6, <1>10, <1>7, <1>8, Flow, PostClientFlow
  DEF HandleTimeout, Timeout, Timeover, TimerRuns, TimeoverDisconnect,
      HandleSearchGw, AtClient, node, objects, messages, history
<1>11. CASE TakeClientRecv \/ UpdateStatus
  <2>1. CASE UpdateStatus
    <3>1. UNCHANGED <<made, clientRecv, received, r>>
      BY <2>1 DEF UpdateStatus, objects, messages, history
    <3>2. h' = h /\ k = 0
      BY <2>1, <3>1, Flow DEF h, k, One
    <3> QED
      BY <1>6, <3>1, <3>2
  <2> QED
    BY <1>6, <1>11, <2>1, <1>7, <1>8, Flow, PostClientFlow
    DEF TakeClientRecv, AtClient, node, objects, messages, history
<1>12. CASE HandleConnect
  <2>1. CASE SnConnect
    <3>1. UNCHANGED <<clientRecv, received, r>>
      BY <2>1 DEF SnConnect, messages, history
    <3>2. made' = made \/ made' = made + 1
      BY <2>1 DEF SnConnect, objects
    <3>3. l' = l /\ h' = h
      BY <3>1 DEF l, h
    <3>4. k = 0 /\ k' = 1
      BY <2>1, Flow DEF k, One, AtClient
    <3> QED
      BY <1>1, <1>2, <1>3, <1>4, <3>1, <3>2, <3>3, <3>4
  <2> QED
    BY <1>6, <1>12, <2>1, <1>7, <1>8, Flow, PostClientFlow
    DEF HandleConnect, SnConnectWill, SnConnectForward, ConnectQued,
        SnConnectPush, AtClient, node, objects, messages, history
<1>13. CASE HandleWill
  BY <1>6, <1>13, <1>7, <1>8, Flow, PostClientFlow
  DEF HandleWill, SnWillTopic, SnWillMsg, SnWillMsgQued, SnWillMsgForward,
      SnWillMsgReject, SnWillMsgSaved, SnWillMsgWait, SnWillMsgConnack,
      AtClient, node, objects, messages, history
<1>14. CASE SnPingReq \/ SnDisconnect \/ PostClient \/ PostBroker \/ Done
  <2>1. CASE Done
    <3>1. /\ UNCHANGED <<made, received, r>>
          /\ clientRecv' = Tail(clientRecv)
          /\ clientRecv # << >>
      BY <2>1 DEF Done, Ready, AtClient, node, objects, history
    <3>2. l' = l - 1
      BY <3>1 DEF l, TypeMessages
    <3>3. h' = h
      BY <3>1 DEF h
    <3>4. k = 1 /\ k' = 0
      BY <2>1, Flow DEF k, One, AtClient
    <3> QED
      BY <1>1, <1>2, <1>3, <1>4, <3>1, <3>2, <3>3, <3>4
  <2> QED
    BY <1>6, <1>14, <2>1, <1>7, <1>8, Flow, PostClientFlow
    DEF SnPingReq, SnDisconnect, PostClient, PostBroker, AtClient, node,
        objects, messages, history
<1>15. CASE HandleBroker
  BY <1>6, <1>15, <1>7, <1>8, Flow, PostClientFlow
  DEF HandleBroker, TakeBrokerRecv, Connack, ConnackForward, ConnackPost,
      Flush, FlushOne, Pingresp, PublishAsleep, PublishAwake, PublishForward,
      BrokerDone, AtClient, node, objects, messages, history
<1>16. CASE BrokerSendTask
  BY <1>6, <1>16, <1>7, <1>8, Flow, PostClientFlow
  DEF BrokerSendTask, TakeBrokerSend, ConnectSended, Send, SendFails,
      SendDisconnected, SendClose, SendDone, AtClient, node, objects,
      messages, history
<1>17. CASE BrokerRecvTask \/ ClientSendTask
  <2>1. CASE SendClient
    <3>1. UNCHANGED <<made, clientRecv, received, r, c>>
      BY <2>1 DEF SendClient, node, objects
    <3> QED
      BY <1>6, <3>1 DEF h, k
  <2> QED
    BY <1>6, <1>17, <2>1, <1>7, <1>8, Flow, PostClientFlow
    DEF BrokerRecvTask, ClientSendTask, RecvBroker, RecvFails, AtClient, node,
        objects, messages, history
<1>18. CASE BrokerPublish \/ BrokerCut
  BY <1>6, <1>18, <1>7, <1>8, Flow, PostClientFlow
  DEF BrokerPublish, BrokerCut, AtClient, node, objects, messages, history
<1> QED
  BY <1>9, <1>10, <1>11, <1>12, <1>13, <1>14, <1>15, <1>16, <1>17, <1>18
  DEF Next, GatewayControlTask, HandleClient

-----------------------------------------------------------------------------
(* Every step keeps the events of the client paired with messages, *)
LEMMA ClientRecvPairedStep ==
    ASSUME TypeMessages, TypeEvents, TypeThreads, Ready, NoSearchGw,
          ClientRecvPaired, Next, TypeMessages', TypeEvents'
    PROVE  ClientRecvPaired'
<1> DEFINE l == Len(clientRecv)
           n == Count(gwQue, "clientRecv")
           a == One(c.at \in AtClient)
           p == One(r.at = "post" /\ r.msg.type # "SEARCHGW")
<1>1. gwQue \in Seq({"clientRecv", "brokerRecv", "broadcast"})
  BY DEF TypeEvents
<1>2. gwQue' \in Seq({"clientRecv", "brokerRecv", "broadcast"})
  BY DEF TypeEvents
<1>3. l \in Nat /\ l' \in Nat
  BY DEF TypeMessages
<1>4. l \in Nat /\ n \in Nat
  BY <1>3, <1>1, Places
<1>5. l' \in Nat /\ n' \in Nat
  BY <1>3, <1>2, Places
<1>6. (a = 0 \/ a = 1) /\ (p = 0 \/ p = 1)
  BY DEF One
<1>7. l = n + a + p
  BY DEF ClientRecvPaired
<1>8. l' = n' + a' + p' => ClientRecvPaired'
  BY DEF ClientRecvPaired
<1>9. \A x \in {"clientRecv", "brokerRecv", "broadcast"} :
         Count(Append(gwQue, x), "clientRecv") = n + One(x = "clientRecv")
  BY <1>1, CountAppend
<1>10. gwQue # << >>
         => n = Count(Tail(gwQue), "clientRecv") + One(Head(gwQue) = "clientRecv")
  BY <1>1, CountTail
<1>11. UNCHANGED clientRecv => l' = l
  BY DEF One
<1>12. UNCHANGED gwQue => n' = n
  BY DEF One
<1>13. UNCHANGED c \/ ((c.at \in AtClient) <=> (c.at \in AtClient)') => a' = a
  BY DEF One
<1>14. UNCHANGED r \/ ((r.at = "post" /\ r.msg.type # "SEARCHGW")
                           <=> (r.at = "post" /\ r.msg.type # "SEARCHGW")')
         => p' = p
  BY DEF One
<1> HIDE DEF l, n, a, p
<1>15. l' = l /\ n' = n /\ a' = a /\ p' = p => ClientRecvPaired'
  BY <1>7, <1>8
<1>16. CASE ClientRecvTask
  <2>1. ASSUME NEW m \in Inputs, RecvClient(m) PROVE ClientRecvPaired'
    <3>1. UNCHANGED <<clientRecv, gwQue, c>> /\ r.at = "idle"
      BY <2>1 DEF RecvClient, messages, events
    <3>2. r'.at = "post" => r'.msg.type = "SEARCHGW"
      BY <2>1 DEF RecvClient
    <3>3. p = 0 /\ p' = 0
      BY <3>1, <3>2 DEF p, One
    <3> QED
      BY <1>15, <1>11, <1>12, <1>13, <1>14, <3>1, <3>3
  <2>2. CASE RecvForget
    <3>1. /\ UNCHANGED <<clientRecv, gwQue, c>>
          /\ r.at = "forget"
          /\ r'.msg = r.msg
      BY <2>2 DEF RecvForget, messages, events, TypeThreads
    <3>2. p = 0 /\ p' = 0
      BY <3>1 DEF NoSearchGw, p, One
    <3> QED
      BY <1>15, <1>11, <1>12, <1>13, <1>14, <3>1, <3>2
  <2>3. CASE RecvStore
    <3>1. /\ clientRecv' = Append(clientRecv, r.msg) /\ r.at = "store"
          /\ r' = [r EXCEPT !.at = "post"]
          /\ UNCHANGED <<gwQue, c>>
      BY <2>3 DEF RecvStore, events
    <3>2. l' = l + 1
      BY <3>1 DEF l, TypeMessages, TypeThreads
    <3>3. p = 0 /\ p' = 1
      BY <3>1 DEF NoSearchGw, TypeThreads, p, One
    <3> QED
      BY <1>4, <1>7, <1>8, <1>11, <1>12, <1>13, <1>14, <1>6, <3>1, <3>2, <3>3
  <2>4. CASE RecvPost
    <3>1. UNCHANGED <<clientRecv, c>> /\ r.at = "post" /\ r'.at = "idle"
      BY <2>4 DEF RecvPost, messages, TypeThreads
    <3>2. p' = 0
      BY <3>1 DEF p, One
    <3>3. r.msg.type = "SEARCHGW" => p = 0 /\ n' = n
      BY <1>4, <1>9, <3>1, <2>4 DEF RecvPost, p, n, One
    <3>4. r.msg.type # "SEARCHGW" => p = 1 /\ n' = n + 1
      BY <1>4, <1>9, <3>1, <2>4 DEF RecvPost, p, n, One
    <3> QED
      BY <1>4, <1>7, <1>8, <1>11, <1>12, <1>13, <1>14, <1>6, <3>1, <3>2, <3>3,
             <3>4
  <2> QED
    BY <1>16, <2>1, <2>2, <2>3, <2>4 DEF ClientRecvTask
<1>17. CASE HandleTimeout \/ HandleSearchGw
  <2>1. CASE HandleSearchGw
    <3>1. /\ UNCHANGED <<clientRecv, c, r>>
          /\ gwQue # << >>
          /\ Head(gwQue) = "broadcast"
          /\ gwQue' = Tail(gwQue)
      BY <2>1 DEF HandleSearchGw, messages
    <3>2. n' = n
      BY <1>5, <1>10, <3>1 DEF n, One
    <3> QED
      BY <1>15, <1>11, <1>12, <1>13, <1>14, <3>1, <3>2
  <2> QED
    BY <1>15, <1>17, <2>1, <1>11, <1>12, <1>13, <1>14, Flow, PostClientFlow
    DEF HandleTimeout, Timeout, Timeover, TimerRuns, TimeoverDisconnect,
        AtClient, node, messages, events
<1>18. CASE TakeClientRecv \/ UpdateStatus
  <2>1. CASE TakeClientRecv
    <3>1. /\ UNCHANGED <<clientRecv, r>>
          /\ gwQue # << >>
          /\ Head(gwQue) = "clientRecv"
          /\ gwQue' = Tail(gwQue)
      BY <2>1 DEF TakeClientRecv, messages
    <3>2. n = n' + 1
      BY <1>10, <3>1 DEF n, One
    <3>3. a = 0 /\ a' = 1
      BY <2>1, Flow DEF a, One, AtClient
    <3> QED
      BY <1>4, <1>7, <1>8, <1>11, <1>12, <1>13, <1>14, <1>5, <1>6, <3>1, <3>2,
             <3>3
  <2> QED
    BY <1>15, <1>18, <2>1, <1>11, <1>12, <1>13, <1>14, Flow, PostClientFlow
    DEF UpdateStatus, AtClient, node, messages, events
<1>19. CASE HandleConnect
  BY <1>15, <1>19, <1>11, <1>12, <1>13, <1>14, Flow, PostClientFlow
  DEF HandleConnect, SnConnect, SnConnectWill, SnConnectForward, ConnectQued,
      SnConnectPush, AtClient, node, messages, events
<1>20. CASE HandleWill
  BY <1>15, <1>20, <1>11, <1>12, <1>13, <1>14, Flow, PostClientFlow
  DEF HandleWill, SnWillTopic, SnWillMsg, SnWillMsgQued, SnWillMsgForward,
      SnWillMsgReject, SnWillMsgSaved, SnWillMsgWait, SnWillMsgConnack,
      AtClient, node, messages, events
<1>21. CASE SnPingReq \/ SnDisconnect \/ PostClient \/ PostBroker \/ Done
  <2>1. CASE Done
    <3>1. /\ UNCHANGED <<gwQue, r>>
          /\ clientRecv' = Tail(clientRecv)
          /\ clientRecv # << >>
      BY <2>1 DEF Done, Ready, AtClient, events
    <3>2. l' = l - 1
      BY <3>1 DEF l, TypeMessages
    <3>3. a = 1 /\ a' = 0
      BY <2>1, Flow DEF a, One, AtClient
    <3>4. n' = n /\ p' = p
      BY <1>11, <1>12, <1>13, <1>14, <3>1
    <3> QED
      BY <1>4, <1>7, <1>8, <1>6, <1>5, <3>2, <3>3, <3>4
  <2> QED
    BY <1>15, <1>21, <2>1, <1>11, <1>12, <1>13, <1>14, Flow, PostClientFlow
    DEF SnPingReq, SnDisconnect, PostClient, PostBroker, AtClient, node,
        messages, events
<1>22. CASE HandleBroker
  <2>1. CASE TakeBrokerRecv
    <3>1. /\ UNCHANGED <<clientRecv, r>>
          /\ gwQue # << >>
          /\ Head(gwQue) = "brokerRecv"
          /\ gwQue' = Tail(gwQue)
      BY <2>1 DEF TakeBrokerRecv, messages
    <3>2. n' = n
      BY <1>5, <1>10, <3>1 DEF n, One
    <3>3. a' = a
      BY <2>1, Flow DEF a, One, AtClient
    <3> QED
      BY <1>15, <1>11, <1>12, <1>13, <1>14, <3>1, <3>2, <3>3
  <2> QED
    BY <1>15, <1>22, <2>1, <1>11, <1>12, <1>13, <1>14, Flow, PostClientFlow
    DEF HandleBroker, Connack, ConnackForward, ConnackPost, Flush, FlushOne,
        Pingresp, PublishAsleep, PublishAwake, PublishForward, BrokerDone,
        AtClient, node, messages, events
<1>23. CASE BrokerSendTask
  BY <1>15, <1>23, <1>11, <1>12, <1>13, <1>14, Flow, PostClientFlow
  DEF BrokerSendTask, TakeBrokerSend, ConnectSended, Send, SendFails,
      SendDisconnected, SendClose, SendDone, AtClient, node, messages, events
<1>24. CASE BrokerRecvTask \/ ClientSendTask
  <2>1. CASE RecvBroker
    <3>1. UNCHANGED <<clientRecv, r, c>> /\ gwQue' = Append(gwQue, "brokerRecv")
      BY <2>1 DEF RecvBroker
    <3>2. n' = n
      BY <1>4, <1>9, <3>1 DEF n, One
    <3> QED
      BY <1>15, <1>11, <1>12, <1>13, <1>14, <3>1, <3>2
  <2> QED
    BY <1>15, <1>24, <2>1, <1>11, <1>12, <1>13, <1>14, Flow, PostClientFlow
    DEF BrokerRecvTask, ClientSendTask, RecvFails, SendClient, AtClient, node,
        messages, events
<1>25. CASE BrokerPublish \/ BrokerCut
  BY <1>15, <1>25, <1>11, <1>12, <1>13, <1>14, Flow, PostClientFlow
  DEF BrokerPublish, BrokerCut, AtClient, node, messages, events
<1> QED
  BY <1>16, <1>17, <1>18, <1>19, <1>20, <1>21, <1>22, <1>23, <1>24, <1>25
  DEF Next, GatewayControlTask, HandleClient

(* those of the broker, *)
LEMMA BrokerRecvPairedStep ==
    ASSUME TypeMessages, TypeEvents, TypeThreads, TypeBroker, Ready,
          BrokerRecvPaired, Next, TypeMessages', TypeEvents'
    PROVE  BrokerRecvPaired'
<1> DEFINE l == Len(brokerRecv)
           n == Count(gwQue, "brokerRecv")
           a == One(c.at \in AtBroker)
<1>1. gwQue \in Seq({"clientRecv", "brokerRecv", "broadcast"})
  BY DEF TypeEvents
<1>2. gwQue' \in Seq({"clientRecv", "brokerRecv", "broadcast"})
  BY DEF TypeEvents
<1>3. l \in Nat /\ l' \in Nat
  BY DEF TypeMessages
<1>4. l \in Nat /\ n \in Nat
  BY <1>3, <1>1, Places
<1>5. l' \in Nat /\ n' \in Nat
  BY <1>3, <1>2, Places
<1>6. (a = 0 \/ a = 1)
  BY DEF One
<1>7. l = n + a
  BY DEF BrokerRecvPaired
<1>8. l' = n' + a' => BrokerRecvPaired'
  BY DEF BrokerRecvPaired
<1>9. \A x \in {"clientRecv", "brokerRecv", "broadcast"} :
         Count(Append(gwQue, x), "brokerRecv") = n + One(x = "brokerRecv")
  BY <1>1, CountAppend
<1>10. gwQue # << >>
         => n = Count(Tail(gwQue), "brokerRecv") + One(Head(gwQue) = "brokerRecv")
  BY <1>1, CountTail
<1>11. UNCHANGED brokerRecv => l' = l
  BY DEF One
<1>12. UNCHANGED gwQue => n' = n
  BY DEF One
<1>13. UNCHANGED c \/ ((c.at \in AtBroker) <=> (c.at \in AtBroker)') => a' = a
  BY DEF One
<1> HIDE DEF l, n, a
<1>14. l' = l /\ n' = n /\ a' = a => BrokerRecvPaired'
  BY <1>7, <1>8
<1>15. CASE ClientRecvTask
  <2>1. CASE RecvPost
    <3>1. UNCHANGED <<brokerRecv, c>>
      BY <2>1 DEF RecvPost, messages
    <3>2. n' = n
      BY <1>4, <1>9, <2>1 DEF RecvPost, n, One
    <3> QED
      BY <1>14, <1>11, <1>12, <1>13, <3>1, <3>2
  <2> QED
    BY <1>14, <1>15, <2>1, <1>11, <1>12, <1>13, Flow, PostClientFlow
    DEF ClientRecvTask, RecvClient, RecvForget, RecvStore, AtBroker, node,
        messages, events
<1>16. CASE HandleTimeout \/ HandleSearchGw
  <2>1. CASE HandleSearchGw
    <3>1. UNCHANGED <<brokerRecv, c>>
      BY <2>1 DEF HandleSearchGw, messages
    <3>2. n' = n
      BY <1>5, <1>10, <2>1 DEF HandleSearchGw, n, One
    <3> QED
      BY <1>14, <1>11, <1>12, <1>13, <3>1, <3>2
  <2> QED
    BY <1>14, <1>16, <2>1, <1>11, <1>12, <1>13, Flow, PostClientFlow
    DEF HandleTimeout, Timeout, Timeover, TimerRuns, TimeoverDisconnect,
        AtBroker, node, messages, events
<1>17. CASE TakeClientRecv \/ UpdateStatus
  <2>1. CASE TakeClientRecv
    <3>1. UNCHANGED brokerRecv
      BY <2>1 DEF TakeClientRecv, messages
    <3>2. n' = n
      BY <1>5, <1>10, <2>1 DEF TakeClientRecv, n, One
    <3>3. a' = a
      BY <2>1, Flow DEF a, One, AtBroker
    <3> QED
      BY <1>14, <1>11, <1>12, <1>13, <3>1, <3>2, <3>3
  <2> QED
    BY <1>14, <1>17, <2>1, <1>11, <1>12, <1>13, Flow, PostClientFlow
    DEF UpdateStatus, AtBroker, node, messages, events
<1>18. CASE HandleConnect
  BY <1>14, <1>18, <1>11, <1>12, <1>13, Flow, PostClientFlow
  DEF HandleConnect, SnConnect, SnConnectWill, SnConnectForward, ConnectQued,
      SnConnectPush, AtBroker, node, messages, events
<1>19. CASE HandleWill
  BY <1>14, <1>19, <1>11, <1>12, <1>13, Flow, PostClientFlow
  DEF HandleWill, SnWillTopic, SnWillMsg, SnWillMsgQued, SnWillMsgForward,
      SnWillMsgReject, SnWillMsgSaved, SnWillMsgWait, SnWillMsgConnack,
      AtBroker, node, messages, events
<1>20. CASE SnPingReq \/ SnDisconnect \/ PostClient \/ PostBroker \/ Done
  BY <1>14, <1>20, <1>11, <1>12, <1>13, Flow, PostClientFlow
  DEF SnPingReq, SnDisconnect, PostClient, PostBroker, Done, AtBroker, node,
      messages, events
<1>21. CASE HandleBroker
  <2>1. CASE TakeBrokerRecv
    <3>1. UNCHANGED brokerRecv
      BY <2>1 DEF TakeBrokerRecv, messages
    <3>2. n = n' + 1
      BY <1>5, <1>10, <2>1 DEF TakeBrokerRecv, n, One
    <3>3. a = 0 /\ a' = 1
      BY <2>1, Flow DEF a, One, AtBroker
    <3>4. l' = l
      BY <1>11, <1>12, <1>13, <3>1
    <3> QED
      BY <1>4, <1>7, <1>8, <1>5, <3>2, <3>3, <3>4
  <2>2. CASE BrokerDone
    <3>1. brokerRecv' = Tail(brokerRecv) /\ brokerRecv # << >>
      BY <2>2 DEF BrokerDone, Ready, AtBroker
    <3>2. l' = l - 1
      BY <3>1 DEF l, TypeMessages
    <3>3. a = 1 /\ a' = 0
      BY <2>2, Flow DEF a, One, AtBroker
    <3>4. n' = n
      BY <1>11, <1>12, <1>13, <2>2 DEF BrokerDone, events
    <3> QED
      BY <1>4, <1>7, <1>8, <1>5, <3>2, <3>3, <3>4
  <2> QED
    BY <1>14, <1>21, <2>1, <2>2, <1>11, <1>12, <1>13, Flow, PostClientFlow
    DEF HandleBroker, Connack, ConnackForward, ConnackPost, Flush, FlushOne,
        Pingresp, PublishAsleep, PublishAwake, PublishForward, AtBroker, node,
        messages, events
<1>22. CASE BrokerSendTask
  BY <1>14, <1>22, <1>11, <1>12, <1>13, Flow, PostClientFlow
  DEF BrokerSendTask, TakeBrokerSend, ConnectSended, Send, SendFails,
      SendDisconnected, SendClose, SendDone, AtBroker, node, messages, events
<1>23. CASE BrokerRecvTask \/ ClientSendTask
  <2>1. CASE RecvBroker
    <3>1. /\ brokerRecv' = Append(brokerRecv, Head(fromBroker))
          /\ Head(fromBroker) \in BrokerPacket
      BY <2>1 DEF RecvBroker, TypeBroker
    <3>2. l' = l + 1
      BY <3>1 DEF l, TypeMessages
    <3>3. n' = n + 1
      BY <1>4, <1>9, <2>1 DEF RecvBroker, n, One
    <3>4. a' = a
      BY <1>11, <1>12, <1>13, <2>1 DEF RecvBroker
    <3> QED
      BY <1>4, <1>7, <1>8, <1>6, <3>2, <3>3, <3>4
  <2> QED
    BY <1>14, <1>23, <2>1, <1>11, <1>12, <1>13, Flow, PostClientFlow
    DEF BrokerRecvTask, ClientSendTask, RecvFails, SendClient, AtBroker, node,
        messages, events
<1>24. CASE BrokerPublish \/ BrokerCut
  BY <1>14, <1>24, <1>11, <1>12, <1>13, Flow, PostClientFlow
  DEF BrokerPublish, BrokerCut, AtBroker, node, messages, events
<1> QED
  BY <1>15, <1>16, <1>17, <1>18, <1>19, <1>20, <1>21, <1>22, <1>23, <1>24
  DEF Next, GatewayControlTask, HandleClient

(* those for the broker, *)
LEMMA BrokerSendPairedStep ==
    ASSUME TypeObjects, TypeMessages, TypeEvents, TypeThreads, Ready,
          BrokerSendPaired, Next, TypeMessages', TypeEvents'
    PROVE  BrokerSendPaired'
<1> DEFINE l == Len(brokerSend)
           n == Len(bsQue)
           a == One(s.at # "idle")
           p == One(c.at \in {"post_broker", "post_both"})
<1>1. bsQue \in Seq({"brokerSend"})
  BY DEF TypeEvents
<1>2. l \in Nat /\ n \in Nat
  BY DEF TypeMessages, TypeEvents
<1>3. l' \in Nat /\ n' \in Nat
  BY DEF TypeMessages, TypeEvents
<1>4. (a = 0 \/ a = 1) /\ (p = 0 \/ p = 1)
  BY DEF One
<1>5. l = n + a + p
  BY DEF BrokerSendPaired
<1>6. l' = n' + a' + p' => BrokerSendPaired'
  BY DEF BrokerSendPaired
<1>7. brokerSend \in Seq(ToBroker)
  BY DEF TypeMessages
<1>8. c.obj \in Connect \cup {Null} /\ connMsg \in Connect \cup {Null}
  BY BoundsNat DEF TypeThreads, TypeObjects, Connect, Null
<1>9. UNCHANGED brokerSend => l' = l
  BY DEF One
<1>10. UNCHANGED bsQue => n' = n
  BY DEF One
<1>11. UNCHANGED s \/ ((s.at # "idle") <=> (s.at # "idle")') => a' = a
  BY DEF One
<1>12. UNCHANGED c \/ ((c.at \in {"post_broker", "post_both"})
                           <=> (c.at \in {"post_broker", "post_both"})')
         => p' = p
  BY DEF One
<1> HIDE DEF l, n, a, p
<1>13. l' = l /\ n' = n /\ a' = a /\ p' = p => BrokerSendPaired'
  BY <1>5, <1>6
<1>14. CASE ClientRecvTask
  BY <1>13, <1>14, <1>9, <1>10, <1>11, <1>12, Flow
  DEF ClientRecvTask, RecvClient, RecvForget, RecvStore, RecvPost,
      TypeThreads, node, messages, events
<1>15. CASE HandleTimeout \/ HandleSearchGw
  BY <1>13, <1>15, <1>9, <1>10, <1>11, <1>12, Flow
  DEF HandleTimeout, Timeout, Timeover, TimerRuns, TimeoverDisconnect,
      HandleSearchGw, TypeThreads, node, messages, events
<1>16. CASE TakeClientRecv \/ UpdateStatus
  BY <1>13, <1>16, <1>9, <1>10, <1>11, <1>12, Flow
  DEF TakeClientRecv, UpdateStatus, TypeThreads, node, messages, events
<1>17. CASE HandleConnect
  <2>1. CASE SnConnectPush
    <3>1. /\ brokerSend' =
              Append(brokerSend, [type |-> "CONNECT", obj |-> c.obj])
          /\ UNCHANGED <<bsQue, s>>
      BY <2>1 DEF SnConnectPush, events
    <3>2. [type |-> "CONNECT", obj |-> c.obj] \in ToBroker
      BY <1>8 DEF ToBroker
    <3>3. l' = l + 1
      BY <3>1, <3>2 DEF l, TypeMessages
    <3>4. p = 0 /\ p' = 1
      BY <2>1, Flow DEF p, One
    <3>5. n' = n /\ a' = a
      BY <1>9, <1>10, <1>11, <1>12, <3>1
    <3> QED
      BY <1>2, <1>5, <1>6, <1>4, <3>3, <3>4, <3>5
  <2> QED
    BY <1>13, <1>17, <2>1, <1>9, <1>10, <1>11, <1>12, Flow
    DEF HandleConnect, SnConnect, SnConnectWill, SnConnectForward,
        ConnectQued, TypeThreads, node, messages, events
<1>18. CASE HandleWill
  <2>1. CASE SnWillMsgForward
    <3>1. /\ brokerSend' =
              Append(brokerSend, [type |-> "CONNECT", obj |-> connMsg])
          /\ UNCHANGED <<bsQue, s>>
      BY <2>1 DEF SnWillMsgForward, events
    <3>2. [type |-> "CONNECT", obj |-> connMsg] \in ToBroker
      BY <1>8 DEF ToBroker
    <3>3. l' = l + 1
      BY <3>1, <3>2 DEF l, TypeMessages
    <3>4. p = 0 /\ p' = 1
      BY <2>1, Flow DEF p, One
    <3>5. n' = n /\ a' = a
      BY <1>9, <1>10, <1>11, <1>12, <3>1
    <3> QED
      BY <1>2, <1>5, <1>6, <1>4, <3>3, <3>4, <3>5
  <2> QED
    BY <1>13, <1>18, <2>1, <1>9, <1>10, <1>11, <1>12, Flow
    DEF HandleWill, SnWillTopic, SnWillMsg, SnWillMsgQued, SnWillMsgReject,
        SnWillMsgSaved, SnWillMsgWait, SnWillMsgConnack, TypeThreads, node,
        messages, events
<1>19. CASE SnPingReq \/ SnDisconnect \/ PostClient \/ PostBroker \/ Done
  <2>1. CASE SnPingReq
    <3>1. /\ brokerSend' = Append(brokerSend, [type |-> "PINGREQ"])
          /\ UNCHANGED <<bsQue, s>>
      BY <2>1 DEF SnPingReq, events
    <3>2. [type |-> "PINGREQ"] \in ToBroker
      BY DEF ToBroker
    <3>3. l' = l + 1
      BY <3>1, <3>2 DEF l, TypeMessages
    <3>4. p = 0 /\ p' = 1
      BY <2>1, Flow DEF p, One
    <3>5. n' = n /\ a' = a
      BY <1>9, <1>10, <1>11, <1>12, <3>1
    <3> QED
      BY <1>2, <1>5, <1>6, <1>4, <3>3, <3>4, <3>5
  <2>2. CASE SnDisconnect
    <3>1. /\ brokerSend' = Append(brokerSend, [type |-> "DISCONNECT"])
          /\ UNCHANGED <<bsQue, s>>
      BY <2>2 DEF SnDisconnect, events
    <3>2. [type |-> "DISCONNECT"] \in ToBroker
      BY DEF ToBroker
    <3>3. l' = l + 1
      BY <3>1, <3>2 DEF l, TypeMessages
    <3>4. p = 0 /\ p' = 1
      BY <2>2, Flow DEF p, One
    <3>5. n' = n /\ a' = a
      BY <1>9, <1>10, <1>11, <1>12, <3>1
    <3> QED
      BY <1>2, <1>5, <1>6, <1>4, <3>3, <3>4, <3>5
  <2>3. CASE PostClient
    <3>1. UNCHANGED <<brokerSend, bsQue, s>>
      BY <2>3 DEF PostClient, messages
    <3>2. p' = p
      BY <2>3, PostClientFlow DEF p, One
    <3> QED
      BY <1>13, <1>9, <1>10, <1>11, <1>12, <3>1, <3>2
  <2>4. CASE PostBroker
    <3>1. UNCHANGED <<brokerSend, s>> /\ bsQue' = Append(bsQue, "brokerSend")
      BY <2>4 DEF PostBroker, messages
    <3>2. n' = n + 1
      BY <1>1, <3>1 DEF n
    <3>3. p = 1 /\ p' = 0
      BY <2>4, Flow DEF p, One
    <3>4. l' = l /\ a' = a
      BY <1>9, <1>10, <1>11, <1>12, <3>1
    <3> QED
      BY <1>2, <1>5, <1>6, <1>4, <3>2, <3>3, <3>4
  <2> QED
    BY <1>13, <1>19, <2>1, <2>2, <2>3, <2>4, <1>9, <1>10, <1>11, <1>12, Flow
    DEF Done, TypeThreads, node, messages, events
<1>20. CASE HandleBroker
  <2>1. CASE PublishAsleep
    <3>1. \/ UNCHANGED <<brokerSend, bsQue>>
          \/ /\ brokerSend' = Append(brokerSend, [type |-> "PUBACK"])
             /\ bsQue' = Append(bsQue, "brokerSend")
      BY <2>1 DEF PublishAsleep
    <3>2. [type |-> "PUBACK"] \in ToBroker
      BY DEF ToBroker
    <3>3. (l' = l /\ n' = n) \/ (l' = l + 1 /\ n' = n + 1)
      BY <1>7, <1>1, <1>9, <1>10, <1>11, <1>12, <3>1, <3>2 DEF l, n
    <3>4. p' = p /\ a' = a
      BY <1>9, <1>10, <1>11, <1>12, <2>1, Flow DEF PublishAsleep
    <3> QED
      BY <1>2, <1>5, <1>6, <1>4, <3>3, <3>4
  <2> QED
    BY <1>13, <1>20, <2>1, <1>9, <1>10, <1>11, <1>12, Flow
    DEF HandleBroker, TakeBrokerRecv, Connack, ConnackForward, ConnackPost,
        Flush, FlushOne, Pingresp, PublishAwake, PublishForward, BrokerDone,
        TypeThreads, node, messages, events
<1>21. CASE BrokerSendTask
  <2>1. CASE TakeBrokerSend
    <3>1. UNCHANGED <<brokerSend, c>> /\ bsQue # << >> /\ bsQue' = Tail(bsQue)
      BY <2>1 DEF TakeBrokerSend, messages
    <3>2. s.at = "idle" /\ s'.at # "idle"
      BY <2>1 DEF TakeBrokerSend
    <3>3. n = n' + 1
      BY <1>1, <3>1 DEF n
    <3>4. a = 0 /\ a' = 1
      BY <3>2 DEF a, One
    <3>5. l' = l /\ p' = p
      BY <1>9, <1>10, <1>11, <1>12, <3>1
    <3> QED
      BY <1>2, <1>5, <1>6, <1>3, <1>4, <3>3, <3>4, <3>5
  <2>2. CASE SendDone
    <3>1. /\ brokerSend' = Tail(brokerSend)
          /\ brokerSend # << >>
          /\ UNCHANGED <<bsQue, c>>
      BY <2>2 DEF SendDone, Ready, events
    <3>2. s.at = "done" /\ s'.at = "idle"
      BY <2>2 DEF SendDone, TypeThreads
    <3>3. l' = l - 1
      BY <1>7, <3>1 DEF l
    <3>4. a = 1 /\ a' = 0
      BY <3>2 DEF a, One
    <3>5. n' = n /\ p' = p
      BY <1>9, <1>10, <1>11, <1>12, <3>1
    <3> QED
      BY <1>2, <1>5, <1>6, <1>3, <1>4, <3>3, <3>4, <3>5
  <2> QED
    BY <1>13, <1>21, <2>1, <2>2, <1>9, <1>10, <1>11, <1>12, Flow
    DEF BrokerSendTask, ConnectSended, Send, SendFails, SendDisconnected,
        SendClose, TypeThreads, node, messages, events
<1>22. CASE BrokerRecvTask \/ ClientSendTask
  BY <1>13, <1>22, <1>9, <1>10, <1>11, <1>12, Flow
  DEF BrokerRecvTask, ClientSendTask, RecvBroker, RecvFails, SendClient,
      TypeThreads, node, messages, events
<1>23. CASE BrokerPublish \/ BrokerCut
  BY <1>13, <1>23, <1>9, <1>10, <1>11, <1>12, Flow
  DEF BrokerPublish, BrokerCut, TypeThreads, node, messages, events
<1> QED
  BY <1>14, <1>15, <1>16, <1>17, <1>18, <1>19, <1>20, <1>21, <1>22, <1>23
  DEF Next, GatewayControlTask, HandleClient

(* and those for the client. *)
LEMMA ClientSendPairedStep ==
    ASSUME TypeNode, TypeMessages, TypeEvents, TypeThreads, Ready,
          ClientSendPaired, Next, TypeMessages', TypeEvents'
    PROVE  ClientSendPaired'
<1> DEFINE l == Len(clientSend)
           n == Count(csQue, "unicast")
           p == One(c.at \in {"post_client", "post_both", "will_connack",
                               "connack_post"})
<1>1. csQue \in Seq({"unicast", "broadcast"})
  BY DEF TypeEvents
<1>2. csQue' \in Seq({"unicast", "broadcast"})
  BY DEF TypeEvents
<1>3. l \in Nat /\ l' \in Nat
  BY DEF TypeMessages
<1>4. l \in Nat /\ n \in Nat
  BY <1>3, <1>1, Places
<1>5. l' \in Nat /\ n' \in Nat
  BY <1>3, <1>2, Places
<1>6. (p = 0 \/ p = 1)
  BY DEF One
<1>7. l = n + p
  BY DEF ClientSendPaired
<1>8. l' = n' + p' => ClientSendPaired'
  BY DEF ClientSendPaired
<1>9. clientSend \in Seq(ToClient)
  BY DEF TypeMessages
<1>10. \A x \in {"unicast", "broadcast"} :
          Count(Append(csQue, x), "unicast") = n + One(x = "unicast")
  BY <1>1, CountAppend
<1>11. csQue # << >>
         => n = Count(Tail(csQue), "unicast") + One(Head(csQue) = "unicast")
  BY <1>1, CountTail
<1>12. UNCHANGED clientSend => l' = l
  BY DEF One
<1>13. UNCHANGED csQue => n' = n
  BY DEF One
<1>14. UNCHANGED c \/ ((c.at \in {"post_client", "post_both", "will_connack",
                                   "connack_post"})
                           <=> (c.at \in {"post_client", "post_both",
                                          "will_connack", "connack_post"})')
         => p' = p
  BY DEF One
<1> HIDE DEF l, n, p
<1>15. l' = l /\ n' = n /\ p' = p => ClientSendPaired'
  BY <1>7, <1>8
<1>16. CASE ClientRecvTask
  BY <1>15, <1>16, <1>12, <1>13, <1>14, Flow
  DEF ClientRecvTask, RecvClient, RecvForget, RecvStore, RecvPost, node,
      messages, events
<1>17. CASE HandleTimeout \/ HandleSearchGw
  <2>1. CASE HandleSearchGw
    <3>1. UNCHANGED <<clientSend, c>>
      BY <2>1 DEF HandleSearchGw, messages
    <3>2. n' = n
      BY <1>4, <1>10, <2>1 DEF HandleSearchGw, n, One
    <3> QED
      BY <1>15, <1>12, <1>13, <1>14, <3>1, <3>2
  <2> QED
    BY <1>15, <1>17, <2>1, <1>12, <1>13, <1>14, Flow
    DEF HandleTimeout, Timeout, Timeover, TimerRuns, TimeoverDisconnect, node,
        messages, events
<1>18. CASE TakeClientRecv \/ UpdateStatus
  BY <1>15, <1>18, <1>12, <1>13, <1>14, Flow
  DEF TakeClientRecv, UpdateStatus, node, messages, events
<1>19. CASE HandleConnect
  <2>1. CASE SnConnectWill
    <3>1. /\ clientSend' = Append(clientSend, [type |-> "WILLTOPICREQ"])
          /\ UNCHANGED csQue
      BY <2>1 DEF SnConnectWill, events
    <3>2. [type |-> "WILLTOPICREQ"] \in ToClient
      BY DEF ToClient
    <3>3. l' = l + 1
      BY <3>1, <3>2 DEF l, TypeMessages
    <3>4. p = 0 /\ p' = 1
      BY <2>1, Flow DEF p, One
    <3>5. n' = n
      BY <1>12, <1>13, <1>14, <3>1
    <3> QED
      BY <1>4, <1>7, <1>8, <1>6, <3>3, <3>4, <3>5
  <2> QED
    BY <1>15, <1>19, <2>1, <1>12, <1>13, <1>14, Flow
    DEF HandleConnect, SnConnect, SnConnectForward, ConnectQued,
        SnConnectPush, node, messages, events
<1>20. CASE HandleWill
  <2>1. CASE SnWillTopic
    <3>1. /\ clientSend' = Append(clientSend, [type |-> "WILLMSGREQ"])
          /\ UNCHANGED csQue
      BY <2>1 DEF SnWillTopic, events
    <3>2. [type |-> "WILLMSGREQ"] \in ToClient
      BY DEF ToClient
    <3>3. l' = l + 1
      BY <3>1, <3>2 DEF l, TypeMessages
    <3>4. p = 0 /\ p' = 1
      BY <2>1, Flow DEF p, One
    <3>5. n' = n
      BY <1>12, <1>13, <1>14, <3>1
    <3> QED
      BY <1>4, <1>7, <1>8, <1>6, <3>3, <3>4, <3>5
  <2>2. CASE SnWillMsgReject
    <3>1. /\ clientSend' =
              Append(clientSend, [type |-> "CONNACK", code |-> "rejected"])
          /\ UNCHANGED csQue
      BY <2>2 DEF SnWillMsgReject, events
    <3>2. [type |-> "CONNACK", code |-> "rejected"] \in ToClient
      BY DEF ToClient, Code
    <3>3. l' = l + 1
      BY <3>1, <3>2 DEF l, TypeMessages
    <3>4. p = 0 /\ p' = 1
      BY <2>2, Flow DEF p, One
    <3>5. n' = n
      BY <1>12, <1>13, <1>14, <3>1
    <3> QED
      BY <1>4, <1>7, <1>8, <1>6, <3>3, <3>4, <3>5
  <2>3. CASE SnWillMsgSaved
    <3>1. /\ clientSend' =
              Append(clientSend, [type |-> "CONNACK", code |-> connAck])
          /\ UNCHANGED csQue
      BY <2>3 DEF SnWillMsgSaved, events
    <3>2. [type |-> "CONNACK", code |-> connAck] \in ToClient
      BY <2>3 DEF SnWillMsgSaved, TypeNode, ToClient
    <3>3. l' = l + 1
      BY <3>1, <3>2 DEF l, TypeMessages
    <3>4. p = 0 /\ p' = 1
      BY <2>3, Flow DEF p, One
    <3>5. n' = n
      BY <1>12, <1>13, <1>14, <3>1
    <3> QED
      BY <1>4, <1>7, <1>8, <1>6, <3>3, <3>4, <3>5
  <2>4. CASE SnWillMsgWait
    <3>1. UNCHANGED csQue
      BY <2>4 DEF SnWillMsgWait, events
    <3>2. \/ UNCHANGED clientSend /\ c'.at = "done"
          \/ /\ clientSend' =
                   Append(clientSend, [type |-> "CONNACK", code |-> "rejected"])
             /\ c'.at = "will_connack"
      BY <2>4 DEF SnWillMsgWait, CGoto, TypeThreads
    <3>3. [type |-> "CONNACK", code |-> "rejected"] \in ToClient
      BY DEF ToClient, Code
    <3>4. p = 0 /\ n' = n
      BY <2>4, Flow, <1>12, <1>13, <1>14, <3>1 DEF p, One
    <3>5. (l' = l /\ p' = 0) \/ (l' = l + 1 /\ p' = 1)
      BY <1>9, <1>12, <1>13, <1>14, <3>2, <3>3 DEF l, p, One
    <3> QED
      BY <1>4, <1>7, <1>8, <1>6, <3>4, <3>5
  <2> QED
    BY <1>15, <1>20, <2>1, <2>2, <2>3, <2>4, <1>12, <1>13, <1>14, Flow
    DEF HandleWill, SnWillMsg, SnWillMsgQued, SnWillMsgForward,
        SnWillMsgConnack, node, messages, events
<1>21. CASE SnPingReq \/ SnDisconnect \/ PostClient \/ PostBroker \/ Done
  <2>1. CASE SnDisconnect
    <3>1. /\ clientSend' = Append(clientSend, [type |-> "DISCONNECT"])
          /\ UNCHANGED csQue
      BY <2>1 DEF SnDisconnect, events
    <3>2. [type |-> "DISCONNECT"] \in ToClient
      BY DEF ToClient
    <3>3. l' = l + 1
      BY <3>1, <3>2 DEF l, TypeMessages
    <3>4. p = 0 /\ p' = 1
      BY <2>1, Flow DEF p, One
    <3>5. n' = n
      BY <1>12, <1>13, <1>14, <3>1
    <3> QED
      BY <1>4, <1>7, <1>8, <1>6, <3>3, <3>4, <3>5
  <2>2. CASE PostClient
    <3>1. UNCHANGED clientSend /\ csQue' = Append(csQue, "unicast")
      BY <2>2 DEF PostClient, messages
    <3>2. n' = n + 1
      BY <1>4, <1>10, <3>1 DEF n, One
    <3>3. p = 1 /\ p' = 0
      BY <2>2, PostClientFlow DEF p, One
    <3>4. l' = l
      BY <1>12, <1>13, <1>14, <3>1
    <3> QED
      BY <1>4, <1>7, <1>8, <1>6, <3>2, <3>3, <3>4
  <2> QED
    BY <1>15, <1>21, <2>1, <2>2, <1>12, <1>13, <1>14, Flow
    DEF SnPingReq, PostBroker, Done, node, messages, events
<1>22. CASE HandleBroker
  <2>1. CASE ConnackForward
    <3>1. /\ clientSend' =
              Append(clientSend, [type |-> "CONNACK", code |-> c.code])
          /\ UNCHANGED csQue
      BY <2>1 DEF ConnackForward, events
    <3>2. [type |-> "CONNACK", code |-> c.code] \in ToClient
      BY DEF TypeThreads, ToClient
    <3>3. l' = l + 1
      BY <3>1, <3>2 DEF l, TypeMessages
    <3>4. p = 0 /\ p' = 1
      BY <2>1, Flow DEF p, One
    <3>5. n' = n
      BY <1>12, <1>13, <1>14, <3>1
    <3> QED
      BY <1>4, <1>7, <1>8, <1>6, <3>3, <3>4, <3>5
  <2>2. CASE ConnackPost
    <3>1. UNCHANGED clientSend /\ csQue' = Append(csQue, "unicast")
      BY <2>2 DEF ConnackPost, messages
    <3>2. n' = n + 1
      BY <1>4, <1>10, <3>1 DEF n, One
    <3>3. p = 1 /\ p' = 0
      BY <2>2, Flow DEF p, One
    <3>4. l' = l
      BY <1>12, <1>13, <1>14, <3>1
    <3> QED
      BY <1>4, <1>7, <1>8, <1>6, <3>2, <3>3, <3>4
  <2>3. CASE FlushOne
    <3>1. /\ clientSend' = Append(clientSend, Head(sleepQue))
          /\ csQue' = Append(csQue, "unicast")
      BY <2>3 DEF FlushOne
    <3>2. Head(sleepQue) \in ToClient
      BY <2>3 DEF FlushOne, Ready, TypeMessages
    <3>3. l' = l + 1
      BY <1>9, <3>1, <3>2 DEF l
    <3>4. n' = n + 1
      BY <1>4, <1>10, <3>1 DEF n, One
    <3>5. p' = p
      BY <2>3, Flow DEF p, One
    <3> QED
      BY <1>4, <1>7, <1>8, <1>6, <3>3, <3>4, <3>5
  <2>4. CASE Pingresp
    <3>1. /\ clientSend' = Append(clientSend, [type |-> "PINGRESP"])
          /\ csQue' = Append(csQue, "unicast")
      BY <2>4 DEF Pingresp
    <3>2. [type |-> "PINGRESP"] \in ToClient
      BY <2>4 DEF ToClient
    <3>3. l' = l + 1
      BY <1>9, <3>1, <3>2 DEF l
    <3>4. n' = n + 1
      BY <1>4, <1>10, <3>1 DEF n, One
    <3>5. p' = p
      BY <2>4, Flow DEF p, One
    <3> QED
      BY <1>4, <1>7, <1>8, <1>6, <3>3, <3>4, <3>5
  <2>5. CASE PublishForward
    <3>1. \/ UNCHANGED <<clientSend, csQue>>
          \/ /\ clientSend' = Append(clientSend, [type |-> "PUBLISH"])
             /\ csQue' = Append(csQue, "unicast")
      BY <2>5 DEF PublishForward
    <3>2. [type |-> "PUBLISH"] \in ToClient
      BY DEF ToClient
    <3>3. /\ Count(Append(csQue, "unicast"), "unicast") = n + 1
          /\ Len(Append(clientSend, [type |-> "PUBLISH"])) = l + 1
      BY <1>9, <1>10, <3>2 DEF One, l
    <3>4. (l' = l /\ n' = n) \/ (l' = l + 1 /\ n' = n + 1)
      BY <3>1, <3>3 DEF l, n
    <3>5. p' = p
      BY <2>5, Flow DEF p, One
    <3> QED
      BY <1>4, <1>7, <1>8, <1>6, <3>4, <3>5
  <2> QED
    BY <1>15, <1>22, <2>1, <2>2, <2>3, <2>4, <2>5, <1>12, <1>13, <1>14, Flow
    DEF HandleBroker, TakeBrokerRecv, Connack, Flush, PublishAsleep,
        PublishAwake, BrokerDone, node, messages, events
<1>23. CASE BrokerSendTask
  BY <1>15, <1>23, <1>12, <1>13, <1>14, Flow
  DEF BrokerSendTask, TakeBrokerSend, ConnectSended, Send, SendFails,
      SendDisconnected, SendClose, SendDone, node, messages, events
<1>24. CASE BrokerRecvTask \/ ClientSendTask
  <2>1. CASE SendClient
    <3>1. UNCHANGED c /\ csQue # << >> /\ csQue' = Tail(csQue)
      BY <2>1 DEF SendClient
    <3>2. p' = p
      BY <1>12, <1>13, <1>14, <3>1
    <3>3. Head(csQue) = "unicast"
            => clientSend # << >> /\ clientSend' = Tail(clientSend)
      BY <2>1 DEF SendClient, Ready
    <3>4. Head(csQue) = "unicast" => l' = l - 1
      BY <1>9, <3>1, <3>3 DEF l
    <3>5. Head(csQue) = "unicast" => n = n' + 1
      BY <1>11, <3>1 DEF n, One
    <3>6. Head(csQue) # "unicast" => l' = l /\ n' = n
      BY <1>12, <1>13, <1>14, <1>11, <1>5, <3>1, <2>1 DEF SendClient, n, One
    <3>7. l = n + p /\ p \in Nat
      BY <1>7, <1>6
    <3>8. ASSUME l' = l - 1, n = n' + 1 PROVE l' = n' + p
      BY <1>4, <1>5, <3>7, <3>8
    <3> QED
      BY <1>15, <1>8, <3>2, <3>4, <3>5, <3>6, <3>8
  <2> QED
    BY <1>15, <1>24, <2>1, <1>12, <1>13, <1>14, Flow
    DEF BrokerRecvTask, ClientSendTask, RecvBroker, RecvFails, node, messages,
        events
<1>25. CASE BrokerPublish \/ BrokerCut
  BY <1>15, <1>25, <1>12, <1>13, <1>14, Flow
  DEF BrokerPublish, BrokerCut, node, messages, events
<1> QED
  BY <1>16, <1>17, <1>18, <1>19, <1>20, <1>21, <1>22, <1>23, <1>24, <1>25
  DEF Next, GatewayControlTask, HandleClient

-----------------------------------------------------------------------------
(* The invariant holds at the beginning, *)
LEMMA IndInvInit == Init => IndInv
<1> SUFFICES ASSUME Init PROVE IndInv
  OBVIOUS
<1> USE DEF Init
<1>1. TypeOK
  <2>1. 0 \in 0..MaxRecv /\ 0 \in 0..MaxPublish /\ 0 \in Nat
    BY BoundsNat
  <2>2. TypeNode
    BY DEF TypeNode, Status
  <2>6. TypeMessages
    BY DEF TypeMessages
  <2>7. TypeEvents
    BY DEF TypeEvents
  <2>3. TypeObjects
    BY <2>1 DEF TypeObjects, Null
  <2>4. TypeThreads
    BY <2>1 DEF TypeThreads, AtOther, Status, ClientMsg, Code, Null
  <2>5. TypeBroker
    BY <2>1 DEF TypeBroker
  <2> QED
    BY <2>2, <2>3, <2>4, <2>5, <2>6, <2>7 DEF TypeOK
<1>2. EventsPaired
  <2>1. /\ Len(<< >>) = 0
        /\ Count(<< >>, "clientRecv") = 0 /\ Count(<< >>, "brokerRecv") = 0
        /\ Count(<< >>, "unicast") = 0
    BY CountEmpty
  <2>2. c.at \notin AtClient /\ c.at \notin AtBroker
    BY DEF AtClient, AtBroker
  <2>3. ClientRecvPaired /\ BrokerRecvPaired
    BY <2>1, <2>2 DEF ClientRecvPaired, BrokerRecvPaired, One
  <2>4. BrokerSendPaired /\ ClientSendPaired
    BY <2>1 DEF BrokerSendPaired, ClientSendPaired, One
  <2> QED
    BY <2>3, <2>4 DEF EventsPaired
<1>3. NoSearchGw /\ HandlerFits
  BY DEF NoSearchGw, HandlerFits
<1>4. MadeFor
  BY DEF MadeFor, One, AtClient
<1> QED
  BY <1>1, <1>2, <1>3, <1>4 DEF IndInv

(* there is an MQTTConnect for each CONNECT, *)
LEMMA ConnectLeft ==
    ASSUME TypeOK, Ready, MadeFor, c.at = "CONNECT"
    PROVE  made < MaxRecv
<1> DEFINE l == Len(clientRecv)
           h == One(r.at = "store")
<1>1. made \in Nat /\ l \in Nat /\ received \in Nat /\ MaxRecv \in Nat
  BY BoundsNat DEF TypeOK, TypeObjects, TypeMessages, TypeBroker
<1>2. received <= MaxRecv
  BY <1>1 DEF TypeOK, TypeBroker
<1>3. l > 0
  BY DEF Ready, TypeOK, TypeMessages, AtClient
<1>4. h \in Nat
  BY DEF One
<1>5. made + l + h <= received
  BY <1>1 DEF MadeFor, One
<1> HIDE DEF l, h
<1> QED
  BY <1>1, <1>2, <1>3, <1>4, <1>5

(* and every step keeps it. *)
LEMMA IndInvStep == IndInv /\ [Next]_vars => IndInv'
<1> SUFFICES ASSUME IndInv, [Next]_vars PROVE IndInv'
  OBVIOUS
<1>1. CASE Next
  <2>1. Ready
    BY IsReady DEF IndInv
  <2>2. c.at = "CONNECT" => made < MaxRecv
    BY <2>1, ConnectLeft DEF IndInv
  <2>3. /\ TypeNode /\ TypeObjects /\ TypeMessages /\ TypeEvents /\ TypeThreads
        /\ TypeBroker
    BY DEF IndInv, TypeOK
  <2>4. TypeNode' /\ TypeEvents' /\ TypeBroker'
    BY <1>1, <2>1, <2>3, NodeStep, EventsStep, BrokerStep
  <2>5. TypeMessages'
    BY <1>1, <2>1, <2>3, MessagesStep
  <2>6. TypeObjects' /\ TypeThreads'
    BY <1>1, <2>1, <2>2, <2>3, ObjectsStep, ThreadsStep
  <2>7. NoSearchGw' /\ HandlerFits' /\ MadeFor'
    BY <1>1, <2>1, <2>3, NoSearchGwStep, HandlerFitsStep, MadeForStep
    DEF IndInv
  <2>8. ClientRecvPaired' /\ BrokerRecvPaired'
    BY <1>1, <2>1, <2>3, <2>4, <2>5, ClientRecvPairedStep,
       BrokerRecvPairedStep
    DEF IndInv, EventsPaired
  <2>9. BrokerSendPaired' /\ ClientSendPaired'
    BY <1>1, <2>1, <2>3, <2>4, <2>5, BrokerSendPairedStep,
       ClientSendPairedStep
    DEF IndInv, EventsPaired
  <2> QED
    BY <2>4, <2>5, <2>6, <2>7, <2>8, <2>9 DEF IndInv, TypeOK, EventsPaired
<1>2. CASE UNCHANGED vars
  <2> USE <1>2 DEF vars, node, flags, objects, messages, events, broker, history
  <2>1. TypeOK'
    BY DEF IndInv, TypeOK, TypeNode, TypeObjects, TypeMessages, TypeEvents,
           TypeThreads, TypeBroker
  <2>2. EventsPaired'
    BY DEF IndInv, EventsPaired, ClientRecvPaired, BrokerRecvPaired,
           BrokerSendPaired, ClientSendPaired
  <2>3. NoSearchGw' /\ HandlerFits' /\ MadeFor'
    BY DEF IndInv, NoSearchGw, HandlerFits, MadeFor, ClientMessage,
           BrokerMessage
  <2> QED
    BY <2>1, <2>2, <2>3 DEF IndInv
<1> QED
  BY <1>1, <1>2

(* So it holds in every reachable state: *)
THEOREM InvariantCorrect == Spec => []IndInv
BY IndInvInit, IndInvStep, PTL DEF Spec

(* each variable, message and object is of its type (so no more            *)
(* MQTTConnect objects are made than messages received);                  *)
THEOREM TypeCorrect == Spec => []TypeOK
<1>1. IndInv => TypeOK
  BY DEF IndInv
<1> QED
  BY <1>1, InvariantCorrect, PTL

(* and there is one message for each event, so that no thread that takes   *)
(* an event finds the queue empty whose front it reads and deletes.        *)
THEOREM PairedCorrect == Spec => []EventsPaired
<1>1. IndInv => EventsPaired
  BY DEF IndInv
<1> QED
  BY <1>1, InvariantCorrect, PTL

-----------------------------------------------------------------------------
(* AcceptedByBroker.  Wherever an acceptance is between the broker and the *)
(* client, it is counted: Credit says that there are never more than       *)
(* CONNECTs accepted.                                                      *)
Accepted == [type |-> "CONNACK", code |-> "accepted"]

(* The front of brokerRecv has been handled and is yet to be deleted. *)
Past == {"connack_post", "flush", "flushing", "broker_done"}
Used == One(c.at \in Past /\ BrokerMessage = Accepted)

(* Acceptances told, to be sent, saved, received and on their way.  *)
Credit ==
    told + Count(clientSend, Accepted) + One(connAck = "accepted")
         + Count(brokerRecv, Accepted) + Count(fromBroker, Accepted)
      <= granted + Used

(* What is forwarded is the code of the message that is deleted next. *)
Carried ==
    c.at = "connack" => BrokerMessage = [type |-> "CONNACK", code |-> c.code]

(* What is kept for a sleeping client is no CONNACK. *)
Sleeping == \A i \in DOMAIN sleepQue : sleepQue[i].type = "PUBLISH"

AcceptInv == IndInv /\ Credit /\ Carried /\ Sleeping

-----------------------------------------------------------------------------
(* The terms of Credit are numbers. *)
LEMMA Numbers ==
    ASSUME TypeOK
    PROVE  /\ told \in Nat /\ granted \in Nat
           /\ Count(clientSend, Accepted) \in Nat
           /\ Count(brokerRecv, Accepted) \in Nat
           /\ Count(fromBroker, Accepted) \in Nat
BY Places DEF TypeOK, TypeMessages, TypeBroker

(* A message that is told, saved or passed on counts if it is Accepted. *)
LEMMA AcceptedOrNot ==
    /\ \A m \in ToClient \cup BrokerPacket : m.type # "CONNACK" => m # Accepted
    /\ \A k : [type |-> "CONNACK", code |-> k] = Accepted <=> k = "accepted"
BY DEF Accepted

(* Steps that touch no message on the way to the client keep Credit. *)
LEMMA CreditKept ==
    ASSUME Credit, UNCHANGED <<told, clientSend, connAck, brokerRecv, fromBroker, granted>>,
           c.at \in Past <=> c'.at \in Past
    PROVE  Credit'
BY DEF Credit, Used, BrokerMessage

(* So do those that also push to the client what is no acceptance, or       *)
(* forget a CONNACK that was saved: there is no more than before.          *)
LEMMA CreditPush ==
    ASSUME TypeOK, Credit, UNCHANGED <<told, brokerRecv, fromBroker, granted>>,
           connAck' \in {connAck, "none"},
           NEW m \in ToClient, m # Accepted, clientSend' = Append(clientSend, m),
           c.at \in Past => c'.at \in Past
    PROVE  Credit'
<1>1. Count(clientSend', Accepted) = Count(clientSend, Accepted)
  BY CountAppend, Numbers DEF TypeOK, TypeMessages, One
<1>2. One(connAck' = "accepted") <= One(connAck = "accepted")
      /\ One(connAck = "accepted") \in Nat /\ One(connAck' = "accepted") \in Nat
  BY DEF One
<1>3. Used <= Used' /\ Used \in Nat /\ Used' \in Nat
  BY DEF Used, One, BrokerMessage
<1> QED
  BY SMTT(60), <1>1, <1>2, <1>3, Numbers DEF Credit

(* So does the end of a connection, with what is on its way. *)
LEMMA CreditClose ==
    ASSUME TypeOK, Credit, Close, UNCHANGED <<told, clientSend, connAck, brokerRecv>>,
           c.at \in Past <=> c'.at \in Past
    PROVE  Credit'
<1>1. Count(fromBroker', Accepted) = 0 /\ granted' = granted
  BY CountEmpty DEF Close
<1>2. Used' = Used /\ Used \in Nat /\ One(connAck = "accepted") \in Nat
  BY DEF Used, One, BrokerMessage
<1> QED
  BY SMTT(60), <1>1, <1>2, Numbers DEF Credit

-----------------------------------------------------------------------------
(* The steps of C in a handler of the client's messages. *)
LEMMA CreditClient ==
    ASSUME TypeOK, Ready, Credit, HandleClient \/ HandleSearchGw \/ HandleTimeout
    PROVE  Credit'
<1> USE DEF TypeOK
<1>1. CASE HandleSearchGw
  BY <1>1, CreditKept DEF HandleSearchGw, node, flags, messages, broker, history
<1>2. CASE Timeout \/ Timeover \/ TimerRuns
  BY <1>2, CreditKept, Flow
  DEF Past, Timeout, Timeover, TimerRuns, node, flags, messages, broker, history
<1>3. CASE TimeoverDisconnect
  BY <1>3, CreditClose, Flow DEF Past, TimeoverDisconnect, node, flags, messages, history
<1>4. CASE TakeClientRecv \/ UpdateStatus \/ SnConnect \/ SnConnectForward
           \/ ConnectQued \/ SnConnectPush
  BY <1>4, CreditKept, Flow
  DEF Past, TakeClientRecv, UpdateStatus, SnConnect, SnConnectForward, ConnectQued,
      SnConnectPush, node, flags, messages, broker, history
<1>5. CASE SnWillMsg \/ SnWillMsgQued \/ SnWillMsgForward \/ SnWillMsgConnack
           \/ SnPingReq
  BY <1>5, CreditKept, Flow
  DEF Past, SnWillMsg, SnWillMsgQued, SnWillMsgForward, SnWillMsgConnack, SnPingReq,
      node, flags, messages, broker, history
<1>6. CASE PostClient \/ PostBroker \/ Done
  BY <1>6, CreditKept, Flow, PostClientFlow
  DEF Past, PostBroker, PostClient, Done, node, flags, messages, broker, history
<1>7. CASE SnConnectWill
  <2>1. [type |-> "WILLTOPICREQ"] \in ToClient /\ [type |-> "WILLTOPICREQ"] # Accepted
    BY DEF ToClient, Accepted
  <2> QED BY <1>7, <2>1, CreditPush, Flow DEF Past, SnConnectWill, flags, broker, history
<1>8. CASE SnWillTopic
  <2>1. [type |-> "WILLMSGREQ"] \in ToClient /\ [type |-> "WILLMSGREQ"] # Accepted
    BY DEF ToClient, Accepted
  <2> QED BY <1>8, <2>1, CreditPush, Flow DEF Past, SnWillTopic, node, flags, broker, history
<1>9. CASE SnDisconnect
  <2>1. [type |-> "DISCONNECT"] \in ToClient /\ [type |-> "DISCONNECT"] # Accepted
    BY DEF ToClient, Accepted
  <2> QED BY <1>9, <2>1, CreditPush, Flow DEF Past, SnDisconnect, node, flags, broker, history
<1> DEFINE Rejected == [type |-> "CONNACK", code |-> "rejected"]
<1>10. Rejected \in ToClient /\ Rejected # Accepted
  BY DEF ToClient, Accepted, Code
<1> HIDE DEF Rejected
<1>11. CASE SnWillMsgReject
  <2>1. clientSend' = Append(clientSend, Rejected)
    BY <1>11 DEF SnWillMsgReject, Rejected
  <2> QED BY <1>10, <1>11, <2>1, CreditPush, Flow DEF Past, SnWillMsgReject, broker, history
<1>12. CASE SnWillMsgWait
  <2>1. c.at \notin Past /\ c'.at \notin Past
    BY <1>12, Flow DEF Past
  <2>2. CASE clientSend' = clientSend
    BY <1>12, <2>1, <2>2, CreditKept DEF SnWillMsgWait, broker, history
  <2>3. CASE clientSend' = Append(clientSend, Rejected)
    BY <1>10, <1>12, <2>1, <2>3, CreditPush DEF SnWillMsgWait, broker, history
  <2> QED BY <1>12, <2>2, <2>3 DEF SnWillMsgWait, Rejected
<1>13. CASE SnWillMsgSaved
  <2> DEFINE m == [type |-> "CONNACK", code |-> connAck]
  <2>1. connAck \in Code /\ clientSend' = Append(clientSend, m) /\ connAck' = "none"
    BY <1>13 DEF SnWillMsgSaved, TypeNode
  <2>2. m \in ToClient /\ (m = Accepted <=> connAck = "accepted")
    BY <2>1, AcceptedOrNot DEF ToClient
  <2>3. Count(clientSend', Accepted) = Count(clientSend, Accepted) + One(connAck = "accepted")
    <3> HIDE DEF m
    <3>1. Count(clientSend', Accepted) = Count(clientSend, Accepted) + One(m = Accepted)
      BY <2>1, <2>2, CountAppend DEF TypeMessages
    <3> QED BY <2>2, <3>1 DEF One
  <2>4. One(connAck' = "accepted") = 0 /\ One(connAck = "accepted") \in Nat
    BY <2>1 DEF One
  <2>5. Used = 0 /\ Used' = 0
    BY <1>13, Flow DEF Used, Past, One
  <2>6. UNCHANGED <<told, brokerRecv, fromBroker, granted>>
    BY <1>13 DEF SnWillMsgSaved, broker, history
  <2> QED BY SMTT(60), <2>3, <2>4, <2>5, <2>6, Numbers DEF Credit
<1> QED
  BY <1>1, <1>2, <1>3, <1>4, <1>5, <1>6, <1>7, <1>8, <1>9, <1>11, <1>12, <1>13
  DEF HandleClient, HandleTimeout, HandleConnect, HandleWill

(* The steps of C in a handler of the broker's messages. *)
LEMMA CreditBroker ==
    ASSUME TypeOK, Ready, HandlerFits, Credit, Carried, Sleeping, HandleBroker
    PROVE  Credit'
<1> USE DEF TypeOK
<1>1. CASE TakeBrokerRecv \/ PublishAsleep \/ PublishAwake
  <2>1. UNCHANGED <<told, clientSend, connAck, brokerRecv, fromBroker, granted>>
    BY <1>1
    DEF TakeBrokerRecv, PublishAsleep, PublishAwake, node, flags, messages, broker, history
  <2>2. Used = 0 /\ Used' \in Nat
    BY <1>1, Flow DEF Used, Past, One
  <2> QED BY SMTT(60), <2>1, <2>2, Numbers DEF Credit, One
<1>2. CASE Connack
  <2>1. c.at = "CONNACK" /\ BrokerMessage \in BrokerPacket /\ BrokerMessage.type = "CONNACK"
    BY <1>2 DEF Connack, HandlerFits, Ready, AtBroker
  <2>2. BrokerMessage = [type |-> "CONNACK", code |-> BrokerMessage.code]
    BY <2>1 DEF BrokerPacket
  <2>3. UNCHANGED <<told, clientSend, brokerRecv, fromBroker, granted>> /\ Used = 0
    BY <1>2, <2>1 DEF Connack, Used, Past, One, messages, broker, history
  <2>4. One(connAck' = "accepted") <= One(connAck = "accepted") + Used'
        /\ One(connAck = "accepted") \in Nat /\ One(connAck' = "accepted") \in Nat /\ Used' \in Nat
    <3>1. BrokerMessage' = BrokerMessage /\ (BrokerMessage = Accepted <=> BrokerMessage.code = "accepted")
      BY <2>2, <2>3, AcceptedOrNot DEF BrokerMessage
    <3>2. \/ connAck' = BrokerMessage.code /\ c'.at \in Past
          \/ connAck' = connAck
      BY <1>2 DEF Connack, CGoto, TypeThreads, Past
    <3> QED BY <3>1, <3>2 DEF Used, One
  <2> QED BY SMTT(60), <2>3, <2>4, Numbers DEF Credit
<1>3. CASE ConnackForward
  <2> DEFINE m == [type |-> "CONNACK", code |-> c.code]
  <2>1. c.code \in Code /\ clientSend' = Append(clientSend, m) /\ BrokerMessage = m
    BY <1>3 DEF ConnackForward, Carried, TypeThreads
  <2>2. m \in ToClient
    BY <2>1 DEF ToClient
  <2>3. UNCHANGED <<told, connAck, brokerRecv, fromBroker, granted>>
    BY <1>3 DEF ConnackForward, broker, history
  <2> HIDE DEF m
  <2>4. Count(clientSend', Accepted) = Count(clientSend, Accepted) + One(m = Accepted)
    BY <2>1, <2>2, CountAppend DEF TypeMessages
  <2>5. Used = 0 /\ Used' = One(m = Accepted) /\ One(m = Accepted) \in Nat
    BY <1>3, <2>1, <2>3, Flow DEF Used, Past, One, BrokerMessage
  <2> QED BY SMTT(60), <2>3, <2>4, <2>5, Numbers DEF Credit, One
<1>4. CASE ConnackPost \/ Flush
  BY <1>4, CreditKept, Flow
  DEF Past, ConnackPost, Flush, node, flags, messages, broker, history
<1>5. CASE PublishForward
  <2>1. [type |-> "PUBLISH"] \in ToClient /\ [type |-> "PUBLISH"] # Accepted
    BY DEF ToClient, Accepted
  <2>2. c.at \notin Past /\ UNCHANGED <<told, connAck, brokerRecv, fromBroker, granted>>
    BY <1>5, Flow DEF Past, PublishForward, node, flags, broker, history
  <2>3. CASE clientSend' = clientSend
    BY SMTT(60), <2>2, <2>3, Numbers DEF Credit, Used, One
  <2> QED BY <1>5, <2>1, <2>2, <2>3, CreditPush DEF PublishForward
<1>6. CASE FlushOne
  <2>1. Head(sleepQue) \in ToClient /\ Head(sleepQue) # Accepted
    <3>1. sleepQue # << >>
      BY <1>6 DEF Ready, FlushOne
    <3>2. 1 \in DOMAIN sleepQue /\ Head(sleepQue) = sleepQue[1] /\ sleepQue[1] \in ToClient
      BY <3>1 DEF TypeMessages
    <3> QED BY <3>2 DEF Sleeping, Accepted
  <2> QED BY <1>6, <2>1, CreditPush, Flow DEF Past, FlushOne, node, flags, broker, history
<1>7. CASE Pingresp
  <2>1. [type |-> "PINGRESP"] \in ToClient /\ [type |-> "PINGRESP"] # Accepted
    BY DEF ToClient, Accepted
  <2> QED BY <1>7, <2>1, CreditPush, Flow DEF Past, Pingresp, node, flags, broker, history
<1>8. CASE BrokerDone
  <2>1. c.at = "broker_done" /\ brokerRecv # << >>
    BY <1>8 DEF BrokerDone, Ready, AtBroker
  <2>2. Count(brokerRecv, Accepted) = Count(brokerRecv', Accepted) + Used
    BY <1>8, <2>1, CountTail DEF BrokerDone, TypeMessages, Used, Past, BrokerMessage
  <2>3. Used \in Nat /\ Used' = 0 /\ One(connAck = "accepted") \in Nat
    BY <1>8, Flow DEF Used, Past, One
  <2>4. UNCHANGED <<told, clientSend, connAck, fromBroker, granted>>
    BY <1>8 DEF BrokerDone, node, flags, broker, history
  <2>5. Count(brokerRecv', Accepted) \in Nat
    <3>1. brokerRecv \in Seq(BrokerPacket) /\ brokerRecv' = Tail(brokerRecv)
      BY <1>8 DEF BrokerDone, TypeMessages
    <3>2. brokerRecv' \in Seq(BrokerPacket)
      BY <2>1, <3>1
    <3> QED BY <3>2, Places
  <2> QED BY SMTT(60), <2>2, <2>3, <2>4, <2>5, Numbers DEF Credit
<1> QED
  BY <1>1, <1>2, <1>3, <1>4, <1>5, <1>6, <1>7, <1>8 DEF HandleBroker

(* The steps of S: a CONNECT that the broker accepts is answered by one     *)
(* acceptance.                                                             *)
LEMMA CreditSend ==
    ASSUME TypeOK, Ready, Credit, BrokerSendTask
    PROVE  Credit'
<1> USE DEF TypeOK
<1>1. CASE TakeBrokerSend \/ ConnectSended \/ SendDisconnected \/ SendDone
  BY <1>1, CreditKept
  DEF TakeBrokerSend, ConnectSended, SendDisconnected, SendDone, node, flags, messages,
      broker, history
<1>2. CASE SendFails \/ SendClose
  BY <1>2, CreditClose DEF SendFails, SendClose, node, flags, messages, history
<1>3. ASSUME NEW code \in Codes, Send(code) PROVE Credit'
  <2>1. UNCHANGED <<told, clientSend, connAck, brokerRecv, c>> /\ BrokerGets(SMessage, code)
    BY <1>3 DEF Send, node, flags, messages, history
  <2>2. code \in Code /\ Used' = Used /\ Used \in Nat /\ One(connAck = "accepted") \in Nat
    BY <2>1, CodesAreCodes DEF Code, Used, One, BrokerMessage
  <2>3. Count(fromBroker', Accepted) + granted <= Count(fromBroker, Accepted) + granted'
        /\ Count(fromBroker', Accepted) \in Nat /\ granted' \in Nat
    <3> DEFINE m == [type |-> "CONNACK", code |-> code]
    <3>1. CASE UNCHANGED <<fromBroker, granted>>
      BY <3>1, Numbers
    <3>2. CASE fromBroker' = Append(fromBroker, [type |-> "PINGRESP"]) /\ granted' = granted
      <4>1. [type |-> "PINGRESP"] \in BrokerPacket /\ [type |-> "PINGRESP"] # Accepted
        BY DEF BrokerPacket, Accepted
      <4>2. Count(fromBroker', Accepted) = Count(fromBroker, Accepted)
        BY <3>2, <4>1, CountAppend, Numbers DEF TypeBroker, One
      <4> QED BY <3>2, <4>2, Numbers
    <3>3. CASE /\ fromBroker' = Append(fromBroker, m)
               /\ granted' = IF code = "accepted" THEN granted + 1 ELSE granted
      <4>1. m \in BrokerPacket /\ (m = Accepted <=> code = "accepted")
        BY <2>2, AcceptedOrNot DEF BrokerPacket
      <4> HIDE DEF m
      <4>2. Count(fromBroker', Accepted) = Count(fromBroker, Accepted) + One(m = Accepted)
        BY <3>3, <4>1, CountAppend DEF TypeBroker
      <4> QED BY <3>3, <4>1, <4>2, Numbers DEF One
    <3> QED BY <2>1, <3>1, <3>2, <3>3 DEF BrokerGets, broker
  <2> QED BY SMTT(60), <2>1, <2>2, <2>3, Numbers DEF Credit
<1> QED BY <1>1, <1>2, <1>3 DEF BrokerSendTask

(* The steps of B, of CS and of the broker: what is taken from one queue is *)
(* put into the next, or told.                                             *)
LEMMA CreditPass ==
    ASSUME TypeOK, Ready, Credit,
           BrokerRecvTask \/ ClientSendTask \/ BrokerPublish \/ BrokerCut
    PROVE  Credit'
<1> USE DEF TypeOK
<1>1. Used \in Nat /\ One(connAck = "accepted") \in Nat
  BY DEF Used, One
<1>2. CASE RecvBroker
  <2> DEFINE m == Head(fromBroker)
  <2>1. fromBroker \in Seq(BrokerPacket) /\ fromBroker # << >> /\ m \in BrokerPacket
    BY <1>2 DEF RecvBroker, TypeBroker
  <2>2. brokerRecv' = Append(brokerRecv, m) /\ fromBroker' = Tail(fromBroker)
        /\ UNCHANGED <<told, clientSend, connAck, granted, c>>
    BY <1>2 DEF RecvBroker, node, flags, history
  <2> HIDE DEF m
  <2>3. Count(brokerRecv', Accepted) = Count(brokerRecv, Accepted) + One(m = Accepted)
    BY <2>1, <2>2, CountAppend DEF TypeMessages
  <2>4. Count(fromBroker, Accepted) = Count(fromBroker', Accepted) + One(m = Accepted)
    BY <2>1, <2>2, CountTail DEF m
  <2>5. Count(fromBroker', Accepted) \in Nat
    <3>1. fromBroker' \in Seq(BrokerPacket)
      BY <2>1, <2>2
    <3> QED BY <3>1, Places
  <2>6. Used' = Used
    <3>1. c.at \in Past => brokerRecv # << >>
      BY DEF Ready, Past, AtBroker
    <3>2. brokerRecv # << >> => Head(brokerRecv') = Head(brokerRecv)
      BY <2>1, <2>2 DEF TypeMessages
    <3> QED BY <2>2, <3>1, <3>2 DEF Used, BrokerMessage, One
  <2>7. One(m = Accepted) \in Nat
    BY DEF One
  <2> QED BY SMTT(60), <1>1, <2>2, <2>3, <2>4, <2>5, <2>6, <2>7, Numbers DEF Credit
<1>3. CASE RecvFails \/ BrokerCut
  BY <1>3, CreditKept DEF RecvFails, BrokerCut, node, flags, messages, broker, history
<1>4. CASE SendClient
  <2>1. UNCHANGED <<connAck, brokerRecv, fromBroker, granted, c>> /\ Used' = Used
    BY <1>4 DEF SendClient, node, flags, broker, Used, BrokerMessage
  <2>2. CASE Head(csQue) # "unicast"
    BY <1>1, <1>4, <2>1, <2>2 DEF SendClient, Credit
  <2>3. CASE Head(csQue) = "unicast"
    <3> DEFINE m == Head(clientSend)
    <3>1. clientSend # << >> /\ m \in ToClient /\ clientSend' = Tail(clientSend)
      BY <1>4, <2>3 DEF SendClient, Ready
    <3>2. m = Accepted <=> m.type = "CONNACK" /\ m.code = "accepted"
      BY <3>1 DEF ToClient, Accepted
    <3>3. told' = told + One(m = Accepted)
      BY <1>4, <2>3, <3>2, Numbers DEF SendClient, One
    <3> HIDE DEF m
    <3>4. Count(clientSend, Accepted) = Count(clientSend', Accepted) + One(m = Accepted)
      BY <3>1, CountTail DEF TypeMessages, m
    <3>5. Count(clientSend', Accepted) \in Nat
      <4>1. clientSend' \in Seq(ToClient)
        BY <3>1 DEF TypeMessages
      <4> QED BY <4>1, Places
    <3>6. One(m = Accepted) \in Nat
      BY DEF One
    <3> QED BY SMTT(60), <1>1, <2>1, <3>3, <3>4, <3>5, <3>6, Numbers DEF Credit
  <2> QED BY <2>2, <2>3
<1>5. CASE BrokerPublish
  <2>1. PICK q \in BOOLEAN : fromBroker' = Append(fromBroker, [type |-> "PUBLISH", qos1 |-> q])
    BY <1>5 DEF BrokerPublish
  <2> DEFINE m == [type |-> "PUBLISH", qos1 |-> q]
  <2>2. m \in BrokerPacket /\ m # Accepted
    BY DEF BrokerPacket, Accepted
  <2> HIDE DEF m
  <2>3. Count(fromBroker', Accepted) = Count(fromBroker, Accepted)
    BY <2>1, <2>2, CountAppend, Numbers DEF TypeBroker, One, m
  <2>4. UNCHANGED <<told, clientSend, connAck, brokerRecv, granted, c>> /\ Used' = Used
    BY <1>5 DEF BrokerPublish, node, flags, messages, history, Used, BrokerMessage
  <2> QED BY SMTT(60), <1>1, <2>3, <2>4, Numbers DEF Credit
<1> QED BY <1>2, <1>3, <1>4, <1>5 DEF BrokerRecvTask, ClientSendTask

-----------------------------------------------------------------------------
(* Every step keeps the front that is being forwarded, *)
LEMMA CarriedStep ==
    ASSUME TypeOK, Ready, HandlerFits, Carried, Next
    PROVE  Carried'
<1> USE DEF TypeOK
<1>1. CASE UNCHANGED <<c, brokerRecv>>
  BY <1>1 DEF Carried, BrokerMessage
<1>2. CASE c'.at # "connack"
  BY <1>2 DEF Carried
<1>3. CASE Connack
  <2>1. c.at = "CONNACK" /\ BrokerMessage \in BrokerPacket /\ BrokerMessage.type = "CONNACK"
    BY <1>3 DEF Connack, HandlerFits, Ready, AtBroker
  <2>2. BrokerMessage = [type |-> "CONNACK", code |-> BrokerMessage.code]
    BY <2>1 DEF BrokerPacket
  <2>3. BrokerMessage' = BrokerMessage
    BY <1>3 DEF Connack, messages, BrokerMessage
  <2>4. c'.at = "connack" => c'.code = BrokerMessage.code
    BY <1>3 DEF Connack, CGoto, TypeThreads
  <2> QED BY <2>2, <2>3, <2>4 DEF Carried
<1>4. CASE RecvBroker
  <2>1. c' = c /\ brokerRecv' = Append(brokerRecv, Head(fromBroker))
    BY <1>4 DEF RecvBroker
  <2>2. c.at = "connack" => brokerRecv # << >>
    BY DEF Ready, AtBroker
  <2>3. Head(fromBroker) \in BrokerPacket
    BY <1>4 DEF RecvBroker, TypeBroker
  <2>4. brokerRecv # << >> => Head(brokerRecv') = Head(brokerRecv)
    BY <2>1, <2>3 DEF TypeMessages
  <2> QED BY <2>1, <2>2, <2>4 DEF Carried, BrokerMessage
<1>5. CASE ClientRecvTask \/ BrokerSendTask \/ RecvFails \/ ClientSendTask
           \/ BrokerPublish \/ BrokerCut \/ HandleSearchGw
  <2>1. UNCHANGED <<c, brokerRecv>>
    BY <1>5
    DEF ClientRecvTask, RecvClient, RecvForget, RecvStore, RecvPost, BrokerSendTask,
        TakeBrokerSend, ConnectSended, Send, SendFails, SendDisconnected, SendClose,
        SendDone, RecvFails, ClientSendTask, SendClient, BrokerPublish, BrokerCut,
        HandleSearchGw, messages
  <2> QED BY <1>1, <2>1
<1>6. CASE HandleTimeout \/ HandleClient
  <2>1. c'.at # "connack"
    BY <1>6, Flow, PostClientFlow
    DEF HandleTimeout, HandleClient, HandleConnect, HandleWill
  <2> QED BY <1>2, <2>1
<1>7. CASE HandleBroker
  <2>1. CASE ~Connack
    <3>1. c'.at # "connack"
      BY <1>7, <2>1, Flow DEF HandleBroker
    <3> QED BY <1>2, <3>1
  <2> QED BY <1>3, <2>1
<1> QED
  BY <1>4, <1>5, <1>6, <1>7 DEF Next, GatewayControlTask, BrokerRecvTask

(* and only PUBLISHes are kept for a sleeping client. *)
LEMMA SleepingStep ==
    ASSUME TypeOK, Sleeping, Next
    PROVE  Sleeping'
<1> USE DEF TypeOK
<1>1. CASE UNCHANGED sleepQue
  BY <1>1 DEF Sleeping
<1>2. CASE PublishAsleep
  <2>1. [type |-> "PUBLISH"] \in ToClient
    BY DEF ToClient
  <2>2. sleepQue' = Append(sleepQue, [type |-> "PUBLISH"]) /\ sleepQue \in Seq(ToClient)
    BY <1>2 DEF PublishAsleep, TypeMessages
  <2>3. /\ DOMAIN sleepQue' = 1 .. Len(sleepQue) + 1 /\ Len(sleepQue) \in Nat
        /\ DOMAIN sleepQue = 1 .. Len(sleepQue)
        /\ sleepQue'[Len(sleepQue) + 1] = [type |-> "PUBLISH"]
        /\ \A i \in DOMAIN sleepQue : sleepQue'[i] = sleepQue[i]
    BY <2>1, <2>2
  <2>4. \A i \in DOMAIN sleepQue' : i \in DOMAIN sleepQue \/ i = Len(sleepQue) + 1
    BY <2>3
  <2> QED BY <2>3, <2>4 DEF Sleeping
<1>3. CASE ClientRecvTask \/ BrokerSendTask \/ BrokerRecvTask \/ ClientSendTask
           \/ BrokerPublish \/ BrokerCut \/ HandleSearchGw
  <2>1. UNCHANGED sleepQue
    BY <1>3
    DEF ClientRecvTask, RecvClient, RecvForget, RecvStore, RecvPost, BrokerSendTask,
        TakeBrokerSend, ConnectSended, Send, SendFails, SendDisconnected, SendClose,
        SendDone, BrokerRecvTask, RecvBroker, RecvFails, ClientSendTask, SendClient,
        BrokerPublish, BrokerCut, HandleSearchGw, messages
  <2> QED BY <1>1, <2>1
<1>4. CASE HandleTimeout \/ HandleClient
  <2>1. UNCHANGED sleepQue
    BY <1>4
    DEF HandleTimeout, HandleClient, HandleConnect, HandleWill, Timeout, Timeover,
        TimerRuns, TimeoverDisconnect, TakeClientRecv, UpdateStatus, SnConnect,
        SnConnectWill, SnConnectForward, ConnectQued, SnConnectPush, SnWillTopic,
        SnWillMsg, SnWillMsgQued, SnWillMsgForward, SnWillMsgReject, SnWillMsgSaved,
        SnWillMsgWait, SnWillMsgConnack, SnPingReq, SnDisconnect, PostClient, PostBroker,
        Done, messages
  <2> QED BY <1>1, <2>1
<1>5. CASE HandleBroker
  <2>1. PublishAsleep \/ UNCHANGED sleepQue
    BY <1>5
    DEF HandleBroker, TakeBrokerRecv, Connack, ConnackForward, ConnackPost, Flush,
        FlushOne, Pingresp, PublishAwake, PublishForward, BrokerDone, messages
  <2> QED BY <1>1, <1>2, <2>1
<1> QED
  BY <1>3, <1>4, <1>5 DEF Next, GatewayControlTask

-----------------------------------------------------------------------------
(* The invariant holds at the beginning, *)
LEMMA AcceptInit == Init => AcceptInv
<1> SUFFICES ASSUME Init PROVE AcceptInv
  OBVIOUS
<1>1. Credit
  <2>1. Count(<< >>, Accepted) = 0
    BY CountEmpty
  <2>2. Used = 0 /\ One(connAck = "accepted") = 0
    BY DEF Init, Used, One, Past
  <2> QED BY <2>1, <2>2 DEF Init, Credit
<1>2. Carried /\ Sleeping
  BY DEF Init, Carried, Sleeping
<1> QED BY <1>1, <1>2, IndInvInit DEF AcceptInv

(* every step keeps it, *)
LEMMA AcceptStep == AcceptInv /\ [Next]_vars => AcceptInv'
<1> SUFFICES ASSUME AcceptInv, [Next]_vars PROVE AcceptInv'
  OBVIOUS
<1>1. IndInv /\ IndInv' /\ Credit /\ Carried /\ Sleeping
  BY IndInvStep DEF AcceptInv
<1>2. TypeOK /\ Ready /\ HandlerFits
  BY <1>1, IsReady DEF IndInv
<1>3. CASE Next
  <2>1. ClientRecvTask => Credit'
    BY <1>1, CreditKept
    DEF ClientRecvTask, RecvClient, RecvForget, RecvStore, RecvPost, node, flags,
        messages, broker, history
  <2>2. Credit'
    BY <1>1, <1>2, <1>3, <2>1, CreditClient, CreditBroker, CreditSend, CreditPass
    DEF Next, GatewayControlTask
  <2> QED BY <1>1, <1>2, <1>3, <2>2, CarriedStep, SleepingStep DEF AcceptInv
<1>4. CASE UNCHANGED vars
  <2>1. Credit' /\ Carried' /\ Sleeping'
    BY <1>1, <1>4
    DEF Credit, Carried, Sleeping, Used, BrokerMessage, vars, node, flags, messages,
        broker, history
  <2> QED BY <1>1, <2>1 DEF AcceptInv
<1> QED BY <1>3, <1>4

(* and with it the client is told "accepted" no more often than the broker *)
(* accepted: what it was told is among what Credit counts.                 *)
THEOREM AcceptedCorrect == Spec => []AcceptedByBroker
<1>1. AcceptInv => AcceptedByBroker
  <2> SUFFICES ASSUME AcceptInv PROVE AcceptedByBroker
    OBVIOUS
  <2>1. TypeOK /\ Ready /\ Credit
    BY IsReady DEF AcceptInv, IndInv
  <2>2. Used <= Count(brokerRecv, Accepted) /\ Used \in Nat
    <3>1. c.at \in Past => brokerRecv # << >> /\ brokerRecv \in Seq(BrokerPacket)
      BY <2>1 DEF Ready, Past, AtBroker, TypeOK, TypeMessages
    <3>2. c.at \in Past /\ BrokerMessage = Accepted => Count(brokerRecv, Accepted) > 0
      BY <3>1, Positive DEF BrokerMessage
    <3> QED BY <2>1, <3>2, Numbers DEF Used, One
  <2>3. One(connAck = "accepted") \in Nat
    BY DEF One
  <2> QED BY SMTT(60), <2>1, <2>2, <2>3, Numbers DEF Credit, AcceptedByBroker
<1> QED BY <1>1, AcceptInit, AcceptStep, PTL DEF Spec

-----------------------------------------------------------------------------
(* WillForwarded: what is known of the will of an MQTTConnect wherever it  *)
(* may be on its way from handleSnConnect() to brokerSend.                 *)
(* C in handleSnConnect, with the object it has made, and in               *)
(* handleSnWillMsg, with the object of the node completed.                 *)
Making == {"connect", "connectQued", "push"}
WillComes == {"will_connectQued", "will_push", "will_forward"}

(* Between its two parts handleSnConnect() gets one answer, if it made an  *)
(* object: nobody else assigns Lost or TryConnecting.                      *)
Sendable == c.at = "connect" /\ c.obj # Null => isConnectSendable

(* The node holds the object just made, or one that waits for its will.    *)
Held ==
    connMsg # Null =>
        IF c.at = "connect" /\ c.obj # Null THEN connMsg = c.obj
        ELSE heap[connMsg].will /\ (heap[connMsg].willMsg <=> c.at \in WillComes)

(* An object just made has no message of a will, and those not made yet    *)
(* have none.                                                              *)
Fresh ==
    /\ c.at \in Making => c.obj \in 0 .. made
    /\ c.at \in Making /\ c.obj # Null =>
          /\ ~heap[c.obj].willMsg
          /\ heap[c.obj].will <=> c.at = "connect" /\ ClientMessage.will
    /\ c.at \in {"connectQued", "push"} => connMsg = Null
    /\ \A m \in Connect : m > made => ~heap[m].willMsg

(* What is queued for the broker has been made. *)
Queued ==
    \A i \in DOMAIN brokerSend :
        brokerSend[i].type = "CONNECT" => brokerSend[i].obj <= made

WillParts == Sendable /\ Held /\ Fresh /\ Queued /\ WillForwarded
WillInv == IndInv /\ WillParts

-----------------------------------------------------------------------------
(* What Append and Tail leave in a queue. *)
LEMMA AppendTail ==
    ASSUME NEW S, NEW q \in Seq(S), NEW e
    PROVE  /\ \A i \in DOMAIN Append(q, e) :
                 \/ i \in DOMAIN q /\ Append(q, e)[i] = q[i]
                 \/ Append(q, e)[i] = e
           /\ q # << >> =>
                 \A i \in DOMAIN Tail(q) : i + 1 \in DOMAIN q /\ Tail(q)[i] = q[i + 1]
OBVIOUS

(* The will of no object changes. *)
SameWills ==
    \A m \in Connect : heap'[m].will = heap[m].will /\ heap'[m].willMsg = heap[m].willMsg

(* What is queued keeps its parts of the invariant if no object in the     *)
(* queue changes.                                                          *)
LEMMA QueueKept ==
    ASSUME TypeOK, Queued, WillForwarded, made' \in Nat, made' >= made,
           \A m \in Connect : m <= made /\ heap[m].will = heap[m].willMsg =>
               heap'[m].will = heap'[m].willMsg,
           \/ brokerSend' = brokerSend
           \/ brokerSend # << >> /\ brokerSend' = Tail(brokerSend)
           \/ \E e : /\ brokerSend' = Append(brokerSend, e)
                     /\ e.type = "CONNECT" =>
                           /\ e.obj <= made'
                           /\ e.obj # Null => heap'[e.obj].will = heap'[e.obj].willMsg
    PROVE  Queued' /\ WillForwarded'
<1>1. /\ \A i \in DOMAIN brokerSend : brokerSend[i] \in ToBroker
      /\ brokerSend \in Seq(ToBroker) /\ made \in Nat
  BY DEF TypeOK, TypeMessages, TypeObjects
<1>2. ASSUME NEW i \in DOMAIN brokerSend, brokerSend[i].type = "CONNECT"
      PROVE  /\ brokerSend[i].obj <= made'
             /\ brokerSend[i].obj # Null =>
                   heap'[brokerSend[i].obj].will = heap'[brokerSend[i].obj].willMsg
  <2>1. brokerSend[i].obj \in Connect \cup {Null} /\ brokerSend[i].obj <= made
    BY <1>1, <1>2 DEF ToBroker, Queued
  <2>2. brokerSend[i].obj \in Nat
    BY <2>1, BoundsNat DEF Connect, Null
  <2> QED BY <1>1, <1>2, <2>1, <2>2 DEF WillForwarded
<1>3. CASE brokerSend' = brokerSend
  BY <1>2, <1>3 DEF Queued, WillForwarded
<1>4. CASE brokerSend # << >> /\ brokerSend' = Tail(brokerSend)
  <2>1. \A i \in DOMAIN brokerSend' :
           i + 1 \in DOMAIN brokerSend /\ brokerSend'[i] = brokerSend[i + 1]
    BY <1>1, <1>4, AppendTail
  <2> QED BY <1>2, <2>1 DEF Queued, WillForwarded
<1>5. ASSUME NEW e, brokerSend' = Append(brokerSend, e),
             e.type = "CONNECT" =>
                 /\ e.obj <= made'
                 /\ e.obj # Null => heap'[e.obj].will = heap'[e.obj].willMsg
      PROVE  Queued' /\ WillForwarded'
  <2>1. \A i \in DOMAIN brokerSend' :
           \/ i \in DOMAIN brokerSend /\ brokerSend'[i] = brokerSend[i]
           \/ brokerSend'[i] = e
    BY <1>1, <1>5, AppendTail
  <2> QED BY <1>2, <1>5, <2>1 DEF Queued, WillForwarded
<1> QED BY <1>3, <1>4, <1>5

(* Who deletes an object changes no will. *)
LEMMA FreedWills ==
    ASSUME TypeOK, NEW m, heap' = Freed(m) \/ heap' = heap
    PROVE  SameWills
BY DEF SameWills, Freed, TypeOK, TypeObjects

-----------------------------------------------------------------------------
(* What the other threads and the broker may do to C and its objects:      *)
(* S empties the node, and takes messages from the queue.                  *)
Aside ==
    /\ c' = c /\ made' = made /\ SameWills
    /\ connMsg' \in {connMsg, Null}
    /\ brokerSend' = brokerSend \/ (brokerSend # << >> /\ brokerSend' = Tail(brokerSend))
    /\ c.at = "connect" => ClientMessage' = ClientMessage
    /\ isConnectSendable => isConnectSendable'

LEMMA OthersAside ==
    ASSUME TypeOK, Ready,
           ClientRecvTask \/ BrokerSendTask \/ BrokerRecvTask \/ ClientSendTask
             \/ BrokerPublish \/ BrokerCut \/ HandleSearchGw
    PROVE  Aside
<1> DEFINE Quiet ==
        /\ UNCHANGED <<c, made, heap, connMsg, brokerSend>>
        /\ c.at = "connect" => ClientMessage' = ClientMessage
        /\ isConnectSendable => isConnectSendable'
<1>1. Quiet => Aside
  BY DEF Aside, SameWills
<1>2. ASSUME NEW st \in Status \ {"Lost", "TryConnecting"}, SetStatus(st)
      PROVE  isConnectSendable'
  BY <1>2 DEF SetStatus, isConnectSendable
<1>3. CASE ClientRecvTask
  <2>1. ASSUME NEW m \in Inputs, RecvClient(m) PROVE Quiet
    BY <2>1 DEF RecvClient, objects, messages, ClientMessage, isConnectSendable
  <2>2. ASSUME RecvForget PROVE Quiet
    BY <1>2, <2>2 DEF RecvForget, objects, messages, ClientMessage, Status
  <2>3. ASSUME RecvStore PROVE Quiet
    <3>1. UNCHANGED <<c, made, heap, connMsg, brokerSend>>
      BY <2>3 DEF RecvStore, objects
    <3>2. c.at = "connect" => ClientMessage' = ClientMessage
      <4>1. c.at = "connect" => clientRecv # << >>
        BY DEF Ready, AtClient
      <4>2. clientRecv' = Append(clientRecv, r.msg) /\ clientRecv \in Seq(ClientMsg)
            /\ r.msg \in ClientMsg
        BY <2>3 DEF RecvStore, TypeOK, TypeMessages, TypeThreads
      <4>3. clientRecv # << >> => Head(clientRecv') = Head(clientRecv)
        BY <4>2
      <4> QED BY <4>1, <4>3 DEF ClientMessage
    <3>3. isConnectSendable => isConnectSendable'
      <4>1. Updated(r.seen, r.msg) # r.seen =>
                Updated(r.seen, r.msg) \in Status \ {"Lost", "TryConnecting"}
        BY DEF Updated, Status
      <4>2. CASE Updated(r.seen, r.msg) # r.seen
        BY <1>2, <2>3, <4>1, <4>2 DEF RecvStore, Store
      <4>3. CASE Updated(r.seen, r.msg) = r.seen
        BY <2>3, <4>3 DEF RecvStore, Store, isConnectSendable
      <4> QED BY <4>2, <4>3
    <3> QED BY <3>1, <3>2, <3>3
  <2>4. ASSUME RecvPost PROVE Quiet
    BY <2>4 DEF RecvPost, node, objects, messages, ClientMessage, isConnectSendable
  <2> QED BY <1>1, <1>3, <2>1, <2>2, <2>3, <2>4 DEF ClientRecvTask
<1>4. CASE BrokerSendTask
  <2>1. CASE TakeBrokerSend \/ SendFails \/ SendClose \/ \E code \in Codes : Send(code)
    <3>1. Quiet
      BY <2>1
      DEF TakeBrokerSend, SendFails, SendClose, Send, node, objects, messages,
          ClientMessage, isConnectSendable
    <3> QED BY <1>1, <3>1
  <2>2. CASE ConnectSended
    <3>1. SameWills
      BY <2>2, FreedWills DEF ConnectSended
    <3>2. isConnectSendable => isConnectSendable'
      BY <2>2 DEF ConnectSended, isConnectSendable
    <3> QED BY <2>2, <3>1, <3>2 DEF ConnectSended, Aside, messages, ClientMessage
  <2>3. CASE SendDisconnected
    <3>1. Quiet
      BY <1>2, <2>3 DEF SendDisconnected, objects, messages, ClientMessage, Status
    <3> QED BY <1>1, <3>1
  <2>4. CASE SendDone
    <3>1. SameWills
      BY <2>4, FreedWills DEF SendDone
    <3>2. brokerSend # << >>
      BY <2>4 DEF SendDone, Ready
    <3> QED BY <2>4, <3>1, <3>2 DEF SendDone, Aside, ClientMessage, isConnectSendable
  <2> QED BY <1>4, <2>1, <2>2, <2>3, <2>4 DEF BrokerSendTask
<1>5. CASE RecvFails
  <2>1. Quiet
    BY <1>2, <1>5 DEF RecvFails, objects, messages, ClientMessage, Status
  <2> QED BY <1>1, <2>1
<1>6. CASE RecvBroker \/ ClientSendTask \/ BrokerPublish \/ BrokerCut \/ HandleSearchGw
  <2>1. Quiet
    BY <1>6
    DEF RecvBroker, ClientSendTask, SendClient, BrokerPublish, BrokerCut, HandleSearchGw,
        node, objects, messages, ClientMessage, isConnectSendable
  <2> QED BY <1>1, <2>1
<1> QED BY <1>3, <1>4, <1>5, <1>6 DEF BrokerRecvTask

(* The invariant bears that. *)
LEMMA AsideKeeps ==
    ASSUME TypeOK, WillParts, Aside
    PROVE  WillParts'
<1>1. /\ connMsg \in 0 .. made /\ made \in 0 .. MaxRecv /\ MaxRecv \in Nat
      /\ \A m \in 1 .. made : m \in Connect
  BY BoundsNat DEF TypeOK, TypeObjects, Connect
<1>2. Queued' /\ WillForwarded'
  BY <1>1, QueueKept DEF WillParts, Aside, SameWills
<1>3. Sendable'
  BY DEF Sendable, WillParts, Aside
<1>4. Held'
  BY <1>1 DEF Held, WillParts, Aside, SameWills, Null
<1>5. Fresh'
  <2>1. c.at \in Making /\ c.obj # Null => c.obj \in Connect
    BY <1>1 DEF WillParts, Fresh, Null
  <2> QED BY <2>1 DEF Fresh, WillParts, Aside, SameWills
<1> QED BY <1>2, <1>3, <1>4, <1>5 DEF WillParts

-----------------------------------------------------------------------------
(* Steps of C outside of the two handlers. *)
LEMMA ElsewhereKeeps ==
    ASSUME TypeOK, WillParts, UNCHANGED <<made, heap, connMsg>>,
           c.at \notin Making \cup WillComes, c'.at \notin Making \cup WillComes,
           brokerSend' = brokerSend \/
               \E e : e.type # "CONNECT" /\ brokerSend' = Append(brokerSend, e)
    PROVE  WillParts'
<1>1. made \in Nat
  BY BoundsNat DEF TypeOK, TypeObjects
<1>2. Queued' /\ WillForwarded'
  BY <1>1, QueueKept DEF WillParts
<1>3. Sendable' /\ Held'
  BY DEF Sendable, Held, WillParts, Making
<1>4. Fresh'
  BY DEF Fresh, WillParts, Making
<1> QED BY <1>2, <1>3, <1>4 DEF WillParts

LEMMA ElsewhereStep ==
    ASSUME TypeOK, Ready, WillParts,
           \/ HandleTimeout \/ HandleBroker \/ TakeClientRecv \/ UpdateStatus
           \/ SnWillTopic \/ SnWillMsgReject \/ SnWillMsgSaved \/ SnWillMsgWait
           \/ SnWillMsgConnack \/ SnPingReq \/ SnDisconnect
           \/ PostClient \/ PostBroker \/ Done
    PROVE  WillParts'
<1>1. UNCHANGED <<made, heap, connMsg>>
  BY DEF HandleTimeout, HandleBroker, TakeClientRecv, UpdateStatus, SnWillTopic,
         SnWillMsgReject, SnWillMsgSaved, SnWillMsgWait, SnWillMsgConnack, SnPingReq,
         SnDisconnect, PostClient, PostBroker, Done, Timeout, Timeover, TimerRuns,
         TimeoverDisconnect, TakeBrokerRecv, Connack, ConnackForward, ConnackPost, Flush,
         FlushOne, Pingresp, PublishAsleep, PublishAwake, PublishForward, BrokerDone,
         node, objects
<1>2. c.at \notin Making \cup WillComes /\ c'.at \notin Making \cup WillComes
  BY Flow, PostClientFlow
  DEF HandleTimeout, HandleBroker, Making, WillComes, TypeOK
<1>3. brokerSend' = brokerSend \/
          \E e : e.type # "CONNECT" /\ brokerSend' = Append(brokerSend, e)
  <2>1. CASE SnPingReq
    <3>1. brokerSend' = Append(brokerSend, [type |-> "PINGREQ"])
      BY <2>1 DEF SnPingReq
    <3> QED BY <3>1
  <2>2. CASE SnDisconnect
    <3>1. brokerSend' = Append(brokerSend, [type |-> "DISCONNECT"])
      BY <2>2 DEF SnDisconnect
    <3> QED BY <3>1
  <2>3. CASE PublishAsleep
    <3>1. brokerSend' = brokerSend \/ brokerSend' = Append(brokerSend, [type |-> "PUBACK"])
      BY <2>3 DEF PublishAsleep
    <3> QED BY <3>1
  <2>4. CASE ~(SnPingReq \/ SnDisconnect \/ PublishAsleep)
    BY <2>4
    DEF HandleTimeout, HandleBroker, TakeClientRecv, UpdateStatus, SnWillTopic,
        SnWillMsgReject, SnWillMsgSaved, SnWillMsgWait, SnWillMsgConnack, PostClient,
        PostBroker, Done, Timeout, Timeover, TimerRuns, TimeoverDisconnect,
        TakeBrokerRecv, Connack, ConnackForward, ConnackPost, Flush, FlushOne, Pingresp,
        PublishAwake, PublishForward, BrokerDone, messages
  <2> QED BY <2>1, <2>2, <2>3, <2>4
<1> QED BY <1>1, <1>2, <1>3, ElsewhereKeeps

-----------------------------------------------------------------------------
(* handleSnConnect: an object is made, *)
LEMMA SnConnectKeeps ==
    ASSUME TypeOK, Ready, WillParts, c.at = "CONNECT" => made < MaxRecv, SnConnect
    PROVE  WillParts'
<1>1. /\ made \in Nat /\ MaxRecv \in Nat /\ connMsg \in 0 .. made
      /\ c.at = "CONNECT" /\ c'.at = "connect" /\ brokerSend' = brokerSend
      /\ ClientMessage' = ClientMessage /\ status' = status
  BY BoundsNat, Flow
  DEF TypeOK, TypeObjects, SnConnect, messages, ClientMessage
<1>2. CASE isConnectSendable
  <2> DEFINE m == made + 1
  <2>1. m \in Connect /\ m > made /\ m # Null /\ ~heap[m].willMsg
    BY <1>1 DEF Connect, WillParts, Fresh, Null
  <2>2. /\ made' = m /\ connMsg' = m /\ c'.obj = m
        /\ heap' = [heap EXCEPT ![m].will = ClientMessage.will]
    BY <1>2 DEF SnConnect, TypeOK, TypeThreads
  <2>3. /\ heap'[m].will = ClientMessage.will /\ ~heap'[m].willMsg
        /\ \A o \in Connect : o # m => heap'[o] = heap[o]
    BY <2>1, <2>2 DEF TypeOK, TypeObjects
  <2>4. Queued' /\ WillForwarded'
    <3>1. \A o \in Connect : o <= made => o # m
      BY <1>1 DEF Connect
    <3>2. made' \in Nat /\ made' >= made
      BY <1>1, <2>2
    <3> QED BY <1>1, <2>3, <3>1, <3>2, QueueKept DEF WillParts
  <2>5. Sendable' /\ Held'
    BY <1>1, <1>2, <2>1, <2>2 DEF Sendable, Held, isConnectSendable
  <2>6. Fresh'
    <3>1. \A o \in Connect : o > m => o # m /\ o > made
      BY <1>1 DEF Connect
    <3> HIDE DEF m
    <3>2. m \in Nat /\ m \in 0 .. m
      BY <1>1 DEF m
    <3>3. \A o \in Connect : o > made' => ~heap'[o].willMsg
      BY <2>2, <2>3, <3>1 DEF WillParts, Fresh
    <3> QED BY <1>1, <2>2, <2>3, <3>2, <3>3 DEF Fresh
  <2> QED BY <2>4, <2>5, <2>6 DEF WillParts
<1>3. CASE ~isConnectSendable
  <2>1. UNCHANGED <<made, heap, connMsg>> /\ c'.obj = Null
    BY <1>3 DEF SnConnect, objects, TypeOK, TypeThreads
  <2>2. Queued' /\ WillForwarded'
    BY <1>1, <2>1, QueueKept DEF WillParts
  <2>3. Sendable' /\ Held'
    BY <1>1, <2>1 DEF Sendable, Held, WillParts, WillComes
  <2>4. Fresh'
    BY <1>1, <2>1 DEF Fresh, WillParts, Null
  <2> QED BY <2>2, <2>3, <2>4 DEF WillParts
<1> QED BY <1>2, <1>3

(* left in the node if the client has a will, *)
LEMMA SnConnectWillKeeps ==
    ASSUME TypeOK, Ready, WillParts, SnConnectWill
    PROVE  WillParts'
<1>1. /\ UNCHANGED <<made, heap, connMsg, brokerSend>> /\ ClientMessage.will
      /\ c.at = "connect" /\ c'.at = "post_client" /\ made \in Nat
  <2>1. TypeThreads /\ made \in Nat
    BY BoundsNat DEF TypeOK, TypeObjects
  <2>2. UNCHANGED <<made, heap, connMsg, brokerSend>> /\ ClientMessage.will
    BY DEF SnConnectWill, objects
  <2> QED BY <2>1, <2>2, Flow
<1>2. Queued' /\ WillForwarded'
  BY <1>1, QueueKept DEF WillParts
<1>3. Sendable' /\ Held'
  BY <1>1 DEF Sendable, Held, WillParts, Fresh, Making, WillComes
<1>4. Fresh'
  BY <1>1 DEF Fresh, WillParts, Making
<1> QED BY <1>2, <1>3, <1>4 DEF WillParts

(* or taken out of it and forwarded. *)
LEMMA SnConnectForwardKeeps ==
    ASSUME TypeOK, Ready, WillParts, SnConnectForward
    PROVE  WillParts'
<1>1. /\ UNCHANGED <<made, heap, brokerSend>> /\ ~ClientMessage.will
      /\ c.at = "connect" /\ c'.at \in {"connectQued", "done"} /\ c'.obj = c.obj
      /\ made \in Nat
  BY Flow, BoundsNat
  DEF SnConnectForward, CGoto, messages, TypeOK, TypeObjects, TypeThreads
<1>2. Queued' /\ WillForwarded'
  BY <1>1, QueueKept DEF WillParts
<1>3. CASE isConnectSendable
  <2>1. connMsg' = Null
    BY <1>3 DEF SnConnectForward
  <2>2. Sendable' /\ Held' /\ Fresh'
    BY <1>1, <2>1 DEF Sendable, Held, Fresh, WillParts, Making
  <2> QED BY <1>2, <2>2 DEF WillParts
<1>4. CASE ~isConnectSendable
  <2>1. connMsg' = connMsg /\ c'.at = "done" /\ c.obj = Null
    BY <1>1, <1>4 DEF SnConnectForward, CGoto, TypeOK, TypeThreads, WillParts, Sendable
  <2>2. Sendable' /\ Held' /\ Fresh'
    BY <1>1, <2>1 DEF Sendable, Held, Fresh, WillParts, Making, WillComes
  <2> QED BY <1>2, <2>2 DEF WillParts
<1> QED BY <1>3, <1>4

LEMMA ConnectQuedKeeps ==
    ASSUME TypeOK, WillParts, ConnectQued
    PROVE  WillParts'
<1>1. /\ UNCHANGED <<made, heap, connMsg, brokerSend>> /\ made \in Nat /\ c'.obj = c.obj
      /\ \/ c.at = "connectQued" /\ c'.at = "push"
         \/ c.at = "will_connectQued" /\ c'.at = "will_push"
  BY BoundsNat
  DEF ConnectQued, node, objects, messages, TypeOK, TypeObjects, TypeThreads
<1>2. Queued' /\ WillForwarded'
  BY <1>1, QueueKept DEF WillParts
<1>3. Sendable' /\ Held' /\ Fresh'
  BY <1>1 DEF Sendable, Held, Fresh, WillParts, Making, WillComes
<1> QED BY <1>2, <1>3 DEF WillParts

LEMMA SnConnectPushKeeps ==
    ASSUME TypeOK, WillParts, SnConnectPush
    PROVE  WillParts'
<1> DEFINE e == [type |-> "CONNECT", obj |-> c.obj]
<1>1. /\ UNCHANGED <<made, heap, connMsg>> /\ made \in Nat
      /\ c.at = "push" /\ c'.at = "post_broker" /\ brokerSend' = Append(brokerSend, e)
  BY BoundsNat DEF SnConnectPush, CGoto, objects, TypeOK, TypeObjects, TypeThreads
<1>2. /\ c.obj \in 0 .. made /\ connMsg = Null
      /\ c.obj # Null => c.obj \in Connect /\ ~heap[c.obj].will /\ ~heap[c.obj].willMsg
  BY <1>1, BoundsNat
  DEF WillParts, Fresh, Making, Connect, Null, TypeOK, TypeObjects
<1>3. Queued' /\ WillForwarded'
  <2>1. e.obj <= made' /\ (e.obj # Null => heap'[e.obj].will = heap'[e.obj].willMsg)
    <3>1. c.obj # Null => heap[c.obj].will = heap[c.obj].willMsg
      BY <1>2 DEF TypeOK, TypeObjects
    <3> QED BY <1>1, <1>2, <3>1
  <2> HIDE DEF e
  <2> QED BY <1>1, <2>1, QueueKept DEF WillParts
<1>4. Sendable' /\ Held' /\ Fresh'
  BY <1>1, <1>2 DEF Sendable, Held, Fresh, WillParts, Making
<1> QED BY <1>3, <1>4 DEF WillParts

(* handleSnWillMsg: the object of the node is completed, *)
LEMMA SnWillMsgKeeps ==
    ASSUME TypeOK, WillParts, SnWillMsg
    PROVE  WillParts'
<1>1. /\ UNCHANGED <<made, connMsg, brokerSend>> /\ made \in Nat
      /\ c.at = "WILLMSG" /\ c'.at = "will_connectQued" /\ connMsg # Null
      /\ heap' = [heap EXCEPT ![connMsg].willMsg = TRUE]
  BY BoundsNat DEF SnWillMsg, CGoto, messages, TypeOK, TypeObjects, TypeThreads
<1>2. connMsg \in Connect /\ connMsg <= made
  BY <1>1, BoundsNat DEF TypeOK, TypeObjects, Connect, Null
<1>3. heap[connMsg].will /\ ~heap[connMsg].willMsg
  BY <1>1 DEF WillParts, Held, WillComes
<1>4. /\ heap'[connMsg].will /\ heap'[connMsg].willMsg
      /\ \A o \in Connect : o # connMsg => heap'[o] = heap[o]
  BY <1>1, <1>2, <1>3 DEF TypeOK, TypeObjects
<1>5. Queued' /\ WillForwarded'
  <2>1. heap[connMsg].will # heap[connMsg].willMsg
    BY <1>2, <1>3 DEF TypeOK, TypeObjects
  <2>2. \A m \in Connect : m <= made /\ heap[m].will = heap[m].willMsg =>
            heap'[m].will = heap'[m].willMsg
    BY <1>4, <2>1
  <2>3. made' \in Nat /\ made' >= made /\ brokerSend' = brokerSend /\ Queued /\ WillForwarded
    BY <1>1 DEF WillParts
  <2> QED BY <2>2, <2>3, QueueKept
<1>6. Sendable' /\ Held'
  BY <1>1, <1>4 DEF Sendable, Held, WillComes
<1>7. Fresh'
  BY <1>1, <1>2, <1>4 DEF Fresh, WillParts, Making, Connect
<1> QED BY <1>5, <1>6, <1>7 DEF WillParts

LEMMA SnWillMsgQuedKeeps ==
    ASSUME TypeOK, WillParts, SnWillMsgQued
    PROVE  WillParts'
<1>1. /\ UNCHANGED <<made, heap, connMsg, brokerSend>> /\ made \in Nat
      /\ c.at = "will_push" /\ c'.at = "will_forward"
  BY BoundsNat
  DEF SnWillMsgQued, CGoto, objects, messages, TypeOK, TypeObjects, TypeThreads
<1>2. Queued' /\ WillForwarded'
  BY <1>1, QueueKept DEF WillParts
<1>3. Sendable' /\ Held' /\ Fresh'
  BY <1>1 DEF Sendable, Held, Fresh, WillParts, Making, WillComes
<1> QED BY <1>2, <1>3 DEF WillParts

(* and forwarded, if S has not deleted it. *)
LEMMA SnWillMsgForwardKeeps ==
    ASSUME TypeOK, WillParts, SnWillMsgForward
    PROVE  WillParts'
<1> DEFINE e == [type |-> "CONNECT", obj |-> connMsg]
<1>1. /\ UNCHANGED <<made, heap>> /\ connMsg' = Null /\ made \in Nat /\ connMsg \in 0 .. made
      /\ c.at = "will_forward" /\ c'.at = "post_broker"
      /\ brokerSend' = Append(brokerSend, e)
  BY BoundsNat DEF SnWillMsgForward, CGoto, TypeOK, TypeObjects, TypeThreads
<1>2. connMsg # Null => heap[connMsg].will = heap[connMsg].willMsg
  <2>1. connMsg # Null => connMsg \in Connect /\ heap[connMsg].will /\ heap[connMsg].willMsg
    BY <1>1, BoundsNat DEF WillParts, Held, WillComes, TypeOK, TypeObjects, Connect, Null
  <2> QED BY <2>1 DEF TypeOK, TypeObjects
<1>3. Queued' /\ WillForwarded'
  <2>1. e.obj <= made' /\ (e.obj # Null => heap'[e.obj].will = heap'[e.obj].willMsg)
    BY <1>1, <1>2
  <2> HIDE DEF e
  <2> QED BY <1>1, <2>1, QueueKept DEF WillParts
<1>4. Sendable' /\ Held' /\ Fresh'
  BY <1>1 DEF Sendable, Held, Fresh, WillParts, Making
<1> QED BY <1>3, <1>4 DEF WillParts

-----------------------------------------------------------------------------
(* The invariant holds at the beginning, *)
LEMMA WillInit == Init => WillInv
<1> SUFFICES ASSUME Init PROVE WillInv
  OBVIOUS
<1>1. Sendable /\ Held /\ Fresh /\ Queued /\ WillForwarded
  BY DEF Init, Sendable, Held, Fresh, Queued, WillForwarded, Making
<1> QED BY <1>1, IndInvInit DEF WillInv, WillParts

(* every step keeps it, *)
LEMMA WillStep == WillInv /\ [Next]_vars => WillInv'
<1> SUFFICES ASSUME WillInv, [Next]_vars PROVE WillInv'
  OBVIOUS
<1>1. IndInv' /\ WillParts /\ TypeOK /\ Ready
  BY IndInvStep, IsReady DEF WillInv, IndInv
<1>2. c.at = "CONNECT" => made < MaxRecv
  BY <1>1, ConnectLeft DEF WillInv, IndInv
<1>3. CASE ClientRecvTask \/ BrokerSendTask \/ BrokerRecvTask \/ ClientSendTask
           \/ BrokerPublish \/ BrokerCut \/ HandleSearchGw
  BY <1>1, <1>3, OthersAside, AsideKeeps DEF WillInv
<1>4. CASE HandleConnect
  BY <1>1, <1>2, <1>4, SnConnectKeeps, SnConnectWillKeeps, SnConnectForwardKeeps,
     ConnectQuedKeeps, SnConnectPushKeeps
  DEF HandleConnect, WillInv
<1>5. CASE SnWillMsg \/ SnWillMsgQued \/ SnWillMsgForward
  BY <1>1, <1>5, SnWillMsgKeeps, SnWillMsgQuedKeeps, SnWillMsgForwardKeeps DEF WillInv
<1>6. CASE \/ HandleTimeout \/ HandleBroker \/ TakeClientRecv \/ UpdateStatus
           \/ SnWillTopic \/ SnWillMsgReject \/ SnWillMsgSaved \/ SnWillMsgWait
           \/ SnWillMsgConnack \/ SnPingReq \/ SnDisconnect
           \/ PostClient \/ PostBroker \/ Done
  BY <1>1, <1>6, ElsewhereStep DEF WillInv
<1>7. CASE UNCHANGED vars
  <2>1. UNCHANGED <<c, made, heap, connMsg, brokerSend, clientRecv, status>>
    BY <1>7 DEF vars, node, objects, messages
  <2>2. WillParts'
    BY <1>1, <2>1
    DEF WillParts, Sendable, Held, Fresh, Queued, WillForwarded, isConnectSendable,
        ClientMessage
  <2> QED BY <1>1, <2>2 DEF WillInv
<1> QED
  BY <1>3, <1>4, <1>5, <1>6, <1>7
  DEF Next, GatewayControlTask, HandleClient, HandleWill

(* and no CONNECT is forwarded before its will has come, or with the will  *)
(* of another attempt.                                                     *)
THEOREM WillForwardedCorrect == Spec => []WillForwarded
<1>1. WillInv => WillForwarded
  BY DEF WillInv, WillParts
<1> QED BY <1>1, WillInit, WillStep, PTL DEF Spec

-----------------------------------------------------------------------------
(* Who assigns what: the steps that may change a variable. *)
LEMMA ClientFrame ==
    ASSUME Next
    PROVE  /\ \/ (\E m \in Inputs : RecvClient(m)) \/ RecvForget \/ RecvStore \/ RecvPost
              \/ r' = r
           /\ RecvStore \/ Done \/ clientRecv' = clientRecv
<1> USE DEF messages, node, objects
<1>1. CASE ClientRecvTask
  BY <1>1 DEF ClientRecvTask, RecvClient, RecvForget, RecvStore, RecvPost
<1>2. CASE HandleTimeout \/ HandleSearchGw \/ HandleBroker
  BY <1>2
  DEF HandleTimeout, HandleSearchGw, HandleBroker, Timeout, Timeover, TimerRuns,
      TimeoverDisconnect, TakeBrokerRecv, Connack, ConnackForward, ConnackPost, Flush,
      FlushOne, Pingresp, PublishAsleep, PublishAwake, PublishForward, BrokerDone
<1>3. CASE HandleClient
  BY <1>3
  DEF HandleClient, HandleConnect, HandleWill, TakeClientRecv, UpdateStatus, SnConnect,
      SnConnectWill, SnConnectForward, ConnectQued, SnConnectPush, SnWillTopic, SnWillMsg,
      SnWillMsgQued, SnWillMsgForward, SnWillMsgReject, SnWillMsgSaved, SnWillMsgWait,
      SnWillMsgConnack, SnPingReq, SnDisconnect, PostClient, PostBroker, Done
<1>4. CASE BrokerSendTask
  BY <1>4
  DEF BrokerSendTask, TakeBrokerSend, ConnectSended, Send, SendFails, SendDisconnected,
      SendClose, SendDone
<1>5. CASE BrokerRecvTask \/ ClientSendTask \/ BrokerPublish \/ BrokerCut
  BY <1>5
  DEF BrokerRecvTask, RecvBroker, RecvFails, ClientSendTask, SendClient, BrokerPublish,
      BrokerCut
<1> QED BY <1>1, <1>2, <1>3, <1>4, <1>5 DEF Next, GatewayControlTask

LEMMA BrokerFrame ==
    ASSUME Next
    PROVE  /\ \/ SnConnectPush \/ SnWillMsgForward \/ SnPingReq \/ SnDisconnect
              \/ PublishAsleep \/ SendDone \/ brokerSend' = brokerSend
           /\ RecvBroker \/ BrokerDone \/ brokerRecv' = brokerRecv
           /\ \/ (\E code \in Codes : Send(code)) \/ SendFails \/ SendClose
              \/ TimeoverDisconnect \/ RecvBroker \/ BrokerPublish
              \/ fromBroker' = fromBroker
           /\ \/ (\E code \in Codes : Send(code)) \/ SendFails \/ SendClose
              \/ TimeoverDisconnect \/ BrokerCut \/ conn' = conn
           /\ BrokerSendTask \/ s' = s
           /\ GatewayControlTask \/ c' = c
<1> USE DEF messages, node, objects, broker
<1>1. CASE ClientRecvTask
  BY <1>1 DEF ClientRecvTask, RecvClient, RecvForget, RecvStore, RecvPost
<1>2. CASE HandleTimeout \/ HandleSearchGw \/ HandleBroker
  BY <1>2
  DEF GatewayControlTask,
      HandleTimeout, HandleSearchGw, HandleBroker, Timeout, Timeover, TimerRuns,
      TimeoverDisconnect, TakeBrokerRecv, Connack, ConnackForward, ConnackPost, Flush,
      FlushOne, Pingresp, PublishAsleep, PublishAwake, PublishForward, BrokerDone
<1>3. CASE HandleClient
  BY <1>3
  DEF GatewayControlTask, HandleClient, HandleConnect, HandleWill, TakeClientRecv,
      UpdateStatus, SnConnect,
      SnConnectWill, SnConnectForward, ConnectQued, SnConnectPush, SnWillTopic, SnWillMsg,
      SnWillMsgQued, SnWillMsgForward, SnWillMsgReject, SnWillMsgSaved, SnWillMsgWait,
      SnWillMsgConnack, SnPingReq, SnDisconnect, PostClient, PostBroker, Done
<1>4. CASE BrokerSendTask
  BY <1>4
  DEF BrokerSendTask, TakeBrokerSend, ConnectSended, Send, SendFails, SendDisconnected,
      SendClose, SendDone
<1>5. CASE BrokerRecvTask \/ ClientSendTask \/ BrokerPublish \/ BrokerCut
  BY <1>5
  DEF BrokerRecvTask, RecvBroker, RecvFails, ClientSendTask, SendClient, BrokerPublish,
      BrokerCut
<1> QED BY <1>1, <1>2, <1>3, <1>4, <1>5 DEF Next, GatewayControlTask

LEMMA NodeFrame ==
    ASSUME Next
    PROVE  /\ \/ RecvForget \/ RecvStore \/ Timeover \/ UpdateStatus \/ SnConnectPush
              \/ SnWillMsgQued \/ SnWillMsgReject \/ SnWillMsgConnack \/ ConnackForward
              \/ ConnectSended \/ SendDisconnected \/ RecvFails \/ status' = status
           /\ SnConnect \/ SnConnectForward \/ SnWillMsgForward \/ ConnectSended
              \/ connMsg' = connMsg
           /\ SnConnect \/ made' = made
           /\ SnConnect \/ SnWillMsg \/ ConnectSended \/ SendDone \/ heap' = heap
<1> USE DEF node, objects
<1>1. CASE ClientRecvTask
  BY <1>1 DEF ClientRecvTask, RecvClient, RecvForget, RecvStore, RecvPost
<1>2. CASE HandleTimeout \/ HandleSearchGw \/ HandleBroker
  BY <1>2
  DEF HandleTimeout, HandleSearchGw, HandleBroker, Timeout, Timeover, TimerRuns,
      TimeoverDisconnect, TakeBrokerRecv, Connack, ConnackForward, ConnackPost, Flush,
      FlushOne, Pingresp, PublishAsleep, PublishAwake, PublishForward, BrokerDone
<1>3. CASE HandleClient
  BY <1>3
  DEF HandleClient, HandleConnect, HandleWill, TakeClientRecv, UpdateStatus, SnConnect,
      SnConnectWill, SnConnectForward, ConnectQued, SnConnectPush, SnWillTopic, SnWillMsg,
      SnWillMsgQued, SnWillMsgForward, SnWillMsgReject, SnWillMsgSaved, SnWillMsgWait,
      SnWillMsgConnack, SnPingReq, SnDisconnect, PostClient, PostBroker, Done
<1>4. CASE BrokerSendTask
  BY <1>4
  DEF BrokerSendTask, TakeBrokerSend, ConnectSended, Send, SendFails, SendDisconnected,
      SendClose, SendDone
<1>5. CASE BrokerRecvTask \/ ClientSendTask \/ BrokerPublish \/ BrokerCut
  BY <1>5
  DEF BrokerRecvTask, RecvBroker, RecvFails, ClientSendTask, SendClient, BrokerPublish,
      BrokerCut
<1> QED BY <1>1, <1>2, <1>3, <1>4, <1>5 DEF Next, GatewayControlTask

-----------------------------------------------------------------------------
(* A client that sends only to a gateway that has settled (Prompt) has one *)
(* message at a time under way.  Its handler ends with what it posts:      *)
Posted == {"post_client", "post_both", "post_broker", "done"}
Begun == r.at # "idle" \/ (clientRecv # << >> /\ c.at \notin Posted)

OneMessage ==
    /\ Len(clientRecv) <= 1
    /\ clientRecv # << >> =>
          r.at = "idle" \/ (r.at = "post" /\ r.msg.type # "SEARCHGW")

(* until then S has nothing but acknowledgements to send, and the broker   *)
(* has nothing to say to a CONNECT;                                        *)
OnlyAcks == \A i \in DOMAIN brokerSend : brokerSend[i].type = "PUBACK"
NoConnack ==
    /\ \A i \in DOMAIN fromBroker : fromBroker[i].type # "CONNACK"
    /\ \A i \in DOMAIN brokerRecv : brokerRecv[i].type # "CONNACK"
Still == Begun => OnlyAcks /\ NoConnack

(* and after that S has one request of the client at most.                 *)
OneRequest ==
    \A i, j \in DOMAIN brokerSend :
        brokerSend[i].type # "PUBACK" /\ brokerSend[j].type # "PUBACK" => i = j

(* S and C handle what they took the event of. *)
AtWill == {"WILLMSG", "will_connectQued", "will_push", "will_forward", "will_connack"}
InHand ==
    /\ c.at \in Making => ClientMessage.type = "CONNECT"
    /\ c.at \in AtWill => ClientMessage.type = "WILLMSG"
    /\ c.at = "DISCONNECT" => ClientMessage.type = "DISCONNECT"
    /\ c.at \in {"connack", "connack_post"} => BrokerMessage.type = "CONNACK"
    /\ s.at = "connectSended" => SMessage.type = "CONNECT"
    /\ s.at = "close" => SMessage.type = "DISCONNECT"

Turn == OneMessage /\ Still /\ OneRequest /\ InHand

(* While C handles the client's message, R is idle. *)
LEMMA HandlesAlone ==
    ASSUME IndInv, OneMessage, c.at \in AtClient
    PROVE  r.at = "idle" /\ clientRecv # << >> /\ Len(clientRecv) = 1
<1>1. clientRecv # << >>
  BY IsReady DEF IndInv, Ready
<1>2. r.at = "idle" \/ (r.at = "post" /\ r.msg.type # "SEARCHGW")
  BY <1>1 DEF OneMessage
<1> DEFINE n == Count(gwQue, "clientRecv")
           l == Len(clientRecv)
<1>3. n \in Nat
  BY Places DEF IndInv, TypeOK, TypeEvents
<1>4. l = n + 1 + One(r.at = "post" /\ r.msg.type # "SEARCHGW")
  BY DEF IndInv, EventsPaired, ClientRecvPaired, One
<1>5. l <= 1
  BY DEF OneMessage
<1> HIDE DEF n, l
<1>6. l = 1 /\ ~(r.at = "post" /\ r.msg.type # "SEARCHGW")
  BY <1>3, <1>4, <1>5 DEF One
<1> QED BY <1>1, <1>2, <1>6 DEF l

(* A settled gateway has no message left. *)
LEMMA SettledEmpty ==
    ASSUME IndInv, Settled
    PROVE  clientRecv = << >> /\ brokerSend = << >> /\ brokerRecv = << >>
<1>1. /\ Count(gwQue, "clientRecv") = 0 /\ Count(gwQue, "brokerRecv") = 0
      /\ Len(bsQue) = 0
  BY CountEmpty DEF Settled
<1>2. Len(clientRecv) = 0 /\ Len(brokerSend) = 0 /\ Len(brokerRecv) = 0
  BY <1>1
  DEF IndInv, EventsPaired, ClientRecvPaired, BrokerSendPaired, BrokerRecvPaired, One,
      Settled, AtClient, AtBroker
<1> QED BY <1>2 DEF IndInv, TypeOK, TypeMessages

(* R hears the client of a settled gateway only, *)
LEMMA HeardSettled ==
    ASSUME IndInv, Prompt, NEW m \in Inputs, RecvClient(m)
    PROVE  /\ Settled
           /\ clientRecv = << >> /\ brokerSend = << >> /\ brokerRecv = << >>
           /\ fromBroker = << >>
           /\ UNCHANGED <<clientRecv, brokerSend, brokerRecv, fromBroker, conn, status, c, s,
                          connMsg, heap, made>>
           /\ r'.seen = status /\ r'.msg = m
           /\ r'.at \in {"idle", "forget", "store", "post"}
           /\ r'.at \in {"forget", "post"} => m.type = "SEARCHGW"
<1>1. Settled
  BY DEF RecvClient
<1>2. UNCHANGED <<clientRecv, brokerSend, brokerRecv, fromBroker, conn, status, c, s,
                  connMsg, heap, made>>
  BY DEF RecvClient, messages, broker, objects
<1>3. /\ r'.seen = status /\ r'.msg = m
      /\ r'.at \in {"idle", "forget", "store", "post"}
      /\ r'.at \in {"forget", "post"} => m.type = "SEARCHGW"
  BY DEF RecvClient
<1> QED BY <1>1, <1>2, <1>3, SettledEmpty DEF Settled

LEMMA OneMessageStep ==
    ASSUME IndInv, Prompt, OneMessage, Next
    PROVE  OneMessage'
<1>1. clientRecv \in Seq(ClientMsg) /\ r.msg \in ClientMsg
  BY DEF IndInv, TypeOK, TypeMessages, TypeThreads
<1>2. ASSUME NEW m \in Inputs, RecvClient(m) PROVE OneMessage'
  BY <1>2, HeardSettled DEF OneMessage
<1>3. CASE RecvForget
  <2>1. clientRecv = << >>
    BY <1>3 DEF RecvForget, OneMessage
  <2> QED BY <1>3, <2>1 DEF RecvForget, OneMessage, messages
<1>4. CASE RecvStore
  <2>1. clientRecv = << >> /\ clientRecv' = Append(clientRecv, r.msg)
    BY <1>4 DEF RecvStore, OneMessage
  <2>2. r'.at = "post" /\ r'.msg = r.msg /\ r.msg.type # "SEARCHGW"
    BY <1>4 DEF RecvStore, IndInv, TypeOK, TypeThreads, NoSearchGw
  <2> QED BY <1>1, <2>1, <2>2 DEF OneMessage
<1>5. CASE RecvPost
  BY <1>5 DEF RecvPost, OneMessage, messages, IndInv, TypeOK, TypeThreads
<1>6. CASE Done
  <2>1. Len(clientRecv) = 1 /\ clientRecv # << >> /\ clientRecv' = Tail(clientRecv)
    BY <1>6, HandlesAlone DEF Done, AtClient
  <2> QED BY <1>1, <2>1 DEF OneMessage
<1>7. CASE UNCHANGED <<r, clientRecv>>
  BY <1>7 DEF OneMessage
<1>8. Done \/ RecvStore \/ clientRecv' = clientRecv
  BY ClientFrame
<1> QED BY <1>2, <1>3, <1>4, <1>5, <1>6, <1>7, <1>8, ClientFrame

(* What is posted stays posted until it is done, *)
LEMMA PostedStays ==
    ASSUME IndInv, Next, c.at \in Posted
    PROVE  Done \/ c'.at \in Posted
<1>1. TypeThreads /\ Ready
  BY IsReady DEF IndInv, TypeOK
<1>2. CASE PostClient
  BY <1>1, <1>2, PostClientFlow DEF Posted
<1>3. CASE PostBroker
  BY <1>1, <1>3, Flow DEF Posted
<1>4. CASE HandleTimeout \/ HandleSearchGw \/ HandleBroker
  BY <1>1, <1>4, Flow DEF HandleTimeout, HandleSearchGw, HandleBroker, Posted
<1>5. CASE HandleClient /\ ~(PostClient \/ PostBroker \/ Done)
  BY <1>1, <1>5, Flow DEF HandleClient, HandleConnect, HandleWill, Posted
<1> QED BY <1>2, <1>3, <1>4, <1>5, BrokerFrame DEF GatewayControlTask, HandleClient

(* so that nobody but the client begins. *)
LEMMA BegunBefore ==
    ASSUME IndInv, OneMessage, Next, Begun', ~(\E m \in Inputs : RecvClient(m))
    PROVE  Begun
<1>1. CASE RecvForget \/ RecvStore \/ RecvPost
  BY <1>1 DEF RecvForget, RecvStore, RecvPost, Begun
<1>2. CASE r' = r
  <2>1. CASE Done
    <3>1. Len(clientRecv) = 1 /\ r.at = "idle" /\ clientRecv' = Tail(clientRecv)
      BY <2>1, HandlesAlone DEF Done, AtClient
    <3>2. clientRecv' = << >>
      BY <3>1 DEF IndInv, TypeOK, TypeMessages
    <3> QED BY <1>2, <3>1, <3>2 DEF Begun
  <2>2. CASE RecvStore
    BY <2>2 DEF RecvStore, Begun
  <2>3. CASE ~Done /\ ~RecvStore
    BY <1>2, <2>3, ClientFrame, PostedStays DEF Begun
  <2> QED BY <2>1, <2>2, <2>3
<1> QED BY <1>1, <1>2, ClientFrame

(* The requests of the client are posted for S. *)
LEMMA RequestsPosted ==
    ASSUME IndInv, OneMessage, Next,
           SnConnectPush \/ SnWillMsgForward \/ SnPingReq \/ SnDisconnect
    PROVE  /\ r.at = "idle" /\ Begun /\ ~Begun' /\ s' = s
           /\ UNCHANGED <<clientRecv, brokerRecv, fromBroker, conn, r>>
           /\ \E e : brokerSend' = Append(brokerSend, e)
<1>1. TypeThreads /\ Ready
  BY IsReady DEF IndInv, TypeOK
<1>2. c.at \in AtClient /\ c.at \notin Posted /\ c'.at \in Posted
  BY <1>1, Flow DEF AtClient, Posted
<1>3. /\ UNCHANGED <<clientRecv, brokerRecv, fromBroker, conn, r, s>>
      /\ \E e : brokerSend' = Append(brokerSend, e)
  BY DEF SnConnectPush, SnWillMsgForward, SnPingReq, SnDisconnect, broker
<1>4. r.at = "idle" /\ clientRecv # << >>
  BY <1>2, HandlesAlone
<1> QED BY <1>2, <1>3, <1>4 DEF Begun

(* What is between S, the broker and B while the client's message is       *)
(* handled stays without requests and CONNACKs. *)
LEMMA AcksStep ==
    ASSUME IndInv, OneMessage, Next, Begun, Begun', OnlyAcks
    PROVE  OnlyAcks'
<1>1. brokerSend \in Seq(ToBroker)
  BY DEF IndInv, TypeOK, TypeMessages
<1>2. CASE PublishAsleep
  <2>1. brokerSend' = brokerSend \/ brokerSend' = Append(brokerSend, [type |-> "PUBACK"])
    BY <1>2 DEF PublishAsleep
  <2> QED BY <1>1, <2>1, AppendTail DEF OnlyAcks
<1>3. CASE SendDone
  <2>1. brokerSend' = Tail(brokerSend) /\ brokerSend # << >>
    BY <1>3, IsReady DEF SendDone, Ready, IndInv
  <2> QED BY <1>1, <2>1, AppendTail DEF OnlyAcks
<1>4. CASE brokerSend' = brokerSend
  BY <1>4 DEF OnlyAcks
<1> QED BY <1>2, <1>3, <1>4, BrokerFrame, RequestsPosted

LEMMA NoConnackStep ==
    ASSUME IndInv, Next, NoConnack, 
           \A code \in Codes : Send(code) => SMessage.type # "CONNECT"
    PROVE  NoConnack'
<1>1. /\ fromBroker \in Seq(BrokerPacket) /\ brokerRecv \in Seq(BrokerPacket)
      /\ Ready
  BY IsReady DEF IndInv, TypeOK, TypeMessages, TypeBroker
<1>2. ASSUME NEW code \in Codes, Send(code)
      PROVE  NoConnack'
  <2>1. \/ fromBroker' = fromBroker
        \/ fromBroker' = Append(fromBroker, [type |-> "PINGRESP"])
    BY <1>2 DEF Send, BrokerGets, broker
  <2>2. brokerRecv' = brokerRecv
    BY <1>2 DEF Send, messages
  <2> QED BY <1>1, <2>1, <2>2, AppendTail DEF NoConnack
<1>3. CASE SendFails \/ SendClose \/ TimeoverDisconnect
  BY <1>3 DEF SendFails, SendClose, TimeoverDisconnect, Close, messages, NoConnack
<1>4. CASE RecvBroker
  <2> DEFINE m == Head(fromBroker)
  <2>1. /\ fromBroker # << >> /\ fromBroker' = Tail(fromBroker)
        /\ brokerRecv' = Append(brokerRecv, m)
    BY <1>4 DEF RecvBroker
  <2>2. m.type # "CONNACK"
    BY <1>1, <2>1 DEF NoConnack
  <2> HIDE DEF m
  <2> QED BY <1>1, <2>1, <2>2, AppendTail DEF NoConnack
<1>5. CASE BrokerPublish
  <2>1. PICK q \in BOOLEAN :
            fromBroker' = Append(fromBroker, [type |-> "PUBLISH", qos1 |-> q])
    BY <1>5 DEF BrokerPublish
  <2>2. brokerRecv' = brokerRecv
    BY <1>5 DEF BrokerPublish, messages
  <2> QED BY <1>1, <2>1, <2>2, AppendTail DEF NoConnack
<1>6. CASE BrokerDone
  <2>1. brokerRecv # << >> /\ brokerRecv' = Tail(brokerRecv) /\ fromBroker' = fromBroker
    BY <1>1, <1>6 DEF BrokerDone, Ready, AtBroker, broker
  <2> QED BY <1>1, <2>1, AppendTail DEF NoConnack
<1>7. CASE UNCHANGED <<fromBroker, brokerRecv>>
  BY <1>7 DEF NoConnack
<1> QED BY <1>2, <1>3, <1>4, <1>5, <1>6, <1>7, BrokerFrame

(* The front of a queue of acknowledgements is one. *)
LEMMA AckInFront ==
    ASSUME IndInv, OnlyAcks, s.at # "idle"
    PROVE  SMessage.type = "PUBACK"
<1>1. brokerSend \in Seq(ToBroker) /\ brokerSend # << >>
  BY IsReady DEF IndInv, Ready, TypeOK, TypeMessages
<1> QED BY <1>1 DEF OnlyAcks, SMessage

LEMMA StillStep ==
    ASSUME IndInv, Prompt, OneMessage, Still, Next
    PROVE  Still'
<1> SUFFICES ASSUME Begun' PROVE OnlyAcks' /\ NoConnack'
  BY DEF Still
<1>1. ASSUME NEW m \in Inputs, RecvClient(m) PROVE OnlyAcks' /\ NoConnack'
  BY <1>1, HeardSettled DEF OnlyAcks, NoConnack
<1>2. CASE ~(\E m \in Inputs : RecvClient(m))
  <2>1. Begun /\ OnlyAcks /\ NoConnack
    BY <1>2, BegunBefore DEF Still
  <2>2. \A code \in Codes : Send(code) => SMessage.type # "CONNECT"
    BY <2>1, AckInFront DEF Send
  <2> QED BY <2>1, <2>2, AcksStep, NoConnackStep
<1> QED BY <1>1, <1>2

LEMMA OneRequestStep ==
    ASSUME IndInv, OneMessage, Still, OneRequest, Next
    PROVE  OneRequest'
<1>1. brokerSend \in Seq(ToBroker)
  BY DEF IndInv, TypeOK, TypeMessages
<1>2. CASE SnConnectPush \/ SnWillMsgForward \/ SnPingReq \/ SnDisconnect
  <2>1. OnlyAcks
    BY <1>2, RequestsPosted DEF Still
  <2>2. PICK e : brokerSend' = Append(brokerSend, e)
    BY <1>2, RequestsPosted
  <2>3. \A i \in DOMAIN brokerSend' :
           i = Len(brokerSend) + 1 \/ brokerSend'[i].type = "PUBACK"
    BY <1>1, <2>1, <2>2 DEF OnlyAcks
  <2> QED BY <2>3 DEF OneRequest
<1>3. CASE PublishAsleep
  <2>1. brokerSend' = brokerSend \/ brokerSend' = Append(brokerSend, [type |-> "PUBACK"])
    BY <1>3 DEF PublishAsleep
  <2>2. CASE brokerSend' = brokerSend
    BY <2>2 DEF OneRequest
  <2>3. CASE brokerSend' = Append(brokerSend, [type |-> "PUBACK"])
    <3>1. \A i \in DOMAIN brokerSend' :
             \/ i \in DOMAIN brokerSend /\ brokerSend'[i] = brokerSend[i]
             \/ brokerSend'[i].type = "PUBACK"
      BY <1>1, <2>3
    <3> QED BY <3>1 DEF OneRequest
  <2> QED BY <2>1, <2>2, <2>3
<1>4. CASE SendDone
  <2>1. brokerSend' = Tail(brokerSend) /\ brokerSend # << >>
    BY <1>4, IsReady DEF SendDone, Ready, IndInv
  <2>2. \A i \in DOMAIN brokerSend' :
           i \in Nat /\ i + 1 \in DOMAIN brokerSend /\ brokerSend'[i] = brokerSend[i + 1]
    BY <1>1, <2>1
  <2>3. \A i, j \in DOMAIN brokerSend' : i + 1 = j + 1 => i = j
    BY <2>2
  <2> QED BY <2>2, <2>3 DEF OneRequest
<1>5. CASE brokerSend' = brokerSend
  BY <1>5 DEF OneRequest
<1> QED BY <1>2, <1>3, <1>4, <1>5, BrokerFrame

(* The front of a queue stays where it is while the queue grows. *)
LEMMA FrontStays ==
    ASSUME NEW S, NEW q \in Seq(S), q # << >>, NEW e
    PROVE  Head(Append(q, e)) = Head(q)
OBVIOUS

(* C has one message of the client in its hands until it is done. *)
LEMMA ClientFront ==
    ASSUME IndInv, Next, c.at \in AtClient, ~Done
    PROVE  ClientMessage' = ClientMessage
<1>1. clientRecv # << >> /\ clientRecv \in Seq(ClientMsg)
  BY IsReady DEF IndInv, Ready, TypeOK, TypeMessages
<1>2. clientRecv' = clientRecv \/ \E e : clientRecv' = Append(clientRecv, e)
  BY ClientFrame DEF RecvStore
<1> QED BY <1>1, <1>2, FrontStays DEF ClientMessage

LEMMA InHandStep ==
    ASSUME IndInv, InHand, Next
    PROVE  InHand'
<1>1. /\ brokerSend \in Seq(ToBroker) /\ brokerRecv \in Seq(BrokerPacket)
      /\ TypeThreads /\ Ready
  BY IsReady DEF IndInv, TypeOK, TypeMessages
<1>2. (c.at \in {"connack", "connack_post"} => BrokerMessage.type = "CONNACK")'
  <2>1. SUFFICES ASSUME c'.at \in {"connack", "connack_post"}
                 PROVE  BrokerMessage'.type = "CONNACK"
    OBVIOUS
  <2>2. CASE Connack \/ ConnackForward
    <3>1. c.at \in {"CONNACK", "connack"} /\ brokerRecv' = brokerRecv
      BY <2>2 DEF Connack, ConnackForward, messages
    <3>2. BrokerMessage.type = "CONNACK"
      BY <3>1 DEF InHand, IndInv, HandlerFits
    <3> QED BY <3>1, <3>2 DEF BrokerMessage
  <2>3. CASE c' = c
    <3>1. brokerRecv # << >>
      BY <1>1, <2>1, <2>3 DEF Ready, AtBroker
    <3>2. brokerRecv' = brokerRecv \/ \E e : brokerRecv' = Append(brokerRecv, e)
      <4>1. ~BrokerDone
        BY <1>1, <2>1, <2>3, Flow
      <4> QED BY <4>1, BrokerFrame DEF RecvBroker
    <3>3. Head(brokerRecv') = Head(brokerRecv)
      BY <1>1, <3>1, <3>2, FrontStays
    <3> QED BY <2>1, <2>3, <3>3 DEF InHand, BrokerMessage
  <2>4. CASE GatewayControlTask /\ ~Connack /\ ~ConnackForward /\ c' # c
    <3>1. c'.at \notin {"connack", "connack_post"}
      <4>1. CASE HandleTimeout \/ HandleSearchGw \/ HandleBroker
        <5>1. ~HandleSearchGw
          BY <2>4 DEF HandleSearchGw
        <5> QED BY <1>1, <2>4, <4>1, <5>1, Flow DEF HandleTimeout, HandleBroker
      <4>2. CASE PostClient
        BY <1>1, <4>2, PostClientFlow
      <4>3. CASE HandleClient /\ ~PostClient
        BY <1>1, <4>3, Flow DEF HandleClient, HandleConnect, HandleWill
      <4> QED BY <2>4, <4>1, <4>2, <4>3 DEF GatewayControlTask
    <3> QED BY <2>1, <3>1
  <2> QED BY <2>2, <2>3, <2>4, BrokerFrame
<1>3. (/\ s.at = "connectSended" => SMessage.type = "CONNECT"
       /\ s.at = "close" => SMessage.type = "DISCONNECT")'
  <2>1. CASE TakeBrokerSend
    <3>1. /\ brokerSend' = brokerSend /\ s'.at # "close"
          /\ s'.at = "connectSended" => SMessage.type = "CONNECT"
      BY <2>1 DEF TakeBrokerSend, messages
    <3> QED BY <3>1 DEF SMessage
  <2>2. CASE \/ ConnectSended \/ (\E code \in Codes : Send(code)) \/ SendFails
             \/ SendDisconnected \/ SendClose
    <3>1. /\ brokerSend' = brokerSend /\ s'.at # "connectSended"
          /\ s'.at = "close" => SMessage.type = "DISCONNECT"
      BY <1>1, <2>2
      DEF ConnectSended, Send, SendFails, SendDisconnected, SendClose, messages, TypeThreads
    <3> QED BY <3>1 DEF SMessage
  <2>3. CASE SendDone
    BY <1>1, <2>3 DEF SendDone, TypeThreads
  <2>4. CASE s' = s
    <3>1. CASE s.at \in {"connectSended", "close"}
      <4>1. brokerSend # << >>
        BY <1>1, <3>1 DEF Ready
      <4>2. brokerSend' = brokerSend \/ \E e : brokerSend' = Append(brokerSend, e)
        <5>1. ~SendDone
          BY <3>1 DEF SendDone
        <5> QED BY <5>1, BrokerFrame
            DEF SnConnectPush, SnWillMsgForward, SnPingReq, SnDisconnect, PublishAsleep
      <4>3. Head(brokerSend') = Head(brokerSend)
        BY <1>1, <4>1, <4>2, FrontStays
      <4> QED BY <2>4, <4>3 DEF InHand, SMessage
    <3>2. CASE s.at \notin {"connectSended", "close"}
      BY <2>4, <3>2
    <3> QED BY <3>1, <3>2
  <2> QED BY <2>1, <2>2, <2>3, <2>4, BrokerFrame DEF BrokerSendTask
<1>4. (/\ c.at \in Making => ClientMessage.type = "CONNECT"
       /\ c.at \in AtWill => ClientMessage.type = "WILLMSG"
       /\ c.at = "DISCONNECT" => ClientMessage.type = "DISCONNECT")'
  <2> DEFINE Hand == AtWill \cup Making \cup {"DISCONNECT"}
  <2>1. CASE UpdateStatus
    <3>1. c'.at = ClientMessage.type /\ ClientMessage' = ClientMessage
      BY <1>1, <2>1 DEF UpdateStatus, CGoto, TypeThreads, messages, ClientMessage
    <3> QED BY <1>1, <2>1, <3>1, Flow DEF AtWill, Making
  <2>2. CASE HandleWill
    <3>1. /\ c'.at \notin Making \cup {"DISCONNECT"}
          /\ c'.at \in AtWill => c.at \in AtWill
      BY <1>1, <2>2, Flow DEF HandleWill, AtWill, Making
    <3>2. c.at \in AtWill => ClientMessage' = ClientMessage
      <4>1. ~Done
        BY <1>1, <2>2, Flow DEF HandleWill
      <4> QED BY <4>1, ClientFront DEF AtWill, AtClient
    <3> QED BY <3>1, <3>2 DEF InHand
  <2>3. CASE HandleConnect
    <3>1. /\ c'.at # "DISCONNECT"
          /\ c'.at \in AtWill => c.at \in AtWill
          /\ c'.at \in Making => c.at \in Making \cup {"CONNECT"}
      <4>1. CASE ConnectQued
        BY <1>1, <4>1 DEF ConnectQued, AtWill, Making, TypeThreads
      <4> QED BY <1>1, <2>3, <4>1, Flow DEF HandleConnect, AtWill, Making
    <3>2. ClientMessage' = ClientMessage
      BY <2>3
      DEF HandleConnect, SnConnect, SnConnectWill, SnConnectForward, ConnectQued,
          SnConnectPush, messages, ClientMessage
    <3>3. c.at = "CONNECT" => ClientMessage.type = "CONNECT"
      BY DEF IndInv, HandlerFits
    <3> QED BY <3>1, <3>2, <3>3 DEF InHand
  <2>4. CASE c' = c
    <3>1. c.at \in Hand => ClientMessage' = ClientMessage
      <4>1. c.at \in Hand => ~Done
        BY <1>1, Flow DEF AtWill, Making
      <4> QED BY <4>1, ClientFront DEF AtWill, Making, AtClient
    <3> QED BY <2>4, <3>1 DEF InHand
  <2>5. CASE GatewayControlTask /\ ~UpdateStatus /\ ~HandleWill /\ ~HandleConnect /\ c' # c
    <3>1. c'.at \notin Hand
      <4>1. CASE HandleTimeout \/ HandleSearchGw \/ HandleBroker
        <5>1. ~HandleSearchGw
          BY <2>5 DEF HandleSearchGw
        <5> QED BY <1>1, <2>5, <4>1, <5>1, Flow DEF HandleTimeout, HandleBroker, AtWill, Making
      <4>2. CASE PostClient
        BY <1>1, <4>2, PostClientFlow DEF AtWill, Making
      <4>3. CASE HandleClient /\ ~PostClient
        BY <1>1, <2>5, <4>3, Flow DEF HandleClient, AtWill, Making
      <4> QED BY <2>5, <4>1, <4>2, <4>3 DEF GatewayControlTask
    <3> QED BY <3>1
  <2> QED BY <2>1, <2>2, <2>3, <2>4, <2>5, BrokerFrame
<1> QED BY <1>2, <1>3, <1>4 DEF InHand

LEMMA TurnStep ==
    ASSUME IndInv, Prompt, Turn, Next
    PROVE  Turn'
BY OneMessageStep, StillStep, OneRequestStep, InHandStep DEF Turn

-----------------------------------------------------------------------------
(* ConnectValid.  From its reception to the end of the first part of       *)
(* handleSnConnect(), a CONNECT that finds the client asleep, or S with    *)
(* something to send, does not find the connection lost: the client wakes  *)
(* up first, and a timeout that would lose it found it active before.      *)
Asking ==
    \/ r.at = "store" /\ r.msg.type = "CONNECT"
    \/ /\ clientRecv # << >> /\ ClientMessage.type = "CONNECT"
       /\ c.at \notin Posted \cup {"connectQued", "push"}

Lively ==
    /\ status \notin {"Active", "Lost", "TryConnecting"}
    /\ ~(c.at = "timeover" /\ c.seen = "Active")

Unaware == Asking /\ (status = "Asleep" \/ brokerSend # << >>) => Lively

(* So handleSnConnect(), which makes no object for a connection that must  *)
(* not be asked for, will not forward one, either.                         *)
Refused == c.at = "connect" /\ c.obj = Null => ~isConnectSendable

(* Who holds an object not deleted: C, of a CONNECT in its hands, the node *)
(* until C has it back, and never the node and brokerSend.                 *)
NoConnect == \A i \in DOMAIN brokerSend : brokerSend[i].type # "CONNECT"
Owned ==
    /\ \A m \in Connect : m > made => ~heap[m].freed
    /\ c.at \in Making /\ c.obj # Null => ~heap[c.obj].freed
    /\ c.at \in {"connectQued", "push"} => c.obj # Null
    /\ c.at \in WillComes => connMsg # Null
    /\ connMsg # Null => NoConnect

ValidParts == Unaware /\ Refused /\ Owned /\ ConnectValid
ValidInv == WillInv /\ Turn /\ ValidParts

(* A message of the client becomes "asked for" by its reception only. *)
LEMMA AskingBefore ==
    ASSUME IndInv, OneMessage, Next, Asking'
    PROVE  Asking \/ \E m \in Inputs : RecvClient(m)
<1>1. /\ clientRecv \in Seq(ClientMsg) /\ r.msg \in ClientMsg /\ TypeThreads /\ Ready
  BY IsReady DEF IndInv, TypeOK, TypeMessages, TypeThreads
<1>2. CASE RecvStore
  <2>1. clientRecv = << >> /\ clientRecv' = Append(clientRecv, r.msg)
    BY <1>2 DEF RecvStore, OneMessage
  <2>2. r'.at = "post" /\ Head(clientRecv') = r.msg
    BY <1>1, <1>2, <2>1 DEF RecvStore, TypeThreads
  <2> QED BY <1>2, <2>2 DEF Asking, ClientMessage, RecvStore
<1>3. CASE Done
  <2>1. Len(clientRecv) = 1 /\ clientRecv' = Tail(clientRecv) /\ r' = r /\ r.at = "idle"
    BY <1>3, HandlesAlone DEF Done, AtClient
  <2>2. clientRecv' = << >>
    BY <1>1, <2>1
  <2> QED BY <2>1, <2>2 DEF Asking
<1>4. CASE clientRecv' = clientRecv /\ ~Done /\ ~(\E m \in Inputs : RecvClient(m))
  <2>1. r'.at = "store" => r' = r
    BY <1>1, <1>4, ClientFrame DEF RecvForget, RecvStore, RecvPost, TypeThreads
  <2>2. clientRecv # << >> /\ c'.at \notin Posted \cup {"connectQued", "push"}
          /\ ClientMessage.type = "CONNECT" =>
              c.at \notin Posted \cup {"connectQued", "push"}
    <3>1. c.at \in Posted => c'.at \in Posted
      BY <1>4, PostedStays
    <3>2. c.at \in {"connectQued", "push"} => c'.at \in {"connectQued", "push", "post_broker"}
      <4>1. CASE HandleTimeout \/ HandleSearchGw \/ HandleBroker
        BY <1>1, <4>1, Flow DEF HandleTimeout, HandleSearchGw, HandleBroker
      <4>2. CASE ConnectQued
        BY <1>1, <4>2, Flow DEF ConnectQued, TypeThreads
      <4>3. CASE PostClient
        BY <1>1, <4>3, PostClientFlow
      <4>4. CASE HandleClient /\ ~ConnectQued /\ ~PostClient
        BY <1>1, <4>4, Flow DEF HandleClient, HandleConnect, HandleWill
      <4> QED BY <4>1, <4>2, <4>3, <4>4, BrokerFrame DEF GatewayControlTask
    <3> QED BY <3>1, <3>2 DEF Posted
  <2> QED BY <1>4, <2>1, <2>2 DEF Asking, ClientMessage
<1> QED BY <1>2, <1>3, <1>4, ClientFrame

(* Until its CONNECT is posted the client's status changes by what the     *)
(* client itself does, by a lost connection or by a timeout. *)
LEMMA AskingStatus ==
    ASSUME IndInv, ~BrokerFails, Turn, Asking, Next
    PROVE  \/ status' \in {status, "Connecting", "Disconnected"}
           \/ Timeover
<1>1. /\ Begun /\ NoConnack /\ OnlyAcks /\ TypeThreads /\ Ready
      /\ brokerRecv \in Seq(BrokerPacket)
  BY IsReady DEF Turn, Still, Asking, Begun, Posted, IndInv, TypeOK, TypeMessages
<1>2. ASSUME NEW m \in ClientMsg, m.type = "CONNECT", NEW seen,
             Store(seen, Updated(seen, m))
      PROVE  status' \in {status, "Connecting"}
  BY <1>2 DEF Store, SetStatus, Updated
<1>3. CASE RecvForget
  BY <1>3 DEF RecvForget, SetStatus
<1>4. CASE RecvStore
  <2>1. r.msg.type = "CONNECT"
    BY <1>4 DEF RecvStore, Asking, Turn, OneMessage
  <2> QED BY <1>1, <1>2, <1>4, <2>1 DEF RecvStore, TypeThreads
<1>5. CASE UpdateStatus
  <2>1. ClientMessage \in ClientMsg /\ r.at = "idle"
    BY <1>1, <1>5, HandlesAlone DEF UpdateStatus, Ready, AtClient, KnownMsg, Turn
  <2>2. ClientMessage.type = "CONNECT"
    BY <2>1 DEF Asking
  <2> QED BY <1>2, <1>5, <2>1, <2>2 DEF UpdateStatus
<1>6. ~(SnConnectPush \/ SnWillMsgQued \/ SnWillMsgConnack \/ SnWillMsgReject)
  <2>1. ASSUME c.at \in {"push", "will_push", "will_connack", "WILLMSG"} PROVE FALSE
    <3>1. r.at = "idle"
      BY <2>1, HandlesAlone DEF AtClient, Turn
    <3>2. c.at # "push" => ClientMessage.type = "WILLMSG"
      BY <2>1 DEF Turn, InHand, AtWill
    <3> QED BY <2>1, <3>1, <3>2 DEF Asking
  <2> QED BY <2>1 DEF SnConnectPush, SnWillMsgQued, SnWillMsgConnack, SnWillMsgReject
<1>7. ~ConnackForward
  <2>1. c.at = "connack" => brokerRecv # << >> /\ BrokerMessage.type = "CONNACK"
    BY <1>1 DEF Turn, InHand, Ready, AtBroker
  <2>2. brokerRecv # << >> => BrokerMessage.type # "CONNACK"
    BY <1>1 DEF NoConnack, BrokerMessage
  <2> QED BY <2>1, <2>2 DEF ConnackForward
<1>8. ~ConnectSended
  BY <1>1, AckInFront DEF ConnectSended, Turn, InHand
<1>9. ~RecvFails
  BY DEF RecvFails
<1>10. CASE SendDisconnected
  BY <1>10 DEF SendDisconnected, SetStatus
<1> QED BY <1>3, <1>4, <1>5, <1>6, <1>7, <1>8, <1>9, <1>10, NodeFrame

(* What C does to itself: a timeout begins with a load of the status. *)
LEMMA TimeoverBefore ==
    ASSUME IndInv, Next, c'.at = "timeover"
    PROVE  c' = c \/ (c.at = "idle" /\ c'.seen = status /\ status' = status /\ r' = r /\ s' = s)
<1>1. TypeThreads /\ Ready
  BY IsReady DEF IndInv, TypeOK
<1>2. CASE Timeout
  BY <1>1, <1>2 DEF Timeout, TypeThreads, node
<1>3. CASE (HandleTimeout /\ ~Timeout) \/ HandleBroker
  BY <1>1, <1>3, Flow DEF HandleTimeout, HandleBroker
<1>4. CASE HandleSearchGw
  BY <1>4 DEF HandleSearchGw
<1>5. CASE PostClient
  BY <1>1, <1>5, PostClientFlow
<1>6. CASE HandleClient /\ ~PostClient
  BY <1>1, <1>6, Flow DEF HandleClient, HandleConnect, HandleWill
<1> QED BY <1>2, <1>3, <1>4, <1>5, <1>6, BrokerFrame DEF GatewayControlTask

LEMMA UnawareStep ==
    ASSUME IndInv, Prompt, ~BrokerFails, Turn, Unaware, Next
    PROVE  Unaware'
<1> SUFFICES ASSUME Asking', status' = "Asleep" \/ brokerSend' # << >>
             PROVE  Lively'
  BY DEF Unaware
<1>1. CASE \E m \in Inputs : RecvClient(m)
  BY <1>1, HeardSettled DEF Settled, Lively
<1>2. CASE ~(\E m \in Inputs : RecvClient(m))
  <2>1. Asking
    BY <1>2, AskingBefore DEF Turn
  <2>2. Begun'
    BY DEF Asking, Begun
  <2>3. brokerSend' = brokerSend \/ brokerSend # << >> \/ status = "Asleep"
    <3>1. SendDone => brokerSend # << >>
      BY IsReady DEF SendDone, Ready, IndInv
    <3>2. PublishAsleep => status = "Asleep"
      BY DEF PublishAsleep
    <3> QED BY <2>2, <3>1, <3>2, BrokerFrame, RequestsPosted DEF Turn
  <2>4. CASE Timeover
    <3>1. status' = "Lost" /\ c.at = "timeover" /\ c.seen = "Active" /\ brokerSend' = brokerSend
      BY <2>4 DEF Timeover, SetStatus, messages
    <3> QED BY <2>1, <3>1 DEF Unaware, Lively
  <2>5. CASE status' \in {status, "Connecting", "Disconnected"}
    <3>1. Lively
      BY <2>1, <2>3, <2>5 DEF Unaware
    <3>2. ~(c'.at = "timeover" /\ c'.seen = "Active")
      BY <3>1, TimeoverBefore DEF Lively
    <3> QED BY <2>5, <3>1, <3>2 DEF Lively
  <2> QED BY <2>1, <2>4, <2>5, AskingStatus
<1> QED BY <1>1, <1>2

(* C comes to the second part of handleSnConnect() from the first. *)
LEMMA ConnectBefore ==
    ASSUME IndInv, Next, c'.at = "connect"
    PROVE  SnConnect \/ c' = c
<1>1. TypeThreads /\ Ready
  BY IsReady DEF IndInv, TypeOK
<1>2. CASE HandleTimeout \/ HandleBroker
  BY <1>1, <1>2, Flow DEF HandleTimeout, HandleBroker
<1>3. CASE HandleSearchGw
  BY <1>3 DEF HandleSearchGw
<1>4. CASE PostClient
  BY <1>1, <1>4, PostClientFlow
<1>5. CASE HandleClient /\ ~PostClient
  BY <1>1, <1>5, Flow DEF HandleClient, HandleConnect, HandleWill
<1> QED BY <1>2, <1>3, <1>4, <1>5, BrokerFrame DEF GatewayControlTask

LEMMA RefusedStep ==
    ASSUME IndInv, ~BrokerFails, Turn, Unaware, Refused, Next
    PROVE  Refused'
<1> SUFFICES ASSUME c'.at = "connect", c'.obj = Null PROVE ~isConnectSendable'
  BY DEF Refused
<1>1. TypeThreads /\ Ready /\ made \in Nat
  BY IsReady, BoundsNat DEF IndInv, TypeOK, TypeObjects
<1>2. CASE SnConnect
  <2>1. ~isConnectSendable
    <3>1. SUFFICES ASSUME isConnectSendable PROVE c'.obj = made + 1
      BY <1>1 DEF Null
    <3> QED BY <1>1, <1>2, <3>1 DEF SnConnect, TypeThreads
  <2> QED BY <1>2, <2>1 DEF SnConnect, isConnectSendable
<1>3. CASE c' = c
  <2>1. ~isConnectSendable /\ c.at = "connect"
    BY <1>3 DEF Refused
  <2>2. r.at = "idle" /\ clientRecv # << >>
    BY <2>1, HandlesAlone DEF AtClient, Turn
  <2>3. Asking
    BY <2>1, <2>2 DEF Asking, IndInv, HandlerFits, Posted
  <2>4. brokerSend = << >>
    BY <2>1, <2>3 DEF Unaware, Lively, isConnectSendable
  <2>5. s.at = "idle"
    BY <1>1, <2>4 DEF Ready
  <2>6. status' = status
    <3>1. ~(RecvForget \/ RecvStore \/ ConnectSended \/ SendDisconnected \/ RecvFails)
      BY <2>2, <2>5 DEF RecvForget, RecvStore, ConnectSended, SendDisconnected, RecvFails
    <3>2. ~(\/ Timeover \/ UpdateStatus \/ SnConnectPush \/ SnWillMsgQued \/ SnWillMsgReject
            \/ SnWillMsgConnack \/ ConnackForward)
      BY <1>1, <2>1, Flow
    <3> QED BY <3>1, <3>2, NodeFrame
  <2> QED BY <2>1, <2>6 DEF isConnectSendable
<1> QED BY <1>2, <1>3, ConnectBefore

-----------------------------------------------------------------------------
(* Objects are deleted by S when it is done with a CONNECT, when the node  *)
(* has none.                                                               *)
SameFreed == \A m \in Connect : heap'[m].freed = heap[m].freed
Deletes ==
    /\ SendDone /\ SMessage.type = "CONNECT" /\ ~NoConnect /\ ~Begun
    /\ heap' = Freed(SMessage.obj)

LEMMA FreedStep ==
    ASSUME IndInv, Turn, Owned, Next
    PROVE  SameFreed \/ Deletes
<1>1. /\ heap \in [Connect -> [will : BOOLEAN, willMsg : BOOLEAN, freed : BOOLEAN]]
      /\ brokerSend \in Seq(ToBroker) /\ Ready
  BY IsReady DEF IndInv, TypeOK, TypeObjects, TypeMessages
<1>2. CASE SnConnect
  BY <1>1, <1>2 DEF SnConnect, objects, SameFreed
<1>3. CASE SnWillMsg
  BY <1>1, <1>3 DEF SnWillMsg, SameFreed
<1>4. s.at # "idle" /\ SMessage.type = "CONNECT" => ~NoConnect /\ ~Begun
  <2>1. s.at # "idle" => 1 \in DOMAIN brokerSend /\ SMessage = brokerSend[1]
    BY <1>1 DEF Ready, SMessage
  <2> QED BY <2>1 DEF NoConnect, Turn, Still, OnlyAcks
<1>5. CASE ConnectSended
  <2>1. connMsg = Null
    BY <1>4, <1>5 DEF ConnectSended, Turn, InHand, Owned
  <2>2. heap' = Freed(Null) \/ heap' = heap
    BY <1>5, <2>1 DEF ConnectSended
  <2>3. Null \notin Connect
    BY BoundsNat DEF Null, Connect
  <2> QED BY <1>1, <2>2, <2>3 DEF Freed, SameFreed
<1>6. CASE SendDone
  BY <1>4, <1>6 DEF SendDone, Deletes, SameFreed
<1>7. CASE heap' = heap
  BY <1>7 DEF SameFreed
<1> QED BY <1>2, <1>3, <1>5, <1>6, <1>7, NodeFrame

(* What S deletes is one object that was made. *)
LEMMA DeletesOne ==
    ASSUME TypeOK, Queued, Ready, Deletes
    PROVE  /\ SMessage.obj <= made
           /\ \A m \in Connect : m # SMessage.obj => heap'[m].freed = heap[m].freed
<1>1. brokerSend \in Seq(ToBroker) /\ brokerSend # << >>
  BY DEF TypeOK, TypeMessages, Ready, Deletes, SendDone
<1>2. 1 \in DOMAIN brokerSend /\ SMessage = brokerSend[1]
  BY <1>1 DEF SMessage
<1>3. SMessage.obj <= made
  BY <1>2 DEF Queued, Deletes
<1>4. \A m \in Connect : m # SMessage.obj => heap'[m].freed = heap[m].freed
  BY DEF Deletes, Freed, TypeOK, TypeObjects
<1> QED BY <1>3, <1>4

(* C comes to the handlers' later parts from their earlier ones. *)
LEMMA MakingBefore ==
    ASSUME IndInv, Next
    PROVE  /\ c'.at \in Making =>
                 c' = c \/ SnConnect \/ SnConnectForward \/ ConnectQued
           /\ c'.at \in WillComes =>
                 c' = c \/ SnWillMsg \/ SnWillMsgQued \/ ConnectQued
<1>1. TypeThreads /\ Ready
  BY IsReady DEF IndInv, TypeOK
<1>2. CASE HandleTimeout \/ HandleBroker
  BY <1>1, <1>2, Flow DEF HandleTimeout, HandleBroker, Making, WillComes
<1>3. CASE HandleSearchGw
  BY <1>3 DEF HandleSearchGw
<1>4. CASE PostClient
  BY <1>1, <1>4, PostClientFlow DEF Making, WillComes
<1>5. CASE HandleClient /\ ~PostClient
  BY <1>1, <1>5, Flow DEF HandleClient, HandleConnect, HandleWill, Making, WillComes
<1> QED BY <1>2, <1>3, <1>4, <1>5, BrokerFrame DEF GatewayControlTask

(* Of the other requests none is a CONNECT, *)
LEMMA OtherRequests ==
    ASSUME SnPingReq \/ SnDisconnect \/ PublishAsleep
    PROVE  \/ brokerSend' = brokerSend
           \/ \E e : e.type # "CONNECT" /\ brokerSend' = Append(brokerSend, e)
<1>1. SnPingReq => brokerSend' = Append(brokerSend, [type |-> "PINGREQ"])
  BY DEF SnPingReq
<1>2. SnDisconnect => brokerSend' = Append(brokerSend, [type |-> "DISCONNECT"])
  BY DEF SnDisconnect
<1>3. PublishAsleep => \/ brokerSend' = brokerSend
                       \/ brokerSend' = Append(brokerSend, [type |-> "PUBACK"])
  BY DEF PublishAsleep
<1>4. /\ [type |-> "PINGREQ"].type # "CONNECT"
      /\ [type |-> "DISCONNECT"].type # "CONNECT"
      /\ [type |-> "PUBACK"].type # "CONNECT"
  OBVIOUS
<1> QED BY <1>1, <1>2, <1>3, <1>4

(* and only SendDone deletes. *)
LEMMA OneActs ==
    ASSUME IndInv, SendDone
    PROVE  ~SnConnect /\ ~SnConnectForward /\ ~SnWillMsgForward /\ ~ConnectSended
<1>1. brokerSend # << >> /\ brokerSend' = Tail(brokerSend) /\ brokerSend \in Seq(ToBroker)
  BY IsReady DEF SendDone, IndInv, Ready, TypeOK, TypeMessages
<1>2. Len(brokerSend') = Len(brokerSend) - 1 /\ Len(brokerSend) \in Nat
  BY <1>1
<1>3. ~SnConnect /\ ~SnConnectForward /\ ~ConnectSended
  BY <1>2 DEF SnConnect, SnConnectForward, ConnectSended, messages
<1>4. ~SnWillMsgForward
  <2>1. SnWillMsgForward => Len(brokerSend') = Len(brokerSend) + 1
    BY <1>1 DEF SnWillMsgForward
  <2> QED BY <1>2, <2>1
<1> QED BY <1>3, <1>4

LEMMA OwnedStep ==
    ASSUME WillInv, Turn, Refused, Owned, Next
    PROVE  Owned'
<1>1. /\ TypeOK /\ Ready /\ IndInv /\ TypeThreads /\ Queued /\ Fresh
      /\ made \in Nat /\ made \in 0 .. MaxRecv /\ connMsg \in 0 .. made /\ MaxRecv \in Nat
      /\ brokerSend \in Seq(ToBroker)
  BY IsReady, BoundsNat DEF WillInv, WillParts, IndInv, TypeOK, TypeObjects, TypeMessages
<1>2. c.at \in Making \cup WillComes \cup {"CONNECT", "WILLMSG"} => Begun
  <2>1. c.at \in Making \cup WillComes \cup {"CONNECT", "WILLMSG"} =>
            c.at \in AtClient /\ c.at \notin Posted
    BY DEF Making, WillComes, AtClient, Posted
  <2> QED BY <1>1, <2>1, HandlesAlone DEF Turn, Begun
<1>3. Begun => OnlyAcks /\ NoConnect
  BY DEF Turn, Still, OnlyAcks, NoConnect
<1>4. ASSUME SnConnect
      PROVE  /\ UNCHANGED brokerSend /\ Begun /\ c'.at = "connect"
             /\ \/ made' = made + 1 /\ connMsg' = made + 1 /\ c'.obj = made + 1
                \/ UNCHANGED <<made, connMsg>> /\ c'.obj = Null
  BY <1>1, <1>2, <1>4 DEF SnConnect, messages, objects, TypeThreads
<1>5. (\A m \in Connect : m > made => ~heap[m].freed)'
  <2>1. \A m \in Connect : m \in Nat
    BY <1>1 DEF Connect
  <2>2. made' = made \/ made' = made + 1
    BY <1>4, NodeFrame
  <2>3. CASE SameFreed
    BY <1>1, <2>1, <2>2, <2>3 DEF Owned, SameFreed
  <2>4. CASE Deletes
    <3>1. made' = made
      BY <2>4, NodeFrame, <1>4 DEF Deletes
    <3>2. \A m \in Connect : m > made => m # SMessage.obj
      BY <1>1, <2>1, <2>4, DeletesOne
    <3> QED BY <1>1, <2>4, <3>1, <3>2, DeletesOne DEF Owned
  <2> QED BY <1>1, <2>3, <2>4, FreedStep
<1>6. (c.at \in Making /\ c.obj # Null => ~heap[c.obj].freed)'
  <2> SUFFICES ASSUME c'.at \in Making, c'.obj # Null PROVE ~heap'[c'.obj].freed
    OBVIOUS
  <2>1. CASE SnConnect
    <3> DEFINE m == made + 1
    <3>1. c'.obj = m /\ made' = m /\ made' \in 0 .. MaxRecv
      <4>1. TypeOK'
        BY IndInvStep, <1>1 DEF IndInv
      <4> QED BY <1>4, <2>1, <4>1 DEF TypeOK, TypeObjects
    <3>2. m \in Connect /\ m > made
      BY <1>1, <3>1 DEF Connect
    <3>3. SameFreed
      BY <1>1, <1>4, <2>1, FreedStep DEF Deletes
    <3> QED BY <3>1, <3>2, <3>3 DEF Owned, SameFreed
  <2>2. CASE ~SnConnect
    <3>1. c.at \in Making /\ c'.obj = c.obj
      BY <1>1, <2>2, MakingBefore
      DEF SnConnectForward, ConnectQued, CGoto, TypeThreads, Making
    <3>2. SameFreed
      BY <1>1, <1>2, <3>1, FreedStep DEF Deletes
    <3>3. c.obj \in Connect
      BY <1>1, <3>1 DEF Fresh, Connect, Null
    <3> QED BY <3>1, <3>2, <3>3 DEF Owned, SameFreed
  <2> QED BY <2>1, <2>2
<1>7. (c.at \in {"connectQued", "push"} => c.obj # Null)'
  <2> SUFFICES ASSUME c'.at \in {"connectQued", "push"} PROVE c'.obj # Null
    OBVIOUS
  <2>1. CASE SnConnectForward
    BY <1>1, <2>1 DEF SnConnectForward, CGoto, TypeThreads, Refused
  <2>2. CASE ConnectQued
    BY <1>1, <2>2 DEF ConnectQued, TypeThreads, Owned
  <2>3. CASE c' = c
    BY <2>3 DEF Owned
  <2> QED BY <1>1, <1>4, <2>1, <2>2, <2>3, MakingBefore DEF Making
<1>8. (c.at \in WillComes => connMsg # Null)'
  <2> SUFFICES ASSUME c'.at \in WillComes PROVE connMsg' # Null
    OBVIOUS
  <2>1. CASE SnWillMsg
    BY <2>1 DEF SnWillMsg
  <2>2. CASE SnWillMsgQued \/ ConnectQued \/ c' = c
    <3>1. c.at \in WillComes
      BY <1>1, <2>2 DEF SnWillMsgQued, ConnectQued, WillComes, TypeThreads
    <3>2. ~(SnConnect \/ SnConnectForward \/ SnWillMsgForward)
      BY <1>1, <2>2, <3>1, Flow DEF WillComes
    <3>3. ~ConnectSended
      BY <1>1, <1>2, <1>3, <3>1, AckInFront DEF ConnectSended, Turn, InHand
    <3> QED BY <3>1, <3>2, <3>3, NodeFrame DEF Owned
  <2> QED BY <1>1, <2>1, <2>2, MakingBefore
<1>9. (connMsg # Null => NoConnect)'
  <2>1. CASE SnConnect
    BY <1>3, <1>4, <2>1 DEF NoConnect
  <2>2. CASE SnConnectForward \/ SnWillMsgForward
    BY <2>2 DEF SnConnectForward, SnWillMsgForward, messages, Owned, NoConnect
  <2>3. CASE ConnectSended
    BY <2>3 DEF ConnectSended, messages, Owned, NoConnect
  <2>4. CASE connMsg' = connMsg /\ ~SnWillMsgForward
    <3>1. CASE SnConnectPush
      BY <1>1, <2>4, <3>1 DEF SnConnectPush, Fresh
    <3>2. CASE SnPingReq \/ SnDisconnect \/ PublishAsleep
      <4>1. \/ brokerSend' = brokerSend
            \/ \E e : e.type # "CONNECT" /\ brokerSend' = Append(brokerSend, e)
        BY <3>2, OtherRequests
      <4> QED BY <1>1, <2>4, <4>1, AppendTail DEF NoConnect, Owned
    <3>3. CASE SendDone
      <4>1. brokerSend' = Tail(brokerSend) /\ brokerSend # << >>
        BY <1>1, <3>3 DEF SendDone, Ready
      <4> QED BY <1>1, <2>4, <4>1, AppendTail DEF NoConnect, Owned
    <3>4. CASE brokerSend' = brokerSend
      BY <2>4, <3>4 DEF NoConnect, Owned
    <3> QED BY <2>4, <3>1, <3>2, <3>3, <3>4, BrokerFrame
  <2> QED BY <2>1, <2>2, <2>3, <2>4, NodeFrame
<1> QED BY <1>5, <1>6, <1>7, <1>8, <1>9 DEF Owned

LEMMA ValidStep ==
    ASSUME WillInv, Turn, Owned, ConnectValid, Next
    PROVE  ConnectValid'
<1>1. /\ TypeOK /\ Ready /\ IndInv /\ TypeThreads /\ Queued /\ Fresh
      /\ made \in Nat /\ connMsg \in 0 .. made /\ MaxRecv \in Nat
      /\ made \in 0 .. MaxRecv /\ brokerSend \in Seq(ToBroker)
  BY IsReady, BoundsNat DEF WillInv, WillParts, IndInv, TypeOK, TypeObjects, TypeMessages
<1>2. /\ connMsg # Null => connMsg \in Connect
      /\ \A i \in DOMAIN brokerSend : brokerSend[i].type = "CONNECT" =>
            brokerSend[i].obj # Null /\ brokerSend[i].obj \in Connect
            /\ ~heap[brokerSend[i].obj].freed
  BY <1>1 DEF ConnectValid, Connect, Null, ToBroker
<1>3. (connMsg # Null => ~heap[connMsg].freed)'
  <2> SUFFICES ASSUME connMsg' # Null PROVE ~heap'[connMsg'].freed
    OBVIOUS
  <2>1. CASE SnConnect
    <3>1. CASE isConnectSendable
      <4> DEFINE m == made + 1
      <4>1. connMsg' = m /\ made' = m /\ ~SendDone
        BY <1>1, <2>1, <3>1 DEF SnConnect, SendDone
      <4>2. m \in Connect /\ m > made
        <5>1. TypeOK'
          BY IndInvStep, <1>1 DEF IndInv
        <5> QED BY <1>1, <4>1, <5>1 DEF TypeOK, TypeObjects, Connect
      <4>3. SameFreed
        BY <1>1, <2>1, FreedStep, OneActs DEF Deletes
      <4> QED BY <4>1, <4>2, <4>3 DEF Owned, SameFreed
    <3>2. CASE ~isConnectSendable
      BY <2>1, <3>2 DEF SnConnect, objects, ConnectValid
    <3> QED BY <3>1, <3>2
  <2>2. CASE SnConnectForward \/ SnWillMsgForward \/ ConnectSended
    <3>1. connMsg' = connMsg
      BY <2>2 DEF SnConnectForward, SnWillMsgForward, ConnectSended
    <3>2. SameFreed
      BY <1>1, <2>2, FreedStep, OneActs DEF Deletes
    <3> QED BY <1>2, <3>1, <3>2 DEF SameFreed, ConnectValid
  <2>3. CASE connMsg' = connMsg
    <3>1. ~Deletes
      BY <2>3 DEF Deletes, Owned
    <3>2. SameFreed
      BY <1>1, <3>1, FreedStep
    <3> QED BY <1>2, <2>3, <3>2 DEF SameFreed, ConnectValid
  <2> QED BY <2>1, <2>2, <2>3, NodeFrame
<1>4. ASSUME SameFreed,
             \/ brokerSend' = brokerSend
             \/ brokerSend # << >> /\ brokerSend' = Tail(brokerSend)
             \/ \E e : /\ brokerSend' = Append(brokerSend, e)
                       /\ e.type = "CONNECT" => e.obj \in Connect /\ ~heap[e.obj].freed
      PROVE  (\A i \in DOMAIN brokerSend : brokerSend[i].type = "CONNECT" =>
                 brokerSend[i].obj # Null /\ ~heap[brokerSend[i].obj].freed)'
  <2>1. Null \notin Connect
    BY <1>1 DEF Null, Connect
  <2>2. \A i \in DOMAIN brokerSend' :
           brokerSend'[i].type = "CONNECT" =>
               brokerSend'[i].obj \in Connect /\ ~heap[brokerSend'[i].obj].freed
    <3>1. CASE brokerSend' = brokerSend
      BY <1>2, <3>1
    <3>2. CASE brokerSend # << >> /\ brokerSend' = Tail(brokerSend)
      BY <1>1, <1>2, <3>2, AppendTail
    <3>3. ASSUME NEW e, brokerSend' = Append(brokerSend, e),
                 e.type = "CONNECT" => e.obj \in Connect /\ ~heap[e.obj].freed
          PROVE  \A i \in DOMAIN brokerSend' :
                    brokerSend'[i].type = "CONNECT" =>
                       brokerSend'[i].obj \in Connect /\ ~heap[brokerSend'[i].obj].freed
      <4>1. \A i \in DOMAIN brokerSend' :
               \/ i \in DOMAIN brokerSend /\ brokerSend'[i] = brokerSend[i]
               \/ brokerSend'[i] = e
        BY <1>1, <3>3, AppendTail
      <4> QED BY <1>2, <3>3, <4>1
    <3> QED BY <1>4, <3>1, <3>2, <3>3
  <2> QED BY <1>4, <2>1, <2>2 DEF SameFreed
<1>5. (\A i \in DOMAIN brokerSend : brokerSend[i].type = "CONNECT" =>
          brokerSend[i].obj # Null /\ ~heap[brokerSend[i].obj].freed)'
  <2>1. CASE Deletes
    <3>1. brokerSend # << >> /\ brokerSend' = Tail(brokerSend) /\ SMessage.type = "CONNECT"
      BY <1>1, <2>1 DEF Deletes, SendDone, Ready
    <3>2. 1 \in DOMAIN brokerSend /\ brokerSend[1] = SMessage
      BY <1>1, <3>1 DEF SMessage
    <3>3. \A i \in DOMAIN brokerSend' :
             /\ i + 1 \in DOMAIN brokerSend /\ i + 1 # 1
             /\ brokerSend'[i] = brokerSend[i + 1]
      BY <1>1, <3>1
    <3>4. \A i \in DOMAIN brokerSend' : brokerSend'[i].type = "PUBACK"
      BY <3>1, <3>2, <3>3 DEF Turn, OneRequest
    <3> QED BY <3>4
  <2>2. CASE SameFreed
    <3>1. CASE SnConnectPush
      <4> DEFINE e == [type |-> "CONNECT", obj |-> c.obj]
      <4>1. brokerSend' = Append(brokerSend, e) /\ c.at = "push"
        BY <3>1 DEF SnConnectPush
      <4>2. c.obj \in Connect /\ ~heap[c.obj].freed
        BY <1>1, <4>1 DEF Owned, Fresh, Making, Connect, Null
      <4>3. e.type = "CONNECT" => e.obj \in Connect /\ ~heap[e.obj].freed
        BY <4>2
      <4> HIDE DEF e
      <4> QED BY <1>4, <2>2, <4>1, <4>3
    <3>2. CASE SnWillMsgForward
      <4> DEFINE e == [type |-> "CONNECT", obj |-> connMsg]
      <4>1. brokerSend' = Append(brokerSend, e) /\ c.at = "will_forward"
        BY <3>2 DEF SnWillMsgForward
      <4>2. connMsg \in Connect /\ ~heap[connMsg].freed
        BY <1>2, <4>1 DEF Owned, WillComes, ConnectValid
      <4>3. e.type = "CONNECT" => e.obj \in Connect /\ ~heap[e.obj].freed
        BY <4>2
      <4> HIDE DEF e
      <4> QED BY <1>4, <2>2, <4>1, <4>3
    <3>3. CASE SnPingReq \/ SnDisconnect \/ PublishAsleep
      <4>1. \/ brokerSend' = brokerSend
            \/ \E e : e.type # "CONNECT" /\ brokerSend' = Append(brokerSend, e)
        BY <3>3, OtherRequests
      <4> QED BY <1>4, <2>2, <4>1
    <3>4. CASE SendDone
      <4>1. brokerSend' = Tail(brokerSend) /\ brokerSend # << >>
        BY <1>1, <3>4 DEF SendDone, Ready
      <4> QED BY <1>4, <2>2, <4>1
    <3>5. CASE brokerSend' = brokerSend
      BY <1>4, <2>2, <3>5
    <3> QED BY <3>1, <3>2, <3>3, <3>4, <3>5, BrokerFrame
  <2> QED BY <1>1, <2>1, <2>2, FreedStep
<1> QED BY <1>3, <1>5 DEF ConnectValid

-----------------------------------------------------------------------------
(* The invariant holds at the beginning, *)
LEMMA TurnInit == Init => Turn
BY DEF Init, Turn, OneMessage, Still, OnlyAcks, NoConnack, OneRequest, InHand, AtWill, Making, Begun

LEMMA ValidInit == Init => ValidInv
<1> SUFFICES ASSUME Init PROVE ValidInv
  OBVIOUS
<1>1. Unaware /\ Refused /\ Owned /\ ConnectValid
  BY DEF Init, Unaware, Asking, Refused, Owned, ConnectValid, NoConnect, Making, WillComes
<1> QED BY <1>1, WillInit, TurnInit DEF ValidInv, ValidParts

LEMMA TurnKept ==
    ASSUME IndInv, Prompt, Turn, [Next]_vars
    PROVE  Turn'
<1>1. CASE UNCHANGED vars
  <2>1. UNCHANGED <<clientRecv, brokerSend, brokerRecv, fromBroker, r, c, s>>
    BY <1>1 DEF vars, messages, broker
  <2> QED BY <2>1
      DEF Turn, OneMessage, Still, OnlyAcks, NoConnack, OneRequest, InHand, Begun,
          ClientMessage, BrokerMessage, SMessage
<1> QED BY <1>1, TurnStep

(* every step keeps it, *)
LEMMA ValidInvStep ==
    ASSUME Prompt, ~BrokerFails
    PROVE  ValidInv /\ [Next]_vars => ValidInv'
<1> SUFFICES ASSUME ValidInv, [Next]_vars PROVE ValidInv'
  OBVIOUS
<1>1. WillInv /\ IndInv /\ Turn /\ Unaware /\ Refused /\ Owned /\ ConnectValid
  BY DEF ValidInv, WillInv, ValidParts
<1>2. WillInv' /\ Turn'
  BY <1>1, WillStep, TurnKept
<1>3. CASE Next
  <2>1. Unaware' /\ Refused'
    BY <1>1, <1>3, UnawareStep, RefusedStep
  <2>2. Owned' /\ ConnectValid'
    BY <1>1, <1>3, OwnedStep, ValidStep
  <2> QED BY <1>2, <2>1, <2>2 DEF ValidInv, ValidParts
<1>4. CASE UNCHANGED vars
  <2>1. UNCHANGED <<clientRecv, brokerSend, r, c, status, connMsg, heap, made>>
    BY <1>4 DEF vars, messages, node, objects
  <2>2. Unaware' /\ Refused' /\ Owned' /\ ConnectValid'
    BY <1>1, <2>1
    DEF Unaware, Asking, Lively, Refused, Owned, ConnectValid, NoConnect, ClientMessage,
        isConnectSendable
  <2> QED BY <1>2, <2>2 DEF ValidInv, ValidParts
<1> QED BY <1>3, <1>4

(* and S never finds an MQTTConnect missing or deleted: neither a null     *)
(* pointer that handleSnConnect() queued, nor one that connectSended()     *)
(* deleted, as long as the client is patient and connections hold.         *)
THEOREM ConnectValidCorrect ==
    ASSUME Prompt, ~BrokerFails
    PROVE  Spec => []ConnectValid
<1>1. ValidInv => ConnectValid
  BY DEF ValidInv, ValidParts
<1>2. ValidInv /\ [Next]_vars => ValidInv'
  BY ValidInvStep
<1> QED BY <1>1, <1>2, ValidInit, PTL DEF Spec

-----------------------------------------------------------------------------
(* ActiveHasSession.  The premises under which the client of a settled     *)
(* gateway that is Active has its session: the client is patient, a        *)
(* CONNACK is never kept for later (Stable), and only the gateway closes   *)
(* the connection.                                                         *)
Faithful ==
    Prompt /\ Stable /\ ~BrokerFails /\ ~StrictBroker /\ Codes \subseteq {"accepted"}

(* The CONNECT has been sent, and S has only to delete it.  Until then     *)
(* there is no CONNACK, nor is there one when the client disconnects,      *)
(* and then it is no longer Active.                                        *)
Sent == s.at \in {"done", "disconnected"} /\ SMessage.type = "CONNECT"
NotSaid == ~NoConnect /\ ~Sent => NoConnack

NoDisconnect == \A i \in DOMAIN brokerSend : brokerSend[i].type # "DISCONNECT"
Leaving == ~NoDisconnect \/ (clientRecv # << >> /\ ClientMessage.type = "DISCONNECT")
Leaves == Leaving => status # "Active" /\ NoConnack /\ NoConnect

(* A timeout that disconnects found the client Active; nobody makes it     *)
(* Connecting under its hands.                                             *)
Asked == s.at = "connectSended" /\ s.seen = "TryConnecting"
GivesUp ==
    /\ c.at = "disconnect_stack" \/ (c.at = "timeover" /\ c.seen = "Active") =>
          /\ status \notin {"Connecting", "TryConnecting"} /\ ~Asked
          /\ r.at = "store" => r.seen = "Active"
    /\ c.at = "disconnect_stack" => status # "Active"

(* What was loaded is what is still there, unless the connection is gone.  *)
Loaded ==
    /\ status = "Active" => ~Asked
    /\ r.at = "store" => status \in {r.seen, "Lost", "Disconnected"}
    /\ c.at # "will_connack"

(* The client is Active, or will be by a CONNACK under way, only with a    *)
(* session.                                                                *)
Backed ==
    /\ status = "Active" => conn = "session"
    /\ status = "Connecting" /\ ~NoConnack => conn = "session"
    /\ c.at = "connack" /\ c.seen = "Connecting" => conn = "session"

SessionParts == NotSaid /\ Leaves /\ GivesUp /\ Loaded /\ Backed
SessionInv == IndInv /\ Turn /\ SessionParts

(* C handles a CONNACK: so there is one. *)
LEMMA ConnackInHand ==
    ASSUME IndInv, InHand, c.at \in {"CONNACK", "connack"}
    PROVE  ~NoConnack /\ BrokerMessage.type = "CONNACK"
<1>1. brokerRecv # << >> /\ brokerRecv \in Seq(BrokerPacket)
  BY IsReady DEF IndInv, Ready, AtBroker, TypeOK, TypeMessages
<1>2. BrokerMessage.type = "CONNACK"
  BY DEF InHand, IndInv, HandlerFits
<1>3. 1 \in DOMAIN brokerRecv /\ BrokerMessage = brokerRecv[1]
  BY <1>1 DEF BrokerMessage
<1> QED BY <1>2, <1>3 DEF NoConnack

(* S handles a message: so it is in brokerSend. *)
LEMMA RequestInHand ==
    ASSUME IndInv, s.at # "idle"
    PROVE  /\ SMessage.type = "CONNECT" => ~NoConnect
           /\ SMessage.type = "DISCONNECT" => ~NoDisconnect
<1>1. brokerSend # << >> /\ brokerSend \in Seq(ToBroker)
  BY IsReady DEF IndInv, Ready, TypeOK, TypeMessages
<1>2. 1 \in DOMAIN brokerSend /\ SMessage = brokerSend[1]
  BY <1>1 DEF SMessage
<1> QED BY <1>2 DEF NoConnect, NoDisconnect

(* S has one request: if it has sent a CONNECT, that is the only one. *)
LEMMA DoneWithConnect ==
    ASSUME IndInv, OneRequest, SendDone, SMessage.type = "CONNECT"
    PROVE  NoConnect'
<1>1. brokerSend # << >> /\ brokerSend \in Seq(ToBroker) /\ brokerSend' = Tail(brokerSend)
  BY IsReady DEF SendDone, IndInv, Ready, TypeOK, TypeMessages
<1>2. 1 \in DOMAIN brokerSend /\ SMessage = brokerSend[1]
  BY <1>1 DEF SMessage
<1>3. \A i \in DOMAIN brokerSend' :
         i + 1 \in DOMAIN brokerSend /\ i + 1 # 1 /\ brokerSend'[i] = brokerSend[i + 1]
  BY <1>1
<1>4. \A i \in DOMAIN brokerSend' : brokerSend'[i].type = "PUBACK"
  BY <1>2, <1>3 DEF OneRequest
<1> QED BY <1>4 DEF NoConnect

(* Who may make the client Active, and who Connecting. *)
LEMMA BecomesActive ==
    ASSUME IndInv, Next, status' = "Active"
    PROVE  status = "Active" \/ (ConnackForward /\ c.seen = "Connecting") \/ SnWillMsgConnack
<1>1. ASSUME NEW seen, NEW m, Store(seen, Updated(seen, m))
      PROVE  status = "Active"
  BY <1>1 DEF Store, SetStatus, Updated
<1>2. CASE RecvStore \/ UpdateStatus
  BY <1>1, <1>2 DEF RecvStore, UpdateStatus
<1>3. CASE RecvForget \/ Timeover \/ SnWillMsgReject \/ SendDisconnected \/ RecvFails
  BY <1>3
  DEF RecvForget, Timeover, SnWillMsgReject, SendDisconnected, RecvFails, SetStatus
<1>4. CASE SnConnectPush \/ SnWillMsgQued
  BY <1>4 DEF SnConnectPush, SnWillMsgQued, Store, SetStatus
<1>5. CASE ConnectSended
  BY <1>5 DEF ConnectSended
<1>6. CASE ConnackForward
  BY <1>6 DEF ConnackForward, Store, SetStatus, ConnackSended
<1> QED BY <1>2, <1>3, <1>4, <1>5, <1>6, NodeFrame

LEMMA BecomesConnecting ==
    ASSUME IndInv, Next, status' = "Connecting"
    PROVE  \/ status = "Connecting" \/ (RecvStore /\ r.seen \in {"Asleep", "Awake"})
           \/ UpdateStatus \/ (ConnectSended /\ Asked)
<1>1. CASE RecvStore
  BY <1>1 DEF RecvStore, Store, SetStatus, Updated
<1>2. CASE RecvForget \/ Timeover \/ SnWillMsgReject \/ SendDisconnected \/ RecvFails
  BY <1>2
  DEF RecvForget, Timeover, SnWillMsgReject, SendDisconnected, RecvFails, SetStatus
<1>3. CASE SnConnectPush \/ SnWillMsgQued
  BY <1>3 DEF SnConnectPush, SnWillMsgQued, Store, SetStatus
<1>4. CASE ConnectSended
  BY <1>4 DEF ConnectSended, Asked
<1>5. CASE ConnackForward \/ SnWillMsgConnack
  BY <1>5 DEF ConnackForward, SnWillMsgConnack, Store, SetStatus, ConnackSended
<1> QED BY <1>1, <1>2, <1>3, <1>4, <1>5, NodeFrame

LEMMA BecomesTrying ==
    ASSUME IndInv, Next, status' = "TryConnecting"
    PROVE  status = "TryConnecting" \/ SnConnectPush \/ SnWillMsgQued
<1>1. CASE RecvStore \/ UpdateStatus
  BY <1>1 DEF RecvStore, UpdateStatus, Store, SetStatus, Updated
<1>2. CASE RecvForget \/ Timeover \/ SnWillMsgReject \/ SendDisconnected \/ RecvFails
  BY <1>2
  DEF RecvForget, Timeover, SnWillMsgReject, SendDisconnected, RecvFails, SetStatus
<1>3. CASE ConnectSended
  BY <1>3 DEF ConnectSended
<1>4. CASE ConnackForward \/ SnWillMsgConnack
  BY <1>4 DEF ConnackForward, SnWillMsgConnack, Store, SetStatus, ConnackSended
<1> QED BY <1>1, <1>2, <1>3, <1>4, NodeFrame

(* A CONNACK comes from a CONNECT that S sends. *)
LEMMA ConnackComes ==
    ASSUME IndInv, Next, NoConnack, ~NoConnack'
    PROVE  /\ Sent' /\ ~NoConnect /\ s.at = "send" /\ UNCHANGED brokerSend
           /\ \E code \in Codes : Send(code) /\ SMessage.type = "CONNECT"
<1>1. PICK code \in Codes : Send(code) /\ SMessage.type = "CONNECT"
  BY NoConnackStep
<1>2. brokerSend' = brokerSend /\ s.at = "send" /\ s'.at = "done"
  BY <1>1 DEF Send, messages, IndInv, TypeOK, TypeThreads
<1> QED BY <1>1, <1>2, RequestInHand DEF Sent, SMessage

LEMMA NotSaidStep ==
    ASSUME IndInv, Turn, NotSaid, Next
    PROVE  NotSaid'
<1> SUFFICES ASSUME ~NoConnect', ~Sent', ~NoConnack' PROVE FALSE
  BY DEF NotSaid
<1>1. TypeThreads /\ Ready /\ brokerSend \in Seq(ToBroker)
  BY IsReady DEF IndInv, TypeOK, TypeMessages
<1>2. ~NoConnack
  BY ConnackComes
<1>3. CASE ~NoConnect
  <2>1. Sent
    BY <1>2, <1>3 DEF NotSaid
  <2>2. ~SendDone
    BY <2>1, DoneWithConnect DEF Sent, Turn
  <2>3. brokerSend # << >>
    BY <1>1, <2>1 DEF Sent, Ready
  <2>4. brokerSend' = brokerSend \/ \E e : brokerSend' = Append(brokerSend, e)
    BY <2>2, BrokerFrame
    DEF SnConnectPush, SnWillMsgForward, SnPingReq, SnDisconnect, PublishAsleep
  <2>5. SMessage' = SMessage
    BY <1>1, <2>3, <2>4, FrontStays DEF SMessage
  <2>6. s'.at \in {"done", "disconnected"}
    <3>1. CASE SendDisconnected
      BY <1>1, <2>1, <3>1 DEF SendDisconnected, Sent, TypeThreads
    <3>2. CASE s' = s
      BY <2>1, <3>2 DEF Sent
    <3>3. ~(\/ TakeBrokerSend \/ ConnectSended \/ (\E code \in Codes : Send(code))
            \/ SendFails \/ SendClose)
      BY <2>1 DEF Sent, TakeBrokerSend, ConnectSended, Send, SendFails, SendClose
    <3> QED BY <2>2, <3>1, <3>2, <3>3, BrokerFrame DEF BrokerSendTask
  <2> QED BY <2>1, <2>5, <2>6 DEF Sent
<1>4. CASE NoConnect
  <2>1. CASE SnConnectPush \/ SnWillMsgForward
    BY <1>2, <2>1, RequestsPosted DEF Turn, Still
  <2>2. CASE SnPingReq \/ SnDisconnect \/ PublishAsleep
    <3>1. \/ brokerSend' = brokerSend
          \/ \E e : e.type # "CONNECT" /\ brokerSend' = Append(brokerSend, e)
      BY <2>2, OtherRequests
    <3> QED BY <1>1, <1>4, <3>1, AppendTail DEF NoConnect
  <2>3. CASE SendDone
    <3>1. brokerSend' = Tail(brokerSend) /\ brokerSend # << >>
      BY <1>1, <2>3 DEF SendDone, Ready
    <3> QED BY <1>1, <1>4, <3>1, AppendTail DEF NoConnect
  <2>4. CASE brokerSend' = brokerSend
    BY <1>4, <2>4 DEF NoConnect
  <2> QED BY <2>1, <2>2, <2>3, <2>4, BrokerFrame
<1> QED BY <1>3, <1>4

(* The client becomes Active when C has the CONNACK. *)
LEMMA ActiveByConnack ==
    ASSUME IndInv, Turn, Loaded, Next, status # "Active", status' = "Active"
    PROVE  ConnackForward /\ c.seen = "Connecting" /\ ~NoConnack /\ ~Begun
<1>1. ~SnWillMsgConnack
  BY DEF SnWillMsgConnack, Loaded
<1>2. ConnackForward /\ c.seen = "Connecting"
  BY <1>1, BecomesActive
<1>3. ~NoConnack
  BY <1>2, ConnackInHand DEF ConnackForward, Turn
<1> QED BY <1>2, <1>3 DEF Turn, Still

(* What the client disconnects by: R stores it, and C forwards it. *)
LEMMA LeavingBefore ==
    ASSUME IndInv, Turn, Next, Leaving'
    PROVE  \/ Leaving
           \/ RecvStore /\ r.msg.type = "DISCONNECT" /\ UNCHANGED brokerSend
<1>1. /\ TypeThreads /\ Ready /\ brokerSend \in Seq(ToBroker)
      /\ clientRecv \in Seq(ClientMsg) /\ r.msg \in ClientMsg
  BY IsReady DEF IndInv, TypeOK, TypeMessages, TypeThreads
<1>2. CASE ~NoDisconnect'
  <2>1. CASE SnDisconnect
    BY <1>1, <2>1 DEF SnDisconnect, Turn, InHand, Ready, AtClient, Leaving
  <2>2. CASE SnPingReq \/ SnConnectPush \/ SnWillMsgForward \/ PublishAsleep
    <3>1. \/ brokerSend' = brokerSend
          \/ \E e : e.type # "DISCONNECT" /\ brokerSend' = Append(brokerSend, e)
      <4>1. SnPingReq => brokerSend' = Append(brokerSend, [type |-> "PINGREQ"])
        BY DEF SnPingReq
      <4>2. SnConnectPush =>
                brokerSend' = Append(brokerSend, [type |-> "CONNECT", obj |-> c.obj])
        BY DEF SnConnectPush
      <4>3. SnWillMsgForward =>
                brokerSend' = Append(brokerSend, [type |-> "CONNECT", obj |-> connMsg])
        BY DEF SnWillMsgForward
      <4>4. PublishAsleep => \/ brokerSend' = brokerSend
                             \/ brokerSend' = Append(brokerSend, [type |-> "PUBACK"])
        BY DEF PublishAsleep
      <4>5. /\ [type |-> "PINGREQ"].type # "DISCONNECT"
            /\ [type |-> "PUBACK"].type # "DISCONNECT"
            /\ [type |-> "CONNECT", obj |-> c.obj].type # "DISCONNECT"
            /\ [type |-> "CONNECT", obj |-> connMsg].type # "DISCONNECT"
        OBVIOUS
      <4> QED BY <2>2, <4>1, <4>2, <4>3, <4>4, <4>5
    <3> QED BY <1>1, <1>2, <3>1, AppendTail DEF NoDisconnect, Leaving
  <2>3. CASE SendDone
    <3>1. brokerSend' = Tail(brokerSend) /\ brokerSend # << >>
      BY <1>1, <2>3 DEF SendDone, Ready
    <3> QED BY <1>1, <1>2, <3>1, AppendTail DEF NoDisconnect, Leaving
  <2>4. CASE brokerSend' = brokerSend
    BY <1>2, <2>4 DEF NoDisconnect, Leaving
  <2> QED BY <2>1, <2>2, <2>3, <2>4, BrokerFrame
<1>3. CASE NoDisconnect'
  <2>1. clientRecv' # << >> /\ ClientMessage'.type = "DISCONNECT"
    BY <1>3 DEF Leaving
  <2>2. CASE RecvStore
    <3>1. clientRecv = << >> /\ clientRecv' = Append(clientRecv, r.msg)
          /\ UNCHANGED brokerSend
      BY <2>2 DEF RecvStore, Turn, OneMessage
    <3>2. Head(clientRecv') = r.msg
      BY <1>1, <3>1
    <3> QED BY <2>1, <2>2, <3>1, <3>2 DEF ClientMessage
  <2>3. CASE Done
    <3>1. Len(clientRecv) = 1 /\ clientRecv' = Tail(clientRecv)
      BY <2>3, HandlesAlone DEF Done, AtClient, Turn
    <3> QED BY <1>1, <2>1, <3>1
  <2>4. CASE clientRecv' = clientRecv
    BY <2>1, <2>4 DEF ClientMessage, Leaving
  <2> QED BY <2>2, <2>3, <2>4, ClientFrame
<1> QED BY <1>2, <1>3

LEMMA LeavesStep ==
    ASSUME IndInv, Turn, NotSaid, Leaves, Loaded, Next
    PROVE  Leaves'
<1> SUFFICES ASSUME Leaving' PROVE status' # "Active" /\ NoConnack' /\ NoConnect'
  BY DEF Leaves
<1>1. /\ TypeThreads /\ Ready /\ brokerSend \in Seq(ToBroker)
  BY IsReady DEF IndInv, TypeOK, TypeMessages, TypeThreads
<1>2. CASE Leaving
  <2>1. status # "Active" /\ NoConnack /\ NoConnect
    BY <1>2 DEF Leaves
  <2>2. status' # "Active"
    BY <2>1, ActiveByConnack
  <2>3. NoConnack'
    BY <2>1, ConnackComes
  <2>4. NoConnect'
    <3>1. CASE SnConnectPush \/ SnWillMsgForward
      <4>1. Begun /\ clientRecv # << >> /\ ClientMessage.type \in {"CONNECT", "WILLMSG"}
        BY <1>1, <3>1, RequestsPosted
        DEF SnConnectPush, SnWillMsgForward, Turn, InHand, Making, AtWill, Ready, AtClient
      <4>2. NoDisconnect
        BY <4>1 DEF Turn, Still, OnlyAcks, NoDisconnect
      <4> QED BY <1>2, <4>1, <4>2 DEF Leaving
    <3>2. CASE SnPingReq \/ SnDisconnect \/ PublishAsleep
      <4>1. \/ brokerSend' = brokerSend
            \/ \E e : e.type # "CONNECT" /\ brokerSend' = Append(brokerSend, e)
        BY <3>2, OtherRequests
      <4> QED BY <1>1, <2>1, <4>1, AppendTail DEF NoConnect
    <3>3. CASE SendDone
      <4>1. brokerSend' = Tail(brokerSend) /\ brokerSend # << >>
        BY <1>1, <3>3 DEF SendDone, Ready
      <4> QED BY <1>1, <2>1, <4>1, AppendTail DEF NoConnect
    <3>4. CASE brokerSend' = brokerSend
      BY <2>1, <3>4 DEF NoConnect
    <3> QED BY <3>1, <3>2, <3>3, <3>4, BrokerFrame
  <2> QED BY <2>2, <2>3, <2>4
<1>3. CASE RecvStore /\ r.msg.type = "DISCONNECT" /\ UNCHANGED brokerSend
  <2>1. Begun /\ r.at = "store"
    BY <1>3 DEF RecvStore, Begun
  <2>2. OnlyAcks /\ NoConnack
    BY <2>1 DEF Turn, Still
  <2>3. status' # "Active"
    <3>1. status = "Active" => r.seen = "Active"
      BY <2>1 DEF Loaded
    <3>2. CASE r.seen = "Active"
      <4>1. r.msg.sleep \in BOOLEAN
        BY <1>1, <1>3 DEF TypeThreads, ClientMsg
      <4>2. Updated(r.seen, r.msg) \in {"Asleep", "Disconnected"}
        BY <1>3, <3>2, <4>1 DEF Updated
      <4> QED BY <1>3, <3>2, <4>2 DEF RecvStore, Store, SetStatus
    <3>3. CASE r.seen # "Active"
      BY <2>2, <3>1, <3>3, ActiveByConnack
    <3> QED BY <3>2, <3>3
  <2>4. NoConnack'
    BY <1>3, <2>2, ConnackComes DEF NoConnect, OnlyAcks
  <2>5. NoConnect'
    BY <1>3, <2>2 DEF NoConnect, OnlyAcks
  <2> QED BY <2>3, <2>4, <2>5
<1> QED BY <1>2, <1>3, LeavingBefore

(* S begins to ask for a connection where the client is TryConnecting. *)
LEMMA AskedBefore ==
    ASSUME IndInv, Next, Asked'
    PROVE  Asked \/ (TakeBrokerSend /\ status = "TryConnecting" /\ UNCHANGED <<status, c, r>>)
<1>1. TypeThreads
  BY DEF IndInv, TypeOK
<1>2. CASE TakeBrokerSend
  BY <1>2 DEF TakeBrokerSend, Asked, node
<1>3. CASE BrokerSendTask /\ ~TakeBrokerSend
  BY <1>1, <1>3
  DEF BrokerSendTask, ConnectSended, Send, SendFails, SendDisconnected, SendClose, SendDone,
      Asked, TypeThreads
<1> QED BY <1>2, <1>3, BrokerFrame DEF Asked

(* What R loaded changes under it only when the connection is lost. *)
LEMMA StoreKeepsStatus ==
    ASSUME IndInv, Turn, ~BrokerFails, Next, r.at = "store", r' = r
    PROVE  status' \in {status, "Lost", "Disconnected"}
<1>1. TypeThreads /\ Ready
  BY IsReady DEF IndInv, TypeOK
<1>2. c.at \notin AtClient
  BY HandlesAlone DEF Turn
<1>3. OnlyAcks /\ NoConnack
  BY DEF Turn, Still, Begun
<1>4. ~ConnackForward
  BY <1>3, ConnackInHand DEF ConnackForward, Turn
<1>5. ~ConnectSended
  BY <1>3, AckInFront DEF ConnectSended, Turn, InHand
<1>6. ~(UpdateStatus \/ SnConnectPush \/ SnWillMsgQued \/ SnWillMsgReject \/ SnWillMsgConnack)
  BY <1>1, <1>2, Flow DEF AtClient
<1>7. ~RecvForget /\ ~RecvStore
  BY <1>1 DEF RecvForget, RecvStore, TypeThreads
<1>8. CASE Timeover \/ SendDisconnected \/ RecvFails
  BY <1>8 DEF Timeover, SendDisconnected, RecvFails, SetStatus
<1> QED BY <1>4, <1>5, <1>6, <1>7, <1>8, NodeFrame

LEMMA LoadedStep ==
    ASSUME IndInv, Prompt, Stable, ~BrokerFails, Turn, NotSaid, Loaded, Next
    PROVE  Loaded'
<1>1. TypeThreads /\ Ready
  BY IsReady DEF IndInv, TypeOK
<1>2. ASSUME status' = "Active", Asked' PROVE FALSE
  <2>1. Asked /\ status # "Active"
    BY <1>2, AskedBefore DEF Loaded
  <2>2. SMessage.type = "CONNECT" /\ s.at = "connectSended"
    BY <2>1 DEF Asked, Turn, InHand
  <2>3. ~NoConnect /\ ~Sent
    BY <2>2, RequestInHand DEF Sent
  <2> QED BY <1>2, <2>1, <2>3, ActiveByConnack DEF NotSaid
<1>3. ASSUME r'.at = "store" PROVE status' \in {r'.seen, "Lost", "Disconnected"}
  <2>1. ASSUME NEW m \in Inputs, RecvClient(m)
        PROVE  status' = r'.seen
    BY <2>1, HeardSettled
  <2>2. CASE r' = r
    BY <1>3, <2>2, StoreKeepsStatus DEF Loaded
  <2>3. ~(RecvForget \/ RecvStore \/ RecvPost)
    BY <1>1, <1>3 DEF RecvForget, RecvStore, RecvPost, TypeThreads
  <2> QED BY <2>1, <2>2, <2>3, ClientFrame
<1>4. c'.at # "will_connack"
  <2>1. CASE HandleTimeout \/ HandleBroker
    BY <1>1, <2>1, Flow DEF HandleTimeout, HandleBroker
  <2>2. CASE HandleSearchGw \/ c' = c
    BY <2>2 DEF HandleSearchGw, Loaded
  <2>3. CASE PostClient
    BY <1>1, <2>3, PostClientFlow
  <2>4. CASE HandleClient /\ ~PostClient
    <3>1. ~SnWillMsgSaved /\ ~SnWillMsgWait
      BY DEF SnWillMsgSaved, SnWillMsgWait
    <3> QED BY <1>1, <2>4, <3>1, Flow DEF HandleClient, HandleConnect, HandleWill
  <2> QED BY <2>1, <2>2, <2>3, <2>4, BrokerFrame DEF GatewayControlTask
<1> QED BY <1>2, <1>3, <1>4 DEF Loaded

(* C gives a client up after it has loaded its status. *)
LEMMA GivesUpBefore ==
    ASSUME IndInv, Next, c'.at = "disconnect_stack"
    PROVE  c' = c \/ Timeover
<1>1. TypeThreads /\ Ready
  BY IsReady DEF IndInv, TypeOK
<1>2. CASE (HandleTimeout /\ ~Timeover) \/ HandleBroker
  BY <1>1, <1>2, Flow DEF HandleTimeout, HandleBroker
<1>3. CASE HandleSearchGw
  BY <1>3 DEF HandleSearchGw
<1>4. CASE PostClient
  BY <1>1, <1>4, PostClientFlow
<1>5. CASE HandleClient /\ ~PostClient
  BY <1>1, <1>5, Flow DEF HandleClient, HandleConnect, HandleWill
<1> QED BY <1>2, <1>3, <1>4, <1>5, BrokerFrame DEF GatewayControlTask

LEMMA GivesUpStep ==
    ASSUME IndInv, Prompt, ~BrokerFails, Turn, Loaded, GivesUp, Next
    PROVE  GivesUp'
<1> DEFINE P == c.at = "disconnect_stack" \/ (c.at = "timeover" /\ c.seen = "Active")
           Q == /\ status \notin {"Connecting", "TryConnecting"} /\ ~Asked
                /\ r.at = "store" => r.seen = "Active"
<1>1. P' => (c' = c /\ P) \/ Timeover
            \/ (c'.at = "timeover" /\ status = "Active" /\ UNCHANGED <<status, r, s>>)
  BY TimeoverBefore, GivesUpBefore
<1>2. CASE c' = c /\ P
  <2>1. Q /\ (c.at = "disconnect_stack" => status # "Active")
    BY <1>2 DEF GivesUp
  <2>2. status' # "Connecting"
    BY <1>2, <2>1, BecomesConnecting DEF RecvStore, UpdateStatus
  <2>3. status' # "TryConnecting"
    BY <1>2, <2>1, BecomesTrying DEF SnConnectPush, SnWillMsgQued
  <2>4. ~Asked'
    BY <2>1, AskedBefore
  <2>5. r'.at = "store" => r'.seen = "Active"
    <3>1. \A m \in Inputs : ~RecvClient(m)
      BY <1>2, HeardSettled DEF Settled
    <3>2. RecvForget \/ RecvStore \/ RecvPost => r'.at # "store"
      BY DEF RecvForget, RecvStore, RecvPost, IndInv, TypeOK, TypeThreads
    <3> QED BY <2>1, <3>1, <3>2, ClientFrame
  <2>6. c.at = "disconnect_stack" => status' # "Active"
    BY <2>1, ActiveByConnack DEF ConnackForward
  <2> QED BY <1>2, <2>2, <2>3, <2>4, <2>5, <2>6 DEF GivesUp
<1>3. CASE Timeover
  <2>1. Q
    BY <1>3 DEF GivesUp, Timeover
  <2>2. status' = "Lost" /\ UNCHANGED <<r, s>>
    BY <1>3 DEF Timeover, SetStatus
  <2> QED BY <2>1, <2>2 DEF GivesUp, Asked
<1>4. CASE c'.at = "timeover" /\ status = "Active" /\ UNCHANGED <<status, r, s>>
  BY <1>4 DEF GivesUp, Loaded, Asked
<1>5. CASE ~P'
  BY <1>5 DEF GivesUp
<1> QED BY <1>1, <1>2, <1>3, <1>4, <1>5

(* A session ends where the gateway closes the connection. *)
LEMMA SessionStays ==
    ASSUME IndInv, Faithful, Next, conn = "session"
    PROVE  conn' = "session" \/ SendClose \/ TimeoverDisconnect
<1>1. ASSUME NEW code \in Codes, Send(code) PROVE conn' = "session"
  BY <1>1 DEF Send, BrokerGets, Faithful, broker
<1>2. ~SendFails /\ ~BrokerCut
  BY DEF SendFails, BrokerCut, Faithful
<1> QED BY <1>1, <1>2, BrokerFrame

(* S closes it for a client that leaves. *)
LEMMA ClosesLeaving ==
    ASSUME IndInv, Turn, SendClose
    PROVE  Leaving
BY RequestInHand DEF SendClose, Turn, InHand, Leaving

(* A CONNACK that was not there comes with a session. *)
LEMMA ConnackGrants ==
    ASSUME IndInv, Faithful, Next, NoConnack, ~NoConnack'
    PROVE  conn' = "session"
<1>1. PICK code \in Codes : Send(code) /\ SMessage.type = "CONNECT"
  BY ConnackComes
<1>2. brokerRecv' = brokerRecv
  BY <1>1 DEF Send, messages
<1>3. fromBroker' # fromBroker
  BY <1>2 DEF NoConnack
<1>4. code = "accepted"
  BY DEF Faithful
<1> QED BY <1>1, <1>3, <1>4 DEF Send, BrokerGets

(* C begins to deliver a CONNACK. *)
LEMMA ConnackBefore ==
    ASSUME IndInv, Next, c'.at = "connack"
    PROVE  c' = c \/ (Connack /\ c'.seen = status /\ conn' = conn)
<1>1. TypeThreads /\ Ready
  BY IsReady DEF IndInv, TypeOK
<1>2. CASE Connack
  <2>1. c' = [c EXCEPT !.at = "connack", !.code = BrokerMessage.code, !.seen = status]
    <3>1. ~CGoto("flush")
      BY <1>1 DEF CGoto, TypeThreads
    <3> QED BY <1>2, <3>1 DEF Connack
  <2> QED BY <1>1, <1>2, <2>1 DEF Connack, TypeThreads, broker
<1>3. CASE HandleTimeout \/ (HandleBroker /\ ~Connack)
  BY <1>1, <1>3, Flow DEF HandleTimeout, HandleBroker
<1>4. CASE HandleSearchGw
  BY <1>4 DEF HandleSearchGw
<1>5. CASE PostClient
  BY <1>1, <1>5, PostClientFlow
<1>6. CASE HandleClient /\ ~PostClient
  BY <1>1, <1>6, Flow DEF HandleClient, HandleConnect, HandleWill
<1> QED BY <1>2, <1>3, <1>4, <1>5, <1>6, BrokerFrame DEF GatewayControlTask

LEMMA BackedStep ==
    ASSUME IndInv, Faithful, Turn, SessionParts, Next
    PROVE  Backed'
<1>1. NotSaid /\ Leaves /\ GivesUp /\ Loaded /\ Backed /\ TypeThreads /\ Ready
  BY IsReady DEF SessionParts, IndInv, TypeOK
<1>2. ASSUME status' = "Active" PROVE conn' = "session"
  <2>1. CASE status = "Active"
    <3>1. ~SendClose /\ ~TimeoverDisconnect
      BY <1>1, <2>1, ClosesLeaving DEF Leaves, GivesUp, TimeoverDisconnect
    <3> QED BY <1>1, <2>1, <3>1, SessionStays DEF Backed
  <2>2. CASE status # "Active"
    <3>1. ConnackForward /\ c.seen = "Connecting"
      BY <1>1, <1>2, <2>2, ActiveByConnack
    <3> QED BY <1>1, <3>1 DEF ConnackForward, Backed, broker
  <2> QED BY <2>1, <2>2
<1>3. ASSUME status' = "Connecting", ~NoConnack' PROVE conn' = "session"
  <2>1. CASE NoConnack
    BY <1>3, <2>1, ConnackGrants
  <2>2. CASE ~NoConnack /\ status = "Connecting"
    <3>1. ~SendClose /\ ~TimeoverDisconnect
      BY <1>1, <2>2, ClosesLeaving DEF Leaves, GivesUp, TimeoverDisconnect
    <3> QED BY <1>1, <2>2, <3>1, SessionStays DEF Backed
  <2>3. CASE ~NoConnack /\ status # "Connecting"
    <3>1. ~Begun
      BY <2>3 DEF Turn, Still
    <3>2. ~RecvStore
      BY <3>1 DEF RecvStore, Begun
    <3>3. ~UpdateStatus
      BY <1>1, <3>1 DEF UpdateStatus, Begun, Posted, Ready, AtClient
    <3>4. ~Asked
      BY <1>1, <2>3, RequestInHand DEF Asked, NotSaid, Sent, Turn, InHand
    <3> QED BY <1>3, <2>3, <3>2, <3>3, <3>4, BecomesConnecting
  <2> QED BY <2>1, <2>2, <2>3
<1>4. ASSUME c'.at = "connack", c'.seen = "Connecting" PROVE conn' = "session"
  <2>1. CASE c' = c
    <3>1. ~NoConnack /\ conn = "session"
      BY <1>1, <1>4, <2>1, ConnackInHand DEF Backed, Turn
    <3>2. ~SendClose /\ ~TimeoverDisconnect
      BY <1>1, <1>4, <2>1, <3>1, ClosesLeaving DEF Leaves, TimeoverDisconnect
    <3> QED BY <3>1, <3>2, SessionStays
  <2>2. CASE Connack /\ c'.seen = status /\ conn' = conn
    <3>1. ~NoConnack
      BY <2>2, ConnackInHand DEF Connack, Turn
    <3> QED BY <1>1, <1>4, <2>2, <3>1 DEF Backed
  <2> QED BY <1>4, <2>1, <2>2, ConnackBefore
<1> QED BY <1>2, <1>3, <1>4 DEF Backed

-----------------------------------------------------------------------------
(* The invariant holds at the beginning, *)
LEMMA SessionInit == Init => SessionInv
<1> SUFFICES ASSUME Init PROVE SessionInv
  OBVIOUS
<1>1. SessionParts
  BY DEF Init, SessionParts, NotSaid, Sent, NoConnect, NoDisconnect, Leaving, Leaves, Asked,
         GivesUp, Loaded, Backed
<1> QED BY <1>1, IndInvInit, TurnInit DEF SessionInv

(* every step keeps it, *)
LEMMA SessionInvStep ==
    ASSUME Faithful
    PROVE  SessionInv /\ [Next]_vars => SessionInv'
<1> SUFFICES ASSUME SessionInv, [Next]_vars PROVE SessionInv'
  OBVIOUS
<1>1. IndInv /\ Turn /\ SessionParts
  BY DEF SessionInv
<1>2. IndInv' /\ Turn'
  BY <1>1, IndInvStep, TurnKept DEF Faithful
<1>3. CASE Next
  <2>1. NotSaid /\ Leaves /\ GivesUp /\ Loaded
    BY <1>1 DEF SessionParts
  <2>2. NotSaid' /\ Leaves' /\ GivesUp' /\ Loaded'
    BY <1>1, <1>3, <2>1, NotSaidStep, LeavesStep, GivesUpStep, LoadedStep DEF Faithful
  <2>3. Backed'
    BY <1>1, <1>3, BackedStep
  <2> QED BY <1>2, <2>2, <2>3 DEF SessionInv, SessionParts
<1>4. CASE UNCHANGED vars
  <2>1. UNCHANGED <<clientRecv, brokerSend, brokerRecv, fromBroker, conn, r, c, s, status>>
    BY <1>4 DEF vars, messages, node, broker
  <2>2. SessionParts'
    BY <1>1, <2>1
    DEF SessionParts, NotSaid, Sent, NoConnect, NoConnack, NoDisconnect, Leaving, Leaves,
        Asked, GivesUp, Loaded, Backed, SMessage, ClientMessage
  <2> QED BY <1>2, <2>2 DEF SessionInv
<1> QED BY <1>3, <1>4

(* and a client that is Active has its session at the broker once the      *)
(* gateway has settled: neither a timeout nor a DISCONNECT closes the      *)
(* connection of a client that another thread has made Active, and no      *)
(* CONNACK of an earlier connection makes it so.                           *)
THEOREM ActiveHasSessionCorrect ==
    ASSUME Faithful
    PROVE  Spec => []ActiveHasSession
<1>1. SessionInv => ActiveHasSession
  BY DEF SessionInv, SessionParts, Backed, ActiveHasSession
<1>2. SessionInv /\ [Next]_vars => SessionInv'
  BY SessionInvStep
<1> QED BY <1>1, <1>2, SessionInit, PTL DEF Spec
=============================================================================
