--------------------------- MODULE GatewayConnect ---------------------------
(***************************************************************************)
(* One ClientNode of the gateway and the five threads that share it:       *)
(*   R   ClientRecvTask      receives from the sensor network;             *)
(*   C   GatewayControlTask  handles the events of gatewayEventQue;        *)
(*   S   BrokerSendTask      serialises and sends to the broker;           *)
(*   B   BrokerRecvTask      receives from the broker;                     *)
(*   CS  ClientSendTask      sends to the sensor network.                  *)
(* The nodes of different clients share nothing but the event queues.      *)
(*                                                                         *)
(* No field of a ClientNode is locked.  A method that tests _status and    *)
(* then assigns it is two steps, a load and a store, and the calls of a    *)
(* handler are steps of their own, so that other threads may run between.  *)
(* The event queues are the FIFO queues that EventQue implements, and      *)
(* TCPStack::disconnect() returns with the connection closed.              *)
(***************************************************************************)
EXTENDS Naturals, Sequences, FiniteSets

CONSTANTS
    Stable,         \* !_secure && _stableNetwork of GatewayControlTask
    Prompt,         \* the client sends only to a gateway that has settled
    BrokerFails,    \* connections to the broker may fail or be cut
    StrictBroker,   \* the broker cuts a connection on a second CONNECT
    Inputs,         \* the messages that the client may send
    Codes,          \* the return codes of the broker's CONNACKs
    MaxRecv,        \* bound: messages received from the client
    MaxPublish,     \* bound: messages published by the broker
    MaxQueue        \* bound: length of clientSendQue in the flush loop

(* What the client sends.  PINGREQ stands for the messages that C passes   *)
(* on without looking at the state of the connection.                      *)
ClientMsg ==
    [type : {"CONNECT"}, will : BOOLEAN]
        \cup [type : {"DISCONNECT"}, sleep : BOOLEAN]
        \cup [type : {"PINGREQ", "WILLTOPIC", "WILLMSG", "SEARCHGW"}]

ASSUME FlagsBoolean == {Stable, Prompt, BrokerFails, StrictBroker} \subseteq BOOLEAN
ASSUME BoundsNat == {MaxRecv, MaxPublish, MaxQueue} \subseteq Nat
ASSUME InputsAreMessages == Inputs \subseteq ClientMsg
ASSUME CodesAreCodes == Codes \subseteq {"accepted", "rejected"}

Status == {"Disconnected", "TryConnecting", "Connecting", "Active",
           "Asleep", "Awake", "Lost"}

Code == {"accepted", "rejected"}    \* return codes of a CONNACK

Null == 0                           \* the null MQTTConnect*
Connect == 1..MaxRecv               \* the MQTTConnect objects

VARIABLES
    known,      \* the client has a ClientNode
    status,     \* _status
    connMsg,    \* _mqttConnect
    saveFlg,    \* _connAckSaveFlg
    waitFlg,    \* _waitWillMsgFlg
    connAck,    \* _connAck: "none" or the return code it carries
    heap,       \* heap[m]: the MQTTConnect object m
    made,       \* how many MQTTConnect objects have been allocated
    clientRecv, clientSend, brokerSend, brokerRecv, sleepQue, \* MessageQues
    gwQue, bsQue, csQue,    \* gatewayEventQue, brokerSendQue, clientSendQue
    r, c, s,    \* where R, C and S are, and their local variables
    conn,       \* the connection to the broker, as the broker knows it
    fromBroker, \* packets sent by the broker that B has not received
    received, published,    \* counters of the environment, bounded
    granted,    \* history: CONNECTs the broker has accepted
    told,       \* history: CONNACKs "accepted" unicast to the client
    answered    \* history: a CONNACK was unicast since the last CONNECT

flags == <<saveFlg, waitFlg, connAck>>
objects == <<connMsg, heap, made>>
node == <<known, status, flags, objects>>
messages == <<clientRecv, clientSend, brokerSend, brokerRecv, sleepQue>>
events == <<gwQue, bsQue, csQue>>
broker == <<conn, fromBroker, published, granted>>
history == <<received, told, answered>>
vars == <<node, messages, events, r, c, s, broker, history>>

Init ==
    /\ known = FALSE /\ status = "Disconnected"
    /\ saveFlg = FALSE /\ waitFlg = FALSE /\ connAck = "none"
    /\ connMsg = Null /\ made = 0
    /\ heap = [m \in Connect |-> [will |-> FALSE, willMsg |-> FALSE, freed |-> FALSE]]
    /\ clientRecv = << >> /\ clientSend = << >> /\ brokerSend = << >>
    /\ brokerRecv = << >> /\ sleepQue = << >>
    /\ gwQue = << >> /\ bsQue = << >> /\ csQue = << >>
    /\ r = [at |-> "idle", seen |-> "Disconnected", msg |-> [type |-> "SEARCHGW"]]
    /\ c = [at |-> "idle", seen |-> "Disconnected", obj |-> Null, code |-> "accepted"]
    /\ s = [at |-> "idle", seen |-> "Disconnected"]
    /\ conn = "closed" /\ fromBroker = << >> /\ published = 0 /\ granted = 0
    /\ received = 0 /\ told = 0 /\ answered = TRUE

-----------------------------------------------------------------------------
(* Methods of ClientNode.  `seen' is the value of _status that was loaded. *)

(* Fault: an Active client stays so when it disconnects. *)
UpdatedStaysActive(seen, m) ==
    CASE seen \in {"Asleep", "Awake"} /\ m.type = "CONNECT" -> "Connecting"
      [] seen = "Asleep" /\ m.type = "PINGREQ" -> "Awake"
      [] seen = "Awake" /\ m.type = "DISCONNECT" -> "Disconnected"
      [] OTHER -> seen

(* updateStatus(msg): the status it stores, `seen' when it stores none.    *)
(* getClientId() of a PINGREQ is a pointer into the message, never null.   *)
Updated(seen, m) ==
    CASE seen = "Active" /\ m.type = "DISCONNECT" /\ m.sleep -> "Asleep"
      [] seen = "Active" /\ m.type = "DISCONNECT" /\ ~m.sleep -> "Disconnected"
      [] seen \in {"Asleep", "Awake"} /\ m.type = "CONNECT" -> "Connecting"
      [] seen = "Asleep" /\ m.type = "PINGREQ" -> "Awake"
      [] seen = "Awake" /\ m.type = "DISCONNECT" -> "Disconnected"
      [] OTHER -> seen

(* Assign _status; "Disconnected" is assigned by disconnected(), which     *)
(* clears the two flags of the will dialogue.                              *)
SetStatus(st) ==
    /\ status' = st
    /\ saveFlg' = IF st = "Disconnected" THEN FALSE ELSE saveFlg
    /\ waitFlg' = IF st = "Disconnected" THEN FALSE ELSE waitFlg

(* The end of a method that loaded `seen' and stores st if it differs. *)
Store(seen, st) ==
    IF st # seen THEN SetStatus(st) ELSE UNCHANGED <<status, saveFlg, waitFlg>>

isConnectSendable == status \notin {"Lost", "TryConnecting"}

Settled ==
    /\ r.at = "idle" /\ c.at = "idle" /\ s.at = "idle"
    /\ gwQue = << >> /\ bsQue = << >> /\ csQue = << >> /\ fromBroker = << >>

-----------------------------------------------------------------------------
(* R: ClientRecvTask. *)

(* A message arrives.  A client without a node is only heard if it sends   *)
(* CONNECT, for which it gets a node, or SEARCHGW.                         *)
RecvClient(m) ==
    /\ r.at = "idle"
    /\ received < MaxRecv
    /\ Prompt => Settled
    /\ received' = received + 1
    /\ known' = (known \/ m.type = "CONNECT")
    /\ r' = [at   |-> CASE m.type = "SEARCHGW" /\ known -> "forget"
                        [] m.type = "SEARCHGW" /\ ~known -> "post"
                        [] m.type # "SEARCHGW" /\ known' -> "store"
                        [] OTHER -> "idle",
             seen |-> status,
             msg  |-> m]
    /\ answered' = (answered /\ m.type # "CONNECT")
    /\ UNCHANGED <<status, flags, objects, messages, events, c, s, broker, told>>

(* SEARCHGW of a known client: disconnected(). *)
RecvForget ==
    /\ r.at = "forget"
    /\ SetStatus("Disconnected")
    /\ r' = [r EXCEPT !.at = "post"]
    /\ UNCHANGED <<known, connAck, objects, messages, events, c, s, broker, history>>

(* setClientRecvMessage(): the store of updateStatus(), and the push. *)
RecvStore ==
    /\ r.at = "store"
    /\ Store(r.seen, Updated(r.seen, r.msg))
    /\ clientRecv' = Append(clientRecv, r.msg)
    /\ r' = [r EXCEPT !.at = "post"]
    /\ UNCHANGED <<known, connAck, objects, clientSend, brokerSend, brokerRecv,
                   sleepQue, events, c, s, broker, history>>

RecvPost ==
    /\ r.at = "post"
    /\ gwQue' = Append(gwQue, IF r.msg.type = "SEARCHGW" THEN "broadcast"
                                                         ELSE "clientRecv")
    /\ r' = [r EXCEPT !.at = "idle"]
    /\ UNCHANGED <<node, messages, bsQue, csQue, c, s, broker, history>>

ClientRecvTask ==
    (\E m \in Inputs : RecvClient(m)) \/ RecvForget \/ RecvStore \/ RecvPost

-----------------------------------------------------------------------------
(* C: GatewayControlTask.  "done" is the deletion of the event, which pops *)
(* the message it stands for.                                              *)

CGoto(at) == c' = [c EXCEPT !.at = at]

(* Timeout: checkTimeover() loads _status ... *)
Timeout ==
    /\ c.at = "idle" /\ gwQue = << >> /\ known
    /\ c' = [c EXCEPT !.at = "timeover", !.seen = status]
    /\ UNCHANGED <<node, messages, events, r, s, broker, history>>

(* ... and, if it was Active and the keep-alive timer is up, stores Lost   *)
(* and disconnects.  The timer may be up or still run.                     *)
Timeover ==
    /\ c.at = "timeover" /\ c.seen = "Active"
    /\ SetStatus("Lost")
    /\ CGoto("disconnect_stack")
    /\ UNCHANGED <<known, connAck, objects, messages, events, r, s, broker, history>>

TimerRuns ==
    /\ c.at = "timeover"
    /\ CGoto("idle")
    /\ UNCHANGED <<node, messages, events, r, s, broker, history>>

Close == conn' = "closed" /\ fromBroker' = << >> /\ UNCHANGED <<published, granted>>

TimeoverDisconnect ==
    /\ c.at = "disconnect_stack"
    /\ Close
    /\ CGoto("idle")
    /\ UNCHANGED <<node, messages, events, r, s, history>>

(* SEARCHGW: GWINFO is broadcast. *)
HandleSearchGw ==
    /\ c.at = "idle" /\ gwQue # << >> /\ Head(gwQue) = "broadcast"
    /\ gwQue' = Tail(gwQue)
    /\ csQue' = Append(csQue, "broadcast")
    /\ UNCHANGED <<node, messages, bsQue, r, c, s, broker, history>>

(* An event of the client: its message is updateStatus()'s argument. *)
TakeClientRecv ==
    /\ c.at = "idle" /\ gwQue # << >> /\ Head(gwQue) = "clientRecv"
    /\ gwQue' = Tail(gwQue)
    /\ c' = [c EXCEPT !.at = "update", !.seen = status]
    /\ UNCHANGED <<node, messages, bsQue, csQue, r, s, broker, history>>

ClientMessage == Head(clientRecv)

UpdateStatus ==
    /\ c.at = "update"
    /\ Store(c.seen, Updated(c.seen, ClientMessage))
    /\ CGoto(ClientMessage.type)
    /\ UNCHANGED <<known, connAck, objects, messages, events, r, s, broker, history>>

(* handleSnConnect, first part: a connection that may be asked for gets a  *)
(* new MQTTConnect.                                                        *)
SnConnect ==
    /\ c.at = "CONNECT"
    /\ IF isConnectSendable
       THEN /\ made' = made + 1
            /\ heap' = [heap EXCEPT ![made + 1].will = ClientMessage.will]
            /\ connMsg' = made + 1
            /\ c' = [c EXCEPT !.at = "connect", !.obj = made + 1]
       ELSE c' = [c EXCEPT !.at = "connect", !.obj = Null] /\ UNCHANGED objects
    /\ UNCHANGED <<known, status, flags, messages, events, r, s, broker, history>>

(* handleSnConnect, second part: ask for the will, *)
SnConnectWill ==
    /\ c.at = "connect" /\ ClientMessage.will
    /\ clientSend' = Append(clientSend, [type |-> "WILLTOPICREQ"])
    /\ IF isConnectSendable
       THEN UNCHANGED flags
       ELSE saveFlg' = TRUE /\ connAck' = "none" /\ UNCHANGED waitFlg
    /\ CGoto("post_client")
    /\ UNCHANGED <<known, status, objects, clientRecv, brokerSend, brokerRecv,
                   sleepQue, events, r, s, broker, history>>

(* Fault: the CONNECT is forwarded whether or not a will was asked for. *)
SnConnectForwardAtOnce ==
    /\ c.at = "connect"
    /\ IF isConnectSendable
       THEN connMsg' = Null /\ CGoto("connectQued")
       ELSE UNCHANGED connMsg /\ CGoto("done")
    /\ UNCHANGED <<known, status, flags, heap, made, messages, events, r, s,
                   broker, history>>

(* or forward the CONNECT: isConnectSendable() is called again. *)
SnConnectForward ==
    /\ c.at = "connect" /\ ~ClientMessage.will
    /\ IF isConnectSendable
       THEN connMsg' = Null /\ CGoto("connectQued")
       ELSE UNCHANGED connMsg /\ CGoto("done")
    /\ UNCHANGED <<known, status, flags, heap, made, messages, events, r, s,
                   broker, history>>

(* connectQued(): load ... *)
ConnectQued ==
    /\ c.at \in {"connectQued", "will_connectQued"}
    /\ c' = [c EXCEPT !.at = IF c.at = "connectQued" THEN "push" ELSE "will_push",
                      !.seen = status]
    /\ UNCHANGED <<node, messages, events, r, s, broker, history>>

(* ... and store, then setBrokerSendMessage(mqMsg). *)
SnConnectPush ==
    /\ c.at = "push"
    /\ Store(c.seen, IF c.seen \in {"Disconnected", "Lost"} THEN "TryConnecting"
                                                            ELSE c.seen)
    /\ brokerSend' = Append(brokerSend, [type |-> "CONNECT", obj |-> c.obj])
    /\ CGoto("post_broker")
    /\ UNCHANGED <<known, connAck, objects, clientRecv, clientSend, brokerRecv,
                   sleepQue, events, r, s, broker, history>>

(* handleSnWillTopic: ask for the message of the will. *)
SnWillTopic ==
    /\ c.at = "WILLTOPIC"
    /\ clientSend' = Append(clientSend, [type |-> "WILLMSGREQ"])
    /\ CGoto("post_client")
    /\ UNCHANGED <<node, clientRecv, brokerSend, brokerRecv, sleepQue, events, r, s,
                   broker, history>>

(* handleSnWillMsg: complete the MQTTConnect that waits for it, ... *)
SnWillMsg ==
    /\ c.at = "WILLMSG" /\ connMsg # Null /\ isConnectSendable
    /\ heap' = [heap EXCEPT ![connMsg].willMsg = TRUE]
    /\ CGoto("will_connectQued")
    /\ UNCHANGED <<known, status, flags, connMsg, made, messages, events, r, s,
                   broker, history>>

(* ... the store of connectQued(), *)
SnWillMsgQued ==
    /\ c.at = "will_push"
    /\ Store(c.seen, IF c.seen \in {"Disconnected", "Lost"} THEN "TryConnecting"
                                                            ELSE c.seen)
    /\ CGoto("will_forward")
    /\ UNCHANGED <<known, connAck, objects, messages, events, r, s, broker, history>>

(* Fault: the node keeps the MQTTConnect it has given away. *)
SnWillMsgForwardKeeping ==
    /\ c.at = "will_forward"
    /\ brokerSend' = Append(brokerSend, [type |-> "CONNECT", obj |-> connMsg])
    /\ CGoto("post_broker")
    /\ UNCHANGED <<node, clientRecv, clientSend, brokerRecv, sleepQue, events, r, s,
                   broker, history>>

(* and forward what getConnectMessage() then returns. *)
SnWillMsgForward ==
    /\ c.at = "will_forward"
    /\ brokerSend' = Append(brokerSend, [type |-> "CONNECT", obj |-> connMsg])
    /\ connMsg' = Null
    /\ CGoto("post_broker")
    /\ UNCHANGED <<known, status, flags, heap, made, clientRecv, clientSend,
                   brokerRecv, sleepQue, events, r, s, broker, history>>

(* WILLMSG without a CONNECT to complete, stable network: CONNACK refuses. *)
SnWillMsgReject ==
    /\ c.at = "WILLMSG" /\ (connMsg = Null \/ ~isConnectSendable)
    /\ Stable
    /\ clientSend' = Append(clientSend, [type |-> "CONNACK", code |-> "rejected"])
    /\ SetStatus("Disconnected")
    /\ CGoto("post_client")
    /\ UNCHANGED <<known, connAck, objects, clientRecv, brokerSend, brokerRecv,
                   sleepQue, events, r, s, broker, history>>

(* Otherwise checkGetConnAck(): deliver the CONNACK that was saved; ... *)
SnWillMsgSaved ==
    /\ c.at = "WILLMSG" /\ (connMsg = Null \/ ~isConnectSendable)
    /\ ~Stable
    /\ connAck # "none" /\ (saveFlg \/ waitFlg)
    /\ clientSend' = Append(clientSend, [type |-> "CONNACK", code |-> connAck])
    /\ saveFlg' = FALSE /\ waitFlg' = FALSE /\ connAck' = "none"
    /\ c' = [c EXCEPT !.at = "will_connack", !.code = connAck, !.seen = status]
    /\ UNCHANGED <<known, status, objects, clientRecv, brokerSend, brokerRecv,
                   sleepQue, events, r, s, broker, history>>

(* or wait for it, and refuse if nothing is under way. *)
SnWillMsgWait ==
    /\ c.at = "WILLMSG" /\ (connMsg = Null \/ ~isConnectSendable)
    /\ ~Stable
    /\ connAck = "none" \/ ~(saveFlg \/ waitFlg)
    /\ waitFlg' = (connAck = "none" \/ waitFlg)
    /\ IF status \in {"Disconnected", "Active"}
       THEN /\ clientSend' = Append(clientSend, [type |-> "CONNACK", code |-> "rejected"])
            /\ c' = [c EXCEPT !.at = "will_connack", !.code = "rejected", !.seen = status]
       ELSE CGoto("done") /\ UNCHANGED clientSend
    /\ UNCHANGED <<known, status, saveFlg, connAck, objects, clientRecv, brokerSend,
                   brokerRecv, sleepQue, events, r, s, broker, history>>

(* connackSended(rc), store: Connecting becomes Active, or disconnected(). *)
ConnackSended(seen, code) ==
    CASE seen = "Connecting" /\ code = "accepted" -> "Active"
      [] seen = "Connecting" /\ code = "rejected" -> "Disconnected"
      [] OTHER -> seen

SnWillMsgConnack ==
    /\ c.at = "will_connack"
    /\ Store(c.seen, ConnackSended(c.seen, c.code))
    /\ CGoto("post_client")
    /\ UNCHANGED <<known, connAck, objects, messages, events, r, s, broker, history>>

(* handleSnPingReq and the other handlers that pass a message on. *)
SnPingReq ==
    /\ c.at = "PINGREQ"
    /\ brokerSend' = Append(brokerSend, [type |-> "PINGREQ"])
    /\ CGoto("post_broker")
    /\ UNCHANGED <<node, clientRecv, clientSend, brokerRecv, sleepQue, events, r, s,
                   broker, history>>

(* handleSnDisconnect: to the broker and back to the client. *)
SnDisconnect ==
    /\ c.at = "DISCONNECT"
    /\ brokerSend' = Append(brokerSend, [type |-> "DISCONNECT"])
    /\ clientSend' = Append(clientSend, [type |-> "DISCONNECT"])
    /\ CGoto("post_both")
    /\ UNCHANGED <<node, clientRecv, brokerRecv, sleepQue, events, r, s, broker, history>>

(* The posts that end a handler. *)
PostClient ==
    /\ c.at \in {"post_client", "post_both"}
    /\ csQue' = Append(csQue, "unicast")
    /\ CGoto(IF c.at = "post_both" THEN "post_broker" ELSE "done")
    /\ UNCHANGED <<node, messages, gwQue, bsQue, r, s, broker, history>>

PostBroker ==
    /\ c.at = "post_broker"
    /\ bsQue' = Append(bsQue, "brokerSend")
    /\ CGoto("done")
    /\ UNCHANGED <<node, messages, gwQue, csQue, r, s, broker, history>>

Done ==
    /\ c.at = "done"
    /\ clientRecv' = Tail(clientRecv)
    /\ CGoto("idle")
    /\ UNCHANGED <<node, clientSend, brokerSend, brokerRecv, sleepQue, events, r, s,
                   broker, history>>

(* An event of the broker. *)
TakeBrokerRecv ==
    /\ c.at = "idle" /\ gwQue # << >> /\ Head(gwQue) = "brokerRecv"
    /\ gwQue' = Tail(gwQue)
    /\ CGoto(Head(brokerRecv).type)
    /\ UNCHANGED <<node, messages, bsQue, csQue, r, s, broker, history>>

BrokerMessage == Head(brokerRecv)

(* handleConnack, checkConnAck(): the CONNACK is kept for the will         *)
(* dialogue, or connackSended() loads the status.                          *)
Connack ==
    /\ c.at = "CONNACK"
    /\ IF saveFlg \/ waitFlg
       THEN connAck' = BrokerMessage.code /\ CGoto("flush")
       ELSE /\ c' = [c EXCEPT !.at = "connack", !.code = BrokerMessage.code,
                              !.seen = status]
            /\ UNCHANGED connAck
    /\ UNCHANGED <<known, status, saveFlg, waitFlg, objects, messages, events, r, s,
                   broker, history>>

(* Fault: the client gets the CONNACK that was saved, if any. *)
ConnackForwardSaved ==
    /\ c.at = "connack"
    /\ Store(c.seen, ConnackSended(c.seen, c.code))
    /\ clientSend' = Append(clientSend, [type |-> "CONNACK", code |-> connAck])
    /\ CGoto("connack_post")
    /\ UNCHANGED <<known, connAck, objects, clientRecv, brokerSend, brokerRecv,
                   sleepQue, events, r, s, broker, history>>

(* Fault: the client is told "accepted" whatever the broker said. *)
ConnackForwardAccepted ==
    /\ c.at = "connack"
    /\ Store(c.seen, ConnackSended(c.seen, "accepted"))
    /\ clientSend' = Append(clientSend, [type |-> "CONNACK", code |-> "accepted"])
    /\ CGoto("connack_post")
    /\ UNCHANGED <<known, connAck, objects, clientRecv, brokerSend, brokerRecv,
                   sleepQue, events, r, s, broker, history>>

ConnackForward ==
    /\ c.at = "connack"
    /\ Store(c.seen, ConnackSended(c.seen, c.code))
    /\ clientSend' = Append(clientSend, [type |-> "CONNACK", code |-> c.code])
    /\ CGoto("connack_post")
    /\ UNCHANGED <<known, connAck, objects, clientRecv, brokerSend, brokerRecv,
                   sleepQue, events, r, s, broker, history>>

(* Fault: the CONNACK is pushed and its event is not posted. *)
ConnackPostMissing ==
    /\ c.at = "connack_post"
    /\ CGoto("flush")
    /\ UNCHANGED <<node, messages, events, r, s, broker, history>>

ConnackPost ==
    /\ c.at = "connack_post"
    /\ csQue' = Append(csQue, "unicast")
    /\ CGoto("flush")
    /\ UNCHANGED <<node, messages, gwQue, bsQue, r, s, broker, history>>

(* handleConnack, isActive(): are saved messages to be sent? *)
Flush ==
    /\ c.at = "flush"
    /\ CGoto(IF status = "Active" /\ sleepQue # << >> THEN "flushing" ELSE "broker_done")
    /\ UNCHANGED <<node, messages, events, r, s, broker, history>>

(* The body of while(getClientSleepMessage()): the front of the queue is   *)
(* sent, and stays where it is.                                            *)
FlushOne ==
    /\ c.at = "flushing"
    /\ Len(csQue) < MaxQueue
    /\ clientSend' = Append(clientSend, Head(sleepQue))
    /\ csQue' = Append(csQue, "unicast")
    /\ CGoto(IF sleepQue # << >> THEN "flushing" ELSE "broker_done")
    /\ UNCHANGED <<node, clientRecv, brokerSend, brokerRecv, sleepQue, gwQue, bsQue,
                   r, s, broker, history>>

(* handlePingresp *)
Pingresp ==
    /\ c.at = "PINGRESP"
    /\ clientSend' = Append(clientSend, [type |-> "PINGRESP"])
    /\ csQue' = Append(csQue, "unicast")
    /\ CGoto("broker_done")
    /\ UNCHANGED <<node, clientRecv, brokerSend, brokerRecv, sleepQue, gwQue, bsQue,
                   r, s, broker, history>>

(* Fault: the event of the PUBACK is posted for every QoS. *)
PublishAsleepPosts ==
    /\ c.at = "PUBLISH" /\ status = "Asleep"
    /\ sleepQue' = Append(sleepQue, [type |-> "PUBLISH"])
    /\ brokerSend' = IF BrokerMessage.qos1 THEN Append(brokerSend, [type |-> "PUBACK"])
                                           ELSE brokerSend
    /\ bsQue' = Append(bsQue, "brokerSend")
    /\ CGoto("broker_done")
    /\ UNCHANGED <<node, clientRecv, clientSend, brokerRecv, gwQue, csQue, r, s,
                   broker, history>>

(* handlePublish, of a topic the client knows: kept for a sleeping client, *)
(* acknowledged in its place if QoS is 1, ...                              *)
PublishAsleep ==
    /\ c.at = "PUBLISH" /\ status = "Asleep"
    /\ sleepQue' = Append(sleepQue, [type |-> "PUBLISH"])
    /\ IF BrokerMessage.qos1
       THEN /\ brokerSend' = Append(brokerSend, [type |-> "PUBACK"])
            /\ bsQue' = Append(bsQue, "brokerSend")
       ELSE UNCHANGED <<brokerSend, bsQue>>
    /\ CGoto("broker_done")
    /\ UNCHANGED <<node, clientRecv, clientSend, brokerRecv, gwQue, csQue, r, s,
                   broker, history>>

(* ... or, isActive() being asked after isSleep(), sent or dropped. *)
PublishAwake ==
    /\ c.at = "PUBLISH" /\ status # "Asleep"
    /\ CGoto("publish")
    /\ UNCHANGED <<node, messages, events, r, s, broker, history>>

PublishForward ==
    /\ c.at = "publish"
    /\ IF status = "Active"
       THEN /\ clientSend' = Append(clientSend, [type |-> "PUBLISH"])
            /\ csQue' = Append(csQue, "unicast")
       ELSE UNCHANGED <<clientSend, csQue>>
    /\ CGoto("broker_done")
    /\ UNCHANGED <<node, clientRecv, brokerSend, brokerRecv, sleepQue, gwQue, bsQue,
                   r, s, broker, history>>

BrokerDone ==
    /\ c.at = "broker_done"
    /\ brokerRecv' = Tail(brokerRecv)
    /\ CGoto("idle")
    /\ UNCHANGED <<node, clientRecv, clientSend, brokerSend, sleepQue, events, r, s,
                   broker, history>>

HandleTimeout == Timeout \/ Timeover \/ TimerRuns \/ TimeoverDisconnect

HandleConnect ==
    \/ SnConnect \/ SnConnectWill \/ SnConnectForward \/ ConnectQued \/ SnConnectPush

HandleWill ==
    \/ SnWillTopic \/ SnWillMsg \/ SnWillMsgQued \/ SnWillMsgForward
    \/ SnWillMsgReject \/ SnWillMsgSaved \/ SnWillMsgWait \/ SnWillMsgConnack

HandleClient ==
    \/ TakeClientRecv \/ UpdateStatus \/ HandleConnect \/ HandleWill
    \/ SnPingReq \/ SnDisconnect \/ PostClient \/ PostBroker \/ Done

HandleBroker ==
    \/ TakeBrokerRecv \/ Connack \/ ConnackForward \/ ConnackPost \/ Flush \/ FlushOne
    \/ Pingresp \/ PublishAsleep \/ PublishAwake \/ PublishForward \/ BrokerDone

GatewayControlTask == HandleTimeout \/ HandleSearchGw \/ HandleClient \/ HandleBroker

-----------------------------------------------------------------------------
(* S: BrokerSendTask. *)

SMessage == Head(brokerSend)

(* delete: the object m, or nothing if m is Null. *)
Freed(m) == [o \in Connect |-> [heap[o] EXCEPT !.freed = (@ \/ o = m)]]

(* A null pointer taken from the queue ends the process. *)
TakeBrokerSend ==
    /\ s.at = "idle" /\ bsQue # << >>
    /\ bsQue' = Tail(bsQue)
    /\ s' = [at   |-> IF SMessage.type # "CONNECT" THEN "send"
                      ELSE IF SMessage.obj = Null THEN "crashed" ELSE "connectSended",
             seen |-> status]
    /\ UNCHANGED <<node, messages, gwQue, csQue, r, c, broker, history>>

(* connectSended(): the load was made above; an MQTTConnect found in the   *)
(* node is deleted.                                                        *)
ConnectSended ==
    /\ s.at = "connectSended"
    /\ IF s.seen = "TryConnecting"
       THEN /\ status' = "Connecting"
            /\ heap' = Freed(connMsg)
            /\ connMsg' = Null
       ELSE UNCHANGED <<status, heap, connMsg>>
    /\ s' = [s EXCEPT !.at = "send"]
    /\ UNCHANGED <<known, flags, made, messages, events, r, c, broker, history>>

(* What the broker does with a packet that reaches it: a CONNECT begins a  *)
(* session or is refused, and anything else outside a session cuts the     *)
(* connection, of which the gateway learns when a later send() fails.      *)
BrokerGets(m, code) ==
    \/ /\ m.type = "CONNECT" /\ (conn = "closed" \/ (conn = "session" /\ ~StrictBroker))
       /\ fromBroker' = Append(fromBroker, [type |-> "CONNACK", code |-> code])
       /\ conn' = IF code = "accepted" THEN "session" ELSE "cut"
       /\ granted' = IF code = "accepted" THEN granted + 1 ELSE granted
       /\ UNCHANGED published
    \/ /\ m.type = "PINGREQ" /\ conn = "session"
       /\ fromBroker' = Append(fromBroker, [type |-> "PINGRESP"])
       /\ UNCHANGED <<conn, published, granted>>
    \/ /\ m.type \in {"PUBACK", "DISCONNECT"} /\ conn = "session"
       /\ UNCHANGED broker
    \/ /\ \/ m.type = "CONNECT" /\ conn = "session" /\ StrictBroker
          \/ (m.type # "CONNECT" /\ conn = "closed")
          \/ conn = "cut"
       /\ conn' = "cut"
       /\ UNCHANGED <<fromBroker, published, granted>>

(* send(): over the connection, which is made first if there is none.      *)
(* A DISCONNECT is followed by disconnect() of the stack.                  *)
Send(code) ==
    /\ s.at = "send"
    /\ BrokerGets(SMessage, code)
    /\ s' = [s EXCEPT !.at = IF SMessage.type = "DISCONNECT" THEN "close" ELSE "done"]
    /\ UNCHANGED <<node, messages, events, r, c, history>>

(* send() fails, or the connection cannot be made: disconnect() ... *)
SendFails ==
    /\ s.at = "send"
    /\ conn = "cut" \/ BrokerFails
    /\ Close
    /\ s' = [s EXCEPT !.at = "disconnected"]
    /\ UNCHANGED <<node, messages, events, r, c, history>>

(* ... and disconnected(). *)
SendDisconnected ==
    /\ s.at = "disconnected"
    /\ SetStatus("Disconnected")
    /\ s' = [s EXCEPT !.at = IF SMessage.type = "DISCONNECT" THEN "close" ELSE "done"]
    /\ UNCHANGED <<known, connAck, objects, messages, events, r, c, broker, history>>

SendClose ==
    /\ s.at = "close"
    /\ Close
    /\ s' = [s EXCEPT !.at = "done"]
    /\ UNCHANGED <<node, messages, events, r, c, history>>

(* The deletion of the event deletes the message, too. *)
SendDone ==
    /\ s.at = "done"
    /\ heap' = IF SMessage.type = "CONNECT" THEN Freed(SMessage.obj) ELSE heap
    /\ brokerSend' = Tail(brokerSend)
    /\ s' = [s EXCEPT !.at = "idle"]
    /\ UNCHANGED <<known, status, flags, connMsg, made, clientRecv, clientSend,
                   brokerRecv, sleepQue, events, r, c, broker, history>>

BrokerSendTask ==
    \/ TakeBrokerSend \/ ConnectSended \/ (\E code \in Codes : Send(code))
    \/ SendFails \/ SendDisconnected \/ SendClose \/ SendDone

-----------------------------------------------------------------------------
(* B: BrokerRecvTask. *)

(* A packet is received, pushed to the node and posted. *)
RecvBroker ==
    /\ conn # "closed" /\ fromBroker # << >>
    /\ brokerRecv' = Append(brokerRecv, Head(fromBroker))
    /\ gwQue' = Append(gwQue, "brokerRecv")
    /\ fromBroker' = Tail(fromBroker)
    /\ UNCHANGED <<node, clientRecv, clientSend, brokerSend, sleepQue, bsQue, csQue,
                   r, c, s, conn, published, granted, history>>

(* recv() returns -1: disconnected(), and the connection is left as it is. *)
RecvFails ==
    /\ conn = "cut" /\ fromBroker = << >> /\ BrokerFails
    /\ SetStatus("Disconnected")
    /\ UNCHANGED <<known, connAck, objects, messages, events, r, c, s, broker, history>>

BrokerRecvTask == RecvBroker \/ RecvFails

-----------------------------------------------------------------------------
(* CS: ClientSendTask. *)
SendClient ==
    /\ csQue # << >>
    /\ csQue' = Tail(csQue)
    /\ IF Head(csQue) = "unicast"
       THEN LET m == Head(clientSend) IN
            /\ clientSend' = Tail(clientSend)
            /\ answered' = (answered \/ m.type = "CONNACK")
            /\ told' = IF m.type = "CONNACK" /\ m.code = "accepted" THEN told + 1 ELSE told
       ELSE UNCHANGED <<clientSend, answered, told>>
    /\ UNCHANGED <<node, clientRecv, brokerSend, brokerRecv, sleepQue, gwQue, bsQue,
                   r, c, s, broker, received>>

ClientSendTask == SendClient

-----------------------------------------------------------------------------
(* The broker publishes to the client, or the connection breaks. *)
BrokerPublish ==
    /\ conn = "session" /\ published < MaxPublish
    /\ published' = published + 1
    /\ \E q \in BOOLEAN :
          fromBroker' = Append(fromBroker, [type |-> "PUBLISH", qos1 |-> q])
    /\ UNCHANGED <<node, messages, events, r, c, s, conn, granted, history>>

BrokerCut ==
    /\ BrokerFails /\ conn = "session"
    /\ conn' = "cut"
    /\ UNCHANGED <<node, messages, events, r, c, s, fromBroker, published, granted, history>>

(* A crash of S ends the process, and with it every thread. *)
Alive == s.at # "crashed"

Next ==
    \/ Alive /\ ClientRecvTask
    \/ Alive /\ GatewayControlTask
    \/ Alive /\ BrokerSendTask
    \/ Alive /\ BrokerRecvTask
    \/ Alive /\ ClientSendTask
    \/ Alive /\ (BrokerPublish \/ BrokerCut)

Spec == Init /\ [][Next]_vars

(* Every thread goes on with what it has begun and takes the next event;   *)
(* client and broker are free to send nothing.                             *)
Fairness ==
    /\ WF_vars(Alive /\ (RecvForget \/ RecvStore \/ RecvPost))
    /\ WF_vars(Alive /\ GatewayControlTask)
    /\ WF_vars(Alive /\ BrokerSendTask)
    /\ WF_vars(Alive /\ BrokerRecvTask)
    /\ WF_vars(Alive /\ ClientSendTask)

FairSpec == Spec /\ Fairness

-----------------------------------------------------------------------------
BrokerPacket ==
    [type : {"CONNACK"}, code : Code] \cup [type : {"PINGRESP"}]
        \cup [type : {"PUBLISH"}, qos1 : BOOLEAN]

ToBroker ==
    [type : {"CONNECT"}, obj : Connect \cup {Null}]
        \cup [type : {"PINGREQ", "DISCONNECT", "PUBACK"}]

ToClient ==
    [type : {"CONNACK"}, code : Code]
        \cup [type : {"WILLTOPICREQ", "WILLMSGREQ", "PINGRESP", "DISCONNECT", "PUBLISH"}]

(* Where C is: in a handler of a client's event, of a broker's, in neither. *)
AtClient == {"update", "CONNECT", "connect", "connectQued", "push", "WILLTOPIC",
             "WILLMSG", "will_connectQued", "will_push", "will_forward",
             "will_connack", "PINGREQ", "DISCONNECT", "post_client", "post_both",
             "post_broker", "done"}
AtBroker == {"CONNACK", "connack", "connack_post", "flush", "flushing", "PINGRESP",
             "PUBLISH", "publish", "broker_done"}
AtOther == {"idle", "timeover", "disconnect_stack"}

TypeNode ==
    /\ known \in BOOLEAN /\ status \in Status
    /\ saveFlg \in BOOLEAN /\ waitFlg \in BOOLEAN /\ connAck \in Code \cup {"none"}

TypeObjects ==
    /\ made \in 0..MaxRecv /\ connMsg \in 0..made
    /\ heap \in [Connect -> [will : BOOLEAN, willMsg : BOOLEAN, freed : BOOLEAN]]

TypeMessages ==
    /\ clientRecv \in Seq(ClientMsg) /\ clientSend \in Seq(ToClient)
    /\ brokerSend \in Seq(ToBroker) /\ brokerRecv \in Seq(BrokerPacket)
    /\ sleepQue \in Seq(ToClient)

TypeEvents ==
    /\ gwQue \in Seq({"clientRecv", "brokerRecv", "broadcast"})
    /\ bsQue \in Seq({"brokerSend"}) /\ csQue \in Seq({"unicast", "broadcast"})

TypeThreads ==
    /\ r \in [at : {"idle", "forget", "store", "post"}, seen : Status, msg : ClientMsg]
    /\ c \in [at : AtClient \cup AtBroker \cup AtOther, seen : Status,
              obj : 0..MaxRecv, code : Code]
    /\ s \in [at : {"idle", "connectSended", "send", "disconnected", "close", "done",
                    "crashed"}, seen : Status]

TypeBroker ==
    /\ conn \in {"closed", "session", "cut"} /\ fromBroker \in Seq(BrokerPacket)
    /\ published \in 0..MaxPublish /\ granted \in Nat
    /\ received \in 0..MaxRecv /\ told \in Nat /\ answered \in BOOLEAN

(* Type invariant. *)
TypeOK ==
    /\ TypeNode /\ TypeObjects /\ TypeMessages /\ TypeEvents /\ TypeThreads
    /\ TypeBroker

Count(q, e) == Cardinality({i \in DOMAIN q : q[i] = e})
One(b) == IF b THEN 1 ELSE 0

(* The four queues of messages and the events for them. *)
ClientRecvPaired ==
    Len(clientRecv) = Count(gwQue, "clientRecv") + One(c.at \in AtClient)
                        + One(r.at = "post" /\ r.msg.type # "SEARCHGW")

BrokerRecvPaired ==
    Len(brokerRecv) = Count(gwQue, "brokerRecv") + One(c.at \in AtBroker)

BrokerSendPaired ==
    Len(brokerSend) = Len(bsQue) + One(s.at # "idle")
                        + One(c.at \in {"post_broker", "post_both"})

ClientSendPaired ==
    Len(clientSend) = Count(csQue, "unicast")
                        + One(c.at \in {"post_client", "post_both", "will_connack",
                                        "connack_post"})

(* An event carries no message: whoever takes it reads the front of a      *)
(* MessageQue of the node, and deletes that front when the event is        *)
(* deleted.  At any time there is one message for each event queued,       *)
(* being posted or being handled, so no thread finds the queue empty.      *)
EventsPaired ==
    ClientRecvPaired /\ BrokerRecvPaired /\ BrokerSendPaired /\ ClientSendPaired

(* What makes TypeOK and EventsPaired inductive.  SEARCHGW never enters    *)
(* clientRecv, *)
NoSearchGw ==
    /\ \A i \in DOMAIN clientRecv : clientRecv[i].type # "SEARCHGW"
    /\ r.at = "store" => r.msg.type # "SEARCHGW"
    /\ r.at = "forget" => r.msg.type = "SEARCHGW"

(* a handler runs on a message of its type, and the flush with one to send, *)
HandlerFits ==
    /\ c.at \in {"CONNECT", "connect"} => ClientMessage.type = "CONNECT"
    /\ c.at \in {"CONNACK", "PUBLISH"} => BrokerMessage.type = c.at
    /\ c.at = "flushing" => sleepQue # << >>

(* and each MQTTConnect is made for a message received. *)
MadeFor ==
    made + Len(clientRecv) + One(r.at = "store")
        <= received + One(c.at \in AtClient \ {"update", "CONNECT"})

IndInv == TypeOK /\ EventsPaired /\ NoSearchGw /\ HandlerFits /\ MadeFor

(* The client is told "accepted" at most once for each CONNECT that the    *)
(* broker accepted, although CONNACKs are kept aside, replaced and made    *)
(* up by the will dialogue.                                                *)
AcceptedByBroker == told <= granted

(* A CONNECT that needs a will is not forwarded before the WILLMSG came,   *)
(* and one that needs none is not given the will of another attempt.       *)
WillForwarded ==
    \A i \in DOMAIN brokerSend :
        brokerSend[i].type = "CONNECT" /\ brokerSend[i].obj # Null =>
            heap[brokerSend[i].obj].will = heap[brokerSend[i].obj].willMsg

(* No MQTTConnect is used after its deletion, and none is missing. *)
ConnectValid ==
    /\ connMsg # Null => ~heap[connMsg].freed
    /\ \A i \in DOMAIN brokerSend :
          brokerSend[i].type = "CONNECT" =>
              /\ brokerSend[i].obj # Null
              /\ ~heap[brokerSend[i].obj].freed

(* A client that is Active once the gateway has settled has a session at   *)
(* the broker.                                                             *)
ActiveHasSession == Settled /\ status = "Active" => conn = "session"

(* A CONNECT without will reaches the node of a disconnected client, with  *)
(* the connection to the broker unbroken.                                  *)
ConnectComes ==
    /\ r.at = "store" /\ r.msg.type = "CONNECT" /\ ~r.msg.will
    /\ status = "Disconnected" /\ conn # "cut"

(* It is answered by a CONNACK. *)
ConnectAnswered == ConnectComes ~> answered

(* It is answered if the node waits for no message of a will, whatever     *)
(* came before: dialogues, refusals, sleep, time-outs, a session still     *)
(* open.  Otherwise checkConnAck() keeps the CONNACK: after CONNECT,       *)
(* SEARCHGW, WILLMSG, CONNECT, say, ConnectAnswered does not hold.         *)
FreshConnectAnswered == ConnectComes /\ ~saveFlg /\ ~waitFlg ~> answered

(* handleConnack() comes to an end, so that C takes its next event. *)
FlushEnds == c.at = "flushing" ~> c.at = "idle"

=============================================================================
