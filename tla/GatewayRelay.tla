---------------------------- MODULE GatewayRelay ----------------------------
(***************************************************************************)
(* What GatewayControlTask does with the messages of one client once it    *)
(* has a ClientNode: topics are registered, subscribed and published, and  *)
(* acknowledgements are matched with the topic ids they need.  The state   *)
(* is that of the ClientNode: its Topics, its two TopicIdMaps, its status  *)
(* and the messages kept while it sleeps.                                  *)
(*                                                                         *)
(* The control task is one thread and handles one event of its queue at a  *)
(* time; only the status is assigned by another thread as well, the        *)
(* receiving one, so a handler that reads it twice takes several steps.    *)
(* The links are FIFO (EventQue, MQTT over TCP).  The client is any client *)
(* that uses the ids it was told, the broker any MQTT broker.              *)
(***************************************************************************)
EXTENDS Integers, Sequences, FiniteSets, FiniteSetsExt, Functions

CONSTANTS
    Names,          \* topic names
    Shorts,         \* those of two characters
    Normal,         \* MQTTSN_TOPICID_NORMAL, the first id that is assigned
    Wrap,           \* 2^16: topic ids are uint16_t
    Clients,        \* the clients: [says, max], the types of the messages and of
                    \* the topics that each uses, and how many it sends
    MaxInflight,    \* _maxInflight of TopicIdMap
    MaxSend,        \* bound: the most messages a client sends
    MaxPublish,     \* bound: messages the broker publishes
    MaxQueue        \* bound: length of a queue when something is sent

Predefined == 1         \* MQTTSN_TOPICID_PREDEFINED_TIME

ASSUME NamesFinite == IsFiniteSet(Names) /\ Shorts \subseteq Names
ASSUME IdsSuffice ==
    /\ Normal \in Nat /\ Normal > Predefined /\ Wrap \in Nat
    /\ Cardinality(Names) <= Wrap - Normal
ASSUME ClientsBounded == \A c \in Clients : c.max \in 0..MaxSend
ASSUME BoundsNat == {MaxInflight, MaxSend, MaxPublish, MaxQueue} \subseteq Nat

NoName == "noname"      \* the empty string
Id == 0..(Wrap - 1)

VARIABLES
    status,         \* ClientNode::_status
    topics,         \* Topics: the id of each name that has been added
    nextTopicId,    \* Topics::_nextTopicId
    pubMap, subMap, \* _waitedPubTopicIdMap, _waitedSubTopicIdMap
    sleepQue,       \* messages saved for a sleeping client
    gwQue,          \* gatewayEventQue, each event with its message
    at, cur,        \* where the control task is, and the publication it has
    toBroker,       \* sent to the broker: brokerSendQue and the connection
    toClient,       \* sent to the client: clientSendQue and the network
    speaks,         \* the client: one of Clients
    linked,         \* the client: "no", "connecting", "yes" or "asleep"
    told,           \* the client: the ids it was told, as <<id, name>>
    unacked,        \* the client: QoS 1 and 2 PUBLISHes under way
    asked,          \* the client: names in REGISTER and SUBSCRIBE, by msg id
    used,           \* history: habits of the client, see Habit
    sent, published,\* counters of the client and the broker, bounded
    subscribed,     \* history: names the client has asked to subscribe to
    untold          \* history: ids whose REGISTER was neither sent nor saved

table == <<topics, nextTopicId>>
maps == <<pubMap, subMap>>
task == <<at, cur>>
client == <<speaks, linked, told, unacked, asked, used, sent>>
history == <<subscribed, untold>>
vars == <<status, table, maps, sleepQue, gwQue, task, toBroker, toClient,
          client, published, history>>

Empty == [x \in {} |-> 0]
Idle == [name |-> NoName, id |-> 0, mid |-> 0, short |-> FALSE]

Init ==
    /\ status = "Disconnected"
    /\ topics = Empty /\ nextTopicId = 0
    /\ pubMap = Empty /\ subMap = Empty
    /\ sleepQue = << >> /\ gwQue = << >> /\ toBroker = << >> /\ toClient = << >>
    /\ at = "idle" /\ cur = Idle
    /\ speaks \in Clients
    /\ linked = "no" /\ told = {} /\ unacked = {} /\ asked = Empty
    /\ used = {} /\ sent = 0 /\ published = 0
    /\ subscribed = {} /\ untold = {}

-----------------------------------------------------------------------------
(* Topics and TopicIdMap. *)

(* Fault: the counter wraps below the predefined ids. *)
NextTopicIdStuck(n) == IF n + 1 < Normal THEN Normal ELSE Normal + ((n - Normal) % 2)

(* getNextTopicId(): a uint16_t that skips the ids below Normal. *)
NextTopicId(n) == LET k == (n + 1) % Wrap IN IF k < Normal THEN Normal ELSE k

(* getTopicId(name): 0 if the name has not been added. *)
TopicId(name) == IF name \in DOMAIN topics THEN topics[name] ELSE 0

(* add(name): nothing changes if the name is there.  Every topic is added  *)
(* with the type NORMAL, whatever the caller knows of it.                  *)
Add(name) ==
    IF name \in DOMAIN topics THEN UNCHANGED table
    ELSE /\ nextTopicId' = NextTopicId(nextTopicId)
         /\ topics' = [n \in DOMAIN topics \cup {name} |->
                           IF n = name THEN nextTopicId' ELSE topics[n]]

(* getTopic(id, type): the names of the topics it may return. *)
TopicsOf(id, kind) == {n \in DOMAIN topics : kind = "NORMAL" /\ topics[n] = id}

(* The entry that a full map gives up.  add() reads the key of end(): with *)
(* libstdc++ it finds the number of entries there.                         *)
Victim(map, mid) ==
    IF mid > Cardinality(DOMAIN map)
    THEN Min(DOMAIN map)
    ELSE Min({k \in DOMAIN map : k >= mid})     \* lower_bound

(* Fault: one entry less fits. *)
InsertedShort(map, mid, id) ==
    LET kept == IF Cardinality(DOMAIN map) + 1 >= MaxInflight /\ DOMAIN map # {}
                THEN Restrict(map, DOMAIN map \ {Victim(map, mid)}) ELSE map
    IN  [k \in DOMAIN kept \cup {mid} |-> IF k \in DOMAIN kept THEN kept[k] ELSE id]

(* TopicIdMap::add(): insert() does not replace an entry that is there. *)
Inserted(map, mid, id) ==
    LET kept == IF Cardinality(DOMAIN map) >= MaxInflight
                THEN Restrict(map, DOMAIN map \ {Victim(map, mid)}) ELSE map
    IN  [k \in DOMAIN kept \cup {mid} |-> IF k \in DOMAIN kept THEN kept[k] ELSE id]

(* TopicIdMap::getTopicId() and erase(). *)
Waited(map, mid) == IF mid \in DOMAIN map THEN map[mid] ELSE 0
Erased(map, mid) == Restrict(map, DOMAIN map \ {mid})

-----------------------------------------------------------------------------
(* The receiving threads: ClientRecvTask stores the message and assigns    *)
(* the status before it posts, BrokerRecvTask posts.                       *)

(* Fault: a client that disconnects is taken for lost. *)
UpdatedStatusLost(st, m) == IF st = "Active" /\ m.type = "DISCONNECT" THEN "Lost" ELSE st

(* ClientNode::updateStatus(msg).  DISCONNECT with a duration: sleep. *)
UpdatedStatus(st, m) ==
    IF st = "Active" /\ m.type = "DISCONNECT" THEN IF m.sleep THEN "Asleep" ELSE "Disconnected"
    ELSE IF st = "Asleep" /\ m.type = "PINGREQ" THEN "Awake"
    ELSE IF st = "Awake" /\ m.type = "DISCONNECT" THEN "Disconnected"
    ELSE IF st \in {"Asleep", "Awake"} /\ m.type = "CONNECT" THEN "Connecting"
    ELSE st

ClientSends(m) ==
    /\ m.type \in speaks.says /\ m.kind \in speaks.says \cup {"none"}
    /\ sent < speaks.max /\ Len(gwQue) < MaxQueue
    /\ sent' = sent + 1 /\ UNCHANGED speaks
    /\ status' = UpdatedStatus(status, m)
    /\ gwQue' = Append(gwQue, [from |-> "client", msg |-> m])

(* The client acknowledges or repeats without using up its budget. *)
ClientAnswers(m) ==
    /\ status' = UpdatedStatus(status, m)
    /\ gwQue' = Append(gwQue, [from |-> "client", msg |-> m])
    /\ UNCHANGED <<speaks, sent>>

BrokerPosts(m) == gwQue' = Append(gwQue, [from |-> "broker", msg |-> m])

(* C takes the event at the head of its queue. *)
Take(from, type) ==
    /\ at = "idle" /\ gwQue # << >>
    /\ Head(gwQue).from = from /\ Head(gwQue).msg.type = type
    /\ gwQue' = Tail(gwQue)

Msg == Head(gwQue).msg

(* setClientSendMessage() and its event; setBrokerSendMessage() and its.   *)
Reply(m) == toClient' = Append(toClient, m)
Forward(m) == toBroker' = Append(toBroker, m)

-----------------------------------------------------------------------------
(* Upstream handlers. *)

(* handleSnPublish(): the topic is found by its id and type.  The id is    *)
(* kept for the PUBACK whatever the QoS.  `id' and `meant' are histories.  *)
SnPublishForward ==
    /\ Take("client", "PUBLISH")
    /\ \E name \in TopicsOf(Msg.id, Msg.kind) :
           Forward([type |-> "PUBLISH", name |-> name, id |-> Msg.id, mid |-> Msg.mid,
                    qos |-> Msg.qos, meant |-> Msg.meant])
    /\ pubMap' = IF Msg.mid # 0 THEN Inserted(pubMap, Msg.mid, Msg.id) ELSE pubMap
    /\ UNCHANGED <<status, table, subMap, sleepQue, task, toClient, client, published,
                   history>>

(* Fault: a PUBLISH for an unknown topic is dropped. *)
SnPublishRejectSilent ==
    /\ Take("client", "PUBLISH")
    /\ TopicsOf(Msg.id, Msg.kind) = {}
    /\ UNCHANGED <<status, table, maps, sleepQue, task, toBroker, toClient, client,
                   published, history>>

(* handleSnPublish(): no topic.  A short topic is never found: the test    *)
(* for it compares the && of the flags.                                    *)
SnPublishReject ==
    /\ Take("client", "PUBLISH")
    /\ TopicsOf(Msg.id, Msg.kind) = {}
    /\ IF Msg.mid # 0
       THEN Reply([type |-> "PUBACK", id |-> Msg.id, mid |-> Msg.mid, ok |-> FALSE])
       ELSE UNCHANGED toClient
    /\ UNCHANGED <<status, table, maps, sleepQue, task, toBroker, client, published, history>>

(* handleSnSubscribe(): a name, normal or short; the topic is added now,   *)
(* before the broker has granted anything.                                 *)
SnSubscribe ==
    /\ Take("client", "SUBSCRIBE") /\ Msg.kind \in {"NORMAL", "SHORT"}
    /\ Add(Msg.name)
    /\ subMap' = Inserted(subMap, Msg.mid, topics'[Msg.name])
    /\ Forward([type |-> "SUBSCRIBE", mid |-> Msg.mid])
    /\ subscribed' = subscribed \cup {Msg.name}
    /\ UNCHANGED <<status, pubMap, sleepQue, task, toClient, client, published, untold>>

(* handleSnSubscribe(): a predefined id.  Only the time is, and it follows *)
(* the SUBACK at once.  A reserved type is refused.                        *)
SnSubscribeHere ==
    /\ Take("client", "SUBSCRIBE") /\ Msg.kind \in {"PREDEFINED", "RESV"}
    /\ LET ok == Msg.kind = "PREDEFINED" /\ Msg.id = Predefined
           time == [type |-> "PUBLISH", id |-> Predefined, mid |-> 0, kind |-> "PREDEFINED"]
       IN  toClient' = toClient
               \o <<[type |-> "SUBACK", id |-> Msg.id, mid |-> Msg.mid, ok |-> ok]>>
               \o (IF ok THEN <<time>> ELSE << >>)
    /\ UNCHANGED <<status, table, maps, sleepQue, task, toBroker, client, published, history>>

(* handleSnUnsubscribe(): only a short topic keeps its name, the others    *)
(* are looked up by an id that the message does not carry.                 *)
SnUnsubscribe ==
    /\ Take("client", "UNSUBSCRIBE") /\ Msg.kind # "RESV"
    /\ Forward([type |-> "UNSUBSCRIBE", mid |-> Msg.mid,
                name |-> IF Msg.kind = "SHORT" THEN Msg.name ELSE NoName])
    /\ UNCHANGED <<status, table, maps, sleepQue, task, toClient, client, published, history>>

SnUnsubscribeHere ==
    /\ Take("client", "UNSUBSCRIBE") /\ Msg.kind = "RESV"
    /\ Reply([type |-> "UNSUBACK", mid |-> Msg.mid])
    /\ UNCHANGED <<status, table, maps, sleepQue, task, toBroker, client, published, history>>

(* handleSnPubAck(), handleSnPubRec(), handleSnPubRel(), handleSnPubComp() *)
(* and handleSnPingReq(): translated and forwarded, whatever the state.    *)
SnPass(type) ==
    /\ Take("client", type)
    /\ Forward([type |-> type, mid |-> Msg.mid])
    /\ UNCHANGED <<status, table, maps, sleepQue, task, toClient, client, published, history>>

(* Fault: a clean session keeps the topics but numbers them anew. *)
SnConnectRenumber ==
    /\ Take("client", "CONNECT")
    /\ nextTopicId' = IF Msg.clean THEN 0 ELSE nextTopicId
    /\ topics' = topics
    /\ subscribed' = IF Msg.clean THEN {} ELSE subscribed
    /\ untold' = untold
    /\ pubMap' = Empty /\ subMap' = Empty
    /\ status' = IF status = "Disconnected" THEN "TryConnecting" ELSE status
    /\ Forward([type |-> "CONNECT", mid |-> 0])
    /\ UNCHANGED <<sleepQue, task, toClient, client, published>>

(* handleSnConnect() without will: only if isConnectSendable(); a clean    *)
(* session starts with new Topics.                                         *)
SnConnect ==
    /\ Take("client", "CONNECT")
    /\ IF status # "TryConnecting"
       THEN /\ nextTopicId' = IF Msg.clean THEN 0 ELSE nextTopicId
            /\ topics' = IF Msg.clean THEN Empty ELSE topics
            /\ subscribed' = IF Msg.clean THEN {} ELSE subscribed
            /\ untold' = IF Msg.clean THEN {} ELSE untold
            /\ pubMap' = Empty /\ subMap' = Empty
            /\ status' = IF status = "Disconnected" THEN "TryConnecting" ELSE status
            /\ Forward([type |-> "CONNECT", mid |-> 0])
       ELSE UNCHANGED <<table, subscribed, untold, maps, status, toBroker>>
    /\ UNCHANGED <<sleepQue, task, toClient, client, published>>

(* handleSnDisconnect() *)
SnDisconnect ==
    /\ Take("client", "DISCONNECT")
    /\ Reply([type |-> "DISCONNECT"])
    /\ Forward([type |-> "DISCONNECT", mid |-> 0])
    /\ UNCHANGED <<status, table, maps, sleepQue, task, client, published, history>>

(* handleSnRegister() *)
SnRegister ==
    /\ Take("client", "REGISTER")
    /\ Add(Msg.name)
    /\ Reply([type |-> "REGACK", id |-> topics'[Msg.name], mid |-> Msg.mid])
    /\ UNCHANGED <<status, maps, sleepQue, task, toBroker, client, published, history>>

-----------------------------------------------------------------------------
(* Downstream handlers. *)

(* handlePuback(): sent only if the id of the PUBLISH was kept. *)
Puback ==
    /\ Take("broker", "PUBACK")
    /\ LET id == Waited(pubMap, Msg.mid) IN
           IF id # 0
           THEN Reply([type |-> "PUBACK", id |-> id, mid |-> Msg.mid, ok |-> TRUE])
           ELSE UNCHANGED toClient
    /\ pubMap' = Erased(pubMap, Msg.mid)
    /\ UNCHANGED <<status, table, subMap, sleepQue, task, toBroker, client, published, history>>

(* handleSuback(): a granted QoS of 0x80 is a refusal. *)
Suback ==
    /\ Take("broker", "SUBACK")
    /\ LET id == Waited(subMap, Msg.mid) IN
           IF id # 0
           THEN Reply([type |-> "SUBACK", id |-> id, mid |-> Msg.mid, ok |-> Msg.ok])
           ELSE UNCHANGED toClient
    /\ subMap' = Erased(subMap, Msg.mid)
    /\ UNCHANGED <<status, table, pubMap, sleepQue, task, toBroker, client, published, history>>

(* handlePubRec(), handlePubRel(), handlePubComp(), handleUnsuback() and   *)
(* handlePingresp(): translated and sent.  BrokerRecvTask never delivers a *)
(* DISCONNECT, so handleDisconnect() is not reached.                       *)
Pass(type) ==
    /\ Take("broker", type)
    /\ Reply([type |-> type, mid |-> Msg.mid])
    /\ UNCHANGED <<status, table, maps, sleepQue, task, toBroker, client, published, history>>

(* handleConnack() and connackSended(): all CONNACKs accept here.  The     *)
(* messages saved are then sent, if there are any.                         *)
Connack ==
    /\ Take("broker", "CONNACK")
    /\ status' = IF status = "Connecting" THEN "Active" ELSE status
    /\ Reply([type |-> "CONNACK"])
    /\ at' = IF status' = "Active" /\ sleepQue # << >> THEN "flushing" ELSE "idle"
    /\ UNCHANGED <<table, maps, sleepQue, cur, toBroker, client, published, history>>

(* handleConnack(), the loop: getClientSleepMessage() does not remove what *)
(* it returns.                                                             *)
Flush ==
    /\ at = "flushing" /\ Len(toClient) < MaxQueue
    /\ Reply(Head(sleepQue))
    /\ UNCHANGED <<status, table, maps, sleepQue, gwQue, task, toBroker, client,
                   published, history>>

(* handlePublish(): the id of the topic.  For a topic of two characters it *)
(* is read from the bytes of the string object: any id.                    *)
PublishTopic ==
    /\ Take("broker", "PUBLISH")
    /\ \E id \in IF Msg.name \in Shorts THEN {0, Wrap - 1} ELSE {TopicId(Msg.name)} :
           IF id = 0
           THEN /\ Add(Msg.name)
                /\ at' = "register"
                /\ cur' = [name |-> Msg.name, id |-> topics'[Msg.name], mid |-> Msg.mid,
                           short |-> Msg.name \in Shorts]
           ELSE /\ UNCHANGED table
                /\ at' = "publish"
                /\ cur' = [name |-> Msg.name, id |-> id, mid |-> Msg.mid,
                           short |-> Msg.name \in Shorts]
    /\ UNCHANGED <<status, maps, sleepQue, toBroker, toClient, client, published, history>>

RegisterMsg == [type |-> "REGISTER", id |-> cur.id, name |-> cur.name]
PublishMsg == [type |-> "PUBLISH", id |-> cur.id, mid |-> cur.mid,
               kind |-> IF cur.short THEN "SHORT" ELSE "NORMAL"]

(* handlePublish(): isSleep(), and the REGISTER is saved. *)
RegisterAsleep ==
    /\ at = "register"
    /\ IF status = "Asleep"
       THEN at' = "publish" /\ sleepQue' = Append(sleepQue, RegisterMsg)
       ELSE at' = "register_active" /\ UNCHANGED sleepQue
    /\ UNCHANGED <<status, table, maps, gwQue, cur, toBroker, toClient, client,
                   published, history>>

(* Fault: the REGISTER for an Active client is forgotten. *)
RegisterActiveForgotten ==
    /\ at = "register_active" /\ at' = "publish"
    /\ untold' = IF status = "Active" THEN untold ELSE untold \cup {cur.id}
    /\ UNCHANGED <<status, table, maps, sleepQue, gwQue, cur, toBroker, toClient, client,
                   published, subscribed>>

(* handlePublish(): isActive(), and the REGISTER is sent.  A client that   *)
(* is neither, or has fallen asleep in between, gets none.                 *)
RegisterActive ==
    /\ at = "register_active" /\ at' = "publish"
    /\ IF status = "Active"
       THEN Reply(RegisterMsg) /\ UNCHANGED untold
       ELSE untold' = untold \cup {cur.id} /\ UNCHANGED toClient
    /\ UNCHANGED <<status, table, maps, sleepQue, gwQue, cur, toBroker, client,
                   published, subscribed>>

(* handlePublish(): isSleep(), and the PUBLISH is saved. *)
PublishAsleep ==
    /\ at = "publish"
    /\ IF status = "Asleep"
       THEN at' = "idle" /\ sleepQue' = Append(sleepQue, PublishMsg)
       ELSE at' = "publish_active" /\ UNCHANGED sleepQue
    /\ UNCHANGED <<status, table, maps, gwQue, cur, toBroker, toClient, client,
                   published, history>>

(* handlePublish(): isActive(), and the PUBLISH is sent. *)
PublishActive ==
    /\ at = "publish_active" /\ at' = "idle"
    /\ IF status = "Active" THEN Reply(PublishMsg) ELSE UNCHANGED toClient
    /\ UNCHANGED <<status, table, maps, sleepQue, gwQue, cur, toBroker, client,
                   published, history>>

GatewayControlTask ==
    \/ SnPublishForward \/ SnPublishReject \/ SnSubscribe \/ SnSubscribeHere
    \/ SnUnsubscribe \/ SnUnsubscribeHere \/ SnConnect \/ SnDisconnect \/ SnRegister
    \/ \E t \in {"PUBACK", "PUBREC", "PUBREL", "PUBCOMP", "PINGREQ"} : SnPass(t)
    \/ Puback \/ Suback \/ Connack \/ Flush \/ PublishTopic
    \/ RegisterAsleep \/ RegisterActive \/ PublishAsleep \/ PublishActive
    \/ \E t \in {"PUBREC", "PUBREL", "PUBCOMP", "UNSUBACK", "PINGRESP"} : Pass(t)

-----------------------------------------------------------------------------
(* The client.  It uses ids only while it has a session, and forgets them  *)
(* when a new one is accepted.                                             *)
Mid == sent + 1     \* a message id it has not used
Unchanged4Client == UNCHANGED <<table, maps, sleepQue, task, toBroker, toClient, published,
                                history>>

ClientConnect(clean) ==
    /\ used' = used \cup (IF linked = "connecting" THEN {"repeated"} ELSE {})
                     \cup (IF linked = "yes" THEN {"abrupt"} ELSE {})
                     \cup (IF clean THEN {} ELSE {"kept"})
    /\ ClientSends([type |-> "CONNECT", kind |-> "none", clean |-> clean])
    /\ linked' = "connecting" /\ unacked' = {} /\ asked' = Empty
    /\ UNCHANGED told /\ Unchanged4Client

ClientDisconnect(sleep) ==
    /\ linked = "yes"
    /\ ClientSends([type |-> "DISCONNECT", kind |-> "none", sleep |-> sleep])
    /\ linked' = IF sleep THEN "asleep" ELSE "no"
    /\ UNCHANGED <<told, unacked, asked, used>> /\ Unchanged4Client

ClientAsks(m) ==
    /\ linked = "yes"
    /\ ClientSends(m)
    /\ asked' = [k \in DOMAIN asked \cup {Mid} |-> IF k = Mid THEN m.name ELSE asked[k]]
    /\ UNCHANGED <<linked, told, unacked, used>> /\ Unchanged4Client

ClientRegister(name) ==
    ClientAsks([type |-> "REGISTER", kind |-> "none", name |-> name, mid |-> Mid])

ClientSubscribe(kind, name, id) ==
    ClientAsks([type |-> "SUBSCRIBE", kind |-> kind, name |-> name, id |-> id, mid |-> Mid])

ClientUnsubscribe(kind, name) ==
    ClientAsks([type |-> "UNSUBSCRIBE", kind |-> kind, name |-> name, mid |-> Mid])

ClientPublish(qos, kind, id, name) ==
    /\ linked = "yes"
    /\ qos # 0 => Cardinality(unacked) < MaxInflight
    /\ LET m == [type |-> "PUBLISH", kind |-> kind, id |-> id, qos |-> qos,
                 mid |-> IF qos = 0 THEN 0 ELSE Mid, meant |-> name]
       IN  ClientSends(m) /\ unacked' = IF qos = 0 THEN unacked ELSE unacked \cup {m}
    /\ used' = IF qos = 2 THEN used \cup {"qos2"} ELSE used
    /\ UNCHANGED <<linked, told, asked>> /\ Unchanged4Client

(* A time-out: the PUBLISH is sent again with DUP. *)
ClientRepeat ==
    /\ linked = "yes"
    /\ \E m \in unacked : ClientSends(m)
    /\ used' = used \cup {"dup"}
    /\ UNCHANGED <<linked, told, unacked, asked>> /\ Unchanged4Client

ClientPing ==
    /\ linked \in {"yes", "asleep"}
    /\ ClientSends([type |-> "PINGREQ", kind |-> "none", mid |-> 0])
    /\ UNCHANGED <<linked, told, unacked, asked, used>> /\ Unchanged4Client

(* The ids that a message tells, with the names they stand for. *)
Tells(m) ==
    IF m.type = "REGISTER" THEN {<<m.id, m.name>>}
    ELSE IF m.type = "REGACK" \/ (m.type = "SUBACK" /\ m.ok)
         THEN {<<m.id, asked[k]>> : k \in DOMAIN asked \cap {m.mid}}
    ELSE {}

Acknowledges(m) ==
    IF m.type \in {"PUBACK", "PUBCOMP"} THEN {u \in unacked : u.mid = m.mid} ELSE {}

(* The client takes a message; it answers PUBREC with PUBREL and a PUBLISH *)
(* with PUBACK or PUBREC.                                                  *)
ClientTakes ==
    /\ toClient # << >> /\ toClient' = Tail(toClient)
    /\ Len(gwQue) <= MaxQueue
    /\ LET m == Head(toClient) IN
       /\ linked' = IF m.type = "CONNACK" /\ linked = "connecting" THEN "yes" ELSE linked
       /\ told' = IF m.type = "CONNACK" THEN {} ELSE told \cup Tells(m)
       /\ unacked' = unacked \ Acknowledges(m)
       /\ LET reply == IF m.type = "PUBREC" THEN {"PUBREL"}
                       ELSE IF m.type = "PUBLISH" THEN {"PUBACK", "PUBREC"}
                       ELSE {"none"}
          IN  \E t \in reply :
                  IF t # "none" /\ linked = "yes"
                  THEN ClientAnswers([type |-> t, mid |-> m.mid])
                  ELSE UNCHANGED <<speaks, sent, status, gwQue>>
    /\ UNCHANGED <<table, maps, sleepQue, task, toBroker, asked, used, published, history>>

Client ==
    \/ \E b \in BOOLEAN : ClientConnect(b) \/ ClientDisconnect(b)
    \/ \E n \in Names : ClientRegister(n)
    \/ \E n \in Names \ Shorts : ClientSubscribe("NORMAL", n, 0) \/ ClientUnsubscribe("NORMAL", n)
    \/ \E n \in Shorts : ClientSubscribe("SHORT", n, 0) \/ ClientUnsubscribe("SHORT", n)
    \/ \E id \in {Predefined, 0} : ClientSubscribe("PREDEFINED", NoName, id)
    \/ ClientSubscribe("RESV", NoName, 0) \/ ClientUnsubscribe("RESV", NoName)
    \/ \E q \in 0..2, t \in told : ClientPublish(q, "NORMAL", t[1], t[2])
    \/ \E q \in {0, 1}, n \in Shorts : ClientPublish(q, "SHORT", 0, n)
    \/ ClientRepeat \/ ClientPing

-----------------------------------------------------------------------------
(* The broker, and BrokerSendTask on the way to it, which calls            *)
(* connectSended() for a CONNECT and drops PUBREC and PUBCOMP.             *)
BrokerReply(m, ok) ==
    IF m.type = "CONNECT" THEN {[type |-> "CONNACK", mid |-> 0]}
    ELSE IF m.type = "SUBSCRIBE" THEN {[type |-> "SUBACK", mid |-> m.mid, ok |-> ok]}
    ELSE IF m.type = "UNSUBSCRIBE" THEN {[type |-> "UNSUBACK", mid |-> m.mid]}
    ELSE IF m.type = "PINGREQ" THEN {[type |-> "PINGRESP", mid |-> 0]}
    ELSE IF m.type = "PUBLISH" /\ m.qos = 1 THEN {[type |-> "PUBACK", mid |-> m.mid]}
    ELSE IF m.type = "PUBLISH" /\ m.qos = 2 THEN {[type |-> "PUBREC", mid |-> m.mid]}
    ELSE IF m.type = "PUBREL" THEN {[type |-> "PUBCOMP", mid |-> m.mid]}
    ELSE {}

BrokerTakes(ok) ==
    /\ toBroker # << >> /\ toBroker' = Tail(toBroker)
    /\ LET reply == BrokerReply(Head(toBroker), ok) IN
           IF reply = {} THEN UNCHANGED gwQue ELSE \E m \in reply : BrokerPosts(m)
    /\ status' = IF Head(toBroker).type = "CONNECT" /\ status = "TryConnecting"
                 THEN "Connecting" ELSE status
    /\ UNCHANGED <<table, maps, sleepQue, task, toClient, client, published, history>>

BrokerPublish(name) ==
    /\ published < MaxPublish /\ published' = published + 1
    /\ subscribed # {} /\ Len(gwQue) < MaxQueue
    /\ BrokerPosts([type |-> "PUBLISH", name |-> name, mid |-> published + 1])
    /\ UNCHANGED <<status, table, maps, sleepQue, task, toBroker, toClient, client, history>>

Broker ==
    \/ \E ok \in BOOLEAN : BrokerTakes(ok)
    \/ \E n \in Names : BrokerPublish(n)

Next == GatewayControlTask \/ Client \/ ClientTakes \/ Broker

Spec == Init /\ [][Next]_vars

(* Threads and links go on; the client and the broker may send nothing new. *)
Fairness ==
    /\ WF_vars(GatewayControlTask)
    /\ WF_vars(\E ok \in BOOLEAN : BrokerTakes(ok))
    /\ WF_vars(ClientTakes)

FairSpec == Spec /\ Fairness

-----------------------------------------------------------------------------
(* QoS 2; a PUBLISH repeated; a CONNECT repeated before its CONNACK, sent  *)
(* during a session, or without the clean session flag.                    *)
Habit == {"qos2", "dup", "repeated", "abrupt", "kept"}

Kind == {"NORMAL", "PREDEFINED", "SHORT", "RESV"}

(* Type invariant. *)
TypeOK ==
    /\ status \in {"Disconnected", "TryConnecting", "Connecting", "Active", "Asleep", "Awake"}
    /\ DOMAIN topics \subseteq Names /\ Range(topics) \subseteq Id /\ nextTopicId \in Id
    /\ Range(pubMap) \cup Range(subMap) \subseteq Id
    /\ \A m \in Range(sleepQue) : m.type \in {"REGISTER", "PUBLISH"} /\ m.id \in Id
    /\ at \in {"idle", "flushing", "register", "register_active", "publish", "publish_active"}
    /\ linked \in {"no", "connecting", "yes", "asleep"}
    /\ used \subseteq Habit

(* Topics: two topics of a client never have the same id, and no topic has *)
(* a predefined one, although ids are assigned from a counter of 16 bits.  *)
IdsDistinct ==
    \A n \in DOMAIN topics :
        /\ topics[n] >= Normal
        /\ \A o \in DOMAIN topics : topics[n] = topics[o] => n = o

(* A PUBLISH reaches the broker with the name that the client meant by its *)
(* id, across registrations, subscriptions and new sessions, clean or not: *)
(* ids are only ever changed together with the client's knowledge of them. *)
(* A client that repeats its CONNECT may be answered twice and use an id   *)
(* of the Topics that the second CONNECT then replaces.                    *)
NeverMisrouted ==
    "repeated" \notin used =>
        \A m \in Range(toBroker) : m.type = "PUBLISH" => m.name = m.meant

(* A client can make something of each PUBLISH it is sent: the id has been *)
(* told by a REGISTER, REGACK or SUBACK sent before it, unless the topic is *)
(* one the client has asked to subscribe to (the SUBACK may come later) or *)
(* the REGISTER was due while the client was neither awake nor sleeping.   *)
ToldBefore(i) ==
    {t[1] : t \in told} \cup {toClient[k].id : k \in {j \in 1..(i - 1) :
        toClient[j].type \in {"REGISTER", "REGACK", "SUBACK"}}}

RegisteredFirst ==
    \A i \in DOMAIN toClient :
        /\ toClient[i].type = "PUBLISH" /\ toClient[i].kind = "NORMAL"
        /\ linked = "yes" /\ at # "flushing" /\ used \cap {"repeated", "abrupt", "kept"} = {}
        => \/ toClient[i].id \in ToldBefore(i) \cup untold
           \/ \E n \in subscribed \cap DOMAIN topics : topics[n] = toClient[i].id

(* The topic id that a PUBACK needs is there when the broker's PUBACK      *)
(* comes: TopicIdMap gives up entries when it is full, and never erases    *)
(* those of QoS 2, but a client that publishes with QoS 1 only, repeats    *)
(* nothing and keeps to the limit loses none.                              *)
Awaited(u) ==
    \/ \E m \in Range(toBroker) : m.type = "PUBLISH" /\ m.mid = u.mid
    \/ \E e \in Range(gwQue) : e.from = "broker" /\ e.msg.type = "PUBACK" /\ e.msg.mid = u.mid

IdKept ==
    used \cap {"qos2", "dup", "repeated"} = {} /\ linked = "yes" =>
        \A u \in unacked : Awaited(u) => Waited(pubMap, u.mid) = u.id

(* Each PUBLISH with QoS 1 is answered, accepted or rejected, if its       *)
(* client does not repeat itself and the control task is not caught in the *)
(* loop that sends saved messages: again and again none is unanswered.     *)
PublishAnswered == []<>(unacked = {} \/ used # {} \/ at = "flushing")
=============================================================================
