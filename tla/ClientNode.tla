----------------------------- MODULE ClientNode -----------------------------
(***************************************************************************)
(* The MQTT-SN client: GwProxy with its dialogues of connection,           *)
(* disconnection and keep-alive, and the managers of publications,         *)
(* registrations and subscriptions that call it.  The client is one        *)
(* thread: TaskManager::run() alternates between getMessage(), which       *)
(* handles one message or looks at the timers, and the tasks of the        *)
(* application.  connect() and disconnect() are loops inside that thread,  *)
(* so whoever calls them goes on only when they return: "job" is what is   *)
(* left to do then.                                                        *)
(*                                                                         *)
(* Around the client are a network that loses messages and a gateway with  *)
(* its broker that answers each message in one step, accepts every         *)
(* CONNECT, and may be restarted.                                          *)
(***************************************************************************)
EXTENDS Integers, Sequences, FiniteSets, SequencesExt

CONSTANTS
    Names,          \* topic names, of three characters or more
    Subs,           \* theOnPublishList: what onConnect() subscribes, a sequence
    Configs,        \* [search, clean, will, bit, names, qos, publish, faults,
                    \* others]: see config
    Retry,          \* MQTTSN_RETRY_COUNT
    MaxFlight       \* MAX_INFLIGHT_MSG / 2

(* What a run fixes at its beginning: BROADCAST_ENABLE, _cleanSession, a    *)
(* will, whether the first character of the will message has the bit of    *)
(* CLEAN, the topics and qualities of service in use, and the bounds:      *)
(* publications; messages lost and timeouts while an answer is under way;  *)
(* restarts of the gateway, PINGREQs and disconnections.                   *)
Config == [search : BOOLEAN, clean : BOOLEAN, will : BOOLEAN, bit : BOOLEAN,
           names : SUBSET Names, qos : SUBSET (0..2), publish : Nat, faults : Nat, others : Nat]

ASSUME RetryPositive == Retry \in Nat \ {0}
ASSUME FlightNat == MaxFlight \in Nat
ASSUME SubsSequence == Subs \in Seq(Range(Subs))
ASSUME ConfigsTyped == \A c \in Configs : c \in Config

VARIABLES
    config,     \* a member of Configs
    status,     \* GwProxy::_status
    retry,      \* GwProxy::_retryCount
    buf,        \* GwProxy::_msg: its type, and the bit of CLEAN in its byte 2
    ping,       \* _pingRetryCount while _pingStatus is GW_WAIT_PINGRESP, or -1
    nextMsgId,  \* _nextMsgId
    topicTbl,   \* TopicTable: <<name, id>>
    pubs, regs, subs,   \* the lists of the three managers
    job,        \* what the caller of connect() or disconnect() does next
    tasks,      \* the tasks of the application are being run
    corrupt,    \* remove() went through a pointer to freed memory
    toGw, toClient,     \* the network
    gw,         \* the gateway: its state, Topics, and the broker's session
    published, lost, early, others,   \* counters, bounded
    got,        \* history: how often each publication came to the gateway
    done,       \* history: publications of QoS 1 and 2 that ended
    seen        \* history: what happened that a property allows for, see Incidents

proxy == <<status, retry, buf, ping>>
lists == <<pubs, regs, subs>>
client == <<config, proxy, nextMsgId, topicTbl, lists, job, tasks, corrupt>>
net == <<toGw, toClient>>
env == <<gw, published, lost, early, others>>
history == <<got, done, seen>>
vars == <<client, net, env, history>>

NoJob == [do |-> "nothing", id |-> 0]
Incidents == {"renewed", "repeated", "resent", "gaveUp", "shared", "stale", "misrouted"}

Init ==
    /\ config \in Configs
    /\ status = "LOST" /\ retry = 0 /\ ping = -1
    /\ buf = [type |-> "none", clean |-> FALSE]
    /\ nextMsgId = 0
    /\ topicTbl = << >>
    /\ pubs = << >> /\ regs = << >> /\ subs = << >>
    /\ job = NoJob /\ tasks = FALSE /\ corrupt = FALSE
    /\ toGw = << >> /\ toClient = << >>
    /\ gw = [state |-> "new", names |-> << >>, held |-> {}]
    /\ published = 0 /\ lost = 0 /\ early = 0 /\ others = 0
    /\ got = << >> /\ done = {} /\ seen = {}

-----------------------------------------------------------------------------
(* Data.                                                                   *)

(* Fault: strcmp() is not compared with 0. *)
TopicIdOther(name) ==
    LET is == {i \in DOMAIN topicTbl : topicTbl[i][1] # name}
    IN  IF is = {} THEN 0 ELSE topicTbl[CHOOSE i \in is : TRUE][2]

(* TopicTable::getTopicId(): 0 if the name is not there. *)
TopicId(name) ==
    LET is == {i \in DOMAIN topicTbl : topicTbl[i][1] = name}
    IN  IF is = {} THEN 0 ELSE topicTbl[CHOOSE i \in is : TRUE][2]

(* TopicTable::setTopicId(): the topic's id, in a new topic if need be. *)
WithTopicId(name, id) ==
    IF \E i \in DOMAIN topicTbl : topicTbl[i][1] = name
    THEN [i \in DOMAIN topicTbl |->
            IF topicTbl[i][1] = name THEN <<name, id>> ELSE topicTbl[i]]
    ELSE Append(topicTbl, <<name, id>>)

(* TopicTable::add(): a topic that is there keeps its id. *)
WithTopic(name, id) ==
    IF \E i \in DOMAIN topicTbl : topicTbl[i][1] = name THEN topicTbl
    ELSE Append(topicTbl, <<name, id>>)

(* The lists: add() at the tail, with a pointer to the element before. *)
LastId(list) == IF list = << >> THEN 0 ELSE list[Len(list)].id
Added(list, elm) == Append(list, [elm EXCEPT !.prev = LastId(list)])

Ids(list) == {list[i].id : i \in DOMAIN list}
At(list, id) == CHOOSE i \in DOMAIN list : list[i].id = id
Named(list, name) == {i \in DOMAIN list : list[i].name = name}

(* remove(): only the removal of the first element mends the pointer that  *)
(* the next one has to it.                                                 *)
Removed(list, id) ==
    LET i == At(list, id)
        rest == RemoveAt(list, i)
    IN  IF i = 1 /\ rest # << >> THEN [rest EXCEPT ![1].prev = 0] ELSE rest

(* remove() of an element whose pointer leads to one that was freed. *)
Dangles(list, id) ==
    LET p == list[At(list, id)].prev IN p # 0 /\ p \notin Ids(list)

(* getNextMsgId(); the model stays below 2^16. *)
MsgId == nextMsgId + 1

Faulty == lost + early < config.faults

(* Messages that are sent; the network may lose it.                         *)
Sent(m) ==
    \/ toGw' = Append(toGw, m) /\ UNCHANGED lost
    \/ Faulty /\ lost' = lost + 1 /\ UNCHANGED toGw

Answered(m) ==
    \/ toClient' = Append(toClient, m) /\ UNCHANGED lost
    \/ Faulty /\ lost' = lost + 1 /\ UNCHANGED toClient

(* MQTTSN_TIME_RETRY is over: nothing is under way, or it is very late. *)
Expired ==
    \/ toGw = << >> /\ toClient = << >> /\ UNCHANGED early
    \/ Faulty /\ early' = early + 1

(* What "seen" may gain in a step. *)
Incident(cond, what) == IF cond THEN {what} ELSE {}
Sees(cond, what) == seen' = seen \cup Incident(cond, what)

(* The dialogue that connects a client. *)
InDialogue(m) ==
    m.type \in {"CONNECT", "WILLTOPICREQ", "WILLTOPIC", "WILLMSGREQ", "WILLMSG", "CONNACK"}

-----------------------------------------------------------------------------
(* connect(): a pass of its loop sends what the status asks for and reads. *)
Connecting == job.do \in {"publish", "register", "reconnect"} /\ status # "CONNECTED"

(* writeGwMsg() of the message that was composed in _msg. *)
WriteGwMsg(type, clean) ==
    /\ buf' = [type |-> type, clean |-> clean]
    /\ retry' = Retry
    /\ Sent([type |-> type, clean |-> clean, will |-> config.will])

Unchanged4Connect ==
    UNCHANGED <<config, ping, nextMsgId, topicTbl, lists, job, tasks, corrupt,
                toClient, gw, published, early, others, history>>

ConnectSearch ==
    /\ Connecting /\ status = "LOST"
    /\ IF config.search
       THEN WriteGwMsg("SEARCHGW", FALSE) /\ status' = "SEARCHING"
       ELSE /\ status' = "CONNECTING"
            /\ UNCHANGED <<buf, retry, toGw, lost>>
    /\ Unchanged4Connect

(* CONNECT: byte 2 is written only to set its flags. *)
ConnectConnect ==
    /\ Connecting /\ status \in {"CONNECTING", "DISCONNECTED"}
    /\ WriteGwMsg("CONNECT", config.clean \/ buf.clean)
    /\ status' = IF config.will THEN "WAIT_WILLTOPICREQ" ELSE "WAIT_CONNACK"
    /\ Unchanged4Connect

ConnectWill ==
    /\ Connecting
    /\ \/ status = "SEND_WILLTOPIC" /\ status' = "WAIT_WILLMSGREQ"
          /\ WriteGwMsg("WILLTOPIC", FALSE)
       \/ status = "SEND_WILLMSG" /\ status' = "WAIT_CONNACK"
          /\ WriteGwMsg("WILLMSG", config.bit)
    /\ Unchanged4Connect

Waiting ==
    Connecting /\ status \in {"SEARCHING", "WAIT_WILLTOPICREQ", "WAIT_WILLMSGREQ", "WAIT_CONNACK"}

(* getConnectResponce() without a message: _msg again, or the beginning.   *)
ConnectTimeout ==
    /\ Waiting
    /\ Expired
    /\ retry' = retry - 1
    /\ IF retry - 1 > 0
       THEN Sent([type |-> buf.type, clean |-> buf.clean, will |-> config.will]) /\ UNCHANGED status
       ELSE /\ status' = IF status = "SEARCHING" THEN "LOST" ELSE "CONNECTING"
            /\ UNCHANGED <<toGw, lost>>
    /\ UNCHANGED <<config, buf, ping, nextMsgId, topicTbl, lists, job, tasks, corrupt,
                   toClient, gw, published, others, history>>

(* onConnect(): every topic of theOnPublishList is subscribed; the         *)
(* SUBSCRIBEs of the model are lost together or not at all.                *)
Subscription(k) ==
    [id |-> nextMsgId + k, name |-> Subs[k], kind |-> "SUBSCRIBE", retry |-> Retry - 1,
     prev |-> IF k = 1 THEN LastId(subs) ELSE nextMsgId + k - 1]
Subscribe(n, name) == [type |-> "SUBSCRIBE", id |-> n, name |-> name]

OnConnect ==
    /\ subs' = subs \o [k \in DOMAIN Subs |-> Subscription(k)]
    /\ nextMsgId' = nextMsgId + Len(Subs)
    /\ \/ toGw' = toGw \o [k \in DOMAIN Subs |-> Subscribe(nextMsgId + k, Subs[k])] /\ UNCHANGED lost
       \/ Subs # << >> /\ Faulty /\ lost' = lost + 1 /\ UNCHANGED toGw

(* getConnectResponce(): CONNACK. *)
Connack ==
    /\ Waiting /\ toClient # << >>
    /\ status = "WAIT_CONNACK" /\ Head(toClient).type = "CONNACK"
    /\ toClient' = Tail(toClient)
    /\ status' = "CONNECTED"
    /\ topicTbl' = << >>
    /\ OnConnect
    /\ seen' = seen \cup Incident(\E i \in DOMAIN pubs : pubs[i].tid # 0, "renewed")
                    \cup Incident(\E m \in Range(toGw) \cup Range(toClient') : InDialogue(m), "repeated")
    /\ UNCHANGED <<config, retry, buf, ping, pubs, regs, job, tasks, corrupt,
                   gw, published, early, others, got, done>>

(* getConnectResponce(): any other message; what is not expected is lost.  *)
ConnectAnswer ==
    /\ Waiting /\ toClient # << >>
    /\ ~(status = "WAIT_CONNACK" /\ Head(toClient).type = "CONNACK")
    /\ toClient' = Tail(toClient)
    /\ LET type == Head(toClient).type IN
       status' =
        IF status = "SEARCHING" /\ type = "GWINFO" THEN "CONNECTING"
        ELSE IF status = "WAIT_WILLTOPICREQ" /\ type = "WILLTOPICREQ" THEN "SEND_WILLTOPIC"
        ELSE IF status = "WAIT_WILLMSGREQ" /\ type = "WILLMSGREQ" THEN "SEND_WILLMSG"
        ELSE status
    /\ UNCHANGED <<config, retry, buf, ping, nextMsgId, topicTbl, lists, job, tasks, corrupt,
                   toGw, env, history>>

Connect ==
    \/ ConnectSearch \/ ConnectConnect \/ ConnectWill
    \/ ConnectTimeout \/ Connack \/ ConnectAnswer

-----------------------------------------------------------------------------
(* What follows connect(): the rest of sendPublish(), send() of a          *)
(* registration and checkTimeout() after reconnect().                      *)
Connected == status = "CONNECTED"
Unchanged4Job ==
    UNCHANGED <<config, proxy, nextMsgId, topicTbl, subs, tasks, toClient,
                gw, published, early, others, got>>

Publish(elm) ==
    [type |-> "PUBLISH", id |-> elm.id, tid |-> elm.tid, name |-> elm.name, qos |-> elm.qos]

(* remove() of a publication from its list. *)
PubDone(id) ==
    IF Dangles(pubs, id)
    THEN corrupt' = TRUE /\ UNCHANGED pubs
    ELSE pubs' = Removed(pubs, id) /\ UNCHANGED corrupt

SendPublish ==
    /\ Connected /\ job.do = "publish"
    /\ job' = NoJob
    /\ LET i == At(pubs, job.id)
           elm == pubs[i]
       IN  /\ Sent(Publish(elm))
           /\ IF elm.qos = 0 THEN PubDone(elm.id)
              ELSE /\ pubs' = [pubs EXCEPT
                        ![i].st = IF elm.qos = 1 THEN "WAIT_PUBACK" ELSE "WAIT_PUBREC",
                        ![i].timer = "on", ![i].retry = @ - 1]
                   /\ UNCHANGED corrupt
           /\ Sees(elm.st = "WAIT_PUBCOMP", "resent")
    /\ UNCHANGED <<regs, done>>
    /\ Unchanged4Job

SendRegister ==
    /\ Connected /\ job.do = "register"
    /\ job' = NoJob
    /\ LET i == At(regs, job.id) IN
       /\ Sent([type |-> "REGISTER", id |-> regs[i].id, name |-> regs[i].name])
       /\ regs' = [regs EXCEPT ![i].retry = @ - 1]
    /\ UNCHANGED <<pubs, corrupt, done, seen>>
    /\ Unchanged4Job

Reconnected ==
    /\ Connected /\ job.do = "reconnect"
    /\ job' = NoJob
    /\ pubs' = [pubs EXCEPT ![At(pubs, job.id)].retry = Retry]
    /\ UNCHANGED <<regs, corrupt, toGw, lost, done, seen>>
    /\ Unchanged4Job

Resume == SendPublish \/ SendRegister \/ Reconnected

-----------------------------------------------------------------------------
(* disconnect(): it loops until the status is GW_DISCONNECTED or GW_SLEPT. *)
Disconnecting == job.do = "disconnect"

(* getDisconnectResponce() with a message. *)
DisconnectAnswer ==
    /\ Disconnecting /\ toClient # << >>
    /\ toClient' = Tail(toClient)
    /\ IF Head(toClient).type # "DISCONNECT" THEN UNCHANGED <<status, job>>
       ELSE IF job.id = 0 THEN status' = "DISCONNECTED" /\ job' = NoJob
       ELSE status' = "SLEEPING" /\ UNCHANGED job
    /\ UNCHANGED <<config, retry, buf, ping, nextMsgId, topicTbl, lists, tasks, corrupt,
                   toGw, env, history>>

(* Fault: DISCONNECT is sent again for ever. *)
DisconnectTimeoutForever ==
    /\ Disconnecting
    /\ Expired
    /\ Sent([type |-> "DISCONNECT"])
    /\ UNCHANGED <<status, job, retry>>
    /\ UNCHANGED <<config, buf, ping, nextMsgId, topicTbl, lists, tasks, corrupt,
                   toClient, gw, published, others, history>>

(* getDisconnectResponce() without one. *)
DisconnectTimeout ==
    /\ Disconnecting
    /\ Expired
    /\ retry' = retry - 1
    /\ IF retry - 1 >= 0
       THEN Sent([type |-> "DISCONNECT"]) /\ UNCHANGED <<status, job>>
       ELSE status' = "LOST" /\ job' = NoJob /\ UNCHANGED <<toGw, lost>>
    /\ UNCHANGED <<config, buf, ping, nextMsgId, topicTbl, lists, tasks, corrupt,
                   toClient, gw, published, others, history>>

-----------------------------------------------------------------------------
(* The tasks of the application.                                           *)
(* TaskManager::run(): the tasks are run once no registration and no       *)
(* subscription waits and few publications do.  getMessage() is called     *)
(* once more before them, so what it brings does not hold them back.  A    *)
(* task that calls nothing leaves no trace.                                *)
Ready == regs = << >> /\ subs = << >> /\ Len(pubs) <= MaxFlight
MayCall == job = NoJob /\ ~corrupt /\ (tasks \/ Ready)
AfterPoll == IF Ready THEN BOOLEAN ELSE {FALSE}

LeaveTasks ==
    /\ tasks /\ job = NoJob
    /\ tasks' = FALSE
    /\ UNCHANGED <<config, proxy, nextMsgId, topicTbl, lists, job, corrupt, net, env, history>>

(* GwProxy::registerTopic() and RegisterManager::registerTopic() with the  *)
(* next message id n: send() is what follows connect().                    *)
RegisterTopic(name, n) ==
    IF TopicId(name) = 0 /\ Named(regs, name) = {}
    THEN /\ nextMsgId' = n
         /\ regs' = Added(regs, [id |-> n, name |-> name, retry |-> Retry, prev |-> 0])
         /\ job' = [do |-> "register", id |-> n]
    ELSE /\ nextMsgId' = n - 1
         /\ UNCHANGED <<regs, job>>

(* publish() *)
AppPublish(name, qos) ==
    /\ MayCall /\ published < config.publish
    /\ published' = published + 1
    /\ tasks' = TRUE
    /\ LET tid == TopicId(name) IN
       /\ pubs' = Added(pubs, [id |-> MsgId, name |-> name, qos |-> qos, tid |-> tid,
                               st |-> IF tid # 0 THEN "READY" ELSE "SUSPEND",
                               retry |-> Retry, timer |-> "off", prev |-> 0])
       /\ IF tid # 0
          THEN /\ job' = [do |-> "publish", id |-> MsgId]
               /\ nextMsgId' = MsgId
               /\ UNCHANGED regs
          ELSE RegisterTopic(name, MsgId + 1)
       /\ Sees(\E i \in Named(pubs, name) : pubs[i].st = "SUSPEND", "shared")
    /\ UNCHANGED <<config, proxy, topicTbl, subs, corrupt, net,
                   gw, lost, early, others, got, done>>

(* disconnect() as the application calls it, with or without a time to sleep. *)
Disconnect(secs) ==
    /\ MayCall /\ others < config.others
    /\ tasks' = TRUE
    /\ others' = others + 1
    /\ status' = "DISCONNECTING"
    /\ buf' = [type |-> "DISCONNECT", clean |-> IF secs = 0 THEN buf.clean ELSE FALSE]
    /\ retry' = Retry
    /\ job' = [do |-> "disconnect", id |-> secs]
    /\ Sent([type |-> "DISCONNECT"])
    /\ UNCHANGED <<config, ping, nextMsgId, topicTbl, lists, corrupt, toClient,
                   gw, published, early, history>>

-----------------------------------------------------------------------------
(* getMessage() with a message, between the tasks.                         *)
Polling == ~tasks /\ job = NoJob /\ ~corrupt /\ tasks' \in AfterPoll

Takes(types) ==
    /\ Polling /\ toClient # << >>
    /\ Head(toClient).type \in types
    /\ toClient' = Tail(toClient)
Msg == Head(toClient)

Unchanged4Takes ==
    UNCHANGED <<config, retry, buf, gw, published, early, others, got>>

(* Fault: a rejected publication is done. *)
PubackAnyCode ==
    /\ Takes({"PUBACK"})
    /\ Msg.id \in Ids(pubs)
    /\ pubs[At(pubs, Msg.id)].st = "WAIT_PUBACK"
    /\ PubDone(Msg.id)
    /\ done' = done \cup {Msg.id}
    /\ UNCHANGED <<nextMsgId, regs, job, topicTbl, subs, status, ping, toGw, lost, seen>>
    /\ Unchanged4Takes

(* responce(): PUBACK. *)
Puback ==
    /\ Takes({"PUBACK"})
    /\ IF Msg.id \notin Ids(pubs)
       THEN UNCHANGED <<pubs, corrupt, done, nextMsgId, regs, job, seen>>
       ELSE LET i == At(pubs, Msg.id) IN
            IF Msg.ok
            THEN /\ IF pubs[i].st = "WAIT_PUBACK"
                    THEN PubDone(Msg.id) /\ done' = done \cup {Msg.id}
                    ELSE UNCHANGED <<pubs, corrupt, done>>
                 /\ UNCHANGED <<nextMsgId, regs, job, seen>>
            ELSE /\ pubs' = [pubs EXCEPT ![i].st = "SUSPEND", ![i].tid = 0,
                                         ![i].retry = Retry, ![i].timer = "off"]
                 /\ RegisterTopic(pubs[i].name, MsgId)
                 /\ seen' = seen
                      \cup Incident(\E k \in Named(pubs, pubs[i].name) : pubs[k].st = "SUSPEND", "shared")
                      \cup Incident(TopicId(pubs[i].name) # 0, "stale")
                 /\ UNCHANGED <<corrupt, done>>
    /\ UNCHANGED <<topicTbl, subs, status, ping, toGw, lost>>
    /\ Unchanged4Takes

(* Fault: the publication waits for a PUBREC still. *)
PubrecKept ==
    /\ Takes({"PUBREC"})
    /\ IF \E i \in DOMAIN pubs : pubs[i].id = Msg.id /\ pubs[i].st = "WAIT_PUBREC"
       THEN Sent([type |-> "PUBREL", id |-> Msg.id])
       ELSE UNCHANGED <<toGw, lost>>
    /\ UNCHANGED <<pubs, nextMsgId, topicTbl, regs, subs, job, corrupt, status, ping, done, seen>>
    /\ Unchanged4Takes

(* responce(): PUBREC. *)
Pubrec ==
    /\ Takes({"PUBREC"})
    /\ LET here == {i \in DOMAIN pubs : pubs[i].id = Msg.id
                                        /\ pubs[i].st \in {"WAIT_PUBREC", "WAIT_PUBCOMP"}}
       IN  IF here = {} THEN UNCHANGED <<pubs, toGw, lost>>
           ELSE \E i \in here :
                /\ Sent([type |-> "PUBREL", id |-> Msg.id])
                /\ pubs' = [pubs EXCEPT ![i].st = "WAIT_PUBCOMP", ![i].timer = "on"]
    /\ UNCHANGED <<nextMsgId, topicTbl, regs, subs, job, corrupt, status, ping, done, seen>>
    /\ Unchanged4Takes

(* responce(): PUBCOMP. *)
Pubcomp ==
    /\ Takes({"PUBCOMP"})
    /\ IF \E i \in DOMAIN pubs : pubs[i].id = Msg.id /\ pubs[i].st = "WAIT_PUBCOMP"
       THEN PubDone(Msg.id) /\ done' = done \cup {Msg.id}
       ELSE UNCHANGED <<pubs, corrupt, done>>
    /\ UNCHANGED <<nextMsgId, topicTbl, regs, subs, job, status, ping, toGw, lost, seen>>
    /\ Unchanged4Takes

(* Fault: sendSuspend() is not called. *)
RegackNotSent ==
    /\ Takes({"REGACK"})
    /\ Msg.id \in Ids(regs) /\ ~Dangles(regs, Msg.id)
    /\ topicTbl' = WithTopicId(regs[At(regs, Msg.id)].name, Msg.tid)
    /\ regs' = Removed(regs, Msg.id)
    /\ UNCHANGED <<corrupt, pubs, job, nextMsgId, subs, status, ping, toGw, lost, done, seen>>
    /\ Unchanged4Takes

(* responceRegAck(): the topic's id, and sendSuspend() of the first        *)
(* publication that waits for the topic.                                   *)
Regack ==
    /\ Takes({"REGACK"})
    /\ IF Msg.id \notin Ids(regs)
       THEN UNCHANGED <<topicTbl, regs, corrupt, pubs, job>>
       ELSE LET name == regs[At(regs, Msg.id)].name
                waits == {i \in Named(pubs, name) : pubs[i].st = "SUSPEND"}
            IN  /\ topicTbl' = WithTopicId(name, Msg.tid)
                /\ IF Dangles(regs, Msg.id)
                   THEN corrupt' = TRUE /\ UNCHANGED regs
                   ELSE regs' = Removed(regs, Msg.id) /\ UNCHANGED corrupt
                /\ IF waits = {} THEN UNCHANGED <<pubs, job>>
                   ELSE LET i == CHOOSE j \in waits : \A k \in waits : j <= k IN
                        /\ pubs' = [pubs EXCEPT ![i].tid = Msg.tid, ![i].st = "READY"]
                        /\ job' = [do |-> "publish", id |-> pubs[i].id]
    /\ UNCHANGED <<nextMsgId, subs, status, ping, toGw, lost, done, seen>>
    /\ Unchanged4Takes

(* SubscribeManager::responce(): SUBACK. *)
Suback ==
    /\ Takes({"SUBACK"})
    /\ IF Msg.id \notin Ids(subs) THEN UNCHANGED <<topicTbl, subs, corrupt>>
       ELSE /\ topicTbl' = WithTopic(subs[At(subs, Msg.id)].name, Msg.tid)
            /\ IF Dangles(subs, Msg.id)
               THEN corrupt' = TRUE /\ UNCHANGED subs
               ELSE subs' = Removed(subs, Msg.id) /\ UNCHANGED corrupt
    /\ UNCHANGED <<nextMsgId, pubs, regs, job, status, ping, toGw, lost, done, seen>>
    /\ Unchanged4Takes

(* PINGRESP; DISCONNECT, which leaves _pingStatus as it is; and what       *)
(* belongs to a connection that is over.                                   *)
TakeOther ==
    /\ Takes({"PINGRESP", "DISCONNECT", "GWINFO", "WILLTOPICREQ", "WILLMSGREQ", "CONNACK"})
    /\ ping' = IF Msg.type = "PINGRESP" THEN -1 ELSE ping
    /\ status' = IF Msg.type = "DISCONNECT" THEN "LOST" ELSE status
    /\ UNCHANGED <<nextMsgId, topicTbl, lists, job, corrupt, toGw, lost, done, seen>>
    /\ Unchanged4Takes

Receive == Puback \/ Pubrec \/ Pubcomp \/ Regack \/ Suback \/ TakeOther

-----------------------------------------------------------------------------
(* getMessage() without a message: the timers.                             *)
Unchanged4Timer == UNCHANGED <<config, topicTbl, toClient, gw, published, got, done>>

(* checkPingReq(): the keep-alive timer is up. *)
PingRequired ==
    /\ Polling /\ Connected /\ ping = -1 /\ others < config.others
    /\ others' = others + 1
    /\ ping' = Retry
    /\ Sent([type |-> "PINGREQ"])
    /\ UNCHANGED <<status, retry, buf, nextMsgId, lists, job, corrupt, early, seen>>
    /\ Unchanged4Timer

(* checkPingReq(): no PINGRESP came; _msg, the last message of the         *)
(* connection, is sent again.                                              *)
PingExpired ==
    /\ Polling /\ ping # -1
    /\ Expired
    /\ IF ping - 1 > 0
       THEN /\ Sent([type |-> buf.type, clean |-> buf.clean, will |-> config.will])
            /\ ping' = ping - 1
            /\ UNCHANGED status
       ELSE /\ status' = "LOST" /\ ping' = -1
            /\ UNCHANGED <<toGw, lost>>
    /\ Sees(ping - 1 > 0 /\ InDialogue(buf), "repeated")
    /\ UNCHANGED <<retry, buf, nextMsgId, lists, job, corrupt, others>>
    /\ Unchanged4Timer

(* checkAdvertise(): the gateway has not advertised itself in time. *)
AdvertiseExpired ==
    /\ Polling /\ config.search /\ Connected /\ others < config.others
    /\ others' = others + 1
    /\ status' = "LOST" /\ ping' = -1
    /\ UNCHANGED <<retry, buf, nextMsgId, lists, job, corrupt, toGw, lost, early, seen>>
    /\ Unchanged4Timer

(* RegisterManager::checkTimeout(): again, or given up. *)
RegisterExpired(i) ==
    /\ Polling /\ Expired
    /\ IF regs[i].retry >= 0
       THEN /\ job' = [do |-> "register", id |-> regs[i].id]
            /\ UNCHANGED <<regs, corrupt, seen>>
       ELSE /\ IF Dangles(regs, regs[i].id)
               THEN corrupt' = TRUE /\ UNCHANGED regs
               ELSE regs' = Removed(regs, regs[i].id) /\ UNCHANGED corrupt
            /\ seen' = seen \cup {"gaveUp"}
            /\ UNCHANGED job
    /\ UNCHANGED <<proxy, nextMsgId, pubs, subs, toGw, lost, others>>
    /\ Unchanged4Timer

(* SubscribeManager::checkTimeout(): again without connect(), or given up. *)
SubscribeExpired(i) ==
    /\ Polling /\ Expired
    /\ IF subs[i].retry >= 0
       THEN /\ Sent(Subscribe(subs[i].id, subs[i].name))
            /\ subs' = [subs EXCEPT ![i].retry = @ - 1]
            /\ UNCHANGED corrupt
       ELSE /\ UNCHANGED <<toGw, lost>>
            /\ IF Dangles(subs, subs[i].id)
               THEN corrupt' = TRUE /\ UNCHANGED subs
               ELSE subs' = Removed(subs, subs[i].id) /\ UNCHANGED corrupt
    /\ UNCHANGED <<proxy, nextMsgId, pubs, regs, job, others, seen>>
    /\ Unchanged4Timer

(* The timer of a publication for which the client has connected again is  *)
(* that of its last PUBLISH, which is over.                                *)
Overdue(i) ==
    \/ pubs[i].timer = "on" /\ Expired
    \/ pubs[i].timer = "over" /\ UNCHANGED early

(* Fault: the count is not tested. *)
PublishExpiredAgain(i) ==
    /\ Polling /\ Overdue(i)
    /\ job' = [do |-> "publish", id |-> pubs[i].id]
    /\ UNCHANGED <<status, retry, buf, ping, nextMsgId, lists, corrupt, toGw, lost, others, seen>>
    /\ Unchanged4Timer

(* PublishManager::checkTimeout(): again, or reconnect(). *)
PublishExpired(i) ==
    /\ Polling /\ Overdue(i)
    /\ IF pubs[i].retry >= 0
       THEN job' = [do |-> "publish", id |-> pubs[i].id] /\ UNCHANGED <<status, pubs>>
       ELSE /\ job' = [do |-> "reconnect", id |-> pubs[i].id]
            /\ status' = "DISCONNECTED"
            /\ pubs' = [pubs EXCEPT ![i].timer = "over"]
    /\ UNCHANGED <<retry, buf, ping, nextMsgId, regs, subs, corrupt, toGw, lost, others, seen>>
    /\ Unchanged4Timer

Timers ==
    \/ PingRequired \/ PingExpired \/ AdvertiseExpired
    \/ \E i \in DOMAIN regs : RegisterExpired(i)
    \/ \E i \in DOMAIN subs : SubscribeExpired(i)
    \/ \E i \in DOMAIN pubs : PublishExpired(i)

-----------------------------------------------------------------------------
(* The gateway and the broker behind it, a message at a time.              *)
In == Head(toGw)
GwTakes(types) ==
    /\ toGw # << >> /\ In.type \in types
    /\ toGw' = Tail(toGw)
Unchanged4Gw == UNCHANGED <<client, published, early, others, done>>

(* A client that the gateway does not know, or that has no session: what   *)
(* it sends leads to no answer.                                            *)
Ignored(m) ==
    \/ gw.state = "new" /\ m.type \notin {"SEARCHGW", "CONNECT"}
    \/ gw.state # "active" /\ m.type \in {"SUBSCRIBE", "PUBREL", "PINGREQ"}
    \/ gw.state # "active" /\ m.type = "PUBLISH" /\ m.tid \in DOMAIN gw.names
    \/ gw.state # "will" /\ m.type \in {"WILLTOPIC", "WILLMSG"}

GwIgnores ==
    /\ toGw # << >> /\ Ignored(In)
    /\ toGw' = Tail(toGw)
    /\ UNCHANGED <<toClient, lost, gw, got, seen>>
    /\ Unchanged4Gw

GwConnects ==
    /\ GwTakes({"SEARCHGW", "CONNECT", "WILLTOPIC", "WILLMSG", "DISCONNECT"})
    /\ ~Ignored(In)
    /\ LET will == In.type = "CONNECT" /\ In.will
           answer == IF In.type = "SEARCHGW" THEN "GWINFO"
                     ELSE IF will THEN "WILLTOPICREQ"
                     ELSE IF In.type = "WILLTOPIC" THEN "WILLMSGREQ"
                     ELSE IF In.type = "DISCONNECT" THEN "DISCONNECT"
                     ELSE "CONNACK"
           erase == In.type = "CONNECT" /\ In.clean
       IN  /\ Answered([type |-> answer])
           /\ gw' = [state |-> IF In.type \in {"SEARCHGW", "DISCONNECT"}
                               THEN IF gw.state = "new" THEN "new" ELSE "idle"
                               ELSE IF answer = "CONNACK" THEN "active" ELSE "will",
                     names |-> IF erase THEN << >> ELSE gw.names,
                     held |-> IF erase THEN {} ELSE gw.held]
    /\ UNCHANGED <<got, seen>>
    /\ Unchanged4Gw

(* The Topics of the gateway: a name that is new gets the next id. *)
GwNames(name) ==
    IF \E k \in DOMAIN gw.names : gw.names[k] = name THEN gw.names
    ELSE Append(gw.names, name)
GwId(name) == CHOOSE k \in DOMAIN GwNames(name) : GwNames(name)[k] = name

GwRegisters ==
    /\ GwTakes({"REGISTER", "SUBSCRIBE"})
    /\ ~Ignored(In)
    /\ gw' = [gw EXCEPT !.names = GwNames(In.name)]
    /\ Answered([type |-> IF In.type = "REGISTER" THEN "REGACK" ELSE "SUBACK",
                 id |-> In.id, tid |-> GwId(In.name)])
    /\ UNCHANGED <<got, seen>>
    /\ Unchanged4Gw

GwRejects ==
    /\ GwTakes({"PUBLISH"})
    /\ ~Ignored(In) /\ In.tid \notin DOMAIN gw.names
    /\ Answered([type |-> "PUBACK", id |-> In.id, ok |-> FALSE])
    /\ UNCHANGED <<gw, got, seen>>
    /\ Unchanged4Gw

GwPublishes ==
    /\ GwTakes({"PUBLISH"})
    /\ ~Ignored(In) /\ In.tid \in DOMAIN gw.names
    /\ got' = IF In.qos = 2 /\ In.id \in gw.held THEN got ELSE Append(got, In.id)
    /\ gw' = [gw EXCEPT !.held = IF In.qos = 2 THEN @ \cup {In.id} ELSE @]
    /\ Sees(gw.names[In.tid] # In.name, "misrouted")
    /\ IF In.qos = 0 THEN UNCHANGED <<toClient, lost>>
       ELSE Answered(IF In.qos = 1 THEN [type |-> "PUBACK", id |-> In.id, ok |-> TRUE]
                     ELSE [type |-> "PUBREC", id |-> In.id])
    /\ Unchanged4Gw

GwReleases ==
    /\ GwTakes({"PUBREL", "PINGREQ"})
    /\ ~Ignored(In)
    /\ IF In.type = "PUBREL"
       THEN /\ gw' = [gw EXCEPT !.held = @ \ {In.id}]
            /\ Answered([type |-> "PUBCOMP", id |-> In.id])
       ELSE /\ UNCHANGED gw
            /\ Answered([type |-> "PINGRESP"])
    /\ UNCHANGED <<got, seen>>
    /\ Unchanged4Gw

GwRestart ==
    /\ others < config.others /\ gw.state # "new"
    /\ others' = others + 1
    /\ gw' = [gw EXCEPT !.state = "new", !.names = << >>]
    /\ UNCHANGED <<client, net, published, lost, early, history>>

Gateway ==
    GwIgnores \/ GwConnects \/ GwRegisters \/ GwRejects \/ GwPublishes \/ GwReleases

Application ==
    \/ \E name \in config.names, qos \in config.qos : AppPublish(name, qos)
    \/ \E secs \in {0, 1} : Disconnect(secs)

Client ==
    \/ Connect \/ Resume \/ DisconnectAnswer \/ DisconnectTimeout
    \/ LeaveTasks \/ Receive \/ Timers

Next == Application \/ Client \/ Gateway \/ GwRestart

Spec == Init /\ [][Next]_vars

(* The client's thread runs and the gateway answers.  Nothing obliges the  *)
(* application to publish, a keep-alive to be required or a gateway to be  *)
(* restarted, and the network loses no more than config.faults messages.         *)
Fairness ==
    /\ WF_vars(Connect) /\ WF_vars(Resume)
    /\ WF_vars(DisconnectAnswer \/ DisconnectTimeout)
    /\ WF_vars(LeaveTasks) /\ WF_vars(Receive)
    /\ WF_vars(PingExpired)
    /\ WF_vars(\E i \in DOMAIN regs : RegisterExpired(i))
    /\ WF_vars(\E i \in DOMAIN subs : SubscribeExpired(i))
    /\ WF_vars(\E i \in DOMAIN pubs : PublishExpired(i))
    /\ WF_vars(Gateway)

FairSpec == Spec /\ Fairness

-----------------------------------------------------------------------------
Status == {"LOST", "SEARCHING", "CONNECTING", "WAIT_WILLTOPICREQ", "SEND_WILLTOPIC",
           "WAIT_WILLMSGREQ", "SEND_WILLMSG", "WAIT_CONNACK", "CONNECTED",
           "DISCONNECTING", "SLEEPING", "DISCONNECTED"}

(* Type invariant. *)
TypeOK ==
    /\ status \in Status
    /\ retry \in -1..Retry /\ ping \in -1..Retry
    /\ nextMsgId \in Nat
    /\ \A i \in DOMAIN topicTbl : topicTbl[i][1] \in Names \cup Range(Subs)
    /\ \A i \in DOMAIN pubs :
        /\ pubs[i].st \in {"READY", "SUSPEND", "WAIT_PUBACK", "WAIT_PUBREC", "WAIT_PUBCOMP"}
        /\ pubs[i].timer \in {"off", "on", "over"}
        /\ pubs[i].retry \in -1..Retry /\ pubs[i].id \in 1..nextMsgId
    /\ \A i \in DOMAIN regs : regs[i].retry \in -1..Retry
    /\ \A i \in DOMAIN subs : subs[i].retry \in -1..Retry
    /\ job.do \in {"nothing", "publish", "register", "reconnect", "disconnect"}
    /\ tasks \in BOOLEAN /\ corrupt \in BOOLEAN
    /\ seen \subseteq Incidents

Times(id) == Cardinality({k \in DOMAIN got : got[k] = id})

(* A publication of QoS 1 or 2 that responce() takes off the list has come *)
(* to the gateway, whatever was lost, repeated or refused before.          *)
DoneArrived == \A id \in done : Times(id) > 0

(* A PUBLISH reaches the topic of its name, unless its topic id is one of  *)
(* an earlier connection: the list keeps the ids that connect() makes      *)
(* invalid when it clears the TopicTable ("renewed"); and a CONNECT that   *)
(* checkPingReq() sends again, or one of a dialogue that was begun anew    *)
(* before it was answered, makes the gateway forget the topics of a client *)
(* that is connected ("repeated").                                         *)
NeverMisrouted == "misrouted" \in seen => seen \cap {"renewed", "repeated"} # {}

(* A publication of QoS 2 reaches the broker once, unless it waited for a  *)
(* PUBCOMP when checkTimeout() sent it ("resent"), was waiting when the    *)
(* client connected again ("renewed"), or the gateway got a CONNECT that   *)
(* the client had no more use for ("repeated").                            *)
Qos2Once ==
    seen \cap {"resent", "renewed", "repeated"} = {} =>
        \A i \in DOMAIN pubs : pubs[i].qos = 2 => Times(pubs[i].id) <= 1

(* A suspended publication has a REGISTER under way, whose REGACK will     *)
(* have it sent.  There are three exceptions: two publications waited for  *)
(* one topic, the REGISTER was given up, or the publication was refused    *)
(* with an id that the TopicTable no longer has for its topic.             *)
SuspendedIsRegistered ==
    seen \cap {"shared", "gaveUp", "stale"} = {} =>
    \A i \in DOMAIN pubs : pubs[i].st = "SUSPEND" => Named(regs, pubs[i].name) # {}

(* Every publication is completed, through losses, restarts of the gateway *)
(* and reconnections, with the same exceptions; the tasks are never held   *)
(* back for good.                                                          *)
Completed ==
    []<>(pubs = << >> \/ corrupt \/ seen \cap {"shared", "gaveUp", "stale"} # {})

(* The loops of connect() and disconnect() end. *)
JobEnds == []<>(job = NoJob)
=============================================================================
