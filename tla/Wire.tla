-------------------------------- MODULE Wire --------------------------------
(***************************************************************************)
(* One session octet by octet: the client writes its messages, a carrier   *)
(* (UDP, or XBee modems on serial lines) brings them to the gateway, which *)
(* reads them, writes MQTT packets on its connection and reads what the    *)
(* broker writes there, and so back to the client.                         *)
(*                                                                         *)
(* What is decided is in GatewayRelay and ClientNode; here the client works *)
(* off a script, sends nothing twice but what the script says, and the     *)
(* gateway handles a message at once.  What is checked is that what one    *)
(* end means is what the other end reads.                                  *)
(***************************************************************************)
EXTENDS ClientMessages, MqttMessages, XBeeFrames, TLC

CONSTANTS
    Sessions,       \* what differs from one session to another, see MCWire
    GatewayId       \* the id in GWINFO

VARIABLES
    cfg,            \* the session, one of Sessions
    plan,           \* what others are yet to do in it
    client,         \* of the client: see Init
    heard,          \* what the client has read
    up, down,       \* UDP: datagrams; XBee: the octets on the serial line of
                    \* the gateway and of the client
    gateway,        \* of the gateway: see Init
    toBroker, fromBroker,   \* the octets on the connection
    said,           \* what the client has said to the broker
    brokerRead, brokerSaid, \* what the broker has read and answered
    disturbed       \* what has happened that may cost a message

client_vars == <<client, heard>>
broker_vars == <<brokerRead, brokerSaid>>
vars == <<cfg, plan, client, heard, up, down, gateway, toBroker, fromBroker, said,
          brokerRead, brokerSaid, disturbed>>

XBee == cfg.carrier = "xbee"
Node == <<0, 19, 162, 0, 64, 10, 17, 125>>     \* the modem of the client
Gw == <<0, 19, 162, 0, 64, 1, 2, 3>>           \* and that of the gateway
Nobody == <<0, 0, 0, 0, 0, 0, 0, 0>>
Empty == [x \in {} |-> 0]

Init ==
    /\ cfg \in Sessions
    /\ client = [dialog |-> IF cfg.search THEN "searching" ELSE "connecting",
                 gw |-> IF cfg.search THEN Nobody ELSE Gw,
                 asked |-> FALSE,       \* the message of the dialog is written
                 left |-> cfg.left,     \* what is in _msg[2]
                 mid |-> cfg.mid, frame |-> cfg.frame,
                 ids |-> Empty,         \* TopicTable
                 meant |-> Empty,       \* the request of a message id
                 open |-> {},           \* the ids whose PUBLISH is not done
                 script |-> cfg.script,
                 waits |-> FALSE, owed |-> <<>>]    \* for and of the modem's status
    /\ gateway = [topics |-> <<>>, pub |-> Empty, sub |-> Empty, connect |-> <<>>,
                  protocol |-> cfg.protocol, open |-> TRUE]
    /\ plan = [adverts |-> cfg.adverts, foreign |-> cfg.foreign, writes |-> cfg.writes]
    /\ up = <<>> /\ down = <<>> /\ toBroker = <<>> /\ fromBroker = <<>>
    /\ said = <<>> /\ heard = <<>> /\ brokerRead = <<>> /\ brokerSaid = <<>>
    /\ disturbed = {}

NextMid(mid) == IF mid = 65535 THEN 1 ELSE mid + 1
Tid(c, name) == IF name \in DOMAIN c.ids THEN c.ids[name] ELSE 0

-----------------------------------------------------------------------------
(* The client writes.  With XBee it then waits for the modem's status, which *)
(* comes when the frame was understood and its id is not 0.  A frame id that *)
(* the modem takes for a START or an ESCAPE spoils the frame.              *)

Says(c, msg, bad) ==
    LET id    == NextFrameId(c.frame)
        got   == Requested(ClientFrame(id, c.gw \o <<255, 254>>, msg))
        spoilt == IF XBee /\ id \in {START, ESCAPE} THEN {"frame"} ELSE {}
        long  == IF msg[1] = 1 THEN {"long"} ELSE {}
    IN /\ disturbed' = disturbed \cup bad \cup spoilt \cup long
       /\ IF XBee
          THEN /\ up' = IF got = <<>> THEN up ELSE up \o Response(Node, 1, got[1].payload)
               /\ client' = [c EXCEPT !.frame = id, !.waits = TRUE,
                                      !.owed = IF got = <<>> \/ id = 0 THEN @
                                               ELSE Append(@, id)]
          ELSE up' = Append(up, msg) /\ client' = c

Quiet == UNCHANGED <<cfg, plan, heard, down, gateway, toBroker, fromBroker, broker_vars>>

(* SEARCHGW goes to everybody, and no status is waited for. *)
SaySearch ==
    /\ client.dialog = "searching" /\ ~client.asked
    /\ LET id  == NextFrameId(client.frame)
           got == Requested(ClientFrame(id, Broadcast64 \o Broadcast16, SaySearchGw))
           c   == [client EXCEPT !.asked = TRUE, !.left = 0]
       IN IF XBee
          THEN /\ up' = IF got = <<>> THEN up ELSE up \o Response(Node, 2, got[1].payload)
               /\ client' = [c EXCEPT !.frame = id,
                                      !.owed = IF got = <<>> \/ id = 0 THEN @ ELSE <<id>>]
          ELSE up' = Append(up, SaySearchGw) /\ client' = c
    /\ UNCHANGED <<said, disturbed>>
    /\ Quiet

(* What a session is to be at the broker: as it was configured. *)
Session ==
    [type |-> "CONNECT", named |-> TRUE, clean |-> cfg.clean, will |-> cfg.will,
     login |-> cfg.login, keepAlive |-> cfg.keepAlive, id |-> cfg.id]

(* The flags are those that were configured unless the buffer has others. *)
Connect ==
    LET will  == cfg.will # <<>>
        flags == ConnectFlags(cfg.clean, will, client.left)
        stale == Bit(flags, CLEAN) # cfg.clean \/ Bit(flags, WILL) # will
    IN /\ client.dialog = "connecting" /\ ~client.waits
       /\ Says([client EXCEPT !.dialog = IF will THEN "topic" ELSE "connack", !.left = flags],
               SayConnect(flags, cfg.keepAlive, cfg.id), IF stale THEN {"stale"} ELSE {})
       /\ said' = IF will THEN said ELSE Append(said, Session)
       /\ Quiet

(* The script: the next request, if it is of that type. *)
Turn(type) ==
    /\ client.dialog = "connected" /\ ~client.waits
    /\ client.script # <<>> /\ Head(client.script).type = type
Asks(c) == [c EXCEPT !.script = Tail(@)]

SayPing ==
    /\ Turn("PINGREQ")
    /\ Says(Asks(client), SayPingReq, {})
    /\ said' = Append(said, [type |-> "PINGREQ"])
    /\ Quiet

(* A request with a message id, of which the client remembers what it meant. *)
Recalling(mid, r) ==
    [Asks(client) EXCEPT !.mid = mid, !.meant = @ @@ (mid :> r)]

SayTopic ==
    LET r == Head(client.script)  mid == NextMid(client.mid)
    IN /\ Turn("REGISTER")
       /\ Says(Recalling(mid, r), SayRegister(mid, r.name), {})
       /\ UNCHANGED said
       /\ Quiet

Publication(r, mid, dup) ==
    [type |-> "PUBLISH", dup |-> dup, retain |-> r.retain, qos |-> r.qos, name |-> r.name,
     mid |-> IF r.qos > 0 THEN mid ELSE 0, data |-> r.data]
PublishFlags(r, dup) == Flag(dup, DUP) + QosFlag(r.qos) + Flag(r.retain, RETAIN)

SayPublication ==
    LET r == Head(client.script)  mid == NextMid(client.mid)
    IN /\ Turn("PUBLISH") /\ Tid(client, r.name) # 0
       /\ Says([Recalling(mid, r) EXCEPT !.open = IF r.qos > 0 THEN @ \cup {mid} ELSE @],
               SayPublish(PublishFlags(r, FALSE), Tid(client, r.name), mid, r.data), {})
       /\ said' = Append(said, Publication(r, mid, FALSE))
       /\ Quiet

(* The time of a PUBLISH is up: again, with DUP; or it is done by now.      *)
SayAgain ==
    LET r == client.meant[client.mid]
    IN /\ Turn("AGAIN")
       /\ IF client.mid \in client.open
          THEN /\ Says(Asks(client), SayPublish(PublishFlags(r, TRUE), Tid(client, r.name),
                                                client.mid, r.data), {"again"})
               /\ said' = Append(said, Publication(r, client.mid, TRUE))
          ELSE client' = Asks(client) /\ UNCHANGED <<up, said, disturbed>>
       /\ Quiet

SaySubscription ==
    LET r == Head(client.script)  mid == NextMid(client.mid)
    IN /\ Turn("SUBSCRIBE")
       /\ Says(Recalling(mid, r), SaySubscribe(Type.SUBSCRIBE, r.qos, mid, r.name), {})
       /\ said' = Append(said, [type |-> "SUBSCRIBE", mid |-> mid, name |-> r.name, qos |-> r.qos])
       /\ Quiet

SayUnsubscription ==
    LET r == Head(client.script)  mid == NextMid(client.mid)
    IN /\ Turn("UNSUBSCRIBE")
       /\ Says(Recalling(mid, r), SaySubscribe(Type.UNSUBSCRIBE, 0, mid, r.name), {})
       /\ said' = Append(said, [type |-> "UNSUBSCRIBE", mid |-> mid, name |-> r.name])
       /\ Quiet

SayGoodbye ==
    LET r == Head(client.script)
    IN /\ Turn("DISCONNECT")
       /\ Says([Asks(client) EXCEPT !.dialog = "leaving",
                                    !.left = IF r.secs > 0 THEN r.secs \div 256 ELSE @],
               SayDisconnect(r.secs), {})
       /\ said' = Append(said, [type |-> "DISCONNECT"])
       /\ Quiet

-----------------------------------------------------------------------------
(* The client reads. *)

(* What a datagram says of its length. *)
Length(msg) == IF msg[1] = 1 THEN GetUint16(msg, 2) ELSE msg[1]

(* getMessage(): the next message, <<>> if what is there is none, who has   *)
(* sent it, and what is then left on the line.  A datagram is dropped when *)
(* neither the address nor the port is the gateway's.                      *)
Incoming ==
    IF XBee
    THEN LET r == ReadApiFrame(down)
             ours == r.data # <<>> /\ r.data[1] = Api.RESPONSE /\ FromGateway(r.data, client.gw)
         IN [msg |-> IF ours THEN From(r.data, 13) ELSE <<>>,
             from |-> IF ours THEN SubSeq(r.data, 2, 9) ELSE <<>>, rest |-> r.rest]
    ELSE LET d == Head(down)
         IN [msg |-> IF d.from = "stranger" \/ Length(d.msg) # Len(d.msg) THEN <<>> ELSE d.msg,
             from |-> Gw, rest |-> Tail(down)]

(* The modem tells that a frame has arrived at the gateway's modem.        *)
ModemTells ==
    /\ client.owed # <<>>
    /\ down' = down \o Status(Head(client.owed))
    /\ client' = [client EXCEPT !.owed = Tail(@)]
    /\ UNCHANGED <<cfg, plan, heard, up, gateway, toBroker, fromBroker, said, broker_vars, disturbed>>

(* send() waits for the status: the next frame ends that, whatever it is,   *)
(* and a message in it is lost.                                            *)
ReadStatus ==
    /\ client.waits /\ down # <<>>
    /\ client' = [client EXCEPT !.waits = FALSE]
    /\ down' = Incoming.rest
    /\ disturbed' = IF Incoming.msg = <<>> THEN disturbed ELSE disturbed \cup {"collision"}
    /\ UNCHANGED <<cfg, plan, heard, up, gateway, toBroker, fromBroker, said, broker_vars>>

(* Four seconds, in which a modem that owes a status tells it.             *)
StatusTimeout ==
    /\ client.waits /\ down = <<>> /\ client.owed = <<>>
    /\ client' = [client EXCEPT !.waits = FALSE]
    /\ UNCHANGED <<cfg, plan, heard, up, down, gateway, toBroker, fromBroker, said, broker_vars,
                   disturbed>>

(* What the client does with a message: its state then, what it writes     *)
(* (<<>>: nothing) and what it says to the broker by that.  While connect() *)
(* or disconnect() waits for a message, the others do nothing.             *)
Reaction(h, msg, from) ==
    LET nothing == [c |-> client, say |-> <<>>, told |-> <<>>]
        becomes(d) == [client EXCEPT !.dialog = d]
        topic   == SayWillTopic(cfg.will[3], cfg.will[4], cfg.will[1])
        message == SayWillMsg(cfg.will[2])
        in(d, t) == client.dialog = d /\ h.type = t
        session(t) == client.dialog = "connected" /\ h.type \in t
    IN CASE in("searching", "GWINFO") ->
              [nothing EXCEPT !.c = [becomes("connecting") EXCEPT !.gw = from]]
         [] in("topic", "WILLTOPICREQ") ->
              [nothing EXCEPT !.c = [becomes("message") EXCEPT !.left = topic[3]], !.say = topic]
         [] in("message", "WILLMSGREQ") ->
              [nothing EXCEPT !.c = [becomes("connack") EXCEPT !.left = message[3]],
                              !.say = message, !.told = <<Session>>]
         [] in("connack", "CONNACK") ->
              [nothing EXCEPT !.c = IF h.rc = RC.ACCEPTED
                                    THEN [becomes("connected") EXCEPT !.ids = Empty]
                                    ELSE becomes("connecting")]
         [] session({"REGACK", "SUBACK"}) ->
              IF h.mid \notin DOMAIN client.meant \/ (h.type = "SUBACK" /\ h.rc # RC.ACCEPTED)
              THEN nothing
              ELSE [nothing EXCEPT !.c.ids = (client.meant[h.mid].name :> h.tid) @@ @]
         [] session({"PUBACK", "PUBCOMP"}) ->
              IF h.type = "PUBACK" /\ h.rc # RC.ACCEPTED THEN nothing
              ELSE [nothing EXCEPT !.c.open = @ \ {h.mid}]
         [] session({"PUBREC"}) /\ h.mid \in client.open ->
              [nothing EXCEPT !.say = SayPubRel(h.mid),
                              !.told = <<[type |-> "PUBREL", mid |-> h.mid]>>]
         [] session({"PUBLISH"}) /\ h.qos % 2 = 1 ->
              [nothing EXCEPT !.say = SayPubAck(h.tid, h.mid, RC.ACCEPTED),
                              !.told = <<[type |-> "PUBACK", mid |-> h.mid]>>]
         [] session({"REGISTER"}) ->
              [nothing EXCEPT !.say = SayRegAck(msg, IF h.name \in DOMAIN client.ids
                                                     THEN RC.ACCEPTED ELSE RC.INVALID_TOPIC_ID)]
         [] in("leaving", "DISCONNECT") \/ in("connected", "DISCONNECT") ->
              [nothing EXCEPT !.c = becomes("over")]
         [] OTHER -> nothing

ClientReads ==
    /\ ~client.waits /\ down # <<>>
    /\ down' = Incoming.rest
    /\ UNCHANGED <<cfg, plan, gateway, toBroker, fromBroker, broker_vars>>
    /\ IF Incoming.msg = <<>> THEN UNCHANGED <<client, heard, up, said, disturbed>>
       ELSE LET msg == ReadMsg(Incoming.msg)
                h   == Hear(msg)
                r   == Reaction(h, msg, Incoming.from)
            IN /\ heard' = Append(heard, h)
               /\ said' = said \o r.told
               /\ IF r.say = <<>> THEN client' = r.c /\ UNCHANGED <<up, disturbed>>
                  ELSE Says(r.c, r.say, {})

-----------------------------------------------------------------------------
(* The gateway and the client's messages. *)

(* What is written to the client, by ClientSendTask. *)
Written(to, option, msg) ==
    IF ~XBee THEN <<[from |-> "gateway", msg |-> msg]>>
    ELSE LET got == Requested(GatewayFrame(to, msg))
         IN IF got = <<>> THEN <<>> ELSE Response(Gw, option, got[1].payload)
ToClient(msg) == Written(Node \o <<255, 254>>, 1, msg)
ToAll(msg) == Written(Broadcast64 \o Broadcast16, 2, msg)

(* Topics: the first id is 256. *)
FirstId == 256
IdOf(topics, name) ==
    LET i == {k \in DOMAIN topics : topics[k] = name}
    IN IF i = {} THEN 0 ELSE FirstId - 1 + CHOOSE k \in i : TRUE
NameOf(topics, tid) ==
    IF tid - FirstId + 1 \in DOMAIN topics THEN topics[tid - FirstId + 1] ELSE <<>>
With(topics, name) == IF IdOf(topics, name) = 0 THEN Append(topics, name) ELSE topics

(* The handlers of GatewayControlTask: the state of the gateway, the octets *)
(* for the client and for the broker.                                      *)
Upstream(g, m) ==
    LET t == SnTypeOf(m)
        does(g2, say, mqtt) == [g |-> g2, say |-> say, mqtt |-> mqtt]
    IN CASE t = Type.SEARCHGW -> does(g, ToAll(SnGwInfo(GatewayId)), <<>>)
         [] t = Type.CONNECT ->
              LET c  == SnConnect(m)
                  mq == [protocol |-> g.protocol, clean |-> c.clean, will |-> <<>>,
                         login |-> cfg.login, keepAlive |-> c.duration, id |-> c.id]
                  g2 == [g EXCEPT !.topics = IF c.clean THEN <<>> ELSE @,
                                  !.pub = Empty, !.sub = Empty]
              IN IF c.will THEN does([g2 EXCEPT !.connect = <<mq>>], ToClient(SnWillTopicReq), <<>>)
                 ELSE does([g2 EXCEPT !.connect = <<>>], <<>>, MqttConnect(mq))
         [] t = Type.WILLTOPIC ->
              LET w == SnWillTopic(m)
              IN does(IF g.connect = <<>> THEN g
                      ELSE [g EXCEPT !.connect[1].will = <<w.topic, <<>>, w.qos>>],
                      ToClient(SnWillMsgReq), <<>>)
         [] t = Type.WILLMSG /\ g.connect # <<>> ->
              does([g EXCEPT !.connect = <<>>], <<>>,
                   MqttConnect([g.connect[1] EXCEPT !.will[2] = SnWillMsg(m)]))
         [] t = Type.REGISTER ->
              LET r == SnRegister(m)  topics == With(g.topics, r.name)
              IN does([g EXCEPT !.topics = topics],
                      ToClient(SnRegAck(IdOf(topics, r.name), r.mid, RC.ACCEPTED)), <<>>)
         [] t = Type.PUBLISH ->
              LET p == SnPublish(m)  name == NameOf(g.topics, p.tid)
              IN IF name = <<>>
                 THEN does(g, IF p.mid = 0 THEN <<>>
                              ELSE ToClient(SnPubAck(p.tid, p.mid, RC.INVALID_TOPIC_ID)), <<>>)
                 ELSE does(IF p.mid = 0 THEN g ELSE [g EXCEPT !.pub = @ @@ (p.mid :> p.tid)], <<>>,
                           MqttPublish([dup |-> p.dup, retain |-> p.retain, qos |-> p.qos,
                                        name |-> name, mid |-> p.mid, data |-> p.data]))
         [] t = Type.SUBSCRIBE ->
              LET s == SnSubscribe(m)  topics == With(g.topics, s.name)
              IN does([g EXCEPT !.topics = topics, !.sub = @ @@ (s.mid :> IdOf(topics, s.name))],
                      <<>>, MqttSubscribe(s.mid, s.name, s.qos))
         \* without the name of the topic
         [] t = Type.UNSUBSCRIBE -> does(g, <<>>, MqttUnsubscribe(SnSubscribe(m).mid, <<>>))
         [] t = Type.PINGREQ -> does(g, <<>>, MqttBare(MqttType.PINGREQ))
         [] t = Type.PUBACK -> does(g, <<>>, MqttPubAck(SnPubAckMid(m)))
         [] t = Type.PUBREL -> does(g, <<>>, MqttPubRel(SnPubRelMid(m)))
         [] t = Type.DISCONNECT ->
              does([g EXCEPT !.open = FALSE], ToClient(SnAbsorb(m)), MqttBare(MqttType.DISCONNECT))
         [] OTHER -> does(g, <<>>, <<>>)

(* getResponce(): a datagram whose length is not what it says is dropped.  *)
(* After its DISCONNECT the gateway closes the connection, whatever the     *)
(* broker has yet to say.                                                  *)
Arrived ==
    IF up = <<>> THEN [msg |-> <<>>, rest |-> <<>>, ready |-> FALSE]
    ELSE IF XBee
    THEN LET f == Gather(up)
         IN [msg |-> Payload(f), rest |-> From(up, f.used + 1), ready |-> f.end # "no"]
    ELSE LET m == Head(up)
         IN [msg |-> IF Length(m) = Len(m) THEN m ELSE <<>>, rest |-> Tail(up), ready |-> TRUE]

GatewayReceives ==
    /\ Arrived.ready
    /\ up' = Arrived.rest
    /\ UNCHANGED <<cfg, plan, client_vars, said, broker_vars>>
    /\ IF Arrived.msg = <<>> THEN UNCHANGED <<down, gateway, toBroker, fromBroker, disturbed>>
       ELSE LET does   == Upstream(gateway, Arrived.msg)
                closes == gateway.open /\ ~does.g.open
            IN /\ gateway' = does.g
               /\ down' = down \o does.say
               /\ toBroker' = toBroker \o does.mqtt
               /\ fromBroker' = IF closes THEN <<>> ELSE fromBroker
               /\ disturbed' = IF closes /\ toBroker \o fromBroker # <<>>
                               THEN disturbed \cup {"closed"} ELSE disturbed

-----------------------------------------------------------------------------
(* The gateway and the broker's packets. *)

ConnackCode(rc) ==
    CASE rc = 0 -> RC.ACCEPTED
      [] rc = 1 -> RC.NOT_SUPPORTED
      [] rc = 3 -> RC.CONGESTION
      [] OTHER -> RC.INVALID_TOPIC_ID

Downstream(g, p) ==
    LET does(g2, say) == [g |-> g2, say |-> say]
    IN CASE p.type = "PUBACK" ->
              IF p.mid \notin DOMAIN g.pub THEN does(g, <<>>)
              ELSE does([g EXCEPT !.pub = Restrict(@, DOMAIN @ \ {p.mid})],
                        ToClient(SnPubAck(g.pub[p.mid], p.mid, RC.ACCEPTED)))
         [] p.type = "SUBACK" ->
              IF p.mid \notin DOMAIN g.sub THEN does(g, <<>>)
              ELSE does([g EXCEPT !.sub = Restrict(@, DOMAIN @ \ {p.mid})],
                        ToClient(IF p.granted = 128
                                 THEN SnSubAck(0, g.sub[p.mid], p.mid, RC.INVALID_TOPIC_ID)
                                 ELSE SnSubAck(p.granted, g.sub[p.mid], p.mid, RC.ACCEPTED)))
         [] p.type = "PUBREC" -> does(g, ToClient(SnPubRec(p.mid)))
         [] p.type = "PUBREL" -> does(g, ToClient(SnPubRel(p.mid)))
         [] p.type = "PUBCOMP" -> does(g, ToClient(SnPubComp(p.mid)))
         [] p.type = "UNSUBACK" -> does(g, ToClient(SnUnsubAck(p.mid)))
         [] p.type = "PINGRESP" -> does(g, ToClient(SnPingResp))
         [] p.type = "CONNACK" ->
              does(IF p.rc # 1 THEN g
                   ELSE [g EXCEPT !.protocol = IF @ = VER4 THEN VER3 ELSE VER4],
                   ToClient(SnConnack(ConnackCode(p.rc))))
         \* a retained one is marked as a duplicate: setDup() for isRetain()
         [] p.type = "PUBLISH" ->
              LET topics == With(g.topics, p.name)
                  tid    == IdOf(topics, p.name)
              IN does([g EXCEPT !.topics = topics],
                      (IF topics = g.topics THEN <<>> ELSE ToClient(SnRegisterOf(tid, 0, p.name)))
                      \o ToClient(SnPublishOf(p.dup \/ p.retain, p.qos, tid, p.mid, p.data)))

Relayed(g, packets) ==
    LET to[i \in 0 .. Len(packets)] ==
            IF i = 0 THEN [g |-> g, say |-> <<>>]
            ELSE LET was  == to[i - 1]
                     next == Downstream(was.g, packets[i])
                 IN [g |-> next.g, say |-> was.say \o next.say]
    IN to[Len(packets)]

(* Where packets end in what the broker has sent. *)
Ends(s) ==
    LET to[k \in 0 .. 4] ==
            IF k = 0 THEN 0
            ELSE LET was == to[k - 1]
                 IN IF was >= Len(s) THEN was ELSE was + PacketLength(s, was + 1)
    IN {to[k] : k \in 1 .. 4}

(* recv() brings all that is there or less.  A packet that comes in two     *)
(* parts is read as if the first were all, and the second as a packet.     *)
Read(n) ==
    LET does == Relayed(gateway, Packets(SubSeq(fromBroker, 1, n)))
    IN /\ gateway' = does.g
       /\ down' = down \o does.say
       /\ fromBroker' = From(fromBroker, n + 1)
       /\ UNCHANGED <<cfg, plan, client_vars, up, toBroker, said, broker_vars>>

GatewayReads ==
    /\ fromBroker # <<>>
    /\ Read(Len(fromBroker))
    /\ UNCHANGED disturbed

GatewayReadsPart ==
    /\ cfg.faulty /\ disturbed \cap {"lost", "split"} = {}
    /\ \E n \in 1 .. Len(fromBroker) - 1 :
          /\ Read(n)
          /\ disturbed' = IF n \in Ends(fromBroker) THEN disturbed ELSE disturbed \cup {"split"}

GatewayAdvertises ==
    /\ plan.adverts > 0
    /\ plan' = [plan EXCEPT !.adverts = @ - 1]
    /\ down' = down \o ToAll(SnAdvertise(GatewayId, cfg.keepAlive))
    /\ UNCHANGED <<cfg, gateway, client_vars, up, toBroker, fromBroker, said, broker_vars, disturbed>>

-----------------------------------------------------------------------------
(* The broker. *)

BrokerConnect(p, at) ==
    LET name  == UtfAt(p, at)
        after == at + 2 + Len(name)
        flags == p[after + 1]
        id    == UtfAt(p, after + 4)
        rest  == after + 6 + Len(id)
        will  == Bit(flags, 4)
        topic == UtfAt(p, rest)
        msg   == UtfAt(p, rest + 2 + Len(topic))
        login == IF will THEN rest + 4 + Len(topic) + Len(msg) ELSE rest
        user  == UtfAt(p, login)
    IN [type |-> "CONNECT", clean |-> Bit(flags, 2),
        named |-> <<name, p[after]>> \in {<<NAME3, VER3>>, <<NAME4, VER4>>},
        will |-> IF will THEN <<topic, msg, (flags \div 8) % 4, Bit(flags, 32)>> ELSE <<>>,
        login |-> IF Bit(flags, 128) THEN <<user, UtfAt(p, login + 2 + Len(user))>> ELSE <<>>,
        keepAlive |-> GetUint16(p, after + 2), id |-> id]

BrokerPacket(p) ==
    LET t  == MqttTypeName(p[1])
        at == 2 + RemSize(p, 2)
        name == UtfAt(p, at + 2)
    IN CASE t = "CONNECT" -> BrokerConnect(p, at)
         [] t = "PUBLISH" -> ReadPublish(p, 1)
         [] t = "SUBSCRIBE" -> [type |-> t, mid |-> GetUint16(p, at), name |-> name,
                                qos |-> p[at + 4 + Len(name)]]
         [] t = "UNSUBSCRIBE" -> [type |-> t, mid |-> GetUint16(p, at), name |-> name]
         [] t \in {"PINGREQ", "DISCONNECT"} -> [type |-> t]
         [] OTHER -> [type |-> t, mid |-> GetUint16(p, at)]

(* It refuses the first CONNECT with cfg.refuse, if that is not 0. *)
Answer(r) ==
    LET first == \A i \in 1 .. Len(brokerRead) : brokerRead[i].type # "CONNECT"
        by(t) == <<[type |-> t, mid |-> r.mid]>>
    IN CASE r.type = "CONNECT" -> <<[type |-> "CONNACK", rc |-> IF first THEN cfg.refuse ELSE 0]>>
         [] r.type = "PUBLISH" /\ r.qos = 1 -> by("PUBACK")
         [] r.type = "PUBLISH" /\ r.qos = 2 -> by("PUBREC")
         [] r.type = "PUBREL" -> by("PUBCOMP")
         [] r.type = "SUBSCRIBE" -> <<[type |-> "SUBACK", mid |-> r.mid,
                                       granted |-> IF r.name = cfg.deny THEN 128 ELSE r.qos]>>
         [] r.type = "UNSUBSCRIBE" -> by("UNSUBACK")
         [] r.type = "PINGREQ" -> <<[type |-> "PINGRESP"]>>
         [] OTHER -> <<>>

BrokerOctets(r) ==
    CASE r.type = "PUBLISH" ->
            Packet(MqttType.PUBLISH + Flag(r.dup, 8) + 2 * r.qos + Flag(r.retain, 1),
                   UtfSerialize(r.name) \o (IF r.qos > 0 THEN SetUint16(r.mid) ELSE <<>>) \o r.data)
      [] r.type = "CONNACK" -> <<MqttType.CONNACK, 2, 0, r.rc>>
      [] r.type = "SUBACK" -> Packet(MqttType.SUBACK, SetUint16(r.mid) \o <<r.granted>>)
      [] r.type = "PINGRESP" -> <<MqttType.PINGRESP, 0>>
      [] OTHER -> Packet(MqttType[r.type], SetUint16(r.mid))

BrokerReads ==
    /\ toBroker # <<>>
    /\ LET n == PacketLength(toBroker, 1)
           r == BrokerPacket(SubSeq(toBroker, 1, n))
           answer == IF gateway.open THEN Answer(r) ELSE <<>>
       IN /\ toBroker' = From(toBroker, n + 1)
          /\ brokerRead' = Append(brokerRead, r)
          /\ brokerSaid' = brokerSaid \o answer
          /\ fromBroker' = IF answer = <<>> THEN fromBroker
                           ELSE fromBroker \o BrokerOctets(answer[1])
    /\ UNCHANGED <<cfg, plan, client_vars, up, down, gateway, said, disturbed>>

(* Something is published that the client has subscribed to, in this session *)
(* or in one before.                                                       *)
BrokerPublishes ==
    /\ gateway.open /\ plan.writes # <<>>
    /\ \E i \in 1 .. Len(brokerSaid) : brokerSaid[i] = [type |-> "CONNACK", rc |-> 0]
    /\ LET r == Head(plan.writes)
       IN brokerSaid' = Append(brokerSaid, r) /\ fromBroker' = fromBroker \o BrokerOctets(r)
    /\ plan' = [plan EXCEPT !.writes = Tail(@)]
    /\ UNCHANGED <<cfg, gateway, client_vars, up, down, toBroker, said, brokerRead, disturbed>>

-----------------------------------------------------------------------------
(* The carrier. *)

(* A datagram, or an octet on a serial line, is lost.  The checksum of a    *)
(* frame finds the latter out but between two escaped octets: the next     *)
(* ESCAPE is then taken to be escaped, and the sum may be the same.        *)
Garbles(s, i) == XBee /\ i \in 2 .. Len(s) - 1 /\ s[i - 1] = ESCAPE /\ s[i + 1] = ESCAPE

Lose ==
    /\ cfg.faulty /\ disturbed \cap {"lost", "split"} = {}
    /\ \/ \E i \in 1 .. Len(up) :
             /\ up' = RemoveAt(up, i) /\ UNCHANGED down
             /\ disturbed' = disturbed \cup {"lost"} \cup IF Garbles(up, i) THEN {"garbled"} ELSE {}
       \/ \E i \in 1 .. Len(down) :
             /\ down' = RemoveAt(down, i) /\ UNCHANGED up
             /\ disturbed' = disturbed \cup {"lost"} \cup IF Garbles(down, i) THEN {"garbled"} ELSE {}
    /\ UNCHANGED <<cfg, plan, client_vars, gateway, toBroker, fromBroker, said, broker_vars>>

(* Another node sends to the client: with UDP from the gateway's port on     *)
(* another machine, or from elsewhere.  The former is taken for the         *)
(* gateway's, and so is an XBee message whose length has the bit 2.         *)
Foreign ==
    /\ plan.foreign # <<>>
    /\ LET m == Head(plan.foreign)
           taken == IF XBee THEN Bit(m.msg[1], 2) ELSE m.from = "port"
       IN /\ down' = IF XBee THEN down \o Response(m.from, 1, m.msg) ELSE Append(down, m)
          /\ disturbed' = IF taken THEN disturbed \cup {"foreign"} ELSE disturbed
    /\ plan' = [plan EXCEPT !.foreign = Tail(@)]
    /\ UNCHANGED <<cfg, gateway, client_vars, up, toBroker, fromBroker, said, broker_vars>>

Next ==
    \/ SaySearch \/ Connect \/ SayPing \/ SayTopic \/ SayPublication \/ SayAgain
    \/ SaySubscription \/ SayUnsubscription \/ SayGoodbye
    \/ ModemTells \/ ReadStatus \/ StatusTimeout \/ ClientReads
    \/ GatewayReceives \/ GatewayReads \/ GatewayReadsPart \/ GatewayAdvertises
    \/ BrokerReads \/ BrokerPublishes \/ Lose \/ Foreign

Spec == Init /\ [][Next]_vars

-----------------------------------------------------------------------------
IsOctets(s) == \A i \in DOMAIN s : s[i] \in Octet

(* What is on a line or a connection are octets, message ids and topic ids  *)
(* have two of them and are not 0.                                         *)
TypeOK ==
    /\ IF XBee THEN IsOctets(up) /\ IsOctets(down)
       ELSE /\ \A i \in DOMAIN up : IsOctets(up[i])
            /\ \A i \in DOMAIN down : IsOctets(down[i].msg)
    /\ IsOctets(toBroker) /\ IsOctets(fromBroker)
    /\ client.mid \in Uint16 /\ {client.frame, client.left} \subseteq Octet
    /\ \A name \in DOMAIN client.ids : client.ids[name] \in FirstId .. 65535
    /\ DOMAIN gateway.pub \cup DOMAIN gateway.sub \subseteq 1 .. 65535
    /\ disturbed \subseteq {"lost", "split", "collision", "frame", "foreign", "long",
                            "stale", "closed", "again", "garbled"}

(* s is the beginning of t, or t without some of it, where Takes says that  *)
(* an element of s is what is left of one of t.                            *)
Begins(s, t, Takes(_, _)) == Len(s) <= Len(t) /\ \A i \in DOMAIN s : Takes(s[i], t[i])
Embedded(s, t, Takes(_, _)) ==
    LET to[i \in 0 .. Len(t)] ==
            IF i = 0 THEN 0
            ELSE LET was == to[i - 1]
                 IN IF was < Len(s) /\ Takes(s[was + 1], t[i]) THEN was + 1 ELSE was
    IN to[Len(t)] = Len(s)

(* What is claimed of a message of the client: all of it, but of a will its *)
(* QoS and its retain (the client writes them into other bits, getQos() of *)
(* WILLTOPIC has "&&", and handleSnWillTopic() passes no retain on), of a  *)
(* client id what is behind 23 octets (connect() cuts it), and of an        *)
(* UNSUBSCRIBE the topic (handleSnUnsubscribe() looks for an id, and sets  *)
(* no name).  These do not arrive as they are said.                        *)
Claimed(r) ==
    CASE r.type = "CONNECT" ->
            [r EXCEPT !.will = SubSeq(@, 1, IF @ = <<>> THEN 0 ELSE 2),
                      !.id = SubSeq(@, 1, IF Len(@) > IdLen THEN IdLen ELSE Len(@))]
      [] r.type = "UNSUBSCRIBE" -> [r EXCEPT !.name = <<>>]
      [] OTHER -> r
BrokerTakes(read, r) == Claimed(read) = Claimed(r)

(* All the way up, through two encodings, two decodings and the carrier:    *)
(* the broker reads what the client has said, all that is Claimed of it,   *)
(* in order and, unless something has happened to a message, without a gap. *)
(* Not so for a CONNECT whose flags an earlier message has left in the     *)
(* buffer, and where a checksum may miss the loss of an octet.             *)
BrokerReadsSaid ==
    disturbed \cap {"stale", "garbled"} = {} =>
        IF disturbed \subseteq {"again"} THEN Begins(brokerRead, said, BrokerTakes)
        ELSE Embedded(brokerRead, said, BrokerTakes)

(* What the client is to know of what the broker says (of a CONNACK and a   *)
(* SUBACK in the codes of MQTT-SN), and does know.                         *)
Told(r) ==
    CASE r.type = "CONNACK" -> [type |-> r.type, rc |-> ConnackCode(r.rc)]
      [] r.type = "SUBACK" -> [type |-> r.type, mid |-> r.mid, name |-> client.meant[r.mid].name,
                               rc |-> IF r.granted = 128 THEN 2 ELSE 0]
      [] r.type = "PUBACK" -> [type |-> r.type, mid |-> r.mid, rc |-> 0]
      [] OTHER -> r
Known(h) ==
    CASE h.type = "PUBLISH" -> [type |-> h.type, dup |-> h.dup, retain |-> h.retain, qos |-> h.qos,
                                name |-> NameOf(gateway.topics, h.tid), mid |-> h.mid,
                                data |-> h.data]
      [] h.type = "SUBACK" -> [type |-> h.type, mid |-> h.mid,
                               name |-> NameOf(gateway.topics, h.tid), rc |-> h.rc]
      [] OTHER -> h
OfBroker(h) == h.type \in Received
told == [i \in DOMAIN brokerSaid |-> Told(brokerSaid[i])]
known == LET theirs == SelectSeq(heard, OfBroker) IN [i \in DOMAIN theirs |-> Known(theirs[i])]

(* Of a retained publication nothing is claimed about the flags DUP and     *)
(* RETAIN: handlePublish() marks it as a duplicate instead.  published() of *)
(* the client asks for neither.                                            *)
ClientTakes(read, r) ==
    \/ read = r
    \/ /\ r.type = "PUBLISH" /\ r.retain /\ read.type = "PUBLISH"
       /\ [read EXCEPT !.dup = r.dup, !.retain = TRUE] = r

(* All the way down: the client reads what the broker has said, with the id *)
(* of the topic that the broker has named, in order and, if nothing has    *)
(* happened, without a gap, each field but the two flags of a retained     *)
(* publication; and a REGACK it reads is about the topic that it has asked *)
(* for.  Not so when a packet comes in two parts, when another node's      *)
(* message is taken for the gateway's, or a checksum misses a loss.        *)
ClientReadsSaid ==
    disturbed \cap {"split", "foreign", "garbled"} = {} =>
        /\ IF disturbed = {} THEN Begins(known, told, ClientTakes)
           ELSE Embedded(known, told, ClientTakes)
        /\ \A i \in DOMAIN heard : heard[i].type = "REGACK" =>
              client.meant[heard[i].mid].name = NameOf(gateway.topics, heard[i].tid)

(* Nothing is under way any more. *)
Still ==
    /\ ~Arrived.ready /\ down = <<>> /\ toBroker = <<>> /\ fromBroker = <<>>
    /\ ~client.waits /\ client.owed = <<>>

(* When nothing is under way and nothing has happened to a message, all     *)
(* that was said either way has been read, no octet is left over, and no   *)
(* one waits for an answer.                                                *)
AllArrive ==
    (Still /\ disturbed = {}) =>
        /\ Len(brokerRead) = Len(said) /\ Begins(brokerRead, said, BrokerTakes)
        /\ Len(known) = Len(told) /\ Begins(known, told, ClientTakes)
        /\ up = <<>>
        /\ client.dialog \in {"connecting", "connected", "over"} \/ ~client.asked
        /\ client.open = {}
=============================================================================
