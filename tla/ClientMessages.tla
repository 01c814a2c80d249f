--------------------------- MODULE ClientMessages ---------------------------
(***************************************************************************)
(* The MQTT-SN messages as the client writes them into its buffers and     *)
(* reads them.  readMsg() steps over the octet of the length, so a reader  *)
(* sees a message that begins with its type.                               *)
(***************************************************************************)
EXTENDS SnMessages

SetBit(v, mask) == IF Bit(v, mask) THEN v ELSE v + mask

(* connect(): the octet of the flags is the third of the buffer _msg.  It   *)
(* is written when a clean session is asked for, and is otherwise what the *)
(* last message in the buffer has left there.                              *)
IdLen == 23
ConnectFlags(clean, will, left) ==
    LET f == IF clean THEN CLEAN ELSE left IN IF will THEN SetBit(f, WILL) ELSE f

SayConnect(flags, keepAlive, id) ==
    LET n == IF Len(id) > IdLen THEN IdLen ELSE Len(id)
    IN <<6 + n, Type.CONNECT, flags, 1>> \o SetUint16(keepAlive) \o SubSeq(id, 1, n)

(* initialize() takes QoS and retain as they are configured, 0 to 2 and 0  *)
(* or 1, for flags; setWillTopic(), which would shift them, has no caller. *)
SayWillTopic(qos, retain, topic) ==
    <<3 + Len(topic), Type.WILLTOPIC, IF retain THEN SetBit(qos, 1) ELSE qos>> \o topic
SayWillMsg(msg) == <<2 + Len(msg), Type.WILLMSG>> \o msg

SaySearchGw == <<3, Type.SEARCHGW, 0>>
SayPingReq == <<2, Type.PINGREQ>>

SayDisconnect(secs) ==
    IF secs > 0 THEN <<4, Type.DISCONNECT>> \o SetUint16(secs) ELSE <<2, Type.DISCONNECT>>

SayRegister(mid, name) == <<6 + Len(name), Type.REGISTER, 0, 0>> \o SetUint16(mid) \o name

(* sendPublish(): more than 128 octets go out with a length of 16 bits.     *)
(* The octet after it is not written - what the stack holds there is taken *)
(* to be no type of a message - and the length is one short of the message.*)
Unset == 255
SayPublish(flags, tid, mid, data) ==
    LET rest == <<Type.PUBLISH, flags>> \o SetUint16(tid) \o SetUint16(mid) \o data
    IN IF Len(data) > 128
       THEN SubSeq(<<1>> \o SetUint16(Len(data) + 9) \o <<Unset>> \o rest, 1, Len(data) + 9)
       ELSE <<Len(data) + 7>> \o rest

SayPubAck(tid, mid, rc) == <<7, Type.PUBACK>> \o SetUint16(tid) \o SetUint16(mid) \o <<rc>>
SayPubRel(mid) == <<4, Type.PUBREL>> \o SetUint16(mid)

(* send() of SubscribeManager, for a topic that is named. *)
SaySubscribe(type, qos, mid, name) ==
    <<5 + Len(name), type, QosFlag(qos)>> \o SetUint16(mid) \o name

(* responceRegister(): the four octets are copied from one place too far,  *)
(* the gateway does not read them.  Without a name the last is not set.    *)
SayRegAck(msg, rc) == <<7, Type.REGACK>> \o SubSeq(msg \o <<Unset>>, 3, 6) \o <<rc>>

-----------------------------------------------------------------------------
ReadMsg(raw) == IF raw[1] = 1 THEN raw ELSE From(raw, 2)

TypeName(t) ==
    LET n == {k \in DOMAIN Type : Type[k] = t}
    IN IF n = {} THEN "none" ELSE CHOOSE k \in n : TRUE

(* What each reader takes from a message, by its type. *)
Hear(msg) ==
    LET t == TypeName(msg[1])
    IN CASE t = "CONNACK" -> [type |-> t, rc |-> msg[2]]
         [] t = "PUBACK" -> [type |-> t, mid |-> GetUint16(msg, 4), rc |-> msg[6]]
         [] t \in {"PUBREC", "PUBREL", "PUBCOMP", "UNSUBACK"} ->
                [type |-> t, mid |-> GetUint16(msg, 2)]
         [] t = "SUBACK" -> [type |-> t, tid |-> GetUint16(msg, 3),
                             mid |-> GetUint16(msg, 5), rc |-> msg[7]]
         [] t = "REGACK" -> [type |-> t, tid |-> GetUint16(msg, 2), mid |-> GetUint16(msg, 4)]
         [] t = "REGISTER" -> [type |-> t, name |-> From(msg, 6)]
         [] t = "PUBLISH" -> [type |-> t, dup |-> Bit(msg[2], DUP),
                              retain |-> Bit(msg[2], RETAIN), qos |-> QosOf(msg[2]),
                              tid |-> GetUint16(msg, 3), mid |-> GetUint16(msg, 5),
                              data |-> From(msg, 7)]
         [] t = "ADVERTISE" -> [type |-> t, duration |-> GetUint16(msg, 3)]
         [] t = "GWINFO" -> [type |-> t, id |-> msg[2]]
         [] OTHER -> [type |-> t]
=============================================================================
