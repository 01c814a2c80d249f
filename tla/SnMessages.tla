----------------------------- MODULE SnMessages -----------------------------
(***************************************************************************)
(* The MQTT-SN messages as the gateway's classes write and read them.  A   *)
(* message is the sequence of its octets: the length, the type, the body.  *)
(***************************************************************************)
EXTENDS Octets

Type == [ADVERTISE |-> 0, SEARCHGW |-> 1, GWINFO |-> 2, CONNECT |-> 4, CONNACK |-> 5,
         WILLTOPICREQ |-> 6, WILLTOPIC |-> 7, WILLMSGREQ |-> 8, WILLMSG |-> 9,
         REGISTER |-> 10, REGACK |-> 11, PUBLISH |-> 12, PUBACK |-> 13,
         PUBCOMP |-> 14, PUBREC |-> 15, PUBREL |-> 16, SUBSCRIBE |-> 18,
         SUBACK |-> 19, UNSUBSCRIBE |-> 20, UNSUBACK |-> 21, PINGREQ |-> 22,
         PINGRESP |-> 23, DISCONNECT |-> 24]

DUP == 128
RETAIN == 16
WILL == 8
CLEAN == 4
QosFlag(q) == IF q = 1 THEN 32 ELSE IF q = 2 THEN 64 ELSE 0
QosOf(flags) == (flags \div 32) % 4

Kind == [NORMAL |-> 0, PREDEFINED |-> 1, SHORT |-> 2, RESV |-> 3]
KindOf(flags) == flags % 4

RC == [ACCEPTED |-> 0, CONGESTION |-> 1, INVALID_TOPIC_ID |-> 2, NOT_SUPPORTED |-> 3]

-----------------------------------------------------------------------------
(* The base class.  A message of more than 255 octets gets a header of four *)
(* without more room for it, and in the header the upper half of a length  *)
(* of 32 bits.  Of a message with the octet 1 in front, absorb() takes the  *)
(* octet that is the type for the length, too; no type is found for it.    *)

SnMessage(type, body) ==
    LET n == Len(body) + 2
    IN IF n < 256 THEN <<n, type>> \o body
       ELSE SubSeq(<<1, 0, 0, type>> \o body, 1, n)

SnTypeOf(raw) == IF raw[1] = 1 THEN raw[4] ELSE raw[2]
SnAbsorb(raw) == SubSeq(raw, 1, IF Len(raw) < raw[1] THEN Len(raw) ELSE raw[1])

-----------------------------------------------------------------------------
(* What the gateway reads.                                                 *)

SnConnect(m) == [clean |-> Bit(m[3], CLEAN), will |-> Bit(m[3], WILL),
                 duration |-> GetUint16(m, 5), id |-> From(m, 7)]

(* getQos() is "(_flags && ...) >> 5", which is 0, and no one asks for the  *)
(* bit that says retain.                                                   *)
SnWillTopic(m) == [topic |-> From(m, 4), qos |-> 0]

SnWillMsg(m) == From(m, 3)

SnRegister(m) == [mid |-> GetUint16(m, 5), name |-> From(m, 7)]

(* Fault: the message id is taken from the place of the topic's.           *)
SnPublishMidEarly(m) ==
    [dup |-> Bit(m[3], DUP), retain |-> Bit(m[3], RETAIN), qos |-> QosOf(m[3]),
     kind |-> KindOf(m[3]), tid |-> GetUint16(m, 4), mid |-> GetUint16(m, 5),
     data |-> From(m, 8)]

SnPublish(m) ==
    [dup |-> Bit(m[3], DUP), retain |-> Bit(m[3], RETAIN), qos |-> QosOf(m[3]),
     kind |-> KindOf(m[3]), tid |-> GetUint16(m, 4), mid |-> GetUint16(m, 6),
     data |-> From(m, 8)]

(* UNSUBSCRIBE is read the same way. *)
SnSubscribe(m) ==
    [qos |-> QosOf(m[3]), kind |-> KindOf(m[3]), mid |-> GetUint16(m, 4),
     name |-> IF KindOf(m[3]) \in {Kind.NORMAL, Kind.SHORT} THEN From(m, 6) ELSE <<>>,
     tid |-> IF KindOf(m[3]) = Kind.PREDEFINED THEN GetUint16(m, 6) ELSE 0]

SnPubAckMid(m) == GetUint16(m, 5)
SnPubRelMid(m) == GetUint16(m, 3)

-----------------------------------------------------------------------------
(* What the gateway writes.                                                *)

SnAdvertise(id, sec) == SnMessage(Type.ADVERTISE, <<id>> \o SetUint16(sec))
SnGwInfo(id) == SnMessage(Type.GWINFO, <<id>>)
SnConnack(rc) == SnMessage(Type.CONNACK, <<rc>>)
SnWillTopicReq == SnMessage(Type.WILLTOPICREQ, <<>>)
SnWillMsgReq == SnMessage(Type.WILLMSGREQ, <<>>)
SnPingResp == SnMessage(Type.PINGRESP, <<>>)

SnRegAck(tid, mid, rc) ==
    SnMessage(Type.REGACK, SetUint16(tid) \o SetUint16(mid) \o <<rc>>)

SnRegisterOf(tid, mid, name) ==
    SnMessage(Type.REGISTER, SetUint16(tid) \o SetUint16(mid) \o name)

SnPublishOf(dup, qos, tid, mid, data) ==
    SnMessage(Type.PUBLISH, <<Flag(dup, DUP) + QosFlag(qos)>>
                            \o SetUint16(tid) \o SetUint16(mid) \o data)

SnPubAck(tid, mid, rc) ==
    SnMessage(Type.PUBACK, SetUint16(tid) \o SetUint16(mid) \o <<rc>>)

(* PUBREC, PUBREL, PUBCOMP and UNSUBACK carry a message id only. *)
SnPubRec(mid) == SnMessage(Type.PUBREC, SetUint16(mid))
SnPubRel(mid) == SnMessage(Type.PUBREL, SetUint16(mid))
SnPubComp(mid) == SnMessage(Type.PUBCOMP, SetUint16(mid))
SnUnsubAck(mid) == SnMessage(Type.UNSUBACK, SetUint16(mid))

(* Fault: the ids in the order that PUBACK has them, without the flags.    *)
SnSubAckNoFlags(qos, tid, mid, rc) ==
    SnMessage(Type.SUBACK, SetUint16(tid) \o SetUint16(mid) \o <<rc, 0>>)

(* setQos() knows 1 only. *)
SnSubAck(qos, tid, mid, rc) ==
    SnMessage(Type.SUBACK, <<IF qos = 1 THEN 32 ELSE 0>>
                           \o SetUint16(tid) \o SetUint16(mid) \o <<rc>>)
=============================================================================
