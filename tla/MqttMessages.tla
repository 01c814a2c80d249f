---------------------------- MODULE MqttMessages ----------------------------
(***************************************************************************)
(* The MQTT packets as the gateway's classes write them for the broker and *)
(* read them, and the loop of BrokerRecvTask that takes them out of what   *)
(* recv() has brought.                                                     *)
(***************************************************************************)
EXTENDS Octets

MqttType == [CONNECT |-> 16, CONNACK |-> 32, PUBLISH |-> 48, PUBACK |-> 64,
             PUBREC |-> 80, PUBREL |-> 96, PUBCOMP |-> 112, SUBSCRIBE |-> 128,
             SUBACK |-> 144, UNSUBSCRIBE |-> 160, UNSUBACK |-> 176, PINGREQ |-> 192,
             PINGRESP |-> 208, DISCONNECT |-> 224]

VER3 == 3
VER4 == 4
NAME3 == <<77, 81, 73, 115, 100, 112>>
NAME4 == <<77, 81, 84, 84>>

(* The first octet, the remaining length, the rest. *)
Packet(first, rest) == <<first>> \o RemEncode(Len(rest)) \o rest

-----------------------------------------------------------------------------
(* What the gateway writes.  serialize() of the base class: a message id if  *)
(* the remaining length is not 0.                                          *)

MqttBare(type) == Packet(type, <<>>)
MqttPubAck(mid) == Packet(MqttType.PUBACK, SetUint16(mid))
MqttPubRel(mid) == Packet(MqttType.PUBREL + 2, SetUint16(mid))

(* A member of c that is <<>> is one that was not set; will is topic, message *)
(* and QoS, login is user and password.                                    *)
MqttConnect(c) ==
    LET name == IF c.protocol = VER4 THEN NAME4 ELSE NAME3
        flags == Flag(c.clean, 2)
                 + (IF c.will # <<>> THEN 4 + 8 * c.will[3] ELSE 0)
                 + (IF c.login # <<>> THEN 128 + 64 ELSE 0)
    IN Packet(MqttType.CONNECT,
              UtfSerialize(name) \o <<c.protocol, flags>> \o SetUint16(c.keepAlive)
              \o UtfSerialize(c.id)
              \o (IF c.will # <<>> THEN UtfSerialize(c.will[1]) \o UtfSerialize(c.will[2])
                  ELSE <<>>)
              \o (IF c.login # <<>> THEN UtfSerialize(c.login[1]) \o UtfSerialize(c.login[2])
                  ELSE <<>>))

MqttPublish(p) ==
    Packet(MqttType.PUBLISH + Flag(p.dup, 8) + 2 * p.qos + Flag(p.retain, 1),
           UtfSerialize(p.name) \o (IF p.qos > 0 THEN SetUint16(p.mid) ELSE <<>>) \o p.data)

MqttSubscribe(mid, name, qos) ==
    Packet(MqttType.SUBSCRIBE + 2, SetUint16(mid) \o UtfSerialize(name) \o <<qos>>)

MqttUnsubscribe(mid, name) ==
    Packet(MqttType.UNSUBSCRIBE + 2, SetUint16(mid) \o UtfSerialize(name))

-----------------------------------------------------------------------------
(* What the gateway reads, in s from place i on.  deserialize() does not    *)
(* know where the data end; behind them the buffer holds zeros.            *)

MqttTypeName(octet) ==
    LET t == {n \in DOMAIN MqttType : MqttType[n] = 16 * (octet \div 16)}
    IN IF t = {} THEN "none" ELSE CHOOSE n \in t : TRUE

ReadMid(s, i) == [type |-> MqttTypeName(s[i]), mid |-> GetUint16(s, i + 2)]
ReadConnack(s, i) == [type |-> "CONNACK", rc |-> s[i + 3]]
ReadSuback(s, i) ==
    LET at == i + 1 + RemSize(s, i + 1)
    IN [type |-> "SUBACK", mid |-> GetUint16(s, at), granted |-> s[at + 2]]

ReadPublish(s, i) ==
    LET qos  == (s[i] \div 2) % 4
        at   == i + 1 + RemSize(s, i + 1)
        name == UtfAt(s, at)
        body == at + 2 + Len(name) + (IF qos > 0 THEN 2 ELSE 0)
        len  == (RemDecode(s, i + 1) + at - body) % 256
    IN [type |-> "PUBLISH", dup |-> Bit(s[i], 8), retain |-> Bit(s[i], 1), qos |-> qos,
        name |-> name, mid |-> IF qos > 0 THEN GetUint16(s, at + 2 + Len(name)) ELSE 0,
        data |-> SubSeq(s, body, body + len - 1)]

ReadPacket(s, i) ==
    LET t == MqttTypeName(s[i])
    IN CASE t = "PUBLISH" -> ReadPublish(s, i)
         [] t = "SUBACK" -> ReadSuback(s, i)
         [] t = "CONNACK" -> ReadConnack(s, i)
         [] t = "PINGRESP" -> [type |-> t]
         [] OTHER -> ReadMid(s, i)

Received == {"PUBACK", "PUBREC", "PUBREL", "PUBCOMP", "PUBLISH", "SUBACK", "PINGRESP",
             "UNSUBACK", "CONNACK"}

PacketLength(s, i) == 1 + RemSize(s, i + 1) + RemDecode(s, i + 1)

(* recvAndFireEvent(): the packets of what one recv() has brought, up to    *)
(* the first of a type that is not received.                               *)
Buffer == 300       \* bound: as many of the zeros behind the data as are ever read
Packets(brought) ==
    LET s == brought \o [i \in 1 .. Buffer |-> 0]
        from[at \in Nat] ==
            IF at > Len(brought) \/ MqttTypeName(s[at]) \notin Received THEN <<>>
            ELSE <<ReadPacket(s, at)>> \o from[at + PacketLength(s, at)]
    IN from[1]
=============================================================================
