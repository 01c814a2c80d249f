----------------------------- MODULE XBeeFrames -----------------------------
(***************************************************************************)
(* The frames in which the programs exchange messages with their XBee      *)
(* modems: what ZBStack (gateway) and NetworkXBee (client) write to and    *)
(* read from the serial line, and what the modem itself makes of it.       *)
(* Where the code has a loop over octets, the recursion halves them.       *)
(***************************************************************************)
EXTENDS Octets, SequencesExt

Escaped(s) == FlattenSeq([i \in 1 .. Len(s) |-> SendByte(s[i])])

Half(s) == Len(s) \div 2

RECURSIVE Sum(_)
Sum(s) ==
    IF Len(s) < 2 THEN (IF s = <<>> THEN 0 ELSE s[1])
    ELSE (Sum(SubSeq(s, 1, Half(s))) + Sum(From(s, Half(s) + 1))) % 256
Checksum(s) == 255 - Sum(s)

Api == [REQUEST |-> 16, STATUS |-> 139, RESPONSE |-> 144]
Broadcast64 == <<0, 0, 0, 0, 0, 0, 255, 255>>
Broadcast16 == <<255, 254>>

-----------------------------------------------------------------------------
(* send().  The client writes its frame id and the address as they are, the *)
(* gateway escapes the address and leaves the frame id 0.                  *)

(* "if ( _frameId++ == 0 ) _frameId = 1;" does not skip 0.                  *)
NextFrameId(id) == (id + 1) % 256

Request(id, to, payload) == <<Api.REQUEST, id>> \o to \o <<0, 0>> \o payload

(* Fault: the checksum without the frame id. *)
ClientFrameNoId(id, to, payload) ==
    <<START>> \o Escaped(<<0, (14 + Len(payload)) % 256>>) \o <<Api.REQUEST, id>> \o to
    \o Escaped(<<0, 0>> \o payload \o <<Checksum(Request(0, to, payload))>>)

ClientFrame(id, to, payload) ==
    <<START>> \o Escaped(<<0, (14 + Len(payload)) % 256>>) \o <<Api.REQUEST, id>> \o to
    \o Escaped(<<0, 0>> \o payload \o <<Checksum(Request(id, to, payload))>>)

GatewayFrame(to, payload) ==
    LET body == Request(0, to, payload)
    IN <<START>> \o Escaped(<<0, (14 + Len(payload)) % 256>> \o body \o <<Checksum(body)>>)

-----------------------------------------------------------------------------
(* The modem, in API mode 2: it begins anew at a START and drops what is not *)
(* a whole request with the right checksum.                                *)

(* u: the octets since the last START, without their escapes. *)
RECURSIVE Unescape(_, _)
Unescape(u, s) ==
    IF Len(s) > 1 THEN Unescape(Unescape(u, SubSeq(s, 1, Half(s))), From(s, Half(s) + 1))
    ELSE IF s = <<>> THEN u
    ELSE IF s[1] = START THEN [out |-> <<>>, esc |-> FALSE]
    ELSE IF u.esc THEN [out |-> Append(u.out, Flip(s[1])), esc |-> FALSE]
    ELSE IF s[1] = ESCAPE THEN [u EXCEPT !.esc = TRUE]
    ELSE [u EXCEPT !.out = Append(@, s[1])]

(* The request in a frame that was written, <<>> if there is none. *)
Requested(frame) ==
    LET out == Unescape([out |-> <<>>, esc |-> FALSE], frame).out
        n   == IF Len(out) > 2 THEN GetUint16(out, 1) ELSE 65535
    IN IF Len(out) < n + 3 \/ n < 14 THEN <<>>
       ELSE IF Sum(SubSeq(out, 3, n + 3)) # 255 \/ out[3] # Api.REQUEST THEN <<>>
       ELSE <<[id |-> out[4], to |-> SubSeq(out, 5, 12), payload |-> SubSeq(out, 17, n + 2)]>>

Frame(body) == <<START>> \o Escaped(SetUint16(Len(body)) \o body \o <<Checksum(body)>>)

(* What has come by radio, and that it has arrived.  An option of 2: it was  *)
(* sent to all.                                                            *)
Response(from, option, payload) ==
    Frame(<<Api.RESPONSE>> \o from \o <<255, 254, option>> \o payload)
Status(id) == Frame(<<Api.STATUS, id, 255, 254, 0, 0, 0>>)

-----------------------------------------------------------------------------
(* readApiFrame() of the client: up to a START, then as many octets as the  *)
(* second octet of the length says, then the checksum.  An octet that does *)
(* not come in time is taken to be the one before it.                      *)

RecvByte(r) ==
    LET n == IF r.s[1] = ESCAPE /\ Len(r.s) > 1 THEN 2 ELSE 1
        b == IF n = 2 THEN Flip(r.s[2]) ELSE r.s[1]
    IN [b |-> b, s |-> From(r.s, n + 1), data |-> Append(r.data, b)]

RECURSIVE RecvBytes(_, _)
RecvBytes(r, n) ==
    IF r.s = <<>> THEN [r EXCEPT !.data = @ \o [i \in 1 .. n |-> r.b]]
    ELSE IF n > 1 THEN RecvBytes(RecvBytes(r, n \div 2), n - (n \div 2))
    ELSE IF n = 1 THEN RecvByte(r) ELSE r

(* What is read, <<>> if the checksum is wrong, and what is still pending.   *)
(* After a wrong checksum the line is flushed.                             *)
ReadApiFrame(s) ==
    LET start == {i \in 1 .. Len(s) : s[i] = START}
        first == CHOOSE i \in start : \A j \in start : i <= j
        size  == RecvBytes([b |-> START, s |-> From(s, first + 1), data |-> <<>>], 2)
        body  == RecvBytes([size EXCEPT !.data = <<>>], size.b)
        check == RecvBytes(body, 1)
    IN IF start = {} THEN [data |-> <<>>, rest |-> <<>>]
       ELSE IF check.b = Checksum(body.data) THEN [data |-> body.data, rest |-> check.s]
       ELSE [data |-> <<>>, rest |-> <<>>]

(* Only a message of the gateway is taken, or one whose first octet has the *)
(* bit that in the options would say that it was sent to all.              *)
FromGateway(data, gw) == SubSeq(data, 2, 9) = gw \/ (Len(data) > 12 /\ Bit(data[13], 2))

-----------------------------------------------------------------------------
(* readApiFrame() of the gateway, one octet after the other.  pos is 0 when  *)
(* no frame has begun; that an octet which is no START then counts, too, is *)
(* the code's.  The octet at pos is kept at data[pos].                     *)

MaxFrameData == 128
ApiIdPos == 3

Fresh == [pos |-> 0, sum |-> 0, data |-> <<>>, esc |-> FALSE, end |-> "no", used |-> 0]

Store(data, pos, b) == IF pos > Len(data) THEN Append(data, b) ELSE [data EXCEPT ![pos] = b]

(* An octet, its escape undone. *)
Take(f, b) ==
    LET sum == IF f.pos >= ApiIdPos THEN (f.sum + b) % 256 ELSE f.sum
    IN IF f.pos > MaxFrameData THEN [f EXCEPT !.end = "error"]
       ELSE IF f.pos > 2 /\ f.pos = f.data[2] + 3
       THEN [f EXCEPT !.end = IF sum = 255 THEN "done" ELSE "error"]
       ELSE [f EXCEPT !.pos = @ + 1, !.sum = sum,
                      !.data = IF f.pos > 0 THEN Store(@, f.pos, b) ELSE @]

RECURSIVE GatherOn(_, _)
GatherOn(f, s) ==
    IF f.end # "no" \/ s = <<>> THEN f
    ELSE IF Len(s) > 1 THEN GatherOn(GatherOn(f, SubSeq(s, 1, Half(s))), From(s, Half(s) + 1))
    ELSE LET now == [f EXCEPT !.used = @ + 1, !.esc = FALSE]
         IN IF f.esc THEN Take(now, Flip(s[1]))
            ELSE IF s[1] = START THEN [now EXCEPT !.pos = 1, !.sum = 0]
            ELSE IF s[1] = ESCAPE /\ f.pos > 0 THEN [now EXCEPT !.esc = TRUE]
            ELSE Take(now, s[1])
Gather(s) == GatherOn(Fresh, s)

(* getResponce(): the payload of a RESPONSE, <<>> for anything else. *)
PayloadOffset == 15
Payload(f) ==
    IF f.end = "done" /\ f.data[ApiIdPos] = Api.RESPONSE
    THEN SubSeq(f.data, PayloadOffset, f.pos - 1) ELSE <<>>
=============================================================================
