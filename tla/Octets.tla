------------------------------- MODULE Octets -------------------------------
(***************************************************************************)
(* The conversions between numbers and octets that both programs are built *)
(* from: flags, 16-bit numbers, strings with their length, the remaining   *)
(* length of MQTT, and the escapes of an XBee modem.  A message is a       *)
(* sequence of octets; the code's offset n is place n + 1 of it.           *)
(***************************************************************************)
EXTENDS Naturals, Sequences

Octet == 0 .. 255
Uint16 == 0 .. 65535

Bit(v, mask) == (v \div mask) % 2 = 1
Flag(b, mask) == IF b THEN mask ELSE 0
From(s, i) == SubSeq(s, i, Len(s))

(* Fault: the low octet is not cut off. *)
SetUint16Whole(v) == <<v \div 256, v>>

SetUint16(v) == <<v \div 256, v % 256>>

GetUint16(s, i) == 256 * s[i] + s[i + 1]

(* A string, and the string that begins at place i.                        *)
UtfSerialize(str) == SetUint16(Len(str)) \o str
UtfAt(s, i) == SubSeq(s, i + 2, i + 1 + GetUint16(s, i))

-----------------------------------------------------------------------------
(* RemainingLength: base 128, the lowest digit first, the bit 128 on all    *)
(* but the last.  encode() is given 16 bits and so never makes a fourth    *)
(* digit; in decode() the fourth multiplier has become 0.                  *)

RemEncode(n) ==
    IF n < 128 THEN <<n>>
    ELSE IF n < 16384 THEN <<128 + (n % 128), n \div 128>>
    ELSE <<128 + (n % 128), 128 + ((n \div 128) % 128), n \div 16384>>

RemSize(s, i) ==
    IF s[i] < 128 THEN 1
    ELSE IF s[i + 1] < 128 THEN 2
    ELSE IF s[i + 2] < 128 THEN 3 ELSE 4

RemDecode(s, i) ==
    ((s[i] % 128)
     + (IF RemSize(s, i) > 1 THEN 128 * (s[i + 1] % 128) ELSE 0)
     + (IF RemSize(s, i) > 2 THEN 16384 * (s[i + 2] % 128) ELSE 0)) % 65536

-----------------------------------------------------------------------------
(* sendByte(): an octet that means something to the modem is sent as       *)
(* ESCAPE and the octet with its bit 0x20 turned.                          *)

START == 126
ESCAPE == 125
Special == {START, ESCAPE, 17, 19}

Flip(b) == IF Bit(b, 32) THEN b - 32 ELSE b + 32

SendByte(b) == IF b \in Special THEN <<ESCAPE, Flip(b)>> ELSE <<b>>
=============================================================================
