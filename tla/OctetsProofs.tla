---------------------------- MODULE OctetsProofs ----------------------------
(***************************************************************************)
(* What is written is what is read, for every number and every octet.  The *)
(* message a number is read from is any s that begins with its octets.     *)
(***************************************************************************)
EXTENDS Octets, TLAPS

Begins(s, p) == \A i \in DOMAIN p : s[i] = p[i]

LEMMA Halves ==
    ASSUME NEW n \in Nat, n < 65536
    PROVE  n \div 256 < 256 /\ n % 256 < 256 /\ n \div 256 \in Nat /\ n % 256 \in Nat
OBVIOUS

LEMMA Fits == ASSUME NEW n \in Nat, n < 65536 PROVE n % 65536 = n
OBVIOUS

(* A 16-bit number is written as two octets and read again, whatever       *)
(* follows them: setUint16() and getUint16(), which carry all ids.         *)
THEOREM Uint16RoundTrip ==
    ASSUME NEW n \in Uint16, NEW s, Begins(s, SetUint16(n))
    PROVE  /\ SetUint16(n) \in Octet \X Octet
           /\ GetUint16(s, 1) = n
<1>0. n \in Nat /\ n < 65536
  BY DEF Uint16
<1>1. n \div 256 \in Octet /\ n % 256 \in Octet
  <2>1. n \div 256 < 256 /\ n % 256 < 256 /\ n \div 256 \in Nat /\ n % 256 \in Nat
    BY <1>0, Halves
  <2> QED BY <2>1 DEF Octet
<1>2. n = 256 * (n \div 256) + (n % 256)
  BY DEF Uint16
<1>3. s[1] = n \div 256 /\ s[2] = n % 256
  BY DEF Begins, SetUint16
<1>4. GetUint16(s, 1) = n
  BY <1>2, <1>3 DEF GetUint16
<1> QED
  BY <1>1, <1>4 DEF SetUint16

LEMMA TwoDigits ==
    ASSUME NEW n \in Nat, n >= 128, n < 16384
    PROVE  /\ 128 + (n % 128) \in 128 .. 255 /\ n \div 128 \in 1 .. 127
           /\ (128 + (n % 128)) % 128 = n % 128 /\ (n \div 128) % 128 = n \div 128
           /\ (n % 128) + 128 * (n \div 128) = n
OBVIOUS

LEMMA ThreeDigits ==
    ASSUME NEW n \in Nat, n >= 16384, n < 65536
    PROVE  /\ 128 + (n % 128) \in 128 .. 255
           /\ 128 + ((n \div 128) % 128) \in 128 .. 255 /\ n \div 16384 \in 1 .. 3
           /\ (128 + (n % 128)) % 128 = n % 128
           /\ (128 + ((n \div 128) % 128)) % 128 = (n \div 128) % 128
           /\ (n \div 16384) % 128 = n \div 16384
           /\ (n % 128) + 128 * ((n \div 128) % 128) + 16384 * (n \div 16384) = n
OBVIOUS

(* The remaining length that encode() makes of 16 bits has one to three    *)
(* digits, and decode() reads the length from them, whatever follows.      *)
THEOREM RemainingLengthRoundTrip ==
    ASSUME NEW n \in Uint16, NEW s, Begins(s, RemEncode(n))
    PROVE  /\ RemSize(s, 1) = Len(RemEncode(n))
           /\ RemDecode(s, 1) = n
<1>0. n \in Nat /\ n < 65536 /\ n % 65536 = n
  <2>1. n \in Nat /\ n < 65536
    BY DEF Uint16
  <2> QED BY <2>1, Fits
<1>1. CASE n < 128
  <2>1. RemEncode(n) = <<n>>
    BY <1>1 DEF RemEncode
  <2>2. s[1] = n
    BY <2>1 DEF Begins
  <2>3. RemSize(s, 1) = 1
    BY <1>1, <2>2 DEF RemSize
  <2>4. n % 128 = n
    BY <1>0, <1>1
  <2>5. RemDecode(s, 1) = (n + 0 + 0) % 65536
    BY <2>2, <2>3, <2>4 DEF RemDecode
  <2> QED BY <1>0, <2>1, <2>3, <2>5
<1>2. CASE n >= 128 /\ n < 16384
  <2> DEFINE a == 128 + (n % 128)
             b == n \div 128
  <2>1. RemEncode(n) = <<a, b>>
    BY <1>0, <1>2 DEF RemEncode
  <2>2. s[1] = a /\ s[2] = b
    BY <2>1 DEF Begins
  <2>3. /\ a \in 128 .. 255 /\ b \in 1 .. 127
        /\ a % 128 = n % 128 /\ b % 128 = b /\ (n % 128) + 128 * b = n
    BY <1>0, <1>2, TwoDigits
  <2> HIDE DEF a, b
  <2>4. RemSize(s, 1) = 2
    BY <2>2, <2>3 DEF RemSize
  <2>5. RemDecode(s, 1) = ((a % 128) + 128 * (b % 128) + 0) % 65536
    BY <2>2, <2>4 DEF RemDecode
  <2>6. (a % 128) + 128 * (b % 128) + 0 = n
    BY <1>0, <2>3
  <2> QED BY <1>0, <2>1, <2>4, <2>5, <2>6
<1>3. CASE n >= 16384
  <2> DEFINE a == 128 + (n % 128)
             b == 128 + ((n \div 128) % 128)
             c == n \div 16384
  <2>1. RemEncode(n) = <<a, b, c>>
    BY <1>0, <1>3 DEF RemEncode
  <2>2. s[1] = a /\ s[2] = b /\ s[3] = c
    BY <2>1 DEF Begins
  <2>3. /\ a \in 128 .. 255 /\ b \in 128 .. 255 /\ c \in 1 .. 3
        /\ (a % 128) + 128 * (b % 128) + 16384 * (c % 128) = n
    BY <1>0, <1>3, ThreeDigits
  <2> HIDE DEF a, b, c
  <2>4. RemSize(s, 1) = 3
    BY <2>2, <2>3 DEF RemSize
  <2>5. RemDecode(s, 1) = ((a % 128) + 128 * (b % 128) + 16384 * (c % 128)) % 65536
    BY <2>2, <2>4 DEF RemDecode
  <2> QED BY <1>0, <2>1, <2>3, <2>4, <2>5
<1> QED BY <1>0, <1>1, <1>2, <1>3

(* An octet that is sent escaped is never taken for the start of a frame,  *)
(* and turning its bit again gives the octet: what sendByte() escapes the  *)
(* readers of both programs restore.                                       *)
THEOREM EscapeRoundTrip ==
    ASSUME NEW b \in Octet
    PROVE  /\ Flip(b) \in Octet /\ Flip(Flip(b)) = b
           /\ \A i \in DOMAIN SendByte(b) : SendByte(b)[i] # START
           /\ SendByte(b)[1] = ESCAPE <=> Len(SendByte(b)) = 2
<1>1. Flip(b) \in Octet /\ Flip(Flip(b)) = b
  BY DEF Flip, Bit, Octet
<1>2. CASE b \in Special
  <2>1. b \in {126, 125, 17, 19}
    BY <1>2 DEF Special, START, ESCAPE
  <2>2. Flip(b) \in {94, 93, 49, 51}
    BY <2>1 DEF Flip, Bit
  <2>3. SendByte(b) = <<125, Flip(b)>>
    BY <1>2 DEF SendByte, ESCAPE
  <2> QED BY <1>1, <2>2, <2>3 DEF ESCAPE, START
<1>3. CASE b \notin Special
  <2>1. SendByte(b) = <<b>> /\ b # 126 /\ b # 125
    BY <1>3 DEF SendByte, Special, ESCAPE, START
  <2> QED BY <1>1, <2>1 DEF ESCAPE, START
<1> QED BY <1>2, <1>3
=============================================================================
