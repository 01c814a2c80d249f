-------------------------- MODULE ClientNodeProofs --------------------------
(***************************************************************************)
(* Theorems about ClientNode, for any topics, any list of subscriptions    *)
(* and clients that publish, lose messages and disconnect as often as they *)
(* may: the inductive invariant about types (TypeInv), that of suspended   *)
(* publications (SusInv), and that of whoever says that a publication came *)
(* to the gateway (DoneInv).                                               *)
(***************************************************************************)
EXTENDS ClientNode, FiniteSetTheorems, SequenceTheorems, WellFoundedInduction, TLAPS

-----------------------------------------------------------------------------
(* Lemmas about queues and lists.                                          *)

(* What is in a queue after something was appended. *)
LEMMA AppendRange ==
    ASSUME NEW q, q \in Seq(Range(q)), NEW e
    PROVE  /\ Range(Append(q, e)) = Range(q) \cup {e}
           /\ Append(q, e) \in Seq(Range(Append(q, e)))
<1>1. /\ DOMAIN q = 1 .. Len(q) /\ Len(q) \in Nat
      /\ DOMAIN Append(q, e) = 1 .. (Len(q) + 1) /\ Append(q, e)[Len(q) + 1] = e
      /\ \A i \in 1 .. Len(q) : Append(q, e)[i] = q[i]
  OBVIOUS
<1>2. Range(q) \cup {e} \subseteq Range(Append(q, e))
  <2>1. \A i \in 1 .. Len(q) : i \in 1 .. (Len(q) + 1)
    BY <1>1
  <2> QED BY <1>1, <2>1 DEF Range
<1>3. Range(Append(q, e)) \subseteq Range(q) \cup {e}
  <2>1. \A i \in 1 .. (Len(q) + 1) : i \in 1 .. Len(q) \/ i = Len(q) + 1
    BY <1>1
  <2> QED BY <1>1, <2>1 DEF Range
<1>4. q \in Seq(Range(q) \cup {e})
  OBVIOUS
<1> QED BY <1>2, <1>3, <1>4

(* What is left in a queue after its head was taken. *)
LEMMA TailRange ==
    ASSUME NEW q, q \in Seq(Range(q)), q # << >>
    PROVE  /\ Head(q) \in Range(q) /\ Range(Tail(q)) \subseteq Range(q)
           /\ Tail(q) \in Seq(Range(Tail(q)))
           /\ DOMAIN Tail(q) = 1 .. (Len(q) - 1) /\ DOMAIN q = 1 .. Len(q) /\ Len(q) \in Nat \ {0}
           /\ \A i \in 1 .. (Len(q) - 1) : Tail(q)[i] = q[i + 1] /\ i + 1 \in 1 .. Len(q)
           /\ Head(q) = q[1]
<1>1. /\ DOMAIN q = 1 .. Len(q) /\ Len(q) \in Nat \ {0} /\ Head(q) = q[1]
      /\ DOMAIN Tail(q) = 1 .. (Len(q) - 1)
      /\ \A i \in 1 .. (Len(q) - 1) : Tail(q)[i] = q[i + 1] /\ i + 1 \in 1 .. Len(q)
  OBVIOUS
<1>2. Head(q) \in Range(q) /\ Range(Tail(q)) \subseteq Range(q)
  <2>2. Head(q) \in Range(q)
    BY <1>1 DEF Range
  <2>3. \A x \in Range(Tail(q)) : \E i \in 1 .. (Len(q) - 1) : x = q[i + 1]
    BY <1>1 DEF Range
  <2>4. Range(Tail(q)) \subseteq Range(q)
    BY <1>1, <2>3 DEF Range
  <2> QED BY <2>2, <2>4
<1>3. Tail(q) \in Seq(Range(q))
  BY HeadTailProperties
<1> DEFINE n == Len(Tail(q))
<1>4. n \in Nat /\ Tail(q) \in [1 .. n -> Range(q)]
  BY <1>3, LenProperties
<1>5. Tail(q) \in [1 .. n -> Range(Tail(q))]
  <2>1. DOMAIN Tail(q) = 1 .. n /\ Tail(q) = [i \in 1 .. n |-> Tail(q)[i]]
    BY <1>4
  <2>2. \A i \in 1 .. n : Tail(q)[i] \in Range(Tail(q))
    BY <2>1 DEF Range
  <2> QED BY <2>1, <2>2
<1>6. Tail(q) \in Seq(Range(Tail(q)))
  <2> HIDE DEF n
  <2>1. Seq(Range(Tail(q))) = UNION {[1 .. k -> Range(Tail(q))] : k \in Nat}
    BY SeqDef
  <2> QED BY <1>4, <1>5, <2>1
<1> QED BY <1>1, <1>2, <1>6

(* A sequence is one of what is in it. *)
LEMMA OfItsRange ==
    ASSUME NEW S, NEW q, q \in Seq(S)
    PROVE  q \in Seq(Range(q)) /\ Range(q) \subseteq S
<1> DEFINE n == Len(q)
<1>1. n \in Nat /\ q \in [1 .. n -> S] /\ DOMAIN q = 1 .. n
  OBVIOUS
<1> HIDE DEF n
<1>2. \A i \in 1 .. n : q[i] \in Range(q)
  BY <1>1 DEF Range
<1>3. q \in [1 .. n -> Range(q)]
  BY <1>1, <1>2
<1>4. q \in Seq(Range(q))
  <2>1. Seq(Range(q)) = UNION {[1 .. k -> Range(q)] : k \in Nat}
    BY SeqDef
  <2> QED BY <1>1, <1>3, <2>1
<1>5. Range(q) \subseteq S
  BY <1>1 DEF Range
<1> QED BY <1>4, <1>5

(* What is in a queue after a sequence was put behind it. *)
LEMMA ConcatRange ==
    ASSUME NEW q, q \in Seq(Range(q)), NEW r, r \in Seq(Range(r))
    PROVE  /\ Range(q \o r) = Range(q) \cup Range(r)
           /\ q \o r \in Seq(Range(q \o r))
           /\ DOMAIN (q \o r) = 1 .. (Len(q) + Len(r)) /\ Len(q) \in Nat /\ Len(r) \in Nat
           /\ \A i \in 1 .. (Len(q) + Len(r)) :
                (q \o r)[i] = IF i <= Len(q) THEN q[i] ELSE r[i - Len(q)]
<1>1. /\ DOMAIN q = 1 .. Len(q) /\ Len(q) \in Nat
      /\ DOMAIN r = 1 .. Len(r) /\ Len(r) \in Nat
  OBVIOUS
<1> DEFINE S == Range(q) \cup Range(r)
<1>2. q \in Seq(S) /\ r \in Seq(S)
  OBVIOUS
<1>3. /\ q \o r \in Seq(S) /\ Len(q \o r) = Len(q) + Len(r)
      /\ \A i \in 1 .. (Len(q) + Len(r)) :
                (q \o r)[i] = IF i <= Len(q) THEN q[i] ELSE r[i - Len(q)]
  <2> HIDE DEF S
  <2> QED BY <1>2, ConcatProperties
<1>4. DOMAIN (q \o r) = 1 .. (Len(q) + Len(r))
  BY <1>3
<1>5. Range(q) \cup Range(r) \subseteq Range(q \o r)
  <2>1. \A i \in 1 .. Len(q) : i \in 1 .. (Len(q) + Len(r)) /\ (q \o r)[i] = q[i]
    BY <1>1, <1>3
  <2>2. \A i \in 1 .. Len(r) : /\ i + Len(q) \in 1 .. (Len(q) + Len(r))
                               /\ (q \o r)[i + Len(q)] = r[i]
    <3> SUFFICES ASSUME NEW i \in 1 .. Len(r)
                 PROVE  /\ i + Len(q) \in 1 .. (Len(q) + Len(r))
                        /\ (q \o r)[i + Len(q)] = r[i]
      OBVIOUS
    <3>1. i + Len(q) \in 1 .. (Len(q) + Len(r)) /\ ~(i + Len(q) <= Len(q)) /\ i + Len(q) - Len(q) = i
      BY <1>1
    <3> QED BY <1>3, <3>1
  <2> QED BY <1>1, <1>4, <2>1, <2>2 DEF Range
<1>6. q \o r \in Seq(Range(q \o r)) /\ Range(q \o r) \subseteq S
  <2> HIDE DEF S
  <2> DEFINE t == q \o r
  <2>1. t \in Seq(S)
    BY <1>3
  <2> HIDE DEF t
  <2>2. t \in Seq(Range(t)) /\ Range(t) \subseteq S
    BY <2>1, OfItsRange
  <2> QED BY <2>2 DEF t
<1> QED BY <1>1, <1>3, <1>4, <1>5, <1>6

(* The ids of a list are distinct, and an element that is kept may lose    *)
(* its pointer to the element before.                                      *)
Unique(list) == \A i, j \in DOMAIN list : list[i].id = list[j].id => i = j
Like(x, y) == x = y \/ x = [y EXCEPT !.prev = 0]
Unlinked(S) == \A x \in S : [x EXCEPT !.prev = 0] \in S /\ [x EXCEPT !.prev = 0].id = x.id

(* The element with an id that is in the list. *)
LEMMA AtIsThere ==
    ASSUME NEW list, NEW id \in Ids(list)
    PROVE  At(list, id) \in DOMAIN list /\ list[At(list, id)].id = id
BY DEF Ids, At

(* remove() keeps every other element, and those only. *)
LEMMA RemovedKeeps ==
    ASSUME NEW S, Unlinked(S), NEW list \in Seq(S), Unique(list), NEW id \in Ids(list)
    PROVE  /\ Removed(list, id) \in Seq(S) /\ Unique(Removed(list, id))
           /\ \A x \in Range(Removed(list, id)) :
                x.id # id /\ \E y \in Range(list) : Like(x, y)
           /\ \A y \in Range(list) :
                y.id # id => \E x \in Range(Removed(list, id)) : Like(x, y)
<1> DEFINE n == Len(list)
<1> DEFINE i == At(list, id)
<1> DEFINE rest == RemoveAt(list, i)
<1> DEFINE to(j) == IF j < i THEN j ELSE j + 1
<1>1. n \in Nat /\ DOMAIN list = 1 .. n /\ i \in 1 .. n /\ list[i].id = id
  BY AtIsThere
<1>2. /\ rest \in Seq(S) /\ Len(rest) = n - 1
      /\ \A j \in 1 .. (n - 1) : rest[j] = list[to(j)]
  <2> DEFINE a == SubSeq(list, 1, i - 1)
  <2> DEFINE b == SubSeq(list, i + 1, n)
  <2>1. /\ a \in Seq(S) /\ Len(a) = i - 1
        /\ \A j \in 1 .. (i - 1) : a[j] = list[j]
    BY <1>1, SubSeqProperties
  <2>2. /\ b \in Seq(S) /\ Len(b) = n - i
        /\ \A j \in 1 .. (n - i) : b[j] = list[i + j]
    <3>1. i + 1 \in 1 .. n + 1 /\ n \in Nat
      BY <1>1
    <3> QED BY <1>1, <3>1, SubSeqProperties
  <2>3. rest = a \o b
    BY DEF RemoveAt
  <2> HIDE DEF a, b, rest, i, n
  <2>4. /\ rest \in Seq(S) /\ Len(rest) = Len(a) + Len(b)
        /\ \A j \in 1 .. (Len(a) + Len(b)) :
             rest[j] = IF j <= Len(a) THEN a[j] ELSE b[j - Len(a)]
    BY <2>1, <2>2, <2>3, ConcatProperties
  <2>5. Len(rest) = n - 1
    BY <1>1, <2>1, <2>2, <2>4
  <2>6. ASSUME NEW j \in 1 .. (n - 1)
        PROVE  rest[j] = list[to(j)]
    <3>1. j \in 1 .. (Len(a) + Len(b))
      BY <1>1, <2>1, <2>2
    <3>2. CASE j < i
      <4>1. j <= Len(a) /\ j \in 1 .. (i - 1)
        BY <1>1, <2>1, <3>2
      <4> QED BY <2>1, <2>4, <3>1, <3>2, <4>1
    <3>3. CASE ~(j < i)
      <4>1. ~(j <= Len(a)) /\ j - Len(a) \in 1 .. (n - i) /\ i + (j - Len(a)) = j + 1
        BY <1>1, <2>1, <3>3
      <4> QED BY <2>2, <2>4, <3>1, <3>3, <4>1
    <3> QED BY <3>2, <3>3
  <2> QED BY <2>4, <2>5, <2>6
<1>3. \A j \in 1 .. (n - 1) : to(j) \in 1 .. n /\ to(j) # i
  <2> HIDE DEF i, n
  <2> QED BY <1>1
<1>4. \A j, k \in 1 .. (n - 1) : to(j) = to(k) => j = k
  <2> HIDE DEF i, n
  <2> QED BY <1>1
<1>5. \A k \in 1 .. n : k # i => \E j \in 1 .. (n - 1) : to(j) = k
  <2> HIDE DEF i, n
  <2> SUFFICES ASSUME NEW k \in 1 .. n, k # i PROVE \E j \in 1 .. (n - 1) : to(j) = k
    OBVIOUS
  <2>1. CASE k < i
    BY <1>1, <2>1
  <2>2. CASE k > i
    <3>1. k - 1 \in 1 .. (n - 1) /\ ~(k - 1 < i) /\ k - 1 + 1 = k
      BY <1>1, <2>2
    <3> QED BY <3>1
  <2> QED BY <1>1, <2>1, <2>2
<1> HIDE DEF n, i, rest, to
<1> DEFINE new == Removed(list, id)
<1>6. /\ new \in Seq(S) /\ Len(new) = n - 1
      /\ \A j \in 1 .. (n - 1) : Like(new[j], list[to(j)]) /\ new[j].id = list[to(j)].id
  <2>1. DOMAIN rest = 1 .. (n - 1) /\ n - 1 \in Nat
    BY <1>1, <1>2
  <2>2. \A j \in 1 .. (n - 1) : rest[j] \in S
    BY <1>2, <2>1
  <2>3. CASE i = 1 /\ rest # << >>
    <3>1. new = [rest EXCEPT ![1].prev = 0]
      BY <2>3 DEF Removed, i, rest
    <3>2. 1 \in 1 .. (n - 1)
      BY <1>2, <2>1, <2>3
    <3>3. new = [j \in 1 .. (n - 1) |-> IF j = 1 THEN [rest[1] EXCEPT !.prev = 0] ELSE rest[j]]
      BY <2>1, <3>1, <3>2
    <3>4. /\ [rest[1] EXCEPT !.prev = 0] \in S /\ [rest[1] EXCEPT !.prev = 0].id = rest[1].id
      BY <2>2, <3>2 DEF Unlinked
    <3>5. \A j \in 1 .. (n - 1) : new[j] \in S /\ Like(new[j], rest[j]) /\ new[j].id = rest[j].id
      <4> HIDE DEF new
      <4> QED BY <2>2, <3>2, <3>3, <3>4 DEF Like
    <3>6. new \in [1 .. (n - 1) -> S]
      <4> HIDE DEF new
      <4> QED BY <3>3, <3>5
    <3>7. new \in Seq(S) /\ Len(new) = n - 1
      <4> HIDE DEF new
      <4> QED BY <2>1, <3>6
    <3> QED BY <1>2, <3>5, <3>7
  <2>4. CASE ~(i = 1 /\ rest # << >>)
    <3>1. new = rest
      BY <2>4 DEF Removed, i, rest
    <3> QED BY <1>2, <3>1 DEF Like
  <2> QED BY <2>3, <2>4
<1> HIDE DEF new
<1>7. DOMAIN new = 1 .. (n - 1) /\ n - 1 \in Nat
  BY <1>1, <1>6
<1>8. Unique(new)
  <2> SUFFICES ASSUME NEW j \in 1 .. (n - 1), NEW k \in 1 .. (n - 1), new[j].id = new[k].id
               PROVE  j = k
    BY <1>7 DEF Unique
  <2>1. list[to(j)].id = list[to(k)].id
    BY <1>6
  <2>2. to(j) = to(k)
    BY <1>1, <1>3, <2>1 DEF Unique
  <2> QED BY <1>4, <2>2
<1>9. ASSUME NEW x \in Range(new)
      PROVE  x.id # id /\ \E y \in Range(list) : Like(x, y)
  <2>1. PICK j \in 1 .. (n - 1) : x = new[j]
    BY <1>7 DEF Range
  <2>2. Like(x, list[to(j)]) /\ x.id = list[to(j)].id
    BY <1>6, <2>1
  <2>3. to(j) \in 1 .. n /\ to(j) # i
    BY <1>3
  <2>4. list[to(j)].id # id
    BY <1>1, <2>3 DEF Unique
  <2>5. list[to(j)] \in Range(list)
    BY <1>1, <2>3 DEF Range
  <2> QED BY <2>2, <2>4, <2>5
<1>10. ASSUME NEW y \in Range(list), y.id # id
       PROVE  \E x \in Range(new) : Like(x, y)
  <2>1. PICK k \in 1 .. n : y = list[k]
    BY <1>1 DEF Range
  <2>2. k # i
    BY <1>1, <1>10, <2>1
  <2>3. PICK j \in 1 .. (n - 1) : to(j) = k
    BY <1>5, <2>2
  <2>4. Like(new[j], y)
    BY <1>6, <2>1, <2>3
  <2>5. new[j] \in Range(new)
    BY <1>7 DEF Range
  <2> QED BY <2>4, <2>5
<1> QED BY <1>6, <1>8, <1>9, <1>10 DEF new

-----------------------------------------------------------------------------
(* Lemmas about the elements of the lists.                                 *)
PubStatus == {"READY", "SUSPEND", "WAIT_PUBACK", "WAIT_PUBREC", "WAIT_PUBCOMP"}

Pub == [id : Nat, name : Names, qos : 0..2, tid : Nat, st : PubStatus,
        retry : -1..Retry, timer : {"off", "on", "over"}, prev : Nat]
Reg == [id : Nat, name : Names, retry : -1..Retry, prev : Nat]
Sub == [id : Nat, name : Range(Subs), kind : {"SUBSCRIBE"}, retry : -1..Retry, prev : Nat]

LEMMA ElementsUnlinked == Unlinked(Pub) /\ Unlinked(Reg) /\ Unlinked(Sub)
BY DEF Unlinked, Pub, Reg, Sub

(* What two elements have in common that differ in their pointers only. *)
LEMMA LikePub ==
    ASSUME NEW x, NEW y \in Pub, Like(x, y)
    PROVE  /\ x \in Pub /\ x.id = y.id /\ x.name = y.name /\ x.qos = y.qos /\ x.tid = y.tid
           /\ x.st = y.st /\ x.retry = y.retry /\ x.timer = y.timer
BY DEF Like, Pub

LEMMA LikeReg ==
    ASSUME NEW x, NEW y \in Reg, Like(x, y)
    PROVE  x \in Reg /\ x.id = y.id /\ x.name = y.name /\ x.retry = y.retry
BY DEF Like, Reg

LEMMA LikeSub ==
    ASSUME NEW x, NEW y \in Sub, Like(x, y)
    PROVE  x \in Sub /\ x.id = y.id /\ x.name = y.name /\ x.retry = y.retry
BY DEF Like, Sub

(* add() of an element with an id that is new. *)
LEMMA AppendUnique ==
    ASSUME NEW S, NEW list \in Seq(S), Unique(list), NEW e \in S,
           \A x \in Range(list) : x.id # e.id
    PROVE  /\ Append(list, e) \in Seq(S) /\ Unique(Append(list, e))
           /\ Range(Append(list, e)) = Range(list) \cup {e}
<1> DEFINE n == Len(list)
<1> DEFINE new == Append(list, e)
<1>1. /\ new \in Seq(S) /\ DOMAIN list = 1 .. n /\ n \in Nat
      /\ DOMAIN new = 1 .. (n + 1) /\ new[n + 1] = e
      /\ \A i \in 1 .. n : new[i] = list[i]
  OBVIOUS
<1>2. Range(new) = Range(list) \cup {e}
  BY OfItsRange, AppendRange
<1> HIDE DEF n, new
<1>3. Unique(new)
  <2> SUFFICES ASSUME NEW i \in 1 .. (n + 1), NEW j \in 1 .. (n + 1), new[i].id = new[j].id
               PROVE  i = j
    BY <1>1 DEF Unique
  <2>1. \A k \in 1 .. n : list[k].id # e.id
    BY <1>1 DEF Range
  <2>2. CASE i \in 1 .. n /\ j \in 1 .. n
    BY <1>1, <2>2 DEF Unique
  <2>3. CASE i = n + 1 /\ j \in 1 .. n
    BY <1>1, <2>1, <2>3
  <2>4. CASE j = n + 1 /\ i \in 1 .. n
    BY <1>1, <2>1, <2>4
  <2>5. i = n + 1 \/ i \in 1 .. n
    BY <1>1
  <2>6. j = n + 1 \/ j \in 1 .. n
    BY <1>1
  <2> QED BY <2>2, <2>3, <2>4, <2>5, <2>6
<1> QED BY <1>1, <1>2, <1>3 DEF new

(* Another element with the same id in the place of one. *)
LEMMA ReplaceUnique ==
    ASSUME NEW S, NEW list \in Seq(S), Unique(list), NEW i \in DOMAIN list, NEW e \in S,
           e.id = list[i].id, NEW new \in Seq(S), DOMAIN new = DOMAIN list, new[i] = e,
           \A j \in DOMAIN list : j # i => new[j] = list[j]
    PROVE  /\ Unique(new)
           /\ Range(new) = (Range(list) \ {list[i]}) \cup {e}
           /\ \A x \in Range(list) : x = list[i] <=> x.id = e.id
<1>1. /\ new \in Seq(S) /\ DOMAIN new = DOMAIN list /\ new[i] = e
      /\ \A j \in DOMAIN list : j # i => new[j] = list[j]
  OBVIOUS
<1>2. \A j \in DOMAIN list : new[j].id = list[j].id
  BY <1>1
<1>3. Unique(new)
  BY <1>1, <1>2 DEF Unique
<1>4. \A j \in DOMAIN list : list[j] = list[i] => j = i
  BY DEF Unique
<1>5. \A x \in Range(list) : x = list[i] <=> x.id = e.id
  BY DEF Unique, Range
<1>6. Range(new) = (Range(list) \ {list[i]}) \cup {e}
  <2>1. ASSUME NEW x \in Range(new) PROVE x \in (Range(list) \ {list[i]}) \cup {e}
    <3>1. PICK j \in DOMAIN list : x = new[j]
      BY <1>1 DEF Range
    <3> QED BY <1>1, <1>4, <3>1 DEF Range
  <2>2. ASSUME NEW x \in (Range(list) \ {list[i]}) \cup {e} PROVE x \in Range(new)
    <3>1. CASE x = e
      BY <1>1, <3>1 DEF Range
    <3>2. CASE x # e
      <4>1. PICK j \in DOMAIN list : x = list[j] /\ j # i
        BY <2>2, <3>2 DEF Range
      <4> QED BY <1>1, <4>1 DEF Range
    <3> QED BY <3>1, <3>2
  <2> QED BY <2>1, <2>2
<1> QED BY <1>1, <1>3, <1>5, <1>6

LEMMA LastIdNat ==
    ASSUME NEW S, \A x \in S : x.id \in Nat, NEW list \in Seq(S)
    PROVE  LastId(list) \in Nat
<1>1. CASE list = << >>
  BY <1>1 DEF LastId
<1>2. CASE list # << >>
  <2>1. list[Len(list)] \in S
    BY <1>2
  <2> QED BY <1>2, <2>1 DEF LastId
<1> QED BY <1>1, <1>2

(* add() of a publication and of a registration. *)
LEMMA PubAdded ==
    ASSUME NEW list \in Seq(Pub), Unique(list), NEW f \in Pub,
           \A x \in Range(list) : x.id # f.id,
           NEW new, new = Added(list, f)
    PROVE  /\ new \in Seq(Pub) /\ Unique(new)
           /\ \E e \in Pub :
                /\ e.id = f.id /\ e.name = f.name /\ e.qos = f.qos /\ e.tid = f.tid
                /\ e.st = f.st /\ e.retry = f.retry /\ e.timer = f.timer
                /\ Range(new) = Range(list) \cup {e}
<1> DEFINE p == LastId(list)
<1> DEFINE e == [f EXCEPT !.prev = p]
<1>1. p \in Nat
  <2>1. \A x \in Pub : x.id \in Nat
    BY DEF Pub
  <2> HIDE DEF p
  <2> QED BY <2>1, LastIdNat DEF p
<1>2. new = Append(list, e)
  BY DEF Added
<1> HIDE DEF p
<1>3. e \in Pub /\ e.id = f.id /\ e.name = f.name /\ e.qos = f.qos /\ e.tid = f.tid
      /\ e.st = f.st /\ e.retry = f.retry /\ e.timer = f.timer
  BY <1>1 DEF Pub
<1> HIDE DEF e
<1>4. /\ Append(list, e) \in Seq(Pub) /\ Unique(Append(list, e))
      /\ Range(Append(list, e)) = Range(list) \cup {e}
  BY <1>3, AppendUnique
<1> QED BY <1>2, <1>3, <1>4

LEMMA RegAdded ==
    ASSUME NEW list \in Seq(Reg), Unique(list),
           NEW id \in Nat, NEW name \in Names, NEW r \in -1..Retry,
           \A x \in Range(list) : x.id # id,
           NEW new, new = Added(list, [id |-> id, name |-> name, retry |-> r, prev |-> 0])
    PROVE  /\ new \in Seq(Reg) /\ Unique(new)
           /\ \E e \in Reg :
                /\ e.id = id /\ e.name = name /\ e.retry = r
                /\ Range(new) = Range(list) \cup {e}
<1> DEFINE p == LastId(list)
<1> DEFINE f == [id |-> id, name |-> name, retry |-> r, prev |-> 0]
<1> DEFINE e == [id |-> id, name |-> name, retry |-> r, prev |-> p]
<1>1. p \in Nat
  <2>1. \A x \in Reg : x.id \in Nat
    BY DEF Reg
  <2> HIDE DEF p
  <2> QED BY <2>1, LastIdNat DEF p
<1> HIDE DEF p
<1>2. [f EXCEPT !.prev = p] = e
  OBVIOUS
<1>3. new = Append(list, e)
  BY <1>2 DEF Added, p
<1>4. e \in Reg /\ e.id = id /\ e.name = name /\ e.retry = r
  BY <1>1 DEF Reg
<1> HIDE DEF e, f
<1>5. /\ Append(list, e) \in Seq(Reg) /\ Unique(Append(list, e))
      /\ Range(Append(list, e)) = Range(list) \cup {e}
  BY <1>4, AppendUnique
<1> QED BY <1>3, <1>4, <1>5

-----------------------------------------------------------------------------
(* The inductive invariant about types, and what it needs: that the ids of *)
(* a list are distinct and below the counter, and that what connect() or   *)
(* disconnect() is called for is there still when they return.             *)
AnyName == Names \cup Range(Subs)
Waits == status \in {"SEARCHING", "WAIT_WILLTOPICREQ", "WAIT_WILLMSGREQ", "WAIT_CONNACK"}
Jobs == [do : {"nothing", "publish", "register", "reconnect", "disconnect"}, id : Nat]

ProxyOK ==
    /\ config \in Config /\ status \in Status
    /\ retry \in -1..Retry /\ ping \in -1..Retry
    /\ buf.type \in {"none", "SEARCHGW", "CONNECT", "WILLTOPIC", "WILLMSG", "DISCONNECT"}
    /\ job \in Jobs /\ tasks \in BOOLEAN /\ corrupt \in BOOLEAN
    /\ Waits => retry \in 1..Retry
    /\ Disconnecting => retry \in 0..Retry /\ status \in {"DISCONNECTING", "SLEEPING"}

TableOK == topicTbl \in Seq(AnyName \X (Nat \ {0}))

ListsOK ==
    /\ nextMsgId \in Nat
    /\ pubs \in Seq(Pub) /\ Unique(pubs) /\ \A x \in Range(pubs) : x.id \in 1..nextMsgId
    /\ regs \in Seq(Reg) /\ Unique(regs) /\ \A x \in Range(regs) : x.id \in 1..nextMsgId
    /\ subs \in Seq(Sub) /\ Unique(subs) /\ \A x \in Range(subs) : x.id \in 1..nextMsgId

PubOK(x) ==
    /\ x.st # "SUSPEND" => x.tid # 0
    /\ x.st = "SUSPEND" => x.retry = Retry /\ x.timer = "off"
    /\ x.timer # "off" => x.st \notin {"SUSPEND", "READY"}
    /\ x.st = "WAIT_PUBACK" => x.qos = 1
    /\ x.st \in {"WAIT_PUBREC", "WAIT_PUBCOMP"} => x.qos = 2
PubsOK == \A x \in Range(pubs) : PubOK(x)

JobOK ==
    /\ job.do = "publish" => \E x \in Range(pubs) : x.id = job.id /\ x.retry >= 0 /\ x.st # "SUSPEND"
    /\ job.do = "register" => \E x \in Range(regs) : x.id = job.id /\ x.retry >= 0
    /\ job.do = "reconnect" => \E x \in Range(pubs) : x.id = job.id

UpOK(m, n) ==
    /\ m.type \in {"PUBLISH", "REGISTER", "SUBSCRIBE"} => m.id \in 1..n
    /\ m.type \in {"REGISTER", "SUBSCRIBE"} => m.name \in AnyName
    /\ m.type = "PUBLISH" => m.tid \in Nat \ {0}
DownOK(m) == m.type \in {"REGACK", "SUBACK"} => m.id \in Nat /\ m.tid \in Nat \ {0}

ToGwOK == toGw \in Seq(Range(toGw)) /\ \A m \in Range(toGw) : UpOK(m, nextMsgId)
ToClientOK == toClient \in Seq(Range(toClient)) /\ \A m \in Range(toClient) : DownOK(m)
GwOK == gw \in [state : {"new", "idle", "will", "active"}, names : Seq(AnyName), held : SUBSET Nat]
HistoryOK == got \in Seq(Nat) /\ done \subseteq Nat /\ seen \subseteq Incidents

TypeInv ==
    /\ ProxyOK /\ TableOK /\ ListsOK /\ PubsOK /\ JobOK
    /\ ToGwOK /\ ToClientOK /\ GwOK /\ HistoryOK

LEMMA TypeInvTypes == TypeInv => TypeOK
<1> SUFFICES ASSUME TypeInv PROVE TypeOK
  OBVIOUS
<1>1. /\ status \in Status
      /\ retry \in -1..Retry /\ ping \in -1..Retry
      /\ nextMsgId \in Nat
      /\ tasks \in BOOLEAN /\ corrupt \in BOOLEAN
      /\ seen \subseteq Incidents
  BY DEF TypeInv, ProxyOK, ListsOK, HistoryOK
<1>2. \A i \in DOMAIN topicTbl : topicTbl[i][1] \in Names \cup Range(Subs)
  BY DEF TypeInv, TableOK, AnyName
<1>3. \A i \in DOMAIN pubs :
        /\ pubs[i].st \in {"READY", "SUSPEND", "WAIT_PUBACK", "WAIT_PUBREC", "WAIT_PUBCOMP"}
        /\ pubs[i].timer \in {"off", "on", "over"}
        /\ pubs[i].retry \in -1..Retry /\ pubs[i].id \in 1..nextMsgId
  <2>1. \A i \in DOMAIN pubs : pubs[i] \in Pub /\ pubs[i] \in Range(pubs)
    BY DEF TypeInv, ListsOK, Range
  <2> QED BY <2>1 DEF TypeInv, ListsOK, Pub, PubStatus
<1>4. \A i \in DOMAIN regs : regs[i].retry \in -1..Retry
  <2>1. \A i \in DOMAIN regs : regs[i] \in Reg
    BY DEF TypeInv, ListsOK
  <2> QED BY <2>1 DEF Reg
<1>5. \A i \in DOMAIN subs : subs[i].retry \in -1..Retry
  <2>1. \A i \in DOMAIN subs : subs[i] \in Sub
    BY DEF TypeInv, ListsOK
  <2> QED BY <2>1 DEF Sub
<1>6. job.do \in {"nothing", "publish", "register", "reconnect", "disconnect"}
  BY DEF TypeInv, ProxyOK, Jobs
<1> QED BY <1>1, <1>2, <1>3, <1>4, <1>5, <1>6 DEF TypeOK

LEMMA TypeInvInit == Init => TypeInv
<1> SUFFICES ASSUME Init PROVE TypeInv
  OBVIOUS
<1> USE DEF Init
<1>1. << >> \in Seq(Range(<< >>)) /\ Range(<< >>) = {}
  BY DEF Range
<1>2. ProxyOK
  <2>1. config \in Config
    BY ConfigsTyped
  <2>2. job \in Jobs /\ ~Disconnecting
    BY DEF Jobs, NoJob, Disconnecting
  <2>3. retry \in -1..Retry /\ ping \in -1..Retry
    BY RetryPositive
  <2>4. status \in Status /\ ~Waits
    BY DEF Status, Waits
  <2>5. tasks \in BOOLEAN /\ corrupt \in BOOLEAN /\ buf.type = "none"
    OBVIOUS
  <2> QED BY <2>1, <2>2, <2>3, <2>4, <2>5 DEF ProxyOK
<1>3. ListsOK /\ PubsOK
  BY <1>1 DEF ListsOK, PubsOK, Unique
<1>4. TableOK /\ JobOK /\ ToGwOK /\ ToClientOK /\ GwOK /\ HistoryOK
  BY <1>1 DEF TableOK, JobOK, ToGwOK, ToClientOK, GwOK, HistoryOK, NoJob, Incidents
<1> QED BY <1>2, <1>3, <1>4 DEF TypeInv

-----------------------------------------------------------------------------
(* What the steps do to the network and the lists.                         *)

(* A message is sent, or lost. *)
LEMMA SentOK ==
    ASSUME TypeInv, NEW m, UpOK(m, nextMsgId), Sent(m), nextMsgId' = nextMsgId
    PROVE  ToGwOK' /\ Range(toGw') \subseteq Range(toGw) \cup {m}
<1>1. /\ toGw' = Append(toGw, m) \/ toGw' = toGw
      /\ toGw \in Seq(Range(toGw)) /\ \A x \in Range(toGw) : UpOK(x, nextMsgId)
  BY DEF Sent, TypeInv, ToGwOK
<1>2. PICK q : q = toGw'
  OBVIOUS
<1>3. q \in Seq(Range(q)) /\ Range(q) \subseteq Range(toGw) \cup {m}
  BY <1>1, <1>2, AppendRange
<1>4. \A x \in Range(q) : UpOK(x, nextMsgId)
  BY <1>1, <1>3
<1>5. ToGwOK'
  BY <1>2, <1>3, <1>4 DEF ToGwOK, UpOK
<1> QED BY <1>2, <1>3, <1>5

LEMMA AnsweredOK ==
    ASSUME TypeInv, NEW m, DownOK(m), Answered(m)
    PROVE  ToClientOK' /\ Range(toClient') \subseteq Range(toClient) \cup {m}
<1>1. /\ toClient' = Append(toClient, m) \/ toClient' = toClient
      /\ toClient \in Seq(Range(toClient)) /\ \A x \in Range(toClient) : DownOK(x)
  BY DEF Answered, TypeInv, ToClientOK
<1>2. PICK q : q = toClient'
  OBVIOUS
<1>3. q \in Seq(Range(q)) /\ Range(q) \subseteq Range(toClient) \cup {m}
  BY <1>1, <1>2, AppendRange
<1>4. \A x \in Range(q) : DownOK(x)
  BY <1>1, <1>3
<1>5. ToClientOK'
  BY <1>2, <1>3, <1>4 DEF ToClientOK, DownOK
<1> QED BY <1>2, <1>3, <1>5

LEMMA TakenOK ==
    ASSUME TypeInv, toClient # << >>, toClient' = Tail(toClient)
    PROVE  /\ ToClientOK' /\ Range(toClient') \subseteq Range(toClient)
           /\ Head(toClient) \in Range(toClient) /\ DownOK(Head(toClient))
<1>1. toClient \in Seq(Range(toClient)) /\ \A x \in Range(toClient) : DownOK(x)
  BY DEF TypeInv, ToClientOK
<1>2. PICK q : q = toClient'
  OBVIOUS
<1>3. /\ q \in Seq(Range(q)) /\ Range(q) \subseteq Range(toClient)
      /\ Head(toClient) \in Range(toClient)
  BY <1>1, <1>2, TailRange
<1>4. \A x \in Range(q) : DownOK(x)
  BY <1>1, <1>3
<1>5. ToClientOK'
  BY <1>2, <1>3, <1>4 DEF ToClientOK, DownOK
<1> QED BY <1>1, <1>2, <1>3, <1>5

LEMMA GwTakenOK ==
    ASSUME TypeInv, toGw # << >>, toGw' = Tail(toGw), nextMsgId' = nextMsgId
    PROVE  /\ ToGwOK' /\ Range(toGw') \subseteq Range(toGw)
           /\ In \in Range(toGw) /\ UpOK(In, nextMsgId)
<1>1. toGw \in Seq(Range(toGw)) /\ \A x \in Range(toGw) : UpOK(x, nextMsgId)
  BY DEF TypeInv, ToGwOK
<1>2. PICK q : q = toGw'
  OBVIOUS
<1>3. /\ q \in Seq(Range(q)) /\ Range(q) \subseteq Range(toGw)
      /\ Head(toGw) \in Range(toGw)
  BY <1>1, <1>2, TailRange
<1>4. \A x \in Range(q) : UpOK(x, nextMsgId)
  BY <1>1, <1>3
<1>5. ToGwOK'
  BY <1>2, <1>3, <1>4 DEF ToGwOK, UpOK
<1> QED BY <1>1, <1>2, <1>3, <1>5 DEF In

(* The queue to the gateway is left alone, and the ids only grow. *)
LEMMA GrownOK ==
    ASSUME TypeInv, UNCHANGED toGw, nextMsgId' \in Nat, nextMsgId' >= nextMsgId
    PROVE  ToGwOK'
<1>1. 1 .. nextMsgId \subseteq 1 .. nextMsgId'
  BY DEF TypeInv, ListsOK
<1> QED BY <1>1 DEF TypeInv, ToGwOK, UpOK

(* remove(), which may leave the list as it is. *)
LEMMA GoneKeeps ==
    ASSUME NEW S, Unlinked(S), NEW list \in Seq(S), Unique(list), NEW id \in Ids(list),
           NEW new, new = list \/ new = Removed(list, id)
    PROVE  /\ new \in Seq(S) /\ Unique(new)
           /\ \A x \in Range(new) : \E y \in Range(list) : Like(x, y)
           /\ \A y \in Range(list) : y.id # id => \E x \in Range(new) : Like(x, y)
<1>1. CASE new = list
  BY <1>1 DEF Like
<1>2. CASE new = Removed(list, id)
  BY <1>2, RemovedKeeps
<1> QED BY <1>1, <1>2

(* A publication is removed from its list. *)
LEMMA PubGone ==
    ASSUME TypeInv, NEW id \in Ids(pubs), PubDone(id)
    PROVE  /\ corrupt' \in BOOLEAN /\ pubs' \in Seq(Pub) /\ Unique(pubs')
           /\ \A x \in Range(pubs') : \E y \in Range(pubs) : Like(x, y)
           /\ \A y \in Range(pubs) : y.id # id => \E x \in Range(pubs') : Like(x, y)
<1>1. corrupt' \in BOOLEAN /\ (pubs' = pubs \/ pubs' = Removed(pubs, id))
  BY DEF PubDone, TypeInv, ProxyOK
<1>2. PICK new : new = pubs'
  OBVIOUS
<1>3. Unlinked(Pub) /\ pubs \in Seq(Pub) /\ Unique(pubs)
  BY ElementsUnlinked DEF TypeInv, ListsOK
<1>4. /\ new \in Seq(Pub) /\ Unique(new)
      /\ \A x \in Range(new) : \E y \in Range(pubs) : Like(x, y)
      /\ \A y \in Range(pubs) : y.id # id => \E x \in Range(new) : Like(x, y)
  BY <1>1, <1>2, <1>3, GoneKeeps
<1> QED BY <1>1, <1>2, <1>4

LEMMA RegGone ==
    ASSUME TypeInv, NEW id \in Ids(regs), regs' = regs \/ regs' = Removed(regs, id)
    PROVE  /\ regs' \in Seq(Reg) /\ Unique(regs')
           /\ \A x \in Range(regs') : \E y \in Range(regs) : Like(x, y)
           /\ \A y \in Range(regs) : y.id # id => \E x \in Range(regs') : Like(x, y)
<1>2. PICK new : new = regs'
  OBVIOUS
<1>3. Unlinked(Reg) /\ regs \in Seq(Reg) /\ Unique(regs)
  BY ElementsUnlinked DEF TypeInv, ListsOK
<1>4. /\ new \in Seq(Reg) /\ Unique(new)
      /\ \A x \in Range(new) : \E y \in Range(regs) : Like(x, y)
      /\ \A y \in Range(regs) : y.id # id => \E x \in Range(new) : Like(x, y)
  BY <1>2, <1>3, GoneKeeps
<1> QED BY <1>2, <1>4

LEMMA SubGone ==
    ASSUME TypeInv, NEW id \in Ids(subs), subs' = subs \/ subs' = Removed(subs, id)
    PROVE  /\ subs' \in Seq(Sub) /\ Unique(subs')
           /\ \A x \in Range(subs') : \E y \in Range(subs) : Like(x, y)
<1>2. PICK new : new = subs'
  OBVIOUS
<1>3. Unlinked(Sub) /\ subs \in Seq(Sub) /\ Unique(subs)
  BY ElementsUnlinked DEF TypeInv, ListsOK
<1>4. /\ new \in Seq(Sub) /\ Unique(new)
      /\ \A x \in Range(new) : \E y \in Range(subs) : Like(x, y)
  BY <1>2, <1>3, GoneKeeps
<1> QED BY <1>2, <1>4

(* What a removal leaves keeps what was said of each element. *)
LEMMA GonePubsOK ==
    ASSUME TypeInv, NEW new, \A x \in Range(new) : \E y \in Range(pubs) : Like(x, y)
    PROVE  \A x \in Range(new) : x.id \in 1..nextMsgId /\ PubOK(x)
<1> SUFFICES ASSUME NEW x \in Range(new)
             PROVE  x.id \in 1..nextMsgId /\ PubOK(x)
  OBVIOUS
<1>1. PICK y \in Range(pubs) : Like(x, y)
  OBVIOUS
<1>2. y \in Pub /\ y.id \in 1..nextMsgId /\ PubOK(y)
  BY DEF TypeInv, ListsOK, PubsOK, Range
<1>3. /\ x.id = y.id /\ x.qos = y.qos /\ x.tid = y.tid
      /\ x.st = y.st /\ x.retry = y.retry /\ x.timer = y.timer
  BY <1>1, <1>2, LikePub
<1> QED BY <1>2, <1>3 DEF PubOK

LEMMA GoneRegsOK ==
    ASSUME TypeInv, NEW new, \A x \in Range(new) : \E y \in Range(regs) : Like(x, y)
    PROVE  \A x \in Range(new) : x.id \in 1..nextMsgId
<1> SUFFICES ASSUME NEW x \in Range(new) PROVE  x.id \in 1..nextMsgId
  OBVIOUS
<1>1. PICK y \in Range(regs) : Like(x, y)
  OBVIOUS
<1>2. y \in Reg /\ y.id \in 1..nextMsgId
  BY DEF TypeInv, ListsOK, Range
<1> QED BY <1>1, <1>2, LikeReg

LEMMA GoneSubsOK ==
    ASSUME TypeInv, NEW new, \A x \in Range(new) : \E y \in Range(subs) : Like(x, y)
    PROVE  \A x \in Range(new) : x.id \in 1..nextMsgId
<1> SUFFICES ASSUME NEW x \in Range(new) PROVE  x.id \in 1..nextMsgId
  OBVIOUS
<1>1. PICK y \in Range(subs) : Like(x, y)
  OBVIOUS
<1>2. y \in Sub /\ y.id \in 1..nextMsgId
  BY DEF TypeInv, ListsOK, Range
<1> QED BY <1>1, <1>2, LikeSub

(* The element with an id, and its index. *)
LEMMA PubAt ==
    ASSUME TypeInv, NEW id, \E x \in Range(pubs) : x.id = id
    PROVE  /\ At(pubs, id) \in DOMAIN pubs /\ pubs[At(pubs, id)] \in Range(pubs)
           /\ pubs[At(pubs, id)] \in Pub /\ pubs[At(pubs, id)].id = id
           /\ id \in Ids(pubs) /\ \A x \in Range(pubs) : x.id = id => x = pubs[At(pubs, id)]
<1>1. pubs \in Seq(Pub) /\ Unique(pubs)
  BY DEF TypeInv, ListsOK
<1>2. id \in Ids(pubs)
  BY DEF Ids, Range
<1>3. At(pubs, id) \in DOMAIN pubs /\ pubs[At(pubs, id)].id = id
  BY <1>2, AtIsThere
<1>4. \A x \in Range(pubs) : x.id = id => x = pubs[At(pubs, id)]
  BY <1>1, <1>3 DEF Unique, Range
<1> QED BY <1>1, <1>2, <1>3, <1>4 DEF Range

LEMMA RegAt ==
    ASSUME TypeInv, NEW id, \E x \in Range(regs) : x.id = id
    PROVE  /\ At(regs, id) \in DOMAIN regs /\ regs[At(regs, id)] \in Range(regs)
           /\ regs[At(regs, id)] \in Reg /\ regs[At(regs, id)].id = id
           /\ id \in Ids(regs) /\ \A x \in Range(regs) : x.id = id => x = regs[At(regs, id)]
<1>1. regs \in Seq(Reg) /\ Unique(regs)
  BY DEF TypeInv, ListsOK
<1>2. id \in Ids(regs)
  BY DEF Ids, Range
<1>3. At(regs, id) \in DOMAIN regs /\ regs[At(regs, id)].id = id
  BY <1>2, AtIsThere
<1>4. \A x \in Range(regs) : x.id = id => x = regs[At(regs, id)]
  BY <1>1, <1>3 DEF Unique, Range
<1> QED BY <1>1, <1>2, <1>3, <1>4 DEF Range

LEMMA IdsRange ==
    ASSUME NEW list, NEW id
    PROVE  id \in Ids(list) <=> \E x \in Range(list) : x.id = id
BY DEF Ids, Range

-----------------------------------------------------------------------------
(* Every step of connect(), and what follows it, preserves the invariant. *)

(* The beginning of connect(). *)
LEMMA ConnectSearchTyped ==
    ASSUME TypeInv, ConnectSearch
    PROVE  TypeInv'
<1>1. ProxyOK'
  BY RetryPositive DEF ConnectSearch, WriteGwMsg, Unchanged4Connect, TypeInv, ProxyOK, Waits, Disconnecting, Connecting, Status
<1>2. ToGwOK'
  <2>1. nextMsgId' = nextMsgId
    BY DEF ConnectSearch, Unchanged4Connect
  <2>2. CASE config.search
    <3> DEFINE m == [type |-> "SEARCHGW", clean |-> FALSE, will |-> config.will]
    <3>1. UpOK(m, nextMsgId)
      BY DEF UpOK
    <3>2. Sent(m)
      BY <2>2 DEF ConnectSearch, WriteGwMsg
    <3> HIDE DEF m
    <3> QED BY <2>1, <3>1, <3>2, SentOK
  <2>3. CASE ~config.search
    BY <2>1, <2>3 DEF ConnectSearch, TypeInv, ToGwOK
  <2> QED BY <2>2, <2>3
<1>3. TableOK' /\ ListsOK' /\ PubsOK' /\ JobOK' /\ ToClientOK' /\ GwOK' /\ HistoryOK'
  BY DEF TypeInv, TableOK, ListsOK, PubsOK, JobOK, ToClientOK, GwOK, HistoryOK, ConnectSearch, Unchanged4Connect, lists, history
<1> QED BY <1>1, <1>2, <1>3 DEF TypeInv

(* The CONNECT. *)
LEMMA ConnectConnectTyped ==
    ASSUME TypeInv, ConnectConnect
    PROVE  TypeInv'
<1>1. ProxyOK'
  BY RetryPositive DEF ConnectConnect, WriteGwMsg, Unchanged4Connect, TypeInv, ProxyOK, Waits, Disconnecting, Connecting, Status
<1>2. ToGwOK'
  <2> DEFINE m == [type |-> "CONNECT", clean |-> config.clean \/ buf.clean, will |-> config.will]
  <2>1. nextMsgId' = nextMsgId /\ UpOK(m, nextMsgId) /\ Sent(m)
    BY DEF ConnectConnect, WriteGwMsg, Unchanged4Connect, UpOK
  <2> HIDE DEF m
  <2> QED BY <2>1, SentOK
<1>3. TableOK' /\ ListsOK' /\ PubsOK' /\ JobOK' /\ ToClientOK' /\ GwOK' /\ HistoryOK'
  BY DEF TypeInv, TableOK, ListsOK, PubsOK, JobOK, ToClientOK, GwOK, HistoryOK, ConnectConnect, Unchanged4Connect, lists, history
<1> QED BY <1>1, <1>2, <1>3 DEF TypeInv

(* The will. *)
LEMMA ConnectWillTyped ==
    ASSUME TypeInv, ConnectWill
    PROVE  TypeInv'
<1>1. ProxyOK'
  BY RetryPositive DEF ConnectWill, WriteGwMsg, Unchanged4Connect, TypeInv, ProxyOK, Waits, Disconnecting, Connecting, Status
<1>2. ToGwOK'
  <2> DEFINE m(type, clean) == [type |-> type, clean |-> clean, will |-> config.will]
  <2>1. nextMsgId' = nextMsgId /\ (Sent(m("WILLTOPIC", FALSE)) \/ Sent(m("WILLMSG", config.bit)))
    BY DEF ConnectWill, WriteGwMsg, Unchanged4Connect
  <2>2. UpOK(m("WILLTOPIC", FALSE), nextMsgId) /\ UpOK(m("WILLMSG", config.bit), nextMsgId)
    BY DEF UpOK
  <2> HIDE DEF m
  <2> QED BY <2>1, <2>2, SentOK
<1>3. TableOK' /\ ListsOK' /\ PubsOK' /\ JobOK' /\ ToClientOK' /\ GwOK' /\ HistoryOK'
  BY DEF TypeInv, TableOK, ListsOK, PubsOK, JobOK, ToClientOK, GwOK, HistoryOK, ConnectWill, Unchanged4Connect, lists, history
<1> QED BY <1>1, <1>2, <1>3 DEF TypeInv

(* connect() without an answer. *)
LEMMA ConnectTimeoutTyped ==
    ASSUME TypeInv, ConnectTimeout
    PROVE  TypeInv'
<1>1. ProxyOK'
  BY RetryPositive DEF ConnectTimeout, Waiting, TypeInv, ProxyOK, Waits, Disconnecting, Connecting, Status
<1>2. ToGwOK'
  <2> DEFINE m == [type |-> buf.type, clean |-> buf.clean, will |-> config.will]
  <2>1. nextMsgId' = nextMsgId /\ (Sent(m) \/ UNCHANGED toGw)
    BY DEF ConnectTimeout
  <2>2. UpOK(m, nextMsgId)
    BY DEF UpOK, TypeInv, ProxyOK
  <2>3. UNCHANGED toGw => ToGwOK'
    BY <2>1 DEF TypeInv, ToGwOK
  <2> HIDE DEF m
  <2> QED BY <2>1, <2>2, <2>3, SentOK
<1>3. TableOK' /\ ListsOK' /\ PubsOK' /\ JobOK' /\ ToClientOK' /\ GwOK' /\ HistoryOK'
  BY DEF TypeInv, TableOK, ListsOK, PubsOK, JobOK, ToClientOK, GwOK, HistoryOK, ConnectTimeout, lists, history
<1> QED BY <1>1, <1>2, <1>3 DEF TypeInv

(* The CONNACK, and onConnect(). *)
LEMMA ConnackTyped ==
    ASSUME TypeInv, Connack
    PROVE  TypeInv'
<1> DEFINE n == Len(Subs)
<1> DEFINE more == [k \in DOMAIN Subs |-> Subscription(k)]
<1> DEFINE msgs == [k \in DOMAIN Subs |-> Subscribe(nextMsgId + k, Subs[k])]
<1>1. /\ n \in Nat /\ DOMAIN Subs = 1 .. n /\ nextMsgId \in Nat /\ nextMsgId' = nextMsgId + n
      /\ \A k \in 1 .. n : Subs[k] \in Range(Subs)
  BY SubsSequence DEF TypeInv, ListsOK, Connack, OnConnect, Range
<1>2. \A k \in 1 .. n : Subscription(k) \in Sub /\ Subscription(k).id = nextMsgId + k
  <2>1. LastId(subs) \in Nat
    <3>1. subs \in Seq(Sub) /\ \A x \in Sub : x.id \in Nat
      BY DEF TypeInv, ListsOK, Sub
    <3> QED BY <3>1, LastIdNat
  <2> SUFFICES ASSUME NEW k \in 1 .. n
               PROVE  Subscription(k) \in Sub /\ Subscription(k).id = nextMsgId + k
    OBVIOUS
  <2>2. nextMsgId + k \in Nat /\ nextMsgId + k - 1 \in Nat /\ Retry - 1 \in -1..Retry
    BY <1>1, RetryPositive
  <2>3. Subs[k] \in Range(Subs)
    BY <1>1
  <2> QED BY <2>1, <2>2, <2>3 DEF Subscription, Sub
<1> HIDE DEF n
<1>3. ListsOK'
  <2>1. more \in Seq(Sub) /\ Len(more) = n /\ subs \in Seq(Sub) /\ Unique(subs)
        /\ \A k \in 1 .. n : more[k] = Subscription(k)
    BY <1>1, <1>2 DEF TypeInv, ListsOK
  <2> HIDE DEF more
  <2>2. PICK new : new = subs'
    OBVIOUS
  <2>3. new = subs \o more
    BY <2>2 DEF Connack, OnConnect, more
  <2>4. /\ new \in Seq(Sub) /\ Len(new) = Len(subs) + n /\ Len(subs) \in Nat
        /\ DOMAIN subs = 1 .. Len(subs) /\ DOMAIN new = 1 .. (Len(subs) + n)
        /\ \A k \in 1 .. (Len(subs) + n) :
             new[k] = IF k <= Len(subs) THEN subs[k] ELSE more[k - Len(subs)]
    <3>1. /\ new \in Seq(Sub) /\ Len(new) = Len(subs) + Len(more)
          /\ \A k \in 1 .. (Len(subs) + Len(more)) :
               new[k] = IF k <= Len(subs) THEN subs[k] ELSE more[k - Len(subs)]
      BY <2>1, <2>3, ConcatProperties
    <3>2. DOMAIN new = 1 .. Len(new) /\ DOMAIN subs = 1 .. Len(subs) /\ Len(subs) \in Nat
      BY <2>1, <3>1
    <3> QED BY <2>1, <3>1, <3>2
  <2>5. \A k \in 1 .. Len(subs) : subs[k].id \in 1 .. nextMsgId
    BY <2>4 DEF TypeInv, ListsOK, Range
  <2>6. ASSUME NEW k \in 1 .. (Len(subs) + n)
        PROVE  \/ k \in 1 .. Len(subs) /\ new[k] = subs[k] /\ new[k].id \in 1 .. nextMsgId
               \/ k > Len(subs) /\ new[k].id = nextMsgId + (k - Len(subs))
                  /\ k - Len(subs) \in 1 .. n
    <3>1. CASE k <= Len(subs)
      BY <2>4, <2>5, <3>1
    <3>2. CASE ~(k <= Len(subs))
      <4>1. k - Len(subs) \in 1 .. n /\ k > Len(subs)
        BY <1>1, <2>4, <3>2
      <4>2. new[k] = Subscription(k - Len(subs))
        BY <2>1, <2>4, <3>2, <4>1
      <4>3. new[k].id = nextMsgId + (k - Len(subs))
        BY <1>2, <4>1, <4>2
      <4> QED BY <4>1, <4>3
    <3> QED BY <3>1, <3>2
  <2>7. Unique(new)
    <3> SUFFICES ASSUME NEW j \in 1 .. (Len(subs) + n), NEW k \in 1 .. (Len(subs) + n),
                        new[j].id = new[k].id
                 PROVE  j = k
      BY <2>4 DEF Unique
    <3>1. CASE j \in 1 .. Len(subs) /\ k \in 1 .. Len(subs)
      <4>1. subs[j].id = subs[k].id
        BY <2>4, <2>6, <3>1
      <4> QED BY <2>1, <2>4, <3>1, <4>1 DEF Unique
    <3>2. CASE j \notin 1 .. Len(subs) \/ k \notin 1 .. Len(subs)
      BY <1>1, <2>4, <2>6, <3>2
    <3> QED BY <3>1, <3>2
  <2>8. \A x \in Range(new) : x.id \in 1 .. nextMsgId'
    <3>1. \A k \in 1 .. (Len(subs) + n) : new[k].id \in 1 .. nextMsgId'
      BY <1>1, <2>4, <2>6
    <3> QED BY <2>4, <3>1 DEF Range
  <2>9. 1 .. nextMsgId \subseteq 1 .. nextMsgId' /\ nextMsgId' \in Nat
    BY <1>1
  <2>10. UNCHANGED <<pubs, regs>>
    BY DEF Connack
  <2> QED BY <2>2, <2>4, <2>7, <2>8, <2>9, <2>10 DEF TypeInv, ListsOK
<1>4. ToGwOK'
  <2>1. nextMsgId' \in Nat /\ nextMsgId' >= nextMsgId
    BY <1>1
  <2>2. CASE UNCHANGED toGw
    BY <2>1, <2>2, GrownOK
  <2>3. CASE ~UNCHANGED toGw
    <3>1. msgs \in Seq({Subscribe(nextMsgId + k, Subs[k]) : k \in 1 .. n})
      BY <1>1
    <3> HIDE DEF msgs
    <3>2. /\ msgs \in Seq(Range(msgs))
          /\ Range(msgs) \subseteq {Subscribe(nextMsgId + k, Subs[k]) : k \in 1 .. n}
      BY <3>1, OfItsRange
    <3>3. \A x \in Range(msgs) : UpOK(x, nextMsgId')
      <4> SUFFICES ASSUME NEW x \in Range(msgs) PROVE UpOK(x, nextMsgId')
        OBVIOUS
      <4>1. PICK k \in 1 .. n : x = Subscribe(nextMsgId + k, Subs[k])
        BY <3>2
      <4>2. nextMsgId + k \in 1 .. nextMsgId' /\ Subs[k] \in AnyName
        BY <1>1 DEF AnyName
      <4> QED BY <4>1, <4>2 DEF Subscribe, UpOK
    <3>4. PICK q : q = toGw'
      OBVIOUS
    <3>5. q = toGw \o msgs /\ toGw \in Seq(Range(toGw))
      BY <2>3, <3>4 DEF Connack, OnConnect, msgs, TypeInv, ToGwOK
    <3>6. q \in Seq(Range(q)) /\ Range(q) = Range(toGw) \cup Range(msgs)
      BY <3>2, <3>5, ConcatRange
    <3>7. \A x \in Range(toGw) : UpOK(x, nextMsgId')
      <4>1. 1 .. nextMsgId \subseteq 1 .. nextMsgId'
        BY <1>1
      <4> QED BY <4>1 DEF TypeInv, ToGwOK, UpOK
    <3>8. \A x \in Range(q) : UpOK(x, nextMsgId')
      BY <3>3, <3>6, <3>7
    <3> QED BY <3>4, <3>6, <3>8 DEF ToGwOK, UpOK
  <2> QED BY <2>2, <2>3
<1>5. ToClientOK'
  BY TakenOK DEF Connack
<1>6. ProxyOK'
  BY DEF Connack, TypeInv, ProxyOK, Waiting, Connecting, Waits, Disconnecting, Status
<1>7. TableOK' /\ HistoryOK'
  BY DEF Connack, Incident, Incidents, TypeInv, TableOK, HistoryOK
<1>8. PubsOK' /\ JobOK' /\ GwOK'
  BY DEF TypeInv, PubsOK, JobOK, GwOK, Connack
<1> QED BY <1>3, <1>4, <1>5, <1>6, <1>7, <1>8 DEF TypeInv

(* What else connect() reads. *)
LEMMA ConnectAnswerTyped ==
    ASSUME TypeInv, ConnectAnswer
    PROVE  TypeInv'
<1>1. ProxyOK'
  BY DEF ConnectAnswer, Waiting, Connecting, TypeInv, ProxyOK, Waits, Disconnecting, Status
<1>2. ToClientOK'
  BY TakenOK DEF ConnectAnswer
<1>3. TableOK' /\ ListsOK' /\ PubsOK' /\ JobOK' /\ ToGwOK' /\ GwOK' /\ HistoryOK'
  BY DEF TypeInv, TableOK, ListsOK, PubsOK, JobOK, ToGwOK, GwOK, HistoryOK, ConnectAnswer, lists, history, env
<1> QED BY <1>1, <1>2, <1>3 DEF TypeInv

(* The rest of sendPublish(). *)
LEMMA SendPublishTyped ==
    ASSUME TypeInv, SendPublish
    PROVE  TypeInv'
<1> DEFINE i == At(pubs, job.id)
<1> DEFINE e == pubs[i]
<1>1. /\ i \in DOMAIN pubs /\ e \in Range(pubs) /\ e \in Pub /\ e.id = job.id
      /\ e.id \in Ids(pubs) /\ e.retry >= 0 /\ e.st # "SUSPEND"
  <2>1. PICK x \in Range(pubs) : x.id = job.id /\ x.retry >= 0 /\ x.st # "SUSPEND"
    BY DEF SendPublish, TypeInv, JobOK
  <2> QED BY <2>1, PubAt
<1>2. e.id \in 1..nextMsgId /\ PubOK(e) /\ e.tid \in Nat \ {0}
  BY <1>1 DEF TypeInv, ListsOK, PubsOK, PubOK, Pub
<1>3. /\ Unchanged4Job /\ UNCHANGED <<regs, done>> /\ job' = NoJob /\ Sent(Publish(e))
      /\ IF e.qos = 0 THEN PubDone(e.id)
         ELSE /\ pubs' = [pubs EXCEPT
                        ![i].st = IF e.qos = 1 THEN "WAIT_PUBACK" ELSE "WAIT_PUBREC",
                        ![i].timer = "on", ![i].retry = @ - 1]
              /\ UNCHANGED corrupt
  BY DEF SendPublish
<1>11. Sees(e.st = "WAIT_PUBCOMP", "resent")
  BY DEF SendPublish
<1> HIDE DEF i, e
<1>4. ToGwOK'
  <2>1. UpOK(Publish(e), nextMsgId)
    BY <1>2 DEF UpOK, Publish
  <2>2. nextMsgId' = nextMsgId
    BY <1>3 DEF Unchanged4Job
  <2> QED BY <1>3, <2>1, <2>2, SentOK
<1>5. pubs' \in Seq(Pub) /\ Unique(pubs') /\ corrupt' \in BOOLEAN
      /\ \A x \in Range(pubs') : x.id \in 1..nextMsgId /\ PubOK(x)
  <2>1. CASE e.qos = 0
    <3>1. PICK new : new = pubs'
      OBVIOUS
    <3>2. corrupt' \in BOOLEAN /\ new \in Seq(Pub) /\ Unique(new)
          /\ \A x \in Range(new) : \E y \in Range(pubs) : Like(x, y)
      BY <1>1, <1>3, <2>1, <3>1, PubGone
    <3>3. \A x \in Range(new) : x.id \in 1..nextMsgId /\ PubOK(x)
      BY <3>2, GonePubsOK
    <3> QED BY <3>1, <3>2, <3>3
  <2>2. CASE e.qos # 0
    <3> DEFINE f == [e EXCEPT !.st = IF e.qos = 1 THEN "WAIT_PUBACK" ELSE "WAIT_PUBREC",
                              !.timer = "on", !.retry = @ - 1]
    <3>1. e.qos \in {1, 2} /\ e.retry - 1 \in -1..Retry
      BY <1>1, <2>2, RetryPositive DEF Pub
    <3>2. f \in Pub /\ f.id = e.id
      BY <1>1, <3>1 DEF Pub, PubStatus
    <3>3. PubOK(f)
      BY <1>1, <1>2, <3>1 DEF PubOK, Pub
    <3>4. pubs' = [pubs EXCEPT ![i] = f] /\ pubs \in Seq(Pub) /\ Unique(pubs)
      BY <1>1, <1>3, <2>2 DEF TypeInv, ListsOK, e
    <3> HIDE DEF f
    <3>5. PICK new : new = pubs'
      OBVIOUS
    <3>6. /\ new \in Seq(Pub) /\ Unique(new)
          /\ Range(new) = (Range(pubs) \ {pubs[i]}) \cup {f}
      <4>1. /\ f.id = pubs[i].id /\ i \in DOMAIN pubs /\ f \in Pub
            /\ pubs \in Seq(Pub) /\ Unique(pubs)
        BY <1>1, <3>2, <3>4, <3>5 DEF e
      <4>2. /\ new \in Seq(Pub) /\ DOMAIN new = DOMAIN pubs /\ new[i] = f
            /\ \A j \in DOMAIN pubs : j # i => new[j] = pubs[j]
        BY <4>1, <1>1, <3>2, <3>4, <3>5 DEF e
      <4> QED BY <4>1, <4>2, ReplaceUnique
    <3>7. \A x \in Range(new) : x.id \in 1..nextMsgId /\ PubOK(x)
      BY <1>2, <3>2, <3>3, <3>6 DEF TypeInv, ListsOK, PubsOK
    <3>8. corrupt' \in BOOLEAN
      BY <1>3, <2>2 DEF TypeInv, ProxyOK
    <3> QED BY <3>5, <3>6, <3>7, <3>8
  <2> QED BY <2>1, <2>2
<1>6. ListsOK' /\ PubsOK'
  BY <1>3, <1>5 DEF Unchanged4Job, TypeInv, ListsOK, PubsOK
<1>7. ProxyOK'
  BY <1>3, <1>5 DEF Unchanged4Job, proxy, TypeInv, ProxyOK, Waits, Disconnecting, Jobs, NoJob
<1>8. JobOK'
  BY <1>3 DEF JobOK, NoJob
<1>9. HistoryOK'
  <2>1. seen' \subseteq seen \cup {"resent"}
    BY <1>11 DEF Sees, Incident
  <2>2. UNCHANGED <<got, done>>
    BY <1>3 DEF Unchanged4Job
  <2> QED BY <2>1, <2>2 DEF Incidents, TypeInv, HistoryOK
<1>10. TableOK' /\ ToClientOK' /\ GwOK'
  BY <1>3 DEF Unchanged4Job, TypeInv, TableOK, ToClientOK, GwOK
<1> QED BY <1>4, <1>6, <1>7, <1>8, <1>9, <1>10 DEF TypeInv

(* send() of a registration. *)
LEMMA SendRegisterTyped ==
    ASSUME TypeInv, SendRegister
    PROVE  TypeInv'
<1> DEFINE i == At(regs, job.id)
<1> DEFINE e == regs[i]
<1>1. /\ i \in DOMAIN regs /\ e \in Range(regs) /\ e \in Reg /\ e.id = job.id
      /\ e.retry >= 0
  <2>1. PICK x \in Range(regs) : x.id = job.id /\ x.retry >= 0
    BY DEF SendRegister, TypeInv, JobOK
  <2> QED BY <2>1, RegAt
<1>2. e.id \in 1..nextMsgId /\ e.name \in Names
  BY <1>1 DEF TypeInv, ListsOK, Reg
<1>3. Unchanged4Job /\ UNCHANGED <<pubs, corrupt, done, seen>> /\ job' = NoJob
      /\ Sent([type |-> "REGISTER", id |-> e.id, name |-> e.name])
      /\ regs' = [regs EXCEPT ![i].retry = @ - 1]
  BY DEF SendRegister
<1> HIDE DEF i, e
<1>4. ToGwOK'
  <2> DEFINE m == [type |-> "REGISTER", id |-> e.id, name |-> e.name]
  <2>1. UpOK(m, nextMsgId)
    BY <1>2 DEF UpOK, AnyName
  <2>2. nextMsgId' = nextMsgId /\ Sent(m)
    BY <1>3 DEF Unchanged4Job
  <2> HIDE DEF m
  <2> QED BY <2>1, <2>2, SentOK
<1>5. regs' \in Seq(Reg) /\ Unique(regs') /\ \A x \in Range(regs') : x.id \in 1..nextMsgId
  <2> DEFINE f == [e EXCEPT !.retry = @ - 1]
  <2>1. e.retry - 1 \in -1..Retry
    BY <1>1, RetryPositive DEF Reg
  <2>2. f \in Reg /\ f.id = e.id
    BY <1>1, <2>1 DEF Reg
  <2>3. regs' = [regs EXCEPT ![i] = f] /\ regs \in Seq(Reg) /\ Unique(regs)
    BY <1>1, <1>3 DEF TypeInv, ListsOK, e
  <2> HIDE DEF f
  <2>4. PICK new : new = regs'
    OBVIOUS
  <2>5. /\ new \in Seq(Reg) /\ Unique(new)
        /\ Range(new) = (Range(regs) \ {regs[i]}) \cup {f}
    <3>1. /\ f.id = regs[i].id /\ i \in DOMAIN regs /\ f \in Reg
          /\ regs \in Seq(Reg) /\ Unique(regs)
      BY <1>1, <2>2, <2>3, <2>4 DEF e
    <3>2. /\ new \in Seq(Reg) /\ DOMAIN new = DOMAIN regs /\ new[i] = f
          /\ \A j \in DOMAIN regs : j # i => new[j] = regs[j]
      BY <3>1, <1>1, <2>2, <2>3, <2>4 DEF e
    <3> QED BY <3>1, <3>2, ReplaceUnique
  <2>6. \A x \in Range(new) : x.id \in 1..nextMsgId
    BY <1>2, <2>2, <2>5 DEF TypeInv, ListsOK
  <2> QED BY <2>4, <2>5, <2>6
<1>6. ListsOK' /\ PubsOK'
  BY <1>3, <1>5 DEF Unchanged4Job, TypeInv, ListsOK, PubsOK
<1>7. ProxyOK'
  BY <1>3 DEF Unchanged4Job, proxy, TypeInv, ProxyOK, Waits, Disconnecting, Jobs, NoJob
<1>8. JobOK'
  BY <1>3 DEF JobOK, NoJob
<1>10. TableOK' /\ ToClientOK' /\ GwOK' /\ HistoryOK'
  BY <1>3 DEF Unchanged4Job, TypeInv, TableOK, ToClientOK, GwOK, HistoryOK
<1> QED BY <1>4, <1>6, <1>7, <1>8, <1>10 DEF TypeInv

(* checkTimeout() after reconnect(). *)
LEMMA ReconnectedTyped ==
    ASSUME TypeInv, Reconnected
    PROVE  TypeInv'
<1> DEFINE i == At(pubs, job.id)
<1> DEFINE e == pubs[i]
<1>1. i \in DOMAIN pubs /\ e \in Range(pubs) /\ e \in Pub /\ e.id = job.id
  <2>1. PICK x \in Range(pubs) : x.id = job.id
    BY DEF Reconnected, TypeInv, JobOK
  <2> QED BY <2>1, PubAt
<1>2. e.id \in 1..nextMsgId /\ PubOK(e)
  BY <1>1 DEF TypeInv, ListsOK, PubsOK
<1>3. Unchanged4Job /\ UNCHANGED <<regs, corrupt, toGw, done, seen>> /\ job' = NoJob
      /\ pubs' = [pubs EXCEPT ![i].retry = Retry]
  BY DEF Reconnected
<1> HIDE DEF i, e
<1>5. pubs' \in Seq(Pub) /\ Unique(pubs')
      /\ \A x \in Range(pubs') : x.id \in 1..nextMsgId /\ PubOK(x)
  <2> DEFINE f == [e EXCEPT !.retry = Retry]
  <2>1. f \in Pub /\ f.id = e.id
    BY <1>1, RetryPositive DEF Pub
  <2>2. PubOK(f)
    BY <1>1, <1>2 DEF PubOK, Pub
  <2>3. pubs' = [pubs EXCEPT ![i] = f] /\ pubs \in Seq(Pub) /\ Unique(pubs)
    BY <1>1, <1>3 DEF TypeInv, ListsOK, e
  <2> HIDE DEF f
  <2>4. PICK new : new = pubs'
    OBVIOUS
  <2>5. /\ new \in Seq(Pub) /\ Unique(new)
        /\ Range(new) = (Range(pubs) \ {pubs[i]}) \cup {f}
    <3>1. /\ f.id = pubs[i].id /\ i \in DOMAIN pubs /\ f \in Pub
          /\ pubs \in Seq(Pub) /\ Unique(pubs)
      BY <1>1, <2>1, <2>3, <2>4 DEF e
    <3>2. /\ new \in Seq(Pub) /\ DOMAIN new = DOMAIN pubs /\ new[i] = f
          /\ \A j \in DOMAIN pubs : j # i => new[j] = pubs[j]
      BY <3>1, <1>1, <2>1, <2>3, <2>4 DEF e
    <3> QED BY <3>1, <3>2, ReplaceUnique
  <2>6. \A x \in Range(new) : x.id \in 1..nextMsgId /\ PubOK(x)
    BY <1>2, <2>1, <2>2, <2>5 DEF TypeInv, ListsOK, PubsOK
  <2> QED BY <2>4, <2>5, <2>6
<1>6. ListsOK' /\ PubsOK'
  BY <1>3, <1>5 DEF Unchanged4Job, TypeInv, ListsOK, PubsOK
<1>7. ProxyOK'
  BY <1>3 DEF Unchanged4Job, proxy, TypeInv, ProxyOK, Waits, Disconnecting, Jobs, NoJob
<1>8. JobOK'
  BY <1>3 DEF JobOK, NoJob
<1>10. TableOK' /\ ToGwOK' /\ ToClientOK' /\ GwOK' /\ HistoryOK'
  BY <1>3 DEF Unchanged4Job, TypeInv, TableOK, ToGwOK, ToClientOK, GwOK, HistoryOK
<1> QED BY <1>6, <1>7, <1>8, <1>10 DEF TypeInv

-----------------------------------------------------------------------------
(* Natural numbers have a least one among them. *)
LEMMA LeastIsThere ==
    ASSUME NEW T, T \subseteq Nat, T # {}
    PROVE  \E i \in T : \A j \in T : i <= j
<1> DEFINE R == {s \in Nat \X Nat : s[1] < s[2]}
<1>1. R = OpToRel(<, Nat)
  BY DEF OpToRel
<1>2. IsWellFoundedOn(R, Nat)
  BY <1>1, NatLessThanWellFounded
<1> HIDE DEF R
<1>3. PICK i \in T : \A j \in T : ~(<<j, i>> \in R)
  BY <1>2, WFMin
<1>4. ASSUME NEW j \in T PROVE i <= j
  <2>1. i \in Nat /\ j \in Nat /\ <<j, i>> \in Nat \X Nat
    OBVIOUS
  <2>2. ~(<<j, i>> \in R)
    BY <1>3
  <2>3. ~(j < i)
    BY <2>1, <2>2 DEF R
  <2> QED BY <2>1, <2>3
<1> QED BY <1>4

(* Another publication in the place of one. *)
LEMMA PubReplaced ==
    ASSUME TypeInv, NEW i \in DOMAIN pubs, NEW f \in Pub, f.id = pubs[i].id,
           NEW new \in Seq(Pub), DOMAIN new = DOMAIN pubs, new[i] = f,
           \A j \in DOMAIN pubs : j # i => new[j] = pubs[j]
    PROVE  /\ new \in Seq(Pub) /\ Unique(new) /\ DOMAIN new = DOMAIN pubs
           /\ Range(new) = (Range(pubs) \ {pubs[i]}) \cup {f}
           /\ \A x \in Range(pubs) : x = pubs[i] <=> x.id = f.id
           /\ PubOK(f) => \A x \in Range(new) : x.id \in 1..nextMsgId /\ PubOK(x)
<1>1. pubs \in Seq(Pub) /\ Unique(pubs) /\ pubs[i] \in Range(pubs)
  BY DEF TypeInv, ListsOK, Range
<1>3. /\ Unique(new) /\ Range(new) = (Range(pubs) \ {pubs[i]}) \cup {f}
      /\ \A x \in Range(pubs) : x = pubs[i] <=> x.id = f.id
  BY <1>1, ReplaceUnique
<1>4. PubOK(f) => \A x \in Range(new) : x.id \in 1..nextMsgId /\ PubOK(x)
  BY <1>1, <1>3 DEF TypeInv, ListsOK, PubsOK
<1> QED BY <1>3, <1>4

(* The TopicTable: an id is found for a name that is there, and only then. *)
LEMMA TopicIdThere ==
    ASSUME TypeInv, NEW name
    PROVE  /\ TopicId(name) \in Nat
           /\ TopicId(name) # 0 => \E i \in DOMAIN topicTbl :
                                      topicTbl[i][1] = name /\ topicTbl[i][2] = TopicId(name)
<1> DEFINE is == {i \in DOMAIN topicTbl : topicTbl[i][1] = name}
<1>1. \A i \in DOMAIN topicTbl : topicTbl[i][2] \in Nat \ {0}
  BY DEF TypeInv, TableOK
<1>2. CASE is = {}
  BY <1>2 DEF TopicId
<1>3. CASE is # {}
  <2> DEFINE i == CHOOSE i \in is : TRUE
  <2>1. i \in is
    BY <1>3
  <2>2. TopicId(name) = topicTbl[i][2]
    BY <1>3 DEF TopicId
  <2> HIDE DEF i
  <2> QED BY <1>1, <2>1, <2>2
<1> QED BY <1>2, <1>3

LEMMA WithTopicIdKeeps ==
    ASSUME TypeInv, NEW name \in AnyName, NEW id \in Nat \ {0}, NEW new,
           new = WithTopicId(name, id) \/ new = WithTopic(name, id)
    PROVE  /\ new \in Seq(AnyName \X (Nat \ {0}))
           /\ \A x \in Range(new) : x \in Range(topicTbl) \/ x = <<name, id>>
<1> DEFINE T == AnyName \X (Nat \ {0})
<1>1. topicTbl \in Seq(T) /\ <<name, id>> \in T /\ topicTbl \in Seq(Range(topicTbl))
  BY OfItsRange DEF TypeInv, TableOK
<1> HIDE DEF T
<1>2. CASE new = topicTbl
  BY <1>1, <1>2 DEF T
<1>3. CASE new = Append(topicTbl, <<name, id>>)
  <2>1. new \in Seq(T)
    BY <1>1, <1>3
  <2>2. Range(new) = Range(topicTbl) \cup {<<name, id>>}
    BY <1>1, <1>3, AppendRange
  <2> QED BY <2>1, <2>2 DEF T
<1>4. CASE new = [i \in DOMAIN topicTbl |->
                    IF topicTbl[i][1] = name THEN <<name, id>> ELSE topicTbl[i]]
  <2>1. new \in Seq(T)
    <3>1. \A i \in DOMAIN topicTbl : topicTbl[i] \in T /\ new[i] \in T
      BY <1>1, <1>4
    <3>2. DOMAIN topicTbl = 1 .. Len(topicTbl) /\ Len(topicTbl) \in Nat
      BY <1>1
    <3>3. new \in [1 .. Len(topicTbl) -> T]
      BY <1>4, <3>1, <3>2
    <3> QED BY <3>2, <3>3
  <2>2. \A i \in DOMAIN new : new[i] \in Range(topicTbl) \/ new[i] = <<name, id>>
    BY <1>4 DEF Range
  <2> QED BY <2>1, <2>2 DEF T, Range
<1> QED BY <1>2, <1>3, <1>4 DEF WithTopicId, WithTopic

(* registerTopic(): a registration with the next id, or nothing. *)
LEMMA RegisterTopicEffect ==
    ASSUME TypeInv, NEW name \in Names, NEW n \in Nat, n > nextMsgId, RegisterTopic(name, n)
    PROVE  /\ regs' \in Seq(Reg) /\ Unique(regs') /\ nextMsgId' \in {n - 1, n}
           /\ \A x \in Range(regs') : x.id \in 1..nextMsgId'
           /\ Range(regs) \subseteq Range(regs')
           /\ \A x \in Range(regs') : x \in Range(regs) \/ (x.id = n /\ x.name = name)
           /\ TopicId(name) = 0 => Named(regs', name) # {}
           /\ \/ UNCHANGED <<regs, job>>
              \/ /\ job' = [do |-> "register", id |-> n]
                 /\ \E x \in Range(regs') : x.id = n /\ x.retry = Retry
<1>1. /\ regs \in Seq(Reg) /\ Unique(regs) /\ nextMsgId \in Nat
      /\ \A x \in Range(regs) : x.id \in 1..nextMsgId
  BY DEF TypeInv, ListsOK
<1>2. CASE TopicId(name) = 0 /\ Named(regs, name) = {}
  <2>1. /\ nextMsgId' = n /\ job' = [do |-> "register", id |-> n]
        /\ regs' = Added(regs, [id |-> n, name |-> name, retry |-> Retry, prev |-> 0])
    BY <1>2 DEF RegisterTopic
  <2>2. PICK new : new = regs'
    OBVIOUS
  <2>3. Retry \in -1..Retry /\ \A x \in Range(regs) : x.id # n
    BY <1>1, RetryPositive
  <2>4. /\ new \in Seq(Reg) /\ Unique(new)
        /\ \E e \in Reg : /\ e.id = n /\ e.name = name /\ e.retry = Retry
                          /\ Range(new) = Range(regs) \cup {e}
    BY <1>1, <2>1, <2>2, <2>3, RegAdded
  <2>5. PICK e \in Reg : /\ e.id = n /\ e.name = name /\ e.retry = Retry
                         /\ Range(new) = Range(regs) \cup {e}
    BY <2>4
  <2>6. \A x \in Range(new) : x.id \in 1..n
    BY <1>1, <2>5
  <2>7. Named(new, name) # {}
    BY <2>5 DEF Named, Range
  <2> QED BY <2>1, <2>2, <2>4, <2>5, <2>6, <2>7
<1>3. CASE ~(TopicId(name) = 0 /\ Named(regs, name) = {})
  <2>1. nextMsgId' = n - 1 /\ UNCHANGED <<regs, job>>
    BY <1>3 DEF RegisterTopic
  <2>2. \A x \in Range(regs) : x.id \in 1..(n - 1)
    BY <1>1
  <2>3. TopicId(name) = 0 => Named(regs, name) # {}
    BY <1>3
  <2>4. Named(regs', name) = Named(regs, name)
    BY <2>1
  <2> QED BY <1>1, <2>1, <2>2, <2>3, <2>4
<1> QED BY <1>2, <1>3

(* Message ids only grow: what fitted before fits still. *)
LEMMA FitStill ==
    ASSUME TypeInv, nextMsgId' \in Nat, nextMsgId' >= nextMsgId
    PROVE  /\ \A x \in Range(pubs) : x.id \in 1..nextMsgId'
           /\ \A x \in Range(subs) : x.id \in 1..nextMsgId'
BY DEF TypeInv, ListsOK

(* What disconnect() reads. *)
LEMMA DisconnectAnswerTyped ==
    ASSUME TypeInv, DisconnectAnswer
    PROVE  TypeInv'
<1>1. ProxyOK'
  BY DEF DisconnectAnswer, TypeInv, ProxyOK, Waits, Disconnecting, Status, Jobs, NoJob
<1>2. ToClientOK'
  BY TakenOK DEF DisconnectAnswer
<1>3. JobOK'
  BY DEF DisconnectAnswer, lists, TypeInv, JobOK, NoJob, Disconnecting
<1>4. TableOK' /\ ListsOK' /\ PubsOK' /\ ToGwOK' /\ GwOK' /\ HistoryOK'
  BY DEF TypeInv, TableOK, ListsOK, PubsOK, ToGwOK, GwOK, HistoryOK, DisconnectAnswer, lists, history, env
<1> QED BY <1>1, <1>2, <1>3, <1>4 DEF TypeInv

(* disconnect() without an answer. *)
LEMMA DisconnectTimeoutTyped ==
    ASSUME TypeInv, DisconnectTimeout
    PROVE  TypeInv'
<1>1. ProxyOK'
  <2>1. retry \in 0..Retry /\ retry' = retry - 1 /\ Retry \in Nat
    BY RetryPositive DEF DisconnectTimeout, TypeInv, ProxyOK
  <2>2. retry' \in -1..Retry
    BY <2>1
  <2>3. /\ UNCHANGED <<config, buf, ping, tasks, corrupt>>
        /\ \/ retry' \in 0..Retry /\ UNCHANGED <<status, job>>
           \/ status' = "LOST" /\ job' = NoJob
    BY <2>1 DEF DisconnectTimeout
  <2> QED BY <2>2, <2>3 DEF DisconnectTimeout, TypeInv, ProxyOK, Waits, Disconnecting, Status, Jobs, NoJob
<1>2. ToGwOK'
  <2> DEFINE m == [type |-> "DISCONNECT"]
  <2>1. nextMsgId' = nextMsgId /\ (Sent(m) \/ UNCHANGED toGw)
    BY DEF DisconnectTimeout
  <2>2. UpOK(m, nextMsgId)
    BY DEF UpOK
  <2>3. UNCHANGED toGw => ToGwOK'
    BY <2>1 DEF TypeInv, ToGwOK
  <2> HIDE DEF m
  <2> QED BY <2>1, <2>2, <2>3, SentOK
<1>3. JobOK'
  BY DEF DisconnectTimeout, lists, TypeInv, JobOK, NoJob, Disconnecting
<1>4. TableOK' /\ ListsOK' /\ PubsOK' /\ ToClientOK' /\ GwOK' /\ HistoryOK'
  BY DEF TypeInv, TableOK, ListsOK, PubsOK, ToClientOK, GwOK, HistoryOK, DisconnectTimeout, lists, history
<1> QED BY <1>1, <1>2, <1>3, <1>4 DEF TypeInv

(* The tasks are over. *)
LEMMA LeaveTasksTyped ==
    ASSUME TypeInv, LeaveTasks
    PROVE  TypeInv'
<1>1. ProxyOK'
  BY DEF LeaveTasks, proxy, TypeInv, ProxyOK, Waits, Disconnecting
<1>2. TableOK' /\ ListsOK' /\ PubsOK' /\ JobOK' /\ ToGwOK' /\ ToClientOK' /\ GwOK' /\ HistoryOK'
  BY DEF TypeInv, TableOK, ListsOK, PubsOK, JobOK, ToGwOK, ToClientOK, GwOK, HistoryOK, LeaveTasks, lists, net, env, history
<1> QED BY <1>1, <1>2 DEF TypeInv

(* publish() by the application. *)
LEMMA AppPublishTyped ==
    ASSUME TypeInv, NEW name \in config.names, NEW qos \in 0..2, AppPublish(name, qos)
    PROVE  TypeInv'
<1> DEFINE tid == TopicId(name)
<1> DEFINE st == IF tid # 0 THEN "READY" ELSE "SUSPEND"
<1>1. /\ name \in Names /\ nextMsgId \in Nat /\ MsgId = nextMsgId + 1 /\ job = NoJob
      /\ tid \in Nat /\ st \in PubStatus /\ Retry \in -1..Retry
  BY TopicIdThere, RetryPositive DEF TypeInv, ProxyOK, ListsOK, Config, MsgId, AppPublish, MayCall, PubStatus
<1>2. /\ UNCHANGED <<config, proxy, topicTbl, subs, corrupt, net, gw, got, done>>
      /\ tasks' = TRUE
      /\ pubs' = Added(pubs, [id |-> MsgId, name |-> name, qos |-> qos, tid |-> tid,
                              st |-> st, retry |-> Retry, timer |-> "off", prev |-> 0])
  BY DEF AppPublish
<1>3. IF tid # 0
      THEN /\ job' = [do |-> "publish", id |-> MsgId]
           /\ nextMsgId' = MsgId
           /\ UNCHANGED regs
      ELSE RegisterTopic(name, MsgId + 1)
  BY DEF AppPublish
<1>4. seen' \subseteq seen \cup {"shared"}
  BY DEF AppPublish, Sees, Incident
<1> HIDE DEF tid, st
<1>5. /\ regs' \in Seq(Reg) /\ Unique(regs') /\ nextMsgId' \in {MsgId, MsgId + 1}
      /\ \A x \in Range(regs') : x.id \in 1..nextMsgId'
      /\ Range(regs) \subseteq Range(regs')
  <2>1. CASE tid # 0
    <3>1. \A x \in Range(regs) : x.id \in 1..MsgId
      BY <1>1 DEF TypeInv, ListsOK
    <3> QED BY <1>3, <2>1, <3>1 DEF TypeInv, ListsOK
  <2>2. CASE tid = 0
    <3> DEFINE n == MsgId + 1
    <3>1. n \in Nat /\ n > nextMsgId /\ n - 1 = MsgId /\ RegisterTopic(name, n)
      BY <1>1, <1>3, <2>2
    <3> HIDE DEF n
    <3>2. /\ regs' \in Seq(Reg) /\ Unique(regs') /\ nextMsgId' \in {n - 1, n}
          /\ \A x \in Range(regs') : x.id \in 1..nextMsgId'
          /\ Range(regs) \subseteq Range(regs')
      BY <1>1, <3>1, RegisterTopicEffect
    <3> QED BY <3>1, <3>2 DEF n
  <2> QED BY <2>1, <2>2
<1>6. PICK new : new = pubs'
  OBVIOUS
<1>7. /\ new \in Seq(Pub) /\ Unique(new)
      /\ \E e \in Pub :
                /\ e.id = MsgId /\ e.name = name /\ e.qos = qos /\ e.tid = tid
                /\ e.st = st /\ e.retry = Retry /\ e.timer = "off"
                /\ Range(new) = Range(pubs) \cup {e}
  <2>1. pubs \in Seq(Pub) /\ Unique(pubs) /\ MsgId \in Nat /\ \A x \in Range(pubs) : x.id # MsgId
    BY <1>1 DEF TypeInv, ListsOK
  <2> DEFINE f == [id |-> MsgId, name |-> name, qos |-> qos, tid |-> tid,
                   st |-> st, retry |-> Retry, timer |-> "off", prev |-> 0]
  <2>2. f \in Pub /\ f.id = MsgId /\ f.name = name /\ f.qos = qos /\ f.tid = tid
        /\ f.st = st /\ f.retry = Retry /\ f.timer = "off"
    BY <1>1, <2>1 DEF Pub
  <2>3. new = Added(pubs, f)
    BY <1>2, <1>6
  <2> HIDE DEF f
  <2>4. /\ new \in Seq(Pub) /\ Unique(new)
        /\ \E e \in Pub :
             /\ e.id = f.id /\ e.name = f.name /\ e.qos = f.qos /\ e.tid = f.tid
             /\ e.st = f.st /\ e.retry = f.retry /\ e.timer = f.timer
             /\ Range(new) = Range(pubs) \cup {e}
    BY <2>1, <2>2, <2>3, PubAdded
  <2> QED BY <2>2, <2>4
<1>8. PICK e \in Pub :
                /\ e.id = MsgId /\ e.name = name /\ e.qos = qos /\ e.tid = tid
                /\ e.st = st /\ e.retry = Retry /\ e.timer = "off"
                /\ Range(new) = Range(pubs) \cup {e}
  BY <1>7
<1>9. nextMsgId' \in Nat /\ nextMsgId' >= nextMsgId /\ MsgId \in 1..nextMsgId'
  BY <1>1, <1>5
<1>10. ListsOK'
  <2>1. /\ \A x \in Range(pubs) : x.id \in 1..nextMsgId'
        /\ \A x \in Range(subs) : x.id \in 1..nextMsgId'
    BY <1>9, FitStill
  <2>2. \A x \in Range(new) : x.id \in 1..nextMsgId'
    BY <1>8, <1>9, <2>1
  <2>3. UNCHANGED subs /\ subs \in Seq(Sub) /\ Unique(subs)
    BY <1>2 DEF TypeInv, ListsOK
  <2> QED BY <1>5, <1>6, <1>7, <1>9, <2>1, <2>2, <2>3 DEF ListsOK
<1>11. PubsOK'
  <2>1. PubOK(e)
    BY <1>1, <1>8 DEF PubOK, st
  <2>2. \A x \in Range(new) : PubOK(x)
    BY <1>8, <2>1 DEF TypeInv, PubsOK
  <2> QED BY <1>6, <2>2 DEF PubsOK
<1>12. JobOK' /\ job' \in Jobs /\ ~Disconnecting'
  <2>1. CASE tid # 0
    <3>1. e \in Range(new) /\ e.retry >= 0 /\ e.st # "SUSPEND"
      BY <1>8, <2>1, RetryPositive DEF st
    <3>2. \E x \in Range(new) : x.id = MsgId /\ x.retry >= 0 /\ x.st # "SUSPEND"
      BY <1>8, <3>1
    <3> QED BY <1>1, <1>3, <1>6, <2>1, <3>2 DEF JobOK, Jobs, Disconnecting
  <2>2. CASE tid = 0
    <3> DEFINE n == MsgId + 1
    <3>1. n \in Nat /\ n > nextMsgId /\ RegisterTopic(name, n)
      BY <1>1, <1>3, <2>2
    <3> HIDE DEF n
    <3>2. \/ UNCHANGED <<regs, job>>
          \/ /\ job' = [do |-> "register", id |-> n]
             /\ \E x \in Range(regs') : x.id = n /\ x.retry = Retry
      BY <1>1, <3>1, RegisterTopicEffect
    <3> QED BY <1>1, <3>1, <3>2, RetryPositive DEF JobOK, Jobs, NoJob, Disconnecting
  <2> QED BY <1>1, <2>1, <2>2
<1>13. ProxyOK'
  BY <1>2, <1>12 DEF proxy, TypeInv, ProxyOK, Waits
<1>14. ToGwOK'
  BY <1>2, <1>9, GrownOK DEF net
<1>15. HistoryOK'
  BY <1>2, <1>4 DEF TypeInv, HistoryOK, Incidents
<1>16. TableOK' /\ ToClientOK' /\ GwOK'
  BY <1>2 DEF net, TypeInv, TableOK, ToClientOK, GwOK
<1> QED BY <1>10, <1>11, <1>12, <1>13, <1>14, <1>15, <1>16 DEF TypeInv

(* disconnect() by the application. *)
LEMMA DisconnectTyped ==
    ASSUME TypeInv, NEW secs \in {0, 1}, Disconnect(secs)
    PROVE  TypeInv'
<1>1. ProxyOK'
  BY RetryPositive DEF Disconnect, TypeInv, ProxyOK, Waits, Disconnecting, Status, Jobs
<1>2. ToGwOK'
  <2> DEFINE m == [type |-> "DISCONNECT"]
  <2>1. nextMsgId' = nextMsgId /\ Sent(m)
    BY DEF Disconnect
  <2>2. UpOK(m, nextMsgId)
    BY DEF UpOK
  <2> HIDE DEF m
  <2> QED BY <2>1, <2>2, SentOK
<1>3. JobOK'
  BY DEF Disconnect, JobOK
<1>4. TableOK' /\ ListsOK' /\ PubsOK' /\ ToClientOK' /\ GwOK' /\ HistoryOK'
  BY DEF TypeInv, TableOK, ListsOK, PubsOK, ToClientOK, GwOK, HistoryOK, Disconnect, lists, history
<1> QED BY <1>1, <1>2, <1>3, <1>4 DEF TypeInv

-----------------------------------------------------------------------------
(* getMessage() between the tasks leaves the dialogues in order. *)
LEMMA PolledProxy ==
    ASSUME TypeInv, Polling, UNCHANGED <<config, retry, buf>>, ping' \in -1..Retry,
           status' \in {status, "LOST", "DISCONNECTED"},
           job' \in Jobs, job'.do # "disconnect", corrupt' \in BOOLEAN
    PROVE  ProxyOK'
<1>1. tasks' \in BOOLEAN
  BY DEF Polling, AfterPoll
<1>2. status' \in Status
  BY DEF TypeInv, ProxyOK, Status
<1>3. Waits' => Waits
  BY DEF Waits
<1> QED BY <1>1, <1>2, <1>3 DEF TypeInv, ProxyOK, Waits, Disconnecting

LEMMA PollingIdle ==
    ASSUME TypeInv, Polling
    PROVE  job = NoJob /\ job \in Jobs /\ job.do = "nothing" /\ corrupt \in BOOLEAN
           /\ ping \in -1..Retry /\ Retry \in -1..Retry
BY RetryPositive DEF TypeInv, ProxyOK, Polling, Jobs, NoJob

(* What the lists keep when a message or a timer touches one of them. *)
LEMMA SamePubs ==
    ASSUME TypeInv, UNCHANGED pubs
    PROVE  /\ pubs' \in Seq(Pub) /\ Unique(pubs')
           /\ \A x \in Range(pubs') : x.id \in 1..nextMsgId /\ PubOK(x)
BY DEF TypeInv, ListsOK, PubsOK

LEMMA SameRegs ==
    ASSUME TypeInv, UNCHANGED regs
    PROVE  regs' \in Seq(Reg) /\ Unique(regs') /\ \A x \in Range(regs') : x.id \in 1..nextMsgId
BY DEF TypeInv, ListsOK

LEMMA SameSubs ==
    ASSUME TypeInv, UNCHANGED subs
    PROVE  subs' \in Seq(Sub) /\ Unique(subs') /\ \A x \in Range(subs') : x.id \in 1..nextMsgId
BY DEF TypeInv, ListsOK

LEMMA ListsKept ==
    ASSUME TypeInv, UNCHANGED nextMsgId,
           pubs' \in Seq(Pub), Unique(pubs'),
           \A x \in Range(pubs') : x.id \in 1..nextMsgId /\ PubOK(x),
           regs' \in Seq(Reg), Unique(regs'), \A x \in Range(regs') : x.id \in 1..nextMsgId,
           subs' \in Seq(Sub), Unique(subs'), \A x \in Range(subs') : x.id \in 1..nextMsgId
    PROVE  ListsOK' /\ PubsOK'
BY DEF TypeInv, ListsOK, PubsOK

(* A publication that is done. *)
LEMMA PubDoneTyped ==
    ASSUME TypeInv, NEW id \in Ids(pubs), PubDone(id)
    PROVE  /\ pubs' \in Seq(Pub) /\ Unique(pubs') /\ corrupt' \in BOOLEAN
           /\ \A x \in Range(pubs') : x.id \in 1..nextMsgId /\ PubOK(x)
<1>1. PICK new : new = pubs'
  OBVIOUS
<1>2. /\ corrupt' \in BOOLEAN /\ new \in Seq(Pub) /\ Unique(new)
      /\ \A x \in Range(new) : \E y \in Range(pubs) : Like(x, y)
  BY <1>1, PubGone
<1>3. \A x \in Range(new) : x.id \in 1..nextMsgId /\ PubOK(x)
  BY <1>2, GonePubsOK
<1> QED BY <1>1, <1>2, <1>3

LEMMA RegDoneTyped ==
    ASSUME TypeInv, NEW id \in Ids(regs), regs' = regs \/ regs' = Removed(regs, id)
    PROVE  regs' \in Seq(Reg) /\ Unique(regs') /\ \A x \in Range(regs') : x.id \in 1..nextMsgId
<1>1. PICK new : new = regs'
  OBVIOUS
<1>2. /\ new \in Seq(Reg) /\ Unique(new)
      /\ \A x \in Range(new) : \E y \in Range(regs) : Like(x, y)
  BY <1>1, RegGone
<1>3. \A x \in Range(new) : x.id \in 1..nextMsgId
  BY <1>2, GoneRegsOK
<1> QED BY <1>1, <1>2, <1>3

LEMMA SubDoneTyped ==
    ASSUME TypeInv, NEW id \in Ids(subs), subs' = subs \/ subs' = Removed(subs, id)
    PROVE  subs' \in Seq(Sub) /\ Unique(subs') /\ \A x \in Range(subs') : x.id \in 1..nextMsgId
<1>1. PICK new : new = subs'
  OBVIOUS
<1>2. /\ new \in Seq(Sub) /\ Unique(new)
      /\ \A x \in Range(new) : \E y \in Range(subs) : Like(x, y)
  BY <1>1, SubGone
<1>3. \A x \in Range(new) : x.id \in 1..nextMsgId
  BY <1>2, GoneSubsOK
<1> QED BY <1>1, <1>2, <1>3

(* A publication changes its status, not its id. *)
LEMMA PubSet ==
    ASSUME TypeInv, NEW i \in DOMAIN pubs, NEW f \in Pub, f.id = pubs[i].id, PubOK(f),
           pubs' = [pubs EXCEPT ![i] = f]
    PROVE  /\ pubs' \in Seq(Pub) /\ Unique(pubs')
           /\ \A x \in Range(pubs') : x.id \in 1..nextMsgId /\ PubOK(x)
           /\ Range(pubs') = (Range(pubs) \ {pubs[i]}) \cup {f}
           /\ \A x \in Range(pubs) : x = pubs[i] <=> x.id = f.id
<1>1. PICK new : new = pubs'
  OBVIOUS
<1>2. /\ new \in Seq(Pub) /\ DOMAIN new = DOMAIN pubs /\ new[i] = f
      /\ \A j \in DOMAIN pubs : j # i => new[j] = pubs[j]
  BY <1>1 DEF TypeInv, ListsOK
<1>3. /\ new \in Seq(Pub) /\ Unique(new)
      /\ \A x \in Range(new) : x.id \in 1..nextMsgId /\ PubOK(x)
      /\ Range(new) = (Range(pubs) \ {pubs[i]}) \cup {f}
      /\ \A x \in Range(pubs) : x = pubs[i] <=> x.id = f.id
  BY <1>2, PubReplaced
<1> QED BY <1>1, <1>3

(* What is on a list has its type. *)
LEMMA PubThere ==
    ASSUME TypeInv, NEW i \in DOMAIN pubs
    PROVE  /\ pubs[i] \in Pub /\ pubs[i] \in Range(pubs) /\ PubOK(pubs[i])
           /\ pubs[i].id \in Ids(pubs) /\ pubs[i].id \in 1..nextMsgId
BY DEF TypeInv, ListsOK, PubsOK, Range, Ids

LEMMA IdOfPub ==
    ASSUME TypeInv, NEW id \in Ids(pubs)
    PROVE  id \in Nat
<1>1. PICK i \in DOMAIN pubs : id = pubs[i].id
  BY DEF Ids
<1>2. pubs[i] \in Pub
  BY PubThere
<1> QED BY <1>1, <1>2 DEF Pub

LEMMA RegThere ==
    ASSUME TypeInv, NEW i \in DOMAIN regs
    PROVE  /\ regs[i] \in Reg /\ regs[i] \in Range(regs)
           /\ regs[i].id \in Ids(regs) /\ regs[i].id \in 1..nextMsgId
BY DEF TypeInv, ListsOK, Range, Ids

LEMMA SubThere ==
    ASSUME TypeInv, NEW i \in DOMAIN subs
    PROVE  /\ subs[i] \in Sub /\ subs[i] \in Range(subs)
           /\ subs[i].id \in Ids(subs) /\ subs[i].id \in 1..nextMsgId
BY DEF TypeInv, ListsOK, Range, Ids

(* PUBACK. *)
LEMMA PubackTyped ==
    ASSUME TypeInv, Puback
    PROVE  TypeInv'
<1> DEFINE i == At(pubs, Msg.id)
<1>1. /\ Polling /\ toClient # << >> /\ toClient' = Tail(toClient)
      /\ UNCHANGED <<topicTbl, subs, status, ping, toGw>> /\ UNCHANGED <<config, retry, buf, gw, got>>
  BY DEF Puback, Takes, Unchanged4Takes
<1>2. /\ job = NoJob /\ job \in Jobs /\ job.do = "nothing" /\ corrupt \in BOOLEAN
      /\ ping' \in -1..Retry /\ Retry \in -1..Retry
  BY <1>1, PollingIdle
<1>3. ToClientOK'
  BY <1>1, TakenOK
<1>4. CASE UNCHANGED <<nextMsgId, regs, job, seen>> /\ (UNCHANGED <<pubs, corrupt, done>>
           \/ (Msg.id \in Ids(pubs) /\ PubDone(Msg.id) /\ done' = done \cup {Msg.id}))
  <2>1. /\ pubs' \in Seq(Pub) /\ Unique(pubs') /\ corrupt' \in BOOLEAN
        /\ \A x \in Range(pubs') : x.id \in 1..nextMsgId /\ PubOK(x)
    BY <1>2, <1>4, SamePubs, PubDoneTyped
  <2>2. ListsOK' /\ PubsOK'
    BY <1>1, <1>4, <2>1, SameRegs, SameSubs, ListsKept
  <2>3. ProxyOK'
    BY <1>1, <1>2, <1>4, <2>1, PolledProxy
  <2>4. JobOK'
    BY <1>2, <1>4 DEF JobOK
  <2>5. HistoryOK'
    <3>1. Msg.id \in Ids(pubs) => Msg.id \in Nat
      BY IdOfPub
    <3> QED BY <1>1, <1>4, <3>1 DEF TypeInv, HistoryOK
  <2>6. TableOK' /\ ToGwOK' /\ GwOK'
    BY <1>1, <1>4 DEF TypeInv, TableOK, ToGwOK, GwOK
  <2> QED BY <1>3, <2>2, <2>3, <2>4, <2>5, <2>6 DEF TypeInv
<1>5. CASE /\ Msg.id \in Ids(pubs)
           /\ pubs' = [pubs EXCEPT ![i].st = "SUSPEND", ![i].tid = 0,
                                   ![i].retry = Retry, ![i].timer = "off"]
           /\ RegisterTopic(pubs[i].name, MsgId)
           /\ seen' \subseteq seen \cup {"shared", "stale"}
           /\ UNCHANGED <<corrupt, done>>
  <2> DEFINE e == pubs[i]
  <2> DEFINE f == [e EXCEPT !.st = "SUSPEND", !.tid = 0, !.retry = Retry, !.timer = "off"]
  <2> DEFINE n == MsgId
  <2>1. i \in DOMAIN pubs /\ e \in Pub /\ e.name \in Names /\ n \in Nat /\ n > nextMsgId
        /\ n - 1 = nextMsgId
    <3>1. i \in DOMAIN pubs
      BY <1>5, AtIsThere
    <3>2. e \in Pub
      BY <3>1, PubThere
    <3>3. nextMsgId \in Nat
      BY DEF TypeInv, ListsOK
    <3>4. e.name \in Names
      BY <3>2 DEF Pub
    <3>5. n \in Nat /\ n > nextMsgId /\ n - 1 = nextMsgId
      BY <3>3 DEF MsgId
    <3> QED BY <3>1, <3>2, <3>4, <3>5
  <2>2. pubs' = [pubs EXCEPT ![i] = f] /\ f \in Pub /\ f.id = e.id /\ RegisterTopic(e.name, n)
    BY <1>2, <1>5, <2>1 DEF TypeInv, ListsOK, Pub, PubStatus
  <2>3. PubOK(f)
    BY <2>1 DEF PubOK, Pub
  <2> HIDE DEF f, n, i
  <2>4. /\ pubs' \in Seq(Pub) /\ Unique(pubs')
        /\ \A x \in Range(pubs') : x.id \in 1..nextMsgId /\ PubOK(x)
    BY <2>1, <2>2, <2>3, PubSet
  <2> HIDE DEF e
  <2>5. /\ regs' \in Seq(Reg) /\ Unique(regs') /\ nextMsgId' \in {n - 1, n}
        /\ \A x \in Range(regs') : x.id \in 1..nextMsgId'
        /\ \/ UNCHANGED <<regs, job>>
           \/ /\ job' = [do |-> "register", id |-> n]
              /\ \E x \in Range(regs') : x.id = n /\ x.retry = Retry
    BY <2>1, <2>2, RegisterTopicEffect
  <2>6. nextMsgId' \in Nat /\ nextMsgId' >= nextMsgId /\ nextMsgId \in Nat
    BY <2>1, <2>5 DEF TypeInv, ListsOK
  <2>7. ListsOK' /\ PubsOK'
    <3>1. \A x \in Range(subs) : x.id \in 1..nextMsgId'
      BY <2>6, FitStill
    <3>2. 1..nextMsgId \subseteq 1..nextMsgId'
      BY <2>6
    <3>3. UNCHANGED subs /\ subs \in Seq(Sub) /\ Unique(subs)
      BY <1>1 DEF TypeInv, ListsOK
    <3> QED BY <2>4, <2>5, <2>6, <3>1, <3>2, <3>3 DEF ListsOK, PubsOK
  <2>8. JobOK' /\ job' \in Jobs /\ job'.do # "disconnect"
    BY <1>2, <2>1, <2>5, RetryPositive DEF JobOK, Jobs
  <2>9. ProxyOK'
    BY <1>1, <1>2, <1>5, <2>8, PolledProxy
  <2>10. ToGwOK'
    BY <1>1, <2>6, GrownOK
  <2>11. HistoryOK'
    BY <1>1, <1>5 DEF TypeInv, HistoryOK, Incidents
  <2>12. TableOK' /\ GwOK'
    BY <1>1 DEF TypeInv, TableOK, GwOK
  <2> QED BY <1>3, <2>7, <2>8, <2>9, <2>10, <2>11, <2>12 DEF TypeInv
<1>6. \/ /\ UNCHANGED <<nextMsgId, regs, job, seen>>
         /\ \/ UNCHANGED <<pubs, corrupt, done>>
            \/ Msg.id \in Ids(pubs) /\ PubDone(Msg.id) /\ done' = done \cup {Msg.id}
      \/ /\ Msg.id \in Ids(pubs)
         /\ pubs' = [pubs EXCEPT ![i].st = "SUSPEND", ![i].tid = 0,
                                 ![i].retry = Retry, ![i].timer = "off"]
         /\ RegisterTopic(pubs[i].name, MsgId)
         /\ seen' \subseteq seen \cup {"shared", "stale"}
         /\ UNCHANGED <<corrupt, done>>
  <2>1. CASE Msg.id \notin Ids(pubs)
    BY <2>1 DEF Puback
  <2>2. CASE Msg.id \in Ids(pubs) /\ Msg.ok
    BY <2>2 DEF Puback
  <2>3. CASE Msg.id \in Ids(pubs) /\ ~Msg.ok
    BY <2>3 DEF Puback, Incident
  <2> QED BY <2>1, <2>2, <2>3
<1> QED BY <1>4, <1>5, <1>6

(* PUBREC. *)
LEMMA PubrecTyped ==
    ASSUME TypeInv, Pubrec
    PROVE  TypeInv'
<1> DEFINE here == {i \in DOMAIN pubs : pubs[i].id = Msg.id
                                        /\ pubs[i].st \in {"WAIT_PUBREC", "WAIT_PUBCOMP"}}
<1>1. /\ Polling /\ toClient # << >> /\ toClient' = Tail(toClient)
      /\ UNCHANGED <<nextMsgId, topicTbl, regs, subs, job, corrupt, status, ping, done, seen>>
      /\ UNCHANGED <<config, retry, buf, gw, got>>
  BY DEF Pubrec, Takes, Unchanged4Takes
<1>2. /\ job = NoJob /\ job \in Jobs /\ job.do = "nothing" /\ corrupt \in BOOLEAN
      /\ ping' \in -1..Retry
  BY <1>1, PollingIdle
<1>3. ToClientOK'
  BY <1>1, TakenOK
<1>4. ToGwOK'
  <2> DEFINE m == [type |-> "PUBREL", id |-> Msg.id]
  <2>1. nextMsgId' = nextMsgId /\ (Sent(m) \/ UNCHANGED toGw)
    BY DEF Pubrec
  <2>2. UpOK(m, nextMsgId)
    BY DEF UpOK
  <2>3. UNCHANGED toGw => ToGwOK'
    BY <2>1 DEF TypeInv, ToGwOK
  <2> HIDE DEF m
  <2> QED BY <2>1, <2>2, <2>3, SentOK
<1>5. /\ pubs' \in Seq(Pub) /\ Unique(pubs')
      /\ \A x \in Range(pubs') : x.id \in 1..nextMsgId /\ PubOK(x)
  <2>1. CASE UNCHANGED pubs
    BY <2>1, SamePubs
  <2>2. CASE \E i \in here : pubs' = [pubs EXCEPT ![i].st = "WAIT_PUBCOMP", ![i].timer = "on"]
    <3>1. PICK i \in here : pubs' = [pubs EXCEPT ![i].st = "WAIT_PUBCOMP", ![i].timer = "on"]
      BY <2>2
    <3> DEFINE e == pubs[i]
    <3> DEFINE f == [e EXCEPT !.st = "WAIT_PUBCOMP", !.timer = "on"]
    <3>2. i \in DOMAIN pubs /\ e \in Pub /\ PubOK(e) /\ e.st \in {"WAIT_PUBREC", "WAIT_PUBCOMP"}
      BY PubThere
    <3>3. f \in Pub /\ f.id = e.id /\ pubs' = [pubs EXCEPT ![i] = f]
      BY <3>1, <3>2 DEF Pub, PubStatus, TypeInv, ListsOK
    <3>4. PubOK(f)
      BY <3>2 DEF PubOK, Pub
    <3> HIDE DEF f
    <3> QED BY <3>2, <3>3, <3>4, PubSet
  <2>3. UNCHANGED pubs \/ \E i \in here : pubs' = [pubs EXCEPT ![i].st = "WAIT_PUBCOMP", ![i].timer = "on"]
    BY DEF Pubrec
  <2> QED BY <2>1, <2>2, <2>3
<1>6. ListsOK' /\ PubsOK'
  BY <1>1, <1>5, SameRegs, SameSubs, ListsKept
<1>7. ProxyOK'
  BY <1>1, <1>2, PolledProxy
<1>8. JobOK'
  BY <1>1, <1>2 DEF JobOK
<1>9. TableOK' /\ GwOK' /\ HistoryOK'
  BY <1>1 DEF TypeInv, TableOK, GwOK, HistoryOK
<1> QED BY <1>3, <1>4, <1>6, <1>7, <1>8, <1>9 DEF TypeInv

(* PUBCOMP. *)
LEMMA PubcompTyped ==
    ASSUME TypeInv, Pubcomp
    PROVE  TypeInv'
<1>1. /\ Polling /\ toClient # << >> /\ toClient' = Tail(toClient)
      /\ UNCHANGED <<nextMsgId, topicTbl, regs, subs, job, status, ping, toGw, seen>>
      /\ UNCHANGED <<config, retry, buf, gw, got>>
  BY DEF Pubcomp, Takes, Unchanged4Takes
<1>2. /\ job = NoJob /\ job \in Jobs /\ job.do = "nothing" /\ corrupt \in BOOLEAN
      /\ ping' \in -1..Retry
  BY <1>1, PollingIdle
<1>3. ToClientOK'
  BY <1>1, TakenOK
<1>4. \/ UNCHANGED <<pubs, corrupt, done>>
      \/ Msg.id \in Ids(pubs) /\ PubDone(Msg.id) /\ done' = done \cup {Msg.id}
  BY DEF Pubcomp, Ids
<1>5. /\ pubs' \in Seq(Pub) /\ Unique(pubs') /\ corrupt' \in BOOLEAN
      /\ \A x \in Range(pubs') : x.id \in 1..nextMsgId /\ PubOK(x)
  BY <1>2, <1>4, SamePubs, PubDoneTyped
<1>6. ListsOK' /\ PubsOK'
  BY <1>1, <1>5, SameRegs, SameSubs, ListsKept
<1>7. ProxyOK'
  BY <1>1, <1>2, <1>5, PolledProxy
<1>8. JobOK'
  BY <1>1, <1>2 DEF JobOK
<1>9. HistoryOK'
  <2>1. Msg.id \in Ids(pubs) => Msg.id \in Nat
    BY IdOfPub
  <2> QED BY <1>1, <1>4, <2>1 DEF TypeInv, HistoryOK
<1>10. TableOK' /\ ToGwOK' /\ GwOK'
  BY <1>1 DEF TypeInv, TableOK, ToGwOK, GwOK
<1> QED BY <1>3, <1>6, <1>7, <1>8, <1>9, <1>10 DEF TypeInv

(* REGACK. *)
LEMMA RegackTyped ==
    ASSUME TypeInv, Regack
    PROVE  TypeInv'
<1> DEFINE name == regs[At(regs, Msg.id)].name
<1> DEFINE waits == {i \in Named(pubs, name) : pubs[i].st = "SUSPEND"}
<1> DEFINE first == CHOOSE j \in waits : \A k \in waits : j <= k
<1>1. /\ Polling /\ toClient # << >> /\ toClient' = Tail(toClient) /\ Msg.type = "REGACK"
      /\ UNCHANGED <<nextMsgId, subs, status, ping, toGw, done, seen>>
      /\ UNCHANGED <<config, retry, buf, gw, got>>
  BY DEF Regack, Takes, Unchanged4Takes, Msg
<1>2. /\ job = NoJob /\ job \in Jobs /\ job.do = "nothing" /\ corrupt \in BOOLEAN
      /\ ping' \in -1..Retry
  BY <1>1, PollingIdle
<1>3. ToClientOK' /\ Msg.tid \in Nat \ {0}
  BY <1>1, TakenOK DEF Msg, DownOK
<1>4. ToGwOK' /\ GwOK' /\ HistoryOK'
  BY <1>1 DEF TypeInv, ToGwOK, GwOK, HistoryOK
<1>5. CASE Msg.id \notin Ids(regs)
  <2>1. UNCHANGED <<topicTbl, regs, corrupt, pubs, job>>
    BY <1>5 DEF Regack
  <2>2. ListsOK' /\ PubsOK' /\ TableOK' /\ JobOK'
    BY <1>1, <2>1 DEF TypeInv, ListsOK, PubsOK, TableOK, JobOK
  <2>3. ProxyOK'
    BY <1>1, <1>2, <2>1, PolledProxy
  <2> QED BY <1>3, <1>4, <2>2, <2>3 DEF TypeInv
<1>6. CASE Msg.id \in Ids(regs)
  <2>1. /\ topicTbl' = WithTopicId(name, Msg.tid)
        /\ (corrupt' = TRUE /\ regs' = regs) \/ (corrupt' = corrupt /\ regs' = Removed(regs, Msg.id))
    BY <1>6 DEF Regack
  <2>2. IF waits = {} THEN UNCHANGED <<pubs, job>>
        ELSE /\ pubs' = [pubs EXCEPT ![first].tid = Msg.tid, ![first].st = "READY"]
             /\ job' = [do |-> "publish", id |-> pubs[first].id]
    BY <1>6 DEF Regack
  <2>3. name \in Names
    BY <1>6, AtIsThere, RegThere DEF Reg
  <2>4. regs' \in Seq(Reg) /\ Unique(regs') /\ \A x \in Range(regs') : x.id \in 1..nextMsgId
    BY <1>6, <2>1, RegDoneTyped
  <2>5. TableOK'
    <3>1. PICK new : new = topicTbl'
      OBVIOUS
    <3>2. new \in Seq(AnyName \X (Nat \ {0}))
      BY <1>3, <2>1, <2>3, <3>1, WithTopicIdKeeps DEF AnyName
    <3> QED BY <3>1, <3>2 DEF TableOK
  <2> HIDE DEF name
  <2>6. CASE waits = {}
    <3>1. UNCHANGED <<pubs, job>>
      BY <2>2, <2>6
    <3>2. ListsOK' /\ PubsOK'
      BY <1>1, <2>4, <3>1, SamePubs, SameSubs, ListsKept
    <3>3. ProxyOK'
      BY <1>1, <1>2, <2>1, <3>1, PolledProxy
    <3>4. JobOK'
      BY <1>2, <3>1 DEF JobOK
    <3> QED BY <1>3, <1>4, <2>5, <3>2, <3>3, <3>4 DEF TypeInv
  <2>7. CASE waits # {}
    <3>1. first \in waits
      <4>1. waits \subseteq Nat
        BY DEF Named, TypeInv, ListsOK
      <4>2. \E j \in waits : \A k \in waits : j <= k
        <5> HIDE DEF waits
        <5> QED BY <2>7, <4>1, LeastIsThere
      <4> QED BY <4>2
    <3> DEFINE e == pubs[first]
    <3>2. first \in DOMAIN pubs /\ e.st = "SUSPEND"
      BY <3>1 DEF Named
    <3> HIDE DEF first, waits
    <3>3. e \in Pub /\ e \in Range(pubs) /\ PubOK(e)
      BY <3>2, PubThere
    <3> DEFINE f == [e EXCEPT !.tid = Msg.tid, !.st = "READY"]
    <3>4. f \in Pub /\ f.id = e.id /\ pubs' = [pubs EXCEPT ![first] = f]
      BY <1>3, <2>2, <2>7, <3>2, <3>3 DEF Pub, PubStatus, TypeInv, ListsOK
    <3>5. PubOK(f) /\ f.retry = Retry /\ f.st = "READY"
      BY <1>3, <3>2, <3>3 DEF PubOK, Pub
    <3> HIDE DEF f
    <3>6. /\ pubs' \in Seq(Pub) /\ Unique(pubs')
          /\ \A x \in Range(pubs') : x.id \in 1..nextMsgId /\ PubOK(x)
          /\ f \in Range(pubs')
      <4>1. f \in Pub /\ f.id = pubs[first].id /\ PubOK(f) /\ first \in DOMAIN pubs
            /\ pubs' = [pubs EXCEPT ![first] = f]
        BY <3>2, <3>4, <3>5
      <4> HIDE DEF e
      <4>2. /\ pubs' \in Seq(Pub) /\ Unique(pubs')
            /\ \A x \in Range(pubs') : x.id \in 1..nextMsgId /\ PubOK(x)
            /\ Range(pubs') = (Range(pubs) \ {pubs[first]}) \cup {f}
        BY <4>1, PubSet
      <4> QED BY <4>2
    <3>7. ListsOK' /\ PubsOK'
      BY <1>1, <2>4, <3>6, SameSubs, ListsKept
    <3>8. job' = [do |-> "publish", id |-> f.id] /\ f.id \in Nat
      BY <2>2, <2>7, <3>4 DEF Pub
    <3>9. job' \in Jobs /\ job'.do = "publish" /\ job'.id = f.id
      BY <3>8 DEF Jobs
    <3>10. ProxyOK'
      BY <1>1, <1>2, <2>1, <3>9, PolledProxy
    <3>11. JobOK'
      <4>1. f.id = job'.id /\ f.retry >= 0 /\ f.st # "SUSPEND"
        BY <3>5, <3>9, RetryPositive
      <4> QED BY <3>6, <3>9, <4>1 DEF JobOK
    <3> QED BY <1>3, <1>4, <2>5, <3>7, <3>10, <3>11 DEF TypeInv
  <2> QED BY <2>6, <2>7
<1> QED BY <1>5, <1>6

(* SUBACK. *)
LEMMA SubackTyped ==
    ASSUME TypeInv, Suback
    PROVE  TypeInv'
<1> DEFINE name == subs[At(subs, Msg.id)].name
<1>1. /\ Polling /\ toClient # << >> /\ toClient' = Tail(toClient) /\ Msg.type = "SUBACK"
      /\ UNCHANGED <<nextMsgId, pubs, regs, job, status, ping, toGw, done, seen>>
      /\ UNCHANGED <<config, retry, buf, gw, got>>
  BY DEF Suback, Takes, Unchanged4Takes, Msg
<1>2. /\ job = NoJob /\ job \in Jobs /\ job.do = "nothing" /\ corrupt \in BOOLEAN
      /\ ping' \in -1..Retry
  BY <1>1, PollingIdle
<1>3. ToClientOK' /\ Msg.tid \in Nat \ {0}
  BY <1>1, TakenOK DEF Msg, DownOK
<1>4. ToGwOK' /\ GwOK' /\ HistoryOK' /\ JobOK'
  BY <1>1, <1>2 DEF TypeInv, ToGwOK, GwOK, HistoryOK, JobOK
<1>5. CASE Msg.id \notin Ids(subs)
  <2>1. UNCHANGED <<topicTbl, subs, corrupt>>
    BY <1>5 DEF Suback
  <2>2. ListsOK' /\ PubsOK' /\ TableOK'
    BY <1>1, <2>1 DEF TypeInv, ListsOK, PubsOK, TableOK
  <2>3. ProxyOK'
    BY <1>1, <1>2, <2>1, PolledProxy
  <2> QED BY <1>3, <1>4, <2>2, <2>3 DEF TypeInv
<1>6. CASE Msg.id \in Ids(subs)
  <2>1. /\ topicTbl' = WithTopic(name, Msg.tid)
        /\ (corrupt' = TRUE /\ subs' = subs) \/ (corrupt' = corrupt /\ subs' = Removed(subs, Msg.id))
    BY <1>6 DEF Suback
  <2>2. name \in AnyName
    BY <1>6, AtIsThere, SubThere DEF Sub, AnyName
  <2>3. subs' \in Seq(Sub) /\ Unique(subs') /\ \A x \in Range(subs') : x.id \in 1..nextMsgId
    BY <1>6, <2>1, SubDoneTyped
  <2>4. TableOK'
    <3>1. PICK new : new = topicTbl'
      OBVIOUS
    <3>2. new \in Seq(AnyName \X (Nat \ {0}))
      BY <1>3, <2>1, <2>2, <3>1, WithTopicIdKeeps
    <3> QED BY <3>1, <3>2 DEF TableOK
  <2>5. ListsOK' /\ PubsOK'
    BY <1>1, <2>3, SamePubs, SameRegs, ListsKept
  <2>6. ProxyOK'
    BY <1>1, <1>2, <2>1, PolledProxy
  <2> QED BY <1>3, <1>4, <2>4, <2>5, <2>6 DEF TypeInv
<1> QED BY <1>5, <1>6

(* What else getMessage() reads. *)
LEMMA TakeOtherTyped ==
    ASSUME TypeInv, TakeOther
    PROVE  TypeInv'
<1>1. /\ Polling /\ toClient # << >> /\ toClient' = Tail(toClient)
      /\ ping' \in {-1, ping} /\ status' \in {status, "LOST"}
      /\ UNCHANGED <<nextMsgId, topicTbl, pubs, regs, subs, job, corrupt, toGw, done, seen>>
      /\ UNCHANGED <<config, retry, buf, gw, got>>
  BY DEF TakeOther, Takes, Unchanged4Takes, lists
<1>2. /\ job = NoJob /\ job \in Jobs /\ job.do = "nothing" /\ corrupt \in BOOLEAN
      /\ ping' \in -1..Retry
  BY <1>1, PollingIdle, RetryPositive
<1>3. ToClientOK'
  BY <1>1, TakenOK
<1>4. ProxyOK'
  BY <1>1, <1>2, PolledProxy
<1>5. TableOK' /\ ListsOK' /\ PubsOK' /\ JobOK' /\ ToGwOK' /\ GwOK' /\ HistoryOK'
  BY <1>1 DEF TypeInv, TableOK, ListsOK, PubsOK, JobOK, ToGwOK, GwOK, HistoryOK
<1> QED BY <1>3, <1>4, <1>5 DEF TypeInv

-----------------------------------------------------------------------------
(* The steps of the gateway leave the client alone. *)
LEMMA SameClient ==
    ASSUME TypeInv,
           UNCHANGED <<config, status, retry, buf, ping, nextMsgId, topicTbl, pubs, regs, subs>>,
           UNCHANGED <<job, tasks, corrupt, done>>
    PROVE  ProxyOK' /\ TableOK' /\ ListsOK' /\ PubsOK' /\ JobOK'
<1>1. ProxyOK'
  BY DEF TypeInv, ProxyOK, Waits, Disconnecting
<1>2. TableOK' /\ ListsOK' /\ PubsOK' /\ JobOK'
  BY DEF TypeInv, TableOK, ListsOK, PubsOK, JobOK
<1> QED BY <1>1, <1>2

(* Topics::add() and getTopicId() of the gateway. *)
LEMMA GwNamesKeep ==
    ASSUME TypeInv, NEW name \in AnyName
    PROVE  /\ GwNames(name) \in Seq(AnyName) /\ GwId(name) \in DOMAIN GwNames(name)
           /\ GwNames(name)[GwId(name)] = name
           /\ \A k \in DOMAIN gw.names : k \in DOMAIN GwNames(name) /\ GwNames(name)[k] = gw.names[k]
<1>1. gw.names \in Seq(AnyName)
  BY DEF TypeInv, GwOK
<1>2. /\ GwNames(name) \in Seq(AnyName)
      /\ \A k \in DOMAIN gw.names : k \in DOMAIN GwNames(name) /\ GwNames(name)[k] = gw.names[k]
      /\ \E k \in DOMAIN GwNames(name) : GwNames(name)[k] = name
  <2>1. CASE \E k \in DOMAIN gw.names : gw.names[k] = name
    BY <1>1, <2>1 DEF GwNames
  <2>2. CASE ~ \E k \in DOMAIN gw.names : gw.names[k] = name
    <3>1. GwNames(name) = Append(gw.names, name)
      BY <2>2 DEF GwNames
    <3>2. /\ Append(gw.names, name) \in Seq(AnyName)
          /\ DOMAIN Append(gw.names, name) = 1 .. (Len(gw.names) + 1) /\ Len(gw.names) \in Nat
          /\ DOMAIN gw.names = 1 .. Len(gw.names)
          /\ Append(gw.names, name)[Len(gw.names) + 1] = name
          /\ \A k \in 1 .. Len(gw.names) : Append(gw.names, name)[k] = gw.names[k]
      BY <1>1
    <3>3. Len(gw.names) + 1 \in 1 .. (Len(gw.names) + 1)
          /\ 1 .. Len(gw.names) \subseteq 1 .. (Len(gw.names) + 1)
      BY <3>2
    <3> QED BY <3>1, <3>2, <3>3
  <2> QED BY <2>1, <2>2
<1>3. GwId(name) \in DOMAIN GwNames(name) /\ GwNames(name)[GwId(name)] = name
  BY <1>2 DEF GwId
<1> QED BY <1>2, <1>3

(* A PINGREQ is sent. *)
LEMMA PingRequiredTyped ==
    ASSUME TypeInv, PingRequired
    PROVE  TypeInv'
<1>1. /\ Polling /\ ping' = Retry
      /\ UNCHANGED <<status, retry, buf, nextMsgId, pubs, regs, subs, job, corrupt, seen>>
      /\ UNCHANGED <<config, topicTbl, toClient, gw, got, done>>
  BY DEF PingRequired, Unchanged4Timer, lists
<1>2. ProxyOK'
  BY <1>1, PollingIdle, PolledProxy
<1>3. ToGwOK'
  <2> DEFINE m == [type |-> "PINGREQ"]
  <2>1. nextMsgId' = nextMsgId /\ (Sent(m) \/ UNCHANGED toGw)
    BY DEF PingRequired
  <2>2. UpOK(m, nextMsgId)
    BY DEF UpOK
  <2>3. UNCHANGED toGw => ToGwOK'
    BY <2>1 DEF TypeInv, ToGwOK
  <2> HIDE DEF m
  <2> QED BY <2>1, <2>2, <2>3, SentOK
<1>4. TableOK' /\ ListsOK' /\ PubsOK' /\ JobOK' /\ ToClientOK' /\ GwOK' /\ HistoryOK'
  BY <1>1 DEF TypeInv, TableOK, ListsOK, PubsOK, JobOK, ToClientOK, GwOK, HistoryOK
<1> QED BY <1>2, <1>3, <1>4 DEF TypeInv

(* No PINGRESP came. *)
LEMMA PingExpiredTyped ==
    ASSUME TypeInv, PingExpired
    PROVE  TypeInv'
<1>1. /\ Polling
      /\ UNCHANGED <<retry, buf, nextMsgId, pubs, regs, subs, job, corrupt>>
      /\ UNCHANGED <<config, topicTbl, toClient, gw, got, done>>
      /\ seen' \subseteq seen \cup {"repeated"}
      /\ status' \in {status, "LOST"} /\ ((ping - 1 > 0 /\ ping' = ping - 1) \/ ping' = -1)
  BY DEF PingExpired, Unchanged4Timer, lists, Sees, Incident
<1>2. ProxyOK'
  <2>1. ping \in -1..Retry /\ -1 \in -1..Retry /\ (ping - 1 > 0 => ping - 1 \in -1..Retry)
    BY <1>1, PollingIdle, RetryPositive
  <2>2. ping' \in -1..Retry
    BY <1>1, <2>1
  <2> QED BY <1>1, <2>2, PollingIdle, PolledProxy
<1>3. ToGwOK'
  <2> DEFINE m == [type |-> buf.type, clean |-> buf.clean, will |-> config.will]
  <2>1. nextMsgId' = nextMsgId /\ (Sent(m) \/ UNCHANGED toGw)
    BY DEF PingExpired
  <2>2. UpOK(m, nextMsgId)
    BY DEF UpOK, TypeInv, ProxyOK
  <2>3. UNCHANGED toGw => ToGwOK'
    BY <2>1 DEF TypeInv, ToGwOK
  <2> HIDE DEF m
  <2> QED BY <2>1, <2>2, <2>3, SentOK
<1>4. TableOK' /\ ListsOK' /\ PubsOK' /\ JobOK' /\ ToClientOK' /\ GwOK' /\ HistoryOK'
  BY <1>1 DEF TypeInv, TableOK, ListsOK, PubsOK, JobOK, ToClientOK, GwOK, HistoryOK, Incidents
<1> QED BY <1>2, <1>3, <1>4 DEF TypeInv

(* No ADVERTISE came. *)
LEMMA AdvertiseExpiredTyped ==
    ASSUME TypeInv, AdvertiseExpired
    PROVE  TypeInv'
<1>1. /\ Polling /\ status' = "LOST" /\ ping' = -1
      /\ UNCHANGED <<retry, buf, nextMsgId, pubs, regs, subs, job, corrupt, toGw, seen>>
      /\ UNCHANGED <<config, topicTbl, toClient, gw, got, done>>
  BY DEF AdvertiseExpired, Unchanged4Timer, lists
<1>2. ProxyOK'
  BY <1>1, PollingIdle, PolledProxy, RetryPositive
<1>4. TableOK' /\ ListsOK' /\ PubsOK' /\ JobOK' /\ ToGwOK' /\ ToClientOK' /\ GwOK' /\ HistoryOK'
  BY <1>1 DEF TypeInv, TableOK, ListsOK, PubsOK, JobOK, ToGwOK, ToClientOK, GwOK, HistoryOK
<1> QED BY <1>2, <1>4 DEF TypeInv

(* A registration is sent again or given up. *)
LEMMA RegisterExpiredTyped ==
    ASSUME TypeInv, NEW i \in DOMAIN regs, RegisterExpired(i)
    PROVE  TypeInv'
<1>1. /\ Polling /\ seen' \subseteq seen \cup {"gaveUp"}
      /\ UNCHANGED <<status, retry, buf, ping, nextMsgId, pubs, subs, toGw>>
      /\ UNCHANGED <<config, topicTbl, toClient, gw, got, done>>
  BY DEF RegisterExpired, Unchanged4Timer, proxy
<1>2. /\ job = NoJob /\ job \in Jobs /\ job.do = "nothing" /\ corrupt \in BOOLEAN
      /\ ping' \in -1..Retry
  BY <1>1, PollingIdle
<1>3. /\ regs[i] \in Reg /\ regs[i] \in Range(regs) /\ regs[i].id \in Ids(regs)
      /\ regs[i].id \in Nat
  BY RegThere DEF Reg
<1>4. TableOK' /\ ToGwOK' /\ ToClientOK' /\ GwOK' /\ HistoryOK'
  BY <1>1 DEF TypeInv, TableOK, ToGwOK, ToClientOK, GwOK, HistoryOK, Incidents
<1>5. CASE regs[i].retry >= 0
  <2>1. job' = [do |-> "register", id |-> regs[i].id] /\ UNCHANGED <<regs, corrupt>>
    BY <1>5 DEF RegisterExpired
  <2>2. job' \in Jobs /\ job'.do = "register" /\ job'.id = regs[i].id
    BY <1>3, <2>1 DEF Jobs
  <2>3. ListsOK' /\ PubsOK'
    BY <1>1, <2>1 DEF TypeInv, ListsOK, PubsOK
  <2>4. ProxyOK'
    BY <1>1, <1>2, <2>1, <2>2, PolledProxy
  <2>5. JobOK'
    BY <1>3, <1>5, <2>1, <2>2 DEF JobOK
  <2> QED BY <1>4, <2>3, <2>4, <2>5 DEF TypeInv
<1>6. CASE ~(regs[i].retry >= 0)
  <2>1. /\ UNCHANGED job
        /\ (corrupt' = TRUE /\ regs' = regs) \/ (corrupt' = corrupt /\ regs' = Removed(regs, regs[i].id))
    BY <1>6 DEF RegisterExpired
  <2>2. regs' \in Seq(Reg) /\ Unique(regs') /\ \A x \in Range(regs') : x.id \in 1..nextMsgId
    BY <1>3, <2>1, RegDoneTyped
  <2>3. ListsOK' /\ PubsOK'
    BY <1>1, <2>2, SamePubs, SameSubs, ListsKept
  <2>4. ProxyOK'
    BY <1>1, <1>2, <2>1, PolledProxy
  <2>5. JobOK'
    BY <1>2, <2>1 DEF JobOK
  <2> QED BY <1>4, <2>3, <2>4, <2>5 DEF TypeInv
<1> QED BY <1>5, <1>6

(* A subscription is sent again or given up. *)
LEMMA SubscribeExpiredTyped ==
    ASSUME TypeInv, NEW i \in DOMAIN subs, SubscribeExpired(i)
    PROVE  TypeInv'
<1> DEFINE e == subs[i]
<1>1. /\ Polling
      /\ UNCHANGED <<status, retry, buf, ping, nextMsgId, pubs, regs, job, seen>>
      /\ UNCHANGED <<config, topicTbl, toClient, gw, got, done>>
  BY DEF SubscribeExpired, Unchanged4Timer, proxy
<1>2. /\ job = NoJob /\ job \in Jobs /\ job.do = "nothing" /\ corrupt \in BOOLEAN
      /\ ping' \in -1..Retry
  BY <1>1, PollingIdle
<1>3. e \in Sub /\ e \in Range(subs) /\ e.id \in Ids(subs) /\ e.id \in 1..nextMsgId
      /\ e.retry \in -1..Retry /\ e.name \in AnyName
  BY SubThere DEF Sub, AnyName
<1>4. TableOK' /\ ToClientOK' /\ GwOK' /\ HistoryOK' /\ JobOK'
  BY <1>1, <1>2 DEF TypeInv, TableOK, ToClientOK, GwOK, HistoryOK, JobOK
<1>5. ToGwOK'
  <2> DEFINE m == Subscribe(e.id, e.name)
  <2>1. nextMsgId' = nextMsgId /\ (Sent(m) \/ UNCHANGED toGw)
    BY DEF SubscribeExpired
  <2>2. UpOK(m, nextMsgId)
    BY <1>3 DEF UpOK, Subscribe
  <2>3. UNCHANGED toGw => ToGwOK'
    BY <2>1 DEF TypeInv, ToGwOK
  <2> HIDE DEF m
  <2> QED BY <2>1, <2>2, <2>3, SentOK
<1>6. CASE e.retry >= 0
  <2> DEFINE f == [e EXCEPT !.retry = @ - 1]
  <2>1. subs' = [subs EXCEPT ![i].retry = @ - 1] /\ UNCHANGED corrupt
    BY <1>6 DEF SubscribeExpired
  <2>2. e.retry - 1 \in -1..Retry
    BY <1>3, <1>6, RetryPositive
  <2>3. f \in Sub /\ f.id = e.id
    BY <1>3, <2>2 DEF Sub
  <2>4. PICK new : new = subs'
    OBVIOUS
  <2>5. /\ subs \in Seq(Sub) /\ Unique(subs) /\ new = [subs EXCEPT ![i] = f]
        /\ \A x \in Range(subs) : x.id \in 1..nextMsgId
    BY <2>1, <2>4 DEF TypeInv, ListsOK
  <2> HIDE DEF f
  <2>6. /\ new \in Seq(Sub) /\ DOMAIN new = DOMAIN subs /\ new[i] = f
        /\ \A j \in DOMAIN subs : j # i => new[j] = subs[j]
    BY <2>3, <2>5
  <2>7. Unique(new) /\ Range(new) = (Range(subs) \ {subs[i]}) \cup {f}
    <3>1. subs \in Seq(Sub) /\ Unique(subs) /\ f.id = subs[i].id
      BY <2>3, <2>5
    <3> HIDE DEF e
    <3> QED BY <2>3, <2>6, <3>1, ReplaceUnique
  <2>8. \A x \in Range(new) : x.id \in 1..nextMsgId
    BY <1>3, <2>3, <2>5, <2>7
  <2>9. ListsOK' /\ PubsOK'
    BY <1>1, <2>4, <2>6, <2>7, <2>8, SamePubs, SameRegs, ListsKept
  <2>10. ProxyOK'
    BY <1>1, <1>2, <2>1, PolledProxy
  <2> QED BY <1>4, <1>5, <2>9, <2>10 DEF TypeInv
<1>7. CASE ~(e.retry >= 0)
  <2>1. (corrupt' = TRUE /\ subs' = subs) \/ (corrupt' = corrupt /\ subs' = Removed(subs, e.id))
    BY <1>7 DEF SubscribeExpired
  <2>2. subs' \in Seq(Sub) /\ Unique(subs') /\ \A x \in Range(subs') : x.id \in 1..nextMsgId
    BY <1>3, <2>1, SubDoneTyped
  <2>3. ListsOK' /\ PubsOK'
    BY <1>1, <2>2, SamePubs, SameRegs, ListsKept
  <2>4. ProxyOK'
    BY <1>1, <1>2, <2>1, PolledProxy
  <2> QED BY <1>4, <1>5, <2>3, <2>4 DEF TypeInv
<1> QED BY <1>6, <1>7

(* A publication is sent again, or the client connects again. *)
LEMMA PublishExpiredTyped ==
    ASSUME TypeInv, NEW i \in DOMAIN pubs, PublishExpired(i)
    PROVE  TypeInv'
<1> DEFINE e == pubs[i]
<1>1. /\ Polling
      /\ UNCHANGED <<retry, buf, ping, nextMsgId, regs, subs, corrupt, toGw, seen>>
      /\ UNCHANGED <<config, topicTbl, toClient, gw, got, done>>
      /\ e.timer \in {"on", "over"}
  BY DEF PublishExpired, Overdue, Unchanged4Timer
<1>2. /\ job = NoJob /\ job \in Jobs /\ job.do = "nothing" /\ corrupt \in BOOLEAN
      /\ ping' \in -1..Retry
  BY <1>1, PollingIdle
<1>3. e \in Pub /\ e \in Range(pubs) /\ PubOK(e) /\ e.id \in Nat
  BY PubThere DEF Pub
<1>4. TableOK' /\ ToGwOK' /\ ToClientOK' /\ GwOK' /\ HistoryOK'
  BY <1>1 DEF TypeInv, TableOK, ToGwOK, ToClientOK, GwOK, HistoryOK
<1>5. CASE e.retry >= 0
  <2>1. job' = [do |-> "publish", id |-> e.id] /\ UNCHANGED <<status, pubs>>
    BY <1>5 DEF PublishExpired
  <2>2. job' \in Jobs /\ job'.do = "publish" /\ job'.id = e.id
    BY <1>3, <2>1 DEF Jobs
  <2>3. ListsOK' /\ PubsOK'
    BY <1>1, <2>1 DEF TypeInv, ListsOK, PubsOK
  <2>4. ProxyOK'
    BY <1>1, <1>2, <2>1, <2>2, PolledProxy
  <2>5. JobOK'
    <3>1. e.st # "SUSPEND"
      BY <1>1, <1>3 DEF PubOK
    <3> QED BY <1>3, <1>5, <2>1, <2>2, <3>1 DEF JobOK
  <2> QED BY <1>4, <2>3, <2>4, <2>5 DEF TypeInv
<1>6. CASE ~(e.retry >= 0)
  <2> DEFINE f == [e EXCEPT !.timer = "over"]
  <2>1. /\ job' = [do |-> "reconnect", id |-> e.id] /\ status' = "DISCONNECTED"
        /\ pubs' = [pubs EXCEPT ![i].timer = "over"]
    BY <1>6 DEF PublishExpired
  <2>2. job' \in Jobs /\ job'.do = "reconnect" /\ job'.id = e.id
    BY <1>3, <2>1 DEF Jobs
  <2>3. f \in Pub /\ f.id = e.id /\ pubs' = [pubs EXCEPT ![i] = f]
    BY <1>3, <2>1 DEF Pub, TypeInv, ListsOK
  <2>4. PubOK(f)
    BY <1>1, <1>3 DEF PubOK, Pub
  <2> HIDE DEF f
  <2>5. /\ pubs' \in Seq(Pub) /\ Unique(pubs')
        /\ \A x \in Range(pubs') : x.id \in 1..nextMsgId /\ PubOK(x)
        /\ Range(pubs') = (Range(pubs) \ {pubs[i]}) \cup {f}
    BY <2>3, <2>4, PubSet
  <2>6. ListsOK' /\ PubsOK'
    BY <1>1, <2>5, SameRegs, SameSubs, ListsKept
  <2>7. ProxyOK'
    BY <1>1, <1>2, <2>1, <2>2, PolledProxy
  <2>8. JobOK'
    BY <2>2, <2>3, <2>5 DEF JobOK
  <2> QED BY <1>4, <2>6, <2>7, <2>8 DEF TypeInv
<1> QED BY <1>5, <1>6

(* What the gateway does not answer. *)
LEMMA GwIgnoresTyped ==
    ASSUME TypeInv, GwIgnores
    PROVE  TypeInv'
<1>1. /\ UNCHANGED <<config, status, retry, buf, ping, nextMsgId, topicTbl, pubs, regs, subs>>
      /\ UNCHANGED <<job, tasks, corrupt, done>>
  BY DEF GwIgnores, Unchanged4Gw, client, proxy, lists
<1>2. ProxyOK' /\ TableOK' /\ ListsOK' /\ PubsOK' /\ JobOK'
  BY <1>1, SameClient
<1>3. ToGwOK'
  BY <1>1, GwTakenOK DEF GwIgnores
<1>4. ToClientOK' /\ GwOK' /\ HistoryOK'
  BY <1>1 DEF GwIgnores, TypeInv, ToClientOK, GwOK, HistoryOK
<1> QED BY <1>2, <1>3, <1>4 DEF TypeInv

(* The dialogues of connection. *)
LEMMA GwConnectsTyped ==
    ASSUME TypeInv, GwConnects
    PROVE  TypeInv'
<1>1. /\ UNCHANGED <<config, status, retry, buf, ping, nextMsgId, topicTbl, pubs, regs, subs>>
      /\ UNCHANGED <<job, tasks, corrupt, done>>
  BY DEF GwConnects, Unchanged4Gw, client, proxy, lists
<1>2. ProxyOK' /\ TableOK' /\ ListsOK' /\ PubsOK' /\ JobOK'
  BY <1>1, SameClient
<1>3. ToGwOK'
  BY <1>1, GwTakenOK DEF GwConnects, GwTakes
<1>4. ToClientOK'
  <2> DEFINE m(answer) == [type |-> answer]
  <2> DEFINE answers == {"GWINFO", "WILLTOPICREQ", "WILLMSGREQ", "DISCONNECT", "CONNACK"}
  <2>1. \E answer \in answers : Answered(m(answer))
    BY DEF GwConnects
  <2>2. \A answer \in answers : DownOK(m(answer))
    BY DEF DownOK
  <2> HIDE DEF m, answers
  <2> QED BY <2>1, <2>2, AnsweredOK
<1>5. GwOK'
  <2>1. PICK s \in {"new", "idle", "will", "active"}, n \in {<< >>, gw.names}, h \in {{}, gw.held} :
          gw' = [state |-> s, names |-> n, held |-> h]
    BY DEF GwConnects
  <2>2. << >> \in Seq(AnyName) /\ gw.names \in Seq(AnyName) /\ gw.held \in SUBSET Nat
    BY DEF TypeInv, GwOK
  <2>3. n \in Seq(AnyName) /\ h \in SUBSET Nat
    BY <2>2
  <2> QED BY <2>1, <2>3 DEF GwOK
<1>6. HistoryOK'
  BY <1>1 DEF GwConnects, TypeInv, HistoryOK
<1> QED BY <1>2, <1>3, <1>4, <1>5, <1>6 DEF TypeInv

(* REGISTER and SUBSCRIBE. *)
LEMMA GwRegistersTyped ==
    ASSUME TypeInv, GwRegisters
    PROVE  TypeInv'
<1>1. /\ UNCHANGED <<config, status, retry, buf, ping, nextMsgId, topicTbl, pubs, regs, subs>>
      /\ UNCHANGED <<job, tasks, corrupt, done>>
  BY DEF GwRegisters, Unchanged4Gw, client, proxy, lists
<1>2. ProxyOK' /\ TableOK' /\ ListsOK' /\ PubsOK' /\ JobOK'
  BY <1>1, SameClient
<1>3. /\ ToGwOK' /\ In \in Range(toGw)
      /\ In.type \in {"REGISTER", "SUBSCRIBE"} /\ In.id \in Nat /\ In.name \in AnyName
  <2>1. toGw # << >> /\ toGw' = Tail(toGw) /\ In.type \in {"REGISTER", "SUBSCRIBE"}
    BY DEF GwRegisters, GwTakes
  <2> QED BY <1>1, <2>1, GwTakenOK DEF UpOK
<1>4. /\ GwNames(In.name) \in Seq(AnyName) /\ GwId(In.name) \in DOMAIN GwNames(In.name)
      /\ GwNames(In.name)[GwId(In.name)] = In.name
  BY <1>3, GwNamesKeep
<1>5. ToClientOK'
  <2> DEFINE m == [type |-> IF In.type = "REGISTER" THEN "REGACK" ELSE "SUBACK",
                   id |-> In.id, tid |-> GwId(In.name)]
  <2>1. Answered(m)
    BY DEF GwRegisters
  <2>2. GwId(In.name) \in Nat \ {0}
    BY <1>4
  <2>3. DownOK(m)
    BY <1>3, <2>2 DEF DownOK
  <2> HIDE DEF m
  <2> QED BY <2>1, <2>3, AnsweredOK
<1>6. GwOK'
  BY <1>4 DEF GwRegisters, TypeInv, GwOK
<1>7. HistoryOK'
  BY <1>1 DEF GwRegisters, TypeInv, HistoryOK
<1> QED BY <1>2, <1>3, <1>5, <1>6, <1>7 DEF TypeInv

(* A PUBLISH to a topic that the gateway does not have. *)
LEMMA GwRejectsTyped ==
    ASSUME TypeInv, GwRejects
    PROVE  TypeInv'
<1>1. /\ UNCHANGED <<config, status, retry, buf, ping, nextMsgId, topicTbl, pubs, regs, subs>>
      /\ UNCHANGED <<job, tasks, corrupt, done>>
  BY DEF GwRejects, Unchanged4Gw, client, proxy, lists
<1>2. ProxyOK' /\ TableOK' /\ ListsOK' /\ PubsOK' /\ JobOK'
  BY <1>1, SameClient
<1>3. ToGwOK'
  BY <1>1, GwTakenOK DEF GwRejects, GwTakes
<1>4. ToClientOK'
  <2> DEFINE m == [type |-> "PUBACK", id |-> In.id, ok |-> FALSE]
  <2>1. Answered(m)
    BY DEF GwRejects
  <2>2. DownOK(m)
    BY DEF DownOK
  <2> HIDE DEF m
  <2> QED BY <2>1, <2>2, AnsweredOK
<1>5. GwOK' /\ HistoryOK'
  BY <1>1 DEF GwRejects, TypeInv, GwOK, HistoryOK
<1> QED BY <1>2, <1>3, <1>4, <1>5 DEF TypeInv

(* A PUBLISH that reaches the broker. *)
LEMMA GwPublishesTyped ==
    ASSUME TypeInv, GwPublishes
    PROVE  TypeInv'
<1>1. /\ UNCHANGED <<config, status, retry, buf, ping, nextMsgId, topicTbl, pubs, regs, subs>>
      /\ UNCHANGED <<job, tasks, corrupt, done>>
  BY DEF GwPublishes, Unchanged4Gw, client, proxy, lists
<1>2. ProxyOK' /\ TableOK' /\ ListsOK' /\ PubsOK' /\ JobOK'
  BY <1>1, SameClient
<1>3. ToGwOK' /\ In.id \in Nat
  <2>1. toGw # << >> /\ toGw' = Tail(toGw) /\ In.type = "PUBLISH"
    BY DEF GwPublishes, GwTakes
  <2> QED BY <1>1, <2>1, GwTakenOK DEF UpOK
<1>4. ToClientOK'
  <2> DEFINE m == IF In.qos = 1 THEN [type |-> "PUBACK", id |-> In.id, ok |-> TRUE]
                  ELSE [type |-> "PUBREC", id |-> In.id]
  <2>1. Answered(m) \/ UNCHANGED toClient
    BY DEF GwPublishes
  <2>2. DownOK(m)
    BY DEF DownOK
  <2>3. UNCHANGED toClient => ToClientOK'
    BY DEF TypeInv, ToClientOK
  <2> HIDE DEF m
  <2> QED BY <2>1, <2>2, <2>3, AnsweredOK
<1>5. GwOK'
  <2>1. gw' = [gw EXCEPT !.held = IF In.qos = 2 THEN @ \cup {In.id} ELSE @]
    BY DEF GwPublishes
  <2> QED BY <1>3, <2>1 DEF TypeInv, GwOK
<1>6. HistoryOK'
  <2>1. seen' \subseteq seen \cup {"misrouted"} /\ (got' = got \/ got' = Append(got, In.id))
    BY DEF GwPublishes, Sees, Incident
  <2> QED BY <1>1, <1>3, <2>1 DEF TypeInv, HistoryOK, Incidents
<1> QED BY <1>2, <1>3, <1>4, <1>5, <1>6 DEF TypeInv

(* PUBREL and PINGREQ. *)
LEMMA GwReleasesTyped ==
    ASSUME TypeInv, GwReleases
    PROVE  TypeInv'
<1>1. /\ UNCHANGED <<config, status, retry, buf, ping, nextMsgId, topicTbl, pubs, regs, subs>>
      /\ UNCHANGED <<job, tasks, corrupt, done>>
  BY DEF GwReleases, Unchanged4Gw, client, proxy, lists
<1>2. ProxyOK' /\ TableOK' /\ ListsOK' /\ PubsOK' /\ JobOK'
  BY <1>1, SameClient
<1>3. ToGwOK'
  BY <1>1, GwTakenOK DEF GwReleases, GwTakes
<1>4. ToClientOK'
  <2> DEFINE m == IF In.type = "PUBREL" THEN [type |-> "PUBCOMP", id |-> In.id]
                  ELSE [type |-> "PINGRESP"]
  <2>1. Answered(m)
    BY DEF GwReleases
  <2>2. DownOK(m)
    BY DEF DownOK
  <2> HIDE DEF m
  <2> QED BY <2>1, <2>2, AnsweredOK
<1>5. GwOK'
  <2>1. gw' = gw \/ gw' = [gw EXCEPT !.held = @ \ {In.id}]
    BY DEF GwReleases
  <2> QED BY <2>1 DEF TypeInv, GwOK
<1>6. HistoryOK'
  BY <1>1 DEF GwReleases, TypeInv, HistoryOK
<1> QED BY <1>2, <1>3, <1>4, <1>5, <1>6 DEF TypeInv

(* The gateway is restarted. *)
LEMMA GwRestartTyped ==
    ASSUME TypeInv, GwRestart
    PROVE  TypeInv'
<1>1. /\ UNCHANGED <<config, status, retry, buf, ping, nextMsgId, topicTbl, pubs, regs, subs>>
      /\ UNCHANGED <<job, tasks, corrupt, done>>
  BY DEF GwRestart, history, Unchanged4Gw, client, proxy, lists
<1>2. ProxyOK' /\ TableOK' /\ ListsOK' /\ PubsOK' /\ JobOK'
  BY <1>1, SameClient
<1>3. UNCHANGED <<toGw, toClient, got, done, seen, nextMsgId>>
  BY <1>1 DEF GwRestart, net, history
<1>4. ToGwOK' /\ ToClientOK' /\ HistoryOK'
  BY <1>3 DEF TypeInv, ToGwOK, ToClientOK, HistoryOK
<1>5. GwOK'
  <2>1. gw' = [gw EXCEPT !.state = "new", !.names = << >>] /\ << >> \in Seq(AnyName)
    BY DEF GwRestart
  <2> QED BY <2>1 DEF TypeInv, GwOK
<1> QED BY <1>2, <1>4, <1>5 DEF TypeInv

(* Every step preserves the invariant. *)
LEMMA TypeInvStep == TypeInv /\ [Next]_vars => TypeInv'
<1> SUFFICES ASSUME TypeInv, [Next]_vars PROVE TypeInv'
  OBVIOUS
<1>1. CASE Application
  <2>1. CASE \E name \in config.names, qos \in config.qos : AppPublish(name, qos)
    <3>1. config.qos \subseteq 0..2
      BY DEF TypeInv, ProxyOK, Config
    <3> QED BY <2>1, <3>1, AppPublishTyped
  <2>2. CASE \E secs \in {0, 1} : Disconnect(secs)
    BY <2>2, DisconnectTyped
  <2> QED BY <1>1, <2>1, <2>2 DEF Application
<1>2. CASE Connect
  BY <1>2, ConnectSearchTyped, ConnectConnectTyped, ConnectWillTyped, ConnectTimeoutTyped,
     ConnackTyped, ConnectAnswerTyped DEF Connect
<1>3. CASE Resume
  BY <1>3, SendPublishTyped, SendRegisterTyped, ReconnectedTyped DEF Resume
<1>4. CASE DisconnectAnswer \/ DisconnectTimeout \/ LeaveTasks
  BY <1>4, DisconnectAnswerTyped, DisconnectTimeoutTyped, LeaveTasksTyped
<1>5. CASE Receive
  BY <1>5, PubackTyped, PubrecTyped, PubcompTyped, RegackTyped, SubackTyped, TakeOtherTyped DEF Receive
<1>6. CASE Timers
  BY <1>6, PingRequiredTyped, PingExpiredTyped, AdvertiseExpiredTyped, RegisterExpiredTyped,
     SubscribeExpiredTyped, PublishExpiredTyped DEF Timers
<1>7. CASE Gateway
  BY <1>7, GwIgnoresTyped, GwConnectsTyped, GwRegistersTyped, GwRejectsTyped, GwPublishesTyped,
     GwReleasesTyped DEF Gateway
<1>8. CASE GwRestart
  BY <1>8, GwRestartTyped
<1>9. CASE UNCHANGED vars
  <2>1. /\ UNCHANGED <<config, status, retry, buf, ping, nextMsgId, topicTbl, pubs, regs, subs>>
        /\ UNCHANGED <<job, tasks, corrupt, done, toGw, toClient, gw, got, seen>>
    BY <1>9 DEF vars, client, proxy, lists, net, env, history
  <2>2. ProxyOK' /\ TableOK' /\ ListsOK' /\ PubsOK' /\ JobOK'
    BY <2>1, SameClient
  <2>3. ToGwOK' /\ ToClientOK' /\ GwOK' /\ HistoryOK'
    BY <2>1 DEF TypeInv, ToGwOK, ToClientOK, GwOK, HistoryOK
  <2> QED BY <2>2, <2>3 DEF TypeInv
<1> QED BY <1>1, <1>2, <1>3, <1>4, <1>5, <1>6, <1>7, <1>8, <1>9 DEF Next, Client

(* The type invariant, for any topics, subscriptions and bounds: a retry   *)
(* count never falls below -1 nor rises above MQTTSN_RETRY_COUNT, the      *)
(* status is one of GwProxy.h:75, and the ids of the list were handed out. *)
THEOREM TypeCorrect == Spec => []TypeOK
<1>1. Init => TypeInv
  BY TypeInvInit
<1>2. TypeInv /\ [Next]_vars => TypeInv'
  BY TypeInvStep
<1>3. TypeInv => TypeOK
  BY TypeInvTypes
<1> QED BY <1>1, <1>2, <1>3, PTL DEF Spec

-----------------------------------------------------------------------------
(* What the steps do to the elements of the lists, for the invariants that *)
(* relate them to messages and to the gateway.                             *)
Same(x, y) == x.id = y.id /\ x.name = y.name /\ x.qos = y.qos /\ x.tid = y.tid /\ x.st = y.st
Alike(x, y) == x.id = y.id /\ x.name = y.name

(* Every publication that is left was there, with the same status. *)
PubsQuiet == \A x \in Range(pubs') : \E y \in Range(pubs) : Same(x, y)
RegsQuiet == \A x \in Range(regs') : \E y \in Range(regs) : Alike(x, y)
SubsQuiet == \A x \in Range(subs') : \E y \in Range(subs) : Alike(x, y)

LEMMA UnchangedQuiet ==
    /\ UNCHANGED pubs => PubsQuiet
    /\ UNCHANGED regs => RegsQuiet
    /\ UNCHANGED subs => SubsQuiet
BY DEF PubsQuiet, RegsQuiet, SubsQuiet, Same, Alike

LEMMA PubDoneQuiet ==
    ASSUME TypeInv, NEW id \in Ids(pubs), PubDone(id)
    PROVE  PubsQuiet
<1>1. PICK new : new = pubs'
  OBVIOUS
<1>2. \A x \in Range(new) : \E y \in Range(pubs) : Like(x, y)
  BY <1>1, PubGone
<1>3. ASSUME NEW x \in Range(new) PROVE \E y \in Range(pubs) : Same(x, y)
  <2>1. PICK y \in Range(pubs) : Like(x, y)
    BY <1>2
  <2>2. y \in Pub
    BY DEF TypeInv, ListsOK, Range
  <2>3. Same(x, y)
    BY <2>1, <2>2, LikePub DEF Same
  <2> QED BY <2>3
<1> QED BY <1>1, <1>3 DEF PubsQuiet

LEMMA RegDoneQuiet ==
    ASSUME TypeInv, NEW id \in Ids(regs), regs' = regs \/ regs' = Removed(regs, id)
    PROVE  /\ RegsQuiet
           /\ \A y \in Range(regs) : y.id # id => \E x \in Range(regs') : Alike(x, y)
<1>1. PICK new : new = regs'
  OBVIOUS
<1>2. /\ \A x \in Range(new) : \E y \in Range(regs) : Like(x, y)
      /\ \A y \in Range(regs) : y.id # id => \E x \in Range(new) : Like(x, y)
  BY <1>1, RegGone
<1>3. \A x, y : y \in Range(regs) /\ Like(x, y) => Alike(x, y)
  <2>1. \A y \in Range(regs) : y \in Reg
    BY DEF TypeInv, ListsOK, Range
  <2> QED BY <2>1, LikeReg DEF Alike
<1> QED BY <1>1, <1>2, <1>3 DEF RegsQuiet

LEMMA SubDoneQuiet ==
    ASSUME TypeInv, NEW id \in Ids(subs), subs' = subs \/ subs' = Removed(subs, id)
    PROVE  SubsQuiet
<1>1. PICK new : new = subs'
  OBVIOUS
<1>2. \A x \in Range(new) : \E y \in Range(subs) : Like(x, y)
  BY <1>1, SubGone
<1>3. \A x, y : y \in Range(subs) /\ Like(x, y) => Alike(x, y)
  <2>1. \A y \in Range(subs) : y \in Sub
    BY DEF TypeInv, ListsOK, Range
  <2> QED BY <2>1, LikeSub DEF Alike
<1> QED BY <1>1, <1>2, <1>3 DEF SubsQuiet

(* A publication in the place of one, and what is in the list then. *)
LEMMA PubSetEffect ==
    ASSUME TypeInv, NEW i \in DOMAIN pubs, NEW f \in Pub, f.id = pubs[i].id, PubOK(f),
           pubs' = [pubs EXCEPT ![i] = f]
    PROVE  \A x \in Range(pubs') : x = f \/ (x.id # f.id /\ \E y \in Range(pubs) : Same(x, y))
<1>1. PICK new : new = pubs'
  OBVIOUS
<1>2. /\ Range(new) = (Range(pubs) \ {pubs[i]}) \cup {f}
      /\ \A x \in Range(pubs) : x = pubs[i] <=> x.id = f.id
  BY <1>1, PubSet
<1>3. \A x \in Range(new) : x = f \/ (x.id # f.id /\ \E y \in Range(pubs) : Same(x, y))
  BY <1>2 DEF Same
<1> QED BY <1>1, <1>3

LEMMA ReconnectedQuiet == TypeInv /\ Reconnected => PubsQuiet
<1> SUFFICES ASSUME TypeInv, Reconnected PROVE PubsQuiet
  OBVIOUS
<1> DEFINE i == At(pubs, job.id)
<1> DEFINE e == pubs[i]
<1> DEFINE f == [e EXCEPT !.retry = Retry]
<1>1. i \in DOMAIN pubs
  <2>1. PICK x \in Range(pubs) : x.id = job.id
    BY DEF Reconnected, TypeInv, JobOK
  <2> QED BY <2>1, PubAt
<1>2. pubs' = [pubs EXCEPT ![i].retry = Retry]
  BY DEF Reconnected
<1> HIDE DEF i
<1>3. e \in Pub /\ e \in Range(pubs) /\ PubOK(e)
  BY <1>1, PubThere
<1>4. f \in Pub /\ Same(f, e) /\ pubs' = [pubs EXCEPT ![i] = f]
  <2>1. Retry \in -1..Retry
    BY RetryPositive
  <2>2. f \in Pub
    BY <1>3, <2>1 DEF Pub
  <2>3. Same(f, e)
    BY <1>3 DEF Pub, Same
  <2>4. pubs' = [pubs EXCEPT ![i] = f]
    BY <1>1, <1>2 DEF TypeInv, ListsOK
  <2> QED BY <2>2, <2>3, <2>4
<1>5. PubOK(f)
  BY <1>3 DEF PubOK, Pub
<1> HIDE DEF f
<1>6. \A x \in Range(pubs') : x = f \/ (x.id # f.id /\ \E y \in Range(pubs) : Same(x, y))
  BY <1>1, <1>4, <1>5, PubSetEffect DEF Same
<1> QED BY <1>3, <1>4, <1>6 DEF PubsQuiet

LEMMA PublishExpiredQuiet ==
    ASSUME TypeInv, NEW i \in DOMAIN pubs, PublishExpired(i)
    PROVE  PubsQuiet
<1> DEFINE e == pubs[i]
<1> DEFINE f == [e EXCEPT !.timer = "over"]
<1>1. e \in Pub /\ e \in Range(pubs) /\ PubOK(e) /\ e.timer \in {"on", "over"}
  BY PubThere DEF PublishExpired, Overdue
<1>2. CASE UNCHANGED pubs
  BY <1>2, UnchangedQuiet
<1>3. CASE pubs' = [pubs EXCEPT ![i].timer = "over"]
  <2>1. f \in Pub /\ Same(f, e) /\ pubs' = [pubs EXCEPT ![i] = f]
    BY <1>1, <1>3 DEF Pub, Same, TypeInv, ListsOK
  <2>2. PubOK(f)
    BY <1>1 DEF PubOK, Pub
  <2> HIDE DEF f
  <2>3. \A x \in Range(pubs') : x = f \/ (x.id # f.id /\ \E y \in Range(pubs) : Same(x, y))
    BY <2>1, <2>2, PubSetEffect DEF Same
  <2> QED BY <1>1, <2>1, <2>3 DEF PubsQuiet
<1> QED BY <1>2, <1>3 DEF PublishExpired

(* sendPublish(): the publication is sent and waits, or is done.           *)
LEMMA SendPublishEffect ==
    ASSUME TypeInv, SendPublish
    PROVE  \E e \in Range(pubs) :
             /\ e \in Pub /\ e.id = job.id /\ e.st # "SUSPEND" /\ e.tid # 0
             /\ e.id \in 1..nextMsgId /\ PubOK(e)
             /\ Sent(Publish(e))
             /\ seen \subseteq seen' /\ seen' \subseteq seen \cup {"resent"}
             /\ e.st = "WAIT_PUBCOMP" => "resent" \in seen'
             /\ \A x \in Range(pubs') :
                  \/ (x.id = e.id => e.qos = 0) /\ \E y \in Range(pubs) : Same(x, y)
                  \/ /\ x.id = e.id /\ x.name = e.name /\ x.qos = e.qos /\ x.tid = e.tid
                     /\ x.st \in {"WAIT_PUBACK", "WAIT_PUBREC"}
<1> DEFINE i == At(pubs, job.id)
<1> DEFINE e == pubs[i]
<1>1. /\ i \in DOMAIN pubs /\ e \in Range(pubs) /\ e \in Pub /\ e.id = job.id
      /\ e.id \in Ids(pubs) /\ e.retry >= 0 /\ e.st # "SUSPEND"
  <2>1. PICK x \in Range(pubs) : x.id = job.id /\ x.retry >= 0 /\ x.st # "SUSPEND"
    BY DEF SendPublish, TypeInv, JobOK
  <2> QED BY <2>1, PubAt
<1>2. e.id \in 1..nextMsgId /\ PubOK(e) /\ e.tid # 0
  BY <1>1 DEF TypeInv, ListsOK, PubsOK, PubOK, Pub
<1>3. /\ Sent(Publish(e))
      /\ IF e.qos = 0 THEN PubDone(e.id)
         ELSE pubs' = [pubs EXCEPT
                        ![i].st = IF e.qos = 1 THEN "WAIT_PUBACK" ELSE "WAIT_PUBREC",
                        ![i].timer = "on", ![i].retry = @ - 1]
  BY DEF SendPublish
<1>4. Sees(e.st = "WAIT_PUBCOMP", "resent")
  BY DEF SendPublish
<1>5. seen \subseteq seen' /\ seen' \subseteq seen \cup {"resent"}
      /\ (e.st = "WAIT_PUBCOMP" => "resent" \in seen')
  BY <1>4 DEF Sees, Incident
<1> HIDE DEF i, e
<1>6. \A x \in Range(pubs') :
         \/ (x.id = e.id => e.qos = 0) /\ \E y \in Range(pubs) : Same(x, y)
         \/ /\ x.id = e.id /\ x.name = e.name /\ x.qos = e.qos /\ x.tid = e.tid
            /\ x.st \in {"WAIT_PUBACK", "WAIT_PUBREC"}
  <2>1. CASE e.qos = 0
    <3>1. PubsQuiet
      BY <1>1, <1>3, <2>1, PubDoneQuiet
    <3> QED BY <2>1, <3>1 DEF PubsQuiet
  <2>2. CASE e.qos # 0
    <3> DEFINE f == [e EXCEPT !.st = IF e.qos = 1 THEN "WAIT_PUBACK" ELSE "WAIT_PUBREC",
                              !.timer = "on", !.retry = @ - 1]
    <3>1. e.qos \in {1, 2} /\ e.retry - 1 \in -1..Retry
      BY <1>1, <2>2, RetryPositive DEF Pub
    <3>2. /\ f \in Pub /\ f.id = e.id /\ f.name = e.name /\ f.qos = e.qos /\ f.tid = e.tid
          /\ f.st \in {"WAIT_PUBACK", "WAIT_PUBREC"}
      BY <1>1, <3>1 DEF Pub, PubStatus
    <3>3. PubOK(f)
      BY <1>1, <1>2, <3>1 DEF PubOK, Pub
    <3>4. pubs' = [pubs EXCEPT ![i] = f] /\ f.id = pubs[i].id
      BY <1>1, <1>3, <2>2 DEF TypeInv, ListsOK, e
    <3> HIDE DEF f
    <3>5. \A x \in Range(pubs') : x = f \/ (x.id # f.id /\ \E y \in Range(pubs) : Same(x, y))
      BY <1>1, <3>2, <3>3, <3>4, PubSetEffect
    <3> QED BY <3>2, <3>5
  <2> QED BY <2>1, <2>2
<1> QED BY <1>1, <1>2, <1>3, <1>5, <1>6

(* PUBACK: a publication is done, or suspended and its topic registered.   *)
LEMMA PubackEffect ==
    ASSUME TypeInv, Puback
    PROVE  \/ /\ UNCHANGED <<nextMsgId, regs, job, seen>> /\ PubsQuiet
              /\ UNCHANGED done \/ (Msg.ok /\ done' = done \cup {Msg.id})
           \/ /\ ~Msg.ok /\ UNCHANGED done
              /\ seen \subseteq seen' /\ seen' \subseteq seen \cup {"shared", "stale"}
              /\ \E e \in Range(pubs) :
                   /\ e.id = Msg.id /\ e.name \in Names
                   /\ RegisterTopic(e.name, nextMsgId + 1)
                   /\ TopicId(e.name) # 0 => "stale" \in seen'
                   /\ (\E y \in Range(pubs) : y.name = e.name /\ y.st = "SUSPEND")
                        => "shared" \in seen'
                   /\ \A x \in Range(pubs') :
                        \/ x.id # e.id /\ \E y \in Range(pubs) : Same(x, y)
                        \/ /\ x.id = e.id /\ x.name = e.name /\ x.qos = e.qos
                           /\ x.tid = 0 /\ x.st = "SUSPEND"
<1> DEFINE i == At(pubs, Msg.id)
<1> DEFINE e == pubs[i]
<1>1. CASE Msg.id \notin Ids(pubs)
  BY <1>1, UnchangedQuiet DEF Puback
<1>2. CASE Msg.id \in Ids(pubs) /\ Msg.ok
  <2>1. /\ UNCHANGED <<nextMsgId, regs, job, seen>>
        /\ \/ UNCHANGED <<pubs, done>>
           \/ PubDone(Msg.id) /\ done' = done \cup {Msg.id}
    BY <1>2 DEF Puback
  <2> QED BY <1>2, <2>1, UnchangedQuiet, PubDoneQuiet
<1>3. CASE Msg.id \in Ids(pubs) /\ ~Msg.ok
  <2>1. /\ pubs' = [pubs EXCEPT ![i].st = "SUSPEND", ![i].tid = 0,
                                ![i].retry = Retry, ![i].timer = "off"]
        /\ RegisterTopic(e.name, MsgId)
        /\ UNCHANGED done
        /\ seen' = seen
             \cup Incident(\E k \in Named(pubs, e.name) : pubs[k].st = "SUSPEND", "shared")
             \cup Incident(TopicId(e.name) # 0, "stale")
    BY <1>3 DEF Puback
  <2>2. i \in DOMAIN pubs /\ e.id = Msg.id
    BY <1>3, AtIsThere
  <2>3. seen \subseteq seen' /\ seen' \subseteq seen \cup {"shared", "stale"}
        /\ (TopicId(e.name) # 0 => "stale" \in seen')
    BY <2>1 DEF Incident
  <2>4. (\E y \in Range(pubs) : y.name = e.name /\ y.st = "SUSPEND") => "shared" \in seen'
    <3>1. (\E y \in Range(pubs) : y.name = e.name /\ y.st = "SUSPEND")
             => \E k \in Named(pubs, e.name) : pubs[k].st = "SUSPEND"
      BY DEF Named, Range
    <3> QED BY <2>1, <3>1 DEF Incident
  <2> HIDE DEF i
  <2>5. e \in Pub /\ e \in Range(pubs) /\ e.name \in Names
    BY <2>2, PubThere DEF Pub
  <2> DEFINE f == [e EXCEPT !.st = "SUSPEND", !.tid = 0, !.retry = Retry, !.timer = "off"]
  <2>6. /\ f \in Pub /\ f.id = e.id /\ f.name = e.name /\ f.qos = e.qos
        /\ f.tid = 0 /\ f.st = "SUSPEND"
    <3>1. Retry \in -1..Retry /\ "SUSPEND" \in PubStatus /\ 0 \in Nat
      BY RetryPositive DEF PubStatus
    <3> QED BY <2>5, <3>1 DEF Pub
  <2>7. pubs' = [pubs EXCEPT ![i] = f]
    BY <2>1, <2>2 DEF TypeInv, ListsOK
  <2>8. PubOK(f)
    BY <2>5 DEF PubOK, Pub
  <2> HIDE DEF f
  <2>9. \A x \in Range(pubs') : x = f \/ (x.id # f.id /\ \E y \in Range(pubs) : Same(x, y))
    <3>1. f.id = pubs[i].id
      BY <2>6
    <3> HIDE DEF e
    <3> QED BY <2>2, <2>6, <2>7, <2>8, <3>1, PubSetEffect
  <2>10. RegisterTopic(e.name, nextMsgId + 1)
    BY <2>1 DEF MsgId
  <2>11. \A x \in Range(pubs') :
           \/ x.id # e.id /\ \E y \in Range(pubs) : Same(x, y)
           \/ /\ x.id = e.id /\ x.name = e.name /\ x.qos = e.qos
              /\ x.tid = 0 /\ x.st = "SUSPEND"
    BY <2>6, <2>9
  <2> HIDE DEF e
  <2> QED BY <1>3, <2>1, <2>2, <2>3, <2>4, <2>5, <2>10, <2>11
<1> QED BY <1>1, <1>2, <1>3

(* PUBREC: nothing, or a PUBREL and a publication that waits for PUBCOMP.  *)
LEMMA PubrecEffect ==
    ASSUME TypeInv, Pubrec
    PROVE  \/ UNCHANGED <<pubs, toGw>>
           \/ /\ Sent([type |-> "PUBREL", id |-> Msg.id]) /\ Msg.id \in 1..nextMsgId
              /\ \E e \in Range(pubs) :
                   /\ e.id = Msg.id /\ e.qos = 2 /\ e.st \in {"WAIT_PUBREC", "WAIT_PUBCOMP"}
                   /\ \A x \in Range(pubs') :
                        \/ x.id # e.id /\ \E y \in Range(pubs) : Same(x, y)
                        \/ /\ x.id = e.id /\ x.name = e.name /\ x.qos = e.qos /\ x.tid = e.tid
                           /\ x.st = "WAIT_PUBCOMP"
<1> DEFINE here == {i \in DOMAIN pubs : pubs[i].id = Msg.id
                                        /\ pubs[i].st \in {"WAIT_PUBREC", "WAIT_PUBCOMP"}}
<1>1. CASE here = {}
  BY <1>1 DEF Pubrec
<1>2. CASE here # {}
  <2>1. PICK i \in here : /\ Sent([type |-> "PUBREL", id |-> Msg.id])
                          /\ pubs' = [pubs EXCEPT ![i].st = "WAIT_PUBCOMP", ![i].timer = "on"]
    BY <1>2 DEF Pubrec
  <2> DEFINE e == pubs[i]
  <2> DEFINE f == [e EXCEPT !.st = "WAIT_PUBCOMP", !.timer = "on"]
  <2>2. /\ i \in DOMAIN pubs /\ e \in Pub /\ e \in Range(pubs) /\ PubOK(e) /\ e.id = Msg.id
        /\ e.st \in {"WAIT_PUBREC", "WAIT_PUBCOMP"} /\ e.id \in 1..nextMsgId
    BY PubThere
  <2>3. e.qos = 2
    BY <2>2 DEF PubOK
  <2>4. /\ f \in Pub /\ f.id = e.id /\ f.name = e.name /\ f.qos = e.qos /\ f.tid = e.tid
        /\ f.st = "WAIT_PUBCOMP"
    BY <2>2 DEF Pub, PubStatus
  <2>5. pubs' = [pubs EXCEPT ![i] = f]
    BY <2>1, <2>2 DEF TypeInv, ListsOK
  <2>6. PubOK(f)
    BY <2>2, <2>3 DEF PubOK, Pub
  <2> HIDE DEF f
  <2>7. \A x \in Range(pubs') : x = f \/ (x.id # f.id /\ \E y \in Range(pubs) : Same(x, y))
    <3>1. f.id = pubs[i].id
      BY <2>4
    <3> HIDE DEF e
    <3> QED BY <2>2, <2>4, <2>5, <2>6, <3>1, PubSetEffect
  <2>8. \A x \in Range(pubs') :
           \/ x.id # e.id /\ \E y \in Range(pubs) : Same(x, y)
           \/ /\ x.id = e.id /\ x.name = e.name /\ x.qos = e.qos /\ x.tid = e.tid
              /\ x.st = "WAIT_PUBCOMP"
    BY <2>4, <2>7
  <2> HIDE DEF e
  <2> QED BY <2>1, <2>2, <2>3, <2>8
<1> QED BY <1>1, <1>2

-----------------------------------------------------------------------------
(* REGACK: nothing, or the registration is over and the first publication  *)
(* that was suspended for its topic is ready.                              *)
LEMMA RegackEffect ==
    ASSUME TypeInv, Regack
    PROVE  \/ UNCHANGED <<topicTbl, regs, pubs, job>>
           \/ \E r \in Range(regs) :
                /\ r \in Reg /\ r.id = Msg.id
                /\ RegsQuiet
                /\ \A y \in Range(regs) : y.id # r.id => \E x \in Range(regs') : Alike(x, y)
                /\ topicTbl' = WithTopicId(r.name, Msg.tid)
                /\ \/ /\ UNCHANGED <<pubs, job>>
                      /\ \A y \in Range(pubs) : ~(y.st = "SUSPEND" /\ y.name = r.name)
                   \/ \E e \in Range(pubs) :
                        /\ e.st = "SUSPEND" /\ e.name = r.name
                        /\ job' = [do |-> "publish", id |-> e.id]
                        /\ \A x \in Range(pubs') :
                             \/ x.id # e.id /\ \E y \in Range(pubs) : Same(x, y)
                             \/ /\ x.id = e.id /\ x.name = e.name /\ x.qos = e.qos
                                /\ x.tid = Msg.tid /\ x.st = "READY"
<1> DEFINE r == regs[At(regs, Msg.id)]
<1> DEFINE waits == {i \in Named(pubs, r.name) : pubs[i].st = "SUSPEND"}
<1> DEFINE first == CHOOSE j \in waits : \A k \in waits : j <= k
<1>1. Msg.tid \in Nat \ {0}
  BY TakenOK DEF Regack, Takes, Msg, DownOK
<1>2. CASE Msg.id \notin Ids(regs)
  BY <1>2 DEF Regack
<1>3. CASE Msg.id \in Ids(regs)
  <2>1. /\ topicTbl' = WithTopicId(r.name, Msg.tid)
        /\ regs' = regs \/ regs' = Removed(regs, Msg.id)
    BY <1>3 DEF Regack
  <2>2. IF waits = {} THEN UNCHANGED <<pubs, job>>
        ELSE /\ pubs' = [pubs EXCEPT ![first].tid = Msg.tid, ![first].st = "READY"]
             /\ job' = [do |-> "publish", id |-> pubs[first].id]
    BY <1>3 DEF Regack
  <2>3. r \in Range(regs) /\ r \in Reg /\ r.id = Msg.id
    BY <1>3, AtIsThere, RegThere
  <2>4. /\ RegsQuiet
        /\ \A y \in Range(regs) : y.id # Msg.id => \E x \in Range(regs') : Alike(x, y)
    BY <1>3, <2>1, RegDoneQuiet
  <2> HIDE DEF r
  <2>5. CASE waits = {}
    <3>1. \A y \in Range(pubs) : ~(y.st = "SUSPEND" /\ y.name = r.name)
      BY <2>5 DEF Named, Range
    <3> QED BY <2>1, <2>2, <2>3, <2>4, <2>5, <3>1
  <2>6. CASE waits # {}
    <3>1. first \in waits
      <4>1. waits \subseteq Nat
        BY DEF Named, TypeInv, ListsOK
      <4>2. \E j \in waits : \A k \in waits : j <= k
        <5> HIDE DEF waits
        <5> QED BY <2>6, <4>1, LeastIsThere
      <4> QED BY <4>2
    <3> DEFINE e == pubs[first]
    <3>2. first \in DOMAIN pubs /\ e.st = "SUSPEND" /\ e.name = r.name
      BY <3>1 DEF Named
    <3> HIDE DEF first, waits
    <3>3. e \in Pub /\ e \in Range(pubs) /\ PubOK(e)
      BY <3>2, PubThere
    <3> DEFINE f == [e EXCEPT !.tid = Msg.tid, !.st = "READY"]
    <3>4. /\ f \in Pub /\ f.id = e.id /\ f.name = e.name /\ f.qos = e.qos
          /\ f.tid = Msg.tid /\ f.st = "READY"
      BY <1>1, <3>3 DEF Pub, PubStatus
    <3>5. pubs' = [pubs EXCEPT ![first] = f]
      BY <2>2, <2>6, <3>2 DEF TypeInv, ListsOK
    <3>6. PubOK(f)
      BY <1>1, <3>2, <3>3 DEF PubOK, Pub
    <3> HIDE DEF f
    <3>7. \A x \in Range(pubs') : x = f \/ (x.id # f.id /\ \E y \in Range(pubs) : Same(x, y))
      <4>1. f.id = pubs[first].id
        BY <3>4
      <4> HIDE DEF e
      <4> QED BY <3>2, <3>4, <3>5, <3>6, <4>1, PubSetEffect
    <3>8. job' = [do |-> "publish", id |-> e.id]
      BY <2>2, <2>6
    <3>9. \A x \in Range(pubs') :
             \/ x.id # e.id /\ \E y \in Range(pubs) : Same(x, y)
             \/ /\ x.id = e.id /\ x.name = e.name /\ x.qos = e.qos
                /\ x.tid = Msg.tid /\ x.st = "READY"
      BY <3>4, <3>7
    <3> HIDE DEF e
    <3> QED BY <2>1, <2>3, <2>4, <3>2, <3>3, <3>8, <3>9
  <2> QED BY <2>5, <2>6
<1> QED BY <1>2, <1>3

(* publish(): a publication with a new id, and perhaps a registration.     *)
LEMMA AppPublishEffect ==
    ASSUME TypeInv, NEW name \in config.names, NEW qos \in 0..2, AppPublish(name, qos)
    PROVE  /\ name \in Names /\ job.do = "nothing" /\ nextMsgId' \in Nat
           /\ nextMsgId \in Nat /\ nextMsgId' > nextMsgId
           /\ seen \subseteq seen' /\ seen' \subseteq seen \cup {"shared"}
           /\ (\E y \in Range(pubs) : y.name = name /\ y.st = "SUSPEND") => "shared" \in seen'
           /\ \A x \in Range(pubs') :
                \/ x \in Range(pubs)
                \/ /\ x.id = nextMsgId + 1 /\ x.name = name /\ x.qos = qos
                   /\ x.tid = TopicId(name)
                   /\ x.st = IF TopicId(name) # 0 THEN "READY" ELSE "SUSPEND"
           /\ Range(regs) \subseteq Range(regs')
           /\ \A x \in Range(regs') : x \in Range(regs) \/ (x.id = nextMsgId + 2 /\ x.name = name)
           /\ TopicId(name) = 0 => Named(regs', name) # {}
           /\ job' \in {job, [do |-> "publish", id |-> nextMsgId + 1],
                        [do |-> "register", id |-> nextMsgId + 2]}
           /\ TopicId(name) # 0 => job' = [do |-> "publish", id |-> nextMsgId + 1]
<1> DEFINE tid == TopicId(name)
<1> DEFINE st == IF tid # 0 THEN "READY" ELSE "SUSPEND"
<1>1. /\ name \in Names /\ nextMsgId \in Nat /\ MsgId = nextMsgId + 1 /\ job = NoJob
      /\ tid \in Nat /\ st \in PubStatus /\ Retry \in -1..Retry
  BY TopicIdThere, RetryPositive DEF TypeInv, ProxyOK, ListsOK, Config, MsgId, AppPublish, MayCall, PubStatus
<1>2. pubs' = Added(pubs, [id |-> MsgId, name |-> name, qos |-> qos, tid |-> tid,
                           st |-> st, retry |-> Retry, timer |-> "off", prev |-> 0])
  BY DEF AppPublish
<1>3. IF tid # 0
      THEN /\ job' = [do |-> "publish", id |-> MsgId]
           /\ nextMsgId' = MsgId
           /\ UNCHANGED regs
      ELSE RegisterTopic(name, MsgId + 1)
  BY DEF AppPublish
<1>4. /\ seen \subseteq seen' /\ seen' \subseteq seen \cup {"shared"}
      /\ (\E y \in Range(pubs) : y.name = name /\ y.st = "SUSPEND") => "shared" \in seen'
  <2>1. Sees(\E i \in Named(pubs, name) : pubs[i].st = "SUSPEND", "shared")
    BY DEF AppPublish
  <2>2. (\E y \in Range(pubs) : y.name = name /\ y.st = "SUSPEND")
             => \E k \in Named(pubs, name) : pubs[k].st = "SUSPEND"
    BY DEF Named, Range
  <2> QED BY <2>1, <2>2 DEF Sees, Incident
<1> HIDE DEF tid, st
<1>5. /\ nextMsgId' \in {MsgId, MsgId + 1}
      /\ Range(regs) \subseteq Range(regs')
      /\ \A x \in Range(regs') : x \in Range(regs) \/ (x.id = MsgId + 1 /\ x.name = name)
      /\ tid = 0 => Named(regs', name) # {}
      /\ job' \in {job, [do |-> "publish", id |-> MsgId], [do |-> "register", id |-> MsgId + 1]}
      /\ tid # 0 => job' = [do |-> "publish", id |-> MsgId]
  <2>1. CASE tid # 0
    BY <1>3, <2>1
  <2>2. CASE tid = 0
    <3> DEFINE n == MsgId + 1
    <3>1. n \in Nat /\ n > nextMsgId /\ n - 1 = MsgId /\ RegisterTopic(name, n)
      BY <1>1, <1>3, <2>2
    <3> HIDE DEF n
    <3>2. /\ nextMsgId' \in {n - 1, n}
          /\ Range(regs) \subseteq Range(regs')
          /\ \A x \in Range(regs') : x \in Range(regs) \/ (x.id = n /\ x.name = name)
          /\ TopicId(name) = 0 => Named(regs', name) # {}
          /\ UNCHANGED job \/ job' = [do |-> "register", id |-> n]
      BY <1>1, <3>1, RegisterTopicEffect
    <3> QED BY <2>2, <3>1, <3>2 DEF n, tid
  <2> QED BY <2>1, <2>2
<1>6. PICK new : new = pubs'
  OBVIOUS
<1>7. PICK e \in Pub :
                /\ e.id = MsgId /\ e.name = name /\ e.qos = qos /\ e.tid = tid
                /\ e.st = st
                /\ Range(new) = Range(pubs) \cup {e}
  <2>1. pubs \in Seq(Pub) /\ Unique(pubs) /\ MsgId \in Nat /\ \A x \in Range(pubs) : x.id # MsgId
    BY <1>1 DEF TypeInv, ListsOK
  <2> DEFINE f == [id |-> MsgId, name |-> name, qos |-> qos, tid |-> tid,
                   st |-> st, retry |-> Retry, timer |-> "off", prev |-> 0]
  <2>2. f \in Pub /\ f.id = MsgId /\ f.name = name /\ f.qos = qos /\ f.tid = tid /\ f.st = st
    BY <1>1, <2>1 DEF Pub
  <2>3. new = Added(pubs, f)
    BY <1>2, <1>6
  <2> HIDE DEF f
  <2>4. \E e \in Pub :
             /\ e.id = f.id /\ e.name = f.name /\ e.qos = f.qos /\ e.tid = f.tid
             /\ e.st = f.st
             /\ Range(new) = Range(pubs) \cup {e}
    BY <2>1, <2>2, <2>3, PubAdded
  <2> QED BY <2>2, <2>4
<1>8. \A x \in Range(new) :
        \/ x \in Range(pubs)
        \/ /\ x.id = nextMsgId + 1 /\ x.name = name /\ x.qos = qos
           /\ x.tid = TopicId(name)
           /\ x.st = IF TopicId(name) # 0 THEN "READY" ELSE "SUSPEND"
  BY <1>1, <1>7 DEF tid, st
<1>9. job.do = "nothing" /\ nextMsgId' \in Nat /\ nextMsgId' > nextMsgId
  BY <1>1, <1>5 DEF NoJob
<1>10. tid = TopicId(name) /\ MsgId + 1 = nextMsgId + 2
  BY <1>1 DEF tid
<1> QED BY <1>1, <1>4, <1>5, <1>6, <1>8, <1>9, <1>10

-----------------------------------------------------------------------------
(* SuspendedIsRegistered needs more than it says: a REGACK is good for one *)
(* publication only, so no two may wait for the same topic.                *)
SusHeld(P, R) ==
    \A x \in P : x.st = "SUSPEND" =>
        /\ \E r \in R : r.name = x.name
        /\ \A y \in P : y.st = "SUSPEND" /\ y.name = x.name => y.id = x.id
SusInv == seen \cap {"shared", "gaveUp", "stale"} = {} => SusHeld(Range(pubs), Range(regs))

(* A step that suspends nothing and ends no registration. *)
LEMMA SusQuiet ==
    ASSUME SusInv, seen \subseteq seen',
           \A x \in Range(pubs') : x.st = "SUSPEND" => \E y \in Range(pubs) : Same(x, y),
           \A r \in Range(regs) : \E x \in Range(regs') : x.name = r.name
    PROVE  SusInv'
<1> SUFFICES ASSUME seen' \cap {"shared", "gaveUp", "stale"} = {}
             PROVE  SusHeld(Range(pubs)', Range(regs)')
  BY DEF SusInv
<1>1. SusHeld(Range(pubs), Range(regs))
  BY DEF SusInv
<1>2. PICK P, R : P = Range(pubs') /\ R = Range(regs')
  OBVIOUS
<1>3. /\ \A x \in P : x.st = "SUSPEND" => \E y \in Range(pubs) : Same(x, y)
      /\ \A r \in Range(regs) : \E x \in R : x.name = r.name
  BY <1>2
<1>4. SusHeld(P, R)
  <2> SUFFICES ASSUME NEW x \in P, x.st = "SUSPEND"
               PROVE  /\ \E r \in R : r.name = x.name
                      /\ \A y \in P : y.st = "SUSPEND" /\ y.name = x.name => y.id = x.id
    BY DEF SusHeld
  <2>1. PICK u \in Range(pubs) : Same(x, u)
    BY <1>3
  <2>2. ASSUME NEW y \in P, y.st = "SUSPEND", y.name = x.name PROVE y.id = x.id
    <3>1. PICK v \in Range(pubs) : Same(y, v)
      BY <1>3, <2>2
    <3>2. u.st = "SUSPEND" /\ v.st = "SUSPEND" /\ v.name = u.name
      BY <2>1, <2>2, <3>1 DEF Same
    <3>3. v.id = u.id
      BY <1>1, <3>2 DEF SusHeld
    <3> QED BY <2>1, <3>1, <3>3 DEF Same
  <2>3. \E r \in R : r.name = x.name
    <3>1. PICK r \in Range(regs) : r.name = u.name
      BY <1>1, <2>1 DEF SusHeld, Same
    <3> QED BY <1>3, <2>1, <3>1 DEF Same
  <2> QED BY <2>2, <2>3
<1> QED BY <1>2, <1>4

(* The lists are as they were. *)
LEMMA SusSame ==
    ASSUME SusInv, seen \subseteq seen', UNCHANGED <<pubs, regs>>
    PROVE  SusInv'
<1>1. \A x \in Range(pubs') : x.st = "SUSPEND" => \E y \in Range(pubs) : Same(x, y)
  BY DEF Same
<1> QED BY <1>1, SusQuiet

(* A publication that is suspended was not, and has a registration.        *)
LEMMA SusMore ==
    ASSUME SusInv, seen \subseteq seen', NEW name, NEW id,
           (\E y \in Range(pubs) : y.name = name /\ y.st = "SUSPEND") => "shared" \in seen',
           \A x \in Range(pubs') : x.st = "SUSPEND" =>
               \/ \E y \in Range(pubs) : Same(x, y)
               \/ x.id = id /\ x.name = name,
           Range(regs) \subseteq Range(regs'),
           "stale" \in seen' \/ (\E x \in Range(regs') : x.name = name)
             \/ (\A x \in Range(pubs') : x.st = "SUSPEND" => \E y \in Range(pubs) : Same(x, y))
    PROVE  SusInv'
<1> SUFFICES ASSUME seen' \cap {"shared", "gaveUp", "stale"} = {}
             PROVE  SusHeld(Range(pubs)', Range(regs)')
  BY DEF SusInv
<1>1. SusHeld(Range(pubs), Range(regs))
  BY DEF SusInv
<1>2. PICK P, R : P = Range(pubs') /\ R = Range(regs')
  OBVIOUS
<1>3. /\ \A x \in P : x.st = "SUSPEND" =>
           \/ \E y \in Range(pubs) : Same(x, y)
           \/ x.id = id /\ x.name = name
      /\ Range(regs) \subseteq R
      /\ ~\E y \in Range(pubs) : y.name = name /\ y.st = "SUSPEND"
      /\ (\E x \in R : x.name = name)
           \/ (\A x \in P : x.st = "SUSPEND" => \E y \in Range(pubs) : Same(x, y))
  BY <1>2
<1>4. SusHeld(P, R)
  <2> SUFFICES ASSUME NEW x \in P, x.st = "SUSPEND"
               PROVE  /\ \E r \in R : r.name = x.name
                      /\ \A y \in P : y.st = "SUSPEND" /\ y.name = x.name => y.id = x.id
    BY DEF SusHeld
  <2>1. CASE \E u \in Range(pubs) : Same(x, u)
    <3>1. PICK u \in Range(pubs) : Same(x, u)
      BY <2>1
    <3>2. ASSUME NEW y \in P, y.st = "SUSPEND", y.name = x.name PROVE y.id = x.id
      <4>1. y.name # name
        BY <1>3, <3>1, <3>2 DEF Same
      <4>2. PICK v \in Range(pubs) : Same(y, v)
        BY <1>3, <3>2, <4>1
      <4> QED BY <1>1, <3>1, <3>2, <4>2 DEF SusHeld, Same
    <3>3. \E r \in R : r.name = x.name
      <4>1. PICK r \in Range(regs) : r.name = u.name
        BY <1>1, <3>1 DEF SusHeld, Same
      <4> QED BY <1>3, <3>1, <4>1 DEF Same
    <3> QED BY <3>2, <3>3
  <2>2. CASE ~\E u \in Range(pubs) : Same(x, u)
    <3>1. x.id = id /\ x.name = name
      BY <1>3, <2>2
    <3>2. ASSUME NEW y \in P, y.st = "SUSPEND", y.name = x.name PROVE y.id = x.id
      <4>1. ~\E v \in Range(pubs) : Same(y, v)
        BY <1>3, <3>1, <3>2 DEF Same
      <4> QED BY <1>3, <3>1, <3>2, <4>1
    <3>3. \E r \in R : r.name = x.name
      BY <1>3, <2>2, <3>1
    <3> QED BY <3>2, <3>3
  <2> QED BY <2>1, <2>2
<1> QED BY <1>2, <1>4

LEMMA PubcompQuiet == TypeInv /\ Pubcomp => PubsQuiet
<1> SUFFICES ASSUME TypeInv, Pubcomp PROVE PubsQuiet
  OBVIOUS
<1>1. UNCHANGED pubs \/ (Msg.id \in Ids(pubs) /\ PubDone(Msg.id))
  BY DEF Pubcomp, Ids
<1> QED BY <1>1, UnchangedQuiet, PubDoneQuiet

(* send() counts, and leaves the registrations as they are. *)
LEMMA SendRegisterNames ==
    ASSUME TypeInv, SendRegister
    PROVE  /\ RegsQuiet
           /\ \A r \in Range(regs) : \E x \in Range(regs') : x.name = r.name
<1> DEFINE i == At(regs, job.id)
<1> DEFINE e == regs[i]
<1>1. i \in DOMAIN regs /\ e \in Reg
  <2>1. PICK x \in Range(regs) : x.id = job.id
    BY DEF SendRegister, TypeInv, JobOK
  <2> QED BY <2>1, RegAt
<1>2. regs' = [regs EXCEPT ![i].retry = @ - 1]
  BY DEF SendRegister
<1> HIDE DEF i
<1> DEFINE f == [e EXCEPT !.retry = @ - 1]
<1>3. f.id = e.id /\ f.name = e.name
  BY <1>1 DEF Reg
<1>4. regs' = [regs EXCEPT ![i] = f]
  BY <1>1, <1>2 DEF TypeInv, ListsOK
<1> HIDE DEF f, e
<1>5. PICK new : new = regs'
  OBVIOUS
<1>6. /\ DOMAIN new = DOMAIN regs /\ new[i] = f
      /\ \A j \in DOMAIN regs : j # i => new[j] = regs[j]
  BY <1>1, <1>4, <1>5 DEF TypeInv, ListsOK
<1>7. \A j \in DOMAIN regs : Alike(new[j], regs[j])
  BY <1>3, <1>6 DEF Alike, e
<1> QED BY <1>5, <1>6, <1>7 DEF RegsQuiet, Range, Alike

LEMMA AppPublishHeld ==
    ASSUME TypeInv, SusInv, NEW name \in config.names, NEW qos \in 0..2, AppPublish(name, qos)
    PROVE  SusInv'
<1> DEFINE id == nextMsgId + 1
<1>1. /\ seen \subseteq seen'
      /\ (\E y \in Range(pubs) : y.name = name /\ y.st = "SUSPEND") => "shared" \in seen'
      /\ \A x \in Range(pubs') :
           \/ x \in Range(pubs)
           \/ /\ x.id = id /\ x.name = name
              /\ x.st = IF TopicId(name) # 0 THEN "READY" ELSE "SUSPEND"
      /\ Range(regs) \subseteq Range(regs')
      /\ TopicId(name) = 0 => Named(regs', name) # {}
  BY AppPublishEffect
<1>2. TopicId(name) = 0 => \E x \in Range(regs') : x.name = name
  BY <1>1 DEF Named, Range
<1> HIDE DEF id
<1>3. \A x \in Range(pubs') : x.st = "SUSPEND" =>
               \/ \E y \in Range(pubs) : Same(x, y)
               \/ x.id = id /\ x.name = name /\ TopicId(name) = 0
  BY <1>1 DEF Same
<1> QED BY <1>1, <1>2, <1>3, SusMore

LEMMA PubackHeld ==
    ASSUME TypeInv, SusInv, Puback
    PROVE  SusInv'
<1>1. CASE UNCHANGED <<regs, seen>> /\ PubsQuiet
  BY <1>1, SusQuiet DEF PubsQuiet
<1>2. CASE ~(UNCHANGED <<regs, seen>> /\ PubsQuiet)
  <2>1. /\ seen \subseteq seen'
        /\ \E e \in Range(pubs) :
             /\ e.id = Msg.id /\ e.name \in Names
             /\ RegisterTopic(e.name, nextMsgId + 1)
             /\ TopicId(e.name) # 0 => "stale" \in seen'
             /\ (\E y \in Range(pubs) : y.name = e.name /\ y.st = "SUSPEND")
                  => "shared" \in seen'
             /\ \A x \in Range(pubs') :
                  \/ x.id # e.id /\ \E y \in Range(pubs) : Same(x, y)
                  \/ /\ x.id = e.id /\ x.name = e.name /\ x.qos = e.qos
                     /\ x.tid = 0 /\ x.st = "SUSPEND"
    BY <1>2, PubackEffect
  <2>2. PICK e \in Range(pubs) :
             /\ e.id = Msg.id /\ e.name \in Names
             /\ RegisterTopic(e.name, nextMsgId + 1)
             /\ TopicId(e.name) # 0 => "stale" \in seen'
             /\ (\E y \in Range(pubs) : y.name = e.name /\ y.st = "SUSPEND")
                  => "shared" \in seen'
             /\ \A x \in Range(pubs') :
                  \/ x.id # e.id /\ \E y \in Range(pubs) : Same(x, y)
                  \/ /\ x.id = e.id /\ x.name = e.name /\ x.qos = e.qos
                     /\ x.tid = 0 /\ x.st = "SUSPEND"
    BY <2>1
  <2>3. /\ Range(regs) \subseteq Range(regs')
        /\ TopicId(e.name) = 0 => Named(regs', e.name) # {}
    <3> DEFINE n == nextMsgId + 1
    <3>1. n \in Nat /\ n > nextMsgId /\ RegisterTopic(e.name, n)
      BY <2>2 DEF TypeInv, ListsOK
    <3> HIDE DEF n
    <3> QED BY <2>2, <3>1, RegisterTopicEffect
  <2>4. TopicId(e.name) = 0 => \E x \in Range(regs') : x.name = e.name
    BY <2>3 DEF Named, Range
  <2>5. \A x \in Range(pubs') : x.st = "SUSPEND" =>
               \/ \E y \in Range(pubs) : Same(x, y)
               \/ x.id = e.id /\ x.name = e.name
    BY <2>2
  <2> QED BY <2>1, <2>2, <2>3, <2>4, <2>5, SusMore
<1> QED BY <1>1, <1>2

LEMMA RegackHeld ==
    ASSUME TypeInv, SusInv, Regack
    PROVE  SusInv'
<1>1. seen' = seen
  BY DEF Regack
<1>2. CASE UNCHANGED <<regs, pubs>>
  BY <1>1, <1>2, SusSame
<1>3. CASE ~UNCHANGED <<regs, pubs>>
  <2> SUFFICES ASSUME seen \cap {"shared", "gaveUp", "stale"} = {}
               PROVE  SusHeld(Range(pubs)', Range(regs)')
    BY <1>1 DEF SusInv
  <2>1. SusHeld(Range(pubs), Range(regs))
    BY DEF SusInv
  <2>2. PICK r \in Range(regs) :
                /\ \A y \in Range(regs) : y.id # r.id => \E x \in Range(regs') : Alike(x, y)
                /\ \/ /\ UNCHANGED <<pubs, job>>
                      /\ \A y \in Range(pubs) : ~(y.st = "SUSPEND" /\ y.name = r.name)
                   \/ \E e \in Range(pubs) :
                        /\ e.st = "SUSPEND" /\ e.name = r.name
                        /\ \A x \in Range(pubs') :
                             \/ x.id # e.id /\ \E y \in Range(pubs) : Same(x, y)
                             \/ /\ x.id = e.id /\ x.name = e.name /\ x.qos = e.qos
                                /\ x.tid = Msg.tid /\ x.st = "READY"
    BY <1>3, RegackEffect
  <2>3. PICK P, R : P = Range(pubs') /\ R = Range(regs')
    OBVIOUS
  <2>4. \A x \in P : x.st = "SUSPEND" => x.name # r.name /\ \E y \in Range(pubs) : Same(x, y)
    <3>1. CASE UNCHANGED pubs /\ \A y \in Range(pubs) : ~(y.st = "SUSPEND" /\ y.name = r.name)
      BY <2>3, <3>1 DEF Same
    <3>2. CASE \E e \in Range(pubs) :
                 /\ e.st = "SUSPEND" /\ e.name = r.name
                 /\ \A x \in Range(pubs') :
                      \/ x.id # e.id /\ \E y \in Range(pubs) : Same(x, y)
                      \/ /\ x.id = e.id /\ x.name = e.name /\ x.qos = e.qos
                         /\ x.tid = Msg.tid /\ x.st = "READY"
      <4>1. PICK e \in Range(pubs) :
                 /\ e.st = "SUSPEND" /\ e.name = r.name
                 /\ \A x \in P :
                      \/ x.id # e.id /\ \E y \in Range(pubs) : Same(x, y)
                      \/ x.st = "READY"
        BY <2>3, <3>2
      <4>2. \A y \in Range(pubs) : y.st = "SUSPEND" /\ y.name = e.name => y.id = e.id
        BY <2>1, <4>1 DEF SusHeld
      <4> QED BY <4>1, <4>2 DEF Same
    <3> QED BY <2>2, <3>1, <3>2
  <2>5. \A y \in Range(regs) : y.name # r.name => \E x \in R : x.name = y.name
    <3>1. \A y \in Range(regs) : y.id # r.id => \E x \in R : Alike(x, y)
      BY <2>2, <2>3
    <3>2. \A y \in Range(regs) : y.id = r.id => y = r
      BY RegAt
    <3> QED BY <3>1, <3>2 DEF Alike
  <2>6. SusHeld(P, R)
    <3> SUFFICES ASSUME NEW x \in P, x.st = "SUSPEND"
                 PROVE  /\ \E t \in R : t.name = x.name
                        /\ \A y \in P : y.st = "SUSPEND" /\ y.name = x.name => y.id = x.id
      BY DEF SusHeld
    <3>1. PICK u \in Range(pubs) : Same(x, u)
      BY <2>4
    <3>2. ASSUME NEW y \in P, y.st = "SUSPEND", y.name = x.name PROVE y.id = x.id
      <4>1. PICK v \in Range(pubs) : Same(y, v)
        BY <2>4, <3>2
      <4> QED BY <2>1, <3>1, <3>2, <4>1 DEF SusHeld, Same
    <3>3. PICK t \in Range(regs) : t.name = x.name
      BY <2>1, <3>1 DEF SusHeld, Same
    <3> QED BY <2>4, <2>5, <3>2, <3>3
  <2> QED BY <2>3, <2>6
<1> QED BY <1>2, <1>3

LEMMA SusInvStep == TypeInv /\ SusInv /\ [Next]_vars => SusInv'
<1> SUFFICES ASSUME TypeInv, SusInv, [Next]_vars PROVE SusInv'
  OBVIOUS
<1>1. CASE Application
  <2>1. CASE \E name \in config.names, qos \in config.qos : AppPublish(name, qos)
    <3>1. config.qos \subseteq 0..2
      BY DEF TypeInv, ProxyOK, Config
    <3> QED BY <2>1, <3>1, AppPublishHeld
  <2>2. CASE \E secs \in {0, 1} : Disconnect(secs)
    <3>1. UNCHANGED <<pubs, regs, seen>>
      BY <2>2 DEF Disconnect, lists, history
    <3> QED BY <3>1, SusSame
  <2> QED BY <1>1, <2>1, <2>2 DEF Application
<1>2. CASE Connect
  <2>1. CASE Connack
    <3>1. UNCHANGED <<pubs, regs>> /\ seen \subseteq seen'
      BY <2>1 DEF Connack
    <3> QED BY <3>1, SusSame
  <2>2. CASE ConnectSearch \/ ConnectConnect \/ ConnectWill \/ ConnectTimeout \/ ConnectAnswer
    <3>1. UNCHANGED <<pubs, regs, seen>>
      BY <2>2 DEF ConnectSearch, ConnectConnect, ConnectWill, ConnectTimeout, ConnectAnswer,
                  Unchanged4Connect, lists, history
    <3> QED BY <3>1, SusSame
  <2> QED BY <1>2, <2>1, <2>2 DEF Connect
<1>3. CASE SendPublish
  <2>1. UNCHANGED regs /\ seen \subseteq seen'
        /\ \A x \in Range(pubs') : x.st = "SUSPEND" => \E y \in Range(pubs) : Same(x, y)
    <3>1. UNCHANGED regs
      BY <1>3 DEF SendPublish
    <3>2. /\ seen \subseteq seen'
          /\ \A x \in Range(pubs') : \/ \E y \in Range(pubs) : Same(x, y)
                                     \/ x.st \in {"WAIT_PUBACK", "WAIT_PUBREC"}
      BY <1>3, SendPublishEffect
    <3> QED BY <3>1, <3>2
  <2> QED BY <2>1, SusQuiet
<1>4. CASE SendRegister
  <2>1. UNCHANGED <<pubs, seen>> /\ \A r \in Range(regs) : \E x \in Range(regs') : x.name = r.name
    BY <1>4, SendRegisterNames DEF SendRegister
  <2>2. \A x \in Range(pubs') : x.st = "SUSPEND" => \E y \in Range(pubs) : Same(x, y)
    BY <2>1 DEF Same
  <2> QED BY <2>1, <2>2, SusQuiet
<1>5. CASE Reconnected
  <2>1. UNCHANGED <<regs, seen>>
    BY <1>5 DEF Reconnected
  <2>2. PubsQuiet
    BY <1>5, ReconnectedQuiet
  <2> QED BY <2>1, <2>2, SusQuiet DEF PubsQuiet
<1>6. CASE DisconnectAnswer \/ DisconnectTimeout \/ LeaveTasks
  <2>1. UNCHANGED <<pubs, regs, seen>>
    BY <1>6 DEF DisconnectAnswer, DisconnectTimeout, LeaveTasks, lists, history
  <2> QED BY <2>1, SusSame
<1>7. CASE Puback
  BY <1>7, PubackHeld
<1>8. CASE Pubrec
  <2>1. UNCHANGED <<regs, seen>>
    BY <1>8 DEF Pubrec
  <2>2. \A x \in Range(pubs') : x.st = "SUSPEND" => \E y \in Range(pubs) : Same(x, y)
    <3>1. UNCHANGED pubs \/ \A x \in Range(pubs') : \/ \E y \in Range(pubs) : Same(x, y)
                                                   \/ x.st = "WAIT_PUBCOMP"
      BY <1>8, PubrecEffect
    <3> QED BY <3>1 DEF Same
  <2> QED BY <2>1, <2>2, SusQuiet
<1>9. CASE Pubcomp
  <2>1. UNCHANGED <<regs, seen>>
    BY <1>9 DEF Pubcomp
  <2>2. PubsQuiet
    BY <1>9, PubcompQuiet
  <2> QED BY <2>1, <2>2, SusQuiet DEF PubsQuiet
<1>10. CASE Regack
  BY <1>10, RegackHeld
<1>11. CASE Suback \/ TakeOther
  <2>1. UNCHANGED <<pubs, regs, seen>>
    BY <1>11 DEF Suback, TakeOther, lists
  <2> QED BY <2>1, SusSame
<1>12. CASE PingRequired \/ AdvertiseExpired \/ PingExpired
  <2>1. UNCHANGED <<pubs, regs>> /\ seen \subseteq seen'
    BY <1>12 DEF PingRequired, AdvertiseExpired, PingExpired, Sees, lists
  <2> QED BY <2>1, SusSame
<1>13. ASSUME NEW i \in DOMAIN regs, RegisterExpired(i) PROVE SusInv'
  <2>1. CASE regs[i].retry >= 0
    <3>1. UNCHANGED <<pubs, regs, seen>>
      BY <1>13, <2>1 DEF RegisterExpired
    <3> QED BY <3>1, SusSame
  <2>2. CASE ~(regs[i].retry >= 0)
    <3>1. "gaveUp" \in seen'
      BY <1>13, <2>2 DEF RegisterExpired
    <3> QED BY <3>1 DEF SusInv
  <2> QED BY <2>1, <2>2
<1>14. ASSUME NEW i \in DOMAIN subs, SubscribeExpired(i) PROVE SusInv'
  <2>1. UNCHANGED <<pubs, regs, seen>>
    BY <1>14 DEF SubscribeExpired
  <2> QED BY <2>1, SusSame
<1>15. ASSUME NEW i \in DOMAIN pubs, PublishExpired(i) PROVE SusInv'
  <2>1. UNCHANGED <<regs, seen>>
    BY <1>15 DEF PublishExpired
  <2>2. PubsQuiet
    BY <1>15, PublishExpiredQuiet
  <2> QED BY <2>1, <2>2, SusQuiet DEF PubsQuiet
<1>16. CASE Gateway \/ GwRestart
  <2>1. UNCHANGED <<pubs, regs>>
    BY <1>16 DEF Gateway, GwIgnores, GwConnects, GwRegisters, GwRejects, GwPublishes, GwReleases,
                 GwRestart, Unchanged4Gw, client, lists
  <2>2. seen \subseteq seen'
    BY <1>16 DEF Gateway, GwIgnores, GwConnects, GwRegisters, GwRejects, GwPublishes, GwReleases,
                 GwRestart, Sees, history
  <2> QED BY <2>1, <2>2, SusSame
<1>17. CASE UNCHANGED vars
  <2>1. UNCHANGED <<pubs, regs, seen>>
    BY <1>17 DEF vars, client, lists, history
  <2> QED BY <2>1, SusSame
<1>18. CASE Receive
  BY <1>7, <1>8, <1>9, <1>10, <1>11, <1>18 DEF Receive
<1>19. CASE Timers
  BY <1>12, <1>13, <1>14, <1>15, <1>19 DEF Timers
<1>20. CASE Resume
  BY <1>3, <1>4, <1>5, <1>20 DEF Resume
<1> QED BY <1>1, <1>2, <1>6, <1>16, <1>17, <1>18, <1>19, <1>20 DEF Next, Client

(* A suspended publication has a registration under way, for any number of *)
(* topics and publications.                                                *)
THEOREM SuspendedCorrect == Spec => []SuspendedIsRegistered
<1>1. Init => TypeInv /\ SusInv
  <2>1. Init => SusInv
    BY DEF Init, SusInv, SusHeld, Range
  <2> QED BY <2>1, TypeInvInit
<1>2. TypeInv /\ SusInv /\ [Next]_vars => (TypeInv /\ SusInv)'
  BY TypeInvStep, SusInvStep
<1>3. TypeInv /\ SusInv => SuspendedIsRegistered
  BY DEF SusInv, SusHeld, SuspendedIsRegistered, Named, Range
<1> QED BY <1>1, <1>2, <1>3, PTL DEF Spec

-----------------------------------------------------------------------------
(* Whoever says that a publication came to the gateway is right: a PUBREC  *)
(* and an accepting PUBACK under way, the ids that the broker's session    *)
(* holds, the publications that wait for PUBCOMP, and those done.          *)
Says(m) == m.type = "PUBREC" \/ (m.type = "PUBACK" /\ m.ok)
Came == Range(got)
DoneInv ==
    /\ \A m \in Range(toClient) : Says(m) => m.id \in Came
    /\ gw.held \subseteq Came /\ done \subseteq Came
    /\ \A x \in Range(pubs) : x.st = "WAIT_PUBCOMP" => x.id \in Came

LEMMA DoneKept ==
    ASSUME DoneInv, Came \subseteq Came',
           \A m \in Range(toClient') : m \in Range(toClient) \/ (Says(m) => m.id \in Came'),
           gw.held' \subseteq gw.held \cup Came', done' \subseteq done \cup Came',
           \A x \in Range(pubs') :
               x.st = "WAIT_PUBCOMP" => x.id \in Came' \/ \E y \in Range(pubs) : Same(x, y)
    PROVE  DoneInv'
<1>1. PICK C, P, Q : C = Came' /\ P = Range(pubs') /\ Q = Range(toClient')
  OBVIOUS
<1>2. \A m \in Q : Says(m) => m.id \in C
  BY <1>1 DEF DoneInv
<1>3. gw.held' \subseteq C /\ done' \subseteq C
  BY <1>1 DEF DoneInv
<1>4. \A x \in P : x.st = "WAIT_PUBCOMP" => x.id \in C
  BY <1>1 DEF DoneInv, Same
<1> QED BY <1>1, <1>2, <1>3, <1>4 DEF DoneInv, Says

(* The client does something else. *)
LEMMA DoneSame ==
    ASSUME DoneInv, UNCHANGED <<got, gw, done>>, Range(toClient') \subseteq Range(toClient),
           \A x \in Range(pubs') : x.st = "WAIT_PUBCOMP" => \E y \in Range(pubs) : Same(x, y)
    PROVE  DoneInv'
<1>1. Came' = Came
  BY DEF Came
<1> QED BY <1>1, DoneKept

LEMMA DoneStill ==
    ASSUME DoneInv, UNCHANGED <<got, gw, done, pubs>>, Range(toClient') \subseteq Range(toClient)
    PROVE  DoneInv'
<1>1. \A x \in Range(pubs') : x.st = "WAIT_PUBCOMP" => \E y \in Range(pubs) : Same(x, y)
  BY DEF Same
<1> QED BY <1>1, DoneSame

LEMMA PubackDone ==
    ASSUME TypeInv, DoneInv, Puback
    PROVE  DoneInv'
<1>1. UNCHANGED <<got, gw>> /\ toClient # << >> /\ toClient' = Tail(toClient)
      /\ Msg.type = "PUBACK"
  BY DEF Puback, Unchanged4Takes, Takes, Msg
<1>2. Range(toClient') \subseteq Range(toClient) /\ Msg \in Range(toClient) /\ Came' = Came
  BY <1>1, TakenOK DEF Msg, Came
<1>3. done' \subseteq done \cup Came
  <2>1. UNCHANGED done \/ (Msg.ok /\ done' = done \cup {Msg.id})
    BY PubackEffect
  <2>2. Msg.ok => Msg.id \in Came
    <3>1. Msg.ok => Says(Msg)
      BY <1>1 DEF Says
    <3> QED BY <1>2, <3>1 DEF DoneInv
  <2> QED BY <2>1, <2>2
<1>4. \A x \in Range(pubs') : x.st = "WAIT_PUBCOMP" => \E y \in Range(pubs) : Same(x, y)
  <2>1. PubsQuiet \/ \A x \in Range(pubs') : \/ \E y \in Range(pubs) : Same(x, y)
                                             \/ x.st = "SUSPEND"
    BY PubackEffect
  <2> QED BY <2>1 DEF PubsQuiet
<1> QED BY <1>1, <1>2, <1>3, <1>4, DoneKept

LEMMA PubrecDone ==
    ASSUME TypeInv, DoneInv, Pubrec
    PROVE  DoneInv'
<1>1. UNCHANGED <<got, gw, done>> /\ toClient # << >> /\ toClient' = Tail(toClient)
      /\ Msg.type = "PUBREC"
  BY DEF Pubrec, Unchanged4Takes, Takes, Msg
<1>2. Range(toClient') \subseteq Range(toClient) /\ Msg \in Range(toClient) /\ Came' = Came
  BY <1>1, TakenOK DEF Msg, Came
<1>3. Msg.id \in Came
  BY <1>1, <1>2 DEF DoneInv, Says
<1>4. \A x \in Range(pubs') :
        x.st = "WAIT_PUBCOMP" => x.id = Msg.id \/ \E y \in Range(pubs) : Same(x, y)
  <2>1. UNCHANGED pubs \/ \A x \in Range(pubs') : \/ \E y \in Range(pubs) : Same(x, y)
                                                  \/ x.id = Msg.id
    BY PubrecEffect
  <2> QED BY <2>1 DEF Same
<1> QED BY <1>1, <1>2, <1>3, <1>4, DoneKept

LEMMA PubcompDone ==
    ASSUME TypeInv, DoneInv, Pubcomp
    PROVE  DoneInv'
<1>1. UNCHANGED <<got, gw>> /\ toClient # << >> /\ toClient' = Tail(toClient)
  BY DEF Pubcomp, Unchanged4Takes, Takes
<1>2. Range(toClient') \subseteq Range(toClient) /\ Came' = Came
  BY <1>1, TakenOK DEF Came
<1>3. done' \subseteq done \cup Came
  <2>1. \/ UNCHANGED done
        \/ /\ \E i \in DOMAIN pubs : pubs[i].id = Msg.id /\ pubs[i].st = "WAIT_PUBCOMP"
           /\ done' = done \cup {Msg.id}
    BY DEF Pubcomp
  <2>2. (\E i \in DOMAIN pubs : pubs[i].id = Msg.id /\ pubs[i].st = "WAIT_PUBCOMP")
          => Msg.id \in Came
    BY PubThere DEF DoneInv
  <2> QED BY <2>1, <2>2
<1>4. PubsQuiet
  BY PubcompQuiet
<1> QED BY <1>1, <1>2, <1>3, <1>4, DoneKept DEF PubsQuiet

LEMMA GwPublishesDone ==
    ASSUME TypeInv, DoneInv, GwPublishes
    PROVE  DoneInv'
<1> DEFINE m == IF In.qos = 1 THEN [type |-> "PUBACK", id |-> In.id, ok |-> TRUE]
                ELSE [type |-> "PUBREC", id |-> In.id]
<1>1. /\ got' = IF In.qos = 2 /\ In.id \in gw.held THEN got ELSE Append(got, In.id)
      /\ gw' = [gw EXCEPT !.held = IF In.qos = 2 THEN @ \cup {In.id} ELSE @]
      /\ UNCHANGED toClient \/ Answered(m)
      /\ UNCHANGED <<pubs, done>>
  BY DEF GwPublishes, Unchanged4Gw, client, lists
<1>2. Came \subseteq Came' /\ In.id \in Came'
  <2>1. got \in Seq(Range(got))
    BY OfItsRange DEF TypeInv, HistoryOK
  <2>2. PICK g : g = got'
    OBVIOUS
  <2>3. Range(got) \subseteq Range(g) /\ In.id \in Range(g)
    <3>1. CASE g = got /\ In.id \in gw.held
      BY <3>1 DEF DoneInv, Came
    <3>2. CASE g = Append(got, In.id)
      BY <2>1, <3>2, AppendRange
    <3> QED BY <1>1, <2>2, <3>1, <3>2
  <2> QED BY <2>2, <2>3 DEF Came
<1>3. gw'.held \subseteq gw.held \cup {In.id}
  BY <1>1 DEF TypeInv, GwOK
<1>4. \A x \in Range(toClient') : x \in Range(toClient) \/ x.id = In.id
  <2>1. m.id = In.id /\ DownOK(m)
    BY DEF DownOK
  <2> HIDE DEF m
  <2>2. Answered(m) => Range(toClient') \subseteq Range(toClient) \cup {m}
    BY <2>1, AnsweredOK
  <2> QED BY <1>1, <2>1, <2>2
<1>5. \A x \in Range(pubs') : x.st = "WAIT_PUBCOMP" => \E y \in Range(pubs) : Same(x, y)
  BY <1>1 DEF Same
<1> QED BY <1>1, <1>2, <1>3, <1>4, <1>5, DoneKept

(* Any other answer of the gateway. *)
LEMMA GwAnswersDone ==
    ASSUME TypeInv, DoneInv, UNCHANGED <<got, done, pubs>>, gw'.held \subseteq gw.held,
           NEW m, DownOK(m), ~Says(m), Answered(m)
    PROVE  DoneInv'
<1>1. Range(toClient') \subseteq Range(toClient) \cup {m} /\ Came' = Came
  BY AnsweredOK DEF Came
<1>2. \A x \in Range(pubs') : x.st = "WAIT_PUBCOMP" => \E y \in Range(pubs) : Same(x, y)
  BY DEF Same
<1> QED BY <1>1, <1>2, DoneKept

LEMMA GwDone ==
    ASSUME TypeInv, DoneInv, Gateway
    PROVE  DoneInv'
<1>1. UNCHANGED <<done, pubs>>
  BY DEF Gateway, GwIgnores, GwConnects, GwRegisters, GwRejects, GwPublishes, GwReleases,
         Unchanged4Gw, client, lists
<1>2. CASE GwIgnores
  BY <1>1, <1>2, DoneStill DEF GwIgnores
<1>3. CASE GwConnects
  <2>1. PICK a \in {"GWINFO", "WILLTOPICREQ", "WILLMSGREQ", "DISCONNECT", "CONNACK"} :
            Answered([type |-> a])
    BY <1>3 DEF GwConnects
  <2> DEFINE m == [type |-> a]
  <2>2. DownOK(m) /\ ~Says(m)
    BY DEF DownOK, Says
  <2>3. gw'.held \subseteq gw.held /\ UNCHANGED got
    BY <1>3 DEF GwConnects, TypeInv, GwOK
  <2>4. Answered(m)
    BY <2>1
  <2> HIDE DEF m
  <2> QED BY <1>1, <2>2, <2>3, <2>4, GwAnswersDone
<1>4. CASE GwRegisters
  <2> DEFINE m == [type |-> IF In.type = "REGISTER" THEN "REGACK" ELSE "SUBACK",
                   id |-> In.id, tid |-> GwId(In.name)]
  <2>1. /\ UNCHANGED got /\ gw' = [gw EXCEPT !.names = GwNames(In.name)]
        /\ Answered(m) /\ In.type \in {"REGISTER", "SUBSCRIBE"}
        /\ toGw # << >> /\ toGw' = Tail(toGw) /\ nextMsgId' = nextMsgId
    BY <1>4 DEF GwRegisters, GwTakes, Unchanged4Gw, client
  <2>2. UpOK(In, nextMsgId) /\ nextMsgId \in Nat
    BY <2>1, GwTakenOK DEF TypeInv, ListsOK
  <2>3. In.id \in Nat /\ In.name \in AnyName
    BY <2>1, <2>2 DEF UpOK
  <2>4. GwNames(In.name) \in Seq(AnyName) /\ GwId(In.name) \in DOMAIN GwNames(In.name)
    BY <2>3, GwNamesKeep
  <2>5. GwId(In.name) \in Nat \ {0}
    BY <2>4
  <2>6. DownOK(m) /\ ~Says(m)
    BY <2>3, <2>5 DEF DownOK, Says
  <2>7. gw'.held \subseteq gw.held
    BY <2>1 DEF TypeInv, GwOK
  <2> HIDE DEF m
  <2> QED BY <1>1, <2>1, <2>6, <2>7, GwAnswersDone
<1>5. CASE GwRejects
  <2> DEFINE m == [type |-> "PUBACK", id |-> In.id, ok |-> FALSE]
  <2>1. UNCHANGED <<got, gw>> /\ Answered(m)
    BY <1>5 DEF GwRejects
  <2>2. DownOK(m) /\ ~Says(m)
    BY DEF DownOK, Says
  <2> HIDE DEF m
  <2> QED BY <1>1, <2>1, <2>2, GwAnswersDone
<1>6. CASE GwPublishes
  BY <1>6, GwPublishesDone
<1>7. CASE GwReleases
  <2>1. UNCHANGED got
    BY <1>7 DEF GwReleases
  <2>2. CASE In.type = "PUBREL"
    <3> DEFINE m == [type |-> "PUBCOMP", id |-> In.id]
    <3>1. Answered(m) /\ gw' = [gw EXCEPT !.held = @ \ {In.id}]
      BY <1>7, <2>2 DEF GwReleases
    <3>2. DownOK(m) /\ ~Says(m)
      BY DEF DownOK, Says
    <3>3. gw'.held \subseteq gw.held
      BY <3>1 DEF TypeInv, GwOK
    <3> HIDE DEF m
    <3> QED BY <1>1, <2>1, <3>1, <3>2, <3>3, GwAnswersDone
  <2>3. CASE In.type # "PUBREL"
    <3> DEFINE m == [type |-> "PINGRESP"]
    <3>1. Answered(m) /\ UNCHANGED gw
      BY <1>7, <2>3 DEF GwReleases
    <3>2. DownOK(m) /\ ~Says(m)
      BY DEF DownOK, Says
    <3> HIDE DEF m
    <3> QED BY <1>1, <2>1, <3>1, <3>2, GwAnswersDone
  <2> QED BY <2>2, <2>3
<1> QED BY <1>2, <1>3, <1>4, <1>5, <1>6, <1>7 DEF Gateway

LEMMA DoneInvStep == TypeInv /\ DoneInv /\ [Next]_vars => DoneInv'
<1> SUFFICES ASSUME TypeInv, DoneInv, [Next]_vars PROVE DoneInv'
  OBVIOUS
<1>1. CASE Application
  <2>1. CASE \E name \in config.names, qos \in config.qos : AppPublish(name, qos)
    <3>1. config.qos \subseteq 0..2
      BY DEF TypeInv, ProxyOK, Config
    <3>2. PICK name \in config.names, qos \in 0..2 : AppPublish(name, qos)
      BY <2>1, <3>1
    <3>3. UNCHANGED <<got, gw, done, toClient>>
      BY <3>2 DEF AppPublish, net
    <3>4. \A x \in Range(pubs') : x.st = "WAIT_PUBCOMP" => \E y \in Range(pubs) : Same(x, y)
      <4>1. \A x \in Range(pubs') : x \in Range(pubs) \/ x.st \in {"READY", "SUSPEND"}
        BY <3>2, AppPublishEffect
      <4> QED BY <4>1 DEF Same
    <3> QED BY <3>3, <3>4, DoneSame
  <2>2. CASE \E secs \in {0, 1} : Disconnect(secs)
    <3>1. UNCHANGED <<got, gw, done, pubs, toClient>>
      BY <2>2 DEF Disconnect, lists, history
    <3> QED BY <3>1, DoneStill
  <2> QED BY <1>1, <2>1, <2>2 DEF Application
<1>2. CASE Connect
  <2>1. UNCHANGED <<got, gw, done, pubs>>
    BY <1>2 DEF Connect, ConnectSearch, ConnectConnect, ConnectWill, ConnectTimeout, ConnectAnswer,
                Connack, Unchanged4Connect, lists, history, env
  <2>2. UNCHANGED toClient \/ (toClient # << >> /\ toClient' = Tail(toClient))
    BY <1>2 DEF Connect, ConnectSearch, ConnectConnect, ConnectWill, ConnectTimeout, ConnectAnswer,
                Connack, Unchanged4Connect
  <2>3. Range(toClient') \subseteq Range(toClient)
    BY <2>2, TakenOK
  <2> QED BY <2>1, <2>3, DoneStill
<1>3. CASE Resume
  <2>1. UNCHANGED <<got, gw, done, toClient>>
    BY <1>3 DEF Resume, SendPublish, SendRegister, Reconnected, Unchanged4Job
  <2>2. \A x \in Range(pubs') : x.st = "WAIT_PUBCOMP" => \E y \in Range(pubs) : Same(x, y)
    <3>1. CASE SendPublish
      <4>1. \A x \in Range(pubs') : \/ \E y \in Range(pubs) : Same(x, y)
                                    \/ x.st \in {"WAIT_PUBACK", "WAIT_PUBREC"}
        BY <3>1, SendPublishEffect
      <4> QED BY <4>1
    <3>2. CASE SendRegister
      BY <3>2 DEF SendRegister, Same
    <3>3. CASE Reconnected
      BY <3>3, ReconnectedQuiet DEF PubsQuiet
    <3> QED BY <1>3, <3>1, <3>2, <3>3 DEF Resume
  <2> QED BY <2>1, <2>2, DoneSame
<1>4. CASE DisconnectAnswer \/ DisconnectTimeout \/ LeaveTasks
  <2>1. UNCHANGED <<got, gw, done, pubs>>
    BY <1>4 DEF DisconnectAnswer, DisconnectTimeout, LeaveTasks, lists, history, env
  <2>2. UNCHANGED toClient \/ (toClient # << >> /\ toClient' = Tail(toClient))
    BY <1>4 DEF DisconnectAnswer, DisconnectTimeout, LeaveTasks, net
  <2>3. Range(toClient') \subseteq Range(toClient)
    BY <2>2, TakenOK
  <2> QED BY <2>1, <2>3, DoneStill
<1>5. CASE Receive
  <2>1. CASE Regack \/ Suback \/ TakeOther
    <3>1. UNCHANGED <<got, gw, done>> /\ toClient # << >> /\ toClient' = Tail(toClient)
      BY <2>1 DEF Regack, Suback, TakeOther, Takes, Unchanged4Takes
    <3>2. Range(toClient') \subseteq Range(toClient)
      BY <3>1, TakenOK
    <3>3. \A x \in Range(pubs') : x.st = "WAIT_PUBCOMP" => \E y \in Range(pubs) : Same(x, y)
      <4>1. CASE Regack
        <5>1. UNCHANGED pubs \/ \A x \in Range(pubs') : \/ \E y \in Range(pubs) : Same(x, y)
                                                        \/ x.st = "READY"
          BY <4>1, RegackEffect
        <5> QED BY <5>1 DEF Same
      <4>2. CASE Suback \/ TakeOther
        BY <4>2 DEF Suback, TakeOther, lists, Same
      <4> QED BY <2>1, <4>1, <4>2
    <3> QED BY <3>1, <3>2, <3>3, DoneSame
  <2> QED BY <1>5, <2>1, PubackDone, PubrecDone, PubcompDone DEF Receive
<1>6. CASE Timers
  <2>1. UNCHANGED <<got, gw, done, toClient>>
    BY <1>6 DEF Timers, PingRequired, PingExpired, AdvertiseExpired, RegisterExpired,
                SubscribeExpired, PublishExpired, Unchanged4Timer
  <2>2. \A x \in Range(pubs') : x.st = "WAIT_PUBCOMP" => \E y \in Range(pubs) : Same(x, y)
    <3>1. CASE \E i \in DOMAIN pubs : PublishExpired(i)
      BY <3>1, PublishExpiredQuiet DEF PubsQuiet
    <3>2. CASE ~\E i \in DOMAIN pubs : PublishExpired(i)
      <4>1. UNCHANGED pubs
        BY <1>6, <3>2 DEF Timers, PingRequired, PingExpired, AdvertiseExpired, RegisterExpired,
                SubscribeExpired, lists
      <4> QED BY <4>1 DEF Same
    <3> QED BY <3>1, <3>2
  <2> QED BY <2>1, <2>2, DoneSame
<1>7. CASE Gateway
  BY <1>7, GwDone
<1>8. CASE GwRestart
  <2>1. /\ gw' = [gw EXCEPT !.state = "new", !.names = << >>]
        /\ UNCHANGED <<got, done, pubs, toClient>>
    BY <1>8 DEF GwRestart, history, client, lists, net
  <2>2. gw'.held = gw.held /\ Came' = Came
    BY <2>1 DEF TypeInv, GwOK, Came
  <2>3. \A x \in Range(pubs') : x.st = "WAIT_PUBCOMP" => \E y \in Range(pubs) : Same(x, y)
    BY <2>1 DEF Same
  <2> QED BY <2>1, <2>2, <2>3, DoneKept
<1>9. CASE UNCHANGED vars
  <2>1. UNCHANGED <<got, gw, done, pubs, toClient>>
    BY <1>9 DEF vars, history, client, lists, net, env
  <2> QED BY <2>1, DoneStill
<1> QED BY <1>1, <1>2, <1>3, <1>4, <1>5, <1>6, <1>7, <1>8, <1>9 DEF Next, Client

(* A publication that is done came to the gateway, whatever the network    *)
(* lost and however often it was sent.                                     *)
THEOREM DoneCorrect == Spec => []DoneArrived
<1>1. Init => TypeInv /\ DoneInv
  <2>1. Init => DoneInv
    BY DEF Init, DoneInv, Came, Range
  <2> QED BY <2>1, TypeInvInit
<1>2. TypeInv /\ DoneInv /\ [Next]_vars => (TypeInv /\ DoneInv)'
  BY TypeInvStep, DoneInvStep
<1>3. TypeInv /\ DoneInv => DoneArrived
  <2> SUFFICES ASSUME TypeInv, DoneInv, NEW id \in done PROVE Times(id) > 0
    BY DEF DoneArrived
  <2> DEFINE T == {k \in DOMAIN got : got[k] = id}
  <2>1. T # {}
    BY DEF DoneInv, Came, Range
  <2>2. IsFiniteSet(T)
    <3>1. DOMAIN got = 1 .. Len(got) /\ Len(got) \in Nat
      BY DEF TypeInv, HistoryOK
    <3>2. IsFiniteSet(1 .. Len(got))
      BY <3>1, FS_Interval
    <3> QED BY <3>1, <3>2, FS_Subset
  <2> HIDE DEF T
  <2>3. Cardinality(T) \in Nat /\ Cardinality(T) # 0
    BY <2>1, <2>2, FS_CardinalityType, FS_EmptySet
  <2> QED BY <2>3 DEF Times, T
<1> QED BY <1>1, <1>2, <1>3, PTL DEF Spec
=============================================================================
