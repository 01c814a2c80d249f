---------------------------- MODULE LogRingProofs ----------------------------
(* Theorems about LogRing, for rings and reads of any size and texts of any *)
(* length.                                                                 *)
EXTENDS LogRing, SequenceTheorems, TLAPS

(* The indices are in the ring, start perhaps behind its last place, until  *)
(* a text is written outside; then start does not overtake end.            *)
Shape ==
    /\ writer # "outside" => start <= Length /\ end < Length
    /\ writer = "outside" => start <= end

(* What the error text needs in order to be written, start = end # 0, is    *)
(* left by a get() that met as much as it can take.                        *)
Apart == ~brink => (start = end => end = 0) /\ writer # "outside"

IndexInv == TypeOK /\ Shape /\ Apart

LEMMA Sizes2 ==
    /\ Length \in Nat /\ Length > 0 /\ ReadMax \in Nat /\ ReadMax >= 2 /\ ErrLen \in Nat
    /\ \A n \in Sizes : n \in Nat /\ n >= 2 /\ n < Length
BY TextsFit, LengthPositive, ReadsSeveral, ErrLenNat

-----------------------------------------------------------------------------
(* put() and get(). *)

LEMMA TextType ==
    ASSUME buffer \in [0 .. Length - 1 -> Int], NEW p \in Nat, NEW n \in Nat
    PROVE  Text(p, n) \in Seq(Int)
<1>1. ASSUME NEW i \in 1 .. n PROVE buffer[(p + i - 1) % Length] \in Int
  <2>1. (p + i - 1) \in Nat
    OBVIOUS
  <2>2. (p + i - 1) % Length \in 0 .. Length - 1
    BY <2>1, LengthPositive
  <2> QED BY <2>2
<1>2. Text(p, n) \in [1 .. n -> Int]
  BY <1>1 DEF Text
<1> QED BY <1>2

LEMMA WrittenType ==
    ASSUME buffer \in [0 .. Length - 1 -> Int], sent \in Nat, end \in Nat, NEW n \in Nat
    PROVE  Written(n) \in [0 .. Length - 1 -> Int]
<1>1. ASSUME NEW i \in 0 .. Length - 1
      PROVE LET k == (i - end + Length) % Length
            IN  (IF k < n THEN sent + 1 + k ELSE buffer[i]) \in Int
  <2>1. (i - end + Length) \in Int /\ Length \in Nat \ {0}
    BY LengthPositive
  <2>2. (i - end + Length) % Length \in Int
    BY <2>1
  <2> QED BY <2>2
<1> QED BY <1>1 DEF Written

LEMMA PutShape ==
    ASSUME start \in Nat, end \in Nat, start <= Length, end < Length,
           NEW n \in Sizes, ~TooLong(n)
    PROVE  /\ PutStart(n) \in Nat /\ PutEnd(n) \in Nat
           /\ PutStart(n) <= Length /\ PutEnd(n) < Length
           /\ (start = end => end = 0) => PutStart(n) # PutEnd(n)
<1>1. n \in Nat /\ n >= 2 /\ n < Length /\ Length \in Nat
  BY Sizes2
<1> QED BY <1>1 DEF PutStart, PutEnd, TooLong, Room, Empty

LEMMA GetShape ==
    ASSUME start \in Nat, end \in Nat, start <= Length \/ start <= end
    PROVE  /\ GetStart \in Nat /\ GetLen \in Nat
           /\ start <= Length /\ end < Length => GetStart <= Length
           /\ start <= end => GetStart <= end
           /\ (start = end => end = 0) /\ Backlog # ReadMax =>
                 (GetStart = end => end = 0)
<1>1. ReadMax \in Nat /\ ReadMax >= 2 /\ Length \in Nat /\ Length > 0
  BY Sizes2
<1> QED BY <1>1 DEF GetStart, GetLen, Backlog, Empty

-----------------------------------------------------------------------------
(* The indices: one step per action. *)

LEMMA EmptyType == << >> \in Seq(Int)
OBVIOUS

LEMMA NothingType == Nothing \in [Kinds -> Objects \cup {"none"}]
BY DEF Nothing

LEMMA IndexInit == Init => IndexInv
<1> SUFFICES ASSUME Init PROVE IndexInv
  OBVIOUS
<1>1. buffer \in [0 .. Length - 1 -> Int] /\ start = 0 /\ end = 0
  BY DEF Init
<1>2. TypeOK
  <2>1. key \in [Kinds -> Objects \cup {"none"}] /\ mine = key
    BY NothingType, EmptyType DEF Init
  <2>2. owner \in [Objects -> {"none", "gateway", "monitor", "destroyed"}]
    BY DEF Init
  <2>3. created \in BOOLEAN /\ brink \in BOOLEAN /\ overrun \in BOOLEAN /\ torn \in BOOLEAN
    BY Zenon DEF Init
  <2>4. rbdata \in Seq(Int) /\ taken \in Seq(Int)
    BY EmptyType DEF Init
  <2>5. start = 0 /\ end = 0 /\ sem = 0 /\ puts = 0 /\ sent = 0 /\ starts = 0
        /\ writer = "off" /\ monitor = "off"
    BY DEF Init
  <2> QED BY <1>1, <2>1, <2>2, <2>3, <2>4, <2>5 DEF TypeOK
<1>3. Shape /\ Apart
  BY <1>1, Sizes2 DEF Init, Shape, Apart
<1> QED BY <1>2, <1>3 DEF IndexInv

LEMMA OpenedType ==
    TypeOK => AllOpened \in [Kinds -> Objects \cup {"none"}] /\ AllOpened \in [Kinds -> Objects]
BY DEF TypeOK, AllOpened, Opened, Objects, Kinds

LEMMA GoneType ==
    TypeOK /\ Gone =>
        /\ monitor' = "off" /\ mine' \in [Kinds -> Objects \cup {"none"}]
        /\ created' \in BOOLEAN /\ rbdata' \in Seq(Int) /\ starts' \in Nat
<1> SUFFICES ASSUME TypeOK, Gone
             PROVE  /\ monitor' = "off" /\ mine' \in [Kinds -> Objects \cup {"none"}]
                    /\ created' \in BOOLEAN /\ rbdata' \in Seq(Int) /\ starts' \in Nat
  OBVIOUS
<1>1. created' \in BOOLEAN
  BY Zenon DEF Gone
<1>2. monitor' = "off" /\ mine' = Nothing /\ rbdata' = << >> /\ starts' = starts
  BY DEF Gone
<1> QED BY <1>1, <1>2, NothingType, EmptyType DEF TypeOK

LEMMA IndexStep == IndexInv /\ [Next]_vars => IndexInv'
<1> SUFFICES ASSUME IndexInv, [Next]_vars PROVE IndexInv'
  OBVIOUS
<1> USE DEF IndexInv
<1>1. CASE GatewayStart
  <2>1. TypeOK'
    BY <1>1, OpenedType DEF GatewayStart, TypeOK, ringVars, monitorVars, Objects
  <2>2. (Shape /\ Apart)'
    BY <1>1 DEF GatewayStart, Shape, Apart, ringVars
  <2> QED BY <2>1, <2>2
<1>2. CASE GatewayReset
  BY <1>2, Sizes2 DEF GatewayReset, TypeOK, Shape, Apart, monitorVars, history
<1>3. CASE WriterLock
  BY <1>3 DEF WriterLock, TypeOK, Shape, Apart, ringVars, monitorVars, history, Objects
<1>4. CASE WriterPut
  <2>0. PICK n \in Sizes : PutText(n) \/ PutError(n)
    BY <1>4 DEF WriterPut
  <2>1. n \in Nat /\ n >= 2 /\ n < Length /\ Length \in Nat /\ ErrLen \in Nat
    BY Sizes2
  <2>2. start \in Nat /\ end \in Nat /\ start <= Length /\ end < Length
    BY <1>4 DEF WriterPut, TypeOK, Shape
  <2>3. CASE PutText(n)
    <3>1. /\ start' = PutStart(n) /\ end' = PutEnd(n) /\ buffer' = Written(n)
          /\ sent' = sent + n /\ writer' = "unlock" /\ ~TooLong(n) /\ brink' = brink
          /\ overrun' = (overrun \/ Overruns(n))
      BY <2>3, <1>4 DEF PutText, WriterPut
    <3>2. buffer' \in [0 .. Length - 1 -> Int]
      BY <3>1, <2>1, <2>2, WrittenType DEF TypeOK
    <3>3. /\ start' \in Nat /\ end' \in Nat /\ start' <= Length /\ end' < Length
          /\ (start = end => end = 0) => start' # end'
      BY <3>1, <2>2, PutShape
    <3>4. overrun' \in BOOLEAN
      BY <3>1, Zenon
    <3>5. TypeOK'
      BY <1>4, <2>1, <3>1, <3>2, <3>3, <3>4 DEF TypeOK, WriterPut, monitorVars
    <3>6. Shape'
      BY <3>1, <3>3 DEF Shape
    <3>7. Apart'
      BY <3>1, <3>3 DEF Apart
    <3> QED BY <3>5, <3>6, <3>7
  <2>4. CASE PutError(n)
    <3>1. /\ start' = start /\ end' = end + ErrLen /\ TooLong(n) /\ brink' = brink
          /\ UNCHANGED <<sent, overrun>>
          /\ writer' = IF end + ErrLen >= Length THEN "outside" ELSE "unlock"
          /\ buffer' = [i \in 0 .. Length - 1 |->
                           IF i >= end /\ i < end + ErrLen THEN -1 ELSE buffer[i]]
      BY <2>4, <1>4 DEF PutError, WriterPut
    <3>2. buffer' \in [0 .. Length - 1 -> Int]
      BY <3>1 DEF TypeOK
    <3>3. TypeOK'
      BY <1>4, <2>1, <2>2, <3>1, <3>2 DEF TypeOK, WriterPut, monitorVars
    <3>4. Shape'
      BY <2>1, <2>2, <3>1 DEF Shape, TooLong
    <3>5. brink
      BY <2>1, <2>2, <3>1 DEF TooLong, Room, Apart
    <3>6. Apart'
      BY <3>1, <3>5 DEF Apart
    <3> QED BY <3>3, <3>4, <3>6
  <2> QED BY <2>0, <2>3, <2>4
<1>5. CASE WriterUnlock
  BY <1>5 DEF WriterUnlock, TypeOK, Shape, Apart, ringVars, monitorVars, history, Objects
<1>6. CASE WriterGetValue
  BY <1>6 DEF WriterGetValue, TypeOK, Shape, Apart, shared, ringVars, monitorVars, history
<1>7. CASE WriterSignal
  BY <1>7 DEF WriterSignal, TypeOK, Shape, Apart, ringVars, monitorVars, history
<1>8. CASE MonitorLock
  BY <1>8 DEF MonitorLock, TypeOK, Shape, Apart, ringVars, gatewayVars, history, Objects
<1>9. CASE MonitorGet
  <2>1. UNCHANGED <<end, buffer, owner, sem, key, gatewayVars, mine, created, starts, overrun, torn>>
        /\ monitor' = "unlock"
    BY <1>9 DEF MonitorGet
  <2>2. CASE mine["ring"] = "shared"
    <3>1. /\ rbdata' = Text(start, GetLen) /\ taken' = taken \o Text(start, GetLen)
          /\ start' = GetStart /\ brink' = (brink \/ Backlog \in {ReadMax, ReadMax + 1})
      BY <1>9, <2>2 DEF MonitorGet
    <3>2. start \in Nat /\ end \in Nat /\ (start <= Length \/ start <= end)
      BY DEF TypeOK, Shape
    <3>3. /\ start' \in Nat /\ GetLen \in Nat
          /\ start <= Length /\ end < Length => start' <= Length
          /\ start <= end => start' <= end
          /\ (start = end => end = 0) /\ Backlog # ReadMax => (start' = end => end = 0)
      BY <3>1, <3>2, GetShape
    <3>4. Text(start, GetLen) \in Seq(Int)
      BY <3>2, <3>3, TextType DEF TypeOK
    <3>5. rbdata' \in Seq(Int) /\ taken' \in Seq(Int)
      BY <3>1, <3>4 DEF TypeOK
    <3>6. brink' \in BOOLEAN
      BY <3>1, Zenon
    <3>7. TypeOK'
      BY <2>1, <3>3, <3>5, <3>6 DEF TypeOK, gatewayVars
    <3>8. Shape'
      BY <2>1, <3>3 DEF Shape, gatewayVars
    <3>9. ~brink' => ~brink /\ Backlog # ReadMax
      BY <3>1, Zenon
    <3>10. Apart'
      BY <2>1, <3>3, <3>9 DEF Apart, gatewayVars
    <3> QED BY <3>7, <3>8, <3>10
  <2>3. CASE mine["ring"] # "shared"
    <3>1. rbdata' = << >> /\ UNCHANGED <<taken, start, brink>>
      BY <1>9, <2>3 DEF MonitorGet
    <3> QED BY <2>1, <3>1 DEF TypeOK, Shape, Apart, gatewayVars
  <2> QED BY <2>2, <2>3
<1>10. CASE MonitorUnlock
  BY <1>10 DEF MonitorUnlock, TypeOK, Shape, Apart, ringVars, gatewayVars, history, Objects
<1>11. CASE MonitorWait
  BY <1>11 DEF MonitorWait, TypeOK, Shape, Apart, ringVars, gatewayVars, history
<1>12. CASE MonitorPrint
  BY <1>12 DEF MonitorPrint, TypeOK, Shape, Apart, shared, ringVars, gatewayVars, history
<1>13. CASE MonitorStart
  <2>1. key' \in [Kinds -> Objects \cup {"none"}] /\ mine' \in [Kinds -> Objects \cup {"none"}]
    BY <1>13, OpenedType DEF MonitorStart
  <2>2. owner' \in [Objects -> {"none", "gateway", "monitor", "destroyed"}]
    BY <1>13 DEF MonitorStart, TypeOK
  <2>3. created' \in BOOLEAN /\ torn' \in BOOLEAN
    BY <1>13, Zenon DEF MonitorStart
  <2>4. TypeOK'
    BY <1>13, <2>1, <2>2, <2>3 DEF MonitorStart, TypeOK, ringVars, gatewayVars
  <2>5. (Shape /\ Apart)'
    BY <1>13 DEF MonitorStart, Shape, Apart, ringVars, gatewayVars
  <2> QED BY <2>4, <2>5
<1>14. CASE MonitorSignal
  <2>1. /\ key' \in [Kinds -> Objects \cup {"none"}]
        /\ mine' \in [Kinds -> Objects \cup {"none"}]
    BY <1>14, NothingType, EmptyType DEF MonitorSignal, Gone, TypeOK, Kinds
  <2>2. /\ created' \in BOOLEAN /\ rbdata' \in Seq(Int) /\ starts' \in Nat
        /\ monitor' \in {"off", "leaving"}
    <3>1. CASE created
      BY <1>14, <3>1, Zenon DEF MonitorSignal, TypeOK
    <3>2. CASE ~created
      BY <1>14, <3>2, GoneType DEF MonitorSignal
    <3> QED BY <3>1, <3>2
  <2>3. UNCHANGED <<ringVars, owner, sem, gatewayVars, history>>
    BY <1>14 DEF MonitorSignal
  <2> QED BY <2>1, <2>2, <2>3 DEF TypeOK, Shape, Apart, ringVars, gatewayVars, history
<1>15. CASE MonitorLeave
  <2>1. key' \in [Kinds -> Objects \cup {"none"}]
    BY <1>15 DEF MonitorLeave, TypeOK, Kinds
  <2>2. owner' \in [Objects -> {"none", "gateway", "monitor", "destroyed"}]
    BY <1>15 DEF MonitorLeave, TypeOK
  <2>3. Gone /\ UNCHANGED <<ringVars, sem, gatewayVars, history>>
    BY <1>15 DEF MonitorLeave
  <2> QED BY <2>1, <2>2, <2>3, GoneType DEF TypeOK, Shape, Apart, ringVars, gatewayVars, history
<1>16. CASE MonitorKill
  <2>1. Gone /\ UNCHANGED <<shared, gatewayVars, history>>
    BY <1>16 DEF MonitorKill
  <2> QED BY <2>1, GoneType DEF TypeOK, Shape, Apart, shared, ringVars, gatewayVars, history
<1>17. CASE UNCHANGED vars
  BY <1>17 DEF vars, TypeOK, Shape, Apart, shared, ringVars, gatewayVars, monitorVars, history
<1> QED
  BY <1>1, <1>2, <1>3, <1>4, <1>5, <1>6, <1>7, <1>8, <1>9, <1>10, <1>11, <1>12, <1>13, <1>14,
     <1>15, <1>16, <1>17 DEF Next, WriterStep, MonitorStep

LEMMA IndexInvInvariant == Spec => []IndexInv
BY IndexInit, IndexStep, PTL DEF Spec

(* The values of all variables are of their types. *)
THEOREM TypeCorrect == Spec => []TypeOK
BY IndexInvInvariant, PTL DEF IndexInv

(* put() and get() stay inside the shared memory until a get() meets        *)
(* exactly what it can take at once, or one character more.                *)
THEOREM InBoundsCorrect == Spec => []InBounds
<1>1. IndexInv => InBounds
  BY DEF IndexInv, Shape, Apart, InBounds
<1> QED BY <1>1, IndexInvInvariant, PTL

-----------------------------------------------------------------------------
(* The mutex.  Who is inside the ring holds the mutex it has opened,       *)
Holds ==
    Guarded =>
        /\ writer \in {"inside", "unlock"} => owner["shared"] = "gateway"
        /\ monitor \in {"inside", "unlock"} => owner[mine["mutex"]] = "monitor"

(* and who has the gateway's ring has its mutex, for the names lead to both *)
(* or a monitor that had made them destroyed the mutex.                    *)
OneMutex ==
    Guarded =>
        /\ key["ring"] = "shared" => key["mutex"] = "shared"
        /\ mine["ring"] = "shared" => mine["mutex"] = "shared"

(* A mutex that was destroyed is out of reach of every monitor.            *)
DestroyedUnnamed ==
    owner["shared"] = "destroyed" =>
        writer # "off" /\ key["mutex"] # "shared" /\ mine["mutex"] # "shared"

(* Before the gateway starts there is only what it will open.  A monitor   *)
(* that leaves has taken the ring's name away; that the name leads to the  *)
(* gateway's ring again is due to a gateway that has started since.        *)
Names ==
    /\ writer = "off" => \A k \in Kinds : key[k] # "other" /\ mine[k] # "other"
    /\ monitor # "off" => mine["mutex"] \in Objects
    /\ monitor = "leaving" /\ key["ring"] = "shared" =>
          mine["mutex"] = "shared" /\ writer # "off"

MutexInv == TypeOK /\ Holds /\ OneMutex /\ DestroyedUnnamed /\ Names

LEMMA MutexInit == Init => MutexInv
BY IndexInit DEF IndexInv, MutexInv, Init, Holds, OneMutex, DestroyedUnnamed, Names, Nothing, Kinds, Objects

LEMMA GoneNames ==
    Gone => monitor' = "off" /\ mine' = [k \in Kinds |-> "none"]
BY DEF Gone, Nothing

LEMMA MutexStep == TypeOK' /\ MutexInv /\ [Next]_vars => MutexInv'
<1> SUFFICES ASSUME TypeOK', MutexInv, [Next]_vars
             PROVE  (Holds /\ OneMutex /\ DestroyedUnnamed /\ Names)'
  BY DEF MutexInv
<1> USE DEF MutexInv, Holds, OneMutex, DestroyedUnnamed, Names, Guarded, Kinds, Objects
<1>0. owner \in [Objects -> {"none", "gateway", "monitor", "destroyed"}]
      /\ key \in [Kinds -> Objects \cup {"none"}] /\ mine \in [Kinds -> Objects \cup {"none"}]
  BY DEF TypeOK
<1>1. CASE GatewayStart
  <2>1. \A k \in Kinds : key'[k] = "shared"
    BY <1>0, <1>1 DEF GatewayStart, AllOpened, Opened
  <2>2. torn' = (torn \/ owner["shared"] # "none") /\ owner' = [owner EXCEPT !["shared"] = "none"]
        /\ writer' = "reset" /\ writer = "off" /\ UNCHANGED <<monitor, mine>>
    BY <1>1 DEF GatewayStart, monitorVars
  <2> QED BY <1>0, <2>1, <2>2
<1>2. CASE GatewayReset
  BY <1>0, <1>2 DEF GatewayReset, monitorVars, history
<1>3. CASE WriterLock
  BY <1>0, <1>3 DEF WriterLock, Loggable, ringVars, monitorVars, history
<1>4. CASE WriterPut
  <2>1. writer = "inside" /\ writer' \in {"unlock", "outside"} /\ UNCHANGED <<owner, key, monitor, mine, torn>>
    BY <1>4 DEF WriterPut, PutText, PutError, monitorVars
  <2> QED BY <1>0, <2>1
<1>5. CASE WriterUnlock
  BY <1>0, <1>5 DEF WriterUnlock, ringVars, monitorVars, history
<1>6. CASE WriterGetValue
  BY <1>0, <1>6 DEF WriterGetValue, shared, ringVars, monitorVars, history
<1>7. CASE WriterSignal
  BY <1>0, <1>7 DEF WriterSignal, ringVars, monitorVars, history
<1>8. CASE MonitorLock
  BY <1>0, <1>8 DEF MonitorLock, ringVars, gatewayVars, history
<1>9. CASE MonitorGet
  BY <1>0, <1>9 DEF MonitorGet, gatewayVars
<1>10. CASE MonitorUnlock
  BY <1>0, <1>10 DEF MonitorUnlock, ringVars, gatewayVars, history
<1>11. CASE MonitorWait
  BY <1>0, <1>11 DEF MonitorWait, ringVars, gatewayVars, history
<1>12. CASE MonitorPrint
  BY <1>0, <1>12 DEF MonitorPrint, shared, ringVars, gatewayVars, history
<1>13. CASE MonitorStart
  <2>1. monitor' = "idle" /\ writer' = writer /\ key' = AllOpened /\ mine' = AllOpened
        /\ owner' = [owner EXCEPT ![Opened("mutex")] = "none"]
        /\ torn' = (torn \/ owner[Opened("mutex")] = "gateway")
    BY <1>13 DEF MonitorStart, gatewayVars
  <2>2. Opened("mutex") \in Objects
        /\ AllOpened["mutex"] = Opened("mutex") /\ AllOpened["ring"] = Opened("ring")
    BY <1>0 DEF Opened, AllOpened
  <2>3. Opened("mutex") = "shared" => owner["shared"] # "destroyed"
    BY <1>0 DEF Opened
  <2>4. Guarded' => Guarded
    BY <1>0, <2>1, <2>2, <2>3
  <2>5. Holds'
    BY <1>0, <2>1, <2>2, <2>3
  <2>6. Guarded /\ Opened("ring") = "shared" => Opened("mutex") = "shared"
    BY <1>0 DEF Opened
  <2>7. OneMutex'
    BY <2>1, <2>2, <2>4, <2>6
  <2>8. DestroyedUnnamed'
    BY <1>0, <2>1, <2>2, <2>3 DEF Opened
  <2>9. Names'
    BY <1>0, <2>1, <2>2 DEF Opened, AllOpened
  <2> QED BY <2>5, <2>7, <2>8, <2>9
<1>14. CASE MonitorSignal
  <2>1. CASE created
    BY <1>0, <1>14, <2>1 DEF MonitorSignal, Running, ringVars, gatewayVars, history
  <2>2. CASE ~created
    BY <1>0, <1>14, <2>2, GoneNames DEF MonitorSignal, Running, ringVars, gatewayVars, history
  <2> QED BY <2>1, <2>2
<1>15. CASE MonitorLeave
  <2>1. /\ monitor = "leaving" /\ monitor' = "off" /\ mine' = [k \in Kinds |-> "none"]
        /\ owner[mine["mutex"]] = "none"
        /\ owner' = [owner EXCEPT ![mine["mutex"]] =
                        IF mine["mutex"] = "shared" /\ writer # "off" THEN "destroyed" ELSE "none"]
        /\ key' = [key EXCEPT !["mutex"] = "none", !["sem"] = "none"]
        /\ UNCHANGED <<writer, torn>>
    BY <1>15, GoneNames DEF MonitorLeave, gatewayVars, history
  <2> QED BY <1>0, <2>1
<1>16. CASE MonitorKill
  BY <1>0, <1>16, GoneNames DEF MonitorKill, shared, ringVars, gatewayVars, history
<1>17. CASE UNCHANGED vars
  BY <1>17 DEF vars, shared, ringVars, gatewayVars, monitorVars, history
<1> QED
  BY <1>1, <1>2, <1>3, <1>4, <1>5, <1>6, <1>7, <1>8, <1>9, <1>10, <1>11, <1>12, <1>13, <1>14,
     <1>15, <1>16, <1>17 DEF Next, WriterStep, MonitorStep

LEMMA MutexInvInvariant == Spec => []MutexInv
<1>1. IndexInv => TypeOK
  BY DEF IndexInv
<1> QED BY <1>1, IndexInvInvariant, MutexInit, MutexStep, PTL DEF Spec

(* The gateway and the monitor are not both inside the gateway's ring,     *)
(* however often monitors are started, signalled and killed, unless the    *)
(* mutex was initialised while it was held, or destroyed.                  *)
THEOREM OneInsideCorrect == Spec => []OneInside
<1>1. MutexInv => OneInside
  BY DEF MutexInv, OneInside, Holds, OneMutex
<1> QED BY <1>1, MutexInvInvariant, PTL

-----------------------------------------------------------------------------
(* The order.  Until a get() meets what it can take or one more, or a put() *)
(* reaches unread text, what was taken and what is unread are all that was  *)
(* logged; the gateway logs nothing before it has reset the ring.          *)
OrderInv ==
    ~brink /\ ~overrun =>
        /\ taken \o Unread = Numbered(sent)
        /\ writer \in {"off", "reset"} => start = 0 /\ end = 0

(* A position is taken around the end of the ring once. *)
LEMMA Around ==
    ASSUME NEW x \in Nat, x < 2 * Length
    PROVE  x % Length = IF x < Length THEN x ELSE x - Length
<1>1. Length \in Nat /\ Length > 0
  BY LengthPositive
<1>2. CASE x < Length
  BY <1>1, <1>2
<1>3. CASE ~(x < Length)
  <2> DEFINE y == x - Length
  <2>1. y \in 0 .. Length - 1 /\ x = Length * 1 + y
    BY <1>1, <1>3
  <2>2. x % Length = y
    BY <1>1, <2>1
  <2> QED BY <1>3, <2>2
<1> QED BY <1>2, <1>3

(* A run of characters is as long as it is said to be. *)
LEMMA TextProperties ==
    ASSUME buffer \in [0 .. Length - 1 -> Int], NEW p \in Nat, NEW n \in Nat
    PROVE  /\ Text(p, n) \in Seq(Int) /\ Len(Text(p, n)) = n
           /\ \A i \in 1 .. n : Text(p, n)[i] = buffer[(p + i - 1) % Length]
           /\ n = 0 => Text(p, n) = << >>
<1>1. Text(p, n) \in Seq(Int)
  BY TextType
<1>2. DOMAIN Text(p, n) = 1 .. n /\ \A i \in 1 .. n : Text(p, n)[i] = buffer[(p + i - 1) % Length]
  BY DEF Text
<1>3. Len(Text(p, n)) = n
  BY <1>1, <1>2, LenProperties
<1>4. n = 0 => Text(p, n) = << >>
  BY <1>1, <1>3, EmptySeq
<1> QED BY <1>1, <1>2, <1>3, <1>4

LEMMA NumberedProperties ==
    ASSUME NEW n \in Nat
    PROVE  /\ Numbered(n) \in Seq(Int) /\ Len(Numbered(n)) = n
           /\ \A i \in 1 .. n : Numbered(n)[i] = i
           /\ n = 0 => Numbered(n) = << >>
<1>1. Numbered(n) \in [1 .. n -> Int] /\ DOMAIN Numbered(n) = 1 .. n
  BY DEF Numbered
<1>2. Numbered(n) \in Seq(Int)
  BY <1>1
<1>3. Len(Numbered(n)) = n
  BY <1>1, <1>2, LenProperties
<1>4. n = 0 => Numbered(n) = << >>
  BY <1>2, <1>3, EmptySeq
<1> QED BY <1>2, <1>3, <1>4 DEF Numbered

(* What get() leaves is where what it returns ends, be it beyond the end of *)
(* the ring: the two are what was unread.                                  *)
LEMMA TextSplit ==
    ASSUME buffer \in [0 .. Length - 1 -> Int], start \in Nat, start <= Length,
           Backlog \in Nat, Backlog <= Length, ReadMax <= Backlog, NEW q \in Nat,
           q = start + ReadMax \/ q = start + ReadMax - Length
    PROVE  Text(start, ReadMax) \o Text(q, Backlog - ReadMax) = Text(start, Backlog)
<1>1. PICK p, a, b, c : p = start /\ a = ReadMax /\ b = Backlog - ReadMax /\ c = Backlog
  OBVIOUS
<1>2. /\ p \in Nat /\ a \in Nat /\ b \in Nat /\ c \in Nat /\ c = a + b /\ c <= Length /\ p <= Length
      /\ q = p + a \/ q = p + a - Length
  BY <1>1, Sizes2
<1> DEFINE u == Text(p, a)
<1> DEFINE v == Text(q, b)
<1> DEFINE w == Text(p, c)
<1>3. /\ u \in Seq(Int) /\ Len(u) = a /\ v \in Seq(Int) /\ Len(v) = b
      /\ w \in Seq(Int) /\ Len(w) = a + b
      /\ \A i \in 1 .. a : u[i] = buffer[(p + i - 1) % Length]
      /\ \A i \in 1 .. b : v[i] = buffer[(q + i - 1) % Length]
      /\ \A i \in 1 .. (a + b) : w[i] = buffer[(p + i - 1) % Length]
  BY <1>2, TextProperties
<1> HIDE DEF u, v, w
<1>4. /\ u \o v \in Seq(Int) /\ Len(u \o v) = a + b
      /\ \A i \in 1 .. (a + b) : (u \o v)[i] = IF i <= a THEN u[i] ELSE v[i - a]
  BY <1>3, <1>2, ConcatProperties
<1>5. ASSUME NEW i \in 1 .. (a + b)
      PROVE  (u \o v)[i] = w[i]
  <2>1. CASE i <= a
    <3>1. i \in 1 .. a
      BY <1>2, <2>1
    <3>2. u[i] = buffer[(p + i - 1) % Length] /\ w[i] = buffer[(p + i - 1) % Length]
      BY <1>3, <1>2, <3>1
    <3>3. (u \o v)[i] = u[i]
      BY <1>4, <2>1
    <3> QED BY <3>2, <3>3
  <2>2. CASE ~(i <= a)
    <3>1. i - a \in 1 .. b
      BY <1>2, <2>2
    <3>2. (q + (i - a) - 1) % Length = (p + i - 1) % Length
      <4>1. Length \in Nat /\ Length > 0
        BY LengthPositive
      <4>2. /\ p + i - 1 \in Nat /\ p + i - 1 < 2 * Length
            /\ q + (i - a) - 1 \in Nat /\ q + (i - a) - 1 < 2 * Length
            /\ \/ q + (i - a) - 1 = p + i - 1
               \/ q + (i - a) - 1 = p + i - 1 - Length
        BY <1>2, <2>2, <4>1
      <4>3. CASE q + (i - a) - 1 = p + i - 1
        BY <4>3
      <4>4. CASE q + (i - a) - 1 = p + i - 1 - Length
        <5>1. PICK x, y : x = p + i - 1 /\ y = q + (i - a) - 1
          OBVIOUS
        <5>2. x \in Nat /\ x < 2 * Length /\ y \in Nat /\ y < 2 * Length /\ y = x - Length
          <6>1. x \in Nat /\ x < 2 * Length
            BY <4>2, <5>1
          <6>2. y \in Nat /\ y < 2 * Length
            BY <4>2, <5>1
          <6>3. y = x - Length
            BY <1>2, <4>1, <4>4, <5>1, <6>1, <6>2
          <6> QED BY <6>1, <6>2, <6>3
        <5>3. ~(x < Length) /\ y < Length
          BY <4>1, <5>2
        <5>4. x % Length = x - Length /\ y % Length = y
          BY <5>2, <5>3, Around
        <5> QED BY <5>1, <5>2, <5>4
      <4> QED BY <4>2, <4>3, <4>4
    <3>3. v[i - a] = buffer[(q + (i - a) - 1) % Length]
      BY <1>3, <1>2, <3>1
    <3> QED BY <1>3, <1>4, <2>2, <3>2, <3>3
  <2> QED BY <2>1, <2>2
<1>6. u \o v = w
  BY <1>3, <1>2, <1>4, <1>5, SeqEqual
<1> QED BY <1>1, <1>6 DEF u, v, w

(* get(): what is returned and what is left are what was unread.           *)
LEMMA GetOrder ==
    ASSUME buffer \in [0 .. Length - 1 -> Int], start \in Nat, end \in Nat,
           start <= Length, end < Length, start = end => end = 0,
           Backlog # ReadMax, Backlog # ReadMax + 1,
           start' = GetStart, UNCHANGED <<end, buffer>>
    PROVE  Text(start, GetLen) \o Unread' = Unread /\ GetLen \in Nat /\ Unread' \in Seq(Int)
<1>1. ReadMax \in Nat /\ ReadMax >= 2 /\ Length \in Nat /\ Length > 0
  BY Sizes2
<1>2. Backlog \in Nat /\ Backlog <= Length
  BY <1>1 DEF Backlog
<1>3. \A p \in Nat, n \in Nat : Text(p, n)' = Text(p, n)
  BY DEF Text
<1>4. \A p \in Nat : Text(p, 0) = << >>
  BY TextProperties
<1>5. CASE GetLen = 0 /\ start <= end
  <2>1. start' = start
    BY <1>1, <1>2, <1>5 DEF GetLen, GetStart, Backlog, Empty
  <2>2. Unread' = Unread
    BY <2>1 DEF Unread, Empty, Text, Backlog
  <2>3. Unread \in Seq(Int)
    BY <1>1, <1>2, TextProperties, EmptyType DEF Unread, Backlog
  <2>4. << >> \o Unread = Unread
    BY <2>3, ConcatEmptySeq
  <2> QED BY <1>4, <1>5, <2>2, <2>3, <2>4
<1>6. CASE GetLen = Backlog /\ (GetLen # 0 \/ end < start)
  <2>1. Backlog \in Nat /\ ~Empty
    BY <1>1, <1>2, <1>6 DEF GetLen, Backlog, Empty
  <2>2. start' \in Nat /\ (end' - start' = 1 \/ (start' = 0 /\ end' = 0))
    BY <1>1, <1>6, <2>1 DEF GetLen, GetStart, Backlog, Empty
  <2>3. Unread' = << >>
    <3>1. CASE end' - start' = 1
      BY <3>1 DEF Unread, Empty
    <3>2. CASE start' = 0 /\ end' = 0
      <4>1. Unread' = Text(0, 0)'
        BY <3>2 DEF Unread, Empty, Backlog
      <4> QED BY <1>3, <1>4, <4>1
    <3> QED BY <2>2, <3>1, <3>2
  <2>4. Text(start, Backlog) \in Seq(Int) /\ Unread = Text(start, Backlog)
    BY <2>1, TextProperties DEF Unread
  <2>5. Text(start, Backlog) \o << >> = Text(start, Backlog)
    BY <2>4, ConcatEmptySeq
  <2> QED BY <1>6, <2>1, <2>3, <2>4, <2>5, EmptyType
<1>7. CASE GetLen \notin {0, Backlog}
  <2>1. GetLen = ReadMax /\ Backlog \in Nat /\ ReadMax + 1 < Backlog
    BY <1>1, <1>2, <1>7 DEF GetLen, Backlog, Empty
  <2>2. /\ start' = start + ReadMax \/ start' = start + ReadMax - Length
        /\ start' \in Nat /\ Backlog' = Backlog - ReadMax
    BY <1>1, <1>2, <2>1 DEF GetLen, GetStart, Backlog, Empty
  <2>3. ~Empty /\ ~Empty'
    BY <1>1, <2>1, <2>2 DEF Empty, Backlog
  <2>4. /\ Unread = Text(start, Backlog)
        /\ Unread' = Text(start', Backlog - ReadMax)
    BY <1>3, <2>1, <2>2, <2>3 DEF Unread, Text
  <2>5. /\ Backlog - ReadMax \in Nat /\ ReadMax + (Backlog - ReadMax) = Backlog
        /\ Backlog <= Length
    BY <1>1, <1>2, <2>1
  <2>6. Text(start, ReadMax) \o Text(start', Backlog - ReadMax) = Text(start, Backlog)
    <3>1. PICK q : q = start'
      OBVIOUS
    <3> QED BY <1>1, <2>1, <2>2, <2>5, <3>1, TextSplit
  <2>7. Unread' \in Seq(Int)
    BY <2>2, <2>4, <2>5, TextProperties
  <2> QED BY <1>1, <2>1, <2>4, <2>6, <2>7
<1>8. GetLen = 0 /\ end < start => GetLen = Backlog
  BY <1>1 DEF GetLen, Backlog
<1> QED BY <1>5, <1>6, <1>7, <1>8

(* A sequence v is u followed by n characters, numbered from s + 1.        *)
Adds(u, v, s, n) ==
    /\ u \in Seq(Int) /\ v \in Seq(Int) /\ Len(v) = Len(u) + n
    /\ \A i \in 1 .. Len(u) : v[i] = u[i]
    /\ \A i \in 1 .. n : v[Len(u) + i] = s + i

(* put() of a text that reaches no unread text: it follows what is unread. *)
LEMMA PutOrder ==
    ASSUME buffer \in [0 .. Length - 1 -> Int], start \in Nat, end \in Nat, sent \in Nat,
           start <= Length, end < Length, start = end => end = 0,
           NEW n \in Sizes, ~TooLong(n), ~Overruns(n),
           start' = PutStart(n), end' = PutEnd(n), buffer' = Written(n)
    PROVE  Adds(Unread, Unread', sent, n)
<1>1. n \in Nat /\ n >= 2 /\ n < Length /\ Length \in Nat
  BY Sizes2
<1>2. start <= end
  BY DEF Overruns
<1> DEFINE first == IF Empty THEN end ELSE start
<1> DEFINE len == end - first
<1>3. PICK f, l : f = first /\ l = len
  OBVIOUS
<1>4. /\ f \in Nat /\ l \in Nat /\ f + l = end
      /\ Empty => l = 0
      /\ ~Empty => l = Backlog /\ f = start
      /\ start' = f /\ Backlog' = l + n /\ ~Empty'
      /\ l + n <= Length
  BY <1>1, <1>2, <1>3 DEF TooLong, Overruns, PutStart, PutEnd, Room, Empty, Backlog
<1>5. Unread \in Seq(Int) /\ Len(Unread) = l /\ \A i \in 1 .. l : Unread[i] = buffer[(f + i - 1) % Length]
  <2>1. CASE Empty
    BY <1>4, <2>1, EmptyType DEF Unread
  <2>2. CASE ~Empty
    <3>1. Unread = Text(f, l)
      BY <1>4, <2>2 DEF Unread
    <3> QED BY <1>4, <3>1, TextProperties
  <2> QED BY <2>1, <2>2
<1>6. PICK b, t : b = buffer' /\ t = Unread'
  OBVIOUS
<1>7. b \in [0 .. Length - 1 -> Int]
  BY <1>1, <1>6, WrittenType
<1>8. /\ t \in Seq(Int) /\ Len(t) = l + n
      /\ \A i \in 1 .. (l + n) : t[i] = b[(f + i - 1) % Length]
  <2>1. t = [i \in 1 .. (l + n) |-> b[(f + i - 1) % Length]]
    BY <1>4, <1>6 DEF Unread, Text
  <2>2. ASSUME NEW i \in 1 .. (l + n) PROVE b[(f + i - 1) % Length] \in Int
    <3>1. f + i - 1 \in Nat
      BY <1>4
    <3>2. (f + i - 1) % Length \in 0 .. Length - 1
      BY <3>1, LengthPositive
    <3> QED BY <1>7, <3>2
  <2>3. l + n \in Nat
    BY <1>1, <1>4
  <2>4. t \in [1 .. (l + n) -> Int] /\ DOMAIN t = 1 .. (l + n)
    BY <2>1, <2>2
  <2>5. t \in Seq(Int)
    BY <2>3, <2>4
  <2>6. Len(t) = l + n
    BY <2>3, <2>4, <2>5, LenProperties
  <2> QED BY <2>1, <2>5, <2>6
<1>9. ASSUME NEW i \in 1 .. (l + n)
      PROVE  b[(f + i - 1) % Length] =
                IF i <= l THEN buffer[(f + i - 1) % Length] ELSE sent + (i - l)
  <2>1. PICK x : x = f + i - 1
    OBVIOUS
  <2>2. PICK y : y = x % Length
    OBVIOUS
  <2>3. /\ x \in Nat /\ x < 2 * Length /\ x = end + (i - l) - 1
        /\ y = IF x < Length THEN x ELSE x - Length
        /\ y \in 0 .. Length - 1
    <3>1. x \in Nat /\ x < 2 * Length /\ x = end + (i - l) - 1
      BY <1>1, <1>4, <2>1
    <3>2. y = IF x < Length THEN x ELSE x - Length
      BY <2>2, <3>1, Around
    <3> QED BY <1>1, <3>1, <3>2
  <2>4. PICK z : z = y - end + Length
    OBVIOUS
  <2>5. /\ z \in Nat /\ z < 2 * Length
        /\ z % Length = IF z < Length THEN z ELSE z - Length
    <3>1. y \in 0 .. Length - 1
      BY <2>3
    <3>2. z \in Nat /\ z < 2 * Length
      BY <1>1, <2>4, <3>1
    <3> QED BY <3>2, Around
  <2>6. b[y] = IF z % Length < n THEN sent + 1 + (z % Length) ELSE buffer[y]
    <3>1. y \in 0 .. Length - 1 /\ b = Written(n)
      BY <1>6, <2>3
    <3>2. b[y] = LET k == (y - end + Length) % Length IN IF k < n THEN sent + 1 + k ELSE buffer[y]
      BY <3>1 DEF Written
    <3> QED BY <2>4, <3>2
  <2>7. CASE i <= l
    <3>1. x < end /\ y = x /\ z < Length /\ z >= n
      <4>1. x < end /\ y = x /\ z < Length
        BY <1>1, <1>4, <2>3, <2>4, <2>7
      <4>2. n < Room
        BY <1>1, <1>2, <1>3, <1>4, <2>7 DEF Overruns, Empty, TooLong, Room
      <4>3. z >= n
        BY <1>1, <2>3, <2>4, <4>1, <4>2 DEF Room
      <4> QED BY <4>1, <4>3
    <3>2. z % Length = z
      BY <2>5, <3>1
    <3> QED BY <1>1, <2>1, <2>2, <2>5, <2>6, <2>7, <3>1, <3>2
  <2>8. CASE ~(i <= l)
    <3>1. z % Length = i - l - 1 /\ i - l \in 1 .. n
      BY <1>1, <1>4, <2>3, <2>4, <2>5, <2>8
    <3>2. b[y] = sent + 1 + (i - l - 1)
      <4>1. l \in Nat
        BY <1>4
      <4>2. PICK d : d = i - l - 1
        OBVIOUS
      <4>3. z % Length = d /\ d < n
        BY <1>1, <3>1, <4>1, <4>2
      <4> QED BY <2>6, <4>2, <4>3
    <3> QED BY <1>1, <1>4, <2>1, <2>2, <2>8, <3>2
  <2> QED BY <2>7, <2>8
<1>10. ASSUME NEW i \in 1 .. l PROVE t[i] = Unread[i]
  <2>1. i \in 1 .. (l + n) /\ i <= l
    BY <1>1, <1>4
  <2>2. t[i] = buffer[(f + i - 1) % Length]
    BY <1>8, <1>9, <2>1
  <2> QED BY <1>5, <2>2
<1>11. ASSUME NEW i \in 1 .. n PROVE t[l + i] = sent + i
  <2>1. PICK j : j = l + i
    OBVIOUS
  <2>2. j \in 1 .. (l + n) /\ ~(j <= l) /\ j - l = i
    BY <1>1, <1>4, <2>1
  <2>3. t[j] = sent + (j - l)
    BY <1>8, <1>9, <2>2
  <2> QED BY <2>1, <2>2, <2>3
<1> QED BY <1>5, <1>6, <1>8, <1>10, <1>11 DEF Adds

(* What was taken, with what a put() adds, is what was logged.             *)
LEMMA PutAdds ==
    ASSUME NEW T, NEW u, NEW v, NEW s, NEW n, NEW m, T \in Seq(Int), s \in Nat, n \in Nat,
           m = s + n, T \o u = Numbered(s), Adds(u, v, s, n)
    PROVE  T \o v = Numbered(m)
<1>0. u \in Seq(Int) /\ v \in Seq(Int)
  BY DEF Adds
<1> PICK a, b : a = Len(T) /\ b = Len(u)
  OBVIOUS
<1>1. a \in Nat /\ b \in Nat /\ Len(v) = b + n
  BY <1>0, LenProperties DEF Adds
<1>2. /\ T \o u \in Seq(Int) /\ Len(T \o u) = a + b
      /\ \A i \in 1 .. (a + b) : (T \o u)[i] = IF i <= a THEN T[i] ELSE u[i - a]
  BY <1>0, ConcatProperties
<1>3. /\ T \o v \in Seq(Int) /\ Len(T \o v) = a + (b + n)
      /\ \A i \in 1 .. (a + (b + n)) : (T \o v)[i] = IF i <= a THEN T[i] ELSE v[i - a]
  <2>1. /\ T \o v \in Seq(Int) /\ Len(T \o v) = Len(T) + Len(v)
        /\ \A i \in 1 .. Len(T) + Len(v) : (T \o v)[i] = IF i <= Len(T) THEN T[i] ELSE v[i - Len(T)]
    BY <1>0, ConcatProperties
  <2> QED BY <1>1, <2>1
<1>4. /\ Numbered(s) \in Seq(Int) /\ Len(Numbered(s)) = s
      /\ \A i \in 1 .. s : Numbered(s)[i] = i
  BY NumberedProperties
<1>5. a + b = s
  BY <1>2, <1>4
<1>6. PICK w, z : w = Numbered(m) /\ z = T \o v
  OBVIOUS
<1>7. w \in Seq(Int) /\ Len(w) = s + n /\ \A i \in 1 .. (s + n) : w[i] = i
  <2>1. m \in Nat
    OBVIOUS
  <2> QED BY <1>6, <2>1, NumberedProperties
<1>8. z \in Seq(Int) /\ Len(z) = s + n
  <2>1. a + (b + n) = s + n
    BY <1>1, <1>5
  <2> QED BY <1>3, <1>6, <2>1
<1>9. ASSUME NEW i \in 1 .. (s + n) PROVE z[i] = i
  <2>0. i \in 1 .. (a + (b + n)) /\ i \in Int /\ z[i] = IF i <= a THEN T[i] ELSE v[i - a]
    BY <1>1, <1>3, <1>5, <1>6
  <2>1. CASE i <= a
    <3>1. i \in 1 .. s /\ i \in 1 .. (a + b)
      BY <1>1, <1>5, <2>0, <2>1
    <3> QED BY <1>2, <1>4, <2>0, <2>1, <3>1
  <2>2. CASE a < i /\ i <= s
    <3>1. i \in 1 .. s /\ i \in 1 .. (a + b) /\ ~(i <= a) /\ i - a \in 1 .. b
      BY <1>1, <1>5, <2>0, <2>2
    <3>2. (T \o u)[i] = u[i - a] /\ Numbered(s)[i] = i /\ v[i - a] = u[i - a]
      BY <1>2, <1>4, <3>1 DEF Adds
    <3> QED BY <2>0, <3>1, <3>2
  <2>3. CASE s < i
    <3>1. PICK k : k = i - s
      OBVIOUS
    <3>2. k \in 1 .. n /\ i - a = b + k /\ ~(i <= a) /\ s + k = i
      <4>1. i \in Int /\ i <= s + n
        BY <2>0
      <4>2. k \in 1 .. n /\ s + k = i
        BY <2>3, <3>1, <4>1
      <4>3. PICK d : d = i - a
        OBVIOUS
      <4>4. a \in Int /\ b \in Nat /\ k \in Int /\ k > 0
        BY <1>1, <4>2
      <4>5. a + b + k = i
        BY <1>5, <4>2
      <4>6. d = b + k /\ ~(i <= a)
        BY <4>1, <4>3, <4>4, <4>5
      <4> QED BY <4>2, <4>3, <4>6
    <3>3. v[b + k] = s + k
      BY <3>2 DEF Adds
    <3> QED BY <2>0, <3>2, <3>3
  <2> QED BY <1>1, <1>5, <2>0, <2>1, <2>2, <2>3
<1>10. z = w
  BY <1>7, <1>8, <1>9, SeqEqual
<1> QED BY <1>6, <1>10

(* A step that leaves the ring alone. *)
LEMMA OrderSame ==
    ASSUME OrderInv, UNCHANGED <<ringVars, sent, taken, brink, overrun>>,
           writer' \in {"off", "reset"} => writer \in {"off", "reset"}
    PROVE  OrderInv'
<1>1. UNCHANGED <<Unread, Numbered(sent)>>
  BY DEF ringVars, Unread, Empty, Backlog, Text, Numbered
<1> QED BY <1>1 DEF OrderInv, ringVars

LEMMA OrderInit == Init => OrderInv
<1> SUFFICES ASSUME Init PROVE OrderInv
  OBVIOUS
<1>1. start = 0 /\ end = 0 /\ sent = 0 /\ taken = << >> /\ buffer \in [0 .. Length - 1 -> Int]
  BY DEF Init
<1>2. Unread = << >>
  <2>1. ~Empty /\ Backlog = 0
    BY <1>1 DEF Empty, Backlog
  <2> QED BY <1>1, <2>1, TextProperties DEF Unread
<1>3. Numbered(sent) = << >>
  BY <1>1, NumberedProperties
<1>4. << >> \o << >> = << >>
  BY EmptyType, ConcatEmptySeq
<1> QED BY <1>1, <1>2, <1>3, <1>4 DEF OrderInv

LEMMA OrderStep == IndexInv /\ OrderInv /\ [Next]_vars => OrderInv'
<1> SUFFICES ASSUME IndexInv, OrderInv, [Next]_vars PROVE OrderInv'
  OBVIOUS
<1>0. /\ start \in Nat /\ end \in Nat /\ sent \in Nat /\ taken \in Seq(Int)
      /\ buffer \in [0 .. Length - 1 -> Int]
      /\ ~brink => start <= Length /\ end < Length /\ (start = end => end = 0)
  BY DEF IndexInv, TypeOK, Shape, Apart
<1>1. CASE GatewayReset
  <2>1. UNCHANGED <<buffer, sent, taken, brink, overrun>> /\ start' = 0 /\ end' = 0
        /\ writer = "reset" /\ writer' = "idle"
    BY <1>1 DEF GatewayReset, history
  <2>2. ~brink /\ ~overrun => start = 0 /\ end = 0
    BY <2>1 DEF OrderInv
  <2>3. start = 0 /\ end = 0 => UNCHANGED <<Unread, Numbered(sent)>>
    BY <2>1 DEF Unread, Empty, Backlog, Text, Numbered
  <2> QED BY <2>1, <2>2, <2>3 DEF OrderInv
<1>2. CASE WriterPut
  <2>1. PICK n \in Sizes : PutText(n) \/ PutError(n)
    BY <1>2 DEF WriterPut
  <2>2. n \in Nat /\ n >= 2 /\ n < Length /\ Length \in Nat
    BY Sizes2
  <2>3. SUFFICES ASSUME ~brink', ~overrun' PROVE OrderInv'
    BY DEF OrderInv
  <2>4. ~brink /\ UNCHANGED taken
    BY <1>2, <2>3 DEF WriterPut
  <2>5. ~PutError(n)
    BY <1>0, <2>2, <2>4 DEF PutError, TooLong, Room
  <2>6. /\ ~TooLong(n) /\ start' = PutStart(n) /\ end' = PutEnd(n) /\ buffer' = Written(n)
        /\ sent' = sent + n /\ writer' = "unlock"
    BY <2>1, <2>5 DEF PutText
  <2>7. ~overrun /\ ~Overruns(n)
    BY <2>1, <2>3, <2>5 DEF PutText
  <2>8. Adds(Unread, Unread', sent, n)
    BY <1>0, <2>4, <2>6, <2>7, PutOrder
  <2>9. PICK T, u, v, s, m : T = taken /\ u = Unread /\ v = Unread' /\ s = sent /\ m = s + n
    OBVIOUS
  <2>10. T \o u = Numbered(s)
    BY <2>4, <2>7, <2>9 DEF OrderInv
  <2>11. T \o v = Numbered(m)
    <3>1. T \in Seq(Int) /\ s \in Nat /\ Adds(u, v, s, n)
      BY <1>0, <2>8, <2>9
    <3> QED BY <2>2, <2>9, <2>10, <3>1, PutAdds
  <2>12. taken' \o Unread' = Numbered(sent)'
    BY <2>4, <2>6, <2>9, <2>11 DEF Numbered
  <2> QED BY <2>6, <2>12 DEF OrderInv
<1>3. CASE MonitorGet
  <2>1. UNCHANGED <<end, buffer, sent, writer, overrun>>
    BY <1>3 DEF MonitorGet, gatewayVars
  <2>2. CASE mine["ring"] # "shared"
    BY <1>3, <2>1, <2>2, OrderSame DEF MonitorGet, ringVars
  <2>3. CASE mine["ring"] = "shared"
    <3>1. /\ taken' = taken \o Text(start, GetLen) /\ start' = GetStart
          /\ brink' = (brink \/ Backlog \in {ReadMax, ReadMax + 1})
      BY <1>3, <2>3 DEF MonitorGet
    <3>2. SUFFICES ASSUME ~brink', ~overrun' PROVE OrderInv'
      BY DEF OrderInv
    <3>3. ~brink /\ ~overrun /\ Backlog # ReadMax /\ Backlog # ReadMax + 1
      <4>1. ~(brink \/ Backlog \in {ReadMax, ReadMax + 1})
        BY <3>1, <3>2
      <4> QED BY <2>1, <3>2, <4>1
    <3>4. Text(start, GetLen) \o Unread' = Unread /\ GetLen \in Nat /\ Unread' \in Seq(Int)
      BY <1>0, <2>1, <3>1, <3>3, GetOrder
    <3>5. taken \o Unread = Numbered(sent)
      BY <3>3 DEF OrderInv
    <3>6. PICK T, u, v : T = taken /\ u = Text(start, GetLen) /\ v = Unread'
      OBVIOUS
    <3>7. u \in Seq(Int)
      BY <1>0, <3>4, <3>6, TextProperties
    <3>8. (T \o u) \o v = T \o (u \o v)
      <4>1. T \in Seq(Int) /\ v \in Seq(Int)
        BY <1>0, <3>4, <3>6
      <4> QED BY <3>7, <4>1, ConcatAssociative
    <3>9. taken' \o Unread' = Numbered(sent)
      BY <3>1, <3>4, <3>5, <3>6, <3>8
    <3>10. Numbered(sent)' = Numbered(sent)
      BY <2>1 DEF Numbered
    <3>11. writer' \in {"off", "reset"} => start' = 0 /\ end' = 0
      BY <2>1, <3>1, <3>3 DEF OrderInv, GetStart
    <3> QED BY <3>9, <3>10, <3>11 DEF OrderInv
  <2> QED BY <2>2, <2>3
<1>4. CASE GatewayStart
  BY <1>4, OrderSame DEF GatewayStart
<1>5. CASE WriterLock \/ WriterUnlock \/ WriterGetValue \/ WriterSignal
  BY <1>5, OrderSame DEF WriterLock, WriterUnlock, WriterGetValue, WriterSignal, shared, history
<1>6. CASE MonitorStart \/ MonitorSignal \/ MonitorLeave \/ MonitorKill
  BY <1>6, OrderSame DEF MonitorStart, MonitorSignal, MonitorLeave, MonitorKill, shared,
                         gatewayVars, history
<1>7. CASE MonitorLock \/ MonitorUnlock \/ MonitorWait \/ MonitorPrint
  BY <1>7, OrderSame DEF MonitorLock, MonitorUnlock, MonitorWait, MonitorPrint, shared,
                         gatewayVars, history
<1>8. CASE UNCHANGED vars
  BY <1>8, OrderSame DEF vars, shared, gatewayVars, history
<1> QED BY <1>1, <1>2, <1>3, <1>4, <1>5, <1>6, <1>7, <1>8 DEF Next, WriterStep, MonitorStep

(* What was logged is what was taken followed by what is unread, in order, *)
(* for rings and reads of any size and texts of any length, until a get()  *)
(* meets what it can take or one character more, or a put() moves the      *)
(* start over unread text.                                                 *)
THEOREM InOrderCorrect == Spec => []InOrder
<1>1. OrderInv => InOrder
  BY DEF OrderInv, InOrder
<1>2. Spec => []OrderInv
  BY IndexInvInvariant, OrderInit, OrderStep, PTL DEF Spec
<1> QED BY <1>1, <1>2, PTL
=============================================================================
