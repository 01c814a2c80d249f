--------------------------- MODULE EventQueProofs ---------------------------
(***************************************************************************)
(* What holds of an EventQue for any number of posting threads and posts:  *)
(* IndInv is inductive; wait() never pops an empty queue; the semaphore    *)
(* stays within the number of posters; and the queue implements FifoQueue. *)
(***************************************************************************)
EXTENDS EventQue, FiniteSetTheorems, TLAPS

(* The threads in a given part of post() form a finite set, and each       *)
(* thread that enters or leaves it changes its cardinality by one.         *)
LEMMA CountChange ==
    ASSUME NEW S, IsFiniteSet(S), NEW p
    PROVE  /\ Cardinality(S) \in Nat
           /\ p \notin S => Cardinality(S \cup {p}) = Cardinality(S) + 1
           /\ p \in S => /\ Cardinality(S \ {p}) = Cardinality(S) - 1
                         /\ Cardinality(S) > 0
<1>1. Cardinality(S) \in Nat
  BY FS_CardinalityType
<1>2. p \notin S => Cardinality(S \cup {p}) = Cardinality(S) + 1
  BY FS_AddElement
<1>3. p \in S => Cardinality(S \ {p}) = Cardinality(S) - 1
  BY FS_RemoveElement
<1>4. p \in S => Cardinality(S) # 0
  BY FS_EmptySet
<1> QED
  BY <1>1, <1>2, <1>3, <1>4

LEMMA PartsFinite ==
    /\ IsFiniteSet(Signalling) /\ IsFiniteSet(AboutToSignal)
    /\ Cardinality(Signalling) \in Nat
    /\ Cardinality(AboutToSignal) \in Nat
    /\ Cardinality(Posters) \in Nat
<1>1. Signalling \subseteq Posters /\ AboutToSignal \subseteq Posters
  BY DEF Signalling, AboutToSignal
<1> QED
  BY <1>1, PostersFinite, FS_Subset, FS_CardinalityType

(* Every step keeps the types. *)
LEMMA TypeStep == TypeOK /\ WakeupsPaid /\ [Next]_vars => TypeOK'
<1> SUFFICES ASSUME TypeOK, WakeupsPaid, [Next]_vars PROVE TypeOK'
  OBVIOUS
<1> USE DEF TypeOK, Event
<1>1. ASSUME NEW p \in Posters, Push(p) PROVE TypeOK'
  <2>1. posted[p] + 1 \in 1..MaxPosts
    BY <1>1, MaxPostsNat DEF Push
  <2>2. <<p, posted[p] + 1>> \in Event
    BY <2>1
  <2> QED
    BY <1>1, <2>1, <2>2 DEF Push
<1>2. ASSUME NEW p \in Posters, GetValue(p) PROVE TypeOK'
  BY <1>2 DEF GetValue
<1>3. ASSUME NEW p \in Posters, Signal(p) PROVE TypeOK'
  BY <1>3 DEF Signal
<1>4. CASE Acquire
  BY <1>4 DEF Acquire
<1>5. CASE TimeUp
  BY <1>5 DEF TimeUp
<1>6. CASE Pop
  <2>1. Cardinality(Signalling) \in Nat
    BY PartsFinite
  <2>2. que # << >>
    BY <1>6, <2>1 DEF Pop, WakeupsPaid
  <2> QED
    BY <1>6, <2>2 DEF Pop
<1>7. CASE ReturnTimeout
  BY <1>7 DEF ReturnTimeout
<1>8. CASE UNCHANGED vars
  BY <1>8 DEF vars
<1> QED
  BY <1>1, <1>2, <1>3, <1>4, <1>5, <1>6, <1>7, <1>8
  DEF Next, PostStep, ConsumerStep

(* A queue is consumed in one way. *)
LEMMA TimedStays == [Next]_vars => timed' = timed
  BY DEF Next, PostStep, ConsumerStep, Push, GetValue, Signal,
         Acquire, TimeUp, Pop, ReturnTimeout, vars

(* Every step keeps each wake-up paid by an event. *)
LEMMA PaidStep == TypeOK /\ WakeupsPaid /\ [Next]_vars => WakeupsPaid'
<1> SUFFICES ASSUME TypeOK, WakeupsPaid, [Next]_vars, ~timed
             PROVE  WakeupsPaid'
  BY TimedStays DEF WakeupsPaid
<1> DEFINE n == Cardinality(Signalling)
           w == IF consumer = "popping" THEN 1 ELSE 0
<1>0. n \in Nat /\ IsFiniteSet(Signalling) /\ Len(que) \in Nat /\ sem \in Nat
  BY PartsFinite DEF TypeOK
<1>1. ASSUME NEW p \in Posters, Push(p) PROVE WakeupsPaid'
  <2>1. Signalling' = Signalling \cup {p} /\ p \notin Signalling
    BY <1>1 DEF Push, Signalling, TypeOK
  <2>2. n' = n + 1
    BY <2>1, <1>0, CountChange
  <2>3. Len(que') = Len(que) + 1 /\ sem' = sem /\ w' = w
    BY <1>1 DEF Push, TypeOK
  <2> QED
    BY <2>2, <2>3, <1>0 DEF WakeupsPaid
<1>2. ASSUME NEW p \in Posters, GetValue(p) PROVE WakeupsPaid'
  <2>1. que' = que /\ sem' = sem /\ w' = w
    BY <1>2 DEF GetValue
  <2>2. n' <= n
    <3>1. CASE sem = 0
      <4>1. Signalling' = Signalling
        BY <1>2, <3>1 DEF GetValue, Signalling, TypeOK
      <4> QED  BY <4>1, <1>0
    <3>2. CASE sem # 0
      <4>1. Signalling' = Signalling \ {p} /\ p \in Signalling
        BY <1>2, <3>2 DEF GetValue, Signalling, TypeOK
      <4> QED  BY <4>1, <1>0, CountChange
    <3> QED  BY <3>1, <3>2
  <2>3. n' \in Nat
    <3>1. Signalling' \subseteq Signalling
      BY <1>2 DEF GetValue, Signalling, TypeOK
    <3> QED  BY <3>1, <1>0, FS_Subset, FS_CardinalityType
  <2> QED
    BY <2>1, <2>2, <2>3, <1>0 DEF WakeupsPaid
<1>3. ASSUME NEW p \in Posters, Signal(p) PROVE WakeupsPaid'
  <2>1. Signalling' = Signalling \ {p} /\ p \in Signalling
    BY <1>3 DEF Signal, Signalling, TypeOK
  <2>2. n' = n - 1 /\ n > 0
    BY <2>1, <1>0, CountChange
  <2>3. que' = que /\ sem' = sem + 1 /\ w' = w
    BY <1>3 DEF Signal
  <2> QED
    BY <2>2, <2>3, <1>0 DEF WakeupsPaid
<1>4. CASE Acquire
  <2>1. n' = n /\ que' = que /\ sem' = sem - 1 /\ w = 0 /\ w' = 1
    BY <1>4 DEF Acquire, Signalling
  <2> QED
    BY <2>1, <1>0 DEF WakeupsPaid
<1>5. CASE TimeUp
  BY <1>5 DEF TimeUp
<1>6. CASE Pop
  <2>1. n' = n /\ sem' = sem /\ w = 1 /\ w' = 0
    BY <1>6 DEF Pop, Signalling
  <2>2. que # << >>
    BY <1>0, <2>1 DEF WakeupsPaid
  <2>3. Len(que') = Len(que) - 1
    BY <1>6, <2>2 DEF Pop, TypeOK
  <2> QED
    BY <2>1, <2>3, <1>0 DEF WakeupsPaid
<1>7. CASE ReturnTimeout
  BY <1>7 DEF ReturnTimeout
<1>8. CASE UNCHANGED vars
  BY <1>8 DEF vars, WakeupsPaid, Signalling
<1> QED
  BY <1>1, <1>2, <1>3, <1>4, <1>5, <1>6, <1>7, <1>8
  DEF Next, PostStep, ConsumerStep

(* Every step keeps the signals within the number of posters. *)
LEMMA SignalsStep ==
    TypeOK /\ SignalsWithinPosters /\ [Next]_vars => SignalsWithinPosters'
<1> SUFFICES ASSUME TypeOK, SignalsWithinPosters, [Next]_vars
             PROVE  SignalsWithinPosters'
  OBVIOUS
<1> DEFINE a == Cardinality(AboutToSignal)
<1>0. /\ a \in Nat /\ IsFiniteSet(AboutToSignal) /\ sem \in Nat
      /\ Cardinality(Posters) \in Nat
  BY PartsFinite DEF TypeOK
<1>1. ASSUME NEW p \in Posters, Push(p) PROVE SignalsWithinPosters'
  <2>1. AboutToSignal' = AboutToSignal /\ sem' = sem
    BY <1>1 DEF Push, AboutToSignal, TypeOK
  <2> QED  BY <2>1 DEF SignalsWithinPosters
<1>2. ASSUME NEW p \in Posters, GetValue(p) PROVE SignalsWithinPosters'
  <2>0. sem' = sem
    BY <1>2 DEF GetValue
  <2>1. CASE sem = 0
    <3>1. AboutToSignal' \subseteq Posters
      BY DEF AboutToSignal
    <3>2. Cardinality(AboutToSignal') <= Cardinality(Posters)
      BY <3>1, PostersFinite, FS_Subset
    <3> QED  BY <2>0, <2>1, <3>2, PartsFinite, <3>1, PostersFinite, FS_Subset,
                FS_CardinalityType DEF SignalsWithinPosters
  <2>2. CASE sem # 0
    <3>1. AboutToSignal' = AboutToSignal
      BY <1>2, <2>2 DEF GetValue, AboutToSignal, TypeOK
    <3> QED  BY <2>0, <3>1 DEF SignalsWithinPosters
  <2> QED  BY <2>1, <2>2
<1>3. ASSUME NEW p \in Posters, Signal(p) PROVE SignalsWithinPosters'
  <2>1. AboutToSignal' = AboutToSignal \ {p} /\ p \in AboutToSignal
    BY <1>3 DEF Signal, AboutToSignal, TypeOK
  <2>2. a' = a - 1 /\ sem' = sem + 1
    BY <2>1, <1>0, <1>3, CountChange DEF Signal
  <2> QED  BY <2>2, <1>0 DEF SignalsWithinPosters
<1>4. ASSUME Acquire PROVE SignalsWithinPosters'
  <2>1. a' = a /\ sem' = sem - 1
    BY <1>4 DEF Acquire, AboutToSignal
  <2> QED  BY <2>1, <1>0 DEF SignalsWithinPosters
<1>5. CASE TimeUp \/ Pop \/ ReturnTimeout \/ UNCHANGED vars
  <2>1. AboutToSignal' = AboutToSignal /\ sem' = sem
    BY <1>5 DEF TimeUp, Pop, ReturnTimeout, vars, AboutToSignal
  <2> QED  BY <2>1 DEF SignalsWithinPosters
<1> QED
  BY <1>1, <1>2, <1>3, <1>4, <1>5 DEF Next, PostStep, ConsumerStep

LEMMA InitIndInv == Init => IndInv
<1> SUFFICES ASSUME Init PROVE IndInv
  OBVIOUS
<1>1. Signalling = {} /\ AboutToSignal = {}
  BY DEF Init, Signalling, AboutToSignal
<1>2. Cardinality({}) = 0
  BY FS_EmptySet
<1>3. TypeOK
  BY MaxPostsNat DEF Init, TypeOK, Event
<1>4. WakeupsPaid
  BY <1>1, <1>2 DEF Init, WakeupsPaid
<1>5. SignalsWithinPosters
  BY <1>1, <1>2, PartsFinite DEF Init, SignalsWithinPosters
<1> QED
  BY <1>3, <1>4, <1>5 DEF IndInv

(* IndInv holds in every reachable state of any EventQue. *)
THEOREM IndInvInvariant == Spec => []IndInv
<1>1. Init => IndInv
  BY InitIndInv
<1>2. IndInv /\ [Next]_vars => IndInv'
  BY TypeStep, PaidStep, SignalsStep DEF IndInv
<1> QED
  BY <1>1, <1>2, PTL DEF Spec

(* Type correctness of EventQue. *)
THEOREM TypeCorrect == Spec => []TypeOK
<1>1. IndInv => TypeOK
  BY DEF IndInv
<1> QED
  BY <1>1, IndInvInvariant, PTL

LEMMA PaidPopsAnEvent == IndInv => WaitPopsAnEvent
<1>1. Cardinality(Signalling) \in Nat
  BY PartsFinite
<1> QED
  BY <1>1 DEF IndInv, WakeupsPaid, WaitPopsAnEvent, TypeOK

(* wait() pops without looking, and the queue is never empty when it does. *)
THEOREM WaitSafe == Spec => []WaitPopsAnEvent
  BY PaidPopsAnEvent, IndInvInvariant, PTL

(* The semaphore never counts more than one wake-up per posting thread. *)
THEOREM SemBounded == Spec => []SemWithinPosters
<1>1. IndInv => SemWithinPosters
  BY PartsFinite DEF IndInv, SignalsWithinPosters, SemWithinPosters, TypeOK
<1> QED
  BY <1>1, IndInvInvariant, PTL

(* EventQue implements the abstract queue, with either way of waiting:     *)
(* pushing is posting, the pop is the taking, every other step stutters.   *)
THEOREM Implements == Spec => ImplementsFifo
<1>1. Init => Fifo!Init
  BY DEF Init, Fifo!Init
<1>2. IndInv /\ [Next]_vars => [Fifo!Next]_(Fifo!vars)
  <2> SUFFICES ASSUME IndInv, [Next]_vars PROVE [Fifo!Next]_(Fifo!vars)
    OBVIOUS
  <2> USE DEF Fifo!vars
  <2>1. ASSUME NEW p \in Posters, Push(p) PROVE Fifo!Next
    <3>1. <<p, posted[p] + 1>> \in Event
      BY <2>1, MaxPostsNat DEF Push, Event, IndInv, TypeOK
    <3> QED
      BY <2>1, <3>1 DEF Push, Fifo!Next, Fifo!Post
  <2>2. CASE Pop
    <3>1. que # << >>
      BY <2>2, PaidPopsAnEvent DEF Pop, WaitPopsAnEvent
    <3> QED
      BY <2>2, <3>1 DEF Pop, Fifo!Next, Fifo!Take
  <2>3. ASSUME NEW p \in Posters, GetValue(p) \/ Signal(p)
        PROVE  UNCHANGED Fifo!vars
    BY <2>3 DEF GetValue, Signal
  <2>4. CASE Acquire \/ TimeUp \/ ReturnTimeout \/ UNCHANGED vars
    BY <2>4 DEF Acquire, TimeUp, ReturnTimeout, vars
  <2> QED
    BY <2>1, <2>2, <2>3, <2>4 DEF Next, PostStep, ConsumerStep
<1> QED
  BY <1>1, <1>2, IndInvInvariant, PTL DEF Spec, ImplementsFifo, Fifo!Spec
=============================================================================
