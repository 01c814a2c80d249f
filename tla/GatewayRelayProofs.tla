------------------------- MODULE GatewayRelayProofs -------------------------
(* Theorems about GatewayRelay, for any clients, any number of names and    *)
(* maps and queues of any size.                                            *)
EXTENDS GatewayRelay, FiniteSetTheorems, SequenceTheorems, TLAPS

(* The topics have the ids from Normal to the counter, one each: so as long *)
(* as there are no more names than ids the counter does not wrap around.   *)
Assigned == IF nextTopicId = 0 THEN 0 ELSE nextTopicId - Normal + 1

Numbered ==
    /\ nextTopicId \in {0} \cup Normal .. (Wrap - 1)
    /\ DOMAIN topics \subseteq Names
    /\ Cardinality(DOMAIN topics) = Assigned
    /\ \A n \in DOMAIN topics : topics[n] \in Normal .. nextTopicId
    /\ \A n, o \in DOMAIN topics : topics[n] = topics[o] => n = o

(* An event whose handler adds a topic names one.                          *)
Adds(e) ==
    \/ /\ e.from = "client"
       /\ e.msg.type = "REGISTER" \/ (e.msg.type = "SUBSCRIBE" /\ e.msg.kind \in {"NORMAL", "SHORT"})
    \/ e.from = "broker" /\ e.msg.type = "PUBLISH"

Naming == \A e \in Range(gwQue) : Adds(e) => e.msg.name \in Names

(* What a client repeats is a PUBLISH. *)
Repeats == \A m \in unacked : m.type = "PUBLISH"

IdInv == Numbered /\ gwQue \in Seq(Range(gwQue)) /\ Naming /\ Repeats

-----------------------------------------------------------------------------
(* Lemmas about queues and topics.                                         *)

(* What is in a queue after something was appended. *)
LEMMA AppendRange ==
    ASSUME NEW q, q \in Seq(Range(q)), NEW e
    PROVE  /\ Range(Append(q, e)) = Range(q) \cup {e}
           /\ Append(q, e) \in Seq(Range(Append(q, e)))
<1>1. /\ DOMAIN q = 1 .. Len(q) /\ Len(q) \in Nat
      /\ DOMAIN Append(q, e) = 1 .. (Len(q) + 1) /\ Append(q, e)[Len(q) + 1] = e
      /\ \A i \in 1 .. Len(q) : Append(q, e)[i] = q[i]
  OBVIOUS
<1>2. Range(q) \cup {e} \subseteq Range(Append(q, e))
  <2>1. \A i \in 1 .. Len(q) : i \in 1 .. (Len(q) + 1)
    BY <1>1
  <2> QED BY <1>1, <2>1 DEF Range
<1>3. Range(Append(q, e)) \subseteq Range(q) \cup {e}
  <2>1. \A i \in 1 .. (Len(q) + 1) : i \in 1 .. Len(q) \/ i = Len(q) + 1
    BY <1>1
  <2> QED BY <1>1, <2>1 DEF Range
<1>4. q \in Seq(Range(q) \cup {e})
  OBVIOUS
<1> QED BY <1>2, <1>3, <1>4

(* What is left in a queue after its head was taken. *)
LEMMA TailRange ==
    ASSUME NEW q, q \in Seq(Range(q)), q # << >>
    PROVE  /\ Head(q) \in Range(q) /\ Range(Tail(q)) \subseteq Range(q)
           /\ Tail(q) \in Seq(Range(Tail(q)))
<1>1. Head(q) \in Range(q) /\ Range(Tail(q)) \subseteq Range(q)
  <2>1. /\ DOMAIN q = 1 .. Len(q) /\ Len(q) \in Nat /\ Len(q) > 0 /\ Head(q) = q[1]
        /\ DOMAIN Tail(q) = 1 .. (Len(q) - 1)
        /\ \A i \in 1 .. (Len(q) - 1) : Tail(q)[i] = q[i + 1] /\ i + 1 \in 1 .. Len(q)
    OBVIOUS
  <2>2. Head(q) \in Range(q)
    BY <2>1 DEF Range
  <2>3. \A x \in Range(Tail(q)) : \E i \in 1 .. (Len(q) - 1) : x = q[i + 1]
    BY <2>1 DEF Range
  <2>4. Range(Tail(q)) \subseteq Range(q)
    BY <2>1, <2>3 DEF Range
  <2> QED BY <2>2, <2>4
<1>2. Tail(q) \in Seq(Range(q))
  BY HeadTailProperties
<1> DEFINE n == Len(Tail(q))
<1>3. n \in Nat /\ Tail(q) \in [1 .. n -> Range(q)]
  BY <1>2, LenProperties
<1>4. Tail(q) \in [1 .. n -> Range(Tail(q))]
  <2>1. DOMAIN Tail(q) = 1 .. n /\ Tail(q) = [i \in 1 .. n |-> Tail(q)[i]]
    BY <1>3
  <2>2. \A i \in 1 .. n : Tail(q)[i] \in Range(Tail(q))
    BY <2>1 DEF Range
  <2> QED BY <2>1, <2>2
<1>5. Tail(q) \in Seq(Range(Tail(q)))
  <2> HIDE DEF n
  <2>1. Seq(Range(Tail(q))) = UNION {[1 .. k -> Range(Tail(q))] : k \in Nat}
    BY SeqDef
  <2> QED BY <1>3, <1>4, <2>1
<1> QED BY <1>1, <1>5

(* Topics::add() of a name keeps the ids distinct, whoever calls it.       *)
LEMMA AddNumbers ==
    ASSUME Numbered, NEW name \in Names, Add(name)
    PROVE  Numbered'
<1>1. CASE name \in DOMAIN topics
  BY <1>1 DEF Add, table, Numbered, Assigned
<1>2. CASE name \notin DOMAIN topics
  <2> DEFINE old == DOMAIN topics
  <2>1. /\ nextTopicId' = NextTopicId(nextTopicId)
        /\ topics' = [n \in old \cup {name} |-> IF n = name THEN nextTopicId' ELSE topics[n]]
    BY <1>2 DEF Add
  <2>2. IsFiniteSet(Names) /\ IsFiniteSet(old) /\ IsFiniteSet(old \cup {name})
    BY NamesFinite, FS_Subset, FS_AddElement DEF Numbered
  <2>3. Cardinality(old \cup {name}) = Cardinality(old) + 1
    BY <1>2, <2>2, FS_AddElement
  <2>4. Cardinality(old \cup {name}) <= Cardinality(Names) /\ Cardinality(Names) \in Nat
        /\ Cardinality(old) \in Nat
    BY <2>2, FS_Subset, FS_CardinalityType DEF Numbered
  <2>5. /\ Normal \in Nat /\ Normal > 0 /\ Wrap \in Nat
        /\ Cardinality(old) + 1 <= Wrap - Normal
    BY <2>3, <2>4, IdsSuffice DEF Predefined
  <2>6. nextTopicId \in Nat /\ Cardinality(old) = Assigned
        /\ (nextTopicId # 0 => nextTopicId >= Normal)
    BY <2>5 DEF Numbered
  <2>7. nextTopicId + 1 \in Nat /\ nextTopicId + 1 < Wrap
    BY <2>5, <2>6 DEF Assigned
  <2>8. (nextTopicId + 1) % Wrap = nextTopicId + 1
    BY <2>5, <2>7
  <2>9. nextTopicId' = IF nextTopicId = 0 THEN Normal ELSE nextTopicId + 1
    BY <2>1, <2>5, <2>6, <2>8 DEF NextTopicId
  <2>10. nextTopicId' \in Normal .. (Wrap - 1) /\ Assigned' = Assigned + 1
    BY <2>5, <2>6, <2>7, <2>9 DEF Assigned
  <2>11. \A n \in old : topics[n] \in Normal .. nextTopicId /\ topics[n] < nextTopicId'
    BY <2>5, <2>6, <2>9 DEF Numbered
  <2>12. DOMAIN topics' = old \cup {name}
    BY <2>1
  <2>13. \A n \in DOMAIN topics' :
            topics'[n] = IF n = name THEN nextTopicId' ELSE topics[n]
    BY <2>1, <2>12
  <2>14. /\ DOMAIN topics' \subseteq Names
         /\ Cardinality(DOMAIN topics') = Assigned'
    BY <2>3, <2>6, <2>10, <2>12 DEF Numbered
  <2>15. \A n \in DOMAIN topics' : topics'[n] \in Normal .. nextTopicId'
    BY <2>5, <2>6, <2>10, <2>11, <2>12, <2>13
  <2>16. \A n, o \in DOMAIN topics' : topics'[n] = topics'[o] => n = o
    <3> SUFFICES ASSUME NEW n \in old \cup {name}, NEW o \in old \cup {name},
                        topics'[n] = topics'[o]
                 PROVE  n = o
      BY <2>12
    <3>1. \A k \in old : topics'[k] = topics[k] /\ topics[k] # topics'[name]
      BY <1>2, <2>5, <2>6, <2>10, <2>11, <2>12, <2>13
    <3> QED BY <3>1 DEF Numbered
  <2> QED BY <2>10, <2>14, <2>15, <2>16 DEF Numbered
<1> QED BY <1>1, <1>2

-----------------------------------------------------------------------------
(* The parts of the invariant: what changes the queue, and how.            *)

LEMMA EmptyNumbered ==
    ASSUME topics' = Empty, nextTopicId' = 0 PROVE Numbered'
<1>1. DOMAIN topics' = {}
  BY DEF Empty
<1>2. Cardinality({}) = 0
  BY FS_EmptySet
<1> QED BY <1>1, <1>2 DEF Numbered, Assigned

LEMMA IdInit == Init => IdInv
<1> SUFFICES ASSUME Init PROVE IdInv
  OBVIOUS
<1>1. DOMAIN topics = {} /\ nextTopicId = 0 /\ gwQue = << >> /\ unacked = {}
  BY DEF Init, Empty
<1>2. Cardinality({}) = 0
  BY FS_EmptySet
<1> QED BY <1>1, <1>2 DEF IdInv, Numbered, Assigned, Naming, Repeats, Range

QueInv == gwQue \in Seq(Range(gwQue)) /\ Naming

LEMMA Taken ==
    ASSUME QueInv, NEW from, NEW type, Take(from, type)
    PROVE  /\ QueInv' /\ Msg.type = type
           /\ Adds([from |-> from, msg |-> Msg]) => Msg.name \in Names
<1>1. gwQue # << >> /\ gwQue' = Tail(gwQue) /\ Head(gwQue).from = from /\ Msg.type = type
  BY DEF Take, Msg
<1>2. /\ Head(gwQue) \in Range(gwQue) /\ Range(gwQue') \subseteq Range(gwQue)
      /\ gwQue' \in Seq(Range(gwQue'))
  BY <1>1, TailRange DEF QueInv
<1>3. Adds(Head(gwQue)) => Msg.name \in Names
  BY <1>2 DEF QueInv, Naming, Msg
<1>4. Adds([from |-> from, msg |-> Msg]) => Adds(Head(gwQue))
  BY <1>1 DEF Adds, Msg
<1> QED BY <1>1, <1>2, <1>3, <1>4 DEF QueInv, Naming

LEMMA Posted ==
    ASSUME QueInv, NEW e, gwQue' = Append(gwQue, e), Adds(e) => e.msg.name \in Names
    PROVE  QueInv'
BY AppendRange DEF QueInv, Naming

(* The client adds events; what it repeats it has sent as a PUBLISH. *)
LEMMA Said ==
    ASSUME QueInv, NEW m, ClientSends(m), Adds([from |-> "client", msg |-> m]) => m.name \in Names
    PROVE  QueInv'
<1>1. gwQue' = Append(gwQue, [from |-> "client", msg |-> m])
  BY DEF ClientSends
<1> QED BY <1>1, Posted

LEMMA IdClient ==
    ASSUME IdInv, Client
    PROVE  QueInv' /\ Repeats' /\ UNCHANGED table
<1>0. QueInv /\ Repeats
  BY DEF IdInv, QueInv
<1> USE DEF Unchanged4Client, Adds, Repeats
<1>1. ASSUME NEW b \in BOOLEAN, ClientConnect(b) PROVE QueInv' /\ Repeats' /\ UNCHANGED table
  BY <1>0, <1>1, Said DEF ClientConnect
<1>2. ASSUME NEW b \in BOOLEAN, ClientDisconnect(b) PROVE QueInv' /\ Repeats' /\ UNCHANGED table
  BY <1>0, <1>2, Said DEF ClientDisconnect
<1>3. ASSUME NEW m, ClientAsks(m), Adds([from |-> "client", msg |-> m]) => m.name \in Names
      PROVE  QueInv' /\ Repeats' /\ UNCHANGED table
  BY <1>0, <1>3, Said DEF ClientAsks
<1>4. ASSUME NEW n \in Names, ClientRegister(n) PROVE QueInv' /\ Repeats' /\ UNCHANGED table
  BY <1>3, <1>4 DEF ClientRegister
<1>5. ASSUME NEW kind, NEW n, NEW id, ClientSubscribe(kind, n, id),
             n \in Names \/ kind \notin {"NORMAL", "SHORT"}
      PROVE  QueInv' /\ Repeats' /\ UNCHANGED table
  BY <1>3, <1>5 DEF ClientSubscribe
<1>6. ASSUME NEW kind, NEW n, ClientUnsubscribe(kind, n)
      PROVE  QueInv' /\ Repeats' /\ UNCHANGED table
  BY <1>3, <1>6 DEF ClientUnsubscribe
<1>7. ASSUME NEW q, NEW kind, NEW id, NEW n, ClientPublish(q, kind, id, n)
      PROVE  QueInv' /\ Repeats' /\ UNCHANGED table
  BY <1>0, <1>7, Said DEF ClientPublish
<1>8. ASSUME ClientRepeat PROVE QueInv' /\ Repeats' /\ UNCHANGED table
  BY <1>0, <1>8, Said DEF ClientRepeat
<1>9. ASSUME ClientPing PROVE QueInv' /\ Repeats' /\ UNCHANGED table
  BY <1>0, <1>9, Said DEF ClientPing
<1>10. Shorts \subseteq Names
  BY NamesFinite
<1> HIDE DEF Unchanged4Client, Adds, Repeats
<1> QED BY <1>1, <1>2, <1>4, <1>5, <1>6, <1>7, <1>8, <1>9, <1>10 DEF Client

LEMMA IdClientTakes ==
    ASSUME IdInv, ClientTakes
    PROVE  QueInv' /\ Repeats' /\ UNCHANGED table
<1>0. QueInv /\ Repeats
  BY DEF IdInv, QueInv
<1>1. unacked' \subseteq unacked /\ UNCHANGED table
  BY DEF ClientTakes
<1>2. gwQue' = gwQue \/ \E t \in {"PUBREL", "PUBACK", "PUBREC"} :
        gwQue' = Append(gwQue, [from |-> "client", msg |-> [type |-> t, mid |-> Head(toClient).mid]])
  BY DEF ClientTakes, ClientAnswers
<1>3. QueInv'
  <2>1. CASE gwQue' = gwQue
    BY <1>0, <2>1 DEF QueInv, Naming
  <2>2. ASSUME NEW t \in {"PUBREL", "PUBACK", "PUBREC"},
               gwQue' = Append(gwQue, [from |-> "client",
                                       msg |-> [type |-> t, mid |-> Head(toClient).mid]])
        PROVE  QueInv'
    BY <1>0, <2>2, Posted DEF Adds
  <2> QED BY <1>2, <2>1, <2>2
<1> QED BY <1>0, <1>1, <1>3 DEF Repeats

(* The broker posts answers, which add nothing, and publications. *)
LEMMA IdBroker ==
    ASSUME IdInv, Broker
    PROVE  QueInv' /\ Repeats' /\ UNCHANGED table
<1>0. QueInv /\ Repeats
  BY DEF IdInv, QueInv
<1>1. ASSUME NEW ok \in BOOLEAN, BrokerTakes(ok) PROVE QueInv' /\ Repeats' /\ UNCHANGED table
  <2>1. UNCHANGED <<table, unacked>>
    BY <1>1 DEF BrokerTakes, client
  <2>2. CASE gwQue' = gwQue
    BY <1>0, <2>1, <2>2 DEF QueInv, Naming, Repeats
  <2>3. ASSUME NEW m \in BrokerReply(Head(toBroker), ok), BrokerPosts(m)
        PROVE  QueInv'
    <3>1. m.type # "PUBLISH"
      BY DEF BrokerReply
    <3> QED BY <1>0, <2>3, <3>1, Posted DEF BrokerPosts, Adds
  <2>4. gwQue' = gwQue \/ \E m \in BrokerReply(Head(toBroker), ok) : BrokerPosts(m)
    BY <1>1 DEF BrokerTakes
  <2> QED BY <1>0, <2>1, <2>2, <2>3, <2>4 DEF Repeats
<1>2. ASSUME NEW n \in Names, BrokerPublish(n) PROVE QueInv' /\ Repeats' /\ UNCHANGED table
  <2>1. UNCHANGED <<table, unacked>>
        /\ gwQue' = Append(gwQue, [from |-> "broker",
                                  msg |-> [type |-> "PUBLISH", name |-> n, mid |-> published + 1]])
    BY <1>2 DEF BrokerPublish, BrokerPosts, client
  <2> QED BY <1>0, <2>1, Posted DEF Repeats
<1> QED BY <1>1, <1>2 DEF Broker

(* Whatever the control task handles, it takes an event and adds the topic *)
(* that the event names, or starts a new table, or leaves the table alone. *)
LEMMA IdTask ==
    ASSUME IdInv, GatewayControlTask
    PROVE  QueInv' /\ Repeats' /\ Numbered'
<1>0. QueInv /\ Repeats /\ Numbered
  BY DEF IdInv, QueInv
<1>1. unacked' = unacked
  BY DEF GatewayControlTask, client, SnPublishForward, SnPublishReject, SnSubscribe,
     SnSubscribeHere, SnUnsubscribe, SnUnsubscribeHere, SnConnect, SnDisconnect, SnRegister,
     SnPass, Puback, Suback, Connack, Flush, PublishTopic, RegisterAsleep, RegisterActive,
     PublishAsleep, PublishActive, Pass
<1>2. Repeats'
  BY <1>0, <1>1 DEF Repeats
<1>3. ASSUME UNCHANGED table PROVE Numbered'
  BY <1>0, <1>3 DEF Numbered, Assigned, table
<1>4. ASSUME UNCHANGED gwQue PROVE QueInv'
  BY <1>0, <1>4 DEF QueInv, Naming
<1>5. CASE SnSubscribe
  <2>1. Take("client", "SUBSCRIBE") /\ Msg.kind \in {"NORMAL", "SHORT"} /\ Add(Msg.name)
    BY <1>5 DEF SnSubscribe
  <2>2. QueInv' /\ Msg.name \in Names
    BY <1>0, <2>1, Taken DEF Adds
  <2> QED BY <1>0, <1>2, <2>1, <2>2, AddNumbers
<1>6. CASE SnRegister
  <2>1. Take("client", "REGISTER") /\ Add(Msg.name)
    BY <1>6 DEF SnRegister
  <2>2. QueInv' /\ Msg.name \in Names
    BY <1>0, <2>1, Taken DEF Adds
  <2> QED BY <1>0, <1>2, <2>1, <2>2, AddNumbers
<1>7. CASE PublishTopic
  <2>1. Take("broker", "PUBLISH") /\ (Add(Msg.name) \/ UNCHANGED table)
    BY <1>7 DEF PublishTopic
  <2>2. QueInv' /\ Msg.name \in Names
    BY <1>0, <2>1, Taken DEF Adds
  <2> QED BY <1>0, <1>2, <1>3, <2>1, <2>2, AddNumbers
<1>8. CASE SnConnect
  <2>1. Take("client", "CONNECT")
        /\ ((topics' = Empty /\ nextTopicId' = 0) \/ UNCHANGED table)
    BY <1>8 DEF SnConnect, table
  <2> QED BY <1>0, <1>2, <1>3, <2>1, Taken, EmptyNumbered
<1>9. ASSUME NEW from, NEW type, Take(from, type), UNCHANGED table
      PROVE  QueInv' /\ Repeats' /\ Numbered'
  BY <1>0, <1>2, <1>3, <1>9, Taken
<1>10. CASE SnPublishForward \/ SnPublishReject
  BY <1>9, <1>10 DEF SnPublishForward, SnPublishReject
<1>11. CASE SnSubscribeHere \/ SnUnsubscribe \/ SnUnsubscribeHere \/ SnDisconnect
  BY <1>9, <1>11 DEF SnSubscribeHere, SnUnsubscribe, SnUnsubscribeHere, SnDisconnect
<1>12. ASSUME NEW t, SnPass(t) PROVE QueInv' /\ Repeats' /\ Numbered'
  BY <1>9, <1>12 DEF SnPass
<1>13. CASE Puback \/ Suback \/ Connack
  BY <1>9, <1>13 DEF Puback, Suback, Connack
<1>14. ASSUME NEW t, Pass(t) PROVE QueInv' /\ Repeats' /\ Numbered'
  BY <1>9, <1>14 DEF Pass
<1>15. CASE Flush \/ RegisterAsleep \/ RegisterActive \/ PublishAsleep \/ PublishActive
  <2>1. UNCHANGED <<table, gwQue>>
    BY <1>15 DEF Flush, RegisterAsleep, RegisterActive, PublishAsleep, PublishActive
  <2> QED BY <1>2, <1>3, <1>4, <2>1
<1> QED BY <1>5, <1>6, <1>7, <1>8, <1>10, <1>11, <1>12, <1>13, <1>14, <1>15
        DEF GatewayControlTask

LEMMA IdStep == IdInv /\ [Next]_vars => IdInv'
<1> SUFFICES ASSUME IdInv, [Next]_vars PROVE QueInv' /\ Repeats' /\ Numbered'
  BY DEF IdInv, QueInv
<1>0. QueInv /\ Repeats /\ Numbered
  BY DEF IdInv, QueInv
<1>1. ASSUME UNCHANGED table PROVE Numbered'
  BY <1>0, <1>1 DEF Numbered, Assigned, table
<1>2. CASE GatewayControlTask
  BY <1>2, IdTask
<1>3. CASE Client \/ ClientTakes \/ Broker
  BY <1>1, <1>3, IdClient, IdClientTakes, IdBroker
<1>4. CASE UNCHANGED vars
  BY <1>0, <1>1, <1>4 DEF vars, client, QueInv, Naming, Repeats
<1> QED BY <1>2, <1>3, <1>4 DEF Next

(* Two topics of a client never have one id, nor a topic a predefined one, *)
(* if there are no more names than ids: however clients connect, register, *)
(* subscribe and publish, and whatever the broker publishes.               *)
THEOREM IdsDistinctCorrect == Spec => []IdsDistinct
<1>1. IdInv => IdsDistinct
  BY IdsSuffice DEF IdInv, Numbered, IdsDistinct
<1> QED BY <1>1, IdInit, IdStep, PTL DEF Spec

-----------------------------------------------------------------------------
(* Queues after something has been appended or taken.                      *)
LEMMA Appended ==
    ASSUME NEW q, q \in Seq(Range(q)), NEW e
    PROVE  /\ Append(q, e) \in Seq(Range(Append(q, e))) /\ Range(Append(q, e)) = Range(q) \cup {e}
           /\ Len(q) \in Nat /\ Len(Append(q, e)) = Len(q) + 1
           /\ DOMAIN q = 1 .. Len(q) /\ DOMAIN Append(q, e) = 1 .. (Len(q) + 1)
           /\ Append(q, e)[Len(q) + 1] = e /\ \A i \in 1 .. Len(q) : Append(q, e)[i] = q[i]
<1>1. /\ Len(q) \in Nat /\ Len(Append(q, e)) = Len(q) + 1
      /\ DOMAIN q = 1 .. Len(q) /\ DOMAIN Append(q, e) = 1 .. (Len(q) + 1)
      /\ Append(q, e)[Len(q) + 1] = e /\ \A i \in 1 .. Len(q) : Append(q, e)[i] = q[i]
  OBVIOUS
<1> QED BY <1>1, AppendRange

LEMMA Tailed ==
    ASSUME NEW q, q \in Seq(Range(q)), q # << >>
    PROVE  /\ Tail(q) \in Seq(Range(Tail(q))) /\ Range(Tail(q)) \subseteq Range(q)
           /\ Len(q) \in Nat \ {0} /\ Len(Tail(q)) = Len(q) - 1
           /\ DOMAIN q = 1 .. Len(q) /\ DOMAIN Tail(q) = 1 .. (Len(q) - 1)
           /\ Head(q) = q[1] /\ Head(q) \in Range(q)
           /\ \A i \in 1 .. (Len(q) - 1) : Tail(q)[i] = q[i + 1]
<1>1. /\ Len(q) \in Nat \ {0} /\ Len(Tail(q)) = Len(q) - 1
      /\ DOMAIN q = 1 .. Len(q) /\ DOMAIN Tail(q) = 1 .. (Len(q) - 1)
      /\ Head(q) = q[1] /\ \A i \in 1 .. (Len(q) - 1) : Tail(q)[i] = q[i + 1]
  OBVIOUS
<1> QED BY <1>1, TailRange

(* SUBACK and the time, in one step. *)
LEMMA Joined ==
    ASSUME NEW q, q \in Seq(Range(q)), NEW e, NEW f
    PROVE  q \o <<e>> \o << >> = Append(q, e) /\ q \o <<e>> \o <<f>> = Append(Append(q, e), f)
<1>1. q \o <<e>> = Append(q, e) /\ Append(q, e) \in Seq(Range(q) \cup {e})
  OBVIOUS
<1>2. Append(q, e) \o << >> = Append(q, e) /\ Append(q, e) \o <<f>> = Append(Append(q, e), f)
  BY <1>1
<1> QED BY <1>1, <1>2

-----------------------------------------------------------------------------
Queues ==
    /\ gwQue \in Seq(Range(gwQue)) /\ toBroker \in Seq(Range(toBroker))
    /\ toClient \in Seq(Range(toClient)) /\ sleepQue \in Seq(Range(sleepQue))

(* The ids in messages. *)
IdsTyped ==
    /\ \A e \in Range(gwQue) : e.msg.type \in {"PUBLISH", "SUBSCRIBE"} /\ e.from = "client" => e.msg.id \in Id
    /\ \A m \in Range(toClient) : m.type \in {"REGISTER", "REGACK", "SUBACK"} => m.id \in Id
    /\ \A m \in unacked : m.type = "PUBLISH" /\ m.id \in Id
    /\ \A t \in told : t[1] \in Id
    /\ cur.id \in Id
    /\ at = "flushing" => sleepQue # << >>

Typed == Queues /\ IdsTyped /\ TypeOK
LEMMA Took ==
    ASSUME Queues, NEW from, NEW type, Take(from, type)
    PROVE  /\ at = "idle" /\ gwQue' \in Seq(Range(gwQue')) /\ Range(gwQue') \subseteq Range(gwQue)
           /\ Head(gwQue) \in Range(gwQue) /\ Head(gwQue).from = from
           /\ Head(gwQue).msg = Msg /\ Msg.type = type
  BY Tailed DEF Queues, Take, Msg

LEMMA Replied ==
    ASSUME Queues, NEW m, Reply(m)
    PROVE  toClient' \in Seq(Range(toClient')) /\ Range(toClient') = Range(toClient) \cup {m}
  BY Appended DEF Queues, Reply

LEMMA Forwarded ==
    ASSUME Queues, NEW m, Forward(m)
    PROVE  toBroker' \in Seq(Range(toBroker')) /\ Range(toBroker') = Range(toBroker) \cup {m}
  BY Appended DEF Queues, Forward

LEMMA PostedUp ==
    ASSUME Queues, NEW e, gwQue' = Append(gwQue, e)
    PROVE  gwQue' \in Seq(Range(gwQue')) /\ Range(gwQue') = Range(gwQue) \cup {e}
  BY Appended DEF Queues

(* Ids are those of topics, and fit into 16 bits. *)
LEMMA IdsFit == Predefined \in Id /\ 0 \in Id /\ (Wrap - 1) \in Id /\ Normal > Predefined
<1>1. IsFiniteSet(Names) /\ Cardinality(Names) \in Nat
  BY NamesFinite, FS_CardinalityType
<1> QED BY <1>1, IdsSuffice DEF Id, Predefined

LEMMA TableTyped ==
    ASSUME Numbered
    PROVE  /\ DOMAIN topics \subseteq Names /\ Range(topics) \subseteq Id /\ nextTopicId \in Id
           /\ \A n \in DOMAIN topics : topics[n] \in Id
  BY IdsFit, IdsSuffice DEF Numbered, Range, Id, Predefined

(* The maps. *)
LEMMA MapTyped ==
    ASSUME NEW map, Range(map) \subseteq Id, NEW mid, NEW id \in Id
    PROVE  /\ Range(Inserted(map, mid, id)) \subseteq Id
           /\ Range(Erased(map, mid)) \subseteq Id
           /\ Waited(map, mid) \in Id
<1>1. Waited(map, mid) \in Id
  BY IdsFit DEF Waited, Range
<1>2. \A S : Range(Restrict(map, S \cap DOMAIN map)) \subseteq Id
  BY DEF Restrict, Range
<1>3. Range(Erased(map, mid)) \subseteq Id
  BY DEF Erased, Restrict, Range
<1>4. ASSUME NEW kept, Range(kept) \subseteq Id
      PROVE  Range([k \in DOMAIN kept \cup {mid} |-> IF k \in DOMAIN kept THEN kept[k] ELSE id]) \subseteq Id
  BY <1>4 DEF Range
<1>5. Range(Restrict(map, DOMAIN map \ {Victim(map, mid)})) \subseteq Id
  BY DEF Restrict, Range
<1>6. Range(Inserted(map, mid, id)) \subseteq Id
  BY <1>4, <1>5 DEF Inserted
<1> QED BY <1>1, <1>3, <1>6

(* handleSnSubscribe() answers with a SUBACK, and may tell the time. *)
Suback4(ok) == [type |-> "SUBACK", id |-> Msg.id, mid |-> Msg.mid, ok |-> ok]
TimeMsg == [type |-> "PUBLISH", id |-> Predefined, mid |-> 0, kind |-> "PREDEFINED"]

LEMMA AppendedTwice ==
    ASSUME NEW q, q \in Seq(Range(q)), NEW e, NEW f,
           NEW r, r = Append(q, e) \/ r = Append(Append(q, e), f)
    PROVE  /\ r \in Seq(Range(r)) /\ Range(r) \subseteq Range(q) \cup {e, f}
           /\ DOMAIN q = 1 .. Len(q) /\ DOMAIN r = 1 .. Len(r)
           /\ Len(q) \in Nat /\ Len(r) \in Nat /\ Len(r) > Len(q)
           /\ \A i \in 1 .. Len(q) : r[i] = q[i]
           /\ \A i \in (Len(q) + 1) .. Len(r) : r[i] \in {e, f}
<1>1. PICK p : p = Append(q, e)
  OBVIOUS
<1>2. /\ p \in Seq(Range(p)) /\ Range(p) = Range(q) \cup {e}
      /\ Len(q) \in Nat /\ Len(p) = Len(q) + 1
      /\ DOMAIN q = 1 .. Len(q) /\ DOMAIN p = 1 .. Len(p)
      /\ p[Len(p)] = e /\ \A i \in 1 .. Len(q) : p[i] = q[i]
  BY <1>1, Appended
<1>3. CASE r = p
  BY <1>2, <1>3
<1>4. CASE r = Append(p, f)
  <2>1. /\ r \in Seq(Range(r)) /\ Range(r) = Range(p) \cup {f} /\ Len(r) = Len(p) + 1
        /\ DOMAIN r = 1 .. Len(r) /\ r[Len(r)] = f /\ \A i \in 1 .. Len(p) : r[i] = p[i]
    BY <1>2, <1>4, Appended
  <2>2. \A i \in (Len(q) + 1) .. Len(r) : i = Len(p) \/ i = Len(r)
    BY <1>2, <2>1
  <2> QED BY <1>2, <2>1, <2>2
<1> QED BY <1>1, <1>3, <1>4

LEMMA Told4Here ==
    ASSUME toClient \in Seq(Range(toClient)), SnSubscribeHere
    PROVE  /\ toClient' \in Seq(Range(toClient'))
           /\ Range(toClient') \subseteq Range(toClient) \cup {Suback4(TRUE), Suback4(FALSE), TimeMsg}
           /\ DOMAIN toClient = 1 .. Len(toClient) /\ DOMAIN toClient' = 1 .. Len(toClient')
           /\ Len(toClient) \in Nat /\ Len(toClient') \in Nat /\ Len(toClient') > Len(toClient)
           /\ \A i \in 1 .. Len(toClient) : toClient'[i] = toClient[i]
           /\ \A i \in (Len(toClient) + 1) .. Len(toClient') :
                 toClient'[i] \in {Suback4(Msg.id = Predefined), Suback4(FALSE), TimeMsg}
<1>1. PICK ok \in BOOLEAN : /\ ok => Msg.id = Predefined
                           /\ toClient' = toClient \o <<Suback4(ok)>> \o (IF ok THEN <<TimeMsg>> ELSE << >>)
  BY DEF SnSubscribeHere, Suback4, TimeMsg
<1>2. PICK e : e = Suback4(ok)
  OBVIOUS
<1>3. PICK f : f = TimeMsg
  OBVIOUS
<1>4. PICK r : r = toClient'
  OBVIOUS
<1>5. r = Append(toClient, e) \/ r = Append(Append(toClient, e), f)
  BY <1>1, <1>2, <1>3, <1>4, Joined
<1>6. /\ r \in Seq(Range(r)) /\ Range(r) \subseteq Range(toClient) \cup {e, f}
      /\ DOMAIN toClient = 1 .. Len(toClient) /\ DOMAIN r = 1 .. Len(r)
      /\ Len(toClient) \in Nat /\ Len(r) \in Nat /\ Len(r) > Len(toClient)
      /\ \A i \in 1 .. Len(toClient) : r[i] = toClient[i]
      /\ \A i \in (Len(toClient) + 1) .. Len(r) : r[i] \in {e, f}
  BY <1>5, AppendedTwice
<1>7. e \in {Suback4(Msg.id = Predefined), Suback4(FALSE)} /\ e \in {Suback4(TRUE), Suback4(FALSE)}
  BY <1>1, <1>2
<1> QED BY <1>3, <1>4, <1>6, <1>7

(* The control task. *)
LEMMA TypedTask ==
    ASSUME Typed, Numbered', GatewayControlTask
    PROVE  Typed'
<1>0. Queues /\ IdsTyped /\ TypeOK
  BY DEF Typed
<1> USE IdsFit
<1>1. /\ DOMAIN topics' \subseteq Names /\ Range(topics') \subseteq Id /\ nextTopicId' \in Id
      /\ \A n \in DOMAIN topics' : topics'[n] \in Id
  BY IdsSuffice DEF Numbered, Range, Id, Predefined
<1>2. ASSUME NEW map, Range(map) \subseteq Id, NEW mid, NEW id \in Id
      PROVE  /\ Range(Inserted(map, mid, id)) \subseteq Id
             /\ Range(Erased(map, mid)) \subseteq Id
             /\ Waited(map, mid) \in Id
  BY <1>2, MapTyped
<1>3. Range(Empty) \subseteq Id
  BY DEF Range, Empty
<1>4. CASE SnPublishForward
  <2>1. Take("client", "PUBLISH") /\ \E m : Forward(m)
    BY <1>4 DEF SnPublishForward
  <2>2. Msg.id \in Id
    BY <1>0, <2>1, Took DEF IdsTyped
  <2> QED BY <1>0, <1>1, <1>2, <1>4, <2>1, <2>2, Took, Forwarded
          DEF SnPublishForward, Typed, Queues, IdsTyped, TypeOK, table, task, client, history
<1>5. CASE SnPublishReject
  BY <1>0, <1>1, <1>5, Took, Replied
  DEF SnPublishReject, Typed, Queues, IdsTyped, TypeOK, table, maps, task, client, history
<1>6. CASE SnSubscribe
  <2>1. Take("client", "SUBSCRIBE") /\ Add(Msg.name) /\ \E m : Forward(m)
    BY <1>6 DEF SnSubscribe
  <2>2. topics'[Msg.name] \in Id
    BY <1>1, <2>1 DEF Add, table
  <2> QED BY <1>0, <1>1, <1>2, <1>6, <2>1, <2>2, Took, Forwarded
          DEF SnSubscribe, Typed, Queues, IdsTyped, TypeOK, task, client, history
<1>7. CASE SnSubscribeHere
  <2>1. Take("client", "SUBSCRIBE") /\ Msg.id \in Id
    BY <1>0, <1>7, Took DEF SnSubscribeHere, IdsTyped
  <2>2. /\ toClient' \in Seq(Range(toClient'))
        /\ Range(toClient') \subseteq Range(toClient) \cup {Suback4(TRUE), Suback4(FALSE), TimeMsg}
    BY <1>0, <1>7, Told4Here DEF Queues
  <2>3. Take("client", "SUBSCRIBE")
        /\ UNCHANGED <<status, table, maps, sleepQue, task, toBroker, client, published, history>>
    BY <1>7 DEF SnSubscribeHere
  <2> QED BY <1>0, <1>1, <2>1, <2>2, <2>3, Took
          DEF Suback4, TimeMsg, Typed, Queues, IdsTyped, TypeOK, table, maps, task, client, history
<1>8. CASE SnUnsubscribe
  <2>1. \E m : Forward(m)
    BY <1>8 DEF SnUnsubscribe
  <2> QED BY <1>0, <1>1, <1>8, <2>1, Took, Forwarded
          DEF SnUnsubscribe, Typed, Queues, IdsTyped, TypeOK, table, maps, task, client, history
<1>9. CASE SnUnsubscribeHere
  BY <1>0, <1>1, <1>9, Took, Replied
  DEF SnUnsubscribeHere, Typed, Queues, IdsTyped, TypeOK, table, maps, task, client, history
<1>10. CASE SnConnect
  <2>1. toBroker' \in Seq(Range(toBroker'))
    BY <1>0, <1>10, Forwarded DEF SnConnect, Queues
  <2> QED BY <1>0, <1>1, <1>3, <1>10, <2>1, Took
          DEF SnConnect, Typed, Queues, IdsTyped, TypeOK, table, maps, task, client, history
<1>11. CASE SnDisconnect
  <2>1. toBroker' \in Seq(Range(toBroker'))
    BY <1>0, <1>11, Forwarded DEF SnDisconnect
  <2> QED BY <1>0, <1>1, <1>11, <2>1, Took, Replied
          DEF SnDisconnect, Typed, Queues, IdsTyped, TypeOK, table, maps, task, client, history
<1>12. CASE SnRegister
  <2>1. Take("client", "REGISTER") /\ Add(Msg.name)
    BY <1>12 DEF SnRegister
  <2>2. topics'[Msg.name] \in Id
    BY <1>1, <2>1 DEF Add, table
  <2> QED BY <1>0, <1>1, <1>12, <2>1, <2>2, Took, Replied
          DEF SnRegister, Typed, Queues, IdsTyped, TypeOK, maps, task, client, history
<1>13. ASSUME NEW t, SnPass(t) PROVE Typed'
  <2>1. toBroker' \in Seq(Range(toBroker'))
    BY <1>0, <1>13, Forwarded DEF SnPass
  <2> QED BY <1>0, <1>1, <1>13, <2>1, Took
          DEF SnPass, Typed, Queues, IdsTyped, TypeOK, table, maps, task, client, history
<1>14. CASE Puback
  <2>1. Waited(pubMap, Msg.mid) \in Id /\ Range(pubMap') \subseteq Id
    BY <1>0, <1>2, <1>14 DEF Puback, TypeOK
  <2> QED BY <1>0, <1>1, <1>14, <2>1, Took, Replied
          DEF Puback, Typed, Queues, IdsTyped, TypeOK, table, task, client, history
<1>15. CASE Suback
  <2>1. Waited(subMap, Msg.mid) \in Id /\ Range(subMap') \subseteq Id
    BY <1>0, <1>2, <1>15 DEF Suback, TypeOK
  <2> QED BY <1>0, <1>1, <1>15, <2>1, Took, Replied
          DEF Suback, Typed, Queues, IdsTyped, TypeOK, table, task, client, history
<1>16. CASE Connack
  BY <1>0, <1>1, <1>16, Took, Replied
  DEF Connack, Typed, Queues, IdsTyped, TypeOK, table, maps, client, history
<1>17. CASE Flush
  <2>1. Head(sleepQue) \in Range(sleepQue)
    BY <1>0, <1>17, Tailed DEF Flush, Queues, IdsTyped
  <2> QED BY <1>0, <1>1, <1>17, <2>1, Replied
          DEF Flush, Typed, Queues, IdsTyped, TypeOK, table, maps, task, client, history
<1>18. CASE PublishTopic
  <2>1. Take("broker", "PUBLISH") /\ cur'.id \in Id /\ at' \in {"register", "publish"}
    BY <1>0, <1>1, <1>18 DEF PublishTopic, TopicId, Add, table, TypeOK, Range
  <2> QED BY <1>0, <1>1, <1>18, <2>1, Took
          DEF PublishTopic, Typed, Queues, IdsTyped, TypeOK, table, maps, client, history
<1>19. CASE RegisterAsleep \/ PublishAsleep
  <2>1. /\ at' \in {"publish", "register_active", "idle", "publish_active"}
        /\ sleepQue' \in {sleepQue, Append(sleepQue, RegisterMsg), Append(sleepQue, PublishMsg)}
        /\ UNCHANGED <<status, table, maps, gwQue, cur, toBroker, toClient, client, published, history>>
    BY <1>19 DEF RegisterAsleep, PublishAsleep
  <2>2. /\ sleepQue' \in Seq(Range(sleepQue'))
        /\ Range(sleepQue') \subseteq Range(sleepQue) \cup {RegisterMsg, PublishMsg}
    <3>1. CASE sleepQue' = sleepQue
      BY <1>0, <3>1 DEF Queues
    <3>2. ASSUME NEW m \in {RegisterMsg, PublishMsg}, sleepQue' = Append(sleepQue, m)
          PROVE  <2>2!:
      BY <1>0, <3>2, Appended DEF Queues
    <3> QED BY <2>1, <3>1, <3>2
  <2> QED BY <1>0, <1>1, <2>1, <2>2
          DEF RegisterMsg, PublishMsg, Typed, Queues, IdsTyped,
              TypeOK, table, maps, client, history
<1>20. CASE RegisterActive \/ PublishActive
  BY <1>0, <1>1, <1>20, Replied
  DEF RegisterActive, PublishActive, RegisterMsg, PublishMsg, Typed, Queues, IdsTyped,
      TypeOK, table, maps, client
<1>21. ASSUME NEW t \in {"PUBREC", "PUBREL", "PUBCOMP", "UNSUBACK", "PINGRESP"}, Pass(t) PROVE Typed'
  BY <1>0, <1>1, <1>21, Took, Replied
  DEF Pass, Typed, Queues, IdsTyped, TypeOK, table, maps, task, client, history
<1> QED
  BY <1>4, <1>5, <1>6, <1>7, <1>8, <1>9, <1>10, <1>11, <1>12, <1>13, <1>14, <1>15,
     <1>16, <1>17, <1>18, <1>19, <1>20, <1>21
  DEF GatewayControlTask

(* What the client says. *)
LEMMA TypedSays ==
    ASSUME Typed, NEW m, ClientSends(m) \/ ClientAnswers(m),
           m.type \in {"PUBLISH", "SUBSCRIBE"} => m.id \in Id
    PROVE  /\ gwQue' \in Seq(Range(gwQue'))
           /\ Range(gwQue') = Range(gwQue) \cup {[from |-> "client", msg |-> m]}
           /\ \A e \in Range(gwQue') : e.msg.type \in {"PUBLISH", "SUBSCRIBE"} /\ e.from = "client"
                                      => e.msg.id \in Id
           /\ status' \in {"Disconnected", "TryConnecting", "Connecting", "Active", "Asleep", "Awake"}
<1>1. gwQue' = Append(gwQue, [from |-> "client", msg |-> m]) /\ status' = UpdatedStatus(status, m)
  BY DEF ClientSends, ClientAnswers
<1>2. gwQue' \in Seq(Range(gwQue')) /\ Range(gwQue') = Range(gwQue) \cup {[from |-> "client", msg |-> m]}
  BY <1>1, PostedUp DEF Typed
<1> QED BY <1>1, <1>2 DEF UpdatedStatus, Typed, TypeOK, IdsTyped

LEMMA TypedClient ==
    ASSUME Typed, Client
    PROVE  Typed'
<1>0. Queues /\ IdsTyped /\ TypeOK
  BY DEF Typed
<1>1. ASSUME NEW m, ClientSends(m), m.type \in {"PUBLISH", "SUBSCRIBE"} => m.id \in Id,
             Unchanged4Client,
             linked' \in {linked, "connecting", "no", "asleep"}, used' \subseteq used \cup Habit,
             told' = told, unacked' \subseteq unacked \cup {m},
             m \in unacked' => m.type = "PUBLISH" /\ m.id \in Id
      PROVE  Typed'
  BY <1>0, <1>1, TypedSays
  DEF Unchanged4Client, Typed, Queues, IdsTyped, TypeOK, table, maps, task, history
<1> USE IdsFit DEF Habit
<1>2. ASSUME NEW b \in BOOLEAN, ClientConnect(b) PROVE Typed'
  BY <1>1, <1>2 DEF ClientConnect
<1>3. ASSUME NEW b \in BOOLEAN, ClientDisconnect(b) PROVE Typed'
  <2> DEFINE m == [type |-> "DISCONNECT", kind |-> "none", sleep |-> b]
  <2>1. ClientSends(m) /\ m.type = "DISCONNECT" /\ unacked' = unacked /\ told' = told /\ used' = used
        /\ linked' \in {"no", "asleep"} /\ Unchanged4Client
    BY <1>3 DEF ClientDisconnect
  <2>2. \A x \in unacked : x.type = "PUBLISH" /\ x.id \in Id
    BY <1>0 DEF IdsTyped
  <2> HIDE DEF m
  <2> QED BY <1>1, <2>1, <2>2
<1>4. ASSUME NEW m, ClientAsks(m), m.type \in {"REGISTER", "UNSUBSCRIBE"} \/ (m.type = "SUBSCRIBE" /\ m.id \in Id)
      PROVE  Typed'
  <2>1. ClientSends(m) /\ unacked' = unacked /\ told' = told /\ used' = used /\ linked' = linked
        /\ Unchanged4Client
    BY <1>4 DEF ClientAsks
  <2>2. \A x \in unacked : x.type = "PUBLISH" /\ x.id \in Id
    BY <1>0 DEF IdsTyped
  <2> QED BY <1>1, <1>4, <2>1, <2>2
<1>5. ASSUME NEW n, ClientRegister(n) PROVE Typed'
  BY <1>4, <1>5 DEF ClientRegister
<1>6. ASSUME NEW kind, NEW n, NEW id \in {0, Predefined}, ClientSubscribe(kind, n, id) PROVE Typed'
  BY <1>4, <1>6 DEF ClientSubscribe
<1>7. ASSUME NEW kind, NEW n, ClientUnsubscribe(kind, n) PROVE Typed'
  BY <1>4, <1>7 DEF ClientUnsubscribe
<1>8. ASSUME NEW q, NEW kind, NEW id \in Id, NEW n, ClientPublish(q, kind, id, n) PROVE Typed'
  <2> DEFINE m == [type |-> "PUBLISH", kind |-> kind, id |-> id, qos |-> q,
                   mid |-> IF q = 0 THEN 0 ELSE Mid, meant |-> n]
  <2>1. ClientSends(m) /\ m.type = "PUBLISH" /\ m.id \in Id /\ unacked' \subseteq unacked \cup {m}
        /\ told' = told /\ used' \subseteq used \cup Habit /\ linked' = linked /\ Unchanged4Client
    BY <1>8 DEF ClientPublish
  <2> HIDE DEF m
  <2> QED BY <1>1, <2>1
<1>9. ASSUME ClientRepeat PROVE Typed'
  <2>1. PICK m \in unacked : ClientSends(m)
    BY <1>9 DEF ClientRepeat
  <2>2. m.type = "PUBLISH" /\ m.id \in Id
    BY <1>0 DEF IdsTyped
  <2> QED BY <1>1, <1>9, <2>1, <2>2 DEF ClientRepeat
<1>10. ASSUME ClientPing PROVE Typed'
  <2> DEFINE m == [type |-> "PINGREQ", kind |-> "none", mid |-> 0]
  <2>1. ClientSends(m) /\ m.type = "PINGREQ" /\ unacked' = unacked /\ told' = told /\ used' = used
        /\ linked' = linked /\ Unchanged4Client
    BY <1>10 DEF ClientPing
  <2>2. \A x \in unacked : x.type = "PUBLISH" /\ x.id \in Id
    BY <1>0 DEF IdsTyped
  <2> HIDE DEF m
  <2> QED BY <1>1, <2>1, <2>2
<1>11. \A t \in told : t[1] \in Id
  BY <1>0 DEF IdsTyped
<1> QED BY <1>2, <1>3, <1>5, <1>6, <1>7, <1>8, <1>9, <1>10, <1>11 DEF Client

LEMMA TypedClientTakes ==
    ASSUME Typed, ClientTakes
    PROVE  Typed'
<1>0. Queues /\ IdsTyped /\ TypeOK
  BY DEF Typed
<1> DEFINE m == Head(toClient)
<1>1. /\ m \in Range(toClient) /\ toClient' \in Seq(Range(toClient'))
      /\ Range(toClient') \subseteq Range(toClient)
  BY <1>0, Tailed DEF ClientTakes, Queues
<1>2. \A t \in Tells(m) : t[1] \in Id
  BY <1>0, <1>1 DEF Tells, IdsTyped
<1>3. /\ unacked' \subseteq unacked /\ told' \subseteq told \cup Tells(m)
      /\ linked' \in {linked, "yes"}
      /\ UNCHANGED <<table, maps, sleepQue, task, toBroker, asked, used, published, history>>
  BY DEF ClientTakes
<1>4. UNCHANGED <<status, gwQue>> \/ \E t \in {"PUBREL", "PUBACK", "PUBREC"} :
                                       ClientAnswers([type |-> t, mid |-> m.mid])
  BY DEF ClientTakes
<1>5. /\ gwQue' \in Seq(Range(gwQue'))
      /\ \A e \in Range(gwQue') : e.msg.type \in {"PUBLISH", "SUBSCRIBE"} /\ e.from = "client"
                                  => e.msg.id \in Id
      /\ status' \in {"Disconnected", "TryConnecting", "Connecting", "Active", "Asleep", "Awake"}
  <2>1. CASE UNCHANGED <<status, gwQue>>
    BY <1>0, <2>1 DEF Queues, IdsTyped, TypeOK
  <2>2. ASSUME NEW t \in {"PUBREL", "PUBACK", "PUBREC"}, ClientAnswers([type |-> t, mid |-> m.mid])
        PROVE  <1>5!2 /\ <1>5!1 /\ <1>5!3
    BY <2>2, TypedSays
  <2> QED BY <1>4, <2>1, <2>2
<1> HIDE DEF m
<1> QED BY <1>0, <1>1, <1>2, <1>3, <1>5
        DEF Typed, Queues, IdsTyped, TypeOK, table, maps, task, history

LEMMA TypedBroker ==
    ASSUME Typed, Broker
    PROVE  Typed'
<1>0. Queues /\ IdsTyped /\ TypeOK
  BY DEF Typed
<1>1. ASSUME NEW m, BrokerPosts(m)
      PROVE  /\ gwQue' \in Seq(Range(gwQue'))
             /\ \A e \in Range(gwQue') : e.msg.type \in {"PUBLISH", "SUBSCRIBE"} /\ e.from = "client"
                                         => e.msg.id \in Id
  BY <1>0, <1>1, PostedUp DEF BrokerPosts, IdsTyped
<1>2. ASSUME NEW ok \in BOOLEAN, BrokerTakes(ok) PROVE Typed'
  <2>1. gwQue' = gwQue \/ \E m : BrokerPosts(m)
    BY <1>2 DEF BrokerTakes
  <2>2. /\ gwQue' \in Seq(Range(gwQue'))
        /\ \A e \in Range(gwQue') : e.msg.type \in {"PUBLISH", "SUBSCRIBE"} /\ e.from = "client"
                                    => e.msg.id \in Id
    BY <1>0, <1>1, <2>1 DEF Queues, IdsTyped
  <2>3. toBroker' \in Seq(Range(toBroker')) /\ status' \in {status, "Connecting"}
        /\ UNCHANGED <<table, maps, sleepQue, task, toClient, client, published, history>>
    BY <1>0, <1>2, Tailed DEF BrokerTakes, Queues
  <2> QED BY <1>0, <2>2, <2>3
          DEF Typed, Queues, IdsTyped, TypeOK, table, maps, task, client, history
<1>3. ASSUME NEW n \in Names, BrokerPublish(n) PROVE Typed'
  <2>1. \E m : BrokerPosts(m)
    BY <1>3 DEF BrokerPublish
  <2>2. UNCHANGED <<status, table, maps, sleepQue, task, toBroker, toClient, client, history>>
    BY <1>3 DEF BrokerPublish
  <2> QED BY <1>0, <1>1, <2>1, <2>2
          DEF Typed, Queues, IdsTyped, TypeOK, table, maps, task, client, history
<1> QED BY <1>2, <1>3 DEF Broker

LEMMA TypedInit == Init => Typed
<1> SUFFICES ASSUME Init PROVE Typed
  OBVIOUS
<1>1. Range(<< >>) = {} /\ << >> \in Seq({})
  BY DEF Range
<1>2. Range(Empty) = {}
  BY DEF Range, Empty
<1>3. Queues /\ IdsTyped
  BY <1>1, IdsFit DEF Init, Queues, IdsTyped, Idle
<1> QED BY <1>1, <1>2, <1>3, IdsFit DEF Init, Typed, TypeOK, Empty

LEMMA TypedStep == Typed /\ Numbered' /\ [Next]_vars => Typed'
<1> SUFFICES ASSUME Typed, Numbered', [Next]_vars PROVE Typed'
  OBVIOUS
<1>1. CASE UNCHANGED vars
  BY <1>1 DEF vars, Typed, Queues, IdsTyped, TypeOK, table, maps, task, client, history
<1> QED BY <1>1, TypedTask, TypedClient, TypedClientTakes, TypedBroker DEF Next

(* The status, the ids in the topics, in the two TopicIdMaps and in the    *)
(* saved messages, and the state of the control task stay within their     *)
(* types, ids within 16 bits, whatever is received.                        *)
THEOREM TypeCorrect == Spec => []TypeOK
<1>1. IdInv => Numbered
  BY DEF IdInv
<1>2. Typed => TypeOK
  BY DEF Typed
<1> QED BY <1>1, <1>2, IdInit, IdStep, TypedInit, TypedStep, PTL DEF Spec

(* r is q with something appended, or q. *)
Grown(q, r) ==
    /\ Len(q) \in Nat /\ Len(r) \in Nat /\ Len(q) <= Len(r)
    /\ DOMAIN q = 1 .. Len(q) /\ DOMAIN r = 1 .. Len(r)
    /\ \A i \in 1 .. Len(q) : r[i] = q[i]

Added(q, r) == {r[i] : i \in (Len(q) + 1) .. Len(r)}

LEMMA GrownSame ==
    ASSUME NEW q, q \in Seq(Range(q))
    PROVE  Grown(q, q) /\ Added(q, q) = {}
<1>1. Len(q) \in Nat /\ DOMAIN q = 1 .. Len(q)
  OBVIOUS
<1> QED BY <1>1 DEF Grown, Added

LEMMA GrownAppend ==
    ASSUME NEW q, q \in Seq(Range(q)), NEW e
    PROVE  Grown(q, Append(q, e)) /\ Added(q, Append(q, e)) = {e}
<1>1. PICK r : r = Append(q, e)
  OBVIOUS
<1>2. /\ Len(q) \in Nat /\ Len(r) = Len(q) + 1
      /\ DOMAIN q = 1 .. Len(q) /\ DOMAIN r = 1 .. (Len(q) + 1)
      /\ r[Len(q) + 1] = e /\ \A i \in 1 .. Len(q) : r[i] = q[i]
  BY <1>1, Appended
<1>3. Grown(q, r)
  BY <1>2 DEF Grown
<1>4. \A i : i \in (Len(q) + 1) .. Len(r) <=> i = Len(q) + 1
  BY <1>2
<1>5. Added(q, r) = {e}
  BY <1>2, <1>4 DEF Added
<1> QED BY <1>1, <1>3, <1>5

(* What a step of the control task does to the queues: it takes the event  *)
(* at their head or none, appends messages, and leaves the client alone.   *)
Answers(B, D) ==
    /\ Grown(toBroker, toBroker') /\ Added(toBroker, toBroker') \subseteq B
    /\ Grown(toClient, toClient') /\ Added(toClient, toClient') \subseteq D

LEMMA AnswersNone ==
    ASSUME Queues, UNCHANGED <<toBroker, toClient>>
    PROVE  Answers({}, {})
BY GrownSame DEF Answers, Queues

LEMMA AnswersUp ==
    ASSUME Queues, NEW m, Forward(m), UNCHANGED toClient
    PROVE  Answers({m}, {})
BY GrownSame, GrownAppend DEF Answers, Queues, Forward

LEMMA AnswersDown ==
    ASSUME Queues, NEW m, Reply(m), UNCHANGED toBroker
    PROVE  Answers({}, {m})
BY GrownSame, GrownAppend DEF Answers, Queues, Reply

LEMMA AnswersBoth ==
    ASSUME Queues, NEW m, NEW n, Forward(m), Reply(n)
    PROVE  Answers({m}, {n})
BY GrownAppend DEF Answers, Queues, Reply, Forward

LEMMA AnswersHere ==
    ASSUME Queues, SnSubscribeHere
    PROVE  Answers({}, {Suback4(Msg.id = Predefined), Suback4(FALSE), TimeMsg})
<1>1. UNCHANGED toBroker
  BY DEF SnSubscribeHere
<1>2. Grown(toBroker, toBroker') /\ Added(toBroker, toBroker') = {}
  BY <1>1, GrownSame DEF Queues
<1>3. /\ DOMAIN toClient = 1 .. Len(toClient) /\ DOMAIN toClient' = 1 .. Len(toClient')
      /\ Len(toClient) \in Nat /\ Len(toClient') \in Nat /\ Len(toClient') > Len(toClient)
      /\ \A i \in 1 .. Len(toClient) : toClient'[i] = toClient[i]
      /\ \A i \in (Len(toClient) + 1) .. Len(toClient') :
            toClient'[i] \in {Suback4(Msg.id = Predefined), Suback4(FALSE), TimeMsg}
  BY Told4Here DEF Queues
<1>4. PICK S : S = {Suback4(Msg.id = Predefined), Suback4(FALSE), TimeMsg}
  OBVIOUS
<1>5. \A i \in (Len(toClient) + 1) .. Len(toClient') : toClient'[i] \in S
  BY <1>3, <1>4
<1>6. Grown(toClient, toClient') /\ Added(toClient, toClient') \subseteq S
  BY <1>3, <1>5 DEF Grown, Added
<1> QED BY <1>2, <1>4, <1>6 DEF Answers

(* What the control task answers to, and with what: the queue of events is *)
(* taken from, the client is left alone.                                   *)
LEMMA TaskStep ==
    ASSUME Queues, GatewayControlTask
    PROVE  /\ gwQue' = gwQue \/ (gwQue # << >> /\ gwQue' = Tail(gwQue) /\ at = "idle")
           /\ UNCHANGED <<client, published>>
           /\ at = "flushing" => at' = "flushing"
BY DEF GatewayControlTask, SnPublishForward, SnPublishReject, SnSubscribe,
     SnSubscribeHere, SnUnsubscribe, SnUnsubscribeHere, SnConnect, SnDisconnect, SnRegister,
     SnPass, Puback, Suback, Connack, Flush, PublishTopic, RegisterAsleep, RegisterActive,
     PublishAsleep, PublishActive, Pass, Take, task

-----------------------------------------------------------------------------
(* The dialogue that connects a client: as long as it does not repeat its  *)
(* CONNECT there is one message of it under way, and only while the client *)
(* waits for its end.                                                      *)
Faithful == "repeated" \notin used

IsConnect(e) == e.from = "client" /\ e.msg.type = "CONNECT"
IsConnack(e) == e.from = "broker" /\ e.msg.type = "CONNACK"

AtGateway(i) == IsConnect(gwQue[i]) \/ IsConnack(gwQue[i])
AtBroker(i) == toBroker[i].type = "CONNECT"
AtClient(i) == toClient[i].type = "CONNACK"

OneConnect ==
    /\ \A i, j \in DOMAIN gwQue : AtGateway(i) /\ AtGateway(j) => i = j
    /\ \A i, j \in DOMAIN toBroker : AtBroker(i) /\ AtBroker(j) => i = j
    /\ \A i, j \in DOMAIN toClient : AtClient(i) /\ AtClient(j) => i = j
    /\ \A i \in DOMAIN gwQue, j \in DOMAIN toBroker : ~(AtGateway(i) /\ AtBroker(j))
    /\ \A i \in DOMAIN gwQue, j \in DOMAIN toClient : ~(AtGateway(i) /\ AtClient(j))
    /\ \A i \in DOMAIN toBroker, j \in DOMAIN toClient : ~(AtBroker(i) /\ AtClient(j))
    /\ \A i \in DOMAIN gwQue : AtGateway(i) => linked = "connecting"
    /\ \A i \in DOMAIN toBroker : AtBroker(i) => linked = "connecting"
    /\ \A i \in DOMAIN toClient : AtClient(i) => linked = "connecting"

(* While it waits, the CONNECT is behind everything it asked before. *)
OfSession(e) == e.from = "client" /\ e.msg.type \in {"PUBLISH", "REGISTER", "SUBSCRIBE"}

Heralded ==
    linked = "connecting" =>
        \A j \in DOMAIN gwQue : OfSession(gwQue[j]) =>
            \E i \in DOMAIN gwQue : i > j /\ IsConnect(gwQue[i])

Dialogue == Faithful => OneConnect /\ Heralded

(* Steps that neither take nor send a message of the dialogue. *)
LEMMA HeraldedTail ==
    ASSUME Queues, Heralded, gwQue # << >>, gwQue' = Tail(gwQue),
           ~IsConnect(Head(gwQue)), linked' = linked
    PROVE  Heralded'
<1>1. /\ Len(gwQue) \in Nat \ {0} /\ DOMAIN gwQue = 1 .. Len(gwQue)
      /\ DOMAIN gwQue' = 1 .. (Len(gwQue) - 1) /\ Head(gwQue) = gwQue[1]
      /\ \A i \in 1 .. (Len(gwQue) - 1) : gwQue'[i] = gwQue[i + 1]
  BY Tailed DEF Queues
<1> SUFFICES ASSUME linked = "connecting", NEW j \in DOMAIN gwQue', OfSession(gwQue'[j])
             PROVE  \E i \in DOMAIN gwQue' : i > j /\ IsConnect(gwQue'[i])
  BY DEF Heralded, OfSession, IsConnect
<1>2. j + 1 \in DOMAIN gwQue /\ OfSession(gwQue[j + 1])
  BY <1>1
<1>3. PICK i \in DOMAIN gwQue : i > j + 1 /\ IsConnect(gwQue[i])
  BY <1>2 DEF Heralded
<1>4. i - 1 \in DOMAIN gwQue' /\ i - 1 > j /\ gwQue'[i - 1] = gwQue[i]
  BY <1>1, <1>2, <1>3
<1> QED BY <1>3, <1>4

LEMMA OneTail ==
    ASSUME Queues, gwQue # << >>, gwQue' = Tail(gwQue)
    PROVE  /\ \A i \in DOMAIN gwQue' : i + 1 \in DOMAIN gwQue /\ gwQue'[i] = gwQue[i + 1]
           /\ 1 \in DOMAIN gwQue /\ gwQue[1] = Head(gwQue)
           /\ \A i \in DOMAIN gwQue' : i \in Nat /\ i + 1 # 1
BY Tailed DEF Queues

LEMMA GrownOld ==
    ASSUME NEW q, NEW r, Grown(q, r)
    PROVE  \A i \in DOMAIN r : (i \in DOMAIN q /\ r[i] = q[i]) \/ r[i] \in Added(q, r)
BY DEF Grown, Added

(* The control task, apart from the handlers of CONNECT and CONNACK. *)
LEMMA DialogueQuiet ==
    ASSUME Queues, OneConnect, Heralded, UNCHANGED linked,
           gwQue' = gwQue \/ (gwQue # << >> /\ gwQue' = Tail(gwQue) /\ ~AtGateway(1)),
           NEW B, NEW D, Answers(B, D),
           \A m \in B : m.type # "CONNECT", \A m \in D : m.type # "CONNACK"
    PROVE  OneConnect' /\ Heralded'
<1>1. \A i \in DOMAIN toBroker' : AtBroker(i)' => i \in DOMAIN toBroker /\ AtBroker(i)
  BY GrownOld DEF Answers, AtBroker
<1>2. \A i \in DOMAIN toClient' : AtClient(i)' => i \in DOMAIN toClient /\ AtClient(i)
  BY GrownOld DEF Answers, AtClient
<1>3. CASE gwQue' = gwQue
  <2>1. \A i \in DOMAIN gwQue' : AtGateway(i)' => i \in DOMAIN gwQue /\ AtGateway(i)
    BY <1>3 DEF AtGateway, IsConnect, IsConnack
  <2>2. Heralded'
    BY <1>3 DEF Heralded, OfSession, IsConnect
  <2> QED BY <1>1, <1>2, <2>1, <2>2 DEF OneConnect
<1>4. CASE gwQue # << >> /\ gwQue' = Tail(gwQue) /\ ~AtGateway(1)
  <2>1. \A i \in DOMAIN gwQue' : /\ i \in Nat
                                 /\ AtGateway(i)' => i + 1 \in DOMAIN gwQue /\ AtGateway(i + 1)
    BY <1>4, OneTail DEF AtGateway, IsConnect, IsConnack
  <2>2. Heralded'
    BY <1>4, OneTail, HeraldedTail DEF AtGateway
  <2> QED BY <1>1, <1>2, <2>1, <2>2 DEF OneConnect
<1> QED BY <1>3, <1>4
LEMMA TookQuiet ==
    ASSUME Queues, NEW from, NEW type, Take(from, type), type \notin {"CONNECT", "CONNACK"}
    PROVE  gwQue # << >> /\ gwQue' = Tail(gwQue) /\ ~AtGateway(1)
<1>1. gwQue # << >> /\ gwQue' = Tail(gwQue) /\ Head(gwQue).msg.type = type
  BY DEF Take
<1> QED BY <1>1, OneTail DEF AtGateway, IsConnect, IsConnack

LEMMA TookFirst ==
    ASSUME Queues, NEW from, NEW type, Take(from, type)
    PROVE  /\ gwQue # << >> /\ gwQue' = Tail(gwQue) /\ 1 \in DOMAIN gwQue
           /\ gwQue[1].from = from /\ gwQue[1].msg.type = type /\ gwQue[1].msg = Msg
BY OneTail DEF Take, Msg

(* The handler of CONNECT: everything before it has been handled. *)
LEMMA DialogueConnect ==
    ASSUME Queues, OneConnect, Heralded, SnConnect
    PROVE  OneConnect' /\ Heralded' /\ \A e \in Range(gwQue) : ~OfSession(e)
<1>1. Take("client", "CONNECT") /\ UNCHANGED <<toClient, linked>>
  BY DEF SnConnect, client
<1>2. 1 \in DOMAIN gwQue /\ IsConnect(gwQue[1]) /\ AtGateway(1)
  BY <1>1, TookFirst DEF IsConnect, AtGateway
<1>3. \A i \in DOMAIN gwQue : AtGateway(i) => i = 1
  BY <1>2 DEF OneConnect
<1>4. linked = "connecting"
  BY <1>2 DEF OneConnect
<1>5. \A i \in DOMAIN gwQue : i \in Nat /\ i >= 1
  <2>1. DOMAIN gwQue = 1 .. Len(gwQue) /\ Len(gwQue) \in Nat
    BY DEF Queues
  <2> QED BY <2>1
<1>6. \A j \in DOMAIN gwQue : ~OfSession(gwQue[j])
  <2> SUFFICES ASSUME NEW j \in DOMAIN gwQue, OfSession(gwQue[j]) PROVE FALSE
    OBVIOUS
  <2>1. PICK i \in DOMAIN gwQue : i > j /\ IsConnect(gwQue[i])
    BY <1>4 DEF Heralded
  <2>2. i = 1
    BY <1>3, <2>1 DEF AtGateway
  <2> QED BY <1>5, <2>1, <2>2
<1>7. \A i \in DOMAIN gwQue' : i + 1 \in DOMAIN gwQue /\ gwQue'[i] = gwQue[i + 1] /\ i + 1 # 1
  BY <1>1, TookFirst, OneTail
<1>8. \A i \in DOMAIN gwQue' : ~AtGateway(i)'
  BY <1>3, <1>7 DEF AtGateway, IsConnect, IsConnack
<1>9. Heralded'
  BY <1>6, <1>7 DEF Heralded, OfSession
<1>10. \A i, j \in DOMAIN toBroker' : AtBroker(i)' /\ AtBroker(j)' => i = j
  <2>1. \A i \in DOMAIN toBroker : ~AtBroker(i)
    BY <1>2 DEF OneConnect
  <2>2. CASE UNCHANGED toBroker
    BY <2>1, <2>2 DEF AtBroker
  <2>3. ASSUME NEW m, Forward(m) PROVE <1>10!:
    <3>1. PICK r : r = toBroker'
      OBVIOUS
    <3>2. DOMAIN r = 1 .. (Len(toBroker) + 1) /\ DOMAIN toBroker = 1 .. Len(toBroker)
          /\ Len(toBroker) \in Nat /\ \A i \in 1 .. Len(toBroker) : r[i] = toBroker[i]
      BY <2>3, <3>1, Appended DEF Forward, Queues
    <3>3. \A i \in DOMAIN r : r[i].type = "CONNECT" => i = Len(toBroker) + 1
      BY <2>1, <3>2 DEF AtBroker
    <3> QED BY <3>1, <3>3 DEF AtBroker
  <2> QED BY <2>2, <2>3 DEF SnConnect
<1>11. \A i \in DOMAIN toClient : ~AtClient(i)
  BY <1>2 DEF OneConnect
<1>12. OneConnect'
  BY <1>1, <1>4, <1>8, <1>10, <1>11 DEF OneConnect, AtClient
<1> QED BY <1>6, <1>9, <1>12 DEF Range

LEMMA DialogueConnack ==
    ASSUME Queues, OneConnect, Heralded, Connack
    PROVE  OneConnect' /\ Heralded'
<1>1. Take("broker", "CONNACK") /\ UNCHANGED <<toBroker, linked>> /\ Reply([type |-> "CONNACK"])
  BY DEF Connack, client
<1>2. /\ 1 \in DOMAIN gwQue /\ IsConnack(gwQue[1]) /\ AtGateway(1)
      /\ Head(gwQue) = gwQue[1] /\ ~IsConnect(gwQue[1])
  BY <1>1, TookFirst, OneTail DEF IsConnack, IsConnect, AtGateway
<1>3. \A i \in DOMAIN gwQue : AtGateway(i) => i = 1
  BY <1>2 DEF OneConnect
<1>4. linked = "connecting"
  BY <1>2 DEF OneConnect
<1>5. \A i \in DOMAIN gwQue' : i + 1 \in DOMAIN gwQue /\ gwQue'[i] = gwQue[i + 1] /\ i + 1 # 1
  BY <1>1, TookFirst, OneTail
<1>6. \A i \in DOMAIN gwQue' : ~AtGateway(i)'
  BY <1>3, <1>5 DEF AtGateway, IsConnect, IsConnack
<1>7. Heralded'
  BY <1>1, <1>2, TookFirst, HeraldedTail
<1>8. \A i \in DOMAIN toBroker : ~AtBroker(i)
  BY <1>2 DEF OneConnect
<1>9. \A i, j \in DOMAIN toClient' : AtClient(i)' /\ AtClient(j)' => i = j
  <2>1. \A i \in DOMAIN toClient : ~AtClient(i)
    BY <1>2 DEF OneConnect
  <2>2. PICK r : r = toClient'
    OBVIOUS
  <2>3. DOMAIN r = 1 .. (Len(toClient) + 1) /\ DOMAIN toClient = 1 .. Len(toClient)
        /\ Len(toClient) \in Nat /\ \A i \in 1 .. Len(toClient) : r[i] = toClient[i]
    BY <1>1, <2>2, Appended DEF Reply, Queues
  <2>4. \A i \in DOMAIN r : r[i].type = "CONNACK" => i = Len(toClient) + 1
    BY <2>1, <2>3 DEF AtClient
  <2> QED BY <2>2, <2>4 DEF AtClient
<1>10. OneConnect'
  BY <1>1, <1>4, <1>6, <1>8, <1>9 DEF OneConnect, AtBroker
<1> QED BY <1>7, <1>10

LEMMA DialogueTask ==
    ASSUME Typed, OneConnect, Heralded, GatewayControlTask
    PROVE  OneConnect' /\ Heralded'
<1> USE DEF Typed
<1>0. UNCHANGED linked
  BY TaskStep DEF client
<1> DEFINE Quiet == gwQue' = gwQue \/ (gwQue # << >> /\ gwQue' = Tail(gwQue) /\ ~AtGateway(1))
<1>a. ASSUME NEW from, NEW type, Take(from, type), type \notin {"CONNECT", "CONNACK"}
      PROVE  Quiet
  BY <1>a, TookQuiet
<1> HIDE DEF Quiet
<1>b. ASSUME NEW B, NEW D, Answers(B, D), Quiet,
             \A m \in B : m.type # "CONNECT", \A m \in D : m.type # "CONNACK"
      PROVE  OneConnect' /\ Heralded'
  BY <1>0, <1>b, DialogueQuiet DEF Quiet
<1>none. ASSUME Quiet, UNCHANGED <<toBroker, toClient>> PROVE OneConnect' /\ Heralded'
  <2>1. Answers({}, {})
    BY <1>none, AnswersNone
  <2> QED BY <1>b, <1>none, <2>1
<1>up. ASSUME Quiet, NEW m, Forward(m), UNCHANGED toClient, m.type # "CONNECT"
       PROVE  OneConnect' /\ Heralded'
  <2>1. Answers({m}, {})
    BY <1>up, AnswersUp
  <2> QED BY <1>b, <1>up, <2>1
<1>down. ASSUME Quiet, NEW m, Reply(m), UNCHANGED toBroker, m.type # "CONNACK"
         PROVE  OneConnect' /\ Heralded'
  <2>1. Answers({}, {m})
    BY <1>down, AnswersDown
  <2> QED BY <1>b, <1>down, <2>1
<1>2. CASE SnConnect
  BY <1>2, DialogueConnect
<1>3. CASE Connack
  BY <1>3, DialogueConnack
<1>4. CASE SnPublishForward \/ SnSubscribe \/ SnUnsubscribe
  <2>1. PICK m : Forward(m) /\ m.type \in {"PUBLISH", "SUBSCRIBE", "UNSUBSCRIBE"}
    <3>1. CASE SnPublishForward
      BY <3>1 DEF SnPublishForward
    <3>2. CASE SnSubscribe \/ SnUnsubscribe
      BY <3>2 DEF SnSubscribe, SnUnsubscribe
    <3> QED BY <1>4, <3>1, <3>2
  <2>2. Quiet /\ UNCHANGED toClient
    BY <1>4, <1>a DEF SnPublishForward, SnSubscribe, SnUnsubscribe
  <2> QED BY <1>up, <2>1, <2>2
<1>5. CASE SnPublishReject \/ Puback \/ Suback
  <2>1. Quiet /\ UNCHANGED toBroker
    BY <1>5, <1>a DEF SnPublishReject, Puback, Suback
  <2>2. UNCHANGED toClient \/ \E m : Reply(m) /\ m.type \in {"PUBACK", "SUBACK"}
    BY <1>5 DEF SnPublishReject, Puback, Suback
  <2> QED BY <1>none, <1>down, <2>1, <2>2
<1>6. CASE SnSubscribeHere
  <2>1. Quiet
    BY <1>6, <1>a DEF SnSubscribeHere
  <2>2. PICK D : D = {Suback4(Msg.id = Predefined), Suback4(FALSE), TimeMsg}
    OBVIOUS
  <2>3. \A m \in D : m.type # "CONNACK"
    BY <2>2 DEF Suback4, TimeMsg
  <2>4. Answers({}, D)
    BY <1>6, <2>2, AnswersHere
  <2> QED BY <1>b, <2>1, <2>3, <2>4
<1>7. CASE SnDisconnect
  <2>1. PICK m, n : Forward(m) /\ Reply(n) /\ m.type = "DISCONNECT" /\ n.type = "DISCONNECT"
    BY <1>7 DEF SnDisconnect
  <2>2. Answers({m}, {n})
    BY <2>1, AnswersBoth
  <2>3. Quiet
    BY <1>7, <1>a DEF SnDisconnect
  <2> QED BY <1>b, <2>1, <2>2, <2>3
<1>8. CASE SnUnsubscribeHere \/ SnRegister
  <2>1. PICK m : Reply(m) /\ m.type \in {"UNSUBACK", "REGACK"}
    BY <1>8 DEF SnUnsubscribeHere, SnRegister
  <2>2. Quiet /\ UNCHANGED toBroker
    BY <1>8, <1>a DEF SnUnsubscribeHere, SnRegister
  <2> QED BY <1>down, <2>1, <2>2
<1>9. ASSUME NEW t \in {"PUBACK", "PUBREC", "PUBREL", "PUBCOMP", "PINGREQ"}, SnPass(t)
      PROVE  OneConnect' /\ Heralded'
  <2>1. PICK m : Forward(m) /\ m.type = t
    BY <1>9 DEF SnPass
  <2>2. Quiet /\ UNCHANGED toClient
    BY <1>9, <1>a DEF SnPass
  <2> QED BY <1>up, <2>1, <2>2
<1>10. ASSUME NEW t \in {"PUBREC", "PUBREL", "PUBCOMP", "UNSUBACK", "PINGRESP"}, Pass(t)
       PROVE  OneConnect' /\ Heralded'
  <2>1. PICK m : Reply(m) /\ m.type = t
    BY <1>10 DEF Pass
  <2>2. Quiet /\ UNCHANGED toBroker
    BY <1>10, <1>a DEF Pass
  <2> QED BY <1>down, <2>1, <2>2
<1>11. CASE PublishTopic \/ RegisterAsleep \/ PublishAsleep
  <2>1. Quiet /\ UNCHANGED <<toBroker, toClient>>
    BY <1>11, <1>a DEF PublishTopic, RegisterAsleep, PublishAsleep, Quiet
  <2> QED BY <1>none, <2>1
<1>12. CASE RegisterActive \/ PublishActive
  <2>1. Quiet /\ UNCHANGED toBroker
    BY <1>12 DEF RegisterActive, PublishActive, Quiet
  <2>2. UNCHANGED toClient \/ \E m : Reply(m) /\ m.type \in {"REGISTER", "PUBLISH"}
    BY <1>12 DEF RegisterActive, PublishActive, RegisterMsg, PublishMsg
  <2> QED BY <1>none, <1>down, <2>1, <2>2
<1>13. CASE Flush
  <2>1. Quiet /\ UNCHANGED toBroker /\ Reply(Head(sleepQue)) /\ sleepQue # << >>
    BY <1>13 DEF Flush, Quiet, IdsTyped
  <2>2. Head(sleepQue).type # "CONNACK"
    BY <2>1, Tailed DEF Queues, TypeOK
  <2> QED BY <1>down, <2>1, <2>2
<1> QED BY <1>2, <1>3, <1>4, <1>5, <1>6, <1>7, <1>8, <1>9, <1>10, <1>11, <1>12, <1>13
        DEF GatewayControlTask
(* The client says something, or the broker posts. *)
LEMMA GrownGateway ==
    ASSUME Queues, NEW e, gwQue' = Append(gwQue, e)
    PROVE  /\ Len(gwQue) \in Nat /\ DOMAIN gwQue = 1 .. Len(gwQue)
           /\ DOMAIN gwQue' = 1 .. (Len(gwQue) + 1) /\ gwQue'[Len(gwQue) + 1] = e
           /\ \A i \in DOMAIN gwQue : gwQue'[i] = gwQue[i] /\ i \in DOMAIN gwQue' /\ i < Len(gwQue) + 1
           /\ \A i \in DOMAIN gwQue' : i \in DOMAIN gwQue \/ i = Len(gwQue) + 1
           /\ Len(gwQue) + 1 \in DOMAIN gwQue'
<1>1. PICK r : r = gwQue'
  OBVIOUS
<1>2. /\ Len(gwQue) \in Nat /\ DOMAIN gwQue = 1 .. Len(gwQue)
      /\ DOMAIN r = 1 .. (Len(gwQue) + 1) /\ r[Len(gwQue) + 1] = e
      /\ \A i \in 1 .. Len(gwQue) : r[i] = gwQue[i]
  BY <1>1, Appended DEF Queues
<1> QED BY <1>1, <1>2

LEMMA DialogueOpen ==
    ASSUME Queues, OneConnect, linked # "connecting"
    PROVE  /\ \A i \in DOMAIN gwQue : ~AtGateway(i)
           /\ \A i \in DOMAIN toBroker : ~AtBroker(i)
           /\ \A i \in DOMAIN toClient : ~AtClient(i)
BY DEF OneConnect

LEMMA DialogueSays ==
    ASSUME Queues, OneConnect, linked # "connecting", linked' # "connecting",
           NEW e, gwQue' = Append(gwQue, e), ~IsConnect(e), ~IsConnack(e),
           UNCHANGED <<toBroker, toClient>>
    PROVE  OneConnect' /\ Heralded'
<1>1. \A i \in DOMAIN gwQue' : ~AtGateway(i)'
  BY DialogueOpen, GrownGateway DEF AtGateway, IsConnect, IsConnack
<1> QED BY <1>1, DialogueOpen DEF OneConnect, Heralded, AtBroker, AtClient

LEMMA DialogueClient ==
    ASSUME Typed, Dialogue, Client
    PROVE  Dialogue'
<1>0. Queues /\ \A m \in unacked : m.type = "PUBLISH"
  BY DEF Typed, IdsTyped
<1>1. ASSUME NEW b \in BOOLEAN, ClientConnect(b), Faithful' PROVE OneConnect' /\ Heralded'
  <2>1. linked # "connecting" /\ Faithful /\ linked' = "connecting"
    BY <1>1 DEF ClientConnect, Faithful
  <2>2. PICK e : /\ IsConnect(e) /\ ~OfSession(e) /\ gwQue' = Append(gwQue, e)
                 /\ UNCHANGED <<toBroker, toClient>>
    BY <1>1 DEF ClientConnect, ClientSends, Unchanged4Client, IsConnect, OfSession
  <2>3. /\ \A i \in DOMAIN gwQue : ~AtGateway(i)
        /\ \A i \in DOMAIN toBroker : ~AtBroker(i)
        /\ \A i \in DOMAIN toClient : ~AtClient(i)
    BY <1>0, <2>1, DialogueOpen DEF Dialogue
  <2>4. \A i \in DOMAIN gwQue' : AtGateway(i)' => i = Len(gwQue) + 1
    BY <1>0, <2>2, <2>3, GrownGateway DEF AtGateway, IsConnect, IsConnack
  <2>5. OneConnect'
    BY <2>1, <2>2, <2>3, <2>4 DEF OneConnect, AtBroker, AtClient
  <2>6. Heralded'
    BY <1>0, <2>2, GrownGateway DEF Heralded, OfSession, IsConnect
  <2> QED BY <2>5, <2>6
<1>2. ASSUME NEW m, ClientSends(m), m.type # "CONNECT", Unchanged4Client, linked # "connecting",
             linked' # "connecting", used \subseteq used'
      PROVE  Dialogue'
  <2>1. gwQue' = Append(gwQue, [from |-> "client", msg |-> m]) /\ UNCHANGED <<toBroker, toClient>>
    BY <1>2 DEF ClientSends, Unchanged4Client
  <2>2. PICK e : e = [from |-> "client", msg |-> m]
    OBVIOUS
  <2>3. ~IsConnect(e) /\ ~IsConnack(e)
    BY <1>2, <2>2 DEF IsConnect, IsConnack
  <2> QED BY <1>0, <1>2, <2>1, <2>2, <2>3, DialogueSays DEF Dialogue, Faithful
<1>3. ASSUME NEW b \in BOOLEAN, ClientDisconnect(b) PROVE Dialogue'
  BY <1>2, <1>3 DEF ClientDisconnect
<1>4. ASSUME NEW m, ClientAsks(m), m.type # "CONNECT" PROVE Dialogue'
  BY <1>2, <1>4 DEF ClientAsks
<1>5. ASSUME NEW n, ClientRegister(n) PROVE Dialogue'
  BY <1>4, <1>5 DEF ClientRegister
<1>6. ASSUME NEW kind, NEW n, NEW id, ClientSubscribe(kind, n, id) PROVE Dialogue'
  BY <1>4, <1>6 DEF ClientSubscribe
<1>7. ASSUME NEW kind, NEW n, ClientUnsubscribe(kind, n) PROVE Dialogue'
  BY <1>4, <1>7 DEF ClientUnsubscribe
<1>8. ASSUME NEW q, NEW kind, NEW id, NEW n, ClientPublish(q, kind, id, n) PROVE Dialogue'
  BY <1>2, <1>8 DEF ClientPublish
<1>9. ASSUME ClientRepeat PROVE Dialogue'
  BY <1>0, <1>2, <1>9 DEF ClientRepeat
<1>10. ASSUME ClientPing PROVE Dialogue'
  BY <1>2, <1>10 DEF ClientPing
<1>11. ASSUME NEW b \in BOOLEAN, ClientConnect(b) PROVE Dialogue'
  BY <1>1, <1>11 DEF Dialogue
<1> QED BY <1>3, <1>5, <1>6, <1>7, <1>8, <1>9, <1>10, <1>11 DEF Client

LEMMA ShrunkClient ==
    ASSUME Queues, toClient # << >>, toClient' = Tail(toClient)
    PROVE  /\ \A i \in DOMAIN toClient' : /\ i \in Nat /\ i + 1 \in DOMAIN toClient /\ i + 1 # 1
                                          /\ toClient'[i] = toClient[i + 1]
           /\ 1 \in DOMAIN toClient /\ toClient[1] = Head(toClient)
BY Tailed DEF Queues

LEMMA ShrunkBroker ==
    ASSUME Queues, toBroker # << >>, toBroker' = Tail(toBroker)
    PROVE  /\ \A i \in DOMAIN toBroker' : /\ i \in Nat /\ i + 1 \in DOMAIN toBroker /\ i + 1 # 1
                                          /\ toBroker'[i] = toBroker[i + 1]
           /\ 1 \in DOMAIN toBroker /\ toBroker[1] = Head(toBroker)
BY Tailed DEF Queues

LEMMA DialogueTakes ==
    ASSUME Queues, OneConnect, Heralded, ClientTakes
    PROVE  OneConnect' /\ Heralded'
<1>1. /\ toClient # << >> /\ toClient' = Tail(toClient) /\ UNCHANGED toBroker
      /\ linked' = IF Head(toClient).type = "CONNACK" /\ linked = "connecting" THEN "yes" ELSE linked
  BY DEF ClientTakes
<1>2. \A i \in DOMAIN toClient' : AtClient(i)' => /\ i \in Nat /\ i + 1 \in DOMAIN toClient
                                                  /\ AtClient(i + 1) /\ i + 1 # 1
  BY <1>1, ShrunkClient DEF AtClient
<1>3. AtClient(1) <=> Head(toClient).type = "CONNACK"
  BY <1>1, ShrunkClient DEF AtClient
<1>4. CASE AtClient(1)
  <2>1. linked = "connecting" /\ linked' = "yes" /\ UNCHANGED gwQue
    BY <1>1, <1>3, <1>4, ShrunkClient DEF OneConnect, ClientTakes
  <2>2. \A i \in DOMAIN toClient' : ~AtClient(i)'
    BY <1>1, <1>2, <1>4, ShrunkClient DEF OneConnect
  <2>3. /\ \A i \in DOMAIN gwQue : ~AtGateway(i)
        /\ \A i \in DOMAIN toBroker : ~AtBroker(i)
    BY <1>1, <1>4, ShrunkClient DEF OneConnect
  <2> QED BY <1>1, <2>1, <2>2, <2>3 DEF OneConnect, Heralded, AtGateway, IsConnect, IsConnack, AtBroker
<1>5. CASE ~AtClient(1) /\ UNCHANGED gwQue
  <2>1. linked' = linked
    BY <1>1, <1>3, <1>5
  <2>2. OneConnect'
    BY <1>1, <1>2, <1>5, <2>1 DEF OneConnect, AtGateway, IsConnect, IsConnack, AtBroker
  <2> QED BY <1>5, <2>1, <2>2 DEF Heralded, OfSession, IsConnect
<1>6. ASSUME ~AtClient(1), NEW e, gwQue' = Append(gwQue, e), ~IsConnect(e), ~IsConnack(e), linked = "yes"
      PROVE  OneConnect' /\ Heralded'
  <2>1. linked' = "yes"
    BY <1>1, <1>3, <1>6
  <2>2. \A i \in DOMAIN gwQue' : ~AtGateway(i)'
    BY <1>6, DialogueOpen, GrownGateway DEF AtGateway, IsConnect, IsConnack
  <2>3. /\ \A i \in DOMAIN toBroker : ~AtBroker(i)
        /\ \A i \in DOMAIN toClient' : ~AtClient(i)'
    BY <1>2, <1>6, DialogueOpen
  <2> QED BY <1>1, <2>1, <2>2, <2>3 DEF OneConnect, Heralded, AtBroker
<1>7. UNCHANGED gwQue \/ (linked = "yes" /\ \E e : gwQue' = Append(gwQue, e) /\ ~IsConnect(e) /\ ~IsConnack(e))
  <2>1. UNCHANGED gwQue \/ (linked = "yes" /\ \E t \in {"PUBREL", "PUBACK", "PUBREC"} :
                gwQue' = Append(gwQue, [from |-> "client", msg |-> [type |-> t, mid |-> Head(toClient).mid]]))
    BY DEF ClientTakes, ClientAnswers
  <2> QED BY <2>1 DEF IsConnect, IsConnack
<1> QED BY <1>1, <1>3, <1>4, <1>5, <1>6, <1>7

LEMMA DialogueBroker ==
    ASSUME Queues, OneConnect, Heralded, Broker
    PROVE  OneConnect' /\ Heralded'
<1>1. UNCHANGED <<toClient, linked>>
  BY DEF Broker, BrokerTakes, BrokerPublish, client
<1>2. ASSUME NEW n \in Names, BrokerPublish(n) PROVE OneConnect' /\ Heralded'
  <2>1. PICK e : gwQue' = Append(gwQue, e) /\ ~IsConnect(e) /\ ~IsConnack(e) /\ ~OfSession(e)
                 /\ UNCHANGED toBroker
    BY <1>2 DEF BrokerPublish, BrokerPosts, IsConnect, IsConnack, OfSession
  <2>2. \A i \in DOMAIN gwQue' : AtGateway(i)' => i \in DOMAIN gwQue /\ AtGateway(i)
    BY <2>1, GrownGateway DEF AtGateway, IsConnect, IsConnack
  <2>3. OneConnect'
    BY <1>1, <2>1, <2>2 DEF OneConnect, AtClient, AtBroker
  <2>4. Heralded'
    BY <1>1, <2>1, GrownGateway DEF Heralded, OfSession, IsConnect
  <2> QED BY <2>3, <2>4
<1>3. ASSUME NEW ok \in BOOLEAN, BrokerTakes(ok) PROVE OneConnect' /\ Heralded'
  <2>1. toBroker # << >> /\ toBroker' = Tail(toBroker)
    BY <1>3 DEF BrokerTakes
  <2>2. \A i \in DOMAIN toBroker' : AtBroker(i)' => /\ i \in Nat /\ i + 1 \in DOMAIN toBroker
                                                    /\ AtBroker(i + 1) /\ i + 1 # 1
    BY <2>1, ShrunkBroker DEF AtBroker
  <2>3. AtBroker(1) <=> Head(toBroker).type = "CONNECT"
    BY <2>1, ShrunkBroker DEF AtBroker
  <2>4. CASE AtBroker(1)
    <3>1. gwQue' = Append(gwQue, [from |-> "broker", msg |-> [type |-> "CONNACK", mid |-> 0]])
      BY <1>3, <2>3, <2>4 DEF BrokerTakes, BrokerReply, BrokerPosts
    <3>2. linked = "connecting" /\ (\A i \in DOMAIN gwQue : ~AtGateway(i))
          /\ (\A i \in DOMAIN toClient : ~AtClient(i))
      BY <2>1, <2>4, ShrunkBroker DEF OneConnect
    <3>3. \A i \in DOMAIN toBroker' : ~AtBroker(i)'
      BY <2>1, <2>2, <2>4, ShrunkBroker DEF OneConnect
    <3>4. \A i \in DOMAIN gwQue' : AtGateway(i)' => i = Len(gwQue) + 1
      BY <3>1, <3>2, GrownGateway DEF AtGateway, IsConnect, IsConnack
    <3>5. OneConnect'
      BY <1>1, <3>2, <3>3, <3>4 DEF OneConnect, AtClient
    <3>6. Heralded'
      BY <1>1, <3>1, GrownGateway DEF Heralded, OfSession, IsConnect
    <3> QED BY <3>5, <3>6
  <2>5. CASE ~AtBroker(1) /\ UNCHANGED gwQue
    <3>1. OneConnect'
      BY <1>1, <2>2, <2>5 DEF OneConnect, AtGateway, IsConnect, IsConnack, AtClient
    <3> QED BY <1>1, <2>5, <3>1 DEF Heralded, OfSession, IsConnect
  <2>6. ASSUME ~AtBroker(1), NEW e, gwQue' = Append(gwQue, e), ~IsConnect(e), ~IsConnack(e), ~OfSession(e)
        PROVE  OneConnect' /\ Heralded'
    <3>1. \A i \in DOMAIN gwQue' : AtGateway(i)' => i \in DOMAIN gwQue /\ AtGateway(i)
      BY <2>6, GrownGateway DEF AtGateway, IsConnect, IsConnack
    <3>2. OneConnect'
      BY <1>1, <2>2, <2>6, <3>1 DEF OneConnect, AtClient
    <3>3. Heralded'
      BY <1>1, <2>6, GrownGateway DEF Heralded, OfSession, IsConnect
    <3> QED BY <3>2, <3>3
  <2>7. ~AtBroker(1) => UNCHANGED gwQue \/ \E e : /\ gwQue' = Append(gwQue, e)
                                                  /\ ~IsConnect(e) /\ ~IsConnack(e) /\ ~OfSession(e)
    <3> SUFFICES ASSUME ~AtBroker(1), ~UNCHANGED gwQue
                 PROVE  \E e : gwQue' = Append(gwQue, e) /\ ~IsConnect(e) /\ ~IsConnack(e) /\ ~OfSession(e)
      OBVIOUS
    <3>1. PICK m \in BrokerReply(Head(toBroker), ok) : BrokerPosts(m)
      BY <1>3 DEF BrokerTakes
    <3>2. m.type # "CONNACK"
      BY <2>3 DEF BrokerReply
    <3> QED BY <3>1, <3>2 DEF BrokerPosts, IsConnect, IsConnack, OfSession
  <2> QED BY <2>4, <2>5, <2>6, <2>7
<1> QED BY <1>2, <1>3 DEF Broker

LEMMA DialogueStep == Typed /\ Dialogue /\ [Next]_vars => Dialogue'
<1> SUFFICES ASSUME Typed, Dialogue, [Next]_vars PROVE Dialogue'
  OBVIOUS
<1>0. Queues
  BY DEF Typed
<1>1. CASE Client
  BY <1>1, DialogueClient
<1>2. CASE GatewayControlTask
  BY <1>0, <1>2, DialogueTask, TaskStep DEF Dialogue, Faithful, client
<1>3. CASE ClientTakes
  BY <1>0, <1>3, DialogueTakes DEF Dialogue, Faithful, ClientTakes
<1>4. CASE Broker
  <2>1. UNCHANGED used
    BY <1>4 DEF Broker, BrokerTakes, BrokerPublish, client
  <2> QED BY <1>0, <1>4, <2>1, DialogueBroker DEF Dialogue, Faithful
<1>5. CASE UNCHANGED vars
  BY <1>5 DEF vars, client, Dialogue, Faithful, OneConnect, Heralded, AtGateway, AtBroker, AtClient,
              IsConnect, IsConnack, OfSession
<1> QED BY <1>1, <1>2, <1>3, <1>4, <1>5 DEF Next

-----------------------------------------------------------------------------
(* Message ids: those under way are ones the client has given out, so that *)
(* a new one is in no message and no map.                                  *)
Numbers(e) ==
    \/ e.from = "client" /\ e.msg.type \in {"REGISTER", "SUBSCRIBE"}
    \/ e.from = "client" /\ e.msg.type = "PUBLISH" /\ (e.msg.mid # 0 \/ e.msg.qos # 0)
    \/ e.from = "broker" /\ e.msg.type \in {"SUBACK", "PUBACK"}

NumbersUp(m) == m.type = "SUBSCRIBE" \/ (m.type = "PUBLISH" /\ (m.mid # 0 \/ m.qos # 0))
NumbersDown(m) == m.type \in {"REGACK", "SUBACK", "PUBACK"}

MidsGiven ==
    /\ sent \in Nat
    /\ DOMAIN asked \subseteq 1 .. sent
    /\ DOMAIN subMap \subseteq 1 .. sent /\ DOMAIN pubMap \subseteq 1 .. sent
    /\ \A u \in unacked : u.mid \in 1 .. sent
    /\ \A e \in Range(gwQue) : Numbers(e) => e.msg.mid \in 1 .. sent
    /\ \A m \in Range(toBroker) : NumbersUp(m) => m.mid \in 1 .. sent
    /\ \A m \in Range(toClient) : NumbersDown(m) => m.mid \in 1 .. sent
    /\ linked = "connecting" => DOMAIN asked = {} /\ unacked = {}

(* TopicIdMap: what an entry added or erased leaves. *)
LEMMA InsertedEntries ==
    ASSUME NEW map, NEW mid, NEW id, NEW new, new = Inserted(map, mid, id)
    PROVE  /\ DOMAIN new \subseteq DOMAIN map \cup {mid} /\ mid \in DOMAIN new
           /\ \A k \in DOMAIN new : (k \in DOMAIN map /\ new[k] = map[k]) \/ (k = mid /\ new[k] = id)
<1>1. PICK kept : /\ kept \in {Restrict(map, DOMAIN map \ {Victim(map, mid)}), map}
                  /\ new = [k \in DOMAIN kept \cup {mid} |-> IF k \in DOMAIN kept THEN kept[k] ELSE id]
  BY DEF Inserted
<1>2. DOMAIN kept \subseteq DOMAIN map /\ \A k \in DOMAIN kept : kept[k] = map[k]
  BY <1>1 DEF Restrict
<1> QED BY <1>1, <1>2

LEMMA ErasedEntries ==
    ASSUME NEW map, NEW mid, NEW new, new = Erased(map, mid)
    PROVE  DOMAIN new = DOMAIN map \ {mid} /\ \A k \in DOMAIN new : new[k] = map[k]
BY DEF Erased, Restrict

LEMMA GivenTask ==
    ASSUME Typed, MidsGiven, GatewayControlTask
    PROVE  MidsGiven'
<1>0. Queues
  BY DEF Typed
<1>1. UNCHANGED <<linked, unacked, asked, sent>> /\ Range(gwQue') \subseteq Range(gwQue)
  BY <1>0, TaskStep, TailRange DEF client, Queues
<1>2. ASSUME \A m \in Range(toBroker') : m \in Range(toBroker) \/ (NumbersUp(m) => m.mid \in 1 .. sent),
             \A m \in Range(toClient') : m \in Range(toClient) \/ (NumbersDown(m) => m.mid \in 1 .. sent),
             DOMAIN subMap' \subseteq 1 .. sent, DOMAIN pubMap' \subseteq 1 .. sent
      PROVE  MidsGiven'
  BY <1>1, <1>2 DEF MidsGiven
<1>3. ASSUME UNCHANGED maps
      PROVE  DOMAIN subMap' \subseteq 1 .. sent /\ DOMAIN pubMap' \subseteq 1 .. sent
  BY <1>3 DEF MidsGiven, maps
<1>4. ASSUME NEW from, NEW type, Take(from, type)
      PROVE  /\ Head(gwQue) \in Range(gwQue) /\ Head(gwQue).from = from /\ Head(gwQue).msg = Msg
             /\ Msg.type = type /\ (Numbers(Head(gwQue)) => Msg.mid \in 1 .. sent)
  BY <1>0, <1>4, Took DEF MidsGiven
<1>a. ASSUME NEW map, DOMAIN map \subseteq 1 .. sent, NEW mid, NEW id
      PROVE  /\ mid \in 1 .. sent => DOMAIN Inserted(map, mid, id) \subseteq 1 .. sent
             /\ DOMAIN Erased(map, mid) \subseteq 1 .. sent
  <2>1. DOMAIN Inserted(map, mid, id) \subseteq DOMAIN map \cup {mid}
    BY InsertedEntries
  <2>2. DOMAIN Erased(map, mid) = DOMAIN map \ {mid}
    BY ErasedEntries
  <2> QED BY <1>a, <2>1, <2>2
<1>5. CASE SnPublishForward
  <2>1. Take("client", "PUBLISH") /\ UNCHANGED <<subMap, toClient>>
    BY <1>5 DEF SnPublishForward
  <2>2. PICK m : Forward(m) /\ m.type = "PUBLISH" /\ m.mid = Msg.mid /\ m.qos = Msg.qos
    BY <1>5 DEF SnPublishForward
  <2>3. Msg.mid # 0 \/ Msg.qos # 0 => Msg.mid \in 1 .. sent
    BY <1>4, <2>1 DEF Numbers
  <2>4. DOMAIN pubMap' \subseteq 1 .. sent
    <3>1. CASE Msg.mid = 0
      BY <1>5, <3>1 DEF SnPublishForward, MidsGiven
    <3>2. CASE Msg.mid # 0
      BY <1>5, <1>a, <2>3, <3>2 DEF SnPublishForward, MidsGiven
    <3> QED BY <3>1, <3>2
  <2>5. Range(toBroker') = Range(toBroker) \cup {m}
    BY <1>0, <2>2, Forwarded
  <2> QED BY <1>2, <2>1, <2>2, <2>3, <2>4, <2>5 DEF NumbersUp, MidsGiven
<1>6. CASE SnPublishReject
  <2>1. Take("client", "PUBLISH") /\ UNCHANGED <<maps, toBroker>>
        /\ (UNCHANGED toClient \/ (Msg.mid # 0 /\ \E m : Reply(m) /\ m.mid = Msg.mid))
    BY <1>6 DEF SnPublishReject
  <2>2. Msg.mid # 0 => Msg.mid \in 1 .. sent
    BY <1>4, <2>1 DEF Numbers
  <2> QED BY <1>0, <1>2, <1>3, <2>1, <2>2, Replied
<1>7. CASE SnSubscribe
  <2>1. Take("client", "SUBSCRIBE") /\ UNCHANGED <<pubMap, toClient>>
        /\ subMap' = Inserted(subMap, Msg.mid, topics'[Msg.name])
        /\ Forward([type |-> "SUBSCRIBE", mid |-> Msg.mid])
    BY <1>7 DEF SnSubscribe
  <2>2. Msg.mid \in 1 .. sent
    BY <1>4, <2>1 DEF Numbers
  <2>3. Range(toBroker') = Range(toBroker) \cup {[type |-> "SUBSCRIBE", mid |-> Msg.mid]}
    BY <1>0, <2>1, Forwarded
  <2>4. DOMAIN subMap' \subseteq 1 .. sent
    BY <1>a, <2>1, <2>2 DEF MidsGiven
  <2> QED BY <1>2, <2>1, <2>2, <2>3, <2>4 DEF MidsGiven
<1>8. CASE SnSubscribeHere
  <2>1. Take("client", "SUBSCRIBE") /\ UNCHANGED <<maps, toBroker>>
    BY <1>8 DEF SnSubscribeHere
  <2>2. Msg.mid \in 1 .. sent
    BY <1>4, <2>1 DEF Numbers
  <2>3. Range(toClient') \subseteq Range(toClient) \cup {Suback4(TRUE), Suback4(FALSE), TimeMsg}
    BY <1>0, <1>8, Told4Here DEF Queues
  <2>4. \A m \in {Suback4(TRUE), Suback4(FALSE), TimeMsg} : NumbersDown(m) => m.mid \in 1 .. sent
    BY <2>2 DEF Suback4, TimeMsg, NumbersDown
  <2> QED BY <1>2, <1>3, <2>1, <2>3, <2>4
<1>9. CASE SnUnsubscribe
  <2>1. PICK m : Forward(m) /\ m.type = "UNSUBSCRIBE" /\ UNCHANGED <<maps, toClient>>
    BY <1>9 DEF SnUnsubscribe
  <2> QED BY <1>0, <1>2, <1>3, <2>1, Forwarded DEF NumbersUp
<1>10. CASE SnUnsubscribeHere
  <2>1. PICK m : Reply(m) /\ m.type = "UNSUBACK" /\ UNCHANGED <<maps, toBroker>>
    BY <1>10 DEF SnUnsubscribeHere
  <2> QED BY <1>0, <1>2, <1>3, <2>1, Replied DEF NumbersDown
<1>11. CASE SnConnect
  <2>1. UNCHANGED toBroker \/ \E m : Forward(m) /\ m.type = "CONNECT"
    BY <1>11 DEF SnConnect
  <2>2. DOMAIN subMap' \subseteq 1 .. sent /\ DOMAIN pubMap' \subseteq 1 .. sent /\ UNCHANGED toClient
    BY <1>11 DEF SnConnect, Empty, maps, MidsGiven
  <2> QED BY <1>0, <1>2, <2>1, <2>2, Forwarded DEF NumbersUp
<1>12. CASE SnDisconnect
  <2>1. PICK m, n : Forward(m) /\ Reply(n) /\ m.type = "DISCONNECT" /\ n.type = "DISCONNECT"
                    /\ UNCHANGED maps
    BY <1>12 DEF SnDisconnect
  <2> QED BY <1>0, <1>2, <1>3, <2>1, Forwarded, Replied DEF NumbersUp, NumbersDown
<1>13. CASE SnRegister
  <2>1. PICK m : Reply(m) /\ m.mid = Msg.mid /\ UNCHANGED <<maps, toBroker>> /\ Take("client", "REGISTER")
    BY <1>13 DEF SnRegister
  <2>2. Msg.mid \in 1 .. sent
    BY <1>4, <2>1 DEF Numbers
  <2> QED BY <1>0, <1>2, <1>3, <2>1, <2>2, Replied
<1>14. ASSUME NEW t \in {"PUBACK", "PUBREC", "PUBREL", "PUBCOMP", "PINGREQ"}, SnPass(t) PROVE MidsGiven'
  <2>1. PICK m : Forward(m) /\ m.type = t /\ UNCHANGED <<maps, toClient>>
    BY <1>14 DEF SnPass
  <2> QED BY <1>0, <1>2, <1>3, <2>1, Forwarded DEF NumbersUp
<1>15. CASE Puback \/ Suback
  <2>1. /\ Take("broker", "PUBACK") \/ Take("broker", "SUBACK")
        /\ UNCHANGED toBroker
        /\ UNCHANGED toClient \/ \E m : Reply(m) /\ m.mid = Msg.mid
    BY <1>15 DEF Puback, Suback
  <2>2. Msg.mid \in 1 .. sent
    BY <1>4, <2>1 DEF Numbers
  <2>3. DOMAIN pubMap' \subseteq 1 .. sent /\ DOMAIN subMap' \subseteq 1 .. sent
    BY <1>a, <1>15 DEF Puback, Suback, MidsGiven
  <2> QED BY <1>0, <1>2, <2>1, <2>2, <2>3, Replied
<1>16. CASE Connack
  <2>1. PICK m : Reply(m) /\ m.type = "CONNACK" /\ UNCHANGED <<maps, toBroker>>
    BY <1>16 DEF Connack
  <2> QED BY <1>0, <1>2, <1>3, <2>1, Replied DEF NumbersDown
<1>17. CASE Flush
  <2>1. Reply(Head(sleepQue)) /\ UNCHANGED <<maps, toBroker>> /\ sleepQue # << >>
    BY <1>17 DEF Flush, Typed, IdsTyped
  <2>2. Head(sleepQue).type \in {"REGISTER", "PUBLISH"}
    BY <1>0, <2>1, Tailed DEF Queues, Typed, TypeOK
  <2> QED BY <1>0, <1>2, <1>3, <2>1, <2>2, Replied DEF NumbersDown
<1>18. CASE PublishTopic \/ RegisterAsleep \/ PublishAsleep
  <2>1. UNCHANGED <<maps, toBroker, toClient>>
    BY <1>18 DEF PublishTopic, RegisterAsleep, PublishAsleep
  <2> QED BY <1>2, <1>3, <2>1
<1>19. CASE RegisterActive \/ PublishActive
  <2>1. UNCHANGED <<maps, toBroker>>
        /\ (UNCHANGED toClient \/ \E m : Reply(m) /\ m.type \in {"REGISTER", "PUBLISH"})
    BY <1>19 DEF RegisterActive, PublishActive, RegisterMsg, PublishMsg
  <2> QED BY <1>0, <1>2, <1>3, <2>1, Replied DEF NumbersDown
<1>20. ASSUME NEW t \in {"PUBREC", "PUBREL", "PUBCOMP", "UNSUBACK", "PINGRESP"}, Pass(t) PROVE MidsGiven'
  <2>1. PICK m : Reply(m) /\ m.type = t /\ UNCHANGED <<maps, toBroker>>
    BY <1>20 DEF Pass
  <2> QED BY <1>0, <1>2, <1>3, <2>1, Replied DEF NumbersDown
<1> QED
  BY <1>5, <1>6, <1>7, <1>8, <1>9, <1>10, <1>11, <1>12, <1>13, <1>14, <1>15,
     <1>16, <1>17, <1>18, <1>19, <1>20
  DEF GatewayControlTask
(* The client gives out the next id with what it asks or publishes. *)
LEMMA GivenSays ==
    ASSUME Typed, MidsGiven, NEW m, ClientSends(m), Unchanged4Client,
           Numbers([from |-> "client", msg |-> m]) => m.mid \in 1 .. (sent + 1),
           DOMAIN asked' \subseteq DOMAIN asked \cup {sent + 1},
           \A u \in unacked' : u \in unacked \/ u.mid = sent + 1,
           linked' = "connecting" => DOMAIN asked' = {} /\ unacked' = {}
    PROVE  MidsGiven'
<1>1. /\ sent' = sent + 1 /\ gwQue' = Append(gwQue, [from |-> "client", msg |-> m])
      /\ UNCHANGED <<maps, toBroker, toClient>>
  BY DEF ClientSends, Unchanged4Client
<1>2. PICK e : e = [from |-> "client", msg |-> m]
  OBVIOUS
<1>3. Range(gwQue') = Range(gwQue) \cup {e}
  BY <1>1, <1>2, PostedUp DEF Typed
<1>4. sent' \in Nat /\ 1 .. sent \subseteq 1 .. sent' /\ sent + 1 \in 1 .. sent'
  BY <1>1 DEF MidsGiven
<1>5. \A x \in Range(gwQue') : Numbers(x) => x.msg.mid \in 1 .. sent'
  BY <1>1, <1>2, <1>3, <1>4 DEF MidsGiven
<1> QED BY <1>1, <1>4, <1>5 DEF MidsGiven, maps

LEMMA GivenClient ==
    ASSUME Typed, MidsGiven, Client
    PROVE  MidsGiven'
<1>0. /\ sent \in Nat /\ sent + 1 \in 1 .. (sent + 1) /\ 1 .. sent \subseteq 1 .. (sent + 1)
      /\ \A u \in unacked : u.type = "PUBLISH" /\ u.mid \in 1 .. sent
      /\ linked = "connecting" => DOMAIN asked = {} /\ unacked = {}
  BY DEF MidsGiven, Typed, IdsTyped
<1> USE DEF Numbers
<1>1. ASSUME NEW b \in BOOLEAN, ClientConnect(b) PROVE MidsGiven'
  <2>1. ClientSends([type |-> "CONNECT", kind |-> "none", clean |-> b]) /\ Unchanged4Client
        /\ DOMAIN asked' = {} /\ unacked' = {}
    BY <1>1 DEF ClientConnect, Empty
  <2> QED BY <2>1, GivenSays
<1>2. ASSUME NEW b \in BOOLEAN, ClientDisconnect(b) PROVE MidsGiven'
  <2>1. ClientSends([type |-> "DISCONNECT", kind |-> "none", sleep |-> b]) /\ Unchanged4Client
        /\ asked' = asked /\ unacked' = unacked /\ linked' # "connecting"
    BY <1>2 DEF ClientDisconnect
  <2> QED BY <2>1, GivenSays
<1>3. ASSUME NEW m, ClientAsks(m), m.type # "PUBLISH", m.mid = Mid PROVE MidsGiven'
  <2>1. ClientSends(m) /\ Unchanged4Client /\ DOMAIN asked' = DOMAIN asked \cup {sent + 1}
        /\ unacked' = unacked /\ linked' # "connecting" /\ m.mid = sent + 1
    BY <1>3 DEF ClientAsks, Mid
  <2> QED BY <1>0, <2>1, GivenSays
<1>4. ASSUME NEW n, ClientRegister(n) PROVE MidsGiven'
  BY <1>3, <1>4 DEF ClientRegister
<1>5. ASSUME NEW kind, NEW n, NEW id, ClientSubscribe(kind, n, id) PROVE MidsGiven'
  BY <1>3, <1>5 DEF ClientSubscribe
<1>6. ASSUME NEW kind, NEW n, ClientUnsubscribe(kind, n) PROVE MidsGiven'
  BY <1>3, <1>6 DEF ClientUnsubscribe
<1>7. ASSUME NEW q, NEW kind, NEW id, NEW n, ClientPublish(q, kind, id, n) PROVE MidsGiven'
  <2>1. PICK m : /\ m.type = "PUBLISH" /\ m.qos = q /\ m.mid = (IF q = 0 THEN 0 ELSE Mid)
                 /\ ClientSends(m) /\ unacked' = IF q = 0 THEN unacked ELSE unacked \cup {m}
    BY <1>7 DEF ClientPublish
  <2>2. Unchanged4Client /\ asked' = asked /\ linked' # "connecting"
    BY <1>7 DEF ClientPublish
  <2>3. Numbers([from |-> "client", msg |-> m]) => m.mid \in 1 .. (sent + 1)
    BY <1>0, <2>1 DEF Mid
  <2>4. \A u \in unacked' : u \in unacked \/ u.mid = sent + 1
    BY <2>1 DEF Mid
  <2> QED BY <2>1, <2>2, <2>3, <2>4, GivenSays
<1>8. ASSUME ClientRepeat PROVE MidsGiven'
  <2>1. PICK m \in unacked : ClientSends(m)
    BY <1>8 DEF ClientRepeat
  <2>2. Unchanged4Client /\ asked' = asked /\ unacked' = unacked /\ linked' # "connecting"
        /\ m.mid \in 1 .. (sent + 1)
    BY <1>0, <1>8 DEF ClientRepeat
  <2> QED BY <2>1, <2>2, GivenSays
<1>9. ASSUME ClientPing PROVE MidsGiven'
  <2>1. ClientSends([type |-> "PINGREQ", kind |-> "none", mid |-> 0]) /\ Unchanged4Client
        /\ asked' = asked /\ unacked' = unacked /\ linked' # "connecting"
    BY <1>9 DEF ClientPing
  <2> QED BY <2>1, GivenSays
<1> QED BY <1>1, <1>2, <1>4, <1>5, <1>6, <1>7, <1>8, <1>9 DEF Client

LEMMA GivenTakes ==
    ASSUME Typed, MidsGiven, ClientTakes
    PROVE  MidsGiven'
<1>0. Queues
  BY DEF Typed
<1>1. /\ Range(toClient') \subseteq Range(toClient) /\ unacked' \subseteq unacked
      /\ linked' \in {linked, "yes"} /\ UNCHANGED <<maps, toBroker, asked>>
  BY <1>0, Tailed DEF ClientTakes, Queues
<1>2. UNCHANGED <<gwQue, sent>> \/ \E t \in {"PUBREL", "PUBACK", "PUBREC"} : \E e :
        /\ e = [from |-> "client", msg |-> [type |-> t, mid |-> Head(toClient).mid]]
        /\ gwQue' = Append(gwQue, e) /\ sent' = sent
  BY DEF ClientTakes, ClientAnswers
<1>3. sent' = sent /\ \A e \in Range(gwQue') : e \in Range(gwQue) \/ ~Numbers(e)
  <2>1. ASSUME NEW e, gwQue' = Append(gwQue, e), ~Numbers(e)
        PROVE  \A x \in Range(gwQue') : x \in Range(gwQue) \/ ~Numbers(x)
    BY <1>0, <2>1, PostedUp
  <2>2. UNCHANGED <<gwQue, sent>> \/ \E e : ~Numbers(e) /\ gwQue' = Append(gwQue, e) /\ sent' = sent
    BY <1>2 DEF Numbers
  <2> QED BY <2>1, <2>2
<1> QED BY <1>1, <1>3 DEF MidsGiven, maps

LEMMA GivenBroker ==
    ASSUME Typed, MidsGiven, Broker
    PROVE  MidsGiven'
<1>0. Queues
  BY DEF Typed
<1>1. UNCHANGED <<maps, toClient, unacked, asked, linked, sent>> /\ Range(toBroker') \subseteq Range(toBroker)
  BY <1>0, Tailed DEF Broker, BrokerTakes, BrokerPublish, client, Queues
<1>2. \A e \in Range(gwQue') : e \in Range(gwQue) \/ (Numbers(e) => e.msg.mid \in 1 .. sent)
  <2>1. ASSUME NEW m, BrokerPosts(m), m.type \in {"SUBACK", "PUBACK"} => m.mid \in 1 .. sent
        PROVE  \A e \in Range(gwQue') : e \in Range(gwQue) \/ (Numbers(e) => e.msg.mid \in 1 .. sent)
    BY <1>0, <2>1, PostedUp DEF BrokerPosts, Numbers
  <2>2. ASSUME NEW n \in Names, BrokerPublish(n)
        PROVE  \E m : BrokerPosts(m) /\ m.type = "PUBLISH"
    BY <2>2 DEF BrokerPublish
  <2>3. ASSUME NEW ok \in BOOLEAN, BrokerTakes(ok), ~UNCHANGED gwQue
        PROVE  \E m : BrokerPosts(m) /\ (m.type \in {"SUBACK", "PUBACK"} => m.mid \in 1 .. sent)
    <3>1. PICK m \in BrokerReply(Head(toBroker), ok) : BrokerPosts(m)
      BY <2>3 DEF BrokerTakes
    <3>2. Head(toBroker) \in Range(toBroker)
      BY <1>0, <2>3, Tailed DEF BrokerTakes, Queues
    <3>3. m.type \in {"SUBACK", "PUBACK"} => m.mid = Head(toBroker).mid /\ NumbersUp(Head(toBroker))
      BY DEF BrokerReply, NumbersUp
    <3> QED BY <3>1, <3>2, <3>3 DEF MidsGiven
  <2> QED BY <2>1, <2>2, <2>3 DEF Broker
<1> QED BY <1>1, <1>2 DEF MidsGiven, maps

LEMMA GivenInit == Init => MidsGiven
<1> SUFFICES ASSUME Init PROVE MidsGiven
  OBVIOUS
<1>1. Range(<< >>) = {} /\ DOMAIN Empty = {}
  BY DEF Range, Empty
<1> QED BY <1>1 DEF Init, MidsGiven

LEMMA GivenStep == Typed /\ MidsGiven /\ [Next]_vars => MidsGiven'
<1> SUFFICES ASSUME Typed, MidsGiven, [Next]_vars PROVE MidsGiven'
  OBVIOUS
<1>1. CASE UNCHANGED vars
  BY <1>1 DEF vars, client, maps, MidsGiven, Numbers, NumbersUp, NumbersDown
<1> QED BY <1>1, GivenTask, GivenClient, GivenTakes, GivenBroker DEF Next

-----------------------------------------------------------------------------
(* What the client knows of the ids.  An id is right for a name if it is   *)
(* none of a topic or the one that Topics has for the name.  While the     *)
(* client waits for a CONNACK it knows nothing: what it is told before is  *)
(* forgotten.                                                              *)
Right(id, name) == id < Normal \/ (name \in DOMAIN topics /\ topics[name] = id)

RightTells(m) ==
    /\ m.type = "REGISTER" => Right(m.id, m.name)
    /\ m.type = "REGACK" \/ (m.type = "SUBACK" /\ m.ok) =>
          (m.mid \in DOMAIN asked => Right(m.id, asked[m.mid]))

Valid(k) == linked # "connecting" \/ \E i \in 1 .. (k - 1) : AtClient(i)
Asks(e) == e.from = "client" /\ e.msg.type \in {"REGISTER", "SUBSCRIBE"}
Publishes(e) == e.from = "client" /\ e.msg.type = "PUBLISH" /\ e.msg.kind = "NORMAL"
Meant(m) == m.type = "PUBLISH" => m.name = m.meant

RightTold == linked # "connecting" => \A t \in told : Right(t[1], t[2])
RightUnacked == \A m \in unacked : m.kind = "NORMAL" => Right(m.id, m.meant)
RightUp == \A e \in Range(gwQue) : Publishes(e) => Right(e.msg.id, e.msg.meant)
RightDown == \A k \in DOMAIN toClient : Valid(k) => RightTells(toClient[k])
RightAsked == \A e \in Range(gwQue) : Asks(e) /\ e.msg.mid \in DOMAIN asked => asked[e.msg.mid] = e.msg.name
RightSub == \A k \in DOMAIN asked \cap DOMAIN subMap : Right(subMap[k], asked[k])
RightCur == at \in {"register", "register_active"} => Right(cur.id, cur.name)
Routed == \A m \in Range(toBroker) : Meant(m)

RightInv ==
    /\ RightTold /\ RightUnacked /\ RightUp /\ RightDown
    /\ RightAsked /\ RightSub /\ RightCur /\ Routed

(* The control task never leaves the loop that sends saved messages. *)
RightIds == Faithful => Routed /\ (at # "flushing" => RightInv)

LEMMA RightGrows ==
    ASSUME UNCHANGED table \/ \E name : Add(name)
    PROVE  \A id, n : Right(id, n) => Right(id, n)'
<1>1. CASE UNCHANGED table
  BY <1>1 DEF table, Right
<1>2. ASSUME NEW name, Add(name) PROVE \A id, n : Right(id, n) => Right(id, n)'
  <2>1. CASE name \in DOMAIN topics
    BY <1>2, <2>1 DEF Add, table, Right
  <2>2. CASE name \notin DOMAIN topics
    <3>1. DOMAIN topics' = DOMAIN topics \cup {name} /\ \A n \in DOMAIN topics : topics'[n] = topics[n]
      BY <1>2, <2>2 DEF Add
    <3> QED BY <3>1 DEF Right
  <2> QED BY <2>1, <2>2
<1> QED BY <1>1, <1>2

LEMMA RightAdded ==
    ASSUME NEW name, Add(name)
    PROVE  \A id : id = topics'[name] => Right(id, name)'
<1>1. name \in DOMAIN topics'
  BY DEF Add, table
<1> QED BY <1>1 DEF Right

(* What a handler leaves of it. *)
LEMMA RightAnswers ==
    ASSUME Queues, RightInv, UNCHANGED client, \A id, n : Right(id, n) => Right(id, n)',
           Range(gwQue') \subseteq Range(gwQue),
           NEW B, NEW D, Answers(B, D), \A m \in B : Meant(m), \A m \in D : RightTells(m)',
           RightSub', RightCur'
    PROVE  RightInv'
<1>1. RightTold' /\ RightUnacked' /\ RightUp' /\ RightAsked'
  BY DEF client, RightInv, RightTold, RightUnacked, RightUp, RightAsked, Publishes, Asks
<1>2. RightDown'
  <2> SUFFICES ASSUME NEW k \in DOMAIN toClient', Valid(k)', NEW m, m = toClient'[k]
               PROVE  RightTells(m)'
    BY DEF RightDown
  <2>1. /\ Len(toClient) \in Nat /\ DOMAIN toClient = 1 .. Len(toClient)
        /\ DOMAIN toClient' = 1 .. Len(toClient') /\ Len(toClient') \in Nat
        /\ \A i \in 1 .. Len(toClient) : toClient'[i] = toClient[i]
    BY DEF Answers, Grown
  <2>2. CASE k \in DOMAIN toClient
    <3>1. Valid(k)
      BY <2>1, <2>2 DEF Valid, AtClient, client
    <3>2. RightTells(m)
      BY <2>1, <2>2, <3>1 DEF RightInv, RightDown
    <3> QED BY <3>2 DEF RightTells, client
  <2>3. CASE k \notin DOMAIN toClient
    <3>1. m \in D
      BY <2>3, GrownOld DEF Answers
    <3> QED BY <3>1
  <2> QED BY <2>2, <2>3
<1>3. Routed'
  <2>1. \A i \in DOMAIN toBroker' : (i \in DOMAIN toBroker /\ toBroker'[i] = toBroker[i]) \/ toBroker'[i] \in B
    BY GrownOld DEF Answers
  <2> QED BY <2>1 DEF Routed, RightInv, Range, Meant
<1> QED BY <1>1, <1>2, <1>3 DEF RightInv

LEMMA RightConnect ==
    ASSUME Typed, OneConnect, Heralded, MidsGiven, RightInv, SnConnect
    PROVE  RightInv'
<1>0. Queues
  BY DEF Typed
<1>1. \A e \in Range(gwQue) : ~OfSession(e)
  BY <1>0, DialogueConnect
<1>2. Take("client", "CONNECT") /\ UNCHANGED <<toClient, client>>
  BY DEF SnConnect
<1>3. 1 \in DOMAIN gwQue /\ AtGateway(1) /\ Range(gwQue') \subseteq Range(gwQue)
  BY <1>0, <1>2, TookFirst, Took DEF IsConnect, AtGateway
<1>4. linked = "connecting" /\ \A i \in DOMAIN toClient : ~AtClient(i)
  BY <1>3 DEF OneConnect
<1>5. DOMAIN asked = {} /\ unacked = {}
  BY <1>4 DEF MidsGiven
<1>6. RightTold' /\ RightUnacked'
  BY <1>2, <1>4, <1>5 DEF RightTold, RightUnacked, client
<1>7. RightUp' /\ RightAsked'
  BY <1>1, <1>3 DEF RightUp, RightAsked, Publishes, Asks, OfSession
<1>8. RightDown'
  <2>1. DOMAIN toClient = 1 .. Len(toClient) /\ Len(toClient) \in Nat
    BY <1>0 DEF Queues
  <2>2. \A k \in DOMAIN toClient : ~Valid(k)
    BY <1>4, <2>1 DEF Valid
  <2> QED BY <1>2, <2>2 DEF RightDown, Valid, AtClient, client
<1>9. RightSub'
  BY <1>2, <1>5 DEF RightSub, client
<1>10. RightCur'
  BY DEF SnConnect, Take, task, RightCur
<1>11. Routed'
  <2>1. UNCHANGED toBroker \/ \E m : Forward(m) /\ m.type = "CONNECT"
    BY DEF SnConnect
  <2> QED BY <1>0, <2>1, Forwarded DEF RightInv, Routed, Meant
<1> QED BY <1>6, <1>7, <1>8, <1>9, <1>10, <1>11 DEF RightInv

LEMMA RightTask ==
    ASSUME Typed, Numbered, OneConnect, Heralded, MidsGiven, RightInv, GatewayControlTask,
           at # "flushing", at' # "flushing"
    PROVE  RightInv'
<1>0. Queues /\ UNCHANGED client /\ Range(gwQue') \subseteq Range(gwQue)
  BY TaskStep, TailRange DEF Typed, Queues
<1> DEFINE Grows == UNCHANGED table \/ \E name : Add(name)
<1>a. ASSUME Grows, NEW B, NEW D, Answers(B, D), \A m \in B : Meant(m), \A m \in D : RightTells(m)',
             RightSub', RightCur'
      PROVE  RightInv'
  BY <1>0, <1>a, RightGrows, RightAnswers
<1>none. ASSUME Grows, UNCHANGED <<toBroker, toClient>>, RightSub', RightCur' PROVE RightInv'
  <2>1. Answers({}, {})
    BY <1>0, <1>none, AnswersNone
  <2> QED BY <1>a, <1>none, <2>1
<1>up. ASSUME Grows, NEW m, Forward(m), UNCHANGED toClient, Meant(m), RightSub', RightCur'
       PROVE  RightInv'
  <2>1. Answers({m}, {})
    BY <1>0, <1>up, AnswersUp
  <2> QED BY <1>a, <1>up, <2>1
<1>down. ASSUME Grows, NEW m, Reply(m), UNCHANGED toBroker, RightTells(m)', RightSub', RightCur'
         PROVE  RightInv'
  <2>1. Answers({}, {m})
    BY <1>0, <1>down, AnswersDown
  <2> QED BY <1>a, <1>down, <2>1
<1>sub. ASSUME Grows, UNCHANGED subMap PROVE RightSub'
  BY <1>0, <1>sub, RightGrows DEF RightInv, RightSub, client
<1>cur. ASSUME at' = "idle" PROVE RightCur'
  BY <1>cur DEF RightCur
<1>took. ASSUME NEW from, NEW type, Take(from, type)
         PROVE  /\ at = "idle" /\ Head(gwQue) \in Range(gwQue) /\ Head(gwQue).from = from
                /\ Head(gwQue).msg = Msg /\ Msg.type = type
  BY <1>0, <1>took, Took
<1>1. CASE SnPublishForward
  <2>1. /\ Take("client", "PUBLISH")
        /\ Grows /\ UNCHANGED <<toClient, subMap, at>>
    BY <1>1 DEF SnPublishForward, task
  <2>2. PICK name \in TopicsOf(Msg.id, Msg.kind) :
            Forward([type |-> "PUBLISH", name |-> name, id |-> Msg.id, mid |-> Msg.mid,
                     qos |-> Msg.qos, meant |-> Msg.meant])
    BY <1>1 DEF SnPublishForward
  <2>3. name \in DOMAIN topics /\ Msg.kind = "NORMAL" /\ topics[name] = Msg.id
    BY DEF TopicsOf
  <2>4. Right(Msg.id, Msg.meant)
    BY <1>took, <2>1, <2>3 DEF RightInv, RightUp, Publishes
  <2>5. Msg.id >= Normal /\ Msg.id \in Int /\ Normal \in Int
    BY <2>3, IdsSuffice DEF Numbered, Predefined
  <2>6. name = Msg.meant
    BY <2>3, <2>4, <2>5 DEF Right, Numbered
  <2>7. Meant([type |-> "PUBLISH", name |-> name, id |-> Msg.id, mid |-> Msg.mid,
               qos |-> Msg.qos, meant |-> Msg.meant])
    BY <2>6 DEF Meant
  <2> HIDE DEF Grows
  <2> QED BY <1>up, <1>sub, <1>cur, <1>took, <2>1, <2>2, <2>7
<1>2. CASE SnPublishReject
  <2>1. /\ Take("client", "PUBLISH") /\ Grows /\ UNCHANGED <<toBroker, subMap, at>>
        /\ UNCHANGED toClient \/ \E m : Reply(m) /\ m.type = "PUBACK"
    BY <1>2 DEF SnPublishReject, task, maps
  <2>2. \A m : m.type = "PUBACK" => RightTells(m)'
    BY DEF RightTells
  <2> HIDE DEF Grows
  <2> QED BY <1>none, <1>down, <1>sub, <1>cur, <1>took, <2>1, <2>2
<1> HIDE DEF Grows
<1>g. UNCHANGED table => Grows
  BY DEF Grows
<1>quiet. ASSUME NEW m, m.type \notin {"REGISTER", "REGACK", "SUBACK"} PROVE RightTells(m)'
  BY <1>quiet DEF RightTells
<1>3. CASE SnSubscribe
  <2>1. /\ Take("client", "SUBSCRIBE") /\ Add(Msg.name) /\ UNCHANGED <<toClient, at>>
        /\ subMap' = Inserted(subMap, Msg.mid, topics'[Msg.name])
        /\ Forward([type |-> "SUBSCRIBE", mid |-> Msg.mid])
    BY <1>3 DEF SnSubscribe, task
  <2>2. Grows
    BY <2>1 DEF Grows
  <2>3. PICK id, e, n : id = topics'[Msg.name] /\ e = Head(gwQue) /\ n = Msg.name
    OBVIOUS
  <2>4. e \in Range(gwQue) /\ Asks(e) /\ e.msg.mid = Msg.mid /\ e.msg.name = n
    BY <1>took, <2>1, <2>3 DEF Asks
  <2>5. RightSub'
    <3> SUFFICES ASSUME NEW k \in DOMAIN asked, k \in DOMAIN subMap', NEW v, v = subMap'[k]
                 PROVE  Right(v, asked[k])'
      BY <1>0 DEF RightSub, client
    <3>1. PICK a : a = asked[k] /\ a = asked'[k]
      BY <1>0 DEF client
    <3>2. (k \in DOMAIN subMap /\ v = subMap[k]) \/ (k = Msg.mid /\ v = id)
      BY <2>1, <2>3, InsertedEntries
    <3>3. CASE k \in DOMAIN subMap /\ v = subMap[k]
      <4>1. Right(v, a)
        BY <3>1, <3>3 DEF RightInv, RightSub
      <4>2. Right(v, a)'
        BY <2>2, <4>1, RightGrows DEF Grows
      <4> QED BY <3>1, <4>2 DEF Right
    <3>4. CASE k = Msg.mid /\ v = id
      <4>1. a = n
        BY <2>4, <3>1, <3>4 DEF RightInv, RightAsked
      <4>2. Right(id, n)'
        BY <2>1, <2>3, RightAdded
      <4> QED BY <3>1, <3>4, <4>1, <4>2 DEF Right
    <3> QED BY <3>2, <3>3, <3>4
  <2>6. Meant([type |-> "SUBSCRIBE", mid |-> Msg.mid])
    BY DEF Meant
  <2> QED BY <1>up, <1>cur, <1>took, <2>1, <2>2, <2>5, <2>6
<1>4. CASE SnSubscribeHere
  <2>1. /\ Take("client", "SUBSCRIBE") /\ UNCHANGED <<table, subMap, at, toBroker>>
    BY <1>4 DEF SnSubscribeHere, maps, task
  <2>2. PICK D : D = {Suback4(Msg.id = Predefined), Suback4(FALSE), TimeMsg}
    OBVIOUS
  <2>3. Answers({}, D)
    BY <1>0, <1>4, <2>2, AnswersHere
  <2>4. \A m \in D : RightTells(m)'
    <3>1. ASSUME NEW m \in D
          PROVE  (m.type = "SUBACK" /\ (m.ok => m.id = Predefined)) \/ m.type = "PUBLISH"
      <4>1. CASE m = Suback4(Msg.id = Predefined)
        BY <4>1 DEF Suback4
      <4>2. CASE m = Suback4(FALSE) \/ m = TimeMsg
        BY <4>2 DEF Suback4, TimeMsg
      <4> QED BY <2>2, <4>1, <4>2
    <3>2. Predefined < Normal
      BY IdsSuffice DEF Predefined
    <3> QED BY <3>1, <3>2 DEF RightTells, Right
  <2> QED BY <1>a, <1>g, <1>sub, <1>cur, <1>took, <2>1, <2>3, <2>4
<1>5. CASE SnUnsubscribe
  <2>1. /\ Take("client", "UNSUBSCRIBE") /\ UNCHANGED <<table, subMap, at, toClient>>
        /\ \E m : Forward(m) /\ Meant(m)
    BY <1>5 DEF SnUnsubscribe, maps, task, Meant
  <2> QED BY <1>up, <1>g, <1>sub, <1>cur, <1>took, <2>1
<1>6. CASE SnUnsubscribeHere
  <2>1. /\ Take("client", "UNSUBSCRIBE") /\ UNCHANGED <<table, subMap, at, toBroker>>
        /\ \E m : Reply(m) /\ m.type = "UNSUBACK"
    BY <1>6 DEF SnUnsubscribeHere, maps, task
  <2> QED BY <1>down, <1>g, <1>sub, <1>cur, <1>took, <1>quiet, <2>1
<1>7. CASE SnConnect
  BY <1>7, RightConnect
<1>8. CASE SnDisconnect
  <2>1. PICK m, n : Forward(m) /\ Reply(n) /\ m.type = "DISCONNECT" /\ n.type = "DISCONNECT"
    BY <1>8 DEF SnDisconnect
  <2>2. Take("client", "DISCONNECT") /\ UNCHANGED <<table, subMap, at>>
    BY <1>8 DEF SnDisconnect, maps, task
  <2>3. Answers({m}, {n})
    BY <1>0, <2>1, AnswersBoth
  <2>4. Meant(m)
    BY <2>1 DEF Meant
  <2> QED BY <1>a, <1>g, <1>sub, <1>cur, <1>took, <1>quiet, <2>1, <2>2, <2>3, <2>4
<1>9. CASE SnRegister
  <2>1. /\ Take("client", "REGISTER") /\ Add(Msg.name) /\ UNCHANGED <<subMap, toBroker, at>>
    BY <1>9 DEF SnRegister, maps, task
  <2>2. PICK id, e, n : id = topics'[Msg.name] /\ e = Head(gwQue) /\ n = Msg.name
    OBVIOUS
  <2>3. PICK m : Reply(m) /\ m.type = "REGACK" /\ m.id = id /\ m.mid = Msg.mid
    BY <1>9, <2>2 DEF SnRegister
  <2>4. e \in Range(gwQue) /\ Asks(e) /\ e.msg.mid = m.mid /\ e.msg.name = n
    BY <1>took, <2>1, <2>2, <2>3 DEF Asks
  <2>5. m.mid \in DOMAIN asked => asked[m.mid] = n
    BY <2>4 DEF RightInv, RightAsked
  <2>6. RightTells(m)'
    <3>1. Right(id, n)'
      BY <2>1, <2>2, RightAdded
    <3> QED BY <1>0, <2>3, <2>5, <3>1 DEF RightTells, Right, client
  <2>7. Grows
    BY <2>1 DEF Grows
  <2> QED BY <1>down, <1>sub, <1>cur, <1>took, <2>1, <2>3, <2>6, <2>7
<1>10. ASSUME NEW t \in {"PUBACK", "PUBREC", "PUBREL", "PUBCOMP", "PINGREQ"}, SnPass(t) PROVE RightInv'
  <2>1. /\ Take("client", t) /\ UNCHANGED <<table, subMap, at, toClient>>
        /\ \E m : Forward(m) /\ Meant(m)
    BY <1>10 DEF SnPass, maps, task, Meant
  <2> QED BY <1>up, <1>g, <1>sub, <1>cur, <1>took, <2>1
<1>11. CASE Puback
  <2>1. /\ Take("broker", "PUBACK") /\ UNCHANGED <<table, subMap, toBroker, at>>
        /\ UNCHANGED toClient \/ \E m : Reply(m) /\ m.type = "PUBACK"
    BY <1>11 DEF Puback, task
  <2> QED BY <1>none, <1>down, <1>g, <1>sub, <1>cur, <1>took, <1>quiet, <2>1
<1>12. CASE Suback
  <2>1. /\ Take("broker", "SUBACK") /\ UNCHANGED <<table, toBroker, at>>
        /\ subMap' = Erased(subMap, Msg.mid)
    BY <1>12 DEF Suback, task
  <2>2. RightSub'
    <3> SUFFICES ASSUME NEW k \in DOMAIN asked, k \in DOMAIN subMap', NEW v, v = subMap'[k]
                 PROVE  Right(v, asked[k])'
      BY <1>0 DEF RightSub, client
    <3>1. k \in DOMAIN subMap /\ v = subMap[k]
        <4>1. PICK new, mid : new = subMap' /\ new = Erased(subMap, mid)
          BY <2>1
        <4>2. DOMAIN new = DOMAIN subMap \ {mid} /\ \A i \in DOMAIN new : new[i] = subMap[i]
          BY <4>1 DEF Erased, Restrict
        <4> QED BY <4>1, <4>2
    <3>2. Right(v, asked[k])
      BY <3>1 DEF RightInv, RightSub
    <3> QED BY <1>0, <2>1, <3>2 DEF Right, table, client
  <2>3. CASE UNCHANGED toClient
    BY <1>none, <1>g, <1>cur, <1>took, <2>1, <2>2, <2>3
  <2>4. ASSUME Waited(subMap, Msg.mid) # 0,
               NEW m, m = [type |-> "SUBACK", id |-> Waited(subMap, Msg.mid), mid |-> Msg.mid, ok |-> Msg.ok],
               Reply(m)
        PROVE  RightInv'
    <3>1. Msg.mid \in DOMAIN subMap /\ m.id = subMap[Msg.mid] /\ m.mid = Msg.mid /\ m.type = "SUBACK"
      BY <2>4 DEF Waited
    <3>2. m.mid \in DOMAIN asked => Right(m.id, asked[m.mid])
      BY <3>1 DEF RightInv, RightSub
    <3>3. RightTells(m)'
      BY <1>0, <2>1, <3>1, <3>2 DEF RightTells, Right, table, client
    <3> QED BY <1>down, <1>g, <1>cur, <1>took, <2>1, <2>2, <2>4, <3>3
  <2> QED BY <1>12, <2>3, <2>4 DEF Suback
<1>13. ASSUME NEW t \in {"PUBREC", "PUBREL", "PUBCOMP", "UNSUBACK", "PINGRESP"}, Pass(t) PROVE RightInv'
  <2>1. /\ Take("broker", t) /\ UNCHANGED <<table, subMap, toBroker, at>>
        /\ \E m : Reply(m) /\ m.type = t
    BY <1>13 DEF Pass, maps, task
  <2> QED BY <1>down, <1>g, <1>sub, <1>cur, <1>took, <1>quiet, <2>1
<1>14. CASE Connack
  <2>1. /\ UNCHANGED <<table, subMap, toBroker>> /\ at' \in {"idle", "flushing"}
        /\ \E m : Reply(m) /\ m.type = "CONNACK"
    BY <1>14 DEF Connack, maps
  <2>2. at' = "idle"
    BY <2>1
  <2> QED BY <1>down, <1>g, <1>sub, <1>cur, <1>quiet, <2>1, <2>2
<1>15. CASE PublishTopic
  <2>1. /\ UNCHANGED <<subMap, toBroker, toClient>>
        /\ \/ Add(Msg.name) /\ cur'.name = Msg.name /\ cur'.id = topics'[Msg.name]
           \/ UNCHANGED table /\ at' = "publish"
    BY <1>15 DEF PublishTopic, maps
  <2>2. Grows
    BY <2>1 DEF Grows
  <2>3. RightCur'
    <3>1. CASE at' = "publish"
      BY <3>1 DEF RightCur
    <3>2. CASE Add(Msg.name) /\ cur'.name = Msg.name /\ cur'.id = topics'[Msg.name]
      <4>1. PICK id, n : id = cur'.id /\ n = Msg.name
        OBVIOUS
      <4>2. Right(id, n)'
        BY <3>2, <4>1, RightAdded
      <4> QED BY <3>2, <4>1, <4>2 DEF RightCur, Right
    <3> QED BY <2>1, <3>1, <3>2
  <2> QED BY <1>none, <1>sub, <2>1, <2>2, <2>3
<1>16. CASE RegisterAsleep \/ PublishAsleep
  <2>1. UNCHANGED <<table, subMap, toBroker, toClient, cur>>
        /\ (at' \in {"publish", "idle", "publish_active"} \/ at = "register")
    BY <1>16 DEF RegisterAsleep, PublishAsleep, maps
  <2>2. RightCur'
    BY <2>1 DEF RightInv, RightCur, Right, table
  <2> QED BY <1>none, <1>g, <1>sub, <2>1, <2>2
<1>17. CASE RegisterActive
  <2>1. /\ UNCHANGED <<table, subMap, toBroker>> /\ at = "register_active" /\ at' = "publish"
        /\ UNCHANGED toClient \/ Reply(RegisterMsg)
    BY <1>17 DEF RegisterActive, maps
  <2>2. \A m : m = RegisterMsg => RightTells(m)'
    BY <2>1 DEF RightInv, RightCur, RightTells, Right, RegisterMsg, table
  <2>3. RightCur'
    BY <2>1 DEF RightCur
  <2>4. CASE UNCHANGED toClient
    BY <1>none, <1>g, <1>sub, <2>1, <2>3, <2>4
  <2>5. ASSUME NEW m, m = RegisterMsg, Reply(m) PROVE RightInv'
    BY <1>down, <1>g, <1>sub, <2>1, <2>2, <2>3, <2>5
  <2> QED BY <2>1, <2>4, <2>5
<1>18. CASE PublishActive
  <2>1. /\ UNCHANGED <<table, subMap, toBroker>> /\ at' = "idle"
        /\ UNCHANGED toClient \/ \E m : Reply(m) /\ m.type = "PUBLISH"
    BY <1>18 DEF PublishActive, PublishMsg, maps
  <2> QED BY <1>none, <1>down, <1>g, <1>sub, <1>cur, <1>quiet, <2>1
<1> QED
  BY <1>1, <1>2, <1>3, <1>4, <1>5, <1>6, <1>7, <1>8, <1>9, <1>10, <1>11, <1>12, <1>13,
     <1>14, <1>15, <1>16, <1>17, <1>18
  DEF GatewayControlTask, Flush

LEMMA RightSays ==
    ASSUME Queues, RightInv, NEW m, ClientSends(m), Unchanged4Client,
           \A e : e = [from |-> "client", msg |-> m] /\ Publishes(e) => Right(m.id, m.meant),
           m.type \notin {"REGISTER", "SUBSCRIBE"}, UNCHANGED <<linked, told, asked>>,
           \A u \in unacked' : u \in unacked \/ (u.kind = "NORMAL" => Right(u.id, u.meant))
    PROVE  RightInv'
<1>1. gwQue' = Append(gwQue, [from |-> "client", msg |-> m])
      /\ UNCHANGED <<table, maps, task, toBroker, toClient>>
  BY DEF ClientSends, Unchanged4Client
<1>2. PICK e : e = [from |-> "client", msg |-> m]
  OBVIOUS
<1>3. Range(gwQue') = Range(gwQue) \cup {e}
  BY <1>1, <1>2, PostedUp
<1>4. ~Asks(e) /\ (Publishes(e) => Right(e.msg.id, e.msg.meant))
  BY <1>2 DEF Asks
<1>5. \A id, n : Right(id, n)' <=> Right(id, n)
  BY <1>1 DEF table, Right
<1>6. RightUp' /\ RightAsked'
  BY <1>3, <1>4, <1>5 DEF RightInv, RightUp, RightAsked
<1>7. RightTold' /\ RightUnacked' /\ RightSub'
  BY <1>1, <1>5 DEF maps, RightInv, RightTold, RightUnacked, RightSub
<1>8. RightDown' /\ RightCur' /\ Routed'
  BY <1>1 DEF table, task, Right, RightInv, RightDown, RightTells, Valid, AtClient, RightCur, Routed
<1> QED BY <1>6, <1>7, <1>8 DEF RightInv

LEMMA RightClientAsks ==
    ASSUME Queues, MidsGiven, RightInv, NEW m, ClientAsks(m), m.type # "PUBLISH", m.mid = Mid
    PROVE  RightInv'
<1>1. /\ gwQue' = Append(gwQue, [from |-> "client", msg |-> m]) /\ sent' = sent + 1
      /\ UNCHANGED <<table, maps, task, toBroker, toClient, linked, told, unacked>>
      /\ linked = "yes"
  BY DEF ClientAsks, ClientSends, Unchanged4Client
<1>2. PICK e : e = [from |-> "client", msg |-> m]
  OBVIOUS
<1>3. Range(gwQue') = Range(gwQue) \cup {e}
  BY <1>1, <1>2, PostedUp
<1>4. /\ DOMAIN asked' = DOMAIN asked \cup {Mid} /\ asked'[Mid] = m.name
      /\ \A k \in DOMAIN asked : k # Mid => asked'[k] = asked[k]
  BY DEF ClientAsks
<1>5. Mid \notin 1 .. sent
  BY DEF Mid, MidsGiven
<1>6. \A id, n : Right(id, n)' <=> Right(id, n)
  BY <1>1 DEF table, Right
<1>7. RightUp'
  BY <1>2, <1>3, <1>6 DEF RightInv, RightUp, Publishes
<1>8. RightAsked'
  <2> SUFFICES ASSUME NEW x \in Range(gwQue'), Asks(x), x.msg.mid \in DOMAIN asked'
               PROVE  asked'[x.msg.mid] = x.msg.name
    BY DEF RightAsked
  <2>1. CASE x = e
    BY <1>2, <1>4, <2>1
  <2>2. CASE x \in Range(gwQue)
    <3>1. x.msg.mid \in 1 .. sent
      BY <2>2 DEF MidsGiven, Numbers, Asks
    <3> QED BY <1>4, <1>5, <2>2, <3>1 DEF RightInv, RightAsked
  <2> QED BY <1>3, <2>1, <2>2
<1>9. RightSub'
  <2> SUFFICES ASSUME NEW k \in DOMAIN asked', k \in DOMAIN subMap', NEW a, a = asked'[k]
               PROVE  Right(subMap[k], a)
    BY <1>1, <1>6 DEF RightSub, maps, Right, table
  <2>1. k \in DOMAIN subMap /\ k \in 1 .. sent
    BY <1>1 DEF maps, MidsGiven
  <2> QED BY <1>4, <1>5, <2>1 DEF RightInv, RightSub
<1>10. RightDown'
  <2> SUFFICES ASSUME NEW k \in DOMAIN toClient, NEW x, x = toClient[k]
               PROVE  RightTells(x)'
    BY <1>1 DEF RightDown
  <2>1. RightTells(x) /\ x \in Range(toClient)
    BY <1>1 DEF RightInv, RightDown, Valid, Range
  <2>2. x.type \in {"REGACK", "SUBACK"} => x.mid \in 1 .. sent
    BY <2>1 DEF MidsGiven, NumbersDown
  <2>3. x.type \in {"REGACK", "SUBACK"} => x.mid # Mid
    BY <1>5, <2>2
  <2> QED BY <1>4, <1>6, <2>1, <2>3 DEF RightTells
<1>11. RightTold' /\ RightUnacked' /\ RightCur' /\ Routed'
  BY <1>1, <1>6 DEF task, RightInv, RightTold, RightUnacked, RightCur, Routed
<1> QED BY <1>7, <1>8, <1>9, <1>10, <1>11 DEF RightInv

LEMMA RightClientConnect ==
    ASSUME Queues, OneConnect, RightInv, NEW b \in BOOLEAN, ClientConnect(b), linked # "connecting"
    PROVE  RightInv'
<1>1. PICK e : /\ e.from = "client" /\ e.msg.type = "CONNECT"
               /\ gwQue' = Append(gwQue, e)
               /\ UNCHANGED <<table, maps, task, toBroker, toClient, told>>
  BY DEF ClientConnect, ClientSends, Unchanged4Client
<1>2. linked' = "connecting" /\ unacked' = {} /\ DOMAIN asked' = {}
  BY DEF ClientConnect, Empty
<1>3. Range(gwQue') = Range(gwQue) \cup {e}
  BY <1>1, PostedUp
<1>4. \A i \in DOMAIN toClient : ~AtClient(i)
  BY DialogueOpen
<1>5. RightDown'
  <2>1. DOMAIN toClient = 1 .. Len(toClient) /\ Len(toClient) \in Nat
    BY DEF Queues
  <2>2. \A k \in DOMAIN toClient : ~Valid(k)'
    BY <1>1, <1>2, <1>4, <2>1 DEF Valid, AtClient
  <2> QED BY <1>1, <2>2 DEF RightDown
<1>6. RightUp'
  BY <1>1, <1>3 DEF RightInv, RightUp, Publishes, Right, table
<1>7. RightTold' /\ RightUnacked' /\ RightAsked' /\ RightSub'
  BY <1>2 DEF RightTold, RightUnacked, RightAsked, RightSub
<1>8. RightCur' /\ Routed'
  BY <1>1 DEF RightInv, RightCur, Routed, Right, table, task
<1> QED BY <1>5, <1>6, <1>7, <1>8 DEF RightInv
LEMMA RightClient ==
    ASSUME Typed, OneConnect, MidsGiven, RightInv, Faithful', Client
    PROVE  RightInv'
<1>0. Queues /\ \A m \in unacked : m.type = "PUBLISH"
  BY DEF Typed, IdsTyped
<1>1. ASSUME NEW b \in BOOLEAN, ClientConnect(b) PROVE RightInv'
  <2>1. linked # "connecting"
    BY <1>1 DEF ClientConnect, Faithful
  <2> QED BY <1>0, <1>1, <2>1, RightClientConnect
<1>2. ASSUME NEW b \in BOOLEAN, ClientDisconnect(b) PROVE RightInv'
  <2>1. PICK m : ClientSends(m) /\ m.type = "DISCONNECT"
    BY <1>2 DEF ClientDisconnect
  <2>2. /\ Unchanged4Client /\ linked = "yes" /\ linked' \in {"asleep", "no"}
        /\ UNCHANGED <<told, unacked, asked>>
    BY <1>2 DEF ClientDisconnect
  <2>3. PICK e : e = [from |-> "client", msg |-> m]
    OBVIOUS
  <2>4. Range(gwQue') = Range(gwQue) \cup {e} /\ UNCHANGED <<table, maps, task, toBroker, toClient>>
    BY <1>0, <2>1, <2>2, <2>3, PostedUp DEF ClientSends, Unchanged4Client
  <2>5. RightUp' /\ RightAsked'
    BY <2>1, <2>2, <2>3, <2>4 DEF RightInv, RightUp, RightAsked, Publishes, Asks, Right, table
  <2>6. RightTold' /\ RightUnacked' /\ RightSub'
    BY <2>2, <2>4 DEF RightInv, RightTold, RightUnacked, RightSub, Right, table, maps
  <2>7. RightDown' /\ RightCur' /\ Routed'
    BY <2>2, <2>4 DEF RightInv, RightDown, RightTells, Valid, AtClient, RightCur, Routed, Right, table, task
  <2> QED BY <2>5, <2>6, <2>7 DEF RightInv
<1>3. ASSUME NEW n, ClientRegister(n) PROVE RightInv'
  BY <1>0, <1>3, RightClientAsks DEF ClientRegister
<1>4. ASSUME NEW kind, NEW n, NEW id, ClientSubscribe(kind, n, id) PROVE RightInv'
  BY <1>0, <1>4, RightClientAsks DEF ClientSubscribe
<1>5. ASSUME NEW kind, NEW n, ClientUnsubscribe(kind, n) PROVE RightInv'
  BY <1>0, <1>5, RightClientAsks DEF ClientUnsubscribe
<1>6. ASSUME NEW q, NEW kind, NEW id, NEW n, ClientPublish(q, kind, id, n),
             kind # "NORMAL" \/ Right(id, n)
      PROVE  RightInv'
  <2>1. PICK m : /\ m.type = "PUBLISH" /\ m.kind = kind /\ m.id = id /\ m.meant = n
                 /\ ClientSends(m) /\ unacked' \subseteq unacked \cup {m}
    BY <1>6 DEF ClientPublish
  <2>2. Unchanged4Client /\ UNCHANGED <<linked, told, asked>>
    BY <1>6 DEF ClientPublish
  <2>3. m.kind = "NORMAL" => Right(m.id, m.meant)
    BY <1>6, <2>1
  <2>4. \A e : e = [from |-> "client", msg |-> m] /\ Publishes(e) => Right(m.id, m.meant)
    BY <2>3 DEF Publishes
  <2> QED BY <1>0, <2>1, <2>2, <2>3, <2>4, RightSays
<1>7. ASSUME NEW q, NEW t \in told, ClientPublish(q, "NORMAL", t[1], t[2]) PROVE RightInv'
  <2>1. linked = "yes"
    BY <1>7 DEF ClientPublish
  <2>2. Right(t[1], t[2])
    BY <2>1 DEF RightInv, RightTold
  <2> QED BY <1>6, <1>7, <2>2
<1>8. ASSUME NEW q, NEW n, ClientPublish(q, "SHORT", 0, n) PROVE RightInv'
  BY <1>6, <1>8
<1>9. CASE ClientRepeat
  <2>1. PICK m \in unacked : ClientSends(m)
    BY <1>9 DEF ClientRepeat
  <2>2. Unchanged4Client /\ UNCHANGED <<linked, told, unacked, asked>>
    BY <1>9 DEF ClientRepeat
  <2>3. \A e : e = [from |-> "client", msg |-> m] /\ Publishes(e) => Right(m.id, m.meant)
    BY <2>1 DEF Publishes, RightInv, RightUnacked
  <2> QED BY <1>0, <2>1, <2>2, <2>3, RightSays
<1>10. CASE ClientPing
  <2>1. PICK m : ClientSends(m) /\ m.type = "PINGREQ"
    BY <1>10 DEF ClientPing
  <2>2. Unchanged4Client /\ UNCHANGED <<linked, told, unacked, asked>>
    BY <1>10 DEF ClientPing
  <2>3. \A e : e = [from |-> "client", msg |-> m] => ~Publishes(e)
    BY <2>1 DEF Publishes
  <2> QED BY <1>0, <2>1, <2>2, <2>3, RightSays
<1> QED BY <1>1, <1>2, <1>3, <1>4, <1>5, <1>7, <1>8, <1>9, <1>10 DEF Client

LEMMA TellsRight ==
    ASSUME NEW m, RightTells(m)
    PROVE  \A t \in Tells(m) : Right(t[1], t[2])
BY DEF Tells, RightTells

LEMMA RightTakes ==
    ASSUME Typed, OneConnect, MidsGiven, RightInv, ClientTakes
    PROVE  RightInv'
<1>0. Queues
  BY DEF Typed
<1> DEFINE m == Head(toClient)
<1>1. /\ toClient # << >> /\ toClient' = Tail(toClient)
      /\ linked' = IF m.type = "CONNACK" /\ linked = "connecting" THEN "yes" ELSE linked
      /\ told' = IF m.type = "CONNACK" THEN {} ELSE told \cup Tells(m)
      /\ unacked' \subseteq unacked
      /\ UNCHANGED <<table, maps, task, toBroker, asked>>
  BY DEF ClientTakes
<1>2. /\ \A i \in DOMAIN toClient' : /\ i \in Nat /\ i + 1 \in DOMAIN toClient
                                     /\ toClient'[i] = toClient[i + 1]
      /\ 1 \in DOMAIN toClient /\ toClient[1] = m
      /\ \A i \in DOMAIN toClient : i \in Nat
  BY <1>0, <1>1, ShrunkClient DEF Queues
<1>3. \A id, n : Right(id, n)' <=> Right(id, n)
  BY <1>1 DEF table, Right
<1>4. \A e \in Range(gwQue') : e \in Range(gwQue) \/ (~Publishes(e) /\ ~Asks(e))
  <2>1. CASE UNCHANGED gwQue
    BY <2>1
  <2>2. ASSUME NEW t \in {"PUBREL", "PUBACK", "PUBREC"},
               NEW e, e = [from |-> "client", msg |-> [type |-> t, mid |-> m.mid]],
               gwQue' = Append(gwQue, e)
        PROVE  \A x \in Range(gwQue') : x \in Range(gwQue) \/ (~Publishes(x) /\ ~Asks(x))
    <3>1. ~Publishes(e) /\ ~Asks(e)
      BY <2>2 DEF Publishes, Asks
    <3> QED BY <1>0, <2>2, <3>1, PostedUp
  <2>3. UNCHANGED gwQue \/ \E t \in {"PUBREL", "PUBACK", "PUBREC"} :
            gwQue' = Append(gwQue, [from |-> "client", msg |-> [type |-> t, mid |-> m.mid]])
    BY DEF ClientTakes, ClientAnswers
  <2> QED BY <2>1, <2>2, <2>3
<1>5. AtClient(1) <=> m.type = "CONNACK"
  BY <1>2 DEF AtClient
<1>6. m.type = "CONNACK" => linked = "connecting" /\ linked' = "yes"
  BY <1>1, <1>2, <1>5 DEF OneConnect
<1> HIDE DEF m
<1>7. RightTold'
  <2>1. CASE m.type = "CONNACK"
    BY <1>1, <2>1 DEF RightTold
  <2>2. CASE m.type # "CONNACK" /\ linked # "connecting"
    <3>1. Valid(1)
      BY <2>2 DEF Valid
    <3>2. RightTells(m)
      BY <1>2, <3>1 DEF RightInv, RightDown
    <3> QED BY <1>1, <1>3, <2>2, <3>2, TellsRight DEF RightInv, RightTold
  <2>3. CASE m.type # "CONNACK" /\ linked = "connecting"
    BY <1>1, <2>3 DEF RightTold
  <2> QED BY <2>1, <2>2, <2>3
<1>8. RightUnacked' /\ RightSub'
  BY <1>1, <1>3 DEF RightInv, RightUnacked, RightSub, maps
<1>9. RightUp' /\ RightAsked'
  BY <1>1, <1>3, <1>4 DEF RightInv, RightUp, RightAsked
<1>10. RightDown'
  <2> SUFFICES ASSUME NEW k \in DOMAIN toClient', Valid(k)', NEW x, x = toClient'[k]
               PROVE  RightTells(x)'
    BY DEF RightDown
  <2>1. k + 1 \in DOMAIN toClient /\ x = toClient[k + 1] /\ k \in Nat
    BY <1>2
  <2>2. Valid(k + 1)
    <3>1. CASE m.type = "CONNACK"
      <4>1. 1 \in 1 .. ((k + 1) - 1)
        <5>1. DOMAIN toClient' = 1 .. Len(toClient')
          BY <1>0, <1>1, Tailed DEF Queues
        <5> QED BY <2>1, <5>1
      <4> QED BY <1>5, <3>1, <4>1 DEF Valid
    <3>2. CASE linked' # "connecting" /\ m.type # "CONNACK"
      BY <1>1, <3>2 DEF Valid
    <3>3. CASE linked' = "connecting" /\ m.type # "CONNACK"
      <4>1. PICK i \in 1 .. (k - 1) : AtClient(i)'
        BY <3>3 DEF Valid
      <4>2. i \in DOMAIN toClient' /\ i + 1 \in 1 .. ((k + 1) - 1)
        <5>1. DOMAIN toClient' = 1 .. Len(toClient') /\ Len(toClient') \in Nat
          BY <1>0, <1>1, Tailed DEF Queues
        <5> QED BY <2>1, <4>1, <5>1
      <4>3. AtClient(i + 1)
        BY <1>2, <4>1, <4>2 DEF AtClient
      <4> QED BY <4>2, <4>3 DEF Valid
    <3> QED BY <3>1, <3>2, <3>3
  <2>3. RightTells(x)
    BY <2>1, <2>2 DEF RightInv, RightDown
  <2> QED BY <1>1, <1>3, <2>3 DEF RightTells
<1>11. RightCur' /\ Routed'
  BY <1>1, <1>3 DEF RightInv, RightCur, Routed, task
<1> QED BY <1>7, <1>8, <1>9, <1>10, <1>11 DEF RightInv

LEMMA RightBroker ==
    ASSUME Typed, RightInv, Broker
    PROVE  RightInv'
<1>0. Queues
  BY DEF Typed
<1>1. /\ UNCHANGED <<table, maps, task, toClient, client>>
      /\ Range(toBroker') \subseteq Range(toBroker)
      /\ gwQue' = gwQue \/ \E m : BrokerPosts(m)
  BY <1>0, Tailed DEF Broker, BrokerTakes, BrokerPublish, Queues
<1>2. \A e \in Range(gwQue') : e \in Range(gwQue) \/ (~Publishes(e) /\ ~Asks(e))
  <2>1. ASSUME NEW m, NEW e, e = [from |-> "broker", msg |-> m], gwQue' = Append(gwQue, e)
        PROVE  \A x \in Range(gwQue') : x \in Range(gwQue) \/ (~Publishes(x) /\ ~Asks(x))
    <3>1. ~Publishes(e) /\ ~Asks(e)
      BY <2>1 DEF Publishes, Asks
    <3> QED BY <1>0, <2>1, <3>1, PostedUp
  <2> QED BY <1>1, <2>1 DEF BrokerPosts
<1>3. \A id, n : Right(id, n)' <=> Right(id, n)
  BY <1>1 DEF table, Right
<1>4. RightUp' /\ RightAsked'
  BY <1>1, <1>2, <1>3 DEF RightInv, RightUp, RightAsked, client
<1>5. RightTold' /\ RightUnacked' /\ RightSub' /\ RightCur' /\ Routed'
  BY <1>1, <1>3 DEF RightInv, RightTold, RightUnacked, RightSub, RightCur, Routed, client, maps, task
<1>6. RightDown'
  BY <1>1 DEF RightInv, RightDown, RightTells, Right, Valid, AtClient, client, table
<1> QED BY <1>4, <1>5, <1>6 DEF RightInv

LEMMA RightInit == Init => RightInv
<1> SUFFICES ASSUME Init PROVE RightInv
  OBVIOUS
<1>1. Range(<< >>) = {} /\ DOMAIN Empty = {} /\ DOMAIN << >> = {}
  BY DEF Range, Empty
<1> QED BY <1>1 DEF Init, RightInv, RightTold, RightUnacked, RightUp, RightDown, RightAsked,
                    RightSub, RightCur, Routed

LEMMA RoutedStep ==
    ASSUME Typed, Routed, [Next]_vars, at' = "flushing"
    PROVE  Routed'
<1>1. Range(toBroker') \subseteq Range(toBroker)
  <2>1. CASE GatewayControlTask
    <3>1. at = "register" \/ at = "publish_active" \/ at = "register_active" \/ at = "publish"
          \/ at = "idle" \/ at = "flushing"
      BY DEF Typed, TypeOK
    <3>2. UNCHANGED toBroker
      BY <2>1 DEF GatewayControlTask, SnPublishForward, SnPublishReject, SnSubscribe,
         SnSubscribeHere, SnUnsubscribe, SnUnsubscribeHere, SnConnect, SnDisconnect, SnRegister,
         SnPass, Puback, Suback, Connack, Flush, PublishTopic, RegisterAsleep, RegisterActive,
         PublishAsleep, PublishActive, Pass, Take, task
    <3> QED BY <3>2
  <2>2. CASE Client
    BY <2>2 DEF Client, ClientConnect, ClientDisconnect, ClientRegister, ClientSubscribe,
       ClientUnsubscribe, ClientAsks, ClientPublish, ClientRepeat, ClientPing, Unchanged4Client
  <2>3. CASE ClientTakes
    BY <2>3 DEF ClientTakes
  <2>4. CASE Broker
    BY <2>4, Tailed DEF Broker, BrokerTakes, BrokerPublish, Typed, Queues
  <2>5. CASE UNCHANGED vars
    BY <2>5 DEF vars
  <2> QED BY <2>1, <2>2, <2>3, <2>4, <2>5 DEF Next
<1> QED BY <1>1 DEF Routed

LEMMA RightStep ==
    ASSUME Typed, Numbered, Dialogue, MidsGiven, RightIds, [Next]_vars
    PROVE  RightIds'
<1>1. Faithful' => Faithful
  BY DEF Faithful, Next, GatewayControlTask, SnPublishForward, SnPublishReject, SnSubscribe,
     SnSubscribeHere, SnUnsubscribe, SnUnsubscribeHere, SnConnect, SnDisconnect, SnRegister,
     SnPass, Puback, Suback, Connack, Flush, PublishTopic, RegisterAsleep, RegisterActive,
     PublishAsleep, PublishActive, Pass, Client, ClientConnect, ClientDisconnect, ClientRegister,
     ClientSubscribe, ClientUnsubscribe, ClientAsks, ClientPublish, ClientRepeat, ClientPing,
     ClientTakes, Broker, BrokerTakes, BrokerPublish, vars, client
<1> SUFFICES ASSUME Faithful' PROVE Routed' /\ (at' # "flushing" => RightInv')
  BY DEF RightIds
<1>2. OneConnect /\ Heralded /\ Routed /\ (at # "flushing" => RightInv)
  BY <1>1 DEF Dialogue, RightIds
<1>3. CASE at' = "flushing"
  BY <1>2, <1>3, RoutedStep
<1>4. CASE at' # "flushing"
  <2>1. at # "flushing"
    BY <1>4, TaskStep DEF Typed, Next, Client, ClientConnect, ClientDisconnect, ClientRegister,
       ClientSubscribe, ClientUnsubscribe, ClientAsks, ClientPublish, ClientRepeat, ClientPing,
       Unchanged4Client, ClientTakes, Broker, BrokerTakes, BrokerPublish, vars, task
  <2>2. RightInv
    BY <1>2, <2>1
  <2>3. CASE UNCHANGED vars
    <3>1. UNCHANGED <<table, maps, gwQue, task, toBroker, toClient, client>>
      BY <2>3 DEF vars
    <3> QED BY <2>2, <3>1 DEF table, maps, task, client, RightInv, RightTold, RightUnacked, RightUp,
               RightDown, RightTells, Right, Valid, AtClient, RightAsked, RightSub, RightCur, Routed
  <2>4. RightInv'
    BY <1>2, <1>4, <2>1, <2>2, <2>3, RightTask, RightClient, RightTakes, RightBroker DEF Next
  <2> QED BY <2>4 DEF RightInv
<1> QED BY <1>3, <1>4

LEMMA DialogueInit == Init => Dialogue
<1> SUFFICES ASSUME Init PROVE Dialogue
  OBVIOUS
<1>1. DOMAIN << >> = {}
  OBVIOUS
<1> QED BY <1>1 DEF Init, Dialogue, OneConnect, Heralded

(* The invariant of the relay. *)
RelayInv == IdInv /\ Typed /\ Dialogue /\ MidsGiven /\ RightIds

LEMMA RelayInit == Init => RelayInv
BY IdInit, TypedInit, DialogueInit, GivenInit, RightInit DEF RelayInv, RightIds, RightInv

LEMMA RelayStep == RelayInv /\ [Next]_vars => RelayInv'
<1> SUFFICES ASSUME RelayInv, [Next]_vars PROVE RelayInv'
  OBVIOUS
<1>1. IdInv /\ Typed /\ Dialogue /\ MidsGiven /\ RightIds /\ Numbered
  BY DEF RelayInv, IdInv
<1>2. IdInv' /\ Numbered'
  BY <1>1, IdStep DEF IdInv
<1>3. Typed' /\ Dialogue' /\ MidsGiven' /\ RightIds'
  BY <1>1, <1>2, TypedStep, DialogueStep, GivenStep, RightStep
<1> QED BY <1>2, <1>3 DEF RelayInv

(* The inductive invariant: types, the dialogue that connects a client, the *)
(* message ids given so far, and that whoever knows an id knows its topic.  *)
THEOREM RelayInvariant == Spec => []RelayInv
BY RelayInit, RelayStep, PTL DEF Spec

(* Whatever a client that does not repeat its CONNECT publishes reaches    *)
(* the broker under the name it meant by the topic id, however its          *)
(* sessions, registrations, subscriptions and sleeps follow each other.    *)
THEOREM NeverMisroutedCorrect == Spec => []NeverMisrouted
<1>1. RelayInv => NeverMisrouted
  BY DEF RelayInv, RightIds, Faithful, Routed, Meant, NeverMisrouted
<1> QED BY <1>1, RelayInvariant, PTL

-----------------------------------------------------------------------------
(* A client that publishes with QoS 1 only, and repeats nothing.           *)
Modest == used \cap {"qos2", "dup", "repeated"} = {}

(* Nobody speaks of QoS 2. *)
SecondUp(e) ==
    \/ e.from = "client" /\ (e.msg.type = "PUBREL" \/ (e.msg.type = "PUBLISH" /\ e.msg.qos = 2))
    \/ e.from = "broker" /\ e.msg.type \in {"PUBREC", "PUBCOMP"}
SecondOut(m) == m.type = "PUBREL" \/ (m.type = "PUBLISH" /\ m.qos = 2)
SecondDown(m) == m.type \in {"PUBREC", "PUBCOMP"}

NoSecond ==
    /\ \A e \in Range(gwQue) : ~SecondUp(e)
    /\ \A m \in Range(toBroker) : ~SecondOut(m)
    /\ \A m \in Range(toClient) : ~SecondDown(m)

LEMMA SecondTask ==
    ASSUME Typed, NoSecond, GatewayControlTask
    PROVE  NoSecond'
<1>0. Queues /\ Range(gwQue') \subseteq Range(gwQue)
  BY TaskStep, TailRange DEF Typed, Queues
<1>1. ASSUME \A m \in Range(toBroker') : m \in Range(toBroker) \/ ~SecondOut(m),
             \A m \in Range(toClient') : m \in Range(toClient) \/ ~SecondDown(m)
      PROVE  NoSecond'
  BY <1>0, <1>1 DEF NoSecond
<1>2. ASSUME UNCHANGED toBroker \/ \E m : Forward(m) /\ ~SecondOut(m),
             UNCHANGED toClient \/ \E m : Reply(m) /\ ~SecondDown(m)
      PROVE  NoSecond'
  BY <1>0, <1>1, <1>2, Forwarded, Replied
<1>3. ASSUME NEW from, NEW type, Take(from, type)
      PROVE  \E e \in Range(gwQue) : e.from = from /\ e.msg = Msg /\ Msg.type = type /\ ~SecondUp(e)
  BY <1>0, <1>3, Took DEF NoSecond
<1>4. CASE SnPublishForward
  <2>1. PICK m : Forward(m) /\ m.type = "PUBLISH" /\ m.qos = Msg.qos
    BY <1>4 DEF SnPublishForward
  <2>2. Take("client", "PUBLISH") /\ UNCHANGED toClient
    BY <1>4 DEF SnPublishForward
  <2>3. ~SecondOut(m)
    BY <1>3, <2>1, <2>2 DEF SecondUp, SecondOut
  <2> QED BY <1>2, <2>1, <2>2, <2>3
<1>5. CASE SnSubscribe \/ SnUnsubscribe
  <2>1. PICK m : Forward(m) /\ m.type \in {"SUBSCRIBE", "UNSUBSCRIBE"} /\ UNCHANGED toClient
    BY <1>5 DEF SnSubscribe, SnUnsubscribe
  <2> QED BY <1>2, <2>1 DEF SecondOut
<1>6. CASE SnPublishReject \/ Puback \/ Suback
  <2>1. /\ UNCHANGED toBroker
        /\ UNCHANGED toClient \/ \E m : Reply(m) /\ m.type \in {"PUBACK", "SUBACK"}
    BY <1>6 DEF SnPublishReject, Puback, Suback
  <2> QED BY <1>2, <2>1 DEF SecondDown
<1>7. CASE SnSubscribeHere
  <2>1. UNCHANGED toBroker
    BY <1>7 DEF SnSubscribeHere
  <2>2. Range(toClient') \subseteq Range(toClient) \cup {Suback4(TRUE), Suback4(FALSE), TimeMsg}
    BY <1>0, <1>7, Told4Here DEF Queues
  <2>3. \A m \in {Suback4(TRUE), Suback4(FALSE), TimeMsg} : ~SecondDown(m)
    BY DEF Suback4, TimeMsg, SecondDown
  <2> QED BY <1>1, <2>1, <2>2, <2>3
<1>8. CASE SnUnsubscribeHere \/ SnRegister \/ Connack
  <2>1. PICK m : Reply(m) /\ m.type \in {"UNSUBACK", "REGACK", "CONNACK"} /\ UNCHANGED toBroker
    BY <1>8 DEF SnUnsubscribeHere, SnRegister, Connack
  <2> QED BY <1>2, <2>1 DEF SecondDown
<1>9. CASE SnConnect
  <2>1. UNCHANGED toClient /\ (UNCHANGED toBroker \/ \E m : Forward(m) /\ m.type = "CONNECT")
    BY <1>9 DEF SnConnect
  <2> QED BY <1>2, <2>1 DEF SecondOut
<1>10. CASE SnDisconnect
  <2>1. (\E m : Forward(m) /\ m.type = "DISCONNECT") /\ \E m : Reply(m) /\ m.type = "DISCONNECT"
    BY <1>10 DEF SnDisconnect
  <2> QED BY <1>2, <2>1 DEF SecondOut, SecondDown
<1>11. ASSUME NEW t \in {"PUBACK", "PUBREC", "PUBREL", "PUBCOMP", "PINGREQ"}, SnPass(t) PROVE NoSecond'
  <2>1. Take("client", t) /\ UNCHANGED toClient /\ \E m : Forward(m) /\ m.type = t
    BY <1>11 DEF SnPass
  <2>2. t # "PUBREL"
    BY <1>3, <2>1 DEF SecondUp
  <2> QED BY <1>2, <2>1, <2>2 DEF SecondOut
<1>12. ASSUME NEW t \in {"PUBREC", "PUBREL", "PUBCOMP", "UNSUBACK", "PINGRESP"}, Pass(t) PROVE NoSecond'
  <2>1. Take("broker", t) /\ UNCHANGED toBroker /\ \E m : Reply(m) /\ m.type = t
    BY <1>12 DEF Pass
  <2>2. t \notin {"PUBREC", "PUBCOMP"}
    BY <1>3, <2>1 DEF SecondUp
  <2> QED BY <1>2, <2>1, <2>2 DEF SecondDown
<1>13. CASE PublishTopic \/ RegisterAsleep \/ PublishAsleep
  <2>1. UNCHANGED <<toBroker, toClient>>
    BY <1>13 DEF PublishTopic, RegisterAsleep, PublishAsleep
  <2> QED BY <1>2, <2>1
<1>14. CASE RegisterActive \/ PublishActive
  <2>1. UNCHANGED toBroker /\ (UNCHANGED toClient \/ \E m : Reply(m) /\ m.type \in {"REGISTER", "PUBLISH"})
    BY <1>14 DEF RegisterActive, PublishActive, RegisterMsg, PublishMsg
  <2> QED BY <1>2, <2>1 DEF SecondDown
<1>15. CASE Flush
  <2>1. Reply(Head(sleepQue)) /\ UNCHANGED toBroker /\ sleepQue # << >>
    BY <1>15 DEF Flush, Typed, IdsTyped
  <2>2. Head(sleepQue).type \in {"REGISTER", "PUBLISH"}
    BY <1>0, <2>1, Tailed DEF Queues, Typed, TypeOK
  <2> QED BY <1>2, <2>1, <2>2 DEF SecondDown
<1> QED
  BY <1>4, <1>5, <1>6, <1>7, <1>8, <1>9, <1>10, <1>11, <1>12, <1>13, <1>14, <1>15
  DEF GatewayControlTask

LEMMA SecondClient ==
    ASSUME Typed, NoSecond, Client, Modest'
    PROVE  NoSecond'
<1>0. Queues
  BY DEF Typed
<1>1. ASSUME NEW m, ClientSends(m), Unchanged4Client,
             m.type # "PUBREL", m.type = "PUBLISH" => m.qos # 2
      PROVE  NoSecond'
  <2>1. PICK e : e = [from |-> "client", msg |-> m]
    OBVIOUS
  <2>2. Range(gwQue') = Range(gwQue) \cup {e} /\ UNCHANGED <<toBroker, toClient>>
    BY <1>0, <1>1, <2>1, PostedUp DEF ClientSends, Unchanged4Client
  <2>3. ~SecondUp(e)
    BY <1>1, <2>1 DEF SecondUp
  <2> QED BY <2>2, <2>3 DEF NoSecond
<1>2. ASSUME NEW b, ClientConnect(b) \/ ClientDisconnect(b) PROVE NoSecond'
  BY <1>1, <1>2 DEF ClientConnect, ClientDisconnect
<1>3. ASSUME NEW n, ClientRegister(n) PROVE NoSecond'
  BY <1>1, <1>3 DEF ClientRegister, ClientAsks
<1>4. ASSUME NEW kind, NEW n, NEW id, ClientSubscribe(kind, n, id) PROVE NoSecond'
  BY <1>1, <1>4 DEF ClientSubscribe, ClientAsks
<1>5. ASSUME NEW kind, NEW n, ClientUnsubscribe(kind, n) PROVE NoSecond'
  BY <1>1, <1>5 DEF ClientUnsubscribe, ClientAsks
<1>6. ASSUME NEW q, NEW kind, NEW id, NEW n, ClientPublish(q, kind, id, n) PROVE NoSecond'
  <2>1. q # 2
    BY <1>6 DEF ClientPublish, Modest
  <2> QED BY <1>1, <1>6, <2>1 DEF ClientPublish
<1>7. ~ClientRepeat
  BY DEF ClientRepeat, Modest
<1>8. ASSUME ClientPing PROVE NoSecond'
  BY <1>1, <1>8 DEF ClientPing
<1> QED BY <1>2, <1>3, <1>4, <1>5, <1>6, <1>7, <1>8 DEF Client

LEMMA SecondTakes ==
    ASSUME Typed, NoSecond, ClientTakes
    PROVE  NoSecond'
<1>0. Queues
  BY DEF Typed
<1>1. /\ Head(toClient) \in Range(toClient) /\ Range(toClient') \subseteq Range(toClient)
      /\ UNCHANGED toBroker
  BY <1>0, Tailed DEF ClientTakes, Queues
<1>2. ~SecondDown(Head(toClient))
  BY <1>1 DEF NoSecond
<1>3. ASSUME NEW t \in {"PUBACK", "PUBREC"}, NEW e,
             e = [from |-> "client", msg |-> [type |-> t, mid |-> Head(toClient).mid]],
             gwQue' = Append(gwQue, e)
      PROVE  \A x \in Range(gwQue') : x \in Range(gwQue) \/ ~SecondUp(x)
  <2>1. ~SecondUp(e)
    BY <1>3 DEF SecondUp
  <2> QED BY <1>0, <1>3, <2>1, PostedUp
<1>4. UNCHANGED gwQue \/ \E t \in {"PUBACK", "PUBREC"} :
        gwQue' = Append(gwQue, [from |-> "client", msg |-> [type |-> t, mid |-> Head(toClient).mid]])
  BY <1>2 DEF ClientTakes, ClientAnswers, SecondDown
<1> QED BY <1>1, <1>3, <1>4 DEF NoSecond

LEMMA SecondBroker ==
    ASSUME Typed, NoSecond, Broker
    PROVE  NoSecond'
<1>0. Queues
  BY DEF Typed
<1>1. UNCHANGED toClient /\ Range(toBroker') \subseteq Range(toBroker)
  BY <1>0, Tailed DEF Broker, BrokerTakes, BrokerPublish, Queues
<1>2. ASSUME NEW m, BrokerPosts(m), m.type \notin {"PUBREC", "PUBCOMP"} PROVE NoSecond'
  <2>1. PICK e : e = [from |-> "broker", msg |-> m]
    OBVIOUS
  <2>2. Range(gwQue') = Range(gwQue) \cup {e} /\ ~SecondUp(e)
    BY <1>0, <1>2, <2>1, PostedUp DEF BrokerPosts, SecondUp
  <2> QED BY <1>1, <2>2 DEF NoSecond
<1>3. ASSUME NEW n \in Names, BrokerPublish(n) PROVE NoSecond'
  BY <1>2, <1>3 DEF BrokerPublish
<1>4. ASSUME NEW ok \in BOOLEAN, BrokerTakes(ok) PROVE NoSecond'
  <2>1. CASE UNCHANGED gwQue
    BY <1>1, <2>1 DEF NoSecond
  <2>2. CASE ~UNCHANGED gwQue
    <3>1. PICK m \in BrokerReply(Head(toBroker), ok) : BrokerPosts(m)
      BY <1>4, <2>2 DEF BrokerTakes
    <3>2. Head(toBroker) \in Range(toBroker)
      BY <1>0, <1>4, Tailed DEF BrokerTakes, Queues
    <3>3. ~SecondOut(Head(toBroker))
      BY <3>2 DEF NoSecond
    <3>4. m.type \notin {"PUBREC", "PUBCOMP"}
      BY <3>3 DEF BrokerReply, SecondOut
    <3> QED BY <1>2, <3>1, <3>4
  <2> QED BY <2>1, <2>2
<1> QED BY <1>3, <1>4 DEF Broker

-----------------------------------------------------------------------------
(* Where a PUBLISH of QoS 1 is: on its way to the gateway or the broker, or *)
(* as the PUBACK on its way back; nowhere twice.  The map has its entry     *)
(* from the time the PUBLISH is forwarded until the PUBACK is.             *)
PublishUp(e, k) == e.from = "client" /\ e.msg.type = "PUBLISH" /\ e.msg.mid = k
PubackUp(e, k) == e.from = "broker" /\ e.msg.type = "PUBACK" /\ e.msg.mid = k
Carries(e, k) == PublishUp(e, k) \/ PubackUp(e, k)
PublishOut(m, k) == m.type = "PUBLISH" /\ m.mid = k
PubackDown(m, k) == m.type = "PUBACK" /\ m.mid = k

OnePlace(k) ==
    /\ \A i, j \in DOMAIN gwQue : Carries(gwQue[i], k) /\ Carries(gwQue[j], k) => i = j
    /\ \A i, j \in DOMAIN toBroker : PublishOut(toBroker[i], k) /\ PublishOut(toBroker[j], k) => i = j
    /\ \A i, j \in DOMAIN toClient : PubackDown(toClient[i], k) /\ PubackDown(toClient[j], k) => i = j
    /\ \A i \in DOMAIN gwQue, j \in DOMAIN toBroker : ~(Carries(gwQue[i], k) /\ PublishOut(toBroker[j], k))
    /\ \A i \in DOMAIN gwQue, j \in DOMAIN toClient : ~(Carries(gwQue[i], k) /\ PubackDown(toClient[j], k))
    /\ \A i \in DOMAIN toBroker, j \in DOMAIN toClient :
          ~(PublishOut(toBroker[i], k) /\ PubackDown(toClient[j], k))

Entered(k, id) == k \in DOMAIN pubMap /\ pubMap[k] = id

Entry(u) ==
    /\ \A i \in DOMAIN gwQue : PublishUp(gwQue[i], u.mid) => u.mid \notin DOMAIN pubMap
    /\ \A i \in DOMAIN toClient : PubackDown(toClient[i], u.mid) => u.mid \notin DOMAIN pubMap
    /\ \A i \in DOMAIN gwQue : PubackUp(gwQue[i], u.mid) => Entered(u.mid, u.id)
    /\ \A i \in DOMAIN toBroker : PublishOut(toBroker[i], u.mid) => Entered(u.mid, u.id)

Kept(u) == OnePlace(u.mid) /\ Entry(u)

(* A CONNECT has been handled, and the CONNACK not been taken. *)
Opened ==
    \/ \E i \in DOMAIN gwQue : IsConnack(gwQue[i])
    \/ \E i \in DOMAIN toBroker : AtBroker(i)
    \/ \E i \in DOMAIN toClient : AtClient(i)

Mids == {u.mid : u \in unacked}
Numbered1(e) == e.from = "client" /\ e.msg.type = "PUBLISH" /\ e.msg.mid # 0

KeptInv ==
    /\ NoSecond
    /\ IsFiniteSet(unacked) /\ Cardinality(unacked) <= MaxInflight
    /\ \A u, v \in unacked : u.mid = v.mid => u = v
    /\ \A u \in unacked : Kept(u)
    /\ linked # "connecting" =>
          /\ DOMAIN pubMap \subseteq Mids
          /\ \A i \in DOMAIN gwQue : Numbered1(gwQue[i]) => gwQue[i].msg \in unacked
    /\ Opened => DOMAIN pubMap = {}

KeptIds == Modest => KeptInv

LEMMA KeptWaits ==
    ASSUME linked' = "connecting", unacked' = {}, NoSecond', Opened' => DOMAIN pubMap' = {}
    PROVE  KeptInv'
<1>1. IsFiniteSet({}) /\ Cardinality({}) <= MaxInflight
  BY FS_EmptySet, BoundsNat
<1> QED BY <1>1 DEF KeptInv

(* TopicIdMap::add() with room left. *)
LEMMA InsertedRoom ==
    ASSUME NEW map, Cardinality(DOMAIN map) \in Nat, Cardinality(DOMAIN map) < MaxInflight,
           NEW k, k \notin DOMAIN map, NEW id, NEW new, new = Inserted(map, k, id)
    PROVE  /\ DOMAIN new = DOMAIN map \cup {k} /\ new[k] = id
           /\ \A j \in DOMAIN map : new[j] = map[j]
<1>1. ~(Cardinality(DOMAIN map) >= MaxInflight)
  BY BoundsNat
<1>2. new = [j \in DOMAIN map \cup {k} |-> IF j \in DOMAIN map THEN map[j] ELSE id]
  BY <1>1 DEF Inserted
<1> QED BY <1>2

LEMMA RoomLeft ==
    ASSUME IsFiniteSet(unacked), Cardinality(unacked) <= MaxInflight, DOMAIN pubMap \subseteq Mids,
           NEW u \in unacked, u.mid \notin DOMAIN pubMap
    PROVE  Cardinality(DOMAIN pubMap) \in Nat /\ Cardinality(DOMAIN pubMap) < MaxInflight
<1> DEFINE f == [v \in unacked |-> v.mid]
<1>1. f \in Surjection(unacked, Mids)
  BY DEF Surjection, Mids
<1>2. IsFiniteSet(Mids) /\ Cardinality(Mids) <= Cardinality(unacked)
  BY <1>1, FS_Surjection
<1>3. u.mid \in Mids /\ DOMAIN pubMap \subseteq Mids \ {u.mid}
  BY DEF Mids
<1>4. IsFiniteSet(Mids \ {u.mid}) /\ Cardinality(Mids \ {u.mid}) = Cardinality(Mids) - 1
  BY <1>2, <1>3, FS_RemoveElement
<1>5. IsFiniteSet(DOMAIN pubMap) /\ Cardinality(DOMAIN pubMap) <= Cardinality(Mids \ {u.mid})
  BY <1>3, <1>4, FS_Subset
<1> QED BY <1>2, <1>4, <1>5, FS_CardinalityType, BoundsNat

(* A step that neither takes nor sends a message with the id. *)
LEMMA KeptQuiet ==
    ASSUME Queues, NEW u, Kept(u), gwQue' = gwQue \/ (gwQue # << >> /\ gwQue' = Tail(gwQue)),
           NEW B, NEW D, Answers(B, D),
           \A m \in B : ~PublishOut(m, u.mid), \A m \in D : ~PubackDown(m, u.mid),
           u.mid \in DOMAIN pubMap' <=> u.mid \in DOMAIN pubMap,
           u.mid \in DOMAIN pubMap => pubMap'[u.mid] = pubMap[u.mid]
    PROVE  Kept(u)'
<1> DEFINE k == u.mid
<1>1. \A i \in DOMAIN toBroker' : PublishOut(toBroker'[i], k) => i \in DOMAIN toBroker /\ toBroker'[i] = toBroker[i]
  BY GrownOld DEF Answers
<1>2. \A i \in DOMAIN toClient' : PubackDown(toClient'[i], k) => i \in DOMAIN toClient /\ toClient'[i] = toClient[i]
  BY GrownOld DEF Answers
<1>3. PICK d \in {0, 1} : \A i \in DOMAIN gwQue' : i \in Nat /\ i + d \in DOMAIN gwQue /\ gwQue'[i] = gwQue[i + d]
  <2>1. CASE gwQue' = gwQue
    <3>1. \A i \in DOMAIN gwQue : i \in Nat /\ i + 0 = i
      BY DEF Queues
    <3> QED BY <2>1, <3>1
  <2>2. CASE gwQue # << >> /\ gwQue' = Tail(gwQue)
    BY <2>2, OneTail
  <2> QED BY <2>1, <2>2
<1> HIDE DEF k
<1>4. OnePlace(k)'
  BY <1>1, <1>2, <1>3 DEF Kept, OnePlace, k
<1>5. Entry(u)'
  BY <1>1, <1>2, <1>3 DEF Kept, Entry, Entered, k
<1> QED BY <1>4, <1>5 DEF Kept, k

(* The event at the head of the queue is answered with one message, or none. *)
LEMMA KeptMoved ==
    ASSUME Queues, NEW k, OnePlace(k), gwQue # << >>, gwQue' = Tail(gwQue), Carries(gwQue[1], k),
           \/ UNCHANGED <<toBroker, toClient>>
           \/ (UNCHANGED toClient /\ \E m : Forward(m))
           \/ (UNCHANGED toBroker /\ \E m : Reply(m))
    PROVE  /\ OnePlace(k)' /\ \A i \in DOMAIN gwQue' : ~Carries(gwQue'[i], k)
           /\ UNCHANGED toBroker => \A i \in DOMAIN toBroker' : ~PublishOut(toBroker'[i], k)
           /\ UNCHANGED toClient => \A i \in DOMAIN toClient' : ~PubackDown(toClient'[i], k)
<1>1. /\ \A i \in DOMAIN gwQue' : i + 1 \in DOMAIN gwQue /\ gwQue'[i] = gwQue[i + 1] /\ i + 1 # 1
      /\ 1 \in DOMAIN gwQue
  BY OneTail
<1>2. \A i \in DOMAIN gwQue' : ~Carries(gwQue'[i], k)
  BY <1>1 DEF OnePlace
<1>3. \A i \in DOMAIN toBroker : ~PublishOut(toBroker[i], k)
  BY <1>1 DEF OnePlace
<1>4. \A i \in DOMAIN toClient : ~PubackDown(toClient[i], k)
  BY <1>1 DEF OnePlace
<1>5. CASE UNCHANGED <<toBroker, toClient>>
  BY <1>2, <1>3, <1>4, <1>5 DEF OnePlace
<1>6. ASSUME UNCHANGED toClient, NEW m, Forward(m) PROVE OnePlace(k)'
  <2>1. PICK r : r = toBroker'
    OBVIOUS
  <2>2. DOMAIN r = 1 .. (Len(toBroker) + 1) /\ DOMAIN toBroker = 1 .. Len(toBroker)
        /\ Len(toBroker) \in Nat /\ \A i \in 1 .. Len(toBroker) : r[i] = toBroker[i]
    BY <1>6, <2>1, Appended DEF Forward, Queues
  <2>3. \A i \in DOMAIN r : PublishOut(r[i], k) => i = Len(toBroker) + 1
    BY <1>3, <2>2
  <2> QED BY <1>2, <1>4, <1>6, <2>1, <2>3 DEF OnePlace
<1>7. ASSUME UNCHANGED toBroker, NEW m, Reply(m) PROVE OnePlace(k)'
  <2>1. PICK r : r = toClient'
    OBVIOUS
  <2>2. DOMAIN r = 1 .. (Len(toClient) + 1) /\ DOMAIN toClient = 1 .. Len(toClient)
        /\ Len(toClient) \in Nat /\ \A i \in 1 .. Len(toClient) : r[i] = toClient[i]
    BY <1>7, <2>1, Appended DEF Reply, Queues
  <2>3. \A i \in DOMAIN r : PubackDown(r[i], k) => i = Len(toClient) + 1
    BY <1>4, <2>2
  <2> QED BY <1>2, <1>3, <1>7, <2>1, <2>3 DEF OnePlace
<1> QED BY <1>2, <1>3, <1>4, <1>5, <1>6, <1>7

LEMMA OpenedBefore ==
    ASSUME Queues, Opened', \A e \in Range(gwQue') : e \in Range(gwQue) \/ ~IsConnack(e),
           NEW B, NEW D, Answers(B, D), \A m \in B : m.type # "CONNECT", \A m \in D : m.type # "CONNACK"
    PROVE  Opened
<1>1. \A i \in DOMAIN toBroker' : AtBroker(i)' => i \in DOMAIN toBroker /\ AtBroker(i)
  BY GrownOld DEF Answers, AtBroker
<1>2. \A i \in DOMAIN toClient' : AtClient(i)' => i \in DOMAIN toClient /\ AtClient(i)
  BY GrownOld DEF Answers, AtClient
<1>3. (\E i \in DOMAIN gwQue' : IsConnack(gwQue'[i])) => \E i \in DOMAIN gwQue : IsConnack(gwQue[i])
  BY DEF Range
<1> QED BY <1>1, <1>2, <1>3 DEF Opened

LEMMA KeptTask ==
    ASSUME Typed, OneConnect, Heralded, MidsGiven, KeptInv, GatewayControlTask
    PROVE  KeptInv'
<1>0. Queues /\ UNCHANGED client /\ Range(gwQue') \subseteq Range(gwQue)
  BY TaskStep, TailRange DEF Typed, Queues
<1>1. NoSecond'
  BY SecondTask DEF KeptInv
<1>2. /\ UNCHANGED <<linked, unacked>>
      /\ \A u \in unacked : u.mid \in 1 .. sent /\ u.mid # 0
      /\ \A u, v \in unacked : u.mid = v.mid => u = v
      /\ \A u \in unacked : Kept(u)
      /\ linked = "connecting" => unacked = {}
  BY <1>0 DEF client, MidsGiven, KeptInv
<1>3. ASSUME \A u \in unacked : Kept(u)',
             linked # "connecting" => DOMAIN pubMap' \subseteq Mids,
             Opened' => DOMAIN pubMap' = {}
      PROVE  KeptInv'
  <2>1. linked # "connecting" => \A i \in DOMAIN gwQue' : Numbered1(gwQue'[i]) => gwQue'[i].msg \in unacked
    BY <1>0 DEF KeptInv, Range
  <2>2. Mids' = Mids
    BY <1>2 DEF Mids
  <2> QED BY <1>1, <1>2, <1>3, <2>1, <2>2 DEF KeptInv
<1>4. gwQue' = gwQue \/ (gwQue # << >> /\ gwQue' = Tail(gwQue))
  BY <1>0, TaskStep
<1>5. ASSUME NEW B, NEW D, Answers(B, D), \A m \in B : m.type # "CONNECT", \A m \in D : m.type # "CONNACK",
             Opened'
      PROVE  DOMAIN pubMap = {}
  <2>1. Opened
    BY <1>0, <1>5, OpenedBefore
  <2> QED BY <2>1 DEF KeptInv
<1>a. ASSUME NEW B, NEW D, Answers(B, D), UNCHANGED pubMap,
             \A m \in B : m.type # "CONNECT" /\ (m.type = "PUBLISH" => m.mid = 0),
             \A m \in D : m.type # "CONNACK" /\ (m.type = "PUBACK" => \A u \in unacked : m.mid # u.mid)
      PROVE  KeptInv'
  <2>1. ASSUME NEW u \in unacked PROVE Kept(u)'
    <3>1. \A m \in B : ~PublishOut(m, u.mid)
      BY <1>2, <1>a, <2>1 DEF PublishOut
    <3>2. \A m \in D : ~PubackDown(m, u.mid)
      BY <1>2, <1>a, <2>1 DEF PubackDown
    <3>3. Kept(u)
      BY <1>2
    <3> QED BY <1>0, <1>4, <1>a, <3>1, <3>2, <3>3, KeptQuiet
  <2>2. Opened' => DOMAIN pubMap' = {}
    BY <1>5, <1>a
  <2> QED BY <1>3, <1>a, <2>1, <2>2 DEF KeptInv
<1>none. ASSUME UNCHANGED <<toBroker, toClient, pubMap>> PROVE KeptInv'
  <2>1. Answers({}, {})
    BY <1>0, <1>none, AnswersNone
  <2> QED BY <1>a, <1>none, <2>1
<1>up. ASSUME NEW m, Forward(m), UNCHANGED <<toClient, pubMap>>,
              m.type # "CONNECT" /\ (m.type = "PUBLISH" => m.mid = 0)
       PROVE  KeptInv'
  <2>1. Answers({m}, {})
    BY <1>0, <1>up, AnswersUp
  <2> QED BY <1>a, <1>up, <2>1
<1>down. ASSUME NEW m, Reply(m), UNCHANGED <<toBroker, pubMap>>, m.type \notin {"CONNACK", "PUBACK"}
         PROVE  KeptInv'
  <2>1. Answers({}, {m})
    BY <1>0, <1>down, AnswersDown
  <2> QED BY <1>a, <1>down, <2>1
<1>6. CASE SnPublishForward
  <2>1. Take("client", "PUBLISH") /\ UNCHANGED toClient
    BY <1>6 DEF SnPublishForward
  <2>2. PICK m : Forward(m) /\ m.type = "PUBLISH" /\ m.mid = Msg.mid
    BY <1>6 DEF SnPublishForward
  <2>3. CASE Msg.mid = 0
    <3>1. UNCHANGED pubMap
      BY <1>6, <2>3 DEF SnPublishForward
    <3> QED BY <1>up, <2>1, <2>2, <2>3, <3>1
  <2>4. CASE Msg.mid # 0
    <3>1. Answers({m}, {})
      BY <1>0, <2>1, <2>2, AnswersUp
    <3>2. /\ gwQue # << >> /\ gwQue' = Tail(gwQue) /\ 1 \in DOMAIN gwQue
          /\ gwQue[1].from = "client" /\ gwQue[1].msg.type = "PUBLISH" /\ gwQue[1].msg = Msg
      BY <1>0, <2>1, TookFirst
    <3>3. CASE linked = "connecting"
      <4>1. PICK i \in DOMAIN gwQue : i > 1 /\ IsConnect(gwQue[i])
        BY <3>2, <3>3 DEF Heralded, OfSession
      <4>2. AtGateway(i) /\ ~IsConnack(gwQue[i])
        BY <4>1 DEF AtGateway, IsConnect, IsConnack
      <4>3. ~Opened
        BY <4>2 DEF Opened, OneConnect, AtGateway
      <4>4. ~Opened'
        <5>1. \A x \in {m} : x.type # "CONNECT"
          BY <2>2
        <5> QED BY <1>0, <3>1, <4>3, <5>1, OpenedBefore
      <4> QED BY <1>1, <1>2, <3>3, <4>4, KeptWaits
    <3>4. CASE linked # "connecting"
      <4>1. PICK v \in unacked : v = Msg
        BY <2>4, <3>2, <3>4 DEF KeptInv, Numbered1
      <4> DEFINE k == v.mid
      <4>2. PublishUp(gwQue[1], k) /\ Carries(gwQue[1], k)
        BY <3>2, <4>1 DEF PublishUp, Carries
      <4>3. k \notin DOMAIN pubMap
        BY <1>2, <3>2, <4>2 DEF Kept, Entry
      <4>4. Cardinality(DOMAIN pubMap) \in Nat /\ Cardinality(DOMAIN pubMap) < MaxInflight
        BY <3>4, <4>3, RoomLeft DEF KeptInv
      <4>5. pubMap' = Inserted(pubMap, k, v.id)
        BY <1>6, <2>4, <4>1 DEF SnPublishForward
      <4>6. /\ DOMAIN pubMap' = DOMAIN pubMap \cup {k} /\ pubMap'[k] = v.id
            /\ \A j \in DOMAIN pubMap : pubMap'[j] = pubMap[j]
        BY <4>3, <4>4, <4>5, InsertedRoom
      <4>7. DOMAIN pubMap' \subseteq Mids
        BY <3>4, <4>6 DEF KeptInv, Mids
      <4>8. ~Opened'
        <5>1. ~Opened
          BY <1>0, <3>4, DialogueOpen DEF Opened, AtGateway
        <5>2. \A x \in {m} : x.type # "CONNECT"
          BY <2>2
        <5> QED BY <1>0, <3>1, <5>1, <5>2, OpenedBefore
      <4>9. ASSUME NEW u \in unacked, u.mid = k PROVE Kept(u)'
        <5>1. u = v
          BY <1>2, <4>9
        <5>2. /\ OnePlace(k)' /\ \A i \in DOMAIN gwQue' : ~Carries(gwQue'[i], k)
              /\ \A i \in DOMAIN toClient' : ~PubackDown(toClient'[i], k)
          <6>1. OnePlace(k)
            BY <1>2 DEF Kept
          <6> HIDE DEF k
          <6> QED BY <1>0, <2>1, <2>2, <3>2, <4>2, <6>1, KeptMoved
        <5>3. Entered(k, v.id)'
          BY <4>6 DEF Entered
        <5> QED BY <5>1, <5>2, <5>3 DEF Kept, Entry, Carries, Entered
      <4>10. ASSUME NEW u \in unacked, u.mid # k PROVE Kept(u)'
        <5>1. \A x \in {m} : ~PublishOut(x, u.mid)
          BY <2>2, <4>1, <4>10 DEF PublishOut
        <5>2. /\ u.mid \in DOMAIN pubMap' <=> u.mid \in DOMAIN pubMap
              /\ u.mid \in DOMAIN pubMap => pubMap'[u.mid] = pubMap[u.mid]
          BY <4>6, <4>10
        <5>3. Kept(u)
          BY <1>2
        <5> QED BY <1>0, <1>4, <3>1, <5>1, <5>2, <5>3, KeptQuiet
      <4> QED BY <1>3, <4>7, <4>8, <4>9, <4>10
    <3> QED BY <3>3, <3>4
  <2> QED BY <2>3, <2>4
<1>7. CASE SnPublishReject
  <2>1. Take("client", "PUBLISH") /\ UNCHANGED <<toBroker, pubMap>>
    BY <1>7 DEF SnPublishReject, maps
  <2>2. CASE Msg.mid = 0
    BY <1>7, <1>none, <2>1, <2>2 DEF SnPublishReject
  <2>3. CASE Msg.mid # 0
    <3>1. PICK m : Reply(m) /\ m.type = "PUBACK" /\ m.mid = Msg.mid
      BY <1>7, <2>3 DEF SnPublishReject
    <3>2. Answers({}, {m})
      BY <1>0, <2>1, <3>1, AnswersDown
    <3>3. /\ gwQue # << >> /\ gwQue' = Tail(gwQue) /\ 1 \in DOMAIN gwQue
          /\ gwQue[1].from = "client" /\ gwQue[1].msg.type = "PUBLISH" /\ gwQue[1].msg = Msg
      BY <1>0, <2>1, TookFirst
    <3>4. Opened' => DOMAIN pubMap' = {}
      BY <1>5, <2>1, <3>1, <3>2
    <3>5. ASSUME NEW u \in unacked, u.mid = m.mid PROVE Kept(u)'
      <4> DEFINE k == u.mid
      <4>1. PublishUp(gwQue[1], k) /\ Carries(gwQue[1], k)
        BY <3>1, <3>3, <3>5 DEF PublishUp, Carries
      <4>2. k \notin DOMAIN pubMap'
        BY <1>2, <2>1, <3>3, <4>1 DEF Kept, Entry
      <4>3. /\ OnePlace(k)' /\ \A i \in DOMAIN gwQue' : ~Carries(gwQue'[i], k)
            /\ \A i \in DOMAIN toBroker' : ~PublishOut(toBroker'[i], k)
        <5>1. OnePlace(k)
          BY <1>2 DEF Kept
        <5> HIDE DEF k
        <5> QED BY <1>0, <2>1, <3>1, <3>3, <4>1, <5>1, KeptMoved
      <4> QED BY <4>2, <4>3 DEF Kept, Entry, Carries
    <3>6. ASSUME NEW u \in unacked, u.mid # m.mid PROVE Kept(u)'
      <4>1. \A x \in {m} : ~PubackDown(x, u.mid)
        BY <3>6 DEF PubackDown
      <4>2. Kept(u)
        BY <1>2
      <4> QED BY <1>0, <1>4, <2>1, <3>2, <4>1, <4>2, KeptQuiet
    <3> QED BY <1>3, <2>1, <3>4, <3>5, <3>6 DEF KeptInv
  <2> QED BY <2>2, <2>3
<1>8. CASE Puback
  <2>1. Take("broker", "PUBACK") /\ UNCHANGED toBroker /\ pubMap' = Erased(pubMap, Msg.mid)
    BY <1>8 DEF Puback
  <2>2. UNCHANGED toClient \/ \E m : Reply(m) /\ m.type = "PUBACK" /\ m.mid = Msg.mid
    BY <1>8 DEF Puback
  <2>3. PICK D : Answers({}, D) /\ \A m \in D : m.type = "PUBACK" /\ m.mid = Msg.mid
    <3>1. CASE UNCHANGED toClient
      <4>1. Answers({}, {})
        BY <1>0, <2>1, <3>1, AnswersNone
      <4> QED BY <4>1
    <3>2. ASSUME NEW m, Reply(m), m.type = "PUBACK", m.mid = Msg.mid
          PROVE  \E D : Answers({}, D) /\ \A x \in D : x.type = "PUBACK" /\ x.mid = Msg.mid
      <4>1. Answers({}, {m})
        BY <1>0, <2>1, <3>2, AnswersDown
      <4> QED BY <3>2, <4>1
    <3> QED BY <2>2, <3>1, <3>2
  <2>4. /\ gwQue # << >> /\ gwQue' = Tail(gwQue) /\ 1 \in DOMAIN gwQue
        /\ gwQue[1].from = "broker" /\ gwQue[1].msg.type = "PUBACK" /\ gwQue[1].msg = Msg
    BY <1>0, <2>1, TookFirst
  <2>5. DOMAIN pubMap' = DOMAIN pubMap \ {Msg.mid} /\ \A j \in DOMAIN pubMap' : pubMap'[j] = pubMap[j]
    BY <2>1 DEF Erased, Restrict
  <2>6. Opened' => DOMAIN pubMap' = {}
    BY <1>5, <2>3, <2>5
  <2>7. linked # "connecting" => DOMAIN pubMap' \subseteq Mids
    BY <2>5 DEF KeptInv
  <2>8. ASSUME NEW u \in unacked, u.mid = Msg.mid PROVE Kept(u)'
    <3> DEFINE k == u.mid
    <3>1. Carries(gwQue[1], k)
      BY <2>4, <2>8 DEF PubackUp, Carries
    <3>2. k \notin DOMAIN pubMap'
      BY <2>5, <2>8
    <3>3. /\ OnePlace(k)' /\ \A i \in DOMAIN gwQue' : ~Carries(gwQue'[i], k)
          /\ \A i \in DOMAIN toBroker' : ~PublishOut(toBroker'[i], k)
      <4>1. OnePlace(k)
        BY <1>2 DEF Kept
      <4> HIDE DEF k
      <4> QED BY <1>0, <2>1, <2>2, <2>4, <3>1, <4>1, KeptMoved
    <3> QED BY <3>2, <3>3 DEF Kept, Entry, Carries
  <2>9. ASSUME NEW u \in unacked, u.mid # Msg.mid PROVE Kept(u)'
    <3>1. \A x \in D : ~PubackDown(x, u.mid)
      BY <2>3, <2>9 DEF PubackDown
    <3>2. Kept(u)
      BY <1>2
    <3>3. /\ u.mid \in DOMAIN pubMap' <=> u.mid \in DOMAIN pubMap
          /\ u.mid \in DOMAIN pubMap => pubMap'[u.mid] = pubMap[u.mid]
      BY <2>5, <2>9
    <3> QED BY <1>0, <1>4, <2>3, <3>1, <3>2, <3>3, KeptQuiet
  <2> QED BY <1>3, <2>6, <2>7, <2>8, <2>9
<1>9. CASE SnConnect
  <2>1. Take("client", "CONNECT") /\ UNCHANGED toClient
    BY <1>9 DEF SnConnect
  <2>2. 1 \in DOMAIN gwQue /\ IsConnect(gwQue[1]) /\ AtGateway(1) /\ ~IsConnack(gwQue[1])
    BY <1>0, <2>1, TookFirst DEF IsConnect, IsConnack, AtGateway
  <2>3. linked' = "connecting" /\ unacked' = {}
    BY <1>2, <2>2 DEF OneConnect
  <2>4. Opened' => DOMAIN pubMap' = {}
    <3>1. CASE status # "TryConnecting"
      BY <1>9, <3>1 DEF SnConnect, Empty
    <3>2. CASE status = "TryConnecting"
      <4>1. UNCHANGED <<toBroker, toClient>>
        BY <1>9, <3>2 DEF SnConnect
      <4>2. ~Opened
        BY <2>2 DEF Opened, OneConnect, AtGateway
      <4>3. ~Opened'
        <5>1. Answers({}, {})
          BY <1>0, <4>1, AnswersNone
        <5> QED BY <1>0, <4>2, <5>1, OpenedBefore
      <4> QED BY <4>3
    <3> QED BY <3>1, <3>2
  <2> QED BY <1>1, <2>3, <2>4, KeptWaits
<1>10. CASE Connack
  <2>1. Take("broker", "CONNACK") /\ UNCHANGED pubMap
    BY <1>10 DEF Connack, maps
  <2>2. 1 \in DOMAIN gwQue /\ IsConnack(gwQue[1]) /\ AtGateway(1)
    BY <1>0, <2>1, TookFirst DEF IsConnack, AtGateway
  <2>3. linked' = "connecting" /\ unacked' = {}
    BY <1>2, <2>2 DEF OneConnect
  <2>4. DOMAIN pubMap = {}
    BY <2>2 DEF KeptInv, Opened
  <2> QED BY <1>1, <2>1, <2>3, <2>4, KeptWaits
<1>11. CASE SnSubscribe \/ SnUnsubscribe
  <2>1. UNCHANGED <<toClient, pubMap>> /\ \E m : Forward(m) /\ m.type \in {"SUBSCRIBE", "UNSUBSCRIBE"}
    BY <1>11 DEF SnSubscribe, SnUnsubscribe, maps
  <2> QED BY <1>up, <2>1
<1>12. CASE SnSubscribeHere
  <2>1. UNCHANGED <<toBroker, pubMap>>
    BY <1>12 DEF SnSubscribeHere, maps
  <2>2. PICK D : D = {Suback4(Msg.id = Predefined), Suback4(FALSE), TimeMsg}
    OBVIOUS
  <2>3. Answers({}, D)
    BY <1>0, <1>12, <2>2, AnswersHere
  <2>4. \A m \in D : m.type \notin {"CONNACK", "PUBACK"}
    BY <2>2 DEF Suback4, TimeMsg
  <2> QED BY <1>a, <2>1, <2>3, <2>4
<1>13. CASE SnUnsubscribeHere \/ SnRegister
  <2>1. UNCHANGED <<toBroker, pubMap>> /\ \E m : Reply(m) /\ m.type \in {"UNSUBACK", "REGACK"}
    BY <1>13 DEF SnUnsubscribeHere, SnRegister, maps
  <2> QED BY <1>down, <2>1
<1>14. CASE SnDisconnect
  <2>1. PICK m, n : Forward(m) /\ Reply(n) /\ m.type = "DISCONNECT" /\ n.type = "DISCONNECT"
    BY <1>14 DEF SnDisconnect
  <2>2. Answers({m}, {n}) /\ UNCHANGED pubMap
    BY <1>0, <1>14, <2>1, AnswersBoth DEF SnDisconnect, maps
  <2> QED BY <1>a, <2>1, <2>2
<1>15. ASSUME NEW t \in {"PUBACK", "PUBREC", "PUBREL", "PUBCOMP", "PINGREQ"}, SnPass(t) PROVE KeptInv'
  <2>1. UNCHANGED <<toClient, pubMap>> /\ \E m : Forward(m) /\ m.type = t
    BY <1>15 DEF SnPass, maps
  <2> QED BY <1>up, <2>1
<1>16. CASE Suback
  <2>1. /\ UNCHANGED <<toBroker, pubMap>>
        /\ UNCHANGED toClient \/ \E m : Reply(m) /\ m.type = "SUBACK"
    BY <1>16 DEF Suback
  <2> QED BY <1>none, <1>down, <2>1
<1>17. ASSUME NEW t \in {"PUBREC", "PUBREL", "PUBCOMP", "UNSUBACK", "PINGRESP"}, Pass(t) PROVE KeptInv'
  <2>1. UNCHANGED <<toBroker, pubMap>> /\ \E m : Reply(m) /\ m.type = t
    BY <1>17 DEF Pass, maps
  <2> QED BY <1>down, <2>1
<1>18. CASE PublishTopic \/ RegisterAsleep \/ PublishAsleep
  <2>1. UNCHANGED <<toBroker, toClient, pubMap>>
    BY <1>18 DEF PublishTopic, RegisterAsleep, PublishAsleep, maps
  <2> QED BY <1>none, <2>1
<1>19. CASE RegisterActive \/ PublishActive
  <2>1. /\ UNCHANGED <<toBroker, pubMap>>
        /\ UNCHANGED toClient \/ \E m : Reply(m) /\ m.type \in {"REGISTER", "PUBLISH"}
    BY <1>19 DEF RegisterActive, PublishActive, RegisterMsg, PublishMsg, maps
  <2> QED BY <1>none, <1>down, <2>1
<1>20. CASE Flush
  <2>1. Reply(Head(sleepQue)) /\ UNCHANGED <<toBroker, pubMap>> /\ sleepQue # << >>
    BY <1>20 DEF Flush, Typed, IdsTyped, maps
  <2>2. Head(sleepQue).type \in {"REGISTER", "PUBLISH"}
    BY <1>0, <2>1, Tailed DEF Queues, Typed, TypeOK
  <2> QED BY <1>down, <2>1, <2>2
<1> QED
  BY <1>6, <1>7, <1>8, <1>9, <1>10, <1>11, <1>12, <1>13, <1>14, <1>15, <1>16, <1>17,
     <1>18, <1>19, <1>20
  DEF GatewayControlTask

(* A step of the client or the broker that moves nothing with the id. *)
LEMMA KeptElse ==
    ASSUME Queues, NEW u, Kept(u), UNCHANGED pubMap,
           gwQue' = gwQue \/ \E e : gwQue' = Append(gwQue, e) /\ ~Carries(e, u.mid),
           toBroker' = toBroker \/ (toBroker # << >> /\ toBroker' = Tail(toBroker)),
           toClient' = toClient \/ (toClient # << >> /\ toClient' = Tail(toClient))
    PROVE  Kept(u)'
<1> DEFINE k == u.mid
<1> HIDE DEF k
<1>1. \A i \in DOMAIN gwQue' : Carries(gwQue'[i], k) => i \in DOMAIN gwQue /\ gwQue'[i] = gwQue[i]
  <2>1. CASE gwQue' = gwQue
    BY <2>1
  <2>2. ASSUME NEW e, gwQue' = Append(gwQue, e), ~Carries(e, k) PROVE <1>1!:
    BY <2>2, GrownGateway
  <2> QED BY <2>1, <2>2 DEF k
<1>2. PICK b \in {0, 1} : \A i \in DOMAIN toBroker' : i \in Nat /\ i + b \in DOMAIN toBroker /\ toBroker'[i] = toBroker[i + b]
  <2>1. CASE toBroker' = toBroker
    <3>1. \A i \in DOMAIN toBroker : i \in Nat /\ i + 0 = i
      BY DEF Queues
    <3> QED BY <2>1, <3>1
  <2>2. CASE toBroker # << >> /\ toBroker' = Tail(toBroker)
    BY <2>2, ShrunkBroker
  <2> QED BY <2>1, <2>2
<1>3. PICK c \in {0, 1} : \A i \in DOMAIN toClient' : i \in Nat /\ i + c \in DOMAIN toClient /\ toClient'[i] = toClient[i + c]
  <2>1. CASE toClient' = toClient
    <3>1. \A i \in DOMAIN toClient : i \in Nat /\ i + 0 = i
      BY DEF Queues
    <3> QED BY <2>1, <3>1
  <2>2. CASE toClient # << >> /\ toClient' = Tail(toClient)
    BY <2>2, ShrunkClient
  <2> QED BY <2>1, <2>2
<1>4. OnePlace(k)'
  <2>1. OnePlace(k)
    BY DEF Kept, k
  <2> QED BY <1>1, <1>2, <1>3, <2>1 DEF OnePlace
<1>5. Entry(u)'
  BY <1>1, <1>2, <1>3 DEF Kept, Entry, Entered, Carries, k
<1> QED BY <1>4, <1>5 DEF Kept, k

(* The client says something that is no PUBLISH. *)
LEMMA KeptSays ==
    ASSUME Typed, OneConnect, KeptInv, NoSecond', NEW m, ClientSends(m), Unchanged4Client,
           linked # "connecting", linked' # "connecting", unacked' = unacked,
           m.type \notin {"PUBLISH", "CONNECT"}
    PROVE  KeptInv'
<1>0. Queues
  BY DEF Typed
<1>1. PICK e : e = [from |-> "client", msg |-> m]
  OBVIOUS
<1>2. gwQue' = Append(gwQue, e) /\ UNCHANGED <<toBroker, toClient, pubMap>>
  BY <1>1 DEF ClientSends, Unchanged4Client, maps
<1>3. \A k : ~Carries(e, k)
  BY <1>1 DEF Carries, PublishUp, PubackUp
<1>4. ASSUME NEW u \in unacked PROVE Kept(u)'
  <2>1. Kept(u)
    BY DEF KeptInv
  <2> QED BY <1>0, <1>2, <1>3, <2>1, KeptElse
<1>5. \A i \in DOMAIN gwQue' : Numbered1(gwQue'[i]) => gwQue'[i].msg \in unacked
  <2>1. ~Numbered1(e)
    BY <1>1 DEF Numbered1
  <2> QED BY <1>0, <1>2, <2>1, GrownGateway DEF KeptInv
<1>6. ~Opened'
  <2>1. ~IsConnack(e)
    BY <1>1 DEF IsConnack
  <2> QED BY <1>0, <1>2, <2>1, GrownGateway, DialogueOpen DEF Opened, AtGateway, AtBroker, AtClient
<1>7. Mids' = Mids
  BY DEF Mids
<1> QED BY <1>2, <1>4, <1>5, <1>6, <1>7 DEF KeptInv

LEMMA KeptPublish ==
    ASSUME Typed, OneConnect, MidsGiven, KeptInv, NoSecond',
           NEW q, NEW kind, NEW id, NEW n, ClientPublish(q, kind, id, n), q \in {0, 1}
    PROVE  KeptInv'
<1>0. Queues /\ linked = "yes" /\ linked' = "yes"
  BY DEF Typed, ClientPublish
<1>1. PICK m : /\ m = [type |-> "PUBLISH", kind |-> kind, id |-> id, qos |-> q,
                       mid |-> IF q = 0 THEN 0 ELSE Mid, meant |-> n]
               /\ ClientSends(m) /\ unacked' = IF q = 0 THEN unacked ELSE unacked \cup {m}
  BY DEF ClientPublish
<1>2. PICK e : e = [from |-> "client", msg |-> m]
  OBVIOUS
<1>3. gwQue' = Append(gwQue, e) /\ UNCHANGED <<toBroker, toClient, pubMap>>
  BY <1>1, <1>2 DEF ClientSends, ClientPublish, Unchanged4Client, maps
<1>4. /\ sent \in Nat /\ \A u \in unacked : u.mid \in 1 .. sent /\ u.mid # 0 /\ u.mid # Mid
      /\ Mid # 0 /\ Mid \notin 1 .. sent
  BY DEF MidsGiven, Mid
<1>5. m.mid \in {0, Mid} /\ \A k : Carries(e, k) => k = m.mid
  BY <1>1, <1>2 DEF Carries, PublishUp, PubackUp
<1>6. ASSUME NEW u \in unacked PROVE Kept(u)'
  <2>1. Kept(u) /\ ~Carries(e, u.mid)
    BY <1>4, <1>5 DEF KeptInv
  <2> QED BY <1>0, <1>3, <2>1, KeptElse
<1>7. ~Opened'
  <2>1. ~IsConnack(e)
    BY <1>2 DEF IsConnack
  <2> QED BY <1>0, <1>3, <2>1, GrownGateway, DialogueOpen DEF Opened, AtGateway, AtBroker, AtClient
<1>8. CASE q = 0
  <2>1. unacked' = unacked /\ Mids' = Mids /\ ~Numbered1(e)
    BY <1>1, <1>2, <1>8 DEF Mids, Numbered1
  <2>2. \A i \in DOMAIN gwQue' : Numbered1(gwQue'[i]) => gwQue'[i].msg \in unacked
    BY <1>0, <1>3, <2>1, GrownGateway DEF KeptInv
  <2> QED BY <1>0, <1>3, <1>6, <1>7, <2>1, <2>2 DEF KeptInv
<1>9. CASE q = 1
  <2>1. unacked' = unacked \cup {m} /\ m.mid = Mid /\ Mids \subseteq Mids'
    BY <1>1, <1>9 DEF Mids
  <2>2. \A i \in DOMAIN gwQue' : Numbered1(gwQue'[i]) => gwQue'[i].msg \in unacked'
    BY <1>0, <1>2, <1>3, <2>1, GrownGateway DEF KeptInv
  <2>3. /\ IsFiniteSet(unacked') /\ Cardinality(unacked') <= MaxInflight
    <3>1. IsFiniteSet(unacked) /\ Cardinality(unacked) < MaxInflight /\ m \notin unacked
      BY <1>4, <1>9, <2>1 DEF KeptInv, ClientPublish
    <3>2. IsFiniteSet(unacked \cup {m}) /\ Cardinality(unacked \cup {m}) = Cardinality(unacked) + 1
          /\ Cardinality(unacked) \in Nat
      BY <3>1, FS_AddElement, FS_CardinalityType
    <3> QED BY <2>1, <3>1, <3>2, BoundsNat
  <2>4. \A u, v \in unacked' : u.mid = v.mid => u = v
    BY <1>4, <2>1 DEF KeptInv
  <2>5. Kept(m)'
    <3>1. \A i \in DOMAIN gwQue : ~Carries(gwQue[i], Mid)
      BY <1>4 DEF MidsGiven, Numbers, Carries, PublishUp, PubackUp, Range
    <3>2. \A i \in DOMAIN toBroker : ~PublishOut(toBroker[i], Mid)
      BY <1>4 DEF MidsGiven, NumbersUp, PublishOut, Range
    <3>3. \A i \in DOMAIN toClient : ~PubackDown(toClient[i], Mid)
      BY <1>4 DEF MidsGiven, NumbersDown, PubackDown, Range
    <3>4. PICK k : k = Mid
      OBVIOUS
    <3>5. \A i \in DOMAIN gwQue' : Carries(gwQue'[i], k) => i = Len(gwQue) + 1
      BY <1>0, <1>3, <3>1, <3>4, GrownGateway
    <3>6. OnePlace(k)'
      BY <1>3, <3>2, <3>3, <3>4, <3>5 DEF OnePlace
    <3>7. k \notin DOMAIN pubMap' /\ \A i \in DOMAIN gwQue' : ~PubackUp(gwQue'[i], k)
      <4>1. ~PubackUp(e, k)
        BY <1>2 DEF PubackUp
      <4> QED BY <1>0, <1>3, <1>4, <3>1, <3>4, <4>1, GrownGateway DEF Carries, MidsGiven
    <3>8. \A i \in DOMAIN toBroker' : ~PublishOut(toBroker'[i], k)
      BY <1>3, <3>2, <3>4
    <3> QED BY <2>1, <3>4, <3>6, <3>7, <3>8 DEF Kept, Entry
  <2> QED BY <1>0, <1>3, <1>6, <1>7, <2>1, <2>2, <2>3, <2>4, <2>5 DEF KeptInv
<1> QED BY <1>8, <1>9

LEMMA KeptClient ==
    ASSUME Typed, OneConnect, MidsGiven, KeptInv, Client, Modest'
    PROVE  KeptInv'
<1>0. Queues /\ NoSecond'
  BY SecondClient DEF Typed, KeptInv
<1>1. ASSUME NEW b, ClientConnect(b) PROVE KeptInv'
  <2>1. linked # "connecting" /\ linked' = "connecting" /\ unacked' = {}
    BY <1>1 DEF ClientConnect, Modest
  <2>2. PICK e : ~IsConnack(e) /\ gwQue' = Append(gwQue, e) /\ UNCHANGED <<toBroker, toClient>>
    BY <1>1 DEF ClientConnect, ClientSends, Unchanged4Client, IsConnack
  <2>3. ~Opened'
    BY <1>0, <2>1, <2>2, GrownGateway, DialogueOpen DEF Opened, AtGateway, AtBroker, AtClient
  <2> QED BY <1>0, <2>1, <2>3, KeptWaits
<1>2. ASSUME NEW b, ClientDisconnect(b) PROVE KeptInv'
  BY <1>0, <1>2, KeptSays DEF ClientDisconnect
<1>3. ASSUME NEW m, ClientAsks(m), m.type \notin {"PUBLISH", "CONNECT"} PROVE KeptInv'
  BY <1>0, <1>3, KeptSays DEF ClientAsks
<1>4. ASSUME NEW n, ClientRegister(n) PROVE KeptInv'
  BY <1>3, <1>4 DEF ClientRegister
<1>5. ASSUME NEW kind, NEW n, NEW id, ClientSubscribe(kind, n, id) PROVE KeptInv'
  BY <1>3, <1>5 DEF ClientSubscribe
<1>6. ASSUME NEW kind, NEW n, ClientUnsubscribe(kind, n) PROVE KeptInv'
  BY <1>3, <1>6 DEF ClientUnsubscribe
<1>7. ASSUME NEW q \in 0..2, NEW kind, NEW id, NEW n, ClientPublish(q, kind, id, n) PROVE KeptInv'
  <2>1. q \in {0, 1}
    BY <1>7 DEF ClientPublish, Modest
  <2> QED BY <1>0, <1>7, <2>1, KeptPublish
<1>8. ~ClientRepeat
  BY DEF ClientRepeat, Modest
<1>9. ASSUME ClientPing PROVE KeptInv'
  BY <1>0, <1>9, KeptSays DEF ClientPing
<1>10. \A q \in {0, 1} : q \in 0..2
  OBVIOUS
<1> QED BY <1>1, <1>2, <1>4, <1>5, <1>6, <1>7, <1>8, <1>9, <1>10 DEF Client

LEMMA KeptTakes ==
    ASSUME Typed, OneConnect, Heralded, MidsGiven, KeptInv, ClientTakes
    PROVE  KeptInv'
<1>0. Queues /\ NoSecond'
  BY SecondTakes DEF Typed, KeptInv
<1>1. /\ toClient # << >> /\ toClient' = Tail(toClient) /\ UNCHANGED <<toBroker, pubMap>>
      /\ linked' = IF Head(toClient).type = "CONNACK" /\ linked = "connecting" THEN "yes" ELSE linked
      /\ unacked' = unacked \ Acknowledges(Head(toClient))
  BY DEF ClientTakes, maps
<1>2. /\ \A i \in DOMAIN toClient' : /\ i \in Nat /\ i + 1 \in DOMAIN toClient /\ i + 1 # 1
                                     /\ toClient'[i] = toClient[i + 1]
      /\ 1 \in DOMAIN toClient /\ toClient[1] = Head(toClient)
  BY <1>0, <1>1, ShrunkClient
<1>3. UNCHANGED gwQue \/ (linked = "yes" /\ \E e : /\ gwQue' = Append(gwQue, e) /\ ~IsConnack(e)
                                                   /\ ~Numbered1(e) /\ \A k : ~Carries(e, k))
  <2>1. UNCHANGED gwQue \/ (linked = "yes" /\ \E t \in {"PUBREL", "PUBACK", "PUBREC"} :
                gwQue' = Append(gwQue, [from |-> "client", msg |-> [type |-> t, mid |-> Head(toClient).mid]]))
    BY DEF ClientTakes, ClientAnswers
  <2> QED BY <2>1 DEF IsConnack, Numbered1, Carries, PublishUp, PubackUp
<1>4. CASE linked = "connecting" /\ ~AtClient(1)
  <2>1. linked' = "connecting" /\ unacked' = {} /\ UNCHANGED gwQue
    BY <1>1, <1>2, <1>3, <1>4 DEF AtClient, MidsGiven
  <2>2. Opened' => Opened
    BY <1>1, <1>2, <2>1 DEF Opened, AtBroker, AtClient
  <2> QED BY <1>0, <1>1, <2>1, <2>2, KeptWaits DEF KeptInv
<1>5. CASE AtClient(1)
  <2>1. linked = "connecting" /\ linked' = "yes" /\ unacked' = {} /\ unacked = {} /\ UNCHANGED gwQue
    BY <1>1, <1>2, <1>3, <1>5 DEF AtClient, OneConnect, MidsGiven
  <2>2. DOMAIN pubMap' = {}
    BY <1>1, <1>2, <1>5 DEF KeptInv, Opened
  <2>3. \A i \in DOMAIN gwQue : ~OfSession(gwQue[i])
    BY <1>2, <1>5, <2>1 DEF Heralded, OneConnect, AtGateway
  <2>4. \A i \in DOMAIN gwQue' : ~Numbered1(gwQue'[i])
    BY <2>1, <2>3 DEF Numbered1, OfSession
  <2> QED BY <1>0, <2>1, <2>2, <2>4 DEF KeptInv
<1>6. CASE linked # "connecting" /\ ~AtClient(1)
  <2>1. linked' # "connecting" /\ unacked' \subseteq unacked
    BY <1>1, <1>6
  <2>2. IsFiniteSet(unacked') /\ Cardinality(unacked') <= MaxInflight
    <3>1. IsFiniteSet(unacked) /\ Cardinality(unacked) <= MaxInflight
      BY DEF KeptInv
    <3>2. /\ IsFiniteSet(unacked') /\ Cardinality(unacked') <= Cardinality(unacked)
          /\ Cardinality(unacked') \in Nat /\ Cardinality(unacked) \in Nat
      BY <2>1, <3>1, FS_Subset, FS_CardinalityType
    <3> QED BY <3>1, <3>2, BoundsNat
  <2>3. \A u \in unacked' : Kept(u)'
    <3> SUFFICES ASSUME NEW u \in unacked' PROVE Kept(u)'
      OBVIOUS
    <3>1. Kept(u)
      BY <2>1 DEF KeptInv
    <3> QED BY <1>0, <1>1, <1>3, <3>1, KeptElse
  <2>4. ASSUME NEW u \in unacked, u \notin unacked'
        PROVE  PubackDown(toClient[1], u.mid)
    <3>1. Head(toClient).type # "PUBCOMP"
      BY <1>2 DEF KeptInv, NoSecond, SecondDown, Range
    <3> QED BY <1>1, <1>2, <2>4, <3>1 DEF Acknowledges, PubackDown
  <2>5. DOMAIN pubMap' \subseteq Mids'
    <3> SUFFICES ASSUME NEW k \in DOMAIN pubMap PROVE k \in Mids'
      BY <1>1
    <3>1. PICK u \in unacked : u.mid = k
      BY <1>6 DEF KeptInv, Mids
    <3>2. u \in unacked'
      BY <1>2, <2>4, <3>1 DEF KeptInv, Kept, Entry
    <3> QED BY <3>1, <3>2 DEF Mids
  <2>6. \A i \in DOMAIN gwQue' : Numbered1(gwQue'[i]) => gwQue'[i].msg \in unacked'
    <3>1. ASSUME NEW i \in DOMAIN gwQue, Numbered1(gwQue[i]) PROVE gwQue[i].msg \in unacked'
      <4>1. PICK u \in unacked : u = gwQue[i].msg
        BY <1>6, <3>1 DEF KeptInv
      <4>2. Carries(gwQue[i], u.mid)
        BY <3>1, <4>1 DEF Numbered1, Carries, PublishUp
      <4>3. ~PubackDown(toClient[1], u.mid)
        BY <1>2, <4>2 DEF KeptInv, Kept, OnePlace
      <4> QED BY <2>4, <4>1, <4>3
    <3>2. \A i \in DOMAIN gwQue' : Numbered1(gwQue'[i]) => i \in DOMAIN gwQue /\ gwQue'[i] = gwQue[i]
      BY <1>0, <1>3, GrownGateway
    <3> QED BY <3>1, <3>2
  <2>7. ~Opened'
    <3>1. ~Opened
      BY <1>0, <1>6, DialogueOpen DEF Opened, AtGateway
    <3>2. \A i \in DOMAIN gwQue' : ~IsConnack(gwQue'[i])
      BY <1>0, <1>3, <3>1, GrownGateway DEF Opened
    <3> QED BY <1>1, <1>2, <3>1, <3>2 DEF Opened, AtBroker, AtClient
  <2> QED BY <1>0, <2>1, <2>2, <2>3, <2>5, <2>6, <2>7 DEF KeptInv
<1> QED BY <1>4, <1>5, <1>6

LEMMA KeptBroker ==
    ASSUME Typed, OneConnect, MidsGiven, KeptInv, Broker
    PROVE  KeptInv'
<1>0. Queues /\ NoSecond' /\ UNCHANGED <<pubMap, toClient, linked, unacked>>
  BY SecondBroker DEF Typed, KeptInv, Broker, BrokerTakes, BrokerPublish, maps, client
<1>1. ASSUME NEW e, gwQue' = Append(gwQue, e), e.from = "broker", \A u \in unacked : Kept(u)',
             toBroker' = toBroker \/ (toBroker # << >> /\ toBroker' = Tail(toBroker)),
             IsConnack(e) => Opened
      PROVE  KeptInv'
  <2>1. Opened' => Opened
    <3>1. \A i \in DOMAIN toBroker' : AtBroker(i)' => \E j \in DOMAIN toBroker : AtBroker(j)
      BY <1>0, <1>1, ShrunkBroker DEF AtBroker
    <3>2. \A i \in DOMAIN gwQue' : IsConnack(gwQue'[i]) => Opened
      BY <1>0, <1>1, GrownGateway DEF Opened
    <3> QED BY <1>0, <3>1, <3>2 DEF Opened, AtClient
  <2>2. \A i \in DOMAIN gwQue' : Numbered1(gwQue'[i]) => i \in DOMAIN gwQue /\ gwQue'[i] = gwQue[i]
    <3>1. ~Numbered1(e)
      BY <1>1 DEF Numbered1
    <3> QED BY <1>0, <1>1, <3>1, GrownGateway
  <2>3. Mids' = Mids
    BY <1>0 DEF Mids
  <2> QED BY <1>0, <1>1, <2>1, <2>2, <2>3 DEF KeptInv
<1>2. ASSUME NEW n \in Names, BrokerPublish(n) PROVE KeptInv'
  <2>1. PICK e : /\ gwQue' = Append(gwQue, e) /\ e.from = "broker" /\ e.msg.type = "PUBLISH"
                 /\ UNCHANGED toBroker
    BY <1>2 DEF BrokerPublish, BrokerPosts
  <2>2. ~IsConnack(e) /\ \A k : ~Carries(e, k)
    BY <2>1 DEF IsConnack, Carries, PublishUp, PubackUp
  <2>3. ASSUME NEW u \in unacked PROVE Kept(u)'
    <3>1. Kept(u)
      BY DEF KeptInv
    <3> QED BY <1>0, <2>1, <2>2, <3>1, KeptElse
  <2> QED BY <1>1, <2>1, <2>2, <2>3
<1>3. ASSUME NEW ok \in BOOLEAN, BrokerTakes(ok) PROVE KeptInv'
  <2>1. toBroker # << >> /\ toBroker' = Tail(toBroker)
    BY <1>3 DEF BrokerTakes
  <2>2. /\ \A i \in DOMAIN toBroker' : /\ i \in Nat /\ i + 1 \in DOMAIN toBroker /\ i + 1 # 1
                                       /\ toBroker'[i] = toBroker[i + 1]
        /\ 1 \in DOMAIN toBroker /\ toBroker[1] = Head(toBroker)
    BY <1>0, <2>1, ShrunkBroker
  <2>3. CASE UNCHANGED gwQue
    <3>1. ASSUME NEW u \in unacked PROVE Kept(u)'
      <4>1. Kept(u)
        BY DEF KeptInv
      <4> QED BY <1>0, <2>1, <2>3, <4>1, KeptElse
    <3>2. Opened' => Opened
      BY <1>0, <2>2, <2>3 DEF Opened, AtBroker, AtClient
    <3>3. Mids' = Mids
      BY <1>0 DEF Mids
    <3> QED BY <1>0, <2>3, <3>1, <3>2, <3>3 DEF KeptInv
  <2>4. CASE ~UNCHANGED gwQue
    <3>1. PICK m \in BrokerReply(Head(toBroker), ok) : BrokerPosts(m)
      BY <1>3, <2>4 DEF BrokerTakes
    <3>2. PICK e : e = [from |-> "broker", msg |-> m]
      OBVIOUS
    <3>3. gwQue' = Append(gwQue, e) /\ e.from = "broker"
      BY <3>1, <3>2 DEF BrokerPosts
    <3>4. IsConnack(e) => Opened
      <4>1. m.type = "CONNACK" => Head(toBroker).type = "CONNECT"
        BY <3>1 DEF BrokerReply
      <4> QED BY <2>2, <3>2, <4>1 DEF IsConnack, Opened, AtBroker
    <3>5. ASSUME NEW u \in unacked PROVE Kept(u)'
      <4>1. Kept(u)
        BY DEF KeptInv
      <4>2. CASE ~Carries(e, u.mid)
        BY <1>0, <2>1, <3>3, <4>1, <4>2, KeptElse
      <4>3. CASE Carries(e, u.mid)
        <5> DEFINE k == u.mid
        <5>1. PublishOut(toBroker[1], k) /\ PubackUp(e, k) /\ ~PublishUp(e, k)
          <6>1. m.type = "PUBACK" /\ m.mid = k
            BY <3>2, <4>3 DEF Carries, PublishUp, PubackUp
          <6>2. Head(toBroker).type = "PUBLISH" /\ Head(toBroker).mid = m.mid
            BY <3>1, <6>1 DEF BrokerReply
          <6> QED BY <2>2, <3>2, <6>1, <6>2 DEF PublishOut, PubackUp, PublishUp
        <5>2. Entered(k, u.id)' /\ OnePlace(k)
          BY <1>0, <2>2, <4>1, <5>1 DEF Kept, Entry, Entered
        <5> HIDE DEF k
        <5>3. \A i \in DOMAIN gwQue' : Carries(gwQue'[i], k) => i = Len(gwQue) + 1 /\ gwQue'[i] = e
          BY <1>0, <2>2, <3>3, <5>1, <5>2, GrownGateway DEF OnePlace
        <5>4. /\ \A i \in DOMAIN toBroker' : ~PublishOut(toBroker'[i], k)
              /\ \A i \in DOMAIN toClient' : ~PubackDown(toClient'[i], k)
          BY <1>0, <2>2, <5>1, <5>2 DEF OnePlace
        <5>5. OnePlace(k)'
          BY <5>3, <5>4 DEF OnePlace
        <5>6. \A i \in DOMAIN gwQue' : ~PublishUp(gwQue'[i], k)
          BY <5>1, <5>3 DEF Carries
        <5> QED BY <5>2, <5>4, <5>5, <5>6 DEF Kept, Entry, k, Entered
      <4> QED BY <4>2, <4>3
    <3> QED BY <1>1, <2>1, <3>3, <3>4, <3>5
  <2> QED BY <2>3, <2>4
<1> QED BY <1>2, <1>3 DEF Broker

LEMMA KeptInit == Init => KeptIds
<1> SUFFICES ASSUME Init PROVE KeptInv
  BY DEF KeptIds
<1>1. /\ Range(<< >>) = {} /\ DOMAIN Empty = {} /\ DOMAIN << >> = {}
      /\ IsFiniteSet({}) /\ Cardinality({}) <= MaxInflight
  BY FS_EmptySet, BoundsNat DEF Range, Empty
<1> QED BY <1>1 DEF Init, KeptInv, NoSecond

LEMMA KeptStep ==
    ASSUME RelayInv, KeptIds, [Next]_vars
    PROVE  KeptIds'
<1>1. Modest' => Modest
  BY DEF Modest, Next, GatewayControlTask, SnPublishForward, SnPublishReject, SnSubscribe,
     SnSubscribeHere, SnUnsubscribe, SnUnsubscribeHere, SnConnect, SnDisconnect, SnRegister,
     SnPass, Puback, Suback, Connack, Flush, PublishTopic, RegisterAsleep, RegisterActive,
     PublishAsleep, PublishActive, Pass, Client, ClientConnect, ClientDisconnect, ClientRegister,
     ClientSubscribe, ClientUnsubscribe, ClientAsks, ClientPublish, ClientRepeat, ClientPing,
     ClientTakes, Broker, BrokerTakes, BrokerPublish, vars, client
<1> SUFFICES ASSUME Modest' PROVE KeptInv'
  BY DEF KeptIds
<1>2. Typed /\ OneConnect /\ Heralded /\ MidsGiven /\ KeptInv
  BY <1>1 DEF RelayInv, Dialogue, KeptIds, Modest, Faithful
<1>3. CASE UNCHANGED vars
  <2>1. UNCHANGED <<pubMap, gwQue, toBroker, toClient, linked, unacked>>
    BY <1>3 DEF vars, maps, client
  <2> QED BY <1>2, <2>1 DEF KeptInv, NoSecond, Kept, OnePlace, Entry, Entered, Mids, Opened, AtBroker, AtClient
<1> QED BY <1>2, <1>3, KeptTask, KeptClient, KeptTakes, KeptBroker DEF Next

(* The topic id that a PUBACK needs is there when the PUBACK of the broker *)
(* comes, for a client that publishes with QoS 1 only, repeats nothing and *)
(* keeps to the limit of the TopicIdMap.                                   *)
THEOREM IdKeptCorrect == Spec => []IdKept
<1>1. Init => KeptIds
  BY KeptInit
<1>2. RelayInv /\ KeptIds /\ [Next]_vars => KeptIds'
  BY KeptStep
<1>3. KeptIds => IdKept
  <2> SUFFICES ASSUME KeptInv, NEW u \in unacked, Awaited(u)
               PROVE  Waited(pubMap, u.mid) = u.id
    BY DEF KeptIds, Modest, IdKept
  <2>1. Entry(u)
    BY DEF KeptInv, Kept
  <2>2. Entered(u.mid, u.id)
    BY <2>1 DEF Awaited, Entry, PubackUp, PublishOut, Range
  <2> QED BY <2>2 DEF Entered, Waited
<1> QED BY <1>1, <1>2, <1>3, RelayInvariant, PTL DEF Spec

-----------------------------------------------------------------------------
(* A client whose sessions are all clean, and follow each other in order.  *)
Orderly == used \cap {"repeated", "abrupt", "kept"} = {}

(* What the first k - 1 messages under way will have told the client, or   *)
(* what it need not be told.                                               *)
Announces(m) == m.type \in {"REGISTER", "REGACK"}

Covered(id, k) ==
    \/ linked # "connecting" /\ \E t \in told : t[1] = id
    \/ \E j \in 1 .. (k - 1) : Valid(j) /\ Announces(toClient[j]) /\ toClient[j].id = id
    \/ id \in untold
    \/ \E n \in subscribed \cap DOMAIN topics : topics[n] = id

Known(id) == Covered(id, Len(toClient) + 1)

(* From when the CONNECT has been handled the Topics are those of the new  *)
(* session; a topic that the control task is about to register is not      *)
(* known yet, and saved messages are only sent in the loop.                *)
Reached == linked # "connecting" \/ Opened
Registering == at \in {"register", "register_active"}
Normally(m) == m.type = "PUBLISH" /\ m.kind = "NORMAL"

FirstSent == \A k \in DOMAIN toClient : Valid(k) /\ Normally(toClient[k]) => Covered(toClient[k].id, k)

FirstKnown ==
    Reached /\ sleepQue = << >> =>
        \A n \in DOMAIN topics : (Registering /\ n = cur.name) \/ Known(topics[n])

NoneSaved == status = "Active" => sleepQue = << >>
Answering == status = "Active" => linked = "yes" \/ \E i \in DOMAIN toClient : AtClient(i)

AskedFor ==
    /\ \A k \in DOMAIN toClient : Valid(k) /\ toClient[k].type = "REGACK" => toClient[k].mid \in DOMAIN asked
    /\ \A e \in Range(gwQue) : IsConnect(e) => e.msg.clean
    /\ linked # "connecting" =>
          \A e \in Range(gwQue) : e.from = "client" /\ e.msg.type = "REGISTER" => e.msg.mid \in DOMAIN asked

FirstInv == FirstSent /\ FirstKnown /\ NoneSaved /\ Answering /\ AskedFor
FirstIds == Orderly /\ at # "flushing" => FirstInv

(* The topic of the publication at hand. *)
CurNamed ==
    Registering \/ (at \in {"publish", "publish_active"} /\ ~cur.short) =>
        cur.name \in DOMAIN topics /\ topics[cur.name] = cur.id

(* Nothing that was known is forgotten. *)
Widens ==
    /\ UNCHANGED client /\ Grown(toClient, toClient')
    /\ untold \subseteq untold' /\ subscribed \subseteq subscribed'
    /\ \A n \in DOMAIN topics : n \in DOMAIN topics' /\ topics'[n] = topics[n]

LEMMA ValidGrows ==
    ASSUME Widens, NEW k \in 1 .. (Len(toClient) + 1)
    PROVE  Valid(k)' <=> Valid(k)
<1>1. /\ Len(toClient) \in Nat /\ DOMAIN toClient = 1 .. Len(toClient)
      /\ \A i \in 1 .. Len(toClient) : toClient'[i] = toClient[i]
  BY DEF Widens, Grown
<1>2. \A i \in 1 .. (k - 1) : AtClient(i)' <=> AtClient(i)
  BY <1>1 DEF AtClient
<1> QED BY <1>2 DEF Valid, Widens, client

LEMMA CoveredGrows ==
    ASSUME Widens, NEW id, NEW k \in 1 .. (Len(toClient) + 1), Covered(id, k), NEW l \in Nat, k <= l
    PROVE  Covered(id, l)'
<1>1. /\ Len(toClient) \in Nat /\ DOMAIN toClient = 1 .. Len(toClient)
      /\ \A i \in 1 .. Len(toClient) : toClient'[i] = toClient[i]
  BY DEF Widens, Grown
<1>2. CASE linked # "connecting" /\ \E t \in told : t[1] = id
  BY <1>2 DEF Widens, client, Covered
<1>3. ASSUME NEW j \in 1 .. (k - 1), Valid(j), Announces(toClient[j]), toClient[j].id = id
      PROVE  Covered(id, l)'
  <2>1. j \in 1 .. (l - 1) /\ j \in 1 .. (Len(toClient) + 1) /\ toClient'[j] = toClient[j]
    BY <1>1
  <2>2. Valid(j)'
    BY <1>3, <2>1, ValidGrows
  <2> QED BY <1>3, <2>1, <2>2 DEF Covered, Announces
<1>4. CASE id \in untold
  BY <1>4 DEF Widens, Covered
<1>5. CASE \E n \in subscribed \cap DOMAIN topics : topics[n] = id
  BY <1>5 DEF Widens, Covered
<1> QED BY <1>2, <1>3, <1>4, <1>5 DEF Covered

LEMMA KnownGrows ==
    ASSUME Widens, NEW id, Known(id)
    PROVE  Known(id)'
<1>1. PICK k, l : k = Len(toClient) + 1 /\ l = Len(toClient') + 1
  OBVIOUS
<1>2. k \in 1 .. (Len(toClient) + 1) /\ l \in Nat /\ k <= l /\ Covered(id, k)
  BY <1>1 DEF Widens, Grown, Known
<1>3. Covered(id, l)'
  BY <1>2, CoveredGrows
<1> QED BY <1>1, <1>3 DEF Known, Covered

(* A step of the control task, apart from the handlers of CONNECT and     *)
(* CONNACK.                                                                *)
LEMMA FirstAnswers ==
    ASSUME Queues, FirstInv, Widens, Range(gwQue') \subseteq Range(gwQue),
           NEW B, NEW D, Answers(B, D), \A m \in B : m.type # "CONNECT", \A m \in D : m.type # "CONNACK",
           status' = status, sleepQue' = sleepQue \/ (status = "Asleep" /\ sleepQue' # << >>),
           \A m \in D : Normally(m) => Known(m.id),
           \A m \in D : m.type = "REGACK" => m.mid \in DOMAIN asked \/ ~Valid(Len(toClient) + 1),
           \A n \in DOMAIN topics' : \A id :
               /\ n \notin DOMAIN topics \/ (Registering /\ n = cur.name)
               /\ id = topics'[n] /\ Reached /\ sleepQue' = << >>
               => Known(id)' \/ (Registering' /\ n = cur'.name)
    PROVE  FirstInv'
<1>1. /\ Len(toClient) \in Nat /\ DOMAIN toClient = 1 .. Len(toClient)
      /\ Len(toClient') \in Nat /\ DOMAIN toClient' = 1 .. Len(toClient')
      /\ Len(toClient) <= Len(toClient')
      /\ \A i \in 1 .. Len(toClient) : toClient'[i] = toClient[i]
  BY DEF Answers, Grown
<1>2. \A k \in DOMAIN toClient' : k \in DOMAIN toClient \/ (toClient'[k] \in D /\ k >= Len(toClient) + 1)
  BY <1>1, GrownOld DEF Answers
<1>3. FirstSent'
  <2> SUFFICES ASSUME NEW k \in DOMAIN toClient', Valid(k)', NEW m, m = toClient'[k], Normally(m), NEW id, id = m.id
               PROVE  Covered(id, k)'
    BY DEF FirstSent, Normally, Covered
  <2>1. CASE k \in DOMAIN toClient
    <3>1. k \in 1 .. (Len(toClient) + 1) /\ k \in Nat /\ k <= k /\ m = toClient[k]
      BY <1>1, <2>1
    <3>2. Valid(k)
      BY <3>1, ValidGrows
    <3>3. Covered(id, k)
      BY <2>1, <3>1, <3>2 DEF FirstInv, FirstSent
    <3> QED BY <3>1, <3>3, CoveredGrows
  <2>2. CASE k \notin DOMAIN toClient
    <3>1. m \in D /\ k >= Len(toClient) + 1 /\ k \in Nat
      BY <1>1, <1>2, <2>2
    <3>2. Known(id)
      BY <3>1
    <3>3. PICK l : l = Len(toClient) + 1
      OBVIOUS
    <3>4. Covered(id, l) /\ l \in 1 .. (Len(toClient) + 1) /\ l <= k
      BY <1>1, <3>1, <3>2, <3>3 DEF Known
    <3> QED BY <3>1, <3>4, CoveredGrows
  <2> QED BY <2>1, <2>2
<1>4. FirstKnown'
  <2> SUFFICES ASSUME Reached', sleepQue' = << >>, NEW n \in DOMAIN topics', NEW id, id = topics'[n]
               PROVE  (Registering' /\ n = cur'.name) \/ Known(id)'
    BY DEF FirstKnown, Known, Covered, Registering
  <2>1. Reached
    <3>1. Opened' => Opened
      BY OpenedBefore
    <3> QED BY <3>1 DEF Reached, Widens, client
  <2>2. CASE n \notin DOMAIN topics \/ (Registering /\ n = cur.name)
    BY <2>1, <2>2
  <2>3. CASE n \in DOMAIN topics /\ ~(Registering /\ n = cur.name)
    <3>1. id = topics[n]
      BY <2>3 DEF Widens
    <3>2. Known(id)
      BY <2>1, <2>3, <3>1 DEF FirstInv, FirstKnown
    <3> QED BY <3>2, KnownGrows
  <2> QED BY <2>2, <2>3
<1>5. NoneSaved'
  BY DEF FirstInv, NoneSaved
<1>6. Answering'
  <2>1. \A i \in DOMAIN toClient : AtClient(i) => i \in DOMAIN toClient' /\ AtClient(i)'
    BY <1>1 DEF AtClient
  <2> QED BY <2>1 DEF FirstInv, Answering, Widens, client
<1>7. AskedFor'
  <2>1. ASSUME NEW k \in DOMAIN toClient', Valid(k)', NEW m, m = toClient'[k], m.type = "REGACK"
        PROVE  m.mid \in DOMAIN asked
    <3>1. CASE k \in DOMAIN toClient
      <4>1. k \in 1 .. (Len(toClient) + 1) /\ m = toClient[k]
        BY <1>1, <2>1, <3>1
      <4>2. Valid(k)
        BY <2>1, <4>1, ValidGrows
      <4> QED BY <2>1, <3>1, <4>1, <4>2 DEF FirstInv, AskedFor
    <3>2. CASE k \notin DOMAIN toClient
      <4>1. m \in D /\ k >= Len(toClient) + 1
        BY <1>2, <2>1, <3>2
      <4>2. Valid(Len(toClient) + 1)
        <5>1. CASE linked # "connecting"
          BY <5>1 DEF Valid
        <5>2. CASE linked = "connecting"
          <6>1. PICK i \in 1 .. (k - 1) : toClient'[i].type = "CONNACK"
            BY <2>1, <5>2 DEF Valid, AtClient, Widens, client
          <6>2. i \in DOMAIN toClient'
            BY <1>1, <6>1
          <6>3. i \in DOMAIN toClient
            BY <1>2, <6>1, <6>2
          <6> QED BY <1>1, <6>1, <6>3 DEF Valid, AtClient
        <5> QED BY <5>1, <5>2
      <4> QED BY <2>1, <4>1, <4>2
    <3> QED BY <3>1, <3>2
  <2>2. UNCHANGED <<asked, linked>>
    BY DEF Widens, client
  <2>3. \A e \in Range(gwQue') : IsConnect(e) => e.msg.clean
    BY DEF FirstInv, AskedFor
  <2>4. linked' # "connecting" =>
          \A e \in Range(gwQue') : e.from = "client" /\ e.msg.type = "REGISTER" => e.msg.mid \in DOMAIN asked'
    BY <2>2 DEF FirstInv, AskedFor
  <2> QED BY <2>1, <2>2, <2>3, <2>4 DEF AskedFor
<1> QED BY <1>3, <1>4, <1>5, <1>6, <1>7 DEF FirstInv

LEMMA AppendedSome ==
    ASSUME NEW q, q \in Seq(Range(q)), NEW e
    PROVE  Append(q, e) # << >>
<1>1. PICK r : r = Append(q, e)
  OBVIOUS
<1>2. Len(q) \in Nat /\ Len(r) = Len(q) + 1
  BY <1>1, Appended
<1>3. r # << >>
  BY <1>2
<1> QED BY <1>1, <1>3

LEMMA TableWidens ==
    ASSUME UNCHANGED client, Grown(toClient, toClient'), UNCHANGED table \/ \E name : Add(name),
           untold \subseteq untold', subscribed \subseteq subscribed'
    PROVE  Widens
<1>1. ASSUME NEW name, Add(name)
      PROVE  \A n \in DOMAIN topics : n \in DOMAIN topics' /\ topics'[n] = topics[n]
  BY <1>1 DEF Add, table
<1> QED BY <1>1 DEF Widens, table

(* The message that a step sends last. *)
LEMMA LastKnown ==
    ASSUME Queues, Widens, NEW m, Reply(m), Announces(m), NEW id, id = m.id, Valid(Len(toClient) + 1)
    PROVE  Known(id)'
<1>1. PICK r, l : r = toClient' /\ l = Len(toClient) + 1
  OBVIOUS
<1>2. /\ r[l] = m /\ Len(r) = l /\ l \in 1 .. (Len(r) + 1 - 1) /\ l \in 1 .. (Len(toClient) + 1)
  BY <1>1, Appended DEF Reply, Queues
<1>3. Valid(l)'
  BY <1>1, <1>2, ValidGrows
<1> QED BY <1>1, <1>2, <1>3 DEF Known, Covered

LEMMA FirstConnect ==
    ASSUME Typed, OneConnect, Heralded, FirstInv, SnConnect
    PROVE  FirstInv'
<1>0. Queues
  BY DEF Typed
<1>1. Take("client", "CONNECT") /\ UNCHANGED <<toClient, sleepQue, client>>
  BY DEF SnConnect
<1>2. /\ 1 \in DOMAIN gwQue /\ IsConnect(gwQue[1]) /\ AtGateway(1) /\ gwQue[1].msg = Msg
      /\ Range(gwQue') \subseteq Range(gwQue)
  BY <1>0, <1>1, TookFirst, Took DEF IsConnect, AtGateway
<1>3. linked = "connecting" /\ linked' = "connecting" /\ asked' = asked
      /\ \A i \in DOMAIN toClient : ~AtClient(i)
  BY <1>1, <1>2 DEF OneConnect, client
<1>4. \A k \in DOMAIN toClient' : ~Valid(k)'
  <2>1. DOMAIN toClient = 1 .. Len(toClient) /\ Len(toClient) \in Nat
    BY <1>0 DEF Queues
  <2> QED BY <1>1, <1>3, <2>1 DEF Valid, AtClient
<1>5. FirstSent'
  BY <1>4 DEF FirstSent
<1>6. FirstKnown'
  <2>1. CASE status # "TryConnecting"
    <3>1. Msg.clean
      BY <1>2 DEF FirstInv, AskedFor, Range
    <3>2. DOMAIN topics' = {}
      BY <2>1, <3>1 DEF SnConnect, Empty
    <3> QED BY <3>2 DEF FirstKnown
  <2>2. CASE status = "TryConnecting"
    <3>1. UNCHANGED <<toBroker, toClient>>
      BY <2>2 DEF SnConnect
    <3>2. ~Opened
      <4>1. ~IsConnack(gwQue[1])
        BY <1>2 DEF IsConnect, IsConnack
      <4> QED BY <1>2, <4>1 DEF Opened, OneConnect, AtGateway
    <3>3. ~Opened'
      <4>1. Answers({}, {})
        BY <1>0, <3>1, AnswersNone
      <4> QED BY <1>0, <1>2, <3>2, <4>1, OpenedBefore
    <3> QED BY <1>3, <3>3 DEF FirstKnown, Reached
  <2> QED BY <2>1, <2>2
<1>7. NoneSaved' /\ Answering'
  BY <1>1, <1>3 DEF SnConnect, FirstInv, NoneSaved, Answering, AtClient
<1>8. AskedFor'
  BY <1>2, <1>3, <1>4 DEF FirstInv, AskedFor
<1> QED BY <1>5, <1>6, <1>7, <1>8 DEF FirstInv

LEMMA FirstConnack ==
    ASSUME Typed, OneConnect, Heralded, FirstInv, Connack, at' # "flushing"
    PROVE  FirstInv'
<1>0. Queues
  BY DEF Typed
<1>1. /\ Take("broker", "CONNACK") /\ UNCHANGED <<table, history, sleepQue, toBroker, client>>
      /\ Reply([type |-> "CONNACK"])
  BY DEF Connack
<1>2. /\ 1 \in DOMAIN gwQue /\ IsConnack(gwQue[1]) /\ AtGateway(1) /\ at = "idle"
      /\ Range(gwQue') \subseteq Range(gwQue)
  BY <1>0, <1>1, TookFirst, Took DEF IsConnack, AtGateway
<1>3. linked = "connecting" /\ linked' = "connecting" /\ asked' = asked
      /\ \A i \in DOMAIN toClient : ~AtClient(i)
  BY <1>1, <1>2 DEF OneConnect, client
<1>4. PICK r, l : r = toClient' /\ l = Len(toClient)
  OBVIOUS
<1>5. /\ l \in Nat /\ DOMAIN toClient = 1 .. l /\ DOMAIN r = 1 .. (l + 1)
      /\ r[l + 1].type = "CONNACK" /\ \A i \in 1 .. l : r[i] = toClient[i]
  BY <1>0, <1>1, <1>4, Appended DEF Reply, Queues
<1>6. \A k \in DOMAIN toClient' : ~Valid(k)'
  <2>1. \A k \in 1 .. (l + 1) : \A i \in 1 .. (k - 1) : r[i].type # "CONNACK"
    BY <1>3, <1>5 DEF AtClient
  <2> QED BY <1>3, <1>4, <1>5, <2>1 DEF Valid, AtClient
<1>7. FirstSent'
  BY <1>6 DEF FirstSent
<1>8. FirstKnown'
  <2>1. Widens
    <3>1. Answers({}, {[type |-> "CONNACK"]})
      BY <1>0, <1>1, AnswersDown
    <3> QED BY <1>1, <3>1, TableWidens DEF Answers, history
  <2>2. Opened
    BY <1>2 DEF Opened
  <2> SUFFICES ASSUME sleepQue' = << >>, NEW n \in DOMAIN topics', NEW id, id = topics'[n]
               PROVE  Known(id)'
    BY DEF FirstKnown, Known, Covered
  <2>3. n \in DOMAIN topics /\ id = topics[n] /\ sleepQue = << >>
    BY <1>1 DEF table
  <2>4. Known(id)
    BY <1>2, <2>2, <2>3 DEF FirstInv, FirstKnown, Reached, Registering
  <2> QED BY <2>1, <2>4, KnownGrows
<1>9. NoneSaved'
  BY DEF Connack, NoneSaved
<1>10. Answering'
  <2>1. l + 1 \in DOMAIN r
    BY <1>5
  <2> QED BY <1>4, <1>5, <2>1 DEF Answering, AtClient
<1>11. AskedFor'
  BY <1>2, <1>3, <1>6 DEF FirstInv, AskedFor
<1> QED BY <1>7, <1>8, <1>9, <1>10, <1>11 DEF FirstInv

LEMMA FirstTask ==
    ASSUME Typed, OneConnect, Heralded, CurNamed, FirstInv, GatewayControlTask,
           at # "flushing", at' # "flushing"
    PROVE  FirstInv'
<1>0. Queues /\ UNCHANGED client /\ Range(gwQue') \subseteq Range(gwQue)
  BY TaskStep, TailRange DEF Typed, Queues
<1>took. ASSUME NEW from, NEW type, Take(from, type)
         PROVE  /\ at = "idle" /\ Head(gwQue) \in Range(gwQue) /\ Head(gwQue).from = from
                /\ Head(gwQue).msg = Msg /\ Msg.type = type
  BY <1>0, <1>took, Took
<1> DEFINE Grows == /\ UNCHANGED table \/ \E name : Add(name)
                    /\ untold \subseteq untold' /\ subscribed \subseteq subscribed'
           Saved == sleepQue' = sleepQue \/ (status = "Asleep" /\ sleepQue' # << >>)
           Rest == \A n \in DOMAIN topics' : \A id :
                      /\ n \notin DOMAIN topics \/ (Registering /\ n = cur.name)
                      /\ id = topics'[n] /\ Reached /\ sleepQue' = << >>
                      => Known(id)' \/ (Registering' /\ n = cur'.name)
           Quiet == UNCHANGED <<table, history, sleepQue, status, task>>
<1>quiet. Quiet => Grows /\ Saved /\ status' = status /\ Rest
  BY DEF table, history, task, Registering
<1> HIDE DEF Rest
<1>a. ASSUME Grows, Saved, status' = status, Rest, NEW B, NEW D, Answers(B, D),
             \A m \in B : m.type # "CONNECT", \A m \in D : m.type # "CONNACK",
             \A m \in D : Normally(m) => Known(m.id),
             \A m \in D : m.type = "REGACK" => m.mid \in DOMAIN asked \/ ~Valid(Len(toClient) + 1)
      PROVE  FirstInv'
  <2>1. Widens
    BY <1>0, <1>a, TableWidens DEF Answers
  <2> QED BY <1>0, <1>a, <2>1, FirstAnswers DEF Rest
<1> HIDE DEF Grows, Saved, Quiet
<1>none. ASSUME Grows, Saved, status' = status, Rest, UNCHANGED <<toBroker, toClient>> PROVE FirstInv'
  <2>1. Answers({}, {})
    BY <1>0, <1>none, AnswersNone
  <2> QED BY <1>a, <1>none, <2>1
<1>up. ASSUME Grows, Saved, status' = status, Rest, NEW m, Forward(m), UNCHANGED toClient,
              m.type # "CONNECT"
       PROVE  FirstInv'
  <2>1. Answers({m}, {})
    BY <1>0, <1>up, AnswersUp
  <2> QED BY <1>a, <1>up, <2>1
<1>down. ASSUME Grows, Saved, status' = status, Rest, NEW m, Reply(m), UNCHANGED toBroker,
                m.type # "CONNACK", Normally(m) => Known(m.id),
                m.type = "REGACK" => m.mid \in DOMAIN asked \/ ~Valid(Len(toClient) + 1)
         PROVE  FirstInv'
  <2>1. Answers({}, {m})
    BY <1>0, <1>down, AnswersDown
  <2> QED BY <1>a, <1>down, <2>1
<1>1. CASE SnPublishForward \/ SnUnsubscribe
  <2>1. UNCHANGED toClient /\ Quiet /\ \E m : Forward(m) /\ m.type \in {"PUBLISH", "UNSUBSCRIBE"}
    <3>1. CASE SnPublishForward
      BY <3>1 DEF SnPublishForward, Quiet, Take, task
    <3>2. CASE SnUnsubscribe
      BY <3>2 DEF SnUnsubscribe, Quiet, Take, task
    <3> QED BY <1>1, <3>1, <3>2
  <2> QED BY <1>up, <1>quiet, <2>1
<1>2. CASE SnPublishReject \/ Puback \/ Suback
  <2>1. /\ UNCHANGED toBroker /\ Quiet
        /\ UNCHANGED toClient \/ \E m : Reply(m) /\ m.type \in {"PUBACK", "SUBACK"}
    BY <1>2 DEF SnPublishReject, Puback, Suback, Quiet, Take, task
  <2> QED BY <1>none, <1>down, <1>quiet, <2>1 DEF Normally
<1>3. CASE SnSubscribe
  <2>1. /\ Take("client", "SUBSCRIBE") /\ Add(Msg.name) /\ UNCHANGED <<status, sleepQue, task, toClient, untold>>
        /\ subscribed' = subscribed \cup {Msg.name} /\ \E m : Forward(m) /\ m.type = "SUBSCRIBE"
    BY <1>3 DEF SnSubscribe
  <2>2. Grows /\ Saved
    BY <2>1 DEF Grows, Saved
  <2>3. Rest
    <3> SUFFICES ASSUME NEW n \in DOMAIN topics', NEW id, id = topics'[n], n \notin DOMAIN topics
                 PROVE  Known(id)'
      BY <1>took, <2>1 DEF Rest, Registering
    <3>1. n = Msg.name
      BY <2>1 DEF Add, table
    <3>2. n \in subscribed' \cap DOMAIN topics'
      BY <2>1, <3>1
    <3> QED BY <3>2 DEF Known, Covered
  <2> QED BY <1>up, <2>1, <2>2, <2>3
<1>4. CASE SnSubscribeHere
  <2>1. Quiet
    BY <1>4 DEF SnSubscribeHere, Quiet, Take, task
  <2>2. PICK D : D = {Suback4(Msg.id = Predefined), Suback4(FALSE), TimeMsg}
    OBVIOUS
  <2>3. Answers({}, D)
    BY <1>0, <1>4, <2>2, AnswersHere
  <2>4. \A m \in D : m.type \notin {"CONNACK", "REGACK"} /\ ~Normally(m)
    BY <2>2 DEF Suback4, TimeMsg, Normally
  <2> QED BY <1>a, <1>quiet, <2>1, <2>3, <2>4
<1>5. CASE SnUnsubscribeHere
  <2>1. UNCHANGED toBroker /\ Quiet /\ \E m : Reply(m) /\ m.type = "UNSUBACK"
    BY <1>5 DEF SnUnsubscribeHere, Quiet, Take, task
  <2> QED BY <1>down, <1>quiet, <2>1 DEF Normally
<1>6. CASE SnConnect
  BY <1>6, FirstConnect
<1>7. CASE SnDisconnect
  <2>1. PICK m, n : Forward(m) /\ Reply(n) /\ m.type = "DISCONNECT" /\ n.type = "DISCONNECT"
    BY <1>7 DEF SnDisconnect
  <2>2. Quiet
    BY <1>7 DEF SnDisconnect, Quiet, Take, task
  <2>3. Answers({m}, {n})
    BY <1>0, <2>1, AnswersBoth
  <2>4. ~Normally(n)
    BY <2>1 DEF Normally
  <2> QED BY <1>a, <1>quiet, <2>1, <2>2, <2>3, <2>4
<1>8. CASE SnRegister
  <2>1. /\ Take("client", "REGISTER") /\ Add(Msg.name)
        /\ UNCHANGED <<status, sleepQue, task, toBroker, history>>
    BY <1>8 DEF SnRegister
  <2>2. PICK m : Reply(m) /\ m.type = "REGACK" /\ m.mid = Msg.mid /\ m.id = topics'[Msg.name]
    BY <1>8 DEF SnRegister
  <2>3. Grows /\ Saved
    BY <2>1 DEF Grows, Saved, history
  <2>4. /\ 1 \in DOMAIN gwQue /\ OfSession(gwQue[1]) /\ gwQue[1].msg = Msg
        /\ gwQue[1].from = "client" /\ gwQue[1].msg.type = "REGISTER" /\ gwQue[1] \in Range(gwQue)
    BY <1>0, <2>1, TookFirst DEF OfSession, Range
  <2>5. linked = "connecting" => ~Opened
    <3> SUFFICES ASSUME linked = "connecting" PROVE ~Opened
      OBVIOUS
    <3>1. PICK i \in DOMAIN gwQue : IsConnect(gwQue[i])
      BY <2>4 DEF Heralded
    <3>2. AtGateway(i) /\ ~IsConnack(gwQue[i])
      BY <3>1 DEF AtGateway, IsConnect, IsConnack
    <3> QED BY <3>2 DEF Opened, OneConnect, AtGateway
  <2>6. m.mid \in DOMAIN asked \/ ~Valid(Len(toClient) + 1)
    <3>1. CASE linked # "connecting"
      BY <2>2, <2>4, <3>1 DEF FirstInv, AskedFor
    <3>2. CASE linked = "connecting"
      <4>1. DOMAIN toClient = 1 .. Len(toClient) /\ Len(toClient) \in Nat
        BY <1>0 DEF Queues
      <4> QED BY <2>5, <3>2, <4>1 DEF Opened, Valid
    <3> QED BY <3>1, <3>2
  <2>7. Rest
    <3> SUFFICES ASSUME NEW n \in DOMAIN topics', NEW id, id = topics'[n], n \notin DOMAIN topics, Reached
                 PROVE  Known(id)'
      BY <1>took, <2>1 DEF Rest, Registering
    <3>1. n = Msg.name
      BY <2>1 DEF Add, table
    <3>2. linked # "connecting"
      BY <2>5 DEF Reached
    <3>3. Widens
      <4>1. Answers({}, {m})
        BY <1>0, <2>1, <2>2, AnswersDown
      <4> QED BY <1>0, <2>3, <4>1, TableWidens DEF Grows, Answers
    <3> QED BY <1>0, <2>2, <3>1, <3>2, <3>3, LastKnown DEF Announces, Valid
  <2> QED BY <1>down, <2>1, <2>2, <2>3, <2>6, <2>7 DEF Normally
<1>9. ASSUME NEW t \in {"PUBACK", "PUBREC", "PUBREL", "PUBCOMP", "PINGREQ"}, SnPass(t) PROVE FirstInv'
  <2>1. UNCHANGED toClient /\ Quiet /\ \E m : Forward(m) /\ m.type = t
    BY <1>9 DEF SnPass, Quiet, Take, task
  <2> QED BY <1>up, <1>quiet, <2>1
<1>10. ASSUME NEW t \in {"PUBREC", "PUBREL", "PUBCOMP", "UNSUBACK", "PINGRESP"}, Pass(t) PROVE FirstInv'
  <2>1. UNCHANGED toBroker /\ Quiet /\ \E m : Reply(m) /\ m.type = t
    BY <1>10 DEF Pass, Quiet, Take, task
  <2> QED BY <1>down, <1>quiet, <2>1 DEF Normally
<1>11. CASE Connack
  BY <1>11, FirstConnack
<1>12. CASE PublishTopic
  <2>1. /\ Take("broker", "PUBLISH") /\ UNCHANGED <<status, sleepQue, toBroker, toClient, history>>
        /\ \/ Add(Msg.name) /\ at' = "register" /\ cur'.name = Msg.name
           \/ UNCHANGED table
    BY <1>12 DEF PublishTopic
  <2>2. Grows /\ Saved
    BY <2>1 DEF Grows, Saved, history
  <2>3. Rest
    <3> SUFFICES ASSUME NEW n \in DOMAIN topics', n \notin DOMAIN topics
                 PROVE  Registering' /\ n = cur'.name
      BY <1>took, <2>1 DEF Rest, Registering
    <3>1. Add(Msg.name) /\ at' = "register" /\ cur'.name = Msg.name
      BY <2>1 DEF table
    <3> QED BY <3>1 DEF Add, table, Registering
  <2> QED BY <1>none, <2>1, <2>2, <2>3
<1>13. CASE RegisterAsleep
  <2>1. /\ at = "register" /\ UNCHANGED <<status, table, history, cur, toBroker, toClient>>
        /\ \/ status = "Asleep" /\ sleepQue' = Append(sleepQue, RegisterMsg)
           \/ at' = "register_active" /\ UNCHANGED sleepQue
    BY <1>13 DEF RegisterAsleep
  <2>2. Append(sleepQue, RegisterMsg) # << >>
    BY <1>0, AppendedSome DEF Queues
  <2>3. Grows /\ Saved /\ Rest
    BY <2>1, <2>2 DEF Grows, Saved, Rest, history, table, Registering
  <2> QED BY <1>none, <2>1, <2>3
<1>14. CASE RegisterActive
  <2>1. /\ at = "register_active" /\ UNCHANGED <<status, table, sleepQue, cur, toBroker, subscribed>>
        /\ \/ status = "Active" /\ Reply(RegisterMsg) /\ UNCHANGED untold
           \/ untold' = untold \cup {cur.id} /\ UNCHANGED toClient
    BY <1>14 DEF RegisterActive
  <2>2. Grows /\ Saved
    BY <2>1 DEF Grows, Saved
  <2>3. cur.name \in DOMAIN topics /\ topics[cur.name] = cur.id
    BY <2>1 DEF CurNamed, Registering
  <2>4. (\A id : id = cur.id => Known(id)') => Rest
    BY <2>1, <2>3 DEF Rest, table
  <2>5. CASE untold' = untold \cup {cur.id} /\ UNCHANGED toClient
    <3>1. \A id : id = cur.id => Known(id)'
      BY <2>5 DEF Known, Covered
    <3> QED BY <1>none, <2>1, <2>2, <2>4, <2>5, <3>1
  <2>6. ASSUME status = "Active", NEW m, m = RegisterMsg, Reply(m), UNCHANGED untold PROVE FirstInv'
    <3>1. m.type = "REGISTER" /\ m.id = cur.id
      BY <2>6 DEF RegisterMsg
    <3>2. Valid(Len(toClient) + 1)
      <4>1. DOMAIN toClient = 1 .. Len(toClient) /\ Len(toClient) \in Nat
        BY <1>0 DEF Queues
      <4> QED BY <2>6, <4>1 DEF FirstInv, Answering, Valid
    <3>3. Widens
      <4>1. Answers({}, {m})
        BY <1>0, <2>1, <2>6, AnswersDown
      <4> QED BY <1>0, <2>2, <4>1, TableWidens DEF Grows, Answers
    <3>4. \A id : id = cur.id => Known(id)'
      BY <1>0, <2>6, <3>1, <3>2, <3>3, LastKnown DEF Announces
    <3> QED BY <1>down, <2>1, <2>2, <2>4, <2>6, <3>1, <3>4 DEF Normally
  <2> QED BY <2>1, <2>5, <2>6
<1>15. CASE PublishAsleep
  <2>1. /\ at = "publish" /\ UNCHANGED <<status, table, history, toBroker, toClient>>
        /\ \/ status = "Asleep" /\ sleepQue' = Append(sleepQue, PublishMsg)
           \/ UNCHANGED sleepQue
    BY <1>15 DEF PublishAsleep
  <2>2. Append(sleepQue, PublishMsg) # << >>
    BY <1>0, AppendedSome DEF Queues
  <2>3. Grows /\ Saved /\ Rest
    BY <2>1, <2>2 DEF Grows, Saved, Rest, history, table, Registering
  <2> QED BY <1>none, <2>1, <2>3
<1>16. CASE PublishActive
  <2>1. /\ at = "publish_active" /\ UNCHANGED <<status, table, history, sleepQue, toBroker>>
        /\ UNCHANGED toClient \/ (status = "Active" /\ Reply(PublishMsg))
    BY <1>16 DEF PublishActive
  <2>2. Grows /\ Saved /\ Rest
    BY <2>1 DEF Grows, Saved, Rest, history, table, Registering
  <2>3. CASE UNCHANGED toClient
    BY <1>none, <2>1, <2>2, <2>3
  <2>4. ASSUME status = "Active", NEW m, m = PublishMsg, Reply(m) PROVE FirstInv'
    <3>1. m.type = "PUBLISH" /\ (m.kind = "NORMAL" => ~cur.short) /\ m.id = cur.id
      BY <2>4 DEF PublishMsg
    <3>2. Normally(m) => Known(m.id)
      <4>1. Reached /\ sleepQue = << >>
        BY <2>4 DEF FirstInv, Answering, NoneSaved, Reached, Opened
      <4>2. Normally(m) => cur.name \in DOMAIN topics /\ topics[cur.name] = m.id
        BY <2>1, <3>1 DEF Normally, CurNamed
      <4> QED BY <2>1, <4>1, <4>2 DEF FirstInv, FirstKnown, Registering
    <3> QED BY <1>down, <2>1, <2>2, <2>4, <3>1, <3>2
  <2> QED BY <2>1, <2>3, <2>4
<1> QED
  BY <1>1, <1>2, <1>3, <1>4, <1>5, <1>6, <1>7, <1>8, <1>9, <1>10, <1>11, <1>12, <1>13, <1>14,
     <1>15, <1>16
  DEF GatewayControlTask, Flush

(* The client says something, or connects. *)
LEMMA FirstSays ==
    ASSUME Queues, OneConnect, FirstInv, NEW m, ClientSends(m), Unchanged4Client, told' = told,
           linked = "yes" \/ linked = "asleep", linked' # "connecting", DOMAIN asked \subseteq DOMAIN asked',
           m.type # "CONNECT", m.type = "REGISTER" => m.mid \in DOMAIN asked',
           linked' = linked \/ m.type = "DISCONNECT"
    PROVE  FirstInv'
<1>1. PICK e : e = [from |-> "client", msg |-> m]
  OBVIOUS
<1>2. /\ gwQue' = Append(gwQue, e) /\ status' = UpdatedStatus(status, m)
      /\ UNCHANGED <<topics, sleepQue, at, cur, toClient, told, subscribed, untold>>
  BY <1>1 DEF ClientSends, Unchanged4Client, table, task, history
<1>3. Range(gwQue') = Range(gwQue) \cup {e} /\ ~IsConnect(e)
  BY <1>1, <1>2, PostedUp DEF IsConnect
<1>4. \A id, k : Covered(id, k)' <=> Covered(id, k)
  BY <1>2 DEF Covered, Valid, AtClient
<1>5. \A id : Known(id)' <=> Known(id)
  BY <1>2, <1>4 DEF Known, Covered, Valid, AtClient
<1>6. FirstSent'
  <2> SUFFICES ASSUME NEW k \in DOMAIN toClient, Normally(toClient[k]), NEW id, id = toClient[k].id
               PROVE  Covered(id, k)'
    BY <1>2 DEF FirstSent, Covered, Valid, AtClient
  <2>1. Covered(id, k)
    BY DEF FirstInv, FirstSent, Valid
  <2> QED BY <1>4, <2>1
<1>7. FirstKnown'
  <2> SUFFICES ASSUME sleepQue = << >>, NEW n \in DOMAIN topics, ~(Registering /\ n = cur.name), NEW id, id = topics[n]
               PROVE  Known(id)'
    BY <1>2 DEF FirstKnown, Registering, Known, Covered, Valid, AtClient
  <2>1. Known(id)
    BY DEF FirstInv, FirstKnown, Reached
  <2> QED BY <1>5, <2>1
<1>8. status' = "Active" => status = "Active" /\ m.type # "DISCONNECT"
  BY <1>2 DEF UpdatedStatus
<1>9. NoneSaved' /\ Answering'
  BY <1>2, <1>8, DialogueOpen DEF FirstInv, NoneSaved, Answering
<1>10. AskedFor'
  BY <1>1, <1>2, <1>3 DEF FirstInv, AskedFor, Valid
<1> QED BY <1>6, <1>7, <1>9, <1>10 DEF FirstInv

LEMMA FirstClientConnect ==
    ASSUME Queues, OneConnect, FirstInv, NEW b \in BOOLEAN, ClientConnect(b), Orderly'
    PROVE  FirstInv'
<1>1. /\ linked # "connecting" /\ linked # "yes" /\ b = TRUE /\ linked' = "connecting"
  BY DEF ClientConnect, Orderly
<1>2. PICK m : m = [type |-> "CONNECT", kind |-> "none", clean |-> b]
  OBVIOUS
<1>3. PICK e : e = [from |-> "client", msg |-> m]
  OBVIOUS
<1>4. /\ gwQue' = Append(gwQue, e) /\ status' = UpdatedStatus(status, m)
      /\ UNCHANGED <<toBroker, toClient, sleepQue>>
  BY <1>2, <1>3 DEF ClientConnect, ClientSends, Unchanged4Client
<1>5. /\ \A i \in DOMAIN gwQue : ~AtGateway(i)
      /\ \A i \in DOMAIN toBroker : ~AtBroker(i)
      /\ \A i \in DOMAIN toClient : ~AtClient(i)
  BY <1>1, DialogueOpen
<1>6. ~Opened' /\ ~Reached'
  <2>1. ~IsConnack(e)
    BY <1>3 DEF IsConnack
  <2>2. ~Opened'
    BY <1>4, <1>5, <2>1, GrownGateway DEF Opened, AtGateway, AtBroker, AtClient
  <2> QED BY <1>1, <2>2 DEF Reached
<1>7. \A k \in DOMAIN toClient' : ~Valid(k)'
  <2>1. DOMAIN toClient = 1 .. Len(toClient) /\ Len(toClient) \in Nat
    BY DEF Queues
  <2> QED BY <1>1, <1>4, <1>5, <2>1 DEF Valid, AtClient
<1>8. FirstSent' /\ FirstKnown'
  BY <1>6, <1>7 DEF FirstSent, FirstKnown
<1>9. status' # "Active"
  BY <1>1, <1>2, <1>4, <1>5 DEF UpdatedStatus, FirstInv, Answering
<1>10. NoneSaved' /\ Answering'
  BY <1>9 DEF NoneSaved, Answering
<1>11. AskedFor'
  <2>1. Range(gwQue') = Range(gwQue) \cup {e} /\ e.msg.clean
    BY <1>1, <1>2, <1>3, <1>4, PostedUp
  <2> QED BY <1>1, <1>7, <2>1 DEF AskedFor, FirstInv
<1> QED BY <1>8, <1>10, <1>11 DEF FirstInv

LEMMA FirstClient ==
    ASSUME Typed, OneConnect, FirstInv, Client, Orderly'
    PROVE  FirstInv'
<1>0. Queues /\ \A u \in unacked : u.type = "PUBLISH"
  BY DEF Typed, IdsTyped
<1>1. ASSUME NEW b \in BOOLEAN, ClientConnect(b) PROVE FirstInv'
  BY <1>0, <1>1, FirstClientConnect
<1>2. ASSUME NEW b \in BOOLEAN, ClientDisconnect(b) PROVE FirstInv'
  BY <1>0, <1>2, FirstSays DEF ClientDisconnect
<1>3. ASSUME NEW m, ClientAsks(m), m.type # "CONNECT", m.mid = Mid PROVE FirstInv'
  <2>1. /\ ClientSends(m) /\ Unchanged4Client /\ told' = told /\ linked = "yes" /\ linked' = "yes"
        /\ DOMAIN asked' = DOMAIN asked \cup {Mid}
    BY <1>3 DEF ClientAsks
  <2> QED BY <1>0, <1>3, <2>1, FirstSays
<1>4. ASSUME NEW n, ClientRegister(n) PROVE FirstInv'
  BY <1>3, <1>4 DEF ClientRegister
<1>5. ASSUME NEW kind, NEW n, NEW id, ClientSubscribe(kind, n, id) PROVE FirstInv'
  BY <1>3, <1>5 DEF ClientSubscribe
<1>6. ASSUME NEW kind, NEW n, ClientUnsubscribe(kind, n) PROVE FirstInv'
  BY <1>3, <1>6 DEF ClientUnsubscribe
<1>7. ASSUME NEW q, NEW kind, NEW id, NEW n, ClientPublish(q, kind, id, n) PROVE FirstInv'
  BY <1>0, <1>7, FirstSays DEF ClientPublish
<1>8. ASSUME ClientRepeat PROVE FirstInv'
  BY <1>0, <1>8, FirstSays DEF ClientRepeat
<1>9. ASSUME ClientPing PROVE FirstInv'
  BY <1>0, <1>9, FirstSays DEF ClientPing
<1> QED BY <1>1, <1>2, <1>4, <1>5, <1>6, <1>7, <1>8, <1>9 DEF Client

(* Positions in a queue before and after its head has been taken. *)
LEMMA PositionAfter ==
    ASSUME NEW n \in Nat, NEW k \in Nat \ {0}, k + 1 \in 1 .. n \/ k = n
    PROVE  k \in 1 .. n
OBVIOUS

LEMMA PositionBefore ==
    ASSUME NEW n \in Nat, NEW k \in 1 .. n, NEW i \in 1 .. k, i # 1
    PROVE  /\ i - 1 \in Nat \ {0} /\ i - 1 \in 1 .. (k - 1) /\ i - 1 \in 1 .. (n - 1)
           /\ (i - 1) + 1 = i /\ i \in 1 .. n
OBVIOUS

LEMMA PositionNext ==
    ASSUME NEW n \in Nat, NEW k \in 1 .. n, NEW i \in 1 .. (k - 1)
    PROVE  i \in 1 .. (n - 1) /\ i + 1 \in 1 .. (k + 1 - 1)
OBVIOUS

(* The client takes a message: what it announced the client now knows. *)
LEMMA ValidTaken ==
    ASSUME Queues, ClientTakes, NEW k \in Nat \ {0}, k + 1 \in DOMAIN toClient \/ k = Len(toClient)
    PROVE  /\ Valid(k)' => Valid(k + 1)
           /\ Valid(k + 1) /\ (AtClient(1) => linked = "connecting") => Valid(k)'
<1>1. /\ toClient # << >> /\ toClient' = Tail(toClient)
      /\ linked' = IF Head(toClient).type = "CONNACK" /\ linked = "connecting" THEN "yes" ELSE linked
  BY DEF ClientTakes
<1>2. PICK r : r = toClient'
  OBVIOUS
<1>3. /\ Len(toClient) \in Nat \ {0} /\ DOMAIN toClient = 1 .. Len(toClient)
      /\ \A i \in 1 .. (Len(toClient) - 1) : r[i] = toClient[i + 1]
      /\ toClient[1] = Head(toClient)
  BY <1>1, <1>2, Tailed DEF Queues
<1>a. Len(toClient) \in Nat /\ DOMAIN toClient = 1 .. Len(toClient)
  BY <1>3
<1>b. k \in 1 .. Len(toClient)
  BY <1>a, PositionAfter
<1>4. AtClient(1) <=> Head(toClient).type = "CONNACK"
  BY <1>3 DEF AtClient
<1>5. ASSUME Valid(k)' PROVE Valid(k + 1)
  <2>1. CASE linked # "connecting"
    BY <2>1 DEF Valid
  <2>2. CASE linked = "connecting" /\ AtClient(1)
    <3>1. 1 \in 1 .. (k + 1 - 1)
      OBVIOUS
    <3> QED BY <2>2, <3>1 DEF Valid
  <2>3. CASE linked = "connecting" /\ ~AtClient(1)
    <3>1. PICK i \in 1 .. (k - 1) : r[i].type = "CONNACK"
      BY <1>1, <1>2, <1>4, <1>5, <2>3 DEF Valid, AtClient
    <3>2. i \in 1 .. (Len(toClient) - 1) /\ i + 1 \in 1 .. (k + 1 - 1)
      BY <1>a, <1>b, PositionNext
    <3>3. toClient[i + 1].type = "CONNACK"
      BY <1>3, <3>1, <3>2
    <3> QED BY <3>2, <3>3 DEF Valid, AtClient
  <2> QED BY <2>1, <2>2, <2>3
<1>6. ASSUME Valid(k + 1), AtClient(1) => linked = "connecting" PROVE Valid(k)'
  <2>1. CASE linked' # "connecting"
    BY <2>1 DEF Valid
  <2>2. CASE linked' = "connecting"
    <3>1. linked = "connecting" /\ ~AtClient(1)
      BY <1>1, <1>4, <2>2
    <3>2. PICK i \in 1 .. k : AtClient(i)
      BY <1>6, <3>1 DEF Valid
    <3>3. i # 1
      BY <3>1, <3>2
    <3>4. PICK j : j = i - 1
      OBVIOUS
    <3>5. j \in 1 .. (k - 1) /\ j \in 1 .. (Len(toClient) - 1) /\ i = j + 1
      BY <1>a, <1>b, <3>3, <3>4, PositionBefore
    <3>6. r[j] = toClient[i]
      BY <1>3, <3>5
    <3> QED BY <1>2, <3>2, <3>5, <3>6 DEF Valid, AtClient
  <2> QED BY <2>1, <2>2
<1> QED BY <1>5, <1>6

LEMMA CoveredTaken ==
    ASSUME Queues, OneConnect, AskedFor, ClientTakes, NEW k \in Nat \ {0},
           k + 1 \in DOMAIN toClient \/ k = Len(toClient), NEW id, Covered(id, k + 1)
    PROVE  Covered(id, k)'
<1>1. /\ toClient # << >> /\ toClient' = Tail(toClient) /\ UNCHANGED <<table, history>>
      /\ linked' = IF Head(toClient).type = "CONNACK" /\ linked = "connecting" THEN "yes" ELSE linked
      /\ told' = IF Head(toClient).type = "CONNACK" THEN {} ELSE told \cup Tells(Head(toClient))
  BY DEF ClientTakes
<1>2. PICK r : r = toClient'
  OBVIOUS
<1>3. /\ Len(toClient) \in Nat \ {0} /\ DOMAIN toClient = 1 .. Len(toClient)
      /\ \A i \in 1 .. (Len(toClient) - 1) : r[i] = toClient[i + 1]
      /\ toClient[1] = Head(toClient) /\ 1 \in DOMAIN toClient
  BY <1>1, <1>2, Tailed DEF Queues
<1>4. AtClient(1) <=> Head(toClient).type = "CONNACK"
  BY <1>3 DEF AtClient
<1>a. Len(toClient) \in Nat /\ DOMAIN toClient = 1 .. Len(toClient)
  BY <1>3
<1>b. k \in 1 .. Len(toClient)
  BY <1>a, PositionAfter
<1>5. AtClient(1) => linked = "connecting"
  BY <1>3 DEF OneConnect
<1>6. CASE linked # "connecting" /\ \E t \in told : t[1] = id
  BY <1>1, <1>4, <1>5, <1>6 DEF Covered
<1>7. ASSUME NEW j \in 1 .. k, Valid(j), Announces(toClient[j]), toClient[j].id = id
      PROVE  Covered(id, k)'
  <2>1. CASE j = 1
    <3>1. linked # "connecting" /\ ~AtClient(1)
      BY <1>5, <1>7, <2>1 DEF Valid, Announces, AtClient
    <3>2. \E t \in Tells(Head(toClient)) : t[1] = id
      <4>1. CASE Head(toClient).type = "REGISTER"
        BY <1>3, <1>7, <2>1, <4>1 DEF Tells
      <4>2. CASE Head(toClient).type = "REGACK"
        <5>1. Head(toClient).mid \in DOMAIN asked
          BY <1>3, <1>7, <2>1, <4>2 DEF AskedFor
        <5>2. PICK x : x = <<Head(toClient).id, asked[Head(toClient).mid]>>
          OBVIOUS
        <5>3. x \in Tells(Head(toClient)) /\ x[1] = Head(toClient).id
          BY <4>2, <5>1, <5>2 DEF Tells
        <5> QED BY <1>3, <1>7, <2>1, <5>3
      <4> QED BY <1>3, <1>7, <2>1, <4>1, <4>2 DEF Announces
    <3>3. linked' # "connecting" /\ told' = told \cup Tells(Head(toClient))
      BY <1>1, <1>4, <3>1
    <3> QED BY <3>2, <3>3 DEF Covered
  <2>2. CASE j # 1
    <3>1. PICK i : i = j - 1
      OBVIOUS
    <3>2. /\ i \in Nat \ {0} /\ i + 1 = j /\ i \in 1 .. (k - 1)
          /\ j \in DOMAIN toClient /\ i \in 1 .. (Len(toClient) - 1)
      BY <1>a, <1>b, <2>2, <3>1, PositionBefore
    <3>3. r[i] = toClient[j]
      BY <1>3, <3>2
    <3>4. Valid(i)'
      BY <1>5, <1>7, <3>2, ValidTaken
    <3> QED BY <1>2, <1>7, <3>2, <3>3, <3>4 DEF Covered, Announces
  <2> QED BY <2>1, <2>2
<1>8. CASE id \in untold
  BY <1>1, <1>8 DEF Covered, history
<1>9. CASE \E n \in subscribed \cap DOMAIN topics : topics[n] = id
  BY <1>1, <1>9 DEF Covered, history, table
<1>10. k + 1 - 1 = k
  OBVIOUS
<1> QED BY <1>6, <1>7, <1>8, <1>9, <1>10 DEF Covered

LEMMA FirstTakes ==
    ASSUME Typed, OneConnect, Heralded, FirstInv, ClientTakes
    PROVE  FirstInv'
<1>0. Queues /\ AskedFor
  BY DEF Typed, FirstInv
<1>1. /\ toClient # << >> /\ toClient' = Tail(toClient)
      /\ UNCHANGED <<table, history, sleepQue, task, toBroker, asked>>
      /\ linked' = IF Head(toClient).type = "CONNACK" /\ linked = "connecting" THEN "yes" ELSE linked
  BY DEF ClientTakes
<1>2. PICK r : r = toClient'
  OBVIOUS
<1>3. /\ Len(toClient) \in Nat \ {0} /\ DOMAIN toClient = 1 .. Len(toClient) /\ Len(r) = Len(toClient) - 1
      /\ DOMAIN r = 1 .. (Len(toClient) - 1)
      /\ \A i \in 1 .. (Len(toClient) - 1) : r[i] = toClient[i + 1]
      /\ toClient[1] = Head(toClient) /\ 1 \in DOMAIN toClient
  BY <1>0, <1>1, <1>2, Tailed DEF Queues
<1>4. AtClient(1) <=> Head(toClient).type = "CONNACK"
  BY <1>3 DEF AtClient
<1>5. \A k \in DOMAIN r : k \in Nat \ {0} /\ k + 1 \in DOMAIN toClient /\ r[k] = toClient[k + 1]
  BY <1>3
<1>6. status' = status /\ (UNCHANGED gwQue \/ \E e : /\ gwQue' = Append(gwQue, e) /\ ~IsConnect(e)
                                                     /\ ~IsConnack(e) /\ ~OfSession(e) /\ linked = "yes")
  <2>1. UNCHANGED <<status, gwQue>> \/ \E t \in {"PUBREL", "PUBACK", "PUBREC"} : \E m :
            linked = "yes" /\ m = [type |-> t, mid |-> Head(toClient).mid] /\ ClientAnswers(m)
    BY DEF ClientTakes
  <2>2. ASSUME NEW t \in {"PUBREL", "PUBACK", "PUBREC"}, NEW m, linked = "yes",
               m = [type |-> t, mid |-> Head(toClient).mid], ClientAnswers(m)
        PROVE  /\ status' = status
               /\ \E e : /\ gwQue' = Append(gwQue, e) /\ ~IsConnect(e)
                         /\ ~IsConnack(e) /\ ~OfSession(e) /\ linked = "yes"
    <3>1. m.type = t /\ t # "CONNECT" /\ t # "DISCONNECT" /\ t # "PINGREQ"
      BY <2>2
    <3>2. PICK e : e = [from |-> "client", msg |-> m]
      OBVIOUS
    <3>3. ~IsConnect(e) /\ ~IsConnack(e) /\ ~OfSession(e)
      BY <2>2, <3>1, <3>2 DEF IsConnect, IsConnack, OfSession
    <3>4. gwQue' = Append(gwQue, e) /\ status' = status
      BY <2>2, <3>1, <3>2 DEF ClientAnswers, UpdatedStatus
    <3> QED BY <2>2, <3>3, <3>4
  <2> QED BY <2>1, <2>2
<1>7. FirstSent'
  <2> SUFFICES ASSUME NEW k \in DOMAIN r, Valid(k)', Normally(r[k]), NEW id, id = r[k].id
               PROVE  Covered(id, k)'
    BY <1>2 DEF FirstSent, Covered, Valid, AtClient
  <2>1. Valid(k + 1)
    BY <1>0, <1>5, ValidTaken
  <2>2. Covered(id, k + 1)
    BY <1>5, <2>1 DEF FirstInv, FirstSent
  <2> QED BY <1>0, <1>5, <2>2, CoveredTaken
<1>8. FirstKnown'
  <2> SUFFICES ASSUME Reached', sleepQue' = << >>, NEW n \in DOMAIN topics', NEW id, id = topics'[n],
                      ~(Registering' /\ n = cur'.name)
               PROVE  Known(id)'
    BY DEF FirstKnown, Known, Covered, Registering
  <2>1. Reached
    <3>1. CASE AtClient(1)
      BY <1>3, <3>1 DEF Reached, Opened
    <3>2. CASE ~AtClient(1) /\ linked = "connecting"
      <4>1. linked' = "connecting" /\ UNCHANGED gwQue
        BY <1>1, <1>4, <1>6, <3>2
      <4>2. \A k \in DOMAIN r : r[k].type = "CONNACK" => AtClient(k + 1)
        BY <1>5 DEF AtClient
      <4> QED BY <1>1, <1>2, <1>5, <4>1, <4>2 DEF Reached, Opened, AtBroker, AtClient
    <3>3. CASE linked # "connecting"
      BY <3>3 DEF Reached
    <3> QED BY <3>1, <3>2, <3>3
  <2>2. n \in DOMAIN topics /\ id = topics[n] /\ sleepQue = << >> /\ ~(Registering /\ n = cur.name)
    BY <1>1 DEF table, task, Registering
  <2>3. Covered(id, Len(toClient) + 1)
    BY <2>1, <2>2 DEF FirstInv, FirstKnown, Known
  <2>4. PICK l : l = Len(toClient)
    OBVIOUS
  <2>5. Covered(id, l)'
    <3>1. l \in Nat \ {0} /\ l = Len(toClient) /\ Covered(id, l + 1)
      BY <1>3, <2>3, <2>4
    <3> QED BY <1>0, <3>1, CoveredTaken
  <2>6. Len(toClient') + 1 = l
    BY <1>2, <1>3, <2>4
  <2> QED BY <2>5, <2>6 DEF Known, Covered
<1>9. NoneSaved'
  BY <1>1, <1>6 DEF FirstInv, NoneSaved
<1>10. Answering'
  <2>1. CASE AtClient(1)
    BY <1>1, <1>3, <1>4, <2>1 DEF Answering, OneConnect
  <2>2. CASE ~AtClient(1)
    <3>1. ASSUME NEW i \in DOMAIN toClient, AtClient(i)
          PROVE  \E j \in DOMAIN r : r[j].type = "CONNACK"
      <4>1. i # 1
        BY <2>2, <3>1
      <4>2. i - 1 \in DOMAIN r /\ r[i - 1] = toClient[i]
        BY <1>3, <4>1
      <4> QED BY <3>1, <4>2 DEF AtClient
    <3> QED BY <1>1, <1>2, <1>4, <1>6, <2>2, <3>1 DEF FirstInv, Answering, AtClient
  <2> QED BY <2>1, <2>2
<1>11. AskedFor'
  <2>1. ASSUME NEW k \in DOMAIN r, Valid(k)', r[k].type = "REGACK" PROVE r[k].mid \in DOMAIN asked
    <3>1. Valid(k + 1)
      BY <1>0, <1>5, <2>1, ValidTaken
    <3> QED BY <1>0, <1>5, <2>1, <3>1 DEF AskedFor
  <2>2. \A e \in Range(gwQue') : e \in Range(gwQue) \/ (~IsConnect(e) /\ ~OfSession(e))
    <3>1. ASSUME NEW e, gwQue' = Append(gwQue, e), ~IsConnect(e), ~OfSession(e)
          PROVE  \A x \in Range(gwQue') : x \in Range(gwQue) \/ (~IsConnect(x) /\ ~OfSession(x))
      BY <1>0, <3>1, PostedUp
    <3> QED BY <1>6, <3>1
  <2>3. \A e \in Range(gwQue') : IsConnect(e) => e.msg.clean
    BY <1>0, <2>2 DEF AskedFor
  <2>4. ASSUME linked' # "connecting", NEW e \in Range(gwQue'), e.from = "client", e.msg.type = "REGISTER"
        PROVE  e.msg.mid \in DOMAIN asked
    <3>1. e \in Range(gwQue) /\ OfSession(e)
      BY <2>2, <2>4 DEF OfSession
    <3>2. CASE linked # "connecting"
      BY <1>0, <2>4, <3>1, <3>2 DEF AskedFor
    <3>3. CASE linked = "connecting"
      <4>1. AtClient(1)
        BY <1>1, <1>4, <2>4, <3>3
      <4>2. PICK i \in DOMAIN gwQue : IsConnect(gwQue[i])
        BY <3>1, <3>3 DEF Heralded, Range
      <4> QED BY <1>3, <4>1, <4>2 DEF OneConnect, AtGateway
    <3> QED BY <3>2, <3>3
  <2> QED BY <1>1, <1>2, <2>1, <2>3, <2>4 DEF AskedFor, Valid, AtClient
<1> QED BY <1>7, <1>8, <1>9, <1>10, <1>11 DEF FirstInv

(* The broker takes a message or publishes one. *)
LEMMA BrokerAdds ==
    ASSUME Queues, Broker
    PROVE  /\ UNCHANGED <<toClient, client, history, table, task, sleepQue>>
           /\ status' = "Active" => status = "Active"
           /\ Opened' => Opened
           /\ \A e \in Range(gwQue') : e \in Range(gwQue) \/ e.from = "broker"
<1>1. UNCHANGED <<toClient, client, history, table, task, sleepQue>> /\ (status' = "Active" => status = "Active")
  BY DEF Broker, BrokerTakes, BrokerPublish
<1>2. ASSUME NEW e, gwQue' = Append(gwQue, e), e.from = "broker", IsConnack(e) => Opened,
             toBroker' = toBroker \/ (toBroker # << >> /\ toBroker' = Tail(toBroker))
      PROVE  (Opened' => Opened) /\ \A x \in Range(gwQue') : x \in Range(gwQue) \/ x.from = "broker"
  <2>1. \A i \in DOMAIN toBroker' : AtBroker(i)' => \E j \in DOMAIN toBroker : AtBroker(j)
    BY <1>2, ShrunkBroker DEF AtBroker
  <2>2. \A i \in DOMAIN gwQue' : IsConnack(gwQue'[i]) => Opened
    BY <1>2, GrownGateway DEF Opened
  <2>3. Opened' => Opened
    BY <1>1, <2>1, <2>2 DEF Opened, AtClient
  <2> QED BY <1>2, <2>3, PostedUp
<1>3. ASSUME NEW n \in Names, BrokerPublish(n)
      PROVE  (Opened' => Opened) /\ \A x \in Range(gwQue') : x \in Range(gwQue) \/ x.from = "broker"
  <2>1. PICK e : /\ gwQue' = Append(gwQue, e) /\ e.from = "broker" /\ e.msg.type = "PUBLISH"
                 /\ UNCHANGED toBroker
    BY <1>3 DEF BrokerPublish, BrokerPosts
  <2> QED BY <1>2, <2>1 DEF IsConnack
<1>4. ASSUME NEW ok \in BOOLEAN, BrokerTakes(ok)
      PROVE  (Opened' => Opened) /\ \A x \in Range(gwQue') : x \in Range(gwQue) \/ x.from = "broker"
  <2>1. toBroker # << >> /\ toBroker' = Tail(toBroker)
    BY <1>4 DEF BrokerTakes
  <2>2. /\ \A i \in DOMAIN toBroker' : /\ i \in Nat /\ i + 1 \in DOMAIN toBroker /\ i + 1 # 1
                                       /\ toBroker'[i] = toBroker[i + 1]
        /\ 1 \in DOMAIN toBroker /\ toBroker[1] = Head(toBroker)
    BY <2>1, ShrunkBroker
  <2>3. CASE UNCHANGED gwQue
    BY <1>1, <2>2, <2>3 DEF Opened, AtBroker, AtClient
  <2>4. CASE ~UNCHANGED gwQue
    <3>1. PICK m \in BrokerReply(Head(toBroker), ok) : BrokerPosts(m)
      BY <1>4, <2>4 DEF BrokerTakes
    <3>2. PICK e : e = [from |-> "broker", msg |-> m]
      OBVIOUS
    <3>3. gwQue' = Append(gwQue, e) /\ e.from = "broker"
      BY <3>1, <3>2 DEF BrokerPosts
    <3>4. m.type = "CONNACK" => Head(toBroker).type = "CONNECT"
      BY <3>1 DEF BrokerReply
    <3>5. IsConnack(e) => Opened
      BY <2>2, <3>2, <3>4 DEF IsConnack, Opened, AtBroker
    <3> QED BY <1>2, <2>1, <3>3, <3>5
  <2> QED BY <2>3, <2>4
<1> QED BY <1>1, <1>3, <1>4 DEF Broker

LEMMA FirstBroker ==
    ASSUME Queues, FirstInv, Broker
    PROVE  FirstInv'
<1>1. /\ UNCHANGED <<toClient, client, history, table, task, sleepQue>>
      /\ status' = "Active" => status = "Active"
      /\ Opened' => Opened
      /\ \A e \in Range(gwQue') : e \in Range(gwQue) \/ e.from = "broker"
  BY BrokerAdds
<1>2. /\ UNCHANGED <<toClient, linked, told, asked, subscribed, untold, topics, at, cur, sleepQue>>
  BY <1>1 DEF client, history, table, task
<1>3. \A k : Valid(k)' <=> Valid(k)
  BY <1>2 DEF Valid, AtClient
<1>4. \A id, k : Covered(id, k)' <=> Covered(id, k)
  BY <1>2 DEF Covered, Valid, AtClient
<1>5. \A id : Known(id)' <=> Known(id)
  BY <1>2 DEF Known, Covered, Valid, AtClient
<1>6. FirstSent'
  <2> SUFFICES ASSUME NEW k \in DOMAIN toClient, Normally(toClient[k]), Valid(k), NEW id, id = toClient[k].id
               PROVE  Covered(id, k)'
    BY <1>2, <1>3 DEF FirstSent, Covered, Valid, AtClient
  <2>1. Covered(id, k)
    BY DEF FirstInv, FirstSent
  <2> QED BY <1>4, <2>1
<1>7. FirstKnown'
  <2> SUFFICES ASSUME Reached, sleepQue = << >>, NEW n \in DOMAIN topics, ~(Registering /\ n = cur.name),
                      NEW id, id = topics[n]
               PROVE  Known(id)'
    BY <1>1, <1>2 DEF FirstKnown, Reached, Registering, Known, Covered, Valid, AtClient
  <2>1. Known(id)
    BY DEF FirstInv, FirstKnown
  <2> QED BY <1>5, <2>1
<1>8. NoneSaved' /\ Answering'
  BY <1>1, <1>2 DEF FirstInv, NoneSaved, Answering, AtClient
<1>9. AskedFor'
  BY <1>1, <1>2, <1>3 DEF FirstInv, AskedFor, IsConnect, Valid, AtClient
<1> QED BY <1>6, <1>7, <1>8, <1>9 DEF FirstInv

(* The publication at hand keeps its topic: the control task does nothing  *)
(* else until it has been sent or saved.                                   *)
LEMMA CurNamedStep ==
    ASSUME CurNamed, [Next]_vars
    PROVE  CurNamed'
<1>1. CASE UNCHANGED <<table, task>>
  BY <1>1 DEF CurNamed, Registering, table, task
<1>2. CASE at = "idle" /\ UNCHANGED task
  BY <1>2 DEF CurNamed, Registering, task
<1>3. CASE Connack \/ Flush
  BY <1>3 DEF Connack, Flush, CurNamed, Registering, table, task
<1>4. CASE PublishTopic
  <2>1. PICK n : n = Msg.name
    OBVIOUS
  <2>2. PICK i \in IF n \in Shorts THEN {0, Wrap - 1} ELSE {TopicId(n)} :
           IF i = 0
           THEN /\ Add(n)
                /\ cur' = [name |-> n, id |-> topics'[n], mid |-> Msg.mid, short |-> n \in Shorts]
           ELSE /\ UNCHANGED table
                /\ at' = "publish"
                /\ cur' = [name |-> n, id |-> i, mid |-> Msg.mid, short |-> n \in Shorts]
    BY <1>4, <2>1 DEF PublishTopic
  <2>3. CASE i = 0
    <3>1. n \in DOMAIN topics'
      BY <2>2, <2>3 DEF Add, table
    <3>2. cur'.name = n /\ cur'.id = topics'[n]
      BY <2>2, <2>3
    <3> QED BY <3>1, <3>2 DEF CurNamed
  <2>4. CASE i # 0
    <3>a. cur' = [name |-> n, id |-> i, mid |-> Msg.mid, short |-> n \in Shorts]
      BY <2>2, <2>4
    <3>b. cur'.name = n /\ cur'.id = i /\ at' = "publish" /\ UNCHANGED table
      BY <2>2, <2>4, <3>a
    <3>c. cur'.short = (n \in Shorts)
      BY <3>a, Zenon
    <3>1. cur'.name = n /\ cur'.id = i /\ at' = "publish" /\ (cur'.short <=> n \in Shorts) /\ UNCHANGED table
      BY <3>b, <3>c
    <3>2. n \notin Shorts => n \in DOMAIN topics /\ topics[n] = i
      BY <2>2, <2>4 DEF TopicId
    <3> QED BY <3>1, <3>2 DEF CurNamed, Registering, table
  <2> QED BY <2>3, <2>4
<1>5. CASE RegisterAsleep \/ RegisterActive \/ PublishAsleep \/ PublishActive
  BY <1>5 DEF RegisterAsleep, RegisterActive, PublishAsleep, PublishActive, CurNamed, Registering, table
<1>6. CASE SnPublishForward \/ SnPublishReject \/ SnSubscribe \/ SnSubscribeHere \/ SnUnsubscribe
           \/ SnUnsubscribeHere \/ SnConnect \/ SnDisconnect \/ SnRegister \/ Puback \/ Suback
  BY <1>2, <1>6 DEF SnPublishForward, SnPublishReject, SnSubscribe, SnSubscribeHere, SnUnsubscribe,
                    SnUnsubscribeHere, SnConnect, SnDisconnect, SnRegister, Puback, Suback, Take
<1>7. CASE (\E t \in {"PUBACK", "PUBREC", "PUBREL", "PUBCOMP", "PINGREQ"} : SnPass(t))
           \/ (\E t \in {"PUBREC", "PUBREL", "PUBCOMP", "UNSUBACK", "PINGRESP"} : Pass(t))
  BY <1>2, <1>7 DEF SnPass, Pass, Take
<1>8. CASE Client
  BY <1>1, <1>8 DEF Client, ClientConnect, ClientDisconnect, ClientRegister, ClientSubscribe, ClientUnsubscribe,
                    ClientAsks, ClientPublish, ClientRepeat, ClientPing, Unchanged4Client
<1>9. CASE ClientTakes \/ Broker \/ UNCHANGED vars
  BY <1>1, <1>9 DEF ClientTakes, Broker, BrokerTakes, BrokerPublish, vars
<1> QED BY <1>3, <1>4, <1>5, <1>6, <1>7, <1>8, <1>9 DEF Next, GatewayControlTask

LEMMA FirstInit == Init => FirstIds /\ CurNamed
<1> SUFFICES ASSUME Init PROVE FirstInv /\ CurNamed
  BY DEF FirstIds
<1>1. Range(<< >>) = {} /\ DOMAIN Empty = {} /\ DOMAIN << >> = {}
  BY DEF Range, Empty
<1>2. FirstSent /\ FirstKnown /\ NoneSaved /\ Answering /\ AskedFor
  BY <1>1 DEF Init, FirstSent, FirstKnown, NoneSaved, Answering, AskedFor
<1>3. CurNamed
  BY DEF Init, CurNamed, Registering
<1> QED BY <1>2, <1>3 DEF FirstInv

LEMMA FirstStep ==
    ASSUME RelayInv, FirstIds, CurNamed, [Next]_vars
    PROVE  FirstIds'
<1>0. Queues
  BY DEF RelayInv, Typed
<1>1. Orderly' => Orderly
  <2>1. CASE GatewayControlTask
    BY <1>0, <2>1, TaskStep DEF Orderly, client
  <2>2. CASE Client \/ ClientTakes \/ Broker \/ UNCHANGED vars
    BY <2>2 DEF Client, ClientConnect, ClientDisconnect, ClientRegister, ClientSubscribe, ClientUnsubscribe,
                ClientAsks, ClientPublish, ClientRepeat, ClientPing, ClientTakes, Broker, BrokerTakes,
                BrokerPublish, vars, client, Orderly
  <2> QED BY <2>1, <2>2 DEF Next
<1>2. at = "flushing" => at' = "flushing"
  <2>1. CASE GatewayControlTask
    BY <1>0, <2>1, TaskStep
  <2>2. CASE Client \/ ClientTakes \/ Broker \/ UNCHANGED vars
    BY <2>2 DEF Client, ClientConnect, ClientDisconnect, ClientRegister, ClientSubscribe, ClientUnsubscribe,
                ClientAsks, ClientPublish, ClientRepeat, ClientPing, Unchanged4Client, ClientTakes, Broker,
                BrokerTakes, BrokerPublish, vars, task
  <2> QED BY <2>1, <2>2 DEF Next
<1> SUFFICES ASSUME Orderly', at' # "flushing" PROVE FirstInv'
  BY DEF FirstIds
<1>3. Typed /\ OneConnect /\ Heralded /\ FirstInv /\ at # "flushing"
  BY <1>1, <1>2 DEF RelayInv, Dialogue, FirstIds, Orderly, Faithful
<1>4. CASE UNCHANGED vars
  <2>1. UNCHANGED <<status, topics, sleepQue, gwQue, at, cur, toBroker, toClient, linked, told, asked,
                    subscribed, untold>>
    BY <1>4 DEF vars, table, task, client, history
  <2> QED BY <1>3, <2>1 DEF FirstInv, FirstSent, FirstKnown, NoneSaved, Answering, AskedFor, Valid, Covered, Known,
                            Reached, Registering, Opened, AtBroker, AtClient
<1> QED BY <1>0, <1>3, <1>4, FirstTask, FirstClient, FirstTakes, FirstBroker DEF Next

(* A client can make something of each PUBLISH it is sent: its topic id    *)
(* was told by a REGISTER or REGACK sent before it, or the client has      *)
(* asked to subscribe to the topic, or the REGISTER was due while it was   *)
(* neither awake nor sleeping; for a client whose sessions are all clean,  *)
(* as long as no saved messages are sent again and again.                  *)
THEOREM RegisteredFirstCorrect == Spec => []RegisteredFirst
<1>1. Init => FirstIds /\ CurNamed
  BY FirstInit
<1>2. RelayInv /\ FirstIds /\ CurNamed /\ [Next]_vars => FirstIds' /\ CurNamed'
  BY FirstStep, CurNamedStep
<1>3. FirstIds => RegisteredFirst
  <2> SUFFICES ASSUME FirstIds, NEW i \in DOMAIN toClient, toClient[i].type = "PUBLISH", toClient[i].kind = "NORMAL",
                      linked = "yes", at # "flushing", Orderly
               PROVE  \/ toClient[i].id \in ToldBefore(i) \cup untold
                      \/ \E n \in subscribed \cap DOMAIN topics : topics[n] = toClient[i].id
    BY DEF RegisteredFirst, Orderly
  <2>1. Covered(toClient[i].id, i)
    BY DEF FirstIds, FirstInv, FirstSent, Valid, Normally
  <2>2. PICK id : id = toClient[i].id
    OBVIOUS
  <2>3. CASE \E t \in told : t[1] = id
    BY <2>2, <2>3 DEF ToldBefore
  <2>4. CASE \E j \in 1 .. (i - 1) : Announces(toClient[j]) /\ toClient[j].id = id
    BY <2>2, <2>4 DEF ToldBefore, Announces
  <2> QED BY <2>1, <2>2, <2>3, <2>4 DEF Covered
<1> QED BY <1>1, <1>2, <1>3, RelayInvariant, PTL DEF Spec
=============================================================================
