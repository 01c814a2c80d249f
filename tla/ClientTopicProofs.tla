-------------------------- MODULE ClientTopicProofs -------------------------
(***************************************************************************)
(* NeverMisrouted and Qos2Once of ClientNode, for any topics and bounds.   *)
(* Both need to know what is under way: MsgsInv relates each message to    *)
(* the element of a list that it is about, OrderInv keeps the messages of  *)
(* two connections apart, RightInv says whose topic ids are those of the   *)
(* gateway, and OnceInv what it holds of the publications of QoS 2.        *)
(***************************************************************************)
EXTENDS ClientNodeProofs

-----------------------------------------------------------------------------
(* Every step: an element of a list was there with the same id and topic,  *)
(* or has an id that was not handed out before.                            *)
Kin(x, y) == x.id = y.id /\ x.name = y.name /\ x.qos = y.qos
PubsGrow == \A x \in Range(pubs') : x.id > nextMsgId \/ \E y \in Range(pubs) : Kin(x, y)
RegsGrow == \A x \in Range(regs') : x.id > nextMsgId \/ \E y \in Range(regs) : Alike(x, y)
SubsGrow == \A x \in Range(subs') : x.id > nextMsgId \/ \E y \in Range(subs) : Alike(x, y)
ListsGrow ==
    /\ nextMsgId \in Nat /\ nextMsgId' \in Nat /\ nextMsgId' >= nextMsgId
    /\ PubsGrow /\ RegsGrow /\ SubsGrow

LEMMA QuietGrow ==
    ASSUME TypeInv
    PROVE  /\ nextMsgId \in Nat /\ (UNCHANGED nextMsgId => nextMsgId' \in Nat /\ nextMsgId' >= nextMsgId)
           /\ PubsQuiet => PubsGrow
           /\ RegsQuiet => RegsGrow
           /\ SubsQuiet => SubsGrow
BY DEF TypeInv, ListsOK, PubsQuiet, RegsQuiet, SubsQuiet, PubsGrow, RegsGrow, SubsGrow, Same, Kin

LEMMA SameGrow ==
    ASSUME TypeInv
    PROVE  /\ UNCHANGED pubs => PubsGrow
           /\ UNCHANGED regs => RegsGrow
           /\ UNCHANGED subs => SubsGrow
BY UnchangedQuiet, QuietGrow

LEMMA RegisterTopicGrow ==
    ASSUME TypeInv, NEW name \in Names, NEW n \in Nat, n > nextMsgId, RegisterTopic(name, n)
    PROVE  RegsGrow /\ nextMsgId' \in Nat /\ nextMsgId' >= nextMsgId
<1>1. /\ nextMsgId' \in {n - 1, n}
      /\ \A x \in Range(regs') : x \in Range(regs) \/ (x.id = n /\ x.name = name)
  BY RegisterTopicEffect
<1>2. nextMsgId \in Nat
  BY DEF TypeInv, ListsOK
<1> QED BY <1>1, <1>2 DEF RegsGrow, Alike

LEMMA AppPublishGrow ==
    ASSUME TypeInv, NEW name \in config.names, NEW qos \in 0..2, AppPublish(name, qos)
    PROVE  ListsGrow
<1>1. /\ nextMsgId' \in Nat /\ nextMsgId \in Nat /\ nextMsgId' > nextMsgId
      /\ \A x \in Range(pubs') : x \in Range(pubs) \/ x.id = nextMsgId + 1
      /\ \A x \in Range(regs') : x \in Range(regs) \/ x.id = nextMsgId + 2
  BY AppPublishEffect
<1>2. UNCHANGED subs
  BY DEF AppPublish
<1>3. PubsGrow
  BY <1>1 DEF PubsGrow, Kin
<1>4. RegsGrow
  BY <1>1 DEF RegsGrow, Alike
<1> QED BY <1>1, <1>2, <1>3, <1>4, SameGrow DEF ListsGrow

(* onConnect(): the subscriptions of the list have new ids, and so have    *)
(* their SUBSCRIBEs, in the same order.                                    *)
LEMMA ConnackEffect ==
    ASSUME TypeInv, Connack
    PROVE  /\ nextMsgId \in Nat /\ nextMsgId' \in Nat /\ nextMsgId' >= nextMsgId
           /\ \A x \in Range(subs') :
                \/ x \in Range(subs)
                \/ x.id > nextMsgId /\ \E k \in DOMAIN Subs : x.id = nextMsgId + k /\ x.name = Subs[k]
           /\ \/ UNCHANGED toGw
              \/ \E new : /\ toGw' = toGw \o new /\ new \in Seq(Range(new))
                          /\ \A m \in Range(new) : \E k \in DOMAIN Subs :
                                m = Subscribe(nextMsgId + k, Subs[k]) /\ nextMsgId + k > nextMsgId
           /\ \A k, l \in DOMAIN Subs : nextMsgId + k = nextMsgId + l => k = l
<1> DEFINE n == Len(Subs)
<1> DEFINE more == [k \in DOMAIN Subs |-> Subscription(k)]
<1> DEFINE msgs == [k \in DOMAIN Subs |-> Subscribe(nextMsgId + k, Subs[k])]
<1>1. /\ n \in Nat /\ DOMAIN Subs = 1 .. n /\ nextMsgId \in Nat /\ nextMsgId' = nextMsgId + n
  BY SubsSequence DEF TypeInv, ListsOK, Connack, OnConnect
<1>2. \A k \in 1 .. n : Subscription(k).id = nextMsgId + k /\ Subscription(k).name = Subs[k]
  BY DEF Subscription
<1> HIDE DEF n
<1>3. \A x \in Range(subs') :
        \/ x \in Range(subs)
        \/ x.id > nextMsgId /\ \E k \in DOMAIN Subs : x.id = nextMsgId + k /\ x.name = Subs[k]
  <2> DEFINE S == {Subscription(k) : k \in 1 .. n}
  <2>1. more \in Seq(S) /\ subs \in Seq(Sub)
    <3>1. \A k \in 1 .. n : Subscription(k) \in S
      OBVIOUS
    <3> HIDE DEF S
    <3>2. more \in [1 .. n -> S]
      BY <1>1, <3>1
    <3> HIDE DEF more
    <3> QED BY <1>1, <3>2 DEF TypeInv, ListsOK
  <2>2. /\ more \in Seq(Range(more)) /\ Range(more) \subseteq S
        /\ subs \in Seq(Range(subs))
    <3> HIDE DEF more, S
    <3> QED BY <2>1, OfItsRange
  <2>3. subs' = subs \o more
    BY DEF Connack, OnConnect
  <2> HIDE DEF more
  <2>4. PICK new : new = subs'
    OBVIOUS
  <2>5. Range(new) = Range(subs) \cup Range(more)
    BY <2>2, <2>3, <2>4, ConcatRange
  <2>6. ASSUME NEW x \in Range(more)
        PROVE  x.id > nextMsgId /\ \E k \in DOMAIN Subs : x.id = nextMsgId + k /\ x.name = Subs[k]
    <3>1. PICK k \in 1 .. n : x = Subscription(k)
      BY <2>2
    <3>2. x.id = nextMsgId + k /\ x.name = Subs[k] /\ nextMsgId + k > nextMsgId
      BY <1>1, <1>2, <3>1
    <3> QED BY <1>1, <3>2
  <2> QED BY <2>4, <2>5, <2>6
<1>4. \/ UNCHANGED toGw
      \/ \E new : /\ toGw' = toGw \o new /\ new \in Seq(Range(new))
                  /\ \A m \in Range(new) : \E k \in DOMAIN Subs :
                        m = Subscribe(nextMsgId + k, Subs[k]) /\ nextMsgId + k > nextMsgId
  <2>1. UNCHANGED toGw \/ toGw' = toGw \o msgs
    BY DEF Connack, OnConnect
  <2>2. msgs \in Seq({Subscribe(nextMsgId + k, Subs[k]) : k \in 1 .. n})
    BY <1>1
  <2> HIDE DEF msgs
  <2>3. /\ msgs \in Seq(Range(msgs))
        /\ Range(msgs) \subseteq {Subscribe(nextMsgId + k, Subs[k]) : k \in 1 .. n}
    BY <2>2, OfItsRange
  <2>4. ASSUME NEW m \in Range(msgs)
        PROVE  \E k \in DOMAIN Subs : m = Subscribe(nextMsgId + k, Subs[k]) /\ nextMsgId + k > nextMsgId
    <3>1. PICK k \in 1 .. n : m = Subscribe(nextMsgId + k, Subs[k])
      BY <2>3
    <3>2. nextMsgId + k > nextMsgId
      BY <1>1
    <3> QED BY <1>1, <3>1, <3>2
  <2> QED BY <2>1, <2>3, <2>4
<1>5. nextMsgId' \in Nat /\ nextMsgId' >= nextMsgId
  BY <1>1
<1>6. \A k, l \in DOMAIN Subs : nextMsgId + k = nextMsgId + l => k = l
  BY <1>1
<1> QED BY <1>1, <1>3, <1>4, <1>5, <1>6

(* A subscription is sent again, given up, or taken off the list. *)
LEMMA SubscribeExpiredQuiet ==
    ASSUME TypeInv, NEW i \in DOMAIN subs, SubscribeExpired(i)
    PROVE  SubsQuiet
<1> DEFINE e == subs[i]
<1>1. e \in Sub /\ e \in Range(subs) /\ e.id \in Ids(subs)
  BY SubThere
<1>2. CASE e.retry >= 0
  <2> DEFINE f == [e EXCEPT !.retry = @ - 1]
  <2>1. subs' = [subs EXCEPT ![i] = f]
    BY <1>2 DEF SubscribeExpired, TypeInv, ListsOK
  <2>2. f.id = e.id /\ f.name = e.name
    BY <1>1 DEF Sub
  <2> HIDE DEF f, e
  <2>3. PICK new : new = subs'
    OBVIOUS
  <2>4. /\ DOMAIN new = DOMAIN subs /\ new[i] = f
        /\ \A j \in DOMAIN subs : j # i => new[j] = subs[j]
    BY <2>1, <2>3 DEF TypeInv, ListsOK
  <2>5. \A j \in DOMAIN subs : Alike(new[j], subs[j])
    BY <2>2, <2>4 DEF Alike, e
  <2> QED BY <2>3, <2>4, <2>5 DEF SubsQuiet, Range
<1>3. CASE ~(e.retry >= 0)
  <2>1. subs' = subs \/ subs' = Removed(subs, e.id)
    BY <1>3 DEF SubscribeExpired
  <2> HIDE DEF e
  <2> QED BY <1>1, <2>1, SubDoneQuiet
<1> QED BY <1>2, <1>3

LEMMA RegisterExpiredQuiet ==
    ASSUME TypeInv, NEW i \in DOMAIN regs, RegisterExpired(i)
    PROVE  RegsQuiet
<1>1. regs[i].id \in Ids(regs)
  BY RegThere
<1>2. regs' = regs \/ regs' = Removed(regs, regs[i].id)
  BY DEF RegisterExpired
<1> QED BY <1>1, <1>2, RegDoneQuiet

LEMMA SubackQuiet == TypeInv /\ Suback => SubsQuiet
<1> SUFFICES ASSUME TypeInv, Suback PROVE SubsQuiet
  OBVIOUS
<1>1. UNCHANGED subs \/ (Msg.id \in Ids(subs) /\ (subs' = subs \/ subs' = Removed(subs, Msg.id)))
  BY DEF Suback
<1> QED BY <1>1, UnchangedQuiet, SubDoneQuiet

LEMMA ReceiveGrow == TypeInv /\ Receive => ListsGrow
<1> SUFFICES ASSUME TypeInv, Receive PROVE ListsGrow
  OBVIOUS
<1>1. CASE Puback
  <2>1. UNCHANGED subs
    BY <1>1 DEF Puback
  <2>2. CASE UNCHANGED <<nextMsgId, regs>> /\ PubsQuiet
    BY <2>1, <2>2, QuietGrow, SameGrow DEF ListsGrow
  <2>3. CASE ~(UNCHANGED <<nextMsgId, regs>> /\ PubsQuiet)
    <3>1. PICK e \in Range(pubs) :
             /\ e.name \in Names
             /\ RegisterTopic(e.name, nextMsgId + 1)
             /\ \A x \in Range(pubs') :
                  \/ x.id # e.id /\ \E y \in Range(pubs) : Same(x, y)
                  \/ x.id = e.id /\ x.name = e.name /\ x.qos = e.qos
      BY <1>1, <2>3, PubackEffect
    <3>2. PubsGrow
      BY <3>1 DEF PubsGrow, Same, Kin
    <3>3. RegsGrow /\ nextMsgId \in Nat /\ nextMsgId' \in Nat /\ nextMsgId' >= nextMsgId
      <4> DEFINE n == nextMsgId + 1
      <4>1. nextMsgId \in Nat /\ n \in Nat /\ n > nextMsgId /\ RegisterTopic(e.name, n)
        BY <3>1 DEF TypeInv, ListsOK
      <4> HIDE DEF n
      <4> QED BY <3>1, <4>1, RegisterTopicGrow
    <3> QED BY <2>1, <3>2, <3>3, SameGrow DEF ListsGrow
  <2> QED BY <2>2, <2>3
<1>2. CASE Pubrec
  <2>1. UNCHANGED <<nextMsgId, regs, subs>>
    BY <1>2 DEF Pubrec
  <2>2. PubsGrow
    <3>1. UNCHANGED pubs
          \/ \E e \in Range(pubs) :
               \A x \in Range(pubs') :
                  \/ \E y \in Range(pubs) : Same(x, y)
                  \/ x.id = e.id /\ x.name = e.name /\ x.qos = e.qos
      BY <1>2, PubrecEffect
    <3> QED BY <3>1, SameGrow DEF PubsGrow, Same, Kin
  <2> QED BY <2>1, <2>2, QuietGrow, SameGrow DEF ListsGrow
<1>3. CASE Pubcomp
  <2>1. UNCHANGED <<nextMsgId, regs, subs>>
    BY <1>3 DEF Pubcomp
  <2> QED BY <1>3, <2>1, PubcompQuiet, QuietGrow, SameGrow DEF ListsGrow
<1>4. CASE Regack
  <2>1. UNCHANGED <<nextMsgId, subs>>
    BY <1>4 DEF Regack
  <2>2. PubsGrow /\ RegsGrow
    <3>1. CASE UNCHANGED <<pubs, regs>>
      BY <3>1, SameGrow
    <3>2. CASE ~UNCHANGED <<pubs, regs>>
      <4>1. /\ RegsQuiet
            /\ UNCHANGED pubs
               \/ \E e \in Range(pubs) :
                    \A x \in Range(pubs') :
                       \/ \E y \in Range(pubs) : Same(x, y)
                       \/ x.id = e.id /\ x.name = e.name /\ x.qos = e.qos
        BY <1>4, <3>2, RegackEffect
      <4>2. PubsGrow
        BY <4>1, SameGrow DEF PubsGrow, Same, Kin
      <4> QED BY <4>1, <4>2, QuietGrow
    <3> QED BY <3>1, <3>2
  <2> QED BY <2>1, <2>2, QuietGrow, SameGrow DEF ListsGrow
<1>5. CASE Suback
  <2>1. UNCHANGED <<nextMsgId, pubs, regs>>
    BY <1>5 DEF Suback
  <2> QED BY <1>5, <2>1, SubackQuiet, QuietGrow, SameGrow DEF ListsGrow
<1>6. CASE TakeOther
  <2>1. UNCHANGED <<nextMsgId, pubs, regs, subs>>
    BY <1>6 DEF TakeOther, lists
  <2> QED BY <2>1, QuietGrow, SameGrow DEF ListsGrow
<1> QED BY <1>1, <1>2, <1>3, <1>4, <1>5, <1>6 DEF Receive

LEMMA ResumeGrow == TypeInv /\ Resume => ListsGrow
<1> SUFFICES ASSUME TypeInv, Resume PROVE ListsGrow
  OBVIOUS
<1>1. UNCHANGED <<nextMsgId, subs>>
  BY DEF Resume, SendPublish, SendRegister, Reconnected, Unchanged4Job
<1>2. CASE SendPublish
  <2>1. PubsGrow
    <3>1. PICK e \in Range(pubs) :
             \A x \in Range(pubs') :
                  \/ \E y \in Range(pubs) : Same(x, y)
                  \/ x.id = e.id /\ x.name = e.name /\ x.qos = e.qos
      BY <1>2, SendPublishEffect
    <3> QED BY <3>1 DEF PubsGrow, Same, Kin
  <2>2. UNCHANGED regs
    BY <1>2 DEF SendPublish
  <2> QED BY <1>1, <2>1, <2>2, QuietGrow, SameGrow DEF ListsGrow
<1>3. CASE SendRegister
  <2>1. UNCHANGED pubs
    BY <1>3 DEF SendRegister
  <2>2. RegsQuiet
    BY <1>3, SendRegisterNames
  <2> QED BY <1>1, <2>1, <2>2, QuietGrow, SameGrow DEF ListsGrow
<1>4. CASE Reconnected
  <2>1. UNCHANGED regs
    BY <1>4 DEF Reconnected
  <2> QED BY <1>1, <1>4, <2>1, ReconnectedQuiet, QuietGrow, SameGrow DEF ListsGrow
<1> QED BY <1>2, <1>3, <1>4 DEF Resume

LEMMA TimersGrow == TypeInv /\ Timers => ListsGrow
<1> SUFFICES ASSUME TypeInv, Timers PROVE ListsGrow
  OBVIOUS
<1>1. UNCHANGED nextMsgId
  BY DEF Timers, PingRequired, PingExpired, AdvertiseExpired, RegisterExpired,
         SubscribeExpired, PublishExpired
<1>2. CASE PingRequired \/ PingExpired \/ AdvertiseExpired
  <2>1. UNCHANGED <<pubs, regs, subs>>
    BY <1>2 DEF PingRequired, PingExpired, AdvertiseExpired, lists
  <2> QED BY <1>1, <2>1, QuietGrow, SameGrow DEF ListsGrow
<1>3. ASSUME NEW i \in DOMAIN regs, RegisterExpired(i) PROVE ListsGrow
  <2>1. UNCHANGED <<pubs, subs>>
    BY <1>3 DEF RegisterExpired
  <2>2. RegsQuiet
    BY <1>3, RegisterExpiredQuiet
  <2> QED BY <1>1, <2>1, <2>2, QuietGrow, SameGrow DEF ListsGrow
<1>4. ASSUME NEW i \in DOMAIN subs, SubscribeExpired(i) PROVE ListsGrow
  <2>1. UNCHANGED <<pubs, regs>>
    BY <1>4 DEF SubscribeExpired
  <2>2. SubsQuiet
    BY <1>4, SubscribeExpiredQuiet
  <2> QED BY <1>1, <2>1, <2>2, QuietGrow, SameGrow DEF ListsGrow
<1>5. ASSUME NEW i \in DOMAIN pubs, PublishExpired(i) PROVE ListsGrow
  <2>1. UNCHANGED <<regs, subs>>
    BY <1>5 DEF PublishExpired
  <2>2. PubsQuiet
    BY <1>5, PublishExpiredQuiet
  <2> QED BY <1>1, <2>1, <2>2, QuietGrow, SameGrow DEF ListsGrow
<1> QED BY <1>2, <1>3, <1>4, <1>5 DEF Timers

LEMMA ListsStep == TypeInv /\ [Next]_vars => ListsGrow
<1> SUFFICES ASSUME TypeInv, [Next]_vars PROVE ListsGrow
  OBVIOUS
<1>1. CASE Application
  <2>1. CASE \E name \in config.names, qos \in config.qos : AppPublish(name, qos)
    <3>1. config.qos \subseteq 0..2
      BY DEF TypeInv, ProxyOK, Config
    <3> QED BY <2>1, <3>1, AppPublishGrow
  <2>2. CASE \E secs \in {0, 1} : Disconnect(secs)
    <3>1. UNCHANGED <<nextMsgId, pubs, regs, subs>>
      BY <2>2 DEF Disconnect, lists
    <3> QED BY <3>1, QuietGrow, SameGrow DEF ListsGrow
  <2> QED BY <1>1, <2>1, <2>2 DEF Application
<1>2. CASE Connect
  <2>1. CASE Connack
    <3>1. UNCHANGED <<pubs, regs>>
      BY <2>1 DEF Connack
    <3>2. SubsGrow /\ nextMsgId \in Nat /\ nextMsgId' \in Nat /\ nextMsgId' >= nextMsgId
      <4>1. /\ nextMsgId \in Nat /\ nextMsgId' \in Nat /\ nextMsgId' >= nextMsgId
            /\ \A x \in Range(subs') : x \in Range(subs) \/ x.id > nextMsgId
        BY <2>1, ConnackEffect
      <4> QED BY <4>1 DEF SubsGrow, Alike
    <3> QED BY <3>1, <3>2, SameGrow DEF ListsGrow
  <2>2. CASE ConnectSearch \/ ConnectConnect \/ ConnectWill \/ ConnectTimeout \/ ConnectAnswer
    <3>1. UNCHANGED <<nextMsgId, pubs, regs, subs>>
      BY <2>2 DEF ConnectSearch, ConnectConnect, ConnectWill, ConnectTimeout, ConnectAnswer,
                  Unchanged4Connect, lists
    <3> QED BY <3>1, QuietGrow, SameGrow DEF ListsGrow
  <2> QED BY <1>2, <2>1, <2>2 DEF Connect
<1>3. CASE DisconnectAnswer \/ DisconnectTimeout \/ LeaveTasks \/ Gateway \/ GwRestart \/ UNCHANGED vars
  <2>1. UNCHANGED <<nextMsgId, pubs, regs, subs>>
    BY <1>3 DEF DisconnectAnswer, DisconnectTimeout, LeaveTasks, Gateway, GwIgnores, GwConnects,
                GwRegisters, GwRejects, GwPublishes, GwReleases, Unchanged4Gw, GwRestart, vars,
                client, lists
  <2> QED BY <2>1, QuietGrow, SameGrow DEF ListsGrow
<1>4. CASE Resume \/ Receive \/ Timers
  BY <1>4, ResumeGrow, ReceiveGrow, TimersGrow
<1> QED BY <1>1, <1>2, <1>3, <1>4 DEF Next, Client

-----------------------------------------------------------------------------
(* A message under way to the gateway is about the topic of the element    *)
(* with its id, when that is in its list still; the ids of messages and of *)
(* what came to the gateway were handed out.                               *)
UpFits(m, P, R, S, n) ==
    /\ m.type = "PUBLISH" => \A x \in P : x.id = m.id => x.name = m.name /\ x.qos = m.qos
    /\ m.type = "REGISTER" => \A x \in R : x.id = m.id => x.name = m.name
    /\ m.type = "SUBSCRIBE" => \A x \in S : x.id = m.id => x.name = m.name
    /\ m.type = "PUBREL" => m.id \in 1..n
Fits(m) == UpOK(m, nextMsgId) /\ UpFits(m, Range(pubs), Range(regs), Range(subs), nextMsgId)

MsgsInv ==
    /\ \A m \in Range(toGw) : UpFits(m, Range(pubs), Range(regs), Range(subs), nextMsgId)
    /\ \A m \in Range(toClient) : m.type \in {"REGACK", "SUBACK"} => m.id \in 1..nextMsgId
    /\ Came \subseteq 1..nextMsgId

(* A message that fits does so after any step. *)
LEMMA FitsStill ==
    ASSUME TypeInv, ListsGrow, NEW P, P = Range(pubs'), NEW R, R = Range(regs'),
           NEW S, S = Range(subs'), NEW n, n = nextMsgId', NEW m, Fits(m)
    PROVE  UpFits(m, P, R, S, n)
<1>1. /\ nextMsgId \in Nat /\ n \in Nat /\ n >= nextMsgId
      /\ \A x \in P : x.id > nextMsgId \/ \E y \in Range(pubs) : Kin(x, y)
      /\ \A x \in R : x.id > nextMsgId \/ \E y \in Range(regs) : Alike(x, y)
      /\ \A x \in S : x.id > nextMsgId \/ \E y \in Range(subs) : Alike(x, y)
  BY DEF ListsGrow, PubsGrow, RegsGrow, SubsGrow
<1>2. /\ m.type \in {"PUBLISH", "REGISTER", "SUBSCRIBE"} => m.id \in 1..nextMsgId
      /\ UpFits(m, Range(pubs), Range(regs), Range(subs), nextMsgId)
  BY DEF Fits, UpOK
<1>3. m.type \in {"PUBLISH", "REGISTER", "SUBSCRIBE"} => ~(m.id > nextMsgId)
  BY <1>1, <1>2
<1>4. m.type = "PUBLISH" => \A x \in P : x.id = m.id => x.name = m.name /\ x.qos = m.qos
  BY <1>1, <1>2, <1>3 DEF UpFits, Kin
<1>5. m.type = "REGISTER" => \A x \in R : x.id = m.id => x.name = m.name
  BY <1>1, <1>2, <1>3 DEF UpFits, Alike
<1>6. m.type = "SUBSCRIBE" => \A x \in S : x.id = m.id => x.name = m.name
  BY <1>1, <1>2, <1>3 DEF UpFits, Alike
<1>7. m.type = "PUBREL" => m.id \in 1..n
  BY <1>1, <1>2 DEF UpFits
<1> QED BY <1>4, <1>5, <1>6, <1>7 DEF UpFits

(* The answers and the publications that came keep their ids. *)
LEMMA MsgsKept ==
    ASSUME TypeInv, MsgsInv, ListsGrow,
           \A m \in Range(toGw') : m \in Range(toGw) \/ Fits(m)
             \/ UpFits(m, Range(pubs'), Range(regs'), Range(subs'), nextMsgId'),
           \A m \in Range(toClient') : m \in Range(toClient)
             \/ (m.type \in {"REGACK", "SUBACK"} => m.id \in 1..nextMsgId),
           Came' \subseteq Came \cup 1..nextMsgId
    PROVE  MsgsInv'
<1>1. PICK P, R, S, n, G, C, A : /\ P = Range(pubs') /\ R = Range(regs') /\ S = Range(subs')
                                 /\ n = nextMsgId' /\ G = Range(toGw') /\ C = Range(toClient')
                                 /\ A = Came'
  OBVIOUS
<1>2. 1..nextMsgId \subseteq 1..n
  BY <1>1 DEF ListsGrow
<1>3. \A m \in G : UpFits(m, P, R, S, n)
  <2> SUFFICES ASSUME NEW m \in G PROVE UpFits(m, P, R, S, n)
    OBVIOUS
  <2>1. CASE m \in Range(toGw)
    <3>1. Fits(m)
      BY <2>1 DEF Fits, MsgsInv, TypeInv, ToGwOK
    <3> QED BY <1>1, <3>1, FitsStill
  <2>2. CASE Fits(m)
    BY <1>1, <2>2, FitsStill
  <2>3. CASE UpFits(m, P, R, S, n)
    BY <2>3
  <2> QED BY <1>1, <2>1, <2>2, <2>3
<1>4. \A m \in C : m.type \in {"REGACK", "SUBACK"} => m.id \in 1..n
  BY <1>1, <1>2 DEF MsgsInv
<1>5. A \subseteq 1..n
  BY <1>1, <1>2 DEF MsgsInv
<1> QED BY <1>1, <1>3, <1>4, <1>5 DEF MsgsInv, UpFits

(* What is sent to the gateway: every message but those of onConnect().    *)
LEMMA SentFits ==
    ASSUME TypeInv, NEW m, Fits(m), Sent(m), nextMsgId' = nextMsgId
    PROVE  \A x \in Range(toGw') : x \in Range(toGw) \/ Fits(x)
<1>1. Range(toGw') \subseteq Range(toGw) \cup {m}
  BY SentOK DEF Fits
<1> QED BY <1>1

LEMMA PlainFits ==
    ASSUME NEW m, m.type \notin {"PUBLISH", "REGISTER", "SUBSCRIBE", "PUBREL"}
    PROVE  Fits(m)
BY DEF Fits, UpOK, UpFits

LEMMA BufPlain ==
    ASSUME TypeInv
    PROVE  buf.type \notin {"PUBLISH", "REGISTER", "SUBSCRIBE", "PUBREL"}
BY DEF TypeInv, ProxyOK

LEMMA SendPublishFits ==
    ASSUME TypeInv, SendPublish
    PROVE  \A x \in Range(toGw') : x \in Range(toGw) \/ Fits(x)
<1>1. PICK e \in Range(pubs) :
             /\ e \in Pub /\ e.tid # 0 /\ e.id \in 1..nextMsgId
             /\ Sent(Publish(e))
  BY SendPublishEffect
<1> DEFINE m == Publish(e)
<1>2. /\ m.type = "PUBLISH" /\ m.id = e.id /\ m.tid = e.tid /\ m.name = e.name /\ m.qos = e.qos
  BY DEF Publish
<1> HIDE DEF m
<1>3. \A x \in Range(pubs) : x.id = e.id => x = e
  BY PubAt
<1>4. UpOK(m, nextMsgId)
  BY <1>1, <1>2 DEF UpOK, Pub
<1>5. UpFits(m, Range(pubs), Range(regs), Range(subs), nextMsgId)
  BY <1>2, <1>3 DEF UpFits
<1>6. Sent(m) /\ nextMsgId' = nextMsgId
  BY <1>1 DEF m, SendPublish, Unchanged4Job
<1> QED BY <1>4, <1>5, <1>6, SentFits DEF Fits

LEMMA SendRegisterFits ==
    ASSUME TypeInv, SendRegister
    PROVE  \A x \in Range(toGw') : x \in Range(toGw) \/ Fits(x)
<1> DEFINE e == regs[At(regs, job.id)]
<1> DEFINE m == [type |-> "REGISTER", id |-> e.id, name |-> e.name]
<1>1. e \in Reg /\ e \in Range(regs) /\ \A x \in Range(regs) : x.id = e.id => x = e
  <2>1. PICK x \in Range(regs) : x.id = job.id
    BY DEF SendRegister, TypeInv, JobOK
  <2> QED BY <2>1, RegAt
<1>2. Sent(m) /\ nextMsgId' = nextMsgId
  BY DEF SendRegister, Unchanged4Job
<1> HIDE DEF e
<1>3. e.id \in 1..nextMsgId /\ e.name \in Names
  BY <1>1 DEF Reg, TypeInv, ListsOK
<1>4. Fits(m)
  BY <1>1, <1>3 DEF Fits, UpOK, UpFits, AnyName
<1> HIDE DEF m
<1> QED BY <1>2, <1>4, SentFits

LEMMA SubscribeExpiredFits ==
    ASSUME TypeInv, NEW i \in DOMAIN subs, SubscribeExpired(i)
    PROVE  \A x \in Range(toGw') : x \in Range(toGw) \/ Fits(x)
<1> DEFINE e == subs[i]
<1> DEFINE m == Subscribe(e.id, e.name)
<1>1. e \in Sub /\ e \in Range(subs) /\ e.id \in 1..nextMsgId
  BY SubThere
<1>2. \A x \in Range(subs) : x.id = e.id => x = e
  BY <1>1 DEF TypeInv, ListsOK, Unique, Range
<1>3. (UNCHANGED toGw \/ Sent(m)) /\ nextMsgId' = nextMsgId
  BY DEF SubscribeExpired
<1> HIDE DEF e
<1>4. Fits(m)
  BY <1>1, <1>2 DEF Fits, UpOK, UpFits, AnyName, Subscribe, Sub
<1> HIDE DEF m
<1> QED BY <1>3, <1>4, SentFits

LEMMA PubrecFits ==
    ASSUME TypeInv, Pubrec
    PROVE  \A x \in Range(toGw') : x \in Range(toGw) \/ Fits(x)
<1> DEFINE m == [type |-> "PUBREL", id |-> Msg.id]
<1>1. UNCHANGED toGw \/ (Sent(m) /\ Msg.id \in 1..nextMsgId)
  BY PubrecEffect
<1>2. Msg.id \in 1..nextMsgId => Fits(m)
  BY DEF Fits, UpOK, UpFits
<1>3. nextMsgId' = nextMsgId
  BY DEF Pubrec
<1> HIDE DEF m
<1> QED BY <1>1, <1>2, <1>3, SentFits

(* The messages of the dialogues of the proxy. *)
LEMMA ProxySends ==
    ASSUME TypeInv, UNCHANGED nextMsgId,
           \/ \E secs \in {0, 1} : Disconnect(secs)
           \/ ConnectSearch \/ ConnectConnect \/ ConnectWill \/ ConnectTimeout
           \/ DisconnectTimeout \/ PingRequired \/ PingExpired
    PROVE  \/ UNCHANGED toGw
           \/ \E m : /\ m.type \notin {"PUBLISH", "REGISTER", "SUBSCRIBE", "PUBREL"}
                     /\ Sent(m)
<1>1. CASE \E secs \in {0, 1} : Disconnect(secs)
  BY <1>1 DEF Disconnect
<1>2. CASE ConnectSearch \/ ConnectConnect \/ ConnectWill
  BY <1>2 DEF ConnectSearch, ConnectConnect, ConnectWill, WriteGwMsg
<1>3. CASE ConnectTimeout \/ PingExpired
  <2> DEFINE m == [type |-> buf.type, clean |-> buf.clean, will |-> config.will]
  <2>1. UNCHANGED toGw \/ Sent(m)
    BY <1>3 DEF ConnectTimeout, PingExpired
  <2>2. m.type \notin {"PUBLISH", "REGISTER", "SUBSCRIBE", "PUBREL"}
    BY BufPlain
  <2> QED BY <2>1, <2>2
<1>4. CASE DisconnectTimeout \/ PingRequired
  BY <1>4 DEF DisconnectTimeout, PingRequired
<1> QED BY <1>1, <1>2, <1>3, <1>4

LEMMA UpsStep ==
    ASSUME TypeInv, [Next]_vars, ~Connack
    PROVE  \A x \in Range(toGw') : x \in Range(toGw) \/ Fits(x)
<1>1. CASE \E name \in config.names, qos \in config.qos : AppPublish(name, qos)
  BY <1>1 DEF AppPublish, net
<1>2. CASE \/ \E secs \in {0, 1} : Disconnect(secs)
           \/ ConnectSearch \/ ConnectConnect \/ ConnectWill \/ ConnectTimeout
           \/ DisconnectTimeout \/ PingRequired \/ PingExpired
  <2>1. UNCHANGED nextMsgId
    BY <1>2 DEF Disconnect, ConnectSearch, ConnectConnect, ConnectWill, ConnectTimeout,
                DisconnectTimeout, PingRequired, PingExpired, Unchanged4Connect
  <2>2. CASE UNCHANGED toGw
    BY <2>2
  <2>3. CASE ~UNCHANGED toGw
    <3>1. PICK m : m.type \notin {"PUBLISH", "REGISTER", "SUBSCRIBE", "PUBREL"} /\ Sent(m)
      BY <1>2, <2>1, <2>3, ProxySends
    <3> QED BY <2>1, <3>1, PlainFits, SentFits
  <2> QED BY <2>2, <2>3
<1>3. CASE ConnectAnswer \/ DisconnectAnswer \/ LeaveTasks \/ Reconnected \/ AdvertiseExpired
  <2>1. UNCHANGED toGw
    BY <1>3 DEF ConnectAnswer, DisconnectAnswer, LeaveTasks, Reconnected, AdvertiseExpired, net
  <2> QED BY <2>1
<1>4. CASE Resume
  BY <1>3, <1>4, SendPublishFits, SendRegisterFits DEF Resume
<1>5. CASE Receive
  <2>1. CASE Puback \/ Pubcomp \/ Regack \/ Suback \/ TakeOther
    <3>1. UNCHANGED toGw
      BY <2>1 DEF Puback, Pubcomp, Regack, Suback, TakeOther
    <3> QED BY <3>1
  <2> QED BY <1>5, <2>1, PubrecFits DEF Receive
<1>6. CASE \/ \E i \in DOMAIN regs : RegisterExpired(i)
           \/ \E i \in DOMAIN pubs : PublishExpired(i)
  <2>1. UNCHANGED toGw
    BY <1>6 DEF RegisterExpired, PublishExpired
  <2> QED BY <2>1
<1>7. CASE \E i \in DOMAIN subs : SubscribeExpired(i)
  BY <1>7, SubscribeExpiredFits
<1>8. CASE Gateway
  <2>1. toGw # << >> /\ toGw' = Tail(toGw) /\ nextMsgId' = nextMsgId
    BY <1>8 DEF Gateway, GwIgnores, GwConnects, GwRegisters, GwRejects, GwPublishes, GwReleases,
                GwTakes, Unchanged4Gw, client
  <2>2. Range(toGw') \subseteq Range(toGw)
    BY <2>1, GwTakenOK
  <2> QED BY <2>2
<1>9. CASE GwRestart \/ UNCHANGED vars
  <2>1. UNCHANGED toGw
    BY <1>9 DEF GwRestart, vars, net
  <2> QED BY <2>1
<1> QED BY <1>1, <1>2, <1>3, <1>4, <1>5, <1>6, <1>7, <1>8, <1>9
        DEF Next, Application, Client, Connect, Timers

(* The SUBSCRIBEs of onConnect(). *)
LEMMA ConnackFits ==
    ASSUME TypeInv, Connack
    PROVE  \A m \in Range(toGw') : m \in Range(toGw)
             \/ UpFits(m, Range(pubs'), Range(regs'), Range(subs'), nextMsgId')
<1>1. PICK P, R, S, n, G : P = Range(pubs') /\ R = Range(regs') /\ S = Range(subs')
                           /\ n = nextMsgId' /\ G = toGw'
  OBVIOUS
<1>2. /\ \A x \in S :
           \/ x \in Range(subs)
           \/ x.id > nextMsgId /\ \E k \in DOMAIN Subs : x.id = nextMsgId + k /\ x.name = Subs[k]
      /\ \/ G = toGw
         \/ \E new : /\ G = toGw \o new /\ new \in Seq(Range(new))
                     /\ \A m \in Range(new) : \E k \in DOMAIN Subs :
                           m = Subscribe(nextMsgId + k, Subs[k]) /\ nextMsgId + k > nextMsgId
      /\ \A k, l \in DOMAIN Subs : nextMsgId + k = nextMsgId + l => k = l
  BY <1>1, ConnackEffect
<1>3. \A x \in Range(subs) : ~(x.id > nextMsgId)
  BY DEF TypeInv, ListsOK
<1>4. ASSUME NEW k \in DOMAIN Subs, nextMsgId + k > nextMsgId
      PROVE  UpFits(Subscribe(nextMsgId + k, Subs[k]), P, R, S, n)
  <2> DEFINE m == Subscribe(nextMsgId + k, Subs[k])
  <2>1. m.type = "SUBSCRIBE" /\ m.id = nextMsgId + k /\ m.name = Subs[k]
    BY DEF Subscribe
  <2> HIDE DEF m
  <2>2. \A x \in S : x.id = m.id => x.name = m.name
    BY <1>2, <1>3, <1>4, <2>1
  <2>3. UpFits(m, P, R, S, n)
    BY <2>1, <2>2 DEF UpFits
  <2> QED BY <2>3 DEF m
<1>5. \A m \in Range(G) : m \in Range(toGw) \/ UpFits(m, P, R, S, n)
  <2>1. CASE G = toGw
    BY <2>1
  <2>2. CASE \E new : /\ G = toGw \o new /\ new \in Seq(Range(new))
                      /\ \A m \in Range(new) : \E k \in DOMAIN Subs :
                           m = Subscribe(nextMsgId + k, Subs[k]) /\ nextMsgId + k > nextMsgId
    <3>1. PICK new : /\ G = toGw \o new /\ new \in Seq(Range(new))
                     /\ \A m \in Range(new) : \E k \in DOMAIN Subs :
                           m = Subscribe(nextMsgId + k, Subs[k]) /\ nextMsgId + k > nextMsgId
      BY <2>2
    <3>2. toGw \in Seq(Range(toGw))
      BY DEF TypeInv, ToGwOK
    <3>3. Range(G) = Range(toGw) \cup Range(new)
      BY <3>1, <3>2, ConcatRange
    <3>4. \A m \in Range(new) : UpFits(m, P, R, S, n)
      BY <1>4, <3>1
    <3> QED BY <3>3, <3>4
  <2> QED BY <1>2, <2>1, <2>2
<1> QED BY <1>1, <1>5

(* What the gateway answers. *)
LEMMA GwRegistersAnswers ==
    ASSUME TypeInv, GwRegisters
    PROVE  LET m == [type |-> IF In.type = "REGISTER" THEN "REGACK" ELSE "SUBACK",
                     id |-> In.id, tid |-> GwId(In.name)]
           IN  /\ Answered(m) /\ DownOK(m) /\ In.id \in 1..nextMsgId /\ In.name \in AnyName
               /\ In \in Range(toGw) /\ In.type \in {"REGISTER", "SUBSCRIBE"}
               /\ gw' = [gw EXCEPT !.names = GwNames(In.name)]
<1> DEFINE m == [type |-> IF In.type = "REGISTER" THEN "REGACK" ELSE "SUBACK",
                 id |-> In.id, tid |-> GwId(In.name)]
<1>1. /\ gw' = [gw EXCEPT !.names = GwNames(In.name)]
      /\ Answered(m) /\ In.type \in {"REGISTER", "SUBSCRIBE"}
      /\ toGw # << >> /\ toGw' = Tail(toGw) /\ nextMsgId' = nextMsgId
  BY DEF GwRegisters, GwTakes, Unchanged4Gw, client
<1>2. In \in Range(toGw) /\ UpOK(In, nextMsgId) /\ nextMsgId \in Nat
  BY <1>1, GwTakenOK DEF TypeInv, ListsOK
<1>3. In.id \in 1..nextMsgId /\ In.name \in AnyName
  BY <1>1, <1>2 DEF UpOK
<1>4. GwNames(In.name) \in Seq(AnyName) /\ GwId(In.name) \in DOMAIN GwNames(In.name)
  BY <1>3, GwNamesKeep
<1>5. GwId(In.name) \in Nat \ {0}
  BY <1>4
<1>6. DownOK(m)
  BY <1>2, <1>3, <1>5 DEF DownOK
<1> QED BY <1>1, <1>2, <1>3, <1>6

LEMMA GwPublishesAnswers ==
    ASSUME TypeInv, GwPublishes
    PROVE  LET m == IF In.qos = 1 THEN [type |-> "PUBACK", id |-> In.id, ok |-> TRUE]
                    ELSE [type |-> "PUBREC", id |-> In.id]
           IN  /\ In \in Range(toGw) /\ In.type = "PUBLISH" /\ In.id \in 1..nextMsgId
               /\ In.tid \in DOMAIN gw.names /\ ~Ignored(In)
               /\ UNCHANGED toClient \/ (Answered(m) /\ DownOK(m))
               /\ m.id = In.id /\ m.type \in {"PUBACK", "PUBREC"}
               /\ Came' = Came \cup {In.id} \/ (Came' = Came /\ In.qos = 2 /\ In.id \in gw.held)
<1> DEFINE m == IF In.qos = 1 THEN [type |-> "PUBACK", id |-> In.id, ok |-> TRUE]
                ELSE [type |-> "PUBREC", id |-> In.id]
<1>1. /\ got' = IF In.qos = 2 /\ In.id \in gw.held THEN got ELSE Append(got, In.id)
      /\ UNCHANGED toClient \/ Answered(m)
      /\ toGw # << >> /\ toGw' = Tail(toGw) /\ nextMsgId' = nextMsgId
      /\ In.type = "PUBLISH" /\ In.tid \in DOMAIN gw.names /\ ~Ignored(In)
  BY DEF GwPublishes, GwTakes, Unchanged4Gw, client
<1>2. In \in Range(toGw) /\ UpOK(In, nextMsgId)
  BY <1>1, GwTakenOK
<1>3. In.id \in 1..nextMsgId
  BY <1>1, <1>2 DEF UpOK
<1>4. m.id = In.id /\ m.type \in {"PUBACK", "PUBREC"} /\ DownOK(m)
  BY DEF DownOK
<1>5. Came' = Came \cup {In.id} \/ (Came' = Came /\ In.qos = 2 /\ In.id \in gw.held)
  <2>1. got \in Seq(Range(got))
    BY OfItsRange DEF TypeInv, HistoryOK
  <2>2. PICK g : g = got'
    OBVIOUS
  <2>3. Range(g) = Range(got) \cup {In.id}
           \/ (Range(g) = Range(got) /\ In.qos = 2 /\ In.id \in gw.held)
    BY <1>1, <2>1, <2>2, AppendRange
  <2> QED BY <2>2, <2>3 DEF Came
<1> QED BY <1>1, <1>2, <1>3, <1>4, <1>5

(* What the other answers are. *)
LEMMA GwPlainAnswers ==
    ASSUME TypeInv, GwConnects \/ GwRejects \/ GwReleases
    PROVE  \E m : /\ Answered(m) /\ DownOK(m) /\ m.type \notin {"REGACK", "SUBACK", "PUBREC"}
                  /\ m.type = "PUBACK" => GwRejects
                  /\ InDialogue(m) => GwConnects /\ In.type \in {"CONNECT", "WILLTOPIC", "WILLMSG"}
<1>1. CASE GwConnects
  <2> DEFINE a == IF In.type = "SEARCHGW" THEN "GWINFO"
                  ELSE IF In.type = "CONNECT" /\ In.will THEN "WILLTOPICREQ"
                  ELSE IF In.type = "WILLTOPIC" THEN "WILLMSGREQ"
                  ELSE IF In.type = "DISCONNECT" THEN "DISCONNECT"
                  ELSE "CONNACK"
  <2> DEFINE m == [type |-> a]
  <2>1. Answered(m) /\ In.type \in {"SEARCHGW", "CONNECT", "WILLTOPIC", "WILLMSG", "DISCONNECT"}
    BY <1>1 DEF GwConnects, GwTakes
  <2>2. m.type = a
    OBVIOUS
  <2>3. a \in {"GWINFO", "WILLTOPICREQ", "WILLMSGREQ", "DISCONNECT", "CONNACK"}
        /\ (In.type = "SEARCHGW" => a = "GWINFO") /\ (In.type = "DISCONNECT" => a = "DISCONNECT")
    OBVIOUS
  <2> HIDE DEF m, a
  <2>4. DownOK(m) /\ m.type \notin {"REGACK", "SUBACK", "PUBREC", "PUBACK"}
    BY <2>2, <2>3 DEF DownOK
  <2>5. InDialogue(m) => In.type \in {"CONNECT", "WILLTOPIC", "WILLMSG"}
    BY <2>1, <2>2, <2>3 DEF InDialogue
  <2> QED BY <1>1, <2>1, <2>4, <2>5
<1>2. CASE GwRejects
  <2> DEFINE m == [type |-> "PUBACK", id |-> In.id, ok |-> FALSE]
  <2>1. Answered(m) /\ m.type = "PUBACK"
    BY <1>2 DEF GwRejects
  <2> HIDE DEF m
  <2>2. DownOK(m) /\ ~InDialogue(m)
    BY <2>1 DEF DownOK, InDialogue
  <2> QED BY <1>2, <2>1, <2>2
<1>3. CASE GwReleases
  <2>1. PICK m : Answered(m) /\ m.type \in {"PUBCOMP", "PINGRESP"}
    BY <1>3 DEF GwReleases
  <2>2. DownOK(m) /\ ~InDialogue(m)
    BY <2>1 DEF DownOK, InDialogue
  <2> QED BY <2>1, <2>2
<1> QED BY <1>1, <1>2, <1>3

LEMMA DownsStep ==
    ASSUME TypeInv, [Next]_vars
    PROVE  /\ \A m \in Range(toClient') : m \in Range(toClient)
                \/ (m.type \in {"REGACK", "SUBACK"} => m.id \in 1..nextMsgId)
           /\ Came' \subseteq Came \cup 1..nextMsgId
<1>1. CASE GwRegisters
  <2> DEFINE m == [type |-> IF In.type = "REGISTER" THEN "REGACK" ELSE "SUBACK",
                   id |-> In.id, tid |-> GwId(In.name)]
  <2>1. Answered(m) /\ DownOK(m) /\ m.id \in 1..nextMsgId
    BY <1>1, GwRegistersAnswers
  <2> HIDE DEF m
  <2>2. Range(toClient') \subseteq Range(toClient) \cup {m}
    BY <2>1, AnsweredOK
  <2>3. Came' = Came
    BY <1>1 DEF GwRegisters, Came
  <2> QED BY <2>1, <2>2, <2>3
<1>2. CASE GwPublishes
  <2> DEFINE m == IF In.qos = 1 THEN [type |-> "PUBACK", id |-> In.id, ok |-> TRUE]
                  ELSE [type |-> "PUBREC", id |-> In.id]
  <2>1. /\ In.id \in 1..nextMsgId
        /\ UNCHANGED toClient \/ (Answered(m) /\ DownOK(m))
        /\ m.type \in {"PUBACK", "PUBREC"} /\ Came' \subseteq Came \cup {In.id}
    BY <1>2, GwPublishesAnswers
  <2> HIDE DEF m
  <2>2. Range(toClient') \subseteq Range(toClient) \cup {m}
    <3>1. CASE UNCHANGED toClient
      BY <3>1
    <3>2. CASE Answered(m) /\ DownOK(m)
      BY <3>2, AnsweredOK
    <3> QED BY <2>1, <3>1, <3>2
  <2> QED BY <2>1, <2>2
<1>3. CASE GwConnects \/ GwRejects \/ GwReleases
  <2>1. PICK m : Answered(m) /\ DownOK(m) /\ m.type \notin {"REGACK", "SUBACK"}
    BY <1>3, GwPlainAnswers
  <2>2. Range(toClient') \subseteq Range(toClient) \cup {m}
    BY <2>1, AnsweredOK
  <2>3. Came' = Came
    BY <1>3 DEF GwConnects, GwRejects, GwReleases, Came
  <2> QED BY <2>1, <2>2, <2>3
<1>4. CASE GwIgnores \/ GwRestart \/ UNCHANGED vars
  <2>1. UNCHANGED <<toClient, got>>
    BY <1>4 DEF GwIgnores, GwRestart, vars, net, history
  <2> QED BY <2>1 DEF Came
<1>5. CASE Application \/ Client
  <2>1. UNCHANGED got
    BY <1>5 DEF Application, AppPublish, Disconnect, Client, Connect, ConnectSearch, ConnectConnect,
                ConnectWill, ConnectTimeout, Connack, ConnectAnswer, Unchanged4Connect, Resume,
                SendPublish, SendRegister, Reconnected, Unchanged4Job, DisconnectAnswer,
                DisconnectTimeout, LeaveTasks, Receive, Puback, Pubrec, Pubcomp, Regack, Suback,
                TakeOther, Unchanged4Takes, Timers, PingRequired, PingExpired, AdvertiseExpired,
                RegisterExpired, SubscribeExpired, PublishExpired, Unchanged4Timer, history
  <2>2. UNCHANGED toClient \/ (toClient # << >> /\ toClient' = Tail(toClient))
    BY <1>5 DEF Application, AppPublish, Disconnect, Client, Connect, ConnectSearch, ConnectConnect,
                ConnectWill, ConnectTimeout, Connack, ConnectAnswer, Unchanged4Connect, Resume,
                SendPublish, SendRegister, Reconnected, Unchanged4Job, DisconnectAnswer,
                DisconnectTimeout, LeaveTasks, Receive, Puback, Pubrec, Pubcomp, Regack, Suback,
                TakeOther, Takes, Timers, PingRequired, PingExpired, AdvertiseExpired,
                RegisterExpired, SubscribeExpired, PublishExpired, Unchanged4Timer, net
  <2>3. Range(toClient') \subseteq Range(toClient)
    BY <2>2, TakenOK
  <2> QED BY <2>1, <2>3 DEF Came
<1> QED BY <1>1, <1>2, <1>3, <1>4, <1>5 DEF Next, Gateway

LEMMA MsgsInvStep == TypeInv /\ MsgsInv /\ [Next]_vars => MsgsInv'
<1> SUFFICES ASSUME TypeInv, MsgsInv, [Next]_vars PROVE MsgsInv'
  OBVIOUS
<1>1. ListsGrow
  BY ListsStep
<1>2. \A m \in Range(toGw') : m \in Range(toGw) \/ Fits(m)
        \/ UpFits(m, Range(pubs'), Range(regs'), Range(subs'), nextMsgId')
  <2>1. CASE Connack
    BY <2>1, ConnackFits
  <2>2. CASE ~Connack
    BY <2>2, UpsStep
  <2> QED BY <2>1, <2>2
<1>3. /\ \A m \in Range(toClient') : m \in Range(toClient)
           \/ (m.type \in {"REGACK", "SUBACK"} => m.id \in 1..nextMsgId)
      /\ Came' \subseteq Came \cup 1..nextMsgId
  BY DownsStep
<1> QED BY <1>1, <1>2, <1>3, MsgsKept

LEMMA MsgsInvInit == Init => MsgsInv
BY DEF Init, MsgsInv, Came, Range

-----------------------------------------------------------------------------
(* The order of messages under way: what is sent for the topics of a       *)
(* connection is never behind the dialogue of the next one, nor is its     *)
(* answer, as long as nothing of a dialogue outlives it.                   *)
Calm == seen \cap {"renewed", "repeated"} = {}
Dialogue == {"CONNECT", "WILLTOPICREQ", "WILLTOPIC", "WILLMSGREQ", "WILLMSG", "CONNACK"}
Ups == {"PUBLISH", "REGISTER", "SUBSCRIBE"}
Downs == {"REGACK", "SUBACK"}
TypesApart(q, S, T) == \A i, j \in DOMAIN q : i < j /\ q[i].type \in S => q[j].type \notin T
Free(q, S) == \A m \in Range(q) : m.type \notin S

OrderInv ==
    Calm =>
    /\ ~Connecting => Free(toGw, Dialogue) /\ Free(toClient, Dialogue)
    /\ TypesApart(toGw, Dialogue, Ups)
    /\ TypesApart(toClient, Dialogue, Downs)
    /\ Free(toClient, Dialogue) \/ Free(toGw, Ups)

LEMMA ApartTail ==
    ASSUME NEW q, q \in Seq(Range(q)), q # << >>, NEW S, NEW T, TypesApart(q, S, T)
    PROVE  /\ TypesApart(Tail(q), S, T)
           /\ Head(q).type \in S => Free(Tail(q), T)
<1>1. /\ DOMAIN Tail(q) = 1 .. (Len(q) - 1) /\ DOMAIN q = 1 .. Len(q) /\ Len(q) \in Nat \ {0}
      /\ \A i \in 1 .. (Len(q) - 1) : Tail(q)[i] = q[i + 1] /\ i + 1 \in 1 .. Len(q)
      /\ Head(q) = q[1]
  BY TailRange
<1> DEFINE t == Tail(q)
<1> HIDE DEF t
<1>2. /\ DOMAIN t = 1 .. (Len(q) - 1)
      /\ \A i \in 1 .. (Len(q) - 1) : t[i] = q[i + 1] /\ i + 1 \in 1 .. Len(q)
  BY <1>1 DEF t
<1>3. TypesApart(t, S, T)
  <2> SUFFICES ASSUME NEW i \in DOMAIN t, NEW j \in DOMAIN t, i < j, t[i].type \in S
               PROVE  t[j].type \notin T
    BY DEF TypesApart
  <2>1. i + 1 \in DOMAIN q /\ j + 1 \in DOMAIN q /\ i + 1 < j + 1
    BY <1>1, <1>2
  <2> QED BY <1>1, <1>2, <2>1 DEF TypesApart
<1>4. Head(q).type \in S => Free(t, T)
  <2> SUFFICES ASSUME Head(q).type \in S, NEW j \in DOMAIN t PROVE t[j].type \notin T
    BY DEF Free, Range
  <2>1. 1 \in DOMAIN q /\ j + 1 \in DOMAIN q /\ 1 < j + 1
    BY <1>1, <1>2
  <2> QED BY <1>1, <1>2, <2>1 DEF TypesApart
<1> QED BY <1>3, <1>4 DEF t

LEMMA ApartAppend ==
    ASSUME NEW q, q \in Seq(Range(q)), NEW S, NEW T, TypesApart(q, S, T), NEW e,
           e.type \in T => Free(q, S)
    PROVE  TypesApart(Append(q, e), S, T)
<1> DEFINE r == Append(q, e)
<1>1. /\ DOMAIN q = 1 .. Len(q) /\ Len(q) \in Nat
      /\ DOMAIN r = 1 .. (Len(q) + 1) /\ r[Len(q) + 1] = e
      /\ \A i \in 1 .. Len(q) : r[i] = q[i]
  OBVIOUS
<1> HIDE DEF r
<1>2. SUFFICES ASSUME NEW i \in DOMAIN r, NEW j \in DOMAIN r, i < j, r[i].type \in S
               PROVE  r[j].type \notin T
  BY DEF TypesApart, r
<1>3. i \in 1 .. Len(q) /\ r[i] = q[i] /\ q[i] \in Range(q)
  BY <1>1, <1>2 DEF Range
<1>4. CASE j \in 1 .. Len(q)
  BY <1>1, <1>2, <1>3, <1>4 DEF TypesApart
<1>5. CASE j = Len(q) + 1
  BY <1>1, <1>2, <1>3, <1>5 DEF Free
<1> QED BY <1>1, <1>4, <1>5

LEMMA ApartFree ==
    ASSUME NEW q, NEW S, NEW T, Free(q, S)
    PROVE  TypesApart(q, S, T)
BY DEF TypesApart, Free, Range

(* The incidents are never forgotten. *)
LEMMA SeenStep == [Next]_vars => seen \subseteq seen'
<1> SUFFICES ASSUME [Next]_vars PROVE seen \subseteq seen'
  OBVIOUS
<1>1. CASE Application
  BY <1>1 DEF Application, AppPublish, Sees, Disconnect, history
<1>2. CASE Connect
  BY <1>2 DEF Connect, ConnectSearch, ConnectConnect, ConnectWill, ConnectTimeout, Connack,
              ConnectAnswer, Unchanged4Connect, history
<1>3. CASE Resume
  BY <1>3 DEF Resume, SendPublish, Sees, SendRegister, Reconnected
<1>4. CASE DisconnectAnswer \/ DisconnectTimeout \/ LeaveTasks
  BY <1>4 DEF DisconnectAnswer, DisconnectTimeout, LeaveTasks, history
<1>5. CASE Receive
  BY <1>5 DEF Receive, Puback, Pubrec, Pubcomp, Regack, Suback, TakeOther
<1>6. CASE Timers
  BY <1>6 DEF Timers, PingRequired, PingExpired, AdvertiseExpired, RegisterExpired,
              SubscribeExpired, PublishExpired, Sees
<1>7. CASE Gateway
  BY <1>7 DEF Gateway, GwIgnores, GwConnects, GwRegisters, GwRejects, GwPublishes, GwReleases, Sees
<1>8. CASE GwRestart \/ UNCHANGED vars
  BY <1>8 DEF GwRestart, vars, history
<1> QED BY <1>1, <1>2, <1>3, <1>4, <1>5, <1>6, <1>7, <1>8 DEF Next, Client

(* Nothing of a dialogue is under way. *)
LEMMA FreeOrder ==
    ASSUME Calm' => Free(toGw, Dialogue)' /\ Free(toClient, Dialogue)'
    PROVE  OrderInv'
<1>1. PICK u, d : u = toGw' /\ d = toClient'
  OBVIOUS
<1>2. Calm' => Free(u, Dialogue) /\ Free(d, Dialogue)
  BY <1>1
<1>3. Calm' => TypesApart(u, Dialogue, Ups) /\ TypesApart(d, Dialogue, Downs)
  BY <1>2, ApartFree
<1> QED BY <1>1, <1>2, <1>3 DEF OrderInv

(* A step while the client is not connecting, which sends no message of a  *)
(* dialogue.                                                               *)
LEMMA IdleOrder ==
    ASSUME OrderInv, seen \subseteq seen', ~Connecting,
           Calm' => /\ \A m \in Range(toGw') : m \in Range(toGw) \/ m.type \notin Dialogue
                    /\ \A m \in Range(toClient') : m \in Range(toClient) \/ m.type \notin Dialogue
    PROVE  OrderInv'
<1>1. Calm' => Calm
  BY DEF Calm
<1>2. Calm' => Free(toGw, Dialogue)' /\ Free(toClient, Dialogue)'
  BY <1>1 DEF OrderInv, Free
<1> QED BY <1>2, FreeOrder

(* A step of connect() but the last one. *)
LEMMA ConnectingOrder ==
    ASSUME TypeInv, OrderInv, seen \subseteq seen', Connecting',
           \/ UNCHANGED toGw
           \/ \E m : m.type \notin Ups /\ toGw' = Append(toGw, m),
           \/ UNCHANGED toClient
           \/ toClient # << >> /\ toClient' = Tail(toClient)
    PROVE  OrderInv'
<1>1. PICK u, d : u = toGw' /\ d = toClient'
  OBVIOUS
<1>2. /\ toGw \in Seq(Range(toGw)) /\ toClient \in Seq(Range(toClient))
  BY DEF TypeInv, ToGwOK, ToClientOK
<1>3. SUFFICES ASSUME Calm'
               PROVE  /\ TypesApart(u, Dialogue, Ups)
                      /\ TypesApart(d, Dialogue, Downs)
                      /\ Free(d, Dialogue) \/ Free(u, Ups)
  BY <1>1 DEF OrderInv
<1>4. /\ TypesApart(toGw, Dialogue, Ups)
      /\ TypesApart(toClient, Dialogue, Downs)
      /\ Free(toClient, Dialogue) \/ Free(toGw, Ups)
  BY <1>3 DEF OrderInv, Calm
<1>5. TypesApart(u, Dialogue, Ups) /\ (Free(toGw, Ups) => Free(u, Ups))
  <2>1. CASE UNCHANGED toGw
    BY <1>1, <1>4, <2>1
  <2>2. CASE \E m : m.type \notin Ups /\ toGw' = Append(toGw, m)
    <3>1. PICK m : m.type \notin Ups /\ u = Append(toGw, m)
      BY <1>1, <2>2
    <3>2. Range(u) = Range(toGw) \cup {m}
      BY <1>2, <3>1, AppendRange
    <3> QED BY <1>2, <1>4, <3>1, <3>2, ApartAppend DEF Free
  <2> QED BY <2>1, <2>2
<1>6. TypesApart(d, Dialogue, Downs) /\ (Free(toClient, Dialogue) => Free(d, Dialogue))
  <2>1. CASE UNCHANGED toClient
    BY <1>1, <1>4, <2>1
  <2>2. CASE toClient # << >> /\ toClient' = Tail(toClient)
    <3>1. Range(d) \subseteq Range(toClient)
      BY <1>1, <1>2, <2>2, TailRange
    <3> QED BY <1>1, <1>2, <1>4, <2>2, <3>1, ApartTail DEF Free
  <2> QED BY <2>1, <2>2
<1> QED BY <1>4, <1>5, <1>6

(* A step of the gateway while the client connects. *)
LEMMA GatewayOrder ==
    ASSUME TypeInv, OrderInv, seen \subseteq seen', Connecting',
           toGw # << >>, toGw' = Tail(toGw),
           \/ UNCHANGED toClient
           \/ \E m : /\ toClient' = Append(toClient, m)
                     /\ m.type \in Downs => In.type \in Ups
                     /\ m.type \in Dialogue => In.type \in Dialogue
    PROVE  OrderInv'
<1>1. PICK u, d : u = toGw' /\ d = toClient'
  OBVIOUS
<1>2. /\ toGw \in Seq(Range(toGw)) /\ toClient \in Seq(Range(toClient))
  BY DEF TypeInv, ToGwOK, ToClientOK
<1>3. SUFFICES ASSUME Calm'
               PROVE  /\ TypesApart(u, Dialogue, Ups)
                      /\ TypesApart(d, Dialogue, Downs)
                      /\ Free(d, Dialogue) \/ Free(u, Ups)
  BY <1>1 DEF OrderInv
<1>4. /\ TypesApart(toGw, Dialogue, Ups)
      /\ TypesApart(toClient, Dialogue, Downs)
      /\ Free(toClient, Dialogue) \/ Free(toGw, Ups)
  BY <1>3 DEF OrderInv, Calm
<1>5. /\ TypesApart(u, Dialogue, Ups)
      /\ In.type \in Dialogue => Free(u, Ups)
      /\ Range(u) \subseteq Range(toGw) /\ In \in Range(toGw)
  BY <1>1, <1>2, <1>4, ApartTail, TailRange DEF In
<1>6. CASE UNCHANGED toClient
  BY <1>1, <1>4, <1>5, <1>6 DEF Free
<1>7. CASE \E m : /\ toClient' = Append(toClient, m)
                  /\ m.type \in Downs => In.type \in Ups
                  /\ m.type \in Dialogue => In.type \in Dialogue
  <2>1. PICK m : /\ d = Append(toClient, m)
                 /\ m.type \in Downs => In.type \in Ups
                 /\ m.type \in Dialogue => In.type \in Dialogue
    BY <1>1, <1>7
  <2>2. Range(d) = Range(toClient) \cup {m}
    BY <1>2, <2>1, AppendRange
  <2>3. m.type \in Downs => Free(toClient, Dialogue)
    BY <1>4, <1>5, <2>1 DEF Free
  <2>4. TypesApart(d, Dialogue, Downs)
    BY <1>2, <1>4, <2>1, <2>3, ApartAppend
  <2>5. Free(d, Dialogue) \/ Free(u, Ups)
    <3>1. CASE m.type \in Dialogue
      BY <1>5, <2>1, <3>1
    <3>2. CASE m.type \notin Dialogue
      BY <1>4, <1>5, <2>2, <3>2 DEF Free
    <3> QED BY <3>1, <3>2
  <2> QED BY <1>5, <2>4, <2>5
<1> QED BY <1>6, <1>7

(* The answer of the gateway to a message, if there is one. *)
LEMMA GwAnswer ==
    ASSUME TypeInv, Gateway
    PROVE  /\ toGw # << >> /\ toGw' = Tail(toGw) /\ In \in Range(toGw)
           /\ UNCHANGED <<status, job, pubs, regs, subs, topicTbl, nextMsgId>>
           /\ \/ UNCHANGED toClient
              \/ \E m : /\ toClient' = Append(toClient, m)
                        /\ m.type \in Downs => In.type \in Ups /\ GwRegisters
                        /\ m.type \in Dialogue => In.type \in Dialogue
                        /\ m.type = "PUBACK" /\ ~m.ok => GwRejects
<1>1. /\ toGw # << >> /\ toGw' = Tail(toGw) /\ nextMsgId' = nextMsgId
      /\ UNCHANGED <<status, job, pubs, regs, subs, topicTbl, nextMsgId>>
  BY DEF Gateway, GwIgnores, GwConnects, GwRegisters, GwRejects, GwPublishes, GwReleases,
         GwTakes, Unchanged4Gw, client, lists, proxy
<1>2. In \in Range(toGw)
  BY <1>1, GwTakenOK
<1>3. CASE GwIgnores
  BY <1>1, <1>2, <1>3 DEF GwIgnores
<1>4. CASE GwRegisters
  <2> DEFINE m == [type |-> IF In.type = "REGISTER" THEN "REGACK" ELSE "SUBACK",
                   id |-> In.id, tid |-> GwId(In.name)]
  <2>1. Answered(m) /\ In.type \in {"REGISTER", "SUBSCRIBE"} /\ m.type \in {"REGACK", "SUBACK"}
    BY <1>4, GwRegistersAnswers
  <2> HIDE DEF m
  <2>2. m.type \notin Dialogue /\ m.type # "PUBACK" /\ In.type \in Ups
    BY <2>1 DEF Dialogue, Ups
  <2> QED BY <1>1, <1>2, <1>4, <2>1, <2>2 DEF Answered
<1>5. CASE GwPublishes
  <2> DEFINE m == IF In.qos = 1 THEN [type |-> "PUBACK", id |-> In.id, ok |-> TRUE]
                  ELSE [type |-> "PUBREC", id |-> In.id]
  <2>1. (UNCHANGED toClient \/ Answered(m)) /\ m.type \in {"PUBACK", "PUBREC"}
    BY <1>5, GwPublishesAnswers
  <2>2. m.type = "PUBACK" => m.ok
    OBVIOUS
  <2> HIDE DEF m
  <2>3. m.type \notin Dialogue /\ m.type \notin Downs /\ ~(m.type = "PUBACK" /\ ~m.ok)
    BY <2>1, <2>2 DEF Dialogue, Downs
  <2> QED BY <1>1, <1>2, <2>1, <2>3 DEF Answered
<1>6. CASE GwConnects \/ GwRejects \/ GwReleases
  <2>1. PICK m : /\ Answered(m) /\ m.type \notin {"REGACK", "SUBACK", "PUBREC"}
                 /\ m.type = "PUBACK" => GwRejects
                 /\ InDialogue(m) => GwConnects /\ In.type \in {"CONNECT", "WILLTOPIC", "WILLMSG"}
    BY <1>6, GwPlainAnswers
  <2>2. m.type \notin Downs /\ (m.type \in Dialogue => In.type \in Dialogue)
    BY <2>1 DEF Downs, Dialogue, InDialogue
  <2> QED BY <1>1, <1>2, <2>1, <2>2 DEF Answered
<1> QED BY <1>3, <1>4, <1>5, <1>6 DEF Gateway

LEMMA GatewayOrdered ==
    ASSUME TypeInv, OrderInv, Gateway, seen \subseteq seen'
    PROVE  OrderInv'
<1>1. /\ toGw # << >> /\ toGw' = Tail(toGw) /\ In \in Range(toGw)
      /\ UNCHANGED <<status, job>>
      /\ \/ UNCHANGED toClient
         \/ \E m : /\ toClient' = Append(toClient, m)
                   /\ m.type \in Downs => In.type \in Ups
                   /\ m.type \in Dialogue => In.type \in Dialogue
  BY GwAnswer
<1>2. CASE Connecting
  <2>1. Connecting'
    BY <1>1, <1>2 DEF Connecting
  <2> QED BY <1>1, <2>1, GatewayOrder
<1>3. CASE ~Connecting
  <2>1. Calm' => In.type \notin Dialogue
    BY <1>1, <1>3 DEF OrderInv, Calm, Free
  <2>2. PICK u, d : u = toGw' /\ d = toClient'
    OBVIOUS
  <2>3. Range(u) \subseteq Range(toGw)
    BY <1>1, <2>2, TailRange DEF TypeInv, ToGwOK
  <2>4. Calm' => \A m \in Range(d) : m \in Range(toClient) \/ m.type \notin Dialogue
    <3>1. toClient \in Seq(Range(toClient))
      BY DEF TypeInv, ToClientOK
    <3>2. CASE UNCHANGED toClient
      BY <2>2, <3>2
    <3>3. CASE \E m : toClient' = Append(toClient, m) /\ (m.type \in Dialogue => In.type \in Dialogue)
      <4>1. PICK m : d = Append(toClient, m) /\ (m.type \in Dialogue => In.type \in Dialogue)
        BY <2>2, <3>3
      <4>2. Range(d) = Range(toClient) \cup {m}
        BY <3>1, <4>1, AppendRange
      <4> QED BY <2>1, <4>1, <4>2
    <3> QED BY <1>1, <3>2, <3>3
  <2> QED BY <1>3, <2>2, <2>3, <2>4, IdleOrder
<1> QED BY <1>2, <1>3

LEMMA ConnackOrdered ==
    ASSUME TypeInv, Connack
    PROVE  OrderInv'
<1>1. /\ toClient # << >> /\ toClient' = Tail(toClient)
      /\ seen' = seen \cup Incident(\E i \in DOMAIN pubs : pubs[i].tid # 0, "renewed")
                      \cup Incident(\E m \in Range(toGw) \cup Range(toClient') : InDialogue(m), "repeated")
  BY DEF Connack, Waiting
<1>2. PICK u, d : u = toGw' /\ d = toClient'
  OBVIOUS
<1>3. Calm' => Free(toGw, Dialogue) /\ Free(d, Dialogue)
  BY <1>1, <1>2 DEF Calm, Incident, InDialogue, Dialogue, Free
<1>4. \A m \in Range(u) : m \in Range(toGw) \/ m.type = "SUBSCRIBE"
  <2>1. \/ u = toGw
        \/ \E new : /\ u = toGw \o new /\ new \in Seq(Range(new))
                    /\ \A m \in Range(new) : \E k \in DOMAIN Subs :
                           m = Subscribe(nextMsgId + k, Subs[k])
    BY <1>2, ConnackEffect
  <2>2. CASE u = toGw
    BY <2>2
  <2>3. CASE \E new : /\ u = toGw \o new /\ new \in Seq(Range(new))
                      /\ \A m \in Range(new) : \E k \in DOMAIN Subs :
                           m = Subscribe(nextMsgId + k, Subs[k])
    <3>1. PICK new : /\ u = toGw \o new /\ new \in Seq(Range(new))
                     /\ \A m \in Range(new) : m.type = "SUBSCRIBE"
      BY <2>3 DEF Subscribe
    <3>2. toGw \in Seq(Range(toGw))
      BY DEF TypeInv, ToGwOK
    <3>3. Range(u) = Range(toGw) \cup Range(new)
      BY <3>1, <3>2, ConcatRange
    <3> QED BY <3>1, <3>3
  <2> QED BY <2>1, <2>2, <2>3
<1>5. Calm' => Free(u, Dialogue)
  BY <1>3, <1>4 DEF Free, Dialogue
<1> QED BY <1>2, <1>3, <1>5, FreeOrder

(* connect() but for its end. *)
LEMMA ConnectSends ==
    ASSUME TypeInv,
           ConnectSearch \/ ConnectConnect \/ ConnectWill \/ ConnectTimeout \/ ConnectAnswer
    PROVE  /\ Connecting' /\ UNCHANGED <<gw, seen>>
           /\ UNCHANGED toGw \/ \E m : m.type \notin Ups /\ Sent(m)
           /\ UNCHANGED toClient \/ (toClient # << >> /\ toClient' = Tail(toClient))
<1>1. Connecting'
  <2>1. Connecting /\ UNCHANGED job
    BY DEF ConnectSearch, ConnectConnect, ConnectWill, ConnectTimeout, ConnectAnswer, Waiting,
           Unchanged4Connect
  <2>2. status' # "CONNECTED"
    BY <2>1 DEF ConnectSearch, ConnectConnect, ConnectWill, ConnectTimeout, ConnectAnswer,
                Connecting
  <2> QED BY <2>1, <2>2 DEF Connecting
<1>2. UNCHANGED toGw \/ \E m : m.type \notin Ups /\ Sent(m)
  <2>1. CASE ConnectAnswer
    BY <2>1 DEF ConnectAnswer
  <2>2. CASE ConnectSearch \/ ConnectConnect \/ ConnectWill \/ ConnectTimeout
    <3>1. UNCHANGED nextMsgId
      BY <2>2 DEF ConnectSearch, ConnectConnect, ConnectWill, ConnectTimeout, Unchanged4Connect
    <3>2. \/ UNCHANGED toGw
          \/ \E m : /\ m.type \notin {"PUBLISH", "REGISTER", "SUBSCRIBE", "PUBREL"}
                    /\ Sent(m)
      BY <2>2, <3>1, ProxySends
    <3> QED BY <3>2 DEF Ups
  <2> QED BY <2>1, <2>2
<1>3. \/ UNCHANGED toClient
      \/ toClient # << >> /\ toClient' = Tail(toClient)
  BY DEF ConnectSearch, ConnectConnect, ConnectWill, ConnectTimeout, ConnectAnswer, Unchanged4Connect
<1>4. UNCHANGED <<gw, seen>>
  BY DEF ConnectSearch, ConnectConnect, ConnectWill, ConnectTimeout, ConnectAnswer,
         Unchanged4Connect, env, history
<1> QED BY <1>1, <1>2, <1>3, <1>4

LEMMA ConnectOrdered ==
    ASSUME TypeInv, OrderInv,
           ConnectSearch \/ ConnectConnect \/ ConnectWill \/ ConnectTimeout \/ ConnectAnswer
    PROVE  OrderInv'
<1>1. Connecting' /\ seen \subseteq seen'
  BY ConnectSends
<1>2. \/ UNCHANGED toGw
      \/ \E m : m.type \notin Ups /\ toGw' = Append(toGw, m)
  BY ConnectSends DEF Sent
<1>3. UNCHANGED toClient \/ (toClient # << >> /\ toClient' = Tail(toClient))
  BY ConnectSends
<1> QED BY <1>1, <1>2, <1>3, ConnectingOrder


(* Every other step of the client: no connect() is under way. *)
LEMMA ClientIdle ==
    ASSUME TypeInv,
           Application \/ Resume \/ DisconnectAnswer \/ DisconnectTimeout \/ LeaveTasks
             \/ Receive \/ Timers
    PROVE  ~Connecting /\ Range(toClient') \subseteq Range(toClient)
<1>1. ~Connecting
  <2>1. job = NoJob => ~Connecting
    BY DEF NoJob, Connecting
  <2>2. CASE Application
    <3>1. job = NoJob
      BY <2>2 DEF Application, AppPublish, Disconnect, MayCall
    <3> QED BY <2>1, <3>1
  <2>3. CASE Resume
    <3>1. status = "CONNECTED"
      BY <2>3 DEF Resume, SendPublish, SendRegister, Reconnected, Connected
    <3> QED BY <3>1 DEF Connecting
  <2>4. CASE DisconnectAnswer \/ DisconnectTimeout
    BY <2>4 DEF DisconnectAnswer, DisconnectTimeout, Disconnecting, Connecting
  <2>5. CASE LeaveTasks
    BY <2>1, <2>5 DEF LeaveTasks
  <2>6. CASE Receive \/ Timers
    <3>1. Polling
      BY <2>6 DEF Receive, Puback, Pubrec, Pubcomp, Regack, Suback, TakeOther, Takes, Timers,
                  PingRequired, PingExpired, AdvertiseExpired, RegisterExpired, SubscribeExpired,
                  PublishExpired
    <3> QED BY <2>1, <3>1 DEF Polling
  <2> QED BY <2>2, <2>3, <2>4, <2>5, <2>6
<1>2. Range(toClient') \subseteq Range(toClient)
  <2>1. UNCHANGED toClient \/ (toClient # << >> /\ toClient' = Tail(toClient))
    BY DEF Application, AppPublish, Disconnect, Resume, SendPublish, SendRegister, Reconnected,
           Unchanged4Job, DisconnectAnswer, DisconnectTimeout, LeaveTasks, Receive, Puback, Pubrec,
           Pubcomp, Regack, Suback, TakeOther, Takes, Timers, PingRequired, PingExpired,
           AdvertiseExpired, RegisterExpired, SubscribeExpired, PublishExpired, Unchanged4Timer, net
  <2> QED BY <2>1, TakenOK
<1> QED BY <1>1, <1>2

LEMMA ClientOrdered ==
    ASSUME TypeInv, OrderInv, seen \subseteq seen',
           Application \/ Resume \/ DisconnectAnswer \/ DisconnectTimeout \/ LeaveTasks
             \/ Receive \/ Timers
    PROVE  OrderInv'
<1>1. ~Connecting /\ Range(toClient') \subseteq Range(toClient)
  BY ClientIdle
<1>3. \/ UNCHANGED toGw
      \/ \E m : Sent(m) /\ (Calm' => m.type \notin Dialogue)
  <2>1. CASE Application
    <3>1. CASE \E name \in config.names, qos \in config.qos : AppPublish(name, qos)
      <4>1. UNCHANGED toGw
        BY <3>1 DEF AppPublish, net
      <4> QED BY <4>1
    <3>2. CASE \E secs \in {0, 1} : Disconnect(secs)
      <4>1. Sent([type |-> "DISCONNECT"])
        BY <3>2 DEF Disconnect
      <4> QED BY <4>1 DEF Dialogue
    <3> QED BY <2>1, <3>1, <3>2 DEF Application
  <2>2. CASE Resume
    <3>1. CASE SendPublish
      <4>1. PICK x : Sent(Publish(x))
        BY <3>1 DEF SendPublish
      <4> DEFINE m == Publish(x)
      <4>2. m.type \notin Dialogue
        BY DEF Publish, Dialogue
      <4> QED BY <4>1, <4>2
    <3>2. CASE SendRegister
      <4>1. PICK i : Sent([type |-> "REGISTER", id |-> regs[i].id, name |-> regs[i].name])
        BY <3>2 DEF SendRegister
      <4> DEFINE m == [type |-> "REGISTER", id |-> regs[i].id, name |-> regs[i].name]
      <4>2. m.type \notin Dialogue
        BY DEF Dialogue
      <4> QED BY <4>1, <4>2
    <3>3. CASE Reconnected
      BY <3>3 DEF Reconnected
    <3> QED BY <2>2, <3>1, <3>2, <3>3 DEF Resume
  <2>3. CASE DisconnectAnswer \/ DisconnectTimeout \/ LeaveTasks
    <3>1. UNCHANGED toGw \/ Sent([type |-> "DISCONNECT"])
      BY <2>3 DEF DisconnectAnswer, DisconnectTimeout, LeaveTasks, net
    <3> QED BY <3>1 DEF Dialogue
  <2>4. CASE Receive
    <3>1. UNCHANGED toGw \/ Sent([type |-> "PUBREL", id |-> Msg.id])
      <4>1. CASE Pubrec
        BY <4>1, PubrecEffect
      <4>2. CASE ~Pubrec
        BY <2>4, <4>2 DEF Receive, Puback, Pubcomp, Regack, Suback, TakeOther
      <4> QED BY <4>1, <4>2
    <3> QED BY <3>1 DEF Dialogue
  <2>5. CASE PingExpired
    <3> DEFINE m == [type |-> buf.type, clean |-> buf.clean, will |-> config.will]
    <3>1. UNCHANGED toGw \/ (ping - 1 > 0 /\ Sent(m))
      BY <2>5 DEF PingExpired
    <3>2. ping - 1 > 0 /\ InDialogue(buf) => ~Calm'
      BY <2>5 DEF PingExpired, Sees, Incident, Calm
    <3>3. ping - 1 > 0 /\ Calm' => m.type \notin Dialogue
      BY <3>2 DEF InDialogue, Dialogue
    <3> HIDE DEF m
    <3> QED BY <3>1, <3>3
  <2>6. CASE PingRequired
    <3>1. Sent([type |-> "PINGREQ"])
      BY <2>6 DEF PingRequired
    <3> QED BY <3>1 DEF Dialogue
  <2>7. CASE \E i \in DOMAIN subs : SubscribeExpired(i)
    <3>1. PICK i : UNCHANGED toGw \/ Sent(Subscribe(subs[i].id, subs[i].name))
      BY <2>7 DEF SubscribeExpired
    <3> DEFINE m == Subscribe(subs[i].id, subs[i].name)
    <3>2. m.type \notin Dialogue
      BY DEF Subscribe, Dialogue
    <3> QED BY <3>1, <3>2
  <2>8. CASE \/ AdvertiseExpired
             \/ \E i \in DOMAIN regs : RegisterExpired(i)
             \/ \E i \in DOMAIN pubs : PublishExpired(i)
    <3>1. UNCHANGED toGw
      BY <2>8 DEF AdvertiseExpired, RegisterExpired, PublishExpired
    <3> QED BY <3>1
  <2> QED BY <2>1, <2>2, <2>3, <2>4, <2>5, <2>6, <2>7, <2>8 DEF Timers
<1>4. Calm' => \A m \in Range(toGw') : m \in Range(toGw) \/ m.type \notin Dialogue
  <2>1. CASE UNCHANGED toGw
    BY <2>1
  <2>2. CASE \E m : Sent(m) /\ (Calm' => m.type \notin Dialogue)
    <3>1. PICK u : u = toGw'
      OBVIOUS
    <3>2. PICK m : Sent(m) /\ (Calm' => m.type \notin Dialogue)
      BY <2>2
    <3>3. Range(u) \subseteq Range(toGw) \cup {m}
      BY <3>1, <3>2, AppendRange DEF Sent, TypeInv, ToGwOK
    <3> QED BY <3>1, <3>2, <3>3
  <2> QED BY <1>3, <2>1, <2>2
<1> QED BY <1>1, <1>4, IdleOrder

LEMMA OrderInvStep == TypeInv /\ OrderInv /\ [Next]_vars => OrderInv'
<1> SUFFICES ASSUME TypeInv, OrderInv, [Next]_vars PROVE OrderInv'
  OBVIOUS
<1>1. seen \subseteq seen'
  BY SeenStep
<1>2. CASE Connack
  BY <1>2, ConnackOrdered
<1>3. CASE Connect /\ ~Connack
  BY <1>1, <1>3, ConnectOrdered DEF Connect
<1>4. CASE Application \/ Resume \/ DisconnectAnswer \/ DisconnectTimeout \/ LeaveTasks
             \/ Receive \/ Timers
  BY <1>1, <1>4, ClientOrdered
<1>5. CASE Gateway
  BY <1>1, <1>5, GatewayOrdered
<1>6. CASE GwRestart \/ UNCHANGED vars
  <2>1. UNCHANGED <<status, job, toGw, toClient, seen>>
    BY <1>6 DEF GwRestart, vars, client, proxy, net, history
  <2> QED BY <2>1 DEF OrderInv, Calm, Connecting
<1> QED BY <1>2, <1>3, <1>4, <1>5, <1>6 DEF Next, Client

LEMMA OrderInvInit == Init => OrderInv
BY DEF Init, OrderInv, TypesApart, Free, Range

-----------------------------------------------------------------------------
(* Topic ids: outside connect(), every id that the client has for a topic, *)
(* or is about to get, is the one the gateway has for it; and so is the id *)
(* of each PUBLISH under way, unless the gateway has forgotten the client. *)
Right(names, name, tid) == tid \in DOMAIN names /\ names[tid] = name
AckRight(m, names, R, S) ==
    /\ m.type = "REGACK" => \A x \in R : x.id = m.id => Right(names, x.name, m.tid)
    /\ m.type = "SUBACK" => \A x \in S : x.id = m.id => Right(names, x.name, m.tid)
ListsRight(names) ==
    /\ \A t \in Range(topicTbl) : Right(names, t[1], t[2])
    /\ \A x \in Range(pubs) : x.tid # 0 => Right(names, x.name, x.tid)
    /\ \A m \in Range(toClient) : AckRight(m, names, Range(regs), Range(subs))
UpsRight(names) == \A m \in Range(toGw) : m.type = "PUBLISH" => Right(names, m.name, m.tid)

RightInv ==
    Calm =>
    /\ ~Connecting /\ gw.state # "new" => ListsRight(gw.names)
    /\ gw.state # "new" => UpsRight(gw.names)
    /\ "misrouted" \notin seen

(* A step of the client that is not one of connect(). *)
LEMMA ClientRight ==
    ASSUME TypeInv, MsgsInv, RightInv, ListsGrow, ~Connecting, UNCHANGED gw,
           seen \subseteq seen', "misrouted" \in seen' => "misrouted" \in seen,
           Range(toClient') \subseteq Range(toClient),
           Calm' /\ gw.state # "new" /\ ListsRight(gw.names) =>
             /\ \A t \in Range(topicTbl') : Right(gw.names, t[1], t[2])
             /\ \A x \in Range(pubs') : x.tid # 0 => Right(gw.names, x.name, x.tid)
             /\ \A m \in Range(toGw') :
                  m.type = "PUBLISH" => m \in Range(toGw) \/ Right(gw.names, m.name, m.tid)
    PROVE  RightInv'
<1>1. PICK R, S, T, P, C, G : /\ R = Range(regs') /\ S = Range(subs') /\ T = Range(topicTbl')
                              /\ P = Range(pubs') /\ C = Range(toClient') /\ G = Range(toGw')
  OBVIOUS
<1>2. SUFFICES ASSUME Calm'
               PROVE  /\ gw.state # "new" =>
                           /\ \A t \in T : Right(gw.names, t[1], t[2])
                           /\ \A x \in P : x.tid # 0 => Right(gw.names, x.name, x.tid)
                           /\ \A m \in C : AckRight(m, gw.names, R, S)
                           /\ \A m \in G : m.type = "PUBLISH" => Right(gw.names, m.name, m.tid)
                      /\ "misrouted" \notin seen'
  BY <1>1 DEF RightInv, ListsRight, UpsRight
<1>3. Calm
  BY <1>2 DEF Calm
<1>4. "misrouted" \notin seen'
  BY <1>3 DEF RightInv
<1>5. SUFFICES ASSUME gw.state # "new"
               PROVE  /\ \A t \in T : Right(gw.names, t[1], t[2])
                      /\ \A x \in P : x.tid # 0 => Right(gw.names, x.name, x.tid)
                      /\ \A m \in C : AckRight(m, gw.names, R, S)
                      /\ \A m \in G : m.type = "PUBLISH" => Right(gw.names, m.name, m.tid)
  BY <1>4
<1>6. ListsRight(gw.names) /\ UpsRight(gw.names)
  BY <1>3, <1>5 DEF RightInv
<1>7. \A m \in G : m.type = "PUBLISH" => Right(gw.names, m.name, m.tid)
  BY <1>1, <1>2, <1>5, <1>6 DEF UpsRight
<1>8. ASSUME NEW m \in C PROVE AckRight(m, gw.names, R, S)
  <2>1. m \in Range(toClient) /\ AckRight(m, gw.names, Range(regs), Range(subs))
    BY <1>1, <1>6, <1>8 DEF ListsRight
  <2>2. m.type \in {"REGACK", "SUBACK"} => m.id \in 1..nextMsgId
    BY <2>1 DEF MsgsInv
  <2>3. /\ nextMsgId \in Nat
        /\ \A x \in R : x.id > nextMsgId \/ \E y \in Range(regs) : Alike(x, y)
        /\ \A x \in S : x.id > nextMsgId \/ \E y \in Range(subs) : Alike(x, y)
    BY <1>1 DEF ListsGrow, RegsGrow, SubsGrow
  <2>4. m.type \in {"REGACK", "SUBACK"} => ~(m.id > nextMsgId)
    BY <2>2, <2>3
  <2> QED BY <2>1, <2>3, <2>4 DEF AckRight, Alike
<1> QED BY <1>1, <1>2, <1>5, <1>6, <1>7, <1>8

(* Such a step that brings no topic id. *)
LEMMA ClientKeepsRight ==
    ASSUME TypeInv, MsgsInv, RightInv, ListsGrow, ~Connecting, UNCHANGED <<gw, topicTbl>>,
           seen \subseteq seen', "misrouted" \in seen' => "misrouted" \in seen,
           Range(toClient') \subseteq Range(toClient),
           PubsQuiet, UNCHANGED toGw \/ \E m : m.type # "PUBLISH" /\ Sent(m)
    PROVE  RightInv'
<1>1. \A m \in Range(toGw') : m.type = "PUBLISH" => m \in Range(toGw)
  <2>1. PICK u : u = toGw'
    OBVIOUS
  <2>2. CASE UNCHANGED toGw
    BY <2>2
  <2>3. CASE \E m : m.type # "PUBLISH" /\ Sent(m)
    <3>1. PICK m : m.type # "PUBLISH" /\ Sent(m)
      BY <2>3
    <3>2. Range(u) \subseteq Range(toGw) \cup {m}
      BY <2>1, <3>1, AppendRange DEF Sent, TypeInv, ToGwOK
    <3> QED BY <2>1, <3>1, <3>2
  <2> QED BY <2>2, <2>3
<1>2. ListsRight(gw.names) =>
        \A x \in Range(pubs') : x.tid # 0 => Right(gw.names, x.name, x.tid)
  BY DEF ListsRight, PubsQuiet, Same
<1>3. ListsRight(gw.names) => \A t \in Range(topicTbl') : Right(gw.names, t[1], t[2])
  BY DEF ListsRight
<1> QED BY <1>1, <1>2, <1>3, ClientRight

(* A step of connect() but the last one. *)
LEMMA ConnectingRight ==
    ASSUME TypeInv, RightInv, seen = seen', Connecting', UNCHANGED gw,
           UNCHANGED toGw \/ \E m : m.type # "PUBLISH" /\ Sent(m)
    PROVE  RightInv'
<1>1. PICK G : G = Range(toGw')
  OBVIOUS
<1>2. \A m \in G : m.type = "PUBLISH" => m \in Range(toGw)
  <2>1. PICK u : u = toGw'
    OBVIOUS
  <2>2. CASE UNCHANGED toGw
    BY <1>1, <2>2
  <2>3. CASE \E m : m.type # "PUBLISH" /\ Sent(m)
    <3>1. PICK m : m.type # "PUBLISH" /\ Sent(m)
      BY <2>3
    <3>2. Range(u) \subseteq Range(toGw) \cup {m}
      BY <2>1, <3>1, AppendRange DEF Sent, TypeInv, ToGwOK
    <3> QED BY <1>1, <2>1, <3>1, <3>2
  <2> QED BY <2>2, <2>3
<1>3. Calm' => Calm
  BY DEF Calm
<1>4. Calm' /\ gw.state # "new" => \A m \in G : m.type = "PUBLISH" => Right(gw.names, m.name, m.tid)
  BY <1>2, <1>3 DEF RightInv, UpsRight
<1>5. Calm' => "misrouted" \notin seen'
  BY <1>3 DEF RightInv
<1> QED BY <1>1, <1>4, <1>5 DEF RightInv, UpsRight

(* A step of the gateway in which it forgets no topic. *)
LEMMA GatewayRight ==
    ASSUME TypeInv, RightInv, UNCHANGED <<status, job, pubs, regs, subs, topicTbl>>,
           seen \subseteq seen', "misrouted" \in seen' => "misrouted" \in seen,
           NEW g, g = gw', Calm' => (g.state # "new" => gw.state # "new"),
           \A k \in DOMAIN gw.names : k \in DOMAIN g.names /\ g.names[k] = gw.names[k],
           toGw # << >>, toGw' = Tail(toGw),
           \A m \in Range(toClient') :
             m \in Range(toClient) \/ AckRight(m, g.names, Range(regs), Range(subs))
    PROVE  RightInv'
<1>1. PICK C, G : C = Range(toClient') /\ G = Range(toGw')
  OBVIOUS
<1>2. \A name, tid : Right(gw.names, name, tid) => Right(g.names, name, tid)
  BY DEF Right
<1>3. G \subseteq Range(toGw)
  BY <1>1, TailRange DEF TypeInv, ToGwOK
<1>4. Calm' => Calm /\ "misrouted" \notin seen'
  BY DEF Calm, RightInv
<1>5. Connecting' <=> Connecting
  BY DEF Connecting
<1>6. ASSUME Calm', g.state # "new"
      PROVE  \A m \in G : m.type = "PUBLISH" => Right(g.names, m.name, m.tid)
  BY <1>2, <1>3, <1>4, <1>6 DEF RightInv, UpsRight
<1>7. ASSUME Calm', g.state # "new", ~Connecting
      PROVE  /\ \A t \in Range(topicTbl) : Right(g.names, t[1], t[2])
             /\ \A x \in Range(pubs) : x.tid # 0 => Right(g.names, x.name, x.tid)
             /\ \A m \in C : AckRight(m, g.names, Range(regs), Range(subs))
  <2>1. ListsRight(gw.names)
    BY <1>4, <1>7 DEF RightInv
  <2>2. \A t \in Range(topicTbl) : Right(g.names, t[1], t[2])
    BY <1>2, <2>1 DEF ListsRight
  <2>3. \A x \in Range(pubs) : x.tid # 0 => Right(g.names, x.name, x.tid)
    BY <1>2, <2>1 DEF ListsRight
  <2>4. \A m \in C : AckRight(m, g.names, Range(regs), Range(subs))
    BY <1>1, <1>2, <2>1 DEF ListsRight, AckRight
  <2> QED BY <2>2, <2>3, <2>4
<1>8. Calm' /\ g.state # "new" => UpsRight(g.names)'
  <2>1. PICK N : N = g.names
    OBVIOUS
  <2> QED BY <1>1, <1>6, <2>1 DEF UpsRight
<1>9. Calm' /\ g.state # "new" /\ ~Connecting => ListsRight(g.names)'
  BY <1>1, <1>7 DEF ListsRight
<1> QED BY <1>4, <1>5, <1>8, <1>9 DEF RightInv

LEMMA GwRegistersRight ==
    ASSUME TypeInv, MsgsInv, RightInv, GwRegisters
    PROVE  RightInv'
<1> DEFINE m == [type |-> IF In.type = "REGISTER" THEN "REGACK" ELSE "SUBACK",
                 id |-> In.id, tid |-> GwId(In.name)]
<1>1. /\ Answered(m) /\ In.name \in AnyName /\ In \in Range(toGw)
      /\ In.type \in {"REGISTER", "SUBSCRIBE"}
      /\ gw' = [gw EXCEPT !.names = GwNames(In.name)]
  BY GwRegistersAnswers
<1>2. /\ m.id = In.id /\ m.tid = GwId(In.name)
      /\ m.type = "REGACK" => In.type = "REGISTER"
      /\ m.type = "SUBACK" => In.type = "SUBSCRIBE"
  BY <1>1
<1> HIDE DEF m
<1>3. PICK g : g = gw'
  OBVIOUS
<1>4. g.state = gw.state /\ g.names = GwNames(In.name)
  BY <1>1, <1>3 DEF TypeInv, GwOK
<1>5. /\ \A k \in DOMAIN gw.names : k \in DOMAIN g.names /\ g.names[k] = gw.names[k]
      /\ Right(g.names, In.name, m.tid)
  BY <1>1, <1>2, <1>4, GwNamesKeep DEF Right
<1>6. AckRight(m, g.names, Range(regs), Range(subs))
  <2>1. UpFits(In, Range(pubs), Range(regs), Range(subs), nextMsgId)
    BY <1>1 DEF MsgsInv
  <2> QED BY <1>2, <1>5, <2>1 DEF AckRight, UpFits
<1>7. \A x \in Range(toClient') :
        x \in Range(toClient) \/ AckRight(x, g.names, Range(regs), Range(subs))
  <2>1. PICK d : d = toClient'
    OBVIOUS
  <2>2. Range(d) \subseteq Range(toClient) \cup {m}
    BY <1>1, <2>1, AppendRange DEF Answered, TypeInv, ToClientOK
  <2> QED BY <1>6, <2>1, <2>2
<1>8. /\ toGw # << >> /\ toGw' = Tail(toGw) /\ seen' = seen
      /\ UNCHANGED <<status, job, pubs, regs, subs, topicTbl>>
  BY DEF GwRegisters, GwTakes, Unchanged4Gw, client, lists, proxy
<1> QED BY <1>3, <1>4, <1>5, <1>7, <1>8, GatewayRight

(* The other answers carry no topic id. *)
LEMMA GwPlainRight ==
    ASSUME TypeInv, RightInv, Gateway, ~GwRegisters,
           seen \subseteq seen', "misrouted" \in seen' => "misrouted" \in seen,
           UNCHANGED <<status, job, pubs, regs, subs, topicTbl>>,
           NEW g, g = gw', Calm' => (g.state # "new" => gw.state # "new"),
           \A k \in DOMAIN gw.names : k \in DOMAIN g.names /\ g.names[k] = gw.names[k]
    PROVE  RightInv'
<1>1. /\ toGw # << >> /\ toGw' = Tail(toGw)
      /\ \/ UNCHANGED toClient
         \/ \E m : toClient' = Append(toClient, m) /\ m.type \notin Downs
  BY GwAnswer
<1>2. \A x \in Range(toClient') :
        x \in Range(toClient) \/ AckRight(x, g.names, Range(regs), Range(subs))
  <2>1. PICK d : d = toClient'
    OBVIOUS
  <2>2. CASE UNCHANGED toClient
    BY <2>2
  <2>3. CASE \E m : toClient' = Append(toClient, m) /\ m.type \notin Downs
    <3>1. PICK m : d = Append(toClient, m) /\ m.type \notin Downs
      BY <2>1, <2>3
    <3>2. Range(d) = Range(toClient) \cup {m}
      BY <3>1, AppendRange DEF TypeInv, ToClientOK
    <3>3. AckRight(m, g.names, Range(regs), Range(subs))
      BY <3>1 DEF AckRight, Downs
    <3> QED BY <2>1, <3>2, <3>3
  <2> QED BY <1>1, <2>2, <2>3
<1> QED BY <1>1, <1>2, GatewayRight

LEMMA GwPublishesRight ==
    ASSUME TypeInv, RightInv, GwPublishes
    PROVE  RightInv'
<1>1. /\ In \in Range(toGw) /\ In.type = "PUBLISH" /\ In.tid \in DOMAIN gw.names /\ ~Ignored(In)
  BY GwPublishesAnswers
<1>2. /\ gw' = [gw EXCEPT !.held = IF In.qos = 2 THEN @ \cup {In.id} ELSE @]
      /\ seen' = seen \cup Incident(gw.names[In.tid] # In.name, "misrouted")
      /\ UNCHANGED <<status, job, pubs, regs, subs, topicTbl>>
  BY DEF GwPublishes, Sees, Unchanged4Gw, client, lists, proxy
<1>3. gw.state = "active"
  BY <1>1 DEF Ignored
<1>4. "misrouted" \in seen' /\ Calm' => "misrouted" \in seen
  <2>1. Calm' => Calm
    BY <1>2 DEF Calm
  <2>2. Calm' => gw.names[In.tid] = In.name
    BY <1>1, <1>3, <2>1 DEF RightInv, UpsRight, Right
  <2> QED BY <1>2, <2>2 DEF Incident
<1>5. CASE Calm'
  <2>1. PICK g : g = gw'
    OBVIOUS
  <2>2. g.state = gw.state /\ g.names = gw.names
    BY <1>2, <2>1 DEF TypeInv, GwOK
  <2>3. ~GwRegisters
    BY <1>1 DEF GwRegisters, GwTakes
  <2>4. Gateway /\ seen \subseteq seen'
    BY <1>2 DEF Gateway
  <2> QED BY <1>2, <1>4, <1>5, <2>1, <2>2, <2>3, <2>4, GwPlainRight
<1>6. CASE ~Calm'
  BY <1>6 DEF RightInv
<1> QED BY <1>5, <1>6

LEMMA GwConnectsRight ==
    ASSUME TypeInv, OrderInv, RightInv, GwConnects
    PROVE  RightInv'
<1>1. /\ toGw # << >> /\ toGw' = Tail(toGw) /\ In \in Range(toGw) /\ Gateway
      /\ UNCHANGED <<status, job, pubs, regs, subs, topicTbl, seen>>
  BY GwAnswer DEF Gateway, GwConnects
<1>2. PICK g : g = gw'
  OBVIOUS
<1>3. In.type \in {"SEARCHGW", "CONNECT", "WILLTOPIC", "WILLMSG", "DISCONNECT"} /\ ~Ignored(In)
  BY DEF GwConnects, GwTakes
<1>4. CASE In.type # "CONNECT"
  <2>1. g.names = gw.names
    BY <1>2, <1>4 DEF GwConnects
  <2>2. g.state # "new" => gw.state # "new"
    BY <1>2, <1>3, <1>4 DEF GwConnects, Ignored
  <2>3. ~GwRegisters
    BY <1>3 DEF GwRegisters, GwTakes
  <2> QED BY <1>1, <1>2, <2>1, <2>2, <2>3, GwPlainRight
<1>5. CASE In.type = "CONNECT"
  <2>1. CASE Calm'
    <3>1. Calm
      BY <1>1, <2>1 DEF Calm
    <3>2. In.type \in Dialogue
      BY <1>5 DEF Dialogue
    <3>3. Connecting'
      BY <1>1, <3>1, <3>2 DEF OrderInv, Free, Connecting
    <3>4. PICK u : u = toGw'
      OBVIOUS
    <3>5. Free(u, Ups)
      BY <1>1, <3>1, <3>2, <3>4, ApartTail DEF OrderInv, TypeInv, ToGwOK, In
    <3>6. \A m \in Range(u) : m.type # "PUBLISH"
      BY <3>5 DEF Free, Ups
    <3>7. "misrouted" \notin seen'
      BY <1>1, <3>1 DEF RightInv
    <3> QED BY <3>3, <3>4, <3>6, <3>7 DEF RightInv, UpsRight
  <2>2. CASE ~Calm'
    BY <2>2 DEF RightInv
  <2> QED BY <2>1, <2>2
<1> QED BY <1>4, <1>5

LEMMA GwRightStep ==
    ASSUME TypeInv, MsgsInv, OrderInv, RightInv, Gateway
    PROVE  RightInv'
<1>1. CASE GwIgnores \/ GwRejects \/ GwReleases
  <2>1. PICK g : g = gw'
    OBVIOUS
  <2>2. g.state = gw.state /\ g.names = gw.names
    BY <1>1, <2>1 DEF GwIgnores, GwRejects, GwReleases, TypeInv, GwOK
  <2>3. /\ UNCHANGED <<status, job, pubs, regs, subs, topicTbl>>
        /\ seen' = seen
    BY <1>1 DEF GwIgnores, GwRejects, GwReleases, Unchanged4Gw, client, lists, proxy
  <2>4. CASE GwRegisters
    BY <2>4, GwRegistersRight
  <2>5. CASE ~GwRegisters
    BY <2>1, <2>2, <2>3, <2>5, GwPlainRight
  <2> QED BY <2>4, <2>5
<1> QED BY <1>1, GwRegistersRight, GwPublishesRight, GwConnectsRight DEF Gateway

LEMMA ConnackRight ==
    ASSUME TypeInv, OrderInv, RightInv, Connack
    PROVE  RightInv'
<1>1. /\ toClient # << >> /\ toClient' = Tail(toClient) /\ Head(toClient).type = "CONNACK"
      /\ topicTbl' = << >> /\ UNCHANGED <<pubs, gw>>
      /\ seen' = seen \cup Incident(\E i \in DOMAIN pubs : pubs[i].tid # 0, "renewed")
                      \cup Incident(\E m \in Range(toGw) \cup Range(toClient') : InDialogue(m), "repeated")
  BY DEF Connack, Waiting
<1>2. PICK T, C, G, R, S : /\ T = topicTbl' /\ C = Range(toClient') /\ G = Range(toGw')
                           /\ R = Range(regs') /\ S = Range(subs')
  OBVIOUS
<1>3. SUFFICES ASSUME Calm'
               PROVE  /\ \A t \in Range(T) : Right(gw.names, t[1], t[2])
                      /\ \A x \in Range(pubs) : x.tid # 0 => Right(gw.names, x.name, x.tid)
                      /\ \A m \in C : AckRight(m, gw.names, R, S)
                      /\ gw.state # "new" => \A m \in G : m.type = "PUBLISH" => Right(gw.names, m.name, m.tid)
                      /\ "misrouted" \notin seen'
  BY <1>1, <1>2 DEF RightInv, ListsRight, UpsRight
<1>4. /\ Calm /\ "misrouted" \notin seen'
      /\ \A i \in DOMAIN pubs : pubs[i].tid = 0
  <2>1. Calm
    BY <1>1, <1>3 DEF Calm
  <2>2. "misrouted" \notin seen'
    BY <1>1, <2>1 DEF RightInv, Incident
  <2>3. \A i \in DOMAIN pubs : pubs[i].tid = 0
    BY <1>1, <1>3 DEF Calm, Incident
  <2> QED BY <2>1, <2>2, <2>3
<1>5. \A t \in Range(T) : Right(gw.names, t[1], t[2])
  BY <1>1, <1>2 DEF Range
<1>6. \A x \in Range(pubs) : x.tid # 0 => Right(gw.names, x.name, x.tid)
  BY <1>4 DEF Range
<1>7. \A m \in C : AckRight(m, gw.names, R, S)
  <2>1. Free(Tail(toClient), Downs)
    BY <1>1, <1>4, ApartTail DEF OrderInv, TypeInv, ToClientOK, Dialogue
  <2> QED BY <1>1, <1>2, <2>1 DEF Free, Downs, AckRight
<1>8. \A m \in G : m.type = "PUBLISH" => m \in Range(toGw)
  <2>1. PICK u : u = toGw'
    OBVIOUS
  <2>2. \/ u = toGw
        \/ \E new : /\ u = toGw \o new /\ new \in Seq(Range(new))
                    /\ \A m \in Range(new) : \E k \in DOMAIN Subs :
                           m = Subscribe(nextMsgId + k, Subs[k])
    BY <2>1, ConnackEffect
  <2>3. CASE u = toGw
    BY <1>2, <2>1, <2>3
  <2>4. CASE \E new : /\ u = toGw \o new /\ new \in Seq(Range(new))
                      /\ \A m \in Range(new) : \E k \in DOMAIN Subs :
                           m = Subscribe(nextMsgId + k, Subs[k])
    <3>1. PICK new : /\ u = toGw \o new /\ new \in Seq(Range(new))
                     /\ \A m \in Range(new) : m.type = "SUBSCRIBE"
      BY <2>4 DEF Subscribe
    <3>2. Range(u) = Range(toGw) \cup Range(new)
      BY <3>1, ConcatRange DEF TypeInv, ToGwOK
    <3> QED BY <1>2, <2>1, <3>1, <3>2
  <2> QED BY <2>2, <2>3, <2>4
<1>9. gw.state # "new" => \A m \in G : m.type = "PUBLISH" => Right(gw.names, m.name, m.tid)
  BY <1>4, <1>8 DEF RightInv, UpsRight
<1> QED BY <1>4, <1>5, <1>6, <1>7, <1>9

LEMMA ConnectRight ==
    ASSUME TypeInv, OrderInv, RightInv, Connect
    PROVE  RightInv'
<1>1. CASE ConnectSearch \/ ConnectConnect \/ ConnectWill \/ ConnectTimeout \/ ConnectAnswer
  <2>1. /\ Connecting' /\ UNCHANGED <<gw, seen>>
        /\ UNCHANGED toGw \/ \E m : m.type # "PUBLISH" /\ Sent(m)
    BY <1>1, ConnectSends DEF Ups
  <2> QED BY <2>1, ConnectingRight
<1> QED BY <1>1, ConnackRight DEF Connect

LEMMA AppPublishRight ==
    ASSUME TypeInv, MsgsInv, RightInv, NEW name \in config.names, NEW qos \in 0..2,
           AppPublish(name, qos)
    PROVE  RightInv'
<1>1. /\ ~Connecting /\ Range(toClient') \subseteq Range(toClient)
      /\ UNCHANGED <<gw, topicTbl, toGw, toClient>>
  BY DEF AppPublish, MayCall, NoJob, Connecting, net
<1>2. /\ seen \subseteq seen' /\ seen' \subseteq seen \cup {"shared"}
      /\ \A x \in Range(pubs') :
           x \in Range(pubs) \/ (x.name = name /\ x.tid = TopicId(name))
  BY AppPublishEffect
<1>3. ListsGrow
  BY AppPublishGrow
<1>4. ListsRight(gw.names) => (TopicId(name) # 0 => Right(gw.names, name, TopicId(name)))
  BY TopicIdThere DEF ListsRight, Range
<1>5. ListsRight(gw.names) =>
        \A x \in Range(pubs') : x.tid # 0 => Right(gw.names, x.name, x.tid)
  BY <1>2, <1>4 DEF ListsRight
<1>6. ListsRight(gw.names) => \A t \in Range(topicTbl') : Right(gw.names, t[1], t[2])
  BY <1>1 DEF ListsRight
<1>7. \A m \in Range(toGw') : m \in Range(toGw)
  BY <1>1
<1> QED BY <1>1, <1>2, <1>3, <1>5, <1>6, <1>7, ClientRight

LEMMA SendPublishRight ==
    ASSUME TypeInv, MsgsInv, RightInv, SendPublish
    PROVE  RightInv'
<1>1. /\ ~Connecting /\ Range(toClient') \subseteq Range(toClient)
  BY ClientIdle DEF Resume
<1>2. UNCHANGED <<gw, topicTbl>> /\ ListsGrow
  BY ResumeGrow DEF Resume, SendPublish, Unchanged4Job
<1>3. PICK e \in Range(pubs) :
        /\ e.tid # 0 /\ Sent(Publish(e))
        /\ seen \subseteq seen' /\ seen' \subseteq seen \cup {"resent"}
        /\ \A x \in Range(pubs') :
             \/ \E y \in Range(pubs) : Same(x, y)
             \/ x.name = e.name /\ x.tid = e.tid
  BY SendPublishEffect
<1>4. ListsRight(gw.names) =>
        \A x \in Range(pubs') : x.tid # 0 => Right(gw.names, x.name, x.tid)
  BY <1>3 DEF ListsRight, Same
<1>5. ListsRight(gw.names) => \A t \in Range(topicTbl') : Right(gw.names, t[1], t[2])
  BY <1>2 DEF ListsRight
<1>6. ListsRight(gw.names) => \A m \in Range(toGw') : m \in Range(toGw) \/ Right(gw.names, m.name, m.tid)
  <2>1. PICK u, m : u = toGw' /\ m = Publish(e)
    OBVIOUS
  <2>2. Range(u) \subseteq Range(toGw) \cup {m}
    BY <1>3, <2>1, AppendRange DEF Sent, TypeInv, ToGwOK
  <2>3. m.name = e.name /\ m.tid = e.tid
    BY <2>1 DEF Publish
  <2>4. ListsRight(gw.names) => Right(gw.names, m.name, m.tid)
    BY <1>3, <2>3 DEF ListsRight
  <2> QED BY <2>1, <2>2, <2>4
<1> QED BY <1>1, <1>2, <1>3, <1>4, <1>5, <1>6, ClientRight

(* The acknowledgements bring the ids. *)
LEMMA AckedRight ==
    ASSUME TypeInv, MsgsInv, RightInv, Regack \/ Suback
    PROVE  RightInv'
<1>1. /\ ~Connecting /\ Range(toClient') \subseteq Range(toClient) /\ ListsGrow
  BY ClientIdle, ReceiveGrow DEF Receive
<1>2. /\ Msg \in Range(toClient) /\ Msg.type \in {"REGACK", "SUBACK"}
      /\ UNCHANGED <<gw, seen, toGw>>
      /\ Regack => Msg.type = "REGACK"
      /\ Suback => Msg.type = "SUBACK"
  BY TakenOK DEF Regack, Suback, Takes, Msg, Unchanged4Takes
<1>3. Msg.tid \in Nat \ {0}
  BY <1>2 DEF TypeInv, ToClientOK, DownOK
<1>4. CASE Regack
  <2>1. CASE UNCHANGED <<topicTbl, pubs>>
    BY <1>1, <1>2, <2>1, UnchangedQuiet, ClientKeepsRight
  <2>2. CASE ~UNCHANGED <<topicTbl, pubs>>
    <3>1. PICK r \in Range(regs) :
            /\ r \in Reg /\ r.id = Msg.id /\ topicTbl' = WithTopicId(r.name, Msg.tid)
            /\ \/ UNCHANGED pubs
               \/ \E e \in Range(pubs) :
                    /\ e.name = r.name
                    /\ \A x \in Range(pubs') :
                         \/ \E y \in Range(pubs) : Same(x, y)
                         \/ x.name = e.name /\ x.tid = Msg.tid
      BY <1>4, <2>2, RegackEffect
    <3>2. ListsRight(gw.names) => Right(gw.names, r.name, Msg.tid)
      BY <1>2, <1>4, <3>1 DEF ListsRight, AckRight
    <3>3. r.name \in AnyName
      BY <3>1 DEF Reg, AnyName
    <3>4. \A t \in Range(topicTbl') : t \in Range(topicTbl) \/ t = <<r.name, Msg.tid>>
      BY <1>3, <3>1, <3>3, WithTopicIdKeeps
    <3>5. ListsRight(gw.names) => \A t \in Range(topicTbl') : Right(gw.names, t[1], t[2])
      BY <3>2, <3>4 DEF ListsRight
    <3>6. ListsRight(gw.names) =>
            \A x \in Range(pubs') : x.tid # 0 => Right(gw.names, x.name, x.tid)
      BY <3>1, <3>2 DEF ListsRight, Same
    <3>7. \A m \in Range(toGw') : m \in Range(toGw)
      BY <1>2
    <3> QED BY <1>1, <1>2, <3>5, <3>6, <3>7, ClientRight
  <2> QED BY <2>1, <2>2
<1>5. CASE Suback
  <2>1. UNCHANGED pubs
    BY <1>5 DEF Suback
  <2>2. CASE UNCHANGED topicTbl
    BY <1>1, <1>2, <2>1, <2>2, UnchangedQuiet, ClientKeepsRight
  <2>3. CASE ~UNCHANGED topicTbl
    <3> DEFINE r == subs[At(subs, Msg.id)]
    <3>1. Msg.id \in Ids(subs) /\ topicTbl' = WithTopic(r.name, Msg.tid)
      BY <1>5, <2>3 DEF Suback
    <3>2. r \in Range(subs) /\ r \in Sub /\ r.id = Msg.id
      BY <3>1, AtIsThere, SubThere
    <3> HIDE DEF r
    <3>3. ListsRight(gw.names) => Right(gw.names, r.name, Msg.tid)
      BY <1>2, <1>5, <3>2 DEF ListsRight, AckRight
    <3>4. r.name \in AnyName
      BY <3>2 DEF Sub, AnyName
    <3>5. \A t \in Range(topicTbl') : t \in Range(topicTbl) \/ t = <<r.name, Msg.tid>>
      BY <1>3, <3>1, <3>4, WithTopicIdKeeps
    <3>6. ListsRight(gw.names) => \A t \in Range(topicTbl') : Right(gw.names, t[1], t[2])
      BY <3>3, <3>5 DEF ListsRight
    <3>7. ListsRight(gw.names) =>
            \A x \in Range(pubs') : x.tid # 0 => Right(gw.names, x.name, x.tid)
      BY <2>1 DEF ListsRight
    <3>8. \A m \in Range(toGw') : m \in Range(toGw)
      BY <1>2
    <3> QED BY <1>1, <1>2, <3>6, <3>7, <3>8, ClientRight
  <2> QED BY <2>2, <2>3
<1> QED BY <1>4, <1>5

(* The steps of the client that change no publication but may remove it,   *)
(* and send neither PUBLISH nor PUBREL.                                    *)
PlainStep ==
    \/ \E secs \in {0, 1} : Disconnect(secs)
    \/ DisconnectAnswer \/ DisconnectTimeout \/ LeaveTasks
    \/ SendRegister \/ Reconnected \/ Pubcomp \/ TakeOther \/ Timers

LEMMA PlainStepQuiet ==
    ASSUME TypeInv, PlainStep
    PROVE  /\ PubsQuiet /\ UNCHANGED <<gw, topicTbl, got>>
           /\ seen \subseteq seen' /\ seen' \subseteq seen \cup {"gaveUp", "repeated"}
           /\ UNCHANGED toGw \/ \E m : m.type \notin {"PUBLISH", "PUBREL"} /\ Sent(m)
<1>1. CASE (\E secs \in {0, 1} : Disconnect(secs)) \/ DisconnectTimeout \/ PingRequired \/ PingExpired
  <2>1. UNCHANGED <<nextMsgId, pubs, gw, topicTbl, got>>
        /\ seen \subseteq seen' /\ seen' \subseteq seen \cup {"repeated"}
    BY <1>1 DEF Disconnect, DisconnectTimeout, PingRequired, PingExpired, Unchanged4Timer, lists,
                history, Sees, Incident
  <2> QED BY <1>1, <2>1, ProxySends, UnchangedQuiet
<1>2. CASE DisconnectAnswer \/ LeaveTasks \/ AdvertiseExpired \/ TakeOther
  <2>1. UNCHANGED <<pubs, gw, topicTbl, got, seen, toGw>>
    BY <1>2 DEF DisconnectAnswer, LeaveTasks, AdvertiseExpired, TakeOther, Unchanged4Timer,
                Unchanged4Takes, lists, net, env, history
  <2> QED BY <2>1, UnchangedQuiet
<1>3. CASE SendRegister
  <2>1. PICK i : Sent([type |-> "REGISTER", id |-> regs[i].id, name |-> regs[i].name])
    BY <1>3 DEF SendRegister
  <2> DEFINE m == [type |-> "REGISTER", id |-> regs[i].id, name |-> regs[i].name]
  <2>2. m.type \notin {"PUBLISH", "PUBREL"}
    OBVIOUS
  <2>3. UNCHANGED <<pubs, gw, topicTbl, got, seen>>
    BY <1>3 DEF SendRegister, Unchanged4Job
  <2> QED BY <2>1, <2>2, <2>3, UnchangedQuiet
<1>4. CASE Reconnected
  <2>1. UNCHANGED <<gw, topicTbl, got, seen, toGw>>
    BY <1>4 DEF Reconnected, Unchanged4Job
  <2> QED BY <1>4, <2>1, ReconnectedQuiet
<1>5. CASE Pubcomp
  <2>1. UNCHANGED <<gw, topicTbl, got, seen, toGw>>
    BY <1>5 DEF Pubcomp, Unchanged4Takes
  <2> QED BY <1>5, <2>1, PubcompQuiet
<1>6. ASSUME NEW i \in DOMAIN regs, RegisterExpired(i)
      PROVE  /\ PubsQuiet /\ UNCHANGED <<gw, topicTbl, got>>
             /\ seen \subseteq seen' /\ seen' \subseteq seen \cup {"gaveUp"}
             /\ UNCHANGED toGw
  <2>1. UNCHANGED <<pubs, gw, topicTbl, got, toGw>>
    BY <1>6 DEF RegisterExpired, Unchanged4Timer
  <2>2. seen' = seen \/ seen' = seen \cup {"gaveUp"}
    BY <1>6 DEF RegisterExpired
  <2> QED BY <2>1, <2>2, UnchangedQuiet
<1>7. CASE \E i \in DOMAIN subs : SubscribeExpired(i)
  <2>1. PICK i \in DOMAIN subs : SubscribeExpired(i)
    BY <1>7
  <2>2. UNCHANGED <<pubs, gw, topicTbl, got, seen>>
        /\ (UNCHANGED toGw \/ Sent(Subscribe(subs[i].id, subs[i].name)))
    BY <2>1 DEF SubscribeExpired, Unchanged4Timer
  <2> DEFINE m == Subscribe(subs[i].id, subs[i].name)
  <2>3. m.type \notin {"PUBLISH", "PUBREL"}
    BY DEF Subscribe
  <2> QED BY <2>2, <2>3, UnchangedQuiet
<1>8. ASSUME NEW i \in DOMAIN pubs, PublishExpired(i)
      PROVE  PubsQuiet /\ UNCHANGED <<gw, topicTbl, got, seen, toGw>>
  BY <1>8, PublishExpiredQuiet DEF PublishExpired, Unchanged4Timer
<1> QED BY <1>1, <1>2, <1>3, <1>4, <1>5, <1>6, <1>7, <1>8 DEF PlainStep, Timers

LEMMA PlainStepIdle ==
    ASSUME TypeInv, PlainStep
    PROVE  /\ ~Connecting /\ Range(toClient') \subseteq Range(toClient) /\ ListsGrow
<1>1. /\ [Next]_vars
      /\ Application \/ Resume \/ DisconnectAnswer \/ DisconnectTimeout \/ LeaveTasks
           \/ Receive \/ Timers
  BY DEF PlainStep, Next, Client, Application, Resume, Receive
<1> QED BY <1>1, ClientIdle, ListsStep

LEMMA PubackRight ==
    ASSUME TypeInv, MsgsInv, RightInv, Puback \/ Pubrec
    PROVE  RightInv'
<1>1. /\ ~Connecting /\ Range(toClient') \subseteq Range(toClient) /\ ListsGrow
  BY ClientIdle, ReceiveGrow DEF Receive
<1>2. /\ UNCHANGED <<gw, topicTbl>>
      /\ UNCHANGED toGw \/ Sent([type |-> "PUBREL", id |-> Msg.id])
  <2>1. CASE Puback
    BY <2>1 DEF Puback, Unchanged4Takes
  <2>2. CASE Pubrec
    <3>1. UNCHANGED <<gw, topicTbl>>
      BY <2>2 DEF Pubrec, Unchanged4Takes
    <3> QED BY <2>2, <3>1, PubrecEffect
  <2> QED BY <2>1, <2>2
<1>3. seen \subseteq seen' /\ ("misrouted" \in seen' => "misrouted" \in seen)
  <2>1. CASE Puback
    BY <2>1, PubackEffect
  <2>2. CASE Pubrec
    BY <2>2 DEF Pubrec
  <2> QED BY <2>1, <2>2
<1>4. \A x \in Range(pubs') :
        \/ x.tid = 0
        \/ \E y \in Range(pubs) : x.name = y.name /\ x.tid = y.tid
  <2>1. CASE Puback
    <3>1. \/ PubsQuiet
          \/ \A x \in Range(pubs') : x.tid = 0 \/ \E y \in Range(pubs) : Same(x, y)
      BY <2>1, PubackEffect
    <3> QED BY <3>1 DEF PubsQuiet, Same
  <2>2. CASE Pubrec
    <3>1. CASE UNCHANGED pubs
      BY <3>1
    <3>2. CASE ~UNCHANGED pubs
      <4>1. PICK e \in Range(pubs) :
              \A x \in Range(pubs') :
                 \/ \E y \in Range(pubs) : Same(x, y)
                 \/ x.name = e.name /\ x.tid = e.tid
        BY <2>2, <3>2, PubrecEffect
      <4> QED BY <4>1 DEF Same
    <3> QED BY <3>1, <3>2
  <2> QED BY <2>1, <2>2
<1>5. ListsRight(gw.names) =>
        \A x \in Range(pubs') : x.tid # 0 => Right(gw.names, x.name, x.tid)
  BY <1>4 DEF ListsRight
<1>6. ListsRight(gw.names) => \A t \in Range(topicTbl') : Right(gw.names, t[1], t[2])
  BY <1>2 DEF ListsRight
<1>7. \A m \in Range(toGw') : m.type = "PUBLISH" => m \in Range(toGw)
  <2>1. CASE UNCHANGED toGw
    BY <2>1
  <2>2. CASE Sent([type |-> "PUBREL", id |-> Msg.id])
    <3>1. PICK u, m : u = toGw' /\ m = [type |-> "PUBREL", id |-> Msg.id]
      OBVIOUS
    <3>2. Range(u) \subseteq Range(toGw) \cup {m} /\ m.type # "PUBLISH"
      BY <2>2, <3>1, AppendRange DEF Sent, TypeInv, ToGwOK
    <3> QED BY <3>1, <3>2
  <2> QED BY <1>2, <2>1, <2>2
<1> QED BY <1>1, <1>2, <1>3, <1>5, <1>6, <1>7, ClientRight

LEMMA RightInvStep == TypeInv /\ MsgsInv /\ OrderInv /\ RightInv /\ [Next]_vars => RightInv'
<1> SUFFICES ASSUME TypeInv, MsgsInv, OrderInv, RightInv, [Next]_vars PROVE RightInv'
  OBVIOUS
<1>1. CASE \E name \in config.names, qos \in config.qos : AppPublish(name, qos)
  <2>1. config.qos \subseteq 0..2
    BY DEF TypeInv, ProxyOK, Config
  <2> QED BY <1>1, <2>1, AppPublishRight
<1>2. CASE PlainStep
  <2>1. /\ PubsQuiet /\ UNCHANGED <<gw, topicTbl>> /\ seen \subseteq seen'
        /\ "misrouted" \in seen' => "misrouted" \in seen
        /\ UNCHANGED toGw \/ \E m : m.type # "PUBLISH" /\ Sent(m)
    BY <1>2, PlainStepQuiet
  <2> QED BY <1>2, <2>1, PlainStepIdle, ClientKeepsRight
<1>3. CASE Connect
  BY <1>3, ConnectRight
<1>4. CASE SendPublish \/ Puback \/ Pubrec \/ Regack \/ Suback
  BY <1>4, SendPublishRight, PubackRight, AckedRight
<1>5. CASE Gateway
  BY <1>5, GwRightStep
<1>6. CASE GwRestart
  <2>1. PICK g : g = gw'
    OBVIOUS
  <2>2. g.state = "new" /\ UNCHANGED seen
    BY <1>6, <2>1 DEF GwRestart, TypeInv, GwOK, history
  <2> QED BY <2>1, <2>2 DEF RightInv, Calm
<1>7. CASE UNCHANGED vars
  <2>1. UNCHANGED <<status, job, topicTbl, pubs, regs, subs, toGw, toClient, gw, seen>>
    BY <1>7 DEF vars, client, lists, proxy, net, env, history
  <2> QED BY <2>1 DEF RightInv, Calm, Connecting, ListsRight, UpsRight
<1> QED BY <1>1, <1>2, <1>3, <1>4, <1>5, <1>6, <1>7
        DEF Next, Application, Client, Resume, Receive, PlainStep

LEMMA RightInvInit == Init => RightInv
BY DEF Init, RightInv, ListsRight, UpsRight, Range

(* No PUBLISH reaches the topic of another name, for any number of topics, *)
(* publications, losses and restarts of the gateway, unless a publication  *)
(* kept its topic id through a connect(), or a part of the dialogue that   *)
(* connects a client outlived it.                                          *)
THEOREM NeverMisroutedCorrect == Spec => []NeverMisrouted
<1> DEFINE Inv == TypeInv /\ MsgsInv /\ OrderInv /\ RightInv
<1>1. Init => Inv
  BY TypeInvInit, MsgsInvInit, OrderInvInit, RightInvInit
<1>2. Inv /\ [Next]_vars => Inv'
  BY TypeInvStep, MsgsInvStep, OrderInvStep, RightInvStep
<1>3. Inv => NeverMisrouted
  BY DEF RightInv, Calm, NeverMisrouted
<1> QED BY <1>1, <1>2, <1>3, PTL DEF Spec

-----------------------------------------------------------------------------
(* Publications of QoS 2: one that came to the gateway and may come again, *)
(* because a PUBLISH of it is under way or the client may send one, is     *)
(* held there; no PUBLISH of it is behind its PUBREL; and one that was not *)
(* sent, or was refused, never came.                                       *)
Is(m, type, id) == m.type = type /\ m.id = id
Under(q, type, id) == \E m \in Range(q) : Is(m, type, id)
NoneBehind(q, id) ==
    \A j, k \in DOMAIN q : j < k /\ Is(q[j], "PUBREL", id) => ~Is(q[k], "PUBLISH", id)
Once(g, id) == \A k, l \in DOMAIN g : g[k] = id /\ g[l] = id => k = l

PubOnce(x, q, g, held) ==
    /\ x.st \in {"READY", "SUSPEND"} => x.id \notin Range(g) /\ ~Under(q, "PUBLISH", x.id)
    /\ Once(g, x.id)
    /\ x.id \in Range(g) /\ Under(q, "PUBLISH", x.id) => x.id \in held
    /\ Under(q, "PUBREL", x.id) => x.st = "WAIT_PUBCOMP"
    /\ NoneBehind(q, x.id)
RecHeld(x, g, held) == x.st = "WAIT_PUBREC" /\ x.id \in Range(g) => x.id \in held

OnceCalm == seen \cap {"resent", "renewed", "repeated"} = {}
OnceInv ==
    OnceCalm =>
    /\ \A m \in Range(toClient) : m.type = "PUBACK" => m.ok
    /\ \A x \in Range(pubs) : x.qos = 2 => PubOnce(x, toGw, got, gw.held)
    /\ ~Connecting => \A x \in Range(pubs) : x.qos = 2 => RecHeld(x, got, gw.held)

(* The queue to the gateway: as it was, without its head, or with one more *)
(* message that is not a PUBLISH of the id.                                *)
LEMMA QueueTail ==
    ASSUME NEW q, q \in Seq(Range(q)), q # << >>, NEW id, NoneBehind(q, id)
    PROVE  /\ NoneBehind(Tail(q), id)
           /\ \A type : Under(Tail(q), type, id) => Under(q, type, id)
           /\ Is(Head(q), "PUBREL", id) => ~Under(Tail(q), "PUBLISH", id)
<1>1. /\ DOMAIN Tail(q) = 1 .. (Len(q) - 1) /\ DOMAIN q = 1 .. Len(q) /\ Len(q) \in Nat \ {0}
      /\ \A i \in 1 .. (Len(q) - 1) : Tail(q)[i] = q[i + 1] /\ i + 1 \in 1 .. Len(q)
      /\ Head(q) = q[1] /\ Range(Tail(q)) \subseteq Range(q)
  BY TailRange
<1> DEFINE t == Tail(q)
<1> HIDE DEF t
<1>2. /\ DOMAIN t = 1 .. (Len(q) - 1) /\ Range(t) \subseteq Range(q)
      /\ \A i \in 1 .. (Len(q) - 1) : t[i] = q[i + 1] /\ i + 1 \in 1 .. Len(q)
  BY <1>1 DEF t
<1>3. NoneBehind(t, id)
  <2> SUFFICES ASSUME NEW j \in DOMAIN t, NEW k \in DOMAIN t, j < k, Is(t[j], "PUBREL", id)
               PROVE  ~Is(t[k], "PUBLISH", id)
    BY DEF NoneBehind
  <2>1. j + 1 \in DOMAIN q /\ k + 1 \in DOMAIN q /\ j + 1 < k + 1
    BY <1>1, <1>2
  <2> QED BY <1>1, <1>2, <2>1 DEF NoneBehind
<1>4. \A type : Under(t, type, id) => Under(q, type, id)
  BY <1>2 DEF Under
<1>5. Is(Head(q), "PUBREL", id) => ~Under(t, "PUBLISH", id)
  <2> SUFFICES ASSUME Is(Head(q), "PUBREL", id), NEW k \in DOMAIN t
               PROVE  ~Is(t[k], "PUBLISH", id)
    BY DEF Under, Range
  <2>1. 1 \in DOMAIN q /\ k + 1 \in DOMAIN q /\ 1 < k + 1
    BY <1>1, <1>2
  <2> QED BY <1>1, <1>2, <2>1 DEF NoneBehind
<1> QED BY <1>3, <1>4, <1>5 DEF t

LEMMA QueueMore ==
    ASSUME NEW q, q \in Seq(Range(q)), NEW id, NoneBehind(q, id), NEW m,
           Is(m, "PUBLISH", id) => ~Under(q, "PUBREL", id)
    PROVE  /\ NoneBehind(Append(q, m), id)
           /\ \A type : Under(Append(q, m), type, id) => Under(q, type, id) \/ Is(m, type, id)
<1> DEFINE r == Append(q, m)
<1>1. /\ DOMAIN q = 1 .. Len(q) /\ Len(q) \in Nat
      /\ DOMAIN r = 1 .. (Len(q) + 1) /\ r[Len(q) + 1] = m
      /\ \A i \in 1 .. Len(q) : r[i] = q[i]
  OBVIOUS
<1>2. Range(r) = Range(q) \cup {m}
  BY AppendRange
<1> HIDE DEF r
<1>3. NoneBehind(r, id)
  <2> SUFFICES ASSUME NEW j \in DOMAIN r, NEW k \in DOMAIN r, j < k, Is(r[j], "PUBREL", id)
               PROVE  ~Is(r[k], "PUBLISH", id)
    BY DEF NoneBehind
  <2>1. j \in DOMAIN q /\ r[j] = q[j] /\ Under(q, "PUBREL", id)
    BY <1>1 DEF Under, Range
  <2>2. CASE k \in DOMAIN q
    BY <1>1, <2>1, <2>2 DEF NoneBehind
  <2>3. CASE k \notin DOMAIN q
    <3>1. r[k] = m
      BY <1>1, <2>3
    <3> QED BY <2>1, <3>1
  <2> QED BY <2>2, <2>3
<1>4. \A type : Under(r, type, id) => Under(q, type, id) \/ Is(m, type, id)
  BY <1>2 DEF Under
<1> QED BY <1>3, <1>4 DEF r

LEMMA OnceAppend ==
    ASSUME NEW g, g \in Seq(Range(g)), NEW id, NEW e, Once(g, id), e = id => id \notin Range(g)
    PROVE  Once(Append(g, e), id)
<1> DEFINE r == Append(g, e)
<1>1. /\ DOMAIN g = 1 .. Len(g) /\ Len(g) \in Nat
      /\ DOMAIN r = 1 .. (Len(g) + 1) /\ r[Len(g) + 1] = e
      /\ \A i \in 1 .. Len(g) : r[i] = g[i]
  OBVIOUS
<1> HIDE DEF r
<1>2. SUFFICES ASSUME NEW k \in DOMAIN r, NEW l \in DOMAIN r, r[k] = id, r[l] = id
               PROVE  k = l
  BY DEF Once, r
<1>3. \A i \in DOMAIN g : r[i] = g[i] /\ g[i] \in Range(g)
  BY <1>1 DEF Range
<1>4. CASE e = id
  <2>1. k \notin DOMAIN g /\ l \notin DOMAIN g
    BY <1>2, <1>3, <1>4
  <2> QED BY <1>1, <2>1
<1>5. CASE e # id
  <2>1. k \in DOMAIN g /\ l \in DOMAIN g
    BY <1>1, <1>2, <1>5
  <2> QED BY <1>2, <1>3, <2>1 DEF Once
<1> QED BY <1>4, <1>5

(* What a publication needs after a step that does not send it. *)
LEMMA OnceStill ==
    ASSUME NEW x, NEW y, x.id = y.id, x.st = y.st \/ (x.st = "READY" /\ y.st = "SUSPEND"),
           NEW q, NEW g, NEW held, PubOnce(y, q, g, held),
           NEW r, NEW more, held \subseteq more, NoneBehind(r, x.id),
           \A type \in {"PUBLISH", "PUBREL"} : Under(r, type, x.id) => Under(q, type, x.id)
    PROVE  PubOnce(x, r, g, more)
<1>1. /\ x.st \in {"READY", "SUSPEND"} => y.st \in {"READY", "SUSPEND"}
      /\ y.st = "WAIT_PUBCOMP" => x.st = "WAIT_PUBCOMP"
  OBVIOUS
<1>2. Under(r, "PUBLISH", x.id) => Under(q, "PUBLISH", x.id)
  OBVIOUS
<1>3. Under(r, "PUBREL", x.id) => Under(q, "PUBREL", x.id)
  OBVIOUS
<1> QED BY <1>1, <1>2, <1>3 DEF PubOnce

(* A step of the client that is not one of connect(). *)
LEMMA ClientOnce ==
    ASSUME OnceInv, seen \subseteq seen', UNCHANGED <<gw, got>>, ~Connecting,
           Range(toClient') \subseteq Range(toClient), NEW u, u = toGw',
           OnceCalm' /\ OnceCalm =>
             \A x \in Range(pubs') :
               x.qos = 2 => PubOnce(x, u, got, gw.held) /\ RecHeld(x, got, gw.held)
    PROVE  OnceInv'
<1>1. PICK P, C : P = Range(pubs') /\ C = Range(toClient')
  OBVIOUS
<1>2. OnceCalm' => OnceCalm
  BY DEF OnceCalm
<1>3. OnceCalm' => \A m \in C : m.type = "PUBACK" => m.ok
  BY <1>1, <1>2 DEF OnceInv
<1>4. OnceCalm' => \A x \in P : x.qos = 2 => PubOnce(x, u, got, gw.held) /\ RecHeld(x, got, gw.held)
  BY <1>1, <1>2
<1>5. PICK g, h : g = got' /\ h = gw'.held
  OBVIOUS
<1>6. g = got /\ h = gw.held
  BY <1>5
<1>7. OnceCalm' => \A x \in P : x.qos = 2 => PubOnce(x, u, g, h) /\ RecHeld(x, g, h)
  BY <1>4, <1>6
<1> QED BY <1>1, <1>3, <1>5, <1>7 DEF OnceInv, PubOnce, RecHeld

(* The queue to the gateway gets a message that is not about a publication. *)
LEMMA PlainQueue ==
    ASSUME TypeInv, NEW u, u = toGw', NEW id, NoneBehind(toGw, id),
           UNCHANGED toGw \/ \E m : m.type \notin {"PUBLISH", "PUBREL"} /\ Sent(m)
    PROVE  /\ NoneBehind(u, id)
           /\ \A type \in {"PUBLISH", "PUBREL"} : Under(u, type, id) => Under(toGw, type, id)
<1>1. CASE u = toGw
  BY <1>1
<1>2. CASE u # toGw
  <2>1. PICK m : m.type \notin {"PUBLISH", "PUBREL"} /\ u = Append(toGw, m)
    BY <1>2 DEF Sent
  <2>2. \A type \in {"PUBLISH", "PUBREL"} : ~Is(m, type, id)
    BY <2>1 DEF Is
  <2> QED BY <2>1, <2>2, QueueMore DEF TypeInv, ToGwOK
<1> QED BY <1>1, <1>2

LEMMA StillOnce ==
    ASSUME TypeInv, OnceInv, seen \subseteq seen', UNCHANGED <<gw, got>>, ~Connecting,
           Range(toClient') \subseteq Range(toClient),
           UNCHANGED toGw \/ \E m : m.type \notin {"PUBLISH", "PUBREL"} /\ Sent(m),
           \A x \in Range(pubs') : x.qos = 2 =>
             \E y \in Range(pubs) : /\ x.id = y.id /\ y.qos = 2
                                    /\ x.st = y.st \/ (x.st = "READY" /\ y.st = "SUSPEND")
    PROVE  OnceInv'
<1>1. PICK u, P : u = toGw' /\ P = Range(pubs')
  OBVIOUS
<1>2. ASSUME OnceCalm, NEW x \in P, x.qos = 2
      PROVE  PubOnce(x, u, got, gw.held) /\ RecHeld(x, got, gw.held)
  <2>1. PICK y \in Range(pubs) : /\ x.id = y.id /\ y.qos = 2
                                 /\ x.st = y.st \/ (x.st = "READY" /\ y.st = "SUSPEND")
    BY <1>1, <1>2
  <2>2. PubOnce(y, toGw, got, gw.held) /\ RecHeld(y, got, gw.held)
    BY <1>2, <2>1 DEF OnceInv
  <2>3. NoneBehind(toGw, x.id)
    BY <2>1, <2>2 DEF PubOnce
  <2>4. /\ NoneBehind(u, x.id)
        /\ \A type \in {"PUBLISH", "PUBREL"} : Under(u, type, x.id) => Under(toGw, type, x.id)
    BY <1>1, <2>3, PlainQueue
  <2>5. PubOnce(x, u, got, gw.held)
    BY <2>1, <2>2, <2>4, OnceStill
  <2>6. RecHeld(x, got, gw.held)
    BY <2>1, <2>2 DEF RecHeld
  <2> QED BY <2>5, <2>6
<1> QED BY <1>1, <1>2, ClientOnce

LEMMA AppPublishOnce ==
    ASSUME TypeInv, MsgsInv, OnceInv, NEW name \in config.names, NEW qos \in 0..2,
           AppPublish(name, qos)
    PROVE  OnceInv'
<1>1. /\ ~Connecting /\ Range(toClient') \subseteq Range(toClient)
      /\ UNCHANGED <<gw, got, toGw>>
  BY DEF AppPublish, MayCall, NoJob, Connecting, net
<1>2. /\ seen \subseteq seen' /\ nextMsgId \in Nat
      /\ \A x \in Range(pubs') :
           \/ x \in Range(pubs)
           \/ x.id = nextMsgId + 1 /\ x.st \in {"READY", "SUSPEND"}
  BY AppPublishEffect
<1>3. /\ nextMsgId + 1 \notin Range(got)
      /\ \A type \in {"PUBLISH", "PUBREL"} : ~Under(toGw, type, nextMsgId + 1)
  <2>1. nextMsgId + 1 \notin 1..nextMsgId
    BY <1>2
  <2>2. \A m \in Range(toGw) : m.type \in {"PUBLISH", "PUBREL"} => m.id \in 1..nextMsgId
    BY DEF TypeInv, ToGwOK, UpOK, MsgsInv, UpFits
  <2> QED BY <2>1, <2>2 DEF MsgsInv, Came, Under, Is
<1>4. PICK u, P : u = toGw' /\ P = Range(pubs')
  OBVIOUS
<1>5. ASSUME OnceCalm, NEW x \in P, x.qos = 2
      PROVE  PubOnce(x, toGw, got, gw.held) /\ RecHeld(x, got, gw.held)
  <2>1. CASE x \in Range(pubs)
    BY <1>1, <1>5, <2>1 DEF OnceInv
  <2>2. CASE x.id = nextMsgId + 1 /\ x.st \in {"READY", "SUSPEND"}
    <3>1. Once(got, x.id)
      BY <1>3, <2>2 DEF Once, Range
    <3>2. NoneBehind(toGw, x.id)
      BY <1>3, <2>2 DEF NoneBehind, Under, Range
    <3> QED BY <1>3, <2>2, <3>1, <3>2 DEF PubOnce, RecHeld
  <2> QED BY <1>2, <1>4, <2>1, <2>2
<1>6. u = toGw
  BY <1>1, <1>4
<1> QED BY <1>1, <1>2, <1>4, <1>5, <1>6, ClientOnce

LEMMA SendPublishOnce ==
    ASSUME TypeInv, OnceInv, SendPublish
    PROVE  OnceInv'
<1>1. ~Connecting /\ Range(toClient') \subseteq Range(toClient) /\ UNCHANGED <<gw, got>>
  BY ClientIdle DEF Resume, SendPublish, Unchanged4Job
<1>2. PICK e \in Range(pubs) :
        /\ e \in Pub /\ e.st # "SUSPEND" /\ PubOK(e) /\ Sent(Publish(e))
        /\ seen \subseteq seen'
        /\ e.st = "WAIT_PUBCOMP" => "resent" \in seen'
        /\ \A x \in Range(pubs') :
             \/ (x.id = e.id => e.qos = 0) /\ \E y \in Range(pubs) : Same(x, y)
             \/ /\ x.id = e.id /\ x.qos = e.qos
                /\ x.st \in {"WAIT_PUBACK", "WAIT_PUBREC"}
  BY SendPublishEffect
<1>3. PICK u, P : u = toGw' /\ P = Range(pubs')
  OBVIOUS
<1>4. ASSUME OnceCalm', OnceCalm, NEW x \in P, x.qos = 2
      PROVE  PubOnce(x, u, got, gw.held) /\ RecHeld(x, got, gw.held)
  <2> DEFINE m == Publish(e)
  <2>1. (u = toGw \/ u = Append(toGw, m)) /\ m.type = "PUBLISH" /\ m.id = e.id
    BY <1>2, <1>3 DEF Sent, Publish
  <2> HIDE DEF m
  <2>2. \A y, z \in Range(pubs) : y.id = z.id => y = z
    BY DEF TypeInv, ListsOK, Unique, Range
  <2>3. CASE x.id # e.id
    <3>1. PICK y \in Range(pubs) : Same(x, y)
      BY <1>2, <1>3, <1>4, <2>3
    <3>2. PubOnce(y, toGw, got, gw.held) /\ RecHeld(y, got, gw.held) /\ x.id = y.id /\ x.st = y.st
      BY <1>1, <1>4, <3>1 DEF OnceInv, Same
    <3>3. NoneBehind(toGw, x.id)
      BY <3>2 DEF PubOnce
    <3>4. \A type : ~Is(m, type, x.id)
      BY <2>1, <2>3 DEF Is
    <3>5. /\ NoneBehind(u, x.id)
          /\ \A type \in {"PUBLISH", "PUBREL"} : Under(u, type, x.id) => Under(toGw, type, x.id)
      BY <2>1, <3>3, <3>4, QueueMore DEF TypeInv, ToGwOK
    <3>6. PubOnce(x, u, got, gw.held)
      BY <3>2, <3>5, OnceStill
    <3> QED BY <3>2, <3>6 DEF RecHeld
  <2>4. CASE x.id = e.id
    <3>1. e.qos = 2 /\ x.st \in {"WAIT_PUBACK", "WAIT_PUBREC"}
      <4>1. CASE x.qos = e.qos /\ x.st \in {"WAIT_PUBACK", "WAIT_PUBREC"}
        BY <1>4, <4>1
      <4>2. CASE e.qos = 0 /\ \E y \in Range(pubs) : Same(x, y)
        <5>1. e \in Range(pubs)
          BY <1>2
        <5>2. PICK y \in Range(pubs) : y.id = x.id /\ y.qos = x.qos
          BY <4>2 DEF Same
        <5>3. y = e
          BY <2>2, <2>4, <5>1, <5>2
        <5> QED BY <1>4, <4>2, <5>2, <5>3
      <4> QED BY <1>2, <1>3, <2>4, <4>1, <4>2
    <3>2. PubOnce(e, toGw, got, gw.held) /\ RecHeld(e, got, gw.held)
      BY <1>1, <1>4, <3>1 DEF OnceInv
    <3>3. e.st \in {"READY", "WAIT_PUBREC"}
      <4>1. e.st # "WAIT_PUBCOMP"
        BY <1>2, <1>4 DEF OnceCalm
      <4>2. e.st # "WAIT_PUBACK"
        BY <1>2, <3>1 DEF PubOK
      <4> QED BY <1>2, <4>1, <4>2 DEF Pub, PubStatus
    <3>4. x.id \in Range(got) => x.id \in gw.held
      BY <2>4, <3>2, <3>3 DEF PubOnce, RecHeld
    <3>5. ~Under(toGw, "PUBREL", x.id) /\ NoneBehind(toGw, x.id) /\ Once(got, x.id)
      BY <2>4, <3>2, <3>3 DEF PubOnce
    <3>6. ~Is(m, "PUBREL", x.id)
      BY <2>1 DEF Is
    <3>7. NoneBehind(u, x.id) /\ ~Under(u, "PUBREL", x.id)
      BY <2>1, <3>5, <3>6, QueueMore DEF TypeInv, ToGwOK
    <3> QED BY <3>1, <3>4, <3>5, <3>7 DEF PubOnce, RecHeld
  <2> QED BY <2>3, <2>4
<1> QED BY <1>1, <1>2, <1>3, <1>4, ClientOnce

LEMMA PubrecOnce ==
    ASSUME TypeInv, OnceInv, Pubrec
    PROVE  OnceInv'
<1>1. /\ ~Connecting /\ Range(toClient') \subseteq Range(toClient)
      /\ UNCHANGED <<gw, got, seen>>
  BY ClientIdle DEF Receive, Pubrec, Unchanged4Takes
<1>2. CASE UNCHANGED <<pubs, toGw>>
  BY <1>1, <1>2, StillOnce
<1>3. CASE ~UNCHANGED <<pubs, toGw>>
  <2>1. PICK e \in Range(pubs) :
           /\ Sent([type |-> "PUBREL", id |-> Msg.id])
           /\ e.id = Msg.id /\ e.qos = 2 /\ e.st \in {"WAIT_PUBREC", "WAIT_PUBCOMP"}
           /\ \A x \in Range(pubs') :
                \/ x.id # e.id /\ \E y \in Range(pubs) : Same(x, y)
                \/ x.id = e.id /\ x.st = "WAIT_PUBCOMP"
    BY <1>3, PubrecEffect
  <2>2. PICK u, P : u = toGw' /\ P = Range(pubs')
    OBVIOUS
  <2>3. ASSUME OnceCalm, NEW x \in P, x.qos = 2
        PROVE  PubOnce(x, u, got, gw.held) /\ RecHeld(x, got, gw.held)
    <3> DEFINE m == [type |-> "PUBREL", id |-> Msg.id]
    <3>1. (u = toGw \/ u = Append(toGw, m)) /\ m.type = "PUBREL" /\ m.id = e.id
      BY <2>1, <2>2 DEF Sent
    <3> HIDE DEF m
    <3>2. CASE x.id # e.id
      <4>1. PICK y \in Range(pubs) : Same(x, y)
        BY <2>1, <2>2, <2>3, <3>2
      <4>2. PubOnce(y, toGw, got, gw.held) /\ RecHeld(y, got, gw.held) /\ x.id = y.id /\ x.st = y.st
        BY <1>1, <2>3, <4>1 DEF OnceInv, Same
      <4>3. NoneBehind(toGw, x.id)
        BY <4>2 DEF PubOnce
      <4>4. \A type : ~Is(m, type, x.id)
        BY <3>1, <3>2 DEF Is
      <4>5. /\ NoneBehind(u, x.id)
            /\ \A type \in {"PUBLISH", "PUBREL"} : Under(u, type, x.id) => Under(toGw, type, x.id)
        BY <3>1, <4>3, <4>4, QueueMore DEF TypeInv, ToGwOK
      <4>6. PubOnce(x, u, got, gw.held)
        BY <4>2, <4>5, OnceStill
      <4> QED BY <4>2, <4>6 DEF RecHeld
    <3>3. CASE x.id = e.id
      <4>1. x.st = "WAIT_PUBCOMP"
        BY <2>1, <2>2, <3>3
      <4>2. PubOnce(e, toGw, got, gw.held)
        BY <1>1, <2>1, <2>3 DEF OnceInv
      <4>3. NoneBehind(toGw, x.id) /\ ~Is(m, "PUBLISH", x.id)
        BY <3>1, <3>3, <4>2 DEF PubOnce, Is
      <4>4. NoneBehind(u, x.id) /\ (Under(u, "PUBLISH", x.id) => Under(toGw, "PUBLISH", x.id))
        BY <3>1, <4>3, QueueMore DEF TypeInv, ToGwOK
      <4> QED BY <3>3, <4>1, <4>2, <4>4 DEF PubOnce, RecHeld
    <3> QED BY <3>2, <3>3
  <2> QED BY <1>1, <2>2, <2>3, ClientOnce
<1> QED BY <1>2, <1>3

(* PUBACK, REGACK, SUBACK: no publication of QoS 2 is refused. *)
LEMMA AckedOnce ==
    ASSUME TypeInv, OnceInv, Puback \/ Regack \/ Suback
    PROVE  OnceInv'
<1>1. /\ ~Connecting /\ Range(toClient') \subseteq Range(toClient)
      /\ UNCHANGED <<gw, got, toGw>>
  BY ClientIdle DEF Receive, Puback, Regack, Suback, Unchanged4Takes
<1>2. CASE Puback
  <2>1. seen \subseteq seen'
    BY <1>2, PubackEffect
  <2>2. CASE PubsQuiet
    <3>1. \A x \in Range(pubs') : x.qos = 2 =>
            \E y \in Range(pubs) : x.id = y.id /\ y.qos = 2 /\ x.st = y.st
      BY <2>2 DEF PubsQuiet, Same
    <3> QED BY <1>1, <2>1, <3>1, StillOnce
  <2>3. CASE ~PubsQuiet
    <3>1. ~Msg.ok
      BY <1>2, <2>3, PubackEffect
    <3>2. Msg \in Range(toClient) /\ Msg.type = "PUBACK"
      BY <1>2, TakenOK DEF Puback, Takes, Msg
    <3>3. ~OnceCalm
      BY <3>1, <3>2 DEF OnceInv
    <3>4. ~OnceCalm'
      BY <2>1, <3>3 DEF OnceCalm
    <3> QED BY <3>4 DEF OnceInv
  <2> QED BY <2>2, <2>3
<1>3. CASE Regack
  <2>1. UNCHANGED seen
    BY <1>3 DEF Regack
  <2>2. \A x \in Range(pubs') : x.qos = 2 =>
            \E y \in Range(pubs) : /\ x.id = y.id /\ y.qos = 2
                                   /\ x.st = y.st \/ (x.st = "READY" /\ y.st = "SUSPEND")
    <3>1. CASE UNCHANGED pubs
      BY <3>1
    <3>2. CASE ~UNCHANGED pubs
      <4>1. PICK e \in Range(pubs) :
              /\ e.st = "SUSPEND"
              /\ \A x \in Range(pubs') :
                   \/ \E y \in Range(pubs) : Same(x, y)
                   \/ x.id = e.id /\ x.qos = e.qos /\ x.st = "READY"
        BY <1>3, <3>2, RegackEffect
      <4> QED BY <4>1 DEF Same
    <3> QED BY <3>1, <3>2
  <2> QED BY <1>1, <2>1, <2>2, StillOnce
<1>4. CASE Suback
  <2>1. UNCHANGED <<pubs, seen>>
    BY <1>4 DEF Suback
  <2> QED BY <1>1, <2>1, StillOnce
<1> QED BY <1>2, <1>3, <1>4

LEMMA PlainStepOnce ==
    ASSUME TypeInv, OnceInv, PlainStep
    PROVE  OnceInv'
<1>1. /\ PubsQuiet /\ UNCHANGED <<gw, got>> /\ seen \subseteq seen'
      /\ UNCHANGED toGw \/ \E m : m.type \notin {"PUBLISH", "PUBREL"} /\ Sent(m)
  BY PlainStepQuiet
<1>2. ~Connecting /\ Range(toClient') \subseteq Range(toClient)
  BY PlainStepIdle
<1>3. \A x \in Range(pubs') : x.qos = 2 =>
            \E y \in Range(pubs) : x.id = y.id /\ y.qos = 2 /\ x.st = y.st
  BY <1>1 DEF PubsQuiet, Same
<1> QED BY <1>1, <1>2, <1>3, StillOnce

(* connect() but for its end. *)
LEMMA ConnectingOnce ==
    ASSUME TypeInv, OnceInv,
           ConnectSearch \/ ConnectConnect \/ ConnectWill \/ ConnectTimeout \/ ConnectAnswer
    PROVE  OnceInv'
<1>1. /\ Connecting' /\ UNCHANGED <<gw, seen>>
      /\ UNCHANGED toClient \/ (toClient # << >> /\ toClient' = Tail(toClient))
  BY ConnectSends
<1>2. UNCHANGED <<pubs, got>>
  BY DEF ConnectSearch, ConnectConnect, ConnectWill, ConnectTimeout, ConnectAnswer,
         Unchanged4Connect, lists, history
<1>3. UNCHANGED toGw \/ \E m : m.type \notin {"PUBLISH", "PUBREL"} /\ Sent(m)
  <2>1. CASE ConnectAnswer
    BY <2>1 DEF ConnectAnswer
  <2>2. CASE ~ConnectAnswer
    <3>1. UNCHANGED nextMsgId
      BY DEF ConnectSearch, ConnectConnect, ConnectWill, ConnectTimeout, ConnectAnswer,
             Unchanged4Connect
    <3> QED BY <2>2, <3>1, ProxySends
  <2> QED BY <2>1, <2>2
<1>4. PICK u, C : u = toGw' /\ C = Range(toClient')
  OBVIOUS
<1>5. C \subseteq Range(toClient)
  BY <1>1, <1>4, TakenOK
<1>6. ASSUME OnceCalm, NEW x \in Range(pubs), x.qos = 2
      PROVE  PubOnce(x, u, got, gw.held)
  <2>1. PubOnce(x, toGw, got, gw.held)
    BY <1>6 DEF OnceInv
  <2>2. NoneBehind(toGw, x.id)
    BY <2>1 DEF PubOnce
  <2>3. /\ NoneBehind(u, x.id)
        /\ \A type \in {"PUBLISH", "PUBREL"} : Under(u, type, x.id) => Under(toGw, type, x.id)
    BY <1>3, <1>4, <2>2, PlainQueue
  <2> QED BY <2>1, <2>3, OnceStill
<1>7. OnceCalm => \A m \in C : m.type = "PUBACK" => m.ok
  BY <1>5 DEF OnceInv
<1>8. OnceCalm' <=> OnceCalm
  BY <1>1 DEF OnceCalm
<1> QED BY <1>1, <1>2, <1>4, <1>6, <1>7, <1>8 DEF OnceInv

(* After connect() every publication on the list was suspended before, or  *)
(* one of them kept its topic id.                                          *)
LEMMA ConnackOnce ==
    ASSUME TypeInv, OnceInv, Connack
    PROVE  OnceInv'
<1>1. /\ toClient # << >> /\ toClient' = Tail(toClient) /\ UNCHANGED <<pubs, gw, got>>
      /\ seen' = seen \cup Incident(\E i \in DOMAIN pubs : pubs[i].tid # 0, "renewed")
                      \cup Incident(\E m \in Range(toGw) \cup Range(toClient') : InDialogue(m), "repeated")
  BY DEF Connack, env
<1>2. OnceCalm' => OnceCalm /\ \A i \in DOMAIN pubs : pubs[i].tid = 0
  <2>1. OnceCalm' => OnceCalm
    BY <1>1 DEF OnceCalm
  <2>2. OnceCalm' => \A i \in DOMAIN pubs : pubs[i].tid = 0
    BY <1>1 DEF OnceCalm, Incident
  <2> QED BY <2>1, <2>2
<1>3. OnceCalm' => \A x \in Range(pubs) : x.st = "SUSPEND"
  BY <1>2 DEF TypeInv, PubsOK, PubOK, Range
<1>4. PICK u, C : u = toGw' /\ C = Range(toClient')
  OBVIOUS
<1>5. C \subseteq Range(toClient)
  BY <1>1, <1>4, TakenOK
<1>6. \A m \in Range(u) : m.type \in {"PUBLISH", "PUBREL"} => m \in Range(toGw)
  <2>1. \/ u = toGw
        \/ \E new : /\ u = toGw \o new /\ new \in Seq(Range(new))
                    /\ \A m \in Range(new) : \E k \in DOMAIN Subs :
                           m = Subscribe(nextMsgId + k, Subs[k])
    BY <1>4, ConnackEffect
  <2>2. CASE u = toGw
    BY <2>2
  <2>3. CASE \E new : /\ u = toGw \o new /\ new \in Seq(Range(new))
                      /\ \A m \in Range(new) : \E k \in DOMAIN Subs :
                           m = Subscribe(nextMsgId + k, Subs[k])
    <3>1. PICK new : /\ u = toGw \o new /\ new \in Seq(Range(new))
                     /\ \A m \in Range(new) : m.type = "SUBSCRIBE"
      BY <2>3 DEF Subscribe
    <3>2. Range(u) = Range(toGw) \cup Range(new)
      BY <3>1, ConcatRange DEF TypeInv, ToGwOK
    <3> QED BY <3>1, <3>2
  <2> QED BY <2>1, <2>2, <2>3
<1>7. ASSUME OnceCalm', NEW x \in Range(pubs), x.qos = 2
      PROVE  PubOnce(x, u, got, gw.held) /\ RecHeld(x, got, gw.held)
  <2>1. PubOnce(x, toGw, got, gw.held) /\ x.st = "SUSPEND"
    BY <1>2, <1>3, <1>7 DEF OnceInv
  <2>2. ~Under(toGw, "PUBLISH", x.id) /\ ~Under(toGw, "PUBREL", x.id)
    BY <2>1 DEF PubOnce
  <2>3. ~Under(u, "PUBLISH", x.id) /\ ~Under(u, "PUBREL", x.id)
    BY <1>6, <2>2 DEF Under, Is
  <2>4. NoneBehind(u, x.id)
    BY <2>3 DEF NoneBehind, Under, Range
  <2> QED BY <2>1, <2>3, <2>4 DEF PubOnce, RecHeld
<1>8. OnceCalm' => \A m \in C : m.type = "PUBACK" => m.ok
  BY <1>2, <1>5 DEF OnceInv
<1> QED BY <1>1, <1>4, <1>7, <1>8 DEF OnceInv

(* A step of the gateway in which nothing comes and nothing is refused. *)
LEMMA GatewayOnce ==
    ASSUME TypeInv, OnceInv, UNCHANGED <<status, job, pubs, got>>, seen \subseteq seen',
           toGw # << >>, toGw' = Tail(toGw), NEW h, h = gw'.held,
           OnceCalm => \A m \in Range(toClient') :
                         m \in Range(toClient) \/ (m.type = "PUBACK" => m.ok),
           OnceCalm => \A x \in Range(pubs) : x.qos = 2 /\ x.id \in gw.held \ h =>
                         /\ x.st # "WAIT_PUBREC" \/ Connecting
                         /\ ~Under(Tail(toGw), "PUBLISH", x.id)
    PROVE  OnceInv'
<1>1. PICK u, C : u = toGw' /\ C = Range(toClient')
  OBVIOUS
<1>2. OnceCalm' => OnceCalm
  BY DEF OnceCalm
<1>3. OnceCalm' => \A m \in C : m.type = "PUBACK" => m.ok
  BY <1>1, <1>2 DEF OnceInv
<1>4. Connecting' <=> Connecting
  BY DEF Connecting
<1>5. ASSUME OnceCalm, NEW x \in Range(pubs), x.qos = 2
      PROVE  PubOnce(x, u, got, h) /\ (~Connecting => RecHeld(x, got, h))
  <2>1. PubOnce(x, toGw, got, gw.held) /\ (~Connecting => RecHeld(x, got, gw.held))
    BY <1>5 DEF OnceInv
  <2>2. NoneBehind(toGw, x.id)
    BY <2>1 DEF PubOnce
  <2>3. /\ NoneBehind(u, x.id)
        /\ \A type : Under(u, type, x.id) => Under(toGw, type, x.id)
    BY <1>1, <2>2, QueueTail DEF TypeInv, ToGwOK
  <2>4. PubOnce(x, u, got, gw.held)
    BY <2>1, <2>3, OnceStill
  <2>5. x.id \in gw.held \ h => ~Under(u, "PUBLISH", x.id) /\ (x.st # "WAIT_PUBREC" \/ Connecting)
    BY <1>1, <1>5
  <2>6. PubOnce(x, u, got, h)
    BY <2>4, <2>5 DEF PubOnce
  <2>7. ~Connecting => RecHeld(x, got, h)
    BY <2>1, <2>5 DEF RecHeld
  <2> QED BY <2>6, <2>7
<1> QED BY <1>1, <1>2, <1>3, <1>4, <1>5 DEF OnceInv

(* Nothing is refused while every id is right. *)
LEMMA NothingRefused ==
    ASSUME TypeInv, RightInv, Gateway, Calm
    PROVE  \A m \in Range(toClient') : m \in Range(toClient) \/ (m.type = "PUBACK" => m.ok)
<1>1. \/ UNCHANGED toClient
      \/ \E m : toClient' = Append(toClient, m) /\ (m.type = "PUBACK" /\ ~m.ok => GwRejects)
  BY GwAnswer
<1>2. ~GwRejects
  <2> SUFFICES ASSUME GwRejects PROVE FALSE
    OBVIOUS
  <2>1. toGw # << >> /\ In.type = "PUBLISH" /\ ~Ignored(In) /\ In.tid \notin DOMAIN gw.names
    BY DEF GwRejects, GwTakes
  <2>2. In \in Range(toGw)
    BY GwAnswer
  <2>3. gw.state # "new"
    BY <2>1 DEF Ignored
  <2> QED BY <2>1, <2>2, <2>3 DEF RightInv, UpsRight, Right
<1>3. CASE UNCHANGED toClient
  BY <1>3
<1>4. CASE \E m : toClient' = Append(toClient, m) /\ (m.type = "PUBACK" /\ ~m.ok => GwRejects)
  <2>1. PICK m, d : /\ d = toClient' /\ d = Append(toClient, m)
                    /\ m.type = "PUBACK" /\ ~m.ok => GwRejects
    BY <1>4
  <2>2. Range(d) = Range(toClient) \cup {m}
    BY <2>1, AppendRange DEF TypeInv, ToClientOK
  <2>3. m.type = "PUBACK" => m.ok
    BY <1>2, <2>1
  <2> QED BY <2>1, <2>2, <2>3
<1> QED BY <1>1, <1>3, <1>4

LEMMA CalmOnce == OnceCalm => Calm
BY DEF OnceCalm, Calm

LEMMA GwReleasesOnce ==
    ASSUME TypeInv, RightInv, OnceInv, GwReleases
    PROVE  OnceInv'
<1>1. /\ toGw # << >> /\ toGw' = Tail(toGw) /\ In \in Range(toGw) /\ Gateway
      /\ UNCHANGED <<status, job, pubs, got>> /\ seen \subseteq seen'
      /\ \/ In.type = "PUBREL" /\ gw' = [gw EXCEPT !.held = @ \ {In.id}]
         \/ UNCHANGED gw
  BY GwAnswer DEF Gateway, GwReleases
<1>2. PICK h : h = gw'.held
  OBVIOUS
<1>3. gw.held \ h \subseteq {In.id} /\ (In.type = "PUBREL" \/ h = gw.held)
  BY <1>1, <1>2 DEF TypeInv, GwOK
<1>4. ASSUME OnceCalm, NEW x \in Range(pubs), x.qos = 2, x.id \in gw.held \ h
      PROVE  x.st # "WAIT_PUBREC" /\ ~Under(Tail(toGw), "PUBLISH", x.id)
  <2>1. Is(In, "PUBREL", x.id)
    BY <1>3, <1>4 DEF Is
  <2>2. PubOnce(x, toGw, got, gw.held)
    BY <1>4 DEF OnceInv
  <2>3. Under(toGw, "PUBREL", x.id) /\ NoneBehind(toGw, x.id)
    BY <1>1, <2>1, <2>2 DEF Under, PubOnce
  <2>4. x.st = "WAIT_PUBCOMP"
    BY <2>2, <2>3 DEF PubOnce
  <2>5. ~Under(Tail(toGw), "PUBLISH", x.id)
    BY <1>1, <2>1, <2>3, QueueTail DEF TypeInv, ToGwOK, In
  <2> QED BY <2>4, <2>5
<1> QED BY <1>1, <1>2, <1>4, CalmOnce, NothingRefused, GatewayOnce

LEMMA GwConnectsOnce ==
    ASSUME TypeInv, OrderInv, RightInv, OnceInv, GwConnects
    PROVE  OnceInv'
<1>1. /\ toGw # << >> /\ toGw' = Tail(toGw) /\ In \in Range(toGw) /\ Gateway
      /\ UNCHANGED <<status, job, pubs, got>> /\ seen \subseteq seen'
  BY GwAnswer DEF Gateway, GwConnects
<1>2. PICK h : h = gw'.held
  OBVIOUS
<1>3. h = gw.held \/ In.type = "CONNECT"
  BY <1>2 DEF GwConnects
<1>4. ASSUME OnceCalm, In.type = "CONNECT"
      PROVE  Connecting /\ \A id : ~Under(Tail(toGw), "PUBLISH", id)
  <2>1. In.type \in Dialogue /\ Calm
    BY <1>4, CalmOnce DEF Dialogue
  <2>2. Connecting
    BY <1>1, <2>1 DEF OrderInv, Free
  <2>3. Free(Tail(toGw), Ups)
    BY <1>1, <2>1, ApartTail DEF OrderInv, TypeInv, ToGwOK, In
  <2> QED BY <2>2, <2>3 DEF Free, Ups, Under, Is
<1> QED BY <1>1, <1>2, <1>3, <1>4, CalmOnce, NothingRefused, GatewayOnce

LEMMA GwPublishesOnce ==
    ASSUME TypeInv, MsgsInv, RightInv, OnceInv, GwPublishes
    PROVE  OnceInv'
<1>1. /\ toGw # << >> /\ toGw' = Tail(toGw) /\ In \in Range(toGw) /\ Gateway
      /\ UNCHANGED <<status, job, pubs>> /\ In.type = "PUBLISH"
      /\ got' = IF In.qos = 2 /\ In.id \in gw.held THEN got ELSE Append(got, In.id)
      /\ gw' = [gw EXCEPT !.held = IF In.qos = 2 THEN @ \cup {In.id} ELSE @]
      /\ seen \subseteq seen'
  BY GwAnswer DEF Gateway, GwPublishes, GwTakes, Sees
<1>2. PICK u, C, g, h : u = toGw' /\ C = Range(toClient') /\ g = got' /\ h = gw'.held
  OBVIOUS
<1>3. h = IF In.qos = 2 THEN gw.held \cup {In.id} ELSE gw.held
  BY <1>1, <1>2 DEF TypeInv, GwOK
<1>4. OnceCalm' => OnceCalm
  BY <1>1 DEF OnceCalm
<1>5. OnceCalm' => \A m \in C : m.type = "PUBACK" => m.ok
  BY <1>1, <1>2, <1>4, CalmOnce, NothingRefused DEF OnceInv
<1>6. Connecting' <=> Connecting
  BY <1>1 DEF Connecting
<1>7. ASSUME OnceCalm, NEW x \in Range(pubs), x.qos = 2
      PROVE  PubOnce(x, u, g, h) /\ (~Connecting => RecHeld(x, g, h))
  <2>1. PubOnce(x, toGw, got, gw.held) /\ (~Connecting => RecHeld(x, got, gw.held))
    BY <1>7 DEF OnceInv
  <2>2. NoneBehind(toGw, x.id)
    BY <2>1 DEF PubOnce
  <2>3. /\ NoneBehind(u, x.id)
        /\ \A type : Under(u, type, x.id) => Under(toGw, type, x.id)
    BY <1>1, <1>2, <2>2, QueueTail DEF TypeInv, ToGwOK
  <2>4. got \in Seq(Range(got))
    BY OfItsRange DEF TypeInv, HistoryOK
  <2>5. CASE In.id = x.id
    <3>1. In.qos = 2
      BY <1>1, <1>7, <2>5 DEF MsgsInv, UpFits
    <3>2. Under(toGw, "PUBLISH", x.id) /\ x.st \notin {"READY", "SUSPEND"} /\ x.id \in h
      BY <1>1, <1>3, <2>1, <2>5, <3>1 DEF Under, Is, PubOnce
    <3>3. Once(g, x.id)
      <4>1. CASE x.id \in gw.held
        BY <1>1, <1>2, <2>1, <2>5, <3>1, <4>1 DEF PubOnce
      <4>2. CASE x.id \notin gw.held
        <5>1. x.id \notin Range(got) /\ Once(got, x.id)
          BY <2>1, <3>2, <4>2 DEF PubOnce
        <5>2. g = Append(got, x.id)
          BY <1>1, <1>2, <2>5, <4>2
        <5> QED BY <2>4, <5>1, <5>2, OnceAppend
      <4> QED BY <4>1, <4>2
    <3>4. Under(u, "PUBREL", x.id) => x.st = "WAIT_PUBCOMP"
      BY <2>1, <2>3 DEF PubOnce
    <3> QED BY <2>3, <3>2, <3>3, <3>4 DEF PubOnce, RecHeld
  <2>6. CASE In.id # x.id
    <3>1. gw.held \subseteq h
      BY <1>3
    <3>2. PubOnce(x, u, got, h)
      BY <2>1, <2>3, <3>1, OnceStill
    <3>3. Once(g, x.id) /\ (x.id \in Range(g) => x.id \in Range(got))
      <4>1. CASE g = got
        BY <2>1, <4>1 DEF PubOnce
      <4>2. CASE g = Append(got, In.id)
        <5>1. Once(got, x.id)
          BY <2>1 DEF PubOnce
        <5>2. Range(g) = Range(got) \cup {In.id}
          BY <2>4, <4>2, AppendRange
        <5> QED BY <2>4, <2>6, <4>2, <5>1, <5>2, OnceAppend
      <4> QED BY <1>1, <1>2, <4>1, <4>2
    <3> QED BY <2>1, <3>1, <3>2, <3>3 DEF PubOnce, RecHeld
  <2> QED BY <2>5, <2>6
<1> QED BY <1>1, <1>2, <1>4, <1>5, <1>6, <1>7 DEF OnceInv

LEMMA GwOnceStep ==
    ASSUME TypeInv, MsgsInv, OrderInv, RightInv, OnceInv, Gateway
    PROVE  OnceInv'
<1>1. CASE GwIgnores \/ GwRegisters \/ GwRejects
  <2>1. /\ toGw # << >> /\ toGw' = Tail(toGw)
        /\ UNCHANGED <<status, job, pubs, got>> /\ seen \subseteq seen'
    BY <1>1, GwAnswer DEF GwIgnores, GwRegisters, GwRejects
  <2>2. PICK h : h = gw'.held
    OBVIOUS
  <2>3. h = gw.held
    BY <1>1, <2>2 DEF GwIgnores, GwRegisters, GwRejects, TypeInv, GwOK
  <2> QED BY <2>1, <2>2, <2>3, CalmOnce, NothingRefused, GatewayOnce
<1> QED BY <1>1, GwReleasesOnce, GwConnectsOnce, GwPublishesOnce DEF Gateway

LEMMA OnceInvStep ==
    TypeInv /\ MsgsInv /\ OrderInv /\ RightInv /\ OnceInv /\ [Next]_vars => OnceInv'
<1> SUFFICES ASSUME TypeInv, MsgsInv, OrderInv, RightInv, OnceInv, [Next]_vars PROVE OnceInv'
  OBVIOUS
<1>1. CASE \E name \in config.names, qos \in config.qos : AppPublish(name, qos)
  <2>1. config.qos \subseteq 0..2
    BY DEF TypeInv, ProxyOK, Config
  <2> QED BY <1>1, <2>1, AppPublishOnce
<1>2. CASE PlainStep
  BY <1>2, PlainStepOnce
<1>3. CASE Connect
  BY <1>3, ConnectingOnce, ConnackOnce DEF Connect
<1>4. CASE SendPublish \/ Puback \/ Pubrec \/ Regack \/ Suback
  BY <1>4, SendPublishOnce, PubrecOnce, AckedOnce
<1>5. CASE Gateway
  BY <1>5, GwOnceStep
<1>6. CASE GwRestart
  <2>1. PICK h : h = gw'.held
    OBVIOUS
  <2>2. /\ h = gw.held
        /\ UNCHANGED <<status, job, pubs, got, toGw, toClient, seen>>
    BY <1>6, <2>1 DEF GwRestart, TypeInv, GwOK, client, lists, proxy, net, history
  <2> QED BY <2>1, <2>2 DEF OnceInv, OnceCalm, Connecting
<1>7. CASE UNCHANGED vars
  <2>1. UNCHANGED <<status, job, pubs, got, toGw, toClient, gw, seen>>
    BY <1>7 DEF vars, client, lists, proxy, net, env, history
  <2> QED BY <2>1 DEF OnceInv, OnceCalm, Connecting
<1> QED BY <1>1, <1>2, <1>3, <1>4, <1>5, <1>6, <1>7
        DEF Next, Application, Client, Resume, Receive, PlainStep

LEMMA OnceInvInit == Init => OnceInv
BY DEF Init, OnceInv, Range

(* A number that comes once in a sequence is counted once. *)
LEMMA OnceTimes ==
    ASSUME TypeInv, NEW id, Once(got, id)
    PROVE  Times(id) <= 1
<1> DEFINE S == {k \in DOMAIN got : got[k] = id}
<1>1. \A k, l \in S : k = l
  BY DEF Once
<1>2. CASE S = {}
  BY <1>2, FS_EmptySet DEF Times
<1>3. CASE S # {}
  <2>1. PICK k : k \in S
    BY <1>3
  <2>2. S = {k}
    BY <1>1, <2>1
  <2>3. Cardinality(S) = 1
    BY <2>2, FS_Singleton
  <2> QED BY <2>3 DEF Times
<1> QED BY <1>2, <1>3

(* A publication of QoS 2 reaches the broker once, for any number of       *)
(* topics, publications, losses and restarts of the gateway, unless it was *)
(* sent again while it waited for PUBCOMP, was waiting when the client     *)
(* connected again, or a part of a connection's dialogue outlived it.      *)
THEOREM Qos2OnceCorrect == Spec => []Qos2Once
<1> DEFINE Inv == TypeInv /\ MsgsInv /\ OrderInv /\ RightInv /\ OnceInv
<1>1. Init => Inv
  BY TypeInvInit, MsgsInvInit, OrderInvInit, RightInvInit, OnceInvInit
<1>2. Inv /\ [Next]_vars => Inv'
  BY TypeInvStep, MsgsInvStep, OrderInvStep, RightInvStep, OnceInvStep
<1>3. Inv => Qos2Once
  <2> SUFFICES ASSUME Inv, OnceCalm, NEW i \in DOMAIN pubs, pubs[i].qos = 2
               PROVE  Times(pubs[i].id) <= 1
    BY DEF Qos2Once, OnceCalm
  <2>1. Once(got, pubs[i].id)
    BY DEF OnceInv, PubOnce, Range
  <2> QED BY <2>1, OnceTimes
<1> QED BY <1>1, <1>2, <1>3, PTL DEF Spec
=============================================================================
