# Verification of AsyncMQTT-SN

AsyncMQTT-SN is an MQTT-SN gateway (`AsyncGateway`, a process of five threads),
a client library for sensor nodes (`AsyncClient`, a single loop) and a monitor
that shows the gateway's log (`LogMonitor`). This directory holds TLA+ models of
its parts, TLC configurations that check them on small instances, and proofs
checked by TLAPS. `PROJECT.json` maps every definition to the lines it models
and lists the hazards of the code with the properties that cover them.

## The system

### Parts, state and operations

| Part | State | Operations |
|---|---|---|
| `EventQue` (ProcessFramework.h) | a `std::queue` under a mutex, a semaphore | `post`, `wait`, `timedwait` |
| `ClientNode` (GatewayResourcesProvider.cpp) | `_status`, keep-alive timer, `_mqttConnect`, the flags and the saved CONNACK of the will dialogue, five `MessageQue`s, awaited topic ids, topics, the connection to the broker | `updateStatus`, `connectQued`, `connectSended`, `connackSended`, `disconnected`, `checkTimeover`, `checkConnAck`, `checkGetConnAck`, ... |
| `ClientRecvTask` (thread R) | - | receives from the sensor network, finds or makes the node, `setClientRecvMessage`, posts to `gatewayEventQue` |
| `GatewayControlTask` (thread C) | protocol version, timers | takes events of `gatewayEventQue`; one handler per message type; the time-out |
| `BrokerSendTask` (thread S) | buffer | takes events of `brokerSendQue`, serialises, connects if necessary, sends |
| `BrokerRecvTask` (thread B) | - | `select` over all connections, `recv`, pushes to the node, posts to `gatewayEventQue` |
| `ClientSendTask` (thread CS) | - | takes events of `clientSendQue`, sends to the sensor network |
| `TCPStack`, `TLSStack` | socket, SSL session, `_disconReq`, a semaphore, a mutex | `connect`, `send`, `recv`, `isValid`, `disconnect` |
| `ClientList` | vector of nodes under a mutex | `createNode`, `getClient`, `authorize` |
| `TopicIdMap`, `Topics` | awaited topic ids by message id; list of topics | `add`, `erase`, `getTopicId`, `match` |
| `RingBuffer`, LogMonitor | text in shared memory between two indices | `put`, `get`, `reset` |
| client `GwProxy` | connection status, retry counters, timers | `connect`, `disconnect`, `getMessage`, ping, advertise |
| client `PublishManager`, `SubscribeManager`, `RegisterManager` | doubly linked lists of requests with retry counters | `add`, `send`, `responce`, `checkTimeout`, `remove` |
| client `TopicTable`, `TaskManager` | topics with callbacks; tasks with suspension counts | `match`, `execCallback`; `run` |

An `Event` names a node and a kind, not a message: the thread that takes it
reads the front of one of the node's `MessageQue`s, and deleting the event
deletes that front. The five threads share the nodes; no field of a node is
locked. The connection is closed by a handshake in which one thread requests
and another, at its next `isValid()`, performs and signals.

### What is hard

* threads interleave between any two accesses to a node, and most methods test
  `_status` and then assign it;
* messages and events travel in separate queues;
* the semaphore of an event queue is signalled by a test and a post that are
  not one step;
* clients retransmit, restart and fall asleep; the broker refuses, closes, and
  is closed by three different threads;
* nothing bounds the queues, and some loops end only if the right thread moves.

### What makes each part correct

* event queue: a FIFO queue that loses, repeats and invents nothing, whose
  consumer is woken for every event and never pops an empty queue;
* connection: each event finds its message; a CONNECT is forwarded once, with
  its will and with a live object; a CONNACK "accepted" stands for a session the
  broker accepted; every CONNECT is answered; no handler runs for ever;
* broker connection: `disconnect()` returns, nobody uses a closed socket;
* relay: a message of QoS n is delivered n times as promised, acknowledgements
  return to the request they answer, a sleeping client loses nothing;
* lists and maps: links stay consistent, ids in use are not given out again;
* wire: what one end means is what the other end reads, octet by octet;
* client: every request ends in an answer or a visible failure, whatever is
  lost; the loop never waits for what cannot come;
* ring buffer: the reader gets a suffix of what was written.

## Modules

| Module | Models |
|---|---|
| `FifoQueue` | abstract specification: events are posted, and taken in order |
| `EventQue` | the event queue, each lock, signal and pop a step |
| `GatewayConnect` | a client node and the five threads that share it: connection, will, sleep, keep-alive |
| `BrokerStack` | the connection to the broker of a client, shared by three threads |
| `GatewayRelay` | topics, registrations, subscriptions, publications and their acknowledgements through the control task |
| `ClientNode` | the client library: `GwProxy` and the managers of publications, registrations and subscriptions, with a network and a gateway |
| `LogRing` | the log in shared memory between the gateway and `LogMonitor` |
| `Octets` | numbers, strings, remaining length and XBee escapes as octets |
| `SnMessages`, `ClientMessages`, `MqttMessages` | the messages as the gateway's and the client's classes write and read them |
| `XBeeFrames` | frames on the serial lines, as both programs and the modem treat them |
| `Wire` | a session octet by octet: client, carrier, gateway, connection, broker |
| `MC...` | instances of these for TLC |
| `...Proofs` | theorems about `EventQue`, `GatewayConnect`, `BrokerStack`, `GatewayRelay`, `LogRing`, `Octets` |
| `ClientNodeProofs`, `ClientTopicProofs` | theorems about `ClientNode`; the second extends the first |

`GatewayRelay` takes the queues of `EventQue` and the node of `GatewayConnect` as
given; `GatewayConnect` takes connections as `BrokerStack` shows them. `ClientNode`
and `GatewayRelay` decide, with messages as records; `Wire` composes the
message modules with both programs and decides as little as it can.

### EventQue

`que` is `_que`, `sem` the value of `_sem`, `step[p]` where posting thread `p` is
in `post()`, `posted[p]` how many events it has pushed; `consumer` is "blocked" in
the semaphore call or "popping", and `taken` is the history of what the call
returned. `Push`, `GetValue`, `Signal` are the three steps of `post()`: the
locked push, `sem_getvalue` with its test, and `sem_post` if the value was read
as 0. The consumer's step is the end of the semaphore call, then the locked
pop; the locked region is one step, since nothing else is accessed in it.
`timed`, chosen in the initial state, tells `timedwait()` from `wait()`. The default constructor of
`Semaphore` initialises a temporary; a semaphore in fresh memory is taken to
be 0, since otherwise the first `wait()` would pop an empty queue.

`EventQue` implements `FifoQueue` with `queue <- que` (`ImplementsFifo`), both as
a property of the run and as a theorem.

### GatewayConnect

State. `known` says that the client has a node; `status`, `connMsg`, `saveFlg`,
`waitFlg`, `connAck` are `_status`, `_mqttConnect`, `_connAckSaveFlg`,
`_waitWillMsgFlg`, `_connAck`. `heap` records, for each `MQTTConnect`, if it
needs a will, if it got one, and if it was deleted; other messages are values.
The five `MessageQue`s and the three event queues are sequences. `r`, `c`, `s`
say where R, C and S are and hold their local variables; B and CS have no state
between two rounds. `conn` is the connection to the broker as the broker knows
it: closed, with a session, or cut (closed by the broker, unknown to the
gateway); `fromBroker` is what B will receive.

Steps. A method of `ClientNode` that tests `_status` and assigns it is two
steps, the load (`seen`) and the store, so that a store may overwrite what
another thread has assigned in between. Every call of a handler that another
thread can tell from the next one is a step: `push`, `post`, each
`isConnectSendable()`. Each handler's steps follow each other in the order of
the code, `c.at` naming the next. Deleting an event, the last thing every loop
does, is `Done`, `BrokerDone` and `SendDone`.

Data. A message is its type and what its handlers test: the will flag of a
CONNECT, whether a DISCONNECT has a duration, the return code of a CONNACK, if
a PUBLISH has QoS 1. PINGREQ stands for all messages that C passes to S without
looking at the connection. Return codes other than "accepted" are one. A PINGREQ
wakes any sleeping client: `getClientId()` of it is a pointer into the message
(Messages.cpp:1055), never null, so the test of GatewayResourcesProvider.cpp:361
always succeeds. `handleSnWillTopic` tests the node's `MQTTConnect` and writes
into it in one step; with other threads at work S might delete it in between, as
it may before the second step of `handleSnWillMsg`, which the model has.

Environment. `Inputs` are the messages the client may send, at any time, or,
with `Prompt`, only when the gateway has nothing left to do, as a client does
whose retry timer is longer than the gateway takes. The broker answers
CONNECT and PINGREQ, may publish, and cuts a connection on which something
precedes the CONNECT; with `StrictBroker` on a second CONNECT, too, as MQTT
demands. With `BrokerFails` connections fail at any time. Events are taken from
FIFO queues, which is what `EventQue` was shown to implement; the wake-up that
`wait()` may miss is not repeated here.

A null `MQTTConnect` that S takes from its queue ends the process: `Alive`
is a conjunct of every step.

### BrokerStack

`GatewayConnect` takes it for granted that a connection is closed when it is to
be closed; `BrokerStack` is how. `disconnect()` sets `_disconReq` and waits for a
semaphore; the thread that next calls `isValid()` closes the socket and posts.
No field is locked, so each access to a field that another thread may assign
is a step: in `isValid()` the test of the descriptor (`Valid`), that of the
request (`ValidReq`), the four steps of `close()` (`CloseTest`, `OsClose`,
`ClearSock`, `ClearReq`), the two of `Semaphore::post()` (`Post`, `Signal`).
`at[t]` is where thread t is, `caller[t]` what called `isValid()` or `close()`
and therefore what follows. `isValid()` is not virtual: `TLSStack`'s, on
`_ssl` and its own `_disconReq`, is called by the tasks and by
`TLSStack::connect()`, and `TCPStack`'s by `TCPStack::connect()` (`Tls`).

S takes any message, and closes after a DISCONNECT or a failed `send()` or
`connect()`; B polls, and ends a TLS session in `recv()` when the broker does;
`requesters` are the other threads that call `disconnect()`: C for a silent
client, B for an ill-formed PUBLISH. They, and `secureFlg`, are chosen in the
initial state from the sets `Requesters` and `Secure`. What makes C find a client silent is not
modelled here: it may do so at any time. Whether `send()` succeeds is the
environment's choice, except on a closed socket, where it fails; a null `_ssl`
handed to OpenSSL ends the process. Data and partial reads and writes are left
out: `send()` and `recv()` are one step, under the mutex, and only the end of a
session is longer. So is `_addrinfo`, which `close()` in one thread and `connect()` in
another free (TCPStack.cpp:86-89, 167-168): it is not part of what is open.

`TCPStack::connect()` may fail before there is a socket, close the one that was not
connected (`ConnectFails`), or, when `setsockopt()` fails, return without closing or
keeping it (TCPStack.cpp:184-186): `OptionFails`. The last is a leak, which the
history `stray` records; `NoLeak` is about all other sockets.

Sockets are numbered as they are opened. The system gives descriptors out
again, so what the model shows as a second `close()` of one socket may close
that of another client.

### GatewayRelay

State. `topics` and `nextTopicId` are the node's `Topics`; `pubMap` and `subMap` its
two `TopicIdMap`s; `sleepQue` what is saved for a sleeping client; `gwQue`
`gatewayEventQue`, each event with its message, as `EventsPaired` allows. `at` and
`cur` are where the control task is in `handlePublish` and what it has there.

Steps. The control task is one thread, so a handler is one action (`SnPublishForward`,
`SnSubscribe`, `SnRegister`, `Puback`, `Suback`, ...), except where it reads
`_status` twice: between the two reads of `handlePublish` the receiving thread
may assign it, so the REGISTER and the PUBLISH of one publication are decided
separately (`RegisterAsleep`, `RegisterActive`, `PublishAsleep`, `PublishActive`), and a
client that is in neither state at its turn gets nothing (`untold`). Left out are
the transitions to Lost, with which the node is in neither state, too, and the
second `isSleep()` of the branch for an Active client (GatewayControlTask.cpp:1020-1022),
which would save the REGISTER that is then sent as well.
`TopicIdMap::add` dereferences `end()` when the map is full and the key is greater
than all others; `Victim` is what libstdc++ does then.

Environment. The client is one of `Clients`: what types of messages and topics it
uses and how many it sends; it uses only ids it was told and repeats what it
likes. The broker is any MQTT broker: it answers, accepts or refuses
subscriptions, and publishes on any topic. Both links are FIFO. `told`, `unacked`,
`asked` are what the client knows; `used` records habits (`Habit`) under which a
property is not claimed.

What was met while modelling: a PUBLISH for a short or predefined topic is
never found and is rejected, as every topic is added with type NORMAL;
`BrokerSendTask::run` has no branch for PUBREC and PUBCOMP, so QoS 2 towards
clients never completes; entries of QoS 2 PUBLISHes are never erased from the
map; UNSUBSCRIBE by name is forwarded without it; a rejected SUBACK leaves the
topic in the table; saved messages outlive a clean CONNECT; a repeated CONNECT
replaces the `Topics`.

### ClientNode

State. `status`, `retry`, `buf`, `ping` are `_status`, `_retryCount`, `_msg`,
`_pingRetryCount` of `GwProxy`; `topicTbl` the `TopicTable`; `pubs`, `regs`, `subs` the
lists of the managers, an element of `pubs` with the id its `prev` pointer
leads to. The client is one thread: `connect()` and `disconnect()` are loops
inside it, `job` is what their caller does when they return, and `tasks` says that the
application's tasks are being run. `Connect...` and `Disconnect...` are the rounds of the two loops,
`Puback` to `TakeOther` what `getMessage()` does with a message, `...Expired` what
the timers do, `AppPublish` and `Disconnect` the calls of the application.

Environment. The network loses a message, or delivers it after its time-out, as
often as `config.faults` says; the gateway with its broker answers each message
at once, accepts every CONNECT, and may be restarted, when it forgets the
client and its topics. `config` also fixes search, clean session, will and the qualities of service
a client uses.

`seen` names what a property sets aside, because the code does not meet it then:
`renewed`, a publication was on the list when `connect()` cleared the topics;
`resent`, a publication waiting for PUBCOMP was sent as PUBLISH again; `gaveUp`,
a REGISTER used up its retries; `shared`, two publications waited for one
REGACK and only the first is resumed; `stale`, one was refused for an id that the
table no longer has for its topic; `repeated`, `checkPingReq()` sent `_msg` again,
which is the CONNECT or the will's part of it (GwProxy.cpp:435), or another part of
a dialogue outlived it. `corrupt` says that `remove()` went through the pointer to a
freed element, which happens when PUBACKs come out of order with three
publications under way; the client stops there.

Left out: when the gateway is lost and none is to be searched for,
`connect()` calls `getConnectResponce()` once before it writes the CONNECT
(GwProxy.cpp:136-166), which drops a message that is there, or sends `_msg` again if its
time is up; the branch of a refused CONNACK (181-183), which `Wire` has; and that a duration of 1024 seconds
and more may leave the bit of a clean session in `_msg` (202), taken to be
clear. The flags left in the buffer are in `Wire` (`stale`).

What was met besides: a client with a non-clean session clears its ids at
CONNACK all the same; the id in a REGISTER from the gateway is not read;
`disconnect()` waits for `GW_SLEPT`, which nothing assigns;
`handleDisconnect` of the gateway serves a packet that no broker sends.

### LogRing

`start`, `end`, `buffer` are the shared memory, the characters numbered as they
were logged; `PutStart`, `PutEnd`, `GetLen`, `GetStart` are the case analyses of
`put()` and `get()`. `owner` holds the mutex, `key` says what the ring's and the
mutex's key and the semaphore's name lead to: "shared" is what the gateway uses,
"other" what a later monitor makes when that has lost its name. Between lock
and unlock only one process is inside, so each of the two functions is one
step; locking, unlocking, reading the semaphore's value and signalling are steps
of their own. The gateway's threads exclude each other by a mutex of the
process and are one writer. The monitor is started, ended by a signal - whose
handler runs the destructors - and killed, at any step (`MonitorStart`,
`MonitorSignal`, `MonitorLeave`, `MonitorKill`).

The properties set three things aside, each recorded where it happens. `brink`: a
`get()` met exactly `ReadMax` characters or one more; in the first case it leaves
`start = end` away from 0, where `put()` writes an error text without a look at the
room, in the second it leaves a character that is then taken for none.
`overrun`: a text reached unread text, or unread text spanned the end of the
ring, in which case `put()` moves the start although there is room. `torn`: a
constructor initialised the mutex while the other process held it.

### Octets, messages, frames and Wire

`Octets` holds the conversions that all others are made from; each class of
`Messages.cpp` is an operator that writes (`SnPublish`, `MqConnect`, ...) and one that
reads. `ClientMessages` is the client's side, which writes into one buffer:
`ConnectFlags` are what an earlier message has left in it unless a flag is asked
for. `XBeeFrames` is sending with escapes and checksum, the state machine of
`readApiFrame` of each program, and what a modem makes of a frame. Recursion there
halves a sequence, for TLC's stack; no theorem is in a module that reaches it.

`Wire` runs one of ten sessions: `cfg` fixes the carrier, the first message and
frame ids, the will, login, protocol, the client's script, what the broker
publishes or refuses, and what foreign nodes send. The client follows the script and its
dialogue, the gateway handles a message at once (`Upstream`, `Downstream`), so
that what is left is reading, writing and carrying. `said` and `brokerSaid` are what
client and broker mean, `brokerRead` and `heard` what the other end reads. A
datagram, or an octet on a serial line, may be lost once; a packet of the broker
may arrive in two segments.

`disturbed` names what may cost a message: `lost`; `split`, two segments;
`collision`, the client took a message for its modem's status; `frame`, a frame id
that the modem takes for a START or an ESCAPE; `foreign`, another node's message
taken for the gateway's; `long`, a payload beyond 128 octets, one octet of which
is not sent; `stale`, flags left in the buffer; `closed`, the broker refused;
`again`, a publication repeated; `garbled`, a loss that a checksum need not
notice. Every property says which of these it claims nothing for, and the
others are claimed through all of them.

Some fields are lost between the ends whatever the carrier does. What is said has them
whole, and the comparisons leave them out by name. On the way up (`Claimed`): a will's
QoS and retain, a client id beyond 23 octets, and the topic of an
UNSUBSCRIBE. On the way down (`ClientTakes`): DUP and RETAIN of a publication that the
broker has retained, since `handlePublish()` marks it with `setDup()`
(GatewayControlTask.cpp:1043-1045); the client's reader asks for neither flag. What is
said of a CONNACK and a SUBACK is said in the codes that MQTT-SN has, and the QoS
granted is not compared. The reasons: `GwProxy::initialize` takes `willQos` and
`willRetain` for flags as they are (GwProxy.cpp:84-85), `MQTTSnWillTopic::getQos` has `&&`
for `&` (Messages.cpp:411) and is always 0, and no one sets the retain of the will;
`handleSnUnsubscribe` sets the name only of topics that it finds by an id
(GatewayControlTask.cpp:468), and the client sends a name, so the broker gets an empty one.
With any of these fields compared, TLC finds the properties violated.

## Runs

| Run | Question | Result |
|---|---|---|
| `event_queue` | two posting threads, three posts each, `wait()` or `timedwait()`: never a pop of an empty queue (`WaitPopsAnEvent`), FIFO (`ImplementsFifo`), every event returned by `timedwait()` (`EveryPostTaken`) | holds |
| `gateway_chaos` | any two messages at any time, a publication, connections that fail, a strict broker: types, a message for every event (`EventsPaired`), no made-up acceptance (`AcceptedByBroker`), no CONNECT without its will (`WillForwarded`) | holds |
| `gateway_prompt` | any four messages of a patient client, a publication, a broker that accepts: `ConnectValid`, `ActiveHasSession` | holds |
| `gateway_answered` | any five messages of a patient client, a broker that accepts or refuses: a CONNECT that meets no waiting for a will is answered (`FreshConnectAnswered`) | holds |
| `gateway_flush` | a sleeping client with a saved message connects: does the handler end? | violated |
| `gateway_retry` | a client repeats its CONNECT before the answer: is it answered? | violated |
| `stack_shared` | with or without TLS, any thread disconnects: sockets closed once (`ClosedOnce`), none forgotten but where `setsockopt()` fails (`NoLeak`), the TLS session is that of the socket (`SessionOnSocket`), `disconnect()` returns (`HandedBack`) when its connection is closed (`ReturnsClosed`) | holds |
| `stack_secure` | TLS, S alone disconnects: does `disconnect()` return? | violated |
| `relay` | three kinds of client, a broker that publishes: ids distinct (`IdsDistinct`), publications keep their names (`NeverMisrouted`), ids told before use (`RegisteredFirst`), the id a PUBACK needs is kept (`IdKept`), QoS 1 answered (`PublishAnswered`) | holds |
| `log_ring` | texts of two and three characters, a monitor stopped at any step: `InBounds`, `InOrder`, `OneInside`, what is logged is shown (`LogShown`), `put()` returns (`PutReturns`) | holds |
| `client` | five clients, a lossy network, a gateway that restarts: finished publications have arrived (`DoneArrived`), on their topic (`NeverMisrouted`), QoS 2 once (`Qos2Once`), a suspended one has a REGISTER (`SuspendedIsRegistered`), all complete (`Completed`), `connect()` and `disconnect()` end (`JobEnds`) | holds |
| `wire` | ten sessions: what is read is what was said, up (`BrokerReadsSaid`) and down (`ClientReadsSaid`), and in the end all of it (`AllArrive`), but for the fields named above | holds |

Bounds. Two posting threads with three posts each let a signal be skipped, be
given twice, and be overtaken by a time-out; nothing in the queue depends on
more. `MaxRecv` counts the client's messages: two suffice for every pair of
handlers to overlap, and for the overtaking found in `gateway_retry`; three for
a client that connects, sleeps and connects; four for a complete dialogue or a
connection, sleep and reconnection, with a message to spare; five in
`gateway_answered` for all that four can leave behind, and a CONNECT. `MaxPublish` is 1
where the sleep queue matters. `MaxQueue` stops the endless loop of the flush from
filling `clientSendQue`; it restrains no other step. `MaxOpen` counts connections:
two suffice for what is left over of one to meet the next; the proofs need no
bound.

`relay`: two names, one of them short, ids of `Wrap` = 6 values of which two are
predefined, so the counter's end is near; a map of two entries, full
with the third PUBLISH; five messages for the client that registers and publishes (a CONNECT, two
REGISTERs and two PUBLISHes), fewer where topics of all types multiply the
choices. `log_ring`: a ring of six characters, reads of four, texts of two and
three: four texts fill the ring and go around it, reads end before, at and
beyond the end; two starts let a monitor be replaced by one that finds what the
first has left. The proofs are for all sizes. `client`: two retries (the code's value does not
matter to the proofs), a list that is full with two publications, two publications (three for the client that uses
QoS 1 alone, as the pointers go wrong with three), one loss or late answer, one
restart. `wire`: message ids that pass 65535 or have octets special to a modem,
payloads of 0, 128 and 129 octets, an id longer than 23 octets, durations with a high
octet; each session has what makes one of these happen, and within it every
order of reading and writing is explored.

Fairness. Weak fairness of each thread's steps: the threads are scheduled by
the operating system with no priorities, none waits inside a step that the
model lets it take, and each loops for ever. The clients' and the broker's new
messages, publications and cuts are not fair. In `BrokerStack` S is fair once it
has taken a message, B always, C once it disconnects: messages and silent
clients need not come. In `GatewayRelay` the links deliver. In `ClientNode` the
client's thread and its retry timers are fair, the gateway answers; calls of
the application and a keep-alive are not, and losses are bounded by the configuration, so
that a client whose retries are used up is one that lost them. In `LogRing` the
writer and the monitor go on once started, and `MonitorLock` is strongly
fair: the processes take turns at the mutex, which is free again and again.

Deadlock is not checked: the environments have finite budgets, and when they
are used up the threads wait for events for ever.

### What the violations show

* `gateway_flush`: `handleConnack` reads the front of the sleep queue in a loop
  that never pops it.
* `gateway_retry`: `handleSnConnect` asks `isConnectSendable()` twice; between
  the two `BrokerSendTask` turns TryConnecting into Connecting, and a null
  pointer is queued for the broker.
* `stack_secure`: the secure `isValid()` closes the connection without posting
  the semaphore, so the first DISCONNECT leaves S waiting for ever.

Other behaviours lie outside of what the properties claim, each by a condition
in the property itself. `EveryPostTaken` is claimed of `timedwait()`:
`Semaphore::post` reads the value before it signals, so two posts while the
consumer of a `wait()` has not yet woken leave one wake-up for two events, and the
second stays until somebody posts again; `BrokerSendTask` and `ClientSendTask`
wait this way.

`FreshConnectAnswered` is claimed of a CONNECT without will that meets
neither flag of a will dialogue (`_connAckSaveFlg`, `_waitWillMsgFlg`), and of a
broker that does not mind a second CONNECT: SEARCHGW resets the status of a known client and leaves its connection
open, and a strict broker then cuts it. As for the flags: a WILLMSG of a client that awaits no CONNACK sets
`_waitWillMsgFlg` (`checkGetConnAck`, GatewayResourcesProvider.cpp:396), and nothing clears it
before the next CONNECT, whose CONNACK `checkConnAck` therefore keeps. With a patient
client and a broker that accepts, CONNECT, SEARCHGW, WILLMSG, CONNECT suffice: the second
CONNECT is never answered. Without the condition on the flags, `ConnectAnswered`, TLC finds
this with four messages.

`DisconnectReturns` fails without TLS, too, as soon as `Requesters` lets another
thread disconnect. With C, both C and S find the connection, ask for its end and
wait; it is closed once, and one of them is woken. With B, B waits for an
`isValid()` that only S could still call, and S may be waiting, too. So
`stack_shared` checks `HandedBack`, which says it of S alone. `ClosedOnce` is
restricted likewise (with C, S and B may close at once), `NoLeak` and
`SessionOnSocket` to S alone but with TLS as well; `Settled` and
`WakeUpsBounded` are proved whoever disconnects.

A hazard whose own case a property sets aside in this way is not caught by that property
going wrong in that case; the property says that nothing else goes wrong with
it. The notes in `PROJECT.json` say for which hazards that is so.

## Proofs

`EventQueProofs` proves, for any set of posting threads, any bound on posts and
either kind of consumer: type correctness, `SemWithinPosters`,
`WaitPopsAnEvent`, and that `EventQue` implements `FifoQueue`. The argument is the
inductive invariant `IndInv`: the value of the semaphore, the wake-up a consumer
holds, and the signals about to be given never exceed what is queued
(`WakeupsPaid`), and signals never exceed the posters that are past their push
(`SignalsWithinPosters`). `WaitPopsAnEvent` alone is not inductive: a consumer
that is about to pop has a wake-up, and only `WakeupsPaid` says that an event
pays for it. The constants' assumptions are those of `EventQue` (`MaxPosts` is a
natural number, the set of threads is finite).

`GatewayConnectProofs` proves, for any set of inputs and return codes, any
bounds, and either kind of network, client and broker, type correctness
(`TypeCorrect`) and that there is exactly one message for each event
(`PairedCorrect`). That is why no thread that takes an event finds empty the
queue whose front it reads and pops, although events and messages travel in
separate queues and several threads push to both. Its assumptions are those of
`GatewayConnect`: the bounds are natural numbers, the inputs are messages of a
client, the codes are codes.

Neither part is inductive by itself. The types need the pairing: the front of an
empty queue is of no type. The pairing needs the types, and that SEARCHGW, the
one message for which an event is posted with nothing stored, never enters
`clientRecv` (`NoSearchGw`). A handler's field accesses need that it runs on a
message of its type until it has ended (`HandlerFits`), and the number of
`MQTTConnect` objects stays within the heap of the model only because each is
made for a message received (`MadeFor`). `IndInv` is the conjunction of the
five. `IsReady` derives from it what every taker of an event relies on (`Ready`);
then there is a lemma for each part of `IndInv`, with a step for each action that
touches the part's variables. The pairing is counted: `CountAppend` and
`CountTail` say by how much an event queue's number of entries of a kind changes.

On this invariant rest two more theorems of the same module and generality.
The first is `AcceptedByBroker`. An acceptance passes from the
connection to `brokerRecv`, from there either to `clientSend` or, during a will
dialogue, to the node, and from there to `clientSend`; `Credit` counts it in all of
these places and bounds the sum by what the broker has granted. Between the push of a
CONNACK and its event's deletion, the message is in two queues at once, which
`Used` allows for. What is pushed is the code that the front of the queue has
(`Carried`), and a saved message is a PUBLISH (`Sleeping`), so that the endless loop of the
flush, too, sends no acceptance.
The second is `WillForwarded`. An object in the node has a will, and its
message exactly while C is in the second half of `handleSnWillMsg` (`Held`); one that
was just made has no message (`Fresh`). `Held` needs that an object without will is
never left behind: the second `isConnectSendable()` of `handleSnConnect` does not
refuse what the first one allowed, since no other thread assigns Lost or
TryConnecting (`Sendable`). The opposite change of mind is possible, and is the null
pointer that `gateway_retry` shows.

The last two theorems of the module need a patient client (`Prompt`), which sends
when the gateway has settled, as does one that awaits the answers. `Turn` says what
patience gives: one message of the client at a time is to be handled (`OneMessage`); until
its handler comes to what it posts (`Begun`), S has nothing but acknowledgements to
send and no CONNACK is under way (`Still`); S has one request at most (`OneRequest`);
and C and S hold what their position says (`InHand`). So a dialogue can be
followed from its CONNECT to its CONNACK.

`ConnectValid` then needs only that connections hold (`~BrokerFails`); network, broker,
codes and inputs are any. What must be excluded is that the two calls of
`isConnectSendable()` differ: a CONNECT that finds the client asleep, or S at work,
does not find the connection lost (`Unaware`), and one that was refused is refused
again (`Refused`). `Owned` says that each `MQTTConnect` is in one place, in C's hands, in the
node or in the queue, so that the one deleted is named nowhere else. With connections that
break the property is false: RecvFails stores Disconnected between the two calls.

`ActiveHasSession` has five premises, together `Faithful`: patience, connections that
hold, a stable network, and a broker that accepts and does not cut on a second CONNECT. For each of
them TLC finds a counterexample when it alone is dropped. The least obvious is the
stable network. Without it, six messages suffice: CONNECT; SEARCHGW, which clears the
status and leaves the connection; WILLMSG, which sets `_waitWillMsgFlg`; CONNECT, whose CONNACK is
kept; DISCONNECT, which closes the connection and leaves a Connecting client so; and
WILLMSG, which gets the kept CONNACK, and the client is Active without a session. The invariant, `SessionInv`, says who may make the client Active: the CONNACK that C
holds, and it was loaded as Connecting when there was a session (`Backed`). A
CONNACK is there only after S has sent the CONNECT (`NotSaid`), never together with a
DISCONNECT (`Leaves`); the timeout that closes the connection has found the client
Active, and nobody is about to make it Connecting (`GivesUp`); and the statuses that
R and S loaded are still good when they store (`Loaded`).

`BrokerStackProofs` proves, for any number of connections, type correctness and
`WakeUpsBounded` (either kind of connection, any requesters), `Settled` (without
TLS, any requesters), and, without TLS and with S the only requester (`Alone`),
`ClosedOnce` and `ReturnsClosed`. The last two follow from
`Handover`: with the request the connection passes
from S to B, which closes it (`ClosesAsked`) while S waits (`RequestPending`), and
with the wake-up it passes back, closed (`WakesClosed`, `WakesOnce`). Neither
is inductive: that `close()` finds a socket to close depends on S not
having returned to connect again, and that S has not on there being no wake-up
left over. `Settled` and `WakeUpsBounded` are inductive given the types. With S
the only requester and either kind of connection, `NoLeak` and `SessionOnSocket` are
proved. `NoLeak` says that what is open is the socket held or one of those that
`connect()` left open unnamed; `ApartCorrect` that the latter are never the socket
held, so that the exception does not cover it. `NoLeak` and `SessionOnSocket` are
proved without TLS from `Handover` and from there being no session (`Plain`), and
with TLS from `Exclusive`: whoever has ended
the session, in `recv()` or in `isValid()`, is alone with the socket until the
descriptor is cleared (`OneCloses`), since the other thread finds no session
(`NoSession`) and S connects only after it has found none (`Connecting`); nobody
posts, so who asked waits (`NoWakeUp`).

`LogRingProofs` proves, for rings and reads of any size, texts of any length and
any number of starts, type correctness, `InBounds`, `OneInside` and `InOrder`. `InBounds` is
not inductive: that the end stays in the ring depends on the room computed from
both indices (`Shape`), and that no error text is written at a wrong place on
`start = end` not arising away from 0 (`Apart`), which is where the two cases of
`put()` and `get()` that differ by one come in (`PutShape`, `GetShape`). `OneInside`
follows from `MutexInv`: who is inside holds the mutex that it opened (`Holds`);
who has the gateway's ring has its mutex (`OneMutex`), for which one must follow
the names through starts, signals and kills (`Names`); and a destroyed mutex is
out of reach of later monitors (`DestroyedUnnamed`). `InOrder` needs of these only the
indices: where the next text goes (`PutOrder`) and where a read stops (`GetOrder`), around
the end of the ring (`Around`), what is unread gets the text appended and loses
what was returned. That it starts empty when the gateway resets the ring is the rest of
`OrderInv`; the premise `Guarded` is not needed, as in the model put() and get() are
one step each. Its assumptions are those of
`LogRing`: a ring of positive length, reads of at least two characters, texts
shorter than the ring.

`GatewayRelayProofs` proves, for any clients, names and predefined topics, and
maps, budgets and queues of any size, type correctness, `IdsDistinct`, `NeverMisrouted`,
`IdKept` and `RegisteredFirst`.

That ids differ is not inductive: a counter that wraps
around would give out an old id, or a predefined one. `Numbered` says that the ids given
out lie between `Normal` and the counter, one each, and are as many as the topics;
since topics are names, the counter cannot pass the last id before the names
are used up. So every caller of `add()` must name one of `Names`: `Naming` says it
of all events that wait for the control task, and `Repeats` that a client
repeats only a PUBLISH, so that no event of another kind comes from there. The
assumption is `IdsSuffice`: names are no more than the ids from `Normal` up to
`Wrap`, and `Normal` is above `Predefined`; in the code 0x0100, 0xffff + 1 and 0x00ff
(Topics.h:42-43). With more names the counter does wrap around.

The other three need to know where a client's knowledge of ids may be: in `told`,
`asked` and `unacked` at the client, in a message on either link, in an event that
waits, in `subMap` or in the publication at hand. `RelayInv` says that all of it is
`Right` (`RightIds`), that is, that each id is the one which `topics` has for the name
that is meant. As a CONNECT replaces the `Topics`, that holds within a session only,
and what is older must be out of the way when a session starts: `Dialogue` says that
there is one CONNECT or CONNACK under way at most, with nothing of the client
behind it, and `Valid` that what precedes the CONNACK on the link to the client does
not count. A message id numbers one question only (`MidsGiven`), or the answer to
another would be taken for it. `IdKept` follows from `KeptIds`: each unanswered PUBLISH is
in one place, as event, at the broker, as its PUBACK or as ours (`OnePlace`), and
as long as it is not back, its entry is in `pubMap`; as the map has entries
for no others, it is never full, and so `add()` evicts nothing. `RegisteredFirst` follows from `FirstIds`:
each PUBLISH on the link is preceded there by the announcement of its id
(`FirstSent`), and what the client has seen announced or is about to, it knows
(`FirstKnown`). For that the client must be connected whenever the node is Active
(`Answering`), nothing saved may be left when it is (`NoneSaved`), and the topic at hand
must be in the table still (`CurNamed`). The habits that a property sets aside
(`Faithful`, `Modest`, `Orderly`) are premises of its part of the invariant, and so is that the
flush, which sends saved messages without end, has not begun.

`ClientNodeProofs` and `ClientTopicProofs` prove all of the safety properties of `ClientNode`, for any
topics and subscriptions, any number of publications, losses, retries, restarts
of the gateway and disconnections, and lists of any length: type correctness,
`SuspendedIsRegistered`, `DoneArrived`, `NeverMisrouted` and `Qos2Once`. Beside the bounds' being
numbers, the one assumption is `SubsSequence`: the application's subscriptions are a
sequence of topics. The invariants build on each other:

* `TypeInv`: ids on a list are distinct and were handed out, although `remove()`
  may go through an outdated pointer; a publication waits only for an answer of
  its QoS, and has an id unless suspended; whatever the caller of `connect()` is to
  go on with is on its list still.
* `SusInv`: a suspended publication has a REGISTER on the list, and no other waits for
  the same one. The second half makes the first inductive: the REGACK that takes
  the REGISTER off resumes just one publication.
* `DoneInv`: whatever says that a publication came - a PUBREC, an accepting PUBACK, what
  the broker holds, a publication that waits for PUBCOMP or is done - is right.
* `MsgsInv`: a message under way has the topic of the list's element with its id.
  Since ids are never given twice (`ListsGrow`), it holds of late messages, too.
* `OrderInv`: while nothing of a dialogue outlives it, messages that use a
  connection's ids are never behind the dialogue of the next: neither on the way up (`Ups`
  behind a CONNECT), nor down (`Downs` behind a CONNACK). Without it a REGACK of a gateway
  since restarted could come when the table had been cleared, and fill it with an id of
  before.
* `RightInv`: outside of `connect()`, unless the gateway has forgotten the client,
  the table, the publications and the REGACKs under way have the gateway's ids; and
  so have the PUBLISHes, at any time. `NeverMisrouted` is its last conjunct.
* `OnceInv`: a publication of QoS 2 that came and may come again, as a PUBLISH under
  way or because the client waits for PUBREC, is held by the broker, which then does not
  count it twice; no PUBLISH is behind its PUBREL; one never sent never came.

Here the proof corrected the model: `OrderInv` was not inductive, because the retry
of a keep-alive sends `_msg`, which is still the CONNECT. The gateway answers that
with a second CONNACK, which comes outside of `connect()` and clears nothing, while
the ids at the gateway are new: hence the incident `repeated`, which `NeverMisrouted` and
`Qos2Once` set aside.

`OctetsProofs` proves of the conversions what `Wire` shows on ten sessions: a 16-bit
number is read as it was written (`Uint16RoundTrip`), a remaining length of one to
three octets likewise (`RemainingLengthRoundTrip`), and an escaped octet is never
taken for the start of a frame and is restored (`EscapeRoundTrip`).

Only model-checked are: liveness (`EveryPostTaken`, `HandedBack`, `FreshConnectAnswered`,
`PublishAnswered`, `LogShown`, `PutReturns`, `Completed`, `JobEnds`), which these provers do
not treat; and all of `Wire`, its types included, which needs recursive operators.

## Plan

1. Done: `EventQue`, `GatewayConnect`, `BrokerStack` with proofs; `GatewayRelay`,
   `ClientNode`, `LogRing` with its proofs; messages, frames and `Wire`.
2. Done: the safety properties of `GatewayRelay`, `ClientNode` and `LogRing` as theorems.
3. Done: `ConnectValid` and `ActiveHasSession` with a patient client.
4. The client composed with `GatewayRelay` instead of its own gateway, against an
   abstract specification of the QoS levels.
5. `_busy` of `TLSStack` with partial reads and writes.
6. `ClientList` with authorisation, wildcards.

## Not modelled

* `ClientList`: its lookups are taken as given; authorisation reads a file.
* `Process`, threads, parameters, start-up of the gateway's tasks, the light
  indicator, `Timer`, `Payload` and the example application: wrappers of the
  system, input and output, or formatting of what is opaque to the protocol.
  Start-up is assumed complete before the first message. Timers may run out
  at any time; their values are not modelled.
* Sockets, serial ports and OpenSSL beyond their success and failure; the
  partial reads and writes of TLS; the broker's orderly close, which `recv()`
  returns as 0 (BrokerRecvTask.cpp:141).
* In the messages: the checks of UTF-8, payloads towards the client of 249 octets
  and more, short and predefined topics on the wire, which the gateway rejects
  or has no names for, the PUBLISH of the time after an ADVERTISE
  (GatewayControlTask.cpp:147-165), a frame with several octets garbled.
* Topics with wildcards, which no task of the gateway asks for and which in the
  client only choose a callback; callbacks.
* Keep-alive under steady traffic, for which a clock would have to be set
  against the traffic.
