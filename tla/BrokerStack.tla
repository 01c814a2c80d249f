---------------------------- MODULE BrokerStack ----------------------------
(***************************************************************************)
(* The connection to the broker of one ClientNode: TLSStack on TCPStack,   *)
(* shared by three threads, and no field of it locked.  BrokerSendTask (S) *)
(* opens it, sends and disconnects; BrokerRecvTask (B) polls it and        *)
(* receives; GatewayControlTask (C) disconnects a client that is silent.   *)
(* disconnect() only asks: the connection is closed, and who asked is      *)
(* woken, by the next thread that calls isValid().  Each access to a field *)
(* that another thread may assign is a step of its own.                    *)
(*                                                                         *)
(* Sockets are numbered as they are opened, although the system gives a    *)
(* closed descriptor out again: closing one twice closes another client's. *)
(***************************************************************************)
EXTENDS Naturals

CONSTANTS
    Secure,     \* the values that _secureFlg may have
    Requesters, \* who, besides S, may call disconnect(): the possible sets of threads
    MaxOpen     \* bound of the model: connections opened

Thread == {"S", "B", "C"}

ASSUME SecureBoolean == Secure \subseteq BOOLEAN
ASSUME RequestersThreads == Requesters \subseteq SUBSET {"B", "C"}
ASSUME MaxOpenNat == MaxOpen \in Nat

None == 0                   \* _sockfd = -1, _ssl = 0
Socket == 1..MaxOpen

VARIABLES
    secureFlg,  \* TLSStack::_secureFlg
    requesters, \* the threads besides S that may call disconnect()
    sockfd,     \* TCPStack::_sockfd
    disconReq,  \* TCPStack::_disconReq
    sem,        \* the value of TCPStack::_sem
    ssl,        \* TLSStack::_ssl
    sslReq,     \* TLSStack::_disconReq
    mutex,      \* TLSStack::_mutex is locked
    open,       \* the sockets that are open in the system
    opened,     \* how many have been opened
    stray,      \* history: the sockets that connect() left open unnamed
    at,         \* at[t]: where thread t is
    caller,     \* caller[t]: what called isValid(), or close()
    bye,        \* the message that S sends is a DISCONNECT
    asked       \* asked[t]: the socket that disconnect() found

config == <<secureFlg, requesters>>
stack == <<sockfd, disconReq, sem, ssl, sslReq, mutex>>
system == <<open, opened, stray>>
local == <<caller, bye, asked>>

vars == <<config, stack, system, at, local>>

Init ==
    /\ secureFlg \in Secure /\ requesters \in Requesters
    /\ sockfd = None /\ disconReq = FALSE /\ sem = 0
    /\ ssl = None /\ sslReq = FALSE /\ mutex = FALSE
    /\ open = {} /\ opened = 0 /\ stray = {}
    /\ at = [t \in Thread |-> "idle"]
    /\ caller = [t \in Thread |-> "send"]
    /\ bye = FALSE
    /\ asked = [t \in Thread |-> None]

Goto(t, l) == at' = [at EXCEPT ![t] = l]

(* What who calls isValid() does next. *)
IfValid == [send |-> "send", connect |-> "disconnect",
            tcp_connect |-> "disconnect", poll |-> "recv"]
IfInvalid == [send |-> "connect", connect |-> "tcp_connect",
              tcp_connect |-> "open", poll |-> "idle"]

After(t, valid) == IF valid THEN IfValid[caller[t]] ELSE IfInvalid[caller[t]]

(* isValid() is not virtual: TCPStack::connect() calls TCPStack's.         *)
Tls(t) == secureFlg /\ caller[t] # "tcp_connect"

-----------------------------------------------------------------------------
(* isValid(): is there a connection, *)
Valid(t) ==
    /\ at[t] = "valid"
    /\ Goto(t, IF (IF Tls(t) THEN ssl ELSE sockfd) # None THEN "valid_req"
                                                          ELSE After(t, FALSE))
    /\ UNCHANGED <<stack, system, local>>

(* and shall it be closed? *)
ValidReq(t) ==
    /\ at[t] = "valid_req"
    /\ LET closing == IF Tls(t) THEN "shutdown" ELSE "close"
       IN  Goto(t, IF (IF Tls(t) THEN sslReq ELSE disconReq) THEN closing
                                                            ELSE After(t, TRUE))
    /\ UNCHANGED <<stack, system, local>>

(* Fault: _ssl is kept. *)
ShutdownKept(t) ==
    /\ at[t] = "shutdown" /\ ssl # None
    /\ Goto(t, "close")
    /\ UNCHANGED <<stack, system, local>>

(* TLSStack::isValid() and recv(): SSL_shutdown(_ssl); _ssl = 0. *)
Shutdown(t) ==
    /\ at[t] = "shutdown" /\ ssl # None
    /\ ssl' = None
    /\ Goto(t, "close")
    /\ UNCHANGED <<sockfd, disconReq, sem, sslReq, mutex, system, local>>

(* What follows close() in its callers: only TCPStack::isValid() posts. *)
Closed(t) ==
    IF Tls(t) THEN IF caller[t] = "recv" THEN "unlock" ELSE "clear_sslreq"
              ELSE "post"

(* TCPStack::close(): test, *)
CloseTest(t) ==
    /\ at[t] = "close"
    /\ Goto(t, IF sockfd # None THEN "os_close" ELSE Closed(t))
    /\ UNCHANGED <<stack, system, local>>

(* Fault: the socket is forgotten instead of closed. *)
OsForget(t) ==
    /\ at[t] = "os_close"
    /\ Goto(t, "clear_sock")
    /\ UNCHANGED <<stack, system, local>>

(* ::close(_sockfd), *)
OsClose(t) ==
    /\ at[t] = "os_close"
    /\ open' = open \ {sockfd}
    /\ Goto(t, "clear_sock")
    /\ UNCHANGED <<stack, opened, stray, local>>

(* _sockfd = -1, *)
ClearSock(t) ==
    /\ at[t] = "clear_sock"
    /\ sockfd' = None
    /\ Goto(t, "clear_req")
    /\ UNCHANGED <<disconReq, sem, ssl, sslReq, mutex, system, local>>

(* Fault: whoever asked is not woken. *)
ClearReqOnly(t) ==
    /\ at[t] = "clear_req"
    /\ disconReq' = FALSE
    /\ Goto(t, IF Closed(t) = "post" THEN After(t, FALSE) ELSE Closed(t))
    /\ UNCHANGED <<sockfd, sem, ssl, sslReq, mutex, system, local>>

(* _disconReq = false. *)
ClearReq(t) ==
    /\ at[t] = "clear_req"
    /\ disconReq' = FALSE
    /\ Goto(t, Closed(t))
    /\ UNCHANGED <<sockfd, sem, ssl, sslReq, mutex, system, local>>

(* TLSStack::isValid(): _disconReq = false; return false. *)
ClearSslReq(t) ==
    /\ at[t] = "clear_sslreq"
    /\ sslReq' = FALSE
    /\ Goto(t, After(t, FALSE))
    /\ UNCHANGED <<sockfd, disconReq, sem, ssl, mutex, system, local>>

(* TCPStack::isValid(): _sem.post() reads the value, *)
Post(t) ==
    /\ at[t] = "post"
    /\ Goto(t, IF sem = 0 THEN "signal" ELSE After(t, FALSE))
    /\ UNCHANGED <<stack, system, local>>

(* and signals if it was 0. *)
Signal(t) ==
    /\ at[t] = "signal"
    /\ sem' = sem + 1
    /\ Goto(t, After(t, FALSE))
    /\ UNCHANGED <<sockfd, disconReq, ssl, sslReq, mutex, system, local>>

isValid(t) ==
    \/ Valid(t) \/ ValidReq(t) \/ Shutdown(t)
    \/ CloseTest(t) \/ OsClose(t) \/ ClearSock(t) \/ ClearReq(t)
    \/ ClearSslReq(t) \/ Post(t) \/ Signal(t)

-----------------------------------------------------------------------------
(* disconnect(): TLSStack's asks for itself first, *)
Disconnect(t) ==
    /\ at[t] = "disconnect"
    /\ Goto(t, IF ssl # None THEN "request_ssl" ELSE "tcp_disconnect")
    /\ UNCHANGED <<stack, system, local>>

RequestSsl(t) ==
    /\ at[t] = "request_ssl"
    /\ sslReq' = TRUE
    /\ Goto(t, "tcp_disconnect")
    /\ UNCHANGED <<sockfd, disconReq, sem, ssl, mutex, system, local>>

(* disconnect() returns.  After send() has failed for a DISCONNECT, S     *)
(* calls it again.                                                         *)
Returned(t) ==
    /\ Goto(t, IF t = "S" /\ bye THEN "disconnect" ELSE "idle")
    /\ bye' = (t # "S" /\ bye)

(* TCPStack's returns if there is no connection, *)
TcpDisconnect(t) ==
    /\ at[t] = "tcp_disconnect"
    /\ asked' = [asked EXCEPT ![t] = sockfd]
    /\ IF sockfd = None THEN Returned(t) ELSE Goto(t, "request") /\ UNCHANGED bye
    /\ UNCHANGED <<stack, system, caller>>

(* asks for its end, *)
Request(t) ==
    /\ at[t] = "request"
    /\ disconReq' = TRUE
    /\ Goto(t, "wait")
    /\ UNCHANGED <<sockfd, sem, ssl, sslReq, mutex, system, local>>

(* Fault: disconnect() does not wait for the wake-up that it takes. *)
WaitNot(t) ==
    /\ at[t] = "wait"
    /\ sem' = sem - 1
    /\ Returned(t)
    /\ UNCHANGED <<sockfd, disconReq, ssl, sslReq, mutex, system, caller, asked>>

(* and waits. *)
Wait(t) ==
    /\ at[t] = "wait"
    /\ sem > 0
    /\ sem' = sem - 1
    /\ Returned(t)
    /\ UNCHANGED <<sockfd, disconReq, ssl, sslReq, mutex, system, caller, asked>>

disconnect(t) ==
    Disconnect(t) \/ RequestSsl(t) \/ TcpDisconnect(t) \/ Request(t) \/ Wait(t)

-----------------------------------------------------------------------------
(* S: BrokerSendTask takes a message and sends it. *)
Take ==
    /\ at["S"] = "idle"
    /\ bye' \in BOOLEAN
    /\ caller' = [caller EXCEPT !["S"] = "send"]
    /\ Goto("S", "valid")
    /\ UNCHANGED <<stack, system, asked>>

(* send() succeeds; a DISCONNECT is followed by disconnect(). *)
Send ==
    /\ at["S"] = "send" /\ ~mutex
    /\ IF secureFlg THEN ssl # None ELSE sockfd \in open
    /\ Goto("S", IF bye THEN "disconnect" ELSE "idle")
    /\ bye' = FALSE
    /\ UNCHANGED <<stack, system, caller, asked>>

(* send() fails, as it may at any time. *)
SendFails ==
    /\ at["S"] = "send" /\ ~mutex
    /\ secureFlg => ssl # None
    /\ Goto("S", "disconnect")
    /\ UNCHANGED <<stack, system, local>>

(* TLSStack::connect(), then TCPStack::connect() if it goes on: is there   *)
(* no connection?                                                          *)
Connect ==
    /\ at["S"] \in {"connect", "tcp_connect"}
    /\ caller' = [caller EXCEPT !["S"] = at["S"]]
    /\ Goto("S", "valid")
    /\ UNCHANGED <<stack, system, bye, asked>>

(* The broker accepts: _sockfd = sockfd. *)
Open ==
    /\ at["S"] = "open" /\ opened < MaxOpen
    /\ opened' = opened + 1
    /\ open' = open \cup {opened + 1}
    /\ sockfd' = opened + 1
    /\ Goto("S", IF secureFlg THEN "handshake" ELSE "send")
    /\ UNCHANGED <<stray, disconReq, sem, ssl, sslReq, mutex, local>>

(* socket() succeeds and setsockopt() fails: connect() returns, the socket *)
(* is neither closed nor kept.                                             *)
OptionFails ==
    /\ at["S"] = "open" /\ opened < MaxOpen
    /\ opened' = opened + 1
    /\ open' = open \cup {opened + 1}
    /\ stray' = stray \cup {opened + 1}
    /\ Goto("S", "disconnect")
    /\ UNCHANGED <<stack, local>>

(* There is no address or socket, or the broker does not accept and the    *)
(* socket is closed; or the TLS handshake fails and the socket stays.      *)
ConnectFails ==
    /\ at["S"] \in {"open", "handshake"}
    /\ Goto("S", "disconnect")
    /\ UNCHANGED <<stack, system, local>>

Handshake ==
    /\ at["S"] = "handshake"
    /\ ssl' = sockfd
    /\ Goto("S", "send")
    /\ UNCHANGED <<sockfd, disconReq, sem, sslReq, mutex, system, local>>

(* SSL_write(), SSL_read() or SSL_shutdown() is given the null pointer,    *)
(* and the process ends.                                                   *)
Crash(t) ==
    /\ secureFlg /\ ssl = None
    /\ at[t] = "shutdown" \/ (at[t] \in {"send", "recv"} /\ ~mutex)
    /\ at' = [u \in Thread |-> "crashed"]
    /\ UNCHANGED <<stack, system, local>>

BrokerSendTask ==
    \/ Take \/ Send \/ SendFails
    \/ Connect \/ Open \/ OptionFails \/ ConnectFails \/ Handshake
    \/ isValid("S") \/ disconnect("S") \/ Crash("S")

(* B: BrokerRecvTask polls the connection, before select() and after it,   *)
Poll ==
    /\ at["B"] = "idle"
    /\ caller' = [caller EXCEPT !["B"] = "poll"]
    /\ Goto("B", "valid")
    /\ UNCHANGED <<stack, system, bye, asked>>

(* receives, or finds nothing, an error, or send() busy; *)
Recv ==
    /\ at["B"] = "recv" /\ (secureFlg => ssl # None)
    /\ Goto("B", "idle")
    /\ UNCHANGED <<stack, system, local>>

(* TLSStack::recv() learns that the broker has closed, *)
RecvEnd ==
    /\ at["B"] = "recv" /\ secureFlg /\ ssl # None /\ ~mutex
    /\ mutex' = TRUE
    /\ caller' = [caller EXCEPT !["B"] = "recv"]
    /\ Goto("B", "shutdown")
    /\ UNCHANGED <<sockfd, disconReq, sem, ssl, sslReq, system, bye, asked>>

(* and has closed in its turn. *)
Unlock ==
    /\ at["B"] = "unlock"
    /\ mutex' = FALSE
    /\ Goto("B", "idle")
    /\ UNCHANGED <<sockfd, disconReq, sem, ssl, sslReq, system, local>>

(* An ill-formed PUBLISH is received: disconnect(). *)
IllFormed ==
    /\ at["B"] = "recv" /\ (secureFlg => ssl # None) /\ "B" \in requesters
    /\ Goto("B", "disconnect")
    /\ UNCHANGED <<stack, system, local>>

BrokerRecvTask ==
    \/ Poll \/ Recv \/ RecvEnd \/ Unlock \/ IllFormed
    \/ isValid("B") \/ disconnect("B") \/ Crash("B")

(* C: GatewayControlTask, checkTimeover(). *)
CheckTimeover ==
    /\ at["C"] = "idle" /\ "C" \in requesters
    /\ Goto("C", "disconnect")
    /\ UNCHANGED <<stack, system, local>>

GatewayControlTask == CheckTimeover \/ disconnect("C")

Next ==
    /\ BrokerSendTask \/ BrokerRecvTask \/ GatewayControlTask
    /\ UNCHANGED config

(* Each thread goes on; S waits for messages, and nobody has to be silent. *)
Fairness ==
    /\ WF_vars(BrokerSendTask /\ at["S"] # "idle" /\ UNCHANGED config)
    /\ WF_vars(BrokerRecvTask /\ UNCHANGED config)
    /\ WF_vars(disconnect("C") /\ UNCHANGED config)

Spec == Init /\ [][Next]_vars /\ Fairness

-----------------------------------------------------------------------------
Label == {"idle", "valid", "valid_req", "shutdown", "close", "os_close",
          "clear_sock", "clear_req", "clear_sslreq", "post", "signal",
          "disconnect", "request_ssl", "tcp_disconnect", "request", "wait", "send",
          "connect", "tcp_connect", "open", "handshake", "crashed", "recv", "unlock"}

(* Type invariant.  B is back from isValid() when it is in recv(). *)
TypeOK ==
    /\ secureFlg \in Secure /\ requesters \in Requesters
    /\ sockfd \in {None} \cup Socket /\ ssl \in {None} \cup Socket
    /\ disconReq \in BOOLEAN /\ sslReq \in BOOLEAN /\ mutex \in BOOLEAN
    /\ sem \in Nat
    /\ open \subseteq Socket /\ stray \subseteq Socket /\ opened \in 0..MaxOpen
    /\ at \in [Thread -> Label]
    /\ caller \in [Thread -> {"send", "connect", "tcp_connect", "poll", "recv"}]
    /\ bye \in BOOLEAN /\ asked \in [Thread -> {None} \cup Socket]
    /\ \A t \in Thread :
          caller[t] = "recv" =>
              secureFlg /\ at[t] \notin {"valid", "valid_req", "clear_sslreq", "post", "signal"}

(* S alone disconnects, *)
OnlyS == requesters = {}
(* and there is no TLS. *)
Alone == OnlyS /\ ~secureFlg

(* No socket is closed twice: the descriptor may be another client's by    *)
(* then.                                                                   *)
ClosedOnce == Alone => \A t \in Thread : at[t] = "os_close" => sockfd \in open

(* No socket that was connected is forgotten open: what is open is the     *)
(* socket held, or one of those that connect() itself forgets when         *)
(* setsockopt() fails (TCPStack.cpp:184-186), which the code does leak.    *)
NoLeak == OnlyS => open \subseteq {sockfd} \cup stray

(* A TLS session is that of the socket held, although B may end it in      *)
(* recv() while S connects.                                                *)
SessionOnSocket == OnlyS => ssl \in {None, sockfd}

(* Whoever disconnects, the descriptor held is that of an open socket      *)
(* unless a thread is about to clear it: nobody finds a connection that is *)
(* already closed.                                                         *)
Settled ==
    ~secureFlg => sockfd \in {None} \cup open \/ \E t \in Thread : at[t] = "clear_sock"

(* There is at most one wake-up for each of the threads that close, S and  *)
(* B, though the test and the signal of Semaphore::post() are not one step *)
(* and whoever asked may long have been woken.                             *)
WakeUpsBounded ==
    sem + (IF at["S"] = "signal" THEN 1 ELSE 0)
        + (IF at["B"] = "signal" THEN 1 ELSE 0) <= 2

(* disconnect() returns after the connection that it found was closed, *)
ReturnsClosed ==
    [][\A t \in Thread :
          Alone /\ at[t] = "wait" /\ at'[t] # "wait" => asked[t] \notin open]_vars

(* and it does return, if S alone disconnects and there is no TLS. *)
HandedBack == Alone /\ at["S"] = "wait" ~> at["S"] # "wait"

(* disconnect() returns, whoever calls it and with TLS, too. *)
DisconnectReturns == \A t \in Thread : at[t] = "wait" ~> at[t] # "wait"

-----------------------------------------------------------------------------
(* The inductive invariant of a connection that S alone disconnects,       *)
(* without TLS: between the request and the wake-up the connection is B's, *)
(* otherwise it is S's.                                                    *)
Closing == {"close", "os_close", "clear_sock", "clear_req"}
Posting == {"post", "signal"}

Places ==
    /\ at["S"] \in {"idle", "valid", "valid_req", "send", "connect", "tcp_connect",
                    "open", "disconnect", "request_ssl", "tcp_disconnect", "request",
                    "wait"}
    /\ at["B"] \in {"idle", "valid", "valid_req", "recv"} \cup Closing \cup Posting
    /\ at["C"] = "idle"
    /\ caller["S"] \in {"send", "connect", "tcp_connect"}
    /\ caller["B"] \in {"send", "poll"} /\ (at["B"] # "idle" => caller["B"] = "poll")

(* Who asked waits until it is woken, *)
RequestPending == disconReq => at["S"] = "wait" /\ sem = 0
(* the connection is closed for who asked, *)
ClosesAsked == at["B"] \in Closing => disconReq
(* who is woken when there is no connection, *)
WakesClosed ==
    at["B"] \in Posting \/ sem > 0 => at["S"] = "wait" /\ ~disconReq /\ sockfd = None
WakesOnce == sem \in {0, 1} /\ (at["B"] \in Posting => sem = 0)
(* and S relies on what it has seen of the connection. *)
StillThere == at["S"] = "request" \/ (disconReq /\ at["B"] # "clear_req") => sockfd # None
StillGone ==
    at["S"] \in {"connect", "tcp_connect", "open"} \/ at["B"] = "clear_req" => sockfd = None
OpenIsHeld ==
    open = stray \cup IF sockfd = None \/ at["B"] = "clear_sock" THEN {} ELSE {sockfd}

Handover ==
    Alone =>
        /\ Places /\ RequestPending /\ ClosesAsked /\ WakesClosed /\ WakesOnce
        /\ StillThere /\ StillGone /\ OpenIsHeld

=============================================================================
