------------------------------ MODULE LogRing -------------------------------
(***************************************************************************)
(* The log of the gateway: putLog() writes text into a ring buffer in      *)
(* shared memory and signals a named semaphore; LogMonitor, a process of   *)
(* its own, takes the text with getLog() and prints it.  The ring, the     *)
(* mutex that guards it and the semaphore are found by key or name and     *)
(* live longer than the processes; a process that ends by a signal runs    *)
(* its destructors, one that is killed does not.                           *)
(*                                                                         *)
(* The critical section of Process::_mt is one writer at a time, so the    *)
(* threads of the gateway are one writer here.  Inside the shared mutex    *)
(* the indices and the text change in one step.                            *)
(***************************************************************************)
EXTENDS Integers, Sequences

CONSTANTS
    Length,     \* *_length, the characters the ring holds
    ReadMax,    \* PROCESS_LOG_BUFFER_SIZE, what one get() takes at most
    ErrLen,     \* the length of the text "data is too long"
    Sizes,      \* the lengths of the texts that are logged
    MaxPut,     \* bound of the model: texts
    MaxStart    \* bound of the model: starts of the monitor

ASSUME LengthPositive == Length \in Nat \ {0}
ASSUME ReadsSeveral == ReadMax \in Nat \ {0, 1}
ASSUME ErrLenNat == ErrLen \in Nat
ASSUME TextsFit == Sizes \subseteq 2 .. (Length - 1)
ASSUME BoundsNat == MaxPut \in Nat /\ MaxStart \in Nat

VARIABLES
    start, end,   \* the indices in shared memory
    buffer,       \* the characters, numbered as they were logged; 0: none
    owner,        \* owner[m]: who holds the mutex m
    sem,          \* the value of the gateway's semaphore
    key,          \* what the ring's key, the mutex's key and the name lead to
    writer,       \* the gateway: where it is in start-up or in putLog()
    puts, sent,   \* texts and characters logged
    monitor,      \* the monitor: where it is in run()
    mine,         \* the ring, mutex and semaphore the monitor has opened
    created,      \* the monitor's _createFlg
    rbdata,       \* the monitor's _rbdata
    starts,       \* starts of the monitor
    taken,        \* history: what get() has returned, whoever printed it
    brink,        \* history: a get() met ReadMax or ReadMax + 1 characters
    overrun,      \* history: put() moved _start over or back before text
    torn          \* history: the mutex was initialised while it was held

ringVars == <<start, end, buffer>>
shared == <<ringVars, owner, sem, key>>
gatewayVars == <<writer, puts, sent>>
monitorVars == <<monitor, mine, created, rbdata, starts>>
history == <<taken, brink, overrun, torn>>
vars == <<shared, gatewayVars, monitorVars, history>>

(* "shared" is the object of a kind that the gateway has opened, or will   *)
(* open; "other" is one that was made after that one lost its name.        *)
Objects == {"shared", "other"}
Kinds == {"ring", "mutex", "sem"}
Nothing == [k \in Kinds |-> "none"]

(* shmget() and sem_open() with their flags to create: the object that has *)
(* the name, or a new one.                                                 *)
Opened(k) ==
    IF key[k] # "none" THEN key[k]
    ELSE IF writer = "off" THEN "shared" ELSE "other"

AllOpened == [k \in Kinds |-> Opened(k)]

Init ==
    /\ start = 0 /\ end = 0
    /\ buffer = [i \in 0 .. Length - 1 |-> 0]
    /\ owner = [m \in Objects |-> "none"]
    /\ sem = 0
    /\ key = Nothing
    /\ writer = "off" /\ puts = 0 /\ sent = 0
    /\ monitor = "off" /\ mine = Nothing /\ created = FALSE
    /\ rbdata = << >> /\ starts = 0
    /\ taken = << >>
    /\ brink = FALSE /\ overrun = FALSE /\ torn = FALSE

-----------------------------------------------------------------------------
(* The ring.  Where the next text goes and what is unread.                 *)
Room == Length - end
Backlog == IF end >= start THEN end - start ELSE Length - start + end
Empty == end - start = 1

(* The characters that follow position p, around the end of the ring.      *)
Text(p, n) == [i \in 1 .. n |-> buffer[(p + i - 1) % Length]]

(* The buffer with n characters numbered from c written at the end.        *)
Written(n) ==
    [i \in 0 .. Length - 1 |->
        LET k == (i - end + Length) % Length
        IN  IF k < n THEN sent + 1 + k ELSE buffer[i]]

(* Fault for the mutation runs: the split copy of an empty ring keeps the  *)
(* old start.                                                              *)
PutStartUnmoved(n) ==
    IF end > start THEN IF n < Room THEN start ELSE n - Room + 1
    ELSE IF end = start THEN start
    ELSE IF n < start - end \/ n < Room THEN end + n + 1 ELSE end

(* put(): the two indices after a text of n characters.                    *)
PutStart(n) ==
    IF end > start THEN
        IF Empty THEN end
        ELSE IF n < Room THEN start ELSE n - Room + 1
    ELSE IF end = start THEN start
    ELSE IF n < start - end \/ n < Room THEN end + n + 1 ELSE end

PutEnd(n) ==
    IF n < Room \/ (end < start /\ n < start - end) THEN end + n ELSE n - Room

TooLong(n) == end = start /\ n >= Room

(* put() with unread text that spans the end of the ring, or that the text *)
(* reaches: _start moves to what follows the new text, read or not.        *)
Overruns(n) ==
    \/ end < start
    \/ end > start /\ ~Empty /\ n >= Room

(* get(): how much it returns, and the start after it.                     *)
GetLen ==
    IF end > start THEN
        IF ReadMax > end - start THEN IF Empty THEN 0 ELSE end - start
        ELSE ReadMax
    ELSE IF end = start THEN 0
    ELSE IF ReadMax > Backlog THEN Backlog ELSE ReadMax

(* Fault: no character is kept back. *)
GetStartWhole ==
    IF end > start THEN
        IF ReadMax > end - start THEN end ELSE start + ReadMax
    ELSE IF end = start THEN start
    ELSE IF ReadMax <= Length - start THEN start + ReadMax
    ELSE IF ReadMax <= Backlog THEN ReadMax - (Length - start)
    ELSE end

GetStart ==
    IF end > start THEN
        IF ReadMax > end - start THEN end - 1 ELSE start + ReadMax
    ELSE IF end = start THEN start
    ELSE IF ReadMax <= Length - start THEN start + ReadMax
    ELSE IF ReadMax <= Backlog THEN ReadMax - (Length - start)
    ELSE IF end > 0 THEN end - 1 ELSE 0

-----------------------------------------------------------------------------
(* The gateway.                                                            *)

(* The constructors of Process, RingBuffer, Mutex and Semaphore: the mutex *)
(* is initialised even if it is in use.                                    *)
GatewayStart ==
    /\ writer = "off"
    /\ writer' = "reset"
    /\ key' = AllOpened
    /\ owner' = [owner EXCEPT !["shared"] = "none"]
    /\ torn' = (torn \/ owner["shared"] # "none")
    /\ UNCHANGED <<ringVars, sem, puts, sent, monitorVars, taken, brink, overrun>>

(* lock() passes: a mutex that was destroyed is not locked, and lock() does *)
(* not look at the result.                                                  *)
Loggable == owner["shared"] \in {"none", "destroyed"}

(* resetRingBuffer(): lock, reset, unlock. *)
GatewayReset ==
    /\ writer = "reset"
    /\ Loggable
    /\ writer' = "idle"
    /\ start' = 0 /\ end' = 0
    /\ UNCHANGED <<buffer, owner, sem, key, puts, sent, monitorVars, history>>

(* putLog() of a text: the shared mutex is locked. *)
WriterLock ==
    /\ writer = "idle"
    /\ puts < MaxPut
    /\ Loggable
    /\ owner' = [owner EXCEPT !["shared"] =
                    IF @ = "destroyed" THEN @ ELSE "gateway"]
    /\ writer' = "inside"
    /\ UNCHANGED <<ringVars, sem, key, puts, sent, monitorVars, history>>

(* put() of a text that fits. *)
PutText(n) ==
    /\ ~TooLong(n)
    /\ start' = PutStart(n)
    /\ end' = PutEnd(n)
    /\ buffer' = Written(n)
    /\ sent' = sent + n
    /\ overrun' = (overrun \/ Overruns(n))
    /\ writer' = "unlock"

(* put() into a ring with start = end of a text that reaches its last      *)
(* place: an error text is stored instead, without a look at the room.     *)
(* Beyond the end is beyond the shared memory: the model stops there.      *)
PutError(n) ==
    /\ TooLong(n)
    /\ end' = end + ErrLen
    /\ buffer' = [i \in 0 .. Length - 1 |->
                    IF i >= end /\ i < end + ErrLen THEN -1 ELSE buffer[i]]
    /\ writer' = IF end + ErrLen >= Length THEN "outside" ELSE "unlock"
    /\ UNCHANGED <<start, sent, overrun>>

WriterPut ==
    /\ writer = "inside"
    /\ puts' = puts + 1
    /\ \E n \in Sizes : PutText(n) \/ PutError(n)
    /\ UNCHANGED <<owner, sem, key, monitorVars, taken, brink, torn>>

(* Fault: put() returns with the mutex locked. *)
WriterUnlockForgotten ==
    /\ writer = "unlock"
    /\ writer' = "post"
    /\ UNCHANGED <<shared, puts, sent, monitorVars, history>>

WriterUnlock ==
    /\ writer = "unlock"
    /\ owner' = [owner EXCEPT !["shared"] =
                    IF @ = "destroyed" THEN @ ELSE "none"]
    /\ writer' = "post"
    /\ UNCHANGED <<ringVars, sem, key, puts, sent, monitorVars, history>>

(* Fault: the value is not looked at, and nothing is signalled. *)
WriterGetValueOnly ==
    /\ writer = "post"
    /\ writer' = "idle"
    /\ UNCHANGED <<shared, puts, sent, monitorVars, history>>

(* Semaphore::post(): sem_getvalue, and sem_post if it read 0. *)
WriterGetValue ==
    /\ writer = "post"
    /\ writer' = IF sem = 0 THEN "signal" ELSE "idle"
    /\ UNCHANGED <<shared, puts, sent, monitorVars, history>>

WriterSignal ==
    /\ writer = "signal"
    /\ writer' = "idle"
    /\ sem' = sem + 1
    /\ UNCHANGED <<ringVars, owner, key, puts, sent, monitorVars, history>>

-----------------------------------------------------------------------------
(* The monitor.                                                            *)
Running == monitor \notin {"off", "leaving"}

(* Its constructors, as the gateway's. *)
MonitorStart ==
    /\ monitor = "off"
    /\ starts < MaxStart
    /\ starts' = starts + 1
    /\ monitor' = "idle"
    /\ mine' = AllOpened
    /\ created' = (key["ring"] = "none")
    /\ key' = AllOpened
    /\ owner' = [owner EXCEPT ![Opened("mutex")] = "none"]
    /\ torn' = (torn \/ owner[Opened("mutex")] = "gateway")
    /\ UNCHANGED <<ringVars, sem, rbdata, gatewayVars, taken, brink, overrun>>

(* Fault: get() does not lock. *)
MonitorLockMissing ==
    /\ monitor = "idle"
    /\ monitor' = "inside"
    /\ UNCHANGED <<shared, gatewayVars, mine, created, rbdata, starts, history>>

(* getLog(): get() locks the mutex, *)
MonitorLock ==
    /\ monitor = "idle"
    /\ owner[mine["mutex"]] = "none"
    /\ owner' = [owner EXCEPT ![mine["mutex"]] = "monitor"]
    /\ monitor' = "inside"
    /\ UNCHANGED <<ringVars, sem, key, gatewayVars, mine, created, rbdata, starts, history>>

(* takes what there is; a ring that the gateway has not opened is empty,   *)
MonitorGet ==
    /\ monitor = "inside"
    /\ monitor' = "unlock"
    /\ IF mine["ring"] = "shared"
       THEN /\ rbdata' = Text(start, GetLen)
            /\ taken' = taken \o Text(start, GetLen)
            /\ start' = GetStart
            /\ brink' = (brink \/ Backlog \in {ReadMax, ReadMax + 1})
       ELSE /\ rbdata' = << >>
            /\ UNCHANGED <<taken, start, brink>>
    /\ UNCHANGED <<end, buffer, owner, sem, key, gatewayVars, mine, created, starts, overrun, torn>>

(* and unlocks it.                                                         *)
MonitorUnlock ==
    /\ monitor = "unlock"
    /\ owner' = [owner EXCEPT ![mine["mutex"]] = "none"]
    /\ monitor' = IF rbdata = << >> THEN "wait" ELSE "print"
    /\ UNCHANGED <<ringVars, sem, key, gatewayVars, mine, created, rbdata, starts, history>>

(* Fault: wait() does not wait. *)
MonitorWaitUnblocked ==
    /\ monitor = "wait"
    /\ mine["sem"] = "shared"
    /\ sem' = sem - 1
    /\ monitor' = "idle"
    /\ UNCHANGED <<ringVars, owner, key, gatewayVars, mine, created, rbdata, starts, history>>

(* getLog(): _rbsem->wait(), and get() again. *)
MonitorWait ==
    /\ monitor = "wait"
    /\ mine["sem"] = "shared"
    /\ sem > 0
    /\ sem' = sem - 1
    /\ monitor' = "idle"
    /\ UNCHANGED <<ringVars, owner, key, gatewayVars, mine, created, rbdata, starts, history>>

(* run(): printf. *)
MonitorPrint ==
    /\ monitor = "print"
    /\ monitor' = "idle"
    /\ rbdata' = << >>
    /\ UNCHANGED <<shared, gatewayVars, mine, created, starts, history>>

Gone ==
    /\ monitor' = "off"
    /\ mine' = Nothing
    /\ created' = FALSE
    /\ rbdata' = << >>
    /\ UNCHANGED starts

(* A signal: the handler calls exit(), which destroys the Process object.  *)
(* ~RingBuffer removes the ring only if this process made it; ~Semaphore   *)
(* takes the name away in any case.                                        *)
MonitorSignal ==
    /\ Running
    /\ IF created
       THEN /\ key' = [key EXCEPT !["ring"] = "none"]
            /\ monitor' = "leaving"
            /\ UNCHANGED <<mine, created, rbdata, starts>>
       ELSE /\ key' = [key EXCEPT !["sem"] = "none"]
            /\ Gone
    /\ UNCHANGED <<ringVars, owner, sem, gatewayVars, history>>

(* ~Mutex of the process that made the ring: lock, unlock, destroy, and    *)
(* the mutex's key and the semaphore's name removed.                       *)
MonitorLeave ==
    /\ monitor = "leaving"
    /\ owner[mine["mutex"]] = "none"
    /\ owner' = [owner EXCEPT ![mine["mutex"]] =
                    IF mine["mutex"] = "shared" /\ writer # "off"
                    THEN "destroyed" ELSE "none"]
    /\ key' = [key EXCEPT !["mutex"] = "none", !["sem"] = "none"]
    /\ Gone
    /\ UNCHANGED <<ringVars, sem, gatewayVars, history>>

(* SIGKILL: nothing is destroyed or unlocked. *)
MonitorKill ==
    /\ monitor # "off"
    /\ Gone
    /\ UNCHANGED <<shared, gatewayVars, history>>

WriterStep ==
    \/ GatewayStart \/ GatewayReset
    \/ WriterPut \/ WriterUnlock \/ WriterGetValue \/ WriterSignal

MonitorStep ==
    \/ MonitorLock \/ MonitorGet \/ MonitorUnlock \/ MonitorWait \/ MonitorPrint

Next ==
    \/ WriterStep \/ WriterLock
    \/ MonitorStep
    \/ MonitorStart \/ MonitorSignal \/ MonitorLeave \/ MonitorKill

Spec == Init /\ [][Next]_vars

(* The processes are scheduled.  The mutex is taken by turns: neither      *)
(* process finds it free again and again and never gets it.  Nothing       *)
(* obliges the gateway to log or anybody to start or stop the monitor.     *)
Fairness ==
    /\ WF_vars(WriterStep)
    /\ SF_vars(MonitorLock)
    /\ WF_vars(MonitorStep)

FairSpec == Spec /\ Fairness

-----------------------------------------------------------------------------
(* Type invariant. *)
TypeOK ==
    /\ start \in Nat /\ end \in Nat
    /\ buffer \in [0 .. Length - 1 -> Int]
    /\ owner \in [Objects -> {"none", "gateway", "monitor", "destroyed"}]
    /\ sem \in Nat
    /\ key \in [Kinds -> Objects \cup {"none"}]
    /\ writer \in {"off", "reset", "idle", "inside", "unlock", "post", "signal", "outside"}
    /\ puts \in Nat /\ sent \in Nat
    /\ monitor \in {"off", "idle", "inside", "unlock", "wait", "print", "leaving"}
    /\ mine \in [Kinds -> Objects \cup {"none"}]
    /\ created \in BOOLEAN
    /\ rbdata \in Seq(Int)
    /\ starts \in Nat
    /\ taken \in Seq(Int)
    /\ brink \in BOOLEAN /\ overrun \in BOOLEAN /\ torn \in BOOLEAN

(* put() and get() stay inside the shared memory, whatever the lengths of  *)
(* the texts, unless a get() once met exactly as much as it can take or    *)
(* one more: only that leaves start = end away from 0, where put() stores  *)
(* its error text without a look at the room.                              *)
InBounds == ~brink => start <= Length /\ end < Length /\ writer # "outside"

(* The mutex of the gateway was neither initialised while it was held nor  *)
(* destroyed by a monitor that had made the ring.                          *)
Guarded == ~torn /\ owner["shared"] # "destroyed"

(* The case analysis of put() and get(), with its character that is kept   *)
(* back so that an empty ring is not start = end: what was logged is what  *)
(* was taken followed by what is unread, in order, without a loss and      *)
(* without a repetition, also around the end of the ring.                  *)
Unread == IF Empty THEN << >> ELSE Text(start, Backlog)
Numbered(n) == [i \in 1 .. n |-> i]
InOrder == ~brink /\ ~overrun /\ Guarded => taken \o Unread = Numbered(sent)

(* The gateway and the monitor are not both inside the ring, unless one of *)
(* them was started while the other was, for the constructor initialises   *)
(* the mutex under the feet of its holder, or the monitor has destroyed it *)
(* while the gateway was started.                                          *)
OneInside ==
    Guarded => ~(/\ writer \in {"inside", "unlock"}
               /\ monitor \in {"inside", "unlock"}
               /\ mine["ring"] = "shared")

(* A monitor that has the ring and the semaphore of the gateway reads all  *)
(* that is logged: post(), which signals only if it reads 0, loses no      *)
(* wake-up that a reader waits for.  A gateway that has written outside of *)
(* the shared memory has kept the mutex.                                   *)
Attached ==
    Running /\ mine["ring"] = "shared" /\ mine["sem"] = "shared" /\ writer # "outside"
CaughtUp == Backlog <= 1 /\ rbdata = << >>
LogShown == []<>(CaughtUp \/ ~Attached)

(* The gateway leaves putLog(): it waits for the mutex for ever only if    *)
(* the monitor was stopped inside get() and has not been started again.    *)
LeftLocked ==
    owner["shared"] = "monitor" /\ ~(Running /\ mine["mutex"] = "shared")
PutReturns ==
    []<>(writer \in {"off", "outside"} \/ (writer = "idle" /\ Loggable) \/ LeftLocked)
=============================================================================
