------------------------------ MODULE EventQue ------------------------------
(***************************************************************************)
(* EventQue<T> of the ProcessFramework: a std::queue guarded by a Mutex,   *)
(* with a Semaphore to wake its single consumer.  A post pushes under the  *)
(* mutex and, after releasing it, signals the semaphore only if it reads a *)
(* value <= 0; the reading and the signal are two steps.  The consumer     *)
(* calls wait() (the two send tasks) or timedwait() (GatewayControlTask),  *)
(* which both pop after the semaphore call without looking at its result.  *)
(*                                                                         *)
(* A critical section of _mutex is one step: nothing but the queue is      *)
(* touched in it and no call that blocks is made.                          *)
(***************************************************************************)
EXTENDS Naturals, Sequences, FiniteSets

CONSTANTS
    Posters,    \* the threads that post to the queue
    MaxPosts    \* bound of the model: posts per thread

ASSUME PostersFinite == IsFiniteSet(Posters)
ASSUME MaxPostsNat == MaxPosts \in Nat

VARIABLES
    timed,      \* the consumer calls timedwait() (TRUE) or wait() (FALSE)
    que,        \* _que
    sem,        \* the value of _sem
    step,       \* step[p]: where thread p is in post()
    posted,     \* posted[p]: how many events p has pushed
    consumer,   \* "blocked" in the semaphore call, or "popping"
    taken       \* history: the events wait()/timedwait() returned

vars == <<timed, que, sem, step, posted, consumer, taken>>

Event == Posters \X (1..MaxPosts)     \* the n-th event of a thread

Init ==
    /\ timed \in BOOLEAN
    /\ que = << >>
    /\ sem = 0
    /\ step = [p \in Posters |-> "idle"]
    /\ posted = [p \in Posters |-> 0]
    /\ consumer = "blocked"
    /\ taken = << >>

(* Fault for the mutation runs: a full queue drops the event, unreported. *)
PushDropping(p) ==
    /\ step[p] = "idle"
    /\ posted[p] < MaxPosts
    /\ posted' = [posted EXCEPT ![p] = @ + 1]
    /\ que' = IF que = << >> THEN << <<p, posted[p] + 1>> >> ELSE que
    /\ step' = [step EXCEPT ![p] = "getvalue"]
    /\ UNCHANGED <<timed, sem, consumer, taken>>

(* post(): lock, push, unlock. *)
Push(p) ==
    /\ step[p] = "idle"
    /\ posted[p] < MaxPosts
    /\ posted' = [posted EXCEPT ![p] = @ + 1]
    /\ que' = Append(que, <<p, posted[p] + 1>>)
    /\ step' = [step EXCEPT ![p] = "getvalue"]
    /\ UNCHANGED <<timed, sem, consumer, taken>>

(* Semaphore::post(): sem_getvalue and the test of what it read. *)
GetValue(p) ==
    /\ step[p] = "getvalue"
    /\ step' = [step EXCEPT ![p] = IF sem = 0 THEN "signal" ELSE "idle"]
    /\ UNCHANGED <<timed, que, sem, posted, consumer, taken>>

(* Semaphore::post(): the sem_post that a value <= 0 leads to. *)
Signal(p) ==
    /\ step[p] = "signal"
    /\ sem' = sem + 1
    /\ step' = [step EXCEPT ![p] = "idle"]
    /\ UNCHANGED <<timed, que, posted, consumer, taken>>

(* Fault: the semaphore call returns although the semaphore is 0. *)
AcquireUnblocked ==
    /\ consumer = "blocked"
    /\ sem' = sem - 1
    /\ consumer' = "popping"
    /\ UNCHANGED <<timed, que, step, posted, taken>>

(* sem_wait or sem_timedwait returns because the semaphore is positive. *)
Acquire ==
    /\ consumer = "blocked"
    /\ sem > 0
    /\ sem' = sem - 1
    /\ consumer' = "popping"
    /\ UNCHANGED <<timed, que, step, posted, taken>>

(* Fault: when the time is up, timedwait() returns Timeout at once. *)
TimeUpNoPop == timed /\ consumer = "blocked" /\ sem = 0 /\ UNCHANGED vars

(* sem_timedwait returns because the time is up. *)
TimeUp ==
    /\ timed
    /\ consumer = "blocked"
    /\ sem = 0
    /\ consumer' = "popping"
    /\ UNCHANGED <<timed, que, sem, step, posted, taken>>

(* Fault: the last event posted is taken first. *)
PopNewest ==
    /\ consumer = "popping"
    /\ timed => que # << >>
    /\ que' = SubSeq(que, 1, Len(que) - 1)
    /\ taken' = Append(taken, que[Len(que)])
    /\ consumer' = "blocked"
    /\ UNCHANGED <<timed, sem, step, posted>>

(* lock, front, pop, unlock: wait() does not look whether the queue is     *)
(* empty, timedwait() does.                                                *)
Pop ==
    /\ consumer = "popping"
    /\ timed => que # << >>
    /\ que' = Tail(que)
    /\ taken' = Append(taken, Head(que))
    /\ consumer' = "blocked"
    /\ UNCHANGED <<timed, sem, step, posted>>

(* timedwait() finds the queue empty and returns a new Timeout event. *)
ReturnTimeout ==
    /\ timed
    /\ consumer = "popping"
    /\ que = << >>
    /\ consumer' = "blocked"
    /\ UNCHANGED <<timed, que, sem, step, posted, taken>>

PostStep(p) == Push(p) \/ GetValue(p) \/ Signal(p)

ConsumerStep == Acquire \/ TimeUp \/ Pop \/ ReturnTimeout

Next == (\E p \in Posters : PostStep(p)) \/ ConsumerStep

Spec == Init /\ [][Next]_vars

(* The threads of the gateway are scheduled, a post() that has begun ends, *)
(* and sem_timedwait ends at the latest when its time is up.  Nothing      *)
(* obliges a thread to begin another post.                                 *)
Fairness ==
    /\ \A p \in Posters : WF_vars(GetValue(p) \/ Signal(p))
    /\ WF_vars(ConsumerStep)

FairSpec == Spec /\ Fairness

-----------------------------------------------------------------------------
(* Type invariant. *)
TypeOK ==
    /\ timed \in BOOLEAN
    /\ que \in Seq(Event)
    /\ sem \in Nat
    /\ step \in [Posters -> {"idle", "getvalue", "signal"}]
    /\ posted \in [Posters -> 0..MaxPosts]
    /\ consumer \in {"blocked", "popping"}
    /\ taken \in Seq(Event)

(* Threads that have pushed and not yet finished Semaphore::post(). *)
Signalling == {p \in Posters : step[p] \in {"getvalue", "signal"}}

(* A consumer that uses wait() never calls front() and pop() on an empty   *)
(* queue, although it does not look: each return of sem_wait is paid for   *)
(* by an event that is still in the queue.                                 *)
WaitPopsAnEvent == ~timed /\ consumer = "popping" => que # << >>

(* The semaphore never counts more wake-ups than there are posting         *)
(* threads, however long the queue is: with one poster it is binary, and   *)
(* with several only the race between sem_getvalue and sem_post makes it   *)
(* more.                                                                   *)
SemWithinPosters == sem <= Cardinality(Posters)

(* Why the two hold: in a queue consumed with wait() every wake-up, given,  *)
(* taken or still to be given, stands for an event in the queue; and only  *)
(* a thread that has seen the semaphore at 0 is about to signal it.        *)
WakeupsPaid ==
    ~timed => sem + (IF consumer = "popping" THEN 1 ELSE 0)
                  + Cardinality(Signalling) <= Len(que)

AboutToSignal == {p \in Posters : step[p] = "signal"}

SignalsWithinPosters == sem + Cardinality(AboutToSignal) <= Cardinality(Posters)

IndInv == TypeOK /\ WakeupsPaid /\ SignalsWithinPosters

(* Events of one thread are taken in the order in which it posted them,    *)
(* and none is skipped: REGISTER before the PUBLISH that needs it.         *)
Fifo == INSTANCE FifoQueue WITH queue <- que

ImplementsFifo == Fifo!Spec

(* Every event that was pushed is returned to a consumer that calls        *)
(* timedwait() in the end, although signals are skipped and a timeout pops *)
(* without taking one.  With wait() the last of several events may stay.   *)
EveryPostTaken ==
    \A p \in Posters : \A n \in 1..MaxPosts :
        timed /\ posted[p] >= n ~> \E i \in 1..Len(taken) : taken[i] = <<p, n>>
=============================================================================
