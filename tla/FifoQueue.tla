------------------------------ MODULE FifoQueue ------------------------------
(***************************************************************************)
(* What the threads of the gateway expect of an EventQue: a queue from     *)
(* which the consumer takes the posted events one at a time, in the order  *)
(* in which they were posted, none lost and none taken twice.              *)
(***************************************************************************)
EXTENDS Sequences

CONSTANT Event      \* the events that can be posted

VARIABLES
    queue,          \* the events posted and not yet taken, oldest first
    taken           \* history: the events taken, oldest first

vars == <<queue, taken>>

Init == queue = << >> /\ taken = << >>

Post == \E e \in Event : queue' = Append(queue, e) /\ UNCHANGED taken

Take == /\ queue # << >>
        /\ queue' = Tail(queue)
        /\ taken' = Append(taken, Head(queue))

Next == Post \/ Take

Spec == Init /\ [][Next]_vars
=============================================================================
