----------------------------- MODULE MCEventQue -----------------------------
(* An instance of EventQue for TLC. *)
EXTENDS EventQue, TLC

CONSTANTS p1, p2
MCPosters == {p1, p2}
=============================================================================
