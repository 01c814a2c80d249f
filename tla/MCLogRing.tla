----------------------------- MODULE MCLogRing ------------------------------
(* An instance of LogRing for TLC. *)
EXTENDS LogRing, TLC

MCSizes == {2, 3}
=============================================================================
