--------------------------- MODULE MCBrokerStack ---------------------------
(* Instances of BrokerStack for TLC. *)
EXTENDS BrokerStack

AnyRequesters == SUBSET {"B", "C"}
NoRequesters == {{}}
=============================================================================
