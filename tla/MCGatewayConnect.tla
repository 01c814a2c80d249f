-------------------------- MODULE MCGatewayConnect --------------------------
(* Instances of GatewayConnect for TLC. *)
EXTENDS GatewayConnect, TLC

MCAll == ClientMsg
MCPlain == {m \in ClientMsg : m.type = "CONNECT" /\ ~m.will}
=============================================================================
