--------------------------- MODULE MCGatewayRelay ---------------------------
(* An instance of GatewayRelay for TLC: a long topic name and a short one.  *)
EXTENDS GatewayRelay, TLC

CONSTANTS a, st
MCNames == {a, st}
MCShorts == {st}
MCClients ==
    {[says |-> {"CONNECT", "REGISTER", "PUBLISH", "NORMAL"}, max |-> 5],
     [says |-> {"CONNECT", "SUBSCRIBE", "DISCONNECT", "PINGREQ", "NORMAL"}, max |-> 4],
     [says |-> {"CONNECT", "SUBSCRIBE", "UNSUBSCRIBE", "PUBLISH",
                "NORMAL", "SHORT", "PREDEFINED", "RESV"}, max |-> 3]}
=============================================================================
