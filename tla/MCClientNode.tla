---------------------------- MODULE MCClientNode ----------------------------
(* An instance of ClientNode for TLC.  The fourth client publishes more,   *)
(* with QoS 1 only, to have three publications on its list; the fifth on   *)
(* two topics, and may lose a PINGREQ and a REGISTER: what it then sends   *)
(* again is its CONNECT.                                                   *)
EXTENDS ClientNode

MCNames == {"s", "t"}
MCSubs == <<"s">>

Node(search, clean, will) ==
    [search |-> search, clean |-> clean, will |-> will, bit |-> will,
     names |-> {"t"}, qos |-> 0..2, publish |-> 2, faults |-> 1, others |-> 1]

MCConfigs ==
    {Node(TRUE, FALSE, FALSE), Node(FALSE, TRUE, FALSE), Node(FALSE, FALSE, TRUE),
     [Node(FALSE, FALSE, FALSE) EXCEPT !.qos = {1}, !.publish = 3, !.others = 0],
     [Node(FALSE, TRUE, FALSE) EXCEPT !.names = MCNames, !.qos = {0}, !.faults = 2]}
=============================================================================
