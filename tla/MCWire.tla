------------------------------- MODULE MCWire -------------------------------
(* The sessions of Wire that TLC follows.                                   *)
EXTENDS Wire

abc == <<97, 98, 47, 99>>           \* topics
cde == <<99, 100, 47, 101>>
dev == <<100, 101, 118>>            \* client ids, the second of 25 octets
device == [i \in 1 .. 25 |-> 96 + i]
Special4 == <<126, 125, 17, 19>>    \* data
Octets128 == [i \in 1 .. 128 |-> 65]
Octets129 == [i \in 1 .. 129 |-> 65]

Ask(type) == [type |-> type]
Register(name) == [type |-> "REGISTER", name |-> name]
Subscribe(name, qos) == [type |-> "SUBSCRIBE", name |-> name, qos |-> qos]
Unsubscribe(name) == [type |-> "UNSUBSCRIBE", name |-> name]
Publish(name, qos, retain, data) ==
    [type |-> "PUBLISH", name |-> name, qos |-> qos, retain |-> retain, data |-> data]
Disconnect(secs) == [type |-> "DISCONNECT", secs |-> secs]
Comes(name, qos, mid, dup, retain, data) ==
    [type |-> "PUBLISH", dup |-> dup, retain |-> retain, qos |-> qos, name |-> name,
     mid |-> mid, data |-> data]
Other == <<0, 19, 162, 0, 64, 9, 9, 9>>

Udp == [carrier |-> "udp", search |-> FALSE, protocol |-> 4, clean |-> TRUE, will |-> <<>>,
        login |-> <<>>, id |-> dev, keepAlive |-> 300, mid |-> 0, frame |-> 0, left |-> 0,
        refuse |-> 0, deny |-> <<>>, script |-> <<>>, writes |-> <<>>, adverts |-> 0,
        foreign |-> <<>>, faulty |-> FALSE]
Radio == [Udp EXCEPT !.carrier = "xbee", !.frame = 0]
Will == <<<<119, 47, 108>>, <<108, 111, 115, 116>>, 1, TRUE>>

MCSessions ==
    { \* message ids that go round, data up to the last length of one octet
     [Udp EXCEPT !.mid = 65534, !.faulty = TRUE,
        !.script = <<Register(abc), Publish(abc, 1, TRUE, Octets128), Ask("AGAIN"),
                     Publish(abc, 0, FALSE, <<>>)>>],
     [Udp EXCEPT !.script = <<Register(abc), Publish(abc, 1, FALSE, Octets129),
                              Ask("PINGREQ")>>,
                 !.writes = <<Comes(cde, 0, 0, FALSE, FALSE, Octets128)>>],
     \* flags that are left in the buffer
     [Udp EXCEPT !.clean = FALSE, !.left = 8],
     [Udp EXCEPT !.clean = FALSE, !.will = Will, !.refuse = 3],
     \* a will, a login, a broker of the older protocol
     [Udp EXCEPT !.will = Will, !.refuse = 1, !.login = <<<<117>>, <<112, 119>>>>,
                 !.id = device, !.script = <<Ask("PINGREQ")>>],
     \* both ways at once
     [Udp EXCEPT !.faulty = TRUE, !.mid = 32124,
        !.script = <<Subscribe(abc, 1), Unsubscribe(abc)>>,
        !.writes = <<Comes(abc, 1, 255, FALSE, TRUE, <<65, 66>>),
                     Comes(cde, 0, 0, FALSE, FALSE, <<67>>)>>],
     [Udp EXCEPT !.search = TRUE, !.adverts = 1, !.deny = cde,
        !.script = <<Subscribe(cde, 0), Disconnect(2048)>>,
        !.foreign = <<[from |-> "stranger", msg |-> SnConnack(3)],
                      [from |-> "port", msg |-> SnPubAck(256, 1, 2)]>>],
     \* what means something to a modem: in data, as message ids, as frame ids
     [Radio EXCEPT !.faulty = TRUE, !.mid = 4862, !.frame = 15,
        !.script = <<Register(abc), Publish(abc, 2, FALSE, Special4)>>],
     [Radio EXCEPT !.mid = 32124, !.frame = 122, !.clean = FALSE,
        !.script = <<Subscribe(abc, 1)>>,
        !.writes = <<Comes(abc, 1, 32126, TRUE, FALSE, Special4)>>],
     [Radio EXCEPT !.frame = 253, !.search = TRUE, !.id = device,
        !.script = <<Ask("PINGREQ"), Disconnect(0)>>,
        !.foreign = <<[from |-> Other, msg |-> SnAdvertise(7, 60)],
                      [from |-> Other, msg |-> SnConnack(3)]>>]}
=============================================================================
