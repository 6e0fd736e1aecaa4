---- MODULE MCHsfzWire ----
(* Two gateways of which one has a VIN-like prefix before the marker, a     *)
(* request and the keepalive, and replies of three shapes, one malformed.   *)
EXTENDS HsfzWire

MCAnnounce == [g \in Gateways |->
    IF g = "g1" THEN <<"A", "B", "-", Marker, "B", "A">> ELSE <<"B", "A", "-">>]
MCSends == [s \in Senders |->
    IF s = "keepalive" THEN Frame(DIAGNOSTIC, <<0, 2>>, <<1>>)
    ELSE Frame(DIAGNOSTIC, <<0, 1>>, <<2>>)]
MCReplies == {Frame(DIAGNOSTIC, <<1, 0>>, <<>>), Frame(ALIVE_CHECK, <<>>, <<>>),
              Frame(DIAGNOSTIC, <<>>, <<7>>)}
====
