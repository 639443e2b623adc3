--------------------------- MODULE MCRoutingTable ---------------------------
EXTENDS RoutingTable

\* Ids of two bits.  The node at address 2 is heard of under two ids, and the id
\* <<1, 0>> at two addresses.
MovingPeers == {[id |-> <<1, 0>>, addr |-> 2], [id |-> <<1, 1>>, addr |-> 2],
                [id |-> <<1, 0>>, addr |-> 3]}
Zeros == <<0, 0>>
OneZero == {<<1, 0>>}
=============================================================================
