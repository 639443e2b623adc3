----------------------------- MODULE MCRequests -----------------------------
EXTENDS Requests

\* Three versions of a value of the node "a", around the limit of 16 bits.
Versions == {NewValue("a", None, "n", 65534, "d"), NewValue("a", "b", "n", 65535, "d"),
             NewValue("a", None, "n", 65536, "d")}
Plain == {ImmutableValue("d")}

Storing ==
    [clients |-> {"a"}, methods |-> {PING, FIND_NODE, FIND_VALUE, STORE_VALUE}, wants |-> {TRUE, FALSE},
     values |-> Versions, keys |-> {}, max |-> 4, time |-> FALSE]

Expiring ==
    [clients |-> {"a", "b"}, methods |-> {FIND_NODE, STORE_VALUE}, wants |-> {TRUE},
     values |-> Plain, keys |-> {}, max |-> 2, time |-> TRUE]

Announcing ==
    [clients |-> {"a", "b"}, methods |-> {FIND_NODE, FIND_PEER, ANNOUNCE_PEER}, wants |-> {TRUE},
     values |-> {}, keys |-> {"k"}, max |-> 4, time |-> FALSE]

MCWorkloads == {Storing, Expiring, Announcing}

MCTargets == {calculateId(v) : v \in Versions \cup Plain} \cup {<<"k">>, <<Server>>}
MCSeqs == {-1, 65535}

MCNeighbours == <<[id |-> "x", ip |-> "10.0.0.1", port |-> 65535],
                  [id |-> "y", ip |-> "10.0.0.2", port |-> 1]>>
=============================================================================
