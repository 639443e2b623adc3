------------------------------ MODULE Requests ------------------------------
(***************************************************************************)
(* The requests of some nodes to one node, Server, and its answers: the    *)
(* handlers of src/core/dht.cc with the messages as they are on the wire   *)
(* (Messages) and the tokens of its TokenManager; the rows do not age (see *)
(* Storage).  Datagrams may be lost, duplicated and delayed: net holds all *)
(* that were ever sent, and a request is handled any number of times.      *)
(***************************************************************************)
EXTENDS TokenManager, Messages, FiniteSets, FiniteSetsExt, SequencesExt

CONSTANTS Server,
          Workloads,       \* bound: what the clients are up to, see below
          Seqs,            \* sequence numbers that a findValue may ask for
          Ports, Urls,
          Neighbours,      \* the nodes that KClosestNodes finds for any target
          MAX_PEERS,       \* 8
          VERSION, ProtocolError

\* Which nodes use which methods, whether they ask for a token in a findNode, the values
\* their owners have made so far, the keys of their peers, the number of requests, and
\* whether time passes.
Workload ==
    [clients : SUBSET Clients, methods : SUBSET (PING..FIND_VALUE), wants : SUBSET BOOLEAN,
     values : SUBSET UNION {w.values : w \in Workloads},
     keys : SUBSET UNION {w.keys : w \in Workloads}, max : Nat, time : BOOLEAN]

ASSUME RequestsAssumption ==
    /\ Server \notin Clients /\ None \notin Clients \cup {Server}
    /\ Workloads \subseteq Workload
    /\ Seqs \subseteq Nat \cup {-1}
    /\ Ports \subseteq 1..UINT16 - 1
    /\ MAX_PEERS \in Nat

VARIABLES values,    \* the values Server stores
          peers,     \* the peers Server stores
          rx,        \* its receive thread runs
          net,       \* the packets ever sent; sent is the message before serialize
          load       \* the workload

allVars == <<vars, values, peers, rx, net, load>>

-----------------------------------------------------------------------------
(* Sending. *)

\* RPCServer::sendMessage.
Packet(from, to, type, txid, body) ==
    LET m == [Message(type, txid, body) EXCEPT !.version = VERSION]
    IN  [from |-> from, to |-> to, sent |-> m, wire |-> serialize(m)]

RequestsSent == {p \in net : p.from \in Clients}

\* The ids that calls get are their numbers.
sendCall(c, type, body) ==
    /\ Cardinality(RequestsSent) < load.max
    /\ net' = net \cup {Packet(c, Server, type, Cardinality(RequestsSent) + 1, body)}
    /\ UNCHANGED <<vars, values, peers, rx>>

AnswersTo(q) ==
    {p \in net : p.from = Server /\ p.to = q.from /\ p.wire.t = q.wire.t}

Answered(q, type) == \E p \in AnswersTo(q) : p.wire.y = type

\* The tokens that c has for target, from the node lookup of an announce.
TokensOf(c, target) ==
    {parse(p.wire).body.token :
        p \in UNION {{a \in AnswersTo(q) : a.wire.y = RESPONSE + FIND_NODE} :
                        q \in {r \in net : /\ r.from = c
                                           /\ r.wire.y = REQUEST + FIND_NODE
                                           /\ r.wire.q.t = target}}}

-----------------------------------------------------------------------------
(* The clients, which use IPv4. *)

Want(token) == <<TRUE, FALSE, token>>

Sought == {calculateId(v) : v \in load.values} \cup {<<k>> : k \in load.keys}

ping(c) == sendCall(c, REQUEST + PING, Fields(REQUEST + PING))

findNode(c, target, token) ==
    sendCall(c, REQUEST + FIND_NODE,
             [Fields(REQUEST + FIND_NODE) EXCEPT !.target = target, !.want = Want(token)])

findValue(c, target, seq) ==
    sendCall(c, REQUEST + FIND_VALUE,
             [Fields(REQUEST + FIND_VALUE) EXCEPT !.target = target, !.want = Want(TRUE),
                                                  !.sequenceNumber = seq])

findPeer(c, target) ==
    sendCall(c, REQUEST + FIND_PEER,
             [Fields(REQUEST + FIND_PEER) EXCEPT !.target = target, !.want = Want(TRUE)])

\* ValueAnnounce and PeerAnnounce.
storeValue(c, v, token) ==
    sendCall(c, REQUEST + STORE_VALUE,
             [WithValue(Fields(REQUEST + STORE_VALUE), v) EXCEPT !.token = token])

announcePeer(c, p, token) ==
    sendCall(c, REQUEST + ANNOUNCE_PEER,
             [WithPeer(Fields(REQUEST + ANNOUNCE_PEER), p) EXCEPT !.token = token])

\* The peers that Node::announcePeer lets c announce: their origin is c.
PeersOf(c) ==
    {NewPeer(<<k>>, n, c, port, url) :
        k \in load.keys, n \in load.clients, port \in Ports, url \in Urls \cup {None}}

-----------------------------------------------------------------------------
(* The server's handlers of a request q, which parse makes of the packet. *)

\* The token that generateToken returns.
TokenFor(id, target) == [client |-> id, target |-> target, ts |-> timestamp']

Answer(q, type, body) == net' = net \cup {Packet(Server, q.from, type, q.wire.t, body)}

sendError(q, method, code) ==
    Answer(q, ERR + method, [code |-> code, message |-> "Invalid"])

\* populateClosestNodes, where the server's DHT is the one for IPv4.
ClosestNodes(body, want) ==
    [body EXCEPT !.nodes4 = IF want[1] THEN Neighbours ELSE @]

onPing(q) ==
    /\ Answer(q, RESPONSE + PING, Fields(RESPONSE + PING))
    /\ UNCHANGED <<vars, values, peers, rx>>

onFindNode(q, r) ==
    /\ IF r.want[3] THEN generateToken(q.from, r.target) ELSE UNCHANGED vars
    /\ Answer(q, RESPONSE + FIND_NODE,
              [ClosestNodes(Fields(RESPONSE + FIND_NODE), r.want) EXCEPT
                 !.token = IF r.want[3] THEN TokenFor(q.from, r.target) ELSE @])
    /\ UNCHANGED <<values, peers, rx>>

Stored(id) == {v \in values : calculateId(v) = id}

\* The stored value is not older than the one the request asks for; it need not be newer.
WantsValue(r, v) ==
    r.sequenceNumber < 0 \/ v.sequenceNumber < 0 \/ r.sequenceNumber <= v.sequenceNumber

\* The token is one for the id of the server itself.
onFindValue(q, r) ==
    LET found == {v \in Stored(r.target) : WantsValue(r, v)}
        body == [Fields(RESPONSE + FIND_VALUE) EXCEPT !.token = TokenFor(q.from, <<Server>>)]
    IN  /\ generateToken(q.from, <<Server>>)
        /\ Answer(q, RESPONSE + FIND_VALUE,
                  IF found = {} THEN ClosestNodes(body, r.want)
                  ELSE WithValue(body, CHOOSE v \in found : TRUE))
        /\ UNCHANGED <<values, peers, rx>>

MutRefuses(v, expectedSeq) == FALSE

\* SqliteStorage::putValue throws.
Refuses(v, expectedSeq) ==
    \E old \in Stored(calculateId(v)) :
        /\ old.publicKey # None
        /\ \/ v.publicKey = None
           \/ v.sequenceNumber < old.sequenceNumber
           \/ expectedSeq >= 0 /\ old.sequenceNumber # expectedSeq

\* The requests are from nodes whose values have all that getValue asks for. Nothing on
\* the receive thread catches what putValue throws.
onStoreValue(q, r) ==
    LET v == getValue(r)
        valid == Accepted(q.from, calculateId(v), r.token) /\ isValidValue(v)
    IN  /\ verifyToken
        /\ UNCHANGED peers
        /\ \/ /\ ~ valid
              /\ sendError(q, STORE_VALUE, ProtocolError)
              /\ UNCHANGED <<values, rx>>
           \/ /\ valid /\ Refuses(v, r.expectedSequenceNumber)
              /\ rx' = FALSE
              /\ UNCHANGED <<values, net>>
           \/ /\ valid /\ ~ Refuses(v, r.expectedSequenceNumber)
              /\ values' = (values \ Stored(calculateId(v))) \cup {v}
              /\ Answer(q, RESPONSE + STORE_VALUE, Fields(RESPONSE + STORE_VALUE))
              /\ UNCHANGED rx

\* SELECT_PEER: at most MAX_PEERS of them, in any order.
getPeers(id) ==
    LET found == {p \in peers : p.publicKey = id}
    IN  UNION {SetToSeqs(s) : s \in kSubset(Min({Cardinality(found), MAX_PEERS}), found)}

onFindPeers(q, r) ==
    /\ generateToken(q.from, r.target)
    /\ \E found \in getPeers(r.target) :
         LET body == [Fields(RESPONSE + FIND_PEER) EXCEPT
                        !.token = TokenFor(q.from, r.target), !.peers = found]
         IN  Answer(q, RESPONSE + FIND_PEER,
                    IF found = <<>> THEN ClosestNodes(body, r.want) ELSE body)
    /\ UNCHANGED <<values, peers, rx>>

SamePeer(p, o) == p.publicKey = o.publicKey /\ p.nodeId = o.nodeId /\ p.origin = o.origin

\* The address of the sender is no bogon.
onAnnouncePeer(q, r) ==
    /\ verifyToken
    /\ \/ /\ ~ Accepted(q.from, r.peerId, r.token)
          /\ sendError(q, ANNOUNCE_PEER, ProtocolError)
          /\ UNCHANGED peers
       \/ /\ Accepted(q.from, r.peerId, r.token)
          /\ peers' = {o \in peers : ~ SamePeer(getPeer(r, q.from), o)}
                        \cup {getPeer(r, q.from)}
          /\ Answer(q, RESPONSE + ANNOUNCE_PEER, Fields(RESPONSE + ANNOUNCE_PEER))
    /\ UNCHANGED <<values, rx>>

onRequest(q) ==
    LET m == parse(q.wire)
    IN  /\ rx
        /\ \/ ofMethod(m.type) = PING          /\ onPing(q)
           \/ ofMethod(m.type) = FIND_NODE     /\ onFindNode(q, m.body)
           \/ ofMethod(m.type) = FIND_VALUE    /\ onFindValue(q, m.body)
           \/ ofMethod(m.type) = STORE_VALUE   /\ onStoreValue(q, m.body)
           \/ ofMethod(m.type) = FIND_PEER     /\ onFindPeers(q, m.body)
           \/ ofMethod(m.type) = ANNOUNCE_PEER /\ onAnnouncePeer(q, m.body)

-----------------------------------------------------------------------------
InitRequests ==
    /\ Init
    /\ values = {} /\ peers = {} /\ rx = TRUE
    /\ net = {}
    /\ load \in Workloads

Client(c) ==
    \/ PING \in load.methods /\ ping(c)
    \/ \E t \in Sought, token \in load.wants : FIND_NODE \in load.methods /\ findNode(c, t, token)
    \/ \E t \in Sought, seq \in Seqs : FIND_VALUE \in load.methods /\ findValue(c, t, seq)
    \/ \E t \in Sought : FIND_PEER \in load.methods /\ findPeer(c, t)
    \/ \E v \in load.values : \E token \in TokensOf(c, calculateId(v)) :
          STORE_VALUE \in load.methods /\ storeValue(c, v, token)
    \/ \E p \in PeersOf(c) : \E token \in TokensOf(c, p.publicKey) :
          ANNOUNCE_PEER \in load.methods /\ announcePeer(c, p, token)

NextRequests ==
    /\ \/ \E c \in load.clients : Client(c)
       \/ \E q \in RequestsSent : onRequest(q)
       \/ load.time /\ Tick /\ UNCHANGED <<values, peers, rx, net>>
    /\ UNCHANGED load

SpecRequests == InitRequests /\ [][NextRequests]_allVars

-----------------------------------------------------------------------------
(* Properties. *)

Narrow(m) == m.type = REQUEST + STORE_VALUE => m.body.sequenceNumber < UINT16

\* Once onStoreValue has acknowledged a value, onFindValue answers a request for it, or
\* for an older one, with that value or a newer one (dht.cc:447-448). That a request with
\* the very number of the value is answered with it is what the code does, and not what
\* find_value_request.h:58 says: "Only send the value if the real sequence number greater
\* than this".
AckedIsFound ==
    [][\A q \in RequestsSent, s \in RequestsSent :
         LET m == parse(q.wire)
             v == getValue(parse(s.wire).body)
         IN  /\ q.wire.y = REQUEST + FIND_VALUE /\ s.wire.y = REQUEST + STORE_VALUE
             /\ Answered(s, RESPONSE + STORE_VALUE)
             /\ m.body.target = calculateId(v) /\ m.body.sequenceNumber <= v.sequenceNumber
             => \A a \in AnswersTo(q)' \ AnswersTo(q) :
                   LET w == getValue(parse(a.wire).body)
                   IN  w # None /\ w.sequenceNumber >= v.sequenceNumber]_allVars

\* onStoreValue stores a value only at the request of a node that sends a token it has got
\* for the id of that value, made with the present timestamp of the token manager or the
\* one before, however often and late requests are handled.
StoredInTime ==
    [][\A v \in values' \ values : \E q \in RequestsSent :
         LET r == parse(q.wire).body
         IN  /\ q.wire.y = REQUEST + STORE_VALUE /\ getValue(r) = v
             /\ r.token \in TokensOf(q.from, calculateId(v)) \ {None}
             /\ r.token.client = q.from /\ r.token.target = calculateId(v)
             /\ r.token.ts \in {timestamp', previousTimestamp'}]_allVars

\* Nothing is lost or mixed up between the two wires and the storage. What is read from a
\* packet is the message that was written to it, for every class of message; store
\* requests for sequence numbers beyond 16 bits are left out. And what onFindValue and
\* onFindPeers answer with, read from the wire, is a value its owner made, or a valid peer
\* that its origin announced (messages/*.cc, dht.cc:430-541).
WiresFaithful ==
    /\ \A p \in net : Narrow(p.sent) => parse(p.wire) = p.sent
    /\ \A a \in net : LET m == parse(a.wire) IN
         /\ m.type = RESPONSE + FIND_VALUE /\ m.body.value # None
               => getValue(m.body) \in load.values
         /\ m.type = RESPONSE + FIND_PEER =>
               \A i \in DOMAIN m.body.peers : LET p == m.body.peers[i] IN
                  /\ isValidPeer(p)
                  /\ \E q \in RequestsSent :
                        /\ q.from = p.origin /\ q.wire.y = REQUEST + ANNOUNCE_PEER
                        /\ q.sent.body.signature = p.signature
=============================================================================
