------------------------------ MODULE Messages ------------------------------
(***************************************************************************)
(* The messages of the DHT (src/core/messages) with the values and peers   *)
(* they carry (value.cc, peer_info.cc): how a message becomes a CBOR map   *)
(* and how it is read back.  A map is a function from its keys; CBOR       *)
(* itself, hashing, signing and encryption are external.  None stands for  *)
(* what is absent or empty: an optional without a value, an empty blob or  *)
(* string, null, and the token 0.                                          *)
(***************************************************************************)
EXTENDS Integers, Sequences, TLC

CONSTANTS None,
          UINT16      \* 65536: the number of values of uint16_t

ASSUME MessagesAssumption == UINT16 \in Nat \ {0}

-----------------------------------------------------------------------------
(* Values. *)

\* What getSignData puts together; the key pair's signature of it is modelled by
\* the data and the key.
SignedValue(v) ==
    <<v.publicKey, v.recipient, v.nonce, v.sequenceNumber, v.data>>

calculateId(v) ==
    IF v.publicKey = None THEN <<v.data>> ELSE <<v.publicKey, v.nonce>>

isValidValue(v) ==
    v.data # None /\ (v.publicKey # None => v.signature = SignedValue(v))

ImmutableValue(data) ==
    [publicKey |-> None, recipient |-> None, nonce |-> None, signature |-> None,
     sequenceNumber |-> 0, data |-> data]

\* Value::of; None where it throws.
ValueOf(publicKey, recipient, nonce, sequenceNumber, signature, data) ==
    IF \/ data = None
       \/ publicKey # None /\ (nonce = None \/ sequenceNumber < 0 \/ signature = None)
    THEN None
    ELSE IF publicKey = None THEN ImmutableValue(data)
    ELSE [publicKey |-> publicKey, recipient |-> recipient, nonce |-> nonce,
          signature |-> signature, sequenceNumber |-> sequenceNumber, data |-> data]

\* createSignedValue and createEncryptedValue.
NewValue(publicKey, recipient, nonce, sequenceNumber, data) ==
    LET content == IF recipient = None THEN data ELSE <<data, recipient, publicKey, nonce>>
        v == [publicKey |-> publicKey, recipient |-> recipient, nonce |-> nonce,
              signature |-> None, sequenceNumber |-> sequenceNumber, data |-> content]
    IN  [v EXCEPT !.signature = SignedValue(v)]

-----------------------------------------------------------------------------
(* Peers. *)

SignedPeer(p) == <<p.publicKey, p.nodeId, p.origin, p.port, p.alternativeURL>>

isValidPeer(p) == p.signature = SignedPeer(p)

isDelegated(p) == p.nodeId # p.origin

\* PeerInfo::of, for the ids, ports and signatures that it accepts. URLs are in NFC,
\* which is what the constructors make of them.
PeerOf(peerId, nodeId, origin, port, alternativeURL, signature) ==
    [publicKey |-> peerId, nodeId |-> nodeId,
     origin |-> IF origin = None THEN nodeId ELSE origin,
     port |-> port, alternativeURL |-> alternativeURL, signature |-> signature]

\* PeerInfo::create.
NewPeer(publicKey, nodeId, origin, port, alternativeURL) ==
    LET p == PeerOf(publicKey, nodeId, origin, port, alternativeURL, None)
    IN  [p EXCEPT !.signature = SignedPeer(p)]

-----------------------------------------------------------------------------
(* The classes of messages: a type and a method share one byte. *)

ERR == 0
REQUEST == 32
RESPONSE == 64

UNKNOWN == 0
PING == 1
FIND_NODE == 2
ANNOUNCE_PEER == 3
FIND_PEER == 4
STORE_VALUE == 5
FIND_VALUE == 6

ofType(type) == (type \div 32) * 32
ofMethod(type) == type % 32

\* The types that createMessage makes an object for.
Creatable ==
    {type \in 0..255 :
        /\ ofType(type) \in {ERR, REQUEST, RESPONSE}
        /\ ofMethod(type) \in UNKNOWN..FIND_VALUE
        /\ ofType(type) # ERR => ofMethod(type) # UNKNOWN}

getKeyString(type) ==
    CASE ofType(type) = REQUEST  -> "q"
      [] ofType(type) = RESPONSE -> "r"
      [] ofType(type) = ERR      -> "e"

\* The fields that hold a value, and those of the lookup requests and responses.
ValueFields ==
    [publicKey |-> None, recipient |-> None, nonce |-> None, signature |-> None,
     sequenceNumber |-> -1, value |-> None]
LookupFields == [target |-> None, want |-> <<FALSE, FALSE, FALSE>>]
AnswerFields == [nodes4 |-> <<>>, nodes6 |-> <<>>, token |-> None]

\* The fields of a class as its default constructor sets them.
Fields(type) ==
    CASE type = REQUEST + STORE_VALUE ->
           ValueFields @@ [token |-> None, expectedSequenceNumber |-> -1]
      [] type = REQUEST + ANNOUNCE_PEER ->
           [token |-> None, peerId |-> None, nodeId |-> None, port |-> 0,
            alternativeURL |-> None, signature |-> None]
      [] type = REQUEST + FIND_VALUE  -> LookupFields @@ [sequenceNumber |-> -1]
      [] type \in {REQUEST + FIND_NODE, REQUEST + FIND_PEER}   -> LookupFields
      [] type = RESPONSE + FIND_NODE  -> AnswerFields
      [] type = RESPONSE + FIND_VALUE -> AnswerFields @@ ValueFields
      [] type = RESPONSE + FIND_PEER  -> AnswerFields @@ [peers |-> <<>>]
      [] ofType(type) = ERR           -> [code |-> 0, message |-> None]
      [] OTHER                        -> <<>>

ValueKeys ==
    [k |-> "publicKey", rec |-> "recipient", n |-> "nonce", sig |-> "signature",
     seq |-> "sequenceNumber", v |-> "value"]
LookupKeys == [t |-> "target", w |-> "want"]
AnswerKeys == [n4 |-> "nodes4", n6 |-> "nodes6", tok |-> "token"]

\* The keys of a class, with the field that each is for.
Keys(type) ==
    CASE type = REQUEST + STORE_VALUE ->
           ValueKeys @@ [tok |-> "token", cas |-> "expectedSequenceNumber"]
      [] type = REQUEST + ANNOUNCE_PEER ->
           [tok |-> "token", t |-> "peerId", x |-> "nodeId", p |-> "port",
            alt |-> "alternativeURL", sig |-> "signature"]
      [] type = REQUEST + FIND_VALUE  -> LookupKeys @@ [seq |-> "sequenceNumber"]
      [] type \in {REQUEST + FIND_NODE, REQUEST + FIND_PEER}   -> LookupKeys
      [] type = RESPONSE + FIND_NODE  -> AnswerKeys
      [] type = RESPONSE + FIND_VALUE -> AnswerKeys @@ ValueKeys
      [] type = RESPONSE + FIND_PEER  -> AnswerKeys @@ [p |-> "peers"]
      [] ofType(type) = ERR           -> [c |-> "code", m |-> "message"]
      [] OTHER                        -> <<>>

-----------------------------------------------------------------------------
(* Writing a message. *)

\* The keys that are written whatever their field holds.
AlwaysWritten(type) ==
    CASE type = REQUEST + STORE_VALUE   -> {"tok", "v"}
      [] type = REQUEST + ANNOUNCE_PEER -> {"tok", "t", "p", "sig"}
      [] type \in {REQUEST + FIND_NODE, REQUEST + FIND_PEER, REQUEST + FIND_VALUE} ->
           {"t", "w"}
      [] ofType(type) = ERR             -> {"c", "m"}
      [] OTHER                          -> {}

\* The keys that are written for a mutable value only.
ForMutable(type) ==
    IF type = REQUEST + STORE_VALUE THEN {"k", "rec", "n", "sig", "seq", "cas"}
    ELSE IF type = RESPONSE + FIND_VALUE THEN {"k", "rec", "n", "sig", "seq"}
    ELSE {}

\* A key whose field has its default value (empty, token 0, a number below 0) is
\* left out.
Written(type, body) ==
    {key \in DOMAIN Keys(type) :
        /\ key \in AlwaysWritten(type) \/ body[Keys(type)[key]] # Fields(type)[Keys(type)[key]]
        /\ key \in ForMutable(type) => body.publicKey # None}

MutGetWant(want) == (IF want[1] THEN 1 ELSE 0) + (IF want[2] THEN 2 ELSE 0)

getWant(want) ==
    (IF want[1] THEN 1 ELSE 0) + (IF want[2] THEN 2 ELSE 0) + (IF want[3] THEN 4 ELSE 0)

\* The array of peers: their id once, then an array for each.
PeersToJson(peers) ==
    <<peers[1].publicKey>> \o
    [i \in DOMAIN peers |->
        <<peers[i].nodeId, IF isDelegated(peers[i]) THEN peers[i].origin ELSE None,
          peers[i].port, peers[i].alternativeURL, peers[i].signature>>]

NodesToJson(nodes) == [i \in DOMAIN nodes |-> <<nodes[i].id, nodes[i].ip, nodes[i].port>>]

ToJson(field, x) ==
    CASE field = "want"                 -> getWant(x)
      [] field = "peers"                -> PeersToJson(x)
      [] field \in {"nodes4", "nodes6"} -> NodesToJson(x)
      [] OTHER                          -> x

Object(type, body) ==
    [key \in Written(type, body) |-> ToJson(Keys(type)[key], body[Keys(type)[key]])]

\* A class without fields writes the common keys only.
serialize(m) ==
    [y |-> m.type, t |-> m.txid, v |-> m.version] @@
    (IF DOMAIN Keys(m.type) = {} THEN <<>>
     ELSE getKeyString(m.type) :> Object(m.type, m.body))

-----------------------------------------------------------------------------
(* Reading a message. *)

setWant(want) == <<want % 2 = 1, (want \div 2) % 2 = 1, (want \div 4) % 2 = 1>>

PeersFromJson(array) ==
    [i \in 1..Len(array) - 1 |->
        PeerOf(array[1], array[i + 1][1], array[i + 1][2], array[i + 1][3] % UINT16,
               array[i + 1][4], array[i + 1][5])]

NodesFromJson(array) ==
    [i \in DOMAIN array |-> [id |-> array[i][1], ip |-> array[i][2], port |-> array[i][3]]]

\* The sequence number of a store request is read as a uint16_t, the one of a
\* response as an int.
FromJson(type, field, x) ==
    CASE field = "want"                 -> setWant(x)
      [] field = "peers"                -> PeersFromJson(x)
      [] field \in {"nodes4", "nodes6"} -> NodesFromJson(x)
      [] field = "port"                 -> x % UINT16
      [] field = "sequenceNumber" /\ type = REQUEST + STORE_VALUE -> x % UINT16
      [] OTHER                          -> x

\* The classes that pass over a key they do not know; the others throw.
Tolerant == {REQUEST + FIND_NODE, REQUEST + FIND_PEER, RESPONSE + FIND_NODE}

ParseBody(type, object) ==
    [field \in DOMAIN Fields(type) |->
        LET key == {k \in DOMAIN object \cap DOMAIN Keys(type) : Keys(type)[k] = field}
        IN  IF key = {} THEN Fields(type)[field]
            ELSE FromJson(type, field, object[CHOOSE k \in key : TRUE])]

\* Message::parse; None where it throws.
parse(root) ==
    LET bodies == DOMAIN root \cap {"q", "r", "e"}
        Refused(key) ==
            \/ key # getKeyString(root.y)
            \/ root.y \notin Tolerant /\ ~ DOMAIN root[key] \subseteq DOMAIN Keys(root.y)
    IN  IF \/ root.y \notin Creatable
           \/ DOMAIN Keys(root.y) # {} /\ \E key \in bodies : Refused(key)
        THEN None
        ELSE [type |-> root.y, txid |-> root.t, version |-> root.v,
              body |-> IF bodies = {} \/ DOMAIN Keys(root.y) = {} THEN Fields(root.y)
                       ELSE ParseBody(root.y, root[getKeyString(root.y)])]

-----------------------------------------------------------------------------
(* What the classes offer to those who use them. *)

\* setValue of StoreValueRequest and of FindValueResponse.
WithValue(body, v) ==
    [body EXCEPT !.publicKey = v.publicKey, !.recipient = v.recipient,
                 !.nonce = v.nonce, !.signature = v.signature,
                 !.sequenceNumber = IF v.publicKey = None THEN @ ELSE v.sequenceNumber,
                 !.value = v.data]

getValue(body) ==
    ValueOf(body.publicKey, body.recipient, body.nonce, body.sequenceNumber,
            body.signature, body.value)

\* setPeer and getPeer of AnnouncePeerRequest; sender is the id of the node it came from.
WithPeer(body, p) ==
    [body EXCEPT !.peerId = p.publicKey, !.nodeId = IF isDelegated(p) THEN p.nodeId ELSE @,
                 !.port = p.port, !.alternativeURL = p.alternativeURL,
                 !.signature = p.signature]

getPeer(body, sender) ==
    PeerOf(body.peerId, IF body.nodeId = None THEN sender ELSE body.nodeId, sender,
           body.port, body.alternativeURL, body.signature)

Message(type, txid, body) == [type |-> type, txid |-> txid, version |-> 0, body |-> body]
=============================================================================
