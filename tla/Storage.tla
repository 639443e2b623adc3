------------------------------- MODULE Storage -------------------------------
(***************************************************************************)
(* The values and peers a node keeps (src/core/sqlite_storage.cc) and those *)
(* who write them: the user, the requests of other nodes (dht.cc), the      *)
(* handlers of findValue and findPeer, the expiration and the re-announce   *)
(* of persistent rows (node.cc).  SQLite itself is external: a statement is *)
(* durable, unless it runs in a transaction that is never committed.  An    *)
(* immutable value is the case of one sequence number and no private key.   *)
(* The unit of time is RE_ANNOUNCE_INTERVAL divided as finely as one wants. *)
(***************************************************************************)
EXTENDS Integers, FiniteSets

CONSTANTS ValueIds, PeerIds,
          Delegated,               \* the peers whose nodeId is not their origin
          MAX_AGE,                 \* MAX_VALUE_AGE and MAX_PEER_AGE
          RE_ANNOUNCE_INTERVAL,
          MaxDelay,                \* bound: how late the scheduler may run a job
          MaxSeq, MaxTime,         \* bounds: sequence numbers, time
          MaxCalls                 \* bound: calls of the user that write at the same time

ASSUME StorageAssumption ==
    /\ Delegated \subseteq PeerIds /\ ValueIds \cap PeerIds = {}
    /\ MAX_AGE \in Nat /\ RE_ANNOUNCE_INTERVAL \in Nat \ {0}
    /\ 2 * RE_ANNOUNCE_INTERVAL <= MAX_AGE
    /\ MaxDelay \in 0..RE_ANNOUNCE_INTERVAL
    /\ MaxSeq \in Nat /\ MaxTime \in Nat /\ MaxCalls \in Nat

VARIABLES rows,       \* the tables valores and peers
          saved,      \* the tables as the last commit left them
          open,       \* a transaction is open
          checked,    \* the calls of putValue between their checks and their write
          batches,    \* the calls of putPeer with a list, between BEGIN and COMMIT
          now,
          up,         \* the node is running and the storage is open
          rx,         \* the receive thread lives, and with it the scheduler
          due,        \* when persistentAnnounce runs next
          announcing, \* history: it has run since the node was started
          failed,     \* history: a transaction has failed since the node was started
          wanted      \* history: what the user wants to be persistent

vars == <<rows, saved, open, checked, batches, now, up, rx, due, announcing, failed, wanted>>

Ids == ValueIds \cup PeerIds

Row == [there : BOOLEAN, seq : 0..MaxSeq, privateKey : BOOLEAN, persistent : BOOLEAN,
        timestamp : Nat, announced : Nat]

NoRow == [there |-> FALSE, seq |-> 0, privateKey |-> FALSE, persistent |-> FALSE,
          timestamp |-> 0, announced |-> 0]

\* A call of putValue: its arguments, and the value it has found.
Put == [onRx : BOOLEAN, id : ValueIds, seq : 0..MaxSeq, privateKey : BOOLEAN,
        persistent : BOOLEAN, updateLastAnnounce : BOOLEAN,
        old : SUBSET [seq : 0..MaxSeq, privateKey : BOOLEAN]]

Batch == [onRx : BOOLEAN, left : SUBSET PeerIds]

Init ==
    /\ rows = [i \in Ids |-> NoRow] /\ saved = rows /\ open = FALSE
    /\ checked = {} /\ batches = {}
    /\ now = 0 /\ up = FALSE /\ rx = FALSE /\ due = 0 /\ announcing = FALSE
    /\ failed = FALSE /\ wanted = {}

\* Write makes r the tables; outside a transaction that is a commit.
Write(r) ==
    /\ rows' = r
    /\ saved' = IF open THEN saved ELSE r

\* The receive thread does one thing after the other; the user has any number of threads.
CanCall(onRx) ==
    IF onRx THEN rx /\ \A c \in checked \cup batches : ~ c.onRx
            ELSE up /\ Cardinality({c \in checked \cup batches : ~ c.onRx}) < MaxCalls

-----------------------------------------------------------------------------
(* Values. *)

\* SELECT_VALUE and SELECT_PEER: rows that have aged are not seen.
Visible(i) == rows[i].there /\ rows[i].timestamp >= now - MAX_AGE

\* The value, or nothing.
getValue(i) ==
    {v \in {[seq |-> rows[i].seq, privateKey |-> rows[i].privateKey]} : Visible(i)}

MutAcceptsAnySeq(i, seq, privateKey, expectedSeq) ==
    \A old \in getValue(i) :
       /\ old.privateKey => privateKey
       /\ expectedSeq >= 0 => old.seq = expectedSeq

\* The checks of putValue: it throws when one of them fails.
Accepts(i, seq, privateKey, expectedSeq) ==
    \A old \in getValue(i) :
       /\ old.privateKey => privateKey
       /\ seq >= old.seq
       /\ expectedSeq >= 0 => old.seq = expectedSeq

\* putValue up to its checks. There is neither a lock nor a transaction around them and
\* the write: statements of other threads may come in between.
Check(onRx, i, seq, privateKey, persistent, updateLastAnnounce) ==
    checked' = checked \cup
       {[onRx |-> onRx, id |-> i, seq |-> seq, privateKey |-> privateKey,
         persistent |-> persistent, updateLastAnnounce |-> updateLastAnnounce,
         old |-> getValue(i)]}

\* UPSERT_VALUE: a conflict leaves persistent and announced as they are.
UPSERT_VALUE(c) ==
    [there |-> TRUE, seq |-> c.seq, privateKey |-> c.privateKey,
     persistent |-> IF rows[c.id].there THEN rows[c.id].persistent ELSE c.persistent,
     timestamp |-> now,
     announced |-> IF rows[c.id].there THEN rows[c.id].announced
                   ELSE IF c.updateLastAnnounce THEN now ELSE 0]

\* The write of putValue. Only storeValue is the wish of the user.
putValue(c) ==
    /\ checked' = checked \ {c}
    /\ Write([rows EXCEPT ![c.id] = UPSERT_VALUE(c)])
    /\ wanted' = IF ~ c.updateLastAnnounce THEN wanted
                 ELSE IF c.persistent THEN wanted \cup {c.id} ELSE wanted \ {c.id}
    /\ UNCHANGED <<open, batches, now, up, rx, due, announcing, failed>>

\* Node::storeValue, on a thread of the user, who is told when the value is refused.
storeValue(i, seq, privateKey, persistent) ==
    /\ CanCall(FALSE)
    /\ Accepts(i, seq, privateKey, -1)
    /\ Check(FALSE, i, seq, privateKey, persistent, TRUE)
    /\ UNCHANGED <<rows, saved, open, batches, now, up, rx, due, announcing, failed, wanted>>

\* DHT::onStoreValue with a valid token and value, on the receive thread. A refusal is
\* an exception that nothing catches before the loop of the thread has ended.
onStoreValue(i, seq, expectedSeq) ==
    /\ CanCall(TRUE)
    /\ \/ /\ Accepts(i, seq, FALSE, expectedSeq)
          /\ Check(TRUE, i, seq, FALSE, FALSE, FALSE)
          /\ UNCHANGED rx
       \/ /\ ~ Accepts(i, seq, FALSE, expectedSeq)
          /\ rx' = FALSE
          /\ UNCHANGED checked
    /\ UNCHANGED <<rows, saved, open, batches, now, up, due, announcing, failed, wanted>>

\* The completeHandler of findValue puts what was found; a refusal is logged. It runs on
\* the receive thread, or on that of the user when the lookup has nobody to ask.
valueFound(onRx, i, seq, privateKey) ==
    /\ CanCall(onRx)
    /\ Accepts(i, seq, privateKey, -1)
    /\ Check(onRx, i, seq, privateKey, FALSE, FALSE)
    /\ UNCHANGED <<rows, saved, open, batches, now, up, rx, due, announcing, failed, wanted>>

Remove(i) ==
    /\ up
    /\ Write([rows EXCEPT ![i] = NoRow])
    /\ wanted' = wanted \ {i}
    /\ UNCHANGED <<open, checked, batches, now, up, rx, due, announcing, failed>>

removeValue(i) == Remove(i)

\* SELECT of the ids, for the user.
getAllValues == {i \in ValueIds : Visible(i)}

-----------------------------------------------------------------------------
(* Peers. *)

\* UPSERT_PEER: everything is replaced.
UPSERT_PEER(persistent, announced) ==
    [there |-> TRUE, seq |-> 0, privateKey |-> FALSE, persistent |-> persistent,
     timestamp |-> now, announced |-> announced]

\* The row with the id and the origin that is this node, which a delegated peer has too.
removePeer(i) == Remove(i)

getAllPeers == {i \in PeerIds : Visible(i)}

\* Node::announcePeer.
announcePeer(i, persistent) ==
    /\ up
    /\ Write([rows EXCEPT ![i] = UPSERT_PEER(persistent, now)])
    /\ wanted' = IF persistent THEN wanted \cup {i} ELSE wanted \ {i}
    /\ UNCHANGED <<open, checked, batches, now, up, rx, due, announcing, failed>>

\* DHT::onAnnouncePeer with a valid token. It is another node that announces its peer.
onAnnouncePeer(i) ==
    /\ CanCall(TRUE)
    /\ i \notin wanted
    /\ Write([rows EXCEPT ![i] = UPSERT_PEER(FALSE, 0)])
    /\ UNCHANGED <<open, checked, batches, now, up, rx, due, announcing, failed, wanted>>

MutPutPeerBeginUnchecked(onRx, found) ==
    /\ CanCall(onRx)
    /\ open' = TRUE
    /\ batches' = batches \cup {[onRx |-> onRx, left |-> found]}
    /\ UNCHANGED <<rows, saved, checked, now, up, rx, due, announcing, failed, wanted>>

\* The completeHandler of findPeer: putPeer of all peers found, in a transaction. BEGIN
\* fails within another one; on the receive thread the exception is its end.
putPeerBegin(onRx, found) ==
    /\ CanCall(onRx)
    /\ \/ /\ ~ open
          /\ open' = TRUE
          /\ batches' = batches \cup {[onRx |-> onRx, left |-> found]}
          /\ UNCHANGED rx
       \/ /\ open
          /\ rx' = (rx /\ ~ onRx)
          /\ UNCHANGED <<open, batches>>
    /\ UNCHANGED <<rows, saved, checked, now, up, due, announcing, failed, wanted>>

\* One of its rows.
putPeerStep(b, i) ==
    /\ batches' = (batches \ {b}) \cup {[b EXCEPT !.left = @ \ {i}]}
    /\ Write([rows EXCEPT ![i] = UPSERT_PEER(FALSE, 0)])
    /\ UNCHANGED <<open, checked, now, up, rx, due, announcing, failed, wanted>>

\* A statement fails: SQLite rolls the transaction back, or leaves it open, for nobody
\* else does either.
Fail ==
    /\ failed' = TRUE
    /\ open' \in BOOLEAN
    /\ rows' = IF open' THEN rows ELSE saved
    /\ UNCHANGED saved

\* A row cannot be written: putPeer throws.
putPeerThrows(b) ==
    /\ b.left # {}
    /\ Fail
    /\ batches' = batches \ {b}
    /\ rx' = (rx /\ ~ b.onRx)
    /\ UNCHANGED <<checked, now, up, due, announcing, wanted>>

\* COMMIT, whose result is not looked at.
putPeerCommit(b) ==
    /\ b.left = {}
    /\ batches' = batches \ {b}
    /\ \/ /\ open' = FALSE /\ saved' = rows
          /\ UNCHANGED <<rows, failed>>
       \/ Fail
    /\ UNCHANGED <<checked, now, up, rx, due, announcing, wanted>>

-----------------------------------------------------------------------------
(* Jobs of the scheduler. *)

\* expire, every STORAGE_EXPIRE_INTERVAL.
expire ==
    /\ CanCall(TRUE)
    /\ Write([i \in Ids |-> IF ~ rows[i].persistent /\ rows[i].timestamp < now - MAX_AGE
                            THEN NoRow ELSE rows[i]])
    /\ UNCHANGED <<open, checked, batches, now, up, rx, due, announcing, failed, wanted>>

MutMustAnnounceLate(i) ==
    /\ rows[i].there /\ rows[i].persistent
    /\ rows[i].announced < now - MAX_AGE

\* The condition of GET_PERSISTENT_VALUES and GET_PERSISTENT_PEERS.
MustAnnounce(i) ==
    /\ rows[i].there /\ rows[i].persistent
    /\ rows[i].announced <= now - MAX_AGE + 2 * RE_ANNOUNCE_INTERVAL

getPersistentValues == {i \in ValueIds : MustAnnounce(i)}

\* The origin is left out, and becomes the nodeId.
getPersistentPeers == {i \in PeerIds : MustAnnounce(i)}

\* The row with the id and the origin of the peer: a delegated peer is not found.
updatePeerLastAnnounce(found) == found \ Delegated

updateValueLastAnnounce(row) == [row EXCEPT !.timestamp = now, !.announced = now]

\* The rows are updated and stored or announced again.
persistentAnnounce ==
    /\ CanCall(TRUE) /\ now >= due
    /\ LET updated == getPersistentValues \cup updatePeerLastAnnounce(getPersistentPeers)
       IN  Write([i \in Ids |-> IF i \in updated
                                THEN updateValueLastAnnounce(rows[i])
                                ELSE rows[i]])
    /\ due' = now + RE_ANNOUNCE_INTERVAL
    /\ announcing' = TRUE
    /\ UNCHANGED <<open, checked, batches, now, up, rx, failed, wanted>>

-----------------------------------------------------------------------------
\* Node::start. persistentAnnounce is run for the first time after a minute.
start ==
    /\ ~ up
    /\ up' = TRUE /\ rx' = TRUE
    /\ due' = now
    /\ announcing' = FALSE
    /\ UNCHANGED <<rows, saved, open, checked, batches, now, failed, wanted>>

\* Node::stop, or a crash: what was not committed is gone, and a call of the user that
\* has not written yet finds the storage closed.
close ==
    /\ up
    /\ up' = FALSE /\ rx' = FALSE
    /\ open' = FALSE /\ failed' = FALSE
    /\ checked' = {} /\ batches' = {}
    /\ rows' = saved
    /\ UNCHANGED <<saved, now, due, announcing, wanted>>

\* Time. A living thread runs its jobs at most MaxDelay late.
tick ==
    /\ now < MaxTime
    /\ rx => now < due + MaxDelay
    /\ now' = now + 1
    /\ UNCHANGED <<rows, saved, open, checked, batches, up, rx, due, announcing, failed, wanted>>

Next ==
    \/ \E i \in ValueIds, seq \in 0..MaxSeq, privateKey, persistent \in BOOLEAN :
          storeValue(i, seq, privateKey, persistent)
    \/ \E i \in ValueIds, seq \in 0..MaxSeq, expectedSeq \in -1..MaxSeq :
          onStoreValue(i, seq, expectedSeq)
    \/ \E onRx \in BOOLEAN, i \in ValueIds, seq \in 0..MaxSeq, privateKey \in BOOLEAN :
          valueFound(onRx, i, seq, privateKey)
    \/ \E c \in checked : putValue(c)
    \/ \E i \in ValueIds : removeValue(i)
    \/ \E i \in PeerIds : removePeer(i)
    \/ \E i \in PeerIds, persistent \in BOOLEAN : announcePeer(i, persistent)
    \/ \E i \in PeerIds : onAnnouncePeer(i)
    \/ \E onRx \in BOOLEAN, found \in SUBSET PeerIds : putPeerBegin(onRx, found)
    \/ \E b \in batches : \E i \in b.left : putPeerStep(b, i)
    \/ \E b \in batches : putPeerThrows(b) \/ putPeerCommit(b)
    \/ expire
    \/ persistentAnnounce
    \/ start
    \/ close
    \/ tick

Spec == Init /\ [][Next]_vars

-----------------------------------------------------------------------------
(* Properties. *)

\* The type invariant: of the rows, their saved copies, the calls that write and the
\* transaction.
TypeOK ==
    /\ rows \in [Ids -> Row] /\ saved \in [Ids -> Row]
    /\ checked \subseteq Put /\ batches \subseteq Batch
    /\ open \in BOOLEAN /\ up \in BOOLEAN /\ rx \in BOOLEAN /\ announcing \in BOOLEAN
    /\ failed \in BOOLEAN /\ now \in Nat /\ due \in Nat
    /\ wanted \subseteq Ids

\* A persistent row of a node that has been up long enough for its first re-announce was
\* announced less than MAX_AGE ago, and the user still sees it, whoever wrote it in
\* between: neither this node nor those it was stored at have let it age, even if jobs run
\* a whole interval late. A delegated peer is the exception, and so are rows of before a
\* failed transaction, which its roll back brings back.
PersistentAlive ==
    rx /\ announcing /\ ~ failed =>
       \A i \in Ids \ Delegated :
          rows[i].there /\ rows[i].persistent =>
             rows[i].announced >= now - MAX_AGE /\ i \in getAllValues \cup getAllPeers

\* A call of putPeer with a list has its transaction to itself, whichever threads call it:
\* its rows are committed together. It leaves a transaction open only after one of its
\* statements, COMMIT included, has failed; until then what any thread has written is
\* committed at the latest when the call returns, and nothing is lost with the node
\* (sqlite_storage.cc:581-622).
TransactionsEnd ==
    /\ \A b, c \in batches : open /\ b = c
    /\ open => failed \/ batches # {}
    /\ ~ open => saved = rows

\* A transaction that SQLite or the end of the node rolls back.
Rollback == open /\ ~ open'

\* While a value is alive, a writer, local or remote, takes it back to a smaller sequence
\* number, or loses its private key, only if another one has replaced the value between
\* the checks and the write of putValue, so that they were made against an old value.
\* And a row the user made persistent goes when the user removes it, not because it has
\* aged, however long the node was down. Both up to the roll back of a transaction
\* (sqlite_storage.cc:75-90, 126-143, 265-339).
RowsKept ==
    [][~ Rollback =>
       /\ \A i \in ValueIds : Visible(i) /\ rows'[i].there =>
            \/ /\ rows'[i].seq >= rows[i].seq
               /\ rows[i].privateKey => rows'[i].privateKey
            \/ \E c \in checked \ checked' : c.id = i /\ c.old # getValue(i)
       /\ \A i \in wanted' : rows[i].there /\ rows[i].persistent => rows'[i].there]_vars
=============================================================================
