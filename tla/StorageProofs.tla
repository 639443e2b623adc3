---------------------------- MODULE StorageProofs ----------------------------
(***************************************************************************)
(* Persistent rows do not age, transactions end and no writer takes a value *)
(* back unnoticed, for every age, interval and number of rows and threads.  *)
(***************************************************************************)
EXTENDS Storage, TLAPS

\* No row was announced after it was written, and none was written in the future.
Dated(r) == \A i \in Ids : r[i].announced <= r[i].timestamp /\ r[i].timestamp <= now

\* Between two runs of persistentAnnounce a persistent row is younger than what the next
\* run will still find in time: the margin is one interval, of which the scheduler may
\* use MaxDelay.
InTime ==
    /\ due <= now + RE_ANNOUNCE_INTERVAL
    /\ now <= due + MaxDelay
    /\ \A i \in Ids \ Delegated :
          rows[i].there /\ rows[i].persistent =>
             rows[i].announced >= due + RE_ANNOUNCE_INTERVAL - MAX_AGE

\* Who wants a value to be persistent has its date of announce set.
Announces == \A c \in checked : c.persistent => c.updateLastAnnounce

\* The inductive invariant. Dated holds of the saved rows too: a roll back brings them
\* back.
IInv ==
    /\ TypeOK /\ Announces
    /\ Dated(rows) /\ Dated(saved)
    /\ rx => now <= due + MaxDelay
    /\ rx /\ announcing /\ ~ failed => InTime

\* A write of rows that are typed and dated keeps both tables typed and dated.
LEMMA WriteKeeps ==
    ASSUME IInv, NEW r \in [Ids -> Row], Dated(r), Write(r), UNCHANGED <<now, open>>
    PROVE  /\ rows' = r
           /\ rows' \in [Ids -> Row] /\ saved' \in [Ids -> Row]
           /\ Dated(rows)' /\ Dated(saved)'
BY Zenon DEF Write, IInv, Dated, TypeOK

\* What putValue writes is typed and dated, and a persistent row is either new, and
\* announced as the writer says, or as old as it was.
LEMMA PutValueKeeps ==
    ASSUME IInv, NEW c \in checked, putValue(c)
    PROVE  IInv'
<1> DEFINE i == c.id
           n == UPSERT_VALUE(c)
           r == [rows EXCEPT ![i] = n]
<1> USE StorageAssumption
<1>0. /\ i \in Ids /\ c \in Put /\ c.seq \in 0..MaxSeq /\ c.privateKey \in BOOLEAN
      /\ c.persistent \in BOOLEAN /\ (c.persistent => c.updateLastAnnounce)
      /\ rows \in [Ids -> Row] /\ now \in Nat /\ due \in Nat
  BY Zenon DEF IInv, TypeOK, Ids, Put, Announces
<1>1. /\ n \in Row /\ n.announced <= n.timestamp /\ n.timestamp <= now
      /\ n.persistent => \/ rows[i].there /\ rows[i].persistent /\ n.announced = rows[i].announced
                         \/ n.announced = now
  BY <1>0 DEF UPSERT_VALUE, IInv, Row, Dated
<1> HIDE DEF n
<1>2. r \in [Ids -> Row] /\ Dated(r)
  BY <1>0, <1>1, Zenon DEF IInv, TypeOK, Dated
<1>3. Write(r) /\ UNCHANGED <<now, open, rx, up, due, announcing, failed, batches>>
  BY Zenon DEF putValue, n
<1>4. /\ rows' = r
      /\ rows' \in [Ids -> Row] /\ saved' \in [Ids -> Row]
      /\ Dated(rows)' /\ Dated(saved)'
  <2> HIDE DEF r
  <2> QED BY <1>2, <1>3, WriteKeeps, Zenon
<1>5. ASSUME rx, announcing, ~ failed PROVE InTime'
  <2>1. ASSUME NEW j \in Ids \ Delegated, rows'[j].there, rows'[j].persistent
        PROVE  rows'[j].announced >= due + RE_ANNOUNCE_INTERVAL - MAX_AGE
    <3>1. CASE j = i
      BY <1>0, <1>1, <1>4, <1>5, <2>1, <3>1 DEF IInv, InTime, Row
    <3>2. CASE j # i
      BY <1>0, <1>4, <1>5, <2>1, <3>2, Zenon DEF IInv, InTime
    <3> QED BY <3>1, <3>2, Zenon
  <2> QED BY <2>1, <1>3, <1>5, Zenon DEF InTime, IInv
<1>6. wanted' \subseteq Ids /\ checked' \subseteq checked
  BY <1>0, Zenon DEF putValue, IInv, TypeOK
<1> QED BY <1>3, <1>4, <1>5, <1>6, Zenon DEF IInv, TypeOK, Announces

\* The same for tables in which some rows are as they were, some are gone and some are
\* written now, the persistent ones announced now.
LEMMA RewriteKeeps ==
    ASSUME IInv, NEW r \in [Ids -> Row],
           \A i \in Ids : \/ r[i] = rows[i]
                          \/ r[i].announced <= r[i].timestamp /\ r[i].timestamp <= now
                             /\ (r[i].there /\ r[i].persistent => r[i].announced = now),
           Write(r), UNCHANGED <<now, open, rx, up, due, announcing, failed, checked>>,
           batches' \subseteq Batch, wanted' \subseteq Ids
    PROVE  IInv'
<1> USE StorageAssumption
<1>1. Dated(r) BY Zenon DEF Dated, IInv
<1>2. /\ rows' = r
      /\ rows' \in [Ids -> Row] /\ saved' \in [Ids -> Row]
      /\ Dated(rows)' /\ Dated(saved)'
  BY <1>1, WriteKeeps, Zenon
<1>3. ASSUME rx, announcing, ~ failed PROVE InTime'
  <2>1. ASSUME NEW j \in Ids \ Delegated, rows'[j].there, rows'[j].persistent
        PROVE  rows'[j].announced >= due + RE_ANNOUNCE_INTERVAL - MAX_AGE
    <3>1. CASE r[j] = rows[j]
      BY <1>2, <1>3, <2>1, <3>1, Zenon DEF IInv, InTime
    <3>2. CASE r[j].announced = now
      BY <1>2, <1>3, <2>1, <3>2 DEF IInv, InTime, TypeOK, Row
    <3> QED BY <1>2, <2>1, <3>1, <3>2, Zenon
  <2> QED BY <2>1, <1>3, Zenon DEF InTime, IInv
<1> QED BY <1>2, <1>3, Zenon DEF IInv, TypeOK, Announces

\* A call that has made its checks has written nothing.
LEMMA CheckKeeps ==
    ASSUME IInv, NEW onRx \in BOOLEAN, NEW i \in ValueIds, NEW seq \in 0..MaxSeq,
           NEW sk \in BOOLEAN, NEW persistent \in BOOLEAN, NEW announce \in BOOLEAN,
           persistent => announce, Check(onRx, i, seq, sk, persistent, announce),
           UNCHANGED <<rows, saved, open, batches, now, up, rx, due, announcing, failed, wanted>>
    PROVE  IInv'
<1> DEFINE c == [onRx |-> onRx, id |-> i, seq |-> seq, privateKey |-> sk,
                 persistent |-> persistent, updateLastAnnounce |-> announce, old |-> getValue(i)]
<1>1. getValue(i) \subseteq [seq : 0..MaxSeq, privateKey : BOOLEAN]
  <2>1. rows[i] \in Row BY Zenon DEF IInv, TypeOK, Ids
  <2> QED BY <2>1 DEF getValue, Row
<1>2. c \in Put BY <1>1, Zenon DEF Put
<1>3. c.persistent => c.updateLastAnnounce BY Zenon
<1>4. checked' = checked \cup {c} BY Zenon DEF Check
<1> HIDE DEF c
<1> QED BY <1>2, <1>3, <1>4, Zenon DEF IInv, TypeOK, Announces, Dated, InTime

\* A roll back brings the saved rows back, and one that has not taken place does not
\* change any.
LEMMA FailKeeps ==
    ASSUME IInv, Fail, UNCHANGED <<checked, now, up, due, announcing, wanted>>,
           batches' \subseteq batches, rx' \in BOOLEAN, rx' => rx
    PROVE  IInv'
<1>1. rows' = rows \/ rows' = saved BY Zenon DEF Fail
<1> QED BY <1>1, Zenon DEF Fail, IInv, TypeOK, Announces, Dated

\* Initially there is no row.
LEMMA InitOK == Init => IInv
<1> SUFFICES ASSUME Init PROVE IInv BY Zenon
<1>1. NoRow \in Row /\ NoRow.announced = 0 /\ NoRow.timestamp = 0
  BY StorageAssumption DEF NoRow, Row
<1>2. rows \in [Ids -> Row] /\ saved \in [Ids -> Row]
  BY <1>1, Zenon DEF Init
<1>3. Dated(rows) /\ Dated(saved)
  BY <1>1 DEF Init, Dated
<1> QED BY <1>2, <1>3, Zenon DEF Init, IInv, TypeOK, Announces

\* Every step of the user, the network, the jobs, the life cycle and time keeps IInv.
LEMMA NextOK == IInv /\ [Next]_vars => IInv'
<1> SUFFICES ASSUME IInv, [Next]_vars PROVE IInv' BY Zenon
<1> USE StorageAssumption
<1>a. NoRow \in Row /\ NoRow.announced = 0 /\ NoRow.timestamp = 0 /\ ~ NoRow.there
  BY DEF NoRow, Row
<1>b. ASSUME NEW p \in BOOLEAN, NEW t \in {0, now}
      PROVE  /\ UPSERT_PEER(p, t) \in Row /\ UPSERT_PEER(p, t).announced = t
             /\ UPSERT_PEER(p, t).timestamp = now
  BY DEF UPSERT_PEER, Row, IInv, TypeOK
<1>c. now \in Nat /\ due \in Nat /\ rows \in [Ids -> Row]
  BY Zenon DEF IInv, TypeOK
<1> DEFINE u == UPSERT_PEER(FALSE, 0)
<1>d. u \in Row /\ ~ u.persistent /\ u.announced = 0 /\ u.timestamp = now
  BY <1>c DEF UPSERT_PEER, Row
<1>e. /\ \A i \in PeerIds : onAnnouncePeer(i) => Write([rows EXCEPT ![i] = u])
      /\ \A b \in batches, i \in PeerIds : putPeerStep(b, i) => Write([rows EXCEPT ![i] = u])
  BY Zenon DEF onAnnouncePeer, putPeerStep
<1> HIDE DEF u
<1>f. wanted \subseteq Ids /\ batches \subseteq Batch BY Zenon DEF IInv, TypeOK
<1>1. ASSUME NEW i \in ValueIds, NEW seq \in 0..MaxSeq, NEW sk \in BOOLEAN,
             NEW persistent \in BOOLEAN, storeValue(i, seq, sk, persistent)
      PROVE  IInv'
  BY <1>1, CheckKeeps, Zenon DEF storeValue
<1>2. ASSUME NEW i \in ValueIds, NEW seq \in 0..MaxSeq, NEW e \in -1..MaxSeq,
             onStoreValue(i, seq, e)
      PROVE  IInv'
  <2>1. CASE Check(TRUE, i, seq, FALSE, FALSE, FALSE) /\ UNCHANGED rx
    BY <1>2, <2>1, CheckKeeps, Zenon DEF onStoreValue
  <2>2. CASE rx' = FALSE /\ UNCHANGED checked
    BY <1>2, <2>2, Zenon DEF onStoreValue, IInv, TypeOK, Announces, Dated
  <2> QED BY <1>2, <2>1, <2>2, Zenon DEF onStoreValue
<1>3. ASSUME NEW onRx \in BOOLEAN, NEW i \in ValueIds, NEW seq \in 0..MaxSeq,
             NEW sk \in BOOLEAN, valueFound(onRx, i, seq, sk)
      PROVE  IInv'
  BY <1>3, CheckKeeps, Zenon DEF valueFound
<1>4. ASSUME NEW i \in Ids, Remove(i) PROVE IInv'
  <2> DEFINE r == [rows EXCEPT ![i] = NoRow]
  <2>1. r \in [Ids -> Row] BY <1>a, <1>c, Zenon
  <2>2. \A j \in Ids : \/ r[j] = rows[j]
                       \/ r[j].announced <= r[j].timestamp /\ r[j].timestamp <= now
                          /\ (r[j].there /\ r[j].persistent => r[j].announced = now)
    BY <1>a, <1>c
  <2>3. /\ Write(r) /\ UNCHANGED <<now, open, rx, up, due, announcing, failed, checked>>
        /\ batches' \subseteq Batch /\ wanted' \subseteq Ids
    BY <1>4, <1>f, Zenon DEF Remove
  <2> HIDE DEF r
  <2> QED BY <2>1, <2>2, <2>3, RewriteKeeps, Zenon
<1>5. ASSUME NEW i \in PeerIds, NEW persistent \in BOOLEAN, announcePeer(i, persistent)
      PROVE  IInv'
  <2> DEFINE r == [rows EXCEPT ![i] = UPSERT_PEER(persistent, now)]
  <2>1. r \in [Ids -> Row] BY <1>b, <1>c, Zenon
  <2>2. \A j \in Ids : \/ r[j] = rows[j]
                       \/ r[j].announced <= r[j].timestamp /\ r[j].timestamp <= now
                          /\ (r[j].there /\ r[j].persistent => r[j].announced = now)
    BY <1>b, <1>c
  <2>3. /\ Write(r) /\ UNCHANGED <<now, open, rx, up, due, announcing, failed, checked>>
        /\ batches' \subseteq Batch
    BY <1>5, <1>f, Zenon DEF announcePeer
  <2>4. wanted' \subseteq Ids BY <1>5, Zenon DEF announcePeer, IInv, TypeOK, Ids
  <2> HIDE DEF r
  <2> QED BY <2>1, <2>2, <2>3, <2>4, RewriteKeeps, Zenon
<1>6. ASSUME NEW i \in PeerIds, onAnnouncePeer(i) PROVE IInv'
  <2> DEFINE r == [rows EXCEPT ![i] = u]
  <2>1. r \in [Ids -> Row] BY <1>c, <1>d, Zenon
  <2>2. \A j \in Ids : \/ r[j] = rows[j]
                       \/ r[j].announced <= r[j].timestamp /\ r[j].timestamp <= now
                          /\ (r[j].there /\ r[j].persistent => r[j].announced = now)
    BY <1>c, <1>d
  <2>3. /\ Write(r) /\ UNCHANGED <<now, open, rx, up, due, announcing, failed, checked>>
        /\ batches' \subseteq Batch /\ wanted' \subseteq Ids
    BY <1>6, <1>e, <1>f, Zenon DEF onAnnouncePeer
  <2> HIDE DEF r
  <2> QED BY <2>1, <2>2, <2>3, RewriteKeeps, Zenon
<1>7. ASSUME NEW b \in batches, NEW i \in b.left, putPeerStep(b, i) PROVE IInv'
  <2> DEFINE r == [rows EXCEPT ![i] = u]
             c == [b EXCEPT !.left = @ \ {i}]
  <2>0. b \in Batch /\ i \in PeerIds /\ c \in Batch BY <1>f, Zenon DEF Batch
  <2>1. r \in [Ids -> Row] BY <1>c, <1>d, Zenon
  <2>2. \A j \in Ids : \/ r[j] = rows[j]
                       \/ r[j].announced <= r[j].timestamp /\ r[j].timestamp <= now
                          /\ (r[j].there /\ r[j].persistent => r[j].announced = now)
    BY <1>c, <1>d
  <2> HIDE DEF c
  <2>3. /\ Write(r) /\ UNCHANGED <<now, open, rx, up, due, announcing, failed, checked>>
        /\ batches' \subseteq Batch /\ wanted' \subseteq Ids
    BY <1>7, <1>e, <1>f, <2>0, Zenon DEF putPeerStep, c
  <2> HIDE DEF r
  <2> QED BY <2>1, <2>2, <2>3, RewriteKeeps, Zenon
<1>8. ASSUME NEW b \in batches, putPeerThrows(b) PROVE IInv'
  <2>1. rx' \in BOOLEAN /\ (rx' => rx) BY <1>8, Zenon DEF putPeerThrows
  <2> QED BY <1>8, <2>1, FailKeeps, Zenon DEF putPeerThrows
<1>17. ASSUME NEW b \in batches, putPeerCommit(b) PROVE IInv'
  <2>1. CASE Fail
    <3>1. rx' \in BOOLEAN /\ (rx' => rx) BY <1>17, Zenon DEF putPeerCommit, IInv, TypeOK
    <3> QED BY <1>17, <2>1, <3>1, FailKeeps, Zenon DEF putPeerCommit
  <2>2. CASE open' = FALSE /\ saved' = rows /\ UNCHANGED <<rows, failed>>
    BY <1>17, <2>2, Zenon DEF putPeerCommit, IInv, TypeOK, Announces, Dated, InTime
  <2> QED BY <1>17, <2>1, <2>2, Zenon DEF putPeerCommit
<1>18. ASSUME NEW onRx \in BOOLEAN, NEW found \in SUBSET PeerIds, putPeerBegin(onRx, found)
       PROVE  IInv'
  <2>1. [onRx |-> onRx, left |-> found] \in Batch BY Zenon DEF Batch
  <2>2. batches' \subseteq Batch /\ open' \in BOOLEAN /\ rx' \in BOOLEAN /\ (rx' => rx)
    <3>1. rx \in BOOLEAN /\ open \in BOOLEAN BY Zenon DEF IInv, TypeOK
    <3>2. CASE ~ open
      <4>1. /\ open' = TRUE /\ rx' = rx
            /\ batches' = batches \cup {[onRx |-> onRx, left |-> found]}
        BY <1>18, <3>2, Zenon DEF putPeerBegin
      <4> QED BY <1>f, <2>1, <3>1, <4>1, Zenon
    <3>3. CASE open BY <1>18, <1>f, <3>1, <3>3, Zenon DEF putPeerBegin
    <3> QED BY <3>2, <3>3, Zenon
  <2> QED BY <1>18, <2>2, Zenon DEF putPeerBegin, IInv, TypeOK, Announces, Dated, InTime
<1>9. ASSUME expire PROVE IInv'
  <2> DEFINE r == [i \in Ids |-> IF ~ rows[i].persistent /\ rows[i].timestamp < now - MAX_AGE
                                 THEN NoRow ELSE rows[i]]
  <2>1. r \in [Ids -> Row] BY <1>a, <1>c, Zenon
  <2>2. \A j \in Ids : \/ r[j] = rows[j]
                       \/ r[j].announced <= r[j].timestamp /\ r[j].timestamp <= now
                          /\ (r[j].there /\ r[j].persistent => r[j].announced = now)
    BY <1>a, <1>c
  <2>3. /\ Write(r) /\ UNCHANGED <<now, open, rx, up, due, announcing, failed, checked>>
        /\ batches' \subseteq Batch /\ wanted' \subseteq Ids
    BY <1>9, <1>f, Zenon DEF expire
  <2> HIDE DEF r
  <2> QED BY <2>1, <2>2, <2>3, RewriteKeeps, Zenon
<1>10. ASSUME persistentAnnounce PROVE IInv'
  <2> DEFINE updated == getPersistentValues \cup updatePeerLastAnnounce(getPersistentPeers)
             r == [i \in Ids |-> IF i \in updated
                                 THEN updateValueLastAnnounce(rows[i])
                                 ELSE rows[i]]
  <2>1. r \in [Ids -> Row] BY <1>c, Zenon DEF updateValueLastAnnounce, Row
  <2>2. Dated(r) BY <1>c DEF updateValueLastAnnounce, Dated, IInv, Row
  <2>3. ASSUME NEW i \in Ids \ Delegated, r[i].there, r[i].persistent
        PROVE  r[i].announced >= now + RE_ANNOUNCE_INTERVAL + RE_ANNOUNCE_INTERVAL - MAX_AGE
    <3>1. i \in updated <=> MustAnnounce(i)
      BY Zenon DEF getPersistentValues, getPersistentPeers, updatePeerLastAnnounce, Ids
    <3>2. CASE i \in updated
      <4>1. r[i].announced = now BY <1>c, <3>2, Zenon DEF updateValueLastAnnounce, Row
      <4> QED BY <1>c, <4>1
    <3>3. CASE i \notin updated
      <4>1. r[i] = rows[i] BY <3>3, Zenon
      <4> QED BY <1>c, <2>3, <3>1, <3>3, <4>1 DEF MustAnnounce, Row
    <3> QED BY <3>2, <3>3, Zenon
  <2>4. Write(r) /\ UNCHANGED <<now, open>> BY <1>10, Zenon DEF persistentAnnounce
  <2> HIDE DEF r
  <2>5. /\ rows' = r
        /\ rows' \in [Ids -> Row] /\ saved' \in [Ids -> Row]
        /\ Dated(rows)' /\ Dated(saved)'
    BY <2>1, <2>2, <2>4, WriteKeeps, Zenon
  <2>a. now' = now /\ due' = now + RE_ANNOUNCE_INTERVAL
    BY <1>10, Zenon DEF persistentAnnounce
  <2>6. now' = now /\ due' = now + RE_ANNOUNCE_INTERVAL /\ due' \in Nat
    BY <1>c, <2>a
  <2>7. due' <= now' + RE_ANNOUNCE_INTERVAL /\ now' <= due' + MaxDelay
    BY <1>c, <2>6
  <2>8. InTime'
    BY <1>c, <2>3, <2>5, <2>6, <2>7, Zenon DEF InTime
  <2> QED BY <1>10, <2>5, <2>6, <2>7, <2>8, Zenon DEF persistentAnnounce, IInv, TypeOK, Announces
<1>11. ASSUME start PROVE IInv'
  <2>1. now' = now /\ due' = now /\ now <= now + MaxDelay
    BY <1>11, <1>c DEF start
  <2>2. Dated(rows)' /\ Dated(saved)'
    BY <1>11, Zenon DEF start, IInv, Dated
  <2> QED BY <1>11, <1>c, <2>1, <2>2, Zenon DEF start, IInv, TypeOK, Announces
<1>12. ASSUME close PROVE IInv'
  BY <1>12, Zenon DEF close, IInv, TypeOK, Announces, Dated
<1>13. ASSUME tick PROVE IInv'
  <2>1. Dated(rows)' /\ Dated(saved)'
    BY <1>13, <1>c DEF tick, IInv, TypeOK, Dated, Row
  <2>2. ASSUME rx, announcing, ~ failed PROVE InTime'
    BY <1>13, <1>c, <2>2 DEF tick, IInv, InTime
  <2> QED BY <1>13, <1>c, <2>1, <2>2 DEF tick, IInv, TypeOK, Announces
<1>14. CASE UNCHANGED vars
  BY <1>14, Zenon DEF vars, IInv, TypeOK, Announces, Dated, InTime
<1>19. ASSUME NEW c \in checked, putValue(c) PROVE IInv'
  BY <1>19, PutValueKeeps, Zenon
<1>15. ASSUME NEW i \in ValueIds, removeValue(i) PROVE IInv'
  BY <1>4, <1>15, Zenon DEF removeValue, Ids
<1>16. ASSUME NEW i \in PeerIds, removePeer(i) PROVE IInv'
  BY <1>4, <1>16, Zenon DEF removePeer, Ids
<1> QED
  BY <1>1, <1>2, <1>3, <1>5, <1>6, <1>7, <1>8, <1>9, <1>10, <1>11, <1>12, <1>13, <1>14, <1>15,
     <1>16, <1>17, <1>18, <1>19, Zenon DEF Next

\* In every state the rows, the clock and the flags have their types: no writer of
\* sqlite_storage.cc, node.cc or dht.cc leaves a row without a date.
THEOREM TypeCorrect == Spec => []TypeOK
<1>1. IInv => TypeOK BY Zenon DEF IInv
<1> QED BY <1>1, InitOK, NextOK, PTL DEF Spec

\* persistentAnnounce keeps every persistent value, and every persistent peer of this
\* node that is not delegated, younger than MAX_AGE, for every choice of ages and
\* intervals with two intervals to an age, and jobs late by up to an interval.
THEOREM PersistentRowsLive == Spec => []PersistentAlive
<1>1. IInv => PersistentAlive
  <2> SUFFICES ASSUME IInv, rx, announcing, ~ failed, NEW i \in Ids \ Delegated,
                      rows[i].there, rows[i].persistent
               PROVE  rows[i].announced >= now - MAX_AGE /\ Visible(i)
    BY Zenon DEF PersistentAlive, getAllValues, getAllPeers, Ids
  <2>1. rows[i].announced \in Nat /\ rows[i].timestamp \in Nat /\ now \in Nat /\ due \in Nat
    BY Zenon DEF IInv, TypeOK, Row
  <2>2. rows[i].announced >= due + RE_ANNOUNCE_INTERVAL - MAX_AGE /\ now <= due + MaxDelay
    BY Zenon DEF IInv, InTime
  <2>3. rows[i].announced >= now - MAX_AGE
    BY <2>1, <2>2, StorageAssumption
  <2> QED BY <2>1, <2>3, StorageAssumption DEF Visible, IInv, Dated
<1> QED BY <1>1, InitOK, NextOK, PTL DEF Spec

-----------------------------------------------------------------------------
(* Transactions, and what a write may do to a row. *)

\* A transaction belongs to the call that began it, until it ends or fails; the storage
\* of a node that is not up has none, and without one every write is a commit.
Committed ==
    /\ rx => up
    /\ ~ up => ~ open /\ ~ failed /\ batches = {}
    /\ TransactionsEnd

\* Initially nothing is open.
LEMMA InitCommitted == Init => Committed
BY Zenon DEF Init, Committed, TransactionsEnd

\* Every step keeps it: BEGIN in a transaction fails, and only a failure parts a
\* transaction and its call.
LEMMA NextCommitted == TypeOK /\ Committed /\ [Next]_vars => Committed'
<1> SUFFICES ASSUME TypeOK, Committed, [Next]_vars PROVE Committed' BY Zenon
<1> USE DEF Committed, TransactionsEnd
<1>a. ASSUME NEW r, Write(r), UNCHANGED <<open, up, rx, batches, failed>> PROVE Committed'
  BY <1>a, Zenon DEF Write
<1>b. ASSUME NEW b \in batches, batches' = batches \ {b}, UNCHANGED up, rx' => rx, Fail
      PROVE  Committed'
  BY <1>b, Zenon DEF Fail
<1>1. ASSUME NEW i \in ValueIds, NEW seq \in 0..MaxSeq, NEW sk \in BOOLEAN,
             NEW persistent \in BOOLEAN, storeValue(i, seq, sk, persistent)
      PROVE  Committed'
  BY <1>1, Zenon DEF storeValue
<1>2. ASSUME NEW i \in ValueIds, NEW seq \in 0..MaxSeq, NEW e \in -1..MaxSeq,
             onStoreValue(i, seq, e)
      PROVE  Committed'
  <2>1. UNCHANGED <<rows, saved, open, batches, up, failed>> BY <1>2, Zenon DEF onStoreValue
  <2>2. rx' = rx \/ rx' = FALSE BY <1>2, Zenon DEF onStoreValue
  <2>3. CASE rx' = rx BY <2>1, <2>3, Zenon
  <2>4. CASE rx' = FALSE BY <2>1, <2>4, Zenon
  <2> QED BY <2>2, <2>3, <2>4, Zenon
<1>3. ASSUME NEW onRx \in BOOLEAN, NEW i \in ValueIds, NEW seq \in 0..MaxSeq,
             NEW sk \in BOOLEAN, valueFound(onRx, i, seq, sk)
      PROVE  Committed'
  BY <1>3, Zenon DEF valueFound
<1>4. ASSUME NEW i, Remove(i) PROVE Committed'
  BY <1>4, <1>a, Zenon DEF Remove
<1>5. ASSUME NEW i \in PeerIds, NEW persistent \in BOOLEAN, announcePeer(i, persistent)
      PROVE  Committed'
  BY <1>5, <1>a, Zenon DEF announcePeer
<1>6. ASSUME NEW i \in PeerIds, onAnnouncePeer(i) PROVE Committed'
  BY <1>6, <1>a, Zenon DEF onAnnouncePeer
<1>7. ASSUME NEW c \in checked, putValue(c) PROVE Committed'
  BY <1>7, <1>a, Zenon DEF putValue
<1>8. ASSUME NEW onRx \in BOOLEAN, NEW found \in SUBSET PeerIds, putPeerBegin(onRx, found)
      PROVE  Committed'
  <2>1. rx \in BOOLEAN /\ (onRx => rx) /\ (~ onRx => up)
    BY <1>8, Zenon DEF putPeerBegin, CanCall, TypeOK
  <2>2. CASE ~ open BY <1>8, <2>1, <2>2, Zenon DEF putPeerBegin
  <2>3. CASE open BY <1>8, <2>1, <2>3, Zenon DEF putPeerBegin
  <2> QED BY <2>2, <2>3, Zenon
<1>9. ASSUME NEW b \in batches, NEW i \in b.left, putPeerStep(b, i) PROVE Committed'
  <2>1. open /\ up /\ batches = {b} BY Zenon
  <2>2. batches' = {[b EXCEPT !.left = @ \ {i}]} BY <1>9, <2>1, Zenon DEF putPeerStep
  <2> QED BY <1>9, <2>1, <2>2, Zenon DEF putPeerStep
<1>10. ASSUME NEW b \in batches, putPeerThrows(b) PROVE Committed'
  BY <1>10, <1>b, Zenon DEF putPeerThrows
<1>11. ASSUME NEW b \in batches, putPeerCommit(b) PROVE Committed'
  <2>1. CASE Fail BY <1>11, <1>b, <2>1, Zenon DEF putPeerCommit
  <2>2. CASE open' = FALSE /\ saved' = rows /\ UNCHANGED <<rows, failed>>
    BY <1>11, <2>2, Zenon DEF putPeerCommit
  <2> QED BY <1>11, <2>1, <2>2, Zenon DEF putPeerCommit
<1>12. ASSUME expire PROVE Committed'
  BY <1>12, <1>a, Zenon DEF expire
<1>13. ASSUME persistentAnnounce PROVE Committed'
  BY <1>13, <1>a, Zenon DEF persistentAnnounce
<1>14. ASSUME start PROVE Committed'
  BY <1>14, Zenon DEF start
<1>15. ASSUME close PROVE Committed'
  BY <1>15, Zenon DEF close
<1>16. ASSUME tick \/ UNCHANGED vars PROVE Committed'
  <2>1. UNCHANGED <<rows, saved, open, batches, up, failed, rx>> BY <1>16, Zenon DEF tick, vars
  <2> QED BY <2>1, Zenon
<1> QED
  BY <1>1, <1>2, <1>3, <1>4, <1>5, <1>6, <1>7, <1>8, <1>9, <1>10, <1>11, <1>12, <1>13, <1>14,
     <1>15, <1>16, Zenon DEF Next, removeValue, removePeer

\* A list of peers is written in a transaction of its own, which outlives the call only
\* when a statement of it has failed; all else is committed, whichever threads write and
\* in whichever order (sqlite_storage.cc:581-622).
THEOREM TransactionsAlwaysEnd == Spec => []TransactionsEnd
<1>1. Committed => TransactionsEnd BY Zenon DEF Committed
<1>2. IInv => TypeOK BY Zenon DEF IInv
<1> QED BY <1>1, <1>2, InitOK, NextOK, InitCommitted, NextCommitted, PTL DEF Spec

\* What RowsKept says of the row of i: the value is taken back only by a writer that was
\* overtaken, and a persistent row goes only when it is no longer wanted.
RowKept(i) ==
    /\ i \in ValueIds /\ Visible(i) /\ rows'[i].there =>
          \/ rows'[i].seq >= rows[i].seq /\ (rows[i].privateKey => rows'[i].privateKey)
          \/ \E c \in checked \ checked' : c.id = i /\ c.old # getValue(i)
    /\ i \in wanted' /\ rows[i].there /\ rows[i].persistent => rows'[i].there

\* The checks of a call that is about to write hold of the value it has seen.
Tested ==
    \A c \in checked : \A old \in c.old :
       (old.privateKey => c.privateKey) /\ c.seq >= old.seq

\* They are made before the call is noted, and nothing that was seen changes.
LEMMA InitTested == Init => Tested
BY Zenon DEF Init, Tested

\* Every step keeps it.
LEMMA NextTested == Tested /\ [Next]_vars => Tested'
<1> SUFFICES ASSUME Tested, [Next]_vars PROVE Tested' BY Zenon
<1>1. ASSUME NEW onRx, NEW i, NEW seq, NEW sk, NEW persistent, NEW announce, NEW e,
             Accepts(i, seq, sk, e), Check(onRx, i, seq, sk, persistent, announce)
      PROVE  Tested'
  <2> DEFINE c == [onRx |-> onRx, id |-> i, seq |-> seq, privateKey |-> sk,
                   persistent |-> persistent, updateLastAnnounce |-> announce, old |-> getValue(i)]
  <2>1. c.seq = seq /\ c.privateKey = sk /\ c.old = getValue(i) BY Zenon
  <2>2. checked' = checked \cup {c} BY <1>1, Zenon DEF Check
  <2> HIDE DEF c
  <2> QED BY <1>1, <2>1, <2>2, Zenon DEF Accepts, Tested
<1>2. ASSUME checked' \subseteq checked PROVE Tested'
  BY <1>2, Zenon DEF Tested
<1> QED
  BY <1>1, <1>2, Zenon DEF Next, vars, storeValue, onStoreValue, valueFound, putValue, removeValue,
     removePeer, Remove, announcePeer, onAnnouncePeer, putPeerBegin, putPeerStep, putPeerThrows,
     putPeerCommit, expire, persistentAnnounce, start, close, tick

\* A row that is not touched is kept.
LEMMA UntouchedKept ==
    ASSUME TypeOK, NEW i \in Ids, rows'[i] = rows[i]
    PROVE  RowKept(i)
<1>1. rows[i].seq \in Int BY StorageAssumption DEF TypeOK, Row
<1> QED BY <1>1 DEF RowKept

\* putValue keeps all rows: its checks are those of the value that is there, or the
\* value is another one than the one it has seen.
LEMMA PutKept ==
    ASSUME TypeOK, Tested, NEW c \in checked, putValue(c), NEW i \in Ids
    PROVE  RowKept(i)
<1> DEFINE n == UPSERT_VALUE(c)
<1>1. c.id \in ValueIds /\ c.id \in Ids /\ rows \in [Ids -> Row] BY Zenon DEF Ids, TypeOK, Put
<1>2. rows' = [rows EXCEPT ![c.id] = n] /\ checked' = checked \ {c} BY Zenon DEF putValue, Write
<1>3. n.there /\ n.seq = c.seq /\ n.privateKey = c.privateKey BY Zenon DEF UPSERT_VALUE
<1> HIDE DEF n
<1>4. CASE i = c.id
  <2>1. rows'[i] = n BY <1>1, <1>2, <1>4, Zenon
  <2>2. CASE c.old # getValue(i)
    BY <1>2, <1>3, <1>4, <2>1, <2>2, Zenon DEF RowKept
  <2>3. CASE c.old = getValue(i) /\ Visible(i)
    <3> DEFINE v == [seq |-> rows[i].seq, privateKey |-> rows[i].privateKey]
    <3>1. v \in c.old BY <2>3, Zenon DEF getValue
    <3>2. v.seq = rows[i].seq /\ v.privateKey = rows[i].privateKey BY Zenon
    <3> HIDE DEF v
    <3>3. c.seq >= rows[i].seq /\ (rows[i].privateKey => c.privateKey)
      BY <3>1, <3>2, Zenon DEF Tested
    <3> QED BY <1>3, <2>1, <3>3, Zenon DEF RowKept
  <2>4. CASE ~ Visible(i)
    BY <1>3, <2>1, <2>4, Zenon DEF RowKept
  <2> QED BY <2>2, <2>3, <2>4, Zenon
<1>5. CASE i # c.id
  <2>1. rows'[i] = rows[i] BY <1>1, <1>2, <1>5, Zenon
  <2> QED BY <2>1, UntouchedKept, Zenon
<1> QED BY <1>4, <1>5, Zenon

\* A peer that is written is there, and no value is written.
LEMMA PeersKept ==
    ASSUME TypeOK, NEW i \in Ids,
           rows'[i] = rows[i] \/ (i \in PeerIds /\ rows'[i].there)
    PROVE  RowKept(i)
BY UntouchedKept, StorageAssumption, Zenon DEF RowKept

\* Every step keeps every row.
LEMMA NextKeepsRows ==
    ASSUME TypeOK, Committed, Tested, [Next]_vars, ~ Rollback, NEW i \in Ids
    PROVE  RowKept(i)
<1>a. rows \in [Ids -> Row] /\ ValueIds \subseteq Ids /\ PeerIds \subseteq Ids
  BY Zenon DEF TypeOK, Ids
<1>b. \A p, t : UPSERT_PEER(p, t).there BY Zenon DEF UPSERT_PEER
<1>c. ~ NoRow.there BY Zenon DEF NoRow
<1>1. ASSUME UNCHANGED rows PROVE RowKept(i)
  BY <1>1, UntouchedKept, Zenon
<1>2. ASSUME \/ \E j \in ValueIds, seq \in 0..MaxSeq, sk, persistent \in BOOLEAN :
                   storeValue(j, seq, sk, persistent)
             \/ \E j \in ValueIds, seq \in 0..MaxSeq, e \in -1..MaxSeq : onStoreValue(j, seq, e)
             \/ \E onRx \in BOOLEAN, j \in ValueIds, seq \in 0..MaxSeq, sk \in BOOLEAN :
                   valueFound(onRx, j, seq, sk)
             \/ \E onRx \in BOOLEAN, found \in SUBSET PeerIds : putPeerBegin(onRx, found)
             \/ start \/ tick \/ UNCHANGED vars
      PROVE  RowKept(i)
  <2>1. UNCHANGED rows
    BY <1>2, Zenon DEF storeValue, onStoreValue, valueFound, putPeerBegin, start, tick, vars
  <2> QED BY <1>1, <2>1, Zenon
<1>3. ASSUME NEW c \in checked, putValue(c) PROVE RowKept(i)
  BY <1>3, PutKept, Zenon
<1>4. ASSUME NEW j \in Ids, Remove(j) PROVE RowKept(i)
  <2>1. rows' = [rows EXCEPT ![j] = NoRow] /\ j \notin wanted' BY <1>4, Zenon DEF Remove, Write
  <2>2. CASE i = j BY <1>a, <1>c, <2>1, <2>2, Zenon DEF RowKept
  <2>3. CASE i # j
    <3>1. rows'[i] = rows[i] BY <1>a, <2>1, <2>3, Zenon
    <3> QED BY <3>1, UntouchedKept, Zenon
  <2> QED BY <2>2, <2>3, Zenon
<1>5. ASSUME NEW j \in PeerIds, NEW n, n.there, rows' = [rows EXCEPT ![j] = n] PROVE RowKept(i)
  BY <1>a, <1>5, PeersKept, Zenon
<1>6. ASSUME NEW j \in PeerIds, NEW persistent \in BOOLEAN, announcePeer(j, persistent)
      PROVE  RowKept(i)
  BY <1>b, <1>5, <1>6, Zenon DEF announcePeer, Write
<1>7. ASSUME NEW j \in PeerIds, onAnnouncePeer(j) PROVE RowKept(i)
  BY <1>b, <1>5, <1>7, Zenon DEF onAnnouncePeer, Write
<1>8. ASSUME NEW b \in batches, NEW j \in b.left, putPeerStep(b, j) PROVE RowKept(i)
  <2>1. j \in PeerIds BY Zenon DEF TypeOK, Batch
  <2> QED BY <1>b, <1>5, <1>8, <2>1, Zenon DEF putPeerStep, Write
<1>11. ASSUME NEW b \in batches, putPeerThrows(b) \/ putPeerCommit(b) PROVE RowKept(i)
  <2>1. open BY Zenon DEF Committed, TransactionsEnd
  <2>2. UNCHANGED rows BY <1>11, <2>1, Zenon DEF putPeerThrows, putPeerCommit, Fail, Rollback
  <2> QED BY <1>1, <2>2, Zenon
<1>9. ASSUME expire PROVE RowKept(i)
  <2>1. \/ rows'[i] = rows[i]
        \/ ~ rows[i].persistent /\ rows'[i] = NoRow
    BY <1>9, Zenon DEF expire, Write
  <2>2. CASE rows'[i] = rows[i] BY <2>2, UntouchedKept, Zenon
  <2>3. CASE ~ rows[i].persistent /\ rows'[i] = NoRow BY <1>c, <2>3, Zenon DEF RowKept
  <2> QED BY <2>1, <2>2, <2>3, Zenon
<1>10. ASSUME persistentAnnounce PROVE RowKept(i)
  <2>1. rows'[i] = rows[i] \/ rows'[i] = updateValueLastAnnounce(rows[i])
    BY <1>10, Zenon DEF persistentAnnounce, Write
  <2>2. CASE rows'[i] = rows[i] BY <2>2, UntouchedKept, Zenon
  <2>3. CASE rows'[i] = updateValueLastAnnounce(rows[i])
    <3>1. /\ rows'[i].there = rows[i].there /\ rows'[i].seq = rows[i].seq
          /\ rows'[i].privateKey = rows[i].privateKey /\ rows[i].seq \in Int
      BY <1>a, <2>3, StorageAssumption DEF updateValueLastAnnounce, Row
    <3> QED BY <3>1 DEF RowKept
  <2> QED BY <2>1, <2>2, <2>3, Zenon
<1>12. ASSUME close PROVE RowKept(i)
  <2>1. ~ open BY <1>12, Zenon DEF close, Rollback
  <2>2. UNCHANGED rows BY <1>12, <2>1, Zenon DEF close, Committed, TransactionsEnd
  <2> QED BY <1>1, <2>2, Zenon
<1> QED
  BY <1>a, <1>2, <1>3, <1>4, <1>6, <1>7, <1>8, <1>9, <1>10, <1>11, <1>12, Zenon
  DEF Next, removeValue, removePeer

\* A live value is taken back, or its private key lost, only by a writer that another one
\* has overtaken between its checks and its write, and a persistent row goes only when
\* the user removes it, both up to a roll back (sqlite_storage.cc:75-90, 126-143,
\* 265-339): for any number of threads, values, peers, sequence numbers and ages.
THEOREM RowsAlwaysKept == Spec => RowsKept
<1>1. ASSUME IInv, Committed, Tested, [Next]_vars
      PROVE  [~ Rollback =>
              /\ \A i \in ValueIds : Visible(i) /\ rows'[i].there =>
                   \/ /\ rows'[i].seq >= rows[i].seq
                      /\ rows[i].privateKey => rows'[i].privateKey
                   \/ \E c \in checked \ checked' : c.id = i /\ c.old # getValue(i)
              /\ \A i \in wanted' : rows[i].there /\ rows[i].persistent => rows'[i].there]_vars
  <2>1. ~ Rollback => \A i \in Ids : RowKept(i) BY <1>1, NextKeepsRows, Zenon DEF IInv
  <2>2. wanted' \subseteq Ids
    <3>1. IInv' BY <1>1, NextOK, Zenon
    <3> QED BY <3>1, Zenon DEF IInv, TypeOK, Ids
  <2> QED BY <2>1, <2>2, Zenon DEF RowKept, Ids
<1>2. IInv => TypeOK BY Zenon DEF IInv
<1> QED
  BY <1>1, <1>2, InitOK, NextOK, InitCommitted, NextCommitted, InitTested, NextTested, PTL
  DEF Spec, RowsKept
=============================================================================
