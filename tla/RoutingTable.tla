---------------------------- MODULE RoutingTable ----------------------------
(***************************************************************************)
(* The routing table of a DHT node (src/core/routing_table.cc) and what    *)
(* DHT::received, onTimeout, onSend and update do to it (src/core/dht.cc). *)
(*                                                                         *)
(* The table is a list of buckets sorted by prefix; here it is a function  *)
(* from the prefixes to the sets of entries (see BucketSet).  Ids are bit  *)
(* strings, a prefix is a bit string of at most their length: the empty    *)
(* one is the Prefix of depth -1.  The loops of the code (split until the  *)
(* entry fits, merge while siblings fit in one bucket, put the entries of  *)
(* the cache file) take one step per round: mode says which loop runs and  *)
(* todo what it still has to put.  The table belongs to the receiving      *)
(* thread, so a loop is never interrupted by another operation.            *)
(***************************************************************************)
EXTENDS BucketSet, Sequences

CONSTANTS ID_BITS,
          Addrs,
          Peers,         \* what may be heard of: pairs of an id and an address
          LocalId,
          BootstrapIds,
          ROUTING_TABLE_MAINTENANCE_INTERVAL,
          MaxTime,       \* bound: the clock stops there
          MaxFailures    \* bound: no timeout of an entry beyond this many

Bit == {0, 1}

Ids == [1..ID_BITS -> Bit]

ASSUME TableAssumption ==
    /\ ID_BITS \in Nat
    /\ Peers \subseteq [id : Ids, addr : Addrs]
    /\ LocalId \in Ids
    /\ ROUTING_TABLE_MAINTENANCE_INTERVAL \in Nat
    /\ MaxTime \in Nat
    /\ MaxFailures \in Nat

VARIABLES buckets,     \* RoutingTable::buckets
          knownNodes,  \* DHT::knownNodes: address -> id
          now,
          lastCheck,   \* timeOfLastPingCheck
          mode,        \* the loop that is running
          todo,        \* what it still has to put, by the bucket it comes from
          pinged       \* ids the start-up pings of the cached table wait for

vars == <<buckets, knownNodes, now, lastCheck, mode, todo, pinged>>

Entry == EntryOf(Ids, Addrs)

Prefixes == UNION {[1..n -> Bit] : n \in 0..ID_BITS}

-----------------------------------------------------------------------------
\* Prefix::isPrefixOf, splitBranch, isSplittable.
Covers(p, id) == \A k \in DOMAIN p : p[k] = id[k]

Branch(p, b) == Append(p, b)

Splittable(p) == Len(p) < ID_BITS

\* The order of the bucket list: prefixes of buckets are never comparable.
Before(p, q) ==
    \E k \in DOMAIN p \cap DOMAIN q :
        p[k] < q[k] /\ \A j \in 1..(k - 1) : p[j] = q[j]

NoTodo == [p \in {} |-> {}]

EntriesIn(t) == UNION {t[p] : p \in DOMAIN t}

IdsIn(t) == {e.id : e \in EntriesIn(t)}

\* <<p, e>> such that e is next in the order of the list t stands for.
IsNext(t, p, e) ==
    /\ e \in Oldest(t[p])
    /\ \A q \in DOMAIN t : t[q] # {} => q = p \/ Before(p, q)

Rest(t, p, e) ==
    LET r == [t EXCEPT ![p] = @ \ {e}]
    IN  IF EntriesIn(r) = {} THEN NoTodo ELSE r

Drop(t, id) == [p \in DOMAIN t |-> {e \in t[p] : e.id # id}]

Init ==
    /\ buckets = [p \in {<<>>} |-> {}]
    /\ knownNodes = [a \in {} |-> LocalId]
    /\ now = 1
    /\ lastCheck = 0
    /\ mode = "idle"
    /\ todo = NoTodo
    /\ pinged = {}

-----------------------------------------------------------------------------
\* The loop of RoutingTable::_put.

_needsSplit(p, e) ==
    /\ Splittable(p)
    /\ IsFull(buckets[p])
    /\ e.reachable
    /\ e.id \notin {x.id : x \in buckets[p]}
    /\ Bad(buckets[p], now) = {}
    /\ Covers(Branch(p, 1), e.id)

MutSplitKeepsParent(p) ==
    LET l == Branch(p, 0)
        h == Branch(p, 1)
    IN  [q \in DOMAIN buckets \cup {l, h} |->
            CASE q = l -> {x \in buckets[p] : Covers(l, x.id)}
              [] q = h -> {x \in buckets[p] : ~ Covers(l, x.id)}
              [] OTHER -> buckets[q]]

\* The table after _split(p).
SplitTable(p) ==
    LET l == Branch(p, 0)
        h == Branch(p, 1)
    IN  [q \in (DOMAIN buckets \ {p}) \cup {l, h} |->
            CASE q = l -> {x \in buckets[p] : Covers(l, x.id)}
              [] q = h -> {x \in buckets[p] : ~ Covers(l, x.id)}
              [] OTHER -> buckets[q]]

_split ==
    /\ mode \in {"put", "load"}
    /\ \E p \in DOMAIN todo, e \in EntriesIn(todo) :
         /\ IsNext(todo, p, e)
         /\ \E b \in DOMAIN buckets :
              /\ Covers(b, e.id)
              /\ _needsSplit(b, e)
              /\ buckets' = SplitTable(b)
    /\ UNCHANGED <<knownNodes, now, lastCheck, mode, todo, pinged>>

\* KBucket::_put of the next entry.  A loaded table is pinged when it is complete
\* (DHT::start); a merge goes on with its next pair of siblings.
_put ==
    /\ mode \in {"put", "load", "merge"}
    /\ \E p \in DOMAIN todo, e \in EntriesIn(todo) :
         /\ IsNext(todo, p, e)
         /\ \E b \in DOMAIN buckets :
              /\ Covers(b, e.id)
              /\ mode = "merge" \/ ~ _needsSplit(b, e)
              /\ \E S \in PutSet(buckets[b], e, now) :
                   buckets' = [buckets EXCEPT ![b] = S]
         /\ todo' = Rest(todo, p, e)
    /\ mode' = IF todo' = NoTodo /\ mode # "merge" THEN "idle" ELSE mode
    /\ pinged' = IF mode = "load" /\ mode' = "idle" THEN IdsIn(buckets') ELSE pinged
    /\ UNCHANGED <<knownNodes, now, lastCheck>>

-----------------------------------------------------------------------------
\* DHT::received for a message of n.  A message of a node that is in the table
\* with another address changes nothing.
AcceptsMessage(n) ==
    /\ mode = "idle"
    /\ n.id # LocalId
    /\ \A x \in EntriesIn(buckets) : x.id = n.id => x.addr = n.addr

IdChange(n) ==
    /\ n.addr \in DOMAIN knownNodes
    /\ knownNodes[n.addr] # n.id
    /\ knownNodes[n.addr] \in IdsIn(buckets)

Learn(n) ==
    [a \in DOMAIN knownNodes \cup {n.addr} |->
        IF a = n.addr THEN n.id ELSE knownNodes[a]]

\* The id of the address changed: the entry of the known id is removed.
receivedIdChange(n) ==
    /\ AcceptsMessage(n)
    /\ IdChange(n)
    /\ buckets' = Drop(buckets, knownNodes[n.addr])
    /\ knownNodes' = Learn(n)
    /\ UNCHANGED <<now, lastCheck, mode, todo, pinged>>

received(n, e) ==
    /\ AcceptsMessage(n)
    /\ ~ IdChange(n)
    /\ knownNodes' = Learn(n)
    /\ mode' = "put"
    /\ todo' = [p \in {<<>>} |-> {e}]
    /\ UNCHANGED <<buckets, now, lastCheck, pinged>>

receivedRequest(n) == received(n, EntryOfRequest(n.id, n.addr, now))

receivedResponse(n, sent) == received(n, EntryOfResponse(n.id, n.addr, now, sent))

onTimeout(b, x) ==
    /\ mode = "idle"
    /\ x.failedRequests < MaxFailures
    /\ buckets' = [buckets EXCEPT ![b] = TimeoutSet(@, x, now)]
    /\ UNCHANGED <<knownNodes, now, lastCheck, mode, todo, pinged>>

onSend(b, x) ==
    /\ mode = "idle"
    /\ buckets' = [buckets EXCEPT ![b] = Exchange(@, x, SignalRequest(x, now))]
    /\ UNCHANGED <<knownNodes, now, lastCheck, mode, todo, pinged>>

\* PingRefreshTask::callTimeout of the pings of the cached table.
pingTimeout(id) ==
    /\ mode = "idle"
    /\ buckets' = Drop(buckets, id)
    /\ pinged' = pinged \ {id}
    /\ UNCHANGED <<knownNodes, now, lastCheck, mode, todo>>

-----------------------------------------------------------------------------
\* RoutingTable::_maintenance.

_maintenance ==
    /\ mode = "idle"
    /\ now - lastCheck >= ROUTING_TABLE_MAINTENANCE_INTERVAL
    /\ lastCheck' = now
    /\ mode' = "merge"
    /\ UNCHANGED <<buckets, knownNodes, now, todo, pinged>>

EffectiveSize(p) == Cardinality({x \in buckets[p] : ~ RemovableWithoutReplacement(x)})

Mergeable(p) ==
    /\ {Branch(p, 0), Branch(p, 1)} \subseteq DOMAIN buckets
    /\ EffectiveSize(Branch(p, 0)) + EffectiveSize(Branch(p, 1)) <= MAX_ENTRIES_PER_BUCKET

MutMergeKeepsSiblings(p) ==
    LET l == Branch(p, 0)
        h == Branch(p, 1)
    IN  /\ mode = "merge"
        /\ todo = NoTodo
        /\ Mergeable(p)
        /\ buckets' = [q \in DOMAIN buckets \cup {p} |->
                          IF q = p THEN buckets[l] ELSE buckets[q]]
        /\ UNCHANGED <<knownNodes, now, lastCheck, mode, todo, pinged>>

\* One round of _mergeBuckets: the entries of the low sibling go to the new bucket
\* first, those of the high one are put after them.
_mergeBuckets(p) ==
    LET l == Branch(p, 0)
        h == Branch(p, 1)
    IN  /\ mode = "merge"
        /\ todo = NoTodo
        /\ Mergeable(p)
        /\ buckets' = [q \in (DOMAIN buckets \ {l, h}) \cup {p} |->
                          IF q = p THEN buckets[l] ELSE buckets[q]]
        /\ todo' = IF buckets[h] = {} THEN NoTodo ELSE [q \in {h} |-> buckets[h]]
        /\ UNCHANGED <<knownNodes, now, lastCheck, mode, pinged>>

\* What the scan that follows removes from the bucket p for good, and what it moves.
Scrubbed(p) == {x \in buckets[p] : x.id = LocalId
                                   \/ (IsFull(buckets[p]) /\ x.id \in BootstrapIds)}

Misplaced(p) == {x \in buckets[p] \ Scrubbed(p) : ~ Covers(p, x.id)}

scrub ==
    /\ mode = "merge"
    /\ todo = NoTodo
    /\ \A p \in Prefixes : ~ Mergeable(p)
    /\ buckets' = [p \in DOMAIN buckets |-> (buckets[p] \ Scrubbed(p)) \ Misplaced(p)]
    /\ LET moved == UNION {Misplaced(p) : p \in DOMAIN buckets}
       IN  /\ todo' = IF moved = {} THEN NoTodo ELSE [p \in {<<>>} |-> moved]
           /\ mode' = IF moved = {} THEN "idle" ELSE "put"
    /\ UNCHANGED <<knownNodes, now, lastCheck, pinged>>

-----------------------------------------------------------------------------
\* RoutingTable::save, and the end of the process.  What a process does after its last
\* save is lost, so it need not be followed; a crash in the middle of save leaves an
\* empty file.  While the node is down, todo is the content of the file.
save ==
    /\ mode = "idle"
    /\ todo' \in {NoTodo, IF EntriesIn(buckets) = {} THEN NoTodo ELSE buckets}
    /\ mode' = "down"
    /\ buckets' = [p \in {<<>>} |-> {}]
    /\ knownNodes' = [a \in {} |-> LocalId]
    /\ lastCheck' = 0
    /\ pinged' = {}
    /\ UNCHANGED now

\* The node starts anew and loads the file.
load ==
    /\ mode = "down"
    /\ mode' = IF todo = NoTodo THEN "idle" ELSE "load"
    /\ UNCHANGED <<buckets, knownNodes, now, lastCheck, todo, pinged>>

Tick ==
    /\ mode \in {"idle", "down"}
    /\ now < MaxTime
    /\ now' = now + 1
    /\ UNCHANGED <<buckets, knownNodes, lastCheck, mode, todo, pinged>>

LoopStep ==
    \/ _split
    \/ _put
    \/ \E p \in Prefixes : _mergeBuckets(p)
    \/ scrub

Next ==
    \/ LoopStep
    \/ \E n \in Peers :
         \/ receivedIdChange(n)
         \/ receivedRequest(n)
         \/ \E sent \in {now, now - 1} : receivedResponse(n, sent)
    \/ \E b \in DOMAIN buckets : \E x \in buckets[b] : onTimeout(b, x) \/ onSend(b, x)
    \/ \E id \in pinged : pingTimeout(id)
    \/ _maintenance
    \/ save
    \/ load
    \/ Tick

Spec == Init /\ [][Next]_vars

\* The receiving thread finishes the loop it is in.
FairSpec == Spec /\ WF_vars(LoopStep)

-----------------------------------------------------------------------------
\* The type invariant: of the buckets, what is still to be put, and knownNodes.
TypeOK ==
    /\ DOMAIN buckets \subseteq Prefixes
    /\ \A p \in DOMAIN buckets : buckets[p] \subseteq Entry
    /\ DOMAIN knownNodes \subseteq Addrs
    /\ \A a \in DOMAIN knownNodes : knownNodes[a] \in Ids
    /\ now \in Nat \ {0}
    /\ lastCheck \in 0..now
    /\ mode \in {"idle", "put", "load", "merge", "down"}
    /\ DOMAIN todo \subseteq Prefixes
    /\ \A p \in DOMAIN todo : todo[p] \subseteq Entry
    /\ pinged \subseteq Ids
    /\ mode = "idle" => todo = NoTodo

\* Every id belongs to exactly one bucket, through all splits and merges
\* (routing_table.cc:113-188), and every entry is in the bucket of its id, so the repair
\* of "wrong entries" in _maintenance (routing_table.cc:219-223), which would change the
\* list of buckets while it iterates over it, has nothing to do.
EntriesInPlace ==
    /\ \A id \in Ids :
          /\ \E p \in DOMAIN buckets : Covers(p, id)
          /\ \A p, q \in DOMAIN buckets : Covers(p, id) /\ Covers(q, id) => p = q
    /\ \A p \in DOMAIN buckets : \A x \in buckets[p] : Covers(p, x.id)

\* No bucket grows beyond its capacity (kbucket.cc:53-74, routing_table.cc:113-188).
BucketsBounded ==
    \A p \in DOMAIN buckets :
        IsFiniteSet(buckets[p]) /\ Cardinality(buckets[p]) <= MAX_ENTRIES_PER_BUCKET

\* No two entries of the whole table have the same id; no two entries of one
\* bucket have the same address (kbucket.cc:36-51).
NoConflicts ==
    \A p, q \in DOMAIN buckets : \A x \in buckets[p], y \in buckets[q] :
        x # y => x.id # y.id /\ (p = q => x.addr # y.addr)

\* The table holds verified nodes only: an entry has answered a call, or was
\* saved by a process in which it had (dht.cc:349-364, kbucket.cc:53).
OnlyVerified == \A x \in EntriesIn(buckets) : x.reachable

\* The table is sound, through changes of ids and addresses, splits, merges, timeouts and
\* what a restart loads: everything is in its place, once, within the capacity of its
\* bucket, and verified (routing_table.cc:57-302, kbucket.cc:32-181).
TableSound == EntriesInPlace /\ BucketsBounded /\ NoConflicts /\ OnlyVerified

\* Older contacts are preferred: what a message puts never pushes an entry out
\* of the table that is not bad, splits included (routing_table.cc:57-67).
NewcomersNeverEvictGood ==
    [][mode = "put" =>
         \A x \in EntriesIn(buckets) :
            x.id \notin IdsIn(buckets') => NeedsReplacement(x, now)]_vars

\* The loops terminate: splitting stops at the latest when the prefix is as long
\* as an id, merging when no siblings fit together (routing_table.cc:61, 139).
LoopsTerminate == mode \in {"put", "load", "merge"} ~> mode = "idle"
=============================================================================
