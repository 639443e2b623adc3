------------------------- MODULE RoutingTableProofs -------------------------
(***************************************************************************)
(* Proofs about RoutingTable for ids of any length, buckets of any         *)
(* capacity, any thresholds, peers and addresses.                          *)
(***************************************************************************)
EXTENDS RoutingTable, FiniteSetTheorems, SequenceTheorems, TLAPS

-----------------------------------------------------------------------------
(* Prefixes *)

\* A prefix is a sequence of bits no longer than an id.
LEMMA PrefixIsSeq ==
    \A p : p \in Prefixes <=> p \in Seq(Bit) /\ Len(p) <= ID_BITS
<1> USE TableAssumption
<1>1. ASSUME NEW p \in Prefixes PROVE p \in Seq(Bit) /\ Len(p) <= ID_BITS
  BY DEF Prefixes
<1>2. ASSUME NEW p \in Seq(Bit), Len(p) <= ID_BITS PROVE p \in Prefixes
  <2>1. p \in [1..Len(p) -> Bit] /\ Len(p) \in 0..ID_BITS
    BY <1>2, LenProperties
  <2> QED BY <2>1, Zenon DEF Prefixes
<1> QED BY <1>1, <1>2, Zenon

\* splitBranch: the two branches of a prefix are prefixes and divide what it covers.
LEMMA BranchProperties ==
    ASSUME NEW p \in Prefixes, Splittable(p)
    PROVE  /\ Branch(p, 0) \in Prefixes /\ Branch(p, 1) \in Prefixes
           /\ Branch(p, 0) # p /\ Branch(p, 1) # p /\ Branch(p, 0) # Branch(p, 1)
           /\ \A id \in Ids : Covers(p, id) <=> Covers(Branch(p, 0), id) \/ Covers(Branch(p, 1), id)
           /\ \A id \in Ids : ~ (Covers(Branch(p, 0), id) /\ Covers(Branch(p, 1), id))
<1>1. p \in Seq(Bit) /\ Len(p) \in Nat /\ DOMAIN p = 1..Len(p) /\ Len(p) + 1 \in 1..ID_BITS
  BY PrefixIsSeq, LenProperties, TableAssumption DEF Splittable
<1>2. ASSUME NEW b \in Bit
      PROVE  /\ Branch(p, b) \in Seq(Bit) /\ Len(Branch(p, b)) = Len(p) + 1
             /\ DOMAIN Branch(p, b) = 1..(Len(p) + 1)
             /\ \A i \in 1..Len(p) : Branch(p, b)[i] = p[i]
             /\ Branch(p, b)[Len(p) + 1] = b
  BY <1>1, AppendProperties, LenProperties DEF Branch
<1>3. ASSUME NEW b \in Bit PROVE Branch(p, b) \in Prefixes /\ Branch(p, b) # p
  BY <1>1, <1>2, PrefixIsSeq, TableAssumption
<1>4. ASSUME NEW b \in Bit, NEW id \in Ids
      PROVE  Covers(Branch(p, b), id) <=> Covers(p, id) /\ id[Len(p) + 1] = b
  BY <1>1, <1>2 DEF Covers
<1>5. \A id \in Ids : id[Len(p) + 1] \in {0, 1}
  BY <1>1, Zenon DEF Ids, Bit
<1>6. Branch(p, 0) # Branch(p, 1)
  BY <1>2 DEF Bit
<1> QED BY <1>3, <1>4, <1>5, <1>6, Zenon DEF Bit

\* A parent of two prefixes can be split.
LEMMA ParentSplittable ==
    ASSUME NEW p \in Prefixes, Branch(p, 0) \in Prefixes
    PROVE  Splittable(p)
<1>1. p \in Seq(Bit) /\ Len(p) \in Nat
  BY PrefixIsSeq, LenProperties, Zenon
<1>2. Len(Branch(p, 0)) = Len(p) + 1
  <2>1. 0 \in Bit
    BY Zenon DEF Bit
  <2> QED BY <1>1, <2>1, AppendProperties, Zenon DEF Branch
<1>3. Len(Branch(p, 0)) <= ID_BITS
  BY PrefixIsSeq, Zenon
<1> QED BY <1>1, <1>2, <1>3, TableAssumption DEF Splittable

\* The prefixes P partition the ids.
Partition(P) ==
    \A id \in Ids :
        /\ \E p \in P : Covers(p, id)
        /\ \A p, q \in P : Covers(p, id) /\ Covers(q, id) => p = q

\* Replacing a prefix by its two halves keeps a partition of the key space (RoutingTable::_split).
LEMMA SplitPartition ==
    ASSUME NEW P, P \subseteq Prefixes, Partition(P), NEW p \in P, Splittable(p)
    PROVE  Partition((P \ {p}) \cup {Branch(p, 0), Branch(p, 1)})
BY BranchProperties DEF Partition

\* Replacing two siblings by their parent keeps a partition of the key space (_mergeBuckets).
LEMMA MergePartition ==
    ASSUME NEW P, P \subseteq Prefixes, Partition(P), NEW p \in Prefixes,
           {Branch(p, 0), Branch(p, 1)} \subseteq P
    PROVE  Partition((P \ {Branch(p, 0), Branch(p, 1)}) \cup {p})
<1>1. Splittable(p)
  BY ParentSplittable, Zenon
<1> QED BY <1>1, BranchProperties DEF Partition

-----------------------------------------------------------------------------
(* Buckets *)

\* What every bucket of the table satisfies.
GoodBucket(p, S) ==
    /\ S \subseteq Entry
    /\ IsFiniteSet(S) /\ Cardinality(S) <= MAX_ENTRIES_PER_BUCKET
    /\ \A x \in S : Covers(p, x.id) /\ x.reachable
    /\ \A x, y \in S : x # y => ~ Matches(x, y)

\* A merge keeps the id and the address of an entry and its types.
LEMMA MergeEntryType ==
    ASSUME NEW x \in Entry, NEW e \in Entry
    PROVE  /\ MergeEntry(x, e) \in Entry
           /\ MergeEntry(x, e).id = x.id /\ MergeEntry(x, e).addr = x.addr
           /\ x.reachable => MergeEntry(x, e).reachable
<1> DEFINE created  == Smaller(x.created, e.created)
           seen     == Larger(x.lastSeen, e.lastSeen)
           sent     == Larger(x.lastSend, e.lastSend)
           failures == IF e.failedRequests > 0
                       THEN Smaller(x.failedRequests, e.failedRequests) ELSE x.failedRequests
<1>1. created \in Nat /\ seen \in Nat /\ sent \in Nat /\ failures \in Nat
  BY Zenon DEF Entry, EntryOf, Smaller, Larger
<1>2. MergeEntry(x, e) =
        [x EXCEPT !.created = created, !.lastSeen = seen, !.lastSend = sent,
                  !.reachable = x.reachable \/ e.reachable, !.failedRequests = failures]
  BY Zenon DEF MergeEntry
<1>3. x \in EntryOf(Ids, Addrs) /\ e.reachable \in BOOLEAN
  BY Zenon DEF Entry, EntryOf
<1> HIDE DEF created, seen, sent, failures
<1> QED BY <1>1, <1>2, <1>3, Zenon DEF Entry, EntryOf

\* What the signals of a call do to an entry leaves an entry (KBucketEntry::signal*).
LEMMA SignalTypes ==
    ASSUME NEW x \in Entry, NEW t \in Nat
    PROVE  /\ SignalRequestTimeout(x) \in Entry /\ SignalRequest(x, t) \in Entry
           /\ SignalRequestTimeout(x).id = x.id /\ SignalRequestTimeout(x).addr = x.addr
           /\ SignalRequestTimeout(x).reachable = x.reachable
           /\ SignalRequest(x, t).id = x.id /\ SignalRequest(x, t).addr = x.addr
           /\ SignalRequest(x, t).reachable = x.reachable
BY DEF Entry, EntryOf, SignalRequestTimeout, SignalRequest

\* A part of a good bucket is good under every prefix that covers it.
LEMMA SubsetGood ==
    ASSUME NEW p, NEW q, NEW S, GoodBucket(p, S), NEW T, T \subseteq S,
           \A x \in T : Covers(q, x.id)
    PROVE  GoodBucket(q, T)
<1>1. IsFiniteSet(S) /\ Cardinality(S) \in Nat /\ Cardinality(S) <= MAX_ENTRIES_PER_BUCKET
  BY FS_CardinalityType, Zenon DEF GoodBucket
<1>2. IsFiniteSet(T) /\ Cardinality(T) \in Nat /\ Cardinality(T) <= Cardinality(S)
  BY <1>1, FS_Subset, FS_CardinalityType, Zenon
<1>3. Cardinality(T) <= MAX_ENTRIES_PER_BUCKET
  BY <1>1, <1>2, BucketAssumption
<1> QED BY <1>2, <1>3, Zenon DEF GoodBucket

\* Exchanging an entry for one that conflicts with none of the others.
LEMMA ExchangeGood ==
    ASSUME NEW p, NEW S, GoodBucket(p, S), NEW x \in S, NEW e \in Entry,
           Covers(p, e.id), e.reachable,
           \A y \in S : y # x => ~ Matches(y, e)
    PROVE  GoodBucket(p, Exchange(S, x, e))
<1> DEFINE R == S \ {x}
<1>1. IsFiniteSet(R) /\ Cardinality(R) = Cardinality(S) - 1 /\ Cardinality(S) \in Nat
  BY FS_RemoveElement, FS_CardinalityType, Zenon DEF GoodBucket
<1>2. IsFiniteSet(R \cup {e})
      /\ (Cardinality(R \cup {e}) = Cardinality(R) \/ Cardinality(R \cup {e}) = Cardinality(R) + 1)
  BY <1>1, FS_AddElement, Zenon
<1>3. Cardinality(S) <= MAX_ENTRIES_PER_BUCKET
  BY Zenon DEF GoodBucket
<1>4. Cardinality(R \cup {e}) <= MAX_ENTRIES_PER_BUCKET
  BY <1>1, <1>2, <1>3, BucketAssumption
<1>5. \A y \in R : ~ Matches(y, e) /\ ~ Matches(e, y)
  BY Zenon DEF Matches
<1>6. R \cup {e} \subseteq Entry /\ \A y \in R \cup {e} : Covers(p, y.id) /\ y.reachable
  BY Zenon DEF GoodBucket
<1>7. \A y, z \in R \cup {e} : y # z => ~ Matches(y, z)
  BY <1>5, Zenon DEF GoodBucket
<1> QED BY <1>2, <1>4, <1>6, <1>7, Zenon DEF GoodBucket, Exchange

\* KBucket::_put keeps a bucket good.
LEMMA PutGood ==
    ASSUME NEW p, NEW S, GoodBucket(p, S), NEW e \in Entry, Covers(p, e.id),
           NEW t \in Nat, NEW T \in PutSet(S, e, t)
    PROVE  GoodBucket(p, T)
<1>1. CASE \E x \in S : Matches(x, e)
  <2>1. PICK x \in S : Matches(x, e)
                      /\ T = (IF Equals(x, e) THEN Exchange(S, x, MergeEntry(x, e)) ELSE S)
    BY <1>1, Zenon DEF PutSet
  <2>2. CASE Equals(x, e)
    <3>1. x \in Entry
      BY Zenon DEF GoodBucket
    <3>2. /\ MergeEntry(x, e) \in Entry /\ MergeEntry(x, e).reachable
          /\ MergeEntry(x, e).id = x.id /\ MergeEntry(x, e).addr = x.addr
      BY <3>1, MergeEntryType, Zenon DEF GoodBucket
    <3>3. \A y \in S : y # x => ~ Matches(y, MergeEntry(x, e))
      BY <3>2, Zenon DEF GoodBucket, Matches
    <3>4. Covers(p, MergeEntry(x, e).id)
      BY <3>2, Zenon DEF GoodBucket
    <3>5. GoodBucket(p, Exchange(S, x, MergeEntry(x, e)))
      BY <3>2, <3>3, <3>4, ExchangeGood, Zenon
    <3> QED BY <2>1, <2>2, <3>5, Zenon
  <2> QED BY <2>1, <2>2, Zenon
<1>2. CASE ~ \E x \in S : Matches(x, e)
  <2>1. CASE ~ e.reachable
    BY <1>2, <2>1, Zenon DEF PutSet
  <2>2. CASE e.reachable /\ ~ IsFull(S)
    <3>1. T = S \cup {e}
      BY <1>2, <2>2, Zenon DEF PutSet
    <3>2. IsFiniteSet(S) /\ Cardinality(S) \in Nat /\ Cardinality(S) < MAX_ENTRIES_PER_BUCKET
      BY <2>2, FS_CardinalityType, BucketAssumption DEF GoodBucket, IsFull
    <3>3. IsFiniteSet(T) /\ Cardinality(T) <= MAX_ENTRIES_PER_BUCKET
      <4>1. IsFiniteSet(S \cup {e})
            /\ (Cardinality(S \cup {e}) = Cardinality(S) \/ Cardinality(S \cup {e}) = Cardinality(S) + 1)
        BY <3>2, FS_AddElement, Zenon
      <4> QED BY <3>1, <3>2, <4>1, BucketAssumption
    <3>4. \A x, y \in T : x # y => ~ Matches(x, y)
      BY <1>2, <3>1, Zenon DEF GoodBucket, Matches
    <3> QED BY <2>2, <3>1, <3>3, <3>4, Zenon DEF GoodBucket
  <2>3. CASE e.reachable /\ IsFull(S)
    <3>1. T = S \/ \E x \in S : T = Exchange(S, x, e)
      BY <1>2, <2>3, Zenon DEF PutSet, Oldest, Youngest, Bad
    <3>2. ASSUME NEW x \in S PROVE GoodBucket(p, Exchange(S, x, e))
      BY <1>2, <2>3, ExchangeGood, Zenon
    <3> QED BY <3>1, <3>2, Zenon
  <2> QED BY <2>1, <2>2, <2>3, Zenon
<1> QED BY <1>1, <1>2, Zenon

\* A timeout of an entry keeps its bucket good (KBucket::onTimeout).
LEMMA TimeoutGood ==
    ASSUME NEW p, NEW S, GoodBucket(p, S), NEW x \in S, NEW t \in Nat
    PROVE  GoodBucket(p, TimeoutSet(S, x, t))
<1>1. x \in Entry /\ Covers(p, x.id) /\ x.reachable
  BY Zenon DEF GoodBucket
<1>2. /\ SignalRequestTimeout(x) \in Entry /\ SignalRequestTimeout(x).reachable
      /\ SignalRequestTimeout(x).id = x.id /\ SignalRequestTimeout(x).addr = x.addr
  BY <1>1, SignalTypes, Zenon
<1>3. \A y \in S : y # x => ~ Matches(y, SignalRequestTimeout(x))
  BY <1>2, Zenon DEF GoodBucket, Matches
<1>4. GoodBucket(p, Exchange(S, x, SignalRequestTimeout(x)))
  BY <1>1, <1>2, <1>3, ExchangeGood, Zenon
<1>5. GoodBucket(p, S \ {x})
  BY SubsetGood, Zenon DEF GoodBucket
<1> QED BY <1>4, <1>5, Zenon DEF TimeoutSet

\* A request sent to an entry keeps its bucket good (KBucket::onSend).
LEMMA SendGood ==
    ASSUME NEW p, NEW S, GoodBucket(p, S), NEW x \in S, NEW t \in Nat
    PROVE  GoodBucket(p, Exchange(S, x, SignalRequest(x, t)))
<1>1. x \in Entry /\ Covers(p, x.id) /\ x.reachable
  BY Zenon DEF GoodBucket
<1>2. /\ SignalRequest(x, t) \in Entry /\ SignalRequest(x, t).reachable
      /\ SignalRequest(x, t).id = x.id /\ SignalRequest(x, t).addr = x.addr
  BY <1>1, SignalTypes, Zenon
<1>3. \A y \in S : y # x => ~ Matches(y, SignalRequest(x, t))
  BY <1>2, Zenon DEF GoodBucket, Matches
<1> QED BY <1>1, <1>2, <1>3, ExchangeGood, Zenon

-----------------------------------------------------------------------------
(* The table *)

GoodTable(t) ==
    /\ DOMAIN t \subseteq Prefixes
    /\ Partition(DOMAIN t)
    /\ \A p \in DOMAIN t : GoodBucket(p, t[p])

\* What a loop has to put and what the cache file holds are entries.
GoodQueue(t) == DOMAIN t \subseteq Prefixes /\ \A p \in DOMAIN t : t[p] \subseteq Entry

IInv ==
    /\ GoodTable(buckets)
    /\ GoodQueue(todo)
    /\ DOMAIN knownNodes \subseteq Addrs
    /\ \A a \in DOMAIN knownNodes : knownNodes[a] \in Ids
    /\ now \in Nat \ {0}
    /\ lastCheck \in 0..now
    /\ mode \in {"idle", "put", "load", "merge", "down"}
    /\ pinged \subseteq Ids
    /\ mode = "idle" => todo = NoTodo

\* Nothing left to put is a good queue.
LEMMA NoTodoGood == GoodQueue(NoTodo)
BY Zenon DEF GoodQueue, NoTodo

\* The entries of a good table may be queued to be put again, as load does.
LEMMA GoodTableIsQueue ==
    ASSUME NEW t, GoodTable(t)
    PROVE  GoodQueue(t) /\ IdsIn(t) \subseteq Ids
<1>1. GoodQueue(t)
  BY Zenon DEF GoodTable, GoodBucket, GoodQueue
<1>2. \A e \in Entry : e.id \in Ids
  BY Zenon DEF Entry, EntryOf
<1> QED BY <1>1, <1>2, Zenon DEF GoodQueue, IdsIn, EntriesIn

\* The table that the constructor makes, one empty bucket, is good.
LEMMA EmptyTableGood == GoodTable([p \in {<<>>} |-> {}])
<1>1. <<>> \in Prefixes /\ DOMAIN <<>> = {}
  <2>1. <<>> \in Seq(Bit) /\ Len(<<>>) = 0 /\ DOMAIN <<>> = {}
    OBVIOUS
  <2>2. Len(<<>>) <= ID_BITS
    BY <2>1, TableAssumption
  <2> QED BY <2>1, <2>2, PrefixIsSeq, Zenon
<1>2. Partition({<<>>})
  BY <1>1, Zenon DEF Partition, Covers
<1>3. GoodBucket(<<>>, {})
  BY FS_EmptySet, BucketAssumption DEF GoodBucket
<1> QED BY <1>1, <1>2, <1>3, Zenon DEF GoodTable

\* Changing one bucket, or taking entries out of any of them.
LEMMA UpdateGood ==
    ASSUME NEW t, GoodTable(t), NEW b \in DOMAIN t, NEW S, GoodBucket(b, S)
    PROVE  GoodTable([t EXCEPT ![b] = S])
BY Zenon DEF GoodTable

\* Removing entries keeps a good table a good table.
LEMMA ShrinkGood ==
    ASSUME NEW t, GoodTable(t), NEW u, DOMAIN u = DOMAIN t,
           \A p \in DOMAIN t : u[p] \subseteq t[p]
    PROVE  GoodTable(u)
<1>1. ASSUME NEW p \in DOMAIN t PROVE GoodBucket(p, u[p])
  <2>1. GoodBucket(p, t[p])
    BY Zenon DEF GoodTable
  <2> QED BY <2>1, SubsetGood, Zenon DEF GoodBucket
<1> QED BY <1>1, Zenon DEF GoodTable

\* RoutingTable::_split.
LEMMA SplitGood ==
    ASSUME GoodTable(buckets), NEW b \in DOMAIN buckets, Splittable(b)
    PROVE  GoodTable(SplitTable(b))
<1> DEFINE l == Branch(b, 0)
           h == Branch(b, 1)
           D == (DOMAIN buckets \ {b}) \cup {l, h}
           L == {x \in buckets[b] : Covers(l, x.id)}
           H == {x \in buckets[b] : ~ Covers(l, x.id)}
<1>1. b \in Prefixes /\ DOMAIN buckets \subseteq Prefixes /\ GoodBucket(b, buckets[b])
  BY Zenon DEF GoodTable
<1>2. l \in Prefixes /\ h \in Prefixes /\ l # h
      /\ \A id \in Ids : Covers(b, id) <=> Covers(l, id) \/ Covers(h, id)
  BY <1>1, BranchProperties, Zenon
<1>3. \A x \in buckets[b] : x.id \in Ids /\ Covers(b, x.id)
  BY <1>1, Zenon DEF GoodBucket, Entry, EntryOf
<1>4. GoodBucket(l, L)
  BY <1>1, SubsetGood
<1>5. \A x \in H : Covers(h, x.id)
  BY <1>2, <1>3, Zenon
<1>6. GoodBucket(h, H)
  BY <1>1, <1>5, SubsetGood, Zenon
<1>7. DOMAIN SplitTable(b) = D
  BY Zenon DEF SplitTable
<1>8. D \subseteq Prefixes /\ Partition(D)
  BY <1>1, <1>2, SplitPartition, Zenon DEF GoodTable
<1>9. ASSUME NEW q \in D PROVE GoodBucket(q, SplitTable(b)[q])
  <2>1. CASE q = l
    <3>1. SplitTable(b)[q] = L
      BY <1>2, <2>1, Zenon DEF SplitTable
    <3> QED BY <2>1, <3>1, <1>4, Zenon
  <2>2. CASE q # l /\ q = h
    <3>1. SplitTable(b)[q] = H
      BY <2>2, Zenon DEF SplitTable
    <3> QED BY <2>2, <3>1, <1>6, Zenon
  <2>3. CASE q # l /\ q # h
    <3>1. SplitTable(b)[q] = buckets[q] /\ q \in DOMAIN buckets
      BY <2>3, Zenon DEF SplitTable
    <3> QED BY <3>1, Zenon DEF GoodTable
  <2> QED BY <2>1, <2>2, <2>3, Zenon
<1> QED BY <1>7, <1>8, <1>9, Zenon DEF GoodTable

\* One merge of RoutingTable::_mergeBuckets, before the high sibling's entries.
LEMMA MergeGood ==
    ASSUME GoodTable(buckets), NEW p \in Prefixes,
           {Branch(p, 0), Branch(p, 1)} \subseteq DOMAIN buckets
    PROVE  GoodTable([q \in (DOMAIN buckets \ {Branch(p, 0), Branch(p, 1)}) \cup {p} |->
                         IF q = p THEN buckets[Branch(p, 0)] ELSE buckets[q]])
<1> DEFINE l == Branch(p, 0)
           D == (DOMAIN buckets \ {l, Branch(p, 1)}) \cup {p}
           t == [q \in D |-> IF q = p THEN buckets[l] ELSE buckets[q]]
<1>1. Splittable(p)
  BY ParentSplittable, Zenon DEF GoodTable
<1>2. GoodBucket(l, buckets[l])
  BY Zenon DEF GoodTable
<1>3. \A x \in buckets[l] : Covers(p, x.id)
  BY <1>1, <1>2, BranchProperties, Zenon DEF GoodBucket, Entry, EntryOf
<1>4. GoodBucket(p, buckets[l])
  BY <1>2, <1>3, SubsetGood, Zenon
<1>5. D \subseteq Prefixes /\ Partition(D)
  BY MergePartition, Zenon DEF GoodTable
<1>6. ASSUME NEW q \in D PROVE GoodBucket(q, t[q])
  BY <1>4, Zenon DEF GoodTable
<1> QED BY <1>5, <1>6, Zenon DEF GoodTable

-----------------------------------------------------------------------------
(* The steps *)

\* The initial states satisfy the inductive invariant.
LEMMA InitIInv == Init => IInv
<1> SUFFICES ASSUME Init PROVE IInv
  BY Zenon
<1>1. GoodTable(buckets)
  BY EmptyTableGood, Zenon DEF Init
<1>2. GoodQueue(todo)
  BY NoTodoGood, Zenon DEF Init
<1> QED BY <1>1, <1>2 DEF Init, IInv

\* A good queue without its first entry is good.
LEMMA RestGood ==
    ASSUME NEW t, GoodQueue(t), NEW p, NEW e
    PROVE  GoodQueue(Rest(t, p, e))
<1>1. GoodQueue([t EXCEPT ![p] = @ \ {e}])
  BY Zenon DEF GoodQueue
<1> QED BY <1>1, NoTodoGood, Zenon DEF Rest

\* Splitting a bucket keeps the inductive invariant.
LEMMA SplitStep == IInv /\ _split => IInv'
<1> SUFFICES ASSUME IInv, _split PROVE IInv'
  BY Zenon
<1>1. PICK b \in DOMAIN buckets : Splittable(b) /\ buckets' = SplitTable(b)
  BY Zenon DEF _split, _needsSplit
<1>2. GoodTable(SplitTable(b))
  BY <1>1, SplitGood, Zenon DEF IInv
<1> QED BY <1>1, <1>2, Zenon DEF IInv, _split

\* Putting an entry keeps the inductive invariant.
LEMMA PutStep == IInv /\ _put => IInv'
<1> SUFFICES ASSUME IInv, _put PROVE IInv'
  BY Zenon
<1>1. PICK p \in DOMAIN todo, e \in EntriesIn(todo), b \in DOMAIN buckets :
            /\ Covers(b, e.id)
            /\ \E S \in PutSet(buckets[b], e, now) : buckets' = [buckets EXCEPT ![b] = S]
            /\ todo' = Rest(todo, p, e)
  BY Zenon DEF _put
<1>2. PICK S \in PutSet(buckets[b], e, now) : buckets' = [buckets EXCEPT ![b] = S]
  BY <1>1, Zenon
<1>3. e \in Entry /\ now \in Nat /\ GoodBucket(b, buckets[b])
  BY Zenon DEF IInv, GoodQueue, EntriesIn, GoodTable
<1>4. GoodBucket(b, S)
  BY <1>1, <1>3, PutGood, Zenon
<1>5. GoodTable(buckets')
  BY <1>2, <1>4, UpdateGood, Zenon DEF IInv
<1>6. GoodQueue(todo')
  BY <1>1, RestGood, Zenon DEF IInv
<1>7. pinged' \subseteq Ids
  BY <1>5, GoodTableIsQueue, Zenon DEF IInv, _put
<1> QED BY <1>5, <1>6, <1>7, Zenon DEF IInv, _put

\* knownNodes remains a function from addresses to ids when a message is received.
LEMMA LearnType ==
    ASSUME IInv, NEW n \in Peers
    PROVE  DOMAIN Learn(n) \subseteq Addrs /\ \A a \in DOMAIN Learn(n) : Learn(n)[a] \in Ids
BY TableAssumption, Zenon DEF IInv, Learn

\* Dropping the entry of a node that changed its id keeps a good table a good table.
LEMMA DropGood ==
    ASSUME NEW t, GoodTable(t), NEW id
    PROVE  GoodTable(Drop(t, id))
BY ShrinkGood, Zenon DEF Drop

\* DHT::received keeps the inductive invariant.
LEMMA ReceivedStep ==
    ASSUME IInv, NEW n \in Peers, NEW e \in Entry, received(n, e)
    PROVE  IInv'
<1>1. GoodQueue(todo')
  <2>1. <<>> \in Prefixes
    BY EmptyTableGood, Zenon DEF GoodTable
  <2> QED BY <2>1, Zenon DEF received, GoodQueue
<1>2. DOMAIN knownNodes' \subseteq Addrs /\ \A a \in DOMAIN knownNodes' : knownNodes'[a] \in Ids
  BY LearnType, Zenon DEF received
<1> QED BY <1>1, <1>2, Zenon DEF IInv, received

\* The entry that a message makes is an entry.
LEMMA MessageEntryType ==
    ASSUME NEW n \in Peers, NEW t \in Nat, NEW s \in Nat
    PROVE  EntryOfRequest(n.id, n.addr, t) \in Entry /\ EntryOfResponse(n.id, n.addr, t, s) \in Entry
<1>1. n.id \in Ids /\ n.addr \in Addrs
  BY TableAssumption, Zenon
<1>2. EntryOfRequest(n.id, n.addr, t) \in Entry
  BY <1>1, Zenon DEF EntryOfRequest, NewEntry, Entry, EntryOf
<1>3. EntryOfResponse(n.id, n.addr, t, s) \in Entry
  BY <1>1, Zenon DEF EntryOfResponse, MergeRequestTime, SignalResponse, NewEntry, Larger, Entry, EntryOf
<1> QED BY <1>2, <1>3, Zenon

\* Every step of the maintenance keeps the inductive invariant.
LEMMA MaintenanceSteps ==
    ASSUME IInv, \/ _maintenance
                 \/ \E p \in Prefixes : _mergeBuckets(p)
                 \/ scrub
    PROVE  IInv'
<1>1. CASE _maintenance
  BY <1>1 DEF IInv, _maintenance
<1>2. CASE \E p \in Prefixes : _mergeBuckets(p)
  <2>1. PICK p \in Prefixes : _mergeBuckets(p)
    BY <1>2, Zenon
  <2>2. {Branch(p, 0), Branch(p, 1)} \subseteq DOMAIN buckets
    BY <2>1, Zenon DEF _mergeBuckets, Mergeable
  <2>3. GoodTable(buckets')
    BY <2>1, <2>2, MergeGood, Zenon DEF IInv, _mergeBuckets
  <2>4. GoodQueue([q \in {Branch(p, 1)} |-> buckets[Branch(p, 1)]])
    BY <2>2, GoodTableIsQueue, Zenon DEF IInv, GoodQueue
  <2>5. GoodQueue(todo')
    BY <2>1, <2>4, NoTodoGood, Zenon DEF _mergeBuckets
  <2> QED BY <2>1, <2>3, <2>5, Zenon DEF IInv, _mergeBuckets
<1>3. CASE scrub
  <2> DEFINE moved == UNION {Misplaced(p) : p \in DOMAIN buckets}
  <2>1. GoodTable(buckets')
    BY <1>3, ShrinkGood, Zenon DEF scrub, IInv
  <2>2. moved \subseteq Entry
    BY Zenon DEF Misplaced, IInv, GoodTable, GoodBucket
  <2>3. <<>> \in Prefixes
    BY EmptyTableGood, Zenon DEF GoodTable
  <2>4. GoodQueue([p \in {<<>>} |-> moved])
    BY <2>2, <2>3, Zenon DEF GoodQueue
  <2>5. GoodQueue(todo') /\ mode' \in {"idle", "put"} /\ (mode' = "idle" => todo' = NoTodo)
    BY <1>3, <2>4, NoTodoGood, Zenon DEF scrub
  <2> QED BY <1>3, <2>1, <2>5, Zenon DEF scrub, IInv
<1> QED BY <1>1, <1>2, <1>3, Zenon

\* Every step keeps the inductive invariant.
LEMMA NextIInv == IInv /\ [Next]_vars => IInv'
<1> SUFFICES ASSUME IInv, [Next]_vars PROVE IInv'
  BY Zenon
<1>1. CASE LoopStep
  BY <1>1, SplitStep, PutStep, MaintenanceSteps, Zenon DEF LoopStep
<1>2. ASSUME NEW n \in Peers, receivedIdChange(n) PROVE IInv'
  <2>1. GoodTable(buckets')
    BY <1>2, DropGood, Zenon DEF receivedIdChange, IInv
  <2>2. DOMAIN knownNodes' \subseteq Addrs /\ \A a \in DOMAIN knownNodes' : knownNodes'[a] \in Ids
    BY <1>2, LearnType, Zenon DEF receivedIdChange
  <2> QED BY <1>2, <2>1, <2>2, Zenon DEF receivedIdChange, IInv
<1>3. ASSUME NEW n \in Peers, receivedRequest(n) PROVE IInv'
  <2>1. EntryOfRequest(n.id, n.addr, now) \in Entry
    BY MessageEntryType, Zenon DEF IInv
  <2> QED BY <1>3, <2>1, ReceivedStep, Zenon DEF receivedRequest
<1>4. ASSUME NEW n \in Peers, NEW sent \in {now, now - 1}, receivedResponse(n, sent) PROVE IInv'
  <2>1. now \in Nat /\ sent \in Nat
    BY <1>4 DEF IInv
  <2>2. EntryOfResponse(n.id, n.addr, now, sent) \in Entry
    BY <2>1, MessageEntryType, Zenon
  <2> QED BY <1>4, <2>2, ReceivedStep, Zenon DEF receivedResponse
<1>5. ASSUME NEW b \in DOMAIN buckets, NEW x \in buckets[b], onTimeout(b, x) PROVE IInv'
  <2>1. GoodBucket(b, TimeoutSet(buckets[b], x, now))
    BY TimeoutGood, Zenon DEF IInv, GoodTable
  <2>2. GoodTable(buckets')
    BY <1>5, <2>1, UpdateGood, Zenon DEF onTimeout, IInv
  <2> QED BY <1>5, <2>2, Zenon DEF onTimeout, IInv
<1>6. ASSUME NEW b \in DOMAIN buckets, NEW x \in buckets[b], onSend(b, x) PROVE IInv'
  <2>1. GoodBucket(b, Exchange(buckets[b], x, SignalRequest(x, now)))
    BY SendGood, Zenon DEF IInv, GoodTable
  <2>2. GoodTable(buckets')
    BY <1>6, <2>1, UpdateGood, Zenon DEF onSend, IInv
  <2> QED BY <1>6, <2>2, Zenon DEF onSend, IInv
<1>7. ASSUME NEW id \in pinged, pingTimeout(id) PROVE IInv'
  <2>1. GoodTable(buckets')
    BY <1>7, DropGood, Zenon DEF pingTimeout, IInv
  <2> QED BY <1>7, <2>1, Zenon DEF pingTimeout, IInv
<1>8. CASE _maintenance
  BY <1>8, MaintenanceSteps, Zenon
<1>9. CASE save
  <2>1. GoodTable(buckets')
    BY <1>9, EmptyTableGood, Zenon DEF save
  <2>2. GoodQueue(todo')
    BY <1>9, NoTodoGood, GoodTableIsQueue, Zenon DEF save, IInv
  <2> QED BY <1>9, <2>1, <2>2 DEF save, IInv
<1>10. CASE load
  BY <1>10, Zenon DEF load, IInv
<1>11. CASE Tick
  BY <1>11 DEF Tick, IInv
<1>12. CASE UNCHANGED vars
  BY <1>12, Zenon DEF vars, IInv
<1> QED BY <1>1, <1>2, <1>3, <1>4, <1>5, <1>6, <1>7, <1>8, <1>9, <1>10, <1>11, <1>12, Zenon DEF Next

-----------------------------------------------------------------------------
(* The theorems *)

\* Two entries with one id are in the bucket of the id, where they would conflict.
LEMMA GoodTableNoConflicts == IInv => NoConflicts
<1> SUFFICES ASSUME IInv, NEW p \in DOMAIN buckets, NEW q \in DOMAIN buckets,
                    NEW x \in buckets[p], NEW y \in buckets[q], x # y
             PROVE  x.id # y.id /\ (p = q => x.addr # y.addr)
  BY Zenon DEF NoConflicts
<1>1. /\ GoodBucket(p, buckets[p]) /\ GoodBucket(q, buckets[q])
      /\ Partition(DOMAIN buckets)
  BY Zenon DEF IInv, GoodTable
<1>2. x.id \in Ids /\ Covers(p, x.id) /\ Covers(q, y.id)
  BY <1>1, Zenon DEF GoodBucket, Entry, EntryOf
<1>3. x.id = y.id => p = q
  BY <1>1, <1>2, Zenon DEF Partition
<1>4. p = q => ~ Matches(x, y)
  BY <1>1, Zenon DEF GoodBucket
<1> QED BY <1>3, <1>4, Zenon DEF Matches

\* The inductive invariant implies the properties of the table that the runs check.
LEMMA IInvImplies ==
    IInv => TypeOK /\ EntriesInPlace /\ BucketsBounded /\ OnlyVerified
<1> SUFFICES ASSUME IInv PROVE TypeOK /\ EntriesInPlace /\ BucketsBounded /\ OnlyVerified
  BY Zenon
<1>1. TypeOK
  BY Zenon DEF IInv, TypeOK, GoodTable, GoodBucket, GoodQueue
<1>2. EntriesInPlace
  BY Zenon DEF IInv, GoodTable, GoodBucket, Partition, EntriesInPlace
<1>3. BucketsBounded
  BY Zenon DEF IInv, GoodTable, GoodBucket, BucketsBounded
<1>4. OnlyVerified
  BY Zenon DEF IInv, GoodTable, GoodBucket, OnlyVerified, EntriesIn
<1> QED BY <1>1, <1>2, <1>3, <1>4, Zenon

\* The types of RoutingTable hold in every state.
THEOREM TypeCorrect == Spec => []TypeOK
BY InitIInv, NextIInv, IInvImplies, PTL DEF Spec

\* Through splits, merges and reloads the buckets partition the id space
\* (routing_table.cc:113-188), so getBucket finds one bucket for every id, and every
\* entry is in that of its id: the repair at routing_table.cc:219-223 never runs.
THEOREM EntriesStayInPlace == Spec => []EntriesInPlace
BY InitIInv, NextIInv, IInvImplies, PTL DEF Spec

\* No bucket ever exceeds MAX_ENTRIES_PER_BUCKET (kbucket.cc:53-74).
THEOREM CapacityRespected == Spec => []BucketsBounded
BY InitIInv, NextIInv, IInvImplies, PTL DEF Spec

\* An id occurs once in the table, an address once in a bucket (kbucket.cc:36-51).
THEOREM EntriesUnique == Spec => []NoConflicts
BY InitIInv, NextIInv, GoodTableNoConflicts, PTL DEF Spec

\* Only nodes that have answered a call are ever in the table (kbucket.cc:53).
THEOREM TableVerified == Spec => []OnlyVerified
BY InitIInv, NextIInv, IInvImplies, PTL DEF Spec

\* The four together: the table is sound in every state, for every length of ids, capacity
\* of buckets and set of peers (routing_table.cc:57-302).
THEOREM TableStaysSound == Spec => []TableSound
<1>1. IInv => TableSound
  BY IInvImplies, GoodTableNoConflicts, Zenon DEF TableSound
<1> QED BY <1>1, InitIInv, NextIInv, PTL DEF Spec

-----------------------------------------------------------------------------
(* Newcomers *)

\* No entry was created in the future.
NotFuture(t) == \A p \in DOMAIN t : \A x \in t[p] : x.created <= now

\* What a message puts was created by it, just now: nothing in the table is younger.
Aged ==
    /\ NotFuture(buckets) /\ NotFuture(todo)
    /\ mode = "put" => \A p \in DOMAIN todo : \A x \in todo[p] : x.created = now

\* A merge takes the older of two dates.
LEMMA MergeEntryAge ==
    ASSUME NEW x \in Entry, NEW e \in Entry
    PROVE  MergeEntry(x, e).created <= x.created
<1>1. x.created \in Nat /\ e.created \in Nat BY Zenon DEF Entry, EntryOf
<1>2. MergeEntry(x, e).created = Smaller(x.created, e.created)
  BY Zenon DEF MergeEntry, Entry, EntryOf
<1> QED BY <1>1, <1>2 DEF Smaller

\* KBucket::_put leaves no entry younger than what was there and what is put.
LEMMA PutAge ==
    ASSUME NEW S, S \subseteq Entry, NEW e \in Entry, NEW t \in Nat, NEW T \in PutSet(S, e, t),
           \A x \in S : x.created <= t, e.created <= t, NEW y \in T
    PROVE  y.created <= t
<1>1. y \in S \/ y = e \/ \E x \in S : y = MergeEntry(x, e)
  BY DEF PutSet, Exchange, Oldest, Youngest, Bad
<1>2. ASSUME NEW x \in S PROVE MergeEntry(x, e).created <= t
  <2>1. MergeEntry(x, e) \in Entry /\ MergeEntry(x, e).created <= x.created
    BY MergeEntryAge, MergeEntryType, Zenon
  <2>2. MergeEntry(x, e).created \in Nat /\ x.created \in Nat BY <2>1, Zenon DEF Entry, EntryOf
  <2> QED BY <2>1, <2>2
<1> QED BY <1>1, <1>2, Zenon

\* KBucket::_put of an entry that is not older than those of the bucket removes none but
\* a bad one: the last branch, which prefers the older of two entries, keeps what is there.
LEMMA PutEvicts ==
    ASSUME NEW S, S \subseteq Entry, NEW e \in Entry, NEW t \in Nat, NEW T \in PutSet(S, e, t),
           \A y \in S : y.created <= e.created, NEW x \in S
    PROVE  (\E y \in T : y.id = x.id) \/ NeedsReplacement(x, t)
<1>1. CASE \E y \in S : Matches(y, e)
  <2>1. PICK y \in S : T = (IF Equals(y, e) THEN Exchange(S, y, MergeEntry(y, e)) ELSE S)
    BY <1>1, Zenon DEF PutSet
  <2>2. MergeEntry(y, e).id = y.id BY MergeEntryType, Zenon
  <2> QED BY <2>1, <2>2, Zenon DEF Exchange
<1>2. CASE (~ \E y \in S : Matches(y, e)) /\ (~ e.reachable \/ ~ IsFull(S))
  <2>1. S \subseteq T BY <1>2, Zenon DEF PutSet
  <2> QED BY <2>1, Zenon
<1>3. CASE (~ \E y \in S : Matches(y, e)) /\ e.reachable /\ IsFull(S) /\ Bad(S, t) # {}
  <2>1. PICK y \in Oldest(Bad(S, t)) : T = Exchange(S, y, e) BY <1>3, Zenon DEF PutSet
  <2>2. NeedsReplacement(y, t) BY Zenon DEF Oldest, Bad
  <2> QED BY <2>1, <2>2, Zenon DEF Exchange
<1>4. CASE (~ \E y \in S : Matches(y, e)) /\ e.reachable /\ IsFull(S) /\ Bad(S, t) = {}
  <2>1. PICK y \in Youngest(S) : T = (IF y.created > e.created THEN Exchange(S, y, e) ELSE S)
    BY <1>4, Zenon DEF PutSet
  <2>2. y \in S /\ y.created <= e.created BY Zenon DEF Youngest
  <2>3. y.created \in Nat /\ e.created \in Nat BY <2>2, Zenon DEF Entry, EntryOf
  <2>4. T = S BY <2>1, <2>2, <2>3
  <2> QED BY <2>4, Zenon
<1> QED BY <1>1, <1>2, <1>3, <1>4, Zenon

\* The repair of misplaced entries has nothing to put.
LEMMA NothingMisplaced == IInv => \A p \in DOMAIN buckets : Misplaced(p) = {}
BY Zenon DEF IInv, GoodTable, GoodBucket, Misplaced

\* _put, with what it does to the one bucket it changes.
LEMMA PutOne ==
    ASSUME IInv, Aged, _put
    PROVE  \E b \in DOMAIN buckets, e \in Entry : \E S \in PutSet(buckets[b], e, now) :
              /\ buckets' = [buckets EXCEPT ![b] = S]
              /\ e.created <= now /\ (mode = "put" => e.created = now)
              /\ \E p \in DOMAIN todo : todo' = Rest(todo, p, e)
<1>1. PICK p \in DOMAIN todo, e \in EntriesIn(todo), b \in DOMAIN buckets :
            /\ \E S \in PutSet(buckets[b], e, now) : buckets' = [buckets EXCEPT ![b] = S]
            /\ todo' = Rest(todo, p, e)
  BY Zenon DEF _put
<1>2. e \in Entry /\ e.created <= now /\ (mode = "put" => e.created = now)
  BY Zenon DEF IInv, GoodQueue, EntriesIn, Aged, NotFuture
<1> QED BY <1>1, <1>2, Zenon

\* Every step keeps the ages.
LEMMA NextAged == IInv /\ Aged /\ [Next]_vars => Aged'
<1> SUFFICES ASSUME IInv, Aged, [Next]_vars PROVE Aged'
  BY Zenon
<1>a. now \in Nat /\ \A p \in DOMAIN buckets : buckets[p] \subseteq Entry
  BY Zenon DEF IInv, GoodTable, GoodBucket
<1>b. ASSUME now' = now, mode' # "put", NotFuture(buckets)', todo' = todo \/ todo' = NoTodo
      PROVE  Aged'
  BY <1>b, Zenon DEF Aged, NotFuture, NoTodo
<1>1. ASSUME _split PROVE Aged'
  <2>1. PICK b \in DOMAIN buckets : buckets' = SplitTable(b) BY <1>1, Zenon DEF _split
  <2>2. NotFuture(buckets)'
    <3>1. ASSUME NEW q \in DOMAIN SplitTable(b)
          PROVE  \/ SplitTable(b)[q] \subseteq buckets[b]
                 \/ q \in DOMAIN buckets /\ SplitTable(b)[q] = buckets[q]
      <4>1. CASE q = Branch(b, 0) BY <4>1, Zenon DEF SplitTable
      <4>2. CASE q # Branch(b, 0) /\ q = Branch(b, 1) BY <4>2, Zenon DEF SplitTable
      <4>3. CASE q # Branch(b, 0) /\ q # Branch(b, 1) BY <4>3, Zenon DEF SplitTable
      <4> QED BY <4>1, <4>2, <4>3, Zenon
    <3> QED BY <1>1, <2>1, <3>1, Zenon DEF _split, NotFuture, Aged
  <2> QED BY <1>1, <2>2, Zenon DEF _split, Aged, NotFuture
<1>2. ASSUME _put PROVE Aged'
  <2>1. PICK b \in DOMAIN buckets, e \in Entry : \E S \in PutSet(buckets[b], e, now) :
              /\ buckets' = [buckets EXCEPT ![b] = S]
              /\ e.created <= now /\ (mode = "put" => e.created = now)
              /\ \E p \in DOMAIN todo : todo' = Rest(todo, p, e)
    BY <1>2, PutOne, Zenon
  <2>2. PICK S \in PutSet(buckets[b], e, now) : buckets' = [buckets EXCEPT ![b] = S] BY <2>1, Zenon
  <2>3. PICK p \in DOMAIN todo : todo' = Rest(todo, p, e) BY <2>1, Zenon
  <2>4. now' = now /\ mode' \in {mode, "idle"} BY <1>2, Zenon DEF _put
  <2>5. \A y \in S : y.created <= now
    <3>1. \A x \in buckets[b] : x.created <= now BY Zenon DEF Aged, NotFuture
    <3> QED BY <1>a, <2>1, <3>1, PutAge, Zenon
  <2>6. NotFuture(buckets)' BY <2>2, <2>4, <2>5, Zenon DEF Aged, NotFuture
  <2>7. DOMAIN todo' \subseteq DOMAIN todo /\ \A q \in DOMAIN todo' : todo'[q] \subseteq todo[q]
    <3>1. CASE todo' = NoTodo BY <3>1, Zenon DEF NoTodo
    <3>2. CASE todo' = [todo EXCEPT ![p] = @ \ {e}] BY <3>2, Zenon
    <3> QED BY <2>3, <3>1, <3>2, Zenon DEF Rest
  <2> QED BY <2>4, <2>6, <2>7, Zenon DEF Aged, NotFuture
<1>3. ASSUME NEW p \in Prefixes, _mergeBuckets(p) PROVE Aged'
  <2> DEFINE l == Branch(p, 0)
             h == Branch(p, 1)
  <2>1. l \in DOMAIN buckets /\ h \in DOMAIN buckets BY <1>3, Zenon DEF _mergeBuckets, Mergeable
  <2>2. /\ buckets' = [q \in (DOMAIN buckets \ {l, h}) \cup {p} |->
                          IF q = p THEN buckets[l] ELSE buckets[q]]
        /\ todo' = NoTodo \/ todo' = [q \in {h} |-> buckets[h]]
        /\ now' = now /\ mode' = "merge"
    BY <1>3, Zenon DEF _mergeBuckets
  <2> HIDE DEF l, h
  <2>3. NotFuture(buckets)' BY <2>1, <2>2, Zenon DEF Aged, NotFuture
  <2>4. NotFuture(todo)' BY <2>1, <2>2, Zenon DEF Aged, NotFuture, NoTodo
  <2> QED BY <2>2, <2>3, <2>4, Zenon DEF Aged
<1>4. ASSUME scrub PROVE Aged'
  <2>1. UNION {Misplaced(p) : p \in DOMAIN buckets} = {} BY NothingMisplaced, Zenon
  <2>2. mode' = "idle" /\ todo' = NoTodo /\ now' = now BY <1>4, <2>1, Zenon DEF scrub
  <2>3. NotFuture(buckets)' BY <1>4, <2>2 DEF scrub, Aged, NotFuture
  <2> QED BY <1>b, <2>2, <2>3, Zenon
<1>5. ASSUME NEW n \in Peers, NEW e, e.created = now, received(n, e) PROVE Aged'
  BY <1>a, <1>5 DEF received, Aged, NotFuture
<1>6. ASSUME NEW n \in Peers, receivedRequest(n) PROVE Aged'
  <2>1. EntryOfRequest(n.id, n.addr, now).created = now BY Zenon DEF EntryOfRequest, NewEntry
  <2> QED BY <1>5, <1>6, <2>1, Zenon DEF receivedRequest
<1>7. ASSUME NEW n \in Peers, NEW sent \in {now, now - 1}, receivedResponse(n, sent) PROVE Aged'
  <2>1. EntryOfResponse(n.id, n.addr, now, sent).created = now
    BY Zenon DEF EntryOfResponse, MergeRequestTime, SignalResponse, NewEntry
  <2> QED BY <1>5, <1>7, <2>1, Zenon DEF receivedResponse
<1>8. ASSUME NEW id, buckets' = Drop(buckets, id), mode = "idle", UNCHANGED <<now, mode, todo>>
      PROVE  Aged'
  <2>1. NotFuture(buckets)' BY <1>8, Zenon DEF Drop, Aged, NotFuture
  <2> QED BY <1>b, <1>8, <2>1, Zenon
<1>9. ASSUME NEW b \in DOMAIN buckets, NEW x \in buckets[b], onTimeout(b, x) \/ onSend(b, x)
      PROVE  Aged'
  <2>1. /\ SignalRequestTimeout(x).created = x.created
        /\ SignalRequest(x, now).created = x.created
    BY <1>a, Zenon DEF SignalRequestTimeout, SignalRequest, Entry, EntryOf
  <2>2. /\ now' = now /\ mode' = mode /\ mode = "idle" /\ todo' = todo
        /\ \E S : /\ buckets' = [buckets EXCEPT ![b] = S]
                  /\ \A y \in S : y \in buckets[b] \/ y.created = x.created
    BY <1>9, <2>1 DEF onTimeout, onSend, TimeoutSet, Exchange
  <2>3. NotFuture(buckets)' BY <2>2, Zenon DEF Aged, NotFuture
  <2> QED BY <1>b, <2>2, <2>3, Zenon
<1>10. ASSUME _maintenance PROVE Aged'
  BY <1>10, <1>b, Zenon DEF _maintenance, Aged, NotFuture
<1>11. ASSUME save PROVE Aged'
  BY <1>11, Zenon DEF save, Aged, NotFuture, NoTodo
<1>12. ASSUME load PROVE Aged'
  BY <1>12, Zenon DEF load, Aged, NotFuture
<1>13. ASSUME Tick PROVE Aged'
  <2>1. ASSUME NEW x \in Entry, x.created <= now PROVE x.created <= now'
    <3>1. x.created \in Nat BY Zenon DEF Entry, EntryOf
    <3> QED BY <1>a, <1>13, <2>1, <3>1 DEF Tick
  <2>2. \A p \in DOMAIN todo : todo[p] \subseteq Entry BY Zenon DEF IInv, GoodQueue
  <2> QED BY <1>13, <1>a, <2>1, <2>2, Zenon DEF Tick, Aged, NotFuture
<1>14. CASE UNCHANGED vars
  BY <1>14, Zenon DEF vars, Aged, NotFuture
<1>15. ASSUME NEW n \in Peers, receivedIdChange(n) PROVE Aged'
  BY <1>8, <1>15, Zenon DEF receivedIdChange, AcceptsMessage
<1>16. ASSUME NEW id \in pinged, pingTimeout(id) PROVE Aged'
  BY <1>8, <1>16, Zenon DEF pingTimeout
<1> QED
  BY <1>1, <1>2, <1>3, <1>4, <1>6, <1>7, <1>9, <1>10, <1>11, <1>12, <1>13, <1>14, <1>15, <1>16
  DEF Next, LoopStep

\* What a message puts never pushes a node out of the table that is not bad, through all
\* the splits it leads to (routing_table.cc:57-67, kbucket.cc:32-74): for any capacity,
\* any thresholds and any ids.
THEOREM GoodNeverEvicted == Spec => NewcomersNeverEvictGood
<1>1. Init => Aged
  BY Zenon DEF Init, Aged, NotFuture, NoTodo
<1>2. ASSUME IInv, Aged, [Next]_vars
      PROVE  [mode = "put" =>
                \A x \in EntriesIn(buckets) :
                   x.id \notin IdsIn(buckets') => NeedsReplacement(x, now)]_vars
  <2> SUFFICES ASSUME mode = "put", Next, NEW q \in DOMAIN buckets, NEW x \in buckets[q]
               PROVE  x.id \in IdsIn(buckets') \/ NeedsReplacement(x, now)
    BY <1>2, Zenon DEF EntriesIn
  <2>a. ASSUME NEW r \in DOMAIN buckets', NEW y \in buckets'[r], y.id = x.id
        PROVE  x.id \in IdsIn(buckets')
    BY <2>a, Zenon DEF IdsIn, EntriesIn
  <2>1. _split \/ _put
    BY Zenon DEF Next, LoopStep, _mergeBuckets, scrub, receivedIdChange, receivedRequest,
           receivedResponse, received, AcceptsMessage, onTimeout, onSend, pingTimeout,
           _maintenance, save, load, Tick
  <2>2. CASE _split
    <3>1. PICK b \in DOMAIN buckets : buckets' = SplitTable(b) /\ Splittable(b)
      BY <2>2, Zenon DEF _split, _needsSplit
    <3>2. \E r \in DOMAIN SplitTable(b) : x \in SplitTable(b)[r]
      <4> DEFINE l == Branch(b, 0)
                 h == Branch(b, 1)
      <4>1. l # h BY <1>2, <3>1, BranchProperties, Zenon DEF IInv, GoodTable
      <4>2. CASE q = b /\ Covers(l, x.id)
        <5>1. l \in DOMAIN SplitTable(b) /\ x \in SplitTable(b)[l]
          BY <4>1, <4>2, Zenon DEF SplitTable
        <5> QED BY <5>1, Zenon
      <4>3. CASE q = b /\ ~ Covers(l, x.id)
        <5>1. h \in DOMAIN SplitTable(b) /\ x \in SplitTable(b)[h]
          BY <4>1, <4>3, Zenon DEF SplitTable
        <5> QED BY <5>1, Zenon
      <4>4. CASE q # b
        <5>1. q # l /\ q # h
          <6>1. b \in Prefixes /\ q \in Prefixes /\ GoodBucket(q, buckets[q])
                /\ Partition(DOMAIN buckets)
            BY <1>2, Zenon DEF IInv, GoodTable
          <6>2. x.id \in Ids /\ Covers(q, x.id) BY <6>1, Zenon DEF GoodBucket, Entry, EntryOf
          <6>3. \A id \in Ids : Covers(l, id) \/ Covers(h, id) => Covers(b, id)
            BY <3>1, <6>1, BranchProperties, Zenon
          <6> QED BY <4>4, <6>1, <6>2, <6>3, Zenon DEF Partition
        <5>2. q \in DOMAIN SplitTable(b) /\ SplitTable(b)[q] = buckets[q]
          BY <4>4, <5>1, Zenon DEF SplitTable
        <5> QED BY <5>2, Zenon
      <4> QED BY <4>2, <4>3, <4>4, Zenon
    <3> QED BY <2>a, <3>1, <3>2, Zenon
  <2>3. CASE _put
    <3>1. PICK b \in DOMAIN buckets, e \in Entry : \E S \in PutSet(buckets[b], e, now) :
             buckets' = [buckets EXCEPT ![b] = S] /\ e.created = now
      BY <1>2, <2>3, PutOne, Zenon
    <3>2. PICK S \in PutSet(buckets[b], e, now) : buckets' = [buckets EXCEPT ![b] = S]
      BY <3>1, Zenon
    <3>3. /\ DOMAIN buckets' = DOMAIN buckets /\ buckets'[b] = S
          /\ \A r \in DOMAIN buckets \ {b} : buckets'[r] = buckets[r]
      BY <3>2, Zenon
    <3>4. CASE q # b BY <2>a, <3>3, <3>4, Zenon
    <3>5. CASE q = b
      <4>1. buckets[b] \subseteq Entry /\ now \in Nat BY <1>2, Zenon DEF IInv, GoodTable, GoodBucket
      <4>2. \A y \in buckets[b] : y.created <= e.created BY <1>2, <3>1, Zenon DEF Aged, NotFuture
      <4>3. (\E y \in S : y.id = x.id) \/ NeedsReplacement(x, now)
        BY <3>5, <4>1, <4>2, PutEvicts, Zenon
      <4> QED BY <2>a, <3>3, <4>3, Zenon
    <3> QED BY <3>4, <3>5, Zenon
  <2> QED BY <2>1, <2>2, <2>3, Zenon
<1> QED BY <1>1, <1>2, InitIInv, NextIInv, NextAged, PTL DEF Spec, NewcomersNeverEvictGood
=============================================================================
