---------------------------- MODULE KClosestNodes ----------------------------
(***************************************************************************)
(* The list of buckets of the routing table as the code walks it:          *)
(* RoutingTable::indexOf (a binary search) and KClosestNodes::fill (which  *)
(* walks outwards from the bucket of the target).  Buckets are split and   *)
(* merged as RoutingTable does it; here every bucket may split, not only   *)
(* those the table would split.  The entries are those that the filter     *)
(* lets pass.                                                              *)
(***************************************************************************)
EXTENDS Keyspace, Sequences, SequencesExt

CONSTANTS maxEntries,      \* K
          BootstrapNodes,  \* the ids of the bootstrap nodes of the configuration
          Self,            \* the id of the node
          Known,           \* the ids of the nodes that the table gets to know
          MaxBuckets       \* bound: buckets in the list

ASSUME KClosestNodesAssumption ==
    /\ maxEntries \in Nat \ {0} /\ MaxBuckets \in Nat
    /\ BootstrapNodes \subseteq Id /\ Known \subseteq Id /\ Self \in Id

VARIABLES buckets,         \* the prefixes, sorted
          ids              \* the eligible entries

\* insertEntries.
Entries(i) == {id \in ids : isPrefixOf(buckets[i], id)}

Init == buckets = <<Prefix(MIN_ID, -1)>> /\ ids = {}

\* _split: the branches take the place of the bucket.
split(i) ==
    /\ isSplittable(buckets[i]) /\ Len(buckets) < MaxBuckets
    /\ buckets' = SubSeq(buckets, 1, i - 1)
                    \o <<splitBranch(buckets[i], FALSE), splitBranch(buckets[i], TRUE)>>
                    \o SubSeq(buckets, i + 1, Len(buckets))
    /\ UNCHANGED ids

\* _mergeBuckets: two neighbours that are siblings become their parent.
merge(i) ==
    /\ i < Len(buckets) /\ isSiblingOf(buckets[i], buckets[i + 1])
    /\ buckets' = SubSeq(buckets, 1, i - 1) \o <<getParent(buckets[i])>>
                    \o SubSeq(buckets, i + 2, Len(buckets))
    /\ UNCHANGED ids

put(id) == ids' = ids \cup {id} /\ UNCHANGED buckets

remove(id) == id \in ids /\ ids' = ids \ {id} /\ UNCHANGED buckets

-----------------------------------------------------------------------------
\* One round of the binary search; s is [low, high, mid, cmp, found].
Probe(s, id) ==
    LET mid == (s.low + s.high) \div 2
        cmp == compareTo(id, buckets[mid + 1].bits)
    IN  [low |-> IF cmp > 0 THEN mid + 1 ELSE s.low,
         high |-> IF cmp < 0 THEN mid - 1 ELSE s.high,
         mid |-> mid, cmp |-> cmp, found |-> cmp = 0]

Search(s, id) == IF s.found \/ s.low > s.high THEN s ELSE Probe(s, id)

\* RoutingTable::indexOf; the code counts from 0. There are at most Len(buckets) rounds.
indexOf(id) ==
    LET s == FoldLeft(LAMBDA t, i : Search(t, id),
                      [low |-> 0, high |-> Len(buckets) - 1, mid |-> 0, cmp |-> 0, found |-> FALSE],
                      [i \in 1..Len(buckets) |-> i])
    IN  (IF s.cmp < 0 THEN s.mid - 1 ELSE s.mid) + 1

\* One round of the walk; w is [low, high, entries].
MutWalk(w, target) ==
    LET lows == w.low > 1
        highs == w.high < Len(buckets)
        dir == IF lows /\ highs
               THEN threeWayCompare(target, first(buckets[w.high + 1]), last(buckets[w.low - 1]))
               ELSE IF lows THEN -1 ELSE 1
        l == IF lows /\ dir <= 0 THEN w.low - 1 ELSE w.low
        h == IF highs /\ dir >= 0 THEN w.high + 1 ELSE w.high
    IN  IF Cardinality(w.entries) >= maxEntries THEN w
        ELSE [low |-> l, high |-> h, entries |-> UNION {Entries(i) : i \in l..h}]

Walk(w, target) ==
    LET lows == w.low > 1
        highs == w.high < Len(buckets)
        dir == IF lows /\ highs
               THEN threeWayCompare(target, last(buckets[w.low - 1]), first(buckets[w.high + 1]))
               ELSE IF lows THEN -1 ELSE 1
        l == IF lows /\ dir <= 0 THEN w.low - 1 ELSE w.low
        h == IF highs /\ dir >= 0 THEN w.high + 1 ELSE w.high
    IN  IF Cardinality(w.entries) >= maxEntries THEN w
        ELSE [low |-> l, high |-> h, entries |-> UNION {Entries(i) : i \in l..h}]

\* Only the closest maxEntries stay. Nothing is sorted when there are no more than that.
shave(entries, target) ==
    IF Len(entries) <= maxEntries THEN entries
    ELSE SubSeq(SortSeq(entries, LAMBDA a, b : threeWayCompare(target, a, b) < 0), 1, maxEntries)

\* The bootstrap nodes, and the node itself, are added when there are not enough entries,
\* whether or not they are among them already.
fill(target, includeSelf) ==
    LET i == indexOf(target)
        w == FoldLeft(LAMBDA v, k : Walk(v, target),
                      [low |-> i, high |-> i, entries |-> Entries(i)],
                      [k \in 1..Len(buckets) |-> k])
        found == SetToSeq(w.entries)
        more == IF Len(found) < maxEntries THEN found \o SetToSeq(BootstrapNodes) ELSE found
    IN  shave(IF Len(more) < maxEntries /\ includeSelf THEN Append(more, Self) ELSE more, target)

-----------------------------------------------------------------------------
Next ==
    \/ \E i \in 1..Len(buckets) : split(i) \/ merge(i)
    \/ \E id \in Known : put(id) \/ remove(id)

Spec == Init /\ [][Next]_<<buckets, ids>>

-----------------------------------------------------------------------------
(* What ids and prefixes mean: the number an id is, and its bits. *)

Number(id) == MapThenSumSet(LAMBDA i : id[i] * 2^(BYTE_BITS * (ID_BYTES - 1 - i)), DOMAIN id)

BitOf(id, n) == (Number(id) \div 2^(ID_BITS - 1 - n)) % 2

Agree(a, b, n) == \A i \in 0..n : BitOf(a, i) = BitOf(b, i)

Closer(target, a, b) == Number(distance(target, a)) < Number(distance(target, b))

-----------------------------------------------------------------------------
(* Properties. *)

\* fill finds as many entries of the table as there are, up to maxEntries, in whatever
\* direction they lie, and resorts to the bootstrap nodes and to itself only when the
\* table has not enough. An entry left out has no longer prefix in common with the target
\* than any that is handed out, and is farther away, by the number that the XOR of the ids
\* is, than any that is handed out from the target's own bucket: when that bucket has
\* enough, the answer is the maxEntries closest. In general it is not. The walk takes the
\* buckets of a neighbouring subtree in the order of the list and may have enough before
\* it comes to the closest: of 0000, 0011 and 0101 in the buckets 000, 001, 01 and 1 the
\* two for 0101 are 0101 and 0011, though 0000 is closer than 0011.
FillsClosest ==
    \A target \in Id, includeSelf \in BOOLEAN :
       LET answer == fill(target, includeSelf)
       IN  /\ IF Cardinality(ids) >= maxEntries
              THEN Range(answer) \subseteq ids /\ Cardinality(Range(answer)) = maxEntries
              ELSE /\ Len(answer) <= maxEntries
                   /\ Cardinality(ids) + Cardinality(BootstrapNodes) <= maxEntries
                         => ids \cup BootstrapNodes \subseteq Range(answer)
           /\ \A a \in Range(answer) \cap ids, b \in ids \ Range(answer) :
                 /\ \A n \in 0..ID_BITS - 1 : Agree(target, b, n) => Agree(target, a, n)
                 /\ a \in Entries(indexOf(target)) => Closer(target, a, b)

\* The prefix of a bucket fixes exactly its bits, across byte boundaries: isPrefixOf
\* compares those, the ids under it are the numbers from first to last, createRandomId
\* keeps the random bits beyond them; and its branches share its ids out among them, are
\* siblings and have it as their parent, so splitting and merging are inverse. The binary
\* search over the first ids of the buckets finds the bucket that an id is under, in every
\* list that splitting and merging can leave (id.cc, prefix.cc, RoutingTable::indexOf).
PrefixesExact ==
    /\ \A i \in 1..Len(buckets), y \in Id :
         LET p == buckets[i]
             low == splitBranch(p, FALSE)
             high == splitBranch(p, TRUE)
             random == createRandomId(p, y)
         IN  /\ isPrefixOf(p, y) <=> Agree(p.bits, y, p.depth)
             /\ isPrefixOf(p, y) <=> Number(first(p)) <= Number(y) /\ Number(y) <= Number(last(p))
             /\ Agree(p.bits, random, p.depth)
             /\ \A n \in p.depth + 1..ID_BITS - 1 : BitOf(random, n) = BitOf(y, n)
             /\ isSplittable(p) =>
                   /\ isPrefixOf(p, y) <=> isPrefixOf(low, y) \/ isPrefixOf(high, y)
                   /\ ~ (isPrefixOf(low, y) /\ isPrefixOf(high, y))
                   /\ isSiblingOf(low, high)
                   /\ getParent(low) = p /\ getParent(high) = p
    /\ \A id \in Id : isPrefixOf(buckets[indexOf(id)], id)
=============================================================================
