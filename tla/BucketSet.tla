----------------------------- MODULE BucketSet ------------------------------
(***************************************************************************)
(* A k-bucket as the set of its entries: what putting an entry may do to   *)
(* it.  The list of KBucket is ordered by creation time, so its first bad  *)
(* and its last entry are a bad entry of least and an entry of greatest    *)
(* creation time; entries created in the same millisecond may stand either *)
(* way round, hence a set of possible results.  KBucket is shown to        *)
(* implement this, RoutingTable is built on it.                            *)
(***************************************************************************)
EXTENDS KBucketEntry, FiniteSets

CONSTANT MAX_ENTRIES_PER_BUCKET

ASSUME BucketAssumption == MAX_ENTRIES_PER_BUCKET \in Nat \ {0}

Oldest(S) == {x \in S : \A y \in S : x.created <= y.created}

Youngest(S) == {x \in S : \A y \in S : x.created >= y.created}

IsFull(S) == Cardinality(S) >= MAX_ENTRIES_PER_BUCKET

Bad(S, now) == {x \in S : NeedsReplacement(x, now)}

Exchange(S, out, in) == (S \ {out}) \cup {in}

MutPutSetDisplacesYoungest(S, e, now) ==
    IF \E x \in S : Matches(x, e) THEN {S}
    ELSE IF ~ e.reachable THEN {S}
    ELSE IF ~ IsFull(S)   THEN {S \cup {e}}
    ELSE {Exchange(S, y, e) : y \in Youngest(S)}

PutSet(S, e, now) ==
    IF \E x \in S : Matches(x, e)
    THEN {IF Equals(x, e) THEN Exchange(S, x, MergeEntry(x, e)) ELSE S :
             x \in {y \in S : Matches(y, e)}}
    ELSE IF ~ e.reachable THEN {S}
    ELSE IF ~ IsFull(S)   THEN {S \cup {e}}
    ELSE IF Bad(S, now) # {}
         THEN {Exchange(S, x, e) : x \in Oldest(Bad(S, now))}
    ELSE {IF y.created > e.created THEN Exchange(S, y, e) ELSE S : y \in Youngest(S)}

\* KBucket::_onTimeout on the entry x of S.
TimeoutSet(S, x, now) ==
    LET e == SignalRequestTimeout(x)
    IN  IF NeedsReplacement(e, now) THEN S \ {x} ELSE Exchange(S, x, e)
=============================================================================
