------------------------------ MODULE KBucket -------------------------------
(***************************************************************************)
(* One k-bucket as the list the code keeps (src/core/kbucket.cc): put,     *)
(* replacement of bad entries, displacement of younger ones, the re-sort   *)
(* after an unordered insertion, timeouts and sends.                       *)
(***************************************************************************)
EXTENDS BucketSet, SequencesExt

CONSTANTS Ids, Addrs,
          MaxTime,        \* bound: the clock stops there
          MaxFailures     \* bound: no timeout of an entry beyond this many

VARIABLES entries,   \* the list
          now

vars == <<entries, now>>

Entry == EntryOf(Ids, Addrs)

Init ==
    /\ entries = <<>>
    /\ now = 1

-----------------------------------------------------------------------------
IdsOf(s) == {e.id : e \in ToSet(s)}

\* std::list::sort is stable: the inserted element goes behind its equals.
SortedInsert(s, e) ==
    SelectSeq(s, LAMBDA x : x.created <= e.created) \o <<e>>
        \o SelectSeq(s, LAMBDA x : x.created > e.created)

\* _update(nullptr or removed, toInsert), s being the list after the removal.
Inserted(s, e) ==
    LET wasFull   == Len(s) >= MAX_ENTRIES_PER_BUCKET
        unordered == s # <<>> /\ e.created < Last(s).created
    IN  IF unordered THEN SortedInsert(s, e)
        ELSE IF wasFull THEN s ELSE Append(s, e)

\* _update(toRemove, toInsert): nothing happens if the new entry matches any
\* entry, the one to be removed included.
UpdateBucket(s, r, e) ==
    IF \E x \in ToSet(s) : Matches(e, x) THEN s
    ELSE Inserted(IF r = 0 THEN s ELSE RemoveAt(s, r), e)

MutPutReplacesLastBad(s, e, t) ==
    LET same == SelectInSeq(s, LAMBDA x : Matches(x, e))
        bad  == SelectLastInSeq(s, LAMBDA x : NeedsReplacement(x, t))
    IN  CASE same # 0 -> IF Equals(s[same], e)
                         THEN [s EXCEPT ![same] = MergeEntry(@, e)] ELSE s
          [] same = 0 /\ ~ e.reachable -> s
          [] same = 0 /\ e.reachable ->
               IF Len(s) < MAX_ENTRIES_PER_BUCKET THEN UpdateBucket(s, 0, e)
               ELSE IF bad # 0 THEN UpdateBucket(s, bad, e)
               ELSE IF Last(s).created > e.created
                    THEN UpdateBucket(s, Len(s), e)
               ELSE s

PutBucket(s, e, t) ==
    LET same == SelectInSeq(s, LAMBDA x : Matches(x, e))
        bad  == SelectInSeq(s, LAMBDA x : NeedsReplacement(x, t))
    IN  CASE same # 0 -> IF Equals(s[same], e)
                         THEN [s EXCEPT ![same] = MergeEntry(@, e)] ELSE s
          [] same = 0 /\ ~ e.reachable -> s
          [] same = 0 /\ e.reachable ->
               IF Len(s) < MAX_ENTRIES_PER_BUCKET THEN UpdateBucket(s, 0, e)
               ELSE IF bad # 0 THEN UpdateBucket(s, bad, e)
               ELSE IF Last(s).created > e.created
                    THEN UpdateBucket(s, Len(s), e)
               ELSE s

-----------------------------------------------------------------------------
\* DHT::received puts a fresh entry; a request does not prove reachability.
putRequest(i, a) ==
    /\ entries' = PutBucket(entries, EntryOfRequest(i, a, now), now)
    /\ UNCHANGED now

putResponse(i, a, sent) ==
    /\ entries' = PutBucket(entries, EntryOfResponse(i, a, now, sent), now)
    /\ UNCHANGED now

\* An entry that comes from the cache file or from a sibling bucket (load,
\* _split, _mergeBuckets) has a past, and its id is in no other place.
putMoved(i, a, c) ==
    /\ i \notin IdsOf(entries)
    /\ entries' = PutBucket(entries, SignalResponse(NewEntry(i, a, c), c), now)
    /\ UNCHANGED now

_onTimeout(i) ==
    LET k == SelectInSeq(entries, LAMBDA x : x.id = i)
        e == SignalRequestTimeout(entries[k])
    IN  /\ k # 0
        /\ entries[k].failedRequests < MaxFailures
        /\ entries' = IF NeedsReplacement(e, now)
                      THEN RemoveAt(entries, k) ELSE [entries EXCEPT ![k] = e]
        /\ UNCHANGED now

_onSend(i) ==
    LET k == SelectInSeq(entries, LAMBDA x : x.id = i)
    IN  /\ k # 0
        /\ entries' = [entries EXCEPT ![k] = SignalRequest(@, now)]
        /\ UNCHANGED now

\* RoutingTable::_remove: _removeIfBad(entry, force = true).
removeForced(i) ==
    LET k == SelectInSeq(entries, LAMBDA x : x.id = i)
    IN  /\ k # 0
        /\ entries' = RemoveAt(entries, k)
        /\ UNCHANGED now

Tick == now < MaxTime /\ now' = now + 1 /\ UNCHANGED entries

Next ==
    \/ Tick
    \/ \E i \in Ids, a \in Addrs :
         \/ putRequest(i, a)
         \/ \E sent \in {now, now - 1} : putResponse(i, a, sent)
         \/ \E c \in 1..now : putMoved(i, a, c)
    \/ \E i \in Ids : _onTimeout(i) \/ _onSend(i) \/ removeForced(i)

Spec == Init /\ [][Next]_vars

-----------------------------------------------------------------------------
\* The list implements the bucket of BucketSet: whatever entry of a message, of the cache
\* file or of a sibling bucket is put next (kbucket.cc:32-152). It stays ordered by creation
\* time through merges, replacements and displacements, so that its last element is the
\* youngest, the one that put may displace (kbucket.cc:64-73, 128-146). The comment of the
\* class says otherwise, "sorted by time last seen" with "the last the most recently seen"
\* (kbucket.h:43-44): an entry that is seen again keeps its place, so that is not so.
ListImplementsSet ==
    /\ \A i \in Ids, a \in Addrs, c \in 1..now :
         LET e == SignalResponse(NewEntry(i, a, c), c)
         IN  (c = now \/ i \notin IdsOf(entries))
             => ToSet(PutBucket(entries, e, now)) \in PutSet(ToSet(entries), e, now)
    /\ \A j, k \in DOMAIN entries : j < k => entries[j].created <= entries[k].created
=============================================================================
