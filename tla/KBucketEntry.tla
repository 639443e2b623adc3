---------------------------- MODULE KBucketEntry ----------------------------
(***************************************************************************)
(* An entry of a k-bucket: a node (id and address) with the times and the  *)
(* failure count the routing table judges it by (src/core/kbucket_entry.h, *)
(* kbucket_entry.cc).  Entries are values; the clock is a parameter.       *)
(***************************************************************************)
EXTENDS Naturals

CONSTANTS KBUCKET_MAX_TIMEOUTS,
          KBUCKET_OLD_AND_STALE_TIMEOUTS,
          KBUCKET_OLD_AND_STALE_TIME

ASSUME EntryAssumption ==
    /\ KBUCKET_MAX_TIMEOUTS \in Nat
    /\ KBUCKET_OLD_AND_STALE_TIMEOUTS \in Nat
    /\ KBUCKET_OLD_AND_STALE_TIME \in Nat

EntryOf(Ids, Addrs) ==
    [id : Ids, addr : Addrs, created : Nat, lastSeen : Nat, lastSend : Nat,
     reachable : BOOLEAN, failedRequests : Nat]

\* lastSend = 0: never contacted.
NewEntry(id, addr, now) ==
    [id |-> id, addr |-> addr, created |-> now, lastSeen |-> now,
     lastSend |-> 0, reachable |-> FALSE, failedRequests |-> 0]

-----------------------------------------------------------------------------
Matches(e, o) == e.id = o.id \/ e.addr = o.addr

Equals(e, o) == e.id = o.id /\ e.addr = o.addr

Larger(a, b)  == IF a > b THEN a ELSE b
Smaller(a, b) == IF a < b THEN a ELSE b

OldAndStale(e, now) ==
    /\ e.failedRequests > KBUCKET_OLD_AND_STALE_TIMEOUTS
    /\ now > e.lastSeen + KBUCKET_OLD_AND_STALE_TIME

NeedsReplacement(e, now) ==
    \/ e.failedRequests > 1 /\ ~ e.reachable
    \/ e.failedRequests > KBUCKET_MAX_TIMEOUTS /\ OldAndStale(e, now)

RemovableWithoutReplacement(e) ==
    /\ e.failedRequests > KBUCKET_MAX_TIMEOUTS
    /\ ~ e.lastSeen > e.lastSend

-----------------------------------------------------------------------------
SignalResponse(e, now) ==
    [e EXCEPT !.lastSeen = now, !.failedRequests = 0, !.reachable = TRUE]

SignalRequest(e, now) == [e EXCEPT !.lastSend = now]

MergeRequestTime(e, sent) == [e EXCEPT !.lastSend = Larger(@, sent)]

SignalRequestTimeout(e) == [e EXCEPT !.failedRequests = @ + 1]

\* What the entry e becomes when o, with the same id and address, is put. The
\* failure count of o counts only if it is positive.
MergeEntry(e, o) ==
    [e EXCEPT !.created        = Smaller(@, o.created),
              !.lastSeen       = Larger(@, o.lastSeen),
              !.lastSend       = Larger(@, o.lastSend),
              !.reachable      = @ \/ o.reachable,
              !.failedRequests = IF o.failedRequests > 0
                                 THEN Smaller(@, o.failedRequests) ELSE @]

\* The entry DHT::received makes of a message: a response to a call of ours,
\* sent at the given time, proves that the node is reachable.
EntryOfRequest(id, addr, now) == NewEntry(id, addr, now)

EntryOfResponse(id, addr, now, sent) ==
    MergeRequestTime(SignalResponse(NewEntry(id, addr, now), now), sent)
=============================================================================
