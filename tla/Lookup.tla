------------------------------- MODULE Lookup -------------------------------
(***************************************************************************)
(* One iterative lookup (src/core/task): the task's life, its calls in     *)
(* flight, the candidates it may still ask and the set of nodes that       *)
(* answered.  kind says whether it is a NodeLookup, or a ValueLookup or    *)
(* PeerLookup, which treat an answer of the wrong node differently.        *)
(*                                                                         *)
(* All of it runs on the receiving thread, except cancel.  The RPC layer   *)
(* ends every call exactly once (CallContract).  Ids are numbers, ordered  *)
(* as the code orders them; Dist is the distance to the target and has no  *)
(* ties.  A candidate never changes its address.                           *)
(***************************************************************************)
EXTENDS Naturals, FiniteSets

CONSTANTS Ids, Addrs,
          AddrOf,          \* id -> address
          Dist,            \* id -> distance to the target
          Start,           \* what KClosestNodes finds in the routing table
          Suggestions,     \* the node lists an answer may bring
          Impostors,       \* ids whose address answers under another id
          MAX_ENTRIES_PER_BUCKET,
          CANDIDATES,      \* capacity of ClosestCandidates, 3 buckets
          MAX_CONCURRENT_TASK_REQUESTS

ASSUME LookupAssumption ==
    /\ Ids \subseteq Nat
    /\ IsFiniteSet(Ids)
    /\ AddrOf \in [Ids -> Addrs]
    /\ Dist \in [Ids -> Nat]
    /\ \A i, j \in Ids : Dist[i] = Dist[j] => i = j
    /\ Start \subseteq Ids
    /\ Suggestions \subseteq SUBSET Ids
    /\ Impostors \subseteq Ids
    /\ MAX_ENTRIES_PER_BUCKET \in Nat \ {0}
    /\ CANDIDATES \in Nat \ {0}
    /\ MAX_CONCURRENT_TASK_REQUESTS \in Nat \ {0}

VARIABLES kind,         \* "node" or "value"; never changes
          state,
          candidates,   \* ClosestCandidates: id -> requests sent, waiting or not
          dedupIds, dedupAddrs,
          inFlight,     \* ids of the calls in flight
          closest,      \* ClosestSet
          attempts,     \* insertAttemptsSinceTailModification
          asked,        \* history: how often each id was asked
          answered      \* history: the ids that answered

vars == <<kind, state, candidates, dedupIds, dedupAddrs, inFlight, closest, attempts,
          asked, answered>>

Init ==
    /\ kind \in {"node", "value"}
    /\ state = "QUEUED"
    /\ candidates = [i \in {} |-> 0]
    /\ dedupIds = {}
    /\ dedupAddrs = {}
    /\ inFlight = {}
    /\ closest = {}
    /\ attempts = 0
    /\ asked = [i \in Ids |-> 0]
    /\ answered = {}

-----------------------------------------------------------------------------
\* ClosestCandidates::candidateOrder in the list c.
Before(c, i, j) ==
    \/ c[i].pinged < c[j].pinged
    \/ c[i].pinged = c[j].pinged /\ Dist[i] < Dist[j]

\* The first k elements of S in that order.
First(c, S, k) == {i \in S : Cardinality({j \in S : Before(c, j, i)}) < k}

Eligible(c) == {i \in DOMAIN c : ~ c[i].sent /\ c[i].pinged < 3}

\* add: ids are remembered even if their address is a duplicate. An order in which
\* the list is read decides which of two ids with one address is kept.
Fresh(S) == {i \in S : i \notin dedupIds}

MutKeptWithoutDedup(S) == {S}

Kept(S) ==
    {T \in SUBSET {i \in Fresh(S) : AddrOf[i] \notin dedupAddrs} :
        /\ \A i, j \in T : AddrOf[i] = AddrOf[j] => i = j
        /\ {AddrOf[i] : i \in T} = {AddrOf[i] : i \in Fresh(S)} \ dedupAddrs}

Trim(c) ==
    LET waiting == {i \in DOMAIN c : ~ c[i].sent}
        keep    == (DOMAIN c \ waiting) \cup First(c, waiting, CANDIDATES)
    IN  IF Cardinality(DOMAIN c) > CANDIDATES THEN [i \in keep |-> c[i]] ELSE c

Merge(c, T) ==
    [i \in DOMAIN c \cup T |-> IF i \in DOMAIN c THEN c[i] ELSE [pinged |-> 0, sent |-> FALSE]]

Remove(c, i) == [j \in DOMAIN c \ {i} |-> c[j]]

\* LookupTask::addCandidates of S to the list c, cl being the closest set: what it may
\* leave.
addCandidates(c, cl, S) ==
    {[list |-> IF S \subseteq cl THEN c ELSE Trim(Merge(c, T)),
      ids |-> dedupIds \cup (S \ cl),
      addrs |-> dedupAddrs \cup {AddrOf[i] : i \in T}] : T \in Kept(S \ cl)}

\* ClosestSet::add. The map is ordered by id, its last element is dropped; whether
\* that was the new one, and attempts grows or starts again, is read from the erased
\* element.
ClosestAdd(i) ==
    LET all == closest \cup {i}
    IN  IF Cardinality(all) <= MAX_ENTRIES_PER_BUCKET THEN {[closest |-> all, attempts |-> attempts]}
        ELSE {[closest |-> {x \in all : \E y \in all : y > x}, attempts |-> n] : n \in {attempts + 1, 0}}

\* LookupTask::isDone.
Done(c, fl, cl, n) ==
    /\ fl = {}
    /\ \/ DOMAIN c = {}
       \/ /\ Cardinality(cl) >= MAX_ENTRIES_PER_BUCKET
          /\ n > MAX_ENTRIES_PER_BUCKET
          /\ \E tail \in cl : /\ \A x \in cl : x <= tail
                              /\ \A i \in DOMAIN c : Dist[tail] <= Dist[i]

\* The candidates update() asks until no more calls may be in flight.
ToAsk(c, fl) ==
    IF Cardinality(fl) < MAX_CONCURRENT_TASK_REQUESTS
    THEN First(c, Eligible(c), MAX_CONCURRENT_TASK_REQUESTS - Cardinality(fl))
    ELSE {}

\* Task::serializedUpdate of a running task.
serializedUpdate(c, fl, cl, n) ==
    LET go == IF Done(c, fl, cl, n) THEN {} ELSE ToAsk(c, fl)
        c2 == [i \in DOMAIN c |-> IF i \in go THEN [pinged |-> c[i].pinged + 1, sent |-> TRUE]
                                  ELSE c[i]]
    IN  /\ candidates' = c2
        /\ inFlight' = fl \cup go
        /\ closest' = cl
        /\ attempts' = n
        /\ asked' = [i \in Ids |-> asked[i] + (IF i \in go THEN 1 ELSE 0)]
        /\ state' = IF Done(c2, fl \cup go, cl, n) THEN "FINISHED" ELSE "RUNNING"

-----------------------------------------------------------------------------
\* prepare() fills the candidates only now.
start ==
    /\ state = "QUEUED"
    /\ \E a \in addCandidates(candidates, closest, Start) :
          /\ dedupIds' = a.ids /\ dedupAddrs' = a.addrs
          /\ serializedUpdate(a.list, inFlight, closest, attempts)
    /\ UNCHANGED answered

Ends(i) == state = "RUNNING" /\ i \in inFlight

\* LookupTask::callResponsed, then the nodes of the answer.
callResponsed(i, S) ==
    /\ Ends(i)
    /\ i \notin Impostors
    /\ answered' = answered \cup {i}
    /\ \E n \in ClosestAdd(i) : \E a \in addCandidates(Remove(candidates, i), n.closest, S) :
          /\ dedupIds' = a.ids /\ dedupAddrs' = a.addrs
          /\ serializedUpdate(a.list, inFlight \ {i}, n.closest, n.attempts)

\* An answer with another id than that of the candidate.
callMismatched(i) ==
    /\ Ends(i)
    /\ i \in Impostors
    /\ answered' = answered \cup {i}
    /\ IF kind = "node"
       THEN \E n \in ClosestAdd(i) :
               serializedUpdate(Remove(candidates, i), inFlight \ {i}, n.closest, n.attempts)
       ELSE serializedUpdate(candidates, inFlight \ {i}, closest, attempts)
    /\ UNCHANGED <<dedupIds, dedupAddrs>>

\* The value is found and the result handler cancels the task.
callFound(i) ==
    /\ Ends(i)
    /\ kind = "value"
    /\ i \notin Impostors
    /\ \E n \in ClosestAdd(i) : closest' = n.closest /\ attempts' = n.attempts
    /\ candidates' = Remove(candidates, i)
    /\ inFlight' = inFlight \ {i}
    /\ answered' = answered \cup {i}
    /\ state' = "CANCELED"
    /\ UNCHANGED <<dedupIds, dedupAddrs, asked>>

callError(i) ==
    /\ Ends(i)
    /\ serializedUpdate(Remove(candidates, i), inFlight \ {i}, closest, attempts)
    /\ UNCHANGED <<dedupIds, dedupAddrs, answered>>

MutTimeoutKeepsUnreachable(i) ==
    /\ Ends(i)
    /\ serializedUpdate([candidates EXCEPT ![i].sent = FALSE], inFlight \ {i}, closest, attempts)
    /\ UNCHANGED <<dedupIds, dedupAddrs, answered>>

MutTimeoutNotCleared(i) ==
    /\ Ends(i)
    /\ serializedUpdate(IF candidates[i].pinged >= 3 THEN Remove(candidates, i) ELSE candidates,
                        inFlight \ {i}, closest, attempts)
    /\ UNCHANGED <<dedupIds, dedupAddrs, answered>>

callTimeout(i) ==
    /\ Ends(i)
    /\ serializedUpdate(IF candidates[i].pinged >= 3 THEN Remove(candidates, i)
                        ELSE [candidates EXCEPT ![i].sent = FALSE],
                        inFlight \ {i}, closest, attempts)
    /\ UNCHANGED <<dedupIds, dedupAddrs, answered>>

callStalled(i) ==
    /\ Ends(i)
    /\ serializedUpdate(candidates, inFlight, closest, attempts)
    /\ UNCHANGED <<dedupIds, dedupAddrs, answered>>

cancel ==
    /\ state \in {"QUEUED", "RUNNING"}
    /\ state' = "CANCELED"
    /\ UNCHANGED <<candidates, dedupIds, dedupAddrs, inFlight, closest, attempts, asked, answered>>

\* A call that ends after the task only leaves the calls in flight.
lateEnd(i) ==
    /\ state \in {"FINISHED", "CANCELED"}
    /\ i \in inFlight
    /\ inFlight' = inFlight \ {i}
    /\ UNCHANGED <<state, candidates, dedupIds, dedupAddrs, closest, attempts, asked, answered>>

CallEnds(i) ==
    \/ \E S \in Suggestions : callResponsed(i, S)
    \/ callMismatched(i)
    \/ callFound(i)
    \/ callError(i)
    \/ callTimeout(i)
    \/ lateEnd(i)

Next ==
    /\ start \/ cancel \/ \E i \in Ids : CallEnds(i) \/ callStalled(i)
    /\ UNCHANGED kind

Spec == Init /\ [][Next]_vars

\* The task manager starts the task and the RPC layer ends its calls.
FairSpec ==
    /\ Spec
    /\ WF_vars(start /\ UNCHANGED kind)
    /\ \A i \in Ids : WF_vars(CallEnds(i) /\ UNCHANGED kind)

-----------------------------------------------------------------------------
\* A value or peer lookup keeps a candidate that answered under another id among its
\* candidates and never asks it again (value_lookup.cc:65-67), which may keep it for ever.
Misled == kind = "value" /\ answered \cap Impostors # {}

\* A running lookup always waits for an answer: it never stands still with
\* candidates it may not ask (task.cc:120-147, lookup_task.cc:57-87). It has no more
\* calls in flight than allowed, and each belongs to a candidate that is not thrown out
\* while its answer is awaited (task.h:126, closest_candidates.cc:124).
WaitsForAnswer ==
    state = "RUNNING" =>
        /\ inFlight # {} \/ Misled
        /\ Cardinality(inFlight) <= MAX_CONCURRENT_TASK_REQUESTS
        /\ inFlight \subseteq DOMAIN candidates

\* A node is asked at most three times, and never again once it has answered,
\* though other nodes keep suggesting it and candidates are trimmed
\* (closest_candidates.cc:99-139, candidate_node.h:69-80).
AskedSparingly ==
    [][\A i \in Ids :
         asked'[i] # asked[i] => asked[i] < 3 /\ i \notin answered]_vars

\* Every lookup comes to its end, whatever fails (task.cc:120-147).
LookupEnds == <>(Misled \/ (state \in {"FINISHED", "CANCELED"} /\ inFlight = {}))
=============================================================================
