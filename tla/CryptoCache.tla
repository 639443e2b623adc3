---------------------------- MODULE CryptoCache ----------------------------
(***************************************************************************)
(* The cache of crypto contexts of a node (src/core/crypto_cache.h,        *)
(* utils/loading_cache.h, crypto_context.cc) as its users and the job of   *)
(* the scheduler that removes expired entries share it: no lock is taken,  *)
(* get returns a reference, and encrypt and decrypt copy what it refers    *)
(* to.  A node is known by the number that its encryption key is.          *)
(***************************************************************************)
EXTENDS Integers, Bitwise

CONSTANTS Self, Ids,       \* the node, and the nodes it encrypts to and decrypts from
          Threads,         \* threads that call encrypt and decrypt
          ttl,             \* KBUCKET_OLD_AND_STALE_TIME
          MaxTime          \* bound: the clock stops there

VARIABLES cache,     \* a partial function from Ids to entries
          call,      \* what each thread does
          job,       \* what handleExpiration does
          now,
          opened     \* history: what the last call came to

vars == <<cache, call, job, now, opened>>

\* A box is made of a public and a private key; the nonce is the distance of the two public
\* keys. Both are the same at the two ends.
Context(n, id) == [box |-> {n, id}, nonce |-> n ^^ id]

\* What is left where a context was: destroyed, both parts cleared.
Cleared == [box |-> {}, nonce |-> 0]

Idle == [pc |-> "idle"]

Init ==
    /\ cache = <<>>
    /\ call = [t \in Threads |-> Idle] /\ job = Idle
    /\ now = 0
    /\ opened = [ok |-> TRUE, right |-> TRUE, torn |-> FALSE, stale |-> FALSE]

Put(f, id, entry) == [k \in DOMAIN f \cup {id} |-> IF k = id THEN entry ELSE f[k]]

expired(entry, time) == time >= entry.expiration_time

-----------------------------------------------------------------------------
(* Node::encrypt and Node::decrypt. *)

MutGet(id) ==
    IF id \in DOMAIN cache THEN UNCHANGED cache
    ELSE cache' = Put(cache, id, [value |-> Context(Self, id), expiration_time |-> now + ttl])

\* LoadingCache::get: an entry that is found lives on from now, another one is loaded.
get(id) ==
    LET value == IF id \in DOMAIN cache THEN cache[id].value ELSE Context(Self, id)
    IN  cache' = Put(cache, id, [value |-> value, expiration_time |-> now + ttl])

\* History: the entry has expired, or the job holds a copy of it that had.
Stale(id) ==
    \/ id \in DOMAIN cache /\ expired(cache[id], now)
    \/ /\ job.pc = "test"
       /\ \E e \in job.entry : e.id = id /\ expired(e.copy, job.time)

\* encrypt(id, plain), or decrypt(id, cipher) of what a node sealed for this one, has the
\* reference that get returns.
begin(t, id, node) ==
    /\ call[t] = Idle
    /\ get(id)
    /\ call' = [call EXCEPT ![t] = [pc |-> "copy", id |-> id, node |-> node, time |-> now,
                                    stale |-> Stale(id)]]
    /\ UNCHANGED <<job, now, opened>>

\* The context is copied, from what is left of it if the entry was erased meanwhile, and
\* used: the other node has its own context for the same pair.
use(t) ==
    /\ call[t].pc = "copy"
    /\ LET c   == call[t]
           ctx == IF c.id \in DOMAIN cache THEN cache[c.id].value ELSE Cleared
       IN  opened' = [ok    |-> ctx = Context(c.node, Self),
                      right |-> c.node = c.id,
                      torn  |-> ctx = Cleared,
                      stale |-> c.stale]
    /\ call' = [call EXCEPT ![t] = Idle]
    /\ UNCHANGED <<cache, job, now>>

-----------------------------------------------------------------------------
(* handleExpiration, on the receive thread. *)

handleExpiration ==
    /\ job = Idle
    /\ job' = [pc |-> "scan", time |-> now, left |-> DOMAIN cache, entry |-> {}]
    /\ UNCHANGED <<cache, call, now, opened>>

\* The entry at the iterator is copied, and the copy is looked at later.
visit(id) ==
    /\ job.pc = "scan" /\ id \in job.left
    /\ job' = [job EXCEPT !.pc = "test", !.left = @ \ {id},
                          !.entry = {[id |-> id, copy |-> cache[id]]}]
    /\ UNCHANGED <<cache, call, now, opened>>

eraseExpired ==
    /\ job.pc = "test"
    /\ \E e \in job.entry :
         cache' = IF expired(e.copy, job.time)
                  THEN [k \in DOMAIN cache \ {e.id} |-> cache[k]] ELSE cache
    /\ job' = [job EXCEPT !.pc = "scan", !.entry = {}]
    /\ UNCHANGED <<call, now, opened>>

handled ==
    /\ job.pc = "scan" /\ job.left = {}
    /\ job' = Idle
    /\ UNCHANGED <<cache, call, now, opened>>

\* The clock: a call does not take as long from get to the copy as an entry lives.
tick ==
    /\ \A t \in Threads : call[t] # Idle => now + 1 < call[t].time + ttl
    /\ now < MaxTime /\ now' = now + 1
    /\ UNCHANGED <<cache, call, job, opened>>

Next ==
    \/ \E t \in Threads : use(t) \/ \E id, node \in Ids : begin(t, id, node)
    \/ handleExpiration \/ (\E id \in Ids : visit(id)) \/ eraseExpired \/ handled
    \/ tick

-----------------------------------------------------------------------------
\* What is sealed for a node opens there, and what a node has sealed opens here under its
\* id and under no other, through any loading, refreshing and expiring of contexts
\* (Node::encrypt, Node::decrypt, CryptoContext). The one exception is a context that was
\* erased between get and the copy, and that only befalls an entry that had expired
\* before get, or before the job copied it: the refresh in get protects every other
\* reference.
SealsOpen ==
    /\ ~opened.torn => (opened.ok <=> opened.right)
    /\ opened.torn => opened.stale

=============================================================================
