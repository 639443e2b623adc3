---------------------------- MODULE MCAlgorithms ----------------------------
(***************************************************************************)
(* The algorithms and data structures that need no other part of the       *)
(* system: a behaviour is one of one of them.  Ids have two bytes of two   *)
(* bits, except in texts.                                                  *)
(***************************************************************************)
EXTENDS KClosestNodes, RelayPackets

CONSTANTS Ids, Addrs, MAX_ENTRIES_PER_BUCKET, KBUCKET_MAX_TIMEOUTS,
          KBUCKET_OLD_AND_STALE_TIMEOUTS, KBUCKET_OLD_AND_STALE_TIME, MaxFailures,   \* KBucket
          Threads, ttl,                                                              \* CryptoCache
          MaxTime,                                                                   \* of both
          Octets, Chars, MaxBytes, MaxChars,                                          \* Base58
          Ports, MaxInserted                                                         \* Addresses

VARIABLES part,                            \* the one that this behaviour is about
          entries, now,                    \* KBucket
          cache, call, job, clock, opened, \* CryptoCache
          bytes, text,                     \* Base58
          byIp, byAddress, inserted        \* Addresses

IdOf(n) == [MIN_ID EXCEPT ![0] = n \div 4, ![1] = n % 4]

MCKnown == {IdOf(n) : n \in {0, 3, 5, 6, 10, 15}}
MCBootstrapNodes == {IdOf(9)}
MCSelf == IdOf(4)

\* IPv4 addresses at the borders of the networks, IPv6 addresses with the first and the last
\* bytes that matter.
Nil(n) == [i \in 1..n |-> 0]
MCIPs ==
    {<<x, y, z, z>> : x \in {0, 8, 10, 127, 169, 172, 192, 224, 225, 255},
                      y \in {0, 15, 16, 31, 32, 168, 254, 255}, z \in {0, 255}}
    \cup {<<x, y>> \o Nil(13) \o <<z>> : x \in {0, 32, 252, 253, 254, 255},
                                         y \in {0, 1, 128, 255}, z \in {0, 1, 2}}
    \cup {Nil(10) \o <<255, 255, x, 8, 8, 8>> : x \in {8, 10, 224}}
MCFew == {<<8, 8, 8, 8>>, <<8, 8, 8, 9>>, <<9, 8, 0, 0>>, Nil(15) \o <<1>>,
          <<8, 8, 8, 8>> \o Nil(12)}

Symmetry == Permutations(Ids) \cup Permutations(Addrs)

Bucket == INSTANCE KBucket
Cache == INSTANCE CryptoCache WITH Self <- 1, Ids <- {2, 3}, now <- clock
Texts == INSTANCE Base58 WITH ID_BYTES <- 32
Sockaddrs == INSTANCE Addresses WITH IPs <- MCIPs, Few <- MCFew

tableVars == <<buckets, ids>>
cacheVars == <<cache, call, job, clock, opened>>
textVars == <<bytes, text>>
addressVars == <<byIp, byAddress, inserted>>
mcVars == <<part, tableVars, sizes, entries, now, cacheVars, textVars, addressVars>>

MCInit ==
    /\ part \in {"table", "packets", "bucket", "cache", "texts", "addresses"}
    /\ Init /\ sizes = <<>>
    /\ Bucket!Init /\ Cache!Init /\ Texts!InitText /\ Sockaddrs!InitAddresses

MCNext ==
    /\ UNCHANGED part
    /\ IF part = "table" THEN Next ELSE UNCHANGED tableVars
    /\ IF part = "packets" THEN \E size \in PACKET_HEADER_BYTES..MaxSize : send(size)
       ELSE UNCHANGED sizes
    /\ IF part = "bucket" THEN Bucket!Next ELSE UNCHANGED <<entries, now>>
    /\ IF part = "cache" THEN Cache!Next ELSE UNCHANGED cacheVars
    /\ IF part = "texts" THEN Texts!NextText ELSE UNCHANGED textVars
    /\ IF part = "addresses" THEN Sockaddrs!NextAddresses ELSE UNCHANGED addressVars

MCSpec == MCInit /\ [][MCNext]_mcVars

-----------------------------------------------------------------------------
(* The properties, each of one part; its module explains it. *)

\* KClosestNodes::fill falls short of maxEntries only if the table does. Its answer is the
\* closest entries if the target's own bucket has enough; if not, what it leaves out may be
\* closer, but by less than a bit of common prefix (kclosest_nodes.cc:43-127).
AnswersClosest == part = "table" => FillsClosest

\* Prefixes, their branches, parents and random ids are exact to the bit, and indexOf finds
\* the bucket of every id (prefix.cc, id.cc, routing_table.cc:36-55).
BucketsExact == part = "table" => PrefixesExact

\* Packets come out of the stream whole, in order and in time, however it is cut, and with
\* the type that was sent (connection.cc:590-642, packettype.h).
PacketsWhole == part = "packets" => PacketsArrive

\* The list of a k-bucket, which is ordered by creation and not, as kbucket.h:43 says, by
\* time last seen, implements the set of BucketSet, whatever is put into it next
\* (kbucket.cc:32-152).
ListImplementsSet == part = "bucket" => Bucket!ListImplementsSet

\* What is sealed for a node opens there and what it sealed opens here, through loading,
\* refreshing and expiring of contexts; only a context whose entry had expired before get
\* refreshed it can be erased under its user (loading_cache.h:36-59, node.cc:589-607).
SealsOpen == part = "cache" => Cache!SealsOpen

\* Encoding to Base58 and decoding are inverse up to the length of an id, and their
\* buffers suffice (base58.cc:48-134, id.cc:178-198).
TextsExact == part = "texts" => Texts!TextsExact

\* The containers ordered by IP and by address hold what was inserted, once; each address
\* is of one class and no other, and the private networks are those of the comments
\* (socket_address.cc:197-436).
AddressesExact ==
    part = "addresses" => Sockaddrs!ContainersExact /\ Sockaddrs!ClassesExact
=============================================================================
