------------------------------ MODULE Addresses ------------------------------
(***************************************************************************)
(* Socket addresses (src/core/utils/socket_address.cc, socket_address.h):  *)
(* the memory that the comparisons look at, the classes of IP addresses,   *)
(* and the ordered containers that are kept by the two orders, the IPs     *)
(* that a lookup has met and the nodes that the DHT knows by address.      *)
(***************************************************************************)
EXTENDS Integers, FiniteSets, SequencesExt

CONSTANTS IPs,           \* sequences of 4 or 16 bytes
          Few, Ports,    \* bound: all but the first address are made of these IPs and ports
          MaxInserted    \* bound: addresses inserted

VARIABLES byIp,          \* std::set ordered by IpCompare, as the list of its elements
          byAddress,     \* the keys of a std::map ordered by operator<
          inserted       \* history: the addresses

AF_INET == 2
AF_INET6 == 10

MAPPED_IPV4_PREFIX == <<0, 0, 0, 0, 0, 0, 0, 0, 0, 0, 255, 255>>

InitAddresses == byIp = <<>> /\ byAddress = <<>> /\ inserted = {}

-----------------------------------------------------------------------------
Zeros(n) == [i \in 1..n |-> 0]

\* The constructor from a Blob; it throws at any other length.
SocketAddress(ip, port) ==
    [family |-> CASE Len(ip) = 4 -> AF_INET [] Len(ip) = 16 -> AF_INET6, ip |-> ip, port |-> port]

empty(a) == a.family \notin {AF_INET, AF_INET6}

\* The sslen bytes of the sockaddr: family (in the host's order), port, for IPv6 the flow
\* label, the IP, and padding or the scope.
Memory(a) ==
    <<a.family, 0, a.port \div 256, a.port % 256>>
        \o (IF a.family = AF_INET THEN a.ip \o Zeros(8) ELSE Zeros(4) \o a.ip \o Zeros(4))

\* memcmp(s, t, n) < 0, of equal lengths.
memless(s, t) == \E i \in DOMAIN s : s[i] < t[i] /\ \A j \in 1..(i - 1) : s[j] = t[j]

\* operator<.
less(a, b) == IF a.family # b.family THEN a.family < b.family ELSE memless(Memory(a), Memory(b))

MutIpCompare(a, b) ==
    IF a.family # b.family THEN a.family < b.family
    ELSE \E i \in DOMAIN a.ip : a.ip[i] < b.ip[i]

IpCompare(a, b) ==
    \/ empty(a) /\ empty(b)
    \/ IF a.family # b.family THEN a.family < b.family ELSE memless(a.ip, b.ip)

-----------------------------------------------------------------------------
(* The classes. *)

isAnyLocal(a) == \A i \in DOMAIN a.ip : a.ip[i] = 0

isLoopback(a) ==
    IF a.family = AF_INET THEN a.ip[1] = 127 ELSE a.ip = Zeros(15) \o <<1>>

isSiteLocal(a) ==
    IF a.family = AF_INET
    THEN \/ a.ip[1] = 10
         \/ a.ip[1] = 172 /\ a.ip[2] >= 16 /\ a.ip[2] <= 31
         \/ a.ip[1] = 192 /\ a.ip[2] = 168
    ELSE a.ip[1] \in {252, 253}

isBroadcast(a) == a.family = AF_INET /\ \A i \in 1..4 : a.ip[i] = 255

isMulticast(a) == a.ip[1] = IF a.family = AF_INET THEN 224 ELSE 255

isLinkLocal(a) ==
    IF a.family = AF_INET THEN a.ip[1] = 169 /\ a.ip[2] = 254 ELSE a.ip[1] = 254 /\ a.ip[2] = 128

\* The prefix is compared with the sockaddr, not with the IP in it.
isMappedIPv4(a) == a.family = AF_INET6 /\ SubSeq(Memory(a), 1, 12) = MAPPED_IPV4_PREFIX

isGlobalUnicast(a) ==
    ~(\/ isAnyLocal(a) \/ isLinkLocal(a) \/ isLoopback(a) \/ isMulticast(a)
      \/ isSiteLocal(a) \/ isMappedIPv4(a) \/ isBroadcast(a))

isAnyUnicast(a) == isGlobalUnicast(a) \/ isSiteLocal(a)

isBogon(a) == ~(a.port > 0 /\ a.port <= 65535 /\ isGlobalUnicast(a))

-----------------------------------------------------------------------------
Before(a, b, order) == IF order = "ip" THEN IpCompare(a, b) ELSE less(a, b)

\* Insertion in front of the first element that is not less, unless that is equivalent.
Insert(s, a, order) ==
    LET k == Len(SelectSeq(s, LAMBDA x : Before(x, a, order))) + 1
    IN  IF k <= Len(s) /\ ~Before(a, s[k], order) THEN s ELSE InsertAt(s, k, a)

insert(a) ==
    /\ Cardinality(inserted) < MaxInserted
    /\ byIp' = Insert(byIp, a, "ip") /\ byAddress' = Insert(byAddress, a, "address")
    /\ inserted' = inserted \cup {a}

NextAddresses ==
    \/ inserted = {} /\ \E ip \in IPs, port \in {0, 65535} : insert(SocketAddress(ip, port))
    \/ \E ip \in Few, port \in Ports : insert(SocketAddress(ip, port))

-----------------------------------------------------------------------------
\* The set of a lookup holds one address of every IP it has met, whatever the ports and in
\* whatever order they come, and the map of the DHT holds every address once: IpCompare
\* and operator< order all addresses, of both families, strictly, and memcmp reads the
\* ports and the padding where they are (socket_address.cc:412-436, socket_address.h:97-101,
\* closest_candidates.cc:106, dht.h:191).
ContainersExact ==
    /\ ToSet(byIp) \subseteq inserted /\ ToSet(byAddress) = inserted
    /\ \A a \in inserted : \E k \in DOMAIN byIp :
         \A j \in DOMAIN byIp : j = k <=> byIp[j].ip = a.ip
    /\ \A j, k \in DOMAIN byAddress : byAddress[j] = byAddress[k] => j = k

\* Membership in an IPv4 network of at most 16 bits.
InNetwork(a, b1, b2, bits) ==
    /\ a.family = AF_INET
    /\ LET unit == 2 ^ (16 - bits)
       IN  (256 * a.ip[1] + a.ip[2]) \div unit = (256 * b1 + b2) \div unit

Classes(a) ==
    {c \in {"any", "loopback", "site", "link", "multicast", "broadcast", "mapped",
           "global"} :
        CASE c = "any" -> isAnyLocal(a)
          [] c = "loopback" -> isLoopback(a)
          [] c = "site" -> isSiteLocal(a)
          [] c = "link" -> isLinkLocal(a)
          [] c = "multicast" -> isMulticast(a)
          [] c = "broadcast" -> isBroadcast(a)
          [] c = "mapped" -> isMappedIPv4(a)
          [] c = "global" -> isGlobalUnicast(a)}

\* Every address is of one class and no other; the byte comparisons of the private and the
\* link-local networks of IPv4 describe the networks that the comments name; what a lookup
\* and the routing table take is what has a port and is of the class "global"
\* (socket_address.cc:197-331). It does not say that a class is what the standards mean by
\* it: of the multicast addresses 224/8 to 239/8 only those of 224/8 are in that class, and
\* a mapped IPv4 address, which isGlobalUnicast means to exclude, is in "global" because
\* isMappedIPv4 compares the wrong bytes.
ClassesExact ==
    \A a \in inserted :
        /\ \E c \in Classes(a) : Classes(a) = {c}
        /\ a.family = AF_INET =>
             (isSiteLocal(a) <=> \/ InNetwork(a, 10, 0, 8) \/ InNetwork(a, 172, 16, 12)
                                 \/ InNetwork(a, 192, 168, 16))
        /\ a.family = AF_INET => (isLinkLocal(a) <=> InNetwork(a, 169, 254, 16))
        /\ ~isBogon(a) <=> a.port # 0 /\ Classes(a) = {"global"}
        /\ isAnyUnicast(a) <=> Classes(a) \in {{"global"}, {"site"}}
=============================================================================
