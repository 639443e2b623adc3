------------------------------ MODULE Keyspace ------------------------------
(***************************************************************************)
(* Ids and prefixes (src/core/id.cc, src/core/prefix.cc) as the code has   *)
(* them: arrays of bytes, masks and shifts.  BYTE_BITS is 8 in the code    *)
(* and the 8, 3, 0x07 and 0x80 there are written in terms of it here.      *)
(***************************************************************************)
EXTENDS Integers, Bitwise, FiniteSetsExt

CONSTANTS ID_BYTES, BYTE_BITS

ASSUME KeyspaceAssumption == ID_BYTES \in Nat \ {0} /\ BYTE_BITS \in Nat \ {0}

ID_BITS == ID_BYTES * BYTE_BITS
Byte == 0..2^BYTE_BITS - 1
Id == [0..ID_BYTES - 1 -> Byte]

MIN_ID == [i \in 0..ID_BYTES - 1 |-> 0]
MAX_ID == [i \in 0..ID_BYTES - 1 |-> 2^BYTE_BITS - 1]

-----------------------------------------------------------------------------
(* Ids. *)

distance(a, b) == [i \in 0..ID_BYTES - 1 |-> a[i] ^^ b[i]]

\* The first byte in which a and b differ, or ID_BYTES.
mismatch(a, b) == Min({i \in 0..ID_BYTES - 1 : a[i] # b[i]} \cup {ID_BYTES})

\* -1 if a is closer to t than b, 1 if b is.
threeWayCompare(t, a, b) ==
    LET m == mismatch(a, b)
        da == a[m] ^^ t[m]
        db == b[m] ^^ t[m]
    IN  IF m = ID_BYTES THEN 0
        ELSE IF da < db THEN -1 ELSE IF da > db THEN 1 ELSE 0

\* memcmp.
compareTo(a, b) ==
    LET m == mismatch(a, b) IN IF m = ID_BYTES THEN 0 ELSE a[m] - b[m]

\* 0xff80 >> (n & 0x07), as far as a byte goes: its first n % BYTE_BITS + 1 bits.
mask(n) ==
    shiftR(2^(2 * BYTE_BITS) - 2^(BYTE_BITS - 1), n % BYTE_BITS) & (2^BYTE_BITS - 1)

\* Bits 0 to n of a and b are equal.
bitsEqual(a, b, n) ==
    LET i == n \div BYTE_BITS
        m == mismatch(a, b)
    IN  n < 0 \/ (IF m = i THEN ((a[i] ^^ b[i]) & mask(n)) = 0 ELSE m > i)

\* dest with bits 0 to depth taken from src.
bitsCopy(src, dest, depth) ==
    IF depth < 0 THEN dest
    ELSE LET i == depth \div BYTE_BITS
         IN  [k \in 0..ID_BYTES - 1 |->
                CASE k < i -> src[k]
                  [] k = i -> (dest[k] & (2^BYTE_BITS - 1 - mask(depth))) | (src[k] & mask(depth))
                  [] k > i -> dest[k]]

-----------------------------------------------------------------------------
(* Prefixes. *)

\* Prefix(id, depth) copies the bits that count into an Id that is all zeros.
Prefix(id, depth) == [bits |-> bitsCopy(id, MIN_ID, depth), depth |-> depth]

isPrefixOf(p, id) == bitsEqual(p.bits, id, p.depth)
isSplittable(p) == p.depth < ID_BITS - 1
first(p) == p.bits
last(p) == distance(p.bits, distance(Prefix(MAX_ID, p.depth).bits, MAX_ID))
bit(n) == shiftR(2^(BYTE_BITS - 1), n % BYTE_BITS)

\* setTail, then the depth is decremented.
getParent(p) ==
    IF p.depth = -1 THEN p
    ELSE [bits |-> [p.bits EXCEPT ![p.depth \div BYTE_BITS] = @ & (2^BYTE_BITS - 1 - bit(p.depth))],
          depth |-> p.depth - 1]

MutSplitBranch(p, high) ==
    [bits |-> IF high /\ p.depth >= 0
              THEN [p.bits EXCEPT ![p.depth \div BYTE_BITS] = @ | bit(p.depth)] ELSE p.bits,
     depth |-> p.depth + 1]

splitBranch(p, high) ==
    LET d == p.depth + 1
        i == d \div BYTE_BITS
    IN  [bits |-> [p.bits EXCEPT ![i] = IF high THEN @ | bit(d) ELSE @ & (2^BYTE_BITS - 1 - bit(d))],
         depth |-> d]

isSiblingOf(p, q) == p.depth = q.depth /\ bitsEqual(p.bits, q.bits, p.depth - 1)

\* random is the outcome of Id::random().
createRandomId(p, random) == bitsCopy(p.bits, random, p.depth)

=============================================================================
