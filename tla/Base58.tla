------------------------------- MODULE Base58 -------------------------------
(***************************************************************************)
(* The text form of ids (src/core/crypto/base58.cc, id.cc): long division  *)
(* in buffers whose sizes are estimates with integer arithmetic.  A text   *)
(* is a sequence of the digits 0..57 (0 is the character '1'), Space and   *)
(* Invalid, a character that is no digit.                                  *)
(***************************************************************************)
EXTENDS Integers, SequencesExt

CONSTANTS Octets, Chars,    \* bytes and characters that inputs are made of
          MaxBytes, MaxChars,    \* bounds: lengths of inputs
          ID_BYTES

VARIABLES bytes, text    \* the input of encode and that of decode

Space == 58
Invalid == 59

InitText == bytes = <<>> /\ text = <<>>

-----------------------------------------------------------------------------
RECURSIVE Multiply(_, _, _, _, _, _)
\* The inner loop: buf = buf * factor + carry in the given base, from the end of the buffer
\* on; length digits are in use.
Multiply(buf, length, carry, i, factor, base) ==
    IF (carry # 0 \/ i < length) /\ i < Len(buf)
    THEN LET k == Len(buf) - i
             c == carry + factor * buf[k]
         IN  Multiply([buf EXCEPT ![k] = c % base], length, c \div base, i + 1, factor, base)
    ELSE [buf |-> buf, length |-> i, carry |-> carry]

RECURSIVE Digits(_, _, _, _)
\* The outer loop, over the digits of the input; it ends early when assert(carry == 0) fails.
Digits(r, digits, factor, base) ==
    IF digits = <<>> \/ ~r.fits THEN r
    ELSE LET m == Multiply(r.buf, r.length, Head(digits), 0, factor, base)
         IN  Digits([buf |-> m.buf, length |-> m.length, fits |-> m.carry = 0],
                    Tail(digits), factor, base)

Convert(digits, size, factor, base) ==
    Digits([buf |-> [k \in 1..size |-> 0], length |-> 0, fits |-> TRUE], digits, factor, base)

\* The number of elements at the front of s that are equal to x.
Leading(s, x) == IF \A i \in DOMAIN s : s[i] = x THEN Len(s)
                 ELSE SelectInSeq(s, LAMBDA y : y # x) - 1

Skip(s, n) == SubSeq(s, n + 1, Len(s))

MutBase58Encode(input) ==
    LET zeroes == Leading(input, 0)
        rest   == Skip(input, zeroes)
        r      == Convert(rest, (Len(rest) * 138) \div 100, 256, 58)
        digits == Skip(r.buf, Len(r.buf) - r.length)
    IN  [fits |-> r.fits, out |-> [i \in 1..zeroes |-> 0] \o Skip(digits, Leading(digits, 0))]

base58_encode(input) ==
    LET zeroes == Leading(input, 0)
        rest   == Skip(input, zeroes)
        r      == Convert(rest, (Len(rest) * 138) \div 100 + 1, 256, 58)
        digits == Skip(r.buf, Len(r.buf) - r.length)
    IN  [fits |-> r.fits, out |-> [i \in 1..zeroes |-> 0] \o Skip(digits, Leading(digits, 0))]

\* An invalid character, and anything but spaces after a space, gives nothing.
base58_decode(str) ==
    LET t      == Skip(str, Leading(str, Space))
        zeroes == Leading(t, 0)
        rest   == Skip(t, zeroes)
        blank  == SelectInSeq(rest, LAMBDA c : c = Space)
        digits == IF blank = 0 THEN rest ELSE SubSeq(rest, 1, blank - 1)
        tail   == Skip(rest, Len(digits))
        r      == Convert(digits, (Len(rest) * 733) \div 1000 + 1, 58, 256)
    IN  IF Invalid \in ToSet(digits) \/ ToSet(tail) \ {Space} # {}
        THEN [fits |-> TRUE, out |-> <<>>]
        ELSE [fits |-> r.fits,
              out  |-> [i \in 1..zeroes |-> 0] \o Skip(r.buf, Len(r.buf) - r.length)]

\* fromBase58String throws unless the text is one of an id.
fromBase58String(str) ==
    LET data == base58_decode(str).out IN IF Len(data) = ID_BYTES THEN {data} ELSE {}

-----------------------------------------------------------------------------
\* Inputs grow by one element.
inputByte(b) == Len(bytes) < MaxBytes /\ bytes' = Append(bytes, b) /\ UNCHANGED text
inputChar(c) == Len(text) < MaxChars /\ text' = Append(text, c) /\ UNCHANGED bytes

NextText ==
    \/ text = <<>> /\ \E b \in Octets : inputByte(b)
    \/ bytes = <<>> /\ \E c \in Chars : inputChar(c)

\* bytes, continued to the length of an id.
Padded(b) == bytes \o [i \in 1..(ID_BYTES - Len(bytes)) |-> b]

Trimmed(s) ==
    LET t == Skip(s, Leading(s, Space)) IN SubSeq(t, 1, Len(t) - Leading(Reverse(t), Space))

\* The text of bytes decodes to the bytes, at every length up to that of an id, and a text
\* that decodes to anything is, but for the spaces around it, the text of that; the sizes
\* that the two functions estimate for their buffers always suffice, so that neither
\* assertion fails (base58.cc:61, 76, 106, 119; Id::toBase58String, fromBase58String).
TextsExact ==
    /\ LET e == base58_encode(bytes)
           d == base58_decode(e.out)
       IN  e.fits /\ d.fits /\ d.out = bytes
    /\ LET d == base58_decode(text)
       IN  d.fits /\ (d.out # <<>> => base58_encode(d.out).out = Trimmed(text))
    /\ Len(bytes) \in 1..2 =>
         \A b \in {0, 255} :
            LET e == base58_encode(Padded(b))
            IN  e.fits /\ fromBase58String(e.out) = {Padded(b)}

=============================================================================
