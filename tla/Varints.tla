------------------------------- MODULE Varints -------------------------------
(***************************************************************************)
(* Integers of variable length: the sizes and indexes of the binary form,  *)
(* varuint32 and varint32, and the form they have in sort keys; the order  *)
(* of byte strings; the digits of a number.                                *)
(***************************************************************************)
EXTENDS Integers, Sequences

\* varuint32_to_bin: seven bits a byte, least significant first, the top bit
\* set on every byte but the last.
Pow128 == <<1, 128, 16384, 2097152, 268435456>>

VarLen(n) == IF n < 128 THEN 1 ELSE IF n < 16384 THEN 2 ELSE IF n < 2097152 THEN 3
             ELSE IF n < 268435456 THEN 4 ELSE 5

VarUint32(n) ==
    [i \in 1 .. VarLen(n) |-> ((n \div Pow128[i]) % 128) + (IF i < VarLen(n) THEN 128 ELSE 0)]

\* varuint32_from_bin reads the bytes up to the first one without the top bit,
\* five at most; of the fifth only four bits fit the 32 of the result.
VarEnds(bytes, n) ==
    /\ n \in DOMAIN bytes /\ n <= 5 /\ bytes[n] < 128
    /\ \A i \in 1 .. n - 1 : bytes[i] >= 128

\* Seeded fault: the top bit is taken off the last byte too, which has none.
VarDigitLess(bytes, n, i) == IF i > n THEN 0 ELSE (bytes[i] - 128) * Pow128[i]

VarDigit(bytes, n, i) ==
    IF i > n THEN 0 ELSE (bytes[i] % (IF i = 5 THEN 16 ELSE 128)) * Pow128[i]

VarValue(bytes, n) ==
    VarDigit(bytes, n, 1) + VarDigit(bytes, n, 2) + VarDigit(bytes, n, 3)
      + VarDigit(bytes, n, 4) + VarDigit(bytes, n, 5)

\* varint32 is written as a varuint32 whose lowest bit is the sign: v << 1, all
\* bits of it flipped if v is negative.  The code has a width of 32.
\* Seeded fault: v is not shifted far enough to be all sign.
ZigZagPlain(v, width) == (2 * v) % (2 ^ width)
ZigZag(v, width) ==
    IF v < 0 THEN (2 ^ width - 1) - ((2 * v) % (2 ^ width)) ELSE 2 * v
UnZigZag(u, width) ==
    IF u % 2 = 1 THEN ((2 ^ width - 1 - u) \div 2) + 2 ^ (width - 1) - 2 ^ width ELSE u \div 2

\* to_key_varuint32: the length is in the leading ones of the first byte, the
\* value behind them, high bits first.
KeyLength(n) ==
    IF n < 128 THEN 1 ELSE IF n < 16384 THEN 2 ELSE IF n < 2097152 THEN 3
    ELSE IF n < 268435456 THEN 4 ELSE 5
LeadingOnes == <<0, 128, 192, 224, 240>>
BigEndian(n, length) == [i \in 1 .. length |-> (n \div 256 ^ (length - i)) % 256]
VarKey(n) ==
    LET length == KeyLength(n)
        top == IF length = 5 THEN 0 ELSE n \div 256 ^ (length - 1)
    IN <<LeadingOnes[length] + top>> \o BigEndian(n, length - 1)

\* Byte strings in the order of memcmp and std::string: by the first byte that
\* differs, unsigned, a prefix before what it is a prefix of.
Agree(s, t, n) == n <= Len(s) /\ n <= Len(t) /\ \A i \in 1 .. n : s[i] = t[i]

LexLess(s, t) ==
    \E n \in 0 .. Len(s) :
        /\ Agree(s, t, n)
        /\ n < Len(t)
        /\ n = Len(s) \/ (n < Len(s) /\ s[n + 1] < t[n + 1])

IsProperPrefix(s, t) == Len(s) < Len(t) /\ Agree(s, t, Len(s))

\* Reading digits, the highest first: the number so far times the base plus the
\* next one.  Of the digits up to each, the number.
Numbers(digits, base) ==
    LET number[i \in 0 .. Len(digits)] ==
            IF i = 0 THEN 0 ELSE base * number[i - 1] + digits[i]
    IN number
\* Writing them, the lowest first: what is left after each division by the base.
Quotients(n, base) ==
    LET left[k \in Nat] == IF k = 0 THEN n ELSE left[k - 1] \div base
    IN left

-----------------------------------------------------------------------------
\* What is written is read, both take the bytes they announce, and keys are in
\* the order of the numbers.
VarintHolds(n, other) ==
    /\ VarEnds(VarUint32(n), VarLen(n)) /\ VarValue(VarUint32(n), VarLen(n)) = n
    /\ LexLess(VarKey(n), VarKey(other)) <=> n < other
ZigZagHolds(v, width) == ZigZag(v, width) \in 0 .. 2 ^ width - 1 /\ UnZigZag(ZigZag(v, width), width) = v
=============================================================================
