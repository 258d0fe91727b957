------------------------------- MODULE ChainKeys -------------------------------
(***************************************************************************)
(* Binary data as text: hexadecimal digits, checksums of fixed size, and   *)
(* keys and signatures in base 58 with a checksum of their own (crypto.cpp,*)
(* fixed_bytes.hpp, from_json.hpp).  Bytes are numbers; a character of     *)
(* base 58 is its value in base58_map, -1 if it has none.                  *)
(***************************************************************************)
EXTENDS Varints, SequencesExt

CONSTANTS
    Ripemd(_, _),   \* external: the four bytes kept of the digest of data and suffix
    PlainSize,      \* PlainSize[kind]: the bytes of a k1 or r1 key or signature
    WordSize,       \* the bytes of a word of fixed_bytes
    FixedSize       \* its size in bytes
ASSUME KeysAssumption ==
    /\ PlainSize \in [{"public", "private", "signature"} -> Nat \ {0}]
    /\ WordSize \in Nat \ {0} /\ FixedSize \in Nat
CheckSize == 4

-----------------------------------------------------------------------------
\* base58_to_binary: for every character the bytes so far, the lowest first, are
\* multiplied by 58, and it is added; a carry becomes a new byte.  Every 1 in
\* front is a byte 0.  NUL is in the map too, as 58: it is the character behind
\* the last one of base58_chars.
\* What is carried behind every one of the digits, when they are multiplied.
Carries(digits, factor, base, first) ==
    LET carry[i \in 0 .. Len(digits)] ==
            IF i = 0 THEN first ELSE (factor * digits[i] + carry[i - 1]) \div base
    IN carry
Multiplied(digits, factor, base, first) ==
    [i \in DOMAIN digits |-> (factor * digits[i] + Carries(digits, factor, base, first)[i - 1]) % base]
AddDigit(bytes, digit) ==
    LET carry == Carries(bytes, 58, 256, digit)[Len(bytes)]
        done == Multiplied(bytes, 58, 256, digit)
    IN IF carry # 0 THEN Append(done, carry) ELSE done
BytesOf(text) ==
    LET bytes[k \in 0 .. Len(text)] == IF k = 0 THEN <<>> ELSE AddDigit(bytes[k - 1], text[k])
    IN bytes[Len(text)]
LeadingZeros(s) ==
    CHOOSE n \in 0 .. Len(s) : (\A i \in 1 .. n : s[i] = 0) /\ (n < Len(s) => s[n + 1] # 0)
Zeros(n) == [i \in 1 .. n |-> 0]

IsBase58(text) == \A i \in DOMAIN text : text[i] >= 0
\* Seeded fault: the zeros in front are forgotten.
FromBase58Short(text) == Reverse(BytesOf(text))
FromBase58(text) == Zeros(LeadingZeros(text)) \o Reverse(BytesOf(text))

\* binary_to_base58 does the same with the digits, the lowest first, and 256.  The
\* carry is less than 256, and takes two digits at most.
CarryDigits(carry) ==
    IF carry = 0 THEN <<>> ELSE IF carry < 58 THEN <<carry>> ELSE <<carry % 58, carry \div 58>>
AddByte(digits, byte) ==
    Multiplied(digits, 256, 58, byte) \o CarryDigits(Carries(digits, 256, 58, byte)[Len(digits)])
DigitsOfBytes(bytes) ==
    LET digits[k \in 0 .. Len(bytes)] == IF k = 0 THEN <<>> ELSE AddByte(digits[k - 1], bytes[k])
    IN digits[Len(bytes)]
ToBase58(bytes) == Zeros(LeadingZeros(bytes)) \o Reverse(DigitsOfBytes(bytes))

-----------------------------------------------------------------------------
\* Keys and signatures: variants of k1, r1 and, but for private ones, wa.  Of a
\* wa the data says itself how long it is; here the first byte does.
TypesOf(kind) == IF kind = "private" THEN {"K1", "R1"} ELSE {"K1", "R1", "WA"}
DataSize(kind, type, data) ==
    IF type = "WA" THEN IF data = <<>> THEN 1 ELSE 1 + data[1] ELSE PlainSize[kind]

\* convert_from_bin does not look at what follows the object it reads.
CanRead(kind, type, data) == DataSize(kind, type, data) <= Len(data)
Key(kind, type, data) ==
    [kind |-> kind, type |-> type, data |-> SubSeq(data, 1, DataSize(kind, type, data))]

IsKey(key) ==
    /\ key \in [kind : DOMAIN PlainSize, type : TypesOf(key.kind), data : Seq(0 .. 255)]
    /\ Len(key.data) = DataSize(key.kind, key.type, key.data)

\* A text is a prefix and the digits behind it: PUB_K1_ and so on, with the
\* checksum over data and type; ALA, k1 with a checksum over the data alone; or
\* none, an old private key, whose first byte and checksum nobody looks at.
Typed(kind, type) == [prefix |-> kind, type |-> type]
OldPublic == [prefix |-> "ALA", type |-> "K1"]
OldPrivate == [prefix |-> "", type |-> "K1"]
KindOf(head) == CASE head = OldPublic -> "public" [] head = OldPrivate -> "private"
                  [] OTHER -> head.prefix
HashedType(head) == IF head = OldPublic THEN "" ELSE head.type

KeyText(key) ==
    [head |-> Typed(key.kind, key.type),
     digits |-> ToBase58(key.data \o Ripemd(key.data, key.type))]

Content(bytes) == SubSeq(bytes, 1, Len(bytes) - CheckSize)
Check(bytes) == SubSeq(bytes, Len(bytes) - CheckSize + 1, Len(bytes))

\* string_to_key counts the byte of the type in whole.size() > 5.
IsTypedText(text) ==
    LET bytes == FromBase58(text.digits) IN
    /\ text.head.type \in TypesOf(KindOf(text.head))
    /\ IsBase58(text.digits)
    /\ Len(bytes) + 1 > CheckSize + 1
    /\ Check(bytes) = Ripemd(Content(bytes), HashedType(text.head))
    /\ CanRead(KindOf(text.head), text.head.type, Content(bytes))
IsOldPrivate(text) ==
    LET bytes == FromBase58(text.digits) IN
    /\ IsBase58(text.digits) /\ Len(bytes) >= CheckSize + 1
    /\ CanRead("private", "K1", Tail(Content(bytes)))
IsKeyText(text) == IF text.head = OldPrivate THEN IsOldPrivate(text) ELSE IsTypedText(text)
KeyOf(text) ==
    LET content == Content(FromBase58(text.digits)) IN
    IF text.head = OldPrivate THEN Key("private", "K1", Tail(content))
    ELSE Key(KindOf(text.head), text.head.type, content)

-----------------------------------------------------------------------------
\* unhex: pairs of digits, of either case; from_json_hex refuses an odd number.
\* A character is its value as a digit, or 16.  Written are small letters.
IsHexText(text) == Len(text) % 2 = 0 /\ \A i \in DOMAIN text : text[i] < 16
Unhex(text) == [i \in 1 .. Len(text) \div 2 |-> text[2 * i - 1] * 16 + text[2 * i]]
Hex(bytes) ==
    [i \in 1 .. 2 * Len(bytes) |->
        IF i % 2 = 1 THEN bytes[(i + 1) \div 2] \div 16 ELSE bytes[i \div 2] % 16]

\* fixed_bytes: words, big-endian, so that they compare as the bytes do; the last
\* word is filled up with zeros.
Words == (FixedSize + WordSize - 1) \div WordSize
ByteAt(bytes, i) == IF i \in DOMAIN bytes THEN bytes[i] ELSE 0
WordOf(bytes, w) ==
    Numbers([i \in 1 .. WordSize |-> ByteAt(bytes, (w - 1) * WordSize + i)], 256)[WordSize]
ToWords(bytes) == [w \in 1 .. Words |-> WordOf(bytes, w)]
FromWords(words) ==
    [i \in 1 .. FixedSize |->
        LET w == ((i - 1) \div WordSize) + 1
            behind == w * WordSize - i
        IN Quotients(words[w], 256)[behind] % 256]

-----------------------------------------------------------------------------
\* Bytes come back from their digits, and digits from the bytes that they stand
\* for, unless one of them is NUL (crypto.cpp:33); zeros in front are kept.
Base58Holds(bytes) == FromBase58(ToBase58(bytes)) = bytes
DigitsHold(text) ==
    IsBase58(text) => (ToBase58(FromBase58(text)) = text <=> \A i \in DOMAIN text : text[i] < 58)

\* A key comes back from its text, which has the type in its prefix and in its
\* checksum only.
KeyHolds(key) == IsKeyText(KeyText(key)) /\ KeyOf(KeyText(key)) = key

\* Hexadecimal digits stand for one string of bytes, and are all it is.
HexHolds(bytes) == IsHexText(Hex(bytes)) /\ Unhex(Hex(bytes)) = bytes

\* Words give back the bytes and compare as they do.
WordsHold(bytes, other) ==
    /\ FromWords(ToWords(bytes)) = bytes
    /\ LexLess(ToWords(bytes), ToWords(other)) <=> LexLess(bytes, other)
=============================================================================
