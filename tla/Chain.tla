--------------------------------- MODULE Chain ---------------------------------
(***************************************************************************)
(* The C++ library for clients of a chain, without the encoders: a client  *)
(* exchanges a message of the state history protocol, reads or writes an   *)
(* integer, calculates with a balance, or has a value or a text of one of  *)
(* the other types, and uses one of these parts at a time.                 *)
(***************************************************************************)
EXTENDS Ship, IntegerText, AssetMath, ChainTexts, ChainTimes, ChainKeys, Varints

CONSTANT Tried      \* bound: for every kind of value or text, the ones tried
\* A symbol lacks the highest byte of a code.
Symbols == [precision : 0 .. PrecisionSize - 1, code : {c \in [1 .. CodeSize -> STRING] : c[CodeSize] = Nul}]
IsUint32(n) == n \in Nat /\ n \div 65536 < 65536
\* They are values of their types, and any texts.
ASSUME TriedAssumption ==
    \A kind \in DOMAIN Tried : \A v \in Tried[kind] :
        /\ kind = "name" => v \in [1 .. NameLength -> 0 .. 31] /\ v[NameLength] < 16
        /\ kind \in {"name text", "symbol text", "asset text"} => v \in Seq(STRING)
        /\ kind = "code" => v \in [1 .. CodeSize -> STRING]
        /\ kind = "symbol" => v \in Symbols
        /\ kind = "asset" => v \in [amount : Amounts, symbol : Symbols]
        /\ kind = "varuint32" => v \in Nat \X Nat /\ IsUint32(v[1]) /\ IsUint32(v[2])
        /\ kind = "varint32" => v \in -128 .. 127
        /\ kind = "day" => v \in Int
        /\ kind = "second" => IsSeconds(v)
        /\ kind = "slot" => v \in [day : Nat, half : Nat] /\ v.half < HalfSeconds /\ IsSlot(v)
        /\ kind = "time" => IsTimePoint(v)
        /\ kind = "bytes" => v \in Seq(0 .. 255)
        /\ kind = "base 58" => v \in Seq(-1 .. 58)
        /\ kind = "key" => IsKey(v) /\ Ripemd(v.data, v.type) \in [1 .. CheckSize -> 0 .. 255]
        /\ kind = "checksums" => v \in [1 .. FixedSize -> 0 .. 255] \X [1 .. FixedSize -> 0 .. 255]

VARIABLES
    work,           \* the part that the client uses
    held            \* a value or a text of a type that has no state
vars == <<shipVars, intVars, assetVars, work, held>>

FirstUnit == CHOOSE u \in Unit : u.valid
None == [kind |-> "none"]
Init ==
    /\ ShipInit /\ IntInit /\ AssetInit
    /\ held = None
    /\ \/ work = "message" /\ int = (CHOOSE t \in IntTypes : TRUE) /\ unit = FirstUnit
       \/ work \in {"integer", "value"} /\ int = (CHOOSE t \in IntTypes : TRUE) /\ unit = FirstUnit
       \/ work = "balance" /\ int = (CHOOSE t \in IntTypes : TRUE)

Exchange ==
    /\ work = "message" /\ UNCHANGED <<intVars, assetVars, work, held>>
    /\ (\E side \in Sides, root \in Roots : Begin(side, root)) \/ Step

ReadOrWrite == work = "integer" /\ IntNext /\ UNCHANGED <<shipVars, assetVars, work, held>>
Calculate == work = "balance" /\ AssetNext /\ UNCHANGED <<shipVars, intVars, work, held>>
Hold(kind) ==
    /\ work = "value" /\ held = None
    /\ \E v \in Tried[kind] : held' = [kind |-> kind, value |-> v]
    /\ UNCHANGED <<shipVars, intVars, assetVars, work>>

Ended ==
    \/ status \notin {"idle", "run"} \/ IntEnded \/ last.status = "trap" \/ held # None
Stay == Ended /\ UNCHANGED vars

Next ==
    \/ Exchange \/ ReadOrWrite \/ Calculate \/ Stay
    \/ \E kind \in DOMAIN Tried : Hold(kind)
Spec == Init /\ [][Next]_vars

-----------------------------------------------------------------------------
Is(kind) == held.kind = kind

\* What is written as a text or in the short form of an integer is read as what
\* it was, and a text in the form that the program writes is written again as it
\* was read: integers down to the lowest one, names with their suffixes and
\* prefixes, symbols, assets and varints.  Exempt are only codes with a byte in
\* the eighth place, which is_valid() does not see (symbol.hpp:73).
ValuesComeBack ==
    /\ IntegerComesBack
    /\ Is("name") => NameComesBack(held.value)
    /\ Is("name text") => NameMeans(held.value)
    /\ Is("code") => CodeComesBack(held.value)
    /\ Is("symbol") => SymbolComesBack(held.value)
    /\ Is("symbol text") => SymbolKept(held.value)
    /\ Is("asset") => AssetComesBack(held.value)
    /\ Is("asset text") => AssetKept(held.value)
    /\ Is("varuint32") => VarintHolds(held.value[1], held.value[2])
    /\ Is("varint32") => ZigZagHolds(held.value, 8)

\* The dates are those of the calendar, and a time comes back from its text:
\* seconds to the last one in 2106, though the days times 86400 overflow from
\* 2038 on, slots to the last one, time points whose seconds are a uint32_t to
\* the millisecond; and a time point has the slot it is in, or, before 2000, the
\* next one (chain_conversions.hpp:231-334, time.hpp).
TimesComeBack ==
    /\ Is("day") => DateHolds(held.value)
    /\ Is("second") => SecondKept(held.value)
    /\ Is("slot") => SlotKept(held.value)
    /\ Is("time") => TimeKept(held.value) /\ SlotHolds(held.value)

\* Bytes come back from base 58 and from hexadecimal digits, keys and signatures
\* from their texts, and a checksum from its words, which are in the order of
\* the bytes (crypto.cpp, fixed_bytes.hpp).
KeysComeBack ==
    /\ Is("bytes") => Base58Holds(held.value) /\ HexHolds(held.value)
    /\ Is("base 58") => DigitsHold(held.value)
    /\ Is("key") => KeyHolds(held.value)
    /\ Is("checksums") => WordsHold(held.value[1], held.value[2])
=============================================================================
