------------------------------ MODULE AbiTypes ------------------------------
(***************************************************************************)
(* A compiled ABI as the serializers see it: the graph of alaio::abi_type  *)
(* nodes, each with its serializer, the type it wraps and its fields, and  *)
(* the two primitives the models carry (int8 and bool, one byte each).     *)
(***************************************************************************)
EXTENDS JsonReader, Varints

CONSTANTS
    Type,     \* the nodes of the ABI's type graph
    Ser,      \* Ser[t]: which abi_serializer type->ser points to
    Of,       \* Of[t]: optional_of(), extension_of() or array_of() of t
    Fields,   \* Fields[t]: as_struct()->fields, bases included, or *as_variant()
    IntOf,    \* IntOf[s]: the integer the text s spells, NotAnInt if none
    Spell     \* Spell[n]: the text to_json writes for the int8 n

NotAnInt == 999
Serializer == {"int8", "bool", "optional", "extension", "array", "object", "variant"}
Wrapper == {"optional", "extension", "array"}
Field == [name : Text, type : Type]

Byte == 0 .. 255
Int8 == -128 .. 127

ASSUME AbiAssumption ==
    /\ Ser \in [Type -> Serializer]
    /\ Of \in [Type -> Type]
    /\ Fields \in [Type -> Seq(Field)]
    /\ "none" \notin Type
    /\ IntOf \in [Text -> Int]
    /\ Spell \in [Int8 -> Text]
    /\ \A n \in Int8 : IntOf[Spell[n]] = n

\* What get_type refuses to build: ?, [] and $ over a binary extension, and
\* ? or [] over one of themselves.
ASSUME NestingAssumption ==
    \A t \in Type : Ser[t] \in Wrapper =>
        /\ Ser[Of[t]] # "extension"
        /\ Ser[t] \in {"optional", "array"} => Ser[Of[t]] \notin {"optional", "array"}

IsExtension(t) == Ser[t] = "extension"

\* from_json of a primitive: the kind of token it wants and the texts it takes.
TokenFor == [int8 |-> "string", bool |-> "bool"]
Parses(prim, text) == prim = "int8" => IntOf[text] \in Int8

\* to_bin of what was parsed: an int8 is its two's complement, a bool is 0 or 1.
\* Seeded faults: no two's complement, and one of seven bits.
PrimByteRaw(prim, text) ==
    IF prim = "int8" THEN IntOf[text] ELSE IF text = "true" THEN 1 ELSE 0
PrimByteShort(prim, text) ==
    IF prim = "int8" THEN IntOf[text] % 128 ELSE IF text = "true" THEN 1 ELSE 0
PrimByte(prim, text) ==
    IF prim = "int8" THEN IntOf[text] % 256 ELSE IF text = "true" THEN 1 ELSE 0

\* from_bin and to_json of a primitive: the tokens a byte may come out as.  A
\* byte other than 0 and 1 read into a bool is undefined behaviour: either.
PrimTokens(prim, byte) ==
    IF prim = "int8"
    THEN {[kind |-> "string", text |-> Spell[IF byte < 128 THEN byte ELSE byte - 256]]}
    ELSE {[kind |-> "bool", text |-> t] : t \in
             IF byte = 0 THEN {"false"} ELSE IF byte = 1 THEN {"true"} ELSE {"false", "true"}}

\* find_if over the alternatives of a variant: the first one of that name.
Names(alternatives, i, text) ==
    /\ i \in DOMAIN alternatives /\ alternatives[i].name = text
    /\ \A j \in 1 .. i - 1 : alternatives[j].name # text
=============================================================================
