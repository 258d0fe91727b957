-------------------------------- MODULE Ship --------------------------------
(***************************************************************************)
(* A message of the state history protocol that one side writes by one of  *)
(* its two descriptions, the abi and the C++ types, and the other side     *)
(* reads by the other, field by field.  Nothing in a message says what the *)
(* next bytes are: both sides follow their own list of fields, and the     *)
(* flags, sizes and indexes that the writer chooses.                       *)
(***************************************************************************)
EXTENDS ShipTypes, Integers, Functions

CONSTANTS
    MaxElements,    \* bound: the elements of an array
    MaxFields       \* bound: fields left to write when an element is opened
ASSUME BoundsAssumption == MaxElements \in Nat /\ MaxFields \in Nat

VARIABLES
    from,       \* the description the writer follows
    writes,     \* the fields the writer has still to write
    reads,      \* the fields the reader expects
    status
shipVars == <<from, writes, reads, status>>

Sides == {"cpp", "abi"}
Other(side) == IF side = "cpp" THEN "abi" ELSE "cpp"
Structs == [cpp |-> CppStructs, abi |-> AbiStructs]
Bases == [cpp |-> CppBases, abi |-> AbiBases]
Variants == [cpp |-> CppVariants, abi |-> AbiVariants]
Aliases == [cpp |-> CppAliases, abi |-> AbiAliases]

RealType(side, type) ==
    IF type \in DOMAIN Aliases[side] THEN Aliases[side][type] ELSE type
\* The binary form of a primitive, "none" for anything else.
WireType(side, type) ==
    IF side = "cpp" THEN IF type \in DOMAIN AbiNameOf THEN AbiNameOf[type] ELSE "none"
    ELSE IF type \in Range(AbiNameOf) THEN type ELSE "none"

\* The fields in the order they are written, those of the base first.  in is
\* the struct that declares them.
\* Seeded fault: the reflection of a base is forgotten.
FieldsOwn(side, s) == [i \in DOMAIN Structs[side][s] |-> Structs[side][s][i] @@ [in |-> s]]
FieldsOf(side, s) ==
    LET fields[t \in DOMAIN Structs[side]] ==
            (IF t \in DOMAIN Bases[side] THEN fields[Bases[side][t]] ELSE <<>>)
            \o [i \in DOMAIN Structs[side][t] |-> Structs[side][t][i] @@ [in |-> t]]
    IN fields[s]

Message(type) == <<F("message", type) @@ [in |-> type]>>
\* Messages that both know under one name, and the block both know under two.
Roots ==
    {[cpp |-> t, abi |-> t] : t \in (DOMAIN CppVariants \cap DOMAIN AbiVariants)
                                   \cup (DOMAIN CppStructs \cap DOMAIN AbiStructs)}
    \cup {[cpp |-> "signed_block", abi |-> "signed_block_v0"]}

ShipInit == from = "abi" /\ writes = <<>> /\ reads = <<>> /\ status = "idle"

Begin(side, root) ==
    /\ status = "idle"
    /\ from' = side /\ writes' = Message(root[side]) /\ reads' = Message(root[Other(side)])
    /\ status' = "run"

-----------------------------------------------------------------------------
W == Head(writes)
R == Head(reads)
WriterType == RealType(from, W.type)
ReaderType == RealType(Other(from), R.type)
Alternatives(side, type) == Variants[side][RealType(side, type)]

\* Both are at a field of that name and one of these wrappers.
Both(writerWraps, readerWraps) ==
    /\ status = "run" /\ writes # <<>> /\ reads # <<>>
    /\ W.name = R.name /\ W.wrap \in writerWraps /\ R.wrap \in readerWraps
Plain == Both({"plain"}, {"plain"})

Go(front, behind) ==
    /\ writes' = front \o Tail(writes) /\ reads' = behind \o Tail(reads)
    /\ UNCHANGED <<from, status>>
Stop(result) == status' = result /\ UNCHANGED <<from, writes, reads>>

SamePrimitive ==
    /\ WireType(from, WriterType) # "none"
    /\ WireType(from, WriterType) = WireType(Other(from), ReaderType)
Primitive == Plain /\ SamePrimitive /\ Go(<<>>, <<>>)

BothStructs == WriterType \in DOMAIN Structs[from] /\ ReaderType \in DOMAIN Structs[Other(from)]
Struct ==
    /\ Plain /\ BothStructs
    /\ Go(FieldsOf(from, WriterType), FieldsOf(Other(from), ReaderType))

BothVariants == WriterType \in DOMAIN Variants[from] /\ ReaderType \in DOMAIN Variants[Other(from)]
Alternative(side, f, i) == <<[f EXCEPT !.type = Alternatives(side, f.type)[i]]>>

\* The writer writes an index; the reader takes the alternative that it has
\* there, or refuses.
Variant(i) ==
    /\ Plain /\ BothVariants /\ i \in DOMAIN Alternatives(from, W.type)
    /\ IF i \in DOMAIN Alternatives(Other(from), R.type)
       THEN Go(Alternative(from, W, i), Alternative(Other(from), R, i))
       ELSE Stop("refused")

Element(f) == [f EXCEPT !.wrap = "plain"]

\* A size and that many elements, a flag and what it announces; a vector of at
\* most one element takes the place of an optional in transaction_trace_v0.
MayHave(n) ==
    /\ n > 0 => Len(writes) <= MaxFields
    /\ "optional" \in {W.wrap, R.wrap} => n <= 1
Container(n) ==
    /\ Both({"optional", "array"}, {"optional", "array"})
    /\ MayHave(n)
    /\ Go([i \in 1 .. n |-> Element(W)], [i \in 1 .. n |-> Element(R)])

\* might_not_exist is always written; the encoders of the abi leave it out when
\* the document ends before it.
Extension == Both({"extension"}, {"extension"}) /\ Go(<<Element(W)>>, <<Element(R)>>)
LeaveOut ==
    /\ status = "run" /\ from = "abi" /\ Len(writes) = 1 /\ W.wrap = "extension"
    /\ writes' = <<>> /\ UNCHANGED <<from, reads, status>>
NothingLeft ==
    /\ status = "run" /\ writes = <<>> /\ reads # <<>> /\ R.wrap = "extension"
    /\ reads' = Tail(reads) /\ UNCHANGED <<from, writes, status>>

\* The end: all was read, or more follows than the reader expects.
EndMessage ==
    /\ status = "run" /\ reads = <<>>
    /\ Stop(IF writes = <<>> THEN "ok" ELSE "extra")

\* Whatever the reader makes of the bytes, it is not what was written.
Understood ==
    \/ Plain /\ (SamePrimitive \/ BothStructs \/ BothVariants)
    \/ Both({"optional", "array"}, {"optional", "array"})
    \/ Both({"extension"}, {"extension"})
Misread ==
    /\ status = "run" /\ reads # <<>> /\ ~Understood
    /\ ~(writes = <<>> /\ R.wrap = "extension")
    /\ Stop("misread")

Step ==
    \/ Primitive \/ Struct \/ Extension \/ LeaveOut \/ NothingLeft \/ EndMessage \/ Misread
    \/ \E i \in 1 .. 4 : Variant(i)
    \/ \E n \in 0 .. MaxElements : Container(n)

-----------------------------------------------------------------------------
\* The two descriptions, written by hand in two files, are of one format.  What
\* one side writes the other reads as what it is, member by member and under
\* the same names, with these differences only: the abi's action_trace_v1 has
\* account_disk_deltas, which the C++ struct lacks; the abi knows newer
\* alternatives, whose index the C++ variants refuse; global_property_v1 ends
\* with wasm_configuration in C++; and the alternatives of
\* transaction_variant_v0 have other names.  This is also what makes a vector of
\* at most one transaction trace an optional one (ship_protocol.hpp:273).
SameNames ==
    status = "run" /\ writes # <<>> /\ reads # <<>> /\ Plain /\ BothVariants =>
        \A i \in DOMAIN Alternatives(from, W.type) \cap DOMAIN Alternatives(Other(from), R.type) :
            \/ Alternatives(from, W.type)[i] = Alternatives(Other(from), R.type)[i]
            \/ WriterType = "transaction_variant_v0"
DescriptionsAgree ==
    /\ status = "misread" => W.in = "action_trace_v1" /\ R.in = "action_trace_v1"
    /\ status = "refused" => from = "abi"
    /\ status = "extra" => from = "cpp" /\ W.name = "wasm_configuration"
    /\ SameNames
=============================================================================
