---------------------------- MODULE AbiRoundTrip ----------------------------
(***************************************************************************)
(* convert(abi, abi_def) and convert(abi_def, abi) again, as               *)
(* round_trip_abi does (template_test.cpp:45).  resolve never sets the     *)
(* base of a struct_, so every struct comes back with all of its fields as *)
(* its own.                                                                *)
(***************************************************************************)
EXTENDS AbiCompileInv

VARIABLE first      \* the map that was converted back, <<>> while none was

roundTripVars == <<vars, first>>

\* to_abi_def of a struct and of a variant: every pointer becomes type->name.
\* Seeded fault: a struct is taken to have a base of one field.
NamesBackOffset(t) ==
    IF t.kind = "struct" /\ t.parts # <<>> THEN Tail(t.parts) ELSE t.parts
NamesBack(t) ==
    IF t.kind = "struct" THEN t.parts
    ELSE [i \in DOMAIN t.parts |-> [name |-> t.parts[i].type, type |-> t.parts[i].type]]

DefinedAs == [alias |-> "alias_def", struct |-> "struct_def", variant |-> "variant_def"]

BackOf(map, n) ==
    [name |-> n, kind |-> DefinedAs[map[n].kind], of |-> map[n].of, parts |-> NamesBack(map[n])]

\* The loop of convert over the map: what it has put in the list of a kind after
\* i entries.
GoesBack(map, kind, n) == n \in DOMAIN map /\ map[n].kind = kind /\ n # "extended_asset"
Listed(map, kind) ==
    LET F[i \in Nat] ==
        IF i = 0 THEN <<>>
        ELSE IF i \in DOMAIN MapOrder /\ GoesBack(map, kind, MapOrder[i])
             THEN Append(F[i - 1], BackOf(map, MapOrder[i]))
        ELSE F[i - 1]
    IN F
Back(map, kind) == Listed(map, kind)[Len(MapOrder)]
AllBack(map) == Back(map, "alias") \o Back(map, "struct") \o Back(map, "variant")

RoundTripInit == Init /\ first = <<>>

\* The for loop of convert(abi, abi_def), and the beginning of convert(abi_def,
\* abi) with what it made.
ConvertBack ==
    /\ phase = "ready" /\ first = <<>>
    /\ first' = types
    /\ IF \E n \in DOMAIN types : KindOf(n) \in Unresolved
       THEN Throw("bad_abi") /\ UNCHANGED cursor
       ELSE /\ def' = AllBack(types)
            /\ phase' = "declare" /\ types' = Prefilled
            /\ next' = 1 /\ cursor' = 0 /\ query' = NoName /\ ret' = NoName
            /\ error' = "none" /\ UNCHANGED <<stack, call>>

RoundTripNext == ConvertBack \/ (Next /\ UNCHANGED first)
RoundTripSpec == RoundTripInit /\ [][RoundTripNext]_roundTripVars /\ WF_roundTripVars(Step /\ UNCHANGED first)

-----------------------------------------------------------------------------
SameParts(kind, parts, parts2) ==
    /\ Len(parts) = Len(parts2)
    /\ \A i \in DOMAIN parts : /\ parts[i].type = parts2[i].type
                               /\ kind = "struct" => parts[i].name = parts2[i].name

SameNode(node, node2) ==
    /\ node.kind = node2.kind /\ node.of = node2.of
    /\ SameParts(node.kind, node.parts, node2.parts)

\* What was compiled compiles again after it has been converted back, and every
\* type it defines is the same one, the wrappers that both maps hold included;
\* only the names of a variant's alternatives are not kept, which become those
\* of the types they stand for (abi.cpp:198-248).
RoundTripKeeps ==
    first # <<>> =>
        /\ phase # "failed"
        /\ phase = "ready" => \A n \in DOMAIN first :
               /\ first[n].kind \notin Wrapper => n \in DOMAIN types
               /\ n \in DOMAIN types => SameNode(first[n], types[n])
-----------------------------------------------------------------------------
(* Why it comes back.  get_type puts a wrapper in the map only after it    *)
(* has found what its stem stands for there, so whatever the map that is   *)
(* converted back points at can be found again from its name.              *)

\* std::map has each name once.  The limit leaves room for what is converted back,
\* which takes six levels at most, whatever it took before.
EachOnce == \A i, j \in DOMAIN MapOrder : MapOrder[i] = MapOrder[j] => i = j
DeepEnough == MaxDepth >= 6

StemFound(map, n) ==
    map[n].kind \in Wrapper =>
        IsFound(map, Stem[n]) /\ map[n].of = Target(map, Stem[n]) /\ map[n].parts = <<>>
StemsFound == \A n \in DOMAIN types : StemFound(types, n)

\* Nothing in the map is unresolved, and each node is as its name says.
WholeNode(map, n) ==
    /\ NodeSettled(map, map[n])
    /\ \/ n \in DOMAIN Prefilled /\ map[n] = Prefilled[n]
       \/ /\ n \notin DOMAIN Prefilled /\ n # ""
          /\ \/ /\ map[n].kind = "alias" /\ map[n].parts = <<>>
                /\ map[map[n].of].kind # "extension"
             \/ map[n].kind \in {"struct", "variant"} /\ map[n].of = ""
             \/ /\ map[n].kind \in Wrapper /\ map[n].kind = Suffix[n]
                /\ StemFound(map, n) /\ MayWrap(map[n].kind, map[map[n].of].kind)
Whole(map) ==
    /\ DOMAIN map \subseteq Name /\ map \in [DOMAIN map -> Node]
    /\ DOMAIN Prefilled \subseteq DOMAIN map
    /\ \A n \in DOMAIN map : WholeNode(map, n)

\* The invariant that RoundTripKeeps follows from.
RoundTripInv ==
    /\ StemsFound
    /\ first # <<>> =>
           /\ Whole(first) /\ def = AllBack(first)
           /\ phase \in {"declare", "fill", "ready", "query"}
=============================================================================
