------------------------------- MODULE MCAbis -------------------------------
(***************************************************************************)
(* Names and definitions for the checks of the ABI compiler: aliases and   *)
(* structs that lead through each other in every order of the map, a       *)
(* variant, every suffix, and every error.                                 *)
(***************************************************************************)
EXTENDS AbiNames

\* In the order of std::string.  "" and "nil" name nothing.
MCMapOrder ==
    <<"", "A", "A$", "A$[]", "A$[]?", "A$[]?$", "A$?", "A?", "A?$", "A?[]", "B", "B$", "B?", "B[]", "B[]$",
      "S", "S?", "T", "T?", "T[]", "V", "asset", "asset$", "extended_asset", "name", "nil">>
MCName == {MCMapOrder[i] : i \in DOMAIN MCMapOrder}

Wrapped == [optional  |-> {<<"A?", "A">>, <<"A$?", "A$">>, <<"A$[]?", "A$[]">>, <<"B?", "B">>, <<"S?", "S">>,
                           <<"T?", "T">>},
            array     |-> {<<"A$[]", "A$">>, <<"A?[]", "A?">>, <<"B[]", "B">>, <<"T[]", "T">>},
            extension |-> {<<"A$", "A">>, <<"A?$", "A?">>, <<"A$[]?$", "A$[]?">>,
                           <<"B$", "B">>, <<"B[]$", "B[]">>,
                           <<"asset$", "asset">>}]
AllWrapped == UNION {Wrapped[w] : w \in Wrapper}

MCSuffix == [n \in MCName |->
    IF \E p \in AllWrapped : p[1] = n
    THEN CHOOSE w \in Wrapper : \E p \in Wrapped[w] : p[1] = n ELSE "none"]
MCStem == [n \in MCName |->
    IF \E p \in AllWrapped : p[1] = n THEN (CHOOSE p \in AllWrapped : p[1] = n)[2] ELSE ""]

MCPrimitive == {"asset", "name"}
MCLabel == MCName \cup {"f", "quantity", "contract"}

AliasOf(n, type) == [name |-> n, kind |-> "alias_def", of |-> type, parts |-> <<>>]
StructOf(n, base, types) ==
    [name |-> n, kind |-> "struct_def", of |-> base,
     parts |-> [i \in DOMAIN types |-> [name |-> "f", type |-> types[i]]]]
VariantOf(n, types) ==
    [name |-> n, kind |-> "variant_def", of |-> "",
     parts |-> [i \in DOMAIN types |-> [name |-> types[i], type |-> types[i]]]]

\* Two aliases, of each other or of anything.
Aliases ==
    {<<AliasOf("A", a), AliasOf("B", b)>> :
        a \in MCName \ {"S", "T", "V"}, b \in MCName \ {"S?", "T?", "T[]"}}

\* Structs that inherit from one another, or from what an alias stands for.
Structs ==
    {<<AliasOf("A", a), StructOf("S", s, <<f>>), StructOf("T", t, <<"A$?">>)>> :
        a \in {"S", "T"}, s \in {"", "S"}, t \in {"S"}, f \in {"asset"}}
    \cup {<<AliasOf("A", a), StructOf("S", s, <<f>>), StructOf("T", t, <<"name">>)>> :
        a \in {"S", "T", "T?", "V"}, s \in {"", "A", "T", "extended_asset"},
        f \in {"asset", "A?", "T[]", "A$"}, t \in {"", "A", "S"}}

Variants ==
    {<<AliasOf("B", b), StructOf("S", "", <<"B?", "asset$">>), VariantOf("V", <<"B", v>>)>> :
        b \in {"asset", "S", "T", "V"}, v \in {"B[]", "B$", "B[]$", "extended_asset"}}

\* Chains as long as the limit: found in one order of the map and not the other.
Chains ==
    {<<AliasOf("A", "B"), AliasOf("B", "S"), AliasOf("S", "T"), AliasOf("T", t)>> : t \in {"V", "name"}}
    \cup {<<AliasOf("T", "S"), AliasOf("S", "B"), AliasOf("B", "A"), AliasOf("A", t)>> : t \in {"V", "name"}}
    \cup {<<StructOf("A", "B", <<f>>), StructOf("B", "S", <<>>), StructOf("S", "T", <<>>),
            StructOf("T", t, <<f>>)>> : t \in {"", "extended_asset"}, f \in {"name", "B?"}}
    \cup {<<StructOf("T", "S", <<f>>), StructOf("S", "B", <<>>), StructOf("B", "A", <<>>),
            StructOf("A", t, <<f>>)>> : t \in {"", "extended_asset"}, f \in {"name", "B?"}}

BadNames ==
    {<<AliasOf("", "asset")>>, <<StructOf("", "", <<>>)>>, <<VariantOf("", <<>>)>>,
     <<AliasOf("A", "asset"), StructOf("A", "", <<>>)>>, <<AliasOf("asset", "name")>>,
     <<StructOf("S", "", <<"asset">>), VariantOf("S", <<"asset">>)>>,
     <<StructOf("extended_asset", "", <<"name">>)>>}

\* A definition whose name ends like a wrapper, which is then not one.
Misleading ==
    {<<AliasOf("B[]", "asset"), AliasOf("A", "B[]$")>>, <<StructOf("A?", "", <<"A?[]">>)>>}

MCAbiDefs == Aliases \cup Structs \cup Variants \cup Chains \cup BadNames \cup Misleading
MCQueries == {"A?[]", "A?$", "B[]$", "T?", "A$[]?$", "nil"}
=============================================================================
