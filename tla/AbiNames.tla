------------------------------ MODULE AbiNames ------------------------------
(***************************************************************************)
(* The names and the definitions of an ABI.  A name is a value; what the   *)
(* compiler looks at in its text, the suffix and the order of the map, is  *)
(* given by constants.                                                     *)
(***************************************************************************)
EXTENDS Integers, Sequences, FiniteSets

CONSTANTS
    Name,       \* the type names that occur; "" is the missing one
    Suffix,     \* Suffix[n]: what the ?, [] or $ at the end of n stands for
    Stem,       \* Stem[n]: n without it
    Label,      \* names of fields, and of the alternatives of a variant
    Primitive,  \* the names of basic_abi_types
    MapOrder,   \* the names in the order of std::map<std::string, abi_type>
    MaxDepth    \* the limit on recursion (32)

Wrapper == {"optional", "array", "extension"}

ASSUME NameAssumption ==
    /\ {"", "asset", "name", "extended_asset"} \subseteq Name
    /\ "none" \notin Name
    /\ "waiting" \notin Name
    /\ Suffix \in [Name -> Wrapper \cup {"none"}]
    /\ Stem \in [Name -> Name]
    /\ Suffix[""] = "none"
    /\ Name \subseteq Label
    /\ Primitive \subseteq Name \ {"", "extended_asset"}
    /\ {"asset", "name"} \subseteq Primitive
    /\ MapOrder \in Seq(Name)
    /\ \A n \in Name : \E i \in DOMAIN MapOrder : MapOrder[i] = n
    /\ MaxDepth \in Nat \ {0}

NoName == "none"

\* What is still as the abi_def has it, and what resolve and get_type make.
Unresolved == {"alias_def", "struct_def", "variant_def"}
Kind == {"builtin", "alias", "struct", "variant"} \cup Wrapper \cup Unresolved

\* A field of a struct or an alternative of a variant.
Part == [name : Label, type : Name]

\* abi_type: of is the text of an alias, the name of the base of a struct, or
\* the node an alias or a wrapper points at, "" when there is none.
Node == [kind : Kind, of : Name, parts : Seq(Part)]
MakeNode(kind, of, parts) == [kind |-> kind, of |-> of, parts |-> parts]

\* abi_def: its types, then its structs, then its variants.
Definition == [name : Name, kind : Unresolved, of : Name, parts : Seq(Part)]

\* What convert puts in the map before it looks at the definitions.  Seeded fault:
\* extended_asset is put there before the types of its fields.
PrefilledTooSoon ==
    [n \in Primitive \cup {"extended_asset"} |->
        IF n = "extended_asset"
        THEN MakeNode("struct", "", <<[name |-> "quantity", type |-> NoName],
                                      [name |-> "contract", type |-> NoName]>>)
        ELSE MakeNode("builtin", "", <<>>)]

Prefilled ==
    [n \in Primitive \cup {"extended_asset"} |->
        IF n = "extended_asset"
        THEN MakeNode("struct", "", <<[name |-> "quantity", type |-> "asset"],
                                      [name |-> "contract", type |-> "name"]>>)
        ELSE MakeNode("builtin", "", <<>>)]

ASSUME LabelAssumption == {"quantity", "contract"} \subseteq Label

\* The nesting that get_type refuses: a wrapper over a binary extension, and an
\* optional or an array over one of themselves.
\* Seeded fault: an array of optionals is let through.
MayWrapMore(wrapper, kind) ==
    /\ kind # "extension"
    /\ wrapper = "optional" => kind \notin {"optional", "array"}
MayWrap(wrapper, kind) ==
    /\ kind # "extension"
    /\ wrapper \in {"optional", "array"} => kind \notin {"optional", "array"}
=============================================================================
