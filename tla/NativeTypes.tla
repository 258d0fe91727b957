----------------------------- MODULE NativeTypes -----------------------------
(***************************************************************************)
(* C++ types as the templates of abiala see them, and abi::add_type, which *)
(* enters one into an abi (include/alaio/abi.hpp).  A type is a name here; *)
(* what overload resolution finds out about it is its kind.                *)
(*                                                                         *)
(* add_type is recursive.  activations holds the calls that are running,   *)
(* the innermost first; a step is the code between two calls.  A throw     *)
(* unwinds them all and leaves in the abi what has been entered.           *)
(***************************************************************************)
EXTENDS Integers, Sequences, FiniteSets

CONSTANTS
    CppType,    \* the C++ types
    Kind,       \* Kind[t]: which overload takes t
    Elem,       \* Elem[t]: the element, value_type or wrapped type of t
    MembersOf,  \* MembersOf[t]: what ALAIO_REFLECT lists of a struct, the
                \*   alternatives of a variant, the parts of a tuple
    TypeName,   \* TypeName[t]: get_type_name((T*)nullptr)
    Addable,    \* the types add_type is called for
    MaxCalls    \* bound: how often

Primitive == {"int8", "bool"}
Wrapping == {"vector", "optional", "might_not_exist"}
\* Only the binary overloads know the rest: "tuple" stands for pair, tuple and
\* array, "sequence" for deque and list; of a float only the bits matter here,
\* and eight of them are enough.
BinaryOnly == {"set", "sequence", "tuple", "opaque", "float"}
Kinds == Primitive \cup Wrapping \cup {"string", "map", "struct", "variant"} \cup BinaryOnly

ASSUME CppAssumption ==
    /\ IsFiniteSet(CppType) /\ Addable \subseteq CppType
    /\ Kind \in [CppType -> Kinds]
    /\ Elem \in [CppType -> CppType]
    /\ MembersOf \in [CppType -> Seq([name : STRING, type : CppType])]
    /\ TypeName \in [CppType -> STRING]
    /\ \A t \in CppType : Kind[t] \in Primitive => MembersOf[t] = <<>>

\* The types a type is made of, itself included.
Parts(t) ==
    IF Kind[t] \in Wrapping THEN {Elem[t]} ELSE {MembersOf[t][i].type : i \in DOMAIN MembersOf[t]}
WithParts(S) == S \cup UNION {Parts(t) : t \in S}
Reach(t) ==
    LET within[n \in Nat] == IF n = 0 THEN {t} ELSE WithParts(within[n - 1])
    IN within
Reached == [t \in CppType |-> Reach(t)[Cardinality(CppType)]]
MadeOf(t) == Reached[t]

\* What add_type has overloads for.  A std::variant has an alternative, a type
\* shares its name with no other, and only a builtin is called like one:
\* otherwise the abi would have the type that came first in place of both.
Used == UNION {MadeOf(t) : t \in Addable}
ASSUME UsedAssumption ==
    /\ \A t \in Used : Kind[t] \in Primitive \cup Wrapping \cup {"struct", "variant"}
    /\ \A t \in Used : Kind[t] = "variant" => MembersOf[t] # <<>>
    /\ \A t \in Used : IF Kind[t] \in Primitive THEN TypeName[t] = Kind[t] ELSE TypeName[t] \notin Primitive
    /\ \A t, u \in Used : TypeName[t] = TypeName[u] => t = u

VARIABLES
    abi, calls,     \* the abi, and the calls of add_type that have ended: [type, ok]
    activations     \* of add_type, the innermost first
addVars == <<abi, calls, activations>>

-----------------------------------------------------------------------------
\* An abi is a function from the names of its types to their nodes.
AbiNode(ser, of, fields) == [ser |-> ser, of |-> of, fields |-> fields]
Builtins == [n \in Primitive |-> AbiNode(n, n, <<>>)]

SerializerOf == [vector |-> "array", optional |-> "optional", might_not_exist |-> "extension"]

\* The check of the element: no ?, [] or $ in ? or [], no $ in $.
\* Seeded fault: only binary extensions are looked for.
MayHoldMore(wrapper, ser) == ser # "extension"
MayHold(wrapper, ser) ==
    IF wrapper = "might_not_exist" THEN ser # "extension"
    ELSE ser \notin {"optional", "array", "extension"}

\* std::map::try_emplace.
Enter(name, node) ==
    abi' = IF name \in DOMAIN abi THEN abi
           ELSE [n \in DOMAIN abi \cup {name} |-> IF n = name THEN node ELSE abi[n]]

\* s.fields.push_back, types.push_back: a member keeps its own name, an
\* alternative is called what its type is called.
FieldOf(t, i) ==
    [name |-> IF Kind[t] = "struct" THEN MembersOf[t][i].name ELSE TypeName[MembersOf[t][i].type],
     type |-> TypeName[MembersOf[t][i].type]]
PushField(t, i) == abi' = [abi EXCEPT ![TypeName[t]].fields = Append(@, FieldOf(t, i))]

-----------------------------------------------------------------------------
\* An activation begins, or waits for the call that it has made for a member or
\* for the element; at the bottom is abi::add_type, which waits for its own.
Begins(t) == [at |-> "begin", type |-> t, member |-> 0]
Awaits(t, i) == [at |-> "await", type |-> t, member |-> i]
Called(t) == [at |-> "called", type |-> t, member |-> 0]

\* A call for each member, one after the other.
CallFor(t, i) == <<Begins(MembersOf[t][i].type), Awaits(t, i)>>
FromMember(t, i) == IF i > Len(MembersOf[t]) THEN <<>> ELSE CallFor(t, i)
Continues(with) == activations' = with \o Tail(activations) /\ UNCHANGED calls
Ends(ok) ==
    /\ activations' = <<>>
    /\ calls' = Append(calls, [type |-> activations[Len(activations)].type, ok |-> ok])
Throw == Ends(FALSE) /\ UNCHANGED abi

\* abi.add_type<T>().
CallAddType(t) ==
    /\ activations = <<>> /\ Len(calls) < MaxCalls
    /\ activations' = <<Begins(t), Called(t)>>
    /\ UNCHANGED <<abi, calls>>
EndAddType(t) == activations = <<Called(t)>> /\ Ends(TRUE) /\ UNCHANGED abi

At(point, t) == activations # <<>> /\ Head(activations).at = point /\ Head(activations).type = t
Waiting == Head(activations).member

\* A builtin has to be there.
AddBasic(t) ==
    /\ At("begin", t) /\ Kind[t] \in Primitive
    /\ IF TypeName[t] \in DOMAIN abi THEN Continues(<<>>) /\ UNCHANGED abi ELSE Throw

\* A struct is entered before its members, so that it may contain itself, and
\* gets them one by one; one that the abi has already is left as it is.
AddStruct(t) ==
    /\ At("begin", t) /\ Kind[t] = "struct"
    /\ Continues(IF TypeName[t] \in DOMAIN abi THEN <<>> ELSE FromMember(t, 1))
    /\ Enter(TypeName[t], AbiNode("object", TypeName[t], <<>>))
AddField(t) ==
    /\ At("await", t) /\ Kind[t] = "struct"
    /\ PushField(t, Waiting)
    /\ Continues(FromMember(t, Waiting + 1))

\* A variant is entered after its alternatives.
AddVariant(t) ==
    At("begin", t) /\ Kind[t] = "variant" /\ Continues(CallFor(t, 1)) /\ UNCHANGED abi
AddAlternative(t) ==
    /\ At("await", t) /\ Kind[t] = "variant" /\ Continues(FromMember(t, Waiting + 1))
    /\ IF Waiting < Len(MembersOf[t]) THEN UNCHANGED abi
       ELSE Enter(TypeName[t],
                  AbiNode("variant", TypeName[t], [i \in DOMAIN MembersOf[t] |-> FieldOf(t, i)]))

\* A wrapper is checked and entered after its element.
AddElement(t) ==
    /\ At("begin", t) /\ Kind[t] \in Wrapping
    /\ Continues(<<Begins(Elem[t]), Awaits(t, 1)>>) /\ UNCHANGED abi
AddWrapper(t) ==
    /\ At("await", t) /\ Kind[t] \in Wrapping
    /\ IF MayHold(Kind[t], abi[TypeName[Elem[t]]].ser)
       THEN /\ Continues(<<>>)
            /\ Enter(TypeName[t], AbiNode(SerializerOf[Kind[t]], TypeName[Elem[t]], <<>>))
       ELSE Throw

\* An abi is empty or has the builtins, as convert enters them (abi.cpp:161).
AddInit == abi \in {<<>>, Builtins} /\ calls = <<>> /\ activations = <<>>
AddNext ==
    \/ \E t \in Addable : CallAddType(t) \/ EndAddType(t)
    \/ \E t \in Used :
           \/ AddBasic(t) \/ AddStruct(t) \/ AddField(t) \/ AddVariant(t) \/ AddAlternative(t)
           \/ AddElement(t) \/ AddWrapper(t)
AddSpec == AddInit /\ [][AddNext]_addVars

-----------------------------------------------------------------------------
\* The node that says of the abi what the C++ type says.
NodeFor(t) ==
    IF Kind[t] \in Primitive THEN Builtins[TypeName[t]]
    ELSE IF Kind[t] \in Wrapping
         THEN AbiNode(SerializerOf[Kind[t]], TypeName[Elem[t]], <<>>)
    ELSE AbiNode(IF Kind[t] = "struct" THEN "object" ELSE "variant", TypeName[t],
                 [i \in DOMAIN MembersOf[t] |-> FieldOf(t, i)])

\* A type that was added is there with all of its fields, and so is everything
\* it is made of, whatever was added before; unless an earlier call failed
\* while it was at work on a struct they share, which stays unfinished (the
\* comment at abi.hpp:254).  No node wraps what the serializers cannot take.
IsComplete(t) == TypeName[t] \in DOMAIN abi /\ abi[TypeName[t]] = NodeFor(t)
Failed == {calls[j].type : j \in {j \in DOMAIN calls : ~calls[j].ok}}
Spoilt(t) == \E f \in Failed : \E u \in MadeOf(t) \cap MadeOf(f) : Kind[u] = "struct"
AddedAreComplete ==
    \A i \in DOMAIN calls : calls[i].ok /\ ~Spoilt(calls[i].type) =>
        \A u \in MadeOf(calls[i].type) : IsComplete(u)
\* Between the calls every type that the abi has is complete, unless it is such
\* a struct, which has lost no more than its last fields: what the comment calls
\* an incomplete list of fields.
LacksFields(t) ==
    \E k \in 0 .. Len(MembersOf[t]) - 1 :
        abi[TypeName[t]] = AbiNode("object", TypeName[t], [i \in 1 .. k |-> FieldOf(t, i)])
OnlyBrokenLackFields ==
    activations = <<>> => \A t \in Used : TypeName[t] \in DOMAIN abi =>
        \/ IsComplete(t)
        \/ Kind[t] = "struct" /\ (\E f \in Failed : t \in MadeOf(f)) /\ LacksFields(t)
Wrappers == {"array", "optional", "extension"}
WrappersAreLegal ==
    \A n \in DOMAIN abi : abi[n].ser \in Wrappers =>
        /\ abi[n].of \in DOMAIN abi
        /\ abi[abi[n].of].ser \notin (IF abi[n].ser = "extension" THEN {"extension"} ELSE Wrappers)
AddedIsComplete == AddedAreComplete /\ OnlyBrokenLackFields /\ WrappersAreLegal
=============================================================================
