------------------------------ MODULE MCNative ------------------------------
(***************************************************************************)
(* C++ types whose compiled form is that of MCAbi, some that nest what may *)
(* not be nested, and some that only the binary templates know.            *)
(***************************************************************************)
EXTENDS Native, MCAbi

P(name, type) == [name |-> name, type |-> type]
CppNode(kind, elem, members) == [kind |-> kind, elem |-> elem, members |-> members]
MCCpp ==
    [t \in {"int8", "bool", "bool?", "int8$", "int8[]", "v$", "s2$", "e", "s1", "s2", "s3", "v",
            "r", "r[]", "v[]", "s2[]", "int8[][]", "w", "y", "z", "string",
            "set", "map", "deque", "pair", "pair[]", "opaque", "later", "float", "int8?", "string[]", "entry"} |->
      CASE t = "int8"     -> CppNode("int8", t, <<>>)
        [] t = "bool"     -> CppNode("bool", t, <<>>)
        [] t = "bool?"    -> CppNode("optional", "bool", <<>>)
        [] t = "int8$"    -> CppNode("might_not_exist", "int8", <<>>)
        [] t = "int8[]"   -> CppNode("vector", "int8", <<>>)
        [] t = "v$"       -> CppNode("might_not_exist", "v", <<>>)
        [] t = "s2$"      -> CppNode("might_not_exist", "s2", <<>>)
        [] t = "e"        -> CppNode("struct", t, <<>>)
        [] t = "s1"       -> CppNode("struct", t, <<P("a", "int8[]"), P("b", "bool?")>>)
        [] t = "s2"       -> CppNode("struct", t, <<P("a", "int8$"), P("b", "int8$")>>)
        [] t = "s3"       -> CppNode("struct", t, <<P("a", "int8$"), P("b", "v$"), P("c", "s2$")>>)
        [] t = "v"        -> CppNode("variant", t, <<P("", "int8"), P("", "s1"), P("", "s2")>>)
        [] t = "r"        -> CppNode("struct", t, <<P("a", "r[]")>>)
        [] t = "r[]"      -> CppNode("vector", "r", <<>>)
        [] t = "v[]"      -> CppNode("vector", "v", <<>>)
        [] t = "s2[]"     -> CppNode("vector", "s2", <<>>)
        \* std::vector<std::vector<int8_t>>, which an abi refuses, a struct with
        \* a member of that type in the middle, and two that hold that struct.
        [] t = "int8[][]" -> CppNode("vector", "int8[]", <<>>)
        [] t = "w"        -> CppNode("struct", t, <<P("a", "s1"), P("b", "int8[][]"), P("c", "int8")>>)
        [] t = "y"        -> CppNode("struct", t, <<P("a", "w"), P("b", "bool")>>)
        [] t = "z"        -> CppNode("struct", t, <<P("a", "s1"), P("b", "r")>>)
        [] t = "string"   -> CppNode("string", t, <<>>)
        [] t = "set"      -> CppNode("set", "int8", <<>>)
        [] t = "map"      -> CppNode("map", t, <<P("", "string"), P("", "int8[]")>>)
        [] t = "deque"    -> CppNode("sequence", "set", <<>>)
        [] t = "pair"     -> CppNode("tuple", t, <<P("", "set"), P("", "int8[]")>>)
        [] t = "pair[]"   -> CppNode("vector", "pair", <<>>)
        [] t = "opaque"   -> CppNode("opaque", "int8[]", <<>>)
        [] t = "later"    -> CppNode("tuple", t, <<P("", "opaque"), P("", "bool")>>)
        [] t = "float"    -> CppNode("float", t, <<>>)
        [] t = "int8?"    -> CppNode("optional", "int8", <<>>)
        [] t = "string[]" -> CppNode("vector", "string", <<>>)
        [] t = "entry"    -> CppNode("tuple", t, <<P("", "string"), P("", "int8?"), P("", "float")>>)]

MCCppType == DOMAIN MCCpp
MCKind == [t \in MCCppType |-> MCCpp[t].kind]
MCElem == [t \in MCCppType |-> MCCpp[t].elem]
MCMembers == [t \in MCCppType |-> MCCpp[t].members]
MCTypeName == [t \in MCCppType |-> t]
MCChars == [s \in {"", "a", "b", "c", "200", "nul", "nul one", "high"} |->
    CASE s = "" -> <<>> [] s = "a" -> <<97>> [] s = "b" -> <<98>>
      [] s = "c" -> <<99>> [] s = "200" -> <<50, 48, 48>>
      [] s = "nul" -> <<0>> [] s = "nul one" -> <<0, 1>> [] s = "high" -> <<255>>]

RECURSIVE ValuesOf(_, _)
\* Small objects of a type, nested no deeper than depth.
ValuesOf(t, depth) ==
    CASE MCKind[t] = "int8" -> {-128, 5}
      [] MCKind[t] = "bool" -> BOOLEAN
      [] MCKind[t] = "string" -> {"", "a", "nul", "nul one", "high"}
      [] MCKind[t] = "float" -> {0, 64, 128, 192, 193}
      [] MCKind[t] = "optional" -> {<<>>} \cup {<<v>> : v \in ValuesOf(MCElem[t], depth)}
      [] MCKind[t] = "might_not_exist" -> ValuesOf(MCElem[t], depth)
      [] MCKind[t] = "opaque" -> SeqOf({0, 130}, 2)
      [] MCKind[t] = "set" -> {<<>>, <<5>>, <<-128, 5>>, <<-128, 7>>}
      [] OTHER -> IF depth = 0 THEN {} ELSE
    CASE MCKind[t] = "map" -> {<<>>, <<<<"a", <<5>>>>>>, <<<<"a", <<>>>>, <<"b", <<7>>>>>>}
      [] MCKind[t] \in {"vector", "sequence"} -> SeqOf(ValuesOf(MCElem[t], depth - 1), 2)
      [] MCKind[t] = "variant" ->
           UNION {{<<i, v>> : v \in ValuesOf(MCMembers[t][i].type, depth - 1)} : i \in DOMAIN MCMembers[t]}
      [] OTHER ->
           LET members == MCMembers[t] IN
           IF Len(members) = 0 THEN {<<>>}
           ELSE IF Len(members) = 1 THEN {<<v>> : v \in ValuesOf(members[1].type, depth - 1)}
           ELSE IF Len(members) = 2
           THEN ValuesOf(members[1].type, depth - 1) \X ValuesOf(members[2].type, depth - 1)
           ELSE ValuesOf(members[1].type, depth - 1) \X ValuesOf(members[2].type, depth - 1)
                \X ValuesOf(members[3].type, depth - 1)

Objects(t, depth) == {[type |-> t, value |-> v] : v \in ValuesOf(t, depth)}
MCValues ==
    UNION {Objects(t, 4) : t \in {"int8", "bool?", "e", "s1", "s2", "r", "set", "map", "int8[]",
                              "deque", "pair", "later", "float", "entry", "string[]"}}
    \cup Objects("v", 2)
    \cup [type : {"s3"}, value : {5} \X {<<1, 5>>, <<2, <<<<5>>, <<TRUE>>>>>>, <<3, <<-128, 5>>>>} \X {<<5, -128>>}]
    \cup [type : {"pair[]"}, value : SeqOf({<<<<5>>, <<>>>>, <<<<-128, 7>>, <<5>>>>}, 2)]

MCDocuments ==
    UNION {Calls(t, Loose(t, 3) \cup Truncated(Good(t, 2)) \cup Junk(Good(t, 2))) :
               t \in {"int8", "bool?", "e", "s1", "s2", "v", "r"}}

MCData ==
    [type : {"int8", "bool?", "s1", "s2", "v", "r"}, data : SeqOf({0, 1}, 4)]
    \cup [type : {"s3"}, data : {<<1>> \o d : d \in SeqOf({0, 1}, 4)}]
    \cup [type : {"s2", "r"}, data : SeqOf({0, 2, 130}, 3)]
    \cup [type : {"v", "r"}, data : {d \in LongVars : Last(d) = 16 => Len(d) = 5}]
    \cup [type : {"s1"}, data : {d \o <<5, 0>> : d \in {d \in LongVars : Last(d) = 16 => Len(d) = 5}}]

MCAddable == {"bool", "bool?", "int8$", "s1", "s3", "v", "r", "v[]", "int8[][]", "w", "y", "z"}
=============================================================================
