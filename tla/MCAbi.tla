------------------------------- MODULE MCAbi -------------------------------
(***************************************************************************)
(* The small ABI and the documents the TLC runs convert.  Its types are    *)
(* those of testAbi in src/test.cpp in miniature: a struct, a struct of    *)
(* trailing binary extensions, a struct that nests both in extensions, a   *)
(* variant, an optional, an array, an empty struct and a recursive struct. *)
(***************************************************************************)
EXTENDS Integers, SequencesExt, TLC

MCSpell == [n \in -128 .. 127 |-> ToString(n)]
Numerals == {MCSpell[n] : n \in -128 .. 127}
MCText == Numerals \cup {"", "a", "b", "c", "200", "true", "false", "int8", "s1", "s2"}
MCIntOf == [s \in MCText |->
    CASE s = "200" -> 200
      [] s \in Numerals -> CHOOSE n \in -128 .. 127 : MCSpell[n] = s
      [] OTHER -> 999]

F(name, type) == [name |-> name, type |-> type]
Node(ser, of, fields) == [ser |-> ser, of |-> of, fields |-> fields]

MCAbi ==
    [t \in {"int8", "bool", "bool?", "int8$", "int8[]", "v$", "s2$", "e",
            "s1", "s2", "s3", "v", "r", "r[]", "x", "x$", "e[]", "v[]", "gap"} |->
      CASE t = "int8"   -> Node("int8", t, <<>>)
        [] t = "bool"   -> Node("bool", t, <<>>)
        [] t = "bool?"  -> Node("optional", "bool", <<>>)
        [] t = "int8$"  -> Node("extension", "int8", <<>>)
        [] t = "int8[]" -> Node("array", "int8", <<>>)
        [] t = "v$"     -> Node("extension", "v", <<>>)
        [] t = "s2$"    -> Node("extension", "s2", <<>>)
        [] t = "e"      -> Node("object", t, <<>>)
        [] t = "s1"     -> Node("object", t, <<F("a", "int8[]"), F("b", "bool?")>>)
        [] t = "s2"     -> Node("object", t, <<F("a", "int8$"), F("b", "int8$")>>)
        [] t = "s3"     -> Node("object", t, <<F("a", "int8$"), F("b", "v$"), F("c", "s2$")>>)
        [] t = "v"      -> Node("variant", t, <<F("int8", "int8"), F("s1", "s1"), F("s2", "s2")>>)
        [] t = "r"      -> Node("object", t, <<F("a", "r[]")>>)
        [] t = "r[]"    -> Node("array", "r", <<>>)
        [] t = "x"      -> Node("object", t, <<F("a", "x$")>>)
        [] t = "x$"     -> Node("extension", "x", <<>>)
        [] t = "e[]"    -> Node("array", "e", <<>>)
        [] t = "v[]"    -> Node("array", "v", <<>>)
        \* used by no other type: an extension that is not a trailing field
        [] t = "gap"    -> Node("object", t, <<F("a", "int8$"), F("b", "e")>>)]

MCType == DOMAIN MCAbi
MCSer == [t \in MCType |-> MCAbi[t].ser]
MCOf == [t \in MCType |-> MCAbi[t].of]
MCFields == [t \in MCType |-> MCAbi[t].fields]

-----------------------------------------------------------------------------
(* Documents, as sequences of tokens.                                      *)

Tok(kind, text) == <<[kind |-> kind, text |-> text]>>
Str(s) == Tok("string", s)
Null == Tok("null", "")
Obj(body) == Tok("start_object", "") \o body \o Tok("end_object", "")
Arr(body) == Tok("start_array", "") \o body \o Tok("end_array", "")

Concats(S, T) == {s \o t : s \in S, t \in T}
Member(key, values) == {Tok("key", key) \o v : v \in values}

RECURSIVE Bodies(_)
\* The concatenations of one document from each set of a sequence of sets.
Bodies(sets) == IF sets = <<>> THEN {<<>>} ELSE Concats({s : s \in Head(sets)}, Bodies(Tail(sets)))

RECURSIVE Good(_, _)
\* Documents that fit type t, nesting at most depth containers.
Good(t, depth) ==
    CASE MCSer[t] = "int8" -> {Str("1")}
      [] MCSer[t] = "bool" -> {Tok("bool", "true")}
      [] MCSer[t] = "optional" -> {Null} \cup Good(MCOf[t], depth)
      [] MCSer[t] = "extension" -> Good(MCOf[t], depth)
      [] OTHER -> IF depth = 0 THEN {} ELSE
    CASE MCSer[t] = "array" ->
           {Arr(b) : b \in UNION {Bodies([i \in 1 .. n |-> Good(MCOf[t], depth - 1)]) : n \in 0 .. 2}}
      [] MCSer[t] = "variant" ->
           UNION {{Arr(Str(MCFields[t][i].name) \o v) : v \in Good(MCFields[t][i].type, depth - 1)} :
                    i \in DOMAIN MCFields[t]}
      [] MCSer[t] = "object" ->
           LET f == MCFields[t] IN
           {Obj(b) : b \in UNION {Bodies([i \in 1 .. n |->
                             Member(f[i].name, Good(f[i].type, depth - 1))]) :
                         n \in {k \in 0 .. Len(f) :
                                  \A i \in k + 1 .. Len(f) : MCSer[f[i].type] = "extension"}}}

\* Documents a caller may send where t is wanted: they fit, or they have the
\* wrong shape at this level, or the right shape with keys in any order,
\* repeated, missing or unknown.
Loose(t, depth) ==
    Good(t, depth) \cup {Null, Str("200"), Str("-1"), Tok("bool", "false"), Obj(<<>>), Arr(<<>>)} \cup
    CASE MCSer[t] = "object" ->
           LET values(key) ==
                 IF \E i \in DOMAIN MCFields[t] : MCFields[t][i].name = key
                 THEN {Null} \cup Good(MCFields[t][CHOOSE i \in DOMAIN MCFields[t] :
                                                   MCFields[t][i].name = key].type, depth - 1)
                 ELSE {Str("1")}
           IN {Obj(b) : b \in UNION {Bodies([i \in 1 .. Len(keys) |-> Member(keys[i], values(keys[i]))]) :
                                    keys \in SeqOf({"a", "b", "c"}, 3)}}
      [] MCSer[t] = "array" ->
           {Arr(b) : b \in UNION {Bodies([i \in 1 .. n |-> Good(MCOf[t], depth - 1) \cup {Null}]) :
                              n \in 0 .. 3}}
      [] MCSer[t] = "variant" ->
           {Arr(b) : b \in UNION {Concats({Str("int8"), Str("s2"), Str("0"), Null},
                                         Bodies([i \in 1 .. n |-> {Str("1"), Obj(<<>>), Null}])) :
                              n \in 0 .. 2}}
      [] OTHER -> {}

Calls(t, docs) == {[type |-> t, doc |-> d] : d \in docs}

\* Every document cut short, at every token.
Truncated(docs) == UNION {{SubSeq(d, 1, n) : n \in 0 .. Len(d) - 1} : d \in docs}
\* Documents followed by a second value.
Junk(docs) == {d \o Null : d \in docs}

FitTypes == {"int8", "bool?", "e", "s1", "s2", "v", "r", "x", "e[]"}

MCInputs ==
    UNION {Calls(t, Loose(t, 4)) : t \in FitTypes} \cup Calls("s3", Loose("s3", 3))
    \cup Calls("v[]", Good("v[]", 4))
    \cup UNION {Calls(t, Truncated(Good(t, 3)) \cup Junk(Good(t, 3))) : t \in FitTypes \cup {"s3"}}

\* The same with the ABI whose extension is not trailing, and with documents
\* twice as deep as the stack of those runs.
MCAllInputs == MCInputs \cup Calls("gap", Loose("gap", 3))
               \cup Calls("r", Good("r", 6)) \cup Calls("x", Good("x", 6))

-----------------------------------------------------------------------------
(* Binary data for the decoder: all short strings of a few bytes, which    *)
(* hold sizes, indices, flags and values alike.                            *)

ShortBlobs == SeqOf({0, 1, 2, 130}, 4) \cup SeqOf({1, 2}, 6)
\* Sizes and indices in more bytes than they need, in as many as there may be,
\* in one more and in fewer than they announce.
LongVars == {<<first>> \o [i \in 1 .. n |-> 128] \o tail :
                first \in {128, 129}, n \in 0 .. 5, tail \in {<<>>, <<0>>, <<0, 1>>, <<16>>}}

MCBlobs ==
    [type : (FitTypes \cup {"s3"}) \ {"e[]"}, data : ShortBlobs]
    \cup [type : {"v", "e[]"}, data : {d \in LongVars : Last(d) = 16 => Len(d) = 5}]
    \cup [type : {"e[]"}, data : SeqOf({0, 1, 2}, 3)] \cup [type : {"v[]"}, data : SeqOf({0, 1, 2}, 4)]

MCGapBlobs == [type : {"gap"}, data : ShortBlobs]
=============================================================================
