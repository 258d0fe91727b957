----------------------------- MODULE NativeCodec -----------------------------
(***************************************************************************)
(* The templates that convert C++ objects: to_bin, from_bin, to_json and   *)
(* from_json.  They are recursive functions on the type.                   *)
(*                                                                         *)
(* A value is an Int8, a BOOLEAN, a text or bits; a tuple of values for vectors, *)
(* sets and maps (in the order of iteration), structs, tuples; <<>> or <<v>>*)
(* for an optional; <<i, v>> for the i-th alternative of a variant; what   *)
(* is inside for might_not_exist; the bytes for opaque.  The overloads     *)
(* that parse write into an object the caller has, old: several of them    *)
(* keep what they find there.                                              *)
(***************************************************************************)
EXTENDS AbiTypes, NativeTypes

CONSTANT Chars    \* Chars[s]: the bytes of the text s

RECURSIVE Default(_)
\* The value of T{}: members of the types modelled have initializers.
Default(t) ==
    CASE Kind[t] \in {"int8", "float"} -> 0
      [] Kind[t] = "bool" -> FALSE
      [] Kind[t] = "string" -> ""
      [] Kind[t] = "might_not_exist" -> Default(Elem[t])
      [] Kind[t] = "variant" -> <<1, Default(MembersOf[t][1].type)>>
      [] Kind[t] \in {"struct", "tuple"} ->
           [i \in DOMAIN MembersOf[t] |-> Default(MembersOf[t][i].type)]
      [] OTHER -> <<>>

-----------------------------------------------------------------------------
\* to_bin.  size_stream and fixed_buf_stream see the same writes.
Sized(n, bytes) == VarUint32(n) \o bytes

RECURSIVE ToBin(_, _)
Flat(t, v) == FlattenSeq([i \in DOMAIN v |-> ToBin(t, v[i])])
EachMember(t, v) == FlattenSeq([i \in DOMAIN v |-> ToBin(MembersOf[t][i].type, v[i])])

ToBin(t, v) ==
    CASE Kind[t] \in {"int8", "float"} -> <<v % 256>>
      [] Kind[t] = "bool" -> <<IF v THEN 1 ELSE 0>>
      [] Kind[t] = "string" -> Sized(Len(Chars[v]), Chars[v])
      [] Kind[t] \in {"vector", "sequence", "set"} -> Sized(Len(v), Flat(Elem[t], v))
      [] Kind[t] = "map" ->
           Sized(Len(v), FlattenSeq([i \in DOMAIN v |-> EachMember(t, v[i])]))
      [] Kind[t] = "optional" -> IF v = <<>> THEN <<0>> ELSE <<1>> \o ToBin(Elem[t], v[1])
      [] Kind[t] = "variant" -> Sized(v[1] - 1, ToBin(MembersOf[t][v[1]].type, v[2]))
      [] Kind[t] \in {"struct", "tuple"} -> EachMember(t, v)
      [] Kind[t] = "might_not_exist" -> ToBin(Elem[t], v)
      [] Kind[t] = "opaque" -> Sized(Len(v), v)

-----------------------------------------------------------------------------
\* from_bin.  What it returns: the object and the bytes left, or an exception.
Reads(v, in) == [ok |-> TRUE, value |-> v, rest |-> in]
Fails == [ok |-> FALSE, value |-> <<>>, rest |-> <<>>]
\* What comes after a call, unless it threw.
Then(call, After(_, _)) == IF call.ok THEN After(call.value, call.rest) ELSE Fails

Take(in, n) == IF n <= Len(in) THEN Reads(SubSeq(in, 1, n), SubSeq(in, n + 1, Len(in))) ELSE Fails

\* varuint32_from_bin reads five bytes at most and keeps 32 bits,
\* varuint64_from_bin ten and 64.  TooMany stands for the sizes of 2^28 and
\* more, which no data of a run has.
TooMany == 268435456
\* Seeded fault: a size is one byte.
ReadSizeByte(in, most) == IF in = <<>> THEN Fails ELSE Reads(Head(in), Tail(in))
Stops(in, n) == n \in DOMAIN in /\ in[n] < 128 /\ \A i \in 1 .. n - 1 : in[i] >= 128
ReadSize(in, most) ==
    IF \E n \in 1 .. most : Stops(in, n)
    THEN LET n == CHOOSE n \in 1 .. most : Stops(in, n)
             high == IF most = 5 THEN in[5] % 16 # 0 ELSE \E i \in 5 .. n : in[i] % 128 # 0
         IN Reads(IF n >= 5 /\ high THEN TooMany ELSE VarValue(in, IF n > 4 THEN 4 ELSE n),
                  SubSeq(in, n + 1, Len(in)))
    ELSE Fails

\* A vector of arithmetic type is read in one piece, after a varuint64 and a
\* test of the bytes there are; so is the data of an opaque.
IsBitwise(t) == Kind[t] \in {"int8", "float"}
SizeBytes(t) == IF Kind[t] = "opaque" \/ (Kind[t] = "vector" /\ IsBitwise(Elem[t])) THEN 10 ELSE 5

\* std::set::emplace and std::map::emplace: no effect if the key is there.
\* Seeded fault: the last one wins.
KeyOf(t, v) == IF Kind[t] = "map" THEN v[1] ELSE v
Before(t, v, w) ==
    IF Kind[t] = "map" THEN LexLess(Chars[v[1]], Chars[w[1]]) ELSE v < w
EmplaceOver(t, elements, v) ==
    SetToSortSeq({w \in ToSet(elements) : KeyOf(t, w) # KeyOf(t, v)} \cup {v},
                 LAMBDA a, b : Before(t, a, b))
Emplace(t, elements, v) ==
    IF \E w \in ToSet(elements) : KeyOf(t, w) = KeyOf(t, v) THEN elements
    ELSE EmplaceOver(t, elements, v)

\* What the loop over a container reads, and where it puts it.
Reading(t) == IF Kind[t] = "map" THEN MembersOf[t] ELSE <<[name |-> "", type |-> Elem[t]]>>
Into(t, elements, v) ==
    CASE Kind[t] = "map" -> Emplace(t, elements, v)
      [] Kind[t] = "set" -> Emplace(t, elements, v[1])
      [] OTHER -> Append(elements, v[1])

RECURSIVE FromBin(_, _, _), ReadMembers(_, _, _, _), ReadElements(_, _, _, _), Resized(_, _, _, _)

\* Members i and on of a struct or tuple.
ReadMembers(members, old, i, in) ==
    IF i > Len(members) THEN Reads(old, in)
    ELSE Then(FromBin(members[i].type, old[i], in),
              LAMBDA v, rest : ReadMembers(members, [old EXCEPT ![i] = v], i + 1, rest))

DefaultOf(members) == [i \in DOMAIN members |-> Default(members[i].type)]

\* n elements more, each read into a new object (from_bin_assoc,
\* from_bin_sequence, the map).
\* Seeded fault: into the object the one before was read into.
RECURSIVE ReadInto(_, _, _, _, _)
ReadInto(t, elements, n, in, object) ==
    IF n = 0 THEN Reads(elements, in)
    ELSE Then(ReadMembers(Reading(t), object, 1, in),
              LAMBDA v, rest : ReadInto(t, Into(t, elements, v), n - 1, rest, v))
ReadElementsStale(t, elements, n, in) == ReadInto(t, elements, n, in, DefaultOf(Reading(t)))
ReadElements(t, elements, n, in) ==
    IF n = 0 THEN Reads(elements, in)
    ELSE Then(ReadMembers(Reading(t), DefaultOf(Reading(t)), 1, in),
              LAMBDA v, rest : ReadElements(t, Into(t, elements, v), n - 1, rest))

\* Seeded fault: the elements are appended.
ResizedMore(t, old, size, in) == ReadElements(t, old, size, in)
\* v.resize(size), and then v[i] read over what is there.  An element takes a
\* byte or more in the runs, so one more than there are bytes is as good as any.
Resized(t, old, size, in) ==
    LET n == IF size > Len(in) + 1 THEN Len(in) + 1 ELSE size
        kept == [i \in 1 .. n |-> IF i <= Len(old) THEN old[i] ELSE Default(Elem[t])]
    IN ReadMembers([i \in 1 .. n |-> [name |-> "", type |-> Elem[t]]], kept, 1, in)

FromBin(t, old, in) ==
    CASE Kind[t] = "int8" ->
           IF in = <<>> THEN Fails ELSE Reads(((Head(in) + 128) % 256) - 128, Tail(in))
      [] Kind[t] = "float" -> IF in = <<>> THEN Fails ELSE Reads(Head(in), Tail(in))
      [] Kind[t] = "bool" -> IF in = <<>> THEN Fails ELSE Reads(Head(in) # 0, Tail(in))
      [] Kind[t] = "string" ->
           Then(ReadSize(in, 5), LAMBDA size, data :
               Then(Take(data, size), LAMBDA bytes, rest :
                   Reads(CHOOSE s \in DOMAIN Chars : Chars[s] = bytes, rest)))
      [] Kind[t] \in {"struct", "tuple"} -> ReadMembers(MembersOf[t], old, 1, in)
      [] Kind[t] = "might_not_exist" -> IF in = <<>> THEN Reads(old, in) ELSE FromBin(Elem[t], old, in)
      [] Kind[t] = "optional" ->
           Then(FromBin("bool", FALSE, in), LAMBDA present, data :
               IF ~present THEN Reads(<<>>, data)
               ELSE Then(FromBin(Elem[t], Default(Elem[t]), data), LAMBDA v, rest : Reads(<<v>>, rest)))
      [] Kind[t] = "variant" ->
           Then(ReadSize(in, 5), LAMBDA index, data :
               IF index >= Len(MembersOf[t]) THEN Fails
               ELSE LET u == MembersOf[t][index + 1].type IN
                    Then(FromBin(u, Default(u), data),
                         LAMBDA v, rest : Reads(<<index + 1, v>>, rest)))
      [] OTHER ->
           Then(ReadSize(in, SizeBytes(t)), LAMBDA size, data :
               IF Kind[t] = "opaque" THEN Take(data, size)
               ELSE IF SizeBytes(t) = 10 /\ size > Len(data) THEN Fails
               ELSE IF Kind[t] = "vector" THEN Resized(t, old, size, data)
               ELSE ReadElements(t, old, size, data))

-----------------------------------------------------------------------------
\* opaque<T>: the data of a T that is read when it is wanted.
\* unpack: false for no data.
Unpack(t, bytes) == IF bytes = <<>> THEN Fails ELSE FromBin(Elem[t], Default(Elem[t]), bytes)

\* for_each over opaque<vector<T>>: the size as a varuint64, then one object
\* after another; the result is what the function was called for.
ForEach(t, bytes) ==
    LET u == Elem[Elem[t]] IN
    Then(ReadSize(bytes, 10), LAMBDA size, data :
        IF size > Len(data) THEN Fails
        ELSE ReadMembers([i \in 1 .. size |-> [name |-> "", type |-> u]],
                         [i \in 1 .. size |-> Default(u)], 1, data))

-----------------------------------------------------------------------------
\* to_json, as tokens.
Token1(kind, text) == <<[kind |-> kind, text |-> text]>>
Enclosed(shape, body) == Token1("start_" \o shape, "") \o body \o Token1("end_" \o shape, "")

RECURSIVE ToJson(_, _)
ToJson(t, v) ==
    CASE Kind[t] = "int8" -> Token1("string", Spell[v])
      [] Kind[t] = "bool" -> Token1("bool", IF v THEN "true" ELSE "false")
      [] Kind[t] = "string" -> Token1("string", v)
      [] Kind[t] = "vector" ->
           Enclosed("array", FlattenSeq([i \in DOMAIN v |-> ToJson(Elem[t], v[i])]))
      [] Kind[t] = "map" ->
           Enclosed("object", FlattenSeq([i \in DOMAIN v |->
               Token1("key", v[i][1]) \o ToJson(MembersOf[t][2].type, v[i][2])]))
      [] Kind[t] = "optional" -> IF v = <<>> THEN Token1("null", "") ELSE ToJson(Elem[t], v[1])
      [] Kind[t] = "variant" ->
           Enclosed("array", Token1("string", TypeName[MembersOf[t][v[1]].type])
                             \o ToJson(MembersOf[t][v[1]].type, v[2]))
      [] Kind[t] = "struct" ->
           Enclosed("object", FlattenSeq([i \in DOMAIN v |->
               Token1("key", MembersOf[t][i].name) \o ToJson(MembersOf[t][i].type, v[i])]))
      [] Kind[t] = "might_not_exist" -> ToJson(Elem[t], v)

-----------------------------------------------------------------------------
\* from_json, on the reader of JsonReader: what is left is a stream.
Next1(in) == Peek(in).kind

RECURSIVE SkipValue(_, _)
\* from_json_skip_value: one token at least, and on until everything that was
\* opened is closed.
SkipValue(in, depth) ==
    LET kind == Next1(in)
        deeper == IF kind \in {"start_object", "start_array"} THEN depth + 1
                  ELSE IF kind \in {"end_object", "end_array"} THEN depth - 1 ELSE depth
    IN IF kind = "error" THEN Fails
       ELSE IF deeper = 0 THEN Reads(<<>>, Eat(in))
       ELSE SkipValue(Eat(in), deeper)

\* The first member of that name, 0 if there is none.
MemberNamed(members, key) ==
    IF \E i \in DOMAIN members : members[i].name = key
    THEN CHOOSE i \in DOMAIN members :
             members[i].name = key /\ \A j \in 1 .. i - 1 : members[j].name # key
    ELSE 0

\* result[Key(key)]: the value that is there, or a new one.
ValueAt(t, elements, key) ==
    IF \E i \in DOMAIN elements : elements[i][1] = key
    THEN elements[CHOOSE i \in DOMAIN elements : elements[i][1] = key][2]
    ELSE Default(MembersOf[t][2].type)

RECURSIVE FromJson(_, _, _), ParseElements(_, _, _), ParseMembers(_, _, _)

\* result.emplace_back() and from_json of it, up to the end of the array.
ParseElements(t, elements, in) ==
    IF Next1(in) = "end_array" THEN Reads(elements, Eat(in))
    ELSE Then(FromJson(Elem[t], Default(Elem[t]), in),
              LAMBDA v, rest : ParseElements(t, Append(elements, v), rest))

\* An entry of a map; a member of a struct, the i-th, or one it does not know.
ParseEntry(t, old, key, in) ==
    Then(FromJson(MembersOf[t][2].type, ValueAt(t, old, key), in),
         LAMBDA v, rest : ParseMembers(t, EmplaceOver(t, old, <<key, v>>), rest))
ParseMember(t, old, i, in) ==
    IF i = 0 THEN Then(SkipValue(in, 0), LAMBDA v, rest : ParseMembers(t, old, rest))
    ELSE Then(FromJson(MembersOf[t][i].type, old[i], in),
              LAMBDA v, rest : ParseMembers(t, [old EXCEPT ![i] = v], rest))

\* from_json_object.
ParseMembers(t, old, in) ==
    IF Next1(in) = "end_object" THEN Reads(old, Eat(in))
    ELSE IF Next1(in) # "key" THEN Fails
    ELSE IF Kind[t] = "map" THEN ParseEntry(t, old, Peek(in).text, Eat(in))
    ELSE ParseMember(t, old, MemberNamed(MembersOf[t], Peek(in).text), Eat(in))

\* The name first, then the value of the alternative it names, then the end.
NameOf(t, i) == TypeName[MembersOf[t][i].type]
Named(t, name) ==
    MemberNamed([i \in DOMAIN MembersOf[t] |-> [name |-> NameOf(t, i)]], name)
ParseVariant(t, in) ==
    LET i == IF Next1(in) = "string" THEN Named(t, Peek(in).text) ELSE 0
        u == MembersOf[t][i].type IN
    IF i = 0 THEN Fails
    ELSE Then(FromJson(u, Default(u), Eat(in)), LAMBDA v, rest :
             IF Next1(rest) = "end_array" THEN Reads(<<i, v>>, Eat(rest)) ELSE Fails)

\* tok is the next token.
Value(t, old, in, tok) ==
    CASE Kind[t] = "int8" ->
           IF tok.kind = "string" /\ Parses("int8", tok.text)
           THEN Reads(IntOf[tok.text], Eat(in)) ELSE Fails
      [] Kind[t] = "bool" ->
           IF tok.kind = "bool" THEN Reads(tok.text = "true", Eat(in)) ELSE Fails
      [] Kind[t] = "string" ->
           IF tok.kind = "string" THEN Reads(tok.text, Eat(in)) ELSE Fails
      [] Kind[t] = "might_not_exist" -> FromJson(Elem[t], old, in)
      [] Kind[t] = "optional" ->
           IF tok.kind = "null" THEN Reads(<<>>, Eat(in))
           ELSE Then(FromJson(Elem[t], Default(Elem[t]), in), LAMBDA v, rest : Reads(<<v>>, rest))
      [] Kind[t] = "vector" ->
           IF tok.kind = "start_array" THEN ParseElements(t, old, Eat(in)) ELSE Fails
      [] Kind[t] = "variant" ->
           IF tok.kind = "start_array" THEN ParseVariant(t, Eat(in)) ELSE Fails
      [] Kind[t] \in {"struct", "map"} ->
           IF tok.kind = "start_object" THEN ParseMembers(t, old, Eat(in)) ELSE Fails
FromJson(t, old, in) == Value(t, old, in, Peek(in))

-----------------------------------------------------------------------------
(* Sort keys: to_key turns a C++ object into bytes that sort, as strings   *)
(* do, where the object sorts among others of its type.  Next to it the    *)
(* order the objects have in C++: operator< of the standard containers,    *)
(* and alaio_compare for reflected structs.                                *)

\* float_to_key on the bits of a float of eight bits: the negative ones turned
\* round, the others moved above them, -0 made 0.
SignBit == 128
FloatKey(bits) ==
    IF bits = SignBit THEN SignBit
    ELSE IF bits > SignBit THEN 255 - bits ELSE bits + SignBit

\* A NUL in a text, and a byte that is one in a container, is followed by \1;
\* NUL NUL is the end.
Escaped(byte) == IF byte = 0 THEN <<0, 1>> ELSE <<byte>>
End == <<0, 0>>
IsByte(t) == Kind[t] \in {"int8", "bool"}

RECURSIVE ToKey(_, _)
\* to_key_optional.
\* Seeded fault: bytes are not escaped.
KeyPresentRaw(t, v) == IF IsByte(t) THEN ToKey(t, v) ELSE <<1>> \o ToKey(t, v)
KeyPresent(t, v) ==
    IF IsByte(t) THEN Escaped(ToKey(t, v)[1]) ELSE <<1>> \o ToKey(t, v)
KeyAbsent(t) == IF IsByte(t) THEN End ELSE <<0>>

\* A map iterates over pairs, which are not bytes.
KeyEntry(t, v) == <<1>> \o ToKey(MembersOf[t][1].type, v[1]) \o ToKey(MembersOf[t][2].type, v[2])

ToKey(t, v) ==
    CASE Kind[t] = "int8" -> <<v + 128>>
      [] Kind[t] = "bool" -> <<IF v THEN 1 ELSE 0>>
      [] Kind[t] = "float" -> <<FloatKey(v)>>
      [] Kind[t] = "string" ->
           FlattenSeq([i \in DOMAIN Chars[v] |-> Escaped(Chars[v][i])]) \o End
      [] Kind[t] = "optional" -> IF v = <<>> THEN KeyAbsent(Elem[t]) ELSE KeyPresent(Elem[t], v[1])
      [] Kind[t] \in {"vector", "sequence", "set"} ->
           FlattenSeq([i \in DOMAIN v |-> KeyPresent(Elem[t], v[i])]) \o KeyAbsent(Elem[t])
      [] Kind[t] = "map" -> FlattenSeq([i \in DOMAIN v |-> KeyEntry(t, v[i])]) \o <<0>>
      [] Kind[t] = "variant" -> VarKey(v[1] - 1) \o ToKey(MembersOf[t][v[1]].type, v[2])
      [] Kind[t] \in {"struct", "tuple"} ->
           FlattenSeq([i \in DOMAIN v |-> ToKey(MembersOf[t][i].type, v[i])])

-----------------------------------------------------------------------------
\* a < b in C++.  Magnitude and sign order floats; the two zeros are equal.
FloatValue(bits) == IF bits >= SignBit THEN SignBit - bits ELSE bits

RECURSIVE Less(_, _, _)
\* The first member or element that differs decides, by operator< both ways.
Same(t, v, w) == ~Less(t, v, w) /\ ~Less(t, w, v)
FirstDecides(types, v, w) ==
    \E i \in DOMAIN v \cap DOMAIN w :
        Less(types[i], v[i], w[i]) /\ \A j \in 1 .. i - 1 : Same(types[j], v[j], w[j])
StartOf(types, v, w) == Len(v) < Len(w) /\ \A i \in DOMAIN v : Same(types[i], v[i], w[i])
TypesOf(t) == [i \in DOMAIN MembersOf[t] |-> MembersOf[t][i].type]
LessEntry(t, v, w) == FirstDecides(TypesOf(t), v, w)

Less(t, v, w) ==
    CASE Kind[t] = "int8" -> v < w
      [] Kind[t] = "bool" -> ~v /\ w
      [] Kind[t] = "float" -> FloatValue(v) < FloatValue(w)
      [] Kind[t] = "string" -> LexLess(Chars[v], Chars[w])
      [] Kind[t] = "optional" -> w # <<>> /\ (v = <<>> \/ Less(Elem[t], v[1], w[1]))
      [] Kind[t] = "variant" ->
           v[1] < w[1] \/ (v[1] = w[1] /\ Less(MembersOf[t][v[1]].type, v[2], w[2]))
      [] Kind[t] \in {"vector", "sequence", "set"} ->
           LET types == [i \in 1 .. Len(v) + Len(w) |-> Elem[t]]
           IN FirstDecides(types, v, w) \/ StartOf(types, v, w)
      [] Kind[t] = "map" ->
           \/ \E i \in DOMAIN v \cap DOMAIN w :
                  LessEntry(t, v[i], w[i])
                  /\ \A j \in 1 .. i - 1 : ~LessEntry(t, v[j], w[j]) /\ ~LessEntry(t, w[j], v[j])
           \/ Len(v) < Len(w)
              /\ \A i \in DOMAIN v : ~LessEntry(t, v[i], w[i]) /\ ~LessEntry(t, w[i], v[i])
      [] Kind[t] \in {"struct", "tuple"} -> FirstDecides(TypesOf(t), v, w)
=============================================================================
