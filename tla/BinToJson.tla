------------------------------ MODULE BinToJson ------------------------------
(***************************************************************************)
(* abiala_bin_to_json: the decoder (src/abiala.hpp, bin_to_json_state).    *)
(*                                                                         *)
(* A stack machine like the encoder JsonToBin, and as there a serializer   *)
(* that starts another one does so last: the variable call holds the start *)
(* until the next step.  The text written is kept as lexemes, commas and   *)
(* colons among them, because the serializers write those themselves and   *)
(* may get them wrong.                                                     *)
(***************************************************************************)
EXTENDS AbiTypes

CONSTANTS
    Blobs,      \* the calls made: records [type, data]
    MaxStack    \* max_stack_size, 128 in the code

ASSUME BlobsAssumption == Blobs \subseteq [type : Type, data : Seq(Byte)]
ASSUME MaxStackAssumption == MaxStack \in Nat \ {0}

VARIABLES
    data,     \* state.bin: the bytes not read yet
    stack,    \* state.stack
    text,     \* state.writer: the lexemes written
    skipped,  \* state.skipped_extension, which nothing reads
    call,     \* the serializer started next, NoCall if the loop resumes one
    status

vars == <<data, stack, text, skipped, call, status>>

Lexeme == [kind : TokenKind \cup {"comma", "colon"}, text : Text]
Entry == [type : Type, allow : BOOLEAN, position : Nat \cup {-1}, size : Nat]
Call == [type : Type, allow : BOOLEAN]
NoCall == [type |-> "none", allow |-> FALSE]

Errors == {"overrun", "invalid_varuint_encoding", "bad_variant_index",
           "recursion_limit_reached", "extra_data"}
Status == {"idle", "run", "ok"} \cup Errors

Top == Last(stack)
WithTopEntry(e) == [stack EXCEPT ![Len(stack)] = e]
Mark(kind) == [kind |-> kind, text |-> ""]
Named(kind, name) == [kind |-> kind, text |-> name]
NewEntry == [type |-> call.type, allow |-> call.allow, position |-> -1, size |-> 0]
\* if (position != 0) write(',')
\* Seeded fault: a comma before every member.
CommaAlways(position) == <<Mark("comma")>>
Comma(position) == IF position = 0 THEN <<>> ELSE <<Mark("comma")>>

Init ==
    /\ data = <<>> /\ stack = <<>> /\ text = <<>>
    /\ skipped = FALSE /\ call = NoCall /\ status = "idle"

\* bin_to_json(bin, type, dest): start the root type, extensions allowed.
Begin(b) ==
    /\ status = "idle"
    /\ data' = b.data
    /\ call' = [type |-> b.type, allow |-> TRUE]
    /\ status' = "run"
    /\ UNCHANGED <<stack, text, skipped>>

Fail(error) == status' = error /\ UNCHANGED <<data, stack, text, skipped, call>>

Start(ser) == status = "run" /\ call # NoCall /\ Ser[call.type] = ser

\* The loop tests the depth after a resume and everything it started, that is
\* before the next one.
\* Seeded fault: the driver does not look at the depth.
ResumeAnyDepth(ser) ==
    /\ status = "run" /\ call = NoCall /\ stack # <<>>
    /\ Ser[Top.type] = ser
Resume(ser) ==
    /\ status = "run" /\ call = NoCall /\ stack # <<>>
    /\ Len(stack) <= MaxStack
    /\ Ser[Top.type] = ser

-----------------------------------------------------------------------------
(* Serializers without an entry of their own.                              *)

StartPrimitive(prim) ==
    /\ Start(prim)
    /\ \/ data = <<>> /\ Fail("overrun")
       \/ /\ data # <<>>
          /\ \E tok \in PrimTokens(prim, Head(data)) : text' = Append(text, tok)
          /\ data' = Tail(data)
          /\ call' = NoCall
          /\ UNCHANGED <<stack, skipped, status>>

\* The flag is read as a bool: a byte other than 0 and 1 may go either way.
StartOptional ==
    /\ Start("optional")
    /\ \/ data = <<>> /\ Fail("overrun")
       \/ /\ data # <<>> /\ Head(data) # 1
          /\ text' = Append(text, Mark("null"))
          /\ data' = Tail(data)
          /\ call' = NoCall
          /\ UNCHANGED <<stack, skipped, status>>
       \/ /\ data # <<>> /\ Head(data) # 0
          /\ data' = Tail(data)
          /\ call' = [call EXCEPT !.type = Of[call.type]]
          /\ UNCHANGED <<stack, text, skipped, status>>

\* Seeded fault: the extension starts itself instead of the type it wraps.
StartExtensionAgain == Start("extension") /\ UNCHANGED vars

StartExtension ==
    /\ Start("extension")
    /\ call' = [call EXCEPT !.type = Of[call.type]]
    /\ UNCHANGED <<data, stack, text, skipped, status>>

-----------------------------------------------------------------------------
(* pseudo_object.                                                          *)

StartObject ==
    /\ Start("object")
    /\ stack' = Append(stack, NewEntry)
    /\ text' = Append(text, Mark("start_object"))
    /\ call' = NoCall
    /\ UNCHANGED <<data, skipped, status>>

ResumeObject ==
    /\ Resume("object")
    /\ LET fields == Fields[Top.type]
           position == Top.position + 1
           field == fields[position + 1]
       IN \/ /\ position < Len(fields)
             /\ data = <<>> /\ IsExtension(field.type) /\ Top.allow
             /\ stack' = WithTopEntry([Top EXCEPT !.position = position])
             /\ skipped' = TRUE
             /\ UNCHANGED <<data, text, call, status>>
          \/ /\ position < Len(fields)
             /\ ~(data = <<>> /\ IsExtension(field.type) /\ Top.allow)
             /\ text' = text \o Comma(position) \o <<Named("key", field.name), Mark("colon")>>
             /\ stack' = WithTopEntry([Top EXCEPT !.position = position])
             /\ call' = [type |-> field.type, allow |-> Top.allow /\ position + 1 = Len(fields)]
             /\ UNCHANGED <<data, skipped, status>>
          \/ /\ position >= Len(fields)
             /\ text' = Append(text, Mark("end_object"))
             /\ stack' = Front(stack)
             /\ UNCHANGED <<data, call, skipped, status>>

-----------------------------------------------------------------------------
(* Sizes and indices: read a varuint32 and go on with it.                  *)

Drop(n) == SubSeq(data, n + 1, Len(data))
NoVar ==
    /\ \A n \in DOMAIN data : ~VarEnds(data, n)
    /\ Fail(IF Len(data) < 5 THEN "overrun" ELSE "invalid_varuint_encoding")

(* pseudo_array.                                                           *)

StartArray ==
    /\ Start("array")
    /\ \/ \E n \in DOMAIN data :
             /\ VarEnds(data, n)
             /\ data' = Drop(n)
             /\ stack' = Append(stack, [NewEntry EXCEPT !.allow = FALSE,
                                                        !.size = VarValue(data, n)])
             /\ text' = Append(text, Mark("start_array"))
             /\ call' = NoCall
             /\ UNCHANGED <<skipped, status>>
       \/ NoVar

ResumeArray ==
    /\ Resume("array")
    /\ LET position == Top.position + 1 IN
       \/ /\ position < Top.size
          /\ text' = text \o Comma(position)
          /\ stack' = WithTopEntry([Top EXCEPT !.position = position])
          /\ call' = [type |-> Of[Top.type], allow |-> FALSE]
          /\ UNCHANGED <<data, skipped, status>>
       \/ /\ position >= Top.size
          /\ text' = Append(text, Mark("end_array"))
          /\ stack' = Front(stack)
          /\ UNCHANGED <<data, call, skipped, status>>

(* pseudo_variant.                                                         *)

StartVariant ==
    /\ Start("variant")
    /\ stack' = Append(stack, NewEntry)
    /\ text' = Append(text, Mark("start_array"))
    /\ call' = NoCall
    /\ UNCHANGED <<data, skipped, status>>

VariantName(n) ==
    LET alternatives == Fields[Top.type]
        index == VarValue(data, n)
    IN /\ VarEnds(data, n)
       /\ \/ /\ index < Len(alternatives)
             /\ data' = Drop(n)
             /\ text' = text \o <<Named("string", alternatives[index + 1].name), Mark("comma")>>
             /\ stack' = WithTopEntry([Top EXCEPT !.position = 0])
             /\ call' = [type |-> alternatives[index + 1].type, allow |-> Top.allow]
             /\ UNCHANGED <<skipped, status>>
          \/ index >= Len(alternatives) /\ Fail("bad_variant_index")

ResumeVariant ==
    /\ Resume("variant")
    /\ \/ Top.position = -1 /\ \E n \in DOMAIN data : VariantName(n)
       \/ Top.position = -1 /\ NoVar
       \/ /\ Top.position >= 0
          /\ text' = Append(text, Mark("end_array"))
          /\ stack' = Front(stack)
          /\ UNCHANGED <<data, call, skipped, status>>

-----------------------------------------------------------------------------
StackOverflow ==
    /\ status = "run" /\ call = NoCall
    /\ Len(stack) > MaxStack
    /\ Fail("recursion_limit_reached")

\* The loop is over; the C function takes unread bytes for an error.
EndOfLoop ==
    /\ status = "run" /\ call = NoCall /\ stack = <<>>
    /\ status' = IF data = <<>> THEN "ok" ELSE "extra_data"
    /\ UNCHANGED <<data, stack, text, skipped, call>>

Terminated == status \in {"ok"} \cup Errors /\ UNCHANGED vars

Step ==
    \/ \E prim \in DOMAIN TokenFor : StartPrimitive(prim)
    \/ StartOptional \/ StartExtension
    \/ StartObject \/ ResumeObject
    \/ StartArray \/ ResumeArray
    \/ StartVariant \/ ResumeVariant
    \/ StackOverflow \/ EndOfLoop

Next == (\E b \in Blobs : Begin(b)) \/ Step \/ Terminated

Spec == Init /\ [][Next]_vars
FairSpec == Spec /\ WF_vars(Step)

-----------------------------------------------------------------------------
(* What makes the decoder correct.                                         *)

\* One start may go one entry beyond max_stack_size before the loop tests the
\* depth, and never further.
TypeOK ==
    /\ data \in Seq(Byte)
    /\ stack \in Seq(Entry) /\ Len(stack) <= MaxStack + 1
    /\ text \in Seq(Lexeme)
    /\ skipped \in BOOLEAN
    /\ call \in Call \cup {NoCall}
    /\ status \in Status

\* Which lexeme may follow which in JSON.
EndsValue == {"null", "bool", "string", "end_object", "end_array"}
Follows(prev, next) ==
    CASE next = "comma"      -> prev \in EndsValue
      [] next = "end_object" -> prev \in EndsValue \cup {"start_object"}
      [] next = "end_array"  -> prev \in EndsValue \cup {"start_array"}
      [] next = "key"        -> prev \in {"start_object", "comma"}
      [] next = "colon"      -> prev = "key"
      [] OTHER               -> prev \in {"colon", "start_array", "comma"}
Punctuated(lexemes) ==
    \A i \in 2 .. Len(lexemes) : Follows(lexemes[i - 1].kind, lexemes[i].kind)

\* What a JSON reader makes of lexemes: Contexts(lexemes)[n] is what it has
\* open after n of them.  Commas and colons go by without it.
Punctuation == {"comma", "colon"}
After(open, lexeme) ==
    IF lexeme.kind \in Punctuation THEN open ELSE Advance(open, lexeme.kind)
Contexts(lexemes) ==
    LET open[n \in 0 .. Len(lexemes)] ==
            IF n = 0 THEN <<"root">> ELSE After(open[n - 1], lexemes[n])
    IN open
Accepted(lexemes) ==
    \A n \in 1 .. Len(lexemes) :
        lexemes[n].kind \in Punctuation
        \/ Expects(Last(Contexts(lexemes)[n - 1]), lexemes[n].kind)
OpenNow == Contexts(text)[Len(text)]

\* The tokens of the text, for whoever reads it.
Tokens == SelectSeq(text, LAMBDA lexeme : lexeme.kind \notin Punctuation)

\* Binary extensions are the trailing fields of their structs.  The compiler of
\* ABIs does not see to it.
ExtensionsTrail ==
    \A t \in Type : Ser[t] = "object" =>
        \A i, j \in DOMAIN Fields[t] :
            i < j /\ IsExtension(Fields[t][i].type) => IsExtension(Fields[t][j].type)

\* The text is JSON at all times, as far as it has been written: commas,
\* colons and brackets are where they belong although the serializers write
\* them one by one, a reader accepts every token, and it has the decoder's
\* entries open.  It needs ExtensionsTrail.
TextIsJson ==
    status \in {"run", "ok"} =>
        /\ Punctuated(text)
        /\ Accepted(text)
        /\ Len(OpenNow) = Len(stack) + 1
        /\ status = "ok" => OpenNow = <<"done">>

\* Every conversion ends, on a recursive type without data as well: there the
\* depth limit ends it.
Terminates == (status = "run") ~> (status \in {"ok"} \cup Errors)

-----------------------------------------------------------------------------
(* The inductive invariants.  TypeOK needs that only a resume looks at the *)
(* depth.  That the text is JSON needs what the last lexeme tells about    *)
(* the entry on top, and the reader's context for every entry: both follow *)
(* from how far the entries have got.                                      *)

Containers == {"object", "array", "variant"}
Pending == call # NoCall

TypeInv ==
    /\ TypeOK
    /\ \A i \in 1 .. Len(stack) : Ser[stack[i].type] \in Containers
    /\ status = "idle" => stack = <<>> /\ text = <<>> /\ call = NoCall
    /\ status = "run" /\ Pending => Len(stack) <= MaxStack

\* The reader's context of the i-th entry; pending: a value is about to come.
ContextOf(st, i, pending) ==
    IF Ser[st[i].type] # "object" THEN "array"
    ELSE IF i = Len(st) /\ pending THEN "value" ELSE "key"
Levels(open, st, pending) ==
    /\ open \in Seq(Context) /\ Len(open) = Len(st) + 1
    /\ open[1] = IF st = <<>> /\ pending THEN "root" ELSE "done"
    /\ \A i \in 1 .. Len(st) : open[i + 1] = ContextOf(st, i, pending)

\* What has begun a part has a position.
PartsBegun(st, pending) ==
    \A i \in 1 .. Len(st) : i < Len(st) \/ pending => st[i].position >= 0

\* All parts of a struct have been left out so far, and so will be the others.
LeftOut(e, last) ==
    /\ Ser[e.type] = "object" /\ last = "start_object"
    /\ data = <<>> /\ e.allow
    /\ \A j \in DOMAIN Fields[e.type] : e.position < j => IsExtension(Fields[e.type][j].type)

\* The lexeme that the text ends with, before the next one is written.
Opening(e) == IF Ser[e.type] = "object" THEN "start_object" ELSE "start_array"
BeforeValue == text = <<>> \/ Last(text).kind \in {"colon", "start_array", "comma"}
BetweenParts(e) ==
    /\ text # <<>>
    /\ e.position = -1 => Last(text).kind = Opening(e)
    /\ e.position # -1 => Last(text).kind \in EndsValue \/ LeftOut(e, Last(text).kind)

JsonSoFar == Punctuated(text) /\ Accepted(text)
TextInv ==
    /\ status \in {"run", "ok"} => JsonSoFar
    /\ status = "run" =>
         /\ Levels(OpenNow, stack, Pending)
         /\ PartsBegun(stack, Pending)
         /\ Pending => BeforeValue
         /\ ~Pending /\ stack # <<>> => BetweenParts(Top)
    /\ status = "ok" => stack = <<>> /\ OpenNow = <<"done">>
=============================================================================
