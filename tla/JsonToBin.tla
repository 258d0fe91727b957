------------------------------ MODULE JsonToBin ------------------------------
(***************************************************************************)
(* abiala_json_to_bin: the encoder that reads members in the order of the  *)
(* ABI (src/abiala.hpp, json_to_bin_state).                                *)
(*                                                                         *)
(* The encoder is a stack machine.  Each serializer is a function with a   *)
(* "start" call, which may push an entry, and a "resume" call the driver   *)
(* loop makes for the entry on top.  A serializer calls another one only   *)
(* as the last thing it does, so the call is held in the variable call     *)
(* until the next step: a step of the model is one serializer function.    *)
(* The size of an array is unknown until it ends; the encoder remembers    *)
(* where it goes (size_insertions) and splices the sizes in at the end.    *)
(***************************************************************************)
EXTENDS AbiTypes

CONSTANTS
    Inputs,     \* the calls made: records [type, doc]
    MaxStack    \* max_stack_size, 128 in the code

ASSUME InputsAssumption == Inputs \subseteq [type : Type, doc : Seq(Token)]
ASSUME MaxStackAssumption == MaxStack \in Nat \ {0}

VARIABLES
    input,        \* the json_token_stream: unread tokens and grammar contexts
    stack,        \* state.stack
    out,          \* state.writer: the bytes written, array sizes left out
    insertions,   \* state.size_insertions
    skipped,      \* state.skipped_extension
    call,         \* the serializer started next, NoCall if the loop resumes one
    merged,       \* how many insertions the final loop has spliced in
    bin,          \* the caller's vector, written only by the final loop
    status

vars == <<input, stack, out, insertions, skipped, call, merged, bin, status>>
conversion == <<input, stack, out, insertions, skipped, call>>

Entry == [type : Type, allow : BOOLEAN, position : Nat \cup {-1}, slot : Nat, alternative : Nat]
Insertion == [position : Nat, size : Nat]
Call == [type : Type, allow : BOOLEAN]
NoCall == [type |-> "none", allow |-> FALSE]

Errors == {"syntax", "expected_value", "expected_start_object", "expected_field",
           "unexpected_field", "expected_start_array", "expected_variant",
           "invalid_type_for_variant", "recursion_limit_reached", "expected_end"}
Status == {"idle", "run", "merge", "ok"} \cup Errors

Top == Last(stack)
\* Seeded fault: the top is changed in a copy of it.
WithEntryCopied(st, e) == st
WithEntry(st, e) == [st EXCEPT ![Len(st)] = e]
\* Seeded fault: extensions are allowed everywhere.
NewEntryAllows == [type |-> call.type, allow |-> TRUE, position |-> -1,
                   slot |-> 0, alternative |-> 0]
NewEntry == [type |-> call.type, allow |-> call.allow, position |-> -1,
             slot |-> 0, alternative |-> 0]
\* Seeded faults: what is allowed in a struct is allowed in all of its fields,
\* or in none of them.
IsLastAlways(i, fields) == TRUE
IsLastNever(i, fields) == FALSE
IsLast(i, fields) == i = Len(fields)

\* The hole an array takes for its size: the end of out, and its index.
\* Seeded faults: a byte too far; the index taken before it is pushed, which is
\* out of range at first, or shared with the array around.
HolePastEnd == [position |-> Len(out) + 1, size |-> 0]
Hole == [position |-> Len(out), size |-> 0]
SlotBefore == Len(insertions)
SlotShared == IF insertions = <<>> THEN 1 ELSE Len(insertions)
NewSlot == Len(insertions) + 1

Init ==
    /\ input = Open(<<>>)
    /\ stack = <<>> /\ out = <<>> /\ insertions = <<>>
    /\ skipped = FALSE /\ call = NoCall
    /\ merged = 0 /\ bin = <<>>
    /\ status = "idle"

\* json_to_bin(bin, type, json): set the state up and start the root type.
Begin(i) ==
    /\ status = "idle"
    /\ input' = Open(i.doc)
    /\ call' = [type |-> i.type, allow |-> TRUE]
    /\ status' = "run"
    /\ UNCHANGED <<stack, out, insertions, skipped, merged, bin>>

\* check(...) throws: the whole conversion is abandoned.
Fail(error) ==
    /\ status' = error
    /\ UNCHANGED <<conversion, merged, bin>>

Start(ser) == status = "run" /\ call # NoCall /\ Ser[call.type] = ser
\* Seeded fault: the driver does not look at the depth.
ResumeAnyDepth(ser) ==
    /\ status = "run" /\ call = NoCall /\ stack # <<>>
    /\ Ser[Top.type] = ser
Resume(ser) ==
    /\ status = "run" /\ call = NoCall /\ stack # <<>>
    /\ Len(stack) <= MaxStack
    /\ Ser[Top.type] = ser

Keeps == UNCHANGED <<merged, bin, status>>

-----------------------------------------------------------------------------
(* Serializers without an entry of their own.                              *)

StartPrimitive(prim) ==
    /\ Start(prim)
    /\ LET tok == Peek(input) IN
       \/ /\ tok.kind = TokenFor[prim] /\ Parses(prim, tok.text)
          /\ out' = Append(out, PrimByte(prim, tok.text))
          /\ input' = Eat(input)
          /\ call' = NoCall
          /\ UNCHANGED <<stack, insertions, skipped>> /\ Keeps
       \/ /\ tok.kind # "error"
          /\ ~(tok.kind = TokenFor[prim] /\ Parses(prim, tok.text))
          /\ Fail("expected_value")
       \/ tok.kind = "error" /\ Fail("syntax")

StartOptional ==
    /\ Start("optional")
    /\ LET tok == Peek(input) IN
       \/ /\ tok.kind = "null"
          /\ out' = Append(out, 0)
          /\ input' = Eat(input)
          /\ call' = NoCall
          /\ UNCHANGED <<stack, insertions, skipped>> /\ Keeps
       \/ /\ tok.kind \notin {"null", "error"}
          /\ out' = Append(out, 1)
          /\ call' = [type |-> Of[call.type], allow |-> call.allow]
          /\ UNCHANGED <<input, stack, insertions, skipped>> /\ Keeps
       \/ tok.kind = "error" /\ Fail("syntax")

\* Seeded fault: the extension starts itself instead of the type it wraps.
StartExtensionAgain == Start("extension") /\ UNCHANGED conversion /\ Keeps

StartExtension ==
    /\ Start("extension")
    /\ call' = [type |-> Of[call.type], allow |-> call.allow]
    /\ UNCHANGED <<input, stack, out, insertions, skipped>> /\ Keeps

-----------------------------------------------------------------------------
(* pseudo_object.  start falls through to the part that a resume executes, *)
(* so Members takes the stream and the stack as they are by then.          *)

\* Seeded fault: the end is seen but not taken.
EndObjectUnread(in, st) ==
    /\ stack' = Front(st)
    /\ input' = in
    /\ call' = NoCall
    /\ UNCHANGED <<out, insertions, skipped>> /\ Keeps

EndObject(in, st) ==
    LET entry == Last(st)
        fields == Fields[entry.type]
        missing == entry.position + 2    \* 1-based index of the next field
        complete == entry.position + 1 = Len(fields)
        mayEnd == ~complete => IsExtension(fields[missing].type) /\ entry.allow
    IN \/ /\ mayEnd
          /\ skipped' = (skipped \/ ~complete)
          /\ stack' = Front(st)
          /\ input' = Eat(in)
          /\ call' = NoCall
          /\ UNCHANGED <<out, insertions>> /\ Keeps
       \/ ~mayEnd /\ Fail("expected_field")

MemberKey(in, st) ==
    LET entry == Last(st)
        fields == Fields[entry.type]
        next == entry.position + 1
    IN \/ /\ next >= Len(fields) \/ skipped
          /\ Fail("unexpected_field")
       \/ /\ next < Len(fields) /\ ~skipped
          /\ fields[next + 1].name # Peek(in).text
          /\ Fail("expected_field")
       \/ /\ next < Len(fields) /\ ~skipped
          /\ fields[next + 1].name = Peek(in).text
          /\ stack' = WithEntry(st, [entry EXCEPT !.position = next])
          /\ input' = Eat(in)
          /\ call' = NoCall
          /\ UNCHANGED <<out, insertions, skipped>> /\ Keeps

MemberValue(in, st) ==
    LET entry == Last(st)
        fields == Fields[entry.type]
    IN /\ call' = [type |-> fields[entry.position + 1].type,
                   allow |-> entry.allow /\ IsLast(entry.position + 1, fields)]
       /\ input' = in /\ stack' = st
       /\ UNCHANGED <<out, insertions, skipped>> /\ Keeps

Members(in, st) ==
    LET kind == Peek(in).kind IN
    \/ kind = "error" /\ Fail("syntax")
    \/ kind = "end_object" /\ EndObject(in, st)
    \/ kind = "key" /\ MemberKey(in, st)
    \/ kind \notin {"error", "end_object", "key"} /\ MemberValue(in, st)

StartObject ==
    /\ Start("object")
    /\ \/ Peek(input).kind = "error" /\ Fail("syntax")
       \/ Peek(input).kind \notin {"start_object", "error"} /\ Fail("expected_start_object")
       \/ Peek(input).kind = "start_object" /\ Members(Eat(input), Append(stack, NewEntry))

ResumeObject == Resume("object") /\ Members(input, stack)

-----------------------------------------------------------------------------
(* pseudo_array: the size is a hole at the current end of out.             *)

StartArray ==
    /\ Start("array")
    /\ \/ Peek(input).kind = "error" /\ Fail("syntax")
       \/ Peek(input).kind \notin {"start_array", "error"} /\ Fail("expected_start_array")
       \/ /\ Peek(input).kind = "start_array"
          /\ input' = Eat(input)
          /\ stack' = Append(stack, [NewEntry EXCEPT !.allow = FALSE, !.slot = NewSlot])
          /\ insertions' = Append(insertions, Hole)
          /\ call' = NoCall
          /\ UNCHANGED <<out, skipped>> /\ Keeps

ResumeArray ==
    /\ Resume("array")
    /\ \/ Peek(input).kind = "error" /\ Fail("syntax")
       \/ /\ Peek(input).kind = "end_array"
          /\ input' = Eat(input)
          /\ insertions' = [insertions EXCEPT ![Top.slot].size = Top.position + 1]
          /\ stack' = Front(stack)
          /\ UNCHANGED <<out, skipped, call>> /\ Keeps
       \/ /\ Peek(input).kind \notin {"end_array", "error"}
          /\ stack' = WithEntry(stack, [Top EXCEPT !.position = @ + 1])
          /\ call' = [type |-> Of[Top.type], allow |-> FALSE]
          /\ UNCHANGED <<input, out, insertions, skipped>> /\ Keeps

-----------------------------------------------------------------------------
(* pseudo_variant: an array of a type name and a value.                    *)

StartVariant ==
    /\ Start("variant")
    /\ \/ Peek(input).kind = "error" /\ Fail("syntax")
       \/ Peek(input).kind \notin {"start_array", "error"} /\ Fail("expected_start_array")
       \/ /\ Peek(input).kind = "start_array"
          /\ input' = Eat(input)
          /\ stack' = Append(stack, NewEntry)
          /\ call' = NoCall
          /\ UNCHANGED <<out, insertions, skipped>> /\ Keeps

VariantName(alternatives) ==
    LET text == Peek(input).text IN
    \/ /\ \A i \in DOMAIN alternatives : alternatives[i].name # text
       /\ Fail("invalid_type_for_variant")
    \/ \E i \in DOMAIN alternatives :
       /\ Names(alternatives, i, text)
       /\ out' = out \o VarUint32(i - 1)
       /\ stack' = WithEntry(stack, [Top EXCEPT !.position = 0, !.alternative = i])
       /\ input' = Eat(input)
       /\ UNCHANGED <<insertions, skipped, call>> /\ Keeps

ResumeVariant ==
    /\ Resume("variant")
    /\ LET kind == Peek(input).kind
           position == Top.position + 1
           alternatives == Fields[Top.type]
       IN \/ kind = "error" /\ Fail("syntax")
          \/ /\ kind = "end_array" /\ position = 2
             /\ input' = Eat(input)
             /\ stack' = Front(stack)
             /\ UNCHANGED <<out, insertions, skipped, call>> /\ Keeps
          \/ kind = "end_array" /\ position # 2 /\ Fail("expected_variant")
          \/ kind = "string" /\ position = 0 /\ VariantName(alternatives)
          \/ kind \notin {"end_array", "string", "error"} /\ position = 0 /\ Fail("expected_value")
          \/ /\ kind \notin {"end_array", "error"} /\ position = 1
             /\ stack' = WithEntry(stack, [Top EXCEPT !.position = 1])
             /\ call' = [type |-> alternatives[Top.alternative].type, allow |-> Top.allow]
             /\ UNCHANGED <<input, out, insertions, skipped>> /\ Keeps
          \/ kind \notin {"end_array", "error"} /\ position >= 2 /\ Fail("expected_variant")

-----------------------------------------------------------------------------
(* The driver loop and what follows it.                                    *)

StackOverflow ==
    /\ status = "run" /\ call = NoCall
    /\ Len(stack) > MaxStack
    /\ Fail("recursion_limit_reached")

EndOfLoop ==
    /\ status = "run" /\ call = NoCall /\ stack = <<>>
    /\ \/ /\ Complete(input)
          /\ status' = "merge" /\ UNCHANGED <<conversion, merged, bin>>
       \/ ~Complete(input) /\ Fail("expected_end")

\* pos of the final loop: how much of out has been copied to bin.
\* Seeded fault: pos is not moved.
CopiedNothing == 0
Copied == IF merged = 0 THEN 0 ELSE insertions[merged].position

MergeSize ==
    /\ status = "merge" /\ merged < Len(insertions)
    /\ LET next == insertions[merged + 1] IN
       bin' = bin \o SubSeq(out, Copied + 1, next.position) \o VarUint32(next.size)
    /\ merged' = merged + 1
    /\ UNCHANGED <<conversion, status>>

MergeRest ==
    /\ status = "merge" /\ merged = Len(insertions)
    /\ bin' = bin \o SubSeq(out, Copied + 1, Len(out))
    /\ status' = "ok"
    /\ UNCHANGED <<conversion, merged>>

Terminated == status \in {"ok"} \cup Errors /\ UNCHANGED vars

Step ==
    \/ \E prim \in DOMAIN TokenFor : StartPrimitive(prim)
    \/ StartOptional \/ StartExtension
    \/ StartObject \/ ResumeObject
    \/ StartArray \/ ResumeArray
    \/ StartVariant \/ ResumeVariant
    \/ StackOverflow \/ EndOfLoop
    \/ MergeSize \/ MergeRest

Next == (\E i \in Inputs : Begin(i)) \/ Step \/ Terminated

Spec == Init /\ [][Next]_vars
FairSpec == Spec /\ WF_vars(Step)
-----------------------------------------------------------------------------
(* What makes the encoder correct.                                         *)

TypeOK ==
    /\ input \in Stream
    /\ stack \in Seq(Entry)
    /\ out \in Seq(Byte)
    /\ insertions \in Seq(Insertion)
    /\ skipped \in BOOLEAN
    /\ call \in Call \cup {NoCall}
    /\ merged \in 0 .. Len(insertions)
    /\ bin \in Seq(Byte)
    /\ status \in Status

\* The driver loop tests the depth before a resume, so one start may go one
\* entry beyond max_stack_size and never further (json_to_bin's while loop).
StackBounded == Len(stack) <= MaxStack + 1

\* Every entry indexes what it points into: the fields of its struct, the
\* alternatives of its variant, the hole of its array.  fields[position],
\* fields[variant_type_index] and size_insertions[size_insertion_index] are
\* unchecked subscripts in the code.  A struct before its first key is at -1, and
\* must not be asked for a value there.
EntryInBounds(e, holes) ==
    /\ Ser[e.type] = "object" => e.position \in -1 .. Len(Fields[e.type]) - 1
    /\ Ser[e.type] = "array" => e.slot \in 1 .. holes
    /\ Ser[e.type] = "variant" =>
         /\ e.position \in -1 .. 2
         /\ e.position >= 0 => e.alternative \in DOMAIN Fields[e.type]
\* A value is read for a member only after its key: the object on top has a
\* field to start when the grammar wants a value (pseudo_object's else branch
\* reads fields[position] without looking at position).
ValueHasField ==
    status = "run" /\ call = NoCall /\ stack # <<>> /\ Ser[Top.type] = "object"
      /\ Last(input.open) = "value" => Top.position >= 0
EntriesInBounds ==
    /\ \A i \in DOMAIN stack : EntryInBounds(stack[i], Len(insertions))
    /\ ValueHasField

\* The holes lie in order inside out, so that the final loop never inserts a
\* range that runs backwards or past the end of out_buf.
MergeInBounds ==
    /\ \A i \in DOMAIN insertions : insertions[i].position <= Len(out)
    /\ \A i, j \in DOMAIN insertions :
         i <= j => insertions[i].position <= insertions[j].position

\* Arrays open at the same time fill different holes, the inner ones later
\* ones: the size of one array is never written into the hole of another.
OpenArraysOwnTheirHole ==
    \A i, j \in DOMAIN stack :
        i < j /\ Ser[stack[i].type] = "array" /\ Ser[stack[j].type] = "array"
          => stack[i].slot < stack[j].slot

\* The encoder and the JSON grammar nest alike: an entry for each container
\* the reader has open, an object for an object and an array or a variant for
\* an array.  It is what keeps the serializers from pairing one value's end
\* with another's start.
ReaderContext(i) == IF Ser[stack[i].type] = "object" THEN {"key", "value"} ELSE {"array"}
NestsLikeReader ==
    status = "run" =>
        /\ Len(input.open) = Len(stack) + 1
        /\ \A i \in DOMAIN stack : input.open[i + 1] \in ReaderContext(i)

\* The serializers consume exactly one JSON value: state.complete() after the
\* loop never finds anything left to read.
ConsumesOneValue == status # "expected_end"

\* Once a binary extension has been left out nothing more is encoded: an
\* omitted extension is never followed by bytes a reader would take for it.
\* skipped_extension is one flag for the whole conversion, never reset; this
\* is the reason it may be.
SkipIsFinal == [][skipped => UNCHANGED <<out, insertions>>]_vars

\* Every conversion ends: the code runs it to its end, so its steps are fair.
Terminates == (status = "run") ~> (status \in {"ok"} \cup Errors)
=============================================================================
