----------------------------- MODULE JvalueToBin -----------------------------
(***************************************************************************)
(* The encoder of abiala_json_to_bin_reorderable once the document is a    *)
(* tree of jvalues (src/abiala.hpp, jvalue_to_bin_state): members may come *)
(* in any order, unknown ones are ignored.  The tree is the heap that      *)
(* JsonToJvalue built; a const jvalue* is an address in it.                *)
(***************************************************************************)
EXTENDS AbiTypes

VARIABLES
    heap,       \* the tree, which the encoder only reads
    received,   \* state.received_value
    stack,      \* state.stack
    bin,        \* state.writer, the caller's vector
    skipped,    \* state.skipped_extension
    call,       \* the serializer started next, NoCall if the loop resumes one
    status

vars == <<heap, received, stack, bin, skipped, call, status>>

Entry == [type : Type, allow : BOOLEAN, value : Nat, position : Int]
Call == [type : Type, allow : BOOLEAN]
NoCall == [type |-> "none", allow |-> FALSE]

Errors == {"expected_value", "expected_start_object", "expected_field", "unexpected_field",
           "expected_start_array", "expected_variant", "invalid_type_for_variant"}
Status == {"idle", "run", "ok"} \cup Errors

Top == Last(stack)
WithEntry(st, e) == [st EXCEPT ![Len(st)] = e]
Value == heap[received]
NewEntry(position) ==
    [type |-> call.type, allow |-> call.allow, value |-> received, position |-> position]

Init ==
    /\ received = 0 /\ stack = <<>> /\ bin = <<>>
    /\ skipped = FALSE /\ call = NoCall /\ status = "idle"

\* json_to_bin(bin, type, value): the tree at address root.
Begin(type, root) ==
    /\ status = "idle"
    /\ received' = root
    /\ call' = [type |-> type, allow |-> TRUE]
    /\ status' = "run"
    /\ UNCHANGED <<heap, stack, bin, skipped>>

Fail(error) == status' = error /\ UNCHANGED <<heap, received, stack, bin, skipped, call>>

Start(ser) == status = "run" /\ call # NoCall /\ Ser[call.type] = ser
Resume(ser) == status = "run" /\ call = NoCall /\ stack # <<>> /\ Ser[Top.type] = ser

-----------------------------------------------------------------------------
(* Serializers without an entry of their own.                              *)

StartPrimitive(prim) ==
    /\ Start(prim)
    /\ LET fits == Value.kind = TokenFor[prim] /\ Parses(prim, Value.text) IN
       \/ /\ fits
          /\ bin' = Append(bin, PrimByte(prim, Value.text))
          /\ call' = NoCall
          /\ UNCHANGED <<heap, received, stack, skipped, status>>
       \/ ~fits /\ Fail("expected_value")

StartOptional ==
    /\ Start("optional")
    /\ \/ /\ Value.kind = "null"
          /\ bin' = Append(bin, 0)
          /\ call' = NoCall
       \/ /\ Value.kind # "null"
          /\ bin' = Append(bin, 1)
          /\ call' = [call EXCEPT !.type = Of[call.type]]
    /\ UNCHANGED <<heap, received, stack, skipped, status>>

StartExtension ==
    /\ Start("extension")
    /\ call' = [call EXCEPT !.type = Of[call.type]]
    /\ UNCHANGED <<heap, received, stack, bin, skipped, status>>

-----------------------------------------------------------------------------
(* pseudo_object.  The first field is looked up within start.              *)

NextMember(st) ==
    LET entry == Last(st)
        fields == Fields[entry.type]
        position == entry.position + 1
        field == fields[position + 1]
        members == heap[entry.value].members
    IN \/ /\ position = Len(fields)
          /\ stack' = Front(st)
          /\ call' = NoCall
          /\ UNCHANGED <<heap, received, bin, skipped, status>>
       \/ /\ position # Len(fields) /\ field.name \notin DOMAIN members
          /\ IsExtension(field.type) /\ entry.allow
          /\ stack' = WithEntry(st, [entry EXCEPT !.position = position])
          /\ skipped' = TRUE
          /\ call' = NoCall
          /\ UNCHANGED <<heap, received, bin, status>>
       \/ /\ position # Len(fields) /\ field.name \notin DOMAIN members
          /\ ~(IsExtension(field.type) /\ entry.allow)
          /\ Fail("expected_field")
       \/ /\ position # Len(fields) /\ field.name \in DOMAIN members
          /\ skipped
          /\ Fail("unexpected_field")
       \/ /\ position # Len(fields) /\ field.name \in DOMAIN members
          /\ ~skipped
          /\ stack' = WithEntry(st, [entry EXCEPT !.position = position])
          /\ received' = members[field.name]
          /\ call' = [type |-> field.type, allow |-> entry.allow /\ position + 1 = Len(fields)]
          /\ UNCHANGED <<heap, bin, skipped, status>>

StartObject ==
    /\ Start("object")
    /\ \/ Value.kind # "object" /\ Fail("expected_start_object")
       \/ Value.kind = "object" /\ NextMember(Append(stack, NewEntry(-1)))

ResumeObject == Resume("object") /\ NextMember(stack)

-----------------------------------------------------------------------------
(* pseudo_array.  The size is known, and the first element is started      *)
(* within start.                                                           *)

NextElement(st, written) ==
    LET entry == Last(st)
        items == heap[entry.value].items
        position == entry.position + 1
    IN /\ bin' = bin \o written
       /\ \/ /\ position = Len(items)
             /\ stack' = Front(st)
             /\ call' = NoCall
             /\ UNCHANGED received
          \/ /\ position # Len(items)
             /\ stack' = WithEntry(st, [entry EXCEPT !.position = position])
             /\ received' = items[position + 1]
             /\ call' = [type |-> Of[entry.type], allow |-> FALSE]
       /\ UNCHANGED <<heap, skipped, status>>

StartArray ==
    /\ Start("array")
    /\ \/ Value.kind # "array" /\ Fail("expected_start_array")
       \/ /\ Value.kind = "array"
          /\ NextElement(Append(stack, [NewEntry(-1) EXCEPT !.allow = FALSE]),
                         VarUint32(Len(Value.items)))

ResumeArray == Resume("array") /\ NextElement(stack, <<>>)

-----------------------------------------------------------------------------
(* pseudo_variant.                                                         *)

\* Seeded fault: the value is not looked at before it is taken for a pair.
StartVariantUnchecked ==
    /\ Start("variant")
    /\ stack' = Append(stack, NewEntry(0))
    /\ call' = NoCall
    /\ UNCHANGED <<heap, received, bin, skipped, status>>

StartVariant ==
    /\ Start("variant")
    /\ LET fits == Value.kind = "array" /\ Len(Value.items) = 2
                   /\ heap[Value.items[1]].kind = "string"
       IN \/ /\ fits
             /\ stack' = Append(stack, NewEntry(0))
             /\ call' = NoCall
             /\ UNCHANGED <<heap, received, bin, skipped, status>>
          \/ ~fits /\ Fail("expected_variant")

ResumeVariant ==
    /\ Resume("variant")
    /\ LET items == heap[Top.value].items
           alternatives == Fields[Top.type]
           text == heap[items[1]].text
       IN \/ /\ Top.position = 0
             /\ \A i \in DOMAIN alternatives : alternatives[i].name # text
             /\ Fail("invalid_type_for_variant")
          \/ /\ Top.position = 0
             /\ \E i \in DOMAIN alternatives :
                   /\ Names(alternatives, i, text)
                   /\ bin' = bin \o VarUint32(i - 1)
                   /\ call' = [type |-> alternatives[i].type, allow |-> Top.allow]
             /\ stack' = WithEntry(stack, [Top EXCEPT !.position = 1])
             /\ received' = items[2]
             /\ UNCHANGED <<heap, skipped, status>>
          \/ /\ Top.position # 0
             /\ stack' = Front(stack)
             /\ UNCHANGED <<heap, received, bin, skipped, call, status>>

-----------------------------------------------------------------------------
EndOfLoop ==
    /\ status = "run" /\ call = NoCall /\ stack = <<>>
    /\ status' = "ok"
    /\ UNCHANGED <<heap, received, stack, bin, skipped, call>>

Step ==
    \/ \E prim \in DOMAIN TokenFor : StartPrimitive(prim)
    \/ StartOptional \/ StartExtension
    \/ StartObject \/ ResumeObject
    \/ StartArray \/ ResumeArray
    \/ StartVariant \/ ResumeVariant
    \/ EndOfLoop
=============================================================================
