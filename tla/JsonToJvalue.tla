---------------------------- MODULE JsonToJvalue ----------------------------
(***************************************************************************)
(* json_to_jvalue: the document is parsed into a tree of jvalues, one SAX  *)
(* event at a time (src/abiala.hpp, json_to_jvalue_state).                 *)
(*                                                                         *)
(* The handler keeps a stack of pointers into the tree it is building, and *)
(* the tree moves: an emplace_back on a jarray may relocate its elements.  *)
(* The tree is therefore a heap of addressed nodes.  A map node keeps its  *)
(* address; every emplace_back relocates the whole array, which is the     *)
(* worst the standard allows, and an address that moved is gone.           *)
(***************************************************************************)
EXTENDS AbiTypes

CONSTANTS
    Docs,       \* the documents parsed, sequences of tokens
    MaxStack    \* max_stack_size, 128 in the code, not 0

VARIABLES
    input,      \* the reader
    heap,       \* the jvalues, by address
    started,    \* json_reader_handler::started
    stack,      \* state.stack: addresses of open values, with the last key read
    status

vars == <<input, heap, started, stack, status>>

Address == Nat
Root == 1      \* the caller's jvalue
\* std::variant<nullptr_t, bool, string, jobject, jarray>; members and items are
\* used by the last two.
IsNode(v) ==
    /\ v.kind \in {"null", "bool", "string", "object", "array"}
    /\ v.text \in Text
    /\ DOMAIN v.members \subseteq Text
    /\ \A k \in DOMAIN v.members : v.members[k] \in Address
    /\ v.items \in Seq(Address)
    /\ v.kind # "object" => DOMAIN v.members = {}
    /\ v.kind # "array" => v.items = <<>>
Entry == [value : Address, key : Text]

Errors == {"syntax", "extra_data", "recursion_limit_reached"}
Status == {"idle", "run", "ok"} \cup Errors

Empty == [kind |-> "null", text |-> "", members |-> [k \in {} |-> Root], items |-> <<>>]
IsContainer(kind) == kind \in {"start_object", "start_array"}
\* The jvalue a value event leaves in place: a container starts out empty.
ValueOf(tok) ==
    [Empty EXCEPT !.kind = CASE tok.kind = "start_object" -> "object"
                             [] tok.kind = "start_array" -> "array"
                             [] OTHER -> tok.kind,
                  !.text = IF IsContainer(tok.kind) THEN "" ELSE tok.text]
Pointer(a) == [value |-> a, key |-> ""]

\* f with x mapped to y.
Put(f, x, y) == [z \in DOMAIN f \cup {x} |-> IF z = x THEN y ELSE f[z]]

Top == Last(stack)
Fresh == Max(DOMAIN heap)    \* every address above is free

Init ==
    /\ input = Open(<<>>)
    /\ heap = [a \in {Root} |-> Empty]
    /\ started = FALSE
    /\ stack = <<>>
    /\ status = "idle"

\* json_to_jvalue(value, json).
Begin(doc) ==
    /\ status = "idle"
    /\ input' = Open(doc)
    /\ stack' = <<Pointer(Root)>>
    /\ status' = "run"
    /\ UNCHANGED <<heap, started>>

\* The handler returns false and the parser stops.  The message is written to
\* a local string; the caller sees a syntax error either way.
Fail(error) == status' = error /\ UNCHANGED <<input, heap, started, stack>>

Receives(kinds) ==
    /\ status = "run" /\ ~Complete(input)
    /\ Peek(input).kind \in kinds

\* receive_event's checks: first of the event, then of the value it starts.
Refuse ==
    /\ Receives(TokenKind \ {"error"})
    /\ \/ stack = <<>> /\ Fail("extra_data")
       \/ /\ stack # <<>>
          /\ \/ Len(stack) > MaxStack
             \/ started /\ Peek(input).kind \in ValueStart /\ Len(stack) + 1 > MaxStack
          /\ Fail("recursion_limit_reached")
       \/ /\ stack # <<>> /\ Len(stack) <= MaxStack
          /\ started /\ heap[Top.value].kind \notin {"object", "array"}
          /\ Fail("extra_data")

\* Seeded fault: the depth test is off by one.
AcceptsDeeper(kinds, depth) ==
    /\ Receives(kinds)
    /\ stack # <<>> /\ depth <= MaxStack + 1
    /\ input' = Eat(input)
    /\ UNCHANGED status

Accepts(kinds, depth) ==
    /\ Receives(kinds)
    /\ stack # <<>> /\ depth <= MaxStack
    /\ input' = Eat(input)
    /\ UNCHANGED status

\* receive_event(start = true) on a value at address a, pushed and popped again
\* unless it is a container.
Started(below, a) == IF IsContainer(Peek(input).kind) THEN Append(below, Pointer(a)) ELSE below

FirstValue ==
    /\ ~started
    /\ Accepts(ValueStart, Len(stack))
    /\ started' = TRUE
    /\ heap' = [heap EXCEPT ![Top.value] = ValueOf(Peek(input))]
    /\ stack' = Started(Front(stack), Top.value)

Key ==
    /\ Accepts({"key"}, Len(stack))
    /\ heap[Top.value].kind = "object"
    /\ stack' = [stack EXCEPT ![Len(stack)].key = Peek(input).text]
    /\ UNCHANGED <<heap, started>>

\* obj[key] = {}: a key met before has its old value replaced, in place.
MemberValue ==
    /\ started
    /\ Accepts(ValueStart, Len(stack) + 1)
    /\ heap[Top.value].kind = "object"
    /\ LET obj == heap[Top.value].members
           a == IF Top.key \in DOMAIN obj THEN obj[Top.key] ELSE Fresh + 1
       IN /\ heap' = Put([heap EXCEPT ![Top.value].members = Put(obj, Top.key, a)],
                         a, ValueOf(Peek(input)))
          /\ stack' = Started(stack, a)
    /\ UNCHANGED started

\* &v.back() once the array has been moved to n addresses.
\* Seeded fault: &v.front().
FrontOf(n) == Fresh + 1
BackOf(n) == Fresh + n

\* v.emplace_back(): all elements move.
Element ==
    /\ started
    /\ Accepts(ValueStart, Len(stack) + 1)
    /\ heap[Top.value].kind = "array"
    /\ LET old == heap[Top.value].items
           n == Len(old) + 1
           new == [i \in 1 .. n |-> Fresh + i]
           stays == [heap EXCEPT ![Top.value].items = new]
       IN /\ heap' = [a \in (DOMAIN heap \ ToSet(old)) \cup Fresh + 1 .. Fresh + n |->
                         IF a <= Fresh THEN stays[a]
                         ELSE IF a < Fresh + n THEN heap[old[a - Fresh]]
                         ELSE ValueOf(Peek(input))]
          /\ stack' = Started(stack, BackOf(n))
    /\ UNCHANGED started

EndContainer ==
    /\ Accepts({"end_object", "end_array"}, Len(stack))
    /\ stack' = Front(stack)
    /\ UNCHANGED <<heap, started>>

SyntaxFails == Receives({"error"}) /\ Fail("syntax")

Parsed ==
    /\ status = "run" /\ Complete(input)
    /\ status' = "ok"
    /\ UNCHANGED <<input, heap, started, stack>>

Terminated == status \in {"ok"} \cup Errors /\ UNCHANGED vars

Step == FirstValue \/ Key \/ MemberValue \/ Element \/ EndContainer
        \/ Refuse \/ SyntaxFails \/ Parsed

Next == (\E doc \in Docs : Begin(doc)) \/ Step \/ Terminated

Spec == Init /\ [][Next]_vars

-----------------------------------------------------------------------------
\* The stack is a path of live nodes from the root: each entry is the member
\* just keyed or the last element of the one below.  No pointer the handler
\* holds is left dangling by an emplace_back, and no open value sits inside
\* one that a repeated key replaces.  It runs empty when the document ends, not
\* earlier and not later: "extra data" is never what a caller is told.
StackIsLivePath ==
    /\ status # "extra_data"
    /\ status = "run" => \A i \in DOMAIN stack :
        LET a == stack[i].value IN
        /\ a \in DOMAIN heap
        /\ i = 1 => a = Root
        /\ i > 1 => LET parent == heap[stack[i - 1].value] IN
                    \/ /\ parent.kind = "array" /\ parent.items # <<>>
                       /\ Last(parent.items) = a
                    \/ /\ parent.kind = "object"
                       /\ stack[i - 1].key \in DOMAIN parent.members
                       /\ parent.members[stack[i - 1].key] = a
=============================================================================
