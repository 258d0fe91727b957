----------------------------- MODULE AbiCompile -----------------------------
(***************************************************************************)
(* convert(abi_def, abi) and abi::get_type, abi.cpp.  The functions        *)
(* get_type and resolve call each other; the model is the machine that     *)
(* runs them, one frame per activation: call is a call of get_type that is *)
(* about to begin, ret a node that one has returned.  A check that fails   *)
(* throws through all of them.                                             *)
(***************************************************************************)
EXTENDS AbiNames, SequencesExt

CONSTANTS
    Abis,       \* the abi_defs to compile
    Queries     \* the names get_type is asked for afterwards

ASSUME InputAssumption ==
    /\ Abis \subseteq Seq(Definition)
    /\ Queries \subseteq Name

VARIABLES
    def,        \* the abi_def
    phase,      \* what runs: convert (declare, fill), get_type (query), or nothing
    types,      \* abi::abi_types
    next,       \* the next definition to enter
    cursor,     \* how much of the map the loop over fill has passed
    stack,      \* activations of get_type and resolve, the last one on top
    call,       \* the call of get_type that is to begin
    ret,        \* the node returned by the one that has ended
    error,      \* the last error thrown
    query       \* the last name asked for

vars == <<def, phase, types, next, cursor, stack, call, ret, error, query>>
machine == <<stack, call, ret>>

NoCall == [name |-> NoName, depth |-> 0]

\* An activation at work on the node name, which it will make a node of kind: of
\* a struct or a variant, the base to look at and the parts to do, and the parts
\* it has.
Frame(kind, name, depth, base, todo, parts) ==
    [kind |-> kind, name |-> name, depth |-> depth,
     base |-> base, todo |-> todo, parts |-> parts]
PlainFrame(kind, name, depth) == Frame(kind, name, depth, "", <<>>, <<>>)

Top == Last(stack)
TopIs(kinds) == stack # <<>> /\ call = NoCall /\ Top.kind \in kinds
WithTop(todo, parts) ==
    [stack EXCEPT ![Len(stack)] = Frame(Top.kind, Top.name, Top.depth, "", todo, parts)]
Idle == stack = <<>> /\ call = NoCall

KindOf(n) == types[n].kind

\* fill_t has an overload of resolve for it.  Seeded fault: not for a variant.
IsUnresolvedButVariant(n) == n \in DOMAIN types /\ KindOf(n) \in Unresolved \ {"variant_def"}
IsUnresolved(n) == n \in DOMAIN types /\ KindOf(n) \in Unresolved

\* std::map::try_emplace.
Emplace(n, node) == IF n \in DOMAIN types THEN types
                    ELSE [m \in DOMAIN types \cup {n} |-> IF m = n THEN node ELSE types[m]]
Init ==
    /\ def = <<>> /\ phase = "idle" /\ types = <<>> /\ next = 1 /\ cursor = 0
    /\ stack = <<>> /\ call = NoCall /\ ret = NoName /\ error = "none" /\ query = NoName

\* alaio::check: the exception leaves convert, whose abi is dropped, or
\* abi::get_type, whose abi stays as it is.
Throw(e) ==
    /\ error' = e
    /\ phase' = IF phase = "query" THEN "ready" ELSE "failed"
    /\ stack' = <<>> /\ call' = NoCall /\ ret' = NoName
    /\ UNCHANGED <<def, types, next, query>>

Call(name, depth) == call' = [name |-> name, depth |-> depth] /\ ret' = NoName
Return(node) == ret' = node /\ call' = NoCall

-----------------------------------------------------------------------------
\* convert.

Convert ==
    /\ phase = "idle"
    /\ \E d \in Abis : def' = d
    /\ phase' = "declare" /\ types' = Prefilled
    /\ UNCHANGED <<next, cursor, machine, error, query>>

Enter(newTypes) ==
    /\ types' = newTypes
    /\ next' = next + 1
    /\ UNCHANGED <<def, phase, machine, error, query>>

\* One definition is entered.  Seeded fault: a name that is taken loses what it had.
DeclareOver ==
    /\ phase = "declare" /\ next \in DOMAIN def
    /\ LET d == def[next] IN
       IF d.name = "" THEN Throw("missing_name")
       ELSE Enter([n \in DOMAIN types \cup {d.name} |->
                      IF n = d.name THEN MakeNode(d.kind, d.of, d.parts) ELSE types[n]])
    /\ UNCHANGED cursor

Declare ==
    /\ phase = "declare" /\ next \in DOMAIN def
    /\ LET d == def[next] IN
       IF d.name = "" THEN Throw("missing_name")
       ELSE IF d.name \in DOMAIN types THEN Throw("redefined_type")
       ELSE Enter(Emplace(d.name, MakeNode(d.kind, d.of, d.parts)))
    /\ UNCHANGED cursor

EndOfDefinitions ==
    /\ phase = "declare" /\ next \notin DOMAIN def
    /\ phase' = "fill"
    /\ UNCHANGED <<def, types, next, cursor, machine, error, query>>

\* resolve: an alias calls get_type at once, a struct or a variant looks at the
\* depth and then at its parts.  Seeded fault: an alias does not count as a level.
ResolveAliasLevel(n, depth) ==
    /\ stack' = Append(stack, PlainFrame("alias", n, depth))
    /\ Call(types[n].of, depth)
    /\ UNCHANGED <<def, phase, types, next, error, query>>
ResolveAlias(n, depth) ==
    /\ stack' = Append(stack, PlainFrame("alias", n, depth))
    /\ Call(types[n].of, depth + 1)
    /\ UNCHANGED <<def, phase, types, next, error, query>>

ResolveParts(kind, n, depth) ==
    IF depth >= MaxDepth THEN Throw("recursion_limit_reached")
    ELSE /\ stack' = Append(stack, Frame(kind, n, depth, types[n].of, types[n].parts, <<>>))
         /\ call' = NoCall /\ ret' = NoName
         /\ UNCHANGED <<def, phase, types, next, error, query>>

\* fill of the next entry that has something to resolve; on the others, those
\* inserted under the loop included, it does nothing.
Fill ==
    /\ phase = "fill" /\ Idle
    /\ \E i \in cursor + 1 .. Len(MapOrder) :
        LET n == MapOrder[i] IN
        /\ IsUnresolved(n)
        /\ \A j \in cursor + 1 .. i - 1 : ~IsUnresolved(MapOrder[j])
        /\ cursor' = i
        /\ IF KindOf(n) = "alias_def" THEN ResolveAlias(n, 0)
           ELSE IF KindOf(n) = "struct_def" THEN ResolveParts("struct", n, 0)
           ELSE ResolveParts("variant", n, 0)

EndOfFill ==
    /\ phase = "fill" /\ Idle
    /\ \A i \in cursor + 1 .. Len(MapOrder) : ~IsUnresolved(MapOrder[i])
    /\ phase' = "ready" /\ ret' = NoName
    /\ UNCHANGED <<def, types, next, cursor, stack, call, error, query>>

-----------------------------------------------------------------------------
\* get_type, from its call to its return or to the call it makes itself.

\* The name is in the map: an alias leads on to its target, and one that is not
\* resolved is resolved first.  Seeded fault: an alias is returned as it is.
FoundAlias(n, depth) ==
    IF KindOf(n) = "alias_def" THEN ResolveAlias(n, depth)
    ELSE /\ Return(n)
         /\ UNCHANGED <<def, phase, types, next, stack, error, query>>
Found(n, depth) ==
    IF KindOf(n) = "alias_def" THEN ResolveAlias(n, depth)
    ELSE /\ Return(IF KindOf(n) = "alias" THEN types[n].of ELSE n)
         /\ UNCHANGED <<def, phase, types, next, stack, error, query>>

\* It is not: its suffix says what to make of its stem.
Missing(n, depth) ==
    IF Suffix[n] = "none" THEN Throw("unknown_type")
    ELSE /\ stack' = Append(stack, PlainFrame(Suffix[n], n, depth))
         /\ Call(Stem[n], depth + 1)
         /\ UNCHANGED <<def, phase, types, next, error, query>>

GetType ==
    /\ call # NoCall
    /\ IF call.depth >= MaxDepth THEN Throw("recursion_limit_reached")
       ELSE IF call.name \in DOMAIN types THEN Found(call.name, call.depth)
       ELSE Missing(call.name, call.depth)
    /\ UNCHANGED cursor

\* The top activation ends: its node is made and returned.
Finish(newTypes, node) ==
    /\ types' = newTypes
    /\ stack' = Front(stack) /\ Return(node)
    /\ UNCHANGED <<def, phase, next, error, query>>

\* What node n becomes.  Seeded fault: the node is left for fill to come by.
BecomeLater(n, kind, of, parts) ==
    IF Len(stack) > 1 THEN types ELSE [types EXCEPT ![n] = MakeNode(kind, of, parts)]
Become(n, kind, of, parts) == [types EXCEPT ![n] = MakeNode(kind, of, parts)]

\* get_type, once it has the type under its suffix.
EndOfWrapper ==
    /\ TopIs(Wrapper) /\ ret # NoName
    /\ IF MayWrap(Top.kind, KindOf(ret))
       THEN Finish(Emplace(Top.name, MakeNode(Top.kind, ret, <<>>)), Top.name)
       ELSE Throw("invalid_nesting")
    /\ UNCHANGED cursor

\* resolve of an alias, and the assignment of what it returns.
EndOfAlias ==
    /\ TopIs({"alias"}) /\ ret # NoName
    /\ IF KindOf(ret) = "extension" THEN Throw("extension_typedef")
       ELSE Finish(Become(Top.name, "alias", ret, <<>>), ret)
    /\ UNCHANGED cursor

-----------------------------------------------------------------------------
\* resolve of a struct and of a variant.

CallBase ==
    /\ TopIs({"struct"}) /\ Top.base # "" /\ ret = NoName
    /\ Call(Top.base, Top.depth + 1)
    /\ UNCHANGED <<def, phase, types, next, cursor, stack, error, query>>

\* A base that is not resolved is, and returns here; then its fields are the
\* first ones.
Base ==
    /\ TopIs({"struct"}) /\ Top.base # "" /\ ret # NoName
    /\ IF KindOf(ret) = "struct_def" THEN ResolveParts("struct", ret, Top.depth + 1)
       ELSE IF KindOf(ret) # "struct" THEN Throw("base_not_a_struct")
       ELSE /\ stack' = WithTop(Top.todo, types[ret].parts)
            /\ ret' = NoName
            /\ UNCHANGED <<def, phase, types, next, call, error, query>>
    /\ UNCHANGED cursor

CallPart ==
    /\ TopIs({"struct", "variant"}) /\ Top.base = "" /\ Top.todo # <<>> /\ ret = NoName
    /\ Call(Head(Top.todo).type, Top.depth + 1)
    /\ UNCHANGED <<def, phase, types, next, cursor, stack, error, query>>

\* result.fields.push_back.  Seeded fault: the type is the one that was named.
WithPartNamed == Append(Top.parts, Head(Top.todo))
WithPart == Append(Top.parts, [name |-> Head(Top.todo).name, type |-> ret])

TakePart ==
    /\ TopIs({"struct", "variant"}) /\ Top.base = "" /\ ret # NoName
    /\ stack' = WithTop(Tail(Top.todo), WithPart)
    /\ ret' = NoName
    /\ UNCHANGED <<def, phase, types, next, cursor, call, error, query>>

EndOfParts ==
    /\ TopIs({"struct", "variant"}) /\ Top.base = "" /\ Top.todo = <<>> /\ ret = NoName
    /\ Finish(Become(Top.name, Top.kind, "", Top.parts), Top.name)
    /\ UNCHANGED cursor

-----------------------------------------------------------------------------
\* abi::get_type, on the compiled abi.

Query ==
    /\ phase = "ready"
    /\ \E n \in Queries : query' = n /\ Call(n, 0)
    /\ phase' = "query" /\ error' = "none"
    /\ UNCHANGED <<def, types, next, cursor, stack>>

Answer ==
    /\ phase = "query" /\ Idle
    /\ phase' = "ready"
    /\ UNCHANGED <<def, types, next, cursor, machine, error, query>>

\* A failed convert has no abi to ask.
Failed == phase = "failed" /\ UNCHANGED vars

Step ==
    \/ Declare \/ EndOfDefinitions \/ Fill \/ EndOfFill
    \/ GetType \/ EndOfWrapper \/ EndOfAlias
    \/ CallBase \/ Base \/ CallPart \/ TakePart \/ EndOfParts \/ Answer

Next == Convert \/ Query \/ Step \/ Failed

\* convert and get_type run to their end once called.
Spec == Init /\ [][Next]_vars /\ WF_vars(Step)
-----------------------------------------------------------------------------
Activation ==
    [kind : Wrapper \cup {"alias", "struct", "variant"}, name : Name, depth : Nat,
     base : Name, todo : Seq(Part), parts : Seq(Part)]

\* The state is well formed.
TypeOK ==
    /\ def \in Seq(Definition)
    /\ phase \in {"idle", "declare", "fill", "ready", "query", "failed"}
    /\ DOMAIN types \subseteq Name
    /\ types \in [DOMAIN types -> Node]
    /\ next \in Nat \ {0} /\ cursor \in Nat
    /\ stack \in Seq(Activation)
    /\ call = NoCall \/ call \in [name : Name, depth : Nat]
    /\ ret \in Name \cup {NoName} /\ query \in Name \cup {NoName}

\* What get_type builds, whatever the definitions and the questions: no wrapper
\* over a binary extension, no optional or array over one of themselves.  The
\* serializers count on it, and nothing tests it again when a node under a
\* wrapper is resolved later (abi.cpp:54, 60, 66).
NestingLegal ==
    \A n \in DOMAIN types : KindOf(n) \in Wrapper =>
        /\ types[n].of \in DOMAIN types
        /\ KindOf(types[n].of) # "extension"
        /\ KindOf(n) \in {"optional", "array"} =>
               KindOf(types[n].of) \notin {"optional", "array"}

\* Every pointer of the graph is to a node that is in the map and is no alias,
\* so optional_of and the others never meet one; the pointers that an unfinished
\* struct or variant has collected are so too (abi.cpp:77-84).
Settled(map, n) == n \in DOMAIN map /\ map[n].kind \notin {"alias", "alias_def"}
EdgesSettled ==
    /\ \A n \in DOMAIN types :
        /\ KindOf(n) \in Wrapper \cup {"alias"} => Settled(types, types[n].of)
        /\ KindOf(n) \in {"struct", "variant"} =>
               \A i \in DOMAIN types[n].parts : Settled(types, types[n].parts[i].type)
    /\ \A k \in DOMAIN stack : \A i \in DOMAIN stack[k].parts :
           Settled(types, stack[k].parts[i].type)

\* The depth that is passed around is the number of activations, so no
\* definitions make the recursion deeper than its limit (abi.cpp:48, 87, 112).
DepthBounded ==
    /\ Len(stack) <= MaxDepth
    /\ \A k \in DOMAIN stack : stack[k].depth = k - 1
    /\ call # NoCall => call.depth = Len(stack)

\* convert leaves no node with a pointer into the abi_def, which its caller drops;
\* to_abi_def has nothing to refuse (abi.cpp:193-195, 202-206).
NothingLeftOver ==
    phase \in {"ready", "query"} => \A n \in DOMAIN types : KindOf(n) \notin Unresolved

\* A node that is resolved keeps its value and its place: pointers to it stay
\* good, and no name is resolved twice (abi.cpp:77-82, 93-96, 134-137).
ResolvedIsFinal ==
    [][phase # "idle" =>
         \A n \in DOMAIN types : /\ n \in DOMAIN types'
                                 /\ KindOf(n) \notin Unresolved => types'[n] = types[n]]_vars

\* convert ends, with an abi or with an error, and so does get_type: definitions
\* that lead back to themselves run into the limit.
Terminates ==
    /\ phase \in {"declare", "fill"} ~> phase \in {"ready", "failed"}
    /\ phase = "query" ~> phase = "ready"
=============================================================================
