---------------------------- MODULE AbiCompileInv ----------------------------
(***************************************************************************)
(* The inductive invariants of AbiCompile, and the mapping under which it  *)
(* implements AbiMeaning.  A node never leaves its family: what an         *)
(* activation is at work on stays what it was called for, and what a       *)
(* pointer was allowed to point at stays allowed.                          *)
(***************************************************************************)
EXTENDS AbiCompile

\* Only convert's loop over fill and get_type have activations, and nothing has
\* been returned before.
PhaseShape ==
    /\ phase \notin {"fill", "query"} => Idle
    /\ phase \in {"idle", "declare"} => ret = NoName

\* The nodes point at nodes in the map that are no aliases.
NodeSettled(map, node) ==
    /\ node.kind \in Wrapper \cup {"alias"} => Settled(map, node.of)
    /\ node.kind \in {"struct", "variant"} =>
           \A i \in DOMAIN node.parts : Settled(map, node.parts[i].type)
GraphSettled == \A n \in DOMAIN types : NodeSettled(types, types[n])

\* An activation is at work on a node of its kind, resolved or not, or on a name
\* that only another activation for the same wrapper can have put in the map.
WorksOn(map, f) ==
    /\ f.kind \in Wrapper => (f.name \in DOMAIN map => map[f.name].kind \in Wrapper)
    /\ f.kind \notin Wrapper => f.name \in DOMAIN map
    /\ f.kind = "alias" => map[f.name].kind \in {"alias", "alias_def"}
    /\ f.kind = "struct" => map[f.name].kind \in {"struct", "struct_def"}
    /\ f.kind = "variant" => map[f.name].kind \in {"variant", "variant_def"}
HasSettled(map, f) == \A i \in DOMAIN f.parts : Settled(map, f.parts[i].type)
FramesGood == \A k \in DOMAIN stack : WorksOn(types, stack[k]) /\ HasSettled(types, stack[k])

\* Who has called get_type, or resolve for a base, has a use for what comes back.
Awaits(f) == f.kind \in {"struct", "variant"} => f.base # "" \/ f.todo # <<>>
CallersAwait ==
    \A k \in DOMAIN stack :
        k < Len(stack) \/ call # NoCall \/ ret # NoName => Awaits(stack[k])

\* What get_type returns can be pointed at.
ReturnsSettled == ret # NoName => Settled(types, ret)

\* The loop over fill leaves nothing behind, except what the activation at the
\* bottom is at work on.
Swept ==
    /\ phase \in {"idle", "declare"} => cursor = 0
    /\ phase = "fill" => \A i \in DOMAIN MapOrder :
           i <= cursor /\ IsUnresolved(MapOrder[i]) =>
               stack # <<>> /\ stack[1].kind \notin Wrapper /\ stack[1].name = MapOrder[i]

\* The invariant that the other properties follow from.
IInv ==
    /\ TypeOK /\ PhaseShape
    /\ NestingLegal /\ GraphSettled
    /\ FramesGood /\ CallersAwait /\ ReturnsSettled
    /\ DepthBounded
    /\ Swept /\ NothingLeftOver
-----------------------------------------------------------------------------
(* Why a resolved node is final.  Several activations may be at work on    *)
(* one name, and the end of a second one would undo the first.  None of    *)
(* them ends: a later one does what the earlier one did, in the same       *)
(* order, and so it would have to get past what the earlier one waits for, *)
(* which is the end of another activation that is in turn there twice.     *)

\* What an activation is at work on is not resolved.
IsOpen(map, n) == n \in DOMAIN map => map[n].kind \in Unresolved

\* The name that an activation asks get_type for, and how much it has to do.
Wanted(map, f) ==
    IF f.kind = "alias" THEN map[f.name].of
    ELSE IF f.kind \in Wrapper THEN Stem[f.name]
    ELSE IF f.base # "" THEN f.base ELSE Head(f.todo).type
Remaining(f) == IF f.base # "" THEN Len(f.todo) + 1 ELSE Len(f.todo)

\* An activation goes through what is defined from the first to the last.
InOrder(map, f) ==
    IF f.kind \in {"struct", "variant"}
    THEN LET own == map[f.name].parts IN
         /\ Len(f.todo) <= Len(own)
         /\ \A i \in 1 .. Len(f.todo) : f.todo[i] = own[i + (Len(own) - Len(f.todo))]
         /\ f.base # "" => f.base = map[f.name].of /\ Len(f.todo) = Len(own)
    ELSE f.base = "" /\ f.todo = <<>>

\* What get_type returns for a name without an activation of its own.
IsFound(map, n) == n \in DOMAIN map /\ map[n].kind # "alias_def"
Target(map, n) == IF map[n].kind = "alias" THEN map[n].of ELSE n

\* g has been begun for what f waits for.
Serves(map, f, g) ==
    IF g.kind \in {"struct", "variant"}
    THEN f.kind = "struct" /\ f.base # "" /\ IsFound(map, f.base) /\ Target(map, f.base) = g.name
    ELSE g.name = Wanted(map, f)

Unfinished(map, st) ==
    /\ \A k \in DOMAIN st : IsOpen(map, st[k].name) /\ InOrder(map, st[k])
    /\ \A k \in DOMAIN st : k > 1 => Serves(map, st[k - 1], st[k])
    /\ \A j, k \in DOMAIN st :
           j < k /\ st[j].name = st[k].name => Remaining(st[j]) <= Remaining(st[k])

CallServes == call # NoCall /\ stack # <<>> => call.name = Wanted(types, Top)
ReturnServes ==
    ret # NoName /\ stack # <<>> =>
        IsFound(types, Wanted(types, Top)) /\ ret = Target(types, Wanted(types, Top))

\* The invariant that ResolvedIsFinal follows from.
FinalInv == Unfinished(types, stack) /\ CallServes /\ ReturnServes
-----------------------------------------------------------------------------
(* What can be seen from outside: the order of the map, what has been      *)
(* resolved on the way to something else and the wrappers that earlier     *)
(* questions left behind do not show in the verdict, the graph or an       *)
(* answer.                                                                 *)

Accepted == phase \in {"ready", "query"}
Entered == {def[i].name : i \in DOMAIN def}

Verdict ==
    IF phase = "idle" THEN "none"
    ELSE IF phase = "failed" THEN "rejected"
    ELSE IF Accepted THEN "accepted" ELSE "pending"

Shown == IF Accepted THEN [n \in Entered |-> types[n]] ELSE <<>>
Answered == IF phase = "query" THEN "waiting" ELSE IF phase = "ready" THEN ret ELSE NoName

Meaning == INSTANCE AbiMeaning WITH
    verdict <- Verdict, meaning <- Shown, answer <- Answered

\* convert accepts definitions only if they have a meaning, refuses them only if
\* they have none within MaxDepth levels, and its abi and the answers of
\* abi::get_type are that meaning (abi.cpp:46-196).
MeansWhatItSays == Meaning!Spec
-----------------------------------------------------------------------------
(* Why it implements AbiMeaning.  Each node that is done took one level    *)
(* more than those it was made from, so the nodes that are done are as     *)
(* many as the levels that they took; and if the meaning can be found      *)
(* within MaxDepth levels, every activation has the levels left that what  *)
(* it is at work on takes.                                                 *)

NamesAt(d, k) == Meaning!StandsFor(d)[k]
FieldsAt(d, k) == Meaning!AllParts(d)[k]

Done(map) == {n \in DOMAIN map : map[n].kind \notin Unresolved}
Rank(map) == Cardinality(Done(map))

\* While the definitions are entered, the map has the first ones.
AsEntered(e) == MakeNode(e.kind, e.of, e.parts)
Declaring ==
    LET first == 1 .. next - 1 IN
    /\ next - 1 <= Len(def)
    /\ DOMAIN types = DOMAIN Prefilled \cup {def[i].name : i \in first}
    /\ \A n \in DOMAIN Prefilled : types[n] = Prefilled[n]
    /\ \A i \in first : /\ def[i].name # "" /\ def[i].name \notin DOMAIN Prefilled
                        /\ types[def[i].name] = AsEntered(def[i])
    /\ \A i, j \in first : def[i].name = def[j].name => i = j

\* Then a node is what it was defined as, or what that means.
NodeMeans(d, k, map, n) ==
    IF n \in Meaning!Declared(d)
    THEN \/ map[n] = AsEntered(Meaning!Defines(d, n))
         \/ Meaning!Sound(d, k, n) /\ map[n] = Meaning!NodeFor(d, k, n)
    ELSE IF n \in DOMAIN Prefilled THEN map[n] = Prefilled[n]
    ELSE map[n].kind = Suffix[n] /\ NamesAt(d, k)[n] = n
GraphMeans(d, k, map) ==
    /\ Meaning!NamesAreGood(d)
    /\ Meaning!Declared(d) \cup DOMAIN Prefilled \subseteq DOMAIN map
    /\ \A n \in DOMAIN map : NodeMeans(d, k, map, n)

\* An activation is there for what its name says, and has the first of the parts
\* that are meant.
Inherits(d, k, f) ==
    IF f.kind = "struct" THEN Meaning!Inherited(d, NamesAt(d, k), FieldsAt(d, k), f.name) ELSE <<>>
Collected(d, k, f) ==
    LET own == Meaning!Defines(d, f.name).parts
        taken == 1 .. Len(own) - Len(f.todo)
    IN /\ Inherits(d, k, f) # Meaning!NoParts
       /\ \A i \in taken : NamesAt(d, k)[own[i].type] # NoName
       /\ f.parts = Inherits(d, k, f) \o
              [i \in taken |-> [name |-> own[i].name, type |-> NamesAt(d, k)[own[i].type]]]
FrameMeans(d, k, f) ==
    /\ f.kind \in Wrapper => f.kind = Suffix[f.name]
    /\ f.kind \in {"struct", "variant"} /\ f.base = "" => Collected(d, k, f)

\* abi::get_type answers the question that was asked.
QueryServes ==
    /\ stack # <<>> => stack[1].kind \in Wrapper /\ stack[1].name = query
    /\ stack = <<>> /\ call # NoCall => call.name = query
    /\ Idle => ret # NoName /\ IsFound(types, query) /\ ret = Target(types, query)

\* An activation that has k levels left needs no more.
HasLevels(d, k, f) ==
    IF f.kind = "struct" THEN FieldsAt(d, k)[f.name] # Meaning!NoParts
    ELSE IF f.kind = "variant" THEN Meaning!OwnParts(d, NamesAt(d, k - 1), f.name) # Meaning!NoParts
    ELSE NamesAt(d, k)[f.name] # NoName
Promised ==
    \/ phase = "fill" /\ Meaning!AllSound(def, MaxDepth)
    \/ phase = "query" /\ NamesAt(def, MaxDepth)[query] # NoName
LevelsLeft(d, st, c) ==
    /\ \A i \in DOMAIN st : HasLevels(d, MaxDepth - (i - 1), st[i])
    /\ c # NoCall => NamesAt(d, MaxDepth - Len(st))[c.name] # NoName

\* The invariant that the refinement follows from.
MeansInv ==
    /\ phase = "idle" => next = 1
    /\ phase = "declare" => Declaring
    /\ phase \in {"fill", "ready", "query"} => GraphMeans(def, Rank(types), types)
    /\ \A i \in DOMAIN stack : FrameMeans(def, Rank(types), stack[i])
    /\ phase = "query" => QueryServes
    /\ Promised => LevelsLeft(def, stack, call)
=============================================================================
