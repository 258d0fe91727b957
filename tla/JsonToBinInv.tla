---------------------------- MODULE JsonToBinInv ----------------------------
(***************************************************************************)
(* The inductive invariant of the in-order encoder JsonToBin.              *)
(*                                                                         *)
(* None of the properties of JsonToBin is inductive alone.  A serializer   *)
(* subscripts the fields of its struct because of a position that only the *)
(* grammar of JSON bounds, and it may omit an extension because of a flag  *)
(* handed down from the entry below, so what holds of the top entry comes  *)
(* from what holds between neighbours and between stack and reader.  The   *)
(* parts take the stream and the stack as arguments, because a start falls *)
(* through to the part a resume executes with both already moved on.       *)
(***************************************************************************)
EXTENDS JsonToBin

Containers == {"object", "array", "variant"}

\* An entry that has started its last part: a struct its last field, a variant
\* its value.  No array is ever taken to be there.
Closing(e) ==
    /\ e.allow
    /\ Ser[e.type] = "object" => e.position + 1 = Len(Fields[e.type])
    /\ Ser[e.type] = "variant" => e.position = 1
    /\ Ser[e.type] # "array"

GoodEntry(e, holes) ==
    /\ Ser[e.type] \in Containers
    /\ Ser[e.type] = "array" => ~e.allow
    /\ EntryInBounds(e, holes)

\* Extensions are allowed in an entry only if it is in the last part of the
\* one below, where they are allowed as well.
Chain(st) == \A i \in 1 .. Len(st) - 1 : st[i + 1].allow => Closing(st[i])

Holes(st) ==
    \A i, j \in 1 .. Len(st) :
        i < j /\ Ser[st[i].type] = "array" /\ Ser[st[j].type] = "array"
          => st[i].slot < st[j].slot

GoodStack(st, holes) ==
    /\ \A i \in 1 .. Len(st) : GoodEntry(st[i], holes)
    /\ Chain(st)
    /\ Holes(st)

\* What the grammar expects at each level.  Below the top a member's value is
\* being read, so its struct goes on with a key.  pending: the value at the
\* top has been called for and not begun.
ContextOf(st, i, pending) ==
    IF Ser[st[i].type] # "object" THEN {"array"}
    ELSE IF i < Len(st) THEN {"key"}
    ELSE IF pending THEN {"value"} ELSE {"key", "value"}

Shape(in, st, pending) ==
    /\ Len(in.open) = Len(st) + 1
    /\ in.open[1] = IF st = <<>> /\ pending THEN "root" ELSE "done"
    /\ \A i \in 1 .. Len(st) : in.open[i + 1] \in ContextOf(st, i, pending)

HasField(in, st) ==
    st # <<>> /\ Ser[Last(st).type] = "object" /\ Last(in.open) = "value"
      => Last(st).position >= 0

\* After an extension was left out only ends are left.
OnlyEnds(in, st) ==
    st # <<>> => Closing(Last(st)) /\ Last(in.open) # "value"

Pending == call # NoCall
IdleInv == status = "idle" => stack = <<>> /\ ~skipped /\ call = NoCall
RunInv ==
    status = "run" =>
        /\ HasField(input, stack)
        /\ Pending =>
             /\ Shape(input, stack, TRUE)
             /\ Len(stack) <= MaxStack
             /\ ~skipped
             /\ call.allow /\ stack # <<>> => Closing(Top)
        /\ ~Pending =>
             /\ Shape(input, stack, FALSE)
             /\ skipped => OnlyEnds(input, stack)

IInv ==
    /\ TypeOK
    /\ StackBounded
    /\ ConsumesOneValue
    /\ GoodStack(stack, Len(insertions))
    /\ MergeInBounds
    /\ IdleInv
    /\ RunInv
=============================================================================
