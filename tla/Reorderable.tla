----------------------------- MODULE Reorderable -----------------------------
(***************************************************************************)
(* abiala_json_to_bin_reorderable: JsonToJvalue parses the document, then  *)
(* JvalueToBin encodes the tree it left (src/abi.cpp,                      *)
(* abi_type::json_to_bin_reorderable).                                     *)
(***************************************************************************)
EXTENDS AbiTypes

CONSTANTS Inputs, MaxStack

ASSUME InputsAssumption == Inputs \subseteq [type : Type, doc : Seq(Token)]
ASSUME MaxStackAssumption == MaxStack \in Nat \ {0}

VARIABLES
    type,                                       \* the type asked for
    input, heap, started, parents, parsing,     \* of the parser
    received, stack, bin, skipped, call, encoding    \* of the encoder

parserVars == <<input, heap, started, parents, parsing>>
encoderVars == <<received, stack, bin, skipped, call, encoding>>
vars == <<type, parserVars, encoderVars>>

Parser == INSTANCE JsonToJvalue WITH
    Docs <- {i.doc : i \in Inputs}, stack <- parents, status <- parsing
Encoder == INSTANCE JvalueToBin WITH status <- encoding

Init ==
    /\ type = "none"
    /\ Parser!Init
    /\ Encoder!Init

Begin(i) ==
    /\ Parser!Begin(i.doc)
    /\ type' = i.type
    /\ UNCHANGED encoderVars

Parse == Parser!Step /\ UNCHANGED <<type, encoderVars>>

\* The tree goes to the encoder only when the whole document was parsed.
HandOver ==
    /\ parsing = "ok"
    /\ Encoder!Begin(type, Parser!Root)
    /\ UNCHANGED <<type, input, started, parents, parsing>>

Encode == Encoder!Step /\ UNCHANGED <<type, input, started, parents, parsing>>

Errors == Parser!Errors \cup Encoder!Errors
Result == IF parsing = "ok" THEN encoding ELSE parsing
Terminated == Result \in {"ok"} \cup Errors /\ UNCHANGED vars

Step == Parse \/ HandOver \/ Encode
Next == (\E i \in Inputs : Begin(i)) \/ Step \/ Terminated

Spec == Init /\ [][Next]_vars

-----------------------------------------------------------------------------
\* The encoder has no depth test of its own: it relies on the parser, which
\* refuses a tree deeper than max_stack_size, and descends one level of the
\* tree with every entry.
EncoderDepthBounded == Len(stack) <= MaxStack

\* Each entry of the encoder holds a container of the kind its serializer
\* will std::get from it, and stays inside its items.
EntryFitsValue(e) ==
    LET v == heap[e.value] IN
    /\ e.value \in DOMAIN heap
    /\ Ser[e.type] = "object" =>
         v.kind = "object" /\ e.position \in -1 .. Len(Fields[e.type]) - 1
    /\ Ser[e.type] = "array" => v.kind = "array" /\ e.position \in -1 .. Len(v.items) - 1
    /\ Ser[e.type] = "variant" => v.kind = "array" /\ Len(v.items) = 2
EntriesFitValues == \A i \in DOMAIN stack : EntryFitsValue(stack[i])

StackIsLivePath == Parser!StackIsLivePath

-----------------------------------------------------------------------------
(* The inductive invariant.  The heap is a forest: an address has one owner*)
(* at most, so that an array may move its elements, and a depth, so that no*)
(* value on the path from the root is overwritten and every entry of the   *)
(* encoder is one level below the one under it.                            *)

Children(tree, a) ==
    {tree[a].members[k] : k \in DOMAIN tree[a].members}
      \cup {tree[a].items[i] : i \in DOMAIN tree[a].items}

NodesFit(tree) ==
    \A a \in DOMAIN tree :
        /\ Parser!IsNode(tree[a])
        /\ tree[a] = [kind |-> tree[a].kind, text |-> tree[a].text,
                      members |-> tree[a].members, items |-> tree[a].items]
        /\ \A i, j \in DOMAIN tree[a].items :
              i # j => tree[a].items[i] # tree[a].items[j]

IsForest(tree, depth) ==
    /\ DOMAIN tree \subseteq Nat /\ Parser!Root \in DOMAIN tree
    /\ \E last \in DOMAIN tree : \A a \in DOMAIN tree : a <= last
    /\ \A a \in DOMAIN tree : \A x \in Children(tree, a) :
          /\ x \in DOMAIN tree /\ depth[x] = depth[a] + 1
          /\ \A b \in DOMAIN tree : x \in Children(tree, b) => a = b
    /\ depth \in [DOMAIN tree -> 1 .. MaxStack] /\ depth[Parser!Root] = 1

\* The parser's stack: the reader's context of every level, and its link to the
\* level below.
LevelFits(open, kind, isTop) ==
    \/ kind = "array" /\ open = "array"
    \/ kind = "object" /\ open \in {"key"} \cup (IF isTop THEN {"value"} ELSE {})
ParserTypes ==
    /\ input \in Stream /\ started \in BOOLEAN
    /\ parents \in Seq(Parser!Entry)
    /\ parsing \in Parser!Status
    /\ type \in Type \cup {"none"} /\ (parsing # "idle" => type \in Type)
ParserLevels ==
    /\ parsing = "idle" => ~started
    /\ parsing = "run" /\ ~started =>
         input.open = <<"root">> /\ parents = <<Parser!Pointer(Parser!Root)>>
    /\ parsing = "run" /\ started =>
         /\ Len(input.open) = Len(parents) + 1 /\ input.open[1] = "done"
         /\ \A i \in 1 .. Len(parents) :
               LevelFits(input.open[i + 1], heap[parents[i].value].kind, i = Len(parents))
ParserDepths(depth) ==
    parsing = "run" => \A i \in 1 .. Len(parents) : depth[parents[i].value] = i

Pending == encoding = "run" /\ call # Encoder!NoCall
EncoderTypes ==
    /\ stack \in Seq(Encoder!Entry)
    /\ call \in Encoder!Call \cup {Encoder!NoCall}
    /\ encoding \in Encoder!Status
    /\ encoding # "idle" => parsing = "ok"
    /\ encoding = "idle" => stack = <<>> /\ call = Encoder!NoCall
    /\ \A i \in 1 .. Len(stack) : Ser[stack[i].type] \in {"object", "array", "variant"}
EncoderDepths(depth) ==
    /\ \A i \in 1 .. Len(stack) : depth[stack[i].value] = i
    /\ Pending => received \in DOMAIN heap /\ depth[received] = Len(stack) + 1

IInv ==
    /\ ParserTypes /\ ParserLevels /\ StackIsLivePath
    /\ EncoderTypes /\ EntriesFitValues
    /\ NodesFit(heap)
    /\ \E depth \in [DOMAIN heap -> 1 .. MaxStack] :
          IsForest(heap, depth) /\ ParserDepths(depth) /\ EncoderDepths(depth)
=============================================================================
