--------------------------- MODULE AbiCompileProof ---------------------------
(***************************************************************************)
(* What the ABI compiler keeps for every abi_def, every order of the map   *)
(* and every limit: IInv of AbiCompileInv is inductive, the graph that it  *)
(* makes is one that the serializers can work on, what is resolved stays   *)
(* as it is, the whole implements AbiMeaning, and what it makes compiles   *)
(* to the same types after it has been converted back.                     *)
(***************************************************************************)
EXTENDS AbiRoundTrip, StackLemmas

-----------------------------------------------------------------------------
(* The map: nodes are added and resolved, never anything else.             *)

\* A node stays in its family.
Later(kind, kind2) ==
    \/ kind2 = kind
    \/ kind = "alias_def" /\ kind2 = "alias"
    \/ kind = "struct_def" /\ kind2 = "struct"
    \/ kind = "variant_def" /\ kind2 = "variant"

Grows(map, map2) ==
    /\ DOMAIN map \subseteq DOMAIN map2
    /\ \A n \in DOMAIN map : Later(map[n].kind, map2[n].kind)

\* What a pointer may point at it may point at ever after.
LEMMA SettledLasts ==
    ASSUME NEW map, NEW map2, Grows(map, map2)
    PROVE  \A n : Settled(map, n) => Settled(map2, n)
BY DEF Grows, Later, Settled

\* What NestingLegal says of one node.
NestsLegally(map, node) ==
    node.kind \in Wrapper =>
        /\ node.of \in DOMAIN map
        /\ map[node.of].kind # "extension"
        /\ node.kind \in {"optional", "array"} => map[node.of].kind \notin {"optional", "array"}

\* A node that is not touched stays good.
LEMMA NodeLasts ==
    ASSUME NEW map, NEW map2, Grows(map, map2),
           NEW node, NestsLegally(map, node), NodeSettled(map, node)
    PROVE  NestsLegally(map2, node) /\ NodeSettled(map2, node)
<1>1. NestsLegally(map2, node)
    BY DEF NestsLegally, Grows, Later
<1>2. NodeSettled(map2, node)
    BY SettledLasts DEF NodeSettled
<1> QED
    BY <1>1, <1>2

\* The graph after a step that leaves every node as it is or makes it a good one.
GraphGood(map) == \A n \in DOMAIN map : NestsLegally(map, map[n]) /\ NodeSettled(map, map[n])

LEMMA GraphStep ==
    ASSUME NEW map, NEW map2, GraphGood(map), Grows(map, map2),
           \A n \in DOMAIN map2 :
               \/ n \in DOMAIN map /\ map2[n] = map[n]
               \/ NestsLegally(map2, map2[n]) /\ NodeSettled(map2, map2[n])
    PROVE  GraphGood(map2)
BY NodeLasts DEF GraphGood

\* Names that come in while something is being resolved are wrappers.
OnlyWrappersNew(map, map2) ==
    \A n \in DOMAIN map2 : n \notin DOMAIN map => map2[n].kind \in Wrapper

\* An activation can go on with its work.
LEMMA FrameLasts ==
    ASSUME NEW map, NEW map2, Grows(map, map2), OnlyWrappersNew(map, map2),
           NEW f, WorksOn(map, f), HasSettled(map, f)
    PROVE  WorksOn(map2, f) /\ HasSettled(map2, f)
<1>1. HasSettled(map2, f)
    BY SettledLasts DEF HasSettled
<1>2. f.name \in DOMAIN map => f.name \in DOMAIN map2 /\ Later(map[f.name].kind, map2[f.name].kind)
    BY DEF Grows
<1>3. WorksOn(map2, f)
    BY <1>2 DEF WorksOn, Later, OnlyWrappersNew, Wrapper
<1> QED
    BY <1>1, <1>3

-----------------------------------------------------------------------------
(* The stack.                                                              *)

\* The limit is a positive number.
LEMMA LimitType == MaxDepth \in Nat \ {0}
BY NameAssumption

\* What is known of the names.
LEMMA NameFacts ==
    /\ "" \in Name /\ NoName \notin Name
    /\ \A n \in Name : Suffix[n] \in Wrapper \cup {"none"} /\ Stem[n] \in Name
    /\ \A n \in Name : \E i \in DOMAIN MapOrder : MapOrder[i] = n
    /\ MapOrder \in Seq(Name)
BY NameAssumption DEF NoName

\* The part of the invariant about the activations.
StackGood(map, st) ==
    /\ st \in Seq(Activation)
    /\ \A k \in DOMAIN st : WorksOn(map, st[k]) /\ HasSettled(map, st[k])
    /\ Len(st) <= MaxDepth
    /\ \A k \in DOMAIN st : st[k].depth = k - 1

\* The activation on top.
LEMMA TopGood ==
    ASSUME NEW map, NEW st, StackGood(map, st), st # <<>>
    PROVE  /\ DOMAIN st = 1 .. Len(st)
           /\ Len(st) \in Nat \ {0}
           /\ Last(st) = st[Len(st)]
           /\ Last(st) \in Activation
           /\ WorksOn(map, Last(st)) /\ HasSettled(map, Last(st))
           /\ Last(st).depth \in Nat
           /\ Last(st).depth + 1 = Len(st)
<1>1. st \in Seq(Activation)
    BY DEF StackGood
<1>2. /\ DOMAIN st = 1 .. Len(st) /\ Len(st) \in Nat \ {0}
      /\ Last(st) = st[Len(st)] /\ Last(st) \in Activation
    BY <1>1, NonEmpty, TopFacts, LenProperties
<1>3. Len(st) \in DOMAIN st
    BY <1>2
<1>4. WorksOn(map, Last(st)) /\ HasSettled(map, Last(st)) /\ Last(st).depth = Len(st) - 1
    BY <1>2, <1>3 DEF StackGood
<1> QED
    BY <1>2, <1>4

\* A new activation, one deeper than the last.
LEMMA StackPush ==
    ASSUME NEW map, NEW st, StackGood(map, st),
           NEW f \in Activation, WorksOn(map, f), HasSettled(map, f),
           f.depth = Len(st), Len(st) < MaxDepth
    PROVE  /\ StackGood(map, Push(st, f))
           /\ Push(st, f) # <<>>
           /\ Len(st) \in Nat
           /\ Len(Push(st, f)) = Len(st) + 1
           /\ Push(st, f)[Len(st) + 1] = f
           /\ DOMAIN st = 1 .. Len(st)
           /\ DOMAIN Push(st, f) = 1 .. Len(st) + 1
           /\ \A k \in 1 .. Len(st) : Push(st, f)[k] = st[k]
<1>1. st \in Seq(Activation)
    BY DEF StackGood
<1>2. /\ Push(st, f) \in Seq(Activation) /\ Push(st, f) # <<>>
      /\ Len(st) \in Nat /\ Len(Push(st, f)) = Len(st) + 1
      /\ Push(st, f)[Len(st) + 1] = f
      /\ \A k \in 1 .. Len(st) : Push(st, f)[k] = st[k]
    BY <1>1, PushFacts
<1>3. DOMAIN st = 1 .. Len(st) /\ DOMAIN Push(st, f) = 1 .. Len(st) + 1
    BY <1>1, <1>2, LenProperties
<1>4. ASSUME NEW k \in DOMAIN Push(st, f)
      PROVE  /\ WorksOn(map, Push(st, f)[k]) /\ HasSettled(map, Push(st, f)[k])
             /\ Push(st, f)[k].depth = k - 1
    <2>1. CASE k \in DOMAIN st
        BY <1>2, <1>3, <2>1 DEF StackGood
    <2>2. CASE k = Len(st) + 1
        BY <1>2, <2>2
    <2> QED
        BY <1>2, <1>3, <2>1, <2>2
<1>5. Len(Push(st, f)) <= MaxDepth
    BY <1>2, LimitType
<1> QED
    BY <1>2, <1>3, <1>4, <1>5 DEF StackGood

\* The activation on top ends, and what it made is in the map.
LEMMA StackPop ==
    ASSUME NEW map, NEW map2, NEW st, StackGood(map, st), st # <<>>,
           Grows(map, map2), OnlyWrappersNew(map, map2)
    PROVE  /\ StackGood(map2, Front(st))
           /\ Len(Front(st)) \in Nat
           /\ Len(st) = Len(Front(st)) + 1
           /\ DOMAIN st = 1 .. Len(st)
           /\ DOMAIN Front(st) = 1 .. Len(Front(st))
           /\ \A k \in 1 .. Len(Front(st)) : Front(st)[k] = st[k]
<1>1. st \in Seq(Activation)
    BY DEF StackGood
<1>2. /\ Front(st) \in Seq(Activation)
      /\ Len(Front(st)) \in Nat /\ Len(st) = Len(Front(st)) + 1
      /\ \A k \in 1 .. Len(Front(st)) : Front(st)[k] = st[k]
    BY <1>1, PopFacts
<1>3. DOMAIN st = 1 .. Len(st) /\ DOMAIN Front(st) = 1 .. Len(Front(st))
    BY <1>1, <1>2, LenProperties
<1>4. ASSUME NEW k \in DOMAIN Front(st)
      PROVE  /\ WorksOn(map2, Front(st)[k]) /\ HasSettled(map2, Front(st)[k])
             /\ Front(st)[k].depth = k - 1
    <2>1. k \in DOMAIN st /\ Front(st)[k] = st[k]
        BY <1>2, <1>3
    <2>2. WorksOn(map, st[k]) /\ HasSettled(map, st[k]) /\ st[k].depth = k - 1
        BY <2>1 DEF StackGood
    <2> QED
        BY <2>1, <2>2, FrameLasts
<1>5. Len(Front(st)) <= MaxDepth
    BY <1>2, LimitType DEF StackGood
<1> QED
    BY <1>2, <1>3, <1>4, <1>5 DEF StackGood

\* The activation on top has come further.
LEMMA StackReplace ==
    ASSUME NEW map, NEW st, StackGood(map, st), st # <<>>,
           NEW f \in Activation, WorksOn(map, f), HasSettled(map, f),
           f.depth = Last(st).depth
    PROVE  LET st2 == [st EXCEPT ![Len(st)] = f] IN
           /\ StackGood(map, st2)
           /\ st2 # <<>>
           /\ Len(st2) = Len(st)
           /\ Len(st) \in Nat \ {0}
           /\ DOMAIN st = 1 .. Len(st)
           /\ DOMAIN st2 = 1 .. Len(st)
           /\ \A k \in 1 .. Len(st) : st2[k] = IF k = Len(st) THEN f ELSE st[k]
<1> DEFINE st2 == [st EXCEPT ![Len(st)] = f]
<1>1. st \in Seq(Activation)
    BY DEF StackGood
<1>2. /\ st2 \in Seq(Activation) /\ st2 # <<>> /\ Len(st2) = Len(st)
      /\ \A k \in 1 .. Len(st) : st2[k] = IF k = Len(st) THEN f ELSE st[k]
    BY <1>1, ReplaceFacts
<1> HIDE DEF st2
<1>3. /\ DOMAIN st = 1 .. Len(st) /\ DOMAIN st2 = 1 .. Len(st)
      /\ Len(st) \in Nat \ {0} /\ Last(st).depth + 1 = Len(st) /\ Last(st).depth \in Nat
    BY <1>1, <1>2, TopGood, LenProperties
<1>4. ASSUME NEW k \in DOMAIN st2
      PROVE  WorksOn(map, st2[k]) /\ HasSettled(map, st2[k]) /\ st2[k].depth = k - 1
    <2>1. CASE k = Len(st)
        <3>1. k \in 1 .. Len(st)
            BY <1>3, <2>1
        <3>2. st2[k] = f
            BY <1>2, <2>1, <3>1
        <3>3. f.depth = k - 1
            BY <1>3, <2>1
        <3> QED
            BY <3>2, <3>3
    <2>2. CASE k # Len(st)
        BY <1>2, <1>3, <2>2 DEF StackGood
    <2> QED
        BY <2>1, <2>2
<1>5. Len(st2) <= MaxDepth
    BY <1>2 DEF StackGood
<1>6. StackGood(map, st2)
    BY <1>2, <1>3, <1>4, <1>5 DEF StackGood
<1> QED
    BY <1>2, <1>3, <1>6 DEF st2

-----------------------------------------------------------------------------
(* The steps that every action is made of.                                 *)

\* The invariant, with its parts about the map and the stack in the form that
\* the lemmas above have.
Parted ==
    /\ TypeOK /\ PhaseShape
    /\ GraphGood(types) /\ StackGood(types, stack)
    /\ CallersAwait /\ ReturnsSettled
    /\ call # NoCall => call.depth = Len(stack)
    /\ Swept /\ NothingLeftOver

LEMMA InvParts == IInv <=> Parted
<1>1. NestingLegal /\ GraphSettled <=> GraphGood(types)
    BY DEF NestingLegal, GraphSettled, GraphGood, NestsLegally, KindOf
<1>2. TypeOK => (FramesGood /\ DepthBounded <=>
                    /\ StackGood(types, stack)
                    /\ call # NoCall => call.depth = Len(stack))
    BY DEF TypeOK, FramesGood, DepthBounded, StackGood
<1> QED
    BY <1>1, <1>2 DEF IInv, Parted

LEMMA InvPartsAfter == IInv' <=> Parted'
BY InvParts, PTL

\* An exception leaves an abi that can be asked again, or none.
LEMMA ThrowInv ==
    ASSUME IInv, NEW e, Throw(e), cursor' \in Nat, phase \in {"declare", "fill", "query"}
    PROVE  IInv'
<1>1. Parted
    BY InvParts
<1>2. /\ stack' = <<>> /\ call' = NoCall /\ ret' = NoName
      /\ phase' = IF phase = "query" THEN "ready" ELSE "failed"
      /\ UNCHANGED <<def, types, next, query>>
    BY DEF Throw
<1>3. TypeOK'
    BY <1>1, <1>2 DEF Parted, TypeOK
<1>4. StackGood(types', stack')
    BY <1>2, LimitType DEF StackGood
<1>5. Swept' /\ NothingLeftOver' /\ PhaseShape' /\ CallersAwait' /\ ReturnsSettled'
    BY <1>1, <1>2 DEF Parted, Swept, NothingLeftOver, PhaseShape, CallersAwait, ReturnsSettled,
                      Idle, KindOf
<1> QED
    BY <1>1, <1>2, <1>3, <1>4, <1>5, InvPartsAfter DEF Parted

\* A step that leaves the map and the activations alone.
LEMMA CallInv ==
    ASSUME IInv, UNCHANGED <<def, types, next, cursor, stack>>,
           phase' \in {"fill", "ready", "query"},
           query' \in Name \cup {NoName},
           \/ call' = NoCall
           \/ call' \in [name : Name, depth : Nat] /\ call'.depth = Len(stack),
           ret' = NoName \/ (ret' \in Name /\ Settled(types, ret')),
           PhaseShape', NothingLeftOver', Swept',
           (call' = NoCall /\ ret' = NoName) \/ \A k \in DOMAIN stack : Awaits(stack[k])
    PROVE  IInv'
<1>1. Parted
    BY InvParts
<1>2. TypeOK'
    BY <1>1 DEF Parted, TypeOK
<1>3. CallersAwait'
    BY <1>1 DEF Parted, CallersAwait
<1>4. ReturnsSettled'
    BY <1>1 DEF ReturnsSettled
<1> QED
    BY <1>1, <1>2, <1>3, <1>4, InvPartsAfter DEF Parted

\* A new activation, which awaits what it calls or has still to begin.
LEMMA PushInv ==
    ASSUME IInv, UNCHANGED <<def, phase, types, next, error, query>>,
           phase \in {"fill", "query"}, cursor' \in Nat, Swept',
           NEW f \in Activation, WorksOn(types, f), HasSettled(types, f),
           f.depth = Len(stack), Len(stack) < MaxDepth, stack' = Append(stack, f),
           ret' = NoName,
           \/ call' = NoCall
           \/ call' \in [name : Name, depth : Nat] /\ call'.depth = Len(stack) + 1 /\ Awaits(f),
           \A k \in DOMAIN stack : Awaits(stack[k])
    PROVE  IInv'
<1>1. Parted
    BY InvParts
<1>2. stack' = Push(stack, f)
    BY DEF Push
<1>3. /\ StackGood(types', stack') /\ Len(stack) \in Nat /\ Len(stack') = Len(stack) + 1
      /\ stack'[Len(stack) + 1] = f
      /\ DOMAIN stack = 1 .. Len(stack) /\ DOMAIN stack' = 1 .. Len(stack) + 1
      /\ \A k \in 1 .. Len(stack) : stack'[k] = stack[k]
    BY <1>1, <1>2, StackPush DEF Parted
<1>4. TypeOK'
    BY <1>1, <1>3 DEF Parted, TypeOK, StackGood
<1>5. CallersAwait'
    <2> SUFFICES ASSUME NEW k \in DOMAIN stack',
                        k < Len(stack') \/ call' # NoCall \/ ret' # NoName
                 PROVE  Awaits(stack'[k])
        BY DEF CallersAwait, Awaits
    <2>1. k \in DOMAIN stack \/ k = Len(stack) + 1
        BY <1>3
    <2> QED
        BY <1>3, <2>1
<1>6. PhaseShape' /\ ReturnsSettled' /\ NothingLeftOver'
    BY <1>1 DEF Parted, PhaseShape, ReturnsSettled, NothingLeftOver, KindOf
<1>7. call' # NoCall => call'.depth = Len(stack')
    BY <1>3
<1> QED
    BY <1>1, <1>3, <1>4, <1>5, <1>6, <1>7, InvPartsAfter DEF Parted

\* The activation on top ends: its node, if it is of a definition, is resolved.
LEMMA FinishInv ==
    ASSUME IInv, NEW node, Finish(types', node), cursor' = cursor,
           phase \in {"fill", "query"}, stack # <<>>, call = NoCall,
           DOMAIN types' \subseteq Name, types' \in [DOMAIN types' -> Node],
           Grows(types, types'), OnlyWrappersNew(types, types'), GraphGood(types'),
           node \in Name, Settled(types', node),
           Top.kind \notin Wrapper => types'[Top.name].kind \notin Unresolved
    PROVE  IInv'
<1>1. Parted
    BY InvParts
<1>2. /\ stack' = Front(stack) /\ ret' = node /\ call' = NoCall
      /\ UNCHANGED <<def, phase, next, error, query>>
    BY DEF Finish, Return
<1>3. /\ StackGood(types', stack') /\ Len(stack') \in Nat /\ Len(stack) = Len(stack') + 1
      /\ DOMAIN stack = 1 .. Len(stack) /\ DOMAIN stack' = 1 .. Len(stack')
      /\ \A k \in 1 .. Len(stack') : stack'[k] = stack[k]
    BY <1>1, <1>2, StackPop DEF Parted
<1>4. TypeOK'
    BY <1>1, <1>2, <1>3 DEF Parted, TypeOK, StackGood
<1>5. CallersAwait'
    <2> SUFFICES ASSUME NEW k \in DOMAIN stack' PROVE Awaits(stack'[k])
        BY DEF CallersAwait, Awaits
    <2>1. k \in DOMAIN stack /\ k < Len(stack) /\ stack'[k] = stack[k]
        BY <1>3
    <2>2. Awaits(stack[k])
        BY <1>1, <2>1 DEF Parted, CallersAwait
    <2> QED
        BY <2>1, <2>2
<1>6. \A n \in DOMAIN types' : types'[n].kind \in Unresolved =>
          n \in DOMAIN types /\ types[n].kind \in Unresolved
    BY DEF Grows, OnlyWrappersNew, Later, Unresolved, Wrapper
<1>7. NothingLeftOver'
    BY <1>1, <1>2, <1>6 DEF Parted, NothingLeftOver, KindOf
<1>8. Swept'
    <2> SUFFICES ASSUME phase = "fill", NEW i \in DOMAIN MapOrder, i <= cursor,
                        MapOrder[i] \in DOMAIN types', types'[MapOrder[i]].kind \in Unresolved
                 PROVE  /\ stack' # <<>> /\ stack'[1].kind \notin Wrapper
                        /\ stack'[1].name = MapOrder[i]
        BY <1>2 DEF Swept, IsUnresolved, KindOf
    <2>1. stack[1].kind \notin Wrapper /\ stack[1].name = MapOrder[i]
        BY <1>1, <1>6 DEF Parted, Swept, IsUnresolved, KindOf
    <2>2. Len(stack') # 0
        <3> SUFFICES ASSUME Len(stack') = 0 PROVE FALSE
            OBVIOUS
        <3>1. Len(stack) = 1
            BY <1>3
        <3>2. Top = stack[1]
            BY <1>1, <3>1, TopGood DEF Parted, Top
        <3> QED
            BY <2>1, <3>2
    <2>3. 1 \in 1 .. Len(stack')
        BY <1>3, <2>2
    <2> QED
        BY <1>3, <2>1, <2>3
<1>9. PhaseShape' /\ ReturnsSettled'
    BY <1>2 DEF PhaseShape, ReturnsSettled
<1> QED
    BY <1>1, <1>2, <1>3, <1>4, <1>5, <1>7, <1>8, <1>9, InvPartsAfter DEF Parted

\* The sweep goes on where it is while the activations on top of the first come
\* and go.
LEMMA SweptLasts ==
    ASSUME IInv, types' = types, cursor' = cursor, phase' = phase,
           stack # <<>> => stack' # <<>> /\ stack'[1] = stack[1]
    PROVE  Swept'
BY InvParts DEF Parted, Swept, IsUnresolved, KindOf

-----------------------------------------------------------------------------
(* The actions of the machine.                                             *)

\* What the map holds.
LEMMA NodeFacts ==
    ASSUME IInv, NEW n \in DOMAIN types
    PROVE  /\ n \in Name /\ types[n] \in Node
           /\ KindOf(n) \in Kind /\ types[n].of \in Name /\ types[n].parts \in Seq(Part)
           /\ NestsLegally(types, types[n]) /\ NodeSettled(types, types[n])
<1>1. TypeOK /\ GraphGood(types)
    BY InvParts DEF Parted
<1>2. n \in Name /\ types[n] \in Node
    BY <1>1 DEF TypeOK
<1> QED
    BY <1>1, <1>2 DEF Node, GraphGood, KindOf

\* Activations as they are put on the stack.
LEMMA PlainFrameFacts ==
    ASSUME NEW kind \in Wrapper \cup {"alias"}, NEW n \in Name, NEW d \in Nat
    PROVE  LET f == PlainFrame(kind, n, d) IN
           /\ f \in Activation
           /\ f.kind = kind /\ f.name = n /\ f.depth = d
           /\ HasSettled(types, f) /\ Awaits(f)
<1>1. <<>> \in Seq(Part) /\ DOMAIN <<>> = {}
    OBVIOUS
<1>2. "" \in Name
    BY NameFacts
<1> QED
    BY <1>1, <1>2 DEF PlainFrame, Frame, Activation, HasSettled, Awaits, Wrapper

LEMMA FrameFacts ==
    ASSUME NEW kind \in {"struct", "variant"}, NEW n \in Name, NEW d \in Nat,
           NEW base \in Name, NEW todo \in Seq(Part), NEW parts \in Seq(Part)
    PROVE  LET f == Frame(kind, n, d, base, todo, parts) IN
           /\ f \in Activation
           /\ f.kind = kind /\ f.name = n /\ f.depth = d /\ f.base = base /\ f.todo = todo
           /\ f.parts = parts
BY DEF Frame, Activation

\* resolve of an alias that is in the map.
LEMMA ResolveAliasInv ==
    ASSUME IInv, NEW n \in DOMAIN types, KindOf(n) = "alias_def", ResolveAlias(n, Len(stack)),
           Len(stack) < MaxDepth, phase \in {"fill", "query"}, cursor' \in Nat, Swept',
           \A k \in DOMAIN stack : Awaits(stack[k])
    PROVE  IInv'
<1> DEFINE f == PlainFrame("alias", n, Len(stack))
<1>1. Len(stack) \in Nat /\ n \in Name /\ types[n].of \in Name
    BY NodeFacts, InvParts, LenProperties DEF Parted, TypeOK
<1>2. /\ f \in Activation
      /\ f.kind = "alias" /\ f.name = n /\ f.depth = Len(stack)
      /\ HasSettled(types, f) /\ Awaits(f)
    BY <1>1, PlainFrameFacts
<1>3. /\ stack' = Append(stack, f)
      /\ call' = [name |-> types[n].of, depth |-> Len(stack) + 1] /\ ret' = NoName
      /\ UNCHANGED <<def, phase, types, next, error, query>>
    BY DEF ResolveAlias, Call
<1> HIDE DEF f
<1>4. WorksOn(types, f)
    BY <1>2 DEF WorksOn, KindOf, Wrapper
<1> QED
    BY <1>1, <1>2, <1>3, <1>4, PushInv

\* resolve of a struct or a variant that is in the map.
LEMMA ResolvePartsInv ==
    ASSUME IInv, NEW n \in DOMAIN types, NEW kind \in {"struct", "variant"},
           kind = "struct" => KindOf(n) = "struct_def",
           kind = "variant" => KindOf(n) = "variant_def",
           ResolveParts(kind, n, Len(stack)), phase \in {"fill", "query"}, cursor' \in Nat,
           ~(Len(stack) >= MaxDepth) => Swept',
           \A k \in DOMAIN stack : Awaits(stack[k])
    PROVE  IInv'
<1> DEFINE f == Frame(kind, n, Len(stack), types[n].of, types[n].parts, <<>>)
<1>1. Len(stack) \in Nat /\ n \in Name /\ types[n].of \in Name /\ types[n].parts \in Seq(Part)
    BY NodeFacts, InvParts, LenProperties DEF Parted, TypeOK
<1>2. CASE Len(stack) >= MaxDepth
    <2>1. Throw("recursion_limit_reached")
        BY <1>2 DEF ResolveParts
    <2> QED
        BY <2>1, ThrowInv
<1>3. CASE ~(Len(stack) >= MaxDepth)
    <2>1. /\ stack' = Append(stack, f) /\ call' = NoCall /\ ret' = NoName
          /\ UNCHANGED <<def, phase, types, next, error, query>>
        BY <1>3 DEF ResolveParts
    <2>2. <<>> \in Seq(Part) /\ DOMAIN <<>> = {}
        OBVIOUS
    <2>3. /\ f \in Activation
          /\ f.kind = kind /\ f.name = n /\ f.depth = Len(stack) /\ f.parts = <<>>
        BY <1>1, <2>2 DEF Frame, Activation
    <2> HIDE DEF f
    <2>4. WorksOn(types, f) /\ HasSettled(types, f)
        BY <2>2, <2>3 DEF WorksOn, HasSettled, KindOf, Wrapper
    <2>5. Len(stack) < MaxDepth
        BY <1>1, <1>3, LimitType
    <2> QED
        BY <1>1, <1>3, <2>1, <2>3, <2>4, <2>5, PushInv
<1> QED
    BY <1>2, <1>3

\* fill of the next entry: what it passes over needs nothing.
LEMMA FillInv ==
    ASSUME IInv, Fill
    PROVE  IInv'
<1>1. Parted /\ phase = "fill" /\ stack = <<>> /\ call = NoCall
    BY InvParts DEF Fill, Idle
<1>2. PICK i \in cursor + 1 .. Len(MapOrder) :
          /\ IsUnresolved(MapOrder[i])
          /\ \A j \in cursor + 1 .. i - 1 : ~IsUnresolved(MapOrder[j])
          /\ cursor' = i
          /\ IF KindOf(MapOrder[i]) = "alias_def" THEN ResolveAlias(MapOrder[i], 0)
             ELSE IF KindOf(MapOrder[i]) = "struct_def" THEN ResolveParts("struct", MapOrder[i], 0)
             ELSE ResolveParts("variant", MapOrder[i], 0)
    BY DEF Fill
<1> DEFINE n == MapOrder[i]
<1>3. Len(stack) = 0 /\ DOMAIN stack = {} /\ 0 < MaxDepth /\ ~(0 >= MaxDepth)
    BY <1>1, LimitType
<1>4. cursor \in Nat /\ i \in Nat /\ cursor < i
    <2>1. cursor \in Nat /\ Len(MapOrder) \in Nat
        BY <1>1, NameFacts, LenProperties DEF Parted, TypeOK
    <2>2. i \in cursor + 1 .. Len(MapOrder)
        BY <1>2
    <2> QED
        BY <2>1, <2>2
<1>5. DOMAIN MapOrder = 1 .. Len(MapOrder) /\ Len(MapOrder) \in Nat
    BY NameFacts, LenProperties
<1>6. n \in DOMAIN types /\ KindOf(n) \in Unresolved
    BY <1>2 DEF IsUnresolved
<1>7. ASSUME NEW j \in DOMAIN MapOrder, j <= i, IsUnresolved(MapOrder[j])
      PROVE  j = i
    <2>1. ~(j <= cursor)
        BY <1>1, <1>7 DEF Parted, Swept
    <2>2. j \in Nat
        BY <1>5
    <2>3. j \in cursor + 1 .. i - 1 \/ j = i
        BY <1>4, <1>7, <2>1, <2>2
    <2> QED
        BY <1>2, <1>7, <2>3
<1>8. ASSUME NEW f, stack' = Append(stack, f), f.kind \notin Wrapper, f.name = n,
             types' = types, phase' = phase
      PROVE  Swept'
    <2>1. stack' = <<f>>
        BY <1>1, <1>8
    <2>2. stack' # <<>> /\ stack'[1] = f
        BY <2>1
    <2> QED
        BY <1>1, <1>2, <1>7, <1>8, <2>2 DEF Swept, IsUnresolved, KindOf
<1> HIDE DEF n
<1>9. CASE KindOf(n) = "alias_def"
    <2>1. ResolveAlias(n, 0)
        BY <1>2, <1>9 DEF n
    <2>2. Swept'
        BY <1>8, <2>1 DEF ResolveAlias, PlainFrame, Frame, Wrapper
    <2> QED
        BY <1>1, <1>2, <1>3, <1>4, <1>6, <1>9, <2>1, <2>2, ResolveAliasInv
<1>10. ASSUME NEW kind \in {"struct", "variant"}, ResolveParts(kind, n, 0)
       PROVE  Swept'
    BY <1>3, <1>8, <1>10 DEF ResolveParts, Frame, Wrapper
<1>11. CASE KindOf(n) = "struct_def"
    <2>1. ResolveParts("struct", n, 0)
        BY <1>2, <1>11 DEF n
    <2> QED
        BY <1>1, <1>2, <1>3, <1>4, <1>6, <1>10, <1>11, <2>1, ResolvePartsInv
<1>12. CASE KindOf(n) = "variant_def"
    <2>1. ResolveParts("variant", n, 0)
        BY <1>2, <1>12 DEF n
    <2> QED
        BY <1>1, <1>2, <1>3, <1>4, <1>6, <1>10, <1>12, <2>1, ResolvePartsInv
<1> QED
    BY <1>6, <1>9, <1>11, <1>12 DEF Unresolved

\* get_type goes on with an alias or a stem, returns a node or throws.
LEMMA GetTypeInv ==
    ASSUME IInv, GetType
    PROVE  IInv'
<1> DEFINE n == call.name
           d == call.depth
<1>1. Parted /\ call # NoCall /\ cursor' = cursor
    BY InvParts DEF GetType
<1>2. /\ call \in [name : Name, depth : Nat] /\ d = Len(stack) /\ cursor \in Nat
      /\ stack \in Seq(Activation)
    BY <1>1 DEF Parted, TypeOK
<1>3. n \in Name /\ Len(stack) \in Nat
    BY <1>2, LenProperties
<1>4. phase \in {"fill", "query"}
    BY <1>1 DEF Parted, PhaseShape, Idle
<1>5. \A k \in DOMAIN stack : Awaits(stack[k])
    BY <1>1 DEF Parted, CallersAwait
<1>6. IF Len(stack) >= MaxDepth THEN Throw("recursion_limit_reached")
      ELSE IF n \in DOMAIN types THEN Found(n, Len(stack)) ELSE Missing(n, Len(stack))
    BY <1>2 DEF GetType
<1>7. ASSUME NEW f, stack' = Append(stack, f), types' = types, phase' = phase
      PROVE  Swept'
    <2>1. stack' # <<>> /\ (stack # <<>> => stack'[1] = stack[1])
        BY <1>2, <1>7, AppendProperties, EmptySeq
    <2> QED
        BY <1>1, <1>7, <2>1, SweptLasts
<1> HIDE DEF n, d
<1>8. CASE Len(stack) >= MaxDepth
    BY <1>1, <1>2, <1>4, <1>6, <1>8, ThrowInv
<1>9. CASE ~(Len(stack) >= MaxDepth) /\ n \in DOMAIN types /\ KindOf(n) = "alias_def"
    <2>1. ResolveAlias(n, Len(stack))
        BY <1>6, <1>9 DEF Found
    <2>2. Swept'
        BY <1>7, <2>1 DEF ResolveAlias
    <2>3. Len(stack) < MaxDepth
        BY <1>3, <1>9, LimitType
    <2> QED
        BY <1>1, <1>2, <1>4, <1>5, <1>9, <2>1, <2>2, <2>3, ResolveAliasInv
<1>10. CASE ~(Len(stack) >= MaxDepth) /\ n \in DOMAIN types /\ KindOf(n) # "alias_def"
    <2>1. /\ ret' = IF KindOf(n) = "alias" THEN types[n].of ELSE n
          /\ call' = NoCall /\ UNCHANGED <<def, phase, types, next, stack, error, query>>
        BY <1>6, <1>10 DEF Found, Return
    <2>2. types[n].of \in Name /\ NodeSettled(types, types[n])
        BY <1>10, NodeFacts
    <2>3. ret' \in Name /\ Settled(types, ret')
        BY <1>3, <1>10, <2>1, <2>2 DEF NodeSettled, Settled, KindOf
    <2>4. Swept'
        BY <1>1, <2>1, SweptLasts
    <2>5. PhaseShape' /\ NothingLeftOver' /\ query' \in Name \cup {NoName}
        BY <1>1, <1>4, <2>1 DEF PhaseShape, Parted, NothingLeftOver, TypeOK, KindOf
    <2> QED
        BY <1>1, <1>4, <1>5, <2>1, <2>3, <2>4, <2>5, CallInv
<1>11. CASE ~(Len(stack) >= MaxDepth) /\ n \notin DOMAIN types
    <2>1. Missing(n, Len(stack))
        BY <1>6, <1>11
    <2>2. CASE Suffix[n] = "none"
        BY <1>1, <1>2, <1>4, <2>1, <2>2, ThrowInv DEF Missing
    <2>3. CASE Suffix[n] # "none"
        <3> DEFINE f == PlainFrame(Suffix[n], n, Len(stack))
        <3>1. /\ stack' = Append(stack, f)
              /\ call' = [name |-> Stem[n], depth |-> Len(stack) + 1] /\ ret' = NoName
              /\ UNCHANGED <<def, phase, types, next, error, query>>
            BY <2>1, <2>3 DEF Missing, Call
        <3>2. Suffix[n] \in Wrapper /\ Stem[n] \in Name
            BY <1>3, <2>3, NameFacts
        <3>3. /\ f \in Activation
              /\ f.kind = Suffix[n] /\ f.name = n /\ f.depth = Len(stack)
              /\ HasSettled(types, f) /\ Awaits(f)
            BY <1>3, <3>2, PlainFrameFacts
        <3> HIDE DEF f
        <3>4. WorksOn(types, f)
            BY <1>11, <3>2, <3>3 DEF WorksOn, Wrapper
        <3>5. Swept'
            BY <1>7, <3>1
        <3>6. Len(stack) < MaxDepth
            BY <1>3, <1>11, LimitType
        <3> QED
            BY <1>1, <1>2, <1>3, <1>4, <1>5, <3>1, <3>2, <3>3, <3>4, <3>5, <3>6, PushInv
    <2> QED
        BY <2>2, <2>3
<1> QED
    BY <1>8, <1>9, <1>10, <1>11

\* try_emplace of a name adds it or does nothing.
LEMMA EmplaceFacts ==
    ASSUME DOMAIN types \subseteq Name, types \in [DOMAIN types -> Node],
           NEW n \in Name, NEW node \in Node, types' = Emplace(n, node)
    PROVE  /\ DOMAIN types' = DOMAIN types \cup {n}
           /\ types' \in [DOMAIN types' -> Node]
           /\ \A m \in DOMAIN types : types'[m] = types[m]
           /\ n \notin DOMAIN types => types'[n] = node
           /\ Grows(types, types')
<1>1. CASE n \in DOMAIN types
    <2>1. types' = types
        BY <1>1 DEF Emplace
    <2> QED
        BY <1>1, <2>1 DEF Grows, Later
<1>2. CASE n \notin DOMAIN types
    <2>1. types' = [m \in DOMAIN types \cup {n} |-> IF m = n THEN node ELSE types[m]]
        BY <1>2 DEF Emplace
    <2>2. DOMAIN types' = DOMAIN types \cup {n} /\ types' \in [DOMAIN types' -> Node]
        BY <2>1
    <2>3. types'[n] = node /\ \A m \in DOMAIN types : types'[m] = types[m]
        BY <1>2, <2>1
    <2> QED
        BY <2>2, <2>3 DEF Grows, Later
<1> QED
    BY <1>1, <1>2

\* What resolve has found is assigned to the node.
LEMMA BecomeFacts ==
    ASSUME DOMAIN types \subseteq Name, types \in [DOMAIN types -> Node],
           NEW n \in DOMAIN types, NEW kind \in Kind, NEW of \in Name, NEW parts \in Seq(Part),
           Later(types[n].kind, kind), types' = Become(n, kind, of, parts)
    PROVE  /\ DOMAIN types' = DOMAIN types
           /\ types' \in [DOMAIN types' -> Node]
           /\ \A m \in DOMAIN types : m # n => types'[m] = types[m]
           /\ types'[n].kind = kind /\ types'[n].of = of /\ types'[n].parts = parts
           /\ Grows(types, types') /\ OnlyWrappersNew(types, types')
<1> DEFINE node == MakeNode(kind, of, parts)
<1>1. node \in Node /\ node.kind = kind /\ node.of = of /\ node.parts = parts
    BY DEF MakeNode, Node
<1>2. types' = [types EXCEPT ![n] = node]
    BY DEF Become
<1> HIDE DEF node
<1>3. /\ DOMAIN types' = DOMAIN types /\ types' \in [DOMAIN types' -> Node]
      /\ types'[n] = node
      /\ \A m \in DOMAIN types : m # n => types'[m] = types[m]
    BY <1>1, <1>2
<1>4. Grows(types, types')
    <2>1. ASSUME NEW m \in DOMAIN types PROVE Later(types[m].kind, types'[m].kind)
        BY <1>1, <1>3 DEF Later
    <2> QED
        BY <1>3, <2>1 DEF Grows
<1> QED
    BY <1>1, <1>3, <1>4 DEF OnlyWrappersNew

\* What is known when the activation on top goes on with what came back.
LEMMA ReturnedFacts ==
    ASSUME IInv, stack # <<>>, call = NoCall
    PROVE  /\ Parted /\ phase \in {"fill", "query"}
           /\ DOMAIN types \subseteq Name /\ types \in [DOMAIN types -> Node]
           /\ GraphGood(types) /\ cursor \in Nat
           /\ Top \in Activation /\ WorksOn(types, Top) /\ HasSettled(types, Top)
           /\ Top.depth \in Nat /\ Top.depth + 1 = Len(stack)
           /\ ret # NoName => /\ ret \in Name /\ ret \in DOMAIN types
                              /\ Settled(types, ret)
                              /\ Awaits(Top)
                              /\ \A k \in DOMAIN stack : Awaits(stack[k])
<1>1. Parted
    BY InvParts
<1>2. phase \in {"fill", "query"}
    BY <1>1 DEF Parted, PhaseShape, Idle
<1>3. /\ DOMAIN types \subseteq Name /\ types \in [DOMAIN types -> Node]
      /\ GraphGood(types) /\ cursor \in Nat
    BY <1>1 DEF Parted, TypeOK
<1>4. /\ DOMAIN stack = 1 .. Len(stack) /\ Len(stack) \in Nat \ {0} /\ Top = stack[Len(stack)]
      /\ Top \in Activation /\ WorksOn(types, Top) /\ HasSettled(types, Top)
      /\ Top.depth \in Nat /\ Top.depth + 1 = Len(stack)
    BY <1>1, TopGood DEF Parted, Top
<1>5. ret # NoName => /\ ret \in Name /\ ret \in DOMAIN types /\ Settled(types, ret)
    BY <1>1 DEF Parted, ReturnsSettled, TypeOK, Settled
<1>6. ret # NoName => \A k \in DOMAIN stack : Awaits(stack[k])
    BY <1>1 DEF Parted, CallersAwait
<1>7. Len(stack) \in DOMAIN stack
    BY <1>4
<1> QED
    BY <1>1, <1>2, <1>3, <1>4, <1>5, <1>6, <1>7

\* get_type makes a wrapper.
LEMMA EndOfWrapperInv ==
    ASSUME IInv, EndOfWrapper
    PROVE  IInv'
<1>1. /\ stack # <<>> /\ call = NoCall /\ Top.kind \in Wrapper /\ ret # NoName
      /\ cursor' = cursor
    BY DEF EndOfWrapper, TopIs
<1>2. /\ phase \in {"fill", "query"} /\ cursor \in Nat
      /\ DOMAIN types \subseteq Name /\ types \in [DOMAIN types -> Node] /\ GraphGood(types)
      /\ Top \in Activation /\ WorksOn(types, Top)
      /\ ret \in Name /\ ret \in DOMAIN types /\ Settled(types, ret)
    BY <1>1, ReturnedFacts
<1>3. CASE ~MayWrap(Top.kind, KindOf(ret))
    BY <1>1, <1>2, <1>3, ThrowInv DEF EndOfWrapper
<1>4. CASE MayWrap(Top.kind, KindOf(ret))
    <2> DEFINE node == MakeNode(Top.kind, ret, <<>>)
    <2>1. /\ Finish(types', Top.name) /\ types' = Emplace(Top.name, node)
        BY <1>4 DEF EndOfWrapper, Finish
    <2>2. <<>> \in Seq(Part) /\ Top.name \in Name
        BY <1>2 DEF Activation
    <2>3. node \in Node /\ node.kind = Top.kind /\ node.of = ret
        BY <1>1, <1>2, <2>2 DEF MakeNode, Node, Kind
    <2> HIDE DEF node
    <2>4. /\ DOMAIN types' = DOMAIN types \cup {Top.name}
          /\ types' \in [DOMAIN types' -> Node]
          /\ \A m \in DOMAIN types : types'[m] = types[m]
          /\ Top.name \notin DOMAIN types => types'[Top.name] = node
          /\ Grows(types, types')
        BY <1>2, <2>1, <2>2, <2>3, EmplaceFacts
    <2>5. OnlyWrappersNew(types, types')
        BY <1>1, <2>3, <2>4 DEF OnlyWrappersNew
    <2>6. types'[Top.name].kind \in Wrapper /\ Top.name \in DOMAIN types'
        BY <1>1, <1>2, <2>3, <2>4 DEF WorksOn
    <2>7. Settled(types', Top.name)
        BY <2>6 DEF Settled, Wrapper
    <2>8. NestsLegally(types', node) /\ NodeSettled(types', node)
        <3>1. Settled(types', ret)
            BY <1>2, <2>4, SettledLasts
        <3>2. types'[ret] = types[ret] /\ ret \in DOMAIN types'
            BY <1>2, <2>4
        <3> QED
            BY <1>1, <1>4, <2>3, <3>1, <3>2 DEF NestsLegally, NodeSettled, MayWrap, KindOf, Wrapper
    <2>9. GraphGood(types')
        BY <1>2, <2>4, <2>8, GraphStep
    <2> QED
        BY <1>1, <1>2, <2>1, <2>2, <2>4, <2>5, <2>7, <2>9, FinishInv
<1> QED
    BY <1>3, <1>4

\* An alias gets its target.
LEMMA EndOfAliasInv ==
    ASSUME IInv, EndOfAlias
    PROVE  IInv'
<1>1. /\ stack # <<>> /\ call = NoCall /\ Top.kind = "alias" /\ ret # NoName
      /\ cursor' = cursor
    BY DEF EndOfAlias, TopIs
<1>2. /\ phase \in {"fill", "query"} /\ cursor \in Nat
      /\ DOMAIN types \subseteq Name /\ types \in [DOMAIN types -> Node] /\ GraphGood(types)
      /\ WorksOn(types, Top)
      /\ ret \in Name /\ ret \in DOMAIN types /\ Settled(types, ret)
    BY <1>1, ReturnedFacts
<1>3. CASE KindOf(ret) = "extension"
    BY <1>1, <1>2, <1>3, ThrowInv DEF EndOfAlias
<1>4. CASE KindOf(ret) # "extension"
    <2>1. /\ Finish(types', ret) /\ types' = Become(Top.name, "alias", ret, <<>>)
        BY <1>4 DEF EndOfAlias, Finish
    <2>2. /\ Top.name \in DOMAIN types /\ Later(types[Top.name].kind, "alias")
          /\ <<>> \in Seq(Part) /\ "alias" \in Kind
        BY <1>1, <1>2 DEF WorksOn, Wrapper, Later, Kind
    <2>3. /\ DOMAIN types' = DOMAIN types
          /\ types' \in [DOMAIN types' -> Node]
          /\ \A m \in DOMAIN types : m # Top.name => types'[m] = types[m]
          /\ types'[Top.name].kind = "alias" /\ types'[Top.name].of = ret
          /\ Grows(types, types') /\ OnlyWrappersNew(types, types')
        BY <1>2, <2>1, <2>2, BecomeFacts, ZenonT(60)
    <2>4. Settled(types', ret)
        BY <1>2, <2>3, SettledLasts
    <2>5. NestsLegally(types', types'[Top.name]) /\ NodeSettled(types', types'[Top.name])
        BY <2>3, <2>4 DEF NestsLegally, NodeSettled, Wrapper
    <2>6. GraphGood(types')
        BY <1>2, <2>3, <2>5, GraphStep
    <2>7. types'[Top.name].kind \notin Unresolved
        BY <2>3 DEF Unresolved
    <2> QED
        BY <1>1, <1>2, <2>1, <2>3, <2>4, <2>6, <2>7, FinishInv
<1> QED
    BY <1>3, <1>4

\* A struct or a variant gets its parts.
LEMMA EndOfPartsInv ==
    ASSUME IInv, EndOfParts
    PROVE  IInv'
<1> DEFINE n == Top.name
           kind == Top.kind
           parts == Top.parts
<1>1. /\ stack # <<>> /\ call = NoCall /\ kind \in {"struct", "variant"}
      /\ cursor' = cursor
    BY DEF EndOfParts, TopIs
<1>2. Finish(types', n) /\ types' = Become(n, kind, "", parts)
    BY DEF EndOfParts, Finish
<1>3. /\ phase \in {"fill", "query"} /\ cursor \in Nat
      /\ DOMAIN types \subseteq Name /\ types \in [DOMAIN types -> Node] /\ GraphGood(types)
      /\ Top \in Activation /\ WorksOn(types, Top) /\ HasSettled(types, Top)
    BY <1>1, ReturnedFacts
<1>4. /\ n \in DOMAIN types /\ Later(types[n].kind, kind) /\ kind \in Kind
    BY <1>1, <1>3 DEF WorksOn, Wrapper, Later, Kind
<1>5. parts \in Seq(Part) /\ n \in Name /\ "" \in Name
    BY <1>3, NameFacts DEF Activation
<1>6. \A i \in DOMAIN parts : Settled(types, parts[i].type)
    BY <1>3 DEF HasSettled
<1>7. n = Top.name
    OBVIOUS
<1> HIDE DEF n, kind, parts
<1>8. /\ DOMAIN types' = DOMAIN types
      /\ types' \in [DOMAIN types' -> Node]
      /\ \A m \in DOMAIN types : m # n => types'[m] = types[m]
      /\ types'[n].kind = kind /\ types'[n].parts = parts
      /\ Grows(types, types') /\ OnlyWrappersNew(types, types')
    BY <1>2, <1>3, <1>4, <1>5, BecomeFacts, ZenonT(60)
<1>9. \A i \in DOMAIN parts : Settled(types', parts[i].type)
    BY <1>6, <1>8, SettledLasts
<1>10. NestsLegally(types', types'[n]) /\ NodeSettled(types', types'[n])
    BY <1>1, <1>8, <1>9 DEF NestsLegally, NodeSettled, Wrapper
<1>11. GraphGood(types')
    BY <1>3, <1>8, <1>10, GraphStep
<1>12. types'[n].kind \notin Unresolved /\ Settled(types', n)
    BY <1>1, <1>4, <1>8 DEF Unresolved, Settled
<1>13. types'[Top.name].kind \notin Unresolved
    BY <1>7, <1>12
<1> QED
    BY <1>1, <1>2, <1>3, <1>5, <1>8, <1>11, <1>12, <1>13, FinishInv

\* An activation that calls awaits what it calls.
LEMMA AllAwait ==
    ASSUME IInv, stack # <<>>, Awaits(Top)
    PROVE  \A k \in DOMAIN stack : Awaits(stack[k])
<1>1. Parted
    BY InvParts
<1>2. DOMAIN stack = 1 .. Len(stack) /\ Len(stack) \in Nat \ {0} /\ Top = stack[Len(stack)]
    BY <1>1, TopGood DEF Parted, Top
<1> SUFFICES ASSUME NEW k \in DOMAIN stack PROVE Awaits(stack[k])
    OBVIOUS
<1>3. CASE k = Len(stack)
    BY <1>2, <1>3
<1>4. CASE k < Len(stack)
    BY <1>1, <1>4 DEF Parted, CallersAwait
<1> QED
    BY <1>2, <1>3, <1>4

\* resolve calls get_type for a base or a part.
LEMMA ResolveCalls ==
    ASSUME IInv, stack # <<>>, call = NoCall, Awaits(Top), NEW n \in Name,
           Call(n, Top.depth + 1),
           UNCHANGED <<def, phase, types, next, cursor, stack, error, query>>
    PROVE  IInv'
<1>1. /\ Parted /\ phase \in {"fill", "query"}
      /\ Top.depth \in Nat /\ Top.depth + 1 = Len(stack)
    BY ReturnedFacts
<1>2. \A k \in DOMAIN stack : Awaits(stack[k])
    BY AllAwait
<1>3. call' \in [name : Name, depth : Nat] /\ call'.depth = Len(stack) /\ ret' = NoName
    BY <1>1 DEF Call
<1>4. Swept'
    BY SweptLasts
<1>5. PhaseShape' /\ NothingLeftOver' /\ query' \in Name \cup {NoName}
    BY <1>1 DEF PhaseShape, Parted, NothingLeftOver, TypeOK, KindOf
<1>6. phase' \in {"fill", "ready", "query"} /\ UNCHANGED <<def, types, next, cursor, stack>>
    BY <1>1
<1>7. /\ ret' = NoName \/ (ret' \in Name /\ Settled(types, ret'))
      /\ \/ call' = NoCall
         \/ call' \in [name : Name, depth : Nat] /\ call'.depth = Len(stack)
      /\ (call' = NoCall /\ ret' = NoName) \/ \A k \in DOMAIN stack : Awaits(stack[k])
    BY <1>2, <1>3
<1> QED
    BY <1>4, <1>5, <1>6, <1>7, CallInv

LEMMA CallBaseInv ==
    ASSUME IInv, CallBase
    PROVE  IInv'
<1>1. /\ stack # <<>> /\ call = NoCall /\ Top.base # ""
      /\ Call(Top.base, Top.depth + 1)
      /\ UNCHANGED <<def, phase, types, next, cursor, stack, error, query>>
    BY DEF CallBase, TopIs
<1>2. Top.base \in Name
    BY <1>1, ReturnedFacts DEF Activation
<1> QED
    BY <1>1, <1>2, ResolveCalls DEF Awaits

LEMMA CallPartInv ==
    ASSUME IInv, CallPart
    PROVE  IInv'
<1>1. /\ stack # <<>> /\ call = NoCall /\ Top.todo # <<>>
      /\ Call(Head(Top.todo).type, Top.depth + 1)
      /\ UNCHANGED <<def, phase, types, next, cursor, stack, error, query>>
    BY DEF CallPart, TopIs
<1>2. Top.todo \in Seq(Part)
    BY <1>1, ReturnedFacts DEF Activation
<1>3. Head(Top.todo) \in Part
    BY <1>1, <1>2, HeadTailProperties
<1>4. Head(Top.todo).type \in Name
    BY <1>3 DEF Part
<1> QED
    BY <1>1, <1>4, ResolveCalls DEF Awaits

\* The activation on top has taken what came back.
LEMMA ReplaceInv ==
    ASSUME IInv, stack # <<>>, call = NoCall, Top.kind \in {"struct", "variant"},
           NEW todo \in Seq(Part), NEW parts \in Seq(Part),
           \A i \in DOMAIN parts : Settled(types, parts[i].type),
           stack' = WithTop(todo, parts), ret' = NoName,
           UNCHANGED <<def, phase, types, next, cursor, call, error, query>>
    PROVE  IInv'
<1> DEFINE kind == Top.kind
           n == Top.name
           d == Top.depth
           f == Frame(kind, n, d, "", todo, parts)
<1>1. /\ Parted /\ phase \in {"fill", "query"}
      /\ Top \in Activation /\ WorksOn(types, Top)
    BY ReturnedFacts
<1>2. n \in Name /\ d \in Nat /\ "" \in Name /\ kind \in {"struct", "variant"}
    BY <1>1, NameFacts DEF Activation
<1>4. stack' = [stack EXCEPT ![Len(stack)] = f]
    BY DEF WithTop
<1>11. kind = Top.kind /\ n = Top.name /\ d = Top.depth
    OBVIOUS
<1> HIDE DEF kind, n, d
<1>13. f \in Activation
    BY <1>2 DEF Frame, Activation
<1>12. /\ f \in Activation
       /\ f.kind = kind /\ f.name = n /\ f.depth = d /\ f.parts = parts
    BY <1>13 DEF Frame
<1> HIDE DEF f
<1>3. /\ f \in Activation
      /\ f.kind = Top.kind /\ f.name = Top.name /\ f.depth = Top.depth /\ f.parts = parts
    BY <1>11, <1>12
<1>5. WorksOn(types, f) /\ HasSettled(types, f)
    BY <1>1, <1>3 DEF WorksOn, HasSettled
<1>6. /\ StackGood(types', stack') /\ stack' # <<>> /\ Len(stack') = Len(stack)
      /\ Len(stack) \in Nat \ {0}
      /\ DOMAIN stack = 1 .. Len(stack) /\ DOMAIN stack' = 1 .. Len(stack)
      /\ \A k \in 1 .. Len(stack) : stack'[k] = IF k = Len(stack) THEN f ELSE stack[k]
    <2>1. StackGood(types, stack) /\ f.depth = Last(stack).depth
        BY <1>1, <1>3 DEF Parted, Top
    <2>2. LET st2 == [stack EXCEPT ![Len(stack)] = f] IN
           /\ StackGood(types, st2) /\ st2 # <<>> /\ Len(st2) = Len(stack)
           /\ Len(stack) \in Nat \ {0}
           /\ DOMAIN stack = 1 .. Len(stack) /\ DOMAIN st2 = 1 .. Len(stack)
           /\ \A k \in 1 .. Len(stack) : st2[k] = IF k = Len(stack) THEN f ELSE stack[k]
        BY <1>3, <1>5, <2>1, StackReplace
    <2> QED
        BY <1>4, <2>2
<1>7. TypeOK'
    BY <1>1, <1>6 DEF Parted, TypeOK, StackGood
<1>8. CallersAwait'
    <2> SUFFICES ASSUME NEW k \in DOMAIN stack', k < Len(stack') PROVE Awaits(stack'[k])
        BY DEF CallersAwait, Awaits
    <2>3. k \in 1 .. Len(stack) /\ k < Len(stack)
        BY <1>6
    <2>4. k # Len(stack)
        <3>1. Len(stack) \in Nat
            BY <1>6
        <3> QED
            BY <2>3, <3>1
    <2>1. k \in DOMAIN stack /\ k < Len(stack) /\ stack'[k] = stack[k]
        BY <1>6, <2>3, <2>4
    <2> QED
        BY <1>1, <2>1 DEF Parted, CallersAwait
<1>9. Swept'
    <2> SUFFICES ASSUME phase = "fill", NEW i \in DOMAIN MapOrder, i <= cursor,
                        IsUnresolved(MapOrder[i])
                 PROVE  /\ stack' # <<>> /\ stack'[1].kind \notin Wrapper
                        /\ stack'[1].name = MapOrder[i]
        BY <1>1 DEF Swept, IsUnresolved, KindOf
    <2>1. stack[1].kind \notin Wrapper /\ stack[1].name = MapOrder[i]
        BY <1>1 DEF Parted, Swept
    <2>2. 1 \in 1 .. Len(stack)
        <3>1. Len(stack) \in Nat \ {0}
            BY <1>6
        <3> QED
            BY <3>1
    <2>3. stack'[1].kind = stack[1].kind /\ stack'[1].name = stack[1].name
        <3>1. CASE Len(stack) = 1
            <4>1. Top = stack[1]
                BY <1>1, <3>1, TopGood DEF Parted, Top
            <4> QED
                BY <1>3, <1>6, <2>2, <3>1, <4>1
        <3>2. CASE Len(stack) # 1
            <4>1. stack'[1] = stack[1]
                BY <1>6, <2>2, <3>2
            <4> QED
                BY <4>1
        <3> QED
            BY <3>1, <3>2
    <2> QED
        BY <1>6, <2>1, <2>3
<1>10. PhaseShape' /\ ReturnsSettled' /\ NothingLeftOver'
    BY <1>1 DEF Parted, PhaseShape, ReturnsSettled, NothingLeftOver, KindOf
<1> QED
    BY <1>1, <1>6, <1>7, <1>8, <1>9, <1>10, InvPartsAfter DEF Parted

LEMMA BaseInv ==
    ASSUME IInv, Base
    PROVE  IInv'
<1>1. /\ stack # <<>> /\ call = NoCall /\ Top.kind = "struct" /\ Top.base # "" /\ ret # NoName
      /\ cursor' = cursor
    BY DEF Base, TopIs
<1>2. /\ phase \in {"fill", "query"} /\ cursor \in Nat
      /\ Top \in Activation /\ Top.depth + 1 = Len(stack)
      /\ ret \in DOMAIN types /\ \A k \in DOMAIN stack : Awaits(stack[k])
    BY <1>1, ReturnedFacts
<1>3. CASE KindOf(ret) = "struct_def"
    <2>1. ResolveParts("struct", ret, Len(stack))
        BY <1>2, <1>3 DEF Base
    <2>2. ASSUME ~(Len(stack) >= MaxDepth) PROVE Swept'
        <3> DEFINE f == Frame("struct", ret, Len(stack), types[ret].of, types[ret].parts, <<>>)
        <3>1. stack' = Append(stack, f) /\ types' = types /\ phase' = phase
            BY <2>1, <2>2 DEF ResolveParts
        <3> HIDE DEF f
        <3>2. stack \in Seq(Activation)
            BY InvParts DEF Parted, TypeOK
        <3>3. stack' # <<>> /\ (stack # <<>> => stack'[1] = stack[1])
            BY <3>1, <3>2, AppendProperties, EmptySeq
        <3> QED
            BY <1>1, <3>1, <3>3, SweptLasts
    <2> QED
        BY <1>1, <1>2, <1>3, <2>1, <2>2, ResolvePartsInv
<1>4. CASE KindOf(ret) \notin {"struct_def", "struct"}
    BY <1>1, <1>2, <1>4, ThrowInv DEF Base
<1>5. CASE KindOf(ret) = "struct"
    <2>1. /\ stack' = WithTop(Top.todo, types[ret].parts) /\ ret' = NoName
          /\ UNCHANGED <<def, phase, types, next, cursor, call, error, query>>
        BY <1>5 DEF Base
    <2>2. types[ret].parts \in Seq(Part) /\ NodeSettled(types, types[ret])
        BY <1>2, NodeFacts
    <2>3. \A i \in DOMAIN types[ret].parts : Settled(types, types[ret].parts[i].type)
        BY <1>5, <2>2 DEF NodeSettled, KindOf
    <2>4. Top.todo \in Seq(Part)
        BY <1>2 DEF Activation
    <2> QED
        BY <1>1, <2>1, <2>2, <2>3, <2>4, ReplaceInv
<1> QED
    BY <1>3, <1>4, <1>5

\* What the parts of an activation are once one is added.
LEMMA PartPushed ==
    ASSUME NEW parts \in Seq(Part), NEW part \in Part
    PROVE  /\ Push(parts, part) \in Seq(Part) /\ Len(parts) \in Nat
           /\ Len(Push(parts, part)) = Len(parts) + 1
           /\ Push(parts, part)[Len(parts) + 1] = part
           /\ \A i \in 1 .. Len(parts) : Push(parts, part)[i] = parts[i]
BY PushFacts

LEMMA TakePartInv ==
    ASSUME IInv, TakePart
    PROVE  IInv'
<1>1. /\ stack # <<>> /\ call = NoCall /\ Top.kind \in {"struct", "variant"}
      /\ Top.base = "" /\ ret # NoName
      /\ stack' = WithTop(Tail(Top.todo), WithPart) /\ ret' = NoName
      /\ UNCHANGED <<def, phase, types, next, cursor, call, error, query>>
    BY DEF TakePart, TopIs
<1>2. /\ Top \in Activation /\ HasSettled(types, Top) /\ Awaits(Top)
      /\ ret \in Name /\ Settled(types, ret)
    BY <1>1, ReturnedFacts
<1> DEFINE todo == Top.todo
           parts == Top.parts
           part == [name |-> Head(todo).name, type |-> ret]
           parts2 == Append(parts, part)
<1>3. todo \in Seq(Part) /\ parts \in Seq(Part) /\ todo # <<>>
    BY <1>1, <1>2 DEF Activation, Awaits
<1>4. stack' = WithTop(Tail(todo), parts2)
    BY <1>1 DEF WithPart
<1>5. \A i \in DOMAIN parts : Settled(types, parts[i].type)
    BY <1>2 DEF HasSettled
<1> HIDE DEF todo, parts
<1>6. Head(todo) \in Part /\ Tail(todo) \in Seq(Part)
    BY <1>3, HeadTailProperties
<1>7. part \in Part /\ part.type = ret
    BY <1>2, <1>6 DEF Part
<1>8. parts2 = Push(parts, part)
    BY DEF Push
<1> HIDE DEF part, parts2
<1>9. /\ parts2 \in Seq(Part) /\ Len(parts) \in Nat
      /\ Len(parts2) = Len(parts) + 1
      /\ parts2[Len(parts) + 1] = part
      /\ \A i \in 1 .. Len(parts) : parts2[i] = parts[i]
    BY <1>3, <1>7, <1>8, PartPushed
<1>10. \A i \in DOMAIN parts2 : Settled(types, parts2[i].type)
    <2> SUFFICES ASSUME NEW i \in DOMAIN parts2 PROVE Settled(types, parts2[i].type)
        OBVIOUS
    <2>1. DOMAIN parts = 1 .. Len(parts) /\ DOMAIN parts2 = 1 .. Len(parts2)
        BY <1>3, <1>9, LenProperties
    <2>2. CASE i \in 1 .. Len(parts)
        BY <1>5, <1>9, <2>1, <2>2
    <2>3. CASE i = Len(parts) + 1
        BY <1>2, <1>7, <1>9, <2>3
    <2> QED
        BY <1>9, <2>1, <2>2, <2>3
<1> QED
    BY <1>1, <1>4, <1>6, <1>9, <1>10, ReplaceInv

-----------------------------------------------------------------------------
(* convert and the questions.                                              *)

\* convert starts with the builtin types and the one struct that is built in.
LEMMA PrefilledGood ==
    /\ DOMAIN Prefilled \subseteq Name
    /\ Prefilled \in [DOMAIN Prefilled -> Node]
    /\ GraphGood(Prefilled)
    /\ \A n \in DOMAIN Prefilled : Prefilled[n].kind \notin Unresolved
<1> DEFINE fields == <<[name |-> "quantity", type |-> "asset"],
                       [name |-> "contract", type |-> "name"]>>
           builtin == MakeNode("builtin", "", <<>>)
           asset == MakeNode("struct", "", fields)
<1>1. /\ {"", "asset", "name", "extended_asset"} \subseteq Name /\ Primitive \subseteq Name
      /\ "extended_asset" \notin Primitive /\ {"asset", "name"} \subseteq Primitive
      /\ {"quantity", "contract"} \subseteq Label
    BY NameAssumption, LabelAssumption
<1>2. fields \in Seq(Part) /\ <<>> \in Seq(Part)
    <2>1. /\ [name |-> "quantity", type |-> "asset"] \in Part
          /\ [name |-> "contract", type |-> "name"] \in Part
        BY <1>1 DEF Part
    <2> QED
        BY <2>1
<1>3. /\ DOMAIN fields = {1, 2}
      /\ fields[1].type = "asset" /\ fields[2].type = "name"
    OBVIOUS
<1> HIDE DEF fields
<1>4. /\ builtin \in Node /\ builtin.kind = "builtin"
      /\ asset \in Node /\ asset.kind = "struct" /\ asset.parts = fields
    BY <1>1, <1>2 DEF MakeNode, Node, Kind
<1>5. Prefilled = [n \in Primitive \cup {"extended_asset"} |->
                      IF n = "extended_asset" THEN asset ELSE builtin]
    BY DEF Prefilled, fields
<1> HIDE DEF asset, builtin
<1> DEFINE map == Prefilled
<1>6. /\ DOMAIN map = Primitive \cup {"extended_asset"}
      /\ map \in [DOMAIN map -> Node]
      /\ map["extended_asset"] = asset
      /\ \A n \in Primitive : map[n] = builtin
    BY <1>1, <1>4, <1>5
<1> HIDE DEF map
<1>7. Settled(map, "asset") /\ Settled(map, "name")
    BY <1>1, <1>4, <1>6 DEF Settled
<1>8. ASSUME NEW n \in DOMAIN map
      PROVE  NestsLegally(map, map[n]) /\ NodeSettled(map, map[n]) /\ map[n].kind \notin Unresolved
    <2>1. CASE n = "extended_asset"
        <3>1. map[n].kind = "struct" /\ map[n].parts = fields
            BY <1>4, <1>6, <2>1
        <3>2. \A i \in DOMAIN map[n].parts : Settled(map, map[n].parts[i].type)
            BY <1>3, <1>7, <3>1
        <3> QED
            BY <3>1, <3>2 DEF NestsLegally, NodeSettled, Wrapper, Unresolved
    <2>2. CASE n \in Primitive
        BY <1>4, <1>6, <2>2 DEF NestsLegally, NodeSettled, Wrapper, Unresolved
    <2> QED
        BY <1>6, <2>1, <2>2
<1> QED
    BY <1>1, <1>6, <1>8 DEF GraphGood, map

\* A step with no activation before it and none after it.
LEMMA QuietInv ==
    ASSUME IInv, stack' = <<>>, call' = NoCall,
           def' \in Seq(Definition),
           phase' \in {"declare", "fill", "ready"},
           DOMAIN types' \subseteq Name, types' \in [DOMAIN types' -> Node], GraphGood(types'),
           next' \in Nat \ {0}, cursor' \in Nat, query' \in Name \cup {NoName},
           ret' = NoName \/ (ret' \in Name /\ Settled(types', ret') /\ phase' = "ready"),
           Swept', NothingLeftOver'
    PROVE  IInv'
<1>1. StackGood(types', stack')
    BY LimitType DEF StackGood
<1>2. TypeOK'
    BY DEF TypeOK
<1>3. PhaseShape' /\ CallersAwait' /\ ReturnsSettled'
    BY DEF PhaseShape, Idle, CallersAwait, ReturnsSettled
<1> QED
    BY <1>1, <1>2, <1>3, InvPartsAfter DEF Parted

\* What is known when no activation is there.
LEMMA QuietFacts ==
    ASSUME IInv, phase \in {"idle", "declare"} \/ Idle
    PROVE  /\ Parted /\ stack = <<>> /\ call = NoCall
           /\ def \in Seq(Definition) /\ next \in Nat \ {0} /\ cursor \in Nat
           /\ DOMAIN types \subseteq Name /\ types \in [DOMAIN types -> Node]
           /\ GraphGood(types) /\ query \in Name \cup {NoName}
           /\ ret = NoName \/ ret \in Name
           /\ phase \in {"idle", "declare"} => ret = NoName /\ cursor = 0
BY InvParts DEF Parted, TypeOK, PhaseShape, Idle, Swept

LEMMA ConvertInv ==
    ASSUME IInv, Convert
    PROVE  IInv'
<1>1. /\ phase = "idle" /\ phase' = "declare" /\ def' \in Abis /\ types' = Prefilled
      /\ UNCHANGED <<next, cursor, stack, call, ret, query>>
    BY DEF Convert, machine
<1>2. /\ stack = <<>> /\ call = NoCall /\ ret = NoName /\ next \in Nat \ {0} /\ cursor = 0
      /\ query \in Name \cup {NoName}
    BY <1>1, QuietFacts
<1>3. def' \in Seq(Definition)
    BY <1>1, InputAssumption
<1>4. /\ DOMAIN types' \subseteq Name /\ types' \in [DOMAIN types' -> Node] /\ GraphGood(types')
    BY <1>1, PrefilledGood
<1>5. Swept' /\ NothingLeftOver'
    BY <1>1, <1>2 DEF Swept, NothingLeftOver
<1> QED
    BY <1>1, <1>2, <1>3, <1>4, <1>5, QuietInv

LEMMA DeclareInv ==
    ASSUME IInv, Declare
    PROVE  IInv'
<1> DEFINE d == def[next]
           node == MakeNode(d.kind, d.of, d.parts)
<1>1. phase = "declare" /\ next \in DOMAIN def /\ cursor' = cursor
    BY DEF Declare
<1>2. /\ stack = <<>> /\ call = NoCall /\ ret = NoName /\ cursor = 0
      /\ def \in Seq(Definition) /\ next \in Nat \ {0} /\ query \in Name \cup {NoName}
      /\ DOMAIN types \subseteq Name /\ types \in [DOMAIN types -> Node] /\ GraphGood(types)
    BY <1>1, QuietFacts
<1>3. \/ \E e \in {"missing_name", "redefined_type"} : Throw(e)
      \/ d.name \notin DOMAIN types /\ Enter(Emplace(d.name, node))
    BY DEF Declare
<1>4. d \in Definition
    <2>1. DOMAIN def = 1 .. Len(def)
        BY <1>2, LenProperties
    <2> QED
        BY <1>1, <1>2, <2>1, ElementOfSeq
<1>5. d.name \in Name /\ node \in Node /\ node.kind \in Unresolved
    BY <1>4 DEF Definition, Node, MakeNode, Kind
<1>6. CASE \E e \in {"missing_name", "redefined_type"} : Throw(e)
    BY <1>1, <1>2, <1>6, ThrowInv
<1> HIDE DEF node, d
<1>7. CASE d.name \notin DOMAIN types /\ Enter(Emplace(d.name, node))
    <2>1. /\ types' = Emplace(d.name, node) /\ next' = next + 1
          /\ UNCHANGED <<def, phase, stack, call, ret, query>>
        BY <1>7 DEF Enter, machine
    <2>2. /\ DOMAIN types' = DOMAIN types \cup {d.name}
          /\ types' \in [DOMAIN types' -> Node]
          /\ \A m \in DOMAIN types : types'[m] = types[m]
          /\ types'[d.name] = node
          /\ Grows(types, types')
        BY <1>2, <1>5, <1>7, <2>1, EmplaceFacts
    <2>3. NestsLegally(types', node) /\ NodeSettled(types', node)
        BY <1>5 DEF NestsLegally, NodeSettled, Wrapper, Unresolved
    <2>4. GraphGood(types')
        BY <1>2, <2>2, <2>3, GraphStep
    <2>5. DOMAIN types' \subseteq Name /\ next' \in Nat \ {0}
        BY <1>2, <1>5, <2>1, <2>2
    <2>6. Swept' /\ NothingLeftOver'
        BY <1>1, <1>2, <2>1 DEF Swept, NothingLeftOver
    <2> QED
        BY <1>1, <1>2, <2>1, <2>2, <2>4, <2>5, <2>6, QuietInv
<1> QED
    BY <1>3, <1>6, <1>7

LEMMA EndOfDefinitionsInv ==
    ASSUME IInv, EndOfDefinitions
    PROVE  IInv'
<1>1. /\ phase = "declare" /\ phase' = "fill"
      /\ UNCHANGED <<def, types, next, cursor, stack, call, ret, query>>
    BY DEF EndOfDefinitions, machine
<1>2. /\ stack = <<>> /\ call = NoCall /\ ret = NoName /\ cursor = 0
      /\ def \in Seq(Definition) /\ next \in Nat \ {0} /\ query \in Name \cup {NoName}
      /\ DOMAIN types \subseteq Name /\ types \in [DOMAIN types -> Node] /\ GraphGood(types)
    BY <1>1, QuietFacts
<1>3. \A i \in DOMAIN MapOrder : ~(i <= 0)
    <2>1. DOMAIN MapOrder = 1 .. Len(MapOrder) /\ Len(MapOrder) \in Nat
        BY NameFacts, LenProperties
    <2> QED
        BY <2>1
<1>4. Swept' /\ NothingLeftOver'
    BY <1>1, <1>2, <1>3 DEF Swept, NothingLeftOver
<1> QED
    BY <1>1, <1>2, <1>4, QuietInv

\* The loop has come by every name: nothing is left over.
LEMMA EndOfFillInv ==
    ASSUME IInv, EndOfFill
    PROVE  IInv'
<1>1. /\ phase = "fill" /\ phase' = "ready" /\ Idle /\ ret' = NoName
      /\ \A i \in cursor + 1 .. Len(MapOrder) : ~IsUnresolved(MapOrder[i])
      /\ UNCHANGED <<def, types, next, cursor, stack, call, query>>
    BY DEF EndOfFill
<1>2. /\ Parted /\ stack = <<>> /\ call = NoCall /\ cursor \in Nat
      /\ def \in Seq(Definition) /\ next \in Nat \ {0} /\ query \in Name \cup {NoName}
      /\ DOMAIN types \subseteq Name /\ types \in [DOMAIN types -> Node] /\ GraphGood(types)
    BY <1>1, QuietFacts
<1>3. ASSUME NEW n \in DOMAIN types PROVE KindOf(n) \notin Unresolved
    <2>1. PICK i \in DOMAIN MapOrder : MapOrder[i] = n
        BY <1>2, NameFacts
    <2>2. i \in 1 .. Len(MapOrder) /\ Len(MapOrder) \in Nat
        BY NameFacts, LenProperties
    <2>3. i <= cursor => ~IsUnresolved(MapOrder[i])
        BY <1>1, <1>2 DEF Parted, Swept
    <2>4. i <= cursor \/ i \in cursor + 1 .. Len(MapOrder)
        BY <1>2, <2>2
    <2> QED
        BY <1>1, <2>1, <2>3, <2>4 DEF IsUnresolved
<1>4. Swept' /\ NothingLeftOver'
    BY <1>1, <1>3 DEF Swept, NothingLeftOver, KindOf
<1> QED
    BY <1>1, <1>2, <1>4, QuietInv

LEMMA QueryInv ==
    ASSUME IInv, Query
    PROVE  IInv'
<1>1. PICK n \in Queries : query' = n /\ Call(n, 0)
    BY DEF Query
<1>2. /\ phase = "ready" /\ phase' = "query"
      /\ UNCHANGED <<def, types, next, cursor, stack>>
    BY DEF Query
<1>3. Parted /\ stack = <<>>
    BY <1>2, InvParts DEF Parted, PhaseShape, Idle
<1>4. Len(stack) = 0 /\ DOMAIN stack = {}
    BY <1>3
<1>5. n \in Name
    BY InputAssumption
<1>6. call' \in [name : Name, depth : Nat] /\ call'.depth = Len(stack) /\ ret' = NoName
    BY <1>1, <1>4, <1>5 DEF Call
<1>7. PhaseShape' /\ Swept' /\ NothingLeftOver'
    BY <1>2, <1>3 DEF PhaseShape, Swept, NothingLeftOver, Parted, KindOf
<1>8. query' \in Name \cup {NoName} /\ phase' \in {"fill", "ready", "query"}
    BY <1>1, <1>2, <1>5
<1>9. /\ ret' = NoName \/ (ret' \in Name /\ Settled(types, ret'))
      /\ \/ call' = NoCall
         \/ call' \in [name : Name, depth : Nat] /\ call'.depth = Len(stack)
      /\ (call' = NoCall /\ ret' = NoName) \/ \A k \in DOMAIN stack : Awaits(stack[k])
    BY <1>4, <1>6
<1> QED
    BY <1>2, <1>7, <1>8, <1>9, CallInv

LEMMA AnswerInv ==
    ASSUME IInv, Answer
    PROVE  IInv'
<1>1. /\ phase = "query" /\ phase' = "ready" /\ Idle
      /\ UNCHANGED <<def, types, next, cursor, stack, call, ret, query>>
    BY DEF Answer, machine
<1>2. /\ Parted /\ stack = <<>> /\ call = NoCall /\ cursor \in Nat
      /\ def \in Seq(Definition) /\ next \in Nat \ {0} /\ query \in Name \cup {NoName}
      /\ DOMAIN types \subseteq Name /\ types \in [DOMAIN types -> Node] /\ GraphGood(types)
      /\ ret = NoName \/ ret \in Name
    BY <1>1, QuietFacts
<1>3. ret # NoName => Settled(types, ret)
    BY <1>2 DEF Parted, ReturnsSettled
<1>4. Swept' /\ NothingLeftOver'
    BY <1>1, <1>2 DEF Swept, NothingLeftOver, Parted, KindOf
<1> QED
    BY <1>1, <1>2, <1>3, <1>4, QuietInv

-----------------------------------------------------------------------------
(* The invariant.                                                          *)

LEMMA InitInv == Init => IInv
<1> SUFFICES ASSUME Init PROVE IInv
    OBVIOUS
<1>1. /\ def = <<>> /\ phase = "idle" /\ types = <<>> /\ next = 1 /\ cursor = 0
      /\ stack = <<>> /\ call = NoCall /\ ret = NoName /\ query = NoName
    BY DEF Init
<1>2. DOMAIN types = {} /\ types \in [DOMAIN types -> Node]
    BY <1>1
<1>3. TypeOK
    BY <1>1, <1>2 DEF TypeOK
<1>4. GraphGood(types)
    BY <1>2 DEF GraphGood
<1>5. StackGood(types, stack)
    BY <1>1, LimitType DEF StackGood
<1>6. /\ PhaseShape /\ CallersAwait /\ ReturnsSettled /\ Swept /\ NothingLeftOver
      /\ call # NoCall => call.depth = Len(stack)
    BY <1>1 DEF PhaseShape, Idle, CallersAwait, ReturnsSettled, Swept, NothingLeftOver
<1> QED
    BY <1>3, <1>4, <1>5, <1>6, InvParts DEF Parted

LEMMA StutterInv ==
    ASSUME IInv, UNCHANGED vars
    PROVE  IInv'
BY DEF vars, IInv, TypeOK, PhaseShape, Idle, NestingLegal, GraphSettled, FramesGood, CallersAwait,
       ReturnsSettled, DepthBounded, Swept, NothingLeftOver, KindOf, IsUnresolved, Top

LEMMA NextInv == IInv /\ [Next]_vars => IInv'
<1> SUFFICES ASSUME IInv, [Next]_vars PROVE IInv'
    OBVIOUS
<1>1. CASE Convert
    BY <1>1, ConvertInv
<1>2. CASE Query
    BY <1>2, QueryInv
<1>3. CASE Step
    <2>1. CASE Declare \/ EndOfDefinitions
        BY <2>1, DeclareInv, EndOfDefinitionsInv
    <2>2. CASE Fill \/ EndOfFill
        BY <2>2, FillInv, EndOfFillInv
    <2>3. CASE GetType \/ EndOfWrapper \/ EndOfAlias
        BY <2>3, GetTypeInv, EndOfWrapperInv, EndOfAliasInv
    <2>4. CASE CallBase \/ Base
        BY <2>4, CallBaseInv, BaseInv
    <2>5. CASE CallPart \/ TakePart \/ EndOfParts
        BY <2>5, CallPartInv, TakePartInv, EndOfPartsInv
    <2>6. CASE Answer
        BY <2>6, AnswerInv
    <2> QED
        BY <1>3, <2>1, <2>2, <2>3, <2>4, <2>5, <2>6 DEF Step
<1>4. CASE Failed \/ UNCHANGED vars
    BY <1>4, StutterInv DEF Failed
<1> QED
    BY <1>1, <1>2, <1>3, <1>4 DEF Next

\* IInv holds in every reachable state.
THEOREM Invariance == Spec => []IInv
<1>1. Init => IInv
    BY InitInv
<1>2. IInv /\ [Next]_vars => IInv'
    BY NextInv
<1> QED
    BY <1>1, <1>2, PTL DEF Spec

\* The state of the compiler is well formed.
THEOREM TypeCorrect == Spec => []TypeOK
<1>1. IInv => TypeOK
    BY DEF IInv
<1> QED
    BY <1>1, Invariance, PTL

\* The nesting that the serializers count on holds of every graph that convert
\* and get_type build (abi.cpp:54, 60, 66).
THEOREM NestingIsLegal == Spec => []NestingLegal
<1>1. IInv => NestingLegal
    BY DEF IInv
<1> QED
    BY <1>1, Invariance, PTL

\* No pointer of the graph is to an alias or to a node that is not in the map
\* (abi.cpp:77-84).
THEOREM EdgesAreSettled == Spec => []EdgesSettled
<1>1. IInv => EdgesSettled
    BY DEF IInv, GraphSettled, NodeSettled, FramesGood, HasSettled, EdgesSettled, KindOf
<1> QED
    BY <1>1, Invariance, PTL

\* The depth that is passed around counts the activations (abi.cpp:48, 87, 112).
THEOREM DepthIsBounded == Spec => []DepthBounded
<1>1. IInv => DepthBounded
    BY DEF IInv
<1> QED
    BY <1>1, Invariance, PTL

\* A compiled abi has no node that still points into its abi_def (abi.cpp:193-196).
THEOREM NothingIsLeftOver == Spec => []NothingLeftOver
<1>1. IInv => NothingLeftOver
    BY DEF IInv
<1> QED
    BY <1>1, Invariance, PTL

-----------------------------------------------------------------------------
(* A resolved node is final: FinalInv, and what a step keeps of the map.   *)

\* Frames at work on one name are of one kind.
LEMMA SameKind ==
    ASSUME NEW map, NEW st, StackGood(map, st), Unfinished(map, st),
           NEW j \in DOMAIN st, NEW g, WorksOn(map, g), IsOpen(map, g.name),
           g \in Activation, st[j].name = g.name
    PROVE  st[j].kind = g.kind \/ (st[j].kind \in Wrapper /\ g.kind \in Wrapper)
<1> DEFINE f == st[j]
<1>1. WorksOn(map, f) /\ IsOpen(map, f.name) /\ f \in Activation
    BY DEF StackGood, Unfinished
<1>2. f.kind \in Wrapper \cup {"alias", "struct", "variant"}
      /\ g.kind \in Wrapper \cup {"alias", "struct", "variant"}
    BY <1>1 DEF Activation
<1>3. f.name = g.name
    OBVIOUS
<1> HIDE DEF f
<1>4. f.kind \in Wrapper => f.name \notin DOMAIN map
    BY <1>1 DEF WorksOn, IsOpen, Wrapper, Unresolved
<1>5. g.kind \in Wrapper => g.name \notin DOMAIN map
    BY DEF WorksOn, IsOpen, Wrapper, Unresolved
<1>6. f.kind = g.kind \/ (f.kind \in Wrapper /\ g.kind \in Wrapper)
    BY <1>1, <1>2, <1>3, <1>4, <1>5 DEF WorksOn
<1> QED
    BY <1>6 DEF f

\* What is left to do is a number.
LEMMA RemainingType ==
    ASSUME NEW f \in Activation
    PROVE  /\ Remaining(f) \in Nat
           /\ f.kind \in {"struct", "variant"} => (Awaits(f) <=> Remaining(f) > 0)
<1>1. f.todo \in Seq(Part)
    BY DEF Activation
<1>2. Len(f.todo) \in Nat /\ (f.todo = <<>> <=> Len(f.todo) = 0)
    BY <1>1, LenProperties, EmptySeq
<1>3. CASE f.base # ""
    <2>1. Remaining(f) = Len(f.todo) + 1
        BY <1>3 DEF Remaining
    <2>2. Remaining(f) \in Nat /\ Remaining(f) > 0
        BY <1>2, <2>1
    <2>3. Awaits(f)
        BY <1>3 DEF Awaits
    <2> QED
        BY <2>2, <2>3
<1>4. CASE f.base = ""
    <2>1. Remaining(f) = Len(f.todo)
        BY <1>4 DEF Remaining
    <2>2. Remaining(f) \in Nat /\ (Remaining(f) > 0 <=> f.todo # <<>>)
        BY <1>2, <2>1
    <2>3. f.kind \in {"struct", "variant"} => (Awaits(f) <=> f.todo # <<>>)
        BY <1>4 DEF Awaits
    <2> QED
        BY <2>2, <2>3
<1> QED
    BY <1>3, <1>4

\* An activation has all of its work before it.
Begins(map, g) ==
    g.kind \in {"struct", "variant"} => g.base = map[g.name].of /\ g.todo = map[g.name].parts

\* One that begins has at least as much to do as any other for its name.
LEMMA BeginsBehind ==
    ASSUME NEW map, NEW st, StackGood(map, st), Unfinished(map, st),
           NEW g \in Activation, WorksOn(map, g), IsOpen(map, g.name), InOrder(map, g),
           Begins(map, g), NEW j \in DOMAIN st, st[j].name = g.name
    PROVE  Remaining(st[j]) <= Remaining(g)
<1> DEFINE f == st[j]
<1>1. f \in Activation /\ InOrder(map, f) /\ f.name = g.name
    BY DEF StackGood, Unfinished
<1>2. f.kind = g.kind \/ (f.kind \in Wrapper /\ g.kind \in Wrapper)
    BY SameKind
<1> HIDE DEF f
<1>3. Remaining(f) \in Nat /\ Remaining(g) \in Nat
    BY <1>1, RemainingType
<1>4. f.todo \in Seq(Part) /\ g.todo \in Seq(Part)
    BY <1>1 DEF Activation
<1>5. Len(f.todo) \in Nat /\ Len(g.todo) \in Nat
    BY <1>4, LenProperties
<1>6. ASSUME g.kind \in {"struct", "variant"}
      PROVE  Remaining(f) <= Remaining(g)
    <2>1. f.kind \in {"struct", "variant"}
        BY <1>2, <1>6 DEF Wrapper
    <2>2. f.base # "" => f.base = g.base
        BY <1>1, <1>6, <2>1 DEF InOrder, Begins
    <2>5. Len(f.todo) <= Len(g.todo)
        BY <1>1, <1>6, <2>1 DEF InOrder, Begins
    <2>3. CASE f.base # ""
        <3>1. Remaining(f) = Len(f.todo) + 1 /\ Remaining(g) = Len(g.todo) + 1
            BY <2>2, <2>3 DEF Remaining
        <3> QED
            BY <1>5, <2>5, <3>1
    <2>4. CASE f.base = ""
        <3>1. Remaining(f) = Len(f.todo)
            BY <2>4 DEF Remaining
        <3>2. Remaining(g) = Len(g.todo) \/ Remaining(g) = Len(g.todo) + 1
            BY DEF Remaining
        <3> QED
            BY <1>5, <2>5, <3>1, <3>2
    <2> QED
        BY <2>3, <2>4
<1>7. ASSUME g.kind \notin {"struct", "variant"}
      PROVE  Remaining(f) <= Remaining(g)
    <2>1. f.kind \notin {"struct", "variant"}
        BY <1>2, <1>7 DEF Wrapper
    <2>2. f.base = "" /\ f.todo = <<>>
        BY <1>1, <2>1 DEF InOrder
    <2>3. Remaining(f) = 0
        BY <2>2 DEF Remaining
    <2> QED
        BY <1>3, <2>3
<1>8. Remaining(f) <= Remaining(g)
    BY <1>6, <1>7
<1> QED
    BY <1>8 DEF f

\* A new activation on top, for what the last one waits for.
LEMMA PushUnfinished ==
    ASSUME NEW map, NEW st, StackGood(map, st), Unfinished(map, st),
           NEW g \in Activation, WorksOn(map, g), IsOpen(map, g.name), InOrder(map, g),
           Begins(map, g), st # <<>> => Serves(map, Last(st), g)
    PROVE  Unfinished(map, Append(st, g))
<1> DEFINE st2 == Push(st, g)
<1>1. st \in Seq(Activation)
    BY DEF StackGood
<1>2. /\ st2 \in Seq(Activation) /\ Len(st) \in Nat /\ Len(st2) = Len(st) + 1
      /\ st2[Len(st) + 1] = g /\ \A k \in 1 .. Len(st) : st2[k] = st[k]
    BY <1>1, PushFacts
<1>3. DOMAIN st = 1 .. Len(st) /\ DOMAIN st2 = 1 .. Len(st) + 1
    BY <1>1, <1>2, LenProperties
<1>4. st2 = Append(st, g)
    BY DEF Push
<1> HIDE DEF st2
<1>5. ASSUME NEW k \in DOMAIN st2
      PROVE  IsOpen(map, st2[k].name) /\ InOrder(map, st2[k])
    <2>1. CASE k \in 1 .. Len(st)
        BY <1>2, <1>3, <2>1 DEF Unfinished
    <2>2. CASE k = Len(st) + 1
        BY <1>2, <2>2
    <2> QED
        BY <1>2, <1>3, <2>1, <2>2
<1>6. ASSUME NEW k \in DOMAIN st2, k > 1
      PROVE  Serves(map, st2[k - 1], st2[k])
    <2>1. CASE k \in 1 .. Len(st)
        <3>1. k - 1 \in 1 .. Len(st)
            BY <1>2, <1>6, <2>1
        <3> QED
            BY <1>2, <1>3, <1>6, <2>1, <3>1 DEF Unfinished
    <2>2. CASE k = Len(st) + 1
        <3>1. Len(st) \in 1 .. Len(st) /\ k - 1 = Len(st) /\ Len(st) # 0
            BY <1>2, <1>6, <2>2
        <3>2. st # <<>>
            BY <3>1
        <3>3. Last(st) = st[Len(st)]
            BY <1>1, <3>2, TopFacts
        <3> QED
            BY <1>2, <2>2, <3>1, <3>2, <3>3
    <2> QED
        BY <1>2, <1>3, <2>1, <2>2
<1>7. ASSUME NEW j \in DOMAIN st2, NEW k \in DOMAIN st2, j < k, st2[j].name = st2[k].name
      PROVE  Remaining(st2[j]) <= Remaining(st2[k])
    <2>1. j \in 1 .. Len(st)
        BY <1>2, <1>3, <1>7
    <2>2. CASE k \in 1 .. Len(st)
        BY <1>2, <1>3, <1>7, <2>1, <2>2 DEF Unfinished
    <2>3. CASE k = Len(st) + 1
        BY <1>2, <1>3, <1>7, <2>1, <2>3, BeginsBehind
    <2> QED
        BY <1>2, <1>3, <2>2, <2>3
<1>8. Unfinished(map, st2)
    BY <1>5, <1>6, <1>7 DEF Unfinished
<1> QED
    BY <1>4, <1>8

\* The first element of a sequence.
LEMMA HeadIs ==
    ASSUME NEW S, NEW s \in Seq(S), s # <<>>
    PROVE  Head(s) = s[1]
OBVIOUS

\* What two activations with as much left to do for one name wait for.
LEMMA SameWanted ==
    ASSUME NEW map, NEW f \in Activation, NEW g \in Activation, f.name = g.name,
           InOrder(map, f), InOrder(map, g), Awaits(f),
           f.kind = g.kind \/ (f.kind \in Wrapper /\ g.kind \in Wrapper),
           Remaining(f) = Remaining(g)
    PROVE  Wanted(map, f) = Wanted(map, g) /\ f.base = g.base
<1>1. CASE f.kind \notin {"struct", "variant"}
    <2>1. g.kind \notin {"struct", "variant"} /\ (f.kind \in Wrapper <=> g.kind \in Wrapper)
          /\ (f.kind = "alias" <=> g.kind = "alias")
        BY <1>1 DEF Wrapper
    <2>2. f.base = "" /\ g.base = ""
        BY <1>1, <2>1 DEF InOrder
    <2>3. f.kind = "alias" \/ f.kind \in Wrapper
        BY <1>1 DEF Activation
    <2> QED
        BY <2>1, <2>2, <2>3 DEF Wanted
<1>2. CASE f.kind \in {"struct", "variant"}
    <2> DEFINE own == map[f.name].parts
               m == Len(f.todo)
    <2>1. g.kind = f.kind
        BY <1>2 DEF Wrapper
    <2>2. f.todo \in Seq(Part) /\ g.todo \in Seq(Part)
        BY DEF Activation
    <2>3. /\ Len(f.todo) \in Nat /\ Len(g.todo) \in Nat
          /\ DOMAIN f.todo = 1 .. Len(f.todo) /\ DOMAIN g.todo = 1 .. Len(g.todo)
        BY <2>2, LenProperties
    <2>4. /\ Len(f.todo) <= Len(own) /\ Len(g.todo) <= Len(own)
        BY <1>2, <2>1 DEF InOrder
    <2>5. /\ \A i \in 1 .. Len(f.todo) : f.todo[i] = own[i + (Len(own) - Len(f.todo))]
          /\ \A i \in 1 .. Len(g.todo) : g.todo[i] = own[i + (Len(own) - Len(g.todo))]
        BY <1>2, <2>1 DEF InOrder
    <2>6. /\ f.base # "" => f.base = map[f.name].of
          /\ g.base # "" => g.base = map[f.name].of
        BY <1>2, <2>1 DEF InOrder
    <2>7. /\ f.base # "" => Len(f.todo) = Len(own)
          /\ g.base # "" => Len(g.todo) = Len(own)
        BY <1>2, <2>1 DEF InOrder
    <2> HIDE DEF own
    <2>8. CASE f.base # "" /\ g.base = ""
        <3>1. Len(f.todo) + 1 = Len(g.todo) /\ Len(f.todo) = Len(own)
            BY <2>7, <2>8 DEF Remaining
        <3> QED
            BY <2>3, <2>4, <3>1
    <2>9. CASE f.base = "" /\ g.base # ""
        <3>1. Len(g.todo) + 1 = Len(f.todo) /\ Len(g.todo) = Len(own)
            BY <2>7, <2>9 DEF Remaining
        <3> QED
            BY <2>3, <2>4, <3>1
    <2>10. CASE f.base # "" /\ g.base # ""
        <3>1. f.base = g.base
            BY <2>6, <2>10
        <3> QED
            BY <1>2, <2>1, <2>10, <3>1 DEF Wanted, Wrapper
    <2>11. CASE f.base = "" /\ g.base = ""
        <3>1. Len(f.todo) = Len(g.todo)
            BY <2>11 DEF Remaining
        <3>2. f.todo # <<>>
            BY <1>2, <2>11 DEF Awaits
        <3>3. Len(f.todo) # 0
            BY <2>2, <3>2, EmptySeq
        <3>4. 1 \in 1 .. Len(f.todo)
            BY <2>3, <3>3
        <3>5. f.todo[1] = own[1 + (Len(own) - Len(f.todo))]
            BY <2>5, <3>4
        <3>6. g.todo[1] = own[1 + (Len(own) - Len(f.todo))]
            BY <2>5, <3>1, <3>4
        <3>7. Head(f.todo) = Head(g.todo)
            <4>1. g.todo # <<>>
                BY <2>2, <3>1, <3>3, EmptySeq
            <4> QED
                BY <2>2, <3>2, <3>5, <3>6, <4>1, HeadIs
        <3> QED
            BY <1>2, <2>1, <2>11, <3>7 DEF Wanted, Wrapper
    <2> QED
        BY <2>8, <2>9, <2>10, <2>11
<1> QED
    BY <1>1, <1>2

\* Something has come back to a later activation for a name: then it is ahead
\* of what the earlier one waits for, or it is a base that is not resolved.
LEMMA LaterWaits ==
    ASSUME NEW map, NEW st, StackGood(map, st), Unfinished(map, st),
           \A k \in DOMAIN st : Awaits(st[k]),
           NEW h \in Nat, Len(st) = h + 1,
           IsFound(map, Wanted(map, st[h + 1])),
           NEW j \in 1 .. h, st[j].name = st[h + 1].name,
           Remaining(st[j]) = Remaining(st[h + 1])
    PROVE  /\ st[h + 1].kind = "struct" /\ st[h + 1].base # ""
           /\ Target(map, Wanted(map, st[h + 1])) \in DOMAIN map
           /\ map[Target(map, Wanted(map, st[h + 1]))].kind \in Unresolved
<1> DEFINE f == st[j]
           g == st[j + 1]
           t == st[h + 1]
           w == Wanted(map, t)
<1>1. st \in Seq(Activation) /\ DOMAIN st = 1 .. h + 1
    BY LenProperties DEF StackGood
<1>2. j \in DOMAIN st /\ j + 1 \in DOMAIN st /\ h + 1 \in DOMAIN st /\ j + 1 > 1 /\ (j + 1) - 1 = j
    BY <1>1
<1>3. /\ f \in Activation /\ g \in Activation /\ t \in Activation
      /\ WorksOn(map, f) /\ WorksOn(map, g) /\ WorksOn(map, t)
    BY <1>1, <1>2, ElementOfSeq DEF StackGood
<1>4. /\ IsOpen(map, f.name) /\ IsOpen(map, g.name) /\ IsOpen(map, t.name)
      /\ InOrder(map, f) /\ InOrder(map, t)
    BY <1>2 DEF Unfinished
<1>5. Serves(map, f, g)
    BY <1>2 DEF Unfinished
<1>6. f.kind = t.kind \/ (f.kind \in Wrapper /\ t.kind \in Wrapper)
    BY <1>2, <1>3, <1>4, SameKind
<1>7. Awaits(f)
    BY <1>2
<1>8. f.name = t.name /\ Remaining(f) = Remaining(t)
    OBVIOUS
<1>9. IsFound(map, w)
    OBVIOUS
<1> HIDE DEF f, g, t
<1>10. Wanted(map, f) = w /\ f.base = t.base
    BY <1>3, <1>4, <1>6, <1>7, <1>8, SameWanted DEF w
<1> HIDE DEF w
<1>11. g.kind \in {"struct", "variant"}
    <2> SUFFICES ASSUME g.kind \notin {"struct", "variant"} PROVE FALSE
        OBVIOUS
    <2>1. g.name = w
        BY <1>5, <1>10 DEF Serves
    <2>2. g.name \in DOMAIN map /\ map[g.name].kind # "alias_def"
        BY <1>9, <2>1 DEF IsFound
    <2>3. map[g.name].kind \in Unresolved
        BY <1>4, <2>2 DEF IsOpen
    <2>4. g.kind \in Wrapper \cup {"alias"}
        BY <1>3 DEF Activation
    <2> QED
        BY <1>3, <2>2, <2>3, <2>4 DEF WorksOn, Unresolved, Wrapper
<1>12. f.kind = "struct" /\ f.base # "" /\ Target(map, f.base) = g.name
    BY <1>5, <1>11 DEF Serves
<1>13. f.base = w
    BY <1>10, <1>12 DEF Wanted, Wrapper
<1>14. g.name \in DOMAIN map
    BY <1>3, <1>11 DEF WorksOn, Wrapper
<1>15. map[g.name].kind \in Unresolved
    BY <1>4, <1>14 DEF IsOpen
<1>16. t.kind = "struct" /\ t.base # ""
    BY <1>6, <1>10, <1>12 DEF Wrapper
<1>17. Target(map, w) = g.name
    BY <1>12, <1>13
<1> QED
    BY <1>14, <1>15, <1>16, <1>17 DEF t, w

\* An activation has all it waited for.
MayEnd(map, f) ==
    \/ f.kind \notin {"struct", "variant"} /\ IsFound(map, Wanted(map, f))
    \/ f.kind \in {"struct", "variant"} /\ f.base = "" /\ f.todo = <<>>

\* The activation that ends is the only one for its name.
LEMMA EndsAlone ==
    ASSUME NEW map, NEW st, StackGood(map, st), Unfinished(map, st),
           NEW h \in Nat, Len(st) = h + 1,
           \A k \in 1 .. h : Awaits(st[k]),
           MayEnd(map, st[h + 1]),
           NEW j \in 1 .. h
    PROVE  st[j].name # st[h + 1].name
<1> SUFFICES ASSUME st[j].name = st[h + 1].name PROVE FALSE
    OBVIOUS
<1> DEFINE f == st[j]
           t == st[h + 1]
<1>1. st \in Seq(Activation) /\ DOMAIN st = 1 .. h + 1
    BY LenProperties DEF StackGood
<1>2. j \in DOMAIN st /\ h + 1 \in DOMAIN st /\ j < h + 1
    BY <1>1
<1>3. /\ f \in Activation /\ t \in Activation /\ WorksOn(map, t)
    BY <1>1, <1>2, ElementOfSeq DEF StackGood
<1>4. /\ IsOpen(map, t.name) /\ InOrder(map, f) /\ InOrder(map, t)
      /\ Remaining(f) <= Remaining(t)
    BY <1>2 DEF Unfinished
<1>5. f.kind = t.kind \/ (f.kind \in Wrapper /\ t.kind \in Wrapper)
    BY <1>2, <1>3, <1>4, SameKind
<1>6. Remaining(f) \in Nat /\ Remaining(t) \in Nat
    BY <1>3, RemainingType
<1>7. CASE t.kind \notin {"struct", "variant"}
    <2>1. f.kind \notin {"struct", "variant"}
        BY <1>5, <1>7 DEF Wrapper
    <2>2. Remaining(f) = Remaining(t)
        BY <1>4, <1>7, <2>1 DEF InOrder, Remaining
    <2>3. Awaits(t)
        BY <1>7 DEF Awaits
    <2>4. \A k \in DOMAIN st : Awaits(st[k])
        BY <1>1, <2>3
    <2> QED
        BY <1>7, <2>2, <2>4, LaterWaits DEF MayEnd
<1>8. CASE t.kind \in {"struct", "variant"}
    <2>1. f.kind \in {"struct", "variant"}
        BY <1>5, <1>8 DEF Wrapper
    <2>2. Remaining(t) = 0
        <3>1. t.base = "" /\ t.todo = <<>>
            BY <1>8 DEF MayEnd
        <3> QED
            BY <3>1 DEF Remaining
    <2>3. Awaits(f)
        OBVIOUS
    <2>4. Remaining(f) > 0
        BY <1>3, <2>1, <2>3, RemainingType
    <2> QED
        BY <1>4, <1>6, <2>2, <2>4
<1> QED
    BY <1>7, <1>8

\* A map that differs at one name, of which it may be new.
ChangedAt(map, map2, n) ==
    /\ DOMAIN map2 = DOMAIN map \cup {n}
    /\ \A m \in DOMAIN map : m # n => map2[m] = map[m]

\* An activation for another name goes on as it was.
LEMMA OtherFrame ==
    ASSUME NEW map, NEW map2, NEW n, ChangedAt(map, map2, n),
           NEW f \in Activation, WorksOn(map, f), f.name # n,
           IsOpen(map, f.name), InOrder(map, f)
    PROVE  IsOpen(map2, f.name) /\ InOrder(map2, f) /\ Wanted(map2, f) = Wanted(map, f)
<1>1. f.name \in DOMAIN map2 <=> f.name \in DOMAIN map
    BY DEF ChangedAt
<1>2. f.name \in DOMAIN map => map2[f.name] = map[f.name]
    BY DEF ChangedAt
<1>3. f.kind \in {"alias", "struct", "variant"} => f.name \in DOMAIN map
    BY DEF WorksOn, Wrapper
<1>4. IsOpen(map2, f.name)
    BY <1>1, <1>2 DEF IsOpen
<1>5. InOrder(map2, f)
    BY <1>2, <1>3 DEF InOrder
<1>6. Wanted(map2, f) = Wanted(map, f)
    BY <1>2, <1>3 DEF Wanted
<1> QED
    BY <1>4, <1>5, <1>6

\* What one activation was begun for another is still what that one waits for
\* once a third one, at n, has ended.
LEMMA StillServes ==
    ASSUME NEW map, NEW map2, NEW n, ChangedAt(map, map2, n), IsOpen(map, n),
           NEW f \in Activation, NEW g, g.name # n, Wanted(map2, f) = Wanted(map, f),
           Serves(map, f, g)
    PROVE  Serves(map2, f, g)
<1>1. CASE g.kind \notin {"struct", "variant"}
    BY <1>1 DEF Serves
<1>2. CASE g.kind \in {"struct", "variant"}
    <2>1. /\ f.kind = "struct" /\ f.base # "" /\ IsFound(map, f.base)
          /\ Target(map, f.base) = g.name
        BY <1>2 DEF Serves
    <2>2. f.base # n
        <3> SUFFICES ASSUME f.base = n PROVE FALSE
            OBVIOUS
        <3>1. map[n].kind # "alias"
            BY <2>1 DEF IsOpen, IsFound, Unresolved
        <3> QED
            BY <2>1, <3>1 DEF Target
    <2>3. f.base \in DOMAIN map2 /\ map2[f.base] = map[f.base]
        BY <2>1, <2>2 DEF ChangedAt, IsFound
    <2>4. IsFound(map2, f.base) /\ Target(map2, f.base) = g.name
        BY <2>1, <2>3 DEF IsFound, Target
    <2> QED
        BY <1>2, <2>1, <2>4 DEF Serves
<1> QED
    BY <1>1, <1>2

\* What the activation below gets is what it waits for.
LEMMA EndServes ==
    ASSUME NEW map, NEW map2, NEW f \in Activation, NEW t,
           ChangedAt(map, map2, t.name), Wanted(map2, f) = Wanted(map, f), Serves(map, f, t),
           NEW node, IsFound(map2, t.name), node = Target(map2, t.name),
           t.kind \in {"struct", "variant"} => node = t.name
    PROVE  IsFound(map2, Wanted(map2, f)) /\ node = Target(map2, Wanted(map2, f))
<1>1. CASE t.kind \notin {"struct", "variant"}
    BY <1>1 DEF Serves
<1>2. CASE t.kind \in {"struct", "variant"}
    <2>1. /\ f.kind = "struct" /\ f.base # "" /\ IsFound(map, f.base)
          /\ Target(map, f.base) = t.name
        BY <1>2 DEF Serves
    <2>2. Wanted(map2, f) = f.base
        BY <2>1 DEF Wanted, Wrapper
    <2>3. CASE f.base = t.name
        BY <2>2, <2>3
    <2>4. CASE f.base # t.name
        <3>1. f.base \in DOMAIN map2 /\ map2[f.base] = map[f.base]
            BY <2>1, <2>4 DEF ChangedAt, IsFound
        <3>2. IsFound(map2, f.base) /\ Target(map2, f.base) = t.name
            BY <2>1, <3>1 DEF IsFound, Target
        <3> QED
            BY <1>2, <2>2, <3>2
    <2> QED
        BY <2>3, <2>4
<1> QED
    BY <1>1, <1>2

\* The activation on top ends.
LEMMA PopUnfinished ==
    ASSUME NEW map, NEW map2, NEW st, StackGood(map, st), Unfinished(map, st), st # <<>>,
           \A k \in DOMAIN st : k < Len(st) => Awaits(st[k]),
           MayEnd(map, Last(st)), ChangedAt(map, map2, Last(st).name),
           NEW node, IsFound(map2, Last(st).name), node = Target(map2, Last(st).name),
           Last(st).kind \in {"struct", "variant"} => node = Last(st).name
    PROVE  /\ Unfinished(map2, Front(st))
           /\ Front(st) # <<>> =>
                  LET w == Wanted(map2, Last(Front(st))) IN
                  IsFound(map2, w) /\ node = Target(map2, w)
<1> DEFINE t == Last(st)
           n == t.name
           st2 == Front(st)
           h == Len(st2)
<1>1. st \in Seq(Activation)
    BY DEF StackGood
<1>2. /\ st2 \in Seq(Activation) /\ h \in Nat /\ Len(st) = h + 1
      /\ \A k \in 1 .. h : st2[k] = st[k]
    BY <1>1, PopFacts
<1>3. DOMAIN st = 1 .. h + 1 /\ DOMAIN st2 = 1 .. h /\ t = st[h + 1]
    BY <1>1, <1>2, LenProperties, TopGood
<1>4. IsFound(map2, n) /\ node = Target(map2, n) /\ ChangedAt(map, map2, n)
      /\ (t.kind \in {"struct", "variant"} => node = n) /\ MayEnd(map, t)
    OBVIOUS
<1> HIDE DEF st2, t, h
<1>5. IsOpen(map, n)
    <2>1. h + 1 \in DOMAIN st
        BY <1>2, <1>3
    <2> QED
        BY <1>3, <2>1 DEF Unfinished
<1>6. ASSUME NEW k \in 1 .. h
      PROVE  /\ k \in DOMAIN st /\ k < h + 1 /\ st2[k] = st[k] /\ st[k].name # n
             /\ st[k] \in Activation /\ WorksOn(map, st[k])
             /\ IsOpen(map, st[k].name) /\ InOrder(map, st[k])
    <2>1. k \in DOMAIN st /\ k < h + 1 /\ st2[k] = st[k]
        BY <1>2, <1>3
    <2>2. \A i \in 1 .. h : Awaits(st[i])
        BY <1>2, <1>3
    <2>3. st[k].name # n
        BY <1>2, <1>3, <1>4, <2>2, EndsAlone
    <2>4. st[k] \in Activation /\ WorksOn(map, st[k])
        BY <1>1, <2>1, <1>2, <1>3, ElementOfSeq DEF StackGood
    <2>5. IsOpen(map, st[k].name) /\ InOrder(map, st[k])
        BY <2>1 DEF Unfinished
    <2> QED
        BY <2>1, <2>3, <2>4, <2>5
<1> HIDE DEF n
<1>7. ASSUME NEW k \in 1 .. h
      PROVE  /\ IsOpen(map2, st[k].name) /\ InOrder(map2, st[k])
             /\ Wanted(map2, st[k]) = Wanted(map, st[k])
    BY <1>4, <1>6, OtherFrame
<1>8. ASSUME NEW k \in 1 .. h, k > 1
      PROVE  Serves(map2, st2[k - 1], st2[k])
    <2>1. k - 1 \in 1 .. h
        BY <1>2, <1>8
    <2>2. Serves(map, st[k - 1], st[k])
        BY <1>6, <1>8 DEF Unfinished
    <2>3. st[k].name # n /\ st2[k] = st[k] /\ st2[k - 1] = st[k - 1] /\ st[k - 1] \in Activation
        BY <1>6, <2>1
    <2>4. Wanted(map2, st[k - 1]) = Wanted(map, st[k - 1])
        BY <1>7, <2>1
    <2>5. Serves(map2, st[k - 1], st[k])
        BY <1>4, <1>5, <2>2, <2>3, <2>4, StillServes
    <2> QED
        BY <2>3, <2>5
<1>9. Unfinished(map2, st2)
    <2>1. \A j, k \in 1 .. h : j < k /\ st2[j].name = st2[k].name
                                  => Remaining(st2[j]) <= Remaining(st2[k])
        BY <1>6 DEF Unfinished
    <2>2. \A k \in 1 .. h : IsOpen(map2, st2[k].name) /\ InOrder(map2, st2[k])
        BY <1>6, <1>7
    <2>3. \A k \in 1 .. h : k > 1 => Serves(map2, st2[k - 1], st2[k])
        BY <1>8
    <2> QED
        BY <1>3, <2>1, <2>2, <2>3 DEF Unfinished
<1>10. ASSUME st2 # <<>>
       PROVE  IsFound(map2, Wanted(map2, Last(st2))) /\ node = Target(map2, Wanted(map2, Last(st2)))
    <2>1. h \in 1 .. h /\ Last(st2) = st2[h]
        BY <1>2, <1>10, TopFacts, NonEmpty DEF h
    <2>2. h + 1 \in DOMAIN st /\ h + 1 > 1 /\ (h + 1) - 1 = h
        BY <1>2, <1>3, <2>1
    <2>3. Serves(map, st[h], t)
        BY <1>3, <2>2 DEF Unfinished
    <2>4. st2[h] = st[h] /\ st[h] \in Activation /\ Wanted(map2, st[h]) = Wanted(map, st[h])
        BY <1>6, <1>7, <2>1
    <2>5. IsFound(map2, Wanted(map2, st[h])) /\ node = Target(map2, Wanted(map2, st[h]))
        BY <1>4, <2>3, <2>4, EndServes DEF n
    <2> QED
        BY <2>1, <2>4, <2>5
<1> QED
    BY <1>9, <1>10 DEF st2

\* The activation has got what it waited for, and has one thing less to do.
Advances(map, t, t2) ==
    /\ t2.kind = t.kind /\ t2.name = t.name
    /\ InOrder(map, t2) /\ Remaining(t) = Remaining(t2) + 1
    /\ IsFound(map, Wanted(map, t))
    /\ t.base = "" \/ map[Target(map, Wanted(map, t))].kind \notin Unresolved

\* The one on top does.
LEMMA ReplaceUnfinished ==
    ASSUME NEW map, NEW st, StackGood(map, st), Unfinished(map, st), st # <<>>,
           \A k \in DOMAIN st : Awaits(st[k]),
           NEW t2 \in Activation, Advances(map, Last(st), t2)
    PROVE  Unfinished(map, [st EXCEPT ![Len(st)] = t2])
<1> DEFINE t == Last(st)
           h == Len(st) - 1
           st2 == [st EXCEPT ![Len(st)] = t2]
<1>1. st \in Seq(Activation)
    BY DEF StackGood
<1>2. /\ st2 \in Seq(Activation) /\ Len(st2) = Len(st)
      /\ \A k \in 1 .. Len(st) : st2[k] = IF k = Len(st) THEN t2 ELSE st[k]
    BY <1>1, ReplaceFacts
<1>3. Len(st) \in Nat \ {0} /\ t = st[Len(st)] /\ t \in Activation
    BY TopGood
<1>4. h \in Nat /\ Len(st) = h + 1
    BY <1>3
<1>5. DOMAIN st = 1 .. h + 1 /\ DOMAIN st2 = 1 .. h + 1
    BY <1>1, <1>2, <1>4, LenProperties
<1>6. st2[h + 1] = t2 /\ \A k \in 1 .. h : st2[k] = st[k] /\ k \in 1 .. h + 1 /\ k # h + 1
    BY <1>2, <1>4
<1> HIDE DEF t, h, st2
<1>7. /\ t2.kind = t.kind /\ t2.name = t.name /\ InOrder(map, t2)
      /\ IsFound(map, Wanted(map, t))
    BY DEF Advances, t
<1>8. t.base = "" \/ map[Target(map, Wanted(map, t))].kind \notin Unresolved
    BY DEF Advances, t
<1>9. Remaining(t) = Remaining(t2) + 1
    BY DEF Advances, t
<1>10. h + 1 \in DOMAIN st /\ st[h + 1] = t
    BY <1>3, <1>4, <1>5
<1>11. ASSUME NEW k \in 1 .. h + 1
      PROVE  /\ IsOpen(map, st2[k].name) /\ InOrder(map, st2[k])
             /\ st2[k].kind = st[k].kind /\ st2[k].name = st[k].name
    <2>1. IsOpen(map, st[k].name) /\ InOrder(map, st[k])
        BY <1>5 DEF Unfinished
    <2>2. CASE k = h + 1
        BY <1>6, <1>7, <1>10, <2>1, <2>2
    <2>3. CASE k \in 1 .. h
        BY <1>6, <2>1, <2>3
    <2> QED
        BY <1>4, <2>2, <2>3
<1>12. ASSUME NEW k \in 1 .. h + 1, k > 1
       PROVE  Serves(map, st2[k - 1], st2[k])
    <2>1. k - 1 \in 1 .. h /\ k - 1 \in 1 .. h + 1
        BY <1>4, <1>12
    <2>2. Serves(map, st[k - 1], st[k])
        BY <1>5, <1>12 DEF Unfinished
    <2>3. st2[k - 1] = st[k - 1]
        BY <1>6, <2>1
    <2>4. st2[k].kind = st[k].kind /\ st2[k].name = st[k].name
        BY <1>11
    <2> QED
        BY <2>2, <2>3, <2>4 DEF Serves
<1>13. ASSUME NEW j \in 1 .. h, st[j].name = t.name
       PROVE  Remaining(st[j]) <= Remaining(t2)
    <2>1. j \in DOMAIN st /\ j < h + 1
        BY <1>4, <1>5
    <2>2. Remaining(st[j]) <= Remaining(t)
        BY <1>10, <1>13, <2>1 DEF Unfinished
    <2>3. Remaining(st[j]) # Remaining(t)
        <3> SUFFICES ASSUME Remaining(st[j]) = Remaining(t) PROVE FALSE
            OBVIOUS
        <3>1. /\ t.base # "" /\ map[Target(map, Wanted(map, t))].kind \in Unresolved
            BY <1>4, <1>7, <1>10, <1>13, LaterWaits
        <3> QED
            BY <1>8, <3>1
    <2>4. st[j] \in Activation
        BY <1>1, <1>4, <1>5, <2>1, ElementOfSeq
    <2>5. Remaining(st[j]) \in Nat /\ Remaining(t2) \in Nat
        BY <2>4, RemainingType
    <2> QED
        BY <1>9, <2>2, <2>3, <2>5
<1>14. ASSUME NEW j \in 1 .. h + 1, NEW k \in 1 .. h + 1, j < k, st2[j].name = st2[k].name
       PROVE  Remaining(st2[j]) <= Remaining(st2[k])
    <2>1. j \in 1 .. h
        BY <1>4, <1>14
    <2>2. st2[j] = st[j] /\ st[j].name = st[k].name
        BY <1>6, <1>11, <1>14, <2>1
    <2>3. CASE k = h + 1
        BY <1>6, <1>10, <1>13, <2>1, <2>2, <2>3
    <2>4. CASE k \in 1 .. h
        <3>1. st2[k] = st[k] /\ j \in DOMAIN st /\ k \in DOMAIN st
            BY <1>5, <1>6, <2>4
        <3> QED
            BY <1>14, <2>2, <3>1 DEF Unfinished
    <2> QED
        BY <1>4, <2>3, <2>4
<1>15. Unfinished(map, st2)
    BY <1>5, <1>11, <1>12, <1>14 DEF Unfinished
<1> QED
    BY <1>15 DEF st2

\* The activation on top after one is put there.
LEMMA TopPushed ==
    ASSUME NEW st \in Seq(Activation), NEW f \in Activation
    PROVE  Last(Append(st, f)) = f
<1> DEFINE st2 == Push(st, f)
<1>1. st2 \in Seq(Activation) /\ st2 # <<>> /\ st2[Len(st) + 1] = f /\ Len(st2) = Len(st) + 1
    BY PushFacts
<1>2. st2 = Append(st, f)
    BY DEF Push
<1> HIDE DEF st2
<1>3. Last(st2) = st2[Len(st2)]
    BY <1>1, TopFacts
<1> QED
    BY <1>1, <1>2, <1>3

\* No parts are a list of parts.
LEMMA NoParts == <<>> \in Seq(Part)
OBVIOUS

\* With no activation there is nothing to finish.
LEMMA QuietFinal ==
    ASSUME stack' = <<>>
    PROVE  FinalInv'
<1>1. DOMAIN stack' = {}
    BY EmptySeq
<1>2. Unfinished(types', stack')
    BY <1>1 DEF Unfinished
<1>3. CallServes' /\ ReturnServes'
    BY DEF CallServes, ReturnServes
<1> QED
    BY <1>2, <1>3 DEF FinalInv

\* resolve of an alias that is in the map begins.
LEMMA ResolveAliasFinal ==
    ASSUME IInv, FinalInv, NEW n \in DOMAIN types, KindOf(n) = "alias_def",
           ResolveAlias(n, Len(stack)), stack # <<>> => n = Wanted(types, Top)
    PROVE  FinalInv'
<1> DEFINE f == PlainFrame("alias", n, Len(stack))
<1>1. /\ StackGood(types, stack) /\ Len(stack) \in Nat /\ n \in Name /\ stack \in Seq(Activation)
    BY NodeFacts, InvParts, LenProperties DEF Parted, TypeOK
<1>2. /\ f \in Activation /\ f.kind = "alias" /\ f.name = n /\ f.base = "" /\ f.todo = <<>>
    BY <1>1, PlainFrameFacts DEF PlainFrame, Frame
<1>3. /\ stack' = Append(stack, f) /\ call'.name = types[n].of /\ ret' = NoName
      /\ types' = types
    BY DEF ResolveAlias, Call
<1> HIDE DEF f
<1>4. WorksOn(types, f) /\ IsOpen(types, f.name) /\ InOrder(types, f) /\ Begins(types, f)
    BY <1>2 DEF WorksOn, KindOf, Wrapper, IsOpen, Unresolved, InOrder, Begins
<1>5. stack # <<>> => Serves(types, Last(stack), f)
    BY <1>2 DEF Serves, Top
<1>6. Unfinished(types', stack')
    BY <1>1, <1>2, <1>3, <1>4, <1>5, PushUnfinished DEF FinalInv
<1>7. Top' = f
    BY <1>1, <1>2, <1>3, TopPushed DEF Top
<1>8. call'.name = Wanted(types', f)
    BY <1>2, <1>3 DEF Wanted
<1> QED
    BY <1>3, <1>6, <1>7, <1>8 DEF FinalInv, CallServes, ReturnServes

\* The base that the activation on top waits for is n, which is in the map.
WaitsFor(n) ==
    stack # <<>> => /\ Top.kind = "struct" /\ Top.base # ""
                    /\ IsFound(types, Top.base) /\ Target(types, Top.base) = n

\* resolve of a struct or a variant begins.
LEMMA ResolvePartsFinal ==
    ASSUME IInv, FinalInv, NEW n \in DOMAIN types, NEW kind \in {"struct", "variant"},
           kind = "struct" => KindOf(n) = "struct_def",
           kind = "variant" => KindOf(n) = "variant_def",
           ResolveParts(kind, n, Len(stack)), WaitsFor(n)
    PROVE  FinalInv'
<1> DEFINE f == Frame(kind, n, Len(stack), types[n].of, types[n].parts, <<>>)
<1>1. /\ StackGood(types, stack) /\ Len(stack) \in Nat
      /\ n \in Name /\ types[n].of \in Name /\ types[n].parts \in Seq(Part)
    BY NodeFacts, InvParts, LenProperties DEF Parted, TypeOK
<1>2. CASE Len(stack) >= MaxDepth
    BY <1>2, QuietFinal DEF ResolveParts, Throw
<1>3. CASE ~(Len(stack) >= MaxDepth)
    <2>1. /\ stack' = Append(stack, f) /\ call' = NoCall /\ ret' = NoName /\ types' = types
        BY <1>3 DEF ResolveParts
    <2>2. /\ f \in Activation
          /\ f.kind = kind /\ f.name = n /\ f.base = types[n].of /\ f.todo = types[n].parts
        BY <1>1, NoParts DEF Frame, Activation
    <2> HIDE DEF f
    <2>3. WorksOn(types, f) /\ IsOpen(types, f.name) /\ Begins(types, f)
        BY <2>2 DEF WorksOn, KindOf, Wrapper, IsOpen, Unresolved, Begins
    <2>4. InOrder(types, f)
        <3> DEFINE m == Len(f.todo)
        <3>1. m \in Nat
            BY <1>1, <2>2, LenProperties
        <3> HIDE DEF m
        <3>2. m <= m /\ \A i \in 1 .. m : i + (m - m) = i
            BY <3>1
        <3>3. /\ Len(f.todo) <= Len(types[n].parts)
              /\ \A i \in 1 .. Len(f.todo) :
                     f.todo[i] = types[n].parts[i + (Len(types[n].parts) - Len(f.todo))]
              /\ Len(f.todo) = Len(types[n].parts)
            BY <2>2, <3>2 DEF m
        <3> QED
            BY <2>2, <3>3 DEF InOrder
    <2>5. stack # <<>> => Serves(types, Last(stack), f)
        BY <2>2 DEF Serves, Top, WaitsFor
    <2>6. Unfinished(types', stack')
        BY <1>1, <2>1, <2>2, <2>3, <2>4, <2>5, PushUnfinished DEF FinalInv
    <2> QED
        BY <2>1, <2>6 DEF FinalInv, CallServes, ReturnServes
<1> QED
    BY <1>2, <1>3

\* fill begins an activation at the bottom.
LEMMA FillFinal ==
    ASSUME IInv, FinalInv, Fill
    PROVE  FinalInv'
<1>1. phase = "fill" /\ stack = <<>> /\ call = NoCall
    BY DEF Fill, Idle
<1>2. PICK i \in cursor + 1 .. Len(MapOrder) :
          /\ IsUnresolved(MapOrder[i])
          /\ IF KindOf(MapOrder[i]) = "alias_def" THEN ResolveAlias(MapOrder[i], 0)
             ELSE IF KindOf(MapOrder[i]) = "struct_def" THEN ResolveParts("struct", MapOrder[i], 0)
             ELSE ResolveParts("variant", MapOrder[i], 0)
    BY DEF Fill
<1> DEFINE n == MapOrder[i]
<1>3. Len(stack) = 0
    BY <1>1
<1>4. n \in DOMAIN types /\ KindOf(n) \in Unresolved
    BY <1>2 DEF IsUnresolved
<1>5. IF KindOf(n) = "alias_def" THEN ResolveAlias(n, 0)
      ELSE IF KindOf(n) = "struct_def" THEN ResolveParts("struct", n, 0)
      ELSE ResolveParts("variant", n, 0)
    BY <1>2
<1> HIDE DEF n
<1>6. CASE KindOf(n) = "alias_def"
    BY <1>1, <1>3, <1>4, <1>5, <1>6, ResolveAliasFinal
<1>7. CASE KindOf(n) = "struct_def"
    BY <1>1, <1>3, <1>4, <1>5, <1>7, ResolvePartsFinal DEF WaitsFor
<1>8. CASE KindOf(n) = "variant_def"
    BY <1>1, <1>3, <1>4, <1>5, <1>8, ResolvePartsFinal DEF WaitsFor
<1> QED
    BY <1>4, <1>6, <1>7, <1>8 DEF Unresolved

\* get_type begins one for what is waited for, or returns it.
LEMMA GetTypeFinal ==
    ASSUME IInv, FinalInv, GetType
    PROVE  FinalInv'
<1> DEFINE n == call.name
<1>1. Parted /\ call # NoCall
    BY InvParts DEF GetType
<1>2. /\ call \in [name : Name, depth : Nat] /\ call.depth = Len(stack)
      /\ stack \in Seq(Activation) /\ StackGood(types, stack)
    BY <1>1 DEF Parted, TypeOK
<1>3. n \in Name /\ Len(stack) \in Nat
    BY <1>2, LenProperties
<1>4. stack # <<>> => n = Wanted(types, Top)
    BY <1>1 DEF FinalInv, CallServes
<1>5. IF Len(stack) >= MaxDepth THEN Throw("recursion_limit_reached")
      ELSE IF n \in DOMAIN types THEN Found(n, Len(stack)) ELSE Missing(n, Len(stack))
    BY <1>2 DEF GetType
<1>6. ASSUME NEW e, Throw(e) PROVE FinalInv'
    BY <1>6, QuietFinal DEF Throw
<1> HIDE DEF n
<1>7. CASE Len(stack) >= MaxDepth
    BY <1>5, <1>6, <1>7
<1>8. CASE ~(Len(stack) >= MaxDepth) /\ n \in DOMAIN types /\ KindOf(n) = "alias_def"
    <2>1. ResolveAlias(n, Len(stack))
        BY <1>5, <1>8 DEF Found
    <2> QED
        BY <1>4, <1>8, <2>1, ResolveAliasFinal
<1>9. CASE ~(Len(stack) >= MaxDepth) /\ n \in DOMAIN types /\ KindOf(n) # "alias_def"
    <2>1. /\ ret' = IF KindOf(n) = "alias" THEN types[n].of ELSE n
          /\ call' = NoCall /\ UNCHANGED <<types, stack>>
        BY <1>5, <1>9 DEF Found, Return
    <2>2. IsFound(types, n) /\ ret' = Target(types, n)
        BY <1>9, <2>1 DEF IsFound, Target, KindOf
    <2>3. Top' = Top
        BY <2>1 DEF Top
    <2>4. ReturnServes'
        BY <1>4, <2>1, <2>2, <2>3 DEF ReturnServes
    <2> QED
        BY <2>1, <2>4 DEF FinalInv, CallServes
<1>10. CASE ~(Len(stack) >= MaxDepth) /\ n \notin DOMAIN types
    <2>1. Missing(n, Len(stack))
        BY <1>5, <1>10
    <2>2. CASE Suffix[n] = "none"
        BY <1>6, <2>1, <2>2 DEF Missing
    <2>3. CASE Suffix[n] # "none"
        <3> DEFINE f == PlainFrame(Suffix[n], n, Len(stack))
        <3>1. /\ stack' = Append(stack, f) /\ call'.name = Stem[n] /\ ret' = NoName
              /\ types' = types
            BY <2>1, <2>3 DEF Missing, Call
        <3>2. Suffix[n] \in Wrapper
            BY <1>3, <2>3, NameFacts
        <3>3. /\ f \in Activation /\ f.kind = Suffix[n] /\ f.name = n
              /\ f.base = "" /\ f.todo = <<>>
            BY <1>3, <3>2, PlainFrameFacts DEF PlainFrame, Frame
        <3> HIDE DEF f
        <3>4. WorksOn(types, f) /\ IsOpen(types, f.name) /\ InOrder(types, f) /\ Begins(types, f)
            BY <1>10, <3>2, <3>3 DEF WorksOn, Wrapper, IsOpen, InOrder, Begins
        <3>5. stack # <<>> => Serves(types, Last(stack), f)
            BY <1>4, <3>2, <3>3 DEF Serves, Top, Wrapper
        <3>6. Unfinished(types', stack')
            BY <1>2, <3>1, <3>3, <3>4, <3>5, PushUnfinished DEF FinalInv
        <3>7. Top' = f
            BY <1>2, <3>1, <3>3, TopPushed DEF Top
        <3>8. call'.name = Wanted(types', f)
            BY <3>1, <3>2, <3>3 DEF Wanted, Wrapper
        <3> QED
            BY <3>1, <3>6, <3>7, <3>8 DEF FinalInv, CallServes, ReturnServes
    <2> QED
        BY <2>2, <2>3
<1> QED
    BY <1>7, <1>8, <1>9, <1>10

\* resolve calls get_type for what its activation waits for.
LEMMA CallFinal ==
    ASSUME FinalInv, NEW n, NEW d, Call(n, d), n = Wanted(types, Top), UNCHANGED <<types, stack>>
    PROVE  FinalInv'
<1>1. call'.name = n /\ ret' = NoName
    BY DEF Call
<1>2. Top' = Top
    BY DEF Top
<1> QED
    BY <1>1, <1>2 DEF FinalInv, CallServes, ReturnServes

\* resolve of a struct or a variant calls for its base or its next part.
LEMMA CallsFinal ==
    ASSUME FinalInv, CallBase \/ CallPart
    PROVE  FinalInv'
<1>1. CASE CallBase
    <2>1. Top.base = Wanted(types, Top)
        BY <1>1 DEF CallBase, TopIs, Wanted, Wrapper
    <2> QED
        BY <1>1, <2>1, CallFinal DEF CallBase
<1>2. CASE CallPart
    <2>1. Head(Top.todo).type = Wanted(types, Top)
        BY <1>2 DEF CallPart, TopIs, Wanted, Wrapper
    <2> QED
        BY <1>2, <2>1, CallFinal DEF CallPart
<1> QED
    BY <1>1, <1>2

\* A step keeps the nodes, and the resolved ones as they are.
KeepsResolved ==
    \A n \in DOMAIN types : /\ n \in DOMAIN types'
                            /\ KindOf(n) \notin Unresolved => types'[n] = types[n]

\* The activation on top is at work on a name that is still open.
LEMMA TopOpen ==
    ASSUME IInv, FinalInv, stack # <<>>
    PROVE  IsOpen(types, Top.name) /\ InOrder(types, Top)
<1>1. StackGood(types, stack)
    BY InvParts DEF Parted
<1>2. DOMAIN stack = 1 .. Len(stack) /\ Len(stack) \in Nat \ {0} /\ Top = stack[Len(stack)]
    BY <1>1, TopGood DEF Top
<1>3. Len(stack) \in DOMAIN stack
    BY <1>2
<1> QED
    BY <1>2, <1>3 DEF FinalInv, Unfinished

\* What is put at its name when it ends, and what is returned.
Ends(node) ==
    /\ MayEnd(types, Top) /\ ChangedAt(types, types', Top.name)
    /\ IsFound(types', Top.name) /\ node = Target(types', Top.name)
    /\ Top.kind \in {"struct", "variant"} => node = Top.name

\* The activation on top ends.
LEMMA FinishFinal ==
    ASSUME IInv, FinalInv, stack # <<>>, call = NoCall, NEW node, Finish(types', node), Ends(node)
    PROVE  FinalInv' /\ KeepsResolved
<1>1. /\ stack' = Front(stack) /\ ret' = node /\ call' = NoCall
    BY DEF Finish, Return
<1>2. StackGood(types, stack) /\ \A k \in DOMAIN stack : k < Len(stack) => Awaits(stack[k])
    BY InvParts DEF Parted, CallersAwait
<1>3. /\ MayEnd(types, Last(stack)) /\ ChangedAt(types, types', Last(stack).name)
      /\ IsFound(types', Last(stack).name) /\ node = Target(types', Last(stack).name)
      /\ Last(stack).kind \in {"struct", "variant"} => node = Last(stack).name
    BY DEF Ends, Top
<1>4. /\ Unfinished(types', Front(stack))
      /\ Front(stack) # <<>> =>
             LET w == Wanted(types', Last(Front(stack))) IN
             IsFound(types', w) /\ node = Target(types', w)
    BY <1>2, <1>3, PopUnfinished DEF FinalInv
<1>5. FinalInv'
    BY <1>1, <1>4 DEF FinalInv, CallServes, ReturnServes, Top
<1>6. KeepsResolved
    <2>1. IsOpen(types, Top.name) /\ ChangedAt(types, types', Top.name)
        BY TopOpen DEF Ends
    <2> QED
        BY <2>1 DEF KeepsResolved, IsOpen, ChangedAt, KindOf
<1> QED
    BY <1>5, <1>6

\* A step that leaves the map alone keeps everything.
LEMMA SameMap ==
    ASSUME types' = types
    PROVE  KeepsResolved
BY DEF KeepsResolved

\* An exception leaves no activation, and the map as it is.
LEMMA ThrowFinal ==
    ASSUME NEW e, Throw(e)
    PROVE  FinalInv' /\ KeepsResolved
BY QuietFinal, SameMap DEF Throw

\* A wrapper is made under a name that is not in the map.
LEMMA EndOfWrapperEnds ==
    ASSUME IInv, FinalInv, EndOfWrapper, MayWrap(Top.kind, KindOf(ret))
    PROVE  /\ Finish(types', Top.name) /\ Ends(Top.name)
           /\ Top.name \notin DOMAIN types /\ types'[Top.name] = MakeNode(Top.kind, ret, <<>>)
<1> DEFINE node == MakeNode(Top.kind, ret, <<>>)
<1>1. /\ stack # <<>> /\ call = NoCall /\ Top.kind \in Wrapper /\ ret # NoName
      /\ Finish(types', Top.name) /\ types' = Emplace(Top.name, node)
    BY DEF EndOfWrapper, TopIs, Finish
<1>2. /\ DOMAIN types \subseteq Name /\ types \in [DOMAIN types -> Node]
      /\ Top \in Activation /\ WorksOn(types, Top) /\ ret \in Name
    BY <1>1, ReturnedFacts
<1>3. node \in Node /\ node.kind = Top.kind /\ Top.name \in Name
    BY <1>1, <1>2, NoParts DEF MakeNode, Node, Kind, Activation
<1> HIDE DEF node
<1>4. Top.name \notin DOMAIN types
    BY <1>1, <1>2, TopOpen DEF WorksOn, IsOpen, Wrapper, Unresolved
<1>5. /\ DOMAIN types' = DOMAIN types \cup {Top.name}
      /\ \A m \in DOMAIN types : types'[m] = types[m]
      /\ types'[Top.name] = node
    BY <1>1, <1>2, <1>3, <1>4, EmplaceFacts
<1>6. ChangedAt(types, types', Top.name)
    BY <1>5 DEF ChangedAt
<1>7. IsFound(types', Top.name) /\ Target(types', Top.name) = Top.name
    BY <1>1, <1>3, <1>5 DEF IsFound, Target, Wrapper
<1>8. MayEnd(types, Top)
    BY <1>1 DEF MayEnd, FinalInv, ReturnServes, Wrapper
<1>9. Ends(Top.name)
    BY <1>6, <1>7, <1>8 DEF Ends
<1> QED
    BY <1>1, <1>4, <1>5, <1>9 DEF node

\* Then FinalInv holds on.
LEMMA EndOfWrapperFinal ==
    ASSUME IInv, FinalInv, EndOfWrapper
    PROVE  FinalInv' /\ KeepsResolved
<1>1. stack # <<>> /\ call = NoCall
    BY DEF EndOfWrapper, TopIs
<1>2. CASE ~MayWrap(Top.kind, KindOf(ret))
    BY <1>2, ThrowFinal DEF EndOfWrapper
<1>3. CASE MayWrap(Top.kind, KindOf(ret))
    BY <1>1, <1>3, EndOfWrapperEnds, FinishFinal
<1> QED
    BY <1>2, <1>3

\* The node that an alias, a struct or a variant becomes.
LEMMA BecomeIs ==
    ASSUME DOMAIN types \subseteq Name, types \in [DOMAIN types -> Node],
           NEW n \in DOMAIN types, NEW kind, NEW of, NEW parts, types' = Become(n, kind, of, parts)
    PROVE  types'[n] = MakeNode(kind, of, parts)
BY DEF Become

\* An alias gets its target while it is still unresolved.
LEMMA EndOfAliasEnds ==
    ASSUME IInv, FinalInv, EndOfAlias, KindOf(ret) # "extension"
    PROVE  /\ Finish(types', ret) /\ Ends(ret)
           /\ types'[Top.name] = MakeNode("alias", ret, <<>>)
<1>1. stack # <<>> /\ call = NoCall /\ Top.kind = "alias" /\ ret # NoName
    BY DEF EndOfAlias, TopIs
<1>2. /\ DOMAIN types \subseteq Name /\ types \in [DOMAIN types -> Node]
      /\ Top \in Activation /\ WorksOn(types, Top) /\ ret \in Name
    BY <1>1, ReturnedFacts
<1>3. Finish(types', ret) /\ types' = Become(Top.name, "alias", ret, <<>>)
    BY DEF EndOfAlias, Finish
<1>4. /\ Top.name \in DOMAIN types /\ Later(types[Top.name].kind, "alias")
      /\ "alias" \in Kind
    BY <1>1, <1>2 DEF WorksOn, Wrapper, Later, Kind
<1>5. /\ DOMAIN types' = DOMAIN types
      /\ \A m \in DOMAIN types : m # Top.name => types'[m] = types[m]
      /\ types'[Top.name].kind = "alias" /\ types'[Top.name].of = ret
    BY <1>2, <1>3, <1>4, NoParts, BecomeFacts, ZenonT(60)
<1>6. types'[Top.name] = MakeNode("alias", ret, <<>>)
    BY <1>2, <1>3, <1>4, BecomeIs, ZenonT(60)
<1>7. ChangedAt(types, types', Top.name)
    BY <1>4, <1>5 DEF ChangedAt
<1>8. IsFound(types', Top.name) /\ Target(types', Top.name) = ret
    BY <1>4, <1>5 DEF IsFound, Target
<1>9. MayEnd(types, Top)
    BY <1>1 DEF MayEnd, FinalInv, ReturnServes
<1>10. Ends(ret)
    BY <1>1, <1>7, <1>8, <1>9 DEF Ends
<1> QED
    BY <1>3, <1>6, <1>10

\* Then FinalInv holds on.
LEMMA EndOfAliasFinal ==
    ASSUME IInv, FinalInv, EndOfAlias
    PROVE  FinalInv' /\ KeepsResolved
<1>1. stack # <<>> /\ call = NoCall
    BY DEF EndOfAlias, TopIs
<1>2. CASE KindOf(ret) = "extension"
    BY <1>2, ThrowFinal DEF EndOfAlias
<1>3. CASE KindOf(ret) # "extension"
    BY <1>1, <1>3, EndOfAliasEnds, FinishFinal
<1> QED
    BY <1>2, <1>3

\* A struct or a variant gets its parts while it is still unresolved.
LEMMA EndOfPartsEnds ==
    ASSUME IInv, FinalInv, EndOfParts
    PROVE  /\ Finish(types', Top.name) /\ Ends(Top.name)
           /\ types'[Top.name] = MakeNode(Top.kind, "", Top.parts)
<1> DEFINE n == Top.name
           kind == Top.kind
           parts == Top.parts
<1>1. /\ stack # <<>> /\ call = NoCall /\ kind \in {"struct", "variant"}
    BY DEF EndOfParts, TopIs
<1>2. Finish(types', n) /\ types' = Become(n, kind, "", parts) /\ MayEnd(types, Top)
    BY DEF EndOfParts, TopIs, Finish, MayEnd
<1>3. /\ DOMAIN types \subseteq Name /\ types \in [DOMAIN types -> Node]
      /\ Top \in Activation /\ WorksOn(types, Top)
    BY <1>1, ReturnedFacts
<1>4. /\ n \in DOMAIN types /\ Later(types[n].kind, kind) /\ kind \in Kind
    BY <1>1, <1>3 DEF WorksOn, Wrapper, Later, Kind
<1>5. parts \in Seq(Part) /\ "" \in Name
    BY <1>3, NameFacts DEF Activation
<1>6. n = Top.name
    OBVIOUS
<1> HIDE DEF n, kind, parts
<1>7. /\ DOMAIN types' = DOMAIN types
      /\ \A m \in DOMAIN types : m # n => types'[m] = types[m]
      /\ types'[n].kind = kind
    BY <1>2, <1>3, <1>4, <1>5, BecomeFacts
<1>8. ChangedAt(types, types', n)
    BY <1>4, <1>7 DEF ChangedAt
<1>9. IsFound(types', n) /\ Target(types', n) = n
    BY <1>1, <1>4, <1>7 DEF IsFound, Target
<1>10. Ends(n)
    BY <1>2, <1>6, <1>8, <1>9 DEF Ends
<1>11. types'[n] = MakeNode(kind, "", parts)
    BY <1>2, <1>3, <1>4, BecomeIs
<1> QED
    BY <1>2, <1>10, <1>11 DEF n, kind, parts

\* Then FinalInv holds on.
LEMMA EndOfPartsFinal ==
    ASSUME IInv, FinalInv, EndOfParts
    PROVE  FinalInv' /\ KeepsResolved
<1>1. stack # <<>> /\ call = NoCall
    BY DEF EndOfParts, TopIs
<1> QED
    BY <1>1, EndOfPartsEnds, FinishFinal

\* The activation on top goes on with the rest of its parts.
LEMMA ReplaceFinal ==
    ASSUME IInv, FinalInv, stack # <<>>, call = NoCall, ret # NoName,
           NEW todo \in Seq(Part), NEW parts \in Seq(Part),
           stack' = WithTop(todo, parts), ret' = NoName, UNCHANGED <<types, call>>,
           \A f \in Activation : f = Frame(Top.kind, Top.name, Top.depth, "", todo, parts)
                                     => Advances(types, Top, f)
    PROVE  FinalInv'
<1> DEFINE f == Frame(Top.kind, Top.name, Top.depth, "", todo, parts)
<1>1. StackGood(types, stack) /\ Top \in Activation /\ \A k \in DOMAIN stack : Awaits(stack[k])
    BY ReturnedFacts DEF Parted
<1>2. f \in Activation
    <2>1. "" \in Name
        BY NameFacts
    <2> QED
        BY <1>1, <2>1 DEF Frame, Activation
<1>3. stack' = [stack EXCEPT ![Len(stack)] = f]
    BY DEF WithTop
<1>4. Advances(types, Last(stack), f)
    BY <1>2 DEF Top
<1> HIDE DEF f
<1>5. Unfinished(types, [stack EXCEPT ![Len(stack)] = f])
    BY <1>1, <1>2, <1>4, ReplaceUnfinished DEF FinalInv
<1> QED
    BY <1>3, <1>5 DEF FinalInv, CallServes, ReturnServes

\* What has come back is what the activation on top waits for.
LEMMA ReturnIsWanted ==
    ASSUME FinalInv, stack # <<>>, ret # NoName
    PROVE  IsFound(types, Wanted(types, Top)) /\ ret = Target(types, Wanted(types, Top))
BY DEF FinalInv, ReturnServes

\* The parts that are left once the first one is done are still the last ones.
LEMMA TailInOrder ==
    ASSUME NEW s \in Seq(Part), NEW own \in Seq(Part), s # <<>>, Len(s) <= Len(own),
           \A i \in 1 .. Len(s) : s[i] = own[i + (Len(own) - Len(s))]
    PROVE  /\ Tail(s) \in Seq(Part) /\ Len(s) = Len(Tail(s)) + 1 /\ Len(Tail(s)) \in Nat
           /\ Len(Tail(s)) <= Len(own)
           /\ \A i \in 1 .. Len(Tail(s)) : Tail(s)[i] = own[i + (Len(own) - Len(Tail(s)))]
<1> DEFINE m == Len(s)
           l == Len(own)
           r == Len(Tail(s))
<1>1. Tail(s) \in Seq(Part) /\ r = m - 1 /\ \A i \in 1 .. r : Tail(s)[i] = s[i + 1]
    BY HeadTailProperties
<1>2. m \in Nat /\ l \in Nat /\ m # 0 /\ m <= l
    BY LenProperties, EmptySeq
<1>3. \A i \in 1 .. m : s[i] = own[i + (l - m)]
    OBVIOUS
<1> HIDE DEF m, l, r
<1>4. r \in Nat /\ m = r + 1 /\ r <= l
    BY <1>1, <1>2
<1>5. ASSUME NEW i \in 1 .. r
      PROVE  Tail(s)[i] = own[i + (l - r)]
    <2>1. i + 1 \in 1 .. m /\ (i + 1) + (l - m) = i + (l - r)
        BY <1>2, <1>4
    <2>2. s[i + 1] = own[(i + 1) + (l - m)]
        BY <1>3, <2>1
    <2> QED
        BY <1>1, <2>1, <2>2
<1> QED
    BY <1>1, <1>4, <1>5 DEF m, l, r

\* A part has come back.
LEMMA TakePartFinal ==
    ASSUME IInv, FinalInv, TakePart
    PROVE  FinalInv' /\ KeepsResolved
<1>1. /\ stack # <<>> /\ call = NoCall /\ Top.kind \in {"struct", "variant"}
      /\ Top.base = "" /\ ret # NoName
      /\ stack' = WithTop(Tail(Top.todo), WithPart) /\ ret' = NoName
      /\ UNCHANGED <<types, call>>
    BY DEF TakePart, TopIs
<1>2. /\ Top \in Activation /\ Awaits(Top) /\ ret \in Name /\ WorksOn(types, Top)
    BY <1>1, ReturnedFacts
<1> DEFINE todo == Top.todo
           own == types[Top.name].parts
<1>3. todo \in Seq(Part) /\ Top.parts \in Seq(Part) /\ todo # <<>>
    BY <1>1, <1>2 DEF Activation, Awaits
<1>4. own \in Seq(Part)
    BY <1>1, <1>2, NodeFacts DEF WorksOn, Wrapper
<1>5. /\ Len(todo) <= Len(own)
      /\ \A i \in 1 .. Len(todo) : todo[i] = own[i + (Len(own) - Len(todo))]
    BY <1>1, TopOpen DEF InOrder
<1> HIDE DEF own
<1>6. /\ Tail(todo) \in Seq(Part) /\ Len(todo) = Len(Tail(todo)) + 1
      /\ Len(Tail(todo)) <= Len(own)
      /\ \A i \in 1 .. Len(Tail(todo)) : Tail(todo)[i] = own[i + (Len(own) - Len(Tail(todo)))]
    BY <1>3, <1>4, <1>5, TailInOrder
<1>7. WithPart \in Seq(Part)
    <2>1. Head(todo) \in Part
        BY <1>3, HeadTailProperties
    <2>2. [name |-> Head(todo).name, type |-> ret] \in Part
        BY <1>2, <2>1 DEF Part
    <2> QED
        BY <1>3, <2>2, AppendProperties DEF WithPart
<1>8. ASSUME NEW f \in Activation, NEW rest, rest = Tail(todo), NEW parts,
             f = Frame(Top.kind, Top.name, Top.depth, "", rest, parts)
      PROVE  Advances(types, Top, f)
    <2>1. /\ f.kind = Top.kind /\ f.name = Top.name /\ f.base = "" /\ f.todo = rest
        BY <1>8 DEF Frame
    <2>2. InOrder(types, f)
        BY <1>1, <1>6, <1>8, <2>1 DEF InOrder, own
    <2>3. Remaining(f) = Len(rest) /\ Remaining(Top) = Len(todo)
        BY <1>1, <2>1 DEF Remaining
    <2>4. Remaining(Top) = Remaining(f) + 1
        BY <1>6, <1>8, <2>3
    <2> QED
        BY <1>1, <2>1, <2>2, <2>4, ReturnIsWanted DEF Advances
<1>9. FinalInv'
    <2> DEFINE rest == Tail(todo)
    <2>1. rest \in Seq(Part) /\ stack' = WithTop(rest, WithPart)
        BY <1>1, <1>6
    <2>2. ASSUME NEW f \in Activation,
                 f = Frame(Top.kind, Top.name, Top.depth, "", rest, WithPart)
          PROVE  Advances(types, Top, f)
        BY <1>8, <2>2
    <2> HIDE DEF rest
    <2> QED
        BY <1>1, <1>7, <2>1, <2>2, ReplaceFinal
<1> QED
    BY <1>1, <1>9, SameMap

\* A base has come back.
LEMMA BaseFinal ==
    ASSUME IInv, FinalInv, Base
    PROVE  FinalInv' /\ KeepsResolved
<1>1. /\ stack # <<>> /\ call = NoCall /\ Top.kind = "struct" /\ Top.base # "" /\ ret # NoName
    BY DEF Base, TopIs
<1>2. /\ Top \in Activation /\ Top.depth + 1 = Len(stack) /\ ret \in DOMAIN types
    BY <1>1, ReturnedFacts
<1>3. /\ Wanted(types, Top) = Top.base
      /\ IsFound(types, Top.base) /\ ret = Target(types, Top.base)
    <2>1. Wanted(types, Top) = Top.base
        BY <1>1 DEF Wanted, Wrapper
    <2> QED
        BY <1>1, <2>1, ReturnIsWanted
<1>4. CASE KindOf(ret) = "struct_def"
    <2>1. ResolveParts("struct", ret, Len(stack))
        BY <1>2, <1>4 DEF Base
    <2>2. WaitsFor(ret)
        BY <1>1, <1>3 DEF WaitsFor
    <2>3. FinalInv'
        BY <1>2, <1>4, <2>1, <2>2, ResolvePartsFinal
    <2>4. types' = types
        BY <2>1 DEF ResolveParts, Throw
    <2> QED
        BY <2>3, <2>4, SameMap
<1>5. CASE KindOf(ret) \notin {"struct_def", "struct"}
    BY <1>5, ThrowFinal DEF Base
<1>6. CASE KindOf(ret) = "struct"
    <2>1. /\ stack' = WithTop(Top.todo, types[ret].parts) /\ ret' = NoName
          /\ UNCHANGED <<types, call>>
        BY <1>6 DEF Base
    <2>2. types[ret].parts \in Seq(Part) /\ Top.todo \in Seq(Part)
        BY <1>2, NodeFacts DEF Activation
    <2>3. Len(Top.todo) \in Nat
        BY <2>2, LenProperties
    <2>4. ASSUME NEW f \in Activation, NEW parts,
                 f = Frame(Top.kind, Top.name, Top.depth, "", Top.todo, parts)
          PROVE  Advances(types, Top, f)
        <3>1. /\ f.kind = Top.kind /\ f.name = Top.name /\ f.base = "" /\ f.todo = Top.todo
            BY <2>4 DEF Frame
        <3>2. InOrder(types, Top)
            BY <1>1, TopOpen
        <3>3. InOrder(types, f)
            BY <1>1, <3>1, <3>2 DEF InOrder
        <3>4. Remaining(f) = Len(Top.todo) /\ Remaining(Top) = Len(Top.todo) + 1
            BY <1>1, <3>1 DEF Remaining
        <3>5. Remaining(Top) = Remaining(f) + 1
            BY <2>3, <3>4
        <3>6. types[Target(types, Wanted(types, Top))].kind \notin Unresolved
            BY <1>3, <1>6 DEF KindOf, Unresolved
        <3> QED
            BY <1>3, <3>1, <3>3, <3>5, <3>6 DEF Advances
    <2>5. FinalInv'
        BY <1>1, <2>1, <2>2, <2>4, ReplaceFinal
    <2> QED
        BY <2>1, <2>5, SameMap
<1> QED
    BY <1>4, <1>5, <1>6

\* Definitions are entered under names that are not in the map.
LEMMA DeclareKeeps ==
    ASSUME IInv, Declare
    PROVE  FinalInv' /\ KeepsResolved
<1>1. stack = <<>> /\ DOMAIN types \subseteq Name /\ types \in [DOMAIN types -> Node]
    BY QuietFacts DEF Declare
<1>2. CASE \E e \in {"missing_name", "redefined_type"} : Throw(e)
    BY <1>2, ThrowFinal
<1>3. CASE \E n \in DOMAIN def : /\ def[n].name \notin DOMAIN types
                                 /\ Enter(Emplace(def[n].name, MakeNode(def[n].kind, def[n].of,
                                                                        def[n].parts)))
    <2>1. PICK n \in DOMAIN def :
              /\ def[n].name \notin DOMAIN types
              /\ Enter(Emplace(def[n].name, MakeNode(def[n].kind, def[n].of, def[n].parts)))
        BY <1>3
    <2>2. /\ stack' = <<>>
          /\ \A m \in DOMAIN types : m \in DOMAIN types' /\ types'[m] = types[m]
        BY <1>1, <2>1 DEF Enter, Emplace, machine
    <2> QED
        BY <2>2, QuietFinal DEF KeepsResolved
<1> QED
    BY <1>2, <1>3 DEF Declare

\* The invariant, and what every step keeps of the map.
LEMMA NextFinal ==
    ASSUME IInv, FinalInv, [Next]_vars
    PROVE  FinalInv' /\ (phase # "idle" => KeepsResolved)
<1>1. CASE Convert
    BY <1>1, QuietFacts, QuietFinal DEF Convert, machine
<1>2. CASE Query
    <2>1. stack = <<>>
        BY <1>2, InvParts DEF Query, Parted, PhaseShape, Idle
    <2> QED
        BY <1>2, <2>1, QuietFinal, SameMap DEF Query
<1>3. CASE Declare \/ EndOfDefinitions
    <2>1. CASE Declare
        BY <2>1, DeclareKeeps
    <2>2. CASE EndOfDefinitions
        BY <2>2, QuietFacts, QuietFinal, SameMap DEF EndOfDefinitions, machine
    <2> QED
        BY <1>3, <2>1, <2>2
<1>4. CASE Fill
    <2>1. types' = types
        BY <1>4 DEF Fill, ResolveAlias, ResolveParts, Throw
    <2> QED
        BY <1>4, <2>1, FillFinal, SameMap
<1>5. CASE EndOfFill \/ Answer
    BY <1>5, QuietFinal, SameMap DEF EndOfFill, Answer, Idle, machine
<1>6. CASE GetType
    <2>1. types' = types
        BY <1>6 DEF GetType, Found, Missing, ResolveAlias, Throw
    <2> QED
        BY <1>6, <2>1, GetTypeFinal, SameMap
<1>7. CASE EndOfWrapper \/ EndOfAlias \/ EndOfParts
    BY <1>7, EndOfWrapperFinal, EndOfAliasFinal, EndOfPartsFinal
<1>8. CASE CallBase \/ CallPart
    BY <1>8, CallsFinal, SameMap DEF CallBase, CallPart
<1>9. CASE Base \/ TakePart
    BY <1>9, BaseFinal, TakePartFinal
<1>10. CASE Failed \/ UNCHANGED vars
    BY <1>10, SameMap DEF Failed, vars, FinalInv, CallServes, ReturnServes, Top
<1> QED
    BY <1>1, <1>2, <1>3, <1>4, <1>5, <1>6, <1>7, <1>8, <1>9, <1>10 DEF Next, Step

\* At first there are no activations.
LEMMA InitFinal == Init => FinalInv
<1> SUFFICES ASSUME Init PROVE FinalInv
    OBVIOUS
<1>1. stack = <<>>
    BY DEF Init
<1>2. DOMAIN stack = {}
    BY <1>1, EmptySeq
<1> QED
    BY <1>1, <1>2 DEF FinalInv, Unfinished, CallServes, ReturnServes

\* An activation only ever ends at a name that is still open: a node that is
\* resolved keeps its value and its place (abi.cpp:77-82, 93-96, 134-137).
THEOREM ResolvedStaysFinal == Spec => ResolvedIsFinal
<1>1. Init => FinalInv
    BY InitFinal
<1>2. IInv /\ FinalInv /\ [Next]_vars => FinalInv'
    BY NextFinal
<1>3. IInv /\ FinalInv /\ [Next]_vars =>
         [phase # "idle" =>
            \A n \in DOMAIN types : /\ n \in DOMAIN types'
                                    /\ KindOf(n) \notin Unresolved => types'[n] = types[n]]_vars
    BY NextFinal DEF KeepsResolved
<1> QED
    BY <1>1, <1>2, <1>3, Invariance, PTL DEF Spec, ResolvedIsFinal

-----------------------------------------------------------------------------
(* What a definition means, level by level.                                *)

\* What has a definition.
LEMMA DefinesFacts ==
    ASSUME NEW d \in Seq(Definition), NEW n, n \in Meaning!Declared(d)
    PROVE  /\ Meaning!Defines(d, n) \in Definition /\ Meaning!Defines(d, n).name = n
           /\ n \in Name
           /\ \E i \in DOMAIN d : Meaning!Defines(d, n) = d[i]
<1> DEFINE i == CHOOSE i \in DOMAIN d : d[i].name = n
<1>1. \E j \in DOMAIN d : d[j].name = n
    BY DEF Meaning!Declared
<1>2. i \in DOMAIN d /\ d[i].name = n
    BY <1>1
<1>3. Meaning!Defines(d, n) = d[i]
    BY DEF Meaning!Defines
<1> HIDE DEF i
<1>4. d[i] \in Definition
    BY <1>2, ElementOfSeq, LenProperties
<1> QED
    BY <1>2, <1>3, <1>4 DEF Definition

\* Operators of AbiNames that AbiMeaning has too.
LEMMA SameNames ==
    /\ Meaning!Prefilled = Prefilled /\ Meaning!NoName = NoName /\ Meaning!Part = Part
    /\ \A k, of, parts : Meaning!MakeNode(k, of, parts) = MakeNode(k, of, parts)
    /\ \A w, k : Meaning!MayWrap(w, k) <=> MayWrap(w, k)
BY DEF Meaning!Prefilled, Prefilled, Meaning!MakeNode, MakeNode, Meaning!NoName, NoName, Meaning!MayWrap, MayWrap, Meaning!Part, Part

\* A level of StandsFor, and one of AllParts.
NamesSet == [Name -> Name \cup {NoName}]
FieldsSet == [Name -> Seq(Part) \cup {Meaning!NoParts}]

\* NoParts is told from every list of parts.
LEMMA NoPartsApart == Meaning!NoParts \notin Seq(Part)
<1>1. NoName \notin Name
    BY NameFacts
<1> SUFFICES ASSUME Meaning!NoParts \in Seq(Part) PROVE FALSE
    OBVIOUS
<1>2. 1 \in DOMAIN Meaning!NoParts /\ Meaning!NoParts[1].type = NoName
    BY DEF Meaning!NoParts, Meaning!NoName, NoName
<1>3. Meaning!NoParts[1] \in Part
    BY <1>2, ElementOfSeq, LenProperties
<1> QED
    BY <1>1, <1>2, <1>3 DEF Part

\* A name stands for a name, if for anything.
LEMMA StandsType ==
    ASSUME NEW d \in Seq(Definition), NEW names \in NamesSet, NEW n \in Name
    PROVE  Meaning!StandsIn(d, names, n) \in Name \cup {NoName}
<1>1. Suffix \in [Name -> Wrapper \cup {"none"}] /\ Stem \in [Name -> Name]
    BY NameAssumption
<1>2. n \in Meaning!Declared(d) => Meaning!Defines(d, n).of \in Name
    BY DefinesFacts DEF Definition
<1> QED
    BY <1>1, <1>2, SameNames DEF Meaning!StandsIn, NamesSet

\* StandsFor can be built level by level, each out of the one below it.
LEMMA NamesExist ==
    ASSUME NEW lowest \in NamesSet, NEW step \in [Nat -> [NamesSet -> NamesSet]]
    PROVE  \E f \in [Nat -> NamesSet] :
               \A k \in Nat : f[k] = IF k = 0 THEN lowest ELSE step[k][f[k - 1]]
BY LevelsExist

\* What StandsFor is: nothing at level 0, one step of StandsIn from each level to the next.
LEMMA NamesFacts ==
    ASSUME NEW d \in Seq(Definition)
    PROVE  /\ \A k \in Nat : NamesAt(d, k) \in NamesSet
           /\ \A n \in Name : NamesAt(d, 0)[n] = NoName
           /\ \A k \in Nat : \A n \in Name :
                  NamesAt(d, k + 1)[n] = Meaning!StandsIn(d, NamesAt(d, k), n)
<1> DEFINE lowest == [n \in Name |-> NoName]
           step == [k \in Nat |-> [names \in NamesSet |->
                       [n \in Name |-> Meaning!StandsIn(d, names, n)]]]
           F == Meaning!StandsFor(d)
<1>1. lowest \in NamesSet /\ step \in [Nat -> [NamesSet -> NamesSet]]
    BY StandsType DEF NamesSet
<1>2. PICK f \in [Nat -> NamesSet] :
              \A k \in Nat : f[k] = IF k = 0 THEN lowest ELSE step[k][f[k - 1]]
    <2> HIDE DEF lowest, step
    <2> QED
        BY <1>1, NamesExist
<1>3. f = [k \in Nat |-> IF k = 0 THEN [n \in Name |-> NoName]
                         ELSE [n \in Name |-> Meaning!StandsIn(d, f[k - 1], n)]]
    <2>1. ASSUME NEW k \in Nat
          PROVE  f[k] = IF k = 0 THEN [n \in Name |-> NoName]
                        ELSE [n \in Name |-> Meaning!StandsIn(d, f[k - 1], n)]
        <3>1. CASE k = 0
            BY <1>2, <3>1
        <3>2. CASE k # 0
            <4>1. f[k - 1] \in NamesSet
                BY <3>2
            <4>2. step[k][f[k - 1]] = [n \in Name |-> Meaning!StandsIn(d, f[k - 1], n)]
                BY <4>1
            <4> HIDE DEF step, lowest
            <4> QED
                BY <1>2, <3>2, <4>2
        <3> QED
            BY <3>1, <3>2
    <2>2. f = [k \in Nat |-> f[k]]
        OBVIOUS
    <2> QED
        BY <2>1, <2>2
<1>4. F = [k \in Nat |-> IF k = 0 THEN [n \in Name |-> NoName]
                         ELSE [n \in Name |-> Meaning!StandsIn(d, F[k - 1], n)]]
    BY <1>3 DEF Meaning!StandsFor, Meaning!NoName, NoName
<1> HIDE DEF F
<1>5. F[0] = [n \in Name |-> NoName]
    BY <1>4
<1>6. ASSUME NEW k \in Nat
      PROVE  F[k + 1] = [n \in Name |-> Meaning!StandsIn(d, F[k], n)]
    <2>1. \A j \in Nat : j # 0 => F[j] = [n \in Name |-> Meaning!StandsIn(d, F[j - 1], n)]
        BY <1>4
    <2>2. PICK j \in Nat : j = k + 1 /\ j # 0 /\ j - 1 = k
        OBVIOUS
    <2>3. F[j] = [n \in Name |-> Meaning!StandsIn(d, F[j - 1], n)]
        BY <2>1, <2>2
    <2> QED
        BY <2>2, <2>3
<1>7. \A k \in Nat : F[k] \in NamesSet
    <2> DEFINE T == {k \in Nat : F[k] \in NamesSet}
    <2>1. 0 \in T
        BY <1>5 DEF NamesSet
    <2>2. ASSUME NEW k \in Nat, k \in T
          PROVE  k + 1 \in T
        <3>1. \A n \in Name : Meaning!StandsIn(d, F[k], n) \in Name \cup {NoName}
            BY <2>2, StandsType
        <3>2. F[k + 1] \in NamesSet
            BY <1>6, <3>1 DEF NamesSet
        <3> QED
            BY <3>2
    <2> HIDE DEF T
    <2>3. Nat \subseteq T
        BY <2>1, <2>2, NatInduct
    <2> QED
        BY <2>3 DEF T
<1> QED
    BY <1>5, <1>6, <1>7 DEF F, NamesAt

\* The parts of a definition are a list of parts, if they all stand for something.
LEMMA OwnPartsType ==
    ASSUME NEW d \in Seq(Definition), NEW names \in NamesSet, NEW n, n \in Meaning!Declared(d)
    PROVE  /\ Meaning!OwnParts(d, names, n) \in Seq(Part) \cup {Meaning!NoParts}
           /\ Meaning!OwnParts(d, names, n) # Meaning!NoParts =>
                  LET parts == Meaning!Defines(d, n).parts IN
                  /\ \A i \in 1 .. Len(parts) : names[parts[i].type] # NoName
                  /\ Meaning!OwnParts(d, names, n) =
                         [i \in 1 .. Len(parts) |->
                             [name |-> parts[i].name, type |-> names[parts[i].type]]]
<1> DEFINE parts == Meaning!Defines(d, n).parts
           own == [i \in 1 .. Len(parts) |->
                      [name |-> parts[i].name, type |-> names[parts[i].type]]]
<1>1. parts \in Seq(Part)
    BY DefinesFacts DEF Definition
<1> HIDE DEF parts
<1>2. DOMAIN parts = 1 .. Len(parts) /\ Len(parts) \in Nat /\ \A i \in 1 .. Len(parts) : parts[i] \in Part
    BY <1>1, LenProperties, ElementOfSeq
<1>3. Meaning!OwnParts(d, names, n) =
          IF \E i \in 1 .. Len(parts) : names[parts[i].type] = NoName THEN Meaning!NoParts ELSE own
    BY <1>2, SameNames DEF Meaning!OwnParts, parts
<1>4. ASSUME \A i \in 1 .. Len(parts) : names[parts[i].type] # NoName
      PROVE  own \in Seq(Part)
    <2>1. ASSUME NEW i \in 1 .. Len(parts)
          PROVE  own[i] \in Part
        BY <1>2, <1>4 DEF Part, NamesSet
    <2>2. own \in [1 .. Len(parts) -> Part]
        BY <2>1
    <2> HIDE DEF own
    <2> QED
        BY <1>2, <2>2
<1> HIDE DEF own
<1> QED
    BY <1>3, <1>4 DEF own, parts

\* What is inherited is a list of parts, if it is found.
LEMMA InheritedType ==
    ASSUME NEW d \in Seq(Definition), NEW names \in NamesSet, NEW fields \in FieldsSet,
           NEW n, n \in Meaning!Declared(d)
    PROVE  Meaning!Inherited(d, names, fields, n) \in Seq(Part) \cup {Meaning!NoParts}
<1>1. Meaning!Defines(d, n).of \in Name /\ <<>> \in Seq(Part)
    BY DefinesFacts, NoParts DEF Definition
<1> QED
    BY <1>1, SameNames DEF Meaning!Inherited, NamesSet, FieldsSet

\* A struct is predefined or has a definition.
LEMMA StructDefined ==
    ASSUME NEW d, NEW n \in Name, Meaning!KindIn(d, n) \in {"struct", "variant"},
           n \notin DOMAIN Prefilled
    PROVE  n \in Meaning!Declared(d)
BY NameFacts, SameNames DEF Meaning!KindIn, Wrapper

\* So are all the fields of a struct.
LEMMA PartsType ==
    ASSUME NEW d \in Seq(Definition), NEW names \in NamesSet, NEW fields \in FieldsSet, NEW n \in Name
    PROVE  Meaning!PartsIn(d, names, fields, n) \in Seq(Part) \cup {Meaning!NoParts}
<1> DEFINE own == Meaning!OwnParts(d, names, n)
           inherited == Meaning!Inherited(d, names, fields, n)
<1>1. CASE Meaning!KindIn(d, n) # "struct"
    BY <1>1 DEF Meaning!PartsIn
<1>2. CASE Meaning!KindIn(d, n) = "struct" /\ n \in DOMAIN Prefilled
    <2>1. Prefilled[n].parts \in Seq(Part)
        BY <1>2, PrefilledGood DEF Node
    <2> QED
        BY <1>2, <2>1, SameNames DEF Meaning!PartsIn
<1>3. CASE Meaning!KindIn(d, n) = "struct" /\ n \notin DOMAIN Prefilled
    <2>1. n \in Meaning!Declared(d)
        BY <1>3, StructDefined
    <2>2. /\ own \in Seq(Part) \cup {Meaning!NoParts}
          /\ inherited \in Seq(Part) \cup {Meaning!NoParts}
        BY <2>1, OwnPartsType, InheritedType
    <2>3. Meaning!PartsIn(d, names, fields, n) =
              IF own = Meaning!NoParts \/ inherited = Meaning!NoParts
              THEN Meaning!NoParts ELSE inherited \o own
        BY <1>3, SameNames DEF Meaning!PartsIn
    <2> HIDE DEF own, inherited
    <2>4. CASE own = Meaning!NoParts \/ inherited = Meaning!NoParts
        BY <2>3, <2>4
    <2>5. CASE own \in Seq(Part) /\ inherited \in Seq(Part)
        BY <2>3, <2>5, ConcatProperties
    <2> QED
        BY <2>2, <2>4, <2>5
<1> QED
    BY <1>1, <1>2, <1>3

\* AllParts can be built level by level as well.
LEMMA FieldsExist ==
    ASSUME NEW lowest \in FieldsSet, NEW step \in [Nat -> [FieldsSet -> FieldsSet]]
    PROVE  \E f \in [Nat -> FieldsSet] :
               \A k \in Nat : f[k] = IF k = 0 THEN lowest ELSE step[k][f[k - 1]]
BY LevelsExist

\* What AllParts is: nothing at level 0, one step of PartsIn from each level to the next.
LEMMA FieldsFacts ==
    ASSUME NEW d \in Seq(Definition)
    PROVE  /\ \A k \in Nat : FieldsAt(d, k) \in FieldsSet
           /\ \A n \in Name : FieldsAt(d, 0)[n] = Meaning!NoParts
           /\ \A k \in Nat : \A n \in Name :
                  FieldsAt(d, k + 1)[n] = Meaning!PartsIn(d, NamesAt(d, k), FieldsAt(d, k), n)
<1> DEFINE none == Meaning!NoParts
           lowest == [n \in Name |-> none]
           step == [k \in Nat |-> [fields \in FieldsSet |->
                       IF k = 0 THEN fields
                       ELSE [n \in Name |-> Meaning!PartsIn(d, NamesAt(d, k - 1), fields, n)]]]
           F == Meaning!AllParts(d)
<1>1. lowest \in FieldsSet /\ step \in [Nat -> [FieldsSet -> FieldsSet]]
    <2>1. lowest \in FieldsSet
        BY DEF FieldsSet
    <2>2. ASSUME NEW k \in Nat, k # 0, NEW fields \in FieldsSet
          PROVE  [n \in Name |-> Meaning!PartsIn(d, NamesAt(d, k - 1), fields, n)] \in FieldsSet
        <3>1. NamesAt(d, k - 1) \in NamesSet
            BY <2>2, NamesFacts
        <3>2. \A n \in Name : Meaning!PartsIn(d, NamesAt(d, k - 1), fields, n)
                                  \in Seq(Part) \cup {Meaning!NoParts}
            BY <3>1, PartsType
        <3> QED
            BY <3>2 DEF FieldsSet
    <2> QED
        BY <2>1, <2>2
<1>2. PICK f \in [Nat -> FieldsSet] :
              \A k \in Nat : f[k] = IF k = 0 THEN lowest ELSE step[k][f[k - 1]]
    <2> HIDE DEF lowest, step
    <2> QED
        BY <1>1, FieldsExist
<1>3. f = [k \in Nat |-> IF k = 0 THEN [n \in Name |-> none]
                         ELSE [n \in Name |-> Meaning!PartsIn(d, NamesAt(d, k - 1), f[k - 1], n)]]
    <2>1. ASSUME NEW k \in Nat
          PROVE  f[k] = IF k = 0 THEN [n \in Name |-> none]
                        ELSE [n \in Name |-> Meaning!PartsIn(d, NamesAt(d, k - 1), f[k - 1], n)]
        <3>1. CASE k = 0
            BY <1>2, <3>1
        <3>2. CASE k # 0
            <4>1. f[k - 1] \in FieldsSet
                BY <3>2
            <4>2. step[k][f[k - 1]] =
                      [n \in Name |-> Meaning!PartsIn(d, NamesAt(d, k - 1), f[k - 1], n)]
                BY <3>2, <4>1
            <4> HIDE DEF step, lowest
            <4> QED
                BY <1>2, <3>2, <4>2
        <3> QED
            BY <3>1, <3>2
    <2>2. f = [k \in Nat |-> f[k]]
        OBVIOUS
    <2> QED
        BY <2>1, <2>2
<1>4. F = [k \in Nat |-> IF k = 0 THEN [n \in Name |-> none]
                         ELSE [n \in Name |-> Meaning!PartsIn(d, NamesAt(d, k - 1), F[k - 1], n)]]
    BY <1>3 DEF Meaning!AllParts, NamesAt
<1> HIDE DEF F
<1>5. F[0] = [n \in Name |-> none]
    BY <1>4
<1>6. ASSUME NEW k \in Nat
      PROVE  F[k + 1] = [n \in Name |-> Meaning!PartsIn(d, NamesAt(d, k), F[k], n)]
    <2>1. \A j \in Nat : j # 0 =>
              F[j] = [n \in Name |-> Meaning!PartsIn(d, NamesAt(d, j - 1), F[j - 1], n)]
        BY <1>4
    <2>2. PICK j \in Nat : j = k + 1 /\ j # 0 /\ j - 1 = k
        OBVIOUS
    <2>3. F[j] = [n \in Name |-> Meaning!PartsIn(d, NamesAt(d, j - 1), F[j - 1], n)]
        BY <2>1, <2>2
    <2> QED
        BY <2>2, <2>3
<1>7. \A k \in Nat : F[k] \in FieldsSet
    <2> DEFINE T == {k \in Nat : F[k] \in FieldsSet}
    <2>1. 0 \in T
        BY <1>5 DEF FieldsSet
    <2>2. ASSUME NEW k \in Nat, k \in T
          PROVE  k + 1 \in T
        <3>1. \A n \in Name : Meaning!PartsIn(d, NamesAt(d, k), F[k], n) \in Seq(Part) \cup {none}
            BY <2>2, NamesFacts, PartsType
        <3>2. F[k + 1] \in FieldsSet
            BY <1>6, <3>1 DEF FieldsSet
        <3> QED
            BY <3>2
    <2> HIDE DEF T
    <2>3. Nat \subseteq T
        BY <2>1, <2>2, NatInduct
    <2> QED
        BY <2>3 DEF T
<1> QED
    BY <1>5, <1>6, <1>7 DEF F, FieldsAt

\* What is found with less is found with more.
Below(names, names2) == \A n \in Name : names[n] # NoName => names2[n] = names[n]
FieldsBelow(fields, fields2) ==
    \A n \in Name : fields[n] # Meaning!NoParts => fields2[n] = fields[n]

\* What a name stands for it still stands for when more is known.
LEMMA StandsGrows ==
    ASSUME NEW d \in Seq(Definition), NEW names, NEW names2, Below(names, names2), NEW n \in Name,
           Meaning!StandsIn(d, names, n) # NoName
    PROVE  Meaning!StandsIn(d, names2, n) = Meaning!StandsIn(d, names, n)
<1>1. Stem[n] \in Name /\ (n \in Meaning!Declared(d) => Meaning!Defines(d, n).of \in Name)
    BY NameFacts, DefinesFacts DEF Definition
<1>2. CASE n \in Meaning!Declared(d) /\ Meaning!Defines(d, n).kind = "alias_def"
    <2> DEFINE of == Meaning!Defines(d, n).of
    <2>1. /\ Meaning!StandsIn(d, names, n) =
                 IF names[of] = NoName \/ Meaning!KindIn(d, names[of]) = "extension"
                 THEN NoName ELSE names[of]
          /\ Meaning!StandsIn(d, names2, n) =
                 IF names2[of] = NoName \/ Meaning!KindIn(d, names2[of]) = "extension"
                 THEN NoName ELSE names2[of]
        BY <1>2, SameNames DEF Meaning!StandsIn
    <2>2. of \in Name
        BY <1>1, <1>2
    <2> HIDE DEF of
    <2>3. names2[of] = names[of]
        BY <2>1, <2>2 DEF Below
    <2> QED
        BY <2>1, <2>3
<1>3. CASE /\ ~(n \in Meaning!Declared(d) /\ Meaning!Defines(d, n).kind = "alias_def")
           /\ n \in Meaning!Declared(d) \cup DOMAIN Prefilled
    BY <1>3, SameNames DEF Meaning!StandsIn
<1>4. CASE n \notin Meaning!Declared(d) \cup DOMAIN Prefilled
    <2>1. /\ Meaning!StandsIn(d, names, n) =
                 IF Suffix[n] = "none" THEN NoName
                 ELSE IF names[Stem[n]] # NoName /\ MayWrap(Suffix[n], Meaning!KindIn(d, names[Stem[n]]))
                 THEN n ELSE NoName
          /\ Meaning!StandsIn(d, names2, n) =
                 IF Suffix[n] = "none" THEN NoName
                 ELSE IF names2[Stem[n]] # NoName /\ MayWrap(Suffix[n], Meaning!KindIn(d, names2[Stem[n]]))
                 THEN n ELSE NoName
        BY <1>4, SameNames DEF Meaning!StandsIn
    <2>2. names[Stem[n]] # NoName
        BY <2>1
    <2>3. names2[Stem[n]] = names[Stem[n]]
        BY <1>1, <2>2 DEF Below
    <2> QED
        BY <2>1, <2>3
<1> QED
    BY <1>2, <1>3, <1>4

\* Parts that are found are found again when more is known.
LEMMA OwnPartsGrow ==
    ASSUME NEW d \in Seq(Definition), NEW names \in NamesSet, NEW names2 \in NamesSet,
           Below(names, names2), NEW n, n \in Meaning!Declared(d),
           Meaning!OwnParts(d, names, n) # Meaning!NoParts
    PROVE  Meaning!OwnParts(d, names2, n) = Meaning!OwnParts(d, names, n)
<1> DEFINE parts == Meaning!Defines(d, n).parts
<1>1. parts \in Seq(Part)
    BY DefinesFacts DEF Definition
<1> HIDE DEF parts
<1>2. \A i \in DOMAIN parts : parts[i].type \in Name
    <2>1. DOMAIN parts = 1 .. Len(parts) /\ \A i \in 1 .. Len(parts) : parts[i] \in Part
        BY <1>1, LenProperties, ElementOfSeq
    <2> QED
        BY <2>1 DEF Part
<1>3. /\ Meaning!OwnParts(d, names, n) =
             IF \E i \in DOMAIN parts : names[parts[i].type] = NoName THEN Meaning!NoParts
             ELSE [i \in DOMAIN parts |-> [name |-> parts[i].name, type |-> names[parts[i].type]]]
      /\ Meaning!OwnParts(d, names2, n) =
             IF \E i \in DOMAIN parts : names2[parts[i].type] = NoName THEN Meaning!NoParts
             ELSE [i \in DOMAIN parts |-> [name |-> parts[i].name, type |-> names2[parts[i].type]]]
    BY SameNames DEF Meaning!OwnParts, parts
<1>4. \A i \in DOMAIN parts : names[parts[i].type] # NoName
    BY <1>3
<1>5. \A i \in DOMAIN parts : names2[parts[i].type] = names[parts[i].type]
    BY <1>2, <1>4 DEF Below
<1> QED
    BY <1>3, <1>4, <1>5

\* So are those of the base.
LEMMA InheritedGrows ==
    ASSUME NEW d \in Seq(Definition), NEW names \in NamesSet, NEW names2 \in NamesSet,
           NEW fields, NEW fields2, Below(names, names2), FieldsBelow(fields, fields2),
           NEW n, n \in Meaning!Declared(d),
           Meaning!Inherited(d, names, fields, n) # Meaning!NoParts
    PROVE  Meaning!Inherited(d, names2, fields2, n) = Meaning!Inherited(d, names, fields, n)
<1> DEFINE base == Meaning!Defines(d, n).of
<1>1. base \in Name
    BY DefinesFacts DEF Definition
<1>2. /\ Meaning!Inherited(d, names, fields, n) =
             IF base = "" THEN <<>>
             ELSE IF names[base] = NoName THEN Meaning!NoParts ELSE fields[names[base]]
      /\ Meaning!Inherited(d, names2, fields2, n) =
             IF base = "" THEN <<>>
             ELSE IF names2[base] = NoName THEN Meaning!NoParts ELSE fields2[names2[base]]
    BY SameNames DEF Meaning!Inherited
<1> HIDE DEF base
<1>3. CASE base = ""
    BY <1>2, <1>3
<1>4. CASE base # ""
    <2>1. names[base] # NoName /\ fields[names[base]] # Meaning!NoParts
        BY <1>2, <1>4
    <2>2. names2[base] = names[base] /\ names[base] \in Name
        BY <1>1, <2>1 DEF Below, NamesSet
    <2>3. fields2[names[base]] = fields[names[base]]
        BY <2>1, <2>2 DEF FieldsBelow
    <2> QED
        BY <1>2, <1>4, <2>1, <2>2, <2>3
<1> QED
    BY <1>3, <1>4

\* So are all the fields of a struct.
LEMMA PartsGrow ==
    ASSUME NEW d \in Seq(Definition), NEW names \in NamesSet, NEW names2 \in NamesSet,
           NEW fields, NEW fields2, Below(names, names2), FieldsBelow(fields, fields2),
           NEW n \in Name,
           Meaning!PartsIn(d, names, fields, n) # Meaning!NoParts
    PROVE  Meaning!PartsIn(d, names2, fields2, n) = Meaning!PartsIn(d, names, fields, n)
<1>1. Meaning!KindIn(d, n) = "struct"
    BY DEF Meaning!PartsIn
<1>2. CASE n \in DOMAIN Prefilled
    BY <1>1, <1>2, SameNames DEF Meaning!PartsIn
<1>3. CASE n \notin DOMAIN Prefilled
    <2> DEFINE own(a) == Meaning!OwnParts(d, a, n)
               inherited(a, b) == Meaning!Inherited(d, a, b, n)
    <2>1. n \in Meaning!Declared(d)
        BY <1>1, <1>3, StructDefined
    <2>2. /\ Meaning!PartsIn(d, names, fields, n) =
                 IF own(names) = Meaning!NoParts \/ inherited(names, fields) = Meaning!NoParts
                 THEN Meaning!NoParts ELSE inherited(names, fields) \o own(names)
          /\ Meaning!PartsIn(d, names2, fields2, n) =
                 IF own(names2) = Meaning!NoParts \/ inherited(names2, fields2) = Meaning!NoParts
                 THEN Meaning!NoParts ELSE inherited(names2, fields2) \o own(names2)
        BY <1>1, <1>3, SameNames DEF Meaning!PartsIn
    <2>3. own(names) # Meaning!NoParts /\ inherited(names, fields) # Meaning!NoParts
        BY <2>2
    <2>4. own(names2) = own(names) /\ inherited(names2, fields2) = inherited(names, fields)
        BY <2>1, <2>3, OwnPartsGrow, InheritedGrows
    <2> HIDE DEF own, inherited
    <2> QED
        BY <2>2, <2>4
<1> QED
    BY <1>2, <1>3

\* Each level has what the one below it has.
LEMMA NextLevel ==
    ASSUME NEW d \in Seq(Definition), NEW k \in Nat
    PROVE  /\ Below(NamesAt(d, k), NamesAt(d, k + 1))
           /\ FieldsBelow(FieldsAt(d, k), FieldsAt(d, k + 1))
<1> DEFINE T == {j \in Nat : /\ Below(NamesAt(d, j), NamesAt(d, j + 1))
                             /\ FieldsBelow(FieldsAt(d, j), FieldsAt(d, j + 1))}
<1>1. 0 \in T
    BY NamesFacts, FieldsFacts DEF Below, FieldsBelow
<1>2. ASSUME NEW j \in Nat, j \in T
      PROVE  j + 1 \in T
    <2>1. /\ j + 1 \in Nat
          /\ Below(NamesAt(d, j), NamesAt(d, j + 1))
          /\ FieldsBelow(FieldsAt(d, j), FieldsAt(d, j + 1))
        BY <1>2
    <2>2. /\ NamesAt(d, j) \in NamesSet /\ NamesAt(d, j + 1) \in NamesSet
        BY <2>1, NamesFacts
    <2>3. \A n \in Name : /\ NamesAt(d, j + 1)[n] = Meaning!StandsIn(d, NamesAt(d, j), n)
                          /\ NamesAt(d, (j + 1) + 1)[n] = Meaning!StandsIn(d, NamesAt(d, j + 1), n)
        BY <2>1, NamesFacts
    <2>4. \A n \in Name : /\ FieldsAt(d, j + 1)[n] = Meaning!PartsIn(d, NamesAt(d, j), FieldsAt(d, j), n)
                          /\ FieldsAt(d, (j + 1) + 1)[n] =
                                 Meaning!PartsIn(d, NamesAt(d, j + 1), FieldsAt(d, j + 1), n)
        BY <2>1, FieldsFacts
    <2>5. Below(NamesAt(d, j + 1), NamesAt(d, (j + 1) + 1))
        BY <2>1, <2>3, StandsGrows DEF Below
    <2>6. FieldsBelow(FieldsAt(d, j + 1), FieldsAt(d, (j + 1) + 1))
        <3> SUFFICES ASSUME NEW n \in Name, FieldsAt(d, j + 1)[n] # Meaning!NoParts
                     PROVE  FieldsAt(d, (j + 1) + 1)[n] = FieldsAt(d, j + 1)[n]
            BY DEF FieldsBelow
        <3> QED
            BY <2>1, <2>2, <2>4, PartsGrow
    <2> QED
        BY <2>1, <2>5, <2>6
<1> HIDE DEF T
<1>3. Nat \subseteq T
    BY <1>1, <1>2, NatInduct
<1> QED
    BY <1>3 DEF T

\* A level has what every lower one has.
LEMMA Levels ==
    ASSUME NEW d \in Seq(Definition), NEW j \in Nat, NEW k \in Nat, j <= k
    PROVE  /\ Below(NamesAt(d, j), NamesAt(d, k))
           /\ FieldsBelow(FieldsAt(d, j), FieldsAt(d, k))
<1> DEFINE T == {i \in Nat : j <= i => /\ Below(NamesAt(d, j), NamesAt(d, i))
                                       /\ FieldsBelow(FieldsAt(d, j), FieldsAt(d, i))}
<1>0. Below(NamesAt(d, j), NamesAt(d, j)) /\ FieldsBelow(FieldsAt(d, j), FieldsAt(d, j))
    BY DEF Below, FieldsBelow
<1>1. 0 \in T
    <2>1. j <= 0 => j = 0
        OBVIOUS
    <2> QED
        BY <1>0, <2>1
<1>2. ASSUME NEW i \in Nat, i \in T
      PROVE  i + 1 \in T
    <2> SUFFICES ASSUME j <= i + 1
                 PROVE  /\ Below(NamesAt(d, j), NamesAt(d, i + 1))
                        /\ FieldsBelow(FieldsAt(d, j), FieldsAt(d, i + 1))
        OBVIOUS
    <2>1. CASE j = i + 1
        BY <1>0, <2>1
    <2>2. CASE j <= i
        <3>1. /\ Below(NamesAt(d, j), NamesAt(d, i))
              /\ FieldsBelow(FieldsAt(d, j), FieldsAt(d, i))
            BY <1>2, <2>2
        <3>2. /\ Below(NamesAt(d, i), NamesAt(d, i + 1))
              /\ FieldsBelow(FieldsAt(d, i), FieldsAt(d, i + 1))
            BY NextLevel
        <3> QED
            BY <3>1, <3>2 DEF Below, FieldsBelow
    <2> QED
        BY <2>1, <2>2
<1> HIDE DEF T
<1>3. Nat \subseteq T
    BY <1>1, <1>2, NatInduct
<1> QED
    BY <1>3 DEF T

-----------------------------------------------------------------------------
(* What the map holds is what was defined, or what that means.             *)

\* There are as many names as the map of all has, or fewer.
LEMMA NamesFinite == IsFiniteSet(Name)
<1> DEFINE I == 1 .. Len(MapOrder)
           f == [i \in I |-> MapOrder[i]]
<1>1. IsFiniteSet(I)
    <2>1. Len(MapOrder) \in Nat
        BY NameFacts, LenProperties
    <2> QED
        BY <2>1, FS_Interval
<1>2. f \in Surjection(I, Name)
    BY NameFacts, LenProperties, ElementOfSeq DEF Surjection
<1> QED
    BY <1>1, <1>2, FS_Surjection

\* The nodes that are done are finitely many, at most one for each name.
LEMMA RankFacts ==
    ASSUME NEW map, DOMAIN map \subseteq Name
    PROVE  /\ IsFiniteSet(Done(map)) /\ Rank(map) \in Nat
           /\ Cardinality(Name) \in Nat /\ Rank(map) <= Cardinality(Name)
<1>1. Done(map) \subseteq Name
    BY DEF Done
<1> QED
    BY <1>1, NamesFinite, FS_Subset, FS_CardinalityType DEF Rank

\* When the node under a name is done there is one more.
LEMMA RankStep ==
    ASSUME NEW map, DOMAIN map \subseteq Name, NEW map2, NEW n \in Name, ChangedAt(map, map2, n),
           IsOpen(map, n), map2[n].kind \notin Unresolved
    PROVE  Rank(map2) = Rank(map) + 1
<1>1. Done(map2) = Done(map) \cup {n} /\ n \notin Done(map)
    BY DEF Done, ChangedAt, IsOpen
<1> QED
    BY <1>1, RankFacts, FS_AddElement DEF Rank

\* What is predefined.
LEMMA PrefilledKinds == \A n \in DOMAIN Prefilled : Prefilled[n].kind \in {"builtin", "struct"}
BY DEF Prefilled, MakeNode

\* The node that a definition describes, in the terms of this module.
LEMMA NodeForIs ==
    ASSUME NEW d, NEW k, NEW n
    PROVE  Meaning!NodeFor(d, k, n) =
               IF Meaning!KindIn(d, n) = "alias" THEN MakeNode("alias", NamesAt(d, k)[n], <<>>)
               ELSE IF Meaning!KindIn(d, n) = "struct" THEN MakeNode("struct", "", FieldsAt(d, k)[n])
               ELSE MakeNode("variant", "", Meaning!OwnParts(d, NamesAt(d, k - 1), n))
BY SameNames DEF Meaning!NodeFor, NamesAt, FieldsAt

\* A definition describes a node of the kind that it makes.
LEMMA NodeForKind ==
    ASSUME NEW d, NEW k, NEW n
    PROVE  Meaning!NodeFor(d, k, n).kind =
               IF Meaning!KindIn(d, n) \in {"alias", "struct"} THEN Meaning!KindIn(d, n) ELSE "variant"
BY NodeForIs DEF MakeNode

\* A node that is not an alias still to be resolved is what its name stands for.
LEMMA Known ==
    ASSUME NEW d \in Seq(Definition), NEW map, NEW k \in Nat, k # 0, GraphMeans(d, k, map),
           DOMAIN map \subseteq Name, NEW n, IsFound(map, n)
    PROVE  NamesAt(d, k)[n] = Target(map, n)
<1>1. n \in DOMAIN map /\ map[n].kind # "alias_def" /\ n \in Name /\ NodeMeans(d, k, map, n)
    BY DEF IsFound, GraphMeans
<1>2. k - 1 \in Nat /\ (k - 1) + 1 = k
    OBVIOUS
<1>3. NamesAt(d, k)[n] = Meaning!StandsIn(d, NamesAt(d, k - 1), n)
    BY <1>1, <1>2, NamesFacts
<1>4. CASE n \in Meaning!Declared(d)
    <2> DEFINE e == Meaning!Defines(d, n)
    <2>1. e.kind \in Unresolved
        BY <1>4, DefinesFacts DEF Definition
    <2>2. \/ map[n] = AsEntered(e)
          \/ Meaning!Sound(d, k, n) /\ map[n] = Meaning!NodeFor(d, k, n)
        BY <1>1, <1>4 DEF NodeMeans
    <2>3. Meaning!KindIn(d, n) = IF e.kind = "alias_def" THEN "alias"
                                 ELSE IF e.kind = "struct_def" THEN "struct" ELSE "variant"
        BY <1>4 DEF Meaning!KindIn, Meaning!Made
    <2> HIDE DEF e
    <2>4. CASE e.kind = "alias_def"
        <3>1. map[n] # AsEntered(e)
            BY <1>1, <2>4 DEF AsEntered, MakeNode
        <3>2. map[n] = MakeNode("alias", NamesAt(d, k)[n], <<>>)
            BY <2>2, <2>3, <2>4, <3>1, SameNames DEF Meaning!NodeFor, NamesAt
        <3> QED
            BY <3>2 DEF MakeNode, Target
    <2>5. CASE e.kind # "alias_def"
        <3>1. NamesAt(d, k)[n] = n
            BY <1>3, <1>4, <2>5 DEF Meaning!StandsIn, e
        <3>2. map[n] = AsEntered(e) => map[n].kind = e.kind
            BY DEF AsEntered, MakeNode
        <3>3. map[n] = Meaning!NodeFor(d, k, n) => map[n].kind \in {"struct", "variant"}
            BY <2>3, <2>5, NodeForKind
        <3>4. map[n].kind # "alias"
            BY <2>1, <2>2, <3>2, <3>3 DEF Unresolved
        <3> QED
            BY <3>1, <3>4 DEF Target
    <2> QED
        BY <2>4, <2>5
<1>5. CASE n \notin Meaning!Declared(d) /\ n \in DOMAIN Prefilled
    <2>1. map[n] = Prefilled[n]
        BY <1>1, <1>5 DEF NodeMeans
    <2>2. map[n].kind # "alias"
        BY <1>5, <2>1, PrefilledKinds
    <2>3. NamesAt(d, k)[n] = n
        BY <1>3, <1>5, SameNames DEF Meaning!StandsIn
    <2> QED
        BY <2>2, <2>3 DEF Target
<1>6. CASE n \notin Meaning!Declared(d) /\ n \notin DOMAIN Prefilled
    <2>1. map[n].kind = Suffix[n] /\ NamesAt(d, k)[n] = n
        BY <1>1, <1>6 DEF NodeMeans
    <2>2. map[n].kind # "alias"
        BY <1>1, <2>1, NameFacts DEF Wrapper
    <2> QED
        BY <2>1, <2>2 DEF Target
<1> QED
    BY <1>4, <1>5, <1>6

\* The kind of a node is the one that is meant, but for the end of its resolution.
LEMMA KindMeant ==
    ASSUME NEW d \in Seq(Definition), NEW map, NEW k \in Nat, GraphMeans(d, k, map),
           NEW n \in DOMAIN map
    PROVE  Later(map[n].kind, Meaning!KindIn(d, n))
<1>1. NodeMeans(d, k, map, n)
    BY DEF GraphMeans
<1>2. CASE n \in Meaning!Declared(d)
    <2> DEFINE e == Meaning!Defines(d, n)
    <2>1. e.kind \in Unresolved
        BY <1>2, DefinesFacts DEF Definition
    <2>2. \/ map[n] = AsEntered(e)
          \/ map[n] = Meaning!NodeFor(d, k, n)
        BY <1>1, <1>2 DEF NodeMeans
    <2>3. Meaning!KindIn(d, n) = IF e.kind = "alias_def" THEN "alias"
                                 ELSE IF e.kind = "struct_def" THEN "struct" ELSE "variant"
        BY <1>2 DEF Meaning!KindIn, Meaning!Made
    <2> HIDE DEF e
    <2>4. map[n] = AsEntered(e) => map[n].kind = e.kind
        BY DEF AsEntered, MakeNode
    <2>5. map[n] = Meaning!NodeFor(d, k, n) => map[n].kind = Meaning!KindIn(d, n)
        BY <2>1, <2>3, NodeForKind
    <2> QED
        BY <2>1, <2>2, <2>3, <2>4, <2>5 DEF Later, Unresolved
<1>3. CASE n \notin Meaning!Declared(d)
    BY <1>1, <1>3, SameNames DEF NodeMeans, Meaning!KindIn, Later
<1> QED
    BY <1>2, <1>3

\* A definition that has a meaning keeps it at more levels.
LEMMA SoundLasts ==
    ASSUME NEW d \in Seq(Definition), NEW j \in Nat, NEW k \in Nat, j # 0, j <= k,
           NEW n, n \in Meaning!Declared(d), Meaning!Sound(d, j, n)
    PROVE  Meaning!Sound(d, k, n) /\ Meaning!NodeFor(d, k, n) = Meaning!NodeFor(d, j, n)
<1>1. n \in Name
    BY DefinesFacts
<1>2. j - 1 \in Nat /\ k - 1 \in Nat /\ j - 1 <= k - 1
    OBVIOUS
<1>3. /\ Below(NamesAt(d, j), NamesAt(d, k)) /\ FieldsBelow(FieldsAt(d, j), FieldsAt(d, k))
      /\ Below(NamesAt(d, j - 1), NamesAt(d, k - 1))
      /\ NamesAt(d, j - 1) \in NamesSet /\ NamesAt(d, k - 1) \in NamesSet
    BY <1>2, Levels, NamesFacts
<1>4. CASE Meaning!KindIn(d, n) = "alias"
    <2>1. NamesAt(d, j)[n] # NoName
        BY <1>4, SameNames DEF Meaning!Sound, NamesAt
    <2>2. NamesAt(d, k)[n] = NamesAt(d, j)[n]
        BY <1>1, <1>3, <2>1 DEF Below
    <2> QED
        BY <1>4, <2>1, <2>2, SameNames DEF Meaning!Sound, Meaning!NodeFor, NamesAt
<1>5. CASE Meaning!KindIn(d, n) = "struct"
    <2>1. FieldsAt(d, j)[n] # Meaning!NoParts
        BY <1>5, SameNames DEF Meaning!Sound, FieldsAt
    <2>2. FieldsAt(d, k)[n] = FieldsAt(d, j)[n]
        BY <1>1, <1>3, <2>1 DEF FieldsBelow
    <2> QED
        BY <1>5, <2>1, <2>2, SameNames DEF Meaning!Sound, Meaning!NodeFor, FieldsAt
<1>6. CASE Meaning!KindIn(d, n) \notin {"alias", "struct"}
    <2>1. Meaning!OwnParts(d, NamesAt(d, j - 1), n) # Meaning!NoParts
        BY <1>6, SameNames DEF Meaning!Sound, NamesAt
    <2>2. Meaning!OwnParts(d, NamesAt(d, k - 1), n) = Meaning!OwnParts(d, NamesAt(d, j - 1), n)
        BY <1>3, <2>1, OwnPartsGrow
    <2> QED
        BY <1>6, <2>1, <2>2, SameNames DEF Meaning!Sound, Meaning!NodeFor, NamesAt
<1> QED
    BY <1>4, <1>5, <1>6

\* So does a node.
LEMMA NodeMeansLasts ==
    ASSUME NEW d \in Seq(Definition), NEW j \in Nat, NEW k \in Nat, j # 0, j <= k,
           NEW map, NEW map2, NEW n \in Name, map2[n] = map[n], NodeMeans(d, j, map, n)
    PROVE  NodeMeans(d, k, map2, n)
<1>1. CASE n \in Meaning!Declared(d)
    BY <1>1, SoundLasts DEF NodeMeans
<1>2. CASE n \notin Meaning!Declared(d) /\ n \in DOMAIN Prefilled
    BY <1>2 DEF NodeMeans
<1>3. CASE n \notin Meaning!Declared(d) /\ n \notin DOMAIN Prefilled
    <2>1. map[n].kind = Suffix[n] /\ NamesAt(d, j)[n] = n /\ n # NoName
        BY <1>3, NameFacts DEF NodeMeans
    <2>2. NamesAt(d, k)[n] = n
        BY <2>1, Levels DEF Below
    <2> QED
        BY <1>3, <2>1, <2>2 DEF NodeMeans
<1> QED
    BY <1>1, <1>2, <1>3

-----------------------------------------------------------------------------
(* The steps that keep the map.                                            *)

\* A node that is still to be resolved is what it was defined as.
LEMMA OpenIsEntered ==
    ASSUME NEW d \in Seq(Definition), NEW map, NEW k \in Nat, GraphMeans(d, k, map),
           DOMAIN map \subseteq Name, NEW n \in DOMAIN map, map[n].kind \in Unresolved
    PROVE  /\ n \in Meaning!Declared(d) /\ n \notin DOMAIN Prefilled /\ n \in Name
           /\ map[n] = AsEntered(Meaning!Defines(d, n))
           /\ Meaning!Defines(d, n) \in Definition
           /\ Meaning!Defines(d, n).kind = map[n].kind
           /\ Meaning!Defines(d, n).of = map[n].of
           /\ Meaning!Defines(d, n).parts = map[n].parts
<1>1. NodeMeans(d, k, map, n) /\ n \in Name
    BY DEF GraphMeans
<1>2. n \in Meaning!Declared(d)
    <2> SUFFICES ASSUME n \notin Meaning!Declared(d) PROVE FALSE
        OBVIOUS
    <2>1. CASE n \in DOMAIN Prefilled
        BY <1>1, <2>1, PrefilledKinds DEF NodeMeans, Unresolved
    <2>2. CASE n \notin DOMAIN Prefilled
        BY <1>1, <2>2, NameFacts DEF NodeMeans, Unresolved, Wrapper
    <2> QED
        BY <2>1, <2>2
<1>3. n \notin DOMAIN Prefilled
    BY <1>2, SameNames DEF GraphMeans, Meaning!NamesAreGood
<1>4. map[n] = AsEntered(Meaning!Defines(d, n))
    <2>1. map[n] = Meaning!NodeFor(d, k, n) => map[n].kind \notin Unresolved
        BY NodeForKind DEF Unresolved
    <2> QED
        BY <1>1, <1>2, <2>1 DEF NodeMeans
<1>5. Meaning!Defines(d, n) \in Definition
    BY <1>2, DefinesFacts
<1>6. /\ AsEntered(Meaning!Defines(d, n)).kind = Meaning!Defines(d, n).kind
      /\ AsEntered(Meaning!Defines(d, n)).of = Meaning!Defines(d, n).of
      /\ AsEntered(Meaning!Defines(d, n)).parts = Meaning!Defines(d, n).parts
    BY DEF AsEntered, MakeNode
<1> QED
    BY <1>1, <1>2, <1>3, <1>4, <1>5, <1>6

\* What is known once there is a graph.
LEMMA RunFacts ==
    ASSUME IInv, MeansInv, phase \in {"fill", "ready", "query"}
    PROVE  /\ def \in Seq(Definition) /\ DOMAIN types \subseteq Name
           /\ Rank(types) \in Nat /\ Rank(types) # 0 /\ Rank(types) + 1 \in Nat
           /\ GraphMeans(def, Rank(types), types)
           /\ NamesAt(def, Rank(types)) \in NamesSet /\ FieldsAt(def, Rank(types)) \in FieldsSet
<1>1. def \in Seq(Definition) /\ DOMAIN types \subseteq Name
    BY InvParts DEF Parted, TypeOK
<1>2. GraphMeans(def, Rank(types), types)
    BY DEF MeansInv
<1>3. Rank(types) \in Nat /\ IsFiniteSet(Done(types))
    BY <1>1, RankFacts
<1>4. "asset" \in DOMAIN Prefilled
    BY NameAssumption DEF Prefilled
<1>5. "asset" \in DOMAIN types /\ "asset" \notin Meaning!Declared(def)
    BY <1>2, <1>4, SameNames DEF GraphMeans, Meaning!NamesAreGood
<1>6. types["asset"] = Prefilled["asset"]
    BY <1>2, <1>4, <1>5 DEF GraphMeans, NodeMeans
<1>7. "asset" \in Done(types)
    BY <1>4, <1>5, <1>6, PrefilledKinds DEF Done, Unresolved
<1>8. Rank(types) # 0
    BY <1>3, <1>7, FS_EmptySet DEF Rank
<1> QED
    BY <1>1, <1>2, <1>3, <1>8, NamesFacts, FieldsFacts

\* What an activation is at work on, if it is no wrapper, is defined.
LEMMA WorkDefined ==
    ASSUME IInv, MeansInv, phase \in {"fill", "query"},
           NEW f \in Activation, WorksOn(types, f), IsOpen(types, f.name), f.kind \notin Wrapper
    PROVE  /\ f.name \in DOMAIN types /\ f.name \in Meaning!Declared(def) /\ f.name \in Name
           /\ f.name \notin DOMAIN Prefilled
           /\ types[f.name] = AsEntered(Meaning!Defines(def, f.name))
           /\ Meaning!Defines(def, f.name) \in Definition
           /\ Meaning!Defines(def, f.name).kind = types[f.name].kind
           /\ Meaning!Defines(def, f.name).of = types[f.name].of
           /\ Meaning!Defines(def, f.name).parts = types[f.name].parts
           /\ types[f.name].kind =
                  IF f.kind = "alias" THEN "alias_def"
                  ELSE IF f.kind = "struct" THEN "struct_def" ELSE "variant_def"
           /\ Meaning!KindIn(def, f.name) = f.kind
<1>1. f.name \in DOMAIN types
    BY DEF WorksOn
<1>2. types[f.name].kind \in Unresolved
    BY <1>1 DEF IsOpen
<1>3. /\ def \in Seq(Definition) /\ DOMAIN types \subseteq Name
      /\ Rank(types) \in Nat /\ GraphMeans(def, Rank(types), types)
    BY RunFacts
<1>4. f.kind \in {"alias", "struct", "variant"}
    BY DEF Activation
<1>5. types[f.name].kind = IF f.kind = "alias" THEN "alias_def"
                           ELSE IF f.kind = "struct" THEN "struct_def" ELSE "variant_def"
    BY <1>2, <1>4 DEF WorksOn, Unresolved
<1>6. /\ f.name \in Meaning!Declared(def) /\ f.name \in Name
      /\ f.name \notin DOMAIN Prefilled
      /\ types[f.name] = AsEntered(Meaning!Defines(def, f.name))
      /\ Meaning!Defines(def, f.name) \in Definition
      /\ Meaning!Defines(def, f.name).kind = types[f.name].kind
      /\ Meaning!Defines(def, f.name).of = types[f.name].of
      /\ Meaning!Defines(def, f.name).parts = types[f.name].parts
    BY <1>1, <1>2, <1>3, OpenIsEntered
<1>7. Meaning!KindIn(def, f.name) = f.kind
    BY <1>4, <1>5, <1>6 DEF Meaning!KindIn, Meaning!Made
<1> QED
    BY <1>1, <1>5, <1>6, <1>7

\* The parts of a list.
LEMMA PartFacts ==
    ASSUME NEW s \in Seq(Part)
    PROVE  /\ Len(s) \in Nat /\ DOMAIN s = 1 .. Len(s)
           /\ \A i \in 1 .. Len(s) : s[i] \in Part /\ s[i].type \in Name /\ s[i].name \in Label
<1>1. Len(s) \in Nat /\ DOMAIN s = 1 .. Len(s) /\ \A i \in 1 .. Len(s) : s[i] \in Part
    BY LenProperties, ElementOfSeq
<1> QED
    BY <1>1 DEF Part

\* What has been collected stays what is meant.
LEMMA CollectedLasts ==
    ASSUME NEW d \in Seq(Definition), NEW j \in Nat, NEW k \in Nat, j <= k,
           NEW f \in Activation, f.name \in Meaning!Declared(d), Collected(d, j, f)
    PROVE  Collected(d, k, f)
<1> DEFINE own == Meaning!Defines(d, f.name).parts
           taken == 1 .. Len(own) - Len(f.todo)
           so(i) == [a \in taken |-> [name |-> own[a].name, type |-> NamesAt(d, i)[own[a].type]]]
<1>1. own \in Seq(Part) /\ f.todo \in Seq(Part)
    BY DefinesFacts DEF Definition, Activation
<1>2. /\ Below(NamesAt(d, j), NamesAt(d, k)) /\ FieldsBelow(FieldsAt(d, j), FieldsAt(d, k))
      /\ NamesAt(d, j) \in NamesSet /\ NamesAt(d, k) \in NamesSet
    BY Levels, NamesFacts
<1>3. /\ Inherits(d, j, f) # Meaning!NoParts
      /\ \A i \in taken : NamesAt(d, j)[own[i].type] # NoName
      /\ f.parts = Inherits(d, j, f) \o so(j)
    BY DEF Collected
<1>4. Inherits(d, k, f) = Inherits(d, j, f)
    BY <1>2, <1>3, InheritedGrows DEF Inherits
<1>5. \A i \in taken : own[i].type \in Name
    <2>1. Len(own) \in Nat /\ Len(f.todo) \in Nat
        BY <1>1, LenProperties
    <2> HIDE DEF own
    <2>2. \A i \in 1 .. Len(own) : own[i].type \in Name
        BY <1>1, PartFacts
    <2> QED
        BY <2>1, <2>2
<1> HIDE DEF own, taken
<1>6. \A i \in taken : NamesAt(d, k)[own[i].type] = NamesAt(d, j)[own[i].type]
    BY <1>2, <1>3, <1>5 DEF Below
<1>7. so(k) = so(j)
    BY <1>6
<1>8. \A i \in taken : NamesAt(d, k)[own[i].type] # NoName
    BY <1>3, <1>6
<1>9. f.parts = Inherits(d, k, f) \o so(k)
    BY <1>3, <1>4, <1>7
<1> QED
    BY <1>3, <1>4, <1>8, <1>9 DEF Collected, own, taken

\* A step goes on: the invariant is kept, and there is no exception if the meaning
\* can be found within MaxDepth levels.
Goes == MeansInv' /\ (Promised => phase' = phase)

\* An exception leaves nothing to say about activations.
LEMMA ThrowMeans ==
    ASSUME MeansInv, NEW e, Throw(e), phase \in {"declare", "fill", "query"}
    PROVE  MeansInv'
<1>1. /\ stack' = <<>> /\ UNCHANGED <<def, types, next, query>>
      /\ phase' = IF phase = "query" THEN "ready" ELSE "failed"
    BY DEF Throw
<1>2. DOMAIN stack' = {}
    BY <1>1, EmptySeq
<1>3. ~(Promised')
    BY <1>1 DEF Promised
<1>4. phase' \in {"fill", "ready", "query"} => GraphMeans(def', Rank(types'), types')
    BY <1>1 DEF MeansInv
<1> QED
    BY <1>1, <1>2, <1>3, <1>4 DEF MeansInv

\* An activation begins.
LEMMA PushMeans ==
    ASSUME IInv, MeansInv, phase \in {"fill", "query"},
           NEW f \in Activation, stack' = Append(stack, f),
           UNCHANGED <<def, types, phase, query>>,
           FrameMeans(def, Rank(types), f),
           phase = "query" => f.kind \in Wrapper /\ (stack = <<>> => f.name = query),
           Promised => /\ HasLevels(def, MaxDepth - Len(stack), f)
                       /\ call' # NoCall =>
                              NamesAt(def, MaxDepth - (Len(stack) + 1))[call'.name] # NoName
    PROVE  Goes
<1>1. stack \in Seq(Activation)
    BY InvParts DEF Parted, TypeOK
<1> DEFINE st2 == Push(stack, f)
<1>2. /\ Len(stack) \in Nat /\ Len(st2) = Len(stack) + 1 /\ st2 # <<>>
      /\ st2[Len(stack) + 1] = f /\ \A i \in 1 .. Len(stack) : st2[i] = stack[i]
      /\ st2 \in Seq(Activation)
    BY <1>1, PushFacts
<1>3. DOMAIN stack = 1 .. Len(stack) /\ DOMAIN st2 = 1 .. Len(stack) + 1
    BY <1>1, <1>2, LenProperties
<1>4. stack' = st2
    BY DEF Push
<1> HIDE DEF st2
<1>5. \A i \in 1 .. Len(stack) + 1 : i \in 1 .. Len(stack) \/ i = Len(stack) + 1
    BY <1>2
<1>6. \A i \in DOMAIN st2 : FrameMeans(def, Rank(types), st2[i])
    BY <1>2, <1>3, <1>5 DEF MeansInv
<1>7. phase = "query" => st2[1].kind \in Wrapper /\ st2[1].name = query
    <2>1. CASE stack = <<>>
        <3>1. Len(stack) + 1 = 1
            BY <2>1
        <3> QED
            BY <1>2, <2>1, <3>1
    <2>2. CASE stack # <<>>
        <3>1. 1 \in 1 .. Len(stack)
            BY <1>1, <1>2, <2>2, EmptySeq
        <3> QED
            BY <1>2, <2>2, <3>1 DEF MeansInv, QueryServes
    <2> QED
        BY <2>1, <2>2
<1>8. Promised => \A i \in DOMAIN st2 : HasLevels(def, MaxDepth - (i - 1), st2[i])
    <2> SUFFICES ASSUME Promised, NEW i \in DOMAIN st2
                 PROVE  HasLevels(def, MaxDepth - (i - 1), st2[i])
        OBVIOUS
    <2>1. CASE i \in 1 .. Len(stack)
        BY <1>2, <1>3, <2>1 DEF MeansInv, LevelsLeft
    <2>2. CASE i = Len(stack) + 1
        <3>1. i - 1 = Len(stack)
            BY <1>2, <2>2
        <3> QED
            BY <1>2, <2>2, <3>1
    <2> QED
        BY <1>3, <1>5, <2>1, <2>2
<1>9. Promised' <=> Promised
    BY DEF Promised
<1>10. Promised => LevelsLeft(def, st2, call')
    BY <1>2, <1>8 DEF LevelsLeft
<1>11. MeansInv'
    <2>1. phase' = "query" => QueryServes'
        BY <1>2, <1>4, <1>7 DEF QueryServes, Idle
    <2> QED
        BY <1>4, <1>6, <1>9, <1>10, <2>1 DEF MeansInv
<1> QED
    BY <1>11 DEF Goes

\* A step that leaves the map and the activations alone.
LEMMA CallMeans ==
    ASSUME MeansInv, phase \in {"fill", "query"}, UNCHANGED <<def, types, phase, stack, query>>,
           phase = "query" => QueryServes',
           Promised /\ call' # NoCall => NamesAt(def, MaxDepth - Len(stack))[call'.name] # NoName
    PROVE  Goes
<1>1. Promised' <=> Promised
    BY DEF Promised
<1>2. Promised => LevelsLeft(def, stack, call')
    BY DEF MeansInv, LevelsLeft
<1> QED
    BY <1>1, <1>2 DEF MeansInv, Goes

\* A stack that is not empty has a first place.
LEMMA FirstLevel == \A m \in Nat \ {0} : 1 \in 1 .. m
OBVIOUS

\* The stack after its top activation was replaced.
LEMMA FrameReplaced ==
    ASSUME NEW st \in Seq(Activation), st # <<>>, NEW f \in Activation
    PROVE  LET st2 == [st EXCEPT ![Len(st)] = f] IN
           /\ st2 # <<>> /\ Len(st2) = Len(st) /\ st2 \in Seq(Activation)
           /\ \A i \in 1 .. Len(st) : st2[i] = IF i = Len(st) THEN f ELSE st[i]
BY ReplaceFacts

\* The activation on top goes on with the rest of its parts.
LEMMA ReplaceMeans ==
    ASSUME IInv, MeansInv, stack # <<>>, call = NoCall,
           NEW todo \in Seq(Part), NEW parts \in Seq(Part),
           stack' = WithTop(todo, parts), UNCHANGED <<def, types, phase, query, call>>,
           \A f \in Activation : f = Frame(Top.kind, Top.name, Top.depth, "", todo, parts)
                                     => FrameMeans(def, Rank(types), f)
    PROVE  Goes
<1> DEFINE f == Frame(Top.kind, Top.name, Top.depth, "", todo, parts)
           st2 == [stack EXCEPT ![Len(stack)] = f]
<1>1. /\ StackGood(types, stack) /\ Top \in Activation /\ stack \in Seq(Activation)
      /\ phase \in {"fill", "query"}
    BY ReturnedFacts DEF Parted, TypeOK
<1>2. f \in Activation
    BY <1>1, NameFacts DEF Frame, Activation
<1>3. FrameMeans(def, Rank(types), f) /\ f.kind = Top.kind /\ f.name = Top.name
    BY <1>2 DEF Frame
<1>4. stack' = st2
    BY DEF WithTop
<1> HIDE DEF f
<1>5. /\ st2 # <<>> /\ Len(st2) = Len(stack)
      /\ \A i \in 1 .. Len(stack) : st2[i] = IF i = Len(stack) THEN f ELSE stack[i]
      /\ st2 \in Seq(Activation)
    BY <1>1, <1>2, FrameReplaced
<1> HIDE DEF st2
<1>6. /\ DOMAIN stack = 1 .. Len(stack) /\ Top = stack[Len(stack)] /\ Len(stack) \in Nat \ {0}
      /\ DOMAIN st2 = 1 .. Len(stack)
    BY <1>1, <1>5, TopGood, LenProperties DEF Top
<1>7. \A i \in 1 .. Len(stack) : st2[i].kind = stack[i].kind /\ st2[i].name = stack[i].name
    BY <1>3, <1>5, <1>6
<1>8. \A i \in DOMAIN st2 : FrameMeans(def, Rank(types), st2[i])
    BY <1>3, <1>5, <1>6 DEF MeansInv
<1>9. phase = "query" => st2[1].kind \in Wrapper /\ st2[1].name = query
    <2>1. 1 \in 1 .. Len(stack)
        BY <1>6, FirstLevel
    <2> QED
        BY <1>7, <2>1 DEF MeansInv, QueryServes
<1>10. Promised => \A i \in DOMAIN st2 : HasLevels(def, MaxDepth - (i - 1), st2[i])
    BY <1>6, <1>7 DEF MeansInv, LevelsLeft, HasLevels
<1>11. Promised' <=> Promised
    BY DEF Promised
<1>12. MeansInv'
    <2>1. phase' = "query" => QueryServes'
        BY <1>4, <1>5, <1>9 DEF QueryServes, Idle
    <2>2. Promised => LevelsLeft(def, st2, call')
        BY <1>10 DEF LevelsLeft
    <2> QED
        BY <1>1, <1>4, <1>8, <1>11, <2>1, <2>2 DEF MeansInv
<1> QED
    BY <1>12 DEF Goes

\* The activation on top ends, at a node that is what is meant.
LEMMA FinishMeans ==
    ASSUME IInv, FinalInv, MeansInv, stack # <<>>, call = NoCall,
           NEW node, node # NoName, Finish(types', node), Ends(node),
           types'[Top.name].kind \notin Unresolved,
           NodeMeans(def, Rank(types) + 1, types', Top.name)
    PROVE  Goes
<1> DEFINE n == Top.name
           st2 == Front(stack)
           h == Len(st2)
           k == Rank(types)
<1>1. /\ stack' = Front(stack) /\ ret' = node /\ call' = NoCall
      /\ UNCHANGED <<def, phase, query>>
    BY DEF Finish, Return
<1>2. /\ StackGood(types, stack) /\ stack \in Seq(Activation) /\ phase \in {"fill", "query"}
      /\ Top \in Activation
    BY ReturnedFacts DEF Parted, TypeOK
<1>3. /\ st2 \in Seq(Activation) /\ h \in Nat /\ Len(stack) = h + 1
      /\ \A i \in 1 .. h : st2[i] = stack[i]
    BY <1>2, PopFacts
<1>4. /\ DOMAIN stack = 1 .. h + 1 /\ DOMAIN st2 = 1 .. h /\ Top = stack[h + 1]
    BY <1>2, <1>3, LenProperties, TopGood DEF Top
<1>5. /\ def \in Seq(Definition) /\ DOMAIN types \subseteq Name /\ k \in Nat /\ k # 0
      /\ k + 1 \in Nat /\ k <= k + 1
      /\ GraphMeans(def, k, types)
    BY <1>2, RunFacts
<1>6. /\ IsOpen(types, n) /\ ChangedAt(types, types', n)
      /\ IsFound(types', n) /\ node = Target(types', n)
    BY TopOpen DEF Ends
<1>7. n \in Name
    BY <1>2 DEF Activation
<1>8. Rank(types') = k + 1
    BY <1>5, <1>6, <1>7, RankStep
<1> HIDE DEF n, st2, h, k
<1>9. GraphMeans(def, k + 1, types')
    <2>1. ASSUME NEW m \in DOMAIN types'
          PROVE  NodeMeans(def, k + 1, types', m)
        <3>1. CASE m = n
            BY <3>1 DEF n, k
        <3>2. CASE m # n
            <4>1. m \in DOMAIN types /\ types'[m] = types[m] /\ m \in Name
                BY <1>5, <1>6, <3>2 DEF ChangedAt
            <4>2. NodeMeans(def, k, types, m)
                BY <1>5, <4>1 DEF GraphMeans
            <4> QED
                BY <1>5, <4>1, <4>2, NodeMeansLasts
        <3> QED
            BY <3>1, <3>2
    <2>2. DOMAIN types \subseteq DOMAIN types'
        BY <1>6 DEF ChangedAt
    <2> QED
        BY <1>5, <2>1, <2>2 DEF GraphMeans
<1>10. ASSUME NEW i \in DOMAIN st2
       PROVE  FrameMeans(def, k + 1, st2[i])
    <2>1. i \in DOMAIN stack /\ st2[i] = stack[i]
        BY <1>3, <1>4
    <2>2. FrameMeans(def, k, stack[i])
        BY <2>1 DEF MeansInv, k
    <2>3. /\ stack[i] \in Activation /\ WorksOn(types, stack[i]) /\ IsOpen(types, stack[i].name)
        BY <1>2, <1>4, <1>3, <2>1, ElementOfSeq, LenProperties DEF StackGood, FinalInv, Unfinished
    <2>4. ASSUME stack[i].kind \in {"struct", "variant"}, stack[i].base = ""
          PROVE  Collected(def, k + 1, stack[i])
        <3>1. Collected(def, k, stack[i]) /\ stack[i].kind \notin Wrapper
            BY <2>2, <2>4 DEF FrameMeans, Wrapper
        <3>2. stack[i].name \in Meaning!Declared(def)
            BY <1>2, <2>3, <3>1, WorkDefined
        <3> QED
            BY <1>5, <2>3, <3>1, <3>2, CollectedLasts
    <2> QED
        BY <2>1, <2>2, <2>4 DEF FrameMeans
<1>11. phase = "query" => /\ st2 # <<>> => st2[1].kind \in Wrapper /\ st2[1].name = query
                          /\ st2 = <<>> => n = query
    <2> SUFFICES ASSUME phase = "query"
                 PROVE  /\ st2 # <<>> => st2[1].kind \in Wrapper /\ st2[1].name = query
                        /\ st2 = <<>> => n = query
        OBVIOUS
    <2>1. stack[1].kind \in Wrapper /\ stack[1].name = query
        BY DEF MeansInv, QueryServes
    <2>2. st2 = <<>> => h + 1 = 1
        BY <1>3 DEF h
    <2>3. st2 # <<>> => 1 \in 1 .. h
        BY <1>3, EmptySeq DEF h
    <2> QED
        BY <1>3, <1>4, <2>1, <2>2, <2>3 DEF n
<1>12. Promised => \A i \in DOMAIN st2 : HasLevels(def, MaxDepth - (i - 1), st2[i])
    BY <1>3, <1>4 DEF MeansInv, LevelsLeft
<1>13. Promised' <=> Promised
    BY <1>1 DEF Promised
<1>14. MeansInv'
    <2>1. phase' = "query" => QueryServes'
        BY <1>1, <1>6, <1>11 DEF QueryServes, Idle, st2
    <2>2. Promised => LevelsLeft(def, st2, call')
        BY <1>1, <1>12 DEF LevelsLeft
    <2>3. \A i \in DOMAIN st2 : FrameMeans(def, k + 1, st2[i])
        BY <1>10
    <2> QED
        BY <1>1, <1>2, <1>8, <1>9, <1>13, <2>1, <2>2, <2>3 DEF MeansInv, st2
<1> QED
    BY <1>1, <1>14 DEF Goes

\* What is found at two levels is the same.
LEMMA SameMeaning ==
    ASSUME NEW d \in Seq(Definition), NEW j \in Nat, NEW k \in Nat, NEW n \in Name
    PROVE  /\ NamesAt(d, j)[n] # NoName /\ NamesAt(d, k)[n] # NoName
                  => NamesAt(d, j)[n] = NamesAt(d, k)[n]
           /\ FieldsAt(d, j)[n] # Meaning!NoParts /\ FieldsAt(d, k)[n] # Meaning!NoParts
                  => FieldsAt(d, j)[n] = FieldsAt(d, k)[n]
<1>1. CASE j <= k
    BY <1>1, Levels DEF Below, FieldsBelow
<1>2. CASE k <= j
    BY <1>2, Levels DEF Below, FieldsBelow
<1> QED
    BY <1>1, <1>2

\* What has come back is what is meant.
LEMMA ReturnMeans ==
    ASSUME IInv, FinalInv, MeansInv, stack # <<>>, call = NoCall, ret # NoName
    PROVE  /\ ret \in Name /\ ret \in DOMAIN types /\ Wanted(types, Top) \in Name
           /\ NamesAt(def, Rank(types))[Wanted(types, Top)] = ret
           /\ Later(KindOf(ret), Meaning!KindIn(def, ret))
           /\ \A k \in Nat : NamesAt(def, k)[Wanted(types, Top)] # NoName
                                 => NamesAt(def, k)[Wanted(types, Top)] = ret
<1> DEFINE w == Wanted(types, Top)
<1>1. ret \in Name /\ ret \in DOMAIN types /\ phase \in {"fill", "query"}
    BY ReturnedFacts
<1>2. /\ def \in Seq(Definition) /\ DOMAIN types \subseteq Name
      /\ Rank(types) \in Nat /\ Rank(types) # 0 /\ GraphMeans(def, Rank(types), types)
    BY <1>1, RunFacts
<1>3. IsFound(types, w) /\ ret = Target(types, w)
    BY ReturnIsWanted
<1> HIDE DEF w
<1>4. w \in Name
    BY <1>2, <1>3 DEF IsFound
<1>5. NamesAt(def, Rank(types))[w] = ret
    BY <1>2, <1>3, Known
<1>6. Later(KindOf(ret), Meaning!KindIn(def, ret))
    BY <1>1, <1>2, KindMeant DEF KindOf
<1>7. \A k \in Nat : NamesAt(def, k)[w] # NoName => NamesAt(def, k)[w] = ret
    BY <1>2, <1>4, <1>5, SameMeaning
<1> QED
    BY <1>1, <1>4, <1>5, <1>6, <1>7 DEF w

\* The levels that the activation on top has.
LEMMA TopLevels ==
    ASSUME IInv, FinalInv, MeansInv, stack # <<>>, call = NoCall
    PROVE  /\ phase \in {"fill", "query"}
           /\ Top \in Activation /\ Top.name \in Name
           /\ WorksOn(types, Top) /\ IsOpen(types, Top.name) /\ InOrder(types, Top)
           /\ FrameMeans(def, Rank(types), Top)
           /\ MaxDepth - Len(stack) \in Nat
           /\ Promised => HasLevels(def, (MaxDepth - Len(stack)) + 1, Top)
<1>1. /\ phase \in {"fill", "query"} /\ StackGood(types, stack)
      /\ Top \in Activation /\ WorksOn(types, Top)
    BY ReturnedFacts DEF Parted
<1>2. DOMAIN stack = 1 .. Len(stack) /\ Len(stack) \in Nat \ {0} /\ Top = stack[Len(stack)]
    BY <1>1, TopGood DEF Top
<1>3. Len(stack) \in DOMAIN stack /\ Len(stack) <= MaxDepth /\ MaxDepth \in Nat
    BY <1>1, <1>2, LimitType DEF StackGood
<1>4. MaxDepth - Len(stack) \in Nat /\ MaxDepth - (Len(stack) - 1) = (MaxDepth - Len(stack)) + 1
    BY <1>2, <1>3
<1>5. FrameMeans(def, Rank(types), Top)
    BY <1>2, <1>3 DEF MeansInv
<1>6. Promised => HasLevels(def, MaxDepth - (Len(stack) - 1), Top)
    BY <1>2, <1>3 DEF MeansInv, LevelsLeft
<1>7. Top.name \in Name
    BY <1>1 DEF Activation
<1> QED
    BY <1>1, <1>4, <1>5, <1>6, <1>7, TopOpen

\* Whether a type may be wrapped depends on its family alone.
LEMMA WrapMeant ==
    ASSUME NEW a, NEW b, Later(a, b)
    PROVE  /\ \A w : MayWrap(w, a) <=> MayWrap(w, b)
           /\ a = "extension" <=> b = "extension"
BY DEF Later, MayWrap

-----------------------------------------------------------------------------
(* The steps that add to it or resolve a node.                             *)

\* What a name stands for, one level up.
LEMMA WrapperStands ==
    ASSUME NEW d \in Seq(Definition), NEW k \in Nat, NEW n \in Name,
           n \notin Meaning!Declared(d), n \notin DOMAIN Prefilled
    PROVE  NamesAt(d, k + 1)[n] =
               IF /\ Suffix[n] # "none" /\ NamesAt(d, k)[Stem[n]] # NoName
                  /\ MayWrap(Suffix[n], Meaning!KindIn(d, NamesAt(d, k)[Stem[n]]))
               THEN n ELSE NoName
<1>1. NamesAt(d, k + 1)[n] = Meaning!StandsIn(d, NamesAt(d, k), n)
    BY NamesFacts
<1> QED
    BY <1>1, SameNames DEF Meaning!StandsIn

\* An alias stands for what its definition leads to, one level up.
LEMMA AliasStands ==
    ASSUME NEW d \in Seq(Definition), NEW k \in Nat, NEW n \in Name,
           n \in Meaning!Declared(d), Meaning!Defines(d, n).kind = "alias_def"
    PROVE  LET of == Meaning!Defines(d, n).of IN
           NamesAt(d, k + 1)[n] =
               IF \/ NamesAt(d, k)[of] = NoName
                  \/ Meaning!KindIn(d, NamesAt(d, k)[of]) = "extension"
               THEN NoName ELSE NamesAt(d, k)[of]
<1>1. NamesAt(d, k + 1)[n] = Meaning!StandsIn(d, NamesAt(d, k), n)
    BY NamesFacts
<1> QED
    BY <1>1, SameNames DEF Meaning!StandsIn

\* What a struct has, one level up.
LEMMA StructHas ==
    ASSUME NEW d \in Seq(Definition), NEW k \in Nat, NEW n \in Name,
           n \notin DOMAIN Prefilled, Meaning!KindIn(d, n) = "struct"
    PROVE  LET own == Meaning!OwnParts(d, NamesAt(d, k), n)
               inherited == Meaning!Inherited(d, NamesAt(d, k), FieldsAt(d, k), n)
           IN FieldsAt(d, k + 1)[n] =
                  IF own = Meaning!NoParts \/ inherited = Meaning!NoParts
                  THEN Meaning!NoParts ELSE inherited \o own
<1>1. FieldsAt(d, k + 1)[n] = Meaning!PartsIn(d, NamesAt(d, k), FieldsAt(d, k), n)
    BY FieldsFacts
<1> QED
    BY <1>1, SameNames DEF Meaning!PartsIn

\* A wrapper is what its name says.
LEMMA EndOfWrapperMeans ==
    ASSUME IInv, FinalInv, MeansInv, EndOfWrapper
    PROVE  Goes
<1> DEFINE n == Top.name
           k == Rank(types)
           left == MaxDepth - Len(stack)
<1>1. stack # <<>> /\ call = NoCall /\ Top.kind \in Wrapper /\ ret # NoName
    BY DEF EndOfWrapper, TopIs
<1>2. /\ phase \in {"fill", "query"} /\ n \in Name
      /\ Top.kind = Suffix[n] /\ left \in Nat
      /\ Promised => HasLevels(def, left + 1, Top)
      /\ WorksOn(types, Top) /\ IsOpen(types, n)
    BY <1>1, TopLevels DEF FrameMeans
<1>3. /\ def \in Seq(Definition) /\ k \in Nat /\ GraphMeans(def, k, types)
    BY <1>2, RunFacts
<1>4. n \notin DOMAIN types
    BY <1>1, <1>2 DEF WorksOn, IsOpen, Wrapper, Unresolved
<1>5. n \notin Meaning!Declared(def) /\ n \notin DOMAIN Prefilled
    BY <1>3, <1>4 DEF GraphMeans
<1>6. Wanted(types, Top) = Stem[n]
    BY <1>1 DEF Wanted, Wrapper
<1>7. /\ NamesAt(def, k)[Stem[n]] = ret
      /\ Later(KindOf(ret), Meaning!KindIn(def, ret))
      /\ \A j \in Nat : NamesAt(def, j)[Stem[n]] # NoName => NamesAt(def, j)[Stem[n]] = ret
    BY <1>1, <1>6, ReturnMeans
<1>8. MayWrap(Top.kind, KindOf(ret)) <=> MayWrap(Suffix[n], Meaning!KindIn(def, ret))
    BY <1>2, <1>7, WrapMeant
<1>9. CASE ~MayWrap(Top.kind, KindOf(ret))
    <2>1. Throw("invalid_nesting")
        BY <1>9 DEF EndOfWrapper
    <2>2. ~Promised
        <3> SUFFICES ASSUME Promised PROVE FALSE
            OBVIOUS
        <3>1. NamesAt(def, left + 1)[n] # NoName
            BY <1>1, <1>2 DEF HasLevels, Wrapper
        <3>2. /\ NamesAt(def, left)[Stem[n]] # NoName
              /\ MayWrap(Suffix[n], Meaning!KindIn(def, NamesAt(def, left)[Stem[n]]))
            BY <1>2, <1>3, <1>5, <3>1, WrapperStands
        <3>3. NamesAt(def, left)[Stem[n]] = ret
            BY <1>2, <1>7, <3>2
        <3> QED
            BY <1>8, <1>9, <3>2, <3>3
    <2> QED
        BY <1>2, <2>1, <2>2, ThrowMeans DEF Goes
<1>10. CASE MayWrap(Top.kind, KindOf(ret))
    <2>1. /\ Finish(types', n) /\ Ends(n)
          /\ types'[n] = MakeNode(Top.kind, ret, <<>>)
        BY <1>10, EndOfWrapperEnds
    <2>2. types'[n].kind = Suffix[n] /\ Suffix[n] \in Wrapper
        BY <1>1, <1>2, <2>1 DEF MakeNode
    <2>3. NamesAt(def, k + 1)[n] = n
        BY <1>1, <1>2, <1>3, <1>5, <1>7, <1>8, <1>10, <2>2, WrapperStands DEF Wrapper
    <2>4. NodeMeans(def, k + 1, types', n)
        BY <1>5, <2>2, <2>3 DEF NodeMeans
    <2>5. types'[n].kind \notin Unresolved /\ n # NoName
        BY <1>2, <2>2, NameFacts DEF Wrapper, Unresolved
    <2> QED
        BY <1>1, <2>1, <2>4, <2>5, FinishMeans
<1> QED
    BY <1>9, <1>10

\* An alias is what it leads to.
LEMMA EndOfAliasMeans ==
    ASSUME IInv, FinalInv, MeansInv, EndOfAlias
    PROVE  Goes
<1> DEFINE n == Top.name
           k == Rank(types)
           left == MaxDepth - Len(stack)
           of == Meaning!Defines(def, n).of
<1>1. stack # <<>> /\ call = NoCall /\ Top.kind = "alias" /\ ret # NoName
    BY DEF EndOfAlias, TopIs
<1>2. /\ phase \in {"fill", "query"} /\ n \in Name /\ left \in Nat
      /\ Promised => HasLevels(def, left + 1, Top)
      /\ Top \in Activation /\ WorksOn(types, Top) /\ IsOpen(types, n)
    BY <1>1, TopLevels
<1>3. def \in Seq(Definition) /\ k \in Nat
    BY <1>2, RunFacts
<1>4. /\ n \in Meaning!Declared(def) /\ Meaning!Defines(def, n).kind = "alias_def"
      /\ of = types[n].of /\ Meaning!KindIn(def, n) = "alias"
    BY <1>1, <1>2, WorkDefined DEF Wrapper
<1>5. Wanted(types, Top) = of
    BY <1>1, <1>4 DEF Wanted
<1> HIDE DEF of
<1>6. /\ NamesAt(def, k)[of] = ret /\ ret \in Name
      /\ Later(KindOf(ret), Meaning!KindIn(def, ret))
      /\ \A j \in Nat : NamesAt(def, j)[of] # NoName => NamesAt(def, j)[of] = ret
    BY <1>1, <1>5, ReturnMeans
<1>7. KindOf(ret) = "extension" <=> Meaning!KindIn(def, ret) = "extension"
    BY <1>6, WrapMeant
<1>8. \A j \in Nat : NamesAt(def, j + 1)[n] =
          IF NamesAt(def, j)[of] = NoName \/ Meaning!KindIn(def, NamesAt(def, j)[of]) = "extension"
          THEN NoName ELSE NamesAt(def, j)[of]
    BY <1>2, <1>3, <1>4, AliasStands DEF of
<1>9. CASE KindOf(ret) = "extension"
    <2>1. Throw("extension_typedef")
        BY <1>9 DEF EndOfAlias
    <2>2. ~Promised
        <3> SUFFICES ASSUME Promised PROVE FALSE
            OBVIOUS
        <3>1. NamesAt(def, left + 1)[n] # NoName
            BY <1>1, <1>2 DEF HasLevels, Wrapper
        <3>2. /\ NamesAt(def, left)[of] # NoName
              /\ Meaning!KindIn(def, NamesAt(def, left)[of]) # "extension"
            BY <1>2, <1>8, <3>1
        <3>3. NamesAt(def, left)[of] = ret
            BY <1>2, <1>6, <3>2
        <3> QED
            BY <1>7, <1>9, <3>2, <3>3
    <2> QED
        BY <1>2, <2>1, <2>2, ThrowMeans DEF Goes
<1>10. CASE KindOf(ret) # "extension"
    <2>1. Finish(types', ret) /\ Ends(ret) /\ types'[n] = MakeNode("alias", ret, <<>>)
        BY <1>10, EndOfAliasEnds
    <2>2. NamesAt(def, k + 1)[n] = ret
        BY <1>1, <1>3, <1>6, <1>7, <1>8, <1>10
    <2>3. types'[n] = Meaning!NodeFor(def, k + 1, n)
        BY <1>4, <2>1, <2>2, NodeForIs
    <2>4. Meaning!Sound(def, k + 1, n)
        BY <1>1, <1>4, <2>2, SameNames DEF Meaning!Sound, NamesAt
    <2>5. NodeMeans(def, k + 1, types', n)
        BY <1>4, <2>3, <2>4 DEF NodeMeans
    <2>6. types'[n].kind \notin Unresolved
        BY <2>1 DEF MakeNode, Unresolved
    <2> QED
        BY <1>1, <2>1, <2>5, <2>6, FinishMeans
<1> QED
    BY <1>9, <1>10

\* The parts that an activation has looked at, each with the type it stands for.
Typed(own, m, names) == [i \in 1 .. m |-> [name |-> own[i].name, type |-> names[own[i].type]]]

\* Typed is a list of parts, the first m of own with their types.
LEMMA TypedFacts ==
    ASSUME NEW own \in Seq(Part), NEW names \in NamesSet, NEW m \in Nat, m <= Len(own),
           \A i \in 1 .. m : names[own[i].type] # NoName
    PROVE  /\ Typed(own, m, names) \in Seq(Part) /\ Len(Typed(own, m, names)) = m
           /\ \A i \in 1 .. m : Typed(own, m, names)[i] =
                                    [name |-> own[i].name, type |-> names[own[i].type]]
<1>1. \A i \in 1 .. m : [name |-> own[i].name, type |-> names[own[i].type]] \in Part
    <2> SUFFICES ASSUME NEW i \in 1 .. m
                 PROVE  [name |-> own[i].name, type |-> names[own[i].type]] \in Part
        OBVIOUS
    <2>1. i \in 1 .. Len(own)
        BY LenProperties
    <2>2. own[i].name \in Label /\ own[i].type \in Name
        BY <2>1, PartFacts
    <2>3. names[own[i].type] \in Name
        BY <2>2 DEF NamesSet
    <2> QED
        BY <2>2, <2>3 DEF Part
<1>2. Typed(own, m, names) \in [1 .. m -> Part]
    BY <1>1 DEF Typed
<1> DEFINE t == Typed(own, m, names)
<1> HIDE DEF t
<1>3. t \in Seq(Part) /\ DOMAIN t = 1 .. m
    BY <1>2 DEF t
<1>4. Len(t) = m
    <2>1. Len(t) \in Nat /\ 1 .. Len(t) = 1 .. m
        BY <1>3, LenProperties
    <2> QED
        BY <2>1
<1> QED
    BY <1>3, <1>4 DEF Typed, t

\* A struct or a variant with all its parts is what is meant.
LEMMA AllTaken ==
    ASSUME NEW d \in Seq(Definition), NEW k \in Nat, NEW f \in Activation,
           f.name \in Meaning!Declared(d), f.todo = <<>>, Collected(d, k, f)
    PROVE  LET own == Meaning!OwnParts(d, NamesAt(d, k), f.name) IN
           /\ Inherits(d, k, f) # Meaning!NoParts /\ own # Meaning!NoParts
           /\ own \in Seq(Part)
           /\ f.parts = Inherits(d, k, f) \o own
<1> DEFINE parts == Meaning!Defines(d, f.name).parts
           names == NamesAt(d, k)
           typed == Typed(parts, Len(parts), names)
<1>1. parts \in Seq(Part) /\ names \in NamesSet
    BY DefinesFacts, NamesFacts DEF Definition
<1>2. Len(f.todo) = 0
    BY EmptySeq
<1>3. Len(parts) - 0 = Len(parts) /\ DOMAIN parts = 1 .. Len(parts)
    <2> HIDE DEF parts
    <2> QED
        BY <1>1, LenProperties
<1>4. \A i \in 1 .. Len(parts) : names[parts[i].type] # NoName
    BY <1>2, <1>3 DEF Collected
<1>5. Inherits(d, k, f) # Meaning!NoParts /\ f.parts = Inherits(d, k, f) \o typed
    BY <1>2, <1>3 DEF Collected, Typed
<1>6. Meaning!OwnParts(d, names, f.name) = typed
    <2>1. ~ \E i \in DOMAIN parts : names[parts[i].type] = NoName
        BY <1>3, <1>4
    <2>2. Meaning!OwnParts(d, names, f.name) =
              [i \in DOMAIN parts |-> [name |-> parts[i].name, type |-> names[parts[i].type]]]
        BY <2>1, SameNames DEF Meaning!OwnParts
    <2> QED
        BY <1>3, <2>2 DEF Typed
<1>7. typed \in Seq(Part)
    <2> HIDE DEF parts, names
    <2>1. Len(parts) \in Nat /\ Len(parts) <= Len(parts)
        BY <1>1, LenProperties
    <2> QED
        BY <1>1, <1>4, <2>1, TypedFacts
<1> QED
    BY <1>5, <1>6, <1>7, NoPartsApart

\* A struct is its fields, a variant its alternatives.
LEMMA EndOfPartsMeans ==
    ASSUME IInv, FinalInv, MeansInv, EndOfParts
    PROVE  Goes
<1> DEFINE n == Top.name
           k == Rank(types)
           own == Meaning!OwnParts(def, NamesAt(def, k), n)
<1>1. /\ stack # <<>> /\ call = NoCall /\ Top.kind \in {"struct", "variant"}
      /\ Top.base = "" /\ Top.todo = <<>>
    BY DEF EndOfParts, TopIs
<1>2. /\ phase \in {"fill", "query"} /\ n \in Name
      /\ Top \in Activation /\ WorksOn(types, Top) /\ IsOpen(types, n)
      /\ FrameMeans(def, k, Top)
    BY <1>1, TopLevels
<1>3. /\ def \in Seq(Definition) /\ k \in Nat /\ k + 1 \in Nat /\ (k + 1) - 1 = k
    BY <1>2, RunFacts
<1>4. /\ n \in Meaning!Declared(def) /\ n \notin DOMAIN Prefilled
      /\ Meaning!KindIn(def, n) = Top.kind
    BY <1>1, <1>2, WorkDefined DEF Wrapper
<1>5. Collected(def, k, Top)
    BY <1>1, <1>2 DEF FrameMeans
<1>6. /\ Inherits(def, k, Top) # Meaning!NoParts /\ own # Meaning!NoParts
      /\ own \in Seq(Part)
      /\ Top.parts = Inherits(def, k, Top) \o own
    BY <1>1, <1>2, <1>3, <1>4, <1>5, AllTaken
<1>7. /\ Finish(types', n) /\ Ends(n)
      /\ types'[n] = MakeNode(Top.kind, "", Top.parts)
    BY EndOfPartsEnds
<1> HIDE DEF own
<1>8. Meaning!Sound(def, k + 1, n) /\ types'[n] = Meaning!NodeFor(def, k + 1, n)
    <2>1. CASE Top.kind = "struct"
        <3>1. FieldsAt(def, k + 1)[n] = Inherits(def, k, Top) \o own
            BY <1>2, <1>3, <1>4, <1>6, <2>1, StructHas DEF Inherits, own
        <3>2. FieldsAt(def, k + 1)[n] = Top.parts
            BY <1>6, <3>1
        <3>3. Top.parts # Meaning!NoParts
            BY <1>2, NoPartsApart DEF Activation
        <3>4. Meaning!Sound(def, k + 1, n)
            BY <1>4, <2>1, <3>2, <3>3 DEF Meaning!Sound, FieldsAt
        <3> QED
            BY <1>4, <1>7, <2>1, <3>2, <3>4, NodeForIs
    <2>2. CASE Top.kind = "variant"
        <3>1. Top.parts = own
            <4>1. Inherits(def, k, Top) = <<>>
                BY <2>2 DEF Inherits
            <4> QED
                BY <1>6, <4>1, ConcatEmptySeq
        <3>2. Meaning!Sound(def, k + 1, n)
            BY <1>3, <1>4, <1>6, <2>2 DEF Meaning!Sound, NamesAt, own
        <3>3. Meaning!NodeFor(def, k + 1, n) = MakeNode("variant", "", own)
            BY <1>3, <1>4, <2>2, NodeForIs DEF own
        <3> QED
            BY <1>7, <2>2, <3>1, <3>2, <3>3
    <2> QED
        BY <1>1, <2>1, <2>2
<1>9. NodeMeans(def, k + 1, types', n)
    BY <1>4, <1>8 DEF NodeMeans
<1>10. types'[n].kind \notin Unresolved /\ n # NoName
    <2>1. types'[n].kind = Top.kind
        <3>1. types'[n] = MakeNode(Top.kind, "", Top.parts)
            BY <1>7
        <3>2. MakeNode(Top.kind, "", Top.parts).kind = Top.kind
            BY DEF MakeNode
        <3> HIDE DEF n
        <3> QED
            BY <3>1, <3>2
    <2>2. Top.kind \notin Unresolved
        BY <1>1 DEF Unresolved
    <2>3. n # NoName
        BY <1>2, NameFacts
    <2> QED
        BY <2>1, <2>2, <2>3
<1> QED
    BY <1>1, <1>7, <1>9, <1>10, FinishMeans

\* An alias is resolved, under fill alone.
LEMMA ResolveAliasMeans ==
    ASSUME IInv, FinalInv, MeansInv, phase \in {"fill", "query"},
           NEW n \in DOMAIN types, KindOf(n) = "alias_def", ResolveAlias(n, Len(stack)),
           Len(stack) < MaxDepth,
           Promised => NamesAt(def, MaxDepth - Len(stack))[n] # NoName
    PROVE  Goes
<1> DEFINE f == PlainFrame("alias", n, Len(stack))
           left == MaxDepth - (Len(stack) + 1)
           of == types[n].of
<1>1. /\ Len(stack) \in Nat /\ n \in Name /\ phase # "query"
    BY NodeFacts, InvParts, LenProperties DEF Parted, TypeOK, NothingLeftOver, Unresolved, KindOf
<1>2. f \in Activation /\ f.kind = "alias" /\ f.name = n
    BY <1>1, PlainFrameFacts DEF PlainFrame, Frame
<1>3. /\ stack' = Append(stack, f) /\ call'.name = of
      /\ UNCHANGED <<def, types, phase, query>>
    BY DEF ResolveAlias, Call
<1>4. def \in Seq(Definition) /\ DOMAIN types \subseteq Name /\ GraphMeans(def, Rank(types), types)
      /\ Rank(types) \in Nat
    BY RunFacts
<1>5. n \in Meaning!Declared(def) /\ Meaning!Defines(def, n).kind = "alias_def"
      /\ Meaning!Defines(def, n).of = of
    BY <1>4, OpenIsEntered DEF KindOf, Unresolved
<1>6. left \in Nat /\ left + 1 = MaxDepth - Len(stack)
    BY <1>1, LimitType
<1> HIDE DEF f, left, of
<1>7. Promised => /\ HasLevels(def, left + 1, f)
                  /\ NamesAt(def, left)[of] # NoName
    <2> SUFFICES ASSUME Promised
                 PROVE  HasLevels(def, left + 1, f) /\ NamesAt(def, left)[of] # NoName
        OBVIOUS
    <2>1. NamesAt(def, left + 1)[n] # NoName
        BY <1>6
    <2>2. NamesAt(def, left)[of] # NoName
        BY <1>1, <1>4, <1>5, <1>6, <2>1, AliasStands
    <2> QED
        BY <1>2, <2>1, <2>2 DEF HasLevels
<1>8. FrameMeans(def, Rank(types), f)
    BY <1>2 DEF FrameMeans, Wrapper
<1> QED
    BY <1>1, <1>2, <1>3, <1>6, <1>7, <1>8, PushMeans DEF left

\* No part looked at: the list is empty.
LEMMA NoneTyped ==
    ASSUME NEW own \in Seq(Part), NEW names \in NamesSet
    PROVE  /\ Typed(own, 0, names) = <<>> /\ Len(own) - Len(own) = 0
           /\ \A i \in 1 .. 0 : names[own[i].type] # NoName
<1>1. Len(own) \in Nat
    BY LenProperties
<1>2. 0 <= Len(own) /\ 0 \in Nat /\ 1 .. 0 = {} /\ Len(own) - Len(own) = 0
    BY <1>1
<1>3. Typed(own, 0, names) \in Seq(Part) /\ Len(Typed(own, 0, names)) = 0
    BY <1>2, TypedFacts
<1>4. Typed(own, 0, names) = <<>>
    BY <1>3, EmptySeq
<1> QED
    BY <1>2, <1>4

\* A struct or a variant begins without parts.
LEMMA BeginsCollected ==
    ASSUME NEW d \in Seq(Definition), NEW k \in Nat, NEW f \in Activation,
           f.name \in Meaning!Declared(d), f.parts = <<>>,
           f.base = Meaning!Defines(d, f.name).of, f.todo = Meaning!Defines(d, f.name).parts,
           f.base = ""
    PROVE  Collected(d, k, f)
<1> DEFINE own == Meaning!Defines(d, f.name).parts
           names == NamesAt(d, k)
<1>1. own \in Seq(Part) /\ names \in NamesSet
    BY DefinesFacts, NamesFacts DEF Definition
<1>2. Inherits(d, k, f) = <<>>
    BY SameNames DEF Inherits, Meaning!Inherited
<1>3. <<>> # Meaning!NoParts
    BY NoPartsApart, NoParts
<1>4. /\ Typed(own, 0, names) = <<>> /\ Len(own) - Len(own) = 0
      /\ \A i \in 1 .. 0 : names[own[i].type] # NoName
    <2> HIDE DEF own, names
    <2> QED
        BY <1>1, NoneTyped
<1>5. Len(own) - Len(f.todo) = 0
    BY <1>4, Zenon
<1>8. f.parts = <<>> \o Typed(own, 0, names)
    BY <1>4, NoParts, ConcatEmptySeq
<1> HIDE DEF own, names
<1> QED
    BY <1>2, <1>3, <1>4, <1>5, <1>8 DEF Collected, Typed, own, names

\* A struct or a variant is resolved, under fill alone.
LEMMA ResolvePartsMeans ==
    ASSUME IInv, FinalInv, MeansInv, phase \in {"fill", "query"},
           NEW n \in DOMAIN types, NEW kind \in {"struct", "variant"},
           kind = "struct" => KindOf(n) = "struct_def",
           kind = "variant" => KindOf(n) = "variant_def" /\ stack = <<>>,
           ResolveParts(kind, n, Len(stack)),
           Promised => \A f \in Activation :
               f.kind = kind /\ f.name = n => HasLevels(def, MaxDepth - Len(stack), f)
    PROVE  Goes
<1> DEFINE f == Frame(kind, n, Len(stack), types[n].of, types[n].parts, <<>>)
<1>1. /\ Len(stack) \in Nat /\ Len(stack) <= MaxDepth /\ n \in Name /\ phase # "query"
      /\ types[n].of \in Name /\ types[n].parts \in Seq(Part)
    BY NodeFacts, InvParts, LenProperties
    DEF Parted, TypeOK, NothingLeftOver, Unresolved, KindOf, StackGood
<1>2. /\ f \in Activation
      /\ f.kind = kind /\ f.name = n /\ f.base = types[n].of /\ f.todo = types[n].parts
      /\ f.parts = <<>>
    BY <1>1, NoParts DEF Frame, Activation
<1> HIDE DEF f
<1>3. def \in Seq(Definition) /\ DOMAIN types \subseteq Name /\ GraphMeans(def, Rank(types), types)
      /\ Rank(types) \in Nat
    BY RunFacts
<1>4. /\ n \in Meaning!Declared(def) /\ Meaning!Defines(def, n).of = types[n].of
      /\ Meaning!Defines(def, n).parts = types[n].parts
    BY <1>3, OpenIsEntered DEF KindOf, Unresolved
<1>5. Promised => HasLevels(def, MaxDepth - Len(stack), f)
    BY <1>2
<1>6. CASE Len(stack) >= MaxDepth
    <2>1. Throw("recursion_limit_reached")
        BY <1>6 DEF ResolveParts
    <2>2. MaxDepth - Len(stack) = 0 /\ Len(stack) # 0
        BY <1>1, <1>6, LimitType
    <2>3. kind = "struct"
        <3>1. stack = <<>> => Len(stack) = 0
            BY EmptySeq
        <3> QED
            BY <2>2, <3>1
    <2>4. ~Promised
        BY <1>1, <1>2, <1>3, <1>5, <2>2, <2>3, FieldsFacts DEF HasLevels
    <2> QED
        BY <2>1, <2>4, ThrowMeans DEF Goes
<1>7. CASE ~(Len(stack) >= MaxDepth)
    <2>1. /\ stack' = Append(stack, f) /\ call' = NoCall
          /\ UNCHANGED <<def, types, phase, query>>
        BY <1>7 DEF ResolveParts, f
    <2>2. f.base = "" => Collected(def, Rank(types), f)
        BY <1>2, <1>3, <1>4, BeginsCollected
    <2>3. FrameMeans(def, Rank(types), f)
        BY <1>2, <2>2 DEF FrameMeans, Wrapper
    <2> QED
        BY <1>1, <1>2, <1>5, <2>1, <2>3, PushMeans
<1> QED
    BY <1>6, <1>7

\* fill goes to work on a definition.
LEMMA FillMeans ==
    ASSUME IInv, FinalInv, MeansInv, Fill
    PROVE  Goes
<1>1. phase = "fill" /\ stack = <<>> /\ call = NoCall
    BY DEF Fill, Idle
<1>2. PICK i \in cursor + 1 .. Len(MapOrder) :
          /\ IsUnresolved(MapOrder[i])
          /\ IF KindOf(MapOrder[i]) = "alias_def" THEN ResolveAlias(MapOrder[i], 0)
             ELSE IF KindOf(MapOrder[i]) = "struct_def" THEN ResolveParts("struct", MapOrder[i], 0)
             ELSE ResolveParts("variant", MapOrder[i], 0)
    BY DEF Fill
<1> DEFINE n == MapOrder[i]
<1>3. Len(stack) = 0 /\ 0 < MaxDepth /\ MaxDepth - 0 = MaxDepth
    BY <1>1, LimitType
<1>4. n \in DOMAIN types /\ KindOf(n) \in Unresolved
    BY <1>2 DEF IsUnresolved
<1>5. IF KindOf(n) = "alias_def" THEN ResolveAlias(n, 0)
      ELSE IF KindOf(n) = "struct_def" THEN ResolveParts("struct", n, 0)
      ELSE ResolveParts("variant", n, 0)
    BY <1>2
<1> HIDE DEF n
<1>6. def \in Seq(Definition) /\ DOMAIN types \subseteq Name /\ GraphMeans(def, Rank(types), types)
      /\ Rank(types) \in Nat
    BY <1>1, RunFacts
<1>7. /\ n \in Meaning!Declared(def) /\ n \notin DOMAIN Prefilled
      /\ Meaning!Defines(def, n).kind = KindOf(n)
    BY <1>4, <1>6, OpenIsEntered DEF KindOf
<1>8. Promised => Meaning!Sound(def, MaxDepth, n)
    BY <1>1, <1>7 DEF Promised, Meaning!AllSound
<1>9. CASE KindOf(n) = "alias_def"
    <2>1. Meaning!KindIn(def, n) = "alias"
        BY <1>7, <1>9 DEF Meaning!KindIn, Meaning!Made
    <2>2. Promised => NamesAt(def, MaxDepth - Len(stack))[n] # NoName
        BY <1>3, <1>8, <2>1, SameNames DEF Meaning!Sound, NamesAt
    <2> QED
        BY <1>1, <1>3, <1>4, <1>5, <1>9, <2>2, ResolveAliasMeans
<1>10. CASE KindOf(n) = "struct_def"
    <2>1. Meaning!KindIn(def, n) = "struct"
        BY <1>7, <1>10 DEF Meaning!KindIn, Meaning!Made
    <2>2. Promised => FieldsAt(def, MaxDepth - Len(stack))[n] # Meaning!NoParts
        BY <1>3, <1>8, <2>1 DEF Meaning!Sound, FieldsAt
    <2>3. Promised => \A f \in Activation :
              f.kind = "struct" /\ f.name = n => HasLevels(def, MaxDepth - Len(stack), f)
        BY <2>2 DEF HasLevels
    <2> QED
        BY <1>1, <1>3, <1>4, <1>5, <1>10, <2>3, ResolvePartsMeans
<1>11. CASE KindOf(n) = "variant_def"
    <2>1. Meaning!KindIn(def, n) = "variant"
        BY <1>7, <1>11 DEF Meaning!KindIn, Meaning!Made
    <2>2. Promised => Meaning!OwnParts(def, NamesAt(def, (MaxDepth - Len(stack)) - 1), n)
                          # Meaning!NoParts
        BY <1>3, <1>8, <2>1 DEF Meaning!Sound, NamesAt
    <2>3. Promised => \A f \in Activation :
              f.kind = "variant" /\ f.name = n => HasLevels(def, MaxDepth - Len(stack), f)
        BY <2>2 DEF HasLevels
    <2> QED
        BY <1>1, <1>3, <1>4, <1>5, <1>11, <2>3, ResolvePartsMeans
<1> QED
    BY <1>4, <1>9, <1>10, <1>11 DEF Unresolved

\* get_type has the levels that what its name stands for takes.
LEMMA GetTypeMeans ==
    ASSUME IInv, FinalInv, MeansInv, GetType
    PROVE  Goes
<1> DEFINE n == call.name
           k == Rank(types)
<1>1. Parted /\ call # NoCall
    BY InvParts DEF GetType
<1>2. /\ call \in [name : Name, depth : Nat] /\ call.depth = Len(stack)
      /\ stack \in Seq(Activation) /\ StackGood(types, stack)
      /\ phase \in {"fill", "query"}
    BY <1>1 DEF Parted, TypeOK, PhaseShape, Idle
<1>3. n \in Name /\ Len(stack) \in Nat /\ Len(stack) <= MaxDepth /\ MaxDepth \in Nat
    BY <1>2, LenProperties, LimitType DEF StackGood
<1>4. IF Len(stack) >= MaxDepth THEN Throw("recursion_limit_reached")
      ELSE IF n \in DOMAIN types THEN Found(n, Len(stack)) ELSE Missing(n, Len(stack))
    BY <1>2 DEF GetType
<1>5. /\ def \in Seq(Definition) /\ DOMAIN types \subseteq Name /\ k \in Nat
      /\ GraphMeans(def, k, types)
    BY <1>2, RunFacts
<1>6. Promised => NamesAt(def, MaxDepth - Len(stack))[n] # NoName
    BY <1>1 DEF MeansInv, LevelsLeft
<1>7. phase = "query" /\ stack = <<>> => n = query
    BY <1>1 DEF MeansInv, QueryServes
<1>8. n # NoName
    BY <1>3, NameFacts
<1> HIDE DEF n, k
<1>9. ASSUME NEW e, Throw(e), ~Promised PROVE Goes
    BY <1>2, <1>9, ThrowMeans DEF Goes
<1>10. CASE Len(stack) >= MaxDepth
    <2>1. MaxDepth - Len(stack) = 0
        BY <1>3, <1>10
    <2>2. ~Promised
        BY <1>3, <1>5, <1>6, <2>1, NamesFacts
    <2> QED
        BY <1>4, <1>9, <1>10, <2>2
<1>11. CASE Len(stack) < MaxDepth /\ n \in DOMAIN types /\ KindOf(n) = "alias_def"
    <2>1. ResolveAlias(n, Len(stack))
        BY <1>3, <1>4, <1>11 DEF Found
    <2> QED
        BY <1>2, <1>6, <1>11, <2>1, ResolveAliasMeans
<1>12. CASE Len(stack) < MaxDepth /\ n \in DOMAIN types /\ KindOf(n) # "alias_def"
    <2>1. Found(n, Len(stack))
        BY <1>3, <1>4, <1>12
    <2>2. /\ ret' = IF KindOf(n) = "alias" THEN types[n].of ELSE n
          /\ call' = NoCall /\ UNCHANGED <<def, types, phase, stack, query>>
        BY <1>12, <2>1 DEF Found, Return
    <2>3. IsFound(types, n) /\ ret' = Target(types, n)
        BY <1>12, <2>2 DEF IsFound, Target, KindOf
    <2>4. ret' # NoName
        <3>1. types[n].of \in Name
            BY <1>12, NodeFacts
        <3> QED
            BY <1>8, <2>2, <3>1, NameFacts
    <2>5. phase = "query" => QueryServes'
        BY <1>7, <2>2, <2>3, <2>4 DEF QueryServes, MeansInv, Idle
    <2> QED
        BY <1>2, <2>2, <2>5, CallMeans
<1>13. CASE Len(stack) < MaxDepth /\ n \notin DOMAIN types
    <2> DEFINE left == MaxDepth - (Len(stack) + 1)
    <2>1. left \in Nat /\ left + 1 = MaxDepth - Len(stack)
        BY <1>3, <1>13
    <2>2. Missing(n, Len(stack))
        BY <1>3, <1>4, <1>13
    <2>3. n \notin Meaning!Declared(def) /\ n \notin DOMAIN Prefilled
        BY <1>5, <1>13 DEF GraphMeans
    <2> HIDE DEF left
    <2>4. NamesAt(def, left + 1)[n] # NoName => Suffix[n] # "none" /\ NamesAt(def, left)[Stem[n]] # NoName
        BY <1>3, <1>5, <2>1, <2>3, WrapperStands
    <2>5. CASE Suffix[n] = "none"
        <3>1. Throw("unknown_type") /\ ~Promised
            BY <1>6, <2>1, <2>2, <2>4, <2>5 DEF Missing
        <3> QED
            BY <1>9, <3>1
    <2>6. CASE Suffix[n] # "none"
        <3> DEFINE f == PlainFrame(Suffix[n], n, Len(stack))
        <3>1. /\ stack' = Append(stack, f) /\ call'.name = Stem[n]
              /\ UNCHANGED <<def, types, phase, query>>
            BY <2>2, <2>6 DEF Missing, Call
        <3>2. Suffix[n] \in Wrapper
            BY <1>3, <2>6, NameFacts
        <3>3. /\ f \in Activation /\ f.kind = Suffix[n] /\ f.name = n
            BY <1>3, <3>2, PlainFrameFacts DEF PlainFrame, Frame
        <3> HIDE DEF f
        <3>4. FrameMeans(def, Rank(types), f)
            BY <3>2, <3>3 DEF FrameMeans, Wrapper
        <3>5. Promised => /\ HasLevels(def, left + 1, f)
                          /\ NamesAt(def, left)[call'.name] # NoName
            BY <1>6, <2>1, <2>4, <3>1, <3>2, <3>3 DEF HasLevels, Wrapper
        <3>6. phase = "query" => f.kind \in Wrapper /\ (stack = <<>> => f.name = query)
            BY <1>7, <3>2, <3>3
        <3>7. Promised => /\ HasLevels(def, MaxDepth - Len(stack), f)
                          /\ NamesAt(def, MaxDepth - (Len(stack) + 1))[call'.name] # NoName
            BY <2>1, <3>5 DEF left
        <3> QED
            BY <1>2, <3>1, <3>3, <3>4, <3>6, <3>7, PushMeans
    <2> QED
        BY <2>5, <2>6
<1> QED
    BY <1>3, <1>10, <1>11, <1>12, <1>13

-----------------------------------------------------------------------------
(* The loops over the base and the parts.                                  *)

\* Lists that agree everywhere are the same.
LEMMA EqualParts ==
    ASSUME NEW s \in Seq(Part), NEW t \in Seq(Part), NEW m \in Nat, Len(s) = m, Len(t) = m,
           \A i \in 1 .. m : s[i] = t[i]
    PROVE  s = t
BY SeqEqual

\* Two lists of parts, one after the other.
LEMMA PartsJoined ==
    ASSUME NEW s \in Seq(Part), NEW t \in Seq(Part), NEW a \in Nat, NEW b \in Nat,
           Len(s) = a, Len(t) = b
    PROVE  /\ s \o t \in Seq(Part) /\ Len(s \o t) = a + b
           /\ \A i \in 1 .. a : (s \o t)[i] = s[i]
           /\ \A i \in 1 .. b : (s \o t)[a + i] = t[i]
<1>1. /\ s \o t \in Seq(Part) /\ Len(s \o t) = a + b
      /\ \A i \in 1 .. a + b : (s \o t)[i] = IF i <= a THEN s[i] ELSE t[i - a]
    BY ConcatProperties
<1> DEFINE u == s \o t
<1> HIDE DEF u
<1>2. \A i \in 1 .. a + b : u[i] = IF i <= a THEN s[i] ELSE t[i - a]
    BY <1>1 DEF u
<1>3. ASSUME NEW i \in 1 .. a PROVE u[i] = s[i]
    BY <1>2
<1>4. ASSUME NEW i \in 1 .. b PROVE u[a + i] = t[i]
    <2>1. a + i \in 1 .. a + b /\ ~(a + i <= a) /\ (a + i) - a = i
        OBVIOUS
    <2> QED
        BY <1>2, <2>1
<1> QED
    BY <1>1, <1>3, <1>4 DEF u

\* One part more.
LEMMA OneMore ==
    ASSUME NEW inh \in Seq(Part), NEW own \in Seq(Part), NEW names \in NamesSet, NEW m \in Nat,
           m + 1 <= Len(own), \A i \in 1 .. m + 1 : names[own[i].type] # NoName
    PROVE  Append(inh \o Typed(own, m, names),
                  [name |-> own[m + 1].name, type |-> names[own[m + 1].type]])
               = inh \o Typed(own, m + 1, names)
<1> DEFINE s == Typed(own, m, names)
           t == Typed(own, m + 1, names)
           e == [name |-> own[m + 1].name, type |-> names[own[m + 1].type]]
           u == inh \o s
           v == inh \o t
           a == Len(inh)
<1>1. a \in Nat /\ Len(own) \in Nat
    BY LenProperties
<1>2. m <= Len(own) /\ \A i \in 1 .. m : i \in 1 .. m + 1
    BY <1>1
<1>3. /\ s \in Seq(Part) /\ Len(s) = m
      /\ \A i \in 1 .. m : s[i] = [name |-> own[i].name, type |-> names[own[i].type]]
    BY <1>2, TypedFacts
<1>4. /\ t \in Seq(Part) /\ Len(t) = m + 1
      /\ \A i \in 1 .. m + 1 : t[i] = [name |-> own[i].name, type |-> names[own[i].type]]
    BY TypedFacts
<1>5. m + 1 \in 1 .. m + 1
    OBVIOUS
<1>6. t[m + 1] = e /\ \A i \in 1 .. m : t[i] = s[i]
    BY <1>2, <1>3, <1>4, <1>5
<1>7. e \in Part
    <2>1. t[m + 1] \in Part
        <3> HIDE DEF t
        <3> QED
            BY <1>4, <1>5, PartFacts
    <2> QED
        BY <1>6, <2>1
<1> HIDE DEF s, t, e, a
<1>8. /\ u \in Seq(Part) /\ Len(u) = a + m
      /\ \A i \in 1 .. a : u[i] = inh[i]
      /\ \A i \in 1 .. m : u[a + i] = s[i]
    BY <1>1, <1>3, PartsJoined DEF a
<1>9. /\ v \in Seq(Part) /\ Len(v) = a + (m + 1)
      /\ \A i \in 1 .. a : v[i] = inh[i]
      /\ \A i \in 1 .. m + 1 : v[a + i] = t[i]
    <2>1. m + 1 \in Nat
        OBVIOUS
    <2> QED
        BY <1>1, <1>4, <2>1, PartsJoined DEF a
<1> HIDE DEF u, v
<1>10. /\ Push(u, e) \in Seq(Part) /\ Len(Push(u, e)) = a + (m + 1)
       /\ Push(u, e)[a + (m + 1)] = e
       /\ \A i \in 1 .. a + m : Push(u, e)[i] = u[i]
    <2>1. (a + m) + 1 = a + (m + 1)
        BY <1>1
    <2>2. /\ Push(u, e) \in Seq(Part) /\ Len(Push(u, e)) = Len(u) + 1
          /\ Push(u, e)[Len(u) + 1] = e
          /\ \A i \in 1 .. Len(u) : Push(u, e)[i] = u[i]
        BY <1>7, <1>8, PartPushed
    <2> QED
        BY <1>8, <2>1, <2>2
<1> DEFINE w == Push(u, e)
<1> HIDE DEF w
<1>11. ASSUME NEW i \in 1 .. a + (m + 1) PROVE w[i] = v[i]
    <2>1. CASE i \in 1 .. a
        <3>1. i \in 1 .. a + m
            BY <1>1, <2>1
        <3> QED
            BY <1>8, <1>9, <1>10, <2>1, <3>1 DEF w
    <2>2. CASE i \notin 1 .. a /\ i # a + (m + 1)
        <3>1. PICK j \in 1 .. m : i = a + j
            <4>1. i - a \in 1 .. m /\ i = a + (i - a)
                BY <1>1, <2>2
            <4> QED
                BY <4>1
        <3>2. a + j \in 1 .. a + m /\ j \in 1 .. m + 1
            BY <1>1
        <3>3. w[a + j] = s[j]
            BY <1>8, <1>10, <3>2 DEF w
        <3>4. v[a + j] = t[j]
            BY <1>9, <3>2
        <3> QED
            BY <1>6, <3>1, <3>3, <3>4
    <2>3. CASE i = a + (m + 1)
        BY <1>5, <1>6, <1>9, <1>10, <2>3 DEF w
    <2> QED
        BY <2>1, <2>2, <2>3
<1>12. w = v
    <2>1. a + (m + 1) \in Nat
        BY <1>1
    <2>2. w \in Seq(Part) /\ Len(w) = a + (m + 1)
        BY <1>10 DEF w
    <2> QED
        BY <1>9, <1>11, <2>1, <2>2, EqualParts
<1> QED
    BY <1>12 DEF w, v, u, e, s, t, Push

\* The part that an activation is at.
LEMMA HeadInOrder ==
    ASSUME NEW s \in Seq(Part), NEW own \in Seq(Part), s # <<>>, Len(s) <= Len(own),
           \A i \in 1 .. Len(s) : s[i] = own[i + (Len(own) - Len(s))]
    PROVE  LET m == Len(own) - Len(s) IN
           /\ m \in Nat /\ m + 1 <= Len(own) /\ m + 1 \in 1 .. Len(own)
           /\ Head(s) = own[m + 1]
           /\ Len(own) - Len(Tail(s)) = m + 1
<1>1. Head(s) = s[1]
    BY HeadIs
<1>2. Len(s) = Len(Tail(s)) + 1 /\ Len(Tail(s)) \in Nat
    BY TailInOrder
<1>3. Len(own) \in Nat
    BY LenProperties
<1> DEFINE a == Len(s)
           b == Len(Tail(s))
           c == Len(own)
<1>4. s[1] = own[1 + (c - a)]
    <2>1. 1 \in 1 .. a
        BY <1>2
    <2> QED
        BY <2>1
<1> HIDE DEF a, b, c
<1>5. a = b + 1 /\ b \in Nat /\ c \in Nat /\ a <= c
    BY <1>2, <1>3 DEF a, b, c
<1>6. /\ c - a \in Nat /\ (c - a) + 1 <= c /\ (c - a) + 1 \in 1 .. c
      /\ c - b = (c - a) + 1 /\ 1 + (c - a) = (c - a) + 1
    BY <1>5
<1> QED
    BY <1>1, <1>4, <1>6 DEF a, b, c

\* What a struct or a variant is at work on, and the levels that it has.
LEMMA PartsWork ==
    ASSUME IInv, FinalInv, MeansInv, stack # <<>>, call = NoCall, Top.kind \in {"struct", "variant"}
    PROVE  LET own == Meaning!Defines(def, Top.name).parts
               base == Meaning!Defines(def, Top.name).of
               left == MaxDepth - Len(stack)
           IN /\ phase \in {"fill", "query"} /\ Top \in Activation
              /\ def \in Seq(Definition) /\ Top.name \in Meaning!Declared(def)
              /\ own \in Seq(Part) /\ Top.todo \in Seq(Part) /\ Len(Top.todo) <= Len(own)
              /\ \A i \in 1 .. Len(Top.todo) : Top.todo[i] = own[i + (Len(own) - Len(Top.todo))]
              /\ Top.base # "" => Top.base = base /\ Len(Top.todo) = Len(own)
              /\ left \in Nat
              /\ Promised =>
                     /\ \A i \in 1 .. Len(own) : NamesAt(def, left)[own[i].type] # NoName
                     /\ Top.kind = "struct" =>
                            Meaning!Inherited(def, NamesAt(def, left), FieldsAt(def, left), Top.name)
                                # Meaning!NoParts
<1> DEFINE n == Top.name
           own == Meaning!Defines(def, n).parts
           base == Meaning!Defines(def, n).of
           left == MaxDepth - Len(stack)
<1>1. /\ phase \in {"fill", "query"} /\ Top \in Activation /\ n \in Name
      /\ WorksOn(types, Top) /\ IsOpen(types, n) /\ InOrder(types, Top)
      /\ left \in Nat
      /\ Promised => HasLevels(def, left + 1, Top)
    BY TopLevels
<1>2. def \in Seq(Definition)
    BY <1>1, RunFacts
<1>3. /\ n \in Meaning!Declared(def) /\ n \notin DOMAIN Prefilled
      /\ base = types[n].of /\ own = types[n].parts /\ Meaning!KindIn(def, n) = Top.kind
    BY <1>1, WorkDefined DEF Wrapper
<1>4. own \in Seq(Part)
    BY <1>2, <1>3, DefinesFacts DEF Definition
<1>5. Top.todo \in Seq(Part)
    BY <1>1 DEF Activation
<1>6. /\ Len(Top.todo) <= Len(own)
      /\ \A i \in 1 .. Len(Top.todo) : Top.todo[i] = own[i + (Len(own) - Len(Top.todo))]
      /\ Top.base # "" => Top.base = base /\ Len(Top.todo) = Len(own)
    BY <1>1, <1>3 DEF InOrder
<1> HIDE DEF left
<1>7. ASSUME Promised
      PROVE  /\ Meaning!OwnParts(def, NamesAt(def, left), n) # Meaning!NoParts
             /\ Top.kind = "struct" =>
                    (Meaning!Inherited(def, NamesAt(def, left), FieldsAt(def, left), n)
                         # Meaning!NoParts)
    <2>1. CASE Top.kind = "struct"
        <3>1. FieldsAt(def, left + 1)[n] # Meaning!NoParts
            BY <1>1, <1>7, <2>1 DEF HasLevels
        <3> QED
            BY <1>1, <1>2, <1>3, <2>1, <3>1, StructHas
    <2>2. CASE Top.kind = "variant"
        <3>1. (left + 1) - 1 = left
            BY <1>1
        <3> QED
            BY <1>1, <1>7, <2>2, <3>1 DEF HasLevels
    <2> QED
        BY <2>1, <2>2
<1>8. Promised => \A i \in 1 .. Len(own) : NamesAt(def, left)[own[i].type] # NoName
    <2> DEFINE names == NamesAt(def, left)
    <2>1. names \in NamesSet
        BY <1>1, <1>2, NamesFacts
    <2>2. Promised => Meaning!OwnParts(def, names, n) # Meaning!NoParts
        BY <1>7
    <2> HIDE DEF names
    <2>3. Promised => \A i \in 1 .. Len(own) : names[own[i].type] # NoName
        BY <1>2, <1>3, <2>1, <2>2, OwnPartsType
    <2> QED
        BY <2>3 DEF names
<1> QED
    BY <1>1, <1>2, <1>3, <1>4, <1>5, <1>6, <1>7, <1>8 DEF left

\* The base is called for with the levels that it takes.
LEMMA CallBaseMeans ==
    ASSUME IInv, FinalInv, MeansInv, CallBase
    PROVE  Goes
<1>1. /\ stack # <<>> /\ call = NoCall /\ Top.kind = "struct" /\ Top.base # ""
      /\ call'.name = Top.base
      /\ UNCHANGED <<def, phase, types, stack, query>>
    BY DEF CallBase, TopIs, Call
<1>2. /\ phase \in {"fill", "query"} /\ Top.base = Meaning!Defines(def, Top.name).of
      /\ Promised => Meaning!Inherited(def, NamesAt(def, MaxDepth - Len(stack)),
                         FieldsAt(def, MaxDepth - Len(stack)), Top.name) # Meaning!NoParts
    BY <1>1, PartsWork
<1>3. Promised => NamesAt(def, MaxDepth - Len(stack))[call'.name] # NoName
    BY <1>1, <1>2, SameNames DEF Meaning!Inherited
<1>4. phase = "query" => QueryServes'
    BY <1>1 DEF MeansInv, QueryServes, Idle
<1> QED
    BY <1>1, <1>2, <1>3, <1>4, CallMeans

\* So is each part.
LEMMA CallPartMeans ==
    ASSUME IInv, FinalInv, MeansInv, CallPart
    PROVE  Goes
<1> DEFINE own == Meaning!Defines(def, Top.name).parts
           m == Len(own) - Len(Top.todo)
<1>1. /\ stack # <<>> /\ call = NoCall /\ Top.kind \in {"struct", "variant"} /\ Top.todo # <<>>
      /\ call'.name = Head(Top.todo).type
      /\ UNCHANGED <<def, phase, types, stack, query>>
    BY DEF CallPart, TopIs, Call
<1>2. /\ phase \in {"fill", "query"} /\ own \in Seq(Part) /\ Top.todo \in Seq(Part)
      /\ Len(Top.todo) <= Len(own)
      /\ \A i \in 1 .. Len(Top.todo) : Top.todo[i] = own[i + (Len(own) - Len(Top.todo))]
      /\ Promised =>
             \A i \in 1 .. Len(own) : NamesAt(def, MaxDepth - Len(stack))[own[i].type] # NoName
    BY <1>1, PartsWork
<1> HIDE DEF own
<1>3. m + 1 \in 1 .. Len(own) /\ Head(Top.todo) = own[m + 1]
    BY <1>1, <1>2, HeadInOrder
<1>4. Promised => NamesAt(def, MaxDepth - Len(stack))[call'.name] # NoName
    BY <1>1, <1>2, <1>3
<1>5. phase = "query" => QueryServes'
    BY <1>1 DEF MeansInv, QueryServes, Idle
<1> QED
    BY <1>1, <1>2, <1>4, <1>5, CallMeans

\* The parts that have been looked at are one more.
LEMMA CollectedMore ==
    ASSUME NEW d \in Seq(Definition), NEW k \in Nat, NEW f \in Activation, NEW g \in Activation,
           NEW node \in Name, f.name \in Meaning!Declared(d), f.todo # <<>>,
           LET own == Meaning!Defines(d, f.name).parts IN
               /\ Len(f.todo) <= Len(own)
               /\ \A i \in 1 .. Len(f.todo) : f.todo[i] = own[i + (Len(own) - Len(f.todo))],
           Collected(d, k, f), NamesAt(d, k)[Head(f.todo).type] = node,
           g.kind = f.kind, g.name = f.name, g.todo = Tail(f.todo),
           g.parts = Append(f.parts, [name |-> Head(f.todo).name, type |-> node])
    PROVE  Collected(d, k, g)
<1> DEFINE own == Meaning!Defines(d, f.name).parts
           names == NamesAt(d, k)
           inh == Inherits(d, k, f)
           m == Len(own) - Len(f.todo)
<1>1. /\ own \in Seq(Part) /\ names \in NamesSet /\ f.todo \in Seq(Part)
      /\ FieldsAt(d, k) \in FieldsSet
    BY DefinesFacts, NamesFacts, FieldsFacts DEF Definition, Activation
<1>2. /\ inh # Meaning!NoParts
      /\ \A i \in 1 .. m : names[own[i].type] # NoName
      /\ f.parts = inh \o Typed(own, m, names)
    BY DEF Collected, Typed
<1>3. inh \in Seq(Part)
    <2>1. CASE f.kind = "struct"
        BY <1>1, <1>2, <2>1, InheritedType DEF Inherits
    <2>2. CASE f.kind # "struct"
        BY <2>2, NoParts DEF Inherits
    <2> QED
        BY <2>1, <2>2
<1>4. Inherits(d, k, g) = inh
    BY DEF Inherits
<1>5. /\ Len(f.todo) <= Len(own)
      /\ \A i \in 1 .. Len(f.todo) : f.todo[i] = own[i + (Len(own) - Len(f.todo))]
    OBVIOUS
<1>6. Meaning!Defines(d, g.name).parts = own
    OBVIOUS
<1> HIDE DEF own, names, inh
<1>7. /\ m \in Nat /\ m + 1 <= Len(own) /\ Head(f.todo) = own[m + 1]
      /\ Len(own) - Len(g.todo) = m + 1
    BY <1>1, <1>5, HeadInOrder
<1>8. names[own[m + 1].type] = node /\ node # NoName
    BY <1>7, NameFacts DEF names
<1>9. g.parts = Append(inh \o Typed(own, m, names),
                       [name |-> own[m + 1].name, type |-> names[own[m + 1].type]])
    BY <1>2, <1>7, <1>8
<1> HIDE DEF m
<1>10. \A i \in 1 .. m + 1 : names[own[i].type] # NoName
    <2>1. \A i \in 1 .. m + 1 : i \in 1 .. m \/ i = m + 1
        BY <1>7
    <2> QED
        BY <1>2, <1>8, <2>1
<1>11. g.parts = inh \o Typed(own, m + 1, names)
    BY <1>1, <1>3, <1>7, <1>9, <1>10, OneMore
<1> QED
    BY <1>2, <1>4, <1>6, <1>7, <1>10, <1>11 DEF Collected, Typed, names

\* A part has come back.
LEMMA TakePartMeans ==
    ASSUME IInv, FinalInv, MeansInv, TakePart
    PROVE  Goes
<1> DEFINE k == Rank(types)
           rest == Tail(Top.todo)
<1>1. /\ stack # <<>> /\ call = NoCall /\ Top.kind \in {"struct", "variant"}
      /\ Top.base = "" /\ ret # NoName
      /\ stack' = WithTop(rest, WithPart)
      /\ UNCHANGED <<def, types, phase, query, call>>
    BY DEF TakePart, TopIs
<1>2. Awaits(Top)
    BY <1>1, ReturnedFacts
<1>3. Top.todo # <<>> /\ Wanted(types, Top) = Head(Top.todo).type
    BY <1>1, <1>2 DEF Awaits, Wanted, Wrapper
<1>4. ret \in Name /\ NamesAt(def, k)[Head(Top.todo).type] = ret
    BY <1>1, <1>3, ReturnMeans
<1>5. /\ phase \in {"fill", "query"} /\ Top \in Activation
      /\ def \in Seq(Definition) /\ Top.name \in Meaning!Declared(def)
      /\ Top.todo \in Seq(Part)
    BY <1>1, PartsWork
<1>6. LET own == Meaning!Defines(def, Top.name).parts IN
          /\ Len(Top.todo) <= Len(own)
          /\ \A i \in 1 .. Len(Top.todo) : Top.todo[i] = own[i + (Len(own) - Len(Top.todo))]
    BY <1>1, PartsWork
<1>7. k \in Nat
    BY <1>5, RunFacts
<1>8. Collected(def, k, Top)
    BY <1>1, TopLevels DEF FrameMeans
<1>9. rest \in Seq(Part) /\ WithPart \in Seq(Part)
    <2>1. Head(Top.todo) \in Part /\ rest \in Seq(Part)
        BY <1>3, <1>5, HeadTailProperties
    <2>2. [name |-> Head(Top.todo).name, type |-> ret] \in Part
        BY <1>4, <2>1 DEF Part
    <2>3. Top.parts \in Seq(Part)
        BY <1>5 DEF Activation
    <2> QED
        BY <2>1, <2>2, <2>3, AppendProperties DEF WithPart
<1> HIDE DEF rest
<1>10. ASSUME NEW f \in Activation, f = Frame(Top.kind, Top.name, Top.depth, "", rest, WithPart)
       PROVE  FrameMeans(def, k, f)
    <2>1. /\ f.kind = Top.kind /\ f.name = Top.name /\ f.todo = rest /\ f.parts = WithPart
        BY <1>10 DEF Frame
    <2>2. Collected(def, k, f)
        BY <1>3, <1>4, <1>5, <1>6, <1>7, <1>8, <2>1, CollectedMore DEF WithPart, rest
    <2> QED
        BY <1>1, <2>1, <2>2 DEF FrameMeans, Wrapper
<1> QED
    BY <1>1, <1>9, <1>10, ReplaceMeans

\* Only structs have fields.
LEMMA FieldsOfStructs ==
    ASSUME NEW d \in Seq(Definition), NEW k \in Nat, NEW n \in Name,
           FieldsAt(d, k)[n] # Meaning!NoParts
    PROVE  /\ Meaning!KindIn(d, n) = "struct"
           /\ n \notin Meaning!Declared(d) /\ n \in DOMAIN Prefilled =>
                  FieldsAt(d, k)[n] = Prefilled[n].parts
<1>1. k # 0
    BY FieldsFacts
<1>2. PICK j \in Nat : k = j + 1
    <2>1. k - 1 \in Nat /\ k = (k - 1) + 1
        BY <1>1
    <2> QED
        BY <2>1
<1>3. FieldsAt(d, k)[n] = Meaning!PartsIn(d, NamesAt(d, j), FieldsAt(d, j), n)
    BY <1>2, FieldsFacts
<1> QED
    BY <1>3, SameNames DEF Meaning!PartsIn

\* A struct that is resolved has the fields that are meant.
LEMMA FieldsKnown ==
    ASSUME NEW d \in Seq(Definition), NEW map, NEW k \in Nat, k # 0, GraphMeans(d, k, map),
           NEW n \in Name, n \in DOMAIN map, map[n].kind = "struct", map[n].parts \in Seq(Part)
    PROVE  map[n].parts = FieldsAt(d, k)[n] /\ FieldsAt(d, k)[n] # Meaning!NoParts
<1>1. NodeMeans(d, k, map, n)
    BY DEF GraphMeans
<1>2. map[n].parts = FieldsAt(d, k)[n]
    <2>1. CASE n \in Meaning!Declared(d)
        <3>1. Meaning!Defines(d, n).kind \in Unresolved
            BY <2>1, DefinesFacts DEF Definition
        <3>2. map[n] # AsEntered(Meaning!Defines(d, n))
            BY <3>1 DEF AsEntered, MakeNode, Unresolved
        <3>3. map[n] = Meaning!NodeFor(d, k, n)
            BY <1>1, <2>1, <3>2 DEF NodeMeans
        <3>4. Meaning!KindIn(d, n) = "struct"
            BY <3>3, NodeForKind
        <3>5. map[n] = MakeNode("struct", "", FieldsAt(d, k)[n])
            BY <3>3, <3>4, NodeForIs
        <3>6. MakeNode("struct", "", FieldsAt(d, k)[n]).parts = FieldsAt(d, k)[n]
            BY DEF MakeNode
        <3> QED
            BY <3>5, <3>6
    <2>2. CASE n \notin Meaning!Declared(d) /\ n \in DOMAIN Prefilled
        <3>1. map[n] = Prefilled[n]
            BY <1>1, <2>2 DEF NodeMeans
        <3>2. Meaning!KindIn(d, n) = "struct"
            BY <2>2, <3>1, SameNames DEF Meaning!KindIn
        <3>3. PICK j \in Nat : k = j + 1
            <4>1. k - 1 \in Nat /\ k = (k - 1) + 1
                OBVIOUS
            <4> QED
                BY <4>1
        <3>4. FieldsAt(d, k)[n] = Meaning!PartsIn(d, NamesAt(d, j), FieldsAt(d, j), n)
            BY <3>3, FieldsFacts
        <3> QED
            BY <2>2, <3>1, <3>2, <3>4, SameNames DEF Meaning!PartsIn
    <2>3. CASE n \notin Meaning!Declared(d) /\ n \notin DOMAIN Prefilled
        <3>1. Suffix[n] = "struct"
            BY <1>1, <2>3 DEF NodeMeans
        <3> QED
            BY <3>1, NameFacts DEF Wrapper
    <2> QED
        BY <2>1, <2>2, <2>3
<1> QED
    BY <1>2, NoPartsApart

\* A struct has the fields of its base first.
LEMMA CollectedBase ==
    ASSUME NEW d \in Seq(Definition), NEW k \in Nat, NEW f \in Activation, NEW base \in Name,
           NEW node \in Name, f.name \in Meaning!Declared(d), f.kind = "struct",
           base = Meaning!Defines(d, f.name).of, base # "",
           Len(f.todo) = Len(Meaning!Defines(d, f.name).parts),
           NamesAt(d, k)[base] = node, FieldsAt(d, k)[node] = f.parts
    PROVE  Collected(d, k, f)
<1> DEFINE own == Meaning!Defines(d, f.name).parts
           names == NamesAt(d, k)
<1>1. own \in Seq(Part) /\ names \in NamesSet /\ f.parts \in Seq(Part)
    BY DefinesFacts, NamesFacts DEF Definition, Activation
<1>2. node # NoName
    BY NameFacts
<1>3. Inherits(d, k, f) = f.parts
    BY <1>2, SameNames DEF Inherits, Meaning!Inherited
<1>4. f.parts # Meaning!NoParts
    BY <1>1, NoPartsApart
<1>5. Len(f.todo) = Len(own)
    OBVIOUS
<1> HIDE DEF own, names
<1>6. /\ Typed(own, 0, names) = <<>> /\ Len(own) - Len(own) = 0
      /\ \A i \in 1 .. 0 : names[own[i].type] # NoName
    BY <1>1, NoneTyped
<1>7. Len(own) - Len(f.todo) = 0
    BY <1>5, <1>6, Zenon
<1>8. f.parts = f.parts \o Typed(own, 0, names)
    BY <1>1, <1>6, ConcatEmptySeq
<1> QED
    BY <1>3, <1>4, <1>6, <1>7, <1>8 DEF Collected, Typed, own, names

\* A base has come back.
LEMMA BaseMeans ==
    ASSUME IInv, FinalInv, MeansInv, Base
    PROVE  Goes
<1> DEFINE n == Top.name
           k == Rank(types)
           left == MaxDepth - Len(stack)
<1>1. /\ stack # <<>> /\ call = NoCall /\ Top.kind = "struct" /\ Top.base # "" /\ ret # NoName
    BY DEF Base, TopIs
<1>2. /\ phase \in {"fill", "query"} /\ Top \in Activation
      /\ def \in Seq(Definition) /\ n \in Meaning!Declared(def)
      /\ Top.todo \in Seq(Part) /\ left \in Nat
      /\ Top.base = Meaning!Defines(def, n).of
      /\ Len(Top.todo) = Len(Meaning!Defines(def, n).parts)
      /\ Promised =>
             Meaning!Inherited(def, NamesAt(def, left), FieldsAt(def, left), n) # Meaning!NoParts
    BY <1>1, PartsWork
<1>3. Wanted(types, Top) = Top.base /\ Top.depth + 1 = Len(stack)
    BY <1>1, ReturnedFacts DEF Wanted, Wrapper
<1>4. /\ ret \in Name /\ ret \in DOMAIN types
      /\ NamesAt(def, k)[Top.base] = ret
      /\ Later(KindOf(ret), Meaning!KindIn(def, ret))
      /\ \A j \in Nat : NamesAt(def, j)[Top.base] # NoName => NamesAt(def, j)[Top.base] = ret
    BY <1>1, <1>3, ReturnMeans
<1>5. k \in Nat /\ k # 0 /\ GraphMeans(def, k, types) /\ Top.base \in Name
    BY <1>2, RunFacts DEF Activation
<1> HIDE DEF left, k, n
<1>6. Promised => FieldsAt(def, left)[ret] # Meaning!NoParts
    BY <1>1, <1>2, <1>4, SameNames DEF Meaning!Inherited
<1>7. CASE KindOf(ret) = "struct_def"
    <2>1. ResolveParts("struct", ret, Len(stack))
        BY <1>3, <1>7 DEF Base
    <2>2. Promised => \A f \in Activation :
              f.kind = "struct" /\ f.name = ret => HasLevels(def, MaxDepth - Len(stack), f)
        BY <1>6 DEF HasLevels, left
    <2> QED
        BY <1>2, <1>4, <1>7, <2>1, <2>2, ResolvePartsMeans
<1>8. CASE KindOf(ret) \notin {"struct_def", "struct"}
    <2>1. Throw("base_not_a_struct")
        BY <1>8 DEF Base
    <2>2. Promised => Meaning!KindIn(def, ret) = "struct"
        BY <1>2, <1>4, <1>6, FieldsOfStructs
    <2>3. ~Promised
        BY <1>4, <1>8, <2>2 DEF Later
    <2> QED
        BY <1>2, <2>1, <2>3, ThrowMeans DEF Goes
<1>9. CASE KindOf(ret) = "struct"
    <2> DEFINE parts == types[ret].parts
    <2>1. /\ stack' = WithTop(Top.todo, parts)
          /\ UNCHANGED <<def, types, phase, query, call>>
        BY <1>9 DEF Base
    <2>2. parts \in Seq(Part)
        BY <1>4, NodeFacts
    <2>3. parts = FieldsAt(def, k)[ret]
        BY <1>2, <1>4, <1>5, <1>9, <2>2, FieldsKnown DEF KindOf
    <2> HIDE DEF parts
    <2>4. ASSUME NEW f \in Activation, f = Frame(Top.kind, Top.name, Top.depth, "", Top.todo, parts)
          PROVE  FrameMeans(def, k, f)
        <3>1. /\ f.kind = "struct" /\ f.name = n /\ f.todo = Top.todo /\ f.parts = parts
            BY <1>1, <2>4 DEF Frame, n
        <3>2. Collected(def, k, f)
            BY <1>1, <1>2, <1>4, <1>5, <2>3, <3>1, CollectedBase
        <3> QED
            BY <3>1, <3>2 DEF FrameMeans, Wrapper
    <2> QED
        BY <1>1, <1>2, <2>1, <2>2, <2>4, ReplaceMeans DEF k
<1> QED
    BY <1>7, <1>8, <1>9

-----------------------------------------------------------------------------
(* Between the questions, and the invariant.                               *)

\* A step that leaves no activation behind.
LEMMA QuietMeans ==
    ASSUME stack' = <<>>, call' = NoCall, phase' \in {"declare", "fill", "ready", "failed"},
           phase' = "declare" => Declaring',
           phase' \in {"fill", "ready"} => GraphMeans(def', Rank(types'), types')
    PROVE  MeansInv'
<1>1. DOMAIN stack' = {}
    BY EmptySeq
<1>2. LevelsLeft(def', stack', call')
    BY <1>1 DEF LevelsLeft
<1> QED
    BY <1>1, <1>2 DEF MeansInv

\* At first nothing has been entered.
LEMMA ConvertMeans ==
    ASSUME IInv, MeansInv, Convert
    PROVE  MeansInv'
<1>1. /\ phase = "idle" /\ phase' = "declare" /\ def' \in Abis /\ types' = Prefilled
      /\ UNCHANGED <<next, cursor, stack, call, ret, query>>
    BY DEF Convert, machine
<1>2. stack = <<>> /\ call = NoCall
    BY <1>1, QuietFacts
<1>3. next = 1
    BY <1>1 DEF MeansInv
<1>4. def' \in Seq(Definition)
    BY <1>1, InputAssumption
<1>5. Len(def') \in Nat
    BY <1>4, LenProperties
<1>6. next' - 1 <= Len(def') /\ 1 .. next' - 1 = {}
    BY <1>1, <1>3, <1>5
<1>7. Declaring'
    BY <1>1, <1>6 DEF Declaring
<1> QED
    BY <1>1, <1>2, <1>7, QuietMeans

\* One definition more has been entered.
LEMMA DeclareMeans ==
    ASSUME IInv, MeansInv, Declare
    PROVE  MeansInv'
<1> DEFINE d == def[next]
           node == MakeNode(d.kind, d.of, d.parts)
<1>1. phase = "declare" /\ next \in DOMAIN def /\ Declaring
    BY DEF Declare, MeansInv
<1>2. /\ stack = <<>> /\ call = NoCall
      /\ def \in Seq(Definition) /\ next \in Nat \ {0}
      /\ DOMAIN types \subseteq Name /\ types \in [DOMAIN types -> Node]
    BY <1>1, QuietFacts
<1>3. \/ \E e \in {"missing_name", "redefined_type"} : Throw(e)
      \/ d.name # "" /\ d.name \notin DOMAIN types /\ Enter(Emplace(d.name, node))
    BY DEF Declare
<1>4. d \in Definition /\ next <= Len(def)
    <2>1. DOMAIN def = 1 .. Len(def) /\ Len(def) \in Nat
        BY <1>2, LenProperties
    <2> QED
        BY <1>1, <1>2, <2>1, ElementOfSeq
<1>5. d.name \in Name /\ node \in Node /\ node = AsEntered(d)
    BY <1>4 DEF Definition, Node, MakeNode, Kind, AsEntered
<1>6. CASE \E e \in {"missing_name", "redefined_type"} : Throw(e)
    BY <1>1, <1>6, ThrowMeans
<1>7. CASE d.name # "" /\ d.name \notin DOMAIN types /\ Enter(Emplace(d.name, node))
    <2> HIDE DEF node
    <2>1. /\ types' = Emplace(d.name, node) /\ next' = next + 1
          /\ UNCHANGED <<def, phase, stack, call, ret, query>>
        BY <1>7 DEF Enter, machine
    <2>2. /\ DOMAIN types' = DOMAIN types \cup {d.name}
          /\ \A m \in DOMAIN types : types'[m] = types[m]
          /\ types'[d.name] = node
        BY <1>2, <1>5, <1>7, <2>1, EmplaceFacts
    <2>3. next' - 1 = next /\ \A i \in 1 .. next : i \in 1 .. next - 1 \/ i = next
        BY <1>2, <2>1
    <2>4. 1 .. next - 1 \subseteq 1 .. next /\ next \in 1 .. next
        BY <1>2
    <2>5. /\ DOMAIN types = DOMAIN Prefilled \cup {def[i].name : i \in 1 .. next - 1}
          /\ \A n \in DOMAIN Prefilled : types[n] = Prefilled[n]
          /\ \A i \in 1 .. next - 1 : /\ def[i].name # "" /\ def[i].name \notin DOMAIN Prefilled
                                      /\ types[def[i].name] = AsEntered(def[i])
          /\ \A i, j \in 1 .. next - 1 : def[i].name = def[j].name => i = j
        BY <1>1 DEF Declaring
    <2>6. DOMAIN types' = DOMAIN Prefilled \cup {def[i].name : i \in 1 .. next}
        <3>1. {def[i].name : i \in 1 .. next} = {def[i].name : i \in 1 .. next - 1} \cup {def[next].name}
            BY <2>3, <2>4
        <3> QED
            BY <2>2, <2>5, <3>1
    <2>7. \A n \in DOMAIN Prefilled : types'[n] = Prefilled[n]
        BY <2>2, <2>5
    <2>8. ASSUME NEW i \in 1 .. next
          PROVE  /\ def[i].name # "" /\ def[i].name \notin DOMAIN Prefilled
                 /\ types'[def[i].name] = AsEntered(def[i])
        <3>1. CASE i \in 1 .. next - 1
            BY <2>2, <2>5, <3>1
        <3>2. CASE i = next
            BY <1>5, <1>7, <2>2, <2>5, <3>2
        <3> QED
            BY <2>3, <3>1, <3>2
    <2>9. ASSUME NEW i \in 1 .. next, NEW j \in 1 .. next, def[i].name = def[j].name
          PROVE  i = j
        <3>1. \A m \in 1 .. next - 1 : def[m].name # def[next].name
            BY <1>7, <2>5
        <3>2. CASE i = next \/ j = next
            BY <2>3, <2>9, <3>1, <3>2
        <3>3. CASE i \in 1 .. next - 1 /\ j \in 1 .. next - 1
            BY <2>5, <2>9, <3>3
        <3> QED
            BY <2>3, <3>2, <3>3
    <2>10. Declaring'
        BY <1>4, <2>1, <2>3, <2>6, <2>7, <2>8, <2>9 DEF Declaring
    <2> QED
        BY <1>1, <1>2, <2>1, <2>10, QuietMeans
<1> QED
    BY <1>3, <1>6, <1>7

\* All are entered, and none is resolved.
LEMMA EndOfDefinitionsMeans ==
    ASSUME IInv, MeansInv, EndOfDefinitions
    PROVE  MeansInv'
<1>1. /\ phase = "declare" /\ phase' = "fill" /\ next \notin DOMAIN def
      /\ UNCHANGED <<def, types, next, cursor, stack, call, ret, query>>
      /\ Declaring
    BY DEF EndOfDefinitions, machine, MeansInv
<1>2. /\ stack = <<>> /\ call = NoCall /\ def \in Seq(Definition) /\ next \in Nat \ {0}
    BY <1>1, QuietFacts
<1>3. DOMAIN def = 1 .. next - 1
    <2>1. DOMAIN def = 1 .. Len(def) /\ Len(def) \in Nat
        BY <1>2, LenProperties
    <2>2. next - 1 <= Len(def)
        BY <1>1 DEF Declaring
    <2>3. next - 1 = Len(def)
        BY <1>1, <1>2, <2>1, <2>2
    <2> QED
        BY <2>1, <2>3
<1>4. /\ DOMAIN types = DOMAIN Prefilled \cup Meaning!Declared(def)
      /\ \A n \in DOMAIN Prefilled : types[n] = Prefilled[n]
      /\ \A i \in DOMAIN def : /\ def[i].name # "" /\ def[i].name \notin DOMAIN Prefilled
                               /\ types[def[i].name] = AsEntered(def[i])
      /\ \A i, j \in DOMAIN def : def[i].name = def[j].name => i = j
    BY <1>1, <1>3 DEF Declaring, Meaning!Declared
<1>5. Meaning!NamesAreGood(def)
    <2>1. "" \notin Meaning!Declared(def)
        BY <1>4 DEF Meaning!Declared
    <2>2. Meaning!Declared(def) \cap DOMAIN Prefilled = {}
        BY <1>4 DEF Meaning!Declared
    <2> QED
        BY <1>4, <2>1, <2>2, SameNames DEF Meaning!NamesAreGood
<1>6. ASSUME NEW n \in Meaning!Declared(def)
      PROVE  types[n] = AsEntered(Meaning!Defines(def, n))
    <2>1. PICK i \in DOMAIN def : Meaning!Defines(def, n) = def[i]
        BY <1>2, DefinesFacts
    <2>2. def[i].name = n
        BY <1>2, <2>1, DefinesFacts
    <2> QED
        BY <1>4, <2>1, <2>2
<1>7. GraphMeans(def, Rank(types), types)
    BY <1>4, <1>5, <1>6 DEF GraphMeans, NodeMeans
<1> QED
    BY <1>1, <1>2, <1>7, QuietMeans

\* Nothing is at work once fill is done.
LEMMA EndOfFillMeans ==
    ASSUME IInv, MeansInv, EndOfFill \/ Answer
    PROVE  MeansInv'
<1>1. /\ phase \in {"fill", "query"} /\ phase' = "ready" /\ stack = <<>> /\ call = NoCall
      /\ UNCHANGED <<def, types, stack, call>>
    BY DEF EndOfFill, Answer, Idle, machine
<1>2. GraphMeans(def, Rank(types), types)
    BY <1>1 DEF MeansInv
<1> QED
    BY <1>1, <1>2, QuietMeans

\* A question has MaxDepth levels.
LEMMA QueryMeans ==
    ASSUME IInv, MeansInv, Query
    PROVE  MeansInv'
<1>1. PICK n \in Queries : query' = n /\ Call(n, 0)
    BY DEF Query
<1>2. /\ phase = "ready" /\ phase' = "query" /\ UNCHANGED <<def, types, stack>>
    BY DEF Query
<1>3. stack = <<>>
    BY <1>2, InvParts DEF Parted, PhaseShape, Idle
<1>4. Len(stack) = 0 /\ DOMAIN stack = {}
    BY <1>3, EmptySeq
<1>5. call'.name = n /\ n # NoName /\ call' # NoCall
    BY <1>1, InputAssumption, NameFacts DEF Call, NoCall
<1>6. GraphMeans(def, Rank(types), types)
    BY <1>2 DEF MeansInv
<1>7. QueryServes'
    BY <1>1, <1>2, <1>3, <1>5 DEF QueryServes, Idle
<1>8. MaxDepth - 0 = MaxDepth
    BY LimitType
<1>9. Promised' => LevelsLeft(def', stack', call')
    BY <1>1, <1>2, <1>4, <1>5, <1>8 DEF Promised, LevelsLeft
<1> QED
    BY <1>2, <1>4, <1>6, <1>7, <1>9 DEF MeansInv

\* A step that changes nothing keeps the invariant.
LEMMA StutterMeans ==
    ASSUME MeansInv, UNCHANGED vars
    PROVE  MeansInv'
<1>1. UNCHANGED <<def, phase, types, next, stack, call, ret, query>>
    BY DEF vars
<1>2. /\ Declaring' <=> Declaring
      /\ QueryServes' <=> QueryServes
      /\ Promised' <=> Promised
    BY <1>1 DEF Declaring, QueryServes, Idle, Promised
<1> QED
    BY <1>1, <1>2 DEF MeansInv

\* What a step of the machine does.
LEMMA RunMeans ==
    ASSUME IInv, FinalInv, MeansInv,
           \/ Fill \/ GetType \/ EndOfWrapper \/ EndOfAlias \/ CallBase \/ Base
           \/ CallPart \/ TakePart \/ EndOfParts
    PROVE  Goes
BY FillMeans, GetTypeMeans, EndOfWrapperMeans, EndOfAliasMeans, CallBaseMeans, BaseMeans,
   CallPartMeans, TakePartMeans, EndOfPartsMeans

\* Every step keeps the invariant.
LEMMA NextMeans ==
    ASSUME IInv, FinalInv, MeansInv, [Next]_vars
    PROVE  MeansInv'
<1>1. CASE Convert \/ Query
    BY <1>1, ConvertMeans, QueryMeans
<1>2. CASE Declare \/ EndOfDefinitions
    BY <1>2, DeclareMeans, EndOfDefinitionsMeans
<1>3. CASE EndOfFill \/ Answer
    BY <1>3, EndOfFillMeans
<1>4. CASE \/ Fill \/ GetType \/ EndOfWrapper \/ EndOfAlias \/ CallBase \/ Base
           \/ CallPart \/ TakePart \/ EndOfParts
    BY <1>4, RunMeans DEF Goes
<1>5. CASE Failed \/ UNCHANGED vars
    BY <1>5, StutterMeans DEF Failed
<1> QED
    BY <1>1, <1>2, <1>3, <1>4, <1>5 DEF Next, Step

\* It holds before the first convert.
LEMMA InitMeans == Init => MeansInv
<1> SUFFICES ASSUME Init PROVE MeansInv
    OBVIOUS
<1>1. phase = "idle" /\ stack = <<>> /\ next = 1
    BY DEF Init
<1>2. DOMAIN stack = {}
    BY <1>1, EmptySeq
<1> QED
    BY <1>1, <1>2 DEF MeansInv, Promised

-----------------------------------------------------------------------------
(* Every step is one of AbiMeaning, or cannot be seen.                     *)

\* The steps of the machine that fill and get_type run on (abi.cpp:46-147).
Run == \/ Fill \/ GetType \/ EndOfWrapper \/ EndOfAlias \/ CallBase \/ Base
       \/ CallPart \/ TakePart \/ EndOfParts

\* What cannot be seen.
Unseen == UNCHANGED <<def, Verdict, Shown, query, Answered>>

\* A step of the machine ends convert or abi::get_type with an exception, or not.
LEMMA RunEnds ==
    ASSUME Run
    PROVE  /\ UNCHANGED <<def, query>>
           /\ \/ phase' = phase
              \/ /\ phase' = IF phase = "query" THEN "ready" ELSE "failed"
                 /\ types' = types /\ ret' = NoName
<1>1. CASE Fill
    <2>1. PICK i \in cursor + 1 .. Len(MapOrder) :
              \/ ResolveAlias(MapOrder[i], 0)
              \/ \E kind \in {"struct", "variant"} : ResolveParts(kind, MapOrder[i], 0)
        BY <1>1 DEF Fill
    <2> QED
        BY <2>1 DEF ResolveAlias, ResolveParts, Throw
<1>2. CASE GetType
    BY <1>2 DEF GetType, Found, Missing, ResolveAlias, Throw
<1>3. CASE EndOfWrapper \/ EndOfAlias \/ EndOfParts
    BY <1>3 DEF EndOfWrapper, EndOfAlias, EndOfParts, Finish, Throw
<1>4. CASE CallBase \/ CallPart \/ TakePart
    BY <1>4 DEF CallBase, CallPart, TakePart
<1>5. CASE Base
    BY <1>5 DEF Base, ResolveParts, Throw
<1> QED
    BY <1>1, <1>2, <1>3, <1>4, <1>5 DEF Run

\* The machine only runs inside convert and abi::get_type.
LEMMA RunPhase ==
    ASSUME IInv, Run
    PROVE  phase \in {"fill", "query"}
<1>1. Fill \/ call # NoCall \/ stack # <<>>
    BY DEF Run, GetType, EndOfWrapper, EndOfAlias, CallBase, Base, CallPart, TakePart, EndOfParts, TopIs
<1> QED
    BY <1>1, InvParts DEF Fill, Parted, PhaseShape, Idle

\* The graph does not change once it is complete.
LEMMA ShownLasts ==
    ASSUME IInv, FinalInv, MeansInv, [Next]_vars, def' = def, Accepted, Accepted'
    PROVE  Shown' = Shown
<1>1. phase \in {"ready", "query"} /\ phase # "idle"
    BY DEF Accepted
<1>2. KeepsResolved
    BY <1>1, NextFinal
<1>3. /\ NothingLeftOver /\ GraphMeans(def, Rank(types), types)
    BY <1>1, RunFacts, InvParts DEF Parted
<1>4. Entered \subseteq DOMAIN types
    BY <1>3 DEF GraphMeans, Entered, Meaning!Declared
<1>5. \A n \in Entered : types'[n] = types[n]
    BY <1>1, <1>2, <1>3, <1>4 DEF KeepsResolved, NothingLeftOver
<1>6. Entered' = Entered
    BY DEF Entered
<1> QED
    BY <1>5, <1>6 DEF Shown

\* convert takes an abi_def.
LEMMA ConvertImplements ==
    ASSUME Convert
    PROVE  Meaning!Submit
<1>1. /\ phase = "idle" /\ phase' = "declare" /\ def' \in Abis /\ query' = query
    BY DEF Convert
<1>2. /\ Verdict = "none" /\ Verdict' = "pending" /\ Shown = <<>> /\ Shown' = <<>>
      /\ Answered = NoName /\ Answered' = NoName
    BY <1>1 DEF Verdict, Accepted, Shown, Answered
<1> QED
    BY <1>1, <1>2 DEF Meaning!Submit

\* convert refuses what has no meaning within its limit.
LEMMA Rejects ==
    ASSUME phase \in {"declare", "fill"}, phase' = "failed", UNCHANGED <<def, query>>,
           ~Meaning!AllSound(def, MaxDepth)
    PROVE  Meaning!Reject
<1>1. /\ Verdict = "pending" /\ Verdict' = "rejected" /\ Shown = <<>> /\ Shown' = <<>>
      /\ Answered = NoName /\ Answered' = NoName
    BY DEF Verdict, Accepted, Shown, Answered
<1> QED
    BY <1>1 DEF Meaning!Reject

\* What convert does on its way to the end cannot be seen.
LEMMA PendingUnseen ==
    ASSUME phase \in {"declare", "fill"}, phase' \in {"declare", "fill"}, UNCHANGED <<def, query>>
    PROVE  Unseen
BY DEF Unseen, Verdict, Accepted, Shown, Answered

\* The loops that enter the definitions refuse them only for their names, which no
\* meaning allows (abi.cpp:172-192).
LEMMA DeclareImplements ==
    ASSUME IInv, MeansInv, Declare
    PROVE  Meaning!Reject \/ Unseen
<1> DEFINE d == def[next]
<1>1. phase = "declare" /\ next \in DOMAIN def /\ Declaring
    BY DEF Declare, MeansInv
<1>2. def \in Seq(Definition) /\ next \in Nat \ {0}
    BY <1>1, QuietFacts
<1>3. CASE phase' = phase
    <2>1. UNCHANGED <<def, query>>
        BY DEF Declare, Enter, Throw
    <2> QED
        BY <1>1, <1>3, <2>1, PendingUnseen
<1>4. CASE phase' # phase
    <2>1. /\ d.name = "" \/ d.name \in DOMAIN types
          /\ phase' = "failed" /\ UNCHANGED <<def, query>>
        BY <1>1, <1>4 DEF Declare, Enter, Throw
    <2>2. d.name \in Meaning!Declared(def)
        BY <1>1 DEF Meaning!Declared
    <2>3. ~Meaning!NamesAreGood(def)
        <3> SUFFICES ASSUME Meaning!NamesAreGood(def) PROVE FALSE
            OBVIOUS
        <3>1. d.name # "" /\ d.name \notin DOMAIN Prefilled
            BY <2>2, SameNames DEF Meaning!NamesAreGood
        <3>2. PICK i \in 1 .. next - 1 : def[i].name = d.name
            BY <1>1, <2>1, <3>1 DEF Declaring
        <3>3. i \in DOMAIN def /\ i # next
            <4>1. DOMAIN def = 1 .. Len(def) /\ Len(def) \in Nat
                BY <1>2, LenProperties
            <4> QED
                BY <1>1, <1>2, <4>1
        <3> QED
            BY <1>1, <3>2, <3>3 DEF Meaning!NamesAreGood
    <2> QED
        BY <1>1, <2>1, <2>3, Rejects DEF Meaning!AllSound
<1> QED
    BY <1>3, <1>4

\* There are no more nodes than names.
LEMMA UnlimitedIsEnough ==
    ASSUME NEW map, DOMAIN map \subseteq Name
    PROVE  Meaning!Unlimited \in Nat /\ Rank(map) <= Meaning!Unlimited
<1> DEFINE c == Cardinality(Name)
           k == Rank(map)
<1>1. c \in Nat /\ k \in Nat /\ k <= c
    BY RankFacts
<1>2. Meaning!Unlimited = c + 1
    BY DEF Meaning!Unlimited, Meaning!Cardinality, Cardinality
<1> HIDE DEF c, k
<1>3. c + 1 \in Nat /\ k <= c + 1
    BY <1>1
<1> QED
    BY <1>2, <1>3 DEF k

\* convert accepts what has a meaning, and its abi is that meaning.
LEMMA EndOfFillImplements ==
    ASSUME IInv, MeansInv, EndOfFill, IInv'
    PROVE  Meaning!Accept
<1> DEFINE k == Rank(types)
<1>1. /\ phase = "fill" /\ phase' = "ready" /\ ret' = NoName /\ UNCHANGED <<def, types, query>>
    BY DEF EndOfFill
<1>2. /\ def \in Seq(Definition) /\ DOMAIN types \subseteq Name
      /\ k \in Nat /\ k # 0 /\ GraphMeans(def, k, types)
    BY <1>1, RunFacts
<1>3. Meaning!Unlimited \in Nat /\ k <= Meaning!Unlimited
    BY <1>2, UnlimitedIsEnough
<1>4. \A n \in DOMAIN types : types[n].kind \notin Unresolved
    BY <1>1 DEF IInv, NothingLeftOver, KindOf
<1> HIDE DEF k
<1>5. ASSUME NEW n \in Meaning!Declared(def)
      PROVE  /\ Meaning!Sound(def, Meaning!Unlimited, n)
             /\ types[n] = Meaning!NodeFor(def, Meaning!Unlimited, n)
    <2>1. n \in DOMAIN types /\ NodeMeans(def, k, types, n)
        BY <1>2 DEF GraphMeans
    <2>2. types[n] # AsEntered(Meaning!Defines(def, n))
        <3>1. Meaning!Defines(def, n).kind \in Unresolved
            BY <1>2, DefinesFacts DEF Definition
        <3>2. AsEntered(Meaning!Defines(def, n)).kind = Meaning!Defines(def, n).kind
            BY DEF AsEntered, MakeNode
        <3> QED
            BY <1>4, <2>1, <3>1, <3>2
    <2>3. Meaning!Sound(def, k, n) /\ types[n] = Meaning!NodeFor(def, k, n)
        BY <2>1, <2>2 DEF NodeMeans
    <2> QED
        BY <1>2, <1>3, <2>3, SoundLasts
<1>6. Meaning!AllSound(def, Meaning!Unlimited)
    BY <1>2, <1>5 DEF Meaning!AllSound, GraphMeans
<1>7. Shown' = Meaning!Graph(def)
    <2>1. Shown' = [n \in Meaning!Declared(def) |-> types[n]]
        BY <1>1 DEF Shown, Accepted, Entered, Meaning!Declared
    <2> QED
        BY <1>5, <2>1 DEF Meaning!Graph
<1>8. /\ Verdict = "pending" /\ Verdict' = "accepted" /\ Answered = NoName /\ Answered' = NoName
    BY <1>1 DEF Verdict, Accepted, Answered
<1> QED
    BY <1>1, <1>6, <1>7, <1>8 DEF Meaning!Accept

\* abi::get_type is asked.
LEMMA QueryImplements ==
    ASSUME IInv, FinalInv, MeansInv, Query, [Next]_vars
    PROVE  Meaning!Ask
<1>1. /\ phase = "ready" /\ phase' = "query" /\ def' = def /\ query' \in Queries
    BY DEF Query
<1>2. ret \in Name \cup {NoName}
    BY InvParts DEF Parted, TypeOK
<1>3. ret # "waiting"
    BY <1>2, NameAssumption DEF NoName
<1>4. /\ Verdict = "accepted" /\ Verdict' = "accepted" /\ Answered = ret /\ Answered' = "waiting"
    BY <1>1 DEF Verdict, Accepted, Answered
<1>5. Shown' = Shown
    BY <1>1, ShownLasts DEF Accepted
<1> QED
    BY <1>1, <1>3, <1>4, <1>5 DEF Meaning!Ask

\* It answers what the name stands for.
LEMMA AnswerImplements ==
    ASSUME IInv, FinalInv, MeansInv, Answer, [Next]_vars
    PROVE  Meaning!Reply
<1> DEFINE k == Rank(types)
<1>1. /\ phase = "query" /\ phase' = "ready" /\ Idle /\ UNCHANGED <<def, types, ret, query>>
    BY DEF Answer, machine
<1>2. /\ def \in Seq(Definition) /\ DOMAIN types \subseteq Name
      /\ k \in Nat /\ k # 0 /\ GraphMeans(def, k, types)
    BY <1>1, RunFacts
<1>3. Meaning!Unlimited \in Nat /\ k <= Meaning!Unlimited
    BY <1>2, UnlimitedIsEnough
<1>4. ret # NoName /\ IsFound(types, query) /\ ret = Target(types, query)
    BY <1>1 DEF MeansInv, QueryServes
<1> HIDE DEF k
<1>5. NamesAt(def, k)[query] = ret /\ query \in Name
    BY <1>2, <1>4, Known DEF IsFound
<1>6. NamesAt(def, Meaning!Unlimited)[query] = ret
    BY <1>2, <1>3, <1>4, <1>5, Levels DEF Below
<1>7. /\ Verdict = "accepted" /\ Verdict' = "accepted"
      /\ Answered = "waiting" /\ Answered' = ret
    BY <1>1 DEF Verdict, Accepted, Answered
<1>8. Shown' = Shown
    BY <1>1, ShownLasts DEF Accepted
<1> QED
    BY <1>1, <1>6, <1>7, <1>8 DEF Meaning!Reply, NamesAt

\* A step of the machine cannot be seen, or gives up on what is not found within
\* MaxDepth levels (abi.cpp:48, 87, 112).
LEMMA RunImplements ==
    ASSUME IInv, FinalInv, MeansInv, Run, [Next]_vars
    PROVE  Meaning!Next \/ Unseen
<1>1. /\ phase \in {"fill", "query"} /\ UNCHANGED <<def, query>>
      /\ \/ phase' = phase
         \/ /\ phase' = IF phase = "query" THEN "ready" ELSE "failed"
            /\ types' = types /\ ret' = NoName
    BY RunEnds, RunPhase
<1>2. Promised => phase' = phase
    BY RunMeans DEF Goes, Run
<1>3. CASE phase = "fill" /\ phase' = phase
    BY <1>1, <1>3, PendingUnseen
<1>4. CASE phase = "fill" /\ phase' # phase
    <2>1. ~Meaning!AllSound(def, MaxDepth)
        BY <1>2, <1>4 DEF Promised
    <2> QED
        BY <1>1, <1>4, <2>1, Rejects DEF Meaning!Next
<1>5. CASE phase = "query" /\ phase' = phase
    <2>1. Shown' = Shown
        BY <1>1, <1>5, ShownLasts DEF Accepted
    <2> QED
        BY <1>1, <1>5, <2>1 DEF Unseen, Verdict, Accepted, Answered
<1>6. CASE phase = "query" /\ phase' # phase
    <2>1. phase' = "ready" /\ ret' = NoName
        BY <1>1, <1>6
    <2>2. Meaning!StandsFor(def)[MaxDepth][query] = NoName
        BY <1>2, <1>6 DEF Promised, NamesAt
    <2>3. Shown' = Shown
        BY <1>1, <1>6, <2>1, ShownLasts DEF Accepted
    <2>4. /\ Verdict = "accepted" /\ Verdict' = "accepted"
          /\ Answered = "waiting" /\ Answered' = NoName
        BY <1>6, <2>1 DEF Verdict, Accepted, Answered
    <2>5. Meaning!Reply
        BY <1>1, <2>2, <2>3, <2>4, SameNames DEF Meaning!Reply
    <2> QED
        BY <2>5 DEF Meaning!Next
<1> QED
    BY <1>1, <1>3, <1>4, <1>5, <1>6

\* Every step is one of AbiMeaning or cannot be seen.
LEMMA StepImplements ==
    ASSUME IInv, FinalInv, MeansInv, IInv', [Next]_vars
    PROVE  Meaning!Next \/ Unseen
<1>1. CASE Convert
    BY <1>1, ConvertImplements DEF Meaning!Next
<1>2. CASE Query
    BY <1>2, QueryImplements DEF Meaning!Next
<1>3. CASE Declare
    BY <1>3, DeclareImplements DEF Meaning!Next
<1>4. CASE EndOfDefinitions
    BY <1>4, PendingUnseen DEF EndOfDefinitions
<1>5. CASE EndOfFill
    BY <1>5, EndOfFillImplements DEF Meaning!Next
<1>6. CASE Answer
    BY <1>6, AnswerImplements DEF Meaning!Next
<1>7. CASE Run
    BY <1>7, RunImplements
<1>8. CASE Failed \/ UNCHANGED vars
    BY <1>8 DEF Failed, vars, Unseen, Verdict, Shown, Answered, Accepted, Entered
<1> QED
    BY <1>1, <1>2, <1>3, <1>4, <1>5, <1>6, <1>7, <1>8 DEF Next, Step, Run

\* Before the first convert there is no verdict.
LEMMA InitImplements == Init => Meaning!Init
BY SameNames DEF Init, Meaning!Init, Verdict, Accepted, Shown, Answered

\* convert and abi::get_type implement what an abi_def means: the graph, the
\* verdict and the answers are those of AbiMeaning, whatever the order of the map
\* and whatever earlier questions left in it (abi.cpp:46-196).
THEOREM ImplementsMeaning == Spec => MeansWhatItSays
<1>1. Init => FinalInv /\ MeansInv /\ Meaning!Init
    BY InitFinal, InitMeans, InitImplements
<1>2. IInv /\ FinalInv /\ MeansInv /\ [Next]_vars => FinalInv' /\ MeansInv'
    BY NextFinal, NextMeans
<1>3. IInv /\ FinalInv /\ MeansInv /\ IInv' /\ [Next]_vars
          => [Meaning!Next]_<<def, Verdict, Shown, query, Answered>>
    BY StepImplements DEF Unseen
<1> QED
    BY <1>1, <1>2, <1>3, Invariance, PTL DEF Spec, MeansWhatItSays, Meaning!Spec

-----------------------------------------------------------------------------
(* What get_type puts in the map it can find again from its name.          *)

\* What get_type finds it finds ever after: the node that ends was not resolved,
\* and only an alias in the making becomes one.
LEMMA FoundLasts ==
    ASSUME NEW map, NEW map2, NEW n, ChangedAt(map, map2, n), IsOpen(map, n),
           n \in DOMAIN map /\ map[n].kind # "alias_def" =>
               map2[n].kind \notin {"alias", "alias_def"}
    PROVE  \A s : IsFound(map, s) => IsFound(map2, s) /\ Target(map2, s) = Target(map, s)
<1> SUFFICES ASSUME NEW s, IsFound(map, s)
             PROVE  IsFound(map2, s) /\ Target(map2, s) = Target(map, s)
    OBVIOUS
<1>1. s \in DOMAIN map /\ map[s].kind # "alias_def" /\ s \in DOMAIN map2
    BY DEF IsFound, ChangedAt
<1>2. CASE s # n
    <2>1. map2[s] = map[s]
        BY <1>1, <1>2 DEF ChangedAt
    <2> QED
        BY <1>1, <2>1 DEF IsFound, Target
<1>3. CASE s = n
    <2>1. map[s].kind # "alias" /\ map2[s].kind \notin {"alias", "alias_def"}
        BY <1>1, <1>3 DEF IsOpen, Unresolved
    <2> QED
        BY <1>1, <2>1 DEF IsFound, Target
<1> QED
    BY <1>2, <1>3

\* An activation ends.
LEMMA EndsStems ==
    ASSUME StemsFound, NEW n, ChangedAt(types, types', n), IsOpen(types, n),
           n \in DOMAIN types /\ types[n].kind # "alias_def" =>
               types'[n].kind \notin {"alias", "alias_def"},
           StemFound(types', n)
    PROVE  StemsFound'
<1> SUFFICES ASSUME NEW m \in DOMAIN types' PROVE StemFound(types', m)
    BY DEF StemsFound
<1>1. CASE m # n
    <2>1. m \in DOMAIN types /\ types'[m] = types[m] /\ StemFound(types, m)
        BY <1>1 DEF ChangedAt, StemsFound
    <2> QED
        BY <2>1, FoundLasts DEF StemFound
<1> QED
    BY <1>1

\* The map stays, or starts anew.
LEMMA SameStems ==
    ASSUME StemsFound, types' = types
    PROVE  StemsFound'
BY DEF StemsFound

\* It starts with no wrapper.
LEMMA FirstStems ==
    ASSUME types' = Prefilled
    PROVE  StemsFound'
BY PrefilledKinds DEF StemsFound, StemFound, Wrapper

\* A definition is entered, which is not a wrapper and new.
LEMMA DeclareStems ==
    ASSUME IInv, StemsFound, Declare
    PROVE  StemsFound'
<1> DEFINE d == def[next]
           node == MakeNode(d.kind, d.of, d.parts)
<1>1. /\ DOMAIN types \subseteq Name /\ types \in [DOMAIN types -> Node]
      /\ def \in Seq(Definition) /\ next \in DOMAIN def
    BY QuietFacts DEF Declare
<1>2. CASE \E e \in {"missing_name", "redefined_type"} : Throw(e)
    BY <1>2, SameStems DEF Throw
<1>3. CASE d.name \notin DOMAIN types /\ Enter(Emplace(d.name, node))
    <2>1. d \in Definition
        BY <1>1, ElementOfSeq, LenProperties
    <2>2. d.name \in Name /\ node \in Node /\ node.kind \in Unresolved
        BY <2>1 DEF Definition, Node, MakeNode, Kind
    <2> HIDE DEF node
    <2>3. /\ DOMAIN types' = DOMAIN types \cup {d.name}
          /\ \A m \in DOMAIN types : types'[m] = types[m]
          /\ types'[d.name] = node
        BY <1>1, <1>3, <2>2, EmplaceFacts DEF Enter
    <2>4. ChangedAt(types, types', d.name) /\ IsOpen(types, d.name)
        BY <1>3, <2>3 DEF ChangedAt, IsOpen
    <2>5. StemFound(types', d.name)
        BY <2>2, <2>3 DEF StemFound, Wrapper, Unresolved
    <2> QED
        BY <1>3, <2>4, <2>5, EndsStems
<1> QED
    BY <1>2, <1>3 DEF Declare

\* A wrapper points at what came back for its stem.
LEMMA EndOfWrapperStems ==
    ASSUME IInv, FinalInv, StemsFound, EndOfWrapper
    PROVE  StemsFound'
<1> DEFINE n == Top.name
<1>1. stack # <<>> /\ call = NoCall /\ Top.kind \in Wrapper /\ ret # NoName
    BY DEF EndOfWrapper, TopIs
<1>2. CASE ~MayWrap(Top.kind, KindOf(ret))
    BY <1>2, SameStems DEF EndOfWrapper, Throw
<1>3. CASE MayWrap(Top.kind, KindOf(ret))
    <2>1. /\ ChangedAt(types, types', n) /\ n \notin DOMAIN types
          /\ types'[n] = MakeNode(Top.kind, ret, <<>>)
        BY <1>3, EndOfWrapperEnds DEF Ends
    <2>2. IsOpen(types, n)
        BY <2>1 DEF IsOpen
    <2>3. Wanted(types, Top) = Stem[n]
        BY <1>1 DEF Wanted, Wrapper
    <2>4. IsFound(types, Stem[n]) /\ ret = Target(types, Stem[n])
        BY <1>1, <2>3 DEF FinalInv, ReturnServes
    <2>5. IsFound(types', Stem[n]) /\ ret = Target(types', Stem[n])
        BY <2>1, <2>2, <2>4, FoundLasts
    <2>6. StemFound(types', n)
        BY <2>1, <2>5 DEF StemFound, MakeNode
    <2> QED
        BY <2>1, <2>2, <2>6, EndsStems
<1> QED
    BY <1>2, <1>3

\* What else ends is not a wrapper.
LEMMA EndOfAliasStems ==
    ASSUME IInv, FinalInv, StemsFound, EndOfAlias
    PROVE  StemsFound'
<1> DEFINE n == Top.name
<1>1. stack # <<>> /\ call = NoCall /\ Top.kind = "alias" /\ ret # NoName
    BY DEF EndOfAlias, TopIs
<1>2. CASE KindOf(ret) = "extension"
    BY <1>2, SameStems DEF EndOfAlias, Throw
<1>3. CASE KindOf(ret) # "extension"
    <2>1. ChangedAt(types, types', n) /\ types'[n] = MakeNode("alias", ret, <<>>)
        BY <1>3, EndOfAliasEnds DEF Ends
    <2>2. IsOpen(types, n) /\ n \in DOMAIN types /\ types[n].kind \in {"alias", "alias_def"}
        BY <1>1, ReturnedFacts, TopOpen DEF WorksOn, Wrapper
    <2>3. types[n].kind = "alias_def"
        BY <2>2 DEF IsOpen, Unresolved
    <2>4. StemFound(types', n)
        BY <2>1 DEF StemFound, MakeNode, Wrapper
    <2> QED
        BY <2>1, <2>2, <2>3, <2>4, EndsStems
<1> QED
    BY <1>2, <1>3

\* A struct or a variant is no wrapper either.
LEMMA EndOfPartsStems ==
    ASSUME IInv, FinalInv, StemsFound, EndOfParts
    PROVE  StemsFound'
<1> DEFINE n == Top.name
<1>1. stack # <<>> /\ call = NoCall /\ Top.kind \in {"struct", "variant"}
    BY DEF EndOfParts, TopIs
<1>2. ChangedAt(types, types', n) /\ types'[n] = MakeNode(Top.kind, "", Top.parts)
    BY EndOfPartsEnds DEF Ends
<1>3. IsOpen(types, n)
    BY <1>1, TopOpen
<1>4. types'[n].kind \in {"struct", "variant"}
    <2>1. MakeNode(Top.kind, "", Top.parts).kind = Top.kind
        BY DEF MakeNode
    <2> HIDE DEF n
    <2> QED
        BY <1>1, <1>2, <2>1
<1>5. StemFound(types', n)
    BY <1>4 DEF StemFound, Wrapper
<1> QED
    BY <1>2, <1>3, <1>4, <1>5, EndsStems

\* No step takes away what a wrapper is around.
LEMMA NextStems ==
    ASSUME IInv, FinalInv, StemsFound, [Next]_vars
    PROVE  StemsFound'
<1>1. CASE Convert
    BY <1>1, FirstStems DEF Convert
<1>2. CASE Declare
    BY <1>2, DeclareStems
<1>3. CASE EndOfWrapper \/ EndOfAlias \/ EndOfParts
    BY <1>3, EndOfWrapperStems, EndOfAliasStems, EndOfPartsStems
<1>4. CASE Query \/ EndOfDefinitions \/ EndOfFill \/ Answer \/ Failed \/ UNCHANGED vars
    BY <1>4, SameStems DEF Query, EndOfDefinitions, EndOfFill, Answer, Failed, vars
<1>5. CASE Fill \/ GetType
    BY <1>5, SameStems DEF Fill, GetType, Found, Missing, ResolveAlias, ResolveParts, Throw
<1>6. CASE CallBase \/ Base \/ CallPart \/ TakePart
    BY <1>6, SameStems DEF CallBase, Base, CallPart, TakePart, ResolveParts, Throw
<1> QED
    BY <1>1, <1>2, <1>3, <1>4, <1>5, <1>6 DEF Next, Step

-----------------------------------------------------------------------------
(* convert(abi, abi_def) lists what the map defines, each of it once.      *)

\* s defines the names of K, each once and as the map has it.
Lists(s, map, K) ==
    /\ s \in Seq(Definition)
    /\ \A i \in DOMAIN s : s[i].name \in K /\ s[i] = BackOf(map, s[i].name)
    /\ \A n \in K : \E i \in DOMAIN s : s[i].name = n
    /\ \A i, j \in DOMAIN s : s[i].name = s[j].name => i = j

\* Before the loop there is nothing in the list.
LEMMA ListsNone ==
    ASSUME NEW map
    PROVE  Lists(<<>>, map, {})
<1>1. <<>> \in Seq(Definition) /\ DOMAIN <<>> = {}
    OBVIOUS
<1> QED
    BY <1>1 DEF Lists

\* One more definition.
LEMMA ListsOne ==
    ASSUME NEW s, NEW map, NEW K, Lists(s, map, K), NEW n, n \notin K,
           BackOf(map, n) \in Definition
    PROVE  Lists(Append(s, BackOf(map, n)), map, K \cup {n})
<1> DEFINE e == BackOf(map, n)
           t == Push(s, e)
           m == Len(s)
<1>1. s \in Seq(Definition)
    BY DEF Lists
<1>2. e.name = n
    BY DEF BackOf
<1> HIDE DEF e
<1>3. /\ t \in Seq(Definition) /\ m \in Nat /\ Len(t) = m + 1 /\ t[m + 1] = e
      /\ \A i \in 1 .. m : t[i] = s[i]
    BY <1>1, PushFacts DEF e
<1>4. DOMAIN s = 1 .. m /\ DOMAIN t = 1 .. m + 1
    BY <1>1, <1>3, LenProperties
<1> HIDE DEF t, m
<1>5. /\ \A i \in 1 .. m : i \in 1 .. m + 1 /\ i # m + 1
      /\ \A i \in 1 .. m + 1 : i \in 1 .. m \/ i = m + 1
      /\ m + 1 \in 1 .. m + 1
    BY <1>3
<1>6. ASSUME NEW i \in DOMAIN t
      PROVE  /\ t[i].name \in K \cup {n} /\ t[i] = BackOf(map, t[i].name)
             /\ i \in DOMAIN s => t[i].name \in K /\ t[i] = s[i]
             /\ i \notin DOMAIN s => t[i].name = n /\ i = m + 1
    BY <1>2, <1>3, <1>4, <1>5 DEF Lists, e
<1>7. ASSUME NEW l \in K \cup {n}
      PROVE  \E i \in DOMAIN t : t[i].name = l
    <2>1. CASE l = n
        BY <1>2, <1>3, <1>4, <1>5, <2>1
    <2>2. CASE l \in K
        <3>1. PICK i \in DOMAIN s : s[i].name = l
            BY <2>2 DEF Lists
        <3> QED
            BY <1>3, <1>4, <1>5, <3>1
    <2> QED
        BY <2>1, <2>2
<1>8. ASSUME NEW i \in DOMAIN t, NEW j \in DOMAIN t, t[i].name = t[j].name
      PROVE  i = j
    <2>1. CASE i \in DOMAIN s /\ j \in DOMAIN s
        BY <1>6, <1>8, <2>1 DEF Lists
    <2>2. CASE i \notin DOMAIN s \/ j \notin DOMAIN s
        BY <1>6, <1>8, <2>2
    <2> QED
        BY <2>1, <2>2
<1>9. Lists(t, map, K \cup {n})
    BY <1>3, <1>6, <1>7, <1>8 DEF Lists
<1> QED
    BY <1>9 DEF t, e, Push

\* Two lists of definitions, one after the other.
LEMMA DefinitionsJoined ==
    ASSUME NEW s \in Seq(Definition), NEW t \in Seq(Definition), NEW a \in Nat, NEW b \in Nat,
           Len(s) = a, Len(t) = b
    PROVE  /\ s \o t \in Seq(Definition) /\ Len(s \o t) = a + b
           /\ \A i \in 1 .. a : (s \o t)[i] = s[i]
           /\ \A i \in 1 .. b : (s \o t)[a + i] = t[i]
<1>1. /\ s \o t \in Seq(Definition) /\ Len(s \o t) = a + b
      /\ \A i \in 1 .. a + b : (s \o t)[i] = IF i <= a THEN s[i] ELSE t[i - a]
    BY ConcatProperties
<1> DEFINE u == s \o t
<1> HIDE DEF u
<1>2. \A i \in 1 .. a + b : u[i] = IF i <= a THEN s[i] ELSE t[i - a]
    BY <1>1 DEF u
<1>3. ASSUME NEW i \in 1 .. a PROVE u[i] = s[i]
    BY <1>2
<1>4. ASSUME NEW i \in 1 .. b PROVE u[a + i] = t[i]
    <2>1. a + i \in 1 .. a + b /\ ~(a + i <= a) /\ (a + i) - a = i
        OBVIOUS
    <2> QED
        BY <1>2, <2>1
<1> QED
    BY <1>1, <1>3, <1>4 DEF u

\* Two lists of different names.
LEMMA ListsJoined ==
    ASSUME NEW s, NEW t, NEW map, NEW K, NEW L, Lists(s, map, K), Lists(t, map, L),
           K \cap L = {}
    PROVE  Lists(s \o t, map, K \cup L)
<1> DEFINE u == s \o t
           a == Len(s)
           b == Len(t)
<1>1. s \in Seq(Definition) /\ t \in Seq(Definition)
    BY DEF Lists
<1>2. a \in Nat /\ b \in Nat /\ DOMAIN s = 1 .. a /\ DOMAIN t = 1 .. b
    BY <1>1, LenProperties
<1>3. /\ u \in Seq(Definition) /\ Len(u) = a + b
      /\ \A i \in 1 .. a : u[i] = s[i]
      /\ \A i \in 1 .. b : u[a + i] = t[i]
    BY <1>1, <1>2, DefinitionsJoined
<1>4. DOMAIN u = 1 .. a + b
    BY <1>3, LenProperties
<1> HIDE DEF u, a, b
<1>5. /\ \A i \in 1 .. a : i \in 1 .. a + b
      /\ \A i \in 1 .. b : a + i \in 1 .. a + b
      /\ \A i \in 1 .. a + b : i \in 1 .. a \/ \E j \in 1 .. b : i = a + j
    <2>1. ASSUME NEW i \in 1 .. a + b, i \notin 1 .. a PROVE \E j \in 1 .. b : i = a + j
        <3>1. i - a \in 1 .. b /\ i = a + (i - a)
            BY <1>2, <2>1
        <3> QED
            BY <3>1
    <2> QED
        BY <1>2, <2>1
<1>6. ASSUME NEW i \in DOMAIN u
      PROVE  \/ i \in DOMAIN s /\ u[i] = s[i] /\ u[i].name \in K
             \/ \E j \in DOMAIN t : i = a + j /\ u[i] = t[j] /\ u[i].name \in L
    <2>1. CASE i \in 1 .. a
        <3>1. i \in DOMAIN s /\ u[i] = s[i]
            BY <1>2, <1>3, <2>1
        <3> QED
            BY <3>1 DEF Lists
    <2>2. CASE \E j \in 1 .. b : i = a + j
        <3>1. PICK j \in 1 .. b : i = a + j
            BY <2>2
        <3>2. j \in DOMAIN t /\ u[i] = t[j]
            BY <1>2, <1>3, <3>1
        <3>3. t[j].name \in L
            BY <3>2 DEF Lists
        <3> QED
            BY <3>1, <3>2, <3>3
    <2> QED
        BY <1>4, <1>5, <2>1, <2>2
<1>7. \A i \in DOMAIN u : u[i].name \in K \cup L /\ u[i] = BackOf(map, u[i].name)
    BY <1>6 DEF Lists
<1>8. ASSUME NEW l \in K \cup L
      PROVE  \E i \in DOMAIN u : u[i].name = l
    <2>1. CASE l \in K
        <3>1. PICK i \in DOMAIN s : s[i].name = l
            BY <2>1 DEF Lists
        <3> QED
            BY <1>2, <1>3, <1>4, <1>5, <3>1
    <2>2. CASE l \in L
        <3>1. PICK i \in DOMAIN t : t[i].name = l
            BY <2>2 DEF Lists
        <3>2. a + i \in DOMAIN u /\ u[a + i].name = l
            BY <1>2, <1>3, <1>4, <1>5, <3>1
        <3> QED
            BY <3>2
    <2> QED
        BY <2>1, <2>2
<1>9. ASSUME NEW i \in DOMAIN u, NEW j \in DOMAIN u, u[i].name = u[j].name
      PROVE  i = j
    <2>1. CASE i \in DOMAIN s /\ u[i] = s[i] /\ u[i].name \in K
        BY <1>6, <1>9, <2>1 DEF Lists
    <2>2. CASE \E k \in DOMAIN t : i = a + k /\ u[i] = t[k] /\ u[i].name \in L
        BY <1>6, <1>9, <2>2 DEF Lists
    <2> QED
        BY <1>6, <2>1, <2>2
<1>10. Lists(u, map, K \cup L)
    BY <1>3, <1>7, <1>8, <1>9 DEF Lists
<1> QED
    BY <1>10 DEF u

\* A map that could be one of the compiler's.
IsMap(map) == DOMAIN map \subseteq Name /\ map \in [DOMAIN map -> Node]

\* What is put in a list can be an abi_def's.
LEMMA BackType ==
    ASSUME NEW map, IsMap(map), NEW n \in DOMAIN map, map[n].kind \in {"alias", "struct", "variant"}
    PROVE  /\ BackOf(map, n) \in Definition /\ BackOf(map, n).name = n
           /\ BackOf(map, n).of = map[n].of /\ BackOf(map, n).parts = NamesBack(map[n])
           /\ BackOf(map, n).kind = IF map[n].kind = "alias" THEN "alias_def"
                                    ELSE IF map[n].kind = "struct" THEN "struct_def" ELSE "variant_def"
           /\ NamesBack(map[n]) \in Seq(Part) /\ Len(NamesBack(map[n])) = Len(map[n].parts)
           /\ \A i \in 1 .. Len(map[n].parts) :
                  /\ NamesBack(map[n])[i].type = map[n].parts[i].type
                  /\ map[n].kind = "struct" => NamesBack(map[n])[i].name = map[n].parts[i].name
<1> DEFINE t == map[n]
           s == t.parts
           b == NamesBack(t)
           e == BackOf(map, n)
<1>1. n \in Name /\ t \in Node /\ t.of \in Name /\ s \in Seq(Part)
    BY DEF IsMap, Node
<1>2. /\ Len(s) \in Nat /\ DOMAIN s = 1 .. Len(s)
      /\ \A i \in 1 .. Len(s) : s[i] \in Part /\ s[i].type \in Name
    BY <1>1, PartFacts
<1> HIDE DEF t
<1>3. /\ b \in Seq(Part) /\ Len(b) = Len(s)
      /\ \A i \in 1 .. Len(s) : /\ b[i].type = s[i].type
                                /\ t.kind = "struct" => b[i].name = s[i].name
    <2>1. CASE t.kind = "struct"
        BY <1>1, <2>1 DEF NamesBack
    <2>2. CASE t.kind # "struct"
        <3> DEFINE m == Len(s)
                   typed(i) == [name |-> s[i].type, type |-> s[i].type]
        <3>1. b = [i \in 1 .. m |-> typed(i)]
            BY <1>2, <2>2 DEF NamesBack
        <3>2. \A i \in 1 .. m : typed(i) \in Part /\ typed(i).type = s[i].type
            BY <1>2, NameAssumption DEF Part
        <3>3. m \in Nat
            BY <1>2
        <3> HIDE DEF typed, m, b, s
        <3>4. b \in Seq(Part) /\ Len(b) = m /\ \A i \in 1 .. m : b[i] = typed(i)
            BY <3>1, <3>2, <3>3
        <3> QED
            BY <2>2, <3>2, <3>4 DEF m
    <2> QED
        BY <2>1, <2>2
<1> HIDE DEF b, s
<1>4. /\ e.name = n /\ e.of = t.of /\ e.parts = b /\ e.kind = DefinedAs[t.kind]
      /\ e = [name |-> n, kind |-> DefinedAs[t.kind], of |-> t.of, parts |-> b]
    BY DEF BackOf, t, b
<1>5. DefinedAs[t.kind] = IF t.kind = "alias" THEN "alias_def"
                          ELSE IF t.kind = "struct" THEN "struct_def" ELSE "variant_def"
    BY DEF DefinedAs, t
<1>6. e \in Definition
    BY <1>1, <1>3, <1>4, <1>5 DEF Definition, Unresolved
<1> QED
    BY <1>3, <1>4, <1>5, <1>6 DEF t, b, s

\* What of a map is written to the abi_def.
Written(map) ==
    {n \in DOMAIN map : map[n].kind \in {"alias", "struct", "variant"} /\ n # "extended_asset"}
\* The loop over the map has listed the names of a kind that it has passed.
Passed(map, kind, n) == {m \in Name : GoesBack(map, kind, m) /\ \E i \in 1 .. n : MapOrder[i] = m}

DefinitionLists == Seq(Definition)

\* The recursion of Listed has a solution.
LEMMA ListsExist ==
    ASSUME NEW lowest \in DefinitionLists,
           NEW step \in [Nat -> [DefinitionLists -> DefinitionLists]]
    PROVE  \E f \in [Nat -> DefinitionLists] :
               \A k \in Nat : f[k] = IF k = 0 THEN lowest ELSE step[k][f[k - 1]]
BY LevelsExist

\* Each entry of the map adds what it defines, or nothing.
LEMMA ListedIs ==
    ASSUME NEW map, IsMap(map), NEW kind \in {"alias", "struct", "variant"}
    PROVE  /\ Listed(map, kind)[0] = <<>>
           /\ \A n \in Nat : Listed(map, kind)[n + 1] =
                  IF n + 1 \in DOMAIN MapOrder /\ GoesBack(map, kind, MapOrder[n + 1])
                  THEN Append(Listed(map, kind)[n], BackOf(map, MapOrder[n + 1]))
                  ELSE Listed(map, kind)[n]
<1> DEFINE S == DefinitionLists
           Goes1(i) == i \in DOMAIN MapOrder /\ GoesBack(map, kind, MapOrder[i])
           After(i, s) == IF Goes1(i) THEN Append(s, BackOf(map, MapOrder[i])) ELSE s
           step == [i \in Nat |-> [s \in S |-> After(i, s)]]
           F == Listed(map, kind)
<1>1. \A i \in Nat : \A s \in S : After(i, s) \in S
    <2> SUFFICES ASSUME NEW i \in Nat, NEW s \in S, Goes1(i)
                 PROVE  Append(s, BackOf(map, MapOrder[i])) \in S
        OBVIOUS
    <2>1. BackOf(map, MapOrder[i]) \in Definition
        BY BackType DEF GoesBack
    <2> QED
        BY <2>1 DEF DefinitionLists
<1> HIDE DEF After
<1>2. step \in [Nat -> [S -> S]]
    BY <1>1
<1>3. <<>> \in S
    BY DEF DefinitionLists
<1>4. PICK f \in [Nat -> S] : \A k \in Nat : f[k] = IF k = 0 THEN <<>> ELSE step[k][f[k - 1]]
    <2> HIDE DEF step
    <2> QED
        BY <1>2, <1>3, ListsExist
<1>5. f = [i \in Nat |-> IF i = 0 THEN <<>> ELSE After(i, f[i - 1])]
    <2>1. ASSUME NEW k \in Nat
          PROVE  f[k] = IF k = 0 THEN <<>> ELSE After(k, f[k - 1])
        <3>1. CASE k = 0
            BY <1>4, <3>1
        <3>2. CASE k # 0
            <4>1. f[k - 1] \in S
                BY <3>2
            <4>2. step[k][f[k - 1]] = After(k, f[k - 1])
                BY <4>1
            <4> HIDE DEF step
            <4> QED
                BY <1>4, <3>2, <4>2
        <3> QED
            BY <3>1, <3>2
    <2>2. f = [k \in Nat |-> f[k]]
        OBVIOUS
    <2> QED
        BY <2>1, <2>2
<1>6. F = CHOOSE g : g = [i \in Nat |-> IF i = 0 THEN <<>> ELSE After(i, g[i - 1])]
    BY DEF Listed, After
<1>7. F = [i \in Nat |-> IF i = 0 THEN <<>> ELSE After(i, F[i - 1])]
    <2> HIDE DEF F
    <2> QED
        BY <1>5, <1>6
<1> HIDE DEF F
<1>8. F[0] = <<>>
    BY <1>7
<1>9. ASSUME NEW n \in Nat
      PROVE  F[n + 1] = After(n + 1, F[n])
    <2>1. \A j \in Nat : j # 0 => F[j] = After(j, F[j - 1])
        BY <1>7
    <2>2. PICK j \in Nat : j = n + 1 /\ j # 0 /\ j - 1 = n
        OBVIOUS
    <2>3. F[j] = After(j, F[j - 1])
        BY <2>1, <2>2
    <2> QED
        BY <2>2, <2>3
<1> QED
    BY <1>8, <1>9 DEF F, After

\* After n entries the list has what those define.
LEMMA ListedLists ==
    ASSUME EachOnce, NEW map, IsMap(map), NEW kind \in {"alias", "struct", "variant"}
    PROVE  \A n \in Nat : n <= Len(MapOrder) =>
               Lists(Listed(map, kind)[n], map, Passed(map, kind, n))
<1> DEFINE P(n) == Passed(map, kind, n)
           F == Listed(map, kind)
           T == {n \in Nat : n <= Len(MapOrder) => Lists(F[n], map, P(n))}
<1>0. Len(MapOrder) \in Nat /\ DOMAIN MapOrder = 1 .. Len(MapOrder)
    BY NameFacts, LenProperties
<1>1. 0 \in T
    <2>1. P(0) = {}
        BY DEF Passed
    <2> QED
        BY <2>1, ListedIs, ListsNone
<1>2. ASSUME NEW n \in Nat, n \in T
      PROVE  n + 1 \in T
    <2> SUFFICES ASSUME n + 1 <= Len(MapOrder) PROVE Lists(F[n + 1], map, P(n + 1))
        OBVIOUS
    <2> DEFINE m == MapOrder[n + 1]
    <2>1. /\ n + 1 \in DOMAIN MapOrder /\ n <= Len(MapOrder) /\ 1 .. n \subseteq DOMAIN MapOrder
          /\ 1 .. n + 1 = 1 .. n \cup {n + 1} /\ n + 1 \notin 1 .. n
        BY <1>0
    <2>2. m \in Name
        BY <1>0, <2>1, NameFacts, ElementOfSeq
    <2>3. Lists(F[n], map, P(n))
        BY <1>2, <2>1
    <2>4. m \notin P(n)
        BY <2>1 DEF Passed, EachOnce
    <2>5. F[n + 1] = IF GoesBack(map, kind, m) THEN Append(F[n], BackOf(map, m)) ELSE F[n]
        BY <2>1, ListedIs
    <2>6. CASE GoesBack(map, kind, m)
        <3>1. BackOf(map, m) \in Definition
            BY <2>6, BackType DEF GoesBack
        <3>2. P(n + 1) = P(n) \cup {m}
            BY <2>1, <2>2, <2>6 DEF Passed
        <3> HIDE DEF F, P, m
        <3> QED
            BY <2>3, <2>4, <2>5, <2>6, <3>1, <3>2, ListsOne
    <2>7. CASE ~GoesBack(map, kind, m)
        <3>1. P(n + 1) = P(n)
            BY <2>1, <2>7 DEF Passed
        <3> QED
            BY <2>3, <2>5, <2>7, <3>1
    <2> QED
        BY <2>6, <2>7
<1> HIDE DEF T
<1>3. Nat \subseteq T
    BY <1>1, <1>2, NatInduct
<1> QED
    BY <1>3 DEF T

\* The list of a kind has all that the map has of it.
LEMMA BackLists ==
    ASSUME EachOnce, NEW map, IsMap(map), NEW kind \in {"alias", "struct", "variant"}
    PROVE  Lists(Back(map, kind), map, {n \in Name : GoesBack(map, kind, n)})
<1> DEFINE m == Len(MapOrder)
<1>1. m \in Nat /\ DOMAIN MapOrder = 1 .. m
    BY NameFacts, LenProperties
<1>2. Passed(map, kind, m) = {n \in Name : GoesBack(map, kind, n)}
    BY <1>1, NameFacts DEF Passed
<1>3. Lists(Listed(map, kind)[m], map, Passed(map, kind, m))
    <2>1. m <= m
        BY <1>1
    <2> QED
        BY <1>1, <2>1, ListedLists
<1> QED
    BY <1>2, <1>3 DEF Back

\* The three lists are what convert(abi, abi_def) has written.
LEMMA AllBackLists ==
    ASSUME EachOnce, NEW map, IsMap(map)
    PROVE  Lists(AllBack(map), map, Written(map))
<1> DEFINE S(kind) == {n \in Name : GoesBack(map, kind, n)}
           a == Back(map, "alias")
           s == Back(map, "struct")
           v == Back(map, "variant")
<1>1. Lists(a, map, S("alias")) /\ Lists(s, map, S("struct")) /\ Lists(v, map, S("variant"))
    BY BackLists
<1>2. S("alias") \cap S("struct") = {} /\ (S("alias") \cup S("struct")) \cap S("variant") = {}
    BY DEF GoesBack
<1>3. (S("alias") \cup S("struct")) \cup S("variant") = Written(map)
    BY DEF GoesBack, Written, IsMap
<1>4. AllBack(map) = (a \o s) \o v
    BY DEF AllBack
<1> HIDE DEF S, a, s, v
<1>5. Lists(a \o s, map, S("alias") \cup S("struct"))
    BY <1>1, <1>2, ListsJoined
<1> QED
    BY <1>1, <1>2, <1>3, <1>4, <1>5, ListsJoined

-----------------------------------------------------------------------------
(* What is converted back means what the map holds.                        *)

\* What a whole map is, name by name.
LEMMA WholeFacts ==
    ASSUME NEW map, Whole(map)
    PROVE  /\ IsMap(map)
           /\ DOMAIN Prefilled \subseteq DOMAIN map
           /\ Written(map) \cap DOMAIN Prefilled = {}
           /\ \A n \in DOMAIN map : /\ NodeSettled(map, map[n])
                                    /\ n \in DOMAIN Prefilled => map[n] = Prefilled[n]
                                    /\ n \notin DOMAIN Prefilled /\ n \notin Written(map) =>
                                           /\ map[n].kind \in Wrapper /\ map[n].kind = Suffix[n]
                                           /\ StemFound(map, n)
                                           /\ MayWrap(map[n].kind, map[map[n].of].kind)
           /\ \A n \in Written(map) : /\ n # "" /\ n \in DOMAIN map
                                      /\ map[n].kind = "alias" =>
                                             /\ map[n].parts = <<>>
                                             /\ map[map[n].of].kind # "extension"
                                      /\ map[n].kind # "alias" => map[n].of = ""
<1>1. \A n \in DOMAIN Prefilled :
          n = "extended_asset" \/ Prefilled[n].kind = "builtin"
    BY DEF Prefilled, MakeNode
<1>2. "extended_asset" \in DOMAIN Prefilled
    BY DEF Prefilled
<1> QED
    BY <1>1, <1>2 DEF Whole, WholeNode, IsMap, Written, Wrapper

\* Its nodes have the types of nodes.
LEMMA WholeNodes ==
    ASSUME NEW map, Whole(map), NEW n \in DOMAIN map
    PROVE  n \in Name /\ map[n] \in Node /\ map[n].of \in Name /\ map[n].parts \in Seq(Part)
<1>1. n \in Name /\ map[n] \in Node
    BY DEF Whole
<1> QED
    BY <1>1 DEF Node

\* The kind of a node tells what it is there for.
LEMMA KindsWhole ==
    ASSUME NEW map, Whole(map), NEW n \in DOMAIN map
    PROVE  /\ map[n].kind = "alias" => n \in Written(map)
           /\ map[n].kind \in Wrapper => n \notin Written(map) /\ n \notin DOMAIN Prefilled
           /\ map[n].kind \notin Wrapper => n \in Written(map) \/ n \in DOMAIN Prefilled
<1>1. n \in DOMAIN Prefilled => map[n].kind \in {"builtin", "struct"}
    <2> SUFFICES ASSUME n \in DOMAIN Prefilled PROVE map[n].kind \in {"builtin", "struct"}
        OBVIOUS
    <2>1. map[n] = Prefilled[n]
        BY WholeFacts
    <2> QED
        BY <2>1, PrefilledKinds
<1>2. n \notin DOMAIN Prefilled /\ n \notin Written(map) => map[n].kind \in Wrapper
    BY WholeFacts
<1>3. n \in Written(map) => map[n].kind \notin Wrapper
    BY DEF Written, Wrapper
<1>4. "alias" \notin Wrapper /\ "builtin" \notin Wrapper /\ "struct" \notin Wrapper
    BY DEF Wrapper
<1> QED
    BY <1>1, <1>2, <1>3, <1>4

\* What was converted back of a node.
LEMMA WrittenFacts ==
    ASSUME NEW map, Whole(map), NEW n \in Written(map)
    PROVE  /\ n \in DOMAIN map /\ map[n].kind \in {"alias", "struct", "variant"}
           /\ BackOf(map, n).of = map[n].of /\ BackOf(map, n).parts = NamesBack(map[n])
           /\ BackOf(map, n).kind = IF map[n].kind = "alias" THEN "alias_def"
                                    ELSE IF map[n].kind = "struct" THEN "struct_def" ELSE "variant_def"
<1>1. n \in DOMAIN map /\ map[n].kind \in {"alias", "struct", "variant"}
    BY DEF Written
<1>2. IsMap(map)
    BY WholeFacts
<1> QED
    BY <1>1, <1>2, BackType

\* The definitions that were converted back have good names, each its own.
LEMMA BackDefines ==
    ASSUME EachOnce, NEW map, Whole(map)
    PROVE  LET d == AllBack(map) IN
           /\ d \in Seq(Definition)
           /\ Meaning!Declared(d) = Written(map)
           /\ \A n \in Written(map) : Meaning!Defines(d, n) = BackOf(map, n)
           /\ Meaning!NamesAreGood(d)
<1> DEFINE d == AllBack(map)
<1>1. IsMap(map) /\ Written(map) \cap DOMAIN Prefilled = {} /\ "" \notin Written(map)
    BY WholeFacts
<1>2. Lists(d, map, Written(map))
    BY <1>1, AllBackLists
<1> HIDE DEF d
<1>3. d \in Seq(Definition) /\ Meaning!Declared(d) = Written(map)
    BY <1>2 DEF Lists, Meaning!Declared
<1>4. ASSUME NEW n \in Written(map)
      PROVE  Meaning!Defines(d, n) = BackOf(map, n)
    <2>1. PICK i \in DOMAIN d : Meaning!Defines(d, n) = d[i]
        BY <1>3, DefinesFacts
    <2>2. d[i].name = n
        BY <1>3, <2>1, DefinesFacts
    <2> QED
        BY <1>2, <2>1, <2>2 DEF Lists
<1>5. Meaning!NamesAreGood(d)
    BY <1>1, <1>2, <1>3, SameNames DEF Lists, Meaning!NamesAreGood
<1> QED
    BY <1>3, <1>4, <1>5 DEF d

\* They leave every node of the map its kind.
LEMMA BackKinds ==
    ASSUME EachOnce, NEW map, Whole(map), NEW n \in DOMAIN map
    PROVE  Meaning!KindIn(AllBack(map), n) = map[n].kind
<1> DEFINE d == AllBack(map)
<1>1. Meaning!Declared(d) = Written(map)
    BY BackDefines
<1>2. CASE n \in Written(map)
    <2>1. Meaning!Defines(d, n).kind = BackOf(map, n).kind
        BY <1>2, BackDefines
    <2>2. /\ map[n].kind \in {"alias", "struct", "variant"}
          /\ BackOf(map, n).kind = IF map[n].kind = "alias" THEN "alias_def"
                                   ELSE IF map[n].kind = "struct" THEN "struct_def" ELSE "variant_def"
        BY <1>2, WrittenFacts
    <2>3. Meaning!KindIn(d, n) = Meaning!Made(Meaning!Defines(d, n).kind)
        BY <1>1, <1>2 DEF Meaning!KindIn
    <2> HIDE DEF d
    <2>4. Meaning!Made("alias_def") = "alias" /\ Meaning!Made("struct_def") = "struct"
          /\ Meaning!Made("variant_def") = "variant"
        BY DEF Meaning!Made
    <2>5. Meaning!KindIn(d, n) = Meaning!Made(BackOf(map, n).kind)
        BY <2>1, <2>3
    <2> QED
        BY <2>2, <2>4, <2>5 DEF d
<1>3. CASE n \notin Written(map) /\ n \in DOMAIN Prefilled
    <2>1. map[n] = Prefilled[n]
        BY <1>3, WholeFacts
    <2> QED
        BY <1>1, <1>3, <2>1, SameNames DEF Meaning!KindIn
<1>4. CASE n \notin Written(map) /\ n \notin DOMAIN Prefilled
    <2>1. map[n].kind = Suffix[n]
        BY <1>4, WholeFacts
    <2> QED
        BY <1>1, <1>4, <2>1, SameNames DEF Meaning!KindIn
<1> QED
    BY <1>2, <1>3, <1>4

\* The name n is found within k levels in what was converted back.
FoundBack(map, k, n) == NamesAt(AllBack(map), k)[n] = Target(map, n)

\* What is found within j levels is found within k.
LEMMA FoundBackLater ==
    ASSUME EachOnce, NEW map, Whole(map), NEW j \in Nat, NEW k \in Nat, j <= k,
           NEW n \in DOMAIN map, FoundBack(map, j, n)
    PROVE  FoundBack(map, k, n)
<1>1. AllBack(map) \in Seq(Definition)
    BY BackDefines
<1>2. n \in Name /\ map[n].of \in Name
    BY WholeNodes
<1>3. Target(map, n) # NoName
    BY <1>2, NameFacts DEF Target
<1> QED
    BY <1>1, <1>2, <1>3, Levels DEF Below, FoundBack

\* What is no alias and no wrapper stands for itself.
LEMMA PlainFound ==
    ASSUME EachOnce, NEW map, Whole(map), NEW k \in Nat, NEW n \in DOMAIN map,
           map[n].kind \notin Wrapper \cup {"alias"}
    PROVE  FoundBack(map, k + 1, n)
<1> DEFINE d == AllBack(map)
<1>1. d \in Seq(Definition) /\ Meaning!Declared(d) = Written(map) /\ n \in Name
    BY BackDefines, WholeFacts DEF IsMap
<1>2. n \in Meaning!Declared(d) => Meaning!Defines(d, n).kind # "alias_def"
    <2> SUFFICES ASSUME n \in Written(map) PROVE BackOf(map, n).kind # "alias_def"
        BY <1>1, BackDefines
    <2> QED
        BY WrittenFacts
<1>3. n \in Written(map) \/ n \in DOMAIN Prefilled
    BY KindsWhole
<1>4. NamesAt(d, k + 1)[n] = Meaning!StandsIn(d, NamesAt(d, k), n)
    BY <1>1, NamesFacts
<1> HIDE DEF d
<1>5. Meaning!StandsIn(d, NamesAt(d, k), n) = n
    BY <1>1, <1>2, <1>3, SameNames DEF Meaning!StandsIn
<1>6. Target(map, n) = n
    BY DEF Target
<1> QED
    BY <1>4, <1>5, <1>6 DEF FoundBack, d

\* An alias is found one level after what it is for.
LEMMA AliasFound ==
    ASSUME EachOnce, NEW map, Whole(map), NEW k \in Nat, NEW n \in DOMAIN map,
           map[n].kind = "alias", FoundBack(map, k, map[n].of)
    PROVE  FoundBack(map, k + 1, n)
<1> DEFINE d == AllBack(map)
           of == map[n].of
<1>1. n \in Written(map)
    BY KindsWhole
<1>2. d \in Seq(Definition) /\ Meaning!Declared(d) = Written(map) /\ n \in Name
    BY BackDefines, WholeFacts DEF IsMap
<1>3. Meaning!Defines(d, n).kind = "alias_def" /\ Meaning!Defines(d, n).of = of
    <2>1. BackOf(map, n).kind = "alias_def" /\ BackOf(map, n).of = of
        BY <1>1, WrittenFacts
    <2>2. Meaning!Defines(d, n) = BackOf(map, n)
        BY <1>1, BackDefines
    <2> QED
        BY <2>1, <2>2
<1>4. of \in DOMAIN map /\ map[of].kind \notin {"alias", "alias_def"} /\ map[of].kind # "extension"
    BY <1>1, WholeFacts DEF NodeSettled, Settled
<1>5. Meaning!KindIn(d, of) = map[of].kind /\ of \in Name
    BY <1>4, BackKinds, WholeFacts DEF IsMap
<1>6. of # NoName
    BY <1>5, NameFacts
<1>7. NamesAt(d, k)[of] = of
    BY <1>4 DEF FoundBack, Target
<1> HIDE DEF d, of
<1>8. NamesAt(d, k + 1)[n] = of
    BY <1>1, <1>2, <1>3, <1>4, <1>5, <1>6, <1>7, AliasStands
<1> QED
    BY <1>8 DEF FoundBack, Target, d, of

\* A wrapper is found one level after its stem.
LEMMA WrapperFound ==
    ASSUME EachOnce, NEW map, Whole(map), NEW k \in Nat, NEW n \in DOMAIN map,
           map[n].kind \in Wrapper, FoundBack(map, k, Stem[n])
    PROVE  FoundBack(map, k + 1, n)
<1> DEFINE d == AllBack(map)
           of == map[n].of
<1>1. n \notin Written(map) /\ n \notin DOMAIN Prefilled
    BY KindsWhole
<1>2. d \in Seq(Definition) /\ Meaning!Declared(d) = Written(map) /\ n \in Name
    BY BackDefines, WholeFacts DEF IsMap
<1>3. /\ map[n].kind = Suffix[n] /\ of = Target(map, Stem[n])
      /\ MayWrap(map[n].kind, map[of].kind)
    BY <1>1, WholeFacts DEF StemFound
<1>4. of \in DOMAIN map
    BY WholeFacts DEF NodeSettled, Settled
<1>5. Meaning!KindIn(d, of) = map[of].kind /\ of \in Name
    BY <1>4, BackKinds, WholeFacts DEF IsMap
<1>6. of # NoName /\ Suffix[n] # "none"
    BY <1>3, <1>5, NameFacts DEF Wrapper
<1>7. NamesAt(d, k)[Stem[n]] = of
    BY <1>3 DEF FoundBack
<1> HIDE DEF d, of
<1>8. NamesAt(d, k + 1)[n] = n
    BY <1>1, <1>2, <1>3, <1>5, <1>6, <1>7, WrapperStands
<1>9. Target(map, n) = n
    BY DEF Target, Wrapper
<1> QED
    BY <1>8, <1>9 DEF FoundBack, d

\* Five levels are enough: a type, an alias for it, an optional or an array of
\* that, an alias for it, and a binary extension of that.
LEMMA AllFound ==
    ASSUME EachOnce, NEW map, Whole(map)
    PROVE  \A n \in DOMAIN map : FoundBack(map, 5, n)
<1> DEFINE Plain(n) == map[n].kind \notin Wrapper \cup {"alias"}
<1>0. /\ \A n \in DOMAIN map : map[n].kind \in Wrapper \cup {"alias"} =>
              /\ map[n].of \in DOMAIN map /\ map[map[n].of].kind # "alias"
              /\ map[map[n].of].kind # "extension"
      /\ \A n \in DOMAIN map : map[n].kind \in Wrapper =>
              /\ Stem[n] \in DOMAIN map
              /\ map[n].of = IF map[Stem[n]].kind = "alias" THEN map[Stem[n]].of ELSE Stem[n]
              /\ map[n].kind \in {"optional", "array"} => Plain(map[n].of)
    <2>1. ASSUME NEW n \in DOMAIN map, map[n].kind = "alias"
          PROVE  /\ map[n].of \in DOMAIN map /\ map[map[n].of].kind # "alias"
                 /\ map[map[n].of].kind # "extension"
        <3>1. n \in Written(map)
            BY <2>1, KindsWhole
        <3> QED
            BY <2>1, <3>1, WholeFacts DEF NodeSettled, Settled
    <2>2. ASSUME NEW n \in DOMAIN map, map[n].kind \in Wrapper
          PROVE  /\ map[n].of \in DOMAIN map /\ map[map[n].of].kind # "alias"
                 /\ map[map[n].of].kind # "extension"
                 /\ Stem[n] \in DOMAIN map
                 /\ map[n].of = IF map[Stem[n]].kind = "alias" THEN map[Stem[n]].of ELSE Stem[n]
                 /\ map[n].kind \in {"optional", "array"} => Plain(map[n].of)
        <3>1. n \notin Written(map) /\ n \notin DOMAIN Prefilled
            BY <2>2, KindsWhole
        <3>2. NodeSettled(map, map[n]) /\ StemFound(map, n) /\ MayWrap(map[n].kind, map[map[n].of].kind)
            BY <3>1, WholeFacts
        <3> QED
            BY <2>2, <3>2 DEF NodeSettled, Settled, StemFound, IsFound, Target, MayWrap, Wrapper
    <2> QED
        BY <2>1, <2>2
<1>1. \A n \in DOMAIN map : Plain(n) => FoundBack(map, 1, n)
    BY PlainFound, 0 + 1 = 1
<1>2. \A n \in DOMAIN map : map[n].kind = "alias" /\ Plain(map[n].of) => FoundBack(map, 2, n)
    BY <1>0, <1>1, AliasFound, 1 + 1 = 2
<1>3. \A n \in DOMAIN map : map[n].kind \in {"optional", "array"} => FoundBack(map, 3, n)
    <2> SUFFICES ASSUME NEW n \in DOMAIN map, map[n].kind \in {"optional", "array"}
                 PROVE  FoundBack(map, 3, n)
        OBVIOUS
    <2>1. map[n].kind \in Wrapper /\ Stem[n] \in DOMAIN map
        BY <1>0 DEF Wrapper
    <2>2. FoundBack(map, 2, Stem[n])
        <3>1. CASE map[Stem[n]].kind = "alias"
            BY <1>0, <1>2, <2>1, <3>1
        <3>2. CASE map[Stem[n]].kind # "alias"
            <4>1. FoundBack(map, 1, Stem[n])
                BY <1>0, <1>1, <2>1, <3>2
            <4> QED
                BY <2>1, <4>1, FoundBackLater
        <3> QED
            BY <3>1, <3>2
    <2> QED
        BY <2>1, <2>2, WrapperFound, 2 + 1 = 3
<1>4. \A n \in DOMAIN map : map[n].kind \notin {"alias", "extension"} => FoundBack(map, 3, n)
    <2> SUFFICES ASSUME NEW n \in DOMAIN map, Plain(n) PROVE FoundBack(map, 3, n)
        BY <1>3 DEF Wrapper
    <2>1. FoundBack(map, 1, n)
        BY <1>1
    <2> QED
        BY <2>1, FoundBackLater
<1>5. \A n \in DOMAIN map : map[n].kind = "alias" => FoundBack(map, 4, n)
    BY <1>0, <1>4, AliasFound, 3 + 1 = 4
<1>6. \A n \in DOMAIN map : map[n].kind # "extension" => FoundBack(map, 4, n)
    BY <1>4, <1>5, FoundBackLater
<1>7. \A n \in DOMAIN map : map[n].kind = "extension" => FoundBack(map, 5, n)
    <2> SUFFICES ASSUME NEW n \in DOMAIN map, map[n].kind = "extension" PROVE FoundBack(map, 5, n)
        OBVIOUS
    <2>1. map[n].kind \in Wrapper /\ Stem[n] \in DOMAIN map /\ map[Stem[n]].kind # "extension"
        BY <1>0 DEF Wrapper
    <2> QED
        BY <1>6, <2>1, WrapperFound, 4 + 1 = 5
<1> QED
    BY <1>6, <1>7, FoundBackLater

\* What a definition that was converted back has as its own is what the node has.
LEMMA OwnBack ==
    ASSUME EachOnce, NEW map, Whole(map), NEW n \in Written(map), map[n].kind # "alias"
    PROVE  LET own == Meaning!OwnParts(AllBack(map), NamesAt(AllBack(map), 5), n) IN
           /\ own # Meaning!NoParts /\ own \in Seq(Part)
           /\ SameParts(map[n].kind, map[n].parts, own)
<1> DEFINE d == AllBack(map)
           names == NamesAt(d, 5)
           has == map[n].parts
           parts == NamesBack(map[n])
           m == Len(has)
           typed == Typed(parts, m, names)
           own == Meaning!OwnParts(d, names, n)
<1>1. /\ d \in Seq(Definition) /\ Meaning!Declared(d) = Written(map)
      /\ Meaning!Defines(d, n) = BackOf(map, n)
    BY BackDefines
<1>2. /\ n \in DOMAIN map /\ map[n].kind \in {"struct", "variant"}
      /\ BackOf(map, n).parts = parts
    BY WrittenFacts
<1>3. has \in Seq(Part) /\ m \in Nat /\ DOMAIN has = 1 .. m
    BY <1>2, WholeNodes, PartFacts
<1>4. /\ parts \in Seq(Part) /\ Len(parts) = m
      /\ \A i \in 1 .. m : /\ parts[i].type = has[i].type
                           /\ map[n].kind = "struct" => parts[i].name = has[i].name
    <2>1. IsMap(map)
        BY WholeFacts
    <2> QED
        BY <1>2, <2>1, BackType
<1>5. DOMAIN parts = 1 .. m
    BY <1>4, PartFacts
<1>6. ASSUME NEW i \in 1 .. m
      PROVE  has[i].type \in Name /\ names[has[i].type] = has[i].type
    <2>1. NodeSettled(map, map[n])
        BY <1>2, WholeFacts
    <2>2. Settled(map, has[i].type)
        BY <1>2, <1>3, <2>1 DEF NodeSettled
    <2>3. has[i].type \in DOMAIN map /\ map[has[i].type].kind # "alias"
        BY <2>2 DEF Settled
    <2>4. FoundBack(map, 5, has[i].type)
        BY <2>3, AllFound
    <2> QED
        BY <1>3, <2>3, <2>4, PartFacts DEF FoundBack, Target
<1>7. names \in NamesSet
    BY <1>1, NamesFacts
<1>8. Meaning!Defines(d, n).parts = parts
    BY <1>1, <1>2
<1> HIDE DEF d, names, has, parts
<1>9. \A i \in 1 .. m : /\ names[parts[i].type] = has[i].type
                        /\ names[parts[i].type] # NoName
    <2> SUFFICES ASSUME NEW i \in 1 .. m
                 PROVE  names[parts[i].type] = has[i].type /\ has[i].type # NoName
        OBVIOUS
    <2>1. parts[i].type = has[i].type
        BY <1>4
    <2> QED
        BY <1>6, <2>1, NameFacts
<1>10. own = typed
    <2>1. ~ \E i \in DOMAIN parts : names[parts[i].type] = NoName
        BY <1>5, <1>9
    <2>2. own = [i \in DOMAIN parts |-> [name |-> parts[i].name, type |-> names[parts[i].type]]]
        BY <1>8, <2>1, SameNames DEF Meaning!OwnParts
    <2> QED
        BY <1>5, <2>2 DEF Typed
<1>11. /\ typed \in Seq(Part) /\ Len(typed) = m
       /\ \A i \in 1 .. m : typed[i] = [name |-> parts[i].name, type |-> names[parts[i].type]]
    <2>1. m <= Len(parts)
        BY <1>3, <1>4
    <2> HIDE DEF m
    <2> QED
        BY <1>3, <1>4, <1>7, <1>9, <2>1, TypedFacts
<1>12. SameParts(map[n].kind, has, typed)
    <2> HIDE DEF typed
    <2>1. \A i \in 1 .. m : typed[i].name = parts[i].name /\ typed[i].type = names[parts[i].type]
        <3> SUFFICES ASSUME NEW i \in 1 .. m
                     PROVE  typed[i].name = parts[i].name /\ typed[i].type = names[parts[i].type]
            OBVIOUS
        <3>1. typed[i] = [name |-> parts[i].name, type |-> names[parts[i].type]]
            BY <1>11
        <3> QED
            BY <3>1
    <2> HIDE DEF m
    <2>2. m = Len(has) /\ m = Len(typed)
        BY <1>11 DEF m
    <2> QED
        BY <1>3, <1>4, <1>9, <2>1, <2>2 DEF SameParts
<1> QED
    BY <1>10, <1>11, <1>12, NoPartsApart DEF d, names, has, parts

\* Nothing before a list changes it.
LEMMA NothingBefore ==
    ASSUME NEW s \in Seq(Part)
    PROVE  <<>> \o s = s
BY ConcatEmptySeq

\* What is converted back has a meaning within six levels, which is the node that
\* it was made from.
LEMMA BackMeans ==
    ASSUME EachOnce, NEW map, Whole(map), NEW n \in Written(map)
    PROVE  /\ Meaning!Sound(AllBack(map), 6, n)
           /\ SameNode(map[n], Meaning!NodeFor(AllBack(map), 6, n))
<1> DEFINE d == AllBack(map)
           own == Meaning!OwnParts(d, NamesAt(d, 5), n)
<1>1. /\ n \in DOMAIN map /\ map[n].kind \in {"alias", "struct", "variant"} /\ n \in Name
      /\ n \notin DOMAIN Prefilled
    BY WrittenFacts, WholeFacts DEF IsMap
<1>2. d \in Seq(Definition) /\ Meaning!KindIn(d, n) = map[n].kind
    BY <1>1, BackDefines, BackKinds
<1>3. map[n].of \in Name
    BY <1>1, WholeNodes
<1>4. CASE map[n].kind = "alias"
    <2>1. FoundBack(map, 6, n)
        BY <1>1, AllFound, FoundBackLater
    <2>2. NamesAt(d, 6)[n] = map[n].of
        BY <1>4, <2>1 DEF FoundBack, Target
    <2>3. map[n].parts = <<>>
        BY <1>4, WholeFacts
    <2> HIDE DEF d
    <2>4. Meaning!NodeFor(d, 6, n) = MakeNode("alias", map[n].of, <<>>)
        BY <1>2, <1>4, <2>2, NodeForIs
    <2>5. Meaning!Sound(d, 6, n)
        BY <1>2, <1>3, <1>4, <2>2, NameFacts, SameNames DEF Meaning!Sound, NamesAt
    <2>6. SameNode(map[n], MakeNode("alias", map[n].of, <<>>))
        BY <1>4, <2>3 DEF SameNode, SameParts, MakeNode
    <2> QED
        BY <2>4, <2>5, <2>6 DEF d
<1>5. CASE map[n].kind # "alias"
    <2>1. /\ own # Meaning!NoParts /\ own \in Seq(Part)
          /\ SameParts(map[n].kind, map[n].parts, own)
          /\ map[n].of = ""
        BY <1>5, OwnBack, WholeFacts
    <2>2. /\ Meaning!Defines(d, n).of = ""
        <3>1. Meaning!Defines(d, n) = BackOf(map, n) /\ BackOf(map, n).of = map[n].of
            BY BackDefines, WrittenFacts
        <3> QED
            BY <2>1, <3>1
    <2> HIDE DEF d, own
    <2>3. CASE map[n].kind = "struct"
        <3>1. Meaning!Inherited(d, NamesAt(d, 5), FieldsAt(d, 5), n) = <<>>
            BY <2>2 DEF Meaning!Inherited
        <3>2. <<>> # Meaning!NoParts /\ <<>> \o own = own
            <4>1. <<>> # Meaning!NoParts
                BY NoParts, NoPartsApart
            <4>2. own \in Seq(Part)
                BY <2>1
            <4>3. <<>> \o own = own
                BY <4>2, NothingBefore
            <4> QED
                BY <4>1, <4>3
        <3>3. FieldsAt(d, 5 + 1)[n] = own
            BY <1>1, <1>2, <2>1, <2>3, <3>1, <3>2, StructHas DEF own
        <3>4. FieldsAt(d, 6)[n] = own
            BY <3>3, 5 + 1 = 6
        <3>5. Meaning!NodeFor(d, 6, n) = MakeNode("struct", "", own)
            BY <1>2, <2>3, <3>4, NodeForIs
        <3>6. Meaning!Sound(d, 6, n)
            BY <1>2, <2>1, <2>3, <3>4 DEF Meaning!Sound, FieldsAt
        <3>7. SameNode(map[n], MakeNode("struct", "", own))
            BY <2>1, <2>3 DEF SameNode, MakeNode
        <3> QED
            BY <3>5, <3>6, <3>7 DEF d
    <2>4. CASE map[n].kind = "variant"
        <3>1. Meaning!OwnParts(d, NamesAt(d, 6 - 1), n) = own
            BY 6 - 1 = 5 DEF own
        <3>2. Meaning!NodeFor(d, 6, n) = MakeNode("variant", "", own)
            BY <1>2, <2>4, <3>1, NodeForIs
        <3>3. Meaning!Sound(d, 6, n)
            BY <1>2, <2>1, <2>4, <3>1 DEF Meaning!Sound, NamesAt
        <3>4. SameNode(map[n], MakeNode("variant", "", own))
            BY <2>1, <2>4 DEF SameNode, MakeNode
        <3> QED
            BY <3>2, <3>3, <3>4 DEF d
    <2> QED
        BY <1>1, <1>5, <2>3, <2>4
<1> QED
    BY <1>4, <1>5

\* So convert accepts it.
LEMMA BackAllSound ==
    ASSUME EachOnce, DeepEnough, NEW map, Whole(map)
    PROVE  Meaning!AllSound(AllBack(map), MaxDepth)
<1>1. /\ AllBack(map) \in Seq(Definition) /\ Meaning!Declared(AllBack(map)) = Written(map)
      /\ Meaning!NamesAreGood(AllBack(map))
    BY BackDefines
<1>2. MaxDepth \in Nat /\ 6 <= MaxDepth
    BY LimitType DEF DeepEnough
<1>3. ASSUME NEW n \in Written(map)
      PROVE  Meaning!Sound(AllBack(map), MaxDepth, n)
    BY <1>1, <1>2, BackMeans, SoundLasts
<1> QED
    BY <1>1, <1>3 DEF Meaning!AllSound

\* The meaning of a definition does not depend on the levels that it is given.
LEMMA SameMeant ==
    ASSUME NEW d \in Seq(Definition), NEW j \in Nat \ {0}, NEW k \in Nat \ {0},
           NEW n, n \in Meaning!Declared(d), Meaning!Sound(d, j, n), Meaning!Sound(d, k, n)
    PROVE  Meaning!NodeFor(d, j, n) = Meaning!NodeFor(d, k, n)
<1>1. CASE j <= k
    BY <1>1, SoundLasts
<1>2. CASE k <= j
    BY <1>2, SoundLasts
<1> QED
    BY <1>1, <1>2

\* What a definition has become once nothing is unresolved.
LEMMA ReadyNodes ==
    ASSUME IInv, MeansInv, phase = "ready", NEW n, n \in Meaning!Declared(def)
    PROVE  /\ n \in DOMAIN types /\ n \in Name /\ n \notin DOMAIN Prefilled /\ n # ""
           /\ Meaning!Sound(def, Rank(types), n)
           /\ types[n] = Meaning!NodeFor(def, Rank(types), n)
<1> DEFINE k == Rank(types)
<1>1. def \in Seq(Definition) /\ GraphMeans(def, k, types)
    BY RunFacts
<1>2. \A m \in DOMAIN types : types[m].kind \notin Unresolved
    BY DEF IInv, NothingLeftOver, KindOf
<1> HIDE DEF k
<1>3. n \in DOMAIN types /\ NodeMeans(def, k, types, n) /\ Meaning!NamesAreGood(def)
    BY <1>1 DEF GraphMeans
<1>4. types[n] # AsEntered(Meaning!Defines(def, n))
    <2>1. Meaning!Defines(def, n).kind \in Unresolved
        BY <1>1, DefinesFacts DEF Definition
    <2>2. AsEntered(Meaning!Defines(def, n)).kind = Meaning!Defines(def, n).kind
        BY DEF AsEntered, MakeNode
    <2> QED
        BY <1>2, <1>3, <2>1, <2>2
<1>5. Meaning!Sound(def, k, n) /\ types[n] = Meaning!NodeFor(def, k, n)
    BY <1>3, <1>4 DEF NodeMeans
<1>6. n \in Name /\ n \notin DOMAIN Prefilled /\ n # ""
    BY <1>1, <1>3, DefinesFacts, SameNames DEF Meaning!NamesAreGood
<1> QED
    BY <1>3, <1>5, <1>6 DEF k

\* What convert has made is whole.
LEMMA ReadyWhole ==
    ASSUME IInv, MeansInv, StemsFound, phase = "ready"
    PROVE  Whole(types)
<1> DEFINE k == Rank(types)
<1>1. /\ def \in Seq(Definition) /\ DOMAIN types \subseteq Name
      /\ k \in Nat /\ k # 0 /\ GraphMeans(def, k, types)
    BY RunFacts
<1>2. types \in [DOMAIN types -> Node]
    BY DEF IInv, TypeOK
<1>3. DOMAIN Prefilled \subseteq DOMAIN types
    BY <1>1 DEF GraphMeans
<1> HIDE DEF k
<1>4. ASSUME NEW n \in DOMAIN types
      PROVE  WholeNode(types, n)
    <2>1. NodeSettled(types, types[n])
        BY DEF IInv, GraphSettled
    <2>2. CASE n \in Meaning!Declared(def)
        <3>1. /\ n \in Name /\ n \notin DOMAIN Prefilled /\ n # ""
              /\ Meaning!Sound(def, k, n) /\ types[n] = Meaning!NodeFor(def, k, n)
            BY <2>2, ReadyNodes DEF k
        <3>2. CASE Meaning!KindIn(def, n) = "alias"
            <4> DEFINE of == NamesAt(def, k)[n]
            <4>1. types[n] = MakeNode("alias", of, <<>>)
                BY <3>1, <3>2, NodeForIs
            <4>2. types[n].kind = "alias" /\ types[n].of = of /\ types[n].parts = <<>>
                BY <4>1 DEF MakeNode
            <4>3. of \in DOMAIN types /\ of \in Name
                BY <1>1, <2>1, <4>2 DEF NodeSettled, Settled
            <4>4. PICK j \in Nat : k = j + 1
                <5>1. k - 1 \in Nat /\ k = (k - 1) + 1
                    BY <1>1
                <5> QED
                    BY <5>1
            <4>5. of # NoName
                BY <4>3, NameFacts
            <4>6. Meaning!Defines(def, n).kind = "alias_def"
                <5>1. Meaning!Defines(def, n).kind \in Unresolved
                    BY <1>1, <2>2, DefinesFacts DEF Definition
                <5>2. Meaning!Made(Meaning!Defines(def, n).kind) = "alias"
                    BY <2>2, <3>2 DEF Meaning!KindIn
                <5> QED
                    BY <5>1, <5>2 DEF Meaning!Made, Unresolved
            <4>7. Meaning!KindIn(def, of) # "extension"
                <5> HIDE DEF of
                <5>1. NamesAt(def, j + 1)[n] = of
                    BY <4>4 DEF of
                <5> QED
                    BY <1>1, <2>2, <3>1, <4>5, <4>6, <5>1, AliasStands
            <4>8. Later(types[of].kind, Meaning!KindIn(def, of))
                BY <1>1, <4>3, KindMeant
            <4>9. types[types[n].of].kind # "extension"
                BY <4>2, <4>7, <4>8, WrapMeant
            <4> QED
                BY <2>1, <3>1, <4>2, <4>9 DEF WholeNode
        <3>3. CASE Meaning!KindIn(def, n) # "alias"
            <4>1. PICK kind \in {"struct", "variant"} :
                      \E parts : types[n] = MakeNode(kind, "", parts)
                BY <3>1, <3>3, NodeForIs
            <4>2. types[n].kind \in {"struct", "variant"} /\ types[n].of = ""
                <5>1. \A parts : /\ MakeNode(kind, "", parts).kind = kind
                                 /\ MakeNode(kind, "", parts).of = ""
                    BY DEF MakeNode
                <5> QED
                    BY <4>1, <5>1
            <4> QED
                BY <2>1, <3>1, <4>2 DEF WholeNode
        <3> QED
            BY <3>2, <3>3
    <2>3. CASE n \notin Meaning!Declared(def) /\ n \in DOMAIN Prefilled
        <3>1. types[n] = Prefilled[n]
            BY <1>1, <2>3 DEF GraphMeans, NodeMeans
        <3> QED
            BY <2>1, <2>3, <3>1 DEF WholeNode
    <2>4. CASE n \notin Meaning!Declared(def) /\ n \notin DOMAIN Prefilled
        <3>1. types[n].kind = Suffix[n]
            BY <1>1, <2>4 DEF GraphMeans, NodeMeans
        <3>2. types[n].kind \in Kind
            BY <1>2 DEF Node
        <3>3. types[n].kind \in Wrapper /\ n # ""
            <4>1. "none" \notin Kind /\ "none" \notin Wrapper
                BY DEF Kind, Unresolved, Wrapper
            <4>2. Suffix[n] \in Wrapper \cup {"none"}
                BY <1>1, NameFacts
            <4>3. Suffix[""] = "none"
                BY NameAssumption
            <4> QED
                BY <3>1, <3>2, <4>1, <4>2, <4>3
        <3>4. MayWrap(types[n].kind, types[types[n].of].kind)
            BY <3>3 DEF IInv, NestingLegal, MayWrap, KindOf
        <3>5. StemFound(types, n)
            BY DEF StemsFound
        <3> QED
            BY <2>1, <2>4, <3>1, <3>3, <3>4, <3>5 DEF WholeNode
    <2> QED
        BY <2>2, <2>3, <2>4
<1> QED
    BY <1>1, <1>2, <1>3, <1>4 DEF Whole

\* Whatever both maps hold is the same in both.
LEMMA ReadySame ==
    ASSUME EachOnce, IInv, MeansInv, StemsFound, phase = "ready",
           NEW map, Whole(map), def = AllBack(map), NEW n \in DOMAIN map
    PROVE  /\ map[n].kind \notin Wrapper => n \in DOMAIN types
           /\ n \in DOMAIN types => SameNode(map[n], types[n])
<1> DEFINE k == Rank(types)
<1>1. /\ def \in Seq(Definition) /\ DOMAIN types \subseteq Name
      /\ k \in Nat /\ k # 0 /\ GraphMeans(def, k, types)
    BY RunFacts
<1>2. Meaning!Declared(def) = Written(map)
    BY BackDefines
<1>3. CASE n \in Written(map)
    <2>1. /\ n \in DOMAIN types /\ Meaning!Sound(def, k, n)
          /\ types[n] = Meaning!NodeFor(def, k, n)
        BY <1>2, <1>3, ReadyNodes
    <2>2. Meaning!Sound(def, 6, n) /\ SameNode(map[n], Meaning!NodeFor(def, 6, n))
        BY <1>3, BackMeans
    <2> HIDE DEF k
    <2>3. Meaning!NodeFor(def, 6, n) = Meaning!NodeFor(def, k, n)
        BY <1>1, <1>2, <1>3, <2>1, <2>2, SameMeant
    <2> QED
        BY <2>1, <2>2, <2>3
<1>4. CASE n \notin Written(map) /\ n \in DOMAIN Prefilled
    <2>1. map[n] = Prefilled[n]
        BY <1>4, WholeFacts
    <2>2. n \in DOMAIN types /\ types[n] = Prefilled[n]
        BY <1>1, <1>2, <1>4 DEF GraphMeans, NodeMeans
    <2> QED
        BY <2>1, <2>2 DEF SameNode, SameParts
<1>5. CASE n \notin Written(map) /\ n \notin DOMAIN Prefilled
    <2>1. /\ map[n].kind \in Wrapper /\ map[n].kind = Suffix[n] /\ StemFound(map, n)
        BY <1>5, WholeFacts
    <2> SUFFICES ASSUME n \in DOMAIN types PROVE SameNode(map[n], types[n])
        BY <2>1
    <2>2. types[n].kind = Suffix[n] /\ StemFound(types, n)
        BY <1>1, <1>2, <1>5 DEF GraphMeans, NodeMeans, StemsFound
    <2>3. /\ IsFound(map, Stem[n]) /\ map[n].of = Target(map, Stem[n]) /\ map[n].parts = <<>>
          /\ IsFound(types, Stem[n]) /\ types[n].of = Target(types, Stem[n]) /\ types[n].parts = <<>>
        BY <2>1, <2>2 DEF StemFound
    <2> HIDE DEF k
    <2>4. NamesAt(def, k)[Stem[n]] = Target(types, Stem[n])
        BY <1>1, <2>3, Known
    <2>5. NamesAt(def, 5)[Stem[n]] = Target(map, Stem[n])
        BY <2>3, AllFound DEF FoundBack, IsFound
    <2>6. /\ Target(types, Stem[n]) # NoName /\ Target(map, Stem[n]) # NoName /\ Stem[n] \in Name
        <3>1. types[n].of \in Name
            BY DEF IInv, TypeOK, Node
        <3>2. map[n].of \in Name /\ n \in Name
            BY WholeNodes
        <3> QED
            BY <2>3, <3>1, <3>2, NameFacts
    <2>7. Target(types, Stem[n]) = Target(map, Stem[n])
        BY <1>1, <2>4, <2>5, <2>6, SameMeaning
    <2> QED
        BY <2>1, <2>2, <2>3, <2>7 DEF SameNode, SameParts
<1> QED
    BY <1>3, <1>4, <1>5

-----------------------------------------------------------------------------
(* convert(abi, abi_def) and convert(abi_def, abi) keep what there is.     *)

\* The map is converted back once it is complete.
LEMMA ConvertBackIs ==
    ASSUME IInv, ConvertBack
    PROVE  /\ phase = "ready" /\ first' = types /\ def' = AllBack(types)
           /\ stack' = <<>> /\ call' = NoCall /\ ret' = NoName /\ query' = NoName
           /\ phase' = "declare" /\ types' = Prefilled /\ next' = 1 /\ cursor' = 0
<1>1. phase = "ready"
    BY DEF ConvertBack
<1>2. \A n \in DOMAIN types : KindOf(n) \notin Unresolved
    BY <1>1 DEF IInv, NothingLeftOver
<1>3. stack = <<>> /\ call = NoCall
    BY <1>1 DEF IInv, PhaseShape, Idle
<1> QED
    BY <1>1, <1>2, <1>3 DEF ConvertBack

\* Converting back begins convert anew, with definitions that a whole map has.
LEMMA ConvertBackInv ==
    ASSUME EachOnce, IInv, FinalInv, MeansInv, RoundTripInv, ConvertBack
    PROVE  IInv' /\ FinalInv' /\ MeansInv' /\ RoundTripInv'
<1>1. /\ phase = "ready" /\ first' = types /\ def' = AllBack(types)
      /\ stack' = <<>> /\ call' = NoCall /\ ret' = NoName /\ query' = NoName
      /\ phase' = "declare" /\ types' = Prefilled /\ next' = 1 /\ cursor' = 0
    BY ConvertBackIs
<1>2. Whole(types)
    BY <1>1, ReadyWhole DEF RoundTripInv
<1>3. def' \in Seq(Definition)
    BY <1>1, <1>2, BackDefines
<1>4. IInv'
    <2>1. /\ DOMAIN types' \subseteq Name /\ types' \in [DOMAIN types' -> Node] /\ GraphGood(types')
        BY <1>1, PrefilledGood
    <2>2. Swept' /\ NothingLeftOver'
        BY <1>1 DEF Swept, NothingLeftOver
    <2> QED
        BY <1>1, <1>3, <2>1, <2>2, QuietInv
<1>5. FinalInv'
    BY <1>1, QuietFinal
<1>6. MeansInv'
    <2>1. Len(def') \in Nat
        BY <1>3, LenProperties
    <2>2. next' - 1 <= Len(def') /\ 1 .. next' - 1 = {}
        BY <1>1, <2>1
    <2>3. Declaring'
        BY <1>1, <2>2 DEF Declaring
    <2> QED
        BY <1>1, <2>3, QuietMeans
<1>7. StemsFound'
    BY <1>1, FirstStems
<1> QED
    BY <1>1, <1>2, <1>4, <1>5, <1>6, <1>7 DEF RoundTripInv

\* Once converted back the definitions stay, and none of them is refused.
LEMMA BackAccepted ==
    ASSUME EachOnce, DeepEnough, IInv, FinalInv, MeansInv, RoundTripInv, IInv', [Next]_vars,
           first # <<>>
    PROVE  def' = def /\ phase' \in {"declare", "fill", "ready", "query"}
<1>1. Meaning!AllSound(def, MaxDepth) /\ Verdict \in {"pending", "accepted"}
    BY BackAllSound DEF RoundTripInv, Verdict, Accepted
<1>2. Meaning!Next \/ Unseen
    BY StepImplements
<1>3. def' = def /\ Verdict' \in {"pending", "accepted"}
    BY <1>1, <1>2 DEF Meaning!Next, Meaning!Submit, Meaning!Accept, Meaning!Reject, Meaning!Ask,
        Meaning!Reply, Unseen
<1>4. phase' \in {"idle", "declare", "fill", "ready", "query", "failed"}
    BY DEF IInv, TypeOK
<1> QED
    BY <1>3, <1>4 DEF Verdict, Accepted

\* The steps of the compiler keep it, before and after.
LEMMA NextRoundTrip ==
    ASSUME EachOnce, DeepEnough, IInv, FinalInv, MeansInv, RoundTripInv, [Next]_vars,
           UNCHANGED first
    PROVE  IInv' /\ FinalInv' /\ MeansInv' /\ RoundTripInv'
<1>1. IInv' /\ FinalInv' /\ MeansInv'
    BY NextInv, NextFinal, NextMeans
<1>2. StemsFound'
    BY NextStems DEF RoundTripInv
<1>3. first # <<>> => def' = def /\ phase' \in {"declare", "fill", "ready", "query"}
    BY <1>1, BackAccepted
<1> QED
    BY <1>1, <1>2, <1>3 DEF RoundTripInv

\* The property follows.
LEMMA RoundTripFollows ==
    ASSUME EachOnce, IInv, MeansInv, RoundTripInv
    PROVE  RoundTripKeeps
<1> SUFFICES ASSUME first # <<>> PROVE RoundTripKeeps
    BY DEF RoundTripKeeps
<1>1. Whole(first) /\ def = AllBack(first) /\ phase # "failed" /\ StemsFound
    BY DEF RoundTripInv
<1>2. ASSUME phase = "ready", NEW n \in DOMAIN first
      PROVE  /\ first[n].kind \notin Wrapper => n \in DOMAIN types
             /\ n \in DOMAIN types => SameNode(first[n], types[n])
    BY <1>1, <1>2, ReadySame
<1> QED
    BY <1>1, <1>2 DEF RoundTripKeeps

\* What was compiled compiles again after it has been converted back, to the same
\* types, whatever the definitions, the order of the map and the questions between
\* (abi.cpp:143-254, template_test.cpp:45).
THEOREM RoundTripStays ==
    ASSUME EachOnce, DeepEnough
    PROVE  RoundTripSpec => []RoundTripKeeps
<1> DEFINE Inv == IInv /\ FinalInv /\ MeansInv /\ RoundTripInv
<1>1. RoundTripInit => Inv
    <2> SUFFICES ASSUME RoundTripInit PROVE Inv
        OBVIOUS
    <2>1. Init /\ first = <<>>
        BY DEF RoundTripInit
    <2>2. StemsFound
        BY <2>1, EmptySeq DEF StemsFound, Init
    <2> QED
        BY <2>1, <2>2, InitInv, InitFinal, InitMeans DEF RoundTripInv
<1>2. Inv /\ [RoundTripNext]_roundTripVars => Inv'
    <2> SUFFICES ASSUME Inv, [RoundTripNext]_roundTripVars PROVE Inv'
        OBVIOUS
    <2>1. CASE ConvertBack
        BY <2>1, ConvertBackInv
    <2>2. CASE ([Next]_vars) /\ UNCHANGED first
        BY <2>2, NextRoundTrip
    <2> QED
        BY <2>1, <2>2 DEF RoundTripNext, roundTripVars
<1>3. Inv => RoundTripKeeps
    BY RoundTripFollows
<1> QED
    BY <1>1, <1>2, <1>3, PTL DEF RoundTripSpec
=============================================================================
