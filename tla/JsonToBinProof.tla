--------------------------- MODULE JsonToBinProof ---------------------------
(***************************************************************************)
(* What the in-order encoder JsonToBin keeps for every ABI, every document *)
(* and every depth limit: IInv of JsonToBinInv is inductive, and the safety*)
(* properties of JsonToBin follow from it.                                 *)
(***************************************************************************)
EXTENDS JsonToBinInv, ReaderLemmas

-----------------------------------------------------------------------------
(* The reader and the stack nest alike.                                    *)

\* The context on top belongs to the entry on top.
LEMMA TopContext ==
    ASSUME NEW in \in Stream, NEW st \in Seq(Entry), NEW p \in BOOLEAN, Shape(in, st, p)
    PROVE  /\ in.open \in Seq(Context) /\ in.open # <<>>
           /\ Len(st) \in Nat
           /\ Len(in.open) = Len(st) + 1
           /\ Last(in.open) = in.open[Len(st) + 1]
           /\ st = <<>> => Last(in.open) \in {"root", "done"}
           /\ st # <<>> /\ Ser[Last(st).type] = "object" => Last(in.open) \in {"key", "value"}
           /\ st # <<>> /\ Ser[Last(st).type] # "object" => Last(in.open) = "array"
<1>1. in.open \in Seq(Context) /\ Len(in.open) = Len(st) + 1 /\ Len(st) \in Nat
    BY LenProperties DEF Stream, Shape
<1>2. in.open # <<>>
    BY <1>1, EmptySeq
<1>3. Last(in.open) = in.open[Len(st) + 1]
    BY <1>1, <1>2, TopFacts
<1>4. st = <<>> => Last(in.open) \in {"root", "done"}
    BY <1>1, <1>3, EmptySeq DEF Shape
<1>5. ASSUME st # <<>>
      PROVE  in.open[Len(st) + 1] \in ContextOf(st, Len(st), p)
    BY <1>5, NonEmpty DEF Shape
<1>6. st # <<>> => Last(st) = st[Len(st)]
    BY TopFacts
<1> QED
    BY <1>1, <1>2, <1>3, <1>4, <1>5, <1>6 DEF ContextOf

\* The context of a level whose value has been read, or is being read.
Goes(e) == IF Ser[e.type] = "object" THEN "key" ELSE "array"

\* The contexts once the value wanted on top counts as read.
LEMMA ReadFacts ==
    ASSUME NEW in \in Stream, NEW st \in Seq(Entry), NEW p \in BOOLEAN, Shape(in, st, p),
           NEW kind \in ValueStart, Expects(Last(in.open), kind),
           NEW read, read = WithTop(in.open, AfterValue[Last(in.open)])
    PROVE  /\ read \in Seq(Context)
           /\ Len(read) = Len(st) + 1
           /\ read[1] = "done"
           /\ \A i \in 1 .. Len(st) : read[i + 1] = Goes(st[i])
<1> DEFINE ctx == AfterValue[Last(in.open)]
<1>1. /\ in.open \in Seq(Context) /\ in.open # <<>>
      /\ Len(st) \in Nat
      /\ Len(in.open) = Len(st) + 1
      /\ Last(in.open) = in.open[Len(st) + 1]
      /\ st = <<>> => Last(in.open) \in {"root", "done"}
      /\ st # <<>> /\ Ser[Last(st).type] = "object" => Last(in.open) \in {"key", "value"}
      /\ st # <<>> /\ Ser[Last(st).type] # "object" => Last(in.open) = "array"
    BY TopContext
<1>2. /\ st = <<>> => ctx = "done"
      /\ st # <<>> => ctx = Goes(Last(st))
    BY <1>1, AfterValueFacts DEF Expects, ValueStart, Scalars, Goes
<1>3. ctx \in {"done", "key", "array"}
    BY <1>2 DEF Goes
<1> HIDE DEF ctx
<1>4. /\ read \in Seq(Context)
      /\ Len(read) = Len(st) + 1
      /\ read[Len(st) + 1] = ctx
      /\ \A i \in 1 .. Len(st) : read[i] = in.open[i]
    BY <1>1, <1>3, WithTopFacts DEF Context, ctx
<1>5. read[1] = "done"
    <2>1. CASE st = <<>>
        BY <2>1, <1>2, <1>4, EmptySeq
    <2>2. CASE st # <<>>
        <3>1. 1 \in 1 .. Len(st)
            BY <2>2, NonEmpty
        <3> QED
            BY <3>1, <2>2, <1>4 DEF Shape
    <2> QED
        BY <2>1, <2>2
<1>6. ASSUME NEW i \in 1 .. Len(st)
      PROVE  read[i + 1] = Goes(st[i])
    <2>1. CASE i < Len(st)
        <3>1. i + 1 \in 1 .. Len(st)
            BY <2>1, <1>1
        <3>2. read[i + 1] \in ContextOf(st, i, p)
            BY <3>1, <1>4 DEF Shape
        <3> QED
            BY <3>2, <2>1 DEF ContextOf, Goes
    <2>2. CASE i = Len(st)
        <3>1. st # <<>>
            BY <2>2, <1>1, EmptySeq
        <3>2. Last(st) = st[Len(st)]
            BY <3>1, TopFacts
        <3> QED
            BY <3>1, <3>2, <2>2, <1>2, <1>4
    <2>3. i < Len(st) \/ i = Len(st)
        BY <1>1
    <2> QED
        BY <2>1, <2>2, <2>3
<1> QED
    BY <1>4, <1>5, <1>6

\* A level that has been read fits any stack of the same serializers.
LEMMA GoesFits ==
    ASSUME NEW st, NEW i, NEW p
    PROVE  (i < Len(st) \/ ~p) => Goes(st[i]) \in ContextOf(st, i, p)
BY DEF Goes, ContextOf

\* A scalar ends the value that was wanted, and the level goes on.
LEMMA ShapeScalar ==
    ASSUME NEW in \in Stream, NEW st \in Seq(Entry), NEW p \in BOOLEAN, Shape(in, st, p),
           Peek(in).kind \in Scalars
    PROVE  /\ Eat(in) \in Stream
           /\ Shape(Eat(in), st, FALSE)
           /\ Last(Eat(in).open) # "value"
<1> DEFINE open == Eat(in).open
<1>1. /\ Peek(in).kind \in ValueStart
      /\ Peek(in).kind # "error"
      /\ Expects(Last(in.open), Peek(in).kind)
      /\ open = WithTop(in.open, AfterValue[Last(in.open)])
    BY PeekFacts, EatFacts DEF Scalars, ValueStart, Advance
<1> HIDE DEF open
<1>2. /\ open \in Seq(Context)
      /\ Len(open) = Len(st) + 1
      /\ open[1] = "done"
      /\ \A i \in 1 .. Len(st) : open[i + 1] = Goes(st[i])
    BY <1>1, ReadFacts
<1>3. Eat(in) \in Stream
    BY <1>1, <1>2, EatFacts DEF open
<1>4. Shape(Eat(in), st, FALSE)
    BY <1>2, GoesFits DEF Shape, open
<1>5. Last(open) \in {"done", "key", "array"}
    <2>1. Len(st) \in Nat /\ open # <<>> /\ Last(open) = open[Len(st) + 1]
        BY <1>2, LenProperties, EmptySeq, TopFacts
    <2>2. Len(st) = 0 \/ Len(st) \in 1 .. Len(st)
        BY <2>1
    <2> QED
        BY <1>2, <2>1, <2>2 DEF Goes
<1> QED
    BY <1>3, <1>4, <1>5 DEF open

\* A level for a new entry goes on top of levels that have been read.
LEMMA NewLevel ==
    ASSUME NEW st \in Seq(Entry), NEW e \in Entry,
           NEW read \in Seq(Context), Len(read) = Len(st) + 1, read[1] = "done",
           \A i \in 1 .. Len(st) : read[i + 1] = Goes(st[i])
    PROVE  /\ Push(read, Goes(e)) \in Seq(Context)
           /\ Len(Push(read, Goes(e))) = Len(Push(st, e)) + 1
           /\ Push(read, Goes(e))[1] = "done"
           /\ Last(Push(read, Goes(e))) = Goes(e)
           /\ \A i \in 1 .. Len(Push(st, e)) : Push(read, Goes(e))[i + 1] = Goes(Push(st, e)[i])
<1> DEFINE pushed == Push(st, e)
           open == Push(read, Goes(e))
<1>1. /\ pushed # <<>>
      /\ Len(st) \in Nat
      /\ Len(pushed) = Len(st) + 1
      /\ pushed[Len(st) + 1] = e
      /\ \A i \in 1 .. Len(st) : pushed[i] = st[i]
    BY PushFacts
<1>2. Goes(e) \in Context
    BY DEF Goes, Context
<1>3. /\ open \in Seq(Context) /\ open # <<>>
      /\ Len(open) = Len(read) + 1
      /\ open[Len(read) + 1] = Goes(e)
      /\ \A i \in 1 .. Len(read) : open[i] = read[i]
    BY <1>2, PushContext
<1> HIDE DEF pushed, open
<1>4. open[1] = "done"
    BY <1>1, <1>3, LevelFacts
<1>5. ASSUME NEW i \in 1 .. Len(pushed)
      PROVE  open[i + 1] = Goes(pushed[i])
    <2>1. CASE i \in 1 .. Len(st)
        <3>1. i + 1 \in 1 .. Len(read)
            BY <2>1, <1>1, LevelFacts
        <3> QED
            BY <2>1, <3>1, <1>1, <1>3
    <2>2. CASE i = Len(st) + 1
        BY <2>2, <1>1, <1>3
    <2>3. i \in 1 .. Len(st) \/ i = Len(st) + 1
        BY <1>1, LevelFacts
    <2> QED
        BY <2>1, <2>2, <2>3
<1>6. Last(open) = Goes(e)
    BY <1>3, TopFacts
<1>7. Len(open) = Len(pushed) + 1
    BY <1>1, <1>3
<1> QED
    BY <1>3, <1>4, <1>5, <1>6, <1>7 DEF pushed, open

\* The start of a container is a new level for a new entry.
LEMMA ShapeOpen ==
    ASSUME NEW in \in Stream, NEW st \in Seq(Entry), NEW p \in BOOLEAN, Shape(in, st, p),
           Peek(in).kind \in {"start_object", "start_array"},
           NEW e \in Entry, Ser[e.type] = "object" <=> Peek(in).kind = "start_object"
    PROVE  /\ Eat(in) \in Stream
           /\ Shape(Eat(in), Push(st, e), FALSE)
           /\ Last(Eat(in).open) # "value"
<1> DEFINE open == Eat(in).open
           pushed == Push(st, e)
           read == WithTop(in.open, AfterValue[Last(in.open)])
<1>1. /\ Peek(in).kind \in ValueStart
      /\ Peek(in).kind # "error"
      /\ Expects(Last(in.open), Peek(in).kind)
    BY PeekFacts DEF ValueStart
<1>2. Inside(Peek(in).kind) = Goes(e)
    BY DEF Inside, Goes
<1>3. open = Push(read, Goes(e))
    BY <1>2, EatFacts DEF Scalars, Advance, Push
<1> HIDE DEF open, read
<1>4. /\ read \in Seq(Context)
      /\ Len(read) = Len(st) + 1
      /\ read[1] = "done"
      /\ \A i \in 1 .. Len(st) : read[i + 1] = Goes(st[i])
    BY <1>1, ReadFacts DEF read
<1>5. /\ Push(read, Goes(e)) \in Seq(Context)
      /\ Len(Push(read, Goes(e))) = Len(pushed) + 1
      /\ Push(read, Goes(e))[1] = "done"
      /\ Last(Push(read, Goes(e))) = Goes(e)
      /\ \A i \in 1 .. Len(pushed) : Push(read, Goes(e))[i + 1] = Goes(pushed[i])
    BY <1>4, NewLevel
<1> HIDE DEF pushed
<1>6. Eat(in) \in Stream
    BY <1>1, <1>3, <1>5, EatFacts DEF open
<1>7. Shape(Eat(in), pushed, FALSE)
    BY <1>3, <1>5, GoesFits DEF Shape, open
<1> QED
    BY <1>3, <1>5, <1>6, <1>7 DEF open, Goes, pushed

\* Pop, for the entries of the encoder.
LEMMA PopEntry ==
    ASSUME NEW st \in Seq(Entry), st # <<>>
    PROVE  \E h \in Nat :
             /\ Len(st) = h + 1
             /\ Front(st) \in Seq(Entry)
             /\ Len(Front(st)) = h
             /\ \A i \in 1 .. h : Front(st)[i] = st[i]
BY PopFacts

\* Push, for the entries of the encoder.
LEMMA PushEntry ==
    ASSUME NEW st \in Seq(Entry), NEW e \in Entry
    PROVE  /\ Push(st, e) \in Seq(Entry) /\ Push(st, e) # <<>>
           /\ Len(st) \in Nat
           /\ Len(Push(st, e)) = Len(st) + 1
           /\ Push(st, e)[Len(st) + 1] = e
           /\ \A i \in 1 .. Len(st) : Push(st, e)[i] = st[i]
BY PushFacts

\* Replacing the top, for the entries of the encoder.
LEMMA ReplaceEntry ==
    ASSUME NEW st \in Seq(Entry), st # <<>>, NEW e \in Entry
    PROVE  /\ WithEntry(st, e) \in Seq(Entry) /\ WithEntry(st, e) # <<>>
           /\ Len(WithEntry(st, e)) = Len(st)
           /\ \A i \in 1 .. Len(st) : WithEntry(st, e)[i] = IF i = Len(st) THEN e ELSE st[i]
BY ReplaceFacts DEF WithEntry

\* The entry on top after each of them.
LEMMA TopEntry ==
    ASSUME NEW st \in Seq(Entry), st # <<>>
    PROVE  /\ Last(st) = st[Len(st)]
           /\ Last(st) \in Entry
           /\ Len(st) \in Nat \ {0}
           /\ Len(st) \in 1 .. Len(st)
BY TopFacts, NonEmpty

\* A pushed entry is on top.
LEMMA PushedTop ==
    ASSUME NEW st \in Seq(Entry), NEW e \in Entry
    PROVE  Last(Push(st, e)) = e
<1>1. /\ Push(st, e) \in Seq(Entry) /\ Push(st, e) # <<>>
      /\ Len(Push(st, e)) = Len(st) + 1
    BY PushEntry
<1>2. Last(Push(st, e)) = Push(st, e)[Len(st) + 1]
    BY <1>1, TopEntry
<1> QED
    BY <1>2, PushEntry

\* A replaced top is on top.
LEMMA ReplacedTop ==
    ASSUME NEW st \in Seq(Entry), st # <<>>, NEW e \in Entry
    PROVE  Last(WithEntry(st, e)) = e
<1>1. /\ WithEntry(st, e) \in Seq(Entry) /\ WithEntry(st, e) # <<>>
      /\ Len(WithEntry(st, e)) = Len(st)
    BY ReplaceEntry
<1>2. Last(WithEntry(st, e)) = WithEntry(st, e)[Len(st)]
    BY <1>1, TopEntry
<1>3. Len(st) \in 1 .. Len(st)
    BY TopEntry
<1> QED
    BY <1>2, <1>3, ReplaceEntry

\* The end of a container closes its level.
LEMMA ShapeClose ==
    ASSUME NEW in \in Stream, NEW st \in Seq(Entry), NEW p \in BOOLEAN, Shape(in, st, p),
           Peek(in).kind \in {"end_object", "end_array"}
    PROVE  /\ st # <<>>
           /\ Eat(in) \in Stream
           /\ Shape(Eat(in), Front(st), FALSE)
           /\ Front(st) # <<>> => Last(Eat(in).open) # "value"
<1> DEFINE open == Eat(in).open
           popped == Front(st)
<1>1. /\ in.open \in Seq(Context) /\ in.open # <<>>
      /\ Len(in.open) = Len(st) + 1
      /\ st = <<>> => Last(in.open) \in {"root", "done"}
    BY TopContext
<1>2. Peek(in).kind # "error" /\ Expects(Last(in.open), Peek(in).kind)
    BY PeekFacts
<1>3. st # <<>>
    BY <1>1, <1>2 DEF Expects, ValueStart, Scalars
<1>4. open = Front(in.open)
    BY <1>2, EatFacts DEF Advance, Scalars
<1>5. PICK h \in Nat :
        /\ Len(st) = h + 1
        /\ popped \in Seq(Entry)
        /\ Len(popped) = h
        /\ \A i \in 1 .. h : popped[i] = st[i]
    BY <1>3, PopEntry
<1>6. PICK k \in Nat :
        /\ Len(in.open) = k + 1
        /\ Front(in.open) \in Seq(Context)
        /\ Len(Front(in.open)) = k
        /\ \A i \in 1 .. k : Front(in.open)[i] = in.open[i]
    BY <1>1, PopFacts
<1> HIDE DEF open, popped
<1>7. k = h + 1
    <2>1. h + 1 + 1 = k + 1
        BY <1>1, <1>5, <1>6
    <2> QED
        BY <2>1, <1>5, <1>6
<1>8. /\ open \in Seq(Context) /\ open # <<>>
      /\ Len(open) = h + 1
      /\ \A i \in 1 .. h + 1 : open[i] = in.open[i]
    BY <1>4, <1>5, <1>6, <1>7, EmptySeq
<1>9. open[1] = "done"
    BY <1>3, <1>5, <1>8 DEF Shape
<1>10. ASSUME NEW i \in 1 .. h
       PROVE  open[i + 1] = Goes(popped[i])
    <2>1. i \in 1 .. h + 1 /\ i + 1 \in 1 .. h + 1 /\ i < h + 1
        BY <1>5
    <2>2. in.open[i + 1] \in ContextOf(st, i, p)
        BY <2>1, <1>5 DEF Shape
    <2> QED
        BY <2>1, <2>2, <1>5, <1>8 DEF ContextOf, Goes
<1>11. Eat(in) \in Stream
    BY <1>2, <1>8, EatFacts DEF open
<1>12. Shape(Eat(in), popped, FALSE)
    BY <1>5, <1>8, <1>9, <1>10, GoesFits DEF Shape, open
<1>13. ASSUME popped # <<>>
       PROVE  Last(open) # "value"
    <2>1. h \in 1 .. h
        BY <1>13, <1>5, EmptySeq
    <2>2. Last(open) = open[h + 1]
        BY <1>8, TopFacts
    <2> QED
        BY <2>1, <2>2, <1>10 DEF Goes
<1> QED
    BY <1>3, <1>11, <1>12, <1>13 DEF open, popped

\* A key is read where the top entry is a struct's; a value must follow.
LEMMA ShapeKey ==
    ASSUME NEW in \in Stream, NEW st \in Seq(Entry), NEW p \in BOOLEAN, Shape(in, st, p),
           Peek(in).kind = "key"
    PROVE  /\ st # <<>>
           /\ Ser[Last(st).type] = "object"
           /\ Eat(in) \in Stream
           /\ Shape(Eat(in), st, FALSE)
<1> DEFINE open == Eat(in).open
<1>1. Peek(in).kind # "error" /\ Expects(Last(in.open), Peek(in).kind)
    BY PeekFacts
<1>2. /\ in.open \in Seq(Context) /\ Len(st) \in Nat
      /\ Len(in.open) = Len(st) + 1
    BY TopContext
<1>3. st # <<>> /\ Ser[Last(st).type] = "object"
    BY <1>1, TopContext DEF Expects, ValueStart, Scalars
<1>4. open = WithTop(in.open, "value")
    BY <1>1, EatFacts DEF Advance, Scalars
<1> HIDE DEF open
<1>5. /\ open \in Seq(Context)
      /\ Len(open) = Len(st) + 1
      /\ open[Len(st) + 1] = "value"
      /\ \A i \in 1 .. Len(st) : open[i] = in.open[i]
    BY <1>2, <1>4, WithTopFacts DEF Context
<1>6. Last(st) = st[Len(st)] /\ Len(st) \in 1 .. Len(st) /\ 1 \in 1 .. Len(st)
    BY <1>2, <1>3, TopEntry
<1>7. open[1] = "done"
    BY <1>3, <1>5, <1>6 DEF Shape
<1>8. ASSUME NEW i \in 1 .. Len(st)
      PROVE  open[i + 1] \in ContextOf(st, i, FALSE)
    <2>1. CASE i = Len(st)
        BY <2>1, <1>3, <1>5, <1>6 DEF ContextOf
    <2>2. CASE i # Len(st)
        <3>1. i < Len(st) /\ i + 1 \in 1 .. Len(st)
            BY <2>2, <1>2
        <3>2. in.open[i + 1] \in ContextOf(st, i, p)
            BY DEF Shape
        <3> QED
            BY <3>1, <3>2, <1>5 DEF ContextOf
    <2> QED
        BY <2>1, <2>2
<1>9. Eat(in) \in Stream
    BY <1>1, <1>5, EatFacts DEF open
<1> QED
    BY <1>3, <1>5, <1>7, <1>8, <1>9 DEF Shape, open

\* Only the types on the stack matter to the shape.
LEMMA ShapeReplace ==
    ASSUME NEW in, NEW st \in Seq(Entry), NEW p \in BOOLEAN, Shape(in, st, p), st # <<>>,
           NEW e \in Entry, e.type = Last(st).type
    PROVE  Shape(in, WithEntry(st, e), p)
<1> DEFINE new == WithEntry(st, e)
<1>1. /\ new # <<>>
      /\ Len(new) = Len(st)
      /\ \A i \in 1 .. Len(st) : new[i] = IF i = Len(st) THEN e ELSE st[i]
    BY ReplaceEntry
<1>2. Last(st) = st[Len(st)]
    BY TopEntry
<1> HIDE DEF new
<1>3. \A i \in 1 .. Len(st) : new[i].type = st[i].type
    BY <1>1, <1>2
<1>4. \A i \in 1 .. Len(st) : ContextOf(new, i, p) = ContextOf(st, i, p)
    BY <1>1, <1>3 DEF ContextOf
<1>5. Shape(in, new, p)
    BY <1>1, <1>4 DEF Shape
<1> QED
    BY <1>5 DEF new

\* The top entry may call for its value where the grammar wants one.
LEMMA ShapeCall ==
    ASSUME NEW in \in Stream, NEW st \in Seq(Entry), Shape(in, st, FALSE), st # <<>>,
           Ser[Last(st).type] = "object" => Last(in.open) = "value"
    PROVE  Shape(in, st, TRUE)
<1>1. Last(st) = st[Len(st)] /\ Len(st) \in 1 .. Len(st)
    BY TopEntry
<1>2. Last(in.open) = in.open[Len(st) + 1]
    BY TopContext
<1>3. ASSUME NEW i \in 1 .. Len(st)
      PROVE  in.open[i + 1] \in ContextOf(st, i, TRUE)
    <2>1. in.open[i + 1] \in ContextOf(st, i, FALSE)
        BY DEF Shape
    <2>2. CASE i = Len(st) /\ Ser[st[i].type] = "object"
        BY <2>2, <1>1, <1>2 DEF ContextOf
    <2>3. CASE ~(i = Len(st) /\ Ser[st[i].type] = "object")
        <3>1. i = Len(st) \/ i < Len(st)
            BY <1>1
        <3> QED
            BY <2>1, <2>3, <3>1 DEF ContextOf
    <2> QED
        BY <2>2, <2>3
<1> QED
    BY <1>3 DEF Shape

-----------------------------------------------------------------------------
(* The stack stays good under its operations.                              *)

\* The entry on top is a good one.
LEMMA GoodTop ==
    ASSUME NEW st \in Seq(Entry), st # <<>>, NEW holes \in Nat, GoodStack(st, holes)
    PROVE  Last(st) \in Entry /\ GoodEntry(Last(st), holes)
BY TopEntry DEF GoodStack

\* A new hole leaves the entries there are as good as they were.
LEMMA GoodMore ==
    ASSUME NEW e \in Entry, NEW holes \in Nat, GoodEntry(e, holes),
           NEW more \in {holes, holes + 1}
    PROVE  GoodEntry(e, more)
<1>1. 1 .. holes \subseteq 1 .. more
    OBVIOUS
<1> QED
    BY <1>1 DEF GoodEntry, EntryInBounds

\* The entry under the top one is closing if extensions are allowed on top.
LEMMA GoodPop ==
    ASSUME NEW st \in Seq(Entry), st # <<>>, NEW holes \in Nat, GoodStack(st, holes)
    PROVE  /\ GoodStack(Front(st), holes)
           /\ Last(st).allow /\ Front(st) # <<>> => Closing(Last(Front(st)))
<1> DEFINE popped == Front(st)
<1>1. PICK h \in Nat :
        /\ Len(st) = h + 1
        /\ popped \in Seq(Entry)
        /\ Len(popped) = h
        /\ \A i \in 1 .. h : popped[i] = st[i]
    BY PopEntry
<1>2. Last(st) = st[h + 1]
    BY <1>1, TopEntry
<1> HIDE DEF popped
<1>3. \A i \in 1 .. h : i \in 1 .. h + 1
    BY <1>1
<1>4. \A i \in 1 .. h : GoodEntry(popped[i], holes)
    BY <1>1, <1>3 DEF GoodStack
<1>5. Chain(popped)
    <2>1. ASSUME NEW i \in 1 .. h - 1, popped[i + 1].allow
          PROVE  Closing(popped[i])
        <3>1. i \in 1 .. h /\ i + 1 \in 1 .. h /\ i \in 1 .. (h + 1) - 1
            BY <1>1
        <3>2. popped[i] = st[i] /\ popped[i + 1] = st[i + 1]
            BY <3>1, <1>1
        <3> QED
            BY <2>1, <3>1, <3>2, <1>1 DEF GoodStack, Chain
    <2> QED
        BY <2>1, <1>1 DEF Chain
<1>6. Holes(popped)
    <2>1. ASSUME NEW i \in 1 .. h, NEW j \in 1 .. h, i < j,
                 Ser[popped[i].type] = "array", Ser[popped[j].type] = "array"
          PROVE  popped[i].slot < popped[j].slot
        <3>1. popped[i] = st[i] /\ popped[j] = st[j]
            BY <1>1
        <3>2. i \in 1 .. Len(st) /\ j \in 1 .. Len(st)
            BY <1>1, <1>3
        <3> QED
            BY <2>1, <3>1, <3>2 DEF GoodStack, Holes
    <2> QED
        BY <2>1, <1>1 DEF Holes
<1>7. ASSUME Last(st).allow, popped # <<>>
      PROVE  Closing(Last(popped))
    <2>1. h \in 1 .. h
        BY <1>7, <1>1, EmptySeq
    <2>2. h \in 1 .. (h + 1) - 1
        BY <2>1, <1>1
    <2>3. Last(popped) = st[h]
        BY <1>7, <1>1, <2>1, TopEntry
    <2> QED
        BY <1>7, <1>1, <1>2, <2>2, <2>3 DEF GoodStack, Chain
<1> QED
    BY <1>1, <1>4, <1>5, <1>6, <1>7 DEF GoodStack, popped

\* An entry may go on top if the one below is closing or it allows nothing, and
\* if an array takes a hole of its own.
LEMMA GoodPush ==
    ASSUME NEW st \in Seq(Entry), NEW holes \in Nat, GoodStack(st, holes),
           NEW e \in Entry, NEW more \in {holes, holes + 1}, GoodEntry(e, more),
           e.allow /\ st # <<>> => Closing(Last(st)),
           Ser[e.type] = "array" => e.slot = holes + 1
    PROVE  GoodStack(Push(st, e), more)
<1> DEFINE pushed == Push(st, e)
<1>1. PICK h \in Nat :
        /\ Len(st) = h
        /\ pushed \in Seq(Entry)
        /\ Len(pushed) = h + 1
        /\ pushed[h + 1] = e
        /\ \A i \in 1 .. h : pushed[i] = st[i]
    BY PushEntry
<1> HIDE DEF pushed
<1>2. \A i \in 1 .. h + 1 : i \in 1 .. h \/ i = h + 1
    BY <1>1
<1>3. \A i \in 1 .. h : st[i] \in Entry
    BY <1>1, ElementOfSeq
<1>4. ASSUME NEW i \in 1 .. h + 1
      PROVE  GoodEntry(pushed[i], more)
    <2>1. CASE i = h + 1
        BY <2>1, <1>1
    <2>2. CASE i \in 1 .. h
        <3>1. GoodEntry(st[i], holes) /\ st[i] \in Entry
            BY <2>2, <1>1, <1>3 DEF GoodStack
        <3>2. GoodEntry(st[i], more)
            BY <3>1, GoodMore
        <3> QED
            BY <2>2, <3>2, <1>1
    <2> QED
        BY <2>1, <2>2, <1>2
<1>5. Chain(pushed)
    <2>1. ASSUME NEW i \in 1 .. h, pushed[i + 1].allow
          PROVE  Closing(pushed[i])
        <3>1. CASE i = h
            <4>1. st # <<>>
                BY <3>1, <1>1, EmptySeq
            <4>2. Last(st) = st[h]
                BY <4>1, <1>1, TopEntry
            <4> QED
                BY <2>1, <3>1, <4>1, <4>2, <1>1
        <3>2. CASE i # h
            <4>1. i + 1 \in 1 .. h /\ i \in 1 .. h - 1
                BY <3>2, <1>1
            <4>2. pushed[i] = st[i] /\ pushed[i + 1] = st[i + 1]
                BY <4>1, <1>1
            <4> QED
                BY <2>1, <4>1, <4>2, <1>1 DEF GoodStack, Chain
        <3> QED
            BY <3>1, <3>2
    <2>2. (h + 1) - 1 = h
        BY <1>1
    <2> QED
        BY <2>1, <2>2, <1>1 DEF Chain
<1>6. Holes(pushed)
    <2>1. ASSUME NEW i \in 1 .. h + 1, NEW j \in 1 .. h + 1, i < j,
                 Ser[pushed[i].type] = "array", Ser[pushed[j].type] = "array"
          PROVE  pushed[i].slot < pushed[j].slot
        <3>1. i \in 1 .. h /\ pushed[i] = st[i]
            BY <2>1, <1>1
        <3>2. CASE j = h + 1
            <4>1. GoodEntry(st[i], holes)
                BY <3>1, <1>1 DEF GoodStack
            <4> QED
                BY <2>1, <3>1, <3>2, <4>1, <1>1 DEF GoodEntry, EntryInBounds
        <3>3. CASE j \in 1 .. h
            <4>1. pushed[j] = st[j]
                BY <3>3, <1>1
            <4> QED
                BY <2>1, <3>1, <3>3, <4>1, <1>1 DEF GoodStack, Holes
        <3> QED
            BY <3>2, <3>3, <1>2
    <2> QED
        BY <2>1, <1>1 DEF Holes
<1> QED
    BY <1>1, <1>4, <1>5, <1>6 DEF GoodStack, pushed

\* The top entry may move on within its type.
LEMMA GoodReplace ==
    ASSUME NEW st \in Seq(Entry), st # <<>>, NEW holes \in Nat, GoodStack(st, holes),
           NEW e \in Entry, GoodEntry(e, holes),
           e.type = Last(st).type, e.allow = Last(st).allow, e.slot = Last(st).slot
    PROVE  GoodStack(WithEntry(st, e), holes)
<1> DEFINE new == WithEntry(st, e)
<1>1. PICK h \in Nat :
        /\ Len(st) = h
        /\ new \in Seq(Entry)
        /\ Len(new) = h
        /\ \A i \in 1 .. h : new[i] = IF i = h THEN e ELSE st[i]
    BY ReplaceEntry, TopEntry
<1>2. Last(st) = st[h]
    BY <1>1, TopEntry
<1> HIDE DEF new
<1>3. \A i \in 1 .. h : GoodEntry(new[i], holes)
    BY <1>1 DEF GoodStack
<1>4. \A i \in 1 .. h :
          new[i].type = st[i].type /\ new[i].allow = st[i].allow /\ new[i].slot = st[i].slot
    BY <1>1, <1>2
<1>5. Chain(new)
    <2>1. ASSUME NEW i \in 1 .. h - 1, new[i + 1].allow
          PROVE  Closing(new[i])
        <3>1. i \in 1 .. h /\ i + 1 \in 1 .. h /\ i # h
            BY <1>1
        <3> QED
            BY <2>1, <3>1, <1>1, <1>4 DEF GoodStack, Chain
    <2> QED
        BY <2>1, <1>1 DEF Chain
<1>6. Holes(new)
    BY <1>1, <1>4 DEF GoodStack, Holes
<1> QED
    BY <1>1, <1>3, <1>5, <1>6 DEF GoodStack, new

-----------------------------------------------------------------------------
(* The ABI.                                                                *)

\* A subscript within the fields of a struct, or the alternatives of a
\* variant, yields a type of the ABI.
LEMMA FieldFacts ==
    ASSUME NEW t \in Type
    PROVE  /\ Fields[t] \in Seq(Field)
           /\ Len(Fields[t]) \in Nat
           /\ \A i \in 1 .. Len(Fields[t]) : Fields[t][i].type \in Type
<1>1. Fields[t] \in Seq(Field)
    BY AbiAssumption
<1>2. \A i \in 1 .. Len(Fields[t]) : Fields[t][i] \in Field
    BY <1>1, ElementOfSeq
<1> QED
    BY <1>1, <1>2, LenProperties DEF Field

\* A call of a type of the ABI is a call.
LEMMA CallFacts ==
    ASSUME NEW t \in Type, NEW a \in BOOLEAN
    PROVE  /\ [type |-> t, allow |-> a] \in Call
           /\ [type |-> t, allow |-> a] # NoCall
BY AbiAssumption DEF Call, NoCall

\* The serializer held in call is one of the ABI's.
LEMMA PendingCall ==
    ASSUME TypeOK, call # NoCall
    PROVE  /\ call.type \in Type /\ call.allow \in BOOLEAN
BY DEF TypeOK, Call

\* Every primitive is read from a scalar.
LEMMA TokenForFacts == \A prim \in DOMAIN TokenFor : TokenFor[prim] \in Scalars
BY DEF TokenFor, Scalars

-----------------------------------------------------------------------------
(* Steps.                                                                  *)

\* A check that throws leaves everything as it was.
LEMMA FailInv ==
    ASSUME IInv, NEW error \in Errors \ {"expected_end"}, Fail(error)
    PROVE  IInv'
<1> USE DEF IInv, Fail, conversion
<1>1. TypeOK'
    BY DEF TypeOK, Status
<1>2. StackBounded' /\ ConsumesOneValue'
    BY DEF StackBounded, ConsumesOneValue
<1>3. GoodStack(stack, Len(insertions))' /\ MergeInBounds'
    BY DEF MergeInBounds
<1>4. IdleInv' /\ RunInv'
    BY DEF IdleInv, RunInv, Errors
<1> QED
    BY <1>1, <1>2, <1>3, <1>4

\* The holes and what is known of them.
LEMMA InsertionFacts ==
    ASSUME NEW ins \in Seq(Insertion)
    PROVE  /\ DOMAIN ins = 1 .. Len(ins)
           /\ Len(ins) \in Nat
           /\ \A i \in 1 .. Len(ins) : ins[i].position \in Nat /\ ins[i].size \in Nat
<1>1. DOMAIN ins = 1 .. Len(ins) /\ Len(ins) \in Nat
    BY LenProperties
<1>2. \A i \in 1 .. Len(ins) : ins[i] \in Insertion
    BY ElementOfSeq
<1> QED
    BY <1>1, <1>2 DEF Insertion

\* What a step of the running conversion has to establish if it makes no hole.
LEMMA RunStep ==
    ASSUME IInv, status = "run",
           input' \in Stream, stack' \in Seq(Entry), skipped' \in BOOLEAN,
           call' \in Call \cup {NoCall},
           out' \in Seq(Byte), Len(out) <= Len(out'),
           UNCHANGED insertions, Keeps,
           Len(stack') <= MaxStack + 1,
           GoodStack(stack', Len(insertions)),
           RunInv'
    PROVE  IInv'
<1>1. TypeOK'
    BY DEF IInv, TypeOK, Keeps
<1>2. StackBounded' /\ ConsumesOneValue' /\ IdleInv'
    BY DEF StackBounded, ConsumesOneValue, IdleInv, Keeps
<1>3. GoodStack(stack', Len(insertions'))
    OBVIOUS
<1>4. MergeInBounds'
    <2>1. /\ insertions \in Seq(Insertion)
          /\ out \in Seq(Byte)
          /\ \A i \in DOMAIN insertions : insertions[i].position <= Len(out)
          /\ \A i, j \in DOMAIN insertions :
               i <= j => insertions[i].position <= insertions[j].position
        BY DEF IInv, TypeOK, MergeInBounds
    <2>2. \A i \in DOMAIN insertions : insertions[i].position \in Nat
        BY <2>1, InsertionFacts
    <2>3. Len(out) \in Nat /\ Len(out') \in Nat
        BY <2>1, LenProperties
    <2>4. \A i \in DOMAIN insertions : insertions[i].position <= Len(out')
        BY <2>1, <2>2, <2>3
    <2> QED
        BY <2>1, <2>4 DEF MergeInBounds
<1> QED
    BY <1>1, <1>2, <1>3, <1>4 DEF IInv

\* Bytes are appended and never taken back.
LEMMA OutGrows ==
    ASSUME NEW o \in Seq(Byte), NEW more \in Seq(Byte)
    PROVE  o \o more \in Seq(Byte) /\ Len(o) <= Len(o \o more)
BY ConcatProperties, LenProperties

\* The same for one byte.
LEMMA OutAppend ==
    ASSUME NEW o \in Seq(Byte), NEW b \in Byte
    PROVE  Append(o, b) \in Seq(Byte) /\ Len(o) <= Len(Append(o, b))
BY AppendProperties, LenProperties

\* The same for none.
LEMMA OutSame ==
    ASSUME NEW o \in Seq(Byte)
    PROVE  Len(o) <= Len(o)
BY LenProperties

\* What IInv says of a conversion under way.
LEMMA Running ==
    ASSUME IInv, status = "run"
    PROVE  /\ TypeOK
           /\ input \in Stream /\ stack \in Seq(Entry) /\ out \in Seq(Byte)
           /\ insertions \in Seq(Insertion) /\ Len(insertions) \in Nat
           /\ skipped \in BOOLEAN /\ call \in Call \cup {NoCall}
           /\ GoodStack(stack, Len(insertions))
           /\ Len(stack) \in Nat /\ Len(stack) <= MaxStack + 1
           /\ HasField(input, stack)
           /\ Pending =>
                /\ Shape(input, stack, TRUE)
                /\ Len(stack) <= MaxStack
                /\ ~skipped
                /\ call.allow /\ stack # <<>> => Closing(Top)
           /\ ~Pending =>
                /\ Shape(input, stack, FALSE)
                /\ skipped => OnlyEnds(input, stack)
BY LenProperties DEF IInv, TypeOK, RunInv, StackBounded

\* The start of a value that needs no entry: the token is a scalar, one byte
\* may be written and nothing is left to call.
LEMMA ScalarStep ==
    ASSUME IInv, status = "run", Pending, Peek(input).kind \in Scalars,
           input' = Eat(input), call' = NoCall,
           NEW b \in Byte, out' = Append(out, b),
           UNCHANGED <<stack, insertions, skipped>>, Keeps
    PROVE  IInv'
<1>1. /\ Eat(input) \in Stream
      /\ Shape(Eat(input), stack, FALSE)
      /\ Last(Eat(input).open) # "value"
    BY Running, ShapeScalar
<1>2. RunInv'
    BY <1>1, Running DEF RunInv, HasField, Pending
<1>3. out' \in Seq(Byte) /\ Len(out) <= Len(out')
    BY Running, OutAppend
<1> QED
    BY <1>1, <1>2, <1>3, Running, RunStep

\* The start of a wrapper: the wrapped type is called in its place.
LEMMA WrapperStep ==
    ASSUME IInv, status = "run", Pending,
           call' = [type |-> Of[call.type], allow |-> call.allow],
           out' \in Seq(Byte), Len(out) <= Len(out'),
           UNCHANGED <<input, stack, insertions, skipped>>, Keeps
    PROVE  IInv'
<1>1. call.type \in Type /\ call.allow \in BOOLEAN
    BY Running, PendingCall DEF Pending
<1>2. Of[call.type] \in Type
    BY <1>1, AbiAssumption
<1>3. call' \in Call /\ call' # NoCall /\ call'.allow = call.allow
    BY <1>1, <1>2, CallFacts
<1>4. RunInv'
    BY <1>3, Running DEF RunInv, Pending, Top
<1> QED
    BY <1>3, <1>4, Running, RunStep

-----------------------------------------------------------------------------
(* pseudo_object.                                                          *)

\* An entry moves to a position, and its type, flag and hole stay.
LEMMA MoveFacts ==
    ASSUME NEW e \in Entry, NEW n \in Nat
    PROVE  /\ [e EXCEPT !.position = n] \in Entry
           /\ [e EXCEPT !.position = n].type = e.type
           /\ [e EXCEPT !.position = n].allow = e.allow
           /\ [e EXCEPT !.position = n].slot = e.slot
           /\ [e EXCEPT !.position = n].alternative = e.alternative
           /\ [e EXCEPT !.position = n].position = n
BY DEF Entry

\* The end of a struct: the entry is popped, and if an extension was left out
\* the entries below are all in their last part.
LEMMA EndObjectInv ==
    ASSUME IInv, status = "run",
           NEW in \in Stream, NEW st \in Seq(Entry), st # <<>>,
           GoodStack(st, Len(insertions)), Len(st) <= MaxStack + 1,
           Shape(in, st, FALSE), skipped => OnlyEnds(in, st),
           Peek(in).kind = "end_object", EndObject(in, st)
    PROVE  IInv'
<1> DEFINE entry == Last(st)
           fields == Fields[entry.type]
           complete == entry.position + 1 = Len(fields)
           mayEnd == ~complete => IsExtension(fields[entry.position + 2].type) /\ entry.allow
<1>1. CASE ~mayEnd
    <2>1. Fail("expected_field")
        BY <1>1 DEF EndObject
    <2> QED
        BY <2>1, FailInv DEF Errors
<1>2. CASE mayEnd
    <2>1. /\ skipped' = (skipped \/ ~complete)
          /\ stack' = Front(st) /\ input' = Eat(in) /\ call' = NoCall
          /\ UNCHANGED <<out, insertions>> /\ Keeps
        BY <1>2 DEF EndObject
    <2>2. skipped' => entry.allow
        BY <1>2, <2>1 DEF OnlyEnds, Closing
    <2>3. skipped' \in BOOLEAN
        BY <2>1
    <2> HIDE DEF complete, mayEnd, entry
    <2>4. PICK h \in Nat :
            /\ Len(st) = h + 1
            /\ Front(st) \in Seq(Entry)
            /\ Len(Front(st)) = h
        BY PopEntry
    <2>5. /\ Eat(in) \in Stream
          /\ Shape(Eat(in), Front(st), FALSE)
          /\ Front(st) # <<>> => Last(Eat(in).open) # "value"
        BY ShapeClose
    <2>6. /\ GoodStack(Front(st), Len(insertions))
          /\ Last(st).allow /\ Front(st) # <<>> => Closing(Last(Front(st)))
        BY Running, GoodPop
    <2>7. skipped' => OnlyEnds(input', stack')
        BY <2>1, <2>2, <2>5, <2>6 DEF OnlyEnds, entry
    <2>8. RunInv'
        BY <2>1, <2>5, <2>7 DEF RunInv, HasField, Pending
    <2>9. Len(stack') <= MaxStack + 1
        BY <2>1, <2>4, MaxStackAssumption
    <2> QED
        BY <2>1, <2>3, <2>4, <2>5, <2>6, <2>8, <2>9, Running, OutSame, RunStep
<1> QED
    BY <1>1, <1>2

\* A key moves the struct to its next field, unless it is refused.
LEMMA MemberKeyInv ==
    ASSUME IInv, status = "run",
           NEW in \in Stream, NEW st \in Seq(Entry), st # <<>>,
           GoodStack(st, Len(insertions)), Len(st) <= MaxStack + 1,
           Shape(in, st, FALSE), Peek(in).kind = "key", MemberKey(in, st)
    PROVE  IInv'
<1> DEFINE entry == Last(st)
           fields == Fields[entry.type]
           next == entry.position + 1
           moved == [entry EXCEPT !.position = next]
<1>1. CASE Fail("unexpected_field") \/ Fail("expected_field")
    BY <1>1, FailInv DEF Errors
<1>2. CASE ~(Fail("unexpected_field") \/ Fail("expected_field"))
    <2>1. /\ next < Len(fields) /\ ~skipped
          /\ stack' = WithEntry(st, moved)
          /\ input' = Eat(in) /\ call' = NoCall
          /\ UNCHANGED <<out, insertions, skipped>> /\ Keeps
        BY <1>2 DEF MemberKey
    <2>2. /\ entry \in Entry /\ GoodEntry(entry, Len(insertions))
        BY Running, GoodTop
    <2>3. /\ entry.type \in Type /\ entry.position \in Nat \cup {-1}
          /\ next \in Nat
        BY <2>2 DEF Entry
    <2>4. Len(fields) \in Nat
        BY <2>3, FieldFacts
    <2>5. /\ moved \in Entry
          /\ moved.type = entry.type /\ moved.allow = entry.allow /\ moved.slot = entry.slot
          /\ moved.position = next
        BY <2>2, <2>3, MoveFacts
    <2>6. /\ Ser[entry.type] = "object"
          /\ Eat(in) \in Stream
          /\ Shape(Eat(in), st, FALSE)
        BY ShapeKey
    <2> HIDE DEF moved
    <2>7. GoodEntry(moved, Len(insertions))
        <3>1. next \in -1 .. Len(fields) - 1
            BY <2>1, <2>3, <2>4
        <3> QED
            BY <3>1, <2>5, <2>6 DEF GoodEntry, EntryInBounds, Containers
    <2> HIDE DEF entry, fields, next
    <2>8. GoodStack(WithEntry(st, moved), Len(insertions))
        BY <2>5, <2>7, Running, GoodReplace DEF entry
    <2>9. /\ WithEntry(st, moved) \in Seq(Entry)
          /\ WithEntry(st, moved) # <<>>
          /\ Len(WithEntry(st, moved)) = Len(st)
          /\ Last(WithEntry(st, moved)) = moved
        BY <2>5, ReplaceEntry, ReplacedTop
    <2>10. Shape(Eat(in), WithEntry(st, moved), FALSE)
        BY <2>5, <2>6, ShapeReplace DEF entry
    <2>11. HasField(input', stack')
        BY <2>1, <2>3, <2>5, <2>9 DEF HasField
    <2>12. RunInv'
        BY <2>1, <2>9, <2>10, <2>11 DEF RunInv, Pending
    <2> QED
        BY <2>1, <2>6, <2>8, <2>9, <2>12, Running, OutSame, RunStep
<1> QED
    BY <1>1, <1>2

\* A value is called for at the field the last key named.
LEMMA MemberValueInv ==
    ASSUME IInv, status = "run",
           NEW in \in Stream, NEW st \in Seq(Entry), st # <<>>, Ser[Last(st).type] = "object",
           GoodStack(st, Len(insertions)),
           Shape(in, st, FALSE), HasField(in, st), skipped => OnlyEnds(in, st),
           Last(in.open) = "value" => Len(st) <= MaxStack,
           Peek(in).kind \notin {"error", "end_object", "key"}, MemberValue(in, st)
    PROVE  IInv'
<1> DEFINE entry == Last(st)
           fields == Fields[entry.type]
           at == entry.position + 1
           called == [type |-> fields[at].type, allow |-> entry.allow /\ IsLast(at, fields)]
<1>1. /\ call' = called
      /\ input' = in /\ stack' = st
      /\ UNCHANGED <<out, insertions, skipped>> /\ Keeps
    BY DEF MemberValue
<1>2. Expects(Last(in.open), Peek(in).kind) /\ Last(in.open) \in {"key", "value"}
    BY PeekFacts, TopContext
<1>3. Last(in.open) = "value"
    BY <1>2 DEF Expects
<1>4. /\ ~skipped /\ entry.position >= 0 /\ Len(st) <= MaxStack
    BY <1>3 DEF OnlyEnds, HasField
<1>5. entry \in Entry /\ GoodEntry(entry, Len(insertions))
    BY Running, GoodTop
<1>6. entry.type \in Type /\ entry.allow \in BOOLEAN /\ entry.position \in Nat
    BY <1>4, <1>5 DEF Entry
<1>7. /\ Len(fields) \in Nat
      /\ \A i \in 1 .. Len(fields) : fields[i].type \in Type
    BY <1>6, FieldFacts
<1>8. at \in 1 .. Len(fields)
    BY <1>5, <1>6, <1>7 DEF GoodEntry, EntryInBounds
<1>9. called.allow => Closing(entry)
    BY <1>6 DEF IsLast, Closing
<1>10. called \in Call /\ called # NoCall
    BY <1>6, <1>7, <1>8, CallFacts
<1> HIDE DEF entry, fields, at, called
<1>11. Shape(in, st, TRUE)
    BY <1>3, ShapeCall
<1>12. RunInv'
    BY <1>1, <1>4, <1>9, <1>10, <1>11 DEF RunInv, Pending, Top, entry
<1>13. Len(st) <= MaxStack + 1
    BY <1>4, MaxStackAssumption, LenProperties
<1> QED
    BY <1>1, <1>10, <1>12, <1>13, Running, OutSame, RunStep

\* The part of pseudo_object that a start falls through to.
LEMMA MembersInv ==
    ASSUME IInv, status = "run",
           NEW in \in Stream, NEW st \in Seq(Entry), st # <<>>, Ser[Last(st).type] = "object",
           GoodStack(st, Len(insertions)), Len(st) <= MaxStack + 1,
           Shape(in, st, FALSE), HasField(in, st), skipped => OnlyEnds(in, st),
           Last(in.open) = "value" => Len(st) <= MaxStack,
           Members(in, st)
    PROVE  IInv'
<1>1. CASE Fail("syntax")
    BY <1>1, FailInv DEF Errors
<1>2. CASE Peek(in).kind = "end_object" /\ EndObject(in, st)
    BY <1>2, EndObjectInv
<1>3. CASE Peek(in).kind = "key" /\ MemberKey(in, st)
    BY <1>3, MemberKeyInv
<1>4. CASE Peek(in).kind \notin {"error", "end_object", "key"} /\ MemberValue(in, st)
    BY <1>4, MemberValueInv
<1> QED
    BY <1>1, <1>2, <1>3, <1>4 DEF Members

\* A new entry of a container, pushed by its start.
LEMMA NewEntryFacts ==
    ASSUME IInv, status = "run", Pending
    PROVE  /\ NewEntry \in Entry
           /\ NewEntry.type = call.type /\ NewEntry.allow = call.allow
           /\ NewEntry.position = -1
           /\ Ser[call.type] \in {"object", "variant"} =>
                GoodEntry(NewEntry, Len(insertions))
<1>1. call.type \in Type /\ call.allow \in BOOLEAN
    BY Running, PendingCall DEF Pending
<1>2. Len(Fields[call.type]) \in Nat
    BY <1>1, FieldFacts
<1>3. -1 \in -1 .. Len(Fields[call.type]) - 1
    BY <1>2
<1> QED
    BY <1>1, <1>3 DEF NewEntry, Entry, GoodEntry, EntryInBounds, Containers

\* The start of a struct pushes its entry and falls through.
LEMMA StartObjectInv ==
    ASSUME IInv, StartObject
    PROVE  IInv'
<1>1. status = "run" /\ Pending /\ Ser[call.type] = "object"
    BY DEF StartObject, Start, Pending
<1>2. CASE Fail("syntax") \/ Fail("expected_start_object")
    BY <1>2, FailInv DEF Errors
<1>3. CASE Peek(input).kind = "start_object" /\ Members(Eat(input), Append(stack, NewEntry))
    <2> DEFINE st == Push(stack, NewEntry)
    <2>1. /\ NewEntry \in Entry
          /\ NewEntry.type = call.type /\ NewEntry.allow = call.allow
          /\ GoodEntry(NewEntry, Len(insertions))
        BY <1>1, NewEntryFacts
    <2>2. /\ st \in Seq(Entry) /\ st # <<>>
          /\ Len(st) = Len(stack) + 1
          /\ Last(st) = NewEntry
        BY <2>1, Running, <1>1, PushEntry, PushedTop
    <2>3. GoodStack(st, Len(insertions))
        BY <1>1, <2>1, Running, GoodPush DEF Top
    <2>4. /\ Eat(input) \in Stream
          /\ Shape(Eat(input), st, FALSE)
          /\ Last(Eat(input).open) # "value"
        BY <1>1, <1>3, <2>1, Running, ShapeOpen
    <2>5. Members(Eat(input), st)
        BY <1>3 DEF Push
    <2> HIDE DEF st
    <2>6. ~skipped /\ Len(st) <= MaxStack + 1
        BY <1>1, <2>2, Running, MaxStackAssumption
    <2>7. HasField(Eat(input), st)
        BY <2>4 DEF HasField
    <2> QED
        BY <1>1, <2>1, <2>2, <2>3, <2>4, <2>5, <2>6, <2>7, MembersInv
<1> QED
    BY <1>2, <1>3 DEF StartObject

\* The part a resume of a struct executes.
LEMMA ResumeObjectInv ==
    ASSUME IInv, ResumeObject
    PROVE  IInv'
<1>1. /\ status = "run" /\ ~Pending /\ stack # <<>> /\ Len(stack) <= MaxStack
      /\ Ser[Last(stack).type] = "object"
      /\ Members(input, stack)
    BY DEF ResumeObject, Resume, Pending, Top
<1> QED
    BY <1>1, Running, MembersInv

-----------------------------------------------------------------------------
(* Serializers without an entry of their own.                              *)

\* A primitive is read and written, or refused.
LEMMA StartPrimitiveInv ==
    ASSUME IInv, NEW prim \in DOMAIN TokenFor, StartPrimitive(prim)
    PROVE  IInv'
<1>1. status = "run" /\ Pending
    BY DEF StartPrimitive, Start, Pending
<1>2. CASE Fail("syntax") \/ Fail("expected_value")
    BY <1>2, FailInv DEF Errors
<1>3. CASE ~(Fail("syntax") \/ Fail("expected_value"))
    <2>1. /\ Peek(input).kind = TokenFor[prim]
          /\ out' = Append(out, PrimByte(prim, Peek(input).text))
          /\ input' = Eat(input) /\ call' = NoCall
          /\ UNCHANGED <<stack, insertions, skipped>> /\ Keeps
        BY <1>3 DEF StartPrimitive
    <2>2. Peek(input).kind \in Scalars
        BY <2>1, TokenForFacts
    <2>3. Peek(input).text \in Text
        BY <1>1, <2>2, Running, PeekText DEF Scalars
    <2>4. PrimByte(prim, Peek(input).text) \in Byte
        BY <2>3, PrimByteType
    <2> QED
        BY <1>1, <2>1, <2>2, <2>4, ScalarStep
<1> QED
    BY <1>2, <1>3

\* An optional writes a flag and starts the type it wraps, if there is a value.
LEMMA StartOptionalInv ==
    ASSUME IInv, StartOptional
    PROVE  IInv'
<1>1. status = "run" /\ Pending
    BY DEF StartOptional, Start, Pending
<1>2. 0 \in Byte /\ 1 \in Byte
    BY DEF Byte
<1>3. CASE Fail("syntax")
    BY <1>3, FailInv DEF Errors
<1>4. CASE /\ Peek(input).kind = "null"
           /\ out' = Append(out, 0)
           /\ input' = Eat(input) /\ call' = NoCall
           /\ UNCHANGED <<stack, insertions, skipped>> /\ Keeps
    <2>1. Peek(input).kind \in Scalars
        BY <1>4 DEF Scalars
    <2> QED
        BY <1>1, <1>2, <1>4, <2>1, ScalarStep
<1>5. CASE /\ out' = Append(out, 1)
           /\ call' = [type |-> Of[call.type], allow |-> call.allow]
           /\ UNCHANGED <<input, stack, insertions, skipped>> /\ Keeps
    <2>1. out' \in Seq(Byte) /\ Len(out) <= Len(out')
        BY <1>1, <1>2, <1>5, Running, OutAppend
    <2> QED
        BY <1>1, <1>5, <2>1, WrapperStep
<1> QED
    BY <1>3, <1>4, <1>5 DEF StartOptional

\* A binary extension starts the type it wraps.
LEMMA StartExtensionInv ==
    ASSUME IInv, StartExtension
    PROVE  IInv'
<1>1. status = "run" /\ Pending
    BY DEF StartExtension, Start, Pending
<1>2. /\ call' = [type |-> Of[call.type], allow |-> call.allow]
      /\ UNCHANGED <<input, stack, out, insertions, skipped>> /\ Keeps
    BY DEF StartExtension
<1>3. out' \in Seq(Byte) /\ Len(out) <= Len(out')
    BY <1>1, <1>2, Running, OutSame
<1> QED
    BY <1>1, <1>2, <1>3, WrapperStep

-----------------------------------------------------------------------------
(* pseudo_array.                                                           *)

\* A new hole lies at the end of out and after the holes there are.
LEMMA NewHole ==
    ASSUME NEW ins \in Seq(Insertion), NEW o \in Seq(Byte),
           \A i \in DOMAIN ins : ins[i].position <= Len(o),
           \A i, j \in DOMAIN ins : i <= j => ins[i].position <= ins[j].position,
           NEW hole \in Insertion, hole.position = Len(o)
    PROVE  /\ Push(ins, hole) \in Seq(Insertion)
           /\ Len(Push(ins, hole)) = Len(ins) + 1
           /\ \A i \in DOMAIN Push(ins, hole) : Push(ins, hole)[i].position <= Len(o)
           /\ \A i, j \in DOMAIN Push(ins, hole) :
                i <= j => Push(ins, hole)[i].position <= Push(ins, hole)[j].position
<1> DEFINE new == Push(ins, hole)
<1>1. PICK h \in Nat :
        /\ Len(ins) = h
        /\ new \in Seq(Insertion)
        /\ Len(new) = h + 1
        /\ new[h + 1] = hole
        /\ \A i \in 1 .. h : new[i] = ins[i]
    BY PushFacts
<1>2. DOMAIN new = 1 .. h + 1 /\ DOMAIN ins = 1 .. h
    BY <1>1, InsertionFacts
<1> HIDE DEF new
<1>3. ASSUME NEW i \in 1 .. h + 1
      PROVE  new[i].position <= Len(o) /\ (i # h + 1 => i \in 1 .. h)
    <2>1. Len(o) \in Nat
        BY LenProperties
    <2> QED
        BY <2>1, <1>1, <1>2
<1>4. ASSUME NEW i \in 1 .. h + 1, NEW j \in 1 .. h + 1, i <= j
      PROVE  new[i].position <= new[j].position
    <2>1. CASE j = h + 1
        BY <2>1, <1>1, <1>3
    <2>2. CASE j # h + 1
        <3>1. i \in 1 .. h /\ j \in 1 .. h
            BY <2>2, <1>1, <1>4
        <3> QED
            BY <3>1, <1>1, <1>2, <1>4
    <2> QED
        BY <2>1, <2>2
<1> QED
    BY <1>1, <1>2, <1>3, <1>4 DEF new

\* The start of an array pushes its entry and takes a hole for its size.
LEMMA StartArrayInv ==
    ASSUME IInv, StartArray
    PROVE  IInv'
<1>1. status = "run" /\ Pending /\ Ser[call.type] = "array"
    BY DEF StartArray, Start, Pending
<1>2. CASE Fail("syntax") \/ Fail("expected_start_array")
    BY <1>2, FailInv DEF Errors
<1>3. CASE ~(Fail("syntax") \/ Fail("expected_start_array"))
    <2> DEFINE e == [NewEntry EXCEPT !.allow = FALSE, !.slot = NewSlot]
    <2>1. /\ Peek(input).kind = "start_array"
          /\ input' = Eat(input)
          /\ stack' = Push(stack, e)
          /\ insertions' = Push(insertions, Hole)
          /\ call' = NoCall
          /\ UNCHANGED <<out, skipped>> /\ Keeps
        BY <1>3 DEF StartArray, Push
    <2>2. PICK holes \in Nat : holes = Len(insertions)
        BY <1>1, Running
    <2>3. /\ e \in Entry /\ e.type = call.type /\ e.allow = FALSE /\ e.slot = holes + 1
        <3>1. NewEntry \in Entry /\ NewEntry.type = call.type
            BY <1>1, NewEntryFacts
        <3>2. NewSlot = holes + 1 /\ NewSlot \in Nat
            BY <2>2 DEF NewSlot
        <3> QED
            BY <3>1, <3>2, Zenon DEF Entry
    <2>4. Hole \in Insertion /\ Hole.position = Len(out)
        BY <1>1, Running, LenProperties DEF Insertion, Hole
    <2> HIDE DEF e
    <2>5. holes + 1 \in 1 .. holes + 1
        OBVIOUS
    <2>6. GoodEntry(e, holes + 1)
        BY <1>1, <2>3, <2>5 DEF GoodEntry, EntryInBounds, Containers
    <2>7. GoodStack(Push(stack, e), holes + 1)
        BY <1>1, <2>2, <2>3, <2>6, Running, GoodPush
    <2>8. /\ Eat(input) \in Stream
          /\ Shape(Eat(input), Push(stack, e), FALSE)
          /\ Last(Eat(input).open) # "value"
        BY <1>1, <2>1, <2>3, Running, ShapeOpen
    <2>9. /\ insertions' \in Seq(Insertion)
          /\ Len(insertions') = holes + 1
          /\ MergeInBounds'
        <3>1. /\ \A i \in DOMAIN insertions : insertions[i].position <= Len(out)
              /\ \A i, j \in DOMAIN insertions :
                   i <= j => insertions[i].position <= insertions[j].position
            BY DEF IInv, MergeInBounds
        <3> QED
            BY <1>1, <2>1, <2>2, <2>4, <3>1, Running, NewHole DEF MergeInBounds
    <2>10. stack' \in Seq(Entry) /\ Len(stack') <= MaxStack + 1
        BY <1>1, <2>1, <2>3, Running, PushEntry, MaxStackAssumption
    <2>11. RunInv'
        BY <1>1, <2>1, <2>8, Running DEF RunInv, HasField, Pending
    <2>12. TypeOK'
        <3>1. merged' \in 0 .. Len(insertions')
            BY <2>1, <2>2, <2>9 DEF IInv, TypeOK, Keeps
        <3> QED
            BY <1>1, <2>1, <2>8, <2>9, <2>10, <3>1, Running DEF TypeOK, Keeps
    <2>13. StackBounded' /\ ConsumesOneValue' /\ IdleInv'
        BY <1>1, <2>1, <2>10 DEF StackBounded, ConsumesOneValue, IdleInv, Keeps
    <2>14. GoodStack(stack', Len(insertions'))
        BY <2>1, <2>7, <2>9
    <2> QED
        BY <2>9, <2>11, <2>12, <2>13, <2>14 DEF IInv
<1> QED
    BY <1>2, <1>3

\* Writing the size of an array into its hole leaves every position alone.
Sized(ins, k, n) == [ins EXCEPT ![k].size = n]

\* It keeps their number and their positions.
LEMMA SizeFacts ==
    ASSUME NEW ins \in Seq(Insertion), NEW k \in 1 .. Len(ins), NEW n \in Nat
    PROVE  /\ Sized(ins, k, n) \in Seq(Insertion)
           /\ Len(Sized(ins, k, n)) = Len(ins)
           /\ \A i \in 1 .. Len(ins) : Sized(ins, k, n)[i].position = ins[i].position
<1> DEFINE hole == [ins[k] EXCEPT !.size = n]
           new == [ins EXCEPT ![k] = hole]
<1>1. ins[k] \in Insertion
    BY ElementOfSeq
<1>2. hole \in Insertion /\ hole.position = ins[k].position
    BY <1>1, Zenon DEF Insertion
<1>3. Sized(ins, k, n) = new
    BY Zenon DEF Sized
<1> HIDE DEF hole
<1>4. /\ new \in Seq(Insertion)
      /\ Len(new) = Len(ins)
      /\ \A i \in 1 .. Len(ins) : new[i] = IF i = k THEN hole ELSE ins[i]
    BY <1>2, ExceptSeq
<1> HIDE DEF new
<1>5. \A i \in 1 .. Len(ins) : new[i].position = ins[i].position
    BY <1>2, <1>4
<1> QED
    BY <1>3, <1>4, <1>5

\* The end of an array: its size goes into its hole and the entry is popped.
LEMMA EndArrayInv ==
    ASSUME IInv, status = "run", ~Pending, stack # <<>>, Ser[Top.type] = "array",
           Peek(input).kind = "end_array", input' = Eat(input),
           insertions' = Sized(insertions, Top.slot, Top.position + 1),
           stack' = Front(stack), UNCHANGED <<out, skipped, call>>, Keeps
    PROVE  IInv'
<1>1. PICK holes \in Nat : holes = Len(insertions)
    BY Running
<1>2. Top \in Entry /\ GoodEntry(Top, holes)
    BY <1>1, Running, GoodTop DEF Top
<1>3. Top.slot \in 1 .. holes /\ Top.position + 1 \in Nat
    BY <1>2 DEF Entry, GoodEntry, EntryInBounds
<1>4. /\ insertions' \in Seq(Insertion)
      /\ Len(insertions') = holes
      /\ \A i \in 1 .. holes : insertions'[i].position = insertions[i].position
    BY <1>1, <1>3, Running, SizeFacts
<1>5. MergeInBounds'
    <2>1. DOMAIN insertions = 1 .. holes /\ DOMAIN insertions' = 1 .. holes
        BY <1>1, <1>4, Running, InsertionFacts
    <2> QED
        BY <1>4, <2>1 DEF IInv, MergeInBounds
<1>6. PICK h \in Nat :
        /\ Len(stack) = h + 1
        /\ Front(stack) \in Seq(Entry)
        /\ Len(Front(stack)) = h
    BY Running, PopEntry
<1>7. /\ Eat(input) \in Stream
      /\ Shape(Eat(input), Front(stack), FALSE)
      /\ Front(stack) # <<>> => Last(Eat(input).open) # "value"
    BY Running, ShapeClose
<1>8. ~skipped
    BY Running DEF OnlyEnds, Closing, Top
<1>9. GoodStack(Front(stack), holes)
    BY <1>1, Running, GoodPop
<1>10. RunInv'
    BY <1>7, <1>8 DEF RunInv, HasField, Pending
<1>11. TypeOK'
    BY <1>1, <1>4, <1>6, <1>7 DEF IInv, TypeOK, Keeps
<1>12. StackBounded' /\ ConsumesOneValue' /\ IdleInv'
    <2>1. Len(stack') <= MaxStack + 1
        BY <1>6, Running, MaxStackAssumption
    <2> QED
        BY <2>1 DEF StackBounded, ConsumesOneValue, IdleInv, Keeps
<1>13. GoodStack(stack', Len(insertions'))
    BY <1>4, <1>9
<1> QED
    BY <1>5, <1>10, <1>11, <1>12, <1>13 DEF IInv

\* An element of an array: the entry counts it and its type is called, where no
\* extension may be left out.
LEMMA ElementInv ==
    ASSUME IInv, status = "run", ~Pending, stack # <<>>, Ser[Top.type] = "array",
           Len(stack) <= MaxStack,
           stack' = WithEntry(stack, [Top EXCEPT !.position = Top.position + 1]),
           call' = [type |-> Of[Top.type], allow |-> FALSE],
           UNCHANGED <<input, out, insertions, skipped>>, Keeps
    PROVE  IInv'
<1> DEFINE moved == [Top EXCEPT !.position = Top.position + 1]
<1>1. Top \in Entry /\ GoodEntry(Top, Len(insertions))
    BY Running, GoodTop DEF Top
<1>2. Top.type \in Type /\ Top.position + 1 \in Nat
    BY <1>1 DEF Entry
<1>3. /\ moved \in Entry
      /\ moved.type = Top.type /\ moved.allow = Top.allow /\ moved.slot = Top.slot
    BY <1>1, <1>2, MoveFacts
<1> HIDE DEF moved
<1>4. GoodEntry(moved, Len(insertions))
    BY <1>1, <1>3 DEF GoodEntry, EntryInBounds
<1>5. GoodStack(WithEntry(stack, moved), Len(insertions))
    BY <1>3, <1>4, Running, GoodReplace DEF Top
<1>6. /\ WithEntry(stack, moved) \in Seq(Entry)
      /\ WithEntry(stack, moved) # <<>>
      /\ Len(WithEntry(stack, moved)) = Len(stack)
      /\ Last(WithEntry(stack, moved)) = moved
    BY <1>3, Running, ReplaceEntry, ReplacedTop
<1>7. Shape(input, WithEntry(stack, moved), TRUE)
    BY <1>3, Running, ShapeReplace, ShapeCall DEF Top
<1>8. ~skipped
    BY Running DEF OnlyEnds, Closing, Top
<1>9. Of[Top.type] \in Type
    BY <1>2, AbiAssumption
<1>10. call' \in Call /\ call' # NoCall /\ call'.allow = FALSE
    BY <1>9, CallFacts
<1>11. HasField(input, WithEntry(stack, moved))
    BY <1>3, <1>6 DEF HasField
<1>12. stack' = WithEntry(stack, moved)
    BY DEF moved
<1>13. RunInv'
    BY <1>6, <1>7, <1>8, <1>10, <1>11, <1>12 DEF RunInv, Pending
<1> QED
    BY <1>5, <1>6, <1>10, <1>12, <1>13, Running, OutSame, RunStep

\* An array goes on with an element or ends.
LEMMA ResumeArrayInv ==
    ASSUME IInv, ResumeArray
    PROVE  IInv'
<1>1. /\ status = "run" /\ ~Pending /\ stack # <<>> /\ Len(stack) <= MaxStack
      /\ Ser[Top.type] = "array"
    BY DEF ResumeArray, Resume, Pending
<1>2. CASE Fail("syntax")
    BY <1>2, FailInv DEF Errors
<1>3. CASE /\ Peek(input).kind = "end_array"
           /\ input' = Eat(input)
           /\ insertions' = [insertions EXCEPT ![Top.slot].size = Top.position + 1]
           /\ stack' = Front(stack)
           /\ UNCHANGED <<out, skipped, call>> /\ Keeps
    BY <1>1, <1>3, EndArrayInv DEF Sized
<1>4. CASE /\ stack' = WithEntry(stack, [Top EXCEPT !.position = @ + 1])
           /\ call' = [type |-> Of[Top.type], allow |-> FALSE]
           /\ UNCHANGED <<input, out, insertions, skipped>> /\ Keeps
    BY <1>1, <1>4, ElementInv
<1> QED
    BY <1>2, <1>3, <1>4 DEF ResumeArray

-----------------------------------------------------------------------------
(* pseudo_variant.                                                         *)

\* The start of a variant pushes its entry.
LEMMA StartVariantInv ==
    ASSUME IInv, StartVariant
    PROVE  IInv'
<1>1. status = "run" /\ Pending /\ Ser[call.type] = "variant"
    BY DEF StartVariant, Start, Pending
<1>2. CASE Fail("syntax") \/ Fail("expected_start_array")
    BY <1>2, FailInv DEF Errors
<1>3. CASE ~(Fail("syntax") \/ Fail("expected_start_array"))
    <2> DEFINE st == Push(stack, NewEntry)
    <2>1. /\ Peek(input).kind = "start_array"
          /\ input' = Eat(input)
          /\ stack' = st
          /\ call' = NoCall
          /\ UNCHANGED <<out, insertions, skipped>> /\ Keeps
        BY <1>3 DEF StartVariant, Push
    <2>2. /\ NewEntry \in Entry
          /\ NewEntry.type = call.type /\ NewEntry.allow = call.allow
          /\ GoodEntry(NewEntry, Len(insertions))
        BY <1>1, NewEntryFacts
    <2>3. GoodStack(st, Len(insertions))
        BY <1>1, <2>2, Running, GoodPush DEF Top
    <2>4. /\ Eat(input) \in Stream
          /\ Shape(Eat(input), st, FALSE)
          /\ Last(Eat(input).open) # "value"
        BY <1>1, <2>1, <2>2, Running, ShapeOpen
    <2>5. st \in Seq(Entry) /\ Len(st) <= MaxStack + 1
        BY <1>1, <2>2, Running, PushEntry, MaxStackAssumption
    <2> HIDE DEF st
    <2>6. RunInv'
        BY <1>1, <2>1, <2>4, Running DEF RunInv, HasField, Pending
    <2> QED
        BY <1>1, <2>1, <2>3, <2>4, <2>5, <2>6, Running, OutSame, RunStep
<1> QED
    BY <1>2, <1>3

\* An entry takes the alternative its type name selected.
LEMMA SelectFacts ==
    ASSUME NEW e \in Entry, NEW i \in Nat
    PROVE  /\ [e EXCEPT !.position = 0, !.alternative = i] \in Entry
           /\ [e EXCEPT !.position = 0, !.alternative = i].type = e.type
           /\ [e EXCEPT !.position = 0, !.alternative = i].allow = e.allow
           /\ [e EXCEPT !.position = 0, !.alternative = i].slot = e.slot
           /\ [e EXCEPT !.position = 0, !.alternative = i].alternative = i
           /\ [e EXCEPT !.position = 0, !.alternative = i].position = 0
<1>1. 0 \in Nat
    OBVIOUS
<1> QED
    BY <1>1, Zenon DEF Entry

\* The type name of a variant selects an alternative there is, and its number
\* is written.
LEMMA VariantNameInv ==
    ASSUME IInv, status = "run", ~Pending, stack # <<>>, Len(stack) <= MaxStack,
           Ser[Top.type] = "variant", Top.position + 1 = 0,
           Peek(input).kind = "string", VariantName(Fields[Top.type])
    PROVE  IInv'
<1>1. CASE Fail("invalid_type_for_variant")
    BY <1>1, FailInv DEF Errors
<1>2. CASE ~Fail("invalid_type_for_variant")
    <2>1. PICK i \in DOMAIN Fields[Top.type] :
            /\ out' = out \o VarUint32(i - 1)
            /\ stack' = WithEntry(stack, [Top EXCEPT !.position = 0, !.alternative = i])
            /\ input' = Eat(input)
            /\ UNCHANGED <<insertions, skipped, call>> /\ Keeps
        BY <1>2 DEF VariantName
    <2> DEFINE moved == [Top EXCEPT !.position = 0, !.alternative = i]
    <2>2. Top \in Entry /\ GoodEntry(Top, Len(insertions))
        BY Running, GoodTop DEF Top
    <2>3. Top.type \in Type /\ Top.position \in Nat \cup {-1}
        BY <2>2 DEF Entry
    <2>4. i \in Nat \ {0}
        BY <2>3, FieldFacts, LenProperties
    <2>5. /\ moved \in Entry
          /\ moved.type = Top.type /\ moved.allow = Top.allow /\ moved.slot = Top.slot
          /\ moved.alternative = i /\ moved.position = 0
        BY <2>2, <2>4, SelectFacts
    <2>6. stack' = WithEntry(stack, moved)
        BY <2>1
    <2> HIDE DEF moved
    <2>7. GoodEntry(moved, Len(insertions))
        BY <2>5 DEF GoodEntry, EntryInBounds, Containers
    <2>8. GoodStack(WithEntry(stack, moved), Len(insertions))
        BY <2>5, <2>7, Running, GoodReplace DEF Top
    <2>9. /\ WithEntry(stack, moved) \in Seq(Entry)
          /\ WithEntry(stack, moved) # <<>>
          /\ Len(WithEntry(stack, moved)) = Len(stack)
        BY <2>5, Running, ReplaceEntry
    <2>10. /\ Eat(input) \in Stream
           /\ Shape(Eat(input), stack, FALSE)
           /\ Last(Eat(input).open) # "value"
        BY Running, ShapeScalar DEF Scalars
    <2>11. Shape(Eat(input), WithEntry(stack, moved), FALSE)
        BY <2>5, <2>10, Running, ShapeReplace DEF Top
    <2>12. ~skipped
        BY <2>3, Running DEF OnlyEnds, Closing, Top
    <2>13. RunInv'
        BY <2>1, <2>6, <2>10, <2>11, <2>12 DEF RunInv, HasField, Pending
    <2>14. out' \in Seq(Byte) /\ Len(out) <= Len(out')
        <3>1. i - 1 \in Nat
            BY <2>4
        <3> QED
            BY <2>1, <3>1, Running, VarUint32Type, OutGrows
    <2> QED
        BY <2>1, <2>6, <2>8, <2>9, <2>10, <2>13, <2>14, Running, RunStep
<1> QED
    BY <1>1, <1>2

\* The value of a variant is called for as the alternative selected.
LEMMA VariantValueInv ==
    ASSUME IInv, status = "run", ~Pending, stack # <<>>, Len(stack) <= MaxStack,
           Ser[Top.type] = "variant", Top.position + 1 = 1,
           stack' = WithEntry(stack, [Top EXCEPT !.position = 1]),
           call' = [type |-> Fields[Top.type][Top.alternative].type, allow |-> Top.allow],
           UNCHANGED <<input, out, insertions, skipped>>, Keeps
    PROVE  IInv'
<1> DEFINE moved == [Top EXCEPT !.position = 1]
<1>1. Top \in Entry /\ GoodEntry(Top, Len(insertions))
    BY Running, GoodTop DEF Top
<1>2. Top.type \in Type /\ Top.position = 0 /\ Top.allow \in BOOLEAN
    BY <1>1 DEF Entry
<1>3. Top.alternative \in 1 .. Len(Fields[Top.type])
    BY <1>1, <1>2, FieldFacts, LenProperties DEF GoodEntry, EntryInBounds
<1>4. /\ moved \in Entry
      /\ moved.type = Top.type /\ moved.allow = Top.allow /\ moved.slot = Top.slot
      /\ moved.alternative = Top.alternative /\ moved.position = 1
    BY <1>1, MoveFacts
<1>5. stack' = WithEntry(stack, moved)
    OBVIOUS
<1> HIDE DEF moved
<1>6. GoodEntry(moved, Len(insertions))
    BY <1>1, <1>2, <1>4 DEF GoodEntry, EntryInBounds
<1>7. GoodStack(WithEntry(stack, moved), Len(insertions))
    BY <1>4, <1>6, Running, GoodReplace DEF Top
<1>8. /\ WithEntry(stack, moved) \in Seq(Entry)
      /\ WithEntry(stack, moved) # <<>>
      /\ Len(WithEntry(stack, moved)) = Len(stack)
      /\ Last(WithEntry(stack, moved)) = moved
    BY <1>4, Running, ReplaceEntry, ReplacedTop
<1>9. Shape(input, WithEntry(stack, moved), TRUE)
    BY <1>4, Running, ShapeReplace, ShapeCall DEF Top
<1>10. ~skipped
    BY <1>2, Running DEF OnlyEnds, Closing, Top
<1>11. call' \in Call /\ call' # NoCall /\ call'.allow = Top.allow
    BY <1>2, <1>3, FieldFacts, CallFacts
<1>12. Top.allow => Closing(moved)
    BY <1>4 DEF Closing
<1>13. HasField(input, WithEntry(stack, moved))
    BY <1>4, <1>8 DEF HasField
<1>14. RunInv'
    BY <1>5, <1>8, <1>9, <1>10, <1>11, <1>12, <1>13 DEF RunInv, Pending, Top
<1> QED
    BY <1>5, <1>7, <1>8, <1>11, <1>14, Running, OutSame, RunStep

\* The end of a variant after its value.
LEMMA EndVariantInv ==
    ASSUME IInv, status = "run", ~Pending, stack # <<>>,
           Peek(input).kind = "end_array",
           input' = Eat(input), stack' = Front(stack),
           UNCHANGED <<out, insertions, skipped, call>>, Keeps
    PROVE  IInv'
<1>1. PICK h \in Nat :
        /\ Len(stack) = h + 1
        /\ Front(stack) \in Seq(Entry)
        /\ Len(Front(stack)) = h
    BY Running, PopEntry
<1>2. /\ Eat(input) \in Stream
      /\ Shape(Eat(input), Front(stack), FALSE)
      /\ Front(stack) # <<>> => Last(Eat(input).open) # "value"
    BY Running, ShapeClose
<1>3. /\ GoodStack(Front(stack), Len(insertions))
      /\ Last(stack).allow /\ Front(stack) # <<>> => Closing(Last(Front(stack)))
    BY Running, GoodPop
<1>4. skipped => OnlyEnds(Eat(input), Front(stack))
    BY <1>2, <1>3, Running DEF OnlyEnds, Closing
<1>5. RunInv'
    BY <1>2, <1>4 DEF RunInv, HasField, Pending
<1>6. Len(Front(stack)) <= MaxStack + 1
    BY <1>1, Running, MaxStackAssumption
<1> QED
    BY <1>1, <1>2, <1>3, <1>5, <1>6, Running, OutSame, RunStep

\* A variant goes on with its name, its value or its end.
LEMMA ResumeVariantInv ==
    ASSUME IInv, ResumeVariant
    PROVE  IInv'
<1>1. /\ status = "run" /\ ~Pending /\ stack # <<>> /\ Len(stack) <= MaxStack
      /\ Ser[Top.type] = "variant"
    BY DEF ResumeVariant, Resume, Pending
<1>2. CASE Fail("syntax") \/ Fail("expected_variant") \/ Fail("expected_value")
    BY <1>2, FailInv DEF Errors
<1>3. CASE /\ Peek(input).kind = "end_array"
           /\ input' = Eat(input)
           /\ stack' = Front(stack)
           /\ UNCHANGED <<out, insertions, skipped, call>> /\ Keeps
    BY <1>1, <1>3, EndVariantInv
<1>4. CASE /\ Peek(input).kind = "string" /\ Top.position + 1 = 0
           /\ VariantName(Fields[Top.type])
    BY <1>1, <1>4, VariantNameInv
<1>5. CASE /\ Top.position + 1 = 1
           /\ stack' = WithEntry(stack, [Top EXCEPT !.position = 1])
           /\ call' = [type |-> Fields[Top.type][Top.alternative].type, allow |-> Top.allow]
           /\ UNCHANGED <<input, out, insertions, skipped>> /\ Keeps
    BY <1>1, <1>5, VariantValueInv
<1> QED
    BY <1>2, <1>3, <1>4, <1>5 DEF ResumeVariant

-----------------------------------------------------------------------------
(* The driver.                                                             *)

\* The depth limit abandons the conversion.
LEMMA StackOverflowInv ==
    ASSUME IInv, StackOverflow
    PROVE  IInv'
BY FailInv DEF StackOverflow, Errors

\* With an empty stack and nothing to call the grammar is where a complete
\* document leaves it, so expected_end is never reported.
LEMMA EndOfLoopInv ==
    ASSUME IInv, EndOfLoop
    PROVE  IInv'
<1>1. status = "run" /\ ~Pending /\ stack = <<>>
    BY DEF EndOfLoop, Pending
<1>2. Shape(input, stack, FALSE) /\ input.open \in Seq(Context)
    BY <1>1, Running DEF Stream
<1>3. Len(input.open) = 1 /\ input.open[1] = "done"
    BY <1>1, <1>2 DEF Shape
<1>4. Complete(input)
    BY <1>2, <1>3, OneEntry DEF Complete
<1>5. status' = "merge" /\ UNCHANGED <<conversion, merged, bin>>
    BY <1>4 DEF EndOfLoop
<1> USE DEF IInv, conversion
<1>6. TypeOK'
    BY <1>5 DEF TypeOK, Status
<1>7. StackBounded' /\ ConsumesOneValue'
    BY <1>5 DEF StackBounded, ConsumesOneValue
<1>8. GoodStack(stack, Len(insertions))' /\ MergeInBounds'
    BY <1>5 DEF MergeInBounds
<1>9. IdleInv' /\ RunInv'
    BY <1>5 DEF IdleInv, RunInv
<1> QED
    BY <1>6, <1>7, <1>8, <1>9

\* The final loop moves bin and merged only.
LEMMA MergeStep ==
    ASSUME IInv, status = "merge", status' \in {"merge", "ok"}, UNCHANGED conversion,
           merged' \in 0 .. Len(insertions), bin' \in Seq(Byte)
    PROVE  IInv'
<1> USE DEF IInv, conversion
<1>1. TypeOK'
    BY DEF TypeOK, Status
<1>2. StackBounded' /\ ConsumesOneValue'
    BY DEF StackBounded, ConsumesOneValue
<1>3. GoodStack(stack, Len(insertions))' /\ MergeInBounds'
    BY DEF MergeInBounds
<1>4. IdleInv' /\ RunInv'
    BY DEF IdleInv, RunInv
<1> QED
    BY <1>1, <1>2, <1>3, <1>4

\* The range copied by the final loop lies inside out.
LEMMA SliceType ==
    ASSUME NEW o \in Seq(Byte), NEW m \in Nat, NEW n \in Nat, n <= Len(o)
    PROVE  SubSeq(o, m + 1, n) \in Seq(Byte)
<1>1. m + 1 \in Int /\ n \in Int
    OBVIOUS
<1>2. \A i \in m + 1 .. n : i \in 1 .. Len(o)
    BY LenProperties
<1>3. \A i \in m + 1 .. n : o[i] \in Byte
    BY <1>2, ElementOfSeq
<1> QED
    BY <1>1, <1>3, SubSeqProperties

\* What the final loop has copied is a length.
LEMMA CopiedType ==
    ASSUME TypeOK
    PROVE  Copied \in Nat
<1>1. /\ insertions \in Seq(Insertion) /\ Len(insertions) \in Nat
      /\ merged \in 0 .. Len(insertions)
    BY LenProperties DEF TypeOK
<1>2. merged = 0 \/ merged \in 1 .. Len(insertions)
    BY <1>1
<1> QED
    BY <1>1, <1>2, InsertionFacts DEF Copied

\* The final loop copies up to a hole and writes its size.
LEMMA MergeSizeInv ==
    ASSUME IInv, MergeSize
    PROVE  IInv'
<1> DEFINE next == insertions[merged + 1]
           copy == SubSeq(out, Copied + 1, next.position)
<1>1. /\ status = "merge" /\ merged < Len(insertions)
      /\ bin' = bin \o copy \o VarUint32(next.size)
      /\ merged' = merged + 1
      /\ UNCHANGED <<conversion, status>>
    BY DEF MergeSize
<1>2. /\ insertions \in Seq(Insertion) /\ Len(insertions) \in Nat
      /\ merged \in 0 .. Len(insertions)
      /\ out \in Seq(Byte) /\ bin \in Seq(Byte) /\ Copied \in Nat
    BY LenProperties, CopiedType DEF IInv, TypeOK
<1>3. merged + 1 \in 1 .. Len(insertions) /\ merged + 1 \in 0 .. Len(insertions)
    BY <1>1, <1>2
<1>4. next.position \in Nat /\ next.size \in Nat /\ next.position <= Len(out)
    BY <1>2, <1>3, InsertionFacts DEF IInv, MergeInBounds
<1> HIDE DEF next
<1>5. copy \in Seq(Byte) /\ VarUint32(next.size) \in Seq(Byte)
    BY <1>2, <1>4, SliceType, VarUint32Type
<1> HIDE DEF copy
<1>6. bin' \in Seq(Byte)
    BY <1>1, <1>2, <1>5, ConcatProperties
<1> QED
    BY <1>1, <1>3, <1>6, MergeStep

\* The final loop copies what is left.
LEMMA MergeRestInv ==
    ASSUME IInv, MergeRest
    PROVE  IInv'
<1>1. /\ status = "merge" /\ status' = "ok"
      /\ bin' = bin \o SubSeq(out, Copied + 1, Len(out))
      /\ UNCHANGED <<conversion, merged>>
    BY DEF MergeRest
<1>2. /\ merged \in 0 .. Len(insertions)
      /\ out \in Seq(Byte) /\ bin \in Seq(Byte)
      /\ Len(out) \in Nat /\ Copied \in Nat
    BY LenProperties, CopiedType DEF IInv, TypeOK
<1>3. SubSeq(out, Copied + 1, Len(out)) \in Seq(Byte)
    BY <1>2, SliceType
<1>4. bin' \in Seq(Byte)
    BY <1>1, <1>2, <1>3, ConcatProperties
<1> QED
    BY <1>1, <1>2, <1>4, MergeStep

\* A conversion begins with an empty stack and a document unread.
LEMMA BeginInv ==
    ASSUME IInv, NEW i \in Inputs, Begin(i)
    PROVE  IInv'
<1>1. i.type \in Type /\ i.doc \in Seq(Token)
    BY InputsAssumption
<1>2. /\ status = "idle"
      /\ input' = Open(i.doc)
      /\ call' = [type |-> i.type, allow |-> TRUE]
      /\ status' = "run"
      /\ UNCHANGED <<stack, out, insertions, skipped, merged, bin>>
    BY DEF Begin
<1>3. stack = <<>> /\ ~skipped
    BY <1>2 DEF IInv, IdleInv
<1>4. /\ Open(i.doc) \in Stream
      /\ Len(Open(i.doc).open) = 1 /\ Open(i.doc).open[1] = "root"
    BY <1>1 DEF Open, Stream, Context
<1>5. call' \in Call /\ call' # NoCall
    BY <1>1, <1>2, CallFacts
<1>6. Shape(input', stack', TRUE)
    BY <1>2, <1>3, <1>4 DEF Shape
<1>7. Len(stack') = 0 /\ 0 <= MaxStack
    BY <1>2, <1>3, MaxStackAssumption
<1>8. RunInv'
    BY <1>2, <1>3, <1>5, <1>6, <1>7 DEF RunInv, HasField, Pending
<1>9. TypeOK'
    BY <1>2, <1>4, <1>5 DEF IInv, TypeOK, Status
<1> QED
    BY <1>2, <1>8, <1>9 DEF IInv, StackBounded, ConsumesOneValue, IdleInv, MergeInBounds

-----------------------------------------------------------------------------
(* The invariant.                                                          *)

\* Before the first call nothing is open and nothing was written.
LEMMA InitInv == Init => IInv
<1> SUFFICES ASSUME Init PROVE IInv
    OBVIOUS
<1> USE DEF Init
<1>1. Open(<<>>) \in Stream
    BY DEF Open, Stream, Context
<1>2. TypeOK
    <2>1. <<>> \in Seq(Entry) /\ <<>> \in Seq(Byte) /\ <<>> \in Seq(Insertion)
        OBVIOUS
    <2>2. Len(insertions) = 0 /\ merged \in 0 .. 0
        OBVIOUS
    <2>3. call \in Call \cup {NoCall}
        OBVIOUS
    <2> QED
        BY <1>1, <2>1, <2>2, <2>3 DEF TypeOK, Status
<1>3. StackBounded /\ ConsumesOneValue /\ MergeInBounds
    BY MaxStackAssumption DEF StackBounded, ConsumesOneValue, MergeInBounds
<1>4. GoodStack(stack, Len(insertions))
    BY DEF GoodStack, Chain, Holes
<1>5. IdleInv /\ RunInv
    BY DEF IdleInv, RunInv
<1> QED
    BY <1>2, <1>3, <1>4, <1>5 DEF IInv

\* A step of something else changes nothing.
LEMMA StutterInv ==
    ASSUME IInv, UNCHANGED vars
    PROVE  IInv'
BY DEF vars, IInv, TypeOK, StackBounded, ConsumesOneValue, MergeInBounds, IdleInv, RunInv,
       Pending, Top

\* Every step keeps the invariant.
LEMMA NextInv ==
    ASSUME IInv, [Next]_vars
    PROVE  IInv'
<1>1. ASSUME NEW i \in Inputs, Begin(i) PROVE IInv'
    BY <1>1, BeginInv
<1>2. ASSUME NEW prim \in DOMAIN TokenFor, StartPrimitive(prim) PROVE IInv'
    BY <1>2, StartPrimitiveInv
<1>3. CASE StartOptional
    BY <1>3, StartOptionalInv
<1>4. CASE StartExtension
    BY <1>4, StartExtensionInv
<1>5. CASE StartObject
    BY <1>5, StartObjectInv
<1>6. CASE ResumeObject
    BY <1>6, ResumeObjectInv
<1>7. CASE StartArray
    BY <1>7, StartArrayInv
<1>8. CASE ResumeArray
    BY <1>8, ResumeArrayInv
<1>9. CASE StartVariant
    BY <1>9, StartVariantInv
<1>10. CASE ResumeVariant
    BY <1>10, ResumeVariantInv
<1>11. CASE StackOverflow
    BY <1>11, StackOverflowInv
<1>12. CASE EndOfLoop
    BY <1>12, EndOfLoopInv
<1>13. CASE MergeSize
    BY <1>13, MergeSizeInv
<1>14. CASE MergeRest
    BY <1>14, MergeRestInv
<1>15. CASE UNCHANGED vars
    BY <1>15, StutterInv
<1> QED
    BY <1>1, <1>2, <1>3, <1>4, <1>5, <1>6, <1>7, <1>8, <1>9, <1>10, <1>11, <1>12, <1>13,
       <1>14, <1>15 DEF Next, Step, Terminated

\* The encoder keeps the inductive invariant, whatever the ABI, the documents
\* and the depth limit.
THEOREM Invariance == Spec => []IInv
<1>1. Init => IInv
    BY InitInv
<1>2. IInv /\ [Next]_vars => IInv'
    BY NextInv
<1> QED
    BY <1>1, <1>2, PTL DEF Spec

\* Every variable stays in its type: among the rest, every byte is a byte.
THEOREM TypeCorrect == Spec => []TypeOK
BY Invariance, PTL DEF IInv

\* The stack never grows beyond one entry more than max_stack_size.
THEOREM StackIsBounded == Spec => []StackBounded
BY Invariance, PTL DEF IInv

\* state.complete() finds nothing left to read: expected_end is dead code.
THEOREM OneValueConsumed == Spec => []ConsumesOneValue
BY Invariance, PTL DEF IInv

\* The final loop never copies a range that runs backwards or past out.
THEOREM MergeStaysInBounds == Spec => []MergeInBounds
BY Invariance, PTL DEF IInv

\* Every subscript an entry holds is inside what it indexes, and a struct that is
\* asked for a value has had a key.
THEOREM SubscriptsInBounds == Spec => []EntriesInBounds
<1>1. IInv => \A i \in DOMAIN stack : EntryInBounds(stack[i], Len(insertions))
    BY LenProperties DEF IInv, TypeOK, GoodStack, GoodEntry
<1>2. IInv => ValueHasField
    BY DEF IInv, RunInv, HasField, ValueHasField, Top
<1> QED
    BY <1>1, <1>2, Invariance, PTL DEF EntriesInBounds

\* Arrays open at the same time never share a hole.
THEOREM HolesAreOwned == Spec => []OpenArraysOwnTheirHole
<1>1. IInv => OpenArraysOwnTheirHole
    BY LenProperties DEF IInv, TypeOK, GoodStack, Holes, OpenArraysOwnTheirHole
<1> QED
    BY <1>1, Invariance, PTL

\* The stack and the JSON reader are always nested alike.
THEOREM NestsAlike == Spec => []NestsLikeReader
<1>1. ASSUME NEW st \in Seq(Entry), NEW p \in BOOLEAN, Shape(input, st, p), st = stack
      PROVE  /\ Len(input.open) = Len(stack) + 1
             /\ \A i \in DOMAIN stack : input.open[i + 1] \in ReaderContext(i)
    <2>1. DOMAIN stack = 1 .. Len(stack)
        BY <1>1, LenProperties
    <2> QED
        BY <1>1, <2>1 DEF Shape, ContextOf, ReaderContext
<1>2. IInv => NestsLikeReader
    BY <1>1, Running DEF NestsLikeReader
<1> QED
    BY <1>2, Invariance, PTL

\* Once an extension has been left out, no step writes a byte or a size.
LEMMA SkipStep ==
    ASSUME IInv, skipped, [Next]_vars
    PROVE  UNCHANGED <<out, insertions>>
<1>1. status = "run" => ~Pending /\ OnlyEnds(input, stack)
    BY Running
<1>2. ASSUME NEW error, Fail(error) PROVE UNCHANGED <<out, insertions>>
    BY <1>2 DEF Fail, conversion
<1>3. ASSUME NEW ser, Start(ser) PROVE FALSE
    BY <1>1, <1>3 DEF Start, Pending
<1>4. CASE ResumeObject
    <2>1. Members(input, stack)
        BY <1>4 DEF ResumeObject
    <2> QED
        BY <1>2, <2>1 DEF Members, EndObject, MemberKey, MemberValue
<1>5. CASE ResumeArray
    <2>1. stack # <<>> /\ status = "run" /\ Ser[Last(stack).type] = "array"
        BY <1>5 DEF ResumeArray, Resume, Top
    <2> QED
        BY <1>1, <2>1 DEF OnlyEnds, Closing
<1>6. CASE ResumeVariant
    <2>1. stack # <<>> /\ status = "run" /\ Ser[Last(stack).type] = "variant"
        BY <1>6 DEF ResumeVariant, Resume, Top
    <2>2. Top.position = 1
        BY <1>1, <2>1 DEF OnlyEnds, Closing, Top
    <2>3. Top.position + 1 # 0
        BY <2>2
    <2> QED
        BY <1>2, <1>6, <2>3 DEF ResumeVariant
<1>7. CASE (\E prim \in DOMAIN TokenFor : StartPrimitive(prim)) \/ StartOptional
            \/ StartExtension \/ StartObject \/ StartArray \/ StartVariant
    BY <1>3, <1>7 DEF StartPrimitive, StartOptional, StartExtension, StartObject, StartArray,
                      StartVariant
<1>8. CASE StackOverflow \/ EndOfLoop
    BY <1>2, <1>8 DEF StackOverflow, EndOfLoop, conversion
<1>9. CASE MergeSize \/ MergeRest
    BY <1>9 DEF MergeSize, MergeRest, conversion
<1>10. CASE \E i \in Inputs : Begin(i)
    BY <1>10 DEF Begin
<1>11. CASE UNCHANGED vars
    BY <1>11 DEF vars
<1> QED
    BY <1>4, <1>5, <1>6, <1>7, <1>8, <1>9, <1>10, <1>11 DEF Next, Step, Terminated

\* skipped_extension may be one flag for the whole conversion: after it is set
\* no further byte or size is produced.
THEOREM SkipStaysFinal == Spec => SkipIsFinal
<1>1. IInv /\ [Next]_vars => [skipped => UNCHANGED <<out, insertions>>]_vars
    BY SkipStep
<1> QED
    BY <1>1, Invariance, PTL DEF Spec, SkipIsFinal
=============================================================================
