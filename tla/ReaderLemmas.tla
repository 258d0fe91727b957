---------------------------- MODULE ReaderLemmas ----------------------------
(***************************************************************************)
(* What the proofs about the converters share: the pull reader, its        *)
(* contexts, and the bytes of primitives and sizes.                        *)
(***************************************************************************)
EXTENDS AbiTypes, StackLemmas

-----------------------------------------------------------------------------
(* The reader.                                                             *)

\* A token that is not an error is the next one of the document, and one the
\* grammar wants.
LEMMA PeekFacts ==
    ASSUME NEW in \in Stream, Peek(in).kind # "error"
    PROVE  /\ in.rest # <<>>
           /\ Peek(in) = Head(in.rest)
           /\ Peek(in) \in Token
           /\ Expects(Last(in.open), Peek(in).kind)
           /\ Tail(in.rest) \in Seq(Token)
<1>1. in.rest \in Seq(Token)
    BY DEF Stream
<1>2. SyntaxError.kind = "error"
    BY DEF SyntaxError
<1>3. /\ in.rest # <<>>
      /\ Peek(in) = Head(in.rest)
      /\ Expects(Last(in.open), Head(in.rest).kind)
    BY <1>2 DEF Peek
<1>4. Head(in.rest) \in Token /\ Tail(in.rest) \in Seq(Token)
    BY <1>1, <1>3, HeadTailProperties
<1> QED
    BY <1>3, <1>4

\* The text of a token is one of the strings of the instance.
LEMMA PeekText ==
    ASSUME NEW in \in Stream, Peek(in).kind # "error"
    PROVE  Peek(in).text \in Text
BY PeekFacts DEF Token

\* Setting the context on top changes that one only.
LEMMA WithTopFacts ==
    ASSUME NEW open \in Seq(Context), NEW h \in Nat, Len(open) = h + 1, NEW ctx \in Context
    PROVE  /\ WithTop(open, ctx) \in Seq(Context)
           /\ WithTop(open, ctx) # <<>>
           /\ Len(WithTop(open, ctx)) = h + 1
           /\ WithTop(open, ctx)[h + 1] = ctx
           /\ \A i \in 1 .. h : WithTop(open, ctx)[i] = open[i]
<1>1. open # <<>>
    BY EmptySeq
<1>2. /\ WithTop(open, ctx) \in Seq(Context)
      /\ WithTop(open, ctx) # <<>>
      /\ Len(WithTop(open, ctx)) = Len(open)
      /\ \A i \in 1 .. Len(open) :
            WithTop(open, ctx)[i] = IF i = Len(open) THEN ctx ELSE open[i]
    BY <1>1, ReplaceFacts DEF WithTop
<1>3. h + 1 \in 1 .. h + 1 /\ \A i \in 1 .. h : i \in 1 .. h + 1 /\ i # h + 1
    OBVIOUS
<1> QED
    BY <1>2, <1>3

\* What eating a token does to the contexts, by the kind of the token.
LEMMA EatFacts ==
    ASSUME NEW in \in Stream, Peek(in).kind # "error"
    PROVE  /\ Eat(in).open = Advance(in.open, Peek(in).kind)
           /\ Eat(in).open \in Seq(Context) => Eat(in) \in Stream
BY PeekFacts DEF Eat, Stream

\* A value leaves the document complete, a struct before its next key and an
\* array where it was.
LEMMA AfterValueFacts ==
    /\ AfterValue["root"] = "done" /\ AfterValue["done"] = "done"
    /\ AfterValue["key"] = "key" /\ AfterValue["value"] = "key"
    /\ AfterValue["array"] = "array"
BY DEF AfterValue

\* Push, for the contexts of the reader.
LEMMA PushContext ==
    ASSUME NEW open \in Seq(Context), NEW ctx \in Context
    PROVE  /\ Push(open, ctx) \in Seq(Context) /\ Push(open, ctx) # <<>>
           /\ Len(Push(open, ctx)) = Len(open) + 1
           /\ Push(open, ctx)[Len(open) + 1] = ctx
           /\ \A i \in 1 .. Len(open) : Push(open, ctx)[i] = open[i]
BY PushFacts

-----------------------------------------------------------------------------
(* Bytes.                                                                  *)

\* Every primitive is written as one byte.
LEMMA PrimByteType ==
    ASSUME NEW prim, NEW text \in Text
    PROVE  PrimByte(prim, text) \in Byte
<1>1. IntOf[text] \in Int
    BY AbiAssumption
<1> QED
    BY <1>1 DEF PrimByte, Byte

\* A size is written as one to five bytes (varuint32_to_bin).
LEMMA VarUint32Type ==
    ASSUME NEW n \in Nat
    PROVE  VarUint32(n) \in Seq(Byte)
<1>1. VarLen(n) \in 1 .. 5
    BY DEF VarLen
<1>2. ASSUME NEW i \in 1 .. VarLen(n)
      PROVE  ((n \div Pow128[i]) % 128) + (IF i < VarLen(n) THEN 128 ELSE 0) \in Byte
    <2>1. i \in 1 .. 5
        BY <1>1
    <2>2. Pow128[i] \in Nat \ {0}
        BY <2>1 DEF Pow128
    <2>3. n \div Pow128[i] \in Int
        BY <2>2
    <2>4. (n \div Pow128[i]) % 128 \in 0 .. 127
        BY <2>3
    <2> QED
        BY <2>4, <1>1 DEF Byte
<1>3. VarUint32(n) \in [1 .. VarLen(n) -> Byte]
    BY <1>2 DEF VarUint32
<1> QED
    BY <1>1, <1>3, SeqDef
=============================================================================
