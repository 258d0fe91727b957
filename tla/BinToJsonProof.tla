--------------------------- MODULE BinToJsonProof ---------------------------
(***************************************************************************)
(* What the decoder BinToJson keeps for every ABI, all data and every      *)
(* depth limit: TypeInv is inductive, and TextInv is inductive with it if  *)
(* the extensions of structs trail.                                        *)
(***************************************************************************)
EXTENDS BinToJson, ReaderLemmas

-----------------------------------------------------------------------------
(* Reading the text as it is written.                                      *)

\* The contexts of a text exist: they are built lexeme by lexeme.
LEMMA ContextsExist ==
    ASSUME NEW t, NEW m \in Nat
    PROVE  \E f : f = [n \in 0 .. m |-> IF n = 0 THEN <<"root">> ELSE After(f[n - 1], t[n])]
<1> DEFINE Built(f, k) ==
               f = [n \in 0 .. k |-> IF n = 0 THEN <<"root">> ELSE After(f[n - 1], t[n])]
           T == {k \in Nat : \E f : Built(f, k)}
<1>1. 0 \in T
    <2>1. Built([n \in 0 .. 0 |-> <<"root">>], 0)
        OBVIOUS
    <2> QED
        BY <2>1
<1>2. ASSUME NEW k \in Nat, k \in T
      PROVE  k + 1 \in T
    <2>1. PICK f : Built(f, k)
        BY <1>2
    <2> DEFINE g == [n \in 0 .. k + 1 |-> IF n = k + 1 THEN After(f[k], t[n]) ELSE f[n]]
    <2>2. ASSUME NEW n \in 0 .. k + 1
          PROVE  g[n] = IF n = 0 THEN <<"root">> ELSE After(g[n - 1], t[n])
        <3>1. CASE n = 0
            BY <3>1, <2>1
        <3>2. CASE n = k + 1
            <4>1. n - 1 = k /\ k \in 0 .. k + 1 /\ k # k + 1
                BY <3>2
            <4> QED
                BY <3>2, <4>1
        <3>3. CASE n # 0 /\ n # k + 1
            <4>1. n \in 0 .. k /\ n - 1 \in 0 .. k + 1 /\ n - 1 # k + 1
                BY <3>3
            <4>2. g[n] = f[n] /\ g[n - 1] = f[n - 1]
                BY <3>3, <4>1
            <4>3. f[n] = After(f[n - 1], t[n])
                BY <2>1, <3>3, <4>1
            <4> QED
                BY <3>3, <4>2, <4>3
        <3> QED
            BY <3>1, <3>2, <3>3
    <2>3. Built(g, k + 1)
        BY <2>2
    <2>4. k + 1 \in Nat
        OBVIOUS
    <2> HIDE DEF g, Built
    <2> QED
        BY <2>3, <2>4
<1> HIDE DEF T
<1>3. Nat \subseteq T
    BY <1>1, <1>2, NatInduct
<1> QED
    BY <1>3 DEF T

\* What is open after n lexemes, from what is open after one less.
LEMMA ContextsFacts ==
    ASSUME NEW t \in Seq(Lexeme)
    PROVE  /\ Contexts(t)[0] = <<"root">>
           /\ \A n \in 1 .. Len(t) : Contexts(t)[n] = After(Contexts(t)[n - 1], t[n])
<1> DEFINE C == Contexts(t)
<1>1. Len(t) \in Nat
    BY LenProperties
<1>2. C = [n \in 0 .. Len(t) |-> IF n = 0 THEN <<"root">> ELSE After(C[n - 1], t[n])]
    BY <1>1, ContextsExist DEF Contexts
<1> HIDE DEF C
<1>3. 0 \in 0 .. Len(t) /\ \A n \in 1 .. Len(t) : n \in 0 .. Len(t) /\ n # 0
    BY <1>1
<1> QED
    BY <1>2, <1>3 DEF C

\* What is open after n lexemes depends on these only.
LEMMA ContextsAgree ==
    ASSUME NEW s \in Seq(Lexeme), NEW t \in Seq(Lexeme), NEW m \in Nat,
           m <= Len(s), m <= Len(t), \A i \in 1 .. m : s[i] = t[i]
    PROVE  \A n \in 0 .. m : Contexts(s)[n] = Contexts(t)[n]
<1> DEFINE T == {n \in Nat : n <= m => Contexts(s)[n] = Contexts(t)[n]}
<1>1. 0 \in T
    BY ContextsFacts
<1>2. ASSUME NEW n \in Nat, n \in T
      PROVE  n + 1 \in T
    <2> SUFFICES ASSUME n + 1 <= m
                 PROVE  Contexts(s)[n + 1] = Contexts(t)[n + 1]
        OBVIOUS
    <2>1. /\ n <= m /\ n + 1 \in 1 .. m /\ (n + 1) - 1 = n
          /\ n + 1 \in 1 .. Len(s) /\ n + 1 \in 1 .. Len(t)
        BY LenProperties
    <2>2. Contexts(s)[n] = Contexts(t)[n]
        BY <1>2, <2>1
    <2>3. /\ Contexts(s)[n + 1] = After(Contexts(s)[n], s[n + 1])
          /\ Contexts(t)[n + 1] = After(Contexts(t)[n], t[n + 1])
        BY <2>1, ContextsFacts
    <2> QED
        BY <2>1, <2>2, <2>3
<1> HIDE DEF T
<1>3. Nat \subseteq T
    BY <1>1, <1>2, NatInduct
<1> QED
    BY <1>3 DEF T

\* A text that is JSON so far, and what a reader of it has open.
Reads(t, open) ==
    /\ t \in Seq(Lexeme)
    /\ Punctuated(t) /\ Accepted(t)
    /\ Contexts(t)[Len(t)] = open

\* A lexeme that may follow the last one, and that a reader accepts, may be
\* written.
LEMMA WriteFacts ==
    ASSUME NEW t, NEW open, Reads(t, open), NEW lexeme \in Lexeme,
           t = <<>> \/ Follows(Last(t).kind, lexeme.kind),
           lexeme.kind \in Punctuation \/ Expects(Last(open), lexeme.kind)
    PROVE  /\ Reads(Append(t, lexeme), After(open, lexeme))
           /\ Append(t, lexeme) # <<>>
           /\ Last(Append(t, lexeme)) = lexeme
<1> DEFINE u == Push(t, lexeme)
           n == Len(t)
<1>1. /\ u \in Seq(Lexeme) /\ u # <<>> /\ n \in Nat /\ Len(u) = n + 1
      /\ u[n + 1] = lexeme
      /\ \A i \in 1 .. n : u[i] = t[i]
    BY PushFacts DEF Reads
<1>2. t \in Seq(Lexeme)
    BY DEF Reads
<1>3. t = <<>> \/ (n \in 1 .. n /\ Last(t) = t[n])
    BY <1>2, NonEmpty DEF Last
<1> HIDE DEF u
<1>4. Last(u) = lexeme
    BY <1>1, TopFacts
<1>5. \A i \in 0 .. n : Contexts(u)[i] = Contexts(t)[i]
    BY <1>1, <1>2, ContextsAgree
<1>6. Contexts(u)[n + 1] = After(open, lexeme)
    <2>1. n + 1 \in 1 .. Len(u) /\ (n + 1) - 1 = n /\ n \in 0 .. n
        BY <1>1
    <2> QED
        BY <1>1, <1>5, <2>1, ContextsFacts DEF Reads
<1>7. Punctuated(u)
    <2> SUFFICES ASSUME NEW i \in 2 .. n + 1
                 PROVE  Follows(u[i - 1].kind, u[i].kind)
        BY <1>1 DEF Punctuated
    <2>1. CASE i = n + 1
        <3>1. n \in 1 .. n /\ i - 1 = n /\ t # <<>>
            BY <1>1, <2>1, EmptySeq
        <3> QED
            BY <1>1, <1>3, <2>1, <3>1
    <2>2. CASE i # n + 1
        <3>1. i \in 2 .. n /\ i - 1 \in 1 .. n /\ i \in 1 .. n
            BY <1>1, <2>2
        <3> QED
            BY <1>1, <3>1 DEF Reads, Punctuated
    <2> QED
        BY <2>1, <2>2
<1>8. Accepted(u)
    <2> SUFFICES ASSUME NEW i \in 1 .. n + 1
                 PROVE  \/ u[i].kind \in Punctuation
                        \/ Expects(Last(Contexts(u)[i - 1]), u[i].kind)
        BY <1>1 DEF Accepted
    <2>1. CASE i = n + 1
        <3>1. i - 1 = n /\ n \in 0 .. n
            BY <1>1, <2>1
        <3> QED
            BY <1>1, <1>5, <2>1, <3>1 DEF Reads
    <2>2. CASE i # n + 1
        <3>1. i \in 1 .. n /\ i - 1 \in 0 .. n
            BY <1>1, <2>2
        <3> QED
            BY <1>1, <1>5, <3>1 DEF Reads, Accepted
    <2> QED
        BY <2>1, <2>2
<1> QED
    BY <1>1, <1>4, <1>6, <1>7, <1>8 DEF Reads, u, Push

-----------------------------------------------------------------------------
(* The reader's contexts and the stack.                                    *)

\* The context on top, by the entry on top.
LEMMA TopLevel ==
    ASSUME NEW open, NEW st \in Seq(Entry), NEW p \in BOOLEAN, Levels(open, st, p)
    PROVE  /\ Len(st) \in Nat /\ Len(open) = Len(st) + 1
           /\ open \in Seq(Context) /\ open # <<>>
           /\ Last(open) = open[Len(st) + 1]
           /\ st = <<>> => Last(open) = IF p THEN "root" ELSE "done"
           /\ st # <<>> => Last(open) = ContextOf(st, Len(st), p)
           /\ st # <<>> => Last(st) = st[Len(st)] /\ Len(st) \in 1 .. Len(st)
<1>1. Len(st) \in Nat /\ Len(open) = Len(st) + 1 /\ open \in Seq(Context)
    BY LenProperties DEF Levels
<1>2. open # <<>>
    BY <1>1, EmptySeq
<1>3. Last(open) = open[Len(st) + 1]
    BY <1>1, <1>2, TopFacts
<1>4. st = <<>> => Last(open) = IF p THEN "root" ELSE "done"
    BY <1>1, <1>3, EmptySeq DEF Levels
<1>5. st # <<>> => Last(st) = st[Len(st)] /\ Len(st) \in 1 .. Len(st)
    BY NonEmpty, TopFacts
<1> QED
    BY <1>1, <1>2, <1>3, <1>4, <1>5 DEF Levels

\* A value that is wanted may be any value, and once it has been read the level
\* goes on.
LEMMA LevelsRead ==
    ASSUME NEW open, NEW st \in Seq(Entry), Levels(open, st, TRUE)
    PROVE  /\ \A kind \in ValueStart : Expects(Last(open), kind)
           /\ Levels(WithTop(open, AfterValue[Last(open)]), st, FALSE)
<1> DEFINE n == Len(st)
           ctx == AfterValue[Last(open)]
           read == WithTop(open, ctx)
<1>1. /\ n \in Nat /\ Len(open) = n + 1
      /\ open \in Seq(Context)
      /\ Last(open) = open[n + 1]
      /\ st = <<>> => Last(open) = "root"
      /\ st # <<>> => Last(open) = ContextOf(st, n, TRUE)
      /\ st # <<>> => n \in 1 .. n
    BY TopLevel
<1>2. Last(open) \in {"root", "value", "array"}
    BY <1>1 DEF ContextOf
<1>3. /\ st = <<>> => ctx = "done"
      /\ st # <<>> => ctx = ContextOf(st, n, FALSE)
      /\ ctx \in Context
    BY <1>1, <1>2, AfterValueFacts DEF ContextOf, Context
<1>4. \A kind \in ValueStart : Expects(Last(open), kind)
    BY <1>2 DEF Expects
<1> HIDE DEF ctx
<1>5. /\ read \in Seq(Context) /\ Len(read) = n + 1
      /\ read[n + 1] = ctx
      /\ \A i \in 1 .. n : read[i] = open[i]
    BY <1>1, <1>3, WithTopFacts
<1> HIDE DEF read
<1>6. read[1] = "done"
    <2>1. CASE st = <<>>
        BY <1>3, <1>5, <2>1, EmptySeq
    <2>2. CASE st # <<>>
        <3>1. 1 \in 1 .. n
            BY <1>1, <2>2
        <3> QED
            BY <1>5, <2>2, <3>1 DEF Levels
    <2> QED
        BY <2>1, <2>2
<1>7. ASSUME NEW i \in 1 .. n
      PROVE  read[i + 1] = ContextOf(st, i, FALSE)
    <2>1. CASE i = n
        <3>1. st # <<>>
            BY <1>1, EmptySeq
        <3> QED
            BY <1>3, <1>5, <2>1, <3>1
    <2>2. CASE i # n
        <3>1. i + 1 \in 1 .. n
            BY <1>1, <2>2
        <3>2. read[i + 1] = ContextOf(st, i, TRUE)
            BY <1>5, <3>1 DEF Levels
        <3> QED
            BY <2>2, <3>2 DEF ContextOf
    <2> QED
        BY <2>1, <2>2
<1> QED
    BY <1>4, <1>5, <1>6, <1>7 DEF Levels, read, ctx

\* A new container is a new level.
LEMMA LevelsPush ==
    ASSUME NEW open, NEW st \in Seq(Entry), Levels(open, st, FALSE), NEW e \in Entry,
           NEW ctx, ctx = IF Ser[e.type] = "object" THEN "key" ELSE "array"
    PROVE  Levels(Push(open, ctx), Push(st, e), FALSE)
<1> DEFINE n == Len(st)
           more == Push(st, e)
           deeper == Push(open, ctx)
<1>1. n \in Nat /\ Len(open) = n + 1 /\ open \in Seq(Context)
    BY TopLevel
<1>2. more # <<>> /\ Len(more) = n + 1 /\ more[n + 1] = e /\ \A i \in 1 .. n : more[i] = st[i]
    BY PushFacts
<1>3. ctx \in Context
    BY DEF Context
<1>4. /\ deeper \in Seq(Context) /\ Len(deeper) = n + 1 + 1 /\ deeper[n + 1 + 1] = ctx
      /\ \A i \in 1 .. n + 1 : deeper[i] = open[i]
    BY <1>1, <1>3, PushContext
<1> HIDE DEF more, deeper
<1>5. deeper[1] = "done"
    <2>1. 1 \in 1 .. n + 1
        BY <1>1
    <2> QED
        BY <1>4, <2>1 DEF Levels
<1>6. ASSUME NEW i \in 1 .. n + 1
      PROVE  deeper[i + 1] = ContextOf(more, i, FALSE)
    <2>1. CASE i = n + 1
        BY <1>2, <1>4, <2>1 DEF ContextOf
    <2>2. CASE i # n + 1
        <3>1. i \in 1 .. n /\ i + 1 \in 1 .. n + 1
            BY <1>1, <2>2
        <3>2. open[i + 1] = ContextOf(st, i, FALSE)
            BY <3>1 DEF Levels
        <3> QED
            BY <1>2, <1>4, <3>1, <3>2 DEF ContextOf
    <2> QED
        BY <2>1, <2>2
<1> QED
    BY <1>2, <1>4, <1>5, <1>6 DEF Levels, more, deeper

\* A container that ends takes its level along.
LEMMA LevelsPop ==
    ASSUME NEW open, NEW st \in Seq(Entry), Levels(open, st, FALSE), st # <<>>
    PROVE  Levels(Front(open), Front(st), FALSE)
<1>1. PICK h \in Nat : /\ Len(st) = h + 1 /\ Front(st) \in Seq(Entry) /\ Len(Front(st)) = h
                       /\ \A i \in 1 .. h : Front(st)[i] = st[i]
    BY PopFacts
<1>2. open \in Seq(Context) /\ open # <<>> /\ Len(open) = h + 1 + 1
    BY <1>1, TopLevel
<1>3. /\ Front(open) \in Seq(Context) /\ Len(Front(open)) = h + 1
      /\ \A i \in 1 .. h + 1 : Front(open)[i] = open[i]
    <2>1. PICK k \in Nat : /\ Len(open) = k + 1 /\ Front(open) \in Seq(Context)
                           /\ Len(Front(open)) = k
                           /\ \A i \in 1 .. k : Front(open)[i] = open[i]
        BY <1>2, PopFacts
    <2>2. k = h + 1
        BY <1>2, <2>1
    <2> QED
        BY <2>1, <2>2
<1>4. Front(open)[1] = "done"
    <2>1. 1 \in 1 .. h + 1
        OBVIOUS
    <2> QED
        BY <1>3, <2>1 DEF Levels
<1>5. ASSUME NEW i \in 1 .. h
      PROVE  Front(open)[i + 1] = ContextOf(Front(st), i, FALSE)
    <2>1. i + 1 \in 1 .. h + 1 /\ i \in 1 .. h + 1
        OBVIOUS
    <2>2. open[i + 1] = ContextOf(st, i, FALSE)
        BY <1>1, <2>1 DEF Levels
    <2> QED
        BY <1>1, <1>3, <2>1, <2>2 DEF ContextOf
<1> QED
    BY <1>1, <1>3, <1>4, <1>5 DEF Levels

\* The entry on top moves on, and its level stays what it is if no value is
\* wanted there or it is not a struct's.
LEMMA LevelsMove ==
    ASSUME NEW open, NEW st \in Seq(Entry), Levels(open, st, FALSE), st # <<>>,
           NEW e \in Entry, e.type = Last(st).type,
           NEW p \in BOOLEAN, p => Ser[e.type] # "object"
    PROVE  Levels(open, [st EXCEPT ![Len(st)] = e], p)
<1> DEFINE moved == [st EXCEPT ![Len(st)] = e]
<1>1. /\ Len(st) \in Nat /\ Len(open) = Len(st) + 1 /\ open \in Seq(Context)
      /\ Last(st) = st[Len(st)]
    BY TopLevel
<1>2. /\ moved # <<>> /\ Len(moved) = Len(st)
      /\ \A i \in 1 .. Len(st) : moved[i] = IF i = Len(st) THEN e ELSE st[i]
    BY ReplaceFacts
<1> HIDE DEF moved
<1>3. ASSUME NEW i \in 1 .. Len(st)
      PROVE  open[i + 1] = ContextOf(moved, i, p)
    <2>1. open[i + 1] = ContextOf(st, i, FALSE)
        BY DEF Levels
    <2>2. moved[i].type = st[i].type
        BY <1>1, <1>2
    <2>3. i = Len(moved) => moved[i] = e
        BY <1>2
    <2> QED
        BY <2>1, <2>2, <2>3 DEF ContextOf
<1>4. open[1] = "done"
    BY DEF Levels
<1> QED
    BY <1>1, <1>2, <1>3, <1>4 DEF Levels, moved

\* The key of a member: its value is wanted next.
LEMMA LevelsKey ==
    ASSUME NEW open, NEW st \in Seq(Entry), Levels(open, st, FALSE), st # <<>>,
           NEW e \in Entry, e.type = Last(st).type, Ser[e.type] = "object"
    PROVE  Levels(WithTop(open, "value"), [st EXCEPT ![Len(st)] = e], TRUE)
<1> DEFINE moved == [st EXCEPT ![Len(st)] = e]
           n == Len(st)
           read == WithTop(open, "value")
<1>1. /\ n \in Nat /\ Len(open) = n + 1 /\ open \in Seq(Context)
      /\ n \in 1 .. n /\ Last(st) = st[n]
    BY TopLevel
<1>2. /\ moved # <<>> /\ Len(moved) = n
      /\ \A i \in 1 .. n : moved[i] = IF i = n THEN e ELSE st[i]
    BY ReplaceFacts
<1>3. "value" \in Context
    BY DEF Context
<1>4. /\ read \in Seq(Context) /\ Len(read) = n + 1
      /\ read[n + 1] = "value"
      /\ \A i \in 1 .. n : read[i] = open[i]
    BY <1>1, <1>3, WithTopFacts
<1> HIDE DEF moved, read
<1>5. ASSUME NEW i \in 1 .. n
      PROVE  read[i + 1] = ContextOf(moved, i, TRUE)
    <2>1. CASE i = n
        BY <1>2, <1>4, <2>1 DEF ContextOf
    <2>2. CASE i # n
        <3>1. i + 1 \in 1 .. n
            BY <1>1, <2>2
        <3>2. read[i + 1] = ContextOf(st, i, FALSE)
            BY <1>4, <3>1 DEF Levels
        <3> QED
            BY <1>2, <2>2, <3>2 DEF ContextOf
    <2> QED
        BY <2>1, <2>2
<1>6. read[1] = "done"
    <2>1. 1 \in 1 .. n
        BY <1>1
    <2> QED
        BY <1>4, <2>1 DEF Levels
<1> QED
    BY <1>2, <1>4, <1>5, <1>6 DEF Levels, moved, read

-----------------------------------------------------------------------------
(* Data, stack and text have their types.                                  *)

\* Entries of containers, as many as there may be at all.
GoodStack(st) ==
    /\ st \in Seq(Entry) /\ Len(st) <= MaxStack + 1
    /\ \A i \in 1 .. Len(st) : Ser[st[i].type] \in Containers

\* Push, for the stack.
LEMMA GoodPush ==
    ASSUME NEW st, GoodStack(st), Len(st) <= MaxStack,
           NEW e \in Entry, Ser[e.type] \in Containers
    PROVE  GoodStack(Push(st, e))
<1>1. /\ Push(st, e) \in Seq(Entry) /\ Len(st) \in Nat /\ Len(Push(st, e)) = Len(st) + 1
      /\ Push(st, e)[Len(st) + 1] = e
      /\ \A i \in 1 .. Len(st) : Push(st, e)[i] = st[i]
    BY PushFacts DEF GoodStack
<1>2. ASSUME NEW i \in 1 .. Len(st) + 1
      PROVE  Ser[Push(st, e)[i].type] \in Containers
    <2>1. i \in 1 .. Len(st) \/ i = Len(st) + 1
        BY <1>1, LevelFacts
    <2> QED
        BY <1>1, <2>1 DEF GoodStack
<1>3. Len(Push(st, e)) <= MaxStack + 1
    BY <1>1, MaxStackAssumption
<1> QED
    BY <1>1, <1>2, <1>3 DEF GoodStack

\* Pop, for the stack.
LEMMA GoodPop ==
    ASSUME NEW st, GoodStack(st), st # <<>>
    PROVE  GoodStack(Front(st)) /\ Len(Front(st)) <= MaxStack
<1>1. st \in Seq(Entry)
    BY DEF GoodStack
<1>2. PICK h \in Nat : /\ Len(st) = h + 1 /\ Front(st) \in Seq(Entry) /\ Len(Front(st)) = h
                       /\ \A i \in 1 .. h : Front(st)[i] = st[i]
    BY <1>1, PopFacts
<1>3. h <= MaxStack /\ h <= MaxStack + 1
    BY <1>2, MaxStackAssumption DEF GoodStack
<1>4. \A i \in 1 .. h : i \in 1 .. h + 1
    OBVIOUS
<1> QED
    BY <1>2, <1>3, <1>4 DEF GoodStack

\* The entry on top.
LEMMA GoodTop ==
    ASSUME NEW st, GoodStack(st), st # <<>>
    PROVE  /\ Last(st) \in Entry
           /\ Last(st) = st[Len(st)]
           /\ Len(st) \in 1 .. Len(st)
           /\ Last(st).type \in Type /\ Last(st).allow \in BOOLEAN
           /\ Last(st).position \in Nat \cup {-1} /\ Last(st).size \in Nat
<1>1. Last(st) \in Entry /\ Last(st) = st[Len(st)] /\ Len(st) \in 1 .. Len(st)
    BY NonEmpty, TopFacts DEF GoodStack
<1> QED
    BY <1>1 DEF Entry

\* The entry on top gets another position.
LEMMA GoodMove ==
    ASSUME NEW st, GoodStack(st), st # <<>>, NEW position \in Nat,
           NEW e, e = [Last(st) EXCEPT !.position = position]
    PROVE  /\ e \in Entry /\ e.type = Last(st).type /\ e.position = position
           /\ e.allow = Last(st).allow
           /\ GoodStack([st EXCEPT ![Len(st)] = e])
           /\ [st EXCEPT ![Len(st)] = e] # <<>>
           /\ Last([st EXCEPT ![Len(st)] = e]) = e
           /\ Len([st EXCEPT ![Len(st)] = e]) = Len(st)
           /\ \A i \in 1 .. Len(st) : i < Len(st) => [st EXCEPT ![Len(st)] = e][i] = st[i]
<1> DEFINE moved == [st EXCEPT ![Len(st)] = e]
<1>1. st \in Seq(Entry) /\ Last(st) \in Entry /\ Last(st) = st[Len(st)] /\ Len(st) \in 1 .. Len(st)
    BY GoodTop DEF GoodStack
<1>2. /\ e \in Entry /\ e.type = Last(st).type /\ e.position = position
      /\ e.allow = Last(st).allow
    BY <1>1 DEF Entry
<1>3. /\ moved \in Seq(Entry) /\ moved # <<>> /\ Len(moved) = Len(st)
      /\ \A i \in 1 .. Len(st) : moved[i] = IF i = Len(st) THEN e ELSE st[i]
    BY <1>1, <1>2, ReplaceFacts
<1> HIDE DEF moved
<1>4. Last(moved) = e
    BY <1>1, <1>3, TopFacts
<1>5. \A i \in 1 .. Len(st) : moved[i].type = st[i].type
    BY <1>1, <1>2, <1>3
<1>6. GoodStack(moved)
    BY <1>3, <1>5 DEF GoodStack
<1> QED
    BY <1>1, <1>2, <1>3, <1>4, <1>6 DEF moved

\* What a step has to leave behind.
LEMMA TypeStep ==
    ASSUME TypeInv, data' \in Seq(Byte), GoodStack(stack'), text' \in Seq(Lexeme),
           skipped' \in BOOLEAN, call' \in Call \cup {NoCall}, status' \in Status \ {"idle"},
           call' # NoCall => Len(stack') <= MaxStack
    PROVE  TypeInv'
<1>1. TypeOK'
    BY DEF TypeOK, GoodStack
<1> QED
    BY <1>1 DEF TypeInv, GoodStack, Pending

\* What holds before a step.
LEMMA TypeFacts ==
    ASSUME TypeInv
    PROVE  /\ data \in Seq(Byte) /\ GoodStack(stack) /\ text \in Seq(Lexeme)
           /\ skipped \in BOOLEAN /\ status \in Status
           /\ status = "run" /\ call # NoCall =>
                /\ call \in Call /\ call.type \in Type /\ call.allow \in BOOLEAN
                /\ Len(stack) <= MaxStack
BY DEF TypeInv, TypeOK, GoodStack, Pending, Call

\* A run that fails changes nothing else.
LEMMA FailType ==
    ASSUME TypeInv, NEW error \in Errors, Fail(error)
    PROVE  TypeInv'
BY DEF TypeInv, TypeOK, Pending, Fail, Status, Errors

\* A call of a node of the type graph is not "no call".
LEMMA CallFacts ==
    ASSUME NEW t \in Type, NEW allow \in BOOLEAN
    PROVE  /\ [type |-> t, allow |-> allow] \in Call
           /\ [type |-> t, allow |-> allow] # NoCall
<1>1. t # "none"
    BY AbiAssumption
<1> QED
    BY <1>1 DEF Call, NoCall

\* Writing one lexeme.
LEMMA TextType ==
    ASSUME NEW t \in Seq(Lexeme), NEW lexeme \in Lexeme
    PROVE  Append(t, lexeme) \in Seq(Lexeme)
BY PushFacts DEF Push

\* The lexemes the serializers write.
LEMMA LexemeFacts ==
    /\ \A kind \in TokenKind \cup {"comma", "colon"} :
           Mark(kind) \in Lexeme /\ Mark(kind).kind = kind
    /\ \A kind \in TokenKind, name \in Text :
           Named(kind, name) \in Lexeme /\ Named(kind, name).kind = kind
BY TextAssumption DEF Mark, Named, Lexeme

\* A primitive is written as a scalar.
LEMMA PrimTokenFacts ==
    ASSUME NEW prim \in DOMAIN TokenFor, NEW byte \in Byte, NEW tok \in PrimTokens(prim, byte)
    PROVE  tok \in Lexeme /\ tok.kind \in {"string", "bool"}
<1>1. CASE prim = "int8"
    <2>1. (IF byte < 128 THEN byte ELSE byte - 256) \in Int8
        BY DEF Byte, Int8
    <2>2. Spell[IF byte < 128 THEN byte ELSE byte - 256] \in Text
        BY <2>1, AbiAssumption
    <2> QED
        BY <1>1, <2>2 DEF PrimTokens, Lexeme, TokenKind, ValueStart, Scalars
<1>2. CASE prim # "int8"
    <2>1. PICK word \in {"true", "false"} : tok = [kind |-> "bool", text |-> word]
        BY <1>2 DEF PrimTokens
    <2>2. word \in Text
        BY TextAssumption
    <2> QED
        BY <2>1, <2>2 DEF Lexeme, TokenKind, ValueStart, Scalars
<1> QED
    BY <1>1, <1>2

\* Bytes and their low bits are numbers.
LEMMA ByteFacts ==
    \A byte \in Byte : byte \in Nat /\ byte % 16 \in Nat /\ byte % 128 \in Nat
BY DEF Byte

\* A size or an index that has been read is a number, and the data after it is
\* the rest.
LEMMA VarFacts ==
    ASSUME data \in Seq(Byte), NEW n \in DOMAIN data, VarEnds(data, n)
    PROVE  VarValue(data, n) \in Nat /\ Drop(n) \in Seq(Byte)
<1>1. n \in 1 .. Len(data) /\ Len(data) \in Nat /\ n <= 5
    BY LenProperties DEF VarEnds
<1>2. ASSUME NEW i \in 1 .. 5
      PROVE  VarDigit(data, n, i) \in Nat
    <2>1. CASE i > n
        BY <2>1 DEF VarDigit
    <2>2. CASE ~(i > n)
        <3>1. i \in 1 .. Len(data)
            BY <1>1, <2>2
        <3>2. data[i] \in Byte
            BY <3>1, ElementOfSeq
        <3>3. Pow128[i] \in Nat
            BY DEF Pow128
        <3> DEFINE base == IF i = 5 THEN 16 ELSE 128
        <3>4. data[i] % base \in Nat
            BY <3>2, ByteFacts
        <3>5. (data[i] % base) * Pow128[i] \in Nat
            <4> DEFINE a == data[i] % base
                       b == Pow128[i]
            <4> HIDE DEF a, b, base
            <4> QED
                BY <3>3, <3>4 DEF a, b
        <3> QED
            BY <2>2, <3>5 DEF VarDigit
    <2> QED
        BY <2>1, <2>2
<1>3. VarValue(data, n) \in Nat
    <2>1. /\ VarDigit(data, n, 1) \in Nat /\ VarDigit(data, n, 2) \in Nat
          /\ VarDigit(data, n, 3) \in Nat /\ VarDigit(data, n, 4) \in Nat
          /\ VarDigit(data, n, 5) \in Nat
        BY <1>2
    <2> QED
        BY <2>1, SMTT(30) DEF VarValue
<1>4. Drop(n) \in Seq(Byte)
    <2>1. \A i \in n + 1 .. Len(data) : data[i] \in Byte
        BY <1>1, ElementOfSeq
    <2> QED
        BY <1>1, <2>1, SubSeqProperties DEF Drop
<1> QED
    BY <1>3, <1>4

\* A part of a struct or a variant.
LEMMA FieldFacts ==
    ASSUME NEW t \in Type, NEW i \in Nat, i < Len(Fields[t])
    PROVE  /\ i + 1 \in DOMAIN Fields[t]
           /\ Fields[t][i + 1].name \in Text /\ Fields[t][i + 1].type \in Type
<1>1. Fields[t] \in Seq(Field)
    BY AbiAssumption
<1>2. i + 1 \in 1 .. Len(Fields[t])
    BY <1>1, LenProperties
<1>3. Fields[t][i + 1] \in Field
    BY <1>1, <1>2, ElementOfSeq
<1> QED
    BY <1>1, <1>2, <1>3, LenProperties DEF Field

-----------------------------------------------------------------------------
(* Every step keeps the types.                                             *)

\* bin_to_json.
LEMMA BeginType ==
    ASSUME TypeInv, NEW b \in Blobs, Begin(b)
    PROVE  TypeInv'
<1>1. b.data \in Seq(Byte) /\ b.type \in Type
    BY BlobsAssumption
<1>2. stack = <<>> /\ GoodStack(stack) /\ text \in Seq(Lexeme) /\ skipped \in BOOLEAN
    BY DEF TypeInv, TypeOK, GoodStack, Begin
<1>3. call' \in Call
    BY <1>1, CallFacts DEF Begin
<1>4. Len(stack) <= MaxStack
    BY <1>2, MaxStackAssumption, EmptySeq
<1> QED
    BY <1>1, <1>2, <1>3, <1>4, TypeStep DEF Begin, Status

\* A value without parts: the primitives.
LEMMA StartPrimitiveType ==
    ASSUME TypeInv, NEW prim \in DOMAIN TokenFor, StartPrimitive(prim)
    PROVE  TypeInv'
<1>1. CASE Fail("overrun")
    BY <1>1, FailType DEF Errors
<1>2. CASE ~Fail("overrun")
    <2>1. PICK tok \in PrimTokens(prim, Head(data)) : text' = Append(text, tok)
        BY <1>2 DEF StartPrimitive
    <2>2. data # <<>> /\ Head(data) \in Byte /\ Tail(data) \in Seq(Byte)
        BY <1>2, TypeFacts, HeadTailProperties DEF StartPrimitive
    <2>3. text' \in Seq(Lexeme)
        BY <2>1, <2>2, PrimTokenFacts, TextType, TypeFacts
    <2> QED
        BY <1>2, <2>2, <2>3, TypeFacts, TypeStep DEF StartPrimitive, Start, Status
<1> QED
    BY <1>1, <1>2

\* The flag of an optional.
LEMMA StartOptionalType ==
    ASSUME TypeInv, StartOptional
    PROVE  TypeInv'
<1>1. CASE Fail("overrun")
    BY <1>1, FailType DEF Errors
<1>2. CASE ~Fail("overrun")
    <2>1. /\ data # <<>> /\ Tail(data) \in Seq(Byte)
          /\ status = "run" /\ call # NoCall /\ call.type \in Type /\ call.allow \in BOOLEAN
          /\ GoodStack(stack) /\ Len(stack) <= MaxStack
        BY <1>2, TypeFacts, HeadTailProperties DEF StartOptional, Start
    <2>2. Append(text, Mark("null")) \in Seq(Lexeme)
        BY LexemeFacts, TextType, TypeFacts DEF TokenKind, ValueStart, Scalars
    <2>3. [call EXCEPT !.type = Of[call.type]] \in Call
        BY <2>1, AbiAssumption, TypeFacts DEF Call
    <2>4. /\ text' \in Seq(Lexeme) /\ data' \in Seq(Byte)
          /\ call' \in Call \cup {NoCall}
          /\ stack' = stack /\ skipped' = skipped /\ status' = status
        BY <1>2, <2>1, <2>2, <2>3, TypeFacts DEF StartOptional
    <2> QED
        BY <2>1, <2>4, TypeFacts, TypeStep DEF Status
<1> QED
    BY <1>1, <1>2

\* An extension is its value.
LEMMA StartExtensionType ==
    ASSUME TypeInv, StartExtension
    PROVE  TypeInv'
<1>1. /\ status = "run" /\ call # NoCall /\ call.type \in Type
      /\ Len(stack) <= MaxStack
    BY TypeFacts DEF StartExtension, Start
<1>2. [call EXCEPT !.type = Of[call.type]] \in Call
    BY <1>1, AbiAssumption, TypeFacts DEF Call
<1> QED
    BY <1>1, <1>2, TypeFacts, TypeStep DEF StartExtension, Status

\* An entry for the call, of the size that has been read.
LEMMA NewEntryFacts ==
    ASSUME call.type \in Type, call.allow \in BOOLEAN, NEW size \in Nat
    PROVE  /\ NewEntry \in Entry /\ NewEntry.type = call.type /\ NewEntry.position = -1
           /\ [NewEntry EXCEPT !.allow = FALSE, !.size = size] \in Entry
           /\ [NewEntry EXCEPT !.allow = FALSE, !.size = size].type = call.type
           /\ [NewEntry EXCEPT !.allow = FALSE, !.size = size].position = -1
BY DEF NewEntry, Entry

\* A struct or a variant gets an entry.
LEMMA StartObjectType ==
    ASSUME TypeInv, StartObject \/ StartVariant
    PROVE  TypeInv'
<1>1. /\ status = "run" /\ call # NoCall /\ call.type \in Type /\ call.allow \in BOOLEAN
      /\ Len(stack) <= MaxStack /\ GoodStack(stack)
      /\ Ser[call.type] \in Containers
    BY TypeFacts DEF StartObject, StartVariant, Start, Containers
<1>2. NewEntry \in Entry /\ NewEntry.type = call.type
    BY <1>1, NewEntryFacts
<1>3. stack' = Push(stack, NewEntry)
    BY DEF StartObject, StartVariant, Push
<1>4. GoodStack(stack')
    BY <1>1, <1>2, <1>3, GoodPush
<1>5. text' \in Seq(Lexeme)
    BY LexemeFacts, TextType, TypeFacts
       DEF StartObject, StartVariant, TokenKind, ValueStart
<1> QED
    BY <1>1, <1>4, <1>5, TypeFacts, TypeStep DEF StartObject, StartVariant, Status

\* The sizes that cannot be read.
LEMMA NoVarType ==
    ASSUME TypeInv, NoVar
    PROVE  TypeInv'
BY FailType DEF NoVar, Errors

\* An array reads its size and gets an entry.
LEMMA StartArrayType ==
    ASSUME TypeInv, StartArray
    PROVE  TypeInv'
<1>1. CASE NoVar
    BY <1>1, NoVarType
<1>2. CASE ~NoVar
    <2>1. PICK n \in DOMAIN data :
             /\ VarEnds(data, n)
             /\ data' = Drop(n)
             /\ stack' = Append(stack, [NewEntry EXCEPT !.allow = FALSE,
                                                        !.size = VarValue(data, n)])
             /\ text' = Append(text, Mark("start_array"))
             /\ call' = NoCall
             /\ UNCHANGED <<skipped, status>>
        BY <1>2 DEF StartArray
    <2>2. /\ status = "run" /\ call # NoCall /\ call.type \in Type /\ call.allow \in BOOLEAN
          /\ Len(stack) <= MaxStack /\ GoodStack(stack)
          /\ Ser[call.type] \in Containers
        BY TypeFacts DEF StartArray, Start, Containers
    <2>3. VarValue(data, n) \in Nat /\ Drop(n) \in Seq(Byte)
        BY <2>1, TypeFacts, VarFacts
    <2> DEFINE e == [NewEntry EXCEPT !.allow = FALSE, !.size = VarValue(data, n)]
    <2>4. e \in Entry /\ e.type = call.type
        BY <2>2, <2>3, NewEntryFacts
    <2>5. stack' = Push(stack, e)
        BY <2>1 DEF Push
    <2> HIDE DEF e
    <2>6. GoodStack(stack')
        BY <2>2, <2>4, <2>5, GoodPush
    <2>7. text' \in Seq(Lexeme)
        BY <2>1, LexemeFacts, TextType, TypeFacts DEF TokenKind, ValueStart
    <2> QED
        BY <2>1, <2>2, <2>3, <2>6, <2>7, TypeFacts, TypeStep DEF Status
<1> QED
    BY <1>1, <1>2

\* Before a resume.
LEMMA ResumeFacts ==
    ASSUME TypeInv, NEW ser, Resume(ser)
    PROVE  /\ status = "run" /\ call = NoCall /\ stack # <<>>
           /\ GoodStack(stack) /\ Len(stack) <= MaxStack
           /\ Top = Last(stack) /\ Top \in Entry /\ Top.type \in Type /\ Top.allow \in BOOLEAN
           /\ Top.position + 1 \in Nat /\ Top.position \in Nat \cup {-1} /\ Top.size \in Nat
           /\ Ser[Top.type] = ser
<1>1. /\ status = "run" /\ call = NoCall /\ stack # <<>>
      /\ GoodStack(stack) /\ Len(stack) <= MaxStack
      /\ Top = Last(stack) /\ Ser[Top.type] = ser
    BY TypeFacts DEF Resume, Top
<1> QED
    BY <1>1, GoodTop

\* The entry on top moves on, and may call for a value.
LEMMA MoveType ==
    ASSUME TypeInv, NEW ser, Resume(ser), NEW position \in Nat,
           stack' = WithTopEntry([Top EXCEPT !.position = position]),
           data' \in Seq(Byte), text' \in Seq(Lexeme), skipped' \in BOOLEAN, status' = status,
           call' \in Call \cup {NoCall}
    PROVE  TypeInv'
<1>1. GoodStack(stack') /\ Len(stack') = Len(stack)
    BY ResumeFacts, GoodMove DEF WithTopEntry
<1> QED
    BY <1>1, ResumeFacts, TypeFacts, TypeStep DEF Status

\* An entry that is done with is popped.
LEMMA EndType ==
    ASSUME TypeInv, NEW ser, Resume(ser), NEW kind \in TokenKind,
           text' = Append(text, Mark(kind)), stack' = Front(stack),
           UNCHANGED <<data, call, skipped, status>>
    PROVE  TypeInv'
<1>1. GoodStack(stack')
    BY ResumeFacts, GoodPop
<1>2. text' \in Seq(Lexeme)
    BY LexemeFacts, TextType, TypeFacts
<1> QED
    BY <1>1, <1>2, ResumeFacts, TypeFacts, TypeStep DEF Status

\* A comma, unless it is the first part.
LEMMA CommaType ==
    ASSUME NEW t \in Seq(Lexeme), NEW position \in Nat
    PROVE  /\ t \o Comma(position) = IF position = 0 THEN t ELSE Append(t, Mark("comma"))
           /\ t \o Comma(position) \in Seq(Lexeme)
<1>1. Mark("comma") \in Lexeme
    BY LexemeFacts
<1>2. t \o <<>> = t /\ t \o <<Mark("comma")>> = Append(t, Mark("comma"))
    BY <1>1, ConcatEmptySeq, AppendIsConcat
<1> QED
    BY <1>1, <1>2, TextType DEF Comma

\* Two lexemes written at once.
LEMMA TwoLexemes ==
    ASSUME NEW t \in Seq(Lexeme), NEW a \in Lexeme, NEW b \in Lexeme
    PROVE  /\ t \o <<a, b>> = Append(Append(t, a), b)
           /\ t \o <<a, b>> \in Seq(Lexeme)
<1>1. Append(t, a) = t \o <<a>> /\ Append(t, a) \in Seq(Lexeme)
    BY AppendIsConcat, AppendProperties
<1>2. Append(Append(t, a), b) = (t \o <<a>>) \o <<b>> /\ Append(Append(t, a), b) \in Seq(Lexeme)
    BY <1>1, AppendIsConcat, AppendProperties
<1>3. (t \o <<a>>) \o <<b>> = t \o (<<a>> \o <<b>>)
    BY <1>1, ConcatAssociative, <<a>> \in Seq(Lexeme), <<b>> \in Seq(Lexeme)
<1>4. <<a>> \o <<b>> = <<a, b>>
    <2>1. <<a>> \o <<b>> = Append(<<a>>, b)
        BY AppendIsConcat, <<a>> \in Seq(Lexeme)
    <2> DEFINE u == Append(<<a>>, b)
    <2>2. /\ u \in Seq(Lexeme) /\ Len(u) = 2
          /\ u[1] = a /\ u[2] = b
        BY AppendProperties, <<a>> \in Seq(Lexeme), Len(<<a>>) = 1, <<a>>[1] = a, 1 \in 1 .. 1
    <2>3. <<a, b>> \in Seq(Lexeme) /\ Len(<<a, b>>) = 2
        OBVIOUS
    <2> HIDE DEF u
    <2>4. u = <<a, b>>
        BY <2>2, <2>3, SeqEqual
    <2> QED
        BY <2>1, <2>4 DEF u
<1> QED
    BY <1>2, <1>3, <1>4

\* A member, a binary extension left out, or the end of a struct.
LEMMA ResumeObjectType ==
    ASSUME TypeInv, ResumeObject
    PROVE  TypeInv'
<1> DEFINE fields == Fields[Top.type]
           position == Top.position + 1
           field == fields[position + 1]
           leftOut == data = <<>> /\ IsExtension(field.type) /\ Top.allow
<1>1. /\ Resume("object") /\ Top.type \in Type /\ Top.allow \in BOOLEAN /\ position \in Nat
    BY ResumeFacts DEF ResumeObject
<1>2. CASE /\ position < Len(fields) /\ leftOut
           /\ stack' = WithTopEntry([Top EXCEPT !.position = position])
           /\ skipped' = TRUE
           /\ UNCHANGED <<data, text, call, status>>
    BY <1>1, <1>2, ResumeFacts, TypeFacts, MoveType
<1>3. CASE /\ position < Len(fields)
           /\ text' = text \o Comma(position) \o <<Named("key", field.name), Mark("colon")>>
           /\ stack' = WithTopEntry([Top EXCEPT !.position = position])
           /\ call' = [type |-> field.type, allow |-> Top.allow /\ position + 1 = Len(fields)]
           /\ UNCHANGED <<data, skipped, status>>
    <2>1. field.name \in Text /\ field.type \in Type
        BY <1>1, <1>3, FieldFacts
    <2>2. call' \in Call
        BY <1>1, <1>3, <2>1, CallFacts
    <2>3. /\ Named("key", field.name) \in Lexeme /\ Mark("colon") \in Lexeme
          /\ text \o Comma(position) \in Seq(Lexeme)
        BY <1>1, <2>1, TypeFacts, LexemeFacts, CommaType DEF TokenKind
    <2> HIDE DEF field, fields, position
    <2>4. text' \in Seq(Lexeme)
        BY <1>3, <2>3, TwoLexemes
    <2> QED
        BY <1>1, <1>3, <2>2, <2>4, TypeFacts, MoveType
<1>4. CASE /\ text' = Append(text, Mark("end_object"))
           /\ stack' = Front(stack)
           /\ UNCHANGED <<data, call, skipped, status>>
    BY <1>1, <1>4, EndType DEF TokenKind
<1> QED
    BY <1>2, <1>3, <1>4 DEF ResumeObject

\* An element, or the end of an array.
LEMMA ResumeArrayType ==
    ASSUME TypeInv, ResumeArray
    PROVE  TypeInv'
<1> DEFINE position == Top.position + 1
<1>1. Resume("array") /\ Top.type \in Type /\ position \in Nat
    BY ResumeFacts DEF ResumeArray
<1>2. CASE /\ text' = text \o Comma(position)
           /\ stack' = WithTopEntry([Top EXCEPT !.position = position])
           /\ call' = [type |-> Of[Top.type], allow |-> FALSE]
           /\ UNCHANGED <<data, skipped, status>>
    <2>1. call' \in Call
        BY <1>1, <1>2, AbiAssumption, CallFacts
    <2>2. text' \in Seq(Lexeme)
        BY <1>1, <1>2, TypeFacts, CommaType
    <2> QED
        BY <1>1, <1>2, <2>1, <2>2, TypeFacts, MoveType
<1>3. CASE /\ text' = Append(text, Mark("end_array"))
           /\ stack' = Front(stack)
           /\ UNCHANGED <<data, call, skipped, status>>
    BY <1>1, <1>3, EndType DEF TokenKind
<1> QED
    BY <1>2, <1>3 DEF ResumeArray

\* The alternative of a variant, its value, or the end of a variant.
LEMMA ResumeVariantType ==
    ASSUME TypeInv, ResumeVariant
    PROVE  TypeInv'
<1>1. Resume("variant") /\ Top.type \in Type /\ Top.allow \in BOOLEAN
    BY ResumeFacts DEF ResumeVariant
<1>2. ASSUME NEW n \in DOMAIN data, VariantName(n)
      PROVE  TypeInv'
    <2> DEFINE alternatives == Fields[Top.type]
               index == VarValue(data, n)
    <2>1. index \in Nat /\ Drop(n) \in Seq(Byte)
        BY <1>2, TypeFacts, VarFacts DEF VariantName
    <2>2. CASE /\ index < Len(alternatives)
               /\ data' = Drop(n)
               /\ text' = text \o <<Named("string", alternatives[index + 1].name), Mark("comma")>>
               /\ stack' = WithTopEntry([Top EXCEPT !.position = 0])
               /\ call' = [type |-> alternatives[index + 1].type, allow |-> Top.allow]
               /\ UNCHANGED <<skipped, status>>
        <3>1. alternatives[index + 1].name \in Text /\ alternatives[index + 1].type \in Type
            BY <1>1, <2>1, <2>2, FieldFacts
        <3>2. call' \in Call
            BY <1>1, <2>2, <3>1, CallFacts
        <3>3. Named("string", alternatives[index + 1].name) \in Lexeme /\ Mark("comma") \in Lexeme
            BY <3>1, LexemeFacts DEF TokenKind, ValueStart, Scalars
        <3> HIDE DEF alternatives, index
        <3>4. text' \in Seq(Lexeme)
            BY <2>2, <3>3, TypeFacts, TwoLexemes
        <3> QED
            BY <1>1, <2>1, <2>2, <3>2, <3>4, TypeFacts, MoveType
    <2>3. CASE Fail("bad_variant_index")
        BY <2>3, FailType DEF Errors
    <2> QED
        BY <1>2, <2>2, <2>3 DEF VariantName
<1>3. CASE NoVar
    BY <1>3, NoVarType
<1>4. CASE /\ text' = Append(text, Mark("end_array"))
           /\ stack' = Front(stack)
           /\ UNCHANGED <<data, call, skipped, status>>
    BY <1>1, <1>4, EndType DEF TokenKind
<1> QED
    BY <1>2, <1>3, <1>4 DEF ResumeVariant

\* The end of the loop.
LEMMA EndOfLoopType ==
    ASSUME TypeInv, EndOfLoop
    PROVE  TypeInv'
BY DEF TypeInv, TypeOK, EndOfLoop, Status, Errors, Pending

\* TypeInv is inductive.
LEMMA NextType == TypeInv /\ [Next]_vars => TypeInv'
<1> SUFFICES ASSUME TypeInv, [Next]_vars PROVE TypeInv'
    OBVIOUS
<1>1. CASE \E b \in Blobs : Begin(b)
    BY <1>1, BeginType
<1>2. CASE \E prim \in DOMAIN TokenFor : StartPrimitive(prim)
    BY <1>2, StartPrimitiveType
<1>3. CASE StartOptional
    BY <1>3, StartOptionalType
<1>4. CASE StartExtension
    BY <1>4, StartExtensionType
<1>5. CASE StartObject \/ StartVariant
    BY <1>5, StartObjectType
<1>6. CASE StartArray
    BY <1>6, StartArrayType
<1>7. CASE ResumeObject
    BY <1>7, ResumeObjectType
<1>8. CASE ResumeArray
    BY <1>8, ResumeArrayType
<1>9. CASE ResumeVariant
    BY <1>9, ResumeVariantType
<1>10. CASE StackOverflow
    BY <1>10, FailType DEF StackOverflow, Errors
<1>11. CASE EndOfLoop
    BY <1>11, EndOfLoopType
<1>12. CASE UNCHANGED vars
    BY <1>12 DEF vars, TypeInv, TypeOK, Pending
<1> QED
    BY <1>1, <1>2, <1>3, <1>4, <1>5, <1>6, <1>7, <1>8, <1>9, <1>10, <1>11, <1>12
       DEF Next, Step, Terminated

\* TypeInv holds at first.
LEMMA InitType == Init => TypeInv
<1> SUFFICES ASSUME Init PROVE TypeInv
    OBVIOUS
<1>1. data \in Seq(Byte) /\ stack \in Seq(Entry) /\ text \in Seq(Lexeme) /\ Len(stack) = 0
    BY EmptySeq DEF Init
<1>2. TypeOK
    <2>1. Len(stack) <= MaxStack + 1
        BY <1>1, MaxStackAssumption
    <2> QED
        BY <1>1, <2>1 DEF Init, TypeOK, Status
<1>3. \A i \in 1 .. Len(stack) : Ser[stack[i].type] \in Containers
    BY <1>1
<1> QED
    BY <1>2, <1>3 DEF Init, TypeInv

\* The decoder's state has its types, and its stack exceeds the depth limit by
\* one entry at most, whatever the data and the ABI (max_stack_size).
THEOREM TypeCorrect == Spec => []TypeOK
<1>1. TypeInv => TypeOK
    BY DEF TypeInv
<1> QED
    BY <1>1, InitType, NextType, PTL DEF Spec

-----------------------------------------------------------------------------
(* The text is JSON as far as it goes.                                     *)

\* Which lexeme may follow which, by the one that follows.
LEMMA FollowsFacts ==
    ASSUME NEW prev
    PROVE  /\ \A kind \in ValueStart :
                  prev \in {"colon", "start_array", "comma"} => Follows(prev, kind)
           /\ prev \in EndsValue => Follows(prev, "comma")
           /\ prev \in EndsValue \cup {"start_object"} => Follows(prev, "end_object")
           /\ prev \in EndsValue \cup {"start_array"} => Follows(prev, "end_array")
           /\ prev \in {"start_object", "comma"} => Follows(prev, "key")
           /\ prev = "key" => Follows(prev, "colon")
BY DEF Follows, ValueStart, Scalars

\* What a reader makes of each kind of lexeme.
LEMMA AfterFacts ==
    ASSUME NEW open, NEW lexeme
    PROVE  /\ lexeme.kind \in Punctuation => After(open, lexeme) = open
           /\ lexeme.kind \in Scalars =>
                After(open, lexeme) = WithTop(open, AfterValue[Last(open)])
           /\ lexeme.kind \in {"start_object", "start_array"} =>
                After(open, lexeme) =
                    Push(WithTop(open, AfterValue[Last(open)]), Inside(lexeme.kind))
           /\ lexeme.kind = "key" => After(open, lexeme) = WithTop(open, "value")
           /\ lexeme.kind \in {"end_object", "end_array"} => After(open, lexeme) = Front(open)
BY DEF After, Advance, Punctuation, Scalars, Push

\* What holds of a run.
LEMMA TextFacts ==
    ASSUME TypeInv, TextInv, status = "run"
    PROVE  /\ Reads(text, OpenNow)
           /\ stack \in Seq(Entry)
           /\ Levels(OpenNow, stack, Pending)
           /\ PartsBegun(stack, Pending)
           /\ Pending => BeforeValue
           /\ ~Pending /\ stack # <<>> => BetweenParts(Top)
           /\ Pending \in BOOLEAN
BY DEF TextInv, JsonSoFar, Reads, OpenNow, TypeInv, TypeOK, Pending

\* What a step of a run has to leave behind.
LEMMA TextStep ==
    ASSUME status' = "run", NEW open, Reads(text', open), NEW p \in BOOLEAN, Pending' = p,
           Levels(open, stack', p), PartsBegun(stack', p),
           p => BeforeValue',
           ~p /\ stack' # <<>> => BetweenParts(Top)'
    PROVE  TextInv'
<1>1. OpenNow' = open /\ JsonSoFar'
    BY DEF Reads, OpenNow, JsonSoFar
<1>2. Levels(OpenNow, stack, Pending)'
    BY <1>1 DEF Levels, ContextOf
<1>3. PartsBegun(stack, Pending)'
    BY DEF PartsBegun
<1> QED
    BY <1>1, <1>2, <1>3 DEF TextInv

\* A run that ends with an error promises nothing about the text.
LEMMA FailText ==
    ASSUME NEW error \in Errors, Fail(error)
    PROVE  TextInv'
BY DEF TextInv, Fail, Errors

\* The empty text.
LEMMA EmptyText == Reads(<<>>, <<"root">>)
<1>1. <<>> \in Seq(Lexeme) /\ Len(<<>>) = 0
    BY EmptySeq
<1>2. Contexts(<<>>)[0] = <<"root">>
    BY <1>1, ContextsFacts
<1> QED
    BY <1>1, <1>2 DEF Reads, Punctuated, Accepted

\* bin_to_json.
LEMMA BeginText ==
    ASSUME TypeInv, NEW b \in Blobs, Begin(b)
    PROVE  TextInv'
<1>1. stack' = <<>> /\ text' = <<>> /\ status' = "run"
    BY DEF TypeInv, Begin
<1>2. Pending'
    BY BlobsAssumption, CallFacts DEF Begin, Pending
<1>3. Levels(<<"root">>, <<>>, TRUE)
    <2>1. <<"root">> \in Seq(Context) /\ Len(<<"root">>) = 1 /\ Len(<<>>) = 0
        BY EmptySeq DEF Context
    <2> QED
        BY <2>1 DEF Levels
<1>4. PartsBegun(<<>>, TRUE)
    BY EmptySeq DEF PartsBegun
<1>5. BeforeValue'
    BY <1>1 DEF BeforeValue
<1>6. Pending' = TRUE
    BY <1>2 DEF Pending
<1> QED
    BY <1>1, <1>3, <1>4, <1>5, <1>6, EmptyText, TextStep

\* Another start of the value that is wanted.
LEMMA CallText ==
    ASSUME TypeInv, TextInv, status = "run", Pending, Pending',
           UNCHANGED <<stack, text, status>>
    PROVE  TextInv'
<1>1. Pending = TRUE /\ Pending' = TRUE
    BY DEF Pending
<1>2. BeforeValue'
    BY TextFacts DEF BeforeValue
<1>3. /\ Reads(text', OpenNow) /\ Levels(OpenNow, stack', TRUE)
      /\ PartsBegun(stack', TRUE)
    BY <1>1, TextFacts
<1> QED
    BY <1>1, <1>2, <1>3, TextStep

\* When a value is wanted, the entries have begun the part it is for.
LEMMA BegunFacts ==
    ASSUME NEW st, GoodStack(st), PartsBegun(st, TRUE)
    PROVE  PartsBegun(st, FALSE) /\ (st # <<>> => Last(st).position >= 0)
<1>1. PartsBegun(st, FALSE)
    BY DEF PartsBegun
<1>2. st # <<>> => Last(st).position >= 0
    BY GoodTop DEF PartsBegun
<1> QED
    BY <1>1, <1>2

\* The last lexeme of a value stands between the parts of the entry on top.
LEMMA ValueBetween ==
    ASSUME text' # <<>>, Last(text').kind \in EndsValue,
           stack' # <<>>, Last(stack').position >= 0
    PROVE  BetweenParts(Top)'
BY DEF BetweenParts, Top

\* A scalar that is written is the value that was wanted.
LEMMA ScalarText ==
    ASSUME TypeInv, TextInv, status = "run", Pending,
           NEW lexeme \in Lexeme, lexeme.kind \in Scalars,
           text' = Append(text, lexeme), call' = NoCall, UNCHANGED <<stack, status>>
    PROVE  TextInv'
<1> DEFINE open == After(OpenNow, lexeme)
<1>1. Pending = TRUE /\ Pending' = FALSE
    BY DEF Pending
<1>2. /\ Reads(text, OpenNow) /\ Levels(OpenNow, stack, TRUE) /\ PartsBegun(stack, TRUE)
      /\ text = <<>> \/ Last(text).kind \in {"colon", "start_array", "comma"}
      /\ GoodStack(stack) /\ stack \in Seq(Entry)
    BY <1>1, TextFacts, TypeFacts DEF BeforeValue
<1>3. lexeme.kind \in ValueStart
    BY DEF ValueStart
<1>4. /\ Reads(text', open) /\ text' # <<>> /\ Last(text') = lexeme
    BY <1>2, <1>3, LevelsRead, FollowsFacts, WriteFacts
<1>5. Levels(open, stack', FALSE)
    <2>1. open = WithTop(OpenNow, AfterValue[Last(OpenNow)])
        BY AfterFacts
    <2>2. Levels(WithTop(OpenNow, AfterValue[Last(OpenNow)]), stack, FALSE)
        BY <1>2, LevelsRead
    <2> QED
        BY <2>1, <2>2
<1>6. PartsBegun(stack', FALSE) /\ (stack # <<>> => Last(stack).position >= 0)
    BY <1>2, BegunFacts
<1>7. stack' # <<>> => BetweenParts(Top)'
    BY <1>4, <1>6, ValueBetween DEF EndsValue, Scalars
<1> HIDE DEF open
<1> QED
    BY <1>1, <1>4, <1>5, <1>6, <1>7, TextStep

\* What is on the stack once an entry is pushed.
LEMMA EntryPushed ==
    ASSUME NEW st \in Seq(Entry), NEW e \in Entry
    PROVE  /\ Push(st, e) # <<>> /\ Len(st) \in Nat /\ Len(Push(st, e)) = Len(st) + 1
           /\ Push(st, e)[Len(st) + 1] = e
           /\ \A i \in 1 .. Len(st) : Push(st, e)[i] = st[i]
BY PushFacts

\* The bracket that opens a container.
LEMMA ContainerText ==
    ASSUME TypeInv, TextInv, status = "run", Pending,
           NEW e \in Entry, e.position = -1, stack' = Push(stack, e),
           text' = Append(text, Mark(Opening(e))), call' = NoCall, status' = status
    PROVE  TextInv'
<1> DEFINE lexeme == Mark(Opening(e))
           open == After(OpenNow, lexeme)
           read == WithTop(OpenNow, AfterValue[Last(OpenNow)])
<1>1. Pending = TRUE /\ Pending' = FALSE
    BY DEF Pending
<1>2. /\ Reads(text, OpenNow) /\ Levels(OpenNow, stack, TRUE) /\ PartsBegun(stack, TRUE)
      /\ text = <<>> \/ Last(text).kind \in {"colon", "start_array", "comma"}
      /\ GoodStack(stack) /\ stack \in Seq(Entry)
    BY <1>1, TextFacts, TypeFacts DEF BeforeValue
<1>3. /\ lexeme \in Lexeme /\ lexeme.kind = Opening(e)
      /\ Opening(e) \in ValueStart /\ Opening(e) \in {"start_object", "start_array"}
    BY LexemeFacts DEF Opening, TokenKind, ValueStart
<1>4. Inside(lexeme.kind) = IF Ser[e.type] = "object" THEN "key" ELSE "array"
    BY <1>3 DEF Inside, Opening
<1> HIDE DEF lexeme
<1>5. Reads(text', open) /\ text' # <<>> /\ Last(text') = lexeme
    BY <1>2, <1>3, LevelsRead, FollowsFacts, WriteFacts DEF lexeme
<1>6. open = Push(read, Inside(lexeme.kind)) /\ Levels(read, stack, FALSE)
    BY <1>2, <1>3, LevelsRead, AfterFacts
<1> HIDE DEF open, read
<1>7. Levels(open, stack', FALSE)
    BY <1>2, <1>4, <1>6, LevelsPush
<1>8. /\ stack' # <<>> /\ Len(stack) \in Nat /\ Len(stack') = Len(stack) + 1
      /\ stack'[Len(stack) + 1] = e /\ \A i \in 1 .. Len(stack) : stack'[i] = stack[i]
    <2> DEFINE pushed == Push(stack, e)
    <2>1. /\ pushed # <<>> /\ Len(stack) \in Nat /\ Len(pushed) = Len(stack) + 1
          /\ pushed[Len(stack) + 1] = e /\ \A i \in 1 .. Len(stack) : pushed[i] = stack[i]
        <3>1. stack \in Seq(Entry)
            BY <1>2
        <3> QED
            BY <3>1, EntryPushed
    <2>2. stack' = pushed
        OBVIOUS
    <2> HIDE DEF pushed
    <2> QED
        BY <2>1, <2>2
<1>9. Last(stack') = e
    BY <1>8 DEF Last
<1>10. PartsBegun(stack', FALSE)
    <2> SUFFICES ASSUME NEW i \in 1 .. Len(stack'), i < Len(stack')
                 PROVE  stack'[i].position >= 0
        BY DEF PartsBegun
    <2>1. i \in 1 .. Len(stack)
        BY <1>8
    <2> QED
        BY <1>2, <1>8, <2>1 DEF PartsBegun
<1>11. BetweenParts(Top)'
    BY <1>3, <1>5, <1>9 DEF BetweenParts, Top, Opening
<1> QED
    BY <1>1, <1>5, <1>7, <1>10, <1>11, TextStep

\* Before a resume: no value is wanted.
LEMMA ResumeText ==
    ASSUME TypeInv, TextInv, NEW ser, Resume(ser)
    PROVE  /\ Pending = FALSE /\ status = "run"
           /\ stack \in Seq(Entry) /\ GoodStack(stack) /\ stack # <<>>
           /\ Top = Last(stack) /\ Top.type \in Type /\ Ser[Top.type] = ser
           /\ Top.position \in Nat \cup {-1} /\ Top.position + 1 \in Nat
           /\ Reads(text, OpenNow) /\ Levels(OpenNow, stack, FALSE) /\ PartsBegun(stack, FALSE)
           /\ text # <<>> /\ text \in Seq(Lexeme)
           /\ Top.position = -1 => Last(text).kind = Opening(Top)
           /\ Top.position # -1 => Last(text).kind \in EndsValue \/ LeftOut(Top, Last(text).kind)
<1>1. /\ status = "run" /\ call = NoCall /\ stack # <<>> /\ GoodStack(stack)
      /\ Top = Last(stack) /\ Top.type \in Type /\ Ser[Top.type] = ser
      /\ Top.position \in Nat \cup {-1} /\ Top.position + 1 \in Nat
    BY ResumeFacts
<1>2. Pending = FALSE
    BY <1>1 DEF Pending
<1>3. /\ Reads(text, OpenNow) /\ stack \in Seq(Entry) /\ Levels(OpenNow, stack, FALSE)
      /\ PartsBegun(stack, FALSE) /\ BetweenParts(Top)
    BY <1>1, <1>2, TextFacts
<1> QED
    BY <1>1, <1>2, <1>3 DEF BetweenParts, Reads

\* The comma before the next part, unless it is the first.
LEMMA CommaText ==
    ASSUME TypeInv, TextInv, NEW ser, Resume(ser),
           Top.position # -1 => Last(text).kind \in EndsValue,
           NEW before, before = text \o Comma(Top.position + 1)
    PROVE  /\ Reads(before, OpenNow) /\ before # <<>>
           /\ Last(before).kind \in {Opening(Top), "comma"}
<1> DEFINE comma == Mark("comma")
<1>1. /\ text \in Seq(Lexeme) /\ text # <<>> /\ Reads(text, OpenNow)
      /\ Top.position \in Nat \cup {-1} /\ Top.position + 1 \in Nat
      /\ Top.position = -1 => Last(text).kind = Opening(Top)
    BY ResumeText
<1>2. before = IF Top.position + 1 = 0 THEN text ELSE Append(text, comma)
    BY <1>1, CommaType
<1>3. comma \in Lexeme /\ comma.kind = "comma" /\ comma.kind \in Punctuation
    BY LexemeFacts DEF Punctuation
<1> HIDE DEF comma
<1>4. CASE Top.position = -1
    <2>1. Top.position + 1 = 0
        BY <1>4
    <2>2. before = text
        BY <1>2, <2>1
    <2> QED
        BY <1>1, <1>4, <2>2
<1>5. CASE Top.position # -1
    <2>1. before = Append(text, comma)
        BY <1>1, <1>2, <1>5
    <2>2. Follows(Last(text).kind, comma.kind)
        BY <1>3, <1>5, FollowsFacts
    <2>3. After(OpenNow, comma) = OpenNow
        BY <1>3, AfterFacts
    <2> QED
        BY <1>1, <1>3, <2>1, <2>2, <2>3, WriteFacts
<1> QED
    BY <1>4, <1>5

\* The entry on top moves on, and its part has begun.
LEMMA MoveBegun ==
    ASSUME NEW st, GoodStack(st), st # <<>>, PartsBegun(st, FALSE), NEW position \in Nat,
           NEW e, e = [Last(st) EXCEPT !.position = position], NEW p \in BOOLEAN
    PROVE  PartsBegun([st EXCEPT ![Len(st)] = e], p)
<1> DEFINE moved == [st EXCEPT ![Len(st)] = e]
<1>1. /\ e.position = position /\ Len(moved) = Len(st) /\ moved # <<>>
      /\ Last(moved) = e /\ GoodStack(moved)
      /\ \A i \in 1 .. Len(st) : i < Len(st) => moved[i] = st[i]
    BY GoodMove
<1>2. moved[Len(st)] = e
    BY <1>1, GoodTop
<1> HIDE DEF moved
<1>3. Len(st) \in Nat
    BY LenProperties DEF GoodStack
<1>4. ASSUME NEW i \in 1 .. Len(st)
      PROVE  moved[i].position >= 0
    <2>1. CASE i < Len(st)
        BY <1>1, <2>1 DEF PartsBegun
    <2>2. CASE i = Len(st)
        <3>1. moved[i] = e
            BY <1>2, <2>2
        <3>2. e.position >= 0
            BY <1>1
        <3> QED
            BY <3>1, <3>2
    <2> QED
        BY <1>3, <2>1, <2>2
<1> QED
    BY <1>1, <1>4 DEF PartsBegun, moved

\* The same for the step that does it.
LEMMA MoveFacts ==
    ASSUME GoodStack(stack), stack # <<>>, PartsBegun(stack, FALSE), NEW position \in Nat,
           stack' = WithTopEntry([Top EXCEPT !.position = position])
    PROVE  \E e \in Entry :
              /\ e.type = Top.type /\ e.position = position /\ e.allow = Top.allow
              /\ stack' = [stack EXCEPT ![Len(stack)] = e]
              /\ stack' # <<>> /\ Last(stack') = e
              /\ \A p \in BOOLEAN : PartsBegun(stack', p)
<1>1. PICK e : e = [Last(stack) EXCEPT !.position = position]
    OBVIOUS
<1> DEFINE moved == [stack EXCEPT ![Len(stack)] = e]
<1>2. /\ e \in Entry /\ e.type = Last(stack).type /\ e.position = position
      /\ e.allow = Last(stack).allow
      /\ moved # <<>> /\ Last(moved) = e
    BY <1>1, GoodMove
<1>3. \A p \in BOOLEAN : PartsBegun(moved, p)
    BY <1>1, MoveBegun
<1>4. stack' = moved
    BY <1>1 DEF WithTopEntry, Top
<1> HIDE DEF moved
<1>5. /\ stack' # <<>> /\ Last(stack') = e
      /\ \A p \in BOOLEAN : PartsBegun(stack', p)
    BY <1>2, <1>3, <1>4
<1>6. stack' = [stack EXCEPT ![Len(stack)] = e]
    BY <1>4 DEF moved
<1> QED
    BY <1>2, <1>5, <1>6 DEF Top

\* The end of a container is the value that was wanted below it.
LEMMA EndText ==
    ASSUME TypeInv, TextInv, NEW ser, Resume(ser), NEW kind,
           kind = IF Ser[Top.type] = "object" THEN "end_object" ELSE "end_array",
           text' = Append(text, Mark(kind)), stack' = Front(stack),
           UNCHANGED <<data, call, skipped, status>>
    PROVE  TextInv'
<1> DEFINE lexeme == Mark(kind)
           open == Front(OpenNow)
<1>1. /\ Pending = FALSE /\ status = "run"
      /\ stack \in Seq(Entry) /\ GoodStack(stack) /\ stack # <<>> /\ Top = Last(stack)
      /\ Reads(text, OpenNow) /\ Levels(OpenNow, stack, FALSE) /\ PartsBegun(stack, FALSE)
      /\ text # <<>>
      /\ Top.position = -1 => Last(text).kind = Opening(Top)
      /\ Top.position # -1 => Last(text).kind \in EndsValue \/ LeftOut(Top, Last(text).kind)
    BY ResumeText
<1>2. lexeme \in Lexeme /\ lexeme.kind = kind
    BY LexemeFacts DEF TokenKind
<1>3. Follows(Last(text).kind, kind)
    BY <1>1, FollowsFacts DEF LeftOut, Opening
<1>4. Expects(Last(OpenNow), kind)
    <2>1. Last(OpenNow) = IF Ser[Top.type] # "object" THEN "array" ELSE "key"
        <3>1. Last(OpenNow) = ContextOf(stack, Len(stack), FALSE) /\ Last(stack) = stack[Len(stack)]
            BY <1>1, TopLevel
        <3> QED
            BY <1>1, <3>1 DEF ContextOf
    <2> QED
        BY <2>1 DEF Expects
<1>5. After(OpenNow, lexeme) = open
    BY <1>2, AfterFacts
<1> HIDE DEF lexeme
<1>6. Reads(text', open) /\ text' # <<>> /\ Last(text') = lexeme
    BY <1>1, <1>2, <1>3, <1>4, <1>5, WriteFacts DEF lexeme
<1>7. Levels(open, stack', FALSE)
    BY <1>1, LevelsPop
<1> HIDE DEF open
<1>8. PICK h \in Nat : /\ Len(stack) = h + 1 /\ Front(stack) \in Seq(Entry)
                       /\ Len(Front(stack)) = h
                       /\ \A i \in 1 .. h : Front(stack)[i] = stack[i]
    BY <1>1, PopFacts
<1>9. \A i \in 1 .. h : stack'[i].position >= 0
    <2> SUFFICES ASSUME NEW i \in 1 .. h PROVE stack'[i].position >= 0
        OBVIOUS
    <2>1. i \in 1 .. Len(stack) /\ i < Len(stack)
        BY <1>8
    <2> QED
        BY <1>1, <1>8, <2>1 DEF PartsBegun
<1>10. PartsBegun(stack', FALSE)
    BY <1>8, <1>9 DEF PartsBegun
<1>11. stack' # <<>> => BetweenParts(Top)'
    <2> SUFFICES ASSUME stack' # <<>> PROVE BetweenParts(Top)'
        OBVIOUS
    <2>1. stack' \in Seq(Entry)
        BY <1>8
    <2>2. Last(stack') = stack'[h] /\ h \in 1 .. h
        BY <1>8, <2>1, NonEmpty DEF Last
    <2> QED
        BY <1>2, <1>6, <1>9, <2>2, ValueBetween DEF EndsValue
<1>12. Pending' = FALSE
    BY <1>1 DEF Pending
<1> QED
    BY <1>1, <1>6, <1>7, <1>10, <1>11, <1>12, TextStep

\* Parts that are binary extensions may be left out if all parts after them are.
LEMMA LeaveOutText ==
    ASSUME TypeInv, TextInv, ExtensionsTrail, Resume("object"),
           NEW position, position = Top.position + 1,
           position < Len(Fields[Top.type]),
           data = <<>>, IsExtension(Fields[Top.type][position + 1].type), Top.allow,
           stack' = WithTopEntry([Top EXCEPT !.position = position]),
           UNCHANGED <<data, text, call, status>>
    PROVE  TextInv'
<1> DEFINE fields == Fields[Top.type]
<1>1. /\ Pending = FALSE /\ status = "run"
      /\ stack \in Seq(Entry) /\ GoodStack(stack) /\ stack # <<>> /\ Top = Last(stack)
      /\ Top.type \in Type /\ Ser[Top.type] = "object"
      /\ Top.position \in Nat \cup {-1} /\ position \in Nat
      /\ Reads(text, OpenNow) /\ Levels(OpenNow, stack, FALSE) /\ PartsBegun(stack, FALSE)
      /\ text # <<>>
      /\ Top.position = -1 => Last(text).kind = Opening(Top)
      /\ Top.position # -1 => Last(text).kind \in EndsValue \/ LeftOut(Top, Last(text).kind)
    BY ResumeText
<1>2. PICK e \in Entry :
         /\ e.type = Top.type /\ e.position = position /\ e.allow = Top.allow
         /\ stack' = [stack EXCEPT ![Len(stack)] = e] /\ stack' # <<>> /\ Last(stack') = e
         /\ \A p \in BOOLEAN : PartsBegun(stack', p)
    BY <1>1, MoveFacts
<1>3. PartsBegun(stack', FALSE)
    BY <1>2
<1>4. Levels(OpenNow, stack', FALSE)
    <2>1. Levels(OpenNow, [stack EXCEPT ![Len(stack)] = e], FALSE)
        BY <1>1, <1>2, LevelsMove
    <2> QED
        BY <1>2, <2>1
<1>5. Last(text).kind \in EndsValue \/ LeftOut(e, Last(text).kind)
    <2>1. CASE Top.position = -1
        <3>1. Last(text).kind = "start_object"
            BY <1>1, <2>1 DEF Opening
        <3>2. position + 1 \in DOMAIN fields
            BY <1>1, FieldFacts
        <3>3. ASSUME NEW j \in DOMAIN fields, position < j
              PROVE  IsExtension(fields[j].type)
            <4>1. j \in Nat
                BY <1>1, AbiAssumption, LenProperties
            <4>2. j = position + 1 \/ position + 1 < j
                BY <1>1, <3>3, <4>1
            <4> QED
                BY <1>1, <3>2, <4>2 DEF ExtensionsTrail
        <3> QED
            BY <1>1, <1>2, <3>1, <3>3 DEF LeftOut
    <2>2. CASE Top.position # -1
        <3> SUFFICES ASSUME LeftOut(Top, Last(text).kind)
                     PROVE  LeftOut(e, Last(text).kind)
            BY <1>1, <2>2
        <3>1. \A j \in DOMAIN fields : position < j => Top.position < j
            BY <1>1, AbiAssumption, LenProperties
        <3> QED
            BY <1>2, <3>1 DEF LeftOut
    <2> QED
        BY <2>1, <2>2
<1>6. BetweenParts(Top)'
    <2>1. Top' = e /\ e.position # -1
        BY <1>1, <1>2 DEF Top
    <2>2. LeftOut(e, Last(text).kind)' <=> LeftOut(e, Last(text).kind)
        BY DEF LeftOut
    <2> QED
        BY <1>1, <1>5, <2>1, <2>2 DEF BetweenParts
<1>7. Pending' = FALSE /\ Reads(text', OpenNow)
    BY <1>1 DEF Pending
<1> QED
    BY <1>1, <1>3, <1>4, <1>6, <1>7, TextStep

\* The key of a member.
LEMMA MemberText ==
    ASSUME TypeInv, TextInv, Resume("object"),
           NEW position, position = Top.position + 1,
           NEW field, field = Fields[Top.type][position + 1],
           position < Len(Fields[Top.type]),
           ~(data = <<>> /\ IsExtension(field.type) /\ Top.allow),
           text' = text \o Comma(position) \o <<Named("key", field.name), Mark("colon")>>,
           stack' = WithTopEntry([Top EXCEPT !.position = position]),
           call' # NoCall, status' = status
    PROVE  TextInv'
<1> DEFINE key == Named("key", field.name)
           colon == Mark("colon")
           before == text \o Comma(position)
           open == WithTop(OpenNow, "value")
<1>1. /\ status = "run"
      /\ stack \in Seq(Entry) /\ GoodStack(stack) /\ stack # <<>> /\ Top = Last(stack)
      /\ Top.type \in Type /\ Ser[Top.type] = "object"
      /\ Top.position \in Nat \cup {-1} /\ position \in Nat
      /\ Levels(OpenNow, stack, FALSE) /\ PartsBegun(stack, FALSE)
      /\ text \in Seq(Lexeme)
      /\ Top.position # -1 => Last(text).kind \in EndsValue \/ LeftOut(Top, Last(text).kind)
    BY ResumeText
<1>2. /\ position + 1 \in DOMAIN Fields[Top.type] /\ field.name \in Text
      /\ Top.position < position + 1
    BY <1>1, FieldFacts, SMTT(30)
<1>3. Top.position # -1 => Last(text).kind \in EndsValue
    BY <1>1, <1>2, SMTT(30) DEF LeftOut
<1>4. /\ Reads(before, OpenNow) /\ before # <<>> /\ before \in Seq(Lexeme)
      /\ Last(before).kind \in {"start_object", "comma"}
    <2>1. Opening(Top) = "start_object"
        BY <1>1 DEF Opening
    <2>2. /\ Reads(before, OpenNow) /\ before # <<>>
          /\ Last(before).kind \in {Opening(Top), "comma"}
        BY <1>3, CommaText
    <2> QED
        BY <2>1, <2>2 DEF Reads
<1>5. /\ key \in Lexeme /\ key.kind = "key" /\ colon \in Lexeme /\ colon.kind = "colon"
    BY <1>2, LexemeFacts DEF TokenKind
<1> HIDE DEF key, colon, before
<1>6. text' = Append(Append(before, key), colon)
    <2>1. text' = before \o <<key, colon>>
        BY DEF key, colon, before
    <2> QED
        BY <1>4, <1>5, <2>1, TwoLexemes
<1>7. Last(OpenNow) = "key"
    <2>1. Last(OpenNow) = ContextOf(stack, Len(stack), FALSE) /\ Last(stack) = stack[Len(stack)]
        BY <1>1, TopLevel
    <2> QED
        BY <1>1, <2>1 DEF ContextOf
<1>8. Reads(Append(before, key), open) /\ Last(Append(before, key)) = key
    <2>1. Expects(Last(OpenNow), key.kind) /\ Follows(Last(before).kind, key.kind)
        BY <1>4, <1>5, <1>7, FollowsFacts DEF Expects
    <2>2. After(OpenNow, key) = open
        BY <1>5, AfterFacts
    <2> HIDE DEF open
    <2> QED
        BY <1>4, <1>5, <2>1, <2>2, WriteFacts
<1> HIDE DEF open
<1>9. Reads(text', open) /\ text' # <<>> /\ Last(text') = colon
    <2>1. Follows(key.kind, colon.kind) /\ colon.kind \in Punctuation
        BY <1>5, FollowsFacts DEF Punctuation
    <2>2. After(open, colon) = open
        BY <2>1, AfterFacts
    <2> QED
        BY <1>5, <1>6, <1>8, <2>1, <2>2, WriteFacts
<1>10. PICK e \in Entry :
         /\ e.type = Top.type
         /\ stack' = [stack EXCEPT ![Len(stack)] = e]
         /\ \A p \in BOOLEAN : PartsBegun(stack', p)
    BY <1>1, MoveFacts
<1>11. Levels(open, stack', TRUE)
    <2>1. Levels(open, [stack EXCEPT ![Len(stack)] = e], TRUE)
        BY <1>1, <1>10, LevelsKey DEF open
    <2> QED
        BY <1>10, <2>1
<1>12. BeforeValue'
    BY <1>5, <1>9 DEF BeforeValue
<1>13. Pending' = TRUE
    BY DEF Pending
<1>14. PartsBegun(stack', TRUE)
    BY <1>10
<1> QED
    BY <1>1, <1>9, <1>11, <1>12, <1>13, <1>14, TextStep

\* The comma before an element.
LEMMA ElementText ==
    ASSUME TypeInv, TextInv, Resume("array"),
           NEW position, position = Top.position + 1,
           text' = text \o Comma(position),
           stack' = WithTopEntry([Top EXCEPT !.position = position]),
           call' # NoCall, status' = status
    PROVE  TextInv'
<1>1. /\ status = "run"
      /\ stack \in Seq(Entry) /\ GoodStack(stack) /\ stack # <<>> /\ Top = Last(stack)
      /\ Top.type \in Type /\ Ser[Top.type] = "array"
      /\ position \in Nat
      /\ Levels(OpenNow, stack, FALSE) /\ PartsBegun(stack, FALSE)
      /\ Top.position # -1 => Last(text).kind \in EndsValue \/ LeftOut(Top, Last(text).kind)
    BY ResumeText
<1>2. Top.position # -1 => Last(text).kind \in EndsValue
    BY <1>1 DEF LeftOut
<1>3. /\ Reads(text', OpenNow) /\ text' # <<>>
      /\ Last(text').kind \in {"start_array", "comma"}
    <2>1. Opening(Top) = "start_array"
        BY <1>1 DEF Opening
    <2> QED
        BY <1>2, <2>1, CommaText
<1>4. PICK e \in Entry :
         /\ e.type = Top.type
         /\ stack' = [stack EXCEPT ![Len(stack)] = e]
         /\ \A p \in BOOLEAN : PartsBegun(stack', p)
    BY <1>1, MoveFacts
<1>5. Levels(OpenNow, stack', TRUE)
    <2>1. Levels(OpenNow, [stack EXCEPT ![Len(stack)] = e], TRUE)
        BY <1>1, <1>4, LevelsMove
    <2> QED
        BY <1>4, <2>1
<1>6. BeforeValue'
    BY <1>3 DEF BeforeValue
<1>7. Pending' = TRUE /\ PartsBegun(stack', TRUE)
    BY <1>4 DEF Pending
<1> QED
    BY <1>1, <1>3, <1>5, <1>6, <1>7, TextStep

\* The name of an alternative and the comma after it.
LEMMA AlternativeText ==
    ASSUME TypeInv, TextInv, Resume("variant"), Top.position = -1,
           NEW name \in Text,
           text' = text \o <<Named("string", name), Mark("comma")>>,
           stack' = WithTopEntry([Top EXCEPT !.position = 0]),
           call' # NoCall, status' = status
    PROVE  TextInv'
<1> DEFINE string == Named("string", name)
           comma == Mark("comma")
           open == WithTop(OpenNow, AfterValue[Last(OpenNow)])
<1>1. /\ status = "run"
      /\ stack \in Seq(Entry) /\ GoodStack(stack) /\ stack # <<>> /\ Top = Last(stack)
      /\ Top.type \in Type /\ Ser[Top.type] = "variant"
      /\ Reads(text, OpenNow) /\ Levels(OpenNow, stack, FALSE) /\ PartsBegun(stack, FALSE)
      /\ text \in Seq(Lexeme) /\ Last(text).kind = Opening(Top)
    BY ResumeText
<1>2. /\ string \in Lexeme /\ string.kind = "string" /\ comma \in Lexeme /\ comma.kind = "comma"
    BY LexemeFacts DEF TokenKind, ValueStart, Scalars
<1> HIDE DEF string, comma
<1>3. text' = Append(Append(text, string), comma)
    <2>1. text' = text \o <<string, comma>>
        BY DEF string, comma
    <2> QED
        BY <1>1, <1>2, <2>1, TwoLexemes
<1>4. Levels(OpenNow, stack, TRUE)
    <2>1. Last(stack) = stack[Len(stack)]
        BY <1>1, TopLevel
    <2>2. \A i \in 1 .. Len(stack) :
              ContextOf(stack, i, TRUE) = ContextOf(stack, i, FALSE)
        BY <1>1, <2>1 DEF ContextOf
    <2> QED
        BY <1>1, <2>2 DEF Levels
<1>5. Levels(open, stack, FALSE) /\ \A kind \in ValueStart : Expects(Last(OpenNow), kind)
    BY <1>1, <1>4, LevelsRead
<1>6. Reads(Append(text, string), open) /\ Last(Append(text, string)) = string
    <2>1. After(OpenNow, string) = open
        BY <1>2, AfterFacts DEF Scalars
    <2> HIDE DEF open
    <2>2. Follows(Last(text).kind, string.kind) /\ Expects(Last(OpenNow), string.kind)
        BY <1>1, <1>2, <1>5, FollowsFacts DEF Opening, ValueStart, Scalars
    <2> QED
        BY <1>1, <1>2, <2>1, <2>2, WriteFacts
<1> HIDE DEF open
<1>7. Reads(text', open) /\ text' # <<>> /\ Last(text') = comma
    <2>1. Follows(string.kind, comma.kind) /\ comma.kind \in Punctuation
        BY <1>2, FollowsFacts DEF Punctuation, EndsValue
    <2>2. After(open, comma) = open
        BY <2>1, AfterFacts
    <2> QED
        BY <1>2, <1>3, <1>6, <2>1, <2>2, WriteFacts
<1>8. PICK e \in Entry :
         /\ e.type = Top.type
         /\ stack' = [stack EXCEPT ![Len(stack)] = e]
         /\ \A p \in BOOLEAN : PartsBegun(stack', p)
    BY <1>1, MoveFacts
<1>9. Levels(open, stack', TRUE)
    <2>1. Levels(open, [stack EXCEPT ![Len(stack)] = e], TRUE)
        BY <1>1, <1>5, <1>8, LevelsMove
    <2> QED
        BY <1>8, <2>1
<1>10. BeforeValue'
    BY <1>2, <1>7 DEF BeforeValue
<1>11. Pending' = TRUE /\ PartsBegun(stack', TRUE)
    BY <1>8 DEF Pending
<1> QED
    BY <1>1, <1>7, <1>9, <1>10, <1>11, TextStep

-----------------------------------------------------------------------------
(* Every step keeps the text JSON.                                         *)

\* A primitive.
LEMMA StartPrimitiveText ==
    ASSUME TypeInv, TextInv, NEW prim \in DOMAIN TokenFor, StartPrimitive(prim)
    PROVE  TextInv'
<1>1. CASE Fail("overrun")
    BY <1>1, FailText DEF Errors
<1>2. CASE ~Fail("overrun")
    <2>1. /\ data # <<>> /\ call' = NoCall /\ UNCHANGED <<stack, status>>
          /\ status = "run" /\ Pending
        BY <1>2 DEF StartPrimitive, Start, Pending
    <2>2. Head(data) \in Byte
        BY <2>1, TypeFacts, HeadTailProperties
    <2>3. PICK tok \in PrimTokens(prim, Head(data)) : text' = Append(text, tok)
        BY <1>2 DEF StartPrimitive
    <2>4. tok \in Lexeme /\ tok.kind \in Scalars
        BY <2>2, PrimTokenFacts DEF Scalars
    <2> QED
        BY <2>1, <2>3, <2>4, ScalarText
<1> QED
    BY <1>1, <1>2

\* An optional that is absent is null.
LEMMA StartOptionalText ==
    ASSUME TypeInv, TextInv, StartOptional
    PROVE  TextInv'
<1>1. status = "run" /\ Pending /\ call.type \in Type /\ call \in Call
    BY TypeFacts DEF StartOptional, Start, Pending
<1>2. CASE Fail("overrun")
    BY <1>2, FailText DEF Errors
<1>3. CASE /\ text' = Append(text, Mark("null")) /\ call' = NoCall
           /\ UNCHANGED <<stack, status>>
    <2>1. Mark("null") \in Lexeme /\ Mark("null").kind \in Scalars
        BY LexemeFacts DEF TokenKind, ValueStart, Scalars
    <2> QED
        BY <1>1, <1>3, <2>1, ScalarText
<1>4. CASE call' = [call EXCEPT !.type = Of[call.type]] /\ UNCHANGED <<stack, text, status>>
    <2>1. Of[call.type] \in Type /\ "none" \notin Type
        BY <1>1, AbiAssumption
    <2>2. call'.type = Of[call.type]
        BY <1>1, <1>4 DEF Call
    <2>3. Pending'
        BY <2>1, <2>2 DEF Pending, NoCall
    <2> QED
        BY <1>1, <1>4, <2>3, CallText
<1> QED
    BY <1>2, <1>3, <1>4 DEF StartOptional

\* An extension that is present.
LEMMA StartExtensionText ==
    ASSUME TypeInv, TextInv, StartExtension
    PROVE  TextInv'
<1>1. status = "run" /\ Pending /\ call.type \in Type /\ call \in Call
    BY TypeFacts DEF StartExtension, Start, Pending
<1>2. Of[call.type] \in Type /\ "none" \notin Type
    BY <1>1, AbiAssumption
<1>3. call'.type = Of[call.type]
    BY <1>1 DEF Call, StartExtension
<1>4. Pending'
    BY <1>2, <1>3 DEF Pending, NoCall
<1> QED
    BY <1>1, <1>4, CallText DEF StartExtension

\* A struct or a variant begins.
LEMMA StartObjectText ==
    ASSUME TypeInv, TextInv, StartObject \/ StartVariant
    PROVE  TextInv'
<1>1. /\ status = "run" /\ Pending /\ call.type \in Type /\ call.allow \in BOOLEAN
      /\ call' = NoCall /\ status' = status
    BY TypeFacts DEF StartObject, StartVariant, Start, Pending
<1>2. NewEntry \in Entry /\ NewEntry.type = call.type /\ NewEntry.position = -1
    BY <1>1, NewEntryFacts, 0 \in Nat
<1>3. stack' = Push(stack, NewEntry) /\ text' = Append(text, Mark(Opening(NewEntry)))
    BY <1>2 DEF StartObject, StartVariant, Start, Push, Opening
<1> QED
    BY <1>1, <1>2, <1>3, ContainerText

\* An array begins.
LEMMA StartArrayText ==
    ASSUME TypeInv, TextInv, StartArray
    PROVE  TextInv'
<1>1. CASE NoVar
    BY <1>1, FailText DEF NoVar, Errors
<1>2. CASE ~NoVar
    <2>1. PICK n \in DOMAIN data :
             /\ VarEnds(data, n)
             /\ stack' = Append(stack, [NewEntry EXCEPT !.allow = FALSE,
                                                        !.size = VarValue(data, n)])
             /\ text' = Append(text, Mark("start_array"))
             /\ call' = NoCall /\ status' = status
        BY <1>2 DEF StartArray
    <2>2. /\ status = "run" /\ Pending /\ call.type \in Type /\ call.allow \in BOOLEAN
          /\ Ser[call.type] = "array"
        BY TypeFacts DEF StartArray, Start, Pending
    <2>3. VarValue(data, n) \in Nat
        BY <2>1, TypeFacts, VarFacts
    <2>4. PICK e \in Entry :
             /\ e = [NewEntry EXCEPT !.allow = FALSE, !.size = VarValue(data, n)]
             /\ e.type = call.type /\ e.position = -1
        BY <2>2, <2>3, NewEntryFacts
    <2>5. stack' = Push(stack, e) /\ text' = Append(text, Mark(Opening(e)))
        BY <2>1, <2>2, <2>4 DEF Push, Opening
    <2> QED
        BY <2>1, <2>2, <2>4, <2>5, ContainerText
<1> QED
    BY <1>1, <1>2

\* A member, a binary extension left out, or the end of a struct.
LEMMA ResumeObjectText ==
    ASSUME TypeInv, TextInv, ExtensionsTrail, ResumeObject
    PROVE  TextInv'
<1> DEFINE fields == Fields[Top.type]
           position == Top.position + 1
           field == fields[position + 1]
           leftOut == data = <<>> /\ IsExtension(field.type) /\ Top.allow
<1>1. /\ Resume("object") /\ Top.type \in Type /\ Top.allow \in BOOLEAN /\ position \in Nat
      /\ Ser[Top.type] = "object"
    BY ResumeFacts DEF ResumeObject
<1>2. CASE /\ position < Len(fields) /\ leftOut
           /\ stack' = WithTopEntry([Top EXCEPT !.position = position])
           /\ UNCHANGED <<data, text, call, status>>
    BY <1>1, <1>2, LeaveOutText
<1>3. CASE /\ position < Len(fields) /\ ~leftOut
           /\ text' = text \o Comma(position) \o <<Named("key", field.name), Mark("colon")>>
           /\ stack' = WithTopEntry([Top EXCEPT !.position = position])
           /\ call' = [type |-> field.type, allow |-> Top.allow /\ position + 1 = Len(fields)]
           /\ status' = status
    <2>1. field.type \in Type
        BY <1>1, <1>3, FieldFacts
    <2>2. call' # NoCall
        BY <1>1, <1>3, <2>1, CallFacts
    <2> QED
        BY <1>1, <1>3, <2>2, MemberText
<1>4. CASE /\ text' = Append(text, Mark("end_object"))
           /\ stack' = Front(stack)
           /\ UNCHANGED <<data, call, skipped, status>>
    BY <1>1, <1>4, EndText
<1> QED
    BY <1>2, <1>3, <1>4 DEF ResumeObject

\* An element, or the end of an array.
LEMMA ResumeArrayText ==
    ASSUME TypeInv, TextInv, ResumeArray
    PROVE  TextInv'
<1> DEFINE position == Top.position + 1
<1>1. Resume("array") /\ Top.type \in Type /\ Ser[Top.type] = "array"
    BY ResumeFacts DEF ResumeArray
<1>2. CASE /\ text' = text \o Comma(position)
           /\ stack' = WithTopEntry([Top EXCEPT !.position = position])
           /\ call' = [type |-> Of[Top.type], allow |-> FALSE]
           /\ status' = status
    <2>1. call' # NoCall
        BY <1>1, <1>2, AbiAssumption, CallFacts
    <2> QED
        BY <1>1, <1>2, <2>1, ElementText
<1>3. CASE /\ text' = Append(text, Mark("end_array"))
           /\ stack' = Front(stack)
           /\ UNCHANGED <<data, call, skipped, status>>
    BY <1>1, <1>3, EndText
<1> QED
    BY <1>2, <1>3 DEF ResumeArray

\* The alternative of a variant, its value, or the end of a variant.
LEMMA ResumeVariantText ==
    ASSUME TypeInv, TextInv, ResumeVariant
    PROVE  TextInv'
<1>1. /\ Resume("variant") /\ Top.type \in Type /\ Top.allow \in BOOLEAN
      /\ Ser[Top.type] = "variant"
    BY ResumeFacts DEF ResumeVariant
<1>2. ASSUME NEW n \in DOMAIN data, VariantName(n), Top.position = -1
      PROVE  TextInv'
    <2> DEFINE alternatives == Fields[Top.type]
               index == VarValue(data, n)
    <2>1. index \in Nat
        BY <1>2, TypeFacts, VarFacts DEF VariantName
    <2>2. CASE /\ index < Len(alternatives)
               /\ text' = text \o <<Named("string", alternatives[index + 1].name), Mark("comma")>>
               /\ stack' = WithTopEntry([Top EXCEPT !.position = 0])
               /\ call' = [type |-> alternatives[index + 1].type, allow |-> Top.allow]
               /\ status' = status
        <3>1. alternatives[index + 1].name \in Text /\ alternatives[index + 1].type \in Type
            BY <1>1, <2>1, <2>2, FieldFacts
        <3>2. call' # NoCall
            BY <1>1, <2>2, <3>1, CallFacts
        <3> QED
            BY <1>1, <1>2, <2>2, <3>1, <3>2, AlternativeText
    <2>3. CASE Fail("bad_variant_index")
        BY <2>3, FailText DEF Errors
    <2> QED
        BY <1>2, <2>2, <2>3 DEF VariantName
<1>3. CASE NoVar
    BY <1>3, FailText DEF NoVar, Errors
<1>4. CASE /\ text' = Append(text, Mark("end_array"))
           /\ stack' = Front(stack)
           /\ UNCHANGED <<data, call, skipped, status>>
    BY <1>1, <1>4, EndText
<1> QED
    BY <1>2, <1>3, <1>4 DEF ResumeVariant

\* When the loop is over, a reader of the text has a complete document.
LEMMA EndOfLoopText ==
    ASSUME TypeInv, TextInv, EndOfLoop
    PROVE  TextInv'
<1>1. status = "run" /\ stack = <<>> /\ Pending = FALSE
    BY DEF EndOfLoop, Pending
<1>2. JsonSoFar /\ Levels(OpenNow, <<>>, FALSE)
    BY <1>1 DEF TextInv
<1>3. OpenNow \in Seq(Context) /\ Len(OpenNow) = 1 /\ OpenNow[1] = "done"
    BY <1>2, EmptySeq DEF Levels
<1>4. OpenNow = <<"done">>
    BY <1>3, OneEntry
<1>5. /\ text' = text /\ stack' = <<>> /\ status' # "run"
      /\ JsonSoFar' /\ OpenNow' = OpenNow
    BY <1>1, <1>2 DEF EndOfLoop, JsonSoFar, OpenNow
<1> QED
    BY <1>4, <1>5 DEF TextInv

\* TextInv is inductive together with TypeInv if extensions trail.
LEMMA NextText ==
    ASSUME ExtensionsTrail
    PROVE  TypeInv /\ TextInv /\ [Next]_vars => TextInv'
<1> SUFFICES ASSUME TypeInv, TextInv, [Next]_vars PROVE TextInv'
    OBVIOUS
<1>1. CASE \E b \in Blobs : Begin(b)
    BY <1>1, BeginText
<1>2. CASE \E prim \in DOMAIN TokenFor : StartPrimitive(prim)
    BY <1>2, StartPrimitiveText
<1>3. CASE StartOptional
    BY <1>3, StartOptionalText
<1>4. CASE StartExtension
    BY <1>4, StartExtensionText
<1>5. CASE StartObject \/ StartVariant
    BY <1>5, StartObjectText
<1>6. CASE StartArray
    BY <1>6, StartArrayText
<1>7. CASE ResumeObject
    BY <1>7, ResumeObjectText
<1>8. CASE ResumeArray
    BY <1>8, ResumeArrayText
<1>9. CASE ResumeVariant
    BY <1>9, ResumeVariantText
<1>10. CASE StackOverflow
    BY <1>10, FailText DEF StackOverflow, Errors
<1>11. CASE EndOfLoop
    BY <1>11, EndOfLoopText
<1>12. CASE UNCHANGED vars
    BY <1>12 DEF vars, TextInv, JsonSoFar, OpenNow, Pending, BeforeValue, BetweenParts, LeftOut,
                 Top, Levels, ContextOf, PartsBegun
<1> QED
    BY <1>1, <1>2, <1>3, <1>4, <1>5, <1>6, <1>7, <1>8, <1>9, <1>10, <1>11, <1>12
       DEF Next, Step, Terminated

\* What the decoder has written is JSON at every moment, whatever the data: if
\* the binary extensions of every struct trail, then commas, colons and
\* brackets are in place, a reader accepts every token and has as many
\* containers open as the decoder has entries (to_json(..., writer)).
THEOREM TextStaysJson == ExtensionsTrail => (Spec => []TextIsJson)
<1> SUFFICES ASSUME ExtensionsTrail PROVE Spec => []TextIsJson
    OBVIOUS
<1>1. Init => TypeInv /\ TextInv
    BY InitType DEF Init, TextInv
<1>2. TypeInv /\ TextInv /\ [Next]_vars => (TypeInv /\ TextInv)'
    BY NextType, NextText
<1>3. TypeInv /\ TextInv => TextIsJson
    <2> SUFFICES ASSUME TypeInv, TextInv, status \in {"run", "ok"} PROVE TextIsJson
        BY DEF TextIsJson
    <2>1. Len(OpenNow) = Len(stack) + 1
        <3>1. CASE status = "run"
            BY <3>1 DEF TextInv, Levels
        <3>2. CASE status = "ok"
            <4>1. stack = <<>> /\ OpenNow = <<"done">>
                BY <3>2 DEF TextInv
            <4>2. Len(<<"done">>) = 1 /\ Len(<<>>) = 0
                BY EmptySeq
            <4> QED
                BY <4>1, <4>2
        <3> QED
            BY <3>1, <3>2
    <2> QED
        BY <2>1 DEF TextIsJson, TextInv, JsonSoFar
<1> QED
    BY <1>1, <1>2, <1>3, PTL DEF Spec
=============================================================================
