---------------------------- MODULE StackLemmas ----------------------------
(***************************************************************************)
(* What the operations on a stack kept as a sequence do to it: pop, top,   *)
(* push, and replacing the top.  The proofs about the converters cite      *)
(* these instead of the definitions of Front and Last.  And induction and  *)
(* recursion over the naturals.                                            *)
(***************************************************************************)
EXTENDS Integers, SequencesExt, SequenceTheorems, FiniteSetTheorems, TLAPS

\* A nonempty stack has a positive height.
LEMMA NonEmpty ==
    ASSUME NEW S, NEW s \in Seq(S), s # <<>>
    PROVE  Len(s) \in Nat \ {0}
BY EmptySeq

\* Pop removes the top entry and leaves the others (stack.pop_back()).
LEMMA PopFacts ==
    ASSUME NEW S, NEW s \in Seq(S), s # <<>>
    PROVE  \E h \in Nat :
             /\ Len(s) = h + 1
             /\ Front(s) \in Seq(S)
             /\ Len(Front(s)) = h
             /\ \A i \in 1 .. h : Front(s)[i] = s[i]
<1> DEFINE n == Len(s) - 1
           f == SubSeq(s, 1, n)
<1>1. Len(s) \in Nat \ {0}
    BY NonEmpty
<1>2. n \in Nat /\ Len(s) = n + 1
    BY <1>1
<1>3. \A i \in 1 .. n : s[i] \in S
    BY <1>1, ElementOfSeq
<1> HIDE DEF n
<1>4. /\ f \in Seq(S)
      /\ Len(f) = IF 1 <= n THEN n - 1 + 1 ELSE 0
      /\ \A i \in 1 .. n - 1 + 1 : f[i] = s[1 + i - 1]
    BY <1>2, <1>3, SubSeqProperties
<1> HIDE DEF f
<1>5. n - 1 + 1 = n /\ (1 <= n \/ n = 0) /\ \A i \in 1 .. n : 1 + i - 1 = i
    BY <1>2
<1>6. Len(f) = n /\ \A i \in 1 .. n : f[i] = s[i]
    BY <1>2, <1>4, <1>5
<1> QED
    BY <1>2, <1>4, <1>6 DEF Front, n, f

\* The top is the last entry (stack.back()).
LEMMA TopFacts ==
    ASSUME NEW S, NEW s \in Seq(S), s # <<>>
    PROVE  /\ Last(s) = s[Len(s)]
           /\ Last(s) \in S
BY NonEmpty, ElementOfSeq DEF Last

\* Assigning to stack.back() changes the top entry only.
LEMMA ReplaceFacts ==
    ASSUME NEW S, NEW s \in Seq(S), s # <<>>, NEW e \in S
    PROVE  /\ [s EXCEPT ![Len(s)] = e] \in Seq(S)
           /\ [s EXCEPT ![Len(s)] = e] # <<>>
           /\ Len([s EXCEPT ![Len(s)] = e]) = Len(s)
           /\ \A i \in 1 .. Len(s) :
                 [s EXCEPT ![Len(s)] = e][i] = IF i = Len(s) THEN e ELSE s[i]
<1>1. Len(s) \in 1 .. Len(s)
    BY NonEmpty
<1>2. /\ [s EXCEPT ![Len(s)] = e] \in Seq(S)
      /\ Len([s EXCEPT ![Len(s)] = e]) = Len(s)
      /\ \A j \in 1 .. Len(s) : [s EXCEPT ![Len(s)] = e][j] = IF j = Len(s) THEN e ELSE s[j]
    BY <1>1, ExceptSeq
<1>3. [s EXCEPT ![Len(s)] = e] # <<>>
    BY <1>1, <1>2, EmptySeq
<1> QED
    BY <1>2, <1>3

\* Push puts an entry on top of the ones there are (stack.push_back(e)).  It
\* has a name of its own so that the provers need not look inside Append.
Push(s, e) == Append(s, e)

LEMMA PushFacts ==
    ASSUME NEW S, NEW s \in Seq(S), NEW e \in S
    PROVE  /\ Push(s, e) \in Seq(S)
           /\ Push(s, e) # <<>>
           /\ Len(s) \in Nat
           /\ Len(Push(s, e)) = Len(s) + 1
           /\ Push(s, e)[Len(s) + 1] = e
           /\ \A i \in 1 .. Len(s) : Push(s, e)[i] = s[i]
<1>1. /\ Push(s, e) \in Seq(S)
      /\ Len(s) \in Nat
      /\ Len(Push(s, e)) = Len(s) + 1
    BY AppendProperties, LenProperties DEF Push
<1>2. Push(s, e)[Len(s) + 1] = e /\ \A i \in 1 .. Len(s) : Push(s, e)[i] = s[i]
    BY <1>1, AppendProperties DEF Push
<1>3. Push(s, e) # <<>>
    BY <1>1, EmptySeq
<1> QED
    BY <1>1, <1>2, <1>3

\* Every level of a higher stack is the new one or one that was there.
LEMMA LevelFacts ==
    \A n \in Nat :
        /\ \A i \in 1 .. n : i # n + 1 /\ i \in 1 .. n + 1
        /\ \A i \in 1 .. n + 1 : i \in 1 .. n \/ i = n + 1
        /\ \A i \in 1 .. n : i + 1 \in 1 .. n + 1 /\ i \in 1 .. n + 1 /\ i < n + 1
        /\ 1 \in 1 .. n + 1
        /\ n = 0 \/ n \in 1 .. n
OBVIOUS

\* A sequence of height one is known by its only entry.
LEMMA OneEntry ==
    ASSUME NEW S, NEW s \in Seq(S), Len(s) = 1
    PROVE  s = <<s[1]>>
<1>1. s[1] \in S
    BY ElementOfSeq
<1>2. <<s[1]>> \in Seq(S) /\ Len(<<s[1]>>) = 1 /\ <<s[1]>>[1] = s[1]
    BY <1>1
<1> QED
    BY <1>2, SeqEqual

\* Induction over the naturals, for a set instead of a predicate.  The sets of
\* the numbers below those that are missing from T would have a least one.
LEMMA NatInduct ==
    ASSUME NEW T, 0 \in T, \A n \in Nat : n \in T => n + 1 \in T
    PROVE  Nat \subseteq T
<1> DEFINE Missing == {n \in Nat : n \notin T}
           Initial == {0 .. n - 1 : n \in Missing}
           Less == StrictSubsetOrdering(Nat)
<1>1. SUFFICES ASSUME Missing # {} PROVE FALSE
    OBVIOUS
<1>2. Initial # {}
    BY <1>1
<1>3. Initial \subseteq FiniteSubsetsOf(Nat)
    <2> SUFFICES ASSUME NEW n \in Nat PROVE 0 .. n - 1 \in FiniteSubsetsOf(Nat)
        OBVIOUS
    <2>1. IsFiniteSet(0 .. n - 1)
        BY FS_Interval, 0 \in Int, n - 1 \in Int
    <2>2. 0 .. n - 1 \subseteq Nat
        OBVIOUS
    <2> QED
        BY <2>1, <2>2 DEF FiniteSubsetsOf
<1>4. PICK s \in Initial : \A r \in Initial : ~(<<r, s>> \in Less)
    <2>1. IsWellFoundedOn(Less, FiniteSubsetsOf(Nat))
        BY FS_StrictSubsetOrderingWellFounded
    <2> HIDE DEF Less, Initial
    <2> QED
        BY <1>2, <1>3, <2>1, WFMin
<1>5. PICK n \in Missing : s = 0 .. n - 1
    BY <1>4
<1>6. n - 1 \in Missing
    OBVIOUS
<1>7. 0 .. (n - 1) - 1 \subseteq 0 .. n - 1 /\ n - 1 \in 0 .. n - 1 /\ n - 1 \notin 0 .. (n - 1) - 1
    BY <1>6
<1>8. <<0 .. (n - 1) - 1, 0 .. n - 1>> \in Less
    BY <1>7 DEF StrictSubsetOrdering
<1> QED
    BY <1>4, <1>5, <1>6, <1>8

\* A function of the naturals exists if each value is made from the one before.
LEMMA LevelsExist ==
    ASSUME NEW X, NEW lowest \in X, NEW step \in [Nat -> [X -> X]]
    PROVE  \E f \in [Nat -> X] :
               \A k \in Nat : f[k] = IF k = 0 THEN lowest ELSE step[k][f[k - 1]]
<1> DEFINE At(f, k) == IF k = 0 THEN lowest ELSE step[k][f[k - 1]]
           UpTo(f, m) == f \in [0 .. m -> X] /\ \A k \in 0 .. m : f[k] = At(f, k)
           T == {m \in Nat : \E f : UpTo(f, m)}
<1>1. 0 \in T
    <2>1. UpTo([k \in 0 .. 0 |-> lowest], 0)
        OBVIOUS
    <2> QED
        BY <2>1
<1>2. ASSUME NEW m \in Nat, m \in T
      PROVE  m + 1 \in T
    <2>1. PICK f : UpTo(f, m)
        BY <1>2
    <2> DEFINE g == [k \in 0 .. m + 1 |-> IF k = m + 1 THEN At(f, k) ELSE f[k]]
    <2>2. g \in [0 .. m + 1 -> X]
        <3>1. ASSUME NEW k \in 0 .. m + 1, k # m + 1
              PROVE  f[k] \in X
            BY <2>1, <3>1
        <3>2. At(f, m + 1) \in X
            <4>1. m + 1 # 0 /\ (m + 1) - 1 = m /\ m + 1 \in Nat /\ m \in 0 .. m
                OBVIOUS
            <4> QED
                BY <2>1, <4>1
        <3> QED
            BY <3>1, <3>2
    <2>3. ASSUME NEW k \in 0 .. m + 1
          PROVE  g[k] = At(g, k)
        <3>1. CASE k = 0
            BY <3>1, <2>1
        <3>2. CASE k # 0
            <4>1. k - 1 \in 0 .. m + 1 /\ k - 1 # m + 1
                BY <3>2
            <4>2. g[k - 1] = f[k - 1]
                BY <4>1
            <4>3. At(g, k) = At(f, k)
                BY <4>2
            <4>4. k # m + 1 => k \in 0 .. m
                OBVIOUS
            <4> HIDE DEF At
            <4> QED
                BY <2>1, <4>3, <4>4
        <3> QED
            BY <3>1, <3>2
    <2> HIDE DEF g, At
    <2> QED
        BY <2>2, <2>3
<1> HIDE DEF T, At
<1>3. Nat \subseteq T
    BY <1>1, <1>2, NatInduct
<1>4. ASSUME NEW m \in Nat, NEW l \in Nat, NEW f, NEW g, UpTo(f, m), UpTo(g, l)
      PROVE  \A k \in Nat : k <= m /\ k <= l => f[k] = g[k]
    <2> DEFINE S == {k \in Nat : k <= m /\ k <= l => f[k] = g[k]}
    <2>1. 0 \in S
        <3>1. 0 \in 0 .. m /\ 0 \in 0 .. l
            OBVIOUS
        <3>2. At(f, 0) = At(g, 0)
            BY DEF At
        <3> QED
            BY <1>4, <3>1, <3>2
    <2>2. ASSUME NEW k \in Nat, k \in S
          PROVE  k + 1 \in S
        <3> SUFFICES ASSUME k + 1 <= m, k + 1 <= l PROVE f[k + 1] = g[k + 1]
            OBVIOUS
        <3>1. k + 1 \in 0 .. m /\ k + 1 \in 0 .. l /\ (k + 1) - 1 = k /\ k + 1 # 0 /\ f[k] = g[k]
            BY <2>2
        <3>2. At(f, k + 1) = At(g, k + 1)
            BY <3>1 DEF At
        <3> QED
            BY <1>4, <3>1, <3>2
    <2> HIDE DEF S
    <2>3. Nat \subseteq S
        BY <2>1, <2>2, NatInduct
    <2> QED
        BY <2>3 DEF S
<1> DEFINE One(k) == CHOOSE f : UpTo(f, k)
           h == [k \in Nat |-> One(k)[k]]
<1>5. ASSUME NEW k \in Nat
      PROVE  UpTo(One(k), k)
    BY <1>3 DEF T
<1> HIDE DEF One, UpTo
<1>6. ASSUME NEW k \in Nat
      PROVE  h[k] = At(h, k) /\ h[k] \in X
    <2>1. h[k] = At(One(k), k) /\ h[k] \in X
        <3>1. k \in 0 .. k
            OBVIOUS
        <3> QED
            BY <1>5, <3>1 DEF UpTo
    <2>2. CASE k = 0
        BY <2>1, <2>2 DEF At
    <2>3. CASE k # 0
        <3>1. k - 1 \in Nat /\ k - 1 <= k /\ k - 1 <= k - 1
            BY <2>3
        <3>2. h[k - 1] = One(k)[k - 1]
            BY <1>4, <1>5, <3>1
        <3> QED
            BY <2>1, <2>3, <3>2 DEF At
    <2> QED
        BY <2>2, <2>3
<1>7. h = [k \in Nat |-> h[k]]
    OBVIOUS
<1> HIDE DEF h
<1>8. h \in [Nat -> X]
    BY <1>6, <1>7
<1> QED
    BY <1>6, <1>8 DEF At

\* So does one up to n.  The equations have names of their own so that the
\* provers find them.
Endless(f, lowest, step) == \A k \in Nat : f[k] = IF k = 0 THEN lowest ELSE step[k][f[k - 1]]
Recursion(f, n, lowest, step) ==
    \A k \in 0 .. n : f[k] = IF k = 0 THEN lowest ELSE step[k][f[k - 1]]

LEMMA EndlessExists ==
    ASSUME NEW X, NEW lowest \in X, NEW step \in [Nat -> [X -> X]]
    PROVE  \E f \in [Nat -> X] : Endless(f, lowest, step)
<1>1. PICK f \in [Nat -> X] : \A k \in Nat : f[k] = IF k = 0 THEN lowest ELSE step[k][f[k - 1]]
    BY LevelsExist, SMT
<1> QED
    BY <1>1 DEF Endless

LEMMA RecursionExists ==
    ASSUME NEW X, NEW lowest \in X, NEW step \in [Nat -> [X -> X]], NEW n \in Nat
    PROVE  \E f \in [0 .. n -> X] : Recursion(f, n, lowest, step)
<1>1. PICK f \in [Nat -> X] : \A k \in Nat : f[k] = IF k = 0 THEN lowest ELSE step[k][f[k - 1]]
    BY LevelsExist, SMT
<1> DEFINE g == [k \in 0 .. n |-> f[k]]
<1>2. g \in [0 .. n -> X]
    OBVIOUS
<1>3. ASSUME NEW k \in 0 .. n
      PROVE  g[k] = IF k = 0 THEN lowest ELSE step[k][g[k - 1]]
    <2>1. CASE k = 0
        BY <1>1, <2>1
    <2>2. CASE k # 0
        <3>1. k - 1 \in 0 .. n /\ k - 1 \in Nat /\ k \in Nat
            BY <2>2
        <3> QED
            BY <1>1, <3>1, <2>2
    <2> QED
        BY <2>1, <2>2
<1> HIDE DEF g
<1> QED
    BY <1>2, <1>3 DEF Recursion
=============================================================================
