--------------------------- MODULE InterfaceProof ---------------------------
(***************************************************************************)
(* What the callers of the library may rely on: the invariants of Context, *)
(* the C API, for any contracts, abis and items, and those of add_type, by *)
(* which C++ types enter an abi (NativeTypes), for any types, calls and    *)
(* failures.                                                               *)
(***************************************************************************)
EXTENDS Context, NativeTypes, StackLemmas

\* A result or a name that stays current: the contract it was made for has an
\* abi, and that abi made it.  As an abi is never replaced, it stays so.
Made(r, loaded) ==
    r.contract # None =>
        /\ r.contract \in Contract
        /\ loaded[r.contract] \in Abi
        /\ r.abi = loaded[r.contract]

AllMade(rs, loaded) == \A r \in rs : Made(r, loaded)

ContractsTyped == contracts \in [Contract -> Abi \cup {None}]
ResultsMade == AllMade({resultBin, resultStr, lastBin, lastText}, contracts)
NamesMade == AllMade(held, contracts)

\* The inductive invariant.  NothingOutdated alone would not do: a result made
\* for a contract without an abi would go out of date when it is given one.
IInv ==
    /\ ContractsTyped
    /\ ResultsMade
    /\ NamesMade
    /\ ResultsAreWhole
    /\ FailureIsExplainedOrDefault

-----------------------------------------------------------------------------
\* What the contracts have, they keep.
Keeps(before, after) == \A c \in Contract : before[c] \in Abi => after[c] = before[c]

\* What an abi has made is still made by the abi of its contract.
LEMMA MadeIsKept ==
    ASSUME NEW rs, NEW before, NEW after, AllMade(rs, before), Keeps(before, after)
    PROVE  AllMade(rs, after)
  BY DEF AllMade, Made, Keeps

\* A new result of a contract that is loaded is made by its abi.
LEMMA NewIsMade ==
    ASSUME ContractsTyped, NEW c \in Contract, Loaded(c), NEW kind
    PROVE  Made(Result(kind, c, contracts[c]), contracts)
  BY DEF ContractsTyped, Loaded, Made, Result

\* A result of no contract.
LEMMA OtherIsMade ==
    ASSUME NEW kind, NEW a
    PROVE  Made(Result(kind, None, a), contracts)
  BY DEF Made, Result

\* A new binary, or a new text.
LEMMA BinIsKept ==
    ASSUME IInv, NEW r, Made(r, contracts), MakesBin(r), UNCHANGED contracts
    PROVE  ResultsMade' /\ ResultsAreWhole'
  BY DEF IInv, MakesBin, ResultsMade, AllMade, ResultsAreWhole, Made

LEMMA TextIsKept ==
    ASSUME IInv, NEW r, Made(r, contracts), ReturnsText(r), UNCHANGED contracts
    PROVE  ResultsMade' /\ ResultsAreWhole'
  BY DEF IInv, ReturnsText, ResultsMade, AllMade, ResultsAreWhole, Made

\* What a call leaves alone.
LEMMA ResultsStay ==
    ASSUME IInv, UNCHANGED <<contracts, results>>
    PROVE  ResultsMade' /\ ResultsAreWhole'
  BY DEF IInv, results, ResultsMade, AllMade, ResultsAreWhole, Made

LEMMA NamesStay ==
    ASSUME IInv, UNCHANGED <<contracts, held>>
    PROVE  ContractsTyped' /\ NamesMade'
  BY DEF IInv, ContractsTyped, NamesMade, AllMade, Made

\* The ways in which a call ends explain a failure.
LEMMA Explained ==
    ASSUME NEW message,
           Throws(message) \/ Returns(message) \/ ReturnsSilently
    PROVE  FailureIsExplainedOrDefault'
  BY DEF Throws, Returns, ReturnsSilently, FailureIsExplainedOrDefault, FailureIsExplained

-----------------------------------------------------------------------------
\* The calls of the API one by one.
LEMMA InitEstablishes == Init => IInv
<1> SUFFICES ASSUME Init PROVE IInv
  OBVIOUS
<1>1. ContractsTyped
  BY DEF Init, ContractsTyped
<1>2. ResultsMade /\ NamesMade
  <2>1. Made(NoResult, contracts)
    BY OtherIsMade DEF NoResult
  <2> QED
    BY <2>1 DEF Init, ResultsMade, NamesMade, AllMade
<1>3. ResultsAreWhole
  BY DEF Init, ResultsAreWhole
<1>4. FailureIsExplainedOrDefault
  BY DEF Init, FailureIsExplainedOrDefault, FailureIsExplained
<1> QED
  BY <1>1, <1>2, <1>3, <1>4 DEF IInv

LEMMA LoadPreserves ==
    ASSUME IInv, NEW c \in Contract, NEW a \in Abi, NEW tests, Load(c, a, tests)
    PROVE  IInv'
<1> DEFINE fault == FirstFault(a, tests)
<1>1. /\ \/ fault = "ok" /\ contracts' = Insert(c, a) /\ Returns("abi parse error")
         \/ fault # "ok" /\ UNCHANGED contracts /\ Throws(fault)
      /\ UNCHANGED <<held, results>>
  BY DEF Load
<1> HIDE DEF fault
<1>2. FailureIsExplainedOrDefault'
  BY <1>1, Explained
<1>3. ContractsTyped' /\ Keeps(contracts, contracts')
  BY <1>1, NoneAssumption DEF IInv, ContractsTyped, Keeps, Insert, Loaded
<1>4. ResultsMade' /\ NamesMade'
  BY <1>1, <1>3, MadeIsKept DEF IInv, ResultsMade, NamesMade, results
<1>5. ResultsAreWhole'
  BY <1>1 DEF IInv, results, ResultsAreWhole
<1> QED
  BY <1>2, <1>3, <1>4, <1>5 DEF IInv

LEMMA NotHexPreserves == IInv /\ NotHex => IInv'
  BY Explained, ResultsStay, NamesStay DEF NotHex, IInv

LEMMA GetTypePreserves ==
    ASSUME IInv, NEW c \in Contract, NEW i \in Item, GetType(c, i)
    PROVE  IInv'
<1>1. FailureIsExplainedOrDefault'
  BY Explained DEF GetType
<1>2. UNCHANGED <<contracts, results>>
  BY DEF GetType
<1>3. ContractsTyped' /\ ResultsMade' /\ ResultsAreWhole'
  BY <1>2, ResultsStay DEF IInv, ContractsTyped
<1>4. NamesMade'
  <2>1. CASE UNCHANGED held
    BY <1>2, <2>1, NamesStay
  <2>2. CASE Loaded(c) /\ held' = held \cup {[contract |-> c, abi |-> contracts[c], item |-> i]}
    BY <1>2, <2>2 DEF IInv, ContractsTyped, NamesMade, AllMade, Made, Loaded
  <2> QED
    BY <2>1, <2>2 DEF GetType
<1> QED
  BY <1>1, <1>3, <1>4 DEF IInv

LEMMA JsonToBinPreserves ==
    ASSUME IInv, NEW c \in Contract, JsonToBin(c)
    PROVE  IInv'
<1>1. FailureIsExplainedOrDefault'
  BY Explained DEF JsonToBin
<1>2. UNCHANGED <<contracts, held>>
  BY DEF JsonToBin
<1>3. ResultsMade' /\ ResultsAreWhole'
  <2>1. CASE UNCHANGED results
    BY <1>2, <2>1, ResultsStay
  <2>2. CASE resultBin' = LeftByFailure(c) /\ UNCHANGED <<resultStr, lastBin, lastText>>
    BY <1>2, <2>2, OtherIsMade
    DEF IInv, ResultsMade, AllMade, ResultsAreWhole, LeftByFailure, NoResult
  <2>3. CASE Loaded(c) /\ MakesBin(Result("binary", c, contracts[c]))
    BY <1>2, <2>3, NewIsMade, BinIsKept DEF IInv
  <2> QED
    BY <2>1, <2>2, <2>3 DEF JsonToBin
<1> QED
  BY <1>1, <1>2, <1>3, NamesStay DEF IInv

LEMMA BinToJsonPreserves ==
    ASSUME IInv, NEW c \in Contract, BinToJson(c)
    PROVE  IInv'
<1>1. FailureIsExplainedOrDefault'
  <2>1. CASE failure' = "not_loaded" /\ lastError' = "binary decode error"
    BY <2>1 DEF FailureIsExplainedOrDefault
  <2>2. CASE \E message : Throws(message) \/ Returns(message)
    BY <2>2, Explained
  <2> QED
    BY <2>1, <2>2 DEF BinToJson
<1>2. UNCHANGED <<contracts, held>>
  BY DEF BinToJson
<1>3. ResultsMade' /\ ResultsAreWhole'
  <2>1. CASE UNCHANGED results
    BY <1>2, <2>1, ResultsStay
  <2>2. CASE /\ Loaded(c)
             /\ resultStr' = Result("text before extra data", c, contracts[c])
             /\ UNCHANGED <<resultBin, lastBin, lastText>>
    <3>1. Made(resultStr', contracts)
      BY <2>2, NewIsMade DEF IInv
    <3>2. ResultsMade'
      BY <1>2, <2>2, <3>1 DEF IInv, ResultsMade, AllMade
    <3>3. ResultsAreWhole'
      BY <2>2 DEF IInv, ResultsAreWhole, Result
    <3> QED
      BY <3>2, <3>3
  <2>3. CASE Loaded(c) /\ ReturnsText(Result("text", c, contracts[c]))
    BY <1>2, <2>3, NewIsMade, TextIsKept DEF IInv
  <2> QED
    BY <2>1, <2>2, <2>3 DEF BinToJson
<1> QED
  BY <1>1, <1>2, <1>3, NamesStay DEF IInv

LEMMA AbiJsonToBinPreserves ==
    ASSUME IInv, NEW a \in Abi, AbiJsonToBin(a)
    PROVE  IInv'
<1>1. FailureIsExplainedOrDefault'
  BY Explained DEF AbiJsonToBin
<1>2. UNCHANGED <<contracts, held>>
  BY DEF AbiJsonToBin
<1>3. ResultsMade' /\ ResultsAreWhole'
  BY <1>2, ResultsStay, OtherIsMade, BinIsKept DEF AbiJsonToBin
<1> QED
  BY <1>1, <1>2, <1>3, NamesStay DEF IInv

LEMMA AbiBinToJsonPreserves ==
    ASSUME IInv, NEW a \in Abi, AbiBinToJson(a)
    PROVE  IInv'
<1>1. FailureIsExplainedOrDefault'
  BY Explained DEF AbiBinToJson
<1>2. UNCHANGED <<contracts, held>>
  BY DEF AbiBinToJson
<1>3. ResultsMade' /\ ResultsAreWhole'
  BY <1>2, ResultsStay, OtherIsMade, TextIsKept DEF AbiBinToJson
<1> QED
  BY <1>1, <1>2, <1>3, NamesStay DEF IInv

LEMMA GetBinHexPreserves == IInv /\ GetBinHex => IInv'
<1> SUFFICES ASSUME IInv, GetBinHex PROVE IInv'
  OBVIOUS
<1> DEFINE text == Result("hex", resultBin.contract, resultBin.abi)
<1>1. Made(text, contracts)
  BY DEF IInv, ResultsMade, AllMade, Made, Result
<1>2. ReturnsText(text) /\ ReturnsSilently /\ UNCHANGED <<contracts, held>>
  BY DEF GetBinHex
<1> HIDE DEF text
<1> QED
  BY <1>1, <1>2, TextIsKept, NamesStay, Explained DEF IInv

LEMMA NameToStringPreserves == IInv /\ NameToString => IInv'
  BY OtherIsMade, TextIsKept, NamesStay, Explained DEF NameToString, IInv

-----------------------------------------------------------------------------
\* The invariant holds in every state of a context, whatever is called in
\* whatever order.
THEOREM Invariance == Spec => []IInv
<1>1. IInv /\ [Next]_vars => IInv'
  <2> SUFFICES ASSUME IInv, [Next]_vars PROVE IInv'
    OBVIOUS
  <2>1. ASSUME NEW c \in Contract, NEW a \in Abi, SetAbi(c, a) \/ SetAbiBin(c, a) \/ SetAbiHex(c, a)
        PROVE  IInv'
    BY <2>1, LoadPreserves, NotHexPreserves DEF SetAbi, SetAbiBin, SetAbiHex
  <2>2. ASSUME NEW c \in Contract, NEW i \in Item, GetType(c, i)
        PROVE  IInv'
    BY <2>2, GetTypePreserves
  <2>3. ASSUME NEW c \in Contract, JsonToBin(c) \/ BinToJson(c) \/ HexToJson(c)
        PROVE  IInv'
    BY <2>3, JsonToBinPreserves, BinToJsonPreserves, NotHexPreserves DEF HexToJson
  <2>4. ASSUME NEW a \in Abi, AbiJsonToBin(a) \/ AbiBinToJson(a)
        PROVE  IInv'
    BY <2>4, AbiJsonToBinPreserves, AbiBinToJsonPreserves
  <2>5. CASE GetBinHex \/ NameToString
    BY <2>5, GetBinHexPreserves, NameToStringPreserves
  <2>6. CASE UNCHANGED vars
    <3>1. UNCHANGED <<contracts, held, results, lastError, failure>>
      BY <2>6 DEF vars
    <3>2. FailureIsExplainedOrDefault'
      BY <3>1 DEF IInv, FailureIsExplainedOrDefault, FailureIsExplained
    <3> QED
      BY <3>1, <3>2, ResultsStay, NamesStay DEF IInv
  <2> QED
    BY <2>1, <2>2, <2>3, <2>4, <2>5, <2>6 DEF Next
<1> QED
  BY InitEstablishes, <1>1, PTL DEF Spec

\* Type names, binaries and texts never go out of date, because an abi that
\* is set again does not replace the first.
THEOREM NothingGoesOutOfDate == Spec => []NothingOutdated
<1>1. IInv => NothingOutdated
  BY DEF IInv, NothingOutdated, Current, ResultsMade, NamesMade, AllMade, Made
<1> QED
  BY <1>1, Invariance, PTL

\* A failed call leaves no half-made binary behind, and no text but what a
\* decode wrote before it found extra data.
THEOREM ResultsStayWhole == Spec => []ResultsAreWhole
<1>1. IInv => ResultsAreWhole
  BY DEF IInv
<1> QED
  BY <1>1, Invariance, PTL

\* After a failure abiala_get_error never gives the message of another call.
THEOREM FailuresAreExplained == Spec => []FailureIsExplainedOrDefault
<1>1. IInv => FailureIsExplainedOrDefault
  BY DEF IInv
<1> QED
  BY <1>1, Invariance, PTL
-----------------------------------------------------------------------------
(* What a type is made of.                                                 *)

\* The types reached in n steps, and what the recursion says of them.
Spreads(w, t) ==
    /\ w \in [Nat -> SUBSET CppType]
    /\ w[0] = {t}
    /\ \A n \in Nat : w[n + 1] = WithParts(w[n])

\* The parts of a type are types.
LEMMA PartsAre ==
    ASSUME NEW t \in CppType
    PROVE  Parts(t) \subseteq CppType
<1>1. MembersOf[t] \in Seq([name : STRING, type : CppType]) /\ Elem[t] \in CppType
    BY CppAssumption
<1>2. ASSUME NEW i \in DOMAIN MembersOf[t] PROVE MembersOf[t][i].type \in CppType
  <2> DEFINE M == [name : STRING, type : CppType]
  <2>1. \A m \in M : m.type \in CppType
      OBVIOUS
  <2>2. MembersOf[t] \in Seq(M)
      BY <1>1
  <2> HIDE DEF M
  <2>3. MembersOf[t][i] \in M
      BY <1>2, <2>2
  <2> QED
      BY <2>1, <2>3
<1> QED
    BY <1>1, <1>2 DEF Parts

\* Parts are added to types, and they are types.
LEMMA WithPartsAre ==
    ASSUME NEW S \in SUBSET CppType
    PROVE  WithParts(S) \in SUBSET CppType /\ S \subseteq WithParts(S)
BY PartsAre DEF WithParts

\* The recursion exists.
LEMMA ReachSpreads ==
    ASSUME NEW t \in CppType
    PROVE  Spreads(Reach(t), t)
<1> DEFINE Body(x) == WithParts(x)
           step == [k \in Nat |-> [x \in SUBSET CppType |-> Body(x)]]
           G == CHOOSE g : g = [k \in Nat |-> IF k = 0 THEN {t} ELSE Body(g[k - 1])]
<1>1. \A x \in SUBSET CppType : Body(x) \in SUBSET CppType
    BY WithPartsAre
<1>2. Reach(t) = G
    BY DEF Reach
<1>3. \A x : Body(x) = WithParts(x)
    OBVIOUS
<1> HIDE DEF Body
<1>4. step \in [Nat -> [SUBSET CppType -> SUBSET CppType]]
    BY <1>1
<1>5. PICK f \in [Nat -> SUBSET CppType] : Endless(f, {t}, step)
  <2>1. {t} \in SUBSET CppType
      OBVIOUS
  <2> HIDE DEF step
  <2> QED
    BY <1>4, <2>1, EndlessExists
<1>6. f = [k \in Nat |-> IF k = 0 THEN {t} ELSE Body(f[k - 1])]
  <2>1. ASSUME NEW k \in Nat PROVE f[k] = IF k = 0 THEN {t} ELSE Body(f[k - 1])
    <3>1. CASE k = 0
        BY <1>5, <3>1 DEF Endless
    <3>2. CASE k # 0
        <4>1. k - 1 \in Nat
            BY <3>2
        <4>2. step[k][f[k - 1]] = Body(f[k - 1])
            BY <4>1
        <4> HIDE DEF step
        <4> QED
            BY <1>5, <3>2, <4>2 DEF Endless
    <3> QED
        BY <3>1, <3>2
  <2>2. f = [k \in Nat |-> f[k]]
    OBVIOUS
  <2> QED
    BY <2>1, <2>2
<1>7. G = [k \in Nat |-> IF k = 0 THEN {t} ELSE Body(G[k - 1])]
  <2>1. G = CHOOSE g : g = [k \in Nat |-> IF k = 0 THEN {t} ELSE Body(g[k - 1])]
    OBVIOUS
  <2> HIDE DEF G
  <2> QED
    BY <1>6, <2>1, Zenon
<1> HIDE DEF G
<1>8. G[0] = {t} /\ \A k \in Nat : G[k + 1] = Body(G[k])
  <2>1. \A k \in Nat : k + 1 \in Nat /\ k + 1 # 0 /\ (k + 1) - 1 = k
      OBVIOUS
  <2> QED
      BY <1>7, <2>1
<1>9. G \in [Nat -> SUBSET CppType]
  <2> DEFINE T == {k \in Nat : G[k] \in SUBSET CppType}
  <2>1. 0 \in T
      BY <1>8
  <2>2. ASSUME NEW k \in Nat, k \in T PROVE k + 1 \in T
      BY <1>1, <1>8, <2>2
  <2> HIDE DEF T
  <2>3. Nat \subseteq T
      BY <2>1, <2>2, NatInduct
  <2> QED
      BY <1>7, <2>3 DEF T
<1> QED
    BY <1>2, <1>3, <1>8, <1>9 DEF Spreads

\* In each step there is a new type, until there is none: then there will never
\* be one.
LEMMA SpreadOrClosed ==
    ASSUME NEW t \in CppType, NEW w, Spreads(w, t), NEW n \in Nat
    PROVE  w[n + 1] = w[n] \/ Cardinality(w[n]) >= n + 1
<1> DEFINE T == {k \in Nat : w[k + 1] = w[k] \/ Cardinality(w[k]) >= k + 1}
<1>1. 0 \in T
  <2>1. Cardinality({t}) = 1
      BY FS_Singleton
  <2>2. w[0] = {t}
      BY DEF Spreads
  <2> QED
      BY <2>1, <2>2
<1>2. ASSUME NEW k \in Nat, k \in T PROVE k + 1 \in T
  <2>1. /\ k + 1 \in Nat /\ w[k + 1] = WithParts(w[k]) /\ w[(k + 1) + 1] = WithParts(w[k + 1])
        /\ w[k] \in SUBSET CppType /\ w[k + 1] \in SUBSET CppType
      BY DEF Spreads
  <2>2. CASE w[k + 1] = w[k]
      BY <2>1, <2>2
  <2>3. CASE w[k + 1] # w[k]
    <3>1. Cardinality(w[k]) >= k + 1
        BY <1>2, <2>3
    <3>2. w[k] \subseteq w[k + 1]
        BY <2>1, WithPartsAre
    <3>3. IsFiniteSet(w[k + 1]) /\ IsFiniteSet(w[k])
        BY <2>1, CppAssumption, FS_Subset
    <3>4. Cardinality(w[k]) < Cardinality(w[k + 1])
      <4>1. Cardinality(w[k]) <= Cardinality(w[k + 1]) /\ Cardinality(w[k]) # Cardinality(w[k + 1])
          BY <2>3, <3>2, <3>3, FS_Subset
      <4>2. Cardinality(w[k]) \in Nat /\ Cardinality(w[k + 1]) \in Nat
          BY <3>3, FS_CardinalityType
      <4> QED
          BY <4>1, <4>2
    <3>5. Cardinality(w[k]) \in Nat /\ Cardinality(w[k + 1]) \in Nat
        BY <3>3, FS_CardinalityType
    <3>6. Cardinality(w[k + 1]) >= (k + 1) + 1
        BY <3>1, <3>4, <3>5
    <3> QED
        BY <2>1, <3>6
  <2> QED
      BY <2>2, <2>3
<1> HIDE DEF T
<1>3. Nat \subseteq T
    BY <1>1, <1>2, NatInduct
<1> QED
    BY <1>3 DEF T

\* What a type is made of is closed, and there is nothing else in it.
LEMMA MadeOfIs ==
    ASSUME NEW t \in CppType
    PROVE  /\ MadeOf(t) \subseteq CppType /\ t \in MadeOf(t)
           /\ \A u \in MadeOf(t) : Parts(u) \subseteq MadeOf(t)
           /\ \A S : t \in S /\ (\A u \in S \cap MadeOf(t) : Parts(u) \subseteq S) => MadeOf(t) \subseteq S
<1> DEFINE w == Reach(t)
           c == Cardinality(CppType)
<1>1. Spreads(w, t)
    BY ReachSpreads
<1>2. c \in Nat
    BY CppAssumption, FS_CardinalityType
<1>3. MadeOf(t) = w[c]
    BY DEF MadeOf, Reached
<1> HIDE DEF w
<1>4. w[c] \subseteq CppType /\ Cardinality(w[c]) <= c
  <2>1. w[c] \in SUBSET CppType
      BY <1>1, <1>2 DEF Spreads
  <2> QED
      BY <2>1, CppAssumption, FS_Subset
<1> HIDE DEF c
<1>5. w[c + 1] = w[c]
  <2>1. Cardinality(w[c]) \in Nat
      BY <1>4, CppAssumption, FS_Subset, FS_CardinalityType
  <2>2. ~(Cardinality(w[c]) >= c + 1)
      BY <1>2, <1>4, <2>1
  <2> QED
      BY <1>1, <1>2, <2>2, SpreadOrClosed
<1>6. ASSUME NEW u \in w[c] PROVE Parts(u) \subseteq w[c]
  <2>1. w[c] = WithParts(w[c])
      BY <1>1, <1>2, <1>5 DEF Spreads
  <2> QED
      BY <1>6, <2>1 DEF WithParts
<1>7. t \in w[c]
  <2> DEFINE T == {k \in Nat : t \in w[k]}
  <2>1. 0 \in T
      BY <1>1 DEF Spreads
  <2>2. ASSUME NEW k \in Nat, k \in T PROVE k + 1 \in T
      BY <1>1, <2>2 DEF Spreads, WithParts
  <2> HIDE DEF T
  <2>3. Nat \subseteq T
      BY <2>1, <2>2, NatInduct
  <2> QED
      BY <1>2, <2>3 DEF T
<1>8. ASSUME NEW S, t \in S, \A u \in S \cap w[c] : Parts(u) \subseteq S PROVE w[c] \subseteq S
  <2> DEFINE T == {k \in Nat : w[k] \subseteq w[c] /\ w[k] \subseteq S}
  <2>1. 0 \in T
      BY <1>1, <1>7, <1>8 DEF Spreads
  <2>2. ASSUME NEW k \in Nat, k \in T PROVE k + 1 \in T
      BY <1>1, <1>6, <1>8, <2>2 DEF Spreads, WithParts
  <2> HIDE DEF T
  <2>3. Nat \subseteq T
      BY <2>1, <2>2, NatInduct
  <2> QED
      BY <1>2, <2>3 DEF T
<1> QED
    BY <1>3, <1>4, <1>6, <1>7, <1>8

\* The types that are used are types, with all that they are made of.
LEMMA UsedIs ==
    /\ Addable \subseteq Used /\ Used \subseteq CppType
    /\ \A t \in Used : Parts(t) \subseteq Used /\ MadeOf(t) \subseteq Used
<1>1. Addable \subseteq CppType
    BY CppAssumption
<1>2. Addable \subseteq Used /\ Used \subseteq CppType
    BY <1>1, MadeOfIs DEF Used
<1>3. ASSUME NEW t \in Used PROVE Parts(t) \subseteq Used /\ MadeOf(t) \subseteq Used
  <2>1. PICK a \in Addable : t \in MadeOf(a)
      BY DEF Used
  <2>2. a \in CppType /\ t \in CppType
      BY <1>1, <1>2
  <2>3. Parts(t) \subseteq MadeOf(a)
      BY <2>1, <2>2, MadeOfIs
  <2>4. MadeOf(t) \subseteq MadeOf(a)
    <3>1. \A u \in MadeOf(a) \cap MadeOf(t) : Parts(u) \subseteq MadeOf(a)
        BY <2>2, MadeOfIs
    <3> QED
        BY <2>1, <2>2, <3>1, MadeOfIs
  <2> QED
      BY <2>3, <2>4 DEF Used
<1> QED
    BY <1>2, <1>3
-----------------------------------------------------------------------------
(* The activations of add_type.                                            *)

Activation == [at : {"begin", "await", "called"}, type : Used, member : Nat]
\* The parts of a type in the order in which they are added, and the one that is
\* under an activation.
PartAt(t, i) == IF Kind[t] \in Wrapping THEN Elem[t] ELSE MembersOf[t][i].type
IsPart(t, i) ==
    \/ Kind[t] \in Wrapping /\ i = 1
    \/ Kind[t] \in {"struct", "variant"} /\ i \in 1 .. Len(MembersOf[t])
Expected(f) == IF f.at = "called" THEN f.type ELSE PartAt(f.type, f.member)

\* Only the innermost one may begin, only the outermost one was called from
\* outside; each was called for a part of the next.
Bottom(a) == a[Len(a)]
Nests(a) ==
    /\ Bottom(a).at = "called" /\ Bottom(a).type \in Addable
    /\ \A j \in 1 .. Len(a) : a[j].type \in MadeOf(Bottom(a).type)
    /\ \A j \in 1 .. Len(a) : a[j].at = "called" => j = Len(a)
    /\ \A j \in 1 .. Len(a) : a[j].at = "begin" => j = 1
    /\ \A j \in 1 .. Len(a) :
           a[j].at = "await" => a[j] = Awaits(a[j].type, a[j].member) /\ IsPart(a[j].type, a[j].member)
    /\ \A j \in 1 .. Len(a) : j # Len(a) => a[j].type = Expected(a[j + 1])

\* No struct has two activations.
IsAt(a, j, u) == a[j].at = "await" /\ a[j].type = u
Once(a) ==
    \A j, k \in 1 .. Len(a) : \A u \in Used :
        Kind[u] = "struct" /\ IsAt(a, j, u) /\ IsAt(a, k, u) => j = k

\* A part is used.
LEMMA PartIsUsed ==
    ASSUME NEW t \in Used, NEW i, IsPart(t, i)
    PROVE  PartAt(t, i) \in Used /\ PartAt(t, i) \in Parts(t) /\ i \in Nat
<1>1. Parts(t) \subseteq Used /\ t \in CppType
    BY UsedIs
<1>2. PartAt(t, i) \in Parts(t) /\ i \in Nat
  <2>1. CASE Kind[t] \in Wrapping
      BY <2>1 DEF PartAt, Parts, IsPart, Wrapping
  <2>2. CASE Kind[t] \notin Wrapping
    <3>1. i \in 1 .. Len(MembersOf[t])
        BY <2>2 DEF IsPart
    <3>2. MembersOf[t] \in Seq([name : STRING, type : CppType])
        BY <1>1, CppAssumption
    <3>3. DOMAIN MembersOf[t] = 1 .. Len(MembersOf[t])
        BY <3>2, SeqDef
    <3> QED
        BY <2>2, <3>1, <3>3 DEF PartAt, Parts
  <2> QED
      BY <2>1, <2>2
<1> QED
    BY <1>1, <1>2

\* All parts are among them.
LEMMA PartsAreAt ==
    ASSUME NEW t \in Used, NEW p \in Parts(t)
    PROVE  \E i \in Nat : IsPart(t, i) /\ p = PartAt(t, i)
<1>1. t \in CppType
    BY UsedIs
<1>2. CASE Kind[t] \in Wrapping
  <2>1. p = Elem[t] /\ IsPart(t, 1) /\ PartAt(t, 1) = Elem[t]
      BY <1>2 DEF Parts, IsPart, PartAt
  <2> QED
      BY <2>1
<1>3. CASE Kind[t] \notin Wrapping
  <2>1. MembersOf[t] \in Seq([name : STRING, type : CppType])
      BY <1>1, CppAssumption
  <2>2. DOMAIN MembersOf[t] = 1 .. Len(MembersOf[t]) /\ Len(MembersOf[t]) \in Nat
      BY <2>1, SeqDef, LenProperties
  <2>3. PICK i \in DOMAIN MembersOf[t] : p = MembersOf[t][i].type
      BY <1>3 DEF Parts
  <2>4. MembersOf[t] # <<>>
      BY <2>2, <2>3
  <2>5. Kind[t] \in {"struct", "variant"}
      BY <1>1, <1>3, <2>4, CppAssumption, UsedAssumption
  <2> QED
      BY <1>3, <2>2, <2>3, <2>5 DEF IsPart, PartAt
<1> QED
    BY <1>2, <1>3

\* What is left when the innermost activation ends.
LEMMA TailIs ==
    ASSUME NEW S, NEW a \in Seq(S), a # <<>>
    PROVE  /\ Tail(a) \in Seq(S) /\ Len(Tail(a)) = Len(a) - 1 /\ Len(a) \in Nat \ {0}
           /\ \A j \in 1 .. Len(a) - 1 : Tail(a)[j] = a[j + 1]
           /\ Head(a) = a[1]
<1>1. Len(a) \in Nat \ {0}
    BY EmptySeq, LenProperties
<1> QED
    BY <1>1, HeadTailProperties

\* What there is when it calls.
LEMMA TwoOnTail ==
    ASSUME NEW S, NEW a \in Seq(S), a # <<>>, NEW x \in S, NEW y \in S, NEW b, b = <<x, y>> \o Tail(a)
    PROVE  /\ b \in Seq(S) /\ Len(b) = Len(a) + 1 /\ b[1] = x /\ b[2] = y
           /\ \A j \in 3 .. Len(b) : b[j] = a[j - 1]
<1>1. Tail(a) \in Seq(S) /\ Len(Tail(a)) = Len(a) - 1 /\ Len(a) \in Nat \ {0}
      /\ \A j \in 1 .. Len(a) - 1 : Tail(a)[j] = a[j + 1]
    BY TailIs
<1>2. <<x, y>> \in Seq(S) /\ Len(<<x, y>>) = 2 /\ <<x, y>>[1] = x /\ <<x, y>>[2] = y
    OBVIOUS
<1>3. /\ b \in Seq(S) /\ Len(b) = 2 + Len(Tail(a))
      /\ \A j \in 1 .. Len(b) : b[j] = IF j <= 2 THEN <<x, y>>[j] ELSE Tail(a)[j - 2]
    BY <1>1, <1>2, ConcatProperties
<1>4. ASSUME NEW j \in 3 .. Len(b) PROVE b[j] = a[j - 1]
  <2>1. j - 2 \in 1 .. Len(a) - 1 /\ (j - 2) + 1 = j - 1 /\ ~(j <= 2) /\ j \in 1 .. Len(b)
      BY <1>1, <1>3
  <2> QED
      BY <1>1, <1>3, <2>1
<1> QED
    BY <1>1, <1>2, <1>3, <1>4

\* The innermost activation ends: the next one has got what it was called for.
LEMMA PopNests ==
    ASSUME NEW a \in Seq(Activation), a # <<>>, Nests(a), Once(a), a[1].at # "called"
    PROVE  LET b == Tail(a) IN
           /\ b \in Seq(Activation) /\ b # <<>> /\ Nests(b) /\ Once(b)
           /\ b[1].at # "begin" /\ Expected(b[1]) = a[1].type
           /\ \A j \in 1 .. Len(b) : j + 1 \in 1 .. Len(a) /\ b[j] = a[j + 1]
           /\ \A j \in 1 .. Len(a) : j # 1 => j - 1 \in 1 .. Len(b) /\ a[j] = b[j - 1]
<1> DEFINE b == Tail(a)
<1>1. /\ b \in Seq(Activation) /\ Len(b) = Len(a) - 1 /\ Len(a) \in Nat \ {0}
      /\ \A j \in 1 .. Len(a) - 1 : b[j] = a[j + 1]
    BY TailIs
<1> HIDE DEF b
<1>2. Len(a) # 1
    BY <1>1 DEF Nests, Bottom
<1>3. /\ Len(b) \in Nat \ {0} /\ Len(b) + 1 = Len(a) /\ b[Len(b)] = a[Len(a)]
      /\ \A j \in 1 .. Len(b) : j + 1 \in 1 .. Len(a) /\ b[j] = a[j + 1]
    BY <1>1, <1>2
<1>4. \A j \in 1 .. Len(a) : j # 1 => j - 1 \in 1 .. Len(b) /\ a[j] = b[j - 1]
  <2> SUFFICES ASSUME NEW j \in 1 .. Len(a), j # 1 PROVE j - 1 \in 1 .. Len(b) /\ a[j] = b[j - 1]
      OBVIOUS
  <2>1. j - 1 \in 1 .. Len(b) /\ (j - 1) + 1 = j
      BY <1>1
  <2> QED
      BY <1>3, <2>1
<1>5. Bottom(b) = Bottom(a)
    BY <1>3 DEF Bottom
<1>6. Nests(b)
  <2>1. \A j \in 1 .. Len(b) : (j = Len(b) <=> j + 1 = Len(a)) /\ j + 1 # 1
      BY <1>3
  <2>2. \A j \in 1 .. Len(b) : b[j].at # "begin"
      BY <1>3, <2>1 DEF Nests
  <2>3. ASSUME NEW j \in 1 .. Len(b), j # Len(b) PROVE b[j].type = Expected(b[j + 1])
    <3>1. j + 1 \in 1 .. Len(b) /\ j + 1 \in 1 .. Len(a) /\ j + 1 # Len(a)
        BY <1>3, <2>3
    <3>2. a[j + 1].type = Expected(a[(j + 1) + 1])
        BY <3>1 DEF Nests
    <3> QED
        BY <1>3, <3>1, <3>2
  <2> QED
      BY <1>3, <1>5, <2>1, <2>2, <2>3 DEF Nests
<1>7. Once(b)
  <2> SUFFICES ASSUME NEW j \in 1 .. Len(b), NEW k \in 1 .. Len(b), NEW u \in Used,
                      Kind[u] = "struct", IsAt(b, j, u), IsAt(b, k, u)
               PROVE  j = k
      BY DEF Once
  <2>1. IsAt(a, j + 1, u) /\ IsAt(a, k + 1, u)
      BY <1>3 DEF IsAt
  <2>2. j + 1 = k + 1
      BY <1>3, <2>1 DEF Once
  <2> QED
      BY <2>2
<1>8. b[1].at # "begin" /\ Expected(b[1]) = a[1].type
  <2>1. 1 \in 1 .. Len(b) /\ b[1] = a[1 + 1] /\ 1 \in 1 .. Len(a) /\ 1 # Len(a) /\ 1 + 1 \in 1 .. Len(a) /\ 1 + 1 # 1
      BY <1>3
  <2> QED
      BY <2>1 DEF Nests
<1>9. b # <<>>
    BY <1>3
<1> QED
    BY <1>1, <1>3, <1>4, <1>6, <1>7, <1>8, <1>9 DEF b

\* Places in a sequence that is one longer.
LEMMA Places ==
    ASSUME NEW n \in Nat, n # 0, n # 1, NEW m, m = n + 1
    PROVE  /\ m \in Nat /\ 2 \in 1 .. m /\ 1 \in 1 .. m /\ 2 # m /\ 1 # m /\ m \in 3 .. m /\ m - 1 = n
           /\ \A j \in 1 .. m : j \in {1, 2} \/ (j \in 3 .. m /\ j - 1 \in 2 .. n)
           /\ \A j \in 1 .. n : j # 1 => j + 1 \in 3 .. m /\ j + 1 \in 1 .. m /\ (j + 1) - 1 = j
           /\ \A j \in 3 .. m : /\ j - 1 \in 1 .. n /\ (j - 1 = n <=> j = m) /\ j - 1 # 1
                               /\ j # m => j + 1 \in 3 .. m /\ (j + 1) - 1 = (j - 1) + 1
OBVIOUS

CallPart(t, i) == <<Begins(PartAt(t, i)), Awaits(t, i)>>
HasCalled(a, b, t, i) ==
    /\ b \in Seq(Activation) /\ b # <<>> /\ Nests(b) /\ Once(b)
    /\ b[1].at = "begin" /\ Len(b) \in Nat /\ 2 \in 1 .. Len(b) /\ b[1] = Begins(PartAt(t, i)) /\ b[2] = Awaits(t, i)
    /\ \A j \in 1 .. Len(b) : j \in {1, 2} \/ (j - 1 \in 2 .. Len(a) /\ b[j] = a[j - 1])
    /\ \A j \in 1 .. Len(a) : j # 1 => j + 1 \in 1 .. Len(b) /\ a[j] = b[j + 1]
\* The innermost activation calls for its i-th part.
LEMMA CallNests ==
    ASSUME NEW a \in Seq(Activation), a # <<>>, Nests(a), Once(a), a[1].at # "called",
           NEW t, t = a[1].type, NEW i, IsPart(t, i),
           Kind[t] = "struct" => \A j \in 2 .. Len(a) : ~IsAt(a, j, t),
           NEW b, b = CallPart(t, i) \o Tail(a)
    PROVE  HasCalled(a, b, t, i)
<1>1. Len(a) \in Nat \ {0} /\ \A j \in 1 .. Len(a) : a[j] \in Activation
    BY TailIs
<1>2. t \in Used
    BY <1>1 DEF Activation
<1>3. PartAt(t, i) \in Used /\ PartAt(t, i) \in Parts(t) /\ i \in Nat
    BY <1>2, PartIsUsed
<1>4. Begins(PartAt(t, i)) \in Activation /\ Awaits(t, i) \in Activation
    BY <1>2, <1>3 DEF Begins, Awaits, Activation
<1>5. /\ b \in Seq(Activation) /\ Len(b) = Len(a) + 1
      /\ b[1] = Begins(PartAt(t, i)) /\ b[2] = Awaits(t, i)
      /\ \A j \in 3 .. Len(b) : b[j] = a[j - 1]
    BY <1>4, TwoOnTail DEF CallPart
<1>6. Len(a) # 1
    BY <1>1 DEF Nests, Bottom
<1> DEFINE n == Len(a)
           longer == Len(b)
<1>0. n \in Nat /\ n # 0 /\ n # 1 /\ longer = n + 1
    BY <1>1, <1>5, <1>6
<1> HIDE DEF n, longer
<1>16. /\ longer \in Nat /\ 2 \in 1 .. longer /\ 1 \in 1 .. longer /\ 2 # longer /\ 1 # longer /\ longer \in 3 .. longer /\ longer - 1 = n
       /\ \A j \in 1 .. longer : j \in {1, 2} \/ (j \in 3 .. longer /\ j - 1 \in 2 .. n)
       /\ \A j \in 1 .. n : j # 1 => j + 1 \in 3 .. longer /\ j + 1 \in 1 .. longer /\ (j + 1) - 1 = j
       /\ \A j \in 3 .. longer : /\ j - 1 \in 1 .. n /\ (j - 1 = n <=> j = longer) /\ j - 1 # 1
                           /\ j # longer => j + 1 \in 3 .. longer /\ (j + 1) - 1 = (j - 1) + 1
    BY <1>0, Places
<1>17. n = Len(a) /\ longer = Len(b)
    BY DEF n, longer
<1>7. /\ Len(b) \in Nat /\ 2 \in 1 .. Len(b) /\ 2 # Len(b) /\ 1 # Len(b) /\ Len(b) \in 3 .. Len(b) /\ Len(b) - 1 = Len(a)
      /\ \A j \in 1 .. Len(b) : j \in {1, 2} \/ (j \in 3 .. Len(b) /\ j - 1 \in 2 .. Len(a) /\ b[j] = a[j - 1])
    BY <1>5, <1>16, <1>17
<1>8. \A j \in 1 .. Len(a) : j # 1 => j + 1 \in 1 .. Len(b) /\ a[j] = b[j + 1]
  <2> SUFFICES ASSUME NEW j \in 1 .. Len(a), j # 1 PROVE j + 1 \in 1 .. Len(b) /\ a[j] = b[j + 1]
      OBVIOUS
  <2>1. j + 1 \in 1 .. Len(b) /\ j + 1 \in 3 .. Len(b) /\ (j + 1) - 1 = j
      BY <1>16, <1>17
  <2> QED
      BY <1>5, <2>1
<1>9. Bottom(b) = Bottom(a)
    BY <1>5, <1>7 DEF Bottom
<1>10. /\ b[1].at = "begin" /\ b[1].type = PartAt(t, i)
       /\ b[2].at = "await" /\ b[2].type = t /\ b[2].member = i
    BY <1>5 DEF Begins, Awaits
<1>11. Bottom(a).type \in CppType /\ t \in MadeOf(Bottom(a).type)
  <2>1. 1 \in 1 .. Len(a)
      BY <1>1
  <2> QED
      BY <2>1, UsedIs DEF Nests
<1>12. PartAt(t, i) \in MadeOf(Bottom(a).type)
    BY <1>3, <1>11, MadeOfIs
<1>13. Nests(b)
  <2>1. ASSUME NEW j \in 1 .. Len(b), j # Len(b) PROVE b[j].type = Expected(b[j + 1])
    <3>1. CASE j = 1
      <4>1. j + 1 = 2
          BY <3>1
      <4> QED
          BY <1>10, <3>1, <4>1 DEF Expected
    <3>2. CASE j = 2
      <4>1. j + 1 \in 3 .. Len(b) /\ (j + 1) - 1 = 1 + 1 /\ 1 \in 1 .. Len(a) /\ 1 # Len(a)
          BY <1>1, <1>6, <1>7, <3>2
      <4>2. a[1].type = Expected(a[1 + 1])
          BY <4>1 DEF Nests
      <4> QED
          BY <1>5, <1>10, <3>2, <4>1, <4>2
    <3>3. CASE j \notin {1, 2}
      <4>1. /\ j - 1 \in 2 .. Len(a) /\ b[j] = a[j - 1]
            /\ j + 1 \in 3 .. Len(b) /\ (j + 1) - 1 = (j - 1) + 1 /\ j - 1 \in 1 .. Len(a) /\ j - 1 # Len(a)
          BY <1>7, <1>16, <1>17, <2>1, <3>3
      <4>2. a[j - 1].type = Expected(a[(j - 1) + 1])
          BY <4>1 DEF Nests
      <4> QED
          BY <1>5, <4>1, <4>2
    <3> QED
        BY <3>1, <3>2, <3>3
  <2>2. ASSUME NEW j \in 1 .. Len(b)
        PROVE  /\ b[j].type \in MadeOf(Bottom(a).type)
               /\ b[j].at = "called" => j = Len(b)
               /\ b[j].at = "begin" => j = 1
               /\ b[j].at = "await" => b[j] = Awaits(b[j].type, b[j].member) /\ IsPart(b[j].type, b[j].member)
    <3>1. CASE j = 1
        BY <1>10, <1>12, <3>1
    <3>2. CASE j = 2
        BY <1>5, <1>10, <1>11, <3>2
    <3>3. CASE j \notin {1, 2}
      <4>1. j - 1 \in 1 .. Len(a) /\ b[j] = a[j - 1] /\ j - 1 # 1 /\ (j - 1 = Len(a) => j = Len(b))
          BY <1>1, <1>7, <3>3
      <4> QED
          BY <4>1 DEF Nests
    <3> QED
        BY <3>1, <3>2, <3>3
  <2>3. Bottom(a).at = "called" /\ Bottom(a).type \in Addable
      BY DEF Nests
  <2> QED
      BY <1>9, <2>1, <2>2, <2>3 DEF Nests
<1>14. Once(b)
  <2> SUFFICES ASSUME NEW j \in 1 .. Len(b), NEW k \in 1 .. Len(b), NEW u \in Used,
                      Kind[u] = "struct", IsAt(b, j, u), IsAt(b, k, u)
               PROVE  j = k
      BY DEF Once
  <2>1. j # 1 /\ k # 1
      BY <1>10 DEF IsAt
  <2>2. ASSUME NEW m \in 1 .. Len(b), m \notin {1, 2}, IsAt(b, m, u)
        PROVE  m - 1 \in 2 .. Len(a) /\ m - 1 \in 1 .. Len(a) /\ IsAt(a, m - 1, u) /\ u # t
    <3>1. m - 1 \in 2 .. Len(a) /\ m - 1 \in 1 .. Len(a) /\ b[m] = a[m - 1]
        BY <1>1, <1>7, <2>2
    <3>2. IsAt(a, m - 1, u)
        BY <2>2, <3>1 DEF IsAt
    <3> QED
        BY <3>1, <3>2
  <2>3. CASE j = 2 \/ k = 2
    <3>1. u = t
        BY <1>10, <2>3 DEF IsAt
    <3> QED
        BY <2>1, <2>2, <3>1
  <2>4. CASE j # 2 /\ k # 2
    <3>1. j - 1 = k - 1
        BY <2>1, <2>2, <2>4 DEF Once
    <3> QED
        BY <3>1
  <2> QED
      BY <2>3, <2>4
<1>15. b # <<>>
    BY <1>5, <1>7
<1> QED
    BY <1>5, <1>7, <1>8, <1>10, <1>13, <1>14, <1>15 DEF HasCalled
-----------------------------------------------------------------------------
(* What an abi has while types are added to it.                            *)

Known(g, t) == TypeName[t] \in DOMAIN g
NodeIn(g, t) == g[TypeName[t]]
\* A struct with its first k fields.
Begun(t, k) == AbiNode("object", TypeName[t], [i \in 1 .. k |-> FieldOf(t, i)])
PartsKnown(g, t, k) == \A i \in 1 .. k : Known(g, PartAt(t, i))

\* An activation that waits for a member has added those before it.
Waits(g, t, i) ==
    /\ Kind[t] = "struct" => Known(g, t) /\ NodeIn(g, t) = Begun(t, i - 1)
    /\ PartsKnown(g, t, i - 1)
AllWait(g, a) == \A j \in 1 .. Len(a) : a[j].at = "await" => Waits(g, a[j].type, a[j].member)

\* The innermost call has been answered.
Arrived(g, a) == a # <<>> /\ a[1].at # "begin" => Known(g, Expected(a[1]))

\* A type that is known is complete; a struct may lack fields if an activation is
\* at work on it, or was when a call failed.
UnderWork(a, t, k) == \E j \in 1 .. Len(a) : a[j] = Awaits(t, k + 1)
StandsAt(g, a, broken, t, k) ==
    /\ NodeIn(g, t) = Begun(t, k) /\ PartsKnown(g, t, k)
    /\ k # Len(MembersOf[t]) => t \in broken \/ UnderWork(a, t, k)
Whole(g, t) == NodeIn(g, t) = NodeFor(t) /\ \A p \in Parts(t) : Known(g, p)
Stands(g, a, broken, t) ==
    IF Kind[t] = "struct" THEN \E k \in 0 .. Len(MembersOf[t]) : StandsAt(g, a, broken, t, k)
    ELSE Whole(g, t)
AllStand(g, a, broken) == \A t \in Used : Known(g, t) => Stands(g, a, broken, t)

\* The structs that calls which failed may have left without fields.
Broken == {u \in Used : Kind[u] = "struct" /\ \E f \in Failed : u \in MadeOf(f)}

Call == [type : Addable, ok : BOOLEAN]
AddInv ==
    /\ activations \in Seq(Activation) /\ calls \in Seq(Call)
    /\ activations # <<>> => Nests(activations) /\ Once(activations)
    /\ Arrived(abi, activations) /\ AllWait(abi, activations)
    /\ AllStand(abi, activations, Broken)
    /\ AddedAreComplete /\ WrappersAreLegal

\* One step changes no more than the node of one type.
OnlyAt(g, h, t) ==
    /\ DOMAIN g \subseteq DOMAIN h /\ DOMAIN h \subseteq DOMAIN g \cup {TypeName[t]}
    /\ \A n \in DOMAIN g : n # TypeName[t] => h[n] = g[n]
\* The activations that are not the innermost one stay.
Below(a, b) == \A j \in 2 .. Len(a) : \E k \in 1 .. Len(b) : b[k] = a[j]

\* The other types have their nodes as before.
LEMMA OthersKept ==
    ASSUME NEW g, NEW h, NEW t \in Used, OnlyAt(g, h, t), NEW u \in Used
    PROVE  /\ Known(g, u) => Known(h, u)
           /\ u # t /\ Known(h, u) => Known(g, u) /\ NodeIn(h, u) = NodeIn(g, u)
<1>1. u # t => TypeName[u] # TypeName[t]
    BY UsedAssumption
<1> QED
    BY <1>1 DEF OnlyAt, Known, NodeIn

\* Parts that are known stay known.
LEMMA PartsKept ==
    ASSUME NEW g, NEW h, NEW t \in Used, OnlyAt(g, h, t), NEW u \in Used, NEW k \in Nat,
           \A i \in 1 .. k : IsPart(u, i), PartsKnown(g, u, k)
    PROVE  PartsKnown(h, u, k)
<1>1. ASSUME NEW i \in 1 .. k PROVE Known(h, PartAt(u, i))
  <2>1. PartAt(u, i) \in Used
      BY PartIsUsed
  <2> QED
      BY <2>1, OthersKept DEF PartsKnown
<1> QED
    BY <1>1 DEF PartsKnown

\* The members of a type.
LEMMA MembersAre ==
    ASSUME NEW t \in Used
    PROVE  /\ Len(MembersOf[t]) \in Nat /\ DOMAIN MembersOf[t] = 1 .. Len(MembersOf[t])
           /\ Kind[t] \in {"struct", "variant"} => \A i \in 1 .. Len(MembersOf[t]) : IsPart(t, i)
           /\ \A i \in Nat : IsPart(t, i) => i # 0 /\ \A k \in 1 .. i - 1 : IsPart(t, k)
<1>1. t \in CppType
    BY UsedIs
<1>2. MembersOf[t] \in Seq([name : STRING, type : CppType])
    BY <1>1, CppAssumption
<1>3. Len(MembersOf[t]) \in Nat /\ DOMAIN MembersOf[t] = 1 .. Len(MembersOf[t])
    BY <1>2, LenProperties
<1>4. ASSUME NEW i \in Nat, IsPart(t, i) PROVE i # 0 /\ \A k \in 1 .. i - 1 : IsPart(t, k)
  <2>1. CASE Kind[t] \in Wrapping
      BY <1>4, <2>1 DEF IsPart, Wrapping
  <2>2. CASE Kind[t] \notin Wrapping
    <3>1. Kind[t] \in {"struct", "variant"} /\ i \in 1 .. Len(MembersOf[t])
        BY <1>4, <2>2 DEF IsPart
    <3>2. \A k \in 1 .. i - 1 : k \in 1 .. Len(MembersOf[t])
        BY <1>3, <3>1
    <3> QED
        BY <1>3, <3>1, <3>2 DEF IsPart
  <2> QED
      BY <2>1, <2>2
<1> QED
    BY <1>3, <1>4 DEF IsPart

\* What stands still stands when the node of another type changes.
LEMMA StandsKept ==
    ASSUME NEW g, NEW h, NEW t \in Used, OnlyAt(g, h, t), NEW a, NEW b, NEW broken, NEW more,
           Below(a, b), broken \subseteq more, a[1].type = t,
           NEW u \in Used, u # t, Known(g, u), Stands(g, a, broken, u)
    PROVE  Stands(h, b, more, u)
<1>1. NodeIn(h, u) = NodeIn(g, u)
    BY OthersKept
<1>2. CASE Kind[u] = "struct"
  <2>1. PICK k \in 0 .. Len(MembersOf[u]) : StandsAt(g, a, broken, u, k)
      BY <1>2 DEF Stands
  <2>2. k \in Nat /\ \A i \in 1 .. k : IsPart(u, i)
    <3>1. Len(MembersOf[u]) \in Nat
        BY MembersAre
    <3>2. k \in Nat /\ \A i \in 1 .. k : i \in 1 .. Len(MembersOf[u])
        BY <2>1, <3>1
    <3> QED
        BY <1>2, <3>2, MembersAre
  <2>3. PartsKnown(h, u, k)
      BY <2>1, <2>2, PartsKept DEF StandsAt
  <2>4. UnderWork(a, u, k) => UnderWork(b, u, k)
    <3> SUFFICES ASSUME UnderWork(a, u, k) PROVE UnderWork(b, u, k)
        OBVIOUS
    <3>1. PICK j \in 1 .. Len(a) : a[j] = Awaits(u, k + 1)
        BY DEF UnderWork
    <3>2. a[j].type = u
        BY <3>1 DEF Awaits
    <3>3. j # 1
        BY <3>2
    <3>4. j \in 2 .. Len(a)
        BY <3>3
    <3>5. PICK i \in 1 .. Len(b) : b[i] = a[j]
        BY <3>4 DEF Below
    <3> QED
        BY <3>1, <3>5 DEF UnderWork
  <2>5. StandsAt(h, b, more, u, k)
      BY <1>1, <2>1, <2>3, <2>4 DEF StandsAt
  <2> QED
      BY <1>2, <2>5 DEF Stands
<1>3. CASE Kind[u] # "struct"
  <2>1. Whole(g, u)
      BY <1>3 DEF Stands
  <2>2. ASSUME NEW p \in Parts(u) PROVE Known(h, p)
    <3>1. p \in Used /\ Known(g, p)
        BY <2>1, UsedIs DEF Whole
    <3> QED
        BY <3>1, OthersKept
  <2>3. Whole(h, u)
      BY <1>1, <2>1, <2>2 DEF Whole
  <2> QED
      BY <1>3, <2>3 DEF Stands
<1> QED
    BY <1>2, <1>3

\* All types stand after the step if the one it changes does.
LEMMA AllStandKept ==
    ASSUME NEW g, NEW h, NEW t \in Used, OnlyAt(g, h, t), NEW a, NEW b, NEW broken,
           Below(a, b), a[1].type = t, AllStand(g, a, broken),
           Known(h, t) => Stands(h, b, broken, t)
    PROVE  AllStand(h, b, broken)
<1>1. ASSUME NEW u \in Used, u # t, Known(h, u) PROVE Stands(h, b, broken, u)
  <2>1. Known(g, u)
      BY <1>1, OthersKept
  <2>2. Stands(g, a, broken, u)
      BY <2>1 DEF AllStand
  <2> QED
      BY <1>1, <2>1, <2>2, StandsKept
<1> QED
    BY <1>1 DEF AllStand

\* What waits still waits.
LEMMA WaitsKept ==
    ASSUME NEW g, NEW h, NEW t \in Used, OnlyAt(g, h, t), NEW u \in Used, NEW i \in Nat, IsPart(u, i),
           Waits(g, u, i), Kind[u] = "struct" /\ u = t => NodeIn(h, u) = NodeIn(g, u)
    PROVE  Waits(h, u, i)
<1>1. PartsKnown(h, u, i - 1)
  <2>1. i - 1 \in Nat /\ \A k \in 1 .. i - 1 : IsPart(u, k)
      BY MembersAre
  <2>2. PartsKnown(g, u, i - 1)
      BY DEF Waits
  <2> QED
      BY <2>1, <2>2, PartsKept
<1>2. ASSUME Kind[u] = "struct" PROVE Known(h, u) /\ NodeIn(h, u) = Begun(u, i - 1)
  <2>1. Known(g, u) /\ NodeIn(g, u) = Begun(u, i - 1)
      BY <1>2 DEF Waits
  <2>2. Known(h, u)
      BY <2>1, OthersKept
  <2>3. NodeIn(h, u) = NodeIn(g, u)
      BY <1>2, <2>2, OthersKept
  <2> QED
      BY <2>1, <2>2, <2>3
<1> QED
    BY <1>1, <1>2 DEF Waits
-----------------------------------------------------------------------------
(* A step of an activation.                                                *)

\* The node of a type may get fields, or be entered.
LegalIn(g, node) ==
    node.ser \in Wrappers =>
        /\ node.of \in DOMAIN g
        /\ g[node.of].ser \notin (IF node.ser = "extension" THEN {"extension"} ELSE Wrappers)
Changes(g, h, t) ==
    /\ OnlyAt(g, h, t)
    /\ Known(g, t) => /\ NodeIn(h, t).ser = NodeIn(g, t).ser /\ NodeIn(h, t).of = NodeIn(g, t).of
                      /\ NodeIn(g, t) = NodeFor(t) => NodeIn(h, t) = NodeFor(t)
    /\ ~Known(g, t) /\ Known(h, t) => LegalIn(g, NodeIn(h, t))

\* The innermost activation is the only one of its struct.
Alone(a, t) == Kind[t] = "struct" => \A j \in 2 .. Len(a) : ~IsAt(a, j, t)

\* What is complete stays complete.
LEMMA AddedKept ==
    ASSUME AddInv, NEW t \in Used, Changes(abi, abi', t), calls' = calls
    PROVE  AddedAreComplete'
<1>1. ASSUME NEW i \in DOMAIN calls PROVE MadeOf(calls[i].type) \subseteq Used
  <2>1. calls \in Seq(Call)
      BY DEF AddInv
  <2>2. calls[i] \in Call
      BY <2>1
  <2>3. calls[i].type \in Addable
      BY <2>2 DEF Call
  <2> QED
      BY <2>3, UsedIs
<1>2. ASSUME NEW u \in Used, IsComplete(u) PROVE IsComplete(u)'
  <2>1. Known(abi, u) /\ NodeIn(abi, u) = NodeFor(u)
      BY <1>2 DEF IsComplete, Known, NodeIn
  <2>2. Known(abi', u) /\ NodeIn(abi', u) = NodeFor(u)
    <3>1. CASE u = t
        BY <2>1, <3>1, OthersKept DEF Changes
    <3>2. CASE u # t
        BY <2>1, <3>2, OthersKept DEF Changes
    <3> QED
        BY <3>1, <3>2
  <2> QED
      BY <2>2 DEF IsComplete, Known, NodeIn
<1>3. Failed' = Failed
    BY DEF Failed
<1>5. AddedAreComplete
    BY DEF AddInv
<1>6. ASSUME NEW i \in DOMAIN calls, calls[i].ok, ~Spoilt(calls[i].type)
      PROVE  \A u \in MadeOf(calls[i].type) : IsComplete(u)'
  <2>1. \A u \in MadeOf(calls[i].type) : IsComplete(u)
      BY <1>5, <1>6 DEF AddedAreComplete
  <2> QED
      BY <1>1, <1>2, <2>1
<1>7. \A i : Spoilt(calls[i].type)' <=> Spoilt(calls[i].type)
    BY <1>3 DEF Spoilt
<1> QED
    BY <1>6, <1>7 DEF AddedAreComplete

\* Wrappers stay legal.
LEMMA WrappersKept ==
    ASSUME AddInv, NEW t \in Used, Changes(abi, abi', t)
    PROVE  WrappersAreLegal'
<1>1. \A n \in DOMAIN abi : LegalIn(abi, abi[n])
    BY DEF AddInv, WrappersAreLegal, LegalIn
<1>2. OnlyAt(abi, abi', t)
    BY DEF Changes
<1>3. ASSUME NEW n \in DOMAIN abi PROVE abi'[n].ser = abi[n].ser /\ abi'[n].of = abi[n].of
  <2>1. CASE n = TypeName[t]
      BY <1>3, <2>1 DEF Changes, Known, NodeIn
  <2>2. CASE n # TypeName[t]
      BY <1>2, <2>2 DEF OnlyAt
  <2> QED
      BY <2>1, <2>2
<1>4. ASSUME NEW node, LegalIn(abi, node) PROVE LegalIn(abi', node)
    BY <1>2, <1>3, <1>4 DEF LegalIn, OnlyAt
<1>5. ASSUME NEW n \in DOMAIN abi' PROVE LegalIn(abi', abi'[n])
  <2>1. CASE n \in DOMAIN abi
    <3>1. LegalIn(abi', abi[n])
        BY <1>1, <1>4, <2>1
    <3> QED
        BY <1>3, <2>1, <3>1 DEF LegalIn
  <2>2. CASE n \notin DOMAIN abi
    <3>1. n = TypeName[t] /\ ~Known(abi, t) /\ Known(abi', t) /\ NodeIn(abi', t) = abi'[n]
        BY <1>2, <2>2 DEF OnlyAt, Known, NodeIn
    <3>2. LegalIn(abi, abi'[n])
        BY <3>1 DEF Changes
    <3> QED
        BY <1>4, <3>2
  <2> QED
      BY <2>1, <2>2
<1> QED
    BY <1>5 DEF WrappersAreLegal, LegalIn

\* What the activations that stay wait for.
LEMMA RestWaits ==
    ASSUME NEW g, NEW h, NEW t \in Used, OnlyAt(g, h, t), NEW a \in Seq(Activation), a # <<>>, Nests(a),
           AllWait(g, a), NodeIn(h, t) = NodeIn(g, t) \/ Alone(a, t),
           NEW j \in 2 .. Len(a), a[j].at = "await"
    PROVE  Waits(h, a[j].type, a[j].member)
<1>1. j \in 1 .. Len(a) /\ a[j] \in Activation
    <2>1. Len(a) \in Nat
        BY TailIs
    <2> QED
        BY <2>1
<1>2. a[j].type \in Used /\ a[j].member \in Nat
    BY <1>1 DEF Activation
<1>3. IsPart(a[j].type, a[j].member)
    BY <1>1 DEF Nests
<1>4. Waits(g, a[j].type, a[j].member)
    BY <1>1 DEF AllWait
<1>5. Kind[a[j].type] = "struct" /\ a[j].type = t => NodeIn(h, a[j].type) = NodeIn(g, a[j].type)
    BY DEF Alone, IsAt
<1> QED
    BY <1>2, <1>3, <1>4, <1>5, WaitsKept

\* The innermost activation of a type, which is there now, has ended.
LEMMA PopStep ==
    ASSUME AddInv, NEW t \in Used, activations # <<>>, activations[1].type = t, activations[1].at # "called",
           activations' = Tail(activations), calls' = calls, Changes(abi, abi', t),
           NodeIn(abi', t) = NodeIn(abi, t) \/ Alone(activations, t),
           Known(abi', t), Stands(abi', activations', Broken, t)
    PROVE  AddInv'
<1>1. activations \in Seq(Activation) /\ Nests(activations) /\ Once(activations)
    BY DEF AddInv
<1>2. /\ activations' \in Seq(Activation) /\ activations' # <<>> /\ Nests(activations') /\ Once(activations')
      /\ activations'[1].at # "begin" /\ Expected(activations'[1]) = t
      /\ \A j \in 1 .. Len(activations') : j + 1 \in 1 .. Len(activations) /\ activations'[j] = activations[j + 1]
      /\ \A j \in 1 .. Len(activations) :
             j # 1 => j - 1 \in 1 .. Len(activations') /\ activations[j] = activations'[j - 1]
    BY <1>1, PopNests
<1>3. OnlyAt(abi, abi', t)
    BY DEF Changes
<1>4. Len(activations) \in Nat /\ Len(activations') \in Nat
    BY <1>1, <1>2, LenProperties
<1>5. Below(activations, activations')
  <2>1. \A j \in 2 .. Len(activations) : j \in 1 .. Len(activations) /\ j # 1
      BY <1>4
  <2> QED
      BY ONLY <1>2, <2>1, Zenon DEF Below
<1>6. Broken' = Broken
  <2>1. Failed' = Failed
      BY DEF Failed
  <2> QED
      BY <2>1 DEF Broken
<1>7. AllStand(abi', activations', Broken)
  <2>1. AllStand(abi, activations, Broken)
      BY DEF AddInv
  <2> QED
      BY <1>3, <1>5, <2>1, AllStandKept
<1>8. AllWait(abi', activations')
  <2>1. ASSUME NEW j \in 1 .. Len(activations'), activations'[j].at = "await"
        PROVE  Waits(abi', activations'[j].type, activations'[j].member)
    <3>1. activations'[j] = activations[j + 1] /\ j + 1 \in 2 .. Len(activations)
        BY <1>2, <1>4
    <3>2. AllWait(abi, activations)
        BY DEF AddInv
    <3> QED
        BY <1>1, <1>3, <2>1, <3>1, <3>2, RestWaits
  <2> QED
      BY <2>1 DEF AllWait
<1>9. Arrived(abi', activations')
    BY <1>2 DEF Arrived
<1>10. AddedAreComplete' /\ WrappersAreLegal'
    BY AddedKept, WrappersKept
<1>11. calls' \in Seq(Call)
    BY DEF AddInv
<1> QED
    BY <1>2, <1>6, <1>7, <1>8, <1>9, <1>10, <1>11 DEF AddInv

\* It calls for its i-th part.
LEMMA CallStep ==
    ASSUME AddInv, NEW t \in Used, activations # <<>>, activations[1].type = t, activations[1].at # "called",
           NEW i, IsPart(t, i), activations' = CallPart(t, i) \o Tail(activations), calls' = calls,
           Changes(abi, abi', t), Alone(activations, t),
           Known(abi', t) => Stands(abi', activations', Broken, t), Waits(abi', t, i)
    PROVE  AddInv'
<1>1. activations \in Seq(Activation) /\ Nests(activations) /\ Once(activations)
    BY DEF AddInv
<1> DEFINE a == activations
           b == activations'
<1>2. /\ b \in Seq(Activation) /\ b # <<>> /\ Nests(b) /\ Once(b)
      /\ b[1].at = "begin" /\ Len(b) \in Nat /\ 2 \in 1 .. Len(b) /\ b[1] = Begins(PartAt(t, i)) /\ b[2] = Awaits(t, i)
      /\ \A j \in 1 .. Len(b) : j \in {1, 2} \/ (j - 1 \in 2 .. Len(a) /\ b[j] = a[j - 1])
      /\ \A j \in 1 .. Len(a) : j # 1 => j + 1 \in 1 .. Len(b) /\ a[j] = b[j + 1]
  <2>1. Kind[t] = "struct" => \A j \in 2 .. Len(a) : ~IsAt(a, j, t)
      BY DEF Alone
  <2>2. a \in Seq(Activation) /\ a # <<>> /\ Nests(a) /\ Once(a) /\ a[1].at # "called" /\ t = a[1].type
        /\ b = CallPart(t, i) \o Tail(a)
      BY <1>1
  <2> HIDE DEF a, b
  <2>3. HasCalled(a, b, t, i)
      BY ONLY <2>1, <2>2, IsPart(t, i), CallNests
  <2> QED
      BY <2>3 DEF HasCalled
<1>3. OnlyAt(abi, abi', t)
    BY DEF Changes
<1>4. Len(a) \in Nat
    BY <1>1, LenProperties
<1>5. Below(a, b)
  <2>1. \A j \in 2 .. Len(a) : j \in 1 .. Len(a) /\ j # 1
      BY <1>4
  <2> QED
      BY ONLY <1>2, <2>1, Zenon DEF Below
<1>6. Broken' = Broken
  <2>1. Failed' = Failed
      BY DEF Failed
  <2> QED
      BY <2>1 DEF Broken
<1>7. AllStand(abi', b, Broken)
  <2>1. AllStand(abi, a, Broken)
      BY DEF AddInv
  <2> QED
      BY <1>3, <1>5, <2>1, AllStandKept
<1>8. AllWait(abi', b)
  <2>1. ASSUME NEW j \in 1 .. Len(b), b[j].at = "await" PROVE Waits(abi', b[j].type, b[j].member)
    <3>1. CASE j = 1
      <4>1. b[j].at = "begin"
          BY <1>2, <3>1
      <4> QED
          BY ONLY <2>1, <4>1
    <3>2. CASE j = 2
      <4>1. b[j].type = t /\ b[j].member = i
          BY ONLY <1>2, <3>2 DEF Awaits
      <4> QED
          BY <4>1
    <3>3. CASE j \notin {1, 2}
      <4>1. j - 1 \in 2 .. Len(a) /\ b[j] = a[j - 1]
          BY <1>2, <3>3
      <4>2. AllWait(abi, a)
          BY DEF AddInv
      <4> QED
          BY <1>1, <1>3, <2>1, <4>1, <4>2, RestWaits
    <3> QED
        BY <3>1, <3>2, <3>3
  <2> QED
      BY <2>1 DEF AllWait
<1>9. Arrived(abi', b)
    BY <1>2 DEF Arrived
<1>10. AddedAreComplete' /\ WrappersAreLegal'
    BY AddedKept, WrappersKept
<1>11. calls' \in Seq(Call)
    BY DEF AddInv
<1> QED
    BY <1>2, <1>6, <1>7, <1>8, <1>9, <1>10, <1>11 DEF AddInv
-----------------------------------------------------------------------------
(* The steps one by one.                                                   *)

\* One more field.
LEMMA PushedIs ==
    ASSUME NEW t, NEW i \in Nat \ {0}
    PROVE  Append([k \in 1 .. i - 1 |-> FieldOf(t, k)], FieldOf(t, i)) = [k \in 1 .. i |-> FieldOf(t, k)]
<1> DEFINE S == {FieldOf(t, k) : k \in 1 .. i}
           f == [k \in 1 .. i - 1 |-> FieldOf(t, k)]
           h == [k \in 1 .. i |-> FieldOf(t, k)]
           e == FieldOf(t, i)
<1>1. f \in Seq(S) /\ Len(f) = i - 1 /\ h \in Seq(S) /\ Len(h) = i /\ e \in S
  <2>1. i - 1 \in Nat /\ i \in Nat /\ i \in 1 .. i /\ 1 .. i - 1 \subseteq 1 .. i
      OBVIOUS
  <2>2. f \in [1 .. i - 1 -> S] /\ h \in [1 .. i -> S] /\ e \in S
      BY <2>1
  <2> HIDE DEF f, h, S, e
  <2>3. f \in Seq(S) /\ h \in Seq(S)
      BY <2>1, <2>2, SeqDef
  <2>4. DOMAIN f = 1 .. Len(f) /\ DOMAIN h = 1 .. Len(h) /\ Len(f) \in Nat /\ Len(h) \in Nat
      BY <2>3, LenProperties
  <2>5. 1 .. Len(f) = 1 .. i - 1 /\ 1 .. Len(h) = 1 .. i
      BY <2>2, <2>4
  <2>6. \A m, n \in Nat : 1 .. m = 1 .. n => m = n
      OBVIOUS
  <2>7. Len(f) = i - 1 /\ Len(h) = i
      BY <2>1, <2>4, <2>5, <2>6
  <2> QED
      BY <2>2, <2>3, <2>7
<1>2. \A k \in 1 .. i - 1 : f[k] = FieldOf(t, k)
    OBVIOUS
<1>3. \A k \in 1 .. i : h[k] = FieldOf(t, k)
    OBVIOUS
<1> HIDE DEF f, h, S
<1>4. Append(f, e) \in Seq(S) /\ Len(Append(f, e)) = i /\ \A k \in 1 .. i : Append(f, e)[k] = IF k = i THEN e ELSE f[k]
    BY <1>1, AppendProperties
<1>5. \A k \in 1 .. i : Append(f, e)[k] = h[k]
  <2>1. \A k \in 1 .. i : k = i \/ k \in 1 .. i - 1
      OBVIOUS
  <2> QED
      BY <1>2, <1>3, <1>4, <2>1
<1> QED
    BY <1>1, <1>4, <1>5, SeqEqual DEF f, h

\* A struct with all of its fields is complete, and only that one is.
LEMMA BegunIs ==
    ASSUME NEW t \in Used, Kind[t] = "struct"
    PROVE  /\ NodeFor(t) = Begun(t, Len(MembersOf[t]))
           /\ \A j, k \in Nat : Begun(t, j) = Begun(t, k) => j = k
           /\ AbiNode("object", TypeName[t], <<>>) = Begun(t, 0)
<1>1. NodeFor(t) = Begun(t, Len(MembersOf[t]))
  <2>1. DOMAIN MembersOf[t] = 1 .. Len(MembersOf[t])
      BY MembersAre
  <2> QED
      BY <2>1 DEF NodeFor, Begun, Primitive, Wrapping
<1>2. ASSUME NEW j \in Nat, NEW k \in Nat, Begun(t, j) = Begun(t, k) PROVE j = k
  <2>1. [i \in 1 .. j |-> FieldOf(t, i)] = [i \in 1 .. k |-> FieldOf(t, i)]
      BY <1>2 DEF Begun, AbiNode
  <2>2. DOMAIN [i \in 1 .. j |-> FieldOf(t, i)] = DOMAIN [i \in 1 .. k |-> FieldOf(t, i)]
      BY <2>1
  <2>3. 1 .. j = 1 .. k
      BY <2>2
  <2> QED
      BY <2>3
<1>3. <<>> = [i \in 1 .. 0 |-> FieldOf(t, i)]
  <2> DEFINE f == [i \in 1 .. 0 |-> FieldOf(t, i)]
             S == {FieldOf(t, i) : i \in 1 .. 0}
  <2>1. f \in [1 .. 0 -> S]
      OBVIOUS
  <2> HIDE DEF f, S
  <2>4. f \in Seq(S)
      BY <2>1, SeqDef
  <2>5. DOMAIN f = 1 .. Len(f) /\ Len(f) \in Nat
      BY <2>4, LenProperties
  <2>2. f \in Seq(S) /\ Len(f) = 0
      BY <2>1, <2>4, <2>5
  <2>3. f = <<>>
      BY <2>2, EmptySeq
  <2> QED
      BY <2>3 DEF f
<1> QED
    BY <1>1, <1>2, <1>3 DEF Begun

\* A struct gets its next field.
LEMMA FieldPushed ==
    ASSUME NEW t \in Used, Kind[t] = "struct", NEW i \in 1 .. Len(MembersOf[t]),
           Known(abi, t), NodeIn(abi, t) = Begun(t, i - 1), PushField(t, i)
    PROVE  Changes(abi, abi', t) /\ Known(abi', t) /\ NodeIn(abi', t) = Begun(t, i)
<1>1. i \in Nat \ {0} /\ i - 1 \in Nat /\ i - 1 # Len(MembersOf[t]) /\ Len(MembersOf[t]) \in Nat
    BY MembersAre
<1>2. DOMAIN abi' = DOMAIN abi /\ \A n \in DOMAIN abi : n # TypeName[t] => abi'[n] = abi[n]
    BY DEF PushField
<1>3. abi'[TypeName[t]] = [abi[TypeName[t]] EXCEPT !.fields = Append(@, FieldOf(t, i))]
    BY DEF PushField, Known
<1>4. abi[TypeName[t]] = [ser |-> "object", of |-> TypeName[t], fields |-> [k \in 1 .. i - 1 |-> FieldOf(t, k)]]
    BY DEF NodeIn, Begun, AbiNode
<1>5. abi'[TypeName[t]] = [ser |-> "object", of |-> TypeName[t],
                           fields |-> Append([k \in 1 .. i - 1 |-> FieldOf(t, k)], FieldOf(t, i))]
  <2> DEFINE before == [k \in 1 .. i - 1 |-> FieldOf(t, k)]
             after == Append(before, FieldOf(t, i))
  <2>1. abi[TypeName[t]] = [ser |-> "object", of |-> TypeName[t], fields |-> before]
      BY <1>4
  <2>2. abi[TypeName[t]].fields = before
      BY <2>1
  <2>3. abi'[TypeName[t]] = [abi[TypeName[t]] EXCEPT !.fields = after]
      BY <1>3, <2>2
  <2> HIDE DEF before, after
  <2>4. abi'[TypeName[t]] = [ser |-> "object", of |-> TypeName[t], fields |-> after]
      BY <2>1, <2>3
  <2> QED
      BY <2>4 DEF before, after
<1>6. NodeIn(abi', t) = Begun(t, i)
    BY <1>1, <1>5, PushedIs DEF NodeIn, Begun, AbiNode
<1>7. NodeIn(abi, t) # NodeFor(t)
    BY <1>1, BegunIs
<1>8. NodeIn(abi', t).ser = NodeIn(abi, t).ser /\ NodeIn(abi', t).of = NodeIn(abi, t).of
    BY <1>6 DEF Begun, AbiNode
<1> QED
    BY <1>2, <1>6, <1>7, <1>8 DEF Changes, OnlyAt, Known

\* A type is entered, unless it is there.
LEMMA Entered ==
    ASSUME NEW t \in Used, NEW node, Enter(TypeName[t], node), LegalIn(abi, node)
    PROVE  /\ Changes(abi, abi', t) /\ Known(abi', t)
           /\ IF Known(abi, t) THEN abi' = abi ELSE NodeIn(abi', t) = node
<1>1. CASE Known(abi, t)
    BY <1>1 DEF Enter, Known, Changes, OnlyAt, NodeIn
<1>2. CASE ~Known(abi, t)
  <2>1. abi' = [n \in DOMAIN abi \cup {TypeName[t]} |-> IF n = TypeName[t] THEN node ELSE abi[n]]
      BY <1>2 DEF Enter, Known
  <2>2. /\ DOMAIN abi' = DOMAIN abi \cup {TypeName[t]} /\ abi'[TypeName[t]] = node
        /\ \A n \in DOMAIN abi : n # TypeName[t] => abi'[n] = abi[n]
      BY <2>1
  <2> QED
      BY <1>2, <2>2 DEF Known, Changes, OnlyAt, NodeIn
<1> QED
    BY <1>1, <1>2

\* Nothing changes.
LEMMA Untouched ==
    ASSUME NEW t, abi' = abi
    PROVE  Changes(abi, abi', t) /\ NodeIn(abi', t) = NodeIn(abi, t)
BY DEF Changes, OnlyAt, Known, NodeIn

\* What is known of the innermost activation.
LEMMA InnermostIs ==
    ASSUME AddInv, NEW t, NEW point \in {"begin", "await"}, At(point, t)
    PROVE  /\ activations \in Seq(Activation) /\ activations # <<>> /\ t \in Used
           /\ activations[1].type = t /\ activations[1].at = point
           /\ <<>> \o Tail(activations) = Tail(activations)
           /\ Waiting = activations[1].member /\ Waiting \in Nat
<1>1. activations \in Seq(Activation) /\ activations # <<>>
    BY DEF AddInv, At
<1>2. Head(activations) = activations[1] /\ 1 \in 1 .. Len(activations) /\ Tail(activations) \in Seq(Activation)
    BY <1>1, TailIs
<1>3. activations[1] \in Activation
    BY <1>1, <1>2
<1>4. <<>> \o Tail(activations) = Tail(activations)
    BY <1>2, ConcatEmptySeq
<1> QED
    BY <1>1, <1>2, <1>3, <1>4 DEF At, Activation, Waiting

\* It waits for a part, and has got it.
LEMMA WaitingIs ==
    ASSUME AddInv, NEW t, At("await", t)
    PROVE  /\ IsPart(t, Waiting) /\ Waiting \in Nat \ {0} /\ Waits(abi, t, Waiting)
           /\ PartsKnown(abi, t, Waiting) /\ Alone(activations, t)
<1>1. /\ activations \in Seq(Activation) /\ activations # <<>> /\ t \in Used
      /\ activations[1].type = t /\ activations[1].at = "await"
      /\ Waiting = activations[1].member /\ Waiting \in Nat
    BY InnermostIs
<1>2. Len(activations) \in Nat /\ 1 \in 1 .. Len(activations)
    BY <1>1, TailIs
<1>3. Nests(activations) /\ Once(activations) /\ Arrived(abi, activations) /\ AllWait(abi, activations)
    BY <1>1 DEF AddInv
<1>4. IsPart(t, Waiting)
    BY <1>1, <1>2, <1>3 DEF Nests
<1>5. Waits(abi, t, Waiting)
    BY <1>1, <1>2, <1>3 DEF AllWait
<1>6. Waiting # 0
    BY <1>1, <1>4, MembersAre
<1>7. Known(abi, PartAt(t, Waiting))
    BY <1>1, <1>3 DEF Arrived, Expected
<1>8. PartsKnown(abi, t, Waiting)
  <2>1. \A k \in 1 .. Waiting : k = Waiting \/ k \in 1 .. Waiting - 1
      BY <1>1
  <2> QED
      BY <1>5, <1>7, <2>1 DEF Waits, PartsKnown
<1>9. Alone(activations, t)
  <2>1. ASSUME NEW j \in 2 .. Len(activations), Kind[t] = "struct", IsAt(activations, j, t) PROVE FALSE
    <3>1. IsAt(activations, 1, t) /\ j \in 1 .. Len(activations) /\ j # 1
        BY <1>1, <1>2 DEF IsAt
    <3> QED
        BY <1>1, <1>2, <1>3, <2>1, <3>1 DEF Once
  <2> QED
      BY <2>1 DEF Alone
<1> QED
    BY <1>1, <1>4, <1>5, <1>6, <1>8, <1>9

\* One that begins is not at work on the fields of its type.
LEMMA StandsStill ==
    ASSUME AddInv, NEW t, NEW point \in {"begin", "await"}, At(point, t), Known(abi, t),
           point = "begin" \/ Kind[t] # "struct",
           NEW b, Below(activations, b)
    PROVE  Stands(abi, b, Broken, t)
<1>1. t \in Used /\ activations[1].at = point
    BY InnermostIs
<1>2. Stands(abi, activations, Broken, t)
    BY <1>1 DEF AddInv, AllStand
<1>3. CASE Kind[t] # "struct"
    BY <1>2, <1>3 DEF Stands
<1>4. CASE Kind[t] = "struct"
  <2>1. PICK k \in 0 .. Len(MembersOf[t]) : StandsAt(abi, activations, Broken, t, k)
      BY <1>2, <1>4 DEF Stands
  <2>2. ASSUME UnderWork(activations, t, k) PROVE UnderWork(b, t, k)
    <3>1. PICK j \in 1 .. Len(activations) : activations[j] = Awaits(t, k + 1)
        BY <2>2 DEF UnderWork
    <3>2. activations[j].at = "await"
        BY <3>1 DEF Awaits
    <3>3. j # 1
        BY <1>1, <1>4, <3>2
    <3>4. j \in 2 .. Len(activations)
        BY <3>3
    <3>5. PICK i \in 1 .. Len(b) : b[i] = activations[j]
        BY <3>4 DEF Below
    <3> QED
        BY <3>1, <3>5 DEF UnderWork
  <2>3. StandsAt(abi, b, Broken, t, k)
      BY <2>1, <2>2 DEF StandsAt
  <2> QED
      BY <1>4, <2>3 DEF Stands
<1> QED
    BY <1>3, <1>4

\* The activations that stay.
LEMMA TailIsBelow ==
    ASSUME NEW a \in Seq(Activation), a # <<>>
    PROVE  Below(a, Tail(a))
<1>1. Len(Tail(a)) = Len(a) - 1 /\ Len(a) \in Nat \ {0} /\ \A j \in 1 .. Len(a) - 1 : Tail(a)[j] = a[j + 1]
    BY TailIs
<1>2. ASSUME NEW j \in 2 .. Len(a) PROVE j - 1 \in 1 .. Len(Tail(a)) /\ Tail(a)[j - 1] = a[j]
  <2>1. j - 1 \in 1 .. Len(a) - 1 /\ (j - 1) + 1 = j
      BY <1>1
  <2> QED
      BY <1>1, <2>1
<1> QED
    BY <1>2 DEF Below

\* The activations that stay when the innermost one calls.
Calling(a, b, t, i) == Below(a, b) /\ 2 \in 1 .. Len(b) /\ b[2] = Awaits(t, i)
LEMMA CalledIsBelow ==
    ASSUME NEW a \in Seq(Activation), a # <<>>, NEW t \in Used, NEW i, IsPart(t, i),
           NEW b, b = CallPart(t, i) \o Tail(a)
    PROVE  Calling(a, b, t, i)
<1>1. Begins(PartAt(t, i)) \in Activation /\ Awaits(t, i) \in Activation
    BY PartIsUsed DEF Begins, Awaits, Activation
<1>2. Len(b) = Len(a) + 1 /\ b[2] = Awaits(t, i) /\ \A j \in 3 .. Len(b) : b[j] = a[j - 1]
    BY <1>1, TwoOnTail DEF CallPart
<1>3. Len(a) \in Nat \ {0}
    BY TailIs
<1>4. ASSUME NEW j \in 2 .. Len(a) PROVE j + 1 \in 1 .. Len(b) /\ b[j + 1] = a[j]
  <2>1. j + 1 \in 3 .. Len(b) /\ j + 1 \in 1 .. Len(b) /\ (j + 1) - 1 = j
      BY <1>2, <1>3
  <2> QED
      BY <1>2, <2>1
<1>5. Below(a, b)
  <2>1. \A j \in 2 .. Len(a) : j + 1 \in 1 .. Len(b) /\ b[j + 1] = a[j]
      BY <1>4
  <2> QED
      BY <2>1, Zenon DEF Below
<1> QED
    BY <1>2, <1>3, <1>5 DEF Calling
-----------------------------------------------------------------------------
\* The calls once another one has ended.
LEMMA EndedIs ==
    ASSUME AddInv, activations # <<>>, NEW ok \in BOOLEAN, Ends(ok)
    PROVE  LET done == [type |-> Bottom(activations).type, ok |-> ok] IN
           /\ activations' = <<>> /\ calls' \in Seq(Call) /\ done \in Call
           /\ Len(calls) \in Nat /\ Len(calls') = Len(calls) + 1
           /\ DOMAIN calls = 1 .. Len(calls) /\ DOMAIN calls' = 1 .. Len(calls')
           /\ \A i \in DOMAIN calls' : calls'[i] = IF i \in DOMAIN calls THEN calls[i] ELSE done
           /\ Failed' = Failed \cup (IF ok THEN {} ELSE {done.type})
<1> DEFINE done == [type |-> Bottom(activations).type, ok |-> ok]
<1>1. calls \in Seq(Call) /\ Nests(activations)
    BY DEF AddInv
<1>2. done \in Call
    BY <1>1 DEF Nests, Call
<1>3. calls' = Append(calls, done) /\ activations' = <<>>
    BY DEF Ends, Bottom
<1>4. done.ok = ok
    OBVIOUS
<1> HIDE DEF done
<1>5. /\ calls' \in Seq(Call) /\ Len(calls') = Len(calls) + 1 /\ Len(calls) \in Nat
      /\ DOMAIN calls = 1 .. Len(calls) /\ DOMAIN calls' = 1 .. Len(calls')
    BY <1>1, <1>2, <1>3, AppendProperties, LenProperties
<1>6. \A i \in DOMAIN calls' : calls'[i] = IF i \in DOMAIN calls THEN calls[i] ELSE done
  <2>1. \A i \in 1 .. Len(calls) + 1 : calls'[i] = IF i = Len(calls) + 1 THEN done ELSE calls[i]
      BY <1>1, <1>2, <1>3, AppendProperties
  <2>2. \A i \in 1 .. Len(calls) + 1 : i \in 1 .. Len(calls) <=> i # Len(calls) + 1
      BY <1>5
  <2> QED
      BY <1>5, <2>1, <2>2
<1>7. Len(calls) + 1 \in DOMAIN calls' /\ Len(calls) + 1 \notin DOMAIN calls /\ DOMAIN calls \subseteq DOMAIN calls'
      /\ \A i \in DOMAIN calls' : i \in DOMAIN calls \/ i = Len(calls) + 1
    BY <1>5
<1>8. Failed' = Failed \cup (IF ok THEN {} ELSE {done.type})
  <2>1. \A x : x \in Failed <=> \E i \in DOMAIN calls : ~calls[i].ok /\ x = calls[i].type
      BY DEF Failed
  <2>2. \A x : x \in Failed' <=> \E i \in DOMAIN calls' : ~calls'[i].ok /\ x = calls'[i].type
      BY DEF Failed
  <2>3. ASSUME NEW x PROVE x \in Failed' <=> x \in Failed \cup (IF ok THEN {} ELSE {done.type})
    <3>1. CASE ok
      <4>1. \A i \in DOMAIN calls' : ~calls'[i].ok => i \in DOMAIN calls /\ calls'[i] = calls[i]
          BY <1>4, <1>6, <3>1
      <4>2. \A i \in DOMAIN calls : i \in DOMAIN calls' /\ calls'[i] = calls[i]
          BY <1>6, <1>7
      <4>3. x \in Failed' <=> x \in Failed
          BY ONLY <2>1, <2>2, <4>1, <4>2
      <4> QED
          BY <3>1, <4>3
    <3>2. CASE ~ok
        BY <1>4, <1>6, <1>7, <2>1, <2>2, <3>2
    <3> QED
        BY <3>1, <3>2
  <2> QED
      BY <2>3
<1> QED
    BY <1>2, <1>3, <1>5, <1>6, <1>8 DEF done

\* A call fails: the structs that activations are at work on stay as they are.
LEMMA ThrowKeeps ==
    ASSUME AddInv, activations # <<>>, Throw
    PROVE  AddInv'
<1> DEFINE t == Bottom(activations).type
<1>1. /\ activations' = <<>> /\ calls' \in Seq(Call)
      /\ \A i \in DOMAIN calls' : calls'[i] = IF i \in DOMAIN calls THEN calls[i] ELSE [type |-> t, ok |-> FALSE]
      /\ Failed' = Failed \cup {t} /\ abi' = abi
    BY EndedIs DEF Throw
<1>2. activations' \in Seq(Activation) /\ Arrived(abi', activations') /\ AllWait(abi', activations')
    BY <1>1 DEF Arrived, AllWait
<1>3. ASSUME NEW u \in Used, Kind[u] = "struct", NEW k, UnderWork(activations, u, k) PROVE u \in Broken'
  <2>1. PICK j \in 1 .. Len(activations) : activations[j] = Awaits(u, k + 1)
      BY <1>3 DEF UnderWork
  <2>2. activations[j].type = u
      BY <2>1 DEF Awaits
  <2>3. u \in MadeOf(t)
      BY <2>1, <2>2 DEF AddInv, Nests
  <2> QED
      BY <1>1, <1>3, <2>3 DEF Broken
<1>4. Broken \subseteq Broken'
    BY <1>1 DEF Broken
<1>5. AllStand(abi', activations', Broken')
  <2>1. ASSUME NEW u \in Used, Known(abi, u) PROVE Stands(abi, activations', Broken', u)
    <3>1. Stands(abi, activations, Broken, u)
        BY <2>1 DEF AddInv, AllStand
    <3>2. CASE Kind[u] = "struct"
      <4>1. PICK k \in 0 .. Len(MembersOf[u]) : StandsAt(abi, activations, Broken, u, k)
          BY <3>1, <3>2 DEF Stands
      <4>2. StandsAt(abi, activations', Broken', u, k)
          BY <1>3, <1>4, <3>2, <4>1 DEF StandsAt
      <4> QED
          BY <3>2, <4>2 DEF Stands
    <3>3. CASE Kind[u] # "struct"
        BY <3>1, <3>3 DEF Stands
    <3> QED
        BY <3>2, <3>3
  <2> QED
      BY <1>1, <2>1 DEF AllStand
<1>6. AddedAreComplete'
  <2>1. ASSUME NEW i \in DOMAIN calls', calls'[i].ok
        PROVE  i \in DOMAIN calls /\ calls'[i] = calls[i]
      BY <1>1, <2>1
  <2>2. ASSUME NEW i \in DOMAIN calls', calls'[i].ok, \A f \in Failed' : \A u \in MadeOf(calls'[i].type) \cap MadeOf(f) : Kind[u] # "struct"
        PROVE  \A u \in MadeOf(calls'[i].type) : IsComplete(u)'
    <3>1. i \in DOMAIN calls /\ calls'[i] = calls[i]
        BY <2>1, <2>2
    <3>2. ~Spoilt(calls[i].type)
        BY <1>1, <2>2, <3>1 DEF Spoilt
    <3>3. \A u \in MadeOf(calls[i].type) : IsComplete(u)
        BY <2>2, <3>1, <3>2 DEF AddInv, AddedAreComplete
    <3> QED
        BY <1>1, <3>1, <3>3 DEF IsComplete
  <2> QED
      BY <2>2 DEF AddedAreComplete, Spoilt
<1>7. WrappersAreLegal'
    BY <1>1 DEF AddInv, WrappersAreLegal
<1> QED
    BY <1>1, <1>2, <1>5, <1>6, <1>7 DEF AddInv

\* Nothing is left to do: what was added is complete with all it is made of.
LEMMA EndKeeps ==
    ASSUME AddInv, NEW t \in Addable, EndAddType(t)
    PROVE  AddInv'
<1>1. activations = <<Called(t)>> /\ activations # <<>> /\ Bottom(activations).type = t /\ Ends(TRUE) /\ abi' = abi
    BY DEF EndAddType, Bottom, Called
<1>2. /\ activations' = <<>> /\ calls' \in Seq(Call)
      /\ \A i \in DOMAIN calls' : calls'[i] = IF i \in DOMAIN calls THEN calls[i] ELSE [type |-> t, ok |-> TRUE]
      /\ Failed' = Failed
  <2>1. TRUE \in BOOLEAN
      OBVIOUS
  <2> QED
      BY <1>1, <2>1, EndedIs
<1>3. activations' \in Seq(Activation) /\ Arrived(abi', activations') /\ AllWait(abi', activations')
    BY <1>2 DEF Arrived, AllWait
<1>4. Broken' = Broken
    BY <1>2 DEF Broken
<1>5. ASSUME NEW u, NEW k PROVE ~UnderWork(activations, u, k)
    BY <1>1 DEF UnderWork, Awaits, Called
<1>6. AllStand(abi', activations', Broken')
  <2>1. ASSUME NEW u \in Used, Known(abi, u) PROVE Stands(abi, activations', Broken, u)
    <3>1. Stands(abi, activations, Broken, u)
        BY <2>1 DEF AddInv, AllStand
    <3> QED
        BY <1>5, <3>1 DEF Stands, StandsAt
  <2> QED
      BY <1>1, <1>4, <2>1 DEF AllStand
<1>7. ASSUME ~Spoilt(t) PROVE \A u \in MadeOf(t) : IsComplete(u)
  <2>1. t \in Used /\ t \in CppType /\ MadeOf(t) \subseteq Used
      BY UsedIs
  <2> DEFINE S == {u \in MadeOf(t) : Known(abi, u)}
  <2>2. t \in S
    <3>1. Known(abi, t)
        BY <1>1 DEF AddInv, Arrived, Called, Expected
    <3> QED
        BY <2>1, <3>1, MadeOfIs
  <2>3. ASSUME NEW u \in S PROVE IsComplete(u) /\ \A p \in Parts(u) : Known(abi, p)
    <3>1. u \in Used /\ u \in MadeOf(t) /\ Known(abi, u) /\ Stands(abi, activations, Broken, u)
        BY <2>1 DEF AddInv, AllStand
    <3>2. CASE Kind[u] = "struct"
      <4>1. u \notin Broken
          BY <1>7, <3>1, <3>2 DEF Broken, Spoilt
      <4>2. PICK k \in 0 .. Len(MembersOf[u]) : StandsAt(abi, activations, Broken, u, k)
          BY <3>1, <3>2 DEF Stands
      <4>3. k = Len(MembersOf[u])
          BY <1>5, <4>1, <4>2 DEF StandsAt
      <4>4. NodeIn(abi, u) = NodeFor(u)
          BY <3>1, <3>2, <4>2, <4>3, BegunIs DEF StandsAt
      <4>5. ASSUME NEW p \in Parts(u) PROVE Known(abi, p)
        <5>1. PICK i \in Nat : IsPart(u, i) /\ p = PartAt(u, i)
            BY <3>1, PartsAreAt
        <5>2. i \in 1 .. Len(MembersOf[u])
            BY <3>2, <5>1 DEF IsPart, Wrapping
        <5> QED
            BY <4>2, <4>3, <5>1, <5>2 DEF StandsAt, PartsKnown
      <4> QED
          BY <3>1, <4>4, <4>5 DEF IsComplete, Known, NodeIn
    <3>3. CASE Kind[u] # "struct"
        BY <3>1, <3>3 DEF Stands, Whole, IsComplete, Known, NodeIn
    <3> QED
        BY <3>2, <3>3
  <2>4. \A u \in S \cap MadeOf(t) : Parts(u) \subseteq S
      BY <2>1, <2>3, MadeOfIs
  <2> HIDE DEF S
  <2>5. MadeOf(t) \subseteq S
      BY <2>1, <2>2, <2>4, MadeOfIs
  <2> QED
      BY <2>3, <2>5
<1>8. AddedAreComplete'
  <2>1. ASSUME NEW i \in DOMAIN calls', calls'[i].ok, \A f \in Failed : \A u \in MadeOf(calls'[i].type) \cap MadeOf(f) : Kind[u] # "struct"
        PROVE  \A u \in MadeOf(calls'[i].type) : IsComplete(u)'
    <3>1. ~Spoilt(calls'[i].type)
        BY <2>1 DEF Spoilt
    <3>2. CASE i \in DOMAIN calls
      <4>1. calls'[i] = calls[i]
          BY <1>2, <3>2
      <4>2. \A u \in MadeOf(calls[i].type) : IsComplete(u)
          BY <2>1, <3>1, <3>2, <4>1 DEF AddInv, AddedAreComplete
      <4> QED
          BY <1>1, <4>1, <4>2 DEF IsComplete
    <3>3. CASE i \notin DOMAIN calls
      <4>1. calls'[i].type = t
          BY <1>2, <3>3
      <4> QED
          BY <1>1, <1>7, <3>1, <4>1 DEF IsComplete
    <3> QED
        BY <3>2, <3>3
  <2> QED
      BY <1>2, <2>1 DEF AddedAreComplete, Spoilt
<1>9. WrappersAreLegal'
    BY <1>1 DEF AddInv, WrappersAreLegal
<1> QED
    BY <1>2, <1>3, <1>6, <1>8, <1>9 DEF AddInv

\* abi.add_type<T>() begins.
LEMMA BeginKeeps ==
    ASSUME AddInv, NEW t \in Addable, CallAddType(t)
    PROVE  AddInv'
<1>1. activations = <<>> /\ activations' = <<Begins(t), Called(t)>> /\ abi' = abi /\ calls' = calls
    BY DEF CallAddType
<1>2. t \in Used /\ t \in CppType /\ t \in MadeOf(t)
    BY UsedIs, MadeOfIs
<1> DEFINE b == activations'
<1>3. Len(b) = 2 /\ b[1] = Begins(t) /\ b[2] = Called(t)
    BY <1>1
<1>4. b \in Seq(Activation)
    BY <1>1, <1>2 DEF Activation, Begins, Called
<1> HIDE DEF b
<1>5. /\ b[1].at = "begin" /\ b[1].type = t /\ b[2].at = "called" /\ b[2].type = t
      /\ 1 .. Len(b) = {1, 2}
    BY <1>3 DEF Begins, Called
<1>6. Nests(b) /\ Once(b)
    BY <1>2, <1>3, <1>5 DEF Nests, Once, IsAt, Bottom, Expected
<1>7. Arrived(abi', b) /\ AllWait(abi', b)
    BY <1>3, <1>5 DEF Arrived, AllWait
<1>8. Broken' = Broken /\ Failed' = Failed
    BY <1>1 DEF Broken, Failed
<1>9. AllStand(abi', b, Broken')
  <2>1. \A u, k : ~UnderWork(activations, u, k)
      BY <1>1 DEF UnderWork
  <2>2. ASSUME NEW u \in Used, Known(abi, u) PROVE Stands(abi, b, Broken, u)
    <3>1. Stands(abi, activations, Broken, u)
        BY <2>2 DEF AddInv, AllStand
    <3> QED
        BY <2>1, <3>1 DEF Stands, StandsAt
  <2> QED
      BY <1>1, <1>8, <2>2 DEF AllStand
<1>10. AddedAreComplete' /\ WrappersAreLegal'
    BY <1>1, <1>8 DEF AddInv, AddedAreComplete, WrappersAreLegal, Spoilt, IsComplete
<1> QED
    BY <1>1, <1>4, <1>6, <1>7, <1>9, <1>10 DEF AddInv, b
-----------------------------------------------------------------------------
\* The innermost activation ends, and the abi stays.
LEMMA ReturnKeeps ==
    ASSUME AddInv, NEW t, NEW point \in {"begin", "await"}, At(point, t), Known(abi, t),
           point = "begin" \/ Kind[t] # "struct", Continues(<<>>), UNCHANGED abi
    PROVE  AddInv'
<1>1. /\ activations \in Seq(Activation) /\ activations # <<>> /\ t \in Used
      /\ activations[1].type = t /\ activations[1].at = point
      /\ <<>> \o Tail(activations) = Tail(activations)
    BY InnermostIs
<1>2. activations' = Tail(activations) /\ calls' = calls /\ abi' = abi
    BY <1>1 DEF Continues
<1>3. Changes(abi, abi', t) /\ NodeIn(abi', t) = NodeIn(abi, t)
    BY <1>2, Untouched
<1>4. Stands(abi, activations', Broken, t)
    BY <1>1, <1>2, TailIsBelow, StandsStill
<1>5. Known(abi', t) /\ Stands(abi', activations', Broken, t)
    BY <1>2, <1>4
<1>6. activations[1].at # "called"
    BY <1>1
<1> QED
    BY <1>1, <1>2, <1>3, <1>5, <1>6, PopStep

\* It calls for its i-th part, and the abi stays.
LEMMA ProceedKeeps ==
    ASSUME AddInv, NEW t, NEW point \in {"begin", "await"}, At(point, t), Kind[t] # "struct",
           NEW i, IsPart(t, i), Continues(CallPart(t, i)), UNCHANGED abi, PartsKnown(abi, t, i - 1)
    PROVE  AddInv'
<1>1. /\ activations \in Seq(Activation) /\ activations # <<>> /\ t \in Used
      /\ activations[1].type = t /\ activations[1].at = point
    BY InnermostIs
<1>2. activations' = CallPart(t, i) \o Tail(activations) /\ calls' = calls /\ abi' = abi
    BY DEF Continues
<1>3. Changes(abi, abi', t)
    BY <1>2, Untouched
<1>4. Below(activations, activations')
    BY <1>1, <1>2, CalledIsBelow DEF Calling
<1>5. Known(abi', t) => Stands(abi', activations', Broken, t)
    BY <1>2, <1>4, StandsStill
<1>6. Waits(abi', t, i)
    BY <1>2 DEF Waits
<1>7. activations[1].at # "called" /\ Alone(activations, t)
    BY <1>1 DEF Alone
<1> QED
    BY <1>1, <1>2, <1>3, <1>5, <1>6, <1>7, CallStep

\* A call for a member.
LEMMA MemberIs ==
    ASSUME NEW t \in Used, Kind[t] \in {"struct", "variant"}, NEW i \in Nat \ {0}
    PROVE  IF i > Len(MembersOf[t]) THEN FromMember(t, i) = <<>>
           ELSE i \in 1 .. Len(MembersOf[t]) /\ IsPart(t, i) /\ FromMember(t, i) = CallPart(t, i)
<1>1. Len(MembersOf[t]) \in Nat /\ Kind[t] \notin Wrapping
    BY MembersAre DEF Wrapping
<1>2. CASE i > Len(MembersOf[t])
    BY <1>2 DEF FromMember
<1>3. CASE ~(i > Len(MembersOf[t]))
  <2>1. i \in 1 .. Len(MembersOf[t])
      BY <1>1, <1>3
  <2>2. FromMember(t, i) = CallPart(t, i)
      BY <1>1, <1>3 DEF FromMember, CallFor, CallPart, PartAt
  <2> QED
      BY <1>3, <2>1, <2>2, MembersAre
<1> QED
    BY <1>2, <1>3

\* A builtin: there is nothing to do, or the call fails.
LEMMA BasicKeeps ==
    ASSUME AddInv, NEW t \in Used, AddBasic(t)
    PROVE  AddInv'
<1>1. CASE TypeName[t] \in DOMAIN abi
  <2>1. At("begin", t) /\ Known(abi, t) /\ Continues(<<>>) /\ UNCHANGED abi
      BY <1>1 DEF AddBasic, Known
  <2> QED
      BY <2>1, ReturnKeeps
<1>2. CASE TypeName[t] \notin DOMAIN abi
  <2>1. activations # <<>> /\ Throw
      BY <1>2 DEF AddBasic, At
  <2> QED
      BY <2>1, ThrowKeeps
<1> QED
    BY <1>1, <1>2

\* A struct is entered without fields, and its first member is called for.
LEMMA StructKeeps ==
    ASSUME AddInv, NEW t \in Used, AddStruct(t)
    PROVE  AddInv'
<1>1. At("begin", t) /\ Kind[t] = "struct" /\ Enter(TypeName[t], AbiNode("object", TypeName[t], <<>>))
    BY DEF AddStruct
<1>2. CASE Known(abi, t)
  <2>1. Continues(<<>>) /\ UNCHANGED abi
      BY <1>2 DEF AddStruct, Known, Enter
  <2> QED
      BY <1>1, <1>2, <2>1, ReturnKeeps
<1>3. CASE ~Known(abi, t)
  <2>1. /\ activations \in Seq(Activation) /\ activations # <<>>
        /\ activations[1].type = t /\ activations[1].at = "begin" /\ activations[1].at # "called"
        /\ <<>> \o Tail(activations) = Tail(activations)
      BY <1>1, InnermostIs
  <2>2. LegalIn(abi, AbiNode("object", TypeName[t], <<>>))
      BY DEF LegalIn, AbiNode, Wrappers
  <2>3. Changes(abi, abi', t) /\ Known(abi', t) /\ NodeIn(abi', t) = Begun(t, 0)
      BY <1>1, <1>3, <2>2, Entered, BegunIs
  <2>4. Continues(FromMember(t, 1))
      BY <1>3 DEF AddStruct, Known
  <2>5. Alone(activations, t)
    <3>1. ASSUME NEW j \in 2 .. Len(activations), IsAt(activations, j, t) PROVE FALSE
      <4>1. Len(activations) \in Nat
          BY <2>1, LenProperties
      <4>2. j \in 1 .. Len(activations)
          BY <4>1
      <4>3. Waits(abi, t, activations[j].member)
          BY <3>1, <4>2 DEF AddInv, AllWait, IsAt
      <4> QED
          BY <1>1, <1>3, <4>3 DEF Waits
    <3> QED
        BY <3>1 DEF Alone
  <2>6. PartsKnown(abi', t, 0) /\ 0 \in 0 .. Len(MembersOf[t]) /\ Len(MembersOf[t]) \in Nat
      BY MembersAre DEF PartsKnown
  <2>7. CASE 1 > Len(MembersOf[t])
    <3>1. activations' = Tail(activations) /\ calls' = calls
        BY <1>1, <2>1, <2>4, <2>7, MemberIs DEF Continues
    <3>2. Len(MembersOf[t]) = 0
        BY <2>6, <2>7
    <3>3. Stands(abi', activations', Broken, t)
        BY <1>1, <2>3, <2>6, <3>2 DEF Stands, StandsAt
    <3> QED
        BY <2>1, <2>3, <2>5, <3>1, <3>3, PopStep
  <2>8. CASE ~(1 > Len(MembersOf[t]))
    <3>0. IsPart(t, 1) /\ FromMember(t, 1) = CallPart(t, 1)
        BY <1>1, <2>8, MemberIs
    <3>1. activations' = CallPart(t, 1) \o Tail(activations) /\ calls' = calls /\ IsPart(t, 1)
        BY <2>4, <3>0 DEF Continues
    <3>2. 2 \in 1 .. Len(activations') /\ activations'[2] = Awaits(t, 1)
      <4>1. Calling(activations, activations', t, 1)
          BY ONLY t \in Used, <2>1, <3>1, CalledIsBelow
      <4> QED
          BY <4>1 DEF Calling
    <3>3. Stands(abi', activations', Broken, t)
      <4>1. UnderWork(activations', t, 0)
          BY <3>2 DEF UnderWork
      <4> QED
          BY <1>1, <2>3, <2>6, <4>1 DEF Stands, StandsAt
    <3>4. Waits(abi', t, 1)
        BY <2>3, <2>6 DEF Waits
    <3> QED
        BY <2>1, <2>3, <2>5, <3>1, <3>3, <3>4, CallStep
  <2> QED
      BY <2>7, <2>8
<1> QED
    BY <1>2, <1>3

\* A field is pushed, and the next member is called for.
LEMMA FieldKeeps ==
    ASSUME AddInv, NEW t \in Used, AddField(t)
    PROVE  AddInv'
<1> DEFINE i == Waiting
<1>1. At("await", t) /\ Kind[t] = "struct" /\ PushField(t, i) /\ Continues(FromMember(t, i + 1))
    BY DEF AddField
<1>2. /\ activations \in Seq(Activation) /\ activations # <<>>
      /\ activations[1].type = t /\ activations[1].at = "await" /\ activations[1].at # "called"
      /\ <<>> \o Tail(activations) = Tail(activations)
    BY <1>1, InnermostIs
<1>3. IsPart(t, i) /\ i \in Nat \ {0} /\ Waits(abi, t, i) /\ PartsKnown(abi, t, i) /\ Alone(activations, t)
    BY <1>1, WaitingIs
<1> HIDE DEF i
<1>4. i \in 1 .. Len(MembersOf[t]) /\ Len(MembersOf[t]) \in Nat
    BY <1>1, <1>3, MembersAre DEF IsPart, Wrapping
<1>5. Changes(abi, abi', t) /\ Known(abi', t) /\ NodeIn(abi', t) = Begun(t, i)
    BY <1>1, <1>3, <1>4, FieldPushed DEF Waits
<1>6. PartsKnown(abi', t, i) /\ i \in Nat /\ i \in 0 .. Len(MembersOf[t]) /\ i + 1 \in Nat \ {0} /\ (i + 1) - 1 = i
  <2>1. \A k \in 1 .. i : IsPart(t, k)
    <3>1. \A k \in 1 .. i : k \in 1 .. Len(MembersOf[t])
        BY <1>4
    <3> QED
        BY <1>1, <3>1, MembersAre
  <2>2. OnlyAt(abi, abi', t) /\ i \in Nat
      BY <1>3, <1>5 DEF Changes
  <2>3. PartsKnown(abi', t, i)
      BY <1>3, <2>1, <2>2, PartsKept
  <2> QED
      BY <1>4, <2>3
<1>7. CASE i + 1 > Len(MembersOf[t])
  <2>1. activations' = Tail(activations) /\ calls' = calls
      BY <1>1, <1>2, <1>6, <1>7, MemberIs DEF Continues
  <2>2. i = Len(MembersOf[t])
      BY <1>4, <1>7
  <2>3. Stands(abi', activations', Broken, t)
      BY <1>1, <1>5, <1>6, <2>2 DEF Stands, StandsAt
  <2> QED
      BY <1>2, <1>3, <1>5, <2>1, <2>3, PopStep
<1>8. CASE ~(i + 1 > Len(MembersOf[t]))
  <2>1. activations' = CallPart(t, i + 1) \o Tail(activations) /\ calls' = calls /\ IsPart(t, i + 1)
      BY <1>1, <1>6, <1>8, MemberIs DEF Continues
  <2>2. 2 \in 1 .. Len(activations') /\ activations'[2] = Awaits(t, i + 1)
    <3>1. Calling(activations, activations', t, i + 1)
        BY ONLY t \in Used, <1>2, <2>1, CalledIsBelow
    <3> QED
        BY <3>1 DEF Calling
  <2>3. Stands(abi', activations', Broken, t)
    <3>1. UnderWork(activations', t, i)
        BY <2>2 DEF UnderWork
    <3> QED
        BY <1>1, <1>5, <1>6, <3>1 DEF Stands, StandsAt
  <2>4. Waits(abi', t, i + 1)
      BY <1>5, <1>6 DEF Waits
  <2> QED
      BY <1>2, <1>3, <1>5, <2>1, <2>3, <2>4, CallStep
<1> QED
    BY <1>7, <1>8

\* A variant calls for its first alternative.
LEMMA VariantKeeps ==
    ASSUME AddInv, NEW t \in Used, AddVariant(t)
    PROVE  AddInv'
<1>1. At("begin", t) /\ Kind[t] = "variant" /\ Continues(CallFor(t, 1)) /\ UNCHANGED abi
    BY DEF AddVariant
<1>2. 1 \in 1 .. Len(MembersOf[t])
  <2>1. MembersOf[t] # <<>>
      BY <1>1, UsedAssumption
  <2>2. t \in CppType
      BY UsedIs
  <2>3. MembersOf[t] \in Seq([name : STRING, type : CppType])
      BY <2>2, CppAssumption
  <2> QED
      BY <2>1, <2>3, TailIs
<1>3. IsPart(t, 1) /\ CallFor(t, 1) = CallPart(t, 1)
    BY <1>1, <1>2, MembersAre DEF CallFor, CallPart, PartAt, Wrapping
<1>4. PartsKnown(abi, t, 1 - 1)
    BY DEF PartsKnown
<1>5. Continues(CallPart(t, 1))
    BY <1>1, <1>3
<1>6. Kind[t] # "struct"
    BY <1>1
<1> QED
    BY <1>1, <1>3, <1>4, <1>5, <1>6, ProceedKeeps

\* A type is entered after its parts.
LEMMA EnteredKeeps ==
    ASSUME AddInv, NEW t \in Used, At("await", t), Kind[t] # "struct",
           \A p \in Parts(t) : Known(abi, p), LegalIn(abi, NodeFor(t)),
           Continues(<<>>), Enter(TypeName[t], NodeFor(t))
    PROVE  AddInv'
<1>1. /\ activations \in Seq(Activation) /\ activations # <<>>
      /\ activations[1].type = t /\ activations[1].at = "await" /\ activations[1].at # "called"
      /\ <<>> \o Tail(activations) = Tail(activations)
    BY InnermostIs
<1>2. CASE Known(abi, t)
  <2>1. UNCHANGED abi
      BY <1>2, Entered
  <2> QED
      BY <1>2, <2>1, ReturnKeeps
<1>3. CASE ~Known(abi, t)
  <2>1. Changes(abi, abi', t) /\ Known(abi', t) /\ NodeIn(abi', t) = NodeFor(t)
      BY <1>3, Entered
  <2>2. Stands(abi', activations', Broken, t)
    <3>1. \A p \in Parts(t) : p \in Used
        BY UsedIs
    <3>2. \A p \in Parts(t) : Known(abi', p)
        BY <2>1, <3>1, OthersKept DEF Changes
    <3> QED
        BY <2>1, <3>2 DEF Stands, Whole
  <2>3. activations' = Tail(activations) /\ calls' = calls
      BY <1>1 DEF Continues
  <2>4. Alone(activations, t)
      BY DEF Alone
  <2> QED
      BY <1>1, <2>1, <2>2, <2>3, <2>4, PopStep
<1> QED
    BY <1>2, <1>3

\* Another alternative is called for, or the variant is entered.
LEMMA AlternativeKeeps ==
    ASSUME AddInv, NEW t \in Used, AddAlternative(t)
    PROVE  AddInv'
<1> DEFINE i == Waiting
           node == AbiNode("variant", TypeName[t], [k \in DOMAIN MembersOf[t] |-> FieldOf(t, k)])
<1>1. /\ At("await", t) /\ Kind[t] = "variant" /\ Continues(FromMember(t, i + 1))
      /\ IF i < Len(MembersOf[t]) THEN UNCHANGED abi ELSE Enter(TypeName[t], node)
    BY DEF AddAlternative
<1>2. IsPart(t, i) /\ i \in Nat \ {0} /\ PartsKnown(abi, t, i)
    BY <1>1, WaitingIs
<1>3. NodeFor(t) = node
    BY <1>1 DEF NodeFor, Primitive, Wrapping
<1> HIDE DEF i, node
<1>4. i \in 1 .. Len(MembersOf[t]) /\ Len(MembersOf[t]) \in Nat
    BY <1>1, <1>2, MembersAre DEF IsPart, Wrapping
<1>5. i + 1 \in Nat \ {0} /\ (i + 1) - 1 = i /\ Kind[t] # "struct"
    BY <1>1, <1>2
<1>6. CASE i < Len(MembersOf[t])
  <2>1. UNCHANGED abi /\ ~(i + 1 > Len(MembersOf[t]))
      BY <1>1, <1>4, <1>6
  <2>2. IsPart(t, i + 1) /\ FromMember(t, i + 1) = CallPart(t, i + 1)
      BY <1>1, <1>5, <2>1, MemberIs
  <2>3. Continues(CallPart(t, i + 1)) /\ PartsKnown(abi, t, (i + 1) - 1)
      BY <1>1, <1>2, <1>5, <2>2
  <2> QED
      BY <1>1, <1>5, <2>1, <2>2, <2>3, ProceedKeeps
<1>7. CASE ~(i < Len(MembersOf[t]))
  <2>1. i = Len(MembersOf[t]) /\ i + 1 > Len(MembersOf[t])
      BY <1>4, <1>7
  <2>2. Continues(<<>>) /\ Enter(TypeName[t], NodeFor(t))
      BY <1>1, <1>3, <1>5, <1>7, <2>1, MemberIs
  <2>3. ASSUME NEW p \in Parts(t) PROVE Known(abi, p)
    <3>1. PICK k \in Nat : IsPart(t, k) /\ p = PartAt(t, k)
        BY PartsAreAt
    <3>2. k \in 1 .. i
        BY <1>1, <2>1, <3>1 DEF IsPart, Wrapping
    <3> QED
        BY <1>2, <3>1, <3>2 DEF PartsKnown
  <2>4. LegalIn(abi, NodeFor(t))
      BY <1>3 DEF LegalIn, AbiNode, Wrappers, node
  <2> QED
      BY <1>1, <1>5, <2>2, <2>3, <2>4, EnteredKeeps
<1> QED
    BY <1>6, <1>7

\* A wrapper calls for its element.
LEMMA ElementKeeps ==
    ASSUME AddInv, NEW t \in Used, AddElement(t)
    PROVE  AddInv'
<1>1. At("begin", t) /\ Kind[t] \in Wrapping /\ UNCHANGED abi /\ Continues(<<Begins(Elem[t]), Awaits(t, 1)>>)
    BY DEF AddElement
<1>2. IsPart(t, 1) /\ Continues(CallPart(t, 1)) /\ Kind[t] # "struct"
    BY <1>1 DEF IsPart, CallPart, PartAt, Wrapping
<1>3. PartsKnown(abi, t, 1 - 1)
    BY DEF PartsKnown
<1> QED
    BY <1>1, <1>2, <1>3, ProceedKeeps

\* It is checked and entered, or the call fails.
LEMMA WrapperKeeps ==
    ASSUME AddInv, NEW t \in Used, AddWrapper(t)
    PROVE  AddInv'
<1> DEFINE node == AbiNode(SerializerOf[Kind[t]], TypeName[Elem[t]], <<>>)
<1>1. At("await", t) /\ Kind[t] \in Wrapping /\ activations # <<>>
    BY DEF AddWrapper, At
<1>2. NodeFor(t) = node
    BY <1>1 DEF NodeFor, Primitive, Wrapping
<1>3. CASE ~MayHold(Kind[t], abi[TypeName[Elem[t]]].ser)
  <2>1. Throw
      BY <1>3 DEF AddWrapper
  <2> QED
      BY <1>1, <2>1, ThrowKeeps
<1>4. CASE MayHold(Kind[t], abi[TypeName[Elem[t]]].ser)
  <2>1. Continues(<<>>) /\ Enter(TypeName[t], NodeFor(t))
      BY <1>2, <1>4 DEF AddWrapper
  <2>2. Parts(t) = {Elem[t]} /\ Kind[t] # "struct"
      BY <1>1 DEF Parts, Wrapping
  <2>3. Known(abi, Elem[t])
    <3>1. PartsKnown(abi, t, Waiting) /\ IsPart(t, Waiting)
        BY <1>1, WaitingIs
    <3>2. Waiting = 1 /\ PartAt(t, 1) = Elem[t] /\ 1 \in 1 .. 1
        BY <1>1, <3>1 DEF IsPart, PartAt, Wrapping
    <3> QED
        BY <3>1, <3>2 DEF PartsKnown
  <2>4. LegalIn(abi, NodeFor(t))
    <3>1. node.of = TypeName[Elem[t]] /\ node.ser = SerializerOf[Kind[t]]
        BY DEF AbiNode
    <3>2. node.ser = "extension" => Kind[t] = "might_not_exist"
        BY <1>1, <3>1 DEF SerializerOf, Wrapping
    <3>3. node.ser # "extension" => Kind[t] # "might_not_exist"
        BY <1>1, <3>1 DEF SerializerOf, Wrapping
    <3> QED
        BY <1>2, <1>4, <2>3, <3>1, <3>2, <3>3 DEF LegalIn, MayHold, Wrappers, Known
  <2> QED
      BY <1>1, <2>1, <2>2, <2>3, <2>4, EnteredKeeps
<1> QED
    BY <1>3, <1>4

\* The abi is empty or has the builtins.
LEMMA InitHolds == AddInit => AddInv
<1> SUFFICES ASSUME AddInit PROVE AddInv
    OBVIOUS
<1>1. activations = <<>> /\ calls = <<>> /\ (abi = <<>> \/ abi = Builtins)
    BY DEF AddInit
<1>2. activations \in Seq(Activation) /\ calls \in Seq(Call) /\ Arrived(abi, activations) /\ AllWait(abi, activations)
    BY <1>1 DEF Arrived, AllWait
<1>3. \A n \in DOMAIN abi : n \in Primitive /\ abi = Builtins
    BY <1>1 DEF Builtins
<1>4. AllStand(abi, activations, Broken)
  <2>1. ASSUME NEW u \in Used, Known(abi, u) PROVE Stands(abi, activations, Broken, u)
    <3>1. TypeName[u] \in Primitive /\ abi = Builtins
        BY <1>3, <2>1 DEF Known
    <3>2. Kind[u] \in Primitive /\ u \in CppType
        BY <3>1, UsedAssumption, UsedIs
    <3>3. Kind[u] # "struct" /\ Kind[u] \notin Wrapping /\ NodeFor(u) = Builtins[TypeName[u]]
        BY <3>2 DEF NodeFor, Primitive, Wrapping
    <3>4. MembersOf[u] = <<>>
        BY <3>2, CppAssumption
    <3>5. Parts(u) = {}
        BY <3>3, <3>4 DEF Parts
    <3> QED
        BY <3>1, <3>3, <3>5 DEF Stands, Whole, NodeIn
  <2> QED
      BY <2>1 DEF AllStand
<1>5. AddedAreComplete
    BY <1>1 DEF AddedAreComplete
<1>6. WrappersAreLegal
  <2>1. ASSUME NEW n \in DOMAIN abi PROVE abi[n].ser \notin Wrappers
    <3>1. n \in Primitive /\ abi[n] = AbiNode(n, n, <<>>)
        BY <1>3 DEF Builtins
    <3> QED
        BY <3>1 DEF AbiNode, Primitive, Wrappers
  <2> QED
      BY <2>1 DEF WrappersAreLegal
<1> QED
    BY <1>1, <1>2, <1>4, <1>5, <1>6 DEF AddInv

\* Every step keeps the invariant.
LEMMA StepHolds == AddInv /\ [AddNext]_addVars => AddInv'
<1> SUFFICES ASSUME AddInv, [AddNext]_addVars PROVE AddInv'
    OBVIOUS
<1>1. ASSUME NEW t \in Addable, CallAddType(t) \/ EndAddType(t) PROVE AddInv'
    BY <1>1, BeginKeeps, EndKeeps
<1>2. ASSUME NEW t \in Used, AddBasic(t) \/ AddStruct(t) \/ AddField(t) PROVE AddInv'
    BY <1>2, BasicKeeps, StructKeeps, FieldKeeps
<1>3. ASSUME NEW t \in Used, AddVariant(t) \/ AddAlternative(t) PROVE AddInv'
    BY <1>3, VariantKeeps, AlternativeKeeps
<1>4. ASSUME NEW t \in Used, AddElement(t) \/ AddWrapper(t) PROVE AddInv'
    BY <1>4, ElementKeeps, WrapperKeeps
<1>5. CASE UNCHANGED addVars
  <2>1. abi' = abi /\ calls' = calls /\ activations' = activations
      BY <1>5 DEF addVars
  <2>2. Failed' = Failed /\ Broken' = Broken
      BY <2>1 DEF Failed, Broken
  <2>3. AddedAreComplete' /\ WrappersAreLegal'
      BY <2>1, <2>2 DEF AddInv, AddedAreComplete, WrappersAreLegal, Spoilt, IsComplete
  <2> QED
      BY <2>1, <2>2, <2>3 DEF AddInv
<1> QED
    BY <1>1, <1>2, <1>3, <1>4, <1>5 DEF AddNext

\* When no call is running, nothing is under work.
LEMMA NothingUnderWork == AddInv => OnlyBrokenLackFields
<1> SUFFICES ASSUME AddInv, activations = <<>>, NEW u \in Used, Known(abi, u), ~IsComplete(u)
             PROVE  Kind[u] = "struct" /\ (\E f \in Failed : u \in MadeOf(f)) /\ LacksFields(u)
    BY DEF OnlyBrokenLackFields, Known
<1>1. Stands(abi, activations, Broken, u)
    BY DEF AddInv, AllStand
<1>2. Kind[u] = "struct"
    BY <1>1 DEF Stands, Whole, IsComplete, Known, NodeIn
<1>3. PICK k \in 0 .. Len(MembersOf[u]) : StandsAt(abi, activations, Broken, u, k)
    BY <1>1, <1>2 DEF Stands
<1>4. ~UnderWork(activations, u, k)
    BY DEF UnderWork
<1>5. k # Len(MembersOf[u])
    BY <1>2, <1>3, BegunIs DEF StandsAt, IsComplete, Known, NodeIn
<1>6. u \in Broken
    BY <1>3, <1>4, <1>5 DEF StandsAt
<1>7. LacksFields(u)
  <2>1. k \in 0 .. Len(MembersOf[u]) - 1
      BY <1>3, <1>5, MembersAre
  <2> QED
      BY <1>3, <2>1 DEF StandsAt, NodeIn, Begun, LacksFields
<1> QED
    BY <1>2, <1>6, <1>7 DEF Broken

\* Whatever types are added, in whatever order and however often, and whether or
\* not calls fail: a type that was added is in the abi with all of its fields,
\* and so is everything that it is made of, unless an earlier call failed while
\* it was at work on a struct they share; between the calls only such structs lack
\* fields, and only the last ones; and no node wraps what the serializers cannot
\* take (add_type, abi.hpp:285-356).
THEOREM AddingIsComplete == AddSpec => []AddedIsComplete
<1>1. AddInv => AddedIsComplete
    BY NothingUnderWork DEF AddInv, AddedIsComplete
<1> QED
    BY <1>1, InitHolds, StepHolds, PTL DEF AddSpec
=============================================================================
