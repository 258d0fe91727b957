----------------------------- MODULE AbiMeaning -----------------------------
(***************************************************************************)
(* What an abi_def means, and what compiling one promises: definitions     *)
(* that are sound are accepted, unless they are nested too deeply, with    *)
(* the graph they describe, and a name then stands for what they say.      *)
(* Nothing is said of the order in which that is found out.                *)
(***************************************************************************)
EXTENDS AbiNames

CONSTANTS Abis, Queries

VARIABLES def, verdict, meaning, query, answer

\* Deeper than any chain of different names.
Unlimited == Cardinality(Name) + 1

Declared(d) == {d[i].name : i \in DOMAIN d}
Defines(d, n) == d[CHOOSE i \in DOMAIN d : d[i].name = n]

\* No definition without a name, none of a name that is taken.
NamesAreGood(d) ==
    /\ "" \notin Declared(d)
    /\ Declared(d) \cap DOMAIN Prefilled = {}
    /\ \A i, j \in DOMAIN d : d[i].name = d[j].name => i = j

Made(kind) ==
    IF kind = "alias_def" THEN "alias"
    ELSE IF kind = "struct_def" THEN "struct" ELSE "variant"
KindIn(d, n) ==
    IF n \in Declared(d) THEN Made(Defines(d, n).kind)
    ELSE IF n \in DOMAIN Prefilled THEN Prefilled[n].kind
    ELSE Suffix[n]

\* The type that n stands for, NoName if there is none, given what the name
\* stands for that its definition or its suffix leads to.
StandsIn(d, names, n) ==
    IF n \in Declared(d) /\ Defines(d, n).kind = "alias_def"
    THEN LET t == names[Defines(d, n).of] IN
         IF t = NoName \/ KindIn(d, t) = "extension" THEN NoName ELSE t
    ELSE IF n \in Declared(d) \cup DOMAIN Prefilled THEN n
    ELSE IF Suffix[n] = "none" THEN NoName
    ELSE LET t == names[Stem[n]] IN
         IF t # NoName /\ MayWrap(Suffix[n], KindIn(d, t)) THEN n ELSE NoName

\* StandsFor(d)[k][n]: the type that n stands for, NoName if that is none or
\* takes more than k names to find.
StandsFor(d) ==
    LET F[k \in Nat] ==
        IF k = 0 THEN [n \in Name |-> NoName]
        ELSE [n \in Name |-> StandsIn(d, F[k - 1], n)]
    IN F

NoParts == <<[name |-> NoName, type |-> NoName]>>

\* The parts of a definition, each with the type that its name stands for.
OwnParts(d, names, n) ==
    LET parts == Defines(d, n).parts IN
    IF \E i \in DOMAIN parts : names[parts[i].type] = NoName THEN NoParts
    ELSE [i \in DOMAIN parts |-> [name |-> parts[i].name, type |-> names[parts[i].type]]]

\* The fields of the struct n, those of its base first, or NoParts, given what
\* names stand for and the fields of other structs.
Inherited(d, names, fields, n) ==
    LET base == Defines(d, n).of IN
    IF base = "" THEN <<>>
    ELSE IF names[base] = NoName THEN NoParts ELSE fields[names[base]]
PartsIn(d, names, fields, n) ==
    IF KindIn(d, n) # "struct" THEN NoParts
    ELSE IF n \in DOMAIN Prefilled THEN Prefilled[n].parts
    ELSE LET own == OwnParts(d, names, n)
             inherited == Inherited(d, names, fields, n)
         IN IF own = NoParts \/ inherited = NoParts THEN NoParts ELSE inherited \o own

\* AllParts(d)[k][n]: the fields of the struct n, NoParts if there are none or
\* they take more than k levels to find.
AllParts(d) ==
    LET F[k \in Nat] ==
        IF k = 0 THEN [n \in Name |-> NoParts]
        ELSE [n \in Name |-> PartsIn(d, StandsFor(d)[k - 1], F[k - 1], n)]
    IN F

\* The definition of n has a meaning that takes at most k levels to find.
Sound(d, k, n) ==
    IF KindIn(d, n) = "alias" THEN StandsFor(d)[k][n] # NoName
    ELSE IF KindIn(d, n) = "struct" THEN AllParts(d)[k][n] # NoParts
    ELSE OwnParts(d, StandsFor(d)[k - 1], n) # NoParts

AllSound(d, k) == NamesAreGood(d) /\ \A n \in Declared(d) : Sound(d, k, n)

\* The node that the definition of n describes, if it takes at most k levels.
NodeFor(d, k, n) ==
    IF KindIn(d, n) = "alias" THEN MakeNode("alias", StandsFor(d)[k][n], <<>>)
    ELSE IF KindIn(d, n) = "struct" THEN MakeNode("struct", "", AllParts(d)[k][n])
    ELSE MakeNode("variant", "", OwnParts(d, StandsFor(d)[k - 1], n))

Graph(d) == [n \in Declared(d) |-> NodeFor(d, Unlimited, n)]

-----------------------------------------------------------------------------
Init ==
    /\ def = <<>> /\ verdict = "none" /\ meaning = <<>>
    /\ query = NoName /\ answer = NoName

Submit ==
    /\ verdict = "none" /\ verdict' = "pending"
    /\ def' \in Abis
    /\ UNCHANGED <<meaning, query, answer>>

Accept ==
    /\ verdict = "pending" /\ AllSound(def, Unlimited)
    /\ verdict' = "accepted" /\ meaning' = Graph(def)
    /\ UNCHANGED <<def, query, answer>>

Reject ==
    /\ verdict = "pending" /\ ~AllSound(def, MaxDepth)
    /\ verdict' = "rejected"
    /\ UNCHANGED <<def, meaning, query, answer>>

Ask ==
    /\ verdict = "accepted" /\ answer # "waiting"
    /\ query' \in Queries /\ answer' = "waiting"
    /\ UNCHANGED <<def, verdict, meaning>>

Reply ==
    /\ answer = "waiting"
    /\ \/ answer' = StandsFor(def)[Unlimited][query]
       \/ answer' = NoName /\ StandsFor(def)[MaxDepth][query] = NoName
    /\ UNCHANGED <<def, verdict, meaning, query>>

Next == Submit \/ Accept \/ Reject \/ Ask \/ Reply

Spec == Init /\ [][Next]_<<def, verdict, meaning, query, answer>>
=============================================================================
