------------------------------ MODULE AssetMath ------------------------------
(***************************************************************************)
(* The arithmetic of asset and extended_asset (asset.hpp) on one object, a *)
(* balance.  The operators calculate first and check the result; amounts   *)
(* that were parsed or deserialized have never been checked.               *)
(***************************************************************************)
EXTENDS Integers, Sequences

CONSTANTS
    MaxAmount,    \* asset::max_amount
    Unit          \* the symbols, with the contract of an extended_asset:
                  \* records [symbol, contract, valid]
\* max_amount is 2^62 - 1, the limit of int64_t 2^63 - 1.
ASSUME AmountAssumption == MaxAmount \in Nat /\ MaxAmount > 0
ASSUME UnitAssumption == \A u \in Unit : u.valid \in BOOLEAN
Limit == 2 * MaxAmount + 1
Int64 == -Limit - 1 .. Limit

VARIABLES
    amount, unit,   \* the balance
    checked,        \* whether its amount has passed a check
    last            \* the last operation, on which amounts, and its outcome
assetVars == <<amount, unit, checked, last>>

\* is_amount_within_range().
\* Seeded fault: only the upper bound is checked.
WithinUpper(a) == a <= MaxAmount
Within(a) == -MaxAmount <= a /\ a <= MaxAmount
\* Signed overflow is undefined; the builds wrap around.
Wrapped(n) == IF n > Limit THEN n - 2 * (Limit + 1) ELSE IF n < -Limit - 1 THEN n + 2 * (Limit + 1) ELSE n
Abs(n) == IF n < 0 THEN -n ELSE n
\* The division of C++ truncates towards zero.
Truncated(a, b) ==
    LET q == Abs(a) \div Abs(b) IN IF (a < 0) = (b < 0) THEN q ELSE -q
Sign(n) == IF n < 0 THEN -1 ELSE IF n = 0 THEN 0 ELSE 1

Nothing == [op |-> "none", from |-> 0, by |-> 0, value |-> 0, status |-> "done"]
AssetInit ==
    /\ amount = 0 /\ unit \in Unit /\ unit.valid /\ checked = TRUE /\ last = Nothing

Did(op, by, value, status) ==
    last' = [op |-> op, from |-> amount, by |-> by, value |-> value, status |-> status]
Throws(op, by) == Did(op, by, 0, "threw") /\ UNCHANGED <<amount, unit, checked>>
Gives(op, by, value) == Did(op, by, value, "done") /\ UNCHANGED <<amount, unit, checked>>

-----------------------------------------------------------------------------
\* asset(a, u) checks; from_bin, from_json and string_to_asset do not.
Construct(a, u) ==
    IF Within(a) /\ u.valid
    THEN /\ amount' = a /\ unit' = u /\ checked' = TRUE
         /\ Did("construct", a, a, "done")
    ELSE Throws("construct", a)
Parse(a, u) ==
    /\ amount' = a /\ unit' = u /\ checked' = FALSE
    /\ Did("parse", a, a, "done")

\* The new amount is in place before it is checked, and stays if it is refused.
Set(op, by, value) ==
    /\ amount' = value /\ UNCHANGED unit
    /\ IF Within(value) THEN Did(op, by, value, "done") ELSE Did(op, by, 0, "threw")
    /\ checked' = Within(value)
SetAmount(a) == Set("set", a, a)

\* a += b and a -= b; a + b and a - b work on a copy, and a does not change when
\* they throw.  Here the sum is assigned to a.
Copied(op, by, value) ==
    IF Within(value)
    THEN amount' = value /\ checked' = TRUE /\ Did(op, by, value, "done") /\ UNCHANGED unit
    ELSE Throws(op, by)
SumOf(op, b) == Wrapped(IF op = "+" THEN amount + b ELSE amount - b)
Add(op, b, u, onCopy) ==
    IF u # unit THEN Throws("mismatch", b)
    ELSE IF onCopy THEN Copied(op, b, SumOf(op, b)) ELSE Set(op, b, SumOf(op, b))

\* The product is calculated in 128 bits and checked before it is assigned.
Multiply(k) == Copied("*", k, amount * k)

Divide(k) ==
    IF k = 0 \/ (amount = -Limit - 1 /\ k = -1) THEN Throws("/", k)
    ELSE /\ amount' = Truncated(amount, k) /\ UNCHANGED <<unit, checked>>
         /\ Did("/", k, Truncated(amount, k), "done")

Negate ==
    /\ amount' = Wrapped(-amount) /\ UNCHANGED <<unit, checked>>
    /\ Did("negate", 0, Wrapped(-amount), "done")

\* asset / asset: nothing keeps the lowest amount from being divided by -1, which
\* is undefined and a trap on x86.
Ratio(b, u) ==
    IF b = 0 \/ u # unit THEN Throws("mismatch", b)
    ELSE IF amount = -Limit - 1 /\ b = -1
         THEN Did("ratio", b, 0, "trap") /\ UNCHANGED <<amount, unit, checked>>
    ELSE Gives("ratio", b, Truncated(amount, b))

Compare(b, u) ==
    IF u # unit THEN Throws("mismatch", b) ELSE Gives("compare", b, Sign(amount - b))
\* == of extended assets looks at the contract last, and does not throw for it.
Equal(b, u) ==
    IF u.symbol # unit.symbol THEN Throws("mismatch", b)
    ELSE Gives("equal", b, IF amount = b /\ u = unit THEN 1 ELSE 0)

AssetNext ==
    /\ last.status # "trap"
    /\ \/ \E a \in Int64, u \in Unit : Construct(a, u) \/ Parse(a, u) \/ Ratio(a, u) \/ Compare(a, u)
       \/ \E a \in Int64, u \in Unit : Equal(a, u)
       \/ \E a \in Int64 : SetAmount(a) \/ Multiply(a) \/ Divide(a)
       \/ \E a \in Int64, u \in Unit, onCopy \in BOOLEAN : Add("+", a, u, onCopy) \/ Add("-", a, u, onCopy)
       \/ Negate
AssetSpec == AssetInit /\ [][AssetNext]_assetVars

-----------------------------------------------------------------------------
\* What the operations promise, in the integers.
Exact(l) ==
    IF l.op = "+" THEN l.from + l.by
    ELSE IF l.op = "-" THEN l.from - l.by
    ELSE IF l.op = "*" THEN l.from * l.by ELSE -l.from

\* The check after the sum is enough even though the sum may have overflowed by
\* then, as long as one of the two amounts was within range; the sum of two
\* amounts that were only parsed may be anything (asset.hpp:102, 118).  What a
\* sum or a product refuses is out of range.
OneWithin(l) == Within(l.from) \/ (l.op \in {"+", "-"} /\ Within(l.by))
SumsExact(l) ==
    OneWithin(l) /\ l.op \in {"+", "-", "*", "negate"} =>
        /\ l.status = "done" => l.value = Exact(l)
        /\ l.status = "threw" => ~Within(Exact(l))

\* A balance whose amount has passed a check stays within range until a change
\* made in place is refused, which leaves it with the amount that was refused;
\* and only an amount that has passed none runs into the trap.
AmountsExact ==
    /\ checked => Within(amount)
    /\ SumsExact(last)
    /\ last.status = "trap" => ~checked
=============================================================================
