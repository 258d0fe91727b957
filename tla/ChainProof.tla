----------------------------- MODULE ChainProof -----------------------------
(***************************************************************************)
(* Proofs about Chain, for numbers, texts and keys of every size: what the *)
(* texts and short forms of values stand for is the values themselves, and *)
(* integers and amounts are read and calculated exactly or refused.  First *)
(* integers, amounts and varints; then dates and times; then numerals of   *)
(* any base, with which keys and checksums come back; at last what the     *)
(* client may hold.                                                        *)
(***************************************************************************)
EXTENDS Chain, StackLemmas

-----------------------------------------------------------------------------
(* Reading an integer.  The heart of it is that the test before a digit,   *)
(* made with a division that truncates, holds just when the number with    *)
(* the digit is still one of the type.                                     *)

\* While digits are read, sign and limit belong together.
SignAndLimit ==
    \/ sign = 1 /\ limit = int.max
    \/ sign = -1 /\ limit = Lowest(int) /\ int.signed
IntInv ==
    /\ int \in IntTypes /\ exact \in Nat /\ result \in Int /\ sign \in {1, -1}
    /\ phase = "digits" => SignAndLimit
    /\ ReadsExactly

\* What is known of an integer type.
LEMMA TypeOfInt ==
    ASSUME NEW t \in IntTypes
    PROVE  t.signed \in BOOLEAN /\ t.max \in Nat /\ t.max >= 9 /\ Lowest(t) \in Int
BY IntTypesAssumption DEF Lowest

\* The quotient tells whether ten times r and a digit still fit.
LEMMA RoundsDown ==
    ASSUME NEW m \in Nat, NEW d \in 0 .. 9, NEW r \in Nat, m >= 9
    PROVE  r <= (m - d) \div 10 <=> 10 * r + d <= m
<1>1. m - d \in Nat
    OBVIOUS
<1>2. QED
    BY <1>1

\* A positive number of a signed type.
LEMMA FitsPositive ==
    ASSUME NEW t \in IntTypes, t.signed = TRUE, NEW r \in Nat, NEW d \in 0 .. 9
    PROVE  Fits(t, 1, t.max, r, d) <=> 10 * r + d <= t.max
<1>1. t.max \in Nat /\ t.max >= 9
    BY TypeOfInt
<1>2. Quotient((-1) * t.max + d) = -((t.max - d) \div 10)
  <2>1. CASE t.max = d
    BY <1>1, <2>1 DEF Quotient
  <2>2. CASE t.max # d
    <3>1. (-1) * t.max + d < 0 /\ -((-1) * t.max + d) = t.max - d
        BY <1>1, <2>2
    <3>2. QED
        BY <3>1 DEF Quotient
  <2>3. QED
    BY <2>1, <2>2
<1>3. (t.max - d) \div 10 \in Int
    BY <1>1
<1>4. Fits(t, 1, t.max, r, d) <=> -((t.max - d) \div 10) <= (-1) * r
    BY <1>2 DEF Fits
<1>5. (-((t.max - d) \div 10) <= (-1) * r) <=> (r <= (t.max - d) \div 10)
    BY <1>3
<1>6. QED
    BY <1>1, <1>4, <1>5, RoundsDown

\* A negative one: r is its absolute value.
LEMMA FitsNegative ==
    ASSUME NEW t \in IntTypes, t.signed = TRUE, NEW r \in Nat, NEW d \in 0 .. 9
    PROVE  Fits(t, -1, Lowest(t), -r, d) <=> 10 * r + d <= t.max + 1
<1>1. t.max \in Nat /\ t.max >= 9
    BY TypeOfInt
<1>2. Lowest(t) = -t.max - 1
    BY DEF Lowest
<1>3. (-(-1)) * Lowest(t) + d < 0 /\ -((-(-1)) * Lowest(t) + d) = t.max + 1 - d
    BY <1>1, <1>2
<1>4. Quotient((-(-1)) * Lowest(t) + d) = -((t.max + 1 - d) \div 10)
    BY <1>3 DEF Quotient
<1>5. (t.max + 1 - d) \div 10 \in Int
    BY <1>1
<1>6. Fits(t, -1, Lowest(t), -r, d) <=> -((t.max + 1 - d) \div 10) <= (-(-1)) * (-r)
    BY <1>4 DEF Fits
<1>7. (-((t.max + 1 - d) \div 10) <= (-(-1)) * (-r)) <=> (r <= (t.max + 1 - d) \div 10)
    BY <1>5
<1>8. QED
    BY <1>1, <1>6, <1>7, RoundsDown

\* A number of an unsigned type.
LEMMA FitsUnsigned ==
    ASSUME NEW t \in IntTypes, t.signed = FALSE, NEW r \in Nat, NEW d \in 0 .. 9
    PROVE  Fits(t, 1, t.max, r, d) <=> 10 * r + d <= t.max
<1>1. t.max \in Nat /\ t.max >= 9
    BY TypeOfInt
<1>2. (t.max - d) \div 10 \in Int
    BY <1>1
<1>3. Fits(t, 1, t.max, r, d) <=> r <= (t.max - d) \div 10
    BY <1>2 DEF Fits
<1>4. QED
    BY <1>1, <1>3, RoundsDown

\* Together: the test says whether the number with its next digit is in range.
LEMMA FitsExactly ==
    ASSUME IntInv, phase = "digits", NEW d \in 0 .. 9
    PROVE  Fits(int, sign, limit, result, d) <=> InRange(int, sign * (10 * exact + d))
<1>1. /\ int \in IntTypes /\ exact \in Nat /\ result = sign * exact
      /\ SignAndLimit /\ InRange(int, result)
    BY DEF IntInv, ReadsExactly
<1>2. int.signed \in BOOLEAN /\ int.max \in Nat
    BY <1>1, TypeOfInt
<1>3. CASE sign = -1
  <2>1. limit = Lowest(int) /\ int.signed = TRUE /\ result = -exact
    BY <1>1, <1>2, <1>3 DEF SignAndLimit
  <2>2. Fits(int, sign, limit, result, d) <=> 10 * exact + d <= int.max + 1
    BY <1>1, <1>3, <2>1, FitsNegative
  <2>3. Lowest(int) = -int.max - 1
    BY <2>1 DEF Lowest
  <2>4. InRange(int, sign * (10 * exact + d)) <=> 10 * exact + d <= int.max + 1
    BY <1>1, <1>2, <1>3, <2>3 DEF InRange
  <2>5. QED
    BY <2>2, <2>4
<1>4. CASE sign = 1
  <2>1. limit = int.max /\ result = exact
    BY <1>1, <1>4 DEF SignAndLimit
  <2>2. Fits(int, sign, limit, result, d) <=> 10 * exact + d <= int.max
    BY <1>1, <1>2, <1>4, <2>1, FitsPositive, FitsUnsigned
  <2>3. Lowest(int) <= 0
    BY <1>2 DEF Lowest
  <2>4. Lowest(int) \in Int
    BY <1>1, TypeOfInt
  <2>5. InRange(int, sign * (10 * exact + d)) <=> 10 * exact + d <= int.max
    BY <1>1, <1>2, <1>4, <2>3, <2>4 DEF InRange
  <2>6. QED
    BY <2>2, <2>5
<1>5. QED
    BY <1>1, <1>3, <1>4 DEF SignAndLimit

\* Every type has the zero.
LEMMA ZeroInRange == ASSUME NEW t \in IntTypes PROVE InRange(t, 0)
BY TypeOfInt DEF InRange, Lowest

\* The client has read nothing at first.
LEMMA IntInvInit == IntInit => IntInv
BY DEF IntInit, Fresh, IntInv, ReadsExactly

\* Nothing has been read where reading starts.
LEMMA IntInvStarts ==
    ASSUME NEW t \in IntTypes, NEW minus \in BOOLEAN, int' = t, StartReading(t, minus)
    PROVE  IntInv'
<1>1. t.signed \in BOOLEAN /\ t.max \in Nat
    BY TypeOfInt
<1>2. InRange(t, 0)
    BY ZeroInRange
<1>3. int' \in IntTypes /\ exact' \in Nat /\ result' \in Int /\ sign' \in {1, -1}
    BY DEF StartReading
<1>4. (phase = "digits" => SignAndLimit)'
    BY <1>1 DEF StartReading, SignAndLimit
<1>5. ReadsExactly'
  <2>1. result' = 0 /\ exact' = 0 /\ phase' \in {"expected_int", "digits"}
    BY DEF StartReading
  <2>2. sign' * exact' = 0
    BY <2>1, 1 * 0 = 0, (-1) * 0 = 0, <1>3
  <2>3. QED
    BY <1>2, <2>1, <2>2 DEF ReadsExactly, InRange, Lowest
<1>6. QED
    BY <1>3, <1>4, <1>5 DEF IntInv

\* One digit more is read exactly, or refused.
LEMMA IntInvDigit ==
    ASSUME IntInv, NEW d \in 0 .. 9, Digit(d)
    PROVE  IntInv'
<1>1. /\ phase = "digits" /\ int' = int /\ sign' = sign /\ limit' = limit
      /\ exact' = 10 * exact + d
    BY DEF Digit
<1>2. /\ int \in IntTypes /\ exact \in Nat /\ result \in Int /\ sign \in {1, -1}
      /\ SignAndLimit /\ result = sign * exact
    BY <1>1 DEF IntInv, ReadsExactly
<1>3. exact' \in Nat
    BY <1>1, <1>2
<1>4. Fits(int, sign, limit, result, d) <=> InRange(int, sign * exact')
    BY <1>1, FitsExactly
<1>5. CASE Fits(int, sign, limit, result, d)
  <2>1. result' = result * 10 + sign * d /\ phase' = phase
    BY <1>5 DEF Digit
  <2>2. result' = sign' * exact'
    <3>1. CASE sign = 1
        BY <1>1, <1>2, <2>1, <3>1
    <3>2. CASE sign = -1
        BY <1>1, <1>2, <2>1, <3>2
    <3>3. QED
        BY <1>2, <3>1, <3>2
  <2>3. result' \in Int
    BY <1>2, <2>1
  <2>4. InRange(int, result')
    BY <1>1, <1>4, <1>5, <2>2
  <2>5. ReadsExactly'
    BY <1>1, <2>1, <2>2, <2>4 DEF ReadsExactly, InRange, Lowest
  <2>6. QED
    BY <1>1, <1>2, <1>3, <2>1, <2>3, <2>5 DEF IntInv, SignAndLimit, Lowest
<1>6. CASE ~Fits(int, sign, limit, result, d)
  <2>1. phase' = "number_out_of_range" /\ result' = result
    BY <1>6 DEF Digit
  <2>2. ~InRange(int, sign * exact')
    BY <1>4, <1>6
  <2>3. ReadsExactly'
    BY <1>1, <2>1, <2>2 DEF ReadsExactly, InRange, Lowest
  <2>4. QED
    BY <1>1, <1>2, <1>3, <2>1, <2>3 DEF IntInv
<1>7. QED
    BY <1>5, <1>6

\* No step of the integers breaks it.
LEMMA IntInvNext == IntInv /\ [IntNext]_intVars => IntInv'
<1> SUFFICES ASSUME IntInv, [IntNext]_intVars PROVE IntInv'
    OBVIOUS
<1> USE DEF IntInv, ReadsExactly, SignAndLimit, InRange, Lowest
<1>1. CASE \E t \in IntTypes, minus \in BOOLEAN : BeginRead(t, minus)
  <2>1. PICK t \in IntTypes, minus \in BOOLEAN : BeginRead(t, minus)
    BY <1>1
  <2>2. QED
    BY <2>1, IntInvStarts DEF BeginRead
<1>2. CASE \E t \in IntTypes : \E v \in Lowest(t) .. t.max : BeginWrite(t, v)
    BY <1>2 DEF BeginWrite, reader
<1>3. CASE WriteDigit
    BY <1>3 DEF WriteDigit, reader
<1>4. CASE ReadBack
  <2>1. int' = int /\ StartReading(int, given[1] < 0)
    BY <1>4 DEF ReadBack
  <2>2. (given[1] < 0) \in BOOLEAN
    OBVIOUS
  <2>3. QED
    BY <2>1, <2>2, IntInvStarts
<1>5. CASE \E d \in 0 .. 9 : Digit(d)
    BY <1>5, IntInvDigit
<1>6. CASE \E end \in BOOLEAN : Finish(end)
  <2>1. phase = "digits" /\ phase' \in {"ok", "expected_int"} /\ int' = int /\ UNCHANGED reader
    BY <1>6 DEF Finish
  <2>2. QED
    BY <2>1 DEF reader
<1>7. CASE UNCHANGED intVars
    BY <1>7 DEF intVars
<1>8. QED
    BY <1>1, <1>2, <1>3, <1>4, <1>5, <1>6, <1>7 DEF IntNext

\* from_json_int gives the number its text stands for, or refuses it when it is
\* not one of the type, without ever overflowing on the way (from_json.hpp:387).
THEOREM IntegersReadExactly == IntSpec => []ReadsExactly
<1>1. IntInit => IntInv
    BY IntInvInit
<1>2. IntInv /\ [IntNext]_intVars => IntInv'
    BY IntInvNext
<1>3. IntInv => ReadsExactly
    BY DEF IntInv
<1>4. QED
    BY <1>1, <1>2, <1>3, PTL DEF IntSpec

-----------------------------------------------------------------------------
(* Balances.  A sum of two amounts, one of them within range, that         *)
(* overflows wraps around to the far side of the range, never into it:     *)
(* that is why checking it afterwards is enough.                           *)

AssetInv ==
    /\ amount \in Int64 /\ last.status \in {"done", "threw", "trap"}
    /\ AmountsExact

\* Twice the largest amount and one is the limit of the sums.
LEMMA Bounds == MaxAmount \in Nat /\ MaxAmount > 0 /\ Limit = 2 * MaxAmount + 1
BY AmountAssumption DEF Limit

\* A wrapped number is an int64.
LEMMA WrappedType ==
    ASSUME NEW n \in Int, -(2 * Limit) - 2 <= n, n <= 2 * Limit + 1
    PROVE  Wrapped(n) \in Int64
BY Bounds DEF Wrapped, Int64

\* If one of the terms was within range, the wrapped sum is within range just
\* when the sum is, and then it is the sum.
LEMMA SumChecks ==
    ASSUME NEW a \in Int64, NEW b \in Int64, Within(a) \/ Within(b),
           NEW n \in Int, n = a + b \/ n = a - b
    PROVE  /\ Within(Wrapped(n)) <=> Within(n)
           /\ Within(n) => Wrapped(n) = n
BY Bounds DEF Int64, Within, Wrapped

\* A negated amount is in range again.
LEMMA NegateChecks ==
    ASSUME NEW a \in Int, Within(a)
    PROVE  Wrapped(-a) = -a /\ Within(-a)
BY Bounds DEF Within, Wrapped

\* A quotient is no larger than what is divided.
LEMMA QuotientBound ==
    ASSUME NEW a \in Nat, NEW b \in Nat, b > 0
    PROVE  a \div b \in Nat /\ a \div b <= a
OBVIOUS

\* A quotient is no farther from zero.
LEMMA DivideKeeps ==
    ASSUME NEW a \in Int64, NEW k \in Int64, k # 0, ~(a = -Limit - 1 /\ k = -1)
    PROVE  Truncated(a, k) \in Int64 /\ (Within(a) => Within(Truncated(a, k)))
<1> DEFINE q == Abs(a) \div Abs(k)
<1>1. Abs(a) \in Nat /\ Abs(k) \in Nat /\ Abs(k) > 0
    BY Bounds DEF Int64, Abs
<1>2. q \in Nat /\ q <= Abs(a)
    BY <1>1, QuotientBound
<1>3. Truncated(a, k) = q \/ Truncated(a, k) = -q
    BY DEF Truncated
<1>4. Within(a) => Within(Truncated(a, k))
    BY <1>2, <1>3, Bounds DEF Within, Int64, Abs
<1>5. CASE a # -Limit - 1
  <2>1. Abs(a) <= Limit
    BY <1>5, Bounds DEF Int64, Abs
  <2>2. Limit \in Nat /\ Abs(a) \in Int /\ q <= Limit
    BY <1>1, <1>2, <2>1, Bounds
  <2>3. Truncated(a, k) \in Int64
    BY <1>2, <1>3, <2>2 DEF Int64
  <2>4. QED
    BY <1>4, <2>3
<1>6. CASE a = -Limit - 1 /\ k > 0
  <2>1. (a < 0) # (k < 0)
    BY <1>6, Bounds
  <2>2. Truncated(a, k) = -q
    BY <2>1 DEF Truncated
  <2>3. QED
    BY <1>2, <1>4, <1>6, <2>2, Bounds DEF Int64, Abs
<1>7. CASE a = -Limit - 1 /\ k < -1
  <2>1. Abs(a) = Limit + 1 /\ Abs(k) >= 2
    BY <1>7, Bounds DEF Int64, Abs
  <2>2. q <= Limit
    <3>1. q \in Nat /\ Abs(k) * q <= Abs(a)
        BY <1>1, <1>2
    <3>2. Abs(k) * q = (Abs(k) - 2) * q + 2 * q
        BY <1>1, <3>1
    <3>3. (Abs(k) - 2) * q >= 0
      <4>1. \A x, y \in Nat : x * y >= 0
        OBVIOUS
      <4>2. Abs(k) - 2 \in Nat
        BY <1>1, <2>1
      <4>3. QED
        BY <3>1, <4>1, <4>2
    <3>4. 2 * q <= Abs(a)
      <4>1. (Abs(k) - 2) * q \in Int
        BY <1>1, <3>1
      <4>2. QED
        BY <1>1, <3>1, <3>2, <3>3, <4>1
    <3>5. QED
        BY <2>1, <3>1, <3>4, Bounds
  <2>3. QED
    BY <1>2, <1>3, <1>4, <2>2, Bounds DEF Int64
<1>8. QED
    BY <1>5, <1>6, <1>7, Bounds DEF Int64

-----------------------------------------------------------------------------
\* A balance is exact at first.
LEMMA AssetInvInit == AssetInit => AssetInv
BY Bounds DEF AssetInit, AssetInv, AmountsExact, SumsExact, OneWithin, Nothing, Int64, Within

\* The ways an operation can end.
LEMMA ThrowsKeeps ==
    ASSUME AssetInv, NEW op, op \notin {"+", "-", "*", "negate"}, NEW b \in Int64, Throws(op, b)
    PROVE  AssetInv'
BY DEF Throws, Did, AssetInv, AmountsExact, SumsExact, Within

\* What an operation gives is an amount, or a trap.
LEMMA GivesKeeps ==
    ASSUME AssetInv, NEW op, op \notin {"+", "-", "*", "negate"}, NEW b \in Int64, NEW v,
           Gives(op, b, v)
    PROVE  AssetInv'
BY DEF Gives, Did, AssetInv, AmountsExact, SumsExact, Within

\* A value whose check says what the check of the exact one would say.
Faithful(op, b, value) ==
    LET l == [op |-> op, from |-> amount, by |-> b, value |-> 0, status |-> "done"] IN
    OneWithin(l) /\ op \in {"+", "-", "*", "negate"} =>
        /\ Within(value) <=> Within(Exact(l))
        /\ Within(value) => value = Exact(l)

\* Setting an amount keeps it in range.
LEMMA SetKeeps ==
    ASSUME AssetInv, NEW op, NEW b \in Int64, NEW value \in Int64, Faithful(op, b, value),
           Set(op, b, value)
    PROVE  AssetInv'
<1>1. amount' = value /\ checked' = Within(value)
    BY DEF Set
<1>2. CASE Within(value)
  <2>1. last' = [op |-> op, from |-> amount, by |-> b, value |-> value, status |-> "done"]
    BY <1>2 DEF Set, Did
  <2>2. SumsExact(last')
    BY <1>2, <2>1 DEF Faithful, SumsExact, OneWithin, Exact
  <2>3. QED
    BY <1>1, <1>2, <2>1, <2>2 DEF AssetInv, AmountsExact, Within, SumsExact
<1>3. CASE ~Within(value)
  <2>1. last' = [op |-> op, from |-> amount, by |-> b, value |-> 0, status |-> "threw"]
    BY <1>3 DEF Set, Did
  <2>2. SumsExact(last')
    BY <1>3, <2>1 DEF Faithful, SumsExact, OneWithin, Exact
  <2>3. QED
    BY <1>1, <1>3, <2>1, <2>2 DEF AssetInv, AmountsExact, SumsExact
<1>4. QED
    BY <1>2, <1>3

\* A copy is as exact as its original.
LEMMA CopiedKeeps ==
    ASSUME AssetInv, NEW op, NEW b \in Int64, NEW value \in Int, Faithful(op, b, value),
           Copied(op, b, value)
    PROVE  AssetInv'
<1>1. CASE Within(value)
  <2>1. /\ amount' = value /\ checked' = TRUE
        /\ last' = [op |-> op, from |-> amount, by |-> b, value |-> value, status |-> "done"]
    BY <1>1 DEF Copied, Did
  <2>2. SumsExact(last')
    BY <1>1, <2>1 DEF Faithful, SumsExact, OneWithin, Exact
  <2>3. value \in Int64
    BY <1>1, Bounds DEF Within, Int64
  <2>4. QED
    BY <1>1, <2>1, <2>2, <2>3 DEF AssetInv, AmountsExact, Within
<1>2. CASE ~Within(value)
  <2>1. /\ UNCHANGED <<amount, unit, checked>>
        /\ last' = [op |-> op, from |-> amount, by |-> b, value |-> 0, status |-> "threw"]
    BY <1>2 DEF Copied, Throws, Did
  <2>2. SumsExact(last')
    BY <1>2, <2>1 DEF Faithful, SumsExact, OneWithin, Exact
  <2>3. QED
    BY <2>1, <2>2 DEF AssetInv, AmountsExact, Within
<1>3. QED
    BY <1>1, <1>2

\* So is a sum, or it is refused.
LEMMA AddKeeps ==
    ASSUME AssetInv, NEW op \in {"+", "-"}, NEW b \in Int64, NEW u, NEW onCopy \in BOOLEAN,
           Add(op, b, u, onCopy)
    PROVE  AssetInv'
<1>1. CASE u # unit
    BY <1>1, ThrowsKeeps DEF Add
<1>2. CASE u = unit
  <2> DEFINE n == IF op = "+" THEN amount + b ELSE amount - b
  <2>1. amount \in Int64 /\ n \in Int /\ (n = amount + b \/ n = amount - b)
    BY Bounds DEF AssetInv, Int64
  <2>2. SumOf(op, b) = Wrapped(n)
    BY DEF SumOf
  <2>3. Wrapped(n) \in Int64
    BY <2>1, Bounds, WrappedType DEF Int64
  <2>4. Faithful(op, b, Wrapped(n))
    <3>1. SUFFICES ASSUME Within(amount) \/ Within(b)
                   PROVE  /\ Within(Wrapped(n)) <=> Within(n)
                          /\ Within(Wrapped(n)) => Wrapped(n) = n
        BY DEF Faithful, OneWithin, Exact
    <3>2. QED
        BY <2>1, <3>1, SumChecks
  <2>5. CASE onCopy
    <3>1. Copied(op, b, Wrapped(n))
        BY <1>2, <2>2, <2>5 DEF Add
    <3>2. Wrapped(n) \in Int
        BY <2>3 DEF Int64
    <3>3. QED
        BY <2>4, <3>1, <3>2, CopiedKeeps
  <2>6. CASE ~onCopy
    <3>1. Set(op, b, Wrapped(n))
        BY <1>2, <2>2, <2>6 DEF Add
    <3>2. QED
        BY <2>3, <2>4, <3>1, SetKeeps
  <2>7. QED
    BY <2>5, <2>6
<1>3. QED
    BY <1>1, <1>2

\* No step of the balances breaks it.
LEMMA AssetInvNext == AssetInv /\ [AssetNext]_assetVars => AssetInv'
<1> SUFFICES ASSUME AssetInv, [AssetNext]_assetVars PROVE AssetInv'
    OBVIOUS
<1>1. amount \in Int64 /\ 0 \in Int64
    BY Bounds DEF AssetInv, Int64
<1>2. ASSUME NEW a \in Int64, NEW u \in Unit, Construct(a, u) PROVE AssetInv'
  <2>1. CASE Within(a) /\ u.valid
    BY <1>2, <2>1 DEF Construct, Did, AssetInv, AmountsExact, SumsExact, Within
  <2>2. CASE ~(Within(a) /\ u.valid)
    BY <1>2, <2>2, ThrowsKeeps DEF Construct
  <2>3. QED
    BY <2>1, <2>2
<1>3. ASSUME NEW a \in Int64, NEW u \in Unit, Parse(a, u) PROVE AssetInv'
    BY <1>3 DEF Parse, Did, AssetInv, AmountsExact, SumsExact
<1>4. ASSUME NEW a \in Int64, NEW u \in Unit, Ratio(a, u) PROVE AssetInv'
  <2>1. CASE a = 0 \/ u # unit
    BY <1>4, <2>1, ThrowsKeeps DEF Ratio
  <2>2. CASE ~(a = 0 \/ u # unit) /\ amount = -Limit - 1 /\ a = -1
    <3>1. ~Within(amount)
        BY <2>2, Bounds DEF Within
    <3>2. ~checked
        BY <3>1 DEF AssetInv, AmountsExact
    <3>3. QED
        BY <1>1, <1>4, <2>2, <3>1, <3>2 DEF Ratio, Did, AssetInv, AmountsExact, SumsExact, Within
  <2>3. CASE ~(a = 0 \/ u # unit) /\ ~(amount = -Limit - 1 /\ a = -1)
    BY <1>4, <2>3, GivesKeeps DEF Ratio
  <2>4. QED
    BY <2>1, <2>2, <2>3
<1>5. ASSUME NEW a \in Int64, NEW u \in Unit, Compare(a, u) \/ Equal(a, u) PROVE AssetInv'
  <2>1. CASE Compare(a, u)
    BY <2>1, ThrowsKeeps, GivesKeeps DEF Compare
  <2>2. CASE Equal(a, u)
    BY <2>2, ThrowsKeeps, GivesKeeps DEF Equal
  <2>3. QED
    BY <1>5, <2>1, <2>2
<1>6. ASSUME NEW a \in Int64, SetAmount(a) PROVE AssetInv'
  <2>1. Faithful("set", a, a)
    BY DEF Faithful
  <2>2. QED
    BY <1>6, <2>1, SetKeeps DEF SetAmount
<1>7. ASSUME NEW a \in Int64, Multiply(a) PROVE AssetInv'
  <2>1. amount * a \in Int
    BY <1>1, Bounds DEF Int64
  <2>2. Faithful("*", a, amount * a)
    BY DEF Faithful, Exact
  <2>3. QED
    BY <1>7, <2>1, <2>2, CopiedKeeps DEF Multiply
<1>8. ASSUME NEW a \in Int64, Divide(a) PROVE AssetInv'
  <2>1. CASE a = 0 \/ (amount = -Limit - 1 /\ a = -1)
    BY <1>8, <2>1, ThrowsKeeps DEF Divide
  <2>2. CASE ~(a = 0 \/ (amount = -Limit - 1 /\ a = -1))
    <3>1. /\ amount' = Truncated(amount, a) /\ UNCHANGED <<unit, checked>>
          /\ Did("/", a, Truncated(amount, a), "done")
        BY <1>8, <2>2 DEF Divide
    <3>2. Truncated(amount, a) \in Int64 /\ (Within(amount) => Within(Truncated(amount, a)))
        BY <1>1, <2>2, DivideKeeps
    <3>3. checked' => Within(amount')
        BY <3>1, <3>2 DEF AssetInv, AmountsExact
    <3>4. SumsExact(last') /\ last'.status = "done"
        BY <3>1 DEF Did, SumsExact
    <3>5. QED
        BY <3>1, <3>2, <3>3, <3>4 DEF AssetInv, AmountsExact, Within, SumsExact, OneWithin, Exact
  <2>3. QED
    BY <2>1, <2>2
<1>9. ASSUME NEW a \in Int64, NEW u \in Unit, NEW onCopy \in BOOLEAN,
             Add("+", a, u, onCopy) \/ Add("-", a, u, onCopy)
      PROVE  AssetInv'
    BY <1>9, AddKeeps
<1>10. ASSUME Negate PROVE AssetInv'
  <2>1. /\ amount' = Wrapped(-amount) /\ UNCHANGED <<unit, checked>>
        /\ last' = [op |-> "negate", from |-> amount, by |-> 0, value |-> Wrapped(-amount),
                    status |-> "done"]
    BY <1>10 DEF Negate, Did
  <2>2. -amount \in Int /\ amount \in Int
    BY <1>1, Bounds DEF Int64
  <2>3. Wrapped(-amount) \in Int64
    BY <1>1, <2>2, Bounds, WrappedType DEF Int64
  <2>4. Within(amount) => Wrapped(-amount) = -amount /\ Within(-amount)
    BY <2>2, NegateChecks
  <2>5. SumsExact(last')
    BY <2>1, <2>4 DEF SumsExact, OneWithin, Exact
  <2>6. checked' => Within(amount')
    BY <2>1, <2>4 DEF AssetInv, AmountsExact
  <2>7. QED
    BY <2>1, <2>3, <2>5, <2>6 DEF AssetInv, AmountsExact, Within, SumsExact, OneWithin, Exact
<1>11. CASE UNCHANGED assetVars
    BY <1>11 DEF assetVars, AssetInv, AmountsExact, SumsExact, OneWithin, Exact, Within
<1>12. QED
    BY <1>2, <1>3, <1>4, <1>5, <1>6, <1>7, <1>8, <1>9, <1>10, <1>11 DEF AssetNext

\* A balance that has passed a check stays within range, and sums are exact or
\* refused although they are checked only when they have been made, whatever the
\* widths of an amount and of an integer (asset.hpp:50-241).
THEOREM BalancesExact == AssetSpec => []AmountsExact
<1>1. AssetInit => AssetInv
    BY AssetInvInit
<1>2. AssetInv /\ [AssetNext]_assetVars => AssetInv'
    BY AssetInvNext
<1>3. AssetInv => AmountsExact
    BY DEF AssetInv
<1>4. QED
    BY <1>1, <1>2, <1>3, PTL DEF AssetSpec
-----------------------------------------------------------------------------
(* Integers of variable length, for every number of 32 bits.               *)

\* The numbers of 32 bits, without a sign and with one.
Uint32 == {n \in Nat : n < 4294967296}
Int32 == {v \in Int : v >= -2147483648 /\ v < 2147483648}

\* The five digits to base 128, the highest of four bits.
LEMMA Digits128 ==
    ASSUME NEW n \in Uint32
    PROVE  /\ n = (n % 128) + 128 * ((n \div 128) % 128) + 16384 * ((n \div 16384) % 128)
                    + 2097152 * ((n \div 2097152) % 128) + 268435456 * (n \div 268435456)
           /\ n \div 268435456 \in 0 .. 15
           /\ \A i \in 1 .. 5 : (n \div Pow128[i]) % 128 \in 0 .. 127
<1>1. n \in Nat /\ n < 4294967296
    BY SMT DEF Uint32
<1>2. /\ n \div 16384 = (n \div 128) \div 128
      /\ n \div 2097152 = (n \div 16384) \div 128
      /\ n \div 268435456 = (n \div 2097152) \div 128
    BY <1>1, SMT
<1>3. n \div 268435456 \in 0 .. 15
    BY <1>1, SMT
<1>4. n = (n % 128) + 128 * ((n \div 128) % 128) + 16384 * ((n \div 16384) % 128)
            + 2097152 * ((n \div 2097152) % 128) + 268435456 * (n \div 268435456)
    BY <1>1, <1>2, SMT
<1>5. ASSUME NEW i \in 1 .. 5
      PROVE  (n \div Pow128[i]) % 128 \in 0 .. 127
    <2>1. Pow128[i] \in Nat \ {0}
        BY SMT DEF Pow128
    <2>2. n \div Pow128[i] \in Int
        BY <1>1, <2>1, SMT
    <2> QED
        BY <2>2, SMT
<1> QED
    BY <1>3, <1>4, <1>5

\* The digits above the highest one are 0.
LEMMA LengthFits ==
    ASSUME NEW n \in Uint32
    PROVE  /\ VarLen(n) \in 1 .. 5
           /\ VarLen(n) = 1 => n < 128
           /\ VarLen(n) = 2 => n < 16384
           /\ VarLen(n) = 3 => n < 2097152
           /\ VarLen(n) = 4 => n < 268435456
BY SMT DEF VarLen, Uint32

\* A byte is a digit, with the top bit if more follow, and reading takes that
\* bit off.
LEMMA DigitComesBack ==
    ASSUME NEW n \in Uint32, NEW i \in 1 .. VarLen(n)
    PROVE  /\ VarUint32(n)[i] < 128 <=> i = VarLen(n)
           /\ i < 5 => VarUint32(n)[i] % 128 = (n \div Pow128[i]) % 128
           /\ i = 5 => VarUint32(n)[i] % 16 = n \div 268435456
<1> DEFINE d == (n \div Pow128[i]) % 128
<1>1. VarLen(n) \in 1 .. 5 /\ i \in 1 .. 5
    BY LengthFits, SMT
<1>2. d \in 0 .. 127
    BY <1>1, Digits128
<1>3. VarUint32(n)[i] = d + (IF i < VarLen(n) THEN 128 ELSE 0)
    BY DEF VarUint32
<1>4. i = 5 => d = n \div 268435456
    <2>1. n \div 268435456 \in 0 .. 15
        BY Digits128
    <2>2. Pow128[5] = 268435456
        BY SMT DEF Pow128
    <2> QED
        BY <2>1, <2>2, SMT
<1>5. n \div 268435456 \in 0 .. 15
    BY Digits128
<1>6. i = 5 => VarLen(n) = 5
    BY <1>1, SMT
<1> HIDE DEF d
<1>7. VarUint32(n)[i] < 128 <=> i = VarLen(n)
    BY <1>1, <1>2, <1>3, SMT
<1>8. VarUint32(n)[i] % 128 = d
    BY <1>1, <1>2, <1>3, SMT
<1>9. i = 5 => VarUint32(n)[i] % 16 = n \div 268435456
    BY <1>1, <1>3, <1>4, <1>5, <1>6, SMT
<1> QED
    BY <1>7, <1>8, <1>9 DEF d

\* varuint32_from_bin stops at the last byte that varuint32_to_bin has written.
LEMMA VarintEnds ==
    ASSUME NEW n \in Uint32
    PROVE  VarEnds(VarUint32(n), VarLen(n))
<1>1. VarLen(n) \in 1 .. 5 /\ DOMAIN VarUint32(n) = 1 .. VarLen(n)
    BY LengthFits DEF VarUint32
<1>2. VarUint32(n)[VarLen(n)] < 128
    <2>1. VarLen(n) \in 1 .. VarLen(n)
        BY <1>1, SMT
    <2> QED
        BY <2>1, DigitComesBack
<1>3. ASSUME NEW i \in 1 .. VarLen(n) - 1
      PROVE  VarUint32(n)[i] >= 128
    <2>1. i \in 1 .. VarLen(n) /\ i # VarLen(n) /\ i \in 1 .. 5
        BY <1>1, SMT
    <2>2. (n \div Pow128[i]) % 128 \in 0 .. 127
        BY <2>1, Digits128
    <2>3. VarUint32(n)[i] = ((n \div Pow128[i]) % 128) + 128
        BY <1>1, <2>1, SMT DEF VarUint32
    <2> QED
        BY <2>2, <2>3, SMT
<1> QED
    BY <1>1, <1>2, <1>3, SMT DEF VarEnds

\* and gives the number back.
LEMMA VarintComesBack ==
    ASSUME NEW n \in Uint32
    PROVE  VarValue(VarUint32(n), VarLen(n)) = n
<1> DEFINE D(i) == VarDigit(VarUint32(n), VarLen(n), i)
<1>1. VarLen(n) \in 1 .. 5 /\ n \in Nat /\ n < 4294967296
    BY LengthFits, SMT DEF Uint32
<1>2. Pow128[1] = 1 /\ Pow128[2] = 128 /\ Pow128[3] = 16384 /\ Pow128[4] = 2097152 /\ Pow128[5] = 268435456
    BY SMT DEF Pow128
<1>3. ASSUME NEW i \in 1 .. 4, i <= VarLen(n)
      PROVE  D(i) = ((n \div Pow128[i]) % 128) * Pow128[i]
    <2>1. i \in 1 .. VarLen(n) /\ i < 5 /\ ~(i > VarLen(n)) /\ i # 5
        BY <1>1, <1>3, SMT
    <2>2. VarUint32(n)[i] % 128 = (n \div Pow128[i]) % 128
        BY <2>1, DigitComesBack
    <2> QED
        BY <2>1, <2>2 DEF VarDigit
<1>4. ASSUME NEW i \in 1 .. 5, i > VarLen(n)
      PROVE  D(i) = 0
    BY <1>4 DEF VarDigit
<1>5. VarLen(n) = 5 => D(5) = (n \div 268435456) * 268435456
    <2>1. SUFFICES ASSUME VarLen(n) = 5
                   PROVE  D(5) = (n \div 268435456) * 268435456
        OBVIOUS
    <2>2. 5 \in 1 .. VarLen(n) /\ ~(5 > VarLen(n))
        BY <2>1, SMT
    <2>3. VarUint32(n)[5] % 16 = n \div 268435456
        BY <2>2, DigitComesBack
    <2> QED
        BY <1>2, <2>2, <2>3, SMT DEF VarDigit
<1>6. VarValue(VarUint32(n), VarLen(n)) = D(1) + D(2) + D(3) + D(4) + D(5)
    BY DEF VarValue
<1>7. n = (n % 128) + 128 * ((n \div 128) % 128) + 16384 * ((n \div 16384) % 128)
            + 2097152 * ((n \div 2097152) % 128) + 268435456 * (n \div 268435456)
    BY Digits128
<1> HIDE DEF D
<1>8. D(1) = n % 128
    BY <1>1, <1>2, <1>3, SMT
<1>9. D(2) = 128 * ((n \div 128) % 128)
    <2>1. CASE VarLen(n) >= 2
        <3>1. 2 \in 1 .. 4 /\ 2 <= VarLen(n)
            BY <1>1, <2>1, SMT
        <3>2. D(2) = ((n \div Pow128[2]) % 128) * Pow128[2]
            BY <1>3, <3>1
        <3> QED
            BY <1>1, <1>2, <3>2, SMT
    <2>2. CASE VarLen(n) < 2
        <3>1. D(2) = 0 /\ n < 128
            BY <1>1, <1>4, <2>2, LengthFits, SMT
        <3> QED
            BY <1>1, <3>1, SMT
    <2> QED
        BY <1>1, <2>1, <2>2, SMT
<1>10. D(3) = 16384 * ((n \div 16384) % 128)
    <2>1. CASE VarLen(n) >= 3
        <3>1. 3 \in 1 .. 4 /\ 3 <= VarLen(n)
            BY <1>1, <2>1, SMT
        <3>2. D(3) = ((n \div Pow128[3]) % 128) * Pow128[3]
            BY <1>3, <3>1
        <3> QED
            BY <1>1, <1>2, <3>2, SMT
    <2>2. CASE VarLen(n) < 3
        <3>1. D(3) = 0 /\ n < 16384
            BY <1>1, <1>4, <2>2, LengthFits, SMT
        <3> QED
            BY <1>1, <3>1, SMT
    <2> QED
        BY <1>1, <2>1, <2>2, SMT
<1>11. D(4) = 2097152 * ((n \div 2097152) % 128)
    <2>1. CASE VarLen(n) >= 4
        <3>1. 4 \in 1 .. 4 /\ 4 <= VarLen(n)
            BY <1>1, <2>1, SMT
        <3>2. D(4) = ((n \div Pow128[4]) % 128) * Pow128[4]
            BY <1>3, <3>1
        <3> QED
            BY <1>1, <1>2, <3>2, SMT
    <2>2. CASE VarLen(n) < 4
        <3>1. D(4) = 0 /\ n < 2097152
            BY <1>1, <1>4, <2>2, LengthFits, SMT
        <3> QED
            BY <1>1, <3>1, SMT
    <2> QED
        BY <1>1, <2>1, <2>2, SMT
<1>12. D(5) = 268435456 * (n \div 268435456)
    <2>1. CASE VarLen(n) = 5
        BY <1>1, <1>5, <2>1, SMT
    <2>2. CASE VarLen(n) # 5
        <3>1. VarLen(n) < 5
            BY <1>1, <2>2, SMT
        <3>2. D(5) = 0 /\ n < 268435456
            BY <1>1, <1>4, <3>1, LengthFits, SMT
        <3> QED
            BY <1>1, <3>2, SMT
    <2> QED
        BY <2>1, <2>2
<1> QED
    BY <1>6, <1>7, <1>8, <1>9, <1>10, <1>11, <1>12

\* Strings of bytes are in order by the first place in which they differ.
LEMMA FirstDifference ==
    ASSUME NEW s, NEW t, Len(s) \in Nat, Len(t) \in Nat,
           NEW k \in 1 .. Len(s), k <= Len(t),
           \A i \in 1 .. k - 1 : s[i] = t[i], s[k] < t[k]
    PROVE  LexLess(s, t)
<1>1. k - 1 \in 0 .. Len(s) /\ k - 1 < Len(t) /\ k - 1 < Len(s) /\ (k - 1) + 1 = k
    BY SMT
<1>2. Agree(s, t, k - 1)
    BY <1>1, SMT DEF Agree
<1> QED
    BY <1>1, <1>2 DEF LexLess

\* No string is both before and behind another, or before itself.
LEMMA OneOrder ==
    ASSUME NEW s \in Seq(Int), NEW t \in Seq(Int), LexLess(s, t)
    PROVE  ~LexLess(t, s)
<1>1. SUFFICES ASSUME LexLess(t, s)
               PROVE  FALSE
    OBVIOUS
<1>2. PICK a \in 0 .. Len(s) :
          /\ Agree(s, t, a) /\ a < Len(t)
          /\ a = Len(s) \/ (a < Len(s) /\ s[a + 1] < t[a + 1])
    BY DEF LexLess
<1>3. PICK b \in 0 .. Len(t) :
          /\ Agree(t, s, b) /\ b < Len(s)
          /\ b = Len(t) \/ (b < Len(t) /\ t[b + 1] < s[b + 1])
    BY <1>1 DEF LexLess
<1>4. a < Len(s) /\ s[a + 1] < t[a + 1] /\ b < Len(t) /\ t[b + 1] < s[b + 1]
    BY <1>2, <1>3, SMT DEF Agree
<1>5. \A i \in 1 .. Len(s) : s[i] \in Int
    BY SMT
<1>6. \A i \in 1 .. Len(t) : t[i] \in Int
    BY SMT
<1>7. a + 1 \in 1 .. Len(s) /\ a + 1 \in 1 .. Len(t) /\ b + 1 \in 1 .. Len(s) /\ b + 1 \in 1 .. Len(t)
    BY <1>2, <1>3, <1>4, SMT
<1>8. ~(a < b)
    BY <1>3, <1>4, <1>5, <1>6, <1>7, SMTT(40) DEF Agree
<1>9. ~(b < a)
    BY <1>2, <1>4, <1>5, <1>6, <1>7, SMT DEF Agree
<1>10. a = b
    BY <1>8, <1>9, SMT
<1> QED
    BY <1>4, <1>5, <1>6, <1>7, <1>10, SMT

\* The parts that the bytes of a key are taken from.
LEMMA Digits256 ==
    ASSUME NEW n \in Uint32
    PROVE  /\ n \in Nat /\ n < 4294967296
           /\ n \div 256 \in Nat /\ n \div 65536 \in Nat /\ n \div 16777216 \in Nat
           /\ n \div 65536 = (n \div 256) \div 256
           /\ n \div 16777216 = (n \div 65536) \div 256
           /\ n \div 16777216 < 256
BY SMT DEF Uint32

\* The bytes of a key of each length, from the first.
Byte1(n) == IF KeyLength(n) = 1 THEN n
            ELSE IF KeyLength(n) = 2 THEN 128 + (n \div 256)
            ELSE IF KeyLength(n) = 3 THEN 192 + (n \div 65536)
            ELSE IF KeyLength(n) = 4 THEN 224 + (n \div 16777216)
            ELSE 240

\* What follows the first byte are the lowest digits, the highest of them first.
LEMMA KeyShape ==
    ASSUME NEW n \in Uint32
    PROVE  /\ VarKey(n) \in Seq(Int) /\ Len(VarKey(n)) = KeyLength(n)
           /\ KeyLength(n) \in 1 .. 5
           /\ VarKey(n)[1] = Byte1(n)
           /\ KeyLength(n) >= 2 => VarKey(n)[KeyLength(n)] = n % 256
           /\ KeyLength(n) >= 3 => VarKey(n)[KeyLength(n) - 1] = (n \div 256) % 256
           /\ KeyLength(n) >= 4 => VarKey(n)[KeyLength(n) - 2] = (n \div 65536) % 256
           /\ KeyLength(n) >= 5 => VarKey(n)[KeyLength(n) - 3] = (n \div 16777216) % 256
<1> DEFINE length == KeyLength(n)
           top == IF length = 5 THEN 0 ELSE n \div 256 ^ (length - 1)
           head == LeadingOnes[length] + top
           rest == BigEndian(n, length - 1)
<1>1. n \in Nat /\ length \in 1 .. 5
    BY SMT DEF KeyLength, Uint32
<1>2. VarKey(n) = <<head>> \o rest
    BY DEF VarKey
<1>3. head = Byte1(n) /\ head \in Int
    <2>1. CASE length = 1
        BY <1>1, <2>1, SMT DEF LeadingOnes, Byte1
    <2>2. CASE length = 2
        BY <1>1, <2>2, SMT DEF LeadingOnes, Byte1
    <2>3. CASE length = 3
        BY <1>1, <2>3, SMT DEF LeadingOnes, Byte1
    <2>4. CASE length = 4
        BY <1>1, <2>4, SMT DEF LeadingOnes, Byte1
    <2>5. CASE length = 5
        BY <1>1, <2>5, SMT DEF LeadingOnes, Byte1
    <2> HIDE DEF length, head
    <2> QED
        BY <1>1, <2>1, <2>2, <2>3, <2>4, <2>5, SMT
<1>4. rest = [i \in 1 .. length - 1 |-> (n \div 256 ^ ((length - 1) - i)) % 256]
    BY DEF BigEndian
<1>5. rest \in Seq(Int) /\ Len(rest) = length - 1
    <2> HIDE DEF length, rest
    <2>1. ASSUME NEW i \in 1 .. length - 1
          PROVE  rest[i] \in Int
        <3>1. (length - 1) - i \in 0 .. 3
            BY <1>1, SMT
        <3>2. PICK e \in 0 .. 3 : rest[i] = (n \div 256 ^ e) % 256
            BY <1>4, <3>1
        <3>3. 256 ^ e \in Nat \ {0}
            <4>1. CASE e = 0
                BY <4>1, SMT
            <4>2. CASE e = 1
                BY <4>2, SMT
            <4>3. CASE e = 2
                BY <4>3, SMT
            <4>4. CASE e = 3
                BY <4>4, SMT
            <4> QED
                BY <4>1, <4>2, <4>3, <4>4, SMT
        <3>4. n \div 256 ^ e \in Int
            BY <1>1, <3>3, SMT
        <3> QED
            BY <3>2, <3>4, SMT
    <2>2. DOMAIN rest = 1 .. length - 1
        BY <1>4
    <2>3. length - 1 \in Nat
        BY <1>1, SMT
    <2>4. rest = [i \in 1 .. length - 1 |-> rest[i]]
        BY <1>4
    <2> QED
        BY <2>1, <2>2, <2>3, <2>4, SMT
<1> HIDE DEF length, head, rest
<1>6. VarKey(n) \in Seq(Int) /\ Len(VarKey(n)) = length /\ VarKey(n)[1] = head
    BY <1>1, <1>2, <1>3, <1>5, SMT
<1>7. \A i \in 2 .. length : VarKey(n)[i] = rest[i - 1]
    BY <1>1, <1>2, <1>3, <1>5, SMT
<1>8. length >= 2 => VarKey(n)[length] = n % 256
    <2>1. SUFFICES ASSUME length >= 2
                   PROVE  VarKey(n)[length] = n % 256
        OBVIOUS
    <2>2. length - 1 \in 1 .. length - 1 /\ (length - 1) - (length - 1) = 0 /\ length \in 2 .. length
        BY <1>1, <2>1, SMT
    <2>3. rest[length - 1] = (n \div 256 ^ 0) % 256
        BY <1>4, <2>2
    <2>4. n \div 256 ^ 0 = n
        BY <1>1, SMT
    <2> QED
        BY <1>7, <2>2, <2>3, <2>4
<1>9. length >= 3 => VarKey(n)[length - 1] = (n \div 256) % 256
    <2>1. SUFFICES ASSUME length >= 3
                   PROVE  VarKey(n)[length - 1] = (n \div 256) % 256
        OBVIOUS
    <2>2. /\ length - 2 \in 1 .. length - 1 /\ (length - 1) - (length - 2) = 1
          /\ length - 1 \in 2 .. length /\ (length - 1) - 1 = length - 2
        BY <1>1, <2>1, SMT
    <2>3. rest[length - 2] = (n \div 256 ^ 1) % 256
        BY <1>4, <2>2
    <2>4. 256 ^ 1 = 256
        BY SMT
    <2> QED
        BY <1>7, <2>2, <2>3, <2>4
<1>10. length >= 4 => VarKey(n)[length - 2] = (n \div 65536) % 256
    <2>1. SUFFICES ASSUME length >= 4
                   PROVE  VarKey(n)[length - 2] = (n \div 65536) % 256
        OBVIOUS
    <2>2. /\ length - 3 \in 1 .. length - 1 /\ (length - 1) - (length - 3) = 2
          /\ length - 2 \in 2 .. length /\ (length - 2) - 1 = length - 3
        BY <1>1, <2>1, SMT
    <2>3. rest[length - 3] = (n \div 256 ^ 2) % 256
        BY <1>4, <2>2
    <2>4. 256 ^ 2 = 65536
        BY SMT
    <2> QED
        BY <1>7, <2>2, <2>3, <2>4
<1>11. length >= 5 => VarKey(n)[length - 3] = (n \div 16777216) % 256
    <2>1. SUFFICES ASSUME length >= 5
                   PROVE  VarKey(n)[length - 3] = (n \div 16777216) % 256
        OBVIOUS
    <2>2. /\ length - 4 \in 1 .. length - 1 /\ (length - 1) - (length - 4) = 3
          /\ length - 3 \in 2 .. length /\ (length - 3) - 1 = length - 4
        BY <1>1, <2>1, SMT
    <2>3. rest[length - 4] = (n \div 256 ^ 3) % 256
        BY <1>4, <2>2
    <2>4. 256 ^ 3 = 16777216
        BY SMT
    <2> QED
        BY <1>7, <2>2, <2>3, <2>4
<1> QED
    BY <1>1, <1>3, <1>6, <1>8, <1>9, <1>10, <1>11 DEF length

\* A longer key begins with a greater byte.
LEMMA LengthsInOrder ==
    ASSUME NEW m \in Uint32, NEW n \in Uint32, m < n
    PROVE  /\ KeyLength(m) <= KeyLength(n)
           /\ KeyLength(m) < KeyLength(n) => Byte1(m) < Byte1(n)
<1>1. m \in Nat /\ n \in Nat
    BY SMT DEF Uint32
<1>2. ASSUME NEW x \in Nat
      PROVE  /\ KeyLength(x) \in 1 .. 5
             /\ KeyLength(x) = 1 => (x < 128 /\ Byte1(x) \in 0 .. 127)
             /\ KeyLength(x) = 2 => (x >= 128 /\ x < 16384 /\ Byte1(x) \in 128 .. 191)
             /\ KeyLength(x) = 3 => (x >= 16384 /\ x < 2097152 /\ Byte1(x) \in 192 .. 223)
             /\ KeyLength(x) = 4 => (x >= 2097152 /\ x < 268435456 /\ Byte1(x) \in 224 .. 239)
             /\ KeyLength(x) = 5 => (x >= 268435456 /\ Byte1(x) = 240)
    <2>1. KeyLength(x) \in 1 .. 5
        BY SMT DEF KeyLength
    <2>2. KeyLength(x) = 1 => (x < 128 /\ Byte1(x) \in 0 .. 127)
        BY SMT DEF KeyLength, Byte1
    <2>3. KeyLength(x) = 2 => (x >= 128 /\ x < 16384 /\ Byte1(x) \in 128 .. 191)
        BY SMT DEF KeyLength, Byte1
    <2>4. KeyLength(x) = 3 => (x >= 16384 /\ x < 2097152 /\ Byte1(x) \in 192 .. 223)
        BY SMT DEF KeyLength, Byte1
    <2>5. KeyLength(x) = 4 => (x >= 2097152 /\ x < 268435456 /\ Byte1(x) \in 224 .. 239)
        <3>1. KeyLength(x) = 4 => (x >= 2097152 /\ x < 268435456)
            <4>1. x < 2097152 => KeyLength(x) # 4
                BY SMT DEF KeyLength
            <4>2. x >= 268435456 => KeyLength(x) # 4
                BY SMT DEF KeyLength
            <4> QED
                BY <4>1, <4>2, SMT
        <3>2. x < 268435456 => x \div 16777216 \in 0 .. 15
            BY SMT
        <3>3. KeyLength(x) = 4 => Byte1(x) = 224 + (x \div 16777216)
            BY SMT DEF Byte1
        <3> QED
            BY <3>1, <3>2, <3>3, SMT
    <2>6. KeyLength(x) = 5 => (x >= 268435456 /\ Byte1(x) = 240)
        BY SMT DEF KeyLength, Byte1
    <2> QED
        BY <2>1, <2>2, <2>3, <2>4, <2>5, <2>6
<1> QED
    BY <1>1, <1>2, SMTT(40)

\* Of two numbers the greater has the greater rest, or more before it.
LEMMA DivideBy256 ==
    ASSUME NEW m \in Nat, NEW n \in Nat, m < n
    PROVE  /\ m \div 256 <= n \div 256
           /\ m \div 256 = n \div 256 => m % 256 < n % 256
BY SMT

\* Keys of one length: the first byte that differs is less.
LEMMA SameLengthInOrder ==
    ASSUME NEW m \in Uint32, NEW n \in Uint32, m < n, KeyLength(m) = KeyLength(n)
    PROVE  LexLess(VarKey(m), VarKey(n))
<1> DEFINE s == VarKey(m)
           t == VarKey(n)
           length == KeyLength(n)
<1>1. Len(s) = length /\ Len(t) = length /\ length \in 1 .. 5 /\ length \in Nat
    BY KeyShape, SMT
<1>2. /\ m \in Nat /\ m \div 256 \in Nat /\ m \div 65536 \in Nat /\ m \div 16777216 \in Nat
      /\ m \div 65536 = (m \div 256) \div 256
      /\ m \div 16777216 = (m \div 65536) \div 256 /\ m \div 16777216 < 256
    BY Digits256
<1>3. /\ n \in Nat /\ n \div 256 \in Nat /\ n \div 65536 \in Nat /\ n \div 16777216 \in Nat
      /\ n \div 65536 = (n \div 256) \div 256
      /\ n \div 16777216 = (n \div 65536) \div 256 /\ n \div 16777216 < 256
    BY Digits256
<1>4. /\ s[1] = Byte1(m)
      /\ length >= 2 => s[length] = m % 256
      /\ length >= 3 => s[length - 1] = (m \div 256) % 256
      /\ length >= 4 => s[length - 2] = (m \div 65536) % 256
      /\ length >= 5 => s[length - 3] = (m \div 16777216) % 256
    BY KeyShape
<1>5. /\ t[1] = Byte1(n)
      /\ length >= 2 => t[length] = n % 256
      /\ length >= 3 => t[length - 1] = (n \div 256) % 256
      /\ length >= 4 => t[length - 2] = (n \div 65536) % 256
      /\ length >= 5 => t[length - 3] = (n \div 16777216) % 256
    BY KeyShape
<1>6. /\ length = 1 => (Byte1(m) = m /\ Byte1(n) = n)
      /\ length = 2 => (Byte1(m) = 128 + (m \div 256) /\ Byte1(n) = 128 + (n \div 256))
      /\ length = 3 => (Byte1(m) = 192 + (m \div 65536) /\ Byte1(n) = 192 + (n \div 65536))
      /\ length = 4 => (Byte1(m) = 224 + (m \div 16777216) /\ Byte1(n) = 224 + (n \div 16777216))
      /\ length = 5 => (Byte1(m) = 240 /\ Byte1(n) = 240)
    BY SMT DEF Byte1
<1> HIDE DEF s, t, length
<1>7. SUFFICES \E k \in 1 .. length : /\ \A i \in 1 .. k - 1 : s[i] = t[i]
                                      /\ s[k] < t[k]
    <2>1. PICK k \in 1 .. length : (\A i \in 1 .. k - 1 : s[i] = t[i]) /\ s[k] < t[k]
        BY <1>7
    <2>2. k \in 1 .. Len(s) /\ k <= Len(t)
        BY <1>1, SMT
    <2> QED
        BY <1>1, <2>1, <2>2, FirstDifference DEF s, t
<1>8. m \div 256 <= n \div 256 /\ (m \div 256 = n \div 256 => m % 256 < n % 256)
    BY <1>2, <1>3, DivideBy256
<1>9. m \div 256 # n \div 256 =>
          /\ m \div 65536 <= n \div 65536
          /\ m \div 65536 = n \div 65536 => (m \div 256) % 256 < (n \div 256) % 256
    <2>1. SUFFICES ASSUME m \div 256 # n \div 256
                   PROVE  /\ m \div 65536 <= n \div 65536
                          /\ m \div 65536 = n \div 65536 => (m \div 256) % 256 < (n \div 256) % 256
        OBVIOUS
    <2>2. m \div 256 < n \div 256
        BY <1>2, <1>3, <1>8, <2>1, SMT
    <2> QED
        BY <1>2, <1>3, <2>2, DivideBy256
<1>10. m \div 65536 # n \div 65536 /\ m \div 65536 <= n \div 65536 =>
          /\ m \div 16777216 <= n \div 16777216
          /\ m \div 16777216 = n \div 16777216 => (m \div 65536) % 256 < (n \div 65536) % 256
    <2>1. SUFFICES ASSUME m \div 65536 # n \div 65536, m \div 65536 <= n \div 65536
                   PROVE  /\ m \div 16777216 <= n \div 16777216
                          /\ m \div 16777216 = n \div 16777216 => (m \div 65536) % 256 < (n \div 65536) % 256
        OBVIOUS
    <2>2. m \div 65536 < n \div 65536
        BY <1>2, <1>3, <2>1, SMT
    <2> QED
        BY <1>2, <1>3, <2>2, DivideBy256
<1>11. (m \div 16777216) % 256 = m \div 16777216 /\ (n \div 16777216) % 256 = n \div 16777216
    <2>1. \A x \in Nat : x < 256 => x % 256 = x
        BY SMT
    <2> QED
        BY <1>2, <1>3, <2>1
<1>12. CASE m \div 256 = n \div 256
    <2>1. \A i \in 1 .. length - 1 : s[i] = t[i]
        <3>1. length >= 2 => Byte1(m) = Byte1(n)
            <4>1. m \div 65536 = n \div 65536 /\ m \div 16777216 = n \div 16777216
                BY <1>2, <1>3, <1>12
            <4> QED
                BY <1>1, <1>6, <1>12, <4>1, SMT
        <3>2. length >= 3 => s[length - 1] = t[length - 1]
            BY <1>4, <1>5, <1>12
        <3>3. length >= 4 => s[length - 2] = t[length - 2]
            BY <1>2, <1>3, <1>4, <1>5, <1>12
        <3>4. length >= 5 => s[length - 3] = t[length - 3]
            BY <1>2, <1>3, <1>4, <1>5, <1>12
        <3> QED
            BY <1>1, <1>4, <1>5, <3>1, <3>2, <3>3, <3>4, SMT
    <2>2. s[length] < t[length]
        BY <1>1, <1>4, <1>5, <1>6, <1>8, <1>12, SMT
    <2>3. length \in 1 .. length
        BY <1>1, SMT
    <2> QED
        BY <2>1, <2>2, <2>3
<1>13. CASE m \div 256 # n \div 256 /\ m \div 65536 = n \div 65536
    <2>1. length >= 2 => (s[length - 1] < t[length - 1] /\ \A i \in 1 .. length - 2 : s[i] = t[i])
        <3>1. SUFFICES ASSUME length >= 2
                       PROVE  s[length - 1] < t[length - 1] /\ \A i \in 1 .. length - 2 : s[i] = t[i]
            OBVIOUS
        <3>2. CASE length = 2
            BY <1>2, <1>3, <1>4, <1>5, <1>6, <1>8, <1>13, <3>2, SMT
        <3>3. CASE length = 3
            BY <1>2, <1>3, <1>4, <1>5, <1>6, <1>9, <1>13, <3>3, SMT
        <3>4. CASE length = 4
            BY <1>2, <1>3, <1>4, <1>5, <1>6, <1>9, <1>13, <3>4, SMT
        <3>5. CASE length = 5
            BY <1>2, <1>3, <1>4, <1>5, <1>6, <1>9, <1>13, <3>5, SMT
        <3> QED
            BY <1>1, <3>1, <3>2, <3>3, <3>4, <3>5, SMT
    <2>2. length = 1 => s[1] < t[1]
        BY <1>4, <1>5, <1>6, SMT
    <2>3. CASE length = 1
        BY <2>2, <2>3, SMT
    <2>4. CASE length >= 2
        <3>1. length - 1 \in 1 .. length /\ (length - 1) - 1 = length - 2
            BY <1>1, <2>4, SMT
        <3> QED
            BY <2>1, <2>4, <3>1
    <2> QED
        BY <1>1, <2>3, <2>4, SMT
<1>14. CASE m \div 65536 # n \div 65536 /\ m \div 16777216 = n \div 16777216
    <2>1. m \div 256 # n \div 256 /\ m \div 65536 <= n \div 65536
        BY <1>2, <1>3, <1>9, <1>14
    <2>2. (m \div 65536) % 256 < (n \div 65536) % 256 /\ m \div 65536 < n \div 65536
        BY <1>2, <1>3, <1>10, <1>14, <2>1, SMT
    <2>3. CASE length = 1
        BY <1>4, <1>5, <1>6, <2>3, SMT
    <2>4. CASE length = 2
        <3>1. s[1] < t[1]
            BY <1>2, <1>3, <1>4, <1>5, <1>6, <1>8, <2>1, <2>4, SMT
        <3> QED
            BY <2>4, <3>1, SMT
    <2>5. CASE length = 3
        <3>1. s[1] < t[1]
            BY <1>2, <1>3, <1>4, <1>5, <1>6, <2>2, <2>5, SMT
        <3> QED
            BY <2>5, <3>1, SMT
    <2>6. CASE length = 4
        <3>1. s[1] = t[1] /\ s[2] < t[2]
            BY <1>4, <1>5, <1>6, <1>14, <2>2, <2>6, SMT
        <3> QED
            BY <2>6, <3>1, SMT
    <2>7. CASE length = 5
        <3>1. s[1] = t[1] /\ s[2] = t[2] /\ s[3] < t[3]
            BY <1>4, <1>5, <1>6, <1>14, <2>2, <2>7, SMT
        <3> QED
            BY <2>7, <3>1, SMT
    <2> QED
        BY <1>1, <2>3, <2>4, <2>5, <2>6, <2>7, SMT
<1>15. CASE m \div 16777216 # n \div 16777216
    <2>1. m \div 65536 # n \div 65536
        BY <1>2, <1>3, <1>15
    <2>2. m \div 256 # n \div 256 /\ m \div 65536 <= n \div 65536
        BY <1>2, <1>3, <1>9, <2>1
    <2>3. m \div 256 < n \div 256 /\ m \div 65536 < n \div 65536 /\ m \div 16777216 < n \div 16777216
        BY <1>2, <1>3, <1>8, <1>10, <1>15, <2>1, <2>2, SMT
    <2>4. length # 5 => s[1] < t[1]
        BY <1>1, <1>2, <1>3, <1>4, <1>5, <1>6, <2>3, SMT
    <2>5. CASE length # 5
        <3>1. 1 \in 1 .. length /\ \A i \in 1 .. 1 - 1 : s[i] = t[i]
            BY <1>1, SMT
        <3> QED
            BY <2>4, <2>5, <3>1
    <2>6. CASE length = 5
        <3>1. s[1] = t[1] /\ s[2] < t[2]
            BY <1>4, <1>5, <1>6, <1>11, <2>3, <2>6, SMT
        <3> QED
            BY <2>6, <3>1, SMT
    <2> QED
        BY <2>5, <2>6
<1> QED
    BY <1>12, <1>13, <1>14, <1>15

\* varuint32 for every number of 32 bits: what varuint32_to_bin has written
\* varuint32_from_bin reads up to its last byte and gives the number back, and
\* the keys of to_key_varuint32, compared as bytes, are in the order of the
\* numbers.
THEOREM VarintsHold ==
    ASSUME NEW m \in Uint32, NEW n \in Uint32
    PROVE  VarintHolds(m, n)
<1>1. VarEnds(VarUint32(m), VarLen(m)) /\ VarValue(VarUint32(m), VarLen(m)) = m
    BY VarintEnds, VarintComesBack
<1>2. ASSUME NEW a \in Uint32, NEW b \in Uint32, a < b
      PROVE  LexLess(VarKey(a), VarKey(b))
    <2>1. KeyLength(a) <= KeyLength(b) /\ KeyLength(a) \in 1 .. 5 /\ KeyLength(b) \in 1 .. 5
        BY <1>2, LengthsInOrder, KeyShape
    <2>2. CASE KeyLength(a) = KeyLength(b)
        BY <1>2, <2>2, SameLengthInOrder
    <2>3. CASE KeyLength(a) # KeyLength(b)
        <3>1. KeyLength(a) < KeyLength(b)
            BY <2>1, <2>3, SMT
        <3>2. VarKey(a)[1] < VarKey(b)[1]
            BY <1>2, <3>1, LengthsInOrder, KeyShape
        <3>3. /\ Len(VarKey(a)) \in Nat /\ Len(VarKey(b)) \in Nat
              /\ 1 \in 1 .. Len(VarKey(a)) /\ 1 <= Len(VarKey(b))
            BY <2>1, KeyShape, SMT
        <3>4. \A i \in 1 .. 1 - 1 : VarKey(a)[i] = VarKey(b)[i]
            BY SMT
        <3> QED
            BY <3>2, <3>3, <3>4, FirstDifference
    <2> QED
        BY <2>2, <2>3
<1>3. LexLess(VarKey(m), VarKey(n)) => m < n
    <2>1. SUFFICES ASSUME LexLess(VarKey(m), VarKey(n)), ~(m < n)
                   PROVE  FALSE
        OBVIOUS
    <2>2. m = n \/ n < m
        BY <2>1, SMT DEF Uint32
    <2>3. ~LexLess(VarKey(n), VarKey(m))
        BY <2>1, KeyShape, OneOrder
    <2> QED
        BY <1>2, <2>1, <2>2, <2>3
<1> QED
    BY <1>1, <1>2, <1>3 DEF VarintHolds

\* varint32 for every number of 32 bits with a sign: it is written as a number
\* without one, and read as what it was, the lowest included.
THEOREM SignedVarintsHold ==
    ASSUME NEW v \in Int32
    PROVE  ZigZagHolds(v, 32)
<1>1. 2 ^ 32 = 4294967296 /\ 2 ^ (32 - 1) = 2147483648
    BY SMT
<1>2. v \in Int /\ v >= -2147483648 /\ v < 2147483648
    BY DEF Int32
<1>3. CASE v >= 0
    <2>1. ZigZag(v, 32) = 2 * v
        BY <1>2, <1>3, SMT DEF ZigZag
    <2>2. (2 * v) % 2 = 0 /\ (2 * v) \div 2 = v
        BY <1>2, SMT
    <2>3. UnZigZag(2 * v, 32) = v
        BY <2>2, SMT DEF UnZigZag
    <2> QED
        BY <1>1, <1>2, <1>3, <2>1, <2>3, SMT DEF ZigZagHolds
<1>4. CASE v < 0
    <2> DEFINE u == -2 * v - 1
    <2>1. (2 * v) % 4294967296 = 2 * v + 4294967296
        BY <1>2, <1>4, SMT
    <2>2. ZigZag(v, 32) = u
        BY <1>1, <1>2, <1>4, <2>1, SMT DEF ZigZag
    <2>3. u \in Nat /\ u < 4294967296 /\ u % 2 = 1
        BY <1>2, <1>4, SMT
    <2>4. (4294967295 - u) \div 2 = 2147483648 + v
        BY <1>2, SMT
    <2>5. UnZigZag(u, 32) = v
        <3>1. UnZigZag(u, 32) = ((2 ^ 32 - 1 - u) \div 2) + 2 ^ (32 - 1) - 2 ^ 32
            BY <2>3, SMT DEF UnZigZag
        <3>2. 2 ^ 32 - 1 - u = 4294967295 - u
            BY <1>1, <2>3, SMT
        <3> QED
            BY <1>1, <1>2, <2>4, <3>1, <3>2, SMT
    <2> QED
        BY <1>1, <2>2, <2>3, <2>5, SMT DEF ZigZagHolds
<1> QED
    BY <1>2, <1>3, <1>4, SMT

-----------------------------------------------------------------------------
Start(y) == 365 * y + (y \div 4) - (y \div 100)
\* The days of the year that begins in March.
Long(y) == y % 4 = 3 /\ (y % 100 # 99 \/ y = 399)

\* The division of C++, corrected for negative numbers, rounds down.
LEMMA EraIs ==
    ASSUME NEW n \in Int, NEW size \in {400, 146097}
    PROVE  Era(n, size) = n \div size
<1>1. CASE size = 400
    BY <1>1, SMT DEF Era
<1>2. CASE size = 146097
    BY <1>2, SMT DEF Era
<1>3. QED
    BY <1>1, <1>2, SMT

\* A day of an era is in that era.
LEMMA EraOf ==
    ASSUME NEW n \in Int, NEW e \in Int, NEW r \in Int, n = e * 146097 + r, 0 <= r, r < 146097
    PROVE  n \div 146097 = e
BY SMT

\* The year of an era that the division finds has begun and not ended.
LEMMA YearFound ==
    ASSUME NEW doe \in Int, 0 <= doe, doe < 146097, NEW y \in Int,
           y = (doe - (doe \div 1460) + (doe \div 36524) - (doe \div 146096)) \div 365
    PROVE  y >= 0 /\ y <= 399 /\ Start(y) <= doe
           /\ doe <= Start(y) + 365 /\ (doe = Start(y) + 365 => Long(y))
<1>1. CASE doe < 36524
    BY <1>1, SMTT(60) DEF Start, Long
<1>2. CASE 36524 <= doe /\ doe < 73048
    BY <1>2, SMTT(60) DEF Start, Long
<1>3. CASE 73048 <= doe /\ doe < 109572
    BY <1>3, SMTT(60) DEF Start, Long
<1>4. CASE 109572 <= doe
    BY <1>4, SMTT(60) DEF Start, Long
<1>5. QED
    BY <1>1, <1>2, <1>3, <1>4, SMT

\* Every year starts after the one before has ended.
LEMMA StartGrows ==
    ASSUME NEW y \in Int, NEW x \in Int, 0 <= y, y < x, x <= 399
    PROVE  Start(y) + 365 <= Start(x) /\ (Long(y) => Start(y) + 366 <= Start(x))
BY SMT DEF Start, Long

MonthOf(doy) == (5 * doy + 2) \div 153
DayIn(doy) == doy - ((153 * MonthOf(doy) + 2) \div 5) + 1
DateOf(era, y, doy) ==
    LET mp == MonthOf(doy)
        m == IF mp < 10 THEN mp + 3 ELSE mp - 9
    IN [year |-> y + era * 400 + (IF m <= 2 THEN 1 ELSE 0), month |-> m,
        day |-> DayIn(doy)]
\* A day of a year that begins in March, and how many are before it.
DayOf(era, y, doy) ==
    /\ era \in Int /\ y \in Int /\ doy \in Int /\ 0 <= y /\ y <= 399
    /\ 0 <= doy /\ doy <= 365 /\ (doy = 365 => Long(y))
Number(era, y, doy) == era * 146097 + Start(y) + doy - 719468

\* Every day is one of some year of some era.
LEMMA DayFound ==
    ASSUME NEW days \in Int
    PROVE  \E era, y, doy \in Int : DayOf(era, y, doy) /\ days = Number(era, y, doy)
<1> DEFINE z == days + 719468
           era == z \div 146097
           doe == z - era * 146097
           y == (doe - (doe \div 1460) + (doe \div 36524) - (doe \div 146096)) \div 365
           doy == doe - Start(y)
<1>1. era \in Int /\ doe \in Int /\ 0 <= doe /\ doe < 146097
    BY SMT
<1>2. y \in Int /\ y >= 0 /\ y <= 399 /\ Start(y) <= doe
      /\ doe <= Start(y) + 365 /\ (doe = Start(y) + 365 => Long(y))
  <2>1. y \in Int
    BY <1>1, SMT
  <2>2. y = (doe - (doe \div 1460) + (doe \div 36524) - (doe \div 146096)) \div 365
    BY SMT
  <2> HIDE DEF y, doe, era
  <2>3. QED
    BY <1>1, <2>1, <2>2, YearFound, SMT
<1>3. Start(y) \in Int
    BY <1>2, SMT DEF Start
<1>4. days = Number(era, y, doy)
  <2>1. days = z - 719468 /\ z = era * 146097 + doe /\ doe = Start(y) + doy
    BY <1>1, <1>3, SMT
  <2> HIDE DEF z, doe, doy, y, era
  <2>2. QED
    BY <1>1, <1>2, <1>3, <2>1, SMT DEF Number, doy
<1>5. DayOf(era, y, doy)
  <2> HIDE DEF doe, y, era
  <2>1. QED
    BY <1>1, <1>2, <1>3, SMT DEF DayOf
<1>6. doy \in Int
    BY <1>5, SMT DEF DayOf
<1>7. QED
    BY <1>1, <1>2, <1>4, <1>5, <1>6, SMT

\* The division finds no other year.
LEMMA OneYear ==
    ASSUME NEW y \in Int, 0 <= y, y <= 399, NEW doy \in Int, 0 <= doy, doy <= 365,
           doy = 365 => Long(y)
    PROVE  LET doe == Start(y) + doy IN
           /\ doe \in Int /\ 0 <= doe /\ doe < 146097
           /\ (doe - (doe \div 1460) + (doe \div 36524) - (doe \div 146096)) \div 365 = y
<1> DEFINE doe == Start(y) + doy
           x == (doe - (doe \div 1460) + (doe \div 36524) - (doe \div 146096)) \div 365
<1>1. doe \in Int /\ 0 <= doe /\ doe < 146097
    BY SMT DEF Start, Long
<1>2. x \in Int
    BY <1>1, SMT
<1>3. x >= 0 /\ x <= 399 /\ Start(x) <= doe
      /\ doe <= Start(x) + 365 /\ (doe = Start(x) + 365 => Long(x))
    BY <1>1, <1>2, YearFound, SMT
<1>4. Start(x) \in Int /\ Start(y) \in Int
    BY <1>2, SMT DEF Start
<1> HIDE DEF x
<1>5. ~(x < y)
    BY <1>2, <1>3, <1>4, StartGrows, SMT
<1>6. ~(y < x)
    BY <1>2, <1>3, <1>4, StartGrows, SMT
<1>7. x = y
    BY <1>2, <1>5, <1>6, SMT
<1>8. QED
    BY <1>1, <1>7, SMT DEF x

\* The date that is written for a day.
LEMMA DateIs ==
    ASSUME NEW era, NEW y, NEW doy, DayOf(era, y, doy)
    PROVE  FromDays(Number(era, y, doy)) = DateOf(era, y, doy)
<1> DEFINE days == Number(era, y, doy)
           z == days + 719468
           doe == z - era * 146097
<1>1. era \in Int /\ y \in Int /\ doy \in Int /\ Start(y) \in Int
    BY SMT DEF DayOf, Start
<1>2. z = era * 146097 + Start(y) + doy
    BY <1>1, SMT DEF Number
<1>3. doe = Start(y) + doy /\ z \in Int
    BY <1>1, <1>2, SMT
<1>4. doe \in Int /\ 0 <= doe /\ doe < 146097
      /\ (doe - (doe \div 1460) + (doe \div 36524) - (doe \div 146096)) \div 365 = y
    BY <1>1, <1>3, OneYear, SMT DEF DayOf
<1>5. Era(z, 146097) = era
  <2>1. Era(z, 146097) = z \div 146097
    BY <1>3, EraIs, SMT
  <2>2. z \div 146097 = era
    <3>1. z = era * 146097 + (Start(y) + doy) /\ z \in Int
        BY <1>1, <1>2, SMT
    <3>2. 0 <= Start(y) + doy /\ Start(y) + doy < 146097 /\ Start(y) + doy \in Int
        BY <1>3, <1>4, SMT
    <3> HIDE DEF z
    <3>3. QED
        BY <1>1, <3>1, <3>2, EraOf, SMT
  <2>3. QED
    BY <2>1, <2>2, SMT
<1>6. doe - (365 * y + (y \div 4) - (y \div 100)) = doy
    BY <1>1, <1>3, SMT DEF Start
<1>7. FromDays(days) =
        LET mp == (5 * doy + 2) \div 153
            m == IF mp < 10 THEN mp + 3 ELSE mp - 9
        IN [year |-> y + era * 400 + (IF m <= 2 THEN 1 ELSE 0),
            month |-> m, day |-> doy - ((153 * mp + 2) \div 5) + 1]
    BY <1>4, <1>5, <1>6, SMTT(40) DEF FromDays
<1>8. QED
    BY <1>7, SMT DEF DateOf, MonthOf, DayIn

\* The month has begun and not ended.
LEMMA MonthFound ==
    ASSUME NEW doy \in Int, 0 <= doy, doy <= 365,
           NEW mp \in Int, mp = MonthOf(doy)
    PROVE  /\ mp >= 0 /\ mp <= 11
           /\ (153 * mp + 2) \div 5 <= doy
           /\ doy <= 365
           /\ mp <= 10 => doy < (153 * (mp + 1) + 2) \div 5
BY SMT DEF MonthOf

\* A date is read as the day for which it was written.
LEMMA DateBack ==
    ASSUME NEW era, NEW y, NEW doy, DayOf(era, y, doy)
    PROVE  LET date == DateOf(era, y, doy)
           IN ToDays(date.year, date.month, date.day) = Number(era, y, doy)
<1> DEFINE mp == MonthOf(doy)
           m == IF mp < 10 THEN mp + 3 ELSE mp - 9
           d == doy - ((153 * mp + 2) \div 5) + 1
           y0 == y + era * 400 + (IF m <= 2 THEN 1 ELSE 0)
           date == DateOf(era, y, doy)
<1>1. era \in Int /\ y \in Int /\ doy \in Int /\ 0 <= y /\ y <= 399 /\ 0 <= doy /\ doy <= 365
    BY SMT DEF DayOf
<1>2. date.year = y0 /\ date.month = m /\ date.day = d
    BY SMT DEF DateOf, DayIn
<1>3. mp \in Int /\ 0 <= mp /\ mp <= 11
  <2>1. mp \in Int
    BY <1>1, SMT DEF MonthOf
  <2>2. QED
    BY <1>1, <2>1, MonthFound, SMT
<1>4. m \in Int /\ d \in Int /\ y0 \in Int
    BY <1>1, <1>3, SMT
<1>5. (IF m > 2 THEN m - 3 ELSE m + 9) = mp
    BY <1>3, SMT
<1>6. (IF m <= 2 THEN y0 - 1 ELSE y0) = y + era * 400
    BY <1>1, <1>3, SMT
<1>7. Era(y + era * 400, 400) = era
  <2>1. (y + era * 400) \div 400 = era
    BY <1>1, SMT
  <2>2. y + era * 400 \in Int
    BY <1>1, SMT
  <2>3. QED
    BY <2>1, <2>2, EraIs, SMT
<1>8. (y + era * 400) - era * 400 = y
    BY <1>1, SMT
<1>9. ((153 * mp + 2) \div 5) + d - 1 = doy
    BY <1>1, <1>3, SMT
<1> HIDE DEF mp, m, d, y0
<1>10. ToDays(y0, m, d) = era * 146097 + y * 365 + (y \div 4) - (y \div 100) + doy - 719468
    BY <1>5, <1>6, <1>7, <1>8, <1>9, SMT DEF ToDays
<1>11. QED
    BY <1>1, <1>2, <1>10, SMT DEF Number, Start

\* The day that follows a day.
LEMMA NextDay ==
    ASSUME NEW era, NEW y, NEW doy, DayOf(era, y, doy)
    PROVE  LET more == doy < 364 \/ (doy = 364 /\ Long(y))
               e == IF more \/ y < 399 THEN era ELSE era + 1
               x == IF more THEN y ELSE IF y < 399 THEN y + 1 ELSE 0
               n == IF more THEN doy + 1 ELSE 0
           IN DayOf(e, x, n) /\ Number(e, x, n) = Number(era, y, doy) + 1
BY SMTT(60) DEF DayOf, Number, Start, Long

\* Which of the twelve months a day is in.
LEMMA InMonth ==
    ASSUME NEW doy \in Int, 0 <= doy, doy <= 365
    PROVE  LET mp == MonthOf(doy) 
               d == DayIn(doy)
               dn == DayIn(doy + 1)
               size == IF mp \in {1, 3, 6, 8} THEN 30 ELSE 31
           IN /\ mp \in 0 .. 11 /\ 1 <= d /\ d <= size
              /\ doy < 365 => IF d < size THEN MonthOf(doy + 1) = mp /\ dn = d + 1 
                 ELSE MonthOf(doy + 1) = mp + 1 /\ dn = 1
              /\ mp = 11 <=> doy >= 337
              /\ mp = 11 => d = doy - 336
BY SMTT(60) DEF MonthOf, DayIn

\* The years that are long, as the calendar has them.
LEMMA LongIsLeap ==
    ASSUME NEW era \in Int, NEW y \in Int, 0 <= y, y <= 399
    PROVE  IsLeap(y + era * 400 + 1) <=> Long(y)
BY SMT DEF IsLeap, Long

\* The date that follows a date in the calendar.
LEMMA TomorrowOf ==
    ASSUME NEW year, NEW month, NEW day
    PROVE  Tomorrow([year |-> year, month |-> month, day |-> day]) =
             IF day < MonthDays(year, month) THEN [year |-> year, month |-> month, day |-> day + 1]
             ELSE IF month < 12 THEN [year |-> year, month |-> month + 1, day |-> 1]
             ELSE [year |-> year + 1, month |-> 1, day |-> 1]
<1> DEFINE date == [year |-> year, month |-> month, day |-> day]
<1>1. date.year = year /\ date.month = month /\ date.day = day
    OBVIOUS
<1>2. [date EXCEPT !.day = @ + 1] = [year |-> year, month |-> month, day |-> day + 1]
    OBVIOUS
<1>3. [date EXCEPT !.month = @ + 1, !.day = 1] = [year |-> year, month |-> month + 1, day |-> 1]
  <2>1. [date EXCEPT !.month = @ + 1] = [year |-> year, month |-> month + 1, day |-> day]
    OBVIOUS
  <2>2. [[year |-> year, month |-> month + 1, day |-> day] EXCEPT !.day = 1] =
            [year |-> year, month |-> month + 1, day |-> 1]
    OBVIOUS
  <2>3. QED
    BY <2>1, <2>2
<1> HIDE DEF date
<1>4. Tomorrow(date) =
        IF date.day < MonthDays(date.year, date.month) THEN [date EXCEPT !.day = @ + 1]
        ELSE IF date.month < 12 THEN [date EXCEPT !.month = @ + 1, !.day = 1]
        ELSE [year |-> date.year + 1, month |-> 1, day |-> 1]
    BY DEF Tomorrow
<1>5. QED
    BY <1>1, <1>2, <1>3, <1>4 DEF date

\* The date of the day that follows is the one that follows.
LEMMA TomorrowIs ==
    ASSUME NEW era, NEW y, NEW doy, DayOf(era, y, doy),
           NEW e, NEW x, NEW n,
           LET more == doy < 364 \/ (doy = 364 /\ Long(y))
           IN /\ e = IF more \/ y < 399 THEN era ELSE era + 1
              /\ x = IF more THEN y ELSE IF y < 399 THEN y + 1 ELSE 0
              /\ n = IF more THEN doy + 1 ELSE 0
    PROVE  Tomorrow(DateOf(era, y, doy)) = DateOf(e, x, n)
<1> DEFINE mp == MonthOf(doy)
           m == IF mp < 10 THEN mp + 3 ELSE mp - 9
           d == DayIn(doy)
           y0 == y + era * 400 + (IF m <= 2 THEN 1 ELSE 0)
           date == DateOf(era, y, doy)
           more == doy < 364 \/ (doy = 364 /\ Long(y))
           size == IF mp \in {1, 3, 6, 8} THEN 30 ELSE 31
<1>1. era \in Int /\ y \in Int /\ doy \in Int /\ 0 <= y /\ y <= 399 /\ 0 <= doy /\ doy <= 365
      /\ (doy = 365 => Long(y))
    BY SMT DEF DayOf
<1>2. date = [year |-> y0, month |-> m, day |-> d]
    BY SMT DEF DateOf
<1>3. mp \in 0 .. 11 /\ 1 <= d /\ d <= size /\ (mp = 11 <=> doy >= 337) /\ (mp = 11 => d = doy - 336)
    BY <1>1, InMonth, SMT
<1>4. doy < 365 =>
        IF d < size
        THEN MonthOf(doy + 1) = mp /\ DayIn(doy + 1) = d + 1
        ELSE MonthOf(doy + 1) = mp + 1 /\ DayIn(doy + 1) = 1
    BY <1>1, InMonth, SMT
<1>5. m \in 1 .. 12 /\ (m = 2 <=> mp = 11) /\ (m \in {4, 6, 9, 11} <=> mp \in {1, 3, 6, 8})
      /\ (m <= 2 <=> mp >= 10)
    BY <1>3, SMT
<1>6. y0 \in Int /\ d \in Int /\ (mp = 11 => y0 = y + era * 400 + 1)
  <2>1. d \in Int
    BY <1>1, SMT DEF DayIn, MonthOf
  <2> HIDE DEF d, mp
  <2>2. QED
    BY <1>1, <1>3, <2>1, SMT
<1>7. MonthDays(y0, m) = IF mp = 11 THEN IF Long(y) THEN 29 ELSE 28 ELSE size
  <2>1. CASE mp = 11
    <3>1. IsLeap(y0) <=> Long(y)
        BY <1>1, <1>6, <2>1, LongIsLeap, SMT
    <3> HIDE DEF m, y0, mp
    <3>2. QED
        BY <1>5, <2>1, <3>1, SMT DEF MonthDays
  <2>2. CASE mp # 11
    <3> HIDE DEF m, y0, mp
    <3>1. QED
        BY <1>5, <2>2, SMT DEF MonthDays
  <2>3. QED
    BY <2>1, <2>2
<1>8. CASE more /\ d < size
  <2>1. doy < 365 /\ e = era /\ x = y /\ n = doy + 1
    BY <1>1, <1>8, SMT DEF Long
  <2>2. MonthOf(n) = mp /\ DayIn(n) = d + 1
    <3> HIDE DEF mp, d, size, more, m, y0, date
    <3>1. QED
        BY <1>4, <1>8, <2>1, SMT
  <2>3. DateOf(e, x, n) = [year |-> y0, month |-> m, day |-> d + 1]
    BY <2>1, <2>2, SMT DEF DateOf
  <2>4. d < MonthDays(y0, m)
    <3> HIDE DEF mp, d, m, y0
    <3>1. QED
        BY <1>1, <1>3, <1>6, <1>7, <1>8, SMT
  <2> HIDE DEF m, y0, mp, d, date
  <2>5. Tomorrow(date) = [year |-> y0, month |-> m, day |-> d + 1]
    BY <1>2, <2>4, TomorrowOf, Zenon
  <2>6. QED
    BY <2>3, <2>5 DEF date
<1>9. CASE more /\ ~(d < size)
  <2>1. doy < 365 /\ e = era /\ x = y /\ n = doy + 1
    BY <1>1, <1>9, SMT DEF Long
  <2>2. MonthOf(n) = mp + 1 /\ DayIn(n) = 1
    <3> HIDE DEF mp, d, size, more, m, y0, date
    <3>1. QED
        BY <1>4, <1>9, <2>1, SMT
  <2>3. mp # 11 /\ d = size
    <3> HIDE DEF mp, d
    <3>1. QED
        BY <1>1, <1>3, <1>6, <1>9, SMT
  <2>4. ~(d < MonthDays(y0, m))
    <3> HIDE DEF mp, d, m, y0
    <3>1. QED
        BY <1>1, <1>3, <1>6, <1>7, <2>3, SMT
  <2>5. DateOf(e, x, n) = IF m < 12 THEN [year |-> y0, month |-> m + 1, day |-> 1]
                          ELSE [year |-> y0 + 1, month |-> 1, day |-> 1]
    <3>1. mp \in 0 .. 10
        BY <1>3, <2>3, SMT
    <3>2. DateOf(e, x, n) =
            [year |-> y + era * 400 + (IF (IF mp + 1 < 10 THEN mp + 4 ELSE mp - 8) <= 2 THEN 1 ELSE 0),
             month |-> IF mp + 1 < 10 THEN mp + 4 ELSE mp - 8, day |-> 1]
      <4>1. MonthOf(n) + 3 = mp + 4 /\ MonthOf(n) - 9 = mp - 8
        BY <2>2, <3>1, SMT
      <4>2. QED
        BY <2>1, <2>2, <4>1, SMT DEF DateOf
    <3> HIDE DEF mp, d
    <3>3. CASE mp < 9
        BY <1>1, <3>1, <3>2, <3>3, SMT
    <3>4. CASE mp = 9
        BY <1>1, <3>1, <3>2, <3>4, SMT
    <3>5. CASE mp = 10
        BY <1>1, <3>1, <3>2, <3>5, SMT
    <3>6. QED
        BY <3>1, <3>3, <3>4, <3>5, SMT
  <2> HIDE DEF m, y0, mp, d, date
  <2>6. Tomorrow(date) = IF m < 12 THEN [year |-> y0, month |-> m + 1, day |-> 1]
                         ELSE [year |-> y0 + 1, month |-> 1, day |-> 1]
    BY <1>2, <2>4, TomorrowOf, Zenon
  <2>7. QED
    BY <2>5, <2>6, Zenon DEF date
<1>10. CASE ~more
  <2>1. doy \in {364, 365} /\ (doy = 364 => ~Long(y)) /\ n = 0
    BY <1>1, <1>10, SMT
  <2>2. mp = 11 /\ d = doy - 336 /\ m = 2
    BY <1>3, <1>5, <2>1, SMT
  <2>3. ~(d < MonthDays(y0, m))
    <3> HIDE DEF mp, d, m, y0
    <3>1. QED
        BY <1>1, <1>7, <2>1, <2>2, SMT
  <2>4. x + e * 400 = y0 /\ x \in Int /\ e \in Int
    <3>1. y0 = y + era * 400 + 1
        BY <1>6, <2>2
    <3> HIDE DEF y0
    <3>2. QED
        BY <1>1, <1>10, <3>1, SMT
  <2>5. DateOf(e, x, n) = [year |-> y0, month |-> 3, day |-> 1]
    <3>1. MonthOf(n) = 0 /\ DayIn(n) = 1
        BY <2>1, SMT DEF MonthOf, DayIn
    <3> HIDE DEF y0
    <3>2. QED
        BY <1>6, <2>1, <2>4, <3>1, SMT DEF DateOf
  <2> HIDE DEF m, y0, mp, d, date
  <2>6. Tomorrow(date) = [year |-> y0, month |-> 3, day |-> 1]
    <3>1. m < 12 /\ m + 1 = 3
        BY <2>2, SMT
    <3>2. QED
        BY <1>2, <2>3, <3>1, TomorrowOf, Zenon
  <2>7. QED
    BY <2>5, <2>6 DEF date
<1>11. QED
    BY <1>8, <1>9, <1>10

\* Dates are those of the calendar, whatever the day.
LEMMA DatesHold == ASSUME NEW days \in Int PROVE DateHolds(days)
<1>1. PICK era, y, doy \in Int : DayOf(era, y, doy) /\ days = Number(era, y, doy)
    BY DayFound
<1> DEFINE more == doy < 364 \/ (doy = 364 /\ Long(y))
           e == IF more \/ y < 399 THEN era ELSE era + 1
           x == IF more THEN y ELSE IF y < 399 THEN y + 1 ELSE 0
           n == IF more THEN doy + 1 ELSE 0
<1>2. FromDays(days) = DateOf(era, y, doy)
    BY <1>1, DateIs, SMT
<1>3. DayOf(e, x, n) /\ Number(e, x, n) = days + 1
    BY <1>1, NextDay, SMT
<1>4. Tomorrow(DateOf(era, y, doy)) = DateOf(e, x, n)
    BY <1>1, TomorrowIs, SMT
<1> HIDE DEF e, x, n
<1>5. FromDays(days + 1) = DateOf(e, x, n)
    BY <1>3, DateIs, SMT
<1>6. LET date == DateOf(era, y, doy) IN ToDays(date.year, date.month, date.day) = days
    BY <1>1, DateBack, SMT
<1>7. QED
    BY <1>2, <1>4, <1>5, <1>6, SMT DEF DateHolds

-----------------------------------------------------------------------------
\* The slots that there are.
IsASlot(s) == s \in [day : Nat, half : Nat] /\ s.half < HalfSeconds /\ IsSlot(s)
\* A time whose seconds are a uint32_t.
IsEarly(t) == t.day >= 0 /\ (t.day < 49710 \/ (t.day = 49710 /\ t.ms < 23296000))

\* A year of four digits is enough for every day of the 32-bit seconds.
LEMMA DateOfText ==
    ASSUME NEW day \in Int, 0 <= day, day <= 49710
    PROVE  LET date == FromDays(day)
           IN ToDays(YearDigits(date.year), date.month, date.day) = day
<1>1. PICK era, y, doy \in Int : DayOf(era, y, doy) /\ day = Number(era, y, doy)
    BY DayFound
<1>2. FromDays(day) = DateOf(era, y, doy)
    BY <1>1, DateIs, SMT
<1> DEFINE date == DateOf(era, y, doy)
<1>3. ToDays(date.year, date.month, date.day) = day
    BY <1>1, DateBack, SMT
<1>4. YearDigits(date.year) = date.year
  <2>1. era >= 0 /\ era <= 10
    BY <1>1, SMT DEF DayOf, Number, Start
  <2>2. date.year = y + era * 400 \/ date.year = y + era * 400 + 1
    BY <1>1, SMT DEF DateOf, DayOf
  <2> HIDE DEF date
  <2>3. QED
    BY <1>1, <2>1, <2>2, SMT DEF DayOf, YearDigits
<1> HIDE DEF date
<1>5. QED
    BY <1>2, <1>3, <1>4, SMT DEF date

\* Days times 86400 wrap, with the seconds, to the day and the seconds.
LEMMA NoWrap ==
    ASSUME NEW day \in Nat, NEW second \in Nat, second < 86400,
           day < 49710 \/ (day = 49710 /\ second < 23296)
    PROVE  Seconds(day, second) = [day |-> day, second |-> second]
<1>1. Wraps(day, second) = 0
    BY SMT DEF Wraps
<1>2. second - 23296 * 0 = second /\ (second \div 86400) = 0 /\ second % 86400 = second
      /\ day - 49710 * 0 + 0 = day
    BY SMT
<1>3. QED
    BY <1>1, <1>2, SMT DEF Seconds

\* Hours, minutes, seconds and the fraction make up the milliseconds.
LEMMA PartsOfMs ==
    ASSUME NEW ms \in Nat, ms < 86400000
    PROVE  /\ (ms \div 3600000) * 3600 + ((ms \div 60000) % 60) * 60 + ((ms \div 1000) % 60) = ms \div 1000
           /\ (ms \div 1000) * 1000 + ((ms \div 100) % 10) * 100 + ((ms \div 10) % 10) * 10 + (ms % 10) = ms
           /\ ms \div 1000 \in Nat /\ ms \div 1000 < 86400
           /\ ms < 23296000 => ms \div 1000 < 23296
BY SMTT(60)

\* The parts of the text of a time.
LEMMA TextOf ==
    ASSUME NEW t
    PROVE  LET date == FromDays(t.day) 
               written == TimeText(t)
           IN /\ written.year = YearDigits(date.year) /\ written.month = date.month /\ written.date = date.day
              /\ written.hour = t.ms \div 3600000 /\ written.minute = (t.ms \div 60000) % 60
              /\ written.second = (t.ms \div 1000) % 60
              /\ written.fraction = <<(t.ms \div 100) % 10, (t.ms \div 10) % 10, t.ms % 10>>
BY SMT DEF TimeText

\* The seconds of a text are those of the time.
LEMMA SecondsOfText ==
    ASSUME NEW t, IsTimePoint(t), IsEarly(t)
    PROVE  SecondsOf(TimeText(t)) = [day |-> t.day, second |-> t.ms \div 1000]
<1> DEFINE written == TimeText(t)
           date == FromDays(t.day)
<1>1. t.day \in Nat /\ t.day <= 49710 /\ t.ms \in Nat /\ t.ms < 86400000
    BY SMT DEF IsTimePoint, IsEarly
<1>2. ToDays(written.year, written.month, written.date) = t.day
  <2>1. ToDays(YearDigits(date.year), date.month, date.day) = t.day
    BY <1>1, DateOfText, SMT
  <2>2. written.year = YearDigits(date.year) /\ written.month = date.month /\ written.date = date.day
    BY TextOf, SMT
  <2> HIDE DEF written, date
  <2>3. QED
    BY <2>1, <2>2, SMT
<1>3. written.hour * 3600 + written.minute * 60 + written.second = t.ms \div 1000
  <2>1. written.hour = t.ms \div 3600000 /\ written.minute = (t.ms \div 60000) % 60
        /\ written.second = (t.ms \div 1000) % 60
    BY TextOf, SMT
  <2> HIDE DEF written
  <2>2. QED
    BY <1>1, <2>1, PartsOfMs, SMT
<1>4. Seconds(t.day, t.ms \div 1000) = [day |-> t.day, second |-> t.ms \div 1000]
  <2>1. t.ms \div 1000 \in Nat /\ t.ms \div 1000 < 86400
        /\ (t.day < 49710 \/ (t.day = 49710 /\ t.ms \div 1000 < 23296))
    BY <1>1, PartsOfMs, SMT DEF IsEarly
  <2>2. QED
    BY <1>1, <2>1, NoWrap, SMT
<1> HIDE DEF written
<1>5. SecondsOf(written) = Seconds(t.day, t.ms \div 1000)
    BY <1>2, <1>3, SMT DEF SecondsOf
<1>6. QED
    BY <1>4, <1>5, SMT DEF written

\* Every second comes back from its text.
LEMMA SecondsKept == ASSUME NEW s, IsSeconds(s) PROVE SecondKept(s)
<1> DEFINE t == AtSecond(s)
<1>1. s.day \in Nat /\ s.second \in Nat /\ s.second < 86400
      /\ (s.day < 49710 \/ (s.day = 49710 /\ s.second < 23296))
      /\ s = [day |-> s.day, second |-> s.second]
    BY SMT DEF IsSeconds
<1>2. t = [day |-> s.day, ms |-> s.second * 1000, us |-> 0]
    BY SMT DEF AtSecond
<1>3. IsTimePoint(t) /\ IsEarly(t)
    BY <1>1, <1>2, SMT DEF IsTimePoint, IsEarly
<1>4. t.day = s.day /\ t.ms \div 1000 = s.second
    BY <1>1, <1>2, SMT
<1> HIDE DEF t
<1>5. SecondsOf(TimeText(t)) = [day |-> s.day, second |-> s.second]
    BY <1>3, <1>4, SecondsOfText, SMT
<1>6. QED
    BY <1>1, <1>5, SMT DEF SecondKept, SecondsText, t

\* So do the milliseconds, of a time that 32 bits of seconds can hold.
LEMMA MicrosecondsOfText ==
    ASSUME NEW t, IsTimePoint(t), IsEarly(t)
    PROVE  IsTimeText(TimeText(t)) /\ MicrosecondsOf(TimeText(t)) = [t EXCEPT !.us = 0]
<1> DEFINE written == TimeText(t)
           a == (t.ms \div 100) % 10
           b == (t.ms \div 10) % 10
           c == t.ms % 10
<1>1. t.ms \in Nat /\ t.ms < 86400000 /\ [t EXCEPT !.us = 0] = [day |-> t.day, ms |-> t.ms, us |-> 0]
    BY SMT DEF IsTimePoint
<1>2. SecondsOf(written) = [day |-> t.day, second |-> t.ms \div 1000]
    BY SecondsOfText, SMT
<1>3. written.fraction = <<a, b, c>>
    BY SMT DEF TimeText
<1>4. (t.ms \div 1000) * 1000 + a * 100 + b * 10 + c = t.ms
    BY <1>1, PartsOfMs, SMT
<1> HIDE DEF written, a, b, c
<1>5. IsTimeText(written)
    BY <1>3, SMT DEF IsTimeText
<1>6. FractionDigit(written, 1) = a /\ FractionDigit(written, 2) = b /\ FractionDigit(written, 3) = c
      /\ FractionDigit(written, 4) = 0 /\ FractionDigit(written, 5) = 0 /\ FractionDigit(written, 6) = 0
  <2>1. DOMAIN written.fraction = 1 .. 3 /\ written.fraction[1] = a /\ written.fraction[2] = b /\ written.fraction[3] = c
    BY <1>3, SMT
  <2>2. QED
    BY <2>1, SMT DEF FractionDigit
<1>7. MicrosecondsOf(written) =
        [day |-> t.day, ms |-> (t.ms \div 1000) * 1000 + a * 100 + b * 10 + c, us |-> 0 * 100 + 0 * 10 + 0]
    BY <1>2, <1>6, SMT DEF MicrosecondsOf
<1>8. QED
    BY <1>1, <1>4, <1>5, <1>7, SMT DEF written

\* Every time point comes back, up to the millisecond.
LEMMA TimesKept == ASSUME NEW t, IsTimePoint(t) PROVE TimeKept(t)
BY MicrosecondsOfText, SMT DEF TimeKept, IsEarly

\* A count of half seconds that fits 32 bits is a slot.
LEMMA NoSlotWrap ==
    ASSUME NEW day \in Nat, NEW half \in Nat, half < 172800,
           day < 24855 \/ (day = 24855 /\ half < 23296)
    PROVE  AsSlot(day, half) = [day |-> day, half |-> half]
<1>1. SlotWraps(day, half) = 0
    BY SMT DEF SlotWraps
<1>2. half - 23296 * 0 = half /\ half \div 172800 = 0 /\ half % 172800 = half
      /\ day - 24855 * 0 + 0 = day
    BY SMT
<1>3. QED
    BY <1>1, <1>2, SMT DEF AsSlot, Slot, HalfSeconds

\* A count before 0, of fewer days than 2^32 half seconds have, gets 2^32 more.
LEMMA SlotWrapsOnce ==
    ASSUME NEW day \in Int, -24855 <= day, day <= -1,
           NEW half \in Nat, half <= 172800, day < -1 \/ half < 172800
    PROVE  AsSlot(day, half) = IF half + 23296 < 172800
                               THEN [day |-> day + 24855, half |-> half + 23296]
                               ELSE [day |-> day + 24856, half |-> half - 149504]
<1>1. half \div 256 \in Nat /\ half \div 256 <= 675 /\ (half < 172800 => half \div 256 < 675)
    BY SMT
<1> DEFINE part == half \div 256
<1>2. SlotWraps(day, half) = (675 * day + part) \div 16777216
    BY SMT DEF SlotWraps
<1> HIDE DEF part
<1>3. -16777216 <= 675 * day + part /\ 675 * day + part < 0 /\ 675 * day + part \in Int
    BY <1>1, SMT DEF part
<1>4. (675 * day + part) \div 16777216 = 0 - 1
    BY <1>3, SMT
<1>5. half - 23296 * (0 - 1) = half + 23296 /\ day - 24855 * (0 - 1) = day + 24855
    BY SMT
<1> DEFINE rest == half + 23296
<1>6. AsSlot(day, half) = [day |-> day + 24855 + (rest \div 172800), half |-> rest % 172800]
    BY <1>2, <1>4, <1>5, SMT DEF AsSlot, Slot, HalfSeconds
<1> HIDE DEF rest
<1>7. CASE half + 23296 < 172800
  <2>1. rest \div 172800 = 0 /\ rest % 172800 = half + 23296
    BY <1>7, SMT DEF rest
  <2>2. QED
    BY <1>6, <1>7, <2>1, SMT
<1>8. CASE ~(half + 23296 < 172800)
  <2>1. rest \div 172800 = 1 /\ rest % 172800 = half - 149504
    BY <1>8, SMT DEF rest
  <2>2. QED
    BY <1>6, <1>8, <2>1, SMT
<1>9. QED
    BY <1>7, <1>8

\* The slot of a time is half a second of its day.
LEMMA SlotBack ==
    ASSUME NEW t, t.day \in Int, t.ms \in Nat, t.ms < 86400000, t.day >= 10957,
           t.day < 35812 \/ (t.day = 35812 /\ t.ms \div 500 < 23296)
    PROVE  SlotOf(t) = [day |-> t.day - 10957, half |-> t.ms \div 500]
<1> DEFINE day == t.day - 10957
           half == t.ms \div 500
<1>1. day \in Nat /\ half \in Nat /\ half < 172800
    BY SMT
<1>2. day < 24855 \/ (day = 24855 /\ half < 23296)
    BY SMT
<1>3. ~(t.day < 0) /\ ~(t.day < 10957)
    BY SMT
<1>4. SlotOf(t) = AsSlot(day, half)
    BY <1>3, SMT DEF SlotOf, Milliseconds, Epoch
<1> HIDE DEF day, half
<1>5. AsSlot(day, half) = [day |-> day, half |-> half]
    BY <1>1, <1>2, NoSlotWrap, SMT
<1>6. QED
    BY <1>4, <1>5, SMT DEF day, half

\* Every slot comes back from its text.
LEMMA SlotsKept == ASSUME NEW s, IsASlot(s) PROVE SlotKept(s)
<1> DEFINE t == SlotTime(s)
<1>1. s.day \in Nat /\ s.half \in Nat /\ s.half < 172800
      /\ (s.day < 24855 \/ (s.day = 24855 /\ s.half < 23296))
      /\ s = [day |-> s.day, half |-> s.half]
    BY SMT DEF IsASlot, IsSlot, HalfSeconds
<1>2. t = [day |-> s.day + 10957, ms |-> s.half * 500, us |-> 0]
    BY SMT DEF SlotTime, Epoch
<1>3. IsTimePoint(t) /\ IsEarly(t)
    BY <1>1, <1>2, SMT DEF IsTimePoint, IsEarly
<1>4. t.day - 10957 = s.day /\ t.ms \div 500 = s.half /\ [t EXCEPT !.us = 0] = t
    BY <1>1, <1>2, SMT
<1>5. SlotOf(t) = s
  <2>1. t.day \in Int /\ t.ms \in Nat /\ t.ms < 86400000 /\ t.day >= 10957
        /\ (t.day < 35812 \/ (t.day = 35812 /\ t.ms \div 500 < 23296))
    BY <1>1, <1>2, SMT
  <2> HIDE DEF t
  <2>2. QED
    BY <1>1, <1>4, <2>1, SlotBack, SMT
<1>6. MicrosecondsOf(SlotText(s)) = t
  <2> HIDE DEF t
  <2>1. MicrosecondsOf(TimeText(t)) = t
    BY <1>3, <1>4, MicrosecondsOfText, SMT
  <2>2. QED
    BY <2>1, SMT DEF SlotText, t
<1>7. s.half % 2 = 0 => SlotOfSecond([day |-> s.day + Epoch, second |-> s.half \div 2]) = s
  <2>1. s.half % 2 = 0 => (s.half \div 2) * 1000 = s.half * 500
    BY <1>1, SMT
  <2>2. s.half % 2 = 0 => AtSecond([day |-> s.day + Epoch, second |-> s.half \div 2]) = t
    BY <1>2, <2>1, SMT DEF AtSecond, Epoch
  <2> HIDE DEF t
  <2>3. QED
    BY <1>5, <2>2, SMT DEF SlotOfSecond
<1>8. SlotTime(NextSlot(s)) = IF s.half + 1 = HalfSeconds
                              THEN [day |-> s.day + 1 + Epoch, ms |-> 0, us |-> 0]
                              ELSE [SlotTime(s) EXCEPT !.ms = @ + 500]
  <2>1. CASE s.half + 1 = HalfSeconds
    BY <1>1, <2>1, SMT DEF NextSlot, SlotTime, Slot, HalfSeconds, Epoch
  <2>2. CASE s.half + 1 # HalfSeconds
    <3>1. [SlotTime(s) EXCEPT !.ms = @ + 500] = [day |-> s.day + 10957, ms |-> s.half * 500 + 500, us |-> 0]
        BY <1>1, <1>2, SMT
    <3>2. NextSlot(s) = Slot(s.day, s.half + 1)
        BY <2>2, SMT DEF NextSlot
    <3>3. SlotTime(Slot(s.day, s.half + 1)) = [day |-> s.day + 10957, ms |-> (s.half + 1) * 500, us |-> 0]
        BY SMT DEF SlotTime, Slot, Epoch
    <3>4. (s.half + 1) * 500 = s.half * 500 + 500
        BY <1>1, SMT
    <3>5. QED
        BY <2>2, <3>1, <3>2, <3>3, <3>4, SMT
  <2>3. QED
    BY <2>1, <2>2
<1>9. QED
    BY <1>5, <1>6, <1>7, <1>8, SMT DEF SlotKept

\* A time from 2000 on becomes the slot that it is in.
LEMMA LastSlots ==
    ASSUME NEW t, IsTimePoint(t), t.day >= 10957, t.day < 35812
    PROVE  InLastSlot(t)
<1>1. t.day \in Int /\ t.ms \in Nat /\ t.ms < 86400000
    BY SMT DEF IsTimePoint
<1>2. SlotOf(t) = [day |-> t.day - 10957, half |-> t.ms \div 500]
    BY <1>1, SlotBack, SMT
<1>3. SlotTime([day |-> t.day - 10957, half |-> t.ms \div 500]) =
        [day |-> t.day, ms |-> (t.ms \div 500) * 500, us |-> 0]
    BY <1>1, SMT DEF SlotTime, Epoch
<1>4. (t.ms \div 500) * 500 <= t.ms /\ t.ms < (t.ms \div 500) * 500 + 500
    BY <1>1, SMT
<1>5. QED
    BY <1>2, <1>3, <1>4, SMT DEF InLastSlot

\* The next half second: the milliseconds that have begun, rounded up.
LEMMA NextHalf ==
    ASSUME NEW ms \in Nat, ms < 86400000, NEW us \in Nat, us < 1000, NEW n \in Nat, NEW late \in Nat,
           (n = ms /\ late = 0) \/ (n = ms + 1 /\ late = us /\ us > 0)
    PROVE  LET half == (n + 499) \div 500
               ahead == half * 500 - ms
           IN /\ half \in Nat /\ half <= 172800 /\ 0 <= ahead /\ ahead <= 500
              /\ late <= 1000 * ahead /\ 1000 * ahead < 500000 + late
<1> DEFINE half == (n + 499) \div 500
<1>1. half \in Nat /\ half <= 172800 /\ n <= half * 500 /\ half * 500 < n + 500
    BY SMT
<1> HIDE DEF half
<1>2. CASE n = ms /\ late = 0
    BY <1>1, <1>2, SMT DEF half
<1>3. CASE n = ms + 1 /\ late = us /\ us > 0
    BY <1>1, <1>3, SMT DEF half
<1>4. QED
    BY <1>2, <1>3

\* An earlier one becomes the slot that begins next.
LEMMA NextSlots ==
    ASSUME NEW t, IsTimePoint(t), t.day >= -13898, t.day < 10957
    PROVE  InNextSlot(t)
<1> DEFINE n == Milliseconds(t)
           half == (n + 499) \div 500
           day == t.day - 10957
           late == IF t.day < 0 THEN t.us ELSE 0
           slot == SlotOf(t)
           begin == IF slot = Slot(0, 0) THEN slot ELSE Slot(slot.day - 24855, slot.half - 23296)
           days == begin.day + Epoch - t.day
           ahead == days * 86400000 + begin.half * 500 - t.ms
<1> SUFFICES /\ IsSlot(slot) /\ days \in {0, 1} /\ 0 <= ahead /\ ahead <= 500
             /\ late <= 1000 * ahead /\ 1000 * ahead < 500000 + late
    BY DEF InNextSlot
<1>1. t.day \in Int /\ t.ms \in Nat /\ t.ms < 86400000 /\ t.us \in Nat /\ t.us < 1000
    BY SMT DEF IsTimePoint
<1>2. /\ half \in Nat /\ half <= 172800 /\ 0 <= half * 500 - t.ms /\ half * 500 - t.ms <= 500
      /\ late <= 1000 * (half * 500 - t.ms) /\ 1000 * (half * 500 - t.ms) < 500000 + late
  <2>1. n \in Nat /\ late \in Nat /\ ((n = t.ms /\ late = 0) \/ (n = t.ms + 1 /\ late = t.us /\ t.us > 0))
    BY <1>1, SMT DEF Milliseconds
  <2> HIDE DEF n, late
  <2>2. QED
    BY <1>1, <2>1, NextHalf, SMT
<1>3. slot = AsSlot(day, half)
    BY <1>1, SMT DEF SlotOf, Epoch
<1>4. day \in Int /\ -24855 <= day /\ day <= -1 /\ t.day = day + 10957
    BY <1>1, SMT
<1> HIDE DEF half, day, late, slot
<1>5. CASE day = -1 /\ half = 172800
  <2>1. SlotWraps(day, half) = 0
    BY <1>5, SMT DEF SlotWraps
  <2>2. slot = Slot(0, 0)
    BY <1>3, <1>5, <2>1, SMT DEF AsSlot, HalfSeconds
  <2>3. begin.day = 0 /\ begin.half = 0 /\ IsSlot(slot)
    BY <2>2, SMT DEF Slot, IsSlot
  <2>4. days = 1 /\ ahead = half * 500 - t.ms
    BY <1>1, <1>4, <1>5, <2>3, SMT DEF Epoch
  <2> HIDE DEF begin, days, ahead
  <2>5. QED
    BY <1>2, <2>3, <2>4, SMT
<1>6. CASE ~(day = -1 /\ half = 172800)
  <2>1. slot = IF half + 23296 < 172800
               THEN [day |-> day + 24855, half |-> half + 23296]
               ELSE [day |-> day + 24856, half |-> half - 149504]
    BY <1>2, <1>3, <1>4, <1>6, SlotWrapsOnce, SMT
  <2>2. CASE half + 23296 < 172800
    <3>1. slot.day = day + 24855 /\ slot.half = half + 23296
        BY <2>1, <2>2, SMT
    <3>2. IsSlot(slot) /\ slot # Slot(0, 0)
        BY <1>2, <1>4, <3>1, SMT DEF IsSlot, Slot
    <3>3. begin = Slot(day, half)
        BY <1>2, <1>4, <3>1, <3>2, SMT DEF Slot
    <3>4. begin.day = day /\ begin.half = half
        BY <3>3, SMT DEF Slot
    <3> HIDE DEF begin
    <3>5. days = 0 /\ ahead = half * 500 - t.ms
        BY <1>1, <1>2, <1>4, <3>4, SMT DEF Epoch
    <3> HIDE DEF days, ahead
    <3>6. QED
        BY <1>2, <3>2, <3>5, SMT
  <2>3. CASE ~(half + 23296 < 172800)
    <3>1. slot.day = day + 24856 /\ slot.half = half - 149504
        BY <2>1, <2>3, SMT
    <3>2. IsSlot(slot) /\ slot # Slot(0, 0)
        BY <1>2, <1>4, <1>6, <2>3, <3>1, SMT DEF IsSlot, Slot
    <3>3. begin = Slot(day + 1, half - 172800)
        BY <1>2, <1>4, <3>1, <3>2, SMT DEF Slot
    <3>4. begin.day = day + 1 /\ begin.half = half - 172800
        BY <3>3, SMT DEF Slot
    <3> HIDE DEF begin
    <3>5. days = 1 /\ ahead = half * 500 - t.ms
        BY <1>1, <1>2, <1>4, <3>4, SMT DEF Epoch
    <3> HIDE DEF days, ahead
    <3>6. QED
        BY <1>2, <3>2, <3>5, SMT
  <2>4. QED
    BY <2>2, <2>3
<1>7. QED
    BY <1>5, <1>6

\* A time becomes the slot that it is in, or the next one.
LEMMA SlotsHold == ASSUME NEW t, IsTimePoint(t) PROVE SlotHolds(t)
BY LastSlots, NextSlots, SMT DEF SlotHolds, Epoch, IsTimePoint

-----------------------------------------------------------------------------
(* Numerals: the number of a sequence of digits in any base, the highest   *)
(* first, and the digits of a number.                                      *)

\* Of the digits read so far, the number.
Counts(g, digits, base) ==
    /\ g \in [0 .. Len(digits) -> Nat]
    /\ g[0] = 0
    /\ \A i \in 1 .. Len(digits) : g[i] = base * g[i - 1] + digits[i]
\* The recursion exists, and is that of reading.
LEMMA NumbersAre ==
    ASSUME NEW digits \in Seq(Nat), NEW base \in Nat
    PROVE  Counts(Numbers(digits, base), digits, base)
<1> DEFINE n == Len(digits)
           D(k) == IF k \in 1 .. n THEN digits[k] ELSE 0
           Body(x, d) == base * x + d
           Then(k, x) == Body(x, D(k))
           step == [k \in Nat |-> [x \in Nat |-> Then(k, x)]]
           G == CHOOSE g : g = [i \in 0 .. n |-> IF i = 0 THEN 0 ELSE Body(g[i - 1], digits[i])]
<1>1. n \in Nat /\ (\A k \in Nat : D(k) \in Nat) /\ 0 \in Nat
    OBVIOUS
<1>2. 0 \in Nat
    OBVIOUS
<1>0. ASSUME NEW x \in Nat, NEW d \in Nat PROVE Body(x, d) \in Nat
    OBVIOUS
<1> HIDE DEF Body
<1>3. \A k \in Nat, x \in Nat : Then(k, x) \in Nat
  <2> SUFFICES ASSUME NEW k \in Nat, NEW x \in Nat PROVE Then(k, x) \in Nat
    OBVIOUS
  <2>1. D(k) \in Nat
    BY <1>1
  <2> HIDE DEF D
  <2> QED
    BY <1>0, <2>1
<1>4. step \in [Nat -> [Nat -> Nat]]
  <2> HIDE DEF Then
  <2> QED
    BY <1>3
<1> HIDE DEF n
<1>5. PICK f \in [0 .. n -> Nat] : Recursion(f, n, 0, step)
  <2> HIDE DEF step
  <2> QED
    BY <1>1, <1>2, <1>4, RecursionExists
<1>6. f = [i \in 0 .. n |-> IF i = 0 THEN 0 ELSE Body(f[i - 1], digits[i])]
  <2>1. ASSUME NEW k \in 0 .. n
        PROVE  f[k] = IF k = 0 THEN 0 ELSE Body(f[k - 1], digits[k])
    <3>1. CASE k = 0
        BY <1>5, <3>1 DEF Recursion
    <3>2. CASE k # 0
      <4>1. f[k - 1] \in Nat /\ k \in Nat /\ k \in 1 .. n
        BY <1>1, <3>2
      <4>2. step[k][f[k - 1]] = Body(f[k - 1], digits[k])
        BY <4>1
      <4> HIDE DEF step
      <4> QED
        BY <1>5, <3>2, <4>2 DEF Recursion
    <3> QED
        BY <3>1, <3>2
  <2>2. f = [k \in 0 .. n |-> f[k]]
    OBVIOUS
  <2> QED
    BY <2>1, <2>2
<1>7. G = [i \in 0 .. n |-> IF i = 0 THEN 0 ELSE Body(G[i - 1], digits[i])]
  <2>1. G = CHOOSE g : g = [i \in 0 .. n |-> IF i = 0 THEN 0 ELSE Body(g[i - 1], digits[i])]
    OBVIOUS
  <2> HIDE DEF G
  <2> QED
    BY <1>6, <2>1, Zenon
<1>8. Numbers(digits, base) = G
    BY DEF Numbers, n, Body
<1> HIDE DEF G
<1>9. G[0] = 0 /\ \A k \in 1 .. n : G[k] = Body(G[k - 1], digits[k])
    BY <1>1, <1>7
<1>10. G \in [0 .. n -> Nat]
  <2> DEFINE T == {k \in Nat : k <= n => G[k] \in Nat}
  <2>1. 0 \in T
    BY <1>2, <1>9
  <2>2. ASSUME NEW k \in Nat, k \in T PROVE k + 1 \in T
    <3> SUFFICES ASSUME k + 1 <= n PROVE G[k + 1] \in Nat
        OBVIOUS
    <3>1. k + 1 \in Nat /\ k + 1 \in 1 .. n /\ G[k] \in Nat /\ (k + 1) - 1 = k
        BY <1>1, <2>2
    <3>2. G[k + 1] = Body(G[k], digits[k + 1])
        BY <1>9, <3>1
    <3>3. Then(k + 1, G[k]) = Body(G[k], digits[k + 1])
        BY <3>1
    <3> HIDE DEF Then
    <3>4. Then(k + 1, G[k]) \in Nat
        BY <1>3, <3>1
    <3> QED
        BY <3>2, <3>3, <3>4
  <2> HIDE DEF T
  <2>3. Nat \subseteq T
    BY <2>1, <2>2, NatInduct
  <2>4. \A k \in 0 .. n : G[k] \in Nat
    BY <1>1, <2>3 DEF T
  <2> QED
    BY <1>7, <2>4
<1>11. Counts(G, digits, base)
    BY <1>9, <1>10 DEF n, Body, Counts
<1> QED
    BY <1>8, <1>11

\* A base is a number that is divided by.
Radices == Nat \ {0}

\* What is left and what is divided make up the number.
LEMMA DivisionIs ==
    ASSUME NEW base \in Radices, NEW n \in Nat
    PROVE  /\ n \div base \in Nat
           /\ n % base \in 0 .. base - 1
           /\ n = (n % base) + base * (n \div base)
BY SMT DEF Radices

\* The products of natural numbers.
LEMMA Distributes ==
    ASSUME NEW a \in Nat, NEW b \in Nat, NEW c \in Nat
    PROVE  a * (b + c) = a * b + a * c /\ a * b \in Nat /\ a * b = b * a
BY SMT

\* Factors may change places.
LEMMA Associates ==
    ASSUME NEW a \in Nat, NEW b \in Nat, NEW c \in Nat
    PROVE  a * (b * c) = b * (a * c)
BY SMT

\* What is carried behind every digit.
Carried(g, digits, factor, base, first) ==
    /\ g \in [0 .. Len(digits) -> Nat]
    /\ g[0] = first
    /\ \A i \in 1 .. Len(digits) : g[i] = (factor * digits[i] + g[i - 1]) \div base
\* The recursion of the carries exists.
LEMMA CarriesAre ==
    ASSUME NEW digits \in Seq(Nat), NEW factor \in Nat, NEW base \in Radices, NEW first \in Nat
    PROVE  Carried(Carries(digits, factor, base, first), digits, factor, base, first)
<1> DEFINE n == Len(digits)
           D(k) == IF k \in 1 .. n THEN digits[k] ELSE 0
           Body(x, d) == (factor * d + x) \div base
           Then(k, x) == Body(x, D(k))
           step == [k \in Nat |-> [x \in Nat |-> Then(k, x)]]
           G == CHOOSE g : g = [i \in 0 .. n |-> IF i = 0 THEN first ELSE Body(g[i - 1], digits[i])]
<1>1. n \in Nat /\ (\A k \in Nat : D(k) \in Nat) /\ 0 \in Nat
    OBVIOUS
<1>2. first \in Nat
    OBVIOUS
<1>0. ASSUME NEW x \in Nat, NEW d \in Nat PROVE Body(x, d) \in Nat
    <2>1. factor * d + x \in Nat
        OBVIOUS
    <2> QED
        BY <2>1, DivisionIs
<1> HIDE DEF Body
<1>3. \A k \in Nat, x \in Nat : Then(k, x) \in Nat
  <2> SUFFICES ASSUME NEW k \in Nat, NEW x \in Nat PROVE Then(k, x) \in Nat
    OBVIOUS
  <2>1. D(k) \in Nat
    BY <1>1
  <2> HIDE DEF D
  <2> QED
    BY <1>0, <2>1
<1>4. step \in [Nat -> [Nat -> Nat]]
  <2> HIDE DEF Then
  <2> QED
    BY <1>3
<1> HIDE DEF n
<1>5. PICK f \in [0 .. n -> Nat] : Recursion(f, n, first, step)
  <2> HIDE DEF step
  <2> QED
    BY <1>1, <1>2, <1>4, RecursionExists
<1>6. f = [i \in 0 .. n |-> IF i = 0 THEN first ELSE Body(f[i - 1], digits[i])]
  <2>1. ASSUME NEW k \in 0 .. n
        PROVE  f[k] = IF k = 0 THEN first ELSE Body(f[k - 1], digits[k])
    <3>1. CASE k = 0
        BY <1>5, <3>1 DEF Recursion
    <3>2. CASE k # 0
      <4>1. f[k - 1] \in Nat /\ k \in Nat /\ k \in 1 .. n
        BY <1>1, <3>2
      <4>2. step[k][f[k - 1]] = Body(f[k - 1], digits[k])
        BY <4>1
      <4> HIDE DEF step
      <4> QED
        BY <1>5, <3>2, <4>2 DEF Recursion
    <3> QED
        BY <3>1, <3>2
  <2>2. f = [k \in 0 .. n |-> f[k]]
    OBVIOUS
  <2> QED
    BY <2>1, <2>2
<1>7. G = [i \in 0 .. n |-> IF i = 0 THEN first ELSE Body(G[i - 1], digits[i])]
  <2>1. G = CHOOSE g : g = [i \in 0 .. n |-> IF i = 0 THEN first ELSE Body(g[i - 1], digits[i])]
    OBVIOUS
  <2> HIDE DEF G
  <2> QED
    BY <1>6, <2>1, Zenon
<1>8. Carries(digits, factor, base, first) = G
    BY DEF Carries, n, Body
<1> HIDE DEF G
<1>9. G[0] = first /\ \A k \in 1 .. n : G[k] = Body(G[k - 1], digits[k])
    BY <1>1, <1>7
<1>10. G \in [0 .. n -> Nat]
  <2> DEFINE T == {k \in Nat : k <= n => G[k] \in Nat}
  <2>1. 0 \in T
    BY <1>2, <1>9
  <2>2. ASSUME NEW k \in Nat, k \in T PROVE k + 1 \in T
    <3> SUFFICES ASSUME k + 1 <= n PROVE G[k + 1] \in Nat
        OBVIOUS
    <3>1. k + 1 \in Nat /\ k + 1 \in 1 .. n /\ G[k] \in Nat /\ (k + 1) - 1 = k
        BY <1>1, <2>2
    <3>2. G[k + 1] = Body(G[k], digits[k + 1])
        BY <1>9, <3>1
    <3>3. Then(k + 1, G[k]) = Body(G[k], digits[k + 1])
        BY <3>1
    <3> HIDE DEF Then
    <3>4. Then(k + 1, G[k]) \in Nat
        BY <1>3, <3>1
    <3> QED
        BY <3>2, <3>3, <3>4
  <2> HIDE DEF T
  <2>3. Nat \subseteq T
    BY <2>1, <2>2, NatInduct
  <2>4. \A k \in 0 .. n : G[k] \in Nat
    BY <1>1, <2>3 DEF T
  <2> QED
    BY <1>7, <2>4
<1>11. Carried(G, digits, factor, base, first)
    BY <1>9, <1>10 DEF n, Body, Carried
<1> QED
    BY <1>8, <1>11

\* A step of multiplying by the one base the digits in the other.
LEMMA OneDigit ==
    ASSUME NEW base \in Radices, NEW factor \in Radices,
           NEW d \in Nat, NEW c \in Nat, NEW above \in Nat, NEW next \in Nat,
           next = (factor * d + c) \div base
    PROVE  factor * (d + base * above) + c
               = ((factor * d + c) % base) + base * (factor * above + next)
<1> DEFINE t == factor * d + c
           r == t % base
<1>1. base \in Nat /\ factor \in Nat /\ t \in Nat
    BY DEF Radices
<1>2. r \in 0 .. base - 1 /\ t = r + base * next
    BY <1>1, DivisionIs
<1>3. r \in Nat
    BY <1>1, <1>2
<1> HIDE DEF r
<1>4. base * above \in Nat /\ factor * above \in Nat /\ base * next \in Nat /\ factor * d \in Nat
    BY <1>1
<1>5. factor * (d + base * above) = factor * d + factor * (base * above)
    BY <1>1, <1>4, Distributes
<1>6. base * (factor * above + next) = base * (factor * above) + base * next
  <2> DEFINE p == factor * above
  <2>1. p \in Nat
    BY <1>4
  <2> HIDE DEF p
  <2>2. base * (p + next) = base * p + base * next
    BY <1>1, <2>1, Distributes
  <2> QED
    BY <2>2 DEF p
<1>7. factor * (base * above) = base * (factor * above) /\ base * (factor * above) \in Nat
    BY <1>1, <1>4, Associates
<1>8. factor * (d + base * above) + c = r + base * (factor * above + next)
  <2> DEFINE x == factor * d
             y == base * (factor * above)
             z == base * next
             left == factor * (d + base * above)
             right == base * (factor * above + next)
  <2>1. x \in Nat /\ y \in Nat /\ z \in Nat /\ c \in Nat /\ r \in Nat
    BY <1>3, <1>4, <1>7
  <2>2. left = x + y /\ right = y + z
    BY <1>5, <1>6, <1>7
  <2>3. x + c = r + z
    BY <1>2
  <2> HIDE DEF x, y, z, left, right, t
  <2>4. left + c = r + right
    BY <2>1, <2>2, <2>3
  <2> QED
    BY <2>4 DEF left, right
<1> QED
    BY <1>8 DEF r

\* Digits, the lowest first, stand for a number if it has stages: what is left of
\* it above each digit.  No digit is superfluous, so nothing is left only at the
\* end, if nothing is.
Stages(V, digits, base, n, rest) ==
    /\ V \in [0 .. Len(digits) -> Nat]
    /\ V[0] = n
    /\ V[Len(digits)] = rest
    /\ \A i \in 1 .. Len(digits) :
           V[i - 1] # 0 /\ digits[i] \in 0 .. base - 1 /\ V[i - 1] = digits[i] + base * V[i]
Leaves(digits, base, n, rest) ==
    digits \in Seq(0 .. base - 1) /\ \E V : Stages(V, digits, base, n, rest)

\* One digit and what is above it are determined by the number.
LEMMA DigitUnique ==
    ASSUME NEW base \in Radices, NEW d \in 0 .. base - 1, NEW e \in 0 .. base - 1,
           NEW x \in Nat, NEW y \in Nat, d + base * x = e + base * y
    PROVE  d = e /\ x = y
<1>1. ASSUME NEW p \in Nat, NEW q \in Nat, NEW f \in 0 .. base - 1, NEW g \in 0 .. base - 1,
             f + base * p = g + base * q, p < q
      PROVE  FALSE
  <2> DEFINE t == q - (p + 1)
  <2>1. t \in Nat /\ q = p + (1 + t) /\ 1 + t \in Nat /\ base \in Nat /\ f \in Nat /\ g \in Nat
    BY <1>1 DEF Radices
  <2> HIDE DEF t
  <2>2. base * q = base * p + base * (1 + t) /\ base * (1 + t) = base * 1 + base * t
    BY <2>1, Distributes
  <2>3. base * t \in Nat /\ base * p \in Nat /\ base * 1 = base
    BY <2>1
  <2> QED
    BY <1>1, <2>1, <2>2, <2>3
<1>2. base \in Nat /\ d \in Nat /\ e \in Nat
    BY DEF Radices
<1>3. ~(x < y)
    BY <1>1
<1>4. ~(y < x)
    BY <1>1
<1>5. x = y
    BY <1>3, <1>4
<1>6. base * x \in Nat
    BY <1>2
<1> QED
    BY <1>2, <1>5, <1>6

\* The digits of a number are one sequence.
LEMMA DigitsUnique ==
    ASSUME NEW base \in Radices, NEW n, NEW s, NEW t, Leaves(s, base, n, 0), Leaves(t, base, n, 0)
    PROVE  s = t
<1>1. PICK V : Stages(V, s, base, n, 0)
    BY DEF Leaves
<1>2. PICK U : Stages(U, t, base, n, 0)
    BY DEF Leaves
<1>3. Len(s) \in Nat /\ Len(t) \in Nat /\ s \in Seq(0 .. base - 1) /\ t \in Seq(0 .. base - 1)
    BY DEF Leaves
<1> DEFINE T == {k \in Nat : k <= Len(s) /\ k <= Len(t) => V[k] = U[k]}
<1>4. 0 \in T
    BY <1>1, <1>2 DEF Stages
<1>5. ASSUME NEW k \in Nat, k \in T, k + 1 <= Len(s), k + 1 <= Len(t)
      PROVE  V[k + 1] = U[k + 1] /\ s[k + 1] = t[k + 1]
  <2>1. k + 1 \in 1 .. Len(s) /\ k + 1 \in 1 .. Len(t) /\ (k + 1) - 1 = k /\ V[k] = U[k]
    BY <1>3, <1>5
  <2>2. k + 1 \in 0 .. Len(s) /\ k + 1 \in 0 .. Len(t)
    BY <1>3, <2>1
  <2>3. /\ s[k + 1] \in 0 .. base - 1 /\ V[k] = s[k + 1] + base * V[k + 1] /\ V[k + 1] \in Nat
        /\ t[k + 1] \in 0 .. base - 1 /\ U[k] = t[k + 1] + base * U[k + 1] /\ U[k + 1] \in Nat
    BY <1>1, <1>2, <2>1, <2>2 DEF Stages
  <2>4. s[k + 1] + base * V[k + 1] = t[k + 1] + base * U[k + 1]
    BY <2>1, <2>3
  <2> QED
    BY <2>3, <2>4, DigitUnique
<1>6. Nat \subseteq T
  <2>1. ASSUME NEW k \in Nat, k \in T PROVE k + 1 \in T
    BY <1>5, <2>1
  <2> HIDE DEF T
  <2> QED
    BY <1>4, <2>1, NatInduct
<1>7. Len(s) = Len(t)
  <2>1. ASSUME Len(s) < Len(t) PROVE FALSE
    <3>0. V[Len(s)] = 0
        BY <1>1 DEF Stages
    <3>1. V[Len(s)] = 0 /\ V[Len(s)] = U[Len(s)]
        BY <1>3, <1>6, <2>1, <3>0
    <3>2. Len(s) + 1 \in 1 .. Len(t) /\ (Len(s) + 1) - 1 = Len(s)
        BY <1>3, <2>1
    <3>3. U[Len(s)] # 0
        BY <1>2, <3>2 DEF Stages
    <3> QED
        BY <3>1, <3>3
  <2>2. ASSUME Len(t) < Len(s) PROVE FALSE
    <3>0. U[Len(t)] = 0
        BY <1>2 DEF Stages
    <3>1. U[Len(t)] = 0 /\ V[Len(t)] = U[Len(t)]
        BY <1>3, <1>6, <2>2, <3>0
    <3>2. Len(t) + 1 \in 1 .. Len(s) /\ (Len(t) + 1) - 1 = Len(t)
        BY <1>3, <2>2
    <3>3. V[Len(t)] # 0
        BY <1>1, <3>2 DEF Stages
    <3> QED
        BY <3>1, <3>3
  <2> QED
    BY <1>3, <2>1, <2>2
<1>8. ASSUME NEW i \in 1 .. Len(s) PROVE s[i] = t[i]
  <2>1. i - 1 \in Nat /\ (i - 1) + 1 = i /\ i <= Len(s) /\ i <= Len(t)
    BY <1>3, <1>7
  <2> QED
    BY <1>5, <1>6, <2>1
<1> HIDE DEF T
<1> QED
    BY <1>3, <1>7, <1>8, SeqEqual

\* And they stand for one number.
LEMMA NumberUnique ==
    ASSUME NEW base \in Radices, NEW s, NEW n, NEW m, Leaves(s, base, n, 0), Leaves(s, base, m, 0)
    PROVE  n = m
<1>1. PICK V : Stages(V, s, base, n, 0)
    BY DEF Leaves
<1>2. PICK U : Stages(U, s, base, m, 0)
    BY DEF Leaves
<1>3. Len(s) \in Nat
    BY DEF Leaves
<1> DEFINE T == {k \in Nat : k <= Len(s) => V[Len(s) - k] = U[Len(s) - k]}
<1>4. 0 \in T
    BY <1>1, <1>2, <1>3 DEF Stages
<1>5. ASSUME NEW k \in Nat, k \in T PROVE k + 1 \in T
  <2> SUFFICES ASSUME k + 1 <= Len(s) PROVE V[Len(s) - (k + 1)] = U[Len(s) - (k + 1)]
    OBVIOUS
  <2> DEFINE i == Len(s) - k
  <2>1. i \in 1 .. Len(s) /\ i - 1 = Len(s) - (k + 1) /\ V[i] = U[i]
    BY <1>3, <1>5
  <2> HIDE DEF i
  <2>2. V[i - 1] = s[i] + base * V[i] /\ U[i - 1] = s[i] + base * U[i]
    BY <1>1, <1>2, <2>1 DEF Stages
  <2> QED
    BY <2>1, <2>2
<1> HIDE DEF T
<1>6. Len(s) \in T
    BY <1>3, <1>4, <1>5, NatInduct
<1>7. V[0] = U[0]
    BY <1>3, <1>6 DEF T
<1> QED
    BY <1>1, <1>2, <1>7 DEF Stages

\* Elements of a set are elements of a wider one.
LEMMA WiderSeq ==
    ASSUME NEW S, NEW T, S \subseteq T, NEW s \in Seq(S)
    PROVE  s \in Seq(T)
<1>1. \A i \in 1 .. Len(s) : s[i] \in T
    OBVIOUS
<1>2. s = [i \in 1 .. Len(s) |-> s[i]] /\ Len(s) \in Nat
    OBVIOUS
<1> QED
    BY <1>1, <1>2

\* No carry exceeds what none exceeds in a step.
Bounded(factor, base, most) ==
    \A d \in 0 .. base - 1, c \in 0 .. most : (factor * d + c) \div base \in 0 .. most
\* A carry never exceeds a bound that one step keeps.
LEMMA CarriesBounded ==
    ASSUME NEW factor, NEW base \in Nat, NEW most \in Nat, Bounded(factor, base, most),
           NEW digits \in Seq(0 .. base - 1), NEW first \in 0 .. most,
           NEW C, Carried(C, digits, factor, base, first)
    PROVE  \A i \in 0 .. Len(digits) : C[i] \in 0 .. most
<1> DEFINE T == {k \in Nat : k <= Len(digits) => C[k] \in 0 .. most}
<1>1. 0 \in T
    BY DEF Carried
<1>2. ASSUME NEW k \in Nat, k \in T PROVE k + 1 \in T
  <2> SUFFICES ASSUME k + 1 <= Len(digits) PROVE C[k + 1] \in 0 .. most
    OBVIOUS
  <2>1. k + 1 \in 1 .. Len(digits) /\ (k + 1) - 1 = k /\ C[k] \in 0 .. most
    BY <1>2
  <2>2. C[k + 1] = (factor * digits[k + 1] + C[k]) \div base
    BY <2>1 DEF Carried
  <2>3. digits[k + 1] \in 0 .. base - 1
    BY <2>1
  <2> QED
    BY <2>1, <2>2, <2>3 DEF Bounded
<1> HIDE DEF T
<1>3. Nat \subseteq T
    BY <1>1, <1>2, NatInduct
<1> QED
    BY <1>3 DEF T

\* Products and sums stay natural.
LEMMA ProductIs ==
    ASSUME NEW f \in Nat, NEW d \in Nat, NEW c \in Nat
    PROVE  f * d + c \in Nat
OBVIOUS

\* The digits of a number become those of a multiple of it.
Above(V, digits, base) == \A i \in 1 .. Len(digits) : V[i - 1] = digits[i] + base * V[i]
Multiplies(M, V, C, factor, base) ==
    \A i \in 1 .. Len(M) : factor * V[i - 1] + C[i - 1] = M[i] + base * (factor * V[i] + C[i])
\* Multiplying digit by digit with carries multiplies what is above each digit.
LEMMA MultipliedIs ==
    ASSUME NEW base \in Radices, NEW factor \in Radices, NEW first \in Nat,
           NEW digits \in Seq(0 .. base - 1), NEW V \in [0 .. Len(digits) -> Nat],
           Above(V, digits, base), NEW C, C = Carries(digits, factor, base, first)
    PROVE  /\ Carried(C, digits, factor, base, first)
           /\ Multiplied(digits, factor, base, first) \in Seq(0 .. base - 1)
           /\ Len(Multiplied(digits, factor, base, first)) = Len(digits)
           /\ Multiplies(Multiplied(digits, factor, base, first), V, C, factor, base)
<1> DEFINE l == Len(digits)
           M == Multiplied(digits, factor, base, first)
<1>1. l \in Nat /\ digits \in Seq(Nat) /\ base \in Nat /\ factor \in Nat
  <2>1. 0 .. base - 1 \subseteq Nat
    BY SMT DEF Radices
  <2>2. digits \in Seq(Nat)
    BY <2>1, WiderSeq
  <2> QED
    BY <2>1, <2>2, SMT DEF Radices
<1>2. Carried(C, digits, factor, base, first)
    BY <1>1, CarriesAre
<1>3. \A i \in 1 .. l : digits[i] \in Nat
    BY <1>1
<1>4. M = [i \in 1 .. l |-> (factor * digits[i] + C[i - 1]) % base]
    BY DEF Multiplied
<1> HIDE DEF l, M
<1>5. /\ C \in [0 .. l -> Nat]
      /\ \A i \in 1 .. l : C[i] = (factor * digits[i] + C[i - 1]) \div base
    BY <1>2 DEF Carried, l
<1>6. V \in [0 .. l -> Nat] /\ \A i \in 1 .. l : V[i - 1] = digits[i] + base * V[i]
    BY DEF l, Above
<1>7. ASSUME NEW i \in 1 .. l
      PROVE  M[i] \in 0 .. base - 1 /\ factor * V[i - 1] + C[i - 1] = M[i] + base * (factor * V[i] + C[i])
  <2>1. i - 1 \in 0 .. l /\ i \in 0 .. l
    BY <1>1
  <2>2. M[i] = (factor * digits[i] + C[i - 1]) % base /\ C[i] = (factor * digits[i] + C[i - 1]) \div base
    BY <1>4, <1>5
  <2>3. V[i] \in Nat /\ V[i - 1] = digits[i] + base * V[i]
    BY <1>6, <2>1
  <2>4. C[i - 1] \in Nat /\ C[i] \in Nat /\ digits[i] \in Nat
    BY <1>3, <1>5, <2>1
  <2>5. factor * digits[i] + C[i - 1] \in Nat
    BY <1>1, <2>4, ProductIs
  <2>6. M[i] \in 0 .. base - 1
    BY <2>2, <2>5, DivisionIs
  <2>7. factor * (digits[i] + base * V[i]) + C[i - 1]
          = ((factor * digits[i] + C[i - 1]) % base) + base * (factor * V[i] + C[i])
    BY <2>2, <2>3, <2>4, OneDigit, SMTT(40)
  <2> QED
    BY <2>2, <2>3, <2>6, <2>7
<1>8. M \in Seq(0 .. base - 1) /\ Len(M) = l
  <2>1. M = [i \in 1 .. l |-> M[i]]
    BY <1>4
  <2>2. M \in [1 .. l -> 0 .. base - 1]
    BY <1>7, <2>1
  <2> QED
    BY <1>1, <2>2
<1>9. Multiplies(M, V, C, factor, base)
    BY <1>7, <1>8 DEF Multiplies
<1> QED
    BY <1>2, <1>8, <1>9 DEF l, M

\* What is left of a multiple.
LEMMA MultiplesAre ==
    ASSUME NEW factor \in Radices, NEW v \in Nat, NEW c \in Nat
    PROVE  /\ factor * v + c \in Nat
           /\ v # 0 => factor * v + c # 0
           /\ factor * 0 + c = c
<1>1. factor \in Nat /\ factor # 0
    BY DEF Radices
<1>2. factor * v \in Nat /\ (v # 0 => factor * v # 0) /\ factor * 0 = 0
    BY <1>1, SMT
<1> QED
    BY <1>1, <1>2

\* So the multiple stands in them, and the carry is what is left of it.
LEMMA MultipleStands ==
    ASSUME NEW base \in Radices, NEW factor \in Radices, NEW most \in Nat, NEW first \in 0 .. most,
           Bounded(factor, base, most), NEW digits, NEW n \in Nat, Leaves(digits, base, n, 0)
    PROVE  /\ Carries(digits, factor, base, first)[Len(digits)] \in 0 .. most
           /\ Leaves(Multiplied(digits, factor, base, first), base, factor * n + first,
                     Carries(digits, factor, base, first)[Len(digits)])
<1> DEFINE M == Multiplied(digits, factor, base, first)
           C == Carries(digits, factor, base, first)
           l == Len(digits)
<1>1. PICK V : Stages(V, digits, base, n, 0)
    BY DEF Leaves
<1>2. digits \in Seq(0 .. base - 1) /\ l \in Nat /\ first \in Nat
    BY DEF Leaves
<1>3. /\ V \in [0 .. l -> Nat] /\ V[l] = 0 /\ V[0] = n
      /\ \A i \in 1 .. l : V[i - 1] # 0 /\ V[i - 1] = digits[i] + base * V[i]
    BY <1>1 DEF Stages
<1>0. Above(V, digits, base)
    BY <1>3 DEF Above
<1>4. /\ Carried(C, digits, factor, base, first)
      /\ M \in Seq(0 .. base - 1) /\ Len(M) = l
      /\ Multiplies(M, V, C, factor, base)
    BY <1>0, <1>2, <1>3, MultipliedIs
<1>5. \A i \in 0 .. l : C[i] \in 0 .. most
  <2>1. base \in Nat
    BY SMT DEF Radices
  <2> HIDE DEF C
  <2> QED
    BY <1>2, <1>4, <2>1, CarriesBounded
<1> HIDE DEF C
<1>6. C \in [0 .. l -> Nat] /\ C[0] = first
    BY <1>4 DEF Carried
<1> HIDE DEF l, M
<1> DEFINE U == [i \in 0 .. l |-> factor * V[i] + C[i]]
<1>7. \A i \in 0 .. l : U[i] = factor * V[i] + C[i] /\ V[i] \in Nat /\ C[i] \in Nat
    BY <1>3, <1>6
<1>8. U \in [0 .. l -> Nat]
  <2>1. \A i \in 0 .. l : factor * V[i] + C[i] \in Nat
    BY <1>7, MultiplesAre
  <2> QED
    BY <2>1
<1> HIDE DEF U
<1>9. U[0] = factor * n + first /\ U[l] = C[l]
  <2>1. 0 \in 0 .. l /\ l \in 0 .. l
    BY <1>2
  <2>2. U[0] = factor * n + first /\ U[l] = factor * 0 + C[l] /\ C[l] \in Nat
    BY <1>3, <1>6, <1>7, <2>1
  <2>3. factor * 0 + C[l] = C[l]
    BY <1>7, <2>1, <2>2, MultiplesAre
  <2> QED
    BY <2>2, <2>3
<1>10. ASSUME NEW i \in 1 .. l
      PROVE  U[i - 1] # 0 /\ M[i] \in 0 .. base - 1 /\ U[i - 1] = M[i] + base * U[i]
  <2>1. i - 1 \in 0 .. l /\ i \in 0 .. l
    BY <1>2
  <2>2. U[i - 1] = factor * V[i - 1] + C[i - 1] /\ U[i] = factor * V[i] + C[i]
    BY <1>7, <2>1
  <2>3. M[i] \in 0 .. base - 1
    BY <1>4, ElementOfSeq
  <2>4. factor * V[i - 1] + C[i - 1] # 0
    BY <1>3, <1>7, <2>1, MultiplesAre, ZenonT(60)
  <2>5. factor * V[i - 1] + C[i - 1] = M[i] + base * (factor * V[i] + C[i])
    BY <1>4 DEF Multiplies
  <2> QED
    BY <2>2, <2>3, <2>4, <2>5
<1>11. Stages(U, M, base, factor * n + first, C[l])
    BY <1>4, <1>8, <1>9, <1>10 DEF Stages
<1>12. Leaves(M, base, factor * n + first, C[l])
    BY <1>4, <1>11 DEF Leaves
<1>13. C[l] \in 0 .. most
    BY <1>2, <1>5
<1> QED
    BY <1>12, <1>13 DEF l, M, C

\* What is left can be one digit more.
LEMMA OneMore ==
    ASSUME NEW base \in Radices, NEW digits, NEW n, NEW rest, NEW d \in 0 .. base - 1, NEW above \in Nat,
           rest # 0, rest = d + base * above, Leaves(digits, base, n, rest)
    PROVE  Leaves(Append(digits, d), base, n, above)
<1> DEFINE l == Len(digits)
           m == Append(digits, d)
<1>0. PICK V : Stages(V, digits, base, n, rest)
    BY DEF Leaves
<1> DEFINE U == [i \in 0 .. l + 1 |-> IF i = l + 1 THEN above ELSE V[i]]
<1>1. /\ m \in Seq(0 .. base - 1) /\ l \in Nat /\ Len(m) = l + 1
      /\ (\A i \in 1 .. l : m[i] = digits[i]) /\ m[l + 1] = d
    BY AppendProperties DEF Leaves
<1>2. /\ V \in [0 .. l -> Nat] /\ V[0] = n /\ V[l] = rest
      /\ \A i \in 1 .. l : V[i - 1] # 0 /\ digits[i] \in 0 .. base - 1 /\ V[i - 1] = digits[i] + base * V[i]
    BY <1>0 DEF Stages
<1> HIDE DEF l, m
<1>3. /\ U \in [0 .. l + 1 -> Nat] /\ U[0] = n /\ U[l + 1] = above /\ \A i \in 0 .. l : U[i] = V[i]
  <2>1. \A i \in 0 .. l + 1 : i # l + 1 => i \in 0 .. l
    BY <1>1
  <2>2. 0 \in 0 .. l + 1 /\ l + 1 \in 0 .. l + 1 /\ 0 # l + 1 /\ \A i \in 0 .. l : i # l + 1 /\ i \in 0 .. l + 1
    BY <1>1
  <2> QED
    BY <1>2, <2>1, <2>2
<1> HIDE DEF U
<1>4. ASSUME NEW i \in 1 .. l + 1
      PROVE  U[i - 1] # 0 /\ m[i] \in 0 .. base - 1 /\ U[i - 1] = m[i] + base * U[i]
  <2>1. CASE i = l + 1
    <3>1. i - 1 = l /\ l \in 0 .. l
        BY <1>1, <2>1
    <3>2. U[i - 1] = rest /\ m[i] = d /\ U[i] = above
        BY <1>1, <1>2, <1>3, <2>1, <3>1
    <3> QED
        BY <3>2
  <2>2. CASE i # l + 1
    <3>1. i \in 1 .. l /\ i - 1 \in 0 .. l /\ i \in 0 .. l
        BY <1>1, <2>2
    <3>2. U[i - 1] = V[i - 1] /\ U[i] = V[i] /\ m[i] = digits[i]
        BY <1>1, <1>3, <3>1
    <3> QED
        BY <1>2, <3>1, <3>2
  <2> QED
    BY <2>1, <2>2
<1>5. Stages(U, m, base, n, above)
    BY <1>1, <1>3, <1>4 DEF Stages
<1> QED
    BY <1>1, <1>5 DEF m, Leaves

\* The bases and the bounds of the carries, and what they are not looked at for.
ByteBase == 256
TextBase == 58
\* 256 and 58, and the bounds of the carries between them.
LEMMA BasesAre ==
    /\ ByteBase \in Radices /\ TextBase \in Radices /\ ByteBase \in Nat /\ TextBase \in Nat
    /\ ByteBase - 1 \in Nat
    /\ Bounded(TextBase, ByteBase, TextBase) /\ Bounded(ByteBase, TextBase, ByteBase - 1)
<1>1. ByteBase \in Radices /\ TextBase \in Radices
    BY SMT DEF ByteBase, TextBase, Radices
<1>2. ByteBase \in Nat /\ TextBase \in Nat /\ ByteBase - 1 \in Nat
    BY SMT DEF ByteBase, TextBase
<1>3. Bounded(58, 256, 58)
    BY SMT DEF Bounded
<1>4. Bounded(256, 58, 255)
    BY SMT DEF Bounded
<1>5. ByteBase - 1 = 255
    BY SMT DEF ByteBase
<1> QED
    BY <1>1, <1>2, <1>3, <1>4, <1>5, SMT DEF ByteBase, TextBase

\* A character added to bytes multiplies what they stand for by 58.
LEMMA AddDigitStands ==
    ASSUME NEW bytes, NEW n \in Nat, Leaves(bytes, ByteBase, n, 0), NEW digit \in 0 .. TextBase
    PROVE  Leaves(AddDigit(bytes, digit), ByteBase, TextBase * n + digit, 0)
<1> DEFINE M == Multiplied(bytes, TextBase, ByteBase, digit)
           carry == Carries(bytes, TextBase, ByteBase, digit)[Len(bytes)]
           total == TextBase * n + digit
<1>1. carry \in 0 .. TextBase /\ Leaves(M, ByteBase, total, carry)
    BY BasesAre, MultipleStands
<1>2. AddDigit(bytes, digit) = IF carry # 0 THEN Append(M, carry) ELSE M
    BY DEF AddDigit, ByteBase, TextBase
<1> HIDE DEF M, carry, total
<1>3. CASE carry = 0
  <2>1. AddDigit(bytes, digit) = M
    BY <1>2, <1>3
  <2> QED
    BY <1>1, <1>3, <2>1 DEF total
<1>4. CASE carry # 0
  <2>1. carry \in 0 .. ByteBase - 1 /\ carry = carry + ByteBase * 0 /\ 0 \in Nat
    BY <1>1, SMT DEF ByteBase, TextBase
  <2>2. Leaves(Append(M, carry), ByteBase, total, 0)
    BY <1>1, <1>4, <2>1, BasesAre, OneMore
  <2>3. AddDigit(bytes, digit) = Append(M, carry)
    BY <1>2, <1>4
  <2> QED
    BY <2>2, <2>3 DEF total
<1> QED
    BY <1>3, <1>4

\* A byte added to digits multiplies what they stand for by 256.
LEMMA AddByteStands ==
    ASSUME NEW digits, NEW n \in Nat, Leaves(digits, TextBase, n, 0), NEW byte \in 0 .. ByteBase - 1
    PROVE  Leaves(AddByte(digits, byte), TextBase, ByteBase * n + byte, 0)
<1> DEFINE M == Multiplied(digits, ByteBase, TextBase, byte)
           carry == Carries(digits, ByteBase, TextBase, byte)[Len(digits)]
           total == ByteBase * n + byte
<1>1. carry \in 0 .. ByteBase - 1 /\ Leaves(M, TextBase, total, carry)
    BY BasesAre, MultipleStands
<1>2. AddByte(digits, byte) = M \o CarryDigits(carry)
    BY DEF AddByte, ByteBase, TextBase
<1>3. M \in Seq(0 .. TextBase - 1)
    BY <1>1 DEF Leaves
<1> HIDE DEF M, carry, total
<1> SUFFICES Leaves(M \o CarryDigits(carry), TextBase, total, 0)
    BY <1>2 DEF total
<1>4. CASE carry = 0
  <2>1. M \o <<>> = M
    BY <1>3, ConcatEmptySeq
  <2>2. CarryDigits(carry) = <<>>
    BY <1>4 DEF CarryDigits
  <2> QED
    BY <1>1, <1>4, <2>1, <2>2
<1>5. CASE carry # 0 /\ carry < TextBase
  <2>1. carry \in 0 .. TextBase - 1 /\ carry = carry + TextBase * 0 /\ 0 \in Nat
    BY <1>1, <1>5, SMT DEF ByteBase, TextBase
  <2>2. Leaves(Append(M, carry), TextBase, total, 0)
    BY <1>1, <1>5, <2>1, BasesAre, OneMore
  <2>3. M \o <<carry>> = Append(M, carry)
    BY <1>3, <2>1
  <2>4. CarryDigits(carry) = <<carry>>
    BY <1>5 DEF CarryDigits, TextBase
  <2> QED
    BY <2>2, <2>3, <2>4
<1>6. CASE carry >= TextBase
  <2> DEFINE low == carry % TextBase
             high == carry \div TextBase
  <2>1. /\ low \in 0 .. TextBase - 1 /\ high \in 0 .. TextBase - 1
        /\ carry = low + TextBase * high /\ high # 0 /\ high \in Nat
    BY <1>1, <1>6, SMT DEF ByteBase, TextBase
  <2>2. CarryDigits(carry) = <<low, high>>
    BY <1>1, <1>6, SMT DEF CarryDigits, TextBase, ByteBase
  <2> HIDE DEF low, high
  <2>3. carry # 0 /\ high = high + TextBase * 0 /\ 0 \in Nat
    BY <1>6, <2>1, SMT DEF TextBase
  <2>4. Leaves(Append(M, low), TextBase, total, high)
    BY <1>1, <2>1, <2>3, BasesAre, OneMore
  <2>5. Leaves(Append(Append(M, low), high), TextBase, total, 0)
    BY <2>1, <2>3, <2>4, BasesAre, OneMore
  <2>6. M \o <<low, high>> = Append(Append(M, low), high)
    BY <1>3, <2>1
  <2> QED
    BY <2>2, <2>5, <2>6
<1> QED
  <2>1. carry \in Nat /\ TextBase \in Nat
    BY <1>1, BasesAre
  <2> QED
    BY <1>4, <1>5, <1>6, <2>1

\* The sequences of digits that stand for a number.
Numerals(base) == {s \in Seq(0 .. base - 1) : \E n \in Nat : Leaves(s, base, n, 0)}
\* No digits stand for nothing.
LEMMA EmptyNumeral ==
    ASSUME NEW base
    PROVE  Leaves(<<>>, base, 0, 0) /\ <<>> \in Numerals(base)
<1>1. Stages([i \in 0 .. 0 |-> 0], <<>>, base, 0, 0)
    BY DEF Stages
<1>2. Leaves(<<>>, base, 0, 0)
    BY <1>1 DEF Leaves
<1> QED
    BY <1>2 DEF Numerals, Leaves

\* A digit read leaves bytes without a zero at the top.
LEMMA AddDigitNumeral ==
    ASSUME NEW s \in Numerals(ByteBase), NEW d \in 0 .. TextBase
    PROVE  AddDigit(s, d) \in Numerals(ByteBase)
<1>1. PICK n \in Nat : Leaves(s, ByteBase, n, 0)
    BY DEF Numerals
<1>2. Leaves(AddDigit(s, d), ByteBase, TextBase * n + d, 0)
    BY <1>1, AddDigitStands
<1>3. TextBase * n + d \in Nat
    BY BasesAre, ProductIs
<1> QED
    BY <1>2, <1>3 DEF Numerals, Leaves

\* A byte read leaves digits without a zero at the top.
LEMMA AddByteNumeral ==
    ASSUME NEW s \in Numerals(TextBase), NEW d \in 0 .. ByteBase - 1
    PROVE  AddByte(s, d) \in Numerals(TextBase)
<1>1. PICK n \in Nat : Leaves(s, TextBase, n, 0)
    BY DEF Numerals
<1>2. Leaves(AddByte(s, d), TextBase, ByteBase * n + d, 0)
    BY <1>1, AddByteStands
<1>3. ByteBase * n + d \in Nat
    BY BasesAre, ProductIs
<1> QED
    BY <1>2, <1>3 DEF Numerals, Leaves

\* Of the characters read so far, the bytes.
BytesUpTo(g, written) ==
    /\ g \in [0 .. Len(written) -> Numerals(ByteBase)]
    /\ g[0] = <<>>
    /\ \A i \in 1 .. Len(written) : g[i] = AddDigit(g[i - 1], written[i])
\* The bytes of all digits up to each one.
LEMMA BytesAre ==
    ASSUME NEW written \in Seq(0 .. TextBase)
    PROVE  \E g : BytesUpTo(g, written) /\ BytesOf(written) = g[Len(written)]
<1> DEFINE n == Len(written)
           D(k) == IF k \in 1 .. n THEN written[k] ELSE 0
           Body(x, d) == AddDigit(x, d)
           Then(k, x) == Body(x, D(k))
           step == [k \in Nat |-> [x \in Numerals(ByteBase) |-> Then(k, x)]]
           G == CHOOSE g : g = [i \in 0 .. n |-> IF i = 0 THEN <<>> ELSE Body(g[i - 1], written[i])]
<1>1. n \in Nat /\ (\A k \in Nat : D(k) \in (0 .. TextBase)) /\ 0 \in (0 .. TextBase)
    BY BasesAre
<1>2. <<>> \in Numerals(ByteBase)
    BY EmptyNumeral
<1>0. ASSUME NEW x \in Numerals(ByteBase), NEW d \in (0 .. TextBase) PROVE Body(x, d) \in Numerals(ByteBase)
    BY AddDigitNumeral
<1> HIDE DEF Body
<1>3. \A k \in Nat, x \in Numerals(ByteBase) : Then(k, x) \in Numerals(ByteBase)
  <2> SUFFICES ASSUME NEW k \in Nat, NEW x \in Numerals(ByteBase) PROVE Then(k, x) \in Numerals(ByteBase)
    OBVIOUS
  <2>1. D(k) \in (0 .. TextBase)
    BY <1>1
  <2> HIDE DEF D
  <2> QED
    BY <1>0, <2>1
<1>4. step \in [Nat -> [Numerals(ByteBase) -> Numerals(ByteBase)]]
  <2> HIDE DEF Then
  <2> QED
    BY <1>3
<1> HIDE DEF n
<1>5. PICK f \in [0 .. n -> Numerals(ByteBase)] : Recursion(f, n, <<>>, step)
  <2> HIDE DEF step
  <2> QED
    BY <1>1, <1>2, <1>4, RecursionExists
<1>6. f = [i \in 0 .. n |-> IF i = 0 THEN <<>> ELSE Body(f[i - 1], written[i])]
  <2>1. ASSUME NEW k \in 0 .. n
        PROVE  f[k] = IF k = 0 THEN <<>> ELSE Body(f[k - 1], written[k])
    <3>1. CASE k = 0
        BY <1>5, <3>1 DEF Recursion
    <3>2. CASE k # 0
      <4>1. f[k - 1] \in Numerals(ByteBase) /\ k \in Nat /\ k \in 1 .. n
        BY <1>1, <3>2
      <4>2. step[k][f[k - 1]] = Body(f[k - 1], written[k])
        BY <4>1
      <4> HIDE DEF step
      <4> QED
        BY <1>5, <3>2, <4>2 DEF Recursion
    <3> QED
        BY <3>1, <3>2
  <2>2. f = [k \in 0 .. n |-> f[k]]
    OBVIOUS
  <2> QED
    BY <2>1, <2>2
<1>7. G = [i \in 0 .. n |-> IF i = 0 THEN <<>> ELSE Body(G[i - 1], written[i])]
  <2>1. G = CHOOSE g : g = [i \in 0 .. n |-> IF i = 0 THEN <<>> ELSE Body(g[i - 1], written[i])]
    OBVIOUS
  <2> HIDE DEF G
  <2> QED
    BY <1>6, <2>1, Zenon
<1>8. BytesOf(written) = G[n]
    BY DEF BytesOf, n, Body
<1> HIDE DEF G
<1>9. G[0] = <<>> /\ \A k \in 1 .. n : G[k] = Body(G[k - 1], written[k])
    BY <1>1, <1>7
<1>10. G \in [0 .. n -> Numerals(ByteBase)]
  <2> DEFINE T == {k \in Nat : k <= n => G[k] \in Numerals(ByteBase)}
  <2>1. 0 \in T
    BY <1>2, <1>9
  <2>2. ASSUME NEW k \in Nat, k \in T PROVE k + 1 \in T
    <3> SUFFICES ASSUME k + 1 <= n PROVE G[k + 1] \in Numerals(ByteBase)
        OBVIOUS
    <3>1. k + 1 \in Nat /\ k + 1 \in 1 .. n /\ G[k] \in Numerals(ByteBase) /\ (k + 1) - 1 = k
        BY <1>1, <2>2
    <3>2. G[k + 1] = Body(G[k], written[k + 1])
        BY <1>9, <3>1
    <3>3. Then(k + 1, G[k]) = Body(G[k], written[k + 1])
        BY <3>1
    <3> HIDE DEF Then
    <3>4. Then(k + 1, G[k]) \in Numerals(ByteBase)
        BY <1>3, <3>1
    <3> QED
        BY <3>2, <3>3, <3>4
  <2> HIDE DEF T
  <2>3. Nat \subseteq T
    BY <2>1, <2>2, NatInduct
  <2>4. \A k \in 0 .. n : G[k] \in Numerals(ByteBase)
    BY <1>1, <2>3 DEF T
  <2> QED
    BY <1>7, <2>4
<1>11. BytesUpTo(G, written)
    BY <1>9, <1>10 DEF n, Body, BytesUpTo
<1> QED
    BY <1>8, <1>11 DEF n

\* Of the bytes written so far, the digits.
DigitsUpTo(g, bytes) ==
    /\ g \in [0 .. Len(bytes) -> Numerals(TextBase)]
    /\ g[0] = <<>>
    /\ \A i \in 1 .. Len(bytes) : g[i] = AddByte(g[i - 1], bytes[i])
\* The digits of all bytes up to each one.
LEMMA DigitsAre ==
    ASSUME NEW bytes \in Seq(0 .. ByteBase - 1)
    PROVE  \E g : DigitsUpTo(g, bytes) /\ DigitsOfBytes(bytes) = g[Len(bytes)]
<1> DEFINE n == Len(bytes)
           D(k) == IF k \in 1 .. n THEN bytes[k] ELSE 0
           Body(x, d) == AddByte(x, d)
           Then(k, x) == Body(x, D(k))
           step == [k \in Nat |-> [x \in Numerals(TextBase) |-> Then(k, x)]]
           G == CHOOSE g : g = [i \in 0 .. n |-> IF i = 0 THEN <<>> ELSE Body(g[i - 1], bytes[i])]
<1>1. n \in Nat /\ (\A k \in Nat : D(k) \in (0 .. ByteBase - 1)) /\ 0 \in (0 .. ByteBase - 1)
    BY BasesAre
<1>2. <<>> \in Numerals(TextBase)
    BY EmptyNumeral
<1>0. ASSUME NEW x \in Numerals(TextBase), NEW d \in (0 .. ByteBase - 1) PROVE Body(x, d) \in Numerals(TextBase)
    BY AddByteNumeral
<1> HIDE DEF Body
<1>3. \A k \in Nat, x \in Numerals(TextBase) : Then(k, x) \in Numerals(TextBase)
  <2> SUFFICES ASSUME NEW k \in Nat, NEW x \in Numerals(TextBase) PROVE Then(k, x) \in Numerals(TextBase)
    OBVIOUS
  <2>1. D(k) \in (0 .. ByteBase - 1)
    BY <1>1
  <2> HIDE DEF D
  <2> QED
    BY <1>0, <2>1
<1>4. step \in [Nat -> [Numerals(TextBase) -> Numerals(TextBase)]]
  <2> HIDE DEF Then
  <2> QED
    BY <1>3
<1> HIDE DEF n
<1>5. PICK f \in [0 .. n -> Numerals(TextBase)] : Recursion(f, n, <<>>, step)
  <2> HIDE DEF step
  <2> QED
    BY <1>1, <1>2, <1>4, RecursionExists
<1>6. f = [i \in 0 .. n |-> IF i = 0 THEN <<>> ELSE Body(f[i - 1], bytes[i])]
  <2>1. ASSUME NEW k \in 0 .. n
        PROVE  f[k] = IF k = 0 THEN <<>> ELSE Body(f[k - 1], bytes[k])
    <3>1. CASE k = 0
        BY <1>5, <3>1 DEF Recursion
    <3>2. CASE k # 0
      <4>1. f[k - 1] \in Numerals(TextBase) /\ k \in Nat /\ k \in 1 .. n
        BY <1>1, <3>2
      <4>2. step[k][f[k - 1]] = Body(f[k - 1], bytes[k])
        BY <4>1
      <4> HIDE DEF step
      <4> QED
        BY <1>5, <3>2, <4>2 DEF Recursion
    <3> QED
        BY <3>1, <3>2
  <2>2. f = [k \in 0 .. n |-> f[k]]
    OBVIOUS
  <2> QED
    BY <2>1, <2>2
<1>7. G = [i \in 0 .. n |-> IF i = 0 THEN <<>> ELSE Body(G[i - 1], bytes[i])]
  <2>1. G = CHOOSE g : g = [i \in 0 .. n |-> IF i = 0 THEN <<>> ELSE Body(g[i - 1], bytes[i])]
    OBVIOUS
  <2> HIDE DEF G
  <2> QED
    BY <1>6, <2>1, Zenon
<1>8. DigitsOfBytes(bytes) = G[n]
    BY DEF DigitsOfBytes, n, Body
<1> HIDE DEF G
<1>9. G[0] = <<>> /\ \A k \in 1 .. n : G[k] = Body(G[k - 1], bytes[k])
    BY <1>1, <1>7
<1>10. G \in [0 .. n -> Numerals(TextBase)]
  <2> DEFINE T == {k \in Nat : k <= n => G[k] \in Numerals(TextBase)}
  <2>1. 0 \in T
    BY <1>2, <1>9
  <2>2. ASSUME NEW k \in Nat, k \in T PROVE k + 1 \in T
    <3> SUFFICES ASSUME k + 1 <= n PROVE G[k + 1] \in Numerals(TextBase)
        OBVIOUS
    <3>1. k + 1 \in Nat /\ k + 1 \in 1 .. n /\ G[k] \in Numerals(TextBase) /\ (k + 1) - 1 = k
        BY <1>1, <2>2
    <3>2. G[k + 1] = Body(G[k], bytes[k + 1])
        BY <1>9, <3>1
    <3>3. Then(k + 1, G[k]) = Body(G[k], bytes[k + 1])
        BY <3>1
    <3> HIDE DEF Then
    <3>4. Then(k + 1, G[k]) \in Numerals(TextBase)
        BY <1>3, <3>1
    <3> QED
        BY <3>2, <3>3, <3>4
  <2> HIDE DEF T
  <2>3. Nat \subseteq T
    BY <2>1, <2>2, NatInduct
  <2>4. \A k \in 0 .. n : G[k] \in Numerals(TextBase)
    BY <1>1, <2>3 DEF T
  <2> QED
    BY <1>7, <2>4
<1>11. DigitsUpTo(G, bytes)
    BY <1>9, <1>10 DEF n, Body, DigitsUpTo
<1> QED
    BY <1>8, <1>11 DEF n

\* They stand for the number that the characters are.
LEMMA BytesStand ==
    ASSUME NEW written \in Seq(0 .. TextBase)
    PROVE  Leaves(BytesOf(written), ByteBase, Numbers(written, TextBase)[Len(written)], 0)
<1> DEFINE N == Numbers(written, TextBase)
<1>1. PICK g : BytesUpTo(g, written) /\ BytesOf(written) = g[Len(written)]
    BY BytesAre
<1>2. Counts(N, written, TextBase) /\ Len(written) \in Nat
  <2>1. 0 .. TextBase \subseteq Nat
    BY BasesAre
  <2>2. written \in Seq(Nat)
    BY <2>1, WiderSeq
  <2> QED
    BY <2>2, BasesAre, NumbersAre
<1> HIDE DEF N
<1> DEFINE T == {k \in Nat : k <= Len(written) => Leaves(g[k], ByteBase, N[k], 0)}
<1>3. 0 \in T
    BY <1>1, <1>2, EmptyNumeral DEF BytesUpTo, Counts
<1>4. ASSUME NEW k \in Nat, k \in T PROVE k + 1 \in T
  <2> SUFFICES ASSUME k + 1 <= Len(written) PROVE Leaves(g[k + 1], ByteBase, N[k + 1], 0)
    OBVIOUS
  <2>1. k + 1 \in 1 .. Len(written) /\ (k + 1) - 1 = k /\ k \in 0 .. Len(written) /\ Leaves(g[k], ByteBase, N[k], 0)
    BY <1>2, <1>4
  <2>2. g[k + 1] = AddDigit(g[k], written[k + 1])
    BY <1>1, <2>1 DEF BytesUpTo
  <2>3. N[k + 1] = TextBase * N[k] + written[k + 1] /\ N[k] \in Nat
    BY <1>2, <2>1 DEF Counts
  <2>4. written[k + 1] \in 0 .. TextBase
    BY <2>1, ElementOfSeq
  <2> QED
    BY <2>1, <2>2, <2>3, <2>4, AddDigitStands
<1> HIDE DEF T
<1>5. Nat \subseteq T
    BY <1>3, <1>4, NatInduct
<1> QED
    BY <1>1, <1>2, <1>5 DEF T, N

\* So do the digits that are written for bytes.
LEMMA DigitsStand ==
    ASSUME NEW bytes \in Seq(0 .. ByteBase - 1)
    PROVE  Leaves(DigitsOfBytes(bytes), TextBase, Numbers(bytes, ByteBase)[Len(bytes)], 0)
<1> DEFINE N == Numbers(bytes, ByteBase)
<1>1. PICK g : DigitsUpTo(g, bytes) /\ DigitsOfBytes(bytes) = g[Len(bytes)]
    BY DigitsAre
<1>2. Counts(N, bytes, ByteBase) /\ Len(bytes) \in Nat
  <2>1. 0 .. ByteBase - 1 \subseteq Nat
    BY BasesAre
  <2>2. bytes \in Seq(Nat)
    BY <2>1, WiderSeq
  <2> QED
    BY <2>2, BasesAre, NumbersAre
<1> HIDE DEF N
<1> DEFINE T == {k \in Nat : k <= Len(bytes) => Leaves(g[k], TextBase, N[k], 0)}
<1>3. 0 \in T
    BY <1>1, <1>2, EmptyNumeral DEF DigitsUpTo, Counts
<1>4. ASSUME NEW k \in Nat, k \in T PROVE k + 1 \in T
  <2> SUFFICES ASSUME k + 1 <= Len(bytes) PROVE Leaves(g[k + 1], TextBase, N[k + 1], 0)
    OBVIOUS
  <2>1. k + 1 \in 1 .. Len(bytes) /\ (k + 1) - 1 = k /\ k \in 0 .. Len(bytes) /\ Leaves(g[k], TextBase, N[k], 0)
    BY <1>2, <1>4
  <2>2. g[k + 1] = AddByte(g[k], bytes[k + 1])
    BY <1>1, <2>1 DEF DigitsUpTo
  <2>3. N[k + 1] = ByteBase * N[k] + bytes[k + 1] /\ N[k] \in Nat
    BY <1>2, <2>1 DEF Counts
  <2>4. bytes[k + 1] \in 0 .. ByteBase - 1
    BY <2>1, ElementOfSeq
  <2> QED
    BY <2>1, <2>2, <2>3, <2>4, AddByteStands
<1> HIDE DEF T
<1>5. Nat \subseteq T
    BY <1>3, <1>4, NatInduct
<1> QED
    BY <1>1, <1>2, <1>5 DEF T, N

\* A function on 1 .. n is a sequence.
LEMMA IsSequence ==
    ASSUME NEW S, NEW n \in Nat, NEW f \in [1 .. n -> S]
    PROVE  f \in Seq(S) /\ Len(f) = n
OBVIOUS

\* The zeros in front of digits end at the first that is none.
IsLeading(n, s) == (\A i \in 1 .. n : s[i] = 0) /\ (n < Len(s) => s[n + 1] # 0)
\* There is one such number.
LEMMA LeadingUnique ==
    ASSUME NEW s, Len(s) \in Nat, NEW n \in 0 .. Len(s), NEW m \in 0 .. Len(s),
           IsLeading(n, s), IsLeading(m, s)
    PROVE  n = m
<1>1. n < m => FALSE
  <2> SUFFICES ASSUME n < m PROVE FALSE
    OBVIOUS
  <2>1. n + 1 \in 1 .. m /\ n < Len(s)
    OBVIOUS
  <2> QED
    BY <2>1 DEF IsLeading
<1>2. m < n => FALSE
  <2> SUFFICES ASSUME m < n PROVE FALSE
    OBVIOUS
  <2>1. m + 1 \in 1 .. n /\ m < Len(s)
    OBVIOUS
  <2> QED
    BY <2>1 DEF IsLeading
<1> QED
    BY <1>1, <1>2

\* The zeros in front are counted.
LEMMA LeadingIs ==
    ASSUME NEW s, Len(s) \in Nat
    PROVE  LeadingZeros(s) \in 0 .. Len(s) /\ IsLeading(LeadingZeros(s), s)
<1> DEFINE T == {k \in Nat : k <= Len(s) => (\A i \in 1 .. k : s[i] = 0) \/ (\E n \in 0 .. Len(s) : IsLeading(n, s))}
<1>1. 0 \in T
    OBVIOUS
<1>2. ASSUME NEW k \in Nat, k \in T PROVE k + 1 \in T
  <2> SUFFICES ASSUME k + 1 <= Len(s), ~ \E n \in 0 .. Len(s) : IsLeading(n, s)
               PROVE  \A i \in 1 .. k + 1 : s[i] = 0
    OBVIOUS
  <2>1. (\A i \in 1 .. k : s[i] = 0) /\ k \in 0 .. Len(s) /\ k < Len(s)
    BY <1>2
  <2>2. s[k + 1] = 0
    BY <2>1 DEF IsLeading
  <2>3. \A i \in 1 .. k + 1 : i \in 1 .. k \/ i = k + 1
    OBVIOUS
  <2> QED
    BY <2>1, <2>2, <2>3
<1> HIDE DEF T
<1>3. Nat \subseteq T
    BY <1>1, <1>2, NatInduct
<1>4. \E n \in 0 .. Len(s) : IsLeading(n, s)
  <2>1. CASE \A i \in 1 .. Len(s) : s[i] = 0
    <3>1. IsLeading(Len(s), s) /\ Len(s) \in 0 .. Len(s)
        BY <2>1 DEF IsLeading
    <3> QED
        BY <3>1
  <2> QED
    BY <1>3, <2>1 DEF T
<1>5. LeadingZeros(s) = CHOOSE n \in 0 .. Len(s) : IsLeading(n, s)
    BY DEF LeadingZeros, IsLeading
<1> QED
    BY <1>4, <1>5

\* The digits behind these zeros, the lowest first.
Significant(s) == [i \in 1 .. Len(s) - LeadingZeros(s) |-> s[Len(s) + 1 - i]]
\* Without the zeros in front digits stand for the same number.
LEMMA SignificantStand ==
    ASSUME NEW base \in Radices, NEW s \in Seq(0 .. base - 1)
    PROVE  Leaves(Significant(s), base, Numbers(s, base)[Len(s)], 0)
<1> DEFINE N == Numbers(s, base)
           l == Len(s)
           z == LeadingZeros(s)
           H == Significant(s)
<1>1. Counts(N, s, base) /\ l \in Nat /\ base \in Nat
  <2>1. base \in Nat /\ 0 .. base - 1 \subseteq Nat
    BY SMT DEF Radices
  <2>2. s \in Seq(Nat)
    BY <2>1, WiderSeq
  <2> QED
    BY <2>1, <2>2, NumbersAre
<1>2. z \in 0 .. l /\ IsLeading(z, s)
    BY <1>1, LeadingIs
<1>3. H = [i \in 1 .. l - z |-> s[l + 1 - i]]
    BY DEF Significant
<1>4. \A i \in 1 .. l : s[i] \in 0 .. base - 1
    BY ElementOfSeq
<1>5. N \in [0 .. l -> Nat] /\ N[0] = 0 /\ \A i \in 1 .. l : N[i] = base * N[i - 1] + s[i]
    BY <1>1 DEF Counts
<1>6. (\A i \in 1 .. z : s[i] = 0) /\ (z < l => s[z + 1] # 0)
    BY <1>2 DEF IsLeading
<1> HIDE DEF N, l, z, H
<1>7. N[z] = 0
  <2> DEFINE T == {k \in Nat : k <= z => N[k] = 0}
  <2>1. 0 \in T
    BY <1>5
  <2>2. ASSUME NEW k \in Nat, k \in T PROVE k + 1 \in T
    <3> SUFFICES ASSUME k + 1 <= z PROVE N[k + 1] = 0
        OBVIOUS
    <3>1. k + 1 \in 1 .. l /\ k + 1 \in 1 .. z /\ (k + 1) - 1 = k /\ N[k] = 0
        BY <1>1, <1>2, <2>2
    <3>2. N[k + 1] = base * 0 + 0
        BY <1>5, <1>6, <3>1
    <3> QED
        BY <1>1, <3>2
  <2> HIDE DEF T
  <2>3. Nat \subseteq T
    BY <2>1, <2>2, NatInduct
  <2> QED
    BY <1>2, <2>3 DEF T
<1>8. \A k \in 1 .. l : k > z => N[k] # 0
  <2> DEFINE T == {k \in Nat : z < k /\ k <= l => N[k] # 0}
  <2>1. 0 \in T
    BY <1>2
  <2>2. ASSUME NEW k \in Nat, k \in T PROVE k + 1 \in T
    <3> SUFFICES ASSUME z < k + 1, k + 1 <= l PROVE N[k + 1] # 0
        OBVIOUS
    <3>1. k + 1 \in 1 .. l /\ (k + 1) - 1 = k /\ k \in 0 .. l
        BY <1>1, <2>2
    <3>2. N[k + 1] = base * N[k] + s[k + 1] /\ N[k] \in Nat /\ s[k + 1] \in Nat
        BY <1>4, <1>5, <3>1
    <3>3. CASE z = k
        BY <1>1, <1>6, <1>7, <3>2, <3>3, MultiplesAre
    <3>4. CASE z # k
        <4>1. N[k] # 0
            BY <1>2, <2>2, <3>1, <3>4
        <4> QED
            BY <3>2, <4>1, MultiplesAre
    <3> QED
        BY <3>3, <3>4
  <2> HIDE DEF T
  <2>3. Nat \subseteq T
    BY <2>1, <2>2, NatInduct
  <2> QED
    BY <1>1, <2>3 DEF T
<1> DEFINE V == [i \in 0 .. l - z |-> N[l - i]]
<1>9. l - z \in Nat /\ H \in Seq(0 .. base - 1) /\ Len(H) = l - z
  <2>1. \A i \in 1 .. l - z : l + 1 - i \in 1 .. l
    BY <1>1, <1>2
  <2>2. l - z \in Nat
    BY <1>1, <1>2
  <2>3. H \in [1 .. l - z -> 0 .. base - 1]
    BY <1>3, <1>4, <2>1
  <2> QED
    BY <2>2, <2>3, IsSequence
<1>10. V \in [0 .. l - z -> Nat] /\ V[0] = N[l] /\ V[l - z] = 0
  <2>1. \A i \in 0 .. l - z : l - i \in 0 .. l
    BY <1>1, <1>2
  <2>2. 0 \in 0 .. l - z /\ l - z \in 0 .. l - z /\ l - (l - z) = z /\ l - 0 = l
    BY <1>1, <1>2
  <2> QED
    BY <1>5, <1>7, <2>1, <2>2
<1>11. ASSUME NEW i \in 1 .. l - z
       PROVE  V[i - 1] # 0 /\ H[i] \in 0 .. base - 1 /\ V[i - 1] = H[i] + base * V[i]
  <2> DEFINE k == l + 1 - i
  <2>1. k \in 1 .. l /\ k > z /\ l - (i - 1) = k /\ l - i = k - 1 /\ i - 1 \in 0 .. l - z /\ i \in 0 .. l - z
    BY <1>1, <1>2
  <2>2. H[i] = s[k]
    BY <1>3
  <2> HIDE DEF k
  <2>3. V[i - 1] = N[k] /\ V[i] = N[k - 1]
    BY <2>1
  <2>4. N[k] = base * N[k - 1] + s[k] /\ N[k] # 0 /\ s[k] \in 0 .. base - 1
    BY <1>4, <1>5, <1>8, <2>1
  <2>5. k - 1 \in 0 .. l /\ N[k - 1] \in Nat /\ s[k] \in Nat
    BY <1>1, <1>5, <2>1, <2>4
  <2>6. base * N[k - 1] + s[k] = s[k] + base * N[k - 1]
    BY <1>1, <2>5
  <2> QED
    BY <2>2, <2>3, <2>4, <2>6
<1> HIDE DEF V
<1>12. Stages(V, H, base, N[l], 0)
    BY <1>9, <1>10, <1>11 DEF Stages
<1> QED
    BY <1>9, <1>12 DEF Leaves, H, N, l

\* Digits behind zeros are digits of the number, as many zeros as there are.
Written(z, digits) == Zeros(z) \o Reverse(digits)
\* Zeros and digits can be told apart again.
LEMMA WrittenIs ==
    ASSUME NEW base \in Radices, NEW n, NEW digits, Leaves(digits, base, n, 0), NEW z \in Nat
    PROVE  /\ Written(z, digits) \in Seq(0 .. base - 1)
           /\ LeadingZeros(Written(z, digits)) = z
           /\ Significant(Written(z, digits)) = digits
<1> DEFINE l == Len(digits)
           A1 == Zeros(z)
           B1 == Reverse(digits)
           s == Written(z, digits)
<1>1. PICK V : Stages(V, digits, base, n, 0)
    BY DEF Leaves
<1>2. digits \in Seq(0 .. base - 1) /\ l \in Nat /\ base \in Nat /\ base > 0
    BY SMT DEF Leaves, Radices
<1>3. A1 \in Seq(0 .. base - 1) /\ Len(A1) = z /\ \A i \in 1 .. z : A1[i] = 0
  <2>1. Zeros(z) \in [1 .. z -> 0 .. base - 1]
    BY <1>2 DEF Zeros
  <2> QED
    BY <2>1, IsSequence DEF Zeros
<1>4. B1 \in Seq(0 .. base - 1) /\ Len(B1) = l /\ \A i \in 1 .. l : B1[i] = digits[(l - i) + 1]
  <2>1. \A i \in 1 .. l : (l - i) + 1 \in 1 .. l /\ digits[(l - i) + 1] \in 0 .. base - 1
    BY <1>2, ElementOfSeq
  <2>2. B1 \in [1 .. l -> 0 .. base - 1]
    BY <2>1 DEF Reverse
  <2> QED
    BY <1>2, <2>2, IsSequence DEF Reverse
<1>5. s = A1 \o B1
    BY DEF Written
<1>6. l > 0 => digits[l] # 0
  <2> SUFFICES ASSUME l > 0 PROVE digits[l] # 0
    OBVIOUS
  <2>1. l \in 1 .. l
    BY <1>2
  <2>2. V[l - 1] # 0 /\ V[l - 1] = digits[l] + base * V[l] /\ V[l] = 0
    BY <1>1, <2>1 DEF Stages
  <2>3. base * 0 = 0 /\ digits[l] \in Nat
    BY <1>2, <2>1, ElementOfSeq
  <2> QED
    BY <2>2, <2>3
<1> HIDE DEF A1, B1, l, s
<1>7. /\ s \in Seq(0 .. base - 1) /\ Len(s) = z + l
      /\ \A i \in 1 .. z + l : s[i] = IF i <= z THEN 0 ELSE digits[(l - (i - z)) + 1]
  <2>1. /\ s \in Seq(0 .. base - 1) /\ Len(s) = z + l
        /\ \A i \in 1 .. z + l : s[i] = IF i <= z THEN A1[i] ELSE B1[i - z]
    BY <1>3, <1>4, <1>5, ConcatProperties
  <2>2. ASSUME NEW i \in 1 .. z + l
        PROVE  (IF i <= z THEN A1[i] ELSE B1[i - z]) = IF i <= z THEN 0 ELSE digits[(l - (i - z)) + 1]
    <3>1. i <= z => i \in 1 .. z
        OBVIOUS
    <3>2. ~(i <= z) => i - z \in 1 .. l
        BY <1>2
    <3> QED
        BY <1>3, <1>4, <3>1, <3>2
  <2> QED
    BY <2>1, <2>2
<1>8. Len(s) \in Nat /\ z \in 0 .. Len(s) /\ IsLeading(z, s)
  <2>1. Len(s) \in Nat /\ z \in 0 .. Len(s)
    BY <1>2, <1>7
  <2>2. \A i \in 1 .. z : s[i] = 0
    BY <1>2, <1>7
  <2>3. z < Len(s) => s[z + 1] # 0
    <3> SUFFICES ASSUME z < Len(s) PROVE s[z + 1] # 0
        OBVIOUS
    <3>1. z + 1 \in 1 .. z + l /\ ~(z + 1 <= z) /\ (l - ((z + 1) - z)) + 1 = l /\ l > 0
        BY <1>2, <1>7
    <3>2. s[z + 1] = digits[(l - ((z + 1) - z)) + 1]
        BY <1>7, <3>1
    <3> QED
        BY <1>6, <3>1, <3>2
  <2> QED
    BY <2>1, <2>2, <2>3 DEF IsLeading
<1>9. LeadingZeros(s) = z
    BY <1>8, LeadingIs, LeadingUnique
<1>10. Significant(s) = [i \in 1 .. (z + l) - z |-> s[(z + l) + 1 - i]]
    BY <1>7, <1>9 DEF Significant
<1>11. (z + l) - z = l
    BY <1>2
<1>12. Significant(s) = [i \in 1 .. l |-> digits[i]]
  <2>1. ASSUME NEW i \in 1 .. l PROVE s[(z + l) + 1 - i] = digits[i]
    <3> DEFINE j == (z + l) + 1 - i
    <3>1. j \in 1 .. z + l /\ ~(j <= z) /\ (l - (j - z)) + 1 = i
        BY <1>2
    <3> HIDE DEF j
    <3>2. s[j] = digits[i]
        BY <1>7, <3>1
    <3> QED
        BY <3>2 DEF j
  <2> QED
    BY <1>10, <1>11, <2>1
<1>13. digits = [i \in 1 .. l |-> digits[i]]
    BY <1>2 DEF l
<1> QED
    BY <1>7, <1>9, <1>12, <1>13 DEF s

\* And put together again.
LEMMA WrittenAgain ==
    ASSUME NEW base \in Radices, NEW s \in Seq(0 .. base - 1)
    PROVE  Written(LeadingZeros(s), Significant(s)) = s
<1> DEFINE l == Len(s)
           z == LeadingZeros(s)
           H == Significant(s)
           A1 == Zeros(z)
           B1 == Reverse(H)
<1>1. l \in Nat /\ z \in 0 .. l /\ \A i \in 1 .. z : s[i] = 0
  <2>1. l \in Nat
    OBVIOUS
  <2> QED
    BY <2>1, LeadingIs DEF IsLeading
<1>2. base \in Nat /\ base > 0
    BY SMT DEF Radices
<1>3. H = [i \in 1 .. l - z |-> s[l + 1 - i]]
    BY DEF Significant
<1>4. \A i \in 1 .. l : s[i] \in 0 .. base - 1
    BY ElementOfSeq
<1> HIDE DEF l, z, H
<1>5. l - z \in Nat /\ \A i \in 1 .. l - z : l + 1 - i \in 1 .. l
    BY <1>1
<1>6. H \in Seq(0 .. base - 1) /\ Len(H) = l - z
  <2>1. H \in [1 .. l - z -> 0 .. base - 1]
    BY <1>3, <1>4, <1>5
  <2> QED
    BY <1>5, <2>1, IsSequence
<1>7. A1 \in Seq(0 .. base - 1) /\ Len(A1) = z /\ \A i \in 1 .. z : A1[i] = 0
  <2>1. Zeros(z) \in [1 .. z -> 0 .. base - 1] /\ z \in Nat
    BY <1>1, <1>2 DEF Zeros
  <2> QED
    BY <2>1, IsSequence DEF Zeros
<1>8. B1 = [i \in 1 .. l - z |-> H[((l - z) - i) + 1]]
    BY <1>6 DEF Reverse
<1> HIDE DEF A1, B1
<1>9. \A i \in 1 .. l - z : B1[i] = s[z + i]
  <2> SUFFICES ASSUME NEW i \in 1 .. l - z PROVE B1[i] = s[z + i]
    OBVIOUS
  <2> DEFINE j == ((l - z) - i) + 1
  <2>1. j \in 1 .. l - z /\ l + 1 - j = z + i
    BY <1>1
  <2>2. B1[i] = H[j]
    BY <1>8
  <2> HIDE DEF j
  <2> QED
    BY <1>3, <2>1, <2>2
<1>10. B1 \in Seq(0 .. base - 1) /\ Len(B1) = l - z
  <2>1. \A i \in 1 .. l - z : z + i \in 1 .. l
    BY <1>1
  <2>2. B1 \in [1 .. l - z -> 0 .. base - 1]
    BY <1>4, <1>8, <1>9, <2>1
  <2> QED
    BY <1>5, <2>2, IsSequence
<1>11. /\ A1 \o B1 \in Seq(0 .. base - 1) /\ Len(A1 \o B1) = z + (l - z)
       /\ \A i \in 1 .. z + (l - z) : (A1 \o B1)[i] = IF i <= z THEN A1[i] ELSE B1[i - z]
  <2>1. /\ A1 \o B1 \in Seq(0 .. base - 1) /\ Len(A1 \o B1) = Len(A1) + Len(B1)
        /\ \A i \in 1 .. Len(A1) + Len(B1) : (A1 \o B1)[i] = IF i <= Len(A1) THEN A1[i] ELSE B1[i - Len(A1)]
    BY <1>7, <1>10, ConcatProperties
  <2> QED
    BY <1>7, <1>10, <2>1
<1>12. z + (l - z) = l
    BY <1>1
<1>13. ASSUME NEW i \in 1 .. l PROVE (A1 \o B1)[i] = s[i]
  <2>1. CASE i <= z
    <3>1. i \in 1 .. z
        BY <2>1
    <3> QED
        BY <1>1, <1>7, <1>11, <1>12, <2>1, <3>1
  <2>2. CASE ~(i <= z)
    <3>1. i - z \in 1 .. l - z /\ z + (i - z) = i
        BY <1>1, <2>2
    <3> QED
        BY <1>9, <1>11, <1>12, <2>2, <3>1
  <2> QED
    BY <2>1, <2>2
<1>14. A1 \o B1 = s
  <2> DEFINE AB == A1 \o B1
  <2>1. AB \in Seq(0 .. base - 1) /\ Len(AB) = Len(s) /\ \A i \in 1 .. Len(AB) : AB[i] = s[i]
    BY <1>11, <1>12, <1>13 DEF l
  <2> HIDE DEF AB
  <2>2. AB = s
    BY <2>1, SeqEqual
  <2> QED
    BY <2>2 DEF AB
<1> QED
    BY <1>14 DEF A1, B1, Written, z, H

\* What is written in the other base, and again in the first, is what it was.
LEMMA BasesAgree ==
    ASSUME NEW base \in Radices, NEW other \in Radices, NEW s \in Seq(0 .. base - 1),
           NEW t, Leaves(t, other, Numbers(s, base)[Len(s)], 0), NEW w, w = Written(LeadingZeros(s), t),
           NEW back, Leaves(back, base, Numbers(w, other)[Len(w)], 0)
    PROVE  w \in Seq(0 .. other - 1) /\ Written(LeadingZeros(w), back) = s
<1>1. Len(s) \in Nat /\ LeadingZeros(s) \in Nat
  <2>1. Len(s) \in Nat
    OBVIOUS
  <2>2. LeadingZeros(s) \in 0 .. Len(s)
    BY <2>1, LeadingIs
  <2> QED
    BY <2>1, <2>2
<1>2. w \in Seq(0 .. other - 1) /\ LeadingZeros(w) = LeadingZeros(s) /\ Significant(w) = t
    BY <1>1, WrittenIs
<1>3. Numbers(w, other)[Len(w)] = Numbers(s, base)[Len(s)]
  <2>1. Leaves(t, other, Numbers(w, other)[Len(w)], 0)
    BY <1>2, SignificantStand
  <2> QED
    BY <2>1, NumberUnique
<1>4. back = Significant(s)
  <2>1. Leaves(Significant(s), base, Numbers(s, base)[Len(s)], 0)
    BY SignificantStand
  <2>2. Leaves(back, base, Numbers(s, base)[Len(s)], 0)
    BY <1>3
  <2> QED
    BY <2>1, <2>2, DigitsUnique
<1>5. Written(LeadingZeros(w), back) = Written(LeadingZeros(s), Significant(s))
    BY <1>2, <1>4
<1> QED
    BY <1>2, <1>5, WrittenAgain

\* The sets of digits and bytes as the model has them.
LEMMA WiderText ==
    /\ 0 .. TextBase - 1 \subseteq 0 .. TextBase
    /\ 0 .. TextBase = 0 .. 58 /\ 0 .. ByteBase - 1 = 0 .. 255
BY SMT DEF TextBase, ByteBase

\* Bytes come back from base 58 (crypto.cpp).
LEMMA BytesComeBack ==
    ASSUME NEW bytes \in Seq(0 .. ByteBase - 1)
    PROVE  /\ ToBase58(bytes) \in Seq(0 .. TextBase - 1)
           /\ FromBase58(ToBase58(bytes)) = bytes
<1> DEFINE w == Written(LeadingZeros(bytes), DigitsOfBytes(bytes))
<1>1. ToBase58(bytes) = w
    BY DEF ToBase58, Written
<1>2. Leaves(DigitsOfBytes(bytes), TextBase, Numbers(bytes, ByteBase)[Len(bytes)], 0)
    BY DigitsStand
<1>3. w \in Seq(0 .. TextBase - 1)
  <2>1. LeadingZeros(bytes) \in Nat
    BY LeadingIs
  <2> QED
    BY <1>2, <2>1, BasesAre, WrittenIs
<1>4. w \in Seq(0 .. TextBase)
    BY ONLY <1>3, WiderText, WiderSeq, ZenonT(60)
<1> DEFINE back == BytesOf(w)
<1> HIDE DEF w
<1>5. Leaves(back, ByteBase, Numbers(w, TextBase)[Len(w)], 0)
    BY <1>4, BytesStand
<1>6. Written(LeadingZeros(w), back) = bytes
  <2> HIDE DEF back
  <2>1. w = Written(LeadingZeros(bytes), DigitsOfBytes(bytes))
    BY DEF w
  <2> QED
    BY <1>2, <1>5, <2>1, BasesAre, BasesAgree
<1>7. FromBase58(w) = Written(LeadingZeros(w), back)
    BY DEF FromBase58, Written
<1> QED
    BY <1>1, <1>3, <1>6, <1>7

\* Bytes are read from any digits, the one of NUL included.
LEMMA BytesRead ==
    ASSUME NEW written \in Seq(0 .. TextBase)
    PROVE  FromBase58(written) \in Seq(0 .. ByteBase - 1)
<1>1. Leaves(BytesOf(written), ByteBase, Numbers(written, TextBase)[Len(written)], 0)
    BY BytesStand
<1>2. LeadingZeros(written) \in Nat
    BY LeadingIs
<1>3. FromBase58(written) = Written(LeadingZeros(written), BytesOf(written))
    BY DEF FromBase58, Written
<1> QED
    BY <1>1, <1>2, <1>3, BasesAre, WrittenIs

\* Digits come back from bytes, if none is that of NUL (crypto.cpp:33).
LEMMA DigitsComeBack ==
    ASSUME NEW written \in Seq(0 .. TextBase - 1)
    PROVE  ToBase58(FromBase58(written)) = written
<1> DEFINE w == Written(LeadingZeros(written), BytesOf(written))
           back == DigitsOfBytes(w)
<1>1. FromBase58(written) = w
    BY DEF FromBase58, Written
<1>2. written \in Seq(0 .. TextBase)
    BY WiderText, WiderSeq, ZenonT(60)
<1>3. Leaves(BytesOf(written), ByteBase, Numbers(written, TextBase)[Len(written)], 0)
    BY <1>2, BytesStand
<1>4. w \in Seq(0 .. ByteBase - 1)
    BY <1>1, <1>2, BytesRead
<1> HIDE DEF w
<1>5. Leaves(back, TextBase, Numbers(w, ByteBase)[Len(w)], 0)
    BY <1>4, DigitsStand
<1>6. Written(LeadingZeros(w), back) = written
  <2> HIDE DEF back
  <2>1. w = Written(LeadingZeros(written), BytesOf(written))
    BY DEF w
  <2> QED
    BY <1>3, <1>5, <2>1, BasesAre, BasesAgree
<1>7. ToBase58(w) = Written(LeadingZeros(w), back)
    BY DEF ToBase58, Written
<1> QED
    BY <1>1, <1>6, <1>7

\* A digit of base 58 is not NUL.
LEMMA BelowTextBase == \A d \in 0 .. TextBase - 1 : d < 58
BY SMT DEF TextBase

\* All bytes come back from base 58 (crypto.cpp:26-83).
LEMMA AllBase58Holds ==
    ASSUME NEW bytes \in Seq(0 .. 255)
    PROVE  Base58Holds(bytes)
BY BytesComeBack, WiderText DEF Base58Holds

\* All digits but NUL come back from the bytes (crypto.cpp:33).
LEMMA AllDigitsHold ==
    ASSUME NEW written \in Seq(-1 .. 58)
    PROVE  DigitsHold(written)
<1> SUFFICES ASSUME IsBase58(written)
             PROVE  ToBase58(FromBase58(written)) = written <=> \A i \in DOMAIN written : written[i] < 58
    BY DEF DigitsHold
<1>1. DOMAIN written = 1 .. Len(written) /\ Len(written) \in Nat /\ \A i \in 1 .. Len(written) : written[i] \in -1 .. 58
    BY ElementOfSeq
<1>2. \A i \in 1 .. Len(written) : written[i] \in 0 .. 58
  <2>1. ASSUME NEW i \in 1 .. Len(written) PROVE written[i] \in 0 .. 58
    <3>1. written[i] >= 0 /\ written[i] \in -1 .. 58
        BY <1>1 DEF IsBase58
    <3> QED
        BY <3>1, SMT
  <2> QED
    BY <2>1
<1>3. written = [i \in 1 .. Len(written) |-> written[i]]
    BY <1>1
<1>4. written \in Seq(0 .. TextBase)
  <2>1. written \in [1 .. Len(written) -> 0 .. TextBase]
    BY <1>2, <1>3, WiderText
  <2> QED
    BY <1>1, <2>1, IsSequence
<1>5. ASSUME \A i \in DOMAIN written : written[i] < 58
      PROVE  ToBase58(FromBase58(written)) = written
  <2>1. ASSUME NEW i \in 1 .. Len(written) PROVE written[i] \in 0 .. TextBase - 1
    <3>1. written[i] \in 0 .. 58 /\ written[i] < 58
        BY <1>1, <1>2, <1>5
    <3> QED
        BY <3>1, SMT DEF TextBase
  <2>2. written \in [1 .. Len(written) -> 0 .. TextBase - 1]
    BY <1>3, <2>1
  <2>3. written \in Seq(0 .. TextBase - 1)
    BY <1>1, <2>2, IsSequence
  <2> QED
    BY <2>3, DigitsComeBack
<1>6. ASSUME ToBase58(FromBase58(written)) = written
      PROVE  \A i \in DOMAIN written : written[i] < 58
  <2>1. FromBase58(written) \in Seq(0 .. ByteBase - 1)
    BY <1>4, BytesRead
  <2>2. written \in Seq(0 .. TextBase - 1)
    BY <1>6, <2>1, BytesComeBack
  <2>3. ASSUME NEW i \in 1 .. Len(written) PROVE written[i] < 58
    <3>1. written[i] \in 0 .. TextBase - 1
        BY <2>2, ElementOfSeq
    <3> QED
        BY <3>1, BelowTextBase, Zenon
  <2> QED
    BY <1>1, <2>3
<1> QED
    BY <1>5, <1>6

-----------------------------------------------------------------------------
(* Hexadecimal digits, keys and the words of a checksum.                   *)

\* Hexadecimal digits come back as bytes (from_hex, to_hex).
LEMMA AllHexHolds ==
    ASSUME NEW bytes \in Seq(0 .. 255)
    PROVE  HexHolds(bytes)
<1> DEFINE l == Len(bytes)
           h == Hex(bytes)
<1>1. l \in Nat /\ (\A i \in 1 .. l : bytes[i] \in 0 .. 255) /\ bytes = [i \in 1 .. l |-> bytes[i]]
    BY ElementOfSeq
<1>2. h = [i \in 1 .. 2 * l |-> IF i % 2 = 1 THEN bytes[(i + 1) \div 2] \div 16 ELSE bytes[i \div 2] % 16]
    BY DEF Hex
<1> HIDE DEF l, h
<1>3. \A i \in 1 .. 2 * l : /\ i % 2 = 1 => (i + 1) \div 2 \in 1 .. l
                            /\ i % 2 # 1 => i \div 2 \in 1 .. l
    BY <1>1, SMT
<1>4. \A b \in 0 .. 255 : b \div 16 \in 0 .. 15 /\ b % 16 \in 0 .. 15 /\ (b \div 16) * 16 + (b % 16) = b
    BY SMT
<1>5. h \in [1 .. 2 * l -> 0 .. 15]
  <2>1. ASSUME NEW i \in 1 .. 2 * l PROVE h[i] \in 0 .. 15
    <3>1. CASE i % 2 = 1
        BY <1>1, <1>2, <1>3, <1>4, <3>1, ZenonT(60)
    <3>2. CASE i % 2 # 1
        BY <1>1, <1>2, <1>3, <1>4, <3>2
    <3> QED
        BY <3>1, <3>2
  <2> QED
    BY <1>2, <2>1
<1>6. 2 * l \in Nat
    BY <1>1
<1>7. Len(h) = 2 * l /\ DOMAIN h = 1 .. 2 * l
    BY <1>5, <1>6, IsSequence
<1>8. IsHexText(h)
  <2>1. (2 * l) % 2 = 0
    BY <1>1, SMT
  <2>2. \A d \in 0 .. 15 : d < 16
    BY SMT
  <2>3. \A i \in 1 .. 2 * l : h[i] \in 0 .. 15
    BY <1>5
  <2> QED
    BY <1>7, <2>1, <2>2, <2>3 DEF IsHexText
<1>9. Unhex(h) = [i \in 1 .. (2 * l) \div 2 |-> h[2 * i - 1] * 16 + h[2 * i]]
    BY <1>7 DEF Unhex
<1>10. (2 * l) \div 2 = l
    BY <1>1, SMT
<1>11. ASSUME NEW i \in 1 .. l PROVE h[2 * i - 1] * 16 + h[2 * i] = bytes[i]
  <2>1. /\ 2 * i - 1 \in 1 .. 2 * l /\ 2 * i \in 1 .. 2 * l
        /\ (2 * i - 1) % 2 = 1 /\ (2 * i) % 2 # 1 /\ ((2 * i - 1) + 1) \div 2 = i /\ (2 * i) \div 2 = i
    BY <1>1, SMT
  <2>2. h[2 * i - 1] = bytes[i] \div 16
    BY <1>2, <2>1
  <2>3. h[2 * i] = bytes[i] % 16
    BY <1>2, <2>1
  <2> QED
    BY <1>1, <1>4, <2>2, <2>3
<1>12. Unhex(h) = bytes
    BY <1>1, <1>9, <1>10, <1>11
<1> QED
    BY <1>8, <1>12 DEF HexHolds, h

\* The part of a sequence up to a place, and the part behind one.
LEMMA Prefixed ==
    ASSUME NEW S, NEW s \in Seq(S), NEW n \in 0 .. Len(s)
    PROVE  /\ SubSeq(s, 1, n) \in Seq(S)
           /\ Len(SubSeq(s, 1, n)) = n
           /\ \A i \in 1 .. n : SubSeq(s, 1, n)[i] = s[i]
<1>1. n \in Int /\ 1 \in Int /\ \A i \in 1 .. n : s[i] \in S
    BY ElementOfSeq
<1>2. /\ SubSeq(s, 1, n) \in Seq(S)
      /\ Len(SubSeq(s, 1, n)) = IF 1 <= n THEN n - 1 + 1 ELSE 0
      /\ \A i \in 1 .. n - 1 + 1 : SubSeq(s, 1, n)[i] = s[1 + i - 1]
    BY <1>1, SubSeqProperties
<1>3. n - 1 + 1 = n /\ (1 <= n \/ n = 0) /\ \A i \in 1 .. n : 1 + i - 1 = i
    BY <1>1
<1> QED
    BY <1>2, <1>3
\* A part of a sequence.
LEMMA Suffixed ==
    ASSUME NEW S, NEW s \in Seq(S), NEW n \in Nat, NEW m \in Nat, n + m <= Len(s)
    PROVE  /\ SubSeq(s, n + 1, n + m) \in Seq(S)
           /\ Len(SubSeq(s, n + 1, n + m)) = m
           /\ \A i \in 1 .. m : SubSeq(s, n + 1, n + m)[i] = s[n + i]
<1>1. n + 1 \in Int /\ n + m \in Int /\ \A i \in n + 1 .. n + m : s[i] \in S
    BY ElementOfSeq
<1>2. /\ SubSeq(s, n + 1, n + m) \in Seq(S)
      /\ Len(SubSeq(s, n + 1, n + m)) = IF n + 1 <= n + m THEN (n + m) - (n + 1) + 1 ELSE 0
      /\ \A i \in 1 .. (n + m) - (n + 1) + 1 : SubSeq(s, n + 1, n + m)[i] = s[(n + 1) + i - 1]
    BY <1>1, SubSeqProperties
<1>3. /\ (n + m) - (n + 1) + 1 = m /\ (n + 1 <= n + m \/ m = 0)
      /\ \A i \in 1 .. m : (n + 1) + i - 1 = n + i
    OBVIOUS
<1> QED
    BY <1>2, <1>3

\* The bytes, and what a key is, named: the provers do not look at the number.
Octets == 0 .. 255
\* A byte, named so that it is no interval to the provers.
LEMMA OctetsAre == 0 .. ByteBase - 1 = Octets
BY SMT DEF ByteBase, Octets
IsOfKind(key) ==
    /\ key = [kind |-> key.kind, type |-> key.type, data |-> key.data]
    /\ key.kind \in {"public", "private", "signature"} /\ key.type \in TypesOf(key.kind)
    /\ key.data \in Seq(Octets) /\ Len(key.data) = DataSize(key.kind, key.type, key.data)
\* What a key consists of.
LEMMA KeyKinds ==
    ASSUME NEW key, IsKey(key)
    PROVE  IsOfKind(key)
BY KeysAssumption DEF IsKey, IsOfKind, Octets

\* A key comes back from its text, with the checksum and the type it has
\* (string_to_key, key_to_string).
LEMMA AllKeysHold ==
    ASSUME NEW key, IsKey(key),
           Ripemd(key.data, key.type) \in [1 .. CheckSize -> Octets]
    PROVE  KeyHolds(key)
<1> DEFINE check == Ripemd(key.data, key.type)
           data == key.data
           whole == data \o check
           t == KeyText(key)
<1>0. IsOfKind(key)
    BY KeyKinds
<1>1. /\ DOMAIN PlainSize = {"public", "private", "signature"}
      /\ \A kind \in DOMAIN PlainSize : PlainSize[kind] \in Nat \ {0}
    BY KeysAssumption
<1>2. /\ key = [kind |-> key.kind, type |-> key.type, data |-> data]
      /\ key.kind \in {"public", "private", "signature"} /\ key.type \in TypesOf(key.kind)
      /\ data \in Seq(Octets) /\ Len(data) = DataSize(key.kind, key.type, data)
    BY <1>0 DEF IsOfKind
<1>3. CheckSize \in Nat /\ CheckSize = 4
    BY DEF CheckSize
<1>4. check \in Seq(Octets) /\ Len(check) = CheckSize
    BY <1>3, IsSequence, ZenonT(60)
<1>5. Len(data) \in Nat /\ Len(data) # 0
  <2>1. Len(data) \in Nat
    BY <1>2
  <2>2. ASSUME Len(data) = 0 PROVE FALSE
    <3>1. data = <<>>
        BY <1>2, <2>2, EmptySeq
    <3>2. DataSize(key.kind, key.type, data) \in Nat \ {0}
        BY <1>1, <1>2, <3>1 DEF DataSize
    <3> QED
        BY <1>2, <2>2, <3>2
  <2> QED
    BY <2>1, <2>2
<1> HIDE DEF data, check
<1>6. /\ whole \in Seq(Octets) /\ Len(whole) = Len(data) + CheckSize
      /\ \A i \in 1 .. Len(data) + CheckSize : whole[i] = IF i <= Len(data) THEN data[i] ELSE check[i - Len(data)]
  <2>1. /\ whole \in Seq(Octets) /\ Len(whole) = Len(data) + Len(check)
        /\ \A i \in 1 .. Len(data) + Len(check) : whole[i] = IF i <= Len(data) THEN data[i] ELSE check[i - Len(data)]
    BY <1>2, <1>4, ConcatProperties
  <2> QED
    BY <1>4, <2>1
<1> HIDE DEF whole
<1>7. t = [head |-> Typed(key.kind, key.type), digits |-> ToBase58(whole)]
    BY DEF KeyText, whole, data, check
<1>8. t.head = [prefix |-> key.kind, type |-> key.type] /\ t.digits = ToBase58(whole)
    BY <1>7 DEF Typed
<1>9. FromBase58(t.digits) = whole /\ t.digits \in Seq(0 .. TextBase - 1)
    BY <1>6, <1>8, BytesComeBack, OctetsAre
<1>10. IsBase58(t.digits)
  <2>1. \A i \in 1 .. Len(t.digits) : t.digits[i] \in 0 .. TextBase - 1
    BY <1>9, ElementOfSeq
  <2>2. \A d \in 0 .. TextBase - 1 : d >= 0
    OBVIOUS
  <2>3. DOMAIN t.digits = 1 .. Len(t.digits)
    BY <1>9
  <2> HIDE DEF t
  <2> QED
    BY <2>1, <2>2, <2>3 DEF IsBase58
<1> HIDE DEF t
<1>11. t.head # OldPublic /\ t.head # OldPrivate /\ KindOf(t.head) = key.kind /\ HashedType(t.head) = key.type
  <2>1. t.head # OldPublic /\ t.head # OldPrivate /\ t.head.prefix = key.kind /\ t.head.type = key.type
    <3>1. t.head.prefix = key.kind /\ t.head.type = key.type
        BY <1>8
    <3>2. t.head.prefix # "ALA" /\ t.head.prefix # ""
        BY <1>2, <3>1
    <3>3. OldPublic.prefix = "ALA" /\ OldPrivate.prefix = ""
        BY DEF OldPublic, OldPrivate
    <3>4. t.head # OldPublic /\ t.head # OldPrivate
        BY <3>2, <3>3, Zenon
    <3> QED
        BY <3>1, <3>4
  <2> QED
    BY <2>1 DEF KindOf, HashedType
<1>12. Content(whole) = data
  <2>1. (Len(data) + CheckSize) - CheckSize = Len(data)
    BY <1>3, <1>5
  <2>2. Content(whole) = SubSeq(whole, 1, Len(data))
    BY <1>6, <2>1 DEF Content
  <2>3. \A i \in 1 .. Len(data) : whole[i] \in Octets /\ whole[i] = data[i]
    <3>1. \A i \in 1 .. Len(data) : i \in 1 .. Len(data) + CheckSize /\ i <= Len(data)
        BY <1>3, <1>5
    <3> QED
        BY <1>6, <3>1, ElementOfSeq
  <2>4. /\ SubSeq(whole, 1, Len(data)) \in Seq(Octets)
        /\ Len(SubSeq(whole, 1, Len(data))) = Len(data)
        /\ \A i \in 1 .. Len(data) : SubSeq(whole, 1, Len(data))[i] = whole[i]
    BY <1>5, <2>3, Prefixed
  <2> QED
    BY <1>2, <2>2, <2>3, <2>4, SeqEqual
<1>13. Check(whole) = check
  <2>1. (Len(data) + CheckSize) - CheckSize + 1 = Len(data) + 1
    BY <1>3, <1>5
  <2>2. Check(whole) = SubSeq(whole, Len(data) + 1, Len(data) + CheckSize)
    BY <1>6, <2>1 DEF Check
  <2>3. \A i \in 1 .. CheckSize : Len(data) + i \in 1 .. Len(data) + CheckSize /\ whole[Len(data) + i] = check[i]
    <3>1. \A i \in 1 .. CheckSize : /\ Len(data) + i \in 1 .. Len(data) + CheckSize
                                    /\ ~(Len(data) + i <= Len(data)) /\ (Len(data) + i) - Len(data) = i
        BY <1>3, <1>5
    <3> QED
        BY <1>6, <3>1
  <2>4. /\ SubSeq(whole, Len(data) + 1, Len(data) + CheckSize) \in Seq(Octets)
        /\ Len(SubSeq(whole, Len(data) + 1, Len(data) + CheckSize)) = CheckSize
        /\ \A i \in 1 .. CheckSize : SubSeq(whole, Len(data) + 1, Len(data) + CheckSize)[i] = whole[Len(data) + i]
    BY <1>3, <1>5, <1>6, Suffixed
  <2> QED
    BY <1>4, <2>2, <2>3, <2>4, SeqEqual
<1>14. CanRead(key.kind, key.type, data)
    BY <1>2, <1>5 DEF CanRead
<1>15. Len(whole) + 1 > CheckSize + 1
    BY <1>3, <1>5, <1>6
<1>16. IsKeyText(t)
  <2>1. t.head.type \in TypesOf(KindOf(t.head)) /\ t.head.type = key.type
    BY <1>2, <1>8, <1>11
  <2>2. Check(whole) = Ripemd(Content(whole), HashedType(t.head))
    BY <1>11, <1>12, <1>13 DEF check, data
  <2> QED
    BY <1>9, <1>10, <1>11, <1>12, <1>14, <1>15, <2>1, <2>2 DEF IsKeyText, IsTypedText
<1>17. KeyOf(t) = Key(key.kind, key.type, data)
  <2>1. t.head.type = key.type
    BY <1>8
  <2> QED
    BY <1>9, <1>11, <1>12, <2>1 DEF KeyOf
<1>18. SubSeq(data, 1, Len(data)) = data
    BY <1>2, SubSeqFull
<1>19. Key(key.kind, key.type, data) = key
  <2>1. Key(key.kind, key.type, data) = [kind |-> key.kind, type |-> key.type, data |-> SubSeq(data, 1, Len(data))]
    BY <1>2 DEF Key
  <2> QED
    BY <1>2, <1>18, <2>1
<1> QED
    BY <1>16, <1>17, <1>19 DEF KeyHolds, t

\* Dividing again and again leaves a natural number every time.
Divided(q, n, base) ==
    /\ q \in [Nat -> Nat]
    /\ q[0] = n
    /\ \A k \in Nat : q[k + 1] = q[k] \div base
\* The recursion of the quotients exists.
LEMMA QuotientsAre ==
    ASSUME NEW n \in Nat, NEW base \in Radices
    PROVE  Divided(Quotients(n, base), n, base)
<1> DEFINE Body(x) == x \div base
           step == [k \in Nat |-> [x \in Nat |-> Body(x)]]
           G == CHOOSE g : g = [k \in Nat |-> IF k = 0 THEN n ELSE Body(g[k - 1])]
<1>1. \A x \in Nat : Body(x) \in Nat
    BY DivisionIs
<1>2. Quotients(n, base) = G
    BY DEF Quotients
<1>3. \A x \in Nat : Body(x) = x \div base
    OBVIOUS
<1> HIDE DEF Body
<1>4. step \in [Nat -> [Nat -> Nat]]
    BY <1>1
<1>5. PICK f \in [Nat -> Nat] : Endless(f, n, step)
  <2> HIDE DEF step
  <2> QED
    BY <1>4, EndlessExists
<1>6. f = [k \in Nat |-> IF k = 0 THEN n ELSE Body(f[k - 1])]
  <2>1. ASSUME NEW k \in Nat PROVE f[k] = IF k = 0 THEN n ELSE Body(f[k - 1])
    <3>1. CASE k = 0
        BY <1>5, <3>1 DEF Endless
    <3>2. CASE k # 0
        <4>1. k - 1 \in Nat
            BY <3>2
        <4>2. step[k][f[k - 1]] = Body(f[k - 1])
            BY <4>1
        <4> HIDE DEF step
        <4> QED
            BY <1>5, <3>2, <4>2 DEF Endless
    <3> QED
        BY <3>1, <3>2
  <2>2. f = [k \in Nat |-> f[k]]
    OBVIOUS
  <2> QED
    BY <2>1, <2>2
<1>7. G = [k \in Nat |-> IF k = 0 THEN n ELSE Body(G[k - 1])]
  <2>1. G = CHOOSE g : g = [k \in Nat |-> IF k = 0 THEN n ELSE Body(g[k - 1])]
    OBVIOUS
  <2> HIDE DEF G
  <2> QED
    BY <1>6, <2>1, Zenon
<1> HIDE DEF G
<1>8. G[0] = n /\ \A k \in Nat : G[k + 1] = Body(G[k])
  <2>1. \A k \in Nat : k + 1 \in Nat /\ k + 1 # 0 /\ (k + 1) - 1 = k
    OBVIOUS
  <2> QED
    BY <1>7, <2>1
<1>9. \A k \in Nat : G[k] \in Nat
  <2> DEFINE T == {k \in Nat : G[k] \in Nat}
  <2>1. 0 \in T /\ \A k \in Nat : k \in T => k + 1 \in T
    BY <1>1, <1>8
  <2> HIDE DEF T
  <2>2. Nat \subseteq T
    BY <2>1, NatInduct
  <2> QED
    BY <2>2 DEF T
<1>10. G \in [Nat -> Nat]
    BY <1>7, <1>9
<1>11. \A k \in Nat : G[k + 1] = G[k] \div base
    BY <1>3, <1>8, <1>9
<1> QED
    BY <1>2, <1>8, <1>10, <1>11 DEF Divided

\* What is left of a number and the digit that was split off.
LEMMA DigitSplit ==
    ASSUME NEW base \in Radices, NEW x \in Nat, NEW d \in 0 .. base - 1, NEW n, n = base * x + d
    PROVE  n \in Nat /\ n \div base = x /\ n % base = d
<1>1. base \in Nat /\ d \in Nat /\ base * x \in Nat
    BY DEF Radices
<1>2. n \in Nat
    BY <1>1
<1>3. n \div base \in Nat /\ n % base \in 0 .. base - 1 /\ n = (n % base) + base * (n \div base)
    BY <1>2, DivisionIs
<1> DEFINE q == n \div base
           r == n % base
<1> HIDE DEF q, r
<1>4. d + base * x = r + base * q
    BY <1>1, <1>3 DEF q, r
<1>5. d = r /\ x = q
    BY <1>3, <1>4, DigitUnique DEF q, r
<1> QED
    BY <1>2, <1>5 DEF q, r

\* Digits that are read are written again by dividing.
LEMMA NumbersDivide ==
    ASSUME NEW base \in Radices, NEW digits \in Seq(0 .. base - 1), NEW N, N = Numbers(digits, base)
    PROVE  /\ N \in [0 .. Len(digits) -> Nat]
           /\ N[0] = 0
           /\ \A i \in 1 .. Len(digits) :
                  N[i] = base * N[i - 1] + digits[i] /\ N[i] \div base = N[i - 1] /\ N[i] % base = digits[i]
<1>1. base \in Nat /\ digits \in Seq(Nat)
  <2>1. base \in Nat /\ 0 .. base - 1 \subseteq Nat
    BY DEF Radices
  <2> QED
    BY <2>1, WiderSeq
<1>2. Counts(N, digits, base)
    BY <1>1, NumbersAre
<1>3. ASSUME NEW i \in 1 .. Len(digits)
      PROVE  N[i] = base * N[i - 1] + digits[i] /\ N[i] \div base = N[i - 1] /\ N[i] % base = digits[i]
  <2>1. i - 1 \in 0 .. Len(digits)
    BY <1>1
  <2>2. N[i - 1] \in Nat /\ N[i] = base * N[i - 1] + digits[i]
    BY <1>2, <2>1 DEF Counts
  <2>3. digits[i] \in 0 .. base - 1
    BY ElementOfSeq
  <2> QED
    BY <2>2, <2>3, DigitSplit, SMTT(40)
<1> QED
    BY <1>2, <1>3 DEF Counts

\* Dividing takes off the digits that reading put on.
LEMMA QuotientsOfDigits ==
    ASSUME NEW base \in Radices, NEW digits \in Seq(0 .. base - 1), NEW N, N = Numbers(digits, base),
           NEW Q, Q = Quotients(N[Len(digits)], base), NEW k \in 0 .. Len(digits)
    PROVE  Q[k] = N[Len(digits) - k]
<1> DEFINE l == Len(digits)
<1>1. l \in Nat /\ N \in [0 .. l -> Nat] /\ \A i \in 1 .. l : N[i] \div base = N[i - 1]
    BY NumbersDivide
<1> HIDE DEF l
<1>2. Divided(Q, N[l], base)
  <2>1. N[l] \in Nat
    BY <1>1
  <2> QED
    BY <2>1, QuotientsAre DEF l
<1> DEFINE T == {j \in Nat : j <= l => Q[j] = N[l - j]}
<1>3. 0 \in T
    BY <1>1, <1>2 DEF Divided
<1>4. ASSUME NEW j \in Nat, j \in T PROVE j + 1 \in T
  <2> SUFFICES ASSUME j + 1 <= l PROVE Q[j + 1] = N[l - (j + 1)]
    OBVIOUS
  <2> DEFINE i == l - j
  <2>1. i \in 1 .. l /\ i - 1 = l - (j + 1) /\ Q[j] = N[i]
    BY <1>1, <1>4
  <2> HIDE DEF i
  <2>2. Q[j + 1] = Q[j] \div base
    BY <1>2 DEF Divided
  <2> QED
    BY <1>1, <2>1, <2>2
<1> HIDE DEF T
<1>5. Nat \subseteq T
    BY <1>3, <1>4, NatInduct
<1> QED
    BY <1>1, <1>5 DEF T, l

\* A larger number with any digit behind it is larger.
LEMMA HigherDecides ==
    ASSUME NEW base \in Radices, NEW x \in Nat, NEW y \in Nat, x < y, NEW d \in 0 .. base - 1, NEW e \in Nat
    PROVE  base * x + d < base * y + e
<1> DEFINE t == y - (x + 1)
<1>1. t \in Nat /\ y = x + (1 + t) /\ 1 + t \in Nat /\ base \in Nat
    BY DEF Radices
<1> HIDE DEF t
<1>2. base * y = base * x + base * (1 + t) /\ base * (1 + t) = base * 1 + base * t
    BY <1>1, Distributes
<1>3. base * t \in Nat /\ base * 1 = base /\ base * x \in Nat
    BY <1>1
<1> QED
    BY <1>1, <1>2, <1>3

\* Of two numbers with as many digits the one is less whose first digit that
\* differs is.
LEMMA FirstDigitDecides ==
    ASSUME NEW base \in Radices, NEW s \in Seq(0 .. base - 1), NEW t \in Seq(0 .. base - 1), Len(s) = Len(t),
           NEW m \in 1 .. Len(s), \A i \in 1 .. m - 1 : s[i] = t[i], s[m] < t[m]
    PROVE  Numbers(s, base)[Len(s)] < Numbers(t, base)[Len(s)]
<1> DEFINE N == Numbers(s, base)
           M == Numbers(t, base)
           l == Len(s)
<1>1. /\ N \in [0 .. l -> Nat] /\ N[0] = 0 /\ \A i \in 1 .. l : N[i] = base * N[i - 1] + s[i]
      /\ M \in [0 .. l -> Nat] /\ M[0] = 0 /\ \A i \in 1 .. l : M[i] = base * M[i - 1] + t[i]
  <2> HIDE DEF N, M
  <2>1. N \in [0 .. l -> Nat] /\ N[0] = 0 /\ \A i \in 1 .. l : N[i] = base * N[i - 1] + s[i]
    BY NumbersDivide DEF N
  <2>2. M \in [0 .. l -> Nat] /\ M[0] = 0 /\ \A i \in 1 .. l : M[i] = base * M[i - 1] + t[i]
    BY NumbersDivide DEF M
  <2> QED
    BY <2>1, <2>2
<1>2. \A i \in 1 .. l : s[i] \in 0 .. base - 1 /\ t[i] \in 0 .. base - 1
    BY ElementOfSeq
<1>9. \A i \in 1 .. l : s[i] \in Nat /\ t[i] \in Nat
    BY <1>2
<1>10. \A i \in 0 .. l : N[i] \in Nat /\ M[i] \in Nat
    BY <1>1
<1>3. l \in Nat /\ m \in 1 .. l /\ base \in Nat
    BY DEF Radices
<1> HIDE DEF N, M, l
<1> DEFINE T == {k \in Nat : (k < m => N[k] = M[k]) /\ (m <= k /\ k <= l => N[k] < M[k])}
<1>4. 0 \in T
    BY <1>1, <1>3
<1>5. ASSUME NEW k \in Nat, k \in T PROVE k + 1 \in T
  <2>1. CASE k + 1 < m
    <3>1. k + 1 \in 1 .. l /\ k + 1 \in 1 .. m - 1 /\ (k + 1) - 1 = k /\ N[k] = M[k]
        BY <1>3, <1>5, <2>1
    <3>2. N[k + 1] = M[k + 1]
        BY <1>1, <3>1
    <3> QED
        BY <1>3, <2>1, <3>2
  <2>2. CASE k + 1 = m
    <3>1. k + 1 \in 1 .. l /\ (k + 1) - 1 = k /\ N[k] = M[k] /\ k \in 0 .. l
        BY <1>3, <1>5, <2>2
    <3>2. N[k + 1] = base * N[k] + s[k + 1] /\ M[k + 1] = base * N[k] + t[k + 1] /\ s[k + 1] < t[k + 1]
        BY <1>1, <2>2, <3>1
    <3>3. N[k] \in Nat /\ s[k + 1] \in Nat /\ t[k + 1] \in Nat
        BY <1>9, <1>10, <3>1
    <3>5. base * N[k] \in Nat
      <4>1. \A a, b \in Nat : a * b \in Nat
          OBVIOUS
      <4> QED
          BY ONLY <1>3, <3>3, <4>1, Zenon
    <3>4. N[k + 1] < M[k + 1]
        BY <3>2, <3>3, <3>5
    <3> QED
        BY <1>3, <2>2, <3>4
  <2>3. CASE m < k + 1
    <3> SUFFICES ASSUME k + 1 <= l PROVE N[k + 1] < M[k + 1]
        BY <1>3, <2>3
    <3>1. k + 1 \in 1 .. l /\ (k + 1) - 1 = k /\ k \in 0 .. l /\ N[k] < M[k]
        BY <1>3, <1>5, <2>3
    <3>2. N[k + 1] = base * N[k] + s[k + 1] /\ M[k + 1] = base * M[k] + t[k + 1]
        BY <1>1, <3>1
    <3>3. N[k] \in Nat /\ M[k] \in Nat /\ s[k + 1] \in 0 .. base - 1 /\ t[k + 1] \in Nat
        BY <1>2, <1>9, <1>10, <3>1
    <3> QED
        BY <3>1, <3>2, <3>3, HigherDecides
  <2> QED
    BY <1>3, <2>1, <2>2, <2>3
<1> HIDE DEF T
<1>6. Nat \subseteq T
    BY <1>4, <1>5, NatInduct
<1>7. N[l] < M[l]
    BY <1>3, <1>6 DEF T
<1> QED
    BY <1>7 DEF N, M, l

\* The words are so many.
LEMMA WordCount == Words \in Nat
<1>1. WordSize \in Radices /\ FixedSize \in Nat /\ FixedSize + (WordSize - 1) \in Nat
    BY KeysAssumption DEF Radices
<1>2. (FixedSize + (WordSize - 1)) \div WordSize \in Nat
    BY <1>1, DivisionIs
<1> QED
    BY <1>2 DEF Words

\* Every byte has its place in a word.
LEMMA WordPlace ==
    ASSUME NEW i \in 1 .. FixedSize, NEW q, q = (i - 1) \div WordSize, NEW j, j = i - q * WordSize
    PROVE  /\ q + 1 \in 1 .. Words /\ q \in Nat
           /\ j \in 1 .. WordSize
           /\ (q + 1) * WordSize - i = WordSize - j
           /\ q * WordSize + j = i
<1>1. WordSize \in Radices /\ WordSize \in Nat /\ FixedSize \in Nat /\ i - 1 \in Nat /\ (FixedSize + WordSize) - 1 \in Nat
    BY KeysAssumption DEF Radices
<1> DEFINE r == (i - 1) % WordSize
           p == ((FixedSize + WordSize) - 1) \div WordSize
           h == ((FixedSize + WordSize) - 1) % WordSize
<1>2. q \in Nat /\ r \in 0 .. WordSize - 1 /\ i - 1 = r + WordSize * q
    BY <1>1, DivisionIs
<1>3. p \in Nat /\ h \in 0 .. WordSize - 1 /\ (FixedSize + WordSize) - 1 = h + WordSize * p
    BY <1>1, DivisionIs
<1>4. Words = p
    BY <1>1 DEF Words
<1> HIDE DEF r, p, h
<1>5. WordSize * q \in Nat /\ q * WordSize = WordSize * q /\ (q + 1) * WordSize = WordSize * q + WordSize
    BY <1>1, <1>2
<1>6. q < p
  <2> SUFFICES ASSUME p <= q PROVE FALSE
    BY <1>2, <1>3
  <2>1. q - p \in Nat /\ q = p + (q - p)
    BY <1>2, <1>3
  <2>2. WordSize * q = WordSize * p + WordSize * (q - p) /\ WordSize * (q - p) \in Nat /\ WordSize * p \in Nat
    BY <1>1, <1>3, <2>1, Distributes
  <2> QED
    BY <1>1, <1>2, <1>3, <2>2
<1> QED
    BY <1>1, <1>2, <1>3, <1>4, <1>5, <1>6

\* The bytes of a word, filled up with zeros.
WordBytes(bytes, w) == [i \in 1 .. WordSize |-> ByteAt(bytes, (w - 1) * WordSize + i)]
\* A word is the number of its bytes.
LEMMA WordBytesAre ==
    ASSUME NEW bytes \in [1 .. FixedSize -> Octets], NEW w
    PROVE  /\ WordBytes(bytes, w) \in Seq(0 .. ByteBase - 1)
           /\ Len(WordBytes(bytes, w)) = WordSize
           /\ \A j \in 1 .. WordSize : WordBytes(bytes, w)[j] = ByteAt(bytes, (w - 1) * WordSize + j)
           /\ WordOf(bytes, w) = Numbers(WordBytes(bytes, w), ByteBase)[WordSize]
<1>1. \A k : ByteAt(bytes, k) \in 0 .. ByteBase - 1
  <2>1. 0 \in Octets
    BY SMT DEF Octets
  <2>2. \A k \in 1 .. FixedSize : bytes[k] \in Octets
    OBVIOUS
  <2>3. DOMAIN bytes = 1 .. FixedSize
    OBVIOUS
  <2> QED
    BY <2>1, <2>2, <2>3, OctetsAre DEF ByteAt
<1>2. WordSize \in Nat
    BY KeysAssumption
<1>3. WordBytes(bytes, w) \in [1 .. WordSize -> 0 .. ByteBase - 1]
    BY <1>1 DEF WordBytes
<1>4. WordBytes(bytes, w) \in Seq(0 .. ByteBase - 1) /\ Len(WordBytes(bytes, w)) = WordSize
  <2> DEFINE s == WordBytes(bytes, w)
             S == 0 .. ByteBase - 1
  <2>1. s \in [1 .. WordSize -> S]
    BY <1>3
  <2> HIDE DEF s, S
  <2>2. s \in Seq(S) /\ Len(s) = WordSize
    BY <1>2, <2>1, IsSequence
  <2> QED
    BY <2>2 DEF s, S
<1>5. WordOf(bytes, w) = Numbers(WordBytes(bytes, w), ByteBase)[WordSize]
    BY DEF WordOf, WordBytes, ByteBase
<1>6. \A j \in 1 .. WordSize : WordBytes(bytes, w)[j] = ByteAt(bytes, (w - 1) * WordSize + j)
    BY DEF WordBytes
<1> QED
    BY <1>4, <1>5, <1>6

\* Words give the bytes back (fixed_bytes.hpp).
LEMMA WordsComeBack ==
    ASSUME NEW bytes \in [1 .. FixedSize -> Octets]
    PROVE  FromWords(ToWords(bytes)) = bytes
<1> DEFINE words == ToWords(bytes)
<1>1. words = [w \in 1 .. Words |-> WordOf(bytes, w)]
    BY DEF ToWords
<1>2. ASSUME NEW i \in 1 .. FixedSize
      PROVE  Quotients(words[((i - 1) \div WordSize) + 1], ByteBase)[(((i - 1) \div WordSize) + 1) * WordSize - i] % ByteBase
               = bytes[i]
  <2> DEFINE q == (i - 1) \div WordSize
             j == i - q * WordSize
             D == WordBytes(bytes, q + 1)
             N == Numbers(D, ByteBase)
  <2>1. /\ q + 1 \in 1 .. Words /\ q \in Nat
        /\ j \in 1 .. WordSize
        /\ (q + 1) * WordSize - i = WordSize - j
        /\ q * WordSize + j = i
    BY WordPlace
  <2>2. WordSize \in Nat
    BY KeysAssumption
  <2> HIDE DEF q, j, D, N, words
  <2>3. words[q + 1] = WordOf(bytes, q + 1) /\ (q + 1) - 1 = q
    BY <1>1, <2>1
  <2>4. /\ D \in Seq(0 .. ByteBase - 1) /\ Len(D) = WordSize
        /\ \A k \in 1 .. WordSize : D[k] = ByteAt(bytes, q * WordSize + k)
        /\ words[q + 1] = N[WordSize]
    BY <2>3, WordBytesAre DEF D, N
  <2>5. WordSize - j \in 0 .. WordSize /\ WordSize - (WordSize - j) = j
    BY <2>1, <2>2
  <2>6. Quotients(N[WordSize], ByteBase)[WordSize - j] = N[j]
    <3>1. WordSize - j \in 0 .. Len(D)
        BY <2>4, <2>5
    <3>2. Quotients(Numbers(D, ByteBase)[Len(D)], ByteBase)[WordSize - j]
            = Numbers(D, ByteBase)[Len(D) - (WordSize - j)]
        BY <2>4, <3>1, BasesAre, QuotientsOfDigits, SMTT(40)
    <3> QED
        BY <2>4, <2>5, <3>2 DEF N
  <2>7. N[j] % ByteBase = D[j]
    BY <2>1, <2>4, BasesAre, NumbersDivide DEF N
  <2>8. D[j] = bytes[i]
    <3>1. i \in DOMAIN bytes
        OBVIOUS
    <3>2. D[j] = ByteAt(bytes, i)
        BY <2>1, <2>4
    <3> QED
        BY <3>1, <3>2 DEF ByteAt
  <2>9. Quotients(words[q + 1], ByteBase)[(q + 1) * WordSize - i] % ByteBase = bytes[i]
    BY <2>1, <2>4, <2>6, <2>7, <2>8
  <2> QED
    BY <2>9 DEF q
<1> HIDE DEF words
<1>3. FromWords(words) = [i \in 1 .. FixedSize |-> bytes[i]]
    BY <1>2 DEF FromWords, ByteBase
<1> QED
    BY <1>3 DEF words

\* The first byte that differs decides about the words as about the bytes.
LEMMA WordsInOrder ==
    ASSUME NEW bytes \in [1 .. FixedSize -> Octets], NEW other \in [1 .. FixedSize -> Octets],
           NEW i \in 1 .. FixedSize, \A k \in 1 .. i - 1 : bytes[k] = other[k], bytes[i] < other[i]
    PROVE  LexLess(bytes, other) /\ LexLess(ToWords(bytes), ToWords(other))
<1> DEFINE q == (i - 1) \div WordSize
           j == i - q * WordSize
<1>1. FixedSize \in Nat /\ WordSize \in Nat /\ WordSize # 0
    BY KeysAssumption
<1>2. LexLess(bytes, other)
  <2>1. Len(bytes) = FixedSize /\ Len(other) = FixedSize
    BY <1>1, IsSequence
  <2>2. Len(bytes) \in Nat /\ Len(other) \in Nat /\ i \in 1 .. Len(bytes) /\ i <= Len(other)
    BY <1>1, <2>1
  <2> QED
    BY <2>2, FirstDifference
<1>3. /\ q + 1 \in 1 .. Words /\ q \in Nat
      /\ j \in 1 .. WordSize
      /\ q * WordSize + j = i
    BY WordPlace
<1> HIDE DEF q, j
<1>4. \A k : k \in Int /\ k < i => ByteAt(bytes, k) = ByteAt(other, k)
  <2>1. DOMAIN bytes = 1 .. FixedSize /\ DOMAIN other = 1 .. FixedSize
    OBVIOUS
  <2>2. \A k \in 1 .. FixedSize : k < i => k \in 1 .. i - 1
    OBVIOUS
  <2> QED
    BY <2>1, <2>2 DEF ByteAt
<1>5. ByteAt(bytes, i) < ByteAt(other, i)
    BY DEF ByteAt
<1>6. ASSUME NEW w \in 1 .. q
      PROVE  WordOf(bytes, w) = WordOf(other, w)
  <2>1. ASSUME NEW k \in 1 .. WordSize
        PROVE  ByteAt(bytes, (w - 1) * WordSize + k) = ByteAt(other, (w - 1) * WordSize + k)
    <3> DEFINE t == q - w
               a == (w - 1) * WordSize
    <3>1. t \in Nat /\ q = (w - 1) + (t + 1) /\ w - 1 \in Nat
        BY <1>3
    <3>2. a \in Nat /\ a = WordSize * (w - 1)
        BY <1>1, <3>1
    <3> HIDE DEF t, a
    <3>3. WordSize * q = WordSize * (w - 1) + WordSize * (t + 1) /\ WordSize * (t + 1) = WordSize * t + WordSize * 1
        BY <1>1, <3>1, Distributes
    <3>4. WordSize * t \in Nat /\ WordSize * 1 = WordSize /\ q * WordSize = WordSize * q
        BY <1>1, <1>3, <3>1
    <3>5. a + k \in Int /\ a + k < i
        BY <1>1, <1>3, <3>2, <3>3, <3>4
    <3> QED
        BY <1>4, <3>5 DEF a
  <2>2. [k \in 1 .. WordSize |-> ByteAt(bytes, (w - 1) * WordSize + k)]
          = [k \in 1 .. WordSize |-> ByteAt(other, (w - 1) * WordSize + k)]
    BY <2>1
  <2> QED
    BY <2>2 DEF WordOf
<1>7. WordOf(bytes, q + 1) < WordOf(other, q + 1)
  <2> DEFINE s == WordBytes(bytes, q + 1)
             t == WordBytes(other, q + 1)
  <2>0. (q + 1) - 1 = q
    BY <1>3
  <2>1. /\ s \in Seq(0 .. ByteBase - 1) /\ Len(s) = WordSize
        /\ \A k \in 1 .. WordSize : s[k] = ByteAt(bytes, q * WordSize + k)
        /\ WordOf(bytes, q + 1) = Numbers(s, ByteBase)[WordSize]
    BY <2>0, WordBytesAre
  <2>2. /\ t \in Seq(0 .. ByteBase - 1) /\ Len(t) = WordSize
        /\ \A k \in 1 .. WordSize : t[k] = ByteAt(other, q * WordSize + k)
        /\ WordOf(other, q + 1) = Numbers(t, ByteBase)[WordSize]
    BY <2>0, WordBytesAre
  <2> HIDE DEF s, t
  <2>3. \A k \in 1 .. j - 1 : s[k] = t[k]
    <3> SUFFICES ASSUME NEW k \in 1 .. j - 1 PROVE s[k] = t[k]
        OBVIOUS
    <3>1. k \in 1 .. WordSize /\ q * WordSize \in Nat
        BY <1>1, <1>3
    <3>2. q * WordSize + k \in Int /\ q * WordSize + k < i
        BY <1>3, <3>1
    <3> QED
        BY <1>4, <2>1, <2>2, <3>1, <3>2
  <2>4. s[j] < t[j]
    BY <1>3, <1>5, <2>1, <2>2
  <2>5. j \in 1 .. Len(s) /\ Len(s) = Len(t)
    BY <1>3, <2>1, <2>2
  <2>6. Numbers(s, ByteBase)[Len(s)] < Numbers(t, ByteBase)[Len(s)]
    BY <2>1, <2>2, <2>3, <2>4, <2>5, BasesAre, FirstDigitDecides
  <2> QED
    BY <2>1, <2>2, <2>6
<1>8. LexLess(ToWords(bytes), ToWords(other))
  <2> DEFINE s == ToWords(bytes)
             t == ToWords(other)
  <2>1. s = [w \in 1 .. Words |-> WordOf(bytes, w)] /\ t = [w \in 1 .. Words |-> WordOf(other, w)]
    BY DEF ToWords
  <2>2. Words \in Nat
    BY WordCount
  <2> HIDE DEF s, t
  <2>3. Len(s) = Words /\ Len(t) = Words
    BY <2>1, <2>2
  <2>4. q + 1 \in 1 .. Words /\ \A w \in 1 .. (q + 1) - 1 : w \in 1 .. q /\ w \in 1 .. Words
    BY <1>3, <2>2
  <2>5. (\A w \in 1 .. (q + 1) - 1 : s[w] = t[w]) /\ s[q + 1] < t[q + 1]
    BY <1>6, <1>7, <2>1, <2>4
  <2>6. Len(s) \in Nat /\ Len(t) \in Nat /\ q + 1 \in 1 .. Len(s) /\ q + 1 <= Len(t)
    BY <2>2, <2>3, <2>4
  <2>7. LexLess(s, t)
    BY <2>5, <2>6, FirstDifference
  <2> QED
    BY <2>7 DEF s, t
<1> QED
    BY <1>2, <1>8

\* Words are numbers.
LEMMA WordsAreNumbers ==
    ASSUME NEW bytes \in [1 .. FixedSize -> Octets]
    PROVE  ToWords(bytes) \in Seq(Int)
<1>1. WordSize \in Nat /\ Words \in Nat
    BY KeysAssumption, WordCount
<1>2. ASSUME NEW w \in 1 .. Words PROVE WordOf(bytes, w) \in Int
  <2> DEFINE s == WordBytes(bytes, w)
  <2>1. s \in Seq(0 .. ByteBase - 1) /\ Len(s) = WordSize /\ WordOf(bytes, w) = Numbers(s, ByteBase)[WordSize]
    BY WordBytesAre
  <2> HIDE DEF s
  <2>2. Numbers(s, ByteBase) \in [0 .. Len(s) -> Nat]
    BY <2>1, BasesAre, NumbersDivide
  <2> QED
    BY <1>1, <2>1, <2>2
<1>3. ToWords(bytes) \in [1 .. Words -> Int]
    BY <1>2 DEF ToWords
<1> QED
    BY <1>1, <1>3, IsSequence

\* Two functions that differ do so at a first place.
DifferFirst(f, g, n) == \E i \in 1 .. n : f[i] # g[i] /\ \A k \in 1 .. i - 1 : f[k] = g[k]
\* There is such a place.
LEMMA FirstOther ==
    ASSUME NEW n \in Nat, NEW S, NEW f \in [1 .. n -> S], NEW g \in [1 .. n -> S], f # g
    PROVE  DifferFirst(f, g, n)
<1> SUFFICES ASSUME \A i \in 1 .. n : f[i] # g[i] => \E k \in 1 .. i - 1 : f[k] # g[k]
             PROVE  FALSE
    BY DEF DifferFirst
<1> DEFINE T == {m \in Nat : \A k \in 1 .. m : k <= n => f[k] = g[k]}
<1>1. 0 \in T
    OBVIOUS
<1>2. ASSUME NEW m \in Nat, m \in T PROVE m + 1 \in T
  <2>1. \A k \in 1 .. m + 1 : k \in 1 .. m \/ k = m + 1
    OBVIOUS
  <2>2. ASSUME m + 1 <= n PROVE f[m + 1] = g[m + 1]
    <3>1. m + 1 \in 1 .. n /\ (m + 1) - 1 = m /\ \A k \in 1 .. m : k <= n
        BY <2>2
    <3> QED
        BY <1>2, <3>1
  <2> QED
    BY <1>2, <2>1, <2>2
<1> HIDE DEF T
<1>3. Nat \subseteq T
    BY <1>1, <1>2, NatInduct
<1>4. \A k \in 1 .. n : f[k] = g[k]
    BY <1>3 DEF T
<1>5. f = g
    BY <1>4
<1> QED
    BY <1>5

\* Words are in the order of the bytes (fixed_bytes.hpp).
LEMMA AllWordsHold ==
    ASSUME NEW bytes \in [1 .. FixedSize -> Octets], NEW other \in [1 .. FixedSize -> Octets]
    PROVE  WordsHold(bytes, other)
<1>1. FixedSize \in Nat /\ Octets \subseteq Int
    BY KeysAssumption, SMT DEF Octets
<1>2. bytes \in Seq(Int) /\ other \in Seq(Int) /\ Len(bytes) = FixedSize /\ Len(other) = FixedSize
  <2>1. bytes \in [1 .. FixedSize -> Int] /\ other \in [1 .. FixedSize -> Int]
    BY <1>1
  <2> QED
    BY <1>1, <2>1, IsSequence
<1>3. ToWords(bytes) \in Seq(Int) /\ ToWords(other) \in Seq(Int)
    BY WordsAreNumbers
<1>4. CASE bytes = other
  <2>1. ~LexLess(bytes, bytes) /\ ~LexLess(ToWords(bytes), ToWords(bytes))
    BY <1>2, <1>3, OneOrder
  <2> QED
    BY <1>4, <2>1, WordsComeBack DEF WordsHold
<1>5. CASE bytes # other
  <2>1. PICK i \in 1 .. FixedSize : bytes[i] # other[i] /\ \A k \in 1 .. i - 1 : bytes[k] = other[k]
    <3>1. DifferFirst(bytes, other, FixedSize)
        BY <1>1, <1>5, FirstOther
    <3> QED
        BY <3>1 DEF DifferFirst
  <2>2. \A k \in 1 .. i - 1 : other[k] = bytes[k]
    BY <2>1
  <2>3. bytes[i] < other[i] \/ other[i] < bytes[i]
    <3>1. bytes[i] \in Octets /\ other[i] \in Octets
        OBVIOUS
    <3>2. bytes[i] \in Int /\ other[i] \in Int
        BY <1>1, <3>1
    <3> QED
        BY <2>1, <3>2
  <2>4. CASE bytes[i] < other[i]
    <3>1. LexLess(bytes, other) /\ LexLess(ToWords(bytes), ToWords(other))
        BY <2>1, <2>4, WordsInOrder
    <3> QED
        BY <3>1, WordsComeBack DEF WordsHold
  <2>5. CASE other[i] < bytes[i]
    <3>1. LexLess(other, bytes) /\ LexLess(ToWords(other), ToWords(bytes))
        BY <2>2, <2>5, WordsInOrder
    <3>2. ~LexLess(bytes, other) /\ ~LexLess(ToWords(bytes), ToWords(other))
        BY <1>2, <1>3, <3>1, OneOrder
    <3> QED
        BY <3>2, WordsComeBack DEF WordsHold
  <2> QED
    BY <2>3, <2>4, <2>5
<1> QED
    BY <1>4, <1>5

-----------------------------------------------------------------------------
(* Names, symbols and assets as texts.                                     *)

\* Of the text that is not yet read, what the number has been from its first digit
\* on, which is nowhere more than it is at the end.
Grows(w, digits, first, final) ==
    /\ w \in [0 .. Len(digits) -> 0 .. final] /\ w[0] = first /\ w[Len(digits)] = final
    /\ \A i \in 1 .. Len(digits) : w[i] = 10 * w[i - 1] + digits[i]
Remains(digits, first, final) == \E w : Grows(w, digits, first, final)

\* The number to write, without and with its sign.
Magnitude(v) == IF v < 0 THEN -v ELSE v
SignOf(v) == IF v < 0 THEN -1 ELSE 1

\* What is written and not yet read makes up the number.
WriteInv ==
    given # <<>> =>
      /\ given = <<given[1]>> /\ given[1] \in Int /\ InRange(int, given[1]) /\ int \in IntTypes
      /\ text \in Seq(0 .. 9) /\ exact \in Nat /\ uvalue \in Nat
      /\ phase \in {"write", "digits", "ok"}
      /\ phase = "write" => Remains(text, uvalue, Magnitude(given[1]))
      /\ phase = "digits" => Remains(text, exact, Magnitude(given[1])) /\ (found \/ text # <<>>)
      /\ phase = "ok" => exact = Magnitude(given[1])
      /\ phase \in {"digits", "ok"} => sign = SignOf(given[1])

\* The remainder of a number that one modulus brings into range.
LEMMA Remainder ==
    ASSUME NEW m \in Nat, NEW r \in 0 .. m - 1
    PROVE  r % m = r /\ (r - m) % m = r
<1>1. m > 0
    OBVIOUS
<1>2. r % m = r
    BY <1>1
<1>3. (r - m) % m = r
    BY <1>1
<1> QED
    BY <1>2, <1>3

\* Negating an unsigned number gives the absolute value, of the lowest one too.
LEMMA MagnitudeIs ==
    ASSUME NEW t \in IntTypes, NEW v \in Lowest(t) .. t.max
    PROVE  AbsValue(t, v) = Magnitude(v) /\ Magnitude(v) \in Nat /\ v = SignOf(v) * Magnitude(v)
<1> DEFINE m == Modulus(t)
<1>1. /\ t.signed \in BOOLEAN /\ t.max \in Nat /\ v \in Int /\ v <= t.max /\ Lowest(t) <= v
      /\ m \in Nat /\ t.max < m
    BY TypeOfInt DEF Modulus
<1>2. Magnitude(v) \in Nat /\ v = SignOf(v) * Magnitude(v)
    BY <1>1 DEF Magnitude, SignOf
<1>3. CASE v >= 0
  <2> HIDE DEF m
  <2>1. v \in 0 .. m - 1
    BY <1>1, <1>3
  <2>2. v % m = v
    BY <1>1, <2>1, Remainder
  <2> QED
    BY <1>2, <1>3, <2>2 DEF AbsValue, Magnitude, m
<1>4. CASE v < 0
  <2>1. t.signed /\ m = 2 * (t.max + 1) /\ -v <= t.max + 1
    BY <1>1, <1>4 DEF Lowest, Modulus
  <2> HIDE DEF m
  <2>2. v + m \in 0 .. m - 1 /\ (v + m) - m = v /\ -v \in 0 .. m - 1 /\ -(v + m) = (-v) - m
    BY <1>1, <1>4, <2>1
  <2>3. v % m = v + m
    BY <1>1, <2>2, Remainder
  <2>4. (-(v + m)) % m = -v
    BY <1>1, <2>2, Remainder
  <2> QED
    BY <1>2, <1>4, <2>3, <2>4 DEF AbsValue, Magnitude, m
<1> QED
    BY <1>1, <1>3, <1>4

\* The client has nothing to write at first.
LEMMA WriteInvInit == IntInit => WriteInv
BY DEF IntInit, WriteInv

\* Nothing remains when the digits have been read.
LEMMA NothingRemains ==
    ASSUME NEW first, NEW final, Remains(<<>>, first, final)
    PROVE  first = final
BY DEF Remains, Grows

\* The number to write is all there is at first.
LEMMA AllRemains ==
    ASSUME NEW n \in Nat
    PROVE  Remains(<<>>, n, n)
<1> DEFINE w == [i \in 0 .. 0 |-> n]
<1>1. Len(<<>>) = 0
    OBVIOUS
<1>2. /\ w \in [0 .. 0 -> 0 .. n] /\ w[0] = n
      /\ \A i \in 1 .. 0 : w[i] = 10 * w[i - 1] + <<>>[i]
    OBVIOUS
<1> HIDE DEF w
<1>3. Grows(w, <<>>, n, n)
    BY <1>1, <1>2 DEF Grows
<1> QED
    BY <1>3 DEF Remains

\* One digit more in front of the digits.
LEMMA DigitInFront ==
    ASSUME NEW s \in Seq(0 .. 9), NEW u \in Nat, NEW n \in Nat, Remains(s, u, n),
           NEW d, NEW rest, d = u % 10, rest = u \div 10
    PROVE  <<d>> \o s \in Seq(0 .. 9) /\ <<d>> \o s # <<>> /\ rest \in Nat /\ Remains(<<d>> \o s, rest, n)
<1> DEFINE l == Len(s)
           t == <<d>> \o s
<1>3. d \in 0 .. 9 /\ rest \in Nat /\ u = 10 * rest + d /\ rest <= u
    OBVIOUS
<1>4. /\ t \in Seq(0 .. 9) /\ l \in Nat /\ Len(t) = l + 1 /\ t[1] = d
      /\ \A i \in 2 .. l + 1 : t[i] = s[i - 1]
  <2>1. <<d>> \in Seq(0 .. 9) /\ Len(<<d>>) = 1 /\ <<d>>[1] = d
    BY <1>3
  <2> QED
    BY <2>1
<1>5. PICK w : Grows(w, s, u, n)
    BY DEF Remains
<1> DEFINE v == [i \in 0 .. l + 1 |-> IF i = 0 THEN rest ELSE w[i - 1]]
<1>6. /\ w \in [0 .. l -> 0 .. n] /\ w[0] = u /\ w[l] = n
      /\ \A i \in 1 .. l : w[i] = 10 * w[i - 1] + s[i]
    BY <1>5 DEF Grows
<1> HIDE DEF l, t
<1>7. rest \in 0 .. n
  <2>1. l \in Nat /\ 0 \in 0 .. l
    BY <1>4
  <2>2. w[0] \in 0 .. n
    BY <1>6, <2>1
  <2> QED
    BY <1>3, <1>6, <2>2
<1>8. v \in [0 .. l + 1 -> 0 .. n]
  <2>1. \A i \in 0 .. l + 1 : i # 0 => i - 1 \in 0 .. l
    BY <1>4
  <2> QED
    BY <1>6, <1>7, <2>1
<1>9. v[0] = rest /\ v[l + 1] = n
    BY <1>4, <1>6
<1>10. \A i \in 1 .. l + 1 : v[i] = 10 * v[i - 1] + t[i]
  <2> SUFFICES ASSUME NEW i \in 1 .. l + 1 PROVE v[i] = 10 * v[i - 1] + t[i]
    OBVIOUS
  <2>1. CASE i = 1
    <3>1. l \in Nat /\ 0 \in 0 .. l + 1 /\ 1 \in 0 .. l + 1 /\ 1 - 1 = 0
        BY <1>4
    <3>2. v[0] = rest /\ v[1] = w[0] /\ t[1] = d
        BY <1>4, <3>1
    <3> QED
        BY <1>3, <1>6, <2>1, <3>1, <3>2
  <2>2. CASE i # 1
    <3>1. i - 1 \in 1 .. l /\ i \in 2 .. l + 1 /\ (i - 1) - 1 \in 0 .. l /\ i - 1 # 0 /\ i # 0
        BY <1>4, <2>2
    <3>2. v[i] = w[i - 1] /\ v[i - 1] = w[(i - 1) - 1]
        BY <1>4, <3>1
    <3> QED
        BY <1>4, <1>6, <3>1, <3>2
  <2> QED
    BY <2>1, <2>2
<1> HIDE DEF v
<1>11. Grows(v, t, rest, n)
    BY <1>4, <1>8, <1>9, <1>10 DEF Grows
<1>12. t # <<>>
    BY <1>4
<1> QED
    BY <1>3, <1>4, <1>11, <1>12 DEF Remains, t

\* The first digit is read.
LEMMA DigitOff ==
    ASSUME NEW s \in Seq(0 .. 9), s # <<>>, NEW u \in Nat, NEW n \in Nat, Remains(s, u, n)
    PROVE  /\ Head(s) \in 0 .. 9 /\ Tail(s) \in Seq(0 .. 9)
           /\ 10 * u + Head(s) \in 0 .. n
           /\ Remains(Tail(s), 10 * u + Head(s), n)
<1> DEFINE l == Len(s) - 1
           t == Tail(s)
           d == Head(s)
<1>1. /\ l \in Nat /\ Len(s) = l + 1 /\ d = s[1] /\ d \in 0 .. 9
      /\ t \in Seq(0 .. 9) /\ Len(t) = l /\ \A i \in 1 .. l : t[i] = s[i + 1]
    OBVIOUS
<1>2. PICK w : Grows(w, s, u, n)
    BY DEF Remains
<1> HIDE DEF l, t, d
<1>3. /\ w \in [0 .. l + 1 -> 0 .. n] /\ w[0] = u /\ w[l + 1] = n
      /\ \A i \in 1 .. l + 1 : w[i] = 10 * w[i - 1] + s[i]
    BY <1>1, <1>2 DEF Grows
<1> DEFINE v == [i \in 0 .. l |-> w[i + 1]]
<1>4. v \in [0 .. l -> 0 .. n]
    BY <1>1, <1>3
<1>5. v[0] = 10 * u + d /\ v[l] = n
  <2>1. 1 \in 1 .. l + 1 /\ 1 - 1 = 0 /\ 0 \in 0 .. l /\ l \in 0 .. l
    BY <1>1
  <2> QED
    BY <1>1, <1>3, <2>1
<1>6. \A i \in 1 .. l : v[i] = 10 * v[i - 1] + t[i]
  <2> SUFFICES ASSUME NEW i \in 1 .. l PROVE v[i] = 10 * v[i - 1] + t[i]
    OBVIOUS
  <2>1. i \in 0 .. l /\ i - 1 \in 0 .. l /\ i + 1 \in 1 .. l + 1 /\ (i + 1) - 1 = i /\ (i - 1) + 1 = i
    BY <1>1
  <2> QED
    BY <1>1, <1>3, <2>1
<1>7. v[0] \in 0 .. n
    BY <1>1, <1>4
<1> HIDE DEF v
<1>8. Grows(v, t, 10 * u + d, n)
    BY <1>1, <1>4, <1>5, <1>6 DEF Grows
<1> QED
    BY <1>1, <1>5, <1>7, <1>8 DEF Remains, t, d

\* int_to_decimal writes another digit.
LEMMA DigitWritten ==
    ASSUME WriteInv, given # <<>>, WriteDigit
    PROVE  WriteInv'
<1> DEFINE n == Magnitude(given[1])
<1>1. /\ given = <<given[1]>> /\ given[1] \in Int /\ InRange(int, given[1]) /\ int \in IntTypes
      /\ text \in Seq(0 .. 9) /\ uvalue \in Nat /\ Remains(text, uvalue, n) /\ exact \in Nat
    BY DEF WriteInv, WriteDigit
<1>2. /\ text' = <<uvalue % 10>> \o text /\ uvalue' = uvalue \div 10
      /\ UNCHANGED <<int, given, phase, exact, sign, found>> /\ phase = "write"
    BY DEF WriteDigit, reader
<1>3. n \in Nat
    BY <1>1 DEF Magnitude
<1> HIDE DEF n
<1>4. text' \in Seq(0 .. 9) /\ uvalue' \in Nat /\ Remains(text', uvalue', n)
    BY <1>1, <1>2, <1>3, DigitInFront
<1> QED
    BY <1>1, <1>2, <1>4 DEF WriteInv, InRange, n

\* The client begins to write a number.
LEMMA WriteBegun ==
    ASSUME NEW t \in IntTypes, NEW v \in Lowest(t) .. t.max, IntInv, BeginWrite(t, v)
    PROVE  WriteInv'
<1>1. /\ int' = t /\ given' = <<v>> /\ uvalue' = AbsValue(t, v) /\ text' = <<>> /\ phase' = "write"
      /\ exact' = exact
    BY DEF BeginWrite, reader
<1>2. v \in Int /\ InRange(t, v)
    BY TypeOfInt DEF InRange
<1>3. uvalue' = Magnitude(v) /\ Magnitude(v) \in Nat
    BY <1>1, MagnitudeIs
<1>4. Remains(<<>>, Magnitude(v), Magnitude(v))
    BY <1>3, AllRemains
<1>5. given'[1] = v /\ text' \in Seq(0 .. 9) /\ exact' \in Nat
    BY <1>1 DEF IntInv
<1> QED
    BY <1>1, <1>2, <1>3, <1>4, <1>5 DEF WriteInv, InRange

\* It is read from its first digit on, with its sign.
LEMMA ReadBegun ==
    ASSUME WriteInv, IntInv, ReadBack
    PROVE  WriteInv'
<1>1. /\ phase = "write" /\ uvalue = 0 /\ text # <<>> /\ UNCHANGED <<int, given, uvalue, text>>
      /\ StartReading(int, given[1] < 0)
    BY DEF ReadBack
<1>2. CASE given = <<>>
    BY <1>1, <1>2 DEF WriteInv
<1>3. CASE given # <<>>
  <2>1. /\ given = <<given[1]>> /\ given[1] \in Int /\ InRange(int, given[1]) /\ int \in IntTypes
        /\ text \in Seq(0 .. 9) /\ Remains(text, 0, Magnitude(given[1]))
    BY <1>1, <1>3 DEF WriteInv
  <2>2. ~(given[1] < 0 /\ ~int.signed)
    BY <2>1, TypeOfInt DEF InRange, Lowest
  <2>3. /\ sign' = SignOf(given[1]) /\ phase' = "digits" /\ exact' = 0 /\ found' = FALSE
    BY <1>1, <2>1, <2>2, TypeOfInt DEF StartReading, SignOf
  <2> QED
    BY <1>1, <2>1, <2>3 DEF WriteInv, InRange
<1> QED
    BY <1>2, <1>3

\* No digit of the number is refused.
LEMMA DigitRead ==
    ASSUME WriteInv, IntInv, IntInv', NEW d \in 0 .. 9, Digit(d)
    PROVE  WriteInv'
<1>1. /\ phase = "digits" /\ exact' = 10 * exact + d /\ UNCHANGED <<int, given, uvalue, sign, limit>>
      /\ \/ phase' = phase /\ found' = TRUE
         \/ phase' = "number_out_of_range"
    BY DEF Digit
<1>2. CASE given = <<>>
    BY <1>1, <1>2 DEF WriteInv
<1>3. CASE given # <<>>
  <2> DEFINE n == Magnitude(given[1])
  <2>1. /\ given = <<given[1]>> /\ given[1] \in Int /\ InRange(int, given[1]) /\ int \in IntTypes
        /\ text \in Seq(0 .. 9) /\ exact \in Nat /\ uvalue \in Nat
        /\ Remains(text, exact, n) /\ sign = SignOf(given[1])
    BY <1>1, <1>3 DEF WriteInv
  <2>2. text # <<>> /\ d = Head(text) /\ text' = Tail(text)
    BY <1>3 DEF Digit
  <2>3. n \in Nat
    BY <2>1 DEF Magnitude
  <2> HIDE DEF n
  <2>4. text' \in Seq(0 .. 9) /\ exact' \in 0 .. n /\ Remains(text', exact', n)
    BY <1>1, <2>1, <2>2, <2>3, DigitOff
  <2>5. InRange(int, sign * exact')
    <3>1. CASE given[1] < 0
        <4>1. sign = -1 /\ n = -given[1] /\ sign * exact' = -exact'
            BY <2>1, <2>4, <3>1 DEF SignOf, Magnitude, n
        <4> QED
            BY <2>1, <2>4, <4>1, TypeOfInt DEF InRange
    <3>2. CASE given[1] >= 0
        <4>1. sign = 1 /\ n = given[1] /\ sign * exact' = exact'
            BY <2>1, <2>4, <3>2 DEF SignOf, Magnitude, n
        <4>2. Lowest(int) <= 0 /\ int.max \in Nat /\ Lowest(int) \in Int
            BY <2>1, TypeOfInt DEF Lowest
        <4> QED
            BY <2>1, <2>4, <4>1, <4>2 DEF InRange
    <3> QED
        BY <2>1, <3>1, <3>2
  <2>6. phase' # "number_out_of_range"
    BY <1>1, <2>5 DEF IntInv, ReadsExactly, InRange, Lowest
  <2>7. phase' = "digits" /\ found' = TRUE
    BY <1>1, <2>6
  <2> QED
    BY <1>1, <2>1, <2>4, <2>7 DEF WriteInv, InRange, n
<1> QED
    BY <1>2, <1>3

\* It ends where the text does.
LEMMA ReadEnds ==
    ASSUME WriteInv, IntInv, NEW end \in BOOLEAN, Finish(end)
    PROVE  WriteInv'
<1>1. /\ phase = "digits" /\ (given # <<>> => end /\ text = <<>>)
      /\ phase' = (IF end /\ found THEN "ok" ELSE "expected_int")
      /\ UNCHANGED <<int, given, uvalue, text, exact, sign, found>>
    BY DEF Finish, reader
<1>2. CASE given = <<>>
    BY <1>1, <1>2 DEF WriteInv
<1>3. CASE given # <<>>
  <2>1. /\ given = <<given[1]>> /\ given[1] \in Int /\ InRange(int, given[1]) /\ int \in IntTypes
        /\ text \in Seq(0 .. 9) /\ exact \in Nat /\ uvalue \in Nat
        /\ Remains(text, exact, Magnitude(given[1])) /\ sign = SignOf(given[1])
        /\ (found \/ text # <<>>)
    BY <1>1, <1>3 DEF WriteInv
  <2>2. end /\ text = <<>> /\ phase' = "ok"
    BY <1>1, <1>3, <2>1
  <2>3. exact = Magnitude(given[1])
    BY <2>1, <2>2, NothingRemains
  <2> QED
    BY <1>1, <2>1, <2>2, <2>3 DEF WriteInv, InRange
<1> QED
    BY <1>2, <1>3

\* No step of the integers breaks it.
LEMMA WriteInvNext ==
    ASSUME WriteInv, IntInv, IntInv', [IntNext]_intVars
    PROVE  WriteInv'
<1>1. CASE \E t \in IntTypes, minus \in BOOLEAN : BeginRead(t, minus)
    BY <1>1 DEF BeginRead, WriteInv
<1>2. CASE \E t \in IntTypes : \E v \in Lowest(t) .. t.max : BeginWrite(t, v)
    BY <1>2, WriteBegun
<1>3. CASE WriteDigit
  <2>1. CASE given = <<>>
    BY <1>3, <2>1 DEF WriteDigit, WriteInv
  <2> QED
    BY <1>3, <2>1, DigitWritten
<1>4. CASE ReadBack
    BY <1>4, ReadBegun
<1>5. CASE \E d \in 0 .. 9 : Digit(d)
    BY <1>5, DigitRead
<1>6. CASE \E end \in BOOLEAN : Finish(end)
    BY <1>6, ReadEnds
<1>7. CASE UNCHANGED intVars
    BY <1>7 DEF intVars, WriteInv, InRange, reader
<1> QED
    BY <1>1, <1>2, <1>3, <1>4, <1>5, <1>6, <1>7 DEF IntNext

\* Then the number is what is read.
LEMMA WrittenIsRead == WriteInv /\ IntInv => IntegerComesBack
<1> SUFFICES ASSUME WriteInv, IntInv, given # <<>>, IntEnded PROVE phase = "ok" /\ result = given[1]
    BY DEF IntegerComesBack
<1>1. /\ given[1] \in Int /\ InRange(int, given[1]) /\ int \in IntTypes
      /\ phase = "ok" /\ exact = Magnitude(given[1]) /\ sign = SignOf(given[1])
    BY DEF WriteInv, IntEnded
<1>2. result = sign * exact
    BY <1>1 DEF IntInv, ReadsExactly
<1>3. given[1] \in Lowest(int) .. int.max
    BY <1>1, TypeOfInt DEF InRange
<1>4. given[1] = SignOf(given[1]) * Magnitude(given[1])
    BY <1>1, <1>3, MagnitudeIs
<1> QED
    BY <1>1, <1>2, <1>4

\* Every integer is read as what it was from the text that is written for it, the
\* lowest of a type too, which has no opposite (to_json.hpp, from_json.hpp:387).
THEOREM IntegersComeBack == IntSpec => []IntegerComesBack
<1>1. IntInit => IntInv /\ WriteInv
    BY IntInvInit, WriteInvInit
<1>2. IntInv /\ WriteInv /\ [IntNext]_intVars => IntInv' /\ WriteInv'
    BY IntInvNext, WriteInvNext
<1>3. IntInv /\ WriteInv => IntegerComesBack
    BY WrittenIsRead
<1> QED
    BY <1>1, <1>2, <1>3, PTL DEF IntSpec

\* The characters of names are 32 different ones.
LEMMA CharsDiffer ==
    /\ DOMAIN Charmap = 1 .. 32 /\ Charmap[1] = "."
    /\ \A i \in 1 .. 32 : \A j \in 1 .. 32 : Charmap[i] = Charmap[j] => i = j
<1>1. DOMAIN Charmap = 1 .. 32
    BY DEF Charmap
<1>2. Charmap[1] = "."
    BY DEF Charmap
<1>3. ASSUME NEW i \in 1 .. 32, NEW j \in 1 .. 32, Charmap[i] = Charmap[j] PROVE i = j
    BY <1>3 DEF Charmap
<1> QED
    BY <1>1, <1>2, <1>3

\* Each of them is one digit, and each digit one of them.
LEMMA CharDigits ==
    /\ \A d \in 0 .. 31 : IsNameChar(Charmap[d + 1]) /\ DigitOf[Charmap[d + 1]] = d
    /\ \A c : IsNameChar(c) => DigitOf[c] \in 0 .. 31 /\ Charmap[DigitOf[c] + 1] = c
<1>1. DOMAIN DigitOf = {Charmap[i] : i \in 1 .. 32}
    BY CharsDiffer DEF DigitOf, ToSet
<1>2. ASSUME NEW c, IsNameChar(c)
      PROVE  DigitOf[c] \in 0 .. 31 /\ Charmap[DigitOf[c] + 1] = c
  <2>1. PICK i \in 1 .. 32 : Charmap[i] = c
    BY <1>1, <1>2 DEF IsNameChar
  <2>2. i - 1 \in 0 .. 31 /\ Charmap[(i - 1) + 1] = c
    BY <2>1
  <2>3. DigitOf[c] = CHOOSE d \in 0 .. 31 : Charmap[d + 1] = c
    BY <1>2 DEF DigitOf, IsNameChar
  <2> QED
    BY <2>2, <2>3
<1>3. ASSUME NEW d \in 0 .. 31
      PROVE  IsNameChar(Charmap[d + 1]) /\ DigitOf[Charmap[d + 1]] = d
  <2>1. d + 1 \in 1 .. 32
    OBVIOUS
  <2>2. IsNameChar(Charmap[d + 1])
    BY <1>1, <2>1 DEF IsNameChar
  <2>3. DigitOf[Charmap[d + 1]] \in 0 .. 31 /\ Charmap[DigitOf[Charmap[d + 1]] + 1] = Charmap[d + 1]
    BY <1>2, <2>2
  <2> DEFINE e == DigitOf[Charmap[d + 1]]
  <2> HIDE DEF e
  <2>4. e \in 0 .. 31 /\ Charmap[e + 1] = Charmap[d + 1]
    BY <2>3 DEF e
  <2>5. e + 1 \in 1 .. 32
    BY <2>4
  <2>6. e + 1 = d + 1
    BY <2>1, <2>4, <2>5, CharsDiffer
  <2>7. e = d
    BY <2>4, <2>6
  <2> QED
    BY <2>2, <2>7 DEF e
<1> QED
    BY <1>2, <1>3


\* The highest place of a set.
IsHighest(i, S) == i \in S /\ \A j \in S : j <= i
Highest(S) == CHOOSE i \in S : \A j \in S : j <= i

\* Every set of places has one, if it is not empty.
LEMMA HighestIs ==
    ASSUME NEW n \in Nat, NEW S \in SUBSET (1 .. n), S # {}
    PROVE  IsHighest(Highest(S), S)
<1> DEFINE T == {k \in Nat : (\E i \in S : i <= k) => \E i \in S : i <= k /\ \A j \in S : j <= k => j <= i}
<1>1. 0 \in T
    OBVIOUS
<1>2. ASSUME NEW k \in Nat, k \in T PROVE k + 1 \in T
  <2>1. CASE k + 1 \in S
    <3>1. \A j \in S : j <= k + 1 => j <= k + 1
        OBVIOUS
    <3> QED
        BY <2>1, <3>1
  <2>2. CASE k + 1 \notin S
    <3>1. \A i \in S : i <= k + 1 <=> i <= k
        BY <2>2
    <3> QED
        BY <1>2, <3>1
  <2> QED
    BY <2>1, <2>2
<1> HIDE DEF T
<1>3. n \in T
    BY <1>1, <1>2, NatInduct
<1>4. \A i \in S : i <= n
    OBVIOUS
<1>5. \E i \in S : \A j \in S : j <= i
    BY <1>3, <1>4 DEF T
<1>6. Highest(S) \in S /\ \A j \in S : j <= Highest(S)
    BY <1>5, Zenon DEF Highest
<1> QED
    BY <1>6 DEF IsHighest

\* The last place of a name at which there is something: that of the last one that
\* is no dot.
EndsAt(name, n) ==
    /\ n \in 0 .. NameLength /\ (n # 0 => name[n] # Dot)
    /\ \A i \in n + 1 .. NameLength : name[i] = Dot
\* There is one such place.
LEMMA EndUnique ==
    ASSUME NEW name, NEW n, NEW m, EndsAt(name, n), EndsAt(name, m)
    PROVE  n = m
<1>1. NameLength \in Nat /\ n \in Nat /\ m \in Nat /\ n <= NameLength /\ m <= NameLength
    BY NameAssumption DEF EndsAt
<1>2. ASSUME n < m PROVE FALSE
  <2>1. m \in n + 1 .. NameLength /\ m # 0
    BY <1>1, <1>2
  <2> QED
    BY <2>1 DEF EndsAt
<1>3. ASSUME m < n PROVE FALSE
  <2>1. n \in m + 1 .. NameLength /\ n # 0
    BY <1>1, <1>3
  <2> QED
    BY <2>1 DEF EndsAt
<1> QED
    BY <1>1, <1>2, <1>3
\* name_to_string finds it.
LEMMA EndFound ==
    ASSUME NEW name, DOMAIN name = 1 .. NameLength
    PROVE  EndsAt(name, LastNotDot(name))
<1> DEFINE used == {i \in DOMAIN name : name[i] # Dot}
           n == LastNotDot(name)
<1>1. NameLength \in Nat /\ used \in SUBSET (1 .. NameLength)
    BY NameAssumption
<1>2. CASE used = {}
  <2>1. n = 0
    BY <1>2 DEF LastNotDot
  <2> QED
    BY <1>1, <1>2, <2>1 DEF EndsAt
<1>3. CASE used # {}
  <2>1. n = Highest(used)
    BY <1>3 DEF LastNotDot, Highest
  <2> HIDE DEF n
  <2>2. IsHighest(n, used)
    BY <1>1, <1>3, <2>1, HighestIs
  <2>3. n \in 1 .. NameLength /\ name[n] # Dot /\ \A j \in used : j <= n
    BY <1>1, <2>2 DEF IsHighest
  <2>4. \A i \in n + 1 .. NameLength : i \in 1 .. NameLength /\ ~(i <= n)
    BY <1>1, <2>3
  <2> QED
    BY <1>1, <2>3, <2>4 DEF EndsAt, n
<1> QED
    BY <1>2, <1>3

\* Every name comes back from its text.
LEMMA AllNamesComeBack ==
    ASSUME NEW name \in [1 .. NameLength -> 0 .. 31], name[NameLength] < 16
    PROVE  NameComesBack(name)
<1> DEFINE n == LastNotDot(name)
           t == NameToString(name)
<1>1. NameLength \in Nat /\ NameLength > 1
    BY NameAssumption
<1>2. EndsAt(name, n)
    BY EndFound
<1>3. t = [i \in 1 .. n |-> Charmap[name[i] + 1]]
    BY DEF NameToString
<1> HIDE DEF n, t
<1>4. n \in 0 .. NameLength /\ \A i \in n + 1 .. NameLength : name[i] = 0
    BY <1>2 DEF EndsAt, Dot
<1>5. DOMAIN t = 1 .. n /\ Len(t) = n
    BY <1>1, <1>3, <1>4
<1>6. ASSUME NEW i \in 1 .. n PROVE IsNameChar(t[i]) /\ DigitAt(t, i) = name[i]
  <2>1. i \in 1 .. NameLength
    BY <1>1, <1>4
  <2>2. name[i] \in 0 .. 31 /\ t[i] = Charmap[name[i] + 1]
    BY <1>3, <2>1
  <2>3. IsNameChar(t[i]) /\ DigitOf[t[i]] = name[i]
    BY <2>2, CharDigits
  <2> QED
    BY <1>5, <2>3 DEF DigitAt, LooseDigit
<1>7. ~(\E i \in DOMAIN t : i <= NameLength /\ ~IsNameChar(t[i]))
    BY <1>5, <1>6
<1>8. ~(Len(t) >= NameLength /\ DigitAt(t, NameLength) >= Bits(NameLength))
  <2>1. ASSUME n >= NameLength PROVE ~(DigitAt(t, NameLength) >= 16)
    <3>1. NameLength \in 1 .. n /\ NameLength \in 1 .. NameLength
        BY <1>1, <1>4, <2>1
    <3> DEFINE d == name[NameLength]
    <3>2. d \in 0 .. 31 /\ d < 16
        BY <3>1
    <3>3. DigitAt(t, NameLength) = d
        BY <1>6, <3>1
    <3> HIDE DEF d
    <3> QED
        BY <3>2, <3>3
  <2>2. Bits(NameLength) = 16
    BY DEF Bits
  <2> QED
    BY <1>5, <2>1, <2>2
<1>9. NameError(t) = "ok"
    BY <1>1, <1>4, <1>5, <1>7, <1>8 DEF NameError
<1>10. ASSUME NEW i \in 1 .. NameLength PROVE DigitAt(t, i) % Bits(i) = name[i]
  <2> DEFINE d == name[i]
  <2>1. d \in 0 .. 31 /\ (i = NameLength => d < 16)
    OBVIOUS
  <2>2. DigitAt(t, i) = d
    <3>1. CASE i \in 1 .. n
        BY <1>6, <3>1
    <3>2. CASE i \notin 1 .. n
        <4>1. i \in n + 1 .. NameLength
            BY <1>1, <1>4, <3>2
        <4> QED
            BY <1>4, <1>5, <3>2, <4>1 DEF DigitAt, Dot
    <3> QED
        BY <3>1, <3>2
  <2> HIDE DEF d
  <2>3. d % Bits(i) = d
    BY <2>1 DEF Bits
  <2> QED
    BY <2>2, <2>3 DEF d
<1>11. StringToName(t) = name
    BY <1>10 DEF StringToName
<1> QED
    BY <1>9, <1>11 DEF NameComesBack, HashName, t


\* A text of characters of names, and the name that has their digits.
Spells(name, s) ==
    /\ DOMAIN name = 1 .. NameLength
    /\ Len(s) \in Nat /\ Len(s) <= NameLength /\ DOMAIN s = 1 .. Len(s)
    /\ \A i \in 1 .. Len(s) : name[i] \in 0 .. 31 /\ Charmap[name[i] + 1] = s[i]
    /\ \A i \in Len(s) + 1 .. NameLength : name[i] = Dot

\* The digit 0 is the dot.
LEMMA DotIs == \A d \in 0 .. 31 : Charmap[d + 1] = "." <=> d = Dot
<1> SUFFICES ASSUME NEW d \in 0 .. 31 PROVE Charmap[d + 1] = "." <=> d = 0
    BY DEF Dot
<1>1. d + 1 \in 1 .. 32 /\ 1 \in 1 .. 32 /\ (d = 0 <=> d + 1 = 1)
    OBVIOUS
<1> QED
    BY <1>1, CharsDiffer

\* The text that is read is spelled by the name.
LEMMA ReadSpells ==
    ASSUME NEW S, NEW s \in Seq(S), NameError(s) = "ok"
    PROVE  Spells(StringToName(s), s)
<1> DEFINE name == StringToName(s)
           n == Len(s)
<1>1. NameLength \in Nat /\ NameLength > 1 /\ n \in Nat /\ DOMAIN s = 1 .. n
    BY NameAssumption
<1>2. /\ \A i \in DOMAIN s : i <= NameLength => IsNameChar(s[i])
      /\ n >= NameLength => ~(DigitAt(s, NameLength) >= Bits(NameLength))
      /\ ~(n > NameLength)
    BY DEF NameError
<1>3. name = [i \in 1 .. NameLength |-> DigitAt(s, i) % Bits(i)]
    BY DEF StringToName
<1> HIDE DEF name, n
<1>4. n <= NameLength
    BY <1>1, <1>2
<1>5. ASSUME NEW i \in 1 .. n PROVE name[i] \in 0 .. 31 /\ Charmap[name[i] + 1] = s[i]
  <2> DEFINE d == DigitOf[s[i]]
  <2>1. i \in 1 .. NameLength /\ i <= NameLength /\ IsNameChar(s[i])
    BY <1>1, <1>2, <1>4
  <2>2. d \in 0 .. 31 /\ Charmap[d + 1] = s[i] /\ DigitAt(s, i) = d
    BY <1>1, <2>1, CharDigits DEF DigitAt, LooseDigit
  <2>3. i = NameLength => ~(d >= 16)
    <3> SUFFICES ASSUME i = NameLength PROVE ~(d >= 16)
        OBVIOUS
    <3>1. n >= NameLength /\ Bits(i) = 16
        BY <1>1 DEF Bits
    <3> QED
        BY <1>2, <2>2, <3>1
  <2> HIDE DEF d
  <2>4. d % Bits(i) = d
    BY <2>2, <2>3 DEF Bits
  <2>5. name[i] = d
    BY <1>3, <2>1, <2>2, <2>4
  <2> QED
    BY <2>2, <2>5
<1>6. ASSUME NEW i \in n + 1 .. NameLength PROVE name[i] = Dot
  <2>1. i \in 1 .. NameLength /\ i \notin 1 .. n
    BY <1>1
  <2>2. DigitAt(s, i) = 0
    BY <1>1, <2>1 DEF DigitAt, Dot
  <2>3. 0 % Bits(i) = 0
    BY DEF Bits
  <2> QED
    BY <1>3, <2>1, <2>2, <2>3 DEF Dot
<1>7. DOMAIN name = 1 .. NameLength
    BY <1>3
<1> QED
    BY <1>1, <1>4, <1>5, <1>6, <1>7 DEF Spells, name, n

\* Where the text ends that is spelled, without the dots at its end.
LEMMA SpelledEnd ==
    ASSUME NEW name, NEW S, NEW s \in Seq(S), Spells(name, s), NEW n, n = LastNotDot(name)
    PROVE  /\ Trimmed(s) = SubSeq(s, 1, n) /\ n \in 0 .. Len(s)
           /\ n # 0 => s[n] # "."
           /\ NameToString(name) = [i \in 1 .. n |-> s[i]]
<1> DEFINE used == {i \in DOMAIN s : s[i] # "."}
           l == Len(s)
<1>1. /\ NameLength \in Nat /\ l \in Nat /\ DOMAIN s = 1 .. l /\ l <= NameLength
      /\ \A i \in 1 .. l : name[i] \in 0 .. 31 /\ Charmap[name[i] + 1] = s[i]
      /\ \A i \in l + 1 .. NameLength : name[i] = Dot
    BY NameAssumption DEF Spells
<1>2. EndsAt(name, n)
    BY EndFound DEF Spells
<1>3. n \in 0 .. NameLength /\ (n # 0 => name[n] # Dot) /\ \A i \in n + 1 .. NameLength : name[i] = Dot
    BY <1>2 DEF EndsAt
<1> HIDE DEF l
<1>4. n \in 0 .. l
  <2>1. CASE n > l
    <3>1. n \in l + 1 .. NameLength /\ n # 0
        BY <1>1, <1>3, <2>1
    <3>2. name[n] = Dot
        BY <1>1, <3>1
    <3> QED
        BY <1>3, <3>1, <3>2
  <2> QED
    BY <1>1, <1>3, <2>1
<1>5. \A i \in 1 .. l : s[i] = "." <=> name[i] = Dot
    BY <1>1, DotIs
<1>6. n # 0 => n \in 1 .. l /\ s[n] # "."
    BY <1>3, <1>4, <1>5
<1>7. \A i \in used : i <= n
  <2> SUFFICES ASSUME NEW i \in 1 .. l, s[i] # ".", ~(i <= n) PROVE FALSE
    BY <1>1
  <2>1. i \in n + 1 .. NameLength
    BY <1>1, <1>3
  <2> QED
    BY <1>3, <1>5, <2>1
<1>8. Trimmed(s) = SubSeq(s, 1, n)
  <2>1. CASE used = {}
    <3>1. n = 0
        BY <1>1, <1>6, <2>1
    <3>2. Trimmed(s) = <<>>
        BY <2>1 DEF Trimmed
    <3>3. SubSeq(s, 1, 0) = <<>>
        OBVIOUS
    <3> QED
        BY <3>1, <3>2, <3>3
  <2>2. CASE used # {}
    <3>1. Trimmed(s) = SubSeq(s, 1, Highest(used))
        BY <2>2 DEF Trimmed, Highest
    <3>2. IsHighest(Highest(used), used)
      <4>1. used \in SUBSET (1 .. l) /\ l \in Nat
        BY <1>1
      <4> HIDE DEF used
      <4> QED
        BY <2>2, <4>1, HighestIs
    <3> DEFINE h == Highest(used)
    <3> HIDE DEF h
    <3>3. h \in 1 .. l /\ s[h] # "." /\ \A j \in used : j <= h
        BY <1>1, <3>2 DEF IsHighest, h
    <3>4. h <= n /\ n # 0
        BY <1>1, <1>4, <1>7, <3>3
    <3>5. n \in used
        BY <1>1, <1>6, <3>4
    <3>6. n = h
        BY <1>4, <3>3, <3>4, <3>5
    <3> QED
        BY <3>1, <3>6 DEF h
  <2> QED
    BY <2>1, <2>2
<1>9. NameToString(name) = [i \in 1 .. n |-> s[i]]
  <2>1. \A i \in 1 .. n : Charmap[name[i] + 1] = s[i]
    BY <1>1, <1>4
  <2> QED
    BY <2>1 DEF NameToString
<1> QED
    BY <1>4, <1>6, <1>8, <1>9 DEF l

\* A front part of a sequence.
LEMMA FrontIs ==
    ASSUME NEW S, NEW s \in Seq(S), NEW n \in 0 .. Len(s)
    PROVE  /\ SubSeq(s, 1, n) \in Seq(S) /\ Len(SubSeq(s, 1, n)) = n
           /\ SubSeq(s, 1, n) = [i \in 1 .. n |-> s[i]]
           /\ \A i \in 1 .. n : SubSeq(s, 1, n)[i] = s[i]
OBVIOUS

\* What is written for the name is the text without the dots at its end.
LEMMA SpelledText ==
    ASSUME NEW name, NEW S, NEW s \in Seq(S), Spells(name, s)
    PROVE  /\ NameToString(name) = Trimmed(s)
           /\ Trimmed(s) \in Seq(S) /\ Len(Trimmed(s)) = LastNotDot(name)
           /\ Spells(name, Trimmed(s))
<1> DEFINE n == LastNotDot(name)
           t == SubSeq(s, 1, n)
<1> HIDE DEF n
<1>1. /\ Trimmed(s) = t /\ n \in 0 .. Len(s)
      /\ NameToString(name) = [i \in 1 .. n |-> s[i]]
    BY SpelledEnd DEF n
<1>2. t \in Seq(S) /\ Len(t) = n /\ t = [i \in 1 .. n |-> s[i]] /\ \A i \in 1 .. n : t[i] = s[i]
    BY <1>1, FrontIs
<1> HIDE DEF t
<1>3. DOMAIN t = 1 .. n
    BY <1>2
<1>4. EndsAt(name, n)
    BY EndFound DEF Spells, n
<1>5. Spells(name, t)
    BY <1>1, <1>2, <1>3, <1>4, NameAssumption DEF Spells, EndsAt
<1> QED
    BY <1>1, <1>2, <1>5 DEF n


\* The last dot that something follows, of the name and of its text.
IsDivision(name, s, dot) ==
    /\ dot \in 0 .. Len(s) /\ (dot # 0 => dot < Len(s))
    /\ Suffix(name) = [i \in 1 .. NameLength |-> IF i + dot <= NameLength THEN name[i + dot] ELSE Dot]
    /\ Prefix(name) = (IF dot = 0 THEN name ELSE [i \in 1 .. NameLength |-> IF i < dot THEN name[i] ELSE Dot])
    /\ After(s) = (IF dot = 0 THEN s ELSE SubSeq(s, dot + 1, Len(s)))
    /\ Before(s) = (IF dot = 0 THEN s ELSE SubSeq(s, 1, dot - 1))
\* The same place divides the name and its text.
LEMMA SameDivision ==
    ASSUME NEW name, NEW S, NEW s \in Seq(S), Spells(name, s), Len(s) = LastNotDot(name)
    PROVE  \E dot : IsDivision(name, s, dot)
<1> DEFINE l == Len(s)
           D == Dots(s)
<1>1. /\ NameLength \in Nat /\ l \in Nat /\ DOMAIN s = 1 .. l /\ l <= NameLength
      /\ \A i \in 1 .. l : name[i] \in 0 .. 31 /\ Charmap[name[i] + 1] = s[i]
      /\ \A i \in l + 1 .. NameLength : name[i] = Dot
    BY NameAssumption DEF Spells
<1>2. EndsAt(name, l)
    BY EndFound DEF Spells
<1>3. l # 0 => name[l] # Dot
    BY <1>2 DEF EndsAt
<1>4. D = {i \in 1 .. l : s[i] = "."}
    BY <1>1 DEF Dots
<1>5. \A i \in 1 .. l : s[i] = "." <=> name[i] = Dot
    BY <1>1, DotIs
<1> HIDE DEF l, D
<1>6. ActualDots(name) = D
  <2>1. ASSUME NEW i \in D PROVE i \in ActualDots(name)
    <3>1. i \in 1 .. l /\ name[i] = Dot /\ i # l
        BY <1>3, <1>4, <1>5
    <3>2. i \in 1 .. NameLength - 1 /\ l \in i + 1 .. NameLength /\ name[l] # Dot
        BY <1>1, <1>3, <3>1
    <3> QED
        BY <3>1, <3>2 DEF ActualDots
  <2>2. ASSUME NEW i \in ActualDots(name) PROVE i \in D
    <3>1. i \in 1 .. NameLength - 1 /\ name[i] = Dot /\ \E j \in i + 1 .. NameLength : name[j] # Dot
        BY DEF ActualDots
    <3>2. PICK j \in i + 1 .. NameLength : name[j] # Dot
        BY <3>1
    <3>3. j \notin l + 1 .. NameLength
        BY <1>1, <3>2
    <3>4. i \in 1 .. l
        BY <1>1, <3>1, <3>2, <3>3
    <3> QED
        BY <1>4, <1>5, <3>1, <3>4
  <2> QED
    BY <2>1, <2>2
<1> DEFINE dot == LastActualDot(name)
<1>7. CASE D = {}
  <2>1. dot = 0
    BY <1>6, <1>7 DEF LastActualDot
  <2>2. After(s) = s /\ Before(s) = s
    BY <1>7 DEF After, Before, D
  <2> HIDE DEF dot
  <2>3. IsDivision(name, s, 0)
    BY <1>1, <2>1, <2>2 DEF IsDivision, Suffix, Prefix, dot, l
  <2> QED
    BY <2>3
<1>8. CASE D # {}
  <2>1. dot = Highest(D) /\ LastDot(s) = Highest(D)
    BY <1>6, <1>8 DEF LastActualDot, LastDot, Highest, D
  <2>2. After(s) = SubSeq(s, dot + 1, l) /\ Before(s) = SubSeq(s, 1, dot - 1)
    BY <1>8, <2>1 DEF After, Before, D, l
  <2>3. Suffix(name) = [i \in 1 .. NameLength |-> IF i + dot <= NameLength THEN name[i + dot] ELSE Dot]
    BY DEF Suffix
  <2>4. Prefix(name) = (IF dot = 0 THEN name ELSE [i \in 1 .. NameLength |-> IF i < dot THEN name[i] ELSE Dot])
    BY DEF Prefix
  <2> HIDE DEF dot
  <2>5. D \in SUBSET (1 .. l)
    BY <1>4
  <2>6. IsHighest(dot, D)
    BY <1>1, <1>8, <2>1, <2>5, HighestIs
  <2>7. dot \in 1 .. l /\ dot # l
    BY <1>3, <1>4, <1>5, <2>6 DEF IsHighest
  <2>8. dot \in 0 .. l /\ dot < l /\ dot # 0
    BY <1>1, <2>7
  <2>9. IsDivision(name, s, dot)
    BY <2>2, <2>3, <2>4, <2>8 DEF IsDivision, l
  <2> QED
    BY <2>9
<1> QED
    BY <1>7, <1>8

\* What follows a place.
LEMMA RearIs ==
    ASSUME NEW S, NEW s \in Seq(S), NEW k \in 0 .. Len(s)
    PROVE  /\ SubSeq(s, k + 1, Len(s)) \in Seq(S) /\ Len(SubSeq(s, k + 1, Len(s))) = Len(s) - k
           /\ \A i \in 1 .. Len(s) - k : SubSeq(s, k + 1, Len(s))[i] = s[i + k]
OBVIOUS

\* The suffix is spelled by what follows the last dot.
IsRear(name, s, dot, S) ==
    After(s) \in Seq(S) /\ Spells(Suffix(name), After(s)) /\ Len(After(s)) = Len(s) - dot
\* So the suffix is spelled by the rest of the text.
LEMMA SuffixSpelled ==
    ASSUME NEW name, NEW S, NEW s \in Seq(S), Spells(name, s), NEW dot, IsDivision(name, s, dot)
    PROVE  IsRear(name, s, dot, S)
<1> DEFINE l == Len(s)
           a == SubSeq(s, dot + 1, l)
           f == Suffix(name)
<1>1. /\ NameLength \in Nat /\ l \in Nat /\ DOMAIN s = 1 .. l /\ l <= NameLength /\ DOMAIN name = 1 .. NameLength
      /\ \A i \in 1 .. l : name[i] \in 0 .. 31 /\ Charmap[name[i] + 1] = s[i]
      /\ \A i \in l + 1 .. NameLength : name[i] = Dot
    BY NameAssumption DEF Spells
<1>2. /\ dot \in 0 .. l
      /\ f = [i \in 1 .. NameLength |-> IF i + dot <= NameLength THEN name[i + dot] ELSE Dot]
      /\ After(s) = (IF dot = 0 THEN s ELSE a)
    BY DEF IsDivision
<1>3. a \in Seq(S) /\ Len(a) = l - dot /\ \A i \in 1 .. l - dot : a[i] = s[i + dot]
    BY <1>2, RearIs
<1>4. After(s) = a
  <2>1. SubSeq(s, 1, l) = s
    OBVIOUS
  <2>2. dot = 0 => a = s
    BY <2>1
  <2> QED
    BY <1>2, <2>2
<1> HIDE DEF l, a, f
<1>5. DOMAIN a = 1 .. l - dot /\ l - dot \in Nat /\ l - dot <= NameLength
    BY <1>1, <1>2, <1>3
<1>6. ASSUME NEW i \in 1 .. l - dot PROVE f[i] \in 0 .. 31 /\ Charmap[f[i] + 1] = a[i]
  <2>1. i + dot \in 1 .. l /\ i \in 1 .. NameLength /\ i + dot <= NameLength
    BY <1>1, <1>2
  <2>2. f[i] = name[i + dot]
    BY <1>2, <2>1
  <2> QED
    BY <1>1, <1>3, <2>1, <2>2
<1>7. ASSUME NEW i \in (l - dot) + 1 .. NameLength PROVE f[i] = Dot
  <2>1. i \in 1 .. NameLength /\ (i + dot <= NameLength => i + dot \in l + 1 .. NameLength)
    BY <1>1, <1>2
  <2> QED
    BY <1>1, <1>2, <2>1
<1>8. DOMAIN f = 1 .. NameLength
    BY <1>2
<1> QED
    BY <1>3, <1>4, <1>5, <1>6, <1>7, <1>8 DEF IsRear, Spells, l, f

\* The prefix is spelled by what is before it.
LEMMA PrefixSpelled ==
    ASSUME NEW name, NEW S, NEW s \in Seq(S), Spells(name, s), NEW dot, IsDivision(name, s, dot)
    PROVE  Before(s) \in Seq(S) /\ Spells(Prefix(name), Before(s))
<1> DEFINE l == Len(s)
           a == SubSeq(s, 1, dot - 1)
           f == Prefix(name)
<1>1. /\ NameLength \in Nat /\ l \in Nat /\ DOMAIN s = 1 .. l /\ l <= NameLength /\ DOMAIN name = 1 .. NameLength
      /\ \A i \in 1 .. l : name[i] \in 0 .. 31 /\ Charmap[name[i] + 1] = s[i]
      /\ \A i \in l + 1 .. NameLength : name[i] = Dot
    BY NameAssumption DEF Spells
<1>2. /\ dot \in 0 .. l
      /\ f = (IF dot = 0 THEN name ELSE [i \in 1 .. NameLength |-> IF i < dot THEN name[i] ELSE Dot])
      /\ Before(s) = (IF dot = 0 THEN s ELSE a)
    BY DEF IsDivision
<1>3. CASE dot = 0
    BY <1>2, <1>3
<1>4. CASE dot # 0
  <2> DEFINE k == dot - 1
  <2>1. k \in 0 .. l /\ dot = k + 1
    BY <1>1, <1>2, <1>4
  <2>2. a \in Seq(S) /\ Len(a) = k /\ \A i \in 1 .. k : a[i] = s[i]
    BY <2>1, FrontIs
  <2>3. f = [i \in 1 .. NameLength |-> IF i < dot THEN name[i] ELSE Dot] /\ Before(s) = a
    BY <1>2, <1>4
  <2> HIDE DEF k, a, f, l
  <2>4. DOMAIN a = 1 .. k /\ k \in Nat /\ k <= NameLength /\ DOMAIN f = 1 .. NameLength
    BY <1>1, <2>1, <2>2, <2>3
  <2>5. ASSUME NEW i \in 1 .. k PROVE f[i] \in 0 .. 31 /\ Charmap[f[i] + 1] = a[i]
    <3>1. i \in 1 .. l /\ i \in 1 .. NameLength /\ i < dot
        BY <1>1, <2>1
    <3>2. f[i] = name[i]
        BY <2>3, <3>1
    <3> QED
        BY <1>1, <2>2, <3>1, <3>2
  <2>6. ASSUME NEW i \in k + 1 .. NameLength PROVE f[i] = Dot
    <3>1. i \in 1 .. NameLength /\ ~(i < dot)
        BY <1>1, <2>1
    <3> QED
        BY <2>3, <3>1
  <2> QED
    BY <2>2, <2>3, <2>4, <2>5, <2>6 DEF Spells, f
<1> QED
    BY <1>3, <1>4

\* A name that is read is its text, and so are its suffix, prefix and length
\* (name.hpp).
LEMMA AllNamesMean ==
    ASSUME NEW S, NEW s \in Seq(S)
    PROVE  NameMeans(s)
<1> SUFFICES ASSUME NameError(s) = "ok"
             PROVE  LET name == StringToName(s) IN
                    /\ NameToString(name) = Trimmed(s)
                    /\ NameLen(name) = Len(Trimmed(s))
                    /\ NameToString(Suffix(name)) = After(Trimmed(s))
                    /\ NameToString(Prefix(name)) = Trimmed(Before(Trimmed(s)))
    BY DEF NameMeans
<1> DEFINE name == StringToName(s)
           t == Trimmed(s)
<1>1. Spells(name, s)
    BY ReadSpells
<1> HIDE DEF name
<1>2. /\ NameToString(name) = t /\ t \in Seq(S) /\ Len(t) = LastNotDot(name) /\ Spells(name, t)
    BY <1>1, SpelledText
<1> HIDE DEF t
<1>3. PICK dot : IsDivision(name, t, dot)
    BY <1>2, SameDivision
<1>4. After(t) \in Seq(S) /\ Spells(Suffix(name), After(t)) /\ Len(After(t)) = Len(t) - dot
  <2>1. IsRear(name, t, dot, S)
    BY <1>2, <1>3, SuffixSpelled
  <2> QED
    BY <2>1 DEF IsRear
<1>5. Before(t) \in Seq(S) /\ Spells(Prefix(name), Before(t))
    BY <1>2, <1>3, PrefixSpelled
<1>6. NameToString(Prefix(name)) = Trimmed(Before(t))
    BY <1>5, SpelledText
<1>7. NameToString(Suffix(name)) = Trimmed(After(t))
    BY <1>4, SpelledText
<1>8. Trimmed(After(t)) = After(t)
  <2> DEFINE a == After(t)
             f == Suffix(name)
             n == LastNotDot(f)
  <2> HIDE DEF n
  <2>1. Trimmed(a) = SubSeq(a, 1, n) /\ n \in 0 .. Len(a)
    BY <1>4, SpelledEnd DEF n
  <2>2. EndsAt(f, n)
    BY <1>4, EndFound DEF Spells, n
  <2>3. EndsAt(name, Len(t))
    BY <1>2, EndFound DEF Spells
  <2>4. /\ dot \in 0 .. Len(t) /\ (dot # 0 => dot < Len(t))
        /\ f = [i \in 1 .. NameLength |-> IF i + dot <= NameLength THEN name[i + dot] ELSE Dot]
        /\ Len(t) \in Nat /\ Len(t) <= NameLength /\ NameLength \in Nat
    BY <1>2, <1>3, NameAssumption DEF IsDivision, Spells
  <2>5. Len(a) = Len(t) - dot /\ Len(a) \in Nat
    BY <1>4, <2>4
  <2> HIDE DEF a, f
  <2>6. Len(a) # 0 => f[Len(a)] # Dot
    <3> SUFFICES ASSUME Len(a) # 0 PROVE f[Len(a)] # Dot
        OBVIOUS
    <3>1. Len(a) \in 1 .. NameLength /\ Len(a) + dot = Len(t) /\ Len(t) # 0
        BY <2>4, <2>5
    <3>2. f[Len(a)] = name[Len(t)]
        BY <2>4, <3>1
    <3> QED
        BY <2>3, <3>1, <3>2 DEF EndsAt
  <2>7. n = Len(a)
    <3>1. CASE n < Len(a)
        <4>1. Len(a) \in n + 1 .. NameLength
            BY <2>1, <2>4, <2>5, <3>1
        <4>2. Len(a) # 0
            BY <2>1, <3>1
        <4> QED
            BY <2>2, <2>6, <4>1, <4>2 DEF EndsAt
    <3> QED
        BY <2>1, <2>5, <3>1
  <2>8. SubSeq(a, 1, Len(a)) = a
    BY <1>4 DEF a
  <2> QED
    BY <2>1, <2>7, <2>8 DEF a
<1>9. NameLen(name) = Len(t)
    BY <1>2 DEF NameLen
<1> QED
    BY <1>2, <1>6, <1>7, <1>8, <1>9 DEF name, t

\* The characters of numbers are ten different ones, and no others.
LEMMA DecimalsDiffer ==
    /\ DOMAIN Decimals = 1 .. 10
    /\ \A i \in 1 .. 10 : \A j \in 1 .. 10 : Decimals[i] = Decimals[j] => i = j
<1>1. DOMAIN Decimals = 1 .. 10
    BY DEF Decimals
<1>2. ASSUME NEW i \in 1 .. 10, NEW j \in 1 .. 10, Decimals[i] = Decimals[j] PROVE i = j
    BY <1>2 DEF Decimals
<1> QED
    BY <1>1, <1>2
\* Zero is the first of them.
LEMMA ZeroIs == Decimals[1] = "0"
BY DEF Decimals

\* Ten, named so that it is no numeral to the provers.
Ten == 10
\* It is a base.
LEMMA TenIs == Ten \in Radices /\ Ten \in Nat /\ 0 .. Ten - 1 \subseteq Nat /\ 0 .. Ten - 1 = 0 .. 9
BY DEF Ten, Radices

\* Each of them is one digit, and each digit one of them.
LEMMA DecimalDigits ==
    /\ \A d \in 0 .. Ten - 1 : Decimals[d + 1] \in DigitSet /\ ValueOf[Decimals[d + 1]] = d
    /\ \A c \in DigitSet : ValueOf[c] \in 0 .. Ten - 1 /\ Decimals[ValueOf[c] + 1] = c
<1>1. DigitSet = {Decimals[i] : i \in 1 .. 10}
    BY DecimalsDiffer DEF DigitSet, ValueOf, ToSet
<1>2. ASSUME NEW c \in DigitSet
      PROVE  ValueOf[c] \in 0 .. 9 /\ Decimals[ValueOf[c] + 1] = c
  <2>1. PICK i \in 1 .. 10 : Decimals[i] = c
    BY <1>1
  <2>2. i - 1 \in 0 .. 9 /\ Decimals[(i - 1) + 1] = c
    BY <2>1
  <2>3. ValueOf[c] = CHOOSE d \in 0 .. 9 : Decimals[d + 1] = c
    BY DEF ValueOf, DigitSet
  <2> QED
    BY <2>2, <2>3
<1>3. ASSUME NEW d \in 0 .. 9
      PROVE  Decimals[d + 1] \in DigitSet /\ ValueOf[Decimals[d + 1]] = d
  <2> DEFINE e == ValueOf[Decimals[d + 1]]
  <2>1. d + 1 \in 1 .. 10
    OBVIOUS
  <2>2. Decimals[d + 1] \in DigitSet
    BY <1>1, <2>1
  <2>3. e \in 0 .. 9 /\ Decimals[e + 1] = Decimals[d + 1]
    BY <1>2, <2>2
  <2> HIDE DEF e
  <2>4. e + 1 \in 1 .. 10
    BY <2>3
  <2>5. e + 1 = d + 1
    BY <2>1, <2>3, <2>4, DecimalsDiffer
  <2>6. e = d
    BY <2>3, <2>5
  <2> QED
    BY <2>2, <2>6 DEF e
<1> QED
    BY <1>2, <1>3, TenIs

\* The digits that a text of digits stands for.
Values(s) == [i \in DOMAIN s |-> ValueOf[s[i]]]
\* They are digits of the base, and make the number that is read.
LEMMA ValuesAre ==
    ASSUME NEW s \in Seq(DigitSet)
    PROVE  /\ Values(s) \in Seq(0 .. Ten - 1) /\ Len(Values(s)) = Len(s)
           /\ \A i \in 1 .. Len(s) : Decimals[Values(s)[i] + 1] = s[i]
           /\ NumberOf(s) = Numbers(Values(s), Ten)[Len(s)]
<1> DEFINE v == Values(s)
           S == 0 .. Ten - 1
           n == Len(s)
<1>1. n \in Nat /\ DOMAIN s = 1 .. n /\ \A i \in 1 .. n : s[i] \in DigitSet
    OBVIOUS
<1> HIDE DEF n
<1>2. v = [i \in 1 .. n |-> ValueOf[s[i]]]
    BY <1>1 DEF Values
<1>3. \A i \in 1 .. n : ValueOf[s[i]] \in S /\ Decimals[ValueOf[s[i]] + 1] = s[i]
    BY <1>1, DecimalDigits
<1>4. NumberOf(s) = Numbers(v, Ten)[n]
    BY DEF NumberOf, Values, Ten, n
<1> HIDE DEF v, S
<1>5. v \in [1 .. n -> S] /\ \A i \in 1 .. n : Decimals[v[i] + 1] = s[i]
    BY <1>2, <1>3
<1>6. v \in Seq(S) /\ Len(v) = n
    BY <1>1, <1>5, IsSequence
<1> QED
    BY <1>4, <1>5, <1>6 DEF v, S, n

\* What is left of a number after its lowest digits.
Left(n) == Quotients(n, Ten)
\* Each step takes off one digit.
LEMMA LeftIs ==
    ASSUME NEW n \in Nat
    PROVE  /\ Left(n) \in [Nat -> Nat] /\ Left(n)[0] = n
           /\ \A k \in Nat : Left(n)[k + 1] = Left(n)[k] \div Ten
<1>1. Divided(Quotients(n, Ten), n, Ten)
    BY TenIs, QuotientsAre
<1> QED
    BY <1>1 DEF Divided, Left

\* Digits that are written are digits.
LEMMA DigitsWritten ==
    ASSUME NEW n \in Nat, NEW size \in Nat
    PROVE  /\ Digits(n, size) \in Seq(DigitSet) /\ Len(Digits(n, size)) = size
           /\ \A i \in 1 .. size : Digits(n, size)[i] = Decimals[(Left(n)[size - i] % Ten) + 1]
           /\ \A i \in 1 .. size : Values(Digits(n, size))[i] = Left(n)[size - i] % Ten
<1> DEFINE d == Digits(n, size)
           S == DigitSet
<1>1. d = [i \in 1 .. size |-> Decimals[(Left(n)[size - i] % Ten) + 1]]
    BY DEF Digits, Left, Ten
<1>2. ASSUME NEW i \in 1 .. size
      PROVE  /\ Decimals[(Left(n)[size - i] % Ten) + 1] \in S
             /\ ValueOf[Decimals[(Left(n)[size - i] % Ten) + 1]] = Left(n)[size - i] % Ten
  <2>1. size - i \in Nat
    OBVIOUS
  <2>2. Left(n)[size - i] \in Nat
    BY <2>1, LeftIs
  <2>3. Left(n)[size - i] % Ten \in 0 .. Ten - 1
    BY <2>2, TenIs, DivisionIs
  <2> QED
    BY <2>3, DecimalDigits
<1> HIDE DEF d, S
<1>3. d \in [1 .. size -> S]
    BY <1>1, <1>2
<1>4. d \in Seq(S) /\ Len(d) = size
    BY <1>3, IsSequence
<1>5. DOMAIN d = 1 .. size
    BY <1>1
<1>6. \A i \in 1 .. size : d[i] = Decimals[(Left(n)[size - i] % Ten) + 1]
    BY <1>1
<1>7. \A i \in 1 .. size : Values(d)[i] = Left(n)[size - i] % Ten
    BY <1>2, <1>5, <1>6 DEF Values
<1> QED
    BY <1>4, <1>6, <1>7 DEF d, S

\* The number of a text of digits, divided, is that of its front.
LEMMA LeftOfNumber ==
    ASSUME NEW s \in Seq(DigitSet), NEW k \in 0 .. Len(s)
    PROVE  Left(NumberOf(s))[k] = Numbers(Values(s), Ten)[Len(s) - k]
<1> DEFINE v == Values(s)
<1>1. v \in Seq(0 .. Ten - 1) /\ Len(v) = Len(s) /\ NumberOf(s) = Numbers(v, Ten)[Len(s)]
    BY ValuesAre
<1> HIDE DEF v
<1>2. k \in 0 .. Len(v)
    BY <1>1
<1>3. Quotients(Numbers(v, Ten)[Len(v)], Ten)[k] = Numbers(v, Ten)[Len(v) - k]
    BY <1>1, <1>2, TenIs, QuotientsOfDigits, ZenonT(60)
<1> QED
    BY <1>1, <1>3 DEF Left, v

\* It is a number.
LEMMA NumberIs ==
    ASSUME NEW s \in Seq(DigitSet)
    PROVE  NumberOf(s) \in Nat
<1> DEFINE v == Values(s)
<1>1. v \in Seq(0 .. Ten - 1) /\ Len(v) = Len(s) /\ NumberOf(s) = Numbers(v, Ten)[Len(s)]
    BY ValuesAre
<1> HIDE DEF v
<1>2. Numbers(v, Ten) \in [0 .. Len(v) -> Nat]
    BY <1>1, TenIs, NumbersDivide
<1>3. Len(v) \in 0 .. Len(v)
    BY <1>1
<1> QED
    BY <1>1, <1>2, <1>3

\* As many digits as were read are written as they were.
LEMMA DigitsBack ==
    ASSUME NEW s \in Seq(DigitSet)
    PROVE  Digits(NumberOf(s), Len(s)) = s
<1> DEFINE v == Values(s)
           n == NumberOf(s)
           l == Len(s)
           d == Digits(n, l)
<1>1. v \in Seq(0 .. Ten - 1) /\ Len(v) = l /\ \A i \in 1 .. l : Decimals[v[i] + 1] = s[i]
    BY ValuesAre
<1>2. n \in Nat /\ l \in Nat
    BY NumberIs
<1> HIDE DEF n
<1>3. d \in Seq(DigitSet) /\ Len(d) = l /\ \A i \in 1 .. l : d[i] = Decimals[(Left(n)[l - i] % Ten) + 1]
    BY <1>2, DigitsWritten
<1>4. ASSUME NEW i \in 1 .. l PROVE d[i] = s[i]
  <2>1. l - i \in 0 .. Len(s) /\ l - (l - i) = i /\ i \in 1 .. Len(v)
    BY <1>1, <1>2
  <2>2. Left(n)[l - i] = Numbers(v, Ten)[i]
    BY <2>1, LeftOfNumber DEF n
  <2> HIDE DEF v
  <2>3. Numbers(v, Ten)[i] % Ten = v[i]
    BY <1>1, <2>1, TenIs, NumbersDivide
  <2> QED
    BY <1>1, <1>3, <2>2, <2>3
<1> HIDE DEF d
<1>5. Len(s) = Len(d)
    BY <1>3
<1>6. d = s
    BY <1>3, <1>4, <1>5, SeqEqual
<1> QED
    BY <1>6 DEF d, n


\* A number has no more digits than its value, and one.
IsSize(k, n) == Left(n)[k] = 0 /\ \A j \in 1 .. k - 1 : Left(n)[j] # 0
\* A number has fewer digits than it is large.
LEMMA FewDigits ==
    ASSUME NEW n \in Nat
    PROVE  Left(n)[n + 1] = 0
<1> DEFINE Q == Left(n)
           T == {k \in Nat : Q[k] = 0 \/ Q[k] + k <= n}
<1>1. Q \in [Nat -> Nat] /\ Q[0] = n /\ \A k \in Nat : Q[k + 1] = Q[k] \div Ten
    BY LeftIs
<1> HIDE DEF Q
<1>2. 0 \in T
    BY <1>1
<1>3. ASSUME NEW k \in Nat, k \in T PROVE k + 1 \in T
  <2> DEFINE q == Q[k]
             r == Q[k + 1]
  <2>1. q \in Nat /\ r = q \div 10 /\ (q = 0 \/ q + k <= n)
    BY <1>1, <1>3 DEF Ten
  <2> HIDE DEF q, r
  <2>2. r = 0 \/ r + (k + 1) <= n
    BY <2>1
  <2> QED
    BY <2>2 DEF r
<1> HIDE DEF T
<1>4. n + 1 \in T
    BY <1>2, <1>3, NatInduct
<1>5. Q[n + 1] \in Nat
    BY <1>1
<1> DEFINE q == Q[n + 1]
<1>6. q = 0 \/ q + (n + 1) <= n
    BY <1>4 DEF T
<1> HIDE DEF q
<1>7. q \in Nat
    BY <1>5 DEF q
<1> QED
    BY <1>6, <1>7 DEF q, Q

\* do ... while: the digits are written until nothing is left.
LEMMA SizeIs ==
    ASSUME NEW n \in Nat
    PROVE  SizeOf(n) \in 1 .. n + 1 /\ IsSize(SizeOf(n), n)
<1> DEFINE T == {k \in Nat : k <= n + 1 => (\A j \in 1 .. k : Left(n)[j] # 0) \/ (\E m \in 1 .. n + 1 : IsSize(m, n))}
<1>1. 0 \in T
    OBVIOUS
<1>2. ASSUME NEW k \in Nat, k \in T PROVE k + 1 \in T
  <2> SUFFICES ASSUME k + 1 <= n + 1, ~ \E m \in 1 .. n + 1 : IsSize(m, n)
               PROVE  \A j \in 1 .. k + 1 : Left(n)[j] # 0
    OBVIOUS
  <2>1. (\A j \in 1 .. k : Left(n)[j] # 0) /\ k + 1 \in 1 .. n + 1 /\ (k + 1) - 1 = k
    BY <1>2
  <2>2. Left(n)[k + 1] # 0
    BY <2>1 DEF IsSize
  <2>3. \A j \in 1 .. k + 1 : j \in 1 .. k \/ j = k + 1
    OBVIOUS
  <2> QED
    BY <2>1, <2>2, <2>3
<1> HIDE DEF T
<1>3. n + 1 \in T
    BY <1>1, <1>2, NatInduct
<1>4. \E m \in 1 .. n + 1 : IsSize(m, n)
  <2>1. n + 1 \in 1 .. n + 1 /\ Left(n)[n + 1] = 0
    BY FewDigits
  <2> QED
    BY <1>3, <2>1 DEF T
<1>5. SizeOf(n) = CHOOSE m \in 1 .. n + 1 : IsSize(m, n)
    BY DEF SizeOf, IsSize, Left, Ten
<1> QED
    BY <1>4, <1>5

\* There is one such number of digits.
LEMMA SizeUnique ==
    ASSUME NEW n \in Nat, NEW k \in Nat, NEW m \in Nat, k # 0, m # 0, IsSize(k, n), IsSize(m, n)
    PROVE  k = m
<1>1. ASSUME k < m PROVE FALSE
  <2>1. k \in 1 .. m - 1
    BY <1>1
  <2> QED
    BY <2>1 DEF IsSize
<1>2. ASSUME m < k PROVE FALSE
  <2>1. m \in 1 .. k - 1
    BY <1>2
  <2> QED
    BY <2>1 DEF IsSize
<1> QED
    BY <1>1, <1>2

\* Without a zero in front the digits are no more than the number needs.
LEMMA PlainSize1 ==
    ASSUME NEW s \in Seq(DigitSet), NoZeros(s)
    PROVE  IsSize(Len(s), NumberOf(s)) /\ Len(s) # 0
<1> DEFINE v == Values(s)
           N == Numbers(v, Ten)
           l == Len(s)
<1>1. v \in Seq(0 .. Ten - 1) /\ Len(v) = l /\ \A i \in 1 .. l : Decimals[v[i] + 1] = s[i]
    BY ValuesAre
<1>2. l \in Nat /\ l # 0
    BY DEF NoZeros
<1> HIDE DEF v
<1>3. /\ N \in [0 .. l -> Nat] /\ N[0] = 0
      /\ \A i \in 1 .. l : N[i] = Ten * N[i - 1] + v[i]
    BY <1>1, TenIs, NumbersDivide
<1>4. \A k \in 0 .. l : Left(NumberOf(s))[k] = N[l - k]
    BY LeftOfNumber DEF v
<1> HIDE DEF N, l
<1>5. Left(NumberOf(s))[l] = 0
  <2>1. l \in 0 .. l /\ l - l = 0
    BY <1>2
  <2> QED
    BY <1>3, <1>4, <2>1
<1>6. CASE l = 1
    BY <1>2, <1>5, <1>6 DEF IsSize, l
<1>7. CASE l # 1
  <2>1. 1 \in 1 .. l /\ s[1] # "0"
    BY <1>2, <1>7 DEF NoZeros, l
  <2>2. v[1] \in Nat /\ v[1] # 0
    <3>1. v[1] = 0 => s[1] = "0"
        BY <1>1, <2>1, ZeroIs DEF l
    <3>2. v[1] \in 0 .. Ten - 1
        BY <1>1, <2>1, ElementOfSeq DEF l
    <3> QED
        BY <2>1, <3>1, <3>2, TenIs
  <2> DEFINE T == {k \in Nat : k + 1 <= l => N[k + 1] # 0}
  <2>3. 0 \in T
    <3>1. N[1] = Ten * 0 + v[1]
        BY <1>3, <2>1
    <3>2. N[1] = v[1]
        BY <2>2, <3>1, TenIs
    <3> QED
        BY <2>2, <3>2
  <2>4. ASSUME NEW k \in Nat, k \in T PROVE k + 1 \in T
    <3> SUFFICES ASSUME (k + 1) + 1 <= l PROVE N[(k + 1) + 1] # 0
        OBVIOUS
    <3> DEFINE a == N[k + 1]
               d == v[(k + 1) + 1]
    <3>1. (k + 1) + 1 \in 1 .. l /\ ((k + 1) + 1) - 1 = k + 1 /\ k + 1 \in 0 .. l /\ k + 1 <= l
        BY <1>2
    <3>2. a # 0 /\ a \in Nat /\ N[(k + 1) + 1] = Ten * a + d
        BY <1>3, <2>4, <3>1
    <3>3. d \in 0 .. Ten - 1
        BY <1>1, <3>1, ElementOfSeq DEF l
    <3> HIDE DEF a, d
    <3>4. d \in Nat
        BY <3>3, TenIs
    <3> QED
        BY <3>2, <3>4 DEF Ten
  <2> HIDE DEF T
  <2>5. Nat \subseteq T
    BY <2>3, <2>4, NatInduct
  <2>6. \A j \in 1 .. l - 1 : Left(NumberOf(s))[j] # 0
    <3> SUFFICES ASSUME NEW j \in 1 .. l - 1 PROVE N[l - j] # 0
        BY <1>2, <1>4
    <3>1. (l - j) - 1 \in Nat /\ ((l - j) - 1) + 1 = l - j /\ l - j <= l
        BY <1>2
    <3> QED
        BY <2>5, <3>1 DEF T
  <2> QED
    BY <1>2, <1>5, <2>6 DEF IsSize, l
<1> QED
    BY <1>6, <1>7

\* Digits are written again as they were read, if there is no zero in front.
LEMMA PlainDigits ==
    ASSUME NEW s \in Seq(DigitSet), NoZeros(s)
    PROVE  DigitsOf(NumberOf(s)) = s
<1>1. NumberOf(s) \in Nat /\ Len(s) \in Nat
    BY NumberIs
<1>2. IsSize(Len(s), NumberOf(s)) /\ Len(s) # 0
    BY PlainSize1
<1>3. SizeOf(NumberOf(s)) \in 1 .. NumberOf(s) + 1 /\ IsSize(SizeOf(NumberOf(s)), NumberOf(s))
    BY <1>1, SizeIs
<1>4. SizeOf(NumberOf(s)) \in Nat /\ SizeOf(NumberOf(s)) # 0
    BY <1>1, <1>3
<1>5. SizeOf(NumberOf(s)) = Len(s)
    BY <1>1, <1>2, <1>3, <1>4, SizeUnique
<1> QED
    BY <1>5, DigitsBack DEF DigitsOf

\* A number is read from its digits, if they are all there.
LEMMA NumberBack ==
    ASSUME NEW n \in Nat, NEW size \in Nat, Left(n)[size] = 0
    PROVE  NumberOf(Digits(n, size)) = n
<1> DEFINE s == Digits(n, size)
           v == Values(s)
           N == Numbers(v, Ten)
           Q == Left(n)
<1>1. s \in Seq(DigitSet) /\ Len(s) = size /\ \A i \in 1 .. size : v[i] = Q[size - i] % Ten
    BY DigitsWritten
<1>2. Q \in [Nat -> Nat] /\ Q[0] = n /\ \A k \in Nat : Q[k + 1] = Q[k] \div Ten
    BY LeftIs
<1> HIDE DEF s, Q
<1>3. v \in Seq(0 .. Ten - 1) /\ Len(v) = size /\ NumberOf(s) = N[size]
    BY <1>1, ValuesAre
<1> HIDE DEF v
<1>4. N[0] = 0 /\ \A i \in 1 .. size : N[i] = Ten * N[i - 1] + v[i]
  <2>0. N = Numbers(v, Ten)
    OBVIOUS
  <2> HIDE DEF N
  <2>1. /\ N \in [0 .. Len(v) -> Nat] /\ N[0] = 0
        /\ \A i \in 1 .. Len(v) : N[i] = Ten * N[i - 1] + v[i]
    <3>1. v \in Seq(0 .. Ten - 1) /\ Ten \in Radices
        BY <1>3, TenIs
    <3> QED
        BY <2>0, <3>1, NumbersDivide
  <2> QED
    BY <1>3, <2>1
<1> HIDE DEF N
<1> DEFINE T == {i \in Nat : i <= size => N[i] = Q[size - i]}
<1>5. 0 \in T
    BY <1>4 DEF Q
<1>6. ASSUME NEW i \in Nat, i \in T PROVE i + 1 \in T
  <2> SUFFICES ASSUME i + 1 <= size PROVE N[i + 1] = Q[size - (i + 1)]
    OBVIOUS
  <2> DEFINE k == size - (i + 1)
             q == Q[k]
  <2>1. k \in Nat /\ k + 1 = size - i /\ i + 1 \in 1 .. size /\ (i + 1) - 1 = i /\ i <= size
    OBVIOUS
  <2> HIDE DEF k
  <2>2. q \in Nat /\ Q[k + 1] = q \div Ten
    BY <1>2, <2>1
  <2>3. N[i] = q \div Ten /\ v[i + 1] = q % Ten
    BY <1>1, <1>6, <2>1, <2>2 DEF k
  <2>4. N[i + 1] = Ten * (q \div Ten) + (q % Ten)
    BY <1>4, <2>1, <2>3
  <2> HIDE DEF q
  <2>5. q = (q % Ten) + Ten * (q \div Ten) /\ q \div Ten \in Nat /\ q % Ten \in 0 .. Ten - 1
    BY <2>2, TenIs, DivisionIs
  <2>6. Ten * (q \div Ten) \in Nat /\ q % Ten \in Nat
    BY <2>5, TenIs
  <2>7. N[i + 1] = q
    BY <2>4, <2>5, <2>6
  <2> QED
    BY <2>7 DEF q, k
<1> HIDE DEF T
<1>7. size \in T
    BY <1>5, <1>6, NatInduct
<1>8. N[size] = Q[0]
  <2>1. size - size = 0 /\ size <= size
    OBVIOUS
  <2> QED
    BY <1>7, <2>1 DEF T
<1> QED
    BY <1>2, <1>3, <1>8 DEF s

\* All its digits are there, and one at least.
LEMMA DigitsOfBack ==
    ASSUME NEW n \in Nat
    PROVE  /\ DigitsOf(n) \in Seq(DigitSet) /\ Len(DigitsOf(n)) \in Nat \ {0}
           /\ NumberOf(DigitsOf(n)) = n
<1>1. SizeOf(n) \in Nat /\ SizeOf(n) # 0 /\ Left(n)[SizeOf(n)] = 0
    BY SizeIs DEF IsSize
<1>2. Digits(n, SizeOf(n)) \in Seq(DigitSet) /\ Len(Digits(n, SizeOf(n))) = SizeOf(n)
    BY <1>1, DigitsWritten
<1>3. NumberOf(Digits(n, SizeOf(n))) = n
    BY <1>1, NumberBack
<1> QED
    BY <1>1, <1>2, <1>3 DEF DigitsOf

\* Taking off digits twice.
LEMMA LeftOfLeft ==
    ASSUME NEW n \in Nat, NEW p \in Nat
    PROVE  \A k \in Nat : Left(Left(n)[p])[k] = Left(n)[p + k]
<1> DEFINE Q == Left(n)
           m == Q[p]
           Again == Left(m)
           T == {k \in Nat : Again[k] = Q[p + k]}
<1>1. Q \in [Nat -> Nat] /\ \A k \in Nat : Q[k + 1] = Q[k] \div Ten
    BY LeftIs
<1> HIDE DEF Q
<1>2. m \in Nat
    BY <1>1
<1> HIDE DEF m
<1>3. Again[0] = m /\ \A k \in Nat : Again[k + 1] = Again[k] \div Ten
    BY <1>2, LeftIs
<1> HIDE DEF Again
<1>4. 0 \in T
    BY <1>3 DEF m
<1>5. ASSUME NEW k \in Nat, k \in T PROVE k + 1 \in T
  <2>1. p + k \in Nat /\ (p + k) + 1 = p + (k + 1)
    OBVIOUS
  <2>2. Again[k] = Q[p + k]
    BY <1>5
  <2>3. Q[(p + k) + 1] = Q[p + k] \div Ten /\ Again[k + 1] = Again[k] \div Ten
    BY <1>1, <1>3, <2>1
  <2>4. Again[k + 1] = Q[p + (k + 1)]
    BY <2>1, <2>2, <2>3
  <2> QED
    BY <2>4
<1> HIDE DEF T
<1>6. Nat \subseteq T
    BY <1>4, <1>5, NatInduct
<1> QED
    BY <1>6 DEF T, Again, m, Q

\* The digits before and behind the point are the digits of the number.
LEMMA DigitsJoin ==
    ASSUME NEW n \in Nat, NEW p \in Nat, NEW size \in Nat
    PROVE  Digits(Left(n)[p], size) \o Digits(n, p) = Digits(n, size + p)
<1> DEFINE a == Digits(Left(n)[p], size)
           b == Digits(n, p)
           c == Digits(n, size + p)
           Q == Left(n)
           m == Q[p]
<1>1. m \in Nat
    BY LeftIs
<1>2. \A k \in Nat : Left(m)[k] = Q[p + k]
    BY LeftOfLeft
<1> HIDE DEF Q, m
<1>3. a \in Seq(DigitSet) /\ Len(a) = size /\ \A i \in 1 .. size : a[i] = Decimals[(Left(m)[size - i] % Ten) + 1]
    BY <1>1, DigitsWritten DEF m, Q
<1>4. b \in Seq(DigitSet) /\ Len(b) = p /\ \A i \in 1 .. p : b[i] = Decimals[(Q[p - i] % Ten) + 1]
    BY DigitsWritten DEF Q
<1>5. size + p \in Nat
    OBVIOUS
<1>6. /\ c \in Seq(DigitSet) /\ Len(c) = size + p
      /\ \A i \in 1 .. size + p : c[i] = Decimals[(Q[(size + p) - i] % Ten) + 1]
    BY <1>5, DigitsWritten DEF Q
<1> HIDE DEF a, b, c
<1>7. /\ a \o b \in Seq(DigitSet) /\ Len(a \o b) = Len(a) + Len(b)
      /\ \A i \in 1 .. Len(a) + Len(b) : (a \o b)[i] = IF i <= Len(a) THEN a[i] ELSE b[i - Len(a)]
    BY <1>3, <1>4, ConcatProperties, ZenonT(60)
<1>8. ASSUME NEW i \in 1 .. size + p PROVE (a \o b)[i] = c[i]
  <2>1. CASE i <= size
    <3>1. i \in 1 .. size /\ size - i \in Nat /\ p + (size - i) = (size + p) - i
        BY <2>1
    <3>2. Left(m)[size - i] = Q[(size + p) - i]
        BY <1>2, <3>1
    <3>3. (a \o b)[i] = a[i]
        BY <1>3, <1>4, <1>7, <2>1
    <3>4. a[i] = Decimals[(Q[(size + p) - i] % Ten) + 1]
        BY <1>3, <3>1, <3>2
    <3> QED
        BY <1>6, <3>3, <3>4
  <2>2. CASE ~(i <= size)
    <3>1. i - size \in 1 .. p /\ p - (i - size) = (size + p) - i
        BY <2>2
    <3>2. (a \o b)[i] = b[i - size]
        BY <1>3, <1>4, <1>7, <2>2
    <3>3. b[i - size] = Decimals[(Q[(size + p) - i] % Ten) + 1]
        BY <1>4, <3>1
    <3> QED
        BY <1>6, <3>2, <3>3
  <2> QED
    BY <2>1, <2>2
<1>9. Len(a \o b) = Len(c)
    BY <1>3, <1>4, <1>6, <1>7
<1>10. a \o b = c
    BY <1>3, <1>4, <1>6, <1>7, <1>8, <1>9, SeqEqual
<1> QED
    BY <1>10 DEF a, b, c, m, Q

\* Two characters, named so that the provers can read them.
Blank == " "
Comma == ","
\* The letters and digits one by one.
Capitals ==
    { "A", "B", "C", "D", "E", "F", "G", "H", "I", "J", "K", "L", "M",
      "N", "O", "P", "Q", "R", "S", "T", "U", "V", "W", "X", "Y", "Z" }
Figures == { "0", "1", "2", "3", "4", "5", "6", "7", "8", "9" }
\* A letter is one of these.
LEMMA LettersAre == LetterSet \subseteq Capitals
<1>1. DOMAIN Letters = 1 .. 26
    BY DEF Letters
<1>2. \A i \in 1 .. 26 : Letters[i] \in Capitals
    BY DEF Letters, Capitals
<1> QED
    BY <1>1, <1>2 DEF LetterSet, ToSet
\* And a digit one of those.
LEMMA FiguresAre == DigitSet \subseteq Figures
<1>1. \A i \in 1 .. 10 : Decimals[i] \in Figures
    BY DEF Decimals, Figures
<1> QED
    BY <1>1, DecimalsDiffer DEF DigitSet, ValueOf, ToSet
\* What separates them is none of them.
LEMMA Separators ==
    /\ Nul \notin LetterSet /\ Blank \notin LetterSet
    /\ Blank \notin DigitSet /\ Comma \notin DigitSet /\ "." \notin DigitSet /\ "-" \notin DigitSet
    /\ Blank # "." /\ Blank # "-"
<1>1. Nul \notin Capitals /\ Blank \notin Capitals
    BY Zenon DEF Nul, Blank, Capitals
<1>2. Blank \notin Figures /\ Comma \notin Figures /\ "." \notin Figures /\ "-" \notin Figures
    BY Zenon DEF Blank, Comma, Figures
<1>3. Blank # "." /\ Blank # "-"
    BY Zenon DEF Blank
<1> QED
    BY <1>1, <1>2, <1>3, LettersAre, FiguresAre

\* The characters at the front that a loop passes.
IsRun(n, s, chars) ==
    (\A i \in 1 .. n : s[i] \in chars) /\ (n < Len(s) => s[n + 1] \notin chars)
\* There is one such number.
LEMMA RunUnique ==
    ASSUME NEW s, Len(s) \in Nat, NEW chars, NEW n \in 0 .. Len(s), NEW m \in 0 .. Len(s),
           IsRun(n, s, chars), IsRun(m, s, chars)
    PROVE  n = m
<1>1. ASSUME n < m PROVE FALSE
  <2>1. n + 1 \in 1 .. m /\ n < Len(s)
    BY <1>1
  <2> QED
    BY <2>1 DEF IsRun
<1>2. ASSUME m < n PROVE FALSE
  <2>1. m + 1 \in 1 .. n /\ m < Len(s)
    BY <1>2
  <2> QED
    BY <2>1 DEF IsRun
<1> QED
    BY <1>1, <1>2
\* The loop stops there.
LEMMA RunFound ==
    ASSUME NEW s, Len(s) \in Nat, NEW chars
    PROVE  Run(s, chars) \in 0 .. Len(s) /\ IsRun(Run(s, chars), s, chars)
<1> DEFINE T == {k \in Nat : k <= Len(s) => (\A i \in 1 .. k : s[i] \in chars)
                                            \/ (\E n \in 0 .. Len(s) : IsRun(n, s, chars))}
<1>1. 0 \in T
    OBVIOUS
<1>2. ASSUME NEW k \in Nat, k \in T PROVE k + 1 \in T
  <2> SUFFICES ASSUME k + 1 <= Len(s), ~ \E n \in 0 .. Len(s) : IsRun(n, s, chars)
               PROVE  \A i \in 1 .. k + 1 : s[i] \in chars
    OBVIOUS
  <2>1. (\A i \in 1 .. k : s[i] \in chars) /\ k \in 0 .. Len(s) /\ k < Len(s)
    BY <1>2
  <2>2. s[k + 1] \in chars
    BY <2>1 DEF IsRun
  <2>3. \A i \in 1 .. k + 1 : i \in 1 .. k \/ i = k + 1
    OBVIOUS
  <2> QED
    BY <2>1, <2>2, <2>3
<1> HIDE DEF T
<1>3. Nat \subseteq T
    BY <1>1, <1>2, NatInduct
<1>4. \E n \in 0 .. Len(s) : IsRun(n, s, chars)
  <2>1. CASE \A i \in 1 .. Len(s) : s[i] \in chars
    <3>1. IsRun(Len(s), s, chars) /\ Len(s) \in 0 .. Len(s)
        BY <2>1 DEF IsRun
    <3> QED
        BY <3>1
  <2> QED
    BY <1>3, <2>1 DEF T
<1>5. Run(s, chars) = CHOOSE n \in 0 .. Len(s) : IsRun(n, s, chars)
    BY DEF Run, IsRun
<1> QED
    BY <1>4, <1>5

\* A text goes on with something that the loop does not pass, or ends.
StopsAt(s, chars) == s = <<>> \/ s[1] \notin chars
\* Then the loop ends where the first part does, and leaves the second.
LEMMA RunOfParts ==
    ASSUME NEW S, NEW a \in Seq(S), NEW b \in Seq(S), NEW chars,
           \A i \in 1 .. Len(a) : a[i] \in chars, StopsAt(b, chars)
    PROVE  Run(a \o b, chars) = Len(a)
<1> DEFINE s == a \o b
<1>1. /\ s \in Seq(S) /\ Len(s) = Len(a) + Len(b) /\ Len(a) \in Nat /\ Len(b) \in Nat
      /\ \A i \in 1 .. Len(a) + Len(b) : s[i] = IF i <= Len(a) THEN a[i] ELSE b[i - Len(a)]
    BY ConcatProperties
<1> HIDE DEF s
<1>2. Len(a) \in 0 .. Len(s) /\ Len(s) \in Nat
    BY <1>1
<1>3. \A i \in 1 .. Len(a) : s[i] \in chars
    BY <1>1
<1>4. Len(a) < Len(s) => s[Len(a) + 1] \notin chars
  <2> SUFFICES ASSUME Len(a) < Len(s) PROVE s[Len(a) + 1] \notin chars
    OBVIOUS
  <2>1. Len(b) # 0 /\ Len(a) + 1 \in 1 .. Len(a) + Len(b) /\ (Len(a) + 1) - Len(a) = 1
    BY <1>1
  <2>2. s[Len(a) + 1] = b[1] /\ b # <<>>
    BY <1>1, <2>1
  <2> QED
    BY <2>2 DEF StopsAt
<1>5. IsRun(Len(a), s, chars)
    BY <1>3, <1>4 DEF IsRun
<1>6. Run(s, chars) \in 0 .. Len(s) /\ IsRun(Run(s, chars), s, chars)
    BY <1>2, RunFound
<1>7. Run(s, chars) = Len(a)
    BY <1>2, <1>5, <1>6, RunUnique
<1> QED
    BY <1>7 DEF s

\* The parts of a text that has two.
LEMMA PartsAre ==
    ASSUME NEW S, NEW a \in Seq(S), NEW b \in Seq(S)
    PROVE  /\ a \o b \in Seq(S) /\ Len(a \o b) = Len(a) + Len(b)
           /\ SubSeq(a \o b, 1, Len(a)) = a
           /\ Rest(a \o b, Len(a)) = b
           /\ Len(a) # 0 => (a \o b)[1] = a[1]
           /\ Len(b) # 0 => (a \o b)[Len(a) + 1] = b[1]
           /\ Len(a) = 0 => a \o b = b
<1> DEFINE s == a \o b
           f == SubSeq(s, 1, Len(a))
           r == SubSeq(s, Len(a) + 1, Len(s))
<1>1. /\ s \in Seq(S) /\ Len(s) = Len(a) + Len(b) /\ Len(a) \in Nat /\ Len(b) \in Nat
      /\ \A i \in 1 .. Len(a) + Len(b) : s[i] = IF i <= Len(a) THEN a[i] ELSE b[i - Len(a)]
    BY ConcatProperties
<1> HIDE DEF s
<1>2. f = a
  <2>1. Len(a) \in 0 .. Len(s)
    BY <1>1
  <2>2. f \in Seq(S) /\ Len(f) = Len(a) /\ \A i \in 1 .. Len(a) : f[i] = s[i]
    BY <1>1, <2>1, FrontIs
  <2> HIDE DEF f
  <2>3. \A i \in 1 .. Len(f) : f[i] = a[i]
    BY <1>1, <2>2
  <2> QED
    BY <2>2, <2>3, SeqEqual
<1>3. r = b
  <2>1. Len(a) \in 0 .. Len(s)
    BY <1>1
  <2>2. r \in Seq(S) /\ Len(r) = Len(s) - Len(a) /\ \A i \in 1 .. Len(s) - Len(a) : r[i] = s[i + Len(a)]
    BY <1>1, <2>1, RearIs
  <2> HIDE DEF r
  <2>3. Len(r) = Len(b)
    BY <1>1, <2>2
  <2>4. ASSUME NEW i \in 1 .. Len(r) PROVE r[i] = b[i]
    <3>1. i + Len(a) \in 1 .. Len(a) + Len(b) /\ ~(i + Len(a) <= Len(a)) /\ (i + Len(a)) - Len(a) = i
        BY <1>1, <2>3
    <3>2. i \in 1 .. Len(s) - Len(a)
        BY <1>1, <2>2
    <3> QED
        BY <1>1, <2>2, <3>1, <3>2
  <2> QED
    BY <2>2, <2>3, <2>4, SeqEqual
<1>4. Len(a) # 0 => s[1] = a[1]
  <2>1. Len(a) # 0 => 1 \in 1 .. Len(a) + Len(b) /\ 1 <= Len(a)
    BY <1>1
  <2> QED
    BY <1>1, <2>1
<1>5. Len(b) # 0 => s[Len(a) + 1] = b[1]
  <2>1. Len(b) # 0 => Len(a) + 1 \in 1 .. Len(a) + Len(b) /\ ~(Len(a) + 1 <= Len(a)) /\ (Len(a) + 1) - Len(a) = 1
    BY <1>1
  <2> QED
    BY <1>1, <2>1
<1>6. Len(a) = 0 => s = b
  <2> SUFFICES ASSUME Len(a) = 0 PROVE s = b
    OBVIOUS
  <2>1. Len(s) = Len(b)
    BY <1>1
  <2>2. \A i \in 1 .. Len(s) : i \in 1 .. Len(a) + Len(b) /\ ~(i <= Len(a)) /\ i - Len(a) = i
    BY <1>1
  <2>3. \A i \in 1 .. Len(s) : s[i] = b[i]
    BY <1>1, <2>2
  <2> QED
    BY <1>1, <2>1, <2>3, SeqEqual
<1> QED
    BY <1>1, <1>2, <1>3, <1>4, <1>5, <1>6 DEF s, Rest

\* A text falls into the part that a loop passes and the rest.
LEMMA SplitAt ==
    ASSUME NEW S, NEW s \in Seq(S), NEW n \in 0 .. Len(s)
    PROVE  /\ SubSeq(s, 1, n) \in Seq(S) /\ Len(SubSeq(s, 1, n)) = n
           /\ Rest(s, n) \in Seq(S) /\ Len(Rest(s, n)) = Len(s) - n
           /\ s = SubSeq(s, 1, n) \o Rest(s, n)
           /\ \A i \in 1 .. n : SubSeq(s, 1, n)[i] = s[i]
           /\ n < Len(s) => Rest(s, n)[1] = s[n + 1]
<1> DEFINE a == SubSeq(s, 1, n)
           b == SubSeq(s, n + 1, Len(s))
<1>1. a \in Seq(S) /\ Len(a) = n /\ \A i \in 1 .. n : a[i] = s[i]
    BY FrontIs
<1>2. b \in Seq(S) /\ Len(b) = Len(s) - n /\ \A i \in 1 .. Len(s) - n : b[i] = s[i + n]
    BY RearIs
<1>3. n \in Nat /\ Len(s) \in Nat /\ n <= Len(s)
    OBVIOUS
<1> HIDE DEF a, b
<1>4. /\ a \o b \in Seq(S) /\ Len(a \o b) = Len(a) + Len(b)
      /\ \A i \in 1 .. Len(a) + Len(b) : (a \o b)[i] = IF i <= Len(a) THEN a[i] ELSE b[i - Len(a)]
    BY <1>1, <1>2, ConcatProperties
<1>5. Len(s) = Len(a \o b)
    BY <1>1, <1>2, <1>3, <1>4
<1>6. ASSUME NEW i \in 1 .. Len(s) PROVE s[i] = (a \o b)[i]
  <2>1. CASE i <= n
    BY <1>1, <1>2, <1>3, <1>4, <2>1
  <2>2. CASE ~(i <= n)
    <3>1. i - n \in 1 .. Len(s) - n /\ (i - n) + n = i /\ i \in 1 .. Len(a) + Len(b)
        BY <1>1, <1>2, <1>3, <2>2
    <3>2. (a \o b)[i] = b[i - n]
        BY <1>1, <1>4, <2>2, <3>1
    <3> QED
        BY <1>2, <3>1, <3>2
  <2> QED
    BY <2>1, <2>2
<1>7. s = a \o b
    BY <1>4, <1>5, <1>6, SeqEqual
<1>8. n < Len(s) => b[1] = s[n + 1]
  <2>1. n < Len(s) => 1 \in 1 .. Len(s) - n /\ 1 + n = n + 1
    BY <1>3
  <2> QED
    BY <1>2, <2>1
<1> QED
    BY <1>1, <1>2, <1>7, <1>8 DEF a, b, Rest

\* What is skipped are blanks.
LEMMA SkipIs == ASSUME NEW s PROVE SkipSpaces(s) = Rest(s, Run(s, {Blank}))
BY Zenon DEF SkipSpaces, Blank
\* None is skipped where there is none.
LEMMA NoSpaces ==
    ASSUME NEW S, NEW s \in Seq(S), s = <<>> \/ s[1] # Blank
    PROVE  SkipSpaces(s) = s
<1> DEFINE r == Run(s, {Blank})
<1>1. Len(s) \in Nat
    OBVIOUS
<1>2. r \in 0 .. Len(s) /\ IsRun(r, s, {Blank})
    BY <1>1, RunFound
<1>3. SkipSpaces(s) = SubSeq(s, r + 1, Len(s))
    BY SkipIs DEF Rest
<1> HIDE DEF r
<1>4. r = 0
  <2>1. CASE Len(s) = 0
    BY <1>2, <2>1
  <2>2. CASE Len(s) # 0
    <3>1. s # <<>> /\ s[1] \notin {Blank} /\ (r # 0 => 1 \in 1 .. r)
        BY <1>1, <1>2, <2>2
    <3> QED
        BY <3>1, <1>2 DEF IsRun
  <2> QED
    BY <2>1, <2>2
<1>5. SubSeq(s, 1, Len(s)) = s
    BY SubSeqFull
<1> QED
    BY <1>3, <1>4, <1>5
\* One is.
LEMMA OneSpace ==
    ASSUME NEW S, NEW s \in Seq(S), s = <<>> \/ s[1] # Blank, Blank \in S
    PROVE  SkipSpaces(<<Blank>> \o s) = s
<1> DEFINE b == <<Blank>>
<1>1. b \in Seq(S) /\ Len(b) = 1 /\ b[1] = Blank
    OBVIOUS
<1> HIDE DEF b
<1>2. StopsAt(s, {Blank})
    BY DEF StopsAt
<1>3. \A i \in 1 .. Len(b) : b[i] \in {Blank}
    BY <1>1
<1>4. Run(b \o s, {Blank}) = Len(b)
    BY <1>1, <1>2, <1>3, RunOfParts
<1>5. Rest(b \o s, Len(b)) = s
  <2>1. b \in Seq(S)
    BY <1>1
  <2> QED
    BY <2>1, PartsAre
<1> QED
    BY <1>4, <1>5, SkipIs DEF b

\* The last byte of a code that is not 0.
CodeEnd(code, n) ==
    /\ n \in 0 .. CodeSize /\ (n # 0 => code[n] # Nul)
    /\ \A i \in n + 1 .. CodeSize : code[i] = Nul
\* There is one such place.
LEMMA CodeEndUnique ==
    ASSUME NEW code, NEW n, NEW m, CodeEnd(code, n), CodeEnd(code, m)
    PROVE  n = m
<1>1. CodeSize \in Nat /\ n \in Nat /\ m \in Nat /\ n <= CodeSize /\ m <= CodeSize
    BY SymbolAssumption DEF CodeEnd
<1>2. ASSUME n < m PROVE FALSE
  <2>1. m \in n + 1 .. CodeSize /\ m # 0
    BY <1>1, <1>2
  <2> QED
    BY <2>1 DEF CodeEnd
<1>3. ASSUME m < n PROVE FALSE
  <2>1. n \in m + 1 .. CodeSize /\ n # 0
    BY <1>1, <1>3
  <2> QED
    BY <2>1 DEF CodeEnd
<1> QED
    BY <1>1, <1>2, <1>3
\* The loop that looks for it finds it.
LEMMA CodeEndFound ==
    ASSUME NEW code, DOMAIN code = 1 .. CodeSize
    PROVE  CodeEnd(code, LastUsed(code))
<1> DEFINE used == {i \in DOMAIN code : code[i] # Nul}
           n == LastUsed(code)
<1>1. CodeSize \in Nat /\ used \in SUBSET (1 .. CodeSize)
    BY SymbolAssumption
<1>2. CASE used = {}
  <2>1. n = 0
    BY <1>2 DEF LastUsed
  <2> QED
    BY <1>1, <1>2, <2>1 DEF CodeEnd
<1>3. CASE used # {}
  <2>1. n = Highest(used)
    BY <1>3 DEF LastUsed, Highest
  <2> HIDE DEF n
  <2>2. IsHighest(n, used)
    BY <1>1, <1>3, <2>1, HighestIs
  <2>3. n \in 1 .. CodeSize /\ code[n] # Nul /\ \A j \in used : j <= n
    BY <1>1, <2>2 DEF IsHighest
  <2>4. \A i \in n + 1 .. CodeSize : i \in 1 .. CodeSize /\ ~(i <= n)
    BY <1>1, <2>3
  <2> QED
    BY <1>1, <2>3, <2>4 DEF CodeEnd, n
<1> QED
    BY <1>2, <1>3
\* The text of a code is that part of it.
LEMMA CodeTextIs ==
    ASSUME NEW S, NEW code \in [1 .. CodeSize -> S], NEW n, CodeEnd(code, n)
    PROVE  /\ CodeText(code) \in Seq(S) /\ Len(CodeText(code)) = n
           /\ \A i \in 1 .. n : CodeText(code)[i] = code[i]
<1>1. CodeSize \in Nat /\ DOMAIN code = 1 .. CodeSize
    BY SymbolAssumption
<1>2. CodeEnd(code, LastUsed(code))
    BY <1>1, CodeEndFound
<1>3. n = LastUsed(code)
    BY <1>2, CodeEndUnique
<1>4. code \in Seq(S) /\ Len(code) = CodeSize
    BY <1>1, IsSequence
<1>5. n \in 0 .. Len(code)
    BY <1>4 DEF CodeEnd
<1>6. CodeText(code) = SubSeq(code, 1, n)
    BY <1>3 DEF CodeText
<1> QED
    BY <1>4, <1>5, <1>6, FrontIs

\* A text of as many letters as a code has.
Lettered(t) == t \in Seq(LetterSet) /\ Len(t) # 0 /\ Len(t) < CodeSize
\* It is read, and nothing is skipped.
LEMMA LettersRead ==
    ASSUME NEW t, Lettered(t)
    PROVE  IsCodeText(t) /\ SkipSpaces(t) = t /\ CodeOf(t) = Padded(t, CodeSize)
<1>1. t \in Seq(LetterSet) /\ Len(t) \in Nat /\ Len(t) # 0 /\ Len(t) < CodeSize /\ t # <<>>
    BY DEF Lettered
<1>2. \A i \in 1 .. Len(t) : t[i] \in LetterSet
    BY <1>1, ElementOfSeq
<1>3. t[1] # Blank
  <2>1. 1 \in 1 .. Len(t)
    BY <1>1
  <2> QED
    BY <1>2, <2>1, Separators
<1>4. SkipSpaces(t) = t
    BY <1>1, <1>3, NoSpaces
<1>5. IsRun(Len(t), t, LetterSet) /\ Len(t) \in 0 .. Len(t)
    BY <1>1, <1>2 DEF IsRun
<1>6. Run(t, LetterSet) \in 0 .. Len(t) /\ IsRun(Run(t, LetterSet), t, LetterSet)
    BY <1>1, RunFound
<1>7. Run(t, LetterSet) = Len(t)
    BY <1>1, <1>5, <1>6, RunUnique
<1> QED
    BY <1>1, <1>4, <1>7 DEF IsCodeText, CodeOf
\* What is read is such a text, behind blanks.
LEMMA ReadLetters ==
    ASSUME NEW S, NEW s \in Seq(S), IsCodeText(s)
    PROVE  Lettered(SkipSpaces(s))
<1> DEFINE t == SkipSpaces(s)
           r == Run(s, {Blank})
           n == Run(t, LetterSet)
<1>1. Len(s) \in Nat
    OBVIOUS
<1>2. r \in 0 .. Len(s)
    BY <1>1, RunFound
<1>3. t = Rest(s, r)
    BY SkipIs
<1> HIDE DEF r
<1>4. t \in Seq(S)
    BY <1>2, <1>3, SplitAt
<1>5. 0 < n /\ n < CodeSize /\ n = Len(t)
    BY DEF IsCodeText
<1> HIDE DEF t
<1>6. Len(t) \in Nat
    BY <1>4
<1>7. n \in 0 .. Len(t) /\ IsRun(n, t, LetterSet)
    BY <1>6, RunFound
<1> HIDE DEF n
<1>8. \A i \in 1 .. Len(t) : t[i] \in LetterSet
    BY <1>5, <1>7 DEF IsRun
<1>9. t \in Seq(LetterSet)
    BY <1>4, <1>8
<1>10. Lettered(t)
    BY <1>5, <1>6, <1>7, <1>9 DEF Lettered
<1> QED
    BY <1>10 DEF t

\* A code that holds such a text, and nothing behind it.
Holds(code, t) ==
    /\ DOMAIN code = 1 .. CodeSize
    /\ \A i \in 1 .. Len(t) : code[i] = t[i]
    /\ \A i \in Len(t) + 1 .. CodeSize : code[i] = Nul
\* Padding makes it.
LEMMA PaddedHolds == ASSUME NEW t, Lettered(t) PROVE Holds(Padded(t, CodeSize), t)
<1> DEFINE c == Padded(t, CodeSize)
<1>1. t \in Seq(LetterSet) /\ Len(t) \in Nat /\ Len(t) < CodeSize /\ CodeSize \in Nat /\ DOMAIN t = 1 .. Len(t)
    BY SymbolAssumption DEF Lettered
<1>2. c = [i \in 1 .. CodeSize |-> IF i \in DOMAIN t THEN t[i] ELSE Nul]
    BY DEF Padded
<1> HIDE DEF c
<1>3. ASSUME NEW i \in 1 .. Len(t) PROVE c[i] = t[i]
  <2>1. i \in 1 .. CodeSize /\ i \in DOMAIN t
    BY <1>1
  <2> QED
    BY <1>2, <2>1
<1>4. ASSUME NEW i \in Len(t) + 1 .. CodeSize PROVE c[i] = Nul
  <2>1. i \in 1 .. CodeSize /\ i \notin DOMAIN t
    BY <1>1
  <2> QED
    BY <1>2, <2>1
<1>5. Holds(c, t)
    BY <1>2, <1>3, <1>4 DEF Holds
<1> QED
    BY <1>5 DEF c
\* It is the only one.
LEMMA HoldsOne ==
    ASSUME NEW t, Lettered(t), NEW S, NEW c \in [1 .. CodeSize -> S], Holds(c, t)
    PROVE  c = Padded(t, CodeSize)
<1> DEFINE d == Padded(t, CodeSize)
<1>1. Len(t) \in Nat /\ CodeSize \in Nat
    BY SymbolAssumption DEF Lettered
<1>2. Holds(d, t) /\ d = [i \in 1 .. CodeSize |-> IF i \in DOMAIN t THEN t[i] ELSE Nul]
    BY PaddedHolds DEF Padded
<1> HIDE DEF d
<1>3. ASSUME NEW i \in 1 .. CodeSize PROVE c[i] = d[i]
  <2>1. i \in 1 .. Len(t) \/ i \in Len(t) + 1 .. CodeSize
    BY <1>1
  <2> QED
    BY <1>2, <2>1 DEF Holds
<1>4. c = d
    BY <1>2, <1>3
<1> QED
    BY <1>4 DEF d
\* Its text is that text, and it is valid.
LEMMA HoldsText ==
    ASSUME NEW t, Lettered(t), NEW S, NEW c \in [1 .. CodeSize -> S], Holds(c, t)
    PROVE  CodeText(c) = t /\ CodeValid(c) /\ c[CodeSize] = Nul
<1>1. /\ t \in Seq(LetterSet) /\ Len(t) \in Nat /\ Len(t) # 0 /\ Len(t) < CodeSize /\ CodeSize \in Nat
      /\ DOMAIN c = 1 .. CodeSize
    BY SymbolAssumption DEF Lettered
<1>2. \A i \in 1 .. Len(t) : c[i] = t[i] /\ c[i] \in LetterSet /\ c[i] # Nul
  <2> TAKE i \in 1 .. Len(t)
  <2>1. t[i] \in LetterSet
    BY <1>1, ElementOfSeq
  <2> QED
    BY <2>1, Separators DEF Holds
<1>3. \A i \in Len(t) + 1 .. CodeSize : c[i] = Nul
    BY DEF Holds
<1>4. CodeEnd(c, Len(t))
  <2>1. Len(t) \in 1 .. Len(t) /\ Len(t) \in 0 .. CodeSize
    BY <1>1
  <2> QED
    BY <1>2, <1>3, <2>1 DEF CodeEnd
<1>5. CodeText(c) \in Seq(S) /\ Len(CodeText(c)) = Len(t) /\ \A i \in 1 .. Len(t) : CodeText(c)[i] = c[i]
    BY <1>4, CodeTextIs
<1>6. CodeText(c) = t
  <2> DEFINE u == CodeText(c)
  <2> HIDE DEF u
  <2>1. u \in Seq(S) /\ Len(u) = Len(t) /\ \A i \in 1 .. Len(u) : u[i] = t[i]
    BY <1>2, <1>5 DEF u
  <2>2. u = t
    BY <1>1, <2>1, SeqEqual
  <2> QED
    BY <2>2 DEF u
<1>7. CodeValid(c)
  <2>1. Len(t) \in 1 .. CodeSize - 1
    BY <1>1
  <2> QED
    BY <1>2, <1>3, <2>1 DEF CodeValid
<1>8. c[CodeSize] = Nul
  <2>1. CodeSize \in Len(t) + 1 .. CodeSize
    BY <1>1
  <2> QED
    BY <1>3, <2>1
<1> QED
    BY <1>6, <1>7, <1>8

\* A valid code of which the last byte is 0 holds its text, and is read from it.
LEMMA ValidCode ==
    ASSUME NEW S, NEW code \in [1 .. CodeSize -> S], CodeValid(code), code[CodeSize] = Nul
    PROVE  /\ Lettered(CodeText(code)) /\ Holds(code, CodeText(code))
           /\ IsCodeText(CodeText(code)) /\ CodeOf(CodeText(code)) = code
<1> DEFINE t == CodeText(code)
<1>1. CodeSize \in Nat /\ CodeSize > 1 /\ DOMAIN code = 1 .. CodeSize
    BY SymbolAssumption
<1>2. PICK n \in 1 .. CodeSize - 1 :
          /\ \A i \in 1 .. n : code[i] \in LetterSet
          /\ n < CodeSize - 1 => \A i \in n + 1 .. CodeSize : code[i] = Nul
    BY DEF CodeValid
<1>3. \A i \in n + 1 .. CodeSize : code[i] = Nul
  <2>1. ASSUME n = CodeSize - 1, NEW i \in n + 1 .. CodeSize PROVE i = CodeSize
    BY <1>1, <2>1
  <2> QED
    BY <1>1, <1>2, <2>1
<1>4. CodeEnd(code, n)
  <2>1. n \in 1 .. n /\ n \in 0 .. CodeSize
    BY <1>1
  <2>2. code[n] # Nul
    BY <1>2, <2>1, Separators
  <2> QED
    BY <1>3, <2>1, <2>2 DEF CodeEnd
<1>5. t \in Seq(S) /\ Len(t) = n /\ \A i \in 1 .. n : t[i] = code[i]
    BY <1>4, CodeTextIs
<1> HIDE DEF t
<1>6. t \in Seq(LetterSet)
  <2>1. \A i \in 1 .. Len(t) : t[i] \in LetterSet
    BY <1>2, <1>5
  <2> QED
    BY <1>5, <2>1
<1>7. Lettered(t)
    BY <1>1, <1>5, <1>6 DEF Lettered
<1>8. Holds(code, t)
    BY <1>1, <1>3, <1>5 DEF Holds
<1>9. code = Padded(t, CodeSize)
    BY <1>7, <1>8, HoldsOne
<1>10. IsCodeText(t) /\ CodeOf(t) = code
    BY <1>7, <1>9, LettersRead
<1> QED
    BY <1>7, <1>8, <1>10 DEF t

\* The bytes up to the first 0.
IsCodeLen(n, code) ==
    (\A i \in 1 .. n : code[i] # Nul) /\ (n < Len(code) => code[n + 1] = Nul)
\* There are so many.
LEMMA CodeLenIs ==
    ASSUME NEW code, Len(code) \in Nat, NEW n \in 0 .. Len(code), IsCodeLen(n, code)
    PROVE  CodeLen(code) = n
<1> DEFINE m == CodeLen(code)
<1>1. CodeLen(code) = CHOOSE k \in 0 .. Len(code) : IsCodeLen(k, code)
    BY DEF CodeLen, IsCodeLen
<1>2. m \in 0 .. Len(code) /\ IsCodeLen(m, code)
    BY <1>1
<1> HIDE DEF m
<1>3. ASSUME n < m PROVE FALSE
  <2>1. n + 1 \in 1 .. m /\ n < Len(code)
    BY <1>2, <1>3
  <2> QED
    BY <1>2, <2>1 DEF IsCodeLen
<1>4. ASSUME m < n PROVE FALSE
  <2>1. m + 1 \in 1 .. n /\ m < Len(code)
    BY <1>2, <1>4
  <2> QED
    BY <1>2, <2>1 DEF IsCodeLen
<1>5. m = n
    BY <1>2, <1>3, <1>4
<1> QED
    BY <1>5 DEF m

\* A code is valid if it is one that is read from its text, or if a byte that is
\* not looked at makes it so; its length is that of its text.
LEMMA AllCodesComeBack ==
    ASSUME NEW S, NEW code \in [1 .. CodeSize -> S]
    PROVE  CodeComesBack(code)
<1> DEFINE t == CodeText(code)
           n == LastUsed(code)
           full == \A i \in DOMAIN code : i < CodeSize => code[i] \in LetterSet
<1>1. CodeSize \in Nat /\ CodeSize > 1 /\ DOMAIN code = 1 .. CodeSize /\ code \in Seq(S) /\ Len(code) = CodeSize
    BY SymbolAssumption, IsSequence
<1>2. CodeEnd(code, n)
    BY <1>1, CodeEndFound
<1>3. t \in Seq(S) /\ Len(t) = n
    BY <1>2, CodeTextIs
<1> HIDE DEF n
<1>4. ASSUME CodeValid(code), code[CodeSize] # Nul PROVE full
  <2>1. PICK k \in 1 .. CodeSize - 1 :
            /\ \A i \in 1 .. k : code[i] \in LetterSet
            /\ k < CodeSize - 1 => \A i \in k + 1 .. CodeSize : code[i] = Nul
    BY <1>4 DEF CodeValid
  <2>2. ASSUME k < CodeSize - 1 PROVE FALSE
    <3>1. CodeSize \in k + 1 .. CodeSize
        BY <1>1, <2>2
    <3> QED
        BY <1>4, <2>1, <2>2, <3>1
  <2>3. k = CodeSize - 1
    BY <1>1, <2>2
  <2>4. \A i \in 1 .. CodeSize : i < CodeSize => i \in 1 .. k
    BY <1>1, <2>3
  <2> QED
    BY <1>1, <2>1, <2>4
<1>5. ASSUME full PROVE CodeValid(code)
  <2>1. CodeSize - 1 \in 1 .. CodeSize - 1
    BY <1>1
  <2>2. \A i \in 1 .. CodeSize - 1 : i \in 1 .. CodeSize /\ i < CodeSize
    BY <1>1
  <2>3. \A i \in 1 .. CodeSize - 1 : code[i] \in LetterSet
    BY <1>1, <1>5, <2>2
  <2> QED
    BY <2>1, <2>3 DEF CodeValid
<1>6. ASSUME IsCodeText(t), CodeOf(t) = code PROVE CodeValid(code)
  <2>1. Lettered(SkipSpaces(t))
    BY <1>3, <1>6, ReadLetters
  <2>2. code = Padded(SkipSpaces(t), CodeSize)
    BY <1>6 DEF CodeOf
  <2>3. Holds(code, SkipSpaces(t))
    BY <2>1, <2>2, PaddedHolds
  <2> QED
    BY <2>1, <2>3, HoldsText
<1>7. ASSUME CodeValid(code), code[CodeSize] = Nul PROVE IsCodeText(t) /\ CodeOf(t) = code
    BY <1>7, ValidCode
<1>8. CodeValid(code) <=> (IsCodeText(t) /\ CodeOf(t) = code) \/ full
    BY <1>4, <1>5, <1>6, <1>7
<1>9. ASSUME CodeValid(code) PROVE CodeLen(code) = n
  <2>1. n \in 0 .. Len(code) /\ \A i \in n + 1 .. CodeSize : code[i] = Nul
    BY <1>1, <1>2 DEF CodeEnd
  <2>2. n < Len(code) => code[n + 1] = Nul
    BY <1>1, <2>1
  <2>3. ASSUME NEW i \in 1 .. n PROVE code[i] # Nul
    <3>1. CASE code[CodeSize] = Nul
        <4>1. Lettered(t) /\ Holds(code, t)
            BY <1>9, <3>1, ValidCode
        <4>2. t[i] \in LetterSet /\ code[i] = t[i]
            BY <1>3, <4>1, ElementOfSeq DEF Lettered, Holds
        <4> QED
            BY <4>2, Separators
    <3>2. CASE code[CodeSize] # Nul
        <4>1. full
            BY <1>4, <1>9, <3>2
        <4>2. i \in 1 .. CodeSize /\ (i < CodeSize \/ i = CodeSize)
            BY <1>1, <2>1
        <4> QED
            BY <1>1, <3>2, <4>1, <4>2, Separators
    <3> QED
        BY <3>1, <3>2
  <2>4. IsCodeLen(n, code)
    BY <2>2, <2>3 DEF IsCodeLen
  <2> QED
    BY <1>1, <2>1, <2>4, CodeLenIs
<1> HIDE DEF t
<1>10. CodeValid(code) => CodeLen(code) = Len(t)
    BY <1>3, <1>9
<1> QED
    BY <1>8, <1>10 DEF CodeComesBack, t

\* A text of a code in the form the program writes is written again as it was read.
LEMMA PlainCodeKept ==
    ASSUME NEW S, NEW s \in Seq(S), IsPlainCode(s)
    PROVE  /\ Lettered(s) /\ CodeText(CodeOf(s)) = s /\ CodeOf(s)[CodeSize] = Nul
           /\ CodeOf(s) = Padded(s, CodeSize)
<1>1. IsCodeText(s) /\ s[1] # Blank
  <2>1. IsCodeText(s)
    BY DEF IsPlainCode
  <2>2. s[1] # Blank
    BY Zenon DEF IsPlainCode, Blank
  <2> QED
    BY <2>1, <2>2
<1>2. SkipSpaces(s) = s
    BY <1>1, NoSpaces
<1>3. Lettered(s)
    BY <1>1, <1>2, ReadLetters
<1> DEFINE c == CodeOf(s)
<1>4. c = Padded(s, CodeSize)
    BY <1>2 DEF CodeOf
<1> HIDE DEF c
<1>5. Holds(c, s)
    BY <1>3, <1>4, PaddedHolds
<1>6. c \in [1 .. CodeSize -> {c[i] : i \in 1 .. CodeSize}]
  <2>1. c = [i \in 1 .. CodeSize |-> IF i \in DOMAIN s THEN s[i] ELSE Nul]
    BY <1>4 DEF Padded
  <2> QED
    BY <2>1
<1>7. CodeText(c) = s /\ c[CodeSize] = Nul
    BY <1>3, <1>5, <1>6, HoldsText
<1> QED
    BY <1>3, <1>4, <1>7 DEF c

\* The characters of these texts.
Chars == DigitSet \cup LetterSet \cup {Blank, Comma, ".", "-"}
\* A text of one of them.
LEMMA OneChar ==
    ASSUME NEW c \in Chars
    PROVE  <<c>> \in Seq(Chars) /\ Len(<<c>>) = 1 /\ <<c>>[1] = c
OBVIOUS
\* Texts of digits, of letters and of separators are texts of them.
LEMMA CharsAre ==
    /\ \A s \in Seq(DigitSet) : s \in Seq(Chars) /\ \A i \in 1 .. Len(s) : s[i] \in DigitSet
    /\ \A s \in Seq(LetterSet) : s \in Seq(Chars) /\ \A i \in 1 .. Len(s) : s[i] \in LetterSet
    /\ Blank \in Chars /\ Comma \in Chars /\ "." \in Chars /\ "-" \in Chars
<1>1. DigitSet \subseteq Chars /\ LetterSet \subseteq Chars
    BY DEF Chars
<1>2. Blank \in Chars /\ Comma \in Chars /\ "." \in Chars /\ "-" \in Chars
    BY Zenon DEF Chars
<1>3. \A s \in Seq(DigitSet) : s \in Seq(Chars) /\ \A i \in 1 .. Len(s) : s[i] \in DigitSet
    BY <1>1
<1>4. \A s \in Seq(LetterSet) : s \in Seq(Chars) /\ \A i \in 1 .. Len(s) : s[i] \in LetterSet
    BY <1>1
<1> QED
    BY <1>2, <1>3, <1>4

\* The parts of the text of a symbol.
IsSymbolParts(s, d, c) ==
    /\ s \in Seq(Chars) /\ Run(s, DigitSet) = Len(d) /\ Len(d) < Len(s)
    /\ SubSeq(s, 1, Len(d)) = d /\ s[Len(d) + 1] = Comma /\ Rest(s, Len(d) + 1) = c
\* They are found in it.
LEMMA SymbolParts ==
    ASSUME NEW d \in Seq(DigitSet), NEW c \in Seq(Chars)
    PROVE  IsSymbolParts((d \o <<Comma>>) \o c, d, c)
<1> DEFINE m == <<Comma>>
           s == (d \o m) \o c
           b == m \o c
<1>1. d \in Seq(Chars) /\ m \in Seq(Chars) /\ Len(m) = 1 /\ m[1] = Comma /\ Len(d) \in Nat
    BY CharsAre, OneChar
<1> HIDE DEF m
<1>2. d \o m \in Seq(Chars) /\ Len(d \o m) = Len(d) + Len(m)
    BY <1>1, PartsAre
<1>3. s \in Seq(Chars) /\ Len(s) = Len(d \o m) + Len(c) /\ Rest(s, Len(d \o m)) = c
    BY <1>2, PartsAre
<1>4. b \in Seq(Chars) /\ Len(b) = Len(m) + Len(c) /\ (Len(m) # 0 => b[1] = m[1])
  <2>1. m \in Seq(Chars)
    BY <1>1
  <2> QED
    BY <2>1, PartsAre
<1>5. s = d \o b
    BY <1>1, ConcatAssociative
<1> HIDE DEF s, b
<1>6. SubSeq(s, 1, Len(d)) = d /\ (Len(b) # 0 => s[Len(d) + 1] = b[1])
    BY <1>1, <1>4, <1>5, PartsAre
<1>7. Len(b) # 0 /\ b[1] = Comma
    BY <1>1, <1>4
<1>8. StopsAt(b, DigitSet)
    BY <1>7, Separators DEF StopsAt
<1>9. \A i \in 1 .. Len(d) : d[i] \in DigitSet
    BY CharsAre
<1>10. Run(s, DigitSet) = Len(d)
    BY <1>1, <1>4, <1>5, <1>8, <1>9, RunOfParts
<1>11. Len(d) < Len(s) /\ Rest(s, Len(d) + 1) = c
  <2>1. Len(d \o m) = Len(d) + 1 /\ Len(c) \in Nat
    BY <1>1, <1>2
  <2> QED
    BY <1>1, <1>3, <2>1
<1>12. IsSymbolParts(s, d, c)
    BY <1>3, <1>6, <1>7, <1>10, <1>11 DEF IsSymbolParts
<1> QED
    BY <1>12 DEF s, m

\* The same with the comma named.
LEMMA SymbolTextIs ==
    ASSUME NEW s
    PROVE  /\ IsSymbolText(s) <=>
                  /\ 0 < Run(s, DigitSet) /\ Run(s, DigitSet) < Len(s)
                  /\ s[Run(s, DigitSet) + 1] = Comma /\ IsCodeText(Rest(s, Run(s, DigitSet) + 1))
           /\ SymbolOf(s) = Symbol(NumberOf(SubSeq(s, 1, Run(s, DigitSet))) % PrecisionSize,
                                   CodeOf(Rest(s, Run(s, DigitSet) + 1)))
<1>1. IsSymbolText(s) <=>
                  /\ 0 < Run(s, DigitSet) /\ Run(s, DigitSet) < Len(s)
                  /\ s[Run(s, DigitSet) + 1] = Comma /\ IsCodeText(Rest(s, Run(s, DigitSet) + 1))
    BY Zenon DEF IsSymbolText, Comma
<1> QED
    BY <1>1 DEF SymbolOf
\* And of the text that is written.
LEMMA TextOfSymbol ==
    ASSUME NEW symbol
    PROVE  SymbolText(symbol) = (DigitsOf(symbol.precision) \o <<Comma>>) \o CodeText(symbol.code)
BY Zenon DEF SymbolText, Comma

\* Every valid symbol comes back from its text.
LEMMA AllSymbolsComeBack ==
    ASSUME NEW symbol \in Symbols
    PROVE  SymbolComesBack(symbol)
<1> SUFFICES ASSUME CodeValid(symbol.code)
             PROVE  IsSymbolText(SymbolText(symbol)) /\ SymbolOf(SymbolText(symbol)) = symbol
    BY DEF SymbolComesBack
<1> DEFINE p == symbol.precision
           code == symbol.code
           d == DigitsOf(p)
           c == CodeText(code)
           s == SymbolText(symbol)
<1>1. /\ symbol = [precision |-> p, code |-> code] /\ p \in 0 .. PrecisionSize - 1
      /\ code \in [1 .. CodeSize -> STRING] /\ code[CodeSize] = Nul
    BY DEF Symbols
<1>2. s = (d \o <<Comma>>) \o c
    BY TextOfSymbol
<1>3. CodeValid(code)
    OBVIOUS
<1> HIDE DEF p, code, s
<1>4. p \in Nat /\ p % PrecisionSize = p
    BY <1>1 DEF PrecisionSize
<1>5. Lettered(c) /\ IsCodeText(c) /\ CodeOf(c) = code
    BY <1>1, <1>3, ValidCode
<1>6. d \in Seq(DigitSet) /\ Len(d) \in Nat \ {0} /\ NumberOf(d) = p
    BY <1>4, DigitsOfBack
<1> HIDE DEF c, d
<1>7. c \in Seq(Chars)
    BY <1>5, CharsAre DEF Lettered
<1>8. IsSymbolParts(s, d, c)
    BY <1>2, <1>6, <1>7, SymbolParts
<1>9. /\ Run(s, DigitSet) = Len(d) /\ 0 < Len(d) /\ Len(d) < Len(s)
      /\ SubSeq(s, 1, Len(d)) = d /\ s[Len(d) + 1] = Comma /\ Rest(s, Len(d) + 1) = c
    BY <1>6, <1>8 DEF IsSymbolParts
<1>10. IsSymbolText(s)
    BY <1>5, <1>9, SymbolTextIs
<1>11. SymbolOf(s) = Symbol(NumberOf(d) % PrecisionSize, CodeOf(c))
    BY <1>9, SymbolTextIs
<1>12. SymbolOf(s) = symbol
    BY <1>1, <1>4, <1>5, <1>6, <1>11 DEF Symbol
<1> QED
    BY <1>10, <1>12 DEF s

\* A text falls into what a loop passes, one character and the rest.
LEMMA SplitBehind ==
    ASSUME NEW S, NEW s \in Seq(S), NEW n \in 0 .. Len(s), n < Len(s)
    PROVE  s = (SubSeq(s, 1, n) \o <<s[n + 1]>>) \o Rest(s, n + 1)
<1> DEFINE d == SubSeq(s, 1, n)
           m == <<s[n + 1]>>
           f == SubSeq(s, 1, n + 1)
<1>1. Len(s) \in Nat /\ n + 1 \in 0 .. Len(s) /\ s[n + 1] \in S
    BY ElementOfSeq
<1>2. d \in Seq(S) /\ Len(d) = n /\ \A i \in 1 .. n : d[i] = s[i]
    BY SplitAt
<1>3. f \in Seq(S) /\ Len(f) = n + 1 /\ s = f \o Rest(s, n + 1) /\ \A i \in 1 .. n + 1 : f[i] = s[i]
    BY <1>1, SplitAt
<1>4. m \in Seq(S) /\ Len(m) = 1 /\ m[1] = s[n + 1]
    BY <1>1
<1> HIDE DEF d, m, f
<1>5. /\ d \o m \in Seq(S) /\ Len(d \o m) = Len(d) + Len(m)
      /\ \A i \in 1 .. Len(d) + Len(m) : (d \o m)[i] = IF i <= Len(d) THEN d[i] ELSE m[i - Len(d)]
    BY <1>2, <1>4, ConcatProperties
<1>6. Len(f) = Len(d \o m)
    BY <1>2, <1>3, <1>4, <1>5
<1>7. ASSUME NEW i \in 1 .. Len(f) PROVE f[i] = (d \o m)[i]
  <2>1. i \in 1 .. Len(d) + Len(m) /\ i \in 1 .. n + 1
    BY <1>2, <1>3, <1>4
  <2>2. CASE i <= n
    <3>1. i \in 1 .. n /\ i <= Len(d)
        BY <1>2, <2>1, <2>2
    <3>2. (d \o m)[i] = d[i]
        BY <1>5, <2>1, <3>1
    <3> QED
        BY <1>2, <1>3, <2>1, <3>1, <3>2
  <2>3. CASE ~(i <= n)
    <3>1. i = n + 1 /\ i - Len(d) = 1 /\ ~(i <= Len(d))
        BY <1>2, <2>1, <2>3
    <3>2. (d \o m)[i] = m[1]
        BY <1>5, <2>1, <3>1
    <3> QED
        BY <1>3, <1>4, <2>1, <3>1, <3>2
  <2> QED
    BY <2>2, <2>3
<1>8. f = d \o m
    BY <1>3, <1>5, <1>6, <1>7, SeqEqual
<1> QED
    BY <1>3, <1>8 DEF d, m

\* What a loop passes are such characters.
LEMMA RunPart ==
    ASSUME NEW S, NEW s \in Seq(S), NEW chars
    PROVE  /\ Run(s, chars) \in 0 .. Len(s)
           /\ SubSeq(s, 1, Run(s, chars)) \in Seq(chars)
           /\ Len(SubSeq(s, 1, Run(s, chars))) = Run(s, chars)
<1> DEFINE n == Run(s, chars)
           d == SubSeq(s, 1, n)
<1>1. Len(s) \in Nat
    OBVIOUS
<1>2. n \in 0 .. Len(s) /\ IsRun(n, s, chars)
    BY <1>1, RunFound
<1> HIDE DEF n
<1>3. d \in Seq(S) /\ Len(d) = n /\ \A i \in 1 .. n : d[i] = s[i]
    BY <1>2, SplitAt
<1> HIDE DEF d
<1>4. \A i \in 1 .. Len(d) : d[i] \in chars
    BY <1>2, <1>3 DEF IsRun
<1>5. d \in Seq(chars)
    BY <1>3, <1>4
<1> QED
    BY <1>2, <1>3, <1>5 DEF d, n

\* A text of a symbol in the form the program writes is written again as it was
\* read.
LEMMA AllSymbolsKept ==
    ASSUME NEW S, NEW s \in Seq(S)
    PROVE  SymbolKept(s)
<1> DEFINE n == Run(s, DigitSet)
           d == SubSeq(s, 1, n)
           c == Rest(s, n + 1)
<1> SUFFICES ASSUME IsPlainSymbol(s) PROVE SymbolText(SymbolOf(s)) = s
    BY DEF SymbolKept
<1>1. IsSymbolText(s) /\ NoZeros(d) /\ IsPlainCode(c) /\ NumberOf(d) < PrecisionSize
    BY DEF IsPlainSymbol
<1>2. 0 < n /\ n < Len(s) /\ s[n + 1] = Comma
    BY <1>1, SymbolTextIs
<1>3. SymbolOf(s) = Symbol(NumberOf(d) % PrecisionSize, CodeOf(c))
    BY SymbolTextIs
<1>4. n \in 0 .. Len(s) /\ d \in Seq(DigitSet) /\ Len(d) = n
    BY RunPart
<1> HIDE DEF n
<1>5. s = (d \o <<s[n + 1]>>) \o c
    BY <1>2, <1>4, SplitBehind
<1>6. c \in Seq(S)
  <2>1. n + 1 \in 0 .. Len(s)
    BY <1>2, <1>4
  <2> QED
    BY <2>1, SplitAt
<1> HIDE DEF c, d
<1>7. CodeText(CodeOf(c)) = c
    BY <1>1, <1>6, PlainCodeKept
<1>8. NumberOf(d) % PrecisionSize = NumberOf(d)
  <2>1. NumberOf(d) \in Nat
    BY <1>4, NumberIs
  <2> QED
    BY <1>1, <2>1 DEF PrecisionSize
<1>9. DigitsOf(NumberOf(d)) = d
    BY <1>1, <1>4, PlainDigits
<1>10. SymbolText(SymbolOf(s)) = (DigitsOf(NumberOf(d)) \o <<Comma>>) \o CodeText(CodeOf(c))
  <2> DEFINE y == SymbolOf(s)
  <2>1. y = [precision |-> NumberOf(d), code |-> CodeOf(c)]
    BY <1>3, <1>8 DEF Symbol
  <2> HIDE DEF y
  <2>2. y.precision = NumberOf(d) /\ y.code = CodeOf(c)
    BY <2>1
  <2>3. SymbolText(y) = (DigitsOf(y.precision) \o <<Comma>>) \o CodeText(y.code)
    BY TextOfSymbol
  <2>4. SymbolText(y) = (DigitsOf(NumberOf(d)) \o <<Comma>>) \o CodeText(CodeOf(c))
    BY <2>2, <2>3
  <2> QED
    BY <2>4 DEF y
<1>11. (d \o <<Comma>>) \o c = s
    BY <1>2, <1>5
<1> QED
    BY <1>7, <1>9, <1>10, <1>11

\* What is behind a place and then behind another.
LEMMA RestOfRest ==
    ASSUME NEW S, NEW s \in Seq(S), NEW n \in 0 .. Len(s), NEW m \in 0 .. Len(s) - n
    PROVE  /\ SubSeq(Rest(s, n), 1, m) = SubSeq(s, n + 1, n + m)
           /\ Rest(Rest(s, n), m) = Rest(s, n + m)
<1> DEFINE r == Rest(s, n)
           a == SubSeq(r, 1, m)
           c == SubSeq(s, n + 1, n + m)
           b == Rest(r, m)
           d == Rest(s, n + m)
<1>1. Len(s) \in Nat /\ n \in Nat /\ m \in Nat /\ n + m \in 0 .. Len(s)
    OBVIOUS
<1>2. r \in Seq(S) /\ Len(r) = Len(s) - n /\ \A i \in 1 .. Len(s) - n : r[i] = s[i + n]
    BY RearIs DEF Rest
<1>3. d \in Seq(S) /\ Len(d) = Len(s) - (n + m) /\ \A i \in 1 .. Len(s) - (n + m) : d[i] = s[i + (n + m)]
    BY <1>1, RearIs DEF Rest
<1> HIDE DEF r
<1>4. m \in 0 .. Len(r)
    BY <1>1, <1>2
<1>5. b \in Seq(S) /\ Len(b) = Len(r) - m /\ \A i \in 1 .. Len(r) - m : b[i] = r[i + m]
    BY <1>2, <1>4, RearIs DEF Rest
<1>6. a \in Seq(S) /\ Len(a) = m /\ \A i \in 1 .. m : a[i] = r[i]
    BY <1>2, <1>4, FrontIs
<1>7. c \in Seq(S) /\ Len(c) = m /\ \A i \in 1 .. m : c[i] = s[i + n]
  <2>1. 1 <= n + 1 /\ n + m <= Len(s)
    BY <1>1
  <2> QED
    BY <1>1, <2>1
<1> HIDE DEF a, b, c, d
<1>8. a = c
  <2>1. ASSUME NEW i \in 1 .. m PROVE a[i] = c[i]
    <3>1. i \in 1 .. Len(s) - n
        BY <1>1
    <3> QED
        BY <1>2, <1>6, <1>7, <3>1
  <2> QED
    BY <1>6, <1>7, <2>1, SeqEqual
<1>9. b = d
  <2>1. Len(b) = Len(d)
    BY <1>1, <1>2, <1>3, <1>5
  <2>2. ASSUME NEW i \in 1 .. Len(b) PROVE b[i] = d[i]
    <3>1. i \in 1 .. Len(r) - m /\ i + m \in 1 .. Len(s) - n /\ (i + m) + n = i + (n + m)
        BY <1>1, <1>2, <1>5
    <3>2. b[i] = s[i + (n + m)]
        BY <1>2, <1>5, <3>1
    <3>3. i \in 1 .. Len(s) - (n + m)
        BY <1>3, <2>1
    <3> QED
        BY <1>3, <3>2, <3>3
  <2> QED
    BY <1>3, <1>5, <2>1, <2>2, SeqEqual
<1> QED
    BY <1>8, <1>9 DEF a, b, c, d, r

\* The parts of the text of an asset, from the front to the end.
Minus(s) == IF s # <<>> /\ s[1] = "-" THEN 1 ELSE 0
Unsigned(s) == Rest(s, Minus(s))
Whole(s) == SubSeq(s, 1, Run(s, DigitSet))
Behind(s) == Rest(s, Run(s, DigitSet))
Fractional(s) == IF Point(s) = 0 THEN <<>> ELSE Whole(Rest(s, 1))
Remaining(s) == IF Point(s) = 0 THEN s ELSE Behind(Rest(s, 1))
\* They are the ones that are read.
LEMMA AssetPartsAre ==
    ASSUME NEW S, NEW s \in Seq(S), s = <<>> \/ s[1] # Blank
    PROVE  AssetParts(s) =
               [negative |-> Minus(s) = 1, whole |-> Whole(Unsigned(s)),
                fraction |-> Fractional(Behind(Unsigned(s))),
                rest |-> Remaining(Behind(Unsigned(s)))]
<1> DEFINE number == Rest(s, Minus(s))
           w == Run(number, DigitSet)
           p == Point(Rest(number, w))
           f == IF p = 0 THEN 0 ELSE Run(Rest(number, w + p), DigitSet)
           b == Rest(number, w)
           e == Rest(b, 1)
<1>1. SkipSpaces(s) = s
    BY NoSpaces
<1>2. AssetParts(s) =
          [negative |-> Minus(s) = 1, whole |-> SubSeq(number, 1, w),
           fraction |-> SubSeq(number, (w + p) + 1, (w + p) + f), rest |-> Rest(number, (w + p) + f)]
    BY <1>1 DEF AssetParts, Minus
<1>3. Minus(s) \in 0 .. Len(s)
  <2>1. s # <<>> => Len(s) # 0
    OBVIOUS
  <2> QED
    BY <2>1 DEF Minus
<1>4. number \in Seq(S)
    BY <1>3, SplitAt
<1>5. Whole(Unsigned(s)) = SubSeq(number, 1, w) /\ Behind(Unsigned(s)) = b
    BY DEF Whole, Behind, Unsigned
<1> HIDE DEF number
<1>6. Len(number) \in Nat /\ w \in 0 .. Len(number)
    BY <1>4, RunPart
<1> HIDE DEF w
<1>7. b \in Seq(S) /\ Len(b) = Len(number) - w
    BY <1>4, <1>6, SplitAt
<1>8. p = Point(b)
    OBVIOUS
<1> HIDE DEF p, b
<1>9. CASE p = 0
  <2>1. f = 0 /\ w \in Nat
    BY <1>6, <1>9
  <2> HIDE DEF f
  <2>2. (w + p) + f = w /\ (w + p) + 1 = w + 1
    BY <1>9, <2>1
  <2>3. SubSeq(number, w + 1, w) = <<>>
    BY <1>4, <1>6
  <2>4. Fractional(b) = <<>> /\ Remaining(b) = b /\ b = Rest(number, w)
    BY <1>8, <1>9 DEF Fractional, Remaining, b
  <2> QED
    BY <1>2, <1>5, <2>2, <2>3, <2>4
<1>10. CASE p # 0
  <2>1. p = 1 /\ b # <<>>
    BY <1>8, <1>10 DEF Point
  <2>2. Len(b) # 0 /\ 1 \in 0 .. Len(b) /\ Len(b) \in Nat
    BY <1>7, <2>1
  <2>3. 1 \in 0 .. Len(number) - w /\ w + 1 \in 0 .. Len(number)
    BY <1>6, <1>7, <2>2
  <2>4. e = Rest(number, w + 1)
    BY <1>4, <1>6, <2>3, RestOfRest DEF b
  <2>5. e \in Seq(S) /\ Len(e) = Len(b) - 1
    BY <1>7, <2>2, SplitAt
  <2>6. f = Run(e, DigitSet)
    BY <1>10, <2>1, <2>4
  <2> HIDE DEF e, f
  <2>7. f \in 0 .. Len(e)
    BY <2>5, <2>6, RunPart
  <2>8. f \in 0 .. Len(number) - (w + 1)
    BY <1>6, <1>7, <2>5, <2>7
  <2>9. /\ SubSeq(e, 1, f) = SubSeq(number, (w + 1) + 1, (w + 1) + f)
        /\ Rest(e, f) = Rest(number, (w + 1) + f)
    BY <1>4, <2>3, <2>4, <2>8, RestOfRest
  <2>10. Fractional(b) = SubSeq(e, 1, f) /\ Remaining(b) = Rest(e, f)
    BY <1>8, <1>10, <2>6 DEF Fractional, Remaining, Whole, Behind, e
  <2> QED
    BY <1>2, <1>5, <2>1, <2>9, <2>10
<1> QED
    BY <1>9, <1>10

\* What is written in front of the digits, and between them.
MinusText(negative) == IF negative THEN <<"-">> ELSE <<>>
Pointed(f) == IF f = <<>> THEN <<>> ELSE <<".">> \o f

\* Digits are read up to where they end.
LEMMA DigitsThen ==
    ASSUME NEW d \in Seq(DigitSet), NEW b \in Seq(Chars), StopsAt(b, DigitSet)
    PROVE  Whole(d \o b) = d /\ Behind(d \o b) = b
<1>1. d \in Seq(Chars) /\ \A i \in 1 .. Len(d) : d[i] \in DigitSet
    BY CharsAre
<1>2. Run(d \o b, DigitSet) = Len(d)
    BY <1>1, RunOfParts
<1> QED
    BY <1>1, <1>2, PartsAre DEF Whole, Behind

\* A point and digits are read up to where they end, if there are any.
LEMMA PointThen ==
    ASSUME NEW f \in Seq(DigitSet), NEW r \in Seq(Chars), Len(r) # 0, r[1] \notin DigitSet, r[1] # "."
    PROVE  /\ Pointed(f) \in Seq(Chars) /\ Pointed(f) \o r \in Seq(Chars) /\ StopsAt(Pointed(f) \o r, DigitSet)
           /\ Fractional(Pointed(f) \o r) = f /\ Remaining(Pointed(f) \o r) = r
<1>1. f \in Seq(Chars) /\ r # <<>>
    BY CharsAre
<1>2. CASE f = <<>>
  <2>1. Pointed(f) = <<>> /\ Pointed(f) \in Seq(Chars) /\ Len(Pointed(f)) = 0
    BY <1>2 DEF Pointed
  <2>2. Pointed(f) \o r = r
    BY <2>1, PartsAre
  <2>3. Point(r) = 0
    BY DEF Point
  <2> QED
    BY <1>2, <2>1, <2>2, <2>3 DEF StopsAt, Fractional, Remaining
<1>3. CASE f # <<>>
  <2> DEFINE m == <<".">>
             a == f \o r
             b == m \o a
  <2>1. m \in Seq(Chars) /\ Len(m) = 1 /\ m[1] = "."
    BY CharsAre, OneChar
  <2>2. Pointed(f) = m \o f
    BY <1>3 DEF Pointed
  <2> HIDE DEF m
  <2>3. (m \o f) \o r = b
    BY <1>1, <2>1, ConcatAssociative
  <2>4. a \in Seq(Chars) /\ m \o f \in Seq(Chars)
    BY <1>1, <2>1, PartsAre
  <2>5. StopsAt(r, DigitSet)
    BY DEF StopsAt
  <2>6. Whole(a) = f /\ Behind(a) = r
    BY <2>5, DigitsThen
  <2> HIDE DEF a
  <2>7. b \in Seq(Chars) /\ Len(b) = Len(m) + Len(a) /\ Rest(b, Len(m)) = a /\ (Len(m) # 0 => b[1] = m[1])
    <3>1. m \in Seq(Chars) /\ a \in Seq(Chars)
        BY <2>1, <2>4
    <3> QED
        BY <3>1, PartsAre
  <2> HIDE DEF b
  <2>8. b # <<>> /\ b[1] = "." /\ Rest(b, 1) = a
    BY <2>1, <2>4, <2>7
  <2>9. Point(b) = 1
    BY <2>8 DEF Point
  <2>10. StopsAt(b, DigitSet)
    BY <2>8, Separators DEF StopsAt
  <2>11. Fractional(b) = f /\ Remaining(b) = r
    BY <2>6, <2>8, <2>9 DEF Fractional, Remaining
  <2> QED
    BY <2>2, <2>3, <2>4, <2>7, <2>10, <2>11
<1> QED
    BY <1>2, <1>3

\* The minus is read, if there is one.
LEMMA SignThen ==
    ASSUME NEW a \in Seq(Chars), Len(a) # 0, a[1] # "-", a[1] # Blank, NEW negative \in BOOLEAN
    PROVE  /\ MinusText(negative) \in Seq(Chars) /\ MinusText(negative) \o a \in Seq(Chars)
           /\ (MinusText(negative) \o a)[1] # Blank
           /\ (Minus(MinusText(negative) \o a) = 1) = negative /\ Unsigned(MinusText(negative) \o a) = a
<1>1. CASE negative
  <2> DEFINE m == <<"-">>
             b == m \o a
  <2>1. m \in Seq(Chars) /\ Len(m) = 1 /\ m[1] = "-"
    BY CharsAre, OneChar
  <2>2. MinusText(negative) = m
    BY <1>1 DEF MinusText
  <2> HIDE DEF m
  <2>3. b \in Seq(Chars) /\ Len(b) = Len(m) + Len(a) /\ Rest(b, Len(m)) = a /\ (Len(m) # 0 => b[1] = m[1])
    BY <2>1, PartsAre
  <2> HIDE DEF b
  <2>4. b # <<>> /\ b[1] = "-" /\ Rest(b, 1) = a
    BY <2>1, <2>3
  <2>5. Minus(b) = 1
    BY <2>4 DEF Minus
  <2>6. (Minus(b) = 1) = negative /\ b[1] # Blank /\ Unsigned(b) = a
    BY <1>1, <2>4, <2>5, Separators DEF Unsigned
  <2> QED
    BY <2>1, <2>2, <2>3, <2>6 DEF b
<1>2. CASE ~negative
  <2>1. MinusText(negative) = <<>> /\ MinusText(negative) \in Seq(Chars) /\ Len(MinusText(negative)) = 0
    BY <1>2 DEF MinusText
  <2>2. MinusText(negative) \o a = a
    BY <2>1, PartsAre
  <2>3. Minus(a) = 0
    BY DEF Minus
  <2>4. Rest(a, 0) = a
    BY SubSeqFull DEF Rest
  <2>5. (Minus(a) = 1) = negative /\ Unsigned(a) = a
    BY <1>2, <2>3, <2>4 DEF Unsigned
  <2> QED
    BY <2>1, <2>2, <2>5
<1> QED
    BY <1>1, <1>2

\* The text of an asset of these parts.
AssetIs(negative, w, f, r) == ((MinusText(negative) \o w) \o Pointed(f)) \o r
\* Its parts are read from it.
LEMMA AssetPartsRead ==
    ASSUME NEW negative \in BOOLEAN, NEW w \in Seq(DigitSet), Len(w) # 0, NEW f \in Seq(DigitSet),
           NEW r \in Seq(Chars), Len(r) # 0, r[1] = Blank
    PROVE  AssetParts(AssetIs(negative, w, f, r)) =
               [negative |-> negative, whole |-> w, fraction |-> f, rest |-> r]
<1> DEFINE p == Pointed(f)
           m == MinusText(negative)
           b == p \o r
           a == w \o b
           s == AssetIs(negative, w, f, r)
<1>1. r[1] \notin DigitSet /\ r[1] # "." /\ r[1] # "-"
    BY Separators
<1>2. /\ p \in Seq(Chars) /\ b \in Seq(Chars) /\ StopsAt(b, DigitSet)
      /\ Fractional(b) = f /\ Remaining(b) = r
    BY <1>1, PointThen
<1>3. w \in Seq(Chars) /\ \A i \in 1 .. Len(w) : w[i] \in DigitSet
    BY CharsAre
<1>4. w[1] # "-" /\ w[1] # Blank
  <2>1. 1 \in 1 .. Len(w)
    OBVIOUS
  <2> QED
    BY <1>3, <2>1, Separators
<1> HIDE DEF p, b
<1>5. Whole(a) = w /\ Behind(a) = b
    BY <1>2, DigitsThen
<1>6. a \in Seq(Chars) /\ Len(a) = Len(w) + Len(b) /\ (Len(w) # 0 => a[1] = w[1])
    BY <1>2, <1>3, PartsAre
<1> HIDE DEF a
<1>7. Len(a) # 0 /\ a[1] # "-" /\ a[1] # Blank
  <2>1. Len(b) \in Nat /\ Len(w) \in Nat
    BY <1>2
  <2> QED
    BY <1>4, <1>6, <2>1
<1>8. /\ m \in Seq(Chars) /\ m \o a \in Seq(Chars) /\ (m \o a)[1] # Blank
      /\ (Minus(m \o a) = 1) = negative /\ Unsigned(m \o a) = a
    BY <1>6, <1>7, SignThen
<1> HIDE DEF m
<1>9. s = m \o a
  <2>1. m \o w \in Seq(Chars)
    BY <1>3, <1>8, PartsAre
  <2>2. m \in Seq(Chars) /\ w \in Seq(Chars) /\ p \in Seq(Chars) /\ r \in Seq(Chars) /\ b \in Seq(Chars)
    BY <1>2, <1>3, <1>8
  <2>3. ((m \o w) \o p) \o r = (m \o w) \o (p \o r)
    <3> DEFINE x == m \o w
    <3>1. x \in Seq(Chars) /\ p \in Seq(Chars) /\ r \in Seq(Chars)
        BY <2>1, <2>2
    <3> HIDE DEF x
    <3>2. (x \o p) \o r = x \o (p \o r)
        BY ONLY <3>1, ConcatAssociative, SMTT(40)
    <3> QED
        BY <3>2 DEF x
  <2>4. (m \o w) \o b = m \o (w \o b)
    BY ONLY <2>2, ConcatAssociative, SMTT(40)
  <2>5. s = ((m \o w) \o p) \o r
    BY DEF s, AssetIs, m, p
  <2>6. b = p \o r /\ a = w \o b
    BY DEF b, a
  <2> QED
    BY ONLY <2>3, <2>4, <2>5, <2>6
<1> HIDE DEF s
<1>10. s \in Seq(Chars) /\ s[1] # Blank
    BY <1>8, <1>9
<1>11. AssetParts(s) =
               [negative |-> Minus(s) = 1, whole |-> Whole(Unsigned(s)),
                fraction |-> Fractional(Behind(Unsigned(s))),
                rest |-> Remaining(Behind(Unsigned(s)))]
    BY <1>10, AssetPartsAre
<1>12. Unsigned(s) = a /\ (Minus(s) = 1) = negative
    BY <1>8, <1>9
<1>13. AssetParts(s) = [negative |-> negative, whole |-> w, fraction |-> f, rest |-> r]
    BY <1>2, <1>5, <1>11, <1>12
<1> QED
    BY <1>13 DEF s

\* An amount in the range comes out of the 64 bits as it went in.
LEMMA AmountBack ==
    ASSUME NEW e \in Amounts
    PROVE  AsAmount(e) = e
<1>1. AmountLimit \in Nat /\ AmountSize = 2 * (AmountLimit + 1)
    BY SymbolAssumption DEF AmountSize
<1>2. AmountSize \in Nat
    BY <1>1
<1>3. CASE e >= 0
  <2>1. e \in 0 .. AmountSize - 1
    BY <1>1, <1>3 DEF Amounts
  <2>2. e % AmountSize = e
    BY <1>2, <2>1, Remainder
  <2>3. ~(e > AmountLimit)
    BY <1>1 DEF Amounts
  <2> QED
    BY <2>2, <2>3 DEF AsAmount
<1>4. CASE ~(e >= 0)
  <2> DEFINE u == e + AmountSize
  <2>1. u \in 0 .. AmountSize - 1 /\ u - AmountSize = e /\ u > AmountLimit
    BY <1>1, <1>4 DEF Amounts
  <2> HIDE DEF u
  <2>2. (u - AmountSize) % AmountSize = u
    BY <1>2, <2>1, Remainder
  <2> QED
    BY <2>1, <2>2 DEF AsAmount
<1> QED
    BY <1>3, <1>4

\* Between the amount and the code there is a blank, that is skipped.
LEMMA CodeBehind ==
    ASSUME NEW c, Lettered(c), NEW r, r = <<Blank>> \o c
    PROVE  r \in Seq(Chars) /\ Len(r) # 0 /\ r[1] = Blank /\ IsCodeText(r) /\ CodeOf(r) = CodeOf(c)
<1>1. c \in Seq(Chars) /\ Len(c) # 0 /\ \A i \in 1 .. Len(c) : c[i] \in LetterSet
    BY CharsAre DEF Lettered
<1>2. c[1] # Blank
  <2>1. 1 \in 1 .. Len(c)
    BY <1>1
  <2> QED
    BY <1>1, <2>1, Separators
<1> DEFINE m == <<Blank>>
<1>3. m \in Seq(Chars) /\ Len(m) = 1 /\ m[1] = Blank
    BY CharsAre, OneChar
<1>4. SkipSpaces(m \o c) = c
    BY <1>1, <1>2, CharsAre, OneSpace
<1>5. r = m \o c
    OBVIOUS
<1> HIDE DEF m
<1>6. m \in Seq(Chars) /\ c \in Seq(Chars)
    BY <1>1, <1>3
<1>7. r \in Seq(Chars) /\ Len(r) = Len(m) + Len(c) /\ (Len(m) # 0 => r[1] = m[1])
    BY ONLY <1>5, <1>6, PartsAre
<1>8. Len(r) # 0
  <2>1. Len(c) \in Nat
    BY <1>1
  <2> QED
    BY <1>3, <1>7, <2>1
<1>9. IsCodeText(c) /\ SkipSpaces(c) = c
    BY LettersRead
<1>10. IsCodeText(r) /\ CodeOf(r) = CodeOf(c)
  <2>1. SkipSpaces(r) = SkipSpaces(c)
    BY <1>4, <1>5, <1>9
  <2> QED
    BY <1>9, <2>1 DEF IsCodeText, CodeOf
<1> QED
    BY <1>3, <1>7, <1>8, <1>10

\* The text of an asset, with the blank named.
LEMMA TextOfAsset ==
    ASSUME NEW asset
    PROVE  AssetText(asset) =
               (((MinusText(asset.amount < 0) \o DigitsOf(Left(Magnitude(asset.amount))[asset.symbol.precision]))
                   \o (IF asset.symbol.precision = 0 THEN <<>>
                       ELSE <<".">> \o Digits(Magnitude(asset.amount), asset.symbol.precision)))
                  \o <<Blank>>) \o CodeText(asset.symbol.code)
BY Zenon DEF AssetText, MinusText, Left, Ten, Magnitude, Fraction, Blank
\* It is made of these parts.
LEMMA AssetTextIs ==
    ASSUME NEW number \in Int, NEW p \in Nat, NEW code, Lettered(CodeText(code)),
           NEW asset, asset.amount = number, asset.symbol.precision = p, asset.symbol.code = code
    PROVE  AssetText(asset) =
               AssetIs(number < 0, DigitsOf(Left(Magnitude(number))[p]), Digits(Magnitude(number), p),
                       <<Blank>> \o CodeText(code))
<1> DEFINE n == Magnitude(number)
           w == DigitsOf(Left(n)[p])
           f == Digits(n, p)
           c == CodeText(code)
           m == MinusText(number < 0)
           q == IF p = 0 THEN <<>> ELSE <<".">> \o f
           b == <<Blank>>
           x == (m \o w) \o q
<1>1. n \in Nat
    BY DEF Magnitude
<1>2. AssetText(asset) = (x \o b) \o c
    BY TextOfAsset
<1> HIDE DEF n
<1>3. Left(n)[p] \in Nat
    BY <1>1, LeftIs
<1>4. w \in Seq(DigitSet) /\ f \in Seq(DigitSet) /\ Len(f) = p
    BY <1>1, <1>3, DigitsOfBack, DigitsWritten
<1> HIDE DEF w, f
<1>5. q = Pointed(f)
  <2>1. f = <<>> <=> p = 0
    BY <1>4
  <2> QED
    BY <2>1 DEF Pointed
<1>6. c \in Seq(Chars)
    BY CharsAre DEF Lettered
<1> HIDE DEF c, q
<1>7. w \in Seq(Chars) /\ f \in Seq(Chars) /\ b \in Seq(Chars)
    BY <1>4, CharsAre, OneChar
<1>8. m \in Seq(Chars)
  <2>1. <<"-">> \in Seq(Chars) /\ <<>> \in Seq(Chars)
    BY CharsAre, OneChar
  <2> QED
    BY <2>1 DEF MinusText
<1>9. q \in Seq(Chars)
  <2> DEFINE d == <<".">>
  <2>1. d \in Seq(Chars) /\ <<>> \in Seq(Chars)
    BY CharsAre, OneChar
  <2>2. q = IF f = <<>> THEN <<>> ELSE d \o f
    BY <1>5 DEF Pointed
  <2> HIDE DEF d
  <2>3. d \o f \in Seq(Chars)
    BY <1>7, <2>1, PartsAre
  <2> QED
    BY <2>1, <2>2, <2>3
<1> HIDE DEF m, b
<1>10. m \o w \in Seq(Chars)
    BY <1>7, <1>8, PartsAre
<1>11. x \in Seq(Chars)
    BY <1>9, <1>10, PartsAre
<1> HIDE DEF x
<1>12. (x \o b) \o c = x \o (b \o c)
  <2>1. x \in Seq(Chars) /\ b \in Seq(Chars) /\ c \in Seq(Chars)
    BY <1>6, <1>7, <1>11
  <2> QED
    BY ONLY <2>1, ConcatAssociative
<1>13. AssetText(asset) = AssetIs(number < 0, w, f, b \o c)
    BY <1>2, <1>5, <1>12 DEF AssetIs, x, m
<1> QED
    BY <1>13 DEF n, w, f, b, c

\* The digits in front of the point and behind it are those of the amount.
LEMMA WrittenNumber ==
    ASSUME NEW n \in Nat, NEW p \in Nat
    PROVE  NumberOf(DigitsOf(Left(n)[p]) \o Digits(n, p)) = n
<1> DEFINE m == Left(n)[p]
           size == SizeOf(m)
<1>1. m \in Nat
    BY LeftIs
<1>2. \A k \in Nat : Left(m)[k] = Left(n)[p + k]
    BY LeftOfLeft
<1>3. DigitsOf(m) \o Digits(n, p) = Digits(m, size) \o Digits(n, p)
    BY DEF DigitsOf
<1>4. size \in Nat /\ Left(m)[size] = 0
  <2> HIDE DEF m
  <2>1. size \in 1 .. m + 1 /\ IsSize(size, m)
    BY <1>1, SizeIs
  <2> HIDE DEF size
  <2> QED
    BY <1>1, <2>1 DEF IsSize
<1> HIDE DEF size
<1>5. Digits(m, size) \o Digits(n, p) = Digits(n, size + p)
    BY <1>4, DigitsJoin
<1>6. size + p \in Nat /\ p + size = size + p
    BY <1>4
<1>7. Left(n)[size + p] = 0
    BY <1>2, <1>4, <1>6
<1>8. NumberOf(Digits(n, size + p)) = n
    BY <1>6, <1>7, NumberBack
<1> QED
    BY <1>3, <1>5, <1>8

\* Every asset with a valid symbol comes back from its text.
LEMMA AllAssetsComeBack ==
    ASSUME NEW asset \in [amount : Amounts, symbol : Symbols]
    PROVE  AssetComesBack(asset)
<1> SUFFICES ASSUME CodeValid(asset.symbol.code)
             PROVE  IsAssetText(AssetText(asset)) /\ AssetOf(AssetText(asset)) = asset
    BY DEF AssetComesBack
<1> DEFINE number == asset.amount
           symbol == asset.symbol
           p == symbol.precision
           code == symbol.code
           n == Magnitude(number)
           w == DigitsOf(Left(n)[p])
           f == Digits(n, p)
           c == CodeText(code)
           r == <<Blank>> \o c
           s == AssetText(asset)
<1>1. asset = [amount |-> number, symbol |-> symbol] /\ number \in Amounts /\ symbol \in Symbols
    OBVIOUS
<1>2. /\ symbol = [precision |-> p, code |-> code] /\ p \in 0 .. PrecisionSize - 1
      /\ code \in [1 .. CodeSize -> STRING] /\ code[CodeSize] = Nul
    BY <1>1 DEF Symbols
<1>3. CodeValid(code)
    OBVIOUS
<1>4. asset.amount = number /\ asset.symbol.precision = p /\ asset.symbol.code = code
    OBVIOUS
<1> HIDE DEF number, symbol, p, code
<1>5. number \in Int
    BY <1>1, SymbolAssumption DEF Amounts
<1>6. n \in Nat
    BY <1>5 DEF Magnitude
<1>7. p \in Nat /\ p % PrecisionSize = p
    BY <1>2 DEF PrecisionSize
<1>8. Lettered(c) /\ IsCodeText(c) /\ CodeOf(c) = code
    BY <1>2, <1>3, ValidCode
<1>9. s = AssetIs(number < 0, w, f, r)
    BY <1>4, <1>5, <1>7, <1>8, AssetTextIs
<1>10. NumberOf(w \o f) = n
    BY <1>6, <1>7, WrittenNumber
<1>11. Left(n)[p] \in Nat
    BY <1>6, <1>7, LeftIs
<1>12. w \in Seq(DigitSet) /\ Len(w) # 0
    BY <1>11, DigitsOfBack
<1>13. f \in Seq(DigitSet) /\ Len(f) = p
    BY <1>6, <1>7, DigitsWritten
<1>14. r \in Seq(Chars) /\ Len(r) # 0 /\ r[1] = Blank /\ IsCodeText(r) /\ CodeOf(r) = code
    BY <1>8, CodeBehind
<1> HIDE DEF s, w, f, r, c
<1>15. (number < 0) \in BOOLEAN
    BY <1>5
<1>16. AssetParts(s) = [negative |-> number < 0, whole |-> w, fraction |-> f, rest |-> r]
    BY <1>9, <1>12, <1>13, <1>14, <1>15, AssetPartsRead
<1>17. ExactAmount(s) = IF number < 0 THEN -n ELSE n
  <2> DEFINE parts == AssetParts(s)
  <2>1. parts.negative = (number < 0) /\ parts.whole = w /\ parts.fraction = f
    BY <1>16
  <2>2. ExactAmount(s) = IF parts.negative THEN -NumberOf(parts.whole \o parts.fraction)
                         ELSE NumberOf(parts.whole \o parts.fraction)
    BY DEF ExactAmount
  <2> HIDE DEF parts, n
  <2>3. NumberOf(parts.whole \o parts.fraction) = n
    BY <1>10, <2>1
  <2> QED
    BY <2>1, <2>2, <2>3, Zenon
<1>18. AsAmount(ExactAmount(s)) = number
  <2>1. ExactAmount(s) = number
    BY <1>5, <1>17 DEF n, Magnitude
  <2> QED
    BY <1>1, <2>1, AmountBack
<1>19. AssetOf(s) = [amount |-> number, symbol |-> Symbol(Len(f) % PrecisionSize, CodeOf(r))]
    BY <1>16, <1>18 DEF AssetOf
<1>20. AssetOf(s) = asset
    BY <1>1, <1>2, <1>7, <1>13, <1>14, <1>19 DEF Symbol
<1>21. IsAssetText(s)
    BY <1>14, <1>16 DEF IsAssetText
<1> QED
    BY <1>20, <1>21 DEF s

\* A text falls into its minus and what follows.
LEMMA SignSplit ==
    ASSUME NEW S, NEW s \in Seq(S)
    PROVE  /\ MinusText(Minus(s) = 1) \in Seq(S) /\ Unsigned(s) \in Seq(S)
           /\ s = MinusText(Minus(s) = 1) \o Unsigned(s)
<1> DEFINE m == Minus(s)
<1>1. Len(s) \in Nat /\ (s # <<>> => Len(s) # 0)
    OBVIOUS
<1>2. m = 0 \/ (m = 1 /\ Len(s) # 0 /\ s[1] = "-")
    BY <1>1 DEF Minus
<1>3. m \in 0 .. Len(s)
    BY <1>1, <1>2
<1>4. Unsigned(s) = Rest(s, m)
    BY DEF Unsigned
<1> HIDE DEF m
<1> DEFINE a == SubSeq(s, 1, m)
<1>5. a \in Seq(S) /\ Len(a) = m /\ Rest(s, m) \in Seq(S) /\ s = a \o Rest(s, m) /\ \A i \in 1 .. m : a[i] = s[i]
    BY <1>3, SplitAt
<1> HIDE DEF a
<1>6. a = MinusText(m = 1)
  <2>1. CASE m = 0
    <3>1. a = <<>>
        BY <1>5, <2>1
    <3> QED
        BY <2>1, <3>1 DEF MinusText
  <2>2. CASE m = 1
    <3>1. a = <<a[1]>>
        BY <1>5, <2>2, OneEntry
    <3>2. a[1] = "-"
        BY <1>2, <1>5, <2>2
    <3> QED
        BY <2>2, <3>1, <3>2 DEF MinusText
  <2> QED
    BY <1>2, <2>1, <2>2
<1> QED
    BY <1>4, <1>5, <1>6 DEF m
\* Into the digits at its front and what follows.
LEMMA WholeSplit ==
    ASSUME NEW S, NEW s \in Seq(S)
    PROVE  /\ Whole(s) \in Seq(DigitSet) /\ Whole(s) \in Seq(S) /\ Behind(s) \in Seq(S)
           /\ s = Whole(s) \o Behind(s) /\ Len(s) = Len(Whole(s)) + Len(Behind(s))
<1> DEFINE n == Run(s, DigitSet)
<1>1. n \in 0 .. Len(s) /\ SubSeq(s, 1, n) \in Seq(DigitSet)
    BY RunPart
<1>2. Whole(s) = SubSeq(s, 1, n) /\ Behind(s) = Rest(s, n)
    BY DEF Whole, Behind
<1> HIDE DEF n
<1>3. /\ SubSeq(s, 1, n) \in Seq(S) /\ Len(SubSeq(s, 1, n)) = n
      /\ Rest(s, n) \in Seq(S) /\ Len(Rest(s, n)) = Len(s) - n
      /\ s = SubSeq(s, 1, n) \o Rest(s, n)
    BY <1>1, SplitAt
<1>4. Len(s) = n + (Len(s) - n)
    BY <1>1
<1> QED
    BY <1>1, <1>2, <1>3, <1>4
\* Into a point with digits and what follows; or there is a point that no digit
\* follows.
PointAlone(s) == s # <<>> /\ s[1] = "." /\ Len(Remaining(s)) = Len(s) - 1
\* In the first case the parts make up the whole text.
LEMMA PointSplit ==
    ASSUME NEW S, NEW s \in Seq(S), ~PointAlone(s)
    PROVE  /\ Fractional(s) \in Seq(DigitSet) /\ Pointed(Fractional(s)) \in Seq(S)
           /\ Remaining(s) \in Seq(S) /\ s = Pointed(Fractional(s)) \o Remaining(s)
<1>1. CASE Point(s) = 0
  <2>1. Fractional(s) = <<>> /\ Remaining(s) = s
    BY <1>1 DEF Fractional, Remaining
  <2>2. Pointed(<<>>) = <<>> /\ <<>> \in Seq(S) /\ Len(<<>>) = 0 /\ <<>> \in Seq(DigitSet)
    BY DEF Pointed
  <2>3. <<>> \o s = s
    BY <2>2, PartsAre
  <2> QED
    BY <2>1, <2>2, <2>3
<1>2. CASE Point(s) # 0
  <2> DEFINE e == Rest(s, 1)
             f == Whole(e)
             r == Behind(e)
             m == SubSeq(s, 1, 1)
  <2>1. s # <<>> /\ s[1] = "."
    BY <1>2 DEF Point
  <2>2. 1 \in 0 .. Len(s) /\ Len(s) \in Nat
    BY <2>1
  <2>3. /\ m \in Seq(S) /\ Len(m) = 1 /\ e \in Seq(S) /\ Len(e) = Len(s) - 1 /\ s = m \o e
        /\ \A i \in 1 .. 1 : m[i] = s[i]
    BY <2>2, SplitAt
  <2>4. Fractional(s) = f /\ Remaining(s) = r
    BY <1>2 DEF Fractional, Remaining
  <2> HIDE DEF e, m
  <2>5. f \in Seq(DigitSet) /\ f \in Seq(S) /\ r \in Seq(S) /\ e = f \o r /\ Len(e) = Len(f) + Len(r)
    BY <2>3, WholeSplit
  <2> HIDE DEF f, r
  <2>6. m = <<".">>
    <3>1. m = <<m[1]>> /\ m[1] = s[1]
        BY <2>3, OneEntry
    <3> QED
        BY <2>1, <3>1
  <2>7. Len(r) # Len(s) - 1
    BY <2>1, <2>4 DEF PointAlone
  <2>8. f # <<>>
    BY <2>3, <2>5, <2>7
  <2>9. Pointed(f) = m \o f
    BY <2>6, <2>8 DEF Pointed
  <2>10. m \o f \in Seq(S)
    BY <2>3, <2>5, PartsAre
  <2>11. (m \o f) \o r = m \o (f \o r)
    BY <2>3, <2>5, ConcatAssociative
  <2> QED
    BY <2>3, <2>4, <2>5, <2>9, <2>10, <2>11
<1> QED
    BY <1>1, <1>2

\* A text that no blank starts is made of the parts that are read from it, if there
\* is no point that no digit follows.
LEMMA AssetSplit ==
    ASSUME NEW S, NEW s \in Seq(S), s = <<>> \/ s[1] # Blank,
           s[Len(s) - Len(AssetParts(s).rest)] # "."
    PROVE  /\ AssetParts(s).negative \in BOOLEAN
           /\ AssetParts(s).whole \in Seq(DigitSet) /\ AssetParts(s).fraction \in Seq(DigitSet)
           /\ AssetParts(s).rest \in Seq(S)
           /\ s = AssetIs(AssetParts(s).negative, AssetParts(s).whole, AssetParts(s).fraction,
                          AssetParts(s).rest)
<1> DEFINE parts == AssetParts(s)
           g == (Minus(s) = 1)
           m == MinusText(g)
           a == Unsigned(s)
           w == Whole(a)
           b == Behind(a)
           f == Fractional(b)
           p == Pointed(f)
           r == Remaining(b)
<1>1. parts = [negative |-> g, whole |-> w, fraction |-> f, rest |-> r]
    BY AssetPartsAre
<1>2. m \in Seq(S) /\ a \in Seq(S) /\ s = m \o a /\ g \in BOOLEAN
    BY SignSplit
<1>3. /\ parts.negative = g /\ parts.whole = w /\ parts.fraction = f /\ parts.rest = r
    BY <1>1
<1>4. s[Len(s) - Len(r)] # "."
    BY <1>3
<1> HIDE DEF parts, a, g
<1>5. w \in Seq(DigitSet) /\ w \in Seq(S) /\ b \in Seq(S) /\ a = w \o b
    BY <1>2, WholeSplit
<1> HIDE DEF m, w, b
<1>6. m \o w \in Seq(S)
    BY <1>2, <1>5, PartsAre
<1>7. s = (m \o w) \o b
  <2>1. m \in Seq(S) /\ w \in Seq(S) /\ b \in Seq(S)
    BY <1>2, <1>5
  <2>2. (m \o w) \o b = m \o (w \o b)
    BY ONLY <2>1, ConcatAssociative
  <2> QED
    BY <1>2, <1>5, <2>2
<1>8. ~PointAlone(b)
  <2> SUFFICES ASSUME b # <<>>, b[1] = ".", Len(r) = Len(b) - 1 PROVE FALSE
    BY DEF PointAlone
  <2> DEFINE x == m \o w
  <2>1. x \in Seq(S) /\ s = x \o b
    BY <1>6, <1>7
  <2> HIDE DEF x, r
  <2>2. Len(s) = Len(x) + Len(b) /\ (Len(b) # 0 => s[Len(x) + 1] = b[1])
    BY <1>5, <2>1, PartsAre
  <2>3. Len(b) # 0 /\ Len(x) \in Nat /\ Len(b) \in Nat
    BY <1>5, <2>1
  <2>4. Len(s) - Len(r) = Len(x) + 1
    BY <2>2, <2>3
  <2> QED
    BY <1>4, <2>2, <2>3, <2>4
<1>9. f \in Seq(DigitSet) /\ p \in Seq(S) /\ r \in Seq(S) /\ b = p \o r
    BY <1>5, <1>8, PointSplit
<1> HIDE DEF f, r, p
<1>10. s = ((m \o w) \o p) \o r
  <2> DEFINE x == m \o w
  <2>1. x \in Seq(S) /\ p \in Seq(S) /\ r \in Seq(S)
    BY <1>6, <1>9
  <2>2. s = x \o b
    BY <1>7
  <2> HIDE DEF x
  <2>3. (x \o p) \o r = x \o (p \o r)
    BY ONLY <2>1, ConcatAssociative
  <2>4. s = (x \o p) \o r
    BY <1>9, <2>2, <2>3
  <2> QED
    BY <2>4 DEF x
<1>11. s = AssetIs(g, w, f, r)
    BY <1>10 DEF AssetIs, m, p
<1> QED
    BY <1>2, <1>3, <1>5, <1>9, <1>11 DEF parts

\* The first character and the others.
LEMMA FirstAndOthers ==
    ASSUME NEW S, NEW s \in Seq(S), s # <<>>
    PROVE  Tail(s) \in Seq(S) /\ s = <<s[1]>> \o Tail(s)
<1> DEFINE m == SubSeq(s, 1, 1)
           e == Rest(s, 1)
           t == Tail(s)
<1>1. Len(s) \in Nat /\ Len(s) # 0 /\ 1 \in 0 .. Len(s)
    OBVIOUS
<1>2. /\ m \in Seq(S) /\ Len(m) = 1 /\ e \in Seq(S) /\ Len(e) = Len(s) - 1 /\ s = m \o e
      /\ \A i \in 1 .. 1 : m[i] = s[i]
    BY <1>1, SplitAt
<1>3. \A i \in 1 .. Len(s) - 1 : e[i] = s[i + 1]
    BY <1>1, RearIs DEF Rest
<1>4. t \in Seq(S) /\ Len(t) = Len(s) - 1 /\ \A i \in 1 .. Len(s) - 1 : t[i] = s[i + 1]
    BY <1>1
<1> HIDE DEF m, e, t
<1>5. t = e
  <2>1. \A i \in 1 .. Len(t) : t[i] = e[i]
    BY <1>3, <1>4
  <2> QED
    BY <1>2, <1>4, <2>1, SeqEqual
<1>6. m = <<s[1]>>
  <2>1. m = <<m[1]>> /\ m[1] = s[1]
    BY <1>2, OneEntry
  <2> QED
    BY <2>1
<1> QED
    BY <1>2, <1>4, <1>5, <1>6 DEF t

\* The number that digits in front of a point and behind it make is written with
\* these digits, if it is written at all.
LEMMA ReadNumber ==
    ASSUME NEW w \in Seq(DigitSet), NEW f \in Seq(DigitSet), NoZeros(w),
           NEW n, n = NumberOf(w \o f), NEW p, p = Len(f)
    PROVE  n \in Nat /\ p \in Nat /\ DigitsOf(Left(n)[p]) = w /\ Digits(n, p) = f
<1> DEFINE m == Left(n)[p]
           l == Len(w)
           s == w \o f
           a == Digits(m, l)
           b == Digits(n, p)
<1>1. s \in Seq(DigitSet) /\ Len(s) = l + p /\ l \in Nat /\ p \in Nat
    BY PartsAre
<1>2. \A i \in 1 .. Len(w) + Len(f) : s[i] = IF i <= Len(w) THEN w[i] ELSE f[i - Len(w)]
    BY ConcatProperties
<1>3. n = NumberOf(s)
    OBVIOUS
<1> HIDE DEF s
<1>4. n \in Nat
    BY <1>1, <1>3, NumberIs
<1>5. m \in Nat
    BY <1>1, <1>4, LeftIs
<1>6. a \in Seq(DigitSet) /\ Len(a) = l
    BY <1>1, <1>5, DigitsWritten
<1>7. b \in Seq(DigitSet) /\ Len(b) = p
    BY <1>1, <1>4, DigitsWritten
<1>8. a \o b = s
  <2>1. a \o b = Digits(n, l + p)
    BY <1>1, <1>4, DigitsJoin
  <2>2. Digits(NumberOf(s), Len(s)) = s
    BY <1>1, DigitsBack
  <2> QED
    BY <1>1, <1>3, <2>1, <2>2
<1>9. Left(m)[l] = 0
  <2>1. \A k \in Nat : Left(m)[k] = Left(n)[p + k]
    BY <1>1, <1>4, LeftOfLeft
  <2>2. Left(m)[l] = Left(n)[p + l]
    BY <1>1, <2>1
  <2>3. Len(s) \in 0 .. Len(s) /\ p + l = Len(s) /\ Len(s) - Len(s) = 0
    BY <1>1
  <2>4. Left(NumberOf(s))[Len(s)] = Numbers(Values(s), Ten)[Len(s) - Len(s)]
    BY <1>1, <2>3, LeftOfNumber
  <2>5. Numbers(Values(s), Ten)[0] = 0
    <3>1. Values(s) \in Seq(0 .. Ten - 1)
        BY <1>1, ValuesAre
    <3> QED
        BY <3>1, TenIs, NumbersDivide
  <2> QED
    BY <1>3, <2>2, <2>3, <2>4, <2>5
<1> HIDE DEF m, l
<1>10. NumberOf(a) = m
    BY <1>1, <1>5, <1>9, NumberBack
<1> HIDE DEF a, b
<1>11. /\ \A i \in 1 .. Len(a) + Len(b) : (a \o b)[i] = IF i <= Len(a) THEN a[i] ELSE b[i - Len(a)]
    BY <1>6, <1>7, ConcatProperties
<1>12. a = w
  <2>1. Len(a) = Len(w)
    BY <1>6 DEF l
  <2>2. ASSUME NEW i \in 1 .. Len(a) PROVE a[i] = w[i]
    <3>1. i \in 1 .. Len(a) + Len(b) /\ i \in 1 .. Len(w) + Len(f) /\ i <= Len(a) /\ i <= Len(w)
        BY <1>6, <1>7, <2>1
    <3> QED
        BY <1>2, <1>8, <1>11, <3>1
  <2> QED
    BY <1>6, <2>1, <2>2, SeqEqual
<1>13. b = f
  <2>1. Len(a) = Len(w) /\ Len(b) = Len(f)
    BY <1>6, <1>7 DEF l
  <2>2. ASSUME NEW i \in 1 .. Len(b) PROVE b[i] = f[i]
    <3> DEFINE j == i + Len(w)
    <3>1. j \in 1 .. Len(a) + Len(b) /\ j \in 1 .. Len(w) + Len(f) /\ ~(j <= Len(a)) /\ ~(j <= Len(w))
            /\ j - Len(w) = i /\ j - Len(a) = i
        BY <1>6, <1>7, <2>1
    <3> HIDE DEF j
    <3>2. (a \o b)[j] = b[i] /\ s[j] = f[i]
        BY <1>2, <1>11, <3>1
    <3> QED
        BY <1>8, <3>2
  <2> QED
    BY <1>7, <2>1, <2>2, SeqEqual
<1>14. DigitsOf(m) = w
    BY <1>10, <1>12, PlainDigits
<1> QED
    BY <1>1, <1>4, <1>13, <1>14 DEF m, b

\* What is known of a text of an asset in the form the program writes, with the
\* blank named.
LEMMA PlainAssetIs ==
    ASSUME NEW s, IsPlainAsset(s), NEW parts, parts = AssetParts(s)
    PROVE  /\ IsCodeText(parts.rest) /\ s[1] # Blank /\ NoZeros(parts.whole) /\ parts.rest[1] = Blank
           /\ IsPlainCode(Tail(parts.rest)) /\ s[Len(s) - Len(parts.rest)] # "."
           /\ parts.negative => ExactAmount(s) # 0
           /\ Len(parts.fraction) < PrecisionSize
           /\ ExactAmount(s) \in Amounts
BY Zenon DEF IsPlainAsset, IsAssetText, Blank

\* A text of an asset in the form the program writes is written again as it was
\* read.
LEMMA AllAssetsKept ==
    ASSUME NEW S, NEW s \in Seq(S)
    PROVE  AssetKept(s)
<1> SUFFICES ASSUME IsPlainAsset(s) PROVE AssetText(AssetOf(s)) = s
    BY DEF AssetKept
<1> DEFINE parts == AssetParts(s)
           g == parts.negative
           w == parts.whole
           f == parts.fraction
           r == parts.rest
           c == Tail(r)
           e == ExactAmount(s)
           n == NumberOf(w \o f)
           p == Len(f)
           asset == AssetOf(s)
<1>1. /\ IsCodeText(r) /\ s[1] # Blank /\ NoZeros(w) /\ r[1] = Blank
      /\ IsPlainCode(c) /\ s[Len(s) - Len(r)] # "."
      /\ g => e # 0
      /\ p < PrecisionSize
      /\ e \in Amounts
    BY PlainAssetIs
<1>2. /\ g \in BOOLEAN /\ w \in Seq(DigitSet) /\ f \in Seq(DigitSet) /\ r \in Seq(S)
      /\ s = AssetIs(g, w, f, r)
    BY <1>1, AssetSplit
<1>3. e = IF g THEN -n ELSE n
    BY DEF ExactAmount
<1>4. asset = [amount |-> AsAmount(e), symbol |-> Symbol(p % PrecisionSize, CodeOf(r))]
    BY DEF AssetOf
<1> HIDE DEF parts, g, w, f, r, e, asset
<1>5. n \in Nat /\ p \in Nat /\ DigitsOf(Left(n)[p]) = w /\ Digits(n, p) = f
    BY <1>1, <1>2, ReadNumber
<1> HIDE DEF n, p
<1>6. e \in Int /\ (e < 0) = g /\ Magnitude(e) = n
  <2>1. CASE g
    <3>1. e = -n /\ e # 0
        BY <1>1, <1>3, <2>1
    <3>2. e \in Int /\ e < 0 /\ -e = n
        BY <1>5, <3>1
    <3> QED
        BY <2>1, <3>2 DEF Magnitude
  <2>2. CASE ~g
    <3>1. e = n
        BY <1>3, <2>2
    <3>2. e \in Int /\ ~(e < 0)
        BY <1>5, <3>1
    <3> QED
        BY <1>2, <2>2, <3>1, <3>2 DEF Magnitude
  <2> QED
    BY <1>2, <2>1, <2>2
<1>7. AsAmount(e) = e
  BY <1>1, AmountBack
<1>8. p % PrecisionSize = p
    BY <1>1, <1>5 DEF PrecisionSize
<1>9. r # <<>>
  <2> SUFFICES ASSUME r = <<>> PROVE FALSE
    OBVIOUS
  <2>1. SkipSpaces(r) = r
    BY <1>2, NoSpaces
  <2>2. Lettered(SkipSpaces(r))
    BY <1>1, <1>2, ReadLetters
  <2> QED
    BY <2>1, <2>2 DEF Lettered
<1>10. c \in Seq(S) /\ r = <<Blank>> \o c
    BY <1>1, <1>2, <1>9, FirstAndOthers
<1> HIDE DEF c
<1>11. Lettered(c) /\ CodeText(CodeOf(c)) = c
    BY <1>1, <1>10, PlainCodeKept
<1>12. CodeOf(r) = CodeOf(c)
    BY <1>10, <1>11, CodeBehind
<1>13. asset.amount = e /\ asset.symbol.precision = p /\ asset.symbol.code = CodeOf(c)
    BY <1>4, <1>7, <1>8, <1>12 DEF Symbol
<1>14. AssetText(asset) = AssetIs(e < 0, DigitsOf(Left(Magnitude(e))[p]), Digits(Magnitude(e), p),
                                  <<Blank>> \o CodeText(CodeOf(c)))
    BY <1>5, <1>6, <1>11, <1>13, AssetTextIs
<1>15. AssetText(asset) = AssetIs(g, w, f, r)
    BY <1>5, <1>6, <1>10, <1>11, <1>14
<1> QED
    BY <1>2, <1>15 DEF asset

\* The numbers of 32 bits, however that is said.
LEMMA Uint32Is == \A n : IsUint32(n) => n \in Uint32
BY DEF IsUint32, Uint32
\* A varint32 in its short form, with a width of eight bits.
LEMMA ShortVarintsHold ==
    ASSUME NEW v \in -128 .. 127
    PROVE  ZigZagHolds(v, 8)
<1>1. 2 ^ 8 = 256 /\ 2 ^ (8 - 1) = 128
    BY SMT
<1>2. v \in Int /\ v >= -128 /\ v < 128
    OBVIOUS
<1>3. CASE v >= 0
    <2>1. ZigZag(v, 8) = 2 * v
        BY <1>2, <1>3, SMT DEF ZigZag
    <2>2. (2 * v) % 2 = 0 /\ (2 * v) \div 2 = v
        BY <1>2, SMT
    <2>3. UnZigZag(2 * v, 8) = v
        BY <2>2, SMT DEF UnZigZag
    <2> QED
        BY <1>1, <1>2, <1>3, <2>1, <2>3, SMT DEF ZigZagHolds
<1>4. CASE v < 0
    <2> DEFINE u == -2 * v - 1
    <2>1. (2 * v) % 256 = 2 * v + 256
        BY <1>2, <1>4, SMT
    <2>2. ZigZag(v, 8) = u
        BY <1>1, <1>2, <1>4, <2>1, SMT DEF ZigZag
    <2>3. u \in Nat /\ u < 256 /\ u % 2 = 1
        BY <1>2, <1>4, SMT
    <2>4. (255 - u) \div 2 = 128 + v
        BY <1>2, SMT
    <2>5. UnZigZag(u, 8) = v
        <3>1. UnZigZag(u, 8) = ((2 ^ 8 - 1 - u) \div 2) + 2 ^ (8 - 1) - 2 ^ 8
            BY <2>3, SMT DEF UnZigZag
        <3>2. 2 ^ 8 - 1 - u = 255 - u
            BY <1>1, <2>3, SMT
        <3> QED
            BY <1>1, <1>2, <2>4, <3>1, <3>2, SMT
    <2> QED
        BY <1>1, <2>2, <2>3, <2>5, SMT DEF ZigZagHolds
<1> QED
    BY <1>2, <1>3, <1>4, SMT

-----------------------------------------------------------------------------
(* What the client holds.                                                  *)

\* Nothing, or one of the values and texts that are tried.
HeldInv ==
    held = None \/ \E kind \in DOMAIN Tried : \E v \in Tried[kind] : held = [kind |-> kind, value |-> v]

\* It is held as it was taken, whatever else is done.
LEMMA Holding == Spec => []HeldInv
<1>1. Init => HeldInv
    BY DEF Init, HeldInv
<1>2. HeldInv /\ [Next]_vars => HeldInv'
  <2> SUFFICES ASSUME HeldInv, [Next]_vars PROVE HeldInv'
    OBVIOUS
  <2>1. CASE UNCHANGED held
    BY <2>1 DEF HeldInv
  <2>2. CASE \E kind \in DOMAIN Tried : Hold(kind)
    BY <2>2 DEF Hold, HeldInv
  <2>3. QED
    BY <2>1, <2>2 DEF Next, Exchange, ReadOrWrite, Calculate, Stay, vars
<1>3. QED
    BY <1>1, <1>2, PTL DEF Spec

\* What is held is one of the values that are tried.
LEMMA HeldValue ==
    ASSUME HeldInv, NEW kind, kind # "none", Is(kind)
    PROVE  kind \in DOMAIN Tried /\ held.value \in Tried[kind]
<1>1. held # None
    BY DEF Is, None
<1>2. QED
    BY <1>1 DEF HeldInv, Is

\* Every date is the one of the calendar; every second and every slot comes back
\* from its text, and every time point whose seconds are a uint32_t, to the
\* millisecond; and slots are those of their time points from 1931 to 2068
\* (chain_conversions.hpp:231-334, time.hpp).
THEOREM AllTimesComeBack == Spec => []TimesComeBack
<1>1. HeldInv => TimesComeBack
  <2> SUFFICES ASSUME HeldInv PROVE TimesComeBack
    OBVIOUS
  <2>1. ASSUME Is("day") PROVE DateHolds(held.value)
    <3>0. "day" \in DOMAIN Tried /\ held.value \in Tried["day"]
        BY <2>1, HeldValue
    <3>1. held.value \in Int
        BY <3>0, TriedAssumption, ZenonT(60)
    <3> QED
        BY <3>1, DatesHold
  <2>2. ASSUME Is("second") PROVE SecondKept(held.value)
    <3>0. "second" \in DOMAIN Tried /\ held.value \in Tried["second"]
        BY <2>2, HeldValue
    <3>1. IsSeconds(held.value)
        BY <3>0, TriedAssumption, ZenonT(60)
    <3> QED
        BY <3>1, SecondsKept
  <2>3. ASSUME Is("slot") PROVE SlotKept(held.value)
    <3>0. "slot" \in DOMAIN Tried /\ held.value \in Tried["slot"]
        BY <2>3, HeldValue
    <3>1. held.value \in [day : Nat, half : Nat] /\ held.value.half < HalfSeconds /\ IsSlot(held.value)
        BY <3>0, TriedAssumption, ZenonT(60)
    <3> QED
        BY <3>1, SlotsKept DEF IsASlot
  <2>4. ASSUME Is("time") PROVE TimeKept(held.value) /\ SlotHolds(held.value)
    <3>0. "time" \in DOMAIN Tried /\ held.value \in Tried["time"]
        BY <2>4, HeldValue
    <3>1. IsTimePoint(held.value)
        BY <3>0, TriedAssumption, ZenonT(60)
    <3> QED
        BY <3>1, TimesKept, SlotsHold
  <2> QED
    BY <2>1, <2>2, <2>3, <2>4 DEF TimesComeBack
<1> QED
    BY <1>1, Holding, PTL

\* Bytes come back from base 58 and from hexadecimal digits, and digits that have
\* no NUL from the bytes; keys and signatures come back from their texts, and a
\* checksum from its words, which are in the order of the bytes: of all that
\* there are (crypto.cpp:26-83, 128-206, fixed_bytes.hpp, from_json.hpp).
THEOREM AllKeysComeBack == Spec => []KeysComeBack
<1>1. HeldInv => KeysComeBack
  <2> SUFFICES ASSUME HeldInv PROVE KeysComeBack
    OBVIOUS
  <2>1. ASSUME Is("bytes") PROVE Base58Holds(held.value) /\ HexHolds(held.value)
    <3>0. "bytes" \in DOMAIN Tried /\ held.value \in Tried["bytes"]
        BY <2>1, HeldValue
    <3>1. held.value \in Seq(0 .. 255)
        BY <3>0, TriedAssumption, ZenonT(60)
    <3> QED
        BY <3>1, AllBase58Holds, AllHexHolds
  <2>2. ASSUME Is("base 58") PROVE DigitsHold(held.value)
    <3>0. "base 58" \in DOMAIN Tried /\ held.value \in Tried["base 58"]
        BY <2>2, HeldValue
    <3>1. held.value \in Seq(-1 .. 58)
        BY <3>0, TriedAssumption, ZenonT(60)
    <3> QED
        BY <3>1, AllDigitsHold
  <2>3. ASSUME Is("key") PROVE KeyHolds(held.value)
    <3> DEFINE key == held.value
    <3>0. "key" \in DOMAIN Tried /\ key \in Tried["key"]
        BY <2>3, HeldValue
    <3>1. IsKey(key) /\ Ripemd(key.data, key.type) \in [1 .. CheckSize -> 0 .. 255]
        BY <3>0, TriedAssumption, ZenonT(60)
    <3>2. Ripemd(key.data, key.type) \in [1 .. CheckSize -> Octets]
        BY <3>1 DEF Octets
    <3> HIDE DEF key
    <3>3. KeyHolds(key)
        BY <3>1, <3>2, AllKeysHold
    <3> QED
        BY <3>3 DEF key
  <2>4. ASSUME Is("checksums") PROVE WordsHold(held.value[1], held.value[2])
    <3> DEFINE both == held.value
               Sums == [1 .. FixedSize -> 0 .. 255]
    <3>0. "checksums" \in DOMAIN Tried /\ both \in Tried["checksums"]
        BY <2>4, HeldValue
    <3>1. both \in [1 .. FixedSize -> 0 .. 255] \X [1 .. FixedSize -> 0 .. 255]
        BY <3>0, TriedAssumption, ZenonT(60)
    <3> HIDE DEF both
    <3>2. both[1] \in [1 .. FixedSize -> Octets] /\ both[2] \in [1 .. FixedSize -> Octets]
        BY <3>1 DEF Octets
    <3>3. WordsHold(both[1], both[2])
        BY <3>2, AllWordsHold
    <3> QED
        BY <3>3 DEF both
  <2> QED
    BY <2>1, <2>2, <2>3, <2>4 DEF KeysComeBack
<1> QED
    BY <1>1, Holding, PTL

-----------------------------------------------------------------------------
(* What the client reads, writes and calculates, whatever else it does.    *)

\* No step of the client changes an integer or a balance but by their own steps.
LEMMA IntegerSteps == [Next]_vars => [IntNext]_intVars /\ [AssetNext]_assetVars
<1> SUFFICES ASSUME [Next]_vars PROVE [IntNext]_intVars /\ [AssetNext]_assetVars
    OBVIOUS
<1>1. CASE UNCHANGED vars
    BY <1>1 DEF vars
<1>2. CASE Exchange
    BY <1>2 DEF Exchange
<1>3. CASE ReadOrWrite
    BY <1>3 DEF ReadOrWrite
<1>4. CASE Calculate
    BY <1>4 DEF Calculate
<1>5. CASE Stay
    BY <1>5 DEF Stay, vars
<1>6. CASE \E kind \in DOMAIN Tried : Hold(kind)
    BY <1>6 DEF Hold
<1> QED
    BY <1>1, <1>2, <1>3, <1>4, <1>5, <1>6 DEF Next

\* What is known of the integers and the balances of the client.
LEMMA ClientNumbers == Spec => [](IntInv /\ WriteInv /\ AssetInv)
<1>1. Init => IntInv /\ WriteInv /\ AssetInv
    BY IntInvInit, WriteInvInit, AssetInvInit DEF Init
<1>2. IntInv /\ WriteInv /\ AssetInv /\ [Next]_vars => (IntInv /\ WriteInv /\ AssetInv)'
    BY IntegerSteps, IntInvNext, WriteInvNext, AssetInvNext
<1> QED
    BY <1>1, <1>2, PTL DEF Spec

\* A client of the library reads integers exactly or is told that they do not fit,
\* and calculates balances exactly or with an error (from_json.hpp:387,
\* asset.hpp).
THEOREM ClientIsExact == Spec => [](ReadsExactly /\ AmountsExact)
<1>1. IntInv /\ WriteInv /\ AssetInv => ReadsExactly /\ AmountsExact
    BY DEF IntInv, AssetInv
<1> QED
    BY <1>1, ClientNumbers, PTL

\* Every integer, name, symbol, asset and varint comes back from its text or its
\* short form, of all that there are, and every text in the form the program
\* writes is written again as it was read (chain_conversions.hpp, name.hpp,
\* symbol.hpp, asset.hpp, varint.hpp, from_json.hpp:387).
THEOREM AllValuesComeBack == Spec => []ValuesComeBack
<1>1. ASSUME HeldInv, IntInv, WriteInv PROVE ValuesComeBack
  <2> DEFINE v == held.value
  <2>1. IntegerComesBack
    BY <1>1, WrittenIsRead
  <2>2. ASSUME Is("name") PROVE NameComesBack(v)
    <3>0. "name" \in DOMAIN Tried /\ v \in Tried["name"]
        BY <1>1, <2>2, HeldValue
    <3>1. v \in [1 .. NameLength -> 0 .. 31] /\ v[NameLength] < 16
        BY <3>0, TriedAssumption, ZenonT(60)
    <3> QED
        BY <3>1, AllNamesComeBack
  <2>3. ASSUME Is("name text") PROVE NameMeans(v)
    <3>0. "name text" \in DOMAIN Tried /\ v \in Tried["name text"]
        BY <1>1, <2>3, HeldValue
    <3>1. v \in Seq(STRING)
        BY <3>0, TriedAssumption, ZenonT(60)
    <3> QED
        BY <3>1, AllNamesMean
  <2>4. ASSUME Is("code") PROVE CodeComesBack(v)
    <3>0. "code" \in DOMAIN Tried /\ v \in Tried["code"]
        BY <1>1, <2>4, HeldValue
    <3>1. v \in [1 .. CodeSize -> STRING]
        BY <3>0, TriedAssumption, ZenonT(60)
    <3> QED
        BY <3>1, AllCodesComeBack
  <2>5. ASSUME Is("symbol") PROVE SymbolComesBack(v)
    <3>0. "symbol" \in DOMAIN Tried /\ v \in Tried["symbol"]
        BY <1>1, <2>5, HeldValue
    <3>1. v \in Symbols
        BY <3>0, TriedAssumption, ZenonT(60)
    <3> QED
        BY <3>1, AllSymbolsComeBack
  <2>6. ASSUME Is("symbol text") PROVE SymbolKept(v)
    <3>0. "symbol text" \in DOMAIN Tried /\ v \in Tried["symbol text"]
        BY <1>1, <2>6, HeldValue
    <3>1. v \in Seq(STRING)
        BY <3>0, TriedAssumption, ZenonT(60)
    <3> QED
        BY <3>1, AllSymbolsKept
  <2>7. ASSUME Is("asset") PROVE AssetComesBack(v)
    <3>0. "asset" \in DOMAIN Tried /\ v \in Tried["asset"]
        BY <1>1, <2>7, HeldValue
    <3>1. v \in [amount : Amounts, symbol : Symbols]
        BY <3>0, TriedAssumption, ZenonT(60)
    <3> QED
        BY <3>1, AllAssetsComeBack
  <2>8. ASSUME Is("asset text") PROVE AssetKept(v)
    <3>0. "asset text" \in DOMAIN Tried /\ v \in Tried["asset text"]
        BY <1>1, <2>8, HeldValue
    <3>1. v \in Seq(STRING)
        BY <3>0, TriedAssumption, ZenonT(60)
    <3> QED
        BY <3>1, AllAssetsKept
  <2>9. ASSUME Is("varuint32") PROVE VarintHolds(v[1], v[2])
    <3>0. "varuint32" \in DOMAIN Tried /\ v \in Tried["varuint32"]
        BY <1>1, <2>9, HeldValue
    <3>1. IsUint32(v[1]) /\ IsUint32(v[2])
        BY <3>0, TriedAssumption, ZenonT(60)
    <3> HIDE DEF v
    <3>2. v[1] \in Uint32 /\ v[2] \in Uint32
        BY <3>1, Uint32Is
    <3> QED
        BY <3>2, VarintsHold
  <2>10. ASSUME Is("varint32") PROVE ZigZagHolds(v, 8)
    <3>0. "varint32" \in DOMAIN Tried /\ v \in Tried["varint32"]
        BY <1>1, <2>10, HeldValue
    <3>1. v \in -128 .. 127
        BY <3>0, TriedAssumption, ZenonT(60)
    <3> QED
        BY <3>1, ShortVarintsHold
  <2> QED
    BY <2>1, <2>2, <2>3, <2>4, <2>5, <2>6, <2>7, <2>8, <2>9, <2>10 DEF ValuesComeBack
<1>2. HeldInv /\ (IntInv /\ WriteInv /\ AssetInv) => ValuesComeBack
    BY <1>1
<1> QED
    BY <1>2, Holding, ClientNumbers, PTL
=============================================================================
