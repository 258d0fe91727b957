----------------------------- MODULE IntegerText -----------------------------
(***************************************************************************)
(* The text of an integer: int_to_decimal writes it from the last digit to *)
(* the first (to_json.hpp), from_json_int reads it from the first to the   *)
(* last and has to see an overflow before it happens (from_json.hpp).      *)
(***************************************************************************)
EXTENDS Integers, Sequences

\* The integer types: whether they are signed, and numeric_limits<T>::max().
CONSTANT IntTypes
ASSUME IntTypesAssumption ==
    /\ \A t \in IntTypes : t.signed \in BOOLEAN /\ t.max \in Nat /\ t.max >= 9
    /\ \A t \in IntTypes : t.signed => t.max % 2 = 1

VARIABLES
    int,        \* the type
    given,      \* the number to write, <<>> when a text is read that somebody wrote
    uvalue,     \* what is still to be written of its absolute value
    text,       \* the digits written and not yet read
    sign, limit, result, found,     \* the variables of from_json_int
    exact,      \* the absolute value of the digits read, however large
    phase
intVars == <<int, given, uvalue, text, sign, limit, result, found, exact, phase>>
reader == <<sign, limit, result, found, exact>>

Lowest(t) == IF t.signed THEN -t.max - 1 ELSE 0
InRange(t, n) == Lowest(t) <= n /\ n <= t.max

\* A reader that has read nothing.
Fresh == sign = 1 /\ limit = 0 /\ result = 0 /\ found = FALSE /\ exact = 0

IntInit ==
    /\ int \in IntTypes /\ given = <<>> /\ uvalue = 0 /\ text = <<>>
    /\ Fresh /\ phase = "idle"

-----------------------------------------------------------------------------
\* int_to_decimal: the value as an unsigned one, negated if it was negative,
\* which turns the lowest one into itself, and that is its absolute value.
Modulus(t) == IF t.signed THEN 2 * (t.max + 1) ELSE t.max + 1
\* Seeded fault: it is negated while it is signed.
AbsValueSigned(t, v) == IF v = Lowest(t) /\ t.signed THEN 0 ELSE IF v < 0 THEN -v ELSE v
AbsValue(t, v) ==
    LET unsigned == v % Modulus(t)
    IN IF v < 0 THEN (-unsigned) % Modulus(t) ELSE unsigned

BeginWrite(t, v) ==
    /\ phase = "idle"
    /\ int' = t /\ given' = <<v>> /\ uvalue' = AbsValue(t, v) /\ text' = <<>>
    /\ phase' = "write" /\ UNCHANGED reader

\* do ... while (uvalue)
WriteDigit ==
    /\ phase = "write" /\ (uvalue # 0 \/ text = <<>>)
    /\ text' = <<uvalue % 10>> \o text
    /\ uvalue' = uvalue \div 10
    /\ UNCHANGED <<int, given, phase, reader>>

-----------------------------------------------------------------------------
\* from_json_int: an unsigned type does not look for a sign.
StartReading(t, minus) ==
    /\ sign' = IF minus /\ t.signed THEN -1 ELSE 1
    /\ limit' = IF minus /\ t.signed THEN Lowest(t) ELSE t.max
    /\ result' = 0 /\ found' = FALSE /\ exact' = 0
    /\ phase' = IF minus /\ ~t.signed THEN "expected_int" ELSE "digits"

BeginRead(t, minus) ==
    /\ phase = "idle"
    /\ int' = t /\ given' = <<>> /\ StartReading(t, minus)
    /\ UNCHANGED <<uvalue, text>>

ReadBack ==
    /\ phase = "write" /\ uvalue = 0 /\ text # <<>>
    /\ StartReading(int, given[1] < 0)
    /\ UNCHANGED <<int, given, uvalue, text>>

\* The division of C++, which truncates towards zero.
Quotient(a) == IF a < 0 THEN -((-a) \div 10) ELSE a \div 10

\* The test for a digit, made with values that cannot overflow themselves.
\* Seeded fault: only the tens are compared.
FitsTens(t, s, l, r, d) ==
    IF t.signed THEN Quotient((-s) * l) <= (-s) * r ELSE l \div 10 >= r
Fits(t, s, l, r, d) ==
    IF t.signed THEN Quotient((-s) * l + d) <= (-s) * r ELSE (l - d) \div 10 >= r

\* The next character is the digit d.
Digit(d) ==
    /\ phase = "digits"
    /\ IF given = <<>> THEN UNCHANGED text ELSE text # <<>> /\ d = Head(text) /\ text' = Tail(text)
    /\ exact' = 10 * exact + d
    /\ IF Fits(int, sign, limit, result, d)
       THEN result' = result * 10 + sign * d /\ found' = TRUE /\ UNCHANGED phase
       ELSE phase' = "number_out_of_range" /\ UNCHANGED <<result, found>>
    /\ UNCHANGED <<int, given, uvalue, sign, limit>>

\* The text ends, or something follows that is not a digit.
Finish(end) ==
    /\ phase = "digits" /\ (given # <<>> => end /\ text = <<>>)
    /\ phase' = IF end /\ found THEN "ok" ELSE "expected_int"
    /\ UNCHANGED <<int, given, uvalue, text, reader>>

IntEnded == phase \in {"ok", "expected_int", "number_out_of_range"}

IntNext ==
    \/ \E t \in IntTypes, minus \in BOOLEAN : BeginRead(t, minus)
    \/ \E t \in IntTypes : \E v \in Lowest(t) .. t.max : BeginWrite(t, v)
    \/ WriteDigit \/ ReadBack
    \/ \E d \in 0 .. 9 : Digit(d)
    \/ \E end \in BOOLEAN : Finish(end)
IntSpec == IntInit /\ [][IntNext]_intVars

-----------------------------------------------------------------------------
\* from_json_int never holds anything but the number that the digits so far
\* stand for, and that number is one of the type: no step overflows, and the
\* test before each digit lets nothing through and keeps nothing out.
ReadsExactly ==
    /\ phase \in {"digits", "ok"} => result = sign * exact /\ InRange(int, result)
    /\ phase = "number_out_of_range" => ~InRange(int, sign * exact)

\* Every integer is read back from the text that is written for it.
IntegerComesBack == given # <<>> /\ IntEnded => phase = "ok" /\ result = given[1]
=============================================================================
