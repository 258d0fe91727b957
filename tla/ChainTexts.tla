------------------------------ MODULE ChainTexts ------------------------------
(***************************************************************************)
(* Names of accounts and actions: up to thirteen characters in the 64 bits *)
(* of a number, five bits each and four for the last (chain_conversions.hpp*)
(* and name.hpp).  A name is here the tuple of these digits.  A text is a  *)
(* sequence of characters.                                                 *)
(***************************************************************************)
EXTENDS Varints, SequencesExt

CONSTANTS
    NameLength,    \* 13
    Murmur(_)      \* external: murmur64, as a name
ASSUME NameAssumption == NameLength \in Nat /\ NameLength > 1

Charmap ==
    <<".", "1", "2", "3", "4", "5", "a", "b", "c", "d", "e", "f", "g", "h", "i", "j", "k", "l",
      "m", "n", "o", "p", "q", "r", "s", "t", "u", "v", "w", "x", "y", "z">>
DigitOf == [c \in ToSet(Charmap) |-> CHOOSE d \in 0 .. 31 : Charmap[d + 1] = c]
IsNameChar(c) == c \in DOMAIN DigitOf
Bits(i) == IF i = NameLength THEN 16 ELSE 32
Dot == 0

\* char_to_name_digit: 0 for a character that is not allowed.
LooseDigit(c) == IF IsNameChar(c) THEN DigitOf[c] ELSE Dot
DigitAt(text, i) == IF i \in DOMAIN text THEN LooseDigit(text[i]) ELSE Dot

\* string_to_name: what does not fit is cut off.
StringToName(text) == [i \in 1 .. NameLength |-> DigitAt(text, i) % Bits(i)]

\* try_string_to_name_strict: the error, or "ok".
\* Seeded fault: the last character is not looked at.
NameErrorLoose(text) ==
    IF \E i \in DOMAIN text : i < NameLength /\ ~IsNameChar(text[i]) THEN "invalid_name_char"
    ELSE IF Len(text) > NameLength THEN "name_too_long" ELSE "ok"
NameError(text) ==
    IF \E i \in DOMAIN text : i <= NameLength /\ ~IsNameChar(text[i]) THEN "invalid_name_char"
    ELSE IF Len(text) >= NameLength /\ DigitAt(text, NameLength) >= Bits(NameLength)
         THEN "invalid_name_char13"
    ELSE IF Len(text) > NameLength THEN "name_too_long" ELSE "ok"

\* hash_name, and with it from_json: a text that is no name becomes its hash.
HashName(text) == IF NameError(text) = "ok" THEN StringToName(text) ELSE Murmur(text)

\* name_to_string: the dots at the end are cut off.
LastNotDot(name) == LET used == {i \in DOMAIN name : name[i] # Dot}
                    IN IF used = {} THEN 0 ELSE CHOOSE i \in used : \A j \in used : j <= i
NameToString(name) == [i \in 1 .. LastNotDot(name) |-> Charmap[name[i] + 1]]

-----------------------------------------------------------------------------
\* name::length().
NameLen(name) == LastNotDot(name)

\* The loop of suffix(): the last dot that something other than a dot follows.
\* Seeded fault: the last dot.
AnyDot(name) == {i \in 1 .. NameLength - 1 : name[i] = Dot}
ActualDots(name) ==
    {i \in 1 .. NameLength - 1 : name[i] = Dot /\ \E j \in i + 1 .. NameLength : name[j] # Dot}
LastActualDot(name) ==
    LET dots == ActualDots(name) IN
    IF dots = {} THEN 0 ELSE CHOOSE i \in dots : \A j \in dots : j <= i

\* The digits behind it are moved to the front; the last one gains a bit on the way.
Suffix(name) ==
    LET dot == LastActualDot(name)
    IN [i \in 1 .. NameLength |-> IF i + dot <= NameLength THEN name[i + dot] ELSE Dot]
Prefix(name) ==
    LET dot == LastActualDot(name)
    IN IF dot = 0 THEN name ELSE [i \in 1 .. NameLength |-> IF i < dot THEN name[i] ELSE Dot]

-----------------------------------------------------------------------------
\* The texts that a text is made of: everything up to the last dot, and what
\* follows it.
Dots(text) == {i \in DOMAIN text : text[i] = "."}
LastDot(text) == CHOOSE i \in Dots(text) : \A j \in Dots(text) : j <= i
After(text) == IF Dots(text) = {} THEN text ELSE SubSeq(text, LastDot(text) + 1, Len(text))
Before(text) == IF Dots(text) = {} THEN text ELSE SubSeq(text, 1, LastDot(text) - 1)
Trimmed(text) ==
    LET used == {i \in DOMAIN text : text[i] # "."}
    IN IF used = {} THEN <<>> ELSE SubSeq(text, 1, CHOOSE i \in used : \A j \in used : j <= i)

\* A name that is read is the text without the dots at its end, one to one; its
\* suffix and prefix are the parts of that text, its length the text's.
NameMeans(text) ==
    LET name == StringToName(text) IN
    NameError(text) = "ok" =>
        /\ NameToString(name) = Trimmed(text)
        /\ NameLen(name) = Len(Trimmed(text))
        /\ NameToString(Suffix(name)) = After(Trimmed(text))
        /\ NameToString(Prefix(name)) = Trimmed(Before(Trimmed(text)))
NameComesBack(name) == HashName(NameToString(name)) = name

-----------------------------------------------------------------------------
(* Symbols and assets and their texts (chain_conversions.hpp, symbol.hpp,  *)
(* asset.hpp).  A symbol_code is the tuple of the bytes of its number, the *)
(* lowest first, each a character or Nul; a symbol is a code that lacks    *)
(* the highest byte, and a precision.                                      *)

CONSTANTS
    CodeSize,       \* the bytes of a symbol_code, 8
    AmountLimit     \* the limit of an amount, 2^63 - 1
ASSUME SymbolAssumption == CodeSize \in Nat /\ CodeSize > 1 /\ AmountLimit \in Nat
PrecisionSize == 256
\* An int64_t.  The lowest one is negated in asset_to_string, which overflows;
\* the builds wrap around, and as a uint64_t the result is right.
Amounts == -AmountLimit - 1 .. AmountLimit

Nul == ""
Letters == <<"A", "B", "C", "D", "E", "F", "G", "H", "I", "J", "K", "L", "M", "N", "O", "P", "Q",
             "R", "S", "T", "U", "V", "W", "X", "Y", "Z">>
Decimals == <<"0", "1", "2", "3", "4", "5", "6", "7", "8", "9">>
LetterSet == ToSet(Letters)
ValueOf == [c \in ToSet(Decimals) |-> CHOOSE d \in 0 .. 9 : Decimals[d + 1] = c]
DigitSet == DOMAIN ValueOf

\* while (pos != end && ...) ++pos
Run(text, chars) ==
    CHOOSE n \in 0 .. Len(text) :
        (\A i \in 1 .. n : text[i] \in chars) /\ (n < Len(text) => text[n + 1] \notin chars)
Rest(text, n) == SubSeq(text, n + 1, Len(text))
SkipSpaces(text) == Rest(text, Run(text, {" "}))

Padded(bytes, size) == [i \in 1 .. size |-> IF i \in DOMAIN bytes THEN bytes[i] ELSE Nul]
LastUsed(bytes) == LET used == {i \in DOMAIN bytes : bytes[i] # Nul}
               IN IF used = {} THEN 0 ELSE CHOOSE i \in used : \A j \in used : j <= i

\* string_to_symbol_code: false for no letter, for one too many and for anything
\* behind them.
IsCodeText(text) ==
    LET letters == Run(SkipSpaces(text), LetterSet)
    IN 0 < letters /\ letters < CodeSize /\ letters = Len(SkipSpaces(text))
CodeOf(text) == Padded(SkipSpaces(text), CodeSize)

\* symbol_code_to_string: every byte up to the last that is not 0.
CodeText(code) == SubSeq(code, 1, LastUsed(code))

\* symbol_code::is_valid(): the loop ends after the seventh letter and does not
\* see the eighth byte.
\* Seeded fault: a byte that follows a 0 is not looked for.
CodeValidStart(code) == code[1] \in LetterSet
CodeValid(code) ==
    \E n \in 1 .. CodeSize - 1 :
        /\ \A i \in 1 .. n : code[i] \in LetterSet
        /\ n < CodeSize - 1 => \A i \in n + 1 .. CodeSize : code[i] = Nul
\* length() counts the bytes up to the first 0.
CodeLen(code) ==
    CHOOSE n \in 0 .. Len(code) :
        (\A i \in 1 .. n : code[i] # Nul) /\ (n < Len(code) => code[n + 1] = Nul)

-----------------------------------------------------------------------------
\* Decimal numbers: result * 10 + digit over the digits of a text, and back, so
\* many of the lowest digits, or all of them and at least one.
NumberOf(text) == Numbers([i \in DOMAIN text |-> ValueOf[text[i]]], 10)[Len(text)]
Digits(n, size) == [i \in 1 .. size |-> Decimals[(Quotients(n, 10)[size - i] % 10) + 1]]
SizeOf(n) ==
    CHOOSE k \in 1 .. n + 1 :
        Quotients(n, 10)[k] = 0 /\ \A j \in 1 .. k - 1 : Quotients(n, 10)[j] # 0
DigitsOf(n) == Digits(n, SizeOf(n))

\* string_to_symbol: the precision is a uint8_t.
IsSymbolText(text) ==
    LET n == Run(text, DigitSet)
    IN 0 < n /\ n < Len(text) /\ text[n + 1] = "," /\ IsCodeText(Rest(text, n + 1))
Symbol(precision, code) == [precision |-> precision, code |-> code]
SymbolOf(text) ==
    LET n == Run(text, DigitSet)
    IN Symbol(NumberOf(SubSeq(text, 1, n)) % PrecisionSize, CodeOf(Rest(text, n + 1)))
SymbolText(symbol) == DigitsOf(symbol.precision) \o <<",">> \o CodeText(symbol.code)

-----------------------------------------------------------------------------
\* An amount is calculated as a uint64_t and becomes an int64_t.
AmountSize == 2 * (AmountLimit + 1)
AsAmount(n) == LET u == n % AmountSize IN IF u > AmountLimit THEN u - AmountSize ELSE u

\* string_to_asset: spaces, a minus, digits, a point and digits, all of which
\* may be absent, then the code.
Point(text) == IF text # <<>> /\ text[1] = "." THEN 1 ELSE 0
AssetParts(text) ==
    LET spaced == SkipSpaces(text)
        minus == IF spaced # <<>> /\ spaced[1] = "-" THEN 1 ELSE 0
        number == Rest(spaced, minus)
        whole == Run(number, DigitSet)
        point == Point(Rest(number, whole))
        fraction == IF point = 0 THEN 0 ELSE Run(Rest(number, whole + point), DigitSet)
    IN [negative |-> minus = 1,
        whole |-> SubSeq(number, 1, whole),
        fraction |-> SubSeq(number, whole + point + 1, whole + point + fraction),
        rest |-> Rest(number, whole + point + fraction)]
IsAssetText(text) == IsCodeText(AssetParts(text).rest)
ExactAmount(text) ==
    LET parts == AssetParts(text)
        n == NumberOf(parts.whole \o parts.fraction)
    IN IF parts.negative THEN -n ELSE n
AssetOf(text) ==
    LET parts == AssetParts(text)
    IN [amount |-> AsAmount(ExactAmount(text)),
        symbol |-> Symbol(Len(parts.fraction) % PrecisionSize, CodeOf(parts.rest))]

\* asset_to_string: at least one digit before the point, which is there if the
\* precision is not 0.
\* Seeded fault: the zeros between the point and the first digit are left out.
FractionBare(n, precision) == DigitsOf(n % 10 ^ precision)
Fraction(n, precision) == Digits(n, precision)
AssetText(asset) ==
    LET n == IF asset.amount < 0 THEN -asset.amount ELSE asset.amount
        precision == asset.symbol.precision
    IN (IF asset.amount < 0 THEN <<"-">> ELSE <<>>)
       \o DigitsOf(Quotients(n, 10)[precision])
       \o (IF precision = 0 THEN <<>> ELSE <<".">> \o Fraction(n, precision))
       \o <<" ">> \o CodeText(asset.symbol.code)

-----------------------------------------------------------------------------
\* A text in the form the program writes.
NoZeros(digits) == Len(digits) = 1 \/ (digits # <<>> /\ digits[1] # "0")
IsPlainCode(text) == IsCodeText(text) /\ text[1] # " "
IsPlainSymbol(text) ==
    IsSymbolText(text) /\ NoZeros(SubSeq(text, 1, Run(text, DigitSet)))
    /\ IsPlainCode(Rest(text, Run(text, DigitSet) + 1))
    /\ NumberOf(SubSeq(text, 1, Run(text, DigitSet))) < PrecisionSize
IsPlainAsset(text) ==
    LET parts == AssetParts(text) IN
    /\ IsAssetText(text) /\ text[1] # " "
    /\ NoZeros(parts.whole)
    /\ parts.rest[1] = " " /\ IsPlainCode(Tail(parts.rest))
    /\ text[Len(text) - Len(parts.rest)] # "."
    /\ parts.negative => ExactAmount(text) # 0
    /\ Len(parts.fraction) < PrecisionSize
    /\ ExactAmount(text) \in Amounts

\* Such a text is written again as it was read; and what is written for a valid
\* code, symbol or asset is read as what it was; length() is the length of the
\* text.  The eighth byte of a code can
\* make a valid one that is not (symbol.hpp:73).
CodeComesBack(code) ==
    /\ CodeValid(code) <=> (IsCodeText(CodeText(code)) /\ CodeOf(CodeText(code)) = code)
                           \/ (\A i \in DOMAIN code : i < CodeSize => code[i] \in LetterSet)
    /\ CodeValid(code) => CodeLen(code) = Len(CodeText(code))
SymbolComesBack(symbol) ==
    CodeValid(symbol.code) =>
        IsSymbolText(SymbolText(symbol)) /\ SymbolOf(SymbolText(symbol)) = symbol
AssetComesBack(asset) ==
    CodeValid(asset.symbol.code) =>
        IsAssetText(AssetText(asset)) /\ AssetOf(AssetText(asset)) = asset
SymbolKept(text) == IsPlainSymbol(text) => SymbolText(SymbolOf(text)) = text
AssetKept(text) == IsPlainAsset(text) => AssetText(AssetOf(text)) = text
=============================================================================
