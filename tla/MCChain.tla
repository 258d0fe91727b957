-------------------------------- MODULE MCChain --------------------------------
(***************************************************************************)
(* The parts of Chain with numbers of a few bits, names of four characters *)
(* and symbols of four bytes, and the values and texts at which each of    *)
(* them does something special.                                            *)
(***************************************************************************)
EXTENDS Chain

MCIntTypes == {[signed |-> TRUE, max |-> 127], [signed |-> FALSE, max |-> 255]}
MCUnit ==
    {[symbol |-> "SYS", contract |-> "a", valid |-> TRUE],
     [symbol |-> "SYS", contract |-> "b", valid |-> TRUE],
     [symbol |-> "", contract |-> "a", valid |-> FALSE]}
MCMurmur(s) == [i \in 1 .. NameLength |-> (7 * Len(s) + 5 * i) % 16]
MCRipemd(data, suffix) ==
    LET sum == FoldLeft(LAMBDA x, y : (3 * x + y) % 251, 7, data)
        own == CASE suffix = "K1" -> 1 [] suffix = "R1" -> 2 [] suffix = "WA" -> 3 [] OTHER -> 0
    IN <<sum, own, Len(data), (sum * 5 + own) % 256>>
MCPlainSize == [public |-> 2, private |-> 1, signature |-> 3]

\* Every sequence of at most n of them.
Texts(chars, n) == UNION {[1 .. k -> chars] : k \in 0 .. n}

MCNames == {n \in [1 .. NameLength -> {0, 1, 6, 15, 31}] : n[NameLength] < 16}
MCCodes == [1 .. CodeSize -> {"", "A", "Z", "c"}]
CodeA == Padded(<<"A">>, CodeSize)
CodeAB == Padded(<<"A", "B">>, CodeSize)
MCAssets ==
    [amount : Amounts, symbol : [precision : 0 .. 3, code : {CodeA, CodeAB}]]
MCAssetTexts ==
    {minus \o whole \o fraction \o space \o code :
        minus \in {<<>>, <<"-">>, <<" ">>},
        whole \in {<<>>, <<"0">>, <<"1">>, <<"0", "7">>, <<"1", "2", "7">>, <<"1", "2", "8">>},
        fraction \in {<<>>, <<".">>, <<".", "0">>, <<".", "5">>, <<".", "0", "5">>},
        space \in {<<>>, <<" ">>}, code \in {<<>>, <<"A">>, <<"A", "B">>, <<"A", "-">>}}

Varuints ==
    {0, 1, 127, 128, 255, 256, 16383, 16384, 32768, 2097151, 2097152, 268435455, 268435456, 2147483647}
MCDays == (-1000 .. 50000) \cup {-719468, -719163, -25509, -25508, 47540, 47541}
MCSeconds ==
    {s \in [day : {0, 1, 58, 59, 11015, 11016, 24855, 24856, 47540, 47541, 49709, 49710},
            second : {0, 1, 59, 60, 3599, 3600, 11647, 11648, 23295, 43199, 43200, 86399}] :
        s.day < 49710 \/ s.second < 23296}
MCSlots ==
    {s \in [day : {0, 1, 58, 59, 12054, 13897, 13898, 24854, 24855},
            half : {0, 1, 2, 119, 120, 7199, 7200, 23295, 86400, 172799}] : IsSlot(s)}
MCTimes ==
    [day : {-13898, -13897, -12054, -2, -1, 0, 1, 10955, 10956, 10957, 10958, 24855, 24856, 49709, 49710, 49711},
     ms : {0, 1, 9, 10, 99, 100, 499, 500, 999, 1000, 59999, 60000, 23295999, 23296000, 86399999},
     us : {0, 1, 999}]
Byte == {0, 1, 57, 58, 255}
MCKeys ==
    UNION {[kind : {kind}, type : {"K1", "R1"}, data : [1 .. PlainSize[kind] -> Byte]] :
             kind \in DOMAIN PlainSize}
    \cup [kind : {"public", "signature"}, type : {"WA"},
          data : {<<0>>} \cup ({1} \X Byte) \cup ({2} \X Byte \X Byte)]
Checksums == [1 .. FixedSize -> {0, 1, 128, 255}]

MCTried ==
    [k \in {"name", "name text", "code", "symbol", "symbol text", "asset", "asset text",
            "varuint32", "varint32", "day", "second", "slot", "time", "bytes", "base 58",
            "key", "checksums"} |->
      CASE k = "name" -> MCNames
        [] k = "name text" -> Texts({".", "1", "a", "z", "-"}, NameLength + 1)
        [] k = "code" -> MCCodes
        [] k = "symbol" -> [precision : {0, 9, 10, 255}, code : {c \in MCCodes : c[CodeSize] = Nul}]
        [] k = "symbol text" -> Texts({"0", "2", "5", "6", ",", "A"}, 5)
        [] k = "asset" -> MCAssets
        [] k = "asset text" -> MCAssetTexts
        [] k = "varuint32" -> Varuints \X Varuints
        [] k = "varint32" -> -128 .. 127
        [] k = "day" -> MCDays
        [] k = "second" -> MCSeconds
        [] k = "slot" -> MCSlots
        [] k = "time" -> MCTimes
        [] k = "bytes" -> Texts(Byte, 4)
        [] k = "base 58" -> Texts({-1, 0, 1, 57, 58}, 4)
        [] k = "key" -> MCKeys
        [] k = "checksums" -> Checksums \X Checksums]
=============================================================================
