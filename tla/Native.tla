------------------------------- MODULE Native -------------------------------
(***************************************************************************)
(* C++ types put together with an abi, as src/template_test.cpp does: the  *)
(* types are entered with add_type, and what the templates convert the     *)
(* serializers of the abi convert too, in both directions.  The templates  *)
(* are functions, the serializers the machines of JsonToBin and BinToJson. *)
(***************************************************************************)
EXTENDS NativeCodec

CONSTANTS
    Values,      \* objects to convert: records [type, value]
    Documents,   \* JSON to read: records [type, doc]
    Data,        \* binary data to read: records [type, data]
    MaxStack

\* The compiled types of AbiTypes are those of the C++ types that are converted.
IsAbiType(t) == \A u \in MadeOf(t) : Kind[u] \in Primitive \cup Wrapping \cup {"struct", "variant"}
ASSUME GraphAssumption ==
    \A t \in {i.type : i \in Values \cup Documents \cup Data} : IsAbiType(t) =>
        /\ TypeName[t] \in Type
        /\ NodeFor(t) = AbiNode(Ser[TypeName[t]], Of[TypeName[t]], Fields[TypeName[t]])
ASSUME InputsAssumption ==
    /\ \A i \in Values \cup Documents \cup Data : i.type \in CppType
    /\ \A i \in Documents \cup Data : IsAbiType(i.type)

VARIABLES
    given,            \* what is converted
    eInput, eStack, eOut, eInsertions, eSkipped, eCall, eMerged, eBin, eStatus,
    dData, dStack, dText, dSkipped, dCall, dStatus

eVars == <<eInput, eStack, eOut, eInsertions, eSkipped, eCall, eMerged, eBin, eStatus>>
dVars == <<dData, dStack, dText, dSkipped, dCall, dStatus>>
vars == <<addVars, given, eVars, dVars>>

Encoder == INSTANCE JsonToBin WITH Inputs <- {},
    input <- eInput, stack <- eStack, out <- eOut, insertions <- eInsertions,
    skipped <- eSkipped, call <- eCall, merged <- eMerged, bin <- eBin, status <- eStatus
Decoder == INSTANCE BinToJson WITH Blobs <- {},
    data <- dData, stack <- dStack, text <- dText, skipped <- dSkipped,
    call <- dCall, status <- dStatus

Nothing == [from |-> "nothing", type |-> "none"]

Init ==
    /\ AddInit /\ given = Nothing
    /\ Encoder!Init /\ Decoder!Init

\* A step of abi.add_type<T>(), before anything is converted.
Add == given = Nothing /\ AddNext /\ UNCHANGED <<given, eVars, dVars>>

\* Conversions are made with an abi that holds their type and nothing else.
Holds(t) == given = Nothing /\ activations = <<>> /\ calls = <<[type |-> t, ok |-> TRUE]>>

\* to_bin and to_json of an object; the abi converts what they made.
ConvertValue(i) ==
    /\ Holds(i.type)
    /\ given' = [from |-> "value", type |-> i.type, input |-> i.value]
    /\ Encoder!Begin([type |-> TypeName[i.type], doc |-> ToJson(i.type, i.value)])
    /\ UNCHANGED <<addVars, dVars>>

ConvertBack ==
    /\ given.from = "value" /\ IsAbiType(given.type) /\ dStatus = "idle"
    /\ eStatus \in {"ok"} \cup Encoder!Errors
    /\ Decoder!Begin([type |-> TypeName[given.type], data |-> ToBin(given.type, given.input)])
    /\ UNCHANGED <<addVars, given, eVars>>

ReadDocument(i) ==
    /\ Holds(i.type)
    /\ given' = [from |-> "json", type |-> i.type, input |-> i.doc]
    /\ Encoder!Begin([type |-> TypeName[i.type], doc |-> i.doc])
    /\ UNCHANGED <<addVars, dVars>>

ReadData(i) ==
    /\ Holds(i.type)
    /\ given' = [from |-> "bin", type |-> i.type, input |-> i.data]
    /\ Decoder!Begin([type |-> TypeName[i.type], data |-> i.data])
    /\ UNCHANGED <<addVars, eVars>>

\* Types no abi holds are converted by the templates alone.
ConvertPlain(i) ==
    /\ given = Nothing /\ calls = <<>> /\ activations = <<>> /\ ~IsAbiType(i.type)
    /\ given' = [from |-> "value", type |-> i.type, input |-> i.value]
    /\ UNCHANGED <<addVars, eVars, dVars>>

RunEncoder == Encoder!Step /\ UNCHANGED <<addVars, given, dVars>>
RunDecoder == Decoder!Step /\ UNCHANGED <<addVars, given, eVars>>

\* Nothing is left to do: a conversion has ended, or no call fits any more.
Finished ==
    /\ given # Nothing
    /\ eStatus \in {"idle", "ok"} \cup Encoder!Errors
    /\ dStatus \in {"idle", "ok"} \cup Decoder!Errors
    /\ given.from = "value" /\ IsAbiType(given.type) => dStatus # "idle"
Terminated == (Finished \/ (activations = <<>> /\ Len(calls) = MaxCalls)) /\ UNCHANGED vars

Next ==
    \/ Add
    \/ \E i \in Values : IF IsAbiType(i.type) THEN ConvertValue(i) ELSE ConvertPlain(i)
    \/ \E i \in Documents : ReadDocument(i)
    \/ \E i \in Data : ReadData(i)
    \/ ConvertBack \/ RunEncoder \/ RunDecoder \/ Terminated

Spec == Init /\ [][Next]_vars

-----------------------------------------------------------------------------
HasJson(t) == \A u \in MadeOf(t) : Kind[u] \notin BinaryOnly
Given == given.input
New(t) == Default(t)

\* What is in an opaque is what unpack and for_each find (opaque.hpp).
OpaqueHolds(opaque, bytes) ==
    /\ FromBin(opaque, <<>>, ToBin(opaque, bytes)) = Reads(bytes, <<>>)
    /\ bytes # <<>> => Unpack(opaque, bytes) = Reads(Given, <<>>)
    /\ Kind[Elem[opaque]] = "vector" => ForEach(opaque, bytes) = Reads(Given, <<>>)

\* A document parsed to its end is that object.
ParsedAs(value, parsed) == parsed.ok /\ parsed.value = value /\ Complete(parsed.rest)
ReadBoth(t, bin, json) ==
    /\ FromBin(t, New(t), bin) = Reads(Given, <<>>)
    /\ HasJson(t) => ParsedAs(Given, FromJson(t, New(t), Open(json)))
\* What the serializers of the abi made of the one form is the other.
MadeBoth(bin, json) ==
    /\ eStatus \notin Encoder!Errors /\ dStatus \notin Decoder!Errors
    /\ eStatus = "ok" => eBin = bin
    /\ dStatus = "ok" => Decoder!Tokens = json
Converts(t, bin, json) ==
    /\ ReadBoth(t, bin, json) /\ MadeBoth(bin, json)
    /\ \A opaque \in CppType :
           Kind[opaque] = "opaque" /\ Elem[opaque] = t => OpaqueHolds(opaque, bin)

\* The six conversions of template_test.cpp:63 between an object, its JSON and
\* its binary form: each way back leads to where the way there began, and the
\* serializers of the abi make of the one form what the templates make.
SixConversions ==
    Finished /\ given.from = "value" =>
        Converts(given.type, ToBin(given.type, Given),
                 IF HasJson(given.type) THEN ToJson(given.type, Given) ELSE <<>>)

\* A fifth byte of a size with more than the four bits that 32 have room for:
\* the abi drops the others, and the size of a vector of plain elements keeps
\* them (from_bin.hpp:97).
LosesBits(bytes) ==
    \E i \in 1 .. Len(bytes) - 4 :
        (\A k \in i .. i + 3 : bytes[k] >= 128) /\ bytes[i + 4] \in 16 .. 127

\* The same object from data, to the end, and from a document.
SameObject(native, parsed) ==
    native.ok /\ native.rest = <<>> /\ parsed.ok /\ parsed.value = native.value
WrittenFrom(t, parsed) == parsed.ok /\ IsPrefix(eBin, ToBin(t, parsed.value))

\* What the abi reads, the templates read too and understand alike, whether it
\* comes from a peer of another version or another library: data with or
\* without its binary extensions, sizes in more bytes than they need, and
\* documents.  Only a size of which the abi has lost bits may be refused, by a
\* template that has kept them; it is never understood otherwise.  What the abi makes of it is
\* what they make of it; but extensions that are left out are written again
\* (from_bin.hpp, from_json.hpp, against abiala.hpp).
AgreesWithAbi ==
    /\ Finished /\ given.from = "bin" /\ dStatus = "ok" =>
           LET native == FromBin(given.type, New(given.type), Given)
           IN \/ SameObject(native, FromJson(given.type, New(given.type), Open(Decoder!Tokens)))
              \/ ~native.ok /\ LosesBits(Given)
    /\ Finished /\ given.from = "json" /\ eStatus = "ok" =>
           WrittenFrom(given.type, FromJson(given.type, New(given.type), Open(Given)))

Accumulates(t) == \E u \in MadeOf(t) : Kind[u] \in {"set", "map", "sequence", "might_not_exist"}
Reread(t, old, again) ==
    /\ again.ok /\ again.rest = <<>>
    /\ ~Accumulates(t) => again.value = Given
    /\ Kind[t] \in {"set", "map", "sequence"} => ToSet(old) \subseteq ToSet(again.value)

\* Data read into an object that holds something already: the same as into a
\* new one, unless the type has a part that adds to what it finds, or that may
\* be absent; and even those never lose what was there (from_bin.hpp:46-65, 95).
ReusedObject ==
    Finished /\ given.from = "value" =>
        \A i \in Values : i.type = given.type =>
            Reread(i.type, i.value, FromBin(i.type, i.value, ToBin(i.type, Given)))

HasKey(t) == \A u \in MadeOf(t) \cup {Elem[u] : u \in MadeOf(t)} :
                 Kind[u] \notin {"might_not_exist", "opaque"}
Ordered(one, other, less) == (LexLess(one, other) <=> less) /\ ~IsProperPrefix(one, other)

\* The promise of to_key.hpp:21-26: the keys of two objects of a type sort as
\* the objects do, and no key is the beginning of another, so that keys may be
\* put behind each other.
KeysInOrder ==
    Finished /\ given.from = "value" /\ HasKey(given.type) =>
        \A i \in Values : i.type = given.type =>
            Ordered(ToKey(i.type, Given), ToKey(i.type, i.value), Less(i.type, Given, i.value))
=============================================================================
