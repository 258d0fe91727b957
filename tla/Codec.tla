-------------------------------- MODULE Codec --------------------------------
(***************************************************************************)
(* The converters put together the way run_check_type of src/test.cpp and  *)
(* the clients of the library do: a document is encoded by both encoders,  *)
(* what they made is decoded, and the decoder's text is encoded again.  A  *)
(* conversation may also start from binary data.                           *)
(***************************************************************************)
EXTENDS AbiTypes

CONSTANTS
    Inputs,     \* documents to encode: records [type, doc]
    Blobs,      \* data to decode: records [type, data]
    MaxStack

ASSUME InputsAssumption == Inputs \subseteq [type : Type, doc : Seq(Token)]
ASSUME BlobsAssumption == Blobs \subseteq [type : Type, data : Seq(Byte)]

VARIABLES
    phase, given,                               \* the call being made, and on what
    oInput, oStack, oOut, oInsertions, oSkipped, oCall, oMerged, oBin, oStatus,
    rType, rInput, rHeap, rStarted, rParents, rParsing,
    rReceived, rStack, rBin, rSkipped, rCall, rEncoding,
    dData, dStack, dText, dSkipped, dCall, dStatus,
    eInput, eStack, eOut, eInsertions, eSkipped, eCall, eMerged, eBin, eStatus

oVars == <<oInput, oStack, oOut, oInsertions, oSkipped, oCall, oMerged, oBin, oStatus>>
rVars == <<rType, rInput, rHeap, rStarted, rParents, rParsing,
           rReceived, rStack, rBin, rSkipped, rCall, rEncoding>>
dVars == <<dData, dStack, dText, dSkipped, dCall, dStatus>>
eVars == <<eInput, eStack, eOut, eInsertions, eSkipped, eCall, eMerged, eBin, eStatus>>
vars == <<phase, given, oVars, rVars, dVars, eVars>>

\* abiala_json_to_bin on the document, and later on the decoder's text.
Ordered == INSTANCE JsonToBin WITH
    input <- oInput, stack <- oStack, out <- oOut, insertions <- oInsertions,
    skipped <- oSkipped, call <- oCall, merged <- oMerged, bin <- oBin, status <- oStatus
Again == INSTANCE JsonToBin WITH
    input <- eInput, stack <- eStack, out <- eOut, insertions <- eInsertions,
    skipped <- eSkipped, call <- eCall, merged <- eMerged, bin <- eBin, status <- eStatus
\* abiala_json_to_bin_reorderable.
Reorder == INSTANCE Reorderable WITH
    type <- rType, input <- rInput, heap <- rHeap, started <- rStarted,
    parents <- rParents, parsing <- rParsing, received <- rReceived, stack <- rStack,
    bin <- rBin, skipped <- rSkipped, call <- rCall, encoding <- rEncoding
\* abiala_bin_to_json.
Decoder == INSTANCE BinToJson WITH
    data <- dData, stack <- dStack, text <- dText, skipped <- dSkipped,
    call <- dCall, status <- dStatus

Init ==
    /\ phase = "idle" /\ given = [type |-> "none"]
    /\ Ordered!Init /\ Reorder!Init /\ Decoder!Init /\ Again!Init

EncodeOrdered(i) ==
    /\ Ordered!Begin(i)
    /\ phase' = "ordered" /\ given' = i
    /\ UNCHANGED <<rVars, dVars, eVars>>

DecodeGiven(b) ==
    /\ Decoder!Begin(b)
    /\ phase' = "decode" /\ given' = b
    /\ UNCHANGED <<oVars, rVars, eVars>>

RunOrdered ==
    /\ phase = "ordered"
    /\ Ordered!Step
    /\ UNCHANGED <<phase, given, rVars, dVars, eVars>>

EncodeReordered ==
    /\ phase = "ordered" /\ oStatus \in {"ok"} \cup Ordered!Errors
    /\ Reorder!Begin(given)
    /\ phase' = "reorder"
    /\ UNCHANGED <<given, oVars, dVars, eVars>>

RunReorder ==
    /\ phase = "reorder"
    /\ Reorder!Step
    /\ UNCHANGED <<phase, given, oVars, dVars, eVars>>

\* Decode what the encoders made, if either accepted the document.
Encoded == IF oStatus = "ok" THEN oBin ELSE rBin
DecodeEncoded ==
    /\ phase = "reorder" /\ Reorder!Result \in {"ok"} \cup Reorder!Errors
    /\ "ok" \in {oStatus, Reorder!Result}
    /\ Decoder!Begin([type |-> given.type, data |-> Encoded])
    /\ phase' = "decode"
    /\ UNCHANGED <<given, oVars, rVars, eVars>>

RunDecoder ==
    /\ phase = "decode"
    /\ Decoder!Step
    /\ UNCHANGED <<phase, given, oVars, rVars, eVars>>

EncodeAgain ==
    /\ phase = "decode" /\ dStatus = "ok"
    /\ Again!Begin([type |-> given.type, doc |-> Decoder!Tokens])
    /\ phase' = "again"
    /\ UNCHANGED <<given, oVars, rVars, dVars>>

RunAgain ==
    /\ phase = "again"
    /\ Again!Step
    /\ UNCHANGED <<phase, given, oVars, rVars, dVars>>

Done ==
    \/ phase = "reorder" /\ Reorder!Result \in Reorder!Errors /\ oStatus # "ok"
    \/ phase = "decode" /\ dStatus \in Decoder!Errors
    \/ phase = "again" /\ eStatus \in {"ok"} \cup Again!Errors
Terminated == Done /\ UNCHANGED vars

Step == EncodeReordered \/ DecodeEncoded \/ EncodeAgain
        \/ RunOrdered \/ RunReorder \/ RunDecoder \/ RunAgain

Convert ==
    /\ phase = "idle"
    /\ (\E i \in Inputs : EncodeOrdered(i)) \/ (\E b \in Blobs : DecodeGiven(b))

Next == Convert \/ Step \/ Terminated

Spec == Init /\ [][Next]_vars
FairSpec == Spec /\ WF_vars(Step)

-----------------------------------------------------------------------------
FromDocument == oStatus # "idle"
Reordered == phase \in {"reorder", "decode", "again"} /\ Reorder!Result \in {"ok"} \cup Reorder!Errors

\* What the in-order encoder accepts, the reordering one accepts too and
\* encodes to the same bytes ("mismatch between reorderable_hex, ordered_hex"
\* in run_check_type): two implementations of one format.
SameBytes ==
    FromDocument /\ Reordered /\ oStatus = "ok" => Reorder!Result = "ok" /\ rBin = oBin

\* What either encoder makes, the decoder reads to its last byte; and the text
\* it makes of any data is a document that the in-order encoder accepts, and it
\* encodes to the data it was made of.
Data == IF FromDocument THEN Encoded ELSE given.data
RoundTrips ==
    /\ FromDocument => dStatus \notin Decoder!Errors
    /\ eStatus \notin Again!Errors
    /\ eStatus = "ok" => eBin = Data

\* A document with its members in order comes back token for token
\* (run_check_type's last comparison), but for a trailing binary extension
\* that takes no bytes: test.cpp writes "z3":{} and expects it gone.  What is
\* lost holds no value.
Common == Len(LongestCommonPrefix({Decoder!Tokens, given.doc}))
LosesNoValue ==
    \A i \in Common + 1 .. Len(given.doc) :
        given.doc[i].kind \in {"key", "start_object", "end_object", "end_array"}
ComesBack ==
    FromDocument /\ oStatus = "ok" /\ dStatus = "ok" =>
        \/ Decoder!Tokens = given.doc
        \/ dSkipped /\ LosesNoValue
=============================================================================
