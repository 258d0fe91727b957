------------------------------- MODULE MCCodec -------------------------------
(***************************************************************************)
(* Both encoders and the decoder in turn, on the documents and the data of *)
(* MCAbi.  The documents nest less deeply than the stack.                  *)
(***************************************************************************)
EXTENDS Codec, MCAbi

\* Bytes that encode one value only: no bool other than 0 and 1, and no size
\* in more bytes than it needs.
CodecBlobs ==
    [type : {"int8", "bool?", "e", "s1", "s2", "s3", "v", "r"}, data : SeqOf({0, 1}, 5)]
    \cup [type : {"int8", "e", "s2", "r"}, data : SeqOf({0, 1, 2}, 4)]

\* As deep as the stack of the run, and an ABI with an extension that is not
\* trailing.
DeepInputs == Calls("v", Good("v", 3))
GapInputs == Calls("gap", Loose("gap", 3))
NoBlobs == {}
=============================================================================
