----------------------------- MODULE JsonReader -----------------------------
(***************************************************************************)
(* The pull reader behind both JSON encoders: rapidjson's iterative parser *)
(* (a library outside this repository) as alaio::json_token_stream and     *)
(* json_reader_handler drive it.                                           *)
(*                                                                         *)
(* A document is the sequence of its lexemes.  The reader hands out one    *)
(* token at a time and refuses a token the JSON grammar does not allow, so *)
(* an encoder that reads it meets every prefix of a malformed document     *)
(* before it meets the error.  Commas, colons and blanks are inside the    *)
(* lexer; a lexical error is a token of kind "error".  Numbers are strings *)
(* (kParseNumbersAsStringsFlag).                                           *)
(***************************************************************************)
EXTENDS Naturals, Sequences, SequencesExt

CONSTANT Text    \* the strings documents and ABIs are made of

ASSUME TextAssumption == {"", "true", "false"} \subseteq Text

Scalars == {"null", "bool", "string"}
ValueStart == Scalars \cup {"start_object", "start_array"}
TokenKind == ValueStart \cup {"key", "end_object", "end_array", "error"}
Token == [kind : TokenKind, text : Text]

SyntaxError == [kind |-> "error", text |-> ""]

(***************************************************************************)
(* One context per open container, above one for the document: what the    *)
(* grammar expects there once everything nested deeper has been closed.    *)
(*   "root"   the document's value      "done"   nothing, it is complete   *)
(*   "key"    a key or the end          "value"  the value of a member     *)
(*   "array"  an element or the end                                        *)
(***************************************************************************)
Context == {"root", "done", "key", "value", "array"}
Stream == [rest : Seq(Token), open : Seq(Context)]

Open(doc) == [rest |-> doc, open |-> <<"root">>]

Expects(ctx, kind) ==
    \/ ctx \in {"root", "value"} /\ kind \in ValueStart
    \/ ctx = "array" /\ kind \in ValueStart \cup {"end_array"}
    \/ ctx = "key" /\ kind \in {"key", "end_object"}

\* The context once a value has been read there.
AfterValue == [root |-> "done", done |-> "done", key |-> "key",
               value |-> "key", array |-> "array"]

WithTop(open, ctx) == [open EXCEPT ![Len(open)] = ctx]

\* What a container expects when it is opened.
Inside(kind) == IF kind = "start_object" THEN "key" ELSE "array"

Advance(open, kind) ==
    LET read == WithTop(open, AfterValue[Last(open)]) IN
    IF kind \in Scalars THEN read
    ELSE IF kind \in {"start_object", "start_array"} THEN Append(read, Inside(kind))
    ELSE IF kind = "key" THEN WithTop(open, "value")
    ELSE Front(open)

Complete(in) == in.open = <<"done">>

\* What follows a complete document is an error of its last token: rapidjson
\* looks past the root value before it returns from that token.
JunkFollows(in) ==
    Advance(in.open, Head(in.rest).kind) = <<"done">> /\ Len(in.rest) > 1

Peek(in) ==
    IF /\ in.rest # <<>>
       /\ Expects(Last(in.open), Head(in.rest).kind)
       /\ ~JunkFollows(in)
    THEN Head(in.rest)
    ELSE SyntaxError

Eat(in) == [rest |-> Tail(in.rest), open |-> Advance(in.open, Head(in.rest).kind)]
=============================================================================
