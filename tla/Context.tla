------------------------------ MODULE Context ------------------------------
(***************************************************************************)
(* The C API, abiala.cpp: a context and the calls that are made of it one  *)
(* after the other.  What a conversion does is in the other modules; here  *)
(* it has an outcome, and what counts is what a call leaves in the context *)
(* for the calls after it.  A step is one call.  Functions that only read  *)
(* (abiala_get_error, abiala_get_bin_size, abiala_get_bin_data) or only    *)
(* compute (abiala_string_to_name) are no steps, nor is a call without a   *)
(* context.                                                                *)
(***************************************************************************)
EXTENDS Sequences

CONSTANTS
    Contract,   \* the contracts
    Abi,        \* what is given as an abi, in JSON, binary or hex
    Faults,     \* Faults[a]: what is wrong with it
    Item,       \* actions, tables and action results
    Listed,     \* Listed[a]: those that it has types for
    None        \* no contract, no abi

ASSUME FaultsAssumption ==
    /\ Faults \in [Abi -> SUBSET {"empty", "headless", "malformed", "version", "uncompilable"}]
    /\ \A a \in Abi : Faults[a] \cap {"empty", "headless"} # {} => "malformed" \in Faults[a]
ASSUME ListedAssumption == Listed \in [Abi -> SUBSET Item]
ASSUME NoneAssumption == None \notin Contract \cup Abi

VARIABLES
    contracts,  \* abiala_context_s::contracts, as the abi that each contract has
    lastError,  \* last_error
    resultBin,  \* result_bin, as what it was made of
    resultStr,  \* result_str, likewise
    failure,    \* why the last call returned false or null, "ok" if it did not
    held,       \* the pointers to type names that the caller has been given
    lastBin,    \* the last binary that a call returned true for
    lastText    \* the last text that a call returned

results == <<resultBin, resultStr, lastBin, lastText>>
vars == <<contracts, lastError, failure, held, results>>

Result(kind, c, a) == [kind |-> kind, contract |-> c, abi |-> a]
NoResult == Result("empty", None, None)

Init ==
    /\ contracts = [c \in Contract |-> None] /\ held = {}
    /\ lastError = "" /\ failure = "ok"
    /\ resultBin = NoResult /\ resultStr = NoResult
    /\ lastBin = NoResult /\ lastText = NoResult

\* The call fails, by set_error or by an exception that handle_exceptions
\* turns into one.  Seeded fault: the message stays in a local variable.
ThrowsUnheard(reason) == failure' = reason /\ UNCHANGED lastError
Throws(reason) == failure' = reason /\ lastError' = reason

\* The call succeeds.  last_error is never cleared: it is what the function
\* has put there at its start, or what it was.
Returns(message) == failure' = "ok" /\ lastError' = message
ReturnsSilently == failure' = "ok" /\ UNCHANGED lastError

Loaded(c) == contracts[c] # None

MakesBin(r) == resultBin' = r /\ lastBin' = r /\ UNCHANGED <<resultStr, lastText>>
ReturnsText(r) == resultStr' = r /\ lastText' = r /\ UNCHANGED <<resultBin, lastBin>>

-----------------------------------------------------------------------------
\* What is wrong with an abi is found in the order in which a function looks:
\* FirstFault(a, tests) is "ok" if none of the tests fails.
FirstFault(a, tests) ==
    LET found == SelectSeq(tests, LAMBDA test : test \in Faults[a])
    IN  IF found = <<>> THEN "ok" ELSE Head(found)

JsonTests == <<"malformed", "version", "uncompilable">>
BinTests == <<"empty", "headless", "version", "malformed", "uncompilable">>

\* contracts.insert does nothing if the contract has an abi.  Seeded fault:
\* insert_or_assign.
InsertOrAssign(c, a) == [contracts EXCEPT ![c] = a]
Insert(c, a) == [contracts EXCEPT ![c] = IF Loaded(c) THEN @ ELSE a]

Load(c, a, tests) ==
    LET fault == FirstFault(a, tests) IN
    /\ \/ fault = "ok" /\ contracts' = Insert(c, a) /\ Returns("abi parse error")
       \/ fault # "ok" /\ UNCHANGED contracts /\ Throws(fault)
    /\ UNCHANGED <<held, results>>

\* unhex, before anything else is looked at.
NotHex == Throws("not_hex") /\ UNCHANGED <<contracts, held, results>>

SetAbi(c, a) == Load(c, a, JsonTests)
SetAbiBin(c, a) == Load(c, a, BinTests)
SetAbiHex(c, a) == NotHex \/ SetAbiBin(c, a)

\* abiala_get_type_for_action, _table and _action_result: a pointer into the
\* entry of the contract.
GetType(c, i) ==
    /\ \/ ~Loaded(c) /\ Throws("not_loaded") /\ UNCHANGED held
       \/ Loaded(c) /\ i \notin Listed[contracts[c]] /\ Throws("not_listed") /\ UNCHANGED held
       \/ /\ Loaded(c) /\ i \in Listed[contracts[c]] /\ ReturnsSilently
          /\ held' = held \cup {[contract |-> c, abi |-> contracts[c], item |-> i]}
    /\ UNCHANGED <<contracts, results>>

-----------------------------------------------------------------------------
\* The conversions.  A type that is not known is found before, a document or
\* data that is not good after result_bin has been cleared.  Seeded fault:
\* the encoder writes to result_bin.
PartlyMade(c) == Result("half a binary", c, contracts[c])
LeftByFailure(c) == NoResult

\* abiala_json_to_bin and abiala_json_to_bin_reorderable.
JsonToBin(c) ==
    /\ \/ ~Loaded(c) /\ Throws("not_loaded") /\ UNCHANGED results
       \/ Loaded(c) /\ Throws("unknown_type") /\ UNCHANGED results
       \/ /\ Loaded(c) /\ Throws("bad_json")
          /\ resultBin' = LeftByFailure(c) /\ UNCHANGED <<resultStr, lastBin, lastText>>
       \/ /\ Loaded(c) /\ Returns("json parse error")
          /\ MakesBin(Result("binary", c, contracts[c]))
    /\ UNCHANGED <<contracts, held>>

\* For a contract that is not loaded the message goes to a local variable.
\* What follows the value is looked at when the text is in result_str.
BinToJson(c) ==
    /\ \/ /\ ~Loaded(c) /\ failure' = "not_loaded"
          /\ lastError' = "binary decode error" /\ UNCHANGED results
       \/ /\ Loaded(c) /\ UNCHANGED results
          /\ \E reason \in {"unknown_type", "bad_data"} : Throws(reason)
       \/ /\ Loaded(c) /\ Throws("extra_data")
          /\ resultStr' = Result("text before extra data", c, contracts[c])
          /\ UNCHANGED <<resultBin, lastBin, lastText>>
       \/ /\ Loaded(c) /\ Returns("binary decode error")
          /\ ReturnsText(Result("text", c, contracts[c]))
    /\ UNCHANGED <<contracts, held>>

HexToJson(c) == NotHex \/ BinToJson(c)

\* The abi itself: it is not compiled, and last_error has no default.
AbiJsonToBin(a) ==
    LET fault == FirstFault(a, <<"malformed", "version">>) IN
    /\ \/ fault # "ok" /\ Throws(fault) /\ UNCHANGED results
       \/ fault = "ok" /\ ReturnsSilently /\ MakesBin(Result("abi", None, a))
    /\ UNCHANGED <<contracts, held>>

AbiBinToJson(a) ==
    LET fault == FirstFault(a, <<"empty", "malformed", "version">>) IN
    /\ \/ fault # "ok" /\ Throws(fault) /\ UNCHANGED results
       \/ fault = "ok" /\ ReturnsSilently /\ ReturnsText(Result("abi", None, a))
    /\ UNCHANGED <<contracts, held>>

\* abiala_get_bin_hex and abiala_name_to_string use result_str too.
GetBinHex ==
    /\ ReturnsText(Result("hex", resultBin.contract, resultBin.abi))
    /\ ReturnsSilently /\ UNCHANGED <<contracts, held>>
NameToString ==
    /\ ReturnsText(Result("name", None, None))
    /\ ReturnsSilently /\ UNCHANGED <<contracts, held>>

Next ==
    \/ \E c \in Contract, a \in Abi : SetAbi(c, a) \/ SetAbiBin(c, a) \/ SetAbiHex(c, a)
    \/ \E c \in Contract, i \in Item : GetType(c, i)
    \/ \E c \in Contract : JsonToBin(c) \/ BinToJson(c) \/ HexToJson(c)
    \/ \E a \in Abi : AbiJsonToBin(a) \/ AbiBinToJson(a)
    \/ GetBinHex \/ NameToString

Spec == Init /\ [][Next]_vars

-----------------------------------------------------------------------------
\* When a call has failed, abiala_get_error gives the reason of this failure
\* and not that of an earlier call ("use abiala_get_error to retrieve error",
\* abiala.h).
FailureIsExplained == failure # "ok" => lastError = failure

\* The one exception: the code loses the message of abiala_bin_to_json and
\* abiala_hex_to_json for a contract that is not loaded, and the caller reads
\* the default message of the decoder, never one of an earlier call.
FailureIsExplainedOrDefault ==
    \/ FailureIsExplained
    \/ failure = "not_loaded" /\ lastError = "binary decode error"

\* Nothing that the context has given out goes out of date: type names point
\* into an entry of contracts that is still the one they were taken from, and
\* binaries and texts were made by the abi that the contract still has.
Current(r) == r.contract # None => r.abi = contracts[r.contract]
NothingOutdated ==
    /\ \A r \in {resultBin, resultStr, lastBin, lastText} : Current(r)
    /\ \A name \in held : Current(name)

\* What a caller finds in result_bin is the whole of the last binary that was
\* made, or nothing; and result_str holds the last text that was returned,
\* whatever failed since, but for a decode that has overwritten it before it
\* found extra data.
ResultsAreWhole ==
    /\ resultBin \in {lastBin, NoResult}
    /\ resultStr = lastText \/ resultStr.kind = "text before extra data"
=============================================================================
