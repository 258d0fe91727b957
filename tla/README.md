# A verification model of abiala

abiala converts between JSON and the binary format of a chain, guided by an ABI,
and is the C++ library for the types of that chain. This directory models its
converters, the compiler of ABIs, the C API, the templates that convert C++
objects and the chain's types in TLA+, checks them with TLC on small instances
and proves with TLAPS, for all instances, the safety properties of the four
machines that convert, of the compiler and of the API, the arithmetic of
assets, and that the integers, names, symbols, assets, times and keys of the
chain come back from their texts. Paths below are relative to the repository; `abiala.hpp`, `abi.cpp`,
`abiala.cpp`, `crypto.cpp` and `ship.abi.cpp` are in `src/`, the other files in
`include/alaio/`.

## 1. Inventory

| Part | State | Operations | What is hard | What makes it correct |
|---|---|---|---|---|
| Pull reader `json_token_stream` (`from_json.hpp`) | rapidjson's parser state, `current_token` | `peek_token`, `eat_token`, `get_*`, `complete` | the encoder meets a malformed document one token at a time | hands out only what the JSON grammar allows |
| In-order encoder `json_to_bin_state` (`abiala.hpp`) | explicit `stack`, `writer`, `size_insertions`, `skipped_extension` | a start and a resume function per kind of type, the driver loop, the final splice | unchecked subscripts; depth tested late; sizes known only afterwards; a flag that is never reset | indices in range, one value consumed, nothing after an omitted extension |
| Tree parser `json_to_jvalue_state` | stack of raw pointers into the tree it builds | `receive_event`, `json_to_jobject`, `json_to_jarray` | arrays move under the pointers; repeated keys; events nest | no dangling pointer, no late or early end |
| Reordering encoder `jvalue_to_bin_state` | `stack`, `received_value`, `writer`, `skipped_extension` | start and resume per kind of type | no depth test of its own; `std::get` on what start tested | bounded by the parser, same bytes as the in-order encoder |
| Decoder `bin_to_json_state` | `stack`, `bin`, `writer` | start and resume per kind of type | commas and brackets written piecemeal; types that need no data; varuints | the text is JSON, every conversion ends, encoder and decoder are inverse |
| Type graph `abi_type` (`abi.hpp`) | a node per type name | `optional_of`, `array_of`, `as_struct` ... | recursive types | legal nesting, no pointer to an alias; a constant of the converters' models, built by the compiler's |
| ABI compiler (`abi.cpp`) | map from names to nodes, changed while it is walked; the recursion's activations | `get_type`, `resolve`, `fill`, `convert` | suffix types made on demand, aliases and bases resolved in name order, depth 32 | no unresolved node, legal nesting, bases flattened, an end to every recursion, and all that whatever the order |
| C API (`abiala.cpp`) | `contracts`, `last_error`, `result_bin`, `result_str` | `abiala_set_abi*`, `abiala_json_to_bin*`, `abiala_bin_to_json`, ... | results and errors of earlier calls show through later ones | results are whole and made by the ABI that is loaded, errors are those of the call that failed |
| Templates for C++ objects (`to_bin.hpp`, `from_bin.hpp`, `to_json.hpp`, `from_json.hpp`, `opaque.hpp`) | the object that is read into | an overload per kind of type | they must agree with an abi that other code compiles; some overloads keep what they find in the object; sizes have two widths | six conversions that lead back to where they began, and to what the abi makes of it |
| `add_type` (`abi.hpp`) | the map from names to nodes | an overload per kind of type | enters a struct before it is known to be legal, and may throw | what was added is complete, and so is what it is made of |
| Sort keys (`to_key.hpp`) | none | an overload per kind of type | escapes, flags and lengths in combination | sorts as the object, is no beginning of another key |
| Integers and varints | digits read so far | `int_to_decimal`, `from_json_int`, `varuint32_*` | the limits of each width | exact, inverse, ordered |
| Assets (`asset.hpp`) | amount and symbol | arithmetic, comparison | checked after the calculation, and not at all when parsed | what is accepted is the sum of the integers, what was checked stays in range |
| Names, symbols, times, keys (`name.hpp`, `symbol.hpp`, `time.hpp`, `chain_conversions.hpp`, `crypto.cpp`, `fixed_bytes.hpp`) | none | text to value and back | bits that do not fit, products that overflow, digits of another base | what is written is read as what it was |
| State history protocol (`ship_protocol.hpp`, `ship.abi.cpp`) | none | two descriptions of one format | written by hand, never compared | what one writes the other reads alike |
| Hashes, floating point text, streams as buffers | none | pure functions | long computations on data | not modelled |

The parts interact by calls only; the library has no threads, no callbacks into
user code but the hook of the driver loops (which does nothing by default) and
nothing persistent. A conversion is one call and either returns or throws. What
is concurrent in spirit is the interplay of three state machines in one
conversion: the grammar of the reader, the stack of the encoder, and the ABI,
none of which checks the others. That is where the hazards in PROJECT.json lie:
positions that only the grammar bounds, flags that only the ABI keeps sound, a
depth that two components count differently, indices remembered across growth.
The compiler's difficulty is order: it walks a map in the order of names while
the recursion it starts resolves entries ahead of the walk and inserts new ones
under it, and pointers are handed out to nodes that are not finished.
The difficulty of the C++ side is that everything is done twice, by templates
and by an abi, in two descriptions of a protocol, in text and in binary, and that
numbers are at the end of their range in each of them.

## 2. Modules

| Module | Models |
|---|---|
| `JsonReader` | tokens and the pull reader: a stream is its unread tokens and a context for each open container |
| `AbiTypes` | the compiled ABI as constants (`Ser`, `Of`, `Fields`), the primitives int8 and bool |
| `Varints` | varuint32 and varint32, their keys, the order of byte strings |
| `JsonToBin` | the in-order encoder, `abiala_json_to_bin` |
| `JsonToBinInv` | its inductive invariant `IInv` |
| `StackLemmas`, `ReaderLemmas`, `JsonToBinProof` | facts about stacks, sequences and induction; facts about the reader and the types; the proofs about the in-order encoder |
| `JsonToJvalue` | the tree parser; the tree is a heap of addressed nodes |
| `JvalueToBin` | the encoder of the tree |
| `Reorderable`, `ReorderableProof` | the two in sequence, `abiala_json_to_bin_reorderable`, with their inductive invariant; the proofs |
| `BinToJson`, `BinToJsonProof` | the decoder, `abiala_bin_to_json`, with its inductive invariants; the proofs |
| `Codec` | both encoders, the decoder and the in-order encoder again |
| `AbiNames` | names, suffixes, definitions and nodes; what a wrapper may wrap |
| `AbiCompile` | `convert` of an `abi_def` and `abi::get_type`, as the machine that runs `get_type`, `resolve` and `fill` |
| `AbiCompileInv`, `AbiCompileProof` | its inductive invariant and the proofs |
| `AbiMeaning` | the abstract specification: what a set of definitions means |
| `AbiRoundTrip` | `convert` back to an `abi_def`, and `convert` again; the invariant of that |
| `Context` | a context of the C API and any sequence of calls |
| `NativeTypes` | C++ types, and `add_type`, which enters them into an abi, as the machine that runs its overloads |
| `InterfaceProof` | the proofs about `Context` and about `NativeTypes` |
| `NativeCodec` | `to_bin`, `from_bin`, `to_json`, `from_json` and opaque, as recursive functions on the type; `to_key`, and the order of objects |
| `Native` | types added to an abi, and values, documents and data converted by the templates and by the machines of `JsonToBin` and `BinToJson` |
| `ShipTypes` | the state history protocol by its abi and by its C++ types |
| `Ship` | a message written by one description and read by the other |
| `IntegerText` | the digits of an integer written and read |
| `AssetMath` | a balance under the operators of asset |
| `ChainTexts`, `ChainTimes`, `ChainKeys` | names; symbols and assets; dates, times and slots; base 58, keys, hexadecimal and words |
| `Chain`, `ChainProof` | these parts behind each other, for a client that uses one at a time; the proofs about numbers, texts and keys |
| `MCAbi` | a small ABI and the documents and data TLC converts |
| `MCAbis` | the sets of definitions TLC compiles |
| `MCJsonToBin`, `MCBinToJson`, `MCReorderable`, `MCCodec`, `MCAbiCompile`, `MCAbiRoundTrip`, `MCContext`, `MCNative`, `MCChain` | one per model, for TLC |

How the code becomes actions. Each serializer in `abiala.hpp` is a function with
a `start` flag; the driver loop calls the function of the entry on top with
`start = false`, and a function may call another one with `start = true` as the
last thing it does. Because that call is in tail position, the models hold it in
a variable `call` and take it as the next step: a step is one serializer
function from its first to its last statement. `StartX` is the start call of X,
`ResumeX` the other. Where start falls through to the resume part
(`pseudo_object` in both encoders, `pseudo_array` in the one of the tree), the
shared part is an operator of the stream and the stack as start left them.
A failed `check` is the operator `Fail`: the exception abandons the conversion,
so nothing but the status changes.

The compiler is recursive in earnest: a result is used after the call. There
`stack` holds an activation for each running `resolve`, and for each `get_type`
that has called another for what is under a suffix; `call` is a call of
`get_type` about to begin, `ret` what the last one returned. A step is the code
between two calls. An exception unwinds the whole stack: it loses the abi in
`convert` and keeps the map as it is in `abi::get_type`. `Fill` takes the next
unresolved entry in the order of the map; entries on which `fill` has nothing to
do are passed over in the same step.

`AbiMeaning` says, without a map, an order or a stack, what a name stands for
(`StandsFor`), which fields a struct has (`AllParts`), and when definitions are
sound, each by the number of levels of definitions and suffixes that it takes to
find out. The mapping (`Verdict`, `Shown`, `Answered`) is in `AbiCompileInv`.
Definitions that are not sound must be rejected, those that are sound
within `MaxDepth` levels must be accepted; in between, where a chain is longer
than the limit, the code accepts or not according to how much of it the order
of the map has resolved before, and the specification allows both.

In `Context` a step is one call of the C API. A conversion is no longer a loop
but an outcome (the type is unknown, the input is bad, it succeeds), and a result
is known by what it was made of: the contract and the abi that the contract had.
That is all that a later call can depend on. Each function keeps its order of
tests and of assignments to `last_error`, `result_bin` and `result_str`, so what
a failure leaves behind is the code's. An abi has a set of faults, and each of the
five functions that read one finds the first in its own order (`FirstFault`).
`failure`, `held`, `lastBin` and `lastText` are what a caller remembers.

In `Native` the templates are functions, because they keep no state but the
object they read into, which is an argument (`old`): what an overload finds there
and keeps is part of the model. The serializers of the abi are not modelled
again: `Native` contains an instance of `JsonToBin` and one of `BinToJson`. A C++
type is a constant with a kind, an element type and members. `add_type` calls
itself for members and elements, and goes on when they have returned, so
`NativeTypes` has an activation for each running call, as `AbiCompile` has; a step
is the code between two calls. A throw unwinds them all and leaves in the abi what
has been entered. The abi is empty at first or has the builtins that `convert`
enters; into an empty one only types without builtins can be added. `Add` of
`Native` is one of these steps.

In `Ship` both sides have a list of fields still to write or read, and a step is
one field: the writer chooses sizes, flags and alternatives. The bytes themselves
are left out; a reader that expects something else than what was written has
`misread`, whatever it makes of it.

In `IntegerText` a step is a digit, in `AssetMath` an operator. `exact` and
`last` are what the integers would say; no action looks at them. `checked`
remembers whether the amount has passed a check of the class. The other types of
the chain are values with a text, so `Chain` holds one of them and its properties
say what becomes of it.

What is abstracted:

- A document is the sequence of its tokens. Commas, colons and blanks are the
  lexer's; a text that breaks off or goes wrong is a token the grammar does not
  allow. rapidjson is outside the repository: `Expects`, `Advance` and
  `JunkFollows` state the grammar as the code uses it.
- Primitives are int8 and bool, one byte each. That is enough for values that
  fail to parse, for values that need conversion, and for lengths of zero, one
  and more bytes; the other primitives differ only in their codecs.
- In the chain's types a character is a model value or a number, names have four
  characters instead of twelve, codes four bytes instead of seven, words two
  bytes instead of sixteen; the last character of a name has one bit less than
  the others, as in the code. Times are days and the part of a day, since TLC's
  integers have 32 bits, and the overflow of the code's are calculated from that.
- RIPEMD-160 and murmur are constants: any function.
- Signed overflow of amounts wraps around, as the builds do.
- `out` in `JsonToBin` is the buffer without the array sizes, `bin` the caller's
  vector, as in the code.
- In `JsonToJvalue` a map node keeps its address and an array gets fresh
  addresses at every `emplace_back`: the worst that `std::vector` may do.
- A byte other than 0 and 1 read into a bool is undefined behaviour; the decoder
  may take either value.
- A type name is a value. Its suffix and stem, which the code finds in the text,
  and the order of `std::map` are constants; the proofs assume only that every
  name has a place in the order.
- Left out: traces, texts of messages, the hook of the driver loop.

Operators marked "Seeded fault" are changed forms of the definition after them.
Nothing uses them; they serve to test that the properties notice the change.

## 3. Runs

| Run | Bounds | What it shows |
|---|---|---|
| `json_to_bin` | stack of 3; every type of `MCAbi`; documents that fit, with wrong values, with keys permuted, repeated, missing and unknown, cut short at every token, with a second value behind | all safety properties, that nothing follows an omitted extension, that every conversion ends |
| `bin_to_json` | stack of 3; all strings of up to 4 bytes over 0, 1, 2, 130, up to 6 over 1, 2, and sizes and indices in up to six bytes | the text is a prefix of JSON at every step, also after overruns and on recursive types without data |
| `reorderable` | stack of 3; the documents of `json_to_bin` | pointers stay alive, entries fit their values, the encoder stays as deep as the parser allowed |
| `codec` | stack of 5; documents nested at most 4, canonical data up to 5 bytes | the encoders agree, what they make decodes to its last byte, data and documents come back |
| `abi_compile` | depth 4; some 760 sets of up to four definitions over 26 names: aliases of each other and of every suffix, structs with bases behind aliases, variants, chains as long as the limit in both orders, each error; six questions in any sequence | all safety properties, that resolved nodes are final, that the compiler implements `AbiMeaning`, that every run ends |
| `abi_round_trip` | depth 6; the same definitions, two questions before or after converting back | nothing is refused, every type and wrapper comes back |
| `context` | two contracts (symmetric), two good abis with different items, six with each fault or two at once, two items; no bound on the number of calls | failures are explained by their own message or the decoder's default, nothing given out goes out of date, results are whole |
| `native` | 32 C++ types, 12 of them added in any sequence of up to three calls; some 600 objects nested at most 4, the documents of `MCAbi`, data of up to 6 bytes, sizes of five among them; a stack of 5 | templates and abi agree both ways, nothing unfinished passes for complete, objects may be read into again, keys are in order |
| `chain` | every message of the protocol by both writers, arrays of up to 2 elements while at most 16 fields are left; int8 and uint8, all values and all texts; amounts of 4 bits with `max_amount` 2, three units, any calls; names of 4 characters over five, codes of 4 bytes, amounts from -128 to 127 in texts; days from 1967 to 2106 and the ends of the calendar, times from 1931 on, the seconds, slots and milliseconds around each carry; byte strings of up to 4 | the two descriptions agree but for the listed differences, integers are read exactly, balances stay in range, values come back from their texts |
| `codec_deep` | stack of 3, documents nested 3 | finding 1 |
| `codec_gap` | a struct with a member after an extension | finding 2 |
| `context_lost` | as `context` | finding 3 |

Why the bounds are enough. `max_stack_size` is 3 instead of 128: the depth is
only compared with it, and three levels let an array in a struct in an array
(or a variant) reach it, pass it by one, and go on below it. The types of
`MCAbi` are those of `testAbi` in `src/test.cpp` in miniature, and each wrapper
meets each container it may wrap: trailing extensions after each other, an
extension that is a struct of extensions, one that is a variant, recursion
through an array (`r`) and through an extension without data (`x`). Arrays have
up to three elements, two of which may be arrays, so a size is written while
later holes exist. The ABI of `json_to_bin` and `reorderable` also has `gap`, an
extension that is not the last field: the safety properties there do not need
extensions to be trailing. `bin_to_json` leaves `gap` out, since `TextIsJson`
needs them to be (`ExtensionsTrail`, which an `ASSUME` of `MCBinToJson` checks of
the types it is given). `codec` leaves `gap` and the depth limit out because
there the encoders differ, which the violation runs show.

For the compiler, depth 4 (in `abi_compile`) lets an alias over a wrapper over an alias reach the
limit, and each chain of `MCAbis` is as long as the limit and laid out both in
the order of the map and against it, so that a run exists where it is accepted
and one where it is not. Which names are used matters only through their order,
suffix and stem. Base structs that are resolved by their heirs, aliases of aliases
in both orders, and each of the seven errors occur. `abi_round_trip` has depth 6,
from which on what is converted back cannot run into the limit (section 4). (`try_emplace` of a wrapper
never meets its own name in the map, though definitions that lead back to
themselves put several activations for it on the stack: see `ResolvedStaysFinal`.)

`context` is finite without a bound: what a context holds is one of finitely many
values, and all sequences of calls are covered. Two contracts let one be loaded
and the other not; two good abis let one be set over the other.

The types of `native` are those of `MCAbi` as C++ types, so that the abi that
`add_type` makes is the one the machines convert with (`GraphAssumption`), one
that an abi must refuse, in the middle of a struct, with two structs that hold
it, and types that only the binary templates know. Values have each flag, each
alternative, up to two elements; texts and floats those at which a key needs an
escape or a sign. `chain` has numbers of a few bits since the limits are named by
constants and what happens at them depends on the distance from them; all of
its properties but `DescriptionsAgree` are proved for every width and size.
Dates are not scaled: the calendar has no small copy. Messages need no more than
two elements to show that a reader follows, and none of the structs is
recursive but the transaction trace, which the bound of 16 fields closes.

Fairness. A conversion is a loop in one thread; nothing it waits for can fail to
come. So each `FairSpec` has weak fairness of the conversion's own steps, and
none of the call that begins it. `Terminates` says that each conversion ends; on
recursive types without data it is the depth limit that ends it. The compiler has
weak fairness of `Step`, all of its own steps, and none of the calls (`Convert`,
`Query`): circular definitions run into the depth limit. `Context` has no
fairness: callers need not call; nor have `Native` and `Chain`, whose
properties are about what has been made.

Deadlock is checked in every run: an ended conversion has the explicit step
`Terminated` (of the compiler, `Failed` or another question), and any other state
without a step is a fault of the model.

### Findings

1. `codec_deep`. The encoders count depth differently. The parser of the
   reordering one pushes an entry for every value, a scalar too, before it tests
   (`abiala.hpp:476`); the in-order one tests what is left after the start
   (`abiala.hpp:755`). A scalar inside exactly `max_stack_size` containers is
   accepted by one and refused by the other. `run_check_type` in `src/test.cpp`
   (line 547) asserts that both agree.
2. `codec_gap`. When an object ends early the in-order encoder tests only the
   first missing field (`abiala.hpp:785`). With an extension before a required
   field it omits the required one; the reordering encoder refuses. Of the same
   type the decoder, which writes the comma by position (`abiala.hpp:940`), makes
   the text `{,"b":{}}` when the first member is missing. `TextIsJson` is
   therefore checked and proved under `ExtensionsTrail`, and `MCBinToJson` gives
   the decoder the types of `MCAbi` without `gap`; with `gap` it is refuted.
3. `context_lost`. For a contract that is not loaded `abiala_bin_to_json` writes its
   message to a local variable (`abiala.cpp:236`), and `abiala_get_error` gives
   "binary decode error" instead; `abiala_hex_to_json` calls it. `abiala.h:66`
   says to retrieve the error there, and the encoders' functions put it there.

Finding 2 needs an ABI with a binary extension that is not a trailing
field, which the ABI compiler accepts.

Three things a caller of the API may not expect and the documentation does not
mention. Setting an abi again returns true and keeps the first
(`contracts.insert`), on which `NothingOutdated` rests. After a failed encode
`abiala_get_bin_data` gives either nothing or the previous binary, according to
whether the type was known. And `last_error` is not cleared by success:
`abiala_get_error` after a successful `abiala_json_to_bin` says "json parse
error".

Things of the C++ side that its documentation does not mention; the properties
name each of them as an exception, so that nothing else hides behind it:

- The two descriptions of the state history protocol differ. The abi's
  `action_trace_v1` has `account_disk_deltas` (`ship.abi.cpp:134`), which the C++
  struct lacks, so a reader with the C++ types misreads what follows; the abi
  knows newer alternatives; `global_property_v1` ends with `wasm_configuration`
  in C++ only (`DescriptionsAgree`).
- A sum in place that is refused has changed the balance already
  (`asset.hpp:103`), and two amounts that were only parsed may add up to
  something else than their sum (`AmountsExact`). `asset / asset` does not keep
  the lowest amount from being divided by -1 (`asset.hpp:240`).
- After `add_type` has thrown, the structs it was at work on stay unfinished and
  later calls take them for complete; the comment at `abi.hpp:254` warns of
  this. Only these structs lack fields, and only their last ones
  (`AddedIsComplete`).
- A size whose fifth byte has more bits than 32 leave room for is read as 64 bits
  by some templates, which refuse it, while the abi drops the bits
  (`from_bin.hpp:97`). Only then may a template refuse what the abi understands;
  what both understand they understand alike (`AgreesWithAbi`).
- Reading into an object that holds something adds to sets, maps and sequences
  and keeps an absent extension (`ReusedObject`).
- `is_valid` of a symbol code does not see a byte in the eighth place
  (`symbol.hpp:73`); a symbol's precision wraps at 256, an asset's amount at
  2^64 (`chain_conversions.hpp:373, 392`).
- A text that is not a name is hashed to one (`name.hpp:146`), the fields of a
  time are not validated, `block_timestamp::maximum()` is 0xffff
  (`time.hpp:201`), and base 58 takes a NUL for the digit 58 (`crypto.cpp:30`).

Two things the compiler does that its documentation does not mention, neither of
them against it: whether a chain near the depth limit is accepted depends on the
order of its names, and since `resolve` sets no base in the struct it makes, a
compiled abi converts back to definitions whose structs list the inherited
fields as their own.

## 4. Proofs

`JsonToBinProof` proves for every ABI that satisfies the assumptions of
`AbiTypes`, every set of documents and every `MaxStack > 0` what `json_to_bin`
checks on an instance and more: `IInv` (theorem `Invariance`), and from it `TypeOK`,
`StackBounded`, `ConsumesOneValue`, `MergeInBounds`, `EntriesInBounds`,
`OpenArraysOwnTheirHole`, `NestsLikeReader` and the action property
`SkipIsFinal`. `EntriesInBounds` includes that a value never finds its struct at
position -1 (`ValueHasField`).

Assumptions: the types of the constants (`TextAssumption`, `AbiAssumption`,
`InputsAssumption`, `MaxStackAssumption`) and `NestingAssumption`, which is what
`get_type` in `abi.cpp` (lines 54, 60, 66) refuses to build. Extensions need not
be trailing fields.

Why the invariant is needed. None of the properties is inductive. That
`fields[position]` is in range follows from the reader: a value comes only after
a key, and a key was accepted only in range. So `IInv` relates the stack of the
encoder to the contexts of the reader, level by level (`Shape`), with one shape
for a value that has been called for and not begun (`Pending`) and one between
the driver's steps. That nothing is written after an omitted extension follows
from extensions being allowed only along an unbroken chain of last parts
(`Chain`, `Closing`): when one is omitted, every entry below has only its end
left (`OnlyEnds`). `StackBounded` needs that a pending call finds the stack
within the limit, because only a resume tests it.

The argument. `InitInv` and one lemma per action show that `IInv` is kept; each
lemma works on the general facts about pushing, popping and changing the top of
a stack (`StackLemmas`) and about the reader's moves (`ReaderLemmas`). Since the start of an
object falls through, the lemmas about members are stated for any stream and any
stack with the right shape and used twice. The other theorems follow from
`Invariance` and, for `SkipIsFinal`, from the same case split.

`BinToJsonProof` proves of the decoder, under the same assumptions and for all
data, `TypeCorrect`, and `TextStaysJson`: `TextIsJson` from the hypothesis
`ExtensionsTrail`, without which it is false (finding 2). `TextAssumption` adds
that the empty text and those of the two bools are texts.

Why the invariants are needed. The serializers write a comma, a key or a bracket
at a time and look at nothing they have written; whether it fits depends on
`position`. `TypeInv` strengthens `TypeOK` by what is on the stack and by the
depth at which a call may be pending. `TextInv` relates the text to the stack in
two ways: the reader's context for every entry (`Levels`), and what the last
lexeme is, given how far the entry on top has got (`BetweenParts`,
`BeforeValue`). The one exception is a struct whose extensions were left out from
the first on: its position has moved but nothing was written (`LeftOut`). That
nothing follows either is where trailing extensions come in.

The argument. What a reader makes of a text is defined by recursion over it
(`Contexts`), so first it has to be shown that the recursion defines something
(`ContextsExist`) and what one more lexeme does to it; this is an induction over
the natural numbers, in the form that a set which contains 0 and with n also
n + 1 contains all (`NatInduct` in `StackLemmas`, from the library's theorem that
subsets of a well-founded order have a least element). After that there is one
lemma per action for each invariant.

`ReorderableProof` proves of the tree parser and its encoder, for every ABI,
every document and every `MaxStack > 0`, `Invariance`, and from it what
`reorderable` checks: `ParserStackIsLivePath`, `EntriesStayInValues` and
`EncoderStaysShallow`. Extensions need not trail.

Why the invariant is needed. The encoder has no depth test, and that it stays
shallow is a fact about a tree that another machine built earlier. `IInv` says
that there is a depth for each address under which the heap is a forest: each
child is one deeper than its parent, and no two parents share one (`IsForest`).
The parser's pointers form a path from the root, each one the last child of the
one below (`StackIsLivePath`), at depths 1, 2, ... (`ParserDepths`); the encoder's
entries too are at the depth of their place (`EncoderDepths`), so there are no more
of them than levels. That a pointer stays alive when an array moves needs
that nothing else on the path points into the array: again the forest. That
`std::get` finds what start tested (`EntryFitsValue`) needs that the encoder
leaves the tree alone, and that the nodes are well formed (`NodesFit`), which the
parser owes to the reader: an object gets a value only after a key.

The argument. The forest is kept by each way in which the parser changes the
heap: a member that is new or overwrites an old one, whose nodes stay behind as
garbage (`MemberForest`, `OverwriteFacts`), and an element, for which all earlier
ones get new addresses (`ElementForest`). `PathGrows` shows what that makes of the
path, `NestsPush`, `NestsKey` and `NestsPop` keep parser and reader in step, and
`Encoded` reduces each step of the encoder to its new stack.

`AbiCompileProof` proves for every set of definitions, every set of names with
any suffixes and stems, every order of the map and every depth limit what
`abi_compile` checks on an instance: `IInv`, and from it `TypeOK`,
`NestingLegal`, `EdgesSettled`, `DepthBounded` and `NothingLeftOver`, and the
action property `ResolvedIsFinal`.
`NestingLegal` is what `NestingAssumption` of the encoder's proof assumes: the
two proofs meet there. (`AbiTypes` also takes for granted that no pointer is to
an alias, which is `EdgesSettled`.)

Assumptions: `NameAssumption` and `LabelAssumption` (the types of the constants,
the builtin names, that no builtin is called `extended_asset`, and that every
name has a place in the order of the map) and `InputAssumption`.

Why the invariant is needed. A wrapper is tested once, against what its target is
at that moment, and the target may be unresolved. That the nesting is still legal
later rests on nodes never leaving their family (`Later`: an alias, a struct or a
variant in the making becomes one), and so on what each activation is at work on
having stayed what it was called for (`WorksOn`). That edges are settled needs
what unfinished activations have collected (`HasSettled`) and what is on its way
back (`ReturnsSettled`), and that a caller has a use for it (`CallersAwait`:
otherwise a returned node could arrive where no part is left). `NothingLeftOver`
needs the loop's own invariant (`Swept`): behind the cursor only the entry which
the activation at the bottom is at work on may be unresolved.

The argument. Every action is a throw, a call, a push, a replacement of the top,
or a return with a change of one node, and there is one lemma for each
(`ThrowInv`, `CallInv`, `PushInv`, `ReplaceInv`, `FinishInv`, and `QuietInv` for
the steps without activations). `GraphStep` and `FrameLasts` say what of the
graph and of the activations survives a map that has grown. `NextInv` puts the
actions together.

`ResolvedIsFinal` (theorem `ResolvedStaysFinal`) needs another invariant,
`FinalInv`. An activation that ends assigns to its node without a look at it, and
with circular definitions several activations for one name are on the stack: if
two of them ended, the second would undo the first. `FinalInv` says that every
activation is at work on a name that is still open (`IsOpen`) and has its parts
still to do in the order of the definition (`InOrder`); that each was begun for
what the one below waits for (`Serves`), and so were the call that is under way
and what is on its way back (`CallServes`, `ReturnServes`); and that of two
activations for one name the later one never has less left to do. That last part is the
heart: to get ahead, the later one would have to be given what the earlier one
waits for, and that is itself still open, with an activation just above the
earlier one (`LaterWaits`). So an activation that ends is the only one for its
name (`EndsAlone`). `PushUnfinished`, `ReplaceUnfinished` and `PopUnfinished` say
what the three ways to change the stack make of this, and `NextFinal` puts the
actions together.

That the compiler implements `AbiMeaning` (`MeansWhatItSays`, theorem
`ImplementsMeaning`) needs in addition `MeansInv`, for two questions that the
machine answers at once: is what it makes right, and does it refuse only what it
may.

- *Right.* Each node of the map is what it was defined as or what its definition
  means (`NodeMeans`), and each activation has collected the beginning of what is
  meant (`Collected`). Meaning is found level by level, so the invariant has to
  say how many levels are enough. That number is `Rank`, the nodes that are
  done: each of them takes one level more than those it was made from, and they
  were done before it. It never exceeds the number of names, so
  `Unlimited` levels, one more than there are names, find whatever there is
  (`UnlimitedIsEnough`).
- *Allowed.* When definitions are sound within `MaxDepth` levels nothing may
  throw. `LevelsLeft` says that an activation called with depth i then needs no
  more than `MaxDepth` - i levels (`HasLevels`), so the depth test passes, names are found,
  bases are structs and wrappers legal: each action that can throw has a lemma
  that it does not (`CallMeans`, `GetTypeMeans`, `EndOfWrapperMeans`,
  `EndOfAliasMeans`, `BaseMeans`).

`LevelsExist` shows that a function defined level by level exists, with which
`NamesFacts` and `FieldsFacts` open the definitions of `StandsFor` and `AllParts`;
`Levels` says that what is found with few levels is found with more. `FinalInv` is needed too:
an activation that ends finds its node as it was entered. `StepImplements` maps
each step to one of `AbiMeaning` or to a stutter: only the end of the loop over
`fill`, the end of `abi::get_type` and the exceptions can be seen.

That a compiled abi can be converted back (`RoundTripKeeps`, theorem
`RoundTripStays`) rests on all of that and on `RoundTripInv`, under two
hypotheses, which an `ASSUME` of `MCAbiRoundTrip` checks of the instance: the
order has each name once, as a `std::map` has (`EachOnce`), and the limit is at
least 6 (`DeepEnough`; it is 32 in `abi.cpp`).

- *Nothing is lost.* `to_abi_def` writes out the name of every node that is
  pointed at, but no wrapper: those must be made again from their names. So the
  invariant says that a wrapper in the map points at what its stem stands for
  there (`StemFound`), which stays true because what `get_type` finds it finds
  ever after (`FoundLasts`). With `MeansInv`, a map that is ready is then `Whole`
  (`ReadyWhole`): each node is as its name says.
- *Nothing is refused.* What is converted back defines each alias, struct and
  variant of the map once, as it is there (`AllBackLists`, `BackDefines`), and all
  of it has a meaning within six levels, however many it took before
  (`AllFound`, `BackMeans`): a type, an alias for it, an optional or an array of
  that alias, an alias for that, a binary extension of that, and a struct that
  holds it. Since the compiler implements `AbiMeaning`, it may not refuse that
  (`BackAccepted`).
- *Nothing has changed.* By `ImplementsMeaning` again the second map is what the
  definitions mean, and that is the first map (`ReadySame`).

`InterfaceProof` proves for any contracts, abis and items what `context` checks:
`NothingOutdated`, `ResultsAreWhole` and `FailureIsExplainedOrDefault`, from the
assumption that `None` is neither a contract nor an abi. `NothingOutdated` is not
inductive: a result made for a contract that has no abi would go out of date when
it is given one, so the invariant adds that whatever was made for a contract was
made when it was loaded (`Made`). The argument is that what the contracts have
they keep (`Keeps`); there is one lemma per function, and one for each way in
which a call may treat results, names and errors.

It also proves `AddedIsComplete` (`AddingIsComplete`), for any C++ types and any
number of calls of `add_type`. `UsedAssumption` says of the types what the code
takes for granted: a variant has an alternative, and no two types share a name,
since `try_emplace` would keep the one that came first in place of both. The
promise is not inductive: in the middle of a call, what a struct is made of is
there in part, and a struct that contains itself is found in the abi before it has
its fields. The invariant, `AddInv`, is about the running calls:

- the activations nest, each called by the one below it for the member it waits
  for (`Nests`), and none is for a struct that another one is for (`Once`);
- what waits has its earlier members, in the abi or under work (`AllWait`), and
  what the innermost call waits for has arrived (`Arrived`);
- a type that is in the abi stands there complete, with its parts, or is a struct
  under work, or was broken by a call that failed (`AllStand`, `Broken`).

When a call ends nothing is under work, so what stands is closed under parts, and
everything that the type is made of has to be there (`EndKeeps`); and a struct that
lacks fields was broken, since none is under work (`NothingUnderWork`). That `MadeOf`
is so closed is a matter of counting: as long as a round adds something it adds at
least one type, so after as many rounds as there are types none is missing
(`SpreadOrClosed`, `MadeOfIs`). `CallStep` and `PopStep` say what a call and a return
do to the invariant, and there is one lemma per action on top of them.

`ChainProof` proves what `chain` checks of numbers, texts and keys. Every
theorem but those about single varints is about the client of `Chain`, or about
the integer or balance that it works with.

*Integers and balances.* `IntegersReadExactly` is for integer types of every
width, from `IntTypesAssumption` (the largest value is at least 9, and odd if the
type is signed). The invariant `IntInv` adds to `ReadsExactly` that sign and limit
are those of the type. Its core are three lemmas about the test before a digit,
which the code makes with a quotient that truncates (`FitsPositive`,
`FitsNegative`, `FitsUnsigned`): the test passes exactly when ten times the result
and the digit fit. `IntegersComeBack` says that what was written is read as what
it was, the lowest value of a type too; its invariant `WriteInv` says that the
digits written or still unread and the number on the other side always make up
the number that was given (`Remains`). `BalancesExact` proves `AmountsExact` for
every `max_amount` and any symbols. The limit of int64 is taken as twice
`max_amount` and one, as in `asset.hpp`; that is why a sum that wrapped is outside
the range whenever one of the amounts was inside (`SumChecks`). A quotient is no
larger than what is divided (`QuotientBound`), by which a checked balance stays
in range without a check. `ClientIsExact` lifts both to the client
(`IntegerSteps`: its other steps leave them alone).

*Varints.* `VarintsHold`: every number of 32 bits is read up to its last byte and
comes back, and the sort keys, compared as bytes, are in the order of the
numbers; `SignedVarintsHold`: zig-zag gives every signed number back. Both go by
digits, to base 128 and to base 256. A longer key begins with a greater byte
(`LengthsInOrder`); of two keys of one length, the first digit that differs
decides (`SameLengthInOrder`), and since no string is both before and behind
another (`OneOrder`), the order of the keys gives that of the numbers back.
`chain` takes `ZigZagHolds` at a width of 8, where it can try every number; the
theorem is of the width that the code has.

*Values, times and keys.* `AllValuesComeBack`, `AllTimesComeBack` and
`AllKeysComeBack` prove `ValuesComeBack`, `TimesComeBack` and `KeysComeBack`. TLC
tries the members of `Tried`, a bound; `TriedAssumption` says no more of it than
that they are values of their types and any texts, so the theorems are about all
names of any length, codes of any size, texts of any length, amounts of any
width with the lowest one, which negation leaves as it is, every day before and
after 1970, every second of a uint32_t, every slot, every time point whose seconds
are a uint32_t, to the millisecond, any bytes, and keys with any function in place
of RIPEMD-160.
What the client holds it keeps as it took it (`HeldInv`), and the rest are
lemmas about what the code computes:

- *Numerals.* Texts of numbers, base 58 and the words of a checksum are digits in
  a base. `NumbersAre` and `QuotientsAre` show that the functions the model
  calculates with are defined, by induction over the natural numbers
  (`NatInduct` in `StackLemmas`). What everything else rests on is that a number
  has only one row of digits of a given length (`DigitsUnique`, `NumberUnique`).
  The carry of a digit through the bytes so far, which the code runs in place, is
  shown to multiply and add (`CarriesAre`, `MultipliedIs`).
- *The calendar.* The date of a day is computed with divisions that are right
  only because March is the first month and a cycle has 146097 days; the lemmas
  say which days a year and a month begin with. That the product of days and
  86400 overflows from 2038 on does no harm is shown with the remainder.
  The slot of a time point is the last one from 2000 to 2068 and the next one
  from 1931 to 2000, where the division truncates the other way (`LastSlots`,
  `NextSlots`); beyond, the number of the slot wraps.
- *Names, symbols, assets.* A name's text ends before the trailing zeros of its
  bits; suffix, prefix and length are found in the bits and have to be those of
  the text. A symbol's text is digits, a comma and a code; an asset's has a sign,
  a point and zeros, and the number is cut in two at the point and put together
  again (`AssetPartsRead`, `AssetTextIs`). That a text begins with so many
  characters of a kind (`Run`) is decided by the first that is of another, which
  is why letters, figures and separators have to be told apart (`Separators`).

The proof of `AssetKept` failed at first for a good reason. An asset's precision is
the number of digits behind the point as a `uint8_t`
(`chain_conversions.hpp:396`), so a text with 256 of them, which no instance for
TLC has, is not written as it was read; `IsPlainAsset` now says that there are
fewer, as `IsPlainSymbol` says it of a symbol.

What stays with TLC, and why:

- `Terminates` of each machine: liveness under fairness is out of this prover's
  reach.
- `SameBytes`, `RoundTrips` and `ComesBack` of `Codec`: they compare whole runs
  of three machines with each other, for which there would first have to be a
  relation between a value and its bytes (section 6).
- `SixConversions`, `AgreesWithAbi`, `ReusedObject` and `KeysInOrder` of `Native`: the templates are resolved by the type, so the model
  uses operators that call themselves, which no module with a theorem may reach.
- `DescriptionsAgree` of `Ship`: it is about the two descriptions of one protocol,
  which are given and not parameters, and over which TLC's run is exhaustive but
  for the length of arrays.

## 5. Not modelled

Hashes (RIPEMD-160, murmur), floating point text (third-party code), the streams
as buffers, `pretty_stream` and the JSON of `abi_def`, which are formatting;
rapidjson itself; the arithmetic of time points, `symbol_code(string_view)` and
the tables of the chain's and the protocol's abi, which nothing here reads. The
maps from actions, tables and action results to type names are in `Context` only
as the set of items that an abi lists. Tests, fuzzer and tools call the library.
Arrays of 2^31 elements without data (`abiala.hpp:962`) are beyond the bounds.

## 6. Plan

1. Done: the converters, as above.
2. Done: the ABI compiler, `AbiCompile`, its meaning, the conversion back, and
   the proofs of its safety properties.
3. Done: `Context`, the C API over sequences of calls, and its proofs.
4. Done: integers, varints, sort keys, the templates and `add_type` against the
   abi, the chain's types and the state history protocol; proofs of the integers
   and the assets.
5. Done: proofs of the decoder's text, of the tree's forest and its encoder, that
   what is resolved stays so, that the compiler implements its meaning, that
   what it makes can be converted back, of the varints and their keys, that the
   values, times and keys of the chain come back, and that what `add_type` adds is
   complete.
6. Not done: an abstract specification of a conversion (a relation between a value and its
   bytes) that both encoders implement.
