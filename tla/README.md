# ser-write: JSON and MessagePack (de)serializers, verified

The repository is a family of small `no_std` libraries: a byte sink trait
(`SerWrite`), serde serializers that write to it, and serde deserializers that
read a slice in place. This directory models them in TLA+, checks the models
with TLC on small instances and proves the most important properties with TLAPS
for every instance.

## The system

Nothing here runs concurrently: a call runs on its caller's thread until it
returns. What is hard is order. The JSON deserializer rewrites the buffer it is
reading and lends parts of it for the lifetime of the whole buffer, using raw
pointers. The MessagePack formats promise lengths before the items exist.
Between any two steps stands a serde visitor (or `Serialize` implementation)
the libraries did not write, which may ask for any type, ignore a value, stop
early, return an error, or swallow one and go on.

| Component | State | Operations | Hard behaviour | What makes it correct |
|---|---|---|---|---|
| JSON in-place decoders (`ser-write-json/src/de.rs`, `base64.rs`) | `input`, `index`; the bytes of the buffer; slices lent out | `parse_str_content`, `parse_hex_bytes_content`, `parse_base64_bytes_content`, `parse_array_bytes_content`, `eat_str_content`, `split_input` | writes behind the reading cursor in the same buffer; two `unsafe` regions; errors in the middle | decoded bytes are the ones the text denotes; unread bytes and lent slices are never touched |
| JSON structure (`de.rs`) | `first` flag of each open sequence or map; cursor | `deserialize_*`, `CommaSeparated`, `MapKey`, variant accesses | visitors that stop early; keys that are quoted numbers; `any` against typed parsing | separators exactly between items; what is skipped is what would be read |
| MessagePack deserializer (`ser-write-msgpack/src/de.rs`) | `input`, `index`; count left in each `CountingAccess`; the Rust stack | `eat_message`, `deserialize_*`, `split_input`, `eat_some` | nested counts, early stops, truncated input, lengths near the limit of `usize` | `Ok` exactly after one message; `UnexpectedEof` exactly when it is cut |
| MessagePack serializers (`ser-write-msgpack/src/ser.rs`) | the sink; `len` (and `idx`) of each open sequence, map or struct | `serialize_*`, `SerializeSeqMap`, three struct serializers | length written before the items; skipped fields; a full sink in the middle | what was written is one message whose fields are where a reader expects them |
| JSON serializers (`ser-write-json/src/ser.rs`) | the sink; `first` flag | `serialize_*`, key serializer, byte encoders, `format_escaped_str_contents` | separators and keys; runs between escapes; errors in the middle | what was written is one JSON value that denotes what was serialized |
| `SerWrite` and sinks (`src/src/lib.rs`, `foreign.rs`) | buffer, `len` | `write`, `write_byte`, `write_str`, `split`, `clear` | a full buffer; sinks that write a part | a write is whole or an error |

Components interact by calls: a deserializer calls the visitor, which calls it
back through an access; a serializer calls `Serialize`, which calls it back, and
each of them makes several `write` calls on the sink for one value. The only
shared state is the JSON buffer, between the deserializer and the holders of
slices it has lent.

`PROJECT.json` lists the hazards of this code one by one with the properties
that cover them.

## Modules

| Module | What it is | Source |
|---|---|---|
| `JsonInput` | the buffer of the JSON deserializer and every loop over it, one iteration per step | `ser-write-json/src/de.rs`, `base64.rs` |
| `JsonContent` | what a string, its hexadecimal or Base-64 reading and an array of bytes denote, read from the untouched text, and the properties that compare `JsonInput` with it | |
| `MCJsonInput` | texts | (TLC only) |
| `JsonInput_proofs` | theorems about `JsonInput` and what it decodes | |
| `MsgpackFormat` | the codes of MessagePack | `ser-write-msgpack/src/lib.rs`, `mod magick` |
| `MsgpackStream` | abstract specification: a message is a run of heads, complete when none is owed | |
| `MsgpackDe` | the MessagePack deserializer, one head per step, for any visitor | `ser-write-msgpack/src/de.rs` |
| `MsgpackHeads` | the format, read head by head: the size of each, what it announces, and where a run of messages ends | |
| `MsgpackHeads_proofs` | lemmas about `MsgpackHeads` and about sequences of bytes, for the three modules of proofs about MessagePack | |
| `MsgpackContent` | the properties that compare the answers of `MsgpackDe` with the messages in its input | |
| `MsgpackReference` | the format, read by recursive descent | (TLC only) |
| `MCMsgpackDe` | inputs; head by head and recursive descent agree on them | (TLC only) |
| `MsgpackDe_proofs` | theorems about `MsgpackDe` and what it answers | |
| `IntegerTypes` | the integer types of both formats | |
| `MsgpackInt` | integers: the code chosen for a value, and `parse_integer` | `ser-write-msgpack/src/ser.rs`, `de.rs` |
| `MsgpackNumber` | a number written as one type and read as another | `ser-write-msgpack/src/ser.rs`, `de.rs` |
| `JsonNumber` | integers: the decimal loops and their buffers, and the parsers | `ser-write-json/src/ser.rs`, `de.rs` |
| `MCIntegers` | both formats: every type, every limit, and texts from elsewhere | (TLC only) |
| `Integers_proofs` | theorems about `MsgpackNumber` and `JsonNumber` | |
| `MsgpackSer` | the three MessagePack serializers, one call per step, for any `Serialize` implementation | `ser-write-msgpack/src/ser.rs` |
| `MsgpackWritten` | where the message in the sink ends for a reader of heads, and what that says of `MsgpackSer` | |
| `MCMsgpackSer` | what was written, read by the reference | (TLC only) |
| `MsgpackSer_proofs` | theorems about `MsgpackSer` and what it writes | |
| `JsonBytes` | JSON and UTF-8 as machines that read one byte after the other | |
| `JsonSer` | the JSON serializer, one call or one iteration of a text loop per step, for any `Serialize` implementation | `ser-write-json/src/ser.rs`, `base64.rs` |
| `JsonReference` | JSON, read by recursive descent | (TLC only) |
| `MCJsonSer` | strings, byte arrays; what was written, read by the reference | (TLC only) |
| `JsonSer_proofs` | theorems about `JsonSer` | |
| `JsonTokens` | abstract specification: a value is a run of tokens under a stack of open brackets | |
| `JsonDe` | the structure of the JSON deserializer, one call or access step per step, for any visitor | `ser-write-json/src/de.rs` |
| `JsonDe_proofs` | theorems about `JsonDe` | |
| `MCJsonDe` | texts, and a reference that reads them by recursive descent | (TLC only) |
| `ByteSink` | abstract specification: a write is whole or an error | |
| `SerWrite` | `SliceWriter` and every implementation of the trait | `src/src/lib.rs`, `foreign.rs` |
| `SerWrite_proofs` | theorems about `SerWrite` | |
| `MCSerWrite` | buffers to write | (TLC only) |

### JsonInput

`mem` is the whole buffer by absolute position; `self.input` begins at `base`,
`self.index` is `index`. The locals of the loops are `seg`, `wr` and `rd`: the
`index`, `dest` and `start` of `parse_str_bytes_content`, the `dest` and `src` of
the hexadecimal and Base-64 loops. One action per entry (`DeserializeStr`,
`DeserializeBytes`, `IgnoreScalar`, `EatPunct`, `End`) finds where the content
begins or fails; one action per loop (`StrStep`, `HexStep`, `B64Step`, `ArrStep`,
`SkipStep`) is one iteration of it with every write it makes. `SplitInput` is
`split_input`: it moves `base` and records the slice in `borrowed`.

An error leaves the cursor where the code leaves it, with the buffer half
rewritten; `SwallowError` lets the caller go on from there, as an untagged enum
or an `Option` with a lenient visitor does. From then on the text means nothing
(`dirty`), but the memory properties must still hold, and do.

History variables: `orig`, `dirty`, and `op`/`src`/`clean` in a lent slice.
`panic` and `ub` are the program counters a Rust panic or an out-of-bounds
unchecked write would lead to.

`JsonContent` says what the loops have to give, and knows neither buffer nor
cursors. A text is a function of positions with `Eof` at the last one. At each
position stands a unit: it denotes some bytes and more follows at a later
position, it is the last, or it is bad. `StringUnits` has characters and escapes,
`HexUnits` pairs of digits, `SkipUnits` what ends an ignored string, `NumberUnits` the
elements of an array with the blanks around them; `Chain` is what the units from
a position on denote together. Base-64 is not a chain: its codes are one string
of bits (`Bit`) cut into octets (`Octet`). `Reference` picks one of them by decoder.

### MsgpackDe

`input`, `base` and `index` as above. `stack` is the Rust call stack reduced to
what it still has to read: a loop of `eat_message` (`"eat"`), a `CountingAccess`
read as a sequence (`"seq"`) or as a map (`"map"`, and `"value"` between a key
and its value), a `VariantAccess` (`"enum"`), and the caller of the whole message
(`"one"`). The type being deserialized is not a parameter: at each point a visitor
may make any call, so the runs quantify over every Rust type. What a visitor
must do is what serde's contracts say: read the value of each key it read, and
the value of a newtype it was given. It may leave elements or keys unread; the
code answers that with `TrailingElements`.

Lengths have digits of `Radix` values and `usize` has `Usize` values, so that
every limit can be reached in a small instance: the program is `Radix = 256`
with `Usize = 2^32` or `2^64`. `OverflowChecks` tells debug from release builds.

`MsgpackStream` is what is promised of it: no nesting, only a count `owed` of
messages announced and not yet read. `ReadsStream` says that `MsgpackDe`
implements it with `owed` the sum over the stack: all the nested counters
together are that one count, and `Ok` is returned only when it is zero.

`MsgpackHeads` says which messages are in a sequence of bytes and knows no
deserializer. `Lead` is the head at a position: where the next one begins and how
many messages it announces, or that the input is cut or has the reserved code.
`RunEnd` is where `n` messages end that begin at a position: one head further, less
one message and more by those announced. It is a recursive function of positions
whose values are functions of `n`, so that no nesting is in it and theorems can
use it. `MsgpackReference` is the usual recursive descent; that both find the same
messages in every input of the runs, at every position, is an assumption
of `MCMsgpackDe` that TLC evaluates (`FlatIsNested`).

### MsgpackInt, MsgpackNumber and MsgpackSer

`MsgpackInt` is the arithmetic of integers: `Tried` is the order in which each
`serialize_*` tries its classes, `Number` what `parse_integer` makes of the bytes.
Bytes have `Radix` values there too, so that a 64-bit number fits TLC's integers.
`MsgpackNumber` sends any number of any type through both, to state what the two
crates promise each other.

`MsgpackSer` is the same stack seen from the writing side. A frame is a call
of a `Serialize` implementation with the `Serialize*` object it holds, and `n` is
the `len` that object counts down: `"seq"` and `"map"` for `SerializeSeqMap`,
`"array"`, `"index"` and `"name"` for the structs of the three serializers,
`"variant"` and `"one"` for an enum before and after its name, `"text"` for
`collect_str`. The implementation is unknown: it may promise any number of items,
give more or fewer, skip any field, fail. The model relies on what serde asks
of it: a value, once asked for, is serialized exactly once (the types force it),
a key is followed by its value, the fields of a struct come in order and each is
serialized or skipped, an error is passed on, and a `Display` formatted
twice gives the second time at least the bytes it gave the first time (more than
those is an error of the code and in the model; fewer would go unnoticed).

A sink takes `cap` bytes. A call makes up to three writes in a step (`Put`), and the
sink may refuse any of them, leaving nothing or a part in it. `meant` is history:
the heads the calls meant, to compare with the heads in the sink.

What is in the sink is judged twice. `WrittenRight` compares the heads that
`MsgpackReference` finds in it with `meant`. `NeverEarly` asks where the message ends for a reader
of `MsgpackHeads` (`Written`), whose `RunEnd` does not nest: between two calls at the
end of the sink if nothing is owed and nowhere if something is; at `Ok` at the end of the
sink; nowhere after an error of the sink or a `skip_field` that is refused.

### JsonSer

Again a stack of frames. `"seq"`, `"tuple_variant"`, `"map"`, `"struct"`,
`"struct_variant"` are the `SeqMapSerializer` of a call, with its flag `first`;
`"newtype_variant"` and `"one"` wait for their only value. `open` says that a key
has been written and its value is to follow. A frame on top of these may be a
text in progress: `"str"`, `"collect"` (a `Display`, which hands its string over
in pieces), `"quoted"` (a number as a key), `"hex"`, `"base64"`, `"array"`. `EscapeStep`
is one iteration of `format_escaped_str_contents`: `i` is its loop variable, `from`
its `start`, and the unescaped run between them is written only at the next
escape or at the end. The sink is as in `MsgpackSer`.

What is in the sink is judged by two readers that know nothing of the calls.
`JsonReference` reads it by recursive descent, and must find in it what the calls
meant (`meant`, history): `WrittenRight`. `JsonBytes` reads it byte by byte, as a
machine whose state is what may follow under the brackets still open; `Sent` is
the state it is in. At every step the sink must hold the beginning of a value
(`AlwaysJson`), before the last write no whole one (`NeverEarly`; a bare number has
no end to see), and at `Ok` UTF-8 (`OkIsUtf8`). The machine takes any run of the
characters of numbers and literals for one; that such a run is a number is for
`WrittenRight`.

Relied on: what serde asks of a `Serialize` implementation (above), that a `str`
is UTF-8, and that bytes passed through by `PassThroughByteEncoder` are the text
of a value, as its documentation asks. The text of a number is data (`Atoms`);
only that of a byte is computed, since `ArrayByteEncoder` writes those, and
integers have a module of their own. The sink's `Put` takes a write whole, or
keeps none or a part of it: what `ByteSink` allows, and `SerWrite` implements.

### JsonDe and JsonTokens

`JsonInput` is about the bytes of the buffer; `JsonDe` is about the order of calls.
A text is a sequence of units, a unit being a character or a whole literal
(`"cut"` a misspelt one, `"~"` an escape a decoder refuses), and nothing is
rewritten: the cursor `index` counts from the beginning of the text. `stack` holds
the accesses in use: a `CommaSeparated` with its flag `first`, of a sequence or
a map, or a `VariantAccess`; `todo` is what the innermost call reads next. `op` tells
three kinds of visitors apart. `"any"` asks for `deserialize_any` all the way down,
`"ignored"` for `deserialize_ignored_any`; `"typed"` may ask for any type anywhere,
so that a run over it quantifies over every Rust type. The keys of a map go through
`MapKey`: as strings, as quoted integers (`ReadIntegerKey`), as quoted booleans.

`JsonTokens` knows no calls, accesses or visitors: `open` holds the brackets to
close, `want` what may follow, and each step takes one token with blanks around
it. `ReadsTokens` says that `JsonDe` implements it, with the flags of all
accesses mapped to one `want`.

Relied on: a visitor reads the value of each key it read (serde's `MapAccess` asks
for it), passes on the errors it is given, and asks for a string as the name of a
variant. Which runs of number characters the library takes for an integer or a
float is `IsInt` and `IsFloat`; a sign `+` is not in the alphabet. An integer of more than
`MaxDigits` digits may overflow or not. `deserialize_bytes` on an array is in
`JsonInput`; a newtype reads nothing of its own. `eat_some` and the other public
helpers are for decoders, whose calls are in `JsonInput`.

A quirk the model shows, and `FailureMeans` spells out: a literal that is
misspelt less than its length before the end of the text is reported as
`UnexpectedEof`, not as `ExpectedToken`.

### JsonNumber

`v`, `i` and `buf` are the locals of `serialize_unsigned!` and `serialize_signed!`; a
byte of `buf` is `Unset` until it is written, and `phase = "panic"` is where `i -= 1`
would overflow. `sum` and `pos` are `number` and `pos` of `parse_positive_number` and
`parse_negative_number`, and `target` is the type asked for, whose limits the checked
operations know. Each turn of a loop is a step. The values a type has (`Half`) and
the sizes of the buffers (`Size`) are parameters; `SizeAssumption` says of a buffer
what the `$N` of the macros are chosen for: the magnitude of every value is below
`Least`, the first number for which there is no room (beside the sign, in a signed
buffer).

### SerWrite and ByteSink

`mem` is the whole buffer, `base` where `self.buf` begins after a `split`, `len` the
populated part of it, `taken` the slice `split` returned. The kinds are grouped by how
they take a write: a `SliceWriter` looks for room first; `Vec`, `VecDeque`, `SmallVec` and
`TinyVec` reserve memory, which may fail; `ArrayVec` and `heapless::Vec` take all or
nothing; the spare capacity of a `tinyvec::ArrayVec` or a `SliceVec` is written as a
slice; a `Cursor` over an array or a slice takes what there is room for and then fails;
one over a vector overwrites what is behind it and then grows the vector. `write_byte` and
`write_str` are writes of one byte and of the bytes of a string. That nobody else
reaches the buffer, and that the slice `split` returned is apart from the rest, is what
Rust's borrow checker ensures in this crate, which forbids `unsafe` code; there is
nothing to check about it (unlike `split_input` of the JSON deserializer).

## What the runs check

| Run | Question | Bounds |
|---|---|---|
| `json_strings` | is a decoded, or skipped, string what its text denotes, and is nothing else touched? | strings of up to 5 characters over quote, backslash, letter, escape letter, comma; two-byte characters, control characters; every `\uXXXX` of four digits over {0, 1, 8, D}, which gives one, two and three bytes and surrogates |
| `json_bytes` | are hexadecimal and Base-64 strings and arrays of numbers decoded right in place, and only those, and does every decoder return? | hexadecimal texts of up to 4 deciding characters, Base-64 of up to 5 and every tail behind a whole chunk; arrays of up to 4 characters, pairs of three-digit numbers around 255; mixed texts |
| `msgpack_messages` | does `Ok` mean exactly one message, and `UnexpectedEof` a cut one? | every code with 0 to 18 bytes behind it; nested messages of up to 6 bytes cut anywhere |
| `msgpack_usize16` | do the answers stay right where lengths do not fit `usize`, does the cursor never move back, and does every call return? | `usize` of 16 values, lengths up to 255, overflow checked |
| `msgpack_usize32` | (violation) is `Ok` returned only when the data was enough? | `usize` as wide as a four-digit length, overflow not checked |
| `integers` | does every integer survive writing as one type and reading as any other, in JSON exactly and in MessagePack in the fewest digits? | MessagePack: radix 4, all widths up to 16 bits, every value within 3 of every limit. JSON: every value of types of 5, 6, 8 and 10 bits, whose buffers relate to their limits as those of 32 and 64 bits do (three digits signed or not; a digit more unsigned); texts of up to 4 characters, and every limit, one beyond, with a digit more, a zero in front, a character behind |
| `msgpack_ser` | is what `Ok` leaves in the sink the message that was meant, and does nothing before it look complete? | radix 2, so that every class of length is reached, and 16 is beyond the last; sinks of 4 and 6 bytes; three levels; structs of 1 and 3 fields, two messages in a sink |
| `json_ser_values` | does the sink always hold the beginning of one value, and after `Ok` the value that was serialized? | every encoder; sinks of 7 and 12 bytes; three levels; a string that needs an escape, bytes of one and three digits |
| `json_ser_texts` | do escaped runs join up again, is the result UTF-8, is every byte encoded right? | strings of up to four characters over quote, backslash, letter, new line, control code, two-byte character; the same in pieces; all 256 bytes, arrays of up to four over the limits of the digits, one of seven for two chunks and a tail of Base-64; sinks of 5 and 24 bytes |
| `json_ser_keys` | (violation) is a key that is not a string invalid JSON? | numbers as keys |
| `json_de` | is one value consumed, the same one read or skipped, and does nested access follow the grammar? | texts of up to 4 units over brackets, separators, quote, digit, blank, literal; arrays and objects of up to 6 units; numbers of up to 4 characters; six documents of 8 to 22 units with every unit changed, added or left out, and cut anywhere |
| `sinks` | is every write whole or an error, and does `split` hand out all that was accepted? | three values of a byte, buffers of 5, writes of up to 2 bytes and some of 3 and 5; any number of writes, splits and resets |

The bounds are enough because every loop decides on at most one unit of input
(one character, an escape of at most six, a Base-64 chunk of four, one head) and
the texts hold two or three units of each kind in any order, with every
truncation. Where a width matters the radix is a parameter and the limit is
reached. The two bounds inside a model are in guards: callers of `eat_some` jump
from inside the slice and by less than `usize` can hold.

The properties compare with independent definitions: `Reference` in `JsonContent`
(what a text denotes: chains of units of the untouched text, Base-64 as a
string of bits), `RunEnd` in `MsgpackHeads`, `MsgpackReference`, `JsonReference` and `RefValue` of `MCJsonDe`
(the formats by recursive descent), and for decimals `Horner`, the number that digits
make, and `IsInteger`, the digits JSON allows in one. The action properties are `BorrowsFrozen` (no step changes a byte that
was lent before it) and `CursorGrows`.

Two findings. `msgpack_usize32`: `eat_message` adds a length to the cursor without
a check. With a 32-bit `usize` in a release build a length near `u32::MAX` wraps
the sum, and `Ok` is returned for a message that is not there; the documentation
promises `UnexpectedEof`. `json_ser_keys`: the comment of `serialize_key` says that a
key that is not a string gives invalid JSON, but `KeySer` quotes booleans and
integers and refuses the rest, so the JSON is valid.

Fairness: `WF_vars(Loop)` and `WF_vars(Step)` say that a call that was entered
keeps running. Nothing else in these libraries could interleave with it. No
fairness is assumed of callers.

Runs with `CHECK_DEADLOCK FALSE`: a JSON deserializer is consumed by `end`,
or after an error is dropped, a panic (`msgpack_usize16`) stops the program, a
number is read once, a sink that is full, or holds its message, is left.

## What is proved

Everything in this section is checked by TLAPS and holds for every value of the
constants: every set of inputs, strings, decoders, encoders and numbers, every
radix, width of `usize`, size of a sink or buffer, depth of nesting. What is assumed
of the constants are the `ASSUME`s of the modules: inputs are sequences of bytes,
a `str` is UTF-8, the text of a number consists of the characters of one
(`AtomAssumption`), fixints are the positive `i8` (`FixIntAssumption`), a digit fits
in every type and wider types have no fewer values (`HalfAssumption`), a buffer has room for the
longest number (`SizeAssumption`).

*JsonInput.* `IInv` adds `LoopOK` to the properties: where `seg`, `wr` and `rd`
stand between two iterations of each loop (the literal run lies between what is
written and what is read; hexadecimal reads two bytes for each one it writes;
Base-64 four for three). Without it nothing bounds a write by the reads before
it. `Inductive` proves it; `TypeCorrect`, `NeverPanics`, `UnreadStaysIntact` and
`SlicesDisjoint` follow, and `SlicesFrozen` from the same lemmas, one per action.
That a `\uXXXX` escape of six bytes never writes more than six, or that two
bytes of a Base-64 tail fit before the quote, is arithmetic of these lemmas.

What is decoded is a second induction, on top of the first. Its invariant `Right`
says that every slice lent holds what its text denotes, that a call ended where
the content does or failed because the text denotes nothing, and of a loop
in progress (`InLoop`) that *what it has decoded so far, followed by what the text
from the reading cursor on denotes, is what the whole content denotes*:
`Continues(Chain(u), src, decoded, rd)`. What has been decoded is, in a string, the
bytes up to `wr` and the run from `seg` to `rd` that has not been moved yet. `UnreadIntact`
makes the bytes ahead of the cursor those of the text. For Base-64 `Decoded64` says
that the octets written are those of the bits read; for an ignored string the
chains from its beginning and from the cursor are the same, which the parity of
the backslashes keeps true (`SkipRun`). Each loop has one lemma that an iteration
takes it one unit further (`StrMore`, `PlainRun`, `B64ChunkRight`...), one that the last unit
ends both (`StrQuoteRight`, `B64TailRight`...), and one that what it refuses is a bad unit.
`PieceJoin` and its neighbours say what `copy_within` and the writes make of pieces
of the buffer as sequences. `Chain` is a recursive function over the positions;
that there is one is shown from the end of the text backwards (`ChainExists`), as
each unit ends behind its beginning (`AllUnits`). That the array's number loop is right
rests on the same for decimals (`DecimalLemma`), with 255 as its limit. That `str`
checks exactly the UTF-8 of what was decoded, although it checks the bytes
in the buffer, is `Utf8Shift`. `StringSkip` shows of any text that a string which denotes
something ends where it would be skipped to.

`InductiveRight` proves it; `DecodesRight`, `RejectsRightly` and `SkipsSame` follow.

*MsgpackDe.* `IInv` adds `Linked`: each frame of the stack remembers what the
frames below it owe, so that a step on the top frame changes the total by what
it settles and announces. The outcomes of all reading actions are reduced to
two, `Broken` and `Advanced`, by one lemma per action; the theorems are then
about two cases and not fifteen. `SlicesApart` holds for every `usize`.
`NothingReadTwice` and `Refinement` assume `SafeUsize`: lengths on top of
positions fit `usize`, or additions are checked. The finding shows what happens
without it.

What is answered is a second induction, on top of the first. Its invariant
`Answers` says that *the messages all frames together owe, read from the cursor
on, end where the message of the call ends*: `RunEnd(Radix, input, Cursor,
Owed(stack)) = MessageEnd(start)`; and that a call that failed for want of a head did
so where the format has none. `AheadLemma` shows that the codes, digits, lengths
and extra bytes of the deserializer are those of `Lead`, whatever the code; one
lemma per action then shows that it reads that head and puts on the stack what it
announces (`Reads`), or has its reason (`Breaks`). `RunEnd` is a recursive function;
that there is one is shown from the end of the input backwards (`RunsExist`), as each
head ends behind its beginning (`LeadLemma`). `ExactlyOne` (`OneMessage`) assumes
`SafeUsize`. `FailuresMean` (`FailureMeans`) assumes `WideUsize`, that lengths on top of
positions fit: otherwise `eat_message` has a third error, `InvalidInteger`. It also
needs that the calls in progress of `eat_message` are all its own (`EatsOnly`).
`PayloadsLent` (`LentRight`) holds for every `usize` and every build: a slice is lent
only after a comparison that cannot wrap.

*SerWrite.* The invariant `InBuffer` says that the populated part ends within the
buffer, and that a buffer that is all populated ends with it. Without it neither
the populated part nor what `Copied` puts there has a length. The writes of all
implementations are reduced to one outcome, `Appended`: some `t` now follows the
populated part and nothing before it has changed. `Refinement` follows as `Populated`
grows by `t`, which is all of the bytes, none, or in a cursor of a fixed size the first
of them, and as `split` hands out `Populated`.

*MsgpackInt and MsgpackNumber.* The lemmas compute: the powers of the radix, that
`BigEndian` and `FromBigEndian` are inverse for each width, modulo the sign, and
that the first type tried that has a number is the one `Chosen`. `NumbersSurvive`
(`RoundTrip`) and `NumbersShortest` (`Shortest`) follow by cases over the types, with
radix 256 and 64 bits among their instances, which TLC's integers could not hold.

*JsonNumber.* The invariant `JsonIInv` says of the writing loop that the digits in
the buffer, put behind what is left of the number, make the number it began with
(`Writing`), and that what is left is below `Least` of the places left: this is why
`i -= 1` never leaves the buffer, and why the signed loop, which moves once more than
the other, still finds room for the sign. It says of the reading loop that `sum` is
the number of the digits read (`Reading`). `JsonNumbersExact` (`Exact`) follows: the
text holds the number, with no digit left unset and no zero in front; the number
read is that of the longest run of digits JSON allows; and `InvalidNumber` means that
the type does not have it, because the digits behind an overflow only take the number
farther away. `Horner` is a recursive function; that there is one, and only one, is
shown by the least number of digits for which it would not be so.

*MsgpackSer.* `IInv` adds `Linked`, as in `MsgpackDe`, and `Framed`: a field that was
written stands in its place (`InPlace`), a variant owes its name and its value.
A step has one of five outcomes, which one lemma per action establishes:
the call breaks off; it writes, and the innermost frame settles one item and may
announce more; a field is skipped; the innermost call returns; a message begins.
`Refinement` (`WritesStream`) and `FieldsWhereExpected` are about these five.

What a reader makes of the sink is a second induction, on top of the first. Its
invariant `ReadInv` says what the reader waits for: *whatever bytes follow, it takes
the next ones, as many as are missing of a text, for a part of what was begun, and
then as many messages as the frames owe*: `Reads(start, out, Pending(stack),
Owes(stack))`. It speaks of all continuations because a head is written before what it
announces exists. What a head promises is a lemma for each kind (`ArrayPromise`,
`MapPromise`, `StrPromise`, `BinPromise`, `NumberPromise`, `ScalarPromise`,
`VariantPromise`): behind anything, its code and digits, as chosen by the serializer,
are read as so many bytes and so many messages to come (`Promises`); in between
lies that the digits written are the length that is read (`LengthRead`). `HeadStep`
and `PieceStep` say that a head, or a piece of a text, takes the invariant one
write further, and `CutStep` that what a full sink keeps of either is not whole; each
action has a lemma that it does one of these (`SerializeStrReads`, `WriteKeyReads`,
`SkipFieldReads`...). `NeverTooEarly` (`NeverEarly`) is the invariant read with nothing
behind the sink.

*JsonDe.* `IInv` adds `AllBegun` (a frame below another has begun) and `KeyQuoted`
(amid a key the cursor stands behind its quote). The lemmas say where a run of
blanks, of digits or a string ends, by the least number of a set; the step
lemmas then take the tokens one by one, and `Refinement` (`ReadsTokens`) maps the
flags of all accesses to the one state of `JsonTokens`.

*JsonSer.* `IInv` ties the calls in progress to the reader of JSON. `Awaits(s, w)`
computes from a stack of lists, maps and structs the state `w` in which a reader
of JSON must be behind what they wrote: the brackets still to be closed and what
may come next. `Running(s, t)` says that the reader is in that state, or, amid
a text, within its quotes or brackets, where the quote and the tail still to be
written lead to that state; amid a string the run not copied yet begins between
two characters and has nothing to escape. Each action then has to show that what
it writes takes the reader from the one state to the other (`LeadReads`,
`CloserReads`, `StretchReads`, `UnicodeReads`, `EncodedStep`...), and `PutThree` that
every refusal in the middle leaves a beginning of it that is not whole. The run
of the machine is a recursive function over the bytes, shown to exist and to be
unique (`RunLemma`, `RunUnique`). `TypeCorrect`, `ValidJson` (`AlwaysJson`),
`NotBeforeTheEnd` (`NeverEarly`) follow from the invariant. For `OutputIsUtf8` the two
machines of `JsonBytes` are run side by side (`RunFollows`): the reader of JSON takes
no byte above 127 outside of strings and follows the characters inside them, so
that a text it takes for a whole value is UTF-8.

Only model-checked: liveness (`CallsReturn`), which the prover cannot reach, and the
agreement of the serializers and of `JsonDe` with readers by recursive descent
(`WrittenRight` of both serializers, `OneValue` and `FailureMeans` of `JsonDe`), whose
references are recursive operators, which TLAPS cannot use: an induction over the
nesting of data is out of its reach. What they say of the grammar is covered, for
every input, by the refinements `WritesStream` and `ReadsTokens`, whose abstract
specifications do not nest, and for MessagePack by `NeverEarly`. That `RunEnd` finds
the messages that recursive descent finds is model-checked too.

## Plan

1. `JsonInput` and `MsgpackDe`, with their proofs (done).
2. `MsgpackInt` and `MsgpackSer`, with their proofs (done).
3. `JsonSer`, with `JsonBytes` and its proofs (done).
4. `JsonDe` with `JsonTokens`, and the refinement (done).
5. `SerWrite` with `ByteSink`, and its proofs (done).
6. `JsonNumber`, with its proofs (done).
7. `JsonContent`, and the proof that `JsonInput` decodes what it says (done).
8. `MsgpackHeads`, and the proof that `MsgpackDe` answers what it says (done).
9. `MsgpackWritten`, and the proof that what `MsgpackSer` writes is one message
   exactly when it has written all it promised (done).

## Not modelled

Floating-point formatting and parsing (library code); the depth of the Rust
stack, which nothing limits; wording of errors; the tests, benches and examples.
