------------------------------ MODULE MsgpackSer ------------------------------
(***************************************************************************)
(* The MessagePack serializers (ser-write-msgpack/src/ser.rs).             *)
(*                                                                         *)
(* A head promises how many items follow before they are written.  One     *)
(* step is one call of a Serialize implementation with every write it      *)
(* makes on the sink; the calls it is nested in are the frames of `stack`, *)
(* each with the `len` its Serialize* object still counts down.  The       *)
(* implementation is not known here: it may promise any number, serialize  *)
(* more or fewer items, skip any field, or fail.                           *)
(*                                                                         *)
(* The three serializers differ in how they write structs and variants:    *)
(* CompactSerializer "array", StructMapIdxSerializer "index" and           *)
(* StructMapStrSerializer "name".                                          *)
(***************************************************************************)
EXTENDS MsgpackInt

CONSTANTS
  MaxFix,      \* MAX_FIXARRAY_SIZE and MAX_FIXMAP_SIZE
  MaxFixStr,   \* MAX_FIXSTR_SIZE
  Reprs,       \* the serializers in use
  Capacities,  \* sizes a sink may have
  Counts,      \* items an implementation may promise
  Sizes,       \* sizes of strings and byte arrays
  Names,       \* sizes of the names of fields and variants
  Numbers,     \* integers and variant indices
  FieldCounts, \* fields a struct may have
  MaxDepth,    \* bound: calls nested in one another
  MaxStart     \* bound: where in the sink the last message begins

ASSUME FixAssumption   == MaxFix \in 0..15 /\ MaxFixStr \in 0..31
ASSUME ReprAssumption  == Reprs \subseteq {"array", "index", "name"}
ASSUME InputAssumption ==
  /\ Capacities \subseteq Nat /\ Counts \subseteq Nat /\ Sizes \subseteq Nat
  /\ Names \subseteq Nat /\ Numbers \subseteq Int /\ FieldCounts \subseteq Nat
  /\ MaxDepth \in Nat /\ MaxStart \in Nat

VARIABLES
  repr,     \* which serializer
  cap, out, \* the sink: how many bytes it takes, those it has taken
  stack,    \* what the calls in progress have promised and not yet written
  pc,       \* "ready", "busy", "ok" or "failed"
  start,    \* where the message begins in the sink (history)
  meant,    \* the heads the calls meant, in order (history)
  err       \* the last error

vars == <<repr, cap, out, stack, pc, start, meant, err>>

-----------------------------------------------------------------------------
(* The stack.  A frame has `n` items to go, after the value of a key it    *)
(* has written when `open`.  A struct is at field `pos` of `fields` and    *)
(* promised `len` of them; `idx` is its next key.  `below` is what the     *)
(* frames under it owe (history, as are pos of an array and len).          *)

Frame(k, n, b, f) ==
  [kind |-> k, n |-> n, open |-> FALSE, len |-> n, pos |-> 0, fields |-> f, idx |-> 0, below |-> b]
Top   == stack[Len(stack)]
Under == SubSeq(stack, 1, Len(stack) - 1)
Replace(f) == Append(Under, f)

Keyed  == {"map", "index", "name"}
Struct == {"array", "index", "name"}
Own(f) == IF f.kind \in Keyed THEN 2 * f.n + (IF f.open THEN 1 ELSE 0)
          ELSE IF f.kind = "text" THEN (IF f.n > 0 THEN 1 ELSE 0)
          ELSE f.n
Owed(s) == IF s = <<>> THEN 0 ELSE s[Len(s)].below + Own(s[Len(s)])

\* The innermost implementation may serialize a value: as the message, an
\* element, a field of an array, a key, the value of a key.
Ready(f) ==
  CASE f.kind = "array" -> f.n > 0 /\ f.pos < f.fields
    [] f.kind \in {"index", "name"} -> f.open
    [] f.kind \in {"text", "variant"} -> FALSE
    [] f.kind = "map" -> f.open \/ f.n > 0
    [] OTHER -> f.n > 0

\* self.len.checked_sub(1) of the frame the value belongs to; the value of a
\* key was counted with it.
Took(f) ==
  CASE f.kind = "array" -> [f EXCEPT !.n = @ - 1, !.pos = @ + 1]
    [] f.kind = "map" /\ ~f.open -> [f EXCEPT !.n = @ - 1, !.open = TRUE]
    [] f.kind \in Keyed /\ f.open -> [f EXCEPT !.open = FALSE]
    [] OTHER -> [f EXCEPT !.n = @ - 1]

Settle == Replace(Took(Top))
Announce(k, n, f) == Append(Settle, Frame(k, n, Top.below + Own(Took(Top)), f))

-----------------------------------------------------------------------------
(* The sink.  A call makes up to three writes and stops at the first that  *)
(* is refused.  What is refused leaves nothing in the sink, or as much of  *)
(* it as fits: a SliceWriter does the one and a Cursor the other.          *)

Fail(e) == pc' = "failed" /\ stack' = <<>> /\ err' = e

RoomLoose(bytes) == Len(out) + Len(bytes) <= cap + 1                 \* mutant
Room(bytes) == Len(out) + Len(bytes) <= cap

Refuse(taken, bytes, e) ==
  /\ Fail(e)
  /\ out' \in {taken, taken \o SubSeq(bytes, 1, cap - Len(taken))}

Put(a, b, c, e, A) ==
  \/ ~Room(a) /\ Refuse(out, a, e)
  \/ Room(a) /\ ~Room(a \o b) /\ Refuse(out \o a, b, e)
  \/ Room(a \o b) /\ ~Room(a \o b \o c) /\ Refuse(out \o a \o b, c, e)
  \/ Room(a \o b \o c) /\ out' = out \o a \o b \o c /\ A

Go(s) == stack' = s /\ UNCHANGED <<pc, err>>

\* The bytes of a string or of a number; no message begins with RESERVED.
Payload(n) == [i \in 1..n |-> RESERVED]
Mean(kind, n) == meant' = Append(meant, <<kind, n>>)
Same == UNCHANGED <<repr, cap, start>>

HoldsOneMore(n, w) == n <= Power[w]                                  \* mutant
\* A length of w bytes, and the code of the first class that holds it.
Holds(n, w) == n < Power[w]
Class(n, short, max, codes) ==
  IF n <= max THEN [code |-> short + n, digits |-> <<>>]
  ELSE LET w == CHOOSE w \in DOMAIN codes : /\ Holds(n, w)
                                            /\ \A v \in DOMAIN codes : v < w => ~Holds(n, v)
       IN [code |-> codes[w], digits |-> BigEndian(n, w)]
ArrayCodes == [w \in {2, 4} |-> IF w = 2 THEN ARRAY_16 ELSE ARRAY_32]
MapCodes   == [w \in {2, 4} |-> IF w = 2 THEN MAP_16 ELSE MAP_32]
StrCodes   == [w \in {1, 2, 4} |-> IF w = 1 THEN STR_8 ELSE IF w = 2 THEN STR_16 ELSE STR_32]
BinCodes   == [w \in {1, 2, 4} |-> IF w = 1 THEN BIN_8 ELSE IF w = 2 THEN BIN_16 ELSE BIN_32]

\* write_array_len, write_map_len, write_str_len, serialize_bytes
ArrayHead(n) == Class(n, FIXARRAY, MaxFix, ArrayCodes)
MapHead(n)   == Class(n, FIXMAP, MaxFix, MapCodes)
StrHead(n)   == Class(n, FIXSTR, MaxFixStr, StrCodes)
BinHead(n)   == Class(n, 0, -1, BinCodes)

\* A head with its length, and its bytes; the error of a length no class holds.
WriteHead(n, head, e, bytes, A) ==
  \/ ~Holds(n, 4) /\ Fail(e) /\ out' = out
  \/ Holds(n, 4) /\ Put(<<head.code>>, head.digits, bytes, "Writer", A)
WriteNumber(t, v, A) == Put(<<IntCode(t, v)>>, IntDigits(t, v), <<>>, "Writer", A)

-----------------------------------------------------------------------------
(* What an implementation may serialize *)

Serializing == pc = "busy" /\ Ready(Top)

\* A value written by two writes: bool, none, unit, f32, f64.
Scalars == {<<NIL, 0>>, <<TRUE_, 0>>, <<FLOAT_32, 4>>}
SerializeScalar ==
  /\ Serializing
  /\ \E s \in Scalars : /\ Put(<<s[1]>>, Payload(s[2]), <<>>, "Writer", Go(Settle))
                        /\ Mean("scalar", s[1])
  /\ Same

SerializeInteger ==
  /\ Serializing
  /\ \E t \in Types, v \in Numbers : /\ Fits(t, v)
                                     /\ WriteNumber(t, v, Go(Settle))
                                     /\ Mean("number", v)
  /\ Same

SerializeStr ==
  /\ Serializing
  /\ \E n \in Sizes : /\ WriteHead(n, StrHead(n), "StrLength", Payload(n), Go(Settle))
                      /\ Mean("str", n)
  /\ Same

SerializeBytes ==
  /\ Serializing
  /\ \E n \in Sizes : /\ WriteHead(n, BinHead(n), "DataLength", Payload(n), Go(Settle))
                      /\ Mean("bin", n)
  /\ Same

\* serialize_seq and serialize_tuple; serialize_map.
SerializeSeq ==
  /\ Serializing /\ Len(stack) < MaxDepth
  /\ \E n \in Counts : /\ WriteHead(n, ArrayHead(n), "SeqLength", <<>>, Go(Announce("seq", n, 0)))
                       /\ Mean("array", n)
  /\ Same

SerializeMap ==
  /\ Serializing /\ Len(stack) < MaxDepth
  /\ \E n \in Counts : /\ WriteHead(n, MapHead(n), "MapLength", <<>>, Go(Announce("map", n, 0)))
                       /\ Mean("map", n)
  /\ Same

\* An implementation that does not know the length of a sequence or a map.
LengthUnknown ==
  /\ Serializing
  /\ Fail("SeqLength") \/ Fail("MapLength")
  /\ UNCHANGED <<out, meant>> /\ Same

\* serialize_struct, each serializer in its way.
SerializeStruct ==
  /\ Serializing /\ Len(stack) < MaxDepth
  /\ \E n \in Counts, f \in FieldCounts :
       IF repr = "array"
       THEN /\ WriteHead(n, ArrayHead(n), "SeqLength", <<>>, Go(Announce("array", n, f)))
            /\ Mean("array", n)
       ELSE /\ WriteHead(n, MapHead(n), "MapLength", <<>>, Go(Announce(repr, n, f)))
            /\ Mean("map", n)
  /\ Same

\* A variant with data is a map of one.
SerializeVariant ==
  /\ Serializing /\ Len(stack) < MaxDepth
  /\ Put(<<FIXMAP + 1>>, <<>>, <<>>, "Writer", Go(Announce("variant", 2, 0)))
  /\ Mean("map", 1)
  /\ Same

\* serialize_variant: of a unit variant, which is all of the value, or after
\* the head of a variant with data.
WriteVariant(s) ==
  IF repr = "name"
  THEN \E n \in Names : /\ WriteHead(n, StrHead(n), "StrLength", Payload(n), Go(s))
                        /\ Mean("str", n)
  ELSE \E v \in Numbers : /\ Fits("u32", v)
                          /\ WriteNumber("u32", v, Go(s))
                          /\ Mean("number", v)

SerializeUnitVariant == Serializing /\ WriteVariant(Settle) /\ Same

\* Then the frame owes the one value of the variant.
NameVariant ==
  /\ pc = "busy" /\ Top.kind = "variant"
  /\ WriteVariant(Replace([Top EXCEPT !.kind = "one", !.n = 1]))
  /\ Same

-----------------------------------------------------------------------------
(* collect_str without an allocator: the value is formatted once to count  *)
(* its bytes and once more to write them, piece by piece.  An error of the *)
(* sink is an error of the formatter.                                      *)

CollectStr ==
  /\ Serializing /\ Len(stack) < MaxDepth
  /\ \E n \in Sizes : /\ WriteHead(n, StrHead(n), "StrLength", <<>>, Go(Announce("text", n, 0)))
                      /\ Mean("str", n)
  /\ Same

TooLong(k) == k > Top.n
\* The second time a Display writes what it wrote the first time, or more.
CollectPiece ==
  /\ pc = "busy" /\ Top.kind = "text"
  /\ \E k \in 1..(Top.n + 1) :
       IF TooLong(k) THEN Fail("FormatError") /\ out' = out
       ELSE Put(Payload(k), <<>>, <<>>, "FormatError", Go(Replace([Top EXCEPT !.n = @ - k])))
  /\ UNCHANGED meant /\ Same

-----------------------------------------------------------------------------
(* Items and their ends *)

\* An item that was not promised: the checked subtraction comes first.
TooMany ==
  /\ pc = "busy" /\ Top.n = 0 /\ ~Top.open
  /\ \/ Top.kind = "seq" /\ Fail("SeqLength")
     \/ Top.kind = "map" /\ Fail("MapLength")
     \/ Top.kind = "array" /\ Top.pos < Top.fields /\ Fail("SeqLength")
     \/ Top.kind \in {"index", "name"} /\ Top.pos < Top.fields /\ Fail("MapLength")
  /\ UNCHANGED <<out, meant>> /\ Same

\* wrapping_add(1) of a u32
Wrapping(i) == (i + 1) % Power[4]

\* serialize_field of a map: its index or its name, then the value.
WriteKey ==
  /\ pc = "busy" /\ Top.kind \in {"index", "name"} /\ ~Top.open
  /\ Top.n > 0 /\ Top.pos < Top.fields
  /\ LET after == [Top EXCEPT !.n = @ - 1, !.open = TRUE, !.pos = @ + 1,
                              !.idx = IF Top.kind = "index" THEN Wrapping(@) ELSE @]
     IN IF Top.kind = "index"
        THEN /\ WriteNumber("u32", Top.idx, Go(Replace(after)))
             /\ Mean("number", Top.pos)
        ELSE \E n \in Names : /\ WriteHead(n, StrHead(n), "StrLength", Payload(n), Go(Replace(after)))
                              /\ Mean("str", n)
  /\ Same

SkippableAlways(f) == TRUE                                           \* mutant
\* Only last fields may be skipped from an array.
Skippable(f) == f.kind /= "array" \/ f.n = 0

SkippedStill(f) == [f EXCEPT !.pos = @ + 1]                          \* mutant
Skipped(f) == [f EXCEPT !.pos = @ + 1, !.idx = IF f.kind = "index" THEN Wrapping(@) ELSE @]

SkipField ==
  /\ pc = "busy" /\ Top.kind \in Struct /\ ~Top.open /\ Top.pos < Top.fields
  /\ \/ Skippable(Top) /\ Go(Replace(Skipped(Top)))
     \/ ~Skippable(Top) /\ Fail("FieldSkipped")
  /\ UNCHANGED <<out, meant>> /\ Same

AllWrittenNever(f) == TRUE                                           \* mutant
\* self.len == 0
AllWritten(f) == f.n = 0

\* end(), after the last field of a struct; a value alone just returns.
End ==
  /\ pc = "busy" /\ ~Top.open /\ Top.kind /= "variant"
  /\ Top.kind \in Struct => Top.pos = Top.fields
  /\ Top.kind = "one" => Top.n = 0
  /\ IF Top.kind = "text" \/ AllWritten(Top)
     THEN /\ Top.kind = "text" => Top.n = 0
          /\ stack' = Under
          /\ pc' = IF Under = <<>> THEN "ok" ELSE pc
          /\ UNCHANGED err
     ELSE Fail(IF Top.kind \in Keyed THEN "MapLength" ELSE "SeqLength")
  /\ UNCHANGED <<out, meant>> /\ Same

\* A Serialize implementation returns an error of its own.
GiveUp ==
  /\ pc = "busy"
  /\ Fail(IF Top.kind = "text" THEN "FormatError" ELSE "SerializeError")
  /\ UNCHANGED <<out, meant>> /\ Same

-----------------------------------------------------------------------------

\* to_writer and the others; messages may follow one another in a sink.
Begin ==
  /\ pc /= "busy" /\ Len(out) <= MaxStart
  /\ pc' = "busy" /\ err' = "none"
  /\ stack' = <<Frame("one", 1, 0, 0)>>
  /\ start' = Len(out) /\ meant' = <<>>
  /\ UNCHANGED <<repr, cap, out>>

Init ==
  /\ repr \in Reprs /\ cap \in Capacities
  /\ out = <<>> /\ stack = <<>> /\ pc = "ready"
  /\ start = 0 /\ meant = <<>> /\ err = "none"

Next ==
  \/ Begin
  \/ SerializeScalar \/ SerializeInteger \/ SerializeStr \/ SerializeBytes
  \/ SerializeSeq \/ SerializeMap \/ LengthUnknown \/ SerializeStruct
  \/ SerializeVariant \/ SerializeUnitVariant \/ NameVariant
  \/ CollectStr \/ CollectPiece
  \/ TooMany \/ WriteKey \/ SkipField \/ End \/ GiveUp

Spec == Init /\ [][Next]_vars

-----------------------------------------------------------------------------
(* Properties *)

Kinds  == {"one", "seq", "map", "array", "index", "name", "variant", "text"}
Frames == [kind : Kinds, n : Nat, open : BOOLEAN, len : Nat, pos : Nat, fields : Nat,
           idx : Nat, below : Nat]

\* Types: the sink holds bytes, no more than it takes, and calls in progress
\* are exactly the frames of the stack.
TypeOK ==
  /\ repr \in Reprs /\ cap \in Capacities
  /\ out \in Seq(Byte) /\ Len(out) <= cap
  /\ stack \in Seq(Frames)
  /\ pc \in {"ready", "busy", "ok", "failed"}
  /\ start \in 0..Len(out)
  /\ (stack = <<>>) <=> pc /= "busy"

\* Whatever is skipped and promised, the next field of a struct is written
\* where a reader looks for it: as the element at its position in the struct,
\* or under its position as the key.
InPlace(f) ==
  /\ f.kind = "array" /\ f.n > 0 => f.len - f.n = f.pos
  /\ f.kind = "index" /\ f.pos < Power[4] => f.idx = f.pos
FieldsInPlace == \A i \in 1..Len(stack) : InPlace(stack[i])

\* The lengths the frames count down, added up, are a flat count of the
\* messages promised, and Ok is returned only when it is zero.
Status == CASE pc = "ready" -> "rest" [] pc = "busy" -> "busy"
            [] pc = "ok" -> "complete" [] pc = "failed" -> "broken"
Stream == INSTANCE MsgpackStream WITH at <- Len(out), owed <- Owed(stack), state <- Status
WritesStream == Stream!Spec

\* The inductive invariant: each frame remembers what the frames under it owe,
\* a variant not yet named owes its name and its value, and keys are of a u32.
Linked(s) ==
  \A i \in 1..Len(s) : s[i].below = IF i = 1 THEN 0 ELSE s[i - 1].below + Own(s[i - 1])
FrameOK(f) ==
  /\ InPlace(f)
  /\ f.kind = "variant" => f.n = 2
  /\ f.idx < Power[4]
Framed(s) == \A i \in 1..Len(s) : FrameOK(s[i])
IInv == TypeOK /\ Linked(stack) /\ Framed(stack)
=============================================================================
