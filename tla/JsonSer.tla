------------------------------- MODULE JsonSer -------------------------------
(***************************************************************************)
(* The JSON serializer (ser-write-json/src/ser.rs).                        *)
(*                                                                         *)
(* One step is what a call writes between two decisions of the Serialize   *)
(* implementation, or one iteration of a loop that writes a text: a string *)
(* with its escapes, bytes by a ByteEncoder.  The calls in progress are    *)
(* the frames of `stack`.  The implementation is not known here.           *)
(***************************************************************************)
EXTENDS Naturals, Sequences

CONSTANTS
  Encoders,    \* the ByteEncoders in use: "array", "hex", "base64", "pass"
  Capacities,  \* sizes a sink may have
  Strings,     \* strings to serialize, names of fields and of variants
  Pieces,      \* what a Display may write at once
  Arrays,      \* byte arrays to serialize
  Atoms,       \* the texts of numbers and of true, false and null
  Quotable,    \* those that may be keys: integers and booleans
  MaxDepth     \* bound: calls nested in one another

Byte == 0..255

ASSUME EncoderAssumption == Encoders \subseteq {"array", "hex", "base64", "pass"}
ASSUME InputAssumption ==
  /\ Capacities \subseteq Nat /\ MaxDepth \in Nat
  /\ Strings \subseteq Seq(Byte) /\ Pieces \subseteq Seq(Byte) /\ Arrays \subseteq Seq(Byte) /\ Atoms \subseteq Seq(Byte)
  /\ Quotable \subseteq Atoms

\* What the output has to be.  A str of Rust is UTF-8, and the text of a number or
\* of a literal is made of the characters of one.
Json == INSTANCE JsonBytes

ASSUME AtomAssumption == \A a \in Atoms : a /= <<>> /\ \A k \in DOMAIN a : a[k] \in Json!Scalars
ASSUME TextAssumption == \A s \in Strings \cup Pieces : Json!IsUtf8(s)

VARIABLES
  encoder,  \* the ByteEncoder
  cap, out, \* the sink: how many bytes it takes, those it has taken
  stack,    \* the calls in progress
  pc,       \* "busy", "ok" or "failed"
  meant,    \* what the calls meant, in order (history)
  err       \* the error

vars == <<encoder, cap, out, stack, pc, meant, err>>

-----------------------------------------------------------------------------
(* Characters *)

QU == 34    BS == 92    UU == 117
COMMA == 44    COLON == 58
LBRACKET == 91    RBRACKET == 93    LBRACE == 123    RBRACE == 125

ESCAPE == [b \in 0..31 |->
             CASE b = 8 -> 98 [] b = 9 -> 116 [] b = 10 -> 110 [] b = 12 -> 102 [] b = 13 -> 114
               [] OTHER -> UU]
EscapedNoSlash(b) == b \in 0..31 \/ b = QU                           \* mutant
Escaped(b) == b \in 0..31 \/ b = QU \/ b = BS
Escape(b)  == IF b \in 0..31 THEN ESCAPE[b] ELSE b

Nibble(n) == IF n <= 9 THEN 48 + n ELSE 55 + n
HexSwapped(b) == <<Nibble(b % 16), Nibble(b \div 16)>>               \* mutant
Hex(b)    == <<Nibble(b \div 16), Nibble(b % 16)>>

DecimalPadded(b) ==                                                  \* mutant
  <<48 + b \div 100, 48 + ((b \div 10) % 10), 48 + (b % 10)>>
\* serialize_u8
Decimal(b) == IF b < 10 THEN <<48 + b>>
              ELSE IF b < 100 THEN <<48 + b \div 10, 48 + (b % 10)>>
              ELSE <<48 + b \div 100, 48 + ((b \div 10) % 10), 48 + (b % 10)>>

\* base64::encode of at most three bytes
Letter(n) == IF n < 26 THEN 65 + n ELSE IF n < 52 THEN 71 + n ELSE IF n < 62 THEN n - 4
             ELSE IF n = 62 THEN 43 ELSE 47
Base64(s) ==
  LET a == s[1]
      b == IF Len(s) > 1 THEN s[2] ELSE 0
      c == IF Len(s) > 2 THEN s[3] ELSE 0
      codes == <<a \div 4, (a % 4) * 16 + b \div 16, (b % 16) * 4 + c \div 64, c % 64>>
  IN [k \in 1..(Len(s) + 1) |-> Letter(codes[k])]

-----------------------------------------------------------------------------
(* The stack.  Lists and maps have the flag `first` of SeqMapSerializer; a *)
(* frame is `open` when it waits for the value of a key, or for its only   *)
(* one.  A text is written up to `i`, of which the bytes from `from` on    *)
(* are still to be copied, and is followed by its quote and `tail`.        *)

Frame(k, op) == [kind |-> k, first |-> TRUE, open |-> op, text |-> <<>>, i |-> 0, from |-> 0,
                 tail |-> <<>>]
Text(k, s, t) == [kind |-> k, first |-> TRUE, open |-> FALSE, text |-> s, i |-> 0, from |-> 0,
                  tail |-> t]
Top   == stack[Len(stack)]
Under == SubSeq(stack, 1, Len(stack) - 1)
Replace(f) == Append(Under, f)

Lists   == {"seq", "tuple_variant"}
Structs == {"struct", "struct_variant"}
Strs    == {"str", "collect"}
ByteTexts == {"array", "hex", "base64"}

Ready(f) == f.kind \in Lists \/ f.open
KeptFirst(f) == [f EXCEPT !.open = FALSE]                            \* mutant
Took(f)  == [f EXCEPT !.first = FALSE, !.open = FALSE]
Comma(f) == IF f.first THEN <<>> ELSE <<COMMA>>
\* What goes before the value.
Lead(f)  == IF f.kind \in Lists THEN Comma(f) ELSE IF f.kind = "map" THEN <<COLON>> ELSE <<>>
CloserBoth(f) ==                                                     \* mutant
  IF f.kind \in {"seq", "tuple_variant"} THEN <<RBRACKET>> ELSE <<RBRACE, RBRACE>>
Closer(f) ==
  CASE f.kind = "seq" -> <<RBRACKET>>
    [] f.kind = "tuple_variant" -> <<RBRACKET, RBRACE>>
    [] f.kind \in {"map", "struct", "newtype_variant"} -> <<RBRACE>>
    [] f.kind = "struct_variant" -> <<RBRACE, RBRACE>>
    [] OTHER -> <<>>

Settle == Replace(Took(Top))

-----------------------------------------------------------------------------
(* The sink, as in MsgpackSer: up to three writes, the first refused ends  *)
(* the call, and leaves nothing of itself in the sink or what fits.        *)

Fail(e) == pc' = "failed" /\ stack' = <<>> /\ err' = e
Go(s)   == stack' = s /\ UNCHANGED <<pc, err>>
Keep    == UNCHANGED <<encoder, cap>>
Mean(e) == meant' = Append(meant, e)

RoomLoose(bytes) == Len(out) + Len(bytes) <= cap + 1                 \* mutant
Room(bytes) == Len(out) + Len(bytes) <= cap
Refuse(taken, bytes, e) ==
  /\ Fail(e)
  /\ out' \in {taken, taken \o SubSeq(bytes, 1, cap - Len(taken))}
Put(a, b, c, e, A) ==
  \/ ~Room(a) /\ Refuse(out, a, e)
  \/ Room(a) /\ ~Room(a \o b) /\ Refuse(out \o a, b, e)
  \/ Room(a \o b) /\ ~Room(a \o b \o c) /\ Refuse(out \o a \o b, c, e)
  \/ Room(a \o b \o c) /\ out' = out \o a \o b \o c /\ A

-----------------------------------------------------------------------------
(* Values *)

Serializing == pc = "busy" /\ Ready(Top)
Nesting     == Serializing /\ Len(stack) < MaxDepth

\* bool, none, unit, integers, floats
SerializeAtom ==
  /\ Serializing
  /\ \E a \in Atoms : Put(Lead(Top), a, <<>>, "Writer", Go(Settle)) /\ Mean(<<"atom", a>>)
  /\ Keep

\* serialize_str, serialize_char, serialize_unit_variant
SerializeStr ==
  /\ Serializing
  /\ \E s \in Strings :
       /\ Put(Lead(Top), <<QU>>, <<>>, "Writer", Go(Append(Settle, Text("str", s, <<>>))))
       /\ Mean(<<"str", s>>)
  /\ Keep

CollectStr ==
  /\ Serializing
  /\ Put(Lead(Top), <<QU>>, <<>>, "Writer", Go(Append(Settle, Text("collect", <<>>, <<>>))))
  /\ Mean(<<"str", <<>>>>)
  /\ Keep

\* Bytes passed through are the text of a value already.
SerializeBytes ==
  /\ Serializing
  /\ IF encoder = "pass"
     THEN \E a \in Atoms : Put(Lead(Top), a, <<>>, "Writer", Go(Settle)) /\ Mean(<<"atom", a>>)
     ELSE \E v \in Arrays :
            /\ Put(Lead(Top), IF encoder = "array" THEN <<LBRACKET>> ELSE <<QU>>, <<>>, "Writer",
                   Go(Append(Settle, Text(encoder, v, <<>>))))
            /\ Mean(<<encoder, v>>)
  /\ Keep

SerializeSeq ==
  /\ Nesting
  /\ Put(Lead(Top), <<LBRACKET>>, <<>>, "Writer", Go(Append(Settle, Frame("seq", FALSE))))
  /\ Mean(<<"begin", "list">>)
  /\ Keep

SerializeMap ==
  /\ Nesting
  /\ \E k \in {"map", "struct"} :
       Put(Lead(Top), <<LBRACE>>, <<>>, "Writer", Go(Append(Settle, Frame(k, FALSE))))
  /\ Mean(<<"begin", "map">>)
  /\ Keep

\* A variant is a map of one: its name, then a value, a list or a map.
VariantTail ==
  [k \in {"newtype_variant", "tuple_variant", "struct_variant"} |->
     CASE k = "newtype_variant" -> <<COLON>>
       [] k = "tuple_variant"   -> <<COLON, LBRACKET>>
       [] k = "struct_variant"  -> <<COLON, LBRACE>>]
SerializeVariant ==
  /\ Nesting
  /\ \E k \in DOMAIN VariantTail, s \in Strings :
       /\ Put(Lead(Top), <<LBRACE>>, <<QU>>, "Writer",
              Go(Settle \o <<Frame(k, k = "newtype_variant"), Text("str", s, VariantTail[k])>>))
       /\ meant' = meant \o <<<<"begin", "map">>, <<"str", s>>>>
                         \o (CASE k = "newtype_variant" -> <<>>
                               [] k = "tuple_variant"  -> <<<<"begin", "list">>>>
                               [] k = "struct_variant" -> <<<<"begin", "map">>>>)
  /\ Keep

-----------------------------------------------------------------------------
(* Keys *)

Opened == [Took(Top) EXCEPT !.open = TRUE]
KeyTurn == pc = "busy" /\ Top.kind = "map" /\ ~Top.open

\* KeySer: strings as they are, booleans and integers in quotes.
StrKey ==
  /\ KeyTurn
  /\ \E s \in Strings :
       /\ Put(Comma(Top), <<QU>>, <<>>, "Writer", Go(Append(Replace(Opened), Text("str", s, <<>>))))
       /\ Mean(<<"str", s>>)
  /\ Keep
CollectKey ==
  /\ KeyTurn
  /\ Put(Comma(Top), <<QU>>, <<>>, "Writer", Go(Append(Replace(Opened), Text("collect", <<>>, <<>>))))
  /\ Mean(<<"str", <<>>>>)
  /\ Keep
QuotedKey ==
  /\ KeyTurn
  /\ \E a \in Quotable :
       /\ Put(Comma(Top), <<QU>>, <<>>, "Writer", Go(Append(Replace(Opened), Text("quoted", a, <<>>))))
       /\ Mean(<<"quoted", a>>)
  /\ Keep
\* Anything else is not a key.
InvalidKey ==
  /\ KeyTurn
  /\ Put(Comma(Top), <<>>, <<>>, "Writer", Fail("InvalidKeyType"))
  /\ UNCHANGED meant /\ Keep

\* serialize_field of a struct: its name, and the value is to follow.
WriteField ==
  /\ pc = "busy" /\ Top.kind \in Structs /\ ~Top.open
  /\ \E s \in Strings :
       /\ Put(Comma(Top), <<QU>>, <<>>, "Writer",
              Go(Append(Replace(Opened), Text("str", s, <<COLON>>))))
       /\ Mean(<<"str", s>>)
  /\ Keep

-----------------------------------------------------------------------------
(* Texts *)

Within(kinds) == pc = "busy" /\ Top.kind \in kinds /\ Top.i < Len(Top.text)
AtEnd(kinds)  == pc = "busy" /\ Top.kind \in kinds /\ Top.i = Len(Top.text)

RunShort == SubSeq(Top.text, Top.from + 1, Top.i - 1)                \* mutant
\* &value[start..i]
Run  == SubSeq(Top.text, Top.from + 1, Top.i)
SinkError == IF Top.kind = "collect" THEN "FormatError" ELSE "Writer"

\* One iteration of format_escaped_str_contents.
EscapeStep ==
  /\ Within(Strs)
  /\ LET b == Top.text[Top.i + 1]
         next == [Top EXCEPT !.i = @ + 1]
     IN IF ~Escaped(b) THEN Go(Replace(next)) /\ out' = out
        ELSE LET past == [next EXCEPT !.from = Top.i + 1] IN
             IF Escape(b) = UU
             THEN Put(Run, <<BS, UU, 48, 48>>, Hex(b), SinkError, Go(Replace(past)))
             ELSE Put(Run, <<BS, Escape(b)>>, <<>>, SinkError, Go(Replace(past)))
  /\ UNCHANGED meant /\ Keep

EndStr ==
  /\ AtEnd({"str"})
  /\ Put(Run, <<QU>>, Top.tail, "Writer", Go(Under))
  /\ UNCHANGED meant /\ Keep

\* A Display writes its string in pieces; at the end of one it may go on.
EndPiece ==
  /\ AtEnd({"collect"}) /\ Top.from < Top.i
  /\ Put(Run, <<>>, <<>>, "FormatError", Go(Replace([Top EXCEPT !.from = Top.i])))
  /\ UNCHANGED meant /\ Keep
NextPiece ==
  /\ AtEnd({"collect"}) /\ Top.from = Top.i
  /\ \E s \in Pieces :
       /\ Go(Replace([Top EXCEPT !.text = s, !.i = 0, !.from = 0]))
       /\ meant' = [meant EXCEPT ![Len(meant)] = <<"str", @[2] \o s>>]
  /\ UNCHANGED out /\ Keep
EndCollect ==
  /\ AtEnd({"collect"}) /\ Top.from = Top.i
  /\ Put(<<QU>>, <<>>, <<>>, "Writer", Go(Under))
  /\ UNCHANGED meant /\ Keep

\* KeySer::quote
EndQuoted ==
  /\ pc = "busy" /\ Top.kind = "quoted"
  /\ Put(Top.text, <<QU>>, <<>>, "Writer", Go(Under))
  /\ UNCHANGED meant /\ Keep

\* One write of a ByteEncoder: a number, two nibbles, or a chunk of three.
EncodeStep ==
  /\ Within(ByteTexts)
  /\ LET b == Top.text[Top.i + 1]
         rest == Len(Top.text) - Top.i
         n == IF Top.kind = "base64" THEN (IF rest < 3 THEN rest ELSE 3) ELSE 1
         after == Go(Replace([Top EXCEPT !.i = @ + n]))
     IN CASE Top.kind = "hex"    -> Put(Hex(b), <<>>, <<>>, "Writer", after)
          [] Top.kind = "base64" -> Put(Base64(SubSeq(Top.text, Top.i + 1, Top.i + n)), <<>>, <<>>,
                                        "Writer", after)
          [] Top.kind = "array"  -> Put(IF Top.i = 0 THEN <<>> ELSE <<COMMA>>, Decimal(b), <<>>,
                                        "Writer", after)
  /\ UNCHANGED meant /\ Keep
EndBytes ==
  /\ AtEnd(ByteTexts)
  /\ Put(IF Top.kind = "array" THEN <<RBRACKET>> ELSE <<QU>>, <<>>, <<>>, "Writer", Go(Under))
  /\ UNCHANGED meant /\ Keep

-----------------------------------------------------------------------------
(* Ends *)

\* end() of a list, a map or a struct, and of a newtype variant after its value.
End ==
  /\ pc = "busy" /\ Top.kind \in Lists \cup Structs \cup {"map", "newtype_variant"} /\ ~Top.open
  /\ Put(Closer(Top), <<>>, <<>>, "Writer", Go(Under))
  /\ meant' = meant \o [k \in 1..Len(Closer(Top)) |-> <<"end", Closer(Top)[k]>>]
  /\ Keep

Return ==
  /\ pc = "busy" /\ Top.kind = "one" /\ ~Top.open
  /\ pc' = "ok" /\ stack' = <<>>
  /\ UNCHANGED <<encoder, cap, out, meant, err>>

\* A Serialize or Display implementation returns an error of its own: at once, or
\* as the next element, key or value, behind what leads to it.
GiveUp ==
  /\ pc = "busy" /\ Top.kind \notin {"str", "quoted"} \cup ByteTexts
  /\ IF Top.kind = "collect" THEN Fail("FormatError") /\ out' = out
     ELSE \E led \in {<<>>, IF Ready(Top) THEN Lead(Top) ELSE IF KeyTurn THEN Comma(Top) ELSE <<>>} :
            Put(led, <<>>, <<>>, "Writer", Fail("SerializeError"))
  /\ UNCHANGED meant /\ Keep

-----------------------------------------------------------------------------

\* to_writer_with_encoder
Init ==
  /\ encoder \in Encoders /\ cap \in Capacities
  /\ out = <<>> /\ stack = <<Frame("one", TRUE)>> /\ pc = "busy"
  /\ meant = <<>> /\ err = "none"

Next ==
  \/ SerializeAtom \/ SerializeStr \/ CollectStr \/ SerializeBytes
  \/ SerializeSeq \/ SerializeMap \/ SerializeVariant
  \/ StrKey \/ CollectKey \/ QuotedKey \/ InvalidKey \/ WriteField
  \/ EscapeStep \/ EndStr \/ EndPiece \/ NextPiece \/ EndCollect \/ EndQuoted
  \/ EncodeStep \/ EndBytes
  \/ End \/ Return \/ GiveUp

Spec == Init /\ [][Next]_vars

-----------------------------------------------------------------------------
(* Properties *)

Kinds == Lists \cup Structs \cup Strs \cup ByteTexts \cup {"one", "map", "newtype_variant", "quoted"}

Frames == [kind : Kinds, first : BOOLEAN, open : BOOLEAN, text : Seq(Byte), i : Nat,
           from : Nat, tail : Seq(Byte)]

\* Types: the sink holds bytes, no more than it takes, and the bytes of a
\* text that are still to be copied are behind what was written of it.
TypeOK ==
  /\ encoder \in Encoders /\ cap \in Capacities
  /\ out \in Seq(Byte) /\ Len(out) <= cap
  /\ stack \in Seq(Frames)
  /\ \A k \in 1..Len(stack) : stack[k].from <= stack[k].i /\ stack[k].i <= Len(stack[k].text)
  /\ pc \in {"busy", "ok", "failed"}
  /\ (stack = <<>>) <=> pc /= "busy"

\* What a reader of JSON made of what is in the sink.
Sent == Json!Reads(Json!Start, out)

\* Whatever the calls did so far, and wherever the sink refused a byte, it holds
\* the beginning of a JSON value, and when Ok is returned one value to its end:
\* every implementation of SeqMapSerializer has put its commas, colons and
\* brackets, and every string its quotes and escapes.
AlwaysJson ==
  /\ Sent /= Json!Bad
  /\ pc = "ok" => Sent.q \in {"next", "scalar"} /\ Sent.open = <<>>

\* A value that was not written to its end does not read as complete; of a
\* number alone no reader can tell.
NeverEarly ==
  \/ pc = "busy" /\ Top.kind /= "one"
  \/ pc = "failed" /\ err \in {"Writer", "FormatError", "InvalidKeyType"}
  => Sent /= Json!Whole

\* What to_string relies on where it calls from_utf8_unchecked.
OkIsUtf8 == pc = "ok" => Json!IsUtf8(out)
=============================================================================
