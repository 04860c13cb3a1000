-------------------------------- MODULE JsonDe --------------------------------
(***************************************************************************)
(* The structure of the JSON deserializer (ser-write-json/src/de.rs): the  *)
(* deserialize_* calls, CommaSeparated, MapKey and the variant accesses.   *)
(*                                                                         *)
(* A text is a sequence of units: a character, or a literal spelt out;     *)
(* "cut" is a literal cut short or misspelt, "~" an escape sequence that a *)
(* decoder refuses.  What decoders do with the bytes of a string is in     *)
(* JsonInput; here a string is read or refused as a whole, and the cursor  *)
(* counts from the beginning of the text.                                  *)
(*                                                                         *)
(* The type being deserialized is not known: a visitor may ask for any     *)
(* type next, ignore the value, stop early or give up.  It does what serde *)
(* asks of it: it reads the value of each key it has read, and passes on   *)
(* the errors it is given.                                                 *)
(***************************************************************************)
EXTENDS Naturals, Sequences

CONSTANTS
  Units,      \* what texts are made of
  Inputs,     \* the texts a caller may have
  MaxDigits   \* that many digits fit every integer type

Structural == {"[", "]", "{", "}", ",", ":"}
Digit      == {"0", "1"}
Words      == {"null", "true", "false"}
QU         == "\""

ASSUME UnitsAssumption  ==
  /\ Structural \cup Digit \cup Words \cup {QU, "-", ".", "e", " ", "cut", "~"} \subseteq Units
  /\ Units \subseteq STRING
ASSUME InputsAssumption == Inputs \subseteq Seq(Units)
ASSUME DigitsAssumption == MaxDigits \in Nat

VARIABLES
  text,    \* the units of the slice the deserializer was created with
  index,   \* self.index
  stack,   \* the sequences, maps and variants being read, outermost first
  todo,    \* what the call in progress reads next
  pc,      \* "ready", "busy", "ok", "failed" or "end"
  op,      \* what the visitors ask for: "any", "ignored" or any type, "typed"
  start,   \* where the last top-level call began (history)
  err      \* its error

vars == <<text, index, stack, todo, pc, op, start, err>>

-----------------------------------------------------------------------------
(* The text *)

EndOf(p, S) ==
  CHOOSE q \in p..Len(text) :
    /\ q = Len(text) \/ text[q + 1] \notin S
    /\ \A r \in (p + 1)..q : text[r] \in S

Blank   == {" "}
BlankEnd(p)   == EndOf(p, Blank)
\* What eat_whitespace finds, if anything.
At   == BlankEnd(index)
More == At < Len(text)
Unit == text[At + 1]

NumChar == Digit \cup {"-", ".", "e"}
RunEnd(p)     == EndOf(p, NumChar)
StringEnd(p)  == EndOf(p, Units \ {QU})

-----------------------------------------------------------------------------
(* Numbers: the results of parsing one at p, each with where the cursor is *)
(* left.  How an integer overflows is in JsonNumber.                       *)

\* parse_positive_number, parse_negative_number, and what comes before them
\* behind the sign.
Unsigned(p) ==
  IF p = Len(text) THEN {<<"UnexpectedEof", p>>}
  ELSE IF text[p + 1] = "0" THEN {<<"ok", p + 1>>}
  ELSE IF text[p + 1] \notin Digit THEN {<<"InvalidType", p>>}
  ELSE LET e == EndOf(p, Digit)
       IN {<<"ok", e>>} \cup (IF e - p > MaxDigits THEN {<<"InvalidNumber", p + 1>>} ELSE {})

\* parse_unsigned refuses the sign, parse_signed goes on behind it.
Integer(p) ==
  IF text[p + 1] = "-" THEN {<<"InvalidNumber", p>>} \cup Unsigned(p + 1) ELSE Unsigned(p)

\* What str::parse of the library takes for an integer and for a float.
Digits(s)   == s /= <<>> /\ \A k \in 1..Len(s) : s[k] \in Digit
Before(s, k) == SubSeq(s, 1, k - 1)
Behind(s, k) == SubSeq(s, k + 1, Len(s))
NoSign(s)   == IF s /= <<>> /\ s[1] = "-" THEN Tail(s) ELSE s
Fraction(s) == Digits(s) \/ \E k \in 1..Len(s) : s[k] = "." /\ Digits(Before(s, k) \o Behind(s, k))
IsInt(s)    == Digits(NoSign(s))
IsFloat(s)  ==
  LET t == NoSign(s) IN
  \/ Fraction(t)
  \/ \E k \in 1..Len(t) : t[k] = "e" /\ Fraction(Before(t, k)) /\ Digits(NoSign(Behind(t, k)))

\* parse_float, and parse_float_or_int: its heuristics look for a point or an exponent.
Run(p) == SubSeq(text, p + 1, RunEnd(p))
Float(p) == {IF IsFloat(Run(p)) THEN <<"ok", RunEnd(p)>> ELSE <<"InvalidNumber", p>>}
FloatOrInt(p) ==
  IF \E k \in 1..Len(Run(p)) : Run(p)[k] \in {".", "e"} THEN Float(p)
  ELSE (IF IsInt(Run(p)) THEN {<<"ok", RunEnd(p)>>} ELSE {})
       \cup (IF IsInt(Run(p)) /\ Len(Run(p)) <= MaxDigits THEN {} ELSE {<<"InvalidNumber", p>>})

-----------------------------------------------------------------------------
(* Primitives *)

Frame(k) == [kind |-> k, first |-> TRUE]
Top   == stack[Len(stack)]
Under == SubSeq(stack, 1, Len(stack) - 1)
StillFirst(f) == f                                                   \* mutant
\* self.first = false
Began(f) == [f EXCEPT !.first = FALSE]

Fail(e, i) ==
  /\ index' = i /\ pc' = "failed" /\ err' = e
  /\ stack' = <<>> /\ todo' = "none"

\* The call goes on with t inside the brackets s.
Go(i, s, t) == index' = i /\ stack' = s /\ todo' = t /\ UNCHANGED <<pc, err>>

\* A value has been read: the call that asked for it, inside the brackets s,
\* goes on.
Done(i, s) ==
  /\ index' = i /\ stack' = s /\ UNCHANGED err
  /\ todo' = IF s = <<>> THEN "none" ELSE IF s[Len(s)].kind = "variant" THEN "end" ELSE "item"
  /\ pc' = IF s = <<>> THEN "ok" ELSE pc

Finish(result) ==
  IF result[1] = "ok" THEN Done(result[2], stack) ELSE Fail(result[1], result[2])

Keep  == UNCHANGED <<text, op, start>>
Typed == op = "typed"
Busy  == pc = "busy"
\* A value is asked for, and there is something to peek at.
Value == Busy /\ todo \in {"value", "content"} /\ More

\* The first eat_whitespace of any of them finds the end of the text.
Starved == Busy /\ ~More /\ Fail("UnexpectedEof", index) /\ Keep

-----------------------------------------------------------------------------
(* Values *)

\* parse_token_content: null, also as an option, a unit or a float, true, false.
ReadLiteral ==
  /\ Value
  /\ \/ Unit \in Words /\ Done(At + 1, stack)
     \/ Unit = "cut" /\ \E e \in {"ExpectedToken", "UnexpectedEof"} : Fail(e, At)
  /\ Keep

\* deserialize_option: Some is read from what is not null.
ReadSome ==
  /\ Value /\ Typed /\ Unit \notin {"null", "cut"}
  /\ Go(At, stack, todo) /\ Keep

ReadNumber ==
  /\ Value /\ op /= "ignored"
  /\ \/ Unit \in Digit \cup {"-"} /\ \E r \in FloatOrInt(At) : Finish(r)
     \/ Typed /\ \E r \in Integer(At) : Finish(r)
     \/ Typed /\ Unit /= "null" /\ \E r \in Float(At) : Finish(r)
  /\ Keep

\* deserialize_ignored_any looks for the end of a number only.
SkipNumber ==
  /\ Value /\ op /= "any" /\ Unit \in Digit \cup {"-"}
  /\ Done(RunEnd(At), stack) /\ Keep

\* The content of a string, behind its quote: a decoder stops at the first
\* escape sequence it refuses.
Refused(p) == \E k \in (p + 1)..StringEnd(p) : text[k] = "~"

\* deserialize_str, and bytes by a decoder, a char, an identifier, which take
\* fewer strings; the name of a unit variant, which has no content to give.
ReadString ==
  /\ Value /\ op /= "ignored" /\ Unit = QU
  /\ LET p == At + 1  q == StringEnd(p) IN
     \/ Refused(p) /\ Fail("InvalidEscapeSequence", p)
     \/ ~Refused(p) /\ q = Len(text) /\ Fail("UnexpectedEof", p)
     \/ ~Refused(p) /\ q < Len(text) /\ Done(q + 1, stack)
     \/ ~Refused(p) /\ q < Len(text) /\ Typed
        /\ \E e \in {"InvalidLength", "UnexpectedChar", "InvalidType"} : Fail(e, q + 1)
  /\ Keep

\* eat_str_content
SkipString ==
  /\ Value /\ op /= "any" /\ Unit = QU
  /\ LET q == StringEnd(At + 1) IN
     \/ q = Len(text) /\ Fail("UnexpectedEof", At + 1)
     \/ q < Len(text) /\ Done(q + 1, stack)
  /\ Keep

\* deserialize_seq and deserialize_map, also for tuples and structs.
OpenArray  == Value /\ Unit = "[" /\ Go(At + 1, Append(stack, Frame("seq")), "item") /\ Keep
OpenObject == Value /\ Unit = "{" /\ Go(At + 1, Append(stack, Frame("map")), "item") /\ Keep

\* deserialize_enum on an object: VariantAccess reads the name of the variant.
OpenVariant ==
  /\ Value /\ Typed /\ Unit = "{"
  /\ Go(At + 1, Append(stack, Frame("variant")), "name") /\ Keep

\* The units each call takes, and its error on another.
Takes ==
  {<<{"true", "false", "cut"}, "UnexpectedChar">>, <<{"null", "cut"}, "ExpectedNull">>,
   <<{QU}, "ExpectedString">>, <<{QU, "["}, "UnexpectedChar">>, <<{"["}, "ExpectedArray">>,
   <<{"{"}, "ExpectedObject">>, <<{"[", "{"}, "ExpectedStruct">>, <<{QU, "{"}, "ExpectedEnumValue">>}
Values == Words \cup Digit \cup {"cut", QU, "[", "{", "-"}

Refuse ==
  /\ Value
  /\ \/ Unit \notin Values /\ Fail("UnexpectedChar", At)
     \/ Typed /\ \E call \in Takes : Unit \notin call[1] /\ Fail(call[2], At)
  /\ Keep

-----------------------------------------------------------------------------
(* CommaSeparated *)

CloserOf(f) == IF f.kind = "seq" THEN "]" ELSE "}"
Closer == CloserOf(Top)
NextAtOnce == At + 1                                                 \* mutant
\* Where the item behind a comma begins.
NextAt == BlankEnd(At + 1)
Access(kind) == Busy /\ More /\ todo = "item" /\ Top.kind = kind

\* The separator is missing, or one too many.
BadSeparator(leading, trailing, missing) ==
  \/ Unit = "," /\ Top.first /\ Fail(leading, At)
  \/ Unit = "," /\ ~Top.first /\ NextAt = Len(text) /\ Fail("UnexpectedEof", At + 1)
  \/ Unit = "," /\ ~Top.first /\ NextAt < Len(text) /\ text[NextAt + 1] = Closer
     /\ Fail(trailing, NextAt)
  \/ Unit \notin {",", Closer} /\ ~Top.first /\ Fail(missing, At)

\* There is another item, at ItemAt.
ItemAt == IF Unit = "," THEN NextAt ELSE At
HasItem ==
  \/ Unit = "," /\ ~Top.first /\ NextAt < Len(text) /\ text[NextAt + 1] /= Closer
  \/ Unit \notin {",", Closer} /\ Top.first

\* next_element_seed
NextElement ==
  /\ Access("seq")
  /\ \/ BadSeparator("LeadingArrayComma", "TrailingArrayComma", "ExpectedArrayCommaOrEnd")
     \/ HasItem /\ Go(ItemAt, Append(Under, Began(Top)), "value")
  /\ Keep

\* next_key_seed
NextKey ==
  /\ Access("map")
  /\ \/ BadSeparator("LeadingObjectComma", "TrailingObjectComma", "ExpectedObjectCommaOrEnd")
     \/ HasItem /\ text[ItemAt + 1] /= QU /\ Fail("KeyMustBeAString", ItemAt)
     \/ HasItem /\ text[ItemAt + 1] = QU /\ Go(ItemAt, Append(Under, Began(Top)), "key")
  /\ Keep

AnyCloser(c) == Unit \in {"]", "}"}                                  \* mutant
Closed(c) == Unit = c

\* The visitor is done; one that reads everything has seen the bracket.
CloseArray ==
  /\ Access("seq") /\ (Typed \/ Unit = "]")
  /\ IF Closed("]") THEN Done(At + 1, Under) ELSE Fail("ExpectedArrayEnd", At)
  /\ Keep
CloseObject ==
  /\ Access("map") /\ (Typed \/ Unit = "}")
  /\ IF Closed("}") THEN Done(At + 1, Under) ELSE Fail("ExpectedObjectEnd", At)
  /\ Keep

\* parse_key_colon: in next_value_seed, and behind the name of a variant.
ReadColon ==
  /\ Busy /\ More /\ todo = "colon"
  /\ IF Unit = ":" THEN Go(At + 1, stack, IF Top.kind = "map" THEN "value" ELSE "content")
                   ELSE Fail("ExpectedColon", At)
  /\ Keep

CloseVariant ==
  /\ Busy /\ More /\ todo = "end"
  /\ IF Closed("}") THEN Done(At + 1, Under) ELSE Fail("ExpectedEnumObjectEnd", At)
  /\ Keep

-----------------------------------------------------------------------------
(* MapKey *)

AnyEnd(p) == TRUE                                                    \* mutant
\* The quote that must follow the content of a key at once.
QuoteAt(p) == text[p + 1] = QU

\* The content of a key ended at p; wrong is the error if the key goes on.
EndKey(p, wrong) ==
  \/ p = Len(text) /\ Fail("UnexpectedEof", p)
  \/ p < Len(text) /\ QuoteAt(p) /\ Go(p + 1, stack, "colon")
  \/ p < Len(text) /\ ~QuoteAt(p) /\ Fail(wrong, p)

\* A string, by deserialize_str: any key and any name of a variant.
ReadKey ==
  /\ Busy /\ More /\ todo \in {"key", "name"}
  /\ LET p == At + 1 IN
     \/ Unit /= QU /\ Fail("ExpectedString", At)
     \/ Unit = QU /\ Refused(p) /\ Fail("InvalidEscapeSequence", p)
     \/ Unit = QU /\ ~Refused(p) /\ StringEnd(p) = Len(text) /\ Fail("UnexpectedEof", p)
     \/ Unit = QU /\ ~Refused(p) /\ StringEnd(p) < Len(text) /\ Go(StringEnd(p) + 1, stack, "colon")
     \/ Unit = QU /\ ~Refused(p) /\ Typed /\ StringEnd(p) < Len(text)
        /\ \E e \in {"InvalidLength", "InvalidType"} : Fail(e, StringEnd(p) + 1)
  /\ Keep

\* Inside a key the quote is eaten unseen, and blanks behind it.
Key == Busy /\ More /\ todo = "key" /\ Typed
KeyAt == BlankEnd(At + 1)

KeyStarved == Key /\ KeyAt = Len(text) /\ Fail("UnexpectedEof", At + 1) /\ Keep

ReadIntegerKey ==
  /\ Key /\ KeyAt < Len(text)
  /\ \E r \in Integer(KeyAt) :
       IF r[1] = "ok" THEN EndKey(r[2], "InvalidNumber") ELSE Fail(r[1], r[2])
  /\ Keep

ReadBoolKey ==
  /\ Key /\ KeyAt < Len(text)
  /\ \/ text[KeyAt + 1] \in {"true", "false"} /\ EndKey(KeyAt + 1, "InvalidType")
     \/ text[KeyAt + 1] \notin {"true", "false"} /\ Fail("UnexpectedChar", KeyAt)
     \/ text[KeyAt + 1] = "cut" /\ \E e \in {"ExpectedToken", "UnexpectedEof"} : Fail(e, KeyAt)
  /\ Keep

-----------------------------------------------------------------------------
(* Calls.  A text may hold several values, read by one call after another. *)

\* A visitor returns an error of its own, such as a missing field; or it asks
\* for unit_variant where there is a content.
GiveUp ==
  /\ Busy /\ Typed
  /\ \/ Fail("DeserializeError", index)
     \/ todo = "content" /\ Fail("InvalidType", index)
  /\ Keep

Begin ==
  /\ pc \in {"ready", "ok"}
  /\ op' \in {"any", "ignored", "typed"}
  /\ pc' = "busy" /\ todo' = "value" /\ start' = index /\ err' = "none"
  /\ UNCHANGED <<text, index, stack>>

\* end consumes the deserializer.
End ==
  /\ pc = "ok"
  /\ \/ More /\ Fail("TrailingCharacters", At)
     \/ ~More /\ pc' = "end" /\ UNCHANGED <<index, stack, todo, err>>
  /\ Keep

Init ==
  /\ text \in Inputs
  /\ index = 0 /\ start = 0 /\ stack = <<>> /\ todo = "none"
  /\ pc = "ready" /\ op = "none" /\ err = "none"

Step ==
  \/ Starved \/ ReadLiteral \/ ReadSome \/ ReadNumber \/ SkipNumber \/ ReadString \/ SkipString
  \/ OpenArray \/ OpenObject \/ OpenVariant \/ Refuse
  \/ NextElement \/ NextKey \/ CloseArray \/ CloseObject \/ ReadColon \/ CloseVariant
  \/ ReadKey \/ KeyStarved \/ ReadIntegerKey \/ ReadBoolKey \/ GiveUp

Next == Begin \/ End \/ Step

Spec == Init /\ [][Next]_vars

-----------------------------------------------------------------------------
(* Properties *)

Frames == [kind : {"seq", "map", "variant"}, first : BOOLEAN]

\* The cursor is in the text; the brackets and what is read next agree: an
\* access is in use only inside its brackets, a key only in a map.
TypeOK ==
  /\ text \in Seq(Units) /\ index \in 0..Len(text) /\ start \in 0..index
  /\ stack \in Seq(Frames)
  /\ pc \in {"ready", "busy", "ok", "failed", "end"}
  /\ op \in {"none", "any", "ignored", "typed"}
  /\ todo = "none" <=> pc /= "busy"
  /\ pc /= "busy" => stack = <<>>
  /\ pc = "busy" =>
       \/ todo = "value" /\ (stack /= <<>> => Top.kind /= "variant" /\ ~Top.first)
       \/ todo = "item" /\ stack /= <<>> /\ Top.kind /= "variant"
       \/ todo \in {"key", "colon"} /\ stack /= <<>> /\ Top.kind = "map" /\ ~Top.first
       \/ todo \in {"name", "colon", "content", "end"} /\ stack /= <<>> /\ Top.kind = "variant"

\* The flags and calls of all the accesses in use, taken together, read the
\* text as a run of tokens under a stack of brackets: no separator, bracket,
\* colon or quote is missed or taken twice, whatever the visitors ask for.
Wanted ==
  CASE todo = "item" -> IF Top.first THEN "first" ELSE "comma"
    [] todo = "name" -> "first"
    [] todo = "end"  -> "comma"
    [] todo = "content" -> "value"
    [] OTHER -> todo
Status ==
  CASE pc = "ready" -> "rest" [] pc = "busy" -> "busy" [] pc \in {"ok", "end"} -> "complete"
    [] pc = "failed" -> "broken"
Brackets(s) == [k \in 1..Len(s) |-> CloserOf(s[k])]
Tokens == INSTANCE JsonTokens WITH
  at    <- index,
  open  <- Brackets(stack),
  want  <- Wanted,
  state <- Status
ReadsTokens == Tokens!Spec

\* The inductive invariant: what encloses an access has begun, and a key that
\* was found has its quote under the cursor.
AllBegun(s) == \A k \in 1..(Len(s) - 1) : s[k].kind /= "variant" => ~s[k].first
KeyQuoted   == todo = "key" => index < Len(text) /\ text[index + 1] = QU
IInv == TypeOK /\ AllBegun(stack) /\ KeyQuoted
=============================================================================
