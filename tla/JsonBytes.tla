------------------------------ MODULE JsonBytes ------------------------------
(***************************************************************************)
(* JSON as a machine that reads bytes one by one: what may follow, under   *)
(* the brackets still to be closed.  It knows nothing of calls.  Blanks    *)
(* between tokens are not in it: a serializer writes none.  A number or a  *)
(* literal is a run of the characters of one; JsonReference tells which    *)
(* runs are.                                                               *)
(***************************************************************************)
EXTENDS Naturals, Sequences

-----------------------------------------------------------------------------
(* UTF-8.  Behind a byte, the ranges of the bytes that must follow it.     *)

Cont    == 128..191
Refused == <<{}>>
Lead(c) ==
  CASE c \in 194..223 -> <<Cont>>
    [] c = 224 -> <<160..191, Cont>>
    [] c = 237 -> <<128..159, Cont>>
    [] c \in 225..236 \cup 238..239 -> <<Cont, Cont>>
    [] c = 240 -> <<144..191, Cont, Cont>>
    [] c \in 241..243 -> <<Cont, Cont, Cont>>
    [] c = 244 -> <<128..143, Cont, Cont>>
    [] OTHER -> Refused
Utf8(more, c) ==
  IF c < 128 THEN IF more = <<>> THEN <<>> ELSE Refused
  ELSE IF more = <<>> THEN Lead(c)
  ELSE IF c \in more[1] THEN Tail(more) ELSE Refused

Utf8Run(b) == LET f[k \in 0..Len(b)] == IF k = 0 THEN <<>> ELSE Utf8(f[k - 1], b[k]) IN f
IsUtf8(b)  == Utf8Run(b)[Len(b)] = <<>>

-----------------------------------------------------------------------------
(* JSON *)

QUOTE == 34    ESCAPE == 92
Scalars   == 48..57 \cup {43, 45, 46, 69} \cup {97, 101, 102, 108, 110, 114, 115, 116, 117}
Escapes   == {34, 92, 47, 98, 102, 110, 114, 116}
HexDigits == 48..57 \cup 65..70 \cup 97..102
NextHex   == [hex4 |-> "hex3", hex3 |-> "hex2", hex2 |-> "hex1", hex1 |-> "string"]

\* key tells whether the string being read is one, more what its last
\* character lacks.
In(q, o, key, more) == [q |-> q, open |-> o, key |-> key, more |-> more]
At(q, o) == In(q, o, FALSE, <<>>)
Bad      == At("bad", <<>>)

Last(o)  == o[Len(o)]

Value(o, c) ==
  IF c = QUOTE THEN At("string", o)
  ELSE IF c = 91 THEN At("first", Append(o, 93))
  ELSE IF c = 123 THEN At("first", Append(o, 125))
  ELSE IF c \in Scalars THEN At("scalar", o) ELSE Bad
Key(o, c)   == IF c = QUOTE THEN In("string", o, TRUE, <<>>) ELSE Bad
Close(o, c) == IF o /= <<>> /\ c = Last(o) THEN At("next", SubSeq(o, 1, Len(o) - 1)) ELSE Bad
First(o, c) == IF c = Last(o) THEN Close(o, c) ELSE IF Last(o) = 93 THEN Value(o, c) ELSE Key(o, c)
\* A value has ended; with no bracket open nothing follows.
Next(o, c)  ==
  IF o /= <<>> /\ c = 44 THEN At(IF Last(o) = 93 THEN "value" ELSE "key", o) ELSE Close(o, c)
String(s, c) ==
  IF s.more = <<>> /\ c = QUOTE THEN At(IF s.key THEN "colon" ELSE "next", s.open)
  ELSE IF s.more = <<>> /\ c = ESCAPE THEN [s EXCEPT !.q = "escape"]
  ELSE IF c < 32 \/ Utf8(s.more, c) = Refused THEN Bad
  ELSE [s EXCEPT !.more = Utf8(s.more, c)]

Read(s, c) ==
  CASE s.q = "value"  -> Value(s.open, c)
    [] s.q = "key"    -> Key(s.open, c)
    [] s.q = "first"  -> First(s.open, c)
    [] s.q = "next"   -> Next(s.open, c)
    [] s.q = "scalar" -> IF c \in Scalars THEN s ELSE Next(s.open, c)
    [] s.q = "colon"  -> IF c = 58 THEN At("value", s.open) ELSE Bad
    [] s.q = "string" -> String(s, c)
    [] s.q = "escape" -> IF c = 117 THEN [s EXCEPT !.q = "hex4"]
                         ELSE IF c \in Escapes THEN [s EXCEPT !.q = "string"] ELSE Bad
    [] s.q \in DOMAIN NextHex -> IF c \in HexDigits THEN [s EXCEPT !.q = NextHex[s.q]] ELSE Bad
    [] OTHER -> Bad

Run(s, b)   == LET f[k \in 0..Len(b)] == IF k = 0 THEN s ELSE Read(f[k - 1], b[k]) IN f
Reads(s, b) == Run(s, b)[Len(b)]

Start == At("value", <<>>)
Whole == At("next", <<>>)
=============================================================================
