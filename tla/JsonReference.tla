---------------------------- MODULE JsonReference ----------------------------
(* A JSON text read by recursive descent, with no regard to how it came to  *)
(* be: where the value at p ends and the events of reading it.  A text that *)
(* may still become a value is Truncated, any other is Bad.                 *)
EXTENDS Integers, Sequences

Truncated == -1
Bad       == -2
Stop(end) == [end |-> end, events |-> <<>>]
Found(end, events) == [end |-> end, events |-> events]
Before(events, r) == [r EXCEPT !.events = events \o @]

Tokens  == {<<110, 117, 108, 108>>, <<116, 114, 117, 101>>, <<102, 97, 108, 115, 101>>}
Digit   == 48..57
Unescape == [c \in {34, 92, 47, 98, 102, 110, 114, 116} |->
               CASE c = 98 -> 8 [] c = 102 -> 12 [] c = 110 -> 10 [] c = 114 -> 13 [] c = 116 -> 9
                 [] OTHER -> c]
HexValue == [c \in Digit \cup 65..70 |-> IF c \in Digit THEN c - 48 ELSE c - 55]

Least(a, b) == IF a < b THEN a ELSE b

\* Characters up to the closing quote, decoded.
RECURSIVE String(_, _, _)
String(s, p, read) ==
  IF p >= Len(s) THEN Stop(Truncated)
  ELSE LET c == s[p + 1] IN
  IF c = 34 THEN Found(p + 1, <<<<"str", read>>>>)
  ELSE IF c < 32 THEN Stop(Bad)
  ELSE IF c /= 92 THEN String(s, p + 1, Append(read, c))
  ELSE IF p + 1 >= Len(s) THEN Stop(Truncated)
  ELSE IF s[p + 2] \in DOMAIN Unescape THEN String(s, p + 2, Append(read, Unescape[s[p + 2]]))
  ELSE IF s[p + 2] /= 117 \/ \E k \in (p + 3)..Least(p + 6, Len(s)) : s[k] \notin DOMAIN HexValue
  THEN Stop(Bad)
  ELSE IF p + 6 > Len(s) THEN Stop(Truncated)
  ELSE LET code == HexValue[s[p + 5]] * 16 + HexValue[s[p + 6]] IN
       IF s[p + 3] /= 48 \/ s[p + 4] /= 48 \/ code > 127 THEN Stop(Bad)
       ELSE String(s, p + 6, Append(read, code))

\* null, true, false
Token(s, p) ==
  LET Agrees(t) == \A k \in 1..Least(Len(t), Len(s) - p) : s[p + k] = t[k]
  IN IF ~\E t \in Tokens : Agrees(t) THEN Stop(Bad)
     ELSE LET t == CHOOSE t \in Tokens : Agrees(t)
          IN IF p + Len(t) > Len(s) THEN Stop(Truncated) ELSE Found(p + Len(t), <<<<"atom", t>>>>)

RECURSIVE DigitsEnd(_, _)
DigitsEnd(s, p) == IF p < Len(s) /\ s[p + 1] \in Digit THEN DigitsEnd(s, p + 1) ELSE p
\* An integer, with no zero before it.
Number(s, p) ==
  LET q == IF s[p + 1] = 45 THEN p + 1 ELSE p
      e == DigitsEnd(s, q)
  IN IF q >= Len(s) THEN Stop(Truncated)
     ELSE IF e = q \/ (s[q + 1] = 48 /\ e > q + 1) THEN Stop(Bad)
     ELSE Found(e, <<<<"atom", SubSeq(s, p + 1, e)>>>>)

\* A list or a map: items with commas between them.
RECURSIVE Value(_, _), Items(_, _, _, _), Member(_, _)
Value(s, p) ==
  IF p >= Len(s) THEN Stop(Truncated)
  ELSE LET c == s[p + 1] IN
  CASE c = 34  -> String(s, p + 1, <<>>)
    [] c = 91  -> Before(<<<<"begin", "list">>>>, Items(s, p + 1, 93, TRUE))
    [] c = 123 -> Before(<<<<"begin", "map">>>>, Items(s, p + 1, 125, TRUE))
    [] c = 45 \/ c \in Digit -> Number(s, p)
    [] OTHER   -> Token(s, p)

Items(s, p, closer, first) ==
  IF p >= Len(s) THEN Stop(Truncated)
  ELSE IF s[p + 1] = closer THEN Found(p + 1, <<<<"end", closer>>>>)
  ELSE IF ~first /\ s[p + 1] /= 44 THEN Stop(Bad)
  ELSE LET from == IF first THEN p ELSE p + 1
           r == IF closer = 93 THEN Value(s, from) ELSE Member(s, from)
       IN IF r.end < 0 THEN r ELSE Before(r.events, Items(s, r.end, closer, FALSE))

\* A key, which is a string, a colon and a value.
Member(s, p) ==
  IF p >= Len(s) THEN Stop(Truncated)
  ELSE IF s[p + 1] /= 34 THEN Stop(Bad)
  ELSE LET key == String(s, p + 1, <<>>) IN
  IF key.end < 0 THEN key
  ELSE IF key.end >= Len(s) THEN Stop(Truncated)
  ELSE IF s[key.end + 1] /= 58 THEN Stop(Bad)
  ELSE Before(key.events, Value(s, key.end + 1))

-----------------------------------------------------------------------------
(* The numbers and bytes a text stands for *)

DecimalValue(t) ==
  LET value[k \in 0..Len(t)] == IF k = 0 THEN 0 ELSE 10 * value[k - 1] + t[k] - 48
  IN value[Len(t)]

HexBytes(t) == [k \in 1..(Len(t) \div 2) |-> HexValue[t[2 * k - 1]] * 16 + HexValue[t[2 * k]]]

Alphabet == <<65,66,67,68,69,70,71,72,73,74,75,76,77,78,79,80,81,82,83,84,85,86,87,88,89,90,
              97,98,99,100,101,102,103,104,105,106,107,108,109,110,111,112,113,114,115,116,
              117,118,119,120,121,122,48,49,50,51,52,53,54,55,56,57,43,47>>
\* As a string of bits; those that do not fill a byte are zero.
Base64Bits(t) ==
  [k \in 1..(6 * Len(t)) |->
     LET code == (CHOOSE n \in 1..64 : Alphabet[n] = t[(k - 1) \div 6 + 1]) - 1
     IN (code \div 2 ^ (5 - ((k - 1) % 6))) % 2]
Base64Bytes(t) ==
  LET bits == Base64Bits(t) IN
  [k \in 1..((6 * Len(t)) \div 8) |->
     LET bit(j) == bits[8 * (k - 1) + j + 1] IN
     128 * bit(0) + 64 * bit(1) + 32 * bit(2) + 16 * bit(3) + 8 * bit(4) + 4 * bit(5)
     + 2 * bit(6) + bit(7)]
Base64Padded(t) == \A k \in (8 * Len(Base64Bytes(t)) + 1)..(6 * Len(t)) : Base64Bits(t)[k] = 0
=============================================================================
