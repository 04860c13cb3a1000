------------------------------ MODULE JsonContent ------------------------------
(***************************************************************************)
(* What the content of a JSON string, of a hexadecimal or Base-64 string   *)
(* and of an array of bytes denotes, read from the untouched text, and the *)
(* properties that compare JsonInput with it.                              *)
(*                                                                         *)
(* A text t is a function from its positions, with Eof at the last.  The   *)
(* content at a position denotes bytes and ends at a position, or it       *)
(* denotes nothing.                                                        *)
(***************************************************************************)
EXTENDS JsonInput

Eof  == 256
Text == [i \in 0..len |-> IF i < len THEN orig[i] ELSE Eof]

Failure            == [ok |-> FALSE, bytes |-> <<>>, end |-> 0]
Result(bytes, end) == [ok |-> TRUE, bytes |-> bytes, end |-> end]
Before(bytes, r)   == IF r.ok THEN Result(bytes \o r.bytes, r.end) ELSE r

\* Content is a chain of units: one denotes bytes and there is more at next, or
\* it is the last, or it is bad.
More(bytes, next) == [kind |-> "more", bytes |-> bytes, next |-> next]
Last(bytes, next) == [kind |-> "last", bytes |-> bytes, next |-> next]
Bad               == [kind |-> "bad", bytes |-> <<>>, next |-> 0]

\* What the content at i denotes, when f says it of the positions behind it.
Denoted(f, unit, i) ==
  CASE unit[i].kind = "last" -> Result(unit[i].bytes, unit[i].next)
    [] unit[i].kind = "more" -> Before(unit[i].bytes, f[unit[i].next])
    [] unit[i].kind = "bad"  -> Failure
Chain(unit) == LET value[i \in DOMAIN unit] == Denoted(value, unit, i) IN value

\* The first position from i on with a character that is not in S.
Past(t, S, i) ==
  CHOOSE j \in DOMAIN t : i <= j /\ t[j] \notin S /\ \A k \in i..(j - 1) : t[k] \in S

-----------------------------------------------------------------------------
(* Strings *)

Escapes  == {<<34, 34>>, <<92, 92>>, <<47, 47>>, <<98, 8>>, <<102, 12>>, <<110, 10>>,
             <<114, 13>>, <<116, 9>>}
EscapeOf == [c \in {e[1] : e \in Escapes} |-> (CHOOSE e \in Escapes : e[1] = c)[2]]

\* A digit, or a letter of either case.
NibbleChars(k) == IF k < 10 THEN {48 + k} ELSE {55 + k, 87 + k}
Nibbles        == UNION {NibbleChars(k) : k \in 0..15}
NibbleOf       == [c \in Nibbles |-> CHOOSE k \in 0..15 : c \in NibbleChars(k)]

HexDigits(t, i, n) == \A k \in i..(i + n - 1) : k \in DOMAIN t /\ t[k] \in Nibbles
HexValue(t, i)     == 16 * NibbleOf[t[i]] + NibbleOf[t[i + 1]]
CodePoint(t, i)    == 256 * HexValue(t, i) + HexValue(t, i + 2)

EscapeUnit(t, i) ==
  CASE t[i + 1] \in DOMAIN EscapeOf -> More(<<EscapeOf[t[i + 1]]>>, i + 2)
    [] t[i + 1] = UU /\ HexDigits(t, i + 2, 4) /\ CodePoint(t, i + 2) \notin Surrogate
         -> More(Utf8(CodePoint(t, i + 2)), i + 6)
    [] OTHER -> Bad

StringUnits(t) == [i \in DOMAIN t |->
  CASE t[i] = QU -> Last(<<>>, i + 1)
    [] t[i] = RS -> EscapeUnit(t, i)
    [] t[i] \in Control \cup {Eof} -> Bad
    [] OTHER -> More(<<t[i]>>, i + 1)]

\* The string as it stands, escapes looked at for the quote only.
SkipUnits(t) == [i \in DOMAIN t |->
  CASE t[i] = QU -> Last(<<>>, i + 1)
    [] t[i] = RS -> IF t[i + 1] \in Control \cup {Eof} THEN Bad ELSE More(<<>>, i + 2)
    [] t[i] \in Control \cup {Eof} -> Bad
    [] OTHER -> More(<<>>, i + 1)]

Valid(r) == IF r.ok /\ ~IsUtf8(r.bytes, 1, Len(r.bytes) + 1) THEN Failure ELSE r

-----------------------------------------------------------------------------
(* Bytes *)

HexUnits(t) == [i \in DOMAIN t |->
  CASE t[i] = QU -> Last(<<>>, i + 1)
    [] HexDigits(t, i, 2) -> More(<<HexValue(t, i)>>, i + 2)
    [] OTHER -> Bad]

\* The character of each code of Base-64.
Alphabet == [k \in 0..63 |-> CASE k < 26 -> 65 + k [] k \in 26..51 -> 71 + k
                               [] k \in 52..61 -> k - 4 [] k = 62 -> 43 [] k = 63 -> 47]
Codes    == {Alphabet[k] : k \in 0..63}
CodeOf   == [c \in Codes |-> CHOOSE k \in 0..63 : Alphabet[k] = c]

\* Base-64 as a string of bits: the whole bytes the six-bit codes hold, the
\* rest of a code dropped; any number of `=` may follow.
Weight       == [k \in 0..5 |-> CASE k = 0 -> 32 [] k = 1 -> 16 [] k = 2 -> 8 [] k = 3 -> 4
                                  [] k = 4 -> 2 [] k = 5 -> 1]
Bit(t, i, k) == (CodeOf[t[i + (k \div 6)]] \div Weight[k % 6]) % 2
Octet(t, i, k) ==
  128 * Bit(t, i, k) + 64 * Bit(t, i, k + 1) + 32 * Bit(t, i, k + 2) + 16 * Bit(t, i, k + 3)
  + 8 * Bit(t, i, k + 4) + 4 * Bit(t, i, k + 5) + 2 * Bit(t, i, k + 6) + Bit(t, i, k + 7)
Base64(t, i) ==
  LET n == Past(t, Codes, i) - i
      q == Past(t, {Equals}, i + n)
  IN IF t[q] = QU
     THEN Result([j \in 1..((6 * n) \div 8) |-> Octet(t, i, 8 * (j - 1))], q + 1)
     ELSE Failure

\* The number of the digits from p to e - 1.
Decimal(t, p, e) ==
  LET value[k \in p..e] == IF k = p THEN 0 ELSE 10 * value[k - 1] + (t[k - 1] - Zero)
  IN value[e]

NumberUnits(t) == [i \in DOMAIN t |->
  LET p == Past(t, WS, i)
      e == Past(t, Digit, p)
      q == Past(t, WS, e)
      v == Decimal(t, p, e)
  IN IF e = p \/ (t[p] = Zero /\ e > p + 1) \/ v > 255 THEN Bad
     ELSE CASE t[q] = Comma -> More(<<v>>, q + 1)
            [] t[q] = Close -> Last(<<v>>, q + 1)
            [] OTHER -> Bad]

Array(t, i) ==
  LET p == Past(t, WS, i)
  IN IF t[p] = Close THEN Result(<<>>, p + 1) ELSE Chain(NumberUnits(t))[i]

\* What operation o makes of the content at position at.
Reference(t, o, at) ==
  CASE o = "bytes" -> Chain(StringUnits(t))[at]
    [] o = "str"   -> Valid(Chain(StringUnits(t))[at])
    [] o = "hex"   -> Chain(HexUnits(t))[at]
    [] o = "b64"   -> Base64(t, at)
    [] o = "arr"   -> Array(t, at)
    [] o = "skip"  -> Chain(SkipUnits(t))[at]

Decoding == {"bytes", "str", "hex", "b64", "arr"}

-----------------------------------------------------------------------------
(* Properties *)

Bytes(m, lo, hi) == [k \in 1..(hi - lo) |-> m[lo + k - 1]]

\* A value decoded before any error holds the bytes its text denotes, and the
\* deserializer goes on right after it.
DecodedRight ==
  /\ \A s \in borrowed : s.clean =>
       LET r == Reference(Text, s.op, s.src) IN r.ok /\ r.bytes = Bytes(mem, s.lo, s.hi)
  /\ pc = "idle" /\ ~dirty /\ op \in Decoding => Cursor = Reference(Text, op, src).end

\* An error is returned only for a text that denotes no value.
RejectsRight ==
  pc = "failed" /\ ~dirty /\ op \in Decoding => ~Reference(Text, op, src).ok

\* A string that is ignored ends where it would end if it were decoded.
SkipsSameString ==
  pc \in {"idle", "failed"} /\ ~dirty /\ op = "skip" =>
    LET skipped == Reference(Text, "skip", src)
        decoded == Reference(Text, "bytes", src)
    IN /\ pc = "idle"   => Cursor = skipped.end
       /\ pc = "failed" => ~skipped.ok
       /\ decoded.ok => pc = "idle" /\ Cursor = decoded.end
=============================================================================
