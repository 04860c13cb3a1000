------------------------------ MODULE JsonNumber ------------------------------
(***************************************************************************)
(* Integers in JSON: the loops of serialize_unsigned! and                  *)
(* serialize_signed! (ser-write-json/src/ser.rs), which fill a buffer from *)
(* its end, and parse_unsigned and parse_signed (de.rs), which add up      *)
(* digits with checked arithmetic.  One step is one turn of a loop.        *)
(*                                                                         *)
(* The program is Base = 10 with types of 8 to 64 bits, and buffers as     *)
(* long as the longest number of 32 or 64 bits.                            *)
(***************************************************************************)
EXTENDS IntegerTypes, Integers, Sequences

CONSTANTS
  Base,    \* 10
  Half,    \* of each width, half of the values of a type
  Size,    \* $N: of u32, i32, u64 and i64
  Texts    \* what a caller may have to parse

Bits == [u8 |-> 8, u16 |-> 16, u32 |-> 32, u64 |-> 64, i8 |-> 8, i16 |-> 16, i32 |-> 32, i64 |-> 64]
MIN(t) == IF t \in Signed THEN -Half[Bits[t]] ELSE 0
MAX(t) == IF t \in Signed THEN Half[Bits[t]] - 1 ELSE 2 * Half[Bits[t]] - 1
Has(t, x) == MIN(t) <= x /\ x <= MAX(t)

\* A character is the digit it stands for, or one of these; Unset is a byte of
\* the buffer that was not written yet.
Digit == 0..(Base - 1)
Minus == -1
Other == -2
Unset == -3

\* The number that n digits make behind x, and the least with more than n digits.
Horner(x, d, n) == LET f[k \in 0..n] == IF k = 0 THEN x ELSE Base * f[k - 1] + d[k] IN f[n]
Least(n) == Horner(1, [k \in 1..n |-> 0], n)

\* A digit fits in every type, wider types have more values, and a buffer is as
\* long as the longest number.
ASSUME BaseAssumption == Base \in Nat \ {0, 1}
ASSUME HalfAssumption ==
  /\ Half \in [{8, 16, 32, 64} -> Nat]
  /\ Base <= Half[8] /\ Half[8] <= Half[16] /\ Half[16] <= Half[32] /\ Half[32] <= Half[64]
ASSUME SizeAssumption ==
  /\ Size \in [{"u32", "i32", "u64", "i64"} -> Nat \ {0}]
  /\ \A t \in {"u32", "u64"} : MAX(t) < Least(Size[t])
  /\ \A t \in {"i32", "i64"} : -MIN(t) < Least(Size[t] - 1)
ASSUME TextAssumption == Texts \subseteq Seq(Digit \cup {Minus, Other})

VARIABLES
  phase,    \* "ready", "writing", "written", "text", "reading", "panic" or how parsing ended
  source,   \* the type of the number being written
  value,    \* the number (history)
  v, i,     \* what is left of it; where its next digit goes
  buf,      \* the buffer
  text,     \* what was written, or given, and is to be parsed
  target,   \* the type it is parsed as
  sum, pos, \* the number read so far; the digits read by the loop
  at        \* self.index

jvars == <<phase, source, value, v, i, buf, text, target, sum, pos, at>>

-----------------------------------------------------------------------------
(* Serializing *)

\* serialize_i8 and serialize_i16 are those of i32, and so on.
Wide(t) == CASE t \in {"u8", "u16", "u32"} -> "u32" [] t \in {"i8", "i16", "i32"} -> "i32"
             [] OTHER -> t

\* The magnitude of a number, which its own type may not have.
Magnitude(t, x) == IF x = MIN(t) /\ x < 0 THEN MAX(t) + 1 ELSE IF x < 0 THEN -x ELSE x

Serialize ==
  /\ phase = "ready"
  /\ \E t \in Types : \E x \in MIN(t)..MAX(t) :
       LET last == Size[Wide(t)] - 1 IN
       /\ source' = t /\ value' = x
       /\ v' = Magnitude(Wide(t), x)
       /\ i' = last /\ buf' = [k \in 0..last |-> Unset]
  /\ phase' = "writing"
  /\ UNCHANGED <<text, target, sum, pos, at>>

\* The signed loop moves on before it looks whether it is done, the other
\* after; i -= 1 overflows at zero.
MovesLikeUnsigned == v \div Base /= 0                                \* mutant
Moves == source \in Signed \/ v \div Base /= 0
WriteDigit ==
  /\ phase = "writing"
  /\ buf' = [buf EXCEPT ![i] = v % Base]
  /\ v' = v \div Base
  /\ IF Moves /\ i = 0 THEN phase' = "panic" /\ i' = i
     ELSE /\ i' = IF Moves THEN i - 1 ELSE i
          /\ phase' = IF v \div Base = 0 THEN "written" ELSE phase
  /\ UNCHANGED <<source, value, text, target, sum, pos, at>>

From(b, k) == [j \in 1..(Size[Wide(source)] - k) |-> b[k + j - 1]]
\* The sign, and &buf[i..].
WriteNumber ==
  /\ phase = "written"
  /\ text' = IF source \in Unsigned THEN From(buf, i)
             ELSE IF value < 0 THEN From([buf EXCEPT ![i] = Minus], i)
             ELSE From(buf, i + 1)
  /\ phase' = "text"
  /\ UNCHANGED <<source, value, v, i, buf, target, sum, pos, at>>

\* A text from elsewhere.
Give ==
  /\ phase = "ready"
  /\ text' \in Texts /\ phase' = "text"
  /\ UNCHANGED <<source, value, v, i, buf, target, sum, pos, at>>

-----------------------------------------------------------------------------
(* Parsing *)

Negative(s) == s /= <<>> /\ s[1] = Minus
IsDigitAt(p) == p < Len(text) /\ text[p + 1] \in Digit
Parsed(how, p, x) == phase' = how /\ at' = p /\ sum' = x

\* What comes before the loops, behind the sign if there is one.
FirstDigit(p, minus) ==
  \/ p = Len(text) /\ Parsed("UnexpectedEof", p, 0)
  \/ p < Len(text) /\ ~IsDigitAt(p) /\ Parsed("InvalidType", p, 0)
  \/ IsDigitAt(p) /\ text[p + 1] = 0 /\ Parsed("ok", p + 1, 0)
  \/ IsDigitAt(p) /\ text[p + 1] /= 0
     /\ Parsed("reading", p + 1, IF minus THEN -text[p + 1] ELSE text[p + 1])

Parse ==
  /\ phase = "text"
  /\ \E t \in Types :
       LET minus == Negative(text) IN
       /\ target' = t
       /\ \/ minus /\ t \in Unsigned /\ Parsed("InvalidNumber", 0, 0)
          \/ minus /\ t \in Signed /\ FirstDigit(1, TRUE)
          \/ ~minus /\ FirstDigit(0, FALSE)
  /\ pos' = 0
  /\ UNCHANGED <<source, value, v, i, buf, text>>

\* checked_mul_ten, then checked_add or checked_sub; an overflow leaves the
\* cursor where the loop began.
Times == Base * sum
PlusOnly == Times + text[at + pos + 1]                               \* mutant
Plus     == IF text[1] = Minus THEN Times - text[at + pos + 1] ELSE Times + text[at + pos + 1]
ReadDigit ==
  /\ phase = "reading"
  /\ \/ ~IsDigitAt(at + pos) /\ Parsed("ok", at + pos, sum) /\ pos' = pos
     \/ /\ IsDigitAt(at + pos)
        /\ IF Has(target, Times) /\ Has(target, Plus)
           THEN sum' = Plus /\ pos' = pos + 1 /\ UNCHANGED <<phase, at>>
           ELSE Parsed("InvalidNumber", at, sum) /\ pos' = pos
  /\ UNCHANGED <<source, value, v, i, buf, text, target>>

JsonInit ==
  /\ phase = "ready" /\ source = "none" /\ target = "none" /\ value = 0
  /\ v = 0 /\ i = 0 /\ buf = [k \in {} |-> 0] /\ text = <<>>
  /\ sum = 0 /\ pos = 0 /\ at = 0

JsonNext == Serialize \/ WriteDigit \/ WriteNumber \/ Give \/ Parse \/ ReadDigit

JsonSpec == JsonInit /\ [][JsonNext]_jvars

-----------------------------------------------------------------------------
(* Properties *)

\* What is behind the sign, if there is one.
Figures(s) == IF Negative(s) THEN Tail(s) ELSE s

\* The first n of these are what JSON takes for an integer: a zero, or digits
\* that begin with another.
IsInteger(d, n) == n > 0 /\ (\A k \in 1..n : d[k] \in Digit) /\ (d[1] = 0 => n = 1)

\* The loops fill their buffers without leaving them, and what they hand to the
\* sink is the number in decimal, with no byte that was not written.
WrittenExact ==
  /\ phase /= "panic"
  /\ phase = "text" /\ source /= "none" =>
       LET d == Figures(text) IN
       /\ IsInteger(d, Len(d)) /\ (Negative(text) <=> value < 0)
       /\ Horner(0, d, Len(d)) = IF value < 0 THEN -value ELSE value

\* As many digits as make an integer are read, not one more, and the result is
\* their number, or InvalidNumber if the type does not have it.
ReadExact ==
  phase \in {"ok", "InvalidNumber", "InvalidType", "UnexpectedEof"} =>
    LET d    == Figures(text)
        Ends == {n \in 1..Len(d) : IsInteger(d, n)}
    IN IF Ends = {} THEN phase /= "ok"
       ELSE LET end == CHOOSE k \in Ends : \A j \in Ends : j <= k
                x   == IF Negative(text) THEN -Horner(0, d, end) ELSE Horner(0, d, end)
            IN IF phase = "ok"
               THEN sum = x /\ at = end + (Len(text) - Len(d)) /\ Has(target, x)
               ELSE /\ phase = "InvalidNumber"
                    /\ ~Has(target, x) \/ (target \in Unsigned /\ Negative(text))

\* JSON numbers are written and read exactly.
Exact == WrittenExact /\ ReadExact
=============================================================================
