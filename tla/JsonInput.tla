------------------------------ MODULE JsonInput ------------------------------
(***************************************************************************)
(* The input buffer of the JSON deserializer (ser-write-json/src/de.rs).   *)
(*                                                                         *)
(* `Deserializer` owns a mutable slice `input` and a cursor `index`.       *)
(* Strings are unescaped and byte arrays are decoded IN PLACE: the decoded *)
(* bytes overwrite the encoded ones and `split_input` hands them out with  *)
(* the lifetime of the whole buffer, while decoding goes on in the rest.   *)
(* `split_input` and the byte array decoder do this with raw pointers, so  *)
(* nothing but the arithmetic of the cursors keeps a borrowed slice from   *)
(* being overwritten later, or an unread byte from being overwritten now.  *)
(*                                                                         *)
(* Positions are absolute in the original buffer: `base` is where the      *)
(* slice `self.input` now begins and Cursor == base + index.  Every loop   *)
(* iteration of a decoder is one step.  The caller (a serde visitor) is    *)
(* free to call any operation next, and to go on after an error.           *)
(***************************************************************************)
EXTENDS Integers, Sequences

CONSTANTS
  Inputs,    \* the texts a caller may pass to from_mut_slice
  Decoders   \* the StringByteDecoder implementations in use

Byte == 0..255

ASSUME InputsAssumption == Inputs \subseteq Seq(Byte)
ASSUME DecodersAssumption == Decoders \subseteq {"bytes", "hex", "b64"}

VARIABLES
  mem,       \* the buffer, position -> byte
  orig,      \* its content before deserialization (history)
  len,       \* its length
  base,      \* position where the slice self.input begins
  index,     \* self.index
  dec,       \* the type parameter P of the Deserializer
  pc,        \* what the deserializer is executing
  op, src,   \* the last operation called and where its content begins
  seg,       \* `index` of parse_str_bytes_content, `start` of parse_array_bytes_content
  wr,        \* next position a decoder writes
  rd,        \* next position a decoder reads
  borrowed,  \* the slices handed out with lifetime 'de
  err,       \* the last error
  dirty      \* an error was swallowed by the caller (history)

buffer == <<mem, orig, len, dec>>
cursor == <<base, index>>
locals == <<seg, wr, rd>>
call   == <<op, src>>
vars   == <<mem, orig, len, base, index, dec, pc, op, src, seg, wr, rd,
            borrowed, err, dirty>>

Cursor == base + index
Pos    == 0..(len - 1)

-----------------------------------------------------------------------------
(* Characters *)

WS        == {32, 9, 10, 13}
QU        == 34
RS        == 92
UU        == 117
Control   == 0..31
Digit     == 48..57
NonWs     == Byte \ WS
NumChar   == Digit \cup {43, 45, 46, 101, 69}
Punct     == {44, 58, 91, 93, 123, 125}   \* , : [ ] { }
Comma     == 44
Equals    == 61
Open      == 91
Close     == 93
Minus     == 45
Zero      == 48

PreservedNoSlash == {QU, RS}                                         \* mutant
\* The escapes kept as they are, and the control codes of the others.
Preserved == {QU, RS, 47}
UNESCAPE  == [c \in {98, 102, 110, 114, 116} |->
                CASE c = 98 -> 8 [] c = 102 -> 12 [] c = 110 -> 10
                  [] c = 114 -> 13 [] c = 116 -> 9]

\* parse_hex_nib, parse_uuuu
IsNib(c)      == c \in Digit \cup 65..70 \cup 97..102
HexNib(c)     == IF c \in Digit THEN c - 48
                 ELSE IF c \in 65..70 THEN c - 55 ELSE c - 87
HexPairSwapped(a, b) == HexNib(a) + HexNib(b) * 16                    \* mutant
HexPair(a, b) == HexNib(a) * 16 + HexNib(b)

\* base64::get_code
B64 == [c \in 65..90 \cup 97..122 \cup Digit \cup {43, 47} |->
          CASE c \in 65..90 -> c - 65 [] c \in 97..122 -> c - 71
            [] c \in Digit -> c + 4 [] c = 43 -> 62 [] c = 47 -> 63]
IsB64(c) == c \in DOMAIN B64

\* char::from_u32(..).encode_utf8(..) for a code of four hexadecimal digits.
Surrogate     == 55296..57343
Utf8TwoBytes(code) ==                                                \* mutant
  IF code < 128 THEN <<code>> ELSE <<192 + code \div 64, 128 + (code % 64)>>
Utf8(code) ==
  IF code < 128 THEN <<code>>
  ELSE IF code < 2048 THEN <<192 + code \div 64, 128 + (code % 64)>>
  ELSE <<224 + code \div 4096, 128 + ((code \div 64) % 64), 128 + (code % 64)>>

\* core::str::from_utf8: every continuation byte belongs to the sequence of a
\* lead byte at most three bytes before it, every lead has all of its bytes,
\* and the second byte of a sequence excludes overlong forms, surrogates and
\* codes above 10FFFF.
Cont       == 128..191
Utf8Len(c) == IF c < 128 THEN 1 ELSE IF c < 224 THEN 2 ELSE IF c < 240 THEN 3 ELSE 4
Second(c)  == CASE c = 224 -> 160..191 [] c = 237 -> 128..159
                [] c = 240 -> 144..191 [] c = 244 -> 128..143 [] OTHER -> Cont
IsUtf8(m, lo, hi) ==
  \A i \in lo..(hi - 1) :
    IF m[i] \in Cont
    THEN \E k \in 1..3 : /\ i - k >= lo /\ m[i - k] \notin Cont /\ Utf8Len(m[i - k]) > k
                         /\ \A n \in 1..(k - 1) : m[i - n] \in Cont
    ELSE /\ m[i] \in 0..127 \cup 194..244
         /\ Utf8Len(m[i]) > 1 => i + 1 < hi /\ m[i + 1] \in Second(m[i])
         /\ \A k \in 2..(Utf8Len(m[i]) - 1) : i + k < hi /\ m[i + k] \in Cont

-----------------------------------------------------------------------------
(* Primitives on the buffer *)

\* The first position at or after `from` that holds a byte of S, or len when
\* there is none: a set of one element, as slice::iter().position() finds it.
Scan(m, S, from) ==
  {j \in from..len : /\ j = len \/ m[j] \in S
                     /\ \A k \in from..(j - 1) : m[k] \notin S}

CopyWithinShort(m, from, to, dest) ==                                \* mutant
  [i \in Pos |-> IF i \in dest..(dest + (to - from) - 2)
                 THEN m[i + (from - dest)] ELSE m[i]]

\* slice::copy_within(from..to, dest)
CopyWithin(m, from, to, dest) ==
  [i \in Pos |-> IF i \in dest..(dest + (to - from) - 1)
                 THEN m[i + (from - dest)] ELSE m[i]]

WriteAt(m, at, bytes) ==
  [i \in Pos |-> IF i \in at..(at + Len(bytes) - 1)
                 THEN bytes[i - at + 1] ELSE m[i]]

\* The error paths: the decoder returns and leaves the bytes it has written;
\* self.index stays where the content begins.
Fail(e) ==
  /\ pc' = "failed"
  /\ err' = e
  /\ UNCHANGED <<call, locals, borrowed, dirty>>

\* A checked operation panics; an unchecked write is undefined behaviour.
Abort(how) ==
  /\ pc' = how
  /\ UNCHANGED <<cursor, call, locals, borrowed, err, dirty>>

\* n bytes can be written at `at`.
Fits(at, n) == at + n <= len

\* split_input: lend the n bytes at `at` and restart `skip` bytes after them.
\* The checked arithmetic of the code panics when they do not fit.
NextBaseOverlap(at, n, skip) == at + skip                            \* mutant
NextBaseLong(at, n, skip) == at + n + skip + 1                       \* mutant
NextBase(at, n, skip) == at + n + skip

LoanRest(o, s, at, n) ==                                              \* mutant
  [lo |-> at + n, hi |-> len, op |-> o, src |-> s, clean |-> ~dirty]
Loan(o, s, at, n) == [lo |-> at, hi |-> at + n, op |-> o, src |-> s, clean |-> ~dirty]

SplitInput(o, s, at, n, skip) ==
  IF NextBase(at, n, skip) <= len
  THEN /\ base' = NextBase(at, n, skip)
       /\ index' = 0
       /\ borrowed' = borrowed \cup {Loan(o, s, at, n)}
       /\ pc' = "idle"
       /\ op' = o /\ src' = s
       /\ UNCHANGED <<locals, err, dirty>>
  ELSE Abort("panic")

\* The cursor moves to p and nothing else changes.
MoveTo(p) == index' = p - base /\ base' = base

-----------------------------------------------------------------------------
(* Calls: what the visitors of de::Deserializer, and the CommaSeparated    *)
(* access they are given, may ask for between two decoded values.          *)

\* The call is refused with the cursor at p.
Refuse(e, p) ==
  /\ MoveTo(p)
  /\ op' = "none" /\ src' = 0
  /\ pc' = "failed" /\ err' = e
  /\ UNCHANGED <<mem, locals, borrowed, dirty>>

\* The content of operation o begins at p; its loop begins at q.
Enter(label, o, p, q) ==
  /\ MoveTo(q)
  /\ op' = o /\ src' = p
  /\ pc' = label
  /\ seg' = q /\ wr' = q /\ rd' = q
  /\ UNCHANGED <<mem, borrowed, err, dirty>>

\* Something with no content to decode ends at p.
Ate(o, s, p) ==
  /\ MoveTo(p)
  /\ op' = o /\ src' = s
  /\ pc' = "idle"
  /\ UNCHANGED <<mem, locals, borrowed, err, dirty>>

DeserializeStr ==
  /\ pc = "idle"
  /\ \E p \in Scan(mem, NonWs, Cursor) :
       \/ p = len /\ Refuse("UnexpectedEof", Cursor)
       \/ p < len /\ mem[p] = QU /\ Enter("str", "str", p + 1, p + 1)
       \/ p < len /\ mem[p] /= QU /\ Refuse("ExpectedString", p)
  /\ UNCHANGED <<orig, len, dec>>

\* The decoder of strings into bytes is chosen by P.
DecoderLabel == CASE dec = "bytes" -> "str" [] dec = "hex" -> "hex" [] dec = "b64" -> "b64"

\* `[` and what parse_array_bytes_content does before its loop.
EnterArray(p) ==
  \E q \in Scan(mem, NonWs, p) :
    \/ q = len /\ Refuse("UnexpectedEof", p)
    \/ q < len /\ mem[q] = Close /\ SplitInput("arr", p, q, 0, 1) /\ UNCHANGED mem
    \/ q < len /\ mem[q] /= Close /\ Enter("arr", "arr", p, q)

DeserializeBytes ==
  /\ pc = "idle"
  /\ \E p \in Scan(mem, NonWs, Cursor) :
       \/ p = len /\ Refuse("UnexpectedEof", Cursor)
       \/ p < len /\ mem[p] = QU /\ Enter(DecoderLabel, dec, p + 1, p + 1)
       \/ p < len /\ mem[p] = Open /\ EnterArray(p + 1)
       \/ p < len /\ mem[p] \notin {QU, Open} /\ Refuse("UnexpectedChar", p)
  /\ UNCHANGED <<orig, len, dec>>

\* deserialize_ignored_any on a string or a number.
IgnoreScalar ==
  /\ pc = "idle"
  /\ \E p \in Scan(mem, NonWs, Cursor) :
       /\ p < len
       /\ \/ mem[p] = QU /\ Enter("skip", "skip", p + 1, p + 1)
          \/ /\ mem[p] \in Digit \cup {Minus}
             /\ \E q \in Scan(mem, Byte \ NumChar, p) : Ate("num", p, q)
  /\ UNCHANGED <<orig, len, dec>>

\* A bracket, a comma or a colon, eaten by a compound value.
EatPunct ==
  /\ pc = "idle"
  /\ \E p \in Scan(mem, NonWs, Cursor) :
       p < len /\ mem[p] \in Punct /\ Ate("none", 0, p + 1)
  /\ UNCHANGED <<orig, len, dec>>

\* Deserializer::end consumes the deserializer.
End ==
  /\ pc = "idle"
  /\ \E p \in Scan(mem, NonWs, Cursor) :
       IF p = len
       THEN pc' = "done" /\ UNCHANGED <<mem, cursor, call, locals, borrowed, err, dirty>>
       ELSE Refuse("TrailingCharacters", p)
  /\ UNCHANGED <<orig, len, dec>>

\* A visitor may drop an error (an untagged value, an Option of its own) and
\* call the deserializer again.
SwallowError ==
  /\ pc = "failed"
  /\ pc' = "idle" /\ dirty' = TRUE
  /\ op' = "none" /\ src' = 0
  /\ UNCHANGED <<buffer, cursor, locals, borrowed, err>>

-----------------------------------------------------------------------------
(* parse_str_bytes_content: between two escapes the bytes from `seg` move  *)
(* left to `wr`; the gap is what the escapes have saved so far.            *)

\* The closing quote at `end`, the segment before it having been moved.
StrQuote(m, end) ==
  LET n    == wr + (end - seg) - Cursor
      skip == (seg - wr) + 1
  IN IF op = "str" /\ ~IsUtf8(m, Cursor, Cursor + n)
     THEN /\ base' = NextBase(Cursor, n, skip) /\ index' = 0   \* split, then refused
          /\ Fail("InvalidUnicodeCodePoint")
     ELSE SplitInput(op, src, Cursor, n, skip)

\* A decoded escape is written and the segment restarts `size` bytes after
\* the backslash.
Unescaped(m, end, bytes, size) ==
  LET dest == wr + (end - seg) IN
  IF Fits(dest, Len(bytes))
  THEN /\ mem' = WriteAt(m, dest, bytes)
       /\ wr' = dest + Len(bytes)
       /\ seg' = end + size /\ rd' = end + size
       /\ UNCHANGED <<cursor, call, pc, borrowed, err, dirty>>
  ELSE Abort("panic") /\ mem' = m

\* The escaped character stays: it begins the next segment and is not
\* examined again.
KeepEscaped(m, end) ==
  /\ mem' = m
  /\ wr' = wr + (end - seg)
  /\ seg' = end + 1
  /\ rd' = end + 2
  /\ UNCHANGED <<cursor, call, pc, borrowed, err, dirty>>

StrError(m, e) == mem' = m /\ Fail(e) /\ UNCHANGED cursor

UnicodeEscape(m, end) ==
  IF end + 6 > len THEN StrError(m, "UnexpectedEof")
  ELSE IF ~ \A j \in 2..5 : IsNib(m[end + j]) THEN StrError(m, "InvalidEscapeSequence")
  ELSE LET code == HexPair(m[end + 2], m[end + 3]) * 256 + HexPair(m[end + 4], m[end + 5])
       IN IF code \in Surrogate THEN StrError(m, "InvalidUnicodeCodePoint")
          ELSE Unescaped(m, end, Utf8(code), 6)

StrEscape(m, end) ==
  \/ end + 1 = len /\ StrError(m, "UnexpectedEof")
  \/ /\ end + 1 < len
     /\ LET c == m[end + 1] IN
        \/ c \in Preserved /\ KeepEscaped(m, end)
        \/ c \in DOMAIN UNESCAPE /\ Unescaped(m, end, <<UNESCAPE[c]>>, 2)
        \/ c = UU /\ UnicodeEscape(m, end)
        \/ /\ c \notin Preserved \cup DOMAIN UNESCAPE \cup {UU}
           /\ StrError(m, "InvalidEscapeSequence")

StrStep ==
  /\ pc = "str"
  /\ \E end \in Scan(mem, Control \cup {QU, RS}, rd) :
       LET m == CopyWithin(mem, seg, end, wr) IN
       \/ end = len /\ StrError(mem, "UnexpectedEof")
       \/ end < len /\ m[end] = QU /\ mem' = m /\ StrQuote(m, end)
       \/ end < len /\ m[end] = RS /\ StrEscape(m, end)
       \/ end < len /\ m[end] \in Control /\ StrError(m, "StringControlChar")
  /\ UNCHANGED <<orig, len, dec>>

-----------------------------------------------------------------------------
(* parse_hex_bytes_content: one pair of nibbles becomes one byte.          *)

HexQuote == SplitInput(op, src, Cursor, wr - Cursor, (wr - Cursor) + 1)

HexPairStep ==
  /\ rd + 2 <= len
  /\ \/ /\ IsNib(mem[rd]) /\ IsNib(mem[rd + 1])
        /\ mem' = WriteAt(mem, wr, <<HexPair(mem[rd], mem[rd + 1])>>)
        /\ wr' = wr + 1 /\ rd' = rd + 2
        /\ UNCHANGED <<cursor, call, pc, seg, borrowed, err, dirty>>
     \/ mem[rd] = QU /\ HexQuote /\ UNCHANGED mem
     \/ /\ mem[rd] /= QU /\ ~(IsNib(mem[rd]) /\ IsNib(mem[rd + 1]))
        /\ Fail("UnexpectedChar") /\ UNCHANGED <<mem, cursor>>

HexRemainder ==
  /\ rd + 2 > len
  /\ IF rd + 1 = len /\ mem[rd] = QU
     THEN HexQuote /\ UNCHANGED mem
     ELSE Fail("UnexpectedEof") /\ UNCHANGED <<mem, cursor>>

HexStep ==
  /\ pc = "hex"
  /\ HexPairStep \/ HexRemainder
  /\ UNCHANGED <<orig, len, dec>>

-----------------------------------------------------------------------------
(* parse_base64_bytes_content and base64::decode: four codes become three  *)
(* bytes; the last one to three codes go through handle_tail.              *)

\* The codes accumulate behind a sentinel bit that counts them.
Packed(m, at, n) ==
  CASE n = 0 -> 1
    [] n = 1 -> 64 + B64[m[at]]
    [] n = 2 -> 4096 + 64 * B64[m[at]] + B64[m[at + 1]]
    [] n = 3 -> 262144 + 4096 * B64[m[at]] + 64 * B64[m[at + 1]] + B64[m[at + 2]]

Chunk(m, at) ==
  <<4 * B64[m[at]] + B64[m[at + 1]] \div 16,
    (16 * B64[m[at + 1]] + B64[m[at + 2]] \div 4) % 256,
    (64 * B64[m[at + 2]] + B64[m[at + 3]]) % 256>>

LeftoversLate(packed) ==                                             \* mutant
  IF packed <= 64 THEN 0 ELSE IF packed < 4096 THEN 1
  ELSE IF packed < 262144 THEN 2 ELSE 3
\* (31 - packed.leading_zeros()) / 6
Leftovers(packed) ==
  IF packed < 64 THEN 0 ELSE IF packed < 4096 THEN 1
  ELSE IF packed < 262144 THEN 2 ELSE 3

TailBytes(packed) ==
  LET shifted2 == packed * 16
      shifted3 == packed * 64
  IN CASE Leftovers(packed) \in {0, 1} -> <<>>
       [] Leftovers(packed) = 2 -> <<(shifted2 \div 256) % 256>>
       [] Leftovers(packed) = 3 -> <<(shifted3 \div 65536) % 256, (shifted3 \div 256) % 256>>

IsChunk(m, at) == at + 4 <= len /\ \A j \in 0..3 : IsB64(m[at + j])

B64Chunk ==
  /\ IsChunk(mem, rd)
  /\ IF Fits(wr, 3)
     THEN /\ mem' = WriteAt(mem, wr, Chunk(mem, rd))
          /\ wr' = wr + 3 /\ rd' = rd + 4
          /\ UNCHANGED <<cursor, call, pc, seg, borrowed, err, dirty>>
     ELSE Abort("ub") /\ UNCHANGED mem            \* unwrap_unchecked

\* The number of codes before the first byte that is none.
TailCount(m, at) ==
  {n \in 0..3 : /\ at + n <= len
                /\ \A j \in 0..(n - 1) : IsB64(m[at + j])
                /\ at + n = len \/ ~IsB64(m[at + n])}

\* What follows the encoded length elen, decoded into dlen bytes.
B64Close(m, dlen, elen) ==
  LET at    == Cursor + elen
      Quote(q) == SplitInput(op, src, Cursor, dlen, (q - Cursor) + 1 - dlen)
      Error(e) == Fail(e) /\ UNCHANGED cursor
  IN \/ at = len /\ Error("UnexpectedEof")
     \/ at < len /\ m[at] = QU /\ Quote(at)
     \/ at < len /\ m[at] \notin {QU, Equals} /\ Error("UnexpectedChar")
     \/ /\ at < len /\ m[at] = Equals
        /\ \E q \in Scan(m, Byte \ {Equals}, at + 1) :
             \/ q = len /\ Error("UnexpectedEof")
             \/ q < len /\ m[q] = QU /\ Quote(q)
             \/ q < len /\ m[q] /= QU /\ Error("UnexpectedChar")

B64Tail ==
  /\ ~IsChunk(mem, rd)
  /\ \E n \in TailCount(mem, rd) :
       LET packed == Packed(mem, rd, n)
           bytes  == TailBytes(packed)
           m      == WriteAt(mem, wr, bytes)
           dcount == wr - Cursor
       IN IF Fits(wr, Len(bytes))
          THEN /\ mem' = m
               /\ B64Close(m, dcount + Len(bytes), (dcount * 4) \div 3 + Leftovers(packed))
          ELSE Abort("panic") /\ UNCHANGED mem

B64Step ==
  /\ pc = "b64"
  /\ B64Chunk \/ B64Tail
  /\ UNCHANGED <<orig, len, dec>>

-----------------------------------------------------------------------------
(* parse_array_bytes_content: the numbers of a JSON array are read by the  *)
(* moving cursor, and the bytes written from `seg` on.                     *)

\* parse_positive_number::<u8> of the digits p..e-1: none when it overflows.
DigitAt(m, p)  == m[p] - Zero
U8Value(m, p, e) ==
  CASE e - p = 1 -> DigitAt(m, p)
    [] e - p = 2 -> 10 * DigitAt(m, p) + DigitAt(m, p + 1)
    [] e - p = 3 -> 100 * DigitAt(m, p) + 10 * DigitAt(m, p + 1) + DigitAt(m, p + 2)
    [] OTHER -> 256

ArrError(m, e, p) == mem' = m /\ MoveTo(p) /\ Fail(e)

ArrayDoneShort(q) == SplitInput(op, src, seg, wr - seg, (q + 1) - wr)    \* mutant
\* `]` at q: the index goes back to `seg` and the bytes are lent from there.
ArrayDone(q) == SplitInput(op, src, seg, wr + 1 - seg, (q + 1) - (wr + 1))

\* The byte is stored; then `,` or `]`.
ArrByte(byte, p) ==
  LET m == WriteAt(mem, wr, <<byte>>) IN
  IF ~Fits(wr, 1)
  THEN Abort("ub") /\ UNCHANGED mem              \* input.add(index).write(byte)
  ELSE \E q \in Scan(m, NonWs, p) :
       \/ q = len /\ ArrError(m, "UnexpectedEof", p)
       \/ /\ q < len /\ m[q] = Comma
          /\ mem' = m /\ MoveTo(q + 1)
          /\ wr' = wr + 1
          /\ UNCHANGED <<call, pc, seg, rd, borrowed, err, dirty>>
       \/ /\ q < len /\ m[q] = Close
          /\ mem' = m /\ ArrayDone(q)
       \/ q < len /\ m[q] \notin {Comma, Close} /\ ArrError(m, "UnexpectedChar", q)

ArrNumberTight(p, e) ==                                              \* mutant
  LET value == U8Value(mem, p, e)
  IN IF value >= 255 THEN ArrError(mem, "InvalidNumber", p + 1) ELSE ArrByte(value, e)
\* A number that begins with a digit from 1 to 9, whose digits end at e.
ArrNumber(p, e) ==
  LET value == U8Value(mem, p, e)
  IN IF value > 255 THEN ArrError(mem, "InvalidNumber", p + 1) ELSE ArrByte(value, e)

ArrStep ==
  /\ pc = "arr"
  /\ \E p \in Scan(mem, NonWs, Cursor) :
       \/ p = len /\ ArrError(mem, "UnexpectedEof", Cursor)
       \/ p < len /\ mem[p] = Minus /\ ArrError(mem, "InvalidNumber", p)
       \/ p < len /\ mem[p] = Zero /\ ArrByte(0, p + 1)
       \/ p < len /\ mem[p] \in Digit \ {Zero}
          /\ \E e \in Scan(mem, Byte \ Digit, p + 1) : ArrNumber(p, e)
       \/ p < len /\ mem[p] \notin Digit \cup {Minus} /\ ArrError(mem, "InvalidType", p)
  /\ UNCHANGED <<orig, len, dec>>

-----------------------------------------------------------------------------
(* eat_str_content: a quote closes the string unless an odd number of      *)
(* backslashes, counted back to `rd`, comes before it.                     *)

BackslashesOne(m, from, end) ==                                      \* mutant
  {n \in 0..1 : n = 1 <=> end > from /\ m[end - 1] = RS}
\* The number of backslashes just before `end`, down to `from`.
Backslashes(m, from, end) ==
  {n \in 0..(end - from) : /\ \A j \in 1..n : m[end - j] = RS
                           /\ n = end - from \/ m[end - n - 1] /= RS}

NextStartSame(end) == rd                                             \* mutant
NextStart(end) == end + 1

SkipStep ==
  /\ pc = "skip"
  /\ \E end \in Scan(mem, Control \cup {QU}, rd) :
       \/ end = len /\ Fail("UnexpectedEof") /\ UNCHANGED <<mem, cursor>>
       \/ /\ end < len /\ mem[end] = QU
          /\ \E n \in Backslashes(mem, rd, end) :
               IF n % 2 = 0
               THEN Ate(op, src, end + 1)
               ELSE rd' = NextStart(end)
                    /\ UNCHANGED <<mem, cursor, call, pc, seg, wr, borrowed, err, dirty>>
       \/ end < len /\ mem[end] \in Control /\ Fail("StringControlChar")
          /\ UNCHANGED <<mem, cursor>>
  /\ UNCHANGED <<orig, len, dec>>

-----------------------------------------------------------------------------

Init ==
  /\ \E s \in Inputs : /\ mem = [i \in 0..(Len(s) - 1) |-> s[i + 1]]
                       /\ len = Len(s)
  /\ orig = mem
  /\ dec \in Decoders
  /\ base = 0 /\ index = 0
  /\ pc = "idle" /\ op = "none" /\ src = 0
  /\ seg = 0 /\ wr = 0 /\ rd = 0
  /\ borrowed = {} /\ err = "none" /\ dirty = FALSE

Loop == StrStep \/ HexStep \/ B64Step \/ ArrStep \/ SkipStep

Next ==
  \/ DeserializeStr \/ DeserializeBytes \/ IgnoreScalar \/ EatPunct \/ End
  \/ SwallowError
  \/ StrStep \/ HexStep \/ B64Step \/ ArrStep \/ SkipStep

Spec == Init /\ [][Next]_vars

\* A decoder that was entered runs on the caller's thread until it returns.
FairSpec == Spec /\ WF_vars(Loop)

-----------------------------------------------------------------------------
(* Properties *)

Labels == {"str", "hex", "b64", "arr", "skip"}
Ops    == {"none", "str", "bytes", "hex", "b64", "arr", "skip", "num"}
Errors == {"none", "UnexpectedEof", "ExpectedString", "UnexpectedChar", "TrailingCharacters",
           "InvalidUnicodeCodePoint", "InvalidEscapeSequence", "StringControlChar",
           "InvalidNumber", "InvalidType"}
Loans  == [lo : Nat, hi : Nat, op : Ops, src : Nat, clean : BOOLEAN]

\* Types: the buffer keeps its length, the cursors stay inside it and every
\* stored value is a byte.
TypeOK ==
  /\ len \in Nat
  /\ mem \in [Pos -> Byte] /\ orig \in [Pos -> Byte]
  /\ base \in 0..len /\ index \in 0..len /\ Cursor \in 0..len
  /\ seg \in 0..len /\ wr \in 0..len /\ rd \in 0..len /\ src \in 0..len
  /\ dec \in Decoders
  /\ pc \in Labels \cup {"idle", "failed", "done", "panic", "ub"}
  /\ op \in Ops /\ err \in Errors /\ dirty \in BOOLEAN
  /\ borrowed \subseteq Loans

\* No text, decoder or order of calls makes split_input overflow, an index
\* go out of bounds, or one of the unchecked writes of base64::decode and
\* parse_array_bytes_content leave the buffer - after swallowed errors too.
NoPanic == pc \notin {"panic", "ub"}

\* In-place decoding never overtakes its own reading: until an error has been
\* swallowed, every byte not yet read still holds what the caller passed in.
Frontier == IF rd > Cursor THEN rd ELSE Cursor
UnreadIntact ==
  ~dirty /\ pc /= "failed" => \A i \in Pos : i >= Frontier => mem[i] = orig[i]

\* The slices lent for 'de lie in front of the slice the deserializer still
\* writes to, and no two of them share a byte: the SAFETY comment of
\* split_input, over any sequence of calls.
BorrowsDisjoint ==
  /\ \A s \in borrowed : s.lo <= s.hi /\ s.hi <= base
  /\ \A s, t \in borrowed : s /= t => s.hi <= t.lo \/ t.hi <= s.lo

\* A lent slice never changes afterwards, whatever is decoded next and even
\* when decoding goes on after an error.
BorrowsFrozen ==
  [][\A s \in borrowed : \A i \in s.lo..(s.hi - 1) : mem'[i] = mem[i]]_vars

\* The inductive invariant behind them: where the cursors of each decoder
\* stand between two iterations.
LoopOK ==
  /\ pc = "str"  => Cursor <= wr /\ wr <= seg /\ seg <= rd
  /\ pc = "hex"  => Cursor <= wr /\ rd = Cursor + 2 * (wr - Cursor)
  /\ pc = "b64"  => Cursor <= wr /\ 3 * (rd - Cursor) = 4 * (wr - Cursor)
  /\ pc = "arr"  => base <= seg /\ seg <= wr /\ wr <= Cursor /\ rd <= Cursor
  /\ pc = "skip" => Cursor <= rd
  /\ pc \in {"idle", "done"} /\ ~dirty => rd <= Cursor
IInv == TypeOK /\ NoPanic /\ LoopOK /\ UnreadIntact /\ BorrowsDisjoint

=============================================================================
