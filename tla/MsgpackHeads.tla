----------------------------- MODULE MsgpackHeads -----------------------------
(***************************************************************************)
(* MessagePack according to its format specification, read head by head    *)
(* from a sequence of bytes s: a head takes some bytes and announces how   *)
(* many messages follow it as its parts.  A byte of a length has r values. *)
(***************************************************************************)
EXTENDS MsgpackFormat, Sequences

Truncated == -1
Reserved  == -2

\* The whole size of a message whose code fixes it.
SizeOf(c) ==
  CASE c \in {UINT_8, INT_8} -> 2    [] c \in {UINT_16, INT_16} -> 3
    [] c \in {UINT_32, INT_32, FLOAT_32} -> 5
    [] c \in {UINT_64, INT_64, FLOAT_64} -> 9
    [] c = FIXEXT_1 -> 3 [] c = FIXEXT_2 -> 4 [] c = FIXEXT_4 -> 6
    [] c = FIXEXT_8 -> 10 [] c = FIXEXT_16 -> 18
    [] c \in FixStr -> 1 + (c - 160)
    [] OTHER -> 1

\* The size of the head of a message with a length field, that of the field,
\* and what stands between the head and the bytes counted.
HeadOf(c) ==
  CASE c \in {BIN_8, STR_8} -> <<2, 1, 0>>    [] c \in {BIN_16, STR_16} -> <<3, 2, 0>>
    [] c \in {BIN_32, STR_32} -> <<5, 4, 0>>  [] c = EXT_8 -> <<2, 1, 1>>
    [] c = EXT_16 -> <<3, 2, 1>>              [] c = EXT_32 -> <<5, 4, 1>>
    [] c \in {ARRAY_16, MAP_16} -> <<3, 2, 0>> [] c \in {ARRAY_32, MAP_32} -> <<5, 4, 0>>
Long == {BIN_8, STR_8, BIN_16, STR_16, BIN_32, STR_32, EXT_8, EXT_16, EXT_32}
Many == {ARRAY_16, MAP_16, ARRAY_32, MAP_32}

\* The number that k bytes behind position p stand for.
Field(r, s, p, k) ==
  CASE k = 1 -> s[p + 1] % r
    [] k = 2 -> r * (s[p + 1] % r) + (s[p + 2] % r)
    [] k = 4 -> r * r * r * (s[p + 1] % r) + r * r * (s[p + 2] % r) + r * (s[p + 3] % r)
                + (s[p + 4] % r)

\* The head at p, and the bytes that go with it: where the next head begins and
\* how many messages are announced, or why there is none.
NoHead(why) == [ok |-> FALSE, next |-> why, more |-> 0]
Takes(s, q, more) == IF q > Len(s) THEN NoHead(Truncated) ELSE [ok |-> TRUE, next |-> q, more |-> more]
LongHead(r, s, p, c) ==
  LET h == HeadOf(c)
      n == Field(r, s, p + 1, h[2])
  IN IF p + h[1] > Len(s) THEN NoHead(Truncated)
     ELSE IF c \in Long THEN Takes(s, p + h[1] + h[3] + n, 0)
     ELSE Takes(s, p + h[1], IF c \in {MAP_16, MAP_32} THEN 2 * n ELSE n)
Lead(r, s, p) ==
  IF p >= Len(s) THEN NoHead(Truncated)
  ELSE LET c == s[p + 1] IN
       IF c = RESERVED THEN NoHead(Reserved)
       ELSE IF c \in FixArray THEN Takes(s, p + 1, c - 144)
       ELSE IF c \in FixMap THEN Takes(s, p + 1, 2 * (c - 128))
       ELSE IF c \in Long \cup Many THEN LongHead(r, s, p, c)
       ELSE Takes(s, p + SizeOf(c), 0)

\* Where n messages end that begin at p, when f says it of the positions behind.
Onward(f, r, s, p) ==
  [n \in Nat |->
     LET h == Lead(r, s, p) IN
     IF n = 0 THEN p ELSE IF h.ok THEN f[h.next][n - 1 + h.more] ELSE h.next]
Runs(r, s) == LET ends[p \in 0..Len(s)] == Onward(ends, r, s, p) IN ends

\* Where n messages end that begin at p, none of them deeper than the others.
RunEnd(r, s, p, n) ==
  IF n = 0 THEN p ELSE IF p > Len(s) THEN Truncated ELSE Runs(r, s)[p][n]
=============================================================================
