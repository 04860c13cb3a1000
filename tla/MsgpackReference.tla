--------------------------- MODULE MsgpackReference ---------------------------
(***************************************************************************)
(* MessagePack according to its format specification, read by recursive    *)
(* descent from a sequence of bytes s: where the message at position p      *)
(* ends, and the heads it is made of.                                       *)
(***************************************************************************)
EXTENDS MsgpackHeads

CONSTANT Radix   \* values of one byte of a length or a number

RECURSIVE Big(_, _, _)
Big(s, p, k) == IF k = 0 THEN 0 ELSE Radix * Big(s, p, k - 1) + (s[p + k] % Radix)

Ends(s, p) == IF p > Len(s) THEN Truncated ELSE p
RECURSIVE MessageEnd(_, _), MessagesEnd(_, _, _)
MessageEnd(s, p) ==
  IF p >= Len(s) THEN Truncated
  ELSE LET c == s[p + 1] IN
       IF c = RESERVED THEN Reserved
       ELSE IF c \in FixArray THEN MessagesEnd(s, p + 1, c - 144)
       ELSE IF c \in FixMap THEN MessagesEnd(s, p + 1, 2 * (c - 128))
       ELSE IF c \notin Long \cup Many THEN Ends(s, p + SizeOf(c))
       ELSE LET h == HeadOf(c) IN
            IF p + h[1] > Len(s) THEN Truncated
            ELSE LET n == Big(s, p + 1, h[2]) IN
                 IF c \in Long THEN Ends(s, p + h[1] + h[3] + n)
                 ELSE MessagesEnd(s, p + h[1], IF c \in {MAP_16, MAP_32} THEN 2 * n ELSE n)
MessagesEnd(s, p, n) ==
  IF n = 0 THEN p
  ELSE LET q == MessageEnd(s, p) IN IF q < 0 THEN q ELSE MessagesEnd(s, q, n - 1)

\* What the head at p says: a kind, and a number, size or count.
CountOf(s, p, short) ==
  LET c == s[p + 1] IN IF c \in Long \cup Many THEN Big(s, p + 1, HeadOf(c)[2]) ELSE c - short
TwosComplement(n, k) == IF 2 * n >= Radix ^ k THEN n - Radix ^ k ELSE n
HeadAt(s, p) ==
  LET c == s[p + 1] IN
  CASE c \in PosFixInt      -> <<"number", c>>
    [] c \in UINT_8..UINT_64 -> <<"number", Big(s, p + 1, SizeOf(c) - 1)>>
    [] c \in INT_8..INT_64   -> LET k == SizeOf(c) - 1
                               IN <<"number", TwosComplement(Big(s, p + 1, k), k)>>
    [] c \in NegFixInt      -> <<"number", c - 256>>
    [] c \in Str            -> <<"str", CountOf(s, p, 160)>>
    [] c \in BinLong        -> <<"bin", CountOf(s, p, 0)>>
    [] c \in Array          -> <<"array", CountOf(s, p, 144)>>
    [] c \in Map            -> <<"map", CountOf(s, p, 128)>>
    [] OTHER                -> <<"scalar", c>>

\* Where the next head begins.
NextHead(s, p) ==
  LET c == s[p + 1] IN
  IF c \in Array \cup Map
  THEN p + (IF c \in Many THEN HeadOf(c)[1] ELSE 1)
  ELSE MessageEnd(s, p)

\* The heads from p to the end of s, in order.
RECURSIVE HeadsFrom(_, _)
HeadsFrom(s, p) ==
  IF p >= Len(s) THEN <<>> ELSE <<HeadAt(s, p)>> \o HeadsFrom(s, NextHead(s, p))
=============================================================================
