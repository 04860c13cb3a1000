------------------------------ MODULE MsgpackInt ------------------------------
(***************************************************************************)
(* Integers in MessagePack: which code each serialize_* of ser.rs writes,  *)
(* and what parse_integer of de.rs makes of it.  A byte of a number has    *)
(* Radix values; the program is Radix = 256 with fixints -32..127.         *)
(***************************************************************************)
EXTENDS MsgpackFormat, IntegerTypes, Sequences

CONSTANTS
  Radix,         \* values of a byte of a number or a length
  MinNegFixInt   \* MIN_NEGFIXINT

\* The positive fixints are the positive values of i8: serialize_i8 relies on it.
MaxPosFixInt == (Radix \div 2) - 1

ASSUME RadixAssumption  == Radix \in 2..256 /\ Radix % 2 = 0
ASSUME FixIntAssumption == MinNegFixInt \in (-32)..(-1) /\ MinNegFixInt >= -(Radix \div 2)

Power == [k \in {1, 2, 4, 8} |->
            LET square == Radix * Radix IN
            CASE k = 1 -> Radix [] k = 2 -> square [] k = 4 -> square * square
              [] k = 8 -> square * square * square * square]
Width == [u8 |-> 1, u16 |-> 2, u32 |-> 4, u64 |-> 8, i8 |-> 1, i16 |-> 2, i32 |-> 4, i64 |-> 8]
Fits(t, v) ==
  IF t \in Signed
  THEN -(Power[Width[t]] \div 2) <= v /\ v < Power[Width[t]] \div 2
  ELSE 0 <= v /\ v < Power[Width[t]]
FixIntFits(v) == MinNegFixInt <= v /\ v <= MaxPosFixInt

Code == [u8 |-> UINT_8, u16 |-> UINT_16, u32 |-> UINT_32, u64 |-> UINT_64,
         i8 |-> INT_8, i16 |-> INT_16, i32 |-> INT_32, i64 |-> INT_64]

TriedSignedFirst ==                                                  \* mutant
  [u8 |-> <<"u8">>, u16 |-> <<"i8", "u16">>, u32 |-> <<"i16", "u32">>,
   u64 |-> <<"i32", "u64">>, i8 |-> <<"i8">>, i16 |-> <<"i8", "i16">>,
   i32 |-> <<"i8", "i16", "i32">>, i64 |-> <<"i8", "i16", "i32", "i64">>]
\* The types each serialize_* tries after the fixints, in its order.
Tried == [u8  |-> <<"u8">>, u16 |-> <<"u8", "u16">>, u32 |-> <<"u8", "u16", "u32">>,
          u64 |-> <<"u8", "u16", "u32", "u64">>,
          i8  |-> <<"i8">>, i16 |-> <<"i8", "u8", "i16">>,
          i32 |-> <<"i8", "u8", "i16", "u16", "i32">>,
          i64 |-> <<"i8", "u8", "i16", "u16", "i32", "u32", "i64">>]
Chosen(t, v) ==
  CHOOSE w \in Types : \E k \in 1..Len(Tried[t]) :
    /\ w = Tried[t][k] /\ Fits(w, v)
    /\ \A j \in 1..(k - 1) : ~Fits(Tried[t][j], v)

\* to_be_bytes: the k digits of v, which may be negative.
Digits1(v) == <<v % Radix>>
Digits2(v) == Digits1(v \div Power[1]) \o Digits1(v)
Digits4(v) == Digits2(v \div Power[2]) \o Digits2(v)
BigEndian(v, k) ==
  CASE k = 1 -> Digits1(v) [] k = 2 -> Digits2(v) [] k = 4 -> Digits4(v)
    [] k = 8 -> Digits4(v \div Power[4]) \o Digits4(v)

\* What serialize_* writes: the code, then the digits.
IntCode(t, v)   == IF FixIntFits(v) THEN v % 256 ELSE Code[Chosen(t, v)]
IntDigits(t, v) == IF FixIntFits(v) THEN <<>> ELSE BigEndian(v, Width[Chosen(t, v)])

-----------------------------------------------------------------------------
(* parse_integer *)

\* from_be_bytes: the number of the digits behind a place, and that of a type.
From1(d, p) == d[p + 1]
From2(d, p) == Power[1] * From1(d, p) + From1(d, p + 1)
From4(d, p) == Power[2] * From2(d, p) + From2(d, p + 2)
FromBigEndian(d, k) ==
  CASE k = 1 -> From1(d, 0) [] k = 2 -> From2(d, 0) [] k = 4 -> From4(d, 0)
    [] k = 8 -> Power[4] * From4(d, 0) + From4(d, 4)
Value(w, d) ==
  LET n == FromBigEndian(d, Width[w])
  IN IF w \in Signed /\ n >= Power[Width[w]] \div 2 THEN n - Power[Width[w]] ELSE n

NumberUnsigned(c, d) ==                                              \* mutant
  IF c \in FixInt THEN c ELSE Value(CHOOSE w \in Types : Code[w] = c, d)
\* The number a code and its digits stand for; a fixint is cast `as i8`.
Number(c, d) ==
  IF c \in PosFixInt THEN c ELSE IF c \in NegFixInt THEN c - 256
  ELSE Value(CHOOSE w \in Types : Code[w] = c, d)

\* try_into the type asked for.
ParseInteger(t, c, d) ==
  IF Fits(t, Number(c, d)) THEN <<"ok", Number(c, d)>> ELSE <<"InvalidInteger", 0>>
=============================================================================
