---------------------------- MODULE Integers_proofs ----------------------------
(* Proofs about MsgpackNumber, for every radix of bytes and every smallest   *)
(* fixint, and about JsonNumber, for every base and every width: numbers     *)
(* survive the way through MessagePack and none could have been shorter, and *)
(* JSON numbers are written and read exactly.                                *)
EXTENDS MsgpackNumber, JsonNumber, MsgpackHeads_proofs

-----------------------------------------------------------------------------
(* Arithmetic *)

Radix2 == Radix * Radix
Radix4 == Radix2 * Radix2
Radix8 == Radix4 * Radix4

LEMMA PowerLemma ==
  /\ DOMAIN Power = {1, 2, 4, 8}
  /\ Power[1] = Radix /\ Power[2] = Radix2 /\ Power[4] = Radix4
  /\ Power[8] = Radix2 * Radix2 * Radix2 * Radix2
  /\ Radix \in Nat /\ Radix >= 2 /\ Radix <= 256
  /\ Radix2 \in Nat /\ Radix2 >= 2 * Radix
  /\ Radix4 \in Nat /\ Radix4 >= 2 * Radix2
  /\ Radix8 \in Nat /\ Radix8 >= 2 * Radix4
  <1>1. Radix \in Nat /\ Radix >= 2 /\ Radix <= 256 BY RadixAssumption
  <1>2. Radix2 \in Nat /\ Radix2 >= 2 * Radix BY <1>1, Square DEF Radix2
  <1> HIDE DEF Radix2
  <1>3. Radix4 \in Nat /\ Radix4 >= 2 * Radix2
    <2>1. Radix2 >= 2 BY <1>1, <1>2
    <2> QED BY <2>1, <1>2, Square DEF Radix4
  <1>4. Radix8 \in Nat /\ Radix8 >= 2 * Radix4
    <2>1. Radix4 >= 2 BY <1>1, <1>2, <1>3
    <2> QED BY <2>1, <1>3, Square DEF Radix8
  <1>5. DOMAIN Power = {1, 2, 4, 8} BY DEF Power
  <1>6. Power[1] = Radix BY DEF Power
  <1>7. Power[2] = Radix2 BY DEF Power, Radix2
  <1>8. Power[4] = Radix4 BY DEF Power, Radix2, Radix4
  <1>9. Power[8] = Radix2 * Radix2 * Radix2 * Radix2 BY DEF Power, Radix2
  <1> QED BY <1>1, <1>2, <1>3, <1>4, <1>5, <1>6, <1>7, <1>8, <1>9

\* A digit is a byte.
LEMMA DigitLemma == \A num \in Int : num % Radix \in Byte
  <1> TAKE num \in Int
  <1>1. Radix \in Nat \ {0} /\ Radix <= 256 BY PowerLemma
  <1>2. num % Radix \in Nat /\ num % Radix < Radix BY <1>1, DivMod
  <1> QED BY <1>1, <1>2 DEF Byte

-----------------------------------------------------------------------------
(* What is written *)

LEMMA BigEndianLemma ==
  ASSUME NEW num \in Int
  PROVE  /\ Digits1(num) \in Seq(Byte) /\ Len(Digits1(num)) = 1
         /\ Digits2(num) \in Seq(Byte) /\ Len(Digits2(num)) = 2
         /\ Digits4(num) \in Seq(Byte) /\ Len(Digits4(num)) = 4
         /\ \A k \in {1, 2, 4, 8} : BigEndian(num, k) \in Seq(Byte) /\ Len(BigEndian(num, k)) = k
  <1>0. \A x \in Int, k \in {1, 2, 4} : x \div Power[k] \in Int BY PowerLemma, DivMod
  <1>1. \A x \in Int : Digits1(x) \in Seq(Byte) /\ Len(Digits1(x)) = 1
    BY DigitLemma DEF Digits1
  <1>2. \A x \in Int : Digits2(x) \in Seq(Byte) /\ Len(Digits2(x)) = 2
    <2> TAKE x \in Int
    <2> DEFINE a == Digits1(x \div Power[1])
               b == Digits1(x)
    <2>1. a \in Seq(Byte) /\ Len(a) = 1 /\ b \in Seq(Byte) /\ Len(b) = 1 BY <1>0, <1>1
    <2>2. Digits2(x) = a \o b BY DEF Digits2
    <2> HIDE DEF a, b
    <2>3. a \o b \in Seq(Byte) /\ Len(a \o b) = Len(a) + Len(b) BY <2>1, TwoParts
    <2>4. Len(a) + Len(b) = 2 BY <2>1
    <2> QED BY <2>2, <2>3, <2>4
  <1>3. \A x \in Int : Digits4(x) \in Seq(Byte) /\ Len(Digits4(x)) = 4
    <2> TAKE x \in Int
    <2> DEFINE a == Digits2(x \div Power[2])
               b == Digits2(x)
    <2>1. a \in Seq(Byte) /\ Len(a) = 2 /\ b \in Seq(Byte) /\ Len(b) = 2 BY <1>0, <1>2
    <2>2. Digits4(x) = a \o b BY DEF Digits4
    <2> HIDE DEF a, b
    <2>3. a \o b \in Seq(Byte) /\ Len(a \o b) = Len(a) + Len(b) BY <2>1, TwoParts
    <2>4. Len(a) + Len(b) = 4 BY <2>1
    <2> QED BY <2>2, <2>3, <2>4
  <1>4. ASSUME NEW k \in {1, 2, 4, 8}
        PROVE BigEndian(num, k) \in Seq(Byte) /\ Len(BigEndian(num, k)) = k
    <2>1. CASE k = 1 BY <2>1, <1>1 DEF BigEndian
    <2>2. CASE k = 2 BY <2>2, <1>2 DEF BigEndian
    <2>3. CASE k = 4 BY <2>3, <1>3 DEF BigEndian
    <2>4. CASE k = 8
      <3> DEFINE a == Digits4(num \div Power[4])
                 b == Digits4(num)
      <3>1. a \in Seq(Byte) /\ Len(a) = 4 /\ b \in Seq(Byte) /\ Len(b) = 4 BY <1>0, <1>3
      <3>2. BigEndian(num, k) = a \o b BY <2>4 DEF BigEndian
      <3> HIDE DEF a, b
      <3>3. a \o b \in Seq(Byte) /\ Len(a \o b) = Len(a) + Len(b) BY <3>1, TwoParts
      <3>4. Len(a) + Len(b) = 8 BY <3>1
      <3> QED BY <2>4, <3>2, <3>3, <3>4
    <2> QED BY <2>1, <2>2, <2>3, <2>4
  <1> QED BY <1>1, <1>2, <1>3, <1>4

LEMMA TriedLemma ==
  ASSUME NEW t \in Types
  PROVE  /\ Len(Tried[t]) \in Nat /\ Len(Tried[t]) > 0
         /\ Tried[t][Len(Tried[t])] = t
         /\ \A k \in 1..Len(Tried[t]) : Tried[t][k] \in Types
  <1> USE DEF Types, Tried
  <1>1. CASE t = "u8" BY <1>1
  <1>2. CASE t = "u16" BY <1>2
  <1>3. CASE t = "u32" BY <1>3
  <1>4. CASE t = "u64" BY <1>4
  <1>5. CASE t = "i8" BY <1>5
  <1>6. CASE t = "i16" BY <1>6
  <1>7. CASE t = "i32" BY <1>7
  <1>8. CASE t = "i64" BY <1>8
  <1> QED BY <1>1, <1>2, <1>3, <1>4, <1>5, <1>6, <1>7, <1>8

\* The type whose code is written has the number.
LEMMA ChosenLemma ==
  ASSUME NEW t \in Types, NEW num \in Int, Fits(t, num)
  PROVE  /\ Chosen(t, num) \in Types /\ Fits(Chosen(t, num), num)
         /\ Width[Chosen(t, num)] \in {1, 2, 4, 8} /\ Code[Chosen(t, num)] \in Byte
  <1> DEFINE n == Len(Tried[t])
             T == {k \in 1..n : Fits(Tried[t][k], num)}
             P(w) == \E k \in 1..n : /\ w = Tried[t][k] /\ Fits(w, num)
                                     /\ \A j \in 1..(k - 1) : ~Fits(Tried[t][j], num)
  <1>1. n \in Nat /\ n > 0 /\ Tried[t][n] = t /\ \A k \in 1..n : Tried[t][k] \in Types
    BY TriedLemma
  <1> HIDE DEF n
  <1>2. T \in SUBSET Nat /\ n \in T BY <1>1
  <1>3. PICK m \in T : \A k \in T : m <= k BY <1>2, LeastNat
  <1>4. \A j \in 1..(m - 1) : ~Fits(Tried[t][j], num) BY <1>1, <1>3
  <1>5. Tried[t][m] \in Types /\ P(Tried[t][m]) BY <1>1, <1>3, <1>4
  <1>6. Chosen(t, num) = CHOOSE w \in Types : P(w) BY DEF Chosen, n
  <1> HIDE DEF P
  <1>7. Chosen(t, num) \in Types /\ P(Chosen(t, num)) BY <1>5, <1>6
  <1>8. Fits(Chosen(t, num), num) BY <1>7 DEF P
  <1>9. \A w \in Types : Width[w] \in {1, 2, 4, 8} /\ Code[w] \in Byte
    BY DEF Types, Width, Code, Byte, UINT_8, UINT_16, UINT_32, UINT_64, INT_8, INT_16, INT_32, INT_64
  <1> QED BY <1>7, <1>8, <1>9

LEMMA IntHeadLemma ==
  ASSUME NEW t \in Types, NEW num \in Int, Fits(t, num)
  PROVE  IntCode(t, num) \in Byte /\ IntDigits(t, num) \in Seq(Byte)
  <1>1. num % 256 \in Byte
    <2>1. num % 256 \in Nat /\ num % 256 < 256 BY DivMod
    <2> QED BY <2>1 DEF Byte
  <1>2. <<>> \in Seq(Byte) BY EmptySeq
  <1> QED BY <1>1, <1>2, ChosenLemma, BigEndianLemma DEF IntCode, IntDigits

-----------------------------------------------------------------------------
(* Arithmetic: a remainder is put together from two digits. *)

-----------------------------------------------------------------------------
(* What is read of digits is what they were made of. *)

LEMMA Read2 ==
  ASSUME NEW z \in Int
  PROVE  From2(Digits2(z), 0) = z % Power[2]
  <1> DEFINE q == z \div Power[1]
             a == Digits1(q)
             b == Digits1(z)
             d == a \o b
  <1>1. /\ Power[1] = Radix /\ Power[2] = Radix * Radix /\ Radix \in Nat \ {0}
    BY PowerLemma DEF Radix2
  <1>2. q \in Int /\ (z % (Radix * Radix)) = Radix * (q % Radix) + (z % Radix)
    BY <1>1, TwoDigits
  <1>3. a[1] = q % Radix /\ b[1] = z % Radix BY DEF Digits1
  <1>4. a \in Seq(Byte) /\ b \in Seq(Byte) /\ Len(a) = 1 /\ Len(b) = 1
    BY <1>2, BigEndianLemma
  <1>5. Digits2(z) = d BY DEF Digits2
  <1> HIDE DEF a, b, q
  <1>s. \A j \in 1..(1 + 1) : d[j] = IF j <= 1 THEN a[j] ELSE b[j - 1] BY <1>4, Splice
  <1> HIDE DEF d
  <1>6. d[1] = a[1] /\ d[2] = b[1] BY <1>s
  <1>7. From2(d, 0) = Power[1] * d[1] + d[2] BY DEF From2, From1
  <1> QED BY <1>1, <1>2, <1>3, <1>5, <1>6, <1>7

LEMMA Read4 ==
  ASSUME NEW z \in Int
  PROVE  From4(Digits4(z), 0) = z % Power[4]
  <1> DEFINE q == z \div Power[2]
             a == Digits2(q)
             b == Digits2(z)
             d == a \o b
  <1>1. Power[2] = Radix2 /\ Power[4] = Radix2 * Radix2 /\ Radix2 \in Nat \ {0}
    BY PowerLemma DEF Radix4
  <1>2. q \in Int /\ (z % (Radix2 * Radix2)) = Radix2 * (q % Radix2) + (z % Radix2)
    BY <1>1, TwoDigits
  <1>3. From2(a, 0) = q % Radix2 /\ From2(b, 0) = z % Radix2 BY <1>1, <1>2, Read2
  <1>4. a \in Seq(Byte) /\ b \in Seq(Byte) /\ Len(a) = 2 /\ Len(b) = 2
    BY <1>2, BigEndianLemma
  <1>5. Digits4(z) = d BY DEF Digits4
  <1> HIDE DEF a, b, q
  <1>s. \A j \in 1..(2 + 2) : d[j] = IF j <= 2 THEN a[j] ELSE b[j - 2] BY <1>4, Splice
  <1> HIDE DEF d
  <1>6. d[1] = a[1] /\ d[2] = a[2] /\ d[3] = b[1] /\ d[4] = b[2] BY <1>s
  <1>7. From2(d, 0) = From2(a, 0) /\ From2(d, 2) = From2(b, 0)
    BY <1>6 DEF From2, From1
  <1>8. From4(d, 0) = Power[2] * From2(d, 0) + From2(d, 2) BY DEF From4
  <1> QED BY <1>1, <1>2, <1>3, <1>5, <1>7, <1>8

LEMMA Read8 ==
  ASSUME NEW z \in Int
  PROVE  FromBigEndian(BigEndian(z, 8), 8) = z % Power[8]
  <1> DEFINE q == z \div Power[4]
             a == Digits4(q)
             b == Digits4(z)
             d == a \o b
  <1>1. Power[4] = Radix4 /\ Power[8] = Radix4 * Radix4 /\ Radix4 \in Nat \ {0}
    <2>1. Power[8] = Radix2 * Radix2 * Radix2 * Radix2 /\ Radix2 \in Nat BY PowerLemma
    <2>2. Radix2 * Radix2 * Radix2 * Radix2 = (Radix2 * Radix2) * (Radix2 * Radix2) BY <2>1
    <2> QED BY <2>1, <2>2, PowerLemma DEF Radix4
  <1>2. q \in Int /\ (z % (Radix4 * Radix4)) = Radix4 * (q % Radix4) + (z % Radix4)
    BY <1>1, TwoDigits
  <1>3. From4(a, 0) = q % Radix4 /\ From4(b, 0) = z % Radix4 BY <1>1, <1>2, Read4
  <1>4. a \in Seq(Byte) /\ b \in Seq(Byte) /\ Len(a) = 4 /\ Len(b) = 4
    BY <1>2, BigEndianLemma
  <1>5. BigEndian(z, 8) = d BY DEF BigEndian
  <1> HIDE DEF a, b, q
  <1>s. \A j \in 1..(4 + 4) : d[j] = IF j <= 4 THEN a[j] ELSE b[j - 4] BY <1>4, Splice
  <1> HIDE DEF d
  <1>6. /\ d[1] = a[1] /\ d[2] = a[2] /\ d[3] = a[3] /\ d[4] = a[4]
        /\ d[5] = b[1] /\ d[6] = b[2] /\ d[7] = b[3] /\ d[8] = b[4]
    BY <1>s
  <1>7. From4(d, 0) = From4(a, 0) /\ From4(d, 4) = From4(b, 0)
    BY <1>6 DEF From4, From2, From1
  <1>8. FromBigEndian(d, 8) = Power[4] * From4(d, 0) + From4(d, 4) BY DEF FromBigEndian
  <1> QED BY <1>1, <1>2, <1>3, <1>5, <1>7, <1>8

LEMMA ReadLemma ==
  ASSUME NEW z \in Int, NEW k \in {1, 2, 4, 8}
  PROVE  FromBigEndian(BigEndian(z, k), k) = z % Power[k]
  <1>1. CASE k = 1
    <2>1. FromBigEndian(BigEndian(z, 1), 1) = Digits1(z)[1]
      BY DEF FromBigEndian, BigEndian, From1
    <2>2. Digits1(z)[1] = z % Radix BY DEF Digits1
    <2> QED BY <1>1, <2>1, <2>2, PowerLemma
  <1>2. CASE k = 2
    <2>1. FromBigEndian(BigEndian(z, 2), 2) = From2(Digits2(z), 0)
      BY DEF FromBigEndian, BigEndian
    <2> QED BY <1>2, <2>1, Read2
  <1>4. CASE k = 4
    <2>1. FromBigEndian(BigEndian(z, 4), 4) = From4(Digits4(z), 0)
      BY DEF FromBigEndian, BigEndian
    <2> QED BY <1>4, <2>1, Read4
  <1>8. CASE k = 8 BY <1>8, Read8
  <1> QED BY <1>1, <1>2, <1>4, <1>8

\* Two's complement: a number its type has comes out of its digits.
LEMMA ValueLemma ==
  ASSUME NEW w \in Types, NEW z \in Int, Fits(w, z)
  PROVE  Value(w, BigEndian(z, Width[w])) = z
  <1> DEFINE P == Power[Width[w]]
             n == z % P
  <1>1. Width[w] \in {1, 2, 4, 8} BY DEF Types, Width
  <1>2. P \in Nat \ {0}
    <2>1. Power[8] \in Nat \ {0}
      <3>1. Radix4 \in Nat \ {0} /\ Power[8] = Radix2 * Radix2 * Radix2 * Radix2
        BY PowerLemma
      <3>2. Radix2 \in Nat \ {0} /\ Radix2 * Radix2 \in Nat \ {0} BY PowerLemma, MulGrows
      <3>3. Radix2 * Radix2 * Radix2 \in Nat \ {0} BY <3>2, MulGrows
      <3>4. Radix2 * Radix2 * Radix2 * Radix2 \in Nat \ {0} BY <3>2, <3>3, MulGrows
      <3> QED BY <3>1, <3>4
    <2> QED BY <2>1, <1>1, PowerLemma
  <1>3. FromBigEndian(BigEndian(z, Width[w]), Width[w]) = n BY <1>1, ReadLemma
  <1>4. Value(w, BigEndian(z, Width[w])) = IF w \in Signed /\ n >= P \div 2 THEN n - P ELSE n
    BY <1>3 DEF Value
  <1>5. Fits(w, z) <=> IF w \in Signed THEN -(P \div 2) <= z /\ z < P \div 2 ELSE 0 <= z /\ z < P
    BY DEF Fits
  <1> DEFINE h == P \div 2
  <1>6. h \in Nat /\ 2 * h <= P /\ P <= 2 * h + 1
    <2> HIDE DEF P
    <2>1. P \div 2 \in Int /\ P % 2 \in Nat /\ P % 2 < 2 /\ P = 2 * (P \div 2) + (P % 2)
      BY <1>2, DivMod
    <2> QED BY <2>1, <1>2
  <1>7. CASE 0 <= z
    <2>1. z < P BY <1>2, <1>5, <1>6, <1>7
    <2>2. n = z
      <3> HIDE DEF P
      <3> QED BY <2>1, <1>2, <1>7, DivMod
    <2> HIDE DEF n, P, h
    <2>3. w \in Signed => z < h BY <1>5 DEF h
    <2> QED BY <2>2, <2>3, <1>4, <1>6 DEF h
  <1>8. CASE z < 0
    <2> HIDE DEF P
    <2>1. w \in Signed /\ -h <= z BY <1>5, <1>8 DEF h
    <2>2. z + P \in Nat /\ z + P < P /\ z = P * (-1) + (z + P)
      BY <2>1, <1>2, <1>6, <1>8
    <2>3. n = z + P BY <2>2, <1>2, ModUnique
    <2> HIDE DEF n, h
    <2>4. n >= h BY <2>1, <2>3, <1>2, <1>6
    <2> QED BY <2>1, <2>3, <2>4, <1>2, <1>4 DEF h
  <1> QED BY <1>7, <1>8

-----------------------------------------------------------------------------
(* A number comes back. *)

LEMMA CodeLemma ==
  ASSUME NEW w \in Types
  PROVE  /\ Code[w] \notin PosFixInt /\ Code[w] \notin NegFixInt
         /\ (CHOOSE u \in Types : Code[u] = Code[w]) = w
  <1> USE DEF Types, Code, UINT_8, UINT_16, UINT_32, UINT_64, INT_8, INT_16, INT_32, INT_64
  <1>1. Code[w] \notin PosFixInt /\ Code[w] \notin NegFixInt BY DEF PosFixInt, NegFixInt
  <1>2. \A u \in Types : Code[u] = Code[w] => u = w OBVIOUS
  <1> QED BY <1>1, <1>2

LEMMA NumberLemma ==
  ASSUME NEW t \in Types, NEW z \in Int, Fits(t, z)
  PROVE  Number(IntCode(t, z), IntDigits(t, z)) = z
  <1>1. CASE FixIntFits(z)
    <2> DEFINE c == z % 256
    <2>1. IntCode(t, z) = c BY <1>1 DEF IntCode
    <2>2. -32 <= z /\ z <= 127
      <3>1. Radix \div 2 <= 128 /\ Radix \div 2 \in Int BY RadixAssumption
      <3> QED BY <3>1, <1>1, FixIntAssumption DEF FixIntFits, MaxPosFixInt
    <2>3. CASE 0 <= z
      <3>1. c = z BY <2>2, <2>3, DivMod
      <3>2. c \in PosFixInt BY <2>2, <2>3, <3>1 DEF PosFixInt
      <3> QED BY <2>1, <3>1, <3>2 DEF Number
    <2>4. CASE z < 0
      <3>1. z + 256 \in Nat /\ z + 256 < 256 /\ z = 256 * (-1) + (z + 256) BY <2>2, <2>4
      <3>2. c = z + 256 BY <3>1, ModUnique
      <3>3. c \notin PosFixInt /\ c \in NegFixInt BY <2>2, <2>4, <3>2 DEF PosFixInt, NegFixInt
      <3> HIDE DEF c
      <3>4. Number(c, IntDigits(t, z)) = c - 256 BY <3>3 DEF Number
      <3> QED BY <2>1, <3>2, <3>4
    <2> QED BY <2>3, <2>4
  <1>2. CASE ~FixIntFits(z)
    <2> DEFINE w == Chosen(t, z)
               d == BigEndian(z, Width[w])
    <2>1. IntCode(t, z) = Code[w] /\ IntDigits(t, z) = d BY <1>2 DEF IntCode, IntDigits
    <2>2. w \in Types /\ Fits(w, z) BY ChosenLemma
    <2>3. Value(w, d) = z BY <2>2, ValueLemma
    <2> HIDE DEF w, d
    <2>4. Number(Code[w], d) = Value(w, d) BY <2>2, CodeLemma DEF Number
    <2> QED BY <2>1, <2>3, <2>4
  <1> QED BY <1>1, <1>2

-----------------------------------------------------------------------------
(* No number could have been shorter. *)

LEMMA TriedWidths ==
  ASSUME NEW t \in Types
  PROVE  /\ \A j, k \in 1..Len(Tried[t]) : j <= k => Width[Tried[t][j]] <= Width[Tried[t][k]]
         /\ Width[t] \in Nat
  <1> USE DEF Types, Tried, Width
  <1>1. CASE t \in {"u8", "i8", "u16"} BY <1>1
  <1>2. CASE t = "u32" BY <1>2
  <1>3. CASE t = "u64" BY <1>3
  <1>4. CASE t = "i32" BY <1>4
  <1>5. CASE t = "i64" BY <1>5
  <1>6. CASE t = "i16" BY <1>6
  <1> QED BY <1>1, <1>2, <1>3, <1>4, <1>5, <1>6

\* Of the types that have a number, each serialize_* tries one that is no wider.
LEMMA TriedNarrow ==
  ASSUME NEW t \in Types, NEW u \in Types, NEW z \in Int, Fits(t, z), Fits(u, z)
  PROVE  \E j \in 1..Len(Tried[t]) : Fits(Tried[t][j], z) /\ Width[Tried[t][j]] <= Width[u]
  <1> DEFINE n == Len(Tried[t])
  <1>1. CASE Width[t] <= Width[u]
    <2>1. n \in 1..n /\ Tried[t][n] = t BY TriedLemma
    <2> QED BY <2>1, <1>1
  <1>2. CASE ~(Width[t] <= Width[u]) /\ t \in Signed
    <2>1. \E j \in 1..n : Tried[t][j] = u
      <3>1. CASE t = "i8" BY <3>1, <1>2 DEF Width, Types
      <3>2. CASE t = "i16"
        <4>1. u \in {"i8", "u8"} BY <3>2, <1>2 DEF Width, Types
        <4>2. n = 3 /\ Tried[t][1] = "i8" /\ Tried[t][2] = "u8" BY <3>2 DEF Tried
        <4> QED BY <4>1, <4>2
      <3>3. CASE t = "i32"
        <4>1. u \in {"i8", "u8", "i16", "u16"} BY <3>3, <1>2 DEF Width, Types
        <4>2. /\ n = 5 /\ Tried[t][1] = "i8" /\ Tried[t][2] = "u8" /\ Tried[t][3] = "i16"
              /\ Tried[t][4] = "u16"
          BY <3>3 DEF Tried
        <4> QED BY <4>1, <4>2
      <3>4. CASE t = "i64"
        <4>1. u \in {"i8", "u8", "i16", "u16", "i32", "u32"} BY <3>4, <1>2 DEF Width, Types
        <4>2. /\ n = 7 /\ Tried[t][1] = "i8" /\ Tried[t][2] = "u8" /\ Tried[t][3] = "i16"
              /\ Tried[t][4] = "u16" /\ Tried[t][5] = "i32" /\ Tried[t][6] = "u32"
          BY <3>4 DEF Tried
        <4> QED BY <4>1, <4>2
      <3> QED BY <3>1, <3>2, <3>3, <3>4, <1>2 DEF Signed
    <2>2. Width[u] \in Nat BY DEF Types, Width
    <2> QED BY <2>1, <2>2
  <1>3. CASE ~(Width[t] <= Width[u]) /\ t \notin Signed
    <2>0. t \in {"u8", "u16", "u32", "u64"} BY <1>3 DEF Types, Signed
    <2>1. PICK w \in {"u8", "u16", "u32", "u64"} : Width[w] = Width[u] BY DEF Types, Width
    <2>2. Fits(w, z)
      <3>1. 0 <= z BY <1>3 DEF Fits
      <3>2. w \notin Signed /\ Width[u] \in {1, 2, 4} BY <2>0, <1>3 DEF Signed, Width, Types
      <3> DEFINE P == Power[Width[u]]
      <3>3. P \in Nat BY <3>2, PowerLemma
      <3> HIDE DEF P
      <3>4. P \div 2 <= P
        <4>1. P \div 2 \in Int /\ P % 2 \in Nat /\ P = 2 * (P \div 2) + (P % 2) BY <3>3, DivMod
        <4> QED BY <4>1, <3>3
      <3>5. z < P
        <4>1. IF u \in Signed THEN z < P \div 2 ELSE z < P BY DEF Fits, P
        <4>2. P \div 2 \in Int BY <3>3, DivMod
        <4> QED BY <4>1, <4>2, <3>3, <3>4
      <3> QED BY <3>1, <3>2, <3>5, <2>1 DEF Fits, P
    <2>3. \E j \in 1..n : Tried[t][j] = w
      <3>1. CASE t = "u8" BY <3>1, <1>3 DEF Width, Types
      <3>2. CASE t = "u16"
        <4>1. w = "u8" BY <3>2, <1>3, <2>1 DEF Width
        <4>2. n = 2 /\ Tried[t][1] = "u8" BY <3>2 DEF Tried
        <4> QED BY <4>1, <4>2
      <3>3. CASE t = "u32"
        <4>1. w \in {"u8", "u16"} BY <3>3, <1>3, <2>1 DEF Width
        <4>2. n = 3 /\ Tried[t][1] = "u8" /\ Tried[t][2] = "u16" BY <3>3 DEF Tried
        <4> QED BY <4>1, <4>2
      <3>4. CASE t = "u64"
        <4>1. w \in {"u8", "u16", "u32"} BY <3>4, <1>3, <2>1 DEF Width
        <4>2. n = 4 /\ Tried[t][1] = "u8" /\ Tried[t][2] = "u16" /\ Tried[t][3] = "u32"
          BY <3>4 DEF Tried
        <4> QED BY <4>1, <4>2
      <3> QED BY <3>1, <3>2, <3>3, <3>4, <2>0
    <2>4. PICK j \in 1..n : Tried[t][j] = w BY <2>3
    <2>5. Width[u] \in Nat BY DEF Types, Width
    <2> QED BY <2>1, <2>2, <2>4, <2>5
  <1> QED BY <1>1, <1>2, <1>3

LEMMA ChosenNarrow ==
  ASSUME NEW t \in Types, NEW u \in Types, NEW z \in Int, Fits(t, z), Fits(u, z)
  PROVE  Width[Chosen(t, z)] <= Width[u]
  <1> DEFINE n == Len(Tried[t])
             T == {k \in 1..n : Fits(Tried[t][k], z)}
             First(w, k) == /\ w = Tried[t][k] /\ Fits(w, z)
                            /\ \A j \in 1..(k - 1) : ~Fits(Tried[t][j], z)
             P(w) == \E k \in 1..n : First(w, k)
  <1>1. n \in Nat /\ n > 0 /\ Tried[t][n] = t /\ \A k \in 1..n : Tried[t][k] \in Types
    BY TriedLemma
  <1>2. n \in T /\ T \in SUBSET Nat BY <1>1
  <1>3. PICK m \in T : \A k \in T : m <= k BY <1>2, LeastNat
  <1>4. P(Tried[t][m]) /\ Tried[t][m] \in Types BY <1>1, <1>3
  <1>5. Chosen(t, z) = CHOOSE w \in Types : P(w) BY DEF Chosen
  <1> HIDE DEF P
  <1>6. P(Chosen(t, z)) BY <1>4, <1>5
  <1>7. PICK k \in 1..n : First(Chosen(t, z), k) BY <1>6 DEF P
  <1>8. PICK j \in 1..n : Fits(Tried[t][j], z) /\ Width[Tried[t][j]] <= Width[u]
    BY TriedNarrow
  <1>9. k <= j BY <1>7, <1>8
  <1>10. Width[Tried[t][k]] <= Width[Tried[t][j]] BY <1>9, TriedWidths
  <1>11. Width[Tried[t][k]] \in Nat /\ Width[Tried[t][j]] \in Nat /\ Width[u] \in Nat
    <2>1. \A x \in Types : Width[x] \in Nat BY DEF Types, Width
    <2> QED BY <2>1, <1>1
  <1> QED BY <1>7, <1>8, <1>10, <1>11

-----------------------------------------------------------------------------
(* Theorems *)

\* The type a number is serialized as has it: serialize_u16 takes a u16.
THEOREM Inductive == Spec => []Asked
  <1>1. Init => Asked BY DEF Init, Asked
  <1>2. Asked /\ [Next]_pvars => Asked'
    <2> SUFFICES ASSUME Asked, [Next]_pvars PROVE Asked' OBVIOUS
    <2>1. CASE Choose
      <3>1. PICK t \in Types, x \in Numbers : Fits(t, x) /\ from' = t /\ number' = x
        BY <2>1 DEF Choose
      <3>2. x \in Int /\ to' \in Types BY <2>1, NumbersAssumption DEF Choose
      <3> QED BY <3>1, <3>2 DEF Asked
    <2>2. CASE UNCHANGED pvars BY <2>2 DEF pvars, Asked
    <2> QED BY <2>1, <2>2 DEF Next
  <1> QED BY <1>1, <1>2, PTL DEF Spec

\* Every integer survives the way through MessagePack: what any serialize_*
\* writes, any parse_integer reads as that number, or refuses if its type does
\* not have it; for every radix, so that of every limit of every width.
THEOREM NumbersSurvive == Spec => []RoundTrip
  <1>1. Asked => RoundTrip
    <2> SUFFICES ASSUME Asked, pc = "packed"
                 PROVE Read = IF Fits(to, number) THEN <<"ok", number>> ELSE <<"InvalidInteger", 0>>
      BY DEF RoundTrip
    <2>1. Number(Packed.code, Packed.digits) = number BY NumberLemma DEF Asked, Packed
    <2> QED BY <2>1 DEF Read, ParseInteger
  <1> QED BY <1>1, Inductive, PTL

\* Every serialize_* writes a number with as few digits as the format allows,
\* whatever type the program has it in and in whatever order classes are tried.
THEOREM NumbersShortest == Spec => []Shortest
  <1>1. Asked => Shortest
    <2> SUFFICES ASSUME Asked, pc = "packed"
                 PROVE /\ Len(Packed.digits) \in Fewest
                       /\ \A other \in Fewest : Len(Packed.digits) <= other
      BY DEF Shortest
    <2>1. from \in Types /\ number \in Int /\ Fits(from, number) BY DEF Asked
    <2>2. Packed.digits = IntDigits(from, number) BY DEF Packed
    <2>3. Radix \div 2 \in Int BY RadixAssumption
    <2>4. FixIntFits(number) <=> MinNegFixInt <= number /\ number < Radix \div 2
      BY <2>1, <2>3, FixIntAssumption DEF FixIntFits, MaxPosFixInt
    <2>5. \A u \in Types : Width[u] \in {1, 2, 4, 8} BY DEF Types, Width
    <2>6. CASE FixIntFits(number)
      <3>1. Len(Packed.digits) = 0 BY <2>2, <2>6 DEF IntDigits
      <3> QED BY <3>1, <2>4, <2>5, <2>6 DEF Fewest
    <2>7. CASE ~FixIntFits(number)
      <3> DEFINE w == Chosen(from, number)
      <3>1. Packed.digits = BigEndian(number, Width[w]) BY <2>2, <2>7 DEF IntDigits
      <3>2. w \in Types /\ Fits(w, number) BY <2>1, ChosenLemma
      <3>3. \A u \in Types : Fits(u, number) => Width[w] <= Width[u] BY <2>1, ChosenNarrow
      <3> HIDE DEF w
      <3>4. Len(Packed.digits) = Width[w] BY <3>1, <3>2, <2>1, <2>5, BigEndianLemma
      <3>5. Fewest = {Width[u] : u \in {t \in Types : Fits(t, number)}}
        BY <2>4, <2>7 DEF Fewest
      <3> QED BY <3>2, <3>3, <3>4, <3>5
    <2> QED BY <2>6, <2>7
  <1> QED BY <1>1, Inductive, PTL

-----------------------------------------------------------------------------
(* The number of digits is a recursive function of how many there are, shown *)
(* to exist and to be the only one with its values.                          *)

IsHorner(f, x, d, n) == f = [k \in 0..n |-> IF k = 0 THEN x ELSE Base * f[k - 1] + d[k]]

LEMMA HornerExists ==
  ASSUME NEW x, NEW d, NEW n \in Nat
  PROVE  \E f : IsHorner(f, x, d, n)
  <1> DEFINE Is(f, m) == f = [k \in 0..m |-> IF k = 0 THEN x ELSE Base * f[k - 1] + d[k]]
             T == {m \in Nat : ~\E f : Is(f, m)}
  <1> SUFFICES ASSUME T /= {} PROVE FALSE BY DEF IsHorner
  <1>1. PICK m \in T : \A k \in T : m <= k
    <2>1. T \in SUBSET Nat OBVIOUS
    <2> HIDE DEF T
    <2> QED BY <2>1, LeastNat
  <1>2. m \in Nat /\ ~\E f : Is(f, m) BY <1>1
  <1>3. CASE m = 0
    <2> DEFINE g == [k \in 0..0 |-> x]
    <2>1. Is(g, 0) OBVIOUS
    <2> QED BY <2>1, <1>2, <1>3
  <1>4. CASE m /= 0
    <2>1. m - 1 \in Nat /\ ~(m <= m - 1) BY <1>2, <1>4
    <2>2. PICK f : Is(f, m - 1) BY <2>1, <1>1
    <2> DEFINE g == [k \in 0..m |-> IF k = m THEN Base * f[m - 1] + d[m] ELSE f[k]]
    <2>3. \A k \in 0..(m - 1) : g[k] = f[k] BY <1>2
    <2>4. g[m] = Base * f[m - 1] + d[m] BY <1>2
    <2>5. \A k \in 0..(m - 1) : f[k] = IF k = 0 THEN x ELSE Base * f[k - 1] + d[k] BY <2>2
    <2>6. \A k \in 0..m : g[k] = IF k = 0 THEN x ELSE Base * g[k - 1] + d[k]
      <3> SUFFICES ASSUME NEW k \in 0..m
                   PROVE g[k] = IF k = 0 THEN x ELSE Base * g[k - 1] + d[k]
        OBVIOUS
      <3> HIDE DEF g
      <3>1. CASE k = m
        <4>1. g[m - 1] = f[m - 1] BY <2>1, <2>3
        <4> QED BY <4>1, <3>1, <2>4, <1>4
      <3>2. CASE k /= m
        <4>1. k \in 0..(m - 1) /\ (k /= 0 => k - 1 \in 0..(m - 1)) BY <3>2, <1>2
        <4> QED BY <4>1, <2>3, <2>5
      <3> QED BY <3>1, <3>2
    <2>7. Is(g, m)
      <3>1. g = [k \in 0..m |-> g[k]] OBVIOUS
      <3> HIDE DEF g
      <3> QED BY <3>1, <2>6
    <2> QED BY <2>7, <1>2
  <1> QED BY <1>3, <1>4

LEMMA HornerLemma ==
  ASSUME NEW x, NEW d, NEW n \in Nat
  PROVE  \E f : /\ f[0] = x /\ \A k \in 1..n : f[k] = Base * f[k - 1] + d[k]
                /\ Horner(x, d, n) = f[n]
  <1> DEFINE r == CHOOSE f : IsHorner(f, x, d, n)
  <1>1. Horner(x, d, n) = r[n] BY Zenon DEF Horner, IsHorner
  <1> HIDE DEF r
  <1>2. IsHorner(r, x, d, n) BY HornerExists, Zenon DEF r
  <1>3. r[0] = x BY <1>2 DEF IsHorner
  <1>4. ASSUME NEW k \in 1..n PROVE r[k] = Base * r[k - 1] + d[k]
    <2>1. k \in 0..n /\ k /= 0 OBVIOUS
    <2> QED BY <2>1, <1>2 DEF IsHorner
  <1> QED BY <1>1, <1>3, <1>4

LEMMA HornerUnique ==
  ASSUME NEW x, NEW d, NEW n \in Nat, NEW f, f[0] = x,
         \A k \in 1..n : f[k] = Base * f[k - 1] + d[k]
  PROVE  Horner(x, d, n) = f[n]
  <1>1. PICK r : /\ r[0] = x /\ \A k \in 1..n : r[k] = Base * r[k - 1] + d[k]
                 /\ Horner(x, d, n) = r[n]
    BY HornerLemma
  <1> DEFINE T == {k \in 0..n : r[k] /= f[k]}
  <1> SUFFICES ASSUME T /= {} PROVE FALSE BY <1>1
  <1>2. PICK m \in T : \A k \in T : m <= k
    <2>1. T \in SUBSET Nat OBVIOUS
    <2> HIDE DEF T
    <2> QED BY <2>1, LeastNat
  <1>3. m \in 0..n /\ r[m] /= f[m] BY <1>2
  <1>4. m /= 0 BY <1>1, <1>3
  <1>5. m \in 1..n /\ m - 1 \in 0..n /\ ~(m <= m - 1) BY <1>3, <1>4
  <1>6. r[m - 1] = f[m - 1] BY <1>2, <1>5
  <1> QED BY <1>1, <1>3, <1>5, <1>6

LEMMA HornerStep ==
  ASSUME NEW x, NEW d, NEW n \in Nat
  PROVE  /\ Horner(x, d, 0) = x
         /\ Horner(x, d, n + 1) = Base * Horner(x, d, n) + d[n + 1]
  <1>1. PICK f : /\ f[0] = x /\ \A k \in 1..(n + 1) : f[k] = Base * f[k - 1] + d[k]
                 /\ Horner(x, d, n + 1) = f[n + 1]
    <2>1. n + 1 \in Nat OBVIOUS
    <2> QED BY <2>1, HornerLemma
  <1>2. Horner(x, d, 0) = f[0]
    <2>1. \A k \in 1..0 : f[k] = Base * f[k - 1] + d[k] OBVIOUS
    <2>2. 0 \in Nat OBVIOUS
    <2> QED BY <1>1, <2>1, <2>2, HornerUnique
  <1>3. Horner(x, d, n) = f[n]
    <2>1. \A k \in 1..n : f[k] = Base * f[k - 1] + d[k] BY <1>1
    <2> QED BY <1>1, <2>1, HornerUnique
  <1>4. f[n + 1] = Base * f[(n + 1) - 1] + d[n + 1] BY <1>1
  <1>5. (n + 1) - 1 = n OBVIOUS
  <1> QED BY <1>1, <1>2, <1>3, <1>4, <1>5

\* Only the digits matter.
LEMMA HornerSame ==
  ASSUME NEW x, NEW d, NEW e, NEW n \in Nat, \A k \in 1..n : d[k] = e[k]
  PROVE  Horner(x, d, n) = Horner(x, e, n)
  <1>1. PICK f : /\ f[0] = x /\ \A k \in 1..n : f[k] = Base * f[k - 1] + e[k]
                 /\ Horner(x, e, n) = f[n]
    BY HornerLemma
  <1>2. \A k \in 1..n : f[k] = Base * f[k - 1] + d[k] BY <1>1
  <1> QED BY <1>1, <1>2, HornerUnique

\* A digit before the others.
LEMMA HornerCons ==
  ASSUME NEW x, NEW d, NEW e, NEW n \in Nat, \A k \in 1..n : e[k + 1] = d[k]
  PROVE  Horner(x, e, n + 1) = Horner(Base * x + e[1], d, n)
  <1>1. PICK f : /\ f[0] = x /\ \A k \in 1..(n + 1) : f[k] = Base * f[k - 1] + e[k]
                 /\ Horner(x, e, n + 1) = f[n + 1]
    <2>1. n + 1 \in Nat OBVIOUS
    <2> QED BY <2>1, HornerLemma
  <1> DEFINE g == [k \in 0..n |-> f[k + 1]]
             y == Base * x + e[1]
  <1>2. g[0] = y
    <2>1. f[1] = Base * f[1 - 1] + e[1] BY <1>1
    <2>2. 1 - 1 = 0 /\ 0 + 1 = 1 OBVIOUS
    <2> QED BY <1>1, <2>1, <2>2
  <1>3. ASSUME NEW k \in 1..n PROVE g[k] = Base * g[k - 1] + d[k]
    <2>1. k + 1 \in 1..(n + 1) /\ (k + 1) - 1 = k /\ (k - 1) + 1 = k /\ k \in 0..n /\ k - 1 \in 0..n
      OBVIOUS
    <2>2. f[k + 1] = Base * f[(k + 1) - 1] + e[k + 1] BY <1>1, <2>1
    <2>3. g[k] = f[k + 1] /\ g[k - 1] = f[(k - 1) + 1] BY <2>1
    <2> QED BY <2>1, <2>2, <2>3
  <1>4. g[n] = f[n + 1] OBVIOUS
  <1> HIDE DEF g, y
  <1>5. Horner(y, d, n) = g[n] BY <1>2, <1>3, HornerUnique
  <1> QED BY <1>1, <1>4, <1>5 DEF y

LEMMA BaseLemma == Base \in Nat \ {0} /\ Base >= 2
  BY BaseAssumption

LEMMA HornerNat ==
  ASSUME NEW x \in Nat, NEW d, NEW n \in Nat, \A k \in 1..n : d[k] \in Nat
  PROVE  Horner(x, d, n) \in Nat
  <1> DEFINE T == {m \in 0..n : Horner(x, d, m) \notin Nat}
  <1> SUFFICES ASSUME T /= {} PROVE FALSE OBVIOUS
  <1>1. PICK m \in T : \A k \in T : m <= k
    <2>1. T \in SUBSET Nat OBVIOUS
    <2> HIDE DEF T
    <2> QED BY <2>1, LeastNat
  <1>2. m \in 0..n /\ Horner(x, d, m) \notin Nat BY <1>1
  <1>3. m /= 0 BY <1>2, HornerStep
  <1> DEFINE j == m - 1
  <1>4. j \in Nat /\ j + 1 = m /\ j \in 0..n /\ m \in 1..n /\ ~(m <= j) BY <1>2, <1>3
  <1>5. Horner(x, d, j) \in Nat BY <1>1, <1>4
  <1> HIDE DEF j
  <1>6. Horner(x, d, m) = Base * Horner(x, d, j) + d[m] BY <1>4, HornerStep
  <1>7. Base * Horner(x, d, j) \in Nat /\ d[m] \in Nat BY <1>4, <1>5, BaseLemma
  <1> DEFINE a == Base * Horner(x, d, j)
  <1> HIDE DEF a
  <1>8. Horner(x, d, m) = a + d[m] /\ a \in Nat BY <1>6, <1>7 DEF a
  <1> QED BY <1>2, <1>7, <1>8

LEMMA HornerGrows ==
  ASSUME NEW d, NEW n \in Nat, \A k \in 1..n : d[k] \in Nat, NEW j \in 0..n
  PROVE  Horner(0, d, j) \in Nat /\ Horner(0, d, n) \in Nat /\ Horner(0, d, j) <= Horner(0, d, n)
  <1> DEFINE h(k) == Horner(0, d, k)
             T == {m \in j..n : ~(h(j) <= h(m))}
  <1>0. \A m \in 0..n : h(m) \in Nat
    <2> TAKE m \in 0..n
    <2>1. m \in Nat /\ \A k \in 1..m : d[k] \in Nat OBVIOUS
    <2> QED BY <2>1, HornerNat
  <1> SUFFICES ASSUME T /= {} PROVE FALSE BY <1>0
  <1>1. PICK m \in T : \A k \in T : m <= k
    <2>1. T \in SUBSET Nat OBVIOUS
    <2> HIDE DEF T
    <2> QED BY <2>1, LeastNat
  <1>2. m \in j..n /\ ~(h(j) <= h(m)) BY <1>1
  <1>3. m /= j BY <1>0, <1>2
  <1> DEFINE i0 == m - 1
  <1>4. i0 \in Nat /\ i0 + 1 = m /\ i0 \in j..n /\ i0 \in 0..n /\ m \in 1..n /\ m \in 0..n /\ ~(m <= i0)
    BY <1>2, <1>3
  <1>5. h(j) <= h(i0) BY <1>1, <1>4
  <1> HIDE DEF i0
  <1>6. h(m) = Base * h(i0) + d[m] BY <1>4, HornerStep
  <1> DEFINE a == h(i0)
             b == h(m)
             c == h(j)
  <1>7. a \in Nat /\ b \in Nat /\ c \in Nat /\ c <= a /\ ~(c <= b) /\ d[m] \in Nat
        /\ b = Base * a + d[m]
    BY <1>0, <1>2, <1>4, <1>5, <1>6
  <1> HIDE DEF a, b, c
  <1>8. a * Base \in Nat /\ a * Base >= a BY <1>7, BaseLemma, MulGrows
  <1>9. Base * a = a * Base BY <1>7, BaseLemma
  <1> QED BY <1>7, <1>8, <1>9

LEMMA LeastStep ==
  ASSUME NEW n \in Nat
  PROVE  Least(0) = 1 /\ Least(n) \in Nat /\ Least(n + 1) = Base * Least(n)
  <1> DEFINE z(m) == [k \in 1..m |-> 0]
  <1>1. Least(0) = 1 BY HornerStep DEF Least
  <1>2. Least(n) \in Nat BY HornerNat DEF Least
  <1>3. Horner(1, z(n + 1), n + 1) = Base * Horner(1, z(n + 1), n) + z(n + 1)[n + 1]
    <2> HIDE DEF z
    <2> QED BY HornerStep
  <1>4. Horner(1, z(n + 1), n) = Horner(1, z(n), n)
    <2>1. \A k \in 1..n : z(n + 1)[k] = z(n)[k] OBVIOUS
    <2> HIDE DEF z
    <2> QED BY <2>1, HornerSame
  <1>5. z(n + 1)[n + 1] = 0 OBVIOUS
  <1>6. Least(n) = Horner(1, z(n), n) /\ Least(n + 1) = Horner(1, z(n + 1), n + 1) BY DEF Least
  <1> HIDE DEF z
  <1>7. Least(n + 1) = Base * Least(n) + 0 BY <1>3, <1>4, <1>5, <1>6
  <1> QED BY <1>1, <1>2, <1>7, BaseLemma

-----------------------------------------------------------------------------
(* The types and their buffers *)

\* How large a number is.
Size0(x) == IF x < 0 THEN -x ELSE x

LEMMA HalfLemma ==
  ASSUME NEW t \in Types
  PROVE  /\ Half[8] \in Nat /\ Half[16] \in Nat /\ Half[32] \in Nat /\ Half[64] \in Nat
         /\ Half[Bits[t]] \in Nat /\ Half[Bits[t]] >= Base
  <1>1. /\ Half[8] \in Nat /\ Half[16] \in Nat /\ Half[32] \in Nat /\ Half[64] \in Nat
        /\ Base <= Half[8] /\ Base <= Half[16] /\ Base <= Half[32] /\ Base <= Half[64]
    BY HalfAssumption, BaseAssumption
  <1>2. Bits[t] \in {8, 16, 32, 64} BY DEF Types, Signed, Unsigned, Bits
  <1> QED BY <1>1, <1>2

LEMMA TypeLemma ==
  ASSUME NEW t \in Types
  PROVE  /\ MIN(t) \in Int /\ MAX(t) \in Nat /\ MIN(t) <= 0 /\ MAX(t) >= Base - 1
         /\ t \in Signed => MIN(t) <= -(Base - 1)
         /\ t \in Unsigned => MIN(t) = 0
         /\ t \in Signed <=> t \notin Unsigned
  <1>1. Half[Bits[t]] \in Nat /\ Half[Bits[t]] >= Base BY HalfLemma
  <1>2. t \in Signed <=> t \notin Unsigned BY DEF Types, Signed, Unsigned
  <1> DEFINE h == Half[Bits[t]]
  <1>3. MIN(t) = (IF t \in Signed THEN -h ELSE 0)
        /\ MAX(t) = (IF t \in Signed THEN h - 1 ELSE 2 * h - 1)
    BY DEF MIN, MAX
  <1> HIDE DEF h
  <1>4. h \in Nat /\ h >= Base /\ Base \in Nat /\ Base >= 2 BY <1>1, BaseLemma DEF h
  <1>5. CASE t \in Signed BY <1>2, <1>3, <1>4, <1>5
  <1>6. CASE t \notin Signed BY <1>2, <1>3, <1>4, <1>6
  <1> QED BY <1>5, <1>6

\* In its widest type a number has a buffer with a place for each of its
\* digits, and one for the sign if there may be one.
LEMMA RoomLemma ==
  ASSUME NEW t \in Types, NEW x \in MIN(t)..MAX(t)
  PROVE  /\ Size[Wide(t)] \in Nat \ {0} /\ x \in Int
         /\ Magnitude(Wide(t), x) = Size0(x) /\ Size0(x) \in Nat
         /\ t \in Unsigned => x >= 0 /\ Size0(x) < Least(Size[Wide(t)])
         /\ t \in Signed => Size[Wide(t)] >= 2 /\ Size0(x) < Least(Size[Wide(t)] - 1)
  <1> DEFINE w == Wide(t)
  <1>1. w \in {"u32", "u64", "i32", "i64"} /\ w \in Types
        /\ (t \in Unsigned => w \in {"u32", "u64"}) /\ (t \in Signed => w \in {"i32", "i64"})
    BY DEF Wide, Types, Signed, Unsigned
  <1>2. Size[w] \in Nat \ {0} BY <1>1, SizeAssumption
  <1>3. MIN(w) <= MIN(t) /\ MAX(t) <= MAX(w)
    <2>1. /\ Half[8] \in Nat /\ Half[16] \in Nat /\ Half[32] \in Nat /\ Half[64] \in Nat
          /\ Half[8] <= Half[16] /\ Half[16] <= Half[32]
      BY HalfAssumption, HalfLemma
    <2> USE <2>1 DEF Wide, MIN, MAX, Signed, Unsigned, Bits
    <2>2. CASE t = "u8" BY <2>2
    <2>3. CASE t = "u16" BY <2>3
    <2>4. CASE t = "u32" BY <2>4
    <2>5. CASE t = "u64" BY <2>5
    <2>6. CASE t = "i8" BY <2>6
    <2>7. CASE t = "i16" BY <2>7
    <2>8. CASE t = "i32" BY <2>8
    <2>9. CASE t = "i64" BY <2>9
    <2> QED BY <2>2, <2>3, <2>4, <2>5, <2>6, <2>7, <2>8, <2>9 DEF Types
  <1>4. w \in Signed => MIN(w) = -MAX(w) - 1
    <2>1. Half[Bits[w]] \in Nat BY <1>1, HalfLemma
    <2> QED BY <2>1 DEF MIN, MAX
  <1>5. (t \in Signed <=> t \notin Unsigned) /\ (w \in Signed <=> w \notin Unsigned)
    BY <1>1, TypeLemma
  <1>6. t \in Unsigned <=> w \in Unsigned
    BY <1>1, <1>5 DEF Signed, Unsigned
  <1>7. t \in Unsigned => MAX(w) < Least(Size[w]) BY <1>1, SizeAssumption
  <1>8. t \in Signed => -MIN(w) < Least(Size[w] - 1) BY <1>1, SizeAssumption
  <1>9. /\ MIN(w) \in Int /\ MAX(w) \in Nat /\ MIN(t) \in Int /\ MAX(t) \in Nat
        /\ (t \in Unsigned => MIN(t) = 0) /\ (w \in Signed => MIN(w) <= -(Base - 1))
    BY <1>1, TypeLemma
  <1> HIDE DEF w
  <1> DEFINE lo == MIN(w)
             hi == MAX(w)
             n == Size[w]
             big == Least(n)
             less == Least(n - 1)
  <1>10. /\ lo \in Int /\ hi \in Nat /\ x \in Int /\ lo <= x /\ x <= hi
         /\ (t \in Unsigned => x >= 0 /\ hi < big)
         /\ (t \in Signed => lo = -hi - 1 /\ -lo < less)
         /\ n \in Nat \ {0}
    BY <1>2, <1>3, <1>4, <1>5, <1>6, <1>7, <1>8, <1>9
  <1>11. big \in Int /\ less \in Int
    <2>1. n \in Nat /\ n - 1 \in Nat BY <1>10
    <2> HIDE DEF n
    <2>2. Least(n) \in Nat /\ Least(n - 1) \in Nat BY <2>1, LeastStep
    <2> QED BY <2>2
  <1>12. t \in Signed => n >= 2
    <2> SUFFICES ASSUME t \in Signed, n = 1 PROVE FALSE BY <1>10
    <2>1. less = 1
      <3>1. n - 1 = 0 OBVIOUS
      <3> HIDE DEF n
      <3> QED BY <3>1, LeastStep
    <2>2. lo <= -(Base - 1) BY <1>5, <1>6, <1>9
    <2> HIDE DEF lo, less
    <2> QED BY <2>1, <2>2, <1>10, BaseLemma
  <1>13. Magnitude(w, x) = IF x = lo /\ x < 0 THEN hi + 1 ELSE Size0(x)
    BY DEF Magnitude, Size0
  <1> HIDE DEF lo, hi, n, big, less
  <1>14. Magnitude(w, x) = Size0(x) /\ Size0(x) \in Nat
    <2>1. CASE t \in Unsigned BY <2>1, <1>10, <1>13 DEF Size0
    <2>2. CASE t \in Signed BY <2>2, <1>10, <1>13 DEF Size0
    <2> QED BY <2>1, <2>2, <1>5
  <1>15. t \in Unsigned => x >= 0 /\ Size0(x) < big BY <1>10, <1>11 DEF Size0
  <1>16. t \in Signed => Size0(x) < less
    <2> SUFFICES ASSUME t \in Signed PROVE Size0(x) < less OBVIOUS
    <2>1. Size0(x) <= -lo BY <1>10 DEF Size0
    <2>2. Size0(x) \in Int BY <1>10 DEF Size0
    <2> QED BY <2>1, <2>2, <1>10, <1>11
  <1> QED BY <1>2, <1>12, <1>14, <1>15, <1>16 DEF w, n, big, less

-----------------------------------------------------------------------------
(* Writing.  The digits in the buffer, behind what is left of the number,    *)
(* are the number; and there are places for as many digits as are left.      *)

Places == Size[Wide(source)]
\* The first place that holds a digit, and the number of those that do not yet.
First == IF phase = "writing" \/ source \in Signed THEN i + 1 ELSE i
Room  == IF source \in Signed THEN i ELSE i + 1

Filled(w) ==
  /\ source \in Types /\ value \in MIN(source)..MAX(source)
  /\ Places \in Nat /\ v \in Nat /\ i \in Nat
  /\ w \in 0..Places /\ DOMAIN buf = 0..(Places - 1)
  /\ \A k \in w..(Places - 1) : buf[k] \in Digit
  /\ Horner(v, From(buf, w), Places - w) = Size0(value)

Writing ==
  /\ Filled(i + 1)
  /\ v < Least(Room) /\ Room >= 1 /\ (i + 1 < Places => v > 0)

Written ==
  /\ Filled(First) /\ v = 0
  /\ First < Places /\ (buf[First] = 0 => First + 1 = Places)

LEMMA SerializeWriting ==
  ASSUME Serialize
  PROVE  Writing' /\ phase' = "writing"
  <1>0. PICK t \in Types : \E x \in MIN(t)..MAX(t) :
          LET last == Size[Wide(t)] - 1 IN
          /\ source' = t /\ value' = x
          /\ v' = Magnitude(Wide(t), x)
          /\ i' = last /\ buf' = [k \in 0..last |-> Unset]
    BY DEF Serialize
  <1>1. PICK x \in MIN(t)..MAX(t) :
          /\ source' = t /\ value' = x
          /\ v' = Magnitude(Wide(t), x)
          /\ i' = Size[Wide(t)] - 1 /\ buf' = [k \in 0..(Size[Wide(t)] - 1) |-> Unset]
    BY <1>0
  <1> DEFINE n == Size[Wide(t)]
  <1>2. /\ n \in Nat \ {0} /\ v' = Size0(x) /\ Size0(x) \in Nat
        /\ t \in Unsigned => Size0(x) < Least(n)
        /\ t \in Signed => n >= 2 /\ Size0(x) < Least(n - 1)
    BY <1>1, RoomLemma
  <1>3. source' = t /\ value' = x /\ i' = n - 1 /\ buf' = [k \in 0..(n - 1) |-> Unset]
    BY <1>1
  <1>4. Places' = n BY <1>3 DEF Places
  <1>5. t \in Signed <=> t \notin Unsigned BY TypeLemma
  <1> HIDE DEF n
  <1>6. i' + 1 = n BY <1>2, <1>3
  <1>7. Filled(i + 1)'
    <2>1. \A k \in (i' + 1)..(n - 1) : buf'[k] \in Digit BY <1>2, <1>6
    <2>2. Horner(v', From(buf, i + 1)', n - (i' + 1)) = v'
      <3>1. n - (i' + 1) = 0 BY <1>2, <1>6
      <3> QED BY <3>1, HornerStep
    <2>3. i' \in Nat /\ i' + 1 \in 0..n BY <1>2, <1>3
    <2>4. DOMAIN buf' = 0..(n - 1) BY <1>3
    <2> QED BY <1>1, <1>2, <1>3, <1>4, <2>1, <2>2, <2>3, <2>4 DEF Filled
  <1>8. v' < Least(Room') /\ Room' >= 1
    <2>1. CASE t \in Signed
      <3>1. Room' = n - 1 BY <2>1, <1>3 DEF Room
      <3> QED BY <3>1, <2>1, <1>2
    <2>2. CASE t \notin Signed
      <3>1. Room' = n BY <2>2, <1>3, <1>6 DEF Room
      <3> QED BY <3>1, <2>2, <1>2, <1>5
    <2> QED BY <2>1, <2>2
  <1>9. ~(i' + 1 < Places') BY <1>2, <1>4, <1>6
  <1>10. phase' = "writing" BY DEF Serialize
  <1> QED BY <1>7, <1>8, <1>9, <1>10 DEF Writing

\* A quotient needs one place less.
LEMMA QuotientRoom ==
  ASSUME NEW a \in Nat, NEW r \in Nat, r >= 1, a < Least(r)
  PROVE  /\ a \div Base \in Nat /\ a \div Base < Least(r - 1)
         /\ a \div Base /= 0 => r >= 2
  <1> DEFINE q == a \div Base
             c == a % Base
             l == Least(r - 1)
  <1>1. q \in Int /\ c \in Nat /\ c < Base /\ a = Base * q + c BY DivMod, BaseLemma
  <1>2. l \in Nat /\ Least(r) = Base * l
    <2>1. r - 1 \in Nat /\ (r - 1) + 1 = r OBVIOUS
    <2> QED BY <2>1, LeastStep
  <1>3. r = 1 => l = 1 BY LeastStep
  <1> HIDE DEF q, c, l
  <1>4. q \in Nat
    <2> SUFFICES ASSUME q < 0 PROVE FALSE BY <1>1
    <2>1. -q - 1 \in Nat /\ Base * (-q - 1) \in Nat BY <1>1, BaseLemma
    <2>2. Base * q = -(Base * (-q - 1)) - Base BY <1>1, BaseLemma
    <2> QED BY <1>1, <2>1, <2>2, BaseLemma
  <1>5. q < l
    <2> SUFFICES ASSUME q >= l PROVE FALSE BY <1>4, <1>2
    <2>1. q - l \in Nat /\ Base * (q - l) \in Nat BY <1>4, <1>2, BaseLemma
    <2>2. Base * q = Base * l + Base * (q - l) BY <1>4, <1>2, BaseLemma
    <2>3. Base * q \in Nat /\ Base * l \in Nat BY <1>4, <1>2, BaseLemma
    <2> DEFINE s == Base * q
               u == Base * l
               z == Base * (q - l)
    <2>4. /\ s \in Nat /\ u \in Nat /\ z \in Nat /\ s = u + z /\ a < u /\ a = s + c
      BY <1>1, <1>2, <2>1, <2>2, <2>3
    <2> HIDE DEF s, u, z
    <2> QED BY <2>4, <1>1
  <1>6. q /= 0 => r >= 2 BY <1>3, <1>4, <1>5
  <1> QED BY <1>4, <1>5, <1>6 DEF q, l

LEMMA WriteDigitKept ==
  ASSUME phase = "writing", Writing, WriteDigit
  PROVE  phase' /= "panic" /\ \/ phase' = "writing" /\ Writing'
                              \/ phase' = "written" /\ Written'
  <1> DEFINE q == v \div Base
             c == v % Base
             n == Places
  <1>1. /\ buf' = [buf EXCEPT ![i] = c] /\ v' = q /\ source' = source /\ value' = value
        /\ IF Moves /\ i = 0 THEN phase' = "panic" /\ i' = i
           ELSE /\ i' = IF Moves THEN i - 1 ELSE i
                /\ phase' = IF q = 0 THEN "written" ELSE phase
    BY DEF WriteDigit
  <1>2. /\ source \in Types /\ value \in MIN(source)..MAX(source)
        /\ n \in Nat /\ v \in Nat /\ i \in Nat /\ i + 1 \in 0..n /\ DOMAIN buf = 0..(n - 1)
        /\ \A k \in (i + 1)..(n - 1) : buf[k] \in Digit
        /\ Horner(v, From(buf, i + 1), n - (i + 1)) = Size0(value)
        /\ v < Least(Room) /\ Room >= 1 /\ (i + 1 < n => v > 0)
    BY DEF Writing, Filled
  <1>3. Room \in Nat BY <1>2 DEF Room
  <1>4. q \in Nat /\ q < Least(Room - 1) /\ (q /= 0 => Room >= 2)
    BY <1>2, <1>3, QuotientRoom
  <1>5. c \in Digit /\ c \in Nat /\ v = Base * q + c
    <2>1. c \in Nat /\ c < Base /\ v = Base * q + c BY <1>2, DivMod, BaseLemma
    <2> HIDE DEF c, q
    <2> QED BY <2>1, BaseLemma DEF Digit
  <1>6. Moves <=> (source \in Signed \/ q /= 0) BY DEF Moves
  <1>7. Places' = n BY <1>1 DEF Places
  <1> HIDE DEF q, c, n
  <1>8. ~(Moves /\ i = 0)
    <2>1. CASE source \in Signed BY <2>1, <1>2 DEF Room
    <2>2. CASE source \notin Signed BY <2>2, <1>4, <1>6 DEF Room
    <2> QED BY <2>1, <2>2
  <1>9. i' = (IF Moves THEN i - 1 ELSE i) /\ phase' = IF q = 0 THEN "written" ELSE "writing"
    BY <1>1, <1>8
  <1>10. i' \in Nat BY <1>2, <1>8, <1>9
  <1>11. /\ DOMAIN buf' = 0..(n - 1) /\ buf'[i] = c
         /\ \A k \in i..(n - 1) : buf'[k] \in Digit
         /\ \A k \in (i + 1)..(n - 1) : buf'[k] = buf[k]
    <2>1. i \in 0..(n - 1) BY <1>2
    <2>2. DOMAIN buf' = 0..(n - 1) /\ buf'[i] = c BY <1>1, <1>2, <2>1
    <2>3. \A k \in (i + 1)..(n - 1) : buf'[k] = buf[k] BY <1>1, <1>2
    <2>4. ASSUME NEW k \in i..(n - 1) PROVE buf'[k] \in Digit
      <3>1. CASE k = i BY <3>1, <2>2, <1>5
      <3>2. CASE k /= i
        <4>1. k \in (i + 1)..(n - 1) BY <3>2, <1>2
        <4> QED BY <4>1, <2>3, <1>2
      <3> QED BY <3>1, <3>2
    <2> QED BY <2>2, <2>3, <2>4
  <1> DEFINE e == [j \in 1..(n - i) |-> buf'[i + j - 1]]
  <1>12. Horner(q, e, n - i) = Size0(value)
    <2> DEFINE d == From(buf, i + 1)
               m == n - (i + 1)
    <2>1. e = [j \in 1..(n - i) |-> buf'[i + j - 1]] OBVIOUS
    <2>2. d = [j \in 1..m |-> buf[(i + 1) + j - 1]] BY DEF From, Places, n
    <2>3. m \in Nat /\ n - i = m + 1 BY <1>2
    <2>4. \A k \in 1..m : e[k + 1] = d[k]
      <3> SUFFICES ASSUME NEW k \in 1..m PROVE e[k + 1] = d[k] OBVIOUS
      <3> HIDE DEF e, d
      <3>1. k + 1 \in 1..(n - i) /\ i + (k + 1) - 1 = i + k /\ (i + 1) + k - 1 = i + k
            /\ i + k \in (i + 1)..(n - 1)
        BY <1>2, <2>3
      <3>2. e[k + 1] = buf'[i + (k + 1) - 1] BY <2>1, <3>1
      <3>3. d[k] = buf[(i + 1) + k - 1] BY <2>2
      <3> QED BY <3>1, <3>2, <3>3, <1>11
    <2>5. e[1] = c
      <3> HIDE DEF e
      <3>1. 1 \in 1..(n - i) /\ i + 1 - 1 = i BY <1>2, <2>3
      <3> QED BY <3>1, <2>1, <1>11
    <2> HIDE DEF e, d, m
    <2>6. Horner(q, e, m + 1) = Horner(Base * q + e[1], d, m) BY <2>3, <2>4, HornerCons
    <2>7. Horner(v, d, m) = Size0(value) BY <1>2 DEF d, m
    <2> QED BY <2>3, <2>5, <2>6, <2>7, <1>5
  <1>13. i \in 0..n BY <1>2
  <1>14. ASSUME NEW w, w' = i PROVE Filled(w)'
    <2>1. From(buf, w)' = e BY <1>7, <1>14 DEF From, Places
    <2> HIDE DEF e
    <2>2. Horner(v', From(buf, w)', Places' - w') = Size0(value')
      BY <2>1, <1>1, <1>7, <1>12, <1>14
    <2>3. v' \in Nat /\ i' \in Nat /\ Places' \in Nat /\ w' \in 0..Places'
          /\ DOMAIN buf' = 0..(Places' - 1) /\ source' \in Types
          /\ value' \in MIN(source')..MAX(source')
      BY <1>1, <1>2, <1>4, <1>7, <1>10, <1>11, <1>13, <1>14
    <2>4. \A k \in w'..(Places' - 1) : buf'[k] \in Digit BY <1>7, <1>11, <1>14
    <2> QED BY <2>2, <2>3, <2>4 DEF Filled
  <1> HIDE DEF e
  <1>15. CASE q /= 0
    <2>1. Moves /\ phase' = "writing" /\ i' + 1 = i BY <1>2, <1>6, <1>9, <1>15, <1>10
    <2>2. Filled(i + 1)' BY <2>1, <1>14
    <2>3. Room' = Room - 1
      <3>1. i' = i - 1 /\ i' \in Nat /\ i \in Nat /\ source' = source BY <2>1, <1>1, <1>2, <1>10
      <3>2. CASE source \in Signed BY <3>1, <3>2 DEF Room
      <3>3. CASE source \notin Signed
        <4>1. Room' = i' + 1 /\ Room = i + 1 BY <3>1, <3>3 DEF Room
        <4> QED BY <4>1, <3>1
      <3> QED BY <3>2, <3>3
    <2>4. Room' >= 1 /\ v' < Least(Room') BY <2>3, <1>1, <1>3, <1>4, <1>15
    <2>5. v' > 0 BY <1>1, <1>4, <1>15
    <2> QED BY <2>1, <2>2, <2>4, <2>5 DEF Writing
  <1>16. CASE q = 0
    <2>1. phase' = "written" /\ v' = 0 BY <1>1, <1>9, <1>16
    <2>2. First' = i BY <2>1, <1>1, <1>2, <1>6, <1>9, <1>16 DEF First
    <2>3. Filled(First)' BY <2>2, <1>14
    <2>4. First' < Places' BY <2>2, <1>2, <1>7
    <2>5. ASSUME buf'[i] = 0 PROVE i + 1 = n
      <3>1. Base * q = 0 BY <1>16, BaseLemma
      <3>2. v = 0
        <4> HIDE DEF c
        <4> QED BY <1>5, <1>11, <2>5, <3>1
      <3> QED BY <3>2, <1>2
    <2> QED BY <2>1, <2>2, <2>3, <2>4, <2>5, <1>7 DEF Written
  <1>17. phase' /= "panic" BY <1>9
  <1> QED BY <1>4, <1>15, <1>16, <1>17

-----------------------------------------------------------------------------
(* What is behind the sign *)

Char == Digit \cup {Minus, Other}
SignOf(s) == IF Negative(s) THEN 1 ELSE 0

LEMMA DigitIsNat == \A c \in Digit : c \in Nat /\ c <= Base - 1 /\ c /= Minus /\ c \in Char
  BY BaseLemma DEF Digit, Minus, Char

LEMMA FiguresLemma ==
  ASSUME NEW s \in Seq(Char)
  PROVE  /\ SignOf(s) \in {0, 1} /\ Len(s) \in Nat /\ Len(Figures(s)) \in Nat
         /\ Len(Figures(s)) = Len(s) - SignOf(s)
         /\ \A k \in 1..Len(Figures(s)) : Figures(s)[k] = s[k + SignOf(s)]
  <1>1. Len(s) \in Nat BY LenProperties
  <1>2. CASE Negative(s)
    <2>1. s /= <<>> BY <1>2 DEF Negative
    <2>2. Tail(s) \in Seq(Char) /\ Len(Tail(s)) = Len(s) - 1
          /\ \A k \in 1..Len(Tail(s)) : Tail(s)[k] = s[k + 1]
      BY <2>1, HeadTailProperties
    <2>3. Figures(s) = Tail(s) /\ SignOf(s) = 1 BY <1>2 DEF Figures, SignOf
    <2>4. Len(Tail(s)) \in Nat BY <2>2, LenProperties
    <2> QED BY <1>1, <2>2, <2>3, <2>4
  <1>3. CASE ~Negative(s)
    <2>1. Figures(s) = s /\ SignOf(s) = 0 BY <1>3 DEF Figures, SignOf
    <2>2. \A k \in 1..Len(s) : k + 0 = k BY <1>1
    <2> QED BY <1>1, <2>1, <2>2
  <1> QED BY <1>2, <1>3

\* Digits, with a sign before them or not.
LEMMA FiguresOf ==
  ASSUME NEW m \in Nat \ {0}, NEW d \in [1..m -> Digit], NEW s
  PROVE  /\ s = d => s \in Seq(Char) /\ ~Negative(s) /\ Figures(s) = d
         /\ (s = [j \in 1..(m + 1) |-> IF j = 1 THEN Minus ELSE d[j - 1]]) =>
              s \in Seq(Char) /\ Negative(s) /\ Figures(s) = d
  <1>1. d \in Seq(Digit) /\ Len(d) = m BY SeqDef
  <1>2. 1 \in 1..m OBVIOUS
  <1>3. ASSUME s = d PROVE s \in Seq(Char) /\ ~Negative(s) /\ Figures(s) = d
    <2>1. s \in Seq(Char)
      <3>1. d \in [1..m -> Char] BY DigitIsNat
      <3> QED BY <3>1, <1>3
    <2>2. ~Negative(s)
      <3>1. d[1] \in Digit BY <1>2
      <3> QED BY <3>1, <1>3, DigitIsNat DEF Negative
    <2> QED BY <2>1, <2>2, <1>3 DEF Figures
  <1>4. ASSUME s = [j \in 1..(m + 1) |-> IF j = 1 THEN Minus ELSE d[j - 1]]
        PROVE  s \in Seq(Char) /\ Negative(s) /\ Figures(s) = d
    <2>1. \A j \in 1..(m + 1) : s[j] \in Char
      <3> SUFFICES ASSUME NEW j \in 1..(m + 1) PROVE s[j] \in Char OBVIOUS
      <3>1. CASE j = 1 BY <3>1, <1>4 DEF Char
      <3>2. CASE j /= 1
        <4>1. j - 1 \in 1..m BY <3>2
        <4>2. s[j] = d[j - 1] BY <3>2, <1>4
        <4> QED BY <4>1, <4>2, DigitIsNat
      <3> QED BY <3>1, <3>2
    <2>2. s \in [1..(m + 1) -> Char]
      <3>1. s = [j \in 1..(m + 1) |-> s[j]] BY <1>4
      <3> QED BY <3>1, <2>1
    <2>3. s \in Seq(Char) /\ Len(s) = m + 1
      <3>1. m + 1 \in Nat OBVIOUS
      <3> QED BY <2>2, <3>1
    <2>4. s[1] = Minus /\ s /= <<>>
      <3>1. 1 \in 1..(m + 1) OBVIOUS
      <3>2. s[1] = Minus BY <3>1, <1>4
      <3> QED BY <3>2, <2>3
    <2>5. Negative(s) BY <2>4 DEF Negative
    <2>6. Figures(s) = d
      <3>1. Figures(s) = Tail(s) BY <2>5 DEF Figures
      <3>2. Tail(s) \in Seq(Char) /\ Len(Tail(s)) = m /\ \A k \in 1..m : Tail(s)[k] = s[k + 1]
        BY <2>3, <2>4, HeadTailProperties
      <3>3. ASSUME NEW k \in 1..m PROVE Tail(s)[k] = d[k]
        <4>1. k + 1 \in 1..(m + 1) /\ k + 1 /= 1 /\ (k + 1) - 1 = k OBVIOUS
        <4>2. s[k + 1] = d[(k + 1) - 1] BY <4>1, <1>4
        <4> QED BY <4>1, <4>2, <3>2
      <3> DEFINE u == Tail(s)
      <3>4. u \in Seq(Char) /\ Len(u) = m /\ \A k \in 1..m : u[k] = d[k] BY <3>2, <3>3
      <3> HIDE DEF u
      <3>5. u \in [1..m -> Char] BY <3>4, LenProperties
      <3>6. u = [k \in 1..m |-> u[k]] BY <3>5
      <3>7. d = [k \in 1..m |-> d[k]] OBVIOUS
      <3> QED BY <3>1, <3>4, <3>6, <3>7 DEF u
    <2> QED BY <2>3, <2>5, <2>6
  <1> QED BY <1>3, <1>4

LEMMA WriteNumberExact ==
  ASSUME phase = "written", Written, WriteNumber
  PROVE  text' \in Seq(Char) /\ WrittenExact'
  <1> DEFINE n == Places
             w == First
             m == n - w
             d == From(buf, w)
  <1>1. /\ source \in Types /\ value \in MIN(source)..MAX(source)
        /\ n \in Nat /\ i \in Nat /\ w \in 0..n /\ DOMAIN buf = 0..(n - 1)
        /\ \A k \in w..(n - 1) : buf[k] \in Digit
        /\ Horner(0, d, m) = Size0(value)
        /\ w < n /\ (buf[w] = 0 => w + 1 = n)
    BY DEF Written, Filled
  <1>2. /\ text' = (IF source \in Unsigned THEN From(buf, i)
                    ELSE IF value < 0 THEN From([buf EXCEPT ![i] = Minus], i)
                    ELSE From(buf, i + 1))
        /\ phase' = "text" /\ source' = source /\ value' = value
    BY DEF WriteNumber
  <1>3. m \in Nat \ {0} BY <1>1
  <1>4. d = [j \in 1..m |-> buf[w + j - 1]] BY DEF From, Places
  <1>5. (source \in Signed <=> source \notin Unsigned) /\ MIN(source) \in Int /\ MAX(source) \in Nat
        /\ (source \in Unsigned => MIN(source) = 0)
    BY <1>1, TypeLemma
  <1>6. value \in Int /\ (source \in Unsigned => ~(value < 0)) BY <1>1, <1>5
  <1>7. w = IF source \in Signed THEN i + 1 ELSE i BY DEF First
  <1>8. d \in [1..m -> Digit]
    <2>1. ASSUME NEW j \in 1..m PROVE buf[w + j - 1] \in Digit
      <3>1. w + j - 1 \in w..(n - 1) BY <1>1
      <3> QED BY <3>1, <1>1
    <2> QED BY <2>1, <1>4
  <1>9. d[1] = 0 => m = 1
    <2>1. 1 \in 1..m /\ w + 1 - 1 = w BY <1>1, <1>3
    <2>2. d[1] = buf[w] BY <2>1, <1>4
    <2> HIDE DEF d
    <2> QED BY <2>2, <1>1
  <1>10. From([buf EXCEPT ![i] = Minus], i) =
           [j \in 1..(m + 1) |-> IF j = 1 THEN Minus ELSE d[j - 1]]
         \/ source \in Unsigned
    <2> SUFFICES ASSUME source \in Signed
                 PROVE  From([buf EXCEPT ![i] = Minus], i) =
                          [j \in 1..(m + 1) |-> IF j = 1 THEN Minus ELSE d[j - 1]]
      BY <1>5
    <2> DEFINE b == [buf EXCEPT ![i] = Minus]
    <2>1. w = i + 1 /\ n - i = m + 1 BY <1>1, <1>7
    <2>2. From(b, i) = [j \in 1..(n - i) |-> b[i + j - 1]] BY DEF From, Places
    <2>3. ASSUME NEW j \in 1..(m + 1)
          PROVE  b[i + j - 1] = IF j = 1 THEN Minus ELSE d[j - 1]
      <3>1. CASE j = 1
        <4>1. i + j - 1 = i /\ i \in 0..(n - 1) BY <3>1, <1>1, <2>1
        <4>2. b[i] = Minus BY <4>1, <1>1
        <4> QED BY <4>1, <4>2, <3>1
      <3>2. CASE j /= 1
        <4>1. /\ i + j - 1 \in 0..(n - 1) /\ i + j - 1 /= i /\ j - 1 \in 1..m
              /\ w + (j - 1) - 1 = i + j - 1
          BY <3>2, <1>1, <1>3, <2>1
        <4>2. b[i + j - 1] = buf[i + j - 1] BY <4>1, <1>1
        <4>3. d[j - 1] = buf[w + (j - 1) - 1] BY <4>1, <1>4
        <4> QED BY <4>1, <4>2, <4>3, <3>2
      <3> QED BY <3>1, <3>2
    <2> HIDE DEF b, d, m
    <2>4. From(b, i) = [j \in 1..(m + 1) |-> b[i + j - 1]] BY <2>1, <2>2
    <2> QED BY <2>3, <2>4 DEF b
  <1> HIDE DEF n, w, m, d
  <1>11. /\ text' \in Seq(Char) /\ (Negative(text') <=> value < 0) /\ Figures(text') = d
    <2>1. CASE value < 0
      <3>1. source \in Signed /\ text' = From([buf EXCEPT ![i] = Minus], i)
        BY <2>1, <1>2, <1>5, <1>6
      <3>2. text' = [j \in 1..(m + 1) |-> IF j = 1 THEN Minus ELSE d[j - 1]]
        BY <3>1, <1>5, <1>10
      <3> QED BY <3>2, <2>1, <1>3, <1>8, FiguresOf
    <2>2. CASE ~(value < 0)
      <3>1. text' = From(buf, w)
        <4>1. CASE source \in Unsigned BY <4>1, <1>2, <1>5, <1>7
        <4>2. CASE source \notin Unsigned BY <4>2, <2>2, <1>2, <1>5, <1>7
        <4> QED BY <4>1, <4>2
      <3>2. text' = d BY <3>1 DEF d, w
      <3> QED BY <3>2, <2>2, <1>3, <1>8, FiguresOf
    <2> QED BY <2>1, <2>2
  <1>12. Len(d) = m BY <1>3, <1>8
  <1>13. IsInteger(d, m)
    <2>1. \A k \in 1..m : d[k] \in Digit BY <1>8
    <2>2. m > 0 BY <1>3
    <2> QED BY <2>1, <2>2, <1>9 DEF IsInteger
  <1> QED BY <1>1, <1>2, <1>11, <1>12, <1>13 DEF WrittenExact, Size0

-----------------------------------------------------------------------------
(* Reading *)

Ends(s) == {n \in 1..Len(Figures(s)) : IsInteger(Figures(s), n)}
Longest(S) == CHOOSE k \in S : \A j \in S : j <= k
WithSign(s, x) == IF Negative(s) THEN -x ELSE x
IntegerAt(s, n) == WithSign(s, Horner(0, Figures(s), n))

\* How parsing s as a t may end: as told, with the number x and the cursor at p.
Outcome(how, t, s, x, p) ==
  IF Ends(s) = {} THEN how /= "ok"
  ELSE IF how = "ok"
  THEN x = IntegerAt(s, Longest(Ends(s))) /\ p = Longest(Ends(s)) + SignOf(s) /\ Has(t, x)
  ELSE /\ how = "InvalidNumber"
       /\ ~Has(t, IntegerAt(s, Longest(Ends(s)))) \/ (t \in Unsigned /\ Negative(s))

Done == {"ok", "InvalidNumber", "InvalidType", "UnexpectedEof"}

LEMMA OutcomeIsExact ==
  ASSUME text \in Seq(Char)
  PROVE  ReadExact <=> (phase \in Done => Outcome(phase, target, text, sum, at))
  <1>1. SignOf(text) = Len(text) - Len(Figures(text))
    BY FiguresLemma
  <1> QED BY <1>1, Zenon DEF ReadExact, Outcome, Done, Ends, Longest, IntegerAt, WithSign

LEMMA LongestLemma ==
  ASSUME NEW m \in Nat, NEW S \in SUBSET (1..m), S /= {}
  PROVE  Longest(S) \in S /\ \A j \in S : j <= Longest(S)
  <1> DEFINE T == {k \in Nat : m - k \in S}
  <1>1. T \in SUBSET Nat OBVIOUS
  <1>2. T /= {}
    <2>1. PICK s \in S : TRUE OBVIOUS
    <2>2. m - s \in Nat /\ m - (m - s) = s OBVIOUS
    <2> QED BY <2>1, <2>2
  <1>3. PICK k \in T : \A j \in T : k <= j
    <2> HIDE DEF T
    <2> QED BY <1>1, <1>2, LeastNat
  <1>4. m - k \in S /\ k \in Nat BY <1>3
  <1>5. ASSUME NEW j \in S PROVE j <= m - k
    <2>1. m - j \in Nat /\ m - (m - j) = j OBVIOUS
    <2>2. m - j \in T BY <2>1
    <2>3. k <= m - j BY <2>2, <1>3
    <2>4. j \in Int OBVIOUS
    <2> HIDE DEF T
    <2> QED BY <2>3, <2>4, <1>4
  <1>6. \E e \in S : \A j \in S : j <= e BY <1>4, <1>5
  <1> QED BY <1>6, Zenon DEF Longest

LEMMA LongestIs ==
  ASSUME NEW m \in Nat, NEW S \in SUBSET (1..m), NEW k \in S, \A j \in S : j <= k
  PROVE  Longest(S) = k
  <1>1. Longest(S) \in S /\ \A j \in S : j <= Longest(S) BY LongestLemma
  <1> DEFINE e == Longest(S)
  <1>2. e \in Int /\ k \in Int /\ e <= k /\ k <= e
    <2>1. e \in 1..m /\ k \in 1..m BY <1>1
    <2>2. e <= k /\ k <= e BY <1>1
    <2> HIDE DEF e
    <2> QED BY <2>1, <2>2
  <1> HIDE DEF e
  <1>3. e = k BY <1>2
  <1> QED BY <1>3 DEF e

LEMMA EndsIn == ASSUME NEW s PROVE Ends(s) \in SUBSET (1..Len(Figures(s)))
  BY DEF Ends

\* Without a digit behind the sign there is no integer.
LEMMA NoEnds ==
  ASSUME NEW s, Len(Figures(s)) \in Nat, Len(Figures(s)) = 0 \/ Figures(s)[1] \notin Digit
  PROVE  Ends(s) = {}
  <1> SUFFICES ASSUME NEW n \in Ends(s) PROVE FALSE OBVIOUS
  <1>1. n \in 1..Len(Figures(s)) /\ IsInteger(Figures(s), n) BY DEF Ends
  <1>2. 1 \in 1..n BY <1>1
  <1>3. Figures(s)[1] \in Digit BY <1>1, <1>2 DEF IsInteger
  <1> QED BY <1>1, <1>3

\* An integer that begins with a zero is one.
LEMMA ZeroEnds ==
  ASSUME NEW s, Len(Figures(s)) \in Nat, Len(Figures(s)) >= 1, Figures(s)[1] = 0
  PROVE  Ends(s) /= {} /\ Longest(Ends(s)) = 1 /\ IntegerAt(s, 1) = 0
  <1> DEFINE d == Figures(s)
             m == Len(d)
  <1>1. 0 \in Digit BY BaseLemma DEF Digit
  <1>2. IsInteger(d, 1) BY <1>1 DEF IsInteger
  <1>3. 1 \in Ends(s) BY <1>2 DEF Ends
  <1>4. \A j \in Ends(s) : j <= 1 BY DEF Ends, IsInteger
  <1>5. Longest(Ends(s)) = 1 BY <1>3, <1>4, EndsIn, LongestIs
  <1>6. Horner(0, d, 1) = 0
    <2>1. Horner(0, d, 0 + 1) = Base * Horner(0, d, 0) + d[0 + 1] /\ Horner(0, d, 0) = 0
      BY HornerStep
    <2>2. 0 + 1 = 1 /\ Base * 0 = 0 BY BaseLemma
    <2> QED BY <2>1, <2>2
  <1> QED BY <1>3, <1>5, <1>6 DEF IntegerAt, WithSign

\* The digits read so far.
Count == at + pos - SignOf(text)
Reading ==
  LET d == Figures(text) IN
  /\ target \in Types /\ at \in Nat /\ pos \in Nat /\ Count \in 1..Len(d)
  /\ (\A k \in 1..Count : d[k] \in Digit) /\ d[1] /= 0
  /\ sum = IntegerAt(text, Count) /\ Has(target, sum)
  /\ Negative(text) => target \notin Unsigned

LEMMA SmallFits ==
  ASSUME NEW t \in Types, NEW c \in Digit
  PROVE  Has(t, 0) /\ Has(t, c) /\ (t \notin Unsigned => Has(t, -c))
  <1>1. /\ MIN(t) \in Int /\ MAX(t) \in Nat /\ MIN(t) <= 0 /\ MAX(t) >= Base - 1
        /\ (t \notin Unsigned => MIN(t) <= -(Base - 1))
    BY TypeLemma
  <1>2. c \in Nat /\ c <= Base - 1 BY DigitIsNat
  <1> DEFINE lo == MIN(t)
             hi == MAX(t)
  <1> HIDE DEF lo, hi
  <1>3. /\ lo \in Int /\ hi \in Nat /\ lo <= 0 /\ hi >= Base - 1
        /\ (t \notin Unsigned => lo <= -(Base - 1))
    BY <1>1 DEF lo, hi
  <1>4. (lo <= 0 /\ 0 <= hi) /\ (lo <= c /\ c <= hi)
        /\ (t \notin Unsigned => lo <= -c /\ -c <= hi)
    BY <1>2, <1>3, BaseLemma
  <1> QED BY <1>4 DEF Has, lo, hi

LEMMA ParseRead ==
  ASSUME Parse, text \in Seq(Char)
  PROVE  /\ phase' \in Done \cup {"reading"} /\ text' = text
         /\ phase' \in Done => Outcome(phase', target', text, sum', at')
         /\ phase' = "reading" => Reading'
  <1> DEFINE d == Figures(text)
             g == SignOf(text)
             m == Len(d)
  <1>1. PICK t \in Types :
          /\ target' = t
          /\ \/ Negative(text) /\ t \in Unsigned /\ Parsed("InvalidNumber", 0, 0)
             \/ Negative(text) /\ t \in Signed /\ FirstDigit(1, TRUE)
             \/ ~Negative(text) /\ FirstDigit(0, FALSE)
    BY DEF Parse
  <1>2. pos' = 0 /\ text' = text BY DEF Parse
  <1>3. /\ g \in {0, 1} /\ Len(text) \in Nat /\ m \in Nat /\ m = Len(text) - g
        /\ \A k \in 1..m : d[k] = text[k + g]
    BY FiguresLemma
  <1>4. t \in Signed <=> t \notin Unsigned BY TypeLemma
  <1>5. CASE Negative(text) /\ t \in Unsigned /\ Parsed("InvalidNumber", 0, 0)
    <2>1. phase' = "InvalidNumber" BY <1>5 DEF Parsed
    <2>2. Outcome("InvalidNumber", t, text, sum', at') BY <1>5 DEF Outcome
    <2> QED BY <2>1, <2>2, <1>1, <1>2 DEF Done
  <1>6. ASSUME FirstDigit(g, Negative(text)), Negative(text) => t \notin Unsigned
        PROVE  /\ phase' \in Done \cup {"reading"}
               /\ phase' \in Done => Outcome(phase', t, text, sum', at')
               /\ phase' = "reading" => Reading'
    <2>1. CASE g = Len(text) /\ Parsed("UnexpectedEof", g, 0)
      <3>1. phase' = "UnexpectedEof" BY <2>1 DEF Parsed
      <3>2. m = 0 BY <2>1, <1>3
      <3>3. Ends(text) = {} BY <3>2, NoEnds
      <3> QED BY <3>1, <3>3 DEF Done, Outcome
    <2>2. CASE g < Len(text) /\ ~IsDigitAt(g) /\ Parsed("InvalidType", g, 0)
      <3>1. phase' = "InvalidType" BY <2>2 DEF Parsed
      <3>2. 1 \in 1..m /\ 1 + g = g + 1 BY <2>2, <1>3
      <3>3. d[1] = text[g + 1] BY <3>2, <1>3
      <3>4. text[g + 1] \notin Digit BY <2>2 DEF IsDigitAt
      <3>5. Ends(text) = {} BY <3>3, <3>4, <1>3, NoEnds
      <3> QED BY <3>1, <3>5 DEF Done, Outcome
    <2>3. CASE IsDigitAt(g) /\ text[g + 1] = 0 /\ Parsed("ok", g + 1, 0)
      <3>1. phase' = "ok" /\ at' = g + 1 /\ sum' = 0 BY <2>3 DEF Parsed
      <3>2. 1 \in 1..m /\ 1 + g = g + 1 BY <2>3, <1>3 DEF IsDigitAt
      <3>3. d[1] = 0 /\ m >= 1 BY <2>3, <3>2, <1>3
      <3>4. Ends(text) /= {} /\ Longest(Ends(text)) = 1 /\ IntegerAt(text, 1) = 0
        BY <3>3, <1>3, ZeroEnds
      <3>5. Has(t, 0)
        <4>1. 0 \in Digit BY BaseLemma DEF Digit
        <4> QED BY <4>1, SmallFits
      <3> QED BY <3>1, <3>2, <3>4, <3>5 DEF Done, Outcome
    <2>4. CASE /\ IsDigitAt(g) /\ text[g + 1] /= 0
               /\ Parsed("reading", g + 1, IF Negative(text) THEN -text[g + 1] ELSE text[g + 1])
      <3> DEFINE c == text[g + 1]
      <3>1. phase' = "reading" /\ at' = g + 1 /\ sum' = WithSign(text, c)
        BY <2>4 DEF Parsed, WithSign
      <3>2. 1 \in 1..m /\ 1 + g = g + 1 BY <2>4, <1>3 DEF IsDigitAt
      <3>3. d[1] = c /\ c \in Digit /\ c /= 0 BY <2>4, <3>2, <1>3 DEF IsDigitAt
      <3>4. Horner(0, d, 1) = c
        <4>1. Horner(0, d, 0 + 1) = Base * Horner(0, d, 0) + d[0 + 1] /\ Horner(0, d, 0) = 0
          BY HornerStep
        <4>2. 0 + 1 = 1 /\ Base * 0 = 0 /\ c \in Nat BY BaseLemma, <3>3, DigitIsNat
        <4> HIDE DEF d, c
        <4> QED BY <4>1, <4>2, <3>3
      <3>5. Count' = 1
        <4>1. Count' = at' + pos' - g BY <1>2 DEF Count
        <4>2. at' + pos' - g = 1 BY <3>1, <1>2, <1>3
        <4> QED BY <4>1, <4>2
      <3>6. Has(t, WithSign(text, c)) BY <3>3, <1>6, SmallFits DEF WithSign
      <3>7. IntegerAt(text, 1) = WithSign(text, c) BY <3>4 DEF IntegerAt
      <3>8. (\A k \in 1..1 : d[k] \in Digit) /\ d[1] /= 0 BY <3>3
      <3>9. at' \in Nat /\ pos' \in Nat BY <3>1, <1>2, <1>3
      <3> HIDE DEF c
      <3>10. Reading'
        BY <3>1, <3>2, <3>5, <3>6, <3>7, <3>8, <3>9, <1>1, <1>2, <1>6 DEF Reading
      <3> QED BY <3>1, <3>10 DEF Done
    <2> QED BY <2>1, <2>2, <2>3, <2>4, <1>6 DEF FirstDigit
  <1>7. CASE Negative(text) /\ t \in Signed /\ FirstDigit(1, TRUE)
    <2>1. g = 1 /\ FirstDigit(g, Negative(text))
      <3>1. g = 1 BY <1>7 DEF SignOf
      <3>2. FirstDigit(1, Negative(text)) BY <1>7 DEF FirstDigit
      <3> QED BY <3>1, <3>2
    <2> QED BY <2>1, <1>1, <1>2, <1>4, <1>6, <1>7
  <1>8. CASE ~Negative(text) /\ FirstDigit(0, FALSE)
    <2>1. g = 0 /\ FirstDigit(g, Negative(text))
      <3>1. g = 0 BY <1>8 DEF SignOf
      <3>2. FirstDigit(0, Negative(text)) BY <1>8 DEF FirstDigit
      <3> QED BY <3>1, <3>2
    <2> QED BY <2>1, <1>1, <1>2, <1>6, <1>8
  <1> QED BY <1>1, <1>5, <1>7, <1>8

\* A digit more, if there is one, makes a longer integer.
LEMMA LongerEnds ==
  ASSUME NEW s, NEW n \in Nat \ {0}, NEW m \in Nat, m = Len(Figures(s)), n <= m,
         \A k \in 1..n : Figures(s)[k] \in Digit, Figures(s)[1] /= 0
  PROVE  /\ n \in Ends(s)
         /\ (n = m \/ Figures(s)[n + 1] \notin Digit) => Longest(Ends(s)) = n
         /\ (n < m /\ Figures(s)[n + 1] \in Digit) =>
              /\ n + 1 \in Ends(s) /\ Longest(Ends(s)) >= n + 1
              /\ Longest(Ends(s)) \in Nat
              /\ \A k \in 1..Longest(Ends(s)) : Figures(s)[k] \in Nat
  <1> DEFINE d == Figures(s)
  <1>1. ASSUME NEW k \in Ends(s) PROVE k \in 1..m /\ \A j \in 1..k : d[j] \in Digit
    BY <1>1 DEF Ends, IsInteger
  <1>2. n \in Ends(s) BY DEF Ends, IsInteger
  <1>3. Ends(s) \in SUBSET (1..m) BY <1>1
  <1>4. ASSUME n = m \/ d[n + 1] \notin Digit PROVE Longest(Ends(s)) = n
    <2>1. ASSUME NEW j \in Ends(s) PROVE j <= n
      <3>1. j \in 1..m /\ \A k \in 1..j : d[k] \in Digit BY <1>1
      <3> SUFFICES ASSUME n < j PROVE FALSE BY <3>1
      <3>2. n + 1 \in 1..j /\ n /= m BY <3>1
      <3>3. d[n + 1] \in Digit BY <3>1, <3>2
      <3> QED BY <3>2, <3>3, <1>4
    <2> QED BY <2>1, <1>2, <1>3, LongestIs
  <1>5. ASSUME n < m, d[n + 1] \in Digit
        PROVE  /\ n + 1 \in Ends(s) /\ Longest(Ends(s)) >= n + 1
               /\ Longest(Ends(s)) \in Nat
               /\ \A k \in 1..Longest(Ends(s)) : d[k] \in Nat
    <2>1. n + 1 \in 1..m BY <1>5
    <2>2. \A k \in 1..(n + 1) : d[k] \in Digit BY <1>5
    <2>3. n + 1 \in Ends(s) BY <2>1, <2>2 DEF Ends, IsInteger
    <2>4. Longest(Ends(s)) \in Ends(s) /\ \A j \in Ends(s) : j <= Longest(Ends(s))
      BY <1>2, <1>3, LongestLemma
    <2>5. n + 1 <= Longest(Ends(s)) BY <2>3, <2>4
    <2>6. Longest(Ends(s)) \in 1..m BY <2>4, <1>1
    <2>7. \A k \in 1..Longest(Ends(s)) : d[k] \in Nat BY <2>4, <1>1, DigitIsNat
    <2> QED BY <2>3, <2>5, <2>6, <2>7
  <1> QED BY <1>2, <1>4, <1>5

\* A number that a type does not have is not mended by more digits.
LEMMA LargerDoesNotFit ==
  ASSUME NEW t \in Types, NEW a \in Nat, NEW c \in Nat, NEW z \in Nat, a + c <= z
  PROVE  /\ ~(Has(t, a) /\ Has(t, a + c)) => ~Has(t, z)
         /\ ~(Has(t, -a) /\ Has(t, -a - c)) => ~Has(t, -z)
  <1> DEFINE lo == MIN(t)
             hi == MAX(t)
  <1>1. lo \in Int /\ hi \in Nat /\ lo <= 0 BY TypeLemma
  <1> HIDE DEF lo, hi
  <1>2. ~((lo <= a /\ a <= hi) /\ (lo <= a + c /\ a + c <= hi)) => ~(lo <= z /\ z <= hi)
    BY <1>1
  <1>3. ~((lo <= -a /\ -a <= hi) /\ (lo <= -a - c /\ -a - c <= hi)) => ~(lo <= -z /\ -z <= hi)
    BY <1>1
  <1> QED BY <1>2, <1>3 DEF Has, lo, hi

LEMMA ReadDigitRead ==
  ASSUME phase = "reading", Reading, ReadDigit, text \in Seq(Char)
  PROVE  /\ phase' \in Done \cup {"reading"} /\ text' = text
         /\ phase' \in Done => Outcome(phase', target', text, sum', at')
         /\ phase' = "reading" => Reading'
  <1> DEFINE d == Figures(text)
             g == SignOf(text)
             m == Len(d)
             n == Count
             h == Horner(0, d, n)
             c == d[n + 1]
  <1>1. /\ target \in Types /\ at \in Nat /\ pos \in Nat /\ n \in 1..m
        /\ (\A k \in 1..n : d[k] \in Digit) /\ d[1] /= 0
        /\ sum = IntegerAt(text, n) /\ Has(target, sum)
        /\ (Negative(text) => target \notin Unsigned)
    BY DEF Reading
  <1>2. text' = text /\ target' = target BY DEF ReadDigit
  <1>3. /\ g \in {0, 1} /\ Len(text) \in Nat /\ m \in Nat /\ m = Len(text) - g
        /\ \A k \in 1..m : d[k] = text[k + g]
    BY FiguresLemma
  <1>4. at + pos = n + g BY <1>1, <1>3 DEF Count
  <1>5. IsDigitAt(at + pos) <=> (n < m /\ c \in Digit)
    <2>1. at + pos < Len(text) <=> n < m BY <1>1, <1>3, <1>4
    <2>2. n < m => c = text[(at + pos) + 1]
      <3> SUFFICES ASSUME n < m PROVE c = text[(at + pos) + 1] OBVIOUS
      <3>1. n + 1 \in 1..m /\ (n + 1) + g = (at + pos) + 1 BY <1>1, <1>3, <1>4
      <3>2. d[n + 1] = text[(n + 1) + g] BY <3>1, <1>3
      <3> QED BY <3>1, <3>2
    <2> QED BY <2>1, <2>2 DEF IsDigitAt
  <1>6. n < m => c = text[at + pos + 1]
    <2> SUFFICES ASSUME n < m PROVE c = text[at + pos + 1] OBVIOUS
    <2>1. n + 1 \in 1..m /\ (n + 1) + g = at + pos + 1 BY <1>1, <1>3, <1>4
    <2>2. d[n + 1] = text[(n + 1) + g] BY <2>1, <1>3
    <2> QED BY <2>1, <2>2
  <1>7. n \in Nat \ {0} /\ n <= m BY <1>1, <1>3
  <1>8. h \in Nat
    <2>1. \A k \in 1..n : d[k] \in Nat BY <1>1, DigitIsNat
    <2> HIDE DEF d, n
    <2> QED BY <2>1, <1>7, HornerNat
  <1>9. Horner(0, d, n + 1) = Base * h + c
    <2>1. n \in Nat BY <1>7
    <2> HIDE DEF n
    <2> QED BY <2>1, HornerStep
  <1>10. sum = WithSign(text, h) BY <1>1 DEF IntegerAt
  <1>11. CASE ~IsDigitAt(at + pos) /\ Parsed("ok", at + pos, sum) /\ pos' = pos
    <2>1. phase' = "ok" /\ at' = n + g /\ sum' = sum BY <1>11, <1>4 DEF Parsed
    <2>2. n = m \/ c \notin Digit BY <1>11, <1>5, <1>7, <1>3
    <2>3. Longest(Ends(text)) = n /\ n \in Ends(text) BY <2>2, <1>1, <1>3, <1>7, LongerEnds
    <2>4. Ends(text) /= {} BY <2>3
    <2> HIDE DEF n, g
    <2>5. Outcome("ok", target, text, sum', at') BY <2>1, <2>3, <2>4, <1>1 DEF Outcome, g
    <2> QED BY <2>1, <2>5, <1>2 DEF Done
  <1>12. CASE IsDigitAt(at + pos)
    <2>1. n < m /\ c \in Digit BY <1>12, <1>5
    <2>2. /\ n + 1 \in Ends(text) /\ Longest(Ends(text)) >= n + 1
          /\ Longest(Ends(text)) \in Nat
          /\ \A k \in 1..Longest(Ends(text)) : d[k] \in Nat
      BY <2>1, <1>1, <1>3, <1>7, LongerEnds
    <2>3. c \in Nat BY <2>1, DigitIsNat
    <2> DEFINE a == Base * h
    <2>4. a \in Nat BY <1>8, BaseLemma
    <2>5. Times = WithSign(text, a)
      <3>1. Base * (-h) = -(Base * h) BY <1>8, BaseLemma
      <3> HIDE DEF h
      <3> QED BY <3>1, <1>10 DEF Times, WithSign
    <2>6. text /= <<>>
      <3>1. Len(text) > 0 BY <1>3, <2>1, <1>7
      <3> QED BY <3>1
    <2>7. text[1] = Minus <=> Negative(text) BY <2>6 DEF Negative
    <2> HIDE DEF a, h, c, d, n, m
    <2>8. Plus = WithSign(text, a + c)
      <3>1. c = text[at + pos + 1] BY <1>6, <2>1
      <3>2. CASE Negative(text)
        <4>1. Plus = -a - c BY <3>1, <3>2, <2>5, <2>7 DEF Plus, WithSign
        <4> QED BY <4>1, <3>2, <2>3, <2>4 DEF WithSign
      <3>3. CASE ~Negative(text)
        <4>1. Plus = a + c BY <3>1, <3>3, <2>5, <2>7 DEF Plus, WithSign
        <4> QED BY <4>1, <3>3 DEF WithSign
      <3> QED BY <3>2, <3>3
    <2>9. Horner(0, d, n + 1) = a + c BY <1>9 DEF a
    <2>10. CASE Has(target, Times) /\ Has(target, Plus)
      <3>1. sum' = Plus /\ pos' = pos + 1 /\ phase' = phase /\ at' = at
        BY <2>10, <1>12 DEF ReadDigit
      <3>2. Count' = n + 1
        <4>1. Count' = at' + pos' - g BY <1>2 DEF Count
        <4>2. at' + pos' - g = n + 1 BY <3>1, <1>1, <1>3, <1>4, <1>7
        <4> QED BY <4>1, <4>2
      <3>3. n + 1 \in 1..m /\ at' \in Nat /\ pos' \in Nat BY <3>1, <2>1, <1>1, <1>3, <1>7
      <3>4. \A k \in 1..(n + 1) : d[k] \in Digit
        <4> SUFFICES ASSUME NEW k \in 1..(n + 1) PROVE d[k] \in Digit OBVIOUS
        <4>1. CASE k = n + 1 BY <4>1, <2>1 DEF c
        <4>2. CASE k /= n + 1
          <5>1. k \in 1..n BY <4>2, <1>7
          <5> QED BY <5>1, <1>1
        <4> QED BY <4>1, <4>2
      <3>5. sum' = IntegerAt(text, n + 1) BY <3>1, <2>8, <2>9 DEF IntegerAt, d
      <3>6. Has(target', sum') BY <3>1, <2>10, <1>2
      <3>7. Reading'
        BY <3>2, <3>3, <3>4, <3>5, <3>6, <1>1, <1>2 DEF Reading, d, m
      <3> QED BY <3>1, <3>7, <1>2 DEF Done
    <2>11. CASE ~(Has(target, Times) /\ Has(target, Plus))
      <3>1. phase' = "InvalidNumber" BY <2>11, <1>12 DEF ReadDigit, Parsed
      <3> DEFINE l == Longest(Ends(text))
                 z == Horner(0, d, l)
      <3>2. l \in Nat /\ n + 1 \in 0..l BY <2>2, <1>7
      <3>3. z \in Nat /\ a + c <= z
        <4>1. \A k \in 1..l : d[k] \in Nat BY <2>2
        <4> HIDE DEF l
        <4>2. Horner(0, d, n + 1) <= Horner(0, d, l) /\ Horner(0, d, l) \in Nat
          BY <4>1, <3>2, HornerGrows
        <4> QED BY <4>2, <2>9
      <3>4. ~Has(target, WithSign(text, z))
        <4> HIDE DEF z
        <4>1. CASE Negative(text)
          <5>1. Times = -a /\ Plus = -(a + c) BY <4>1, <2>5, <2>8 DEF WithSign
          <5>2. -(a + c) = -a - c BY <2>3, <2>4
          <5>3. ~(Has(target, -a) /\ Has(target, -a - c)) BY <5>1, <5>2, <2>11
          <5>4. ~Has(target, -z) BY <5>3, <3>3, <2>3, <2>4, <1>1, LargerDoesNotFit
          <5> QED BY <5>4, <4>1 DEF WithSign
        <4>2. CASE ~Negative(text)
          <5>1. Times = a /\ Plus = a + c BY <4>2, <2>5, <2>8 DEF WithSign
          <5>2. ~(Has(target, a) /\ Has(target, a + c)) BY <5>1, <2>11
          <5>3. ~Has(target, z) BY <5>2, <3>3, <2>3, <2>4, <1>1, LargerDoesNotFit
          <5> QED BY <5>3, <4>2 DEF WithSign
        <4> QED BY <4>1, <4>2
      <3>5. WithSign(text, z) = IntegerAt(text, l) BY DEF IntegerAt, d
      <3>6. ~Has(target, IntegerAt(text, l)) BY <3>4, <3>5
      <3>7. Ends(text) /= {} BY <2>2
      <3>8. Outcome("InvalidNumber", target, text, sum', at') BY <3>6, <3>7 DEF Outcome
      <3> QED BY <3>1, <3>8, <1>2 DEF Done
    <2> QED BY <2>10, <2>11
  <1> QED BY <1>11, <1>12 DEF ReadDigit

-----------------------------------------------------------------------------
(* Theorems about JsonNumber *)

JsonIInv ==
  /\ phase \in {"ready", "writing", "written", "text", "reading"} \cup Done
  /\ text \in Seq(Char)
  /\ phase = "ready" => source = "none"
  /\ phase = "writing" => Writing
  /\ phase = "written" => Written
  /\ phase = "text" => WrittenExact
  /\ phase = "reading" => Reading
  /\ phase \in Done => Outcome(phase, target, text, sum, at)

\* From any step that parses.
LEMMA ParsingKept ==
  ASSUME text \in Seq(Char), phase' \in Done \cup {"reading"}, text' = text,
         phase' \in Done => Outcome(phase', target', text, sum', at'),
         phase' = "reading" => Reading'
  PROVE  JsonIInv'
  <1>1. phase' \notin {"ready", "writing", "written", "text"} BY DEF Done
  <1> QED BY <1>1 DEF JsonIInv

LEMMA JsonNextKept ==
  ASSUME JsonIInv, JsonNext
  PROVE  JsonIInv'
  <1>1. CASE Serialize
    <2>1. Writing' /\ phase' = "writing" BY <1>1, SerializeWriting
    <2>2. text' = text BY <1>1 DEF Serialize
    <2> QED BY <2>1, <2>2 DEF JsonIInv, Done
  <1>2. CASE WriteDigit
    <2>1. phase = "writing" /\ text' = text BY <1>2 DEF WriteDigit
    <2>2. Writing BY <2>1 DEF JsonIInv
    <2>3. \/ phase' = "writing" /\ Writing'
          \/ phase' = "written" /\ Written'
      BY <1>2, <2>1, <2>2, WriteDigitKept
    <2> QED BY <2>1, <2>3 DEF JsonIInv, Done
  <1>3. CASE WriteNumber
    <2>1. phase = "written" /\ phase' = "text" BY <1>3 DEF WriteNumber
    <2>2. Written BY <2>1 DEF JsonIInv
    <2>3. text' \in Seq(Char) /\ WrittenExact' BY <1>3, <2>1, <2>2, WriteNumberExact
    <2> QED BY <2>1, <2>3 DEF JsonIInv, Done
  <1>4. CASE Give
    <2>1. phase = "ready" /\ phase' = "text" /\ text' \in Texts /\ source' = source
      BY <1>4 DEF Give
    <2>2. text' \in Seq(Char) BY <2>1, TextAssumption DEF Char
    <2>3. source' = "none" BY <2>1 DEF JsonIInv
    <2>4. WrittenExact' BY <2>1, <2>3 DEF WrittenExact
    <2> QED BY <2>1, <2>2, <2>4 DEF JsonIInv, Done
  <1>5. CASE Parse
    <2>1. text \in Seq(Char) BY DEF JsonIInv
    <2>2. /\ phase' \in Done \cup {"reading"} /\ text' = text
          /\ phase' \in Done => Outcome(phase', target', text, sum', at')
          /\ phase' = "reading" => Reading'
      BY <1>5, <2>1, ParseRead
    <2> QED BY <2>1, <2>2, ParsingKept
  <1>6. CASE ReadDigit
    <2>1. phase = "reading" BY <1>6 DEF ReadDigit
    <2>2. text \in Seq(Char) /\ Reading BY <2>1 DEF JsonIInv
    <2>3. /\ phase' \in Done \cup {"reading"} /\ text' = text
          /\ phase' \in Done => Outcome(phase', target', text, sum', at')
          /\ phase' = "reading" => Reading'
      BY <1>6, <2>1, <2>2, ReadDigitRead
    <2> QED BY <2>2, <2>3, ParsingKept
  <1> QED BY <1>1, <1>2, <1>3, <1>4, <1>5, <1>6 DEF JsonNext

\* The invariant that both loops of the decimal code keep: behind what is left
\* of a number the buffer holds its digits, with a place for each that is left;
\* and what is read is the number of the digits it was read from.
THEOREM JsonInductive == JsonSpec => []JsonIInv
  <1>1. JsonInit => JsonIInv
    <2> SUFFICES ASSUME JsonInit PROVE JsonIInv OBVIOUS
    <2>1. phase = "ready" /\ source = "none" /\ text = <<>> BY DEF JsonInit
    <2>2. <<>> \in Seq(Char) BY EmptySeq
    <2> QED BY <2>1, <2>2 DEF JsonIInv, Done
  <1>2. JsonIInv /\ [JsonNext]_jvars => JsonIInv'
    <2> SUFFICES ASSUME JsonIInv, [JsonNext]_jvars PROVE JsonIInv' OBVIOUS
    <2>1. CASE JsonNext BY <2>1, JsonNextKept
    <2>2. CASE UNCHANGED jvars
      BY <2>2 DEF jvars, JsonIInv, Writing, Written, Filled, Places, First, Room, From,
                  WrittenExact, Reading, Count
    <2> QED BY <2>1, <2>2
  <1> QED BY <1>1, <1>2, PTL DEF JsonSpec

\* JSON integers of every type, in every base: the loops stay inside buffers as
\* long as the longest number and write the number, without a zero before it;
\* as much of a text as is an integer is read as its number, and refused exactly
\* where the type does not have that number.
THEOREM JsonNumbersExact == JsonSpec => []Exact
  <1>1. JsonIInv => Exact
    <2> SUFFICES ASSUME JsonIInv PROVE Exact OBVIOUS
    <2>1. WrittenExact
      <3>1. phase /= "panic" BY DEF JsonIInv, Done
      <3>2. phase = "text" => WrittenExact BY DEF JsonIInv
      <3> QED BY <3>1, <3>2 DEF WrittenExact
    <2>2. ReadExact BY OutcomeIsExact DEF JsonIInv
    <2> QED BY <2>1, <2>2 DEF Exact
  <1> QED BY <1>1, JsonInductive, PTL
=============================================================================
