--------------------------- MODULE MsgpackSer_proofs ---------------------------
(* Proofs about MsgpackSer, for every sink, radix and implementation of      *)
(* Serialize.  A step has one of five outcomes: the call breaks off; it      *)
(* writes, and the innermost frame settles one item and may announce more;   *)
(* a field is skipped; the innermost call returns; a message begins.         *)
EXTENDS MsgpackWritten, MsgpackHeads_proofs

\* The sink after a step.
Grown == out' \in Seq(Byte) /\ Len(out) <= Len(out') /\ Len(out') <= cap

Broken ==
  /\ pc = "busy" /\ pc' = "failed" /\ stack' = <<>>
  /\ Grown /\ Same

\* The innermost frame becomes f, and the call g it announced is in it.
Successor(f) == f \in Frames /\ FrameOK(f) /\ f.below = Top.below
Inner(f, g)  == g \in Frames /\ FrameOK(g) /\ g.below = f.below + Own(f)

Wrote(s) == Grown /\ Len(out) < Len(out') /\ Go(s) /\ Same

Advanced ==
  /\ pc = "busy" /\ Own(Top) > 0
  /\ \E f : /\ Successor(f) /\ Own(f) + 1 >= Own(Top)
            /\ Wrote(Replace(f)) \/ \E g : Inner(f, g) /\ Wrote(Append(Replace(f), g))

Quiet ==
  /\ pc = "busy"
  /\ \E f : Successor(f) /\ Own(f) = Own(Top) /\ Go(Replace(f))
  /\ out' = out /\ Same

Popped ==
  /\ pc = "busy" /\ Own(Top) = 0
  /\ stack' = Under /\ pc' = IF Under = <<>> THEN "ok" ELSE pc
  /\ out' = out /\ Same

Outcome == Broken \/ Advanced \/ Quiet \/ Popped

-----------------------------------------------------------------------------
(* Digits and the codes of numbers *)

Radix2 == Radix * Radix
Radix4 == Radix2 * Radix2
Radix8 == Radix4 * Radix4

LEMMA PowerLemma ==
  /\ DOMAIN Power = {1, 2, 4, 8}
  /\ Power[1] = Radix /\ Power[2] = Radix2 /\ Power[4] = Radix4
  /\ Power[8] = Radix2 * Radix2 * Radix2 * Radix2
  /\ Radix \in Nat /\ Radix >= 2 /\ Radix <= 256
  /\ Radix2 \in Nat /\ Radix2 >= 2 * Radix
  /\ Radix4 \in Nat /\ Radix4 >= 2 * Radix2
  /\ Radix8 \in Nat /\ Radix8 >= 2 * Radix4
  <1>1. Radix \in Nat /\ Radix >= 2 /\ Radix <= 256 BY RadixAssumption
  <1>2. Radix2 \in Nat /\ Radix2 >= 2 * Radix BY <1>1, Square DEF Radix2
  <1> HIDE DEF Radix2
  <1>3. Radix4 \in Nat /\ Radix4 >= 2 * Radix2
    <2>1. Radix2 >= 2 BY <1>1, <1>2
    <2> QED BY <2>1, <1>2, Square DEF Radix4
  <1>4. Radix8 \in Nat /\ Radix8 >= 2 * Radix4
    <2>1. Radix4 >= 2 BY <1>1, <1>2, <1>3
    <2> QED BY <2>1, <1>3, Square DEF Radix8
  <1>5. DOMAIN Power = {1, 2, 4, 8} BY DEF Power
  <1>6. Power[1] = Radix BY DEF Power
  <1>7. Power[2] = Radix2 BY DEF Power, Radix2
  <1>8. Power[4] = Radix4 BY DEF Power, Radix2, Radix4
  <1>9. Power[8] = Radix2 * Radix2 * Radix2 * Radix2 BY DEF Power, Radix2
  <1> QED BY <1>1, <1>2, <1>3, <1>4, <1>5, <1>6, <1>7, <1>8, <1>9

\* A digit is a byte.
LEMMA DigitLemma == \A v \in Int : v % Radix \in Byte
  <1> TAKE v \in Int
  <1>1. Radix \in Nat \ {0} /\ Radix <= 256 BY PowerLemma
  <1>2. v % Radix \in Nat /\ v % Radix < Radix BY <1>1, DivMod
  <1> QED BY <1>1, <1>2 DEF Byte

LEMMA BigEndianLemma ==
  ASSUME NEW v \in Int
  PROVE  /\ Digits1(v) \in Seq(Byte) /\ Len(Digits1(v)) = 1
         /\ Digits2(v) \in Seq(Byte) /\ Len(Digits2(v)) = 2
         /\ Digits4(v) \in Seq(Byte) /\ Len(Digits4(v)) = 4
         /\ \A k \in {1, 2, 4, 8} : BigEndian(v, k) \in Seq(Byte) /\ Len(BigEndian(v, k)) = k
  <1>0. \A x \in Int, k \in {1, 2, 4} : x \div Power[k] \in Int BY PowerLemma, DivMod
  <1>1. \A x \in Int : Digits1(x) \in Seq(Byte) /\ Len(Digits1(x)) = 1
    BY DigitLemma DEF Digits1
  <1>2. \A x \in Int : Digits2(x) \in Seq(Byte) /\ Len(Digits2(x)) = 2
    <2> TAKE x \in Int
    <2> DEFINE a == Digits1(x \div Power[1])
               b == Digits1(x)
    <2>1. a \in Seq(Byte) /\ Len(a) = 1 /\ b \in Seq(Byte) /\ Len(b) = 1 BY <1>0, <1>1
    <2>2. Digits2(x) = a \o b BY DEF Digits2
    <2> HIDE DEF a, b
    <2>3. a \o b \in Seq(Byte) /\ Len(a \o b) = Len(a) + Len(b) BY <2>1, TwoParts
    <2>4. Len(a) + Len(b) = 2 BY <2>1
    <2> QED BY <2>2, <2>3, <2>4
  <1>3. \A x \in Int : Digits4(x) \in Seq(Byte) /\ Len(Digits4(x)) = 4
    <2> TAKE x \in Int
    <2> DEFINE a == Digits2(x \div Power[2])
               b == Digits2(x)
    <2>1. a \in Seq(Byte) /\ Len(a) = 2 /\ b \in Seq(Byte) /\ Len(b) = 2 BY <1>0, <1>2
    <2>2. Digits4(x) = a \o b BY DEF Digits4
    <2> HIDE DEF a, b
    <2>3. a \o b \in Seq(Byte) /\ Len(a \o b) = Len(a) + Len(b) BY <2>1, TwoParts
    <2>4. Len(a) + Len(b) = 4 BY <2>1
    <2> QED BY <2>2, <2>3, <2>4
  <1>4. ASSUME NEW k \in {1, 2, 4, 8}
        PROVE BigEndian(v, k) \in Seq(Byte) /\ Len(BigEndian(v, k)) = k
    <2>1. CASE k = 1 BY <2>1, <1>1 DEF BigEndian
    <2>2. CASE k = 2 BY <2>2, <1>2 DEF BigEndian
    <2>3. CASE k = 4 BY <2>3, <1>3 DEF BigEndian
    <2>4. CASE k = 8
      <3> DEFINE a == Digits4(v \div Power[4])
                 b == Digits4(v)
      <3>1. a \in Seq(Byte) /\ Len(a) = 4 /\ b \in Seq(Byte) /\ Len(b) = 4 BY <1>0, <1>3
      <3>2. BigEndian(v, k) = a \o b BY <2>4 DEF BigEndian
      <3> HIDE DEF a, b
      <3>3. a \o b \in Seq(Byte) /\ Len(a \o b) = Len(a) + Len(b) BY <3>1, TwoParts
      <3>4. Len(a) + Len(b) = 8 BY <3>1
      <3> QED BY <2>4, <3>2, <3>3, <3>4
    <2> QED BY <2>1, <2>2, <2>3, <2>4
  <1> QED BY <1>1, <1>2, <1>3, <1>4

LEMMA TriedLemma ==
  ASSUME NEW t \in Types
  PROVE  /\ Len(Tried[t]) \in Nat /\ Len(Tried[t]) > 0
         /\ Tried[t][Len(Tried[t])] = t
         /\ \A k \in 1..Len(Tried[t]) : Tried[t][k] \in Types
  <1> USE DEF Types, Tried
  <1>1. CASE t = "u8" BY <1>1
  <1>2. CASE t = "u16" BY <1>2
  <1>3. CASE t = "u32" BY <1>3
  <1>4. CASE t = "u64" BY <1>4
  <1>5. CASE t = "i8" BY <1>5
  <1>6. CASE t = "i16" BY <1>6
  <1>7. CASE t = "i32" BY <1>7
  <1>8. CASE t = "i64" BY <1>8
  <1> QED BY <1>1, <1>2, <1>3, <1>4, <1>5, <1>6, <1>7, <1>8

\* The type whose code is written has the number.
LEMMA ChosenLemma ==
  ASSUME NEW t \in Types, NEW v \in Int, Fits(t, v)
  PROVE  /\ Chosen(t, v) \in Types /\ Fits(Chosen(t, v), v)
         /\ Width[Chosen(t, v)] \in {1, 2, 4, 8} /\ Code[Chosen(t, v)] \in Byte
  <1> DEFINE n == Len(Tried[t])
             T == {k \in 1..n : Fits(Tried[t][k], v)}
             P(w) == \E k \in 1..n : /\ w = Tried[t][k] /\ Fits(w, v)
                                     /\ \A j \in 1..(k - 1) : ~Fits(Tried[t][j], v)
  <1>1. n \in Nat /\ n > 0 /\ Tried[t][n] = t /\ \A k \in 1..n : Tried[t][k] \in Types
    BY TriedLemma
  <1> HIDE DEF n
  <1>2. T \in SUBSET Nat /\ n \in T BY <1>1
  <1>3. PICK m \in T : \A k \in T : m <= k BY <1>2, LeastNat
  <1>4. \A j \in 1..(m - 1) : ~Fits(Tried[t][j], v) BY <1>1, <1>3
  <1>5. Tried[t][m] \in Types /\ P(Tried[t][m]) BY <1>1, <1>3, <1>4
  <1>6. Chosen(t, v) = CHOOSE w \in Types : P(w) BY DEF Chosen, n
  <1> HIDE DEF P
  <1>7. Chosen(t, v) \in Types /\ P(Chosen(t, v)) BY <1>5, <1>6
  <1>8. Fits(Chosen(t, v), v) BY <1>7 DEF P
  <1>9. \A w \in Types : Width[w] \in {1, 2, 4, 8} /\ Code[w] \in Byte
    BY DEF Types, Width, Code, Byte, UINT_8, UINT_16, UINT_32, UINT_64, INT_8, INT_16, INT_32, INT_64
  <1> QED BY <1>7, <1>8, <1>9

LEMMA IntHeadLemma ==
  ASSUME NEW t \in Types, NEW v \in Int, Fits(t, v)
  PROVE  IntCode(t, v) \in Byte /\ IntDigits(t, v) \in Seq(Byte)
  <1>1. v % 256 \in Byte
    <2>1. v % 256 \in Nat /\ v % 256 < 256 BY DivMod
    <2> QED BY <2>1 DEF Byte
  <1>2. <<>> \in Seq(Byte) BY EmptySeq
  <1> QED BY <1>1, <1>2, ChosenLemma, BigEndianLemma DEF IntCode, IntDigits

-----------------------------------------------------------------------------
(* Heads *)

LEMMA ClassLemma ==
  ASSUME NEW n \in Nat, NEW short \in Nat, NEW max \in Int, NEW codes,
         DOMAIN codes \in SUBSET {1, 2, 4}, 4 \in DOMAIN codes,
         \A w \in DOMAIN codes : codes[w] \in Byte,
         n <= max => short + n \in Byte, Holds(n, 4)
  PROVE  /\ Class(n, short, max, codes).code \in Byte
         /\ Class(n, short, max, codes).digits \in Seq(Byte)
  <1> DEFINE P(w) == Holds(n, w) /\ \A v \in DOMAIN codes : v < w => ~Holds(n, v)
             T == {w \in DOMAIN codes : Holds(n, w)}
             c == CHOOSE w \in DOMAIN codes : P(w)
  <1>1. CASE n <= max
    <2>1. Class(n, short, max, codes) = [code |-> short + n, digits |-> <<>>] BY <1>1 DEF Class
    <2> QED BY <2>1, <1>1, EmptySeq
  <1>2. CASE ~(n <= max)
    <2>1. T \in SUBSET Nat /\ 4 \in T OBVIOUS
    <2>2. PICK m \in T : \A k \in T : m <= k BY <2>1, LeastNat
    <2>3. m \in DOMAIN codes /\ P(m) BY <2>1, <2>2
    <2>4. Class(n, short, max, codes) = [code |-> codes[c], digits |-> BigEndian(n, c)]
      BY <1>2 DEF Class
    <2> HIDE DEF P
    <2>5. c \in DOMAIN codes BY <2>3
    <2> HIDE DEF c
    <2>6. c \in {1, 2, 4, 8} BY <2>5
    <2>7. BigEndian(n, c) \in Seq(Byte) BY <2>6, BigEndianLemma
    <2> QED BY <2>4, <2>5, <2>7
  <1> QED BY <1>1, <1>2

LEMMA HeadLemma ==
  ASSUME NEW n \in Nat, Holds(n, 4)
  PROVE  /\ ArrayHead(n).code \in Byte /\ ArrayHead(n).digits \in Seq(Byte)
         /\ MapHead(n).code \in Byte /\ MapHead(n).digits \in Seq(Byte)
         /\ StrHead(n).code \in Byte /\ StrHead(n).digits \in Seq(Byte)
         /\ BinHead(n).code \in Byte /\ BinHead(n).digits \in Seq(Byte)
  <1>1. ArrayHead(n).code \in Byte /\ ArrayHead(n).digits \in Seq(Byte)
    <2>1. /\ DOMAIN ArrayCodes = {2, 4} /\ \A w \in DOMAIN ArrayCodes : ArrayCodes[w] \in Byte
          /\ FIXARRAY \in Nat /\ MaxFix \in Int /\ (n <= MaxFix => FIXARRAY + n \in Byte)
      BY FixAssumption DEF ArrayCodes, Byte, FIXARRAY, ARRAY_16, ARRAY_32
    <2> QED BY <2>1, ClassLemma DEF ArrayHead
  <1>2. MapHead(n).code \in Byte /\ MapHead(n).digits \in Seq(Byte)
    <2>1. /\ DOMAIN MapCodes = {2, 4} /\ \A w \in DOMAIN MapCodes : MapCodes[w] \in Byte
          /\ FIXMAP \in Nat /\ MaxFix \in Int /\ (n <= MaxFix => FIXMAP + n \in Byte)
      BY FixAssumption DEF MapCodes, Byte, FIXMAP, MAP_16, MAP_32
    <2> QED BY <2>1, ClassLemma DEF MapHead
  <1>3. StrHead(n).code \in Byte /\ StrHead(n).digits \in Seq(Byte)
    <2>1. /\ DOMAIN StrCodes = {1, 2, 4} /\ \A w \in DOMAIN StrCodes : StrCodes[w] \in Byte
          /\ FIXSTR \in Nat /\ MaxFixStr \in Int /\ (n <= MaxFixStr => FIXSTR + n \in Byte)
      BY FixAssumption DEF StrCodes, Byte, FIXSTR, STR_8, STR_16, STR_32
    <2> QED BY <2>1, ClassLemma DEF StrHead
  <1>4. BinHead(n).code \in Byte /\ BinHead(n).digits \in Seq(Byte)
    <2>1. /\ DOMAIN BinCodes = {1, 2, 4} /\ \A w \in DOMAIN BinCodes : BinCodes[w] \in Byte
          /\ (n <= -1 => 0 + n \in Byte)
      BY DEF BinCodes, Byte, BIN_8, BIN_16, BIN_32
    <2> QED BY <2>1, ClassLemma DEF BinHead
  <1> QED BY <1>1, <1>2, <1>3, <1>4

LEMMA PayloadLemma ==
  ASSUME NEW n \in Nat
  PROVE  Payload(n) \in Seq(Byte) /\ Len(Payload(n)) = n
  <1>1. RESERVED \in Byte BY DEF RESERVED, Byte
  <1>2. Payload(n) \in [1..n -> Byte] BY <1>1 DEF Payload
  <1> QED BY <1>2

-----------------------------------------------------------------------------
(* The sink *)

LEMMA FailOutcome ==
  ASSUME TypeOK, pc = "busy", NEW e, Fail(e), out' = out, Same
  PROVE  Broken
  <1>1. Len(out) \in Nat BY LenProperties DEF TypeOK
  <1> QED BY <1>1 DEF TypeOK, Fail, Broken, Grown

LEMMA RefuseOutcome ==
  ASSUME TypeOK, pc = "busy", NEW taken \in Seq(Byte), NEW bytes \in Seq(Byte), NEW e,
         Len(out) <= Len(taken), Len(taken) <= cap, cap < Len(taken) + Len(bytes),
         Refuse(taken, bytes, e), Same
  PROVE  Broken
  <1> DEFINE n == cap - Len(taken)
             part == SubSeq(bytes, 1, n)
  <1>1. cap \in Nat /\ Len(out) \in Nat /\ Len(taken) \in Nat /\ Len(bytes) \in Nat
    BY InputAssumption, LenProperties DEF TypeOK
  <1>2. n \in 0..Len(bytes) /\ 1 \in Int /\ n \in Int BY <1>1
  <1>3. \A i \in 1..n : bytes[i] \in Byte BY <1>1, <1>2, ElementOfSeq
  <1>4. part \in Seq(Byte) /\ Len(part) = IF 1 <= n THEN n - 1 + 1 ELSE 0
    <2> HIDE DEF n
    <2> QED BY <1>2, <1>3, SubSeqProperties
  <1> HIDE DEF part
  <1>5. Len(part) = n BY <1>1, <1>2, <1>4
  <1>6. taken \o part \in Seq(Byte) /\ Len(taken \o part) = Len(taken) + Len(part)
    BY <1>4, TwoParts
  <1>7. Len(taken \o part) = cap BY <1>1, <1>5, <1>6
  <1>8. out' = taken \/ out' = taken \o part BY DEF Refuse, part
  <1> DEFINE whole == taken \o part
  <1>9. whole \in Seq(Byte) /\ Len(whole) = cap BY <1>6, <1>7
  <1> HIDE DEF whole
  <1>10. ASSUME out' = taken PROVE Grown BY <1>10, <1>1 DEF Grown
  <1>11. ASSUME out' = whole PROVE Grown
    <2>1. Len(out) <= cap BY <1>1
    <2> QED BY <2>1, <1>11, <1>1, <1>9 DEF Grown
  <1>12. Grown BY <1>8, <1>10, <1>11 DEF whole
  <1> QED BY <1>12 DEF Refuse, Fail, Broken

LEMMA PutOutcome ==
  ASSUME TypeOK, pc = "busy", NEW a \in Seq(Byte), NEW b \in Seq(Byte), NEW c \in Seq(Byte),
         Len(a) > 0, NEW e, NEW s, Put(a, b, c, e, Go(s)), Same
  PROVE  Broken \/ Wrote(s)
  <1>1. cap \in Nat /\ Len(out) \in Nat /\ out \in Seq(Byte) /\ Len(out) <= cap
    BY InputAssumption, LenProperties DEF TypeOK
  <1>2. /\ a \o b \in Seq(Byte) /\ Len(a \o b) = Len(a) + Len(b)
        /\ Len(a) \in Nat /\ Len(b) \in Nat
    BY TwoParts
  <1>3. /\ a \o b \o c \in Seq(Byte) /\ Len(a \o b \o c) = Len(a) + Len(b) + Len(c)
        /\ Len(c) \in Nat
    BY <1>2, TwoParts
  <1>4. out \o a \in Seq(Byte) /\ Len(out \o a) = Len(out) + Len(a) BY <1>1, TwoParts
  <1>5. out \o a \o b \in Seq(Byte) /\ Len(out \o a \o b) = Len(out) + Len(a) + Len(b)
    BY <1>4, TwoParts
  <1>6. out \o a \o b \o c \in Seq(Byte) /\ Len(out \o a \o b \o c) = Len(out) + Len(a) + Len(b) + Len(c)
    BY <1>5, TwoParts
  <1>7. ASSUME ~Room(a), Refuse(out, a, e) PROVE Broken
    <2>1. cap < Len(out) + Len(a) BY <1>1, <1>2, <1>7 DEF Room
    <2> QED BY <2>1, <1>1, <1>7, RefuseOutcome
  <1>8. ASSUME Room(a), ~Room(a \o b), Refuse(out \o a, b, e) PROVE Broken
    <2> DEFINE t == out \o a
    <2>1. t \in Seq(Byte) /\ Len(out) <= Len(t) /\ Len(t) <= cap /\ cap < Len(t) + Len(b)
      BY <1>1, <1>2, <1>4, <1>8 DEF Room
    <2>2. Refuse(t, b, e) BY <1>8
    <2> HIDE DEF t
    <2> QED BY <2>1, <2>2, RefuseOutcome
  <1>9. ASSUME Room(a \o b), ~Room(a \o b \o c), Refuse(out \o a \o b, c, e) PROVE Broken
    <2> DEFINE t == out \o a \o b
    <2>1. t \in Seq(Byte) /\ Len(out) <= Len(t) /\ Len(t) <= cap /\ cap < Len(t) + Len(c)
      BY <1>1, <1>2, <1>3, <1>5, <1>9 DEF Room
    <2>2. Refuse(t, c, e) BY <1>9
    <2> HIDE DEF t
    <2> QED BY <2>1, <2>2, RefuseOutcome
  <1>10. ASSUME Room(a \o b \o c), out' = out \o a \o b \o c, Go(s) PROVE Wrote(s)
    <2>1. Len(out) < Len(out') /\ Len(out') <= cap /\ out' \in Seq(Byte)
      BY <1>1, <1>2, <1>3, <1>6, <1>10 DEF Room
    <2> QED BY <2>1, <1>1, <1>10 DEF Wrote, Grown
  <1> QED BY <1>7, <1>8, <1>9, <1>10 DEF Put

LEMMA WriteHeadOutcome ==
  ASSUME TypeOK, pc = "busy", NEW n \in Nat, NEW head, NEW bytes \in Seq(Byte), NEW e, NEW s,
         Holds(n, 4) => head.code \in Byte /\ head.digits \in Seq(Byte),
         WriteHead(n, head, e, bytes, Go(s)), Same
  PROVE  Broken \/ Wrote(s)
  <1>1. CASE ~Holds(n, 4)
    <2>1. Fail(e) /\ out' = out BY <1>1 DEF WriteHead
    <2> QED BY <2>1, FailOutcome
  <1>2. CASE Holds(n, 4)
    <2> DEFINE a == <<head.code>>
               d == head.digits
    <2>1. a \in Seq(Byte) /\ Len(a) > 0 /\ d \in Seq(Byte) BY <1>2
    <2>2. Put(a, d, bytes, "Writer", Go(s)) BY <1>2 DEF WriteHead
    <2> HIDE DEF a, d
    <2> QED BY <2>1, <2>2, PutOutcome
  <1> QED BY <1>1, <1>2

LEMMA WriteNumberOutcome ==
  ASSUME TypeOK, pc = "busy", NEW t \in Types, NEW v \in Int, Fits(t, v), NEW s,
         WriteNumber(t, v, Go(s)), Same
  PROVE  Broken \/ Wrote(s)
  <1> DEFINE a == <<IntCode(t, v)>>
             d == IntDigits(t, v)
             z == <<>>
  <1>1. a \in Seq(Byte) /\ Len(a) > 0 /\ d \in Seq(Byte) /\ z \in Seq(Byte)
    BY IntHeadLemma, EmptySeq
  <1>2. Put(a, d, z, "Writer", Go(s)) BY DEF WriteNumber
  <1> HIDE DEF a, d, z
  <1> QED BY <1>1, <1>2, PutOutcome

-----------------------------------------------------------------------------
(* The stack *)

LEMMA UnderLemma ==
  ASSUME TypeOK, pc = "busy"
  PROVE  /\ Under \in Seq(Frames) /\ Len(Under) = Len(stack) - 1
         /\ Len(stack) \in Nat /\ Len(stack) > 0 /\ Top \in Frames
         /\ \A i \in 1..(Len(stack) - 1) : Under[i] = stack[i]
  <1> DEFINE n == Len(stack) - 1
  <1>1. stack \in Seq(Frames) /\ Len(stack) \in Nat /\ Len(stack) > 0 BY DEF TypeOK
  <1>2. Top \in Frames /\ n \in Nat /\ n <= Len(stack) BY <1>1 DEF Top
  <1>3. \A i \in 1..n : stack[i] \in Frames BY <1>1, <1>2
  <1>4. 1 \in Int /\ n \in Int BY <1>2
  <1> HIDE DEF n
  <1>5. /\ SubSeq(stack, 1, n) \in Seq(Frames)
        /\ Len(SubSeq(stack, 1, n)) = IF 1 <= n THEN n - 1 + 1 ELSE 0
        /\ \A i \in 1..(n - 1 + 1) : SubSeq(stack, 1, n)[i] = stack[1 + i - 1]
    BY <1>3, <1>4, SubSeqProperties
  <1>6. Under = SubSeq(stack, 1, n) BY DEF Under, n
  <1>7. Len(Under) = n
    <2>1. CASE n = 0 BY <2>1, <1>5, <1>6
    <2>2. CASE n > 0 BY <2>2, <1>2, <1>5, <1>6
    <2> QED BY <2>1, <2>2, <1>2
  <1>8. \A i \in 1..n : Under[i] = stack[i] BY <1>2, <1>5, <1>6
  <1> QED BY <1>1, <1>2, <1>5, <1>6, <1>7, <1>8 DEF n

LEMMA OwnLemma == \A f \in Frames : Own(f) \in Nat /\ f.below \in Nat
  BY DEF Frames, Own

LEMMA TookLemma ==
  ASSUME NEW f \in Frames, FrameOK(f), Ready(f)
  PROVE  /\ Own(f) > 0 /\ Took(f) \in Frames /\ FrameOK(Took(f))
         /\ Own(Took(f)) = Own(f) - 1 /\ Took(f).below = f.below
  <1> DEFINE t == Took(f)
  <1>0. /\ f.n \in Nat /\ f.open \in BOOLEAN /\ f.len \in Nat /\ f.pos \in Nat
        /\ f.kind \in Kinds
    BY DEF Frames
  <1>1. CASE f.kind = "array"
    <2>1. f.n > 0 BY <1>1 DEF Ready
    <2>2. t = [f EXCEPT !.n = @ - 1, !.pos = @ + 1] BY <1>1 DEF Took, Keyed
    <2> HIDE DEF t
    <2>3. t \in Frames
      <3>1. f.n - 1 \in Nat /\ f.pos + 1 \in Nat BY <1>0, <2>1
      <3> QED BY <3>1, <2>2 DEF Frames
    <2>4. /\ t.kind = "array" /\ t.n = f.n - 1 /\ t.pos = f.pos + 1 /\ t.len = f.len
          /\ t.idx = f.idx /\ t.below = f.below
      BY <1>1, <2>2 DEF Frames
    <2>5. FrameOK(t) BY <1>0, <1>1, <2>1, <2>4 DEF FrameOK, InPlace
    <2>6. Own(f) = f.n /\ Own(t) = t.n BY <1>1, <2>4 DEF Own, Keyed
    <2>7. Own(f) > 0 /\ Own(t) = Own(f) - 1 BY <1>0, <2>1, <2>4, <2>6
    <2> QED BY <2>3, <2>4, <2>5, <2>7 DEF t
  <1>2. CASE f.kind = "map" /\ ~f.open
    <2>1. f.n > 0 BY <1>2 DEF Ready
    <2>2. t = [f EXCEPT !.n = @ - 1, !.open = TRUE] BY <1>2 DEF Took, Keyed
    <2> HIDE DEF t
    <2>3. t \in Frames
      <3>1. f.n - 1 \in Nat BY <1>0, <2>1
      <3> QED BY <3>1, <2>2 DEF Frames
    <2>4. /\ t.kind = "map" /\ t.n = f.n - 1 /\ t.open = TRUE
          /\ t.idx = f.idx /\ t.below = f.below
      BY <1>2, <2>2 DEF Frames
    <2>5. FrameOK(t) BY <2>4 DEF FrameOK, InPlace
    <2>6. Own(f) = 2 * f.n + 0 /\ Own(t) = 2 * t.n + 1 BY <1>2, <2>4 DEF Own, Keyed
    <2>7. Own(f) > 0 /\ Own(t) = Own(f) - 1 BY <1>0, <2>1, <2>4, <2>6
    <2> QED BY <2>3, <2>4, <2>5, <2>7 DEF t
  <1>3. CASE f.kind \in Keyed /\ f.open
    <2>1. t = [f EXCEPT !.open = FALSE] BY <1>3 DEF Took, Keyed
    <2> HIDE DEF t
    <2>2. t \in Frames BY <2>1 DEF Frames
    <2>3. /\ t.kind = f.kind /\ t.n = f.n /\ t.open = FALSE /\ t.pos = f.pos /\ t.len = f.len
          /\ t.idx = f.idx /\ t.below = f.below
      BY <2>1 DEF Frames
    <2>4. FrameOK(t) BY <2>3 DEF FrameOK, InPlace
    <2>5. Own(f) = 2 * f.n + 1 /\ Own(t) = 2 * t.n + 0 BY <1>3, <2>3 DEF Own
    <2>6. Own(f) > 0 /\ Own(t) = Own(f) - 1 BY <1>0, <2>3, <2>5
    <2> QED BY <2>2, <2>3, <2>4, <2>6 DEF t
  <1>4. CASE f.kind \in {"one", "seq"}
    <2>1. f.n > 0 BY <1>4 DEF Ready
    <2>2. t = [f EXCEPT !.n = @ - 1] BY <1>4 DEF Took, Keyed
    <2> HIDE DEF t
    <2>3. t \in Frames
      <3>1. f.n - 1 \in Nat BY <1>0, <2>1
      <3> QED BY <3>1, <2>2 DEF Frames
    <2>4. t.kind = f.kind /\ t.n = f.n - 1 /\ t.idx = f.idx /\ t.below = f.below
      BY <2>2 DEF Frames
    <2>5. FrameOK(t) BY <1>4, <2>4 DEF FrameOK, InPlace
    <2>6. Own(f) = f.n /\ Own(t) = t.n BY <1>4, <2>4 DEF Own, Keyed
    <2>7. Own(f) > 0 /\ Own(t) = Own(f) - 1 BY <1>0, <2>1, <2>4, <2>6
    <2> QED BY <2>3, <2>4, <2>5, <2>7 DEF t
  <1>5. f.kind \in {"array", "one", "seq"} \/ (f.kind = "map" /\ ~f.open) \/ (f.kind \in Keyed /\ f.open)
    BY <1>0 DEF Ready, Kinds, Keyed
  <1> QED BY <1>1, <1>2, <1>3, <1>4, <1>5

LEMMA FrameLemma ==
  ASSUME NEW k \in Kinds, NEW n \in Nat, NEW b \in Nat, NEW f \in Nat, k = "variant" => n = 2
  PROVE  /\ Frame(k, n, b, f) \in Frames /\ FrameOK(Frame(k, n, b, f))
         /\ Frame(k, n, b, f).below = b
  <1>1. 0 < Power[4] BY PowerLemma
  <1> QED BY <1>1 DEF Frame, Frames, FrameOK, InPlace

\* One frame in the place of the top; on top of it, the one it announced.
LEMMA ReplaceLemma ==
  ASSUME IInv, pc = "busy", NEW f, Successor(f)
  PROVE  /\ Replace(f) \in Seq(Frames) /\ Replace(f) /= <<>>
         /\ Len(Replace(f)) = Len(stack) /\ Replace(f)[Len(stack)] = f
         /\ Linked(Replace(f)) /\ Framed(Replace(f))
         /\ Owed(Replace(f)) = Top.below + Own(f)
  <1> DEFINE L == Len(stack)
             R == Replace(f)
  <1>1. /\ Under \in Seq(Frames) /\ Len(Under) = L - 1 /\ L \in Nat /\ L > 0 /\ Top \in Frames
        /\ \A i \in 1..(L - 1) : Under[i] = stack[i]
    BY UnderLemma DEF IInv
  <1>2. f \in Frames /\ FrameOK(f) /\ f.below = Top.below BY DEF Successor
  <1>3. /\ R \in Seq(Frames) /\ Len(R) = L /\ R[L] = f
        /\ \A i \in 1..(L - 1) : R[i] = stack[i]
    BY <1>1, <1>2 DEF Replace
  <1> HIDE DEF R
  <1>4. R /= <<>> BY <1>1, <1>3
  <1>5. Owed(R) = Top.below + Own(f) BY <1>2, <1>3, <1>4 DEF Owed
  <1>6. Linked(R)
    <2> SUFFICES ASSUME NEW i \in 1..L
                 PROVE R[i].below = IF i = 1 THEN 0 ELSE R[i - 1].below + Own(R[i - 1])
      BY <1>3 DEF Linked
    <2>1. stack[i].below = IF i = 1 THEN 0 ELSE stack[i - 1].below + Own(stack[i - 1])
      BY DEF IInv, Linked
    <2>2. R[i].below = stack[i].below BY <1>1, <1>2, <1>3 DEF Top
    <2>3. i /= 1 => R[i - 1] = stack[i - 1] BY <1>1, <1>3
    <2> QED BY <2>1, <2>2, <2>3
  <1>7. Framed(R)
    <2> SUFFICES ASSUME NEW i \in 1..L PROVE FrameOK(R[i]) BY <1>3 DEF Framed
    <2>1. FrameOK(stack[i]) BY DEF IInv, Framed
    <2>2. R[i] = f \/ R[i] = stack[i] BY <1>1, <1>3
    <2> QED BY <2>1, <2>2, <1>2
  <1> QED BY <1>3, <1>4, <1>5, <1>6, <1>7 DEF R

LEMMA PushLemma ==
  ASSUME NEW s \in Seq(Frames), s /= <<>>, Linked(s), Framed(s), NEW f, f = s[Len(s)],
         NEW g, Inner(f, g)
  PROVE  /\ Append(s, g) \in Seq(Frames) /\ Append(s, g) /= <<>>
         /\ Linked(Append(s, g)) /\ Framed(Append(s, g))
         /\ Owed(Append(s, g)) = f.below + Own(f) + Own(g)
  <1> DEFINE L == Len(s)
             A == Append(s, g)
  <1>1. L \in Nat /\ L > 0 OBVIOUS
  <1>2. g \in Frames /\ FrameOK(g) /\ g.below = f.below + Own(f) BY DEF Inner
  <1>3. /\ A \in Seq(Frames) /\ Len(A) = L + 1 /\ A[L + 1] = g /\ \A i \in 1..L : A[i] = s[i]
    BY <1>1, <1>2
  <1> HIDE DEF A
  <1>4. A /= <<>> BY <1>1, <1>3
  <1>5. Owed(A) = f.below + Own(f) + Own(g) BY <1>2, <1>3, <1>4 DEF Owed
  <1>6. Linked(A)
    <2> SUFFICES ASSUME NEW i \in 1..(L + 1)
                 PROVE A[i].below = IF i = 1 THEN 0 ELSE A[i - 1].below + Own(A[i - 1])
      BY <1>3 DEF Linked
    <2>1. CASE i = L + 1
      <3>1. A[i] = g /\ i /= 1 /\ A[i - 1] = f BY <2>1, <1>1, <1>3
      <3> QED BY <3>1, <1>2
    <2>2. CASE i \in 1..L
      <3>1. A[i] = s[i] /\ (i /= 1 => A[i - 1] = s[i - 1]) BY <2>2, <1>1, <1>3
      <3>2. s[i].below = IF i = 1 THEN 0 ELSE s[i - 1].below + Own(s[i - 1])
        BY <2>2 DEF Linked
      <3> QED BY <3>1, <3>2
    <2> QED BY <2>1, <2>2, <1>1
  <1>7. Framed(A)
    <2> SUFFICES ASSUME NEW i \in 1..(L + 1) PROVE FrameOK(A[i]) BY <1>3 DEF Framed
    <2>1. i \in 1..L => FrameOK(s[i]) BY DEF Framed
    <2>2. A[i] = g \/ (i \in 1..L /\ A[i] = s[i]) BY <1>1, <1>3
    <2> QED BY <2>1, <2>2, <1>2
  <1> QED BY <1>3, <1>4, <1>5, <1>6, <1>7 DEF A

\* Under an exhausted frame, as much is owed.
LEMMA PopLemma ==
  ASSUME IInv, pc = "busy", Own(Top) = 0
  PROVE  /\ Under \in Seq(Frames) /\ Linked(Under) /\ Framed(Under)
         /\ Owed(Under) = Owed(stack)
  <1> DEFINE L == Len(stack)
             U == Under
  <1>1. /\ U \in Seq(Frames) /\ Len(U) = L - 1 /\ L \in Nat /\ L > 0 /\ Top \in Frames
        /\ \A i \in 1..(L - 1) : U[i] = stack[i]
    BY UnderLemma DEF IInv
  <1> HIDE DEF U
  <1>2. Linked(U)
    <2> SUFFICES ASSUME NEW i \in 1..(L - 1)
                 PROVE U[i].below = IF i = 1 THEN 0 ELSE U[i - 1].below + Own(U[i - 1])
      BY <1>1 DEF Linked
    <2>1. stack[i].below = IF i = 1 THEN 0 ELSE stack[i - 1].below + Own(stack[i - 1])
      BY <1>1 DEF IInv, Linked
    <2>2. U[i] = stack[i] /\ (i /= 1 => U[i - 1] = stack[i - 1]) BY <1>1
    <2> QED BY <2>1, <2>2
  <1>3. Framed(U) BY <1>1 DEF IInv, Framed
  <1>4. Owed(stack) = Top.below
    <2>1. stack /= <<>> /\ Top.below \in Nat BY <1>1, OwnLemma
    <2> QED BY <2>1 DEF Owed, Top
  <1>5. Top.below = IF L = 1 THEN 0 ELSE stack[L - 1].below + Own(stack[L - 1])
    BY <1>1 DEF IInv, Linked, Top
  <1>6. Owed(U) = Owed(stack)
    <2>1. CASE L = 1
      <3>1. U = <<>> BY <2>1, <1>1
      <3> QED BY <3>1, <2>1, <1>4, <1>5 DEF Owed
    <2>2. CASE L > 1
      <3>1. U /= <<>> /\ U[Len(U)] = stack[L - 1] BY <2>2, <1>1
      <3> QED BY <3>1, <2>2, <1>1, <1>4, <1>5 DEF Owed
    <2> QED BY <2>1, <2>2, <1>1
  <1> QED BY <1>1, <1>2, <1>3, <1>6 DEF U

-----------------------------------------------------------------------------
(* Every action of a call has one of the outcomes. *)

LEMMA SettleOutcome ==
  ASSUME IInv, Serializing, Broken \/ Wrote(Settle)
  PROVE  Outcome
  <1>1. pc = "busy" /\ Ready(Top) BY DEF Serializing
  <1>2. Top \in Frames /\ FrameOK(Top)
    <2>1. Top \in Frames /\ Len(stack) \in 1..Len(stack) BY <1>1, UnderLemma DEF IInv
    <2> QED BY <2>1 DEF IInv, Framed, Top
  <1> DEFINE f == Took(Top)
  <1>3. Successor(f) /\ Own(f) + 1 >= Own(Top) /\ Own(Top) > 0
    BY <1>1, <1>2, TookLemma, OwnLemma DEF Successor
  <1>4. Settle = Replace(f) BY DEF Settle
  <1> HIDE DEF f
  <1> QED BY <1>1, <1>3, <1>4 DEF Outcome, Advanced

LEMMA AnnounceOutcome ==
  ASSUME IInv, Serializing, NEW k \in Kinds, NEW n \in Nat, NEW fields \in Nat,
         k = "variant" => n = 2, Broken \/ Wrote(Announce(k, n, fields))
  PROVE  Outcome
  <1>1. pc = "busy" /\ Ready(Top) BY DEF Serializing
  <1>2. Top \in Frames /\ FrameOK(Top)
    <2>1. Top \in Frames /\ Len(stack) \in 1..Len(stack) BY <1>1, UnderLemma DEF IInv
    <2> QED BY <2>1 DEF IInv, Framed, Top
  <1> DEFINE f == Took(Top)
             b == Top.below + Own(f)
             g == Frame(k, n, b, fields)
  <1>3. f \in Frames /\ Successor(f) /\ Own(f) + 1 >= Own(Top) /\ Own(Top) > 0
    BY <1>1, <1>2, TookLemma, OwnLemma DEF Successor
  <1>4. b \in Nat /\ b = f.below + Own(f) BY <1>2, <1>3, OwnLemma DEF Successor
  <1>5. Announce(k, n, fields) = Append(Replace(f), g) BY DEF Announce, Settle
  <1> HIDE DEF f, b
  <1>6. Inner(f, g) BY <1>4, FrameLemma DEF Inner
  <1> HIDE DEF g
  <1> QED BY <1>1, <1>3, <1>5, <1>6 DEF Outcome, Advanced

LEMMA EmptyBytes == <<>> \in Seq(Byte)
  BY EmptySeq

LEMMA InputLemma ==
  /\ \A n \in Sizes \cup Counts \cup Names \cup FieldCounts : n \in Nat
  /\ \A v \in Numbers : v \in Int
  BY InputAssumption

LEMMA VariantOutcome ==
  ASSUME TypeOK, pc = "busy", NEW s, WriteVariant(s), Same
  PROVE  Broken \/ Wrote(s)
  <1>1. ASSUME NEW n \in Names, WriteHead(n, StrHead(n), "StrLength", Payload(n), Go(s))
        PROVE  Broken \/ Wrote(s)
    <2>1. n \in Nat /\ Payload(n) \in Seq(Byte) BY InputLemma, PayloadLemma
    <2>2. Holds(n, 4) => StrHead(n).code \in Byte /\ StrHead(n).digits \in Seq(Byte)
      BY <2>1, HeadLemma
    <2> QED BY <2>1, <2>2, <1>1, WriteHeadOutcome
  <1>2. ASSUME NEW v \in Numbers, Fits("u32", v), WriteNumber("u32", v, Go(s))
        PROVE  Broken \/ Wrote(s)
    <2>1. v \in Int /\ "u32" \in Types BY InputLemma DEF Types
    <2> QED BY <2>1, <1>2, WriteNumberOutcome
  <1> QED BY <1>1, <1>2 DEF WriteVariant

LEMMA SerializeScalarOutcome ==
  ASSUME IInv, SerializeScalar
  PROVE  Outcome
  <1>1. pc = "busy" /\ TypeOK /\ Serializing /\ Same
    BY DEF SerializeScalar, Serializing, IInv
  <1>2. PICK s \in Scalars : Put(<<s[1]>>, Payload(s[2]), <<>>, "Writer", Go(Settle))
    BY DEF SerializeScalar
  <1> DEFINE a == <<s[1]>>
             d == Payload(s[2])
             z == <<>>
  <1>3. s[1] \in Byte /\ s[2] \in Nat BY DEF Scalars, Byte, NIL, TRUE_, FLOAT_32
  <1>4. a \in Seq(Byte) /\ Len(a) > 0 /\ d \in Seq(Byte) /\ z \in Seq(Byte)
    BY <1>3, PayloadLemma, EmptyBytes
  <1>5. Put(a, d, z, "Writer", Go(Settle)) BY <1>2
  <1> HIDE DEF a, d, z
  <1>6. Broken \/ Wrote(Settle) BY <1>1, <1>4, <1>5, PutOutcome
  <1> QED BY <1>1, <1>6, SettleOutcome

LEMMA SerializeIntegerOutcome ==
  ASSUME IInv, SerializeInteger
  PROVE  Outcome
  <1>1. pc = "busy" /\ TypeOK /\ Serializing /\ Same
    BY DEF SerializeInteger, Serializing, IInv
  <1>2. PICK t \in Types, v \in Numbers : Fits(t, v) /\ WriteNumber(t, v, Go(Settle))
    BY DEF SerializeInteger
  <1>3. v \in Int BY InputLemma
  <1>4. Broken \/ Wrote(Settle) BY <1>1, <1>2, <1>3, WriteNumberOutcome
  <1> QED BY <1>1, <1>4, SettleOutcome

LEMMA SerializeStrOutcome ==
  ASSUME IInv, SerializeStr
  PROVE  Outcome
  <1>1. pc = "busy" /\ TypeOK /\ Serializing /\ Same
    BY DEF SerializeStr, Serializing, IInv
  <1>2. PICK n \in Sizes : WriteHead(n, StrHead(n), "StrLength", Payload(n), Go(Settle))
    BY DEF SerializeStr
  <1>3. n \in Nat /\ Payload(n) \in Seq(Byte) BY InputLemma, PayloadLemma
  <1>4. Holds(n, 4) => StrHead(n).code \in Byte /\ StrHead(n).digits \in Seq(Byte)
    BY <1>3, HeadLemma
  <1>5. Broken \/ Wrote(Settle) BY <1>1, <1>2, <1>3, <1>4, WriteHeadOutcome
  <1> QED BY <1>1, <1>5, SettleOutcome

LEMMA SerializeBytesOutcome ==
  ASSUME IInv, SerializeBytes
  PROVE  Outcome
  <1>1. pc = "busy" /\ TypeOK /\ Serializing /\ Same
    BY DEF SerializeBytes, Serializing, IInv
  <1>2. PICK n \in Sizes : WriteHead(n, BinHead(n), "DataLength", Payload(n), Go(Settle))
    BY DEF SerializeBytes
  <1>3. n \in Nat /\ Payload(n) \in Seq(Byte) BY InputLemma, PayloadLemma
  <1>4. Holds(n, 4) => BinHead(n).code \in Byte /\ BinHead(n).digits \in Seq(Byte)
    BY <1>3, HeadLemma
  <1>5. Broken \/ Wrote(Settle) BY <1>1, <1>2, <1>3, <1>4, WriteHeadOutcome
  <1> QED BY <1>1, <1>5, SettleOutcome

\* A head and nothing else, announcing a frame.
LEMMA HeadOutcome ==
  ASSUME IInv, Serializing, NEW n \in Nat, NEW head, NEW e,
         NEW k \in Kinds \ {"variant"}, NEW fields \in Nat,
         Holds(n, 4) => head.code \in Byte /\ head.digits \in Seq(Byte),
         WriteHead(n, head, e, <<>>, Go(Announce(k, n, fields))), Same
  PROVE  Outcome
  <1>1. pc = "busy" /\ TypeOK BY DEF Serializing, IInv
  <1>2. Broken \/ Wrote(Announce(k, n, fields)) BY <1>1, EmptyBytes, WriteHeadOutcome
  <1> QED BY <1>2, AnnounceOutcome

LEMMA SerializeSeqOutcome ==
  ASSUME IInv, SerializeSeq
  PROVE  Outcome
  <1>1. PICK n \in Counts : WriteHead(n, ArrayHead(n), "SeqLength", <<>>, Go(Announce("seq", n, 0)))
    BY DEF SerializeSeq
  <1>2. n \in Nat /\ "seq" \in Kinds \ {"variant"} /\ 0 \in Nat BY InputLemma DEF Kinds
  <1> QED BY <1>1, <1>2, HeadLemma, HeadOutcome DEF SerializeSeq

LEMMA SerializeMapOutcome ==
  ASSUME IInv, SerializeMap
  PROVE  Outcome
  <1>1. PICK n \in Counts : WriteHead(n, MapHead(n), "MapLength", <<>>, Go(Announce("map", n, 0)))
    BY DEF SerializeMap
  <1>2. n \in Nat /\ "map" \in Kinds \ {"variant"} /\ 0 \in Nat BY InputLemma DEF Kinds
  <1> QED BY <1>1, <1>2, HeadLemma, HeadOutcome DEF SerializeMap

LEMMA SerializeStructOutcome ==
  ASSUME IInv, SerializeStruct
  PROVE  Outcome
  <1>1. PICK n \in Counts, f \in FieldCounts :
          \/ repr = "array" /\ WriteHead(n, ArrayHead(n), "SeqLength", <<>>, Go(Announce("array", n, f)))
          \/ repr /= "array" /\ WriteHead(n, MapHead(n), "MapLength", <<>>, Go(Announce(repr, n, f)))
    BY DEF SerializeStruct
  <1>2. n \in Nat /\ f \in Nat BY InputLemma
  <1>3. Serializing /\ Same BY DEF SerializeStruct
  <1>4. /\ "array" \in Kinds \ {"variant"}
        /\ repr /= "array" => repr \in Kinds \ {"variant"}
    BY ReprAssumption DEF Kinds, IInv, TypeOK
  <1>5. CASE repr = "array" BY <1>5, <1>1, <1>2, <1>3, <1>4, HeadLemma, HeadOutcome
  <1>6. CASE repr /= "array" BY <1>6, <1>1, <1>2, <1>3, <1>4, HeadLemma, HeadOutcome
  <1> QED BY <1>5, <1>6

LEMMA CollectStrOutcome ==
  ASSUME IInv, CollectStr
  PROVE  Outcome
  <1>1. PICK n \in Sizes : WriteHead(n, StrHead(n), "StrLength", <<>>, Go(Announce("text", n, 0)))
    BY DEF CollectStr
  <1>2. n \in Nat /\ "text" \in Kinds \ {"variant"} /\ 0 \in Nat BY InputLemma DEF Kinds
  <1> QED BY <1>1, <1>2, HeadLemma, HeadOutcome DEF CollectStr

LEMMA SerializeVariantOutcome ==
  ASSUME IInv, SerializeVariant
  PROVE  Outcome
  <1> DEFINE a == <<FIXMAP + 1>>
             z == <<>>
             s == Announce("variant", 2, 0)
  <1>1. pc = "busy" /\ TypeOK /\ Serializing /\ Same
    BY DEF SerializeVariant, Serializing, IInv
  <1>2. a \in Seq(Byte) /\ Len(a) > 0 /\ z \in Seq(Byte) BY EmptyBytes DEF FIXMAP, Byte
  <1>3. Put(a, z, z, "Writer", Go(s)) BY DEF SerializeVariant
  <1> HIDE DEF a, z, s
  <1>4. Broken \/ Wrote(s) BY <1>1, <1>2, <1>3, PutOutcome
  <1>5. "variant" \in Kinds /\ 2 \in Nat /\ 0 \in Nat BY DEF Kinds
  <1> QED BY <1>1, <1>4, <1>5, AnnounceOutcome DEF s

LEMMA SerializeUnitVariantOutcome ==
  ASSUME IInv, SerializeUnitVariant
  PROVE  Outcome
  <1>1. pc = "busy" /\ TypeOK /\ Serializing /\ Same /\ WriteVariant(Settle)
    BY DEF SerializeUnitVariant, Serializing, IInv
  <1> QED BY <1>1, VariantOutcome, SettleOutcome

\* What a step that replaces the innermost frame has to show.
LEMMA TopLemma ==
  ASSUME IInv, pc = "busy"
  PROVE  /\ Top \in Frames /\ FrameOK(Top) /\ Own(Top) \in Nat
         /\ Top.n \in Nat /\ Top.open \in BOOLEAN /\ Top.len \in Nat /\ Top.pos \in Nat
         /\ Top.idx \in Nat /\ Top.kind \in Kinds
  <1>1. Top \in Frames /\ Len(stack) \in 1..Len(stack) BY UnderLemma DEF IInv
  <1>2. FrameOK(Top) BY <1>1 DEF IInv, Framed, Top
  <1> QED BY <1>1, <1>2, OwnLemma DEF Frames

\* The frames that the steps put in the place of the top.
LEMMA NamedFrame ==
  ASSUME IInv, pc = "busy", Top.kind = "variant"
  PROVE  LET f == [Top EXCEPT !.kind = "one", !.n = 1] IN
         Successor(f) /\ f.kind = "one" /\ Own(Top) = 2 /\ Own(f) = 1
  <1> DEFINE f == [Top EXCEPT !.kind = "one", !.n = 1]
  <1>1. Top \in Frames /\ FrameOK(Top) /\ Top.n = 2 BY TopLemma DEF FrameOK
  <1>2. f \in Frames BY <1>1 DEF Frames, Kinds
  <1>3. f.kind = "one" /\ f.n = 1 /\ f.idx = Top.idx /\ f.below = Top.below
    BY <1>1 DEF Frames
  <1> HIDE DEF f
  <1>4. FrameOK(f) BY <1>1, <1>3 DEF FrameOK, InPlace
  <1>5. Own(Top) = 2 /\ Own(f) = 1 BY <1>1, <1>3 DEF Own, Keyed
  <1>6. Successor(f) BY <1>2, <1>3, <1>4 DEF Successor
  <1> QED BY <1>3, <1>5, <1>6 DEF f

LEMMA PieceFrame ==
  ASSUME IInv, pc = "busy", Top.kind = "text", NEW k \in 1..Top.n
  PROVE  LET f == [Top EXCEPT !.n = @ - k] IN
         /\ Successor(f) /\ f.kind = "text" /\ f.n = Top.n - k
         /\ Own(Top) = 1 /\ Own(f) \in {0, 1}
  <1> DEFINE f == [Top EXCEPT !.n = @ - k]
  <1>1. Top \in Frames /\ FrameOK(Top) /\ Top.n \in Nat BY TopLemma
  <1>2. Top.n - k \in Nat /\ Top.n > 0 BY <1>1
  <1>3. f \in Frames BY <1>1, <1>2 DEF Frames
  <1>4. f.kind = "text" /\ f.n = Top.n - k /\ f.idx = Top.idx /\ f.below = Top.below
    BY <1>1 DEF Frames
  <1> HIDE DEF f
  <1>5. FrameOK(f) BY <1>1, <1>4 DEF FrameOK, InPlace
  <1>6. Own(Top) = 1 /\ Own(f) \in {0, 1} BY <1>2, <1>4 DEF Own, Keyed
  <1>7. Successor(f) BY <1>3, <1>4, <1>5 DEF Successor
  <1> QED BY <1>4, <1>6, <1>7 DEF f

LEMMA WrappingLemma ==
  ASSUME NEW i \in Nat
  PROVE  /\ Wrapping(i) \in Nat /\ Wrapping(i) < Power[4]
         /\ i + 1 < Power[4] => Wrapping(i) = i + 1
  <1> DEFINE P == Power[4]
  <1>1. P \in Nat \ {0} BY PowerLemma
  <1>2. Wrapping(i) = (i + 1) % P BY DEF Wrapping
  <1> HIDE DEF P
  <1>3. (i + 1) % P \in Nat /\ (i + 1) % P < P /\ (i + 1 < P => (i + 1) % P = i + 1)
    BY <1>1, DivMod
  <1> QED BY <1>2, <1>3 DEF P

\* The frame of a struct whose next key is written.
Keys(f) == [f EXCEPT !.n = @ - 1, !.open = TRUE, !.pos = @ + 1,
                     !.idx = IF f.kind = "index" THEN Wrapping(@) ELSE @]

LEMMA KeyFrame ==
  ASSUME IInv, pc = "busy", Top.kind \in {"index", "name"}, ~Top.open, Top.n > 0
  PROVE  /\ Successor(Keys(Top)) /\ Keys(Top).kind = Top.kind
         /\ Own(Top) > 0 /\ Own(Keys(Top)) = Own(Top) - 1
  <1> DEFINE f == Keys(Top)
  <1>1. /\ Top \in Frames /\ FrameOK(Top) /\ Top.n \in Nat /\ Top.pos \in Nat
        /\ Top.idx \in Nat /\ Top.idx < Power[4]
    BY TopLemma DEF FrameOK
  <1>2. /\ Wrapping(Top.idx) \in Nat /\ Wrapping(Top.idx) < Power[4]
        /\ Top.idx + 1 < Power[4] => Wrapping(Top.idx) = Top.idx + 1
    BY <1>1, WrappingLemma
  <1>3. f \in Frames
    <2>1. Top.n - 1 \in Nat /\ Top.pos + 1 \in Nat BY <1>1
    <2> QED BY <2>1, <1>1, <1>2 DEF Frames, Keys
  <1>4. /\ f.kind = Top.kind /\ f.n = Top.n - 1 /\ f.open = TRUE /\ f.pos = Top.pos + 1
        /\ f.idx = (IF Top.kind = "index" THEN Wrapping(Top.idx) ELSE Top.idx)
        /\ f.below = Top.below
    BY <1>1 DEF Frames, Keys
  <1> HIDE DEF f
  <1>5. FrameOK(f)
    <2>1. Power[4] \in Nat BY PowerLemma
    <2>2. Top.kind = "index" /\ Top.pos < Power[4] => Top.idx = Top.pos
      BY <1>1 DEF FrameOK, InPlace
    <2>3. f.kind = "index" /\ f.pos < Power[4] => f.idx = f.pos
      BY <2>1, <2>2, <1>1, <1>2, <1>4
    <2>4. f.idx < Power[4] BY <1>1, <1>2, <1>4
    <2> QED BY <2>3, <2>4, <1>4 DEF FrameOK, InPlace
  <1>6. Own(Top) = 2 * Top.n + 0 /\ Own(f) = 2 * f.n + 1 BY <1>4 DEF Own, Keyed
  <1>7. Own(Top) > 0 /\ Own(f) = Own(Top) - 1 BY <1>1, <1>4, <1>6
  <1>8. Successor(f) BY <1>3, <1>4, <1>5 DEF Successor
  <1> QED BY <1>4, <1>7, <1>8 DEF f

LEMMA SkippedFrame ==
  ASSUME IInv, pc = "busy", Top.kind \in Struct, Skippable(Top)
  PROVE  /\ Successor(Skipped(Top)) /\ Skipped(Top).kind = Top.kind
         /\ Own(Skipped(Top)) = Own(Top)
  <1> DEFINE f == Skipped(Top)
  <1>1. /\ Top \in Frames /\ FrameOK(Top) /\ Top.n \in Nat /\ Top.pos \in Nat
        /\ Top.idx \in Nat /\ Top.idx < Power[4]
    BY TopLemma DEF FrameOK
  <1>2. /\ Wrapping(Top.idx) \in Nat /\ Wrapping(Top.idx) < Power[4]
        /\ Top.idx + 1 < Power[4] => Wrapping(Top.idx) = Top.idx + 1
    BY <1>1, WrappingLemma
  <1>3. f \in Frames
    <2>1. Top.pos + 1 \in Nat BY <1>1
    <2> QED BY <2>1, <1>1, <1>2 DEF Frames, Skipped
  <1>4. /\ f.kind = Top.kind /\ f.n = Top.n /\ f.open = Top.open /\ f.pos = Top.pos + 1
        /\ f.idx = (IF Top.kind = "index" THEN Wrapping(Top.idx) ELSE Top.idx)
        /\ f.below = Top.below
    BY <1>1 DEF Frames, Skipped
  <1> HIDE DEF f
  <1>5. FrameOK(f)
    <2>1. Power[4] \in Nat BY PowerLemma
    <2>2. Top.kind = "index" /\ Top.pos < Power[4] => Top.idx = Top.pos
      BY <1>1 DEF FrameOK, InPlace
    <2>3. f.kind = "index" /\ f.pos < Power[4] => f.idx = f.pos
      BY <2>1, <2>2, <1>1, <1>2, <1>4
    <2>4. f.idx < Power[4] BY <1>1, <1>2, <1>4
    <2>5. f.kind = "array" => f.n = 0 BY <1>4 DEF Skippable
    <2>6. f.kind /= "variant" BY <1>4 DEF Struct
    <2> QED BY <2>3, <2>4, <2>5, <2>6 DEF FrameOK, InPlace
  <1>6. Own(f) = Own(Top) BY <1>4 DEF Own
  <1>7. Successor(f) BY <1>3, <1>4, <1>5 DEF Successor
  <1> QED BY <1>4, <1>6, <1>7 DEF f

LEMMA NameVariantOutcome ==
  ASSUME IInv, NameVariant
  PROVE  Outcome
  <1> DEFINE f == [Top EXCEPT !.kind = "one", !.n = 1]
  <1>1. pc = "busy" /\ TypeOK /\ Same /\ WriteVariant(Replace(f)) /\ Top.kind = "variant"
    BY DEF NameVariant, IInv
  <1>2. Successor(f) /\ Own(Top) = 2 /\ Own(f) = 1 BY <1>1, NamedFrame
  <1> HIDE DEF f
  <1>3. Own(Top) > 0 /\ Own(f) + 1 >= Own(Top) BY <1>2
  <1>4. Broken \/ Wrote(Replace(f)) BY <1>1, VariantOutcome
  <1> QED BY <1>1, <1>2, <1>3, <1>4 DEF Outcome, Advanced

LEMMA CollectPieceOutcome ==
  ASSUME IInv, CollectPiece
  PROVE  Outcome
  <1>1. pc = "busy" /\ TypeOK /\ Same /\ Top.kind = "text" BY DEF CollectPiece, IInv
  <1>2. PICK k \in 1..(Top.n + 1) :
          \/ TooLong(k) /\ Fail("FormatError") /\ out' = out
          \/ ~TooLong(k) /\ Put(Payload(k), <<>>, <<>>, "FormatError",
                                Go(Replace([Top EXCEPT !.n = @ - k])))
    BY DEF CollectPiece
  <1>3. Top \in Frames /\ FrameOK(Top) /\ Top.n \in Nat BY <1>1, TopLemma
  <1>4. CASE Fail("FormatError") /\ out' = out
    BY <1>1, <1>4, FailOutcome DEF Outcome
  <1>5. CASE ~TooLong(k) /\ Put(Payload(k), <<>>, <<>>, "FormatError",
                                Go(Replace([Top EXCEPT !.n = @ - k])))
    <2> DEFINE f == [Top EXCEPT !.n = @ - k]
               a == Payload(k)
               z == <<>>
    <2>1. k \in Nat /\ k >= 1 /\ Top.n - k \in Nat BY <1>3, <1>5 DEF TooLong
    <2>2. a \in Seq(Byte) /\ Len(a) > 0 /\ z \in Seq(Byte) BY <2>1, PayloadLemma, EmptyBytes
    <2>3. Put(a, z, z, "FormatError", Go(Replace(f))) BY <1>5
    <2>4. k \in 1..Top.n BY <1>3, <2>1
    <2>5. Successor(f) /\ Own(Top) = 1 /\ Own(f) \in {0, 1} BY <1>1, <2>4, PieceFrame
    <2> HIDE DEF f, a, z
    <2>6. Own(Top) > 0 /\ Own(f) + 1 >= Own(Top) BY <2>5
    <2>7. Broken \/ Wrote(Replace(f)) BY <1>1, <2>2, <2>3, PutOutcome
    <2> QED BY <1>1, <2>5, <2>6, <2>7 DEF Outcome, Advanced
  <1> QED BY <1>2, <1>4, <1>5

LEMMA WriteKeyOutcome ==
  ASSUME IInv, WriteKey
  PROVE  Outcome
  <1> DEFINE f == Keys(Top)
  <1>1. /\ pc = "busy" /\ TypeOK /\ Same
        /\ Top.kind \in {"index", "name"} /\ ~Top.open /\ Top.n > 0
    BY DEF WriteKey, IInv
  <1>2. /\ Top.kind = "index" => WriteNumber("u32", Top.idx, Go(Replace(f)))
        /\ Top.kind /= "index" =>
             \E n \in Names : WriteHead(n, StrHead(n), "StrLength", Payload(n), Go(Replace(f)))
    BY DEF WriteKey, Keys
  <1>3. Top.idx \in Nat /\ Top.idx < Power[4] BY <1>1, TopLemma DEF FrameOK
  <1>4. /\ Successor(f) /\ Own(Top) > 0 /\ Own(f) = Own(Top) - 1
        /\ Own(Top) \in Nat
    BY <1>1, KeyFrame, TopLemma
  <1> HIDE DEF f
  <1>5. Own(f) + 1 >= Own(Top) BY <1>4
  <1>6. Broken \/ Wrote(Replace(f))
    <2>1. CASE Top.kind = "index"
      <3>1. "u32" \in Types /\ Top.idx \in Int BY <1>3 DEF Types
      <3>2. Fits("u32", Top.idx) BY <1>3 DEF Fits, Signed, Width
      <3> QED BY <3>1, <3>2, <2>1, <1>1, <1>2, WriteNumberOutcome
    <2>2. CASE Top.kind /= "index"
      <3>1. PICK n \in Names : WriteHead(n, StrHead(n), "StrLength", Payload(n), Go(Replace(f)))
        BY <2>2, <1>2
      <3>2. n \in Nat /\ Payload(n) \in Seq(Byte) BY InputLemma, PayloadLemma
      <3>3. Holds(n, 4) => StrHead(n).code \in Byte /\ StrHead(n).digits \in Seq(Byte)
        BY <3>2, HeadLemma
      <3> QED BY <1>1, <3>1, <3>2, <3>3, WriteHeadOutcome
    <2> QED BY <2>1, <2>2
  <1> QED BY <1>1, <1>4, <1>5, <1>6 DEF Outcome, Advanced

LEMMA SkipFieldOutcome ==
  ASSUME IInv, SkipField
  PROVE  Outcome
  <1>1. pc = "busy" /\ TypeOK /\ Same /\ out' = out /\ Top.kind \in Struct
    BY DEF SkipField, IInv
  <1>2. CASE Fail("FieldSkipped") BY <1>1, <1>2, FailOutcome DEF Outcome
  <1>3. CASE Skippable(Top) /\ Go(Replace(Skipped(Top)))
    BY <1>1, <1>3, SkippedFrame DEF Outcome, Quiet
  <1> QED BY <1>2, <1>3 DEF SkipField

LEMMA EndOutcome ==
  ASSUME IInv, End
  PROVE  Outcome
  <1>1. pc = "busy" /\ TypeOK /\ Same /\ out' = out /\ ~Top.open BY DEF End, IInv
  <1>2. CASE Top.kind = "text" \/ AllWritten(Top)
    <2>1. Top.n = 0 BY <1>2 DEF End, AllWritten
    <2>2. Own(Top) = 0 BY <2>1, <1>1 DEF Own
    <2>3. stack' = Under /\ pc' = IF Under = <<>> THEN "ok" ELSE pc BY <1>2 DEF End
    <2> QED BY <1>1, <2>2, <2>3 DEF Outcome, Popped
  <1>3. CASE ~(Top.kind = "text" \/ AllWritten(Top))
    <2>1. \E e : Fail(e) BY <1>3 DEF End
    <2> QED BY <2>1, <1>1, FailOutcome DEF Outcome
  <1> QED BY <1>2, <1>3

\* The actions that only fail.
LEMMA RefusalOutcome ==
  ASSUME IInv, TooMany \/ LengthUnknown \/ GiveUp
  PROVE  Outcome
  <1>1. pc = "busy" /\ TypeOK /\ Same /\ out' = out
    BY DEF TooMany, LengthUnknown, GiveUp, Serializing, IInv
  <1>2. \E e : Fail(e) BY DEF TooMany, LengthUnknown, GiveUp
  <1> QED BY <1>1, <1>2, FailOutcome DEF Outcome

LEMMA StepOutcome ==
  ASSUME IInv, Next
  PROVE  Begin \/ Outcome
  BY SerializeScalarOutcome, SerializeIntegerOutcome, SerializeStrOutcome, SerializeBytesOutcome,
     SerializeSeqOutcome, SerializeMapOutcome, SerializeStructOutcome, SerializeVariantOutcome,
     SerializeUnitVariantOutcome, NameVariantOutcome, CollectStrOutcome, CollectPieceOutcome,
     WriteKeyOutcome, SkipFieldOutcome, EndOutcome, RefusalOutcome
  DEF Next

-----------------------------------------------------------------------------
(* What each outcome does to the invariant and to the count of the stream. *)

LEMMA AdvancedLemma ==
  ASSUME IInv, Advanced
  PROVE  /\ IInv' /\ Owed(stack) > 0 /\ Len(out) < Len(out') /\ Len(out') \in Nat
         /\ Owed(stack') \in Nat /\ Owed(stack') >= Owed(stack) - 1
         /\ pc' = "busy"
  <1>1. PICK f : /\ Successor(f) /\ Own(f) + 1 >= Own(Top)
                 /\ Wrote(Replace(f)) \/ \E g : Inner(f, g) /\ Wrote(Append(Replace(f), g))
    BY DEF Advanced
  <1>2. pc = "busy" /\ Own(Top) > 0 BY DEF Advanced
  <1> DEFINE R == Replace(f)
  <1>3. f \in Frames /\ FrameOK(f) /\ f.below = Top.below BY <1>1 DEF Successor
  <1>4. /\ R \in Seq(Frames) /\ R /= <<>> /\ Len(R) = Len(stack) /\ R[Len(stack)] = f
        /\ Linked(R) /\ Framed(R) /\ Owed(R) = Top.below + Own(f)
    BY <1>1, <1>2, ReplaceLemma
  <1>5. Owed(stack) = Top.below + Own(Top) BY <1>2 DEF IInv, TypeOK, Owed, Top
  <1>6. Top.below \in Nat /\ Own(Top) \in Nat /\ Own(f) \in Nat
    BY <1>2, <1>3, UnderLemma, OwnLemma DEF IInv
  <1> HIDE DEF R
  <1>7. ASSUME NEW s \in Seq(Frames), s /= <<>>, Linked(s), Framed(s), Wrote(s),
               Owed(s) \in Nat, Owed(s) >= Owed(stack) - 1
        PROVE  /\ IInv' /\ Len(out) < Len(out') /\ Len(out') \in Nat
               /\ Owed(stack') \in Nat /\ Owed(stack') >= Owed(stack) - 1 /\ pc' = "busy"
    <2>1. stack' = s /\ pc' = pc /\ Same /\ Grown /\ Len(out) < Len(out')
      BY <1>7 DEF Wrote, Go
    <2>2. Len(out) \in Nat /\ Len(out') \in Nat
      BY <2>1, LenProperties DEF IInv, TypeOK, Same, Grown
    <2>3. TypeOK'
      <3>1. start' \in 0..Len(out') BY <2>1, <2>2 DEF IInv, TypeOK, Same
      <3> QED BY <2>1, <3>1, <1>2, <1>7 DEF IInv, TypeOK, Same, Grown
    <2>4. Linked(stack)' /\ Framed(stack)' BY <2>1, <1>7 DEF Linked, Framed
    <2> QED BY <2>1, <2>2, <2>3, <2>4, <1>2, <1>7 DEF IInv
  <1>8. CASE Wrote(R)
    <2>1. Owed(R) \in Nat /\ Owed(R) >= Owed(stack) - 1 BY <1>1, <1>4, <1>5, <1>6
    <2> QED BY <2>1, <1>2, <1>4, <1>5, <1>6, <1>7, <1>8
  <1>9. ASSUME NEW g, Inner(f, g), Wrote(Append(R, g))
        PROVE /\ IInv' /\ Len(out) < Len(out') /\ Len(out') \in Nat
              /\ Owed(stack') \in Nat /\ Owed(stack') >= Owed(stack) - 1 /\ pc' = "busy"
    <2> DEFINE A == Append(R, g)
    <2>1. f = R[Len(R)] BY <1>4
    <2>2. /\ A \in Seq(Frames) /\ A /= <<>> /\ Linked(A) /\ Framed(A)
          /\ Owed(A) = f.below + Own(f) + Own(g)
      BY <1>4, <1>9, <2>1, PushLemma
    <2>3. Own(g) \in Nat BY <1>9, OwnLemma DEF Inner
    <2> HIDE DEF A
    <2>4. Owed(A) \in Nat /\ Owed(A) >= Owed(stack) - 1
      BY <1>1, <1>3, <1>5, <1>6, <2>2, <2>3
    <2>5. Wrote(A) BY <1>9 DEF A
    <2> QED BY <2>2, <2>4, <2>5, <1>7
  <1>10. Owed(stack) > 0 BY <1>2, <1>5, <1>6
  <1> QED BY <1>1, <1>8, <1>9, <1>10 DEF R

LEMMA QuietLemma ==
  ASSUME IInv, Quiet
  PROVE  IInv' /\ Owed(stack') = Owed(stack) /\ pc' = "busy"
  <1>1. PICK f : Successor(f) /\ Own(f) = Own(Top) /\ Go(Replace(f)) BY DEF Quiet
  <1>2. pc = "busy" /\ out' = out /\ Same BY DEF Quiet
  <1> DEFINE R == Replace(f)
  <1>3. /\ R \in Seq(Frames) /\ R /= <<>> /\ Linked(R) /\ Framed(R)
        /\ Owed(R) = Top.below + Own(f)
    BY <1>1, <1>2, ReplaceLemma
  <1>4. Owed(stack) = Top.below + Own(Top) BY <1>2 DEF IInv, TypeOK, Owed, Top
  <1> HIDE DEF R
  <1>5. stack' = R /\ pc' = pc BY <1>1 DEF Go, R
  <1>6. TypeOK' BY <1>2, <1>3, <1>5 DEF IInv, TypeOK, Same
  <1>7. Linked(stack)' /\ Framed(stack)' BY <1>3, <1>5 DEF Linked, Framed
  <1> QED BY <1>1, <1>2, <1>3, <1>4, <1>5, <1>6, <1>7 DEF IInv

LEMMA PoppedLemma ==
  ASSUME IInv, Popped
  PROVE  IInv' /\ Owed(stack') = Owed(stack) /\ (Under = <<>> => Owed(stack) = 0)
  <1>1. /\ pc = "busy" /\ Own(Top) = 0 /\ out' = out /\ Same
        /\ stack' = Under /\ pc' = IF Under = <<>> THEN "ok" ELSE pc
    BY DEF Popped
  <1>2. /\ Under \in Seq(Frames) /\ Linked(Under) /\ Framed(Under)
        /\ Owed(Under) = Owed(stack)
    BY <1>1, PopLemma
  <1>3. TypeOK' BY <1>1, <1>2 DEF IInv, TypeOK, Same
  <1>4. Linked(stack)' /\ Framed(stack)' BY <1>1, <1>2 DEF Linked, Framed
  <1>5. Under = <<>> => Owed(stack) = 0 BY <1>2 DEF Owed
  <1> QED BY <1>1, <1>2, <1>3, <1>4, <1>5 DEF IInv

LEMMA BrokenLemma ==
  ASSUME IInv, Broken
  PROVE  IInv' /\ Owed(stack') = 0 /\ Len(out') \in Nat /\ Len(out) <= Len(out')
  <1>1. Len(out) \in Nat /\ Len(out') \in Nat
    BY LenProperties DEF IInv, TypeOK, Broken, Grown
  <1>2. start' \in 0..Len(out') BY <1>1 DEF IInv, TypeOK, Same, Broken, Grown
  <1>3. TypeOK' BY <1>2 DEF IInv, TypeOK, Same, Broken, Grown
  <1>4. Linked(stack)' /\ Framed(stack)' BY DEF Broken, Linked, Framed
  <1> QED BY <1>1, <1>3, <1>4 DEF IInv, Broken, Grown, Owed

LEMMA BeginLemma ==
  ASSUME IInv, Begin
  PROVE  IInv' /\ Owed(stack') = 1
  <1> DEFINE f == Frame("one", 1, 0, 0)
  <1>1. f \in Frames /\ FrameOK(f) /\ f.below = 0 BY FrameLemma DEF Kinds
  <1>2. Own(f) = 1 BY DEF Frame, Own, Keyed
  <1>3. stack' = <<f>> BY DEF Begin
  <1> HIDE DEF f
  <1>4. stack' \in Seq(Frames) /\ stack' /= <<>> /\ Len(stack') = 1 /\ stack'[1] = f
    BY <1>1, <1>3
  <1>5. Len(out) \in Nat BY LenProperties DEF IInv, TypeOK
  <1>6. start' \in 0..Len(out') BY <1>5 DEF Begin
  <1>7. TypeOK' BY <1>4, <1>6 DEF IInv, TypeOK, Same, Begin
  <1>8. Linked(stack)' /\ Framed(stack)' BY <1>1, <1>4 DEF Linked, Framed
  <1> QED BY <1>1, <1>2, <1>4, <1>7, <1>8 DEF IInv, Owed

LEMMA InvStep == IInv /\ [Next]_vars => IInv'
  <1> SUFFICES ASSUME IInv, [Next]_vars PROVE IInv' OBVIOUS
  <1>1. CASE UNCHANGED vars BY <1>1 DEF vars, IInv, TypeOK, Linked, Framed
  <1> QED BY <1>1, StepOutcome, BrokenLemma, AdvancedLemma, QuietLemma, PoppedLemma, BeginLemma
      DEF Outcome

-----------------------------------------------------------------------------
(* Theorems *)

\* What nested calls have promised adds up, keys are of a u32 and variants are
\* named first: inductive for every sink, radix and implementation.
THEOREM Inductive == Spec => []IInv
  <1>1. Init => IInv
    <2> SUFFICES ASSUME Init PROVE IInv OBVIOUS
    <2>1. TypeOK BY EmptyBytes, InputAssumption DEF Init, TypeOK
    <2>2. Linked(stack) /\ Framed(stack) BY DEF Init, Linked, Framed
    <2> QED BY <2>1, <2>2 DEF IInv
  <1> QED BY <1>1, InvStep, PTL DEF Spec

\* The serializers' state keeps its types: only bytes reach the sink, never
\* more than it takes, and calls in progress are the frames of the stack.
THEOREM TypeCorrect == Spec => []TypeOK
  <1>1. IInv => TypeOK BY DEF IInv
  <1> QED BY <1>1, Inductive, PTL

\* Whatever fields a struct skips, the next is written where a reader looks for
\* it, as the element at its position or under its position as the key.
THEOREM FieldsWhereExpected == Spec => []FieldsInPlace
  <1>1. IInv => FieldsInPlace BY DEF IInv, Framed, FrameOK, FieldsInPlace
  <1> QED BY <1>1, Inductive, PTL

\* The serializers implement the flat stream: Ok is returned only when every
\* item that any head promised was begun, whatever implementations do.
THEOREM Refinement == Spec => WritesStream
  <1>1. Init => Stream!Init BY DEF Init, Stream!Init, Owed, Status
  <1>2. IInv /\ [Next]_vars => [Stream!Next]_(Stream!svars)
    <2> SUFFICES ASSUME IInv, [Next]_vars PROVE Stream!Next \/ UNCHANGED Stream!svars OBVIOUS
    <2>1. CASE Broken
      <3>1. Owed(stack)' = 0 /\ Len(out)' \in Nat /\ Len(out)' >= Len(out)
        <4>1. Owed(stack') = 0 /\ Len(out') \in Nat /\ Len(out) <= Len(out')
          BY <2>1, BrokenLemma
        <4>2. Len(out) \in Nat BY LenProperties DEF IInv, TypeOK
        <4> QED BY <4>1, <4>2
      <3>2. Status = "busy" /\ Status' = "broken" BY <2>1 DEF Broken, Status
      <3> QED BY <3>1, <3>2 DEF Stream!Next, Stream!Break
    <2>2. CASE Advanced
      <3>1. /\ Owed(stack) > 0 /\ Len(out) < Len(out)' /\ Len(out)' \in Nat
            /\ Owed(stack)' \in Nat /\ Owed(stack)' >= Owed(stack) - 1 /\ pc' = "busy"
        BY <2>2, AdvancedLemma
      <3>2. Len(out)' > Len(out)
        <4>1. Len(out) \in Nat BY LenProperties DEF IInv, TypeOK
        <4> QED BY <4>1, <3>1
      <3>3. Status = "busy" /\ Status' = "busy" BY <2>2, <3>1 DEF Advanced, Status
      <3> QED BY <3>1, <3>2, <3>3 DEF Stream!Next, Stream!Head
    <2>3. CASE Quiet
      <3>1. Owed(stack)' = Owed(stack) /\ Status' = "busy" /\ Status = "busy" /\ out' = out
        BY <2>3, QuietLemma DEF Quiet, Status
      <3> QED BY <3>1 DEF Stream!svars
    <2>4. CASE Popped
      <3>1. Owed(stack)' = Owed(stack) /\ Status = "busy" /\ out' = out
        BY <2>4, PoppedLemma DEF Popped, Status
      <3>2. CASE Under = <<>>
        <4>1. Status' = "complete" /\ Owed(stack) = 0
          BY <2>4, <3>2, PoppedLemma DEF Popped, Status
        <4> QED BY <3>1, <4>1 DEF Stream!Next, Stream!Complete
      <3>3. CASE Under /= <<>>
        <4>1. Status' = "busy" BY <2>4, <3>3 DEF Popped, Status
        <4> QED BY <3>1, <4>1 DEF Stream!svars
      <3> QED BY <3>2, <3>3
    <2>5. CASE Begin
      <3>1. Owed(stack)' = 1 BY <2>5, BeginLemma
      <3>2. Status /= "busy" /\ Status' = "busy" /\ out' = out
        BY <2>5 DEF Begin, Status, IInv, TypeOK
      <3> QED BY <3>1, <3>2 DEF Stream!Next, Stream!Begin
    <2>6. CASE UNCHANGED vars BY <2>6 DEF vars, Stream!svars, Status
    <2> QED BY <2>1, <2>2, <2>3, <2>4, <2>5, <2>6, StepOutcome DEF Outcome
  <1> QED BY <1>1, <1>2, Inductive, PTL DEF Spec, WritesStream, Stream!Spec

-----------------------------------------------------------------------------
(* What is written, as a reader of the format takes it *)

\* The bytes z begin with the code c and the digits d, as far as they go.
Starts(z, c, d) ==
  /\ Len(z) > 0 => z[1] = c
  /\ \A i \in 1..Len(d) : Len(z) > i => z[i + 1] = d[i]

\* Behind anything, a reader takes a head of c and d to be part of `size` bytes
\* and to announce `more` messages.
Promises(c, d, size, more) ==
  \A y, z \in Seq(Byte) :
    Starts(z, c, d) =>
      Lead(Radix, y \o z, Len(y)) =
        IF Len(z) < size THEN NoHead(Truncated)
        ELSE [ok |-> TRUE, next |-> Len(y) + size, more |-> more]

\* What is read behind y when z starts with c.
LEMMA LeadBehind ==
  ASSUME NEW y \in Seq(Byte), NEW z \in Seq(Byte), NEW c, NEW d, Starts(z, c, d)
  PROVE  Lead(Radix, y \o z, Len(y)) =
           IF Len(z) = 0 THEN NoHead(Truncated)
           ELSE IF c = RESERVED THEN NoHead(Reserved)
           ELSE IF c \in FixArray THEN Takes(y \o z, Len(y) + 1, c - 144)
           ELSE IF c \in FixMap THEN Takes(y \o z, Len(y) + 1, 2 * (c - 128))
           ELSE IF c \in Long \cup Many THEN LongHead(Radix, y \o z, Len(y), c)
           ELSE Takes(y \o z, Len(y) + SizeOf(c), 0)
  <1> DEFINE s == y \o z
  <1>1. /\ Len(y) \in Nat /\ Len(z) \in Nat /\ Len(s) = Len(y) + Len(z)
        /\ \A i \in 1..Len(z) : s[Len(y) + i] = z[i]
    BY Behind
  <1>2. Len(z) > 0 => s[Len(y) + 1] = c
    <2> SUFFICES ASSUME Len(z) > 0 PROVE s[Len(y) + 1] = c OBVIOUS
    <2>1. 1 \in 1..Len(z) BY <1>1
    <2> QED BY <2>1, <1>1 DEF Starts
  <1>3. Len(y) >= Len(s) <=> Len(z) = 0 BY <1>1
  <1>4. Len(z) = 0 \/ Len(z) > 0 BY <1>1
  <1> HIDE DEF s
  <1>5. CASE Len(z) = 0 BY <1>3, <1>5 DEF Lead, s
  <1>6. CASE Len(z) > 0 BY <1>1, <1>2, <1>3, <1>6 DEF Lead, s
  <1> QED BY <1>4, <1>5, <1>6

LEMMA TakesBehind ==
  ASSUME NEW y \in Seq(Byte), NEW z \in Seq(Byte), NEW n \in Nat, NEW more
  PROVE  Takes(y \o z, Len(y) + n, more) =
           IF Len(z) < n THEN NoHead(Truncated)
           ELSE [ok |-> TRUE, next |-> Len(y) + n, more |-> more]
  <1>1. Len(y) \in Nat /\ Len(z) \in Nat /\ Len(y \o z) = Len(y) + Len(z) BY Behind
  <1>2. Len(y) + n > Len(y \o z) <=> Len(z) < n BY <1>1
  <1> QED BY <1>2 DEF Takes

\* A code that fixes the size of its message.
LEMMA FixedPromise ==
  ASSUME NEW c \in Byte, c /= RESERVED, c \notin FixArray, c \notin FixMap, c \notin Long \cup Many,
         NEW d
  PROVE  Promises(c, d, SizeOf(c), 0)
  <1> SUFFICES ASSUME NEW y \in Seq(Byte), NEW z \in Seq(Byte), Starts(z, c, d)
               PROVE  Lead(Radix, y \o z, Len(y)) =
                        IF Len(z) < SizeOf(c) THEN NoHead(Truncated)
                        ELSE [ok |-> TRUE, next |-> Len(y) + SizeOf(c), more |-> 0]
    BY DEF Promises
  <1>1. SizeOf(c) \in Nat /\ SizeOf(c) > 0
    <2>1. SizeOf(c) \in 1..32 BY SizeLemma
    <2>2. \A n \in 1..32 : n \in Nat /\ n > 0 OBVIOUS
    <2> QED BY <2>1, <2>2
  <1>2. Len(z) = 0 => Len(z) < SizeOf(c) BY <1>1
  <1>3. Takes(y \o z, Len(y) + SizeOf(c), 0) =
          IF Len(z) < SizeOf(c) THEN NoHead(Truncated)
          ELSE [ok |-> TRUE, next |-> Len(y) + SizeOf(c), more |-> 0]
    BY <1>1, TakesBehind
  <1>4. Len(z) /= 0 => Lead(Radix, y \o z, Len(y)) = Takes(y \o z, Len(y) + SizeOf(c), 0)
    BY LeadBehind
  <1>5. Len(z) = 0 => Lead(Radix, y \o z, Len(y)) = NoHead(Truncated) BY LeadBehind
  <1> QED BY <1>2, <1>3, <1>4, <1>5

\* A code with the number of the elements in it.
LEMMA CompoundPromise ==
  ASSUME NEW c \in FixArray \cup FixMap, NEW d
  PROVE  Promises(c, d, 1, IF c \in FixArray THEN c - 144 ELSE 2 * (c - 128))
  <1> DEFINE more == IF c \in FixArray THEN c - 144 ELSE 2 * (c - 128)
  <1> SUFFICES ASSUME NEW y \in Seq(Byte), NEW z \in Seq(Byte), Starts(z, c, d)
               PROVE  Lead(Radix, y \o z, Len(y)) =
                        IF Len(z) < 1 THEN NoHead(Truncated)
                        ELSE [ok |-> TRUE, next |-> Len(y) + 1, more |-> more]
    BY DEF Promises
  <1>1. c /= RESERVED BY DEF RESERVED, FixArray, FixMap, FIXARRAY, FIXMAP
  <1>2. Len(z) \in Nat BY Behind
  <1>3. Takes(y \o z, Len(y) + 1, more) =
          IF Len(z) < 1 THEN NoHead(Truncated) ELSE [ok |-> TRUE, next |-> Len(y) + 1, more |-> more]
    BY TakesBehind
  <1>4. Len(z) /= 0 => Lead(Radix, y \o z, Len(y)) = Takes(y \o z, Len(y) + 1, more)
    BY <1>1, LeadBehind
  <1> HIDE DEF more
  <1>5. Len(z) = 0 => Lead(Radix, y \o z, Len(y)) = NoHead(Truncated) BY LeadBehind
  <1>6. Len(z) = 0 <=> Len(z) < 1 BY <1>2
  <1> QED BY <1>3, <1>4, <1>5, <1>6

LEMMA FieldBehind ==
  ASSUME NEW y \in Seq(Byte), NEW z \in Seq(Byte), NEW c, NEW d \in Seq(Byte), Starts(z, c, d),
         Len(d) \in {1, 2, 4}, Len(z) > Len(d)
  PROVE  Field(Radix, y \o z, Len(y) + 1, Len(d)) = Field(Radix, d, 0, Len(d))
  <1> DEFINE s == y \o z
             k == Len(d)
             p == Len(y) + 1
  <1>1. /\ Len(y) \in Nat /\ Len(z) \in Nat
        /\ \A i \in 1..Len(z) : s[Len(y) + i] = z[i]
    BY Behind
  <1>2. \A i \in 1..k : Len(z) > i => z[i + 1] = d[i] BY DEF Starts
  <1>3. k \in {1, 2, 4} /\ Len(z) > k OBVIOUS
  <1>4. ASSUME NEW i \in 1..4, i <= k PROVE s[p + i] = d[0 + i]
    <2>1. i \in 1..k /\ Len(z) > i /\ i + 1 \in 1..Len(z) BY <1>1, <1>3, <1>4
    <2>2. p + i = Len(y) + (i + 1) /\ 0 + i = i BY <1>1
    <2>3. s[Len(y) + (i + 1)] = z[i + 1] BY <1>1, <2>1
    <2>4. z[i + 1] = d[i] BY <1>2, <2>1
    <2> HIDE DEF p, k, s
    <2> QED BY <2>2, <2>3, <2>4
  <1> HIDE DEF s, k, p
  <1>5. CASE k = 1
    <2>1. s[p + 1] = d[0 + 1] BY <1>4, <1>5
    <2> QED BY <1>5, <2>1 DEF Field, s, p, k
  <1>6. CASE k = 2
    <2>1. s[p + 1] = d[0 + 1] /\ s[p + 2] = d[0 + 2] BY <1>4, <1>6
    <2> QED BY <1>6, <2>1 DEF Field, s, p, k
  <1>7. CASE k = 4
    <2>1. /\ s[p + 1] = d[0 + 1] /\ s[p + 2] = d[0 + 2]
          /\ s[p + 3] = d[0 + 3] /\ s[p + 4] = d[0 + 4]
      BY <1>4, <1>7
    <2> QED BY <1>7, <2>1 DEF Field, s, p, k
  <1> QED BY <1>3, <1>5, <1>6, <1>7

\* A code with the number of the bytes or of the elements behind it.
LEMMA LengthPromise ==
  ASSUME NEW c \in Long \cup Many, NEW d \in Seq(Byte), Len(d) = HeadOf(c)[2],
         NEW n \in Nat, Field(Radix, d, 0, Len(d)) = n
  PROVE  /\ c \in Long => Promises(c, d, 1 + Len(d) + HeadOf(c)[3] + n, 0)
         /\ c \notin Long => Promises(c, d, 1 + Len(d), IF c \in {MAP_16, MAP_32} THEN 2 * n ELSE n)
  <1> DEFINE h == HeadOf(c)
             k == Len(d)
             more == IF c \in {MAP_16, MAP_32} THEN 2 * n ELSE n
  <1>1. h[2] \in {1, 2, 4} /\ h[3] \in {0, 1} /\ h[1] = h[2] + 1 BY SizeLemma
  <1>2. k \in Nat /\ k \in {1, 2, 4} /\ h[1] = k + 1 BY <1>1
  <1>3. c /= RESERVED /\ c \notin FixArray /\ c \notin FixMap
    BY DEF Long, Many, RESERVED, FixArray, FixMap, FIXARRAY, FIXMAP, BIN_8, STR_8, BIN_16, STR_16,
           BIN_32, STR_32, EXT_8, EXT_16, EXT_32, ARRAY_16, MAP_16, ARRAY_32, MAP_32
  <1>4. ASSUME NEW y \in Seq(Byte), NEW z \in Seq(Byte), Starts(z, c, d)
        PROVE  Lead(Radix, y \o z, Len(y)) =
                 IF Len(z) < 1 + k THEN NoHead(Truncated)
                 ELSE IF c \in Long THEN Takes(y \o z, Len(y) + (1 + k + h[3] + n), 0)
                 ELSE Takes(y \o z, Len(y) + (1 + k), more)
    <2>1. Len(y) \in Nat /\ Len(z) \in Nat /\ Len(y \o z) = Len(y) + Len(z) BY Behind
    <2>2. Len(z) = 0 => Lead(Radix, y \o z, Len(y)) = NoHead(Truncated) BY <1>4, LeadBehind
    <2>3. Len(z) /= 0 => Lead(Radix, y \o z, Len(y)) = LongHead(Radix, y \o z, Len(y), c)
      BY <1>3, <1>4, LeadBehind
    <2>4. Len(y) + h[1] > Len(y \o z) <=> Len(z) < 1 + k BY <1>2, <2>1
    <2>5. CASE Len(z) < 1 + k
      <3>1. LongHead(Radix, y \o z, Len(y), c) = NoHead(Truncated) BY <2>4, <2>5 DEF LongHead
      <3> QED BY <3>1, <2>2, <2>3, <2>5
    <2>6. CASE ~(Len(z) < 1 + k)
      <3>1. Len(z) > k /\ Len(z) /= 0 BY <1>2, <2>1, <2>6
      <3>2. Field(Radix, y \o z, Len(y) + 1, h[2]) = n
        <4>1. Field(Radix, y \o z, Len(y) + 1, k) = Field(Radix, d, 0, k)
          BY <1>2, <1>4, <3>1, FieldBehind
        <4>2. h[2] = k OBVIOUS
        <4> HIDE DEF h
        <4> QED BY <4>1, <4>2
      <3>3. /\ Len(y) + h[1] + h[3] + n = Len(y) + (1 + k + h[3] + n)
            /\ Len(y) + h[1] = Len(y) + (1 + k)
        BY <1>1, <1>2, <2>1
      <3>4. LongHead(Radix, y \o z, Len(y), c) =
              IF c \in Long THEN Takes(y \o z, Len(y) + h[1] + h[3] + n, 0)
              ELSE Takes(y \o z, Len(y) + h[1], more)
        BY <2>4, <2>6, <3>2 DEF LongHead
      <3> HIDE DEF h, k, more
      <3> QED BY <2>3, <2>6, <3>1, <3>3, <3>4
    <2> QED BY <2>5, <2>6
  <1>5. ASSUME c \in Long PROVE Promises(c, d, 1 + k + h[3] + n, 0)
    <2> DEFINE size == 1 + k + h[3] + n
    <2>1. size \in Nat /\ size >= 1 + k BY <1>1, <1>2
    <2> SUFFICES ASSUME NEW y \in Seq(Byte), NEW z \in Seq(Byte), Starts(z, c, d)
                 PROVE  Lead(Radix, y \o z, Len(y)) =
                          IF Len(z) < size THEN NoHead(Truncated)
                          ELSE [ok |-> TRUE, next |-> Len(y) + size, more |-> 0]
      BY DEF Promises
    <2>2. Len(z) \in Nat /\ (Len(z) < 1 + k => Len(z) < size) BY <1>2, <2>1, Behind
    <2>3. Lead(Radix, y \o z, Len(y)) =
            IF Len(z) < 1 + k THEN NoHead(Truncated) ELSE Takes(y \o z, Len(y) + size, 0)
      BY <1>4, <1>5
    <2> HIDE DEF size
    <2> QED BY <2>1, <2>2, <2>3, TakesBehind
  <1>6. ASSUME c \notin Long PROVE Promises(c, d, 1 + k, more)
    <2> SUFFICES ASSUME NEW y \in Seq(Byte), NEW z \in Seq(Byte), Starts(z, c, d)
                 PROVE  Lead(Radix, y \o z, Len(y)) =
                          IF Len(z) < 1 + k THEN NoHead(Truncated)
                          ELSE [ok |-> TRUE, next |-> Len(y) + (1 + k), more |-> more]
      BY DEF Promises
    <2>1. 1 + k \in Nat BY <1>2
    <2>2. Lead(Radix, y \o z, Len(y)) =
            IF Len(z) < 1 + k THEN NoHead(Truncated) ELSE Takes(y \o z, Len(y) + (1 + k), more)
      BY <1>4, <1>6
    <2> HIDE DEF more
    <2> QED BY <2>1, <2>2, TakesBehind
  <1> QED BY <1>5, <1>6

LEMMA Digits2Lemma ==
  ASSUME NEW v \in Int
  PROVE  /\ Digits2(v)[1] = (v \div Radix) % Radix /\ Digits2(v)[2] = v % Radix
         /\ Radix * Digits2(v)[1] + Digits2(v)[2] = v % Radix2
         /\ Digits2(v)[1] \in 0..(Radix - 1) /\ Digits2(v)[2] \in 0..(Radix - 1)
  <1>1. Radix \in Nat \ {0} BY PowerLemma
  <1>2. v \div Radix \in Int BY <1>1, DivMod
  <1> DEFINE a == Digits1(v \div Radix)
             b == Digits1(v)
             d == Digits2(v)
  <1>3. d[1] = a[1] /\ d[2] = b[1]
    <2>1. a \in Seq(Byte) /\ Len(a) = 1 /\ b \in Seq(Byte) /\ Len(b) = 1 BY <1>2, BigEndianLemma
    <2>2. d = a \o b BY PowerLemma DEF Digits2
    <2> HIDE DEF a, b, d
    <2>3. \A j \in 1..(1 + 1) : d[j] = IF j <= 1 THEN a[j] ELSE b[j - 1]
      BY <2>1, <2>2, Splice
    <2> QED BY <2>3
  <1>4. v % Radix2 = Radix * ((v \div Radix) % Radix) + (v % Radix) BY <1>1, TwoDigits DEF Radix2
  <1>5. \A x \in Int : x % Radix \in 0..(Radix - 1)
    <2> TAKE x \in Int
    <2>1. x % Radix \in Nat /\ x % Radix < Radix BY <1>1, DivMod
    <2> QED BY <1>1, <2>1
  <1>6. /\ Digits2(v)[1] = (v \div Radix) % Radix /\ Digits2(v)[2] = v % Radix
    BY <1>3 DEF Digits1
  <1>7. Radix * Digits2(v)[1] + Digits2(v)[2] = v % Radix2 BY <1>4, <1>6
  <1>8. Digits2(v)[1] \in 0..(Radix - 1) /\ Digits2(v)[2] \in 0..(Radix - 1)
    BY <1>2, <1>5, <1>6, Zenon
  <1> QED BY <1>6, <1>7, <1>8

LEMMA Digits4Lemma ==
  ASSUME NEW v \in Int
  PROVE  /\ Radix2 * (Radix * Digits4(v)[1] + Digits4(v)[2])
             + (Radix * Digits4(v)[3] + Digits4(v)[4]) = v % Radix4
         /\ \A i \in 1..4 : Digits4(v)[i] \in 0..(Radix - 1)
  <1> DEFINE a == Digits2(v \div Radix2)
             b == Digits2(v)
             d == Digits4(v)
  <1>1. Radix2 \in Nat \ {0} BY PowerLemma
  <1>2. v \div Radix2 \in Int /\ v % Radix4 = Radix2 * ((v \div Radix2) % Radix2) + (v % Radix2)
    BY <1>1, TwoDigits DEF Radix4
  <1>3. d = a \o b BY PowerLemma DEF Digits4
  <1>4. a \in Seq(Byte) /\ Len(a) = 2 /\ b \in Seq(Byte) /\ Len(b) = 2 BY <1>2, BigEndianLemma
  <1>5. /\ Radix * a[1] + a[2] = (v \div Radix2) % Radix2
        /\ a[1] \in 0..(Radix - 1) /\ a[2] \in 0..(Radix - 1)
        /\ Radix * b[1] + b[2] = v % Radix2
        /\ b[1] \in 0..(Radix - 1) /\ b[2] \in 0..(Radix - 1)
    BY <1>2, Digits2Lemma
  <1> HIDE DEF a, b, d
  <1>6. \A j \in 1..(2 + 2) : d[j] = IF j <= 2 THEN a[j] ELSE b[j - 2]
    BY <1>3, <1>4, Splice
  <1>7. d[1] = a[1] /\ d[2] = a[2] /\ d[3] = b[1] /\ d[4] = b[2] BY <1>6
  <1>8. Radix2 * (Radix * d[1] + d[2]) + (Radix * d[3] + d[4]) = v % Radix4
    BY <1>2, <1>5, <1>7, Zenon
  <1>9. \A i \in 1..4 : i = 1 \/ i = 2 \/ i = 3 \/ i = 4 OBVIOUS
  <1>10. \A i \in 1..4 : d[i] \in 0..(Radix - 1) BY <1>5, <1>7, <1>9, Zenon
  <1> QED BY <1>8, <1>10 DEF d

\* Powers of the radix, or pairs of digits.
LEMMA Pairs ==
  \A r, a, b, c, d \in Nat :
    r * r * r * a + r * r * b + r * c + d = (r * r) * (r * a + b) + (r * c + d)
  OBVIOUS

\* A length is read back from its digits.
LEMMA FieldRead ==
  ASSUME NEW v \in Int, NEW k \in {1, 2, 4}
  PROVE  Field(Radix, BigEndian(v, k), 0, k) = v % Power[k]
  <1>1. Radix \in Nat /\ Radix \in Nat \ {0} BY PowerLemma
  <1>2. \A x \in 0..(Radix - 1) : x \in Nat /\ x % Radix = x
    <2> TAKE x \in 0..(Radix - 1)
    <2>1. x \in Int /\ x \in Nat /\ 0 <= x /\ x < Radix BY <1>1
    <2> QED BY <1>1, <2>1, DivMod
  <1>3. CASE k = 1
    <2> DEFINE x == v % Radix
    <2>1. x \in Nat /\ x < Radix BY <1>1, DivMod
    <2>2. x \in 0..(Radix - 1) BY <1>1, <2>1
    <2>3. BigEndian(v, 1) = <<x>> BY DEF BigEndian, Digits1
    <2> HIDE DEF x
    <2>4. Field(Radix, BigEndian(v, 1), 0, 1) = x % Radix BY <2>3 DEF Field
    <2>5. x % Radix = x BY <1>2, <2>2
    <2> QED BY <1>3, <2>4, <2>5, PowerLemma DEF x
  <1>4. CASE k = 2
    <2> DEFINE d == Digits2(v)
    <2>1. BigEndian(v, 2) = d BY DEF BigEndian
    <2>2. Radix * d[1] + d[2] = v % Radix2 /\ d[1] \in 0..(Radix - 1) /\ d[2] \in 0..(Radix - 1)
      BY Digits2Lemma
    <2> HIDE DEF d
    <2>3. Field(Radix, d, 0, 2) = Radix * (d[1] % Radix) + (d[2] % Radix) BY DEF Field
    <2>4. d[1] % Radix = d[1] /\ d[2] % Radix = d[2] BY <1>2, <2>2
    <2>5. Field(Radix, d, 0, 2) = v % Radix2 BY <2>2, <2>3, <2>4
    <2> QED BY <1>4, <2>1, <2>5, PowerLemma
  <1>5. CASE k = 4
    <2> DEFINE d == Digits4(v)
    <2>1. BigEndian(v, 4) = d BY DEF BigEndian
    <2>2. /\ Radix2 * (Radix * d[1] + d[2]) + (Radix * d[3] + d[4]) = v % Radix4
          /\ \A i \in 1..4 : d[i] \in 0..(Radix - 1)
      BY Digits4Lemma
    <2> HIDE DEF d
    <2>3. Field(Radix, d, 0, 4) =
            Radix * Radix * Radix * (d[1] % Radix) + Radix * Radix * (d[2] % Radix)
              + Radix * (d[3] % Radix) + (d[4] % Radix)
      BY DEF Field
    <2>4. /\ d[1] % Radix = d[1] /\ d[2] % Radix = d[2] /\ d[3] % Radix = d[3] /\ d[4] % Radix = d[4]
          /\ d[1] \in Nat /\ d[2] \in Nat /\ d[3] \in Nat /\ d[4] \in Nat
      <3>1. 1 \in 1..4 /\ 2 \in 1..4 /\ 3 \in 1..4 /\ 4 \in 1..4 OBVIOUS
      <3> QED BY <1>2, <2>2, <3>1, Zenon
    <2>5. Field(Radix, d, 0, 4) = Radix * Radix * Radix * d[1] + Radix * Radix * d[2] + Radix * d[3] + d[4]
      BY <2>3, <2>4, Zenon
    <2>6. Field(Radix, d, 0, 4) = (Radix * Radix) * (Radix * d[1] + d[2]) + (Radix * d[3] + d[4])
      <3> DEFINE w == d[1]
                 x == d[2]
                 y == d[3]
                 z == d[4]
      <3>1. w \in Nat /\ x \in Nat /\ y \in Nat /\ z \in Nat BY <2>4
      <3> HIDE DEF w, x, y, z
      <3>2. Radix * Radix * Radix * w + Radix * Radix * x + Radix * y + z
              = (Radix * Radix) * (Radix * w + x) + (Radix * y + z)
        BY <1>1, <3>1, Pairs
      <3> QED BY <2>5, <3>2, Zenon DEF w, x, y, z
    <2>7. Field(Radix, d, 0, 4) = v % Radix4 BY <2>2, <2>6, Zenon DEF Radix2
    <2> QED BY <1>5, <2>1, <2>7, PowerLemma
  <1> QED BY <1>3, <1>4, <1>5

\* A length its class holds is what is read of its digits.
LEMMA LengthRead ==
  ASSUME NEW n \in Nat, NEW w \in {1, 2, 4}, Holds(n, w)
  PROVE  /\ BigEndian(n, w) \in Seq(Byte) /\ Len(BigEndian(n, w)) = w
         /\ Field(Radix, BigEndian(n, w), 0, w) = n
  <1>1. n \in Int /\ w \in {1, 2, 4, 8} OBVIOUS
  <1>2. Power[w] \in Nat \ {0} BY PowerLemma
  <1> DEFINE P == Power[w]
  <1>3. n < P BY DEF Holds
  <1>4. Field(Radix, BigEndian(n, w), 0, w) = n % P BY <1>1, FieldRead
  <1> HIDE DEF P
  <1>5. n % P = n BY <1>2, <1>3, DivMod DEF P
  <1> QED BY <1>1, <1>4, <1>5, BigEndianLemma

LEMMA ClassCases ==
  ASSUME NEW n \in Nat, NEW short, NEW max \in Int, NEW codes,
         DOMAIN codes \in SUBSET {1, 2, 4}, 4 \in DOMAIN codes, Holds(n, 4)
  PROVE  LET h == Class(n, short, max, codes) IN
         \/ n <= max /\ h = [code |-> short + n, digits |-> <<>>]
         \/ \E w \in DOMAIN codes : /\ Holds(n, w)
                                    /\ h = [code |-> codes[w], digits |-> BigEndian(n, w)]
  <1> DEFINE P(w) == Holds(n, w) /\ \A v \in DOMAIN codes : v < w => ~Holds(n, v)
             T == {w \in DOMAIN codes : Holds(n, w)}
             c == CHOOSE w \in DOMAIN codes : P(w)
  <1>1. CASE n <= max
    <2>1. Class(n, short, max, codes) = [code |-> short + n, digits |-> <<>>] BY <1>1 DEF Class
    <2> QED BY <2>1, <1>1
  <1>2. CASE ~(n <= max)
    <2>1. T \in SUBSET Nat /\ 4 \in T OBVIOUS
    <2>2. PICK m \in T : \A k \in T : m <= k BY <2>1, LeastNat
    <2>3. m \in DOMAIN codes /\ P(m) BY <2>1, <2>2
    <2>4. Class(n, short, max, codes) = [code |-> codes[c], digits |-> BigEndian(n, c)]
      BY <1>2 DEF Class
    <2> HIDE DEF P
    <2>5. c \in DOMAIN codes /\ P(c) BY <2>3
    <2> HIDE DEF c
    <2>6. Holds(n, c) BY <2>5 DEF P
    <2> QED BY <2>4, <2>5, <2>6
  <1> QED BY <1>1, <1>2

\* The size of a head and what it announces.
Whole(h, size, more) == Promises(h.code, h.digits, 1 + Len(h.digits) + size, more)

LEMMA ArrayPromise ==
  ASSUME NEW n \in Nat, Holds(n, 4)
  PROVE  Whole(ArrayHead(n), 0, n)
  <1>1. \/ n <= MaxFix /\ ArrayHead(n) = [code |-> FIXARRAY + n, digits |-> <<>>]
        \/ \E w \in DOMAIN ArrayCodes :
             Holds(n, w) /\ ArrayHead(n) = [code |-> ArrayCodes[w], digits |-> BigEndian(n, w)]
    <2>1. DOMAIN ArrayCodes = {2, 4} /\ MaxFix \in Int BY FixAssumption DEF ArrayCodes
    <2> QED BY <2>1, ClassCases DEF ArrayHead
  <1>2. CASE n <= MaxFix /\ ArrayHead(n) = [code |-> FIXARRAY + n, digits |-> <<>>]
    <2> DEFINE c == FIXARRAY + n
    <2>1. c \in FixArray /\ c - 144 = n BY <1>2, FixAssumption DEF FixArray, FIXARRAY
    <2> HIDE DEF c
    <2>2. Promises(c, <<>>, 1, c - 144) BY <2>1, CompoundPromise
    <2>3. 1 + Len(<<>>) + 0 = 1 OBVIOUS
    <2> QED BY <1>2, <2>1, <2>2, <2>3 DEF Whole, c
  <1>3. ASSUME NEW w \in DOMAIN ArrayCodes, Holds(n, w),
               ArrayHead(n) = [code |-> ArrayCodes[w], digits |-> BigEndian(n, w)]
        PROVE  Whole(ArrayHead(n), 0, n)
    <2> DEFINE c == ArrayCodes[w]
               d == BigEndian(n, w)
    <2>1. w \in {2, 4} /\ w \in {1, 2, 4} BY DEF ArrayCodes
    <2>2. /\ c \in Many /\ c \notin Long /\ c \notin {MAP_16, MAP_32} /\ HeadOf(c)[2] = w
      BY <2>1 DEF ArrayCodes, Many, Long, HeadOf, BIN_8, STR_8, BIN_16, STR_16, BIN_32, STR_32,
                  EXT_8, EXT_16, EXT_32, ARRAY_16, MAP_16, ARRAY_32, MAP_32
    <2>3. d \in Seq(Byte) /\ Len(d) = w /\ Field(Radix, d, 0, w) = n BY <2>1, <1>3, LengthRead
    <2> HIDE DEF c, d
    <2>4. Promises(c, d, 1 + Len(d), n) BY <2>2, <2>3, LengthPromise
    <2>5. 1 + Len(d) + 0 = 1 + Len(d) BY <2>1, <2>3
    <2> QED BY <1>3, <2>4, <2>5 DEF Whole, c, d
  <1> QED BY <1>1, <1>2, <1>3

LEMMA MapPromise ==
  ASSUME NEW n \in Nat, Holds(n, 4)
  PROVE  Whole(MapHead(n), 0, 2 * n)
  <1>1. \/ n <= MaxFix /\ MapHead(n) = [code |-> FIXMAP + n, digits |-> <<>>]
        \/ \E w \in DOMAIN MapCodes :
             Holds(n, w) /\ MapHead(n) = [code |-> MapCodes[w], digits |-> BigEndian(n, w)]
    <2>1. DOMAIN MapCodes = {2, 4} /\ MaxFix \in Int BY FixAssumption DEF MapCodes
    <2> QED BY <2>1, ClassCases DEF MapHead
  <1>2. CASE n <= MaxFix /\ MapHead(n) = [code |-> FIXMAP + n, digits |-> <<>>]
    <2> DEFINE c == FIXMAP + n
    <2>1. c \in FixMap /\ c \notin FixArray /\ 2 * (c - 128) = 2 * n
      BY <1>2, FixAssumption DEF FixMap, FIXMAP, FixArray, FIXARRAY
    <2> HIDE DEF c
    <2>2. Promises(c, <<>>, 1, 2 * (c - 128)) BY <2>1, CompoundPromise
    <2>3. 1 + Len(<<>>) + 0 = 1 OBVIOUS
    <2> QED BY <1>2, <2>1, <2>2, <2>3 DEF Whole, c
  <1>3. ASSUME NEW w \in DOMAIN MapCodes, Holds(n, w),
               MapHead(n) = [code |-> MapCodes[w], digits |-> BigEndian(n, w)]
        PROVE  Whole(MapHead(n), 0, 2 * n)
    <2> DEFINE c == MapCodes[w]
               d == BigEndian(n, w)
    <2>1. w \in {2, 4} /\ w \in {1, 2, 4} BY DEF MapCodes
    <2>2. /\ c \in Many /\ c \notin Long /\ c \in {MAP_16, MAP_32} /\ HeadOf(c)[2] = w
      BY <2>1 DEF MapCodes, Many, Long, HeadOf, BIN_8, STR_8, BIN_16, STR_16, BIN_32, STR_32,
                  EXT_8, EXT_16, EXT_32, ARRAY_16, MAP_16, ARRAY_32, MAP_32
    <2>3. d \in Seq(Byte) /\ Len(d) = w /\ Field(Radix, d, 0, w) = n BY <2>1, <1>3, LengthRead
    <2> HIDE DEF c, d
    <2>4. Promises(c, d, 1 + Len(d), 2 * n) BY <2>2, <2>3, LengthPromise
    <2>5. 1 + Len(d) + 0 = 1 + Len(d) BY <2>1, <2>3
    <2> QED BY <1>3, <2>4, <2>5 DEF Whole, c, d
  <1> QED BY <1>1, <1>2, <1>3

\* A code with a length, of the bytes behind the digits.
LEMMA BytesPromise ==
  ASSUME NEW n \in Nat, NEW w \in {1, 2, 4}, NEW c \in Long, HeadOf(c)[2] = w, HeadOf(c)[3] = 0,
         Holds(n, w)
  PROVE  Promises(c, BigEndian(n, w), 1 + Len(BigEndian(n, w)) + n, 0)
  <1> DEFINE d == BigEndian(n, w)
  <1>1. d \in Seq(Byte) /\ Len(d) = w /\ Field(Radix, d, 0, w) = n BY LengthRead
  <1> HIDE DEF d
  <1>2. Promises(c, d, 1 + Len(d) + 0 + n, 0) BY <1>1, LengthPromise
  <1>3. 1 + Len(d) + 0 + n = 1 + Len(d) + n BY <1>1
  <1>4. Promises(c, d, 1 + Len(d) + n, 0) BY <1>2, <1>3
  <1> QED BY <1>4 DEF d

LEMMA BinPromise ==
  ASSUME NEW n \in Nat, Holds(n, 4)
  PROVE  Whole(BinHead(n), n, 0)
  <1>1. \/ n <= -1
        \/ \E w \in DOMAIN BinCodes :
             Holds(n, w) /\ BinHead(n) = [code |-> BinCodes[w], digits |-> BigEndian(n, w)]
    <2>1. DOMAIN BinCodes = {1, 2, 4} /\ -1 \in Int BY DEF BinCodes
    <2> QED BY <2>1, ClassCases DEF BinHead
  <1>2. PICK w \in DOMAIN BinCodes :
             Holds(n, w) /\ BinHead(n) = [code |-> BinCodes[w], digits |-> BigEndian(n, w)]
    BY <1>1
  <1>3. w \in {1, 2, 4} BY DEF BinCodes
  <1>4. BinCodes[w] \in Long /\ HeadOf(BinCodes[w])[2] = w /\ HeadOf(BinCodes[w])[3] = 0
    BY <1>3 DEF BinCodes, Long, HeadOf, BIN_8, STR_8, BIN_16, STR_16, BIN_32, STR_32,
                EXT_8, EXT_16, EXT_32, ARRAY_16, MAP_16, ARRAY_32, MAP_32
  <1> QED BY <1>2, <1>3, <1>4, BytesPromise DEF Whole

LEMMA StrPromise ==
  ASSUME NEW n \in Nat, Holds(n, 4)
  PROVE  Whole(StrHead(n), n, 0)
  <1>1. \/ n <= MaxFixStr /\ StrHead(n) = [code |-> FIXSTR + n, digits |-> <<>>]
        \/ \E w \in DOMAIN StrCodes :
             Holds(n, w) /\ StrHead(n) = [code |-> StrCodes[w], digits |-> BigEndian(n, w)]
    <2>1. DOMAIN StrCodes = {1, 2, 4} /\ MaxFixStr \in Int BY FixAssumption DEF StrCodes
    <2> QED BY <2>1, ClassCases DEF StrHead
  <1>2. CASE n <= MaxFixStr /\ StrHead(n) = [code |-> FIXSTR + n, digits |-> <<>>]
    <2> DEFINE c == FIXSTR + n
    <2>1. c \in Byte /\ c \in FixStr /\ c - 160 = n /\ c \notin FixArray /\ c \notin FixMap
          /\ c \notin Long \cup Many /\ c /= RESERVED
      BY <1>2, FixAssumption
      DEF Byte, FixStr, FIXSTR, FixArray, FIXARRAY, FixMap, FIXMAP, RESERVED, Many, Long,
          BIN_8, STR_8, BIN_16, STR_16, BIN_32, STR_32,
          EXT_8, EXT_16, EXT_32, ARRAY_16, MAP_16, ARRAY_32, MAP_32
    <2> HIDE DEF c
    <2>2. SizeOf(c) = 1 + n
      <3>1. SizeOf(c) = 1 + (c - 160)
        BY <2>1 DEF SizeOf, FixStr, FIXSTR, UINT_8, UINT_16, UINT_32, UINT_64, INT_8, INT_16, INT_32,
                    INT_64, FLOAT_32, FLOAT_64, FIXEXT_1, FIXEXT_2, FIXEXT_4, FIXEXT_8, FIXEXT_16
      <3> QED BY <2>1, <3>1
    <2>3. Promises(c, <<>>, 1 + n, 0) BY <2>1, <2>2, FixedPromise
    <2>4. 1 + Len(<<>>) + n = 1 + n OBVIOUS
    <2> QED BY <1>2, <2>3, <2>4 DEF Whole, c
  <1>3. ASSUME NEW w \in DOMAIN StrCodes, Holds(n, w),
               StrHead(n) = [code |-> StrCodes[w], digits |-> BigEndian(n, w)]
        PROVE  Whole(StrHead(n), n, 0)
    <2>1. w \in {1, 2, 4} BY DEF StrCodes
    <2>2. StrCodes[w] \in Long /\ HeadOf(StrCodes[w])[2] = w /\ HeadOf(StrCodes[w])[3] = 0
      BY <2>1 DEF StrCodes, Long, HeadOf, BIN_8, STR_8, BIN_16, STR_16, BIN_32, STR_32,
                  EXT_8, EXT_16, EXT_32, ARRAY_16, MAP_16, ARRAY_32, MAP_32
    <2> QED BY <1>3, <2>1, <2>2, BytesPromise DEF Whole
  <1> QED BY <1>1, <1>2, <1>3

LEMMA NumberPromise ==
  ASSUME NEW t \in Types, NEW v \in Int, Fits(t, v)
  PROVE  Promises(IntCode(t, v), IntDigits(t, v), 1 + Len(IntDigits(t, v)) + 0, 0)
  <1>1. CASE FixIntFits(v)
    <2> DEFINE c == v % 256
    <2>1. -32 <= v /\ v <= 127
      <3> DEFINE h == Radix \div 2
      <3>1. h <= 128
        <4>1. Radix \in Int /\ Radix <= 256 BY RadixAssumption
        <4> QED BY <4>1
      <3>2. h \in Int BY RadixAssumption
      <3>3. MinNegFixInt \in Int /\ MinNegFixInt >= -32 BY FixIntAssumption
      <3>4. MinNegFixInt <= v /\ v <= h - 1 BY <1>1 DEF FixIntFits, MaxPosFixInt
      <3> HIDE DEF h
      <3> QED BY <3>1, <3>2, <3>3, <3>4
    <2>2. c \in 0..127 \cup 224..255
      <3>1. c = IF v < 0 THEN v + 256 ELSE v BY <2>1
      <3> HIDE DEF c
      <3> QED BY <2>1, <3>1
    <2>3. IntCode(t, v) = c /\ IntDigits(t, v) = <<>> BY <1>1 DEF IntCode, IntDigits
    <2> HIDE DEF c
    <2>4. c \in Byte /\ c \notin FixArray /\ c \notin FixMap /\ c \notin Long \cup Many
          /\ c /= RESERVED /\ SizeOf(c) = 1
      BY <2>2
      DEF Byte, FixStr, FIXSTR, FixArray, FIXARRAY, FixMap, FIXMAP, RESERVED, Many, Long,
          BIN_8, STR_8, BIN_16, STR_16, BIN_32, STR_32,
          EXT_8, EXT_16, EXT_32, ARRAY_16, MAP_16, ARRAY_32, MAP_32,
          SizeOf, UINT_8, UINT_16, UINT_32, UINT_64, INT_8, INT_16, INT_32, INT_64,
          FLOAT_32, FLOAT_64, FIXEXT_1, FIXEXT_2, FIXEXT_4, FIXEXT_8, FIXEXT_16
    <2>5. Promises(c, <<>>, 1, 0) BY <2>4, FixedPromise
    <2>6. 1 + Len(<<>>) + 0 = 1 OBVIOUS
    <2> QED BY <2>3, <2>5, <2>6
  <1>2. CASE ~FixIntFits(v)
    <2> DEFINE w == Chosen(t, v)
               c == Code[w]
               k == Width[w]
               d == BigEndian(v, k)
    <2>1. IntCode(t, v) = c /\ IntDigits(t, v) = d BY <1>2 DEF IntCode, IntDigits
    <2>2. w \in Types /\ k \in {1, 2, 4, 8} BY ChosenLemma
    <2>3. Len(d) = k BY <2>2, BigEndianLemma
    <2> HIDE DEF w
    <2>4. c \in Byte /\ c \notin FixArray /\ c \notin FixMap /\ c \notin Long \cup Many
          /\ c /= RESERVED /\ SizeOf(c) = 1 + k
      BY <2>2
      DEF Types, Code, Width, Byte, FixStr, FIXSTR, FixArray, FIXARRAY, FixMap, FIXMAP, RESERVED,
          Many, Long, BIN_8, STR_8, BIN_16, STR_16, BIN_32, STR_32,
          EXT_8, EXT_16, EXT_32, ARRAY_16, MAP_16, ARRAY_32, MAP_32,
          SizeOf, UINT_8, UINT_16, UINT_32, UINT_64, INT_8, INT_16, INT_32, INT_64,
          FLOAT_32, FLOAT_64, FIXEXT_1, FIXEXT_2, FIXEXT_4, FIXEXT_8, FIXEXT_16
    <2> HIDE DEF c, k, d
    <2>5. Promises(c, d, 1 + k, 0) BY <2>4, FixedPromise
    <2>6. 1 + Len(d) + 0 = 1 + k BY <2>2, <2>3
    <2>7. Promises(c, d, 1 + Len(d) + 0, 0) BY <2>5, <2>6
    <2> QED BY <2>1, <2>7 DEF c, d
  <1> QED BY <1>1, <1>2

LEMMA ScalarPromise ==
  ASSUME NEW s \in Scalars, NEW d
  PROVE  Promises(s[1], d, 1 + s[2], 0)
  <1>1. s[1] \in Byte /\ s[1] \notin FixArray /\ s[1] \notin FixMap /\ s[1] \notin Long \cup Many
        /\ s[1] /= RESERVED /\ SizeOf(s[1]) = 1 + s[2]
    BY DEF Scalars, NIL, TRUE_, Byte, FixStr, FIXSTR, FixArray, FIXARRAY, FixMap, FIXMAP, RESERVED,
          Many, Long, BIN_8, STR_8, BIN_16, STR_16, BIN_32, STR_32,
          EXT_8, EXT_16, EXT_32, ARRAY_16, MAP_16, ARRAY_32, MAP_32,
          SizeOf, UINT_8, UINT_16, UINT_32, UINT_64, INT_8, INT_16, INT_32, INT_64,
          FLOAT_32, FLOAT_64, FIXEXT_1, FIXEXT_2, FIXEXT_4, FIXEXT_8, FIXEXT_16
  <1> QED BY <1>1, FixedPromise

LEMMA VariantPromise == \A d : Promises(FIXMAP + 1, d, 1, 2)
  <1> TAKE d
  <1> DEFINE c == FIXMAP + 1
  <1>1. c \in FixMap /\ c \notin FixArray /\ 2 * (c - 128) = 2
    BY DEF FixMap, FIXMAP, FixArray, FIXARRAY
  <1> HIDE DEF c
  <1>2. Promises(c, d, 1, 2 * (c - 128)) BY <1>1, CompoundPromise
  <1> QED BY <1>1, <1>2 DEF c

\* A code and digits with bytes behind them.
LEMMA BeginsStarts ==
  ASSUME NEW c \in Byte, NEW d \in Seq(Byte), NEW b \in Seq(Byte), NEW z \in Seq(Byte),
         Begins(z, <<c>> \o d \o b)
  PROVE  Starts(z, c, d)
  <1> DEFINE a == <<c>>
             v == a \o d
             w == v \o b
  <1>1. a \in Seq(Byte) /\ Len(a) = 1 /\ a[1] = c OBVIOUS
  <1> HIDE DEF a
  <1>2. /\ v \in Seq(Byte) /\ Len(v) = 1 + Len(d) /\ Len(d) \in Nat
        /\ \A i \in 1..Len(v) : v[i] = IF i <= Len(a) THEN a[i] ELSE d[i - Len(a)]
    BY <1>1, Joined
  <1> HIDE DEF v
  <1>3. /\ w \in Seq(Byte) /\ Len(w) = Len(v) + Len(b) /\ Len(b) \in Nat
        /\ \A i \in 1..Len(w) : w[i] = IF i <= Len(v) THEN v[i] ELSE b[i - Len(v)]
    BY <1>2, Joined
  <1>4. Begins(z, w) BY DEF v, a
  <1> HIDE DEF w
  <1>5. Len(z) \in Nat BY LenProperties
  <1>6. \A i \in 1..(1 + Len(d)) : w[i] = IF i = 1 THEN c ELSE d[i - 1]
    <2> TAKE i \in 1..(1 + Len(d))
    <2>1. i \in 1..Len(w) /\ i \in 1..Len(v) /\ i <= Len(v) BY <1>2, <1>3
    <2>2. w[i] = v[i] BY <2>1, <1>3
    <2>3. v[i] = IF i <= 1 THEN a[i] ELSE d[i - 1] BY <2>1, <1>1, <1>2
    <2>4. i <= 1 <=> i = 1 OBVIOUS
    <2> QED BY <2>2, <2>3, <2>4, <1>1
  <1>7. Len(z) > 0 => z[1] = c
    <2>1. 1 \in 1..(1 + Len(d)) /\ 1 \in Nat \ {0} /\ 1 <= Len(w) BY <1>2, <1>3
    <2>2. w[1] = c BY <2>1, <1>6
    <2>3. Len(z) > 0 => z[1] = w[1] BY <2>1, <1>4, <1>5 DEF Begins
    <2> QED BY <2>2, <2>3
  <1>8. ASSUME NEW i \in 1..Len(d), Len(z) > i PROVE z[i + 1] = d[i]
    <2>1. i + 1 \in 1..(1 + Len(d)) /\ i + 1 \in Nat \ {0} /\ i + 1 <= Len(w) /\ i + 1 <= Len(z)
          /\ i + 1 /= 1 /\ i + 1 - 1 = i
      BY <1>2, <1>3, <1>5, <1>8
    <2>2. w[i + 1] = d[i] BY <2>1, <1>6
    <2>3. z[i + 1] = w[i + 1] BY <2>1, <1>4 DEF Begins
    <2> QED BY <2>2, <2>3
  <1> QED BY <1>7, <1>8 DEF Starts

-----------------------------------------------------------------------------
(* What a call leaves in the sink: all it writes, or less. *)

LEMMA RefuseCases ==
  ASSUME TypeOK, NEW t \in Seq(Byte), NEW b \in Seq(Byte), NEW e,
         Len(out) + Len(t) <= cap, cap < Len(out) + Len(t) + Len(b), Refuse(out \o t, b, e)
  PROVE  Fail(e) /\ \E z \in Seq(Byte) : /\ out' = out \o z
                                         /\ Len(z) < Len(t) + Len(b) /\ Begins(z, t \o b)
  <1> DEFINE m == cap - Len(out \o t)
  <1>1. /\ out \in Seq(Byte) /\ Len(out) \in Nat /\ Len(t) \in Nat /\ Len(b) \in Nat /\ cap \in Nat
        /\ Len(out \o t) = Len(out) + Len(t)
    BY InputAssumption, LenProperties, TwoParts DEF TypeOK
  <1>2. m \in 0..Len(b) /\ m < Len(b) BY <1>1
  <1>3. Fail(e) /\ (out' = out \o t \/ out' = (out \o t) \o SubSeq(b, 1, m)) BY DEF Refuse
  <1> HIDE DEF m
  <1>4. ASSUME NEW k \in 0..Len(b), k < Len(b), out' = (out \o t) \o SubSeq(b, 1, k)
        PROVE  \E z \in Seq(Byte) : /\ out' = out \o z
                                    /\ Len(z) < Len(t) + Len(b) /\ Begins(z, t \o b)
    <2> DEFINE p == SubSeq(b, 1, k)
               z == t \o p
    <2>1. \A i \in 1..k : b[i] \in Byte BY <1>1, ElementOfSeq
    <2>2. p \in Seq(Byte) BY <1>1, <2>1, SubSeqProperties
    <2>3. z \in Seq(Byte) /\ Len(z) = Len(t) + k /\ Begins(z, t \o b) BY BeginsPart
    <2> HIDE DEF p
    <2>4. (out \o t) \o p = out \o z BY <1>1, <2>2, Regroup
    <2>5. out' = out \o z BY <1>4, <2>4 DEF p
    <2>6. Len(z) < Len(t) + Len(b) BY <1>1, <1>4, <2>3 DEF p
    <2> QED BY <2>3, <2>5, <2>6 DEF p
  <1>5. CASE out' = out \o t
    <2>1. t \in Seq(Byte) /\ Len(t) < Len(t) + Len(b) BY <1>1, <1>2
    <2>2. Begins(t, t) BY DEF Begins
    <2>3. Begins(t, t \o b) BY <1>1, <2>2, BeginsPrefix
    <2> QED BY <1>3, <1>5, <2>1, <2>3
  <1> QED BY <1>2, <1>3, <1>4, <1>5

LEMMA PutCases ==
  ASSUME TypeOK, NEW a \in Seq(Byte), NEW b \in Seq(Byte), NEW c \in Seq(Byte), NEW e, NEW s,
         Put(a, b, c, e, Go(s))
  PROVE  \/ out' = out \o (a \o b \o c) /\ Go(s)
         \/ Fail(e) /\ \E z \in Seq(Byte) : /\ out' = out \o z
                                            /\ Len(z) < Len(a \o b \o c) /\ Begins(z, a \o b \o c)
  <1> DEFINE w == a \o b \o c
             Cut == \E z \in Seq(Byte) : out' = out \o z /\ Len(z) < Len(w) /\ Begins(z, w)
  <1>1. /\ out \in Seq(Byte) /\ Len(out) \in Nat /\ Len(out) <= cap /\ cap \in Nat
    BY InputAssumption, LenProperties DEF TypeOK
  <1>2. /\ a \o b \in Seq(Byte) /\ Len(a \o b) = Len(a) + Len(b) /\ Len(a) \in Nat /\ Len(b) \in Nat
    BY TwoParts
  <1>3. w \in Seq(Byte) /\ Len(w) = Len(a) + Len(b) + Len(c) /\ Len(c) \in Nat BY <1>2, TwoParts
  <1>4. CASE ~Room(a) /\ Refuse(out, a, e)
    <2>1. Len(<<>>) = 0 /\ <<>> \in Seq(Byte) /\ out \o <<>> = out /\ <<>> \o a = a
      BY <1>1, EmptyBytes, ConcatEmptySeq
    <2>2. Len(out) + Len(<<>>) <= cap /\ cap < Len(out) + Len(<<>>) + Len(a)
      BY <1>1, <1>2, <1>4, <2>1 DEF Room
    <2>3. Refuse(out \o <<>>, a, e) BY <1>4, <2>1
    <2>4. Fail(e) /\ \E z \in Seq(Byte) : /\ out' = out \o z
                                          /\ Len(z) < Len(<<>>) + Len(a) /\ Begins(z, <<>> \o a)
      BY <2>1, <2>2, <2>3, RefuseCases
    <2>5. PICK z \in Seq(Byte) : out' = out \o z /\ Len(z) < Len(a) /\ Begins(z, a)
      BY <2>1, <2>4, <1>2
    <2>6. Len(z) \in Nat BY LenProperties
    <2>7. Begins(z, a \o b) /\ Len(z) <= Len(a \o b) /\ Len(z) < Len(w)
      BY <2>5, <2>6, <1>2, <1>3, BeginsPrefix
    <2>8. Begins(z, w) BY <2>7, <1>2, BeginsPrefix
    <2> QED BY <2>4, <2>5, <2>7, <2>8
  <1>5. CASE Room(a) /\ ~Room(a \o b) /\ Refuse(out \o a, b, e)
    <2>1. Len(out) + Len(a) <= cap /\ cap < Len(out) + Len(a) + Len(b)
      BY <1>1, <1>2, <1>5 DEF Room
    <2>2. Fail(e) /\ \E z \in Seq(Byte) : /\ out' = out \o z
                                          /\ Len(z) < Len(a) + Len(b) /\ Begins(z, a \o b)
      BY <1>5, <2>1, RefuseCases
    <2>3. PICK z \in Seq(Byte) : out' = out \o z /\ Len(z) < Len(a) + Len(b) /\ Begins(z, a \o b)
      BY <2>2
    <2>4. Len(z) \in Nat BY LenProperties
    <2>5. Len(z) <= Len(a \o b) /\ Len(z) < Len(w) BY <2>3, <2>4, <1>2, <1>3
    <2>6. Begins(z, w) BY <2>3, <2>5, <1>2, BeginsPrefix
    <2> QED BY <2>2, <2>3, <2>5, <2>6
  <1>6. CASE Room(a \o b) /\ ~Room(a \o b \o c) /\ Refuse(out \o a \o b, c, e)
    <2> DEFINE t == a \o b
    <2>1. Len(out) + Len(t) <= cap /\ cap < Len(out) + Len(t) + Len(c)
      BY <1>1, <1>2, <1>3, <1>6 DEF Room
    <2>2. (out \o a) \o b = out \o t BY <1>1, Regroup
    <2>3. Refuse(out \o t, c, e) /\ t \in Seq(Byte) BY <1>2, <1>6, <2>2
    <2>4. Fail(e) /\ \E z \in Seq(Byte) : /\ out' = out \o z
                                          /\ Len(z) < Len(t) + Len(c) /\ Begins(z, t \o c)
      <3> HIDE DEF t
      <3> QED BY <2>1, <2>3, RefuseCases
    <2> QED BY <2>4, <1>2, <1>3
  <1>7. CASE Room(a \o b \o c) /\ out' = out \o a \o b \o c /\ Go(s)
    <2>1. out \o a \o b \o c = out \o w
      <3>1. (out \o a) \o b = out \o (a \o b) BY <1>1, Regroup
      <3>2. (out \o (a \o b)) \o c = out \o ((a \o b) \o c) BY <1>1, <1>2, Regroup
      <3> QED BY <3>1, <3>2
    <2> QED BY <2>1, <1>7
  <1> QED BY <1>4, <1>5, <1>6, <1>7 DEF Put

-----------------------------------------------------------------------------
(* What a reader still waits for: the rest of a text, then the messages owed. *)

IsText(s)  == s /= <<>> /\ s[Len(s)].kind = "text"
Pending(s) == IF IsText(s) THEN s[Len(s)].n ELSE 0
Owes(s)    == IF IsText(s) THEN s[Len(s)].below ELSE Owed(s)

\* The reader of the message at b takes the first p bytes of x, which follow o,
\* for a part of what it has begun, and m messages behind them; whatever x is.
After(b, o, x, p, m) ==
  RunEnd(Radix, o \o x, b, 1) =
    IF Len(x) < p THEN Truncated ELSE RunEnd(Radix, o \o x, Len(o) + p, m)
Reads(b, o, p, m) == \A x \in Seq(Byte) : After(b, o, x, p, m)

\* Nothing is nested in a text.
TextOnTop(s) == \A i \in 1..(Len(s) - 1) : s[i].kind /= "text"

Awaits(s, p, m) == TextOnTop(s) /\ Pending(s) = p /\ Owes(s) = m

ReadInv ==
  /\ pc = "busy" => TextOnTop(stack) /\ Reads(start, out, Pending(stack), Owes(stack))
  /\ pc = "ok" => Written = Len(out)
  /\ pc = "failed" /\ err \in {"Writer", "FieldSkipped"} => Written = Truncated

\* With what comes next a head begins: c and d, of a message of `size` bytes
\* with `more` in it.
LEMMA HeadAfter ==
  ASSUME NEW b, NEW o \in Seq(Byte), NEW m \in Nat, m > 0, Reads(b, o, 0, m),
         NEW c, NEW d, NEW size \in Nat, NEW more \in Nat, Promises(c, d, size, more)
  PROVE  \A z \in Seq(Byte) : Starts(z, c, d) => After(b, o, z, size, m - 1 + more)
  <1> SUFFICES ASSUME NEW z \in Seq(Byte), Starts(z, c, d)
               PROVE  RunEnd(Radix, o \o z, b, 1) =
                        IF Len(z) < size THEN Truncated
                        ELSE RunEnd(Radix, o \o z, Len(o) + size, m - 1 + more)
    BY DEF After
  <1> DEFINE s == o \o z
             h == Lead(Radix, s, Len(o))
  <1>1. Len(o) \in Nat /\ Len(z) \in Nat /\ s \in Seq(Byte) BY Joined
  <1>2. RunEnd(Radix, s, b, 1) = RunEnd(Radix, s, Len(o) + 0, m)
    <2>1. ~(Len(z) < 0) BY <1>1
    <2> QED BY <2>1 DEF Reads, After
  <1>3. h = IF Len(z) < size THEN NoHead(Truncated)
            ELSE [ok |-> TRUE, next |-> Len(o) + size, more |-> more]
    BY DEF Promises
  <1>4. Len(o) + 0 = Len(o) /\ Radix \in Nat \ {0} BY <1>1, RadixAssumption
  <1> HIDE DEF s
  <1>5. /\ h.ok => RunEnd(Radix, s, Len(o), m) = RunEnd(Radix, s, h.next, m - 1 + h.more)
        /\ ~h.ok => RunEnd(Radix, s, Len(o), m) = h.next
    <2> DEFINE g == h
    <2>1. g = Lead(Radix, s, Len(o)) OBVIOUS
    <2> HIDE DEF g, h
    <2>2. /\ g.ok => RunEnd(Radix, s, Len(o), m) = RunEnd(Radix, s, g.next, m - 1 + g.more)
          /\ ~g.ok => RunEnd(Radix, s, Len(o), m) = g.next
      BY <1>1, <1>4, <2>1, RunEndLemma
    <2> QED BY <2>2 DEF g
  <1> HIDE DEF h
  <1>6. CASE Len(z) < size
    <2>1. ~h.ok /\ h.next = Truncated BY <1>3, <1>6 DEF NoHead
    <2> QED BY <2>1, <1>2, <1>4, <1>5, <1>6 DEF s
  <1>7. CASE ~(Len(z) < size)
    <2>1. h.ok /\ h.next = Len(o) + size /\ h.more = more BY <1>3, <1>7
    <2> QED BY <2>1, <1>2, <1>4, <1>5, <1>7 DEF s
  <1> QED BY <1>6, <1>7

\* The head is written whole, with all but the last p bytes that go with it.
LEMMA HeadStep ==
  ASSUME NEW b, NEW o \in Seq(Byte), NEW m \in Nat, m > 0, Reads(b, o, 0, m),
         NEW c \in Byte, NEW d \in Seq(Byte), NEW e \in Seq(Byte), NEW p \in Nat, NEW more \in Nat,
         Promises(c, d, 1 + Len(d) + Len(e) + p, more)
  PROVE  Reads(b, o \o (<<c>> \o d \o e), p, m - 1 + more)
  <1> DEFINE w == <<c>> \o d \o e
             size == 1 + Len(d) + Len(e) + p
             v == o \o w
  <1>1. w \in Seq(Byte) /\ Len(w) = 1 + Len(d) + Len(e) /\ Len(d) \in Nat /\ Len(e) \in Nat
    <2>1. <<c>> \in Seq(Byte) /\ Len(<<c>>) = 1 OBVIOUS
    <2>2. <<c>> \o d \in Seq(Byte) /\ Len(<<c>> \o d) = 1 + Len(d) /\ Len(d) \in Nat BY <2>1, TwoParts
    <2> QED BY <2>2, TwoParts
  <1>2. Len(o) \in Nat /\ Len(w) \in Nat /\ v \in Seq(Byte) /\ Len(v) = Len(o) + Len(w)
    BY <1>1, TwoParts
  <1>3. ASSUME NEW x \in Seq(Byte)
        PROVE  RunEnd(Radix, v \o x, b, 1) =
                 IF Len(x) < p THEN Truncated ELSE RunEnd(Radix, v \o x, Len(v) + p, m - 1 + more)
    <2> DEFINE z == w \o x
    <2>1. z \in Seq(Byte) /\ Len(z) = Len(w) + Len(x) /\ Len(x) \in Nat BY <1>1, TwoParts
    <2>2. Begins(z, w) BY <1>1, BeginsWhole
    <2>3. v \o x = o \o z BY <1>1, Regroup
    <2> HIDE DEF z
    <2>4. Starts(z, c, d) BY <2>1, <2>2, BeginsStarts
    <2>5. size \in Nat /\ Promises(c, d, size, more) BY <1>1
    <2> HIDE DEF size
    <2>6. RunEnd(Radix, o \o z, b, 1) =
            IF Len(z) < size THEN Truncated ELSE RunEnd(Radix, o \o z, Len(o) + size, m - 1 + more)
      <3>1. \A q \in Seq(Byte) : Starts(q, c, d) => After(b, o, q, size, m - 1 + more)
        BY <2>5, HeadAfter
      <3> HIDE DEF w, v
      <3> QED BY <3>1, <2>1, <2>4 DEF After
    <2> HIDE DEF w, v
    <2>7. (Len(z) < size <=> Len(x) < p) /\ Len(o) + size = Len(v) + p
      BY <1>1, <1>2, <2>1 DEF size
    <2> QED BY <2>3, <2>6, <2>7
  <1>4. Reads(b, v, p, m - 1 + more) BY <1>3 DEF Reads, After
  <1> QED BY <1>4

\* Less than the head and all but the last p bytes is no message.
LEMMA CutStep ==
  ASSUME NEW b, NEW o \in Seq(Byte), NEW m \in Nat, m > 0, Reads(b, o, 0, m),
         NEW c \in Byte, NEW d \in Seq(Byte), NEW e \in Seq(Byte), NEW p \in Nat, NEW more \in Nat,
         Promises(c, d, 1 + Len(d) + Len(e) + p, more),
         NEW z \in Seq(Byte), Len(z) < Len(<<c>> \o d \o e), Begins(z, <<c>> \o d \o e)
  PROVE  RunEnd(Radix, o \o z, b, 1) = Truncated
  <1> DEFINE size == 1 + Len(d) + Len(e) + p
  <1>1. Len(z) < size /\ size \in Nat /\ Promises(c, d, size, more)
    <2>1. <<c>> \in Seq(Byte) /\ Len(<<c>>) = 1 OBVIOUS
    <2>2. <<c>> \o d \in Seq(Byte) /\ Len(<<c>> \o d) = 1 + Len(d) /\ Len(d) \in Nat BY <2>1, TwoParts
    <2>3. Len(<<c>> \o d \o e) = 1 + Len(d) + Len(e) /\ Len(e) \in Nat /\ Len(z) \in Nat
      BY <2>2, TwoParts, LenProperties
    <2> QED BY <2>2, <2>3
  <1>2. Starts(z, c, d) BY BeginsStarts
  <1> HIDE DEF size
  <1>3. \A q \in Seq(Byte) : Starts(q, c, d) => After(b, o, q, size, m - 1 + more)
    BY <1>1, HeadAfter
  <1> QED BY <1>1, <1>2, <1>3 DEF After

\* A piece of a text.
LEMMA PieceStep ==
  ASSUME NEW b, NEW o \in Seq(Byte), NEW n \in Nat, NEW m, Reads(b, o, n, m),
         NEW w \in Seq(Byte), Len(w) <= n
  PROVE  Reads(b, o \o w, n - Len(w), m)
  <1> DEFINE v == o \o w
  <1>1. Len(o) \in Nat /\ Len(w) \in Nat /\ Len(v) = Len(o) + Len(w) BY TwoParts
  <1>2. ASSUME NEW x \in Seq(Byte)
        PROVE  RunEnd(Radix, v \o x, b, 1) =
                 IF Len(x) < n - Len(w) THEN Truncated
                 ELSE RunEnd(Radix, v \o x, Len(v) + (n - Len(w)), m)
    <2> DEFINE z == w \o x
    <2>1. z \in Seq(Byte) /\ Len(z) = Len(w) + Len(x) /\ Len(x) \in Nat BY TwoParts
    <2>2. v \o x = o \o z BY Regroup
    <2> HIDE DEF z
    <2>3. RunEnd(Radix, o \o z, b, 1) =
            IF Len(z) < n THEN Truncated ELSE RunEnd(Radix, o \o z, Len(o) + n, m)
      BY <2>1 DEF Reads, After
    <2> HIDE DEF v
    <2>4. (Len(z) < n <=> Len(x) < n - Len(w)) /\ Len(o) + n = Len(v) + (n - Len(w))
      BY <1>1, <2>1
    <2> QED BY <2>2, <2>3, <2>4
  <1>3. Reads(b, v, n - Len(w), m) BY <1>2 DEF Reads, After
  <1> QED BY <1>3

\* With nothing behind it.
LEMMA WrittenNow ==
  ASSUME NEW b, NEW o \in Seq(Byte), NEW p \in Nat, NEW m \in Nat, Reads(b, o, p, m)
  PROVE  RunEnd(Radix, o, b, 1) = IF p > 0 \/ m > 0 THEN Truncated ELSE Len(o)
  <1>1. <<>> \in Seq(Byte) /\ Len(<<>>) = 0 /\ o \o <<>> = o /\ Len(o) \in Nat
    BY EmptyBytes, ConcatEmptySeq, LenProperties
  <1>2. RunEnd(Radix, o, b, 1) = IF 0 < p THEN Truncated ELSE RunEnd(Radix, o, Len(o) + p, m)
    BY <1>1 DEF Reads, After
  <1>3. CASE p = 0
    <2>1. RunEnd(Radix, o, b, 1) = RunEnd(Radix, o, Len(o), m) BY <1>1, <1>2, <1>3
    <2>2. CASE m = 0
      <3>1. RunEnd(Radix, o, Len(o), m) = Len(o) BY <2>2 DEF RunEnd
      <3> QED BY <3>1, <2>1, <2>2, <1>3
    <2>3. CASE m > 0
      <3> DEFINE h == Lead(Radix, o, Len(o))
      <3>1. h = NoHead(Truncated) /\ h = Lead(Radix, o, Len(o)) BY <1>1 DEF Lead
      <3>2. Radix \in Nat \ {0} BY RadixAssumption
      <3> HIDE DEF h
      <3>3. ~h.ok => RunEnd(Radix, o, Len(o), m) = h.next BY <1>1, <2>3, <3>1, <3>2, RunEndLemma
      <3>4. ~h.ok /\ h.next = Truncated BY <3>1 DEF NoHead
      <3> QED BY <3>3, <3>4, <2>1, <2>3
    <2> QED BY <2>2, <2>3
  <1> QED BY <1>2, <1>3

-----------------------------------------------------------------------------
(* What a step awaits of the stack it leaves *)

LEMMA TopAwaits ==
  ASSUME IInv, ReadInv, pc = "busy", Top.kind /= "text"
  PROVE  Reads(start, out, 0, Owed(stack)) /\ Owed(stack) = Top.below + Own(Top)
  <1>1. stack /= <<>> BY DEF IInv, TypeOK
  <1>2. ~IsText(stack) /\ Pending(stack) = 0 /\ Owes(stack) = Owed(stack)
    BY DEF IsText, Pending, Owes, Top
  <1> QED BY <1>1, <1>2 DEF ReadInv, Owed, Top

LEMMA ReplaceAwaits ==
  ASSUME IInv, ReadInv, pc = "busy", NEW f, Successor(f)
  PROVE  /\ TextOnTop(Replace(f)) /\ Owed(Replace(f)) = Top.below + Own(f)
         /\ IF f.kind = "text" THEN Awaits(Replace(f), f.n, f.below)
            ELSE Awaits(Replace(f), 0, Top.below + Own(f))
  <1> DEFINE R == Replace(f)
             L == Len(stack)
  <1>1. /\ R \in Seq(Frames) /\ R /= <<>> /\ Len(R) = L /\ R[L] = f
        /\ Owed(R) = Top.below + Own(f)
    BY ReplaceLemma
  <1>2. /\ Under \in Seq(Frames) /\ Len(Under) = L - 1 /\ L \in Nat /\ L > 0
        /\ \A i \in 1..(L - 1) : Under[i] = stack[i]
    BY UnderLemma DEF IInv
  <1>3. \A i \in 1..(L - 1) : R[i] = stack[i]
    <2>1. f \in Frames BY DEF Successor
    <2> QED BY <1>2, <2>1 DEF Replace
  <1> HIDE DEF R
  <1>4. TextOnTop(R) BY <1>1, <1>3 DEF TextOnTop, ReadInv
  <1>5. IsText(R) <=> f.kind = "text" BY <1>1 DEF IsText
  <1> QED BY <1>1, <1>4, <1>5 DEF Awaits, Pending, Owes, R

\* The call g announced by f.
LEMMA PushAwaits ==
  ASSUME NEW s \in Seq(Frames), s /= <<>>, Linked(s), Framed(s), TextOnTop(s),
         NEW f, f = s[Len(s)], f.kind /= "text", NEW g, Inner(f, g)
  PROVE  IF g.kind = "text" THEN Awaits(Append(s, g), g.n, f.below + Own(f))
         ELSE Awaits(Append(s, g), 0, f.below + Own(f) + Own(g))
  <1> DEFINE A == Append(s, g)
             L == Len(s)
  <1>1. A \in Seq(Frames) /\ A /= <<>> /\ Owed(A) = f.below + Own(f) + Own(g) BY PushLemma
  <1>2. L \in Nat /\ L > 0 /\ g \in Frames /\ g.below = f.below + Own(f) BY DEF Inner
  <1>3. Len(A) = L + 1 /\ A[L + 1] = g /\ \A i \in 1..L : A[i] = s[i] BY <1>2
  <1> HIDE DEF A
  <1>4. TextOnTop(A)
    <2> SUFFICES ASSUME NEW i \in 1..L PROVE A[i].kind /= "text"
      BY <1>2, <1>3 DEF TextOnTop
    <2>1. i \in 1..(L - 1) \/ i = L BY <1>2
    <2> QED BY <2>1, <1>3 DEF TextOnTop
  <1>5. IsText(A) <=> g.kind = "text" BY <1>1, <1>3 DEF IsText
  <1> QED BY <1>1, <1>2, <1>3, <1>4, <1>5 DEF Awaits, Pending, Owes, A

\* A call that may serialize a value: of the frame it settles, one less is owed.
LEMMA SettleAwaits ==
  ASSUME IInv, ReadInv, Serializing
  PROVE  /\ pc = "busy" /\ Top.kind /= "text" /\ Owed(stack) > 0 /\ Owed(stack) \in Nat
         /\ Awaits(Settle, 0, Owed(stack) - 1)
         /\ \A k \in Kinds, n \in Nat, fields \in Nat :
              (k = "variant" => n = 2) =>
                IF k = "text" THEN Awaits(Announce(k, n, fields), n, Owed(stack) - 1)
                ELSE Awaits(Announce(k, n, fields), 0,
                            Owed(stack) - 1 + Own(Frame(k, n, Top.below + Own(Took(Top)), fields)))
  <1> DEFINE f == Took(Top)
             b == Top.below + Own(f)
  <1>1. pc = "busy" /\ Ready(Top) /\ Top.kind /= "text" BY DEF Serializing, Ready
  <1>2. Top \in Frames /\ FrameOK(Top) /\ Own(Top) \in Nat /\ Top.below \in Nat
    BY <1>1, TopLemma DEF Frames
  <1>3. /\ Own(Top) > 0 /\ f \in Frames /\ FrameOK(f)
        /\ Own(f) = Own(Top) - 1 /\ f.below = Top.below
    BY <1>1, <1>2, TookLemma
  <1>4. Successor(f) BY <1>3 DEF Successor
  <1>5. f.kind = Top.kind BY <1>2 DEF Took, Frames
  <1>6. Owed(stack) = Top.below + Own(Top) BY <1>1, TopAwaits
  <1>7. Settle = Replace(f) /\ \A k, n, fields :
          Announce(k, n, fields) = Append(Replace(f), Frame(k, n, b, fields))
    BY DEF Settle, Announce
  <1> HIDE DEF f
  <1>8. Awaits(Settle, 0, b) /\ TextOnTop(Replace(f)) BY <1>1, <1>4, <1>5, <1>7, ReplaceAwaits
  <1>9. b = Owed(stack) - 1 /\ b \in Nat BY <1>2, <1>3, <1>6
  <1>10. b = f.below + Own(f) BY <1>3
  <1>11. Owed(stack) > 0 /\ Owed(stack) \in Nat BY <1>2, <1>3, <1>6
  <1> DEFINE R == Replace(f)
  <1>12. /\ R \in Seq(Frames) /\ R /= <<>> /\ Len(R) = Len(stack) /\ R[Len(stack)] = f
         /\ Linked(R) /\ Framed(R)
    BY <1>1, <1>4, ReplaceLemma
  <1> HIDE DEF R
  <1>13. ASSUME NEW k \in Kinds, NEW n \in Nat, NEW fields \in Nat, k = "variant" => n = 2
         PROVE  IF k = "text" THEN Awaits(Announce(k, n, fields), n, Owed(stack) - 1)
                ELSE Awaits(Announce(k, n, fields), 0, Owed(stack) - 1 + Own(Frame(k, n, b, fields)))
    <2> DEFINE g == Frame(k, n, b, fields)
    <2>1. g \in Frames /\ FrameOK(g) /\ g.below = b BY <1>9, <1>13, FrameLemma
    <2>2. g.kind = k /\ g.n = n BY DEF Frame
    <2>3. Announce(k, n, fields) = Append(R, g) BY <1>7 DEF R
    <2> HIDE DEF g, b
    <2>4. Inner(f, g) BY <2>1, <1>10 DEF Inner
    <2>5. f = R[Len(R)] /\ f.kind /= "text" /\ TextOnTop(R) BY <1>1, <1>5, <1>8, <1>12 DEF R
    <2>6. IF g.kind = "text" THEN Awaits(Append(R, g), g.n, f.below + Own(f))
          ELSE Awaits(Append(R, g), 0, f.below + Own(f) + Own(g))
      BY <2>4, <2>5, <1>12, PushAwaits
    <2>7. CASE k = "text"
      <3>1. Awaits(Append(R, g), n, b) BY <2>2, <2>6, <2>7, <1>10
      <3> QED BY <3>1, <2>3, <2>7, <1>9
    <2>8. CASE k /= "text"
      <3>1. Awaits(Append(R, g), 0, b + Own(g)) BY <2>2, <2>6, <2>8, <1>10
      <3>2. b + Own(g) = Owed(stack) - 1 + Own(g) BY <1>9
      <3> QED BY <3>1, <3>2, <2>3, <2>8 DEF g
    <2> QED BY <2>7, <2>8
  <1> QED BY <1>1, <1>8, <1>9, <1>11, <1>13 DEF f

-----------------------------------------------------------------------------
(* What each action leaves a reader *)

\* Nothing is claimed of the sink after another error.
LEMMA OtherError ==
  ASSUME NEW e, e \notin {"Writer", "FieldSkipped"}, Fail(e)
  PROVE  ReadInv'
  BY DEF Fail, ReadInv

\* A head with what it promises: c and d, the bytes b, and p more to come.
LEMMA WriteReads ==
  ASSUME IInv, ReadInv, pc = "busy", Top.kind /= "text", Owed(stack) > 0, Owed(stack) \in Nat,
         NEW c \in Byte, NEW d \in Seq(Byte), NEW b \in Seq(Byte), NEW p \in Nat, NEW more \in Nat,
         NEW size, size = 1 + Len(d) + Len(b) + p, Promises(c, d, size, more),
         NEW m, m = Owed(stack) - 1 + more,
         NEW s, Awaits(s, p, m), NEW e, Put(<<c>>, d, b, e, Go(s)), Same
  PROVE  ReadInv'
  <1> DEFINE w == <<c>> \o d \o b
  <1>1. out \in Seq(Byte) /\ TypeOK /\ start' = start BY DEF IInv, TypeOK, Same
  <1>2. Reads(start, out, 0, Owed(stack)) BY TopAwaits
  <1>3. \/ out' = out \o w /\ Go(s)
        \/ Fail(e) /\ \E z \in Seq(Byte) : out' = out \o z /\ Len(z) < Len(w) /\ Begins(z, w)
    <2>1. <<c>> \in Seq(Byte) OBVIOUS
    <2> DEFINE a == <<c>>
    <2>2. Put(a, d, b, e, Go(s)) /\ a \in Seq(Byte) BY <2>1
    <2> HIDE DEF a
    <2>3. \/ out' = out \o (a \o d \o b) /\ Go(s)
          \/ Fail(e) /\ \E z \in Seq(Byte) : /\ out' = out \o z
                                             /\ Len(z) < Len(a \o d \o b) /\ Begins(z, a \o d \o b)
      BY <1>1, <2>2, PutCases
    <2> QED BY <2>3 DEF a
  <1>4. CASE out' = out \o w /\ Go(s)
    <2>1. Reads(start, out \o w, p, Owed(stack) - 1 + more) BY <1>1, <1>2, HeadStep
    <2>2. stack' = s /\ pc' = "busy" BY <1>4 DEF Go
    <2> HIDE DEF w
    <2>3. TextOnTop(stack') /\ Reads(start', out', Pending(stack'), Owes(stack'))
      BY <1>1, <1>4, <2>1, <2>2 DEF Awaits
    <2> QED BY <2>2, <2>3 DEF ReadInv
  <1>5. ASSUME Fail(e), NEW z \in Seq(Byte), out' = out \o z, Len(z) < Len(w), Begins(z, w)
        PROVE  ReadInv'
    <2>1. RunEnd(Radix, out \o z, start, 1) = Truncated BY <1>1, <1>2, <1>5, CutStep
    <2>2. Written' = Truncated BY <1>1, <1>5, <2>1 DEF Written
    <2> QED BY <1>5, <2>2 DEF Fail, ReadInv
  <1> QED BY <1>3, <1>4, <1>5

LEMMA HeadReads ==
  ASSUME IInv, ReadInv, pc = "busy", Top.kind /= "text", Owed(stack) > 0, Owed(stack) \in Nat,
         NEW n \in Nat, NEW h, NEW b \in Seq(Byte), NEW p \in Nat, NEW more \in Nat,
         NEW size, size = Len(b) + p,
         Holds(n, 4) => h.code \in Byte /\ h.digits \in Seq(Byte) /\ Whole(h, size, more),
         NEW m, m = Owed(stack) - 1 + more, NEW s, Awaits(s, p, m),
         NEW e, e \notin {"Writer", "FieldSkipped"}, WriteHead(n, h, e, b, Go(s)), Same
  PROVE  ReadInv'
  <1>1. CASE ~Holds(n, 4)
    <2>1. Fail(e) BY <1>1 DEF WriteHead
    <2> QED BY <2>1, OtherError
  <1>2. CASE Holds(n, 4)
    <2> DEFINE c == h.code
               d == h.digits
    <2>1. c \in Byte /\ d \in Seq(Byte) /\ Put(<<c>>, d, b, "Writer", Go(s)) BY <1>2 DEF WriteHead
    <2> DEFINE whole == 1 + Len(d) + size
    <2>2. Promises(c, d, whole, more) BY <1>2 DEF Whole
    <2> HIDE DEF c, d
    <2>3. whole = 1 + Len(d) + Len(b) + p BY <2>1, LenProperties
    <2> HIDE DEF whole
    <2> QED BY <2>1, <2>2, <2>3, WriteReads
  <1> QED BY <1>1, <1>2

LEMMA NumberReads ==
  ASSUME IInv, ReadInv, pc = "busy", Top.kind /= "text", Owed(stack) > 0, Owed(stack) \in Nat,
         NEW t \in Types, NEW v \in Int, Fits(t, v),
         NEW m, m = Owed(stack) - 1, NEW s, Awaits(s, 0, m), WriteNumber(t, v, Go(s)), Same
  PROVE  ReadInv'
  <1> DEFINE c == IntCode(t, v)
             d == IntDigits(t, v)
             b == <<>>
             size == 1 + Len(d) + 0
             none == 0
  <1>1. c \in Byte /\ d \in Seq(Byte) /\ Put(<<c>>, d, b, "Writer", Go(s))
    BY IntHeadLemma DEF WriteNumber
  <1>2. b \in Seq(Byte) /\ Len(b) = 0 BY EmptyBytes
  <1>3. Promises(c, d, size, none) /\ Awaits(s, none, m) /\ none \in Nat BY NumberPromise
  <1> HIDE DEF c, d, b
  <1>4. size = 1 + Len(d) + Len(b) + none BY <1>1, <1>2, LenProperties
  <1>5. m = Owed(stack) - 1 + none OBVIOUS
  <1> HIDE DEF size, none
  <1> QED BY <1>1, <1>2, <1>3, <1>4, <1>5, WriteReads

\* A string or its first bytes, or a name.
LEMMA StrReads ==
  ASSUME IInv, ReadInv, pc = "busy", Top.kind /= "text", Owed(stack) > 0, Owed(stack) \in Nat,
         NEW n \in Nat, NEW m, m = Owed(stack) - 1, NEW s, Awaits(s, 0, m),
         WriteHead(n, StrHead(n), "StrLength", Payload(n), Go(s)), Same
  PROVE  ReadInv'
  <1> DEFINE h == StrHead(n)
             b == Payload(n)
  <1>1. b \in Seq(Byte) /\ Len(b) = n BY PayloadLemma
  <1>2. WriteHead(n, h, "StrLength", b, Go(s)) OBVIOUS
  <1>3. Holds(n, 4) => h.code \in Byte /\ h.digits \in Seq(Byte) /\ Whole(h, n, 0)
    BY HeadLemma, StrPromise
  <1> HIDE DEF h, b
  <1>4. n = Len(b) + 0 /\ m = Owed(stack) - 1 + 0 BY <1>1
  <1>5. "StrLength" \notin {"Writer", "FieldSkipped"} OBVIOUS
  <1> QED BY <1>1, <1>2, <1>3, <1>4, <1>5, HeadReads

LEMMA VariantReads ==
  ASSUME IInv, ReadInv, pc = "busy", Top.kind /= "text", Owed(stack) > 0, Owed(stack) \in Nat,
         NEW m, m = Owed(stack) - 1, NEW s, Awaits(s, 0, m), WriteVariant(s), Same
  PROVE  ReadInv'
  <1>1. ASSUME NEW n \in Names, WriteHead(n, StrHead(n), "StrLength", Payload(n), Go(s))
        PROVE  ReadInv'
    <2>1. n \in Nat BY InputLemma
    <2> QED BY <2>1, <1>1, StrReads
  <1>2. ASSUME NEW v \in Numbers, Fits("u32", v), WriteNumber("u32", v, Go(s))
        PROVE  ReadInv'
    <2>1. v \in Int /\ "u32" \in Types BY InputLemma DEF Types
    <2> QED BY <2>1, <1>2, NumberReads
  <1> QED BY <1>1, <1>2 DEF WriteVariant

LEMMA SerializeScalarReads ==
  ASSUME IInv, ReadInv, SerializeScalar
  PROVE  ReadInv'
  <1>1. Serializing /\ Same BY DEF SerializeScalar
  <1>2. PICK s \in Scalars : Put(<<s[1]>>, Payload(s[2]), <<>>, "Writer", Go(Settle))
    BY DEF SerializeScalar
  <1> DEFINE c == s[1]
             d == Payload(s[2])
             b == <<>>
             none == 0
             size == 1 + s[2]
             m == Owed(stack) - 1
  <1>3. c \in Byte /\ s[2] \in Nat BY DEF Scalars, Byte, NIL, TRUE_, FLOAT_32
  <1>4. d \in Seq(Byte) /\ Len(d) = s[2] /\ b \in Seq(Byte) /\ Len(b) = 0
    BY <1>3, PayloadLemma, EmptyBytes
  <1>5. Promises(c, d, size, none) /\ none \in Nat BY ScalarPromise
  <1>6. Put(<<c>>, d, b, "Writer", Go(Settle)) BY <1>2
  <1> HIDE DEF c, d, b
  <1>7. size = 1 + Len(d) + Len(b) + none BY <1>3, <1>4
  <1>8. /\ pc = "busy" /\ Top.kind /= "text" /\ Owed(stack) > 0 /\ Owed(stack) \in Nat
        /\ Awaits(Settle, none, m)
    BY <1>1, SettleAwaits
  <1>9. m = Owed(stack) - 1 + none BY <1>8
  <1> HIDE DEF size, none, m
  <1> QED BY <1>1, <1>3, <1>4, <1>5, <1>6, <1>7, <1>8, <1>9, WriteReads

LEMMA SerializeIntegerReads ==
  ASSUME IInv, ReadInv, SerializeInteger
  PROVE  ReadInv'
  <1>1. Serializing /\ Same BY DEF SerializeInteger
  <1>2. PICK t \in Types, v \in Numbers : Fits(t, v) /\ WriteNumber(t, v, Go(Settle))
    BY DEF SerializeInteger
  <1>3. v \in Int BY InputLemma
  <1> DEFINE m == Owed(stack) - 1
  <1>4. /\ pc = "busy" /\ Top.kind /= "text" /\ Owed(stack) > 0 /\ Owed(stack) \in Nat
        /\ Awaits(Settle, 0, m) /\ m = Owed(stack) - 1
    BY <1>1, SettleAwaits
  <1> HIDE DEF m
  <1> QED BY <1>1, <1>2, <1>3, <1>4, NumberReads

LEMMA SerializeStrReads ==
  ASSUME IInv, ReadInv, SerializeStr
  PROVE  ReadInv'
  <1>1. Serializing /\ Same BY DEF SerializeStr
  <1>2. PICK n \in Sizes : WriteHead(n, StrHead(n), "StrLength", Payload(n), Go(Settle))
    BY DEF SerializeStr
  <1>3. n \in Nat BY InputLemma
  <1> DEFINE m == Owed(stack) - 1
  <1>4. /\ pc = "busy" /\ Top.kind /= "text" /\ Owed(stack) > 0 /\ Owed(stack) \in Nat
        /\ Awaits(Settle, 0, m) /\ m = Owed(stack) - 1
    BY <1>1, SettleAwaits
  <1> HIDE DEF m
  <1> QED BY <1>1, <1>2, <1>3, <1>4, StrReads

LEMMA SerializeBytesReads ==
  ASSUME IInv, ReadInv, SerializeBytes
  PROVE  ReadInv'
  <1>1. Serializing /\ Same BY DEF SerializeBytes
  <1>2. PICK n \in Sizes : WriteHead(n, BinHead(n), "DataLength", Payload(n), Go(Settle))
    BY DEF SerializeBytes
  <1> DEFINE h == BinHead(n)
             b == Payload(n)
             none == 0
             m == Owed(stack) - 1
  <1>3. n \in Nat BY InputLemma
  <1>4. b \in Seq(Byte) /\ Len(b) = n BY <1>3, PayloadLemma
  <1>5. WriteHead(n, h, "DataLength", b, Go(Settle)) BY <1>2
  <1>6. Holds(n, 4) => h.code \in Byte /\ h.digits \in Seq(Byte) /\ Whole(h, n, none)
    BY <1>3, HeadLemma, BinPromise
  <1> HIDE DEF h, b
  <1>7. n = Len(b) + none /\ none \in Nat BY <1>3, <1>4
  <1>8. /\ pc = "busy" /\ Top.kind /= "text" /\ Owed(stack) > 0 /\ Owed(stack) \in Nat
        /\ Awaits(Settle, none, m)
    BY <1>1, SettleAwaits
  <1>9. m = Owed(stack) - 1 + none BY <1>8
  <1> HIDE DEF none, m
  <1>10. "DataLength" \notin {"Writer", "FieldSkipped"} OBVIOUS
  <1> QED BY <1>1, <1>3, <1>4, <1>5, <1>6, <1>7, <1>8, <1>9, <1>10, HeadReads

\* A head of n items, and the call that owes them.
LEMMA OpenReads ==
  ASSUME IInv, ReadInv, Serializing, Same, NEW n \in Nat, NEW h, NEW more \in Nat,
         Holds(n, 4) => h.code \in Byte /\ h.digits \in Seq(Byte) /\ Whole(h, 0, more),
         NEW k \in Kinds \ {"text", "variant"}, NEW fields \in Nat,
         \A below \in Nat : Own(Frame(k, n, below, fields)) = more,
         NEW e, e \notin {"Writer", "FieldSkipped"},
         WriteHead(n, h, e, <<>>, Go(Announce(k, n, fields)))
  PROVE  ReadInv'
  <1> DEFINE s == Announce(k, n, fields)
             m == Owed(stack) - 1 + more
             b == <<>>
             none == 0
             size == 0
             below == Top.below + Own(Took(Top))
  <1>1. /\ pc = "busy" /\ Top.kind /= "text" /\ Owed(stack) > 0 /\ Owed(stack) \in Nat
        /\ Awaits(s, 0, Owed(stack) - 1 + Own(Frame(k, n, below, fields)))
    BY SettleAwaits
  <1>2. below \in Nat
    <2>1. Top \in Frames /\ FrameOK(Top) /\ Ready(Top) BY <1>1, TopLemma DEF Serializing
    <2>2. Took(Top) \in Frames BY <2>1, TookLemma
    <2>3. Own(Took(Top)) \in Nat /\ Top.below \in Nat BY <2>1, <2>2, OwnLemma
    <2> QED BY <2>3
  <1> HIDE DEF below
  <1>3. Awaits(s, none, m) BY <1>1, <1>2
  <1>4. b \in Seq(Byte) /\ Len(b) = 0 BY EmptyBytes
  <1>5. WriteHead(n, h, e, b, Go(s)) OBVIOUS
  <1>6. Holds(n, 4) => h.code \in Byte /\ h.digits \in Seq(Byte) /\ Whole(h, size, more) OBVIOUS
  <1> HIDE DEF s, b
  <1>7. size = Len(b) + none /\ none \in Nat BY <1>4
  <1>8. m = Owed(stack) - 1 + more OBVIOUS
  <1> HIDE DEF none, size, m
  <1> QED BY <1>1, <1>3, <1>4, <1>5, <1>6, <1>7, <1>8, HeadReads

LEMMA SerializeSeqReads ==
  ASSUME IInv, ReadInv, SerializeSeq
  PROVE  ReadInv'
  <1>1. Serializing /\ Same BY DEF SerializeSeq
  <1>2. PICK n \in Counts : WriteHead(n, ArrayHead(n), "SeqLength", <<>>, Go(Announce("seq", n, 0)))
    BY DEF SerializeSeq
  <1> DEFINE h == ArrayHead(n)
  <1>3. n \in Nat BY InputLemma
  <1>4. Holds(n, 4) => h.code \in Byte /\ h.digits \in Seq(Byte) /\ Whole(h, 0, n)
    BY <1>3, HeadLemma, ArrayPromise
  <1>5. WriteHead(n, h, "SeqLength", <<>>, Go(Announce("seq", n, 0))) BY <1>2
  <1> HIDE DEF h
  <1>6. \A below \in Nat : Own(Frame("seq", n, below, 0)) = n BY DEF Frame, Own, Keyed
  <1>7. "seq" \in Kinds \ {"text", "variant"} /\ "SeqLength" \notin {"Writer", "FieldSkipped"}
        /\ 0 \in Nat
    BY DEF Kinds
  <1> QED BY <1>1, <1>3, <1>4, <1>5, <1>6, <1>7, OpenReads

LEMMA SerializeMapReads ==
  ASSUME IInv, ReadInv, SerializeMap
  PROVE  ReadInv'
  <1>1. Serializing /\ Same BY DEF SerializeMap
  <1>2. PICK n \in Counts : WriteHead(n, MapHead(n), "MapLength", <<>>, Go(Announce("map", n, 0)))
    BY DEF SerializeMap
  <1> DEFINE h == MapHead(n)
             more == 2 * n
  <1>3. n \in Nat /\ more \in Nat BY InputLemma
  <1>4. Holds(n, 4) => h.code \in Byte /\ h.digits \in Seq(Byte) /\ Whole(h, 0, more)
    BY <1>3, HeadLemma, MapPromise
  <1>5. WriteHead(n, h, "MapLength", <<>>, Go(Announce("map", n, 0))) BY <1>2
  <1>6. \A below \in Nat : Own(Frame("map", n, below, 0)) = more BY <1>3 DEF Frame, Own, Keyed
  <1> HIDE DEF h, more
  <1>7. "map" \in Kinds \ {"text", "variant"} /\ "MapLength" \notin {"Writer", "FieldSkipped"}
        /\ 0 \in Nat
    BY DEF Kinds
  <1> QED BY <1>1, <1>3, <1>4, <1>5, <1>6, <1>7, OpenReads

LEMMA SerializeStructReads ==
  ASSUME IInv, ReadInv, SerializeStruct
  PROVE  ReadInv'
  <1>1. Serializing /\ Same /\ repr \in {"array", "index", "name"}
    BY ReprAssumption DEF SerializeStruct, IInv, TypeOK
  <1>2. PICK n \in Counts, f \in FieldCounts :
          IF repr = "array"
          THEN WriteHead(n, ArrayHead(n), "SeqLength", <<>>, Go(Announce("array", n, f)))
          ELSE WriteHead(n, MapHead(n), "MapLength", <<>>, Go(Announce(repr, n, f)))
    BY DEF SerializeStruct
  <1> DEFINE a == ArrayHead(n)
             h == MapHead(n)
             more == 2 * n
  <1>3. n \in Nat /\ f \in Nat /\ more \in Nat BY InputLemma
  <1>4. Holds(n, 4) => /\ a.code \in Byte /\ a.digits \in Seq(Byte) /\ Whole(a, 0, n)
                       /\ h.code \in Byte /\ h.digits \in Seq(Byte) /\ Whole(h, 0, more)
    BY <1>3, HeadLemma, ArrayPromise, MapPromise
  <1>5. {"array", "index", "name"} \subseteq Kinds \ {"text", "variant"}
        /\ "SeqLength" \notin {"Writer", "FieldSkipped"}
        /\ "MapLength" \notin {"Writer", "FieldSkipped"}
    BY DEF Kinds
  <1>6. CASE repr = "array"
    <2>1. \A below \in Nat : Own(Frame("array", n, below, f)) = n BY DEF Frame, Own, Keyed
    <2>2. WriteHead(n, a, "SeqLength", <<>>, Go(Announce("array", n, f))) BY <1>2, <1>6
    <2> HIDE DEF a, h, more
    <2> QED BY <2>1, <2>2, <1>1, <1>3, <1>4, <1>5, OpenReads
  <1>7. CASE repr \in {"index", "name"}
    <2>1. \A below \in Nat : Own(Frame(repr, n, below, f)) = more
      BY <1>3, <1>7 DEF Frame, Own, Keyed
    <2>2. WriteHead(n, h, "MapLength", <<>>, Go(Announce(repr, n, f))) BY <1>2, <1>7
    <2> HIDE DEF a, h, more
    <2>3. repr \in Kinds \ {"text", "variant"} BY <1>5, <1>7
    <2> QED BY <2>1, <2>2, <2>3, <1>1, <1>3, <1>4, <1>5, OpenReads
  <1> QED BY <1>1, <1>6, <1>7

LEMMA SerializeVariantReads ==
  ASSUME IInv, ReadInv, SerializeVariant
  PROVE  ReadInv'
  <1> DEFINE c == FIXMAP + 1
             b == <<>>
             none == 0
             more == 2
             size == 1
             m == Owed(stack) - 1 + more
             s == Announce("variant", 2, 0)
             below == Top.below + Own(Took(Top))
  <1>1. Serializing /\ Same /\ Put(<<c>>, b, b, "Writer", Go(s)) BY DEF SerializeVariant
  <1>2. c \in Byte /\ b \in Seq(Byte) /\ Len(b) = 0 BY EmptyBytes DEF FIXMAP, Byte
  <1>3. Promises(c, b, size, more) /\ none \in Nat /\ more \in Nat BY VariantPromise
  <1>4. "variant" \in Kinds /\ "variant" /= "text" /\ 2 \in Nat /\ 0 \in Nat BY DEF Kinds
  <1>5. /\ pc = "busy" /\ Top.kind /= "text" /\ Owed(stack) > 0 /\ Owed(stack) \in Nat
        /\ Awaits(s, 0, Owed(stack) - 1 + Own(Frame("variant", 2, below, 0)))
    BY <1>1, <1>4, SettleAwaits
  <1> HIDE DEF below
  <1>6. Own(Frame("variant", 2, below, 0)) = 2 BY DEF Frame, Own, Keyed
  <1>7. Awaits(s, none, m) BY <1>5, <1>6
  <1> HIDE DEF c, b, s
  <1>8. size = 1 + Len(b) + Len(b) + none /\ m = Owed(stack) - 1 + more BY <1>2
  <1> HIDE DEF none, more, size, m
  <1> QED BY <1>1, <1>2, <1>3, <1>5, <1>7, <1>8, WriteReads

LEMMA SerializeUnitVariantReads ==
  ASSUME IInv, ReadInv, SerializeUnitVariant
  PROVE  ReadInv'
  <1>1. Serializing /\ Same /\ WriteVariant(Settle) BY DEF SerializeUnitVariant
  <1> DEFINE m == Owed(stack) - 1
  <1>2. /\ pc = "busy" /\ Top.kind /= "text" /\ Owed(stack) > 0 /\ Owed(stack) \in Nat
        /\ Awaits(Settle, 0, m) /\ m = Owed(stack) - 1
    BY <1>1, SettleAwaits
  <1> HIDE DEF m
  <1> QED BY <1>1, <1>2, VariantReads

LEMMA NameVariantReads ==
  ASSUME IInv, ReadInv, NameVariant
  PROVE  ReadInv'
  <1> DEFINE f == [Top EXCEPT !.kind = "one", !.n = 1]
             m == Owed(stack) - 1
  <1>1. pc = "busy" /\ TypeOK /\ Same /\ WriteVariant(Replace(f)) /\ Top.kind = "variant"
    BY DEF NameVariant, IInv
  <1>2. Successor(f) /\ f.kind = "one" /\ Own(Top) = 2 /\ Own(f) = 1 BY <1>1, NamedFrame
  <1> HIDE DEF f
  <1>3. Top.below \in Nat BY <1>1, TopLemma DEF Frames
  <1>4. Top.kind /= "text" /\ f.kind /= "text" BY <1>1, <1>2
  <1>5. Awaits(Replace(f), 0, Top.below + Own(f)) BY <1>1, <1>2, <1>4, ReplaceAwaits
  <1>6. Owed(stack) = Top.below + 2 BY <1>1, <1>2, <1>4, TopAwaits
  <1>7. m = Owed(stack) - 1 /\ m = Top.below + Own(f) /\ Owed(stack) > 0 /\ Owed(stack) \in Nat
    BY <1>2, <1>3, <1>6
  <1>8. Awaits(Replace(f), 0, m) BY <1>5, <1>7
  <1> HIDE DEF m
  <1> QED BY <1>1, <1>4, <1>7, <1>8, VariantReads

LEMMA CollectStrReads ==
  ASSUME IInv, ReadInv, CollectStr
  PROVE  ReadInv'
  <1>1. Serializing /\ Same BY DEF CollectStr
  <1>2. PICK n \in Sizes : WriteHead(n, StrHead(n), "StrLength", <<>>, Go(Announce("text", n, 0)))
    BY DEF CollectStr
  <1> DEFINE h == StrHead(n)
             b == <<>>
             s == Announce("text", n, 0)
             none == 0
             m == Owed(stack) - 1
  <1>3. n \in Nat BY InputLemma
  <1>4. b \in Seq(Byte) /\ Len(b) = 0 BY EmptyBytes
  <1>5. WriteHead(n, h, "StrLength", b, Go(s)) BY <1>2
  <1>6. Holds(n, 4) => h.code \in Byte /\ h.digits \in Seq(Byte) /\ Whole(h, n, none)
    BY <1>3, HeadLemma, StrPromise
  <1>7. /\ pc = "busy" /\ Top.kind /= "text" /\ Owed(stack) > 0 /\ Owed(stack) \in Nat
        /\ Awaits(s, n, m)
    <2>1. "text" \in Kinds /\ "text" /= "variant" /\ 0 \in Nat BY DEF Kinds
    <2> QED BY <2>1, <1>1, <1>3, SettleAwaits
  <1> HIDE DEF h, b, s
  <1>8. n = Len(b) + n /\ none \in Nat BY <1>3, <1>4
  <1>9. m = Owed(stack) - 1 + none BY <1>7
  <1> HIDE DEF none, m
  <1>10. "StrLength" \notin {"Writer", "FieldSkipped"} OBVIOUS
  <1> DEFINE size == n
  <1>11. size = Len(b) + n /\ Whole(h, size, none) = Whole(h, n, none) BY <1>8
  <1> HIDE DEF size
  <1> QED BY <1>1, <1>3, <1>4, <1>5, <1>6, <1>7, <1>8, <1>9, <1>10, <1>11, HeadReads

LEMMA CollectPieceReads ==
  ASSUME IInv, ReadInv, CollectPiece
  PROVE  ReadInv'
  <1>1. pc = "busy" /\ TypeOK /\ Same /\ Top.kind = "text" BY DEF CollectPiece, IInv
  <1>2. PICK k \in 1..(Top.n + 1) :
          \/ Fail("FormatError")
          \/ ~TooLong(k) /\ Put(Payload(k), <<>>, <<>>, "FormatError",
                                Go(Replace([Top EXCEPT !.n = @ - k])))
    BY DEF CollectPiece
  <1>3. Top \in Frames /\ FrameOK(Top) /\ Top.n \in Nat BY <1>1, TopLemma
  <1>4. ASSUME Fail("FormatError") PROVE ReadInv' BY <1>4, OtherError
  <1>5. ASSUME ~TooLong(k), Put(Payload(k), <<>>, <<>>, "FormatError",
                                Go(Replace([Top EXCEPT !.n = @ - k])))
        PROVE  ReadInv'
    <2> DEFINE f == [Top EXCEPT !.n = @ - k]
               a == Payload(k)
               z == <<>>
               s == Replace(f)
    <2>1. k \in Nat /\ k >= 1 /\ k <= Top.n /\ Top.n - k \in Nat BY <1>3, <1>5 DEF TooLong
    <2>2. a \in Seq(Byte) /\ Len(a) = k /\ z \in Seq(Byte) /\ (a \o z) \o z = a
      <3>1. a \in Seq(Byte) /\ Len(a) = k /\ z \in Seq(Byte) BY <2>1, PayloadLemma, EmptyBytes
      <3> QED BY <3>1, ConcatEmptySeq
    <2>3. k \in 1..Top.n BY <1>3, <2>1
    <2>4. Successor(f) /\ f.kind = "text" /\ f.n = Top.n - k BY <1>1, <2>3, PieceFrame
    <2>5. Put(a, z, z, "FormatError", Go(s)) BY <1>5
    <2> HIDE DEF f, a, z
    <2>6. f.below = Top.below BY <2>4 DEF Successor
    <2>7. Awaits(s, Top.n - k, Top.below) BY <1>1, <2>4, <2>6, ReplaceAwaits
    <2> HIDE DEF s
    <2>8. (out' = out \o (a \o z \o z) /\ Go(s)) \/ Fail("FormatError")
      BY <1>1, <2>2, <2>5, PutCases
    <2>9. CASE out' = out \o a /\ Go(s)
      <3>1. Reads(start, out, Top.n, Top.below)
        <4>1. IsText(stack) BY <1>1 DEF IsText, Top, TypeOK
        <4> QED BY <4>1, <1>1 DEF ReadInv, Pending, Owes, Top
      <3>2. out \in Seq(Byte) BY <1>1 DEF TypeOK
      <3>3. Reads(start, out \o a, Top.n - k, Top.below)
        <4>1. Len(a) <= Top.n BY <2>1, <2>2
        <4>2. Reads(start, out \o a, Top.n - Len(a), Top.below)
          BY <4>1, <3>1, <3>2, <1>3, <2>2, PieceStep
        <4> QED BY <4>2, <2>2
      <3>4. stack' = s /\ pc' = "busy" /\ start' = start BY <2>9, <1>1 DEF Go, Same
      <3>5. TextOnTop(stack') /\ Reads(start', out', Pending(stack'), Owes(stack'))
        BY <3>3, <3>4, <2>7, <2>9 DEF Awaits
      <3> QED BY <3>4, <3>5 DEF ReadInv
    <2> QED BY <2>2, <2>8, <2>9, <1>4
  <1> QED BY <1>2, <1>4, <1>5

LEMMA WriteKeyReads ==
  ASSUME IInv, ReadInv, WriteKey
  PROVE  ReadInv'
  <1> DEFINE f == Keys(Top)
             m == Owed(stack) - 1
             s == Replace(f)
  <1>1. /\ pc = "busy" /\ TypeOK /\ Same
        /\ Top.kind \in {"index", "name"} /\ ~Top.open /\ Top.n > 0
    BY DEF WriteKey, IInv
  <1>2. /\ Top.kind = "index" => WriteNumber("u32", Top.idx, Go(s))
        /\ Top.kind /= "index" =>
             \E n \in Names : WriteHead(n, StrHead(n), "StrLength", Payload(n), Go(s))
    BY DEF WriteKey, Keys
  <1>3. Top.idx \in Nat /\ Top.idx < Power[4] /\ Top.below \in Nat /\ Own(Top) \in Nat
    BY <1>1, TopLemma DEF FrameOK, Frames
  <1>4. Successor(f) /\ f.kind = Top.kind /\ Own(Top) > 0 /\ Own(f) = Own(Top) - 1
    BY <1>1, KeyFrame
  <1> HIDE DEF f
  <1>5. Top.kind /= "text" /\ f.kind /= "text" BY <1>1, <1>4
  <1>6. Awaits(s, 0, Top.below + Own(f)) BY <1>1, <1>4, <1>5, ReplaceAwaits
  <1>7. Owed(stack) = Top.below + Own(Top) BY <1>1, <1>5, TopAwaits
  <1>8. m = Owed(stack) - 1 /\ m = Top.below + Own(f) /\ Owed(stack) > 0 /\ Owed(stack) \in Nat
    BY <1>3, <1>4, <1>7
  <1>9. Awaits(s, 0, m) BY <1>6, <1>8
  <1> HIDE DEF s, m
  <1>10. CASE Top.kind = "index"
    <2>1. "u32" \in Types /\ Top.idx \in Int BY <1>3 DEF Types
    <2>2. Fits("u32", Top.idx) BY <1>3 DEF Fits, Signed, Width
    <2>3. WriteNumber("u32", Top.idx, Go(s)) BY <1>2, <1>10
    <2> QED BY <2>1, <2>2, <2>3, <1>1, <1>5, <1>8, <1>9, NumberReads
  <1>11. CASE Top.kind /= "index"
    <2>1. PICK n \in Names : WriteHead(n, StrHead(n), "StrLength", Payload(n), Go(s))
      BY <1>11, <1>2
    <2>2. n \in Nat BY InputLemma
    <2> QED BY <2>1, <2>2, <1>1, <1>5, <1>8, <1>9, StrReads
  <1> QED BY <1>10, <1>11

LEMMA SkipFieldReads ==
  ASSUME IInv, ReadInv, SkipField
  PROVE  ReadInv'
  <1>1. pc = "busy" /\ TypeOK /\ Same /\ out' = out /\ Top.kind \in Struct /\ ~Top.open
    BY DEF SkipField, IInv
  <1>2. Top.kind /= "text" BY <1>1 DEF Struct
  <1>3. Top.n \in Nat /\ Top.below \in Nat /\ Own(Top) \in Nat BY <1>1, TopLemma DEF Frames
  <1>4. Reads(start, out, 0, Owed(stack)) /\ Owed(stack) = Top.below + Own(Top)
    BY <1>1, <1>2, TopAwaits
  <1>5. ASSUME ~Skippable(Top), Fail("FieldSkipped") PROVE ReadInv'
    <2>1. Top.kind = "array" /\ Top.n > 0 BY <1>3, <1>5 DEF Skippable
    <2>2. Own(Top) = Top.n BY <2>1 DEF Own, Keyed
    <2>3. Owed(stack) \in Nat /\ Owed(stack) > 0 BY <2>1, <2>2, <1>3, <1>4
    <2>4. out \in Seq(Byte) /\ 0 \in Nat BY <1>1 DEF TypeOK
    <2>5. RunEnd(Radix, out, start, 1) = Truncated BY <1>4, <2>3, <2>4, WrittenNow
    <2>6. Written' = Truncated BY <1>1, <2>5 DEF Written, Same
    <2> QED BY <1>5, <2>6 DEF Fail, ReadInv
  <1>6. ASSUME Skippable(Top), Go(Replace(Skipped(Top))) PROVE ReadInv'
    <2> DEFINE f == Skipped(Top)
               s == Replace(f)
    <2>1. Successor(f) /\ f.kind = Top.kind /\ Own(f) = Own(Top) BY <1>1, <1>6, SkippedFrame
    <2> HIDE DEF f
    <2>2. Awaits(s, 0, Owed(stack)) BY <1>1, <1>2, <1>4, <2>1, ReplaceAwaits
    <2>3. stack' = s /\ pc' = "busy" /\ start' = start /\ out' = out
      BY <1>1, <1>6 DEF Go, Same, f
    <2> HIDE DEF s
    <2>4. TextOnTop(stack') /\ Reads(start', out', Pending(stack'), Owes(stack'))
      BY <1>4, <2>2, <2>3 DEF Awaits
    <2> QED BY <2>3, <2>4 DEF ReadInv
  <1> QED BY <1>5, <1>6 DEF SkipField

LEMMA EndReads ==
  ASSUME IInv, ReadInv, End
  PROVE  ReadInv'
  <1>1. pc = "busy" /\ TypeOK /\ Same /\ out' = out /\ ~Top.open BY DEF End, IInv
  <1>2. ASSUME ~(Top.kind = "text" \/ AllWritten(Top)) PROVE ReadInv'
    <2>1. Fail("MapLength") \/ Fail("SeqLength") BY <1>2 DEF End
    <2> QED BY <2>1, OtherError
  <1>3. ASSUME Top.kind = "text" \/ AllWritten(Top) PROVE ReadInv'
    <2>1. Top.n = 0 /\ stack' = Under /\ pc' = (IF Under = <<>> THEN "ok" ELSE "busy")
      BY <1>1, <1>3 DEF End, AllWritten
    <2>2. Own(Top) = 0 BY <2>1, <1>1 DEF Own
    <2>3. Owed(Under) = Owed(stack) BY <1>1, <2>2, PopLemma
    <2>4. stack /= <<>> /\ out \in Seq(Byte) BY <1>1 DEF TypeOK
    <2>5. Top.below \in Nat BY <1>1, TopLemma DEF Frames
    <2>6. Owed(stack) = Top.below BY <2>2, <2>4, <2>5 DEF Owed, Top
    <2>7. Pending(stack) = 0 /\ Owes(stack) = Owed(stack)
      BY <2>1, <2>6 DEF Pending, Owes, IsText, Top
    <2>8. Reads(start, out, 0, Owed(stack)) BY <1>1, <2>7 DEF ReadInv
    <2>9. CASE Under = <<>>
      <3>1. Owed(stack) = 0 BY <2>3, <2>9 DEF Owed
      <3>2. RunEnd(Radix, out, start, 1) = Len(out) BY <2>4, <2>8, <3>1, WrittenNow
      <3>3. Written' = Len(out') BY <1>1, <3>2 DEF Written, Same
      <3> QED BY <2>1, <2>9, <3>3 DEF ReadInv
    <2>10. CASE Under /= <<>>
      <3> DEFINE U == Under
                 L == Len(stack)
      <3>1. /\ U \in Seq(Frames) /\ Len(U) = L - 1 /\ L \in Nat /\ L > 0
            /\ \A i \in 1..(L - 1) : U[i] = stack[i]
        BY <1>1, UnderLemma
      <3> HIDE DEF U
      <3>2. \A i \in 1..(L - 1) : U[i].kind /= "text" BY <1>1, <3>1 DEF ReadInv, TextOnTop
      <3>3. TextOnTop(U)
        <4>1. \A i \in 1..(Len(U) - 1) : i \in 1..(L - 1) BY <3>1
        <4> QED BY <3>2, <4>1 DEF TextOnTop
      <3>4. U /= <<>> /\ Len(U) \in 1..(L - 1) BY <2>10, <3>1 DEF U
      <3>5. ~IsText(U) BY <3>2, <3>4 DEF IsText
      <3>6. Pending(U) = 0 /\ Owes(U) = Owed(stack) BY <2>3, <3>5 DEF Pending, Owes, U
      <3>7. stack' = U /\ pc' = "busy" /\ start' = start BY <1>1, <2>1, <2>10 DEF U, Same
      <3>8. TextOnTop(stack') /\ Reads(start', out', Pending(stack'), Owes(stack'))
        BY <1>1, <2>8, <3>3, <3>6, <3>7
      <3> QED BY <3>7, <3>8 DEF ReadInv
    <2> QED BY <2>9, <2>10
  <1> QED BY <1>2, <1>3

LEMMA RefusalReads ==
  ASSUME IInv, ReadInv, TooMany \/ LengthUnknown \/ GiveUp
  PROVE  ReadInv'
  <1>1. \E e \in {"SeqLength", "MapLength", "FormatError", "SerializeError"} : Fail(e)
    BY DEF TooMany, LengthUnknown, GiveUp
  <1> QED BY <1>1, OtherError

\* A message begins, and is all that is awaited.
LEMMA BeginReads ==
  ASSUME IInv, Begin
  PROVE  ReadInv'
  <1> DEFINE f == Frame("one", 1, 0, 0)
             s == <<f>>
  <1>1. f.kind = "one" /\ f.below = 0 /\ Own(f) = 1 BY DEF Frame, Own, Keyed
  <1> HIDE DEF f
  <1>2. s /= <<>> /\ Len(s) = 1 /\ s[1] = f OBVIOUS
  <1>3. Pending(s) = 0 /\ Owes(s) = 1 /\ TextOnTop(s)
    BY <1>1, <1>2 DEF Pending, Owes, IsText, Owed, TextOnTop
  <1>4. Len(out) \in Nat BY LenProperties DEF IInv, TypeOK
  <1>5. Reads(Len(out), out, 0, 1)
    <2> SUFFICES ASSUME NEW x \in Seq(Byte) PROVE After(Len(out), out, x, 0, 1) BY DEF Reads
    <2>1. ~(Len(x) < 0) BY LenProperties
    <2>2. Len(out) + 0 = Len(out) BY <1>4
    <2> QED BY <2>1, <2>2 DEF After
  <1>6. stack' = s /\ pc' = "busy" /\ start' = Len(out) /\ out' = out BY DEF Begin, f
  <1> HIDE DEF s
  <1>7. TextOnTop(stack') /\ Reads(start', out', Pending(stack'), Owes(stack'))
    BY <1>3, <1>5, <1>6
  <1> QED BY <1>6, <1>7 DEF ReadInv

LEMMA ReadStep == IInv /\ ReadInv /\ [Next]_vars => ReadInv'
  <1> SUFFICES ASSUME IInv, ReadInv, [Next]_vars PROVE ReadInv' OBVIOUS
  <1>1. CASE UNCHANGED vars BY <1>1 DEF vars, ReadInv, Written
  <1>2. CASE Next
    BY <1>2, SerializeScalarReads, SerializeIntegerReads, SerializeStrReads, SerializeBytesReads,
       SerializeSeqReads, SerializeMapReads, SerializeStructReads, SerializeVariantReads,
       SerializeUnitVariantReads, NameVariantReads, CollectStrReads, CollectPieceReads,
       WriteKeyReads, SkipFieldReads, EndReads, RefusalReads, BeginReads
    DEF Next
  <1> QED BY <1>1, <1>2

\* For every sink, radix and implementation, what is in the sink reads as
\* truncated as long as anything promised is missing and as the whole message
\* when nothing is; a message cut by a full sink or a skipped field is truncated.
THEOREM NeverTooEarly == Spec => []NeverEarly
  <1>1. Init => ReadInv BY DEF Init, ReadInv
  <1>2. IInv /\ ReadInv => NeverEarly
    <2> SUFFICES ASSUME IInv, ReadInv
                 PROVE  pc = "busy" => Written = IF Owed(stack) > 0 THEN Truncated ELSE Len(out)
      BY DEF NeverEarly, ReadInv
    <2> SUFFICES ASSUME pc = "busy"
                 PROVE  Written = IF Owed(stack) > 0 THEN Truncated ELSE Len(out)
      OBVIOUS
    <2>1. Reads(start, out, Pending(stack), Owes(stack)) BY DEF ReadInv
    <2>2. /\ Top \in Frames /\ Top.n \in Nat /\ Top.below \in Nat /\ Own(Top) \in Nat
          /\ stack /= <<>> /\ out \in Seq(Byte)
      BY TopLemma DEF Frames, IInv, TypeOK
    <2>3. Owed(stack) = Top.below + Own(Top) BY <2>2 DEF Owed, Top
    <2>4. CASE Top.kind = "text"
      <3>1. Pending(stack) = Top.n /\ Owes(stack) = Top.below
        BY <2>2, <2>4 DEF Pending, Owes, IsText, Top
      <3>2. Written = IF Top.n > 0 \/ Top.below > 0 THEN Truncated ELSE Len(out)
        BY <2>1, <2>2, <3>1, WrittenNow DEF Written
      <3>3. Own(Top) = IF Top.n > 0 THEN 1 ELSE 0 BY <2>4 DEF Own, Keyed
      <3>4. Owed(stack) > 0 <=> Top.n > 0 \/ Top.below > 0 BY <2>2, <2>3, <3>3
      <3> QED BY <3>2, <3>4
    <2>5. CASE Top.kind /= "text"
      <3>1. Pending(stack) = 0 /\ Owes(stack) = Owed(stack)
        BY <2>5 DEF Pending, Owes, IsText, Top
      <3>2. Owed(stack) \in Nat /\ 0 \in Nat BY <2>2, <2>3
      <3> QED BY <2>1, <2>2, <3>1, <3>2, WrittenNow DEF Written
    <2> QED BY <2>4, <2>5
  <1> QED BY <1>1, <1>2, ReadStep, Inductive, PTL DEF Spec
=============================================================================
