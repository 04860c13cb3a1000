--------------------------- MODULE MsgpackDe_proofs ---------------------------
(* Proofs about MsgpackDe, for every input, radix and width of usize.  Every *)
(* step of a call has one of two outcomes: the call ends in an error, or a   *)
(* head is read and the stack settles one message and may announce others.   *)
EXTENDS MsgpackContent, MsgpackHeads_proofs

\* No sum of eat_message wraps: usize holds every length on top of every
\* position, as 64 bits do, or the build checks its additions.
MaxLength  == Radix * (Radix * (Radix * Radix))
WideUsize  == \A s \in Inputs : Len(s) + MaxLength + 50 <= Usize
SafeUsize  == OverflowChecks \/ WideUsize

\* The slices lent by a step lie between the old and the new base.
Lends ==
  \/ lent' = lent
  \/ \E lo, hi \in Nat : /\ base <= lo /\ lo <= hi /\ hi <= base'
                         /\ lent' = lent \cup {[lo |-> lo, hi |-> hi]}

Broken ==
  /\ pc = "busy" /\ pc' \in {"failed", "panic"}
  /\ stack' = <<>> /\ lent' = lent
  /\ base' \in base..Len(input) /\ index' \in Nat
  /\ base' + index' >= Cursor
  /\ UNCHANGED <<input, op, start>>

Advanced ==
  /\ pc = "busy" /\ pc' = "busy" /\ Own(Top) > 0
  /\ \/ stack' = Settle
     \/ \E k \in Kinds \ {"value"}, n \in Nat : stack' = Announce(k, n)
  /\ base' \in base..Len(input) /\ index' \in Nat
  /\ SafeUsize => base' + index' > Cursor
  /\ Lends
  /\ UNCHANGED <<input, op, start>>

Outcome == Broken \/ Advanced

-----------------------------------------------------------------------------
(* Arithmetic *)

LEMMA Horner ==
  ASSUME NEW r \in Nat, NEW a \in Nat, NEW m \in Nat, NEW d \in Nat, a < m, d < r
  PROVE  r * a + d \in Nat /\ r * a + d < r * m
  <1>1. r * a \in Nat /\ r * m \in Nat /\ r * (m - a - 1) \in Nat BY MulNat
  <1>2. r * m = r * a + r + r * (m - a - 1) OBVIOUS
  <1> QED BY <1>1, <1>2

-----------------------------------------------------------------------------
(* Heads *)

LEMMA CodeLemma ==
  ASSUME TypeOK, HasHead
  PROVE  Code \in Byte /\ Cursor \in Nat /\ Rem \in Nat /\ Len(input) \in Nat
  <1>1. input \in Seq(Byte) BY InputsAssumption DEF TypeOK
  <1>2. Len(input) \in Nat /\ Cursor \in Nat /\ Rem \in Nat /\ Cursor + 1 \in 1..Len(input)
    BY <1>1 DEF TypeOK, HasHead, Cursor, Rem
  <1>3. input[Cursor + 1] \in Byte BY <1>1, <1>2
  <1> QED BY <1>2, <1>3 DEF Code

LEMMA DigitsLemma == \A c \in Byte : Digits(c) \in {0, 1, 2, 4}
  BY DEF Digits

LEMMA DigitLemma ==
  ASSUME TypeOK, NEW p \in Nat, p < Len(input)
  PROVE  Digit(p) \in Nat /\ Digit(p) < Radix
  <1>1. input \in Seq(Byte) BY InputsAssumption DEF TypeOK
  <1>2. input[p + 1] \in Byte BY <1>1
  <1>b. \A x \in Byte : x \in Nat BY DEF Byte
  <1>3. input[p + 1] \in Nat BY <1>2, <1>b
  <1> QED BY <1>3, RadixAssumption, ModLemma DEF Digit

LEMMA NumberLemma ==
  ASSUME TypeOK, NEW p \in Nat, NEW k \in {1, 2, 4}, p + k <= Len(input)
  PROVE  Number(p, k) \in Nat /\ Number(p, k) < MaxLength
  <1> DEFINE R == Radix
  <1>r. R \in Nat \ {0} BY RadixAssumption
  <1>m. /\ R * R \in Nat /\ R * (R * R) \in Nat /\ MaxLength \in Nat
        /\ R <= R * R /\ R * R <= R * (R * R) /\ R * (R * R) <= MaxLength
    <2>1. \A x \in Nat : R * x \in Nat /\ x <= R * x
      <3>1. ASSUME NEW x \in Nat PROVE R * x \in Nat /\ x <= R * x
        <4> DEFINE q == R - 1
        <4>1. q \in Nat /\ q * x \in Nat BY <1>r, MulNat
        <4>2. (q + 1) * x = q * x + x BY <4>1
        <4>3. R = q + 1 BY <1>r
        <4> HIDE DEF q
        <4> QED BY <4>1, <4>2, <4>3
      <3> QED BY <3>1
    <2>2. R * R \in Nat /\ R <= R * R BY <2>1, <1>r
    <2>3. R * (R * R) \in Nat /\ R * R <= R * (R * R) BY <2>1, <2>2
    <2> QED BY <2>1, <2>2, <2>3 DEF MaxLength
  <1>1. CASE k = 1
    <2>1. Number(p, k) = Digit(p) BY <1>1 DEF Number
    <2>2. p < Len(input)
      <3>1. Len(input) \in Nat BY InputsAssumption DEF TypeOK
      <3> QED BY <3>1, <1>1
    <2>3. Digit(p) \in Nat /\ Digit(p) < Radix BY <2>2, DigitLemma
    <2> DEFINE d == Digit(p)
               s == R * R
               c == R * (R * R)
    <2>4. R \in Nat /\ s \in Nat /\ c \in Nat /\ R <= s /\ s <= c /\ c <= MaxLength
          /\ MaxLength \in Nat /\ d \in Nat /\ d < R
      BY <1>m, <1>r, <2>3
    <2> HIDE DEF R, s, c, d
    <2>5. d \in Nat /\ d < MaxLength BY <2>4
    <2> QED BY <2>1, <2>5 DEF d
  <1>2. CASE k = 2
    <2>1. Number(p, k) = R * Digit(p) + Digit(p + 1) BY <1>2 DEF Number
    <2>2. /\ Digit(p) \in Nat /\ Digit(p) < R
          /\ Digit(p + 1) \in Nat /\ Digit(p + 1) < R
      BY <1>2, DigitLemma
    <2>3. R * Digit(p) + Digit(p + 1) \in Nat /\ R * Digit(p) + Digit(p + 1) < R * R
      BY <2>2, <1>r, Horner
    <2> QED BY <2>1, <2>3, <1>m
  <1>4. CASE k = 4
    <2> DEFINE a == Digit(p)
               b == R * a + Digit(p + 1)
               c == R * b + Digit(p + 2)
               d == R * c + Digit(p + 3)
    <2>1. Number(p, k) = d BY <1>4 DEF Number
    <2>2. /\ a \in Nat /\ a < R
          /\ Digit(p + 1) \in Nat /\ Digit(p + 1) < R
          /\ Digit(p + 2) \in Nat /\ Digit(p + 2) < R
          /\ Digit(p + 3) \in Nat /\ Digit(p + 3) < R
      BY <1>4, DigitLemma
    <2>3. b \in Nat /\ b < R * R BY <2>2, <1>r, Horner
    <2> HIDE DEF b
    <2>4. c \in Nat /\ c < R * (R * R) BY <2>2, <2>3, <1>r, <1>m, Horner
    <2> HIDE DEF c
    <2>5. d \in Nat /\ d < R * (R * (R * R)) BY <2>2, <2>4, <1>r, <1>m, Horner
    <2> QED BY <2>1, <2>5 DEF MaxLength
  <1> QED BY <1>1, <1>2, <1>4

LEMMA ShortLemma == \A c \in Byte : Short(c) \in 0..31
  BY DEF Short, FixMap, FixArray, FixStr, FIXMAP, FIXARRAY, FIXSTR

\* The length that goes with a head and where its bytes begin.
LEMMA BodyLemma ==
  ASSUME TypeOK, HasHead
  PROVE  /\ Body \in Nat /\ Body > index
         /\ Body <= Rem => Length \in Nat /\ Length < MaxLength + 32
  <1>1. Code \in Byte /\ Cursor \in Nat /\ Rem \in Nat BY CodeLemma
  <1>2. Digits(Code) \in {0, 1, 2, 4} BY <1>1, DigitsLemma
  <1>3. Body \in Nat /\ Body > index BY <1>2 DEF Body, TypeOK
  <1>4. MaxLength \in Nat BY RadixAssumption, MulNat DEF MaxLength
  <1>5. ASSUME Body <= Rem PROVE Length \in Nat /\ Length < MaxLength + 32
    <2>1. CASE Digits(Code) = 0
      <3>1. Length = Short(Code) BY <2>1 DEF Length, LengthAt, Code
      <3> QED BY <3>1, <1>1, <1>4, ShortLemma
    <2>2. CASE Digits(Code) \in {1, 2, 4}
      <3>1. Length = Number(Cursor + 1, Digits(Code)) BY <2>2 DEF Length, LengthAt, Code
      <3>2. Cursor + 1 \in Nat /\ Cursor + 1 + Digits(Code) <= Len(input)
        BY <1>5, <1>1, <2>2, InputsAssumption DEF Body, Rem, Cursor, TypeOK
      <3>3. Number(Cursor + 1, Digits(Code)) \in Nat /\ Number(Cursor + 1, Digits(Code)) < MaxLength
        BY <3>2, <2>2, NumberLemma
      <3> QED BY <3>1, <3>3, <1>4
    <2> QED BY <2>1, <2>2, <1>2
  <1> QED BY <1>3, <1>5

LEMMA FixedLemma == \A c \in Byte : Fixed(c) \in 0..17 /\ Extra(c) \in {0, 1}
  BY DEF Fixed, Extra

-----------------------------------------------------------------------------
(* The stack *)

LEMMA UnderLemma ==
  ASSUME NEW s \in Seq(Frames), s /= <<>>
  PROVE  /\ SubSeq(s, 1, Len(s) - 1) \in Seq(Frames)
         /\ Len(SubSeq(s, 1, Len(s) - 1)) = Len(s) - 1
         /\ \A i \in 1..(Len(s) - 1) : SubSeq(s, 1, Len(s) - 1)[i] = s[i]
         /\ Len(s) \in Nat /\ Len(s) > 0 /\ s[Len(s)] \in Frames
  <1>1. Len(s) \in Nat /\ Len(s) > 0 OBVIOUS
  <1>2. s[Len(s)] \in Frames BY <1>1
  <1>3. \A i \in 1..(Len(s) - 1) : s[i] \in Frames BY <1>1
  <1> DEFINE n == Len(s) - 1
  <1>4. n \in Nat BY <1>1
  <1>5. /\ SubSeq(s, 1, n) \in Seq(Frames)
        /\ Len(SubSeq(s, 1, n)) = IF 1 <= n THEN n - 1 + 1 ELSE 0
        /\ \A i \in 1..(n - 1 + 1) : SubSeq(s, 1, n)[i] = s[1 + i - 1]
    <2> HIDE DEF n
    <2>1. 1 \in Int /\ n \in Int BY <1>4
    <2>2. \A i \in 1..n : s[i] \in Frames BY <1>3 DEF n
    <2> QED BY <2>1, <2>2, SubSeqProperties
  <1> HIDE DEF n
  <1>6. Len(SubSeq(s, 1, n)) = n
    <2>1. CASE n = 0 BY <2>1, <1>5
    <2>2. CASE n > 0 BY <2>2, <1>4, <1>5
    <2> QED BY <2>1, <2>2, <1>4
  <1>7. \A i \in 1..n : SubSeq(s, 1, n)[i] = s[i] BY <1>4, <1>5
  <1> QED BY <1>1, <1>2, <1>5, <1>6, <1>7 DEF n

LEMMA TookLemma ==
  ASSUME NEW f \in Frames, Own(f) > 0
  PROVE  /\ Own(f) \in Nat
         /\ Took(f) \in Frames /\ Own(Took(f)) = Own(f) - 1 /\ Took(f).below = f.below
  <1>1. CASE f.kind = "map"
    <2>1. f.n \in Nat /\ f.n > 0 /\ Own(f) = 2 * f.n BY <1>1 DEF Own, Frames
    <2>2. Took(f) = [kind |-> "value", n |-> f.n - 1, below |-> f.below]
      BY <1>1 DEF Took, Frames
    <2>3. Own(Took(f)) = 2 * (f.n - 1) + 1 BY <2>2 DEF Own
    <2> QED BY <2>1, <2>2, <2>3 DEF Frames, Kinds
  <1>2. CASE f.kind = "value" BY <1>2 DEF Own, Took, Frames, Kinds
  <1>3. CASE f.kind \notin {"map", "value"} BY <1>3 DEF Own, Took, Frames, Kinds
  <1> QED BY <1>1, <1>2, <1>3

\* The messages that a new frame owes.
Announced(k, n) == IF k = "map" THEN 2 * n ELSE n

\* Reading a head settles one of the messages owed and announces its own.
LEMMA StackLemma ==
  ASSUME TypeOK, Linked(stack), pc = "busy", Own(Top) > 0
  PROVE  /\ Owed(stack) \in Nat /\ Owed(stack) > 0
         /\ /\ Settle \in Seq(Frames) /\ Settle /= <<>> /\ Linked(Settle)
            /\ Owed(Settle) \in Nat /\ Owed(Settle) = Owed(stack) - 1
         /\ \A k \in Kinds \ {"value"}, n \in Nat :
              /\ Announce(k, n) \in Seq(Frames) /\ Announce(k, n) /= <<>>
              /\ Linked(Announce(k, n))
              /\ Owed(Announce(k, n)) \in Nat /\ Owed(Announce(k, n)) >= Owed(stack) - 1
              /\ Owed(Announce(k, n)) = Owed(stack) - 1 + Announced(k, n)
  <1> DEFINE L == Len(stack)
             t == Took(Top)
  <1>1. stack \in Seq(Frames) /\ stack /= <<>> BY DEF TypeOK
  <1>2. /\ Under \in Seq(Frames) /\ Len(Under) = L - 1 /\ L \in Nat /\ L > 0
        /\ Top \in Frames /\ \A i \in 1..(L - 1) : Under[i] = stack[i]
    BY <1>1, UnderLemma DEF Under, Top
  <1>3. t \in Frames /\ Own(t) = Own(Top) - 1 /\ Own(Top) \in Nat /\ t.below = Top.below
    BY <1>2, TookLemma
  <1>4. Owed(stack) = Top.below + Own(Top) BY <1>1 DEF Owed, Top
  <1>5. Top.below \in Nat BY <1>2 DEF Frames
  <1> HIDE DEF t
  <1>6. /\ Settle \in Seq(Frames) /\ Len(Settle) = L /\ Settle[L] = t
        /\ \A i \in 1..(L - 1) : Settle[i] = stack[i]
    BY <1>2, <1>3 DEF Settle, t
  <1>7. Settle /= <<>> BY <1>2, <1>6
  <1>8. Owed(Settle) = t.below + Own(t) BY <1>6, <1>7 DEF Owed
  <1>9. Linked(Settle)
    <2> SUFFICES ASSUME NEW i \in 1..L
                 PROVE Settle[i].below = IF i = 1 THEN 0
                                         ELSE Settle[i - 1].below + Own(Settle[i - 1])
      BY <1>6 DEF Linked
    <2>1. stack[i].below = IF i = 1 THEN 0 ELSE stack[i - 1].below + Own(stack[i - 1])
      BY DEF Linked
    <2>2. Settle[i].below = stack[i].below BY <1>2, <1>3, <1>6 DEF Top
    <2>3. i /= 1 => Settle[i - 1] = stack[i - 1] BY <1>2, <1>6
    <2> QED BY <2>1, <2>2, <2>3
  <1>10. ASSUME NEW k \in Kinds \ {"value"}, NEW n \in Nat
         PROVE /\ Announce(k, n) \in Seq(Frames) /\ Announce(k, n) /= <<>>
               /\ Linked(Announce(k, n))
               /\ Owed(Announce(k, n)) \in Nat /\ Owed(Announce(k, n)) >= Owed(stack) - 1
               /\ Owed(Announce(k, n)) = Owed(stack) - 1 + Announced(k, n)
    <2> DEFINE f == Frame(k, n, Top.below + Own(t))
               A == Append(Settle, f)
    <2>1. Announce(k, n) = A BY DEF Announce, t
    <2>2. /\ f \in Frames /\ Own(f) \in Nat /\ f.below = Top.below + Own(t)
          /\ Own(f) = Announced(k, n)
      BY <1>3, <1>5 DEF Frame, Frames, Own, Kinds, Announced
    <2> HIDE DEF f
    <2>3. /\ A \in Seq(Frames) /\ Len(A) = L + 1 /\ A[L + 1] = f
          /\ \A i \in 1..L : A[i] = Settle[i]
      BY <1>2, <1>6, <2>2
    <2> HIDE DEF A
    <2>4. A /= <<>> BY <1>2, <2>3
    <2>5. Owed(A) = f.below + Own(f) BY <2>3, <2>4 DEF Owed
    <2>6. Linked(A)
      <3> SUFFICES ASSUME NEW i \in 1..(L + 1)
                   PROVE A[i].below = IF i = 1 THEN 0 ELSE A[i - 1].below + Own(A[i - 1])
        BY <2>3 DEF Linked
      <3>1. CASE i = L + 1
        <4>1. A[i] = f /\ i /= 1 /\ A[i - 1] = t BY <3>1, <1>2, <1>6, <2>3
        <4> QED BY <4>1, <2>2, <1>3
      <3>2. CASE i \in 1..L
        <4>1. A[i] = Settle[i] /\ (i /= 1 => A[i - 1] = Settle[i - 1]) BY <3>2, <1>2, <2>3
        <4>2. Settle[i].below = IF i = 1 THEN 0 ELSE Settle[i - 1].below + Own(Settle[i - 1])
          BY <3>2, <1>6, <1>9 DEF Linked
        <4> QED BY <4>1, <4>2
      <3> QED BY <3>1, <3>2, <1>2
    <2> QED BY <2>1, <2>2, <2>3, <2>4, <2>5, <2>6, <1>3, <1>4, <1>5
  <1> QED BY <1>3, <1>4, <1>5, <1>6, <1>7, <1>8, <1>9, <1>10

LEMMA LendsLemma ==
  ASSUME LentApart, lent \subseteq [lo : Nat, hi : Nat], base \in Nat, base' \in Nat,
         base <= base', Lends
  PROVE  LentApart' /\ lent' \subseteq [lo : Nat, hi : Nat]
  <1>1. CASE lent' = lent BY <1>1 DEF LentApart
  <1>2. ASSUME NEW lo \in Nat, NEW hi \in Nat, base <= lo, lo <= hi, hi <= base',
               lent' = lent \cup {[lo |-> lo, hi |-> hi]}
        PROVE LentApart' /\ lent' \subseteq [lo : Nat, hi : Nat]
    <2> DEFINE x == [lo |-> lo, hi |-> hi]
    <2>1. x \in [lo : Nat, hi : Nat] /\ x.lo = lo /\ x.hi = hi OBVIOUS
    <2> HIDE DEF x
    <2>2. lent' = lent \cup {x} BY <1>2 DEF x
    <2>3. \A s \in lent : s.lo \in Nat /\ s.hi \in Nat /\ s.lo <= s.hi /\ s.hi <= base
      BY DEF LentApart
    <2>4. \A s \in lent' : s.lo <= s.hi /\ s.hi <= base' BY <1>2, <2>1, <2>2, <2>3
    <2>5. \A s, u \in lent' : s /= u => s.hi <= u.lo \/ u.hi <= s.lo
      BY <1>2, <2>1, <2>2, <2>3 DEF LentApart
    <2> QED BY <2>1, <2>2, <2>4, <2>5 DEF LentApart
  <1> QED BY <1>1, <1>2 DEF Lends

LEMMA OutcomeInv ==
  ASSUME IInv, Outcome
  PROVE  IInv'
  <1>0. input' = input /\ Len(input) \in Nat BY InputsAssumption DEF Outcome, Broken, Advanced, IInv, TypeOK
  <1>1. CASE Broken
    <2>1. TypeOK' BY <1>0, <1>1 DEF Broken, IInv, TypeOK
    <2>2. Linked(stack)' BY <1>1 DEF Broken, Linked
    <2>3. LentApart' BY <1>0, <1>1 DEF Broken, IInv, LentApart, TypeOK
    <2> QED BY <2>1, <2>2, <2>3 DEF IInv
  <1>2. CASE Advanced
    <2>1. stack' \in Seq(Frames) /\ stack' /= <<>> /\ Linked(stack)'
      BY <1>2, StackLemma DEF IInv, Advanced, Linked
    <2>2. base \in Nat /\ base' \in Nat /\ base <= base' BY <1>0, <1>2 DEF IInv, TypeOK, Advanced
    <2>3. LentApart' /\ lent' \subseteq [lo : Nat, hi : Nat]
      BY <1>2, <2>2, LendsLemma DEF IInv, TypeOK, Advanced
    <2>4. TypeOK' BY <1>0, <1>2, <2>1, <2>3 DEF IInv, TypeOK, Advanced
    <2> QED BY <2>1, <2>3, <2>4 DEF IInv
  <1> QED BY <1>1, <1>2 DEF Outcome

-----------------------------------------------------------------------------
(* Every action of a call has one of the two outcomes. *)

LEMMA FailOutcome ==
  ASSUME TypeOK, pc = "busy", NEW e, NEW i \in Nat, i >= index, Fail(e, i),
         UNCHANGED <<input, op, start>>
  PROVE  Outcome
  <1>1. Len(input) \in Nat BY InputsAssumption DEF TypeOK
  <1> QED BY <1>1 DEF TypeOK, Fail, Stay, Outcome, Broken, Cursor

LEMMA SettleOutcome ==
  ASSUME TypeOK, pc = "busy", Own(Top) > 0, NEW i \in Nat, SafeUsize => i > index,
         Stay(i), Go(Settle), UNCHANGED <<input, op, start>>
  PROVE  Outcome
  <1>1. Len(input) \in Nat BY InputsAssumption DEF TypeOK
  <1> QED BY <1>1 DEF TypeOK, Go, Stay, Outcome, Advanced, Lends, Cursor

LEMMA AnnounceOutcome ==
  ASSUME TypeOK, pc = "busy", Own(Top) > 0, NEW i \in Nat, i > index,
         NEW k \in Kinds \ {"value"}, NEW n \in Nat,
         Stay(i), Go(Announce(k, n)), UNCHANGED <<input, op, start>>
  PROVE  Outcome
  <1>1. Len(input) \in Nat BY InputsAssumption DEF TypeOK
  <1> QED BY <1>1 DEF TypeOK, Go, Stay, Outcome, Advanced, Lends, Cursor

\* The bytes that eat_message skips behind a head, and whether usize holds them.
Counted   == Code \in Str \cup BinLong \cup ExtLong
EatLength == IF Counted THEN Sum(Extra(Code), Length) ELSE Fixed(Code)
EatFits   == Extra(Code) + Length < Usize /\ Body + EatLength < Usize
Skipped   == IF Counted THEN Extra(Code) + Length ELSE Fixed(Code)

LEMMA EatFitsLemma ==
  ASSUME TypeOK, HasHead, Body <= Rem
  PROVE  /\ EatLength \in Nat /\ Skipped \in Nat
         /\ Extra(Code) + Length < Usize => EatLength = Skipped
         /\ SafeUsize /\ ~OverflowChecks => EatFits
  <1>1. /\ Code \in Byte /\ Body \in Nat /\ Body > index /\ Rem \in Nat
        /\ Length \in Nat /\ Length < MaxLength + 32
    BY CodeLemma, BodyLemma
  <1>2. Fixed(Code) \in 0..17 /\ Extra(Code) \in {0, 1} BY <1>1, FixedLemma
  <1>3. /\ EatLength \in Nat /\ Skipped \in Nat
        /\ Extra(Code) + Length < Usize => EatLength = Skipped
    <2>1. Extra(Code) + Length \in Nat BY <1>1, <1>2
    <2>2. /\ Sum(Extra(Code), Length) \in Nat
          /\ Extra(Code) + Length < Usize => Sum(Extra(Code), Length) = Extra(Code) + Length
      BY <2>1, UsizeAssumption, ModLemma DEF Sum
    <2>3. Fixed(Code) \in Nat BY <1>2
    <2> QED BY <2>1, <2>2, <2>3 DEF EatLength, Skipped
  <1>4. SafeUsize /\ ~OverflowChecks => EatFits
    <2> SUFFICES ASSUME SafeUsize, ~OverflowChecks PROVE EatFits OBVIOUS
    <2>1. Len(input) + MaxLength + 50 <= Usize BY DEF SafeUsize, WideUsize, TypeOK
    <2>2. MaxLength \in Nat BY RadixAssumption, MulNat DEF MaxLength
    <2>3. Len(input) \in Nat /\ Rem <= Len(input) BY InputsAssumption DEF TypeOK, Rem
    <2> DEFINE x == Extra(Code)
               l == Length
               b == Body
               i == Len(input)
               z == MaxLength
               e == Skipped
    <2>4. /\ x \in Nat /\ l \in Nat /\ b \in Nat /\ i \in Nat /\ z \in Nat /\ Usize \in Nat
          /\ x <= 1 /\ l < z + 32 /\ b <= i /\ i + z + 50 <= Usize
      BY <2>1, <2>2, <2>3, <1>1, <1>2, UsizeAssumption
    <2>5. e \in Nat /\ (e = x + l \/ e <= 17) BY <1>2, <1>3 DEF Skipped
    <2>6. x + l < Usize => EatLength = e BY <1>3
    <2> HIDE DEF x, l, b, i, z, e
    <2>7. x + l < Usize /\ b + e < Usize BY <2>4, <2>5
    <2> QED BY <2>6, <2>7 DEF EatFits, x, l, b
  <1> QED BY <1>3, <1>4

LEMMA EatBytesCases ==
  ASSUME EatBytes
  PROVE  \/ OverflowChecks /\ ~EatFits /\ Panic
         \/ /\ ~OverflowChecks \/ EatFits
            /\ Beyond(Sum(Body, EatLength)) /\ Fail("UnexpectedEof", Body)
         \/ /\ ~OverflowChecks \/ EatFits
            /\ ~Beyond(Sum(Body, EatLength)) /\ Stay(Sum(Body, EatLength)) /\ Go(Settle)
  BY DEF EatBytes, EatFits, EatLength, Counted

\* The cursor of eat_message does not wrap when usize is safe.
LEMMA EatBytesOutcome ==
  ASSUME TypeOK, pc = "busy", Own(Top) > 0, HasHead, Body <= Rem, EatBytes,
         UNCHANGED <<input, op, start>>
  PROVE  Outcome
  <1> DEFINE end == Sum(Body, EatLength)
  <1>1. Body \in Nat /\ Body > index /\ index \in Nat BY BodyLemma DEF TypeOK
  <1>2. EatLength \in Nat BY EatFitsLemma
  <1>3. end \in Nat /\ (Body + EatLength < Usize => end = Body + EatLength)
    BY <1>1, <1>2, UsizeAssumption, ModLemma DEF Sum
  <1> HIDE DEF end
  <1>4. CASE Panic
    <2>1. Len(input) \in Nat BY InputsAssumption DEF TypeOK
    <2> QED BY <1>4, <2>1 DEF TypeOK, Panic, Outcome, Broken, Cursor
  <1>5. CASE Fail("UnexpectedEof", Body) BY <1>5, <1>1, FailOutcome
  <1>6. CASE (~OverflowChecks \/ EatFits) /\ Stay(end) /\ Go(Settle)
    <2>1. SafeUsize => EatFits BY <1>6, EatFitsLemma
    <2>2. SafeUsize => end > index BY <2>1, <1>1, <1>2, <1>3 DEF EatFits
    <2> QED BY <1>3, <1>6, <2>2, SettleOutcome
  <1> QED BY <1>4, <1>5, <1>6, EatBytesCases DEF end

LEMMA EatMessageOutcome ==
  ASSUME TypeOK, EatMessage
  PROVE  Outcome
  <1>1. pc = "busy" /\ Own(Top) > 0 /\ EatHead /\ UNCHANGED <<input, op, start>> /\ index \in Nat
    BY DEF EatMessage, TypeOK
  <1>2. CASE Fail("UnexpectedEof", index) BY <1>1, <1>2, FailOutcome
  <1>3. CASE \E e : Fail(e, index + 1)
    <2>1. PICK e : Fail(e, index + 1) BY <1>3
    <2> QED BY <1>1, <2>1, FailOutcome
  <1>4. CASE /\ HasHead /\ Body <= Rem /\ Length < Usize
             /\ CASE Code \in Array -> Stay(Body) /\ Go(Announce("eat", Length))
                  [] Code \in Map   -> Stay(Body) /\ Go(Announce("eat", 2 * Length))
                  [] OTHER          -> EatBytes
    <2>1. Body \in Nat /\ Body > index /\ Length \in Nat /\ 2 * Length \in Nat
      BY <1>4, BodyLemma
    <2>2. "eat" \in Kinds \ {"value"} BY DEF Kinds
    <2>3. CASE Code \in Array
      <3>1. Stay(Body) /\ Go(Announce("eat", Length)) BY <1>4, <2>3 DEF Array, Map, FixArray, FixMap, FIXMAP, FIXARRAY, ARRAY_16, ARRAY_32, MAP_16, MAP_32
      <3> QED BY <1>1, <2>1, <2>2, <3>1, AnnounceOutcome
    <2>4. CASE Code \in Map /\ Code \notin Array
      <3>1. Stay(Body) /\ Go(Announce("eat", 2 * Length)) BY <1>4, <2>4
      <3> QED BY <1>1, <2>1, <2>2, <3>1, AnnounceOutcome
    <2>5. CASE Code \notin Map /\ Code \notin Array
      <3>1. EatBytes BY <1>4, <2>5
      <3> QED BY <1>1, <1>4, <3>1, EatBytesOutcome
    <2> QED BY <2>3, <2>4, <2>5
  <1>5. CASE HasHead /\ Fail("InvalidInteger", Body)
    <2>1. Body \in Nat /\ Body > index BY <1>5, BodyLemma
    <2> QED BY <1>1, <1>5, <2>1, FailOutcome
  <1> QED BY <1>1, <1>2, <1>3, <1>4, <1>5 DEF EatHead, WithLength

LEMMA ReadScalarOutcome ==
  ASSUME TypeOK, ReadScalar
  PROVE  Outcome
  <1> DEFINE end == Body + Fixed(Code)
  <1>1. /\ pc = "busy" /\ Own(Top) > 0 /\ HasHead /\ UNCHANGED <<input, op, start>>
        /\ index \in Nat
    BY DEF ReadScalar, Visiting, TypeOK
  <1>2. Code \in Byte /\ Body \in Nat /\ Body > index /\ Rem \in Nat
    BY <1>1, CodeLemma, BodyLemma
  <1>3. Fixed(Code) \in 0..17 BY <1>2, FixedLemma
  <1>4. end \in Nat /\ end > index BY <1>1, <1>2, <1>3
  <1>5. \/ Fail("UnexpectedEof", Body)
        \/ Stay(end) /\ Go(Settle)
        \/ Fail("InvalidInteger", end)
    BY DEF ReadScalar
  <1> HIDE DEF end
  <1>6. CASE Fail("UnexpectedEof", Body) BY <1>1, <1>2, <1>6, FailOutcome
  <1>7. CASE Stay(end) /\ Go(Settle) BY <1>1, <1>4, <1>7, SettleOutcome
  <1>8. CASE Fail("InvalidInteger", end) BY <1>1, <1>4, <1>8, FailOutcome
  <1> QED BY <1>5, <1>6, <1>7, <1>8

LEMMA SplitOutcome ==
  ASSUME TypeOK, pc = "busy", Own(Top) > 0, HasHead, Body <= Rem, Split(Length),
         UNCHANGED <<input, op, start>>
  PROVE  Outcome
  <1>1. /\ Body \in Nat /\ Body > index /\ Length \in Nat /\ index \in Nat
        /\ Len(input) \in Nat /\ Rem \in Nat /\ base \in 0..Len(input)
    BY CodeLemma, BodyLemma DEF TypeOK
  <1>2. CASE ~SplitFits(Length) /\ Fail("UnexpectedEof", Body) BY <1>1, <1>2, FailOutcome
  <1>3. CASE SplitFits(Length) /\ base' = base + Body + Length /\ index' = 0
    <2>1. /\ base' \in base..Len(input) /\ index' \in Nat /\ base' + index' > Cursor
          /\ base \in Nat /\ base' \in Nat
      BY <1>1, <1>3 DEF SplitFits, Rem, Cursor
    <2>2. CASE Go(Settle) /\ lent' = lent \cup {Lent(base + Body, Length)}
      <3>1. Lends
        <4> DEFINE lo == base + Body
                   hi == base + Body + Length
        <4>1. lo \in Nat /\ hi \in Nat /\ base <= lo /\ lo <= hi /\ hi <= base'
          BY <1>1, <1>3, <2>1
        <4>2. lent' = lent \cup {[lo |-> lo, hi |-> hi]} BY <2>2 DEF Lent
        <4> QED BY <4>1, <4>2 DEF Lends
      <3>2. base' \in base..Len(input) /\ index' \in Nat /\ base' + index' > Cursor
        BY <2>1
      <3>3. stack' = Settle /\ pc' = pc /\ err' = err BY <2>2 DEF Go
      <3> QED BY <3>1, <3>2, <3>3 DEF Outcome, Advanced
    <2>3. CASE pc' = "failed" /\ stack' = <<>> /\ lent' = lent
      <3>1. base' + index' \in Nat /\ Cursor \in Nat
        <4>1. base' \in Nat /\ index' \in Nat BY <2>1
        <4>2. base \in Nat /\ index \in Nat BY <1>1, <2>1
        <4>3. base' + index' \in Nat BY <4>1, SumNat
        <4>4. Cursor \in Nat BY <4>2 DEF Cursor
        <4> QED BY <4>3, <4>4
      <3>2. base' + index' > Cursor BY <2>1
      <3>3. base' + index' >= Cursor BY <3>1, <3>2
      <3>4. base' \in base..Len(input) /\ index' \in Nat BY <2>1
      <3> QED BY <2>3, <3>3, <3>4 DEF Outcome, Broken
    <2> QED BY <1>3, <2>2, <2>3 DEF Split
  <1> QED BY <1>2, <1>3 DEF Split

LEMMA ReadSliceOutcome ==
  ASSUME TypeOK, ReadSlice
  PROVE  Outcome
  <1>1. /\ pc = "busy" /\ Own(Top) > 0 /\ HasHead /\ UNCHANGED <<input, op, start>>
        /\ index \in Nat
    BY DEF ReadSlice, Visiting, TypeOK
  <1>2. Body \in Nat /\ Body > index BY <1>1, BodyLemma
  <1>3. CASE Fail("UnexpectedEof", index + 1) BY <1>1, <1>3, FailOutcome
  <1>4. CASE Fail("InvalidInteger", Body) BY <1>1, <1>2, <1>4, FailOutcome
  <1>5. CASE Body <= Rem /\ Split(Length) BY <1>1, <1>5, SplitOutcome
  <1> QED BY <1>3, <1>4, <1>5 DEF ReadSlice, WithLength

LEMMA ReadCompoundOutcome ==
  ASSUME TypeOK, ReadSeq \/ ReadMap
  PROVE  Outcome
  <1>1. /\ pc = "busy" /\ Own(Top) > 0 /\ HasHead /\ UNCHANGED <<input, op, start>>
        /\ index \in Nat
    BY DEF ReadSeq, ReadMap, Visiting, TypeOK
  <1>2. Body \in Nat /\ Body > index /\ (Body <= Rem => Length \in Nat) BY <1>1, BodyLemma
  <1>3. CASE Fail("UnexpectedEof", index + 1) BY <1>1, <1>3, FailOutcome
  <1>4. CASE Fail("InvalidInteger", Body) BY <1>1, <1>2, <1>4, FailOutcome
  <1>5. CASE \E k \in {"seq", "map"} : Body <= Rem /\ Stay(Body) /\ Go(Announce(k, Length))
    <2>1. PICK k \in {"seq", "map"} : Body <= Rem /\ Stay(Body) /\ Go(Announce(k, Length))
      BY <1>5
    <2>2. k \in Kinds \ {"value"} BY DEF Kinds
    <2> QED BY <1>1, <1>2, <2>1, <2>2, AnnounceOutcome
  <1> QED BY <1>3, <1>4, <1>5 DEF ReadSeq, ReadMap, WithLength

LEMMA ReadVariantOutcome ==
  ASSUME TypeOK, ReadVariant
  PROVE  Outcome
  <1>1. /\ pc = "busy" /\ Own(Top) > 0 /\ UNCHANGED <<input, op, start>> /\ index \in Nat
        /\ Stay(index + 1) /\ Go(Announce("enum", 2))
    BY DEF ReadVariant, Visiting, TypeOK
  <1>2. "enum" \in Kinds \ {"value"} /\ index + 1 \in Nat /\ index + 1 > index
    BY <1>1 DEF Kinds
  <1> QED BY <1>1, <1>2, AnnounceOutcome

LEMMA RefuseOutcome ==
  ASSUME TypeOK, Refuse \/ GiveUp
  PROVE  Outcome
  <1>1. pc = "busy" /\ UNCHANGED <<input, op, start>> /\ index \in Nat
    BY DEF Refuse, GiveUp, Visiting, TypeOK
  <1>2. \E e : Fail(e, index) \/ Fail(e, index + 1) BY DEF Refuse, GiveUp
  <1>3. PICK e : Fail(e, index) \/ Fail(e, index + 1) BY <1>2
  <1> QED BY <1>1, <1>3, FailOutcome

-----------------------------------------------------------------------------
(* The steps between calls, and the return of a call. *)

Popped ==
  /\ pc = "busy" /\ Own(Top) = 0
  /\ stack' = Under /\ pc' = IF Under = <<>> THEN "ok" ELSE pc
  /\ UNCHANGED <<input, base, index, op, start, lent>>

LEMMA ReturnOutcome ==
  ASSUME TypeOK, Return
  PROVE  Outcome \/ Popped
  <1>1. stack \in Seq(Frames) /\ stack /= <<>> BY DEF Return, TypeOK
  <1>2. Top \in Frames BY <1>1, UnderLemma DEF Top
  <1>3. CASE Trailing(Top)
    <2>1. /\ Fail("TrailingElements", index) /\ pc = "busy" /\ UNCHANGED <<input, op, start>>
          /\ index \in Nat
      BY <1>3 DEF Return, TypeOK
    <2> QED BY <2>1, FailOutcome
  <1>4. CASE ~Trailing(Top)
    <2>1. Own(Top) = 0
      BY <1>2, <1>4 DEF Return, Done, Trailing, Own, Frames
    <2> QED BY <1>4, <2>1 DEF Return, Popped
  <1> QED BY <1>3, <1>4

\* The frame that returns owes nothing, so the others owe as much as before.
LEMMA PoppedLemma ==
  ASSUME IInv, Popped
  PROVE  IInv' /\ Owed(stack') = Owed(stack) /\ (Under = <<>> => Owed(stack) = 0)
  <1>1. stack \in Seq(Frames) /\ stack /= <<>> BY DEF Popped, IInv, TypeOK
  <1>2. /\ Under \in Seq(Frames) /\ Len(Under) = Len(stack) - 1
        /\ Len(stack) \in Nat /\ Len(stack) > 0 /\ Top \in Frames
        /\ \A i \in 1..(Len(stack) - 1) : Under[i] = stack[i]
    BY <1>1, UnderLemma DEF Under, Top
  <1>3. Linked(Under)
    <2> SUFFICES ASSUME NEW i \in 1..(Len(stack) - 1)
                 PROVE Under[i].below = IF i = 1 THEN 0 ELSE Under[i - 1].below + Own(Under[i - 1])
      BY <1>2 DEF Linked
    <2>1. stack[i].below = IF i = 1 THEN 0 ELSE stack[i - 1].below + Own(stack[i - 1])
      BY <1>2 DEF IInv, Linked
    <2>2. Under[i] = stack[i] /\ (i /= 1 => Under[i - 1] = stack[i - 1]) BY <1>2
    <2> QED BY <2>1, <2>2
  <1>4. Owed(stack) = Top.below /\ Top.below \in Nat
    BY <1>1, <1>2 DEF Owed, Top, Popped, Frames
  <1>5. Top.below = IF Len(stack) = 1 THEN 0
                    ELSE stack[Len(stack) - 1].below + Own(stack[Len(stack) - 1])
    BY <1>2 DEF IInv, Linked, Top
  <1>6. Owed(Under) = Top.below
    <2>1. CASE Len(stack) = 1
      <3>1. Under = <<>> BY <1>2, <2>1
      <3> QED BY <3>1, <2>1, <1>5 DEF Owed
    <2>2. CASE Len(stack) /= 1
      <3>1. Under /= <<>> /\ Under[Len(Under)] = stack[Len(stack) - 1] BY <1>2, <2>2
      <3> QED BY <3>1, <2>2, <1>5 DEF Owed
    <2> QED BY <2>1, <2>2
  <1>7. IInv'
    <2>1. TypeOK' BY <1>2 DEF IInv, TypeOK, Popped
    <2>2. Linked(stack)' BY <1>3 DEF Popped, Linked
    <2>3. LentApart' BY DEF IInv, LentApart, Popped
    <2> QED BY <2>1, <2>2, <2>3 DEF IInv
  <1>8. Under = <<>> => Owed(stack) = 0 BY <1>4, <1>6 DEF Owed
  <1> QED BY <1>4, <1>6, <1>7, <1>8 DEF Popped

LEMMA BeginLemma ==
  ASSUME IInv, NEW o \in {"eat_message", "deserialize"}, NEW k \in {"eat", "one"}, Begin(o, k)
  PROVE  IInv' /\ Owed(stack') = 1
  <1> DEFINE f == Frame(k, 1, 0)
  <1>1. f \in Frames /\ Own(f) = 1 /\ f.below = 0 BY DEF Frame, Frames, Kinds, Own
  <1>2. stack' = <<f>> BY DEF Begin
  <1> HIDE DEF f
  <1>3. /\ stack' \in Seq(Frames) /\ stack' /= <<>> /\ Len(stack') = 1 /\ stack'[1] = f
    BY <1>1, <1>2
  <1>4. TypeOK' BY <1>3, InputsAssumption DEF IInv, TypeOK, Begin, Cursor
  <1>5. Linked(stack)' BY <1>1, <1>3 DEF Linked
  <1>6. LentApart' BY DEF IInv, LentApart, Begin
  <1> QED BY <1>1, <1>3, <1>4, <1>5, <1>6 DEF IInv, Owed

LEMMA EatSomeLemma ==
  ASSUME IInv, EatSome
  PROVE  IInv' /\ Cursor' >= Cursor
  <1>1. PICK n \in Jumps : index' = index + n BY DEF EatSome
  <1>2. n \in Nat BY JumpsAssumption
  <1>3. TypeOK' BY <1>1, <1>2 DEF IInv, TypeOK, EatSome
  <1>4. Linked(stack)' BY DEF IInv, Linked, EatSome
  <1>5. LentApart' BY DEF IInv, LentApart, EatSome
  <1>6. Len(input) \in Nat BY InputsAssumption DEF IInv, TypeOK
  <1> QED BY <1>1, <1>2, <1>3, <1>4, <1>5, <1>6 DEF IInv, Cursor, EatSome, TypeOK

\* Every step of the specification, by its effect.
LEMMA StepLemma ==
  ASSUME IInv, [Next]_vars
  PROVE  \/ Outcome \/ Popped \/ EatSome \/ UNCHANGED vars
         \/ \E o \in {"eat_message", "deserialize"}, k \in {"eat", "one"} : Begin(o, k)
  <1>0. TypeOK BY DEF IInv
  <1>1. CASE BeginEatMessage BY <1>1 DEF BeginEatMessage
  <1>2. CASE BeginDeserialize BY <1>2 DEF BeginDeserialize
  <1>3. CASE EatMessage BY <1>0, <1>3, EatMessageOutcome
  <1>4. CASE ReadScalar BY <1>0, <1>4, ReadScalarOutcome
  <1>5. CASE ReadSlice BY <1>0, <1>5, ReadSliceOutcome
  <1>6. CASE ReadSeq \/ ReadMap BY <1>0, <1>6, ReadCompoundOutcome
  <1>7. CASE ReadVariant BY <1>0, <1>7, ReadVariantOutcome
  <1>8. CASE Refuse \/ GiveUp BY <1>0, <1>8, RefuseOutcome
  <1>9. CASE Return BY <1>0, <1>9, ReturnOutcome
  <1> QED BY <1>1, <1>2, <1>3, <1>4, <1>5, <1>6, <1>7, <1>8, <1>9 DEF Next

-----------------------------------------------------------------------------
(* Theorems *)

\* The counts kept by nested frames are linked, the types hold and the lent
\* slices lie apart: inductive for every input, radix and width of usize.
THEOREM Inductive == Spec => []IInv
  <1>1. Init => IInv
    <2> SUFFICES ASSUME Init PROVE IInv OBVIOUS
    <2>1. Len(input) \in Nat BY InputsAssumption DEF Init
    <2>2. TypeOK BY <2>1 DEF Init, TypeOK
    <2>3. Linked(stack) BY DEF Init, Linked
    <2>4. LentApart BY DEF Init, LentApart
    <2> QED BY <2>2, <2>3, <2>4 DEF IInv
  <1>2. IInv /\ [Next]_vars => IInv'
    <2> SUFFICES ASSUME IInv, [Next]_vars PROVE IInv' OBVIOUS
    <2>1. CASE UNCHANGED vars BY <2>1 DEF vars, IInv, TypeOK, Linked, LentApart
    <2> QED BY <2>1, StepLemma, OutcomeInv, PoppedLemma, EatSomeLemma, BeginLemma
  <1> QED BY <1>1, <1>2, PTL DEF Spec

\* The deserializer's state keeps its types: the slice never begins after the
\* input ends, and calls in progress are exactly the frames of the stack.
THEOREM TypeCorrect == Spec => []TypeOK
  <1>1. IInv => TypeOK BY DEF IInv
  <1> QED BY <1>1, Inductive, PTL

\* Slices lent with the lifetime of the input never share a byte: also when
\* usize wraps, whatever visitors ask for and however calls end.
THEOREM SlicesApart == Spec => []LentApart
  <1>1. IInv => LentApart BY DEF IInv
  <1> QED BY <1>1, Inductive, PTL

\* A step that breaks off or advances moves the cursor forward, so no byte is
\* read twice, when usize is safe.
THEOREM NothingReadTwice == ASSUME SafeUsize PROVE Spec => CursorGrows
  <1>1. IInv /\ [Next]_vars => [Cursor' >= Cursor]_vars
    <2> SUFFICES ASSUME IInv, [Next]_vars PROVE Cursor' >= Cursor \/ UNCHANGED vars OBVIOUS
    <2>0. Cursor \in Int BY InputsAssumption DEF IInv, TypeOK, Cursor
    <2>1. CASE Outcome
      <3>1. base' + index' >= Cursor BY <2>0, <2>1, InputsAssumption DEF Outcome, Broken, Advanced, IInv, TypeOK
      <3> QED BY <3>1 DEF Cursor
    <2>2. CASE Popped BY <2>0, <2>2 DEF Popped, Cursor
    <2>3. CASE EatSome BY <2>3, EatSomeLemma
    <2>4. ASSUME NEW o, NEW k, Begin(o, k) PROVE Cursor' >= Cursor
      BY <2>0, <2>4 DEF Begin, Cursor
    <2> QED BY <2>1, <2>2, <2>3, <2>4, StepLemma
  <1> QED BY <1>1, Inductive, PTL DEF Spec, CursorGrows

\* The deserializer implements the flat stream: its nested loops and accesses
\* return Ok exactly when no message is owed any more, when usize is safe.
THEOREM Refinement == ASSUME SafeUsize PROVE Spec => ReadsStream
  <1>1. Init => Stream!Init
    BY DEF Init, Stream!Init, Cursor, Owed, Status
  <1>2. IInv /\ [Next]_vars => [Stream!Next]_(Stream!svars)
    <2> SUFFICES ASSUME IInv, [Next]_vars PROVE Stream!Next \/ UNCHANGED Stream!svars OBVIOUS
    <2>0. /\ IInv' /\ Cursor \in Nat /\ Cursor' \in Nat
          /\ pc /= "busy" => stack = <<>> /\ Owed(stack) = 0
      <3>1. IInv'
        <4>1. CASE UNCHANGED vars BY <4>1 DEF vars, IInv, TypeOK, Linked, LentApart
        <4> QED BY <4>1, StepLemma, OutcomeInv, PoppedLemma, EatSomeLemma, BeginLemma
      <3>2. Cursor \in Nat BY InputsAssumption DEF IInv, TypeOK, Cursor
      <3>3. Cursor' \in Nat
        <4>1. input' \in Seq(Byte) /\ base' \in 0..Len(input)' /\ index' \in Nat
          BY <3>1, InputsAssumption DEF IInv, TypeOK
        <4>2. Len(input)' \in Nat BY <4>1
        <4>3. base' \in Nat BY <4>1, <4>2
        <4>4. base' + index' \in Nat BY <4>1, <4>3, SumNat
        <4> QED BY <4>4 DEF Cursor
      <3>4. pc /= "busy" => stack = <<>> /\ Owed(stack) = 0 BY DEF IInv, TypeOK, Owed
      <3> QED BY <3>1, <3>2, <3>3, <3>4
    <2>1. CASE Broken
      <3>1. Cursor' >= Cursor BY <2>1 DEF Broken, Cursor
      <3>2. Owed(stack)' = 0 BY <2>1 DEF Broken, Owed
      <3>3. Status = "busy" /\ Status' = "broken" BY <2>1 DEF Broken, Status
      <3> QED BY <2>0, <3>1, <3>2, <3>3 DEF Stream!Next, Stream!Break
    <2>2. CASE Advanced
      <3>1. Cursor' > Cursor BY <2>2 DEF Advanced, Cursor
      <3>2. Owed(stack) > 0 /\ Owed(stack)' \in Nat /\ Owed(stack)' >= Owed(stack) - 1
        BY <2>2, StackLemma DEF Advanced, IInv
      <3>3. Status = "busy" /\ Status' = "busy" BY <2>2 DEF Advanced, Status
      <3> QED BY <2>0, <3>1, <3>2, <3>3 DEF Stream!Next, Stream!Head
    <2>3. CASE Popped
      <3>1. Cursor' = Cursor /\ Owed(stack)' = Owed(stack) /\ Status = "busy"
        BY <2>3, PoppedLemma DEF Popped, Cursor, Status
      <3>2. CASE Under = <<>>
        <4>1. Status' = "complete" /\ Owed(stack) = 0
          BY <2>3, <3>2, PoppedLemma DEF Popped, Status
        <4> QED BY <3>1, <4>1 DEF Stream!Next, Stream!Complete
      <3>3. CASE Under /= <<>>
        <4>1. Status' = "busy" BY <2>3, <3>3 DEF Popped, Status
        <4> QED BY <3>1, <4>1 DEF Stream!svars
      <3> QED BY <3>2, <3>3
    <2>4. CASE EatSome
      <3>1. Cursor' >= Cursor BY <2>4, EatSomeLemma
      <3>2. Owed(stack)' = Owed(stack) BY <2>4 DEF EatSome
      <3>3. Status /= "busy" /\ Status' = "rest" BY <2>4 DEF EatSome, Status
      <3> QED BY <2>0, <3>1, <3>2, <3>3 DEF Stream!Next, Stream!Skip
    <2>5. ASSUME NEW o \in {"eat_message", "deserialize"}, NEW k \in {"eat", "one"}, Begin(o, k)
          PROVE Stream!Next
      <3>1. Owed(stack)' = 1 BY <2>5, BeginLemma
      <3>2. Cursor' = Cursor BY <2>5 DEF Begin, Cursor
      <3>3. Status /= "busy" /\ Status' = "busy" BY <2>5 DEF Begin, Status
      <3> QED BY <3>1, <3>2, <3>3 DEF Stream!Next, Stream!Begin
    <2>6. CASE UNCHANGED vars
      BY <2>6 DEF vars, Stream!svars, Cursor, Status
    <2> QED BY <2>1, <2>2, <2>3, <2>4, <2>5, <2>6, StepLemma DEF Outcome
  <1> QED BY <1>1, <1>2, Inductive, PTL DEF Spec, ReadsStream, Stream!Spec

-----------------------------------------------------------------------------
(* The head at the cursor is the head of the format *)

\* Powers of the radix, or Horner's rule.
LEMMA Polynomial ==
  \A r, a, b, c, d \in Nat :
    r * (r * (r * a + b) + c) + d = r * r * r * a + r * r * b + r * c + d
  OBVIOUS

LEMMA FieldIsNumber ==
  ASSUME TypeOK, NEW p \in Nat, NEW k \in {1, 2, 4}, p + k <= Len(input)
  PROVE  Field(Radix, input, p, k) = Number(p, k)
  <1>0. Len(input) \in Nat BY InputsAssumption DEF TypeOK
  <1>1. CASE k = 1 BY <1>1 DEF Field, Number, Digit
  <1>2. CASE k = 2
    <2>1. p + 1 + 1 = p + 2 OBVIOUS
    <2> QED BY <1>2, <2>1 DEF Field, Number, Digit
  <1>3. CASE k = 4
    <2>1. p + 1 + 1 = p + 2 /\ p + 2 + 1 = p + 3 /\ p + 3 + 1 = p + 4 OBVIOUS
    <2> DEFINE a == Digit(p)
               b == Digit(p + 1)
               c == Digit(p + 2)
               d == Digit(p + 3)
    <2>2. a \in Nat /\ b \in Nat /\ c \in Nat /\ d \in Nat /\ Radix \in Nat
      BY <1>0, <1>3, DigitLemma, RadixAssumption
    <2>3. Number(p, k) = Radix * (Radix * (Radix * a + b) + c) + d BY <1>3 DEF Number
    <2>4. /\ a = input[p + 1] % Radix /\ b = input[p + 2] % Radix
          /\ c = input[p + 3] % Radix /\ d = input[p + 4] % Radix
      BY <2>1 DEF Digit
    <2>5. Field(Radix, input, p, k) = Radix * Radix * Radix * a + Radix * Radix * b + Radix * c + d
      BY <1>3, <2>4 DEF Field
    <2> HIDE DEF a, b, c, d
    <2> QED BY <2>2, <2>3, <2>5, Polynomial
  <1> QED BY <1>1, <1>2, <1>3

\* The kinds of codes, their lengths and their sizes.
LEMMA ShortCodes ==
  /\ \A c \in FixArray : /\ c /= RESERVED /\ c \in Array /\ c \notin Map
                         /\ Digits(c) = 0 /\ Short(c) = c - 144
  /\ \A c \in FixMap :   /\ c /= RESERVED /\ c \in Map /\ c \notin Array \cup FixArray
                         /\ Digits(c) = 0 /\ Short(c) = c - 128
  /\ \A c \in FixStr :   /\ c /= RESERVED /\ c \notin Map \cup Array \cup Long \cup Many
                         /\ c \notin FixMap \cup FixArray /\ c \in Str
                         /\ Digits(c) = 0 /\ Short(c) = c - 160 /\ Extra(c) = 0
                         /\ SizeOf(c) = 1 + Short(c)
  <1>1. \A c \in FixArray : /\ c /= RESERVED /\ c \in Array /\ c \notin Map
                            /\ Digits(c) = 0 /\ Short(c) = c - 144
    BY DEF FixArray, FixMap, FixStr, Array, Map, FIXARRAY, FIXMAP, FIXSTR, RESERVED, Digits, Short,
       BIN_8, STR_8, BIN_16, STR_16, BIN_32, STR_32, EXT_8, EXT_16, EXT_32,
       ARRAY_16, MAP_16, ARRAY_32, MAP_32
  <1>2. \A c \in FixMap : /\ c /= RESERVED /\ c \in Map /\ c \notin Array \cup FixArray
                          /\ Digits(c) = 0 /\ Short(c) = c - 128
    BY DEF FixArray, FixMap, FixStr, Array, Map, FIXARRAY, FIXMAP, FIXSTR, RESERVED, Digits, Short,
       BIN_8, STR_8, BIN_16, STR_16, BIN_32, STR_32, EXT_8, EXT_16, EXT_32,
       ARRAY_16, MAP_16, ARRAY_32, MAP_32
  <1>3. \A c \in FixStr : /\ c /= RESERVED /\ c \notin Map \cup Array \cup Long \cup Many
                          /\ c \notin FixMap \cup FixArray /\ c \in Str
                          /\ Digits(c) = 0 /\ Short(c) = c - 160 /\ Extra(c) = 0
    BY DEF FixArray, FixMap, FixStr, Array, Map, FIXARRAY, FIXMAP, FIXSTR, RESERVED, Digits, Short,
       Str, Long, Many, ExtLong, Extra,
       BIN_8, STR_8, BIN_16, STR_16, BIN_32, STR_32, EXT_8, EXT_16, EXT_32,
       ARRAY_16, MAP_16, ARRAY_32, MAP_32
  <1>4. \A c \in FixStr : SizeOf(c) = 1 + (c - 160)
    BY DEF SizeOf, FixStr, FIXSTR, UINT_8, INT_8, UINT_16, INT_16, UINT_32, INT_32, FLOAT_32,
       UINT_64, INT_64, FLOAT_64, FIXEXT_1, FIXEXT_2, FIXEXT_4, FIXEXT_8, FIXEXT_16
  <1> QED BY <1>1, <1>2, <1>3, <1>4

LEMMA LongCodes ==
  /\ \A c \in Long : /\ c \in Str \cup BinLong \cup ExtLong /\ c \notin Array \cup Map
                     /\ HeadOf(c) = <<1 + Digits(c), Digits(c), Extra(c)>>
  /\ \A c \in Many : /\ c \in Array \cup Map
                     /\ c \in Map <=> c \in {MAP_16, MAP_32}
                     /\ c \in Array <=> c \notin {MAP_16, MAP_32}
                     /\ HeadOf(c) = <<1 + Digits(c), Digits(c), 0>>
  /\ \A c \in Long \cup Many :
       c /= RESERVED /\ c \notin FixArray \cup FixMap /\ Digits(c) \in {1, 2, 4}
  <1>1. \A c \in Long : /\ c \in Str \cup BinLong \cup ExtLong /\ c \notin Array \cup Map
                        /\ HeadOf(c) = <<1 + Digits(c), Digits(c), Extra(c)>>
    BY DEF Long, Str, BinLong, ExtLong, Array, Map, FixArray, FixMap, FIXARRAY, FIXMAP,
       HeadOf, Digits, Extra,
       BIN_8, STR_8, BIN_16, STR_16, BIN_32, STR_32, EXT_8, EXT_16, EXT_32,
       ARRAY_16, MAP_16, ARRAY_32, MAP_32
  <1>2. \A c \in Many : /\ c \in Array \cup Map
                        /\ c \in Map <=> c \in {MAP_16, MAP_32}
                        /\ c \in Array <=> c \notin {MAP_16, MAP_32}
                        /\ HeadOf(c) = <<1 + Digits(c), Digits(c), 0>>
    BY DEF Many, Array, Map, FixArray, FixMap, FIXARRAY, FIXMAP, HeadOf, Digits,
       BIN_8, STR_8, BIN_16, STR_16, BIN_32, STR_32, EXT_8, EXT_16, EXT_32,
       ARRAY_16, MAP_16, ARRAY_32, MAP_32
  <1>3. \A c \in Long \cup Many :
          c /= RESERVED /\ c \notin FixArray \cup FixMap /\ Digits(c) \in {1, 2, 4}
    BY DEF Long, Many, FixArray, FixMap, FIXARRAY, FIXMAP, RESERVED, Digits,
       BIN_8, STR_8, BIN_16, STR_16, BIN_32, STR_32, EXT_8, EXT_16, EXT_32,
       ARRAY_16, MAP_16, ARRAY_32, MAP_32
  <1> QED BY <1>1, <1>2, <1>3

\* Codes whose size is fixed.
LEMMA FixedCodes ==
  ASSUME NEW c \in Byte,
         c \notin FixArray, c \notin FixMap, c \notin FixStr, c \notin Long, c \notin Many
  PROVE  /\ c \notin Array \cup Map /\ c \notin Str \cup BinLong \cup ExtLong
         /\ Digits(c) = 0 /\ SizeOf(c) = 1 + Fixed(c)
  <1>1. c \notin Array \cup Map /\ c \notin Str \cup BinLong \cup ExtLong
    BY DEF Array, Map, Str, BinLong, ExtLong, Long, Many
  <1>2. Digits(c) = 0 BY DEF Digits, Long, Many
  <1>3. SizeOf(c) = 1 + Fixed(c)
    BY DEF SizeOf, Fixed, Byte, UINT_8, INT_8, UINT_16, INT_16, UINT_32, INT_32, FLOAT_32,
       UINT_64, INT_64, FLOAT_64, FIXEXT_1, FIXEXT_2, FIXEXT_4, FIXEXT_8, FIXEXT_16
  <1> QED BY <1>1, <1>2, <1>3

\* The head at the cursor according to the format.
Ahead == Lead(Radix, input, Cursor)

LEMMA NoHeadLemma ==
  ASSUME TypeOK
  PROVE  /\ ~HasHead => Ahead = NoHead(Truncated)
         /\ HasHead /\ Code = RESERVED => Ahead = NoHead(Reserved)
  <1>1. Len(input) \in Nat BY InputsAssumption DEF TypeOK
  <1>2. HasHead <=> ~(Cursor >= Len(input)) BY <1>1 DEF TypeOK, HasHead, Rem, Cursor
  <1>3. ASSUME ~HasHead PROVE Ahead = NoHead(Truncated) BY <1>2, <1>3 DEF Ahead, Lead
  <1>4. ASSUME HasHead, Code = RESERVED PROVE Ahead = NoHead(Reserved)
    BY <1>2, <1>4 DEF Ahead, Lead, Code
  <1> QED BY <1>3, <1>4

\* What the length that goes with the code at the cursor is for the format.
LEMMA LengthRight ==
  ASSUME TypeOK, HasHead, Body <= Rem, Code \in Long \cup Many
  PROVE  Field(Radix, input, Cursor + 1, Digits(Code)) = Length
  <1>1. /\ Code \in Byte /\ Cursor \in Nat /\ Rem \in Nat /\ Len(input) \in Nat
        /\ base \in 0..Len(input) /\ index \in Nat
    BY CodeLemma DEF TypeOK
  <1>2. Digits(Code) \in {1, 2, 4} BY LongCodes
  <1>3. Cursor + 1 \in Nat /\ Cursor + 1 + Digits(Code) <= Len(input)
    BY <1>1, <1>2 DEF Body, Rem, Cursor
  <1>4. Length = Number(Cursor + 1, Digits(Code)) BY <1>2 DEF Length, LengthAt, Code
  <1> QED BY <1>2, <1>3, <1>4, FieldIsNumber

LEMMA LongAhead ==
  ASSUME TypeOK, HasHead, Code \in Long \cup Many
  PROVE  /\ Body > Rem => Ahead = NoHead(Truncated)
         /\ Body <= Rem /\ Code \in Long =>
              Ahead = Takes(input, base + Body + Extra(Code) + Length, 0)
         /\ Body <= Rem /\ Code \in Many =>
              Ahead = Takes(input, base + Body, IF Code \in Map THEN 2 * Length ELSE Length)
  <1> DEFINE c == Code
             d == Digits(c)
             x == Extra(c)
  <1>1. /\ c \in Byte /\ Cursor \in Nat /\ Rem \in Nat /\ Len(input) \in Nat
        /\ base \in 0..Len(input) /\ index \in Nat
    BY CodeLemma DEF TypeOK
  <1>2. /\ c /= RESERVED /\ c \notin FixArray /\ c \notin FixMap /\ d \in {1, 2, 4}
        /\ x \in {0, 1}
    BY <1>1, LongCodes, FixedLemma
  <1>3. ~(Cursor >= Len(input)) BY <1>1 DEF HasHead, Rem, Cursor
  <1>4. Ahead = LongHead(Radix, input, Cursor, c)
    <2>1. c = input[Cursor + 1] BY DEF Code
    <2> HIDE DEF c
    <2> QED BY <2>1, <1>2, <1>3 DEF Ahead, Lead, c
  <1>5. HeadOf(c)[1] = 1 + d /\ HeadOf(c)[2] = d /\ (c \in Long => HeadOf(c)[3] = x)
    BY LongCodes
  <1>6. Body = index + 1 + d BY DEF Body
  <1> DEFINE n == Field(Radix, input, Cursor + 1, d)
  <1>7. LongHead(Radix, input, Cursor, c) =
          IF Cursor + (1 + d) > Len(input) THEN NoHead(Truncated)
          ELSE IF c \in Long THEN Takes(input, Cursor + (1 + d) + x + n, 0)
          ELSE Takes(input, Cursor + (1 + d), IF c \in {MAP_16, MAP_32} THEN 2 * n ELSE n)
    <2> HIDE DEF c, d, x
    <2> QED BY <1>5 DEF LongHead
  <1>8. Cursor + (1 + d) = base + Body /\ (Cursor + (1 + d) > Len(input) <=> Body > Rem)
    BY <1>1, <1>2, <1>6 DEF Cursor, Rem
  <1>9. Body <= Rem => n = Length BY LengthRight
  <1>10. c \in Many => (c \in Map <=> c \in {MAP_16, MAP_32}) BY LongCodes
  <1>11. c \in Long => c \notin Many BY LongCodes
  <1>12. Body \in Int BY <1>1, <1>2, <1>6
  <1> HIDE DEF c, d, x, n
  <1>13. Body > Rem => Ahead = NoHead(Truncated) BY <1>4, <1>7, <1>8
  <1>14. ASSUME Body <= Rem, c \in Long
         PROVE  Ahead = Takes(input, base + Body + x + Length, 0)
    BY <1>1, <1>4, <1>7, <1>8, <1>9, <1>12, <1>14
  <1>15. ASSUME Body <= Rem, c \in Many
         PROVE  Ahead = Takes(input, base + Body, IF c \in Map THEN 2 * Length ELSE Length)
    BY <1>1, <1>4, <1>7, <1>8, <1>9, <1>10, <1>11, <1>12, <1>15
  <1> QED BY <1>13, <1>14, <1>15 DEF c, x

\* Whatever the code: where its head ends, what it announces, what it counts.
LEMMA AheadLemma ==
  ASSUME TypeOK, HasHead, Code /= RESERVED
  PROVE  /\ Body > Rem => Ahead = NoHead(Truncated)
         /\ Body <= Rem /\ Code \in Array => Ahead = Takes(input, base + Body, Length)
         /\ Body <= Rem /\ Code \in Map   => Ahead = Takes(input, base + Body, 2 * Length)
         /\ Body <= Rem /\ Code \in Str \cup BinLong \cup ExtLong =>
              Ahead = Takes(input, base + Body + Extra(Code) + Length, 0)
         /\ Body <= Rem /\ Code \notin Array \cup Map \cup Str \cup BinLong \cup ExtLong =>
              Ahead = Takes(input, base + Body + Fixed(Code), 0)
  <1> DEFINE c == Code
  <1>1. /\ c \in Byte /\ Cursor \in Nat /\ Rem \in Nat /\ Len(input) \in Nat
        /\ base \in 0..Len(input) /\ index \in Nat
    BY CodeLemma DEF TypeOK
  <1>2. ~(Cursor >= Len(input)) /\ index + 1 <= Rem BY <1>1 DEF HasHead, Rem, Cursor
  <1>3. Ahead = IF c \in FixArray THEN Takes(input, Cursor + 1, c - 144)
                ELSE IF c \in FixMap THEN Takes(input, Cursor + 1, 2 * (c - 128))
                ELSE IF c \in Long \cup Many THEN LongHead(Radix, input, Cursor, c)
                ELSE Takes(input, Cursor + SizeOf(c), 0)
    <2>1. c = input[Cursor + 1] BY DEF Code
    <2>2. c /= RESERVED OBVIOUS
    <2> HIDE DEF c
    <2> QED BY <2>1, <2>2, <1>2 DEF Ahead, Lead
  <1>4. ASSUME Digits(c) = 0
        PROVE  Length = Short(c) /\ Body <= Rem /\ ~(Body > Rem) /\ base + Body = Cursor + 1
    <2>1. Body = index + 1 BY <1>4, <1>1 DEF Body
    <2>2. Length = Short(c) BY <1>4 DEF Length, LengthAt, Code
    <2> QED BY <1>1, <1>2, <2>1, <2>2 DEF Cursor
  <1>5. CASE c \in FixArray
    <2>1. c \in Array /\ c \notin Map /\ Digits(c) = 0 /\ Short(c) = c - 144 BY <1>5, ShortCodes
    <2>2. c \notin Str \cup BinLong \cup ExtLong
      BY <1>5 DEF FixArray, Str, BinLong, ExtLong, FixStr, FIXARRAY, FIXSTR, STR_8, STR_16, STR_32,
                  BIN_8, BIN_16, BIN_32, EXT_8, EXT_16, EXT_32
    <2> HIDE DEF c
    <2>3. Ahead = Takes(input, base + Body, Length) BY <1>3, <1>4, <1>5, <2>1
    <2> QED BY <1>4, <2>1, <2>2, <2>3 DEF c
  <1>6. CASE c \in FixMap
    <2>1. /\ c \in Map /\ c \notin Array /\ c \notin FixArray /\ Digits(c) = 0
          /\ Short(c) = c - 128
      BY <1>6, ShortCodes
    <2>2. c \notin Str \cup BinLong \cup ExtLong
      BY <1>6 DEF FixMap, Str, BinLong, ExtLong, FixStr, FIXMAP, FIXSTR, STR_8, STR_16, STR_32,
                  BIN_8, BIN_16, BIN_32, EXT_8, EXT_16, EXT_32
    <2> HIDE DEF c
    <2>3. Ahead = Takes(input, base + Body, 2 * Length) BY <1>3, <1>4, <1>6, <2>1
    <2> QED BY <1>4, <2>1, <2>2, <2>3 DEF c
  <1>7. CASE c \in FixStr
    <2>1. /\ c \notin FixArray /\ c \notin FixMap /\ c \notin Long \cup Many
          /\ c \notin Array /\ c \notin Map /\ c \in Str /\ Digits(c) = 0
          /\ SizeOf(c) = 1 + Short(c) /\ Extra(c) = 0 /\ Short(c) \in 0..31
      BY <1>1, <1>7, ShortCodes, ShortLemma
    <2> HIDE DEF c
    <2>2. Ahead = Takes(input, Cursor + SizeOf(c), 0) BY <1>3, <2>1
    <2>3. Cursor + SizeOf(c) = base + Body + Extra(c) + Length
      <3>1. base + Body = Cursor + 1 /\ Length = Short(c) BY <1>4, <2>1
      <3>2. \A z \in Nat : Cursor + (1 + z) = Cursor + 1 + 0 + z BY <1>1
      <3>3. Short(c) \in Nat BY <2>1
      <3>4. Cursor + (1 + Short(c)) = Cursor + 1 + 0 + Short(c) BY <3>2, <3>3
      <3> QED BY <2>1, <3>1, <3>4, Zenon
    <2>4. Ahead = Takes(input, base + Body + Extra(c) + Length, 0) BY <2>2, <2>3
    <2> QED BY <1>4, <2>1, <2>4 DEF c
  <1>8. CASE c \in Long
    <2>1. c \notin Array \cup Map /\ c \in Str \cup BinLong \cup ExtLong BY <1>8, LongCodes
    <2> QED BY <1>8, <2>1, LongAhead
  <1>9. CASE c \in Many
    <2>1. c \in Map => c \notin Array BY <1>9, LongCodes
    <2>2. c \in Array \cup Map BY <1>9, LongCodes
    <2>3. c \notin Str \cup BinLong \cup ExtLong
      BY <1>9 DEF Many, Str, BinLong, ExtLong, FixStr, FIXSTR, STR_8, STR_16, STR_32,
                  BIN_8, BIN_16, BIN_32, EXT_8, EXT_16, EXT_32, ARRAY_16, MAP_16, ARRAY_32, MAP_32
    <2> QED BY <1>9, <2>1, <2>2, <2>3, LongAhead
  <1>10. CASE c \notin FixArray /\ c \notin FixMap /\ c \notin FixStr /\ c \notin Long /\ c \notin Many
    <2>1. /\ c \notin Array \cup Map /\ c \notin Str \cup BinLong \cup ExtLong
          /\ Digits(c) = 0 /\ SizeOf(c) = 1 + Fixed(c) /\ Fixed(c) \in 0..17
      BY <1>1, <1>10, FixedCodes, FixedLemma
    <2> HIDE DEF c
    <2>2. Ahead = Takes(input, Cursor + SizeOf(c), 0) BY <1>3, <1>10
    <2>3. Cursor + SizeOf(c) = base + Body + Fixed(c)
      <3>1. base + Body = Cursor + 1 BY <1>4, <2>1
      <3>2. \A z \in Nat : Cursor + (1 + z) = Cursor + 1 + z BY <1>1
      <3>3. Fixed(c) \in Nat BY <2>1
      <3>4. Cursor + (1 + Fixed(c)) = Cursor + 1 + Fixed(c) BY <3>2, <3>3
      <3> QED BY <2>1, <3>1, <3>4, Zenon
    <2>4. Ahead = Takes(input, base + Body + Fixed(c), 0) BY <2>2, <2>3
    <2> QED BY <1>4, <2>1, <2>4 DEF c
  <1> QED BY <1>5, <1>6, <1>7, <1>8, <1>9, <1>10

-----------------------------------------------------------------------------
(* Every action of a call reads the head of the format, or gives its reason *)
(* for reading none.                                                        *)

Reads ==
  /\ pc = "busy" /\ pc' = "busy" /\ Own(Top) > 0
  /\ Ahead.ok /\ base' + index' = Ahead.next
  /\ \/ stack' = Settle /\ Ahead.more = 0
     \/ \E k \in Kinds \ {"value"}, n \in Nat :
          stack' = Announce(k, n) /\ Announced(k, n) = Ahead.more
  /\ UNCHANGED <<input, start>>

Breaks ==
  /\ pc = "busy" /\ pc' \in {"failed", "panic"} /\ UNCHANGED <<input, start>>
  /\ pc' = "failed" /\ err' = "UnexpectedEof" =>
       Own(Top) > 0 /\ ~Ahead.ok /\ Ahead.next = Truncated
  /\ pc' = "failed" /\ err' = "ReservedCode" =>
       Own(Top) > 0 /\ ~Ahead.ok /\ Ahead.next = Reserved

Correct == Reads \/ Breaks

LEMMA TakesAhead ==
  ASSUME TypeOK, NEW i \in Nat, NEW m \in Nat, Ahead = Takes(input, base + i, m)
  PROVE  /\ i > Rem => ~Ahead.ok /\ Ahead.next = Truncated
         /\ ~(i > Rem) => Ahead.ok /\ Ahead.next = base + i /\ Ahead.more = m
  <1>1. Len(input) \in Nat /\ base \in Nat BY InputsAssumption DEF TypeOK
  <1>2. i > Rem <=> base + i > Len(input) BY <1>1 DEF Rem
  <1> QED BY <1>2 DEF Takes, NoHead

\* Why a call may fail: no head is there, or it is not about heads.
LEMMA FailBreaks ==
  ASSUME pc = "busy", NEW e, NEW i, Fail(e, i), UNCHANGED <<input, start>>,
         \/ e \notin {"UnexpectedEof", "ReservedCode"}
         \/ e = "UnexpectedEof" /\ Own(Top) > 0 /\ ~Ahead.ok /\ Ahead.next = Truncated
         \/ e = "ReservedCode" /\ Own(Top) > 0 /\ ~Ahead.ok /\ Ahead.next = Reserved
  PROVE  Correct
  BY DEF Fail, Correct, Breaks

\* A head is cut by the end of the input, or its length does not fit in usize.
LEMMA LengthBreaks ==
  ASSUME TypeOK, pc = "busy", Own(Top) > 0, HasHead, Code /= RESERVED,
         UNCHANGED <<input, start>>,
         \/ Body > Rem /\ Fail("UnexpectedEof", index + 1)
         \/ Fail("InvalidInteger", Body)
  PROVE  Correct
  <1>1. CASE Body > Rem /\ Fail("UnexpectedEof", index + 1)
    <2>1. ~Ahead.ok /\ Ahead.next = Truncated BY <1>1, AheadLemma DEF NoHead
    <2> QED BY <1>1, <2>1, FailBreaks
  <1>2. CASE Fail("InvalidInteger", Body) BY <1>2, FailBreaks
  <1> QED BY <1>1, <1>2

\* Nothing, or the reserved code.
LEMMA EmptyBreaks ==
  ASSUME TypeOK, pc = "busy", Own(Top) > 0, UNCHANGED <<input, start>>, NEW i,
         \/ ~HasHead /\ Fail("UnexpectedEof", i)
         \/ HasHead /\ Code = RESERVED /\ Fail("ReservedCode", i)
  PROVE  Correct
  <1>1. CASE ~HasHead /\ Fail("UnexpectedEof", i)
    <2>1. ~Ahead.ok /\ Ahead.next = Truncated BY <1>1, NoHeadLemma DEF NoHead
    <2> QED BY <1>1, <2>1, FailBreaks
  <1>2. CASE HasHead /\ Code = RESERVED /\ Fail("ReservedCode", i)
    <2>1. ~Ahead.ok /\ Ahead.next = Reserved BY <1>2, NoHeadLemma DEF NoHead
    <2> QED BY <1>2, <2>1, FailBreaks
  <1> QED BY <1>1, <1>2

\* An array or a map of any kind of frame.
LEMMA CompoundReads ==
  ASSUME TypeOK, pc = "busy", Own(Top) > 0, HasHead, Body <= Rem, UNCHANGED <<input, start>>,
         NEW k \in Kinds \ {"value"}, NEW n \in Nat,
         Ahead = Takes(input, base + Body, Announced(k, n)),
         Stay(Body), Go(Announce(k, n))
  PROVE  Correct
  <1>1. Body \in Nat /\ Announced(k, n) \in Nat /\ Rem \in Nat
    BY BodyLemma, CodeLemma DEF Announced
  <1>2. Ahead.ok /\ Ahead.next = base + Body /\ Ahead.more = Announced(k, n)
    BY <1>1, TakesAhead
  <1> QED BY <1>2 DEF Correct, Reads, Stay, Go

\* A message without parts, read or skipped.
LEMMA SingleReads ==
  ASSUME TypeOK, pc = "busy", Own(Top) > 0, UNCHANGED <<input, start>>, NEW i \in Nat,
         Ahead = Takes(input, base + i, 0),
         \/ i > Rem /\ \E j : Fail("UnexpectedEof", j)
         \/ ~(i > Rem) /\ Go(Settle) /\ base' + index' = base + i
  PROVE  Correct
  <1>1. CASE i > Rem /\ \E j : Fail("UnexpectedEof", j)
    <2>1. ~Ahead.ok /\ Ahead.next = Truncated BY <1>1, TakesAhead
    <2>2. PICK j : Fail("UnexpectedEof", j) BY <1>1
    <2> QED BY <2>1, <2>2, FailBreaks
  <1>2. CASE ~(i > Rem) /\ Go(Settle) /\ base' + index' = base + i
    <2>1. Ahead.ok /\ Ahead.next = base + i /\ Ahead.more = 0 BY <1>2, TakesAhead
    <2> QED BY <1>2, <2>1 DEF Correct, Reads, Go
  <1> QED BY <1>1, <1>2

LEMMA CodeCases ==
  ASSUME NEW c
  PROVE  /\ c \in Array => c \notin Map /\ c /= RESERVED
         /\ c \in Map => c \notin Array /\ c /= RESERVED
         /\ c \in Str \cup BinLong => c /= RESERVED /\ c \notin ExtLong /\ c \notin Array \cup Map
  <1>1. c \in Array => c \notin Map /\ c /= RESERVED
    BY DEF Array, Map, FixArray, FixMap, FIXMAP, FIXARRAY, ARRAY_16, ARRAY_32, MAP_16, MAP_32,
           RESERVED
  <1>2. c \in Map => c \notin Array /\ c /= RESERVED
    BY DEF Array, Map, FixArray, FixMap, FIXMAP, FIXARRAY, ARRAY_16, ARRAY_32, MAP_16, MAP_32,
           RESERVED
  <1>3. c \in Str \cup BinLong => c /= RESERVED /\ c \notin ExtLong /\ c \notin Array \cup Map
    BY DEF Array, Map, FixArray, FixMap, FIXMAP, FIXARRAY, ARRAY_16, ARRAY_32, MAP_16, MAP_32,
           RESERVED, Str, BinLong, ExtLong, FixStr, FIXSTR, STR_8, STR_16, STR_32, BIN_8, BIN_16,
           BIN_32, EXT_8, EXT_16, EXT_32
  <1> QED BY <1>1, <1>2, <1>3

LEMMA EatBytesCorrect ==
  ASSUME TypeOK, SafeUsize, pc = "busy", Own(Top) > 0, HasHead, Body <= Rem,
         Code /= RESERVED, Code \notin Array, Code \notin Map, EatBytes,
         UNCHANGED <<input, start>>
  PROVE  Correct
  <1>1. /\ Body \in Nat /\ EatLength \in Nat /\ Skipped \in Nat /\ base \in Nat /\ Len(input) \in Nat
        /\ Length \in Nat /\ Extra(Code) \in Nat
    BY BodyLemma, EatFitsLemma, CodeLemma, FixedLemma DEF TypeOK
  <1>2. Ahead = Takes(input, base + (Body + Skipped), 0)
    <2>1. CASE Counted
      <3>1. Ahead = Takes(input, base + Body + Extra(Code) + Length, 0)
        BY <2>1, AheadLemma DEF Counted
      <3>2. base + Body + Extra(Code) + Length = base + (Body + (Extra(Code) + Length))
        <4>1. \A a, b, x, y \in Nat : a + b + x + y = a + (b + (x + y)) OBVIOUS
        <4> QED BY <1>1, <4>1
      <3> QED BY <2>1, <3>1, <3>2 DEF Skipped
    <2>2. CASE ~Counted
      <3>1. Code \notin Array \cup Map \cup Str \cup BinLong \cup ExtLong BY <2>2 DEF Counted
      <3>2. Ahead = Takes(input, base + Body + Fixed(Code), 0) BY <3>1, AheadLemma
      <3>3. base + Body + Fixed(Code) = base + (Body + Fixed(Code))
        <4>1. \A a, b, x \in Nat : a + b + x = a + (b + x) OBVIOUS
        <4>2. Fixed(Code) \in Nat BY <1>1, <2>2 DEF Skipped
        <4> QED BY <1>1, <4>1, <4>2
      <3> QED BY <2>2, <3>2, <3>3 DEF Skipped
    <2> QED BY <2>1, <2>2
  <1>3. EatFits \/ OverflowChecks BY EatFitsLemma
  <1>4. EatFits => Sum(Body, EatLength) = Body + Skipped
    <2> SUFFICES ASSUME EatFits PROVE Sum(Body, EatLength) = Body + Skipped OBVIOUS
    <2>1. EatLength = Skipped /\ Body + Skipped < Usize BY EatFitsLemma DEF EatFits
    <2>2. Body + Skipped \in Nat BY <1>1
    <2> QED BY <2>1, <2>2, UsizeAssumption, ModLemma DEF Sum
  <1>5. CASE Panic
    BY <1>5 DEF Panic, Correct, Breaks
  <1>6. CASE EatFits /\ Beyond(Body + Skipped) /\ Fail("UnexpectedEof", Body)
    <2>1. Body + Skipped > Rem BY <1>6 DEF Beyond
    <2>2. Body + Skipped \in Nat BY <1>1
    <2>3. \E j : Fail("UnexpectedEof", j) BY <1>6
    <2> QED BY <1>2, <2>1, <2>2, <2>3, SingleReads
  <1>7. CASE EatFits /\ ~Beyond(Body + Skipped) /\ Stay(Body + Skipped) /\ Go(Settle)
    <2>1. ~(Body + Skipped > Rem) BY <1>7 DEF Beyond
    <2>2. Body + Skipped \in Nat BY <1>1
    <2>3. base' + index' = base + (Body + Skipped) BY <1>7 DEF Stay
    <2> QED BY <1>2, <1>7, <2>1, <2>2, <2>3, SingleReads
  <1> QED BY <1>3, <1>4, <1>5, <1>6, <1>7, EatBytesCases

LEMMA EatMessageCorrect ==
  ASSUME TypeOK, SafeUsize, EatMessage
  PROVE  Correct
  <1>1. pc = "busy" /\ Own(Top) > 0 /\ EatHead /\ UNCHANGED <<input, start>>
    BY DEF EatMessage
  <1>2. CASE ~HasHead /\ Fail("UnexpectedEof", index) BY <1>1, <1>2, EmptyBreaks
  <1>3. CASE HasHead /\ Code = RESERVED /\ Fail("ReservedCode", index + 1)
    BY <1>1, <1>3, EmptyBreaks
  <1>4. CASE /\ HasHead /\ Code /= RESERVED
             /\ (Body > Rem /\ Fail("UnexpectedEof", index + 1)) \/ Fail("InvalidInteger", Body)
    BY <1>1, <1>4, LengthBreaks
  <1>5. CASE /\ HasHead /\ Code /= RESERVED /\ Body <= Rem
             /\ CASE Code \in Array -> Stay(Body) /\ Go(Announce("eat", Length))
                  [] Code \in Map   -> Stay(Body) /\ Go(Announce("eat", 2 * Length))
                  [] OTHER          -> EatBytes
    <2>1. Length \in Nat /\ 2 * Length \in Nat BY <1>5, BodyLemma
    <2>2. "eat" \in Kinds \ {"value"} BY DEF Kinds
    <2>3. CASE Code \in Array
      <3>1. Stay(Body) /\ Go(Announce("eat", Length)) BY <1>5, <2>3, CodeCases
      <3>2. Ahead = Takes(input, base + Body, Announced("eat", Length))
        BY <1>5, <2>3, AheadLemma DEF Announced
      <3> QED BY <1>1, <1>5, <2>1, <2>2, <3>1, <3>2, CompoundReads
    <2>4. CASE Code \in Map
      <3>1. Stay(Body) /\ Go(Announce("eat", 2 * Length)) BY <1>5, <2>4, CodeCases
      <3>2. Ahead = Takes(input, base + Body, Announced("eat", 2 * Length))
        BY <1>5, <2>4, AheadLemma DEF Announced
      <3> QED BY <1>1, <1>5, <2>1, <2>2, <3>1, <3>2, CompoundReads
    <2>5. CASE Code \notin Map /\ Code \notin Array
      <3>1. EatBytes BY <1>5, <2>5
      <3> QED BY <1>1, <1>5, <2>5, <3>1, EatBytesCorrect
    <2> QED BY <2>3, <2>4, <2>5
  <1> QED BY <1>1, <1>2, <1>3, <1>4, <1>5 DEF EatHead, WithLength

LEMMA ScalarCodes ==
  ASSUME NEW c, \E t \in DOMAIN Scalar : c \in Scalar[t]
  PROVE  c /= RESERVED /\ c \notin Array \cup Map \cup Str \cup BinLong \cup ExtLong
  <1>1. c \in Integer \cup Float \cup {NIL, FALSE_, TRUE_}
    BY DEF Scalar, Integer, FixInt, PosFixInt, UINT_8, UINT_16, UINT_32, INT_64
  <1> QED
    BY <1>1 DEF Integer, FixInt, PosFixInt, NegFixInt, UINT_8, INT_64, Float, FLOAT_32, FLOAT_64,
           NIL, FALSE_, TRUE_, RESERVED, Array, Map, FixArray, FixMap, FIXMAP, FIXARRAY,
           ARRAY_16, ARRAY_32, MAP_16, MAP_32, Str, BinLong, ExtLong, FixStr, FIXSTR,
           STR_8, STR_16, STR_32, BIN_8, BIN_16, BIN_32, EXT_8, EXT_16, EXT_32

LEMMA ReadScalarCorrect ==
  ASSUME TypeOK, ReadScalar
  PROVE  Correct
  <1> DEFINE n == Fixed(Code)
  <1>1. /\ pc = "busy" /\ Own(Top) > 0 /\ HasHead /\ UNCHANGED <<input, start>>
        /\ \E t \in DOMAIN Scalar : Code \in Scalar[t]
    BY DEF ReadScalar, Visiting
  <1>2. /\ Body \in Nat /\ n \in Nat /\ base \in Nat /\ Rem \in Nat
    <2>1. Code \in Byte /\ Body \in Nat /\ Rem \in Nat /\ Len(input) \in Nat
      BY <1>1, BodyLemma, CodeLemma
    <2>2. Fixed(Code) \in 0..17 BY <2>1, FixedLemma
    <2>3. base \in Nat BY <2>1 DEF TypeOK
    <2> QED BY <2>1, <2>2, <2>3
  <1>3. Code /= RESERVED /\ Code \notin Array \cup Map \cup Str \cup BinLong \cup ExtLong
    BY <1>1, ScalarCodes
  <1>4. /\ Body > Rem => Ahead = NoHead(Truncated)
        /\ ~(Body > Rem) => Ahead = Takes(input, base + (Body + n), 0)
    <2>1. \A a, b, x \in Nat : a + b + x = a + (b + x) OBVIOUS
    <2>2. base + Body + n = base + (Body + n) BY <1>2, <2>1
    <2>3. ~(Body > Rem) => Body <= Rem BY <1>2
    <2> QED BY <1>1, <1>3, <2>2, <2>3, AheadLemma
  <1> HIDE DEF n
  <1>5. \/ Body + n > Rem /\ Fail("UnexpectedEof", Body)
        \/ Body + n <= Rem /\ Stay(Body + n) /\ Go(Settle)
        \/ Fail("InvalidInteger", Body + n)
    BY DEF ReadScalar, n
  <1>6. CASE Fail("InvalidInteger", Body + n) BY <1>1, <1>6, FailBreaks
  <1>7. CASE Body + n > Rem /\ Fail("UnexpectedEof", Body)
    <2>1. CASE Body > Rem
      <3>1. ~Ahead.ok /\ Ahead.next = Truncated BY <1>4, <2>1 DEF NoHead
      <3> QED BY <1>1, <1>7, <3>1, FailBreaks
    <2>2. CASE ~(Body > Rem)
      <3>1. Body + n \in Nat BY <1>2
      <3>2. \E j : Fail("UnexpectedEof", j) BY <1>7
      <3> QED BY <1>1, <1>4, <1>7, <2>2, <3>1, <3>2, SingleReads
    <2> QED BY <2>1, <2>2
  <1>8. CASE Body + n <= Rem /\ Stay(Body + n) /\ Go(Settle)
    <2>1. Body + n \in Nat /\ ~(Body > Rem) /\ ~(Body + n > Rem) BY <1>2, <1>8
    <2>2. base' + index' = base + (Body + n) BY <1>8 DEF Stay
    <2> QED BY <1>1, <1>4, <1>8, <2>1, <2>2, SingleReads
  <1> QED BY <1>5, <1>6, <1>7, <1>8

\* Where a string or bin message ends.
LEMMA SliceAhead ==
  ASSUME TypeOK, HasHead, Body <= Rem, Code \in Str \cup BinLong
  PROVE  /\ Ahead = Takes(input, base + (Body + Length), 0)
         /\ base \in Nat /\ Body \in Nat /\ Length \in Nat /\ Rem \in Nat
  <1>1. /\ Body \in Nat /\ Length \in Nat /\ base \in Nat /\ Rem \in Nat
    BY BodyLemma, CodeLemma, InputsAssumption DEF TypeOK
  <1>2. Code /= RESERVED /\ Code \notin ExtLong BY CodeCases
  <1>3. Extra(Code) = 0 BY <1>2 DEF Extra
  <1>4. Ahead = Takes(input, base + Body + Extra(Code) + Length, 0) BY <1>2, AheadLemma
  <1>5. base + Body + Extra(Code) + Length = base + (Body + Length)
    <2>1. \A a, b, x \in Nat : a + b + 0 + x = a + (b + x) OBVIOUS
    <2> QED BY <1>1, <1>3, <2>1
  <1> QED BY <1>1, <1>4, <1>5

LEMMA ReadSliceCorrect ==
  ASSUME TypeOK, ReadSlice
  PROVE  Correct
  <1>1. /\ pc = "busy" /\ Own(Top) > 0 /\ HasHead /\ UNCHANGED <<input, start>>
        /\ Code \in Str \cup BinLong
    BY DEF ReadSlice, Visiting
  <1>2. Code /= RESERVED BY <1>1, CodeCases
  <1>3. CASE (Body > Rem /\ Fail("UnexpectedEof", index + 1)) \/ Fail("InvalidInteger", Body)
    BY <1>1, <1>2, <1>3, LengthBreaks
  <1>4. CASE Body <= Rem /\ Split(Length)
    <2>1. /\ Ahead = Takes(input, base + (Body + Length), 0)
          /\ base \in Nat /\ Body \in Nat /\ Length \in Nat /\ Rem \in Nat
      BY <1>1, <1>4, SliceAhead
    <2>2. Body + Length \in Nat BY <2>1
    <2>3. SplitFits(Length) <=> ~(Body + Length > Rem) BY <2>1 DEF SplitFits
    <2>4. CASE ~SplitFits(Length) /\ Fail("UnexpectedEof", Body)
      <3>1. \E j : Fail("UnexpectedEof", j) BY <2>4
      <3> QED BY <1>1, <2>1, <2>2, <2>3, <2>4, <3>1, SingleReads
    <2>5. CASE SplitFits(Length) /\ base' = base + Body + Length /\ index' = 0 /\ Go(Settle)
      <3>1. \A a, b, x \in Nat : a + b + x + 0 = a + (b + x) OBVIOUS
      <3>2. base' + index' = base + (Body + Length) BY <2>1, <2>5, <3>1
      <3> QED BY <1>1, <2>1, <2>2, <2>3, <2>5, <3>2, SingleReads
    <2>6. CASE pc' = "failed" /\ err' \in {"InvalidUnicodeCodePoint", "InvalidLength"}
      BY <1>1, <2>6 DEF Correct, Breaks
    <2> QED BY <1>4, <2>4, <2>5, <2>6 DEF Split
  <1> QED BY <1>3, <1>4 DEF ReadSlice, WithLength

LEMMA ReadCompoundCorrect ==
  ASSUME TypeOK, ReadSeq \/ ReadMap
  PROVE  Correct
  <1>1. /\ pc = "busy" /\ Own(Top) > 0 /\ HasHead /\ UNCHANGED <<input, start>>
        /\ Code \in Array \cup Map
    BY DEF ReadSeq, ReadMap, Visiting
  <1>2. Code /= RESERVED BY <1>1, CodeCases
  <1>3. CASE (Body > Rem /\ Fail("UnexpectedEof", index + 1)) \/ Fail("InvalidInteger", Body)
    BY <1>1, <1>2, <1>3, LengthBreaks
  <1>4. CASE Body <= Rem /\ Code \in Array /\ Stay(Body) /\ Go(Announce("seq", Length))
    <2>1. Length \in Nat /\ "seq" \in Kinds \ {"value"} BY <1>1, <1>4, BodyLemma DEF Kinds
    <2>2. Ahead = Takes(input, base + Body, Announced("seq", Length))
      BY <1>1, <1>2, <1>4, AheadLemma DEF Announced
    <2> QED BY <1>1, <1>4, <2>1, <2>2, CompoundReads
  <1>5. CASE Body <= Rem /\ Code \in Map /\ Stay(Body) /\ Go(Announce("map", Length))
    <2>1. Length \in Nat /\ "map" \in Kinds \ {"value"} BY <1>1, <1>5, BodyLemma DEF Kinds
    <2>2. Ahead = Takes(input, base + Body, Announced("map", Length))
      BY <1>1, <1>2, <1>5, AheadLemma DEF Announced
    <2> QED BY <1>1, <1>5, <2>1, <2>2, CompoundReads
  <1> QED BY <1>3, <1>4, <1>5 DEF ReadSeq, ReadMap, WithLength

LEMMA ReadVariantCorrect ==
  ASSUME TypeOK, ReadVariant
  PROVE  Correct
  <1>1. /\ pc = "busy" /\ Own(Top) > 0 /\ HasHead /\ UNCHANGED <<input, start>>
        /\ Code = FIXMAP + 1 /\ Stay(index + 1) /\ Go(Announce("enum", 2))
    BY DEF ReadVariant, Visiting
  <1>2. Code \in FixMap BY <1>1 DEF FixMap, FIXMAP
  <1>3. /\ Code \in Map /\ Code /= RESERVED /\ Digits(Code) = 0 /\ Short(Code) = Code - 128
    BY <1>2, ShortCodes
  <1>4. index \in Nat /\ Rem \in Nat BY <1>1, CodeLemma DEF TypeOK
  <1>5. Body = index + 1 /\ Body <= Rem BY <1>1, <1>3, <1>4 DEF Body, HasHead
  <1>6. Length = 1
    <2>1. Length = Short(Code) BY <1>3 DEF Length, LengthAt, Code
    <2>2. Code = 129 BY <1>1 DEF FIXMAP
    <2> QED BY <1>3, <2>1, <2>2
  <1>7. Ahead = Takes(input, base + Body, Announced("enum", 2))
    <2>1. Ahead = Takes(input, base + Body, 2 * Length) BY <1>1, <1>3, <1>5, AheadLemma
    <2>2. 2 * Length = Announced("enum", 2) BY <1>6 DEF Announced
    <2> QED BY <2>1, <2>2
  <1>8. "enum" \in Kinds \ {"value"} BY DEF Kinds
  <1> QED BY <1>1, <1>5, <1>7, <1>8, CompoundReads

LEMMA RefuseCorrect ==
  ASSUME TypeOK, Refuse
  PROVE  Correct
  <1>1. pc = "busy" /\ Own(Top) > 0 /\ UNCHANGED <<input, start>> BY DEF Refuse, Visiting
  <1>2. CASE ~HasHead /\ Fail("UnexpectedEof", index) BY <1>1, <1>2, EmptyBreaks
  <1>3. CASE \E call \in Fetched : Fail(call[2], index + 1)
    <2>1. PICK call \in Fetched : Fail(call[2], index + 1) BY <1>3
    <2>2. call[2] \notin {"UnexpectedEof", "ReservedCode"} BY DEF Fetched
    <2> QED BY <1>1, <2>1, <2>2, FailBreaks
  <1>4. CASE HasHead /\ \E call \in Peeked : Code \notin call[1] /\ Fail(call[2], index)
    <2>1. PICK call \in Peeked : Code \notin call[1] /\ Fail(call[2], index) BY <1>4
    <2>2. CASE call[2] = "ReservedCode"
      <3>1. call[1] = Byte \ {RESERVED} BY <2>2 DEF Peeked
      <3>2. Code \in Byte BY <1>4, CodeLemma
      <3>3. Code = RESERVED BY <2>1, <3>1, <3>2
      <3> QED BY <1>1, <1>4, <2>1, <2>2, <3>3, EmptyBreaks
    <2>3. CASE call[2] /= "ReservedCode"
      <3>1. call[2] \notin {"UnexpectedEof", "ReservedCode"} BY <2>3 DEF Peeked
      <3> QED BY <1>1, <2>1, <3>1, FailBreaks
    <2> QED BY <2>2, <2>3
  <1> QED BY <1>2, <1>3, <1>4 DEF Refuse

LEMMA GiveUpCorrect ==
  ASSUME GiveUp
  PROVE  Correct
  <1>1. pc = "busy" /\ UNCHANGED <<input, start>> /\ Fail("Custom", index) BY DEF GiveUp
  <1> QED BY <1>1, FailBreaks

LEMMA ReturnCorrect ==
  ASSUME TypeOK, Return
  PROVE  Correct \/ Popped
  <1>1. CASE Trailing(Top)
    <2>1. Fail("TrailingElements", index) /\ pc = "busy" /\ UNCHANGED <<input, start>>
      BY <1>1 DEF Return
    <2> QED BY <2>1, FailBreaks
  <1>2. CASE ~Trailing(Top)
    <2>1. stack \in Seq(Frames) /\ stack /= <<>> BY DEF Return, TypeOK
    <2>2. Top \in Frames BY <2>1, UnderLemma DEF Top
    <2>3. Own(Top) = 0 BY <2>2, <1>2 DEF Return, Done, Trailing, Own, Frames
    <2> QED BY <1>2, <2>3 DEF Return, Popped
  <1> QED BY <1>1, <1>2

\* Every step of the specification, by what it reads.
LEMMA CorrectLemma ==
  ASSUME IInv, SafeUsize, [Next]_vars
  PROVE  \/ Correct \/ Popped \/ EatSome \/ UNCHANGED vars
         \/ \E o \in {"eat_message", "deserialize"}, k \in {"eat", "one"} : Begin(o, k)
  <1>0. TypeOK BY DEF IInv
  <1>1. CASE BeginEatMessage BY <1>1 DEF BeginEatMessage
  <1>2. CASE BeginDeserialize BY <1>2 DEF BeginDeserialize
  <1>3. CASE EatMessage BY <1>0, <1>3, EatMessageCorrect
  <1>4. CASE ReadScalar BY <1>0, <1>4, ReadScalarCorrect
  <1>5. CASE ReadSlice BY <1>0, <1>5, ReadSliceCorrect
  <1>6. CASE ReadSeq \/ ReadMap BY <1>0, <1>6, ReadCompoundCorrect
  <1>7. CASE ReadVariant BY <1>0, <1>7, ReadVariantCorrect
  <1>8. CASE Refuse BY <1>0, <1>8, RefuseCorrect
  <1>9. CASE GiveUp BY <1>9, GiveUpCorrect
  <1>10. CASE Return BY <1>0, <1>10, ReturnCorrect
  <1> QED BY <1>1, <1>2, <1>3, <1>4, <1>5, <1>6, <1>7, <1>8, <1>9, <1>10 DEF Next

-----------------------------------------------------------------------------
(* What calls answer *)

\* The messages that are owed end where the message of the call ends, and a
\* failure for want of one is one that the format sees.
Answers ==
  /\ pc = "busy" => RunEnd(Radix, input, Cursor, Owed(stack)) = MessageEnd(start)
  /\ pc = "ok" => Cursor = MessageEnd(start)
  /\ pc = "failed" /\ err = "UnexpectedEof" => MessageEnd(start) = Truncated
  /\ pc = "failed" /\ err = "ReservedCode"  => MessageEnd(start) = Reserved

LEMMA AheadStep ==
  ASSUME IInv, pc = "busy", Own(Top) > 0
  PROVE  /\ Owed(stack) \in Nat /\ Owed(stack) > 0 /\ Ahead.more \in Nat
         /\ Ahead.ok => RunEnd(Radix, input, Cursor, Owed(stack))
                          = RunEnd(Radix, input, Ahead.next, Owed(stack) - 1 + Ahead.more)
         /\ ~Ahead.ok => RunEnd(Radix, input, Cursor, Owed(stack)) = Ahead.next
  <1>1. Owed(stack) \in Nat /\ Owed(stack) > 0 BY StackLemma DEF IInv
  <1>2. input \in Seq(Byte) /\ Cursor \in Nat
    <2>1. input \in Seq(Byte) BY InputsAssumption DEF IInv, TypeOK
    <2>2. base \in Nat /\ index \in Nat BY <2>1 DEF IInv, TypeOK
    <2> QED BY <2>1, <2>2 DEF Cursor
  <1>3. HeadRight(Ahead, Cursor, Len(input)) BY <1>2, RadixAssumption, LeadLemma DEF Ahead
  <1>4. Ahead.more \in Nat BY <1>3 DEF HeadRight
  <1>5. Ahead = Lead(Radix, input, Cursor) BY DEF Ahead
  <1> QED BY <1>1, <1>2, <1>4, <1>5, RadixAssumption, RunEndLemma

LEMMA ReadsAnswers ==
  ASSUME IInv, Answers, Reads
  PROVE  Answers'
  <1>1. /\ pc = "busy" /\ pc' = "busy" /\ input' = input /\ start' = start /\ Own(Top) > 0
        /\ Ahead.ok /\ Cursor' = Ahead.next
    BY DEF Reads, Cursor
  <1>2. Owed(stack') = Owed(stack) - 1 + Ahead.more
    <2>0. Owed(stack) \in Nat /\ Owed(stack) > 0 /\ Ahead.more \in Nat BY <1>1, AheadStep
    <2>1. CASE stack' = Settle /\ Ahead.more = 0
      <3>1. Owed(Settle) = Owed(stack) - 1 BY <1>1, StackLemma DEF IInv
      <3> QED BY <2>0, <2>1, <3>1
    <2>2. ASSUME NEW k \in Kinds \ {"value"}, NEW n \in Nat,
                 stack' = Announce(k, n), Announced(k, n) = Ahead.more
          PROVE  Owed(stack') = Owed(stack) - 1 + Ahead.more
      <3>1. Owed(Announce(k, n)) = Owed(stack) - 1 + Announced(k, n)
        BY <1>1, StackLemma DEF IInv
      <3> QED BY <2>2, <3>1
    <2> QED BY <2>1, <2>2 DEF Reads
  <1>3. RunEnd(Radix, input, Cursor, Owed(stack))
          = RunEnd(Radix, input, Ahead.next, Owed(stack) - 1 + Ahead.more)
    BY <1>1, AheadStep
  <1>4. MessageEnd(start)' = MessageEnd(start) BY <1>1 DEF MessageEnd
  <1>5. RunEnd(Radix, input', Cursor', Owed(stack')) = MessageEnd(start)'
    BY <1>1, <1>2, <1>3, <1>4 DEF Answers
  <1> QED BY <1>1, <1>5 DEF Answers

LEMMA BreaksAnswers ==
  ASSUME IInv, Answers, Breaks
  PROVE  Answers'
  <1>1. pc = "busy" /\ pc' \in {"failed", "panic"} /\ input' = input /\ start' = start
    BY DEF Breaks
  <1>2. MessageEnd(start)' = MessageEnd(start) BY <1>1 DEF MessageEnd
  <1>3. RunEnd(Radix, input, Cursor, Owed(stack)) = MessageEnd(start) BY <1>1 DEF Answers
  <1>4. pc' = "failed" /\ err' = "UnexpectedEof" => MessageEnd(start) = Truncated
    BY <1>1, <1>3, AheadStep DEF Breaks
  <1>5. pc' = "failed" /\ err' = "ReservedCode" => MessageEnd(start) = Reserved
    BY <1>1, <1>3, AheadStep DEF Breaks
  <1> QED BY <1>1, <1>2, <1>4, <1>5 DEF Answers

LEMMA PoppedAnswers ==
  ASSUME IInv, Answers, Popped
  PROVE  Answers'
  <1>1. /\ pc = "busy" /\ input' = input /\ start' = start /\ Cursor' = Cursor
        /\ pc' = IF Under = <<>> THEN "ok" ELSE pc
    BY DEF Popped, Cursor
  <1>2. MessageEnd(start)' = MessageEnd(start) BY <1>1 DEF MessageEnd
  <1>3. RunEnd(Radix, input, Cursor, Owed(stack)) = MessageEnd(start) BY <1>1 DEF Answers
  <1>4. Owed(stack') = Owed(stack) /\ (Under = <<>> => Owed(stack) = 0) BY PoppedLemma
  <1>5. Under = <<>> => Cursor = MessageEnd(start) BY <1>3, <1>4 DEF RunEnd
  <1> QED BY <1>1, <1>2, <1>3, <1>4, <1>5 DEF Answers

LEMMA BeginAnswers ==
  ASSUME IInv, NEW o \in {"eat_message", "deserialize"}, NEW k \in {"eat", "one"}, Begin(o, k)
  PROVE  Answers'
  <1>1. Owed(stack') = 1 BY BeginLemma
  <1>2. pc' = "busy" /\ start' = Cursor' BY DEF Begin, Cursor
  <1> QED BY <1>1, <1>2 DEF Answers, MessageEnd

LEMMA AnswersStep ==
  ASSUME IInv, Answers, SafeUsize, [Next]_vars
  PROVE  Answers'
  <1>1. CASE EatSome BY <1>1 DEF EatSome, Answers
  <1>2. CASE UNCHANGED vars BY <1>2 DEF vars, Answers, MessageEnd, Cursor
  <1> QED BY <1>1, <1>2, CorrectLemma, ReadsAnswers, BreaksAnswers, PoppedAnswers, BeginAnswers
          DEF Correct

\* What a call owes is what the format has from the cursor on: inductive for
\* every input and radix, when usize is safe.
THEOREM InductiveAnswers == ASSUME SafeUsize PROVE Spec => []Answers
  <1>1. Init => Answers BY DEF Init, Answers
  <1>2. IInv /\ Answers /\ [Next]_vars => Answers' BY AnswersStep
  <1> QED BY <1>1, <1>2, Inductive, PTL DEF Spec

\* Ok means that exactly one message was consumed, by eat_message or by
\* whatever visitors ask for, when usize is safe.
THEOREM ExactlyOne == ASSUME SafeUsize PROVE Spec => []OneMessage
  <1>1. Answers => OneMessage BY DEF Answers, OneMessage
  <1> QED BY <1>1, InductiveAnswers, PTL

-----------------------------------------------------------------------------
(* eat_message asks for nothing else *)

\* The calls in progress of eat_message are all its own, and it has two errors.
EatsOnly ==
  op = "eat_message" =>
    /\ \A i \in 1..Len(stack) : stack[i].kind = "eat"
    /\ pc = "failed" => err \in {"UnexpectedEof", "ReservedCode"}

LEMMA EatHeadErrors ==
  ASSUME TypeOK, WideUsize, EatHead
  PROVE  \/ stack' = <<>> /\ (pc' = "failed" => err' \in {"UnexpectedEof", "ReservedCode"})
         \/ pc' = pc /\ stack' = Settle
         \/ pc' = pc /\ \E n \in Nat : stack' = Announce("eat", n)
  <1>1. CASE ~HasHead /\ Fail("UnexpectedEof", index) BY <1>1 DEF Fail
  <1>2. CASE Fail("ReservedCode", index + 1) BY <1>2 DEF Fail
  <1>3. CASE Fail("UnexpectedEof", index + 1) BY <1>3 DEF Fail
  <1>4. CASE HasHead /\ Body <= Rem /\ Length >= Usize
    <2>1. Length \in Nat /\ Length < MaxLength + 32 /\ Len(input) \in Nat
      BY <1>4, BodyLemma, CodeLemma
    <2>2. Len(input) + MaxLength + 50 <= Usize /\ MaxLength \in Nat
      BY RadixAssumption, MulNat DEF WideUsize, TypeOK, MaxLength
    <2>3. FALSE BY <1>4, <2>1, <2>2, UsizeAssumption
    <2> QED BY <2>3
  <1>5. CASE /\ HasHead /\ Body <= Rem
             /\ CASE Code \in Array -> Stay(Body) /\ Go(Announce("eat", Length))
                  [] Code \in Map   -> Stay(Body) /\ Go(Announce("eat", 2 * Length))
                  [] OTHER          -> EatBytes
    <2>1. Length \in Nat /\ 2 * Length \in Nat BY <1>5, BodyLemma
    <2>2. CASE Code \in Array
      <3>1. Go(Announce("eat", Length)) BY <1>5, <2>2, CodeCases
      <3> QED BY <2>1, <3>1 DEF Go
    <2>3. CASE Code \in Map
      <3>1. Go(Announce("eat", 2 * Length)) BY <1>5, <2>3, CodeCases
      <3> QED BY <2>1, <3>1 DEF Go
    <2>4. CASE Code \notin Array /\ Code \notin Map
      <3>1. EatBytes BY <1>5, <2>4
      <3>2. CASE Panic BY <3>2 DEF Panic
      <3>3. CASE Fail("UnexpectedEof", Body) BY <3>3 DEF Fail
      <3>4. CASE Go(Settle) BY <3>4 DEF Go
      <3> QED BY <3>1, <3>2, <3>3, <3>4, EatBytesCases
    <2> QED BY <2>2, <2>3, <2>4
  <1> QED BY <1>1, <1>2, <1>3, <1>4, <1>5 DEF EatHead, WithLength

LEMMA SettleKinds ==
  ASSUME TypeOK, pc = "busy", \A i \in 1..Len(stack) : stack[i].kind = "eat"
  PROVE  /\ \A i \in 1..Len(Settle) : Settle[i].kind = "eat"
         /\ \A n \in Nat :
              \A i \in 1..Len(Announce("eat", n)) : Announce("eat", n)[i].kind = "eat"
         /\ \A i \in 1..Len(Under) : Under[i].kind = "eat"
         /\ Top.kind = "eat"
  <1>1. stack \in Seq(Frames) /\ stack /= <<>> BY DEF TypeOK
  <1>2. /\ Under \in Seq(Frames) /\ Len(Under) = Len(stack) - 1 /\ Len(stack) \in Nat /\ Len(stack) > 0
        /\ Top \in Frames /\ \A i \in 1..(Len(stack) - 1) : Under[i] = stack[i]
    BY <1>1, UnderLemma DEF Under, Top
  <1>3. Top.kind = "eat" BY <1>2 DEF Top
  <1>4. \A i \in 1..Len(Under) : Under[i].kind = "eat" BY <1>2
  <1> DEFINE t == Took(Top)
  <1>5. t.kind = "eat" BY <1>2, <1>3 DEF Took, Frames
  <1> HIDE DEF t
  <1>6. /\ Len(Settle) = Len(Under) + 1 /\ Settle[Len(Under) + 1] = t
        /\ \A i \in 1..Len(Under) : Settle[i] = Under[i]
    BY <1>2 DEF Settle, t
  <1>7. \A i \in 1..Len(Settle) : Settle[i].kind = "eat" BY <1>2, <1>4, <1>5, <1>6
  <1>8. ASSUME NEW n \in Nat
        PROVE  \A i \in 1..Len(Announce("eat", n)) : Announce("eat", n)[i].kind = "eat"
    <2> DEFINE f == Frame("eat", n, Top.below + Own(Took(Top)))
               S == Settle
    <2>1. f.kind = "eat" BY DEF Frame
    <2>2. Announce("eat", n) = Append(S, f) BY DEF Announce
    <2>3. \A i \in 1..Len(S) : S[i].kind = "eat" BY <1>7
    <2>4. \E T : S \in Seq(T)
      <3>1. Under \in Seq(Frames \cup {t}) BY <1>2
      <3> QED BY <3>1 DEF Settle, t
    <2> HIDE DEF f, S
    <2>5. /\ Len(Append(S, f)) = Len(S) + 1 /\ Append(S, f)[Len(S) + 1] = f
          /\ \A i \in 1..Len(S) : Append(S, f)[i] = S[i] /\ Len(S) \in Nat
      BY <2>4
    <2>6. Len(S) \in Nat BY <2>4
    <2> QED BY <2>1, <2>2, <2>3, <2>5, <2>6
  <1> QED BY <1>3, <1>4, <1>7, <1>8

LEMMA EatsOnlyStep ==
  ASSUME TypeOK, WideUsize, EatsOnly, [Next]_vars
  PROVE  EatsOnly'
  <1>1. CASE BeginEatMessage
    <2>1. stack' = <<Frame("eat", 1, 0)>> /\ pc' = "busy" BY <1>1 DEF BeginEatMessage, Begin
    <2>2. Len(stack') = 1 /\ stack'[1].kind = "eat" BY <2>1 DEF Frame
    <2> QED BY <2>1, <2>2 DEF EatsOnly
  <1>2. CASE BeginDeserialize BY <1>2 DEF BeginDeserialize, Begin, EatsOnly
  <1>3. CASE EatSome BY <1>3 DEF EatSome, EatsOnly
  <1>4. CASE EatMessage /\ op = "eat_message"
    <2>1. pc = "busy" /\ EatHead BY <1>4 DEF EatMessage
    <2>2. \A i \in 1..Len(stack) : stack[i].kind = "eat" BY <1>4 DEF EatsOnly
    <2>3. CASE stack' = <<>> /\ (pc' = "failed" => err' \in {"UnexpectedEof", "ReservedCode"})
      BY <2>3 DEF EatsOnly
    <2>4. CASE pc' = pc /\ stack' = Settle BY <2>1, <2>2, <2>4, SettleKinds DEF EatsOnly
    <2>5. CASE pc' = pc /\ \E n \in Nat : stack' = Announce("eat", n)
      BY <2>1, <2>2, <2>5, SettleKinds DEF EatsOnly
    <2> QED BY <2>1, <2>3, <2>4, <2>5, EatHeadErrors
  <1>5. CASE /\ op = "eat_message"
             /\ ReadScalar \/ ReadSlice \/ ReadSeq \/ ReadMap \/ ReadVariant \/ Refuse \/ GiveUp
    <2>1. pc = "busy" /\ Top.kind /= "eat"
      BY <1>5 DEF ReadScalar, ReadSlice, ReadSeq, ReadMap, ReadVariant, Refuse, GiveUp, Visiting
    <2>2. Top.kind = "eat" BY <1>5, <2>1, SettleKinds DEF EatsOnly
    <2> QED BY <2>1, <2>2
  <1>6. CASE Return /\ op = "eat_message"
    <2>1. pc = "busy" /\ \A i \in 1..Len(stack) : stack[i].kind = "eat"
      BY <1>6 DEF Return, EatsOnly
    <2>2. Top.kind = "eat" /\ \A i \in 1..Len(Under) : Under[i].kind = "eat"
      BY <2>1, SettleKinds
    <2>3. stack' = Under /\ pc' \in {"ok", pc} BY <1>6, <2>2 DEF Return, Trailing
    <2> QED BY <2>1, <2>2, <2>3 DEF EatsOnly
  <1>7. CASE UNCHANGED vars BY <1>7 DEF vars, EatsOnly
  <1>8. CASE /\ op /= "eat_message"
             /\ EatMessage \/ ReadScalar \/ ReadSlice \/ ReadSeq \/ ReadMap \/ ReadVariant
                \/ Refuse \/ GiveUp \/ Return
    <2>1. op' = op
      BY <1>8 DEF EatMessage, ReadScalar, ReadSlice, ReadSeq, ReadMap, ReadVariant, Refuse, GiveUp,
                  Return
    <2> QED BY <1>8, <2>1 DEF EatsOnly
  <1> QED BY <1>1, <1>2, <1>3, <1>4, <1>5, <1>6, <1>7, <1>8 DEF Next

\* UnexpectedEof is returned only for a message that goes on after the input,
\* ReservedCode only for one with that code in it, and eat_message returns no
\* other error, when usize holds every length on top of every position.
THEOREM FailuresMean == ASSUME WideUsize PROVE Spec => []FailureMeans
  <1>0. SafeUsize BY DEF SafeUsize
  <1>1. Spec => []Answers BY <1>0, InductiveAnswers
  <1>2. Init => EatsOnly BY DEF Init, EatsOnly
  <1>3. TypeOK /\ EatsOnly /\ [Next]_vars => EatsOnly' BY EatsOnlyStep
  <1>4. Answers /\ EatsOnly => FailureMeans BY DEF Answers, EatsOnly, FailureMeans
  <1> QED BY <1>1, <1>2, <1>3, <1>4, TypeCorrect, PTL DEF Spec

-----------------------------------------------------------------------------
(* Slices *)

\* The payload of the string or bin message at the cursor.
LEMMA PayloadLemma ==
  ASSUME TypeOK, HasHead, Body <= Rem, Code \in Str \cup BinLong, SplitFits(Length)
  PROVE  /\ PayloadAt(Cursor) = Lent(base + Body, Length)
         /\ Cursor \in 0..(Len(input) - 1) /\ ByteAt(Cursor) \in Str \cup BinLong
  <1>1. /\ Ahead = Takes(input, base + (Body + Length), 0)
        /\ base \in Nat /\ Body \in Nat /\ Length \in Nat /\ Rem \in Nat
    BY SliceAhead
  <1>2. input \in Seq(Byte) /\ Cursor \in Nat /\ Len(input) \in Nat /\ Cursor + 1 <= Len(input)
    <2>1. input \in Seq(Byte) /\ index \in Nat BY InputsAssumption DEF TypeOK
    <2>2. Cursor \in Nat /\ Len(input) \in Nat BY CodeLemma
    <2> QED BY <1>1, <2>1, <2>2 DEF HasHead, Rem, Cursor
  <1>3. Body + Length \in Nat /\ ~(Body + Length > Rem) BY <1>1 DEF SplitFits
  <1>4. Ahead.ok /\ Ahead.next = base + (Body + Length) /\ Ahead.more = 0
    BY <1>1, <1>3, TakesAhead
  <1>5. MessageEnd(Cursor) = base + (Body + Length)
    <2>1. Ahead = Lead(Radix, input, Cursor) BY DEF Ahead
    <2>2. RunEnd(Radix, input, Cursor, 1) = RunEnd(Radix, input, Ahead.next, 1 - 1 + Ahead.more)
      BY <1>2, <1>4, <2>1, RadixAssumption, RunEndLemma
    <2>3. 1 - 1 + Ahead.more = 0 BY <1>4
    <2> QED BY <1>4, <2>2, <2>3 DEF RunEnd, MessageEnd
  <1>6. ByteAt(Cursor) = Code BY DEF ByteAt, Code
  <1> DEFINE h == IF Code \in FixStr THEN 1 ELSE HeadOf(Code)[1]
  <1>7. Cursor + h = base + Body
    <2>1. h = 1 + Digits(Code)
      <3>1. CASE Code \in FixStr BY <3>1, ShortCodes
      <3>2. CASE Code \notin FixStr
        <4>1. Code \in Long BY <3>2 DEF Long, Str, BinLong
        <4> QED BY <3>2, <4>1, LongCodes
      <3> QED BY <3>1, <3>2
    <2>2. Digits(Code) \in Nat
      <3>1. Code \in Byte BY CodeLemma
      <3> QED BY <3>1, DigitsLemma
    <2>3. index \in Nat BY DEF TypeOK
    <2> HIDE DEF h
    <2> QED BY <1>1, <2>1, <2>2, <2>3 DEF Cursor, Body
  <1>8. PayloadAt(Cursor) = [lo |-> Cursor + h, hi |-> MessageEnd(Cursor)]
    BY <1>6 DEF PayloadAt
  <1>9. base + (Body + Length) = base + Body + Length BY <1>1
  <1> HIDE DEF h
  <1> QED BY <1>2, <1>5, <1>6, <1>7, <1>8, <1>9 DEF Lent

LEMMA LentStep ==
  ASSUME TypeOK, LentRight, [Next]_vars
  PROVE  LentRight'
  <1>1. input' = input
    BY DEF vars, Next, BeginEatMessage, BeginDeserialize, Begin, EatSome, EatMessage, ReadScalar,
           ReadSlice, ReadSeq, ReadMap, ReadVariant, Refuse, GiveUp, Return
  <1>2. CASE lent' = lent BY <1>1, <1>2 DEF LentRight, ByteAt, PayloadAt, MessageEnd
  <1>3. CASE ReadSlice
    <2>1. HasHead /\ Code \in Str \cup BinLong BY <1>3 DEF ReadSlice
    <2>2. CASE Body <= Rem /\ SplitFits(Length) /\ lent' = lent \cup {Lent(base + Body, Length)}
      <3>1. /\ PayloadAt(Cursor) = Lent(base + Body, Length)
            /\ Cursor \in 0..(Len(input) - 1) /\ ByteAt(Cursor) \in Str \cup BinLong
        BY <2>1, <2>2, PayloadLemma
      <3>2. \A s \in lent' : \E p \in 0..(Len(input) - 1) :
              ByteAt(p) \in Str \cup BinLong /\ PayloadAt(p) = s
        BY <2>2, <3>1 DEF LentRight
      <3> QED BY <1>1, <3>2 DEF LentRight, ByteAt, PayloadAt, MessageEnd
    <2> QED BY <1>2, <1>3, <2>2 DEF ReadSlice, WithLength, Split, Fail, Stay
  <1>4. CASE BeginEatMessage \/ BeginDeserialize \/ EatSome \/ UNCHANGED vars
    BY <1>2, <1>4 DEF BeginEatMessage, BeginDeserialize, Begin, EatSome, vars
  <1>5. CASE EatMessage
    <2>1. EatHead BY <1>5 DEF EatMessage
    <2>2. EatBytes => lent' = lent BY DEF EatBytes, Panic, Fail, Stay
    <2>3. lent' = lent BY <2>1, <2>2 DEF EatHead, WithLength, Fail, Stay
    <2> QED BY <1>2, <2>3
  <1>6. CASE ReadScalar \/ ReadSeq \/ ReadMap \/ ReadVariant
    BY <1>2, <1>6 DEF ReadScalar, ReadSeq, ReadMap, ReadVariant, WithLength, Fail, Stay
  <1>7. CASE Refuse \/ GiveUp \/ Return
    BY <1>2, <1>7 DEF Refuse, GiveUp, Return, Fail, Stay
  <1> QED BY <1>3, <1>4, <1>5, <1>6, <1>7 DEF Next

\* A slice lent out is the payload of a string or bin message, whole: in every
\* build and for every width of usize.
THEOREM PayloadsLent == Spec => []LentRight
  <1>1. Init => LentRight BY DEF Init, LentRight
  <1>2. TypeOK /\ LentRight /\ [Next]_vars => LentRight' BY LentStep
  <1> QED BY <1>1, <1>2, TypeCorrect, PTL DEF Spec
=============================================================================
