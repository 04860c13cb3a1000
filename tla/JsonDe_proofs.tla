----------------------------- MODULE JsonDe_proofs -----------------------------
(* Proofs about JsonDe, for every text and every visitor: what the calls     *)
(* read, taken together, is a run of tokens.                                 *)
EXTENDS JsonDe, SequenceTheorems, WellFoundedInduction, TLAPS

\* What has to be shown of a step.
Good == IInv' /\ (Tokens!Next \/ UNCHANGED Tokens!tvars)

-----------------------------------------------------------------------------
(* The text *)

LEMMA LeastNat ==
  ASSUME NEW T \in SUBSET Nat, T /= {}
  PROVE  \E m \in T : \A k \in T : m <= k
  <1>1. PICK m \in T : \A k \in T : <<k, m>> \notin OpToRel(<, Nat)
    BY NatLessThanWellFounded, WFMin
  <1>2. \A k \in T : ~(k < m) BY <1>1 DEF OpToRel
  <1>3. \A k \in T : m <= k BY <1>2
  <1> QED BY <1>3

LEMMA TextLemma ==
  ASSUME IInv
  PROVE  /\ Len(text) \in Nat /\ index \in Nat /\ index <= Len(text)
         /\ \A p \in 1..Len(text) : text[p] \in Units
  BY DEF IInv, TypeOK

\* A run of units ends before the first that is not one of them.
LEMMA EndLemma ==
  ASSUME IInv, NEW p \in Nat, p <= Len(text), NEW S
  PROVE  /\ EndOf(p, S) \in Nat /\ p <= EndOf(p, S) /\ EndOf(p, S) <= Len(text)
         /\ EndOf(p, S) = Len(text) \/ text[EndOf(p, S) + 1] \notin S
         /\ Tokens!AllIn(p, EndOf(p, S), S)
  <1> DEFINE L == Len(text)
             Is(q) == /\ q = L \/ text[q + 1] \notin S
                      /\ \A r \in (p + 1)..q : text[r] \in S
             T == {q \in p..L : q = L \/ text[q + 1] \notin S}
  <1>1. L \in Nat BY TextLemma
  <1>2. T \in SUBSET Nat /\ L \in T BY <1>1
  <1>3. PICK m \in T : \A k \in T : m <= k BY <1>2, LeastNat
  <1>4. m \in p..L /\ Is(m)
    <2>1. m \in p..L /\ (m = L \/ text[m + 1] \notin S) BY <1>3
    <2>2. ASSUME NEW r \in (p + 1)..m PROVE text[r] \in S
      <3>1. r - 1 \in p..L /\ ~(m <= r - 1) BY <1>1, <2>1
      <3>2. r - 1 \notin T BY <1>3, <3>1
      <3>3. text[r - 1 + 1] \in S BY <3>1, <3>2
      <3>4. r - 1 + 1 = r BY <2>1
      <3> QED BY <3>3, <3>4
    <2> QED BY <2>1, <2>2
  <1>5. EndOf(p, S) = CHOOSE q \in p..L : Is(q) BY DEF EndOf
  <1> HIDE DEF Is
  <1>6. EndOf(p, S) \in p..L /\ Is(EndOf(p, S)) BY <1>4, <1>5
  <1>7. EndOf(p, S) \in Nat /\ p <= EndOf(p, S) /\ EndOf(p, S) <= L BY <1>1, <1>6
  <1> QED BY <1>6, <1>7 DEF Is, Tokens!AllIn

LEMMA AtLemma ==
  ASSUME IInv
  PROVE  /\ At \in Nat /\ index <= At /\ At <= Len(text)
         /\ Tokens!AllIn(index, At, Tokens!Blank)
         /\ More => Unit \in Units /\ Unit /= " "
  <1>1. index \in Nat /\ index <= Len(text) /\ Len(text) \in Nat BY TextLemma
  <1>2. /\ At \in Nat /\ index <= At /\ At <= Len(text)
        /\ At = Len(text) \/ text[At + 1] \notin Blank
        /\ Tokens!AllIn(index, At, Blank)
    BY <1>1, EndLemma DEF At, BlankEnd
  <1>3. More => At + 1 \in 1..Len(text) BY <1>1, <1>2 DEF More
  <1>4. More => Unit \in Units BY <1>3, TextLemma DEF Unit
  <1>5. More => Unit /= " "
    <2>1. \A c : c \notin Blank => c /= " " BY DEF Blank
    <2> HIDE DEF Blank
    <2>2. ASSUME More PROVE Unit \notin Blank
      <3>1. At /= Len(text) BY <1>1, <1>2, <2>2 DEF More
      <3> QED BY <3>1, <1>2 DEF Unit
    <2> QED BY <2>1, <2>2
  <1> QED BY <1>2, <1>4, <1>5 DEF Blank, Tokens!Blank

\* The string behind a quote, if another closes it.
LEMMA StringLemma ==
  ASSUME IInv, NEW a \in Nat, a < Len(text), text[a + 1] = QU
  PROVE  /\ StringEnd(a + 1) \in Nat /\ a + 1 <= StringEnd(a + 1)
         /\ StringEnd(a + 1) <= Len(text)
         /\ StringEnd(a + 1) < Len(text) => Tokens!IsString(a, StringEnd(a + 1) + 1)
  <1> DEFINE q == StringEnd(a + 1)
  <1>1. a + 1 \in Nat /\ a + 1 <= Len(text) /\ Len(text) \in Nat BY TextLemma
  <1>2. /\ q \in Nat /\ a + 1 <= q /\ q <= Len(text)
        /\ q = Len(text) \/ text[q + 1] \notin Units \ {QU}
        /\ Tokens!AllIn(a + 1, q, Units \ {QU})
    BY <1>1, EndLemma DEF StringEnd
  <1> HIDE DEF q
  <1>3. ASSUME q < Len(text) PROVE Tokens!IsString(a, q + 1)
    <2> DEFINE b == q + 1
    <2>1. text[q + 1] \in Units BY <1>1, <1>2, <1>3, TextLemma
    <2>2. text[b] = QU BY <2>1, <1>1, <1>2, <1>3
    <2>3. \A k \in (a + 2)..(b - 1) : text[k] /= QU
      BY <1>2, <1>1 DEF Tokens!AllIn
    <2>4. a + 2 <= b BY <1>1, <1>2
    <2>5. Tokens!Quote = QU BY DEF Tokens!Quote, QU
    <2> HIDE DEF b, QU
    <2>6. Tokens!IsString(a, b) BY <2>2, <2>3, <2>4, <2>5 DEF Tokens!IsString
    <2> QED BY <2>6 DEF b
  <1> QED BY <1>2, <1>3 DEF q

-----------------------------------------------------------------------------
(* Numbers: what a result consumes, where it begins and ends. *)

NumberAt(p, r) ==
  /\ r[2] \in Nat /\ p <= r[2] /\ r[2] <= Len(text)
  /\ r[1] = "ok" => p < r[2] /\ Tokens!AllIn(p, r[2], Tokens!NumChar)

LEMMA NumCharLemma == NumChar = Tokens!NumChar /\ Digit \subseteq NumChar /\ "-" \in NumChar
  BY DEF NumChar, Digit, Tokens!NumChar

LEMMA UnsignedLemma ==
  ASSUME IInv, NEW p \in Nat, p <= Len(text)
  PROVE  \A r \in Unsigned(p) : NumberAt(p, r)
  <1>1. Len(text) \in Nat BY TextLemma
  <1>2. CASE p = Len(text) BY <1>1, <1>2 DEF Unsigned, NumberAt
  <1>3. CASE p < Len(text) /\ text[p + 1] = "0"
    <2>1. Unsigned(p) = {<<"ok", p + 1>>} BY <1>1, <1>3 DEF Unsigned
    <2>2. Tokens!AllIn(p, p + 1, Tokens!NumChar)
      <3>1. \A k \in (p + 1)..(p + 1) : k = p + 1 OBVIOUS
      <3> QED BY <3>1, <1>3 DEF Tokens!AllIn, Tokens!NumChar
    <2> QED BY <2>1, <2>2, <1>1, <1>3 DEF NumberAt
  <1>4. CASE p < Len(text) /\ text[p + 1] /= "0" /\ text[p + 1] \notin Digit
    <2>1. Unsigned(p) = {<<"InvalidType", p>>} BY <1>1, <1>4 DEF Unsigned
    <2> QED BY <2>1, <1>1, <1>4 DEF NumberAt
  <1>5. CASE p < Len(text) /\ text[p + 1] /= "0" /\ text[p + 1] \in Digit
    <2> DEFINE e == EndOf(p, Digit)
    <2>1. Unsigned(p) \subseteq {<<"ok", e>>, <<"InvalidNumber", p + 1>>}
      BY <1>1, <1>5 DEF Unsigned
    <2>2. /\ e \in Nat /\ p <= e /\ e <= Len(text)
          /\ e = Len(text) \/ text[e + 1] \notin Digit
          /\ Tokens!AllIn(p, e, Digit)
      BY EndLemma
    <2> HIDE DEF e
    <2>3. p < e BY <2>2, <1>1, <1>5
    <2>4. Tokens!AllIn(p, e, Tokens!NumChar) BY <2>2, NumCharLemma DEF Tokens!AllIn
    <2> QED BY <2>1, <2>2, <2>3, <2>4, <1>1, <1>5 DEF NumberAt
  <1> QED BY <1>1, <1>2, <1>3, <1>4, <1>5

LEMMA IntegerLemma ==
  ASSUME IInv, NEW p \in Nat, p < Len(text)
  PROVE  \A r \in Integer(p) : NumberAt(p, r)
  <1>1. Len(text) \in Nat /\ p + 1 \in Nat /\ p + 1 <= Len(text) BY TextLemma
  <1>2. CASE text[p + 1] /= "-"
    <2>1. Integer(p) = Unsigned(p) BY <1>2 DEF Integer
    <2> QED BY <2>1, <1>1, UnsignedLemma
  <1>3. CASE text[p + 1] = "-"
    <2> SUFFICES ASSUME NEW r \in Integer(p) PROVE NumberAt(p, r) OBVIOUS
    <2>1. r = <<"InvalidNumber", p>> \/ r \in Unsigned(p + 1) BY <1>3 DEF Integer
    <2>2. CASE r = <<"InvalidNumber", p>> BY <2>2, <1>1 DEF NumberAt
    <2>3. CASE r \in Unsigned(p + 1)
      <3>1. NumberAt(p + 1, r) BY <2>3, <1>1, UnsignedLemma
      <3>2. ASSUME r[1] = "ok" PROVE Tokens!AllIn(p, r[2], Tokens!NumChar)
        <4>1. Tokens!AllIn(p + 1, r[2], Tokens!NumChar) /\ r[2] \in Nat
          BY <3>1, <3>2 DEF NumberAt
        <4> SUFFICES ASSUME NEW k \in (p + 1)..r[2] PROVE text[k] \in Tokens!NumChar
          BY DEF Tokens!AllIn
        <4>2. k = p + 1 \/ k \in (p + 1 + 1)..r[2] BY <4>1
        <4>3. text[p + 1] \in Tokens!NumChar BY <1>3 DEF Tokens!NumChar
        <4> QED BY <4>1, <4>2, <4>3 DEF Tokens!AllIn
      <3> QED BY <3>1, <3>2, <1>1 DEF NumberAt
    <2> QED BY <2>1, <2>2, <2>3
  <1> QED BY <1>2, <1>3

LEMMA RunLemma ==
  ASSUME IInv, NEW p \in Nat, p <= Len(text)
  PROVE  /\ RunEnd(p) \in Nat /\ p <= RunEnd(p) /\ RunEnd(p) <= Len(text)
         /\ Tokens!AllIn(p, RunEnd(p), Tokens!NumChar)
         /\ p < Len(text) /\ text[p + 1] \in NumChar => p < RunEnd(p)
         /\ Run(p) /= <<>> => p < RunEnd(p)
  <1> DEFINE e == RunEnd(p)
  <1>1. Len(text) \in Nat BY TextLemma
  <1>2. /\ e \in Nat /\ p <= e /\ e <= Len(text)
        /\ e = Len(text) \/ text[e + 1] \notin NumChar
        /\ Tokens!AllIn(p, e, NumChar)
    BY EndLemma DEF RunEnd
  <1> HIDE DEF e
  <1>3. ASSUME e = p PROVE Run(p) = <<>>
    <2>1. Run(p) = SubSeq(text, p + 1, p) BY <1>3 DEF Run, e
    <2>2. p + 1 \in Int /\ p \in Int /\ ~(p + 1 <= p) BY <1>1
    <2>3. SubSeq(text, p + 1, p) = <<>> BY <2>2 DEF IInv, TypeOK
    <2> QED BY <2>1, <2>3
  <1>4. p < Len(text) /\ text[p + 1] \in NumChar => e /= p BY <1>1, <1>2
  <1> QED BY <1>1, <1>2, <1>3, <1>4, NumCharLemma DEF e

\* Nothing is not a number.
LEMMA NoNumber == ~IsInt(<<>>) /\ ~IsFloat(<<>>)
  <1>1. NoSign(<<>>) = <<>> BY DEF NoSign
  <1>2. ~Digits(<<>>) BY DEF Digits
  <1>3. ~Fraction(<<>>) BY <1>2 DEF Fraction
  <1> QED BY <1>1, <1>2, <1>3 DEF IsInt, IsFloat

LEMMA FloatLemma ==
  ASSUME IInv, NEW p \in Nat, p < Len(text)
  PROVE  /\ \A r \in Float(p) : NumberAt(p, r)
         /\ \A r \in FloatOrInt(p) : NumberAt(p, r)
  <1>1. Len(text) \in Nat /\ p <= Len(text) BY TextLemma
  <1>2. /\ RunEnd(p) \in Nat /\ p <= RunEnd(p) /\ RunEnd(p) <= Len(text)
        /\ Tokens!AllIn(p, RunEnd(p), Tokens!NumChar)
        /\ Run(p) /= <<>> => p < RunEnd(p)
    BY <1>1, RunLemma
  <1>3. NumberAt(p, <<"InvalidNumber", p>>) BY <1>1 DEF NumberAt
  <1>4. IsInt(Run(p)) \/ IsFloat(Run(p)) => NumberAt(p, <<"ok", RunEnd(p)>>)
    BY <1>2, NoNumber DEF NumberAt
  <1>5. \A r \in Float(p) : NumberAt(p, r) BY <1>3, <1>4 DEF Float
  <1> QED BY <1>3, <1>4, <1>5 DEF FloatOrInt

-----------------------------------------------------------------------------
(* The brackets of a stack *)

LEMMA UnderLemma ==
  ASSUME IInv, stack /= <<>>
  PROVE  /\ Under \in Seq(Frames) /\ Len(Under) = Len(stack) - 1
         /\ Len(stack) \in Nat /\ Len(stack) > 0 /\ Top \in Frames
         /\ \A i \in 1..(Len(stack) - 1) : Under[i] = stack[i]
  <1> DEFINE n == Len(stack) - 1
  <1>1. stack \in Seq(Frames) /\ Len(stack) \in Nat /\ Len(stack) > 0 BY DEF IInv, TypeOK
  <1>2. Top \in Frames /\ n \in Nat /\ n <= Len(stack) BY <1>1 DEF Top
  <1>3. \A i \in 1..n : stack[i] \in Frames BY <1>1, <1>2
  <1>4. 1 \in Int /\ n \in Int BY <1>2
  <1> HIDE DEF n
  <1>5. /\ SubSeq(stack, 1, n) \in Seq(Frames)
        /\ Len(SubSeq(stack, 1, n)) = IF 1 <= n THEN n - 1 + 1 ELSE 0
        /\ \A i \in 1..(n - 1 + 1) : SubSeq(stack, 1, n)[i] = stack[1 + i - 1]
    BY <1>3, <1>4, SubSeqProperties
  <1>6. Under = SubSeq(stack, 1, n) BY DEF Under, n
  <1>7. Len(Under) = n
    <2>1. CASE n = 0 BY <2>1, <1>5, <1>6
    <2>2. CASE n > 0 BY <2>2, <1>2, <1>5, <1>6
    <2> QED BY <2>1, <2>2, <1>2
  <1>8. \A i \in 1..n : Under[i] = stack[i] BY <1>2, <1>5, <1>6
  <1> QED BY <1>1, <1>2, <1>5, <1>6, <1>7, <1>8 DEF n

Closers == {"]", "}"}

LEMMA BracketsLemma ==
  ASSUME NEW s \in Seq(Frames)
  PROVE  /\ Brackets(s) \in Seq(Closers) /\ Len(Brackets(s)) = Len(s) /\ Len(s) \in Nat
         /\ \A k \in 1..Len(s) : Brackets(s)[k] = CloserOf(s[k])
         /\ Brackets(s) = <<>> <=> s = <<>>
  <1> DEFINE n == Len(s)
  <1>1. n \in Nat /\ (n = 0 <=> s = <<>>) OBVIOUS
  <1>2. Brackets(s) = [k \in 1..n |-> CloserOf(s[k])] BY DEF Brackets
  <1>3. \A k \in 1..n : CloserOf(s[k]) \in Closers BY DEF CloserOf, Closers
  <1> HIDE DEF n
  <1>4. Brackets(s) \in [1..n -> Closers] BY <1>2, <1>3
  <1>5. Brackets(s) \in Seq(Closers) /\ Len(Brackets(s)) = n BY <1>1, <1>4
  <1>6. Brackets(s) = <<>> <=> n = 0 BY <1>1, <1>5
  <1> QED BY <1>1, <1>2, <1>5, <1>6 DEF n

\* One more bracket on top.
LEMMA PushLemma ==
  ASSUME NEW s \in Seq(Frames), NEW f \in Frames
  PROVE  /\ Append(s, f) \in Seq(Frames) /\ Len(Append(s, f)) = Len(s) + 1
         /\ Append(s, f)[Len(s) + 1] = f /\ \A k \in 1..Len(s) : Append(s, f)[k] = s[k]
         /\ Brackets(Append(s, f)) = Append(Brackets(s), CloserOf(f))
  <1> DEFINE n == Len(s)
             A == Append(s, f)
             B == Brackets(s)
             c == CloserOf(f)
  <1>1. n \in Nat /\ A \in Seq(Frames) /\ Len(A) = n + 1 /\ A[n + 1] = f
        /\ \A k \in 1..n : A[k] = s[k]
    OBVIOUS
  <1>2. B \in Seq(Closers) /\ Len(B) = n /\ \A k \in 1..n : B[k] = CloserOf(s[k])
    BY BracketsLemma
  <1>3. c \in Closers BY DEF CloserOf, Closers
  <1> HIDE DEF c
  <1>4. c = CloserOf(f) BY DEF c
  <1> HIDE DEF A, B, n
  <1>5. Brackets(A) \in Seq(Closers) /\ Len(Brackets(A)) = n + 1
        /\ \A k \in 1..(n + 1) : Brackets(A)[k] = CloserOf(A[k])
    BY <1>1, BracketsLemma
  <1>6. Append(B, c) \in Seq(Closers) /\ Len(Append(B, c)) = n + 1 /\ Append(B, c)[n + 1] = c
        /\ \A k \in 1..n : Append(B, c)[k] = B[k]
    BY <1>1, <1>2, <1>3
  <1>7. \A k \in 1..(n + 1) : Brackets(A)[k] = Append(B, c)[k]
    <2> SUFFICES ASSUME NEW k \in 1..(n + 1) PROVE Brackets(A)[k] = Append(B, c)[k] OBVIOUS
    <2>1. CASE k = n + 1 BY <2>1, <1>1, <1>4, <1>5, <1>6
    <2>2. CASE k \in 1..n BY <2>2, <1>1, <1>2, <1>4, <1>5, <1>6
    <2>3. n \in Nat BY <1>1
    <2>4. k = n + 1 \/ k \in 1..n BY <2>3
    <2> QED BY <2>1, <2>2, <2>4
  <1>8. Brackets(A) = Append(B, c) BY <1>5, <1>6, <1>7, SeqEqual
  <1> QED BY <1>1, <1>8 DEF A, B, c, n

\* The brackets after a step that closes the innermost, or begins it.
LEMMA UnderBrackets ==
  ASSUME IInv, stack /= <<>>
  PROVE  Brackets(Under) = SubSeq(Brackets(stack), 1, Len(Brackets(stack)) - 1)
  <1> DEFINE n == Len(stack)
             m == n - 1
             B == Brackets(stack)
             U == Under
             S == SubSeq(B, 1, m)
  <1>1. stack \in Seq(Frames) BY DEF IInv, TypeOK
  <1>2. /\ U \in Seq(Frames) /\ Len(U) = m /\ n \in Nat /\ m \in Nat
        /\ \A i \in 1..m : U[i] = stack[i]
    BY UnderLemma
  <1>3. B \in Seq(Closers) /\ Len(B) = n /\ \A k \in 1..n : B[k] = CloserOf(stack[k])
    BY <1>1, BracketsLemma
  <1>4. n = m + 1 BY <1>2
  <1> HIDE DEF n, m, B, U
  <1>5. /\ Brackets(U) \in Seq(Closers) /\ Len(Brackets(U)) = m
        /\ \A k \in 1..m : Brackets(U)[k] = CloserOf(U[k])
    BY <1>2, BracketsLemma
  <1>6. \A i \in 1..m : B[i] \in Closers BY <1>2, <1>3, <1>4
  <1>7. 1 \in Int /\ m \in Int BY <1>2
  <1>8. /\ S \in Seq(Closers) /\ Len(S) = IF 1 <= m THEN m - 1 + 1 ELSE 0
        /\ \A i \in 1..(m - 1 + 1) : S[i] = B[1 + i - 1]
    BY <1>6, <1>7, SubSeqProperties
  <1> HIDE DEF S
  <1>9. Len(S) = m BY <1>2, <1>8
  <1>10. \A i \in 1..m : S[i] = B[i] BY <1>2, <1>8
  <1>11. \A i \in 1..m : Brackets(U)[i] = S[i] BY <1>2, <1>3, <1>4, <1>5, <1>10
  <1>12. Brackets(U) = S BY <1>5, <1>8, <1>9, <1>11, SeqEqual
  <1>13. Len(B) - 1 = m BY <1>2, <1>3, <1>4
  <1> QED BY <1>12, <1>13 DEF U, S, B

LEMMA BeganLemma ==
  ASSUME IInv, stack /= <<>>
  PROVE  LET s == Append(Under, Began(Top)) IN
         /\ s \in Seq(Frames) /\ s /= <<>> /\ Len(s) = Len(stack) /\ s[Len(s)] = Began(Top)
         /\ Began(Top).kind = Top.kind /\ Began(Top).first = FALSE
         /\ AllBegun(s) /\ Brackets(s) = Brackets(stack)
  <1> DEFINE n == Len(stack)
             f == Began(Top)
             s == Append(Under, f)
  <1>1. stack \in Seq(Frames) BY DEF IInv, TypeOK
  <1>2. /\ Under \in Seq(Frames) /\ Len(Under) = n - 1 /\ n \in Nat /\ n > 0 /\ Top \in Frames
        /\ \A i \in 1..(n - 1) : Under[i] = stack[i]
    BY UnderLemma
  <1>3. /\ f \in Frames /\ f.kind = Top.kind /\ f.first = FALSE
    BY <1>2 DEF Frames, Began
  <1>4. CloserOf(f) = CloserOf(Top) BY <1>3 DEF CloserOf
  <1>5. Top = stack[n] BY DEF Top
  <1> HIDE DEF f, n
  <1>6. /\ s \in Seq(Frames) /\ Len(s) = n - 1 + 1 /\ s[n - 1 + 1] = f
        /\ \A k \in 1..(n - 1) : s[k] = Under[k]
    BY <1>2, <1>3, PushLemma
  <1> HIDE DEF s
  <1>7. Len(s) = n /\ s[n] = f /\ \A k \in 1..(n - 1) : s[k] = stack[k] BY <1>2, <1>6
  <1>8. s /= <<>> BY <1>2, <1>6, <1>7
  <1>9. AllBegun(s) BY <1>2, <1>7 DEF IInv, AllBegun, n
  <1>10. Brackets(s) = Brackets(stack)
    <2>1. \A k \in 1..n : CloserOf(s[k]) = CloserOf(stack[k])
      <3> SUFFICES ASSUME NEW k \in 1..n PROVE CloserOf(s[k]) = CloserOf(stack[k]) OBVIOUS
      <3>1. k = n \/ k \in 1..(n - 1) BY <1>2
      <3> QED BY <3>1, <1>4, <1>5, <1>7
    <2>2. Brackets(s) = [k \in 1..n |-> CloserOf(s[k])] BY <1>7 DEF Brackets
    <2>3. Brackets(stack) = [k \in 1..n |-> CloserOf(stack[k])] BY DEF Brackets, n
    <2> QED BY <2>1, <2>2, <2>3
  <1> QED BY <1>3, <1>6, <1>7, <1>8, <1>9, <1>10 DEF s, f, n

LEMMA TopLemma ==
  ASSUME IInv, stack /= <<>>
  PROVE  Brackets(stack) /= <<>> /\ Brackets(stack)[Len(Brackets(stack))] = Closer
  <1>1. stack \in Seq(Frames) BY DEF IInv, TypeOK
  <1>2. Len(stack) \in Nat /\ Len(stack) > 0 BY UnderLemma
  <1> QED BY <1>1, <1>2, BracketsLemma DEF Closer, Top

-----------------------------------------------------------------------------
(* Steps: what the parts of the actions do to the invariant and the tokens *)

\* What is read next fits the brackets.
Fits(s, t) ==
  \/ t = "value" /\ (s /= <<>> => s[Len(s)].kind /= "variant" /\ ~s[Len(s)].first)
  \/ t = "item" /\ s /= <<>> /\ s[Len(s)].kind /= "variant"
  \/ t \in {"key", "colon"} /\ s /= <<>> /\ s[Len(s)].kind = "map" /\ ~s[Len(s)].first
  \/ t \in {"name", "colon", "content", "end"} /\ s /= <<>> /\ s[Len(s)].kind = "variant"

\* A place the cursor may go to.
Ahead(i) == i \in Nat /\ index <= i /\ i <= Len(text)

LEMMA FitsNow ==
  ASSUME IInv, pc = "busy"
  PROVE  Fits(stack, todo)
  BY DEF IInv, TypeOK, Fits, Top

LEMMA GoLemma ==
  ASSUME IInv, pc = "busy", Keep, NEW i, Ahead(i), NEW s \in Seq(Frames), NEW t, Go(i, s, t),
         Fits(s, t), AllBegun(s), t = "key" => i < Len(text) /\ text[i + 1] = QU
  PROVE  IInv'
  <1>1. /\ index' = i /\ stack' = s /\ todo' = t /\ pc' = pc /\ text' = text
        /\ op' = op /\ start' = start
    BY DEF Go, Keep
  <1>2. /\ text \in Seq(Units) /\ index \in Nat /\ index <= Len(text) /\ start \in Nat
        /\ start <= index /\ Len(text) \in Nat /\ op \in {"none", "any", "ignored", "typed"}
    BY DEF IInv, TypeOK
  <1>3. index' \in 0..Len(text') /\ start' \in 0..index' BY <1>1, <1>2 DEF Ahead
  <1>4. t /= "none" BY DEF Fits
  <1>5. TypeOK' BY <1>1, <1>2, <1>3, <1>4 DEF TypeOK, Fits, Top
  <1>6. AllBegun(stack)' BY <1>1 DEF AllBegun
  <1>7. KeyQuoted' BY <1>1 DEF KeyQuoted
  <1> QED BY <1>5, <1>6, <1>7 DEF IInv

LEMMA BreakStep ==
  ASSUME IInv, pc \in {"busy", "ok"}, Keep, NEW e, NEW i, Ahead(i), Fail(e, i)
  PROVE  Good
  <1>1. /\ index' = i /\ stack' = <<>> /\ todo' = "none" /\ pc' = "failed" /\ text' = text
        /\ op' = op /\ start' = start
    BY DEF Fail, Keep
  <1>2. /\ text \in Seq(Units) /\ index \in Nat /\ index <= Len(text) /\ start \in Nat
        /\ start <= index /\ Len(text) \in Nat /\ op \in {"none", "any", "ignored", "typed"}
    BY DEF IInv, TypeOK
  <1>3. index' \in 0..Len(text') /\ start' \in 0..index' BY <1>1, <1>2 DEF Ahead
  <1>4. <<>> \in Seq(Frames) /\ Len(<<>>) = 0 OBVIOUS
  <1>5. TypeOK' BY <1>1, <1>2, <1>3, <1>4 DEF TypeOK
  <1>6. AllBegun(stack)' BY <1>1, <1>4 DEF AllBegun
  <1>7. KeyQuoted' BY <1>1 DEF KeyQuoted
  <1>8. Brackets(stack)' = <<>> BY <1>1, <1>4 DEF Brackets
  <1>9. index' \in index..Len(text) BY <1>1, <1>2 DEF Ahead
  <1>10. Tokens!Break
    BY <1>1, <1>8, <1>9 DEF Tokens!Break, Tokens!Busy, Wanted, Status
  <1> QED BY <1>5, <1>6, <1>7, <1>10 DEF Good, IInv, Tokens!Next

\* A value has ended.
LEMMA DoneLemma ==
  ASSUME IInv, pc = "busy", Keep, NEW i, Ahead(i), NEW s \in Seq(Frames), Done(i, s), AllBegun(s),
         s /= <<>> /\ s[Len(s)].kind /= "variant" => ~s[Len(s)].first
  PROVE  IInv' /\ Tokens!Ended(Brackets(s)) /\ index' = i
  <1>1. /\ index' = i /\ stack' = s /\ text' = text /\ op' = op /\ start' = start
        /\ todo' = IF s = <<>> THEN "none" ELSE IF s[Len(s)].kind = "variant" THEN "end" ELSE "item"
        /\ pc' = IF s = <<>> THEN "ok" ELSE pc
    BY DEF Done, Keep
  <1>2. /\ text \in Seq(Units) /\ index \in Nat /\ index <= Len(text) /\ start \in Nat
        /\ start <= index /\ Len(text) \in Nat /\ op \in {"none", "any", "ignored", "typed"}
    BY DEF IInv, TypeOK
  <1>3. index' \in 0..Len(text') /\ start' \in 0..index' BY <1>1, <1>2 DEF Ahead
  <1>4. TypeOK' BY <1>1, <1>2, <1>3 DEF TypeOK, Top
  <1>5. AllBegun(stack)' BY <1>1 DEF AllBegun
  <1>6. KeyQuoted' BY <1>1 DEF KeyQuoted
  <1>7. Brackets(stack)' = Brackets(s) BY <1>1 DEF Brackets
  <1>8. Brackets(s) = <<>> <=> s = <<>> BY BracketsLemma
  <1>9. CASE s = <<>>
    <2>1. todo' = "none" /\ pc' = "ok" BY <1>1, <1>9
    <2>2. Status' = "complete" /\ Wanted' = "none" BY <2>1 DEF Status, Wanted
    <2>3. Tokens!Ended(Brackets(s)) BY <1>1, <1>7, <1>8, <1>9, <2>2 DEF Tokens!Ended
    <2> QED BY <2>3, <1>1, <1>4, <1>5, <1>6 DEF IInv
  <1>10. CASE s /= <<>>
    <2>1. pc' = pc BY <1>1, <1>10
    <2>2. Status' = Status BY <2>1 DEF Status
    <2>3. Wanted' = "comma" BY <1>1, <1>10 DEF Wanted, Top
    <2>4. Tokens!Ended(Brackets(s)) BY <1>1, <1>7, <1>8, <1>10, <2>2, <2>3 DEF Tokens!Ended
    <2> QED BY <2>4, <1>1, <1>4, <1>5, <1>6 DEF IInv
  <1> QED BY <1>9, <1>10

\* The cursor passes blanks, the units from At to q, and blanks again.
LEMMA PassLemma ==
  ASSUME IInv, NEW q \in Nat, NEW i, At <= q, q <= i, Ahead(i), Tokens!AllIn(q, i, Tokens!Blank),
         index' = i
  PROVE  At \in Tokens!From /\ q \in Tokens!To /\ index' \in index..Len(text)
  <1>1. /\ At \in Nat /\ index <= At /\ Tokens!AllIn(index, At, Tokens!Blank)
    BY AtLemma
  <1>2. index \in Nat /\ Len(text) \in Nat BY TextLemma
  <1>3. i \in Nat /\ index <= i /\ i <= Len(text) BY DEF Ahead
  <1> HIDE DEF At
  <1>4. At \in index..index' /\ q \in index..index' BY <1>1, <1>2, <1>3
  <1>5. index' \in index..Len(text) BY <1>2, <1>3
  <1> QED BY <1>1, <1>4, <1>5 DEF Tokens!From, Tokens!To

LEMMA NatLemma == \A n \in Nat : n + 1 \in Nat /\ n <= n + 1 /\ n <= n /\ n + 1 <= n + 1
  OBVIOUS

LEMMA NoBlanks ==
  ASSUME NEW q \in Nat, NEW S
  PROVE  Tokens!AllIn(q, q, S)
  <1>1. (q + 1)..q = {} OBVIOUS
  <1> QED BY <1>1 DEF Tokens!AllIn

\* The unit at At, and the blanks behind it, are one mark.
LEMMA MarkLemma ==
  ASSUME IInv, More, NEW i, Ahead(i), At + 1 <= i, Tokens!AllIn(At + 1, i, Tokens!Blank), index' = i
  PROVE  Tokens!Mark(Unit)
  <1>1. At \in Nat /\ At + 1 \in Nat /\ At <= At + 1
    <2>1. At \in Nat BY AtLemma
    <2> QED BY <2>1, NatLemma
  <1>2. At \in Tokens!From /\ At + 1 \in Tokens!To /\ index' \in index..Len(text)
    BY <1>1, PassLemma
  <1>3. Tokens!IsMark(At, At + 1, Unit) BY DEF Tokens!IsMark, Unit
  <1> QED BY <1>2, <1>3 DEF Tokens!Mark

LEMMA AheadLemma ==
  ASSUME IInv
  PROVE  /\ Ahead(index) /\ Ahead(At)
         /\ More => Ahead(At + 1) /\ At + 1 \in Nat /\ At + 1 <= Len(text)
  <1>1. /\ At \in Nat /\ index <= At /\ At <= Len(text) /\ index \in Nat /\ index <= Len(text)
        /\ Len(text) \in Nat
    BY AtLemma, TextLemma
  <1> HIDE DEF At
  <1> QED BY <1>1 DEF Ahead, More

LEMMA ValueLemma ==
  ASSUME IInv, Value
  PROVE  /\ pc = "busy" /\ More /\ Status = "busy" /\ Wanted = "value" /\ stack \in Seq(Frames)
         /\ AllBegun(stack)
         /\ stack /= <<>> /\ Top.kind /= "variant" => ~Top.first
         /\ stack = <<>> => todo = "value"
  <1>1. pc = "busy" /\ More /\ todo \in {"value", "content"} BY DEF Value, Busy
  <1>2. Status = "busy" BY <1>1 DEF Status
  <1>3. Wanted = "value" BY <1>1 DEF Wanted
  <1>4. Fits(stack, todo) BY <1>1, FitsNow
  <1> QED BY <1>1, <1>2, <1>3, <1>4 DEF IInv, TypeOK, Fits, Top

\* A string, a number or a literal is read.
LEMMA ScalarStep ==
  ASSUME IInv, Value, Keep, NEW q, Ahead(q), At <= q, Tokens!IsScalar(At, q), Done(q, stack)
  PROVE  Good
  <1>1. /\ pc = "busy" /\ Status = "busy" /\ Wanted = "value" /\ stack \in Seq(Frames)
        /\ AllBegun(stack) /\ (stack /= <<>> /\ stack[Len(stack)].kind /= "variant" => ~stack[Len(stack)].first)
    BY ValueLemma DEF Top
  <1>2. IInv' /\ Tokens!Ended(Brackets(stack)) /\ index' = q BY <1>1, DoneLemma
  <1>3. q \in Nat /\ q <= q BY DEF Ahead
  <1>4. At \in Tokens!From /\ q \in Tokens!To /\ index' \in index..Len(text)
    BY <1>2, <1>3, NoBlanks, PassLemma
  <1>5. Tokens!Scalar BY <1>1, <1>2, <1>4 DEF Tokens!Scalar, Tokens!Busy
  <1> QED BY <1>2, <1>5 DEF Good, Tokens!Next

LEMMA PushBegun ==
  ASSUME NEW s \in Seq(Frames), AllBegun(s), NEW f \in Frames,
         s /= <<>> /\ s[Len(s)].kind /= "variant" => ~s[Len(s)].first
  PROVE  /\ Append(s, f) \in Seq(Frames) /\ Append(s, f) /= <<>>
         /\ Append(s, f)[Len(Append(s, f))] = f /\ AllBegun(Append(s, f))
         /\ Brackets(Append(s, f)) = Append(Brackets(s), CloserOf(f))
  <1> DEFINE n == Len(s)
             A == Append(s, f)
  <1>1. n \in Nat /\ (s = <<>> => n = 0) OBVIOUS
  <1>2. /\ A \in Seq(Frames) /\ Len(A) = n + 1 /\ A[n + 1] = f /\ \A j \in 1..n : A[j] = s[j]
        /\ Brackets(A) = Append(Brackets(s), CloserOf(f))
    BY PushLemma
  <1>3. \A k \in 1..(n - 1) : s[k].kind /= "variant" => ~s[k].first BY DEF AllBegun
  <1>4. s /= <<>> /\ s[n].kind /= "variant" => ~s[n].first OBVIOUS
  <1> HIDE DEF n, A
  <1>5. n \in Nat BY <1>1
  <1>6. A /= <<>> /\ A[Len(A)] = f
    <2>1. Len(A) /= 0 /\ Len(<<>>) = 0 BY <1>2, <1>5
    <2> QED BY <2>1, <1>2
  <1>7. AllBegun(A)
    <2> SUFFICES ASSUME NEW j \in 1..(Len(A) - 1), A[j].kind /= "variant" PROVE ~A[j].first
      BY DEF AllBegun
    <2>0. Len(A) - 1 = n BY <1>2, <1>5
    <2>1. j \in 1..n BY <2>0
    <2>2. A[j] = s[j] BY <2>1, <1>2
    <2>3. n /= 0 BY <2>1, <1>5
    <2>4. CASE j = n BY <2>2, <2>3, <2>4, <1>1, <1>4
    <2>5. CASE j \in 1..(n - 1) BY <2>2, <2>5, <1>3
    <2>6. j = n \/ j \in 1..(n - 1) BY <2>1, <1>5
    <2> QED BY <2>4, <2>5, <2>6
  <1> QED BY <1>2, <1>6, <1>7 DEF A

\* A bracket is opened.
LEMMA OpenStep ==
  ASSUME IInv, Value, Keep, NEW k \in {"seq", "map", "variant"},
         NEW t, t = IF k = "variant" THEN "name" ELSE "item",
         Unit = IF k = "seq" THEN "[" ELSE "{",
         Go(At + 1, Append(stack, Frame(k)), t)
  PROVE  Good
  <1> DEFINE f == Frame(k)
             s == Append(stack, f)
  <1>1. /\ pc = "busy" /\ More /\ Status = "busy" /\ Wanted = "value" /\ stack \in Seq(Frames)
        /\ AllBegun(stack) /\ (stack /= <<>> /\ Top.kind /= "variant" => ~Top.first)
    BY ValueLemma
  <1>2. f \in Frames /\ f.kind = k /\ f.first = TRUE BY DEF Frame, Frames
  <1>3. f = Frame(k) OBVIOUS
  <1> HIDE DEF f
  <1>4. /\ s \in Seq(Frames) /\ s /= <<>> /\ s[Len(s)] = f /\ AllBegun(s)
        /\ Brackets(s) = Append(Brackets(stack), CloserOf(f))
    BY <1>1, <1>2, PushBegun DEF Top
  <1>5. s = Append(stack, f) OBVIOUS
  <1> HIDE DEF s
  <1>6. Fits(s, t) BY <1>2, <1>4 DEF Fits
  <1>7. Ahead(At + 1) /\ At + 1 \in Nat BY <1>1, AheadLemma
  <1>8. Go(At + 1, s, t) BY <1>3, <1>5
  <1>9. t /= "key" OBVIOUS
  <1>10. IInv' BY <1>1, <1>4, <1>6, <1>7, <1>8, <1>9, GoLemma
  <1>11. index' = At + 1 /\ stack' = s /\ todo' = t /\ pc' = pc /\ text' = text
    BY <1>8 DEF Go, Keep
  <1>12. Tokens!Mark(Unit)
    <2>1. At + 1 <= At + 1 BY <1>7, NatLemma
    <2> QED BY <1>1, <1>7, <1>11, <2>1, NoBlanks, MarkLemma
  <1>13. Brackets(stack)' = Append(Brackets(stack), CloserOf(f)) BY <1>4, <1>11 DEF Brackets
  <1>14. Status' = Status BY <1>11 DEF Status
  <1>15. Wanted' = "first" BY <1>2, <1>4, <1>11 DEF Wanted, Top
  <1>16. Tokens!Open(Unit, CloserOf(f))
    BY <1>1, <1>11, <1>12, <1>13, <1>14, <1>15 DEF Tokens!Open, Tokens!Busy, Tokens!Then
  <1>17. Tokens!Open("[", "]") \/ Tokens!Open("{", "}")
    <2>1. CASE k = "seq" BY <2>1, <1>2, <1>16 DEF CloserOf
    <2>2. CASE k /= "seq" BY <2>2, <1>2, <1>16 DEF CloserOf
    <2> QED BY <2>1, <2>2
  <1> QED BY <1>10, <1>17 DEF Good, Tokens!Next

\* The innermost bracket is closed.
LEMMA CloseStep ==
  ASSUME IInv, pc = "busy", More, Keep, todo \in {"item", "end"}, stack /= <<>>,
         Unit = Closer, Done(At + 1, Under)
  PROVE  Good
  <1> DEFINE n == Len(stack)
             m == n - 1
             U == Under
  <1>1. /\ U \in Seq(Frames) /\ Len(U) = m /\ n \in Nat /\ m \in Nat
        /\ \A i \in 1..m : U[i] = stack[i]
    BY UnderLemma
  <1>2. \A k \in 1..m : stack[k].kind /= "variant" => ~stack[k].first BY DEF IInv, AllBegun
  <1>3. Brackets(U) = SubSeq(Brackets(stack), 1, Len(Brackets(stack)) - 1) BY UnderBrackets
  <1>4. Done(At + 1, U) OBVIOUS
  <1> HIDE DEF m, n, U
  <1>5. \A k \in 1..m : U[k].kind /= "variant" => ~U[k].first BY <1>1, <1>2
  <1>6. AllBegun(U) BY <1>1, <1>5 DEF AllBegun
  <1>7. U /= <<>> /\ U[Len(U)].kind /= "variant" => ~U[Len(U)].first
    <2> SUFFICES ASSUME U /= <<>> PROVE m \in 1..m BY <1>1, <1>5
    <2>1. m /= 0 BY <1>1
    <2> QED BY <2>1, <1>1
  <1>8. Ahead(At + 1) /\ At + 1 \in Nat BY AheadLemma
  <1>9. IInv' /\ Tokens!Ended(Brackets(U)) /\ index' = At + 1
    BY <1>1, <1>4, <1>6, <1>7, <1>8, DoneLemma
  <1>10. At + 1 <= At + 1 BY <1>8, NatLemma
  <1>11. Tokens!Mark(Unit) BY <1>8, <1>9, <1>10, NoBlanks, MarkLemma
  <1>12. Brackets(stack) /= <<>> /\ Tokens!Innermost = Unit BY TopLemma DEF Tokens!Innermost
  <1>13. Status = "busy" /\ Wanted \in {"first", "comma"} BY DEF Status, Wanted
  <1>14. Tokens!Close BY <1>3, <1>9, <1>11, <1>12, <1>13 DEF Tokens!Close, Tokens!Busy
  <1> QED BY <1>9, <1>14 DEF Good, Tokens!Next

LEMMA NextAtLemma ==
  ASSUME IInv, More
  PROVE  Ahead(NextAt) /\ At + 1 <= NextAt /\ Tokens!AllIn(At + 1, NextAt, Tokens!Blank)
  <1>1. At + 1 \in Nat /\ At + 1 <= Len(text) BY AheadLemma
  <1>2. index \in Nat /\ index <= At /\ At \in Nat BY AtLemma, TextLemma
  <1>3. /\ NextAt \in Nat /\ At + 1 <= NextAt /\ NextAt <= Len(text)
        /\ Tokens!AllIn(At + 1, NextAt, Blank)
    BY <1>1, EndLemma DEF NextAt, BlankEnd
  <1>4. index <= NextAt BY <1>2, <1>3
  <1> QED BY <1>3, <1>4 DEF Ahead, Blank, Tokens!Blank

\* There is an item: a comma is passed, or nothing but blanks.
LEMMA ItemStep ==
  ASSUME IInv, pc = "busy", More, Keep, todo = "item", Top.kind \in {"seq", "map"}, HasItem,
         Top.kind = "map" => text[ItemAt + 1] = QU,
         NEW t, t = IF Top.kind = "seq" THEN "value" ELSE "key",
         Go(ItemAt, Append(Under, Began(Top)), t)
  PROVE  Good
  <1> DEFINE s == Append(Under, Began(Top))
  <1>1. stack /= <<>> BY FitsNow DEF Fits
  <1>2. /\ s \in Seq(Frames) /\ s /= <<>> /\ s[Len(s)] = Began(Top)
        /\ Began(Top).kind = Top.kind /\ Began(Top).first = FALSE
        /\ AllBegun(s) /\ Brackets(s) = Brackets(stack)
    BY <1>1, BeganLemma
  <1>3. Go(ItemAt, s, t) OBVIOUS
  <1> HIDE DEF s
  <1>4. Ahead(ItemAt) /\ ItemAt < Len(text) BY AheadLemma, NextAtLemma DEF ItemAt, HasItem, More
  <1>5. Fits(s, t) BY <1>2 DEF Fits
  <1>6. IInv' BY <1>2, <1>3, <1>4, <1>5, GoLemma
  <1>7. index' = ItemAt /\ stack' = s /\ todo' = t /\ pc' = pc /\ text' = text BY <1>3 DEF Go, Keep
  <1>8. Brackets(stack)' = Brackets(stack) BY <1>2, <1>7 DEF Brackets
  <1>9. Status = "busy" /\ Status' = Status BY <1>7 DEF Status
  <1>10. Wanted' = t BY <1>7 DEF Wanted
  <1>11. Brackets(stack) /= <<>> /\ Tokens!Innermost = Closer BY <1>1, TopLemma DEF Tokens!Innermost
  <1>12. t = IF Tokens!Innermost = "]" THEN "value" ELSE "key" BY <1>11 DEF Closer, CloserOf
  <1>13. CASE Unit = ","
    <2>1. ItemAt = NextAt /\ ~Top.first BY <1>13 DEF ItemAt, HasItem
    <2>2. Wanted = "comma" BY <2>1 DEF Wanted
    <2>3. Tokens!Mark(Unit) BY <2>1, <1>7, NextAtLemma, MarkLemma
    <2>4. Tokens!Comma
      BY <2>2, <2>3, <1>7, <1>8, <1>9, <1>10, <1>11, <1>12, <1>13
      DEF Tokens!Comma, Tokens!Busy, Tokens!Then
    <2> QED BY <2>4, <1>6 DEF Good, Tokens!Next
  <1>14. CASE Unit /= ","
    <2>1. ItemAt = At /\ Top.first BY <1>14 DEF ItemAt, HasItem
    <2>2. Wanted = "first" BY <2>1 DEF Wanted
    <2>3. index' \in index..Len(text) /\ Tokens!AllIn(index, index', Tokens!Blank)
      <3>1. index' = At BY <2>1, <1>7
      <3>2. At \in Nat /\ index <= At /\ At <= Len(text) /\ Tokens!AllIn(index, At, Tokens!Blank)
        BY AtLemma
      <3>3. index \in Nat /\ Len(text) \in Nat BY TextLemma
      <3>4. At \in index..Len(text) BY <3>2, <3>3
      <3> QED BY <3>1, <3>2, <3>4
    <2>4. Tokens!Item
      BY <2>2, <2>3, <1>7, <1>8, <1>9, <1>10, <1>11, <1>12
      DEF Tokens!Item, Tokens!Busy, Tokens!Then
    <2> QED BY <2>4, <1>6 DEF Good, Tokens!Next
  <1> QED BY <1>13, <1>14

\* Behind the content of a key or the name of a variant.
LEMMA KeyStep ==
  ASSUME IInv, pc = "busy", Keep, todo \in {"key", "name"}, NEW a \in Nat, NEW b \in Nat,
         index <= a, Tokens!AllIn(index, a, Tokens!Blank), a <= b, Ahead(b),
         Tokens!IsString(a, b), Go(b, stack, "colon")
  PROVE  Good
  <1>1. Fits(stack, todo) BY FitsNow
  <1>2. stack \in Seq(Frames) /\ AllBegun(stack) /\ stack /= <<>> BY <1>1 DEF IInv, TypeOK, Fits
  <1>3. Fits(stack, "colon") BY <1>1 DEF Fits
  <1>4. IInv' BY <1>2, <1>3, GoLemma
  <1>5. index' = b /\ stack' = stack /\ todo' = "colon" /\ pc' = pc /\ text' = text BY DEF Go, Keep
  <1>6. Brackets(stack)' = Brackets(stack) BY <1>5 DEF Brackets
  <1>7. Status = "busy" /\ Status' = Status BY <1>5 DEF Status
  <1>8. Wanted' = "colon" BY <1>5 DEF Wanted
  <1>9. Wanted = "key" \/ (Wanted = "first" /\ Tokens!Innermost = "}")
    <2>1. CASE todo = "key" BY <2>1 DEF Wanted
    <2>2. CASE todo = "name"
      <3>1. Top.kind = "variant" BY <2>2, <1>1 DEF Fits, Top
      <3>2. Tokens!Innermost = "}" BY <3>1, <1>2, TopLemma DEF Tokens!Innermost, Closer, CloserOf
      <3>3. Wanted = "first" BY <2>2 DEF Wanted
      <3> QED BY <3>2, <3>3
    <2> QED BY <2>1, <2>2
  <1>10. index \in Nat /\ Len(text) \in Nat BY TextLemma
  <1>11. b \in index..Len(text) BY <1>10 DEF Ahead
  <1>12. a \in Tokens!From /\ b \in Tokens!To
    <2>1. a \in index..index' /\ b \in index..index' BY <1>5, <1>10, <1>11
    <2>2. Tokens!AllIn(b, index', Tokens!Blank) BY <1>5, NoBlanks
    <2> QED BY <2>1, <2>2 DEF Tokens!From, Tokens!To
  <1>13. Tokens!Key
    BY <1>5, <1>6, <1>7, <1>8, <1>9, <1>11, <1>12 DEF Tokens!Key, Tokens!Busy, Tokens!Then
  <1> QED BY <1>4, <1>13 DEF Good, Tokens!Next

LEMMA ColonStep ==
  ASSUME IInv, pc = "busy", More, Keep, todo = "colon", Unit = ":",
         NEW t, t = IF Top.kind = "map" THEN "value" ELSE "content", Go(At + 1, stack, t)
  PROVE  Good
  <1>1. Fits(stack, todo) BY FitsNow
  <1>2. stack \in Seq(Frames) /\ AllBegun(stack) /\ stack /= <<>> BY <1>1 DEF IInv, TypeOK, Fits
  <1>3. Fits(stack, t) BY <1>1 DEF Fits, Top
  <1>4. Ahead(At + 1) /\ At + 1 \in Nat BY AheadLemma
  <1>5. t /= "key" /\ t \in {"value", "content"} OBVIOUS
  <1>6. IInv' BY <1>2, <1>3, <1>4, <1>5, GoLemma
  <1>7. index' = At + 1 /\ stack' = stack /\ todo' = t /\ pc' = pc /\ text' = text BY DEF Go, Keep
  <1>8. Brackets(stack)' = Brackets(stack) BY <1>7 DEF Brackets
  <1>9. Status = "busy" /\ Status' = Status BY <1>7 DEF Status
  <1>10. Wanted' = "value" BY <1>5, <1>7 DEF Wanted
  <1>11. Wanted = "colon" BY DEF Wanted
  <1>12. At + 1 <= At + 1 BY <1>4, NatLemma
  <1>13. Tokens!Mark(":") BY <1>4, <1>7, <1>12, NoBlanks, MarkLemma
  <1>14. Tokens!Colon
    BY <1>7, <1>8, <1>9, <1>10, <1>11, <1>13 DEF Tokens!Colon, Tokens!Busy, Tokens!Then
  <1> QED BY <1>6, <1>14 DEF Good, Tokens!Next

\* What an option holds begins behind the blanks.
LEMMA SpaceStep ==
  ASSUME IInv, Value, Keep, Go(At, stack, todo)
  PROVE  Good
  <1>1. pc = "busy" /\ todo \in {"value", "content"} /\ stack \in Seq(Frames) /\ AllBegun(stack)
    BY ValueLemma DEF Value
  <1>2. Fits(stack, todo) BY <1>1, FitsNow
  <1>3. Ahead(At) BY AheadLemma
  <1>4. IInv' BY <1>1, <1>2, <1>3, GoLemma
  <1>5. index' = At /\ stack' = stack /\ todo' = todo /\ pc' = pc /\ text' = text BY DEF Go, Keep
  <1>6. Brackets(stack)' = Brackets(stack) BY <1>5 DEF Brackets
  <1>7. Status = "busy" /\ Status' = Status BY <1>1, <1>5 DEF Status
  <1>8. Wanted' = Wanted BY <1>1, <1>5 DEF Wanted
  <1>9. At \in Nat /\ index <= At /\ At <= Len(text) /\ Tokens!AllIn(index, At, Tokens!Blank)
    BY AtLemma
  <1>10. index \in Nat /\ Len(text) \in Nat BY TextLemma
  <1>11. At \in index..Len(text) BY <1>9, <1>10
  <1>12. Tokens!Space BY <1>5, <1>6, <1>7, <1>8, <1>9, <1>11 DEF Tokens!Space, Tokens!Busy
  <1> QED BY <1>4, <1>12 DEF Good, Tokens!Next

-----------------------------------------------------------------------------
(* The actions *)

LEMMA StarvedStep == ASSUME IInv, Starved PROVE Good
  BY AheadLemma, BreakStep DEF Starved, Busy

LEMMA ReadLiteralStep == ASSUME IInv, ReadLiteral PROVE Good
  <1>1. Value /\ Keep /\ pc = "busy" /\ More BY ValueLemma DEF ReadLiteral
  <1>2. Ahead(At) /\ Ahead(At + 1) /\ At <= At + 1 BY <1>1, AheadLemma, AtLemma, NatLemma
  <1>3. CASE Unit \in Words /\ Done(At + 1, stack)
    <2>1. Tokens!IsScalar(At, At + 1)
      BY <1>3 DEF Tokens!IsScalar, Tokens!Literal, Words, Unit
    <2> QED BY <1>1, <1>2, <1>3, <2>1, ScalarStep
  <1>4. CASE \E e \in {"ExpectedToken", "UnexpectedEof"} : Fail(e, At)
    BY <1>1, <1>2, <1>4, BreakStep
  <1> QED BY <1>3, <1>4 DEF ReadLiteral

LEMMA ReadSomeStep == ASSUME IInv, ReadSome PROVE Good
  BY SpaceStep DEF ReadSome

\* A number is read, or found not to be one.
LEMMA FinishStep ==
  ASSUME IInv, Value, Keep, NEW r, NumberAt(At, r), Finish(r)
  PROVE  Good
  <1>1. pc = "busy" /\ index \in Nat /\ index <= At /\ At \in Nat BY ValueLemma, AtLemma, TextLemma
  <1>2. r[2] \in Nat /\ At <= r[2] /\ r[2] <= Len(text)
        /\ (r[1] = "ok" => At < r[2] /\ Tokens!AllIn(At, r[2], Tokens!NumChar))
    BY DEF NumberAt
  <1>3. index <= r[2] BY <1>1, <1>2
  <1>4. Ahead(r[2]) BY <1>2, <1>3 DEF Ahead
  <1>5. CASE r[1] = "ok"
    <2>1. Done(r[2], stack) BY <1>5 DEF Finish
    <2>2. Tokens!IsScalar(At, r[2]) BY <1>2, <1>5 DEF Tokens!IsScalar
    <2> QED BY <2>1, <2>2, <1>2, <1>4, ScalarStep
  <1>6. CASE r[1] /= "ok"
    <2>1. Fail(r[1], r[2]) BY <1>6 DEF Finish
    <2> QED BY <2>1, <1>1, <1>4, BreakStep
  <1> QED BY <1>5, <1>6

LEMMA ReadNumberStep == ASSUME IInv, ReadNumber PROVE Good
  <1>1. Value /\ Keep /\ More BY ValueLemma DEF ReadNumber
  <1>2. At \in Nat /\ At < Len(text) BY <1>1, AtLemma DEF More
  <1>3. PICK r : NumberAt(At, r) /\ Finish(r) BY <1>2, IntegerLemma, FloatLemma DEF ReadNumber
  <1> QED BY <1>1, <1>3, FinishStep

LEMMA SkipNumberStep == ASSUME IInv, SkipNumber PROVE Good
  <1>1. Value /\ Keep /\ More /\ Unit \in Digit \cup {"-"} /\ Done(RunEnd(At), stack)
    BY ValueLemma DEF SkipNumber
  <1>2. At \in Nat /\ At < Len(text) /\ At <= Len(text) /\ text[At + 1] \in NumChar
        /\ index \in Nat /\ index <= At
    BY <1>1, AtLemma, TextLemma, NumCharLemma DEF More, Unit
  <1>3. /\ RunEnd(At) \in Nat /\ At < RunEnd(At) /\ RunEnd(At) <= Len(text)
        /\ Tokens!AllIn(At, RunEnd(At), Tokens!NumChar)
    BY <1>2, RunLemma
  <1>4. At <= RunEnd(At) /\ index <= RunEnd(At) BY <1>2, <1>3
  <1>5. Ahead(RunEnd(At)) /\ Tokens!IsScalar(At, RunEnd(At))
    BY <1>3, <1>4 DEF Ahead, Tokens!IsScalar
  <1> QED BY <1>1, <1>4, <1>5, ScalarStep

\* A string that begins at At.
LEMMA QuoteLemma ==
  ASSUME IInv, More, Unit = QU
  PROVE  LET p == At + 1
             q == StringEnd(At + 1) IN
         /\ Ahead(p) /\ q \in Nat /\ q <= Len(text) /\ index <= q
         /\ q < Len(text) => Ahead(q + 1) /\ At <= q + 1 /\ Tokens!IsString(At, q + 1)
  <1> DEFINE q == StringEnd(At + 1)
  <1>1. At \in Nat /\ At < Len(text) /\ text[At + 1] = QU /\ index <= At BY AtLemma DEF More, Unit
  <1>2. /\ q \in Nat /\ At + 1 <= q /\ q <= Len(text)
        /\ q < Len(text) => Tokens!IsString(At, q + 1)
    BY <1>1, StringLemma
  <1>3. Ahead(At + 1) /\ At + 1 \in Nat BY AheadLemma
  <1>4. index \in Nat /\ Len(text) \in Nat BY TextLemma
  <1> HIDE DEF q
  <1>5. index <= q /\ At <= q + 1 /\ index <= q + 1 /\ q + 1 \in Nat BY <1>1, <1>2, <1>4
  <1>6. q < Len(text) => q + 1 <= Len(text) BY <1>2, <1>4
  <1> QED BY <1>2, <1>3, <1>5, <1>6 DEF Ahead, q

LEMMA ReadStringStep == ASSUME IInv, ReadString PROVE Good
  <1> DEFINE q == StringEnd(At + 1)
  <1>1. Value /\ Keep /\ More /\ pc = "busy" /\ Unit = QU BY ValueLemma DEF ReadString
  <1>2. /\ Ahead(At + 1) /\ q \in Nat
        /\ q < Len(text) => Ahead(q + 1) /\ At <= q + 1 /\ Tokens!IsString(At, q + 1)
    BY <1>1, QuoteLemma
  <1>3. \/ \E e : Fail(e, At + 1)
        \/ q < Len(text) /\ Done(q + 1, stack)
        \/ q < Len(text) /\ \E e : Fail(e, q + 1)
    BY DEF ReadString
  <1> HIDE DEF q
  <1>4. CASE \E e : Fail(e, At + 1) BY <1>1, <1>2, <1>4, BreakStep
  <1>5. CASE q < Len(text) /\ Done(q + 1, stack)
    BY <1>1, <1>2, <1>5, ScalarStep DEF Tokens!IsScalar
  <1>6. CASE q < Len(text) /\ \E e : Fail(e, q + 1) BY <1>1, <1>2, <1>6, BreakStep
  <1> QED BY <1>3, <1>4, <1>5, <1>6

LEMMA SkipStringStep == ASSUME IInv, SkipString PROVE Good
  <1> DEFINE q == StringEnd(At + 1)
  <1>1. Value /\ Keep /\ More /\ pc = "busy" /\ Unit = QU BY ValueLemma DEF SkipString
  <1>2. /\ Ahead(At + 1) /\ q \in Nat
        /\ q < Len(text) => Ahead(q + 1) /\ At <= q + 1 /\ Tokens!IsString(At, q + 1)
    BY <1>1, QuoteLemma
  <1>3. Fail("UnexpectedEof", At + 1) \/ (q < Len(text) /\ Done(q + 1, stack)) BY DEF SkipString
  <1> HIDE DEF q
  <1>4. CASE Fail("UnexpectedEof", At + 1) BY <1>1, <1>2, <1>4, BreakStep
  <1>5. CASE q < Len(text) /\ Done(q + 1, stack)
    BY <1>1, <1>2, <1>5, ScalarStep DEF Tokens!IsScalar
  <1> QED BY <1>3, <1>4, <1>5

LEMMA OpenArrayStep == ASSUME IInv, OpenArray PROVE Good
  <1>1. Value /\ Keep /\ Unit = "[" /\ Go(At + 1, Append(stack, Frame("seq")), "item")
    BY DEF OpenArray
  <1> QED BY <1>1, OpenStep

LEMMA OpenObjectStep == ASSUME IInv, OpenObject PROVE Good
  <1>1. Value /\ Keep /\ Unit = "{" /\ Go(At + 1, Append(stack, Frame("map")), "item")
    BY DEF OpenObject
  <1> QED BY <1>1, OpenStep

LEMMA OpenVariantStep == ASSUME IInv, OpenVariant PROVE Good
  <1>1. Value /\ Keep /\ Unit = "{" /\ Go(At + 1, Append(stack, Frame("variant")), "name")
    BY DEF OpenVariant
  <1> QED BY <1>1, OpenStep

LEMMA RefuseStep == ASSUME IInv, Refuse PROVE Good
  <1>1. Keep /\ pc = "busy" /\ Ahead(At) BY ValueLemma, AheadLemma DEF Refuse
  <1>2. PICK e : Fail(e, At) BY DEF Refuse
  <1> QED BY <1>1, <1>2, BreakStep

\* The accesses.
LEMMA AccessLemma ==
  ASSUME IInv, NEW k, Access(k)
  PROVE  pc = "busy" /\ More /\ todo = "item" /\ Top.kind = k /\ stack /= <<>>
         /\ Ahead(At) /\ Ahead(At + 1) /\ Ahead(NextAt)
  <1>1. pc = "busy" /\ More /\ todo = "item" /\ Top.kind = k BY DEF Access, Busy
  <1> QED BY <1>1, FitsNow, AheadLemma, NextAtLemma DEF Fits

LEMMA SeparatorStep ==
  ASSUME IInv, NEW k, Access(k), Keep, NEW a, NEW b, NEW c, BadSeparator(a, b, c)
  PROVE  Good
  <1>1. pc = "busy" /\ Ahead(At) /\ Ahead(At + 1) /\ Ahead(NextAt) BY AccessLemma
  <1>2. PICK e : Fail(e, At) \/ Fail(e, At + 1) \/ Fail(e, NextAt) BY DEF BadSeparator
  <1> QED BY <1>1, <1>2, BreakStep

LEMMA NextElementStep == ASSUME IInv, NextElement PROVE Good
  <1>1. Access("seq") /\ Keep BY DEF NextElement
  <1>2. pc = "busy" /\ More /\ todo = "item" /\ Top.kind = "seq" BY <1>1, AccessLemma
  <1>3. CASE BadSeparator("LeadingArrayComma", "TrailingArrayComma", "ExpectedArrayCommaOrEnd")
    BY <1>1, <1>3, SeparatorStep
  <1>4. CASE HasItem /\ Go(ItemAt, Append(Under, Began(Top)), "value") BY <1>1, <1>2, <1>4, ItemStep
  <1> QED BY <1>3, <1>4 DEF NextElement

LEMMA NextKeyStep == ASSUME IInv, NextKey PROVE Good
  <1>1. Access("map") /\ Keep BY DEF NextKey
  <1>2. /\ pc = "busy" /\ More /\ todo = "item" /\ Top.kind = "map"
        /\ Ahead(At) /\ Ahead(NextAt)
    BY <1>1, AccessLemma
  <1>3. CASE BadSeparator("LeadingObjectComma", "TrailingObjectComma", "ExpectedObjectCommaOrEnd")
    BY <1>1, <1>3, SeparatorStep
  <1>4. CASE Fail("KeyMustBeAString", ItemAt) BY <1>1, <1>2, <1>4, BreakStep DEF ItemAt
  <1>5. CASE HasItem /\ text[ItemAt + 1] = QU /\ Go(ItemAt, Append(Under, Began(Top)), "key")
    BY <1>1, <1>2, <1>5, ItemStep
  <1> QED BY <1>3, <1>4, <1>5 DEF NextKey

LEMMA CloseArrayStep == ASSUME IInv, CloseArray PROVE Good
  <1>1. Access("seq") /\ Keep BY DEF CloseArray
  <1>2. /\ pc = "busy" /\ More /\ todo = "item" /\ Top.kind = "seq" /\ stack /= <<>>
        /\ Ahead(At)
    BY <1>1, AccessLemma
  <1>3. Closer = "]" BY <1>2 DEF Closer, CloserOf
  <1>4. CASE Closed("]") /\ Done(At + 1, Under) BY <1>1, <1>2, <1>3, <1>4, CloseStep DEF Closed
  <1>5. CASE Fail("ExpectedArrayEnd", At) BY <1>1, <1>2, <1>5, BreakStep
  <1> QED BY <1>4, <1>5 DEF CloseArray

LEMMA CloseObjectStep == ASSUME IInv, CloseObject PROVE Good
  <1>1. Access("map") /\ Keep BY DEF CloseObject
  <1>2. /\ pc = "busy" /\ More /\ todo = "item" /\ Top.kind = "map" /\ stack /= <<>>
        /\ Ahead(At)
    BY <1>1, AccessLemma
  <1>3. Closer = "}" BY <1>2 DEF Closer, CloserOf
  <1>4. CASE Closed("}") /\ Done(At + 1, Under) BY <1>1, <1>2, <1>3, <1>4, CloseStep DEF Closed
  <1>5. CASE Fail("ExpectedObjectEnd", At) BY <1>1, <1>2, <1>5, BreakStep
  <1> QED BY <1>4, <1>5 DEF CloseObject

LEMMA CloseVariantStep == ASSUME IInv, CloseVariant PROVE Good
  <1>1. pc = "busy" /\ More /\ todo = "end" /\ Keep BY DEF CloseVariant, Busy
  <1>2. Top.kind = "variant" /\ stack /= <<>> BY <1>1, FitsNow DEF Fits, Top
  <1>3. Closer = "}" BY <1>2 DEF Closer, CloserOf
  <1>4. CASE Closed("}") /\ Done(At + 1, Under) BY <1>1, <1>2, <1>3, <1>4, CloseStep DEF Closed
  <1>5. CASE Fail("ExpectedEnumObjectEnd", At) BY <1>1, <1>5, AheadLemma, BreakStep
  <1> QED BY <1>4, <1>5 DEF CloseVariant

LEMMA ReadColonStep == ASSUME IInv, ReadColon PROVE Good
  <1>1. pc = "busy" /\ More /\ todo = "colon" /\ Keep BY DEF ReadColon, Busy
  <1>2. CASE Unit = ":" /\ Go(At + 1, stack, IF Top.kind = "map" THEN "value" ELSE "content")
    BY <1>1, <1>2, ColonStep
  <1>3. CASE Fail("ExpectedColon", At) BY <1>1, <1>3, AheadLemma, BreakStep
  <1> QED BY <1>2, <1>3 DEF ReadColon

LEMMA ReadKeyStep == ASSUME IInv, ReadKey PROVE Good
  <1> DEFINE q == StringEnd(At + 1)
  <1>1. pc = "busy" /\ More /\ todo \in {"key", "name"} /\ Keep BY DEF ReadKey, Busy
  <1>2. Ahead(At) /\ Ahead(At + 1) BY <1>1, AheadLemma
  <1>3. At \in Nat /\ index <= At /\ Tokens!AllIn(index, At, Tokens!Blank) BY AtLemma
  <1>4. /\ q \in Nat
        /\ Unit = QU /\ q < Len(text) => Ahead(q + 1) /\ At <= q + 1 /\ Tokens!IsString(At, q + 1)
    <2>1. CASE Unit = QU BY <2>1, <1>1, QuoteLemma
    <2>2. CASE Unit /= QU
      <3>1. At + 1 \in Nat /\ At + 1 <= Len(text) BY <1>1, AheadLemma
      <3>2. q \in Nat BY <3>1, EndLemma DEF StringEnd
      <3> QED BY <3>2, <2>2
    <2> QED BY <2>1, <2>2
  <1>5. \/ \E e : Fail(e, At) \/ Fail(e, At + 1)
        \/ Unit = QU /\ q < Len(text) /\ Go(q + 1, stack, "colon")
        \/ Unit = QU /\ q < Len(text) /\ \E e : Fail(e, q + 1)
    BY DEF ReadKey
  <1> HIDE DEF q
  <1>6. CASE \E e : Fail(e, At) \/ Fail(e, At + 1) BY <1>1, <1>2, <1>6, BreakStep
  <1>7. CASE Unit = QU /\ q < Len(text) /\ Go(q + 1, stack, "colon")
    <2>1. q + 1 \in Nat BY <1>4, NatLemma
    <2> QED BY <1>1, <1>3, <1>4, <1>7, <2>1, KeyStep
  <1>8. CASE Unit = QU /\ q < Len(text) /\ \E e : Fail(e, q + 1) BY <1>1, <1>4, <1>8, BreakStep
  <1> QED BY <1>5, <1>6, <1>7, <1>8

\* A key that is a number or a literal: its quote is under the cursor.
LEMMA KeyLemma ==
  ASSUME IInv, Key
  PROVE  /\ pc = "busy" /\ More /\ todo = "key" /\ index < Len(text) /\ text[index + 1] = QU
         /\ At = index /\ Ahead(At + 1)
         /\ KeyAt \in Nat /\ index + 1 <= KeyAt /\ Ahead(KeyAt)
         /\ Tokens!AllIn(index + 1, KeyAt, Blank)
  <1>1. pc = "busy" /\ More /\ todo = "key" BY DEF Key, Busy
  <1>2. index < Len(text) /\ text[index + 1] = QU BY <1>1 DEF IInv, KeyQuoted
  <1>3. QU \notin Blank BY DEF QU, Blank
  <1>4. index \in Nat /\ Len(text) \in Nat BY TextLemma
  <1>5. At \in Nat /\ index <= At /\ Tokens!AllIn(index, At, Blank)
    BY AtLemma DEF Tokens!Blank, Blank
  <1> HIDE DEF Blank, QU
  <1>6. At = index
    <2>1. ASSUME At /= index PROVE FALSE
      <3>1. index + 1 \in (index + 1)..At BY <1>4, <1>5, <2>1
      <3> QED BY <3>1, <1>2, <1>3, <1>5 DEF Tokens!AllIn
    <2> QED BY <2>1
  <1>7. index + 1 \in Nat /\ index + 1 <= Len(text) BY <1>2, <1>4
  <1>8. /\ KeyAt \in Nat /\ index + 1 <= KeyAt /\ KeyAt <= Len(text)
        /\ Tokens!AllIn(index + 1, KeyAt, Blank)
    BY <1>6, <1>7, EndLemma DEF KeyAt, BlankEnd
  <1>9. index <= KeyAt BY <1>4, <1>8
  <1>10. Ahead(KeyAt) BY <1>8, <1>9 DEF Ahead
  <1> QED BY <1>1, <1>2, <1>6, <1>8, <1>10, AheadLemma

LEMMA NoQuote == QU \notin Blank /\ QU \notin Words /\ QU \notin NumChar
  BY DEF QU, Blank, Words, NumChar, Digit

LEMMA EndKeyStep ==
  ASSUME IInv, Key, Keep, NEW e, Ahead(e), KeyAt <= e, Tokens!AllIn(KeyAt, e, NumChar \cup Words),
         NEW wrong, EndKey(e, wrong)
  PROVE  Good
  <1>1. /\ pc = "busy" /\ todo = "key" /\ index < Len(text) /\ text[index + 1] = QU
        /\ KeyAt \in Nat /\ index + 1 <= KeyAt /\ Tokens!AllIn(index + 1, KeyAt, Blank)
    BY KeyLemma
  <1>2. e \in Nat /\ index <= e /\ e <= Len(text) /\ index \in Nat /\ Len(text) \in Nat
    BY TextLemma DEF Ahead
  <1>3. CASE \E w : Fail(w, e) BY <1>1, <1>3, BreakStep
  <1>4. CASE e < Len(text) /\ QuoteAt(e) /\ Go(e + 1, stack, "colon")
    <2> DEFINE b == e + 1
    <2>1. b \in Nat /\ index <= b /\ b <= Len(text) BY <1>2, <1>4
    <2>2. text[b] = QU BY <1>4 DEF QuoteAt
    <2>3. b - 1 = e BY <1>2
    <2>4. index + 2 <= b BY <1>1, <1>2
    <2>5. Go(b, stack, "colon") BY <1>4
    <2> HIDE DEF b
    <2>6. ASSUME NEW k \in (index + 2)..(b - 1) PROVE text[k] /= QU
      <3>1. k \in (index + 1 + 1)..KeyAt \/ k \in (KeyAt + 1)..e BY <1>1, <1>2, <2>3
      <3>2. text[k] \in Blank \/ text[k] \in NumChar \cup Words BY <3>1, <1>1 DEF Tokens!AllIn
      <3> QED BY <3>2, NoQuote
    <2>7. Tokens!Quote = QU BY DEF Tokens!Quote, QU
    <2> HIDE DEF QU
    <2>8. Tokens!IsString(index, b) BY <1>1, <2>2, <2>4, <2>6, <2>7 DEF Tokens!IsString
    <2>9. Ahead(b) BY <2>1 DEF Ahead
    <2>10. Tokens!AllIn(index, index, Tokens!Blank) /\ index <= index BY <1>2, NoBlanks
    <2> QED BY <1>1, <1>2, <2>1, <2>5, <2>8, <2>9, <2>10, KeyStep
  <1> QED BY <1>3, <1>4 DEF EndKey

LEMMA KeyStarvedStep == ASSUME IInv, KeyStarved PROVE Good
  BY KeyLemma, BreakStep DEF KeyStarved

LEMMA ReadIntegerKeyStep == ASSUME IInv, ReadIntegerKey PROVE Good
  <1>1. Key /\ Keep /\ KeyAt < Len(text) BY DEF ReadIntegerKey
  <1>2. pc = "busy" /\ KeyAt \in Nat /\ index \in Nat /\ index + 1 <= KeyAt
    BY <1>1, KeyLemma, TextLemma
  <1>3. PICK r \in Integer(KeyAt) :
          IF r[1] = "ok" THEN EndKey(r[2], "InvalidNumber") ELSE Fail(r[1], r[2])
    BY DEF ReadIntegerKey
  <1>4. NumberAt(KeyAt, r) BY <1>1, <1>2, IntegerLemma
  <1>5. r[2] \in Nat /\ KeyAt <= r[2] /\ r[2] <= Len(text)
        /\ (r[1] = "ok" => Tokens!AllIn(KeyAt, r[2], Tokens!NumChar))
    BY <1>4 DEF NumberAt
  <1>6. index <= r[2] BY <1>2, <1>5
  <1>7. Ahead(r[2]) BY <1>5, <1>6 DEF Ahead
  <1>8. CASE r[1] = "ok"
    <2>1. EndKey(r[2], "InvalidNumber") BY <1>3, <1>8
    <2>2. Tokens!AllIn(KeyAt, r[2], NumChar \cup Words)
      BY <1>5, <1>8, NumCharLemma DEF Tokens!AllIn
    <2> QED BY <1>1, <1>5, <1>7, <2>1, <2>2, EndKeyStep
  <1>9. CASE r[1] /= "ok" BY <1>1, <1>2, <1>3, <1>7, <1>9, BreakStep
  <1> QED BY <1>8, <1>9

LEMMA ReadBoolKeyStep == ASSUME IInv, ReadBoolKey PROVE Good
  <1>1. Key /\ Keep /\ KeyAt < Len(text) BY DEF ReadBoolKey
  <1>2. /\ pc = "busy" /\ KeyAt \in Nat /\ index \in Nat /\ index + 1 <= KeyAt /\ Ahead(KeyAt)
        /\ Len(text) \in Nat
    BY <1>1, KeyLemma, TextLemma
  <1>3. CASE \E e : Fail(e, KeyAt) BY <1>1, <1>2, <1>3, BreakStep
  <1>4. CASE text[KeyAt + 1] \in {"true", "false"} /\ EndKey(KeyAt + 1, "InvalidType")
    <2> DEFINE b == KeyAt + 1
    <2>1. b \in Nat /\ index <= b /\ b <= Len(text) /\ KeyAt <= b BY <1>1, <1>2
    <2>2. Ahead(b) BY <2>1 DEF Ahead
    <2>3. text[b] \in NumChar \cup Words BY <1>4 DEF Words
    <2>4. EndKey(b, "InvalidType") BY <1>4
    <2>5. \A k \in (KeyAt + 1)..b : k = b BY <1>2
    <2> HIDE DEF b
    <2>6. Tokens!AllIn(KeyAt, b, NumChar \cup Words) BY <2>3, <2>5 DEF Tokens!AllIn
    <2> QED BY <1>1, <2>1, <2>2, <2>4, <2>6, EndKeyStep
  <1> QED BY <1>3, <1>4 DEF ReadBoolKey

LEMMA GiveUpStep == ASSUME IInv, GiveUp PROVE Good
  BY AheadLemma, BreakStep DEF GiveUp, Busy

-----------------------------------------------------------------------------
(* Calls *)

LEMMA BeginStep == ASSUME IInv, Begin PROVE Good
  <1>1. /\ pc' = "busy" /\ todo' = "value" /\ start' = index /\ text' = text /\ index' = index
        /\ stack' = stack /\ op' \in {"any", "ignored", "typed"} /\ pc \in {"ready", "ok"}
    BY DEF Begin
  <1>2. stack = <<>> /\ text \in Seq(Units) /\ index \in Nat /\ index <= Len(text)
        /\ stack \in Seq(Frames)
    BY <1>1 DEF IInv, TypeOK
  <1>3. index' \in 0..Len(text') /\ start' \in 0..index' BY <1>1, <1>2
  <1>4. TypeOK' BY <1>1, <1>2, <1>3 DEF TypeOK
  <1>5. AllBegun(stack)' BY <1>1 DEF IInv, AllBegun
  <1>6. KeyQuoted' BY <1>1 DEF KeyQuoted
  <1>7. Brackets(stack)' = <<>>
    <2>1. Brackets(stack)' = Brackets(stack) BY <1>1 DEF Brackets
    <2> QED BY <2>1, <1>2, BracketsLemma
  <1>8. Status \in {"rest", "complete"} /\ Status' = "busy" BY <1>1 DEF Status
  <1>9. Wanted' = "value" BY <1>1 DEF Wanted
  <1>10. Tokens!Begin BY <1>1, <1>7, <1>8, <1>9 DEF Tokens!Begin
  <1> QED BY <1>4, <1>5, <1>6, <1>10 DEF Good, IInv, Tokens!Next

LEMMA EndStep == ASSUME IInv, End PROVE Good
  <1>1. pc = "ok" /\ Keep BY DEF End
  <1>2. CASE Fail("TrailingCharacters", At) BY <1>1, <1>2, AheadLemma, BreakStep
  <1>3. CASE pc' = "end" /\ UNCHANGED <<index, stack, todo, err>>
    <2>1. /\ pc' = "end" /\ index' = index /\ stack' = stack /\ todo' = todo /\ text' = text
          /\ op' = op /\ start' = start
      BY <1>1, <1>3 DEF Keep
    <2>2. TypeOK' BY <1>1, <2>1 DEF IInv, TypeOK
    <2>3. AllBegun(stack)' BY <2>1 DEF IInv, AllBegun
    <2>4. KeyQuoted' BY <2>1 DEF IInv, KeyQuoted
    <2>5. Brackets(stack)' = Brackets(stack) BY <2>1 DEF Brackets
    <2>6. Status' = Status BY <1>1, <2>1 DEF Status
    <2>7. todo = "none" BY <1>1 DEF IInv, TypeOK
    <2>8. Wanted' = Wanted BY <2>1, <2>7 DEF Wanted
    <2>9. UNCHANGED Tokens!tvars BY <2>1, <2>5, <2>6, <2>8 DEF Tokens!tvars
    <2> QED BY <2>2, <2>3, <2>4, <2>9 DEF Good, IInv
  <1> QED BY <1>2, <1>3 DEF End

LEMMA Stutter == ASSUME IInv, UNCHANGED vars PROVE Good
  <1>1. /\ pc' = pc /\ index' = index /\ stack' = stack /\ todo' = todo /\ text' = text
        /\ op' = op /\ start' = start
    BY DEF vars
  <1>2. TypeOK' BY <1>1 DEF IInv, TypeOK, Top
  <1>3. AllBegun(stack)' BY <1>1 DEF IInv, AllBegun
  <1>4. KeyQuoted' BY <1>1 DEF IInv, KeyQuoted
  <1>5. Brackets(stack)' = Brackets(stack) BY <1>1 DEF Brackets
  <1>6. Status' = Status BY <1>1 DEF Status
  <1>7. Wanted' = Wanted BY <1>1 DEF Wanted, Top
  <1>8. UNCHANGED Tokens!tvars BY <1>1, <1>5, <1>6, <1>7 DEF Tokens!tvars
  <1> QED BY <1>2, <1>3, <1>4, <1>8 DEF Good, IInv

-----------------------------------------------------------------------------
(* The theorems *)

LEMMA InitLemma == ASSUME Init PROVE IInv /\ Tokens!Init
  <1>1. text \in Seq(Units) /\ text \in Seq(STRING) /\ Len(text) \in Nat
    <2>1. text \in Seq(Units) BY InputsAssumption DEF Init
    <2>0. \A u \in Units : u \in STRING BY UnitsAssumption
    <2>2. \A k \in 1..Len(text) : text[k] \in STRING
      <3>1. \A k \in 1..Len(text) : text[k] \in Units BY <2>1
      <3> QED BY <2>0, <3>1
    <2>3. text \in [1..Len(text) -> STRING] /\ Len(text) \in Nat BY <2>1, <2>2
    <2> QED BY <2>1, <2>3
  <1>2. /\ index = 0 /\ start = 0 /\ stack = <<>> /\ todo = "none" /\ pc = "ready" /\ op = "none"
    BY DEF Init
  <1>3. index \in 0..Len(text) /\ start \in 0..index BY <1>1, <1>2
  <1>4. <<>> \in Seq(Frames) /\ Len(<<>>) = 0 OBVIOUS
  <1>5. TypeOK BY <1>1, <1>2, <1>3, <1>4 DEF TypeOK
  <1>6. AllBegun(stack) BY <1>2, <1>4 DEF AllBegun
  <1>7. KeyQuoted BY <1>2 DEF KeyQuoted
  <1>8. Brackets(stack) = <<>> BY <1>2, <1>4 DEF Brackets
  <1>9. Wanted = "none" /\ Status = "rest" BY <1>2 DEF Wanted, Status
  <1>10. Tokens!Init BY <1>1, <1>2, <1>8, <1>9 DEF Tokens!Init
  <1> QED BY <1>5, <1>6, <1>7, <1>10 DEF IInv

LEMMA StepLemma == ASSUME IInv, [Next]_vars PROVE Good
  BY StarvedStep, ReadLiteralStep, ReadSomeStep, ReadNumberStep, SkipNumberStep, ReadStringStep,
     SkipStringStep, OpenArrayStep, OpenObjectStep, OpenVariantStep, RefuseStep, NextElementStep,
     NextKeyStep, CloseArrayStep, CloseObjectStep, ReadColonStep, CloseVariantStep, ReadKeyStep,
     KeyStarvedStep, ReadIntegerKeyStep, ReadBoolKeyStep, GiveUpStep, BeginStep, EndStep, Stutter
  DEF Next, Step

\* Whatever the visitors ask for, what encloses an access has begun, and a key
\* that next_key_seed found has its quote under the cursor.
THEOREM Inductive == Spec => []IInv
  <1>1. Init => IInv BY InitLemma
  <1>2. IInv /\ [Next]_vars => IInv' BY StepLemma DEF Good
  <1> QED BY <1>1, <1>2, PTL DEF Spec

\* The cursor stays in the text, and an access is in use only inside its
\* brackets.
THEOREM TypeCorrect == Spec => []TypeOK
  <1>1. IInv => TypeOK BY DEF IInv
  <1> QED BY <1>1, Inductive, PTL

\* The calls of CommaSeparated, MapKey and the variant accesses, taken
\* together, read a run of tokens under a stack of brackets.
THEOREM Refinement == Spec => ReadsTokens
  <1>1. Init => Tokens!Init BY InitLemma
  <1>2. IInv /\ [Next]_vars => [Tokens!Next]_(Tokens!tvars) BY StepLemma DEF Good
  <1> QED BY <1>1, <1>2, Inductive, PTL DEF Spec, ReadsTokens, Tokens!Spec
=============================================================================
