----------------------------- MODULE JsonSer_proofs -----------------------------
(* Proofs about JsonSer, for every sink, encoder and implementation of       *)
(* Serialize: whatever a reader of JSON would make of the bytes in the sink, *)
(* it is what the calls in progress are about to go on with.                 *)
EXTENDS JsonSer, SequenceTheorems, WellFoundedInduction, TLAPS

-----------------------------------------------------------------------------
(* The machine of JsonBytes.  What it makes of a text is a recursive         *)
(* function, shown to exist and to be the only one with its values.          *)

LEMMA LeastNat ==
  ASSUME NEW T \in SUBSET Nat, T /= {}
  PROVE  \E m \in T : \A k \in T : m <= k
  <1>1. PICK m \in T : \A k \in T : <<k, m>> \notin OpToRel(<, Nat)
    BY NatLessThanWellFounded, WFMin
  <1>2. \A k \in T : ~(k < m) BY <1>1 DEF OpToRel
  <1>3. \A k \in T : m <= k BY <1>2
  <1> QED BY <1>3

IsRun(f, s, b, n) == f = [k \in 0..n |-> IF k = 0 THEN s ELSE Json!Read(f[k - 1], b[k])]

LEMMA RunExists ==
  ASSUME NEW s, NEW b, NEW n \in Nat
  PROVE  \E f : IsRun(f, s, b, n)
  <1> DEFINE Is(f, m) == f = [k \in 0..m |-> IF k = 0 THEN s ELSE Json!Read(f[k - 1], b[k])]
             T == {m \in Nat : ~\E f : Is(f, m)}
  <1> SUFFICES ASSUME T /= {} PROVE FALSE BY DEF IsRun
  <1>1. PICK m \in T : \A k \in T : m <= k
    <2>1. T \in SUBSET Nat OBVIOUS
    <2> HIDE DEF T
    <2> QED BY <2>1, LeastNat
  <1>2. m \in Nat /\ ~\E f : Is(f, m) BY <1>1
  <1>3. CASE m = 0
    <2> DEFINE g == [k \in 0..0 |-> s]
    <2>1. Is(g, 0) OBVIOUS
    <2> QED BY <2>1, <1>2, <1>3
  <1>4. CASE m /= 0
    <2>1. m - 1 \in Nat /\ ~(m <= m - 1) BY <1>2, <1>4
    <2>2. PICK f : Is(f, m - 1) BY <2>1, <1>1
    <2> DEFINE g == [k \in 0..m |-> IF k = m THEN Json!Read(f[m - 1], b[m]) ELSE f[k]]
    <2>3. \A k \in 0..(m - 1) : g[k] = f[k] BY <1>2
    <2>4. g[m] = Json!Read(f[m - 1], b[m]) BY <1>2
    <2>5. \A k \in 0..(m - 1) : f[k] = IF k = 0 THEN s ELSE Json!Read(f[k - 1], b[k]) BY <2>2
    <2>6. \A k \in 0..m : g[k] = IF k = 0 THEN s ELSE Json!Read(g[k - 1], b[k])
      <3> SUFFICES ASSUME NEW k \in 0..m
                   PROVE g[k] = IF k = 0 THEN s ELSE Json!Read(g[k - 1], b[k])
        OBVIOUS
      <3> HIDE DEF g
      <3>1. CASE k = m
        <4>1. g[m - 1] = f[m - 1] BY <2>1, <2>3
        <4> QED BY <4>1, <3>1, <2>4, <1>4
      <3>2. CASE k /= m
        <4>1. k \in 0..(m - 1) /\ (k /= 0 => k - 1 \in 0..(m - 1)) BY <3>2, <1>2
        <4> QED BY <4>1, <2>3, <2>5
      <3> QED BY <3>1, <3>2
    <2>7. Is(g, m)
      <3>1. g = [k \in 0..m |-> g[k]] OBVIOUS
      <3> HIDE DEF g
      <3> QED BY <3>1, <2>6
    <2> QED BY <2>7, <1>2
  <1> QED BY <1>3, <1>4

LEMMA RunLemma ==
  ASSUME NEW s, NEW b, Len(b) \in Nat
  PROVE  /\ Json!Run(s, b)[0] = s
         /\ \A k \in 1..Len(b) : Json!Run(s, b)[k] = Json!Read(Json!Run(s, b)[k - 1], b[k])
  <1> DEFINE n == Len(b)
             r == Json!Run(s, b)
  <1>1. r = CHOOSE f : IsRun(f, s, b, n) BY Zenon DEF Json!Run, IsRun
  <1>2. n \in Nat OBVIOUS
  <1> HIDE DEF r, n
  <1>3. \E f : IsRun(f, s, b, n) BY <1>2, RunExists
  <1>4. IsRun(r, s, b, n) BY <1>1, <1>3, Zenon
  <1>5. r[0] = s BY <1>2, <1>4 DEF IsRun
  <1>6. ASSUME NEW k \in 1..n PROVE r[k] = Json!Read(r[k - 1], b[k])
    <2>1. k \in 0..n /\ k /= 0 BY <1>2
    <2> QED BY <2>1, <1>4 DEF IsRun
  <1> QED BY <1>5, <1>6 DEF r, n

LEMMA RunUnique ==
  ASSUME NEW s, NEW b, Len(b) \in Nat, NEW f, f[0] = s,
         \A k \in 1..Len(b) : f[k] = Json!Read(f[k - 1], b[k])
  PROVE  \A k \in 0..Len(b) : Json!Run(s, b)[k] = f[k]
  <1> DEFINE n == Len(b)
             r == Json!Run(s, b)
             T == {k \in 0..n : r[k] /= f[k]}
  <1>1. n \in Nat OBVIOUS
  <1>2. r[0] = s /\ \A k \in 1..n : r[k] = Json!Read(r[k - 1], b[k]) BY RunLemma
  <1> SUFFICES ASSUME T /= {} PROVE FALSE BY DEF r, n
  <1>3. T \in SUBSET Nat BY <1>1
  <1>4. PICK m \in T : \A k \in T : m <= k
    <2> HIDE DEF T
    <2> QED BY <1>3, LeastNat
  <1> HIDE DEF r
  <1>5. m \in 0..n /\ r[m] /= f[m] BY <1>4
  <1>6. m /= 0 BY <1>2, <1>5
  <1>7. m \in 1..n /\ m - 1 \in 0..n /\ ~(m <= m - 1) BY <1>1, <1>5, <1>6
  <1>8. r[m - 1] = f[m - 1] BY <1>4, <1>7
  <1> QED BY <1>2, <1>5, <1>7, <1>8

IsUtf8Run(f, b, n) == f = [k \in 0..n |-> IF k = 0 THEN <<>> ELSE Json!Utf8(f[k - 1], b[k])]

LEMMA Utf8RunExists ==
  ASSUME NEW b, NEW n \in Nat
  PROVE  \E f : IsUtf8Run(f, b, n)
  <1> DEFINE Is(f, m) == f = [k \in 0..m |-> IF k = 0 THEN <<>> ELSE Json!Utf8(f[k - 1], b[k])]
             T == {m \in Nat : ~\E f : Is(f, m)}
  <1> SUFFICES ASSUME T /= {} PROVE FALSE BY DEF IsUtf8Run
  <1>1. PICK m \in T : \A k \in T : m <= k
    <2>1. T \in SUBSET Nat OBVIOUS
    <2> HIDE DEF T
    <2> QED BY <2>1, LeastNat
  <1>2. m \in Nat /\ ~\E f : Is(f, m) BY <1>1
  <1>3. CASE m = 0
    <2> DEFINE g == [k \in 0..0 |-> <<>>]
    <2>1. Is(g, 0) OBVIOUS
    <2> QED BY <2>1, <1>2, <1>3
  <1>4. CASE m /= 0
    <2>1. m - 1 \in Nat /\ ~(m <= m - 1) BY <1>2, <1>4
    <2>2. PICK f : Is(f, m - 1) BY <2>1, <1>1
    <2> DEFINE g == [k \in 0..m |-> IF k = m THEN Json!Utf8(f[m - 1], b[m]) ELSE f[k]]
    <2>3. \A k \in 0..(m - 1) : g[k] = f[k] BY <1>2
    <2>4. g[m] = Json!Utf8(f[m - 1], b[m]) BY <1>2
    <2>5. \A k \in 0..(m - 1) : f[k] = IF k = 0 THEN <<>> ELSE Json!Utf8(f[k - 1], b[k]) BY <2>2
    <2>6. \A k \in 0..m : g[k] = IF k = 0 THEN <<>> ELSE Json!Utf8(g[k - 1], b[k])
      <3> SUFFICES ASSUME NEW k \in 0..m
                   PROVE g[k] = IF k = 0 THEN <<>> ELSE Json!Utf8(g[k - 1], b[k])
        OBVIOUS
      <3> HIDE DEF g
      <3>1. CASE k = m
        <4>1. g[m - 1] = f[m - 1] BY <2>1, <2>3
        <4> QED BY <4>1, <3>1, <2>4, <1>4
      <3>2. CASE k /= m
        <4>1. k \in 0..(m - 1) /\ (k /= 0 => k - 1 \in 0..(m - 1)) BY <3>2, <1>2
        <4> QED BY <4>1, <2>3, <2>5
      <3> QED BY <3>1, <3>2
    <2>7. Is(g, m)
      <3>1. g = [k \in 0..m |-> g[k]] OBVIOUS
      <3> HIDE DEF g
      <3> QED BY <3>1, <2>6
    <2> QED BY <2>7, <1>2
  <1> QED BY <1>3, <1>4

LEMMA Utf8RunLemma ==
  ASSUME NEW b, Len(b) \in Nat
  PROVE  /\ Json!Utf8Run(b)[0] = <<>>
         /\ \A k \in 1..Len(b) : Json!Utf8Run(b)[k] = Json!Utf8(Json!Utf8Run(b)[k - 1], b[k])
  <1> DEFINE n == Len(b)
             r == Json!Utf8Run(b)
  <1>1. r = CHOOSE f : IsUtf8Run(f, b, n) BY Zenon DEF Json!Utf8Run, IsUtf8Run
  <1>2. n \in Nat OBVIOUS
  <1> HIDE DEF r, n
  <1>3. \E f : IsUtf8Run(f, b, n) BY <1>2, Utf8RunExists
  <1>4. IsUtf8Run(r, b, n) BY <1>1, <1>3, Zenon
  <1>5. r[0] = <<>> BY <1>2, <1>4 DEF IsUtf8Run
  <1>6. ASSUME NEW k \in 1..n PROVE r[k] = Json!Utf8(r[k - 1], b[k])
    <2>1. k \in 0..n /\ k /= 0 BY <1>2
    <2> QED BY <2>1, <1>4 DEF IsUtf8Run
  <1> QED BY <1>5, <1>6 DEF r, n

-----------------------------------------------------------------------------
(* What it makes of one text behind another *)

LEMMA TwoParts ==
  ASSUME NEW S, NEW a \in Seq(S), NEW b \in Seq(S)
  PROVE  /\ a \o b \in Seq(S) /\ Len(a \o b) = Len(a) + Len(b)
         /\ Len(a) \in Nat /\ Len(b) \in Nat
         /\ \A i \in 1..(Len(a) + Len(b)) : (a \o b)[i] = IF i <= Len(a) THEN a[i] ELSE b[i - Len(a)]
  BY ConcatProperties

LEMMA ReadsConcat ==
  ASSUME NEW s, NEW a \in Seq(Byte), NEW b \in Seq(Byte)
  PROVE  Json!Reads(s, a \o b) = Json!Reads(Json!Reads(s, a), b)
  <1> DEFINE n == Len(a)
             m == Len(b)
             d == a \o b
             r == Json!Run(s, a)
             q == Json!Run(r[n], b)
             f == [k \in 0..(n + m) |-> IF k <= n THEN r[k] ELSE q[k - n]]
  <1>1. /\ d \in Seq(Byte) /\ Len(d) = n + m /\ n \in Nat /\ m \in Nat
        /\ \A i \in 1..(n + m) : d[i] = IF i <= n THEN a[i] ELSE b[i - n]
    BY TwoParts
  <1>2. r[0] = s /\ \A k \in 1..n : r[k] = Json!Read(r[k - 1], a[k]) BY <1>1, RunLemma
  <1>3. q[0] = r[n] /\ \A k \in 1..m : q[k] = Json!Read(q[k - 1], b[k]) BY <1>1, RunLemma
  <1>4. Json!Reads(s, a) = r[n] /\ Json!Reads(r[n], b) = q[m] BY DEF Json!Reads
  <1> HIDE DEF n, m, d, r, q
  <1>5. \A k \in 0..(n + m) : f[k] = IF k <= n THEN r[k] ELSE q[k - n] OBVIOUS
  <1> HIDE DEF f
  <1>6. \A k \in n..(n + m) : f[k] = q[k - n]
    <2> SUFFICES ASSUME NEW k \in n..(n + m) PROVE f[k] = q[k - n] OBVIOUS
    <2>1. k \in 0..(n + m) BY <1>1
    <2>2. CASE k = n
      <3>1. k - n = 0 /\ k <= n BY <2>2, <1>1
      <3> QED BY <3>1, <2>1, <2>2, <1>3, <1>5
    <2>3. CASE k /= n
      <3>1. ~(k <= n) BY <2>3, <1>1
      <3> QED BY <3>1, <2>1, <1>5
    <2> QED BY <2>2, <2>3
  <1>7. ASSUME NEW k \in 1..(n + m) PROVE f[k] = Json!Read(f[k - 1], d[k])
    <2>1. CASE k <= n
      <3>1. k \in 1..n /\ k \in 0..(n + m) /\ k - 1 \in 0..(n + m) /\ k - 1 <= n BY <2>1, <1>1
      <3> QED BY <3>1, <2>1, <1>1, <1>2, <1>5
    <2>2. CASE ~(k <= n)
      <3>1. k - n \in 1..m /\ k \in n..(n + m) /\ k - 1 \in n..(n + m) /\ k - 1 - n = k - n - 1
        BY <2>2, <1>1
      <3>2. f[k] = q[k - n] /\ f[k - 1] = q[k - n - 1] BY <3>1, <1>6
      <3>3. d[k] = b[k - n] BY <2>2, <1>1
      <3> QED BY <3>1, <3>2, <3>3, <1>3
    <2> QED BY <2>1, <2>2
  <1>8. f[0] = s
    <2>1. 0 \in 0..(n + m) /\ 0 <= n BY <1>1
    <2> QED BY <2>1, <1>2, <1>5
  <1>9. \A k \in 0..(n + m) : Json!Run(s, d)[k] = f[k]
    <2>1. Len(d) \in Nat BY <1>1
    <2> QED BY <2>1, <1>1, <1>7, <1>8, RunUnique
  <1>10. n + m \in n..(n + m) /\ n + m \in 0..(n + m) /\ n + m - n = m BY <1>1
  <1>11. Json!Reads(s, d) = q[m] BY <1>1, <1>6, <1>9, <1>10 DEF Json!Reads
  <1> QED BY <1>4, <1>11 DEF d

LEMMA ReadsNone ==
  ASSUME NEW s PROVE Json!Reads(s, <<>>) = s
  <1>1. Len(<<>>) = 0 OBVIOUS
  <1> QED BY <1>1, RunLemma DEF Json!Reads

LEMMA ReadsOne ==
  ASSUME NEW s, NEW c, NEW b, b = <<c>> PROVE Json!Reads(s, b) = Json!Read(s, c)
  <1>1. Len(b) = 1 /\ b[1] = c OBVIOUS
  <1>2. Json!Run(s, b)[0] = s /\ Json!Run(s, b)[1] = Json!Read(Json!Run(s, b)[1 - 1], b[1])
    BY <1>1, RunLemma
  <1>3. Json!Run(s, b)[1] = Json!Read(s, c) BY <1>1, <1>2
  <1> QED BY <1>1, <1>3 DEF Json!Reads

LEMMA ReadsLen2 ==
  ASSUME NEW s, NEW c, NEW d, NEW b, Len(b) = 2, b[1] = c, b[2] = d
  PROVE  Json!Reads(s, b) = Json!Read(Json!Read(s, c), d)
  <1>2. /\ Json!Run(s, b)[0] = s /\ Json!Run(s, b)[1] = Json!Read(Json!Run(s, b)[1 - 1], b[1])
        /\ Json!Run(s, b)[2] = Json!Read(Json!Run(s, b)[2 - 1], b[2])
    BY RunLemma
  <1>3. Json!Run(s, b)[2] = Json!Read(Json!Read(s, c), d) BY <1>2
  <1> QED BY <1>3 DEF Json!Reads

LEMMA ReadsTwo ==
  ASSUME NEW s, NEW c, NEW d, NEW b, b = <<c, d>>
  PROVE  Json!Reads(s, b) = Json!Read(Json!Read(s, c), d)
  <1>1. Len(b) = 2 /\ b[1] = c /\ b[2] = d OBVIOUS
  <1> QED BY <1>1, ReadsLen2

LEMMA HexNames == DOMAIN Json!NextHex = {"hex4", "hex3", "hex2", "hex1"}
  BY DEF Json!NextHex

LEMMA ReadCases ==
  ASSUME NEW s, NEW c
  PROVE  /\ s.q = "value"  => Json!Read(s, c) = Json!Value(s.open, c)
         /\ s.q = "key"    => Json!Read(s, c) = Json!Key(s.open, c)
         /\ s.q = "first"  => Json!Read(s, c) = Json!First(s.open, c)
         /\ s.q = "next"   => Json!Read(s, c) = Json!Next(s.open, c)
         /\ s.q = "scalar" => Json!Read(s, c) = IF c \in Json!Scalars THEN s ELSE Json!Next(s.open, c)
         /\ s.q = "colon"  => Json!Read(s, c) = IF c = 58 THEN Json!At("value", s.open) ELSE Json!Bad
         /\ s.q = "string" => Json!Read(s, c) = Json!String(s, c)
         /\ s.q = "bad"    => Json!Read(s, c) = Json!Bad
  <1> HIDE DEF Json!Scalars
  <1> QED BY HexNames DEF Json!Read

LEMMA ReadHex ==
  ASSUME NEW s, NEW c
  PROVE  /\ s.q = "escape" => Json!Read(s, c) = IF c = 117 THEN [s EXCEPT !.q = "hex4"]
                                ELSE IF c \in Json!Escapes THEN [s EXCEPT !.q = "string"] ELSE Json!Bad
         /\ s.q \in {"hex4", "hex3", "hex2", "hex1"}
            => Json!Read(s, c) = IF c \in Json!HexDigits THEN [s EXCEPT !.q = Json!NextHex[s.q]]
                                 ELSE Json!Bad
  BY HexNames DEF Json!Read

LEMMA Stays ==
  ASSUME NEW s, NEW t, NEW b \in Seq(Byte), b /= <<>>, Json!Read(s, b[1]) = t,
         \A k \in 2..Len(b) : Json!Read(t, b[k]) = t
  PROVE  Json!Reads(s, b) = t
  <1> DEFINE n == Len(b)
             f == [k \in 0..n |-> IF k = 0 THEN s ELSE t]
  <1>1. n \in Nat /\ n /= 0 OBVIOUS
  <1> HIDE DEF n
  <1>2. f[0] = s /\ \A k \in 1..n : f[k] = t BY <1>1
  <1> HIDE DEF f
  <1>3. ASSUME NEW k \in 1..n PROVE f[k] = Json!Read(f[k - 1], b[k])
    <2>1. CASE k = 1
      <3>1. f[k - 1] = s /\ f[k] = t BY <2>1, <1>1, <1>2
      <3> QED BY <3>1, <2>1
    <2>2. CASE k /= 1
      <3>1. k \in 2..n /\ k - 1 \in 1..n BY <2>2, <1>1
      <3>2. f[k - 1] = t /\ f[k] = t BY <3>1, <1>2
      <3>3. Json!Read(t, b[k]) = t BY <3>1 DEF n
      <3> QED BY <3>2, <3>3
    <2> QED BY <2>1, <2>2
  <1>4. \A k \in 0..n : Json!Run(s, b)[k] = f[k]
    <2>1. Len(b) \in Nat BY <1>1 DEF n
    <2> QED BY <2>1, <1>2, <1>3, RunUnique DEF n
  <1>5. n \in 0..n /\ n \in 1..n BY <1>1
  <1> QED BY <1>2, <1>4, <1>5 DEF Json!Reads, n

LEMMA BadStays ==
  ASSUME NEW b \in Seq(Byte)
  PROVE  Json!Reads(Json!Bad, b) = Json!Bad
  <1>1. \A c : Json!Read(Json!Bad, c) = Json!Bad
    BY ReadCases DEF Json!Bad, Json!At, Json!In
  <1> HIDE DEF Json!Bad
  <1>2. CASE b = <<>> BY <1>2, ReadsNone
  <1>3. CASE b /= <<>> BY <1>1, <1>3, Stays
  <1> QED BY <1>2, <1>3

LEMMA WholeEnds ==
  ASSUME NEW b \in Seq(Byte), b /= <<>>
  PROVE  Json!Reads(Json!Whole, b) = Json!Bad
  <1>1. \A c : Json!Read(Json!Bad, c) = Json!Bad
    BY ReadCases DEF Json!Bad, Json!At, Json!In
  <1>2. \A c : Json!Read(Json!Whole, c) = Json!Bad
    BY ReadCases DEF Json!Whole, Json!At, Json!In, Json!Next, Json!Close
  <1> HIDE DEF Json!Bad, Json!Whole
  <1> QED BY <1>1, <1>2, Stays

\* The beginning of a text that is not bad is not bad, and not complete.
LEMMA Beginning ==
  ASSUME NEW s, NEW a \in Seq(Byte), NEW b \in Seq(Byte), Json!Reads(s, a \o b) /= Json!Bad
  PROVE  Json!Reads(s, a) /= Json!Bad /\ (b /= <<>> => Json!Reads(s, a) /= Json!Whole)
  <1>1. Json!Reads(s, a \o b) = Json!Reads(Json!Reads(s, a), b) BY ReadsConcat
  <1> QED BY <1>1, BadStays, WholeEnds

-----------------------------------------------------------------------------
(* The sink *)

Sunk == cap \in Nat /\ out \in Seq(Byte) /\ Len(out) <= cap

\* A step that breaks off leaves the beginning of a value, and unless an
\* implementation gave up on its own not all of it.
Broken ==
  /\ pc' = "failed" /\ stack' = <<>> /\ Keep
  /\ out' \in Seq(Byte) /\ Len(out') <= cap
  /\ Sent' /= Json!Bad
  /\ err' \in {"Writer", "FormatError", "InvalidKeyType"} => Sent' /= Json!Whole

\* One that goes on with the calls s has made t of the output.
Wrote(s, t) ==
  /\ pc' = pc /\ stack' = s /\ Keep
  /\ out' \in Seq(Byte) /\ Len(out') <= cap /\ Sent' = t

LEMMA Joined ==
  /\ \A a \in Seq(Byte), b \in Seq(Byte) : a \o b \in Seq(Byte) /\ Len(a \o b) = Len(a) + Len(b)
  /\ \A a \in Seq(Byte), b \in Seq(Byte), c \in Seq(Byte) : (a \o b) \o c = a \o (b \o c)
  /\ \A a \in Seq(Byte) : a \o <<>> = a /\ <<>> \o a = a
  <1>1. ASSUME NEW a \in Seq(Byte), NEW b \in Seq(Byte)
        PROVE  a \o b \in Seq(Byte) /\ Len(a \o b) = Len(a) + Len(b)
    BY TwoParts
  <1>2. ASSUME NEW a \in Seq(Byte), NEW b \in Seq(Byte), NEW c \in Seq(Byte)
        PROVE  (a \o b) \o c = a \o (b \o c)
    BY ConcatAssociative
  <1>3. ASSUME NEW a \in Seq(Byte) PROVE a \o <<>> = a /\ <<>> \o a = a
    BY ConcatEmptySeq
  <1> QED BY <1>1, <1>2, <1>3

LEMMA PartRead ==
  ASSUME NEW s, NEW a \in Seq(Byte), NEW b \in Seq(Byte), Json!Reads(s, a \o b) /= Json!Bad,
         NEW n \in Nat, n < Len(b)
  PROVE  /\ SubSeq(b, 1, n) \in Seq(Byte) /\ a \o SubSeq(b, 1, n) \in Seq(Byte)
         /\ Len(a \o SubSeq(b, 1, n)) = Len(a) + n
         /\ Json!Reads(s, a \o SubSeq(b, 1, n)) \notin {Json!Bad, Json!Whole}
  <1> DEFINE m == Len(b)
             p == SubSeq(b, 1, n)
             r == SubSeq(b, n + 1, m)
             ap == a \o p
             ab == a \o b
  <1>1. m \in Nat /\ n < m /\ 1 \in Int /\ n \in Int /\ m \in Int /\ n + 1 \in Int /\ Len(a) \in Nat OBVIOUS
  <1>2. \A i \in 1..m : b[i] \in Byte BY ElementOfSeq
  <1> HIDE DEF m
  <1>3. p \in Seq(Byte) /\ Len(p) = n
    <2>1. \A i \in 1..n : b[i] \in Byte BY <1>1, <1>2
    <2>2. p \in Seq(Byte) /\ Len(p) = IF 1 <= n THEN n - 1 + 1 ELSE 0 BY <1>1, <2>1, SubSeqProperties
    <2> HIDE DEF p
    <2> QED BY <2>2, <1>1
  <1>4. r \in Seq(Byte) /\ r /= <<>>
    <2>1. \A i \in (n + 1)..m : b[i] \in Byte BY <1>1, <1>2
    <2> DEFINE k == n + 1
    <2>2. k \in Int /\ k <= m BY <1>1
    <2>3. \A i \in k..m : b[i] \in Byte BY <2>1
    <2> HIDE DEF k
    <2>4. SubSeq(b, k, m) \in Seq(Byte) /\ Len(SubSeq(b, k, m)) = IF k <= m THEN m - k + 1 ELSE 0
      BY <1>1, <2>2, <2>3, SubSeqProperties
    <2>5. r \in Seq(Byte) /\ Len(r) = m - k + 1 BY <2>2, <2>4 DEF k
    <2> HIDE DEF r
    <2>6. Len(r) /= 0 BY <2>5, <2>2, <1>1
    <2> QED BY <2>5, <2>6, EmptySeq
  <1>5. p \o r = b
    <2>1. 1 \in 1..(m + 1) /\ n \in (1 - 1)..m /\ m \in n..m BY <1>1
    <2>2. p \o r = SubSeq(b, 1, m) BY <2>1, ConcatAdjacentSubSeq DEF m
    <2> QED BY <2>2, SubSeqFull DEF m
  <1> HIDE DEF p, r
  <1>6. ap \in Seq(Byte) /\ Len(ap) = Len(a) + n BY <1>3, TwoParts
  <1>7. ap \o r = ab BY <1>3, <1>4, <1>5, Joined, Zenon
  <1> HIDE DEF ap
  <1>8. Json!Reads(s, ap) /= Json!Bad /\ Json!Reads(s, ap) /= Json!Whole
    BY <1>4, <1>6, <1>7, Beginning
  <1> QED BY <1>3, <1>6, <1>8 DEF ap, p

LEMMA RefuseOutcome ==
  ASSUME Sunk, NEW taken \in Seq(Byte), NEW bytes \in Seq(Byte), NEW e,
         Len(taken) <= cap, cap < Len(taken) + Len(bytes),
         Json!Reads(Json!Start, taken \o bytes) /= Json!Bad,
         Refuse(taken, bytes, e), Keep
  PROVE  Broken
  <1> DEFINE n == cap - Len(taken)
             part == taken \o SubSeq(bytes, 1, n)
  <1>1. cap \in Nat /\ Len(taken) \in Nat /\ Len(bytes) \in Nat BY LenProperties DEF Sunk
  <1>2. n \in Nat /\ n < Len(bytes) BY <1>1
  <1>3. /\ part \in Seq(Byte) /\ Len(part) = Len(taken) + n
        /\ Json!Reads(Json!Start, part) \notin {Json!Bad, Json!Whole}
    <2> HIDE DEF n
    <2> QED BY <1>2, PartRead
  <1>4. Len(part) <= cap
    <2> HIDE DEF part
    <2> QED BY <1>1, <1>3
  <1>5. Json!Reads(Json!Start, taken) \notin {Json!Bad, Json!Whole}
    <2>1. Len(bytes) /= 0 BY <1>2
    <2>2. bytes /= <<>> BY <2>1, EmptySeq
    <2> QED BY <2>2, Beginning
  <1>6. out' \in {taken, part} BY DEF Refuse
  <1> HIDE DEF part
  <1>7. out' \in Seq(Byte) /\ Len(out') <= cap /\ Json!Reads(Json!Start, out') \notin {Json!Bad, Json!Whole}
    BY <1>3, <1>4, <1>5, <1>6
  <1> QED BY <1>7 DEF Broken, Refuse, Fail, Sent

LEMMA PutCases ==
  ASSUME Sunk, NEW a \in Seq(Byte), NEW b \in Seq(Byte), NEW c \in Seq(Byte),
         Json!Reads(Sent, a \o b \o c) /= Json!Bad, Keep, NEW e
  PROVE  /\ ~Room(a) /\ Refuse(out, a, e) => Broken
         /\ Room(a) /\ ~Room(a \o b) /\ Refuse(out \o a, b, e) => Broken
         /\ Room(a \o b) /\ ~Room(a \o b \o c) /\ Refuse(out \o a \o b, c, e) => Broken
         /\ Room(a \o b \o c) /\ out' = out \o a \o b \o c
            => /\ out' \in Seq(Byte) /\ Len(out') <= cap
               /\ Sent' = Json!Reads(Sent, a \o b \o c)
  <1> DEFINE ab == a \o b
             abc == ab \o c
             oa == out \o a
             oab == oa \o b
             oabc == oab \o c
  <1>1. /\ cap \in Nat /\ Len(out) \in Nat /\ Len(out) <= cap /\ out \in Seq(Byte)
        /\ Len(a) \in Nat /\ Len(b) \in Nat /\ Len(c) \in Nat
    BY LenProperties DEF Sunk
  <1>2. ab \in Seq(Byte) /\ Len(ab) = Len(a) + Len(b) BY Joined, Zenon
  <1>3. abc \in Seq(Byte) /\ Len(abc) = Len(ab) + Len(c) BY <1>2, Joined, Zenon
  <1>4. oa \in Seq(Byte) /\ Len(oa) = Len(out) + Len(a) BY <1>1, Joined, Zenon
  <1>5. oab \in Seq(Byte) /\ Len(oab) = Len(oa) + Len(b) BY <1>4, Joined, Zenon
  <1>6. oabc \in Seq(Byte) /\ Len(oabc) = Len(oab) + Len(c) BY <1>5, Joined, Zenon
  <1>7. oab = out \o ab BY <1>1, Joined, Zenon
  <1>8. oabc = out \o abc
    <2> HIDE DEF oab, ab
    <2>1. oabc = (out \o ab) \o c BY <1>7
    <2>2. (out \o ab) \o c = out \o (ab \o c) BY <1>1, <1>2, Joined, Zenon
    <2> QED BY <2>1, <2>2
  <1> HIDE DEF ab, abc, oa, oab, oabc
  <1>9. Json!Reads(Json!Start, oabc) = Json!Reads(Sent, abc) BY <1>1, <1>3, <1>8, ReadsConcat DEF Sent
  <1>10. Json!Reads(Json!Start, oabc) /= Json!Bad BY <1>9 DEF abc, ab
  <1>11. Json!Reads(Json!Start, oab) /= Json!Bad BY <1>5, <1>10, Beginning DEF oabc
  <1>12. Json!Reads(Json!Start, oa) /= Json!Bad BY <1>4, <1>11, Beginning DEF oab
  <1>13. ASSUME ~Room(a), Refuse(out, a, e) PROVE Broken
    <2>1. cap < Len(out) + Len(a) BY <1>1, <1>13 DEF Room
    <2> QED BY <1>1, <1>12, <1>13, <2>1, RefuseOutcome DEF oa
  <1>14. ASSUME Room(a), ~Room(a \o b), Refuse(out \o a, b, e) PROVE Broken
    <2>1. Len(out) + Len(a) <= cap /\ ~(Len(out) + Len(ab) <= cap) BY <1>14 DEF Room, ab
    <2>2. Len(oa) <= cap /\ cap < Len(oa) + Len(b) BY <1>1, <1>2, <1>4, <2>1
    <2>3. Refuse(oa, b, e) BY <1>14 DEF oa
    <2> QED BY <1>4, <1>11, <2>2, <2>3, RefuseOutcome DEF oab
  <1>15. ASSUME Room(a \o b), ~Room(a \o b \o c), Refuse(out \o a \o b, c, e) PROVE Broken
    <2>1. Len(out) + Len(ab) <= cap /\ ~(Len(out) + Len(abc) <= cap) BY <1>15 DEF Room, ab, abc
    <2>2. Len(oab) <= cap /\ cap < Len(oab) + Len(c) BY <1>1, <1>2, <1>3, <1>4, <1>5, <2>1
    <2>3. Refuse(oab, c, e) BY <1>15 DEF oab, oa
    <2> QED BY <1>5, <1>10, <2>2, <2>3, RefuseOutcome DEF oabc
  <1>16. ASSUME Room(a \o b \o c), out' = out \o a \o b \o c
         PROVE out' \in Seq(Byte) /\ Len(out') <= cap /\ Sent' = Json!Reads(Sent, a \o b \o c)
    <2>1. Len(out) + Len(abc) <= cap BY <1>16 DEF Room, ab, abc
    <2>2. out' = oabc BY <1>16 DEF oabc, oab, oa
    <2>3. Len(oabc) <= cap BY <1>1, <1>2, <1>3, <1>4, <1>5, <1>6, <2>1
    <2>4. Sent' = Json!Reads(Json!Start, out') BY DEF Sent
    <2>5. out' \in Seq(Byte) /\ Len(out') <= cap BY <1>6, <2>2, <2>3
    <2>6. Sent' = Json!Reads(Sent, abc) BY <1>9, <2>2, <2>4
    <2> QED BY <2>5, <2>6 DEF abc, ab
  <1> QED BY <1>13, <1>14, <1>15, <1>16

LEMMA PutOutcome ==
  ASSUME Sunk, NEW a \in Seq(Byte), NEW b \in Seq(Byte), NEW c \in Seq(Byte),
         Json!Reads(Sent, a \o b \o c) /= Json!Bad, NEW e, NEW s,
         Put(a, b, c, e, Go(s)), Keep
  PROVE  Broken \/ Wrote(s, Json!Reads(Sent, a \o b \o c))
  <1>1. CASE ~Room(a) /\ Refuse(out, a, e) BY <1>1, PutCases
  <1>2. CASE Room(a) /\ ~Room(a \o b) /\ Refuse(out \o a, b, e) BY <1>2, PutCases
  <1>3. CASE Room(a \o b) /\ ~Room(a \o b \o c) /\ Refuse(out \o a \o b, c, e) BY <1>3, PutCases
  <1>4. CASE Room(a \o b \o c) /\ out' = out \o a \o b \o c /\ Go(s)
    <2>1. /\ out' \in Seq(Byte) /\ Len(out') <= cap
          /\ Sent' = Json!Reads(Sent, a \o b \o c)
      BY <1>4, PutCases
    <2> QED BY <1>4, <2>1 DEF Wrote, Go
  <1> QED BY <1>1, <1>2, <1>3, <1>4 DEF Put

\* A single write, and then an error of its own.
LEMMA PutFailure ==
  ASSUME Sunk, NEW a \in Seq(Byte), Json!Reads(Sent, a) /= Json!Bad, NEW e, NEW d,
         d = "SerializeError" \/ Json!Reads(Sent, a) /= Json!Whole,
         Put(a, <<>>, <<>>, e, Fail(d)), Keep
  PROVE  Broken
  <1> DEFINE z == <<>>
  <1>1. z \in Seq(Byte) /\ a \o z = a /\ a \o z \o z = a BY EmptySeq, Joined, Zenon
  <1>2. Put(a, z, z, e, Fail(d)) OBVIOUS
  <1> HIDE DEF z
  <1>3. Json!Reads(Sent, a \o z \o z) /= Json!Bad BY <1>1
  <1>4. CASE ~Room(a) /\ Refuse(out, a, e) BY <1>1, <1>3, <1>4, PutCases
  <1>5. CASE Room(a) /\ ~Room(a \o z) /\ Refuse(out \o a, z, e) BY <1>1, <1>3, <1>5, PutCases
  <1>6. CASE Room(a \o z) /\ ~Room(a \o z \o z) /\ Refuse(out \o a \o z, z, e)
    BY <1>1, <1>3, <1>6, PutCases
  <1>7. CASE Room(a \o z \o z) /\ out' = out \o a \o z \o z /\ Fail(d)
    <2>1. /\ out' \in Seq(Byte) /\ Len(out') <= cap
          /\ Sent' = Json!Reads(Sent, a \o z \o z)
      BY <1>1, <1>3, <1>7, PutCases
    <2>2. Sent' = Json!Reads(Sent, a) BY <1>1, <2>1
    <2> QED BY <1>7, <2>1, <2>2 DEF Broken, Fail
  <1> QED BY <1>2, <1>4, <1>5, <1>6, <1>7 DEF Put

-----------------------------------------------------------------------------
(* The calls in progress.  Each container has opened the brackets of the one *)
(* it is in and its own, and what the reader expects follows from the        *)
(* innermost: `first` and `open` of its frame.                               *)

Containers == Lists \cup Structs \cup {"one", "map", "newtype_variant"}
GoodFrames == {f \in Frames : f.from <= f.i /\ f.i <= Len(f.text)}

\* What is to be closed within the container f, which is within o.
Inside(f, o) ==
  CASE f.kind = "seq" -> Append(o, RBRACKET)
    [] f.kind = "tuple_variant" -> Append(Append(o, RBRACE), RBRACKET)
    [] f.kind \in {"map", "struct", "newtype_variant"} -> Append(o, RBRACE)
    [] f.kind = "struct_variant" -> Append(Append(o, RBRACE), RBRACE)
    [] OTHER -> o
Expects(f) ==
  IF f.kind = "map" /\ f.open THEN "colon"
  ELSE IF f.kind \notin Lists /\ f.open THEN "value"
  ELSE IF f.first /\ f.kind \notin {"one", "newtype_variant"} THEN "first" ELSE "next"

\* o[k] is what is to be closed around the k-th container.
Waiting(s, o) ==
  /\ s \in Seq(GoodFrames) /\ s /= <<>>
  /\ \A k \in 1..Len(s) : s[k].kind \in Containers /\ (s[k].kind = "one" <=> k = 1) /\ o[k] \in Seq(Byte)
  /\ \A k \in 1..Len(s) : k /= Len(s) => ~s[k].first /\ ~s[k].open /\ o[k + 1] = Inside(s[k], o[k])
  /\ o[1] = <<>>
Awaits(s, w) ==
  \E o : /\ Waiting(s, o)
         /\ w = Json!At(Expects(s[Len(s)]), Inside(s[Len(s)], o[Len(s)]))

\* A number or a literal has ended where its value has.
Settled(t) == IF t.q = "scalar" THEN Json!At("next", t.open) ELSE t

LEMMA AppendFacts ==
  ASSUME NEW S, NEW o \in Seq(S), NEW c \in S
  PROVE  /\ Append(o, c) \in Seq(S) /\ Append(o, c) /= <<>>
         /\ Len(Append(o, c)) = Len(o) + 1 /\ Len(o) \in Nat
         /\ Append(o, c)[Len(o) + 1] = c
         /\ \A k \in 1..Len(o) : Append(o, c)[k] = o[k]
         /\ SubSeq(Append(o, c), 1, Len(Append(o, c)) - 1) = o
  <1> DEFINE n == Len(o)
             d == Append(o, c)
  <1>1. /\ d \in Seq(S) /\ d /= <<>> /\ Len(d) = n + 1 /\ n \in Nat /\ d[n + 1] = c
        /\ \A k \in 1..n : d[k] = o[k]
    BY AppendProperties, LenProperties
  <1> HIDE DEF d
  <1>2. SubSeq(d, 1, n) = o
    <2>1. 1 \in Int /\ n \in Int /\ \A k \in 1..n : d[k] \in S
      <3>1. \A k \in 1..n : o[k] \in S BY ElementOfSeq
      <3> QED BY <1>1, <3>1
    <2>2. /\ SubSeq(d, 1, n) \in Seq(S) /\ Len(SubSeq(d, 1, n)) = IF 1 <= n THEN n - 1 + 1 ELSE 0
          /\ \A k \in 1..(n - 1 + 1) : SubSeq(d, 1, n)[k] = d[1 + k - 1]
      <3> HIDE DEF n
      <3> QED BY <2>1, SubSeqProperties
    <2> DEFINE e == SubSeq(d, 1, n)
    <2> HIDE DEF e, n
    <2>3. e \in Seq(S) /\ Len(e) = n BY <2>2, <1>1 DEF e
    <2>4. \A k \in 1..n : e[k] = o[k]
      <3> SUFFICES ASSUME NEW k \in 1..n PROVE e[k] = o[k] OBVIOUS
      <3>1. n - 1 + 1 = n /\ 1 + k - 1 = k BY <1>1
      <3>2. e[k] = d[k] BY <2>2, <3>1 DEF e
      <3> QED BY <3>2, <1>1
    <2>5. e = o BY <2>3, <2>4, SeqEqual DEF n
    <2> QED BY <2>5 DEF e
  <1>3. n + 1 - 1 = n BY <1>1
  <1>4. SubSeq(d, 1, Len(d) - 1) = o BY <1>1, <1>2, <1>3
  <1> QED BY <1>1, <1>4 DEF d

LEMMA InsideLemma ==
  ASSUME NEW f, f.kind \in Containers, NEW o \in Seq(Byte)
  PROVE  /\ Inside(f, o) \in Seq(Byte)
         /\ f.kind /= "one" => /\ Inside(f, o) /= <<>>
                               /\ Json!Last(Inside(f, o)) = IF f.kind \in Lists THEN 93 ELSE 125
         /\ f.kind = "one" => Inside(f, o) = o
  <1>1. RBRACKET \in Byte /\ RBRACE \in Byte BY DEF RBRACKET, RBRACE, Byte
  <1>2. ASSUME NEW p \in Seq(Byte), NEW c \in Byte
        PROVE  Append(p, c) \in Seq(Byte) /\ Append(p, c) /= <<>> /\ Json!Last(Append(p, c)) = c
    <2> DEFINE d == Append(p, c)
    <2>1. d \in Seq(Byte) /\ d /= <<>> /\ Len(d) = Len(p) + 1 /\ d[Len(p) + 1] = c BY AppendFacts
    <2> HIDE DEF d
    <2>2. Json!Last(d) = c BY <2>1 DEF Json!Last
    <2> QED BY <2>1, <2>2 DEF d
  <1>3. /\ f.kind = "seq" => Inside(f, o) = Append(o, RBRACKET)
        /\ f.kind = "tuple_variant" => Inside(f, o) = Append(Append(o, RBRACE), RBRACKET)
        /\ f.kind \in {"map", "struct", "newtype_variant"} => Inside(f, o) = Append(o, RBRACE)
        /\ f.kind = "struct_variant" => Inside(f, o) = Append(Append(o, RBRACE), RBRACE)
        /\ f.kind = "one" => Inside(f, o) = o
    BY DEF Inside
  <1>4. f.kind \in {"seq", "tuple_variant", "struct", "struct_variant", "one", "map", "newtype_variant"}
    BY DEF Containers, Lists, Structs
  <1>5. RBRACKET = 93 /\ RBRACE = 125 BY DEF RBRACKET, RBRACE
  <1>6. CASE f.kind = "one" BY <1>3, <1>6
  <1>7. ASSUME f.kind /= "one"
        PROVE  \E p \in Seq(Byte), c \in Byte :
                 Inside(f, o) = Append(p, c) /\ c = IF f.kind \in Lists THEN 93 ELSE 125
    <2>1. Append(o, RBRACE) \in Seq(Byte) BY <1>1, <1>2
    <2>2. CASE f.kind \in Lists
      <3>1. Inside(f, o) = Append(o, RBRACKET) \/ Inside(f, o) = Append(Append(o, RBRACE), RBRACKET)
        BY <1>3, <2>2 DEF Lists
      <3> QED BY <3>1, <2>1, <2>2, <1>1, <1>5
    <2>3. CASE f.kind \notin Lists
      <3>1. Inside(f, o) = Append(o, RBRACE) \/ Inside(f, o) = Append(Append(o, RBRACE), RBRACE)
        BY <1>3, <1>4, <1>7, <2>3 DEF Lists
      <3> QED BY <3>1, <2>1, <2>3, <1>1, <1>5
    <2> QED BY <2>2, <2>3
  <1>8. CASE f.kind /= "one"
    <2>1. PICK p \in Seq(Byte), c \in Byte :
            Inside(f, o) = Append(p, c) /\ c = IF f.kind \in Lists THEN 93 ELSE 125
      BY <1>7, <1>8
    <2> QED BY <1>2, <1>8, <2>1
  <1> QED BY <1>6, <1>8

LEMMA AtFields ==
  ASSUME NEW q, NEW o
  PROVE  /\ Json!At(q, o).q = q /\ Json!At(q, o).open = o
         /\ Json!At(q, o).key = FALSE /\ Json!At(q, o).more = <<>>
  BY DEF Json!At, Json!In

LEMMA AtIs ==
  ASSUME NEW q, NEW o, NEW w, w = Json!At(q, o)
  PROVE  w.q = q /\ w.open = o
  BY AtFields

LEMMA AwaitsStart == Awaits(<<Frame("one", TRUE)>>, Json!Start) /\ Frame("one", TRUE) \in GoodFrames
  <1> DEFINE f == Frame("one", TRUE)
             s == <<f>>
             o == [k \in {1} |-> <<>>]
  <1>1. f.kind = "one" /\ f.open = TRUE /\ f \in GoodFrames
    BY EmptySeq DEF Frame, GoodFrames, Frames, Kinds
  <1> HIDE DEF f
  <1>2. s \in Seq(GoodFrames) /\ s /= <<>> /\ Len(s) = 1 /\ s[1] = f BY <1>1
  <1>3. o[1] = <<>> OBVIOUS
  <1> HIDE DEF s, o
  <1>4. o[1] \in Seq(Byte) /\ f.kind \in Containers BY <1>1, <1>3, EmptySeq DEF Containers
  <1>5. Waiting(s, o)
    <2>1. \A k \in 1..Len(s) : k = 1 BY <1>2
    <2>2. \A k \in 1..Len(s) : s[k].kind \in Containers /\ (s[k].kind = "one" <=> k = 1) /\ o[k] \in Seq(Byte)
      BY <1>1, <1>2, <1>4, <2>1
    <2>3. \A k \in 1..Len(s) : k = Len(s) BY <1>2, <2>1
    <2> QED BY <1>2, <1>3, <2>2, <2>3 DEF Waiting
  <1>6. Expects(f) = "value" /\ Inside(f, o[1]) = <<>> BY <1>1, <1>3 DEF Expects, Inside, Lists
  <1>7. Json!Start = Json!At(Expects(s[Len(s)]), Inside(s[Len(s)], o[Len(s)]))
    BY <1>2, <1>6 DEF Json!Start
  <1>8. Awaits(s, Json!Start) BY <1>5, <1>7 DEF Awaits
  <1> QED BY <1>1, <1>8 DEF s, f

\* The innermost container f of s and what is around it.
LEMMA AwaitsLast ==
  ASSUME NEW r, NEW f, NEW s, s = Append(r, f), r \in Seq(GoodFrames), f \in GoodFrames, NEW o
  PROVE  /\ s \in Seq(GoodFrames) /\ s /= <<>> /\ Len(s) = Len(r) + 1 /\ s[Len(s)] = f
         /\ Len(r) \in Nat /\ \A k \in 1..Len(r) : s[k] = r[k]
  <1>1. /\ s \in Seq(GoodFrames) /\ s /= <<>> /\ Len(s) = Len(r) + 1 /\ s[Len(r) + 1] = f
        /\ Len(r) \in Nat /\ \A k \in 1..Len(r) : s[k] = r[k]
    BY AppendFacts
  <1> QED BY <1>1

LEMMA AwaitsInfo ==
  ASSUME NEW r \in Seq(GoodFrames), NEW f \in GoodFrames, NEW w, Awaits(Append(r, f), w)
  PROVE  /\ f.kind \in Containers
         /\ w = Json!At(Expects(f), w.open) /\ w.open \in Seq(Byte)
         /\ f.kind = "one" => w.open = <<>> /\ r = <<>>
         /\ f.kind /= "one" => /\ r /= <<>> /\ w.open /= <<>>
                               /\ Json!Last(w.open) = IF f.kind \in Lists THEN 93 ELSE 125
  <1> DEFINE s == Append(r, f)
             n == Len(s)
  <1>1. /\ s \in Seq(GoodFrames) /\ s /= <<>> /\ n = Len(r) + 1 /\ s[n] = f
        /\ Len(r) \in Nat /\ \A k \in 1..Len(r) : s[k] = r[k]
    BY AwaitsLast
  <1> HIDE DEF s
  <1>2. PICK o : Waiting(s, o) /\ w = Json!At(Expects(s[n]), Inside(s[n], o[n])) BY DEF Awaits, s
  <1>3. n \in 1..n /\ (n = 1 <=> Len(r) = 0) BY <1>1
  <1>4. f.kind \in Containers /\ (f.kind = "one" <=> n = 1) /\ o[n] \in Seq(Byte)
    BY <1>1, <1>2, <1>3 DEF Waiting
  <1>5. o[1] = <<>> BY <1>2 DEF Waiting
  <1>6. w.open = Inside(f, o[n])
    <2>1. w = Json!At(Expects(f), Inside(f, o[n])) BY <1>1, <1>2
    <2>2. Json!At(Expects(f), Inside(f, o[n])).open = Inside(f, o[n]) BY AtFields
    <2> QED BY <2>1, <2>2
  <1>7. w = Json!At(Expects(f), w.open) BY <1>1, <1>2, <1>6
  <1>8. r = <<>> <=> Len(r) = 0 BY EmptySeq
  <1> DEFINE around == o[n]
             p == Inside(f, around)
  <1>9. p = w.open /\ around \in Seq(Byte) BY <1>4, <1>6
  <1>10. /\ p \in Seq(Byte)
         /\ f.kind /= "one" => p /= <<>> /\ Json!Last(p) = IF f.kind \in Lists THEN 93 ELSE 125
         /\ f.kind = "one" => p = around
    <2> HIDE DEF around
    <2> QED BY <1>4, <1>9, InsideLemma DEF p
  <1>11. f.kind = "one" => around = <<>> /\ r = <<>> BY <1>3, <1>4, <1>5, <1>8
  <1> HIDE DEF p, around
  <1>12. f.kind /= "one" => r /= <<>> BY <1>3, <1>4, <1>8
  <1> QED BY <1>4, <1>7, <1>9, <1>10, <1>11, <1>12

LEMMA InsideKind ==
  ASSUME NEW f, NEW g, f.kind = g.kind, NEW o
  PROVE  Inside(f, o) = Inside(g, o)
  BY DEF Inside

LEMMA AwaitsReplace ==
  ASSUME NEW r \in Seq(GoodFrames), NEW f \in GoodFrames, NEW w, Awaits(Append(r, f), w),
         NEW g \in GoodFrames, g.kind = f.kind
  PROVE  Awaits(Append(r, g), Json!At(Expects(g), w.open))
  <1> DEFINE s == Append(r, f)
             t == Append(r, g)
             m == Len(r)
             n == m + 1
  <1>1. /\ s \in Seq(GoodFrames) /\ s /= <<>> /\ Len(s) = n /\ s[Len(s)] = f
        /\ m \in Nat /\ \A k \in 1..m : s[k] = r[k]
    BY AwaitsLast
  <1>2. /\ t \in Seq(GoodFrames) /\ t /= <<>> /\ Len(t) = n /\ t[Len(t)] = g
        /\ m \in Nat /\ \A k \in 1..m : t[k] = r[k]
    BY AwaitsLast
  <1> HIDE DEF s, t, m
  <1>3. PICK o : Waiting(s, o) /\ w = Json!At(Expects(s[Len(s)]), Inside(s[Len(s)], o[Len(s)]))
    BY DEF Awaits, s
  <1>4. n \in 1..n /\ \A k \in 1..n : k = n \/ k \in 1..m BY <1>1
  <1>5. \A k \in 1..n : t[k].kind = s[k].kind BY <1>1, <1>2, <1>4
  <1>6. \A k \in 1..n : k /= n => t[k] = s[k] BY <1>1, <1>2, <1>4
  <1>7. Waiting(t, o)
    <2>1. \A k \in 1..n : t[k].kind \in Containers /\ (t[k].kind = "one" <=> k = 1) /\ o[k] \in Seq(Byte)
      BY <1>1, <1>3, <1>5 DEF Waiting
    <2>2. \A k \in 1..n : k /= n => ~t[k].first /\ ~t[k].open /\ o[k + 1] = Inside(t[k], o[k])
      BY <1>1, <1>3, <1>6 DEF Waiting
    <2>3. o[1] = <<>> BY <1>3 DEF Waiting
    <2> HIDE DEF n
    <2> QED BY <1>2, <2>1, <2>2, <2>3 DEF Waiting
  <1>8. w.open = Inside(g, o[n])
    <2> DEFINE u == Inside(f, o[n])
    <2>1. w = Json!At(Expects(f), u) BY <1>1, <1>3
    <2>2. u = Inside(g, o[n]) BY InsideKind
    <2> HIDE DEF u
    <2>3. w.open = u BY <2>1, AtIs
    <2> QED BY <2>2, <2>3
  <1>9. Awaits(t, Json!At(Expects(g), w.open))
    <2> HIDE DEF n
    <2>1. Json!At(Expects(g), w.open) = Json!At(Expects(t[Len(t)]), Inside(t[Len(t)], o[Len(t)]))
      BY <1>2, <1>8
    <2> QED BY <1>7, <2>1 DEF Awaits
  <1> QED BY <1>9 DEF t

\* A container begins within f.
LEMMA AwaitsPush ==
  ASSUME NEW r \in Seq(GoodFrames), NEW f \in GoodFrames, NEW w, Awaits(Append(r, f), w),
         ~f.first, ~f.open, NEW h \in GoodFrames, h.kind \in Containers, h.kind /= "one"
  PROVE  Awaits(Append(Append(r, f), h), Json!At(Expects(h), Inside(h, w.open)))
  <1> DEFINE s == Append(r, f)
             t == Append(s, h)
             n == Len(s)
             m == n + 1
  <1>1. s \in Seq(GoodFrames) /\ s /= <<>> /\ n \in Nat \ {0} /\ s[n] = f
    <2>1. s \in Seq(GoodFrames) /\ s /= <<>> /\ s[Len(s)] = f BY AwaitsLast
    <2> HIDE DEF s
    <2> QED BY <2>1, EmptySeq
  <1> HIDE DEF s
  <1>2. t \in Seq(GoodFrames) /\ t /= <<>> /\ Len(t) = m /\ t[m] = h /\ \A k \in 1..n : t[k] = s[k]
    BY <1>1, AppendFacts
  <1> HIDE DEF t
  <1>3. PICK o : Waiting(s, o) /\ w = Json!At(Expects(s[n]), Inside(s[n], o[n])) BY DEF Awaits, s
  <1> DEFINE u == Inside(f, o[n])
             p == [k \in 1..m |-> IF k = m THEN u ELSE o[k]]
  <1>4. m \in 1..m /\ m \in Nat /\ 1 \in 1..m /\ m /= 1 /\ n \in 1..n /\ n \in 1..m /\ m /= n
        /\ \A k \in 1..m : k /= m => k \in 1..n
    BY <1>1
  <1>5. p[m] = u /\ \A k \in 1..m : k /= m => p[k] = o[k] BY <1>4
  <1>6. f.kind \in Containers /\ o[n] \in Seq(Byte) BY <1>1, <1>3, <1>4 DEF Waiting
  <1>7. w.open = u
    <2>1. w = Json!At(Expects(f), u) BY <1>1, <1>3
    <2> HIDE DEF u
    <2>2. Json!At(Expects(f), u).open = u BY AtFields
    <2> QED BY <2>1, <2>2
  <1>8. u \in Seq(Byte)
    <2> DEFINE around == o[n]
    <2>1. around \in Seq(Byte) BY <1>6
    <2> HIDE DEF around
    <2>2. Inside(f, around) \in Seq(Byte) BY <1>6, <2>1, InsideLemma
    <2> QED BY <2>2 DEF around
  <1> HIDE DEF p
  <1>9. \A k \in 1..m : t[k].kind \in Containers /\ (t[k].kind = "one" <=> k = 1) /\ p[k] \in Seq(Byte)
    <2> SUFFICES ASSUME NEW k \in 1..m
                 PROVE  t[k].kind \in Containers /\ (t[k].kind = "one" <=> k = 1) /\ p[k] \in Seq(Byte)
      OBVIOUS
    <2> HIDE DEF u, m, n
    <2>1. CASE k = m BY <2>1, <1>2, <1>4, <1>5, <1>8
    <2>2. CASE k /= m
      <3>1. k \in 1..n /\ p[k] = o[k] BY <2>2, <1>4, <1>5
      <3>2. t[k] = s[k] BY <3>1, <1>2
      <3> QED BY <3>1, <3>2, <1>3 DEF Waiting, n
    <2> QED BY <2>1, <2>2
  <1>10. \A k \in 1..m : k /= m => ~t[k].first /\ ~t[k].open /\ p[k + 1] = Inside(t[k], p[k])
    <2> SUFFICES ASSUME NEW k \in 1..m, k /= m
                 PROVE  ~t[k].first /\ ~t[k].open /\ p[k + 1] = Inside(t[k], p[k])
      OBVIOUS
    <2>1. k \in 1..n /\ p[k] = o[k] BY <1>4, <1>5
    <2>2. t[k] = s[k] BY <2>1, <1>2
    <2>3. CASE k = n BY <2>1, <2>2, <2>3, <1>1, <1>5
    <2>4. CASE k /= n
      <3> DEFINE j == k + 1
      <3>1. j \in 1..m /\ j /= m BY <2>1, <2>4, <1>1
      <3>2. ~s[k].first /\ ~s[k].open /\ o[j] = Inside(s[k], o[k]) BY <2>1, <2>4, <1>3 DEF Waiting
      <3> HIDE DEF j
      <3>3. p[j] = o[j] BY <3>1, <1>5
      <3> QED BY <2>1, <2>2, <3>2, <3>3 DEF j
    <2> QED BY <2>3, <2>4
  <1>11. p[1] = <<>> BY <1>3, <1>4, <1>5 DEF Waiting
  <1> HIDE DEF u, m, n
  <1>12. Waiting(t, p) BY <1>2, <1>9, <1>10, <1>11 DEF Waiting
  <1>13. Json!At(Expects(h), Inside(h, w.open)) = Json!At(Expects(t[Len(t)]), Inside(t[Len(t)], p[Len(t)]))
    BY <1>2, <1>5, <1>7
  <1> QED BY <1>12, <1>13 DEF Awaits, t, s

\* f ends, and the container it is in goes on.
LEMMA AwaitsPop ==
  ASSUME NEW r \in Seq(GoodFrames), NEW f \in GoodFrames, NEW w, Awaits(Append(r, f), w), f.kind /= "one"
  PROVE  \E p \in Seq(Byte) : w.open = Inside(f, p) /\ Awaits(r, Json!At("next", p))
  <1> DEFINE s == Append(r, f)
             m == Len(r)
             n == m + 1
  <1>1. /\ Len(s) = n /\ s[n] = f /\ m \in Nat
        /\ \A k \in 1..m : s[k] = r[k]
    BY AwaitsLast
  <1>2. PICK o : Waiting(s, o) /\ w = Json!At(Expects(s[Len(s)]), Inside(s[Len(s)], o[Len(s)]))
    BY DEF Awaits
  <1> HIDE DEF s
  <1>3. \A k \in 1..n : s[k].kind \in Containers /\ (s[k].kind = "one" <=> k = 1) /\ o[k] \in Seq(Byte)
    BY <1>1, <1>2 DEF Waiting
  <1>4. \A k \in 1..n : k /= n => ~s[k].first /\ ~s[k].open /\ o[k + 1] = Inside(s[k], o[k])
    BY <1>1, <1>2 DEF Waiting
  <1>5. o[1] = <<>> BY <1>2 DEF Waiting
  <1>6. n \in 1..n BY <1>1
  <1>7. n /= 1 BY <1>1, <1>3, <1>6
  <1>8. m \in 1..m /\ m \in 1..n /\ m /= n /\ 1 \in 1..m BY <1>1, <1>7
  <1>9. \A k \in 1..m : k \in 1..n /\ k /= n BY <1>1
  <1>10. r /= <<>> BY <1>8
  <1> DEFINE p == o[n]
  <1>11. p = Inside(r[m], o[m]) /\ ~r[m].first /\ ~r[m].open BY <1>1, <1>4, <1>8
  <1>12. p \in Seq(Byte) /\ w = Json!At(Expects(f), Inside(f, p)) BY <1>1, <1>2, <1>3, <1>6
  <1> HIDE DEF p
  <1>13. w.open = Inside(f, p)
    <2>1. Json!At(Expects(f), Inside(f, p)).open = Inside(f, p) BY AtFields
    <2> QED BY <1>12, <2>1
  <1>14. Waiting(r, o)
    <2>1. \A k \in 1..m : r[k].kind \in Containers /\ (r[k].kind = "one" <=> k = 1) /\ o[k] \in Seq(Byte)
      BY <1>1, <1>3, <1>9
    <2>2. \A k \in 1..m : ~r[k].first /\ ~r[k].open /\ o[k + 1] = Inside(r[k], o[k])
      BY <1>1, <1>4, <1>9
    <2> HIDE DEF n
    <2> QED BY <1>5, <1>10, <2>1, <2>2 DEF Waiting
  <1>15. Expects(r[m]) = "next" BY <1>11 DEF Expects
  <1>16. Awaits(r, Json!At("next", p)) BY <1>11, <1>14, <1>15 DEF Awaits
  <1> QED BY <1>12, <1>13, <1>16

-----------------------------------------------------------------------------
(* What leads to a value or a key, and what ends a container.  A call comes  *)
(* when the reader, past a number perhaps, expects w.                        *)

LEMMA Marks ==
  /\ COMMA = 44 /\ COLON = 58 /\ LBRACKET = 91 /\ RBRACKET = 93 /\ LBRACE = 123 /\ RBRACE = 125
  /\ QU = 34 /\ BS = 92 /\ UU = 117
  /\ {COMMA, COLON, LBRACKET, RBRACKET, LBRACE, RBRACE, QU, BS, UU} \subseteq Byte
  /\ 44 \notin Json!Scalars /\ 93 \notin Json!Scalars /\ 125 \notin Json!Scalars
  /\ 34 \notin Json!Scalars /\ 91 \notin Json!Scalars /\ 123 \notin Json!Scalars
  BY DEF COMMA, COLON, LBRACKET, RBRACKET, LBRACE, RBRACE, QU, BS, UU, Byte, Json!Scalars

LEMMA One ==
  ASSUME NEW c \in Byte
  PROVE  <<c>> \in Seq(Byte) /\ Len(<<c>>) = 1
  OBVIOUS

LEMMA SettledReads ==
  ASSUME NEW t, NEW c, c \notin Json!Scalars
  PROVE  Json!Read(t, c) = Json!Read(Settled(t), c)
  <1> DEFINE w == Settled(t)
  <1>1. CASE t.q = "scalar"
    <2>1. w = Json!At("next", t.open) BY <1>1 DEF Settled
    <2> HIDE DEF w
    <2>2. w.q = "next" /\ w.open = t.open BY <2>1, AtIs
    <2>3. Json!Read(w, c) = Json!Next(t.open, c) BY <2>2, ReadCases
    <2>4. Json!Read(t, c) = Json!Next(t.open, c) BY <1>1, ReadCases
    <2> QED BY <2>3, <2>4 DEF w
  <1>2. CASE t.q /= "scalar" BY <1>2 DEF Settled
  <1> QED BY <1>1, <1>2

LEMMA SettledSame ==
  ASSUME NEW t, NEW q, NEW o, Settled(t) = Json!At(q, o), q /= "next"
  PROVE  t = Json!At(q, o)
  <1>1. CASE t.q = "scalar"
    <2>1. Json!At("next", t.open) = Json!At(q, o) BY <1>1 DEF Settled
    <2>2. Json!At("next", t.open).q = "next" /\ Json!At(q, o).q = q BY AtFields
    <2> QED BY <2>1, <2>2
  <1>2. CASE t.q /= "scalar" BY <1>2 DEF Settled
  <1> QED BY <1>1, <1>2

LEMMA NotBad ==
  ASSUME NEW q, NEW o
  PROVE  /\ q /= "bad" => Json!At(q, o) /= Json!Bad
         /\ q /= "next" => Json!At(q, o) /= Json!Whole
         /\ o /= <<>> => Json!At(q, o) /= Json!Whole
  <1>1. Json!At(q, o).q = q /\ Json!At(q, o).open = o BY AtFields
  <1>2. Json!Bad.q = "bad" BY AtFields DEF Json!Bad
  <1>3. Json!Whole.q = "next" /\ Json!Whole.open = <<>>
    <2>1. Json!Whole = Json!At("next", <<>>) BY DEF Json!Whole
    <2> HIDE DEF Json!Whole
    <2> QED BY <2>1, AtIs
  <1> QED BY <1>1, <1>2, <1>3

\* What is read where q is expected within o.
LEMMA ReadAt ==
  ASSUME NEW o, NEW c
  PROVE  /\ Json!Read(Json!At("value", o), c) = Json!Value(o, c)
         /\ Json!Read(Json!At("key", o), c) = Json!Key(o, c)
         /\ Json!Read(Json!At("first", o), c) = Json!First(o, c)
         /\ Json!Read(Json!At("next", o), c) = Json!Next(o, c)
         /\ Json!Read(Json!At("colon", o), 58) = Json!At("value", o)
  <1>1. ASSUME NEW q PROVE Json!At(q, o).q = q /\ Json!At(q, o).open = o BY AtFields
  <1> QED BY <1>1, ReadCases

LEMMA LeadReads ==
  ASSUME NEW r \in Seq(GoodFrames), NEW f \in GoodFrames, NEW w, Awaits(Append(r, f), w), Ready(f),
         NEW t, Settled(t) = w
  PROVE  /\ Lead(f) \in Seq(Byte)
         /\ Json!Reads(t, Lead(f)) /= Json!Bad
         /\ \A c : c /= 93 => Json!Read(Json!Reads(t, Lead(f)), c) = Json!Value(w.open, c)
  <1> DEFINE o == w.open
             v == Json!Reads(t, Lead(f))
  <1>1. /\ w = Json!At(Expects(f), o) /\ o \in Seq(Byte)
        /\ f.kind \in Lists => o /= <<>> /\ Json!Last(o) = 93
    BY AwaitsInfo DEF Lists
  <1> HIDE DEF o
  <1>2. COMMA = 44 /\ COLON = 58 /\ <<44>> \in Seq(Byte) /\ <<58>> \in Seq(Byte) /\ <<>> \in Seq(Byte)
    BY Marks, One, EmptySeq
  <1>3. CASE f.kind \in Lists /\ f.first
    <2>1. Lead(f) = <<>> /\ Expects(f) = "first" BY <1>3 DEF Lead, Comma, Expects, Lists
    <2>2. t = Json!At("first", o) BY <1>1, <2>1, SettledSame
    <2>3. v = Json!At("first", o) BY <2>1, <2>2, ReadsNone
    <2>4. \A c : c /= 93 => Json!First(o, c) = Json!Value(o, c) BY <1>1, <1>3 DEF Json!First
    <2>5. v /= Json!Bad BY <2>3, NotBad
    <2> HIDE DEF v
    <2>6. \A c : c /= 93 => Json!Read(v, c) = Json!Value(o, c) BY <2>3, <2>4, ReadAt
    <2> QED BY <1>2, <2>1, <2>5, <2>6 DEF v, o
  <1>4. CASE f.kind \in Lists /\ ~f.first
    <2>1. Lead(f) = <<44>> BY <1>2, <1>4 DEF Lead, Comma
    <2>2. Expects(f) = "next" BY <1>4 DEF Expects, Lists
    <2>3. v = Json!Read(t, 44) BY <2>1, ReadsOne
    <2>4. v = Json!Read(w, 44) BY <2>3, SettledReads, Marks
    <2>5. v = Json!Next(o, 44) BY <2>4, <2>2, <1>1, ReadAt
    <2>6. v = Json!At("value", o) BY <2>5, <1>1, <1>4 DEF Json!Next
    <2>7. v /= Json!Bad BY <2>6, NotBad
    <2> HIDE DEF v
    <2>8. \A c : Json!Read(v, c) = Json!Value(o, c) BY <2>6, ReadAt
    <2> QED BY <1>2, <2>1, <2>7, <2>8 DEF v, o
  <1>5. CASE f.kind \notin Lists /\ f.kind = "map"
    <2>1. f.open /\ Lead(f) = <<58>> BY <1>2, <1>5 DEF Lead, Ready
    <2>2. Expects(f) = "colon" BY <1>5, <2>1 DEF Expects
    <2>3. t = Json!At("colon", o) BY <1>1, <2>2, SettledSame
    <2>4. v = Json!Read(t, 58) BY <2>1, ReadsOne
    <2>5. v = Json!At("value", o) BY <2>3, <2>4, ReadAt
    <2>6. v /= Json!Bad BY <2>5, NotBad
    <2> HIDE DEF v
    <2>7. \A c : Json!Read(v, c) = Json!Value(o, c) BY <2>5, ReadAt
    <2> QED BY <1>2, <2>1, <2>6, <2>7 DEF v, o
  <1>6. CASE f.kind \notin Lists /\ f.kind /= "map"
    <2>1. f.open /\ Lead(f) = <<>> BY <1>6 DEF Lead, Ready
    <2>2. Expects(f) = "value" BY <1>6, <2>1 DEF Expects
    <2>3. t = Json!At("value", o) BY <1>1, <2>2, SettledSame
    <2>4. v = Json!At("value", o) BY <2>1, <2>3, ReadsNone
    <2>5. v /= Json!Bad BY <2>4, NotBad
    <2> HIDE DEF v
    <2>6. \A c : Json!Read(v, c) = Json!Value(o, c) BY <2>4, ReadAt
    <2> QED BY <1>2, <2>1, <2>5, <2>6 DEF v, o
  <1> QED BY <1>3, <1>4, <1>5, <1>6

LEMMA CommaReads ==
  ASSUME NEW r \in Seq(GoodFrames), NEW f \in GoodFrames, NEW w, Awaits(Append(r, f), w),
         f.kind \in Structs \cup {"map"}, ~f.open, NEW t, Settled(t) = w
  PROVE  /\ Comma(f) \in Seq(Byte)
         /\ Json!Reads(t, Comma(f)) \notin {Json!Bad, Json!Whole}
         /\ Json!Read(Json!Reads(t, Comma(f)), 34) = Json!In("string", w.open, TRUE, <<>>)
  <1> DEFINE o == w.open
             v == Json!Reads(t, Comma(f))
  <1>1. f.kind \notin Lists /\ f.kind \notin {"one", "newtype_variant"} BY DEF Lists, Structs
  <1>2. /\ w = Json!At(Expects(f), o) /\ o \in Seq(Byte)
        /\ o /= <<>> /\ Json!Last(o) = 125
    BY <1>1, AwaitsInfo
  <1> HIDE DEF o
  <1>3. COMMA = 44 /\ <<44>> \in Seq(Byte) /\ <<>> \in Seq(Byte) BY Marks, One, EmptySeq
  <1>4. Json!Key(o, 34) = Json!In("string", o, TRUE, <<>>) BY DEF Json!Key, Json!QUOTE
  <1>5. CASE f.first
    <2>1. Comma(f) = <<>> /\ Expects(f) = "first" BY <1>1, <1>5 DEF Comma, Expects
    <2>2. t = Json!At("first", o) BY <1>2, <2>1, SettledSame
    <2>3. v = Json!At("first", o) BY <2>1, <2>2, ReadsNone
    <2>4. Json!First(o, 34) = Json!Key(o, 34) BY <1>2 DEF Json!First
    <2>5. v /= Json!Bad /\ v /= Json!Whole BY <2>3, NotBad
    <2> HIDE DEF v
    <2>6. Json!Read(v, 34) = Json!Key(o, 34) BY <2>3, <2>4, ReadAt
    <2> QED BY <1>3, <1>4, <2>1, <2>5, <2>6 DEF v, o
  <1>6. CASE ~f.first
    <2>1. Comma(f) = <<44>> BY <1>3, <1>6 DEF Comma
    <2>2. Expects(f) = "next" BY <1>6 DEF Expects
    <2>3. v = Json!Read(t, 44) BY <2>1, ReadsOne
    <2>4. v = Json!Read(w, 44) BY <2>3, SettledReads, Marks
    <2>5. v = Json!Next(o, 44) BY <2>4, <2>2, <1>2, ReadAt
    <2>6. v = Json!At("key", o) BY <2>5, <1>2 DEF Json!Next
    <2>7. v /= Json!Bad /\ v /= Json!Whole BY <2>6, NotBad
    <2> HIDE DEF v
    <2>8. Json!Read(v, 34) = Json!Key(o, 34) BY <2>6, ReadAt
    <2> QED BY <1>3, <1>4, <2>1, <2>7, <2>8 DEF v, o
  <1> QED BY <1>5, <1>6

\* A bracket closes its own.
LEMMA CloseReads ==
  ASSUME NEW o \in Seq(Byte), NEW c \in {93, 125}, NEW q \in {"first", "next"},
         NEW t, Settled(t) = Json!At(q, Append(o, c))
  PROVE  Json!Read(t, c) = Json!At("next", o)
  <1> DEFINE d == Append(o, c)
  <1>1. c \in Byte /\ c \notin Json!Scalars /\ c /= 44 BY Marks DEF Byte
  <1>2. d /= <<>> /\ Len(d) = Len(o) + 1 /\ d[Len(o) + 1] = c /\ SubSeq(d, 1, Len(d) - 1) = o
    BY <1>1, AppendFacts
  <1> HIDE DEF d
  <1>3. Json!Last(d) = c BY <1>2 DEF Json!Last
  <1>4. Json!Close(d, c) = Json!At("next", o) BY <1>2, <1>3 DEF Json!Close
  <1>5. Json!First(d, c) = Json!Close(d, c) BY <1>3 DEF Json!First
  <1>6. Json!Next(d, c) = Json!Close(d, c) BY <1>1 DEF Json!Next
  <1>7. Json!Read(t, c) = Json!Read(Json!At(q, d), c) BY <1>1, SettledReads DEF d
  <1> QED BY <1>4, <1>5, <1>6, <1>7, ReadAt

LEMMA CloserReads ==
  ASSUME NEW r \in Seq(GoodFrames), NEW f \in GoodFrames, NEW w, Awaits(Append(r, f), w),
         f.kind /= "one", ~f.open, NEW t, Settled(t) = w,
         NEW p \in Seq(Byte), w.open = Inside(f, p)
  PROVE  Closer(f) \in Seq(Byte) /\ Json!Reads(t, Closer(f)) = Json!At("next", p)
  <1>1. RBRACKET = 93 /\ RBRACE = 125 /\ 93 \in Byte /\ 125 \in Byte BY Marks
  <1>2. f.kind \in Containers /\ w = Json!At(Expects(f), Inside(f, p)) BY AwaitsInfo
  <1>3. Expects(f) \in {"first", "next"} BY DEF Expects
  <1> DEFINE q == Expects(f)
  <1> HIDE DEF q
  <1>4. q \in {"first", "next"} /\ Settled(t) = Json!At(q, Inside(f, p)) BY <1>2, <1>3 DEF q
  <1>5. f.kind \in {"seq", "tuple_variant", "struct", "struct_variant", "map", "newtype_variant"}
    BY <1>2 DEF Containers, Lists, Structs
  <1> DEFINE d == Append(p, 125)
  <1>6. d \in Seq(Byte) BY <1>1, AppendFacts
  <1>7. Settled(Json!At("next", d)) = Json!At("next", d)
    <2>1. Json!At("next", d).q = "next" BY AtFields
    <2> QED BY <2>1 DEF Settled
  <1>8. Json!Read(Json!At("next", d), 125) = Json!At("next", p) BY <1>7, CloseReads
  <1>9. CASE f.kind = "seq"
    <2>1. Closer(f) = <<93>> /\ Inside(f, p) = Append(p, 93) BY <1>1, <1>9 DEF Closer, Inside
    <2>2. Json!Read(t, 93) = Json!At("next", p) BY <1>4, <2>1, CloseReads
    <2>3. Closer(f) \in Seq(Byte) BY <1>1, <2>1, One
    <2>4. Json!Reads(t, Closer(f)) = Json!At("next", p) BY <2>1, <2>2, ReadsOne
    <2> QED BY <2>3, <2>4
  <1>10. CASE f.kind \in {"map", "struct", "newtype_variant"}
    <2>1. Closer(f) = <<125>> /\ Inside(f, p) = Append(p, 125) BY <1>1, <1>10 DEF Closer, Inside
    <2>2. Json!Read(t, 125) = Json!At("next", p) BY <1>4, <2>1, CloseReads
    <2>3. Closer(f) \in Seq(Byte) BY <1>1, <2>1, One
    <2>4. Json!Reads(t, Closer(f)) = Json!At("next", p) BY <2>1, <2>2, ReadsOne
    <2> QED BY <2>3, <2>4
  <1>11. CASE f.kind = "tuple_variant"
    <2>1. Closer(f) = <<93, 125>> /\ Inside(f, p) = Append(d, 93) BY <1>1, <1>11 DEF Closer, Inside
    <2> HIDE DEF d
    <2>2. Json!Read(t, 93) = Json!At("next", d) BY <1>4, <1>6, <2>1, CloseReads
    <2>3. Closer(f) \in Seq(Byte) BY <1>1, <2>1
    <2>4. Json!Reads(t, Closer(f)) = Json!Read(Json!Read(t, 93), 125) BY <2>1, ReadsTwo
    <2>5. Json!Reads(t, Closer(f)) = Json!At("next", p)
      BY <2>2, <2>4, <1>8 DEF d
    <2> QED BY <2>3, <2>5
  <1>12. CASE f.kind = "struct_variant"
    <2>1. Closer(f) = <<125, 125>> /\ Inside(f, p) = Append(d, 125) BY <1>1, <1>12 DEF Closer, Inside
    <2> HIDE DEF d
    <2>2. Json!Read(t, 125) = Json!At("next", d) BY <1>4, <1>6, <2>1, CloseReads
    <2>3. Closer(f) \in Seq(Byte) BY <1>1, <2>1
    <2>4. Json!Reads(t, Closer(f)) = Json!Read(Json!Read(t, 125), 125) BY <2>1, ReadsTwo
    <2>5. Json!Reads(t, Closer(f)) = Json!At("next", p)
      BY <2>2, <2>4, <1>8 DEF d
    <2> QED BY <2>3, <2>5
  <1> QED BY <1>5, <1>9, <1>10, <1>11, <1>12

-----------------------------------------------------------------------------
(* The inductive invariant.  Either the innermost call is a container, and   *)
(* the reader waits where it goes on; or a text is being written in it, the  *)
(* reader is within that string, between two of its characters, and behind   *)
(* its quote and `tail` it is where the container goes on.                   *)

Texts == Strs \cup ByteTexts \cup {"quoted"}
TextOK(f) ==
  /\ f \in GoodFrames /\ f.kind \in Texts /\ ~f.open
  /\ f.kind \in Strs => /\ Json!IsUtf8(f.text) /\ Json!Utf8Run(f.text)[f.from] = <<>>
                        /\ \A k \in 1..Len(f.text) : f.from < k /\ k <= f.i => ~Escaped(f.text[k])
  /\ f.kind = "quoted" => f.text /= <<>> /\ \A k \in 1..Len(f.text) : f.text[k] \in Json!Scalars
  /\ f.kind /= "str" => f.tail = <<>>

Ended(key, o) == Json!At(IF key THEN "colon" ELSE "next", o)
WritingArray(f, t, w) ==
  /\ w = Json!At("next", w.open) /\ w.open \in Seq(Byte)
  /\ Settled(t) = Json!At(IF f.i = 0 THEN "first" ELSE "next", Append(w.open, 93))
WritingString(f, t, w) ==
  \E key, o : /\ key \in BOOLEAN /\ t = Json!In("string", o, key, <<>>)
              /\ Json!Reads(Ended(key, o), f.tail) = w
Writing(f, t, w) == IF f.kind = "array" THEN WritingArray(f, t, w) ELSE WritingString(f, t, w)

Running(s, t) ==
  \/ Awaits(s, Settled(t))
  \/ \E r, f, w :
       r \in Seq(GoodFrames) /\ s = Append(r, f) /\ TextOK(f) /\ Awaits(r, w) /\ Writing(f, t, w)

IInv ==
  /\ encoder \in Encoders /\ cap \in Capacities
  /\ out \in Seq(Byte) /\ Len(out) <= cap
  /\ pc \in {"busy", "ok", "failed"}
  /\ IF pc = "busy" THEN Running(stack, Sent) ELSE stack = <<>>
  /\ pc = "ok" => Settled(Sent) = Json!Whole
  /\ pc = "failed" => /\ Sent /= Json!Bad
                      /\ err \in {"Writer", "FormatError", "InvalidKeyType"} => Sent /= Json!Whole

LEMMA KindsApart ==
  /\ Containers \cap Texts = {} /\ Texts \cap Lists = {}
  /\ Containers \cup Texts = Kinds
  BY DEF Containers, Texts, Lists, Structs, Strs, ByteTexts, Kinds

LEMMA StackSplit ==
  ASSUME NEW r \in Seq(GoodFrames), NEW f \in GoodFrames, stack = Append(r, f)
  PROVE  Under = r /\ Top = f
  BY AppendFacts DEF Under, Top

LEMMA Innermost ==
  ASSUME IInv, pc = "busy"
  PROVE  /\ Sunk
         /\ Under \in Seq(GoodFrames) /\ Top \in GoodFrames /\ stack = Append(Under, Top)
         /\ Top.kind \in Containers \cup Texts
         /\ Top.kind \in Containers => Awaits(Append(Under, Top), Settled(Sent))
         /\ Top.kind \in Texts =>
              TextOK(Top) /\ \E w : Awaits(Under, w) /\ Writing(Top, Sent, w)
  <1>1. Sunk BY InputAssumption DEF IInv, Sunk
  <1>2. Running(stack, Sent) BY DEF IInv
  <1>3. CASE Awaits(stack, Settled(Sent))
    <2>1. stack \in Seq(GoodFrames) /\ stack /= <<>> BY <1>3 DEF Awaits, Waiting
    <2>2. PICK r \in Seq(GoodFrames), f \in GoodFrames : stack = Append(r, f)
      BY <2>1, SequenceEmptyOrAppend
    <2>3. Under = r /\ Top = f BY <2>2, StackSplit
    <2>4. Awaits(Append(r, f), Settled(Sent)) BY <1>3, <2>2
    <2> DEFINE w == Settled(Sent)
    <2> HIDE DEF w
    <2>5. Awaits(Append(r, f), w) BY <2>4 DEF w
    <2>6. f.kind \in Containers BY <2>5, AwaitsInfo
    <2> QED BY <1>1, <2>2, <2>3, <2>4, <2>6, KindsApart
  <1>4. CASE \E r, f, w :
               r \in Seq(GoodFrames) /\ stack = Append(r, f) /\ TextOK(f) /\ Awaits(r, w) /\ Writing(f, Sent, w)
    <2>1. PICK r, f, w :
            r \in Seq(GoodFrames) /\ stack = Append(r, f) /\ TextOK(f) /\ Awaits(r, w) /\ Writing(f, Sent, w)
      BY <1>4
    <2>2. r \in Seq(GoodFrames) /\ f \in GoodFrames /\ f.kind \in Texts BY <2>1 DEF TextOK
    <2>3. Under = r /\ Top = f BY <2>1, <2>2, StackSplit
    <2> QED BY <1>1, <2>1, <2>2, <2>3, KindsApart
  <1> QED BY <1>2, <1>3, <1>4 DEF Running

LEMMA Preserves ==
  ASSUME IInv, pc = "busy", Broken \/ \E s, t : Wrote(s, t) /\ Running(s, t)
  PROVE  IInv'
  <1>1. CASE Broken BY <1>1 DEF Broken, IInv, Keep
  <1>2. CASE \E s, t : Wrote(s, t) /\ Running(s, t)
    <2>1. PICK s, t : Wrote(s, t) /\ Running(s, t) BY <1>2
    <2>2. Sent' = t /\ stack' = s /\ pc' = "busy" BY <2>1 DEF Wrote
    <2>3. Running(stack', Sent') BY <2>1, <2>2
    <2>4. Running(stack, Sent)' BY <2>3
    <2> QED BY <2>1, <2>2, <2>4 DEF IInv, Wrote, Keep
  <1> QED BY <1>1, <1>2

LEMMA ReadsThree ==
  ASSUME NEW s, NEW a \in Seq(Byte), NEW b \in Seq(Byte), NEW c \in Seq(Byte)
  PROVE  Json!Reads(s, a \o b \o c) = Json!Reads(Json!Reads(Json!Reads(s, a), b), c)
  <1>1. a \o b \in Seq(Byte) BY Joined, Zenon
  <1>2. Json!Reads(s, a \o b) = Json!Reads(Json!Reads(s, a), b) BY ReadsConcat
  <1> DEFINE d == a \o b
  <1>3. d \in Seq(Byte) /\ Json!Reads(s, d) = Json!Reads(Json!Reads(s, a), b) BY <1>1, <1>2
  <1> HIDE DEF d
  <1>4. Json!Reads(s, d \o c) = Json!Reads(Json!Reads(s, d), c) BY <1>3, ReadsConcat
  <1> QED BY <1>3, <1>4 DEF d

LEMMA PutThree ==
  ASSUME Sunk, NEW a \in Seq(Byte), NEW b \in Seq(Byte), NEW c \in Seq(Byte),
         NEW u, u = Json!Reads(Json!Reads(Json!Reads(Sent, a), b), c), u /= Json!Bad,
         NEW e, NEW s, Put(a, b, c, e, Go(s)), Keep
  PROVE  Broken \/ Wrote(s, u)
  <1>1. Json!Reads(Sent, a \o b \o c) = u BY ReadsThree
  <1> QED BY <1>1, PutOutcome

-----------------------------------------------------------------------------
(* A container takes a value, or a key. *)

LEMMA TookLemma ==
  ASSUME NEW f \in GoodFrames
  PROVE  /\ Took(f) \in GoodFrames /\ Took(f).kind = f.kind
         /\ ~Took(f).first /\ ~Took(f).open
         /\ [Took(f) EXCEPT !.open = TRUE] \in GoodFrames
         /\ [Took(f) EXCEPT !.open = TRUE].kind = f.kind
         /\ [Took(f) EXCEPT !.open = TRUE].open = TRUE
  <1>1. f \in Frames /\ f.from <= f.i /\ f.i <= Len(f.text) BY DEF GoodFrames
  <1> DEFINE g == Took(f)
             h == [g EXCEPT !.open = TRUE]
  <1>2. g = [f EXCEPT !.first = FALSE, !.open = FALSE] BY DEF Took
  <1>3. g \in Frames BY <1>1, <1>2 DEF Frames
  <1>4. /\ g.kind = f.kind /\ g.first = FALSE /\ g.open = FALSE
        /\ g.i = f.i /\ g.from = f.from /\ g.text = f.text
    BY <1>1, <1>2 DEF Frames
  <1> HIDE DEF g
  <1>5. h \in Frames BY <1>3 DEF Frames
  <1>6. /\ h.kind = g.kind /\ h.open = TRUE
        /\ h.i = g.i /\ h.from = g.from /\ h.text = g.text
    BY <1>3 DEF Frames
  <1> HIDE DEF h
  <1>7. g \in GoodFrames /\ h \in GoodFrames BY <1>1, <1>3, <1>4, <1>5, <1>6 DEF GoodFrames
  <1> QED BY <1>4, <1>6, <1>7 DEF g, h

\* Within o the reader gets to a value, and behind it to where Settle goes on.
Takes(o) ==
  /\ o \in Seq(Byte) /\ Lead(Top) \in Seq(Byte)
  /\ Json!Reads(Sent, Lead(Top)) /= Json!Bad
  /\ \A c : c /= 93 => Json!Read(Json!Reads(Sent, Lead(Top)), c) = Json!Value(o, c)
  /\ Under \in Seq(GoodFrames) /\ Settle = Append(Under, Took(Top)) /\ Took(Top) \in GoodFrames
  /\ ~Took(Top).first /\ ~Took(Top).open
  /\ Awaits(Settle, Json!At("next", o))

LEMMA TakesLemma ==
  ASSUME IInv, pc = "busy", Ready(Top)
  PROVE  Sunk /\ \E o : Takes(o)
  <1> DEFINE f == Top
             r == Under
             w == Settled(Sent)
             t == Sent
             o == w.open
  <1>1. Sunk /\ r \in Seq(GoodFrames) /\ f \in GoodFrames /\ f.kind \in Containers \cup Texts
    BY Innermost
  <1>2. f.kind \in Containers
    <2>1. f.kind \in Texts => ~f.open BY Innermost DEF TextOK
    <2>2. f.kind \in Lists \/ f.open BY DEF Ready
    <2> QED BY <1>1, <2>1, <2>2, KindsApart
  <1>3. Awaits(Append(r, f), w) BY <1>2, Innermost
  <1>4. w = Settled(t) /\ Ready(f) OBVIOUS
  <1>5. Settle = Append(r, Took(f)) BY DEF Settle, Replace
  <1> HIDE DEF f, r, w, t
  <1>6. o \in Seq(Byte) BY <1>1, <1>3, AwaitsInfo
  <1>7. /\ Lead(f) \in Seq(Byte)
        /\ Json!Reads(t, Lead(f)) /= Json!Bad
        /\ \A c : c /= 93 => Json!Read(Json!Reads(t, Lead(f)), c) = Json!Value(w.open, c)
    BY <1>1, <1>3, <1>4, LeadReads
  <1>8. Took(f) \in GoodFrames /\ Took(f).kind = f.kind /\ ~Took(f).first /\ ~Took(f).open
    BY <1>1, TookLemma
  <1>9. Expects(Took(f)) = "next" BY <1>8 DEF Expects
  <1>10. Awaits(Append(r, Took(f)), Json!At("next", o))
    <2> DEFINE g == Took(f)
    <2>1. g \in GoodFrames /\ g.kind = f.kind /\ Expects(g) = "next" BY <1>8, <1>9
    <2> HIDE DEF g
    <2>2. Awaits(Append(r, g), Json!At(Expects(g), w.open)) BY <1>1, <1>3, <2>1, AwaitsReplace
    <2> QED BY <2>1, <2>2 DEF g
  <1>11. Takes(o) BY <1>1, <1>5, <1>6, <1>7, <1>8, <1>10 DEF Takes, f, r, t
  <1> QED BY <1>1, <1>11

\* Within o the reader gets to a key, and behind it to where the value follows.
TakesKey(o) ==
  /\ o \in Seq(Byte) /\ Comma(Top) \in Seq(Byte)
  /\ Json!Reads(Sent, Comma(Top)) \notin {Json!Bad, Json!Whole}
  /\ Json!Read(Json!Reads(Sent, Comma(Top)), 34) = Json!In("string", o, TRUE, <<>>)
  /\ Replace(Opened) \in Seq(GoodFrames)
  /\ Awaits(Replace(Opened), Json!At(IF Top.kind = "map" THEN "colon" ELSE "value", o))

LEMMA TakesKeyLemma ==
  ASSUME IInv, pc = "busy", Top.kind \in Structs \cup {"map"}, ~Top.open
  PROVE  Sunk /\ \E o : TakesKey(o)
  <1> DEFINE f == Top
             r == Under
             w == Settled(Sent)
             t == Sent
             o == w.open
             g == Opened
  <1>1. Sunk /\ r \in Seq(GoodFrames) /\ f \in GoodFrames BY Innermost
  <1>2. f.kind \in Containers BY DEF Containers
  <1>3. Awaits(Append(r, f), w) BY <1>2, Innermost
  <1>4. w = Settled(t) /\ f.kind \in Structs \cup {"map"} /\ ~f.open OBVIOUS
  <1>5. Replace(g) = Append(r, g) BY DEF Replace
  <1>6. g = [Took(f) EXCEPT !.open = TRUE] BY DEF Opened
  <1> HIDE DEF f, r, w, t, g
  <1>7. o \in Seq(Byte) BY <1>1, <1>3, AwaitsInfo
  <1>8. /\ Comma(f) \in Seq(Byte)
        /\ Json!Reads(t, Comma(f)) \notin {Json!Bad, Json!Whole}
        /\ Json!Read(Json!Reads(t, Comma(f)), 34) = Json!In("string", w.open, TRUE, <<>>)
    BY <1>1, <1>3, <1>4, CommaReads
  <1>9. g \in GoodFrames /\ g.kind = f.kind /\ g.open = TRUE BY <1>1, <1>6, TookLemma
  <1>10. Expects(g) = IF f.kind = "map" THEN "colon" ELSE "value"
    BY <1>4, <1>9 DEF Expects, Structs, Lists
  <1>11. Awaits(Append(r, g), Json!At(Expects(g), o)) BY <1>1, <1>3, <1>9, AwaitsReplace
  <1>12. Append(r, g) \in Seq(GoodFrames) BY <1>1, <1>9, AppendFacts
  <1>13. TakesKey(o) BY <1>5, <1>7, <1>8, <1>10, <1>11, <1>12 DEF TakesKey, f, r, t, g
  <1> QED BY <1>1, <1>13

-----------------------------------------------------------------------------
(* Values *)

LEMMA TextStart ==
  ASSUME NEW k \in Texts, NEW s \in Seq(Byte), NEW t \in Seq(Byte),
         k \in Strs => Json!IsUtf8(s),
         k = "quoted" => s /= <<>> /\ \A j \in 1..Len(s) : s[j] \in Json!Scalars,
         k /= "str" => t = <<>>
  PROVE  /\ TextOK(Text(k, s, t)) /\ Text(k, s, t) \in GoodFrames
         /\ Text(k, s, t).kind = k /\ Text(k, s, t).i = 0 /\ Text(k, s, t).tail = t
  <1> DEFINE f == Text(k, s, t)
  <1>1. k \in Kinds /\ Len(s) \in Nat BY KindsApart, LenProperties
  <1>2. /\ f \in Frames /\ f.kind = k /\ f.i = 0 /\ f.from = 0 /\ f.text = s /\ f.tail = t
        /\ f.open = FALSE
    BY <1>1 DEF Text, Frames
  <1>3. Json!Utf8Run(s)[0] = <<>> BY <1>1, Utf8RunLemma
  <1> HIDE DEF f
  <1>4. \A j \in 1..Len(s) : ~(0 < j /\ j <= 0) BY <1>1
  <1>5. f \in GoodFrames BY <1>1, <1>2 DEF GoodFrames
  <1>6. k \in Strs => /\ Json!IsUtf8(f.text) /\ Json!Utf8Run(f.text)[f.from] = <<>>
                      /\ \A j \in 1..Len(f.text) : f.from < j /\ j <= f.i => ~Escaped(f.text[j])
    BY <1>2, <1>3, <1>4
  <1>7. TextOK(f) BY <1>2, <1>5, <1>6 DEF TextOK
  <1> QED BY <1>2, <1>5, <1>7 DEF f

LEMMA FrameStart ==
  ASSUME NEW k \in Containers, NEW op \in BOOLEAN
  PROVE  /\ Frame(k, op) \in GoodFrames /\ Frame(k, op).kind = k
         /\ Frame(k, op).first = TRUE /\ Frame(k, op).open = op
  <1> DEFINE f == Frame(k, op)
  <1>1. k \in Kinds /\ <<>> \in Seq(Byte) /\ Len(<<>>) = 0 BY KindsApart, EmptySeq
  <1>2. /\ f \in Frames /\ f.kind = k /\ f.i = 0 /\ f.from = 0 /\ f.text = <<>>
        /\ f.open = op /\ f.first = TRUE
    BY <1>1 DEF Frame, Frames
  <1> HIDE DEF f
  <1>3. f \in GoodFrames BY <1>1, <1>2 DEF GoodFrames
  <1> QED BY <1>2, <1>3 DEF f

LEMMA ValueOf ==
  ASSUME NEW o
  PROVE  /\ Json!Value(o, 34) = Json!In("string", o, FALSE, <<>>)
         /\ Json!Value(o, 91) = Json!At("first", Append(o, 93))
         /\ Json!Value(o, 123) = Json!At("first", Append(o, 125))
         /\ \A c \in Json!Scalars : Json!Value(o, c) = Json!At("scalar", o)
  <1>1. \A c \in Json!Scalars : c /= 34 /\ c /= 91 /\ c /= 123 BY Marks
  <1>2. Json!Value(o, 34) = Json!In("string", o, FALSE, <<>>) BY DEF Json!Value, Json!QUOTE, Json!At
  <1>3. Json!Value(o, 91) = Json!At("first", Append(o, 93)) BY DEF Json!Value, Json!QUOTE
  <1>4. Json!Value(o, 123) = Json!At("first", Append(o, 125)) BY DEF Json!Value, Json!QUOTE
  <1>5. \A c \in Json!Scalars : Json!Value(o, c) = Json!At("scalar", o)
    <2> HIDE DEF Json!Scalars
    <2> QED BY <1>1 DEF Json!Value, Json!QUOTE
  <1> QED BY <1>2, <1>3, <1>4, <1>5

LEMMA InIs ==
  ASSUME NEW q, NEW o, NEW key \in BOOLEAN, NEW m, NEW w, w = Json!In(q, o, key, m)
  PROVE  w.q = q /\ w.open = o /\ w.key = key /\ w.more = m
  BY DEF Json!In

LEMMA InNotBad ==
  ASSUME NEW q, q \notin {"bad", "next"}, NEW o, NEW key, NEW m
  PROVE  Json!In(q, o, key, m) /= Json!Bad /\ Json!In(q, o, key, m) /= Json!Whole
  <1>1. Json!In(q, o, key, m).q = q BY DEF Json!In
  <1>2. Json!Bad.q = "bad" BY AtIs DEF Json!Bad
  <1>3. Json!Whole.q = "next" BY DEF Json!Whole, Json!At, Json!In
  <1> QED BY <1>1, <1>2, <1>3

LEMMA SettledAt ==
  ASSUME NEW q, NEW o
  PROVE  Settled(Json!At(q, o)) = IF q = "scalar" THEN Json!At("next", o) ELSE Json!At(q, o)
  <1>1. Json!At(q, o).q = q /\ Json!At(q, o).open = o BY AtIs
  <1> QED BY <1>1 DEF Settled

LEMMA AtomReads ==
  ASSUME NEW v, NEW o, \A c : c /= 93 => Json!Read(v, c) = Json!Value(o, c),
         NEW a \in Seq(Byte), a /= <<>>, \A k \in 1..Len(a) : a[k] \in Json!Scalars
  PROVE  Json!Reads(v, a) = Json!At("scalar", o)
  <1> DEFINE t == Json!At("scalar", o)
             n == Len(a)
  <1>1. n \in Nat /\ n /= 0 BY EmptySeq
  <1>2. 1 \in 1..n /\ \A k \in 2..n : k \in 1..n BY <1>1
  <1> HIDE DEF n
  <1>3. \A k \in 1..n : a[k] \in Json!Scalars /\ a[k] /= 93 BY Marks DEF n
  <1>4. Json!Read(v, a[1]) = t
    <2>1. Json!Read(v, a[1]) = Json!Value(o, a[1]) BY <1>2, <1>3
    <2> QED BY <2>1, <1>2, <1>3, ValueOf
  <1>5. t.q = "scalar" BY AtIs
  <1> HIDE DEF t
  <1>6. \A k \in 2..n : Json!Read(t, a[k]) = t BY <1>2, <1>3, <1>5, ReadCases
  <1>7. Json!Reads(v, a) = t BY <1>4, <1>6, Stays DEF n
  <1> QED BY <1>7 DEF t

LEMMA PutValue ==
  ASSUME IInv, pc = "busy", Sunk, NEW o, Takes(o), NEW b \in Seq(Byte), NEW c \in Seq(Byte),
         NEW u, u = Json!Reads(Json!Reads(Json!Reads(Sent, Lead(Top)), b), c), u /= Json!Bad,
         NEW e, NEW s, Put(Lead(Top), b, c, e, Go(s)), Keep, Running(s, u)
  PROVE  IInv'
  <1> DEFINE a == Lead(Top)
  <1>1. a \in Seq(Byte) BY DEF Takes
  <1>2. Put(a, b, c, e, Go(s)) /\ u = Json!Reads(Json!Reads(Json!Reads(Sent, a), b), c) OBVIOUS
  <1> HIDE DEF a
  <1>3. Broken \/ Wrote(s, u) BY <1>1, <1>2, PutThree
  <1> QED BY <1>3, Preserves

\* One byte begins the value.
LEMMA PutByte ==
  ASSUME IInv, pc = "busy", Sunk, NEW o, Takes(o), NEW c \in Byte, c /= 93,
         NEW u, u = Json!Value(o, c), u /= Json!Bad,
         NEW e, NEW s, Put(Lead(Top), <<c>>, <<>>, e, Go(s)), Keep, Running(s, u)
  PROVE  IInv'
  <1> DEFINE v == Json!Reads(Sent, Lead(Top))
             b == <<c>>
             z == <<>>
  <1>1. Json!Read(v, c) = u BY DEF Takes
  <1>2. b \in Seq(Byte) /\ z \in Seq(Byte) BY One, EmptySeq
  <1> HIDE DEF v
  <1>3. Json!Reads(v, b) = u BY <1>1, ReadsOne
  <1>4. Json!Reads(u, z) = u BY ReadsNone
  <1>5. Put(Lead(Top), b, z, e, Go(s)) OBVIOUS
  <1> HIDE DEF b, z
  <1>6. u = Json!Reads(Json!Reads(Json!Reads(Sent, Lead(Top)), b), z) BY <1>3, <1>4 DEF v
  <1> QED BY <1>2, <1>5, <1>6, PutValue

LEMMA PutAtom ==
  ASSUME IInv, pc = "busy", Sunk, NEW o, Takes(o), NEW a \in Atoms,
         Put(Lead(Top), a, <<>>, "Writer", Go(Settle)), Keep
  PROVE  IInv'
  <1> DEFINE v == Json!Reads(Sent, Lead(Top))
             u == Json!At("scalar", o)
             z == <<>>
  <1>1. a \in Seq(Byte) /\ a /= <<>> /\ \A k \in 1..Len(a) : a[k] \in Json!Scalars
    <2>1. a \in Seq(Byte) BY InputAssumption
    <2>2. DOMAIN a = 1..Len(a) BY <2>1, LenProperties
    <2> QED BY <2>1, <2>2, AtomAssumption
  <1>2. \A c : c /= 93 => Json!Read(v, c) = Json!Value(o, c) BY DEF Takes
  <1> HIDE DEF v
  <1>3. Json!Reads(v, a) = u BY <1>1, <1>2, AtomReads
  <1>4. Json!Reads(u, z) = u /\ z \in Seq(Byte) BY ReadsNone, EmptySeq
  <1>5. u /= Json!Bad BY NotBad
  <1>6. Settled(u) = Json!At("next", o) BY SettledAt
  <1>7. Put(Lead(Top), a, z, "Writer", Go(Settle)) OBVIOUS
  <1> HIDE DEF u, z
  <1>8. Running(Settle, u) BY <1>6 DEF Running, Takes
  <1>9. u = Json!Reads(Json!Reads(Json!Reads(Sent, Lead(Top)), a), z) BY <1>3, <1>4 DEF v
  <1> QED BY <1>1, <1>4, <1>5, <1>7, <1>8, <1>9, PutValue

LEMMA AtomStep ==
  ASSUME IInv, SerializeAtom
  PROVE  IInv'
  <1>1. pc = "busy" /\ Ready(Top) BY DEF SerializeAtom, Serializing
  <1>2. PICK a \in Atoms : Put(Lead(Top), a, <<>>, "Writer", Go(Settle)) BY DEF SerializeAtom
  <1>3. Keep BY DEF SerializeAtom
  <1>4. PICK o : Takes(o) BY <1>1, TakesLemma
  <1>5. Sunk BY <1>1, TakesLemma
  <1> QED BY <1>1, <1>2, <1>3, <1>4, <1>5, PutAtom

\* A string begins in the container g, behind what is expected of it.
LEMMA StringStart ==
  ASSUME NEW g \in Seq(GoodFrames), NEW w, Awaits(g, w), NEW key \in BOOLEAN, NEW o,
         NEW k \in Texts, k /= "array", NEW s \in Seq(Byte), NEW t \in Seq(Byte),
         k \in Strs => Json!IsUtf8(s),
         k = "quoted" => s /= <<>> /\ \A j \in 1..Len(s) : s[j] \in Json!Scalars,
         k /= "str" => t = <<>>,
         Json!Reads(Ended(key, o), t) = w
  PROVE  Running(Append(g, Text(k, s, t)), Json!In("string", o, key, <<>>))
  <1> DEFINE f == Text(k, s, t)
             u == Json!In("string", o, key, <<>>)
  <1>1. TextOK(f) /\ f.kind = k /\ f.tail = t BY TextStart
  <1> HIDE DEF f
  <1>2. Json!Reads(Ended(key, o), f.tail) = w BY <1>1
  <1>3. WritingString(f, u, w) BY <1>2 DEF WritingString
  <1>4. Writing(f, u, w) BY <1>1, <1>3 DEF Writing
  <1> HIDE DEF u
  <1> QED BY <1>1, <1>4 DEF Running, f, u

LEMMA StrStep ==
  ASSUME IInv, pc = "busy", Ready(Top), NEW k \in Texts \ {"array", "quoted"}, NEW s \in Seq(Byte),
         k \in Strs => Json!IsUtf8(s),
         Put(Lead(Top), <<QU>>, <<>>, "Writer", Go(Append(Settle, Text(k, s, <<>>)))), Keep
  PROVE  IInv'
  <1>1. Sunk /\ \E o : Takes(o) BY TakesLemma
  <1>2. PICK o : Takes(o) BY <1>1
  <1> DEFINE u == Json!In("string", o, FALSE, <<>>)
             w == Json!At("next", o)
             z == <<>>
             g == Append(Settle, Text(k, s, z))
  <1>3. Settle \in Seq(GoodFrames) /\ Awaits(Settle, w) BY <1>2, AppendFacts DEF Takes
  <1>4. z \in Seq(Byte) BY EmptySeq
  <1>5. Json!Reads(Ended(FALSE, o), z) = w BY ReadsNone DEF Ended
  <1>6. Running(g, u)
    <2> HIDE DEF w, z
    <2> QED BY <1>3, <1>4, <1>5, StringStart DEF z
  <1>7. u = Json!Value(o, 34) BY ValueOf
  <1>8. u /= Json!Bad BY InNotBad
  <1>9. QU = 34 /\ 34 \in Byte BY Marks
  <1>10. Put(Lead(Top), <<34>>, <<>>, "Writer", Go(g)) BY <1>9
  <1> HIDE DEF u, g
  <1> QED BY <1>1, <1>2, <1>6, <1>7, <1>8, <1>9, <1>10, PutByte

LEMMA ArrayStep ==
  ASSUME IInv, pc = "busy", Ready(Top), NEW s \in Seq(Byte),
         Put(Lead(Top), <<LBRACKET>>, <<>>, "Writer", Go(Append(Settle, Text("array", s, <<>>)))), Keep
  PROVE  IInv'
  <1>1. Sunk /\ \E o : Takes(o) BY TakesLemma
  <1>2. PICK o : Takes(o) BY <1>1
  <1> DEFINE u == Json!At("first", Append(o, 93))
             w == Json!At("next", o)
             f == Text("array", s, <<>>)
             g == Append(Settle, f)
  <1>3. Settle \in Seq(GoodFrames) /\ Awaits(Settle, w) /\ o \in Seq(Byte) BY <1>2, AppendFacts DEF Takes
  <1>4. TextOK(f) /\ f.kind = "array" /\ f.i = 0
    <2>1. "array" \in Texts /\ "array" \notin Strs BY DEF Texts, ByteTexts, Strs
    <2>2. <<>> \in Seq(Byte) BY EmptySeq
    <2> QED BY <2>1, <2>2, TextStart
  <1>5. w.open = o /\ Settled(u) = u BY AtIs, SettledAt
  <1>6. u = Json!Value(o, 91) BY ValueOf
  <1>7. u /= Json!Bad BY NotBad
  <1>8. LBRACKET = 91 /\ 91 \in Byte BY Marks
  <1>9. Put(Lead(Top), <<91>>, <<>>, "Writer", Go(g)) BY <1>8
  <1>10. Running(g, u)
    <2> HIDE DEF f
    <2>1. WritingArray(f, u, w) BY <1>3, <1>4, <1>5 DEF WritingArray
    <2>2. Writing(f, u, w) BY <1>4, <2>1 DEF Writing
    <2> HIDE DEF u, w
    <2> QED BY <1>3, <1>4, <2>2 DEF Running
  <1> HIDE DEF u, g
  <1> QED BY <1>1, <1>2, <1>6, <1>7, <1>8, <1>9, <1>10, PutByte

\* A list or a map begins.
LEMMA NestStep ==
  ASSUME IInv, pc = "busy", Ready(Top), NEW k \in {"seq", "map", "struct"}, NEW c, NEW d,
         k = "seq" => c = 91 /\ d = 93, k /= "seq" => c = 123 /\ d = 125,
         Put(Lead(Top), <<c>>, <<>>, "Writer", Go(Append(Settle, Frame(k, FALSE)))), Keep
  PROVE  IInv'
  <1>1. Sunk /\ \E o : Takes(o) BY TakesLemma
  <1>2. PICK o : Takes(o) BY <1>1
  <1> DEFINE u == Json!At("first", Append(o, d))
             w == Json!At("next", o)
             h == Frame(k, FALSE)
             f == Took(Top)
             r == Under
  <1>3. /\ Settle = Append(r, f) /\ r \in Seq(GoodFrames) /\ f \in GoodFrames /\ ~f.first /\ ~f.open
        /\ Awaits(Settle, w)
    BY <1>2 DEF Takes
  <1>4. h \in GoodFrames /\ h.kind = k /\ h.first = TRUE /\ h.open = FALSE /\ h.kind \in Containers
    <2>1. k \in Containers BY DEF Containers, Lists, Structs
    <2> QED BY <2>1, FrameStart
  <1>5. w.open = o /\ Settled(u) = u BY AtIs, SettledAt
  <1>6. u = Json!Value(o, c)
    <2>1. (c = 91 /\ d = 93) \/ (c = 123 /\ d = 125) OBVIOUS
    <2>2. Json!Value(o, 91) = Json!At("first", Append(o, 93)) BY ValueOf
    <2>3. Json!Value(o, 123) = Json!At("first", Append(o, 125)) BY ValueOf
    <2> QED BY <2>1, <2>2, <2>3
  <1>7. u /= Json!Bad BY NotBad
  <1>8. c \in Byte /\ c /= 93 BY Marks
  <1>9. Put(Lead(Top), <<c>>, <<>>, "Writer", Go(Append(Settle, h))) OBVIOUS
  <1> HIDE DEF h, f, r
  <1>10. Expects(h) = "first" BY <1>4 DEF Expects
  <1>11. Inside(h, o) = Append(o, d) BY <1>4 DEF Inside, RBRACKET, RBRACE
  <1> HIDE DEF u, w
  <1>12. Awaits(Append(Append(r, f), h), Json!At(Expects(h), Inside(h, w.open)))
    BY <1>3, <1>4, AwaitsPush
  <1>13. Awaits(Append(Settle, h), u) BY <1>3, <1>5, <1>10, <1>11, <1>12 DEF u
  <1>14. Running(Append(Settle, h), u) BY <1>5, <1>13 DEF Running
  <1> QED BY <1>1, <1>2, <1>6, <1>7, <1>8, <1>9, <1>14, PutByte

LEMMA SeqStep ==
  ASSUME IInv, SerializeSeq
  PROVE  IInv'
  <1>1. pc = "busy" /\ Ready(Top) /\ Keep BY DEF SerializeSeq, Nesting, Serializing
  <1>2. Put(Lead(Top), <<LBRACKET>>, <<>>, "Writer", Go(Append(Settle, Frame("seq", FALSE))))
    BY DEF SerializeSeq
  <1>3. Put(Lead(Top), <<91>>, <<>>, "Writer", Go(Append(Settle, Frame("seq", FALSE))))
    BY <1>2 DEF LBRACKET
  <1> QED BY <1>1, <1>3, NestStep

LEMMA MapStep ==
  ASSUME IInv, SerializeMap
  PROVE  IInv'
  <1>1. pc = "busy" /\ Ready(Top) /\ Keep BY DEF SerializeMap, Nesting, Serializing
  <1>2. PICK k \in {"map", "struct"} :
          Put(Lead(Top), <<LBRACE>>, <<>>, "Writer", Go(Append(Settle, Frame(k, FALSE))))
    BY DEF SerializeMap
  <1>3. Put(Lead(Top), <<123>>, <<>>, "Writer", Go(Append(Settle, Frame(k, FALSE))))
    BY <1>2 DEF LBRACE
  <1> QED BY <1>1, <1>3, NestStep

LEMMA SerializeStrStep ==
  ASSUME IInv, SerializeStr
  PROVE  IInv'
  <1>1. pc = "busy" /\ Ready(Top) /\ Keep BY DEF SerializeStr, Serializing
  <1>2. PICK s \in Strings :
          Put(Lead(Top), <<QU>>, <<>>, "Writer", Go(Append(Settle, Text("str", s, <<>>))))
    BY DEF SerializeStr
  <1>3. "str" \in Texts \ {"array", "quoted"} BY DEF Texts, Strs
  <1>4. s \in Seq(Byte) /\ Json!IsUtf8(s) BY InputAssumption, TextAssumption
  <1> QED BY <1>1, <1>2, <1>3, <1>4, StrStep

LEMMA EmptyUtf8 == <<>> \in Seq(Byte) /\ Json!IsUtf8(<<>>)
  <1> DEFINE z == <<>>
  <1>1. z \in Seq(Byte) /\ Len(z) = 0 BY EmptySeq
  <1> HIDE DEF z
  <1>2. Json!Utf8Run(z)[0] = <<>> BY <1>1, Utf8RunLemma
  <1>3. Json!IsUtf8(z) BY <1>1, <1>2 DEF Json!IsUtf8
  <1> QED BY <1>1, <1>3 DEF z

LEMMA CollectStrStep ==
  ASSUME IInv, CollectStr
  PROVE  IInv'
  <1>1. pc = "busy" /\ Ready(Top) /\ Keep BY DEF CollectStr, Serializing
  <1>2. Put(Lead(Top), <<QU>>, <<>>, "Writer", Go(Append(Settle, Text("collect", <<>>, <<>>))))
    BY DEF CollectStr
  <1>3. "collect" \in Texts \ {"array", "quoted"} BY DEF Texts, Strs
  <1> QED BY <1>1, <1>2, <1>3, EmptyUtf8, StrStep

LEMMA BytesStep ==
  ASSUME IInv, SerializeBytes
  PROVE  IInv'
  <1>1. pc = "busy" /\ Ready(Top) /\ Keep BY DEF SerializeBytes, Serializing
  <1>2. CASE encoder = "pass"
    <2>1. PICK a \in Atoms : Put(Lead(Top), a, <<>>, "Writer", Go(Settle))
      BY <1>2 DEF SerializeBytes
    <2>2. PICK o : Takes(o) BY <1>1, TakesLemma
    <2>3. Sunk BY <1>1, TakesLemma
    <2> QED BY <1>1, <2>1, <2>2, <2>3, PutAtom
  <1>3. CASE encoder /= "pass"
    <2>1. PICK v \in Arrays :
            Put(Lead(Top), IF encoder = "array" THEN <<LBRACKET>> ELSE <<QU>>, <<>>, "Writer",
                Go(Append(Settle, Text(encoder, v, <<>>))))
      BY <1>3 DEF SerializeBytes
    <2>2. v \in Seq(Byte) /\ encoder \in {"array", "hex", "base64"}
      BY <1>3, InputAssumption, EncoderAssumption DEF IInv
    <2>3. CASE encoder = "array"
      <3>1. Put(Lead(Top), <<LBRACKET>>, <<>>, "Writer", Go(Append(Settle, Text("array", v, <<>>))))
        BY <2>1, <2>3
      <3> QED BY <1>1, <2>2, <3>1, ArrayStep
    <2>4. CASE encoder /= "array"
      <3> DEFINE k == encoder
      <3>1. Put(Lead(Top), <<QU>>, <<>>, "Writer", Go(Append(Settle, Text(k, v, <<>>))))
        BY <2>1, <2>4
      <3>2. k \in Texts \ {"array", "quoted"} /\ k \notin Strs
        BY <2>2, <2>4 DEF Texts, ByteTexts, Strs
      <3> HIDE DEF k
      <3> QED BY <1>1, <2>2, <3>1, <3>2, StrStep
    <2> QED BY <2>3, <2>4
  <1> QED BY <1>2, <1>3

LEMMA TwoMore ==
  ASSUME NEW S, NEW s \in Seq(S), NEW x \in S, NEW y \in S
  PROVE  s \o <<x, y>> = Append(Append(s, x), y)
  <1>1. Append(s, x) \in Seq(S) /\ Append(s, x) = s \o <<x>> BY AppendProperties, AppendIsConcat
  <1>2. Append(Append(s, x), y) = Append(s, x) \o <<y>> BY <1>1, AppendIsConcat
  <1>3. <<x>> \in Seq(S) /\ <<y>> \in Seq(S) OBVIOUS
  <1>4. (s \o <<x>>) \o <<y>> = s \o (<<x>> \o <<y>>) BY <1>3, ConcatAssociative
  <1>5. <<x>> \o <<y>> = <<x, y>>
    <2> DEFINE a == <<x>>
               b == <<y>>
               e == <<x, y>>
               d == a \o b
    <2>1. Len(a) = 1 /\ Len(b) = 1 /\ a[1] = x /\ b[1] = y /\ a \in Seq(S) /\ b \in Seq(S) OBVIOUS
    <2>2. e \in Seq(S) /\ Len(e) = 2 /\ e[1] = x /\ e[2] = y OBVIOUS
    <2> HIDE DEF a, b, e
    <2>3. /\ d \in Seq(S) /\ Len(d) = Len(a) + Len(b)
          /\ \A i \in 1..(Len(a) + Len(b)) : d[i] = IF i <= Len(a) THEN a[i] ELSE b[i - Len(a)]
      BY <2>1, TwoParts
    <2> HIDE DEF d
    <2>4. Len(d) = 2 /\ d[1] = x /\ d[2] = y BY <2>1, <2>3
    <2>5. \A i \in 1..2 : i = 1 \/ i = 2 OBVIOUS
    <2>6. d = e BY <2>2, <2>3, <2>4, <2>5, SeqEqual
    <2> QED BY <2>6 DEF a, b, d, e
  <1> QED BY <1>1, <1>2, <1>4, <1>5

\* The reader gets from behind the name of a variant to where its contents go on.
LEMMA VariantReads ==
  ASSUME NEW k \in DOMAIN VariantTail, NEW o, NEW h, h.kind = k, h.first = TRUE,
         h.open = (k = "newtype_variant")
  PROVE  /\ VariantTail[k] \in Seq(Byte)
         /\ Json!Reads(Json!At("colon", Append(o, 125)), VariantTail[k]) = Json!At(Expects(h), Inside(h, o))
  <1> DEFINE p == Append(o, 125)
             x == Json!At("colon", p)
             b == VariantTail[k]
  <1>1. k \in {"newtype_variant", "tuple_variant", "struct_variant"} BY DEF VariantTail
  <1>2. Json!Read(x, 58) = Json!At("value", p) BY ReadAt
  <1>3. COLON = 58 /\ LBRACKET = 91 /\ LBRACE = 123 /\ RBRACE = 125 /\ RBRACKET = 93
        /\ 58 \in Byte /\ 91 \in Byte /\ 123 \in Byte
    BY Marks
  <1> HIDE DEF p, x
  <1>4. Json!Value(p, 91) = Json!At("first", Append(p, 93)) /\ Json!Value(p, 123) = Json!At("first", Append(p, 125))
    BY ValueOf
  <1>5. \A c : Json!Read(Json!At("value", p), c) = Json!Value(p, c) BY ReadAt
  <1>6. CASE k = "newtype_variant"
    <2>1. b = <<58>> BY <1>3, <1>6 DEF VariantTail
    <2>2. Expects(h) = "value" /\ Inside(h, o) = p BY <1>3, <1>6 DEF Expects, Inside, Lists, p
    <2> HIDE DEF b
    <2>3. b \in Seq(Byte) BY <1>3, <2>1, One
    <2>4. Json!Reads(x, b) = Json!Read(x, 58) BY <2>1, ReadsOne
    <2>5. Json!Reads(x, b) = Json!At(Expects(h), Inside(h, o)) BY <1>2, <2>2, <2>4
    <2> QED BY <2>3, <2>5 DEF b, x, p
  <1>7. CASE k = "tuple_variant"
    <2>1. b = <<58, 91>> BY <1>3, <1>7 DEF VariantTail
    <2>2. Expects(h) = "first" /\ Inside(h, o) = Append(p, 93)
      BY <1>3, <1>7 DEF Expects, Inside, Lists, p
    <2> HIDE DEF b
    <2>3. b \in Seq(Byte) BY <1>3, <2>1
    <2>4. Json!Reads(x, b) = Json!Read(Json!Read(x, 58), 91) BY <2>1, ReadsTwo
    <2>5. Json!Reads(x, b) = Json!At(Expects(h), Inside(h, o)) BY <1>2, <1>4, <1>5, <2>2, <2>4
    <2> QED BY <2>3, <2>5 DEF b, x, p
  <1>8. CASE k = "struct_variant"
    <2>1. b = <<58, 123>> BY <1>3, <1>8 DEF VariantTail
    <2>2. Expects(h) = "first" /\ Inside(h, o) = Append(p, 125)
      BY <1>3, <1>8 DEF Expects, Inside, Lists, p
    <2> HIDE DEF b
    <2>3. b \in Seq(Byte) BY <1>3, <2>1
    <2>4. Json!Reads(x, b) = Json!Read(Json!Read(x, 58), 123) BY <2>1, ReadsTwo
    <2>5. Json!Reads(x, b) = Json!At(Expects(h), Inside(h, o)) BY <1>2, <1>4, <1>5, <2>2, <2>4
    <2> QED BY <2>3, <2>5 DEF b, x, p
  <1> QED BY <1>1, <1>6, <1>7, <1>8

\* The name of a variant begins in the map it is the key of.
LEMMA NameReads ==
  ASSUME NEW o \in Seq(Byte), NEW v, \A c : c /= 93 => Json!Read(v, c) = Json!Value(o, c)
  PROVE  Json!Read(Json!Read(v, 123), 34) = Json!In("string", Append(o, 125), TRUE, <<>>)
  <1> DEFINE p == Append(o, 125)
  <1>1. Json!Read(v, 123) = Json!At("first", p)
    <2>1. Json!Value(o, 123) = Json!At("first", p) BY ValueOf
    <2>2. Json!Read(v, 123) = Json!Value(o, 123) OBVIOUS
    <2> QED BY <2>1, <2>2
  <1>2. Json!Last(p) = 125
    <2>1. 125 \in Byte BY Marks
    <2>2. Len(p) = Len(o) + 1 /\ p[Len(o) + 1] = 125 BY <2>1, AppendFacts
    <2> HIDE DEF p
    <2> QED BY <2>2 DEF Json!Last
  <1> HIDE DEF p
  <1>3. Json!First(p, 34) = Json!Key(p, 34) BY <1>2 DEF Json!First
  <1>4. Json!Key(p, 34) = Json!In("string", p, TRUE, <<>>) BY DEF Json!Key, Json!QUOTE
  <1>5. Json!Read(Json!At("first", p), 34) = Json!First(p, 34) BY ReadAt
  <1> QED BY <1>1, <1>3, <1>4, <1>5 DEF p

LEMMA VariantStep ==
  ASSUME IInv, SerializeVariant
  PROVE  IInv'
  <1>1. pc = "busy" /\ Ready(Top) /\ Keep BY DEF SerializeVariant, Nesting, Serializing
  <1>2. PICK k \in DOMAIN VariantTail, s \in Strings :
          Put(Lead(Top), <<LBRACE>>, <<QU>>, "Writer",
              Go(Settle \o <<Frame(k, k = "newtype_variant"), Text("str", s, VariantTail[k])>>))
    BY DEF SerializeVariant
  <1>3. Sunk /\ \E o : Takes(o) BY <1>1, TakesLemma
  <1>4. PICK o : Takes(o) BY <1>3
  <1> DEFINE op == k = "newtype_variant"
             h == Frame(k, op)
             t == VariantTail[k]
             f == Text("str", s, t)
             g == Append(Settle, h)
             w == Json!At("next", o)
             x == Json!At(Expects(h), Inside(h, o))
             p == Append(o, 125)
             u == Json!In("string", p, TRUE, <<>>)
             v == Json!Reads(Sent, Lead(Top))
  <1>5. /\ Settle = Append(Under, Took(Top)) /\ Under \in Seq(GoodFrames) /\ Took(Top) \in GoodFrames
        /\ ~Took(Top).first /\ ~Took(Top).open /\ o \in Seq(Byte) /\ Awaits(Settle, w)
        /\ \A c : c /= 93 => Json!Read(v, c) = Json!Value(o, c)
    BY <1>4 DEF Takes
  <1>6. k \in Containers /\ k /= "one" /\ op \in BOOLEAN
    BY DEF VariantTail, Containers, Lists, Structs
  <1>7. h \in GoodFrames /\ h.kind = k /\ h.first = TRUE /\ h.open = op
    <2> HIDE DEF op
    <2> QED BY <1>6, FrameStart
  <1> HIDE DEF h
  <1>8. t \in Seq(Byte) /\ Json!Reads(Json!At("colon", p), t) = x BY <1>7, VariantReads
  <1>9. s \in Seq(Byte) /\ Json!IsUtf8(s) BY InputAssumption, TextAssumption
  <1>10. "str" \in Texts /\ "str" /= "array" /\ "str" /= "quoted" BY DEF Texts, Strs
  <1> HIDE DEF t, op
  <1>11. f \in GoodFrames BY <1>8, <1>9, <1>10, TextStart
  <1>12. Awaits(g, x) /\ g \in Seq(GoodFrames)
    <2> DEFINE f0 == Took(Top)
               r0 == Under
    <2>1. w.open = o BY AtIs
    <2>2. Settle = Append(r0, f0) /\ r0 \in Seq(GoodFrames) /\ f0 \in GoodFrames /\ ~f0.first /\ ~f0.open
      BY <1>5
    <2> HIDE DEF f0, r0, w
    <2>3. Awaits(Append(Append(r0, f0), h), Json!At(Expects(h), Inside(h, w.open)))
      BY <1>5, <1>6, <1>7, <2>2, AwaitsPush
    <2>4. Awaits(g, x) BY <2>1, <2>2, <2>3
    <2>5. Settle \in Seq(GoodFrames) BY <2>2, AppendFacts
    <2>6. g \in Seq(GoodFrames) BY <1>7, <2>5, AppendFacts
    <2> QED BY <2>4, <2>6
  <1>13. Settle \o <<h, f>> = Append(g, f)
    <2>1. Settle \in Seq(GoodFrames) BY <1>5, AppendFacts
    <2> HIDE DEF f
    <2> QED BY <2>1, <1>7, <1>11, TwoMore
  <1>14. Json!Reads(Ended(TRUE, p), t) = x BY <1>8 DEF Ended
  <1>15. Running(Append(g, f), u)
    <2> HIDE DEF g, x, p
    <2> QED BY <1>8, <1>9, <1>10, <1>12, <1>14, StringStart
  <1> DEFINE b == <<123>>
             c == <<34>>
  <1>16. Put(Lead(Top), b, c, "Writer", Go(Append(g, f)))
    <2>1. b = <<LBRACE>> /\ c = <<QU>> BY Marks
    <2>2. Settle \o <<h, f>> = Settle \o <<Frame(k, k = "newtype_variant"), Text("str", s, VariantTail[k])>>
      BY DEF h, op, t
    <2> HIDE DEF b, c
    <2> QED BY <1>2, <1>13, <2>1, <2>2
  <1>17. b \in Seq(Byte) /\ c \in Seq(Byte) BY Marks, One
  <1>18. u /= Json!Bad BY InNotBad
  <1> HIDE DEF u, v
  <1>19. Json!Reads(Json!Reads(v, b), c) = u
    <2>1. Json!Read(Json!Read(v, 123), 34) = u BY <1>5, NameReads DEF u
    <2>2. Json!Reads(v, b) = Json!Read(v, 123) BY ReadsOne
    <2> DEFINE y == Json!Read(v, 123)
    <2> HIDE DEF y
    <2>3. Json!Reads(y, c) = Json!Read(y, 34) BY ReadsOne
    <2> QED BY <2>1, <2>2, <2>3 DEF y
  <1> HIDE DEF b, c, g, f
  <1> QED BY <1>1, <1>3, <1>4, <1>15, <1>16, <1>17, <1>18, <1>19, PutValue DEF v

-----------------------------------------------------------------------------
(* Keys *)

LEMMA KeyStep ==
  ASSUME IInv, pc = "busy", Top.kind \in Structs \cup {"map"}, ~Top.open,
         NEW k \in {"str", "collect", "quoted"}, NEW s \in Seq(Byte), NEW t \in Seq(Byte),
         k \in Strs => Json!IsUtf8(s),
         k = "quoted" => s /= <<>> /\ \A j \in 1..Len(s) : s[j] \in Json!Scalars,
         IF Top.kind = "map" THEN t = <<>> ELSE t = << 58 >> /\ k = "str",
         Put(Comma(Top), <<QU>>, <<>>, "Writer", Go(Append(Replace(Opened), Text(k, s, t)))), Keep
  PROVE  IInv'
  <1>1. Sunk /\ \E o : TakesKey(o) BY TakesKeyLemma
  <1>2. PICK o : TakesKey(o) BY <1>1
  <1> DEFINE q == IF Top.kind = "map" THEN "colon" ELSE "value"
             w == Json!At(q, o)
             u == Json!In("string", o, TRUE, <<>>)
             g == Replace(Opened)
             f == Text(k, s, t)
             v == Json!Reads(Sent, Comma(Top))
             a == Comma(Top)
             b == <<34>>
             z == <<>>
  <1>3. g \in Seq(GoodFrames) /\ Awaits(g, w) /\ a \in Seq(Byte) /\ Json!Read(v, 34) = u
    BY <1>2 DEF TakesKey
  <1>4. k \in Texts /\ k /= "array" BY DEF Texts, Strs
  <1>5. Json!Reads(Ended(TRUE, o), t) = w
    <2> DEFINE c == Json!At("colon", o)
    <2>1. Ended(TRUE, o) = c BY DEF Ended
    <2>2. Json!Read(c, 58) = Json!At("value", o) BY ReadAt
    <2> HIDE DEF c
    <2>3. CASE Top.kind = "map"
      <3>1. Json!Reads(c, t) = c BY <2>3, ReadsNone
      <3> QED BY <2>1, <2>3, <3>1 DEF c
    <2>4. CASE Top.kind /= "map"
      <3>1. t = <<58>> BY <2>4
      <3>2. Json!Reads(c, t) = Json!Read(c, 58) BY <3>1, ReadsOne
      <3> QED BY <2>1, <2>2, <2>4, <3>2
    <2> QED BY <2>3, <2>4
  <1>6. k /= "str" => t = <<>> OBVIOUS
  <1> HIDE DEF w, g
  <1>7. Running(Append(g, f), u) BY <1>3, <1>4, <1>5, <1>6, StringStart
  <1>8. Put(a, b, z, "Writer", Go(Append(g, f))) BY Marks DEF g
  <1>9. b \in Seq(Byte) /\ z \in Seq(Byte) BY Marks, One, EmptySeq
  <1>10. u /= Json!Bad BY InNotBad
  <1> HIDE DEF u, f
  <1>11. Json!Reads(Json!Reads(v, b), z) = u
    <2> HIDE DEF v
    <2>1. Json!Reads(v, b) = u BY <1>3, ReadsOne
    <2> HIDE DEF b
    <2> QED BY <2>1, ReadsNone
  <1> HIDE DEF b, z, a
  <1>12. u = Json!Reads(Json!Reads(Json!Reads(Sent, a), b), z) BY <1>11 DEF v, a
  <1>13. Broken \/ Wrote(Append(g, f), u) BY <1>1, <1>3, <1>8, <1>9, <1>10, <1>12, PutThree
  <1> QED BY <1>7, <1>13, Preserves

LEMMA StrKeyStep ==
  ASSUME IInv, StrKey
  PROVE  IInv'
  <1>1. pc = "busy" /\ Top.kind = "map" /\ ~Top.open /\ Keep BY DEF StrKey, KeyTurn
  <1>2. PICK s \in Strings :
          Put(Comma(Top), <<QU>>, <<>>, "Writer", Go(Append(Replace(Opened), Text("str", s, <<>>))))
    BY DEF StrKey
  <1>3. s \in Seq(Byte) /\ Json!IsUtf8(s) BY InputAssumption, TextAssumption
  <1>4. <<>> \in Seq(Byte) BY EmptySeq
  <1> QED BY <1>1, <1>2, <1>3, <1>4, KeyStep

LEMMA CollectKeyStep ==
  ASSUME IInv, CollectKey
  PROVE  IInv'
  <1>1. pc = "busy" /\ Top.kind = "map" /\ ~Top.open /\ Keep BY DEF CollectKey, KeyTurn
  <1>2. Put(Comma(Top), <<QU>>, <<>>, "Writer",
            Go(Append(Replace(Opened), Text("collect", <<>>, <<>>))))
    BY DEF CollectKey
  <1> QED BY <1>1, <1>2, EmptyUtf8, KeyStep

LEMMA QuotedKeyStep ==
  ASSUME IInv, QuotedKey
  PROVE  IInv'
  <1>1. pc = "busy" /\ Top.kind = "map" /\ ~Top.open /\ Keep BY DEF QuotedKey, KeyTurn
  <1>2. PICK a \in Quotable :
          Put(Comma(Top), <<QU>>, <<>>, "Writer",
              Go(Append(Replace(Opened), Text("quoted", a, <<>>))))
    BY DEF QuotedKey
  <1>3. a \in Seq(Byte) /\ a /= <<>> /\ \A k \in 1..Len(a) : a[k] \in Json!Scalars
    <2>1. a \in Atoms /\ a \in Seq(Byte) BY InputAssumption
    <2>2. DOMAIN a = 1..Len(a) BY <2>1, LenProperties
    <2> QED BY <2>1, <2>2, AtomAssumption
  <1>4. <<>> \in Seq(Byte) /\ "quoted" \notin Strs BY EmptySeq DEF Strs
  <1> QED BY <1>1, <1>2, <1>3, <1>4, KeyStep

LEMMA FieldStep ==
  ASSUME IInv, WriteField
  PROVE  IInv'
  <1>1. pc = "busy" /\ Top.kind \in Structs /\ ~Top.open /\ Keep BY DEF WriteField
  <1>2. PICK s \in Strings :
          Put(Comma(Top), <<QU>>, <<>>, "Writer",
              Go(Append(Replace(Opened), Text("str", s, <<COLON>>))))
    BY DEF WriteField
  <1>3. s \in Seq(Byte) /\ Json!IsUtf8(s) BY InputAssumption, TextAssumption
  <1>4. COLON = 58 /\ <<58>> \in Seq(Byte) BY Marks, One
  <1>5. Top.kind /= "map" BY <1>1 DEF Structs
  <1>6. Put(Comma(Top), <<QU>>, <<>>, "Writer", Go(Append(Replace(Opened), Text("str", s, <<58>>))))
    BY <1>2, <1>4
  <1> QED BY <1>1, <1>3, <1>4, <1>5, <1>6, KeyStep

LEMMA InvalidKeyStep ==
  ASSUME IInv, InvalidKey
  PROVE  IInv'
  <1>1. pc = "busy" /\ Top.kind \in Structs \cup {"map"} /\ ~Top.open /\ Keep
    BY DEF InvalidKey, KeyTurn
  <1>2. PICK o : TakesKey(o) BY <1>1, TakesKeyLemma
  <1>3. Sunk BY <1>1, TakesKeyLemma
  <1> DEFINE a == Comma(Top)
  <1>4. Put(a, <<>>, <<>>, "Writer", Fail("InvalidKeyType")) BY DEF InvalidKey
  <1>5. a \in Seq(Byte) /\ Json!Reads(Sent, a) /= Json!Bad /\ Json!Reads(Sent, a) /= Json!Whole
    BY <1>2 DEF TakesKey
  <1> HIDE DEF a
  <1>6. Broken BY <1>1, <1>3, <1>4, <1>5, PutFailure
  <1> QED BY <1>1, <1>6, Preserves

-----------------------------------------------------------------------------
(* Ends *)

LEMMA EndStep ==
  ASSUME IInv, End
  PROVE  IInv'
  <1> DEFINE f == Top
             r == Under
             w == Settled(Sent)
             t == Sent
             a == Closer(Top)
             z == <<>>
  <1>1. pc = "busy" /\ f.kind \in Containers /\ f.kind /= "one" /\ ~f.open /\ Keep
    BY DEF End, Containers, Lists, Structs
  <1>2. Put(a, z, z, "Writer", Go(r)) BY DEF End
  <1>3. Sunk /\ r \in Seq(GoodFrames) /\ f \in GoodFrames /\ Awaits(Append(r, f), w)
    BY <1>1, Innermost
  <1>4. w = Settled(t) /\ a = Closer(f) /\ t = Sent OBVIOUS
  <1> HIDE DEF f, r, w, t, a
  <1>5. PICK p \in Seq(Byte) : w.open = Inside(f, p) /\ Awaits(r, Json!At("next", p))
    BY <1>1, <1>3, AwaitsPop
  <1> DEFINE u == Json!At("next", p)
  <1>6. a \in Seq(Byte) /\ Json!Reads(t, a) = u BY <1>1, <1>3, <1>4, <1>5, CloserReads
  <1>7. u /= Json!Bad /\ Settled(u) = u BY NotBad, SettledAt
  <1>8. Running(r, u) BY <1>5, <1>7 DEF Running
  <1> HIDE DEF u
  <1>9. z \in Seq(Byte) /\ Json!Reads(u, z) = u BY EmptySeq, ReadsNone
  <1> HIDE DEF z
  <1>10. u = Json!Reads(Json!Reads(Json!Reads(Sent, a), z), z) BY <1>4, <1>6, <1>9
  <1>11. Broken \/ Wrote(r, u) BY <1>1, <1>2, <1>3, <1>6, <1>7, <1>9, <1>10, PutThree
  <1> QED BY <1>1, <1>8, <1>11, Preserves

LEMMA ReturnStep ==
  ASSUME IInv, Return
  PROVE  IInv'
  <1> DEFINE f == Top
             r == Under
             w == Settled(Sent)
  <1>1. pc = "busy" /\ f.kind = "one" /\ ~f.open BY DEF Return
  <1>2. f.kind \in Containers BY <1>1 DEF Containers
  <1>3. r \in Seq(GoodFrames) /\ f \in GoodFrames /\ Awaits(Append(r, f), w)
    BY <1>1, <1>2, Innermost
  <1>4. Expects(f) = "next" BY <1>1 DEF Expects
  <1> HIDE DEF f, r, w
  <1>5. w = Json!At("next", <<>>) BY <1>1, <1>3, <1>4, AwaitsInfo
  <1>6. Settled(Sent) = Json!Whole BY <1>5 DEF w, Json!Whole
  <1>7. out' = out /\ cap' = cap /\ encoder' = encoder /\ pc' = "ok" /\ stack' = <<>> BY DEF Return
  <1>8. Sent' = Sent BY <1>7 DEF Sent
  <1>9. Settled(Sent)' = Json!Whole BY <1>6, <1>8
  <1> QED BY <1>7, <1>9 DEF IInv

LEMMA GiveUpStep ==
  ASSUME IInv, GiveUp
  PROVE  IInv'
  <1>1. pc = "busy" /\ Keep /\ Top.kind \notin {"str", "quoted"} \cup ByteTexts BY DEF GiveUp
  <1>2. CASE Top.kind = "collect"
    <2>1. Fail("FormatError") /\ out' = out BY <1>2 DEF GiveUp
    <2>2. PICK w : Awaits(Under, w) /\ Writing(Top, Sent, w)
      <3>1. Top.kind \in Texts BY <1>2 DEF Texts, Strs
      <3> QED BY <1>1, <3>1, Innermost
    <2>3. PICK key, o : Sent = Json!In("string", o, key, <<>>)
      BY <1>2, <2>2 DEF Writing, WritingString
    <2>4. Sent /= Json!Bad /\ Sent /= Json!Whole
      <3> HIDE DEF Sent
      <3> QED BY <2>3, InNotBad
    <2>5. Sent' = Sent BY <2>1 DEF Sent
    <2>6. out \in Seq(Byte) /\ Len(out) <= cap BY DEF IInv
    <2>7. Broken BY <1>1, <2>1, <2>4, <2>5, <2>6 DEF Broken, Fail
    <2> QED BY <1>1, <2>7, Preserves
  <1>3. CASE Top.kind /= "collect"
    <2>1. PICK led \in {<<>>, IF Ready(Top) THEN Lead(Top) ELSE IF KeyTurn THEN Comma(Top) ELSE <<>>} :
            Put(led, <<>>, <<>>, "Writer", Fail("SerializeError"))
      BY <1>3 DEF GiveUp
    <2>2. Sunk BY <1>1, Innermost
    <2>3. ASSUME led = <<>> PROVE led \in Seq(Byte) /\ Json!Reads(Sent, led) /= Json!Bad
      <3>1. Sent /= Json!Bad
        <4>1. Top.kind \in Containers BY <1>1, <1>3, Innermost DEF Texts, Strs
        <4> DEFINE f == Top
                   r == Under
                   w == Settled(Sent)
        <4>2. r \in Seq(GoodFrames) /\ f \in GoodFrames /\ Awaits(Append(r, f), w)
          BY <1>1, <4>1, Innermost
        <4> HIDE DEF f, r, w
        <4>3. w = Json!At(Expects(f), w.open) BY <4>2, AwaitsInfo
        <4>4. Expects(f) /= "bad" BY DEF Expects
        <4>5. w /= Json!Bad BY <4>3, <4>4, NotBad
        <4>6. Settled(Json!Bad) = Json!Bad BY SettledAt DEF Json!Bad
        <4> QED BY <4>5, <4>6 DEF w
      <3>2. Json!Reads(Sent, <<>>) = Sent BY ReadsNone
      <3> QED BY <2>3, <3>1, <3>2, EmptySeq
    <2>4. ASSUME Ready(Top), led = Lead(Top) PROVE led \in Seq(Byte) /\ Json!Reads(Sent, led) /= Json!Bad
      <3>1. PICK o : Takes(o) BY <1>1, <2>4, TakesLemma
      <3> QED BY <2>4, <3>1 DEF Takes
    <2>5. ASSUME KeyTurn, led = Comma(Top) PROVE led \in Seq(Byte) /\ Json!Reads(Sent, led) /= Json!Bad
      <3>1. Top.kind \in Structs \cup {"map"} /\ ~Top.open BY <2>5 DEF KeyTurn
      <3>2. PICK o : TakesKey(o) BY <1>1, <3>1, TakesKeyLemma
      <3> QED BY <2>5, <3>2 DEF TakesKey
    <2>6. led \in Seq(Byte) /\ Json!Reads(Sent, led) /= Json!Bad BY <2>1, <2>3, <2>4, <2>5
    <2>7. Broken BY <1>1, <2>1, <2>2, <2>6, PutFailure
    <2> QED BY <1>1, <2>7, Preserves
  <1> QED BY <1>2, <1>3

-----------------------------------------------------------------------------
(* The inside of a string: what an encoder writes, escapes, and stretches    *)
(* that are copied.                                                          *)

Plain(c) == c \in Byte /\ 32 <= c /\ c < 128 /\ c /= 34 /\ c /= 92

LEMMA InExcept ==
  ASSUME NEW q, NEW o, NEW key, NEW m, NEW p
  PROVE  /\ [Json!In(q, o, key, m) EXCEPT !.q = p] = Json!In(p, o, key, m)
         /\ [Json!In(q, o, key, m) EXCEPT !.more = p] = Json!In(q, o, key, p)
  BY DEF Json!In

LEMMA StringReads ==
  ASSUME NEW o, NEW key \in BOOLEAN, NEW m, NEW c
  PROVE  /\ m = <<>> /\ c = 34 => Json!Read(Json!In("string", o, key, m), c) = Ended(key, o)
         /\ m = <<>> /\ c = 92 => Json!Read(Json!In("string", o, key, m), c) = Json!In("escape", o, key, m)
  <1> DEFINE s == Json!In("string", o, key, m)
  <1>1. s.q = "string" /\ s.open = o /\ s.key = key /\ s.more = m BY InIs
  <1>2. [s EXCEPT !.q = "escape"] = Json!In("escape", o, key, m) BY InExcept
  <1> HIDE DEF s
  <1>3. Json!Read(s, c) = Json!String(s, c) BY <1>1, ReadCases
  <1>4. m = <<>> /\ c = 34 => Json!String(s, c) = Ended(key, o) BY <1>1 DEF Json!String, Json!QUOTE, Ended
  <1>5. m = <<>> /\ c = 92 => Json!String(s, c) = Json!In("escape", o, key, m)
    BY <1>1, <1>2 DEF Json!String, Json!QUOTE, Json!ESCAPE
  <1> QED BY <1>3, <1>4, <1>5 DEF s

LEMMA StringByte ==
  ASSUME NEW o, NEW key \in BOOLEAN, NEW m, NEW c, c /= 34, c /= 92, ~(c < 32),
         NEW n, n = Json!Utf8(m, c), n /= Json!Refused
  PROVE  Json!Read(Json!In("string", o, key, m), c) = Json!In("string", o, key, n)
  <1> DEFINE s == Json!In("string", o, key, m)
  <1>1. s.q = "string" /\ s.more = m BY InIs
  <1>2. [s EXCEPT !.more = n] = Json!In("string", o, key, n) BY InExcept
  <1> HIDE DEF s
  <1>3. Json!Read(s, c) = Json!String(s, c) BY <1>1, ReadCases
  <1>4. Json!String(s, c) = [s EXCEPT !.more = n]
    BY <1>1 DEF Json!String, Json!QUOTE, Json!ESCAPE
  <1>5. Json!Read(s, c) = Json!In("string", o, key, n) BY <1>2, <1>3, <1>4
  <1> QED BY <1>5 DEF s

LEMMA NotRefused == <<>> /= Json!Refused
  BY DEF Json!Refused

LEMMA PlainByte ==
  ASSUME NEW o, NEW key \in BOOLEAN, NEW c, Plain(c)
  PROVE  Json!Read(Json!In("string", o, key, <<>>), c) = Json!In("string", o, key, <<>>)
  <1>1. Json!Utf8(<<>>, c) = <<>> BY DEF Json!Utf8, Plain
  <1>2. c /= 34 /\ c /= 92 /\ ~(c < 32) BY DEF Plain, Byte
  <1> DEFINE z == <<>>
  <1>3. Json!Utf8(z, c) = z /\ z /= Json!Refused BY <1>1, NotRefused
  <1> HIDE DEF z
  <1>4. Json!Read(Json!In("string", o, key, z), c) = Json!In("string", o, key, z)
    BY <1>2, <1>3, StringByte
  <1> QED BY <1>4 DEF z

LEMMA PlainReads ==
  ASSUME NEW o, NEW key \in BOOLEAN, NEW b \in Seq(Byte), \A k \in 1..Len(b) : Plain(b[k])
  PROVE  Json!Reads(Json!In("string", o, key, <<>>), b) = Json!In("string", o, key, <<>>)
  <1> DEFINE s == Json!In("string", o, key, <<>>)
             n == Len(b)
  <1>1. \A c : Plain(c) => Json!Read(s, c) = s BY PlainByte
  <1> HIDE DEF s
  <1>2. CASE b = <<>> BY <1>2, ReadsNone DEF s
  <1>3. CASE b /= <<>>
    <2>1. n \in Nat /\ n /= 0 BY <1>3, EmptySeq
    <2>2. 1 \in 1..n /\ \A k \in 2..n : k \in 1..n BY <2>1
    <2>3. Json!Read(s, b[1]) = s /\ \A k \in 2..n : Json!Read(s, b[k]) = s BY <1>1, <2>2
    <2>4. Json!Reads(s, b) = s BY <1>3, <2>3, Stays
    <2> QED BY <2>4 DEF s
  <1> QED BY <1>2, <1>3 DEF s

LEMMA FourParts ==
  ASSUME NEW S, NEW w \in S, NEW x \in S, NEW y \in S, NEW z \in S
  PROVE  <<w, x, y, z>> = <<w, x>> \o <<y, z>>
  <1> DEFINE a == <<w, x>>
             b == <<y, z>>
             e == <<w, x, y, z>>
             d == a \o b
  <1>1. a \in Seq(S) /\ b \in Seq(S) /\ Len(a) = 2 /\ Len(b) = 2
        /\ a[1] = w /\ a[2] = x /\ b[1] = y /\ b[2] = z
    OBVIOUS
  <1>2. e \in Seq(S) /\ Len(e) = 4 /\ e[1] = w /\ e[2] = x /\ e[3] = y /\ e[4] = z OBVIOUS
  <1> HIDE DEF a, b, e
  <1>3. /\ d \in Seq(S) /\ Len(d) = Len(a) + Len(b)
        /\ \A i \in 1..(Len(a) + Len(b)) : d[i] = IF i <= Len(a) THEN a[i] ELSE b[i - Len(a)]
    BY <1>1, TwoParts
  <1> HIDE DEF d
  <1>4. Len(d) = 4 /\ d[1] = w /\ d[2] = x /\ d[3] = y /\ d[4] = z BY <1>1, <1>3
  <1>5. \A i \in 1..4 : i = 1 \/ i = 2 \/ i = 3 \/ i = 4 OBVIOUS
  <1>6. d = e BY <1>2, <1>3, <1>4, <1>5, SeqEqual
  <1> QED BY <1>6 DEF a, b, d, e

LEMMA HexReads ==
  ASSUME NEW o, NEW key \in BOOLEAN, NEW c
  PROVE  /\ c = 117 => Json!Read(Json!In("escape", o, key, <<>>), c) = Json!In("hex4", o, key, <<>>)
         /\ c /= 117 /\ c \in Json!Escapes
            => Json!Read(Json!In("escape", o, key, <<>>), c) = Json!In("string", o, key, <<>>)
         /\ c \in Json!HexDigits
            => /\ Json!Read(Json!In("hex4", o, key, <<>>), c) = Json!In("hex3", o, key, <<>>)
               /\ Json!Read(Json!In("hex3", o, key, <<>>), c) = Json!In("hex2", o, key, <<>>)
               /\ Json!Read(Json!In("hex2", o, key, <<>>), c) = Json!In("hex1", o, key, <<>>)
               /\ Json!Read(Json!In("hex1", o, key, <<>>), c) = Json!In("string", o, key, <<>>)
  <1> DEFINE In(q) == Json!In(q, o, key, <<>>)
  <1>1. \A q : In(q).q = q BY InIs
  <1>2. \A q, p : [In(q) EXCEPT !.q = p] = In(p) BY InExcept
  <1>3. /\ Json!NextHex["hex4"] = "hex3" /\ Json!NextHex["hex3"] = "hex2"
        /\ Json!NextHex["hex2"] = "hex1" /\ Json!NextHex["hex1"] = "string"
    BY DEF Json!NextHex
  <1> HIDE DEF In
  <1>4. ASSUME c \in Json!HexDigits, NEW q \in {"hex4", "hex3", "hex2", "hex1"}
        PROVE  Json!Read(In(q), c) = In(Json!NextHex[q])
    <2>1. Json!Read(In(q), c) = [In(q) EXCEPT !.q = Json!NextHex[In(q).q]] BY <1>1, <1>4, ReadHex
    <2> QED BY <1>1, <1>2, <2>1
  <1>5. c = 117 => Json!Read(In("escape"), c) = In("hex4")
    <2>1. c = 117 => Json!Read(In("escape"), c) = [In("escape") EXCEPT !.q = "hex4"] BY <1>1, ReadHex
    <2> QED BY <1>2, <2>1
  <1>6. c /= 117 /\ c \in Json!Escapes => Json!Read(In("escape"), c) = In("string")
    <2>1. c /= 117 /\ c \in Json!Escapes
          => Json!Read(In("escape"), c) = [In("escape") EXCEPT !.q = "string"]
      BY <1>1, ReadHex
    <2> QED BY <1>2, <2>1
  <1> QED BY <1>3, <1>4, <1>5, <1>6 DEF In

LEMMA NibbleLemma ==
  ASSUME NEW n \in 0..15
  PROVE  Nibble(n) \in Json!HexDigits /\ Plain(Nibble(n))
  <1>1. n \in Int /\ 0 <= n /\ n <= 15 OBVIOUS
  <1>2. CASE n <= 9
    <2>1. Nibble(n) = 48 + n BY <1>2 DEF Nibble
    <2> QED BY <1>1, <1>2, <2>1 DEF Json!HexDigits, Plain, Byte
  <1>3. CASE ~(n <= 9)
    <2>1. Nibble(n) = 55 + n BY <1>3 DEF Nibble
    <2> QED BY <1>1, <1>3, <2>1 DEF Json!HexDigits, Plain, Byte
  <1> QED BY <1>2, <1>3

LEMMA HexLemma ==
  ASSUME NEW b \in Byte
  PROVE  /\ Hex(b) \in Seq(Byte) /\ Len(Hex(b)) = 2
         /\ \A k \in 1..2 : Hex(b)[k] \in Json!HexDigits /\ Plain(Hex(b)[k])
  <1> DEFINE x == Nibble(b \div 16)
             y == Nibble(b % 16)
  <1>1. b \div 16 \in 0..15 /\ (b % 16) \in 0..15 BY DEF Byte
  <1>2. x \in Json!HexDigits /\ Plain(x) BY <1>1, NibbleLemma
  <1>3. y \in Json!HexDigits /\ Plain(y) BY <1>1, NibbleLemma
  <1>4. Hex(b) = <<x, y>> BY DEF Hex
  <1> HIDE DEF x, y
  <1>5. x \in Byte /\ y \in Byte BY <1>2, <1>3 DEF Plain
  <1>6. \A k \in 1..2 : k = 1 \/ k = 2 OBVIOUS
  <1> DEFINE h == <<x, y>>
  <1>7. h \in Seq(Byte) /\ Len(h) = 2 /\ h[1] = x /\ h[2] = y BY <1>5
  <1> HIDE DEF h
  <1>8. \A k \in 1..2 : h[k] \in Json!HexDigits /\ Plain(h[k]) BY <1>2, <1>3, <1>6, <1>7
  <1> QED BY <1>4, <1>7, <1>8 DEF h

LEMMA UnicodeReads ==
  ASSUME NEW o, NEW key \in BOOLEAN, NEW b \in Byte
  PROVE  Json!Reads(Json!Reads(Json!In("string", o, key, <<>>), <<BS, UU, 48, 48>>), Hex(b))
           = Json!In("string", o, key, <<>>)
  <1> DEFINE In(q) == Json!In(q, o, key, <<>>)
             u == <<BS, UU, 48, 48>>
             v == <<92, 117>>
             x == <<48, 48>>
             h == Hex(b)
  <1>1. u = v \o x
    <2>1. 92 \in Byte /\ 117 \in Byte /\ 48 \in Byte BY DEF Byte
    <2> QED BY <2>1, FourParts DEF BS, UU
  <1>2. Len(h) = 2 /\ h[1] \in Json!HexDigits /\ h[2] \in Json!HexDigits BY HexLemma
  <1>3. 48 \in Json!HexDigits BY DEF Json!HexDigits
  <1>4. Json!Read(In("string"), 92) = In("escape") BY StringReads
  <1>5. Json!Read(In("escape"), 117) = In("hex4") BY HexReads
  <1>6. Json!Read(In("hex4"), 48) = In("hex3") /\ Json!Read(In("hex3"), 48) = In("hex2")
    BY <1>3, HexReads
  <1>7. Json!Read(In("hex2"), h[1]) = In("hex1") /\ Json!Read(In("hex1"), h[2]) = In("string")
    BY <1>2, HexReads
  <1>8. v \in Seq(Byte) /\ x \in Seq(Byte) BY DEF Byte
  <1> HIDE DEF In, u, h
  <1>9. Json!Reads(In("string"), v) = In("hex4") BY <1>4, <1>5, ReadsTwo
  <1>10. Json!Reads(In("hex4"), x) = In("hex2") BY <1>6, ReadsTwo
  <1> HIDE DEF v, x
  <1>11. Json!Reads(In("string"), u) = In("hex2") BY <1>1, <1>8, <1>9, <1>10, ReadsConcat
  <1>12. Json!Reads(In("hex2"), h) = In("string") BY <1>2, <1>7, ReadsLen2
  <1>13. Json!Reads(Json!Reads(In("string"), u), h) = In("string") BY <1>11, <1>12
  <1> QED BY <1>13 DEF In, u, h

LEMMA EscapeReads ==
  ASSUME NEW o, NEW key \in BOOLEAN, NEW b \in Byte, Escaped(b), Escape(b) /= UU
  PROVE  /\ <<BS, Escape(b)>> \in Seq(Byte)
         /\ Json!Reads(Json!In("string", o, key, <<>>), <<BS, Escape(b)>>)
              = Json!In("string", o, key, <<>>)
  <1> DEFINE In(q) == Json!In(q, o, key, <<>>)
             c == Escape(b)
             e == <<BS, c>>
  <1>1. c \in Json!Escapes /\ c /= 117
    <2>1. CASE b \in 0..31
      <3>1. c = ESCAPE[b] /\ b \in 0..31 BY <2>1 DEF Escape
      <3>2. ESCAPE[b] = CASE b = 8 -> 98 [] b = 9 -> 116 [] b = 10 -> 110 [] b = 12 -> 102
                          [] b = 13 -> 114 [] OTHER -> UU
        BY <2>1 DEF ESCAPE
      <3>3. ESCAPE[b] \in {98, 116, 110, 102, 114, UU} BY <3>2
      <3> QED BY <3>1, <3>3 DEF UU, Json!Escapes
    <2>2. CASE b \notin 0..31
      <3>1. c = b /\ (b = 34 \/ b = 92) BY <2>2 DEF Escape, Escaped, QU, BS
      <3> QED BY <3>1 DEF Json!Escapes
    <2> QED BY <2>1, <2>2
  <1>2. c \in Byte /\ BS = 92 /\ BS \in Byte BY <1>1, Marks DEF Json!Escapes, Byte
  <1> HIDE DEF c
  <1>3. e \in Seq(Byte) /\ Len(e) = 2 /\ e[1] = 92 /\ e[2] = c BY <1>2
  <1>4. Json!Read(In("string"), 92) = In("escape") BY StringReads
  <1>5. Json!Read(In("escape"), c) = In("string") BY <1>1, HexReads
  <1> HIDE DEF In, e
  <1>6. Json!Reads(In("string"), e) = In("string") BY <1>3, <1>4, <1>5, ReadsLen2
  <1> QED BY <1>3, <1>6 DEF In, e, c

-----------------------------------------------------------------------------
(* A text that is UTF-8 *)

LEMMA Utf8Refused ==
  ASSUME NEW c
  PROVE  Json!Utf8(Json!Refused, c) = Json!Refused
  <1>1. Json!Refused /= <<>> /\ Json!Refused[1] = {} BY DEF Json!Refused
  <1> HIDE DEF Json!Refused
  <1> QED BY <1>1 DEF Json!Utf8

\* No beginning of it is refused, and before an ASCII byte a character has ended.
LEMMA Utf8Whole ==
  ASSUME NEW b \in Seq(Byte), Json!IsUtf8(b)
  PROVE  /\ \A k \in 0..Len(b) : Json!Utf8Run(b)[k] /= Json!Refused
         /\ \A k \in 1..Len(b) : Json!Utf8Run(b)[k] = Json!Utf8(Json!Utf8Run(b)[k - 1], b[k])
         /\ \A k \in 1..Len(b) : b[k] < 128 => Json!Utf8Run(b)[k - 1] = <<>> /\ Json!Utf8Run(b)[k] = <<>>
         /\ Json!Utf8Run(b)[Len(b)] = <<>>
  <1> DEFINE n == Len(b)
             r == Json!Utf8Run(b)
  <1>1. n \in Nat OBVIOUS
  <1>2. r[0] = <<>> /\ \A k \in 1..n : r[k] = Json!Utf8(r[k - 1], b[k]) BY <1>1, Utf8RunLemma
  <1>3. r[n] = <<>> BY DEF Json!IsUtf8
  <1> HIDE DEF n, r
  <1>4. ASSUME NEW k \in 0..n, r[k] = Json!Refused PROVE FALSE
    <2> DEFINE T == {m \in k..n : r[m] /= Json!Refused}
    <2>1. n \in T BY <1>1, <1>3, NotRefused
    <2>2. T \in SUBSET Nat BY <1>1
    <2>3. PICK m \in T : \A j \in T : m <= j
      <3> HIDE DEF T
      <3> QED BY <2>1, <2>2, LeastNat
    <2>4. m \in k..n /\ r[m] /= Json!Refused BY <2>3
    <2>5. m /= k BY <1>4, <2>4
    <2> DEFINE j == m - 1
    <2>6. m \in 1..n /\ j \in k..n /\ ~(m <= j) BY <1>1, <2>4, <2>5
    <2>7. r[j] = Json!Refused BY <2>3, <2>6
    <2>8. r[m] = Json!Utf8(r[j], b[m]) BY <1>2, <2>6
    <2> HIDE DEF j
    <2> QED BY <2>4, <2>7, <2>8, Utf8Refused
  <1>5. ASSUME NEW k \in 1..n, b[k] < 128 PROVE r[k - 1] = <<>> /\ r[k] = <<>>
    <2> DEFINE j == k - 1
    <2>1. k \in 0..n /\ r[k] = Json!Utf8(r[j], b[k]) BY <1>1, <1>2
    <2>2. r[k] /= Json!Refused BY <1>4, <2>1
    <2> HIDE DEF j
    <2>3. r[j] = <<>> /\ r[k] = <<>> BY <1>5, <2>1, <2>2 DEF Json!Utf8
    <2> QED BY <2>3 DEF j
  <1> QED BY <1>2, <1>3, <1>4, <1>5 DEF n, r

LEMMA EscapedLemma ==
  ASSUME NEW c \in Byte
  PROVE  IF Escaped(c) THEN c < 128 ELSE c /= 34 /\ c /= 92 /\ ~(c < 32)
  BY DEF Escaped, QU, BS, Byte

\* What is copied of it.
LEMMA StretchReads ==
  ASSUME NEW o, NEW key \in BOOLEAN, NEW b \in Seq(Byte), Json!IsUtf8(b),
         NEW x \in Nat, NEW y \in Nat, x <= y, y <= Len(b), Json!Utf8Run(b)[x] = <<>>,
         \A k \in 1..Len(b) : x < k /\ k <= y => ~Escaped(b[k])
  PROVE  /\ SubSeq(b, x + 1, y) \in Seq(Byte)
         /\ Json!Reads(Json!In("string", o, key, <<>>), SubSeq(b, x + 1, y))
              = Json!In("string", o, key, Json!Utf8Run(b)[y])
  <1> DEFINE n == Len(b)
             r == Json!Utf8Run(b)
             st(m) == Json!In("string", o, key, m)
             x1 == x + 1
             d == SubSeq(b, x1, y)
             l == y - x
             f == [k \in 0..l |-> st(r[x + k])]
  <1>1. n \in Nat /\ l \in Nat /\ x + l = y /\ x1 \in Int /\ y \in Int OBVIOUS
  <1>2. d \in Seq(Byte) /\ Len(d) = l /\ \A k \in 1..l : d[k] = b[x + k]
    <2>1. \A k \in x1..y : b[k] \in Byte
      <3>1. \A k \in x1..y : k \in 1..n BY <1>1
      <3> QED BY <3>1, ElementOfSeq
    <2> DEFINE e == IF x1 <= y THEN y - x1 + 1 ELSE 0
    <2> HIDE DEF x1
    <2>2. /\ d \in Seq(Byte) /\ Len(d) = e
          /\ \A k \in 1..(y - x1 + 1) : d[k] = b[x1 + k - 1]
      BY <1>1, <2>1, SubSeqProperties
    <2> HIDE DEF d
    <2>3. e = l /\ y - x1 + 1 = l /\ \A k \in 1..l : x1 + k - 1 = x + k BY <1>1 DEF x1
    <2> QED BY <2>2, <2>3
  <1>3. /\ \A k \in 0..n : r[k] /= Json!Refused
        /\ \A k \in 1..n : r[k] = Json!Utf8(r[k - 1], b[k])
    BY Utf8Whole
  <1>4. r[x] = <<>> OBVIOUS
  <1>5. \A k \in 0..l : f[k] = st(r[x + k]) OBVIOUS
  <1> HIDE DEF r, f, d, l
  <1>6. f[0] = st(<<>>)
    <2>1. 0 \in 0..l /\ x + 0 = x BY <1>1
    <2> HIDE DEF st
    <2> QED BY <1>4, <1>5, <2>1
  <1>7. ASSUME NEW k \in 1..l PROVE f[k] = Json!Read(f[k - 1], d[k])
    <2> DEFINE j == x + k
               i == j - 1
               c == b[j]
    <2>1. /\ j \in 1..n /\ j \in 0..n /\ x < j /\ j <= y /\ k \in 0..l
      BY <1>1 DEF l
    <2>2. k - 1 \in 0..l /\ x + (k - 1) = i BY <1>1
    <2>3. f[k] = st(r[j]) /\ f[k - 1] = st(r[i]) BY <1>5, <2>1, <2>2
    <2>4. d[k] = c BY <1>2
    <2>5. r[j] = Json!Utf8(r[i], c) /\ r[j] /= Json!Refused BY <1>3, <2>1
    <2>6. ~Escaped(c) /\ c \in Byte BY <2>1, ElementOfSeq
    <2>7. c /= 34 /\ c /= 92 /\ ~(c < 32) BY <2>6, EscapedLemma
    <2> HIDE DEF j, i, c
    <2>8. Json!Read(st(r[i]), c) = st(r[j]) BY <2>5, <2>7, StringByte
    <2> QED BY <2>3, <2>4, <2>8
  <1> HIDE DEF st
  <1>8. \A k \in 0..l : Json!Run(st(<<>>), d)[k] = f[k]
    <2>1. Len(d) \in Nat /\ Len(d) = l BY <1>1, <1>2
    <2>2. \A k \in 1..Len(d) : f[k] = Json!Read(f[k - 1], d[k]) BY <1>7, <2>1
    <2>3. \A k \in 0..Len(d) : Json!Run(st(<<>>), d)[k] = f[k]
      <3> HIDE DEF l
      <3> QED BY <2>1, <2>2, <1>6, RunUnique
    <2> QED BY <2>1, <2>3
  <1>9. Json!Reads(st(<<>>), d) = st(r[y])
    <2>1. l \in 0..l BY <1>1
    <2>2. f[l] = st(r[y]) BY <1>1, <1>5, <2>1
    <2> QED BY <1>2, <1>8, <2>1, <2>2 DEF Json!Reads
  <1> QED BY <1>2, <1>9 DEF d, x1, st, r

-----------------------------------------------------------------------------
(* Texts *)

\* f with the first x characters of its text written, and the first y copied.
Placed(f, x, y) == [f EXCEPT !.i = x, !.from = y]

LEMMA Moved ==
  ASSUME NEW f \in GoodFrames, NEW x \in Nat, NEW y \in Nat, y <= x, x <= Len(f.text),
         NEW g, g = Placed(f, x, y)
  PROVE  /\ g \in GoodFrames /\ g.i = x /\ g.from = y /\ g.kind = f.kind /\ g.text = f.text
         /\ g.tail = f.tail /\ g.open = f.open
  <1>1. f \in Frames BY DEF GoodFrames
  <1>2. g \in Frames BY <1>1 DEF Frames, Placed
  <1>3. /\ g.i = x /\ g.from = y /\ g.kind = f.kind /\ g.text = f.text
        /\ g.tail = f.tail /\ g.open = f.open
    BY <1>1 DEF Frames, Placed
  <1> QED BY <1>2, <1>3 DEF GoodFrames

LEMMA FrameTypes ==
  ASSUME NEW f \in GoodFrames
  PROVE  /\ f.kind \in Kinds /\ f.text \in Seq(Byte) /\ f.tail \in Seq(Byte)
         /\ f.i \in Nat /\ f.from \in Nat /\ Len(f.text) \in Nat
         /\ f.from <= f.i /\ f.i <= Len(f.text)
         /\ [f EXCEPT !.i = @ + 1] = Placed(f, f.i + 1, f.from)
         /\ [[f EXCEPT !.i = @ + 1] EXCEPT !.from = f.i + 1] = Placed(f, f.i + 1, f.i + 1)
         /\ [f EXCEPT !.from = f.i] = Placed(f, f.i, f.i)
         /\ \A n : [f EXCEPT !.i = @ + n] = Placed(f, f.i + n, f.from)
  <1>1. f \in Frames /\ f.from <= f.i /\ f.i <= Len(f.text) BY DEF GoodFrames
  <1>2. /\ f.kind \in Kinds /\ f.text \in Seq(Byte) /\ f.tail \in Seq(Byte)
        /\ f.i \in Nat /\ f.from \in Nat
    BY <1>1 DEF Frames
  <1>3. Len(f.text) \in Nat BY <1>2, LenProperties
  <1>4. \A n : [f EXCEPT !.i = @ + n] = Placed(f, f.i + n, f.from)
    BY <1>1 DEF Frames, Placed
  <1>5. [f EXCEPT !.i = @ + 1] = Placed(f, f.i + 1, f.from)
    BY <1>1 DEF Frames, Placed
  <1>6. [[f EXCEPT !.i = @ + 1] EXCEPT !.from = f.i + 1] = Placed(f, f.i + 1, f.i + 1)
    BY <1>1 DEF Frames, Placed
  <1>7. [f EXCEPT !.from = f.i] = Placed(f, f.i, f.i)
    BY <1>1 DEF Frames, Placed
  <1> QED BY <1>1, <1>2, <1>3, <1>4, <1>5, <1>6, <1>7

\* Within the text on top the reader is between two characters, and behind its
\* quote and tail at w.
InText(w, key, o) ==
  /\ Sunk /\ Under \in Seq(GoodFrames) /\ Top \in GoodFrames /\ TextOK(Top)
  /\ Awaits(Under, w) /\ Settled(w) = w /\ w /= Json!Bad
  /\ key \in BOOLEAN /\ Sent = Json!In("string", o, key, <<>>)
  /\ Json!Reads(Ended(key, o), Top.tail) = w

LEMMA AwaitsSettled ==
  ASSUME NEW s, NEW w, Awaits(s, w)
  PROVE  Settled(w) = w /\ w /= Json!Bad
  <1>1. PICK o : w = Json!At(Expects(s[Len(s)]), Inside(s[Len(s)], o[Len(s)])) BY DEF Awaits
  <1>2. Expects(s[Len(s)]) /= "scalar" /\ Expects(s[Len(s)]) /= "bad" BY DEF Expects
  <1> DEFINE q == Expects(s[Len(s)])
             p == Inside(s[Len(s)], o[Len(s)])
  <1>3. w = Json!At(q, p) /\ q /= "scalar" /\ q /= "bad" BY <1>1, <1>2
  <1> HIDE DEF q, p
  <1>4. w.q = q BY <1>3, AtIs
  <1> QED BY <1>3, <1>4, NotBad DEF Settled

LEMMA InTextLemma ==
  ASSUME IInv, pc = "busy", Top.kind \in Texts \ {"array"}
  PROVE  \E w, key, o : InText(w, key, o)
  <1>1. /\ Sunk /\ Under \in Seq(GoodFrames) /\ Top \in GoodFrames
        /\ TextOK(Top) /\ \E w : Awaits(Under, w) /\ Writing(Top, Sent, w)
    BY Innermost
  <1>2. PICK w : Awaits(Under, w) /\ Writing(Top, Sent, w) BY <1>1
  <1>3. PICK key, o : /\ key \in BOOLEAN /\ Sent = Json!In("string", o, key, <<>>)
                      /\ Json!Reads(Ended(key, o), Top.tail) = w
    BY <1>2 DEF Writing, WritingString
  <1>4. Settled(w) = w /\ w /= Json!Bad BY <1>2, AwaitsSettled
  <1>5. InText(w, key, o) BY <1>1, <1>2, <1>3, <1>4 DEF InText
  <1> QED BY <1>5

\* The text goes on as g.
LEMMA TextGoes ==
  ASSUME NEW w, NEW key, NEW o, InText(w, key, o),
         NEW g, TextOK(g), g.kind /= "array", g.tail = Top.tail
  PROVE  Running(Replace(g), Json!In("string", o, key, <<>>))
  <1> DEFINE u == Json!In("string", o, key, <<>>)
             r == Under
  <1>1. Json!Reads(Ended(key, o), g.tail) = w /\ key \in BOOLEAN BY DEF InText
  <1>2. WritingString(g, u, w) BY <1>1 DEF WritingString
  <1>3. Writing(g, u, w) BY <1>2 DEF Writing
  <1>4. r \in Seq(GoodFrames) /\ Awaits(r, w) BY DEF InText
  <1>5. Replace(g) = Append(r, g) BY DEF Replace
  <1> HIDE DEF u, r
  <1>6. Running(Append(r, g), u) BY <1>3, <1>4 DEF Running
  <1> QED BY <1>5, <1>6 DEF u

\* Nothing is written.
LEMMA Unwritten ==
  ASSUME IInv, pc = "busy", NEW s, Go(s), out' = out, Keep, Running(s, Sent)
  PROVE  IInv'
  <1>1. Sent' = Sent BY DEF Sent
  <1>2. out \in Seq(Byte) /\ Len(out) <= cap BY DEF IInv
  <1>3. Wrote(s, Sent) BY <1>1, <1>2 DEF Wrote, Go
  <1> QED BY <1>3, Preserves

\* What is to be copied, and where it ends.
LEMMA RunReads ==
  ASSUME NEW w, NEW key, NEW o, InText(w, key, o), Top.kind \in Strs
  PROVE  /\ Run \in Seq(Byte)
         /\ Json!Reads(Sent, Run) = Json!In("string", o, key, Json!Utf8Run(Top.text)[Top.i])
  <1> DEFINE b == Top.text
             x == Top.from
             y == Top.i
  <1>1. /\ b \in Seq(Byte) /\ x \in Nat /\ y \in Nat /\ x <= y /\ y <= Len(b)
    BY FrameTypes DEF InText
  <1>2. /\ Json!IsUtf8(b) /\ Json!Utf8Run(b)[x] = <<>>
        /\ \A k \in 1..Len(b) : x < k /\ k <= y => ~Escaped(b[k])
    BY DEF InText, TextOK
  <1>3. Run = SubSeq(b, x + 1, y) BY DEF Run
  <1>4. Sent = Json!In("string", o, key, <<>>) /\ key \in BOOLEAN BY DEF InText
  <1> HIDE DEF b, x, y
  <1>5. /\ SubSeq(b, x + 1, y) \in Seq(Byte)
        /\ Json!Reads(Json!In("string", o, key, <<>>), SubSeq(b, x + 1, y))
             = Json!In("string", o, key, Json!Utf8Run(b)[y])
    BY <1>1, <1>2, <1>4, StretchReads
  <1> QED BY <1>3, <1>4, <1>5 DEF b, y

LEMMA EscapeStepStep ==
  ASSUME IInv, EscapeStep
  PROVE  IInv'
  <1> DEFINE f == Top
             i1 == f.i + 1
             b == f.text[i1]
             next == [f EXCEPT !.i = @ + 1]
             past == [next EXCEPT !.from = i1]
             U == Json!Utf8Run(f.text)
  <1>1. pc = "busy" /\ f.kind \in Strs /\ f.i < Len(f.text) /\ Keep BY DEF EscapeStep, Within
  <1>2. PICK w, key, o : InText(w, key, o)
    <2>1. f.kind \in Texts \ {"array"} BY <1>1 DEF Texts, Strs
    <2> QED BY <1>1, <2>1, InTextLemma
  <1>3. /\ f \in GoodFrames /\ TextOK(f) /\ Sunk /\ key \in BOOLEAN
        /\ Sent = Json!In("string", o, key, <<>>)
    BY <1>2 DEF InText
  <1>4. /\ f.text \in Seq(Byte) /\ f.i \in Nat /\ f.from \in Nat /\ Len(f.text) \in Nat
        /\ f.from <= f.i
    BY <1>3, FrameTypes
  <1>5. /\ Json!IsUtf8(f.text) /\ U[f.from] = <<>> /\ ~f.open
        /\ \A k \in 1..Len(f.text) : f.from < k /\ k <= f.i => ~Escaped(f.text[k])
    BY <1>1, <1>3 DEF TextOK
  <1>6. i1 \in Nat /\ i1 \in 1..Len(f.text) /\ f.from <= i1 /\ i1 <= Len(f.text) /\ i1 - 1 = f.i
        /\ \A k \in 1..Len(f.text) : k <= i1 => k <= f.i \/ k = i1
    BY <1>1, <1>4
  <1>7. b \in Byte BY <1>4, <1>6, ElementOfSeq
  <1>8. f.kind /= "array" /\ f.kind /= "quoted" /\ f.kind \in Texts BY <1>1 DEF Texts, Strs
  <1>9. f.kind /= "str" => f.tail = <<>> BY <1>3 DEF TextOK
  <1>10. IF ~Escaped(b) THEN Go(Replace(next)) /\ out' = out
         ELSE IF Escape(b) = UU
              THEN Put(Run, <<BS, UU, 48, 48>>, Hex(b), SinkError, Go(Replace(past)))
              ELSE Put(Run, <<BS, Escape(b)>>, <<>>, SinkError, Go(Replace(past)))
    BY DEF EscapeStep
  <1>11. next = Placed(f, i1, f.from) BY <1>3, FrameTypes
  <1>12. past = Placed(f, i1, i1) BY <1>3, FrameTypes
  <1>13. i1 <= i1 BY <1>4
  <1> HIDE DEF next, past, i1, f
  <1>14. CASE ~Escaped(b)
    <2>1. /\ next \in GoodFrames /\ next.i = i1 /\ next.from = f.from /\ next.kind = f.kind
          /\ next.text = f.text /\ next.tail = f.tail /\ next.open = f.open
      BY <1>3, <1>4, <1>6, <1>11, Moved
    <2>2. \A k \in 1..Len(f.text) : f.from < k /\ k <= i1 => ~Escaped(f.text[k])
      BY <1>5, <1>6, <1>14
    <2>3. TextOK(next) BY <1>5, <1>8, <1>9, <2>1, <2>2 DEF TextOK
    <2>4. next.tail = Top.tail BY <2>1 DEF f
    <2> HIDE DEF U
    <2>5. Running(Replace(next), Sent) BY <1>2, <1>3, <1>8, <2>1, <2>3, <2>4, TextGoes
    <2>6. Go(Replace(next)) /\ out' = out BY <1>10, <1>14
    <2> DEFINE s == Replace(next)
    <2> HIDE DEF s
    <2> QED BY <1>1, <2>5, <2>6, Unwritten DEF s
  <1>15. CASE Escaped(b)
    <2>1. /\ past \in GoodFrames /\ past.i = i1 /\ past.from = i1 /\ past.kind = f.kind
          /\ past.text = f.text /\ past.tail = f.tail /\ past.open = f.open
      BY <1>3, <1>6, <1>12, <1>13, Moved
    <2>2. U[f.i] = <<>> /\ U[i1] = <<>>
      <3>1. b < 128 BY <1>7, <1>15, EscapedLemma
      <3>2. \A k \in 1..Len(f.text) : f.text[k] < 128 => U[k - 1] = <<>> /\ U[k] = <<>>
        BY <1>4, <1>5, Utf8Whole
      <3> HIDE DEF U
      <3>3. U[i1 - 1] = <<>> /\ U[i1] = <<>> BY <1>6, <3>1, <3>2
      <3> QED BY <1>6, <3>3
    <2>3. \A k \in 1..Len(f.text) : ~(i1 < k /\ k <= i1) BY <1>6
    <2>4. TextOK(past) BY <1>5, <1>8, <1>9, <2>1, <2>2, <2>3 DEF TextOK
    <2>5. past.tail = Top.tail BY <2>1 DEF f
    <2> DEFINE u == Json!In("string", o, key, <<>>)
               s == Replace(past)
    <2>6. Running(s, u) BY <1>2, <1>8, <2>1, <2>4, <2>5, TextGoes
    <2>7. Run \in Seq(Byte) /\ Json!Reads(Sent, Run) = u
      <3>1. Top.kind \in Strs BY <1>1 DEF f
      <3>2. /\ Run \in Seq(Byte)
            /\ Json!Reads(Sent, Run) = Json!In("string", o, key, Json!Utf8Run(Top.text)[Top.i])
        BY <1>2, <3>1, RunReads
      <3>3. Json!Utf8Run(Top.text)[Top.i] = <<>> BY <2>2 DEF f
      <3> QED BY <3>2, <3>3
    <2>8. u /= Json!Bad BY InNotBad
    <2>9. CASE Escape(b) = UU
      <3> DEFINE x == <<BS, UU, 48, 48>>
                 h == Hex(b)
      <3>1. x \in Seq(Byte)
        <4>1. BS \in Byte /\ UU \in Byte /\ 48 \in Byte BY DEF BS, UU, Byte
        <4> QED BY <4>1
      <3>2. h \in Seq(Byte) BY <1>7, HexLemma
      <3>3. Json!Reads(Json!Reads(u, x), h) = u BY <1>3, <1>7, UnicodeReads
      <3>4. Put(Run, x, h, SinkError, Go(s)) BY <1>10, <1>15, <2>9
      <3> HIDE DEF x, h, u, s
      <3>5. u = Json!Reads(Json!Reads(Json!Reads(Sent, Run), x), h) BY <2>7, <3>3
      <3>6. Broken \/ Wrote(s, u) BY <1>1, <1>3, <2>7, <2>8, <3>1, <3>2, <3>4, <3>5, PutThree
      <3> QED BY <1>1, <2>6, <3>6, Preserves
    <2>10. CASE Escape(b) /= UU
      <3> DEFINE x == <<BS, Escape(b)>>
                 h == <<>>
      <3>1. x \in Seq(Byte) /\ Json!Reads(u, x) = u BY <1>3, <1>7, <1>15, <2>10, EscapeReads
      <3>2. h \in Seq(Byte) BY EmptySeq
      <3>3. Json!Reads(u, h) = u BY ReadsNone
      <3>4. Put(Run, x, h, SinkError, Go(s)) BY <1>10, <1>15, <2>10
      <3> HIDE DEF x, h, u, s
      <3>5. u = Json!Reads(Json!Reads(Json!Reads(Sent, Run), x), h) BY <2>7, <3>1, <3>3
      <3>6. Broken \/ Wrote(s, u) BY <1>1, <1>3, <2>7, <2>8, <3>1, <3>2, <3>4, <3>5, PutThree
      <3> QED BY <1>1, <2>6, <3>6, Preserves
    <2> QED BY <2>9, <2>10
  <1> QED BY <1>14, <1>15

\* The text ends: b, the quote and what follows are written.
LEMMA TextEnds ==
  ASSUME IInv, pc = "busy", NEW w, NEW key, NEW o, InText(w, key, o), Keep,
         NEW b \in Seq(Byte), Json!Reads(Sent, b) = Json!In("string", o, key, <<>>),
         NEW e, NEW t, t = Top.tail, NEW x, x = <<QU>>,
         \/ Put(b, x, t, e, Go(Under))
         \/ t = <<>> /\ Put(x, <<>>, <<>>, e, Go(Under)) /\ b = <<>>
  PROVE  IInv'
  <1> DEFINE r == Under
             u == Json!In("string", o, key, <<>>)
             z == <<>>
  <1>1. Sunk /\ t \in Seq(Byte) /\ key \in BOOLEAN /\ Awaits(r, w) /\ Settled(w) = w /\ w /= Json!Bad
    BY FrameTypes DEF InText
  <1>2. x \in Seq(Byte) /\ 34 \in Byte /\ QU = 34 BY Marks, One
  <1>3. Json!Reads(u, x) = Ended(key, o)
    <2>1. Json!Read(u, 34) = Ended(key, o) BY <1>1, StringReads
    <2>2. x = <<34>> BY <1>2
    <2> HIDE DEF u
    <2> QED BY <2>1, <2>2, ReadsOne
  <1>4. Json!Reads(Ended(key, o), t) = w BY DEF InText
  <1>5. Running(r, w) BY <1>1 DEF Running
  <1>6. z \in Seq(Byte) /\ \A s : Json!Reads(s, z) = s BY EmptySeq, ReadsNone
  <1>7. Broken \/ Wrote(r, w)
    <2>1. CASE Put(b, x, t, e, Go(Under))
      <3>1. w = Json!Reads(Json!Reads(Json!Reads(Sent, b), x), t) BY <1>3, <1>4
      <3>2. Put(b, x, t, e, Go(r)) BY <2>1
      <3> HIDE DEF r
      <3> QED BY <1>1, <1>2, <3>1, <3>2, PutThree
    <2>2. CASE t = <<>> /\ Put(x, <<>>, <<>>, e, Go(Under)) /\ b = <<>>
      <3>1. Json!Reads(Sent, x) = w BY <1>3, <1>4, <1>6, <2>2
      <3>2. w = Json!Reads(Json!Reads(Json!Reads(Sent, x), z), z) BY <1>6, <3>1
      <3>3. Put(x, z, z, e, Go(r)) BY <2>2
      <3> HIDE DEF r, z
      <3> QED BY <1>1, <1>2, <1>6, <3>2, <3>3, PutThree
    <2> QED BY <2>1, <2>2
  <1> HIDE DEF r
  <1> QED BY <1>5, <1>7, Preserves

\* At the end of a text what was not copied yet ends with a whole character.
LEMMA RunWhole ==
  ASSUME NEW w, NEW key, NEW o, InText(w, key, o), Top.kind \in Strs, Top.i = Len(Top.text)
  PROVE  /\ Run \in Seq(Byte) /\ Json!Reads(Sent, Run) = Json!In("string", o, key, <<>>)
         /\ Json!Utf8Run(Top.text)[Top.i] = <<>>
  <1>1. Json!Utf8Run(Top.text)[Top.i] = <<>>
    <2>1. Json!IsUtf8(Top.text) BY DEF InText, TextOK
    <2> QED BY <2>1 DEF Json!IsUtf8
  <1>2. /\ Run \in Seq(Byte)
        /\ Json!Reads(Sent, Run) = Json!In("string", o, key, Json!Utf8Run(Top.text)[Top.i])
    BY RunReads
  <1> QED BY <1>1, <1>2

LEMMA EndStrStep ==
  ASSUME IInv, EndStr
  PROVE  IInv'
  <1>1. pc = "busy" /\ Top.kind = "str" /\ Top.i = Len(Top.text) /\ Keep BY DEF EndStr, AtEnd
  <1>2. Top.kind \in Strs /\ Top.kind \in Texts \ {"array"} BY <1>1 DEF Strs, Texts
  <1>3. PICK w, key, o : InText(w, key, o) BY <1>1, <1>2, InTextLemma
  <1>4. Run \in Seq(Byte) /\ Json!Reads(Sent, Run) = Json!In("string", o, key, <<>>)
    BY <1>1, <1>2, <1>3, RunWhole
  <1> DEFINE t == Top.tail
             x == <<QU>>
             b == Run
  <1>5. Put(b, x, t, "Writer", Go(Under)) BY DEF EndStr
  <1>6. t = Top.tail /\ x = <<QU>> /\ b \in Seq(Byte) /\ Json!Reads(Sent, b) = Json!In("string", o, key, <<>>)
    BY <1>4
  <1> HIDE DEF t, x, b
  <1> QED BY <1>1, <1>3, <1>5, <1>6, TextEnds

LEMMA EndCollectStep ==
  ASSUME IInv, EndCollect
  PROVE  IInv'
  <1>1. pc = "busy" /\ Top.kind = "collect" /\ Keep BY DEF EndCollect, AtEnd
  <1>2. Top.kind \in Texts \ {"array"} BY <1>1 DEF Strs, Texts
  <1>3. PICK w, key, o : InText(w, key, o) BY <1>1, <1>2, InTextLemma
  <1>4. Top.tail = <<>> BY <1>1, <1>3 DEF InText, TextOK
  <1>5. Sent = Json!In("string", o, key, <<>>) BY <1>3 DEF InText
  <1> DEFINE t == Top.tail
             x == <<QU>>
             b == <<>>
  <1>6. b \in Seq(Byte) /\ Json!Reads(Sent, b) = Json!In("string", o, key, <<>>)
    BY <1>5, EmptySeq, ReadsNone
  <1>7. t = <<>> /\ Put(x, <<>>, <<>>, "Writer", Go(Under)) /\ b = <<>> BY <1>4 DEF EndCollect
  <1>8. t = Top.tail /\ x = <<QU>> OBVIOUS
  <1> HIDE DEF t, x, b
  <1> QED BY <1>1, <1>3, <1>6, <1>7, <1>8, TextEnds

\* A number or a boolean in quotes has no character that a string escapes.
LEMMA ScalarPlain ==
  ASSUME NEW c \in Json!Scalars
  PROVE  Plain(c)
  BY DEF Json!Scalars, Plain, Byte

LEMMA EndQuotedStep ==
  ASSUME IInv, EndQuoted
  PROVE  IInv'
  <1> DEFINE t == <<>>
             x == <<QU>>
             b == Top.text
  <1>1. pc = "busy" /\ Top.kind = "quoted" /\ Keep /\ Put(b, x, t, "Writer", Go(Under))
    BY DEF EndQuoted
  <1>2. Top.kind \in Texts \ {"array"} BY <1>1 DEF Strs, Texts
  <1>3. PICK w, key, o : InText(w, key, o) BY <1>1, <1>2, InTextLemma
  <1>4. t = Top.tail /\ x = <<QU>> BY <1>1, <1>3 DEF InText, TextOK
  <1>5. b \in Seq(Byte) BY <1>3, FrameTypes DEF InText
  <1>6. \A k \in 1..Len(b) : Plain(b[k])
    <2>1. \A k \in 1..Len(b) : b[k] \in Json!Scalars BY <1>1, <1>3 DEF InText, TextOK
    <2> QED BY <2>1, ScalarPlain
  <1>7. Sent = Json!In("string", o, key, <<>>) /\ key \in BOOLEAN BY <1>3 DEF InText
  <1> HIDE DEF t, x, b
  <1>8. Json!Reads(Sent, b) = Json!In("string", o, key, <<>>) BY <1>5, <1>6, <1>7, PlainReads
  <1> QED BY <1>1, <1>3, <1>4, <1>5, <1>8, TextEnds

LEMMA EndPieceStep ==
  ASSUME IInv, EndPiece
  PROVE  IInv'
  <1> DEFINE f == Top
             g == [Top EXCEPT !.from = Top.i]
             z == <<>>
             b == Run
  <1>1. pc = "busy" /\ f.kind = "collect" /\ f.i = Len(f.text) /\ Keep BY DEF EndPiece, AtEnd
  <1>2. f.kind \in Strs /\ f.kind \in Texts \ {"array"} BY <1>1 DEF Strs, Texts
  <1>3. PICK w, key, o : InText(w, key, o) BY <1>1, <1>2, InTextLemma
  <1> DEFINE u == Json!In("string", o, key, <<>>)
  <1>4. b \in Seq(Byte) /\ Json!Reads(Sent, b) = u /\ Json!Utf8Run(f.text)[f.i] = <<>>
    BY <1>1, <1>2, <1>3, RunWhole
  <1>5. f \in GoodFrames /\ TextOK(f) /\ Sunk BY <1>3 DEF InText
  <1>6. Put(b, z, z, "FormatError", Go(Replace(g))) BY DEF EndPiece
  <1>7. g = Placed(f, f.i, f.i) /\ f.i \in Nat /\ f.i <= f.i /\ f.i <= Len(f.text)
    <2>1. g = Placed(f, f.i, f.i) BY <1>5, FrameTypes
    <2>2. f.i \in Nat /\ f.i <= Len(f.text) BY <1>5, FrameTypes
    <2>3. f.i <= f.i BY <2>2
    <2> QED BY <2>1, <2>2, <2>3
  <1>8. f.tail = Top.tail OBVIOUS
  <1> HIDE DEF f, g, b
  <1>9. /\ g \in GoodFrames /\ g.i = f.i /\ g.from = f.i /\ g.kind = f.kind /\ g.text = f.text
        /\ g.tail = f.tail /\ g.open = f.open
    BY <1>5, <1>7, Moved
  <1>10. TextOK(g)
    <2>1. Json!IsUtf8(f.text) /\ ~f.open /\ f.tail = <<>> BY <1>1, <1>2, <1>5 DEF TextOK
    <2>2. \A k \in 1..Len(f.text) : ~(f.i < k /\ k <= f.i) BY <1>7
    <2>3. f.kind \in Texts /\ f.kind \in Strs /\ f.kind /= "quoted" BY <1>1, <1>2
    <2> QED BY <1>4, <1>9, <2>1, <2>2, <2>3 DEF TextOK
  <1>11. g.kind /= "array" /\ g.tail = Top.tail BY <1>1, <1>8, <1>9
  <1> DEFINE s == Replace(g)
  <1>12. Running(s, u) BY <1>3, <1>10, <1>11, TextGoes
  <1>13. u /= Json!Bad BY InNotBad
  <1>14. Put(b, z, z, "FormatError", Go(s)) BY <1>6
  <1> HIDE DEF s, u
  <1>15. z \in Seq(Byte) /\ Json!Reads(u, z) = u BY EmptySeq, ReadsNone
  <1> HIDE DEF z
  <1>16. u = Json!Reads(Json!Reads(Json!Reads(Sent, b), z), z) BY <1>4, <1>15
  <1>17. Broken \/ Wrote(s, u) BY <1>1, <1>4, <1>5, <1>13, <1>14, <1>15, <1>16, PutThree
  <1> QED BY <1>1, <1>12, <1>17, Preserves

LEMMA NewPiece ==
  ASSUME NEW f, TextOK(f), f.kind = "collect", NEW s \in Seq(Byte), Json!IsUtf8(s),
         NEW g, g = [f EXCEPT !.text = s, !.i = 0, !.from = 0]
  PROVE  TextOK(g) /\ g.kind = f.kind /\ g.tail = f.tail
  <1>1. f \in Frames /\ ~f.open /\ f.tail = <<>> BY DEF TextOK, GoodFrames
  <1>2. g \in Frames BY <1>1 DEF Frames
  <1>3. /\ g.kind = f.kind /\ g.tail = f.tail /\ g.text = s /\ g.i = 0 /\ g.from = 0 /\ g.open = f.open
    BY <1>1 DEF Frames
  <1>4. Len(s) \in Nat BY LenProperties
  <1>5. g \in GoodFrames
    <2>1. 0 <= Len(s) /\ 0 <= 0 BY <1>4
    <2> QED BY <1>2, <1>3, <2>1 DEF GoodFrames
  <1>6. Json!Utf8Run(s)[0] = <<>> BY <1>4, Utf8RunLemma
  <1>7. \A k \in 1..Len(s) : ~(0 < k /\ k <= 0) BY <1>4
  <1>8. f.kind \in Texts /\ f.kind \in Strs BY DEF Texts, Strs
  <1> QED BY <1>1, <1>3, <1>5, <1>6, <1>7, <1>8 DEF TextOK

LEMMA NextPieceStep ==
  ASSUME IInv, NextPiece
  PROVE  IInv'
  <1> DEFINE f == Top
  <1>1. pc = "busy" /\ f.kind = "collect" /\ Keep /\ out' = out BY DEF NextPiece, AtEnd
  <1>2. PICK p \in Pieces : Go(Replace([Top EXCEPT !.text = p, !.i = 0, !.from = 0])) BY DEF NextPiece
  <1> DEFINE g == [f EXCEPT !.text = p, !.i = 0, !.from = 0]
             s == Replace(g)
  <1>3. p \in Seq(Byte) /\ Json!IsUtf8(p) BY InputAssumption, TextAssumption
  <1>4. f.kind \in Texts \ {"array"} BY <1>1 DEF Strs, Texts
  <1>5. PICK w, key, o : InText(w, key, o) BY <1>1, <1>4, InTextLemma
  <1>6. TextOK(f) /\ Sent = Json!In("string", o, key, <<>>) BY <1>5 DEF InText
  <1>7. TextOK(g) /\ g.kind = f.kind /\ g.tail = f.tail BY <1>1, <1>3, <1>6, NewPiece
  <1>8. Go(s) BY <1>2
  <1>9. g.tail = Top.tail /\ g.kind /= "array" BY <1>1, <1>7
  <1> HIDE DEF g
  <1>10. Running(s, Sent) BY <1>5, <1>6, <1>7, <1>9, TextGoes
  <1> HIDE DEF s
  <1> QED BY <1>1, <1>8, <1>10, Unwritten

-----------------------------------------------------------------------------
(* Bytes *)

LEMMA LetterPlain ==
  ASSUME NEW n \in Nat, n < 64
  PROVE  Plain(Letter(n))
  <1>1. Letter(n) = IF n < 26 THEN 65 + n ELSE IF n < 52 THEN 71 + n ELSE IF n < 62 THEN n - 4
                    ELSE IF n = 62 THEN 43 ELSE 47
    BY DEF Letter
  <1>2. Letter(n) \in Nat /\ 43 <= Letter(n) /\ Letter(n) < 128 /\ Letter(n) /= 92 BY <1>1
  <1> QED BY <1>2 DEF Plain, Byte

LEMMA Codes ==
  ASSUME NEW a \in Byte, NEW b \in Byte, NEW c \in Byte
  PROVE  /\ a \div 4 \in Nat /\ a \div 4 < 64
         /\ (a % 4) * 16 + b \div 16 \in Nat /\ (a % 4) * 16 + b \div 16 < 64
         /\ (b % 16) * 4 + c \div 64 \in Nat /\ (b % 16) * 4 + c \div 64 < 64
         /\ c % 64 \in Nat /\ c % 64 < 64
  <1>1. a \in Nat /\ a < 256 /\ b \in Nat /\ b < 256 /\ c \in Nat /\ c < 256 BY DEF Byte
  <1>2. a \div 4 \in Nat /\ a \div 4 < 64 BY <1>1
  <1>3. a % 4 \in Nat /\ a % 4 <= 3 /\ b \div 16 \in Nat /\ b \div 16 <= 15 BY <1>1
  <1>4. b % 16 \in Nat /\ b % 16 <= 15 /\ c \div 64 \in Nat /\ c \div 64 <= 3 BY <1>1
  <1>5. c % 64 \in Nat /\ c % 64 < 64 BY <1>1
  <1> QED BY <1>2, <1>3, <1>4, <1>5

LEMMA Base64Plain ==
  ASSUME NEW s \in Seq(Byte), Len(s) \in {1, 2, 3}
  PROVE  Base64(s) \in Seq(Byte) /\ \A k \in 1..Len(Base64(s)) : Plain(Base64(s)[k])
  <1> DEFINE a == s[1]
             b == IF Len(s) > 1 THEN s[2] ELSE 0
             c == IF Len(s) > 2 THEN s[3] ELSE 0
             w == a \div 4
             x == (a % 4) * 16 + b \div 16
             y == (b % 16) * 4 + c \div 64
             z == c % 64
             codes == <<w, x, y, z>>
             n == Len(s) + 1
  <1>1. Base64(s) = [k \in 1..n |-> Letter(codes[k])] BY DEF Base64
  <1>2. a \in Byte /\ b \in Byte /\ c \in Byte
    <2>1. a \in Byte BY ElementOfSeq
    <2>2. Len(s) > 1 => s[2] \in Byte BY ElementOfSeq
    <2>3. Len(s) > 2 => s[3] \in Byte BY ElementOfSeq
    <2>4. 0 \in Byte BY DEF Byte
    <2> QED BY <2>1, <2>2, <2>3, <2>4
  <1>3. n \in Nat /\ n <= 4
    <2> DEFINE m == Len(s)
    <2>1. m \in {1, 2, 3} /\ n = m + 1 OBVIOUS
    <2> HIDE DEF m, n
    <2> QED BY <2>1
  <1> HIDE DEF a, b, c, n
  <1>4. /\ w \in Nat /\ w < 64 /\ x \in Nat /\ x < 64 /\ y \in Nat /\ y < 64 /\ z \in Nat /\ z < 64
    BY <1>2, Codes
  <1> HIDE DEF w, x, y, z
  <1>5. \A k \in 1..n : codes[k] \in {w, x, y, z} BY <1>3
  <1> HIDE DEF codes
  <1>6. \A k \in 1..n : Plain(Letter(codes[k])) BY <1>4, <1>5, LetterPlain
  <1> DEFINE f == [k \in 1..n |-> Letter(codes[k])]
  <1>7. \A k \in 1..n : f[k] \in Byte /\ Plain(f[k]) BY <1>6 DEF Plain
  <1>8. f \in Seq(Byte) /\ Len(f) = n
    <2>1. f \in [1..n -> Byte] BY <1>7
    <2> HIDE DEF f
    <2> QED BY <1>3, <2>1
  <1> HIDE DEF f
  <1>9. Base64(s) = f BY <1>1 DEF f
  <1> QED BY <1>7, <1>8, <1>9

\* A step that writes x, of the alphabet of the encoder, for n bytes more.
LEMMA EncodedStep ==
  ASSUME IInv, pc = "busy", Top.kind \in {"hex", "base64"}, Keep,
         NEW n \in Nat, Top.i + n <= Len(Top.text),
         NEW x \in Seq(Byte), \A k \in 1..Len(x) : Plain(x[k]),
         Put(x, <<>>, <<>>, "Writer", Go(Replace([Top EXCEPT !.i = @ + n])))
  PROVE  IInv'
  <1> DEFINE f == Top
             g == [Top EXCEPT !.i = @ + n]
             z == <<>>
             i1 == f.i + n
             y == f.from
  <1>1. f.kind \in Texts \ {"array"} /\ f.kind \notin Strs /\ f.kind \notin {"str", "quoted", "array"}
    BY DEF Strs, Texts, ByteTexts
  <1>2. PICK w, key, o : InText(w, key, o) BY <1>1, InTextLemma
  <1> DEFINE u == Json!In("string", o, key, <<>>)
  <1>3. f \in GoodFrames /\ TextOK(f) /\ Sunk /\ Sent = u /\ key \in BOOLEAN BY <1>2 DEF InText
  <1>4. Put(x, z, z, "Writer", Go(Replace(g))) OBVIOUS
  <1>5. g = Placed(f, i1, y) BY <1>3, FrameTypes
  <1>6. i1 \in Nat /\ y \in Nat /\ y <= i1 /\ i1 <= Len(f.text)
    <2>1. f.i \in Nat /\ y \in Nat /\ y <= f.i BY <1>3, FrameTypes
    <2> DEFINE j == f.i
    <2>2. j \in Nat /\ y <= j /\ j + n <= Len(f.text) /\ i1 = j + n BY <2>1
    <2> HIDE DEF j, y, i1
    <2> QED BY <2>1, <2>2
  <1>7. f.tail = Top.tail OBVIOUS
  <1> HIDE DEF f, g, i1, y
  <1>8. /\ g \in GoodFrames /\ g.i = i1 /\ g.from = y /\ g.kind = f.kind /\ g.text = f.text
        /\ g.tail = f.tail /\ g.open = f.open
    BY <1>3, <1>5, <1>6, Moved
  <1>9. TextOK(g) BY <1>1, <1>3, <1>8 DEF TextOK
  <1>10. g.kind /= "array" /\ g.tail = Top.tail BY <1>1, <1>7, <1>8
  <1> DEFINE s == Replace(g)
  <1>11. Running(s, u) BY <1>2, <1>9, <1>10, TextGoes
  <1>12. u /= Json!Bad /\ Json!Reads(u, x) = u BY <1>3, InNotBad, PlainReads
  <1>13. Put(x, z, z, "Writer", Go(s)) BY <1>4
  <1> HIDE DEF s, u
  <1>14. z \in Seq(Byte) /\ Json!Reads(u, z) = u BY EmptySeq, ReadsNone
  <1> HIDE DEF z
  <1>15. u = Json!Reads(Json!Reads(Json!Reads(Sent, x), z), z) BY <1>3, <1>12, <1>14
  <1>16. Broken \/ Wrote(s, u) BY <1>3, <1>12, <1>13, <1>14, <1>15, PutThree
  <1> QED BY <1>11, <1>16, Preserves

LEMMA DecimalReads ==
  ASSUME NEW b \in Byte
  PROVE  /\ Decimal(b) \in Seq(Byte) /\ Decimal(b) /= <<>>
         /\ \A k \in 1..Len(Decimal(b)) : Decimal(b)[k] \in Json!Scalars
  <1>1. b \in Nat /\ b < 256 BY DEF Byte
  <1> DEFINE D == 48..57
             x == b \div 10
             y == b % 10
             h == b \div 100
             m == (b \div 10) % 10
  <1>2. D \subseteq Byte /\ D \subseteq Json!Scalars BY DEF Byte, Json!Scalars
  <1>3. 48 + y \in D BY <1>1
  <1>4. b < 10 => 48 + b \in D BY <1>1
  <1>5. b < 100 => 48 + x \in D BY <1>1
  <1>6. 48 + h \in D BY <1>1
  <1>7. 48 + m \in D BY <1>1
  <1>8. Decimal(b) = IF b < 10 THEN <<48 + b>> ELSE IF b < 100 THEN <<48 + x, 48 + y>>
                     ELSE <<48 + h, 48 + m, 48 + y>>
    BY DEF Decimal
  <1> HIDE DEF D, x, y, h, m
  <1>9. /\ Decimal(b) \in Seq(D) /\ Len(Decimal(b)) \in {1, 2, 3}
        /\ \A k \in 1..Len(Decimal(b)) : Decimal(b)[k] \in D
    <2>1. CASE b < 10
      <3> DEFINE v == 48 + b
      <3>1. v \in D BY <1>4, <2>1
      <3>2. Decimal(b) = <<v>> BY <1>8, <2>1
      <3> HIDE DEF v
      <3> QED BY <3>1, <3>2
    <2>2. CASE ~(b < 10) /\ b < 100
      <3> DEFINE v == 48 + x
                 w == 48 + y
      <3>1. v \in D /\ w \in D BY <1>3, <1>5, <2>2
      <3>2. Decimal(b) = <<v, w>> BY <1>8, <2>2
      <3> HIDE DEF v, w
      <3> QED BY <3>1, <3>2
    <2>3. CASE ~(b < 10) /\ ~(b < 100)
      <3> DEFINE u == 48 + h
                 v == 48 + m
                 w == 48 + y
      <3>1. u \in D /\ v \in D /\ w \in D BY <1>3, <1>6, <1>7
      <3>2. Decimal(b) = <<u, v, w>> BY <1>8, <2>3
      <3> HIDE DEF u, v, w
      <3> QED BY <3>1, <3>2
    <2> QED BY <2>1, <2>2, <2>3
  <1>10. Decimal(b) \in Seq(Byte) BY <1>2, <1>9
  <1>11. Decimal(b) /= <<>>
    <2> DEFINE e == Decimal(b)
    <2>1. Len(e) \in {1, 2, 3} BY <1>9
    <2> HIDE DEF e
    <2>2. e /= <<>> BY <2>1, EmptySeq
    <2> QED BY <2>2 DEF e
  <1> QED BY <1>2, <1>9, <1>10, <1>11

\* Within an array the reader is in its brackets, and behind them at w.
InArray(w) ==
  /\ Sunk /\ Under \in Seq(GoodFrames) /\ Top \in GoodFrames /\ TextOK(Top)
  /\ Awaits(Under, w) /\ Settled(w) = w /\ w /= Json!Bad /\ WritingArray(Top, Sent, w)

LEMMA InArrayLemma ==
  ASSUME IInv, pc = "busy", Top.kind = "array"
  PROVE  \E w : InArray(w)
  <1>1. Top.kind \in Texts BY DEF Texts, ByteTexts
  <1>2. /\ Sunk /\ Under \in Seq(GoodFrames) /\ Top \in GoodFrames
        /\ TextOK(Top) /\ \E w : Awaits(Under, w) /\ Writing(Top, Sent, w)
    BY <1>1, Innermost
  <1>3. PICK w : Awaits(Under, w) /\ Writing(Top, Sent, w) BY <1>2
  <1>4. Settled(w) = w /\ w /= Json!Bad BY <1>3, AwaitsSettled
  <1>5. WritingArray(Top, Sent, w) BY <1>3 DEF Writing
  <1>6. InArray(w) BY <1>2, <1>3, <1>4, <1>5 DEF InArray
  <1> QED BY <1>6

\* Behind the bracket, or a comma, an element may follow.
LEMMA FirstElement ==
  ASSUME NEW o \in Seq(Byte), NEW c, c = Append(o, 93), NEW t, Settled(t) = Json!At("first", c)
  PROVE  \A d : d /= 93 => Json!Read(t, d) = Json!Value(c, d)
  <1>1. 93 \in Byte BY Marks
  <1>2. c /= <<>> /\ c[Len(c)] = 93 BY <1>1, AppendFacts
  <1>3. Json!Last(c) = 93 BY <1>2 DEF Json!Last
  <1>4. t = Json!At("first", c) BY SettledSame
  <1>5. \A d : Json!Read(t, d) = Json!First(c, d) BY <1>4, ReadAt
  <1>6. \A d : d /= 93 => Json!First(c, d) = Json!Value(c, d) BY <1>3 DEF Json!First
  <1> QED BY <1>5, <1>6

LEMMA LaterElement ==
  ASSUME NEW o \in Seq(Byte), NEW c, c = Append(o, 93), NEW t, Settled(t) = Json!At("next", c)
  PROVE  \A d : Json!Read(Json!Read(t, 44), d) = Json!Value(c, d)
  <1>1. 93 \in Byte /\ 44 \notin Json!Scalars BY Marks
  <1>2. c /= <<>> /\ c[Len(c)] = 93 BY <1>1, AppendFacts
  <1>3. Json!Last(c) = 93 BY <1>2 DEF Json!Last
  <1>4. Json!Read(t, 44) = Json!Next(c, 44) BY <1>1, SettledReads, ReadAt
  <1>5. Json!Next(c, 44) = Json!At("value", c) BY <1>2, <1>3 DEF Json!Next
  <1> QED BY <1>4, <1>5, ReadAt

LEMMA NumberStep ==
  ASSUME IInv, pc = "busy", Top.kind = "array", Top.i < Len(Top.text), Keep,
         NEW b \in Byte,
         Put(IF Top.i = 0 THEN <<>> ELSE <<COMMA>>, Decimal(b), <<>>, "Writer",
             Go(Replace([Top EXCEPT !.i = @ + 1])))
  PROVE  IInv'
  <1> DEFINE f == Top
             g == [Top EXCEPT !.i = @ + 1]
             z == <<>>
             i1 == f.i + 1
             y == f.from
             a == IF f.i = 0 THEN <<>> ELSE <<COMMA>>
             d == Decimal(b)
             r == Under
             s == Replace(g)
  <1>1. PICK w : InArray(w) BY InArrayLemma
  <1> DEFINE c == Append(w.open, 93)
             u == Json!At("scalar", c)
             v == Json!Reads(Sent, a)
  <1>2. f \in GoodFrames /\ TextOK(f) /\ Sunk /\ r \in Seq(GoodFrames) /\ Awaits(r, w) BY <1>1 DEF InArray
  <1>3. /\ w = Json!At("next", w.open) /\ w.open \in Seq(Byte)
        /\ Settled(Sent) = Json!At(IF f.i = 0 THEN "first" ELSE "next", c)
    BY <1>1 DEF InArray, WritingArray
  <1>4. g = Placed(f, i1, y) BY <1>2, FrameTypes
  <1>5. i1 \in Nat /\ i1 /= 0 /\ y \in Nat /\ y <= i1 /\ i1 <= Len(f.text)
    <2>1. f.i \in Nat /\ y \in Nat /\ y <= f.i /\ Len(f.text) \in Nat BY <1>2, FrameTypes
    <2> DEFINE j == f.i
               m == Len(f.text)
    <2>2. j \in Nat /\ y <= j /\ j < m /\ i1 = j + 1 /\ m \in Nat BY <2>1
    <2> HIDE DEF j, y, i1, m
    <2>3. i1 \in Nat /\ i1 /= 0 /\ y \in Nat /\ y <= i1 /\ i1 <= m BY <2>1, <2>2
    <2> QED BY <2>3 DEF m
  <1>6. s = Append(r, g) BY DEF Replace
  <1>7. Put(a, d, z, "Writer", Go(s)) OBVIOUS
  <1>8. f.kind = "array" OBVIOUS
  <1>9. a \in Seq(Byte) /\ \A e : e /= 93 => Json!Read(v, e) = Json!Value(c, e)
    <2> DEFINE p == w.open
    <2>1. p \in Seq(Byte) /\ c = Append(p, 93) BY <1>3
    <2>2. CASE f.i = 0
      <3>1. a = <<>> BY <2>2
      <3>2. Settled(Sent) = Json!At("first", c) BY <1>3, <2>2
      <3> HIDE DEF a, c, p
      <3>3. \A e : e /= 93 => Json!Read(Sent, e) = Json!Value(c, e) BY <2>1, <3>2, FirstElement
      <3>4. a \in Seq(Byte) /\ Json!Reads(Sent, a) = Sent BY <3>1, EmptySeq, ReadsNone
      <3> QED BY <3>3, <3>4
    <2>3. CASE f.i /= 0
      <3>1. a = <<44>> BY <2>3, Marks
      <3>2. Settled(Sent) = Json!At("next", c) BY <1>3, <2>3
      <3>3. 44 \in Byte BY Marks
      <3> HIDE DEF a, c, p
      <3>4. \A e : Json!Read(Json!Read(Sent, 44), e) = Json!Value(c, e) BY <2>1, <3>2, LaterElement
      <3>5. a \in Seq(Byte) BY <3>1, <3>3, One
      <3>6. Json!Reads(Sent, a) = Json!Read(Sent, 44) BY <3>1, ReadsOne
      <3> QED BY <3>4, <3>5, <3>6
    <2> QED BY <2>2, <2>3
  <1>10. d \in Seq(Byte) /\ d /= <<>> /\ \A k \in 1..Len(d) : d[k] \in Json!Scalars BY DecimalReads
  <1> HIDE DEF f, g, i1, y, a, d, v, c, r, s
  <1>11. Json!Reads(v, d) = u BY <1>9, <1>10, AtomReads
  <1>12. /\ g \in GoodFrames /\ g.i = i1 /\ g.from = y /\ g.kind = f.kind /\ g.text = f.text
         /\ g.tail = f.tail /\ g.open = f.open
    BY <1>2, <1>4, <1>5, Moved
  <1>13. TextOK(g)
    <2>1. f.kind \notin Strs /\ f.kind \notin {"str", "quoted"} BY <1>8 DEF Strs
    <2> QED BY <1>2, <1>12, <2>1 DEF TextOK
  <1>14. Settled(u) = Json!At("next", c) BY SettledAt
  <1>15. WritingArray(g, u, w) BY <1>3, <1>5, <1>12, <1>14 DEF WritingArray, c
  <1>16. Writing(g, u, w) BY <1>8, <1>12, <1>15 DEF Writing
  <1>17. Running(s, u) BY <1>2, <1>6, <1>13, <1>16 DEF Running
  <1>18. u /= Json!Bad BY NotBad
  <1> HIDE DEF u
  <1>19. z \in Seq(Byte) /\ Json!Reads(u, z) = u BY EmptySeq, ReadsNone
  <1> HIDE DEF z
  <1>20. u = Json!Reads(Json!Reads(Json!Reads(Sent, a), d), z) BY <1>11, <1>19 DEF v
  <1>21. Broken \/ Wrote(s, u) BY <1>2, <1>7, <1>9, <1>10, <1>18, <1>19, <1>20, PutThree
  <1> QED BY <1>17, <1>21, Preserves

LEMMA EncodeStepStep ==
  ASSUME IInv, EncodeStep
  PROVE  IInv'
  <1> DEFINE f == Top
             b == f.text[f.i + 1]
             rest == Len(f.text) - f.i
             n == IF f.kind = "base64" THEN (IF rest < 3 THEN rest ELSE 3) ELSE 1
             chunk == SubSeq(f.text, f.i + 1, f.i + n)
  <1>1. pc = "busy" /\ f.kind \in {"array", "hex", "base64"} /\ f.i < Len(f.text) /\ Keep
    BY DEF EncodeStep, Within, ByteTexts
  <1>2. /\ f.kind = "hex" => Put(Hex(b), <<>>, <<>>, "Writer", Go(Replace([Top EXCEPT !.i = @ + n])))
        /\ f.kind = "base64"
           => Put(Base64(chunk), <<>>, <<>>, "Writer", Go(Replace([Top EXCEPT !.i = @ + n])))
        /\ f.kind = "array"
           => Put(IF Top.i = 0 THEN <<>> ELSE <<COMMA>>, Decimal(b), <<>>, "Writer",
                  Go(Replace([Top EXCEPT !.i = @ + n])))
    BY <1>1 DEF EncodeStep
  <1>3. f \in GoodFrames
    <2>1. f.kind \in Texts BY <1>1 DEF Texts, ByteTexts
    <2> QED BY <1>1, <2>1, Innermost
  <1>4. f.text \in Seq(Byte) /\ f.i \in Nat /\ Len(f.text) \in Nat BY <1>3, FrameTypes
  <1>5. rest \in Nat /\ 1 <= rest /\ f.i + rest = Len(f.text) BY <1>1, <1>4
  <1>6. b \in Byte BY <1>1, <1>4, ElementOfSeq
  <1>7. n \in Nat /\ 1 <= n /\ n <= rest /\ n \in {1, 2, 3}
    <2> HIDE DEF rest
    <2> QED BY <1>5
  <1>8. f.i + n <= Len(f.text)
    <2> HIDE DEF rest, n
    <2> QED BY <1>4, <1>5, <1>7
  <1>9. chunk \in Seq(Byte) /\ Len(chunk) = n
    <2> DEFINE s == f.text
               x == f.i
    <2>1. s \in Seq(Byte) /\ x \in Nat /\ x + n <= Len(s) /\ chunk = SubSeq(s, x + 1, x + n)
      BY <1>4, <1>8
    <2> HIDE DEF s, x, n, chunk
    <2>2. x + 1 \in 1..Len(s) + 1 /\ x + n \in x..Len(s) BY <1>7, <2>1
    <2>3. SubSeq(s, x + 1, x + n) \in Seq(Byte) /\ Len(SubSeq(s, x + 1, x + n)) = n
      BY <1>7, <2>1, <2>2, SubSeqProperties
    <2> QED BY <2>1, <2>3
  <1>10. f.kind /= "base64" => n = 1 OBVIOUS
  <1> HIDE DEF n, chunk, b, rest
  <1>11. CASE f.kind = "hex"
    <2> DEFINE x == Hex(b)
    <2>1. x \in Seq(Byte) /\ \A k \in 1..Len(x) : Plain(x[k]) BY <1>6, HexLemma
    <2>2. Put(x, <<>>, <<>>, "Writer", Go(Replace([Top EXCEPT !.i = @ + n]))) BY <1>2, <1>11
    <2> HIDE DEF x
    <2> QED BY <1>1, <1>7, <1>8, <1>11, <2>1, <2>2, EncodedStep
  <1>12. CASE f.kind = "base64"
    <2> DEFINE x == Base64(chunk)
    <2>1. x \in Seq(Byte) /\ \A k \in 1..Len(x) : Plain(x[k]) BY <1>7, <1>9, Base64Plain
    <2>2. Put(x, <<>>, <<>>, "Writer", Go(Replace([Top EXCEPT !.i = @ + n]))) BY <1>2, <1>12
    <2> HIDE DEF x
    <2> QED BY <1>1, <1>7, <1>8, <1>12, <2>1, <2>2, EncodedStep
  <1>13. CASE f.kind = "array"
    <2>1. n = 1 BY <1>10, <1>13
    <2>2. Put(IF Top.i = 0 THEN <<>> ELSE <<COMMA>>, Decimal(b), <<>>, "Writer",
              Go(Replace([Top EXCEPT !.i = @ + 1])))
      BY <1>2, <1>13, <2>1
    <2> QED BY <1>1, <1>6, <1>13, <2>2, NumberStep
  <1> QED BY <1>1, <1>11, <1>12, <1>13

LEMMA EndBytesStep ==
  ASSUME IInv, EndBytes
  PROVE  IInv'
  <1> DEFINE f == Top
  <1>1. pc = "busy" /\ f.kind \in {"array", "hex", "base64"} /\ Keep
    BY DEF EndBytes, AtEnd, ByteTexts
  <1>2. CASE f.kind = "array"
    <2> DEFINE r == Under
               x == <<RBRACKET>>
               z == <<>>
    <2>1. PICK w : InArray(w) BY <1>1, <1>2, InArrayLemma
    <2> DEFINE c == w.open
    <2>2. /\ Sunk /\ Awaits(r, w) /\ Settled(w) = w /\ w /= Json!Bad
          /\ c \in Seq(Byte) /\ w = Json!At("next", c)
          /\ Settled(Sent) = Json!At(IF f.i = 0 THEN "first" ELSE "next", Append(c, 93))
      BY <2>1 DEF InArray, WritingArray
    <2>3. PICK q \in {"first", "next"} : Settled(Sent) = Json!At(q, Append(c, 93)) BY <2>2
    <2>4. x = <<93>> /\ 93 \in Byte BY Marks
    <2>5. x \in Seq(Byte) BY <2>4, One
    <2>6. Put(x, z, z, "Writer", Go(r)) BY <1>2 DEF EndBytes
    <2> HIDE DEF r, x, c
    <2>7. Json!Reads(Sent, x) = w
      <3>1. Json!Read(Sent, 93) = Json!At("next", c) BY <2>2, <2>3, CloseReads
      <3> QED BY <2>2, <2>4, <3>1, ReadsOne
    <2>8. z \in Seq(Byte) /\ Json!Reads(w, z) = w BY EmptySeq, ReadsNone
    <2>9. Running(r, w) BY <2>2 DEF Running
    <2> HIDE DEF z
    <2>10. w = Json!Reads(Json!Reads(Json!Reads(Sent, x), z), z) BY <2>7, <2>8
    <2>11. Broken \/ Wrote(r, w) BY <1>1, <2>2, <2>5, <2>6, <2>8, <2>10, PutThree
    <2> QED BY <1>1, <2>9, <2>11, Preserves
  <1>3. CASE f.kind \in {"hex", "base64"}
    <2>1. Top.kind \in Texts \ {"array"} /\ Top.kind /= "str" BY <1>3 DEF ByteTexts, Texts
    <2>2. PICK w, key, o : InText(w, key, o) BY <1>1, <2>1, InTextLemma
    <2>3. Top.tail = <<>> BY <2>1, <2>2 DEF InText, TextOK
    <2>4. Sent = Json!In("string", o, key, <<>>) BY <2>2 DEF InText
    <2> DEFINE t == Top.tail
               x == <<QU>>
               b == <<>>
    <2>5. b \in Seq(Byte) /\ Json!Reads(Sent, b) = Json!In("string", o, key, <<>>)
      BY <2>4, EmptySeq, ReadsNone
    <2>6. t = <<>> /\ Put(x, <<>>, <<>>, "Writer", Go(Under)) /\ b = <<>>
      BY <1>3, <2>3 DEF EndBytes
    <2>7. t = Top.tail /\ x = <<QU>> OBVIOUS
    <2> HIDE DEF t, x, b
    <2> QED BY <1>1, <2>2, <2>5, <2>6, <2>7, TextEnds
  <1> QED BY <1>1, <1>2, <1>3

-----------------------------------------------------------------------------
(* The theorems *)

LEMMA InitHolds ==
  ASSUME Init
  PROVE  IInv
  <1>1. /\ encoder \in Encoders /\ cap \in Capacities /\ out = <<>> /\ pc = "busy"
        /\ stack = <<Frame("one", TRUE)>>
    BY DEF Init
  <1>2. cap \in Nat BY <1>1, InputAssumption
  <1>3. out \in Seq(Byte) /\ Len(out) <= cap BY <1>1, <1>2, EmptySeq
  <1>4. Sent = Json!Start BY <1>1, ReadsNone DEF Sent
  <1>5. Settled(Sent) = Json!Start BY <1>4, SettledAt DEF Json!Start
  <1>6. Running(stack, Sent) BY <1>1, <1>5, AwaitsStart DEF Running
  <1> QED BY <1>1, <1>3, <1>6 DEF IInv

LEMMA StepHolds ==
  ASSUME IInv, [Next]_vars
  PROVE  IInv'
  <1>1. CASE UNCHANGED vars
    <2>1. Sent' = Sent BY <1>1 DEF vars, Sent
    <2> QED BY <1>1, <2>1 DEF vars, IInv
  <1>2. CASE Next
    BY <1>2, AtomStep, SerializeStrStep, CollectStrStep, BytesStep, SeqStep, MapStep, VariantStep,
       StrKeyStep, CollectKeyStep, QuotedKeyStep, InvalidKeyStep, FieldStep,
       EscapeStepStep, EndStrStep, EndPieceStep, NextPieceStep, EndCollectStep, EndQuotedStep,
       EncodeStepStep, EndBytesStep, EndStep, ReturnStep, GiveUpStep DEF Next
  <1> QED BY <1>1, <1>2

\* What ties the calls in progress to what a reader makes of the sink holds
\* always: after every call, and after every refused write.
THEOREM Inductive == Spec => []IInv
  <1>1. Init => IInv BY InitHolds
  <1>2. IInv /\ [Next]_vars => IInv' BY StepHolds
  <1> QED BY <1>1, <1>2, PTL DEF Spec

LEMMA GoodStack ==
  ASSUME NEW s, NEW t, Running(s, t)
  PROVE  s \in Seq(GoodFrames) /\ s /= <<>>
  <1>1. CASE Awaits(s, Settled(t)) BY <1>1 DEF Awaits, Waiting
  <1>2. ASSUME NEW r, NEW f, NEW w, r \in Seq(GoodFrames), s = Append(r, f), TextOK(f)
        PROVE  s \in Seq(GoodFrames) /\ s /= <<>>
    <2>1. f \in GoodFrames BY <1>2 DEF TextOK
    <2> QED BY <1>2, <2>1, AppendFacts
  <1> QED BY <1>1, <1>2 DEF Running

\* The sink never takes more than it can, and what is still to be copied of a text
\* lies behind what was written of it (TypeOK).
THEOREM TypeCorrect == Spec => []TypeOK
  <1>1. IInv => TypeOK
    <2> SUFFICES ASSUME IInv PROVE TypeOK OBVIOUS
    <2>1. /\ encoder \in Encoders /\ cap \in Capacities /\ out \in Seq(Byte) /\ Len(out) <= cap
          /\ pc \in {"busy", "ok", "failed"}
          /\ pc = "busy" => Running(stack, Sent)
          /\ pc /= "busy" => stack = <<>>
      BY DEF IInv
    <2>2. stack \in Seq(GoodFrames) /\ ((stack = <<>>) <=> pc /= "busy")
      BY <2>1, GoodStack, EmptySeq
    <2>3. stack \in Seq(Frames) BY <2>2 DEF GoodFrames
    <2>4. \A k \in 1..Len(stack) : stack[k].from <= stack[k].i /\ stack[k].i <= Len(stack[k].text)
      <3> SUFFICES ASSUME NEW k \in 1..Len(stack)
                   PROVE  stack[k].from <= stack[k].i /\ stack[k].i <= Len(stack[k].text)
        OBVIOUS
      <3>1. stack[k] \in GoodFrames BY <2>2, ElementOfSeq
      <3> QED BY <3>1 DEF GoodFrames
    <2> QED BY <2>1, <2>2, <2>3, <2>4 DEF TypeOK
  <1> QED BY <1>1, Inductive, PTL

LEMMA WholeFields == Json!Whole.q = "next" /\ Json!Whole.open = <<>>
  BY DEF Json!Whole, Json!At, Json!In

LEMMA SettledBad ==
  ASSUME NEW t, Settled(t) /= Json!Bad
  PROVE  t /= Json!Bad
  BY SettledAt DEF Json!Bad

\* Amid the calls the reader can go on.
LEMMA BusyReads ==
  ASSUME IInv, pc = "busy"
  PROVE  Sent /= Json!Bad /\ (Top.kind /= "one" => Sent /= Json!Whole)
  <1> DEFINE f == Top
             r == Under
             w == Settled(Sent)
             t == Sent
  <1>1. r \in Seq(GoodFrames) /\ f \in GoodFrames /\ f.kind \in Containers \cup Texts BY Innermost
  <1>2. CASE f.kind \in Containers
    <2>1. Awaits(Append(r, f), w) BY <1>2, Innermost
    <2>2. w /= Json!Bad BY <2>1, AwaitsSettled
    <2>3. t /= Json!Bad BY <2>2, SettledBad
    <2>4. ASSUME f.kind /= "one" PROVE t /= Json!Whole
      <3> HIDE DEF f, r, w
      <3>1. w.open /= <<>> BY <1>1, <2>1, <2>4, AwaitsInfo
      <3>2. t = Json!Whole => w = Json!Whole BY SettledAt DEF w, Json!Whole
      <3>3. Json!Whole.open = <<>> BY WholeFields
      <3> QED BY <3>1, <3>2, <3>3
    <2> QED BY <2>3, <2>4
  <1>3. CASE f.kind \in Texts
    <2>1. PICK v : Awaits(r, v) /\ Writing(f, t, v) BY <1>3, Innermost
    <2>2. CASE f.kind = "array"
      <3>1. PICK q \in {"first", "next"} : w = Json!At(q, Append(v.open, 93)) /\ v.open \in Seq(Byte)
        BY <2>1, <2>2 DEF Writing, WritingArray
      <3> DEFINE o == Append(v.open, 93)
      <3>2. 93 \in Byte BY Marks
      <3>3. o /= <<>> BY <3>1, <3>2, AppendFacts
      <3>4. w = Json!At(q, o) /\ q /= "bad" BY <3>1
      <3> HIDE DEF o, w
      <3>5. w /= Json!Bad /\ w /= Json!Whole BY <3>3, <3>4, NotBad
      <3>6. t = Json!Whole => w = Json!Whole BY SettledAt DEF w, Json!Whole
      <3> QED BY <3>5, <3>6, SettledBad DEF w
    <2>3. CASE f.kind /= "array"
      <3>1. PICK key, o : t = Json!In("string", o, key, <<>>)
        BY <2>1, <2>3 DEF Writing, WritingString
      <3> QED BY <3>1, InNotBad
    <2> QED BY <2>2, <2>3
  <1> QED BY <1>1, <1>2, <1>3

LEMMA WholeValue ==
  ASSUME NEW t, Settled(t) = Json!Whole
  PROVE  t.q \in {"next", "scalar"} /\ t.open = <<>> /\ t /= Json!Bad
  <1>1. Json!Whole.q = "next" /\ Json!Whole.open = <<>> BY WholeFields
  <1>2. Json!Whole /= Json!Bad BY NotBad DEF Json!Whole
  <1>3. t /= Json!Bad BY <1>2, SettledBad
  <1>4. CASE t.q = "scalar"
    <2>1. Json!At("next", t.open) = Json!Whole BY <1>4 DEF Settled
    <2>2. t.open = <<>>
      <3> DEFINE o == t.open
      <3>1. Json!At("next", o).open = o BY DEF Json!At, Json!In
      <3> HIDE DEF o
      <3>2. o = <<>> BY <1>1, <2>1, <3>1 DEF o
      <3> QED BY <3>2 DEF o
    <2> QED BY <1>3, <1>4, <2>2
  <1>5. CASE t.q /= "scalar"
    <2>1. t = Json!Whole BY <1>5 DEF Settled
    <2> QED BY <1>1, <1>3, <2>1
  <1> QED BY <1>4, <1>5

\* The sink holds the beginning of a JSON value whatever was called and wherever a
\* write was refused, and a whole one at Ok (AlwaysJson).
THEOREM ValidJson == Spec => []AlwaysJson
  <1>1. IInv => AlwaysJson
    <2> SUFFICES ASSUME IInv PROVE AlwaysJson OBVIOUS
    <2>1. pc = "busy" => Sent /= Json!Bad BY BusyReads
    <2>2. pc = "ok" => Sent.q \in {"next", "scalar"} /\ Sent.open = <<>> /\ Sent /= Json!Bad
      BY WholeValue DEF IInv
    <2>3. pc = "failed" => Sent /= Json!Bad BY DEF IInv
    <2>4. pc \in {"busy", "ok", "failed"} BY DEF IInv
    <2> QED BY <2>1, <2>2, <2>3, <2>4 DEF AlwaysJson
  <1> QED BY <1>1, Inductive, PTL

\* Before its value is complete, and when a write was refused, what is in the sink
\* never reads as a complete list, map or string (NeverEarly).
THEOREM NotBeforeTheEnd == Spec => []NeverEarly
  <1>1. IInv => NeverEarly
    <2> SUFFICES ASSUME IInv PROVE NeverEarly OBVIOUS
    <2>1. pc = "busy" /\ Top.kind /= "one" => Sent /= Json!Whole BY BusyReads
    <2>2. pc = "failed" /\ err \in {"Writer", "FormatError", "InvalidKeyType"} => Sent /= Json!Whole
      BY DEF IInv
    <2> QED BY <2>1, <2>2 DEF NeverEarly
  <1> QED BY <1>1, Inductive, PTL

-----------------------------------------------------------------------------
(* UTF-8: outside of the strings there are only bytes below 128, and inside *)
(* them the reader follows the characters.                                  *)

Brackets == {93, 125}

Follows(s, m) ==
  \E q, o, key : /\ s = Json!In(q, o, key, m) /\ key \in BOOLEAN /\ o \in Seq(Brackets)
                 /\ q /= "string" => m = <<>>
Tracks(s, m) == s = Json!Bad \/ Follows(s, m)

LEMMA FollowsIn ==
  ASSUME NEW q, NEW o \in Seq(Brackets), NEW key \in BOOLEAN, NEW s, s = Json!In(q, o, key, <<>>)
  PROVE  Tracks(s, <<>>)
  BY DEF Follows, Tracks

LEMMA FollowsAt ==
  ASSUME NEW q, NEW o \in Seq(Brackets), NEW s, s = Json!At(q, o)
  PROVE  Tracks(s, <<>>)
  <1> DEFINE key == FALSE
  <1>1. s = Json!In(q, o, key, <<>>) /\ key \in BOOLEAN BY DEF Json!At
  <1> HIDE DEF key
  <1> QED BY <1>1, FollowsIn

LEMMA AsciiWhole ==
  ASSUME NEW c, c < 128
  PROVE  Json!Utf8(<<>>, c) = <<>>
  BY DEF Json!Utf8

LEMMA AsciiScalars == \A c \in Json!Scalars : c < 128
  BY DEF Json!Scalars

LEMMA ValueFollows ==
  ASSUME NEW o \in Seq(Brackets), NEW c, NEW s, s = Json!Value(o, c)
  PROVE  s = Json!Bad \/ (c < 128 /\ Tracks(s, <<>>))
  <1>1. CASE c = 34
    <2> DEFINE key == FALSE
    <2>1. s = Json!In("string", o, key, <<>>) /\ key \in BOOLEAN BY <1>1, ValueOf
    <2> HIDE DEF key
    <2>2. Tracks(s, <<>>) BY <2>1, FollowsIn
    <2> QED BY <1>1, <2>2
  <1>2. CASE c = 91
    <2>1. Append(o, 93) \in Seq(Brackets)
      <3>1. 93 \in Brackets BY DEF Brackets
      <3> QED BY <3>1, AppendFacts
    <2> DEFINE p == Append(o, 93)
    <2>2. s = Json!At("first", p) BY <1>2, ValueOf
    <2> HIDE DEF p
    <2>3. Tracks(s, <<>>) BY <2>1, <2>2, FollowsAt DEF p
    <2> QED BY <1>2, <2>3
  <1>3. CASE c = 123
    <2>1. Append(o, 125) \in Seq(Brackets)
      <3>1. 125 \in Brackets BY DEF Brackets
      <3> QED BY <3>1, AppendFacts
    <2> DEFINE p == Append(o, 125)
    <2>2. s = Json!At("first", p) BY <1>3, ValueOf
    <2> HIDE DEF p
    <2>3. Tracks(s, <<>>) BY <2>1, <2>2, FollowsAt DEF p
    <2> QED BY <1>3, <2>3
  <1>4. CASE c \in Json!Scalars
    <2>1. s = Json!At("scalar", o) BY <1>4, ValueOf
    <2> QED BY <1>4, <2>1, FollowsAt, AsciiScalars
  <1>5. CASE c /= 34 /\ c /= 91 /\ c /= 123 /\ c \notin Json!Scalars
    BY <1>5 DEF Json!Value, Json!QUOTE
  <1> QED BY <1>1, <1>2, <1>3, <1>4, <1>5

LEMMA KeyFollows ==
  ASSUME NEW o \in Seq(Brackets), NEW c, NEW s, s = Json!Key(o, c)
  PROVE  s = Json!Bad \/ (c < 128 /\ Tracks(s, <<>>))
  <1>1. CASE c = 34
    <2> DEFINE key == TRUE
    <2>1. s = Json!In("string", o, key, <<>>) /\ key \in BOOLEAN BY <1>1 DEF Json!Key, Json!QUOTE
    <2> HIDE DEF key
    <2>2. Tracks(s, <<>>) BY <2>1, FollowsIn
    <2> QED BY <1>1, <2>2
  <1>2. CASE c /= 34 BY <1>2 DEF Json!Key, Json!QUOTE
  <1> QED BY <1>1, <1>2

LEMMA CloseFollows ==
  ASSUME NEW o \in Seq(Brackets), NEW c, NEW s, s = Json!Close(o, c)
  PROVE  s = Json!Bad \/ (c < 128 /\ Tracks(s, <<>>))
  <1>1. CASE o /= <<>> /\ c = Json!Last(o)
    <2> DEFINE n == Len(o)
               p == SubSeq(o, 1, n - 1)
    <2>1. s = Json!At("next", p) BY <1>1 DEF Json!Close
    <2>2. n \in Nat /\ n >= 1 BY <1>1, EmptySeq
    <2>3. c \in Brackets
      <3>1. n \in 1..Len(o) BY <2>2
      <3>2. o[n] \in Brackets BY <3>1, ElementOfSeq
      <3> QED BY <1>1, <3>2 DEF Json!Last
    <2>4. p \in Seq(Brackets)
      <3>1. n - 1 <= n BY <2>2
      <3>2. 1 \in 1..n + 1 /\ n - 1 \in 0..n BY <2>2
      <3> QED BY <2>2, <3>1, <3>2, SubSeqProperties
    <2>5. c < 128 BY <2>3 DEF Brackets
    <2> HIDE DEF p
    <2> QED BY <2>1, <2>4, <2>5, FollowsAt
  <1>2. CASE ~(o /= <<>> /\ c = Json!Last(o)) BY <1>2 DEF Json!Close
  <1> QED BY <1>1, <1>2

LEMMA FirstFollows ==
  ASSUME NEW o \in Seq(Brackets), NEW c, NEW s, s = Json!First(o, c)
  PROVE  s = Json!Bad \/ (c < 128 /\ Tracks(s, <<>>))
  <1>1. s \in {Json!Close(o, c), Json!Value(o, c), Json!Key(o, c)} BY DEF Json!First
  <1> QED BY <1>1, CloseFollows, ValueFollows, KeyFollows

LEMMA NextFollows ==
  ASSUME NEW o \in Seq(Brackets), NEW c, NEW s, s = Json!Next(o, c)
  PROVE  s = Json!Bad \/ (c < 128 /\ Tracks(s, <<>>))
  <1>1. CASE o /= <<>> /\ c = 44
    <2> DEFINE q == IF Json!Last(o) = 93 THEN "value" ELSE "key"
    <2>1. s = Json!At(q, o) BY <1>1 DEF Json!Next
    <2> HIDE DEF q
    <2>2. c < 128 BY <1>1
    <2> QED BY <2>1, <2>2, FollowsAt
  <1>2. CASE ~(o /= <<>> /\ c = 44)
    <2>1. s = Json!Close(o, c) BY <1>2 DEF Json!Next
    <2> QED BY <2>1, CloseFollows
  <1> QED BY <1>1, <1>2

LEMMA StringFollows ==
  ASSUME NEW o \in Seq(Brackets), NEW key \in BOOLEAN, NEW m, NEW c \in Byte,
         NEW s, s = Json!Read(Json!In("string", o, key, m), c), NEW n, n = Json!Utf8(m, c)
  PROVE  Tracks(s, n)
  <1> DEFINE t == Json!In("string", o, key, m)
  <1>1. s = Json!String(t, c) /\ t.more = m
    <2>1. t.q = "string" /\ t.more = m BY InIs
    <2> HIDE DEF t
    <2> QED BY <2>1, ReadCases DEF t
  <1>2. CASE m = <<>> /\ c = 34
    <2>1. s = Ended(key, o) BY <1>2, StringReads
    <2>2. n = <<>> BY <1>2, AsciiWhole
    <2> DEFINE q == IF key THEN "colon" ELSE "next"
    <2>3. s = Json!At(q, o) BY <2>1 DEF Ended
    <2> HIDE DEF q
    <2> QED BY <2>2, <2>3, FollowsAt
  <1>3. CASE m = <<>> /\ c = 92
    <2>1. s = Json!In("escape", o, key, m) BY <1>3, StringReads
    <2>2. n = <<>> /\ m = n BY <1>3, AsciiWhole
    <2> QED BY <2>1, <2>2, FollowsIn
  <1>4. CASE ~(m = <<>> /\ c = 34) /\ ~(m = <<>> /\ c = 92)
    <2>1. s = IF c < 32 \/ n = Json!Refused THEN Json!Bad ELSE [t EXCEPT !.more = n]
      <3> HIDE DEF t
      <3> QED BY <1>1, <1>4 DEF Json!String, Json!QUOTE, Json!ESCAPE
    <2>2. [t EXCEPT !.more = n] = Json!In("string", o, key, n) BY DEF Json!In
    <2>3. Follows(Json!In("string", o, key, n), n) BY DEF Follows
    <2> QED BY <2>1, <2>2, <2>3 DEF Tracks
  <1> QED BY <1>2, <1>3, <1>4

LEMMA EscapesAreAscii ==
  ASSUME NEW c \in Byte
  PROVE  c = 117 \/ c \in Json!Escapes \/ c \in Json!HexDigits => c < 128
  <1>1. c = 117 => c < 128 OBVIOUS
  <1>2. c \in Json!Escapes => c < 128 BY DEF Json!Escapes
  <1>3. c \in Json!HexDigits => c < 128
    <2>1. c \in 48..57 => c < 128 OBVIOUS
    <2>2. c \in 65..70 => c < 128 OBVIOUS
    <2>3. c \in 97..102 => c < 128 OBVIOUS
    <2>4. c \in Json!HexDigits => c \in 48..57 \/ c \in 65..70 \/ c \in 97..102
      BY Zenon DEF Json!HexDigits
    <2> QED BY <2>1, <2>2, <2>3, <2>4, Zenon
  <1> QED BY <1>1, <1>2, <1>3

LEMMA EscapeFollows ==
  ASSUME NEW q \in {"escape", "hex4", "hex3", "hex2", "hex1"}, NEW o \in Seq(Brackets),
         NEW key \in BOOLEAN, NEW c \in Byte,
         NEW s, s = Json!Read(Json!In(q, o, key, <<>>), c)
  PROVE  s = Json!Bad \/ (c < 128 /\ Tracks(s, <<>>))
  <1> DEFINE t == Json!In(q, o, key, <<>>)
  <1>1. t.q = q /\ t.more = <<>> BY InIs
  <1>2. s = Json!Bad \/ ((c = 117 \/ c \in Json!Escapes \/ c \in Json!HexDigits)
                         /\ \E p : s = [t EXCEPT !.q = p])
    <2> HIDE DEF t
    <2>1. s = Json!Read(t, c) BY DEF t
    <2> QED BY <1>1, <2>1, ReadHex
  <1>3. c = 117 \/ c \in Json!Escapes \/ c \in Json!HexDigits => c < 128
    BY EscapesAreAscii
  <1>4. ASSUME NEW p, s = [t EXCEPT !.q = p] PROVE Tracks(s, <<>>)
    <2>1. s = Json!In(p, o, key, <<>>) BY <1>4, InExcept
    <2> QED BY <2>1, FollowsIn
  <1> HIDE DEF t
  <1> QED BY <1>2, <1>3, <1>4

LEMMA ReadFollows ==
  ASSUME NEW s, NEW m, Tracks(s, m), NEW c \in Byte
  PROVE  Tracks(Json!Read(s, c), Json!Utf8(m, c))
  <1> DEFINE r == Json!Read(s, c)
             n == Json!Utf8(m, c)
  <1> SUFFICES Tracks(r, n) OBVIOUS
  <1>1. CASE s = Json!Bad
    <2>1. Json!Bad.q = "bad" BY DEF Json!Bad, Json!At, Json!In
    <2>2. r = Json!Bad BY <1>1, <2>1, ReadCases
    <2> QED BY <2>2 DEF Tracks
  <1>2. CASE Follows(s, m)
    <2>0. PICK q, o, key : /\ s = Json!In(q, o, key, m) /\ key \in BOOLEAN /\ o \in Seq(Brackets)
                           /\ q /= "string" => m = <<>>
      BY <1>2 DEF Follows
    <2>1. s.q = q /\ s.open = o BY <2>0, InIs
    <2>2. CASE q = "string"
      <3>1. r = Json!Read(Json!In("string", o, key, m), c) BY <2>0, <2>2
      <3> HIDE DEF r, n
      <3>2. n = Json!Utf8(m, c) BY DEF n
      <3> QED BY <2>0, <3>1, <3>2, StringFollows
    <2>3. CASE q /= "string"
      <3>1. m = <<>> BY <2>0, <2>3
      <3>2. r = Json!Bad \/ (c < 128 /\ Tracks(r, <<>>))
        <4>1. CASE q = "value" BY <2>0, <2>1, <4>1, ReadCases, ValueFollows
        <4>2. CASE q = "key" BY <2>0, <2>1, <4>2, ReadCases, KeyFollows
        <4>3. CASE q = "first" BY <2>0, <2>1, <4>3, ReadCases, FirstFollows
        <4>4. CASE q = "next" BY <2>0, <2>1, <4>4, ReadCases, NextFollows
        <4>5. CASE q = "scalar"
          <5>1. CASE c \in Json!Scalars
            <6>1. r = s BY <2>1, <4>5, <5>1, ReadCases
            <6>2. r = Json!In(q, o, key, <<>>) BY <2>0, <3>1, <6>1
            <6> HIDE DEF r
            <6>3. Tracks(r, <<>>) BY <2>0, <6>2, FollowsIn
            <6> QED BY <5>1, <6>3, AsciiScalars
          <5>2. CASE c \notin Json!Scalars
            <6>1. r = Json!Next(o, c) BY <2>1, <4>5, <5>2, ReadCases
            <6> HIDE DEF r
            <6> QED BY <2>0, <6>1, NextFollows
          <5> QED BY <5>1, <5>2
        <4>6. CASE q = "colon"
          <5>1. r = IF c = 58 THEN Json!At("value", o) ELSE Json!Bad BY <2>1, <4>6, ReadCases
          <5> HIDE DEF r
          <5>2. c = 58 => c < 128 OBVIOUS
          <5> QED BY <2>0, <5>1, <5>2, FollowsAt
        <4>7. CASE q \in {"escape", "hex4", "hex3", "hex2", "hex1"}
          <5>1. r = Json!Read(Json!In(q, o, key, <<>>), c) BY <2>0, <3>1
          <5> HIDE DEF r
          <5> QED BY <2>0, <4>7, <5>1, EscapeFollows
        <4>8. CASE q \notin {"value", "key", "first", "next", "scalar", "colon", "string", "escape",
                             "hex4", "hex3", "hex2", "hex1"}
          BY <2>1, <4>8, HexNames DEF Json!Read
        <4> QED BY <2>3, <4>1, <4>2, <4>3, <4>4, <4>5, <4>6, <4>7, <4>8
      <3>3. c < 128 => n = <<>> BY <3>1, AsciiWhole
      <3> HIDE DEF r, n
      <3> QED BY <3>2, <3>3 DEF Tracks
    <2> QED BY <2>2, <2>3
  <1> HIDE DEF r, n
  <1> QED BY <1>1, <1>2 DEF Tracks

LEMMA RunFollows ==
  ASSUME NEW b \in Seq(Byte)
  PROVE  \A k \in 0..Len(b) : Tracks(Json!Run(Json!Start, b)[k], Json!Utf8Run(b)[k])
  <1> DEFINE R == Json!Run(Json!Start, b)
             U == Json!Utf8Run(b)
             n == Len(b)
             T == {k \in 0..n : ~Tracks(R[k], U[k])}
  <1>1. n \in Nat BY LenProperties
  <1>2. R[0] = Json!Start /\ \A k \in 1..n : R[k] = Json!Read(R[k - 1], b[k]) BY <1>1, RunLemma
  <1>3. U[0] = <<>> /\ \A k \in 1..n : U[k] = Json!Utf8(U[k - 1], b[k]) BY <1>1, Utf8RunLemma
  <1>4. Tracks(R[0], U[0])
    <2>1. <<>> \in Seq(Brackets) BY EmptySeq
    <2>2. R[0] = Json!At("value", <<>>) BY <1>2 DEF Json!Start
    <2> QED BY <1>3, <2>1, <2>2, FollowsAt
  <1>5. \A k \in 1..n : b[k] \in Byte BY ElementOfSeq
  <1> HIDE DEF R, U, n
  <1>6. ASSUME T /= {} PROVE FALSE
    <2>1. T \in SUBSET Nat BY <1>1
    <2> HIDE DEF T
    <2>2. PICK m \in T : \A k \in T : m <= k BY <1>6, <2>1, LeastNat
    <2>3. m \in 0..n /\ ~Tracks(R[m], U[m]) BY <2>2 DEF T
    <2>4. m \in 1..n /\ m - 1 \in 0..n /\ m - 1 < m
      <3>1. m /= 0 BY <1>4, <2>3
      <3> QED BY <1>1, <2>3, <3>1
    <2>5. m - 1 \notin T BY <1>1, <2>2, <2>4
    <2>6. Tracks(R[m - 1], U[m - 1]) BY <2>4, <2>5 DEF T
    <2>7. R[m] = Json!Read(R[m - 1], b[m]) /\ U[m] = Json!Utf8(U[m - 1], b[m])
      BY <1>2, <1>3, <2>4
    <2>8. b[m] \in Byte BY <1>5, <2>4
    <2> DEFINE s == R[m - 1]
               t == U[m - 1]
               c == b[m]
    <2>9. Tracks(s, t) /\ c \in Byte BY <2>6, <2>8
    <2> HIDE DEF s, t, c
    <2>10. Tracks(Json!Read(s, c), Json!Utf8(t, c)) BY <2>9, ReadFollows
    <2> QED BY <2>3, <2>7, <2>10 DEF s, t, c
  <1>7. \A k \in 0..n : Tracks(R[k], U[k]) BY <1>6 DEF T
  <1> QED BY <1>7 DEF R, U, n

\* to_string calls from_utf8_unchecked on what the sink holds at Ok: it is UTF-8
\* when the strings given were (OkIsUtf8).
THEOREM OutputIsUtf8 == Spec => []OkIsUtf8
  <1>1. IInv => OkIsUtf8
    <2> SUFFICES ASSUME IInv, pc = "ok" PROVE Json!IsUtf8(out) BY DEF OkIsUtf8
    <2> DEFINE n == Len(out)
               s == Json!Run(Json!Start, out)[n]
               m == Json!Utf8Run(out)[n]
    <2>1. out \in Seq(Byte) /\ Settled(Sent) = Json!Whole BY DEF IInv
    <2>2. Sent = s BY DEF Sent, Json!Reads
    <2>3. Sent.q \in {"next", "scalar"} /\ Sent /= Json!Bad BY <2>1, WholeValue
    <2>4. n \in 0..n
      <3>1. n \in Nat BY <2>1, LenProperties
      <3> QED BY <3>1
    <2>5. Tracks(s, m) BY <2>1, <2>4, RunFollows
    <2> HIDE DEF s, m
    <2>6. PICK q, o, key : s = Json!In(q, o, key, m) /\ key \in BOOLEAN /\ (q /= "string" => m = <<>>)
      BY <2>2, <2>3, <2>5 DEF Tracks, Follows
    <2>7. s.q = q BY <2>6, InIs
    <2>8. m = <<>> BY <2>2, <2>3, <2>6, <2>7
    <2> QED BY <2>8 DEF m, Json!IsUtf8
  <1> QED BY <1>1, Inductive, PTL
=============================================================================
