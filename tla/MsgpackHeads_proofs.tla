-------------------------- MODULE MsgpackHeads_proofs --------------------------
(* Proofs about MsgpackHeads, for every radix and every sequence of bytes:   *)
(* what a head is, and that a run of messages ends where the one behind its  *)
(* first head does.                                                          *)
EXTENDS MsgpackHeads, SequenceTheorems, WellFoundedInduction, TLAPS

-----------------------------------------------------------------------------
(* Arithmetic *)

LEMMA MulNat == \A a, b \in Nat : a * b \in Nat
  OBVIOUS

LEMMA SumNat == \A a, b \in Nat : a + b \in Nat
  OBVIOUS

LEMMA ModLemma ==
  ASSUME NEW a \in Nat, NEW u \in Nat \ {0}
  PROVE  a % u \in Nat /\ a % u < u /\ (a < u => a % u = a)
  OBVIOUS

LEMMA DivMod ==
  ASSUME NEW a \in Int, NEW r \in Nat \ {0}
  PROVE  /\ a \div r \in Int /\ a % r \in Nat /\ a % r < r
         /\ a = r * (a \div r) + (a % r)
         /\ 0 <= a /\ a < r => a % r = a /\ a \div r = 0
  OBVIOUS

LEMMA Square ==
  ASSUME NEW a \in Nat, a >= 2
  PROVE  a * a \in Nat /\ a * a >= 2 * a
  <1>1. a - 2 \in Nat /\ (a - 2) * a \in Nat OBVIOUS
  <1>2. a * a = (a - 2) * a + 2 * a OBVIOUS
  <1> QED BY <1>1, <1>2

LEMMA MulGrows ==
  ASSUME NEW m \in Nat, NEW k \in Nat \ {0}
  PROVE  m * k \in Nat /\ m * k >= m
  <1>1. k - 1 \in Nat /\ m * (k - 1) \in Nat OBVIOUS
  <1>2. m * k = m + m * (k - 1) OBVIOUS
  <1> QED BY <1>1, <1>2

LEMMA ModUnique ==
  ASSUME NEW m \in Nat \ {0}, NEW q \in Int, NEW s \in Nat, s < m, NEW a \in Int, a = m * q + s
  PROVE  a % m = s
  <1> DEFINE d == a \div m
             r == a % m
  <1>1. d \in Int /\ r \in Nat /\ r < m /\ a = m * d + r BY DivMod
  <1> HIDE DEF d, r
  <1>2. m * (q - d) = r - s /\ m * (d - q) = s - r BY <1>1
  <1>3. CASE q - d >= 1
    <2>1. m * (q - d) >= m BY <1>1, <1>3, MulGrows
    <2> QED BY <2>1, <1>1, <1>2
  <1>4. CASE d - q >= 1
    <2>1. m * (d - q) >= m BY <1>1, <1>4, MulGrows
    <2> QED BY <2>1, <1>1, <1>2
  <1>5. CASE q = d BY <1>1, <1>5 DEF r
  <1> QED BY <1>1, <1>3, <1>4, <1>5

LEMMA TwoDigits ==
  ASSUME NEW m \in Nat \ {0}, NEW z \in Int
  PROVE  /\ (z % (m * m)) = m * ((z \div m) % m) + (z % m)
         /\ z \div m \in Int
  <1> DEFINE q == z \div m
             r == z % m
             q2 == q \div m
             r2 == q % m
             s == m * r2 + r
  <1>1. q \in Int /\ r \in Nat /\ r < m /\ z = m * q + r BY DivMod
  <1> HIDE DEF q, r
  <1>2. q2 \in Int /\ r2 \in Nat /\ r2 < m /\ q = m * q2 + r2 BY <1>1, DivMod
  <1> HIDE DEF q2, r2
  <1>3. z = (m * m) * q2 + s BY <1>1, <1>2
  <1>4. s \in Nat /\ s < m * m
    <2>1. m * r2 \in Nat /\ m * (m - 1 - r2) \in Nat BY <1>2
    <2>2. m * m = m * r2 + m + m * (m - 1 - r2) BY <1>2
    <2> QED BY <2>1, <2>2, <1>1
  <1>5. m * m \in Nat \ {0} BY MulGrows
  <1> HIDE DEF s
  <1>6. z % (m * m) = s
    <2> DEFINE n == m * m
    <2>1. n \in Nat \ {0} /\ s \in Nat /\ s < n /\ q2 \in Int /\ z = n * q2 + s
      BY <1>2, <1>3, <1>4, <1>5
    <2> HIDE DEF n
    <2>2. z % n = s BY <2>1, ModUnique
    <2> QED BY <2>2 DEF n
  <1>7. s = m * r2 + r BY DEF s
  <1>8. z % (m * m) = m * r2 + r BY <1>6, <1>7, Zenon
  <1> QED BY <1>8, <1>1, Zenon DEF r2, q, r

LEMMA TwoParts ==
  ASSUME NEW a \in Seq(Byte), NEW b \in Seq(Byte)
  PROVE  /\ a \o b \in Seq(Byte) /\ Len(a \o b) = Len(a) + Len(b)
         /\ Len(a) \in Nat /\ Len(b) \in Nat
  BY ConcatProperties, LenProperties

LEMMA LeastNat ==
  ASSUME NEW T \in SUBSET Nat, T /= {}
  PROVE  \E m \in T : \A k \in T : m <= k
  <1>1. PICK m \in T : \A k \in T : <<k, m>> \notin OpToRel(<, Nat)
    BY NatLessThanWellFounded, WFMin
  <1>2. \A k \in T : ~(k < m) BY <1>1 DEF OpToRel
  <1>3. \A k \in T : m <= k BY <1>2
  <1> QED BY <1>3

\* The last position of which something is true.
LEMMA LastPosition ==
  ASSUME NEW n \in Nat, NEW T \in SUBSET (0..n), T /= {}
  PROVE  \E m \in T : \A k \in T : k <= m
  <1> DEFINE U == {k \in 0..n : n - k \in T}
  <1>1. U \in SUBSET Nat OBVIOUS
  <1>2. U /= {}
    <2>1. PICK k \in T : TRUE OBVIOUS
    <2>2. n - k \in U BY <2>1
    <2> QED BY <2>2
  <1>3. PICK u \in U : \A k \in U : u <= k
    <2> HIDE DEF U
    <2> QED BY <1>1, <1>2, LeastNat
  <1>4. n - u \in T /\ u \in 0..n BY <1>3
  <1>5. ASSUME NEW k \in T PROVE k <= n - u
    <2>1. k \in 0..n OBVIOUS
    <2>2. n - k \in U BY <2>1
    <2>3. u <= n - k BY <2>2, <1>3
    <2> HIDE DEF U
    <2> QED BY <2>1, <2>3, <1>4
  <1> QED BY <1>4, <1>5

-----------------------------------------------------------------------------
(* Sequences of bytes behind one another *)

LEMMA Joined ==
  ASSUME NEW a \in Seq(Byte), NEW b \in Seq(Byte)
  PROVE  /\ a \o b \in Seq(Byte) /\ Len(a \o b) = Len(a) + Len(b)
         /\ Len(a) \in Nat /\ Len(b) \in Nat
         /\ \A i \in 1..Len(a \o b) : (a \o b)[i] = IF i <= Len(a) THEN a[i] ELSE b[i - Len(a)]
  <1> DEFINE w == a \o b
  <1>1. w \in Seq(Byte) /\ Len(w) = Len(a) + Len(b) /\ Len(a) \in Nat /\ Len(b) \in Nat BY TwoParts
  <1>2. \A i \in 1..(Len(a) + Len(b)) : w[i] = IF i <= Len(a) THEN a[i] ELSE b[i - Len(a)]
    BY ConcatProperties
  <1> HIDE DEF w
  <1>3. \A i \in 1..Len(w) : w[i] = IF i <= Len(a) THEN a[i] ELSE b[i - Len(a)] BY <1>1, <1>2
  <1> QED BY <1>1, <1>3 DEF w

LEMMA Behind ==
  ASSUME NEW y \in Seq(Byte), NEW z \in Seq(Byte)
  PROVE  /\ Len(y) \in Nat /\ Len(z) \in Nat /\ y \o z \in Seq(Byte)
         /\ Len(y \o z) = Len(y) + Len(z)
         /\ \A i \in 1..Len(z) : (y \o z)[Len(y) + i] = z[i]
  <1>1. y \o z \in Seq(Byte) /\ Len(y \o z) = Len(y) + Len(z) /\ Len(y) \in Nat /\ Len(z) \in Nat
    BY TwoParts
  <1>2. \A i \in 1..Len(y \o z) : (y \o z)[i] = IF i <= Len(y) THEN y[i] ELSE z[i - Len(y)]
    BY ConcatProperties
  <1>3. ASSUME NEW i \in 1..Len(z) PROVE (y \o z)[Len(y) + i] = z[i]
    <2>1. Len(y) + i \in 1..Len(y \o z) /\ ~(Len(y) + i <= Len(y)) /\ Len(y) + i - Len(y) = i
      BY <1>1
    <2> QED BY <2>1, <1>2
  <1> QED BY <1>1, <1>3

LEMMA Regroup ==
  ASSUME NEW a \in Seq(Byte), NEW b \in Seq(Byte), NEW c \in Seq(Byte)
  PROVE  (a \o b) \o c = a \o (b \o c)
  BY ConcatAssociative

LEMMA Splice ==
  ASSUME NEW a \in Seq(Byte), NEW b \in Seq(Byte), NEW n \in Nat, Len(a) = n, Len(b) = n
  PROVE  \A j \in 1..(n + n) : (a \o b)[j] = IF j <= n THEN a[j] ELSE b[j - n]
  BY ConcatProperties

\* z and w agree as far as both go.
Begins(z, w) == \A i \in Nat \ {0} : i <= Len(z) /\ i <= Len(w) => z[i] = w[i]

LEMMA BeginsPrefix ==
  ASSUME NEW z \in Seq(Byte), NEW v \in Seq(Byte), NEW w \in Seq(Byte),
         Len(z) <= Len(v), Begins(z, v)
  PROVE  Begins(z, v \o w)
  <1>1. /\ Len(z) \in Nat /\ Len(v) \in Nat /\ Len(v \o w) \in Nat
        /\ \A i \in 1..Len(v \o w) : (v \o w)[i] = IF i <= Len(v) THEN v[i] ELSE w[i - Len(v)]
        /\ Len(v \o w) >= Len(v)
    <2>1. Len(v \o w) = Len(v) + Len(w) /\ Len(v) \in Nat /\ Len(w) \in Nat BY TwoParts
    <2> QED BY <2>1, Joined
  <1> SUFFICES ASSUME NEW i \in Nat \ {0}, i <= Len(z), i <= Len(v \o w)
               PROVE  z[i] = (v \o w)[i]
    BY DEF Begins
  <1>2. i \in 1..Len(v \o w) /\ i <= Len(v) BY <1>1
  <1>3. (v \o w)[i] = v[i] BY <1>1, <1>2
  <1>4. z[i] = v[i] BY <1>2 DEF Begins
  <1> QED BY <1>3, <1>4

LEMMA BeginsWhole ==
  ASSUME NEW w \in Seq(Byte), NEW x \in Seq(Byte)
  PROVE  Begins(w \o x, w)
  <1> DEFINE v == w \o x
  <1>1. /\ Len(w) \in Nat /\ Len(v) \in Nat
        /\ \A i \in 1..Len(v) : v[i] = IF i <= Len(w) THEN w[i] ELSE x[i - Len(w)]
    BY Joined, LenProperties
  <1> HIDE DEF v
  <1>2. Begins(v, w)
    <2> SUFFICES ASSUME NEW i \in Nat \ {0}, i <= Len(v), i <= Len(w) PROVE v[i] = w[i]
      BY DEF Begins
    <2>1. i \in 1..Len(v) BY <1>1
    <2> QED BY <1>1, <2>1
  <1> QED BY <1>2 DEF v

\* A part of b behind a, and b behind a.
LEMMA BeginsPart ==
  ASSUME NEW a \in Seq(Byte), NEW b \in Seq(Byte), NEW m \in 0..Len(b)
  PROVE  LET z == a \o SubSeq(b, 1, m) IN
         z \in Seq(Byte) /\ Len(z) = Len(a) + m /\ Begins(z, a \o b)
  <1> DEFINE p == SubSeq(b, 1, m)
             z == a \o p
             w == a \o b
  <1>1. Len(a) \in Nat /\ Len(b) \in Nat /\ m \in Nat /\ m <= Len(b) BY LenProperties
  <1>2. \A i \in 1..m : b[i] \in Byte BY <1>1, ElementOfSeq
  <1>3. /\ p \in Seq(Byte) /\ Len(p) = IF 1 <= m THEN m - 1 + 1 ELSE 0
        /\ \A i \in 1..(m - 1 + 1) : p[i] = b[1 + i - 1]
    BY <1>1, <1>2, SubSeqProperties
  <1> HIDE DEF p
  <1>4. Len(p) = m BY <1>1, <1>3
  <1>5. \A i \in 1..m : p[i] = b[i]
    <2> TAKE i \in 1..m
    <2>1. i \in 1..(m - 1 + 1) /\ 1 + i - 1 = i BY <1>1
    <2> QED BY <2>1, <1>3
  <1>6. /\ z \in Seq(Byte) /\ Len(z) = Len(a) + m
        /\ \A i \in 1..Len(z) : z[i] = IF i <= Len(a) THEN a[i] ELSE p[i - Len(a)]
    BY <1>3, <1>4, Joined
  <1>7. /\ Len(w) = Len(a) + Len(b)
        /\ \A i \in 1..Len(w) : w[i] = IF i <= Len(a) THEN a[i] ELSE b[i - Len(a)]
    BY Joined
  <1> HIDE DEF z, w
  <1>8. ASSUME NEW i \in Nat \ {0}, i <= Len(z), i <= Len(w) PROVE z[i] = w[i]
    <2>1. i \in 1..Len(z) /\ i \in 1..Len(w) BY <1>1, <1>6, <1>7, <1>8
    <2>2. CASE i <= Len(a) BY <2>1, <2>2, <1>6, <1>7
    <2>3. CASE ~(i <= Len(a))
      <3>1. i - Len(a) \in 1..m BY <1>1, <1>6, <1>8, <2>3
      <3> QED BY <3>1, <2>1, <2>3, <1>5, <1>6, <1>7
    <2> QED BY <2>2, <2>3
  <1>9. Begins(z, w) BY <1>8 DEF Begins
  <1> QED BY <1>6, <1>9 DEF z, w, p

-----------------------------------------------------------------------------
(* Messages in a sequence of bytes *)

\* A head, or the reason why there is none, at a position of a sequence of l bytes.
HeadRight(h, p, l) ==
  /\ h.ok \in BOOLEAN /\ h.more \in Nat
  /\ h.ok => h.next \in Nat /\ h.next > p /\ h.next <= l
  /\ ~h.ok => h.next \in {Truncated, Reserved}

LEMMA TakesLemma ==
  ASSUME NEW s \in Seq(Byte), NEW p \in Nat, NEW q \in Nat, q > p, NEW more \in Nat
  PROVE  /\ HeadRight(Takes(s, q, more), p, Len(s))
         /\ HeadRight(NoHead(Truncated), p, Len(s)) /\ HeadRight(NoHead(Reserved), p, Len(s))
  <1>1. Len(s) \in Nat BY LenProperties
  <1> QED BY <1>1 DEF Takes, NoHead, HeadRight

LEMMA FieldLemma ==
  ASSUME NEW r \in Nat \ {0}, NEW s \in Seq(Byte), NEW p \in Nat, NEW k \in {1, 2, 4},
         p + k <= Len(s)
  PROVE  Field(r, s, p, k) \in Nat
  <1>1. ASSUME NEW j \in 1..k PROVE s[p + j] % r \in Nat
    <2>1. Len(s) \in Nat BY LenProperties
    <2>2. p + j \in 1..Len(s) BY <2>1
    <2>3. s[p + j] \in Byte BY <2>2, ElementOfSeq
    <2>b. \A x \in Byte : x \in Nat BY DEF Byte
    <2>4. s[p + j] \in Nat BY <2>3, <2>b
    <2> QED BY <2>4, ModLemma
  <1>2. CASE k = 1 BY <1>1, <1>2 DEF Field
  <1>3. CASE k = 2
    <2>1. s[p + 1] % r \in Nat /\ s[p + 2] % r \in Nat BY <1>1, <1>3
    <2>2. r * (s[p + 1] % r) \in Nat BY <2>1, MulNat
    <2>3. r * (s[p + 1] % r) + (s[p + 2] % r) \in Nat BY <2>1, <2>2, SumNat
    <2> QED BY <1>3, <2>3 DEF Field
  <1>4. CASE k = 4
    <2>1. /\ s[p + 1] % r \in Nat /\ s[p + 2] % r \in Nat
          /\ s[p + 3] % r \in Nat /\ s[p + 4] % r \in Nat
      BY <1>1, <1>4
    <2>2. r * r \in Nat /\ r * r * r \in Nat BY MulNat
    <2>3. /\ r * r * r * (s[p + 1] % r) \in Nat /\ r * r * (s[p + 2] % r) \in Nat
          /\ r * (s[p + 3] % r) \in Nat
      BY <2>1, <2>2, MulNat
    <2>4. /\ r * r * r * (s[p + 1] % r) + r * r * (s[p + 2] % r) + r * (s[p + 3] % r)
               + (s[p + 4] % r) \in Nat
      BY <2>1, <2>3, SumNat
    <2> QED BY <1>4, <2>4 DEF Field
  <1> QED BY <1>2, <1>3, <1>4

LEMMA SizeLemma ==
  /\ \A c \in Byte : SizeOf(c) \in 1..32
  /\ \A c \in Long \cup Many : /\ HeadOf(c)[2] \in {1, 2, 4} /\ HeadOf(c)[3] \in {0, 1}
                               /\ HeadOf(c)[1] = HeadOf(c)[2] + 1
  <1>1. \A c \in Byte : SizeOf(c) \in 1..32
    BY DEF SizeOf, Byte, FixStr, FIXSTR
  <1>2. \A c \in Long \cup Many : /\ HeadOf(c)[2] \in {1, 2, 4} /\ HeadOf(c)[3] \in {0, 1}
                                  /\ HeadOf(c)[1] = HeadOf(c)[2] + 1
    BY DEF HeadOf, Long, Many, BIN_8, STR_8, BIN_16, STR_16, BIN_32, STR_32, EXT_8, EXT_16, EXT_32,
           ARRAY_16, MAP_16, ARRAY_32, MAP_32
  <1> QED BY <1>1, <1>2

LEMMA CountLemma ==
  \A c : /\ c \in FixArray => c - 144 \in Nat
         /\ c \in FixMap => 2 * (c - 128) \in Nat
  <1>1. \A c \in FixArray : c - 144 \in Nat BY DEF FixArray, FIXARRAY
  <1>2. \A c \in FixMap : 2 * (c - 128) \in Nat BY DEF FixMap, FIXMAP
  <1> QED BY <1>1, <1>2

LEMMA LongHeadLemma ==
  ASSUME NEW r \in Nat \ {0}, NEW s \in Seq(Byte), NEW p \in Nat, NEW c \in Long \cup Many
  PROVE  HeadRight(LongHead(r, s, p, c), p, Len(s))
  <1> DEFINE h == HeadOf(c)
             n == Field(r, s, p + 1, h[2])
  <1>1. h[2] \in {1, 2, 4} /\ h[3] \in {0, 1} /\ h[1] = h[2] + 1 BY SizeLemma
  <1>2. Len(s) \in Nat BY LenProperties
  <1>3. CASE p + h[1] > Len(s)
    <2>1. LongHead(r, s, p, c) = NoHead(Truncated) BY <1>3 DEF LongHead
    <2>2. p + 1 \in Nat /\ p + 1 > p OBVIOUS
    <2> QED BY <2>1, <2>2, TakesLemma
  <1>4. CASE ~(p + h[1] > Len(s))
    <2>1. p + 1 \in Nat /\ p + 1 + h[2] <= Len(s) BY <1>1, <1>2, <1>4
    <2>2. n \in Nat BY <1>1, <2>1, FieldLemma
    <2> DEFINE q == p + h[1] + h[3] + n
               k == IF c \in {MAP_16, MAP_32} THEN 2 * n ELSE n
    <2>3. LongHead(r, s, p, c) = IF c \in Long THEN Takes(s, q, 0) ELSE Takes(s, p + h[1], k)
      BY <1>4 DEF LongHead
    <2> HIDE DEF n
    <2>4. q \in Nat /\ q > p /\ p + h[1] \in Nat /\ p + h[1] > p /\ k \in Nat
      <3>1. PICK a \in {1, 2, 4}, b \in {0, 1} : h[2] = a /\ h[3] = b /\ h[1] = a + 1
        BY <1>1
      <3>2. q = p + (a + 1) + b + n /\ p + h[1] = p + (a + 1) BY <3>1
      <3>3. p + (a + 1) + b + n \in Nat /\ p + (a + 1) + b + n > p BY <2>2
      <3>4. p + (a + 1) \in Nat /\ p + (a + 1) > p OBVIOUS
      <3>5. k \in Nat BY <2>2
      <3> HIDE DEF q, k, h
      <3> QED BY <3>2, <3>3, <3>4, <3>5
    <2> HIDE DEF q, k, h
    <2> QED BY <2>3, <2>4, TakesLemma
  <1> QED BY <1>3, <1>4

LEMMA LeadLemma ==
  ASSUME NEW r \in Nat \ {0}, NEW s \in Seq(Byte), NEW p \in Nat
  PROVE  HeadRight(Lead(r, s, p), p, Len(s))
  <1>1. Len(s) \in Nat BY LenProperties
  <1>2. p + 1 \in Nat /\ p + 1 > p OBVIOUS
  <1>3. CASE p >= Len(s)
    <2>1. Lead(r, s, p) = NoHead(Truncated) BY <1>3 DEF Lead
    <2> QED BY <1>2, <2>1, TakesLemma
  <1>4. CASE ~(p >= Len(s))
    <2> DEFINE c == s[p + 1]
    <2>1. c \in Byte
      <3>1. p + 1 \in 1..Len(s) BY <1>1, <1>4
      <3> QED BY <3>1, ElementOfSeq
    <2>2. /\ c \in FixArray => c - 144 \in Nat
          /\ c \in FixMap => 2 * (c - 128) \in Nat
      BY CountLemma
    <2>3. p + SizeOf(c) \in Nat /\ p + SizeOf(c) > p
      <3>1. \A z \in 1..32 : p + z \in Nat /\ p + z > p OBVIOUS
      <3>2. SizeOf(c) \in 1..32 BY <2>1, SizeLemma
      <3> QED BY <3>1, <3>2
    <2>4. Lead(r, s, p) =
            IF c = RESERVED THEN NoHead(Reserved)
            ELSE IF c \in FixArray THEN Takes(s, p + 1, c - 144)
            ELSE IF c \in FixMap THEN Takes(s, p + 1, 2 * (c - 128))
            ELSE IF c \in Long \cup Many THEN LongHead(r, s, p, c)
            ELSE Takes(s, p + SizeOf(c), 0)
      BY <1>4 DEF Lead
    <2> HIDE DEF c
    <2>5. CASE c = RESERVED BY <1>2, <2>4, <2>5, TakesLemma
    <2>6. CASE c /= RESERVED /\ c \in FixArray BY <1>2, <2>2, <2>4, <2>6, TakesLemma
    <2>7. CASE c /= RESERVED /\ c \notin FixArray /\ c \in FixMap
      BY <1>2, <2>2, <2>4, <2>7, TakesLemma
    <2>8. CASE c /= RESERVED /\ c \notin FixArray /\ c \notin FixMap /\ c \in Long \cup Many
      BY <2>4, <2>8, LongHeadLemma
    <2>9. CASE c /= RESERVED /\ c \notin FixArray /\ c \notin FixMap /\ c \notin Long \cup Many
      BY <2>3, <2>4, <2>9, TakesLemma
    <2> QED BY <2>5, <2>6, <2>7, <2>8, <2>9
  <1> QED BY <1>3, <1>4

-----------------------------------------------------------------------------
(* Where a run of messages ends *)

LEMMA OnwardSame ==
  ASSUME NEW r \in Nat \ {0}, NEW s \in Seq(Byte), NEW f, NEW g, NEW p \in 0..Len(s),
         \A q \in (p + 1)..Len(s) : f[q] = g[q]
  PROVE  Onward(f, r, s, p) = Onward(g, r, s, p)
  <1> DEFINE h == Lead(r, s, p)
  <1>1. h.ok => f[h.next] = g[h.next]
    <2>1. HeadRight(h, p, Len(s)) /\ Len(s) \in Nat BY LeadLemma, LenProperties
    <2> HIDE DEF h
    <2> QED BY <2>1 DEF HeadRight
  <1> QED BY <1>1, Zenon DEF Onward

IsRuns(f, r, s) == f = [p \in 0..Len(s) |-> Onward(f, r, s, p)]

LEMMA RunsExist ==
  ASSUME NEW r \in Nat \ {0}, NEW s \in Seq(Byte)
  PROVE  \E f : IsRuns(f, r, s)
  <1> DEFINE n == Len(s)
             From(g, m) == g = [p \in m..n |-> Onward(g, r, s, p)]
             T == {m \in 0..n : ~\E g : From(g, m)}
  <1>0. n \in Nat BY LenProperties
  <1>1. T = {} => \E f : IsRuns(f, r, s)
    <2>1. 0 \in 0..n BY <1>0
    <2>2. T = {} => \E g : From(g, 0) BY <2>1
    <2> QED BY <2>2 DEF IsRuns
  <1> SUFFICES ASSUME T /= {} PROVE FALSE BY <1>1
  <1> HIDE DEF n
  <1>2. PICK m \in T : \A k \in T : k <= m
    <2>1. T \in SUBSET (0..n) OBVIOUS
    <2> HIDE DEF T
    <2> QED BY <1>0, <2>1, LastPosition
  <1>3. m \in 0..n /\ ~\E g : From(g, m) BY <1>2
  <1>4. \E f : \A p \in (m + 1)..n : f[p] = Onward(f, r, s, p)
    <2>1. CASE m = n
      <3>1. (m + 1)..n = {} BY <1>0, <1>3, <2>1
      <3> QED BY <3>1
    <2>2. CASE m < n
      <3>1. m + 1 \in 0..n /\ ~(m + 1 <= m) BY <1>0, <1>3, <2>2
      <3>2. \E g : From(g, m + 1) BY <3>1, <1>2
      <3> QED BY <3>2
    <2> QED BY <1>0, <1>3, <2>1, <2>2
  <1>5. PICK f : \A p \in (m + 1)..n : f[p] = Onward(f, r, s, p) BY <1>4
  <1> DEFINE d == Onward(f, r, s, m)
             g == [p \in m..n |-> IF p = m THEN d ELSE f[p]]
  <1>6. g[m] = d BY <1>0, <1>3
  <1>7. \A p \in (m + 1)..n : g[p] = f[p] BY <1>0, <1>3
  <1>8. g = [p \in m..n |-> g[p]] OBVIOUS
  <1> HIDE DEF g
  <1>9. ASSUME NEW p \in m..n PROVE g[p] = Onward(g, r, s, p)
    <2>0. p \in 0..n /\ \A k \in (p + 1)..n : k \in (m + 1)..n BY <1>0, <1>3
    <2>1. \A k \in (p + 1)..n : f[k] = g[k] BY <2>0, <1>7
    <2>2. Onward(f, r, s, p) = Onward(g, r, s, p) BY <2>0, <2>1, OnwardSame DEF n
    <2>3. CASE p = m BY <2>2, <2>3, <1>6
    <2>4. CASE p /= m
      <3>1. p \in (m + 1)..n BY <1>0, <1>3, <2>4
      <3> QED BY <3>1, <1>5, <1>7, <2>2
    <2> QED BY <2>3, <2>4
  <1>10. From(g, m) BY <1>8, <1>9
  <1> QED BY <1>3, <1>10

LEMMA RunsLemma ==
  ASSUME NEW r \in Nat \ {0}, NEW s \in Seq(Byte), NEW p \in 0..Len(s), NEW n \in Nat
  PROVE  LET h == Lead(r, s, p) IN
         Runs(r, s)[p][n] = IF n = 0 THEN p
                            ELSE IF h.ok THEN Runs(r, s)[h.next][n - 1 + h.more] ELSE h.next
  <1> DEFINE f == Runs(r, s)
  <1>1. f = CHOOSE g : IsRuns(g, r, s) BY DEF Runs, IsRuns
  <1>2. IsRuns(f, r, s) BY <1>1, RunsExist
  <1> HIDE DEF f
  <1>3. f[p] = Onward(f, r, s, p) BY <1>2 DEF IsRuns
  <1>4. f[p][n] = LET h == Lead(r, s, p) IN
                  IF n = 0 THEN p ELSE IF h.ok THEN f[h.next][n - 1 + h.more] ELSE h.next
    BY <1>3 DEF Onward
  <1> QED BY <1>4 DEF f

\* One head further.
LEMMA RunEndLemma ==
  ASSUME NEW r \in Nat \ {0}, NEW s \in Seq(Byte), NEW p \in Nat, NEW n \in Nat, n > 0,
         NEW h, h = Lead(r, s, p)
  PROVE  /\ h.ok => RunEnd(r, s, p, n) = RunEnd(r, s, h.next, n - 1 + h.more)
         /\ ~h.ok => RunEnd(r, s, p, n) = h.next
  <1>0. Len(s) \in Nat /\ HeadRight(h, p, Len(s)) BY LeadLemma, LenProperties
  <1>1. CASE p > Len(s)
    <2>1. h = NoHead(Truncated) BY <1>0, <1>1 DEF Lead
    <2>2. ~h.ok /\ h.next = Truncated BY <2>1 DEF NoHead
    <2>3. RunEnd(r, s, p, n) = Truncated BY <1>1 DEF RunEnd
    <2> QED BY <2>2, <2>3
  <1>2. CASE ~(p > Len(s))
    <2> DEFINE f == Runs(r, s)
    <2>1. p \in 0..Len(s) BY <1>0, <1>2
    <2>2. f[p][n] = IF h.ok THEN f[h.next][n - 1 + h.more] ELSE h.next BY <2>1, RunsLemma
    <2>3. RunEnd(r, s, p, n) = f[p][n] BY <1>2 DEF RunEnd
    <2>4. ASSUME h.ok PROVE RunEnd(r, s, h.next, n - 1 + h.more) = f[h.next][n - 1 + h.more]
      <3>1. h.next \in 0..Len(s) /\ ~(h.next > Len(s)) /\ n - 1 + h.more \in Nat
        BY <1>0, <2>4 DEF HeadRight
      <3>2. n - 1 + h.more = 0 => f[h.next][n - 1 + h.more] = h.next BY <3>1, RunsLemma
      <3> HIDE DEF f
      <3> QED BY <3>1, <3>2 DEF RunEnd, f
    <2> HIDE DEF f
    <2> QED BY <2>2, <2>3, <2>4
  <1> QED BY <1>1, <1>2
=============================================================================
