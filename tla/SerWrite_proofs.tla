--------------------------- MODULE SerWrite_proofs ---------------------------
(* Proofs about SerWrite, for all bytes, sizes and writes.                   *)
EXTENDS SerWrite, SequenceTheorems, TLAPS

-----------------------------------------------------------------------------
(* Sequences *)

\* A slice depends on the bytes in it alone.
LEMMA SameSlice ==
  ASSUME NEW S, NEW m \in Seq(S), NEW n \in Seq(S), NEW lo \in Nat, NEW hi \in Nat,
         hi <= Len(m), hi <= Len(n), \A k \in (lo + 1)..hi : m[k] = n[k]
  PROVE  /\ SubSeq(m, lo + 1, hi) = SubSeq(n, lo + 1, hi)
         /\ SubSeq(m, lo + 1, hi) \in Seq(S)
  <1> DEFINE a == SubSeq(m, lo + 1, hi)
             b == SubSeq(n, lo + 1, hi)
  <1>1. Len(m) \in Nat /\ Len(n) \in Nat BY LenProperties
  <1>2. \A k \in (lo + 1)..hi : m[k] \in S /\ n[k] \in S BY <1>1, ElementOfSeq
  <1>3. lo + 1 \in Int /\ hi \in Int OBVIOUS
  <1>4. /\ a \in Seq(S) /\ Len(a) = IF lo + 1 <= hi THEN hi - (lo + 1) + 1 ELSE 0
        /\ \A i \in 1..(hi - (lo + 1) + 1) : a[i] = m[lo + 1 + i - 1]
    BY <1>2, <1>3, SubSeqProperties
  <1>5. /\ b \in Seq(S) /\ Len(b) = IF lo + 1 <= hi THEN hi - (lo + 1) + 1 ELSE 0
        /\ \A i \in 1..(hi - (lo + 1) + 1) : b[i] = n[lo + 1 + i - 1]
    BY <1>2, <1>3, SubSeqProperties
  <1> HIDE DEF a, b
  <1>6. \A i \in 1..Len(a) : a[i] = b[i]
    <2> TAKE i \in 1..Len(a)
    <2>1. i \in 1..(hi - (lo + 1) + 1) /\ lo + 1 + i - 1 \in (lo + 1)..hi BY <1>4
    <2> QED BY <2>1, <1>4, <1>5
  <1>7. a = b BY <1>4, <1>5, <1>6, SeqEqual
  <1> QED BY <1>4, <1>7 DEF a, b

\* Buffer n has the `count` bytes that m has behind `from`, and t behind those.
Extended(m, n, from, count, t) ==
  /\ from + count <= Len(m) /\ from + count + Len(t) <= Len(n)
  /\ \A k \in 1..(from + count) : n[k] = m[k]
  /\ \A j \in 1..Len(t) : n[from + count + j] = t[j]

Longer(m, n, from, count, t) ==
  SubSeq(n, from + 1, from + count + Len(t)) = SubSeq(m, from + 1, from + count) \o t

LEMMA LongerSlice ==
  ASSUME NEW S, NEW m \in Seq(S), NEW n \in Seq(S), NEW t \in Seq(S),
         NEW from \in Nat, NEW count \in Nat, Extended(m, n, from, count, t)
  PROVE  Longer(m, n, from, count, t)
  <1>0. /\ from + count <= Len(m) /\ from + count + Len(t) <= Len(n)
        /\ \A k \in 1..(from + count) : n[k] = m[k]
        /\ \A j \in 1..Len(t) : n[from + count + j] = t[j]
    BY DEF Extended
  <1> DEFINE size == count + Len(t)
             a == SubSeq(m, from + 1, from + count)
             b == SubSeq(n, from + 1, from + count + Len(t))
  <1>1. Len(m) \in Nat /\ Len(n) \in Nat /\ Len(t) \in Nat BY <1>0, LenProperties
  <1>2. \A k \in (from + 1)..(from + count) : m[k] \in S BY <1>0, <1>1, ElementOfSeq
  <1>3. \A k \in (from + 1)..(from + count + Len(t)) : n[k] \in S BY <1>0, <1>1, ElementOfSeq
  <1>4. a \in Seq(S) /\ Len(a) = count /\ \A i \in 1..count : a[i] = m[from + i]
    <2>1. /\ a \in Seq(S)
          /\ Len(a) = IF from + 1 <= from + count THEN from + count - (from + 1) + 1 ELSE 0
          /\ \A i \in 1..(from + count - (from + 1) + 1) : a[i] = m[from + 1 + i - 1]
      <3>1. from + 1 \in Int /\ from + count \in Int BY <1>0
      <3> QED BY <1>2, <3>1, SubSeqProperties
    <2> HIDE DEF a
    <2>2. from + count - (from + 1) + 1 = count BY <1>0
    <2>3. Len(a) = count BY <1>0, <2>1
    <2>4. \A i \in 1..count : from + 1 + i - 1 = from + i BY <1>0
    <2> QED BY <2>1, <2>2, <2>3, <2>4
  <1>5. b \in Seq(S) /\ Len(b) = size /\ \A i \in 1..size : b[i] = n[from + i]
    <2>1. /\ b \in Seq(S)
          /\ Len(b) = IF from + 1 <= from + count + Len(t)
                      THEN from + count + Len(t) - (from + 1) + 1 ELSE 0
          /\ \A i \in 1..(from + count + Len(t) - (from + 1) + 1) : b[i] = n[from + 1 + i - 1]
      <3>1. from + 1 \in Int /\ from + count + Len(t) \in Int BY <1>0, <1>1
      <3> QED BY <1>3, <3>1, SubSeqProperties
    <2> HIDE DEF b
    <2>2. from + count + Len(t) - (from + 1) + 1 = size BY <1>0, <1>1
    <2>3. Len(b) = size BY <1>0, <1>1, <2>1
    <2>4. \A i \in 1..size : from + 1 + i - 1 = from + i BY <1>0, <1>1
    <2> QED BY <2>1, <2>2, <2>3, <2>4
  <1> HIDE DEF a, b
  <1>6. /\ a \o t \in Seq(S) /\ Len(a \o t) = size
        /\ \A i \in 1..size : (a \o t)[i] = IF i <= count THEN a[i] ELSE t[i - count]
    BY <1>0, <1>1, <1>4, ConcatProperties
  <1>7. \A i \in 1..size : b[i] = (a \o t)[i]
    <2> TAKE i \in 1..size
    <2>0. i \in Nat /\ (i <= count \/ i > count) /\ (i <= count => i \in 1..count)
      BY <1>0, <1>1
    <2>1. CASE i <= count
      <3>1. from + i \in 1..(from + count) /\ i \in 1..count BY <2>1, <1>0, <1>1
      <3> QED BY <2>1, <3>1, <1>0, <1>4, <1>5, <1>6
    <2>2. CASE i > count
      <3>1. i - count \in 1..Len(t) /\ from + count + (i - count) = from + i BY <2>2, <1>0, <1>1
      <3>2. n[from + i] = t[i - count] BY <1>0, <3>1
      <3>3. ~(i <= count) BY <2>2
      <3> QED BY <3>2, <3>3, <1>5, <1>6
    <2> HIDE DEF size
    <2> QED BY <2>0, <2>1, <2>2
  <1>8. b = a \o t BY <1>5, <1>6, <1>7, SeqEqual
  <1> QED BY <1>8 DEF a, b, Longer

-----------------------------------------------------------------------------
(* Writes.  Whatever the implementation, a write appends t: all it was given, *)
(* or when it fails nothing or, in a cursor, the first of it.               *)

Appended(buf, t) ==
  /\ mem' \in Seq(Bytes) /\ t \in Seq(Bytes)
  /\ base + len + Len(t) <= Len(mem')
  /\ \A k \in 1..(base + len) : mem'[k] = mem[k]
  /\ \A j \in 1..Len(t) : mem'[base + len + j] = t[j]
  /\ len' = len + Len(t) /\ asked' = buf
  /\ kind \in Reserving => len' = Len(mem')
  /\ \/ result' = "ok" /\ t = buf
     \/ result' = "BufferFull" /\ kind /= "Cursor" /\ t = <<>>
     \/ result' = "BufferFull" /\ kind = "Cursor" /\ t \in Sink!Prefixes(buf) \ {buf}
  /\ taken' = <<>> /\ UNCHANGED <<kind, base>>

LEMMA CopiedLemma ==
  ASSUME InBuffer, NEW buf \in Seq(Bytes)
  PROVE  /\ Copied(buf) \in Seq(Bytes) /\ Len(Copied(buf)) = Len(mem)
         /\ \A k \in 1..(base + len) : Copied(buf)[k] = mem[k]
         /\ \A j \in 1..Len(buf) : base + len + j <= Len(mem) => Copied(buf)[base + len + j] = buf[j]
  <1>1. /\ Len(mem) \in Nat /\ DOMAIN mem = 1..Len(mem) /\ Len(buf) \in Nat
        /\ base \in Nat /\ len \in Nat /\ base + len <= Len(mem)
    BY LenProperties DEF InBuffer
  <1>2. \A k \in 1..Len(mem) : mem[k] \in Bytes BY ElementOfSeq DEF InBuffer
  <1>3. \A k \in (base + len + 1)..(base + len + Len(buf)) : buf[k - base - len] \in Bytes
    <2> TAKE k \in (base + len + 1)..(base + len + Len(buf))
    <2>1. k - base - len \in 1..Len(buf) BY <1>1
    <2> QED BY <2>1, ElementOfSeq
  <1>4. Copied(buf) \in [1..Len(mem) -> Bytes] BY <1>1, <1>2, <1>3 DEF Copied
  <1>5. Copied(buf) \in Seq(Bytes) /\ Len(Copied(buf)) = Len(mem) BY <1>1, <1>4
  <1>6. \A k \in 1..(base + len) : Copied(buf)[k] = mem[k] BY <1>1 DEF Copied
  <1>7. \A j \in 1..Len(buf) : base + len + j <= Len(mem) => Copied(buf)[base + len + j] = buf[j]
    <2> TAKE j \in 1..Len(buf)
    <2> HAVE base + len + j <= Len(mem)
    <2> DEFINE k == base + len + j
    <2>1. /\ k \in (base + len + 1)..(base + len + Len(buf))
          /\ k - base - len = j /\ k \in DOMAIN mem
      BY <1>1
    <2> HIDE DEF k
    <2>2. Copied(buf)[k] = buf[k - base - len] BY <2>1 DEF Copied
    <2>3. Copied(buf)[k] = buf[j] BY <2>1, <2>2
    <2> QED BY <2>3 DEF k
  <1> QED BY <1>5, <1>6, <1>7

LEMMA FullLemma ==
  ASSUME InBuffer, NEW buf \in Seq(Bytes), Full(buf), kind /= "Cursor"
  PROVE  Appended(buf, <<>>)
  <1>1. <<>> \in Seq(Bytes) /\ Len(<<>>) = 0 BY EmptySeq
  <1>2. mem' = mem /\ len' = len BY DEF Full
  <1> QED BY <1>1, <1>2 DEF Full, Appended, InBuffer

LEMMA FitsLemma ==
  ASSUME InBuffer, NEW buf \in Seq(Bytes), Fits(buf) \/ buf = <<>>, kind \notin Reserving,
         mem' = Copied(buf), Ok(buf)
  PROVE  Appended(buf, buf)
  <1>1. Len(buf) \in Nat /\ Len(mem) \in Nat BY LenProperties DEF InBuffer
  <1>2. base + len + Len(buf) <= Len(mem)
    <2>1. CASE Fits(buf) BY <2>1 DEF Fits
    <2>2. CASE buf = <<>> BY <2>2, EmptySeq DEF InBuffer
    <2> QED BY <2>1, <2>2
  <1>3. \A j \in 1..Len(buf) : base + len + j <= Len(mem) BY <1>1, <1>2 DEF InBuffer
  <1> QED BY <1>2, <1>3, CopiedLemma DEF Ok, Appended

LEMMA CursorLemma ==
  ASSUME InBuffer, NEW buf \in Seq(Bytes), WriteCursor(buf)
  PROVE  \E t \in Seq(Bytes) : Appended(buf, t)
  <1>1. kind = "Cursor" /\ kind \notin Reserving BY DEF WriteCursor, Reserving
  <1>2. CASE Fits(buf)
    <2>1. mem' = Copied(buf) /\ Ok(buf) BY <1>2 DEF WriteCursor
    <2> QED BY <1>1, <1>2, <2>1, FitsLemma
  <1>3. CASE ~Fits(buf)
    <2> DEFINE n == Len(mem) - base - len
               t == SubSeq(buf, 1, n)
    <2>1. /\ Len(buf) \in Nat /\ Len(mem) \in Nat /\ base \in Nat /\ len \in Nat
          /\ base + len <= Len(mem)
      BY LenProperties DEF InBuffer
    <2>2. n \in 0..Len(buf) /\ n < Len(buf) BY <1>3, <2>1 DEF Fits
    <2>3. t \in Seq(Bytes) /\ Len(t) = n /\ \A j \in 1..n : t[j] = buf[j]
      <3>1. \A j \in 1..n : buf[j] \in Bytes BY <2>1, <2>2, ElementOfSeq
      <3>2. /\ t \in Seq(Bytes) /\ Len(t) = IF 1 <= n THEN n - 1 + 1 ELSE 0
            /\ \A j \in 1..(n - 1 + 1) : t[j] = buf[1 + j - 1]
        <4>1. 1 \in Int /\ n \in Int BY <2>1
        <4> HIDE DEF n
        <4> QED BY <3>1, <4>1, SubSeqProperties
      <3> HIDE DEF t, n
      <3>3. n - 1 + 1 = n /\ \A j \in 1..n : 1 + j - 1 = j BY <2>2
      <3> QED BY <3>2, <3>3, <2>2
    <2>4. t \in Sink!Prefixes(buf) \ {buf} BY <2>2, <2>3 DEF Sink!Prefixes
    <2>5. /\ mem' = Copied(buf) /\ len' = Len(mem) - base /\ asked' = buf
          /\ result' = "BufferFull" /\ taken' = <<>> /\ UNCHANGED <<kind, base>>
      BY <1>3 DEF WriteCursor
    <2>6. mem' \in Seq(Bytes) /\ Len(mem') = Len(mem) /\ \A k \in 1..(base + len) : mem'[k] = mem[k]
      BY <2>5, CopiedLemma
    <2>7. \A j \in 1..n : mem'[base + len + j] = t[j]
      <3> TAKE j \in 1..n
      <3>1. j \in 1..Len(buf) /\ base + len + j <= Len(mem) BY <2>1, <2>2
      <3>2. mem'[base + len + j] = buf[j] BY <2>5, <3>1, CopiedLemma
      <3> QED BY <3>2, <2>3
    <2>8. base + len + n = Len(mem) /\ len + n = Len(mem) - base BY <2>1
    <2> HIDE DEF t, n
    <2>9. Appended(buf, t) BY <1>1, <2>3, <2>4, <2>5, <2>6, <2>7, <2>8 DEF Appended
    <2> QED BY <2>3, <2>9
  <1> QED BY <1>2, <1>3

LEMMA ReservingLemma ==
  ASSUME InBuffer, NEW buf \in Seq(Bytes), WriteReserving(buf)
  PROVE  \E t \in Seq(Bytes) : Appended(buf, t)
  <1>1. CASE Full(buf) BY <1>1, FullLemma, EmptySeq DEF WriteReserving, Reserving
  <1>2. CASE mem' = mem \o buf /\ Ok(buf)
    <2>1. /\ Len(buf) \in Nat /\ Len(mem) \in Nat /\ base = 0 /\ len = Len(mem)
          /\ mem \in Seq(Bytes) /\ kind \in Reserving
      BY LenProperties DEF InBuffer, WriteReserving
    <2>2. /\ mem' \in Seq(Bytes) /\ Len(mem') = Len(mem) + Len(buf)
          /\ \A i \in 1..Len(mem) + Len(buf) :
                mem'[i] = IF i <= Len(mem) THEN mem[i] ELSE buf[i - Len(mem)]
      BY <1>2, <2>1, ConcatProperties
    <2>3. \A k \in 1..(base + len) : mem'[k] = mem[k] BY <2>1, <2>2
    <2>4. \A j \in 1..Len(buf) : mem'[base + len + j] = buf[j]
      <3> TAKE j \in 1..Len(buf)
      <3>1. /\ Len(mem) + j \in 1..Len(mem) + Len(buf) /\ ~(Len(mem) + j <= Len(mem))
            /\ Len(mem) + j - Len(mem) = j /\ base + len + j = Len(mem) + j
        BY <2>1
      <3> QED BY <2>2, <3>1
    <2>5. base + len + Len(buf) <= Len(mem') /\ len + Len(buf) = Len(mem') BY <2>1, <2>2
    <2>6. Appended(buf, buf) BY <1>2, <2>2, <2>3, <2>4, <2>5 DEF Ok, Appended
    <2> QED BY <2>6
  <1> QED BY <1>1, <1>2 DEF WriteReserving

\* A vector that ends before the bytes written would is cut at the cursor first.
LEMMA GrowingLemma ==
  ASSUME InBuffer, NEW buf \in Seq(Bytes), WriteGrowing(buf)
  PROVE  Appended(buf, buf)
  <1>1. kind = "Cursor<Vec>" /\ kind \notin Reserving /\ Ok(buf) BY DEF WriteGrowing, Reserving
  <1>2. CASE Fits(buf)
    <2>1. mem' = Copied(buf) BY <1>2 DEF WriteGrowing
    <2> QED BY <1>1, <1>2, <2>1, FitsLemma
  <1>3. CASE ~Fits(buf)
    <2> DEFINE n == base + len
               a == SubSeq(mem, 1, n)
    <2>1. /\ Len(buf) \in Nat /\ Len(mem) \in Nat /\ n \in Nat /\ n <= Len(mem)
          /\ base \in Nat /\ len \in Nat
      BY LenProperties DEF InBuffer
    <2>2. \A k \in 1..n : mem[k] \in Bytes BY <2>1, ElementOfSeq DEF InBuffer
    <2>3. a \in Seq(Bytes) /\ Len(a) = n /\ \A k \in 1..n : a[k] = mem[k]
      <3>1. /\ a \in Seq(Bytes) /\ Len(a) = IF 1 <= n THEN n - 1 + 1 ELSE 0
            /\ \A k \in 1..(n - 1 + 1) : a[k] = mem[1 + k - 1]
        <4>1. 1 \in Int /\ n \in Int BY <2>1
        <4> HIDE DEF n
        <4> QED BY <2>2, <4>1, SubSeqProperties
      <3> HIDE DEF a, n
      <3>2. n - 1 + 1 = n /\ \A k \in 1..n : 1 + k - 1 = k BY <2>1
      <3> QED BY <2>1, <3>1, <3>2
    <2>4. mem' = a \o buf BY <1>3 DEF WriteGrowing
    <2> HIDE DEF a
    <2>5. /\ mem' \in Seq(Bytes) /\ Len(mem') = n + Len(buf)
          /\ \A k \in 1..(n + Len(buf)) : mem'[k] = IF k <= n THEN a[k] ELSE buf[k - n]
      <3> HIDE DEF n
      <3> QED BY <2>3, <2>4, ConcatProperties
    <2>6. \A k \in 1..n : mem'[k] = mem[k]
      <3> HIDE DEF n
      <3> TAKE k \in 1..n
      <3>1. k \in 1..(n + Len(buf)) /\ k <= n BY <2>1
      <3> QED BY <2>3, <2>5, <3>1
    <2>7. \A j \in 1..Len(buf) : mem'[n + j] = buf[j]
      <3> HIDE DEF n
      <3> TAKE j \in 1..Len(buf)
      <3> DEFINE k == n + j
      <3>1. k \in 1..(n + Len(buf)) /\ ~(k <= n) /\ k - n = j BY <2>1
      <3> HIDE DEF k
      <3>2. mem'[k] = buf[k - n] BY <2>5, <3>1
      <3>3. mem'[k] = buf[j] BY <3>1, <3>2
      <3> QED BY <3>3 DEF k
    <2> QED BY <1>1, <2>5, <2>6, <2>7 DEF Ok, Appended
  <1> QED BY <1>2, <1>3

LEMMA WriteLemma ==
  ASSUME InBuffer, NEW buf \in Bufs, Write(buf)
  PROVE  \E t \in Seq(Bytes) : Appended(buf, t)
  <1>1. buf \in Seq(Bytes) BY BufsAssumption
  <1>2. CASE WriteSlice(buf)
    BY <1>1, <1>2, FullLemma, FitsLemma, EmptySeq DEF WriteSlice, Reserving
  <1>3. CASE WriteSpare(buf)
    BY <1>1, <1>3, FullLemma, FitsLemma, EmptySeq DEF WriteSpare, Reserving, Spare
  <1>4. CASE WriteBounded(buf)
    BY <1>1, <1>4, FullLemma, FitsLemma, EmptySeq DEF WriteBounded, Reserving, Bounded
  <1>5. CASE WriteReserving(buf) BY <1>1, <1>5, ReservingLemma
  <1>6. CASE WriteCursor(buf) BY <1>1, <1>6, CursorLemma
  <1>7. CASE WriteGrowing(buf) BY <1>1, <1>7, GrowingLemma
  <1> QED BY <1>2, <1>3, <1>4, <1>5, <1>6, <1>7 DEF Write

-----------------------------------------------------------------------------
(* Where things are                                                          *)

LEMMA InitLemma == Init => InBuffer
  <1> SUFFICES ASSUME Init PROVE InBuffer OBVIOUS
  <1>1. <<>> \in Seq(Bytes) /\ Len(<<>>) = 0 BY EmptySeq
  <1>2. PICK n \in IF kind = "Cursor<Vec>" THEN 0..Size
                    ELSE {IF kind \in Reserving THEN 0 ELSE Size} : mem = [k \in 1..n |-> 0]
    BY DEF Init
  <1>3. n \in Nat /\ (kind \in Reserving => n = 0) BY <1>2, SizeAssumption DEF Reserving
  <1>4. mem \in Seq(Bytes) /\ Len(mem) = n
    <2>1. mem \in [1..n -> Bytes] BY <1>2, ByteAssumption
    <2> QED BY <1>3, <2>1
  <1>5. base \in Nat /\ len = 0 /\ base + len <= Len(mem) /\ (kind \in Reserving => base = 0)
    BY <1>3, <1>4 DEF Init, Reserving
  <1>6. kind \in Kinds /\ asked \in Seq(Bytes) /\ taken \in Seq(Bytes) BY <1>1 DEF Init
  <1> QED BY <1>3, <1>4, <1>5, <1>6 DEF InBuffer

LEMMA AppendedInv ==
  ASSUME InBuffer, NEW buf \in Seq(Bytes), NEW t \in Seq(Bytes), Appended(buf, t)
  PROVE  InBuffer'
  <1>1. Len(t) \in Nat /\ base \in Nat /\ len \in Nat BY LenProperties DEF InBuffer
  <1>2. len' \in Nat /\ base' + len' <= Len(mem') /\ taken' \in Seq(Bytes)
    BY <1>1, EmptySeq DEF Appended
  <1> QED BY <1>1, <1>2 DEF Appended, InBuffer

\* The slice that split hands out is all of the populated part.
LEMMA SplitInv ==
  ASSUME InBuffer, Split
  PROVE  InBuffer' /\ taken' = Populated
  <1>1. /\ base \in Nat /\ len \in Nat /\ Len(mem) \in Nat /\ mem \in Seq(Bytes)
        /\ base + len <= Len(mem)
    BY LenProperties DEF InBuffer
  <1>2. taken' = Populated BY DEF Split, SplitAt, Populated
  <1>3. Populated \in Seq(Bytes) BY <1>1, SameSlice DEF Populated
  <1>4. /\ mem' = mem /\ base' = base + len /\ len' = 0 /\ kind' = kind /\ kind = "SliceWriter"
        /\ asked' \in Seq(Bytes)
    BY EmptySeq DEF Split, SplitAt
  <1>5. kind' \in Kinds /\ kind' \notin Reserving BY <1>4 DEF InBuffer, Reserving
  <1> QED BY <1>1, <1>2, <1>3, <1>4, <1>5 DEF InBuffer

LEMMA ClearInv ==
  ASSUME InBuffer, Clear
  PROVE  InBuffer'
  <1>1. asked' \in Seq(Bytes) /\ taken' \in Seq(Bytes) BY EmptySeq DEF Clear
  <1>2. base' \in Nat /\ len' \in Nat /\ base' + len' <= Len(mem')
    BY LenProperties DEF Clear, InBuffer
  <1> QED BY <1>1, <1>2 DEF Clear, InBuffer, Reserving

LEMMA StepInv ==
  ASSUME InBuffer, [Next]_vars
  PROVE  InBuffer'
  <1>1. ASSUME NEW buf \in Bufs, Write(buf) PROVE InBuffer'
    <2>1. PICK t \in Seq(Bytes) : Appended(buf, t) BY <1>1, WriteLemma
    <2>2. buf \in Seq(Bytes) BY BufsAssumption
    <2> QED BY <2>1, <2>2, AppendedInv
  <1>2. CASE Split BY <1>2, SplitInv
  <1>3. CASE Clear BY <1>3, ClearInv
  <1>4. CASE UNCHANGED vars BY <1>4 DEF vars, InBuffer
  <1> QED BY <1>1, <1>2, <1>3, <1>4 DEF Next

\* The invariant of the refinement.
LEMMA Inductive == Spec => []InBuffer
  BY InitLemma, StepInv, PTL DEF Spec

-----------------------------------------------------------------------------
(* A sink                                                                    *)

LEMMA AppendedRefines ==
  ASSUME InBuffer, NEW buf \in Seq(Bytes), NEW t \in Seq(Bytes), Appended(buf, t)
  PROVE  Sink!Write
  <1>1. base \in Nat /\ len \in Nat /\ base + len <= Len(mem) /\ mem \in Seq(Bytes)
    BY DEF InBuffer
  <1>2. /\ mem' \in Seq(Bytes) /\ base + len + Len(t) <= Len(mem')
        /\ \A k \in 1..(base + len) : mem'[k] = mem[k]
        /\ \A j \in 1..Len(t) : mem'[base + len + j] = t[j]
        /\ base' = base /\ len' = len + Len(t) /\ kind' = kind /\ asked' = buf /\ taken' = <<>>
    BY DEF Appended
  <1>3. Populated' = Populated \o t
    <2> DEFINE m == mem
               n == mem'
               from == base
               count == len
    <2>1. m \in Seq(Bytes) /\ n \in Seq(Bytes) /\ from \in Nat /\ count \in Nat
      BY <1>1, <1>2
    <2>2. Extended(m, n, from, count, t) BY <1>1, <1>2 DEF Extended
    <2>3. Populated' = SubSeq(n, from + 1, from + (count + Len(t))) BY <1>2 DEF Populated
    <2>4. Populated = SubSeq(m, from + 1, from + count) BY DEF Populated
    <2> HIDE DEF m, n, from, count
    <2>5. Longer(m, n, from, count, t) BY <2>1, <2>2, LongerSlice
    <2>6. from + (count + Len(t)) = from + count + Len(t) BY <2>1, LenProperties
    <2> QED BY <2>3, <2>4, <2>5, <2>6 DEF Longer
  <1>4. CASE result' = "ok" /\ t = buf BY <1>2, <1>3, <1>4 DEF Sink!Write
  <1>5. CASE result' = "BufferFull" /\ kind /= "Cursor" /\ t = <<>>
    BY <1>2, <1>3, <1>5 DEF Sink!Write
  <1>6. CASE result' = "BufferFull" /\ kind = "Cursor" /\ t \in Sink!Prefixes(buf) \ {buf}
    BY <1>2, <1>3, <1>6 DEF Sink!Write
  <1> QED BY <1>4, <1>5, <1>6 DEF Appended

LEMMA EmptyPart == ASSUME InBuffer, NEW n \in Nat PROVE SubSeq(mem, n + 1, n + 0) = <<>>
  <1>1. n + 1 \in Int /\ n + 0 \in Int /\ n + 1 > n + 0 OBVIOUS
  <1> QED BY <1>1, SubSeqEmpty

LEMMA SplitRefines ==
  ASSUME InBuffer, Split
  PROVE  Sink!Take
  <1>1. base + len \in Nat BY DEF InBuffer
  <1>2. mem' = mem /\ base' = base + len /\ len' = 0 BY DEF Split, SplitAt
  <1>3. Populated' = <<>>
    <2>1. Populated' = SubSeq(mem, (base + len) + 1, (base + len) + 0) BY <1>2 DEF Populated
    <2> QED BY <1>1, <2>1, EmptyPart
  <1> QED BY <1>3, SplitInv DEF Split, Sink!Take

LEMMA ClearRefines ==
  ASSUME InBuffer, Clear
  PROVE  Sink!Forget
  <1>1. base \in Nat BY DEF InBuffer
  <1>2. mem' = mem /\ base' = base /\ len' = 0 BY DEF Clear
  <1>3. Populated' = <<>>
    <2>1. Populated' = SubSeq(mem, base + 1, base + 0) BY <1>2 DEF Populated
    <2> QED BY <1>1, <2>1, EmptyPart
  <1> QED BY <1>3 DEF Clear, Sink!Forget

LEMMA StepRefines ==
  ASSUME InBuffer, [Next]_vars
  PROVE  [Sink!Next]_(Sink!svars)
  <1>1. ASSUME NEW buf \in Bufs, Write(buf) PROVE Sink!Next
    <2>1. PICK t \in Seq(Bytes) : Appended(buf, t) BY <1>1, WriteLemma
    <2>2. buf \in Seq(Bytes) BY BufsAssumption
    <2> QED BY <2>1, <2>2, AppendedRefines DEF Sink!Next
  <1>2. CASE Split BY <1>2, SplitRefines DEF Sink!Next
  <1>3. CASE Clear BY <1>3, ClearRefines DEF Sink!Next
  <1>4. CASE UNCHANGED vars BY <1>4 DEF vars, Populated, Sink!svars
  <1> QED BY <1>1, <1>2, <1>3, <1>4 DEF Next

LEMMA InitRefines == Init => Sink!Init
  <1> SUFFICES ASSUME Init PROVE Sink!Init OBVIOUS
  <1>1. InBuffer BY InitLemma
  <1>2. base \in Nat BY <1>1 DEF InBuffer
  <1>3. len = 0 BY DEF Init
  <1>4. Populated = <<>> BY <1>1, <1>2, <1>3, EmptyPart DEF Populated
  <1> QED BY <1>4 DEF Init, Sink!Init

\* Every implementation is the sink the serializers are written against: a write
\* appends what it was given or fails, only a cursor of a fixed size then keeps a
\* part, and split hands out all that was accepted.
THEOREM Refinement == Spec => IsSink
  <1>1. Init => Sink!Init BY InitRefines
  <1>2. InBuffer /\ [Next]_vars => [Sink!Next]_(Sink!svars) BY StepRefines
  <1> QED BY <1>1, <1>2, Inductive, PTL DEF Spec, IsSink, Sink!Spec
=============================================================================
