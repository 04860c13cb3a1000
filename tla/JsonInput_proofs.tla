--------------------------- MODULE JsonInput_proofs ---------------------------
(* Proofs about JsonInput, for every set of texts and every decoder, in two  *)
(* parts.                                                                    *)
(*                                                                           *)
(* The buffer: the inductive invariant IInv is preserved by every action,    *)
(* and every action leaves the bytes in front of the deserializer's slice    *)
(* alone.                                                                    *)
(*                                                                           *)
(* The contents: the invariant Right relates what the loop that runs has     *)
(* decoded so far, and every slice lent, to what JsonContent reads in the    *)
(* untouched text, and every action preserves it where IInv holds.           *)
EXTENDS JsonContent, SequenceTheorems, WellFoundedInduction, TLAPS

\* The bytes in front of self.input stay as they are.
BelowIntact == \A i \in Pos : i < base => mem'[i] = mem[i]

\* What every step of the deserializer satisfies.
Kept == IInv' /\ BelowIntact

-----------------------------------------------------------------------------
(* The primitives on the buffer *)

LEMMA WriteAtLemma ==
  ASSUME len \in Nat, NEW m \in [Pos -> Byte], NEW at \in Nat, NEW b \in Seq(Byte)
  PROVE  /\ WriteAt(m, at, b) \in [Pos -> Byte]
         /\ \A i \in Pos : i < at \/ i >= at + Len(b) => WriteAt(m, at, b)[i] = m[i]
  <1>1. ASSUME NEW i \in Pos, i \in at..(at + Len(b) - 1) PROVE b[i - at + 1] \in Byte
    <2>1. i - at + 1 \in 1..Len(b) BY <1>1 DEF Pos
    <2> QED BY <2>1
  <1> QED BY <1>1 DEF WriteAt, Pos

LEMMA CopyWithinLemma ==
  ASSUME len \in Nat, NEW m \in [Pos -> Byte], NEW from \in Nat, NEW to \in Nat, NEW dest \in Nat,
         dest <= from, from <= to, to <= len
  PROVE  /\ CopyWithin(m, from, to, dest) \in [Pos -> Byte]
         /\ \A i \in Pos : i < dest \/ i >= dest + (to - from)
                             => CopyWithin(m, from, to, dest)[i] = m[i]
  <1>1. ASSUME NEW i \in Pos, i \in dest..(dest + (to - from) - 1)
        PROVE m[i + (from - dest)] \in Byte
    <2>1. i + (from - dest) \in Pos BY <1>1 DEF Pos
    <2> QED BY <2>1
  <1> QED BY <1>1 DEF CopyWithin, Pos

LEMMA ScanLemma ==
  ASSUME NEW m, NEW S, NEW from \in Nat, len \in Nat, NEW j \in Scan(m, S, from)
  PROVE  j \in Nat /\ from <= j /\ j <= len
  BY DEF Scan

-----------------------------------------------------------------------------
(* The three ways a step ends: the decoder fails, a slice is lent, or the   *)
(* cursors move on.                                                         *)

LEMMA FailLemma ==
  ASSUME IInv, NEW e \in Errors, Fail(e),
         base' \in 0..len, index' \in 0..len, (base' + index') \in 0..len, base <= base',
         mem' \in [Pos -> Byte], BelowIntact, UNCHANGED <<orig, len, dec>>
  PROVE  Kept
  <1> USE DEF Fail, IInv, TypeOK, call, locals
  <1>1. TypeOK' BY DEF Cursor, Pos, Loans
  <1>2. NoPanic' BY DEF NoPanic
  <1>3. LoopOK' BY DEF LoopOK
  <1>4. UnreadIntact' BY DEF UnreadIntact
  <1>5. BorrowsDisjoint' BY DEF BorrowsDisjoint, Loans
  <1> QED BY <1>1, <1>2, <1>3, <1>4, <1>5 DEF Kept, IInv

LEMMA SplitLemma ==
  ASSUME IInv, NEW o \in Ops, NEW s \in 0..len, NEW at \in Nat, NEW n \in Nat, NEW skip \in Nat,
         SplitInput(o, s, at, n, skip),
         base <= at, at + n + skip <= len, ~dirty => rd <= at + n + skip,
         mem' \in [Pos -> Byte], BelowIntact, UNCHANGED <<orig, len, dec>>,
         ~dirty => \A i \in Pos : i >= at + n + skip => mem'[i] = orig[i]
  PROVE  Kept
  <1> DEFINE new == Loan(o, s, at, n)
  <1>0. /\ base' = at + n + skip /\ index' = 0 /\ pc' = "idle" /\ op' = o /\ src' = s
        /\ borrowed' = borrowed \cup {new}
        /\ UNCHANGED <<locals, err, dirty>>
    BY DEF SplitInput, NextBase
  <1>a. /\ new \in Loans /\ new.lo = at /\ new.hi = at + n
    BY DEF Loan, Loans, IInv, TypeOK
  <1> HIDE DEF new
  <1>1. TypeOK' BY <1>0, <1>a DEF IInv, TypeOK, locals, Cursor, Pos
  <1>2. NoPanic' BY <1>0 DEF NoPanic
  <1>3. LoopOK' BY <1>0 DEF IInv, TypeOK, LoopOK, locals, Cursor
  <1>4. UnreadIntact' BY <1>0 DEF IInv, TypeOK, UnreadIntact, Frontier, Cursor, locals, Pos
  <1>5. BorrowsDisjoint'
    <2>1. \A x \in borrowed : x.lo \in Nat /\ x.hi \in Nat /\ x.lo <= x.hi /\ x.hi <= base
      BY DEF IInv, TypeOK, Loans, BorrowsDisjoint
    <2>2. \A x \in borrowed' : x.lo <= x.hi /\ x.hi <= base'
      BY <1>0, <1>a, <2>1 DEF IInv, TypeOK
    <2>3. ASSUME NEW x \in borrowed', NEW y \in borrowed', x /= y
          PROVE  x.hi <= y.lo \/ y.hi <= x.lo
      <3>1. CASE x \in borrowed /\ y \in borrowed BY <3>1, <2>3 DEF IInv, BorrowsDisjoint
      <3>2. CASE x = new BY <3>2, <2>3, <1>0, <1>a, <2>1 DEF IInv, TypeOK
      <3>3. CASE y = new BY <3>3, <2>3, <1>0, <1>a, <2>1 DEF IInv, TypeOK
      <3> QED BY <3>1, <3>2, <3>3, <1>0
    <2> QED BY <2>2, <2>3 DEF BorrowsDisjoint
  <1> QED BY <1>1, <1>2, <1>3, <1>4, <1>5 DEF Kept, IInv

\* A step that lends nothing and stays inside the decoder, or enters one.
LEMMA MoveLemma ==
  ASSUME IInv, LoopOK',
         base' = base, index' \in 0..len, (base + index') \in 0..len,
         seg' \in 0..len, wr' \in 0..len, rd' \in 0..len, src' \in 0..len, op' \in Ops,
         pc' \in Labels \cup {"idle", "done"}, UNCHANGED <<borrowed, err, dirty, orig, len, dec>>,
         mem' \in [Pos -> Byte], BelowIntact,
         ~dirty => \A i \in Pos : i >= Frontier' => mem'[i] = orig[i]
  PROVE  Kept
  <1> USE DEF IInv, TypeOK
  <1>1. TypeOK'
    <2>0. len \in Nat /\ base \in 0..len /\ len' = len OBVIOUS
    <2>1. base' \in 0..len' /\ index' \in 0..len' /\ (base' + index') \in 0..len' BY <2>0
    <2>2. pc' \in Labels \cup {"idle", "failed", "done", "panic", "ub"} OBVIOUS
    <2>3. mem' \in [Pos' -> Byte] /\ orig' \in [Pos' -> Byte] BY DEF Pos
    <2> QED BY <2>1, <2>2, <2>3 DEF Cursor
  <1>2. NoPanic' BY DEF NoPanic, Labels
  <1>4. UnreadIntact' BY DEF UnreadIntact, Pos
  <1>5. BorrowsDisjoint' BY DEF BorrowsDisjoint
  <1> QED BY <1>1, <1>2, <1>4, <1>5 DEF Kept, IInv
-----------------------------------------------------------------------------
(* Calls *)

LEMMA RefuseLemma ==
  ASSUME IInv, NEW e \in Errors, NEW p \in 0..len, base <= p, Refuse(e, p),
         UNCHANGED <<orig, len, dec>>
  PROVE  Kept
  <1> USE DEF IInv, TypeOK, Refuse, MoveTo, locals
  <1>1. TypeOK'
    <2>1. base' \in 0..len /\ index' \in 0..len /\ (base' + index') \in 0..len OBVIOUS
    <2>2. op' \in Ops BY DEF Ops
    <2> QED BY <2>1, <2>2 DEF Cursor, Pos
  <1>2. NoPanic' BY DEF NoPanic
  <1>3. LoopOK' BY DEF LoopOK
  <1>4. UnreadIntact' BY DEF UnreadIntact
  <1>5. BorrowsDisjoint' BY DEF BorrowsDisjoint
  <1>6. BelowIntact BY DEF BelowIntact
  <1> QED BY <1>1, <1>2, <1>3, <1>4, <1>5, <1>6 DEF Kept, IInv

LEMMA EnterLemma ==
  ASSUME IInv, pc = "idle", NEW label \in Labels, NEW o \in Ops,
         NEW p \in 0..len, NEW q \in 0..len, Cursor <= q,
         Enter(label, o, p, q), UNCHANGED <<orig, len, dec>>
  PROVE  Kept
  <1> USE DEF Enter, MoveTo
  <1>1. base' = base /\ index' \in 0..len /\ (base' + index') \in 0..len /\ Cursor' = q
    BY DEF IInv, TypeOK, Cursor
  <1>2. seg' = q /\ wr' = q /\ rd' = q /\ pc' \in Labels OBVIOUS
  <1>3. LoopOK' BY <1>1, <1>2 DEF IInv, TypeOK, LoopOK, Labels, Cursor
  <1>4. BelowIntact BY DEF BelowIntact
  <1>5. mem' \in [Pos -> Byte] /\ UNCHANGED <<borrowed, err, dirty>> BY DEF IInv, TypeOK
  <1>6. Frontier' = q BY <1>1, <1>2 DEF Frontier
  <1>7. ASSUME ~dirty, NEW i \in Pos, i >= q PROVE mem'[i] = orig[i]
    <2>1. rd <= Cursor BY <1>7 DEF IInv, LoopOK
    <2>2. Frontier <= q BY <2>1 DEF IInv, TypeOK, Frontier
    <2> QED BY <1>7, <2>2, <2>1 DEF IInv, TypeOK, UnreadIntact, Pos, Frontier
  <1> QED BY <1>1, <1>2, <1>3, <1>4, <1>5, <1>6, <1>7, MoveLemma

LEMMA AteLemma ==
  ASSUME IInv, pc \in {"idle", "skip"}, NEW o \in Ops, NEW s \in 0..len,
         NEW p \in 0..len, Cursor <= p, pc = "skip" => rd <= p,
         Ate(o, s, p), UNCHANGED <<orig, len, dec>>
  PROVE  Kept
  <1> USE DEF Ate, MoveTo
  <1>1. base' = base /\ index' \in 0..len /\ (base' + index') \in 0..len /\ Cursor' = p
    BY DEF IInv, TypeOK, Cursor
  <1>2. seg' = seg /\ wr' = wr /\ rd' = rd /\ pc' = "idle" BY DEF locals
  <1>3. LoopOK' BY <1>1, <1>2 DEF IInv, TypeOK, LoopOK, Labels
  <1>4. BelowIntact BY DEF BelowIntact
  <1>5. mem' \in [Pos -> Byte] /\ UNCHANGED <<borrowed, err, dirty>> BY DEF IInv, TypeOK
  <1>7. ASSUME ~dirty, NEW i \in Pos, i >= Frontier' PROVE mem'[i] = orig[i]
    <2>1. rd <= p BY <1>7 DEF IInv, TypeOK, LoopOK
    <2>2. Frontier <= Frontier' BY <2>1, <1>1, <1>2 DEF IInv, TypeOK, Frontier
    <2>3. Frontier \in Nat /\ Frontier' \in Nat BY <1>1, <1>2 DEF IInv, TypeOK, Frontier
    <2> QED BY <1>7, <2>2, <2>3 DEF IInv, TypeOK, UnreadIntact, Pos
  <1>8. seg \in 0..len /\ wr \in 0..len /\ rd \in 0..len BY DEF IInv, TypeOK
  <1> QED BY <1>1, <1>2, <1>3, <1>4, <1>5, <1>7, <1>8, MoveLemma

LEMMA IdleScan ==
  ASSUME IInv, NEW S, NEW p \in Scan(mem, S, Cursor)
  PROVE  p \in 0..len /\ Cursor <= p /\ base <= Cursor /\ Cursor \in 0..len /\ base \in 0..len
  BY ScanLemma DEF IInv, TypeOK, Cursor

LEMMA DeserializeStrKept == ASSUME IInv, DeserializeStr PROVE Kept
  <1> USE DEF DeserializeStr
  <1>1. PICK p \in Scan(mem, NonWs, Cursor) :
          \/ p = len /\ Refuse("UnexpectedEof", Cursor)
          \/ p < len /\ mem[p] = QU /\ Enter("str", "str", p + 1, p + 1)
          \/ p < len /\ mem[p] /= QU /\ Refuse("ExpectedString", p)
    OBVIOUS
  <1>2. p \in 0..len /\ Cursor <= p /\ base <= Cursor /\ Cursor \in 0..len /\ base \in 0..len
    BY IdleScan
  <1>3. CASE Refuse("UnexpectedEof", Cursor) BY <1>2, <1>3, RefuseLemma DEF Errors
  <1>4. CASE p < len /\ Enter("str", "str", p + 1, p + 1)
    <2>1. p + 1 \in 0..len /\ Cursor <= p + 1 BY <1>2, <1>4 DEF IInv, TypeOK
    <2> QED BY <1>4, <2>1, EnterLemma DEF Labels, Ops
  <1>5. CASE Refuse("ExpectedString", p)
    <2>1. base <= p BY <1>2
    <2> QED BY <1>2, <1>5, <2>1, RefuseLemma DEF Errors
  <1> QED BY <1>1, <1>3, <1>4, <1>5

LEMMA EnterArrayKept ==
  ASSUME IInv, pc = "idle", NEW p \in 0..len, Cursor <= p, EnterArray(p),
         UNCHANGED <<orig, len, dec>>
  PROVE  Kept
  <1>1. PICK q \in Scan(mem, NonWs, p) :
          \/ q = len /\ Refuse("UnexpectedEof", p)
          \/ q < len /\ SplitInput("arr", p, q, 0, 1) /\ UNCHANGED mem
          \/ q < len /\ Enter("arr", "arr", p, q)
    BY DEF EnterArray
  <1>0. len \in Nat /\ p \in Nat BY DEF IInv, TypeOK
  <1>2. q \in 0..len /\ p <= q /\ Cursor <= q /\ base <= p /\ base <= q /\ Cursor \in Nat
    BY <1>0, ScanLemma DEF IInv, TypeOK, Cursor
  <1>3. CASE Refuse("UnexpectedEof", p) BY <1>2, <1>3, RefuseLemma DEF Errors
  <1>4. CASE q < len /\ SplitInput("arr", p, q, 0, 1) /\ UNCHANGED mem
    <2>1. BelowIntact /\ mem' \in [Pos -> Byte] BY <1>4 DEF BelowIntact, IInv, TypeOK
    <2>2. ASSUME ~dirty PROVE rd <= Cursor /\ \A i \in Pos : i >= q + 0 + 1 => mem'[i] = orig[i]
      <3>1. rd <= Cursor BY <2>2 DEF IInv, LoopOK
      <3> QED BY <2>2, <3>1, <1>2, <1>4 DEF IInv, TypeOK, UnreadIntact, Frontier, Pos
    <2>3. /\ "arr" \in Ops /\ q \in Nat /\ base <= q /\ q + 0 + 1 <= len
          /\ ~dirty => rd <= q + 0 + 1
      BY <1>0, <1>2, <1>4, <2>2 DEF Ops, IInv, TypeOK
    <2> QED BY <1>4, <2>1, <2>2, <2>3, SplitLemma
  <1>5. CASE Enter("arr", "arr", p, q) BY <1>2, <1>5, EnterLemma DEF Labels, Ops
  <1> QED BY <1>1, <1>3, <1>4, <1>5
LEMMA DeserializeBytesKept == ASSUME IInv, DeserializeBytes PROVE Kept
  <1> USE DEF DeserializeBytes
  <1>1. PICK p \in Scan(mem, NonWs, Cursor) :
          \/ p = len /\ Refuse("UnexpectedEof", Cursor)
          \/ p < len /\ Enter(DecoderLabel, dec, p + 1, p + 1)
          \/ p < len /\ EnterArray(p + 1)
          \/ p < len /\ Refuse("UnexpectedChar", p)
    OBVIOUS
  <1>2. p \in 0..len /\ Cursor <= p /\ base <= Cursor /\ Cursor \in 0..len /\ base \in 0..len
    BY IdleScan
  <1>a. p < len => p + 1 \in 0..len /\ Cursor <= p + 1 BY <1>2 DEF IInv, TypeOK
  <1>3. CASE Refuse("UnexpectedEof", Cursor) BY <1>2, <1>3, RefuseLemma DEF Errors
  <1>4. CASE p < len /\ Enter(DecoderLabel, dec, p + 1, p + 1)
    <2>1. DecoderLabel \in Labels /\ dec \in Ops
      BY DecodersAssumption DEF IInv, TypeOK, DecoderLabel, Labels, Ops
    <2> QED BY <1>4, <1>a, <2>1, EnterLemma
  <1>5. CASE p < len /\ EnterArray(p + 1) BY <1>5, <1>a, EnterArrayKept
  <1>6. CASE Refuse("UnexpectedChar", p)
    <2>1. base <= p BY <1>2
    <2> QED BY <1>2, <1>6, <2>1, RefuseLemma DEF Errors
  <1> QED BY <1>1, <1>3, <1>4, <1>5, <1>6

LEMMA IgnoreScalarKept == ASSUME IInv, IgnoreScalar PROVE Kept
  <1> USE DEF IgnoreScalar
  <1>1. PICK p \in Scan(mem, NonWs, Cursor) :
          /\ p < len
          /\ \/ Enter("skip", "skip", p + 1, p + 1)
             \/ \E q \in Scan(mem, Byte \ NumChar, p) : Ate("num", p, q)
    OBVIOUS
  <1>2. p \in 0..len /\ Cursor <= p /\ base <= Cursor /\ Cursor \in 0..len /\ base \in 0..len
    BY IdleScan
  <1>a. p + 1 \in 0..len /\ Cursor <= p + 1 BY <1>1, <1>2 DEF IInv, TypeOK
  <1>3. CASE Enter("skip", "skip", p + 1, p + 1) BY <1>3, <1>a, EnterLemma DEF Labels, Ops
  <1>4. ASSUME NEW q \in Scan(mem, Byte \ NumChar, p), Ate("num", p, q) PROVE Kept
    <2>1. p \in Nat /\ len \in Nat BY <1>2 DEF IInv, TypeOK
    <2>2. q \in 0..len /\ Cursor <= q BY <2>1, <1>2, ScanLemma
    <2> QED BY <1>2, <1>4, <2>2, AteLemma DEF Ops
  <1> QED BY <1>1, <1>3, <1>4

LEMMA EatPunctKept == ASSUME IInv, EatPunct PROVE Kept
  <1>1. PICK p \in Scan(mem, NonWs, Cursor) : p < len /\ Ate("none", 0, p + 1)
    BY DEF EatPunct
  <1>2. p \in 0..len /\ Cursor <= p BY IdleScan
  <1>3. p + 1 \in 0..len /\ Cursor <= p + 1 /\ 0 \in 0..len BY <1>1, <1>2 DEF IInv, TypeOK
  <1> QED BY <1>1, <1>3, AteLemma DEF EatPunct, Ops

LEMMA EndKept == ASSUME IInv, End PROVE Kept
  <1>1. PICK p \in Scan(mem, NonWs, Cursor) :
          IF p = len
          THEN pc' = "done" /\ UNCHANGED <<mem, cursor, call, locals, borrowed, err, dirty>>
          ELSE Refuse("TrailingCharacters", p)
    BY DEF End
  <1>2. p \in 0..len /\ base <= p BY IdleScan
  <1>3. CASE p = len
    <2>1. pc' = "done" /\ UNCHANGED <<mem, cursor, call, locals, borrowed, err, dirty, orig, len, dec>>
      BY <1>1, <1>3 DEF End
    <2> USE DEF cursor, call, locals
    <2>2. TypeOK' BY <2>1 DEF IInv, TypeOK, Cursor, Pos
    <2>3. LoopOK' BY <2>1 DEF IInv, LoopOK, Cursor, End
    <2>4. UnreadIntact' BY <2>1 DEF IInv, UnreadIntact, Frontier, Cursor, Pos, End
    <2>5. BorrowsDisjoint' /\ NoPanic' BY <2>1 DEF IInv, BorrowsDisjoint, NoPanic
    <2> QED BY <2>1, <2>2, <2>3, <2>4, <2>5 DEF Kept, IInv, BelowIntact
  <1>4. CASE p /= len
    <2>1. Refuse("TrailingCharacters", p) BY <1>1, <1>4
    <2> QED BY <1>2, <2>1, RefuseLemma DEF End, Errors
  <1> QED BY <1>3, <1>4

LEMMA SwallowErrorKept == ASSUME IInv, SwallowError PROVE Kept
  <1> USE DEF SwallowError, buffer, cursor, locals
  <1>1. TypeOK' BY DEF IInv, TypeOK, Cursor, Pos, Ops
  <1>2. LoopOK' BY DEF LoopOK
  <1>3. UnreadIntact' BY DEF UnreadIntact
  <1>4. BorrowsDisjoint' /\ NoPanic' BY DEF IInv, BorrowsDisjoint, NoPanic
  <1> QED BY <1>1, <1>2, <1>3, <1>4 DEF Kept, IInv, BelowIntact
-----------------------------------------------------------------------------
(* parse_str_bytes_content *)

LEMMA HexPairLemma ==
  ASSUME NEW a, NEW b, IsNib(a), IsNib(b)
  PROVE  HexPair(a, b) \in Nat /\ HexPair(a, b) < 256
  <1>1. \A c : IsNib(c) => HexNib(c) \in Nat /\ HexNib(c) < 16 BY DEF IsNib, HexNib, Digit
  <1>2. /\ HexNib(a) \in Nat /\ HexNib(a) < 16
        /\ HexNib(b) \in Nat /\ HexNib(b) < 16
    BY <1>1
  <1> QED BY <1>2 DEF HexPair

\* An encoded character is no longer than its escape.
LEMMA Utf8Lemma ==
  ASSUME NEW code \in Nat, code < 65536
  PROVE  Utf8(code) \in Seq(Byte) /\ Len(Utf8(code)) <= 6
  <1>1. CASE code < 128
    <2>1. code \in Byte BY <1>1 DEF Byte
    <2> QED BY <1>1, <2>1 DEF Utf8
  <1>2. CASE 128 <= code /\ code < 2048
    <2>1. 192 + code \div 64 \in Byte /\ 128 + (code % 64) \in Byte BY <1>2 DEF Byte
    <2> QED BY <1>2, <2>1 DEF Utf8
  <1>3. CASE 2048 <= code
    <2>1. 224 + code \div 4096 \in Byte BY <1>3 DEF Byte
    <2>2. 128 + ((code \div 64) % 64) \in Byte BY DEF Byte
    <2>3. 128 + (code % 64) \in Byte BY DEF Byte
    <2> QED BY <1>3, <2>1, <2>2, <2>3 DEF Utf8
  <1> QED BY <1>1, <1>2, <1>3

LEMMA StrErrorLemma ==
  ASSUME IInv, NEW m \in [Pos -> Byte], NEW e \in Errors,
         \A i \in Pos : i < base => m[i] = mem[i],
         StrError(m, e), UNCHANGED <<orig, len, dec>>
  PROVE  Kept
  <1>1. base' \in 0..len /\ index' \in 0..len /\ (base' + index') \in 0..len /\ base <= base'
    BY DEF StrError, cursor, IInv, TypeOK, Cursor
  <1>2. mem' \in [Pos -> Byte] /\ BelowIntact /\ Fail(e) BY DEF StrError, BelowIntact
  <1> QED BY <1>1, <1>2, FailLemma

\* The copied segment: what the step knows of the buffer m after copy_within.
Moved(m, end) ==
  /\ m \in [Pos -> Byte]
  /\ \A i \in Pos : i < wr \/ i >= wr + (end - seg) => m[i] = mem[i]

StrAt(end) == end \in 0..len /\ rd <= end /\ end < len

LEMMA StrBounds ==
  ASSUME IInv, pc = "str"
  PROVE  /\ len \in Nat /\ base \in Nat /\ Cursor \in Nat /\ wr \in Nat /\ seg \in Nat /\ rd \in Nat
         /\ base <= Cursor /\ Cursor <= wr /\ wr <= seg /\ seg <= rd /\ rd <= len
         /\ Frontier = rd
  BY DEF IInv, TypeOK, LoopOK, Cursor, Frontier

LEMMA UnescapedKept ==
  ASSUME IInv, pc = "str", NEW m, NEW end, StrAt(end), Moved(m, end),
         NEW bytes \in Seq(Byte), NEW size \in Nat, Len(bytes) <= size, end + size <= len,
         Unescaped(m, end, bytes, size), UNCHANGED <<orig, len, dec>>
  PROVE  Kept
  <1> DEFINE dest == wr + (end - seg)
  <1>1. /\ dest \in Nat /\ wr <= dest /\ dest <= end /\ end \in Nat /\ Len(bytes) \in Nat
        /\ dest + Len(bytes) <= end + size
    BY StrBounds DEF StrAt
  <1>2. /\ mem' = WriteAt(m, dest, bytes)
        /\ wr' = dest + Len(bytes) /\ seg' = end + size /\ rd' = end + size
        /\ UNCHANGED <<cursor, call, pc, borrowed, err, dirty>>
    BY <1>1, StrBounds DEF Unescaped, Fits
  <1>3. /\ mem' \in [Pos -> Byte]
        /\ \A i \in Pos : i < dest \/ i >= dest + Len(bytes) => mem'[i] = m[i]
    BY <1>1, <1>2, WriteAtLemma, StrBounds DEF Moved
  <1>4. BelowIntact
    <2>1. ASSUME NEW i \in Pos, i < base PROVE mem'[i] = mem[i]
      BY <2>1, <1>1, <1>3, StrBounds DEF Moved, Pos
    <2> QED BY <2>1 DEF BelowIntact
  <1>5. LoopOK' /\ Frontier' = end + size
    BY <1>1, <1>2, StrBounds DEF LoopOK, cursor, Cursor, Frontier
  <1>6. ASSUME ~dirty, NEW i \in Pos, i >= Frontier' PROVE mem'[i] = orig[i]
    <2>1. i >= end + size /\ i \in Nat BY <1>5, <1>6 DEF Pos
    <2>2. mem'[i] = m[i] /\ m[i] = mem[i] BY <2>1, <1>1, <1>3, StrBounds DEF Moved
    <2>3. mem[i] = orig[i] BY <2>1, <1>1, <1>6, StrBounds DEF IInv, UnreadIntact, StrAt
    <2> QED BY <2>2, <2>3
  <1>7. /\ base' = base /\ index' \in 0..len /\ (base' + index') \in 0..len
        /\ src' \in 0..len /\ op' \in Ops /\ pc' \in Labels \cup {"idle", "done"}
        /\ UNCHANGED <<borrowed, err, dirty, orig, len, dec>>
    BY <1>2 DEF cursor, call, IInv, TypeOK, Cursor, Labels
  <1>8. wr' \in 0..len /\ seg' \in 0..len /\ rd' \in 0..len BY <1>1, <1>2, StrBounds
  <1> QED BY <1>3, <1>4, <1>5, <1>6, <1>7, <1>8, MoveLemma

LEMMA KeepEscapedKept ==
  ASSUME IInv, pc = "str", NEW m, NEW end, StrAt(end), Moved(m, end), end + 1 < len,
         KeepEscaped(m, end), UNCHANGED <<orig, len, dec>>
  PROVE  Kept
  <1> USE DEF KeepEscaped
  <1>1. /\ end \in Nat /\ wr + (end - seg) \in Nat /\ wr + (end - seg) <= end
        /\ wr <= wr + (end - seg)
    BY StrBounds DEF StrAt
  <1>2. mem' \in [Pos -> Byte] BY DEF Moved
  <1>3. BelowIntact
    <2>1. ASSUME NEW i \in Pos, i < base PROVE mem'[i] = mem[i]
      BY <2>1, StrBounds DEF Moved, Pos
    <2> QED BY <2>1 DEF BelowIntact
  <1>4. LoopOK' /\ Frontier' = end + 2
    BY <1>1, StrBounds DEF LoopOK, cursor, Cursor, Frontier
  <1>5. ASSUME ~dirty, NEW i \in Pos, i >= Frontier' PROVE mem'[i] = orig[i]
    <2>1. i >= end + 2 /\ i \in Nat BY <1>4, <1>5 DEF Pos
    <2>2. mem'[i] = mem[i] BY <2>1, <1>1, StrBounds DEF Moved
    <2>3. mem[i] = orig[i] BY <2>1, <1>1, <1>5, StrBounds DEF IInv, UnreadIntact, StrAt
    <2> QED BY <2>2, <2>3
  <1>6. /\ base' = base /\ index' \in 0..len /\ (base' + index') \in 0..len
        /\ src' \in 0..len /\ op' \in Ops /\ pc' \in Labels \cup {"idle", "done"}
        /\ UNCHANGED <<borrowed, err, dirty, orig, len, dec>>
    BY DEF cursor, call, IInv, TypeOK, Cursor, Labels
  <1>7. wr' \in 0..len /\ seg' \in 0..len /\ rd' \in 0..len BY <1>1, StrBounds DEF StrAt
  <1> QED BY <1>2, <1>3, <1>4, <1>5, <1>6, <1>7, MoveLemma
LEMMA UnicodeEscapeKept ==
  ASSUME IInv, pc = "str", NEW m, NEW end, StrAt(end), Moved(m, end),
         UnicodeEscape(m, end), UNCHANGED <<orig, len, dec>>
  PROVE  Kept
  <1> DEFINE code == HexPair(m[end + 2], m[end + 3]) * 256 + HexPair(m[end + 4], m[end + 5])
  <1>1. m \in [Pos -> Byte] /\ \A i \in Pos : i < base => m[i] = mem[i]
    BY StrBounds DEF Moved, Pos
  <1>2. \A e \in Errors : StrError(m, e) => Kept BY <1>1, StrErrorLemma
  <1>3. CASE end + 6 > len BY <1>2, <1>3 DEF UnicodeEscape, Errors
  <1>4. CASE ~ \A j \in 2..5 : IsNib(m[end + j]) BY <1>2, <1>3, <1>4 DEF UnicodeEscape, Errors
  <1>5. CASE /\ ~(end + 6 > len) /\ \A j \in 2..5 : IsNib(m[end + j])
             /\ code \in Surrogate
    BY <1>2, <1>5 DEF UnicodeEscape, Errors
  <1>6. CASE /\ ~(end + 6 > len) /\ \A j \in 2..5 : IsNib(m[end + j])
             /\ code \notin Surrogate
    <2>1. Unescaped(m, end, Utf8(code), 6) BY <1>6 DEF UnicodeEscape
    <2>2. IsNib(m[end + 2]) /\ IsNib(m[end + 3]) /\ IsNib(m[end + 4]) /\ IsNib(m[end + 5])
      BY <1>6
    <2>3. /\ HexPair(m[end + 2], m[end + 3]) \in Nat /\ HexPair(m[end + 2], m[end + 3]) < 256
          /\ HexPair(m[end + 4], m[end + 5]) \in Nat /\ HexPair(m[end + 4], m[end + 5]) < 256
      BY <2>2, HexPairLemma
    <2>4. code \in Nat /\ code < 65536 BY <2>3
    <2> HIDE DEF code
    <2>5. Utf8(code) \in Seq(Byte) /\ Len(Utf8(code)) <= 6 BY <2>4, Utf8Lemma
    <2>6. end + 6 <= len BY <1>6, StrBounds DEF StrAt
    <2> QED BY <2>1, <2>5, <2>6, UnescapedKept
  <1> QED BY <1>3, <1>4, <1>5, <1>6

LEMMA StrEscapeKept ==
  ASSUME IInv, pc = "str", NEW m, NEW end, StrAt(end), Moved(m, end),
         StrEscape(m, end), UNCHANGED <<orig, len, dec>>
  PROVE  Kept
  <1>1. m \in [Pos -> Byte] /\ \A i \in Pos : i < base => m[i] = mem[i]
    BY StrBounds DEF Moved, Pos
  <1>2. \A e \in Errors : StrError(m, e) => Kept BY <1>1, StrErrorLemma
  <1>3. CASE end + 1 = len /\ StrError(m, "UnexpectedEof") BY <1>2, <1>3 DEF Errors
  <1>4. CASE end + 1 < len /\ KeepEscaped(m, end) BY <1>4, KeepEscapedKept
  <1>5. CASE /\ end + 1 < len /\ m[end + 1] \in DOMAIN UNESCAPE
             /\ Unescaped(m, end, <<UNESCAPE[m[end + 1]]>>, 2)
    <2>1. UNESCAPE[m[end + 1]] \in Byte
      <3> DEFINE c == m[end + 1]
      <3>1. c \in {98, 102, 110, 114, 116} BY <1>5 DEF UNESCAPE
      <3> HIDE DEF c
      <3>2. UNESCAPE[c] \in {8, 12, 10, 13, 9} BY <3>1 DEF UNESCAPE
      <3>3. \A x \in {8, 12, 10, 13, 9} : x \in Byte BY DEF Byte
      <3> QED BY <3>2, <3>3 DEF c
    <2> DEFINE b == <<UNESCAPE[m[end + 1]]>>
    <2>2. b \in Seq(Byte) /\ Len(b) = 1 BY <2>1
    <2> HIDE DEF b
    <2>3. end + 2 <= len /\ Len(b) <= 2 BY <1>5, <2>2, StrBounds DEF StrAt
    <2>4. Unescaped(m, end, b, 2) BY <1>5 DEF b
    <2> QED BY <2>2, <2>3, <2>4, UnescapedKept
  <1>6. CASE UnicodeEscape(m, end) BY <1>6, UnicodeEscapeKept
  <1>7. CASE StrError(m, "InvalidEscapeSequence") BY <1>2, <1>7 DEF Errors
  <1> QED BY <1>3, <1>4, <1>5, <1>6, <1>7 DEF StrEscape

LEMMA StrQuoteKept ==
  ASSUME IInv, pc = "str", NEW end, StrAt(end), Moved(mem', end),
         StrQuote(mem', end), UNCHANGED <<orig, len, dec>>
  PROVE  Kept
  <1> DEFINE n    == wr + (end - seg) - Cursor
             skip == (seg - wr) + 1
  <1>1. /\ n \in Nat /\ skip \in Nat /\ Cursor + n + skip = end + 1 /\ end \in Nat
        /\ wr + (end - seg) <= end
    BY StrBounds DEF StrAt
  <1>2. mem' \in [Pos -> Byte] BY DEF Moved
  <1>3. BelowIntact
    <2>1. ASSUME NEW i \in Pos, i < base PROVE mem'[i] = mem[i]
      BY <2>1, StrBounds DEF Moved, Pos
    <2> QED BY <2>1 DEF BelowIntact
  <1>4. CASE base' = NextBase(Cursor, n, skip) /\ index' = 0 /\ Fail("InvalidUnicodeCodePoint")
    <2>1. base' = end + 1 BY <1>1, <1>4 DEF NextBase
    <2>2. base' \in 0..len /\ index' \in 0..len /\ (base' + index') \in 0..len /\ base <= base'
      BY <1>1, <1>4, <2>1, StrBounds DEF StrAt
    <2> QED BY <1>2, <1>3, <1>4, <2>2, FailLemma DEF Errors
  <1>5. CASE SplitInput(op, src, Cursor, n, skip)
    <2> HIDE DEF n, skip
    <2>1. /\ Cursor \in Nat /\ base <= Cursor /\ Cursor + n + skip <= len /\ rd <= Cursor + n + skip
          /\ op \in Ops /\ src \in 0..len
      BY <1>1, StrBounds DEF StrAt, IInv, TypeOK
    <2>2. ASSUME ~dirty, NEW i \in Pos, i >= Cursor + n + skip PROVE mem'[i] = orig[i]
      <3>1. i >= end + 1 /\ i \in Nat BY <1>1, <2>2 DEF Pos
      <3>2. mem'[i] = mem[i] BY <3>1, <1>1, StrBounds DEF Moved
      <3>3. mem[i] = orig[i] BY <3>1, <1>1, <2>2, StrBounds DEF IInv, UnreadIntact, StrAt
      <3> QED BY <3>2, <3>3
    <2> QED BY <1>1, <1>2, <1>3, <1>5, <2>1, <2>2, SplitLemma
  <1> QED BY <1>4, <1>5 DEF StrQuote

LEMMA StrStepKept == ASSUME IInv, StrStep PROVE Kept
  <1>0. pc = "str" /\ UNCHANGED <<orig, len, dec>> BY DEF StrStep
  <1>1. PICK end \in Scan(mem, Control \cup {QU, RS}, rd) :
          LET m == CopyWithin(mem, seg, end, wr) IN
          \/ end = len /\ StrError(mem, "UnexpectedEof")
          \/ end < len /\ mem' = m /\ StrQuote(m, end)
          \/ end < len /\ StrEscape(m, end)
          \/ end < len /\ StrError(m, "StringControlChar")
    BY DEF StrStep
  <1> DEFINE m == CopyWithin(mem, seg, end, wr)
  <1>2. end \in Nat /\ rd <= end /\ end <= len BY <1>0, StrBounds, ScanLemma
  <1>3. Moved(m, end)
    BY <1>0, <1>2, StrBounds, CopyWithinLemma DEF Moved, IInv, TypeOK
  <1> HIDE DEF m
  <1>4. m \in [Pos -> Byte] /\ \A i \in Pos : i < base => m[i] = mem[i]
    BY <1>0, <1>3, StrBounds DEF Moved, Pos
  <1>5. CASE StrError(mem, "UnexpectedEof")
    <2>1. mem \in [Pos -> Byte] BY DEF IInv, TypeOK
    <2> QED BY <1>0, <1>5, <2>1, StrErrorLemma DEF Errors
  <1>6. CASE end < len /\ mem' = m /\ StrQuote(m, end)
    <2>1. StrAt(end) BY <1>2, <1>6, <1>0, StrBounds DEF StrAt
    <2>2. Moved(mem', end) /\ StrQuote(mem', end) BY <1>3, <1>6
    <2> QED BY <1>0, <2>1, <2>2, StrQuoteKept
  <1>7. CASE end < len /\ StrEscape(m, end)
    <2>1. StrAt(end) BY <1>2, <1>7, <1>0, StrBounds DEF StrAt
    <2> QED BY <1>0, <1>3, <1>7, <2>1, StrEscapeKept
  <1>8. CASE StrError(m, "StringControlChar") BY <1>0, <1>4, <1>8, StrErrorLemma DEF Errors
  <1> QED BY <1>1, <1>5, <1>6, <1>7, <1>8 DEF m
-----------------------------------------------------------------------------
(* parse_hex_bytes_content, parse_base64_bytes_content                     *)

LEMMA CodecBounds ==
  ASSUME IInv, pc \in {"hex", "b64"}
  PROVE  /\ len \in Nat /\ base \in Nat /\ Cursor \in Nat /\ wr \in Nat /\ rd \in Nat
         /\ base <= Cursor /\ Cursor <= wr /\ wr <= rd /\ rd <= len
         /\ pc = "hex" => rd = Cursor + 2 * (wr - Cursor)
         /\ pc = "b64" => 3 * (rd - Cursor) = 4 * (wr - Cursor)
         /\ Frontier = rd /\ op \in Ops /\ src \in 0..len
  BY DEF IInv, TypeOK, LoopOK, Cursor, Frontier

\* Writing b at wr when the reading has moved to r, past all of b.
LEMMA CodecWrite ==
  ASSUME IInv, pc \in {"hex", "b64"}, NEW b \in Seq(Byte), NEW r \in Nat,
         rd <= r, wr + Len(b) <= r, r <= len,
         mem' = WriteAt(mem, wr, b)
  PROVE  /\ mem' \in [Pos -> Byte] /\ BelowIntact
         /\ ~dirty => \A i \in Pos : i >= r => mem'[i] = orig[i]
  <1>1. /\ mem' \in [Pos -> Byte]
        /\ \A i \in Pos : i < wr \/ i >= wr + Len(b) => mem'[i] = mem[i]
    BY CodecBounds, WriteAtLemma DEF IInv, TypeOK
  <1>2. BelowIntact
    <2>1. ASSUME NEW i \in Pos, i < base PROVE mem'[i] = mem[i]
      BY <2>1, <1>1, CodecBounds DEF Pos
    <2> QED BY <2>1 DEF BelowIntact
  <1>3. ASSUME ~dirty, NEW i \in Pos, i >= r PROVE mem'[i] = orig[i]
    <2>1. i \in Nat /\ Len(b) \in Nat BY DEF Pos
    <2>2. mem'[i] = mem[i] BY <2>1, <1>1, <1>3, CodecBounds
    <2>3. mem[i] = orig[i] BY <2>1, <1>3, CodecBounds DEF IInv, UnreadIntact
    <2> QED BY <2>2, <2>3
  <1> QED BY <1>1, <1>2, <1>3

\* Going on after n bytes were written and k were read.
LEMMA CodecGoesOn ==
  ASSUME IInv, pc \in {"hex", "b64"}, NEW b \in Seq(Byte), NEW k \in Nat,
         Len(b) <= k, rd + k <= len, mem' = WriteAt(mem, wr, b),
         wr' = wr + Len(b), rd' = rd + k,
         pc = "hex" => k = 2 * Len(b), pc = "b64" => 3 * k = 4 * Len(b),
         UNCHANGED <<cursor, call, pc, seg, borrowed, err, dirty, orig, len, dec>>
  PROVE  Kept
  <1>a. Len(b) \in Nat OBVIOUS
  <1>b. /\ wr \in Nat /\ rd \in Nat /\ wr <= rd /\ rd <= len /\ len \in Nat
        /\ Cursor \in Nat /\ Cursor <= wr
        /\ pc = "hex" => rd = Cursor + 2 * (wr - Cursor)
        /\ pc = "b64" => 3 * (rd - Cursor) = 4 * (wr - Cursor)
    BY CodecBounds
  <1>1. rd + k \in Nat /\ rd <= rd + k /\ wr + Len(b) <= rd + k /\ Len(b) \in Nat
    BY <1>a, <1>b
  <1>2. /\ mem' \in [Pos -> Byte] /\ BelowIntact
        /\ ~dirty => \A i \in Pos : i >= rd + k => mem'[i] = orig[i]
    BY <1>1, CodecWrite
  <1>c. Cursor' = Cursor /\ pc' = pc BY DEF cursor, Cursor
  <1>d. LoopOK'
    <2>1. CASE pc = "hex"
      <3>1. k = 2 * Len(b) BY <2>1
      <3> QED BY <2>1, <3>1, <1>a, <1>b, <1>c DEF LoopOK
    <2>2. CASE pc = "b64"
      <3>1. 3 * k = 4 * Len(b) BY <2>2
      <3> QED BY <2>2, <3>1, <1>a, <1>b, <1>c DEF LoopOK
    <2> QED BY <2>1, <2>2
  <1>3. Frontier' = rd + k BY <1>1, <1>b, <1>c DEF Frontier
  <1>4. /\ base' = base /\ index' \in 0..len /\ (base' + index') \in 0..len /\ seg' \in 0..len
        /\ src' \in 0..len /\ op' \in Ops /\ pc' \in Labels \cup {"idle", "done"}
        /\ UNCHANGED <<borrowed, err, dirty, orig, len, dec>>
    BY DEF cursor, call, IInv, TypeOK, Cursor, Labels
  <1>5. wr' \in 0..len /\ rd' \in 0..len BY <1>1, <1>b
  <1> QED BY <1>2, <1>d, <1>3, <1>4, <1>5, MoveLemma

\* An error that leaves the cursor where it is.
LEMMA StayFailLemma ==
  ASSUME IInv, NEW e \in Errors, Fail(e), UNCHANGED cursor,
         mem' \in [Pos -> Byte], BelowIntact, UNCHANGED <<orig, len, dec>>
  PROVE  Kept
  <1>1. base' \in 0..len /\ index' \in 0..len /\ (base' + index') \in 0..len /\ base <= base'
    BY DEF cursor, IInv, TypeOK, Cursor
  <1> QED BY <1>1, FailLemma

LEMMA HexQuoteKept ==
  ASSUME IInv, pc = "hex", rd < len, HexQuote, UNCHANGED <<mem, orig, len, dec>>
  PROVE  Kept
  <1> DEFINE n == wr - Cursor
  <1>1. /\ n \in Nat /\ n + 1 \in Nat /\ Cursor + n + (n + 1) = rd + 1 /\ rd + 1 <= len
        /\ Cursor \in Nat /\ base <= Cursor /\ op \in Ops /\ src \in 0..len /\ rd \in Nat
    BY CodecBounds
  <1>2. mem' \in [Pos -> Byte] /\ BelowIntact BY DEF IInv, TypeOK, BelowIntact
  <1>3. ASSUME ~dirty, NEW i \in Pos, i >= rd + 1 PROVE mem'[i] = orig[i]
    BY <1>1, <1>3, CodecBounds DEF IInv, UnreadIntact, Pos
  <1>4. SplitInput(op, src, Cursor, n, n + 1) BY DEF HexQuote
  <1> HIDE DEF n
  <1> QED BY <1>1, <1>2, <1>3, <1>4, SplitLemma

LEMMA HexStepKept == ASSUME IInv, HexStep PROVE Kept
  <1>0. pc = "hex" /\ UNCHANGED <<orig, len, dec>> BY DEF HexStep
  <1>1. CASE /\ rd + 2 <= len /\ IsNib(mem[rd]) /\ IsNib(mem[rd + 1])
             /\ mem' = WriteAt(mem, wr, <<HexPair(mem[rd], mem[rd + 1])>>)
             /\ wr' = wr + 1 /\ rd' = rd + 2
             /\ UNCHANGED <<cursor, call, pc, seg, borrowed, err, dirty>>
    <2> DEFINE b == <<HexPair(mem[rd], mem[rd + 1])>>
    <2>1. HexPair(mem[rd], mem[rd + 1]) \in Byte BY <1>1, HexPairLemma DEF Byte
    <2>2. b \in Seq(Byte) /\ Len(b) = 1 BY <2>1
    <2>3. mem' = WriteAt(mem, wr, b) /\ wr' = wr + 1 /\ rd' = rd + 2 BY <1>1
    <2> HIDE DEF b
    <2>4. Len(b) <= 2 /\ wr' = wr + Len(b) /\ 2 = 2 * Len(b) /\ rd + 2 <= len /\ pc /= "b64"
      BY <1>0, <1>1, <2>2, <2>3
    <2>5. UNCHANGED <<cursor, call, pc, seg, borrowed, err, dirty, orig, len, dec>> BY <1>0, <1>1
    <2> QED BY <1>0, <2>2, <2>3, <2>4, <2>5, CodecGoesOn
  <1>2. CASE rd < len /\ HexQuote /\ UNCHANGED mem BY <1>0, <1>2, HexQuoteKept
  <1>3. ASSUME NEW e \in Errors, Fail(e), UNCHANGED <<mem, cursor>> PROVE Kept
    <2>1. mem' \in [Pos -> Byte] /\ BelowIntact BY <1>3 DEF IInv, TypeOK, BelowIntact
    <2> QED BY <1>0, <1>3, <2>1, StayFailLemma
  <1>4. rd \in Nat /\ len \in Nat BY <1>0, CodecBounds
  <1>5. CASE HexPairStep
    <2>1. CASE mem[rd] = QU /\ HexQuote /\ UNCHANGED mem
      <3>1. rd < len BY <1>4, <1>5 DEF HexPairStep
      <3> QED BY <1>2, <2>1, <3>1
    <2>2. CASE Fail("UnexpectedChar") /\ UNCHANGED <<mem, cursor>> BY <1>3, <2>2 DEF Errors
    <2> QED BY <1>1, <1>5, <2>1, <2>2 DEF HexPairStep
  <1>6. CASE HexRemainder
    <2>1. CASE rd + 1 = len /\ HexQuote /\ UNCHANGED mem
      <3>1. rd < len BY <1>4, <2>1
      <3> QED BY <1>2, <2>1, <3>1
    <2>2. CASE Fail("UnexpectedEof") /\ UNCHANGED <<mem, cursor>> BY <1>3, <2>2 DEF Errors
    <2> QED BY <1>6, <2>1, <2>2 DEF HexRemainder
  <1> QED BY <1>5, <1>6 DEF HexStep

\* A code has six bits.
LEMMA CodeLemma ==
  ASSUME NEW c, IsB64(c)
  PROVE  B64[c] \in Nat /\ B64[c] < 64
  BY DEF IsB64, B64, Digit

LEMMA SixBits ==
  ASSUME NEW a \in Nat, NEW b \in Nat, a < 64, b < 64
  PROVE  /\ 4 * a + b \div 16 \in Byte
         /\ (16 * a + b \div 4) % 256 \in Byte
         /\ (64 * a + b) % 256 \in Byte
  BY DEF Byte

LEMMA ChunkLemma ==
  ASSUME NEW m, NEW at \in Nat, \A j \in 0..3 : IsB64(m[at + j])
  PROVE  Chunk(m, at) \in Seq(Byte) /\ Len(Chunk(m, at)) = 3
  <1>1. /\ IsB64(m[at]) /\ IsB64(m[at + 1]) /\ IsB64(m[at + 2]) /\ IsB64(m[at + 3])
    <2>1. IsB64(m[at + 0]) /\ at + 0 = at OBVIOUS
    <2> QED BY <2>1
  <1>2. /\ B64[m[at]] \in Nat /\ B64[m[at]] < 64
        /\ B64[m[at + 1]] \in Nat /\ B64[m[at + 1]] < 64
        /\ B64[m[at + 2]] \in Nat /\ B64[m[at + 2]] < 64
        /\ B64[m[at + 3]] \in Nat /\ B64[m[at + 3]] < 64
    BY <1>1, CodeLemma
  <1>3. 4 * B64[m[at]] + B64[m[at + 1]] \div 16 \in Byte BY <1>2, SixBits
  <1>4. (16 * B64[m[at + 1]] + B64[m[at + 2]] \div 4) % 256 \in Byte BY <1>2, SixBits
  <1>5. (64 * B64[m[at + 2]] + B64[m[at + 3]]) % 256 \in Byte BY <1>2, SixBits
  <1> QED BY <1>3, <1>4, <1>5 DEF Chunk

\* The sentinel bit counts the codes of the tail.
LEMMA TailLemma ==
  ASSUME NEW m, NEW at \in Nat, NEW n \in TailCount(m, at)
  PROVE  /\ n \in Nat /\ n <= 3 /\ at + n <= len
         /\ Leftovers(Packed(m, at, n)) = n
         /\ TailBytes(Packed(m, at, n)) \in Seq(Byte)
         /\ Len(TailBytes(Packed(m, at, n))) <= n
  <1> DEFINE p == Packed(m, at, n)
  <1>1. n \in 0..3 /\ at + n <= len /\ \A j \in 0..(n - 1) : IsB64(m[at + j]) BY DEF TailCount
  <1>2. n >= 1 => B64[m[at]] \in Nat /\ B64[m[at]] < 64
    <2>1. n >= 1 => 0 \in 0..(n - 1) /\ at + 0 = at BY <1>1
    <2>2. n >= 1 => IsB64(m[at]) BY <1>1, <2>1
    <2> QED BY <2>2, CodeLemma
  <1>3. n >= 2 => B64[m[at + 1]] \in Nat /\ B64[m[at + 1]] < 64
    <2>1. n >= 2 => 1 \in 0..(n - 1) BY <1>1
    <2> QED BY <1>1, <2>1, CodeLemma
  <1>4. n >= 3 => B64[m[at + 2]] \in Nat /\ B64[m[at + 2]] < 64
    <2>1. n >= 3 => 2 \in 0..(n - 1) BY <1>1
    <2> QED BY <1>1, <2>1, CodeLemma
  <1>5. /\ p \in Nat
        /\ n = 0 => p < 64
        /\ n = 1 => 64 <= p /\ p < 4096
        /\ n = 2 => 4096 <= p /\ p < 262144
        /\ n = 3 => 262144 <= p
    BY <1>1, <1>2, <1>3, <1>4 DEF Packed
  <1> HIDE DEF p
  <1>6. Leftovers(p) = n BY <1>1, <1>5 DEF Leftovers
  <1>7. /\ ((p * 16) \div 256) % 256 \in Byte
        /\ ((p * 64) \div 65536) % 256 \in Byte
        /\ ((p * 64) \div 256) % 256 \in Byte
    BY <1>5 DEF Byte
  <1>8. TailBytes(p) \in Seq(Byte) /\ Len(TailBytes(p)) <= n
    <2>1. CASE n \in {0, 1} BY <2>1, <1>6 DEF TailBytes
    <2>2. CASE n = 2 BY <2>2, <1>6, <1>7 DEF TailBytes
    <2>3. CASE n = 3 BY <2>3, <1>6, <1>7 DEF TailBytes
    <2> QED BY <2>1, <2>2, <2>3, <1>1
  <1> QED BY <1>1, <1>6, <1>8 DEF p
LEMMA B64ChunkKept ==
  ASSUME IInv, pc = "b64", B64Chunk, UNCHANGED <<orig, len, dec>>
  PROVE  Kept
  <1> DEFINE b == Chunk(mem, rd)
  <1>1. /\ wr \in Nat /\ rd \in Nat /\ wr <= rd /\ rd <= len /\ len \in Nat BY CodecBounds
  <1>2. IsChunk(mem, rd) BY DEF B64Chunk
  <1>3. rd + 4 <= len /\ \A j \in 0..3 : IsB64(mem[rd + j]) BY <1>2 DEF IsChunk
  <1>4. b \in Seq(Byte) /\ Len(b) = 3 BY <1>1, <1>3, ChunkLemma
  <1>5. Fits(wr, 3) BY <1>1, <1>3 DEF Fits
  <1>6. /\ mem' = WriteAt(mem, wr, b) /\ wr' = wr + 3 /\ rd' = rd + 4
        /\ UNCHANGED <<cursor, call, pc, seg, borrowed, err, dirty>>
    BY <1>5 DEF B64Chunk
  <1> HIDE DEF b
  <1>7. Len(b) <= 4 /\ wr' = wr + Len(b) /\ 3 * 4 = 4 * Len(b) /\ pc /= "hex"
    BY <1>4, <1>6
  <1>8. UNCHANGED <<cursor, call, pc, seg, borrowed, err, dirty, orig, len, dec>> BY <1>6
  <1> QED BY <1>3, <1>4, <1>6, <1>7, <1>8, CodecGoesOn

\* dcount * 4 / 3 is what the chunks have read.
LEMMA EncodedLength ==
  ASSUME NEW w \in Nat, NEW r \in Nat, 3 * r = 4 * w
  PROVE  (w * 4) \div 3 = r
  OBVIOUS

LEMMA B64TailKept ==
  ASSUME IInv, pc = "b64", B64Tail, UNCHANGED <<orig, len, dec>>
  PROVE  Kept
  <1>1. PICK n \in TailCount(mem, rd) :
          LET packed == Packed(mem, rd, n)
              bytes  == TailBytes(packed)
              m      == WriteAt(mem, wr, bytes)
              dcount == wr - Cursor
          IN IF Fits(wr, Len(bytes))
             THEN /\ mem' = m
                  /\ B64Close(m, dcount + Len(bytes), (dcount * 4) \div 3 + Leftovers(packed))
             ELSE Abort("panic") /\ UNCHANGED mem
    BY DEF B64Tail
  <1> DEFINE packed == Packed(mem, rd, n)
             b      == TailBytes(packed)
             dlen   == (wr - Cursor) + Len(b)
             elen   == ((wr - Cursor) * 4) \div 3 + Leftovers(packed)
  <1>2. /\ len \in Nat /\ base \in Nat /\ Cursor \in Nat /\ wr \in Nat /\ rd \in Nat
        /\ base <= Cursor /\ Cursor <= wr /\ wr <= rd /\ rd <= len
        /\ 3 * (rd - Cursor) = 4 * (wr - Cursor)
        /\ op \in Ops /\ src \in 0..len
    BY CodecBounds
  <1>3. /\ n \in Nat /\ rd + n <= len /\ Leftovers(packed) = n
        /\ b \in Seq(Byte) /\ Len(b) <= n
    BY <1>2, TailLemma
  <1>4. wr - Cursor \in Nat /\ rd - Cursor \in Nat BY <1>2
  <1>5. ((wr - Cursor) * 4) \div 3 = rd - Cursor BY <1>2, <1>4, EncodedLength
  <1>6. elen = (rd - Cursor) + n BY <1>3, <1>5
  <1> HIDE DEF packed
  <1>a. mem' = WriteAt(mem, wr, b) /\ B64Close(mem', dlen, elen)
    <2>1. Fits(wr, Len(b)) BY <1>2, <1>3 DEF Fits
    <2> QED BY <1>1, <2>1 DEF packed
  <1> HIDE DEF b, elen
  <1>7. Len(b) \in Nat BY <1>3
  <1>8. /\ dlen \in Nat /\ elen \in Nat /\ dlen <= elen /\ Cursor + elen = rd + n
        /\ wr + Len(b) <= rd + n /\ rd + n \in Nat /\ rd <= rd + n
    BY <1>2, <1>3, <1>6, <1>7
  <1> HIDE DEF dlen
  <1>9. /\ mem' \in [Pos -> Byte] /\ BelowIntact
        /\ ~dirty => \A i \in Pos : i >= rd + n => mem'[i] = orig[i]
    BY <1>3, <1>8, <1>a, CodecWrite
  <1>10. ASSUME NEW e \in Errors, Fail(e), UNCHANGED cursor PROVE Kept
    BY <1>9, <1>10, StayFailLemma
  <1>11. ASSUME NEW q \in Nat, Cursor + elen <= q, q < len,
                SplitInput(op, src, Cursor, dlen, (q - Cursor) + 1 - dlen)
         PROVE  Kept
    <2> DEFINE skip == (q - Cursor) + 1 - dlen
    <2>1. /\ skip \in Nat /\ Cursor + dlen + skip = q + 1 /\ q + 1 <= len /\ rd <= q + 1
          /\ rd + n <= q + 1
      BY <1>2, <1>8, <1>11
    <2>2. SplitInput(op, src, Cursor, dlen, skip) BY <1>11
    <2> HIDE DEF skip
    <2>3. ASSUME ~dirty, NEW i \in Pos, i >= Cursor + dlen + skip PROVE mem'[i] = orig[i]
      <3>1. i >= rd + n BY <1>8, <2>1, <2>3 DEF Pos
      <3> QED BY <1>9, <2>3, <3>1
    <2> QED BY <1>2, <1>8, <1>9, <2>1, <2>2, <2>3, SplitLemma
  <1> DEFINE at == Cursor + elen
  <1>12. at \in Nat /\ at <= len BY <1>2, <1>3, <1>8
  <1>13. \/ \E e \in {"UnexpectedEof", "UnexpectedChar"} : Fail(e) /\ UNCHANGED cursor
         \/ at < len /\ SplitInput(op, src, Cursor, dlen, (at - Cursor) + 1 - dlen)
         \/ /\ at < len
            /\ \E q \in Scan(mem', Byte \ {Equals}, at + 1) :
                 q < len /\ SplitInput(op, src, Cursor, dlen, (q - Cursor) + 1 - dlen)
         \/ \E q \in Scan(mem', Byte \ {Equals}, at + 1) :
              \E e \in {"UnexpectedEof", "UnexpectedChar"} : Fail(e) /\ UNCHANGED cursor
    BY <1>a DEF B64Close
  <1>14. CASE \E e \in {"UnexpectedEof", "UnexpectedChar"} : Fail(e) /\ UNCHANGED cursor
    BY <1>10, <1>14 DEF Errors
  <1>15. CASE at < len /\ SplitInput(op, src, Cursor, dlen, (at - Cursor) + 1 - dlen)
    <2>1. Cursor + elen <= at BY <1>12
    <2> QED BY <1>11, <1>12, <1>15, <2>1
  <1>16. CASE \E q \in Scan(mem', Byte \ {Equals}, at + 1) :
                q < len /\ SplitInput(op, src, Cursor, dlen, (q - Cursor) + 1 - dlen)
    <2>1. PICK q \in Scan(mem', Byte \ {Equals}, at + 1) :
            q < len /\ SplitInput(op, src, Cursor, dlen, (q - Cursor) + 1 - dlen)
      BY <1>16
    <2>2. at + 1 \in Nat BY <1>12
    <2>3. q \in Nat /\ at + 1 <= q BY <2>2, <1>2, ScanLemma
    <2>4. Cursor + elen <= q BY <1>12, <2>3
    <2> QED BY <1>11, <2>1, <2>3, <2>4
  <1> QED BY <1>13, <1>14, <1>15, <1>16

LEMMA B64StepKept == ASSUME IInv, B64Step PROVE Kept
  BY B64ChunkKept, B64TailKept DEF B64Step

-----------------------------------------------------------------------------
(* parse_array_bytes_content *)

LEMMA ArrBounds ==
  ASSUME IInv, pc = "arr"
  PROVE  /\ len \in Nat /\ base \in Nat /\ Cursor \in Nat /\ wr \in Nat /\ rd \in Nat /\ seg \in Nat
         /\ base <= seg /\ seg <= wr /\ wr <= Cursor /\ rd <= Cursor /\ Cursor <= len
         /\ Frontier = Cursor /\ op \in Ops /\ src \in 0..len
  BY DEF IInv, TypeOK, LoopOK, Cursor, Frontier

LEMMA ArrErrorLemma ==
  ASSUME IInv, NEW m \in [Pos -> Byte], NEW e \in Errors, NEW p \in 0..len, base <= p,
         \A i \in Pos : i < base => m[i] = mem[i],
         ArrError(m, e, p), UNCHANGED <<orig, len, dec>>
  PROVE  Kept
  <1>1. base' \in 0..len /\ index' \in 0..len /\ (base' + index') \in 0..len /\ base <= base'
    BY DEF ArrError, MoveTo, IInv, TypeOK
  <1>2. mem' \in [Pos -> Byte] /\ BelowIntact /\ Fail(e) BY DEF ArrError, BelowIntact
  <1> QED BY <1>1, <1>2, FailLemma

\* A number takes at least one character, so its byte is stored behind p.
LEMMA ArrByteKept ==
  ASSUME IInv, pc = "arr", NEW byte \in Byte, NEW p \in 0..len, Cursor < p, ArrByte(byte, p),
         UNCHANGED <<orig, len, dec>>
  PROVE  Kept
  <1> DEFINE b == <<byte>>
             m == WriteAt(mem, wr, b)
  <1>0. b \in Seq(Byte) /\ Len(b) = 1 OBVIOUS
  <1>1. /\ len \in Nat /\ base \in Nat /\ Cursor \in Nat /\ wr \in Nat /\ seg \in Nat /\ rd \in Nat
        /\ base <= seg /\ seg <= wr /\ wr <= Cursor /\ rd <= Cursor
        /\ Frontier = Cursor /\ op \in Ops /\ src \in 0..len
    BY ArrBounds
  <1>2. p \in Nat /\ p <= len /\ wr + 1 <= p BY <1>1
  <1>3. Fits(wr, 1) BY <1>1, <1>2 DEF Fits
  <1>4. \E q \in Scan(m, NonWs, p) :
         \/ q = len /\ ArrError(m, "UnexpectedEof", p)
         \/ /\ q < len
            /\ mem' = m /\ MoveTo(q + 1)
            /\ wr' = wr + 1
            /\ UNCHANGED <<call, pc, seg, rd, borrowed, err, dirty>>
         \/ q < len /\ mem' = m /\ ArrayDone(q)
         \/ q < len /\ ArrError(m, "UnexpectedChar", q)
    BY <1>3 DEF ArrByte
  <1>5. PICK q \in Scan(m, NonWs, p) :
         \/ q = len /\ ArrError(m, "UnexpectedEof", p)
         \/ /\ q < len
            /\ mem' = m /\ MoveTo(q + 1)
            /\ wr' = wr + 1
            /\ UNCHANGED <<call, pc, seg, rd, borrowed, err, dirty>>
         \/ q < len /\ mem' = m /\ ArrayDone(q)
         \/ q < len /\ ArrError(m, "UnexpectedChar", q)
    BY <1>4
  <1>6. q \in Nat /\ p <= q /\ q <= len BY <1>1, <1>2, ScanLemma
  <1>7. /\ m \in [Pos -> Byte]
        /\ \A i \in Pos : i < wr \/ i >= wr + Len(b) => m[i] = mem[i]
    <2>1. mem \in [Pos -> Byte] BY DEF IInv, TypeOK
    <2> HIDE DEF b
    <2> QED BY <1>0, <1>1, <2>1, WriteAtLemma
  <1> HIDE DEF m
  <1>8. \A i \in Pos : i < base => m[i] = mem[i] BY <1>0, <1>1, <1>7 DEF Pos
  <1>9. ASSUME ~dirty, NEW i \in Pos, i >= p PROVE m[i] = orig[i]
    <2>1. m[i] = mem[i] BY <1>0, <1>1, <1>2, <1>7, <1>9 DEF Pos
    <2>2. mem[i] = orig[i] BY <1>1, <1>2, <1>9 DEF IInv, UnreadIntact, Pos
    <2> QED BY <2>1, <2>2
  <1>10. p \in 0..len /\ base <= p /\ q \in 0..len /\ base <= q BY <1>1, <1>2, <1>6
  <1>11. CASE ArrError(m, "UnexpectedEof", p) BY <1>7, <1>8, <1>10, <1>11, ArrErrorLemma DEF Errors
  <1>12. CASE ArrError(m, "UnexpectedChar", q) BY <1>7, <1>8, <1>10, <1>12, ArrErrorLemma DEF Errors
  <1>13. CASE q < len /\ mem' = m /\ ArrayDone(q)
    <2> DEFINE n == wr + 1 - seg
               skip == (q + 1) - (wr + 1)
    <2>1. /\ n \in Nat /\ skip \in Nat /\ seg + n + skip = q + 1 /\ q + 1 <= len
          /\ rd <= q + 1
      BY <1>1, <1>2, <1>6, <1>13
    <2>2. SplitInput(op, src, seg, n, skip) BY <1>13 DEF ArrayDone
    <2> HIDE DEF n, skip
    <2>3. mem' \in [Pos -> Byte] /\ BelowIntact BY <1>7, <1>8, <1>13 DEF BelowIntact
    <2>4. ASSUME ~dirty, NEW i \in Pos, i >= seg + n + skip PROVE mem'[i] = orig[i]
      BY <1>6, <1>9, <1>13, <2>1, <2>4, <1>2 DEF Pos
    <2> QED BY <1>1, <2>1, <2>2, <2>3, <2>4, SplitLemma
  <1>14. CASE /\ q < len
              /\ mem' = m /\ MoveTo(q + 1)
              /\ wr' = wr + 1
              /\ UNCHANGED <<call, pc, seg, rd, borrowed, err, dirty>>
    <2>1. base' = base /\ index' \in 0..len /\ (base' + index') \in 0..len /\ Cursor' = q + 1
      BY <1>1, <1>6, <1>10, <1>14 DEF MoveTo, Cursor
    <2>2. mem' \in [Pos -> Byte] /\ BelowIntact BY <1>7, <1>8, <1>14 DEF BelowIntact
    <2>3. LoopOK' /\ Frontier' = q + 1
      BY <1>1, <1>2, <1>6, <1>14, <2>1 DEF LoopOK, Frontier
    <2>4. ASSUME ~dirty, NEW i \in Pos, i >= Frontier' PROVE mem'[i] = orig[i]
      BY <1>2, <1>6, <1>9, <1>14, <2>3, <2>4 DEF Pos
    <2>5. /\ src' \in 0..len /\ op' \in Ops /\ pc' \in Labels \cup {"idle", "done"}
          /\ UNCHANGED <<borrowed, err, dirty, orig, len, dec>>
      BY <1>1, <1>14 DEF call, Labels
    <2>6. seg' \in 0..len /\ wr' \in 0..len /\ rd' \in 0..len BY <1>1, <1>2, <1>6, <1>14
    <2> QED BY <2>1, <2>2, <2>3, <2>4, <2>5, <2>6, MoveLemma
  <1> QED BY <1>5, <1>11, <1>12, <1>13, <1>14

LEMMA ArrNumberKept ==
  ASSUME IInv, pc = "arr", NEW p \in Scan(mem, NonWs, Cursor), p < len, mem[p] \in Digit,
         NEW e \in Scan(mem, Byte \ Digit, p + 1), ArrNumber(p, e),
         UNCHANGED <<orig, len, dec>>
  PROVE  Kept
  <1>1. len \in Nat /\ base \in Nat /\ Cursor \in Nat /\ base <= Cursor BY ArrBounds
  <1>2. p \in Nat /\ Cursor <= p /\ p + 1 \in Nat BY <1>1, ScanLemma
  <1>3. e \in Nat /\ p + 1 <= e /\ e <= len BY <1>1, <1>2, ScanLemma
  <1> DEFINE value == U8Value(mem, p, e)
  <1>4. CASE value > 255
    <2>1. mem \in [Pos -> Byte] BY DEF IInv, TypeOK
    <2>2. p + 1 \in 0..len /\ base <= p + 1 BY <1>1, <1>2, <1>3
    <2>3. ArrError(mem, "InvalidNumber", p + 1) BY <1>4 DEF ArrNumber
    <2> QED BY <2>1, <2>2, <2>3, ArrErrorLemma DEF Errors
  <1>5. CASE ~(value > 255)
    <2>1. value \in Nat
      <3>0. \A i \in p..(e - 1) : mem[i] \in Digit
        <4>1. ASSUME NEW i \in p..(e - 1), i /= p PROVE mem[i] \in Digit
          <5>1. i \in (p + 1)..(e - 1) BY <1>2, <1>3, <4>1
          <5>2. i \in Pos BY <1>1, <1>2, <1>3, <4>1 DEF Pos
          <5>3. mem[i] \in Byte BY <5>2 DEF IInv, TypeOK
          <5>4. mem[i] \notin Byte \ Digit BY <5>1 DEF Scan
          <5> QED BY <5>3, <5>4
        <4> QED BY <4>1
      <3>1. CASE e - p = 1
        <4>1. p \in p..(e - 1) BY <1>2, <1>3, <3>1
        <4>2. DigitAt(mem, p) \in Nat BY <3>0, <4>1 DEF DigitAt, Digit, Zero
        <4> QED BY <3>1, <4>2 DEF U8Value
      <3>2. CASE e - p = 2
        <4>1. p \in p..(e - 1) /\ p + 1 \in p..(e - 1) BY <1>2, <1>3, <3>2
        <4>2. DigitAt(mem, p) \in Nat /\ DigitAt(mem, p + 1) \in Nat
          BY <3>0, <4>1 DEF DigitAt, Digit, Zero
        <4> QED BY <3>2, <4>2 DEF U8Value
      <3>3. CASE e - p = 3
        <4>1. p \in p..(e - 1) /\ p + 1 \in p..(e - 1) /\ p + 2 \in p..(e - 1)
          BY <1>2, <1>3, <3>3
        <4>2. /\ DigitAt(mem, p) \in Nat /\ DigitAt(mem, p + 1) \in Nat
              /\ DigitAt(mem, p + 2) \in Nat
          BY <3>0, <4>1 DEF DigitAt, Digit, Zero
        <4> QED BY <3>3, <4>2 DEF U8Value
      <3>4. CASE e - p \notin {1, 2, 3} BY <3>4 DEF U8Value
      <3> QED BY <3>1, <3>2, <3>3, <3>4
    <2> HIDE DEF value
    <2>2. value \in Byte BY <1>5, <2>1 DEF Byte
    <2>3. e \in 0..len /\ Cursor < e BY <1>1, <1>2, <1>3
    <2>4. ArrByte(value, e) BY <1>5 DEF ArrNumber, value
    <2> QED BY <2>2, <2>3, <2>4, ArrByteKept
  <1> QED BY <1>4, <1>5

LEMMA ArrStepKept == ASSUME IInv, ArrStep PROVE Kept
  <1>0. pc = "arr" /\ UNCHANGED <<orig, len, dec>> BY DEF ArrStep
  <1>1. PICK p \in Scan(mem, NonWs, Cursor) :
       \/ p = len /\ ArrError(mem, "UnexpectedEof", Cursor)
       \/ p < len /\ mem[p] = Minus /\ ArrError(mem, "InvalidNumber", p)
       \/ p < len /\ mem[p] = Zero /\ ArrByte(0, p + 1)
       \/ p < len /\ mem[p] \in Digit \ {Zero}
          /\ \E e \in Scan(mem, Byte \ Digit, p + 1) : ArrNumber(p, e)
       \/ p < len /\ mem[p] \notin Digit \cup {Minus} /\ ArrError(mem, "InvalidType", p)
    BY DEF ArrStep
  <1>2. /\ p \in 0..len /\ Cursor <= p /\ base <= Cursor /\ Cursor \in 0..len /\ base \in 0..len
    BY IdleScan
  <1>3. ASSUME NEW e \in Errors, NEW q \in {p, Cursor}, ArrError(mem, e, q) PROVE Kept
    <2>1. mem \in [Pos -> Byte] BY DEF IInv, TypeOK
    <2>2. q \in 0..len /\ base <= q BY <1>2, <1>3
    <2> QED BY <1>0, <1>3, <2>1, <2>2, ArrErrorLemma
  <1>4. CASE p < len /\ ArrByte(0, p + 1)
    <2>1. p + 1 \in 0..len /\ Cursor < p + 1 BY <1>2, <1>4 DEF IInv, TypeOK
    <2>2. 0 \in Byte BY DEF Byte
    <2> QED BY <1>0, <1>4, <2>1, <2>2, ArrByteKept
  <1>5. CASE p < len /\ mem[p] \in Digit /\ \E e \in Scan(mem, Byte \ Digit, p + 1) : ArrNumber(p, e)
    BY <1>0, <1>5, ArrNumberKept
  <1> QED BY <1>1, <1>3, <1>4, <1>5 DEF Errors

-----------------------------------------------------------------------------
(* eat_str_content *)

LEMMA SkipStepKept == ASSUME IInv, SkipStep PROVE Kept
  <1>0. pc = "skip" /\ UNCHANGED <<orig, len, dec>> BY DEF SkipStep
  <1>1. PICK end \in Scan(mem, Control \cup {QU}, rd) :
       \/ Fail("UnexpectedEof") /\ UNCHANGED <<mem, cursor>>
       \/ end < len /\ Ate(op, src, end + 1)
       \/ end < len /\ rd' = end + 1
          /\ UNCHANGED <<mem, cursor, call, pc, seg, wr, borrowed, err, dirty>>
       \/ Fail("StringControlChar") /\ UNCHANGED <<mem, cursor>>
    BY DEF SkipStep, NextStart
  <1>2. /\ len \in Nat /\ rd \in Nat /\ Cursor \in Nat /\ Cursor <= rd
        /\ op \in Ops /\ src \in 0..len
    BY <1>0 DEF IInv, TypeOK, LoopOK
  <1>3. end \in Nat /\ rd <= end /\ end <= len BY <1>2, ScanLemma
  <1>4. ASSUME NEW e \in Errors, Fail(e), UNCHANGED <<mem, cursor>> PROVE Kept
    <2>1. mem' \in [Pos -> Byte] /\ BelowIntact BY <1>4 DEF IInv, TypeOK, BelowIntact
    <2> QED BY <1>0, <1>4, <2>1, StayFailLemma
  <1>5. CASE end < len /\ Ate(op, src, end + 1)
    <2>1. end + 1 \in 0..len /\ Cursor <= end + 1 /\ rd <= end + 1 BY <1>2, <1>3, <1>5
    <2> QED BY <1>0, <1>2, <1>5, <2>1, AteLemma
  <1>6. CASE end < len /\ rd' = end + 1
             /\ UNCHANGED <<mem, cursor, call, pc, seg, wr, borrowed, err, dirty>>
    <2>1. /\ base' = base /\ index' \in 0..len /\ (base' + index') \in 0..len /\ Cursor' = Cursor
      BY <1>6 DEF cursor, Cursor, IInv, TypeOK
    <2>2. LoopOK' /\ Frontier' = end + 1 BY <1>0, <1>2, <1>3, <1>6, <2>1 DEF LoopOK, Frontier
    <2>3. mem' \in [Pos -> Byte] /\ BelowIntact BY <1>6 DEF IInv, TypeOK, BelowIntact
    <2>4. ASSUME ~dirty, NEW i \in Pos, i >= Frontier' PROVE mem'[i] = orig[i]
      <3>1. i >= Frontier BY <1>2, <1>3, <2>2, <2>4 DEF Frontier, Pos
      <3> QED BY <1>0, <1>6, <2>4, <3>1 DEF IInv, UnreadIntact
    <2>5. /\ src' \in 0..len /\ op' \in Ops /\ pc' \in Labels \cup {"idle", "done"}
          /\ seg' \in 0..len /\ wr' \in 0..len /\ rd' \in 0..len
          /\ UNCHANGED <<borrowed, err, dirty, orig, len, dec>>
      BY <1>0, <1>2, <1>3, <1>6 DEF call, Labels, IInv, TypeOK
    <2> QED BY <2>1, <2>2, <2>3, <2>4, <2>5, MoveLemma
  <1> QED BY <1>1, <1>4, <1>5, <1>6 DEF Errors

-----------------------------------------------------------------------------
(* The theorems *)

LEMMA InitIInv == Init => IInv
  <1> SUFFICES ASSUME Init PROVE IInv OBVIOUS
  <1>1. PICK s \in Inputs : mem = [i \in 0..(Len(s) - 1) |-> s[i + 1]] /\ len = Len(s)
    BY DEF Init
  <1>2. s \in Seq(Byte) BY InputsAssumption
  <1>3. len \in Nat BY <1>1, <1>2
  <1>4. ASSUME NEW i \in Pos PROVE s[i + 1] \in Byte
    <2>1. i + 1 \in 1..Len(s) BY <1>1, <1>3 DEF Pos
    <2> QED BY <1>2, <2>1
  <1>5. mem \in [Pos -> Byte] BY <1>1, <1>4 DEF Pos
  <1>a. 0 \in 0..len /\ 0 + 0 \in 0..len BY <1>3
  <1>b. orig \in [Pos -> Byte] /\ borrowed \subseteq Loans BY <1>5 DEF Init
  <1>6. TypeOK BY <1>3, <1>5, <1>a, <1>b DEF Init, TypeOK, Cursor, Labels, Ops, Errors
  <1>7. NoPanic /\ LoopOK /\ UnreadIntact /\ BorrowsDisjoint
    BY DEF Init, NoPanic, LoopOK, UnreadIntact, BorrowsDisjoint, Cursor
  <1> QED BY <1>6, <1>7 DEF IInv

LEMMA NextKept == ASSUME IInv, Next PROVE Kept
  BY DeserializeStrKept, DeserializeBytesKept, IgnoreScalarKept, EatPunctKept, EndKept,
     SwallowErrorKept, StrStepKept, HexStepKept, B64StepKept, ArrStepKept, SkipStepKept
  DEF Next

LEMMA StutterKept == ASSUME IInv, UNCHANGED vars PROVE Kept
  <1> USE DEF vars
  <1>1. TypeOK' BY DEF IInv, TypeOK, Cursor, Pos
  <1>2. LoopOK' BY DEF IInv, LoopOK, Cursor
  <1>3. UnreadIntact' BY DEF IInv, UnreadIntact, Frontier, Cursor, Pos
  <1>4. BorrowsDisjoint' /\ NoPanic' BY DEF IInv, BorrowsDisjoint, NoPanic
  <1> QED BY <1>1, <1>2, <1>3, <1>4 DEF Kept, IInv, BelowIntact

\* Every reachable state of the deserializer satisfies the inductive invariant.
THEOREM Inductive == Spec => []IInv
  <1>1. IInv /\ [Next]_vars => IInv' BY NextKept, StutterKept DEF Kept
  <1> QED BY <1>1, InitIInv, PTL DEF Spec

\* Types: for any text, the cursors of all decoders stay inside the buffer.
THEOREM TypeCorrect == Spec => []TypeOK
  <1>1. IInv => TypeOK BY DEF IInv
  <1> QED BY <1>1, Inductive, PTL

\* For any text and any sequence of calls, split_input never panics and no
\* write leaves the buffer: neither the checked ones nor the unchecked ones of
\* base64::decode and parse_array_bytes_content.
THEOREM NeverPanics == Spec => []NoPanic
  <1>1. IInv => NoPanic BY DEF IInv
  <1> QED BY <1>1, Inductive, PTL

\* For any text, in-place decoding never overwrites what is still to be read.
THEOREM UnreadStaysIntact == Spec => []UnreadIntact
  <1>1. IInv => UnreadIntact BY DEF IInv
  <1> QED BY <1>1, Inductive, PTL

\* The SAFETY comment of split_input: the slices it hands out never overlap
\* each other or the slice the deserializer keeps.
THEOREM SlicesDisjoint == Spec => []BorrowsDisjoint
  <1>1. IInv => BorrowsDisjoint BY DEF IInv
  <1> QED BY <1>1, Inductive, PTL

\* No later operation changes a slice that was handed out.
THEOREM SlicesFrozen == Spec => BorrowsFrozen
  <1>1. ASSUME IInv, [Next]_vars
        PROVE  \A s \in borrowed : \A i \in s.lo..(s.hi - 1) : mem'[i] = mem[i]
    <2>1. BelowIntact BY <1>1, NextKept, StutterKept DEF Kept
    <2>2. ASSUME NEW s \in borrowed, NEW i \in s.lo..(s.hi - 1) PROVE mem'[i] = mem[i]
      <3>1. s.lo \in Nat /\ s.hi \in Nat /\ s.hi <= base /\ base \in 0..len /\ len \in Nat
        BY <1>1 DEF IInv, TypeOK, BorrowsDisjoint, Loans
      <3>2. i \in Pos /\ i < base BY <3>1 DEF Pos
      <3> QED BY <2>1, <3>2 DEF BelowIntact
    <2> QED BY <2>2
  <1>2. IInv /\ [Next]_vars =>
          [\A s \in borrowed : \A i \in s.lo..(s.hi - 1) : mem'[i] = mem[i]]_vars
    BY <1>1
  <1> QED BY <1>2, Inductive, PTL DEF Spec, BorrowsFrozen

LEMMA LeastNat ==
  ASSUME NEW T \in SUBSET Nat, T /= {}
  PROVE  \E m \in T : \A k \in T : m <= k
  <1>1. PICK m \in T : \A k \in T : <<k, m>> \notin OpToRel(<, Nat)
    BY NatLessThanWellFounded, WFMin
  <1>2. \A k \in T : ~(k < m) BY <1>1 DEF OpToRel
  <1>3. \A k \in T : m <= k BY <1>2
  <1> QED BY <1>3

\* The last position of which something is true.
LEMMA LastPosition ==
  ASSUME NEW n \in Nat, NEW T \in SUBSET (0..n), T /= {}
  PROVE  \E m \in T : \A k \in T : k <= m
  <1> DEFINE U == {k \in 0..n : n - k \in T}
  <1>1. U \in SUBSET Nat OBVIOUS
  <1>2. U /= {}
    <2>1. PICK k \in T : TRUE OBVIOUS
    <2>2. n - k \in U BY <2>1
    <2> QED BY <2>2
  <1>3. PICK u \in U : \A k \in U : u <= k
    <2> HIDE DEF U
    <2> QED BY <1>1, <1>2, LeastNat
  <1>4. n - u \in T /\ u \in 0..n BY <1>3
  <1>5. ASSUME NEW k \in T PROVE k <= n - u
    <2>1. k \in 0..n OBVIOUS
    <2>2. n - k \in U BY <2>1
    <2>3. u <= n - k BY <2>2, <1>3
    <2> HIDE DEF U
    <2> QED BY <2>1, <2>3, <1>4
  <1> QED BY <1>4, <1>5

-----------------------------------------------------------------------------
(* Chains of units *)

Units   == [kind : {"more", "last", "bad"}, bytes : Seq(Byte), next : Nat]
Results == [ok : BOOLEAN, bytes : Seq(Byte), end : Nat]

\* The units at the positions up to n, each of which ends before the next.
IsUnits(unit, n) ==
  /\ unit \in [0..n -> Units]
  /\ \A i \in 0..n : unit[i].kind = "more" => i < unit[i].next /\ unit[i].next <= n

IsChain(f, unit) == f = [i \in DOMAIN unit |-> Denoted(f, unit, i)]

LEMMA DenotedSame ==
  ASSUME NEW n \in Nat, NEW unit, IsUnits(unit, n), NEW f, NEW g, NEW i \in 0..n,
         \A k \in (i + 1)..n : f[k] = g[k]
  PROVE  Denoted(f, unit, i) = Denoted(g, unit, i)
  <1>1. unit[i].kind = "more" => f[unit[i].next] = g[unit[i].next]
    <2>1. unit[i] \in Units BY DEF IsUnits
    <2>2. unit[i].next \in Nat BY <2>1 DEF Units
    <2> QED BY <2>2 DEF IsUnits
  <1> QED BY <1>1 DEF Denoted

LEMMA ChainExists ==
  ASSUME NEW n \in Nat, NEW unit, IsUnits(unit, n)
  PROVE  \E f : IsChain(f, unit)
  <1> DEFINE From(g, m) == g = [i \in m..n |-> Denoted(g, unit, i)]
             T == {m \in 0..n : ~\E g : From(g, m)}
  <1>1. DOMAIN unit = 0..n BY DEF IsUnits
  <1> SUFFICES ASSUME T /= {} PROVE FALSE
    <2>1. \E g : From(g, 0) OBVIOUS
    <2> QED BY <2>1, <1>1 DEF IsChain
  <1>2. PICK m \in T : \A k \in T : k <= m
    <2>1. T \in SUBSET (0..n) OBVIOUS
    <2> HIDE DEF T
    <2> QED BY <2>1, LastPosition
  <1>3. m \in 0..n /\ ~\E g : From(g, m) BY <1>2
  <1>4. \E f : \A i \in (m + 1)..n : f[i] = Denoted(f, unit, i)
    <2>1. CASE m = n
      <3>1. (m + 1)..n = {} BY <1>3, <2>1
      <3> QED BY <3>1
    <2>2. CASE m < n
      <3>1. m + 1 \in 0..n /\ ~(m + 1 <= m) BY <1>3, <2>2
      <3>2. \E g : From(g, m + 1) BY <3>1, <1>2
      <3> QED BY <3>2
    <2> QED BY <1>3, <2>1, <2>2
  <1>5. PICK f : \A i \in (m + 1)..n : f[i] = Denoted(f, unit, i) BY <1>4
  <1> DEFINE d == Denoted(f, unit, m)
             g == [i \in m..n |-> IF i = m THEN d ELSE f[i]]
  <1>6. g[m] = d BY <1>3
  <1>7. \A i \in (m + 1)..n : g[i] = f[i] BY <1>3
  <1>8. g = [i \in m..n |-> g[i]] OBVIOUS
  <1> HIDE DEF g
  <1>9. ASSUME NEW i \in m..n PROVE g[i] = Denoted(g, unit, i)
    <2>0. i \in 0..n /\ \A k \in (i + 1)..n : k \in (m + 1)..n BY <1>3
    <2>1. \A k \in (i + 1)..n : f[k] = g[k] BY <2>0, <1>7
    <2>2. Denoted(f, unit, i) = Denoted(g, unit, i) BY <2>0, <2>1, DenotedSame
    <2>3. CASE i = m BY <2>2, <2>3, <1>6
    <2>4. CASE i /= m
      <3>1. i \in (m + 1)..n BY <1>3, <2>4
      <3> QED BY <3>1, <1>5, <1>7, <2>2
    <2> QED BY <2>3, <2>4
  <1>10. From(g, m) BY <1>8, <1>9
  <1> QED BY <1>3, <1>10

LEMMA BeforeLemma ==
  ASSUME NEW b \in Seq(Byte), NEW r \in Results
  PROVE  /\ Before(b, r) \in Results /\ Before(b, r).ok = r.ok
         /\ Before(b, r).end = r.end
         /\ r.ok => Before(b, r).bytes = b \o r.bytes
         /\ ~r.ok => Before(b, r) = r
         /\ Before(<<>>, r) = r
  <1>1. r.bytes \in Seq(Byte) /\ r.end \in Nat /\ r.ok \in BOOLEAN BY DEF Results
  <1>2. b \o r.bytes \in Seq(Byte) BY <1>1, ConcatProperties
  <1>3. <<>> \o r.bytes = r.bytes BY <1>1, ConcatEmptySeq
  <1>4. r = [ok |-> r.ok, bytes |-> r.bytes, end |-> r.end] BY DEF Results
  <1>5. Before(<<>>, r) = r
    <2>1. CASE r.ok BY <1>3, <1>4, <1>1, <2>1 DEF Before, Result
    <2>2. CASE ~r.ok BY <2>2 DEF Before
    <2> QED BY <2>1, <2>2
  <1>6. CASE r.ok
    <2>1. Before(b, r) = [ok |-> TRUE, bytes |-> b \o r.bytes, end |-> r.end]
      BY <1>6 DEF Before, Result
    <2>2. Before(b, r) \in Results BY <1>1, <1>2, <2>1 DEF Results
    <2> QED BY <1>1, <1>5, <1>6, <2>1, <2>2
  <1>7. CASE ~r.ok
    <2>1. Before(b, r) = r BY <1>7 DEF Before
    <2> QED BY <1>5, <1>7, <2>1
  <1> QED BY <1>6, <1>7

LEMMA ResultLemma ==
  ASSUME NEW b \in Seq(Byte), NEW e \in Nat
  PROVE  /\ Result(b, e) \in Results /\ Result(b, e).ok /\ Result(b, e).bytes = b
         /\ Result(b, e).end = e
         /\ Failure \in Results /\ ~Failure.ok
  BY DEF Result, Failure, Results

\* What a chain denotes at each position.
LEMMA ChainLemma ==
  ASSUME NEW n \in Nat, NEW unit, IsUnits(unit, n), NEW i \in 0..n
  PROVE  /\ Chain(unit)[i] \in Results
         /\ unit[i].kind = "last" => Chain(unit)[i] = Result(unit[i].bytes, unit[i].next)
         /\ unit[i].kind = "more" => Chain(unit)[i] = Before(unit[i].bytes, Chain(unit)[unit[i].next])
         /\ unit[i].kind = "bad" => Chain(unit)[i] = Failure
  <1> DEFINE f == Chain(unit)
  <1>1. f = CHOOSE g : IsChain(g, unit) BY Zenon DEF Chain, IsChain
  <1> HIDE DEF f
  <1>2. IsChain(f, unit) BY <1>1, ChainExists, Zenon
  <1>3. DOMAIN unit = 0..n BY DEF IsUnits
  <1>4. \A k \in 0..n : f[k] = Denoted(f, unit, k) BY <1>2, <1>3 DEF IsChain
  <1>5. ASSUME NEW k \in 0..n
        PROVE  /\ unit[k] \in Units
               /\ unit[k].kind = "last" => f[k] = Result(unit[k].bytes, unit[k].next)
               /\ unit[k].kind = "more" => f[k] = Before(unit[k].bytes, f[unit[k].next])
               /\ unit[k].kind = "bad" => f[k] = Failure
    <2>1. unit[k] \in Units BY DEF IsUnits
    <2>2. f[k] = Denoted(f, unit, k) BY <1>4
    <2> QED BY <2>1, <2>2 DEF Denoted
  <1> DEFINE T == {k \in 0..n : f[k] \notin Results}
  <1>6. T = {}
    <2> SUFFICES ASSUME T /= {} PROVE FALSE OBVIOUS
    <2>1. PICK m \in T : \A k \in T : k <= m
      <3>1. T \in SUBSET (0..n) OBVIOUS
      <3> HIDE DEF T
      <3> QED BY <3>1, LastPosition
    <2>2. m \in 0..n /\ f[m] \notin Results BY <2>1
    <2>3. unit[m] \in Units BY <1>5, <2>2
    <2>4. unit[m].bytes \in Seq(Byte) /\ unit[m].next \in Nat
          /\ unit[m].kind \in {"more", "last", "bad"}
      BY <2>3 DEF Units
    <2>5. CASE unit[m].kind = "last" BY <2>2, <2>4, <2>5, <1>5, ResultLemma
    <2>6. CASE unit[m].kind = "bad" BY <2>2, <2>4, <2>6, <1>5, ResultLemma
    <2>7. CASE unit[m].kind = "more"
      <3>1. unit[m].next \in 0..n /\ ~(unit[m].next <= m) BY <2>2, <2>4, <2>7 DEF IsUnits
      <3>2. f[unit[m].next] \in Results BY <3>1, <2>1
      <3>3. f[m] = Before(unit[m].bytes, f[unit[m].next]) BY <1>5, <2>2, <2>7
      <3> QED BY <2>2, <2>4, <3>2, <3>3, BeforeLemma
    <2> QED BY <2>4, <2>5, <2>6, <2>7
  <1>7. f[i] \in Results BY <1>6
  <1> QED BY <1>5, <1>7 DEF f

-----------------------------------------------------------------------------
(* Texts and the units of their contents *)

IsText(t, n) ==
  /\ n \in Nat /\ DOMAIN t = 0..n /\ t[n] = Eof
  /\ \A i \in 0..n : i /= n => t[i] \in Byte

LEMMA PastLemma ==
  ASSUME NEW n, NEW t, IsText(t, n), NEW S, Eof \notin S, NEW i \in 0..n
  PROVE  /\ Past(t, S, i) \in i..n /\ t[Past(t, S, i)] \notin S
         /\ \A k \in i..(Past(t, S, i) - 1) : t[k] \in S
         /\ Past(t, S, i) \in 0..n
  <1> DEFINE T == {j \in 0..n : i <= j /\ t[j] \notin S}
             Is(j) == j \in DOMAIN t /\ i <= j /\ t[j] \notin S /\ \A k \in i..(j - 1) : t[k] \in S
  <1>0. n \in Nat /\ i \in Nat BY DEF IsText
  <1>1. n \in T BY <1>0 DEF IsText
  <1>2. PICK m \in T : \A k \in T : m <= k
    <2>1. T \in SUBSET Nat BY <1>0
    <2> HIDE DEF T
    <2> QED BY <1>1, <2>1, LeastNat
  <1>3. ASSUME NEW k \in i..(m - 1) PROVE t[k] \in S
    <2>1. m \in 0..n BY <1>2
    <2>2. k \in 0..n /\ i <= k /\ ~(m <= k) BY <1>0, <2>1
    <2> QED BY <1>2, <2>2
  <1>4. Is(m) BY <1>2, <1>3 DEF IsText
  <1>5. Past(t, S, i) = CHOOSE j \in DOMAIN t :
                          i <= j /\ t[j] \notin S /\ \A k \in i..(j - 1) : t[k] \in S
    BY DEF Past
  <1>6. Is(Past(t, S, i)) BY <1>4, <1>5
  <1>7. DOMAIN t = 0..n BY DEF IsText
  <1> QED BY <1>0, <1>6, <1>7

LEMMA PastUnique ==
  ASSUME NEW n, NEW t, IsText(t, n), NEW S, Eof \notin S, NEW i \in 0..n, NEW j \in 0..n,
         i <= j, t[j] \notin S, \A k \in i..(j - 1) : t[k] \in S
  PROVE  Past(t, S, i) = j
  <1> DEFINE p == Past(t, S, i)
  <1>1. p \in i..n /\ t[p] \notin S /\ \A k \in i..(p - 1) : t[k] \in S BY PastLemma
  <1>2. n \in Nat BY DEF IsText
  <1> HIDE DEF p
  <1>3. ~(p < j)
    <2>1. p < j => p \in i..(j - 1) BY <1>1, <1>2
    <2> QED BY <2>1, <1>1
  <1>4. ~(j < p)
    <2>1. j < p => j \in i..(p - 1) BY <1>1, <1>2
    <2> QED BY <2>1, <1>1
  <1>5. p = j BY <1>1, <1>2, <1>3, <1>4
  <1> QED BY <1>5 DEF p

\* What escapes and digits stand for is what the decoder takes them for.
LEMMA EscapeLemma ==
  /\ DOMAIN EscapeOf = Preserved \cup DOMAIN UNESCAPE
  /\ \A c \in Preserved : EscapeOf[c] = c /\ c \in Byte
  /\ \A c \in DOMAIN UNESCAPE : EscapeOf[c] = UNESCAPE[c] /\ UNESCAPE[c] \in Byte
  /\ UU \notin Preserved \cup DOMAIN UNESCAPE
  <1>1. DOMAIN EscapeOf = {34, 92, 47, 98, 102, 110, 114, 116} BY DEF EscapeOf, Escapes
  <1>2. Preserved = {34, 92, 47} /\ DOMAIN UNESCAPE = {98, 102, 110, 114, 116}
    BY DEF Preserved, UNESCAPE, QU, RS
  <1>3. ASSUME NEW e \in Escapes PROVE EscapeOf[e[1]] = e[2]
    <2>1. \A d \in Escapes : d[1] = e[1] => d = e BY DEF Escapes
    <2>2. (CHOOSE d \in Escapes : d[1] = e[1]) = e BY <2>1
    <2> QED BY <2>2 DEF EscapeOf
  <1>4. /\ EscapeOf[34] = 34 /\ EscapeOf[92] = 92 /\ EscapeOf[47] = 47
    <2>1. <<34, 34>> \in Escapes /\ <<92, 92>> \in Escapes /\ <<47, 47>> \in Escapes BY DEF Escapes
    <2>2. EscapeOf[<<34, 34>>[1]] = <<34, 34>>[2] BY <2>1, <1>3
    <2>3. EscapeOf[<<92, 92>>[1]] = <<92, 92>>[2] BY <2>1, <1>3
    <2>4. EscapeOf[<<47, 47>>[1]] = <<47, 47>>[2] BY <2>1, <1>3
    <2> QED BY <2>2, <2>3, <2>4
  <1>5. /\ EscapeOf[98] = 8 /\ EscapeOf[102] = 12 /\ EscapeOf[110] = 10 /\ EscapeOf[114] = 13
        /\ EscapeOf[116] = 9
    <2>1. /\ <<98, 8>> \in Escapes /\ <<102, 12>> \in Escapes /\ <<110, 10>> \in Escapes
          /\ <<114, 13>> \in Escapes /\ <<116, 9>> \in Escapes
      BY DEF Escapes
    <2>2. EscapeOf[<<98, 8>>[1]] = <<98, 8>>[2] BY <2>1, <1>3
    <2>3. EscapeOf[<<102, 12>>[1]] = <<102, 12>>[2] BY <2>1, <1>3
    <2>4. EscapeOf[<<110, 10>>[1]] = <<110, 10>>[2] BY <2>1, <1>3
    <2>5. EscapeOf[<<114, 13>>[1]] = <<114, 13>>[2] BY <2>1, <1>3
    <2>6. EscapeOf[<<116, 9>>[1]] = <<116, 9>>[2] BY <2>1, <1>3
    <2> QED BY <2>2, <2>3, <2>4, <2>5, <2>6
  <1>6. /\ UNESCAPE[98] = 8 /\ UNESCAPE[102] = 12 /\ UNESCAPE[110] = 10 /\ UNESCAPE[114] = 13
        /\ UNESCAPE[116] = 9
    BY DEF UNESCAPE
  <1>7. \A c \in {34, 92, 47, 8, 12, 10, 13, 9} : c \in Byte BY DEF Byte
  <1> QED BY <1>1, <1>2, <1>4, <1>5, <1>6, <1>7 DEF UU

LEMMA NibbleLemma ==
  ASSUME NEW c \in Nat
  PROVE  /\ c \in Nibbles <=> IsNib(c)
         /\ c \in Nibbles => NibbleOf[c] = HexNib(c) /\ HexNib(c) \in Nat /\ HexNib(c) < 16
  <1>1. \A k \in 0..15 : c \in NibbleChars(k) => IsNib(c) /\ HexNib(c) = k
    BY DEF NibbleChars, IsNib, HexNib, Digit
  <1>2. IsNib(c) => HexNib(c) \in 0..15 /\ c \in NibbleChars(HexNib(c))
    BY DEF NibbleChars, IsNib, HexNib, Digit
  <1>3. c \in Nibbles <=> \E k \in 0..15 : c \in NibbleChars(k) BY DEF Nibbles
  <1>4. c \in Nibbles <=> IsNib(c) BY <1>1, <1>2, <1>3
  <1>5. ASSUME c \in Nibbles PROVE NibbleOf[c] = HexNib(c)
    <2>1. NibbleOf[c] = CHOOSE k \in 0..15 : c \in NibbleChars(k) BY <1>5 DEF NibbleOf
    <2>2. NibbleOf[c] \in 0..15 /\ c \in NibbleChars(NibbleOf[c]) BY <1>3, <1>5, <2>1
    <2> QED BY <2>2, <1>1
  <1> QED BY <1>2, <1>4, <1>5

LEMMA CharLemma ==
  /\ Eof \notin Byte /\ Eof \notin Nibbles /\ Eof \notin WS /\ Eof \notin Digit /\ Eof /= RS
  /\ Eof \notin DOMAIN EscapeOf /\ Eof /= QU /\ Eof /= UU /\ Eof /= Equals /\ Eof \notin Codes
  /\ QU /= RS /\ QU \notin Nibbles /\ QU \notin Control /\ RS \notin Control
  /\ QU \in Byte /\ RS \in Byte /\ Eof \in Nat /\ Byte \subseteq Nat
  /\ \A c \in Nibbles : c \notin Control \cup {QU, RS, Eof}
  /\ \A c \in DOMAIN EscapeOf : c \notin Control \cup {Eof}
  /\ UU \notin Control \cup {Eof}
  /\ WS \subseteq Byte /\ Digit \subseteq Byte
  <1>1. \A c \in Nibbles : c \in Nat
    BY DEF Nibbles, NibbleChars
  <1>2. \A c \in Nibbles : c \in Digit \cup 65..70 \cup 97..102 BY <1>1, NibbleLemma DEF IsNib
  <1>3. DOMAIN EscapeOf = {34, 92, 47, 98, 102, 110, 114, 116} BY DEF EscapeOf, Escapes
  <1>4. Eof \notin Codes
    <2>1. \A k \in 0..63 : Alphabet[k] < 256 BY DEF Alphabet
    <2> QED BY <2>1 DEF Codes, Eof
  <1>5. /\ Eof \notin Nibbles /\ QU \notin Nibbles
        /\ \A c \in Nibbles : c \notin Control \cup {QU, RS, Eof}
    BY <1>2 DEF Digit, Control, QU, RS, Eof
  <1>6. /\ Eof \notin DOMAIN EscapeOf /\ \A c \in DOMAIN EscapeOf : c \notin Control \cup {Eof}
    BY <1>3 DEF Control, Eof
  <1>7. /\ Eof \notin Byte /\ Eof \notin WS /\ Eof \notin Digit /\ Eof /= RS
        /\ Eof /= QU /\ Eof /= UU /\ Eof /= Equals /\ QU /= RS /\ QU \notin Control
        /\ RS \notin Control /\ QU \in Byte /\ RS \in Byte /\ Eof \in Nat
        /\ UU \notin Control \cup {Eof}
    BY DEF Eof, Byte, WS, Digit, RS, QU, UU, Equals, Control
  <1>8. Byte \subseteq Nat /\ WS \subseteq Byte /\ Digit \subseteq Byte BY DEF Byte, WS, Digit
  <1> QED BY <1>4, <1>5, <1>6, <1>7, <1>8

LEMMA MoreLemma ==
  ASSUME NEW b \in Seq(Byte), NEW j \in Nat
  PROVE  /\ More(b, j) \in Units /\ More(b, j).kind = "more" /\ More(b, j).bytes = b
         /\ More(b, j).next = j
         /\ Last(b, j) \in Units /\ Last(b, j).kind = "last" /\ Last(b, j).bytes = b
         /\ Last(b, j).next = j
  BY DEF More, Last, Units

LEMMA BadLemma == Bad \in Units /\ Bad.kind = "bad"
  BY DEF Bad, Units

\* A unit of t at i: bad, the last, or one that ends within the text.
UnitAt(u, i, n) ==
  \/ u = Bad
  \/ \E b \in Seq(Byte) : \E j \in Nat : u = Last(b, j)
  \/ \E b \in Seq(Byte) : \E j \in (i + 1)..n : u = More(b, j)

LEMMA AllUnits ==
  ASSUME NEW n \in Nat, NEW u, DOMAIN u = 0..n, u = [i \in 0..n |-> u[i]],
         \A i \in 0..n : UnitAt(u[i], i, n)
  PROVE  IsUnits(u, n)
  <1>1. ASSUME NEW i \in 0..n
        PROVE  u[i] \in Units /\ (u[i].kind = "more" => i < u[i].next /\ u[i].next <= n)
    <2>1. CASE u[i] = Bad BY <2>1, BadLemma
    <2>2. CASE \E b \in Seq(Byte) : \E j \in Nat : u[i] = Last(b, j)
      <3>1. PICK b \in Seq(Byte), j \in Nat : u[i] = Last(b, j) BY <2>2
      <3>2. u[i] \in Units /\ u[i].kind = "last" BY <3>1, MoreLemma
      <3> QED BY <3>2
    <2>3. CASE \E b \in Seq(Byte) : \E j \in (i + 1)..n : u[i] = More(b, j)
      <3>1. PICK b \in Seq(Byte), j \in (i + 1)..n : u[i] = More(b, j) BY <2>3
      <3>2. j \in Nat BY <3>1
      <3>3. u[i] \in Units /\ u[i].next = j BY <3>1, <3>2, MoreLemma
      <3> QED BY <3>3
    <2> QED BY <2>1, <2>2, <2>3 DEF UnitAt
  <1> QED BY <1>1 DEF IsUnits

\* A text whose character at i is not the end goes on behind i.
LEMMA InText ==
  ASSUME NEW n, NEW t, IsText(t, n), NEW i \in 0..n
  PROVE  /\ t[i] \in Nat /\ t[i] /= Eof => t[i] \in Byte /\ i /= n /\ i + 1 \in 0..n /\ i \in Nat
         /\ t[i] \in Nat /\ n \in Nat /\ i \in Nat
         /\ DOMAIN t = 0..n
  <1>1. t[i] \in Nat BY CharLemma DEF IsText
  <1> QED BY <1>1 DEF IsText

LEMMA HexValueLemma ==
  ASSUME NEW n, NEW t, IsText(t, n), NEW i \in 0..n, HexDigits(t, i, 2)
  PROVE  /\ i + 2 \in 0..n
         /\ t[i] \in Nibbles /\ t[i + 1] \in Nibbles
         /\ HexValue(t, i) = HexPair(t[i], t[i + 1])
         /\ HexValue(t, i) \in Nat /\ HexValue(t, i) < 256
  <1>0. i \in Nat /\ n \in Nat BY DEF IsText
  <1>1. i \in i..(i + 2 - 1) /\ i + 1 \in i..(i + 2 - 1) BY <1>0
  <1>2. t[i] \in Nibbles /\ t[i + 1] \in Nibbles /\ i + 1 \in 0..n BY <1>1 DEF HexDigits, IsText
  <1>3. i + 1 /= n /\ t[i + 1] \in Nat /\ t[i] \in Nat
    BY <1>2, CharLemma, InText
  <1>4. IsNib(t[i]) /\ IsNib(t[i + 1]) BY <1>2, <1>3, NibbleLemma
  <1>5. HexPair(t[i], t[i + 1]) \in Nat /\ HexPair(t[i], t[i + 1]) < 256 BY <1>4, HexPairLemma
  <1>6. /\ NibbleOf[t[i]] = HexNib(t[i]) /\ HexNib(t[i]) \in Nat
        /\ NibbleOf[t[i + 1]] = HexNib(t[i + 1]) /\ HexNib(t[i + 1]) \in Nat
    BY <1>2, <1>3, NibbleLemma
  <1>7. HexValue(t, i) = HexPair(t[i], t[i + 1]) BY <1>6 DEF HexValue, HexPair
  <1>8. i + 2 \in 0..n BY <1>0, <1>2, <1>3
  <1> QED BY <1>2, <1>5, <1>7, <1>8

LEMMA CodePointLemma ==
  ASSUME NEW n, NEW t, IsText(t, n), NEW i \in 0..n, HexDigits(t, i, 4)
  PROVE  /\ i + 4 \in 0..n
         /\ HexDigits(t, i, 2) /\ HexDigits(t, i + 2, 2) /\ i + 2 \in 0..n
         /\ CodePoint(t, i) = HexPair(t[i], t[i + 1]) * 256 + HexPair(t[i + 2], t[i + 3])
         /\ CodePoint(t, i) \in Nat /\ CodePoint(t, i) < 65536
         /\ Utf8(CodePoint(t, i)) \in Seq(Byte)
  <1>0. i \in Nat /\ n \in Nat BY DEF IsText
  <1>1. HexDigits(t, i, 2) /\ HexDigits(t, i + 2, 2)
    <2>1. \A k \in i..(i + 2 - 1) : k \in i..(i + 4 - 1) BY <1>0
    <2>2. \A k \in (i + 2)..(i + 2 + 2 - 1) : k \in i..(i + 4 - 1) BY <1>0
    <2> QED BY <2>1, <2>2 DEF HexDigits
  <1>2. i + 2 \in 0..n BY <1>1, HexValueLemma
  <1>3. /\ i + 2 + 2 \in 0..n
        /\ HexValue(t, i + 2) = HexPair(t[i + 2], t[i + 2 + 1])
        /\ HexValue(t, i + 2) \in Nat /\ HexValue(t, i + 2) < 256
    BY <1>1, <1>2, HexValueLemma
  <1>4. /\ HexValue(t, i) = HexPair(t[i], t[i + 1])
        /\ HexValue(t, i) \in Nat /\ HexValue(t, i) < 256
    BY <1>1, HexValueLemma
  <1>5. i + 2 + 2 = i + 4 /\ i + 2 + 1 = i + 3 BY <1>0
  <1>6. CodePoint(t, i) = HexPair(t[i], t[i + 1]) * 256 + HexPair(t[i + 2], t[i + 3])
    BY <1>3, <1>4, <1>5 DEF CodePoint
  <1>7. CodePoint(t, i) \in Nat /\ CodePoint(t, i) < 65536 BY <1>3, <1>4 DEF CodePoint
  <1>8. Utf8(CodePoint(t, i)) \in Seq(Byte) BY <1>7, Utf8Lemma
  <1> QED BY <1>1, <1>2, <1>3, <1>5, <1>6, <1>7, <1>8

LEMMA StringUnitsLemma ==
  ASSUME NEW n, NEW t, IsText(t, n)
  PROVE  /\ IsUnits(StringUnits(t), n)
         /\ \A i \in 0..n :
              /\ t[i] = QU => StringUnits(t)[i] = Last(<<>>, i + 1)
              /\ t[i] = RS => StringUnits(t)[i] = EscapeUnit(t, i)
              /\ t[i] \in Control \cup {Eof} => StringUnits(t)[i] = Bad
              /\ t[i] \notin Control \cup {QU, RS, Eof} => StringUnits(t)[i] = More(<<t[i]>>, i + 1)
  <1> DEFINE u == StringUnits(t)
  <1>0. n \in Nat /\ DOMAIN t = 0..n BY DEF IsText
  <1>1. \A i \in 0..n : u[i] = CASE t[i] = QU -> Last(<<>>, i + 1)
                                 [] t[i] = RS -> EscapeUnit(t, i)
                                 [] t[i] \in Control \cup {Eof} -> Bad
                                 [] OTHER -> More(<<t[i]>>, i + 1)
    BY <1>0 DEF StringUnits
  <1>2. DOMAIN u = 0..n /\ u = [i \in 0..n |-> u[i]] BY <1>0 DEF StringUnits
  <1> HIDE DEF u
  <1>3. ASSUME NEW i \in 0..n
        PROVE /\ t[i] = QU => u[i] = Last(<<>>, i + 1)
              /\ t[i] = RS => u[i] = EscapeUnit(t, i)
              /\ t[i] \in Control \cup {Eof} => u[i] = Bad
              /\ t[i] \notin Control \cup {QU, RS, Eof} => u[i] = More(<<t[i]>>, i + 1)
    <2>1. u[i] = CASE t[i] = QU -> Last(<<>>, i + 1)
                   [] t[i] = RS -> EscapeUnit(t, i)
                   [] t[i] \in Control \cup {Eof} -> Bad
                   [] OTHER -> More(<<t[i]>>, i + 1)
      BY <1>1
    <2>2. CASE t[i] = QU BY <2>1, <2>2, CharLemma
    <2>3. CASE t[i] = RS BY <2>1, <2>3, CharLemma
    <2>4. CASE t[i] \in Control \cup {Eof} BY <2>1, <2>4, CharLemma
    <2>5. CASE t[i] \notin Control \cup {QU, RS, Eof} BY <2>1, <2>5
    <2> QED BY <2>2, <2>3, <2>4, <2>5
  <1>4. ASSUME NEW i \in 0..n PROVE UnitAt(u[i], i, n)
    <2>0. i + 1 \in Nat /\ <<>> \in Seq(Byte) BY <1>0
    <2>1. CASE t[i] = QU BY <2>0, <2>1, <1>3 DEF UnitAt
    <2>2. CASE t[i] = RS
      <3>0. i + 1 \in 0..n /\ i \in Nat BY <2>2, InText, CharLemma
      <3>1. u[i] = EscapeUnit(t, i) BY <2>2, <1>3
      <3>2. CASE t[i + 1] \in DOMAIN EscapeOf
        <4>1. u[i] = More(<<EscapeOf[t[i + 1]]>>, i + 2)
          BY <3>1, <3>2, EscapeLemma DEF EscapeUnit
        <4>2. EscapeOf[t[i + 1]] \in Byte BY <3>2, EscapeLemma
        <4>3. <<EscapeOf[t[i + 1]]>> \in Seq(Byte) BY <4>2
        <4>4. i + 1 /= n BY <3>0, <3>2, InText, CharLemma DEF IsText
        <4>5. i + 2 \in (i + 1)..n BY <1>0, <3>0, <4>4
        <4> QED BY <4>1, <4>3, <4>5 DEF UnitAt
      <3>3. CASE /\ t[i + 1] = UU /\ HexDigits(t, i + 2, 4) /\ CodePoint(t, i + 2) \notin Surrogate
        <4>1. u[i] = More(Utf8(CodePoint(t, i + 2)), i + 6)
          BY <3>1, <3>3, EscapeLemma DEF EscapeUnit
        <4>2. i + 1 /= n BY <3>0, <3>3, CharLemma DEF IsText
        <4>3. i + 2 \in 0..n BY <1>0, <3>0, <4>2
        <4>4. i + 2 + 4 \in 0..n /\ Utf8(CodePoint(t, i + 2)) \in Seq(Byte)
          BY <3>3, <4>3, CodePointLemma
        <4>5. i + 6 \in (i + 1)..n BY <3>0, <4>4, <1>0
        <4> QED BY <4>1, <4>4, <4>5 DEF UnitAt
      <3>4. CASE /\ t[i + 1] \notin DOMAIN EscapeOf
                 /\ ~(t[i + 1] = UU /\ HexDigits(t, i + 2, 4) /\ CodePoint(t, i + 2) \notin Surrogate)
        <4>1. u[i] = Bad BY <3>1, <3>4, Zenon DEF EscapeUnit
        <4> QED BY <4>1 DEF UnitAt
      <3> QED BY <3>2, <3>3, <3>4
    <2>3. CASE t[i] \in Control \cup {Eof} BY <2>3, <1>3 DEF UnitAt
    <2>4. CASE t[i] \notin Control \cup {QU, RS, Eof}
      <3>1. u[i] = More(<<t[i]>>, i + 1) BY <2>4, <1>3
      <3>2. t[i] \in Byte /\ i + 1 \in 0..n BY <2>4, InText
      <3>3. <<t[i]>> \in Seq(Byte) /\ i + 1 \in (i + 1)..n BY <3>2, <1>0
      <3> QED BY <3>1, <3>3 DEF UnitAt
    <2> QED BY <2>1, <2>2, <2>3, <2>4
  <1>5. IsUnits(u, n) BY <1>0, <1>2, <1>4, AllUnits
  <1> QED BY <1>3, <1>5 DEF u

LEMMA HexUnitsLemma ==
  ASSUME NEW n, NEW t, IsText(t, n)
  PROVE  /\ IsUnits(HexUnits(t), n)
         /\ \A i \in 0..n :
              /\ t[i] = QU => HexUnits(t)[i] = Last(<<>>, i + 1)
              /\ t[i] /= QU /\ HexDigits(t, i, 2) => HexUnits(t)[i] = More(<<HexValue(t, i)>>, i + 2)
              /\ t[i] /= QU /\ ~HexDigits(t, i, 2) => HexUnits(t)[i] = Bad
  <1> DEFINE u == HexUnits(t)
  <1>0. n \in Nat /\ DOMAIN t = 0..n BY DEF IsText
  <1>1. \A i \in 0..n : u[i] = CASE t[i] = QU -> Last(<<>>, i + 1)
                                 [] HexDigits(t, i, 2) -> More(<<HexValue(t, i)>>, i + 2)
                                 [] OTHER -> Bad
    BY <1>0 DEF HexUnits
  <1>2. DOMAIN u = 0..n /\ u = [i \in 0..n |-> u[i]] BY <1>0 DEF HexUnits
  <1> HIDE DEF u
  <1>3. ASSUME NEW i \in 0..n
        PROVE /\ t[i] = QU => u[i] = Last(<<>>, i + 1)
              /\ t[i] /= QU /\ HexDigits(t, i, 2) => u[i] = More(<<HexValue(t, i)>>, i + 2)
              /\ t[i] /= QU /\ ~HexDigits(t, i, 2) => u[i] = Bad
    <2>1. u[i] = CASE t[i] = QU -> Last(<<>>, i + 1)
                   [] HexDigits(t, i, 2) -> More(<<HexValue(t, i)>>, i + 2)
                   [] OTHER -> Bad
      BY <1>1
    <2>2. CASE t[i] = QU
      <3>1. ~HexDigits(t, i, 2) BY <2>2, HexValueLemma, CharLemma
      <3> QED BY <2>1, <2>2, <3>1
    <2>3. CASE t[i] /= QU BY <2>1, <2>3
    <2> QED BY <2>2, <2>3
  <1>4. ASSUME NEW i \in 0..n PROVE UnitAt(u[i], i, n)
    <2>0. i + 1 \in Nat /\ <<>> \in Seq(Byte) /\ i \in Nat BY <1>0
    <2>1. CASE t[i] = QU BY <2>0, <2>1, <1>3 DEF UnitAt
    <2>2. CASE t[i] /= QU /\ HexDigits(t, i, 2)
      <3>1. u[i] = More(<<HexValue(t, i)>>, i + 2) BY <2>2, <1>3
      <3>2. i + 2 \in 0..n /\ HexValue(t, i) \in Nat /\ HexValue(t, i) < 256 BY <2>2, HexValueLemma
      <3>3. HexValue(t, i) \in Byte BY <3>2 DEF Byte
      <3>4. <<HexValue(t, i)>> \in Seq(Byte) /\ i + 2 \in (i + 1)..n BY <2>0, <1>0, <3>2, <3>3
      <3> QED BY <3>1, <3>4 DEF UnitAt
    <2>3. CASE t[i] /= QU /\ ~HexDigits(t, i, 2) BY <2>3, <1>3 DEF UnitAt
    <2> QED BY <2>1, <2>2, <2>3
  <1>5. IsUnits(u, n) BY <1>0, <1>2, <1>4, AllUnits
  <1> QED BY <1>3, <1>5 DEF u

LEMMA SkipUnitsLemma ==
  ASSUME NEW n, NEW t, IsText(t, n)
  PROVE  /\ IsUnits(SkipUnits(t), n)
         /\ \A i \in 0..n :
              /\ t[i] = QU => SkipUnits(t)[i] = Last(<<>>, i + 1)
              /\ t[i] = RS /\ t[i + 1] \notin Control \cup {Eof}
                   => SkipUnits(t)[i] = More(<<>>, i + 2) /\ i + 2 \in 0..n
              /\ t[i] = RS /\ t[i + 1] \in Control \cup {Eof} => SkipUnits(t)[i] = Bad
              /\ t[i] \in Control \cup {Eof} => SkipUnits(t)[i] = Bad
              /\ t[i] \notin Control \cup {QU, RS, Eof} => SkipUnits(t)[i] = More(<<>>, i + 1)
  <1> DEFINE u == SkipUnits(t)
  <1>0. n \in Nat /\ DOMAIN t = 0..n BY DEF IsText
  <1>1. \A i \in 0..n : u[i] = CASE t[i] = QU -> Last(<<>>, i + 1)
           [] t[i] = RS -> IF t[i + 1] \in Control \cup {Eof} THEN Bad ELSE More(<<>>, i + 2)
           [] t[i] \in Control \cup {Eof} -> Bad
           [] OTHER -> More(<<>>, i + 1)
    BY <1>0 DEF SkipUnits
  <1>2. DOMAIN u = 0..n /\ u = [i \in 0..n |-> u[i]] BY <1>0 DEF SkipUnits
  <1> HIDE DEF u
  <1>3. ASSUME NEW i \in 0..n
        PROVE /\ t[i] = QU => u[i] = Last(<<>>, i + 1)
              /\ t[i] = RS /\ t[i + 1] \notin Control \cup {Eof}
                   => u[i] = More(<<>>, i + 2) /\ i + 2 \in 0..n
              /\ t[i] = RS /\ t[i + 1] \in Control \cup {Eof} => u[i] = Bad
              /\ t[i] \in Control \cup {Eof} => u[i] = Bad
              /\ t[i] \notin Control \cup {QU, RS, Eof} => u[i] = More(<<>>, i + 1)
    <2>1. u[i] = CASE t[i] = QU -> Last(<<>>, i + 1)
           [] t[i] = RS -> IF t[i + 1] \in Control \cup {Eof} THEN Bad ELSE More(<<>>, i + 2)
           [] t[i] \in Control \cup {Eof} -> Bad
           [] OTHER -> More(<<>>, i + 1)
      BY <1>1
    <2>2. CASE t[i] = QU BY <2>1, <2>2, CharLemma
    <2>3. CASE t[i] = RS
      <3>1. u[i] = IF t[i + 1] \in Control \cup {Eof} THEN Bad ELSE More(<<>>, i + 2)
        BY <2>1, <2>3, CharLemma
      <3>2. i + 1 \in 0..n BY <2>3, InText, CharLemma
      <3>3. t[i + 1] \notin Control \cup {Eof} => i + 1 /= n BY DEF IsText
      <3>4. t[i + 1] \notin Control \cup {Eof} => i + 2 \in 0..n BY <1>0, <3>2, <3>3
      <3> QED BY <2>3, <3>1, <3>4, CharLemma
    <2>4. CASE t[i] \in Control \cup {Eof} BY <2>1, <2>4, CharLemma
    <2>5. CASE t[i] \notin Control \cup {QU, RS, Eof} BY <2>1, <2>5
    <2> QED BY <2>2, <2>3, <2>4, <2>5
  <1>4. ASSUME NEW i \in 0..n PROVE UnitAt(u[i], i, n)
    <2>0. i + 1 \in Nat /\ <<>> \in Seq(Byte) /\ i \in Nat BY <1>0
    <2>1. CASE t[i] = QU BY <2>0, <2>1, <1>3 DEF UnitAt
    <2>2. CASE t[i] = RS /\ t[i + 1] \notin Control \cup {Eof}
      <3>1. u[i] = More(<<>>, i + 2) /\ i + 2 \in 0..n BY <2>2, <1>3
      <3>2. i + 2 \in (i + 1)..n BY <3>1, <2>0, <1>0
      <3> QED BY <2>0, <3>1, <3>2 DEF UnitAt
    <2>3. CASE t[i] = RS /\ t[i + 1] \in Control \cup {Eof} BY <2>3, <1>3 DEF UnitAt
    <2>4. CASE t[i] \in Control \cup {Eof} BY <2>4, <1>3 DEF UnitAt
    <2>5. CASE t[i] \notin Control \cup {QU, RS, Eof}
      <3>1. u[i] = More(<<>>, i + 1) BY <2>5, <1>3
      <3>2. i + 1 \in 0..n BY <2>5, InText
      <3>3. i + 1 \in (i + 1)..n BY <3>2, <1>0
      <3> QED BY <2>0, <3>1, <3>3 DEF UnitAt
    <2> QED BY <2>1, <2>2, <2>3, <2>4, <2>5
  <1>5. IsUnits(u, n) BY <1>0, <1>2, <1>4, AllUnits
  <1> QED BY <1>3, <1>5 DEF u

IsDecimal(f, t, p, e) == f = [k \in p..e |-> IF k = p THEN 0 ELSE 10 * f[k - 1] + (t[k - 1] - Zero)]

LEMMA DecimalExists ==
  ASSUME NEW t, NEW p \in Nat, NEW e \in Nat
  PROVE  \E f : IsDecimal(f, t, p, e)
  <1> DEFINE T == {m \in Nat : m >= p /\ ~\E f : IsDecimal(f, t, p, m)}
  <1>0. CASE e < p
    <2>1. p..e = {} BY <1>0
    <2> DEFINE f == [k \in {} |-> 0]
    <2>2. f = [k \in p..e |-> IF k = p THEN 0 ELSE 10 * f[k - 1] + (t[k - 1] - Zero)] BY <2>1
    <2> QED BY <2>2 DEF IsDecimal
  <1>1. CASE e >= p
    <2> SUFFICES ASSUME T /= {} PROVE FALSE BY <1>1
    <2>1. PICK m \in T : \A k \in T : m <= k
      <3>1. T \in SUBSET Nat OBVIOUS
      <3> HIDE DEF T
      <3> QED BY <3>1, LeastNat
    <2>2. m \in Nat /\ m >= p /\ ~\E f : IsDecimal(f, t, p, m) BY <2>1
    <2>3. CASE m = p
      <3> DEFINE g == [k \in p..p |-> 0]
      <3>1. g = [k \in p..p |-> IF k = p THEN 0 ELSE 10 * g[k - 1] + (t[k - 1] - Zero)] OBVIOUS
      <3> QED BY <2>2, <2>3, <3>1 DEF IsDecimal
    <2>4. CASE m > p
      <3>1. m - 1 \in Nat /\ m - 1 >= p /\ ~(m <= m - 1) BY <2>2, <2>4
      <3>2. PICK f : IsDecimal(f, t, p, m - 1) BY <3>1, <2>1
      <3> DEFINE d == 10 * f[m - 1] + (t[m - 1] - Zero)
                 g == [k \in p..m |-> IF k = m THEN d ELSE f[k]]
      <3>3. \A k \in p..(m - 1) : g[k] = f[k] BY <2>2
      <3>4. g[m] = d BY <2>2
      <3>5. \A k \in p..(m - 1) : f[k] = IF k = p THEN 0 ELSE 10 * f[k - 1] + (t[k - 1] - Zero)
        BY <3>2 DEF IsDecimal
      <3>6. g = [k \in p..m |-> g[k]] OBVIOUS
      <3> HIDE DEF g
      <3>7. ASSUME NEW k \in p..m
            PROVE g[k] = IF k = p THEN 0 ELSE 10 * g[k - 1] + (t[k - 1] - Zero)
        <4>1. CASE k = m
          <5>1. m - 1 \in p..(m - 1) BY <3>1
          <5> QED BY <4>1, <5>1, <3>3, <3>4, <2>4, <2>2
        <4>2. CASE k /= m
          <5>1. k \in p..(m - 1) /\ (k /= p => k - 1 \in p..(m - 1)) BY <4>2, <2>2
          <5> QED BY <5>1, <3>3, <3>5
        <4> QED BY <4>1, <4>2
      <3>8. IsDecimal(g, t, p, m) BY <3>6, <3>7 DEF IsDecimal
      <3> QED BY <3>8, <2>2
    <2> QED BY <2>2, <2>3, <2>4
  <1> QED BY <1>0, <1>1

LEMMA DecimalLemma ==
  ASSUME NEW t, NEW p \in Nat, NEW e \in Nat, p <= e
  PROVE  \E f : /\ f[p] = 0 /\ Decimal(t, p, e) = f[e]
                /\ \A k \in p..e : k /= p => f[k] = 10 * f[k - 1] + (t[k - 1] - Zero)
  <1> DEFINE f == CHOOSE g : IsDecimal(g, t, p, e)
  <1>1. Decimal(t, p, e) = f[e] BY Zenon DEF Decimal, IsDecimal
  <1> HIDE DEF f
  <1>2. IsDecimal(f, t, p, e) BY DecimalExists, Zenon DEF f
  <1>3. \A k \in p..e : f[k] = IF k = p THEN 0 ELSE 10 * f[k - 1] + (t[k - 1] - Zero)
    BY <1>2 DEF IsDecimal
  <1>4. f[p] = 0 BY <1>3
  <1> QED BY <1>1, <1>3, <1>4

\* The overflow check of parse_positive_number for u8: what is more than 255 is
\* not told apart.
LEMMA DecimalU8 ==
  ASSUME NEW t, NEW p \in Nat, NEW e \in Nat, p < e, \A k \in p..(e - 1) : t[k] \in Digit
  PROVE  /\ Decimal(t, p, e) \in Nat
         /\ t[p] = Zero /\ e = p + 1 => Decimal(t, p, e) = 0
         /\ t[p] /= Zero => /\ U8Value(t, p, e) > 255 <=> Decimal(t, p, e) > 255
                            /\ ~(U8Value(t, p, e) > 255) => U8Value(t, p, e) = Decimal(t, p, e)
  <1> DEFINE D(k) == t[k] - Zero
  <1>1. PICK f : /\ f[p] = 0 /\ Decimal(t, p, e) = f[e]
                 /\ \A k \in p..e : k /= p => f[k] = 10 * f[k - 1] + D(k - 1)
    BY DecimalLemma
  <1>2. \A k \in p..(e - 1) : D(k) \in Nat /\ D(k) <= 9 BY DEF Digit, Zero
  <1> HIDE DEF D
  <1>3. ASSUME NEW k \in p..e, k /= p, f[k - 1] \in Nat
        PROVE  f[k] \in Nat /\ f[k] >= 10 * f[k - 1] /\ f[k] = 10 * f[k - 1] + D(k - 1)
    <2>1. f[k] = 10 * f[k - 1] + D(k - 1) BY <1>1, <1>3
    <2>2. k - 1 \in p..(e - 1) BY <1>3
    <2>3. D(k - 1) \in Nat BY <1>2, <2>2
    <2> QED BY <1>3, <2>1, <2>3
  <1>4. \A k \in p..e : f[k] \in Nat
    <2> DEFINE T == {k \in p..e : f[k] \notin Nat}
    <2> SUFFICES ASSUME T /= {} PROVE FALSE OBVIOUS
    <2>1. PICK m \in T : \A k \in T : m <= k
      <3>1. T \in SUBSET Nat OBVIOUS
      <3> HIDE DEF T
      <3> QED BY <3>1, LeastNat
    <2>2. m \in p..e /\ f[m] \notin Nat BY <2>1
    <2>3. m /= p BY <1>1, <2>2
    <2>4. m - 1 \in p..e /\ ~(m <= m - 1) BY <2>2, <2>3
    <2>5. f[m - 1] \in Nat BY <2>1, <2>4
    <2> QED BY <1>3, <2>2, <2>3, <2>5
  <1>5. Decimal(t, p, e) \in Nat /\ Decimal(t, p, e) = f[e] BY <1>1, <1>4
  <1>6. ASSUME NEW k \in p..e, k /= p
        PROVE  f[k] = 10 * f[k - 1] + D(k - 1) /\ f[k - 1] \in Nat /\ D(k - 1) \in Nat /\ D(k - 1) <= 9
    <2>1. k - 1 \in p..(e - 1) /\ k - 1 \in p..e BY <1>6
    <2> QED BY <1>1, <1>2, <1>4, <1>6, <2>1
  <1>7. f[p + 1] = D(p) /\ D(p) \in Nat
    <2>1. p + 1 \in p..e /\ p + 1 /= p /\ p + 1 - 1 = p OBVIOUS
    <2> QED BY <1>1, <1>6, <2>1
  <1>8. ASSUME e >= p + 2
        PROVE  f[p + 2] = 10 * D(p) + D(p + 1) /\ D(p + 1) \in Nat
    <2>1. p + 2 \in p..e /\ p + 2 /= p /\ p + 2 - 1 = p + 1 BY <1>8
    <2> QED BY <1>7, <1>6, <2>1
  <1>9. ASSUME e >= p + 3
        PROVE  f[p + 3] = 100 * D(p) + 10 * D(p + 1) + D(p + 2) /\ D(p + 2) \in Nat
    <2>1. p + 3 \in p..e /\ p + 3 /= p /\ p + 3 - 1 = p + 2 BY <1>9
    <2>2. e >= p + 2 BY <1>9
    <2>3. f[p + 3] = 10 * f[p + 2] + D(p + 2) /\ D(p + 2) \in Nat BY <1>6, <2>1
    <2>4. f[p + 2] = 10 * D(p) + D(p + 1) /\ D(p + 1) \in Nat BY <2>2, <1>8
    <2> QED BY <1>7, <2>3, <2>4
  <1>10. ASSUME e >= p + 4, D(p) > 0 PROVE f[e] > 255
    <2> DEFINE T == {k \in (p + 3)..e : ~(f[k] >= 100)}
    <2>1. T = {}
      <3> SUFFICES ASSUME T /= {} PROVE FALSE OBVIOUS
      <3>1. PICK m \in T : \A k \in T : m <= k
        <4>1. T \in SUBSET Nat OBVIOUS
        <4> HIDE DEF T
        <4> QED BY <4>1, LeastNat
      <3>2. m \in (p + 3)..e /\ ~(f[m] >= 100) BY <3>1
      <3>3. m /= p + 3
        <4>1. e >= p + 3 /\ e >= p + 2 BY <1>10
        <4>2. f[p + 3] = 100 * D(p) + 10 * D(p + 1) + D(p + 2) /\ D(p + 2) \in Nat BY <4>1, <1>9
        <4>3. D(p + 1) \in Nat BY <4>1, <1>8
        <4> QED BY <1>7, <1>10, <3>2, <4>2, <4>3
      <3>4. m - 1 \in (p + 3)..e /\ ~(m <= m - 1) /\ m \in p..e /\ m /= p BY <3>2, <3>3
      <3>5. f[m - 1] >= 100 BY <3>1, <3>4
      <3>6. f[m] = 10 * f[m - 1] + D(m - 1) /\ f[m - 1] \in Nat /\ D(m - 1) \in Nat BY <1>6, <3>4
      <3> QED BY <3>2, <3>5, <3>6
    <2>2. e - 1 \in (p + 3)..e /\ e \in p..e /\ e /= p BY <1>10
    <2>3. f[e - 1] >= 100 BY <2>1, <2>2
    <2>4. f[e] = 10 * f[e - 1] + D(e - 1) /\ f[e - 1] \in Nat /\ D(e - 1) \in Nat BY <1>6, <2>2
    <2> QED BY <2>3, <2>4
  <1>11. t[p] = Zero /\ e = p + 1 => Decimal(t, p, e) = 0
    BY <1>5, <1>7 DEF D, Zero
  <1>12. t[p] /= Zero => D(p) > 0
    <2>1. p \in p..(e - 1) OBVIOUS
    <2>2. t[p] \in Digit BY <2>1
    <2> QED BY <2>2 DEF D, Digit, Zero
  <1>13. ASSUME t[p] /= Zero
         PROVE  /\ U8Value(t, p, e) > 255 <=> f[e] > 255
                /\ ~(U8Value(t, p, e) > 255) => U8Value(t, p, e) = f[e]
    <2>1. CASE e = p + 1
      <3>1. e - p = 1 BY <2>1
      <3>2. U8Value(t, p, e) = D(p) BY <3>1 DEF U8Value, DigitAt, D
      <3> QED BY <2>1, <3>2, <1>7
    <2>2. CASE e = p + 2
      <3>1. e - p = 2 /\ e >= p + 2 BY <2>2
      <3>2. U8Value(t, p, e) = 10 * D(p) + D(p + 1) BY <3>1 DEF U8Value, DigitAt, D
      <3> QED BY <2>2, <3>1, <3>2, <1>8
    <2>3. CASE e = p + 3
      <3>1. e - p = 3 /\ e >= p + 3 BY <2>3
      <3>2. U8Value(t, p, e) = 100 * D(p) + 10 * D(p + 1) + D(p + 2)
        BY <3>1 DEF U8Value, DigitAt, D
      <3> QED BY <2>3, <3>1, <3>2, <1>9
    <2>4. CASE e >= p + 4
      <3>1. e - p \notin {1, 2, 3} BY <2>4
      <3>2. U8Value(t, p, e) = 256 BY <3>1 DEF U8Value
      <3>3. f[e] > 255 BY <1>10, <1>12, <1>13, <2>4
      <3> QED BY <3>2, <3>3
    <2> QED BY <2>1, <2>2, <2>3, <2>4
  <1> QED BY <1>5, <1>11, <1>13

\* The parts of an element of an array: it begins at p, its digits end at e,
\* and q is what follows them.
Element(t, i, p, e, q) ==
  /\ p = Past(t, WS, i) /\ e = Past(t, Digit, p) /\ q = Past(t, WS, e)

LEMMA ElementLemma ==
  ASSUME NEW n, NEW t, IsText(t, n), NEW i \in 0..n, NEW p, NEW e, NEW q, Element(t, i, p, e, q)
  PROVE  /\ p \in i..n /\ e \in p..n /\ q \in e..n
         /\ p \in 0..n /\ e \in 0..n /\ q \in 0..n
         /\ t[p] \notin WS /\ t[e] \notin Digit /\ t[q] \notin WS
         /\ \A k \in i..(p - 1) : t[k] \in WS
         /\ \A k \in p..(e - 1) : t[k] \in Digit
         /\ \A k \in e..(q - 1) : t[k] \in WS
  <1>1. Eof \notin WS /\ Eof \notin Digit BY CharLemma
  <1>2. p \in i..n /\ p \in 0..n /\ t[p] \notin WS /\ \A k \in i..(p - 1) : t[k] \in WS
    BY <1>1, PastLemma DEF Element
  <1>3. e \in p..n /\ e \in 0..n /\ t[e] \notin Digit /\ \A k \in p..(e - 1) : t[k] \in Digit
    BY <1>1, <1>2, PastLemma DEF Element
  <1>4. q \in e..n /\ q \in 0..n /\ t[q] \notin WS /\ \A k \in e..(q - 1) : t[k] \in WS
    BY <1>1, <1>3, PastLemma DEF Element
  <1> QED BY <1>2, <1>3, <1>4

NumberUnit(t, p, e, q) ==
  IF e = p \/ (t[p] = Zero /\ e > p + 1) \/ Decimal(t, p, e) > 255 THEN Bad
  ELSE CASE t[q] = Comma -> More(<<Decimal(t, p, e)>>, q + 1)
         [] t[q] = Close -> Last(<<Decimal(t, p, e)>>, q + 1)
         [] OTHER -> Bad

LEMMA NumberUnitsLemma ==
  ASSUME NEW n, NEW t, IsText(t, n)
  PROVE  /\ IsUnits(NumberUnits(t), n)
         /\ \A i \in 0..n : \A p, e, q : Element(t, i, p, e, q) =>
              NumberUnits(t)[i] = NumberUnit(t, p, e, q)
  <1> DEFINE u == NumberUnits(t)
  <1>0. n \in Nat /\ DOMAIN t = 0..n BY DEF IsText
  <1>1. \A i \in 0..n : u[i] = LET p == Past(t, WS, i)
                                   e == Past(t, Digit, p)
                                   q == Past(t, WS, e)
                               IN NumberUnit(t, p, e, q)
    BY <1>0 DEF NumberUnits, NumberUnit
  <1>2. DOMAIN u = 0..n /\ u = [i \in 0..n |-> u[i]] BY <1>0 DEF NumberUnits
  <1> HIDE DEF u
  <1>3. \A i \in 0..n : \A p, e, q : Element(t, i, p, e, q) => u[i] = NumberUnit(t, p, e, q)
    BY <1>1, Zenon DEF Element
  <1>4. ASSUME NEW i \in 0..n PROVE UnitAt(u[i], i, n)
    <2>1. PICK p, e, q : Element(t, i, p, e, q) BY Zenon DEF Element
    <2>2. u[i] = NumberUnit(t, p, e, q) BY <1>3, <2>1
    <2>3. /\ p \in i..n /\ e \in p..n /\ q \in e..n /\ q \in 0..n
          /\ \A k \in p..(e - 1) : t[k] \in Digit
      BY <2>1, ElementLemma
    <2>4. i \in Nat /\ p \in Nat /\ e \in Nat /\ q \in Nat /\ i <= q /\ p <= e BY <2>3, <1>0
    <2> DEFINE v == Decimal(t, p, e)
    <2>5. CASE e = p \/ (t[p] = Zero /\ e > p + 1) \/ v > 255
      BY <2>2, <2>5 DEF NumberUnit, UnitAt
    <2>6. CASE ~(e = p \/ (t[p] = Zero /\ e > p + 1) \/ v > 255)
      <3>1. v \in Nat BY <2>3, <2>4, <2>6, DecimalU8
      <3> HIDE DEF v
      <3>2. v \in Byte BY <2>6, <3>1 DEF Byte
      <3>3. <<v>> \in Seq(Byte) /\ q + 1 \in Nat BY <3>2, <2>4
      <3>4. u[i] = CASE t[q] = Comma -> More(<<v>>, q + 1)
                     [] t[q] = Close -> Last(<<v>>, q + 1)
                     [] OTHER -> Bad
        BY <2>2, <2>6 DEF NumberUnit, v
      <3>5. Comma /= Close /\ Comma /= Eof BY DEF Comma, Close, Eof
      <3>6. CASE t[q] = Comma
        <4>1. q + 1 \in 0..n BY <2>3, <3>5, <3>6, InText
        <4>2. q + 1 \in (i + 1)..n BY <4>1, <2>4, <1>0
        <4>3. u[i] = More(<<v>>, q + 1) BY <3>4, <3>5, <3>6
        <4> QED BY <4>2, <4>3, <3>3 DEF UnitAt
      <3>7. CASE t[q] = Close
        <4>1. u[i] = Last(<<v>>, q + 1) BY <3>4, <3>5, <3>7
        <4> QED BY <4>1, <3>3 DEF UnitAt
      <3>8. CASE t[q] /= Comma /\ t[q] /= Close
        <4>1. u[i] = Bad BY <3>4, <3>8
        <4> QED BY <4>1 DEF UnitAt
      <3> QED BY <3>6, <3>7, <3>8
    <2> QED BY <2>5, <2>6
  <1>5. IsUnits(u, n) BY <1>0, <1>2, <1>4, AllUnits
  <1> QED BY <1>3, <1>5 DEF u

-----------------------------------------------------------------------------
(* Pieces of the buffer as sequences *)

\* Concatenation, when only its name matters.
Join(s, t) == s \o t

\* m holds bytes from lo to hi, and s is what it holds there.
Span(m, lo, hi) ==
  lo \in Nat /\ hi \in Nat /\ lo <= hi /\ \A k \in lo..(hi - 1) : m[k] \in Byte
IsPiece(s, m, lo, hi) ==
  s \in Seq(Byte) /\ Len(s) = hi - lo /\ \A k \in 1..(hi - lo) : s[k] = m[lo + k - 1]

LEMMA PieceLemma ==
  ASSUME NEW m, NEW lo, NEW hi, Span(m, lo, hi)
  PROVE  IsPiece(Bytes(m, lo, hi), m, lo, hi)
  <1>0. lo \in Nat /\ hi \in Nat /\ hi - lo \in Nat BY DEF Span
  <1>1. \A k \in 1..(hi - lo) : lo + k - 1 \in lo..(hi - 1) BY <1>0
  <1>2. \A k \in 1..(hi - lo) : m[lo + k - 1] \in Byte BY <1>1 DEF Span
  <1>4. Bytes(m, lo, hi) \in [1..(hi - lo) -> Byte] BY <1>2 DEF Bytes
  <1>5. Bytes(m, lo, hi) \in Seq(Byte) BY <1>0, <1>4, SeqDef
  <1>6. Len(Bytes(m, lo, hi)) = hi - lo BY <1>0, <1>4, <1>5
  <1> QED BY <1>5, <1>6 DEF Bytes, IsPiece

LEMMA PieceSeq ==
  ASSUME NEW m, NEW lo, NEW hi, Span(m, lo, hi)
  PROVE  Bytes(m, lo, hi) \in Seq(Byte)
  BY PieceLemma DEF IsPiece

\* Two sequences that are the same piece of a buffer.
LEMMA PieceIs ==
  ASSUME NEW s, NEW r, NEW m, NEW lo \in Nat, NEW hi \in Nat,
         IsPiece(s, m, lo, hi), IsPiece(r, m, lo, hi)
  PROVE  s = r
  <1>1. s \in Seq(Byte) /\ r \in Seq(Byte) /\ Len(s) = Len(r) BY DEF IsPiece
  <1>2. \A k \in 1..Len(s) : s[k] = r[k] BY DEF IsPiece
  <1> QED BY <1>1, <1>2, SeqEqual

LEMMA PieceEmpty ==
  ASSUME NEW m, NEW lo \in Nat
  PROVE  Bytes(m, lo, lo) = <<>> /\ <<>> \in Seq(Byte)
  <1>1. Span(m, lo, lo) BY DEF Span
  <1>2. IsPiece(Bytes(m, lo, lo), m, lo, lo) BY <1>1, PieceLemma
  <1>3. Bytes(m, lo, lo) \in Seq(Byte) /\ Len(Bytes(m, lo, lo)) = 0 BY <1>2 DEF IsPiece
  <1> QED BY <1>3

LEMMA PieceOne ==
  ASSUME NEW m, NEW lo \in Nat, m[lo] \in Byte
  PROVE  Bytes(m, lo, lo + 1) = <<m[lo]>>
  <1> DEFINE hi == lo + 1
             s  == Bytes(m, lo, hi)
  <1>1. Span(m, lo, hi) /\ hi - lo = 1 /\ lo + 1 - 1 = lo BY DEF Span
  <1> HIDE DEF hi
  <1>2. IsPiece(s, m, lo, hi) BY <1>1, PieceLemma
  <1> HIDE DEF s
  <1>3. s \in Seq(Byte) /\ Len(s) = 1 /\ s[1] = m[lo] BY <1>1, <1>2 DEF IsPiece
  <1>4. s = <<m[lo]>> BY <1>3
  <1> QED BY <1>4 DEF s, hi

\* o holds what m holds from a to b, the sequence s at b, and what m holds from
\* c to d at b.
Keeps(m, o, a, b)     == \A k \in a..(b - 1) : o[k] = m[k]
Puts(o, b, s)         == \A j \in 1..Len(s) : o[b + j - 1] = s[j]
Shifts(m, o, c, d, b) == \A k \in c..(d - 1) : o[b + (k - c)] = m[k]

Follows(m, o, a, b, s, n) ==
  Span(m, a, b) /\ s \in Seq(Byte) /\ n = b + Len(s) /\ Keeps(m, o, a, b) /\ Puts(o, b, s)
Joins(m, o, a, b, c, d, n) ==
  Span(m, a, b) /\ Span(m, c, d) /\ n = b + (d - c) /\ Keeps(m, o, a, b) /\ Shifts(m, o, c, d, b)

\* The same bytes in another buffer.
LEMMA PieceKept ==
  ASSUME NEW m, NEW o, NEW a, NEW b, Span(m, a, b), Keeps(m, o, a, b)
  PROVE  Bytes(o, a, b) = Bytes(m, a, b) /\ Span(o, a, b)
  <1>1. a \in Nat /\ b \in Nat BY DEF Span
  <1>2. Span(o, a, b) BY DEF Span, Keeps
  <1>3. \A k \in 1..(b - a) : a + k - 1 \in a..(b - 1) BY <1>1
  <1>4. \A k \in 1..(b - a) : o[a + k - 1] = m[a + k - 1] BY <1>3 DEF Keeps
  <1>5. Bytes(o, a, b) = Bytes(m, a, b) BY <1>4 DEF Bytes
  <1> QED BY <1>2, <1>5

\* A piece that a sequence follows.
LEMMA PieceThen ==
  ASSUME NEW m, NEW o, NEW a, NEW b, NEW s, NEW n, Follows(m, o, a, b, s, n)
  PROVE  Bytes(o, a, n) = Join(Bytes(m, a, b), s) /\ Span(o, a, n)
  <1> DEFINE y == Bytes(m, a, b)
  <1>0. /\ a \in Nat /\ b \in Nat /\ a <= b /\ s \in Seq(Byte) /\ n = b + Len(s)
        /\ Span(m, a, b) /\ Keeps(m, o, a, b) /\ Puts(o, b, s)
    BY DEF Follows, Span
  <1>1. Len(s) \in Nat BY <1>0
  <1>2. n \in Nat /\ a <= n /\ n - a = (b - a) + Len(s) BY <1>0, <1>1
  <1>3. IsPiece(y, m, a, b) BY <1>0, PieceLemma
  <1> HIDE DEF y
  <1>4. y \in Seq(Byte) /\ Len(y) = b - a /\ \A k \in 1..(b - a) : y[k] = m[a + k - 1]
    BY <1>3 DEF IsPiece
  <1> DEFINE z == y \o s
  <1>5. /\ z \in Seq(Byte) /\ Len(z) = Len(y) + Len(s)
        /\ \A k \in 1..(Len(y) + Len(s)) : z[k] = IF k <= Len(y) THEN y[k] ELSE s[k - Len(y)]
    BY <1>0, <1>4, ConcatProperties
  <1> HIDE DEF z
  <1>6. ASSUME NEW k \in 1..(n - a) PROVE z[k] = o[a + k - 1]
    <2>1. k \in 1..(Len(y) + Len(s)) BY <1>2, <1>4
    <2>2. z[k] = IF k <= Len(y) THEN y[k] ELSE s[k - Len(y)] BY <1>5, <2>1
    <2>3. CASE k <= b - a
      <3>1. k \in 1..(b - a) /\ a + k - 1 \in a..(b - 1) BY <2>3, <1>0
      <3>2. y[k] = m[a + k - 1] BY <1>4, <3>1
      <3>3. o[a + k - 1] = m[a + k - 1] BY <1>0, <3>1 DEF Keeps
      <3> QED BY <2>2, <2>3, <3>2, <3>3, <1>4
    <2>4. CASE k > b - a
      <3>1. k - (b - a) \in 1..Len(s) /\ b + (k - (b - a)) - 1 = a + k - 1 BY <2>4, <1>0, <1>2, <1>1
      <3>2. o[b + (k - (b - a)) - 1] = s[k - (b - a)] BY <1>0, <3>1 DEF Puts
      <3>3. z[k] = s[k - (b - a)] BY <2>2, <2>4, <1>4, <1>0
      <3> QED BY <3>1, <3>2, <3>3
    <2>5. k <= b - a \/ k > b - a BY <1>0, <1>2
    <2> QED BY <2>3, <2>4, <2>5, Zenon
  <1>7. Len(z) = n - a BY <1>2, <1>4, <1>5
  <1>8. Span(o, a, n)
    <2>1. ASSUME NEW k \in a..(n - 1) PROVE o[k] \in Byte
      <3>1. k - a + 1 \in 1..(n - a) /\ a + (k - a + 1) - 1 = k BY <1>0, <1>2
      <3>2. z[k - a + 1] = o[k] BY <1>6, <3>1
      <3>3. z[k - a + 1] \in Byte BY <1>5, <1>7, <3>1, ElementOfSeq
      <3> QED BY <3>2, <3>3
    <2> QED BY <1>0, <1>2, <2>1 DEF Span
  <1>9. IsPiece(z, o, a, n) BY <1>5, <1>6, <1>7 DEF IsPiece
  <1>10. IsPiece(Bytes(o, a, n), o, a, n) BY <1>8, PieceLemma
  <1>11. Bytes(o, a, n) = z BY <1>0, <1>2, <1>9, <1>10, PieceIs
  <1>12. z = Join(Bytes(m, a, b), s) BY Zenon DEF z, y, Join
  <1> QED BY <1>8, <1>11, <1>12

\* Two pieces, the second of which was moved behind the first.
LEMMA PieceJoin ==
  ASSUME NEW m, NEW o, NEW a, NEW b, NEW c, NEW d, NEW n, Joins(m, o, a, b, c, d, n)
  PROVE  Bytes(o, a, n) = Join(Bytes(m, a, b), Bytes(m, c, d)) /\ Span(o, a, n)
  <1> DEFINE s == Bytes(m, c, d)
  <1>0. /\ b \in Nat /\ c \in Nat /\ d \in Nat /\ n = b + (d - c)
        /\ Span(m, a, b) /\ Span(m, c, d) /\ Keeps(m, o, a, b) /\ Shifts(m, o, c, d, b)
    BY DEF Joins, Span
  <1>1. IsPiece(s, m, c, d) BY <1>0, PieceLemma
  <1> HIDE DEF s
  <1>2. s \in Seq(Byte) /\ Len(s) = d - c /\ \A k \in 1..(d - c) : s[k] = m[c + k - 1]
    BY <1>1 DEF IsPiece
  <1>3. ASSUME NEW j \in 1..Len(s) PROVE o[b + j - 1] = s[j]
    <2>1. c + j - 1 \in c..(d - 1) /\ b + ((c + j - 1) - c) = b + j - 1 BY <1>0, <1>2
    <2>2. o[b + ((c + j - 1) - c)] = m[c + j - 1] BY <1>0, <2>1 DEF Shifts
    <2> QED BY <1>2, <2>1, <2>2
  <1>4. Puts(o, b, s) BY <1>3 DEF Puts
  <1>5. Follows(m, o, a, b, s, n) BY <1>0, <1>2, <1>4 DEF Follows
  <1> QED BY <1>5, PieceThen DEF s

\* A piece in two parts.
LEMMA PieceSplit ==
  ASSUME NEW m, NEW a, NEW b, NEW c, Span(m, a, c), b \in a..c
  PROVE  Bytes(m, a, c) = Join(Bytes(m, a, b), Bytes(m, b, c)) /\ Span(m, a, b) /\ Span(m, b, c)
  <1>0. a \in Nat /\ b \in Nat /\ c \in Nat /\ a <= b /\ b <= c BY DEF Span
  <1>1. \A k \in a..(b - 1) : k \in a..(c - 1) BY <1>0
  <1>2. \A k \in b..(c - 1) : k \in a..(c - 1) BY <1>0
  <1>3. Span(m, a, b) /\ Span(m, b, c) BY <1>0, <1>1, <1>2 DEF Span
  <1>4. Keeps(m, m, a, b) BY DEF Keeps
  <1>5. Shifts(m, m, b, c, b)
    <2>1. ASSUME NEW k \in b..(c - 1) PROVE m[b + (k - b)] = m[k]
      <3>1. b + (k - b) = k BY <1>0
      <3> QED BY <3>1
    <2> QED BY <2>1 DEF Shifts
  <1>6. c = b + (c - b) BY <1>0
  <1>7. Joins(m, m, a, b, b, c, c) BY <1>3, <1>4, <1>5, <1>6 DEF Joins
  <1> QED BY <1>3, <1>7, PieceJoin

LEMMA BeforeBefore ==
  ASSUME NEW b \in Seq(Byte), NEW c \in Seq(Byte), NEW r \in Results
  PROVE  Before(b, Before(c, r)) = Before(Join(b, c), r)
  <1> SUFFICES Before(b, Before(c, r)) = Before(b \o c, r) BY DEF Join
  <1> DEFINE d == r.bytes
  <1>1. d \in Seq(Byte) BY DEF Results
  <1> HIDE DEF d
  <1>2. (b \o c) \o d = b \o (c \o d) BY <1>1, ConcatAssociative
  <1>3. CASE r.ok
    <2>1. Before(c, r) = Result(c \o d, r.end) BY <1>3 DEF Before, d
    <2>2. /\ Before(c, r).ok /\ Before(c, r).bytes = c \o d /\ Before(c, r).end = r.end
      BY <2>1 DEF Result
    <2>3. Before(b, Before(c, r)) = Result(b \o (c \o d), r.end) BY <2>2 DEF Before
    <2>4. Before(b \o c, r) = Result((b \o c) \o d, r.end) BY <1>3 DEF Before, d
    <2> QED BY <1>2, <2>3, <2>4
  <1>4. CASE ~r.ok BY <1>4 DEF Before
  <1> QED BY <1>3, <1>4

\* Units of one byte each, from a to b.
LEMMA ChainRun ==
  ASSUME NEW n \in Nat, NEW t, NEW S, NEW a \in 0..n, NEW b \in a..n,
         \A i \in 0..n : S[i] \in Results,
         \A k \in a..(b - 1) : t[k] \in Byte /\ S[k] = Before(<<t[k]>>, S[k + 1])
  PROVE  S[a] = Before(Bytes(t, a, b), S[b])
  <1> DEFINE Good(i) == S[i] = Before(Bytes(t, i, b), S[b])
             T == {k \in 0..(b - a) : ~Good(b - k)}
  <1>0. a \in Nat /\ b \in Nat /\ b \in 0..n OBVIOUS
  <1>1. S[b] \in Results BY <1>0
  <1>2. Good(b)
    <2>1. Bytes(t, b, b) = <<>> /\ <<>> \in Seq(Byte) BY <1>0, PieceEmpty
    <2>2. Before(<<>>, S[b]) = S[b] BY <2>1, <1>1, BeforeLemma
    <2> QED BY <2>1, <2>2
  <1>3. ASSUME NEW i \in a..(b - 1), Good(i + 1) PROVE Good(i)
    <2>0. i \in Nat /\ i + 1 \in Nat /\ i + 1 <= b BY <1>0
    <2>1. t[i] \in Byte /\ S[i] = Before(<<t[i]>>, S[i + 1]) OBVIOUS
    <2>2. Span(t, i, b)
      <3>1. \A k \in i..(b - 1) : k \in a..(b - 1) BY <1>0, <2>0
      <3>2. \A k \in i..(b - 1) : t[k] \in Byte BY <3>1
      <3> QED BY <1>0, <2>0, <3>2 DEF Span
    <2>3. /\ Bytes(t, i, b) = Join(Bytes(t, i, i + 1), Bytes(t, i + 1, b))
          /\ Bytes(t, i + 1, b) \in Seq(Byte)
      <3>1. i + 1 \in i..b BY <1>0, <2>0
      <3> QED BY <2>2, <3>1, PieceSplit, PieceSeq
    <2>4. <<t[i]>> \in Seq(Byte) BY <2>1
    <2>5. Bytes(t, i, b) = Join(<<t[i]>>, Bytes(t, i + 1, b))
      <3>1. Bytes(t, i, i + 1) = <<t[i]>> BY <2>0, <2>1, PieceOne
      <3> QED BY <2>3, <3>1
    <2>6. Before(<<t[i]>>, Before(Bytes(t, i + 1, b), S[b]))
          = Before(Join(<<t[i]>>, Bytes(t, i + 1, b)), S[b])
      BY <2>3, <2>4, <1>1, BeforeBefore
    <2> QED BY <2>1, <2>5, <2>6, <1>3
  <1> HIDE DEF Good
  <1>4. T = {}
    <2> SUFFICES ASSUME T /= {} PROVE FALSE OBVIOUS
    <2>1. PICK m \in T : \A k \in T : m <= k
      <3>1. T \in SUBSET Nat OBVIOUS
      <3> HIDE DEF T
      <3> QED BY <3>1, LeastNat
    <2>2. m \in 0..(b - a) /\ ~Good(b - m) BY <2>1
    <2>3. m /= 0
      <3>1. b - 0 = b BY <1>0
      <3> QED BY <2>2, <3>1, <1>2
    <2>4. /\ b - m \in a..(b - 1) /\ (b - m) + 1 = b - (m - 1) /\ m - 1 \in 0..(b - a)
          /\ ~(m <= m - 1)
      BY <1>0, <2>2, <2>3
    <2>5. Good(b - (m - 1)) BY <2>1, <2>4
    <2>6. Good((b - m) + 1) BY <2>4, <2>5
    <2> QED BY <1>3, <2>2, <2>4, <2>6
  <1>5. Good(a)
    <2>1. b - a \in 0..(b - a) /\ b - (b - a) = a BY <1>0
    <2>2. ~(~Good(b - (b - a))) BY <1>4, <2>1
    <2> QED BY <2>1, <2>2
  <1> QED BY <1>5 DEF Good

\* Characters that stand for themselves.
LEMMA PlainRun ==
  ASSUME NEW n, NEW t, IsText(t, n), NEW a \in 0..n, NEW b \in a..n,
         \A k \in a..(b - 1) : t[k] \notin Control \cup {QU, RS, Eof}
  PROVE  /\ Chain(StringUnits(t))[a] = Before(Bytes(t, a, b), Chain(StringUnits(t))[b])
         /\ \A k \in a..(b - 1) : t[k] \in Byte
  <1> DEFINE u == StringUnits(t)
             S == Chain(u)
  <1>0. n \in Nat /\ a \in Nat /\ b \in Nat BY DEF IsText
  <1>1. IsUnits(u, n) BY StringUnitsLemma
  <1>2. \A k \in a..(b - 1) : k \in 0..n /\ k + 1 \in Nat BY <1>0
  <1>3. \A k \in a..(b - 1) : u[k] = More(<<t[k]>>, k + 1) BY <1>2, StringUnitsLemma
  <1>4. \A k \in a..(b - 1) : t[k] \in Byte BY <1>2, InText
  <1> HIDE DEF u
  <1>5. \A i \in 0..n : S[i] \in Results BY <1>0, <1>1, ChainLemma
  <1>6. ASSUME NEW k \in a..(b - 1) PROVE t[k] \in Byte /\ S[k] = Before(<<t[k]>>, S[k + 1])
    <2>1. k \in 0..n /\ k + 1 \in Nat BY <1>2
    <2>2. t[k] \in Byte /\ <<t[k]>> \in Seq(Byte) BY <1>4
    <2>3. u[k] = More(<<t[k]>>, k + 1) BY <1>3
    <2> DEFINE b1 == <<t[k]>>
               k1 == k + 1
    <2>a. b1 \in Seq(Byte) /\ k1 \in Nat /\ u[k] = More(b1, k1) BY <2>1, <2>2, <2>3
    <2> HIDE DEF b1, k1
    <2>b. u[k].kind = "more" /\ u[k].bytes = b1 /\ u[k].next = k1 BY <2>a, MoreLemma
    <2>4. u[k].kind = "more" /\ u[k].bytes = <<t[k]>> /\ u[k].next = k + 1
      BY <2>b DEF b1, k1
    <2> QED BY <1>0, <1>1, <2>1, <2>2, <2>4, ChainLemma
  <1> HIDE DEF S
  <1>7. S[a] = Before(Bytes(t, a, b), S[b]) BY <1>0, <1>5, <1>6, ChainRun
  <1> QED BY <1>4, <1>7 DEF S, u

-----------------------------------------------------------------------------
(* Base-64 *)

\* The value of each character of Base-64.
LEMMA B64Values ==
  /\ DOMAIN B64 = 65..90 \cup 97..122 \cup Digit \cup {43, 47}
  /\ \A c \in 65..90 : B64[c] = c - 65
  /\ \A c \in 97..122 : B64[c] = c - 71
  /\ \A c \in Digit : B64[c] = c + 4
  /\ B64[43] = 62 /\ B64[47] = 63
  <1> DEFINE dom == 65..90 \cup 97..122 \cup Digit \cup {43, 47}
             Is(c, v) == v = CASE c \in 65..90 -> c - 65 [] c \in 97..122 -> c - 71
                               [] c \in Digit -> c + 4 [] c = 43 -> 62 [] c = 47 -> 63
  <1>1. DOMAIN B64 = dom BY DEF B64
  <1>2. \A c \in dom : Is(c, B64[c]) BY Zenon DEF B64
  <1>3. \A c \in 65..90 : c \in dom /\ ~(c \in 97..122) /\ ~(c \in Digit) /\ ~(c = 43) /\ ~(c = 47)
    BY DEF Digit
  <1>4. \A c \in 97..122 : c \in dom /\ ~(c \in 65..90) /\ ~(c \in Digit) /\ ~(c = 43) /\ ~(c = 47)
    BY DEF Digit
  <1>5. \A c \in Digit : c \in dom /\ ~(c \in 65..90) /\ ~(c \in 97..122) /\ ~(c = 43) /\ ~(c = 47)
    BY DEF Digit
  <1>6. /\ 43 \in dom /\ ~(43 \in 65..90) /\ ~(43 \in 97..122) /\ ~(43 \in Digit) /\ ~(43 = 47)
        /\ 47 \in dom /\ ~(47 \in 65..90) /\ ~(47 \in 97..122) /\ ~(47 \in Digit) /\ ~(47 = 43)
    BY DEF Digit
  <1> HIDE DEF dom
  <1>7. ASSUME NEW c, NEW v, Is(c, v)
        PROVE  /\ c \in 65..90 /\ ~(c \in 97..122) /\ ~(c \in Digit) /\ ~(c = 43) /\ ~(c = 47)
                    => v = c - 65
               /\ ~(c \in 65..90) /\ c \in 97..122 /\ ~(c \in Digit) /\ ~(c = 43) /\ ~(c = 47)
                    => v = c - 71
               /\ ~(c \in 65..90) /\ ~(c \in 97..122) /\ c \in Digit /\ ~(c = 43) /\ ~(c = 47)
                    => v = c + 4
               /\ ~(c \in 65..90) /\ ~(c \in 97..122) /\ ~(c \in Digit) /\ c = 43 /\ ~(c = 47)
                    => v = 62
               /\ ~(c \in 65..90) /\ ~(c \in 97..122) /\ ~(c \in Digit) /\ ~(c = 43) /\ c = 47
                    => v = 63
    BY <1>7, Zenon
  <1> HIDE DEF Is
  <1>8. \A c \in 65..90 : B64[c] = c - 65 BY <1>2, <1>3, <1>7, Zenon
  <1>9. \A c \in 97..122 : B64[c] = c - 71 BY <1>2, <1>4, <1>7, Zenon
  <1>10. \A c \in Digit : B64[c] = c + 4 BY <1>2, <1>5, <1>7, Zenon
  <1>11. B64[43] = 62 /\ B64[47] = 63
    <2>1. Is(43, B64[43]) /\ Is(47, B64[47]) BY <1>2, <1>6, Zenon
    <2>2. 43 = 43 /\ 47 = 47 OBVIOUS
    <2>3. B64[43] = 62 BY <2>1, <1>6 DEF Is
    <2>4. B64[47] = 63 BY <2>1, <1>6 DEF Is
    <2> QED BY <2>3, <2>4
  <1> QED BY <1>1, <1>8, <1>9, <1>10, <1>11 DEF dom

LEMMA CodesLemma ==
  /\ \A c \in Codes : CodeOf[c] = B64[c] /\ B64[c] \in Nat /\ B64[c] < 64
  /\ \A c : IsB64(c) <=> c \in Codes
  <1>1. ASSUME NEW k \in 0..63 PROVE Alphabet[k] \in DOMAIN B64 /\ B64[Alphabet[k]] = k
    <2>1. CASE k < 26
      <3>1. Alphabet[k] = 65 + k BY <2>1 DEF Alphabet
      <3>2. 65 + k \in 65..90 /\ 65 + k - 65 = k BY <2>1
      <3> QED BY <3>1, <3>2, B64Values
    <2>2. CASE k \in 26..51
      <3>1. Alphabet[k] = 71 + k BY <2>2 DEF Alphabet
      <3>2. 71 + k \in 97..122 /\ 71 + k - 71 = k BY <2>2
      <3> QED BY <3>1, <3>2, B64Values
    <2>3. CASE k \in 52..61
      <3>1. Alphabet[k] = k - 4 BY <2>3 DEF Alphabet
      <3>2. k - 4 \in Digit /\ k - 4 + 4 = k BY <2>3 DEF Digit
      <3> QED BY <3>1, <3>2, B64Values
    <2>4. CASE k = 62
      <3>1. Alphabet[k] = 43 BY <2>4 DEF Alphabet
      <3> QED BY <3>1, <2>4, B64Values
    <2>5. CASE k = 63
      <3>1. Alphabet[k] = 47 BY <2>5 DEF Alphabet
      <3> QED BY <3>1, <2>5, B64Values
    <2> QED BY <2>1, <2>2, <2>3, <2>4, <2>5
  <1>2. ASSUME NEW c \in DOMAIN B64 PROVE B64[c] \in 0..63 /\ Alphabet[B64[c]] = c
    <2>1. c \in 65..90 \cup 97..122 \cup Digit \cup {43, 47} BY B64Values
    <2>2. CASE c \in 65..90
      <3>1. B64[c] = c - 65 BY <2>2, B64Values
      <3>2. c - 65 \in 0..63 /\ c - 65 < 26 /\ 65 + (c - 65) = c BY <2>2
      <3> QED BY <3>1, <3>2 DEF Alphabet
    <2>3. CASE c \in 97..122
      <3>1. B64[c] = c - 71 BY <2>3, B64Values
      <3>2. c - 71 \in 26..51 BY <2>3
      <3> QED BY <2>3, <3>1, <3>2 DEF Alphabet
    <2>4. CASE c \in Digit
      <3>1. B64[c] = c + 4 BY <2>4, B64Values
      <3>2. c + 4 \in 52..61 BY <2>4 DEF Digit
      <3> QED BY <2>4, <3>1, <3>2 DEF Alphabet, Digit
    <2>5. CASE c = 43
      <3>1. B64[c] = 62 BY <2>5, B64Values
      <3> QED BY <2>5, <3>1 DEF Alphabet
    <2>6. CASE c = 47
      <3>1. B64[c] = 63 BY <2>6, B64Values
      <3> QED BY <2>6, <3>1 DEF Alphabet
    <2> QED BY <2>1, <2>2, <2>3, <2>4, <2>5, <2>6
  <1>3. Codes = DOMAIN B64 BY <1>1, <1>2 DEF Codes
  <1>4. ASSUME NEW c \in Codes PROVE CodeOf[c] = B64[c] /\ B64[c] \in 0..63
    <2>1. CodeOf[c] = CHOOSE k \in 0..63 : Alphabet[k] = c BY DEF CodeOf
    <2>2. \E k \in 0..63 : Alphabet[k] = c BY <1>2, <1>3
    <2>3. CodeOf[c] \in 0..63 /\ Alphabet[CodeOf[c]] = c BY <2>1, <2>2
    <2> QED BY <1>1, <2>3
  <1> QED BY <1>3, <1>4 DEF IsB64

-----------------------------------------------------------------------------
(* The bits of Base-64 *)

LEMMA WeightValues ==
  /\ Weight[0] = 32 /\ Weight[1] = 16 /\ Weight[2] = 8 /\ Weight[3] = 4 /\ Weight[4] = 2
  /\ Weight[5] = 1
  BY DEF Weight

LEMMA BitsOfCode ==
  ASSUME NEW v \in Nat, v < 64
  PROVE  /\ v = 32 * ((v \div 32) % 2) + 16 * ((v \div 16) % 2) + 8 * ((v \div 8) % 2)
                + 4 * ((v \div 4) % 2) + 2 * ((v \div 2) % 2) + ((v \div 1) % 2)
         /\ v \div 16 = 2 * ((v \div 32) % 2) + ((v \div 16) % 2)
         /\ v \div 4 = 8 * ((v \div 32) % 2) + 4 * ((v \div 16) % 2) + 2 * ((v \div 8) % 2)
                       + ((v \div 4) % 2)
         /\ v % 16 = 8 * ((v \div 8) % 2) + 4 * ((v \div 4) % 2) + 2 * ((v \div 2) % 2)
                     + ((v \div 1) % 2)
         /\ v % 4 = 2 * ((v \div 2) % 2) + ((v \div 1) % 2)
  OBVIOUS

\* Bit h from i on is bit k from p on, q groups of four codes further.
Groups(q, i, h, p, k) ==
  i \in Nat /\ q \in Nat /\ k \in Nat /\ h = 24 * q + k /\ p = i + 4 * q

LEMMA BitShift ==
  ASSUME NEW t, NEW q, NEW i, NEW h, NEW p, NEW k, Groups(q, i, h, p, k)
  PROVE  Bit(t, i, h) = Bit(t, p, k)
  <1>1. h \div 6 = 4 * q + (k \div 6) /\ h % 6 = k % 6 BY DEF Groups
  <1>2. i + (h \div 6) = p + (k \div 6) BY <1>1 DEF Groups
  <1> QED BY <1>1, <1>2, Zenon DEF Bit

LEMMA OctetShift ==
  ASSUME NEW t, NEW q, NEW i, NEW h, NEW p, NEW k, Groups(q, i, h, p, k)
  PROVE  Octet(t, i, h) = Octet(t, p, k)
  <1>1. ASSUME NEW j \in 0..7 PROVE Bit(t, i, h + j) = Bit(t, p, k + j)
    <2> DEFINE x == k + j
               y == h + j
    <2>1. Groups(q, i, y, p, x) BY DEF Groups
    <2> HIDE DEF x, y
    <2>2. Bit(t, i, y) = Bit(t, p, x) BY <2>1, BitShift
    <2> QED BY <2>2, Zenon DEF x, y
  <1>2. h + 0 = h /\ k + 0 = k BY DEF Groups
  <1>3. /\ Bit(t, i, h) = Bit(t, p, k) /\ Bit(t, i, h + 1) = Bit(t, p, k + 1)
        /\ Bit(t, i, h + 2) = Bit(t, p, k + 2) /\ Bit(t, i, h + 3) = Bit(t, p, k + 3)
        /\ Bit(t, i, h + 4) = Bit(t, p, k + 4) /\ Bit(t, i, h + 5) = Bit(t, p, k + 5)
        /\ Bit(t, i, h + 6) = Bit(t, p, k + 6) /\ Bit(t, i, h + 7) = Bit(t, p, k + 7)
    BY <1>1, <1>2
  <1> QED BY <1>3, Zenon DEF Octet

\* Two bytes cut out of three codes, and the third.
LEMMA Cut ==
  ASSUME NEW a \in Nat, NEW b \in Nat, a < 64, b < 64
  PROVE  /\ (16 * a + b \div 4) % 256 = 16 * (a % 16) + b \div 4
         /\ (64 * a + b) % 256 = 64 * (a % 4) + b
  OBVIOUS

\* Bit k of the code v.
CodeBit(v, k) == (v \div k) % 2

LEMMA CodeBits ==
  ASSUME NEW v \in Nat, v < 64
  PROVE  /\ CodeBit(v, 32) \in Nat /\ CodeBit(v, 16) \in Nat /\ CodeBit(v, 8) \in Nat
         /\ CodeBit(v, 4) \in Nat /\ CodeBit(v, 2) \in Nat /\ CodeBit(v, 1) \in Nat
         /\ v = 32 * CodeBit(v, 32) + 16 * CodeBit(v, 16) + 8 * CodeBit(v, 8)
                + 4 * CodeBit(v, 4) + 2 * CodeBit(v, 2) + CodeBit(v, 1)
         /\ v \div 16 = 2 * CodeBit(v, 32) + CodeBit(v, 16)
         /\ v \div 4 = 8 * CodeBit(v, 32) + 4 * CodeBit(v, 16) + 2 * CodeBit(v, 8)
                       + CodeBit(v, 4)
         /\ v % 16 = 8 * CodeBit(v, 8) + 4 * CodeBit(v, 4) + 2 * CodeBit(v, 2) + CodeBit(v, 1)
         /\ v % 4 = 2 * CodeBit(v, 2) + CodeBit(v, 1)
  BY BitsOfCode DEF CodeBit

LEMMA FirstOctet ==
  ASSUME NEW t, NEW p \in Nat, NEW a \in Nat, NEW b \in Nat, a < 64, b < 64,
         CodeOf[t[p]] = a, CodeOf[t[p + 1]] = b
  PROVE  Octet(t, p, 0) = 4 * a + b \div 16
  <1>0. p + 0 = p OBVIOUS
  <1>d. PICK d \in Nat : d = b \div 16 OBVIOUS
  <1>1. /\ Bit(t, p, 0) = CodeBit(a, 32) /\ Bit(t, p, 0 + 1) = CodeBit(a, 16)
        /\ Bit(t, p, 0 + 2) = CodeBit(a, 8) /\ Bit(t, p, 0 + 3) = CodeBit(a, 4)
        /\ Bit(t, p, 0 + 4) = CodeBit(a, 2) /\ Bit(t, p, 0 + 5) = CodeBit(a, 1)
        /\ Bit(t, p, 0 + 6) = CodeBit(b, 32) /\ Bit(t, p, 0 + 7) = CodeBit(b, 16)
    BY <1>0, WeightValues DEF Bit, CodeBit
  <1>2. Octet(t, p, 0) = 128 * CodeBit(a, 32) + 64 * CodeBit(a, 16) + 32 * CodeBit(a, 8)
          + 16 * CodeBit(a, 4) + 8 * CodeBit(a, 2) + 4 * CodeBit(a, 1) + 2 * CodeBit(b, 32)
          + CodeBit(b, 16)
    BY <1>1, Zenon DEF Octet
  <1>3. /\ CodeBit(a, 32) \in Nat /\ CodeBit(a, 16) \in Nat /\ CodeBit(a, 8) \in Nat
        /\ CodeBit(a, 4) \in Nat /\ CodeBit(a, 2) \in Nat /\ CodeBit(a, 1) \in Nat
        /\ CodeBit(b, 32) \in Nat /\ CodeBit(b, 16) \in Nat
        /\ a = 32 * CodeBit(a, 32) + 16 * CodeBit(a, 16) + 8 * CodeBit(a, 8) + 4 * CodeBit(a, 4)
             + 2 * CodeBit(a, 2) + CodeBit(a, 1)
        /\ d = 2 * CodeBit(b, 32) + CodeBit(b, 16)
    BY <1>d, CodeBits
  <1>4. Octet(t, p, 0) = 4 * a + d BY <1>2, <1>3
  <1> QED BY <1>d, <1>4

LEMMA SecondOctet ==
  ASSUME NEW t, NEW p \in Nat, NEW a \in Nat, NEW b \in Nat, a < 64, b < 64,
         CodeOf[t[p + 1]] = a, CodeOf[t[p + 2]] = b
  PROVE  Octet(t, p, 8) = (16 * a + b \div 4) % 256
  <1>c. PICK c \in Nat : c = a % 16 OBVIOUS
  <1>d. PICK d \in Nat : d = b \div 4 OBVIOUS
  <1>1. /\ Bit(t, p, 8) = CodeBit(a, 8) /\ Bit(t, p, 8 + 1) = CodeBit(a, 4)
        /\ Bit(t, p, 8 + 2) = CodeBit(a, 2) /\ Bit(t, p, 8 + 3) = CodeBit(a, 1)
        /\ Bit(t, p, 8 + 4) = CodeBit(b, 32) /\ Bit(t, p, 8 + 5) = CodeBit(b, 16)
        /\ Bit(t, p, 8 + 6) = CodeBit(b, 8) /\ Bit(t, p, 8 + 7) = CodeBit(b, 4)
    BY WeightValues DEF Bit, CodeBit
  <1>2. Octet(t, p, 8) = 128 * CodeBit(a, 8) + 64 * CodeBit(a, 4) + 32 * CodeBit(a, 2)
          + 16 * CodeBit(a, 1) + 8 * CodeBit(b, 32) + 4 * CodeBit(b, 16) + 2 * CodeBit(b, 8)
          + CodeBit(b, 4)
    BY <1>1, Zenon DEF Octet
  <1>3. /\ CodeBit(a, 8) \in Nat /\ CodeBit(a, 4) \in Nat /\ CodeBit(a, 2) \in Nat
        /\ CodeBit(a, 1) \in Nat /\ CodeBit(b, 32) \in Nat /\ CodeBit(b, 16) \in Nat
        /\ CodeBit(b, 8) \in Nat /\ CodeBit(b, 4) \in Nat
        /\ c = 8 * CodeBit(a, 8) + 4 * CodeBit(a, 4) + 2 * CodeBit(a, 2) + CodeBit(a, 1)
        /\ d = 8 * CodeBit(b, 32) + 4 * CodeBit(b, 16) + 2 * CodeBit(b, 8) + CodeBit(b, 4)
    BY <1>c, <1>d, CodeBits
  <1>4. Octet(t, p, 8) = 16 * c + d BY <1>2, <1>3
  <1> QED BY <1>c, <1>d, <1>4, Cut

LEMMA ThirdOctet ==
  ASSUME NEW t, NEW p \in Nat, NEW a \in Nat, NEW b \in Nat, a < 64, b < 64,
         CodeOf[t[p + 2]] = a, CodeOf[t[p + 3]] = b
  PROVE  Octet(t, p, 16) = (64 * a + b) % 256
  <1>1. /\ Bit(t, p, 16) = CodeBit(a, 2) /\ Bit(t, p, 16 + 1) = CodeBit(a, 1)
        /\ Bit(t, p, 16 + 2) = CodeBit(b, 32) /\ Bit(t, p, 16 + 3) = CodeBit(b, 16)
        /\ Bit(t, p, 16 + 4) = CodeBit(b, 8) /\ Bit(t, p, 16 + 5) = CodeBit(b, 4)
        /\ Bit(t, p, 16 + 6) = CodeBit(b, 2) /\ Bit(t, p, 16 + 7) = CodeBit(b, 1)
    BY WeightValues DEF Bit, CodeBit
  <1>2. Octet(t, p, 16) = 128 * CodeBit(a, 2) + 64 * CodeBit(a, 1) + 32 * CodeBit(b, 32)
          + 16 * CodeBit(b, 16) + 8 * CodeBit(b, 8) + 4 * CodeBit(b, 4) + 2 * CodeBit(b, 2)
          + CodeBit(b, 1)
    BY <1>1, Zenon DEF Octet
  <1>3. /\ CodeBit(a, 2) \in Nat /\ CodeBit(a, 1) \in Nat /\ CodeBit(b, 32) \in Nat
        /\ CodeBit(b, 16) \in Nat /\ CodeBit(b, 8) \in Nat /\ CodeBit(b, 4) \in Nat
        /\ CodeBit(b, 2) \in Nat /\ CodeBit(b, 1) \in Nat
        /\ a % 4 = 2 * CodeBit(a, 2) + CodeBit(a, 1)
        /\ b = 32 * CodeBit(b, 32) + 16 * CodeBit(b, 16) + 8 * CodeBit(b, 8) + 4 * CodeBit(b, 4)
             + 2 * CodeBit(b, 2) + CodeBit(b, 1)
    BY CodeBits
  <1>4. Octet(t, p, 16) = 64 * (a % 4) + b BY <1>2, <1>3
  <1> QED BY <1>4, Cut

\* What the tail of two or three codes packs into bytes.
LEMMA TailValues ==
  ASSUME NEW a \in Nat, NEW b \in Nat, NEW c \in Nat, a < 64, b < 64, c < 64
  PROVE  /\ (((4096 + 64 * a + b) * 16) \div 256) % 256 = 4 * a + b \div 16
         /\ (((262144 + 4096 * a + 64 * b + c) * 64) \div 65536) % 256 = 4 * a + b \div 16
         /\ (((262144 + 4096 * a + 64 * b + c) * 64) \div 256) % 256 = (16 * b + c \div 4) % 256
  OBVIOUS

-----------------------------------------------------------------------------
(* The inductive invariant behind the contents: what the loop that runs has  *)
(* decoded so far is what the units it has passed denote.                    *)

\* What f says of i is s followed by what f says of j.
Continues(f, i, s, j) == f[i] = Before(s, f[j])

Decoded64 ==
  /\ \A k \in src..(rd - 1) : Text[k] \in Codes
  /\ \A j \in 0..(wr - src - 1) : mem[src + j] = Octet(Text, src, 8 * j)

InLoop ==
  /\ pc = "str" => /\ op \in {"str", "bytes"} /\ src = Cursor
                   /\ Continues(Chain(StringUnits(Text)), src,
                                Join(Bytes(mem, src, wr), Bytes(mem, seg, rd)), rd)
  /\ pc = "hex" => /\ op = "hex" /\ src = Cursor
                   /\ Continues(Chain(HexUnits(Text)), src, Bytes(mem, src, wr), rd)
  /\ pc = "b64" => op = "b64" /\ src = Cursor /\ Decoded64
  /\ pc = "arr" => /\ op = "arr" /\ Text[Past(Text, WS, src)] /= Close
                   /\ Continues(Chain(NumberUnits(Text)), src, Bytes(mem, seg, wr), Cursor)
  /\ pc = "skip" => op = "skip" /\ Chain(SkipUnits(Text))[src] = Chain(SkipUnits(Text))[rd]

\* What a slice holds is what its text denotes.
LoanRight(s) ==
  LET r == Reference(Text, s.op, s.src) IN r.ok /\ r.bytes = Bytes(mem, s.lo, s.hi)

Right ==
  /\ \A s \in borrowed : s.clean => LoanRight(s)
  /\ ~dirty => InLoop
  /\ ~dirty /\ pc = "idle" /\ op \in Decoding \cup {"skip"} => Cursor = Reference(Text, op, src).end
  /\ ~dirty /\ pc = "failed" /\ op \in Decoding \cup {"skip"} => ~Reference(Text, op, src).ok
LEMMA TextLemma ==
  ASSUME TypeOK
  PROVE  /\ IsText(Text, len) /\ DOMAIN Text = 0..len /\ Text[len] = Eof
         /\ \A i \in Pos : Text[i] = orig[i] /\ Text[i] \in Byte
  <1>1. len \in Nat /\ orig \in [Pos -> Byte] BY DEF TypeOK
  <1>2. DOMAIN Text = 0..len /\ Text[len] = Eof BY <1>1 DEF Text
  <1>3. ASSUME NEW i \in Pos PROVE Text[i] = orig[i] /\ Text[i] \in Byte
    <2>1. i \in 0..len /\ i < len BY <1>1 DEF Pos
    <2>2. Text[i] = orig[i] BY <2>1 DEF Text
    <2> QED BY <1>1, <2>2
  <1>4. ASSUME NEW i \in 0..len, i /= len PROVE Text[i] \in Byte
    <2>1. i \in Pos BY <1>1, <1>4 DEF Pos
    <2> QED BY <2>1, <1>3
  <1> QED BY <1>1, <1>2, <1>3, <1>4 DEF IsText

LEMMA TextSame ==
  ASSUME UNCHANGED <<orig, len>>
  PROVE  Text' = Text
  BY DEF Text

LEMMA LoanKept ==
  ASSUME IInv, Right, Kept, UNCHANGED <<orig, len>>, NEW s \in borrowed, s.clean
  PROVE  LoanRight(s)'
  <1> DEFINE r == Reference(Text, s.op, s.src)
  <1>0. s.lo \in Nat /\ s.hi \in Nat /\ s.hi <= base /\ base \in 0..len /\ len \in Nat
    BY DEF IInv, TypeOK, BorrowsDisjoint, Loans
  <1>1. r.ok /\ r.bytes = Bytes(mem, s.lo, s.hi) BY DEF Right, LoanRight
  <1>2. Bytes(mem', s.lo, s.hi) = Bytes(mem, s.lo, s.hi)
    <2>1. ASSUME NEW k \in 1..(s.hi - s.lo) PROVE mem'[s.lo + k - 1] = mem[s.lo + k - 1]
      <3>1. s.lo + k - 1 \in Pos /\ s.lo + k - 1 < base BY <1>0 DEF Pos
      <3> QED BY <3>1 DEF Kept, BelowIntact
    <2> QED BY <2>1 DEF Bytes
  <1> HIDE DEF r
  <1>3. r' = r
    <2>1. Text' = Text BY TextSame
    <2> QED BY <2>1 DEF r
  <1> QED BY <1>1, <1>2, <1>3, Zenon DEF LoanRight, r

-----------------------------------------------------------------------------
(* The three ways a step ends, again *)

Denotes(o, s, bytes, end) ==
  LET r == Reference(Text, o, s) IN r.ok /\ r.bytes = bytes /\ r.end = end
NoValue(o, s) == ~Reference(Text, o, s).ok

Contents == Decoding \cup {"skip"}

LEMMA NoValueSame ==
  ASSUME UNCHANGED <<orig, len, call>>
  PROVE  Reference(Text, op, src)' = Reference(Text, op, src)
  <1>1. Text' = Text /\ op' = op /\ src' = src BY TextSame DEF call
  <1> QED BY <1>1, Zenon

LEMMA FailRight ==
  ASSUME IInv, Right, Kept, NEW e, Fail(e), UNCHANGED <<orig, len>>,
         ~dirty /\ op \in Contents => NoValue(op, src)
  PROVE  Right'
  <1>1. pc' = "failed" /\ UNCHANGED <<op, src, borrowed, dirty, call>>
    BY DEF Fail, call
  <1>2. \A s \in borrowed' : s.clean => LoanRight(s)' BY <1>1, LoanKept
  <1>3. InLoop' BY <1>1 DEF InLoop
  <1>4. ~dirty' /\ op' \in Contents => ~Reference(Text, op, src).ok'
    <2>1. Reference(Text, op, src)' = Reference(Text, op, src) BY <1>1, NoValueSame
    <2> QED BY <1>1, <2>1, Zenon DEF NoValue
  <1> QED BY <1>1, <1>2, <1>3, <1>4, Zenon DEF Right, Contents

LEMMA SplitRight ==
  ASSUME IInv, Right, Kept, NEW o, NEW s, NEW at \in Nat, NEW n \in Nat, NEW skip,
         SplitInput(o, s, at, n, skip), UNCHANGED <<orig, len>>,
         ~dirty => Denotes(o, s, Bytes(mem', at, at + n), at + n + skip)
  PROVE  Right'
  <1> DEFINE r == Reference(Text, o, s)
  <1>0. PICK new : new = Loan(o, s, at, n) OBVIOUS
  <1>1. NextBase(at, n, skip) <= len
    <2>1. NoPanic' BY DEF Kept, IInv
    <2> QED BY <2>1 DEF SplitInput, Abort, NoPanic
  <1>2. /\ base' = at + n + skip /\ index' = 0 /\ pc' = "idle" /\ op' = o /\ src' = s
        /\ borrowed' = borrowed \cup {new} /\ dirty' = dirty
    BY <1>0, <1>1 DEF SplitInput, NextBase
  <1>3. new.op = o /\ new.src = s /\ new.lo = at /\ new.hi = at + n /\ new.clean = ~dirty
    BY <1>0 DEF Loan
  <1>4. Text' = Text BY TextSame
  <1>5. ~dirty => r.ok /\ r.bytes = Bytes(mem', at, at + n) /\ r.end = at + n + skip
    BY DEF Denotes
  <1>6. ~dirty => LoanRight(new)'
    <2> DEFINE L(x) == x.ok /\ x.bytes = Bytes(mem', at, at + n)
    <2>1. ASSUME ~dirty PROVE L(r) BY <2>1, <1>5
    <2>2. LoanRight(new)' = L(r) BY <1>3, <1>4, Zenon DEF LoanRight, r
    <2> HIDE DEF L
    <2> QED BY <2>1, <2>2
  <1>7. \A x \in borrowed' : x.clean => LoanRight(x)'
    <2>1. ASSUME NEW x \in borrowed', x.clean PROVE LoanRight(x)'
      <3>1. CASE x \in borrowed BY <2>1, <3>1, LoanKept
      <3>2. CASE x = new BY <1>3, <1>6, <2>1, <3>2
      <3> QED BY <1>2, <3>1, <3>2
    <2> QED BY <2>1
  <1>8. InLoop' BY <1>2 DEF InLoop
  <1>9. ~dirty => Cursor' = Reference(Text, op, src).end'
    <2>1. base' \in Nat BY DEF Kept, IInv, TypeOK
    <2>2. Cursor' = base' BY <1>2, <2>1 DEF Cursor
    <2> QED BY <1>2, <1>4, <1>5, <2>2, Zenon DEF r
  <1> QED BY <1>2, <1>7, <1>8, <1>9, Zenon DEF Right

LEMMA StayRight ==
  ASSUME IInv, Right, Kept, UNCHANGED <<borrowed, dirty, orig, len>>, pc' \in Labels \cup {"done"},
         ~dirty => InLoop'
  PROVE  Right'
  <1>1. \A s \in borrowed' : s.clean => LoanRight(s)' BY LoanKept
  <1>2. pc' /= "idle" /\ pc' /= "failed" BY DEF Labels
  <1> QED BY <1>1, <1>2, Zenon DEF Right

\* A step that ends without a value, or refuses the call.
LEMMA PlainRight ==
  ASSUME IInv, Right, Kept, UNCHANGED <<borrowed, orig, len>>, pc' \in {"idle", "failed"},
         dirty' = dirty, op' \notin Contents
  PROVE  Right'
  <1>1. \A s \in borrowed' : s.clean => LoanRight(s)' BY LoanKept
  <1>2. InLoop' BY DEF InLoop
  <1> QED BY <1>1, <1>2, Zenon DEF Right, Contents

-----------------------------------------------------------------------------
(* Calls, again *)

\* Nothing has been decoded yet.
LEMMA ContinuesFrom ==
  ASSUME NEW n \in Nat, NEW u, IsUnits(u, n), NEW q \in 0..n
  PROVE  /\ Continues(Chain(u), q, <<>>, q)
         /\ Continues(Chain(u), q, Join(<<>>, <<>>), q)
  <1>1. Chain(u)[q] \in Results BY ChainLemma
  <1>2. <<>> \in Seq(Byte) OBVIOUS
  <1>3. Before(<<>>, Chain(u)[q]) = Chain(u)[q] BY <1>1, <1>2, BeforeLemma
  <1>4. Join(<<>>, <<>>) = <<>> BY DEF Join
  <1> QED BY <1>3, <1>4, Zenon DEF Continues

\* Two positions with the same unit denote the same.
LEMMA SameUnit ==
  ASSUME NEW n \in Nat, NEW u, IsUnits(u, n), NEW i \in 0..n, NEW j \in 0..n, u[i] = u[j]
  PROVE  Chain(u)[i] = Chain(u)[j]
  <1>1. u[i] \in Units BY DEF IsUnits
  <1>2. u[i].kind \in {"more", "last", "bad"} BY <1>1 DEF Units
  <1>3. CASE u[i].kind = "more" BY <1>3, ChainLemma
  <1>4. CASE u[i].kind = "last" BY <1>4, ChainLemma
  <1>5. CASE u[i].kind = "bad" BY <1>5, ChainLemma
  <1> QED BY <1>2, <1>3, <1>4, <1>5

\* White space in front of an element.
LEMMA SkipBlanks ==
  ASSUME NEW n, NEW t, IsText(t, n), NEW i \in 0..n
  PROVE  /\ Past(t, WS, i) \in 0..n
         /\ Past(t, WS, Past(t, WS, i)) = Past(t, WS, i)
         /\ Chain(NumberUnits(t))[Past(t, WS, i)] = Chain(NumberUnits(t))[i]
  <1> DEFINE p == Past(t, WS, i)
             e == Past(t, Digit, p)
             q == Past(t, WS, e)
             u == NumberUnits(t)
  <1>1. p \in 0..n /\ t[p] \notin WS BY PastLemma, CharLemma
  <1>2. n \in Nat BY DEF IsText
  <1>3. Past(t, WS, p) = p
    <2>1. p <= p /\ \A k \in p..(p - 1) : t[k] \in WS BY <1>1, <1>2
    <2> HIDE DEF p
    <2> QED BY <1>1, <2>1, PastUnique, CharLemma
  <1>4. Element(t, i, p, e, q) BY DEF Element
  <1>5. Element(t, p, p, e, q) BY <1>3, Zenon DEF Element
  <1>6. u[i] = NumberUnit(t, p, e, q) /\ u[p] = NumberUnit(t, p, e, q)
    BY <1>1, <1>4, <1>5, NumberUnitsLemma
  <1>7. IsUnits(u, n) BY NumberUnitsLemma
  <1> HIDE DEF p, u
  <1>8. Chain(u)[p] = Chain(u)[i] BY <1>1, <1>2, <1>6, <1>7, SameUnit
  <1> QED BY <1>1, <1>3, <1>8 DEF p, u

\* Every content has its chain.
LEMMA TextUnits ==
  ASSUME IInv
  PROVE  /\ len \in Nat /\ IsText(Text, len)
         /\ IsUnits(StringUnits(Text), len) /\ IsUnits(HexUnits(Text), len)
         /\ IsUnits(NumberUnits(Text), len) /\ IsUnits(SkipUnits(Text), len)
  <1>1. IsText(Text, len) /\ len \in Nat BY TextLemma DEF IInv, TypeOK
  <1> QED BY <1>1, StringUnitsLemma, HexUnitsLemma, NumberUnitsLemma, SkipUnitsLemma

\* What a decoder begins with.
Begins(label, o, p, q) ==
  \/ label = "str" /\ o \in {"str", "bytes"} /\ p = q
  \/ label = "hex" /\ o = "hex" /\ p = q
  \/ label = "b64" /\ o = "b64" /\ p = q
  \/ label = "skip" /\ o = "skip" /\ p = q
  \/ label = "arr" /\ o = "arr" /\ p \in 0..len /\ q = Past(Text, WS, p) /\ Text[q] /= Close

LEMMA EnterRight ==
  ASSUME IInv, Right, Kept, NEW label \in Labels, NEW o, NEW p, NEW q \in 0..len, base <= q,
         Enter(label, o, p, q), UNCHANGED <<orig, len>>, ~dirty => Begins(label, o, p, q)
  PROVE  Right'
  <1>1. /\ pc' = label /\ op' = o /\ src' = p /\ wr' = q /\ seg' = q /\ rd' = q
        /\ UNCHANGED <<borrowed, dirty>>
    BY DEF Enter
  <1>2. Cursor' = q BY DEF Enter, MoveTo, Cursor, IInv, TypeOK
  <1>3. Text' = Text BY TextSame
  <1>4. q \in Nat /\ len \in Nat BY DEF IInv, TypeOK
  <1>5. Bytes(mem', q, q) = <<>> BY <1>4, PieceEmpty
  <1>6. ASSUME ~dirty PROVE InLoop'
    <2>0. Begins(label, o, p, q) BY <1>6
    <2>1. CASE label = "str"
      <3>1. p = q /\ o \in {"str", "bytes"} BY <2>0, <2>1 DEF Begins
      <3>2. Continues(Chain(StringUnits(Text)), q, Join(<<>>, <<>>), q)
        BY <1>4, TextUnits, ContinuesFrom
      <3>3. Continues(Chain(StringUnits(Text)), src, Join(Bytes(mem, src, wr), Bytes(mem, seg, rd)), rd)'
        BY <1>1, <1>3, <1>5, <3>1, <3>2, Zenon
      <3> QED BY <1>1, <1>2, <2>1, <3>1, <3>3 DEF InLoop
    <2>2. CASE label = "hex"
      <3>1. p = q /\ o = "hex" BY <2>0, <2>2 DEF Begins
      <3>2. Continues(Chain(HexUnits(Text)), q, <<>>, q) BY <1>4, TextUnits, ContinuesFrom
      <3>3. Continues(Chain(HexUnits(Text)), src, Bytes(mem, src, wr), rd)'
        BY <1>1, <1>3, <1>5, <3>1, <3>2, Zenon
      <3> QED BY <1>1, <1>2, <2>2, <3>1, <3>3 DEF InLoop
    <2>3. CASE label = "b64"
      <3>1. p = q /\ o = "b64" BY <2>0, <2>3 DEF Begins
      <3>2. Decoded64' BY <1>1, <1>4, <3>1 DEF Decoded64
      <3> QED BY <1>1, <1>2, <2>3, <3>1, <3>2 DEF InLoop
    <2>4. CASE label = "skip"
      <3>1. p = q /\ o = "skip" BY <2>0, <2>4 DEF Begins
      <3> QED BY <1>1, <2>4, <3>1 DEF InLoop
    <2>5. CASE label = "arr"
      <3>1. o = "arr" /\ p \in 0..len /\ q = Past(Text, WS, p) /\ Text[q] /= Close
        BY <2>0, <2>5 DEF Begins
      <3>2. Continues(Chain(NumberUnits(Text)), q, <<>>, q) BY <1>4, TextUnits, ContinuesFrom
      <3>3. Chain(NumberUnits(Text))[q] = Chain(NumberUnits(Text))[p]
        BY <3>1, TextUnits, SkipBlanks
      <3>4. Continues(Chain(NumberUnits(Text)), p, <<>>, q) BY <3>2, <3>3, Zenon DEF Continues
      <3>5. Continues(Chain(NumberUnits(Text)), src, Bytes(mem, seg, wr), Cursor)'
        BY <1>1, <1>2, <1>3, <1>5, <3>4, Zenon
      <3>6. Text'[Past(Text', WS, src')] /= Close BY <1>1, <1>3, <3>1, Zenon
      <3> QED BY <1>1, <2>5, <3>1, <3>5, <3>6 DEF InLoop
    <2> QED BY <2>1, <2>2, <2>3, <2>4, <2>5 DEF Labels
  <1> QED BY <1>1, <1>6, StayRight

-----------------------------------------------------------------------------
(* What a decoder reads is the text *)

\* m still holds the text from a position on.
Shows(m, from) == \A i \in Pos : i >= from => m[i] = Text[i]

LEMMA UnreadShows ==
  ASSUME IInv, ~dirty, pc /= "failed"
  PROVE  Shows(mem, Frontier)
  BY TextLemma DEF Shows, IInv, UnreadIntact

LEMMA ShowsLater ==
  ASSUME len \in Nat, NEW m, NEW a \in Nat, Shows(m, a), NEW b \in Nat, a <= b
  PROVE  Shows(m, b)
  <1>1. ASSUME NEW i \in Pos, i >= b PROVE m[i] = Text[i]
    <2>1. i >= a BY <1>1 DEF Pos
    <2> QED BY <2>1 DEF Shows
  <1> QED BY <1>1 DEF Shows

LEMMA ScanText ==
  ASSUME TypeOK, NEW m, NEW from \in 0..len, Shows(m, from), NEW S, NEW j \in Scan(m, S, from)
  PROVE  /\ j \in Nat /\ from \in Nat /\ len \in Nat /\ from <= j /\ j <= len /\ j \in 0..len
         /\ j = len => Text[j] = Eof
         /\ j < len => Text[j] = m[j] /\ Text[j] \in S /\ Text[j] \in Byte
         /\ \A k \in from..(j - 1) : Text[k] \notin S /\ Text[k] = m[k] /\ Text[k] \in Byte
  <1>1. j \in Nat /\ from \in Nat /\ len \in Nat /\ from <= j /\ j <= len
    BY ScanLemma DEF TypeOK
  <1>2. ASSUME NEW k \in Nat, from <= k, k < len PROVE Text[k] = m[k] /\ Text[k] \in Byte
    <2>1. k \in Pos /\ k >= from BY <1>1, <1>2 DEF Pos
    <2> QED BY <2>1, TextLemma DEF Shows
  <1>3. \A k \in from..(j - 1) : k \in Nat /\ from <= k /\ k < len /\ m[k] \notin S
    BY <1>1 DEF Scan
  <1>4. j = len \/ m[j] \in S BY DEF Scan
  <1>5. j = len => Text[j] = Eof BY TextLemma
  <1>6. j < len => Text[j] = m[j] /\ Text[j] \in S /\ Text[j] \in Byte BY <1>1, <1>2, <1>4
  <1>7. \A k \in from..(j - 1) : Text[k] \notin S /\ Text[k] = m[k] /\ Text[k] \in Byte
    BY <1>2, <1>3
  <1> QED BY <1>1, <1>5, <1>6, <1>7

\* Where iter().position() stops is what a text calls the end of a run.
LEMMA ScanPast ==
  ASSUME TypeOK, NEW m, NEW from \in 0..len, Shows(m, from), NEW S, Eof \notin S,
         NEW j \in Scan(m, Byte \ S, from)
  PROVE  j = Past(Text, S, from)
  <1>1. /\ j \in 0..len /\ from <= j /\ Text[j] \notin S
        /\ \A k \in from..(j - 1) : Text[k] \in S
    <2>1. /\ j \in Nat /\ len \in Nat /\ from <= j /\ j <= len /\ j \in 0..len
          /\ j = len => Text[j] = Eof
          /\ j < len => Text[j] \in Byte \ S
          /\ \A k \in from..(j - 1) : Text[k] \notin Byte \ S /\ Text[k] \in Byte
      BY ScanText
    <2>2. Text[j] \notin S BY <2>1
    <2> QED BY <2>1, <2>2
  <1>2. IsText(Text, len) BY TextLemma
  <1> QED BY <1>1, <1>2, PastUnique

\* Between two calls the whole of what is left shows the text.
LEMMA IdleShows ==
  ASSUME IInv, ~dirty, pc = "idle", NEW from \in 0..len, Cursor <= from
  PROVE  Shows(mem, from)
  <1>1. /\ Cursor \in Nat /\ rd \in Nat /\ rd <= Cursor /\ len \in Nat
    BY DEF IInv, TypeOK, LoopOK
  <1>2. Frontier = Cursor BY <1>1 DEF Frontier
  <1> QED BY <1>1, <1>2, UnreadShows, ShowsLater

-----------------------------------------------------------------------------
(* The calls *)

LEMMA RefuseRight ==
  ASSUME IInv, Right, Kept, NEW e, NEW p, Refuse(e, p), UNCHANGED <<orig, len>>
  PROVE  Right'
  BY PlainRight DEF Refuse, Contents, Decoding

LEMMA DeserializeStrRight == ASSUME IInv, Right, Kept, DeserializeStr PROVE Right'
  <1>0. UNCHANGED <<orig, len>> BY DEF DeserializeStr
  <1>1. PICK p \in Scan(mem, NonWs, Cursor) :
          \/ Refuse("UnexpectedEof", Cursor)
          \/ p < len /\ Enter("str", "str", p + 1, p + 1)
          \/ Refuse("ExpectedString", p)
    BY DEF DeserializeStr
  <1>2. p \in 0..len /\ Cursor <= p /\ base <= Cursor /\ Cursor \in 0..len /\ base \in 0..len
    BY IdleScan
  <1>3. CASE Refuse("UnexpectedEof", Cursor) BY <1>0, <1>3, RefuseRight
  <1>4. CASE p < len /\ Enter("str", "str", p + 1, p + 1)
    <2>1. p + 1 \in 0..len /\ base <= p + 1 BY <1>2, <1>4 DEF IInv, TypeOK
    <2>2. Begins("str", "str", p + 1, p + 1) BY DEF Begins
    <2> QED BY <1>0, <1>4, <2>1, <2>2, EnterRight DEF Labels
  <1>5. CASE Refuse("ExpectedString", p) BY <1>0, <1>5, RefuseRight
  <1> QED BY <1>1, <1>3, <1>4, <1>5

LEMMA EnterArrayRight ==
  ASSUME IInv, Right, Kept, pc = "idle", NEW p \in 0..len, Cursor <= p, EnterArray(p),
         UNCHANGED <<orig, len>>
  PROVE  Right'
  <1>0. /\ len \in Nat /\ p \in Nat /\ base \in Nat /\ Cursor \in Nat /\ base <= Cursor /\ TypeOK
    BY DEF IInv, TypeOK, Cursor
  <1>1. PICK q \in Scan(mem, NonWs, p) :
          \/ Refuse("UnexpectedEof", p)
          \/ q < len /\ mem[q] = Close /\ SplitInput("arr", p, q, 0, 1) /\ UNCHANGED mem
          \/ q < len /\ mem[q] /= Close /\ Enter("arr", "arr", p, q)
    BY DEF EnterArray
  <1>2. q \in Nat /\ p <= q /\ q <= len /\ q \in 0..len /\ base <= q BY <1>0, ScanLemma
  <1>3. ASSUME ~dirty PROVE q = Past(Text, WS, p) /\ (q < len => Text[q] = mem[q])
    <2>1. Shows(mem, p) BY <1>3, IdleShows
    <2>2. q < len => Text[q] = mem[q] BY <1>0, <2>1, ScanText
    <2>3. q = Past(Text, WS, p) BY <1>0, <2>1, ScanPast, CharLemma DEF NonWs
    <2> QED BY <2>2, <2>3
  <1>4. CASE Refuse("UnexpectedEof", p) BY <1>4, RefuseRight
  <1>5. CASE q < len /\ mem[q] = Close /\ SplitInput("arr", p, q, 0, 1) /\ UNCHANGED mem
    <2>1. ASSUME ~dirty PROVE Denotes("arr", p, Bytes(mem', q, q + 0), q + 0 + 1)
      <3>1. Bytes(mem', q, q) = <<>> /\ q + 0 = q /\ <<>> \in Seq(Byte) BY <1>2, PieceEmpty
      <3>2. Text[Past(Text, WS, p)] = Close BY <1>3, <1>5, <2>1
      <3>3. Array(Text, p) = Result(<<>>, q + 1) BY <1>3, <2>1, <3>2 DEF Array
      <3>4. Reference(Text, "arr", p) = Result(<<>>, q + 1) BY <3>3 DEF Reference
      <3>5. q + 1 \in Nat BY <1>2
      <3> DEFINE x == q + 1
      <3> HIDE DEF x
      <3>6. Result(<<>>, x).ok /\ Result(<<>>, x).bytes = <<>> /\ Result(<<>>, x).end = x
        BY <3>1, <3>5, ResultLemma DEF x
      <3>7. q + 0 + 1 = x BY <1>2 DEF x
      <3> QED BY <3>1, <3>4, <3>6, <3>7 DEF Denotes, x
    <2>2. 0 \in Nat OBVIOUS
    <2> QED BY <1>2, <1>5, <2>1, <2>2, SplitRight
  <1>6. CASE q < len /\ mem[q] /= Close /\ Enter("arr", "arr", p, q)
    <2>1. ~dirty => Begins("arr", "arr", p, q) BY <1>3, <1>6 DEF Begins
    <2> QED BY <1>2, <1>6, <2>1, EnterRight DEF Labels
  <1> QED BY <1>1, <1>4, <1>5, <1>6

LEMMA DeserializeBytesRight == ASSUME IInv, Right, Kept, DeserializeBytes PROVE Right'
  <1>0. UNCHANGED <<orig, len>> /\ pc = "idle" BY DEF DeserializeBytes
  <1>1. PICK p \in Scan(mem, NonWs, Cursor) :
          \/ Refuse("UnexpectedEof", Cursor)
          \/ p < len /\ Enter(DecoderLabel, dec, p + 1, p + 1)
          \/ p < len /\ EnterArray(p + 1)
          \/ Refuse("UnexpectedChar", p)
    BY DEF DeserializeBytes
  <1>2. p \in 0..len /\ Cursor <= p /\ base <= Cursor /\ Cursor \in 0..len /\ base \in 0..len
    BY IdleScan
  <1>a. p < len => p + 1 \in 0..len /\ Cursor <= p + 1 /\ base <= p + 1
    BY <1>2 DEF IInv, TypeOK
  <1>3. CASE Refuse("UnexpectedEof", Cursor) BY <1>0, <1>3, RefuseRight
  <1>4. CASE p < len /\ Enter(DecoderLabel, dec, p + 1, p + 1)
    <2>1. dec \in {"bytes", "hex", "b64"} BY DecodersAssumption DEF IInv, TypeOK
    <2>2. DecoderLabel \in Labels /\ Begins(DecoderLabel, dec, p + 1, p + 1)
      BY <2>1 DEF DecoderLabel, Labels, Begins
    <2> QED BY <1>0, <1>a, <1>4, <2>2, EnterRight
  <1>5. CASE p < len /\ EnterArray(p + 1) BY <1>0, <1>5, <1>a, EnterArrayRight
  <1>6. CASE Refuse("UnexpectedChar", p) BY <1>0, <1>6, RefuseRight
  <1> QED BY <1>1, <1>3, <1>4, <1>5, <1>6

LEMMA IgnoreScalarRight == ASSUME IInv, Right, Kept, IgnoreScalar PROVE Right'
  <1>0. UNCHANGED <<orig, len>> /\ pc = "idle" BY DEF IgnoreScalar
  <1>1. PICK p \in Scan(mem, NonWs, Cursor) :
          /\ p < len
          /\ \/ Enter("skip", "skip", p + 1, p + 1)
             \/ \E q : Ate("num", p, q)
    BY DEF IgnoreScalar
  <1>2. p \in 0..len /\ Cursor <= p /\ base <= Cursor /\ Cursor \in 0..len /\ base \in 0..len
    BY IdleScan
  <1>3. CASE Enter("skip", "skip", p + 1, p + 1)
    <2>1. p + 1 \in 0..len /\ base <= p + 1 BY <1>1, <1>2 DEF IInv, TypeOK
    <2>2. Begins("skip", "skip", p + 1, p + 1) BY DEF Begins
    <2> QED BY <1>0, <1>3, <2>1, <2>2, EnterRight DEF Labels
  <1>4. ASSUME NEW q, Ate("num", p, q) PROVE Right'
    BY <1>0, <1>4, PlainRight DEF Ate, Contents, Decoding
  <1> QED BY <1>1, <1>3, <1>4

LEMMA EatPunctRight == ASSUME IInv, Right, Kept, EatPunct PROVE Right'
  <1>1. PICK p : Ate("none", 0, p + 1) BY DEF EatPunct
  <1> QED BY <1>1, PlainRight DEF EatPunct, Ate, Contents, Decoding

LEMMA EndRight == ASSUME IInv, Right, Kept, End PROVE Right'
  <1>1. PICK p \in Scan(mem, NonWs, Cursor) :
          IF p = len
          THEN pc' = "done" /\ UNCHANGED <<mem, cursor, call, locals, borrowed, err, dirty>>
          ELSE Refuse("TrailingCharacters", p)
    BY DEF End
  <1>2. UNCHANGED <<orig, len>> BY DEF End
  <1>3. CASE p = len
    <2>1. pc' = "done" /\ UNCHANGED <<borrowed, dirty>> BY <1>1, <1>3
    <2>2. InLoop' BY <2>1 DEF InLoop
    <2> QED BY <1>2, <2>1, <2>2, StayRight
  <1>4. CASE p /= len BY <1>1, <1>2, <1>4, RefuseRight
  <1> QED BY <1>3, <1>4

LEMMA SwallowErrorRight == ASSUME IInv, Right, Kept, SwallowError PROVE Right'
  <1>1. UNCHANGED <<orig, len, borrowed>> /\ dirty' = TRUE BY DEF SwallowError, buffer
  <1>2. \A s \in borrowed' : s.clean => LoanRight(s)' BY <1>1, LoanKept
  <1> QED BY <1>1, <1>2, Zenon DEF Right

-----------------------------------------------------------------------------
(* One unit further *)

\* The content that f says is at i holds s and ends at k.
Ends(f, i, s, k) == f[i].ok /\ f[i].bytes = s /\ f[i].end = k

LEMMA ContinuesLemma ==
  ASSUME NEW n \in Nat, NEW u, IsUnits(u, n), NEW i, NEW s \in Seq(Byte), NEW j \in 0..n,
         Continues(Chain(u), i, s, j), NEW b \in Seq(Byte), NEW k \in Nat
  PROVE  /\ u[j] = More(b, k) => Continues(Chain(u), i, Join(s, b), k) /\ k \in 0..n
         /\ u[j] = Last(b, k) => Ends(Chain(u), i, Join(s, b), k)
         /\ u[j] = Bad => ~Chain(u)[i].ok
  <1> DEFINE S == Chain(u)
  <1>1. S[i] = Before(s, S[j]) BY Zenon DEF Continues
  <1>2. /\ S[j] \in Results
        /\ u[j].kind = "last" => S[j] = Result(u[j].bytes, u[j].next)
        /\ u[j].kind = "more" => S[j] = Before(u[j].bytes, S[u[j].next])
        /\ u[j].kind = "bad" => S[j] = Failure
    BY ChainLemma
  <1>3. \A x \in 0..n : S[x] \in Results BY ChainLemma
  <1>4. ASSUME u[j] = More(b, k) PROVE Continues(S, i, Join(s, b), k) /\ k \in 0..n
    <2>1. u[j].kind = "more" /\ u[j].bytes = b /\ u[j].next = k BY <1>4, MoreLemma
    <2>2. k \in 0..n BY <2>1 DEF IsUnits
    <2> HIDE DEF S
    <2>3. S[i] = Before(s, Before(b, S[k])) BY <1>1, <1>2, <2>1
    <2>4. Before(s, Before(b, S[k])) = Before(Join(s, b), S[k]) BY <1>3, <2>2, BeforeBefore
    <2> QED BY <2>2, <2>3, <2>4, Zenon DEF Continues
  <1>5. ASSUME u[j] = Last(b, k) PROVE S[i].ok /\ S[i].bytes = Join(s, b) /\ S[i].end = k
    <2>1. u[j].kind = "last" /\ u[j].bytes = b /\ u[j].next = k BY <1>5, MoreLemma
    <2> HIDE DEF S
    <2>2. S[j] = Result(b, k) BY <1>2, <2>1
    <2>3. Result(b, k) \in Results /\ Result(b, k).ok /\ Result(b, k).bytes = b /\ Result(b, k).end = k
      BY ResultLemma
    <2>4. /\ Before(s, Result(b, k)).ok = Result(b, k).ok
          /\ Before(s, Result(b, k)).end = Result(b, k).end
          /\ Before(s, Result(b, k)).bytes = s \o Result(b, k).bytes
      BY <2>3, BeforeLemma
    <2>5. S[i] = Before(s, Result(b, k)) BY <1>1, <2>2
    <2> QED BY <2>3, <2>4, <2>5, Zenon DEF Join
  <1>6. ASSUME u[j] = Bad PROVE ~S[i].ok
    <2>1. u[j].kind = "bad" BY <1>6, BadLemma
    <2> HIDE DEF S
    <2>2. S[j] = Failure BY <1>2, <2>1
    <2>3. Failure \in Results /\ ~Failure.ok
      <3>1. <<>> \in Seq(Byte) /\ 0 \in Nat OBVIOUS
      <3> QED BY <3>1, ResultLemma
    <2>4. Before(s, Failure) = Failure BY <2>3, BeforeLemma
    <2> QED BY <1>1, <2>2, <2>3, <2>4
  <1>7. (S[i].ok /\ S[i].bytes = Join(s, b) /\ S[i].end = k) <=> Ends(S, i, Join(s, b), k)
    BY Zenon DEF Ends
  <1> HIDE DEF S
  <1>8. u[j] = Last(b, k) => Ends(S, i, Join(s, b), k) BY <1>5, <1>7, Zenon
  <1> QED BY <1>4, <1>6, <1>8 DEF S

LEMMA JoinEmpty ==
  ASSUME NEW s \in Seq(Byte)
  PROVE  Join(s, <<>>) = s /\ Join(<<>>, s) = s
  BY ConcatEmptySeq DEF Join


LEMMA ContinuesLast ==
  ASSUME NEW n \in Nat, NEW u, IsUnits(u, n), NEW i, NEW s \in Seq(Byte), NEW j \in 0..n,
         Continues(Chain(u), i, s, j), NEW k \in Nat, u[j] = Last(<<>>, k)
  PROVE  Ends(Chain(u), i, s, k)
  <1>1. \E b : b = <<>> OBVIOUS
  <1>2. PICK b : b = <<>> BY <1>1
  <1>3. b \in Seq(Byte) /\ Join(s, b) = s BY <1>2, JoinEmpty
  <1>4. u[j] = Last(b, k) BY <1>2
  <1>5. Ends(Chain(u), i, Join(s, b), k) BY <1>3, <1>4, ContinuesLemma
  <1> QED BY <1>3, <1>5, Zenon

LEMMA ContinuesBad ==
  ASSUME NEW n \in Nat, NEW u, IsUnits(u, n), NEW i, NEW s \in Seq(Byte), NEW j \in 0..n,
         Continues(Chain(u), i, s, j), u[j] = Bad
  PROVE  ~Chain(u)[i].ok
  <1>1. PICK b : b \in Seq(Byte)
    <2>1. <<>> \in Seq(Byte) OBVIOUS
    <2> QED BY <2>1
  <1>2. 0 \in Nat OBVIOUS
  <1> QED BY <1>1, <1>2, ContinuesLemma

\* What WriteAt leaves and what it writes.
LEMMA WriteFollows ==
  ASSUME len \in Nat, NEW m \in [Pos -> Byte], NEW a \in Nat, NEW at \in Nat, a <= at,
         NEW b \in Seq(Byte), NEW n, n = at + Len(b), n <= len
  PROVE  Follows(m, WriteAt(m, at, b), a, at, b, n)
  <1> DEFINE o == WriteAt(m, at, b)
  <1>0. Len(b) \in Nat OBVIOUS
  <1>1. ASSUME NEW k \in a..(at - 1) PROVE o[k] = m[k] /\ m[k] \in Byte
    <2>1. k \in Pos /\ ~(k \in at..(at + Len(b) - 1)) BY <1>0 DEF Pos
    <2> QED BY <2>1 DEF WriteAt
  <1>2. ASSUME NEW j \in 1..Len(b) PROVE o[at + j - 1] = b[j]
    <2>1. /\ at + j - 1 \in Pos /\ at + j - 1 \in at..(at + Len(b) - 1)
          /\ (at + j - 1) - at + 1 = j
      BY <1>0 DEF Pos
    <2> QED BY <2>1 DEF WriteAt
  <1> HIDE DEF o
  <1>3. Keeps(m, o, a, at) /\ Puts(o, at, b) /\ Span(m, a, at)
    BY <1>1, <1>2 DEF Keeps, Puts, Span
  <1>4. Follows(m, o, a, at, b, n) BY <1>3 DEF Follows
  <1> QED BY <1>4 DEF o

LEMMA BufferSpan ==
  ASSUME TypeOK, NEW a \in Nat, NEW b \in Nat, a <= b, b <= len
  PROVE  Span(mem, a, b) /\ Bytes(mem, a, b) \in Seq(Byte)
  <1>1. ASSUME NEW k \in a..(b - 1) PROVE mem[k] \in Byte
    <2>1. k \in Pos BY DEF Pos, TypeOK
    <2> QED BY <2>1 DEF TypeOK
  <1>2. Span(mem, a, b) BY <1>1 DEF Span
  <1> QED BY <1>2, PieceSeq

-----------------------------------------------------------------------------
(* parse_hex_bytes_content, again *)

LEMMA HexTwo ==
  ASSUME NEW n, NEW t, IsText(t, n), NEW i \in 0..n
  PROVE  /\ HexDigits(t, i, 2) <=> i + 2 <= n /\ IsNib(t[i]) /\ IsNib(t[i + 1])
         /\ HexDigits(t, i, 2) => t[i] /= QU
  <1>0. n \in Nat /\ i \in Nat BY DEF IsText
  <1>1. ASSUME HexDigits(t, i, 2) PROVE i + 2 <= n /\ IsNib(t[i]) /\ IsNib(t[i + 1]) /\ t[i] /= QU
    <2>1. i + 2 \in 0..n /\ t[i] \in Nibbles /\ t[i + 1] \in Nibbles BY <1>1, HexValueLemma
    <2>2. i + 1 \in 0..n /\ i + 2 <= n BY <1>0, <2>1
    <2>3. t[i] \in Nat /\ t[i + 1] \in Nat BY <2>2, InText
    <2> QED BY <2>1, <2>2, <2>3, NibbleLemma, CharLemma
  <1>2. ASSUME i + 2 <= n, IsNib(t[i]), IsNib(t[i + 1]) PROVE HexDigits(t, i, 2)
    <2>1. i + 1 \in 0..n BY <1>0, <1>2
    <2>2. t[i] \in Nat /\ t[i + 1] \in Nat /\ DOMAIN t = 0..n BY <2>1, InText
    <2>3. t[i] \in Nibbles /\ t[i + 1] \in Nibbles BY <1>2, <2>2, NibbleLemma
    <2>4. ASSUME NEW k \in i..(i + 2 - 1) PROVE k \in DOMAIN t /\ t[k] \in Nibbles
      <3>1. k = i \/ k = i + 1 BY <1>0
      <3> QED BY <2>1, <2>2, <2>3, <3>1
    <2> QED BY <2>4 DEF HexDigits
  <1> QED BY <1>1, <1>2

LEMMA HexStepRight == ASSUME IInv, Right, Kept, HexStep PROVE Right'
  <1>0. pc = "hex" /\ UNCHANGED <<orig, len>> /\ TypeOK BY DEF HexStep, IInv
  <1>1. /\ len \in Nat /\ base \in Nat /\ Cursor \in Nat /\ wr \in Nat /\ rd \in Nat
        /\ base <= Cursor /\ Cursor <= wr /\ wr <= rd /\ rd <= len /\ rd \in 0..len /\ wr <= len
        /\ rd = Cursor + 2 * (wr - Cursor) /\ Frontier = rd
    BY <1>0, CodecBounds
  <1>2. ASSUME ~dirty
        PROVE  /\ op = "hex" /\ src = Cursor /\ Shows(mem, rd)
               /\ Continues(Chain(HexUnits(Text)), src, Bytes(mem, src, wr), rd)
    BY <1>0, <1>1, <1>2, UnreadShows DEF Right, InLoop
  <1>3. IsText(Text, len) /\ IsUnits(HexUnits(Text), len) BY TextUnits
  <1>4. ~dirty => Bytes(mem, src, wr) \in Seq(Byte) BY <1>0, <1>1, <1>2, BufferSpan
  <1>5. ASSUME ~dirty, rd < len PROVE Text[rd] = mem[rd]
    <2>1. rd \in Pos /\ rd >= rd BY <1>1, <1>5 DEF Pos
    <2> QED BY <1>2, <1>5, <2>1 DEF Shows
  <1>6. ASSUME ~dirty, rd + 2 <= len PROVE Text[rd + 1] = mem[rd + 1]
    <2>1. rd + 1 \in Pos /\ rd + 1 >= rd BY <1>1, <1>6 DEF Pos
    <2> QED BY <1>2, <1>6, <2>1 DEF Shows
  \* A pair.
  <1>7. CASE /\ rd + 2 <= len /\ IsNib(mem[rd]) /\ IsNib(mem[rd + 1])
             /\ mem' = WriteAt(mem, wr, <<HexPair(mem[rd], mem[rd + 1])>>)
             /\ wr' = wr + 1 /\ rd' = rd + 2
             /\ UNCHANGED <<cursor, call, pc, seg, borrowed, err, dirty>>
    <2> DEFINE b == <<HexPair(mem[rd], mem[rd + 1])>>
               r2 == rd + 2
               w1 == wr + 1
    <2>0. rd < len /\ r2 \in Nat BY <1>1, <1>7
    <2>1. HexPair(mem[rd], mem[rd + 1]) \in Byte BY <1>7, HexPairLemma DEF Byte
    <2>2. b \in Seq(Byte) /\ Len(b) = 1 /\ w1 = wr + Len(b) /\ w1 <= len BY <1>1, <1>7, <2>1
    <2>3. Cursor' = Cursor /\ src' = src /\ op' = op /\ pc' = "hex"
      BY <1>0, <1>7 DEF cursor, call, Cursor
    <2>4. mem' = WriteAt(mem, wr, b) /\ wr' = w1 /\ rd' = r2 BY <1>7
    <2>5. ASSUME ~dirty PROVE HexUnits(Text)[rd] = More(b, r2)
      <3>1. Text[rd] = mem[rd] /\ Text[rd + 1] = mem[rd + 1] BY <1>5, <1>6, <1>7, <2>0, <2>5
      <3>2. HexDigits(Text, rd, 2) /\ Text[rd] /= QU BY <1>1, <1>3, <1>7, <3>1, HexTwo
      <3>3. HexValue(Text, rd) = HexPair(mem[rd], mem[rd + 1])
        BY <1>1, <1>3, <3>1, <3>2, HexValueLemma
      <3>4. HexUnits(Text)[rd] = More(<<HexValue(Text, rd)>>, rd + 2)
        BY <1>1, <1>3, <3>2, HexUnitsLemma
      <3> QED BY <3>3, <3>4
    <2> HIDE DEF b, r2, w1
    <2>6. ASSUME ~dirty PROVE InLoop'
      <3>1. Continues(Chain(HexUnits(Text)), src, Join(Bytes(mem, src, wr), b), r2)
        BY <1>1, <1>2, <1>3, <1>4, <2>0, <2>2, <2>5, <2>6, ContinuesLemma
      <3>2. Follows(mem, mem', src, wr, b, w1)
        <4>1. mem \in [Pos -> Byte] /\ src \in Nat /\ src <= wr BY <1>0, <1>1, <1>2, <2>6 DEF TypeOK
        <4> QED BY <1>1, <2>2, <2>4, <4>1, WriteFollows
      <3>3. Bytes(mem', src, w1) = Join(Bytes(mem, src, wr), b) BY <3>2, PieceThen
      <3>4. Text' = Text BY <1>0, TextSame
      <3>5. Continues(Chain(HexUnits(Text)), src, Bytes(mem, src, wr), rd)'
        BY <2>3, <2>4, <3>1, <3>3, <3>4, Zenon
      <3> QED BY <1>2, <2>3, <2>6, <3>5 DEF InLoop
    <2>7. UNCHANGED <<borrowed, dirty, orig, len>> /\ pc' \in Labels
      BY <1>0, <1>7, <2>3 DEF Labels
    <2> QED BY <2>6, <2>7, StayRight
  \* The quote.
  <1>8. CASE rd < len /\ mem[rd] = QU /\ HexQuote /\ UNCHANGED mem
    <2> DEFINE n == wr - Cursor
               k == n + 1
               e == rd + 1
    <2>1. n \in Nat /\ Cursor + n + k = e /\ Cursor + n = wr /\ e \in Nat BY <1>1
    <2>2. SplitInput(op, src, Cursor, n, k) BY <1>8 DEF HexQuote
    <2>3. ~dirty => HexUnits(Text)[rd] = Last(<<>>, e) BY <1>1, <1>3, <1>5, <1>8, HexUnitsLemma
    <2>4. mem' = mem BY <1>8
    <2> HIDE DEF n, k, e
    <2>5. ASSUME ~dirty PROVE Denotes(op, src, Bytes(mem', Cursor, Cursor + n), Cursor + n + k)
      <3> DEFINE B == Bytes(mem, src, wr)
      <3>1. Ends(Chain(HexUnits(Text)), src, B, e)
        BY <1>1, <1>2, <1>3, <1>4, <2>1, <2>3, <2>5, ContinuesLast
      <3>3. Reference(Text, op, src) = Chain(HexUnits(Text))[src] BY <1>2, <2>5 DEF Reference
      <3>4. Bytes(mem', Cursor, Cursor + n) = B /\ Cursor + n + k = e BY <1>2, <2>1, <2>4, <2>5
      <3> QED BY <3>1, <3>3, <3>4, Zenon DEF Denotes, Ends
    <2> QED BY <1>0, <1>1, <2>1, <2>2, <2>5, SplitRight
  <1>9. ASSUME NEW x, Fail(x), ~dirty => HexUnits(Text)[rd] = Bad PROVE Right'
    <2>1. ASSUME ~dirty PROVE NoValue(op, src)
      <3>1. ~Chain(HexUnits(Text))[src].ok
        BY <1>1, <1>2, <1>3, <1>4, <1>9, <2>1, ContinuesBad
      <3>2. Reference(Text, op, src) = Chain(HexUnits(Text))[src] BY <1>2, <2>1 DEF Reference
      <3> QED BY <3>1, <3>2 DEF NoValue
    <2> QED BY <1>0, <1>9, <2>1, FailRight
  <1>10. CASE HexPairStep
    <2>1. CASE mem[rd] = QU /\ HexQuote /\ UNCHANGED mem
      BY <1>1, <1>8, <1>10, <2>1 DEF HexPairStep
    <2>2. CASE /\ mem[rd] /= QU /\ ~(IsNib(mem[rd]) /\ IsNib(mem[rd + 1]))
               /\ Fail("UnexpectedChar") /\ UNCHANGED <<mem, cursor>>
      <3>1. rd + 2 <= len /\ rd < len BY <1>1, <1>10 DEF HexPairStep
      <3>2. ASSUME ~dirty PROVE HexUnits(Text)[rd] = Bad
        <4>1. Text[rd] = mem[rd] /\ Text[rd + 1] = mem[rd + 1] BY <1>5, <1>6, <3>1, <3>2
        <4>2. ~HexDigits(Text, rd, 2) /\ Text[rd] /= QU BY <1>1, <1>3, <2>2, <4>1, HexTwo
        <4> QED BY <1>1, <1>3, <4>2, HexUnitsLemma
      <3> QED BY <1>9, <2>2, <3>2
    <2> QED BY <1>7, <1>10, <2>1, <2>2 DEF HexPairStep
  <1>11. CASE HexRemainder
    <2>1. CASE rd + 1 = len /\ mem[rd] = QU /\ HexQuote /\ UNCHANGED mem
      BY <1>1, <1>8, <2>1
    <2>2. CASE ~(rd + 1 = len /\ mem[rd] = QU) /\ Fail("UnexpectedEof") /\ UNCHANGED <<mem, cursor>>
      <3>1. ~(rd + 2 <= len) /\ (rd = len \/ rd + 1 = len) BY <1>1, <1>11 DEF HexRemainder
      <3>2. ASSUME ~dirty PROVE HexUnits(Text)[rd] = Bad
        <4>1. Text[rd] /= QU
          <5>1. CASE rd = len BY <1>3, <5>1, CharLemma DEF IsText
          <5>2. CASE rd + 1 = len BY <1>1, <1>5, <2>2, <3>2, <5>2
          <5> QED BY <3>1, <5>1, <5>2
        <4>2. ~HexDigits(Text, rd, 2) BY <1>1, <1>3, <3>1, HexTwo
        <4> QED BY <1>1, <1>3, <4>1, <4>2, HexUnitsLemma
      <3> QED BY <1>9, <2>2, <3>2
    <2> QED BY <1>11, <2>1, <2>2 DEF HexRemainder
  <1> QED BY <1>0, <1>10, <1>11 DEF HexStep

-----------------------------------------------------------------------------
(* eat_str_content, again *)

\* What an ignored string is at i, and at the next unit.
LEMMA SkipAt ==
  ASSUME NEW n, NEW t, IsText(t, n), NEW i \in 0..n
  PROVE  /\ Chain(SkipUnits(t))[i] \in Results
         /\ t[i] = QU => Ends(Chain(SkipUnits(t)), i, <<>>, i + 1)
         /\ t[i] = RS => i + 1 \in 0..n
         /\ t[i] = RS /\ t[i + 1] \notin Control \cup {Eof}
              => i + 2 \in 0..n /\ Chain(SkipUnits(t))[i] = Chain(SkipUnits(t))[i + 2]
         /\ t[i] = RS /\ t[i + 1] \in Control \cup {Eof} => ~Chain(SkipUnits(t))[i].ok
         /\ t[i] \in Control \cup {Eof} => ~Chain(SkipUnits(t))[i].ok
         /\ t[i] \notin Control \cup {QU, RS, Eof}
              => i + 1 \in 0..n /\ Chain(SkipUnits(t))[i] = Chain(SkipUnits(t))[i + 1]
  <1> DEFINE u == SkipUnits(t)
             K == Chain(u)
  <1>0. n \in Nat /\ i \in Nat /\ t[i] \in Nat BY InText
  <1>1. /\ IsUnits(u, n)
        /\ t[i] = QU => u[i] = Last(<<>>, i + 1)
        /\ t[i] = RS /\ t[i + 1] \notin Control \cup {Eof} => u[i] = More(<<>>, i + 2) /\ i + 2 \in 0..n
        /\ t[i] = RS /\ t[i + 1] \in Control \cup {Eof} => u[i] = Bad
        /\ t[i] \in Control \cup {Eof} => u[i] = Bad
        /\ t[i] \notin Control \cup {QU, RS, Eof} => u[i] = More(<<>>, i + 1)
    BY SkipUnitsLemma
  <1> HIDE DEF u
  <1>2. Continues(K, i, <<>>, i) BY <1>0, <1>1, ContinuesFrom
  <1>3. \A x \in 0..n : K[x] \in Results BY <1>0, <1>1, ChainLemma
  <1>4. PICK b : b = <<>> /\ b \in Seq(Byte)
    <2>1. <<>> \in Seq(Byte) OBVIOUS
    <2> QED BY <2>1
  <1>5. \A x \in 0..n : Continues(K, i, Join(b, b), x) => K[i] = K[x]
    <2>1. Join(b, b) = b BY <1>4, JoinEmpty
    <2>2. \A x \in 0..n : Before(b, K[x]) = K[x] BY <1>3, <1>4, BeforeLemma
    <2> QED BY <2>1, <2>2, Zenon DEF Continues
  <1>6. ASSUME NEW k \in Nat, u[i] = More(b, k) PROVE k \in 0..n /\ K[i] = K[k]
    <2>1. Continues(K, i, b, i) BY <1>2, <1>4
    <2>2. Continues(K, i, Join(b, b), k) /\ k \in 0..n
      BY <1>0, <1>1, <1>4, <1>6, <2>1, ContinuesLemma
    <2> QED BY <1>5, <2>2
  <1>7. u[i] = Bad => ~K[i].ok
    <2>1. Continues(K, i, b, i) BY <1>2, <1>4
    <2> QED BY <1>0, <1>1, <1>4, <2>1, ContinuesBad
  <1>8. ASSUME NEW k \in Nat, u[i] = Last(<<>>, k) PROVE Ends(K, i, <<>>, k)
    <2>1. Continues(K, i, b, i) BY <1>2, <1>4
    <2>2. Ends(K, i, b, k) BY <1>0, <1>1, <1>4, <1>8, <2>1, ContinuesLast
    <2> QED BY <1>4, <2>2, Zenon
  <1> HIDE DEF K
  <1>9. t[i] = QU => Ends(K, i, <<>>, i + 1) BY <1>0, <1>1, <1>8
  <1>10. t[i] = RS => i + 1 \in 0..n BY InText, CharLemma
  <1>11. t[i] = RS /\ t[i + 1] \notin Control \cup {Eof} => i + 2 \in 0..n /\ K[i] = K[i + 2]
    BY <1>0, <1>1, <1>4, <1>6
  <1>12. t[i] \notin Control \cup {QU, RS, Eof} => i + 1 \in 0..n /\ K[i] = K[i + 1]
    BY <1>0, <1>1, <1>4, <1>6
  <1> QED BY <1>1, <1>3, <1>7, <1>9, <1>10, <1>11, <1>12 DEF K, u

\* c backslashes before b, counted back to a.
Trail(t, a, b, c) ==
  /\ c \in 0..(b - a) /\ \A j \in 1..c : t[b - j] = RS
  /\ c = b - a \/ t[b - c - 1] /= RS

\* The parity of the backslashes before b decides whether b is looked at or is
\* the character of an escape.
SkipRight(t, a, b, c) ==
  LET K == Chain(SkipUnits(t)) IN
  /\ c % 2 = 0 => K[a] = K[b]
  /\ c % 2 = 1 => IF t[b] \in Control \cup {Eof} THEN ~K[a].ok ELSE K[a] = K[b + 1] /\ b + 1 \in 0..len

LEMMA SkipRun ==
  ASSUME NEW t, IsText(t, len), NEW a \in 0..len, NEW b \in 0..len, a <= b,
         \A k \in a..(b - 1) : t[k] \notin Control \cup {QU, Eof}, NEW d, Trail(t, a, b, d)
  PROVE  SkipRight(t, a, b, d)
  <1> DEFINE K == Chain(SkipUnits(t))
             Good(i) == \A c : Trail(t, i, b, c) => SkipRight(t, i, b, c)
             T == {k \in 0..(b - a) : ~Good(b - k)}
  <1>0. len \in Nat /\ a \in Nat /\ b \in Nat BY DEF IsText
  <1>1. Good(b)
    <2>1. ASSUME NEW c, Trail(t, b, b, c) PROVE SkipRight(t, b, b, c)
      <3>1. c = 0 BY <1>0, <2>1 DEF Trail
      <3> QED BY <3>1 DEF SkipRight
    <2> QED BY <2>1
  <1>2. ASSUME NEW i \in a..(b - 1), \A k \in (i + 1)..b : Good(k) PROVE Good(i)
    <2>0. i \in Nat /\ i \in 0..len /\ i + 1 \in (i + 1)..b /\ i < b BY <1>0
    <2>1. t[i] \notin Control \cup {QU, Eof} OBVIOUS
    <2> SUFFICES ASSUME NEW c, Trail(t, i, b, c) PROVE SkipRight(t, i, b, c) OBVIOUS
    <2>2. c \in Nat /\ c <= b - i /\ (\A j \in 1..c : t[b - j] = RS)
          /\ (c = b - i \/ t[b - c - 1] /= RS)
      BY <2>0, <1>0 DEF Trail
    <2>3. CASE t[i] /= RS
      <3>1. K[i] = K[i + 1] BY <2>0, <2>1, <2>3, SkipAt
      <3>2. c /= b - i
        <4>1. c = b - i => c \in 1..c /\ b - c = i BY <1>0, <2>0
        <4> QED BY <2>2, <2>3, <4>1
      <3>3. Trail(t, i + 1, b, c) BY <1>0, <2>0, <2>2, <3>2 DEF Trail
      <3>4. SkipRight(t, i + 1, b, c) BY <1>2, <2>0, <3>3
      <3> QED BY <3>1, <3>4 DEF SkipRight
    <2>4. CASE t[i] = RS /\ i + 1 = b
      <3>1. c = 1
        <4>1. b - i = 1 /\ b - 0 - 1 = i BY <1>0, <2>0, <2>4
        <4> QED BY <2>2, <2>4, <4>1
      <3>2. b + 1 = i + 2 /\ 1 % 2 = 1 BY <2>0, <2>4
      <3>3. /\ t[b] \notin Control \cup {Eof} => b + 1 \in 0..len /\ K[i] = K[b + 1]
            /\ t[b] \in Control \cup {Eof} => ~K[i].ok
        <4>1. /\ t[i + 1] \notin Control \cup {Eof} => i + 2 \in 0..len /\ K[i] = K[i + 2]
              /\ t[i + 1] \in Control \cup {Eof} => ~K[i].ok
          BY <2>0, <2>4, SkipAt
        <4> QED BY <2>4, <3>2, <4>1
      <3> HIDE DEF K
      <3>4. c % 2 = 1 /\ c % 2 /= 0 BY <3>1
      <3> QED BY <3>3, <3>4 DEF SkipRight, K
    <2>5. CASE t[i] = RS /\ i + 1 /= b
      <3>1. i + 1 \in a..(b - 1) /\ i + 2 \in (i + 1)..b /\ i + 2 <= b BY <1>0, <2>0, <2>5
      <3>2. t[i + 1] \notin Control \cup {Eof} BY <3>1
      <3>3. K[i] = K[i + 2] BY <2>0, <2>5, <3>2, SkipAt
      <3>4. Good(i + 2) BY <1>2, <3>1
      <3>5. CASE c = b - i
        <4> DEFINE e == c - 2
        <4>1. e \in 0..(b - (i + 2)) /\ e = b - (i + 2) BY <1>0, <2>0, <3>1, <3>5
        <4>2. \A j \in 1..e : j \in 1..c BY <1>0, <2>0, <3>1, <3>5
        <4>3. Trail(t, i + 2, b, e) BY <2>2, <4>1, <4>2 DEF Trail
        <4>4. e % 2 = c % 2 BY <2>2, <4>1, <1>0, <2>0, <3>5
        <4> HIDE DEF e
        <4>5. SkipRight(t, i + 2, b, e) BY <3>4, <4>3
        <4> QED BY <3>3, <4>4, <4>5 DEF SkipRight
      <3>6. CASE c /= b - i
        <4>1. c /= b - i - 1
          <5>1. c = b - i - 1 => b - c - 1 = i BY <1>0, <2>0
          <5> QED BY <2>2, <2>5, <3>6, <5>1
        <4>2. c \in 0..(b - (i + 2)) BY <1>0, <2>0, <2>2, <3>6, <4>1
        <4>3. Trail(t, i + 2, b, c) BY <2>2, <3>6, <4>2 DEF Trail
        <4>4. SkipRight(t, i + 2, b, c) BY <3>4, <4>3
        <4> QED BY <3>3, <4>4 DEF SkipRight
      <3> QED BY <3>5, <3>6
    <2> QED BY <2>3, <2>4, <2>5
  <1> HIDE DEF Good, K
  <1>3. T = {}
    <2> SUFFICES ASSUME T /= {} PROVE FALSE OBVIOUS
    <2>1. PICK m \in T : \A k \in T : m <= k
      <3>1. T \in SUBSET Nat OBVIOUS
      <3> HIDE DEF T
      <3> QED BY <3>1, LeastNat
    <2>2. m \in 0..(b - a) /\ ~Good(b - m) BY <2>1
    <2>3. m /= 0
      <3>1. b - 0 = b BY <1>0
      <3> QED BY <2>2, <3>1, <1>1
    <2>4. b - m \in a..(b - 1) BY <1>0, <2>2, <2>3
    <2>5. ASSUME NEW k \in ((b - m) + 1)..b PROVE Good(k)
      <3>1. b - k \in 0..(b - a) /\ ~(m <= b - k) /\ b - (b - k) = k BY <1>0, <2>2, <2>3
      <3>2. b - k \notin T BY <2>1, <3>1
      <3> QED BY <3>1, <3>2
    <2> QED BY <1>2, <2>2, <2>4, <2>5
  <1>4. Good(a)
    <2>1. b - a \in 0..(b - a) /\ b - (b - a) = a BY <1>0
    <2>2. ~(~Good(b - (b - a))) BY <1>3, <2>1
    <2> QED BY <2>1, <2>2
  <1> QED BY <1>4 DEF Good

LEMMA TrailExists ==
  ASSUME NEW t, NEW a \in Nat, NEW b \in Nat, a <= b
  PROVE  \E c : Trail(t, a, b, c)
  <1> DEFINE All(c) == \A j \in 1..c : t[b - j] = RS
             T == {c \in 0..(b - a) : ~All(c)}
  <1>1. CASE T = {}
    <2>1. b - a \in 0..(b - a) OBVIOUS
    <2>2. All(b - a) BY <1>1, <2>1
    <2> QED BY <2>1, <2>2 DEF Trail
  <1>2. CASE T /= {}
    <2>1. PICK m \in T : \A k \in T : m <= k
      <3>1. T \in SUBSET Nat OBVIOUS
      <3> HIDE DEF T
      <3> QED BY <1>2, <3>1, LeastNat
    <2>2. m \in 0..(b - a) /\ ~All(m) BY <2>1
    <2>3. m /= 0 BY <2>2
    <2> DEFINE c == m - 1
    <2>4. c \in 0..(b - a) /\ ~(m <= c) /\ b - c - 1 = b - m /\ c + 1 = m BY <2>2, <2>3
    <2>5. All(c) BY <2>1, <2>4
    <2>6. t[b - m] /= RS
      <3>1. PICK j \in 1..m : t[b - j] /= RS BY <2>2
      <3>2. j = m
        <4>1. j /= m => j \in 1..c BY <2>2, <2>4
        <4> QED BY <2>5, <3>1, <4>1
      <3> QED BY <3>1, <3>2
    <2> HIDE DEF c
    <2> QED BY <2>4, <2>5, <2>6 DEF Trail
  <1> QED BY <1>1, <1>2

\* What a string is at i.
LEMMA StringAt ==
  ASSUME NEW n, NEW t, IsText(t, n), NEW i \in 0..n
  PROVE  /\ Chain(StringUnits(t))[i] \in Results
         /\ t[i] = QU => Ends(Chain(StringUnits(t)), i, <<>>, i + 1)
         /\ StringUnits(t)[i] = Bad => ~Chain(StringUnits(t))[i].ok
         /\ \A b \in Seq(Byte) : \A k \in Nat : StringUnits(t)[i] = More(b, k) =>
              /\ k \in 0..n /\ i < k
              /\ Chain(StringUnits(t))[i].ok =>
                   /\ Chain(StringUnits(t))[k].ok
                   /\ Chain(StringUnits(t))[k].end = Chain(StringUnits(t))[i].end
  <1> DEFINE u == StringUnits(t)
             S == Chain(u)
  <1>0. n \in Nat /\ i \in Nat /\ t[i] \in Nat BY InText
  <1>1. IsUnits(u, n) /\ (t[i] = QU => u[i] = Last(<<>>, i + 1)) BY StringUnitsLemma
  <1> HIDE DEF u
  <1>2. Continues(S, i, <<>>, i) BY <1>0, <1>1, ContinuesFrom
  <1>3. \A x \in 0..n : S[x] \in Results BY <1>0, <1>1, ChainLemma
  <1>4. PICK e : e = <<>> /\ e \in Seq(Byte)
    <2>1. <<>> \in Seq(Byte) OBVIOUS
    <2> QED BY <2>1
  <1>5. Continues(S, i, e, i) BY <1>2, <1>4
  <1>6. u[i] = Bad => ~S[i].ok BY <1>0, <1>1, <1>4, <1>5, ContinuesBad
  <1>7. ASSUME t[i] = QU PROVE Ends(S, i, <<>>, i + 1)
    <2>1. i + 1 \in Nat /\ u[i] = Last(<<>>, i + 1) BY <1>0, <1>1, <1>7
    <2>2. Ends(S, i, e, i + 1) BY <1>0, <1>1, <1>4, <1>5, <2>1, ContinuesLast
    <2> QED BY <1>4, <2>2, Zenon
  <1>8. ASSUME NEW b \in Seq(Byte), NEW k \in Nat, u[i] = More(b, k)
        PROVE  k \in 0..n /\ i < k /\ (S[i].ok => S[k].ok /\ S[k].end = S[i].end)
    <2>1. u[i].kind = "more" /\ u[i].bytes = b /\ u[i].next = k BY <1>8, MoreLemma
    <2>2. i < k /\ k <= n BY <1>1, <2>1 DEF IsUnits
    <2>3. S[i] = Before(b, S[k]) BY <1>0, <1>1, <2>1, ChainLemma
    <2>4. k \in 0..n BY <2>2
    <2>5. S[k] \in Results BY <1>3, <2>4
    <2> HIDE DEF S
    <2>6. Before(b, S[k]).ok = S[k].ok /\ Before(b, S[k]).end = S[k].end BY <2>5, BeforeLemma
    <2> QED BY <2>2, <2>3, <2>4, <2>6
  <1> HIDE DEF S
  <1> QED BY <1>3, <1>6, <1>7, <1>8 DEF S, u

LEMMA DigitAtLemma ==
  ASSUME NEW n, NEW t, IsText(t, n), NEW i, NEW k \in Nat, HexDigits(t, i, k), NEW j \in i..(i + k - 1)
  PROVE  j \in 0..n /\ t[j] \notin Control \cup {QU, RS, Eof}
  <1>1. j \in DOMAIN t /\ t[j] \in Nibbles BY DEF HexDigits
  <1> QED BY <1>1, CharLemma DEF IsText

\* A string that denotes something ends where it ends when it is ignored.
LEMMA StringSkip ==
  ASSUME NEW n, NEW t, IsText(t, n), NEW a \in 0..n, Chain(StringUnits(t))[a].ok
  PROVE  Chain(SkipUnits(t))[a].ok /\ Chain(SkipUnits(t))[a].end = Chain(StringUnits(t))[a].end
  <1> DEFINE S == Chain(StringUnits(t))
             K == Chain(SkipUnits(t))
             Same(i, k) == S[i].ok => S[k].ok /\ S[k].end = S[i].end
             Good(i) == S[i].ok => K[i].ok /\ K[i].end = S[i].end
             T == {i \in 0..n : ~Good(i)}
  <1>0. n \in Nat BY DEF IsText
  <1>1. ASSUME NEW i \in 0..n, NEW k \in 0..n, K[i] = K[k], Same(i, k), Good(k) PROVE Good(i)
    BY <1>1
  <1>2. ASSUME NEW i \in 0..n, \A k \in 0..n : i < k => Good(k) PROVE Good(i)
    <2>0. i \in Nat /\ t[i] \in Nat BY InText
    <2>1. CASE t[i] = QU
      <3>1. Ends(S, i, <<>>, i + 1) BY <2>1, StringAt
      <3>2. Ends(K, i, <<>>, i + 1) BY <2>1, SkipAt
      <3> HIDE DEF S, K
      <3> QED BY <3>1, <3>2 DEF Ends
    <2>2. CASE t[i] \in Control \cup {Eof}
      <3>1. StringUnits(t)[i] = Bad BY <2>2, StringUnitsLemma
      <3>2. ~S[i].ok BY <3>1, StringAt
      <3> QED BY <3>2
    <2>3. CASE t[i] \notin Control \cup {QU, RS, Eof}
      <3> DEFINE k == i + 1
      <3>1. t[i] \in Byte /\ <<t[i]>> \in Seq(Byte) BY <2>3, InText
      <3>2. StringUnits(t)[i] = More(<<t[i]>>, k) BY <2>3, StringUnitsLemma
      <3>3. k \in 0..n /\ K[i] = K[k] BY <2>3, SkipAt
      <3>4. k \in Nat /\ i < k BY <2>0
      <3> HIDE DEF k
      <3>5. Same(i, k) BY <3>1, <3>2, <3>4, StringAt
      <3> QED BY <1>1, <1>2, <3>3, <3>4, <3>5
    <2>4. CASE t[i] = RS
      <3>0. StringUnits(t)[i] = EscapeUnit(t, i) /\ i + 1 \in 0..n
        BY <2>4, StringUnitsLemma, SkipAt
      <3>1. CASE t[i + 1] \in DOMAIN EscapeOf
        <4> DEFINE k == i + 2
                   b == <<EscapeOf[t[i + 1]]>>
        <4>1. StringUnits(t)[i] = More(b, k)
          <5>1. t[i + 1] /= UU BY <3>1, EscapeLemma
          <5> QED BY <3>0, <3>1, <5>1 DEF EscapeUnit
        <4>2. EscapeOf[t[i + 1]] \in Byte BY <3>1, EscapeLemma
        <4>3. b \in Seq(Byte) /\ k \in Nat /\ i < k BY <2>0, <4>2
        <4>4. t[i + 1] \notin Control \cup {Eof} BY <3>1, CharLemma
        <4>5. k \in 0..n /\ K[i] = K[k] BY <2>4, <4>4, SkipAt
        <4> HIDE DEF k, b
        <4>6. Same(i, k) BY <4>1, <4>3, StringAt
        <4> QED BY <1>1, <1>2, <4>3, <4>5, <4>6
      <3>2. CASE /\ t[i + 1] \notin DOMAIN EscapeOf
                 /\ t[i + 1] = UU /\ HexDigits(t, i + 2, 4) /\ CodePoint(t, i + 2) \notin Surrogate
        <4> DEFINE k == i + 6
                   b == Utf8(CodePoint(t, i + 2))
        <4>1. StringUnits(t)[i] = More(b, k) BY <3>0, <3>2 DEF EscapeUnit
        <4>2. t[i + 1] \notin Control \cup {Eof} BY <3>2, CharLemma
        <4>3. i + 2 \in 0..n /\ K[i] = K[i + 2] BY <2>4, <4>2, SkipAt
        <4>4. b \in Seq(Byte) /\ k \in Nat /\ i < k BY <2>0, <3>2, <4>3, CodePointLemma
        <4>5. \A j \in (i + 2)..(i + 5) : j \in 0..n /\ t[j] \notin Control \cup {QU, RS, Eof}
          <5>1. i + 2 + 4 - 1 = i + 5 /\ 4 \in Nat BY <2>0
          <5> QED BY <3>2, <5>1, DigitAtLemma
        <4>6. \A j \in (i + 2)..(i + 5) : j + 1 \in 0..n /\ K[j] = K[j + 1]
          BY <4>5, SkipAt
        <4> HIDE DEF K
        <4>7. K[i + 2] = K[i + 3] /\ K[i + 3] = K[i + 4] /\ K[i + 4] = K[i + 5]
              /\ K[i + 5] = K[k] /\ k \in 0..n
          BY <2>0, <4>6
        <4>8. K[i] = K[k] BY <4>3, <4>7
        <4> HIDE DEF k, b
        <4>9. Same(i, k) BY <4>1, <4>4, StringAt
        <4> QED BY <1>1, <1>2, <4>4, <4>7, <4>8, <4>9
      <3>3. CASE /\ t[i + 1] \notin DOMAIN EscapeOf
                 /\ ~(t[i + 1] = UU /\ HexDigits(t, i + 2, 4) /\ CodePoint(t, i + 2) \notin Surrogate)
        <4>1. StringUnits(t)[i] = Bad BY <3>0, <3>3 DEF EscapeUnit
        <4>2. ~S[i].ok BY <4>1, StringAt
        <4> QED BY <4>2
      <3> QED BY <3>1, <3>2, <3>3
    <2> QED BY <2>1, <2>2, <2>3, <2>4
  <1> HIDE DEF Good
  <1>3. T = {}
    <2> SUFFICES ASSUME T /= {} PROVE FALSE OBVIOUS
    <2>1. PICK m \in T : \A k \in T : k <= m
      <3>1. T \in SUBSET (0..n) OBVIOUS
      <3> HIDE DEF T
      <3> QED BY <1>0, <3>1, LastPosition
    <2>2. m \in 0..n /\ ~Good(m) BY <2>1
    <2>3. \A k \in 0..n : m < k => Good(k) BY <1>0, <2>1, <2>2
    <2> QED BY <1>2, <2>2, <2>3
  <1>4. Good(a) BY <1>3
  <1> QED BY <1>4 DEF Good

LEMMA SkipStepRight == ASSUME IInv, Right, Kept, SkipStep PROVE Right'
  <1>0. pc = "skip" /\ UNCHANGED <<orig, len>> /\ TypeOK BY DEF SkipStep, IInv
  <1>1. /\ len \in Nat /\ rd \in Nat /\ rd \in 0..len /\ src \in 0..len /\ base \in Nat
        /\ Frontier = rd
    BY <1>0 DEF IInv, TypeOK, LoopOK, Frontier
  <1> DEFINE K == Chain(SkipUnits(Text))
  <1>2. ASSUME ~dirty PROVE op = "skip" /\ Shows(mem, rd) /\ K[src] = K[rd]
    <2>1. Shows(mem, rd) BY <1>0, <1>1, <1>2, UnreadShows
    <2> QED BY <1>0, <1>2, <2>1 DEF Right, InLoop
  <1>3. PICK end \in Scan(mem, Control \cup {QU}, rd) :
       \/ end = len /\ Fail("UnexpectedEof")
       \/ /\ end < len /\ mem[end] = QU
          /\ \E n \in Backslashes(mem, rd, end) :
               IF n % 2 = 0
               THEN Ate(op, src, end + 1)
               ELSE rd' = end + 1
                    /\ UNCHANGED <<mem, cursor, call, pc, seg, wr, borrowed, err, dirty>>
       \/ end < len /\ mem[end] \in Control /\ Fail("StringControlChar")
    BY DEF SkipStep, NextStart
  <1>4. IsText(Text, len) BY TextUnits
  <1>5. end \in 0..len /\ rd <= end /\ end \in Nat BY <1>1, ScanLemma
  <1>6. ASSUME ~dirty
        PROVE  /\ end = len => Text[end] = Eof
               /\ end < len => Text[end] = mem[end]
               /\ \A k \in rd..(end - 1) : Text[k] \notin Control \cup {QU, Eof} /\ Text[k] = mem[k]
    <2>1. /\ end = len => Text[end] = Eof
          /\ end < len => Text[end] = mem[end]
          /\ \A k \in rd..(end - 1) : /\ Text[k] \notin Control \cup {QU}
                                      /\ Text[k] = mem[k] /\ Text[k] \in Byte
      BY <1>0, <1>1, <1>2, <1>6, ScanText
    <2> QED BY <2>1, CharLemma
  \* No string.
  <1>7. ASSUME NEW e, Fail(e), ~dirty => Text[end] \in Control \cup {Eof} PROVE Right'
    <2>1. ASSUME ~dirty PROVE NoValue(op, src)
      <3>1. PICK c : Trail(Text, rd, end, c) BY <1>1, <1>5, TrailExists
      <3>2. SkipRight(Text, rd, end, c) BY <1>1, <1>4, <1>5, <1>6, <2>1, <3>1, SkipRun
      <3>3. ~K[end].ok BY <1>4, <1>5, <1>7, <2>1, SkipAt
      <3>4. c \in Nat BY <3>1, <1>1, <1>5 DEF Trail
      <3>5. c % 2 = 0 \/ c % 2 = 1 BY <3>4
      <3>6. ~K[rd].ok BY <1>7, <2>1, <3>2, <3>3, <3>5 DEF SkipRight
      <3>7. Reference(Text, op, src) = K[src] BY <1>2, <2>1 DEF Reference
      <3> QED BY <1>2, <2>1, <3>6, <3>7 DEF NoValue
    <2> QED BY <1>0, <1>7, <2>1, FailRight
  \* A quote.
  <1>8. ASSUME end < len, mem[end] = QU, NEW n \in Backslashes(mem, rd, end), ~dirty
        PROVE  SkipRight(Text, rd, end, n) /\ n \in Nat /\ Ends(K, end, <<>>, end + 1)
               /\ Text[end] \notin Control \cup {Eof}
    <2>1. /\ n \in 0..(end - rd) /\ (\A j \in 1..n : mem[end - j] = RS)
          /\ (n = end - rd \/ mem[end - n - 1] /= RS)
      BY DEF Backslashes
    <2>2. \A j \in 1..n : end - j \in rd..(end - 1) BY <1>1, <1>5, <2>1
    <2>3. n /= end - rd => end - n - 1 \in rd..(end - 1) BY <1>1, <1>5, <2>1
    <2>4. \A j \in 1..n : Text[end - j] = RS BY <1>6, <1>8, <2>1, <2>2
    <2>5. n = end - rd \/ Text[end - n - 1] /= RS BY <1>6, <1>8, <2>1, <2>3
    <2>6. Trail(Text, rd, end, n) BY <2>1, <2>4, <2>5 DEF Trail
    <2>7. SkipRight(Text, rd, end, n) BY <1>1, <1>4, <1>5, <1>6, <1>8, <2>6, SkipRun
    <2>8. Text[end] = QU BY <1>6, <1>8
    <2>9. Ends(K, end, <<>>, end + 1) BY <1>4, <1>5, <2>8, SkipAt
    <2> QED BY <1>1, <1>5, <2>1, <2>7, <2>8, <2>9, CharLemma
  <1> HIDE DEF K
  <1>9. ASSUME end < len, mem[end] = QU, NEW n \in Backslashes(mem, rd, end), n % 2 = 0,
               Ate(op, src, end + 1)
        PROVE  Right'
    <2>1. /\ op' = op /\ src' = src /\ pc' = "idle" /\ UNCHANGED <<borrowed, dirty>>
          /\ Cursor' = end + 1
      BY <1>1, <1>5, <1>9 DEF Ate, MoveTo, Cursor
    <2>2. ASSUME ~dirty PROVE Cursor' = Reference(Text, op, src).end'
      <3>1. K[rd] = K[end] BY <1>8, <1>9, <2>2 DEF SkipRight, K
      <3>2. K[src].end = end + 1 BY <1>2, <1>8, <1>9, <2>2, <3>1 DEF Ends
      <3>3. Reference(Text, op, src) = K[src] BY <1>2, <2>2 DEF Reference, K
      <3>4. Reference(Text, op, src)' = Reference(Text, op, src)
        BY <1>0, <2>1, NoValueSame DEF call
      <3> QED BY <2>1, <3>2, <3>3, <3>4
    <2>3. \A s \in borrowed' : s.clean => LoanRight(s)' BY <1>0, <2>1, LoanKept
    <2>4. InLoop' BY <2>1 DEF InLoop
    <2> QED BY <2>1, <2>2, <2>3, <2>4, Zenon DEF Right
  <1>10. ASSUME end < len, mem[end] = QU, NEW n \in Backslashes(mem, rd, end), n % 2 /= 0,
                rd' = end + 1, UNCHANGED <<mem, cursor, call, pc, seg, wr, borrowed, err, dirty>>
         PROVE  Right'
    <2>1. UNCHANGED <<op, src, pc, borrowed, dirty, orig, len>> BY <1>0, <1>10 DEF call
    <2>2. ASSUME ~dirty PROVE InLoop'
      <3>1. n % 2 = 1 BY <1>8, <1>10, <2>2
      <3>2. K[rd] = K[end + 1] BY <1>8, <1>10, <2>2, <3>1 DEF SkipRight, K
      <3>3. K[src] = K[end + 1] BY <1>2, <2>2, <3>2
      <3>4. Text' = Text BY <1>0, TextSame
      <3>5. Chain(SkipUnits(Text'))[src'] = Chain(SkipUnits(Text'))[rd']
        BY <1>10, <2>1, <3>3, <3>4, Zenon DEF K
      <3> QED BY <1>0, <1>2, <2>1, <2>2, <3>5 DEF InLoop
    <2>3. pc' \in Labels BY <1>0, <2>1 DEF Labels
    <2> QED BY <2>1, <2>2, <2>3, StayRight
  <1>11. CASE end = len /\ Fail("UnexpectedEof") BY <1>6, <1>7, <1>11
  <1>12. CASE end < len /\ mem[end] \in Control /\ Fail("StringControlChar")
    BY <1>6, <1>7, <1>12
  <1> QED BY <1>3, <1>9, <1>10, <1>11, <1>12

-----------------------------------------------------------------------------
(* parse_array_bytes_content, again *)

\* The element at the cursor is byte, and its digits end at p.
ElementIs(byte, p) ==
  LET q == Past(Text, WS, p)
      u == NumberUnits(Text)[Cursor]
  IN /\ Text[q] = Comma => u = More(<<byte>>, q + 1)
     /\ Text[q] = Close => u = Last(<<byte>>, q + 1)
     /\ Text[q] \notin {Comma, Close} => u = Bad

\* What Right says of the array that is decoded.
LEMMA ArrRight ==
  ASSUME IInv, Right, pc = "arr", ~dirty
  PROVE  /\ op = "arr" /\ Shows(mem, Cursor) /\ src \in 0..len /\ Cursor \in 0..len
         /\ Continues(Chain(NumberUnits(Text)), src, Bytes(mem, seg, wr), Cursor)
         /\ Span(mem, seg, wr) /\ Bytes(mem, seg, wr) \in Seq(Byte)
         /\ Reference(Text, op, src) = Chain(NumberUnits(Text))[src]
  <1>1. /\ len \in Nat /\ base \in Nat /\ Cursor \in Nat /\ wr \in Nat /\ seg \in Nat
        /\ base <= seg /\ seg <= wr /\ wr <= Cursor /\ Cursor <= len
        /\ Frontier = Cursor /\ src \in 0..len
    BY ArrBounds
  <1>2. /\ op = "arr" /\ Text[Past(Text, WS, src)] /= Close
        /\ Continues(Chain(NumberUnits(Text)), src, Bytes(mem, seg, wr), Cursor)
    BY DEF Right, InLoop
  <1>3. Shows(mem, Cursor) BY <1>1, UnreadShows
  <1>4. Span(mem, seg, wr) /\ Bytes(mem, seg, wr) \in Seq(Byte)
    <2>1. wr <= len /\ TypeOK BY <1>1 DEF IInv
    <2> QED BY <1>1, <2>1, BufferSpan
  <1>5. Reference(Text, op, src) = Array(Text, src) BY <1>2 DEF Reference
  <1>6. Array(Text, src) = Chain(NumberUnits(Text))[src] BY <1>2, Zenon DEF Array
  <1> QED BY <1>1, <1>2, <1>3, <1>4, <1>5, <1>6

\* No element at the cursor.
LEMMA ArrBad ==
  ASSUME IInv, Right, Kept, pc = "arr", NEW m, NEW e, NEW p, ArrError(m, e, p),
         ~dirty => NumberUnits(Text)[Cursor] = Bad, UNCHANGED <<orig, len>>
  PROVE  Right'
  <1>1. ASSUME ~dirty PROVE NoValue(op, src)
    <2>1. ~Chain(NumberUnits(Text))[src].ok
      BY <1>1, ArrRight, TextUnits, ContinuesBad
    <2> QED BY <1>1, <2>1, ArrRight DEF NoValue
  <1>2. Fail(e) BY DEF ArrError
  <1> QED BY <1>1, <1>2, FailRight

LEMMA ArrByteRight ==
  ASSUME IInv, Right, Kept, pc = "arr", NEW byte \in Byte, NEW p \in 0..len, Cursor < p,
         ArrByte(byte, p), UNCHANGED <<orig, len>>, ~dirty => ElementIs(byte, p)
  PROVE  Right'
  <1> DEFINE b == <<byte>>
             m == WriteAt(mem, wr, b)
             w == wr + 1
  <1>0. b \in Seq(Byte) /\ Len(b) = 1 /\ TypeOK BY DEF IInv
  <1>1. /\ len \in Nat /\ base \in Nat /\ Cursor \in Nat /\ wr \in Nat /\ seg \in Nat /\ rd \in Nat
        /\ base <= seg /\ seg <= wr /\ wr <= Cursor
    BY ArrBounds
  <1>2. p \in Nat /\ p <= len /\ w <= p /\ w = wr + Len(b) /\ w \in Nat /\ w <= len BY <1>0, <1>1
  <1>3. Fits(wr, 1) BY <1>1, <1>2 DEF Fits
  <1>4. PICK q \in Scan(m, NonWs, p) :
         \/ ArrError(m, "UnexpectedEof", p) /\ q = len
         \/ /\ q < len /\ m[q] = Comma
            /\ mem' = m /\ MoveTo(q + 1)
            /\ wr' = w
            /\ UNCHANGED <<call, pc, seg, rd, borrowed, err, dirty>>
         \/ q < len /\ m[q] = Close /\ mem' = m /\ ArrayDone(q)
         \/ q < len /\ m[q] \notin {Comma, Close} /\ ArrError(m, "UnexpectedChar", q)
    BY <1>3 DEF ArrByte
  <1>5. q \in Nat /\ p <= q /\ q <= len BY <1>1, <1>2, ScanLemma
  <1>6. /\ mem \in [Pos -> Byte] /\ m \in [Pos -> Byte]
        /\ \A i \in Pos : i < wr \/ i >= wr + Len(b) => m[i] = mem[i]
    <2>1. mem \in [Pos -> Byte] BY <1>0 DEF TypeOK
    <2> HIDE DEF b
    <2> QED BY <1>0, <1>1, <2>1, WriteAtLemma
  <1>7. Follows(mem, m, seg, wr, b, w)
    <2> HIDE DEF b, w
    <2> QED BY <1>0, <1>1, <1>2, <1>6, WriteFollows
  <1> HIDE DEF m, b, w
  <1>8. ASSUME ~dirty
        PROVE  q = Past(Text, WS, p) /\ (q < len => Text[q] = m[q]) /\ (q = len => Text[q] = Eof)
    <2>1. Shows(m, p)
      <3>1. ASSUME NEW i \in Pos, i >= p PROVE m[i] = Text[i]
        <4>1. i >= Cursor /\ i >= wr + Len(b) BY <1>1, <1>2, <3>1 DEF Pos
        <4>2. m[i] = mem[i] BY <1>6, <4>1
        <4>3. mem[i] = Text[i] BY <1>8, <4>1, ArrRight DEF Shows
        <4> QED BY <4>2, <4>3
      <3> QED BY <3>1 DEF Shows
    <2>2. (q < len => Text[q] = m[q]) /\ (q = len => Text[q] = Eof) BY <1>0, <2>1, ScanText
    <2>3. q = Past(Text, WS, p) BY <1>0, <2>1, ScanPast, CharLemma DEF NonWs
    <2> QED BY <2>2, <2>3
  <1> DEFINE k == q + 1
  <1>9. ASSUME ~dirty
        PROVE  /\ Text[q] = Comma => NumberUnits(Text)[Cursor] = More(b, k)
               /\ Text[q] = Close => NumberUnits(Text)[Cursor] = Last(b, k)
               /\ Text[q] \notin {Comma, Close} => NumberUnits(Text)[Cursor] = Bad
    BY <1>8, <1>9, Zenon DEF ElementIs, b
  <1>10. k \in Nat BY <1>5
  <1>11. Bytes(m, seg, w) = Join(Bytes(mem, seg, wr), b) BY <1>7, PieceThen
  <1>12. CASE ArrError(m, "UnexpectedEof", p) /\ q = len
    <2>1. ASSUME ~dirty PROVE NumberUnits(Text)[Cursor] = Bad
      <3>1. Text[q] \notin {Comma, Close} BY <1>8, <1>12, <2>1 DEF Eof, Comma, Close
      <3> QED BY <1>9, <2>1, <3>1
    <2> QED BY <1>12, <2>1, ArrBad
  <1>13. CASE q < len /\ m[q] \notin {Comma, Close} /\ ArrError(m, "UnexpectedChar", q)
    <2>1. ~dirty => NumberUnits(Text)[Cursor] = Bad BY <1>8, <1>9, <1>13
    <2> QED BY <1>13, <2>1, ArrBad
  <1>14. CASE /\ q < len /\ m[q] = Comma
              /\ mem' = m /\ MoveTo(q + 1)
              /\ wr' = w
              /\ UNCHANGED <<call, pc, seg, rd, borrowed, err, dirty>>
    <2>1. UNCHANGED <<op, src, pc, seg, borrowed, dirty, orig, len>> /\ pc' \in Labels
      BY <1>14 DEF call, Labels
    <2>2. Cursor' = k BY <1>1, <1>5, <1>14 DEF MoveTo, Cursor
    <2> HIDE DEF k
    <2>3. ASSUME ~dirty PROVE InLoop'
      <3>1. NumberUnits(Text)[Cursor] = More(b, k) BY <1>8, <1>9, <1>14, <2>3
      <3>2. Continues(Chain(NumberUnits(Text)), src, Join(Bytes(mem, seg, wr), b), k)
        BY <1>0, <1>10, <2>3, <3>1, ArrRight, TextUnits, ContinuesLemma
      <3>3. Text' = Text BY TextSame
      <3>4. Continues(Chain(NumberUnits(Text)), src, Bytes(mem, seg, wr), Cursor)'
        BY <1>11, <1>14, <2>1, <2>2, <3>2, <3>3, Zenon
      <3>5. op = "arr" /\ Text[Past(Text, WS, src)] /= Close BY <2>3 DEF Right, InLoop
      <3>6. op' = "arr" /\ Text'[Past(Text', WS, src')] /= Close BY <2>1, <3>3, <3>5, Zenon
      <3>7. pc' = "arr" BY <2>1
      <3> QED BY <3>4, <3>6, <3>7 DEF InLoop
    <2> QED BY <2>1, <2>3, StayRight
  <1>15. CASE q < len /\ m[q] = Close /\ mem' = m /\ ArrayDone(q)
    <2> DEFINE n == w - seg
               skip == k - w
    <2>1. n \in Nat /\ seg + n + skip = k /\ seg + n = w BY <1>1, <1>2, <1>5
    <2>2. SplitInput(op, src, seg, n, skip)
      <3>1. n = wr + 1 - seg BY <1>1, <1>5 DEF w
      <3>2. skip = (q + 1) - (wr + 1) BY <1>1, <1>5 DEF w
      <3>3. ArrayDone(q) BY <1>15
      <3> QED BY <3>1, <3>2, <3>3, Zenon DEF ArrayDone
    <2> HIDE DEF n, skip, k
    <2>3. ASSUME ~dirty PROVE Denotes(op, src, Bytes(mem', seg, seg + n), seg + n + skip)
      <3>1. NumberUnits(Text)[Cursor] = Last(b, k) BY <1>8, <1>9, <1>15, <2>3
      <3>2. Ends(Chain(NumberUnits(Text)), src, Join(Bytes(mem, seg, wr), b), k)
        BY <1>0, <1>10, <2>3, <3>1, ArrRight, TextUnits, ContinuesLemma
      <3>3. Reference(Text, op, src) = Chain(NumberUnits(Text))[src] BY <2>3, ArrRight
      <3>4. Bytes(mem', seg, seg + n) = Join(Bytes(mem, seg, wr), b) BY <1>11, <1>15, <2>1
      <3> QED BY <2>1, <3>2, <3>3, <3>4, Zenon DEF Denotes, Ends
    <2> QED BY <1>1, <2>1, <2>2, <2>3, SplitRight
  <1> QED BY <1>4, <1>12, <1>13, <1>14, <1>15

\* The parts of the element at the cursor.
LEMMA ElementAt ==
  ASSUME IInv, Right, pc = "arr", ~dirty, NEW p \in Scan(mem, NonWs, Cursor)
  PROVE  /\ p \in 0..len /\ p \in Nat /\ Cursor <= p /\ len \in Nat /\ IsText(Text, len)
         /\ p = Past(Text, WS, Cursor) /\ Text[p] \in Nat
         /\ p = len => Text[p] = Eof
         /\ p < len => Text[p] = mem[p]
         /\ Shows(mem, p)
         /\ \A e, q : e = Past(Text, Digit, p) /\ q = Past(Text, WS, e) =>
              NumberUnits(Text)[Cursor] = NumberUnit(Text, p, e, q)
  <1>0. TypeOK /\ IsText(Text, len) /\ len \in Nat BY TextUnits DEF IInv
  <1>1. Shows(mem, Cursor) /\ Cursor \in 0..len BY ArrRight
  <1>2. /\ p \in Nat /\ p \in 0..len /\ Cursor <= p
        /\ p = len => Text[p] = Eof
        /\ p < len => Text[p] = mem[p]
    BY <1>0, <1>1, ScanText
  <1>3. p = Past(Text, WS, Cursor) BY <1>0, <1>1, ScanPast, CharLemma DEF NonWs
  <1>4. Shows(mem, p)
    <2>1. Cursor \in Nat BY <1>1, <1>0
    <2> QED BY <1>0, <1>1, <1>2, <2>1, ShowsLater
  <1>5. ASSUME NEW e, NEW q, e = Past(Text, Digit, p), q = Past(Text, WS, e)
        PROVE  NumberUnits(Text)[Cursor] = NumberUnit(Text, p, e, q)
    <2>1. Element(Text, Cursor, p, e, q) BY <1>3, <1>5 DEF Element
    <2> QED BY <1>0, <1>1, <2>1, NumberUnitsLemma
  <1>6. Text[p] \in Nat BY <1>0, <1>2, InText
  <1> QED BY <1>0, <1>2, <1>3, <1>4, <1>5, <1>6

\* An element that does not begin with a digit.
LEMMA NoDigit ==
  ASSUME IInv, Right, pc = "arr", ~dirty, NEW p \in Scan(mem, NonWs, Cursor),
         Text[p] \notin Digit
  PROVE  NumberUnits(Text)[Cursor] = Bad
  <1>1. /\ p \in 0..len /\ p \in Nat /\ IsText(Text, len)
        /\ \A e, q : e = Past(Text, Digit, p) /\ q = Past(Text, WS, e) =>
              NumberUnits(Text)[Cursor] = NumberUnit(Text, p, e, q)
    BY ElementAt
  <1>2. p <= p /\ \A k \in p..(p - 1) : Text[k] \in Digit BY <1>1
  <1>3. p = Past(Text, Digit, p) BY <1>1, <1>2, PastUnique, CharLemma
  <1>4. NumberUnits(Text)[Cursor] = NumberUnit(Text, p, p, Past(Text, WS, p)) BY <1>1, <1>3
  <1> QED BY <1>4 DEF NumberUnit

\* A number and what follows it.
LEMMA ElementByte ==
  ASSUME IInv, Right, pc = "arr", ~dirty, NEW p \in Scan(mem, NonWs, Cursor),
         NEW e, e = Past(Text, Digit, p), e /= p, ~(Text[p] = Zero /\ e > p + 1),
         NEW v, v = Decimal(Text, p, e), ~(v > 255)
  PROVE  ElementIs(v, e)
  <1>1. PICK q : q = Past(Text, WS, e) OBVIOUS
  <1>2. NumberUnits(Text)[Cursor] = NumberUnit(Text, p, e, q) BY <1>1, ElementAt
  <1>3. NumberUnit(Text, p, e, q) =
          CASE Text[q] = Comma -> More(<<v>>, q + 1)
            [] Text[q] = Close -> Last(<<v>>, q + 1)
            [] OTHER -> Bad
    BY DEF NumberUnit
  <1>4. Comma /= Close BY DEF Comma, Close
  <1>5. /\ Text[q] = Comma => NumberUnits(Text)[Cursor] = More(<<v>>, q + 1)
        /\ Text[q] = Close => NumberUnits(Text)[Cursor] = Last(<<v>>, q + 1)
        /\ Text[q] \notin {Comma, Close} => NumberUnits(Text)[Cursor] = Bad
    BY <1>2, <1>3, <1>4
  <1> QED BY <1>1, <1>5, Zenon DEF ElementIs

\* A zero: no digit may follow.
LEMMA ZeroIs ==
  ASSUME IInv, Right, pc = "arr", ~dirty, NEW p \in Scan(mem, NonWs, Cursor), p < len,
         mem[p] = Zero
  PROVE  ElementIs(0, p + 1)
  <1>1. /\ p \in 0..len /\ p \in Nat /\ len \in Nat /\ IsText(Text, len) /\ Text[p] = Zero
        /\ \A e, q : e = Past(Text, Digit, p) /\ q = Past(Text, WS, e) =>
              NumberUnits(Text)[Cursor] = NumberUnit(Text, p, e, q)
    BY ElementAt
  <1>2. PICK e : e = Past(Text, Digit, p) OBVIOUS
  <1>3. e \in p..len /\ e \in 0..len /\ Text[e] \notin Digit /\ \A k \in p..(e - 1) : Text[k] \in Digit
    BY <1>1, <1>2, PastLemma, CharLemma
  <1>4. e /= p /\ e > p BY <1>1, <1>3 DEF Zero, Digit
  <1>5. CASE e = p + 1
    <2>1. Decimal(Text, p, e) = 0 BY <1>1, <1>3, <1>5, DecimalU8
    <2>2. ~(e > p + 1) /\ ~(0 > 255) BY <1>1, <1>5
    <2>3. ElementIs(0, e) BY <1>2, <1>4, <2>1, <2>2, ElementByte
    <2> QED BY <1>5, <2>3
  <1>6. CASE e > p + 1
    <2>1. p + 1 \in 0..len /\ Text[p + 1] \in Digit
      <3>1. p + 1 \in p..(e - 1) BY <1>1, <1>3, <1>6
      <3> QED BY <1>1, <1>3, <3>1
    <2>2. Text[p + 1] \notin WS /\ Text[p + 1] \notin {Comma, Close}
      BY <2>1 DEF Digit, WS, Comma, Close
    <2>3. p + 1 <= p + 1 /\ \A k \in (p + 1)..((p + 1) - 1) : Text[k] \in WS BY <1>1
    <2>4. Past(Text, WS, p + 1) = p + 1
      <3> DEFINE x == p + 1
      <3>1. x \in 0..len /\ Text[x] \notin WS /\ x <= x /\ \A k \in x..(x - 1) : Text[k] \in WS
        BY <2>1, <2>2, <2>3
      <3> HIDE DEF x
      <3>2. Past(Text, WS, x) = x BY <1>1, <3>1, PastUnique, CharLemma
      <3> QED BY <3>2 DEF x
    <2>5. NumberUnits(Text)[Cursor] = Bad
      <3>1. NumberUnits(Text)[Cursor] = NumberUnit(Text, p, e, Past(Text, WS, e)) BY <1>1, <1>2
      <3> QED BY <1>1, <1>6, <3>1 DEF NumberUnit
    <2>6. /\ Text[p + 1] = Comma => NumberUnits(Text)[Cursor] = More(<<0>>, (p + 1) + 1)
          /\ Text[p + 1] = Close => NumberUnits(Text)[Cursor] = Last(<<0>>, (p + 1) + 1)
          /\ Text[p + 1] \notin {Comma, Close} => NumberUnits(Text)[Cursor] = Bad
      BY <2>2, <2>5
    <2> QED BY <2>4, <2>6, Zenon DEF ElementIs
  <1> QED BY <1>1, <1>3, <1>4, <1>5, <1>6

\* A number that begins with another digit.
LEMMA NumberIs ==
  ASSUME IInv, Right, pc = "arr", ~dirty, NEW p \in Scan(mem, NonWs, Cursor), p < len,
         mem[p] \in Digit \ {Zero}, NEW e \in Scan(mem, Byte \ Digit, p + 1)
  PROVE  /\ ~(U8Value(mem, p, e) > 255) => ElementIs(U8Value(mem, p, e), e)
         /\ U8Value(mem, p, e) > 255 => NumberUnits(Text)[Cursor] = Bad
  <1>1. /\ p \in 0..len /\ p \in Nat /\ len \in Nat /\ IsText(Text, len) /\ Text[p] = mem[p]
        /\ Shows(mem, p)
        /\ \A x, q : x = Past(Text, Digit, p) /\ q = Past(Text, WS, x) =>
              NumberUnits(Text)[Cursor] = NumberUnit(Text, p, x, q)
    BY ElementAt
  <1>0. TypeOK BY DEF IInv
  <1> DEFINE p1 == p + 1
  <1>2. p1 \in 0..len /\ p1 \in Nat /\ p <= p1 BY <1>1
  <1>3. Shows(mem, p1) BY <1>1, <1>2, ShowsLater
  <1>4. e \in Scan(mem, Byte \ Digit, p1) OBVIOUS
  <1>5. /\ e \in Nat /\ p1 <= e /\ e \in 0..len
        /\ \A k \in p1..(e - 1) : Text[k] = mem[k]
    <2> HIDE DEF p1
    <2> QED BY <1>0, <1>2, <1>3, <1>4, ScanText
  <1>6. e = Past(Text, Digit, p1)
    <2> HIDE DEF p1
    <2> QED BY <1>0, <1>2, <1>3, <1>4, ScanPast, CharLemma
  <1>7. Text[e] \notin Digit /\ \A k \in p1..(e - 1) : Text[k] \in Digit
    <2> HIDE DEF p1
    <2> QED BY <1>1, <1>2, <1>6, PastLemma, CharLemma
  <1>8. \A k \in p..(e - 1) : Text[k] \in Digit /\ Text[k] = mem[k]
    <2>1. ASSUME NEW k \in p..(e - 1) PROVE Text[k] \in Digit /\ Text[k] = mem[k]
      <3>1. k = p \/ k \in p1..(e - 1) BY <1>1, <1>5
      <3> QED BY <1>1, <1>5, <1>7, <3>1
    <2> QED BY <2>1
  <1>9. p < e /\ e /= p /\ p <= e BY <1>1, <1>5
  <1>10. e = Past(Text, Digit, p)
    <2>1. \A k \in p..(e - 1) : Text[k] \in Digit BY <1>8
    <2> QED BY <1>1, <1>5, <1>7, <1>9, <2>1, PastUnique, CharLemma
  <1>11. U8Value(mem, p, e) = U8Value(Text, p, e)
    <2>1. CASE e - p = 1
      <3>1. p \in p..(e - 1) BY <1>1, <1>5, <2>1
      <3> QED BY <1>8, <2>1, <3>1 DEF U8Value, DigitAt
    <2>2. CASE e - p = 2
      <3>1. p \in p..(e - 1) /\ p + 1 \in p..(e - 1) BY <1>1, <1>5, <2>2
      <3> QED BY <1>8, <2>2, <3>1 DEF U8Value, DigitAt
    <2>3. CASE e - p = 3
      <3>1. p \in p..(e - 1) /\ p + 1 \in p..(e - 1) /\ p + 2 \in p..(e - 1) BY <1>1, <1>5, <2>3
      <3> QED BY <1>8, <2>3, <3>1 DEF U8Value, DigitAt
    <2>4. CASE e - p \notin {1, 2, 3} BY <2>4 DEF U8Value
    <2> QED BY <2>1, <2>2, <2>3, <2>4
  <1>12. Text[p] /= Zero BY <1>1
  <1> DEFINE v == U8Value(mem, p, e)
  <1>13. v > 255 <=> Decimal(Text, p, e) > 255
    BY <1>1, <1>5, <1>8, <1>9, <1>11, <1>12, DecimalU8
  <1>14. ~(v > 255) => v = Decimal(Text, p, e)
    BY <1>1, <1>5, <1>8, <1>9, <1>11, <1>12, DecimalU8
  <1> HIDE DEF v
  <1>15. ASSUME ~(v > 255) PROVE ElementIs(v, e)
    BY <1>9, <1>10, <1>12, <1>14, <1>15, ElementByte
  <1>16. ASSUME v > 255 PROVE NumberUnits(Text)[Cursor] = Bad
    <2>1. NumberUnits(Text)[Cursor] = NumberUnit(Text, p, e, Past(Text, WS, e)) BY <1>1, <1>10
    <2>2. Decimal(Text, p, e) > 255 BY <1>13, <1>16
    <2> QED BY <2>1, <2>2, Zenon DEF NumberUnit
  <1> QED BY <1>15, <1>16 DEF v

LEMMA U8Byte ==
  ASSUME IInv, pc = "arr", NEW p \in Scan(mem, NonWs, Cursor), p < len, mem[p] \in Digit,
         NEW e \in Scan(mem, Byte \ Digit, p + 1), ~(U8Value(mem, p, e) > 255)
  PROVE  U8Value(mem, p, e) \in Byte /\ e \in 0..len /\ Cursor < e
  <1>1. len \in Nat /\ base \in Nat /\ Cursor \in Nat /\ base <= Cursor BY ArrBounds
  <1>2. p \in Nat /\ Cursor <= p /\ p + 1 \in Nat BY <1>1, ScanLemma
  <1>3. e \in Nat /\ p + 1 <= e /\ e <= len BY <1>1, <1>2, ScanLemma
  <1> DEFINE value == U8Value(mem, p, e)
  <1>4. \A i \in p..(e - 1) : mem[i] \in Digit
    <2>1. ASSUME NEW i \in p..(e - 1), i /= p PROVE mem[i] \in Digit
      <3>1. i \in (p + 1)..(e - 1) BY <1>2, <1>3, <2>1
      <3>2. i \in Pos BY <1>1, <1>2, <1>3, <2>1 DEF Pos
      <3>3. mem[i] \in Byte BY <3>2 DEF IInv, TypeOK
      <3>4. mem[i] \notin Byte \ Digit BY <3>1 DEF Scan
      <3> QED BY <3>3, <3>4
    <2> QED BY <2>1
  <1>5. value \in Nat
    <2>1. CASE e - p = 1
      <3>1. p \in p..(e - 1) BY <1>2, <1>3, <2>1
      <3>2. DigitAt(mem, p) \in Nat BY <1>4, <3>1 DEF DigitAt, Digit, Zero
      <3> QED BY <2>1, <3>2 DEF U8Value
    <2>2. CASE e - p = 2
      <3>1. p \in p..(e - 1) /\ p + 1 \in p..(e - 1) BY <1>2, <1>3, <2>2
      <3>2. DigitAt(mem, p) \in Nat /\ DigitAt(mem, p + 1) \in Nat
        BY <1>4, <3>1 DEF DigitAt, Digit, Zero
      <3> QED BY <2>2, <3>2 DEF U8Value
    <2>3. CASE e - p = 3
      <3>1. p \in p..(e - 1) /\ p + 1 \in p..(e - 1) /\ p + 2 \in p..(e - 1)
        BY <1>2, <1>3, <2>3
      <3>2. /\ DigitAt(mem, p) \in Nat /\ DigitAt(mem, p + 1) \in Nat
            /\ DigitAt(mem, p + 2) \in Nat
        BY <1>4, <3>1 DEF DigitAt, Digit, Zero
      <3> QED BY <2>3, <3>2 DEF U8Value
    <2>4. CASE e - p \notin {1, 2, 3} BY <2>4 DEF U8Value
    <2> QED BY <2>1, <2>2, <2>3, <2>4
  <1> HIDE DEF value
  <1>6. value \in Byte
    <2>1. ~(value > 255) BY DEF value
    <2> QED BY <1>5, <2>1 DEF Byte
  <1> QED BY <1>1, <1>2, <1>3, <1>6 DEF value

LEMMA ArrStepRight == ASSUME IInv, Right, Kept, ArrStep PROVE Right'
  <1>0. pc = "arr" /\ UNCHANGED <<orig, len>> BY DEF ArrStep
  <1>1. PICK p \in Scan(mem, NonWs, Cursor) :
       \/ p = len /\ ArrError(mem, "UnexpectedEof", Cursor)
       \/ p < len /\ mem[p] = Minus /\ ArrError(mem, "InvalidNumber", p)
       \/ p < len /\ mem[p] = Zero /\ ArrByte(0, p + 1)
       \/ p < len /\ mem[p] \in Digit \ {Zero}
          /\ \E e \in Scan(mem, Byte \ Digit, p + 1) : ArrNumber(p, e)
       \/ p < len /\ mem[p] \notin Digit \cup {Minus} /\ ArrError(mem, "InvalidType", p)
    BY DEF ArrStep
  <1>2. p \in 0..len /\ Cursor <= p /\ Cursor \in 0..len /\ len \in Nat
    BY IdleScan DEF IInv, TypeOK
  <1>3. Minus \notin Digit /\ Zero \in Digit BY DEF Minus, Zero, Digit
  <1>4. ASSUME NEW e, NEW q, ArrError(mem, e, q),
               p = len \/ (p < len /\ mem[p] \notin Digit)
        PROVE  Right'
    <2>1. ASSUME ~dirty PROVE NumberUnits(Text)[Cursor] = Bad
      <3>1. Text[p] \notin Digit BY <1>0, <1>4, <2>1, ElementAt, CharLemma
      <3> QED BY <1>0, <2>1, <3>1, NoDigit
    <2> QED BY <1>0, <1>4, <2>1, ArrBad
  <1>5. CASE p < len /\ mem[p] = Zero /\ ArrByte(0, p + 1)
    <2> DEFINE x == p + 1
    <2>1. x \in 0..len /\ Cursor < x BY <1>2, <1>5
    <2>2. 0 \in Byte BY DEF Byte
    <2>3. ~dirty => ElementIs(0, x) BY <1>0, <1>5, ZeroIs
    <2>4. ArrByte(0, x) BY <1>5
    <2> HIDE DEF x
    <2> QED BY <1>0, <2>1, <2>2, <2>3, <2>4, ArrByteRight
  <1>6. ASSUME p < len, mem[p] \in Digit \ {Zero},
               NEW e \in Scan(mem, Byte \ Digit, p + 1), ArrNumber(p, e)
        PROVE  Right'
    <2> DEFINE value == U8Value(mem, p, e)
    <2>1. CASE value > 255
      <3>1. ArrError(mem, "InvalidNumber", p + 1) BY <1>6, <2>1 DEF ArrNumber
      <3>2. ~dirty => NumberUnits(Text)[Cursor] = Bad BY <1>0, <1>6, <2>1, NumberIs
      <3> QED BY <1>0, <3>1, <3>2, ArrBad
    <2>2. CASE ~(value > 255)
      <3>1. ArrByte(value, e) BY <1>6, <2>2 DEF ArrNumber
      <3>2. value \in Byte /\ e \in 0..len /\ Cursor < e BY <1>0, <1>6, <2>2, U8Byte
      <3>3. ~dirty => ElementIs(value, e) BY <1>0, <1>6, <2>2, NumberIs
      <3> HIDE DEF value
      <3> QED BY <1>0, <3>1, <3>2, <3>3, ArrByteRight
    <2> QED BY <2>1, <2>2
  <1> QED BY <1>1, <1>3, <1>4, <1>5, <1>6

-----------------------------------------------------------------------------
(* parse_base64_bytes_content, again *)

\* m holds from lo to hi the octets that the codes from lo on pack.
Octets(m, lo, hi) == \A j \in 0..(hi - lo - 1) : m[lo + j] = Octet(Text, lo, 8 * j)
\* b holds the octets that the codes from p on pack.
Unpacked(b, p) == \A x \in 1..Len(b) : b[x] = Octet(Text, p, 8 * (x - 1))
Coded(p, n) == \A j \in 0..(n - 1) : Text[p + j] \in Codes

LEMMA B64Bounds ==
  ASSUME IInv, Right, pc = "b64", ~dirty
  PROVE  /\ op = "b64" /\ src = Cursor /\ Shows(mem, rd) /\ rd \in 0..len /\ src \in 0..len
         /\ (rd - wr) \in Nat /\ wr = src + 3 * (rd - wr) /\ rd = src + 4 * (rd - wr)
         /\ src \in Nat /\ wr \in Nat /\ rd \in Nat /\ len \in Nat /\ src <= wr /\ wr <= rd /\ rd <= len
         /\ Octets(mem, src, wr) /\ \A k \in src..(rd - 1) : Text[k] \in Codes
  <1>1. op = "b64" /\ src = Cursor /\ Decoded64 BY DEF Right, InLoop
  <1>2. /\ len \in Nat /\ src \in Nat /\ wr \in Nat /\ rd \in Nat
        /\ src <= wr /\ wr <= rd /\ rd <= len /\ Frontier = rd
        /\ 3 * (rd - src) = 4 * (wr - src)
    BY <1>1, CodecBounds
  <1>3. (rd - wr) \in Nat /\ wr = src + 3 * (rd - wr) /\ rd = src + 4 * (rd - wr) BY <1>2
  <1>4. Shows(mem, rd) BY <1>2, UnreadShows
  <1> QED BY <1>1, <1>2, <1>3, <1>4 DEF Decoded64, Octets

\* The octets of four codes and of the codes that are left over.
LEMMA ChunkOctets ==
  ASSUME NEW m, NEW p \in Nat, Coded(p, 4), \A j \in 0..3 : m[p + j] = Text[p + j]
  PROVE  Unpacked(Chunk(m, p), p)
  <1> DEFINE a == B64[m[p]]
             b == B64[m[p + 1]]
             c == B64[m[p + 2]]
             d == B64[m[p + 3]]
  <1>1. /\ m[p] = Text[p] /\ m[p + 1] = Text[p + 1] /\ m[p + 2] = Text[p + 2]
        /\ m[p + 3] = Text[p + 3] /\ Text[p] \in Codes /\ Text[p + 1] \in Codes
        /\ Text[p + 2] \in Codes /\ Text[p + 3] \in Codes
    <2>1. p + 0 = p OBVIOUS
    <2>2. m[p + 0] = Text[p + 0] /\ Text[p + 0] \in Codes BY DEF Coded
    <2> QED BY <2>1, <2>2 DEF Coded
  <1>2. /\ CodeOf[Text[p]] = a /\ CodeOf[Text[p + 1]] = b /\ CodeOf[Text[p + 2]] = c
        /\ CodeOf[Text[p + 3]] = d
        /\ a \in Nat /\ a < 64 /\ b \in Nat /\ b < 64 /\ c \in Nat /\ c < 64 /\ d \in Nat /\ d < 64
    BY <1>1, CodesLemma
  <1>3. Chunk(m, p) = <<4 * a + b \div 16, (16 * b + c \div 4) % 256, (64 * c + d) % 256>>
    BY Zenon DEF Chunk
  <1> HIDE DEF a, b, c, d
  <1>4. /\ Octet(Text, p, 0) = 4 * a + b \div 16
        /\ Octet(Text, p, 8) = (16 * b + c \div 4) % 256
        /\ Octet(Text, p, 16) = (64 * c + d) % 256
    BY <1>2, FirstOctet, SecondOctet, ThirdOctet
  <1> DEFINE x == 4 * a + b \div 16
             y == (16 * b + c \div 4) % 256
             z == (64 * c + d) % 256
  <1> HIDE DEF x, y, z
  <1>5. Chunk(m, p) = <<x, y, z>> BY <1>3, Zenon DEF x, y, z
  <1>6. Octet(Text, p, 0) = x /\ Octet(Text, p, 8) = y /\ Octet(Text, p, 16) = z
    BY <1>4, Zenon DEF x, y, z
  <1>7. \A k \in 1..3 : \/ 8 * (k - 1) = 0 /\ k = 1
                        \/ 8 * (k - 1) = 8 /\ k = 2
                        \/ 8 * (k - 1) = 16 /\ k = 3
    OBVIOUS
  <1>8. ASSUME NEW k \in 1..Len(Chunk(m, p)) PROVE Chunk(m, p)[k] = Octet(Text, p, 8 * (k - 1))
    <2>1. k \in 1..3 BY <1>5
    <2>2. CASE 8 * (k - 1) = 0 /\ k = 1 BY <1>5, <1>6, <2>2
    <2>3. CASE 8 * (k - 1) = 8 /\ k = 2 BY <1>5, <1>6, <2>3
    <2>4. CASE 8 * (k - 1) = 16 /\ k = 3 BY <1>5, <1>6, <2>4
    <2> QED BY <1>7, <2>1, <2>2, <2>3, <2>4
  <1> QED BY <1>8, Zenon DEF Unpacked

LEMMA TailOctets ==
  ASSUME NEW m, NEW p \in Nat, NEW n \in TailCount(m, p), Coded(p, n),
         \A j \in 0..(n - 1) : m[p + j] = Text[p + j], NEW b, b = TailBytes(Packed(m, p, n))
  PROVE  Unpacked(b, p) /\ Len(b) = (6 * n) \div 8
  <1>1. n \in 0..3 /\ Leftovers(Packed(m, p, n)) = n BY TailLemma
  <1>2. CASE n \in {0, 1}
    <2>1. b = <<>> BY <1>1, <1>2 DEF TailBytes
    <2> QED BY <1>2, <2>1 DEF Unpacked
  <1>3. CASE n \in {2, 3}
    <2> DEFINE x == B64[m[p]]
               y == B64[m[p + 1]]
    <2>1. m[p] = Text[p] /\ m[p + 1] = Text[p + 1] /\ Text[p] \in Codes /\ Text[p + 1] \in Codes
      <3>1. p + 0 = p /\ 0 \in 0..(n - 1) /\ 1 \in 0..(n - 1) BY <1>3
      <3>2. m[p + 0] = Text[p + 0] /\ Text[p + 0] \in Codes BY <3>1 DEF Coded
      <3> QED BY <3>1, <3>2 DEF Coded
    <2>2. /\ CodeOf[Text[p]] = x /\ CodeOf[Text[p + 1]] = y
          /\ x \in Nat /\ x < 64 /\ y \in Nat /\ y < 64
      BY <2>1, CodesLemma
    <2>3. Octet(Text, p, 0) = 4 * x + y \div 16
      <3> HIDE DEF x, y
      <3> QED BY <2>2, FirstOctet
    <2>4. CASE n = 2
      <3>1. Packed(m, p, n) = 4096 + 64 * x + y BY <2>4 DEF Packed
      <3> HIDE DEF x, y
      <3>2. TailBytes(Packed(m, p, n)) = <<((Packed(m, p, n) * 16) \div 256) % 256>>
        BY <1>1, <2>4 DEF TailBytes
      <3>3. ((Packed(m, p, n) * 16) \div 256) % 256 = 4 * x + y \div 16
        BY <2>2, <3>1, TailValues
      <3>4. b = <<Octet(Text, p, 0)>> BY <2>3, <3>2, <3>3
      <3>5. \A k \in 1..1 : k = 1 /\ 8 * (k - 1) = 0 OBVIOUS
      <3> QED BY <2>4, <3>4, <3>5 DEF Unpacked
    <2>5. CASE n = 3
      <3> DEFINE z == B64[m[p + 2]]
                 P == Packed(m, p, n)
      <3>1. m[p + 2] = Text[p + 2] /\ Text[p + 2] \in Codes
        <4>1. 2 \in 0..(n - 1) BY <2>5
        <4> QED BY <4>1 DEF Coded
      <3>2. CodeOf[Text[p + 2]] = z /\ z \in Nat /\ z < 64 BY <3>1, CodesLemma
      <3>3. P = 262144 + 4096 * x + 64 * y + z BY <2>5 DEF Packed
      <3> HIDE DEF x, y, z
      <3>4. Octet(Text, p, 8) = (16 * y + z \div 4) % 256 BY <2>2, <3>2, SecondOctet
      <3>5. b = <<((P * 64) \div 65536) % 256, ((P * 64) \div 256) % 256>>
        BY <1>1, <2>5 DEF TailBytes
      <3> HIDE DEF P
      <3>6. /\ ((P * 64) \div 65536) % 256 = 4 * x + y \div 16
            /\ ((P * 64) \div 256) % 256 = (16 * y + z \div 4) % 256
        BY <2>2, <3>2, <3>3, TailValues
      <3>7. b = <<Octet(Text, p, 0), Octet(Text, p, 8)>> BY <2>3, <3>4, <3>5, <3>6
      <3>8. \A k \in 1..2 : (k = 1 /\ 8 * (k - 1) = 0) \/ (k = 2 /\ 8 * (k - 1) = 8) OBVIOUS
      <3> QED BY <2>5, <3>7, <3>8 DEF Unpacked
    <2> QED BY <1>3, <2>4, <2>5
  <1> QED BY <1>1, <1>2, <1>3

LEMMA OctetsMore ==
  ASSUME IInv, Right, pc = "b64", ~dirty, NEW b \in Seq(Byte), NEW w, w = wr + Len(b), w <= len,
         Unpacked(b, rd)
  PROVE  Octets(WriteAt(mem, wr, b), src, w)
  <1> DEFINE m == WriteAt(mem, wr, b)
             q == rd - wr
  <1>1. /\ q \in Nat /\ wr = src + 3 * q /\ rd = src + 4 * q
        /\ src \in Nat /\ wr \in Nat /\ rd \in Nat /\ len \in Nat /\ src <= wr
        /\ Octets(mem, src, wr)
    BY B64Bounds
  <1>2. w \in Nat /\ Len(b) \in Nat BY <1>1
  <1>3. /\ \A i \in Pos : i < wr => m[i] = mem[i]
        /\ \A i \in Pos : i \in wr..(wr + Len(b) - 1) => m[i] = b[i - wr + 1]
    BY <1>1, <1>2 DEF WriteAt, Pos
  <1> HIDE DEF m, q
  <1>4. ASSUME NEW j \in 0..(w - src - 1) PROVE m[src + j] = Octet(Text, src, 8 * j)
    <2>1. src + j \in Pos /\ j \in Nat BY <1>1, <1>2 DEF Pos
    <2>2. CASE j < 3 * q
      <3>1. j \in 0..(wr - src - 1) /\ src + j < wr BY <1>1, <2>1, <2>2
      <3>2. mem[src + j] = Octet(Text, src, 8 * j) BY <1>1, <3>1 DEF Octets
      <3> QED BY <1>3, <2>1, <3>1, <3>2
    <2>3. CASE ~(j < 3 * q)
      <3> DEFINE x == src + j - wr + 1
                 y == 8 * (x - 1)
                 h == 8 * j
      <3>1. x \in 1..Len(b) /\ src + j \in wr..(wr + Len(b) - 1) /\ h = 24 * q + y /\ y \in Nat
        BY <1>1, <1>2, <2>1, <2>3
      <3>2. m[src + j] = b[x] BY <1>1, <1>2, <1>3, <2>1, <3>1
      <3>3. Groups(q, src, h, rd, y) BY <1>1, <3>1 DEF Groups
      <3> HIDE DEF h
      <3>4. b[x] = Octet(Text, rd, y)
        <4> HIDE DEF x
        <4> QED BY <3>1 DEF Unpacked
      <3> HIDE DEF x, y
      <3>5. Octet(Text, src, h) = Octet(Text, rd, y) BY <3>3, OctetShift
      <3> QED BY <3>2, <3>4, <3>5 DEF h
    <2> QED BY <2>2, <2>3
  <1> QED BY <1>4 DEF Octets, m

LEMMA B64ChunkRight ==
  ASSUME IInv, Right, Kept, pc = "b64", B64Chunk, UNCHANGED <<orig, len>>
  PROVE  Right'
  <1> DEFINE b == Chunk(mem, rd)
             r == rd + 4
             w == wr + 3
  <1>1. /\ wr \in Nat /\ rd \in Nat /\ wr <= rd /\ rd <= len /\ len \in Nat BY CodecBounds
  <1>2. IsChunk(mem, rd) BY DEF B64Chunk
  <1>3. r <= len /\ \A j \in 0..3 : IsB64(mem[rd + j]) BY <1>2 DEF IsChunk
  <1>4. b \in Seq(Byte) /\ Len(b) = 3 BY <1>1, <1>3, ChunkLemma
  <1>5. Fits(wr, 3) BY <1>1, <1>3 DEF Fits
  <1>6. /\ mem' = WriteAt(mem, wr, b) /\ wr' = w /\ rd' = r
        /\ UNCHANGED <<cursor, call, pc, seg, borrowed, err, dirty>>
    BY <1>5 DEF B64Chunk
  <1>7. /\ Cursor' = Cursor /\ src' = src /\ op' = op /\ pc' = "b64" /\ pc' \in Labels
        /\ UNCHANGED <<borrowed, dirty, orig, len>> /\ Text' = Text
    BY <1>6, TextSame DEF cursor, call, Cursor, Labels
  <1>8. w <= len /\ w = wr + Len(b) BY <1>1, <1>3, <1>4
  <1>9. ASSUME ~dirty PROVE InLoop'
    <2>1. /\ op = "b64" /\ src = Cursor /\ Shows(mem, rd) /\ src \in Nat
          /\ \A k \in src..(rd - 1) : Text[k] \in Codes
      BY <1>9, B64Bounds
    <2>2. ASSUME NEW j \in 0..3 PROVE mem[rd + j] = Text[rd + j] /\ Text[rd + j] \in Codes
      <3>1. rd + j \in Pos /\ rd + j >= rd BY <1>1, <1>3 DEF Pos
      <3>2. mem[rd + j] = Text[rd + j] BY <2>1, <3>1 DEF Shows
      <3> QED BY <1>3, <3>2, CodesLemma
    <2>3. Unpacked(b, rd)
      <3>1. 4 - 1 = 3 OBVIOUS
      <3>2. Coded(rd, 4) BY <2>2, <3>1 DEF Coded
      <3> QED BY <1>1, <2>2, <3>2, ChunkOctets
    <2> HIDE DEF b, w
    <2>4. Octets(mem', src, w) BY <1>4, <1>6, <1>8, <1>9, <2>3, OctetsMore
    <2>5. \A k \in src..(r - 1) : Text[k] \in Codes
      <3>1. ASSUME NEW k \in src..(r - 1) PROVE Text[k] \in Codes
        <4>1. CASE k < rd BY <1>1, <2>1, <4>1
        <4>2. CASE ~(k < rd)
          <5>1. k - rd \in 0..3 /\ rd + (k - rd) = k BY <1>1, <2>1, <4>2
          <5> QED BY <2>2, <5>1
        <4> QED BY <4>1, <4>2
      <3> QED BY <3>1
    <2> HIDE DEF r
    <2>6. Decoded64' BY <1>6, <1>7, <2>4, <2>5, Zenon DEF Decoded64, Octets
    <2> QED BY <1>7, <2>1, <2>6 DEF InLoop
  <1> QED BY <1>7, <1>9, StayRight

\* What the codes up to c and the equal signs up to q denote.
Coded64(t, i, c, q, d) ==
  /\ i \in Nat /\ c \in Nat /\ c = Past(t, Codes, i) /\ q = Past(t, {Equals}, c)
  /\ d = (6 * (c - i)) \div 8
LEMMA Base64Is ==
  ASSUME NEW t, NEW i, NEW c, NEW q, NEW d, Coded64(t, i, c, q, d)
  PROVE  Base64(t, i) = IF t[q] = QU THEN Result([j \in 1..d |-> Octet(t, i, 8 * (j - 1))], q + 1)
                                     ELSE Failure
  <1>0. /\ i \in Nat /\ c \in Nat /\ c = Past(t, Codes, i) /\ q = Past(t, {Equals}, c)
        /\ d = (6 * (c - i)) \div 8
    BY Zenon DEF Coded64
  <1>1. i + (c - i) = c BY <1>0
  <1> DEFINE B == [j \in 1..d |-> Octet(t, i, 8 * (j - 1))]
  <1>2. B = [j \in 1..((6 * (c - i)) \div 8) |-> Octet(t, i, 8 * (j - 1))] BY <1>0, Zenon
  <1> HIDE DEF B
  <1>3. Base64(t, i) = IF t[q] = QU THEN Result(B, q + 1) ELSE Failure
    BY <1>0, <1>1, <1>2, Zenon DEF Base64
  <1> QED BY <1>3, Zenon DEF B

LEMMA Base64Fails ==
  ASSUME NEW t, NEW i, NEW c, NEW q, NEW d, Coded64(t, i, c, q, d), t[q] /= QU
  PROVE  Base64(t, i) = Failure
  BY Base64Is, Zenon

LEMMA B64TailRight ==
  ASSUME IInv, Right, Kept, pc = "b64", B64Tail, UNCHANGED <<orig, len>>
  PROVE  Right'
  <1>1. PICK n \in TailCount(mem, rd) :
          LET packed == Packed(mem, rd, n)
              bytes  == TailBytes(packed)
              m      == WriteAt(mem, wr, bytes)
              dcount == wr - Cursor
          IN IF Fits(wr, Len(bytes))
             THEN /\ mem' = m
                  /\ B64Close(m, dcount + Len(bytes), (dcount * 4) \div 3 + Leftovers(packed))
             ELSE Abort("panic") /\ UNCHANGED mem
    BY DEF B64Tail
  <1> DEFINE packed == Packed(mem, rd, n)
             b      == TailBytes(packed)
             dlen   == (wr - Cursor) + Len(b)
             elen   == ((wr - Cursor) * 4) \div 3 + Leftovers(packed)
  <1>2. /\ len \in Nat /\ base \in Nat /\ Cursor \in Nat /\ wr \in Nat /\ rd \in Nat
        /\ base <= Cursor /\ Cursor <= wr /\ wr <= rd /\ rd <= len
        /\ 3 * (rd - Cursor) = 4 * (wr - Cursor)
    BY CodecBounds
  <1>3. /\ n \in Nat /\ n <= 3 /\ rd + n <= len /\ Leftovers(packed) = n
        /\ b \in Seq(Byte) /\ Len(b) <= n
    BY <1>2, TailLemma
  <1>4. wr - Cursor \in Nat /\ rd - Cursor \in Nat BY <1>2
  <1>5. ((wr - Cursor) * 4) \div 3 = rd - Cursor BY <1>2, <1>4, EncodedLength
  <1>6. elen = (rd - Cursor) + n BY <1>3, <1>5
  <1>7. b = TailBytes(Packed(mem, rd, n)) OBVIOUS
  <1> HIDE DEF packed
  <1>8. mem' = WriteAt(mem, wr, b) /\ B64Close(mem', dlen, elen)
    <2>1. Fits(wr, Len(b)) BY <1>2, <1>3 DEF Fits
    <2> QED BY <1>1, <2>1 DEF packed
  <1> HIDE DEF b, elen
  <1> DEFINE w  == wr + Len(b)
             at == rd + n
  <1>9. /\ Len(b) \in Nat /\ dlen \in Nat /\ Cursor + dlen = w /\ Cursor + elen = at
        /\ w \in Nat /\ at \in Nat /\ w <= at /\ at <= len /\ rd <= at /\ at \in 0..len
    BY <1>2, <1>3, <1>6
  <1>10. \A i \in Pos : i >= w => mem'[i] = mem[i]
    <2>1. mem \in [Pos -> Byte] BY DEF IInv, TypeOK
    <2> QED BY <1>2, <1>3, <1>8, <2>1, WriteAtLemma
  <1>11. TypeOK /\ IsText(Text, len) BY TextUnits DEF IInv
  <1>12. ASSUME ~dirty
         PROVE  /\ op = "b64" /\ src = Cursor /\ at = Past(Text, Codes, src)
                /\ Octets(mem', src, w) /\ Shows(mem', at)
                /\ dlen = (6 * (at - src)) \div 8
    <2>1. /\ op = "b64" /\ src = Cursor /\ Shows(mem, rd) /\ src \in 0..len
          /\ (rd - wr) \in Nat /\ wr = src + 3 * (rd - wr) /\ rd = src + 4 * (rd - wr)
          /\ \A k \in src..(rd - 1) : Text[k] \in Codes
      BY <1>12, B64Bounds
    <2>2. ASSUME NEW j \in 0..(n - 1) PROVE mem[rd + j] = Text[rd + j] /\ Text[rd + j] \in Codes
      <3>1. rd + j \in Pos /\ rd + j >= rd BY <1>2, <1>3 DEF Pos
      <3>2. mem[rd + j] = Text[rd + j] BY <2>1, <3>1 DEF Shows
      <3>3. IsB64(mem[rd + j]) BY DEF TailCount
      <3> QED BY <3>2, <3>3, CodesLemma
    <2>3. Text[at] \notin Codes
      <3>1. CASE at = len BY <1>11, <3>1, CharLemma DEF IsText
      <3>2. CASE at /= len
        <4>1. ~IsB64(mem[at]) BY <3>2 DEF TailCount
        <4>2. at \in Pos /\ at >= rd BY <1>2, <1>9, <3>2 DEF Pos
        <4>3. mem[at] = Text[at] BY <2>1, <4>2 DEF Shows
        <4> QED BY <4>1, <4>3, CodesLemma
      <3> QED BY <3>1, <3>2
    <2>4. \A k \in src..(at - 1) : Text[k] \in Codes
      <3>1. ASSUME NEW k \in src..(at - 1) PROVE Text[k] \in Codes
        <4>1. CASE k < rd BY <1>2, <2>1, <4>1
        <4>2. CASE ~(k < rd)
          <5>1. k - rd \in 0..(n - 1) /\ rd + (k - rd) = k BY <1>2, <1>3, <2>1, <4>2
          <5> QED BY <2>2, <5>1
        <4> QED BY <4>1, <4>2
      <3> QED BY <3>1
    <2>5. Coded(rd, n) BY <2>2 DEF Coded
    <2>6. Unpacked(b, rd) /\ Len(b) = (6 * n) \div 8
      BY <1>2, <1>7, <2>2, <2>5, TailOctets
    <2>7. dlen = (6 * (at - src)) \div 8
      <3> DEFINE q == rd - wr
      <3>1. q \in Nat /\ wr = src + 3 * q /\ rd = src + 4 * q BY <2>1
      <3>2. n \in {0, 1, 2, 3} BY <1>3

      <3> HIDE DEF q
      <3>4. (6 * (4 * q + n)) \div 8 = 3 * q + Len(b)
        <4>1. CASE n = 0 /\ Len(b) = 0 BY <3>1, <4>1
        <4>2. CASE n = 1 /\ Len(b) = 0 BY <3>1, <4>2
        <4>3. CASE n = 2 /\ Len(b) = 1 BY <3>1, <4>3
        <4>4. CASE n = 3 /\ Len(b) = 2 BY <3>1, <4>4
        <4>5. \/ n = 0 /\ Len(b) = 0
              \/ n = 1 /\ Len(b) = 0
              \/ n = 2 /\ Len(b) = 1
              \/ n = 3 /\ Len(b) = 2
          BY <2>6, <3>2
        <4> QED BY <4>1, <4>2, <4>3, <4>4, <4>5, Zenon
      <3>5. at - src = 4 * q + n /\ dlen = 3 * q + Len(b) BY <1>2, <1>3, <1>9, <2>1, <3>1
      <3> QED BY <3>4, <3>5
    <2>8. at = Past(Text, Codes, src)
      <3>1. src <= at BY <1>2, <1>9, <2>1
      <3> HIDE DEF at
      <3> QED BY <1>9, <1>11, <2>1, <2>3, <2>4, <3>1, PastUnique, CharLemma
    <2>9. Octets(mem', src, w)
      <3>1. w = wr + Len(b) /\ w <= len BY <1>2, <1>9
      <3> HIDE DEF w
      <3> QED BY <1>3, <1>8, <1>12, <2>6, <3>1, OctetsMore
    <2>10. Shows(mem', at)
      <3>1. ASSUME NEW i \in Pos, i >= at PROVE mem'[i] = Text[i]
        <4>1. i >= w /\ i >= rd BY <1>2, <1>9, <3>1 DEF Pos
        <4> QED BY <1>10, <2>1, <4>1 DEF Shows
      <3> QED BY <3>1 DEF Shows
    <2> QED BY <2>1, <2>7, <2>8, <2>9, <2>10
  <1> HIDE DEF dlen, w, at
  \* The text after the codes ends at q.
  <1>13. ASSUME NEW x, Fail(x), NEW q, ~dirty => q = Past(Text, {Equals}, at) /\ Text[q] /= QU
         PROVE  Right'
    <2>1. ASSUME ~dirty PROVE NoValue(op, src)
      <3>1. src \in Nat BY <1>2, <1>12, <2>1
      <3>0. Coded64(Text, src, at, q, dlen) BY <1>9, <1>12, <1>13, <2>1, <3>1, Zenon DEF Coded64
      <3>a. Text[q] /= QU BY <1>13, <2>1
      <3>2. Base64(Text, src) = Failure BY <3>a, <3>0, Base64Fails
      <3>3. Reference(Text, op, src) = Base64(Text, src) BY <1>12, <2>1 DEF Reference
      <3> QED BY <3>2, <3>3 DEF NoValue, Failure
    <2> QED BY <1>13, <2>1, FailRight
  <1>14. ASSUME NEW q \in Nat, SplitInput(op, src, Cursor, dlen, (q - Cursor) + 1 - dlen),
                ~dirty => q = Past(Text, {Equals}, at) /\ Text[q] = QU
         PROVE  Right'
    <2> DEFINE skip == (q - Cursor) + 1 - dlen
               k == q + 1
    <2>1. Cursor + dlen + skip = k BY <1>2, <1>9
    <2>2. SplitInput(op, src, Cursor, dlen, skip) BY <1>14
    <2> HIDE DEF skip, k
    <2>3. ASSUME ~dirty PROVE Denotes(op, src, Bytes(mem', Cursor, Cursor + dlen), Cursor + dlen + skip)
      <3> DEFINE B == [j \in 1..dlen |-> Octet(Text, src, 8 * (j - 1))]
      <3>1. src \in Nat /\ src = Cursor BY <1>2, <1>12, <2>3
      <3>0. Coded64(Text, src, at, q, dlen) BY <1>9, <1>12, <1>14, <2>3, <3>1, Zenon DEF Coded64
      <3>2. Base64(Text, src) = Result(B, k) BY <1>14, <2>3, <3>0, Base64Is, Zenon DEF k
      <3>3. Reference(Text, op, src) = Base64(Text, src) BY <1>12, <2>3 DEF Reference
      <3>4. Bytes(mem', Cursor, Cursor + dlen) = B
        <4>1. ASSUME NEW j \in 1..dlen PROVE mem'[src + j - 1] = Octet(Text, src, 8 * (j - 1))
          <5> DEFINE y == j - 1
          <5>1. y \in 0..(w - src - 1) /\ src + j - 1 = src + y BY <1>9, <3>1
          <5> HIDE DEF y
          <5>2. mem'[src + y] = Octet(Text, src, 8 * y) BY <1>12, <2>3, <5>1 DEF Octets
          <5> QED BY <5>1, <5>2 DEF y
        <4>2. (src + dlen) - src = dlen BY <1>9, <3>1
        <4>3. Bytes(mem', src, src + dlen) = [j \in 1..dlen |-> mem'[src + j - 1]]
          BY <4>2 DEF Bytes
        <4> QED BY <3>1, <4>1, <4>3
      <3> HIDE DEF B
      <3>5. Result(B, k).ok /\ Result(B, k).bytes = B /\ Result(B, k).end = k BY DEF Result
      <3> QED BY <2>1, <3>2, <3>3, <3>4, <3>5, Zenon DEF Denotes
    <2> QED BY <1>2, <1>9, <2>2, <2>3, SplitRight
  <1> DEFINE at1 == at + 1
  <1>15. at1 \in Nat BY <1>9
  <1>16. \/ at = len /\ Fail("UnexpectedEof")
         \/ at < len /\ mem'[at] = QU /\ SplitInput(op, src, Cursor, dlen, (at - Cursor) + 1 - dlen)
         \/ at < len /\ mem'[at] \notin {QU, Equals} /\ Fail("UnexpectedChar")
         \/ /\ at < len /\ mem'[at] = Equals
            /\ \E q \in Scan(mem', Byte \ {Equals}, at1) :
                 \/ q = len /\ Fail("UnexpectedEof")
                 \/ q < len /\ mem'[q] = QU
                    /\ SplitInput(op, src, Cursor, dlen, (q - Cursor) + 1 - dlen)
                 \/ q < len /\ mem'[q] /= QU /\ Fail("UnexpectedChar")
    <2>1. Cursor + elen = at BY <1>9
    <2> QED BY <1>8, <2>1 DEF B64Close
  <1>17. ASSUME ~dirty, at < len PROVE Text[at] = mem'[at]
    <2>1. at \in Pos /\ at >= at BY <1>2, <1>9, <1>17 DEF Pos
    <2> QED BY <1>12, <1>17, <2>1 DEF Shows
  <1>18. ASSUME ~dirty, Text[at] /= Equals PROVE at = Past(Text, {Equals}, at)
    <2>1. at <= at /\ \A k \in at..(at - 1) : Text[k] \in {Equals} BY <1>9
    <2>2. Eof \notin {Equals} /\ Text[at] \notin {Equals} BY <1>18, CharLemma
    <2> QED BY <1>9, <1>11, <2>1, <2>2, PastUnique
  <1>a. QU /= Equals /\ Eof /= QU /\ Eof /= Equals BY DEF QU, Equals, Eof
  <1>b. at = len => Text[at] = Eof BY <1>11 DEF IsText
  <1>19. CASE at = len /\ Fail("UnexpectedEof") BY <1>13, <1>18, <1>19, <1>a, <1>b
  <1>20. CASE at < len /\ mem'[at] = QU /\ SplitInput(op, src, Cursor, dlen, (at - Cursor) + 1 - dlen)
    BY <1>9, <1>14, <1>17, <1>18, <1>20, <1>a
  <1>21. CASE at < len /\ mem'[at] \notin {QU, Equals} /\ Fail("UnexpectedChar")
    BY <1>13, <1>17, <1>18, <1>21, <1>a
  <1>22. ASSUME at < len, mem'[at] = Equals, NEW q \in Scan(mem', Byte \ {Equals}, at1)
         PROVE  /\ q \in Nat
                /\ ~dirty => /\ q = Past(Text, {Equals}, at)
                             /\ q = len => Text[q] = Eof
                             /\ q < len => Text[q] = mem'[q]
    <2>1. at1 \in 0..len BY <1>2, <1>9, <1>22
    <2> HIDE DEF at1
    <2>2. q \in Nat BY <1>2, <1>15, ScanLemma
    <2>3. ASSUME ~dirty
          PROVE  /\ q = Past(Text, {Equals}, at)
                 /\ q = len => Text[q] = Eof
                 /\ q < len => Text[q] = mem'[q]
      <3>1. Shows(mem', at1)
        <4>1. at <= at1 BY <1>9 DEF at1
        <4> QED BY <1>2, <1>9, <1>12, <1>15, <2>3, <4>1, ShowsLater
      <3>2. /\ q = len => Text[q] = Eof
            /\ q < len => Text[q] = mem'[q] /\ Text[q] \in Byte \ {Equals}
            /\ at1 <= q /\ q \in 0..len /\ q <= len
            /\ \A k \in at1..(q - 1) : Text[k] \notin Byte \ {Equals} /\ Text[k] \in Byte
        BY <1>11, <2>1, <3>1, ScanText
      <3>3. Text[q] \notin {Equals} /\ Eof \notin {Equals}
        <4>1. q = len \/ q < len BY <1>2, <3>2
        <4> QED BY <3>2, <4>1, <1>a
      <3>4. at <= q BY <1>9, <2>2, <3>2 DEF at1
      <3>5. ASSUME NEW k \in at..(q - 1) PROVE Text[k] \in {Equals}
        <4>1. CASE k = at BY <1>17, <1>22, <2>3, <4>1
        <4>2. CASE k /= at
          <5>1. k \in at1..(q - 1) BY <1>9, <2>2, <4>2 DEF at1
          <5> QED BY <3>2, <5>1
        <4> QED BY <4>1, <4>2
      <3>6. q = Past(Text, {Equals}, at) BY <1>9, <1>11, <3>2, <3>3, <3>4, <3>5, PastUnique
      <3> QED BY <3>2, <3>6
    <2> QED BY <2>2, <2>3
  <1>23. ASSUME at < len, mem'[at] = Equals, NEW q \in Scan(mem', Byte \ {Equals}, at1),
                \/ q = len /\ Fail("UnexpectedEof")
                \/ q < len /\ mem'[q] = QU
                   /\ SplitInput(op, src, Cursor, dlen, (q - Cursor) + 1 - dlen)
                \/ q < len /\ mem'[q] /= QU /\ Fail("UnexpectedChar")
         PROVE  Right'
    <2>0. /\ q \in Nat
          /\ ~dirty => /\ q = Past(Text, {Equals}, at)
                       /\ q = len => Text[q] = Eof
                       /\ q < len => Text[q] = mem'[q]
      BY <1>22, <1>23
    <2>1. CASE q = len /\ Fail("UnexpectedEof") BY <1>13, <2>0, <2>1, <1>a
    <2>2. CASE /\ q < len /\ mem'[q] = QU
               /\ SplitInput(op, src, Cursor, dlen, (q - Cursor) + 1 - dlen)
      BY <1>14, <2>0, <2>2
    <2>3. CASE q < len /\ mem'[q] /= QU /\ Fail("UnexpectedChar") BY <1>13, <2>0, <2>3
    <2> QED BY <1>23, <2>1, <2>2, <2>3
  <1> HIDE DEF at1
  <1> QED BY <1>16, <1>19, <1>20, <1>21, <1>23

LEMMA B64StepRight == ASSUME IInv, Right, Kept, B64Step PROVE Right'
  BY B64ChunkRight, B64TailRight DEF B64Step

-----------------------------------------------------------------------------
(* UTF-8 in the buffer and in the decoded bytes *)

Continued(m, lo, i, k) ==
  /\ i - k >= lo /\ m[i - k] \notin Cont /\ Utf8Len(m[i - k]) > k
  /\ \A n \in 1..(k - 1) : m[i - n] \in Cont
Trailing(m, lo, i) == \E k \in 1..3 : Continued(m, lo, i, k)
Leading(m, hi, i) ==
  /\ m[i] \in 0..127 \cup 194..244
  /\ Utf8Len(m[i]) > 1 => i + 1 < hi /\ m[i + 1] \in Second(m[i])
  /\ \A k \in 2..(Utf8Len(m[i]) - 1) : i + k < hi /\ m[i + k] \in Cont
Utf8At(m, lo, hi, i) == IF m[i] \in Cont THEN Trailing(m, lo, i) ELSE Leading(m, hi, i)

LEMMA Utf8Parts ==
  ASSUME NEW m, NEW lo, NEW hi
  PROVE  IsUtf8(m, lo, hi) <=> \A i \in lo..(hi - 1) : Utf8At(m, lo, hi, i)
  BY Zenon DEF IsUtf8, Utf8At, Trailing, Leading, Continued

LEMMA Utf8LenLemma ==
  ASSUME NEW c
  PROVE  Utf8Len(c) \in {1, 2, 3, 4}
  BY DEF Utf8Len

\* s holds what m holds from lo on, up to hi.
Copies(s, m, lo, hi, h) ==
  /\ lo \in Nat /\ hi \in Nat /\ lo <= hi /\ h = hi - lo + 1
  /\ \A k \in 1..(hi - lo) : s[k] = m[lo + k - 1]

LEMMA ContinuedShift ==
  ASSUME NEW s, NEW m, NEW lo, NEW hi, NEW h, Copies(s, m, lo, hi, h),
         NEW j \in 1..(hi - lo), NEW i, i = lo + j - 1, NEW k \in 1..3
  PROVE  Continued(m, lo, i, k) <=> Continued(s, 1, j, k)
  <1>0. lo \in Nat /\ hi \in Nat /\ lo <= hi /\ \A x \in 1..(hi - lo) : s[x] = m[lo + x - 1]
    BY DEF Copies
  <1>1. i - k >= lo <=> j - k >= 1 BY <1>0
  <1>2. ASSUME NEW n \in 1..k, j - k >= 1 PROVE m[i - n] = s[j - n]
    <2>1. j - n \in 1..(hi - lo) /\ lo + (j - n) - 1 = i - n BY <1>0, <1>2
    <2> QED BY <1>0, <2>1
  <1>3. k \in 1..k /\ \A n \in 1..(k - 1) : n \in 1..k OBVIOUS
  <1>4. ASSUME j - k >= 1
        PROVE  m[i - k] = s[j - k] /\ \A n \in 1..(k - 1) : m[i - n] = s[j - n]
    BY <1>2, <1>3, <1>4
  <1>5. CASE j - k >= 1
    <2> DEFINE x == m[i - k]
    <2>1. Continued(m, lo, i, k) <=>
            x \notin Cont /\ Utf8Len(x) > k /\ \A n \in 1..(k - 1) : m[i - n] \in Cont
      BY <1>1, <1>5 DEF Continued
    <2>2. Continued(s, 1, j, k) <=>
            x \notin Cont /\ Utf8Len(x) > k /\ \A n \in 1..(k - 1) : s[j - n] \in Cont
      BY <1>4, <1>5 DEF Continued
    <2> HIDE DEF x
    <2>3. (\A n \in 1..(k - 1) : m[i - n] \in Cont) <=> (\A n \in 1..(k - 1) : s[j - n] \in Cont)
      BY <1>4, <1>5
    <2> QED BY <2>1, <2>2, <2>3
  <1>6. CASE ~(j - k >= 1) BY <1>1, <1>6 DEF Continued
  <1> QED BY <1>5, <1>6

LEMMA LeadingShift ==
  ASSUME NEW s, NEW m, NEW lo, NEW hi, NEW h, Copies(s, m, lo, hi, h),
         NEW j \in 1..(hi - lo), NEW i, i = lo + j - 1
  PROVE  Leading(m, hi, i) <=> Leading(s, h, j)
  <1>0. /\ lo \in Nat /\ hi \in Nat /\ lo <= hi /\ h = hi - lo + 1
        /\ \A x \in 1..(hi - lo) : s[x] = m[lo + x - 1]
    BY DEF Copies
  <1>1. m[i] = s[j] BY <1>0
  <1> DEFINE u == Utf8Len(m[i])
  <1>2. u \in Nat BY Utf8LenLemma
  <1>3. ASSUME NEW k \in Nat, k > 0
        PROVE  /\ i + k < hi <=> j + k < h
               /\ i + k < hi => m[i + k] = s[j + k]
    <2>1. i + k < hi <=> j + k < h BY <1>0
    <2>2. ASSUME i + k < hi PROVE m[i + k] = s[j + k]
      <3>1. j + k \in 1..(hi - lo) /\ lo + (j + k) - 1 = i + k BY <1>0, <2>2
      <3> QED BY <1>0, <3>1
    <2> QED BY <2>1, <2>2
  <1>4. (i + 1 < hi /\ m[i + 1] \in Second(m[i])) <=> (j + 1 < h /\ s[j + 1] \in Second(m[i]))
    BY <1>3
  <1> HIDE DEF u
  <1>5. (\A k \in 2..(u - 1) : i + k < hi /\ m[i + k] \in Cont)
          <=> (\A k \in 2..(u - 1) : j + k < h /\ s[j + k] \in Cont)
    <2>1. ASSUME NEW k \in 2..(u - 1)
          PROVE  (i + k < hi /\ m[i + k] \in Cont) <=> (j + k < h /\ s[j + k] \in Cont)
      <3>1. k \in Nat /\ k > 0 BY <1>2
      <3> QED BY <1>3, <3>1
    <2> QED BY <2>1, Zenon
  <1>6. Leading(m, hi, i) <=>
          /\ m[i] \in 0..127 \cup 194..244
          /\ u > 1 => i + 1 < hi /\ m[i + 1] \in Second(m[i])
          /\ \A k \in 2..(u - 1) : i + k < hi /\ m[i + k] \in Cont
    BY Zenon DEF Leading, u
  <1>7. Leading(s, h, j) <=>
          /\ m[i] \in 0..127 \cup 194..244
          /\ u > 1 => j + 1 < h /\ s[j + 1] \in Second(m[i])
          /\ \A k \in 2..(u - 1) : j + k < h /\ s[j + k] \in Cont
    BY <1>1, Zenon DEF Leading, u
  <1> QED BY <1>4, <1>5, <1>6, <1>7, Zenon

LEMMA Utf8Shift ==
  ASSUME NEW s, NEW m, NEW lo, NEW hi, NEW h, Copies(s, m, lo, hi, h)
  PROVE  IsUtf8(m, lo, hi) <=> IsUtf8(s, 1, h)
  <1>0. /\ lo \in Nat /\ hi \in Nat /\ lo <= hi /\ h = hi - lo + 1 /\ h - 1 = hi - lo
        /\ \A x \in 1..(hi - lo) : s[x] = m[lo + x - 1]
    BY DEF Copies
  <1>1. ASSUME NEW j \in 1..(hi - lo), NEW i, i = lo + j - 1
        PROVE  Utf8At(m, lo, hi, i) <=> Utf8At(s, 1, h, j)
    <2>1. m[i] = s[j] BY <1>0, <1>1
    <2>2. Trailing(m, lo, i) <=> Trailing(s, 1, j)
      <3>1. \A k \in 1..3 : Continued(m, lo, i, k) <=> Continued(s, 1, j, k)
        BY <1>1, ContinuedShift
      <3> QED BY <3>1, Zenon DEF Trailing
    <2>3. Leading(m, hi, i) <=> Leading(s, h, j) BY <1>1, LeadingShift
    <2> QED BY <2>1, <2>2, <2>3, Zenon DEF Utf8At
  <1>2. ASSUME IsUtf8(m, lo, hi), NEW j \in 1..(h - 1) PROVE Utf8At(s, 1, h, j)
    <2>1. PICK i : i = lo + j - 1 OBVIOUS
    <2>2. i \in lo..(hi - 1) /\ j \in 1..(hi - lo) BY <1>0, <2>1
    <2>3. Utf8At(m, lo, hi, i) BY <1>2, <2>2, Utf8Parts
    <2> QED BY <1>1, <2>1, <2>2, <2>3
  <1>3. ASSUME IsUtf8(s, 1, h), NEW i \in lo..(hi - 1) PROVE Utf8At(m, lo, hi, i)
    <2>1. PICK j : j = i - lo + 1 OBVIOUS
    <2>2. j \in 1..(hi - lo) /\ j \in 1..(h - 1) /\ i = lo + j - 1 BY <1>0, <2>1
    <2>3. Utf8At(s, 1, h, j) BY <1>3, <2>2, Utf8Parts
    <2> QED BY <1>1, <2>2, <2>3
  <1> QED BY <1>2, <1>3, Utf8Parts

-----------------------------------------------------------------------------
(* parse_str_bytes_content, again *)

\* m holds from where the content begins to dest what the string denotes up to end.
StrSoFar(m, dest, end) ==
  /\ op \in {"str", "bytes"} /\ src = Cursor /\ Shows(m, end)
  /\ Continues(Chain(StringUnits(Text)), src, Bytes(m, src, dest), end)
  /\ Span(m, src, dest) /\ Bytes(m, src, dest) \in Seq(Byte)

LEMMA JoinJoin ==
  ASSUME NEW a \in Seq(Byte), NEW b \in Seq(Byte), NEW c \in Seq(Byte)
  PROVE  Join(Join(a, b), c) = Join(a, Join(b, c)) /\ Join(a, b) \in Seq(Byte)
  BY ConcatAssociative, ConcatProperties DEF Join

\* The plain characters between two escapes are moved behind what is decoded.
LEMMA StrRun ==
  ASSUME IInv, Right, pc = "str", ~dirty, NEW end \in Scan(mem, Control \cup {QU, RS}, rd),
         NEW m, m = CopyWithin(mem, seg, end, wr), NEW dest, dest = wr + (end - seg)
  PROVE  StrSoFar(m, dest, end)
  <1> DEFINE S == Chain(StringUnits(Text))
             A == Bytes(mem, src, wr)
             B == Bytes(mem, seg, rd)
             C == Bytes(mem, rd, end)
  <1>0. TypeOK /\ IsText(Text, len) /\ IsUnits(StringUnits(Text), len) BY TextUnits DEF IInv
  <1>1. /\ len \in Nat /\ wr \in Nat /\ seg \in Nat /\ rd \in Nat /\ src \in Nat
        /\ src <= wr /\ wr <= seg /\ seg <= rd /\ rd <= len /\ rd \in 0..len
        /\ op \in {"str", "bytes"} /\ src = Cursor
        /\ Continues(S, src, Join(A, B), rd)
        /\ Shows(mem, rd)
    BY StrBounds, UnreadShows DEF Right, InLoop
  <1>2. /\ end \in Nat /\ rd <= end /\ end <= len /\ end \in 0..len /\ end \in rd..len
        /\ \A k \in rd..(end - 1) : /\ Text[k] \notin Control \cup {QU, RS} /\ Text[k] = mem[k]
                                    /\ Text[k] \in Byte
    BY <1>0, <1>1, ScanText
  <1>3. dest \in Nat /\ wr <= dest /\ dest <= end /\ src <= dest BY <1>1, <1>2
  <1>4. /\ Span(mem, src, wr) /\ A \in Seq(Byte) /\ Span(mem, seg, rd) /\ B \in Seq(Byte)
        /\ Span(mem, rd, end) /\ C \in Seq(Byte) /\ Span(mem, seg, end)
    <2>1. wr <= len /\ seg <= end BY <1>1, <1>2
    <2> QED BY <1>0, <1>1, <1>2, <2>1, BufferSpan
  <1>5. S[rd] = Before(C, S[end])
    <2>1. \A k \in rd..(end - 1) : Text[k] \notin Control \cup {QU, RS, Eof} BY <1>2, CharLemma
    <2>2. S[rd] = Before(Bytes(Text, rd, end), S[end]) BY <1>0, <1>1, <1>2, <2>1, PlainRun
    <2>3. Keeps(mem, Text, rd, end) BY <1>2 DEF Keeps
    <2>4. Bytes(Text, rd, end) = C BY <1>4, <2>3, PieceKept
    <2> QED BY <2>2, <2>4
  <1>6. S[end] \in Results BY <1>0, <1>1, <1>2, ChainLemma
  <1>7. Bytes(mem, seg, end) = Join(B, C)
    <2>1. rd \in seg..end BY <1>1, <1>2
    <2> QED BY <1>4, <2>1, PieceSplit
  <1>8. mem \in [Pos -> Byte] BY <1>0 DEF TypeOK
  <1>9. Joins(mem, m, src, wr, seg, end, dest)
    <2>1. ASSUME NEW k \in src..(wr - 1) PROVE m[k] = mem[k]
      <3>1. k \in Pos /\ k < wr BY <1>1 DEF Pos
      <3> QED BY <1>1, <1>2, <1>8, <3>1, CopyWithinLemma
    <2>2. ASSUME NEW k \in seg..(end - 1) PROVE m[wr + (k - seg)] = mem[k]
      <3> DEFINE i == wr + (k - seg)
      <3>1. i \in Pos /\ i \in wr..(wr + (end - seg) - 1) /\ i + (seg - wr) = k
        BY <1>1, <1>2 DEF Pos
      <3> HIDE DEF i
      <3>2. m[i] = mem[i + (seg - wr)] BY <3>1 DEF CopyWithin
      <3> QED BY <3>1, <3>2 DEF i
    <2>3. Keeps(mem, m, src, wr) BY <2>1 DEF Keeps
    <2>4. Shifts(mem, m, seg, end, wr) BY <2>2 DEF Shifts
    <2> QED BY <1>4, <2>3, <2>4, Zenon DEF Joins
  <1>10. Bytes(m, src, dest) = Join(A, Join(B, C)) /\ Span(m, src, dest)
    BY <1>7, <1>9, PieceJoin
  <1>11. Bytes(m, src, dest) \in Seq(Byte) BY <1>10, PieceSeq
  <1> HIDE DEF S, A, B, C
  <1>12. Continues(S, src, Bytes(m, src, dest), end)
    <2>1. Join(A, B) \in Seq(Byte) /\ Join(Join(A, B), C) = Join(A, Join(B, C)) BY <1>4, JoinJoin
    <2>2. S[src] = Before(Join(A, B), S[rd]) BY <1>1 DEF Continues
    <2>3. Before(Join(A, B), Before(C, S[end])) = Before(Join(Join(A, B), C), S[end])
      BY <1>4, <1>6, <2>1, BeforeBefore
    <2>4. S[src] = Before(Bytes(m, src, dest), S[end])
      BY <1>5, <1>10, <2>1, <2>2, <2>3, Zenon
    <2> QED BY <2>4, Zenon DEF Continues
  <1>13. Shows(m, end)
    <2>1. ASSUME NEW k \in Pos, k >= end PROVE m[k] = Text[k]
      <3>1. k >= wr + (end - seg) /\ k >= rd BY <1>1, <1>2, <1>3, <2>1 DEF Pos
      <3>2. m[k] = mem[k] BY <1>1, <1>2, <1>8, <3>1, CopyWithinLemma
      <3> QED BY <1>1, <3>1, <3>2 DEF Shows
    <2> QED BY <2>1 DEF Shows
  <1> QED BY <1>1, <1>10, <1>11, <1>12, <1>13, Zenon DEF StrSoFar, S

\* The string denotes nothing.
LEMMA StrFail ==
  ASSUME IInv, Right, Kept, NEW e, Fail(e), UNCHANGED <<orig, len>>,
         ~dirty => op \in {"str", "bytes"} /\ ~Chain(StringUnits(Text))[src].ok
  PROVE  Right'
  <1>1. ASSUME ~dirty PROVE NoValue(op, src)
    <2> DEFINE r == Chain(StringUnits(Text))[src]
    <2>1. ~r.ok /\ op \in {"str", "bytes"} BY <1>1
    <2>2. Reference(Text, op, src) \in {r, Valid(r)} BY <2>1 DEF Reference
    <2> HIDE DEF r
    <2>3. Valid(r) = r BY <2>1 DEF Valid
    <2> QED BY <2>1, <2>2, <2>3 DEF NoValue
  <1> QED BY <1>1, FailRight

\* No unit at end.
LEMMA StrBad ==
  ASSUME IInv, Right, Kept, NEW e, Fail(e), UNCHANGED <<orig, len>>, NEW m, NEW dest, NEW end \in 0..len,
         ~dirty => StrSoFar(m, dest, end) /\ StringUnits(Text)[end] = Bad
  PROVE  Right'
  <1>1. ASSUME ~dirty PROVE op \in {"str", "bytes"} /\ ~Chain(StringUnits(Text))[src].ok
    <2>1. StrSoFar(m, dest, end) /\ StringUnits(Text)[end] = Bad BY <1>1
    <2> QED BY <2>1, TextUnits, ContinuesBad DEF StrSoFar
  <1> QED BY <1>1, StrFail

\* A unit at end: m and its bytes give what the buffer now holds.
LEMMA StrMore ==
  ASSUME IInv, Right, Kept, pc = "str", NEW m, NEW dest, NEW end \in 0..len,
         NEW b \in Seq(Byte), NEW k \in Nat,
         UNCHANGED <<cursor, call, pc, borrowed, dirty, orig, len>>, rd' = k,
         ~dirty => /\ StrSoFar(m, dest, end) /\ StringUnits(Text)[end] = More(b, k)
                   /\ Join(Bytes(mem', src, wr'), Bytes(mem', seg', k)) = Join(Bytes(m, src, dest), b)
  PROVE  Right'
  <1>1. /\ Cursor' = Cursor /\ src' = src /\ op' = op /\ pc' = "str" /\ pc' \in Labels
        /\ UNCHANGED <<borrowed, dirty, orig, len>> /\ Text' = Text
    BY TextSame DEF cursor, call, Cursor, Labels
  <1>2. ASSUME ~dirty PROVE InLoop'
    <2>1. /\ op \in {"str", "bytes"} /\ src = Cursor
          /\ Continues(Chain(StringUnits(Text)), src, Bytes(m, src, dest), end)
          /\ Bytes(m, src, dest) \in Seq(Byte) /\ StringUnits(Text)[end] = More(b, k)
      BY <1>2 DEF StrSoFar
    <2>2. Continues(Chain(StringUnits(Text)), src, Join(Bytes(m, src, dest), b), k)
      BY <2>1, TextUnits, ContinuesLemma
    <2>3. Join(Bytes(mem', src, wr'), Bytes(mem', seg', k)) = Join(Bytes(m, src, dest), b)
      BY <1>2
    <2>4. Continues(Chain(StringUnits(Text)), src, Join(Bytes(mem, src, wr), Bytes(mem, seg, rd)), rd)'
      BY <1>1, <2>2, <2>3, Zenon
    <2> QED BY <1>1, <2>1, <2>4 DEF InLoop
  <1> QED BY <1>1, <1>2, StayRight

LEMMA StrQuoteRight ==
  ASSUME IInv, Right, Kept, pc = "str", NEW end, StrAt(end), StrQuote(mem', end),
         NEW dest, dest = wr + (end - seg), UNCHANGED <<orig, len>>,
         ~dirty => StrSoFar(mem', dest, end) /\ Text[end] = QU
  PROVE  Right'
  <1> DEFINE n    == wr + (end - seg) - Cursor
             skip == (seg - wr) + 1
             k    == end + 1
             B    == Bytes(mem', src, dest)
             S    == Chain(StringUnits(Text))
  <1>1. /\ len \in Nat /\ Cursor \in Nat /\ end \in Nat /\ end \in 0..len /\ dest \in Nat
        /\ Cursor <= dest /\ n \in Nat /\ skip \in Nat
        /\ Cursor + n = dest /\ Cursor + n + skip = k /\ k \in Nat
    BY StrBounds DEF StrAt
  <1>2. ASSUME ~dirty
        PROVE  /\ op \in {"str", "bytes"} /\ src = Cursor /\ Ends(S, src, B, k)
               /\ Bytes(mem', Cursor, Cursor + n) = B /\ Span(mem', src, dest)
    <2>1. StrSoFar(mem', dest, end) /\ Text[end] = QU BY <1>2
    <2>2. StringUnits(Text)[end] = Last(<<>>, k) BY <1>1, <2>1, TextUnits, StringUnitsLemma
    <2>3. Continues(S, src, B, end) /\ B \in Seq(Byte) BY <2>1 DEF StrSoFar
    <2> HIDE DEF S, B, k, n
    <2>4. Ends(S, src, B, k) BY <1>1, <2>2, <2>3, TextUnits, ContinuesLast DEF S
    <2> QED BY <1>1, <2>1, <2>4, Zenon DEF StrSoFar, B
  <1>3. ASSUME ~dirty PROVE IsUtf8(mem', Cursor, Cursor + n) <=> IsUtf8(B, 1, Len(B) + 1)
    <2> DEFINE h == dest - src + 1
    <2>1. IsPiece(B, mem', src, dest) BY <1>2, <1>3, PieceLemma
    <2> HIDE DEF B, n
    <2>2. Copies(B, mem', src, dest, h) /\ Len(B) + 1 = h
      BY <1>1, <1>2, <1>3, <2>1 DEF Copies, IsPiece
    <2> HIDE DEF h
    <2>3. IsUtf8(mem', src, dest) <=> IsUtf8(B, 1, h) BY <2>2, Utf8Shift
    <2> QED BY <1>1, <1>2, <1>3, <2>2, <2>3, Zenon
  <1>4. CASE /\ op = "str" /\ ~IsUtf8(mem', Cursor, Cursor + n)
             /\ Fail("InvalidUnicodeCodePoint")
    <2>1. ASSUME ~dirty PROVE NoValue(op, src)
      <3> DEFINE r == S[src]
      <3>1. Reference(Text, op, src) = Valid(r) BY <1>4 DEF Reference
      <3>2. r.ok /\ r.bytes = B BY <1>2, <2>1 DEF Ends
      <3>3. ~IsUtf8(B, 1, Len(B) + 1) BY <1>3, <1>4, <2>1
      <3> HIDE DEF B, r
      <3>4. Valid(r) = Failure BY <3>2, <3>3 DEF Valid
      <3> QED BY <3>1, <3>4 DEF NoValue, Failure
    <2> QED BY <1>4, <2>1, FailRight
  <1>5. CASE /\ ~(op = "str" /\ ~IsUtf8(mem', Cursor, Cursor + n))
             /\ SplitInput(op, src, Cursor, n, skip)
    <2>1. ASSUME ~dirty PROVE Denotes(op, src, Bytes(mem', Cursor, Cursor + n), Cursor + n + skip)
      <3> DEFINE r == S[src]
      <3>1. r.ok /\ r.bytes = B /\ r.end = k BY <1>2, <2>1 DEF Ends
      <3>2. op = "str" => IsUtf8(B, 1, Len(B) + 1) BY <1>3, <1>5, <2>1
      <3>3. /\ op = "str" => Reference(Text, op, src) = Valid(r)
            /\ op = "bytes" => Reference(Text, op, src) = r
        BY DEF Reference
      <3> HIDE DEF r, B
      <3>4. op = "str" => Valid(r) = r BY <3>1, <3>2 DEF Valid
      <3>5. Reference(Text, op, src) = r BY <1>2, <2>1, <3>3, <3>4
      <3>6. Bytes(mem', Cursor, Cursor + n) = B BY <1>2, <2>1
      <3> HIDE DEF n, skip, k
      <3> QED BY <1>1, <3>1, <3>5, <3>6, Zenon DEF Denotes
    <2> HIDE DEF n, skip
    <2> QED BY <1>1, <1>5, <2>1, SplitRight
  <1> QED BY <1>4, <1>5 DEF StrQuote

LEMMA UnescapedRight ==
  ASSUME IInv, Right, Kept, pc = "str", NEW m, NEW end, StrAt(end), Moved(m, end),
         NEW bytes \in Seq(Byte), NEW size \in Nat, Unescaped(m, end, bytes, size),
         NEW dest, dest = wr + (end - seg), UNCHANGED <<orig, len>>,
         ~dirty => StrSoFar(m, dest, end) /\ StringUnits(Text)[end] = More(bytes, end + size)
  PROVE  Right'
  <1> DEFINE n == dest + Len(bytes)
             k == end + size
  <1>1. /\ len \in Nat /\ end \in Nat /\ end \in 0..len /\ dest \in Nat /\ Len(bytes) \in Nat
        /\ n \in Nat /\ k \in Nat /\ Cursor \in Nat /\ Cursor <= dest
    BY StrBounds DEF StrAt
  <1>2. Fits(dest, Len(bytes))
    <2>1. NoPanic' BY DEF Kept, IInv
    <2> QED BY <2>1, Zenon DEF Unescaped, Abort, NoPanic
  <1>3. /\ mem' = WriteAt(m, dest, bytes)
        /\ wr' = n /\ seg' = k /\ rd' = k
        /\ UNCHANGED <<cursor, call, pc, borrowed, dirty, orig, len>>
    BY <1>2 DEF Unescaped
  <1>4. n <= len BY <1>2 DEF Fits
  <1> HIDE DEF n, k
  <1>5. ASSUME ~dirty
        PROVE  Join(Bytes(mem', src, wr'), Bytes(mem', seg', k)) = Join(Bytes(m, src, dest), bytes)
    <2>1. StrSoFar(m, dest, end) BY <1>5
    <2>2. src \in Nat /\ src <= dest BY <1>1, <2>1 DEF StrSoFar
    <2>3. Follows(m, mem', src, dest, bytes, n)
      <3>1. m \in [Pos -> Byte] /\ n = dest + Len(bytes) BY DEF Moved, n
      <3> QED BY <1>1, <1>3, <1>4, <2>2, <3>1, WriteFollows
    <2>4. Bytes(mem', src, n) = Join(Bytes(m, src, dest), bytes) /\ Span(mem', src, n)
      BY <2>3, PieceThen
    <2>5. Bytes(mem', src, n) \in Seq(Byte) BY <2>4, PieceSeq
    <2>6. Bytes(mem', k, k) = <<>> BY <1>1, PieceEmpty
    <2>7. Join(Bytes(mem', src, n), <<>>) = Bytes(mem', src, n) BY <2>5, JoinEmpty
    <2> QED BY <1>3, <2>4, <2>6, <2>7, Zenon
  <1>6. ~dirty => StrSoFar(m, dest, end) /\ StringUnits(Text)[end] = More(bytes, k) BY DEF k
  <1> QED BY <1>1, <1>3, <1>5, <1>6, StrMore

LEMMA KeepEscapedRight ==
  ASSUME IInv, Right, Kept, pc = "str", NEW m, NEW end, StrAt(end), Moved(m, end), end + 1 < len,
         KeepEscaped(m, end), NEW dest, dest = wr + (end - seg), UNCHANGED <<orig, len>>,
         ~dirty => StrSoFar(m, dest, end) /\ StringUnits(Text)[end] = More(<<m[end + 1]>>, end + 2)
  PROVE  Right'
  <1> DEFINE g == end + 1
             k == end + 2
             b == <<m[g]>>
  <1>1. len \in Nat /\ end \in Nat /\ end \in 0..len /\ g \in Nat /\ k \in Nat /\ k = g + 1 /\ g \in Pos
    BY StrBounds DEF StrAt, Pos
  <1>2. m[g] \in Byte
    <2> HIDE DEF g
    <2> QED BY <1>1 DEF Moved
  <1>3. b \in Seq(Byte) BY <1>2
  <1>4. /\ mem' = m /\ wr' = dest /\ seg' = g /\ rd' = k
        /\ UNCHANGED <<cursor, call, pc, borrowed, dirty, orig, len>>
    BY DEF KeepEscaped
  <1>5. ~dirty => StrSoFar(m, dest, end) /\ StringUnits(Text)[end] = More(b, k) OBVIOUS
  <1> HIDE DEF g, k
  <1>6. Bytes(m, g, k) = b BY <1>1, <1>2, PieceOne
  <1> HIDE DEF b
  <1>7. Join(Bytes(mem', src, wr'), Bytes(mem', seg', k)) = Join(Bytes(m, src, dest), b)
    BY <1>4, <1>6, Zenon
  <1> QED BY <1>1, <1>3, <1>4, <1>5, <1>7, StrMore

\* The four digits of a \u escape.
LEMMA HexFour ==
  ASSUME NEW n, NEW t, IsText(t, n), NEW i \in 0..n
  PROVE  HexDigits(t, i, 4) <=>
           i + 4 <= n /\ IsNib(t[i]) /\ IsNib(t[i + 1]) /\ IsNib(t[i + 2]) /\ IsNib(t[i + 3])
  <1>0. n \in Nat /\ DOMAIN t = 0..n /\ i \in Nat BY InText DEF IsText
  <1>1. ASSUME HexDigits(t, i, 4)
        PROVE  i + 4 <= n /\ \A x \in 0..3 : IsNib(t[i + x])
    <2>1. i + 4 <= n BY <1>0, <1>1, CodePointLemma
    <2>2. ASSUME NEW x \in 0..3 PROVE IsNib(t[i + x])
      <3>1. i + x \in i..(i + 4 - 1) BY <1>0
      <3>2. i + x \in 0..n /\ t[i + x] \in Nibbles BY <1>0, <1>1, <3>1 DEF HexDigits
      <3>3. t[i + x] \in Nat BY <3>2, InText
      <3> QED BY <3>2, <3>3, NibbleLemma
    <2> QED BY <2>1, <2>2
  <1>2. ASSUME i + 4 <= n, \A x \in 0..3 : IsNib(t[i + x]) PROVE HexDigits(t, i, 4)
    <2>1. ASSUME NEW k \in i..(i + 4 - 1) PROVE k \in DOMAIN t /\ t[k] \in Nibbles
      <3>1. k \in 0..n /\ k - i \in 0..3 /\ i + (k - i) = k BY <1>0, <1>2
      <3>2. IsNib(t[k]) BY <1>2, <3>1
      <3>3. t[k] \in Nat BY <3>1, InText
      <3> QED BY <1>0, <3>1, <3>2, <3>3, NibbleLemma
    <2> QED BY <2>1 DEF HexDigits
  <1>3. (\A x \in 0..3 : IsNib(t[i + x])) <=>
          IsNib(t[i]) /\ IsNib(t[i + 1]) /\ IsNib(t[i + 2]) /\ IsNib(t[i + 3])
    <2>1. i + 0 = i BY <1>0
    <2>2. \A x \in 0..3 : x = 0 \/ x = 1 \/ x = 2 \/ x = 3 OBVIOUS
    <2> QED BY <2>1, <2>2
  <1> QED BY <1>1, <1>2, <1>3

LEMMA UnicodeEscapeRight ==
  ASSUME IInv, Right, Kept, pc = "str", NEW m, NEW end, StrAt(end), Moved(m, end), end + 1 < len,
         UnicodeEscape(m, end), NEW dest, dest = wr + (end - seg), UNCHANGED <<orig, len>>,
         ~dirty => StrSoFar(m, dest, end) /\ Text[end] = RS /\ Text[end + 1] = UU
  PROVE  Right'
  <1> DEFINE i == end + 2
             code == HexPair(m[end + 2], m[end + 3]) * 256 + HexPair(m[end + 4], m[end + 5])
  <1>1. /\ len \in Nat /\ end \in Nat /\ end \in 0..len /\ i \in 0..len /\ i \in Nat
    BY StrBounds DEF StrAt
  <1>2. IsText(Text, len) BY TextUnits
  <1>3. UU \notin DOMAIN EscapeOf BY EscapeLemma
  <1>4. ASSUME ~dirty, ~(HexDigits(Text, i, 4) /\ CodePoint(Text, i) \notin Surrogate)
        PROVE  StringUnits(Text)[end] = Bad
    <2>1. StringUnits(Text)[end] = EscapeUnit(Text, end) BY <1>1, <1>2, <1>4, StringUnitsLemma
    <2>2. EscapeUnit(Text, end) = Bad BY <1>3, <1>4 DEF EscapeUnit
    <2> QED BY <2>1, <2>2
  <1>5. ASSUME ~dirty, HexDigits(Text, i, 4), CodePoint(Text, i) \notin Surrogate
        PROVE  StringUnits(Text)[end] = More(Utf8(CodePoint(Text, i)), end + 6)
    <2>1. StringUnits(Text)[end] = EscapeUnit(Text, end) BY <1>1, <1>2, <1>5, StringUnitsLemma
    <2>2. EscapeUnit(Text, end) = More(Utf8(CodePoint(Text, i)), end + 6)
      BY <1>3, <1>5 DEF EscapeUnit
    <2> QED BY <2>1, <2>2
  <1>6. ASSUME ~dirty, end + 6 <= len
        PROVE  /\ Text[i] = m[end + 2] /\ Text[i + 1] = m[end + 3]
               /\ Text[i + 2] = m[end + 4] /\ Text[i + 3] = m[end + 5]
    <2>1. /\ i = end + 2 /\ i + 1 = end + 3 /\ i + 2 = end + 4 /\ i + 3 = end + 5
          /\ end + 2 \in Pos /\ end + 3 \in Pos /\ end + 4 \in Pos /\ end + 5 \in Pos
          /\ end + 2 >= end /\ end + 3 >= end /\ end + 4 >= end /\ end + 5 >= end
      BY <1>1, <1>6 DEF Pos
    <2>2. Shows(m, end) BY <1>6 DEF StrSoFar
    <2> HIDE DEF i
    <2> QED BY <2>1, <2>2 DEF Shows
  <1>7. ASSUME ~dirty, end + 6 <= len
        PROVE  /\ HexDigits(Text, i, 4) <=> \A j \in 2..5 : IsNib(m[end + j])
               /\ HexDigits(Text, i, 4) => CodePoint(Text, i) = code
    <2> HIDE DEF i
    <2>1. HexDigits(Text, i, 4) <=>
            i + 4 <= len /\ IsNib(Text[i]) /\ IsNib(Text[i + 1]) /\ IsNib(Text[i + 2]) /\ IsNib(Text[i + 3])
      BY <1>1, <1>2, HexFour
    <2>2. i + 4 <= len BY <1>1, <1>7 DEF i
    <2>3. \A j \in 2..5 : j = 2 \/ j = 3 \/ j = 4 \/ j = 5 OBVIOUS
    <2>4. (\A j \in 2..5 : IsNib(m[end + j])) <=>
            IsNib(m[end + 2]) /\ IsNib(m[end + 3]) /\ IsNib(m[end + 4]) /\ IsNib(m[end + 5])
      BY <2>3
    <2>5. HexDigits(Text, i, 4) =>
            CodePoint(Text, i) = HexPair(Text[i], Text[i + 1]) * 256 + HexPair(Text[i + 2], Text[i + 3])
      BY <1>1, <1>2, CodePointLemma
    <2>6. HexDigits(Text, i, 4) => CodePoint(Text, i) = code BY <1>6, <1>7, <2>5
    <2> QED BY <1>6, <1>7, <2>1, <2>2, <2>4, <2>6
  <1> HIDE DEF i
  <1>8. ASSUME NEW e, StrError(m, e), ~dirty => StringUnits(Text)[end] = Bad PROVE Right'
    <2>1. Fail(e) BY <1>8 DEF StrError
    <2> QED BY <1>1, <1>8, <2>1, StrBad
  <1>9. CASE end + 6 > len
    <2>1. StrError(m, "UnexpectedEof") BY <1>9 DEF UnicodeEscape
    <2>2. ASSUME ~dirty PROVE StringUnits(Text)[end] = Bad
      <3>1. ~HexDigits(Text, i, 4)
        <4>1. ~(i + 4 <= len) BY <1>1, <1>9 DEF i
        <4> QED BY <1>1, <1>2, <4>1, HexFour
      <3> QED BY <1>4, <2>2, <3>1
    <2> QED BY <1>8, <2>1, <2>2
  <1>a. ~(end + 6 > len) => end + 6 <= len BY <1>1
  <1>10. CASE ~(end + 6 > len) /\ ~ \A j \in 2..5 : IsNib(m[end + j])
    <2>1. StrError(m, "InvalidEscapeSequence") BY <1>10 DEF UnicodeEscape
    <2>2. ~dirty => StringUnits(Text)[end] = Bad BY <1>4, <1>7, <1>10, <1>a
    <2> QED BY <1>8, <2>1, <2>2
  <1> HIDE DEF code
  <1>11. CASE /\ ~(end + 6 > len) /\ \A j \in 2..5 : IsNib(m[end + j])
              /\ code \in Surrogate
    <2>1. StrError(m, "InvalidUnicodeCodePoint") BY <1>11 DEF UnicodeEscape, code
    <2>2. ~dirty => StringUnits(Text)[end] = Bad BY <1>4, <1>7, <1>11, <1>a
    <2> QED BY <1>8, <2>1, <2>2
  <1>12. CASE /\ ~(end + 6 > len) /\ \A j \in 2..5 : IsNib(m[end + j])
              /\ code \notin Surrogate
    <2>1. Unescaped(m, end, Utf8(code), 6) BY <1>12 DEF UnicodeEscape, code
    <2>2. IsNib(m[end + 2]) /\ IsNib(m[end + 3]) /\ IsNib(m[end + 4]) /\ IsNib(m[end + 5])
      BY <1>12
    <2>3. /\ HexPair(m[end + 2], m[end + 3]) \in Nat /\ HexPair(m[end + 2], m[end + 3]) < 256
          /\ HexPair(m[end + 4], m[end + 5]) \in Nat /\ HexPair(m[end + 4], m[end + 5]) < 256
      BY <2>2, HexPairLemma
    <2>4. code \in Nat /\ code < 65536 BY <2>3 DEF code
    <2>5. Utf8(code) \in Seq(Byte) BY <2>4, Utf8Lemma
    <2>6. ~dirty => StringUnits(Text)[end] = More(Utf8(code), end + 6)
      BY <1>5, <1>7, <1>12, <1>a
    <2> QED BY <2>1, <2>5, <2>6, UnescapedRight
  <1> QED BY <1>9, <1>10, <1>11, <1>12

LEMMA EscapeUnitIs ==
  ASSUME NEW t, NEW i, t[i + 1] \in DOMAIN EscapeOf
  PROVE  EscapeUnit(t, i) = More(<<EscapeOf[t[i + 1]]>>, i + 2)
  <1>1. t[i + 1] /= UU BY EscapeLemma
  <1> QED BY <1>1 DEF EscapeUnit

LEMMA StrEscapeRight ==
  ASSUME IInv, Right, Kept, pc = "str", NEW m, NEW end, StrAt(end), Moved(m, end),
         StrEscape(m, end), NEW dest, dest = wr + (end - seg), UNCHANGED <<orig, len>>,
         ~dirty => StrSoFar(m, dest, end) /\ Text[end] = RS
  PROVE  Right'
  <1> DEFINE g == end + 1
             c == m[g]
  <1>1. len \in Nat /\ end \in Nat /\ end \in 0..len /\ g \in Nat /\ g <= len
    BY StrBounds DEF StrAt
  <1>2. IsText(Text, len) BY TextUnits
  <1>3. ASSUME ~dirty PROVE StringUnits(Text)[end] = EscapeUnit(Text, end)
    BY <1>1, <1>2, <1>3, StringUnitsLemma
  <1>4. ASSUME ~dirty PROVE (g < len => Text[g] = c) /\ (g = len => Text[g] = Eof)
    <2>1. g < len => g \in Pos /\ g >= end BY <1>1 DEF Pos
    <2>2. Shows(m, end) BY <1>4 DEF StrSoFar
    <2> HIDE DEF g
    <2> QED BY <1>2, <2>1, <2>2 DEF Shows, IsText
  <1>5. ASSUME NEW e, StrError(m, e), ~dirty => Text[g] \notin DOMAIN EscapeOf /\ Text[g] /= UU
        PROVE  Right'
    <2>1. Fail(e) BY <1>5 DEF StrError
    <2>2. ASSUME ~dirty PROVE StringUnits(Text)[end] = Bad BY <1>3, <1>5, <2>2 DEF EscapeUnit
    <2> QED BY <1>1, <2>1, <2>2, StrBad
  <1>6. CASE g = len /\ StrError(m, "UnexpectedEof") BY <1>4, <1>5, <1>6, CharLemma
  <1>7. CASE g < len /\ c \in Preserved /\ KeepEscaped(m, end)
    <2>1. ASSUME ~dirty PROVE StringUnits(Text)[end] = More(<<m[end + 1]>>, end + 2)
      <3>1. Text[g] = c BY <1>4, <1>7, <2>1
      <3>2. c \in DOMAIN EscapeOf /\ EscapeOf[c] = c BY <1>7, EscapeLemma
      <3>3. EscapeUnit(Text, end) = More(<<EscapeOf[Text[end + 1]]>>, end + 2)
        BY <3>1, <3>2, EscapeUnitIs
      <3> QED BY <1>3, <2>1, <3>1, <3>2, <3>3
    <2> QED BY <1>7, <2>1, KeepEscapedRight
  <1>8. CASE g < len /\ c \in DOMAIN UNESCAPE /\ Unescaped(m, end, <<UNESCAPE[c]>>, 2)
    <2> DEFINE b == <<UNESCAPE[c]>>
    <2>1. ASSUME ~dirty PROVE StringUnits(Text)[end] = More(b, end + 2)
      <3>1. Text[g] = c BY <1>4, <1>8, <2>1
      <3>2. c \in DOMAIN EscapeOf /\ EscapeOf[c] = UNESCAPE[c] BY <1>8, EscapeLemma
      <3>3. EscapeUnit(Text, end) = More(<<EscapeOf[Text[end + 1]]>>, end + 2)
        BY <3>1, <3>2, EscapeUnitIs
      <3> QED BY <1>3, <2>1, <3>1, <3>2, <3>3
    <2>2. b \in Seq(Byte)
      <3> HIDE DEF c
      <3>1. UNESCAPE[c] \in Byte BY <1>8, EscapeLemma
      <3> QED BY <3>1
    <2>3. Unescaped(m, end, b, 2) BY <1>8
    <2> HIDE DEF b
    <2> QED BY <2>1, <2>2, <2>3, UnescapedRight
  <1>9. CASE g < len /\ c = UU /\ UnicodeEscape(m, end)
    <2>1. ~dirty => Text[end + 1] = UU BY <1>4, <1>9
    <2> QED BY <1>9, <2>1, UnicodeEscapeRight
  <1>10. CASE /\ g < len /\ c \notin Preserved \cup DOMAIN UNESCAPE \cup {UU}
              /\ StrError(m, "InvalidEscapeSequence")
    <2>1. ASSUME ~dirty PROVE Text[g] \notin DOMAIN EscapeOf /\ Text[g] /= UU
      <3>1. Text[g] = c BY <1>4, <1>10, <2>1
      <3> HIDE DEF c, g
      <3> QED BY <1>10, <3>1, EscapeLemma
    <2> QED BY <1>5, <1>10, <2>1
  <1> QED BY <1>6, <1>7, <1>8, <1>9, <1>10 DEF StrEscape

LEMMA StrStepRight == ASSUME IInv, Right, Kept, StrStep PROVE Right'
  <1>0. pc = "str" /\ UNCHANGED <<orig, len>> BY DEF StrStep
  <1>1. PICK end \in Scan(mem, Control \cup {QU, RS}, rd) :
          LET m == CopyWithin(mem, seg, end, wr) IN
          \/ end = len /\ StrError(mem, "UnexpectedEof")
          \/ end < len /\ m[end] = QU /\ mem' = m /\ StrQuote(m, end)
          \/ end < len /\ m[end] = RS /\ StrEscape(m, end)
          \/ end < len /\ m[end] \in Control /\ StrError(m, "StringControlChar")
    BY DEF StrStep
  <1> DEFINE m == CopyWithin(mem, seg, end, wr)
  <1>2. end \in Nat /\ rd <= end /\ end <= len /\ end \in 0..len /\ len \in Nat
    BY <1>0, StrBounds, ScanLemma
  <1>3. Moved(m, end)
    BY <1>0, <1>2, StrBounds, CopyWithinLemma DEF Moved, IInv, TypeOK
  <1>4. PICK dest : dest = wr + (end - seg) OBVIOUS
  <1>5. ~dirty => StrSoFar(m, dest, end) BY <1>0, <1>4, StrRun
  <1>6. end < len => StrAt(end) BY <1>2 DEF StrAt
  <1>7. IsText(Text, len) BY TextUnits
  <1>8. ASSUME ~dirty, end < len PROVE Text[end] = m[end]
    <2>1. end \in Pos /\ end >= end BY <1>2, <1>8 DEF Pos
    <2>2. Shows(m, end) BY <1>5, <1>8 DEF StrSoFar
    <2> HIDE DEF m
    <2> QED BY <2>1, <2>2 DEF Shows
  <1>9. ASSUME NEW o, NEW e, StrError(o, e), ~dirty => Text[end] \in Control \cup {Eof} PROVE Right'
    <2>1. Fail(e) BY <1>9 DEF StrError
    <2>2. ~dirty => StringUnits(Text)[end] = Bad BY <1>2, <1>7, <1>9, StringUnitsLemma
    <2> QED BY <1>0, <1>2, <1>5, <2>1, <2>2, StrBad
  <1>10. CASE end = len /\ StrError(mem, "UnexpectedEof")
    <2>1. Text[end] = Eof BY <1>7, <1>10 DEF IsText
    <2> QED BY <1>9, <1>10, <2>1
  <1> HIDE DEF m
  <1>11. CASE end < len /\ m[end] = QU /\ mem' = m /\ StrQuote(m, end)
    <2>1. StrQuote(mem', end) /\ (~dirty => StrSoFar(mem', dest, end)) BY <1>5, <1>11
    <2> QED BY <1>0, <1>4, <1>6, <1>8, <1>11, <2>1, StrQuoteRight
  <1>12. CASE end < len /\ m[end] = RS /\ StrEscape(m, end)
    BY <1>0, <1>3, <1>4, <1>5, <1>6, <1>8, <1>12, StrEscapeRight
  <1>13. CASE end < len /\ m[end] \in Control /\ StrError(m, "StringControlChar")
    BY <1>8, <1>9, <1>13
  <1> QED BY <1>1, <1>10, <1>11, <1>12, <1>13 DEF m

-----------------------------------------------------------------------------
(* The theorems about the contents *)

LEMMA InitRight == Init => Right
  BY DEF Init, Right, InLoop, Decoding

LEMMA NextRight == ASSUME IInv, Right, Next PROVE Right'
  <1>1. Kept BY NextKept
  <1> QED BY <1>1, DeserializeStrRight, DeserializeBytesRight, IgnoreScalarRight, EatPunctRight,
             EndRight, SwallowErrorRight, StrStepRight, HexStepRight, B64StepRight, ArrStepRight,
             SkipStepRight
          DEF Next

LEMMA StutterRight == ASSUME IInv, Right, UNCHANGED vars PROVE Right'
  <1>1. /\ Text' = Text
        /\ UNCHANGED <<mem, Cursor, pc, op, src, seg, wr, rd, borrowed, dirty>>
    BY TextSame DEF vars, Cursor
  <1>2. \A s \in borrowed' : s.clean => LoanRight(s)'
    <2>1. ASSUME NEW s \in borrowed', s.clean PROVE LoanRight(s)'
      <3>1. LoanRight(s) BY <1>1, <2>1 DEF Right
      <3> QED BY <1>1, <3>1, Zenon DEF LoanRight
    <2> QED BY <2>1
  <1>3. ~dirty => InLoop'
    <2>1. ASSUME InLoop PROVE InLoop'
      <3>1. Decoded64 => Decoded64' BY <1>1, Zenon DEF Decoded64
      <3> QED BY <1>1, <2>1, <3>1, Zenon DEF InLoop
    <2> QED BY <2>1 DEF Right
  <1>4. /\ ~dirty /\ pc = "idle" /\ op \in Decoding \cup {"skip"}
             => Cursor = Reference(Text, op, src).end
        /\ ~dirty /\ pc = "failed" /\ op \in Decoding \cup {"skip"} => ~Reference(Text, op, src).ok
    BY DEF Right
  <1>5. UNCHANGED Reference(Text, op, src) BY <1>1, Zenon
  <1> QED BY <1>1, <1>2, <1>3, <1>4, <1>5, Zenon DEF Right

\* Every reachable state satisfies the invariant behind the contents.
THEOREM InductiveRight == Spec => []Right
  <1>1. IInv /\ Right /\ [Next]_vars => Right' BY NextRight, StutterRight
  <1> QED BY <1>1, InitRight, Inductive, PTL DEF Spec

\* For any text, what a call that succeeds before any error lends is what the
\* untouched text denotes, and the cursor is where the text says the content
\* ends, for strings, hexadecimal, Base-64 and arrays of numbers alike.
THEOREM DecodesRight == Spec => []DecodedRight
  <1>1. Right => DecodedRight
    <2>1. Right => /\ \A s \in borrowed : s.clean => LoanRight(s)
                   /\ pc = "idle" /\ ~dirty /\ op \in Decoding => Cursor = Reference(Text, op, src).end
      BY Zenon DEF Right
    <2> QED BY <2>1, Zenon DEF DecodedRight, LoanRight
  <1> QED BY <1>1, InductiveRight, PTL

\* For any text, a decoder that fails before any error was swallowed fails on a
\* text that denotes nothing: no content the format allows is turned away.
THEOREM RejectsRightly == Spec => []RejectsRight
  <1>1. Right => RejectsRight BY Zenon DEF Right, RejectsRight
  <1> QED BY <1>1, InductiveRight, PTL

\* For any text, eat_str_content ends where the string it ignores ends, fails
\* only where there is no such end, and accepts every string that
\* parse_str_bytes_content decodes, with the same end.
THEOREM SkipsSame == Spec => []SkipsSameString
  <1>1. ASSUME IInv, Right PROVE SkipsSameString
    <2> SUFFICES ASSUME pc \in {"idle", "failed"}, ~dirty, op = "skip"
                 PROVE  LET skipped == Reference(Text, "skip", src)
                            decoded == Reference(Text, "bytes", src)
                        IN /\ pc = "idle"   => Cursor = skipped.end
                           /\ pc = "failed" => ~skipped.ok
                           /\ decoded.ok => pc = "idle" /\ Cursor = decoded.end
      BY DEF SkipsSameString
    <2> DEFINE K == Chain(SkipUnits(Text))[src]
               S == Chain(StringUnits(Text))[src]
    <2>1. Reference(Text, "skip", src) = K /\ Reference(Text, "bytes", src) = S BY DEF Reference
    <2>2. (pc = "idle" => Cursor = K.end) /\ (pc = "failed" => ~K.ok)
      BY <1>1, <2>1 DEF Right
    <2>3. S.ok => K.ok /\ K.end = S.end
      <3>1. IsText(Text, len) /\ src \in 0..len BY <1>1, TextUnits DEF IInv, TypeOK
      <3> QED BY <3>1, StringSkip
    <2> HIDE DEF K, S
    <2> QED BY <2>1, <2>2, <2>3
  <1> QED BY <1>1, Inductive, InductiveRight, PTL
===============================================================================
