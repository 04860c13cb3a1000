------------------------------- MODULE SerWrite -------------------------------
(***************************************************************************)
(* The sinks serializers write to: SliceWriter (src/lib.rs) and the        *)
(* implementations of SerWrite for types of other crates (src/foreign.rs). *)
(*                                                                         *)
(* A sink is the bytes of its buffer.  What the other crates do is modelled *)
(* from how foreign.rs calls them: a reservation may fail, a bounded vector *)
(* takes all or nothing, a cursor takes what there is room for.            *)
(***************************************************************************)
EXTENDS Naturals, Sequences

CONSTANTS
  Bytes,   \* the values of a byte
  Size,    \* the length of a buffer that has one
  Bufs     \* what may be written at once

ASSUME BufsAssumption == Bufs \subseteq Seq(Bytes)
ASSUME SizeAssumption == Size \in Nat
ASSUME ByteAssumption == 0 \in Bytes

VARIABLES
  kind,     \* the implementation
  mem,      \* the buffer
  base,     \* where the part of it that self.buf is begins
  len,      \* self.len, or the position of a cursor
  taken,    \* what the last call handed out: the slice of split
  asked,    \* the bytes of the last write (history)
  result    \* what it returned

vars == <<kind, mem, base, len, taken, asked, result>>

Reserving == {"Vec", "VecDeque", "SmallVec", "TinyVec"}
Bounded   == {"ArrayVec", "heapless::Vec"}
Spare     == {"tinyvec::ArrayVec", "SliceVec"}
Kinds     == {"SliceWriter", "Cursor", "Cursor<Vec>"} \cup Reserving \cup Bounded \cup Spare

\* as_ref
Populated == SubSeq(mem, base + 1, base + len)

-----------------------------------------------------------------------------
(* write, and write_byte and write_str, which are writes *)

CopiedEarly(buf) ==                                                  \* mutant
  [k \in DOMAIN mem |-> IF k \in (base + len)..(base + len + Len(buf) - 1)
                        THEN buf[k - base - len + 1] ELSE mem[k]]
\* The buffer with buf copied to where the populated part ends.
Copied(buf) ==
  [k \in DOMAIN mem |-> IF k \in (base + len + 1)..(base + len + Len(buf))
                        THEN buf[k - base - len] ELSE mem[k]]

Ok(buf) ==
  /\ len' = len + Len(buf) /\ asked' = buf /\ result' = "ok" /\ taken' = <<>>
  /\ UNCHANGED <<kind, base>>
Full(buf) ==
  /\ asked' = buf /\ result' = "BufferFull" /\ taken' = <<>>
  /\ UNCHANGED <<kind, mem, base, len>>

\* get_mut(self.len..end)
Fits(buf) == base + len + Len(buf) <= Len(mem)

WriteSlice(buf) ==
  /\ kind = "SliceWriter"
  /\ IF Fits(buf) THEN mem' = Copied(buf) /\ Ok(buf) ELSE Full(buf)

\* implement_tinyvec_write!: nothing is looked at for an empty write.
WriteSpare(buf) ==
  /\ kind \in Spare
  /\ IF buf = <<>> \/ Fits(buf) THEN mem' = Copied(buf) /\ Ok(buf) ELSE Full(buf)

WriteBounded(buf) ==
  /\ kind \in Bounded
  /\ IF Fits(buf) THEN mem' = Copied(buf) /\ Ok(buf) ELSE Full(buf)

\* try_reserve, then extend: there may be no memory.  Bound: there is none for
\* more than Size bytes.
WriteReserving(buf) ==
  /\ kind \in Reserving
  /\ \/ len + Len(buf) <= Size /\ mem' = mem \o buf /\ Ok(buf)
     \/ buf /= <<>> /\ Full(buf)

\* Write::write_all fills the buffer before it fails.
WriteCursor(buf) ==
  /\ kind = "Cursor"
  /\ IF Fits(buf) THEN mem' = Copied(buf) /\ Ok(buf)
     ELSE /\ mem' = Copied(buf) /\ len' = Len(mem) - base
          /\ asked' = buf /\ result' = "BufferFull" /\ taken' = <<>>
          /\ UNCHANGED <<kind, base>>

\* A cursor over a vector overwrites what is behind it and then grows the vector.
\* Without memory it does not return.  Bound: nothing is longer than Size bytes.
WriteGrowing(buf) ==
  /\ kind = "Cursor<Vec>" /\ len + Len(buf) <= Size
  /\ mem' = IF Fits(buf) THEN Copied(buf) ELSE SubSeq(mem, 1, base + len) \o buf
  /\ Ok(buf)

-----------------------------------------------------------------------------
(* SliceWriter alone *)

\* split_at_mut(self.len), and a writer with what follows.
SplitAt  == base + len

Split ==
  /\ kind = "SliceWriter"
  /\ taken' = SubSeq(mem, base + 1, SplitAt)
  /\ base' = SplitAt /\ len' = 0
  /\ asked' = <<>> /\ result' = "taken"
  /\ UNCHANGED <<kind, mem>>

Clear ==
  /\ kind = "SliceWriter"
  /\ len' = 0 /\ taken' = <<>> /\ asked' = <<>> /\ result' = "none"
  /\ UNCHANGED <<kind, mem, base>>

-----------------------------------------------------------------------------

\* A cursor may stand anywhere when the serializer is given it; the bytes before
\* it are not the serializer's.  (Where a vector is shorter than that, the first
\* write fills it up with zeros; they are in mem from the beginning.)
Init ==
  /\ kind \in Kinds
  /\ \E n \in IF kind = "Cursor<Vec>" THEN 0..Size ELSE {IF kind \in Reserving THEN 0 ELSE Size} :
       mem = [k \in 1..n |-> 0]
  /\ base \in IF kind \in {"Cursor", "Cursor<Vec>"} THEN 0..Len(mem) ELSE {0}
  /\ len = 0 /\ taken = <<>> /\ asked = <<>> /\ result = "none"

Write(buf) ==
  \/ WriteSlice(buf) \/ WriteSpare(buf) \/ WriteBounded(buf) \/ WriteReserving(buf)
  \/ WriteCursor(buf) \/ WriteGrowing(buf)

Next == (\E buf \in Bufs : Write(buf)) \/ Split \/ Clear

Spec == Init /\ [][Next]_vars

-----------------------------------------------------------------------------
(* Properties *)

\* Where things are: a buffer is never left, and a vector has nothing behind its
\* end.  The invariant of the proofs.
InBuffer ==
  /\ kind \in Kinds /\ mem \in Seq(Bytes) /\ asked \in Seq(Bytes) /\ taken \in Seq(Bytes)
  /\ base \in Nat /\ len \in Nat /\ base + len <= Len(mem)
  /\ kind \in Reserving => base = 0 /\ len = Len(mem)

\* Every implementation is a sink as the serializers need it: a write appends all
\* it was given or fails, only a cursor of a fixed size then keeps a part, and what
\* split hands out is all that was accepted since the sink was last empty.
Sink == INSTANCE ByteSink WITH whole <- kind /= "Cursor", content <- Populated
IsSink == Sink!Spec
=============================================================================
