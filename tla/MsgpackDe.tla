------------------------------ MODULE MsgpackDe ------------------------------
(***************************************************************************)
(* The MessagePack deserializer (ser-write-msgpack/src/de.rs).             *)
(*                                                                         *)
(* One step reads one head: its code, the length or the number that goes   *)
(* with it, and the bytes of a scalar or of a slice.  The recursion of     *)
(* eat_message and of the visitors, with the CountingAccess and            *)
(* VariantAccess each visitor is given, is the stack of what remains to be *)
(* read.  The type being deserialized is not known here: a visitor may ask *)
(* for any type next, ignore the value, stop early or give up.             *)
(*                                                                         *)
(* A length is a number of 1, 2 or 4 digits and usize is a modulus, so     *)
(* that lengths and cursors overflow in a small instance where they do in  *)
(* the program: Radix = 256 with Usize = 2^32 or 2^64 is the program.      *)
(***************************************************************************)
EXTENDS MsgpackFormat, Sequences

CONSTANTS
  Inputs,          \* the slices a caller may pass to from_slice
  Radix,           \* values of one byte of a length
  Usize,           \* number of values of usize
  OverflowChecks,  \* the build panics on overflow (debug), or wraps (release)
  Jumps            \* what callers pass to eat_some

ASSUME RadixAssumption  == Radix \in Nat \ {0}
ASSUME InputsAssumption == Inputs \subseteq Seq(Byte)
ASSUME UsizeAssumption  == Usize \in Nat \ {0}
ASSUME FlagAssumption   == OverflowChecks \in BOOLEAN
ASSUME JumpsAssumption  == Jumps \subseteq Nat

VARIABLES
  input,    \* the bytes the deserializer was created with
  base,     \* where the slice self.input now begins
  index,    \* self.index
  stack,    \* what the calls in progress still have to read, outermost first
  pc,       \* "ready", "busy", "ok", "failed" or "panic"
  op,       \* how the last top-level call reads: "eat_message" or "deserialize"
  start,    \* where it began (history)
  lent,     \* the slices handed out with lifetime 'de
  err       \* its error

vars == <<input, base, index, stack, pc, op, start, lent, err>>

Cursor == base + index
Rem    == Len(input) - base     \* self.input.len()
Code   == input[Cursor + 1]
HasHead == index < Rem

-----------------------------------------------------------------------------
(* The stack.  A frame reads `n` more values; a map reads n more keys, and *)
(* first the value of the last one when its kind is "value".  `below` is   *)
(* what the frames under it owe (history).                                 *)

Frame(k, n, b) == [kind |-> k, n |-> n, below |-> b]
Top     == stack[Len(stack)]
UnderAll == stack                                                    \* mutant
Under   == SubSeq(stack, 1, Len(stack) - 1)
Own(f)  == CASE f.kind = "map" -> 2 * f.n [] f.kind = "value" -> 2 * f.n + 1
             [] OTHER -> f.n
Owed(s) == IF s = <<>> THEN 0 ELSE s[Len(s)].below + Own(s[Len(s)])

\* One value of frame f has been asked for: CountingAccess counts it before
\* it is read.
Took(f) ==
  CASE f.kind = "map"   -> [f EXCEPT !.kind = "value", !.n = @ - 1]
    [] f.kind = "value" -> [f EXCEPT !.kind = "map"]
    [] OTHER            -> [f EXCEPT !.n = @ - 1]

Settle        == Append(Under, Took(Top))
Announce(k, n) == Append(Settle, Frame(k, n, Top.below + Own(Took(Top))))

-----------------------------------------------------------------------------
(* Primitives *)

\* Where the slice is and the cursor in it, then the rest of the state.
Stay(i) == index' = i /\ base' = base /\ UNCHANGED lent

Fail(e, i) ==
  /\ Stay(i)
  /\ pc' = "failed" /\ err' = e /\ stack' = <<>>

Panic == pc' = "panic" /\ stack' = <<>> /\ UNCHANGED <<base, index, lent, err>>

Go(s) == stack' = s /\ UNCHANGED <<pc, err>>

\* How many digits of length follow a code, and the number they make.
Digits(c) ==
  IF c \in {BIN_8, STR_8, EXT_8} THEN 1
  ELSE IF c \in {BIN_16, STR_16, EXT_16, ARRAY_16, MAP_16} THEN 2
  ELSE IF c \in {BIN_32, STR_32, EXT_32, ARRAY_32, MAP_32} THEN 4
  ELSE 0
Digit(p) == input[p + 1] % Radix
Number(p, k) ==
  CASE k = 1 -> Digit(p)
    [] k = 2 -> Radix * Digit(p) + Digit(p + 1)
    [] k = 4 -> Radix * (Radix * (Radix * Digit(p) + Digit(p + 1)) + Digit(p + 2)) + Digit(p + 3)

\* The number that goes with the head at the cursor, and where it ends.
Short(c) ==
  CASE c \in FixMap   -> c - FIXMAP
    [] c \in FixArray -> c - FIXARRAY
    [] c \in FixStr   -> c - FIXSTR
    [] OTHER          -> 0
LengthAt(p) ==
  LET c == input[p + 1] IN IF Digits(c) = 0 THEN Short(c) ELSE Number(p + 1, Digits(c))
Length == LengthAt(Cursor)
Body   == index + 1 + Digits(Code)

\* fetch, then fetch_u8, fetch_u16 or fetch_u32 and its conversion to usize.
WithLength(A) ==
  \/ Body > Rem /\ Fail("UnexpectedEof", index + 1)
  \/ Body <= Rem /\ Length >= Usize /\ Fail("InvalidInteger", Body)
  \/ Body <= Rem /\ Length < Usize /\ A

-----------------------------------------------------------------------------
(* eat_message *)

\* The bytes of a code that has no length of its own, after the code.
Fixed(c) ==
  CASE c \in {UINT_8, INT_8} -> 1
    [] c \in {UINT_16, INT_16, FIXEXT_1} -> 2
    [] c = FIXEXT_2 -> 3
    [] c \in {FLOAT_32, UINT_32, INT_32} -> 4
    [] c = FIXEXT_4 -> 5
    [] c \in {FLOAT_64, UINT_64, INT_64} -> 8
    [] c = FIXEXT_8 -> 9
    [] c = FIXEXT_16 -> 17
    [] OTHER -> 0

ExtraNone(c) == 0                                                    \* mutant
\* The type byte of an extension comes on top of its length.
Extra(c) == IF c \in ExtLong THEN 1 ELSE 0

SumU8(a, b) == (a + b) % Radix                                       \* mutant
\* usize addition
Sum(a, b) == (a + b) % Usize

BeyondTight(end) == end >= Rem                                       \* mutant
Beyond(end) == end > Rem

\* Single(len): the addition of the type byte, and that of the cursor.
EatBytes ==
  LET bytes == IF Code \in Str \cup BinLong \cup ExtLong THEN Sum(Extra(Code), Length)
               ELSE Fixed(Code)
      end   == Sum(Body, bytes)
      fits  == Extra(Code) + Length < Usize /\ Body + bytes < Usize
  IN \/ OverflowChecks /\ ~fits /\ Panic
     \/ /\ ~OverflowChecks \/ fits
        /\ \/ Beyond(end) /\ Fail("UnexpectedEof", Body)
           \/ ~Beyond(end) /\ Stay(end) /\ Go(Settle)

EatHead ==
  \/ ~HasHead /\ Fail("UnexpectedEof", index)
  \/ HasHead /\ Code = RESERVED /\ Fail("ReservedCode", index + 1)
  \/ /\ HasHead /\ Code /= RESERVED
     /\ WithLength(
          CASE Code \in Array -> Stay(Body) /\ Go(Announce("eat", Length))
            [] Code \in Map   -> Stay(Body) /\ Go(Announce("eat", 2 * Length))
            [] OTHER          -> EatBytes)

\* eat_message, its loops eat_seq_items and eat_map_items, and
\* deserialize_ignored_any.
EatMessage ==
  /\ pc = "busy" /\ Own(Top) > 0
  /\ EatHead
  /\ UNCHANGED <<input, op, start>>

-----------------------------------------------------------------------------
(* What a visitor may ask for.  Reading is what the call does when it      *)
(* finds a head it takes; Refuse is every other head.                      *)

Visiting == pc = "busy" /\ Top.kind /= "eat" /\ Own(Top) > 0

\* A boolean, a unit, an absent option, a number: the codes each one takes.
Scalar == [bool |-> {FALSE_, TRUE_}, unit |-> {NIL}, none |-> {NIL},
           integer |-> Integer, float |-> Integer \cup Float \cup {NIL},
           identifier |-> PosFixInt \cup {UINT_8, UINT_16, UINT_32}]

\* The number is converted to the type asked for, which may be too small.
ReadScalar ==
  /\ Visiting /\ HasHead
  /\ \E t \in DOMAIN Scalar : Code \in Scalar[t]
  /\ LET end == Body + Fixed(Code) IN
     \/ end > Rem /\ Fail("UnexpectedEof", Body)
     \/ end <= Rem /\ Stay(end) /\ Go(Settle)
     \/ end <= Rem /\ Code \in Integer /\ Fail("InvalidInteger", end)
  /\ UNCHANGED <<input, op, start>>

LentLong(p, n) == [lo |-> p, hi |-> p + n + 1]                       \* mutant
Lent(p, n) == [lo |-> p, hi |-> p + n]

SplitFitsLoose(n) == Body + n <= Rem + 1                            \* mutant
SplitFits(n) == Body + n <= Rem

\* split_input; a string that is not UTF-8, or not one character when a char
\* is asked for, is refused after the split.
Split(n) ==
  \/ ~SplitFits(n) /\ Fail("UnexpectedEof", Body)
  \/ /\ SplitFits(n)
     /\ base' = base + Body + n /\ index' = 0
     /\ \/ Go(Settle) /\ lent' = lent \cup {Lent(base + Body, n)}
        \/ /\ Code \in Str
           /\ pc' = "failed" /\ stack' = <<>> /\ lent' = lent
           /\ err' \in {"InvalidUnicodeCodePoint", "InvalidLength"}

ReadSlice ==
  /\ Visiting /\ HasHead
  /\ Code \in Str \cup BinLong
  /\ WithLength(Split(Length))
  /\ UNCHANGED <<input, op, start>>

\* deserialize_seq, deserialize_map and deserialize_struct, which takes both.
ReadSeq ==
  /\ Visiting /\ HasHead
  /\ Code \in Array
  /\ WithLength(Stay(Body) /\ Go(Announce("seq", Length)))
  /\ UNCHANGED <<input, op, start>>

ReadMap ==
  /\ Visiting /\ HasHead
  /\ Code \in Map
  /\ WithLength(Stay(Body) /\ Go(Announce("map", Length)))
  /\ UNCHANGED <<input, op, start>>

\* deserialize_enum on a map of one: VariantAccess reads a name and a value.
\* On another head UnitVariantAccess reads the name alone, like any value.
ReadVariant ==
  /\ Visiting /\ HasHead
  /\ Code = FIXMAP + 1
  /\ Stay(index + 1) /\ Go(Announce("enum", 2))
  /\ UNCHANGED <<input, op, start>>

\* The codes a call takes, and its error on another: after the code has been
\* fetched or, for the calls that peek, before.
Fetched ==
  {<<{FALSE_, TRUE_}, "InvalidType">>, <<{NIL}, "ExpectedNil">>, <<Integer, "ExpectedInteger">>,
   <<Integer \cup Float \cup {NIL}, "ExpectedNumber">>, <<Str, "ExpectedString">>,
   <<BinLong, "ExpectedBin">>, <<Array, "ExpectedArray">>, <<Map, "ExpectedMap">>,
   <<Array \cup Map, "ExpectedStruct">>}
Peeked ==
  {<<Byte \ {RESERVED}, "ReservedCode">>, <<Byte \ (ExtLong \cup FixExt), "UnsupportedExt">>,
   <<Scalar.identifier \cup Str, "ExpectedIdentifier">>}

Refuse ==
  /\ Visiting
  /\ \/ ~HasHead /\ Fail("UnexpectedEof", index)
     \/ HasHead /\ \E call \in Fetched : Code \notin call[1] /\ Fail(call[2], index + 1)
     \/ HasHead /\ \E call \in Peeked  : Code \notin call[1] /\ Fail(call[2], index)
  /\ UNCHANGED <<input, op, start>>

\* A visitor returns an error of its own, such as a missing field, or of the
\* access it was given, such as a variant of another kind.
GiveUp ==
  /\ pc = "busy" /\ Top.kind /= "eat"
  /\ Fail("Custom", index)
  /\ UNCHANGED <<input, op, start>>

TrailingNever(f) == FALSE                                            \* mutant
\* access.count.is_some() after the visitor is done
Trailing(f) == f.kind \in {"seq", "map"} /\ f.n > 0

\* The innermost call returns: a loop has ended, or a visitor is done.  It
\* reads what it was given in full, except elements and keys.
Done(f) == Own(f) = 0 \/ f.kind \in {"seq", "map"}
Return ==
  /\ pc = "busy" /\ Done(Top)
  /\ IF Trailing(Top)
     THEN Fail("TrailingElements", index)
     ELSE /\ stack' = Under
          /\ pc' = IF Under = <<>> THEN "ok" ELSE pc
          /\ UNCHANGED <<base, index, lent, err>>
  /\ UNCHANGED <<input, op, start>>

-----------------------------------------------------------------------------
(* Calls.  A stream of messages is read by one call after another: from_-  *)
(* slice_split_tail creates the next deserializer on the tail.             *)

Begin(o, kind) ==
  /\ pc \in {"ready", "ok", "failed"}
  /\ pc' = "busy" /\ op' = o /\ start' = Cursor
  /\ stack' = <<Frame(kind, 1, 0)>>
  /\ err' = "none"
  /\ UNCHANGED <<input, base, index, lent>>

BeginEatMessage  == Begin("eat_message", "eat")
BeginDeserialize == Begin("deserialize", "one")

\* eat_some is public and unchecked: the cursor may leave the slice.  Bound:
\* a caller jumps from inside the slice, and not by as much as usize can hold.
EatSome ==
  /\ pc \in {"ready", "ok", "failed"} /\ index <= Rem
  /\ \E n \in Jumps : index + n < Usize /\ index' = index + n
  /\ pc' = "ready" /\ op' = "none" /\ start' = 0
  /\ UNCHANGED <<input, base, stack, lent, err>>

Init ==
  /\ input \in Inputs
  /\ base = 0 /\ index = 0 /\ start = 0
  /\ stack = <<>> /\ pc = "ready" /\ op = "none"
  /\ lent = {} /\ err = "none"

Step == EatMessage \/ ReadScalar \/ ReadSlice \/ ReadSeq \/ ReadMap \/ ReadVariant
        \/ Refuse \/ GiveUp \/ Return

Next ==
  \/ BeginEatMessage \/ BeginDeserialize \/ EatSome
  \/ EatMessage \/ ReadScalar \/ ReadSlice \/ ReadSeq \/ ReadMap \/ ReadVariant
  \/ Refuse \/ GiveUp \/ Return

Spec == Init /\ [][Next]_vars

\* A call runs on the caller's thread until it returns, whatever its visitor
\* asks for.
FairSpec == Spec /\ WF_vars(Step)

-----------------------------------------------------------------------------
(* Properties *)

Kinds  == {"eat", "one", "seq", "map", "value", "enum"}
Frames == [kind : Kinds, n : Nat, below : Nat]

TypeOK ==
  /\ input \in Inputs
  /\ base \in 0..Len(input) /\ index \in Nat /\ start \in Nat
  /\ stack \in Seq(Frames)
  /\ pc \in {"ready", "busy", "ok", "failed", "panic"}
  /\ op \in {"none", "eat_message", "deserialize"}
  /\ lent \subseteq [lo : Nat, hi : Nat]
  /\ (stack = <<>>) <=> pc /= "busy"

\* Slices lent out lie one after another, behind the slice that is still to
\* be read, and inside the input.
LentApart ==
  /\ \A s \in lent : s.lo <= s.hi /\ s.hi <= base
  /\ \A s, t \in lent : s /= t => s.hi <= t.lo \/ t.hi <= s.lo

\* Nothing is read twice: the cursor never moves back.
CursorGrows == [][Cursor' >= Cursor]_vars

\* The counts that the nested loops and accesses keep, added up, are a flat
\* count of the messages owed, and Ok is returned only when it is zero.
Status == CASE pc = "ready" -> "rest" [] pc = "busy" -> "busy"
            [] pc = "ok" -> "complete" [] pc \in {"failed", "panic"} -> "broken"
Stream == INSTANCE MsgpackStream WITH at <- Cursor, owed <- Owed(stack), state <- Status
ReadsStream == Stream!Spec

\* The inductive invariant: each frame remembers what the frames under it owe.
Linked(s) ==
  \A i \in 1..Len(s) : s[i].below = IF i = 1 THEN 0 ELSE s[i - 1].below + Own(s[i - 1])
IInv == TypeOK /\ Linked(stack) /\ LentApart
=============================================================================
