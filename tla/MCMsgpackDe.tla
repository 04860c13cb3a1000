----------------------------- MODULE MCMsgpackDe -----------------------------
(* Inputs for MsgpackDe, and the messages in them read by recursive descent. *)
EXTENDS MsgpackContent

\* Read by recursive descent, every input has the same messages at the same places.
Nested == INSTANCE MsgpackReference
ASSUME FlatIsNested ==
  \A s \in Inputs : \A p \in 0..Len(s) : RunEnd(Radix, s, p, 1) = Nested!MessageEnd(s, p)

\* A call that was begun returns.
CallsReturn == (pc = "busy") ~> (pc /= "busy")

-----------------------------------------------------------------------------
(* Inputs *)

UpTo(S, n) == UNION {[1..k -> S] : k \in 0..n}
Zeros(n)   == [k \in 1..n |-> 0]

\* Every code, with enough bytes after it or not.
AllCodes == {<<c>> \o Zeros(n) : c \in 0..255, n \in {0, 1, 2, 3, 4, 5, 7, 8, 9, 16, 17, 18}}
            \cup {<<c, 1, 1, 1>> \o Zeros(n) : c \in BIN_8..MAP_32, n \in {0, 5}}
\* Nested values of every kind, cut anywhere.
Deep == UpTo({1, FIXMAP + 1, FIXARRAY + 2, FIXSTR + 1, RESERVED, BIN_8}, 4)
        \cup UpTo({1, FIXMAP, EXT_8, ARRAY_16}, 4)
        \cup {<<a>> \o s : a \in {FIXARRAY + 2, FIXMAP + 2},
                           s \in UpTo({1, FIXMAP + 1, FIXSTR + 1}, 5)}
        \cup {<<FIXARRAY + 1, BIN_16, 0, 1, 7>>, <<FIXMAP + 1, 1, MAP_32, 0, 0, 0, 1, STR_8, 1, 97, EXT_16, 0, 1, 2, 3>>}
AllInputs == AllCodes \cup Deep
\* Lengths of a usize of two digits, and too large for it.
ShortInputs == UpTo({3, FIXARRAY + 1, EXT_16, BIN_32}, 5) \cup UpTo({3, BIN_32}, 6)
\* Lengths of four digits, as large as they get.
LongLengths == {<<c>> \o s : c \in {BIN_32, EXT_32}, s \in UpTo({0, 1}, 6)}
=============================================================================
