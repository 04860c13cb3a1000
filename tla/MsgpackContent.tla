---------------------------- MODULE MsgpackContent ----------------------------
(* What MsgpackDe answers, compared with the messages that MsgpackHeads finds *)
(* in the input.                                                              *)
EXTENDS MsgpackDe, MsgpackHeads

ByteAt(p)     == input[p + 1]
MessageEnd(p) == RunEnd(Radix, input, p, 1)

\* The bytes of the string or bin message at p.
PayloadAt(p) ==
  LET c == ByteAt(p)
      h == IF c \in FixStr THEN 1 ELSE HeadOf(c)[1]
  IN [lo |-> p + h, hi |-> MessageEnd(p)]

\* Ok means that exactly one message was consumed, whether it was skipped or
\* read as any type by any visitor, nested ones included.
OneMessage == pc = "ok" => Cursor = MessageEnd(start)

\* Doc of eat_message: Ok(()) on success or UnexpectedEof if there was not
\* enough data to fully decode the item.
OkOnlyIfEnough == pc = "ok" /\ op = "eat_message" => MessageEnd(start) /= Truncated

\* A streaming caller relies on it: UnexpectedEof is returned only for a
\* message that continues after the input, and ReservedCode only for one with
\* the reserved code in it; eat_message returns no other error.
FailureMeans ==
  pc = "failed" =>
    /\ err = "UnexpectedEof" => MessageEnd(start) = Truncated
    /\ err = "ReservedCode"  => MessageEnd(start) = Reserved
    /\ op = "eat_message"    => err \in {"UnexpectedEof", "ReservedCode"}

\* A slice lent out is the payload of a string or bin message, whole.
LentRight ==
  \A s \in lent : \E p \in 0..(Len(input) - 1) :
    ByteAt(p) \in Str \cup BinLong /\ PayloadAt(p) = s
=============================================================================
