----------------------------- MODULE MCMsgpackSer -----------------------------
(* What MsgpackSer writes, read by MsgpackReference.                         *)
EXTENDS MsgpackWritten

Lowest == -1
Format == INSTANCE MsgpackReference

\* At every call the sink holds the heads that were meant so far, kinds, counts,
\* sizes and numbers, and as keys of a struct the positions of its fields; when
\* Ok is returned, that is the message.
HeadsWritten == Format!HeadsFrom(SubSeq(out, start + 1, Len(out)), 0)
WrittenRight ==
  pc = "ok" \/ (pc = "busy" /\ Top.kind /= "text") => HeadsWritten = meant
=============================================================================
