---------------------------- MODULE MsgpackWritten ----------------------------
(* What MsgpackSer writes, compared with the messages that MsgpackHeads finds *)
(* in the sink.                                                               *)
EXTENDS MsgpackSer, MsgpackHeads

Written == RunEnd(Radix, out, start, 1)

\* A reader of the stream never takes a message for complete before the
\* serializer has written all it promised, nor waits for more afterwards, and
\* with Ok the message ends where the sink does; a message cut by a full sink
\* or by a field skipped too early is not complete.
NeverEarly ==
  /\ pc = "busy" => Written = IF Owed(stack) > 0 THEN Truncated ELSE Len(out)
  /\ pc = "ok" => Written = Len(out)
  /\ pc = "failed" /\ err \in {"Writer", "FieldSkipped"} => Written = Truncated

=============================================================================
