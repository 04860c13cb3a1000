---------------------------- MODULE MsgpackStream ----------------------------
(***************************************************************************)
(* What one MessagePack message is, whoever reads or writes it: a run of   *)
(* heads, each of which settles one message that was owed and announces    *)
(* some more, until none is owed.  There is no nesting here: the count     *)
(* alone says when the message is complete.                                *)
(***************************************************************************)
EXTENDS Naturals

VARIABLES
  at,      \* the position in the stream, which only grows
  owed,    \* messages announced or asked for, and not yet begun
  state    \* "rest", "busy", "complete" or "broken"

svars == <<at, owed, state>>

Init == at = 0 /\ owed = 0 /\ state = "rest"

\* One message is asked for, from wherever the stream is.
Begin ==
  /\ state /= "busy"
  /\ state' = "busy" /\ owed' = 1
  /\ UNCHANGED at

\* A head takes its bytes from the stream and announces some messages.
Head ==
  /\ state = "busy" /\ owed > 0
  /\ at' \in Nat /\ at' > at
  /\ owed' \in Nat /\ owed' >= owed - 1
  /\ UNCHANGED state

\* The message is complete exactly when nothing is owed.
Complete ==
  /\ state = "busy" /\ owed = 0
  /\ state' = "complete"
  /\ UNCHANGED <<at, owed>>

\* Anything else that ends a message is an error, wherever it leaves the stream.
Break ==
  /\ state = "busy"
  /\ state' = "broken" /\ owed' = 0
  /\ at' \in Nat /\ at' >= at

\* Between two messages the owner of the stream may move on.
Skip ==
  /\ state /= "busy"
  /\ state' = "rest"
  /\ at' \in Nat /\ at' >= at
  /\ UNCHANGED owed

Next == Begin \/ Head \/ Complete \/ Break \/ Skip

Spec == Init /\ [][Next]_svars
=============================================================================
