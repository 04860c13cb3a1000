------------------------------- MODULE ByteSink -------------------------------
(***************************************************************************)
(* What trait SerWrite promises the serializers: a write appends all the   *)
(* bytes it was given, or returns an error.  A sink is whole if an error   *)
(* leaves it as it was; the trait lets it keep the first of the bytes.     *)
(***************************************************************************)
EXTENDS Naturals, Sequences

CONSTANT Bytes

VARIABLES
  whole,     \* an error leaves the sink as it was
  content,   \* what the sink holds since it was last emptied
  taken,     \* what the last call handed out
  asked,     \* the bytes of the last write
  result     \* what it returned

svars == <<whole, content, taken, asked, result>>

Prefixes(s) == {SubSeq(s, 1, n) : n \in 0..Len(s)}

Write ==
  /\ asked' \in Seq(Bytes)
  /\ \/ content' = content \o asked' /\ result' = "ok"
     \/ /\ result' = "BufferFull"
        /\ \E kept \in IF whole THEN {<<>>} ELSE Prefixes(asked') \ {asked'} :
             content' = content \o kept
  /\ taken' = <<>> /\ UNCHANGED whole

\* The owner takes the bytes, or forgets them.
Take ==
  /\ taken' = content /\ content' = <<>>
  /\ asked' = <<>> /\ result' = "taken" /\ UNCHANGED whole
Forget ==
  /\ taken' = <<>> /\ content' = <<>>
  /\ asked' = <<>> /\ result' = "none" /\ UNCHANGED whole

Init == whole \in BOOLEAN /\ content = <<>> /\ taken = <<>> /\ asked = <<>> /\ result = "none"

Next == Write \/ Take \/ Forget

Spec == Init /\ [][Next]_svars
=============================================================================
