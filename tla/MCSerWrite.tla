------------------------------ MODULE MCSerWrite ------------------------------
(* Buffers for SerWrite.                                                     *)
EXTENDS SerWrite

UpTo(S, n) == UNION {[1..k -> S] : k \in 0..n}
FewBufs == UpTo(Bytes \ {0}, 2) \cup {<<1, 1, 1>>, <<1, 2, 1, 2, 1>>}
=============================================================================
