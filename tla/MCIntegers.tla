------------------------------ MODULE MCIntegers ------------------------------
(* Integers in both formats: every type writes its values, and every type    *)
(* reads them back.  In JSON every value of scaled-down types; in            *)
(* MessagePack the values at the limits of the widths.                       *)
EXTENDS MsgpackNumber, JsonNumber, TLC

Lowest == -1
\* 32 bits are like those of the program: three digits signed or not, as ten
\* there; 64 bits have a digit more unsigned, as there.
Halves == (8 :> 16) @@ (16 :> 32) @@ (32 :> 128) @@ (64 :> 512)
Sizes  == [u32 |-> 3, i32 |-> 4, u64 |-> 4, i64 |-> 4]

RECURSIVE Decimal(_)
Decimal(n) == IF n < Base THEN <<n>> ELSE Append(Decimal(n \div Base), n % Base)
DecimalText(x) == IF x < 0 THEN <<Minus>> \o Decimal(-x) ELSE Decimal(x)

UpTo(S, n) == UNION {[1..k -> S] : k \in 0..n}
FewTexts ==
  LET Extremes(t) == {MIN(t) - 1, MIN(t), MAX(t), MAX(t) + 1}
      Around(x) == LET d == DecimalText(x) IN {d, d \o <<0>>, d \o <<Other, 1>>, <<0>> \o d}
  IN UpTo({Minus, Other, 0, 1, 2, 5}, 4)
     \cup UNION {Around(x) : x \in UNION {Extremes(t) : t \in Types}}

Limits == UNION {{Power[k], Power[k] \div 2, -(Power[k] \div 2)} : k \in {1, 2, 4, 8}}
FewNumbers == (-40)..40 \cup UNION {{l + d : d \in (-3)..3} : l \in Limits}

\* A number is on its way through one of the formats.
MCInit == Init /\ JsonInit
MCNext == \/ phase = "ready" /\ Next /\ UNCHANGED jvars
          \/ pc = "ready" /\ JsonNext /\ UNCHANGED pvars
MCSpec == MCInit /\ [][MCNext]_<<pvars, jvars>>
=============================================================================
