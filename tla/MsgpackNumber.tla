----------------------------- MODULE MsgpackNumber -----------------------------
(***************************************************************************)
(* A number on its way through MessagePack: serialized by one serialize_*  *)
(* of ser.rs as the type the program has it in, and parsed by de.rs as the *)
(* type some other program asks for.                                       *)
(***************************************************************************)
EXTENDS MsgpackInt

CONSTANT Numbers   \* the numbers programs have
ASSUME NumbersAssumption == Numbers \subseteq Int

VARIABLES
  pc,      \* "ready" or "packed"
  from,    \* the type the number is serialized as
  number,  \* the number
  to       \* the type it is read as

pvars == <<pc, from, number, to>>

Init == pc = "ready" /\ from = "none" /\ number = 0 /\ to = "none"

Choose ==
  /\ pc = "ready"
  /\ \E t \in Types, x \in Numbers : Fits(t, x) /\ from' = t /\ number' = x
  /\ to' \in Types /\ pc' = "packed"

Next == Choose
Spec == Init /\ [][Next]_pvars

\* What is written, and what is read.
Packed == [code |-> IntCode(from, number), digits |-> IntDigits(from, number)]
Read   == ParseInteger(to, Packed.code, Packed.digits)

-----------------------------------------------------------------------------
(* Properties *)

\* A number written as one type and read as another comes back as it was if
\* the other type has it, and is refused with InvalidInteger if not.
RoundTrip ==
  pc = "packed" =>
    Read = IF Fits(to, number) THEN <<"ok", number>> ELSE <<"InvalidInteger", 0>>

\* No code of the format that could stand for the number has fewer digits.
Fewest == (IF MinNegFixInt <= number /\ number < Radix \div 2 THEN {0} ELSE {})
          \cup {Width[w] : w \in {t \in Types : Fits(t, number)}}
Shortest ==
  pc = "packed" =>
    LET size == Len(Packed.digits) IN
    size \in Fewest /\ \A other \in Fewest : size <= other

\* The inductive invariant: the type that a number is written as has it.
Asked ==
  pc = "packed" => from \in Types /\ to \in Types /\ number \in Int /\ Fits(from, number)
=============================================================================
