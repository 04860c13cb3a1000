------------------------------ MODULE JsonTokens ------------------------------
(***************************************************************************)
(* What one JSON value is, whoever reads it: a run of tokens under a stack *)
(* of open brackets.  There are no calls and no visitors here: the stack   *)
(* and what may follow say when the value is complete.                     *)
(*                                                                         *)
(* A text is a sequence of units: a character, or a whole literal.         *)
(***************************************************************************)
EXTENDS Naturals, Sequences

VARIABLES
  text,    \* the units being read
  at,      \* how many of them have been
  open,    \* the brackets that must still be closed, outermost first
  want,    \* what may follow
  state    \* "rest", "busy", "complete" or "broken"

tvars == <<text, at, open, want, state>>

Blank   == {" "}
Literal == {"null", "true", "false"}
NumChar == {"0", "1", "-", ".", "e"}
Quote   == "\""

AllIn(p, q, S) == \A k \in (p + 1)..q : text[k] \in S

\* The units from p to q are one string, a number, a literal.  A number is a
\* run of characters of one: which runs are numbers is the matter of who reads.
IsString(p, q) ==
  /\ p + 2 <= q /\ text[p + 1] = Quote /\ text[q] = Quote
  /\ \A k \in (p + 2)..(q - 1) : text[k] /= Quote
IsScalar(p, q) ==
  \/ IsString(p, q)
  \/ p < q /\ AllIn(p, q, NumChar)
  \/ q = p + 1 /\ text[q] \in Literal
IsMark(p, q, c) == q = p + 1 /\ text[q] = c

\* at moves over one token, and over the blanks on both sides of it.
From == {p \in at..at' : AllIn(at, p, Blank)}
To   == {q \in at..at' : AllIn(q, at', Blank)}
Mark(c) == at' \in at..Len(text) /\ \E p \in From, q \in To : IsMark(p, q, c)

Innermost == open[Len(open)]
Then(w)   == want' = w /\ UNCHANGED <<text, state>>

\* A value has ended inside the brackets o.
Ended(o) ==
  /\ open' = o /\ UNCHANGED text
  /\ IF o = <<>> THEN state' = "complete" /\ want' = "none"
                 ELSE state' = state /\ want' = "comma"

Busy == state = "busy"

Begin ==
  /\ state \in {"rest", "complete"}
  /\ state' = "busy" /\ want' = "value" /\ open' = <<>>
  /\ UNCHANGED <<text, at>>

Scalar ==
  /\ Busy /\ want = "value"
  /\ at' \in at..Len(text) /\ \E p \in From, q \in To : IsScalar(p, q)
  /\ Ended(open)

Open(bracket, closer) ==
  /\ Busy /\ want = "value"
  /\ Mark(bracket)
  /\ open' = Append(open, closer) /\ Then("first")

\* There is an item.
Item ==
  /\ Busy /\ open /= <<>>
  /\ at' \in at..Len(text) /\ AllIn(at, at', Blank)
  /\ want = "first" /\ Then(IF Innermost = "]" THEN "value" ELSE "key")
  /\ UNCHANGED open

Comma ==
  /\ Busy /\ want = "comma" /\ open /= <<>>
  /\ Mark(",") /\ Then(IF Innermost = "]" THEN "value" ELSE "key")
  /\ UNCHANGED open

Key ==
  /\ Busy /\ (want = "key" \/ (want = "first" /\ Innermost = "}"))
  /\ at' \in at..Len(text) /\ \E p \in From, q \in To : IsString(p, q)
  /\ Then("colon") /\ UNCHANGED open

Colon ==
  /\ Busy /\ want = "colon"
  /\ Mark(":") /\ Then("value") /\ UNCHANGED open

Close ==
  /\ Busy /\ want \in {"first", "comma"} /\ open /= <<>>
  /\ Mark(Innermost)
  /\ Ended(SubSeq(open, 1, Len(open) - 1))

\* Blanks alone.
Space ==
  /\ Busy /\ at' \in at..Len(text) /\ AllIn(at, at', Blank)
  /\ UNCHANGED <<text, open, want, state>>

\* Anything else that ends a value is an error, wherever it leaves the cursor.
Break ==
  /\ Busy \/ state = "complete"
  /\ state' = "broken" /\ want' = "none" /\ open' = <<>>
  /\ at' \in at..Len(text) /\ UNCHANGED text

Init == text \in Seq(STRING) /\ at = 0 /\ open = <<>> /\ want = "none" /\ state = "rest"

Next ==
  \/ Begin \/ Scalar \/ Open("[", "]") \/ Open("{", "}") \/ Item \/ Comma \/ Key
  \/ Colon \/ Close \/ Space \/ Break

Spec == Init /\ [][Next]_tvars
=============================================================================
