------------------------------- MODULE MCJsonDe -------------------------------
(* Texts for JsonDe, and a reference that reads them by recursive descent.   *)
EXTENDS JsonDe

AllUnits == Structural \cup NumChar \cup Words \cup {QU, " ", "cut", "~"}

-----------------------------------------------------------------------------
(* The reference: where the value at p ends, or one of these.  Strictly it is
   JSON; loosely, numbers are any run of their characters, and the strings that
   are values may hold escapes that mean nothing. *)

Truncated == 100
Bad       == 101

CharEnd(s, p, S) ==
  IF \E q \in p..(Len(s) - 1) : s[q + 1] \notin S
  THEN CHOOSE q \in p..(Len(s) - 1) : s[q + 1] \notin S /\ \A r \in p..(q - 1) : s[r + 1] \in S
  ELSE Len(s)
NextUnit(s, p) == CharEnd(s, p, {" "})

IsDigits(s) == s /= <<>> /\ \A k \in DOMAIN s : s[k] \in {"0", "1"}
Part(s, i, j) == SubSeq(s, i, j)
\* -? (0 | [1-9][0-9]*) (. [0-9]+)? (e -?[0-9]+)?, an integer of few digits.
IsJsonNumber(run) ==
  LET s == IF run[1] = "-" THEN Tail(run) ELSE run
      n == Len(s)
      Whole(t) == IsDigits(t) /\ (t[1] = "0" => Len(t) = 1)
      Exponent(t) == IsDigits(IF t /= <<>> /\ t[1] = "-" THEN Tail(t) ELSE t)
      Decimal(t) == Whole(t) \/ \E k \in DOMAIN t : t[k] = "." /\ Whole(Part(t, 1, k - 1))
                                                    /\ IsDigits(Part(t, k + 1, Len(t)))
  IN \/ Whole(s) /\ Len(run) <= MaxDigits
     \/ ~IsDigits(s) /\ Decimal(s)
     \/ \E k \in 1..n : s[k] = "e" /\ Decimal(Part(s, 1, k - 1)) /\ Exponent(Part(s, k + 1, n))

RefString(s, p, strict) ==
  LET q == CharEnd(s, p + 1, AllUnits \ {QU, "~"})
      e == CharEnd(s, p + 1, AllUnits \ {QU})
  IN IF strict /\ q < Len(s) /\ s[q + 1] = "~" THEN Bad
     ELSE IF e = Len(s) THEN Truncated ELSE e + 1
RefNumber(s, p, strict) ==
  LET e == CharEnd(s, p, {"0", "1", "-", ".", "e"})
  IN IF strict /\ ~IsJsonNumber(Part(s, p + 1, e)) THEN Bad ELSE e

RECURSIVE RefValue(_, _, _), RefItems(_, _, _, _, _), RefMember(_, _, _)
RefValue(s, from, strict) ==
  LET p == NextUnit(s, from) IN
  IF p = Len(s) THEN Truncated
  ELSE LET u == s[p + 1] IN
  CASE u = QU -> RefString(s, p, strict)
    [] u \in Words -> p + 1
    [] u \in {"0", "1", "-", ".", "e"} -> RefNumber(s, p, strict)
    [] u = "[" -> RefItems(s, p + 1, "]", TRUE, strict)
    [] u = "{" -> RefItems(s, p + 1, "}", TRUE, strict)
    [] OTHER   -> Bad
RefItems(s, from, closer, first, strict) ==
  LET p == NextUnit(s, from)
      item == IF first THEN p ELSE NextUnit(s, p + 1)
  IN IF p = Len(s) THEN Truncated
     ELSE IF s[p + 1] = closer THEN p + 1
     ELSE IF ~first /\ s[p + 1] /= "," THEN Bad
     ELSE LET e == IF closer = "]" THEN RefValue(s, item, strict) ELSE RefMember(s, item, strict)
          IN IF e > Len(s) THEN e ELSE RefItems(s, e, closer, FALSE, strict)
RefMember(s, p, strict) ==
  IF p = Len(s) THEN Truncated
  ELSE IF s[p + 1] /= QU THEN Bad
  ELSE LET e == RefString(s, p, TRUE) IN
  IF e > Len(s) THEN e
  ELSE LET c == NextUnit(s, e) IN
  IF c = Len(s) THEN Truncated
  ELSE IF s[c + 1] /= ":" THEN Bad
  ELSE RefValue(s, c + 1, strict)

Strict == RefValue(text, start, TRUE)
Loose  == RefValue(text, start, FALSE)

-----------------------------------------------------------------------------
(* Properties against the reference *)

\* Ok means that exactly one value was consumed, and the same one whether it was
\* skipped or read, as any type, by any visitor.  The one reader that may stop
\* before the end of a value is that of a single integer, behind a zero or a
\* digit that is not part of it.
OneValue ==
  pc = "ok" => \/ index = Loose
               \/ /\ op = "typed" /\ start < index /\ index < Loose /\ Loose <= Len(text)
                  /\ \A k \in (NextUnit(text, start) + 1)..Loose : text[k] \in NumChar

\* A visitor that takes whatever comes, or ignores it, fails only on what is not
\* JSON; and the end of the text is reported exactly when a value is cut by it
\* (a literal that is misspelt near the end is also reported so).
FailureMeans ==
  pc = "failed" /\ op /= "typed" /\ err /= "TrailingCharacters" =>
    /\ Strict > Len(text)
    /\ Strict = Truncated => err = "UnexpectedEof"
    /\ err = "UnexpectedEof" => Loose = Truncated \/ text[index + 1] = "cut"

-----------------------------------------------------------------------------
(* Inputs *)

UpTo(S, n) == UNION {[1..k -> S] : k \in 0..n}
Str(s) == <<QU>> \o s \o <<QU>>

\* Every text of a few units.
Short == UpTo(Structural \cup {QU, "1", " ", "null"}, 4) \cup {Str(s) : s \in UpTo({QU, "~", "1"}, 3)}
         \cup {<<"[">> \o s : s \in UpTo({"[", "]", ",", "1", "0", " "}, 4)}
         \cup {<<"{">> \o s : s \in UpTo({"}", ",", ":", QU, "1"}, 5)}
         \cup UpTo(NumChar, 4)
         \cup {<<"[", "1">> \o s : s \in UpTo({"]", ",", "cut", "true"}, 2)}

\* Documents, and each of them with one unit changed, added or left out.
Documents == {
  <<"[", "1", ",", "[", "]", ",", "{", "}", " ", "]">>,
  <<" ", "{", QU, "1", QU, " ", ":", "[", "null", "]", ",", " ", QU, QU, ":", "0", "}", " ">>,
  <<"{", QU, "true", QU, ":", "{", QU, "-", "1", QU, ":", QU, "0", QU, "}", "}">>,
  <<"[", QU, "1", QU, ",", "-", "1", ".", "0", "e", "1", ",", "true", "]">>,
  <<"[", "{", QU, "~", QU, ":", "0", "}", ",", "{", QU, "0", QU, ":", "-", "1", "}", "]">>,
  <<"{", QU, " ", "1", "1", "1", QU, ":", "[", "{", QU, "0", QU, ":", "false", "}", ",", "1", "]", "}">>}
Changed(d) ==
  UNION {{SubSeq(d, 1, k - 1) \o <<u>> \o SubSeq(d, j, Len(d)) : u \in AllUnits, j \in {k, k + 1}}
           : k \in 1..Len(d)}
  \cup {SubSeq(d, 1, k - 1) \o SubSeq(d, k + 1, Len(d)) : k \in 1..Len(d)}
  \cup {SubSeq(d, 1, k) : k \in 0..Len(d)} \cup {d \o <<u>> : u \in AllUnits}
Texts == Short \cup UNION {Changed(d) : d \in Documents}
=============================================================================
