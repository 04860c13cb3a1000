----------------------------- MODULE MCJsonInput -----------------------------
(* Texts for JsonInput. *)
EXTENDS JsonContent

\* A call that was accepted returns: the loops of the decoders end.
CallsReturn == (pc \in Labels) ~> (pc \notin Labels)

-----------------------------------------------------------------------------
(* Inputs *)

SeqsOf(S, n) == [1..n -> S]
UpTo(S, n)   == UNION {SeqsOf(S, k) : k \in 0..n}
After(prefix, S) == {prefix \o s : s \in S}

\* Strings: quotes, escapes, a comma, a control character, two bytes of UTF-8.
StrInputs == After(<<QU>>, UpTo({97, QU, RS, 110, 44}, 5))
             \cup After(<<32, QU>>, UpTo({195, 169, QU, RS, 47}, 4)
             \cup After(<<QU>>, UpTo({10, QU, RS}, 3)))
\* \uXXXX of one, two and three bytes, surrogates, and what may surround it.
UniInputs == {<<QU>> \o a \o <<RS, UU>> \o h \o b :
                a \in {<<>>, <<97>>, <<RS, 110>>}, h \in SeqsOf({48, 49, 68, 56}, 4),
                b \in {<<QU>>, <<RS, 34, QU>>, <<>>, <<QU, 44, QU, 97, QU>>}}
             \cup {<<QU, RS, UU>> \o h : h \in UpTo({48, 103, QU}, 4)}
HexInputs == After(<<QU>>, UpTo({48, 70, 98, QU, 120}, 4))
B64Inputs == After(<<QU>>, UpTo({65, 47, Equals, QU}, 5))
             \cup After(<<QU, 90, 43, 97, 56>>, UpTo({81, 47, Equals, QU}, 4))
ArrInputs == After(<<Open>>, UpTo({49, 48, 53, 44, 93, 32}, 4))
             \cup {<<Open>> \o a \o <<44, 32>> \o b \o <<93>> \o c :
                     a, b \in SeqsOf({50, 53, 54}, 3) \cup {<<48>>, <<48, 49>>, <<45>>},
                     c \in {<<>>, <<44, 34, 50, 34>>}}
StringTexts == StrInputs \cup UniInputs
MixedTexts == After(<<QU>>, UpTo({97, QU, RS, 44}, 3))
             \cup After(<<Open>>, UpTo({49, 44, 93, QU}, 3))
BytesTexts == HexInputs \cup B64Inputs \cup ArrInputs \cup MixedTexts
=============================================================================
