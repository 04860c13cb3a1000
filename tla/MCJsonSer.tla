------------------------------ MODULE MCJsonSer ------------------------------
(* What JsonSer writes, read by JsonReference.                               *)
EXTENDS JsonSer

UpTo(S, n) == UNION {[1..k -> S] : k \in 0..n}
Null == {<<110, 117, 108, 108>>}
One  == {<<49>>}

None == {}
Few  == {<<>>, <<34>>}
OnePiece == {<<34>>}
\* Quote, backslash, a letter, a new line, a control code and two bytes of UTF-8.
Units    == {<<34>>, <<92>>, <<97>>, <<10>>, <<1>>, <<195, 169>>}
Strings4 ==
  LET pairs == {<<>>} \cup Units \cup {a \o b : a, b \in Units} IN {a \o b : a, b \in pairs}
SomePieces == {<<34>>, <<97, 1>>, <<195, 169>>}
ByteArrays == UpTo({0, 1, 9, 10, 99, 100, 129, 255}, 4) \cup {<<b>> : b \in Byte}
              \cup {<<251, 255, 190, 62, 63, 254, 7>>}
Short == {<<>>, <<7, 200>>}

Format == INSTANCE JsonReference
Written == Format!Value(out, 0)

\* An event of the reference is what an event of the calls meant.
Denotes(read, call) ==
  CASE call[1] = "quoted" -> read = <<"str", call[2]>>
    [] call[1] = "hex"    -> read[1] = "str" /\ Format!HexBytes(read[2]) = call[2]
    [] call[1] = "base64" -> /\ read[1] = "str" /\ Format!Base64Padded(read[2])
                             /\ Format!Base64Bytes(read[2]) = call[2]
    [] call[1] = "number" -> read[1] = "atom" /\ Format!DecimalValue(read[2]) = call[2]
    [] OTHER -> read = call

\* Bytes as a list of numbers are a list.
Calls ==
  LET Expand(e) == IF e[1] /= "array" THEN <<e>>
                   ELSE <<<<"begin", "list">>>>
                        \o [k \in 1..Len(e[2]) |-> <<"number", e[2][k]>>]
                        \o <<<<"end", RBRACKET>>>>
      flat[k \in 0..Len(meant)] == IF k = 0 THEN <<>> ELSE flat[k - 1] \o Expand(meant[k])
  IN flat[Len(meant)]

\* When Ok is returned the sink holds one JSON value, and it denotes what was
\* serialized: strings with their characters, keys as strings, bytes as encoded.
WrittenRight ==
  pc = "ok" => /\ Written.end = Len(out)
               /\ Len(Written.events) = Len(Calls)
               /\ \A k \in 1..Len(Calls) : Denotes(Written.events[k], Calls[k])

\* Comment of serialize_key: a key that serializes as something other than a
\* string produces invalid JSON.
OtherKeysInvalid ==
  pc = "ok" /\ (\E k \in 1..Len(meant) : meant[k][1] = "quoted") => Written.end /= Len(out)
=============================================================================
