SPECIFICATION FairSpec
CONSTANTS
  Inputs <- BytesTexts
  Decoders = {"hex", "b64"}
INVARIANTS DecodedRight RejectsRight
PROPERTIES CallsReturn
\* The deserializer is consumed by end().
CHECK_DEADLOCK FALSE
