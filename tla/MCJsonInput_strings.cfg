SPECIFICATION Spec
CONSTANTS
  Inputs <- StringTexts
  Decoders = {"bytes"}
INVARIANTS TypeOK NoPanic UnreadIntact BorrowsDisjoint DecodedRight RejectsRight SkipsSameString
PROPERTIES BorrowsFrozen
\* The deserializer is consumed by end().
CHECK_DEADLOCK FALSE
