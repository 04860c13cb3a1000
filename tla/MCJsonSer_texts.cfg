SPECIFICATION Spec
CONSTANTS
  Encoders = {"array", "hex", "base64"}
  Capacities = {5, 24}
  Strings <- Strings4
  Pieces <- SomePieces
  Arrays <- ByteArrays
  Atoms <- None
  Quotable <- None
  MaxDepth = 1
INVARIANTS WrittenRight OkIsUtf8
\* A sink that holds its message is left.
CHECK_DEADLOCK FALSE
