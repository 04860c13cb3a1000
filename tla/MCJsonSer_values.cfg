SPECIFICATION Spec
CONSTANTS
  Encoders = {"array", "hex", "base64", "pass"}
  Capacities = {7, 12}
  Strings <- Few
  Pieces <- OnePiece
  Arrays <- Short
  Atoms <- One
  Quotable <- One
  MaxDepth = 3
INVARIANTS TypeOK WrittenRight AlwaysJson NeverEarly
\* A sink that holds its message is left.
CHECK_DEADLOCK FALSE
