\* Numbers as keys.
SPECIFICATION Spec
CONSTANTS
  Encoders = {"array"}
  Capacities = {10}
  Strings <- Few
  Pieces <- None
  Arrays <- None
  Atoms <- One
  Quotable <- One
  MaxDepth = 2
INVARIANTS OtherKeysInvalid
CHECK_DEADLOCK FALSE
