SPECIFICATION Spec
CONSTANTS
  Radix = 2
  MinNegFixInt <- Lowest
  MaxFix = 2
  MaxFixStr = 0
  Reprs = {"array", "index", "name"}
  Capacities = {4, 6}
  Counts = {0, 1, 2, 3, 4, 16}
  Sizes = {0, 3, 4, 16}
  Names = {1, 16}
  Numbers = {1}
  FieldCounts = {1, 3}
  MaxDepth = 3
  MaxStart = 1
INVARIANTS TypeOK FieldsInPlace NeverEarly WrittenRight
PROPERTIES WritesStream
\* A full sink is abandoned.
CHECK_DEADLOCK FALSE
