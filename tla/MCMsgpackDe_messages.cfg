SPECIFICATION Spec
CONSTANTS
  Inputs <- AllInputs
  Radix = 2
  Usize = 256
  OverflowChecks = FALSE
  Jumps = {1, 30}
INVARIANTS TypeOK LentApart OneMessage FailureMeans LentRight
PROPERTIES ReadsStream
