\* A 32-bit usize in a release build: a length of four digits fills it.
SPECIFICATION Spec
CONSTANTS
  Inputs <- LongLengths
  Radix = 2
  Usize = 16
  OverflowChecks = FALSE
  Jumps = {}
INVARIANTS OkOnlyIfEnough
