\* A 16-bit usize in a debug build.
SPECIFICATION FairSpec
CONSTANTS
  Inputs <- ShortInputs
  Radix = 4
  Usize = 16
  OverflowChecks = TRUE
  Jumps = {1}
INVARIANTS OneMessage
PROPERTIES CursorGrows CallsReturn
\* A panic stops the program.
CHECK_DEADLOCK FALSE
