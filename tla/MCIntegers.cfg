SPECIFICATION MCSpec
CONSTANTS
  Base = 10
  Half <- Halves
  Size <- Sizes
  Texts <- FewTexts
  Radix = 4
  MinNegFixInt <- Lowest
  Numbers <- FewNumbers
INVARIANTS RoundTrip Shortest Exact
\* A number is read once.
CHECK_DEADLOCK FALSE
