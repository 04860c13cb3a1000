SPECIFICATION Spec
CONSTANTS
  Units <- AllUnits
  Inputs <- Texts
  MaxDigits = 2
INVARIANTS TypeOK OneValue FailureMeans
PROPERTIES ReadsTokens
\* The deserializer is consumed by end().
CHECK_DEADLOCK FALSE
