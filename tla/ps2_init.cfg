SPECIFICATION Spec
CONSTANTS
  Kinds <- MCKinds
  ScanCodes <- MCScanCodes
  MaxKeys = 2
  LateAnswers = TRUE
INVARIANT TypeIsRight
INVARIANT KeyboardBeginsClean
INVARIANT StopsForAReason
CHECK_DEADLOCK FALSE
