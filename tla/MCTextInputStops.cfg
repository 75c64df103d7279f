CONSTANTS
  Texts <- MCTexts
  InSize  = 5
  OutSize = 2
  MaxN    = 3
  SizeMax = 15
  ReadMayFail = TRUE
SPECIFICATION Spec
INVARIANT StopsWithoutData
CHECK_DEADLOCK FALSE
