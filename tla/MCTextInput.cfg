CONSTANTS
  Texts <- MCTexts
  InSize  = 5
  OutSize = 2
  MaxN    = 3
  SizeMax = 15
  ReadMayFail = TRUE
SPECIFICATION FairSpec
INVARIANTS TypeOK Conservation
PROPERTIES IsCharStream ReadEndsUnlessStuck
CHECK_DEADLOCK FALSE
