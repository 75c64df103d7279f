CONSTANTS
  MaxUnits = 5
  MayThrow = TRUE
SPECIFICATION Spec
INVARIANTS TypeOK LinesOnce
PROPERTIES StopsAtBlankOrEnd CallsEnd
