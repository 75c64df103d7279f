CONSTANTS
  FileSize    = 5
  BytesLength = 3
  MaxOffset   = 2
  MaxFrom     = 2
  SizeMax     = 15
  MayFail     = TRUE
SPECIFICATION Spec
INVARIANTS TypeOK RefusesWhatDoesNotFit ReadExact CopyConserves
PROPERTY EndsOnlyAtEnd
