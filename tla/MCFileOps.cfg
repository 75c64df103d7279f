CONSTANTS
  Depth = 3
  Times = {2, 3}
  Now = 1
  IntSize = 4096
SPECIFICATION Spec
INVARIANT TypeOK
PROPERTIES MakesOrThrowsForAReason KeepsData
