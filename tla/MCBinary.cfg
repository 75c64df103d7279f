CONSTANTS
  MaxBytes   = 5
  MaxSegment = 2
  MaxOffset  = 1
  MaxSegments = 3
  Objects = {b1, b2}
  MaxLength = 3
  ByteSize = 2
  IntSize = 64
  SizeSize = 128
  Ints <- MCInts
  Texts <- MCTexts
  Expand = 1
SPECIFICATION BinarySpec
INVARIANTS BinaryTypeOK StaysInside TranscodeTypeOK
PROPERTIES IsByteQueue CallsReturn WholeOrError EndsUnlessTruncated
