CONSTANTS
  MaxFd  = 18
  Stdin  = Stdin
  Stdout = Stdout
  Stderr = Stderr
  SysIn  = SysIn
  SysOut = SysOut
  SysErr = SysErr
  FileIOs     = {f1}
  TextStreams = {}
  Modes <- MCModes
  GarbageFds <- MCGarbageFds
  MaxPopens   = 2
SPECIFICATION PopenSpec
INVARIANTS PopenTypeOK LeaksSixPerCall ChildHoldsItsEndsOnly ChildrenWait
PROPERTIES PreservesCallersFds ChildrenEnd
CHECK_DEADLOCK FALSE
