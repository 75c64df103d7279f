CONSTANTS
  MaxFd  = 4
  Stdin  = Stdin
  Stdout = Stdout
  Stderr = Stderr
  SysIn  = SysIn
  SysOut = SysOut
  SysErr = SysErr
  FileIOs     = {f1, f2}
  TextStreams = {t1, t2}
  Modes <- MCModes
SYMMETRY Symmetry
SPECIFICATION Spec
INVARIANT WritableOutputs
