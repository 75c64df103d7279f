CONSTANTS
  MaxFd  = 18
  Stdin  = Stdin
  Stdout = Stdout
  Stderr = Stderr
  SysIn  = SysIn
  SysOut = SysOut
  SysErr = SysErr
  FileIOs     = {f1}
  TextStreams = {}
  Modes <- MCModes
  GarbageFds <- MCGarbageFds
  MaxPopens   = 2
SPECIFICATION PopenSpec
PROPERTY SavesStdout
