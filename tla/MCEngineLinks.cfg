CONSTANTS
  Names = {"a", "b", "x", "y", "env"}
  Links <- MCLinks
  Argv0 <- MCArgv0
  Cwds  <- MCCwds
  MaxSize = 2
  Disks <- MCDisks
  Variables = {"PATH", "HOME"}
  MaxCalls = 3
SPECIFICATION EngineSpec
PROPERTY RelativeToLink
CHECK_DEADLOCK FALSE
