SPECIFICATION FairSpec
CONSTANTS
  Keys       <- MCKeys
  Addrs      <- MCAddrs
  BreakFiles <- MCBreakFiles
  WordMod = 8
  InCap   = 1
  OutCap  = 2
  LineMax = 2
INVARIANTS
  TypeOK
  OneInside
  MutexReturned
  SetupGate
  PausedMode
  StopsAtBreakpoint
  ScreenOutlivesVm
PROPERTIES
  MutexFreed
  StartsOnceSetUp
  ScreenEnds
  QuitEndsVm
CHECK_DEADLOCK FALSE
