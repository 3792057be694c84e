SPECIFICATION FairSpec
CONSTANTS
  Keys       <- MCKeys
  Addrs      <- MCAddrs
  BreakFiles <- MCBreakFiles
  WordMod = 8
  InCap   = 1
  OutCap  = 2
  LineMax = 2
PROPERTIES
  QuitEndsDebugger
CHECK_DEADLOCK FALSE
