SPECIFICATION Spec
CONSTANTS
  Keys       <- MCKeys
  Addrs      <- MCAddrs
  BreakFiles <- MCBreakFiles
  WordMod = 8
  InCap   = 1
  OutCap  = 2
  LineMax = 2
INVARIANTS
  EveryLineBreaks
CHECK_DEADLOCK FALSE
