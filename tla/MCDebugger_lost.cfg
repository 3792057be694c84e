SPECIFICATION Spec
CONSTANTS
  Keys       <- MCKeys
  Addrs      <- MCAddrs
  BreakFiles <- MCBreakFiles
  WordMod = 8
  InCap   = 1
  OutCap  = 4
  LineMax = 2
INVARIANTS
  OutputPrinted
CHECK_DEADLOCK FALSE
