SPECIFICATION FairSpec
CONSTANTS
  Modulus  = 32
  NumRegs  = 2
  BitAnd  <- MCAnd
  BitOr   <- MCOr
  Lines   <- MCLines
  Script  <- MCScript
  Chars   <- MCChars
  Newline  = 3
  SIZE_MAX = 99
  Images  <- MCInputImages
  MAX_SIZE = 24
  MaxStack = 2
  MaxLog   = 8
  Patch   <- MCPatch
  ByteMod  = 8
  PaneBack = 1
INVARIANTS
  FFConsistent
  UnreadInBuffer
  AddrIsIndex
PROPERTIES
  TracedRunStops
