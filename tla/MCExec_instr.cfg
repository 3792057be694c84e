SPECIFICATION Spec
CONSTANTS
  Modulus  = 32
  NumRegs  = 2
  BitAnd  <- MCAnd
  BitOr   <- MCOr
  Lines   <- MCPlainLines
  Script  <- MCNoScript
  Chars   <- MCChars
  Newline  = 3
  SIZE_MAX = 99
  Images  <- MCInstrImages
  MAX_SIZE = 24
  MaxStack = 2
  MaxLog   = 8
  Patch   <- MCPatch
  ByteMod  = 8
  PaneBack = 1
INVARIANTS
  TypeOK
  AddrIsIndex
  PaneInMemory
PROPERTIES
  MathIsModular
  CallSavesNext
  DecodersAgree
  ListingFollows
  ImplementsArch
