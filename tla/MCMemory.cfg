SPECIFICATION Spec
CONSTANTS
  Cells    = {p1, p2, p3, p4, p5}
  Content  = {a, b}
  NULL     = NULL
  Junk     = Junk
  MAX_SIZE = 5
  INITIAL_CAPACITY = 1
SYMMETRY CellSymmetry
INVARIANTS
  TypeOK
  Owned
  DestroyFreesAll
PROPERTIES
  ImplementsVector
