SPECIFICATION Spec
CONSTANTS
  Nodes = {n1, n2, n3, n4}
  Vals  = {a, b}
  NULL  = NULL
  NoVal = NoVal
SYMMETRY NodeSymmetry
INVARIANTS
  TypeOK
  NodesOwned
  DestroyFreesAll
PROPERTIES
  DumpNeverAborts
  ImplementsStack
