CONSTANTS
  Nodes = {n1, n2, n3, n4, n5, n6, n7}
  NULL = NULL
  MaxKey = 3
SPECIFICATION UserSpec
SYMMETRY Symmetry
INVARIANTS HeapIsIntact HeapIsOrdered
