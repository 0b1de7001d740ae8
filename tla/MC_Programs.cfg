SPECIFICATION Spec
CONSTANTS
  HEAP_SIZE = 19
  Base = 1000
  Sizes = {3, 12}
  Items = {1, 2, 3, 4}
  Priorities = {0, 1, 2}
  Arrays <- MCArrays
  Graphs <- MCGraphs
  Vertices <- MCVertices
  Factors <- MCFactors
  Matrices <- MCMatrices
  Words <- MCWords
  Operands <- MCOperands
INVARIANTS ComputesItsReference TablesAgree QueueServesInOrder HeapAccounts
CONSTRAINT Intact
CHECK_DEADLOCK FALSE
