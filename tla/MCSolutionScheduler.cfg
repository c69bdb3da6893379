CONSTANTS
  N = 5
  Predecessors <- MCPredecessors
  Overlaps <- MCOverlaps
  Workers = {w1, w2, w3}
  NoTask = NoTask
SPECIFICATION FairSpec
INVARIANTS
  TypeOK
  WriteRootsExclusive
PROPERTIES
  ImplementsOrder
  Terminates
