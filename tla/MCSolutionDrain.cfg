CONSTANTS
  N = 3
  Graphs <- MCGraphs
  Flamework = {1}
  Overlaps <- MCOverlaps
  Builders = 2
  Steps = 2
  MaxEdits = 1
  None = None
SPECIFICATION FairSpec
INVARIANTS
  Fresh
  MetadataCurrent
  FailureBlocks
PROPERTY
  AllOrNothing ImplementsOrder DrainEnds
