CONSTANTS
  N = 2
  Graphs <- MCApart
  Flamework = {1}
  Overlaps <- MCOverlaps
  Builders = 1
  Steps = 1
  MaxEdits = 3
  None = None
SPECIFICATION SourceSession
INVARIANT SourceEditsRebuilt
CHECK_DEADLOCK FALSE
