CONSTANTS
  N = 2
  Graphs <- MCChain
  Flamework = {1}
  Overlaps <- MCOverlaps
  Builders = 1
  Steps = 1
  MaxEdits = 2
  None = None
SPECIFICATION StopSession
INVARIANTS
  OnItsWay
  QuietMeansFresh
PROPERTIES
  EditsArrive
  StopEnds
