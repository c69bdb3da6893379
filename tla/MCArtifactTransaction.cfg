SPECIFICATION Spec
CONSTANTS
  Absent = Absent
  NoFile = NoFile
  N = 3
  Data = {"old", "new"}
  Requests <- MCRequests
  Dirs = {"metadata", "out"}
  Home <- MCHome
  MaxOthers = 1
  MaxFaults = 1
INVARIANTS TypeOK Transaction
PROPERTY OthersKept
