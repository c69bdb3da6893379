SPECIFICATION Spec
CONSTANTS
  lib = lib
  mid = mid
  main = main
  Files <- MCFiles
  Versions <- MCVersions
  ApiOf <- MCApi
  ImportsOf <- MCImports
  Spells <- MCOwn
  Shows <- MCOwn
  NoOutput = NoOutput
  Torn = Torn
  MaxEdits = 2
  MaxBuilds = 2
INVARIANTS TypeOK OutputsOfFullBuild ManifestVouches NoOrphans
CHECK_DEADLOCK FALSE
