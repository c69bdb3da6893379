SPECIFICATION Spec
CONSTANTS
  lib = lib
  mid = mid
  main = main
  Files <- ReFiles
  Versions <- ReVersions
  ApiOf <- ReApi
  ImportsOf <- ReImports
  Spells <- ReSpells
  Shows <- ReShows
  NoOutput = NoOutput
  Torn = Torn
  MaxEdits = 1
  MaxBuilds = 2
INVARIANT OutputsOfFullBuild
CHECK_DEADLOCK FALSE
