CONSTANTS
  decl = decl
  pkg = pkg
  l1 = l1
  l2 = l2
  l3 = l3
  Nobody = Nobody
  Projects <- MCProjects
  Barriers <- MCBarriers
  Files <- MCFiles
  Writer <- MCWriter
  Reads <- MCReads
  Loaders <- MCLoaders
  Owner <- MCOwner
  MaxVersion = 2
  MaxDrains = 2
SPECIFICATION FairSpec
INVARIANTS NeverLost FreshDeclarations
PROPERTIES ImplementsSharedParses LookupsReturn
CHECK_DEADLOCK FALSE
