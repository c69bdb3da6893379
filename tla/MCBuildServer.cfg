CONSTANTS
  Builds = {b1, b2}
  MaxCalls = 2
  Slow = {1, 2}
  None = None
SPECIFICATION FairSpec
INVARIANTS
  TypeOK
  AnsweredOnce
  SerialClientServed
  FailureNotCancellation
PROPERTY
  ImplementsBuildService SessionEnds
