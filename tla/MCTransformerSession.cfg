SPECIFICATION FairSpec
CONSTANTS
  f1 = f1
  f2 = f2
  Files <- MCFiles
  NoText = NoText
  MaxEdits = 2
  MaxBuilds = 2
INVARIANTS TypeOK AnswersCurrent TrackerHonest
PROPERTY RequestEnds
CHECK_DEADLOCK FALSE
