SPECIFICATION InRangeSpec
CONSTANTS
  MaxInt = 127
  BodyLimit = 30
  Requests <- MCRequests
  Indexes <- MCIndexes
  Lengths <- MCLengths
CHECK_DEADLOCK FALSE
INVARIANTS
  TypeOK
  CommittedTiles
  WrittenIsCovered
  ResumeAtFirstGap
  NeverStuck
PROPERTY
  ResumingFinishes
