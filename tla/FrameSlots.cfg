CONSTANTS
  Base <- MCBase
  Frames <- MCFrames
SPECIFICATION FairSpec
INVARIANTS
  TypeOK
  KeptDisjoint
  KeptReported
  PairsDropped
PROPERTY Terminates
CHECK_DEADLOCK FALSE
