SPECIFICATION FairSweepSpec
CONSTANTS
  o1 = o1
  o2 = o2
  o3 = o3
  Objects <- MCObjects
INVARIANTS
  SweepTypeOK
  PromiseKept
  RightCopies
  HonestReport
PROPERTIES
  ImplementsVerdict
  Recorded
CHECK_DEADLOCK FALSE
