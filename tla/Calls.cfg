CONSTANTS
  Functions <- MCFunctions
  Declared <- MCDeclared
  unspecifiedMemBytes = 184
SPECIFICATION Spec
INVARIANTS
  TypeOK
  JunkIndependent
  SiteAlive
  CallsMatched
PROPERTY FollowsAbi
