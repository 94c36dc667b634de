CONSTANTS
  a = a
  b = b
  c = c
  f = f
  Symbols <- MCSymbols
  Programs <- MCPrograms
SPECIFICATION FairSpec
INVARIANTS
  TypeOK
  PlainOneObject
  InitializersFaithful
  NothingElse
PROPERTY LookupEnds
CHECK_DEADLOCK FALSE
