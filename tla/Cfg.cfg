CONSTANTS
  Programs <- MCPrograms
  Half = 3
SPECIFICATION Spec
INVARIANTS
  TypeOK
  BlocksFaithful
  EntryNotATarget
  RefusedRightly
PROPERTY FollowsMachine
CHECK_DEADLOCK FALSE
