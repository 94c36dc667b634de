CONSTANTS
  Base <- MCBase
  SlotChoices <- MCSlots
  Offsets <- MCOffsets
  Lengths = {1, 2}
  MaxUses = 5
SPECIFICATION Spec
INVARIANTS
  TypeOK
  ResidualOutsideSlots
  PlansExact
  AllOrNothing
CHECK_DEADLOCK FALSE
