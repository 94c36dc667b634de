CONSTANTS
  Base <- MCBase
  SlotChoices <- MCSlots
  Offsets <- MCOffsets
  Lengths = {1, 2}
  MaxUses = 5
SPECIFICATION Spec
INVARIANT ResidualNeverStored
CHECK_DEADLOCK FALSE
