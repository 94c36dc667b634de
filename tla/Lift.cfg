CONSTANTS
  Byte = 1
  MemorySize = 10
  Registers <- MCRegisters
  Instructions <- MCInstructions
  Contents <- MCContents
  Memories <- MCMemories
  MaxSteps = 1
SPECIFICATION Spec
INVARIANTS
  TypeOK
  ReturnExact
PROPERTY FollowsIsa
