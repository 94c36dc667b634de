CONSTANTS
  a = a
  b = b
  c = c
  f = f
  Symbols <- MCSymbols
  Programs <- MCSelfReferential
SPECIFICATION Spec
INVARIANT SameAnswer
CHECK_DEADLOCK FALSE
