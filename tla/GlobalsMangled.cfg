CONSTANTS
  a = a
  b = b
  c = c
  f = f
  Symbols <- MCSymbols
  Programs <- MCPrivateString
SPECIFICATION Spec
INVARIANT OneObjectPerSymbol
CHECK_DEADLOCK FALSE
