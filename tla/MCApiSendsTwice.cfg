SPECIFICATION Spec
CONSTANTS
  c1 = c1  c2 = c2  c3 = c3  other = other  keyless = keyless
  k = k  b = b  b2 = b2
  None = None
  Calls = {c1, c2, c3, keyless}
  Keys = {k}
  Key <- MCKey
  Bodies = {b, b2}
  Body <- MCBody
  MaxLosses = 0
CHECK_DEADLOCK FALSE
INVARIANT NeverSendsTwice
