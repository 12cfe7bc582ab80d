SPECIFICATION Spec
CONSTANTS
  f1 = f1  j1 = j1  j2 = j2
  Files = {f1}
  Jobs = {j1}
  FileOf <- MCFileOf
  Retries = 3
  Ceiling = 4
  ReresolveBelow = 3
  MaxMishaps = 0
CHECK_DEADLOCK FALSE
PROPERTY QuarantineIsFinal
