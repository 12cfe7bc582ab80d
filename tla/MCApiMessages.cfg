SPECIFICATION FairSpec
CONSTANTS
  c1 = c1  c2 = c2  c3 = c3  other = other  keyless = keyless
  k = k  b = b  b2 = b2
  None = None
  Calls = {c1, c2, c3, other}
  Keys = {k}
  Key <- MCKey
  Bodies = {b, b2}
  Body <- MCBody
  MaxLosses = 1
CHECK_DEADLOCK FALSE
INVARIANTS TypeOK OneRecordPerKey PositiveAnswersAreTrue
PROPERTIES ImplementsKeyedMessage SentIsOverwrittenOnlyByARace PendingSettles
