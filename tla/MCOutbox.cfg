SPECIFICATION FairSpec
CONSTANTS
  r1 = r1  r2 = r2  d1 = d1  d2 = d2  gap = gap
  None = None
  Replies = {r1, r2}
  Keys = {gap}
  Dedup <- MCDedup
  Drains = {d1, d2}
  MaxAttempts = 2
  Limit = 2
  MaxDeaths = 1
CHECK_DEADLOCK FALSE
INVARIANTS TypeOK DeliveriesAreCounted SecondDeliveryHasCause OutcomesAreTrue
PROPERTIES FinalStatesStay RepliesSettle
