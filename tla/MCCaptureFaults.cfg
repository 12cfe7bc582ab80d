SPECIFICATION FairSpec
CONSTANTS
  m1 = m1  m2 = m2  t3 = t3  m4 = m4
  c1 = c1  c2 = c2
  n1 = n1  n2 = n2  n3 = n3
  None = None
  Messages = {m1, m2}
  Media <- MCMedia
  Contacts = {c1}
  Sender <- MCOneSender
  Numbers = {n1, n2}
  BookingNumber <- MCOwnNumber
  DocTypes = {PAN}
  Blocking = {PAN}
  Optional = {}
  MaxPolls = 2
  FetchRetries = 1
  ProcessRetries = 1
  MaxAborts = 2
  MaxCrashes = 1
CHECK_DEADLOCK FALSE
INVARIANTS StuckProcessingHasCause UnjudgedIsPolled
PROPERTIES FollowsFileLifecycle DebounceEnds PollChainsEnd ClaimedSessionSettles
