SPECIFICATION Spec
CONSTANTS
  m1 = m1  m2 = m2  t3 = t3  m4 = m4
  c1 = c1  c2 = c2
  n1 = n1  n2 = n2  n3 = n3
  None = None
  Messages = {m1, m2, t3}
  Media <- MCMedia
  Contacts = {c1, c2}
  Sender <- MCTwoSenders
  Numbers = {n1}
  BookingNumber <- MCSameNumber
  DocTypes = {PAN, RC}
  Blocking = {PAN}
  Optional = {RC}
  MaxPolls = 2
  FetchRetries = 1
  ProcessRetries = 1
  MaxAborts = 0
  MaxCrashes = 0
CHECK_DEADLOCK FALSE
INVARIANTS TypeOK OneOpenSession PromptIsBackedOrParked SatisfiedByAcceptedEvidence CompleteMeansSatisfied
PROPERTIES ChecklistNeverRegresses FollowsLifecycle
