SPECIFICATION FairSpec
CONSTANTS
  first = first  batch = batch  more = more
  status = status  garbled = garbled
  w1 = w1  w2 = w2  w3 = w3
  None = None
  Deliveries = {first, batch, more, status, garbled}
  Wamids = {w1, w2, w3}
  Messages <- MCMessages
  Signed = {batch, more, status}
  Garbled = {garbled}
  MaxMishaps = 1
CHECK_DEADLOCK FALSE
INVARIANTS TypeOK OneRowPerMessage AnsweredIsRecorded DoneIsRegistered
PROPERTIES FilesStay RowsSettle
