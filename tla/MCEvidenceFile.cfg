SPECIFICATION FairSpec
CONSTANTS
  f1 = f1  j1 = j1  j2 = j2
  Files = {f1}
  Jobs = {j1, j2}
  FileOf <- MCFileOf
  Retries = 2
  Ceiling = 3
  ReresolveBelow = 2
  MaxMishaps = 1
CHECK_DEADLOCK FALSE
INVARIANTS TypeOK StoredIsUploaded CeilingHolds
PROPERTIES FollowsFileLifecycle FilesSettle
