SPECIFICATION Spec
CONSTANTS
  FIX42 = FIX42
  FIX44 = FIX44
  FIX43x = FIX43x
  NoThread = NoThread
  NoBeginString = NoBeginString
  Threads <- MCThreads
  HTTP = {h1, h2}
  FIX = {f1}
  BeginStrings <- MCBeginStrings
  NOSVersions <- MCTwo
  CancelVersions <- MCBoth
  Qty = 1
  MaxClOrdIDs = 3
  MaxExecutions = 1
CHECK_DEADLOCK FALSE
SYMMETRY MCHTTPSymmetry
PROPERTY ReportsMeant
INVARIANTS TypeOK ClOrdIDsUnique Registered ResponseNotTorn UnlockedReadSafe NotAllWait
