SPECIFICATION FairSpec
CONSTANTS
  FIX42 = FIX42
  FIX44 = FIX44
  FIX43x = FIX43x
  NoThread = NoThread
  NoBeginString = NoBeginString
  Threads <- MCThreads
  HTTP = {h1, h2}
  FIX = {f1}
  BeginStrings <- MCBoth
  NOSVersions <- MCBoth
  CancelVersions <- MCBoth
  Qty = 1
  MaxClOrdIDs = 2
  MaxExecutions = 1
CHECK_DEADLOCK FALSE
PROPERTY AllReturn
