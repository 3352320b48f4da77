SPECIFICATION FairSpec
CONSTANTS
  FIX = FIX
  EXEC = EXEC
  CLIENT = CLIENT
  None = None
  NoRow = NoRow
  NotSending = NotSending
  ZeroTime = zero
  Values <- MCValues
  Sessions <- MCSessions
  Payloads = {pay1, pay2}
  Times = {zero}
  Outcomes <- MCAllOutcomes
  MaxSeq = 3
  Settings <- MCSettings
INVARIANTS SessionTypeOK WireBelowNext ResendFaithful
PROPERTIES ImplementsOutgoingLog WedgeCleared
