SPECIFICATION MCSpec
CONSTANTS
  FIX = FIX
  EXEC = EXEC
  CLIENT = CLIENT
  None = None
  Q1 = Q1
  Q2 = Q2
  NoRow = NoRow
  ZeroTime = zero
  Values <- MCValues
  Sessions <- MCTwoSessions
  Payloads = {pay1}
  Times = {zero, now}
  Outcomes <- MCAllOutcomes
  MaxSeq = 3
CONSTRAINT MCConstraint
PROPERTY NumbersMoveByOne
INVARIANTS TypeOK Agreement RowPresent ResetComplete
