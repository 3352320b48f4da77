SPECIFICATION Spec
CONSTANTS
  FIX = FIX
  EXEC = EXEC
  CLIENT = CLIENT
  None = None
  Q1 = Q1
  Q2 = Q2
  NoRow = NoRow
  ZeroTime = zero
  Values <- MCValues
  Sessions <- MCOneSession
  Payloads = {pay1}
  Times = {zero}
  Outcomes <- MCReliable
  MaxSeq = 2
PROPERTY IncrByOne
