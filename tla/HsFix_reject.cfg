SPECIFICATION Spec
CONSTANTS
  Codes <- MCCodes
  Counterparties = {"QeelynPB", "qeelyn"}
  SymbolSections <- MCSymbols
  ExchangeSections <- MCExchanges
  Passthrough = "passthrough"
  NotFound = ""
  FixSessions = {s1}
  TargetCompID <- MCTargetCompID
  AccountMap <- MCAccountMap
  Orders <- MCOrders
  NoOrder = NoOrder
  MaxOrders = 1
CHECK_DEADLOCK FALSE
INVARIANT AccountRejectTrue
