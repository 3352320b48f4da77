SPECIFICATION MCSpec
CONSTANTS
  Codes <- MCCodes
  Counterparties = {"QeelynPB", "qeelyn"}
  SymbolSections <- MCAllSymbols
  ExchangeSections <- MCAllExchanges
  Passthrough = "passthrough"
  NotFound = ""
  FixSessions = {s1, s2}
  TargetCompID <- MCTargetCompID
  AccountMap <- MCAccountMap
  Orders <- MCOrders
  NoOrder = NoOrder
  MaxOrders = 2
CHECK_DEADLOCK FALSE
INVARIANTS TypeOK OneMarket WBZDYXHUnique RoundTrip
