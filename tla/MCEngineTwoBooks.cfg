CONSTANTS
  c1 = c1
  c2 = c2
  n1 = n1
  n2 = n2
  n3 = n3
  None = None
  Requests <- TwoBookRequests
  ClientIds <- MCClientIds
  ClOrdIds <- MCClOrdIds
  NodeIds <- MCNodeIds
  SecurityIds = {1, 2}
  Symbols = {"A", "B"}
  BookSymbols = {"A", "B"}
  MaxPrice = 2
  QtyMod = 4
  IdMod = 1
SPECIFICATION FairSpec
INVARIANTS
  ViewIsTop
PROPERTIES
  ImplementsPriceTime
  HandlerReturns
