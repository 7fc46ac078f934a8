CONSTANTS
  c1 = c1
  c2 = c2
  n1 = n1
  n2 = n2
  n3 = n3
  None = None
  Requests <- OneBookRequests
  ClientIds <- MCClientIds
  ClOrdIds <- MCClOrdIds
  NodeIds <- MCNodeIds
  SecurityIds = {1}
  Symbols = {"A", "X"}
  BookSymbols = {"A"}
  MaxPrice = 2
  QtyMod = 4
  IdMod = 1
SPECIFICATION Spec
INVARIANTS
  RejectedReplaceKeepsOriginal
