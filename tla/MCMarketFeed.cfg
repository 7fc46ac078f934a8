CONSTANTS
  c1 = c1
  c2 = c2
  n1 = n1
  n2 = n2
  n3 = n3
  None = None
  Unknown = Unknown
  Requests <- SharedIdRequests
  Announcements <- MCAnnouncements
  ClientIds = {c1, c2}
  ClOrdIds = {1, 2}
  NodeIds <- MCNodeIds
  SecurityIds = {0}
  Symbols = {"A", "B"}
  BookSymbols = {"A", "B"}
  MaxPrice = 2
  QtyMod = 4
  IdMod = 1
  MaxPending = 1
SYMMETRY NodeSymmetry
SPECIFICATION FeedSpec
INVARIANTS
  FeedTypeOK
  SameRecords
  SubscriberKnowsATop
