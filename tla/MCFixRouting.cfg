CONSTANTS
  UintMod = 4
  SymbolNames = {"", "IBM"}
  ExchangeNames = {"BVMF", "XNYS"}
  Texts = {"", "ok"}
  Outgoing <- MCOutgoing
  Foreign <- MCForeign
  MaxSends = 3
SPECIFICATION Spec
INVARIANTS
  TypeOK
  Carried
  Correlated
