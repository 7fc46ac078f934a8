CONSTANTS
  UintMod = 4
  SymbolNames = {"IBM"}
  ExchangeNames = {"BVMF", "XNYS"}
  Lines <- MCLines
  MaxLines = 2
  Others <- MCOthers
  ClientMax = 12
  SenderMax = 12
  ServerMax = 11
SPECIFICATION Spec
INVARIANTS
  TypeOK
  RelayExact
  SentIsPrefix
  DefaultsAgreeWithEngine
