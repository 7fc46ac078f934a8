CONSTANTS
  Tags = {11, 55}
  Types = {"D", "F"}
  Plain = {"", "a"}
  Rests <- MCRests
  MaxPieces = 4
SPECIFICATION Spec
CHECK_DEADLOCK FALSE
INVARIANTS
  OneValuePerTag
  ExactWhenClean
  DecodeTakesLast
