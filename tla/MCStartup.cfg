CONSTANTS
  MaxStarts = 4
SPECIFICATION Spec
CHECK_DEADLOCK FALSE
INVARIANTS
  PollerIsSafe
  NoThreadBeforeBind
