CONSTANTS
  MaxStarts = 4
SPECIFICATION Spec
CHECK_DEADLOCK FALSE
INVARIANT
  ContextOutlivesReceiver
