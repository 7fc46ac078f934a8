CONSTANTS
  Loops <- MCLoops
  IdleStrategy <- BusySpin
  Emits <- MCEmits
  BadPackets <- MCBadPackets
  MaxDatagrams = 1
SPECIFICATION RunSpec
INVARIANTS
  NoConcurrentJoin
