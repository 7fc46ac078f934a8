CONSTANTS
  Loops <- MCLoops
  IdleStrategy <- TimedWait
  Emits <- MCEmits
  BadPackets <- MCBadPackets
  MaxDatagrams = 2
SPECIFICATION FairSpec
INVARIANTS
  TypeOK
  PublishedInOrder
  NothingLostAtStop
  StagesOutliveTasks
PROPERTIES
  NoPostAfterDrain
  StopCompletes
  AcceptedIsPublished
  ReceptionGoesOn
