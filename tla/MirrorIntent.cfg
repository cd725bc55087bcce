CONSTANTS
  Last = 2
  Found = 1
  Batch = 1
  Window = 1
  Limit = 0
  MaxUser = 2
  MaxRemote = 1
  MaxFaults = 1
SPECIFICATION FairSpec
INVARIANTS
  TypeOK
  MirrorIsSound
PROPERTIES
  IntentIsKept
CHECK_DEADLOCK FALSE
