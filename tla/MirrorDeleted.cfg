CONSTANTS
  Last = 2
  Found = 1
  Batch = 1
  Window = 1
  Limit = 0
  MaxUser = 0
  MaxRemote = 2
  MaxFaults = 0
SPECIFICATION Spec
PROPERTIES
  DeletedIsRemoved
CHECK_DEADLOCK FALSE
