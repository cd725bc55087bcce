CONSTANTS
  i1 = i1
  i2 = i2
  r1 = r1
  r2 = r2
  alice = alice
  Drain = Drain
  NoRecord = NoRecord
  Ids <- OneId
  Owner <- OneOwner
  Reqs <- OneReq
  Bodies <- PlainBodies
  Unbuildable <- NoIds
  MaxPending = 1
  MaxAttempts = 2
  MaxTime = 0
  MaxBoots = 1
  MaxSends = 3
  StoreFails = FALSE
  Unreadable <- NoIds
  Patching = FALSE
SPECIFICATION FairSpec
PROPERTIES
  CancelledNeverFires
CHECK_DEADLOCK FALSE
