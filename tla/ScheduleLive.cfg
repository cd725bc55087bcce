CONSTANTS
  i1 = i1
  i2 = i2
  r1 = r1
  r2 = r2
  alice = alice
  Drain = Drain
  NoRecord = NoRecord
  Ids <- TwoIds
  Owner <- OneOwner
  Reqs <- OneReq
  Bodies <- AllBodies
  Unbuildable <- Injections
  MaxPending = 2
  MaxAttempts = 2
  MaxTime = 1
  MaxBoots = 2
  MaxSends = 9
  StoreFails = FALSE
  Unreadable <- NoIds
  Patching = FALSE
SPECIFICATION FairSpec
INVARIANTS
  DuplicatesExcused
PROPERTIES
  EventuallyResolved
CHECK_DEADLOCK FALSE
