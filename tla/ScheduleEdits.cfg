CONSTANTS
  i1 = i1
  i2 = i2
  r1 = r1
  r2 = r2
  alice = alice
  Drain = Drain
  NoRecord = NoRecord
  Ids <- TwoIds
  Owner <- OneOwner
  Reqs <- TwoReqs
  Bodies <- PlainBodies
  Unbuildable <- NoIds
  MaxPending = 1
  MaxAttempts = 2
  MaxTime = 0
  MaxBoots = 2
  MaxSends = 2
  StoreFails = TRUE
  Unreadable <- OneId
  Patching = TRUE
SYMMETRY Alike
SPECIFICATION Spec
INVARIANTS
  TypeOK
  RecordsAreKept
CHECK_DEADLOCK FALSE
