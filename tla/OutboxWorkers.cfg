CONSTANTS
  w1 = w1
  w2 = w2
  c1 = c1
  c2 = c2
  NoId = 0
  NoKey = NoKey
  Ids <- TwoIds
  Workers <- WorkersVal
  Compositions <- Keys2
  Imports <- NoImports
  Expungeable <- NoIds
  MaxRetries = 0
  MaxBoots = 2
SPECIFICATION FairSpec
INVARIANTS
  RowsAreOwned
  
PROPERTIES
  QueuedIsSettled
CHECK_DEADLOCK FALSE
