CONSTANTS
  w1 = w1
  w2 = w2
  c1 = c1
  c2 = c2
  Ids <- OneId
  Workers <- WorkersVal
  Compositions <- Keys1
  NoId = 0
  NoKey = NoKey
  Imports <- AllImports
  Expungeable <- OneId
  MaxRetries = 2
  MaxBoots = 3
SPECIFICATION Spec
INVARIANTS
  TypeOK
  AcceptedOncePerAsk
  DeliveryIsHonest
PROPERTIES
  KeepsPromise
CHECK_DEADLOCK FALSE
