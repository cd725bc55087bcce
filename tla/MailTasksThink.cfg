CONSTANTS
  m1 = m1
  m2 = m2
  alice = alice
  bob = bob
  a1 = a1
  a2 = a2
  n1 = n1
  n2 = n2
  NoWorker = NoWorker
  NoTask = NoTask
  Messages <- TwoMessages
  Mailbox <- TwoMailbox
  Workers <- TwoLanes
  Lane <- LaneVal
  Serves <- ServesBoth
  MaxAI = 1
  MaxAttempts <- ThinkTwice
  Types <- Thinking
  MaxRetries = 0
  MaxLosses = 0
  MaxStops = 1
SPECIFICATION FairSpec
INVARIANTS
  AICapacity
PROPERTIES
  EventuallySettled
CHECK_DEADLOCK FALSE
