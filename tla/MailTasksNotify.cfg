CONSTANTS
  m1 = m1
  m2 = m2
  alice = alice
  bob = bob
  a1 = a1
  a2 = a2
  n1 = n1
  n2 = n2
  NoWorker = NoWorker
  NoTask = NoTask
  Messages <- OneMessage
  Mailbox <- OneMailbox
  Workers <- Overlapping
  Lane <- LaneVal
  Serves <- ServesAlice
  MaxAI = 1
  MaxAttempts <- NotifyTwice
  Types <- Notifying
  MaxRetries = 1
  MaxLosses = 1
  MaxStops = 1
SYMMETRY Twins
SPECIFICATION Spec
INVARIANTS
  TypeOK
  WorkIsAccounted
PROPERTIES
  DoneIsFinal
CHECK_DEADLOCK FALSE
