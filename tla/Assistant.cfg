SPECIFICATION AssistantSpec
CONSTANTS
  Turns = 3
  CallsPerTurn = 1
  Calls = 2
  Retries = 1
  InputSize = 8
  ResultSize = 2
  ResponseSize = 2
  Pieces = 2
  CompletionCalls = 1
  MaxPieces = 3
  ChatHandlers = {h1, h2}
  ChatRequests = {r1, r2}
  MaxRuns = 2
  MaxChatChanges = 1
  MaxFaults = 1
  Callers = {c1, c2}
  MaxAsks = 3
  MaxClaims = 3
  MaxChanges = 1
  MaxCrashes = 1
  Models = {m1, m2}
  Agents = {a1}
  Tasks = {sum, draft}
  SummaryTask = sum
  Skills = {s0, s1, s2}
  BuiltIn = s0
  ConfigHandlers = {h}
  None = None
  MaxEdits = 3
  UserHandlers = {u1, u2}
  Logins = {login, demo}
  Demo = demo
  Passwords = {secret}
  MaxKeys = 2
  MaxEvents = 3
  MaxSwitches = 1
  Upper = upper
  Lower = lower
  Other = other
  Typed <- TwoSpellings
  Connectable <- TwoMailboxes
  SameMailbox <- LowerOrOther
  MaxConnected = 1
  MaxCalls = 3
  MaxErrors = 1
  Installers = {k1, k2}
  MaxVersion = 4
  Hollow = {3}
  MaxInstalls = 3
  MaxStops = 1
INVARIANTS AssistantTypeOK  ChatIsSound   UpdateIsSafe
PROPERTIES ResultKept
SYMMETRY Sym
CHECK_DEADLOCK FALSE
