CONSTANTS
  Handlers = {h1, h2}
  Nobody = nobody
  None = none
  Windows = {w1}
  Peers = {"", "c"}
  MaxWindows = 2
  MaxTexts = 3
  FewTexts = 1
  MaxThrown = 1
  FewThrown = 0
  MaxDrafts = 2
  MaxLosses = 1
  Convs = {1, 2}
  Dates = {1, 2}
  Readers = {s1}
  PageSize = 1
  WindowSize = 1
  MaxMail = 2
  MaxActs = 1
  MaxChanges = 1
  Mailboxes = {a, b}
  Uids = {1, 2}
  MessageIds = {m1, m2, m3}
  Subjects = {topic}
  Headers <- ThreadHeaders
  ListingSize = 1
  MaxThreadMail = 3
  MaxListings = 2
  MaxCacheFaults = 0
  Tabs = {t1}
  Writers = {u1}
  MaxConnections = 1
  MaxIdleWatchers = 1
  Buffer = 1
  MaxRevisions = 2
  MaxLoads = 1
  MaxCloses = 1
  MaxCrashes = 1
  MaxAccounts = 2
  MaxLoops = 2
  MaxRequests = 2
SPECIFICATION MailboxSpec
INVARIANTS
  MailboxTypeOK
  SavesAreTaken
  
  ThreadsAreSound
  EventsAreSound
  AccountsAreSound
PROPERTIES
  MailIsKept
CHECK_DEADLOCK FALSE
