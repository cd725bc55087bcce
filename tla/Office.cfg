SPECIFICATION Spec
CONSTANTS
  Handlers = {h1, h2}
  MaxFaults = 1
  Keys = {k1}
  Labels = {l1}
  Options = {o1, o2}
  Rows = {r1}
  Importers = {i1}
  MaxProducts = 2
  MaxCategories = 2
  MaxWrites = 4
  ListKeys = {model, price}
  ModelKey = model
  Texts = {t1}
  EmptyCell = blank
  ListImporters = {h1, h2}
  MaxRows = 2
  MaxCellEdits = 2
  Cards = {card}
  Editors = {tab}
  Prices = {1}
  Builtins = {builtin}
  MaxMinted = 1
  MaxVersions = 2
  MaxEdits = 3
  Uids = {u}
  Guests = {g}
  Nowhere = Nowhere
  MaxRequests = 2
  MaxForeign = 1
  Groups = {g1, g2}
  Books = {b1, b2}
  First = b1
  MaxCards = 3
INVARIANTS OfficeTypeOK  NothingInvisible  
PROPERTIES OffersAreKept GroupwareIsKept
SYMMETRY Sym
CHECK_DEADLOCK FALSE
