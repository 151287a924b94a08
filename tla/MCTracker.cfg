CONSTANTS
  d1 = d1
  d2 = d2
  w1 = w1
  w2 = w2
  w3 = w3
  p1 = p1
  p2 = p2
  acme = acme
  pune = pune
  None = None
  Absent = Absent
  Deals = {d1, d2}
  Rows = {w1, w2}
  Requests = {p1, p2}
  Clients = {acme}
  Sites = {pune}
  Asked <- MCAsked
  Null = Null
  headerRows = 3
  maxImportRows = 2
  Extends <- MCExtends
  Grids <- MCGrids
  Books <- MCBooks
  Texts <- MCTexts
  Imports = {p1, p2}
  Booked = {1, 2}
  Words <- MCWords
  Title <- MCTitle
  Account <- MCAccount
  Clean <- MCClean
  Worlds <- MCWorlds
  Uploads <- MCUploads
  Births = 2
  Others = 1
  s1 = s1
  s2 = s2
  aDeal = aDeal
  typed = typed
  NoSite = NoSite
  Plants = {s1, s2}
  Owners = {"owner"}
  Jobs = {aDeal}
  SiteNames = {w1, w2}
  Typed <- MCTyped
  Picks <- MCPicks
  Saves = {p1, p2}
SYMMETRY MCSymmetry
CONSTRAINT MCBound
SPECIFICATION MCSpec
INVARIANTS
  MCTypeOK DealsAreTracked BoardsAgree  ImportIsExact ReimportIsIdle 
PROPERTIES
  RowsAreNotTaken SheetsAreApplied
CHECK_DEADLOCK FALSE
