CONSTANTS
  q1 = q1
  i1 = i1
  i2 = i2
  i3 = i3
  r1 = r1
  r2 = r2
  r3 = r3
  o1 = o1
  o2 = o2
  free = free
  dear = dear
  None = None
  Quotes = {q1}
  Invoices = {i1, i2}
  Requests = {r1, r2}
  Orgs = {o1, o2}
  Contents = {free, dear}
  Due <- MCDue
  Amounts = {1, 2}
  PaidCap = 2
  SeqCap = 2
  NoDay = NoDay
  Offers = {"quote"}
  Bills = {i1, i2}
  Grain = 10
  QuantityUnit = 10
  Whole = 100
  MaxQuantity = 100
  MaxPrice = 10000
  maxItems = 2
  LineMax = 500
  DueMax = 500
  Entered <- MCEntered
  Receipts = {4, 124}
  PaidMax = 24
  Terms = {0, 4}
  LastDay = 1
  Soon = 3
SPECIFICATION MCSpec
SYMMETRY MCSymmetry
CONSTRAINT MCBound
INVARIANTS
  MCTypeOK  NumbersOncePerOrg CentsAreKept
PROPERTIES
  IssuedStands BookSpec 
CHECK_DEADLOCK FALSE
