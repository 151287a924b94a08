SPECIFICATION MCSpec
CONSTANTS
  l1 = l1
  d1 = d1
  d2 = d2
  p1 = p1
  p2 = p2
  acme = acme
  bolt = bolt
  ann = ann
  bob = bob
  act = act
  box = box
  None = None
  Leads = {l1}
  Deals = {d1, d2}
  Requests = {p1, p2}
  Chosen = {"new", "closed"}
  MaxMeetings = 1
  Nil = Nil
  Clients = {acme, bolt}
  Prospects = {l1}
  Cards = {box}
  Staff = {ann, bob}
  Actions = {act}
  Items = {"item"}
  Senders = {p1, p2}
  Forms <- MCForms
  ItemForms <- MCItemForms
  Conns = {d1, d2, "third"}
  Handlers = {p1, p2, ann}
  Unused = Unused
  Shut = Shut
  maxConnIdleTime = 2
  DropAfter = 4
  n1 = n1
  n2 = n2
  aContact = aContact
  aDeal = aDeal
  anInvoice = anInvoice
  Unset = Unset
  Accounts = {d1, d2}
  Names = {n1, n2}
  Records = {aContact, aDeal, anInvoice}
  Callers = {p1, p2}
  Table <- MCTable
  Entries = {d1, d2}
  Ids = {"u", "v"}
  InTable <- MCInTable
  Naming <- MCNaming
  Authors = {ann}
  Stranger = bob
  Texts = {"text", "other"}
  Blank = Nil
SYMMETRY MCSymmetry
CONSTRAINT MCBound
CHECK_DEADLOCK FALSE
INVARIANT LeadFilterLists
