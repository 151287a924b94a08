CONSTANTS
  d1 = d1
  d2 = d2
  w1 = w1
  w2 = w2
  w3 = w3
  p1 = p1
  p2 = p2
  acme = acme
  pune = pune
  None = None
  Absent = Absent
  Deals = {d1, d2}
  Rows = {w1, w2}
  Requests = {p1, p2}
  Clients = {acme}
  Sites = {pune}
  Asked <- MCAsked
SYMMETRY MCSymmetry
SPECIFICATION Spec
INVARIANT CreatedDealIsTracked
CHECK_DEADLOCK FALSE
