CONSTANTS
  q1 = q1
  i1 = i1
  i2 = i2
  i3 = i3
  r1 = r1
  r2 = r2
  r3 = r3
  o1 = o1
  o2 = o2
  free = free
  dear = dear
  None = None
  Quotes = {q1}
  Invoices = {i1, i2}
  Requests = {r1, r2}
  Orgs = {o1, o2}
  Contents = {free, dear}
  Due <- MCDue
  Amounts = {1, 2}
  PaidCap = 2
  SeqCap = 2
SPECIFICATION Spec
SYMMETRY MCSymmetry
INVARIANT QuoteBilledOnce
CHECK_DEADLOCK FALSE
