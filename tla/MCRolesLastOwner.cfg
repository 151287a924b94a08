CONSTANTS
  ann = ann
  bob = bob
  eve = eve
  r1 = r1
  r2 = r2
  Nobody = Nobody
  Members = {ann, bob, eve}
  Requests = {r1, r2}
  Founder = ann
  Asked = {"owner", "admin", "sales"}
SYMMETRY MCSymmetry
SPECIFICATION Spec
INVARIANT RacesKeepAnOwner
