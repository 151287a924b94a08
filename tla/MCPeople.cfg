SPECIFICATION MCSpec
CONSTANTS
  ann = ann
  bob = bob
  eve = eve
  annMail = annMail
  bobMail = bobMail
  eveMail = eveMail
  acme = acme
  home = home
  lead = lead
  won = won
  r1 = r1
  r2 = r2
  t1 = t1
  t2 = t2
  Members = {ann, bob, eve}
  Requests = {r1, r2}
  Founder = ann
  Asked = {"owner", "admin"}
  Nobody = Nobody
  Emails = {annMail, bobMail, eveMail}
  Orgs = {home, acme}
  Invitations = {bob, eve}
  Visits = {r1, r2}
  Providers = {"google"}
  Identities = {"g1", "g2"}
  Allowed = {annMail, bobMail}
  HomeFounder = annMail
  HomeOrg = home
  None = None
  Columns = {lead, won}
  First = lead
  People = {ann, bob, eve}
  Moves = {r1, r2}
  Streams = {t1, t2}
  Viewer <- MCViewer
  Room = 1
  Nemo = Nemo
  Consents = {bob, eve}
  Profiles = {"work", "home"}
  Bookings = {r1, r2}
  Renewals = 3
  Void = Void
SYMMETRY MCSymmetry
CONSTRAINT MCBound
CHECK_DEADLOCK FALSE
INVARIANTS
  MCTypeOK OwnersStay SeatsAreRight NoticesReachEveryone  
PROPERTIES
  OwnershipIsHandedDown AccountsStand DisconnectStands
