CONSTANTS
  t1 = t1
  t2 = t2
  t3 = t3
  t4 = t4
  phone = phone
  laptop = laptop
  r1 = r1
  r2 = r2
  r3 = r3
  alice = alice
  NoToken = NoToken
  NoUser = NoUser
  Tokens = {t1, t2, t3}
  Requests = {r1, r2}
  Clients = {phone, laptop}
  Users = {alice}
  Native = {phone}
  Expiring = {t1}
  ClientOf <- MCClientOf
  UserOf <- MCUserOf
SPECIFICATION FairSpec
PROPERTY EveryCallAnswered
