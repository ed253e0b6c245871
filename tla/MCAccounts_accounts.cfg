SPECIFICATION Spec
CONSTANTS
  home = home
  org1 = org1
  org2 = org2
  a1 = a1
  a2 = a2
  i1 = i1
  i2 = i2
  q1 = q1
  q2 = q2
  h1 = h1
  h2 = h2
  p1 = p1
  p2 = p2
  None = None
  Attempt = {a1, a2}
  Ip = {home}
  Request = {q1, q2}
  Redeemer = {h1, h2}
  Invitation = {i1, i2}
  OrgOf <- OneOrg
  Password = {p1, p2}
  PairLimit = 1
  AccountLimit = 1
  LoginWindow = 0
  Wait = 1
  Retention = 1
  ResetLimit = 1
  ResetWindow = 1
  TTL = 1
  MaxNow = 2
SYMMETRY Symmetric
INVARIANTS
  TypeOK
  ThrottlesHold
  OldPasswordOut
PROPERTIES
  MailedLinkLasts
  ResetContract
CHECK_DEADLOCK FALSE
