SPECIFICATION Spec
CONSTANTS
  home = home
  org1 = org1
  org2 = org2
  a1 = a1
  i1 = i1
  i2 = i2
  q1 = q1
  h1 = h1
  p1 = p1
  p2 = p2
  None = None
  Attempt = {a1}
  Ip = {home}
  Request = {q1}
  Redeemer = {h1}
  Invitation = {i1, i2}
  OrgOf <- TwoOrgs
  Password = {p1, p2}
  PairLimit = 1
  AccountLimit = 1
  LoginWindow = 1
  Wait = 1
  Retention = 2
  ResetLimit = 1
  ResetWindow = 1
  TTL = 1
  MaxNow = 1
PROPERTIES
  PasswordIsTheirs
CHECK_DEADLOCK FALSE
