SPECIFICATION FairSpec
CONSTANTS
  m1 = m1
  m2 = m2
  za = za
  zb = zb
  k1 = k1
  k2 = k2
  Maps = {m1, m2}
  Zones = {za, zb}
  MapOf <- MCMapOf
  Home = za
  Clients = {k1}
  Login = Login
  NoMap = NoMap
  NoClient = NoClient
  NoSession = NoSession
  Neighbour = FALSE
  MaxMoves = 3
  MaxLogins = 2
  MaxCrashes = 1
INVARIANT RowFollows
PROPERTY AccountFreedUnlessCut
CHECK_DEADLOCK FALSE
