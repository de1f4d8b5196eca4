SPECIFICATION Spec
CONSTANTS
  None = None
  First = First
  Other = Other
  c1 = c1
  c2 = c2
  s1 = s1
  d1 = d1
  o1 = o1
  r1 = r1
  r2 = r2
  Command = {c1, c2}
  Request = {s1, d1, o1, r1, r2}
  Fixture = {k1, k2}
  Kinds = {"provision", "revoke", "seed", "reset", "migrate"}
  MaxFaults = 1
  Rings <- TwoKeys
  SmokeSignIn = s1
  SmokeDeck = d1
  SmokeSignOut = o1
  MaxReleases = 2
  MaxLost = 1
  Casts <- RevocationRace
PROPERTY RevocationImmediate
CHECK_DEADLOCK FALSE
