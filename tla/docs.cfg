SPECIFICATION Spec
CONSTANTS
  None = None
  First = First
  Other = Other
  s1 = s1
  s2 = s2
  k1 = k1
  k2 = k2
  Seed = {s1, s2}
  Reset = {r1}
  Fixture = {k1, k2}
  MaxFaults = 2
SYMMETRY Symmetric
INVARIANTS TypeOK TokensRemoved SeedComplete
PROPERTIES OthersSessions AtomicSeed
CHECK_DEADLOCK FALSE
