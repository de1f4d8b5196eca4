SPECIFICATION Spec
CONSTANTS
  None = None
  r1 = r1
  r2 = r2
  h1 = h1
  h2 = h2
  Run = {r1, r2}
  Heads = {h1, h2}
  Merges = {m1}
  Written = {"actions", "updates"}
  MaxEvents = 1
  MaxRulesets = 2
  MaxStarts = 2
  MaxFaults = 1
SYMMETRY Symmetric
INVARIANTS TypeOK EvidenceFirst RerunUpdates Vouched
CHECK_DEADLOCK FALSE
