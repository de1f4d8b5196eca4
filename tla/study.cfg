SPECIFICATION Spec
CONSTANTS
  u1 = u1  u2 = u2  d1 = d1  d2 = d2  c1 = c1  c2 = c2  r1 = r1  r2 = r2
  None = None
  User = {u1}
  Deck = {d1}
  Card = {c1}
  Request = {r1, r2}
  Traffic <- StudyTraffic
  Quality = {2, 5}
  MaxFailures = 1
  Day = 1
  MaxInterval = 6
  MaxClock = 2
SYMMETRY Symmetry
CHECK_DEADLOCK FALSE
INVARIANTS TypeOK ScheduleWellFormed ProgressBacked
