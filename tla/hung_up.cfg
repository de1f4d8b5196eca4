SPECIFICATION Spec
CONSTANTS
  q1 = q1  q2 = q2  a1 = a1  a2 = a2
  Request = {q1, q2}
  Client = {a1}
  Routes = {"exempt", "ready", "document", "auth", "closed", "open", "cards", "deck"}
  Limit <- ServerLimit
  MaxWindows = 1
  Environments <- OneEnvironment
  MaxSignals = 2
  Deadline = 1
  MaxTicks = 2
CHECK_DEADLOCK FALSE
INVARIANTS WorkFinished
