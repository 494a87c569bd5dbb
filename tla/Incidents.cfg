SPECIFICATION Spec
CONSTANTS
  Events = {e1, e2, e3}
  Users = {u1, u2}
  UserOf <- MCBurstUser
  Level <- MCBurstLevel
  Reported <- MCBurstReported
  Ruled = {e3}
  Matched = {e1, e2}
  None = None
  Attempts = 1
  Repeats = 3
  Window = 1
  MaxTime = 2
  MaxFaults = 0
  MaxCrashes = 0
  MaxTriage = 1
  e1 = e1
  e2 = e2
  e3 = e3
  u1 = u1
  u2 = u2
CHECK_DEADLOCK FALSE
INVARIANTS
  OneIncidentPerEvent
  SplitOnlyByRace
PROPERTIES
  SlipsOnlyByRace
