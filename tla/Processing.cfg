SPECIFICATION FairSpec
CONSTANTS
  Events = {e1, e2, e3}
  Users = {u1, u2}
  UserOf <- MCMixedUser
  Level <- MCMixedLevel
  Reported <- MCMixedReported
  Ruled = {e2, e3}
  Matched = {e2, e3}
  None = None
  Attempts = 2
  Repeats = 2
  Window = 1
  MaxTime = 0
  MaxFaults = 4
  MaxCrashes = 1
  MaxTriage = 0
  e1 = e1
  e2 = e2
  e3 = e3
  u1 = u1
  u2 = u2
CHECK_DEADLOCK FALSE
INVARIANTS
  TypeOK
  ReportedUnlessSwallowed
PROPERTIES
  EventsSettle
