SPECIFICATION Spec
CONSTANTS
  Threads = {t1, t2}
  Events = {e1, e2, e3, e4, e5}
  Cap = 3
  Batch = 2
  TornWrites = TRUE
  MaxFaults = 3
  Garbage = Garbage
  NoEvent = NoEvent
  e1 = e1
  e2 = e2
  e3 = e3
  e4 = e4
  e5 = e5
  t1 = t1
  t2 = t2
SYMMETRY Symmetry
INVARIANTS
  TypeOK
  NothingVanishes
