SPECIFICATION Spec
CONSTANTS
  Threads = {t1, t2}
  Events = {e1, e2, e3}
  Cap = 2
  Batch = 1
  TornWrites = TRUE
  MaxFaults = 2
  Garbage = Garbage
  NoEvent = NoEvent
  e1 = e1
  e2 = e2
  e3 = e3
  t1 = t1
  t2 = t2
SYMMETRY Symmetry
INVARIANTS
  CorruptLineNeverMerges
