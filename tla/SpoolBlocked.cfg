SPECIFICATION FairSpec
CONSTANTS
  Threads = {t1, t2}
  Events = {e1, e2}
  Cap = 2
  Batch = 1
  TornWrites = TRUE
  MaxFaults = 2
  Garbage = Garbage
  NoEvent = NoEvent
  e1 = e1
  e2 = e2
  t1 = t1
  t2 = t2
PROPERTIES
  FlushedAfterReconnect
