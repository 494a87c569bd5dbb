SPECIFICATION FairSpec
CONSTANTS
  Machines = {m1}
  Keyless = {}
  Legacy = {"host"}
  MaxStarts = 2
  MaxUpsets = 1
  NameOf <- OneName
PROPERTIES
  HeartbeatsRecover
CHECK_DEADLOCK FALSE
