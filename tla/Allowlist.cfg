SPECIFICATION FairSpec
CONSTANTS
  Serials = {"s"}
  OthersActive = TRUE
  MaxEdits = 1
  MaxArrivals = 1
  MaxFaults = 0
PROPERTIES
  AllowlistIsWatched
CHECK_DEADLOCK FALSE
