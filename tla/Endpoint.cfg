SPECIFICATION Spec
CONSTANTS
  Paths = {"a", "b"}
  DefaultPaths = {"a"}
  MaxEdits = 1
  MaxDisk = 2
  MaxFaults = 1
  Threads = {1, 2}
  MaxFileOps = 2
  MaxTicks = 2
  Devices = {"d", "e"}
  Nodes = {"sda"}
  MaxUsbOps = 4
  MaxUsbFaults = 1
  Jobs = {1, 2, 3}
  Restricted = {1}
  MaxPollFaults = 2
  Serials = {"s"}
  OthersActive = TRUE
  MaxChanges = 2
  MaxArrivals = 1
  MaxRestarts = 1
  OutgoingMails <- MCMails
  MaxMailFaults = 2
  Workers = {1, 2}
  Requests = {1, 2}
  ConnectorTypes = {"udp", "tcp", "elk"}
  MaxSiemOps = 3
  MaxFlips = 2
  MaxUnwritten = 1
  Kinds <- MCKinds
  Questions <- MCQuestions
  EventsFor <- MCEventsFor
  InForce <- MCInForce
  Catalogue <- MCCatalogue
  PageFinds <- MCPageFinds
  TypedTypes = {"card", "phone"}
  TypedByDefault = {"card"}
  ChatPrograms = {"a"}
  Others <- MCOthers
  Chunk = 2
INVARIANTS
  TypesOK
  BundleIsKept
  ContentReported
  PeripheralsToldApart
  BlockedForAReason
  
  SiemsAreFed
  PoliciesMeanTheForm
  MoreNeverMilder
  ReportsAreTrue
  ContentIsJudged
  MatchesAreAlerted
  ViewersAreShownTheirs
CHECK_DEADLOCK FALSE
