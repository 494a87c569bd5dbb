SPECIFICATION ServerSpec
CONSTANTS
  m1 = m1
  m2 = m2
  Machines = {m1, m2}
  Keyless = {}
  NameOf <- MCNameOf
  Legacy = {"host"}
  MaxStarts = 2
  MaxUpsets = 1
  Events = {"e1", "e2"}
  Posts = {1, 2}
  MaxVaultFaults = 1
  Polls = {1, 2}
  Kind <- MCKind
  Folders = {"f"}
  Protected = {"f"}
  MaxChanges = 2
  MaxTime = 2
  MaxPollFaults = 1
  People = {"p"}
  Addresses <- MCAddresses
  Provision = TRUE
  Logins = {1, 2}
  MaxAccounts = 2
  MaxAccountOps = 2
  Tabs = {1, 2}
  Limit = 1
  MaxSecrets = 2
  MaxRedisFaults = 1
  Workers = {1}
  Calls = {1, 2}
  RuleNames = {"a", "b", "c"}
  Seeded <- MCSeeded
  Choices <- MCChoices
  Ttl = 2
  TestTtl = 1
  MaxRules = 3
  MaxRewrites = 1
  MaxClears = 1
  MaxCalls = 2
  MaxClock = 2
  Admins = {"a", "b"}
  Priorities = {1, 2}
  MaxPolicies = 3
  MaxEdits = 2
  MaxToggles = 3
  Serials = {"s"}
  Agents = {"a", "b"}
  Approvals = {1, 2}
  MaxDecisions = 3
  MaxMoves = 3
  MaxFaults = 1
INVARIANTS
  TypesOK
  MachinesKeepOneDocument
  LinksMatchFiles
  ChangesAreNoticed
  PeopleKeepTheirAccounts
  RulesAreInForce
  DevicePagesAreRight
PROPERTIES
  CodeIsForever
CHECK_DEADLOCK FALSE
