SPECIFICATION FocusSpec
CONSTANTS
  w1 = w1  w2 = w2  a1 = a1  a2 = a2  p1 = p1  p2 = p2  x1 = x1  x2 = x2
  e1 = e1  e2 = e2  e3 = e3  s1 = s1  s2 = s2  s3 = s3
  Workers = {w1, w2}
  Agents = {a1, a2}
  Policies = {p1, p2}
  Admins = {x1, x2}
  Evals = {e1}
  Syncs = {s1, s3}
  AdminWorker <- MCAdminWorker
  EvalWorker <- MCEvalWorker
  SyncAgent <- MCSyncAgent
  Supported <- MCSupported
  EvalTTL = 1
  BundleTTL = 1
  MaxCommits = 3
  MaxFaults = 1
  NoBundle = NoBundle
  NoPolicy = NoPolicy
INVARIANTS
  TypeOK
  EvalSeesOwnWrites
  StaleOnlyByOverlap
  BundleIsForAgent
PROPERTIES
  DeleteIsFinal
