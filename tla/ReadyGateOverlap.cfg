\* Two runners on one task: racing requests, stalls, an outside review and merge
SPECIFICATION Spec
CONSTANTS
  Jobs = {j1, j2}
  Verifications = {}
  Calls = {c1, c2}
  NoCommit = NoCommit
  Operations = {"implement", "merge", "review"}
  ManualTargets = {}
  ConcurrentCalls = 2
  RequiresE2e = FALSE
  StoreOrdered = TRUE
  Stalls = TRUE
  Faults = TRUE
  MaxCrashes = 0
SYMMETRY Symmetry
INVARIANTS TypeOK ReadyCommitVerified MergedCommitVerified NeverAtRestInGate
CHECK_DEADLOCK FALSE
