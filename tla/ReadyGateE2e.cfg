\* HTTP E2E owed; cancellation, a crash, racing requests, a recovery call
SPECIFICATION Spec
CONSTANTS
  Jobs = {j1, j2}
  Verifications = {v1}
  Calls = {c1, c2}
  NoCommit = NoCommit
  Operations = {"implement", "merge", "cancel", "complete"}
  ManualTargets = {}
  ConcurrentCalls = 2
  RequiresE2e = TRUE
  StoreOrdered = TRUE
  Stalls = TRUE
  Faults = TRUE
  MaxCrashes = 1
SYMMETRY Symmetry
INVARIANTS ReadyCommitVerified MergedCommitVerified
CHECK_DEADLOCK FALSE
